---------------------------- MODULE MCEventStore ----------------------------
(* EventStore on a batch of two rows and two ticks of timeout.             *)
EXTENDS EventStore
=============================================================================

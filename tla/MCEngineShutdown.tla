-------------------------- MODULE MCEngineShutdown --------------------------
(* EngineShutdown with batches of two rows and up to two signals.          *)
EXTENDS EngineShutdown
=============================================================================

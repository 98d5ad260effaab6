------------------------------ MODULE EventLog ------------------------------
(***************************************************************************)
(* What the event store promises to the capture engine: rows of each kind  *)
(* are accepted one after the other, become durable in the order of their  *)
(* acceptance, all kinds together and once, and only rows that are not yet *)
(* durable may be lost when the process dies.                              *)
(***************************************************************************)
EXTENDS Naturals, Sequences

CONSTANTS
  Kinds,    (* kinds of rows: detected events, spectrum history   *)
  MaxRows   (* bound of the rows accepted of each kind            *)

VARIABLES
  issued,   \* rows accepted so far; they are numbered from 1
  pending,  \* accepted rows that a crash would lose
  durable   \* committed rows

logVars == <<issued, pending, durable>>

NoRows == [k \in Kinds |-> <<>>]

Init ==
  /\ issued = [k \in Kinds |-> 0]
  /\ pending = NoRows
  /\ durable = NoRows

Accept(k) ==
  /\ issued[k] < MaxRows
  /\ issued' = [issued EXCEPT ![k] = @ + 1]
  /\ pending' = [pending EXCEPT ![k] = Append(@, issued[k] + 1)]
  /\ UNCHANGED durable

Persist ==
  /\ durable' = [k \in Kinds |-> durable[k] \o pending[k]]
  /\ pending' = NoRows
  /\ UNCHANGED issued

Crash ==
  /\ pending' = NoRows
  /\ UNCHANGED <<issued, durable>>

Next == (\E k \in Kinds : Accept(k)) \/ Persist \/ Crash

Spec == Init /\ [][Next]_logVars
=============================================================================

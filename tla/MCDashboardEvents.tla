-------------------------- MODULE MCDashboardEvents --------------------------
(* DashboardEvents with a view of old events and one of recent events.     *)
EXTENDS DashboardEvents

MCViews == {[minT |-> 2, span |-> 1], [minT |-> 4, span |-> 1]}
=============================================================================

-------------------------- MODULE MCDashboardPanels --------------------------
(* DashboardPanels with a view chosen in the calendar, whose bounds are    *)
(* multiples of thirty seconds, and one chosen with the brush.             *)
EXTENDS DashboardPanels
=============================================================================

------------------------- MODULE MCDashboardSession -------------------------
(* The names of users and calls for TLC. *)
EXTENDS DashboardSession

CONSTANTS u1, u2, e1, c1
=============================================================================

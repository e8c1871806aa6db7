------------------------- MODULE MCDashboardSession -------------------------
(***************************************************************************)
(* The instance of DashboardSession for TLC: one user name, so that setups *)
(* of two browsers clash, and two slots, so that polls and answers overlap.*)
(***************************************************************************)
EXTENDS DashboardSession

CONSTANTS root, old

MCCallers == Slots \cup {Elsewhere}
=============================================================================

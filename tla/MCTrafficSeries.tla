--------------------------- MODULE MCTrafficSeries ---------------------------
(* Two clients, and two polls beside the collector.                          *)
EXTENDS TrafficSeries, TLC

CONSTANTS p, q, poll1, poll2

MCPeers == {p, q}
MCPolls == {poll1, poll2}
Symmetry == Permutations(MCPeers) \cup Permutations(MCPolls)
=============================================================================

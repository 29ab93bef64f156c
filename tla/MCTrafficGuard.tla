--------------------------- MODULE MCTrafficGuard ---------------------------
(***************************************************************************)
(* Symmetry of the addresses of TrafficGuard for TLC's safety runs, and    *)
(* the bound of its counter.                                               *)
(***************************************************************************)
EXTENDS TrafficGuard, TLC

\* DDoSing_count falls below 0 in normal traffic.
LowestCount == -1

SourceSymmetry == Permutations(Sources)
=============================================================================

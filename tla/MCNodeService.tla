--------------------------- MODULE MCNodeService ---------------------------
(* NodeService for TLC: interchangeable configurations and user lists.      *)
EXTENDS NodeService, TLC

CONSTANTS c1, c2, ua, ub

Symmetry == Permutations({c1, c2}) \cup Permutations({ua, ub})
=============================================================================

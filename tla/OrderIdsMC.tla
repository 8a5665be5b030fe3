----------------------------- MODULE OrderIdsMC -----------------------------
(* OrderIds for TLC: a shorter lease than in genid.go, with room for all   *)
(* retries of the heartbeat as there.                                      *)
EXTENDS OrderIds, TLC

CONSTANTS n1, n2, c1, c2

IdSymmetry == Permutations({n1, n2}) \cup Permutations({c1, c2})

=============================================================================

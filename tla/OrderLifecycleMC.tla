-------------------------- MODULE OrderLifecycleMC --------------------------
(* OrderLifecycle and its refinement for TLC: orders and workers are       *)
(* model values.                                                           *)
EXTENDS OrderImplementation, TLC

CONSTANTS t1, t2, p1, p2

(* Overlapping runs of one job are alike (not for liveness).               *)
JobSymmetry == Permutations({t1, t2}) \cup Permutations({p1, p2})

=============================================================================

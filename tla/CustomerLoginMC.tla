--------------------------- MODULE CustomerLoginMC ---------------------------
(* CustomerLogin for TLC.                                                  *)
EXTENDS CustomerLogin, TLC

CONSTANTS m1, c1, c2, o1, o2

MCCodes  == (<<m1, "Login">> :> c1) @@ (<<m1, "Reset">> :> c2)
MCTokens == <<o1, o2>>

Symmetry == UNION {Permutations(S) : S \in {Requests, Passwords}}
=============================================================================

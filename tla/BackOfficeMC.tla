----------------------------- MODULE BackOfficeMC -----------------------------
(* BackOffice for TLC: of two administrators one is there, with one role.   *)
EXTENDS BackOffice, TLC

CONSTANTS o1, a, b

MCTokens == 1 :> o1
MCRows   == (1 :> {[id |-> 1, role |-> 1]}) @@ (2 :> {})
MCLists  == {<<>>, <<2, 1>>}
MCSets   == {{a}, {b}}

Symmetry == Permutations(Requests)
=============================================================================

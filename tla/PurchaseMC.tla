------------------------------ MODULE PurchaseMC -----------------------------
(* Purchase for TLC: a course at 1 yuan and one at 1.50.                   *)
EXTENDS Purchase, TLC

CONSTANTS c1, c2, u1, u2

MCFirst == (c1 :> [price |-> 100, term |-> 1]) @@ (c2 :> [price |-> 150, term |-> 2])

CustomerSymmetry == Permutations(Customers)
OrderSymmetry    == Permutations(Orders)
Symmetry         == CustomerSymmetry \cup OrderSymmetry

=============================================================================

---------------------------- MODULE OrderRefundMC ----------------------------
(* OrderRefund for TLC: two items, and requests for one or both of them.   *)
EXTENDS OrderRefund, TLC

CONSTANTS o1, a, b, p1, p2

MCPrice == (a :> 1) @@ (b :> 2)

Request(no, items, amount) == [no |-> no, items |-> items, amount |-> amount]

\* Twice the same refund of a, one of b, one of everything in part, and
\* amounts that must be refused.
MCRequests == {Request(1, {a}, 1), Request(2, {a}, 1), Request(3, {b}, 1),
               Request(4, {a, b}, 3), Request(5, {a}, 2), Request(6, {b}, 0)}

=============================================================================

------------------------- MODULE OrderImplementation -------------------------
(***************************************************************************)
(* OrderLifecycle implements OrderContract when no call fails and none     *)
(* outlasts the order lock.  The goods of an order count as delivered when *)
(* the transaction that makes it Payed commits, although user_course has   *)
(* them a step earlier.                                                    *)
(***************************************************************************)
EXTENDS OrderLifecycle

Contract == INSTANCE OrderContract WITH
  state <- status,
  paid  <- [o \in Orders |-> trade[o] = "Paid"],
  goods <- [o \in Orders |-> IF status[o] = "Payed" THEN entitled[o] ELSE 0]

\* Every behaviour of the handlers and jobs, seen through this mapping, is
\* one the contract allows: in particular an order is delivered exactly
\* once, at the moment it becomes Payed, and never after it was cancelled.
ImplementsContract == Contract!Spec

=============================================================================

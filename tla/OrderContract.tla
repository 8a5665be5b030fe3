--------------------------- MODULE OrderContract ---------------------------
(***************************************************************************)
(* What the mall promises about an order, without locks, queues or jobs:   *)
(* it is placed; its price may be paid at Alipay; it is either delivered,  *)
(* once, in exchange for the payment, or cancelled, and that is final.     *)
(***************************************************************************)
EXTENDS Naturals

CONSTANT Orders

VARIABLES
  state,     \* "Absent", "WaitPay", "Payed" or "Cancel"
  paid,      \* has Alipay the customer's money?
  goods      \* how often the goods were delivered

vars == <<state, paid, goods>>

Init ==
  /\ state = [o \in Orders |-> "Absent"]
  /\ paid = [o \in Orders |-> FALSE]
  /\ goods = [o \in Orders |-> 0]

Place(o) ==
  /\ state[o] = "Absent"
  /\ state' = [state EXCEPT ![o] = "WaitPay"]
  /\ UNCHANGED <<paid, goods>>

\* Alipay takes the money of an order that was placed, even a cancelled one.
Pay(o) ==
  /\ state[o] # "Absent" /\ ~paid[o]
  /\ paid' = [paid EXCEPT ![o] = TRUE]
  /\ UNCHANGED <<state, goods>>

Deliver(o) ==
  /\ state[o] = "WaitPay" /\ paid[o]
  /\ state' = [state EXCEPT ![o] = "Payed"]
  /\ goods' = [goods EXCEPT ![o] = 1]
  /\ UNCHANGED paid

Cancel(o) ==
  /\ state[o] = "WaitPay"
  /\ state' = [state EXCEPT ![o] = "Cancel"]
  /\ UNCHANGED <<paid, goods>>

Next == \E o \in Orders : Place(o) \/ Pay(o) \/ Deliver(o) \/ Cancel(o)

Spec == Init /\ [][Next]_vars

=============================================================================

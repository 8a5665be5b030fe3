---------------------------- MODULE RefundContract ----------------------------
(***************************************************************************)
(* What the mall promises about the refunds of a paid order, without       *)
(* locks, jobs, transactions or failures.  Alipay accepts one refund and   *)
(* settles it.  The mall keeps a record of each refund it has asked for,   *)
(* takes the courses of a recorded refund away once it knows the result,   *)
(* and then, once and for good, records the result: a refund that was paid *)
(* adds its own amount to the total, which never shrinks and counts        *)
(* nothing twice.                                                          *)
(***************************************************************************)
EXTENDS Integers

CONSTANTS
  Items,     \* what was bought
  Requests,  \* the refunds that may be asked for: some items and an amount
  Price(_),  \* what was paid for a set of items
  Results,   \* how a refund may end
  None       \* no refund

VARIABLES
  state,     \* the order is "Payed" or "Refund"
  total,     \* what was refunded so far
  record,    \* "Absent", "Processing" or the result of a refund
  courses,   \* the items the customer can still use
  accepted,  \* the refund that Alipay has accepted
  answer     \* what Alipay says of it

vars == <<state, total, record, courses, accepted, answer>>

Recorded == {r \in Requests : record[r] # "Absent"}

Init ==
  /\ state = "Payed"
  /\ total = 0
  /\ record = [r \in Requests |-> "Absent"]
  /\ courses = Items
  /\ accepted = None
  /\ answer = "None"

\* A refund may be asked for while the order is not refunded, and for no
\* more than its items cost.
MayAsk(r) == state = "Payed" /\ 0 < r.amount /\ r.amount <= Price(r.items)

Accept(r) ==
  /\ MayAsk(r)
  /\ accepted = None
  /\ accepted' = r /\ answer' = "Processing"
  /\ UNCHANGED <<state, total, record, courses>>

\* A second refund of the same amount is the same one to Alipay.
Record(r) ==
  /\ MayAsk(r)
  /\ record[r] = "Absent"
  /\ accepted # None /\ r.amount = accepted.amount
  /\ record' = [record EXCEPT ![r] = "Processing"]
  /\ UNCHANGED <<state, total, courses, accepted, answer>>

Settle ==
  /\ answer = "Processing" /\ answer' \in Results
  /\ UNCHANGED <<state, total, record, courses, accepted>>

Revoke(r) ==
  /\ record[r] = "Processing" /\ answer \in Results
  /\ courses' = courses \ r.items
  /\ UNCHANGED <<state, total, record, accepted, answer>>

\* The order is refunded when all its money is, or when refunds of all its
\* items were asked for.
Finish(r) ==
  /\ record[r] = "Processing" /\ answer \in Results
  /\ r.items \cap courses = {}
  /\ record' = [record EXCEPT ![r] = answer]
  /\ IF answer = "Done"
     THEN /\ total' = total + r.amount
          /\ state' = IF \/ total + r.amount >= Price(Items)
                         \/ UNION {q.items : q \in Recorded} = Items
                      THEN "Refund" ELSE state
     ELSE UNCHANGED <<state, total>>
  /\ UNCHANGED <<courses, accepted, answer>>

Next ==
  \/ \E r \in Requests : Accept(r) \/ Record(r) \/ Revoke(r) \/ Finish(r)
  \/ Settle

Spec == Init /\ [][Next]_vars

=============================================================================

----------------------------- MODULE OrderRefund -----------------------------
(***************************************************************************)
(* The refunds of one paid order: OrderRefund, by which the back office    *)
(* asks Alipay for a refund of some items, and QueryOrderRefundResult, by  *)
(* which runs of the refund job learn what became of it                    *)
(* (service/order/admin.go), with the transactions CreatOrderRefund and    *)
(* UpdateOrderRefundResult (adaptor/repo/order/order.go), the order lock   *)
(* and the hash of polled refunds (adaptor/redis/order.go).                *)
(*                                                                         *)
(* As in OrderLifecycle every call is a step, may fail with or without     *)
(* having taken effect, and its worker may crash; MaxFaults bounds how     *)
(* often.  A request inserts at most one row, so rows are named after the  *)
(* requests.                                                               *)
(***************************************************************************)
EXTENDS Integers, FiniteSetsExt

CONSTANTS
  Order,        \* the order
  Items,        \* its items
  Price,        \* what was paid for each
  Requests,     \* the refunds that may be asked for, see RequestSet
  PollJobs,     \* the concurrent runs of OrderRefundQuery
  Results,      \* the final results Alipay may report
  SlowCalls,    \* may a call outlast the ten seconds of the order lock?
  MaxRequests,  \* bound: requests in a behaviour
  MaxFaults,    \* bound: failed calls and crashes in a behaviour
  None          \* no worker, no request

\* A refund of some items; no tells equal requests apart.
RequestSet == [no : Nat, items : SUBSET Items \ {{}}, amount : Int]

Workers == PollJobs \cup Requests

AmountOf(S) == MapThenSumSet(LAMBDA r : r.amount, S)
PriceOf(I)  == MapThenSumSet(LAMBDA i : Price[i], I)
PaymentAmount == PriceOf(Items)

ASSUME RefundAssumption ==
  /\ Requests \subseteq RequestSet
  /\ IsFiniteSet(Requests)
  /\ PollJobs \cap Requests = {}
  /\ Results \subseteq {"Done", "Exception"}
  /\ SlowCalls \in BOOLEAN
  /\ MaxRequests \in Nat
  /\ MaxFaults \in Nat
  /\ None \notin Workers

VARIABLES
  \* MySQL
  status,        \* orders.status: "Payed" or "Refund"
  refundAmount,  \* orders.refund_amount
  refund,        \* order_refunds.status of the row a request inserted
  id,            \* order_refunds.id of that row
  owned,         \* the items of the order that are in user_course_goods
  \* redis
  polled,        \* the hash of orders whose refund is polled
  lock,          \* the worker whose uuid is the value of the order's lock
  \* Alipay
  taken,         \* the request whose refund Alipay has accepted
  answer,        \* what Alipay reports of it
  \* goroutines
  pc,            \* what a worker does next
  cur,           \* the row a poll works on
  found,         \* the items it found in refunds of the order
  sum,           \* the total it has written to the order
  faults         \* failed calls and crashes so far

rowVars    == <<refund, id>>
orderVars  == <<status, refundAmount>>
mysqlVars  == <<orderVars, rowVars, owned>>
redisVars  == <<polled, lock>>
alipayVars == <<taken, answer>>
localVars  == <<cur, found, sum>>
vars == <<mysqlVars, redisVars, alipayVars, pc, localVars, faults>>

(* "Open" is a row that only its transaction sees.                         *)
RefundStatus == {"Absent", "Open", "Processing", "Done", "Exception"}
Committed    == {"Processing", "Done", "Exception"}
Rows         == {r \in Requests : refund[r] \in Committed}
DoneRows     == {r \in Requests : refund[r] = "Done"}

(* Where a worker stands.  A poll in OfRow has locked its row of           *)
(* order_refunds in a transaction, one in OfOrder that of orders as well.  *)
Outside  == {"Idle", "Lock", "End"}
Creating == {"Validate", "Enqueue", "Insert", "Refund", "Commit"}
OfOrder  == {"Revoke", "Finish"}
OfRow    == {"Sum", "Order"} \cup OfOrder
Polling  == {"Read", "Query", "List", "Mark"} \cup OfRow
Critical == Creating \cup Polling \cup {"Dequeue", "UnLock"}

TypeOK ==
  /\ status \in {"Payed", "Refund"}
  /\ refundAmount \in {AmountOf(S) : S \in SUBSET Requests}
  /\ refund \in [Requests -> RefundStatus]
  /\ id \in [Requests -> Nat]
  /\ owned \subseteq Items
  /\ polled \subseteq {Order}
  /\ lock \in Workers \cup {None}
  /\ taken \in Requests \cup {None}
  /\ answer \in {"None", "Processing"} \cup Results
  /\ pc \in [Workers -> Outside \cup Critical]
  /\ cur \in [PollJobs -> Requests \cup {None}]
  /\ found \in [PollJobs -> SUBSET Items]
  /\ sum \in [PollJobs -> {AmountOf(S) : S \in SUBSET Requests}]
  /\ faults \in 0 .. MaxFaults
  /\ taken = None <=> answer = "None"
  /\ \A w \in PollJobs :
       /\ pc[w] \notin Creating
       /\ pc[w] \in Polling \ {"Read"} => cur[w] \in Requests
       /\ pc[w] \in Polling \ {"Read", "Query"} => answer \in Results
  /\ \A w \in Requests : pc[w] \notin Polling

Init ==
  /\ status = "Payed"
  /\ refundAmount = AmountOf({})
  /\ refund = [r \in Requests |-> "Absent"]
  /\ id = [r \in Requests |-> 0]
  /\ owned = Items
  /\ polled = {}
  /\ lock = None
  /\ taken = None
  /\ answer = "None"
  /\ pc = [w \in Workers |-> "Idle"]
  /\ cur = [w \in PollJobs |-> None]
  /\ found = [w \in PollJobs |-> {}]
  /\ sum = [w \in PollJobs |-> AmountOf({})]
  /\ faults = 0

-----------------------------------------------------------------------------
NoFault == UNCHANGED faults
Fault   == faults < MaxFaults /\ faults' = faults + 1

At(w, label) == pc[w] = label
Goes(w, label) == pc' = [pc EXCEPT ![w] = label]
GoTo(w, label) == Goes(w, label) /\ UNCHANGED localVars

Forget(w) ==
  /\ cur' = [v \in PollJobs |-> IF v = w THEN None ELSE cur[v]]
  /\ found' = [v \in PollJobs |-> IF v = w THEN {} ELSE found[v]]
  /\ sum' = [v \in PollJobs |-> IF v = w THEN AmountOf({}) ELSE sum[v]]

\* The handler returns: a request is answered, a job waits for its next run.
Return(w) == Goes(w, IF w \in Requests THEN "End" ELSE "Idle") /\ Forget(w)

\* MySQL undoes what the open transaction of w did.
RollBack(w) ==
  /\ refund' = [r \in Requests |-> IF r = w /\ refund[r] = "Open"
                                   THEN "Absent" ELSE refund[r]]
  /\ UNCHANGED <<orderVars, id, owned>>

-----------------------------------------------------------------------------
(* The lock, shared by both handlers.                                      *)

RequestRefund(w) ==
  /\ w \in Requests /\ At(w, "Idle")
  /\ Cardinality({r \in Requests : pc[r] # "Idle"}) < MaxRequests
  /\ GoTo(w, "Lock")
  /\ UNCHANGED <<mysqlVars, redisVars, alipayVars, faults>>

\* GetOrderRefundResult: a run of the job finds the order in the hash.
StartJob(w) ==
  /\ w \in PollJobs /\ At(w, "Idle")
  /\ Order \in polled
  /\ GoTo(w, "Lock")
  /\ UNCHANGED <<mysqlVars, redisVars, alipayVars, faults>>

GetOrderLock(w) ==
  LET locked == IF lock = None THEN w ELSE lock IN
  /\ At(w, "Lock")
  /\ \/ /\ lock' = locked /\ NoFault
        /\ IF lock = None
           THEN GoTo(w, IF w \in Requests THEN "Validate" ELSE "Read")
           ELSE Return(w)
     \/ Fault /\ lock' \in {lock, locked} /\ Return(w)
  /\ UNCHANGED <<mysqlVars, polled, alipayVars>>

UnLockOrder(w) ==
  /\ At(w, "UnLock")
  /\ \/ NoFault /\ lock' = (IF lock = w THEN None ELSE lock)
     \/ Fault /\ UNCHANGED lock
  /\ Return(w)
  /\ UNCHANGED <<mysqlVars, polled, alipayVars>>

\* The ten seconds are over, see OrderLifecycle.
LockExpires ==
  /\ lock # None
  /\ SlowCalls \/ pc[lock] \notin Critical
  /\ lock' = None
  /\ UNCHANGED <<mysqlVars, polled, alipayVars, pc, localVars, faults>>

-----------------------------------------------------------------------------
(* OrderRefund.                                                            *)

\* The reads and tests before anything is changed.
Validate(w) ==
  /\ At(w, "Validate")
  /\ \/ /\ NoFault
        /\ GoTo(w, IF /\ status = "Payed"
                      /\ 0 < w.amount /\ w.amount <= PriceOf(w.items)
                   THEN "Enqueue" ELSE "UnLock")
     \/ Fault /\ GoTo(w, "UnLock")
  /\ UNCHANGED <<mysqlVars, redisVars, alipayVars>>

SetOrderRefundResult(w) ==
  /\ At(w, "Enqueue")
  /\ \/ NoFault /\ polled' = {Order} /\ GoTo(w, "Insert")
     \/ Fault /\ polled' \in {polled, {Order}} /\ GoTo(w, "UnLock")
  /\ UNCHANGED <<mysqlVars, lock, alipayVars>>

\* CreatOrderRefund: insert the row, ask Alipay in the same transaction,
\* commit.  Row ids grow with every insert.
InsertRefund(w) ==
  /\ At(w, "Insert")
  /\ \/ /\ NoFault
        /\ refund' = [refund EXCEPT ![w] = "Open"]
        /\ id' = [id EXCEPT ![w] =
                    Cardinality({r \in Requests : id[r] > 0}) + 1]
        /\ GoTo(w, "Refund")
     \/ Fault /\ UNCHANGED rowVars /\ GoTo(w, "Dequeue")
  /\ UNCHANGED <<orderVars, owned, redisVars, alipayVars>>

\* Alipay (external) accepts one refund under the number of the trade, the
\* only number the code gives it.  Asked again under that number it agrees
\* to the same amount, without paying again, and refuses any other.  It may
\* refuse a first refund for lack of funds.
SameAmount(w) == taken # None /\ w.amount = taken.amount

Accepts(w) == taken = None /\ taken' = w /\ answer' = "Processing"
Repeats(w) == SameAmount(w) /\ UNCHANGED alipayVars
Refuses(w) == ~SameAmount(w) /\ UNCHANGED alipayVars

\* Wrong: a refund that Alipay has accepted but not settled is an error.
RefundOrderUnconfirmed(w) ==
  /\ At(w, "Refund")
  /\ NoFault /\ (Accepts(w) \/ Refuses(w))
  /\ GoTo(w, "Dequeue") /\ RollBack(w)
  /\ UNCHANGED redisVars

\* Wrong: a refund is recorded although Alipay refused it.
RefundOrderUnchecked(w) ==
  /\ At(w, "Refund")
  /\ \/ NoFault /\ (Accepts(w) \/ Repeats(w) \/ Refuses(w)) /\ GoTo(w, "Commit")
        /\ UNCHANGED mysqlVars
     \/ Fault /\ UNCHANGED alipayVars /\ GoTo(w, "Dequeue") /\ RollBack(w)
  /\ UNCHANGED redisVars

RefundOrder(w) ==
  /\ At(w, "Refund")
  /\ \/ /\ NoFault /\ (Accepts(w) \/ Repeats(w))
        /\ GoTo(w, "Commit") /\ UNCHANGED mysqlVars
     \/ /\ NoFault /\ Refuses(w)
        /\ GoTo(w, "Dequeue") /\ RollBack(w)
     \/ /\ Fault /\ (Accepts(w) \/ UNCHANGED alipayVars)
        /\ GoTo(w, "Dequeue") /\ RollBack(w)
  /\ UNCHANGED redisVars

CommitRefund(w) ==
  /\ At(w, "Commit")
  /\ \/ /\ NoFault
        /\ refund' = [refund EXCEPT ![w] = "Processing"]
        /\ GoTo(w, "UnLock")
     \/ /\ Fault
        /\ refund' \in {[refund EXCEPT ![w] = "Processing"],
                        [refund EXCEPT ![w] = "Absent"]}
        /\ GoTo(w, "Dequeue")
  /\ UNCHANGED <<orderVars, id, owned, redisVars, alipayVars>>

\* Also the last call of QueryOrderRefundResult.
DelOrderRefundResult(w) ==
  /\ At(w, "Dequeue")
  /\ \/ NoFault /\ polled' = {}
     \/ Fault /\ UNCHANGED polled
  /\ GoTo(w, "UnLock")
  /\ UNCHANGED <<mysqlVars, lock, alipayVars>>

-----------------------------------------------------------------------------
(* QueryOrderRefundResult.                                                 *)

\* Rows in progress come before all others, the youngest of them first; the
\* poll has nothing to do for any other row.
Youngest(r) == /\ refund[r] = "Processing"
               /\ \A q \in Requests : refund[q] = "Processing" => id[q] <= id[r]

GetOrderRefundByOrderID(w) ==
  /\ At(w, "Read")
  /\ \/ /\ NoFault
        /\ \E r \in Requests : Youngest(r) /\ cur' = [cur EXCEPT ![w] = r]
        /\ Goes(w, "Query") /\ UNCHANGED <<found, sum>>
     \/ /\ NoFault
        /\ \A r \in Requests : refund[r] # "Processing"
        /\ GoTo(w, "Dequeue")
     \/ Fault /\ GoTo(w, "UnLock")
  /\ UNCHANGED <<mysqlVars, redisVars, alipayVars>>

\* Wrong: any answer is taken for a result.
QueryRefundAnswered(w) ==
  /\ At(w, "Query")
  /\ GoTo(w, IF answer # "None" THEN "List" ELSE "UnLock")
  /\ UNCHANGED <<mysqlVars, redisVars, alipayVars, faults>>

\* Wrong: a refund still in progress is no longer polled.
QueryRefundOnce(w) ==
  /\ At(w, "Query")
  /\ GoTo(w, IF answer \in Results THEN "List" ELSE "Dequeue")
  /\ UNCHANGED <<mysqlVars, redisVars, alipayVars, faults>>

\* GetOrderByID and QueryRefund.
QueryRefund(w) ==
  /\ At(w, "Query")
  /\ \/ NoFault /\ GoTo(w, IF answer \in Results THEN "List" ELSE "UnLock")
     \/ Fault /\ GoTo(w, "UnLock")
  /\ UNCHANGED <<mysqlVars, redisVars, alipayVars>>

(* UpdateOrderRefundResult: first, and not yet in its transaction, whether *)
(* the refunds of the order cover all items; then one transaction.         *)
ListRefunds(w) ==
  /\ At(w, "List")
  /\ \/ /\ NoFault
        /\ found' = [found EXCEPT ![w] = UNION {r.items : r \in Rows}]
        /\ Goes(w, "Mark") /\ UNCHANGED <<cur, sum>>
     \/ Fault /\ GoTo(w, "UnLock")
  /\ UNCHANGED <<mysqlVars, redisVars, alipayVars>>

\* The update of the row, which waits for the lock of the row.
MarkRefund(w) ==
  /\ At(w, "Mark")
  /\ \A v \in PollJobs : cur[v] = cur[w] => pc[v] \notin OfRow
  /\ \/ NoFault /\ GoTo(w, IF answer = "Done" THEN "Sum" ELSE "Revoke")
     \/ Fault /\ GoTo(w, "UnLock")
  /\ UNCHANGED <<mysqlVars, redisVars, alipayVars>>

\* Wrong: the sum is read outside the transaction.
SumRefundsOutside(w) ==
  /\ At(w, "Sum")
  /\ sum' = [sum EXCEPT ![w] = AmountOf(DoneRows)]
  /\ Goes(w, "Order")
  /\ UNCHANGED <<mysqlVars, redisVars, alipayVars, cur, found, faults>>

\* The transaction sees the committed rows and its own.
SumRefunds(w) ==
  /\ At(w, "Sum")
  /\ \/ /\ NoFault
        /\ sum' = [sum EXCEPT ![w] = AmountOf(DoneRows \cup {cur[w]})]
        /\ Goes(w, "Order") /\ UNCHANGED <<cur, found>>
     \/ Fault /\ GoTo(w, "UnLock")
  /\ UNCHANGED <<mysqlVars, redisVars, alipayVars>>

UpdateOrder(w) ==
  /\ At(w, "Order")
  /\ \A v \in PollJobs : pc[v] \notin OfOrder
  /\ \/ NoFault /\ GoTo(w, "Revoke")
     \/ Fault /\ GoTo(w, "UnLock")
  /\ UNCHANGED <<mysqlVars, redisVars, alipayVars>>

\* Wrong: commits even if the courses were not deleted.
DeleteUserCourseUnchecked(w) ==
  /\ At(w, "Revoke")
  /\ \/ NoFault /\ owned' = owned \ cur[w].items
     \/ Fault /\ UNCHANGED owned
  /\ GoTo(w, "Finish")
  /\ UNCHANGED <<orderVars, rowVars, redisVars, alipayVars>>

\* Not part of the transaction: it commits on its own.
DeleteUserCourse(w) ==
  /\ At(w, "Revoke")
  /\ \/ NoFault /\ owned' = owned \ cur[w].items /\ GoTo(w, "Finish")
     \/ Fault /\ owned' \in {owned, owned \ cur[w].items} /\ GoTo(w, "UnLock")
  /\ UNCHANGED <<orderVars, rowVars, redisVars, alipayVars>>

\* Wrong: the order is updated whatever the result is.
RecordResultAlways(w) ==
  /\ refund' = [refund EXCEPT ![cur[w]] = answer]
  /\ refundAmount' = sum[w]
  /\ status' = IF sum[w] >= PaymentAmount \/ found[w] = Items THEN "Refund" ELSE status
  /\ UNCHANGED <<id, owned>>

RecordResult(w) ==
  /\ refund' = [refund EXCEPT ![cur[w]] = answer]
  /\ IF answer = "Done"
     THEN /\ refundAmount' = sum[w]
          /\ status' = IF sum[w] >= PaymentAmount \/ found[w] = Items
                       THEN "Refund" ELSE status
     ELSE UNCHANGED orderVars
  /\ UNCHANGED <<id, owned>>

CommitResult(w) ==
  /\ At(w, "Finish")
  /\ \/ NoFault /\ RecordResult(w) /\ GoTo(w, "Dequeue")
     \/ Fault /\ (RecordResult(w) \/ UNCHANGED mysqlVars) /\ GoTo(w, "UnLock")
  /\ UNCHANGED <<redisVars, alipayVars>>

-----------------------------------------------------------------------------
\* Alipay (external) settles the refund; what it then reports is final.
AlipaySettles ==
  /\ answer = "Processing" /\ answer' \in Results
  /\ UNCHANGED <<mysqlVars, redisVars, taken, pc, localVars, faults>>

\* The server of a worker stops: MySQL rolls back, redis keeps the lock.
Crash(w) ==
  /\ pc[w] \notin {"Idle", "End"}
  /\ Fault
  /\ Return(w) /\ RollBack(w)
  /\ UNCHANGED <<redisVars, alipayVars>>

Refund(w) ==
  /\ w \in Requests
  /\ \/ Validate(w) \/ SetOrderRefundResult(w)
     \/ InsertRefund(w) \/ RefundOrder(w) \/ CommitRefund(w)

Poll(w) ==
  /\ w \in PollJobs
  /\ \/ GetOrderRefundByOrderID(w) \/ QueryRefund(w) \/ ListRefunds(w)
     \/ MarkRefund(w) \/ SumRefunds(w) \/ UpdateOrder(w)
     \/ DeleteUserCourse(w) \/ CommitResult(w)

Handle(w) == \/ GetOrderLock(w) \/ Refund(w) \/ Poll(w)
             \/ DelOrderRefundResult(w) \/ UnLockOrder(w)

Next ==
  \/ \E w \in Workers : RequestRefund(w) \/ StartJob(w) \/ Handle(w) \/ Crash(w)
  \/ LockExpires \/ AlipaySettles

Spec == Init /\ [][Next]_vars

(* Fairness: servers run, the scheduler starts its job again and again,    *)
(* locks expire and Alipay settles what it accepted.                       *)
Fairness ==
  /\ \A w \in Workers : WF_vars(Handle(w))
  /\ \A w \in PollJobs : WF_vars(StartJob(w))
  /\ WF_vars(LockExpires) /\ WF_vars(AlipaySettles)

FairSpec == Spec /\ Fairness

-----------------------------------------------------------------------------
(* What the lock gives when no call outlasts it.                           *)

\* The total on the order is the sum of its refunds that are done, whatever
\* fails half-way: both are written in one transaction, and no other poll
\* writes between the sum and the commit.
RefundAmountIsDone == refundAmount = AmountOf(DoneRows)

\* The only refund asked for an order is polled as long as it is in
\* progress, unless something failed: the poll never gives up on a row whose
\* transaction it cannot see yet or whose result is not final.
LoneRefundIsQueued ==
  \A r \in Requests :
    /\ refund[r] = "Processing" /\ faults = 0
    /\ \A q \in Requests \ {r} : pc[q] = "Idle"
    => Order \in polled

\* Money that Alipay refunds has a row, unless something failed or the
\* request is about to commit it.
UnrecordedNeedsFault ==
  taken # None /\ faults = 0 => taken \in Rows \/ pc[taken] = "Commit"

-----------------------------------------------------------------------------
(* What holds even when locks expire under their owners.                   *)

\* A refund that shows as done rests on a payment of its amount that Alipay
\* has made, never on a refused request or another's result, and its courses
\* are gone.  It need not be a payment of its own: the code gives Alipay no
\* number for a request, so a refund that is asked for again with the same
\* amount is done on the strength of the one payment there was.
DoneRestsOnPayment ==
  \A r \in DoneRows : answer = "Done" /\ SameAmount(r) /\ r.items \cap owned = {}

\* Courses are taken away only for a refund whose result is known, and only
\* those of a row that is recorded.
RevokedNeedsAnswer ==
  \A i \in Items \ owned : answer \in Results /\ \E r \in Rows : i \in r.items

\* An order shows as refunded only if one of its refunds is done.
RefundedNeedsDone == status = "Refund" => DoneRows # {}

-----------------------------------------------------------------------------
(* Liveness, under FairSpec.                                               *)

\* A refund in progress that was left to the poll, and that no other request
\* comes after, reaches a result, though calls of the poll fail and its runs
\* crash a few times.
RefundSettles ==
  \A r \in Requests :
    refund[r] = "Processing" /\ Order \in polled /\ pc[r] = "End"
      ~> refund[r] # "Processing" \/ \E q \in Requests \ {r} : pc[q] # "Idle"

-----------------------------------------------------------------------------
(* OrderRefund implements RefundContract when no call outlasts the order   *)
(* lock, however calls fail and workers crash.  A row that only its        *)
(* transaction sees is not a record yet.                                   *)
Contract == INSTANCE RefundContract WITH
  Price    <- PriceOf,
  state    <- status,
  total    <- refundAmount,
  record   <- [r \in Requests |-> IF refund[r] = "Open" THEN "Absent" ELSE refund[r]],
  courses  <- owned,
  accepted <- taken

\* Seen from outside, whatever the polls and requests do side by side is one
\* refund after the other: each adds its amount to the total once, after its
\* courses are gone, and a result that is recorded stays.
RefundKeepsContract == Contract!Spec

=============================================================================

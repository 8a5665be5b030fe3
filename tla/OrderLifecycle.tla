--------------------------- MODULE OrderLifecycle ---------------------------
(***************************************************************************)
(* The life of an order of the mall, from OrderPayNow to payment or        *)
(* cancellation: service/order/{customer,cancel,timeout,payment}.go, the   *)
(* repository calls they make (adaptor/repo/order/order.go), the keys they *)
(* keep in redis (adaptor/redis/order.go) and the two timers that drive    *)
(* them (timer/order.go).  Refunds, which start where this module ends,    *)
(* are in OrderRefund.                                                     *)
(*                                                                         *)
(* The goroutines are the workers: one-shot HTTP requests that cancel an   *)
(* order, and runs of the timeout job and of the payment-poll job, which   *)
(* overlap because the scheduler starts a job whether or not the previous  *)
(* run of it has ended, and because several servers may run the timers.    *)
(* Every call to MySQL, redis or Alipay is a step of its own.  A call may  *)
(* fail, with or without having taken effect, and a worker may crash; the  *)
(* faults of a behaviour are bounded by MaxFaults.                         *)
(***************************************************************************)
EXTENDS Naturals

CONSTANTS
  Orders,        \* the orders that may be placed
  TimeoutJobs,   \* the concurrent runs of OrderTimeOutCancel
  PollJobs,      \* the concurrent runs of OrderPayResultQuery
  Requests,      \* the cancel requests of customers and of the back office
  InvalidGoods,  \* orders of goods whose learn or service time is not valid
  SlowCalls,     \* may a call outlast the ten seconds of the order lock?
  MaxFaults,     \* bound: failed calls and crashes in a behaviour
  MaxAge,        \* bound on the clock of an order, see the ages below
  None           \* no worker, no order

Workers == TimeoutJobs \cup PollJobs \cup Requests

(* What has become of an order since OrderPayNow put it into redis.        *)
Fresh  == 0      \* at most 5 minutes old: the poll job asks Alipay
Stale  == 1      \* older than that: the poll job forgets it
Due    == 2      \* older than 30 minutes: the timeout job cancels it
Missed == 3      \* older than 7 days: outside the range the job reads

ASSUME ConstantAssumption ==
  /\ TimeoutJobs \cap PollJobs = {}
  /\ (TimeoutJobs \cup PollJobs) \cap Requests = {}
  /\ InvalidGoods \subseteq Orders
  /\ SlowCalls \in BOOLEAN
  /\ MaxFaults \in Nat
  /\ MaxAge \in {Due, Missed}
  /\ None \notin Workers
  /\ None \notin Orders

VARIABLES
  \* MySQL
  status,        \* orders.status, "Absent" before the row is inserted
  entitled,      \* how often the goods of the order were put in user_course
  \* redis
  polled,        \* the hash of orders whose payment is polled
  scheduled,     \* the sorted set of orders to be cancelled in time
  lock,          \* the worker whose uuid is the value of the order's lock
  \* Alipay
  trade,         \* the trade with the order's inner_trade_no
  \* goroutines
  creating,      \* how far OrderPayNow has come with the order
  pc,            \* what a worker does next
  ord,           \* the order it works on
  todo,          \* the rest of the orders the run of a job has read
  \* the environment
  age,           \* time since the order was put into redis
  faults         \* failed calls and crashes so far

mysqlVars  == <<status, entitled>>
redisVars  == <<polled, scheduled, lock>>
workerVars == <<pc, ord, todo>>
vars == <<mysqlVars, redisVars, trade, creating, workerVars, age, faults>>

OrderStatus == {"Absent", "WaitPay", "Payed", "Cancel"}
TradeStatus == {"None", "Waiting", "Paid", "Closed"}
CreateStep  == {"Start", "Row", "Signed", "Polled", "Done", "Failed"}

(* A worker in Outside has no order; in Critical it runs between           *)
(* GetOrderLock and UnLockOrder; in PayTx it has written the order row in  *)
(* a transaction that is not yet committed, and so holds the row's lock.   *)
Outside  == {"Idle", "Next", "Done"}
PayTx    == {"Deliver", "Commit"}
Critical == {"Read", "Cancel", "Close", "Query", "Pay", "DelTimeout",
             "DelPoll", "UnLock"} \cup PayTx

TypeOK ==
  /\ status \in [Orders -> OrderStatus]
  /\ entitled \in [Orders -> Nat]
  /\ polled \subseteq Orders
  /\ scheduled \subseteq Orders
  /\ lock \in [Orders -> Workers \cup {None}]
  /\ trade \in [Orders -> TradeStatus]
  /\ creating \in [Orders -> CreateStep]
  /\ pc \in [Workers -> Outside \cup {"Drop", "Lock"} \cup Critical]
  /\ ord \in [Workers -> Orders \cup {None}]
  /\ todo \in [Workers -> SUBSET Orders]
  /\ age \in [Orders -> 0 .. MaxAge]
  /\ faults \in 0 .. MaxFaults
  /\ \A w \in Workers : pc[w] \notin Outside => ord[w] \in Orders

Init ==
  /\ status = [o \in Orders |-> "Absent"]
  /\ entitled = [o \in Orders |-> 0]
  /\ polled = {}
  /\ scheduled = {}
  /\ lock = [o \in Orders |-> None]
  /\ trade = [o \in Orders |-> "None"]
  /\ creating = [o \in Orders |-> "Start"]
  /\ pc = [w \in Workers |-> "Idle"]
  /\ ord = [w \in Workers |-> None]
  /\ todo = [w \in Workers |-> {}]
  /\ age = [o \in Orders |-> Fresh]
  /\ faults = 0

-----------------------------------------------------------------------------
(* Steps of a worker, and faults.                                          *)

NoFault == UNCHANGED faults
Fault   == faults < MaxFaults /\ faults' = faults + 1

GoTo(w, label) == pc' = [pc EXCEPT ![w] = label] /\ UNCHANGED <<ord, todo>>

\* The handler returns: a request is answered, a job takes its next order.
Return(w) ==
  /\ pc' = [pc EXCEPT ![w] = IF w \in Requests THEN "Done"
                             ELSE IF todo[w] = {} THEN "Idle" ELSE "Next"]
  /\ ord' = [ord EXCEPT ![w] = None]
  /\ UNCHANGED todo

At(w, label) == pc[w] = label

\* The row of o is locked by a transaction of another worker.
RowLocked(o) == \E w \in Workers : ord[w] = o /\ pc[w] \in PayTx

-----------------------------------------------------------------------------
(* OrderPayNow.  It takes no lock.  An error return leaves everything done *)
(* so far as it is; "Failed" also stands for a server that crashed.        *)

CreateOrder(o) ==
  /\ creating[o] = "Start"
  /\ \/ /\ NoFault
        /\ status' = [status EXCEPT ![o] = "WaitPay"]
        /\ creating' = [creating EXCEPT ![o] = "Row"]
     \/ /\ Fault
        /\ status' \in {status, [status EXCEPT ![o] = "WaitPay"]}
        /\ creating' = [creating EXCEPT ![o] = "Failed"]
  /\ UNCHANGED <<entitled, redisVars, trade, workerVars, age>>

PagePrePayOrder(o) ==
  /\ creating[o] = "Row"
  /\ \/ NoFault /\ creating' = [creating EXCEPT ![o] = "Signed"]
     \/ Fault /\ creating' = [creating EXCEPT ![o] = "Failed"]
  /\ UNCHANGED <<mysqlVars, redisVars, trade, workerVars, age>>

SetOrderPayResult(o) ==
  /\ creating[o] = "Signed"
  /\ \/ /\ NoFault
        /\ polled' = polled \cup {o}
        /\ creating' = [creating EXCEPT ![o] = "Polled"]
     \/ /\ Fault
        /\ polled' \in {polled, polled \cup {o}}
        /\ creating' = [creating EXCEPT ![o] = "Failed"]
  /\ UNCHANGED <<mysqlVars, scheduled, lock, trade, workerVars, age>>

\* After this the customer is given the URL of the payment page.
SetTimeoutOrderCancel(o) ==
  /\ creating[o] = "Polled"
  /\ \/ /\ NoFault
        /\ scheduled' = scheduled \cup {o}
        /\ creating' = [creating EXCEPT ![o] = "Done"]
     \/ /\ Fault
        /\ scheduled' \in {scheduled, scheduled \cup {o}}
        /\ creating' = [creating EXCEPT ![o] = "Failed"]
  /\ UNCHANGED <<mysqlVars, polled, lock, trade, workerVars, age>>

OrderPayNow(o) ==
  CreateOrder(o) \/ PagePrePayOrder(o) \/ SetOrderPayResult(o)
                 \/ SetTimeoutOrderCancel(o)

-----------------------------------------------------------------------------
(* The customer at Alipay (external): a trade begins when the payment page *)
(* is opened, and ends paid or, when Alipay gives up waiting, closed.      *)

OpenPaymentPage(o) ==
  /\ creating[o] = "Done" /\ trade[o] = "None"
  /\ trade' = [trade EXCEPT ![o] = "Waiting"]

PayTrade(o) ==
  /\ trade[o] = "Waiting"
  /\ trade' = [trade EXCEPT ![o] = "Paid"]

TradeExpires(o) ==
  /\ trade[o] = "Waiting"
  /\ trade' = [trade EXCEPT ![o] = "Closed"]

Customer(o) ==
  /\ OpenPaymentPage(o) \/ PayTrade(o) \/ TradeExpires(o)
  /\ UNCHANGED <<mysqlVars, redisVars, creating, workerVars, age, faults>>

(* Time: an order does not become Stale before it is in the hash, nor Due  *)
(* while the request that puts it into the sorted set still runs.          *)
TimePasses(o) ==
  /\ age[o] < MaxAge
  /\ creating[o] \in {"Polled", "Done", "Failed"}
  /\ age[o] >= Stale => creating[o] # "Polled"
  /\ age' = [age EXCEPT ![o] = @ + 1]
  /\ UNCHANGED <<mysqlVars, redisVars, trade, creating, workerVars, faults>>

(* The ten seconds of the lock are over.  Unless calls are slow they are   *)
(* over only for a lock whose owner left without releasing it.             *)
LockExpires(o) ==
  /\ lock[o] # None
  /\ SlowCalls \/ ord[lock[o]] # o \/ pc[lock[o]] \notin Critical
  /\ lock' = [lock EXCEPT ![o] = None]
  /\ UNCHANGED <<mysqlVars, polled, scheduled, trade, creating, workerVars,
                 age, faults>>

-----------------------------------------------------------------------------
(* How a worker comes to an order.                                         *)

\* A request to cancel an order arrives, CancelOrder or AdminCancelOrder.
RequestCancel(w) ==
  /\ w \in Requests /\ At(w, "Idle")
  /\ \E o \in Orders : ord' = [ord EXCEPT ![w] = o]
  /\ pc' = [pc EXCEPT ![w] = "Lock"]
  /\ UNCHANGED <<mysqlVars, redisVars, trade, creating, todo, age, faults>>

\* GetTimeWaitOrderCancel and GetOrderPayResult.  A run that finds nothing
\* to do, or whose read fails, ends at once.
TimeWaitOrders == {o \in scheduled : age[o] = Due}

StartJob(w) ==
  /\ w \in TimeoutJobs \cup PollJobs /\ At(w, "Idle")
  /\ todo' = [todo EXCEPT ![w] = IF w \in PollJobs THEN polled
                                                   ELSE TimeWaitOrders]
  /\ todo'[w] # {}
  /\ pc' = [pc EXCEPT ![w] = "Next"]
  /\ UNCHANGED <<mysqlVars, redisVars, trade, creating, ord, age, faults>>

\* Wrong: the age of a polled order is not looked at.
NextOrderAnyAge(w) ==
  /\ At(w, "Next")
  /\ \E o \in todo[w] : /\ ord' = [ord EXCEPT ![w] = o]
                        /\ todo' = [todo EXCEPT ![w] = @ \ {o}]
                        /\ pc' = [pc EXCEPT ![w] = "Lock"]
  /\ UNCHANGED <<mysqlVars, redisVars, trade, creating, age, faults>>

\* The loops over orderList and orderMap, with the test that begins
\* QueryOrderPayResult: is the order older than five minutes?
NextOrder(w) ==
  /\ At(w, "Next")
  /\ \E o \in todo[w] :
       /\ ord' = [ord EXCEPT ![w] = o]
       /\ todo' = [todo EXCEPT ![w] = @ \ {o}]
       /\ pc' = [pc EXCEPT ![w] = IF w \in PollJobs /\ age[o] >= Stale
                                  THEN "Drop" ELSE "Lock"]
  /\ UNCHANGED <<mysqlVars, redisVars, trade, creating, age, faults>>

\* Wrong: a stale order is also taken out of the sorted set.
DropStaleOrder(w) ==
  /\ At(w, "Drop")
  /\ polled' = polled \ {ord[w]} /\ scheduled' = scheduled \ {ord[w]}
  /\ NoFault /\ Return(w)
  /\ UNCHANGED <<mysqlVars, lock, trade, creating, age>>

DropStalePoll(w) ==
  /\ At(w, "Drop")
  /\ \/ NoFault /\ polled' = polled \ {ord[w]}
     \/ Fault /\ UNCHANGED polled
  /\ Return(w)
  /\ UNCHANGED <<mysqlVars, scheduled, lock, trade, creating, age>>

-----------------------------------------------------------------------------
(* The order lock: SET NX with the worker's uuid, compare-and-delete.      *)

\* Wrong: SET without NX.
GetOrderLockAlways(w) ==
  /\ At(w, "Lock")
  /\ lock' = [lock EXCEPT ![ord[w]] = w] /\ GoTo(w, "Read")
  /\ UNCHANGED <<mysqlVars, polled, scheduled, trade, creating, age, faults>>

GetOrderLock(w) ==
  LET o == ord[w]  locked == [lock EXCEPT ![o] = w] IN
  /\ At(w, "Lock")
  /\ \/ lock[o] = None /\ lock' = locked /\ NoFault /\ GoTo(w, "Read")
     \/ lock[o] # None /\ UNCHANGED lock /\ NoFault /\ Return(w)
     \/ /\ Fault /\ Return(w)
        /\ lock' \in {lock, IF lock[o] = None THEN locked ELSE lock}
  /\ UNCHANGED <<mysqlVars, polled, scheduled, trade, creating, age>>

\* Wrong: DEL without comparing the uuid.
UnLockOrderAlways(w) ==
  /\ At(w, "UnLock")
  /\ lock' = [lock EXCEPT ![ord[w]] = None] /\ Return(w)
  /\ UNCHANGED <<mysqlVars, polled, scheduled, trade, creating, age, faults>>

UnLockOrder(w) ==
  LET o == ord[w] IN
  /\ At(w, "UnLock")
  /\ \/ /\ NoFault
        /\ lock' = [lock EXCEPT ![o] = IF @ = w THEN None ELSE @]
     \/ Fault /\ UNCHANGED lock
  /\ Return(w)
  /\ UNCHANGED <<mysqlVars, polled, scheduled, trade, creating, age>>

(* GetOrderByID and what each handler does with the status it has read.    *)
\* cancelOrder deletes from the hash first, the two jobs from the sorted set.
FirstDelete(w) == IF w \in Requests THEN "DelPoll" ELSE "DelTimeout"

\* Wrong: the poll does not look at the status.
AfterReadPollBlind(w) ==
  LET s == status[ord[w]] IN
  IF s = "Absent" THEN "UnLock"
  ELSE IF w \in PollJobs THEN "Query"
  ELSE IF s = "WaitPay" THEN "Cancel"
  ELSE IF w \in Requests THEN "UnLock" ELSE FirstDelete(w)

\* Wrong: the timeout job does not look at the status.
AfterReadTimeoutBlind(w) ==
  LET s == status[ord[w]] IN
  IF s = "Absent" THEN "UnLock"
  ELSE IF w \in TimeoutJobs THEN "Cancel"
  ELSE IF w \in PollJobs
  THEN IF s = "WaitPay" THEN "Query" ELSE FirstDelete(w)
  ELSE IF s = "WaitPay" THEN "Cancel" ELSE "UnLock"

AfterRead(w) ==
  LET s == status[ord[w]] IN
  IF s = "Absent" THEN "UnLock"
  ELSE IF w \in Requests
  THEN IF s = "WaitPay" THEN "Cancel" ELSE "UnLock"
  ELSE IF s # "WaitPay" THEN FirstDelete(w)
  ELSE IF w \in TimeoutJobs THEN "Cancel" ELSE "Query"

\* A customer's request may turn out to be about another customer's order.
GetOrderByID(w) ==
  /\ At(w, "Read")
  /\ \/ NoFault /\ GoTo(w, AfterRead(w))
     \/ w \in Requests /\ NoFault /\ GoTo(w, "UnLock")
     \/ Fault /\ GoTo(w, "UnLock")
  /\ UNCHANGED <<mysqlVars, redisVars, trade, creating, age>>

(* The update of cancelOrder and TimeOutOrderCancel has no condition on    *)
(* the status; it waits for the lock of the row.                           *)
\* Wrong: the handler goes on although the update failed.
CancelOrderUnchecked(w) ==
  /\ At(w, "Cancel") /\ ~RowLocked(ord[w])
  /\ \/ NoFault /\ status' = [status EXCEPT ![ord[w]] = "Cancel"]
     \/ Fault /\ UNCHANGED status
  /\ GoTo(w, IF w \in Requests THEN "Close" ELSE "DelTimeout")
  /\ UNCHANGED <<entitled, redisVars, trade, creating, age>>

CancelOrder(w) ==
  LET cancelled == [status EXCEPT ![ord[w]] = "Cancel"] IN
  /\ At(w, "Cancel") /\ ~RowLocked(ord[w])
  /\ \/ /\ NoFault
        /\ status' = cancelled
        /\ GoTo(w, IF w \in Requests THEN "Close" ELSE "DelTimeout")
     \/ Fault /\ status' \in {status, cancelled} /\ GoTo(w, "UnLock")
  /\ UNCHANGED <<entitled, redisVars, trade, creating, age>>

\* Alipay closes a trade that waits and refuses any other; the answer is
\* ignored.
CloseOrder(w) ==
  LET o == ord[w] IN
  /\ At(w, "Close")
  /\ \/ /\ NoFault
        /\ trade' = [trade EXCEPT ![o] = IF @ = "Waiting" THEN "Closed" ELSE @]
     \/ Fault /\ UNCHANGED trade
  /\ GoTo(w, FirstDelete(w))
  /\ UNCHANGED <<mysqlVars, redisVars, creating, age>>

DelTimeoutOrderCancel(w) ==
  /\ At(w, "DelTimeout")
  /\ \/ NoFault /\ scheduled' = scheduled \ {ord[w]}
     \/ Fault /\ UNCHANGED scheduled
  /\ GoTo(w, IF w \in Requests THEN "UnLock" ELSE "DelPoll")
  /\ UNCHANGED <<mysqlVars, polled, lock, trade, creating, age>>

DelOrderPayResult(w) ==
  /\ At(w, "DelPoll")
  /\ \/ NoFault /\ polled' = polled \ {ord[w]}
     \/ Fault /\ UNCHANGED polled
  /\ GoTo(w, IF w \in Requests THEN "DelTimeout" ELSE "UnLock")
  /\ UNCHANGED <<mysqlVars, scheduled, lock, trade, creating, age>>

-----------------------------------------------------------------------------
(* handlerOrderPayResult: ask Alipay, and in one transaction set the order *)
(* Payed and deliver the goods.  CreateUserCourse does not use that        *)
(* transaction: it commits on its own.                                     *)

\* Wrong: any answer counts as paid.
QueryAnswered(w) ==
  /\ At(w, "Query")
  /\ \/ NoFault /\ GoTo(w, IF trade[ord[w]] # "None" THEN "Pay" ELSE "UnLock")
     \/ Fault /\ GoTo(w, "UnLock")
  /\ UNCHANGED <<mysqlVars, redisVars, trade, creating, age>>

\* Wrong: an order that is not paid yet is no longer polled.
QueryOnce(w) ==
  /\ At(w, "Query")
  /\ \/ NoFault /\ GoTo(w, IF trade[ord[w]] = "Paid" THEN "Pay" ELSE "DelPoll")
     \/ Fault /\ GoTo(w, "UnLock")
  /\ UNCHANGED <<mysqlVars, redisVars, trade, creating, age>>

\* Wrong: the lock is not held while Alipay is asked.
QueryUnlocked(w) ==
  /\ At(w, "Query")
  /\ GoTo(w, IF trade[ord[w]] = "Paid" THEN "Pay" ELSE "UnLock")
  /\ lock' = [lock EXCEPT ![ord[w]] = None]
  /\ UNCHANGED <<mysqlVars, polled, scheduled, trade, creating, age, faults>>

QueryOrderByOutTradeNo(w) ==
  /\ At(w, "Query")
  /\ \/ NoFault /\ GoTo(w, IF trade[ord[w]] = "Paid" THEN "Pay" ELSE "UnLock")
     \/ Fault /\ GoTo(w, "UnLock")
  /\ UNCHANGED <<mysqlVars, redisVars, trade, creating, age>>

\* Not visible to anyone else before Commit, but the row is locked.
UpdateStatusInTx(w) ==
  /\ At(w, "Pay") /\ ~RowLocked(ord[w])
  /\ \/ NoFault /\ GoTo(w, "Deliver")
     \/ Fault /\ GoTo(w, "UnLock")
  /\ UNCHANGED <<mysqlVars, redisVars, trade, creating, age>>

\* Wrong: the order is Payed even if the goods were not delivered.
UserBenefitPackageUnchecked(w) ==
  /\ At(w, "Deliver")
  /\ \/ NoFault /\ entitled' = [entitled EXCEPT ![ord[w]] = @ + 1]
     \/ Fault /\ UNCHANGED entitled
  /\ GoTo(w, "Commit")
  /\ UNCHANGED <<status, redisVars, trade, creating, age>>

\* Wrong: goods that cannot be delivered are tried again at once.
UserBenefitPackageRetried(w) ==
  LET o == ord[w]  delivered == [entitled EXCEPT ![o] = @ + 1] IN
  /\ At(w, "Deliver")
  /\ IF o \in InvalidGoods
     THEN NoFault /\ UNCHANGED entitled /\ GoTo(w, "Query")
     ELSE \/ NoFault /\ entitled' = delivered /\ GoTo(w, "Commit")
          \/ Fault /\ entitled' \in {entitled, delivered} /\ GoTo(w, "UnLock")
  /\ UNCHANGED <<status, redisVars, trade, creating, age>>

UserBenefitPackage(w) ==
  LET o == ord[w]  delivered == [entitled EXCEPT ![o] = @ + 1] IN
  /\ At(w, "Deliver")
  /\ IF o \in InvalidGoods
     THEN NoFault /\ UNCHANGED entitled /\ GoTo(w, "UnLock")
     ELSE \/ NoFault /\ entitled' = delivered /\ GoTo(w, "Commit")
          \/ Fault /\ entitled' \in {entitled, delivered} /\ GoTo(w, "UnLock")
  /\ UNCHANGED <<status, redisVars, trade, creating, age>>

CommitPayed(w) ==
  LET payed == [status EXCEPT ![ord[w]] = "Payed"] IN
  /\ At(w, "Commit")
  /\ \/ NoFault /\ status' = payed /\ GoTo(w, FirstDelete(w))
     \/ Fault /\ status' \in {status, payed} /\ GoTo(w, "UnLock")
  /\ UNCHANGED <<entitled, redisVars, trade, creating, age>>

-----------------------------------------------------------------------------
\* The server of a worker stops: MySQL rolls back, redis keeps the lock.
Crash(w) ==
  /\ pc[w] \notin {"Idle", "Done"}
  /\ Fault
  /\ pc' = [pc EXCEPT ![w] = IF w \in Requests THEN "Done" ELSE "Idle"]
  /\ ord' = [ord EXCEPT ![w] = None]
  /\ todo' = [todo EXCEPT ![w] = {}]
  /\ UNCHANGED <<mysqlVars, redisVars, trade, creating, age>>

Handle(w) ==
  \/ GetOrderLock(w) \/ UnLockOrder(w) \/ GetOrderByID(w)
  \/ CancelOrder(w) \/ CloseOrder(w)
  \/ QueryOrderByOutTradeNo(w) \/ UpdateStatusInTx(w)
  \/ UserBenefitPackage(w) \/ CommitPayed(w)
  \/ DelTimeoutOrderCancel(w) \/ DelOrderPayResult(w)

Next ==
  \/ \E o \in Orders : OrderPayNow(o) \/ Customer(o) \/ TimePasses(o)
                                      \/ LockExpires(o)
  \/ \E w \in Workers : \/ RequestCancel(w)
                        \/ StartJob(w) \/ NextOrder(w) \/ DropStalePoll(w)
                        \/ Handle(w) \/ Crash(w)

Spec == Init /\ [][Next]_vars

(* Fairness: servers run, the scheduler starts its jobs again and again    *)
(* (timer.Start), time passes and locks expire.  Nobody has to pay, to     *)
(* cancel or to crash, and no job has to run before an order gets older.   *)
Fairness ==
  /\ \A o \in Orders : /\ WF_vars(OrderPayNow(o))
                       /\ WF_vars(age[o] < Due /\ TimePasses(o))
                       /\ WF_vars(LockExpires(o))
  /\ \A w \in Workers : /\ WF_vars(StartJob(w))
                        /\ WF_vars(NextOrder(w) \/ DropStalePoll(w) \/ Handle(w))

FairSpec == Spec /\ Fairness

-----------------------------------------------------------------------------
(* What the lock gives when no call outlasts it (SlowCalls = FALSE).       *)

\* While a handler works on an order no other one does: GetOrderLock
\* excludes cancelOrder, TimeOutOrderCancel and QueryOrderPayResult from
\* each other whatever calls fail and whoever crashes.
LockExclusive ==
  \A v, w \in Workers :
    pc[v] \in Critical /\ pc[w] \in Critical /\ ord[v] = ord[w] => v = w

\* The goods of an order are delivered once, and once more for each fault
\* at most: UserBenefitPackage commits before the order is Payed, so only a
\* transaction that fails in between lets a later poll deliver again.
DuplicateNeedsFault == \A o \in Orders : entitled[o] <= 1 + faults

\* A cancelled order has delivered nothing unless something failed.
CancelledUndelivered ==
  \A o \in Orders : status[o] = "Cancel" /\ faults = 0 => entitled[o] = 0

\* Whatever pays or cancels an order does it for good: no handler acts on a
\* status that another one has changed since it was read.
StatusSettlesOnce ==
  [][\A o \in Orders : status[o] \in {"Payed", "Cancel"}
                         => status'[o] = status[o]]_vars

-----------------------------------------------------------------------------
(* What holds even when locks expire under their owners.                   *)

\* Nobody is given goods that Alipay was not paid for.
DeliveredOnlyIfPaid == \A o \in Orders : entitled[o] > 0 => trade[o] = "Paid"

\* An order that shows as Payed has its goods delivered.
PayedIsDelivered == \A o \in Orders : status[o] = "Payed" => entitled[o] > 0

\* The timeout job cannot lose an order that waits for payment: once
\* OrderPayNow has returned, the order stays in the sorted set until its
\* status has changed, whichever handlers fail or stop half-way.
WaitingIsScheduled ==
  \A o \in Orders : status[o] = "WaitPay" /\ creating[o] = "Done"
                      => o \in scheduled

\* For its first five minutes the poll does not lose such an order either:
\* neither a poll beside it that is slow, fails or works on an old map, nor a
\* cancel that fails half-way, takes it out of the hash.  A payment made
\* after that may be noticed by nobody, see CancelledOnlyUnpaid.
FreshIsPolled ==
  \A o \in Orders :
    /\ status[o] = "WaitPay" /\ age[o] < Stale
    /\ creating[o] \in {"Polled", "Done"}
    => o \in polled

\* A lock is released by the worker that holds it, or by its expiry (the
\* only step that changes locks and moves no worker): a handler that was
\* slow never deletes the lock of its successor.
OwnerUnlocks ==
  [][\A o \in Orders : lock[o] # None /\ lock'[o] # lock[o]
       => UNCHANGED pc \/ (pc[lock[o]] = "UnLock" /\ ord[lock[o]] = o)]_vars

-----------------------------------------------------------------------------
(* Liveness, under FairSpec.                                               *)

\* An order that OrderPayNow returned to its customer does not wait for
\* payment for ever, though calls fail and jobs crash a few times.
WaitingSettles ==
  \A o \in Orders : status[o] = "WaitPay" /\ creating[o] = "Done"
                      ~> status[o] # "WaitPay"

\* The poll hash drains: no order is polled for ever, not even one whose
\* goods can never be delivered or whose payment is never found.
PollEnds == \A o \in Orders : o \in polled ~> o \notin polled

-----------------------------------------------------------------------------
(* What comments and messages of the code say and the code does not do.    *)

\* router.go: an order may be cancelled as long as it is not paid.  Here: no
\* order is cancelled that Alipay has been paid for.
CancelledOnlyUnpaid ==
  [][\A o \in Orders : status[o] = "WaitPay" /\ status'[o] = "Cancel"
                         => trade[o] # "Paid"]_vars

=============================================================================

----------------------- MODULE OrderLifecycle_proofs -----------------------
(* Theorems about OrderLifecycle, for every set of orders, of workers and  *)
(* every number of faults.                                                 *)
EXTENDS OrderImplementation, TLAPS

(* The actions of Next, worker by worker: the names a proof splits on.     *)
LEMMA NextCases ==
  ASSUME Next
  PROVE \/ \E o \in Orders :
             \/ CreateOrder(o) \/ PagePrePayOrder(o)
             \/ SetOrderPayResult(o) \/ SetTimeoutOrderCancel(o)
             \/ Customer(o) \/ TimePasses(o) \/ LockExpires(o)
        \/ \E w \in Workers :
             \/ RequestCancel(w) \/ StartJob(w) \/ NextOrder(w)
             \/ DropStalePoll(w) \/ GetOrderLock(w) \/ UnLockOrder(w)
             \/ GetOrderByID(w) \/ CancelOrder(w) \/ CloseOrder(w)
             \/ QueryOrderByOutTradeNo(w) \/ UpdateStatusInTx(w)
             \/ UserBenefitPackage(w) \/ CommitPayed(w)
             \/ DelTimeoutOrderCancel(w) \/ DelOrderPayResult(w) \/ Crash(w)
BY DEF Next, OrderPayNow, Handle

-----------------------------------------------------------------------------
(* Every reachable state has the types OrderLifecycle declares, and a      *)
(* worker that is not between two orders has one.                          *)
THEOREM TypeCorrect == Spec => []TypeOK
<1>1. Init => TypeOK
  BY ConstantAssumption DEF Init, TypeOK, OrderStatus, TradeStatus, CreateStep,
     Outside, Fresh, Due, Missed
<1>2. TypeOK /\ [Next]_vars => TypeOK'
  <2> SUFFICES ASSUME TypeOK, [Next]_vars PROVE TypeOK'
    OBVIOUS
  <2> USE ConstantAssumption
      DEF TypeOK, OrderStatus, TradeStatus, CreateStep, Outside, Critical,
          PayTx, Fresh, Stale, Due, Missed, NoFault, Fault, GoTo, Return, At
  <2> USE DEF mysqlVars, redisVars, workerVars
  <2>1. CASE UNCHANGED vars
    BY <2>1 DEF vars
  <2>2. ASSUME NEW o \in Orders, CreateOrder(o) PROVE TypeOK'
    BY <2>2 DEF CreateOrder
  <2>3. ASSUME NEW o \in Orders, PagePrePayOrder(o) PROVE TypeOK'
    BY <2>3 DEF PagePrePayOrder
  <2>4. ASSUME NEW o \in Orders, SetOrderPayResult(o) PROVE TypeOK'
    BY <2>4 DEF SetOrderPayResult
  <2>5. ASSUME NEW o \in Orders, SetTimeoutOrderCancel(o) PROVE TypeOK'
    BY <2>5 DEF SetTimeoutOrderCancel
  <2>6. ASSUME NEW o \in Orders, Customer(o) PROVE TypeOK'
    BY <2>6 DEF Customer, OpenPaymentPage, PayTrade, TradeExpires
  <2>7. ASSUME NEW o \in Orders, TimePasses(o) PROVE TypeOK'
    BY <2>7 DEF TimePasses
  <2>8. ASSUME NEW o \in Orders, LockExpires(o) PROVE TypeOK'
    BY <2>8 DEF LockExpires
  <2>9. ASSUME NEW w \in Workers, RequestCancel(w) PROVE TypeOK'
    BY <2>9 DEF RequestCancel
  <2>10. ASSUME NEW w \in Workers, StartJob(w) PROVE TypeOK'
    BY <2>10 DEF StartJob, TimeWaitOrders
  <2>11. ASSUME NEW w \in Workers, NextOrder(w) PROVE TypeOK'
    BY <2>11 DEF NextOrder
  <2>12. ASSUME NEW w \in Workers, DropStalePoll(w) PROVE TypeOK'
    BY <2>12 DEF DropStalePoll
  <2>13. ASSUME NEW w \in Workers, GetOrderLock(w) PROVE TypeOK'
    BY <2>13 DEF GetOrderLock
  <2>14. ASSUME NEW w \in Workers, UnLockOrder(w) PROVE TypeOK'
    BY <2>14 DEF UnLockOrder
  <2>15. ASSUME NEW w \in Workers, GetOrderByID(w) PROVE TypeOK'
    BY <2>15 DEF GetOrderByID, AfterRead, FirstDelete
  <2>16. ASSUME NEW w \in Workers, CancelOrder(w) PROVE TypeOK'
    BY <2>16 DEF CancelOrder
  <2>17. ASSUME NEW w \in Workers, CloseOrder(w) PROVE TypeOK'
    BY <2>17 DEF CloseOrder, FirstDelete
  <2>18. ASSUME NEW w \in Workers, QueryOrderByOutTradeNo(w) PROVE TypeOK'
    BY <2>18 DEF QueryOrderByOutTradeNo
  <2>19. ASSUME NEW w \in Workers, UpdateStatusInTx(w) PROVE TypeOK'
    BY <2>19 DEF UpdateStatusInTx
  <2>20. ASSUME NEW w \in Workers, UserBenefitPackage(w) PROVE TypeOK'
    BY <2>20 DEF UserBenefitPackage
  <2>21. ASSUME NEW w \in Workers, CommitPayed(w) PROVE TypeOK'
    BY <2>21 DEF CommitPayed, FirstDelete
  <2>22. ASSUME NEW w \in Workers, DelTimeoutOrderCancel(w) PROVE TypeOK'
    BY <2>22 DEF DelTimeoutOrderCancel
  <2>23. ASSUME NEW w \in Workers, DelOrderPayResult(w) PROVE TypeOK'
    BY <2>23 DEF DelOrderPayResult
  <2>24. ASSUME NEW w \in Workers, Crash(w) PROVE TypeOK'
    BY <2>24 DEF Crash
  <2> QED
    BY <2>1, <2>2, <2>3, <2>4, <2>5, <2>6, <2>7, <2>8, <2>9, <2>10, <2>11,
       <2>12, <2>13, <2>14, <2>15, <2>16, <2>17, <2>18, <2>19, <2>20, <2>21,
       <2>22, <2>23, <2>24, NextCases
<1> QED
  BY <1>1, <1>2, PTL DEF Spec

-----------------------------------------------------------------------------
(* What no slow call and no fault can break.  The four properties need to  *)
(* know why a handler may delete the order from redis (its status has      *)
(* settled, or it is too old to be polled), may set it Payed (Alipay said  *)
(* so) and may commit (the goods are delivered), and that it changes only  *)
(* rows that are inserted, once.                                           *)
Inserted ==
  \A o \in Orders : creating[o] = "Start" => status[o] = "Absent"

Justified ==
  \A w \in Workers :
    /\ pc[w] \in {"Cancel", "Query", "Pay", "Deliver", "Commit"}
         => creating[ord[w]] # "Start"
    /\ pc[w] \in {"Close", "DelTimeout", "DelPoll"}
         => status[ord[w]] \in {"Payed", "Cancel"}
    /\ pc[w] \in {"Pay", "Deliver", "Commit"} => trade[ord[w]] = "Paid"
    /\ pc[w] = "Commit" => entitled[ord[w]] > 0
    /\ pc[w] = "Drop" => age[ord[w]] >= Stale

OrderInv == /\ Inserted /\ Justified
            /\ WaitingIsScheduled /\ FreshIsPolled
            /\ DeliveredOnlyIfPaid /\ PayedIsDelivered

LEMMA OrderInvStep == TypeOK /\ OrderInv /\ [Next]_vars => OrderInv'
<1> SUFFICES ASSUME TypeOK, OrderInv, [Next]_vars PROVE OrderInv'
  OBVIOUS
<1> USE ConstantAssumption
    DEF OrderInv, Inserted, Justified, WaitingIsScheduled,
        FreshIsPolled, Fresh, Stale, Due, Missed, DeliveredOnlyIfPaid, PayedIsDelivered, TypeOK, OrderStatus,
        TradeStatus, CreateStep, Outside, Critical, PayTx, NoFault, Fault,
        GoTo, Return, At, mysqlVars, redisVars, workerVars
<1>1. CASE UNCHANGED vars
  BY <1>1 DEF vars
<1>2. ASSUME NEW o \in Orders, CreateOrder(o) PROVE OrderInv'
  BY <1>2 DEF CreateOrder
<1>3. ASSUME NEW o \in Orders, PagePrePayOrder(o) PROVE OrderInv'
  BY <1>3 DEF PagePrePayOrder
<1>4. ASSUME NEW o \in Orders, SetOrderPayResult(o) PROVE OrderInv'
  BY <1>4 DEF SetOrderPayResult
<1>5. ASSUME NEW o \in Orders, SetTimeoutOrderCancel(o) PROVE OrderInv'
  BY <1>5 DEF SetTimeoutOrderCancel
<1>6. ASSUME NEW o \in Orders, Customer(o) PROVE OrderInv'
  BY <1>6 DEF Customer, OpenPaymentPage, PayTrade, TradeExpires
<1>7. ASSUME NEW o \in Orders, TimePasses(o) PROVE OrderInv'
  BY <1>7 DEF TimePasses
<1>8. ASSUME NEW o \in Orders, LockExpires(o) PROVE OrderInv'
  BY <1>8 DEF LockExpires
<1>9. ASSUME NEW w \in Workers, RequestCancel(w) PROVE OrderInv'
  BY <1>9 DEF RequestCancel
<1>10. ASSUME NEW w \in Workers, StartJob(w) PROVE OrderInv'
  BY <1>10 DEF StartJob, TimeWaitOrders
<1>11. ASSUME NEW w \in Workers, NextOrder(w) PROVE OrderInv'
  BY <1>11 DEF NextOrder
<1>12. ASSUME NEW w \in Workers, DropStalePoll(w) PROVE OrderInv'
  BY <1>12 DEF DropStalePoll
<1>13. ASSUME NEW w \in Workers, GetOrderLock(w) PROVE OrderInv'
  BY <1>13 DEF GetOrderLock
<1>14. ASSUME NEW w \in Workers, UnLockOrder(w) PROVE OrderInv'
  BY <1>14 DEF UnLockOrder
<1>15. ASSUME NEW w \in Workers, GetOrderByID(w) PROVE OrderInv'
  BY <1>15 DEF GetOrderByID, AfterRead, FirstDelete
<1>16. ASSUME NEW w \in Workers, CancelOrder(w) PROVE OrderInv'
  BY <1>16 DEF CancelOrder
<1>17. ASSUME NEW w \in Workers, CloseOrder(w) PROVE OrderInv'
  BY <1>17 DEF CloseOrder, FirstDelete
<1>18. ASSUME NEW w \in Workers, QueryOrderByOutTradeNo(w) PROVE OrderInv'
  BY <1>18 DEF QueryOrderByOutTradeNo
<1>19. ASSUME NEW w \in Workers, UpdateStatusInTx(w) PROVE OrderInv'
  BY <1>19 DEF UpdateStatusInTx
<1>20. ASSUME NEW w \in Workers, UserBenefitPackage(w) PROVE OrderInv'
  BY <1>20 DEF UserBenefitPackage
<1>21. ASSUME NEW w \in Workers, CommitPayed(w) PROVE OrderInv'
  BY <1>21 DEF CommitPayed, FirstDelete
<1>22. ASSUME NEW w \in Workers, DelTimeoutOrderCancel(w) PROVE OrderInv'
  BY <1>22 DEF DelTimeoutOrderCancel
<1>23. ASSUME NEW w \in Workers, DelOrderPayResult(w) PROVE OrderInv'
  BY <1>23 DEF DelOrderPayResult
<1>24. ASSUME NEW w \in Workers, Crash(w) PROVE OrderInv'
  BY <1>24 DEF Crash
<1> QED
  BY <1>1, <1>2, <1>3, <1>4, <1>5, <1>6, <1>7, <1>8, <1>9, <1>10, <1>11,
     <1>12, <1>13, <1>14, <1>15, <1>16, <1>17, <1>18, <1>19, <1>20,
     <1>21, <1>22, <1>23, <1>24, NextCases

LEMMA OrderInvariant == Spec => []OrderInv
<1>1. Init => OrderInv
  BY DEF Init, OrderInv, Inserted, Justified, WaitingIsScheduled,
     FreshIsPolled, DeliveredOnlyIfPaid, PayedIsDelivered
<1> QED
  BY <1>1, OrderInvStep, TypeCorrect, PTL DEF Spec

(* The timeout job never loses an order that waits for payment.            *)
THEOREM NoWaitingOrderIsLost == Spec => []WaitingIsScheduled
<1>1. OrderInv => WaitingIsScheduled
  BY DEF OrderInv
<1> QED
  BY <1>1, OrderInvariant, PTL

(* For its first five minutes the poll never loses it either.              *)
THEOREM NoFreshOrderIsForgotten == Spec => []FreshIsPolled
<1>1. OrderInv => FreshIsPolled
  BY DEF OrderInv
<1> QED
  BY <1>1, OrderInvariant, PTL

(* Goods are delivered only for trades that Alipay reported as paid.       *)
THEOREM NoFreeGoods == Spec => []DeliveredOnlyIfPaid
<1>1. OrderInv => DeliveredOnlyIfPaid
  BY DEF OrderInv
<1> QED
  BY <1>1, OrderInvariant, PTL

(* No order shows as Payed before its goods are delivered.                 *)
THEOREM NoPayedOrderUndelivered == Spec => []PayedIsDelivered
<1>1. OrderInv => PayedIsDelivered
  BY DEF OrderInv
<1> QED
  BY <1>1, OrderInvariant, PTL

(* A lock goes only when its worker releases it, or when it expires: none  *)
(* is ever taken from its worker or deleted by another one.                *)
THEOREM OnlyOwnerUnlocks == Spec => OwnerUnlocks
<1> DEFINE Released ==
      \A o \in Orders : lock[o] # None /\ lock'[o] # lock[o]
        => UNCHANGED pc \/ (pc[lock[o]] = "UnLock" /\ ord[lock[o]] = o)
<1>1. TypeOK /\ [Next]_vars => [Released]_vars
  <2> SUFFICES ASSUME TypeOK, [Next]_vars
               PROVE  Released
    OBVIOUS
  <2>1. CASE UNCHANGED lock
    BY <2>1
  <2>2. ASSUME NEW o \in Orders, LockExpires(o) PROVE Released
    BY <2>2 DEF LockExpires, workerVars
  <2>3. ASSUME NEW w \in Workers, GetOrderLock(w) PROVE Released
    <3>1. ord[w] \in Orders
      BY <2>3 DEF GetOrderLock, At, TypeOK, Outside
    <3>2. \/ UNCHANGED lock
          \/ lock[ord[w]] = None /\ lock' = [lock EXCEPT ![ord[w]] = w]
      BY <2>3 DEF GetOrderLock
    <3> QED
      BY <3>1, <3>2 DEF TypeOK
  <2>4. ASSUME NEW w \in Workers, UnLockOrder(w) PROVE Released
    <3>1. pc[w] = "UnLock" /\ ord[w] \in Orders
      BY <2>4 DEF UnLockOrder, At, TypeOK, Outside
    <3>2. \/ UNCHANGED lock
          \/ lock' = [lock EXCEPT ![ord[w]] = IF @ = w THEN None ELSE @]
      BY <2>4 DEF UnLockOrder
    <3> QED
      BY <3>1, <3>2 DEF TypeOK
  <2>5. \/ UNCHANGED lock
        \/ \E o \in Orders : LockExpires(o)
        \/ \E w \in Workers : GetOrderLock(w) \/ UnLockOrder(w)
    BY NextCases DEF vars, redisVars, CreateOrder, PagePrePayOrder,
       SetOrderPayResult, SetTimeoutOrderCancel, Customer, TimePasses,
       RequestCancel, StartJob, NextOrder, DropStalePoll, GetOrderByID,
       CancelOrder, CloseOrder, QueryOrderByOutTradeNo, UpdateStatusInTx,
       UserBenefitPackage, CommitPayed, DelTimeoutOrderCancel,
       DelOrderPayResult, Crash
  <2> QED
    BY <2>1, <2>2, <2>3, <2>4, <2>5
<1> QED
  BY <1>1, TypeCorrect, PTL DEF Spec, OwnerUnlocks

-----------------------------------------------------------------------------
(* What the order lock gives when no call outlasts it.  A handler in the   *)
(* critical section owns the lock; so the status it has read is still that *)
(* of the row when it writes; so each delivery is that of a Payed order,   *)
(* of a transaction about to commit, or of one that a fault undid.         *)
Holder ==
  \A w \in Workers : pc[w] \in Critical => lock[ord[w]] = w

StatusStillRead ==
  \A w \in Workers :
    pc[w] \in {"Cancel", "Query", "Pay", "Deliver", "Commit"}
      => status[ord[w]] = "WaitPay"

Committing(o) == \E w \in Workers : ord[w] = o /\ pc[w] = "Commit"

Accounted ==
  \A o \in Orders :
    entitled[o] <= IF status[o] = "Payed" \/ Committing(o)
                   THEN faults + 1 ELSE faults

LEMMA HolderStep ==
  ASSUME SlowCalls = FALSE
  PROVE  TypeOK /\ Holder /\ [Next]_vars => Holder'
<1> SUFFICES ASSUME TypeOK, Holder, [Next]_vars PROVE Holder'
  OBVIOUS
<1> USE ConstantAssumption
    DEF Holder, TypeOK, OrderStatus, TradeStatus,
        CreateStep, Outside, Critical, PayTx, NoFault, Fault, GoTo, Return, At,
        mysqlVars, redisVars, workerVars
<1>1. CASE UNCHANGED vars
  BY <1>1 DEF vars
<1>2. ASSUME NEW o \in Orders, CreateOrder(o) PROVE Holder'
  BY <1>2 DEF CreateOrder
<1>3. ASSUME NEW o \in Orders, PagePrePayOrder(o) PROVE Holder'
  BY <1>3 DEF PagePrePayOrder
<1>4. ASSUME NEW o \in Orders, SetOrderPayResult(o) PROVE Holder'
  BY <1>4 DEF SetOrderPayResult
<1>5. ASSUME NEW o \in Orders, SetTimeoutOrderCancel(o) PROVE Holder'
  BY <1>5 DEF SetTimeoutOrderCancel
<1>6. ASSUME NEW o \in Orders, Customer(o) PROVE Holder'
  BY <1>6 DEF Customer, OpenPaymentPage, PayTrade, TradeExpires
<1>7. ASSUME NEW o \in Orders, TimePasses(o) PROVE Holder'
  BY <1>7 DEF TimePasses
<1>8. ASSUME NEW o \in Orders, LockExpires(o) PROVE Holder'
  BY <1>8 DEF LockExpires
<1>9. ASSUME NEW w \in Workers, RequestCancel(w) PROVE Holder'
  BY <1>9 DEF RequestCancel
<1>10. ASSUME NEW w \in Workers, StartJob(w) PROVE Holder'
  BY <1>10 DEF StartJob, TimeWaitOrders
<1>11. ASSUME NEW w \in Workers, NextOrder(w) PROVE Holder'
  BY <1>11 DEF NextOrder
<1>12. ASSUME NEW w \in Workers, DropStalePoll(w) PROVE Holder'
  BY <1>12 DEF DropStalePoll
<1>13. ASSUME NEW w \in Workers, GetOrderLock(w) PROVE Holder'
  BY <1>13 DEF GetOrderLock
<1>14. ASSUME NEW w \in Workers, UnLockOrder(w) PROVE Holder'
  BY <1>14 DEF UnLockOrder
<1>15. ASSUME NEW w \in Workers, GetOrderByID(w) PROVE Holder'
  BY <1>15 DEF GetOrderByID, AfterRead, FirstDelete
<1>16. ASSUME NEW w \in Workers, CancelOrder(w) PROVE Holder'
  BY <1>16 DEF CancelOrder
<1>17. ASSUME NEW w \in Workers, CloseOrder(w) PROVE Holder'
  BY <1>17 DEF CloseOrder, FirstDelete
<1>18. ASSUME NEW w \in Workers, QueryOrderByOutTradeNo(w) PROVE Holder'
  BY <1>18 DEF QueryOrderByOutTradeNo
<1>19. ASSUME NEW w \in Workers, UpdateStatusInTx(w) PROVE Holder'
  BY <1>19 DEF UpdateStatusInTx
<1>20. ASSUME NEW w \in Workers, UserBenefitPackage(w) PROVE Holder'
  BY <1>20 DEF UserBenefitPackage
<1>21. ASSUME NEW w \in Workers, CommitPayed(w) PROVE Holder'
  BY <1>21 DEF CommitPayed, FirstDelete
<1>22. ASSUME NEW w \in Workers, DelTimeoutOrderCancel(w) PROVE Holder'
  BY <1>22 DEF DelTimeoutOrderCancel
<1>23. ASSUME NEW w \in Workers, DelOrderPayResult(w) PROVE Holder'
  BY <1>23 DEF DelOrderPayResult
<1>24. ASSUME NEW w \in Workers, Crash(w) PROVE Holder'
  BY <1>24 DEF Crash
<1> QED
  BY <1>1, <1>2, <1>3, <1>4, <1>5, <1>6, <1>7, <1>8, <1>9, <1>10, <1>11,
     <1>12, <1>13, <1>14, <1>15, <1>16, <1>17, <1>18, <1>19, <1>20,
     <1>21, <1>22, <1>23, <1>24, NextCases

LEMMA HolderInvariant ==
  ASSUME SlowCalls = FALSE
  PROVE  Spec => []Holder
<1>1. Init => Holder
  BY DEF Init, Holder, Critical, PayTx
<1> QED
  BY <1>1, HolderStep, TypeCorrect, PTL DEF Spec

(* The handlers of one order exclude each other, though calls fail and     *)
(* servers stop, as long as none of them outlives its lock.                *)
THEOREM OneHandlerPerOrder ==
  ASSUME SlowCalls = FALSE
  PROVE  Spec => []LockExclusive
<1>1. TypeOK /\ Holder => LockExclusive
  BY DEF TypeOK, Holder, LockExclusive
<1> QED
  BY <1>1, HolderInvariant, TypeCorrect, PTL

LEMMA StatusStillReadStep ==
  TypeOK /\ Holder /\ Inserted /\ StatusStillRead /\ [Next]_vars
    => StatusStillRead'
<1> SUFFICES ASSUME TypeOK, Holder, Inserted, StatusStillRead, [Next]_vars PROVE StatusStillRead'
  OBVIOUS
<1> USE ConstantAssumption
    DEF Holder, Inserted, StatusStillRead, TypeOK, OrderStatus, TradeStatus,
        CreateStep, Outside, Critical, PayTx, NoFault, Fault, GoTo, Return, At,
        mysqlVars, redisVars, workerVars
<1>1. CASE UNCHANGED vars
  BY <1>1 DEF vars
<1>2. ASSUME NEW o \in Orders, CreateOrder(o) PROVE StatusStillRead'
  BY <1>2 DEF CreateOrder
<1>3. ASSUME NEW o \in Orders, PagePrePayOrder(o) PROVE StatusStillRead'
  BY <1>3 DEF PagePrePayOrder
<1>4. ASSUME NEW o \in Orders, SetOrderPayResult(o) PROVE StatusStillRead'
  BY <1>4 DEF SetOrderPayResult
<1>5. ASSUME NEW o \in Orders, SetTimeoutOrderCancel(o) PROVE StatusStillRead'
  BY <1>5 DEF SetTimeoutOrderCancel
<1>6. ASSUME NEW o \in Orders, Customer(o) PROVE StatusStillRead'
  BY <1>6 DEF Customer, OpenPaymentPage, PayTrade, TradeExpires
<1>7. ASSUME NEW o \in Orders, TimePasses(o) PROVE StatusStillRead'
  BY <1>7 DEF TimePasses
<1>8. ASSUME NEW o \in Orders, LockExpires(o) PROVE StatusStillRead'
  BY <1>8 DEF LockExpires
<1>9. ASSUME NEW w \in Workers, RequestCancel(w) PROVE StatusStillRead'
  BY <1>9 DEF RequestCancel
<1>10. ASSUME NEW w \in Workers, StartJob(w) PROVE StatusStillRead'
  BY <1>10 DEF StartJob, TimeWaitOrders
<1>11. ASSUME NEW w \in Workers, NextOrder(w) PROVE StatusStillRead'
  BY <1>11 DEF NextOrder
<1>12. ASSUME NEW w \in Workers, DropStalePoll(w) PROVE StatusStillRead'
  BY <1>12 DEF DropStalePoll
<1>13. ASSUME NEW w \in Workers, GetOrderLock(w) PROVE StatusStillRead'
  BY <1>13 DEF GetOrderLock
<1>14. ASSUME NEW w \in Workers, UnLockOrder(w) PROVE StatusStillRead'
  BY <1>14 DEF UnLockOrder
<1>15. ASSUME NEW w \in Workers, GetOrderByID(w) PROVE StatusStillRead'
  BY <1>15 DEF GetOrderByID, AfterRead, FirstDelete
<1>16. ASSUME NEW w \in Workers, CancelOrder(w) PROVE StatusStillRead'
  BY <1>16 DEF CancelOrder
<1>17. ASSUME NEW w \in Workers, CloseOrder(w) PROVE StatusStillRead'
  BY <1>17 DEF CloseOrder, FirstDelete
<1>18. ASSUME NEW w \in Workers, QueryOrderByOutTradeNo(w) PROVE StatusStillRead'
  BY <1>18 DEF QueryOrderByOutTradeNo
<1>19. ASSUME NEW w \in Workers, UpdateStatusInTx(w) PROVE StatusStillRead'
  BY <1>19 DEF UpdateStatusInTx
<1>20. ASSUME NEW w \in Workers, UserBenefitPackage(w) PROVE StatusStillRead'
  BY <1>20 DEF UserBenefitPackage
<1>21. ASSUME NEW w \in Workers, CommitPayed(w) PROVE StatusStillRead'
  BY <1>21 DEF CommitPayed, FirstDelete
<1>22. ASSUME NEW w \in Workers, DelTimeoutOrderCancel(w) PROVE StatusStillRead'
  BY <1>22 DEF DelTimeoutOrderCancel
<1>23. ASSUME NEW w \in Workers, DelOrderPayResult(w) PROVE StatusStillRead'
  BY <1>23 DEF DelOrderPayResult
<1>24. ASSUME NEW w \in Workers, Crash(w) PROVE StatusStillRead'
  BY <1>24 DEF Crash
<1> QED
  BY <1>1, <1>2, <1>3, <1>4, <1>5, <1>6, <1>7, <1>8, <1>9, <1>10, <1>11,
     <1>12, <1>13, <1>14, <1>15, <1>16, <1>17, <1>18, <1>19, <1>20,
     <1>21, <1>22, <1>23, <1>24, NextCases

LEMMA AccountedStep ==
  TypeOK /\ Holder /\ Inserted /\ StatusStillRead /\ Accounted /\ [Next]_vars
    => Accounted'
<1> SUFFICES ASSUME TypeOK, Holder, Inserted, StatusStillRead, Accounted, [Next]_vars PROVE Accounted'
  OBVIOUS
<1> USE ConstantAssumption
    DEF Holder, Inserted, StatusStillRead, Accounted, Committing, TypeOK, OrderStatus, TradeStatus,
        CreateStep, Outside, Critical, PayTx, NoFault, Fault, GoTo, Return, At,
        mysqlVars, redisVars, workerVars
<1>1. CASE UNCHANGED vars
  BY <1>1 DEF vars
<1>2. ASSUME NEW o \in Orders, CreateOrder(o) PROVE Accounted'
  BY <1>2 DEF CreateOrder
<1>3. ASSUME NEW o \in Orders, PagePrePayOrder(o) PROVE Accounted'
  BY <1>3 DEF PagePrePayOrder
<1>4. ASSUME NEW o \in Orders, SetOrderPayResult(o) PROVE Accounted'
  BY <1>4 DEF SetOrderPayResult
<1>5. ASSUME NEW o \in Orders, SetTimeoutOrderCancel(o) PROVE Accounted'
  BY <1>5 DEF SetTimeoutOrderCancel
<1>6. ASSUME NEW o \in Orders, Customer(o) PROVE Accounted'
  BY <1>6 DEF Customer, OpenPaymentPage, PayTrade, TradeExpires
<1>7. ASSUME NEW o \in Orders, TimePasses(o) PROVE Accounted'
  BY <1>7 DEF TimePasses
<1>8. ASSUME NEW o \in Orders, LockExpires(o) PROVE Accounted'
  BY <1>8 DEF LockExpires
<1>9. ASSUME NEW w \in Workers, RequestCancel(w) PROVE Accounted'
  BY <1>9 DEF RequestCancel
<1>10. ASSUME NEW w \in Workers, StartJob(w) PROVE Accounted'
  BY <1>10 DEF StartJob, TimeWaitOrders
<1>11. ASSUME NEW w \in Workers, NextOrder(w) PROVE Accounted'
  BY <1>11 DEF NextOrder
<1>12. ASSUME NEW w \in Workers, DropStalePoll(w) PROVE Accounted'
  BY <1>12 DEF DropStalePoll
<1>13. ASSUME NEW w \in Workers, GetOrderLock(w) PROVE Accounted'
  BY <1>13 DEF GetOrderLock
<1>14. ASSUME NEW w \in Workers, UnLockOrder(w) PROVE Accounted'
  BY <1>14 DEF UnLockOrder
<1>15. ASSUME NEW w \in Workers, GetOrderByID(w) PROVE Accounted'
  BY <1>15 DEF GetOrderByID, AfterRead, FirstDelete
<1>16. ASSUME NEW w \in Workers, CancelOrder(w) PROVE Accounted'
  BY <1>16 DEF CancelOrder
<1>17. ASSUME NEW w \in Workers, CloseOrder(w) PROVE Accounted'
  BY <1>17 DEF CloseOrder, FirstDelete
<1>18. ASSUME NEW w \in Workers, QueryOrderByOutTradeNo(w) PROVE Accounted'
  BY <1>18 DEF QueryOrderByOutTradeNo
<1>19. ASSUME NEW w \in Workers, UpdateStatusInTx(w) PROVE Accounted'
  BY <1>19 DEF UpdateStatusInTx
<1>20. ASSUME NEW w \in Workers, UserBenefitPackage(w) PROVE Accounted'
  BY <1>20 DEF UserBenefitPackage
<1>21. ASSUME NEW w \in Workers, CommitPayed(w) PROVE Accounted'
  BY <1>21 DEF CommitPayed, FirstDelete
<1>22. ASSUME NEW w \in Workers, DelTimeoutOrderCancel(w) PROVE Accounted'
  BY <1>22 DEF DelTimeoutOrderCancel
<1>23. ASSUME NEW w \in Workers, DelOrderPayResult(w) PROVE Accounted'
  BY <1>23 DEF DelOrderPayResult
<1>24. ASSUME NEW w \in Workers, Crash(w) PROVE Accounted'
  BY <1>24 DEF Crash
<1> QED
  BY <1>1, <1>2, <1>3, <1>4, <1>5, <1>6, <1>7, <1>8, <1>9, <1>10, <1>11,
     <1>12, <1>13, <1>14, <1>15, <1>16, <1>17, <1>18, <1>19, <1>20,
     <1>21, <1>22, <1>23, <1>24, NextCases

LEMMA AccountedInvariant ==
  ASSUME SlowCalls = FALSE
  PROVE  Spec => [](Inserted /\ StatusStillRead /\ Accounted)
<1>1. Init => StatusStillRead /\ Accounted
  BY DEF Init, StatusStillRead, Accounted
<1>2. OrderInv => Inserted
  BY DEF OrderInv
<1> QED
  BY <1>1, <1>2, StatusStillReadStep, AccountedStep, HolderInvariant,
     OrderInvariant, TypeCorrect, PTL DEF Spec

(* Every delivery but one has a fault of its own.                          *)
THEOREM DuplicatesAreFaults ==
  ASSUME SlowCalls = FALSE
  PROVE  Spec => []DuplicateNeedsFault
<1>1. ASSUME TypeOK, Accounted, NEW o \in Orders
      PROVE  entitled[o] <= 1 + faults
  <2>1. entitled[o] \in Nat /\ faults \in Nat
    BY <1>1, ConstantAssumption DEF TypeOK
  <2>2. entitled[o] <= faults + 1 \/ entitled[o] <= faults
    BY <1>1 DEF Accounted
  <2> QED
    BY <2>1, <2>2
<1>2. TypeOK /\ Accounted => DuplicateNeedsFault
  BY <1>1 DEF DuplicateNeedsFault
<1> QED
  BY <1>2, AccountedInvariant, TypeCorrect, PTL

(* Without a fault a cancelled order has delivered nothing.                *)
THEOREM CancelDeliversNothing ==
  ASSUME SlowCalls = FALSE
  PROVE  Spec => []CancelledUndelivered
<1>1. TypeOK /\ StatusStillRead /\ Accounted => CancelledUndelivered
  BY ConstantAssumption
     DEF TypeOK, StatusStillRead, Accounted, Committing, CancelledUndelivered
<1> QED
  BY <1>1, AccountedInvariant, TypeCorrect, PTL

(* Payment and cancellation are final.                                     *)
THEOREM SettledForGood ==
  ASSUME SlowCalls = FALSE
  PROVE  Spec => StatusSettlesOnce
<1> DEFINE Settles == \A o \in Orders : status[o] \in {"Payed", "Cancel"}
                                          => status'[o] = status[o]
<1>1. TypeOK /\ Inserted /\ StatusStillRead /\ [Next]_vars => [Settles]_vars
  <2> SUFFICES ASSUME TypeOK, Inserted, StatusStillRead, [Next]_vars
               PROVE  Settles
    OBVIOUS
  <2>1. CASE UNCHANGED status
    BY <2>1
  <2>2. ASSUME NEW o \in Orders, CreateOrder(o) PROVE Settles
    BY <2>2 DEF CreateOrder, Inserted, TypeOK
  <2>3. ASSUME NEW w \in Workers, CancelOrder(w) PROVE Settles
    BY <2>3 DEF CancelOrder, At, StatusStillRead, TypeOK, Outside
  <2>4. ASSUME NEW w \in Workers, CommitPayed(w) PROVE Settles
    BY <2>4 DEF CommitPayed, At, StatusStillRead, TypeOK, Outside
  <2>5. \/ UNCHANGED status
        \/ \E o \in Orders : CreateOrder(o)
        \/ \E w \in Workers : CancelOrder(w) \/ CommitPayed(w)
    BY NextCases DEF vars, mysqlVars, PagePrePayOrder, SetOrderPayResult,
       SetTimeoutOrderCancel, Customer, TimePasses, LockExpires,
       RequestCancel, StartJob, NextOrder, DropStalePoll, GetOrderLock,
       UnLockOrder, GetOrderByID, CloseOrder, QueryOrderByOutTradeNo,
       UpdateStatusInTx, UserBenefitPackage, DelTimeoutOrderCancel,
       DelOrderPayResult, Crash
  <2> QED
    BY <2>1, <2>2, <2>3, <2>4, <2>5
<1> QED
  BY <1>1, AccountedInvariant, TypeCorrect, PTL DEF Spec, StatusSettlesOnce

-----------------------------------------------------------------------------
(* The refinement.  Only a placed order has a trade.                       *)
Placed ==
  \A o \in Orders :
    /\ creating[o] \in {"Row", "Signed", "Polled", "Done"}
         => status[o] # "Absent"
    /\ trade[o] # "None" => creating[o] = "Done"

LEMMA PlacedStep == TypeOK /\ Placed /\ [Next]_vars => Placed'
<1> SUFFICES ASSUME TypeOK, Placed, [Next]_vars PROVE Placed'
  OBVIOUS
<1> USE ConstantAssumption
    DEF Placed, TypeOK, OrderStatus, TradeStatus,
        CreateStep, Outside, Critical, PayTx, NoFault, Fault, GoTo, Return, At,
        mysqlVars, redisVars, workerVars
<1>1. CASE UNCHANGED vars
  BY <1>1 DEF vars
<1>2. ASSUME NEW o \in Orders, CreateOrder(o) PROVE Placed'
  BY <1>2 DEF CreateOrder
<1>3. ASSUME NEW o \in Orders, PagePrePayOrder(o) PROVE Placed'
  BY <1>3 DEF PagePrePayOrder
<1>4. ASSUME NEW o \in Orders, SetOrderPayResult(o) PROVE Placed'
  BY <1>4 DEF SetOrderPayResult
<1>5. ASSUME NEW o \in Orders, SetTimeoutOrderCancel(o) PROVE Placed'
  BY <1>5 DEF SetTimeoutOrderCancel
<1>6. ASSUME NEW o \in Orders, Customer(o) PROVE Placed'
  BY <1>6 DEF Customer, OpenPaymentPage, PayTrade, TradeExpires
<1>7. ASSUME NEW o \in Orders, TimePasses(o) PROVE Placed'
  BY <1>7 DEF TimePasses
<1>8. ASSUME NEW o \in Orders, LockExpires(o) PROVE Placed'
  BY <1>8 DEF LockExpires
<1>9. ASSUME NEW w \in Workers, RequestCancel(w) PROVE Placed'
  BY <1>9 DEF RequestCancel
<1>10. ASSUME NEW w \in Workers, StartJob(w) PROVE Placed'
  BY <1>10 DEF StartJob, TimeWaitOrders
<1>11. ASSUME NEW w \in Workers, NextOrder(w) PROVE Placed'
  BY <1>11 DEF NextOrder
<1>12. ASSUME NEW w \in Workers, DropStalePoll(w) PROVE Placed'
  BY <1>12 DEF DropStalePoll
<1>13. ASSUME NEW w \in Workers, GetOrderLock(w) PROVE Placed'
  BY <1>13 DEF GetOrderLock
<1>14. ASSUME NEW w \in Workers, UnLockOrder(w) PROVE Placed'
  BY <1>14 DEF UnLockOrder
<1>15. ASSUME NEW w \in Workers, GetOrderByID(w) PROVE Placed'
  BY <1>15 DEF GetOrderByID, AfterRead, FirstDelete
<1>16. ASSUME NEW w \in Workers, CancelOrder(w) PROVE Placed'
  BY <1>16 DEF CancelOrder
<1>17. ASSUME NEW w \in Workers, CloseOrder(w) PROVE Placed'
  BY <1>17 DEF CloseOrder, FirstDelete
<1>18. ASSUME NEW w \in Workers, QueryOrderByOutTradeNo(w) PROVE Placed'
  BY <1>18 DEF QueryOrderByOutTradeNo
<1>19. ASSUME NEW w \in Workers, UpdateStatusInTx(w) PROVE Placed'
  BY <1>19 DEF UpdateStatusInTx
<1>20. ASSUME NEW w \in Workers, UserBenefitPackage(w) PROVE Placed'
  BY <1>20 DEF UserBenefitPackage
<1>21. ASSUME NEW w \in Workers, CommitPayed(w) PROVE Placed'
  BY <1>21 DEF CommitPayed, FirstDelete
<1>22. ASSUME NEW w \in Workers, DelTimeoutOrderCancel(w) PROVE Placed'
  BY <1>22 DEF DelTimeoutOrderCancel
<1>23. ASSUME NEW w \in Workers, DelOrderPayResult(w) PROVE Placed'
  BY <1>23 DEF DelOrderPayResult
<1>24. ASSUME NEW w \in Workers, Crash(w) PROVE Placed'
  BY <1>24 DEF Crash
<1> QED
  BY <1>1, <1>2, <1>3, <1>4, <1>5, <1>6, <1>7, <1>8, <1>9, <1>10, <1>11,
     <1>12, <1>13, <1>14, <1>15, <1>16, <1>17, <1>18, <1>19, <1>20,
     <1>21, <1>22, <1>23, <1>24, NextCases

LEMMA PlacedInvariant == Spec => []Placed
<1>1. Init => Placed
  BY DEF Init, Placed
<1> QED
  BY <1>1, PlacedStep, TypeCorrect, PTL DEF Spec

(* What a step does to the three variables the contract sees.              *)
Visible == <<status, trade, entitled>>

LEMMA ContractStep ==
  ASSUME MaxFaults = 0, TypeOK, OrderInv, Placed, StatusStillRead, Accounted,
         [Next]_vars
  PROVE  [Contract!Next]_(Contract!vars)
<1> USE DEF Contract!vars
<1>1. CASE UNCHANGED Visible
  BY <1>1 DEF Visible
<1>2. ASSUME NEW o \in Orders, CreateOrder(o)
      PROVE  [Contract!Next]_(Contract!vars)
  <2>1. ~Fault
    BY ConstantAssumption DEF TypeOK, Fault
  <2>2. status[o] = "Absent" /\ status' = [status EXCEPT ![o] = "WaitPay"]
    BY <1>2, <2>1 DEF CreateOrder, OrderInv, Inserted
  <2>3. UNCHANGED <<entitled, trade>>
    BY <1>2 DEF CreateOrder
  <2>4. Contract!Place(o)
    BY <2>2, <2>3 DEF Contract!Place, TypeOK
  <2> QED
    BY <2>4 DEF Contract!Next
<1>3. ASSUME NEW o \in Orders, Customer(o)
      PROVE  [Contract!Next]_(Contract!vars)
  <2>1. UNCHANGED <<status, entitled>>
    BY <1>3 DEF Customer, mysqlVars
  <2>2. CASE PayTrade(o)
    <3>1. status[o] # "Absent"
      BY <2>2 DEF PayTrade, Placed
    <3>2. Contract!Pay(o)
      BY <2>1, <2>2, <3>1 DEF PayTrade, Contract!Pay, TypeOK
    <3> QED
      BY <3>2 DEF Contract!Next
  <2>3. CASE OpenPaymentPage(o) \/ TradeExpires(o)
    BY <2>1, <2>3 DEF OpenPaymentPage, TradeExpires, TypeOK
  <2> QED
    BY <1>3, <2>2, <2>3 DEF Customer
<1>4. ASSUME NEW w \in Workers, CancelOrder(w)
      PROVE  [Contract!Next]_(Contract!vars)
  <2>1. ~Fault
    BY ConstantAssumption DEF TypeOK, Fault
  <2>2. ord[w] \in Orders /\ status[ord[w]] = "WaitPay"
    BY <1>4 DEF CancelOrder, At, StatusStillRead, TypeOK, Outside
  <2>3. /\ status' = [status EXCEPT ![ord[w]] = "Cancel"]
        /\ UNCHANGED <<entitled, trade>>
    BY <1>4, <2>1 DEF CancelOrder
  <2>4. Contract!Cancel(ord[w])
    BY <2>2, <2>3 DEF Contract!Cancel, TypeOK
  <2> QED
    BY <2>2, <2>4 DEF Contract!Next
<1>5. ASSUME NEW w \in Workers, CommitPayed(w)
      PROVE  [Contract!Next]_(Contract!vars)
  <2>1. ~Fault /\ faults = 0
    BY ConstantAssumption DEF TypeOK, Fault
  <2>2. ord[w] \in Orders /\ pc[w] = "Commit"
    BY <1>5 DEF CommitPayed, At, TypeOK, Outside
  <2>3. status[ord[w]] = "WaitPay" /\ trade[ord[w]] = "Paid" /\ entitled[ord[w]] > 0
    BY <2>2 DEF StatusStillRead, OrderInv, Justified
  <2>4. entitled[ord[w]] \in Nat /\ entitled[ord[w]] <= 1
    BY <2>1, <2>2 DEF Accounted, Committing, TypeOK
  <2>5. entitled[ord[w]] = 1
    BY <2>3, <2>4
  <2>6. /\ status' = [status EXCEPT ![ord[w]] = "Payed"]
        /\ UNCHANGED <<entitled, trade>>
    BY <1>5, <2>1 DEF CommitPayed
  <2>7. Contract!Deliver(ord[w])
    BY <2>2, <2>3, <2>5, <2>6 DEF Contract!Deliver, TypeOK
  <2> QED
    BY <2>2, <2>7 DEF Contract!Next, Contract!Deliver
<1>6. ASSUME NEW w \in Workers, UserBenefitPackage(w)
      PROVE  [Contract!Next]_(Contract!vars)
  <2>1. ord[w] \in Orders /\ status[ord[w]] # "Payed"
    BY <1>6 DEF UserBenefitPackage, At, StatusStillRead, TypeOK, Outside
  <2>2. UNCHANGED <<status, trade>>
    BY <1>6 DEF UserBenefitPackage
  <2>3. \A o \in Orders : o # ord[w] => entitled'[o] = entitled[o]
    BY <1>6, <2>1 DEF UserBenefitPackage, TypeOK
  <2> QED
    BY <2>1, <2>2, <2>3
<1>7. ASSUME NEW w \in Workers, CloseOrder(w)
      PROVE  [Contract!Next]_(Contract!vars)
  <2>1. UNCHANGED <<status, entitled>>
    BY <1>7 DEF CloseOrder, mysqlVars
  <2>2. \A o \in Orders : trade'[o] = "Paid" <=> trade[o] = "Paid"
    BY <1>7 DEF CloseOrder, TypeOK
  <2> QED
    BY <2>1, <2>2
<1>8. \/ UNCHANGED Visible
      \/ \E o \in Orders : CreateOrder(o) \/ Customer(o)
      \/ \E w \in Workers : \/ CancelOrder(w) \/ CommitPayed(w)
                            \/ UserBenefitPackage(w) \/ CloseOrder(w)
  BY NextCases DEF Visible, vars, mysqlVars, PagePrePayOrder,
     SetOrderPayResult, SetTimeoutOrderCancel, TimePasses, LockExpires,
     RequestCancel, StartJob, NextOrder, DropStalePoll, GetOrderLock,
     UnLockOrder, GetOrderByID, QueryOrderByOutTradeNo, UpdateStatusInTx,
     DelTimeoutOrderCancel, DelOrderPayResult, Crash
<1> QED
  BY <1>1, <1>2, <1>3, <1>4, <1>5, <1>6, <1>7, <1>8

(* The handlers and the jobs implement the contract of the order when      *)
(* nothing fails and no call outlasts the lock.                            *)
THEOREM ContractImplemented ==
  ASSUME SlowCalls = FALSE, MaxFaults = 0
  PROVE  Spec => ImplementsContract
<1>1. Init => Contract!Init
  BY DEF Init, Contract!Init
<1>2. TypeOK /\ OrderInv /\ Placed /\ StatusStillRead /\ Accounted
        /\ [Next]_vars => [Contract!Next]_(Contract!vars)
  BY ContractStep
<1> QED
  BY <1>1, <1>2, TypeCorrect, OrderInvariant, PlacedInvariant,
     AccountedInvariant, PTL DEF Spec, ImplementsContract, Contract!Spec

=============================================================================

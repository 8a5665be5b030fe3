------------------------- MODULE OrderRefund_proofs -------------------------
(* Theorems about OrderRefund, for every order, every set of requests and  *)
(* runs of the job and every number of faults.                             *)
EXTENDS OrderRefund, FiniteSetTheorems, WellFoundedInduction, TLAPS

(* The actions of Next: the names a proof splits on.                       *)
LEMMA NextCases ==
  ASSUME Next
  PROVE \/ \E w \in Workers :
             \/ GetOrderLock(w) \/ UnLockOrder(w) \/ DelOrderRefundResult(w)
             \/ Crash(w)
        \/ \E w \in Requests :
             \/ RequestRefund(w) \/ Validate(w) \/ SetOrderRefundResult(w)
             \/ InsertRefund(w) \/ RefundOrder(w) \/ CommitRefund(w)
        \/ \E w \in PollJobs :
             \/ StartJob(w) \/ GetOrderRefundByOrderID(w) \/ QueryRefund(w)
             \/ ListRefunds(w) \/ MarkRefund(w) \/ SumRefunds(w)
             \/ UpdateOrder(w) \/ DeleteUserCourse(w) \/ CommitResult(w)
        \/ LockExpires \/ AlipaySettles
BY DEF Next, Handle, Refund, Poll, RequestRefund, StartJob

(* The count that gives a row its id is a number.                          *)
LEMMA CountIsNat ==
  Cardinality({r \in Requests : id[r] > 0}) \in Nat
BY RefundAssumption, FS_Subset, FS_CardinalityType

-----------------------------------------------------------------------------
(* Every reachable state has the types OrderRefund declares; a poll beyond *)
(* its first read has a row.                                               *)
THEOREM TypeCorrect == Spec => []TypeOK
<1> USE RefundAssumption
    DEF TypeOK, RefundStatus, Committed, Rows, DoneRows, Outside, Creating,
        OfOrder, OfRow, Polling, Critical, Workers
<1>1. Init => TypeOK
  BY DEF Init
<1>2. TypeOK /\ [Next]_vars => TypeOK'
  <2> SUFFICES ASSUME TypeOK, [Next]_vars PROVE TypeOK'
    OBVIOUS
  <2> USE DEF NoFault, Fault, At, Goes, GoTo, rowVars, orderVars, mysqlVars,
              redisVars, alipayVars, localVars
  <2>1. CASE UNCHANGED vars
    BY <2>1 DEF vars
  <2>2. ASSUME NEW w \in Workers, GetOrderLock(w) PROVE TypeOK'
    BY <2>2 DEF GetOrderLock, Return, Forget
  <2>3. ASSUME NEW w \in Workers, UnLockOrder(w) PROVE TypeOK'
    BY <2>3 DEF UnLockOrder, Return, Forget
  <2>4. ASSUME NEW w \in Workers, DelOrderRefundResult(w) PROVE TypeOK'
    BY <2>4 DEF DelOrderRefundResult
  <2>5. ASSUME NEW w \in Workers, Crash(w) PROVE TypeOK'
    BY <2>5 DEF Crash, RollBack, Return, Forget
  <2>6. ASSUME NEW w \in Requests, RequestRefund(w) PROVE TypeOK'
    BY <2>6 DEF RequestRefund
  <2>7. ASSUME NEW w \in Requests, Validate(w) PROVE TypeOK'
    BY <2>7 DEF Validate
  <2>8. ASSUME NEW w \in Requests, SetOrderRefundResult(w) PROVE TypeOK'
    BY <2>8 DEF SetOrderRefundResult
  <2>9. ASSUME NEW w \in Requests, InsertRefund(w) PROVE TypeOK'
    BY <2>9, CountIsNat DEF InsertRefund
  <2>10. ASSUME NEW w \in Requests, RefundOrder(w) PROVE TypeOK'
    BY <2>10 DEF RefundOrder, SameAmount, Accepts, Repeats, Refuses, RollBack
  <2>11. ASSUME NEW w \in Requests, CommitRefund(w) PROVE TypeOK'
    BY <2>11 DEF CommitRefund
  <2>12. ASSUME NEW w \in PollJobs, StartJob(w) PROVE TypeOK'
    BY <2>12 DEF StartJob
  <2>13. ASSUME NEW w \in PollJobs, GetOrderRefundByOrderID(w) PROVE TypeOK'
    BY <2>13 DEF GetOrderRefundByOrderID, Youngest
  <2>14. ASSUME NEW w \in PollJobs, QueryRefund(w) PROVE TypeOK'
    BY <2>14 DEF QueryRefund
  <2>15. ASSUME NEW w \in PollJobs, ListRefunds(w) PROVE TypeOK'
    <3>1. UNION {r.items : r \in Rows} \in SUBSET Items
      BY RefundAssumption DEF Rows, RequestSet
    <3>2. found' \in [PollJobs -> SUBSET Items]
      BY <2>15, <3>1 DEF ListRefunds
    <3> QED
      BY <2>15, <3>2 DEF ListRefunds
  <2>16. ASSUME NEW w \in PollJobs, MarkRefund(w) PROVE TypeOK'
    BY <2>16 DEF MarkRefund
  <2>17. ASSUME NEW w \in PollJobs, SumRefunds(w) PROVE TypeOK'
    BY <2>17 DEF SumRefunds
  <2>18. ASSUME NEW w \in PollJobs, UpdateOrder(w) PROVE TypeOK'
    BY <2>18 DEF UpdateOrder
  <2>19. ASSUME NEW w \in PollJobs, DeleteUserCourse(w) PROVE TypeOK'
    BY <2>19 DEF DeleteUserCourse
  <2>20. ASSUME NEW w \in PollJobs, CommitResult(w) PROVE TypeOK'
    BY <2>20 DEF CommitResult, RecordResult
  <2>21. CASE LockExpires
    BY <2>21 DEF LockExpires
  <2>22. CASE AlipaySettles
    BY <2>22 DEF AlipaySettles
  <2> QED
    BY <2>1, <2>2, <2>3, <2>4, <2>5, <2>6, <2>7, <2>8, <2>9, <2>10, <2>11,
       <2>12, <2>13, <2>14, <2>15, <2>16, <2>17, <2>18, <2>19, <2>20, <2>21,
       <2>22, NextCases
<1> QED
  BY <1>1, <1>2, PTL DEF Spec

-----------------------------------------------------------------------------
(* What no slow call and no fault can break.  A request whose row is still *)
(* open stands between its insert and its commit; a poll past its first    *)
(* read works on a committed row, and when it commits the courses of that  *)
(* row are gone; a row with a result has the one Alipay reports.           *)
RowOfRequest ==
  \A r \in Requests :
    /\ refund[r] = "Open" <=> pc[r] \in {"Refund", "Commit"}
    /\ pc[r] \in {"Idle", "Lock", "Validate", "Enqueue", "Insert"}
         => refund[r] = "Absent"

RowOfPoll ==
  \A w \in PollJobs :
    /\ pc[w] \in Polling \ {"Read"} => cur[w] \in Rows
    /\ pc[w] \in {"Sum", "Order"} => answer = "Done"
    /\ pc[w] = "Finish" => cur[w].items \cap owned = {}

ResultIsAnswer ==
  \A r \in Requests : refund[r] \in {"Done", "Exception"} => refund[r] = answer

LEMMA RowOfRequestStep ==
  TypeOK /\ RowOfPoll /\ RowOfRequest /\ [Next]_vars => RowOfRequest'
<1> SUFFICES ASSUME TypeOK, RowOfPoll, RowOfRequest, [Next]_vars
             PROVE  RowOfRequest'
  OBVIOUS
<1> USE RefundAssumption
    DEF RowOfRequest, RowOfPoll, TypeOK, RefundStatus, Committed, Rows,
        DoneRows, RequestSet, Outside, Creating, OfOrder, OfRow, Polling,
        Critical, Workers, NoFault, Fault, At, Goes, GoTo, rowVars,
        orderVars, mysqlVars, redisVars, alipayVars, localVars
<1>1. CASE UNCHANGED vars
  BY <1>1 DEF vars
<1>2. ASSUME NEW w \in Workers, GetOrderLock(w) PROVE RowOfRequest'
  BY <1>2 DEF GetOrderLock, Return, Forget
<1>3. ASSUME NEW w \in Workers, UnLockOrder(w) PROVE RowOfRequest'
  BY <1>3 DEF UnLockOrder, Return, Forget
<1>4. ASSUME NEW w \in Workers, DelOrderRefundResult(w) PROVE RowOfRequest'
  BY <1>4 DEF DelOrderRefundResult
<1>5. ASSUME NEW w \in Workers, Crash(w) PROVE RowOfRequest'
  BY <1>5 DEF Crash, RollBack, Return, Forget
<1>6. ASSUME NEW w \in Requests, RequestRefund(w) PROVE RowOfRequest'
  BY <1>6 DEF RequestRefund
<1>7. ASSUME NEW w \in Requests, Validate(w) PROVE RowOfRequest'
  BY <1>7 DEF Validate
<1>8. ASSUME NEW w \in Requests, SetOrderRefundResult(w) PROVE RowOfRequest'
  BY <1>8 DEF SetOrderRefundResult
<1>9. ASSUME NEW w \in Requests, InsertRefund(w) PROVE RowOfRequest'
  BY <1>9 DEF InsertRefund
<1>10. ASSUME NEW w \in Requests, RefundOrder(w) PROVE RowOfRequest'
  BY <1>10 DEF RefundOrder, SameAmount, Accepts, Repeats, Refuses, RollBack
<1>11. ASSUME NEW w \in Requests, CommitRefund(w) PROVE RowOfRequest'
  BY <1>11 DEF CommitRefund
<1>12. ASSUME NEW w \in PollJobs, StartJob(w) PROVE RowOfRequest'
  BY <1>12 DEF StartJob
<1>13. ASSUME NEW w \in PollJobs, GetOrderRefundByOrderID(w) PROVE RowOfRequest'
  BY <1>13 DEF GetOrderRefundByOrderID, Youngest
<1>14. ASSUME NEW w \in PollJobs, QueryRefund(w) PROVE RowOfRequest'
  BY <1>14 DEF QueryRefund
<1>15. ASSUME NEW w \in PollJobs, ListRefunds(w) PROVE RowOfRequest'
  BY <1>15 DEF ListRefunds, RequestSet
<1>16. ASSUME NEW w \in PollJobs, MarkRefund(w) PROVE RowOfRequest'
  BY <1>16 DEF MarkRefund
<1>17. ASSUME NEW w \in PollJobs, SumRefunds(w) PROVE RowOfRequest'
  BY <1>17 DEF SumRefunds
<1>18. ASSUME NEW w \in PollJobs, UpdateOrder(w) PROVE RowOfRequest'
  BY <1>18 DEF UpdateOrder
<1>19. ASSUME NEW w \in PollJobs, DeleteUserCourse(w) PROVE RowOfRequest'
  BY <1>19 DEF DeleteUserCourse
<1>20. ASSUME NEW w \in PollJobs, CommitResult(w) PROVE RowOfRequest'
  BY <1>20 DEF CommitResult, RecordResult
<1>21. CASE LockExpires
  BY <1>21 DEF LockExpires
<1>22. CASE AlipaySettles
  BY <1>22 DEF AlipaySettles
<1> QED
  BY <1>1, <1>2, <1>3, <1>4, <1>5, <1>6, <1>7, <1>8, <1>9, <1>10, <1>11,
     <1>12, <1>13, <1>14, <1>15, <1>16, <1>17, <1>18, <1>19, <1>20, <1>21,
     <1>22, NextCases

LEMMA RowOfPollStep ==
  TypeOK /\ RowOfRequest /\ RowOfPoll /\ [Next]_vars => RowOfPoll'
<1> SUFFICES ASSUME TypeOK, RowOfRequest, RowOfPoll, [Next]_vars
             PROVE  RowOfPoll'
  OBVIOUS
<1> USE RefundAssumption
    DEF RowOfPoll, RowOfRequest, TypeOK, RefundStatus, Committed, Rows,
        DoneRows, RequestSet, Outside, Creating, OfOrder, OfRow, Polling,
        Critical, Workers, NoFault, Fault, At, Goes, GoTo, rowVars,
        orderVars, mysqlVars, redisVars, alipayVars, localVars
<1>1. CASE UNCHANGED vars
  BY <1>1 DEF vars
<1>2. ASSUME NEW w \in Workers, GetOrderLock(w) PROVE RowOfPoll'
  BY <1>2 DEF GetOrderLock, Return, Forget
<1>3. ASSUME NEW w \in Workers, UnLockOrder(w) PROVE RowOfPoll'
  BY <1>3 DEF UnLockOrder, Return, Forget
<1>4. ASSUME NEW w \in Workers, DelOrderRefundResult(w) PROVE RowOfPoll'
  BY <1>4 DEF DelOrderRefundResult
<1>5. ASSUME NEW w \in Workers, Crash(w) PROVE RowOfPoll'
  BY <1>5 DEF Crash, RollBack, Return, Forget
<1>6. ASSUME NEW w \in Requests, RequestRefund(w) PROVE RowOfPoll'
  BY <1>6 DEF RequestRefund
<1>7. ASSUME NEW w \in Requests, Validate(w) PROVE RowOfPoll'
  BY <1>7 DEF Validate
<1>8. ASSUME NEW w \in Requests, SetOrderRefundResult(w) PROVE RowOfPoll'
  BY <1>8 DEF SetOrderRefundResult
<1>9. ASSUME NEW w \in Requests, InsertRefund(w) PROVE RowOfPoll'
  <2>1. refund[w] \notin Committed
    BY <1>9 DEF InsertRefund
  <2>2. Rows \subseteq Rows'
    BY <1>9, <2>1 DEF InsertRefund
  <2>3. /\ \A v \in PollJobs : pc'[v] = pc[v]
        /\ UNCHANGED <<cur, owned, answer>>
    BY <1>9 DEF InsertRefund
  <2> QED
    BY <2>2, <2>3
<1>10. ASSUME NEW w \in Requests, RefundOrder(w) PROVE RowOfPoll'
  BY <1>10 DEF RefundOrder, SameAmount, Accepts, Repeats, Refuses, RollBack
<1>11. ASSUME NEW w \in Requests, CommitRefund(w) PROVE RowOfPoll'
  <2>1. refund[w] \notin Committed
    BY <1>11 DEF CommitRefund
  <2>2. Rows \subseteq Rows'
    BY <1>11, <2>1 DEF CommitRefund
  <2>3. /\ \A v \in PollJobs : pc'[v] = pc[v]
        /\ UNCHANGED <<cur, owned, answer>>
    BY <1>11 DEF CommitRefund
  <2> QED
    BY <2>2, <2>3
<1>12. ASSUME NEW w \in PollJobs, StartJob(w) PROVE RowOfPoll'
  BY <1>12 DEF StartJob
<1>13. ASSUME NEW w \in PollJobs, GetOrderRefundByOrderID(w) PROVE RowOfPoll'
  BY <1>13 DEF GetOrderRefundByOrderID, Youngest
<1>14. ASSUME NEW w \in PollJobs, QueryRefund(w) PROVE RowOfPoll'
  BY <1>14 DEF QueryRefund
<1>15. ASSUME NEW w \in PollJobs, ListRefunds(w) PROVE RowOfPoll'
  BY <1>15 DEF ListRefunds, RequestSet
<1>16. ASSUME NEW w \in PollJobs, MarkRefund(w) PROVE RowOfPoll'
  BY <1>16 DEF MarkRefund
<1>17. ASSUME NEW w \in PollJobs, SumRefunds(w) PROVE RowOfPoll'
  BY <1>17 DEF SumRefunds
<1>18. ASSUME NEW w \in PollJobs, UpdateOrder(w) PROVE RowOfPoll'
  BY <1>18 DEF UpdateOrder
<1>19. ASSUME NEW w \in PollJobs, DeleteUserCourse(w) PROVE RowOfPoll'
  BY <1>19 DEF DeleteUserCourse
<1>20. ASSUME NEW w \in PollJobs, CommitResult(w) PROVE RowOfPoll'
  BY <1>20 DEF CommitResult, RecordResult
<1>21. CASE LockExpires
  BY <1>21 DEF LockExpires
<1>22. CASE AlipaySettles
  BY <1>22 DEF AlipaySettles
<1> QED
  BY <1>1, <1>2, <1>3, <1>4, <1>5, <1>6, <1>7, <1>8, <1>9, <1>10, <1>11,
     <1>12, <1>13, <1>14, <1>15, <1>16, <1>17, <1>18, <1>19, <1>20, <1>21,
     <1>22, NextCases

LEMMA ResultStep ==
  TypeOK /\ ResultIsAnswer /\ [Next]_vars => ResultIsAnswer'
<1> SUFFICES ASSUME TypeOK, ResultIsAnswer, [Next]_vars
             PROVE  ResultIsAnswer'
  OBVIOUS
<1> USE RefundAssumption
    DEF ResultIsAnswer, TypeOK, RefundStatus, Committed, Rows,
        DoneRows, RequestSet, Outside, Creating, OfOrder, OfRow, Polling,
        Critical, Workers, NoFault, Fault, At, Goes, GoTo, rowVars,
        orderVars, mysqlVars, redisVars, alipayVars, localVars
<1>1. CASE UNCHANGED vars
  BY <1>1 DEF vars
<1>2. ASSUME NEW w \in Workers, GetOrderLock(w) PROVE ResultIsAnswer'
  BY <1>2 DEF GetOrderLock, Return, Forget
<1>3. ASSUME NEW w \in Workers, UnLockOrder(w) PROVE ResultIsAnswer'
  BY <1>3 DEF UnLockOrder, Return, Forget
<1>4. ASSUME NEW w \in Workers, DelOrderRefundResult(w) PROVE ResultIsAnswer'
  BY <1>4 DEF DelOrderRefundResult
<1>5. ASSUME NEW w \in Workers, Crash(w) PROVE ResultIsAnswer'
  BY <1>5 DEF Crash, RollBack, Return, Forget
<1>6. ASSUME NEW w \in Requests, RequestRefund(w) PROVE ResultIsAnswer'
  BY <1>6 DEF RequestRefund
<1>7. ASSUME NEW w \in Requests, Validate(w) PROVE ResultIsAnswer'
  BY <1>7 DEF Validate
<1>8. ASSUME NEW w \in Requests, SetOrderRefundResult(w) PROVE ResultIsAnswer'
  BY <1>8 DEF SetOrderRefundResult
<1>9. ASSUME NEW w \in Requests, InsertRefund(w) PROVE ResultIsAnswer'
  BY <1>9 DEF InsertRefund
<1>10. ASSUME NEW w \in Requests, RefundOrder(w) PROVE ResultIsAnswer'
  BY <1>10 DEF RefundOrder, SameAmount, Accepts, Repeats, Refuses, RollBack
<1>11. ASSUME NEW w \in Requests, CommitRefund(w) PROVE ResultIsAnswer'
  BY <1>11 DEF CommitRefund
<1>12. ASSUME NEW w \in PollJobs, StartJob(w) PROVE ResultIsAnswer'
  BY <1>12 DEF StartJob
<1>13. ASSUME NEW w \in PollJobs, GetOrderRefundByOrderID(w) PROVE ResultIsAnswer'
  BY <1>13 DEF GetOrderRefundByOrderID, Youngest
<1>14. ASSUME NEW w \in PollJobs, QueryRefund(w) PROVE ResultIsAnswer'
  BY <1>14 DEF QueryRefund
<1>15. ASSUME NEW w \in PollJobs, ListRefunds(w) PROVE ResultIsAnswer'
  BY <1>15 DEF ListRefunds, RequestSet
<1>16. ASSUME NEW w \in PollJobs, MarkRefund(w) PROVE ResultIsAnswer'
  BY <1>16 DEF MarkRefund
<1>17. ASSUME NEW w \in PollJobs, SumRefunds(w) PROVE ResultIsAnswer'
  BY <1>17 DEF SumRefunds
<1>18. ASSUME NEW w \in PollJobs, UpdateOrder(w) PROVE ResultIsAnswer'
  BY <1>18 DEF UpdateOrder
<1>19. ASSUME NEW w \in PollJobs, DeleteUserCourse(w) PROVE ResultIsAnswer'
  BY <1>19 DEF DeleteUserCourse
<1>20. ASSUME NEW w \in PollJobs, CommitResult(w) PROVE ResultIsAnswer'
  BY <1>20 DEF CommitResult, RecordResult
<1>21. CASE LockExpires
  BY <1>21 DEF LockExpires
<1>22. CASE AlipaySettles
  BY <1>22 DEF AlipaySettles
<1> QED
  BY <1>1, <1>2, <1>3, <1>4, <1>5, <1>6, <1>7, <1>8, <1>9, <1>10, <1>11,
     <1>12, <1>13, <1>14, <1>15, <1>16, <1>17, <1>18, <1>19, <1>20, <1>21,
     <1>22, NextCases

LEMMA RowsInvariant == Spec => [](RowOfRequest /\ RowOfPoll /\ ResultIsAnswer)
<1>1. Init => RowOfRequest /\ RowOfPoll /\ ResultIsAnswer
  BY RefundAssumption
     DEF Init, RowOfRequest, RowOfPoll, ResultIsAnswer, Polling, OfRow, OfOrder,
         Workers
<1> QED
  BY <1>1, RowOfRequestStep, RowOfPollStep, ResultStep, TypeCorrect, PTL DEF Spec

(* What a transaction is about to commit, or has committed, is a refund of *)
(* the amount that Alipay has accepted: it refused any other.              *)
RowsAreAgreed ==
  \A r \in Requests : refund[r] \in Committed \/ pc[r] = "Commit" => SameAmount(r)

LEMMA AgreedStep ==
  TypeOK /\ RowOfRequest /\ RowOfPoll /\ ResultIsAnswer /\
    RowsAreAgreed /\ [Next]_vars => RowsAreAgreed'
<1> SUFFICES ASSUME TypeOK, RowOfRequest, RowOfPoll, ResultIsAnswer,
                    RowsAreAgreed, [Next]_vars
             PROVE  RowsAreAgreed'
  OBVIOUS
<1> USE RefundAssumption
    DEF RowOfRequest,
        RowOfPoll, ResultIsAnswer, RowsAreAgreed, SameAmount, TypeOK, RefundStatus, Committed, Rows,
        DoneRows, RequestSet, Outside, Creating, OfOrder, OfRow, Polling,
        Critical, Workers, NoFault, Fault, At, Goes, GoTo, rowVars,
        orderVars, mysqlVars, redisVars, alipayVars, localVars
<1>1. CASE UNCHANGED vars
  BY <1>1 DEF vars
<1>2. ASSUME NEW w \in Workers, GetOrderLock(w) PROVE RowsAreAgreed'
  BY <1>2 DEF GetOrderLock, Return, Forget
<1>3. ASSUME NEW w \in Workers, UnLockOrder(w) PROVE RowsAreAgreed'
  BY <1>3 DEF UnLockOrder, Return, Forget
<1>4. ASSUME NEW w \in Workers, DelOrderRefundResult(w) PROVE RowsAreAgreed'
  BY <1>4 DEF DelOrderRefundResult
<1>5. ASSUME NEW w \in Workers, Crash(w) PROVE RowsAreAgreed'
  BY <1>5 DEF Crash, RollBack, Return, Forget
<1>6. ASSUME NEW w \in Requests, RequestRefund(w) PROVE RowsAreAgreed'
  BY <1>6 DEF RequestRefund
<1>7. ASSUME NEW w \in Requests, Validate(w) PROVE RowsAreAgreed'
  BY <1>7 DEF Validate
<1>8. ASSUME NEW w \in Requests, SetOrderRefundResult(w) PROVE RowsAreAgreed'
  BY <1>8 DEF SetOrderRefundResult
<1>9. ASSUME NEW w \in Requests, InsertRefund(w) PROVE RowsAreAgreed'
  BY <1>9 DEF InsertRefund
<1>10. ASSUME NEW w \in Requests, RefundOrder(w) PROVE RowsAreAgreed'
  BY <1>10 DEF RefundOrder, Accepts, Repeats, Refuses, RollBack
<1>11. ASSUME NEW w \in Requests, CommitRefund(w) PROVE RowsAreAgreed'
  BY <1>11 DEF CommitRefund
<1>12. ASSUME NEW w \in PollJobs, StartJob(w) PROVE RowsAreAgreed'
  BY <1>12 DEF StartJob
<1>13. ASSUME NEW w \in PollJobs, GetOrderRefundByOrderID(w) PROVE RowsAreAgreed'
  BY <1>13 DEF GetOrderRefundByOrderID, Youngest
<1>14. ASSUME NEW w \in PollJobs, QueryRefund(w) PROVE RowsAreAgreed'
  BY <1>14 DEF QueryRefund
<1>15. ASSUME NEW w \in PollJobs, ListRefunds(w) PROVE RowsAreAgreed'
  BY <1>15 DEF ListRefunds, RequestSet
<1>16. ASSUME NEW w \in PollJobs, MarkRefund(w) PROVE RowsAreAgreed'
  BY <1>16 DEF MarkRefund
<1>17. ASSUME NEW w \in PollJobs, SumRefunds(w) PROVE RowsAreAgreed'
  BY <1>17 DEF SumRefunds
<1>18. ASSUME NEW w \in PollJobs, UpdateOrder(w) PROVE RowsAreAgreed'
  BY <1>18 DEF UpdateOrder
<1>19. ASSUME NEW w \in PollJobs, DeleteUserCourse(w) PROVE RowsAreAgreed'
  BY <1>19 DEF DeleteUserCourse
<1>20. ASSUME NEW w \in PollJobs, CommitResult(w) PROVE RowsAreAgreed'
  BY <1>20 DEF CommitResult, RecordResult
<1>21. CASE LockExpires
  BY <1>21 DEF LockExpires
<1>22. CASE AlipaySettles
  BY <1>22 DEF AlipaySettles
<1> QED
  BY <1>1, <1>2, <1>3, <1>4, <1>5, <1>6, <1>7, <1>8, <1>9, <1>10, <1>11,
     <1>12, <1>13, <1>14, <1>15, <1>16, <1>17, <1>18, <1>19, <1>20, <1>21,
     <1>22, NextCases

LEMMA DoneStep ==
  TypeOK /\ RowOfRequest /\ RowOfPoll /\ ResultIsAnswer /\ RowsAreAgreed /\
    DoneRestsOnPayment /\ [Next]_vars => DoneRestsOnPayment'
<1> SUFFICES ASSUME TypeOK, RowOfRequest, RowOfPoll, ResultIsAnswer,
                    RowsAreAgreed, DoneRestsOnPayment, [Next]_vars
             PROVE  DoneRestsOnPayment'
  OBVIOUS
<1> USE RefundAssumption
    DEF DoneRestsOnPayment, RowOfRequest,
        RowOfPoll, ResultIsAnswer, RowsAreAgreed, SameAmount, TypeOK, RefundStatus, Committed, Rows,
        DoneRows, RequestSet, Outside, Creating, OfOrder, OfRow, Polling,
        Critical, Workers, NoFault, Fault, At, Goes, GoTo, rowVars,
        orderVars, mysqlVars, redisVars, alipayVars, localVars
<1>1. CASE UNCHANGED vars
  BY <1>1 DEF vars
<1>2. ASSUME NEW w \in Workers, GetOrderLock(w) PROVE DoneRestsOnPayment'
  BY <1>2 DEF GetOrderLock, Return, Forget
<1>3. ASSUME NEW w \in Workers, UnLockOrder(w) PROVE DoneRestsOnPayment'
  BY <1>3 DEF UnLockOrder, Return, Forget
<1>4. ASSUME NEW w \in Workers, DelOrderRefundResult(w) PROVE DoneRestsOnPayment'
  BY <1>4 DEF DelOrderRefundResult
<1>5. ASSUME NEW w \in Workers, Crash(w) PROVE DoneRestsOnPayment'
  BY <1>5 DEF Crash, RollBack, Return, Forget
<1>6. ASSUME NEW w \in Requests, RequestRefund(w) PROVE DoneRestsOnPayment'
  BY <1>6 DEF RequestRefund
<1>7. ASSUME NEW w \in Requests, Validate(w) PROVE DoneRestsOnPayment'
  BY <1>7 DEF Validate
<1>8. ASSUME NEW w \in Requests, SetOrderRefundResult(w) PROVE DoneRestsOnPayment'
  BY <1>8 DEF SetOrderRefundResult
<1>9. ASSUME NEW w \in Requests, InsertRefund(w) PROVE DoneRestsOnPayment'
  BY <1>9 DEF InsertRefund
<1>10. ASSUME NEW w \in Requests, RefundOrder(w) PROVE DoneRestsOnPayment'
  BY <1>10 DEF RefundOrder, Accepts, Repeats, Refuses, RollBack
<1>11. ASSUME NEW w \in Requests, CommitRefund(w) PROVE DoneRestsOnPayment'
  BY <1>11 DEF CommitRefund
<1>12. ASSUME NEW w \in PollJobs, StartJob(w) PROVE DoneRestsOnPayment'
  BY <1>12 DEF StartJob
<1>13. ASSUME NEW w \in PollJobs, GetOrderRefundByOrderID(w) PROVE DoneRestsOnPayment'
  BY <1>13 DEF GetOrderRefundByOrderID, Youngest
<1>14. ASSUME NEW w \in PollJobs, QueryRefund(w) PROVE DoneRestsOnPayment'
  BY <1>14 DEF QueryRefund
<1>15. ASSUME NEW w \in PollJobs, ListRefunds(w) PROVE DoneRestsOnPayment'
  BY <1>15 DEF ListRefunds, RequestSet
<1>16. ASSUME NEW w \in PollJobs, MarkRefund(w) PROVE DoneRestsOnPayment'
  BY <1>16 DEF MarkRefund
<1>17. ASSUME NEW w \in PollJobs, SumRefunds(w) PROVE DoneRestsOnPayment'
  BY <1>17 DEF SumRefunds
<1>18. ASSUME NEW w \in PollJobs, UpdateOrder(w) PROVE DoneRestsOnPayment'
  BY <1>18 DEF UpdateOrder
<1>19. ASSUME NEW w \in PollJobs, DeleteUserCourse(w) PROVE DoneRestsOnPayment'
  BY <1>19 DEF DeleteUserCourse
<1>20. ASSUME NEW w \in PollJobs, CommitResult(w) PROVE DoneRestsOnPayment'
  BY <1>20 DEF CommitResult, RecordResult
<1>21. CASE LockExpires
  BY <1>21 DEF LockExpires
<1>22. CASE AlipaySettles
  BY <1>22 DEF AlipaySettles
<1> QED
  BY <1>1, <1>2, <1>3, <1>4, <1>5, <1>6, <1>7, <1>8, <1>9, <1>10, <1>11,
     <1>12, <1>13, <1>14, <1>15, <1>16, <1>17, <1>18, <1>19, <1>20, <1>21,
     <1>22, NextCases

LEMMA RevokedStep ==
  TypeOK /\ RowOfRequest /\ RowOfPoll /\ ResultIsAnswer /\
    RevokedNeedsAnswer /\ [Next]_vars => RevokedNeedsAnswer'
<1> SUFFICES ASSUME TypeOK, RowOfRequest, RowOfPoll, ResultIsAnswer,
                    RevokedNeedsAnswer, [Next]_vars
             PROVE  RevokedNeedsAnswer'
  OBVIOUS
<1> USE RefundAssumption
    DEF RevokedNeedsAnswer, RowOfRequest,
        RowOfPoll, ResultIsAnswer, TypeOK, RefundStatus, Committed, Rows,
        DoneRows, RequestSet, Outside, Creating, OfOrder, OfRow, Polling,
        Critical, Workers, NoFault, Fault, At, Goes, GoTo, rowVars,
        orderVars, mysqlVars, redisVars, alipayVars, localVars
<1>1. CASE UNCHANGED vars
  BY <1>1 DEF vars
<1>2. ASSUME NEW w \in Workers, GetOrderLock(w) PROVE RevokedNeedsAnswer'
  BY <1>2 DEF GetOrderLock, Return, Forget
<1>3. ASSUME NEW w \in Workers, UnLockOrder(w) PROVE RevokedNeedsAnswer'
  BY <1>3 DEF UnLockOrder, Return, Forget
<1>4. ASSUME NEW w \in Workers, DelOrderRefundResult(w) PROVE RevokedNeedsAnswer'
  BY <1>4 DEF DelOrderRefundResult
<1>5. ASSUME NEW w \in Workers, Crash(w) PROVE RevokedNeedsAnswer'
  BY <1>5 DEF Crash, RollBack, Return, Forget
<1>6. ASSUME NEW w \in Requests, RequestRefund(w) PROVE RevokedNeedsAnswer'
  BY <1>6 DEF RequestRefund
<1>7. ASSUME NEW w \in Requests, Validate(w) PROVE RevokedNeedsAnswer'
  BY <1>7 DEF Validate
<1>8. ASSUME NEW w \in Requests, SetOrderRefundResult(w) PROVE RevokedNeedsAnswer'
  BY <1>8 DEF SetOrderRefundResult
<1>9. ASSUME NEW w \in Requests, InsertRefund(w) PROVE RevokedNeedsAnswer'
  BY <1>9 DEF InsertRefund
<1>10. ASSUME NEW w \in Requests, RefundOrder(w) PROVE RevokedNeedsAnswer'
  BY <1>10 DEF RefundOrder, SameAmount, Accepts, Repeats, Refuses, RollBack
<1>11. ASSUME NEW w \in Requests, CommitRefund(w) PROVE RevokedNeedsAnswer'
  BY <1>11 DEF CommitRefund
<1>12. ASSUME NEW w \in PollJobs, StartJob(w) PROVE RevokedNeedsAnswer'
  BY <1>12 DEF StartJob
<1>13. ASSUME NEW w \in PollJobs, GetOrderRefundByOrderID(w) PROVE RevokedNeedsAnswer'
  BY <1>13 DEF GetOrderRefundByOrderID, Youngest
<1>14. ASSUME NEW w \in PollJobs, QueryRefund(w) PROVE RevokedNeedsAnswer'
  BY <1>14 DEF QueryRefund
<1>15. ASSUME NEW w \in PollJobs, ListRefunds(w) PROVE RevokedNeedsAnswer'
  BY <1>15 DEF ListRefunds, RequestSet
<1>16. ASSUME NEW w \in PollJobs, MarkRefund(w) PROVE RevokedNeedsAnswer'
  BY <1>16 DEF MarkRefund
<1>17. ASSUME NEW w \in PollJobs, SumRefunds(w) PROVE RevokedNeedsAnswer'
  BY <1>17 DEF SumRefunds
<1>18. ASSUME NEW w \in PollJobs, UpdateOrder(w) PROVE RevokedNeedsAnswer'
  BY <1>18 DEF UpdateOrder
<1>19. ASSUME NEW w \in PollJobs, DeleteUserCourse(w) PROVE RevokedNeedsAnswer'
  BY <1>19 DEF DeleteUserCourse
<1>20. ASSUME NEW w \in PollJobs, CommitResult(w) PROVE RevokedNeedsAnswer'
  BY <1>20 DEF CommitResult, RecordResult
<1>21. CASE LockExpires
  BY <1>21 DEF LockExpires
<1>22. CASE AlipaySettles
  BY <1>22 DEF AlipaySettles
<1> QED
  BY <1>1, <1>2, <1>3, <1>4, <1>5, <1>6, <1>7, <1>8, <1>9, <1>10, <1>11,
     <1>12, <1>13, <1>14, <1>15, <1>16, <1>17, <1>18, <1>19, <1>20, <1>21,
     <1>22, NextCases

LEMMA RefundedStep ==
  TypeOK /\ RowOfRequest /\ RowOfPoll /\ ResultIsAnswer /\
    RefundedNeedsDone /\ [Next]_vars => RefundedNeedsDone'
<1> SUFFICES ASSUME TypeOK, RowOfRequest, RowOfPoll, ResultIsAnswer,
                    RefundedNeedsDone, [Next]_vars
             PROVE  RefundedNeedsDone'
  OBVIOUS
<1> USE RefundAssumption
    DEF RefundedNeedsDone, RowOfRequest,
        RowOfPoll, ResultIsAnswer, TypeOK, RefundStatus, Committed, Rows,
        DoneRows, RequestSet, Outside, Creating, OfOrder, OfRow, Polling,
        Critical, Workers, NoFault, Fault, At, Goes, GoTo, rowVars,
        orderVars, mysqlVars, redisVars, alipayVars, localVars
<1>1. CASE UNCHANGED vars
  BY <1>1 DEF vars
<1>2. ASSUME NEW w \in Workers, GetOrderLock(w) PROVE RefundedNeedsDone'
  BY <1>2 DEF GetOrderLock, Return, Forget
<1>3. ASSUME NEW w \in Workers, UnLockOrder(w) PROVE RefundedNeedsDone'
  BY <1>3 DEF UnLockOrder, Return, Forget
<1>4. ASSUME NEW w \in Workers, DelOrderRefundResult(w) PROVE RefundedNeedsDone'
  BY <1>4 DEF DelOrderRefundResult
<1>5. ASSUME NEW w \in Workers, Crash(w) PROVE RefundedNeedsDone'
  BY <1>5 DEF Crash, RollBack, Return, Forget
<1>6. ASSUME NEW w \in Requests, RequestRefund(w) PROVE RefundedNeedsDone'
  BY <1>6 DEF RequestRefund
<1>7. ASSUME NEW w \in Requests, Validate(w) PROVE RefundedNeedsDone'
  BY <1>7 DEF Validate
<1>8. ASSUME NEW w \in Requests, SetOrderRefundResult(w) PROVE RefundedNeedsDone'
  BY <1>8 DEF SetOrderRefundResult
<1>9. ASSUME NEW w \in Requests, InsertRefund(w) PROVE RefundedNeedsDone'
  BY <1>9 DEF InsertRefund
<1>10. ASSUME NEW w \in Requests, RefundOrder(w) PROVE RefundedNeedsDone'
  BY <1>10 DEF RefundOrder, SameAmount, Accepts, Repeats, Refuses, RollBack
<1>11. ASSUME NEW w \in Requests, CommitRefund(w) PROVE RefundedNeedsDone'
  BY <1>11 DEF CommitRefund
<1>12. ASSUME NEW w \in PollJobs, StartJob(w) PROVE RefundedNeedsDone'
  BY <1>12 DEF StartJob
<1>13. ASSUME NEW w \in PollJobs, GetOrderRefundByOrderID(w) PROVE RefundedNeedsDone'
  BY <1>13 DEF GetOrderRefundByOrderID, Youngest
<1>14. ASSUME NEW w \in PollJobs, QueryRefund(w) PROVE RefundedNeedsDone'
  BY <1>14 DEF QueryRefund
<1>15. ASSUME NEW w \in PollJobs, ListRefunds(w) PROVE RefundedNeedsDone'
  BY <1>15 DEF ListRefunds, RequestSet
<1>16. ASSUME NEW w \in PollJobs, MarkRefund(w) PROVE RefundedNeedsDone'
  BY <1>16 DEF MarkRefund
<1>17. ASSUME NEW w \in PollJobs, SumRefunds(w) PROVE RefundedNeedsDone'
  BY <1>17 DEF SumRefunds
<1>18. ASSUME NEW w \in PollJobs, UpdateOrder(w) PROVE RefundedNeedsDone'
  BY <1>18 DEF UpdateOrder
<1>19. ASSUME NEW w \in PollJobs, DeleteUserCourse(w) PROVE RefundedNeedsDone'
  BY <1>19 DEF DeleteUserCourse
<1>20. ASSUME NEW w \in PollJobs, CommitResult(w) PROVE RefundedNeedsDone'
  BY <1>20 DEF CommitResult, RecordResult
<1>21. CASE LockExpires
  BY <1>21 DEF LockExpires
<1>22. CASE AlipaySettles
  BY <1>22 DEF AlipaySettles
<1> QED
  BY <1>1, <1>2, <1>3, <1>4, <1>5, <1>6, <1>7, <1>8, <1>9, <1>10, <1>11,
     <1>12, <1>13, <1>14, <1>15, <1>16, <1>17, <1>18, <1>19, <1>20, <1>21,
     <1>22, NextCases

LEMMA RecordedStep ==
  TypeOK /\ RowOfRequest /\ UnrecordedNeedsFault /\ [Next]_vars => UnrecordedNeedsFault'
<1> SUFFICES ASSUME TypeOK, RowOfRequest, UnrecordedNeedsFault, [Next]_vars
             PROVE  UnrecordedNeedsFault'
  OBVIOUS
<1> USE RefundAssumption
    DEF UnrecordedNeedsFault,
        RowOfRequest, TypeOK, RefundStatus, Committed, Rows,
        DoneRows, RequestSet, Outside, Creating, OfOrder, OfRow, Polling,
        Critical, Workers, NoFault, Fault, At, Goes, GoTo, rowVars,
        orderVars, mysqlVars, redisVars, alipayVars, localVars
<1>1. CASE UNCHANGED vars
  BY <1>1 DEF vars
<1>2. ASSUME NEW w \in Workers, GetOrderLock(w) PROVE UnrecordedNeedsFault'
  BY <1>2 DEF GetOrderLock, Return, Forget
<1>3. ASSUME NEW w \in Workers, UnLockOrder(w) PROVE UnrecordedNeedsFault'
  BY <1>3 DEF UnLockOrder, Return, Forget
<1>4. ASSUME NEW w \in Workers, DelOrderRefundResult(w) PROVE UnrecordedNeedsFault'
  BY <1>4 DEF DelOrderRefundResult
<1>5. ASSUME NEW w \in Workers, Crash(w) PROVE UnrecordedNeedsFault'
  BY <1>5 DEF Crash, RollBack, Return, Forget
<1>6. ASSUME NEW w \in Requests, RequestRefund(w) PROVE UnrecordedNeedsFault'
  BY <1>6 DEF RequestRefund
<1>7. ASSUME NEW w \in Requests, Validate(w) PROVE UnrecordedNeedsFault'
  BY <1>7 DEF Validate
<1>8. ASSUME NEW w \in Requests, SetOrderRefundResult(w) PROVE UnrecordedNeedsFault'
  BY <1>8 DEF SetOrderRefundResult
<1>9. ASSUME NEW w \in Requests, InsertRefund(w) PROVE UnrecordedNeedsFault'
  BY <1>9 DEF InsertRefund
<1>10. ASSUME NEW w \in Requests, RefundOrder(w) PROVE UnrecordedNeedsFault'
  BY <1>10 DEF RefundOrder, SameAmount, Accepts, Repeats, Refuses, RollBack
<1>11. ASSUME NEW w \in Requests, CommitRefund(w) PROVE UnrecordedNeedsFault'
  BY <1>11 DEF CommitRefund
<1>12. ASSUME NEW w \in PollJobs, StartJob(w) PROVE UnrecordedNeedsFault'
  BY <1>12 DEF StartJob
<1>13. ASSUME NEW w \in PollJobs, GetOrderRefundByOrderID(w) PROVE UnrecordedNeedsFault'
  BY <1>13 DEF GetOrderRefundByOrderID, Youngest
<1>14. ASSUME NEW w \in PollJobs, QueryRefund(w) PROVE UnrecordedNeedsFault'
  BY <1>14 DEF QueryRefund
<1>15. ASSUME NEW w \in PollJobs, ListRefunds(w) PROVE UnrecordedNeedsFault'
  BY <1>15 DEF ListRefunds, RequestSet
<1>16. ASSUME NEW w \in PollJobs, MarkRefund(w) PROVE UnrecordedNeedsFault'
  BY <1>16 DEF MarkRefund
<1>17. ASSUME NEW w \in PollJobs, SumRefunds(w) PROVE UnrecordedNeedsFault'
  BY <1>17 DEF SumRefunds
<1>18. ASSUME NEW w \in PollJobs, UpdateOrder(w) PROVE UnrecordedNeedsFault'
  BY <1>18 DEF UpdateOrder
<1>19. ASSUME NEW w \in PollJobs, DeleteUserCourse(w) PROVE UnrecordedNeedsFault'
  BY <1>19 DEF DeleteUserCourse
<1>20. ASSUME NEW w \in PollJobs, CommitResult(w) PROVE UnrecordedNeedsFault'
  BY <1>20 DEF CommitResult, RecordResult
<1>21. CASE LockExpires
  BY <1>21 DEF LockExpires
<1>22. CASE AlipaySettles
  BY <1>22 DEF AlipaySettles
<1> QED
  BY <1>1, <1>2, <1>3, <1>4, <1>5, <1>6, <1>7, <1>8, <1>9, <1>10, <1>11,
     <1>12, <1>13, <1>14, <1>15, <1>16, <1>17, <1>18, <1>19, <1>20, <1>21,
     <1>22, NextCases

(* A refund that shows as done rests on a payment of its amount, and its   *)
(* courses are gone, even when the lock is outlived and calls fail.        *)
THEOREM NoDoneWithoutPayment == Spec => []DoneRestsOnPayment
<1>1. Init => DoneRestsOnPayment /\ RowsAreAgreed
  BY RefundAssumption
     DEF Init, DoneRestsOnPayment, DoneRows, RowsAreAgreed, Committed, Workers
<1> QED
  BY <1>1, AgreedStep, DoneStep, RowsInvariant, TypeCorrect, PTL DEF Spec

(* Courses go only with a recorded refund whose result Alipay has reported.*)
THEOREM NoCourseLostUnasked == Spec => []RevokedNeedsAnswer
<1>1. Init => RevokedNeedsAnswer
  BY RefundAssumption DEF Init, RevokedNeedsAnswer
<1> QED
  BY <1>1, RevokedStep, RowsInvariant, TypeCorrect, PTL DEF Spec

(* An order in status refunded has a refund that is done.                  *)
THEOREM RefundedOrderHasDone == Spec => []RefundedNeedsDone
<1>1. Init => RefundedNeedsDone
  BY RefundAssumption DEF Init, RefundedNeedsDone
<1> QED
  BY <1>1, RefundedStep, RowsInvariant, TypeCorrect, PTL DEF Spec

(* Without a fault, money Alipay pays back has a row or is about to.       *)
THEOREM MoneyIsRecorded == Spec => []UnrecordedNeedsFault
<1>1. Init => UnrecordedNeedsFault
  BY RefundAssumption DEF Init, UnrecordedNeedsFault
<1> QED
  BY <1>1, RecordedStep, RowsInvariant, TypeCorrect, PTL DEF Spec

-----------------------------------------------------------------------------
(* What the lock gives when no call outlasts it: a worker between its two  *)
(* ends is its value; so the sum a poll has read is still that of the      *)
(* refunds that are done, and its own, when it commits.                    *)
Holder == \A w \in Workers : pc[w] \in Critical => lock = w

SumIsFresh ==
  \A w \in PollJobs :
    answer = "Done" /\ pc[w] \in {"Order"} \cup OfOrder
      => sum[w] = AmountOf(DoneRows \cup {cur[w]})

(* A lone request has put the order into the hash, and nobody is about to  *)
(* take it out while its refund is in progress.                            *)
Lone(r) == faults = 0 /\ \A q \in Requests \ {r} : pc[q] = "Idle"

LoneIsPolled ==
  \A r \in Requests : Lone(r) =>
    /\ pc[r] \in {"Insert", "Refund", "Commit"} \/ refund[r] = "Processing"
         => Order \in polled
    /\ \A w \in Workers : pc[w] = "Dequeue" => refund[r] # "Processing"

LEMMA HolderStep ==
  ASSUME SlowCalls = FALSE
  PROVE  TypeOK /\ Holder /\ [Next]_vars => Holder'
<1> SUFFICES ASSUME TypeOK, Holder, [Next]_vars
             PROVE  Holder'
  OBVIOUS
<1> USE RefundAssumption
    DEF Holder, TypeOK, RefundStatus, Committed, Rows,
        DoneRows, RequestSet, Outside, Creating, OfOrder, OfRow, Polling,
        Critical, Workers, NoFault, Fault, At, Goes, GoTo, rowVars,
        orderVars, mysqlVars, redisVars, alipayVars, localVars
<1>1. CASE UNCHANGED vars
  BY <1>1 DEF vars
<1>2. ASSUME NEW w \in Workers, GetOrderLock(w) PROVE Holder'
  BY <1>2 DEF GetOrderLock, Return, Forget
<1>3. ASSUME NEW w \in Workers, UnLockOrder(w) PROVE Holder'
  BY <1>3 DEF UnLockOrder, Return, Forget
<1>4. ASSUME NEW w \in Workers, DelOrderRefundResult(w) PROVE Holder'
  BY <1>4 DEF DelOrderRefundResult
<1>5. ASSUME NEW w \in Workers, Crash(w) PROVE Holder'
  BY <1>5 DEF Crash, RollBack, Return, Forget
<1>6. ASSUME NEW w \in Requests, RequestRefund(w) PROVE Holder'
  BY <1>6 DEF RequestRefund
<1>7. ASSUME NEW w \in Requests, Validate(w) PROVE Holder'
  BY <1>7 DEF Validate
<1>8. ASSUME NEW w \in Requests, SetOrderRefundResult(w) PROVE Holder'
  BY <1>8 DEF SetOrderRefundResult
<1>9. ASSUME NEW w \in Requests, InsertRefund(w) PROVE Holder'
  BY <1>9 DEF InsertRefund
<1>10. ASSUME NEW w \in Requests, RefundOrder(w) PROVE Holder'
  BY <1>10 DEF RefundOrder, SameAmount, Accepts, Repeats, Refuses, RollBack
<1>11. ASSUME NEW w \in Requests, CommitRefund(w) PROVE Holder'
  BY <1>11 DEF CommitRefund
<1>12. ASSUME NEW w \in PollJobs, StartJob(w) PROVE Holder'
  BY <1>12 DEF StartJob
<1>13. ASSUME NEW w \in PollJobs, GetOrderRefundByOrderID(w) PROVE Holder'
  BY <1>13 DEF GetOrderRefundByOrderID, Youngest
<1>14. ASSUME NEW w \in PollJobs, QueryRefund(w) PROVE Holder'
  BY <1>14 DEF QueryRefund
<1>15. ASSUME NEW w \in PollJobs, ListRefunds(w) PROVE Holder'
  BY <1>15 DEF ListRefunds, RequestSet
<1>16. ASSUME NEW w \in PollJobs, MarkRefund(w) PROVE Holder'
  BY <1>16 DEF MarkRefund
<1>17. ASSUME NEW w \in PollJobs, SumRefunds(w) PROVE Holder'
  BY <1>17 DEF SumRefunds
<1>18. ASSUME NEW w \in PollJobs, UpdateOrder(w) PROVE Holder'
  BY <1>18 DEF UpdateOrder
<1>19. ASSUME NEW w \in PollJobs, DeleteUserCourse(w) PROVE Holder'
  BY <1>19 DEF DeleteUserCourse
<1>20. ASSUME NEW w \in PollJobs, CommitResult(w) PROVE Holder'
  BY <1>20 DEF CommitResult, RecordResult
<1>21. CASE LockExpires
  BY <1>21 DEF LockExpires
<1>22. CASE AlipaySettles
  BY <1>22 DEF AlipaySettles
<1> QED
  BY <1>1, <1>2, <1>3, <1>4, <1>5, <1>6, <1>7, <1>8, <1>9, <1>10, <1>11,
     <1>12, <1>13, <1>14, <1>15, <1>16, <1>17, <1>18, <1>19, <1>20, <1>21,
     <1>22, NextCases

LEMMA SumStep ==
  TypeOK /\ RowOfRequest /\ RowOfPoll /\ ResultIsAnswer /\ Holder /\
    SumIsFresh /\ [Next]_vars => SumIsFresh'
<1> SUFFICES ASSUME TypeOK, RowOfRequest, RowOfPoll, ResultIsAnswer, Holder,
                    SumIsFresh, [Next]_vars
             PROVE  SumIsFresh'
  OBVIOUS
<1> USE RefundAssumption
    DEF SumIsFresh, Holder, RowOfRequest,
        RowOfPoll, ResultIsAnswer, TypeOK, RefundStatus, Committed, Rows,
        RequestSet, Outside, Creating, OfOrder, OfRow, Polling,
        Critical, Workers, NoFault, Fault, At, Goes, GoTo, rowVars,
        orderVars, mysqlVars, redisVars, alipayVars, localVars
<1>1. CASE UNCHANGED vars
  BY <1>1 DEF vars, DoneRows
<1>2. ASSUME NEW w \in Workers, GetOrderLock(w) PROVE SumIsFresh'
  BY <1>2 DEF GetOrderLock, Return, Forget, DoneRows
<1>3. ASSUME NEW w \in Workers, UnLockOrder(w) PROVE SumIsFresh'
  BY <1>3 DEF UnLockOrder, Return, Forget, DoneRows
<1>4. ASSUME NEW w \in Workers, DelOrderRefundResult(w) PROVE SumIsFresh'
  BY <1>4 DEF DelOrderRefundResult, DoneRows
<1>5. ASSUME NEW w \in Workers, Crash(w) PROVE SumIsFresh'
  <2>1. DoneRows' = DoneRows
    BY <1>5 DEF DoneRows, Crash, RollBack, Return, Forget
  <2> QED
    BY <1>5, <2>1 DEF Crash, RollBack, Return, Forget
<1>6. ASSUME NEW w \in Requests, RequestRefund(w) PROVE SumIsFresh'
  BY <1>6 DEF RequestRefund, DoneRows
<1>7. ASSUME NEW w \in Requests, Validate(w) PROVE SumIsFresh'
  BY <1>7 DEF Validate, DoneRows
<1>8. ASSUME NEW w \in Requests, SetOrderRefundResult(w) PROVE SumIsFresh'
  BY <1>8 DEF SetOrderRefundResult, DoneRows
<1>9. ASSUME NEW w \in Requests, InsertRefund(w) PROVE SumIsFresh'
  <2>1. DoneRows' = DoneRows
    BY <1>9 DEF DoneRows, InsertRefund
  <2> QED
    BY <1>9, <2>1 DEF InsertRefund
<1>10. ASSUME NEW w \in Requests, RefundOrder(w) PROVE SumIsFresh'
  <2>1. DoneRows' = DoneRows
    BY <1>10 DEF DoneRows, RefundOrder, SameAmount, Accepts, Repeats, Refuses, RollBack
  <2> QED
    BY <1>10, <2>1 DEF RefundOrder, SameAmount, Accepts, Repeats, Refuses, RollBack
<1>11. ASSUME NEW w \in Requests, CommitRefund(w) PROVE SumIsFresh'
  <2>1. DoneRows' = DoneRows
    BY <1>11 DEF DoneRows, CommitRefund
  <2> QED
    BY <1>11, <2>1 DEF CommitRefund
<1>12. ASSUME NEW w \in PollJobs, StartJob(w) PROVE SumIsFresh'
  BY <1>12 DEF StartJob, DoneRows
<1>13. ASSUME NEW w \in PollJobs, GetOrderRefundByOrderID(w) PROVE SumIsFresh'
  BY <1>13 DEF GetOrderRefundByOrderID, Youngest, DoneRows
<1>14. ASSUME NEW w \in PollJobs, QueryRefund(w) PROVE SumIsFresh'
  BY <1>14 DEF QueryRefund, DoneRows
<1>15. ASSUME NEW w \in PollJobs, ListRefunds(w) PROVE SumIsFresh'
  BY <1>15 DEF ListRefunds, RequestSet, DoneRows
<1>16. ASSUME NEW w \in PollJobs, MarkRefund(w) PROVE SumIsFresh'
  BY <1>16 DEF MarkRefund, DoneRows
<1>17. ASSUME NEW w \in PollJobs, SumRefunds(w) PROVE SumIsFresh'
  <2>1. DoneRows' = DoneRows
    BY <1>17 DEF DoneRows, SumRefunds
  <2>2. /\ pc \in [Workers -> Outside \cup Critical] /\ DOMAIN sum = PollJobs
        /\ answer' = answer /\ cur' = cur /\ lock = w
    BY <1>17 DEF SumRefunds
  <2>3. \A v \in PollJobs \ {w} : pc'[v] \notin {"Order"} \cup OfOrder
    BY <1>17 DEF SumRefunds
  <2>4. pc'[w] \in {"Order"} \cup OfOrder => sum'[w] = AmountOf(DoneRows \cup {cur[w]})
    <3>1. CASE NoFault /\ sum' = [sum EXCEPT ![w] = AmountOf(DoneRows \cup {cur[w]})]
      BY <3>1, <2>2
    <3>2. CASE Fault /\ pc' = [pc EXCEPT ![w] = "UnLock"]
      BY <3>2
    <3> QED
      BY <1>17, <3>1, <3>2 DEF SumRefunds
  <2> QED
    BY <2>1, <2>2, <2>3, <2>4
<1>18. ASSUME NEW w \in PollJobs, UpdateOrder(w) PROVE SumIsFresh'
  BY <1>18 DEF UpdateOrder, DoneRows
<1>19. ASSUME NEW w \in PollJobs, DeleteUserCourse(w) PROVE SumIsFresh'
  BY <1>19 DEF DeleteUserCourse, DoneRows
<1>20. ASSUME NEW w \in PollJobs, CommitResult(w) PROVE SumIsFresh'
  BY <1>20 DEF CommitResult, RecordResult, DoneRows
<1>21. CASE LockExpires
  BY <1>21 DEF LockExpires, DoneRows
<1>22. CASE AlipaySettles
  BY <1>22 DEF AlipaySettles, DoneRows
<1> QED
  BY <1>1, <1>2, <1>3, <1>4, <1>5, <1>6, <1>7, <1>8, <1>9, <1>10, <1>11,
     <1>12, <1>13, <1>14, <1>15, <1>16, <1>17, <1>18, <1>19, <1>20, <1>21,
     <1>22, NextCases

LEMMA AmountStep ==
  TypeOK /\ RowOfRequest /\ RowOfPoll /\ ResultIsAnswer /\
    SumIsFresh /\ RefundAmountIsDone /\ [Next]_vars => RefundAmountIsDone'
<1> SUFFICES ASSUME TypeOK, RowOfRequest, RowOfPoll, ResultIsAnswer, SumIsFresh,
                    RefundAmountIsDone, [Next]_vars
             PROVE  RefundAmountIsDone'
  OBVIOUS
<1> USE RefundAssumption
    DEF RefundAmountIsDone, SumIsFresh, RowOfRequest,
        RowOfPoll, ResultIsAnswer, TypeOK, RefundStatus, Committed, Rows,
        RequestSet, Outside, Creating, OfOrder, OfRow, Polling,
        Critical, Workers, NoFault, Fault, At, Goes, GoTo, rowVars,
        orderVars, mysqlVars, redisVars, alipayVars, localVars
<1>1. CASE UNCHANGED vars
  BY <1>1 DEF vars, DoneRows
<1>2. ASSUME NEW w \in Workers, GetOrderLock(w) PROVE RefundAmountIsDone'
  BY <1>2 DEF GetOrderLock, Return, Forget, DoneRows
<1>3. ASSUME NEW w \in Workers, UnLockOrder(w) PROVE RefundAmountIsDone'
  BY <1>3 DEF UnLockOrder, Return, Forget, DoneRows
<1>4. ASSUME NEW w \in Workers, DelOrderRefundResult(w) PROVE RefundAmountIsDone'
  BY <1>4 DEF DelOrderRefundResult, DoneRows
<1>5. ASSUME NEW w \in Workers, Crash(w) PROVE RefundAmountIsDone'
  <2>1. DoneRows' = DoneRows
    BY <1>5 DEF DoneRows, Crash, RollBack, Return, Forget
  <2> QED
    BY <1>5, <2>1 DEF Crash, RollBack, Return, Forget
<1>6. ASSUME NEW w \in Requests, RequestRefund(w) PROVE RefundAmountIsDone'
  BY <1>6 DEF RequestRefund, DoneRows
<1>7. ASSUME NEW w \in Requests, Validate(w) PROVE RefundAmountIsDone'
  BY <1>7 DEF Validate, DoneRows
<1>8. ASSUME NEW w \in Requests, SetOrderRefundResult(w) PROVE RefundAmountIsDone'
  BY <1>8 DEF SetOrderRefundResult, DoneRows
<1>9. ASSUME NEW w \in Requests, InsertRefund(w) PROVE RefundAmountIsDone'
  <2>1. DoneRows' = DoneRows
    BY <1>9 DEF DoneRows, InsertRefund
  <2> QED
    BY <1>9, <2>1 DEF InsertRefund
<1>10. ASSUME NEW w \in Requests, RefundOrder(w) PROVE RefundAmountIsDone'
  <2>1. DoneRows' = DoneRows
    BY <1>10 DEF DoneRows, RefundOrder, SameAmount, Accepts, Repeats, Refuses, RollBack
  <2> QED
    BY <1>10, <2>1 DEF RefundOrder, SameAmount, Accepts, Repeats, Refuses, RollBack
<1>11. ASSUME NEW w \in Requests, CommitRefund(w) PROVE RefundAmountIsDone'
  <2>1. DoneRows' = DoneRows
    BY <1>11 DEF DoneRows, CommitRefund
  <2> QED
    BY <1>11, <2>1 DEF CommitRefund
<1>12. ASSUME NEW w \in PollJobs, StartJob(w) PROVE RefundAmountIsDone'
  BY <1>12 DEF StartJob, DoneRows
<1>13. ASSUME NEW w \in PollJobs, GetOrderRefundByOrderID(w) PROVE RefundAmountIsDone'
  BY <1>13 DEF GetOrderRefundByOrderID, Youngest, DoneRows
<1>14. ASSUME NEW w \in PollJobs, QueryRefund(w) PROVE RefundAmountIsDone'
  BY <1>14 DEF QueryRefund, DoneRows
<1>15. ASSUME NEW w \in PollJobs, ListRefunds(w) PROVE RefundAmountIsDone'
  BY <1>15 DEF ListRefunds, RequestSet, DoneRows
<1>16. ASSUME NEW w \in PollJobs, MarkRefund(w) PROVE RefundAmountIsDone'
  BY <1>16 DEF MarkRefund, DoneRows
<1>17. ASSUME NEW w \in PollJobs, SumRefunds(w) PROVE RefundAmountIsDone'
  BY <1>17 DEF SumRefunds, DoneRows
<1>18. ASSUME NEW w \in PollJobs, UpdateOrder(w) PROVE RefundAmountIsDone'
  BY <1>18 DEF UpdateOrder, DoneRows
<1>19. ASSUME NEW w \in PollJobs, DeleteUserCourse(w) PROVE RefundAmountIsDone'
  BY <1>19 DEF DeleteUserCourse, DoneRows
<1>20. ASSUME NEW w \in PollJobs, CommitResult(w) PROVE RefundAmountIsDone'
  <2>1. CASE UNCHANGED mysqlVars
    BY <2>1 DEF DoneRows
  <2>2. CASE RecordResult(w) /\ answer = "Done"
    <3>1. DoneRows' = DoneRows \cup {cur[w]}
      BY <1>20, <2>2 DEF DoneRows, CommitResult, RecordResult
    <3>2. refundAmount' = AmountOf(DoneRows \cup {cur[w]})
      BY <1>20, <2>2 DEF CommitResult, RecordResult
    <3> QED
      BY <3>1, <3>2
  <2>3. CASE RecordResult(w) /\ answer # "Done"
    <3>1. DoneRows' = DoneRows
      BY <1>20, <2>3 DEF DoneRows, CommitResult, RecordResult
    <3> QED
      BY <2>3, <3>1 DEF RecordResult
  <2> QED
    BY <1>20, <2>1, <2>2, <2>3 DEF CommitResult
<1>21. CASE LockExpires
  BY <1>21 DEF LockExpires, DoneRows
<1>22. CASE AlipaySettles
  BY <1>22 DEF AlipaySettles, DoneRows
<1> QED
  BY <1>1, <1>2, <1>3, <1>4, <1>5, <1>6, <1>7, <1>8, <1>9, <1>10, <1>11,
     <1>12, <1>13, <1>14, <1>15, <1>16, <1>17, <1>18, <1>19, <1>20, <1>21,
     <1>22, NextCases

LEMMA LoneStep ==
  TypeOK /\ RowOfRequest /\ RowOfPoll /\ ResultIsAnswer /\ Holder /\
    LoneIsPolled /\ [Next]_vars => LoneIsPolled'
<1> SUFFICES ASSUME TypeOK, RowOfRequest, RowOfPoll, ResultIsAnswer, Holder,
                    LoneIsPolled, [Next]_vars
             PROVE  LoneIsPolled'
  OBVIOUS
<1> USE RefundAssumption
    DEF LoneIsPolled, Lone, Holder, RowOfRequest,
        RowOfPoll, ResultIsAnswer, TypeOK, RefundStatus, Committed, Rows,
        DoneRows, RequestSet, Outside, Creating, OfOrder, OfRow, Polling,
        Critical, Workers, NoFault, Fault, At, Goes, GoTo, rowVars,
        orderVars, mysqlVars, redisVars, alipayVars, localVars
<1>1. CASE UNCHANGED vars
  BY <1>1 DEF vars
<1>2. ASSUME NEW w \in Workers, GetOrderLock(w) PROVE LoneIsPolled'
  BY <1>2 DEF GetOrderLock, Return, Forget
<1>3. ASSUME NEW w \in Workers, UnLockOrder(w) PROVE LoneIsPolled'
  BY <1>3 DEF UnLockOrder, Return, Forget
<1>4. ASSUME NEW w \in Workers, DelOrderRefundResult(w) PROVE LoneIsPolled'
  BY <1>4 DEF DelOrderRefundResult
<1>5. ASSUME NEW w \in Workers, Crash(w) PROVE LoneIsPolled'
  BY <1>5 DEF Crash, RollBack, Return, Forget
<1>6. ASSUME NEW w \in Requests, RequestRefund(w) PROVE LoneIsPolled'
  BY <1>6 DEF RequestRefund
<1>7. ASSUME NEW w \in Requests, Validate(w) PROVE LoneIsPolled'
  BY <1>7 DEF Validate
<1>8. ASSUME NEW w \in Requests, SetOrderRefundResult(w) PROVE LoneIsPolled'
  BY <1>8 DEF SetOrderRefundResult
<1>9. ASSUME NEW w \in Requests, InsertRefund(w) PROVE LoneIsPolled'
  BY <1>9 DEF InsertRefund
<1>10. ASSUME NEW w \in Requests, RefundOrder(w) PROVE LoneIsPolled'
  BY <1>10 DEF RefundOrder, SameAmount, Accepts, Repeats, Refuses, RollBack
<1>11. ASSUME NEW w \in Requests, CommitRefund(w) PROVE LoneIsPolled'
  BY <1>11 DEF CommitRefund
<1>12. ASSUME NEW w \in PollJobs, StartJob(w) PROVE LoneIsPolled'
  BY <1>12 DEF StartJob
<1>13. ASSUME NEW w \in PollJobs, GetOrderRefundByOrderID(w) PROVE LoneIsPolled'
  BY <1>13 DEF GetOrderRefundByOrderID, Youngest
<1>14. ASSUME NEW w \in PollJobs, QueryRefund(w) PROVE LoneIsPolled'
  BY <1>14 DEF QueryRefund
<1>15. ASSUME NEW w \in PollJobs, ListRefunds(w) PROVE LoneIsPolled'
  BY <1>15 DEF ListRefunds, RequestSet
<1>16. ASSUME NEW w \in PollJobs, MarkRefund(w) PROVE LoneIsPolled'
  BY <1>16 DEF MarkRefund
<1>17. ASSUME NEW w \in PollJobs, SumRefunds(w) PROVE LoneIsPolled'
  BY <1>17 DEF SumRefunds
<1>18. ASSUME NEW w \in PollJobs, UpdateOrder(w) PROVE LoneIsPolled'
  BY <1>18 DEF UpdateOrder
<1>19. ASSUME NEW w \in PollJobs, DeleteUserCourse(w) PROVE LoneIsPolled'
  BY <1>19 DEF DeleteUserCourse
<1>20. ASSUME NEW w \in PollJobs, CommitResult(w) PROVE LoneIsPolled'
  BY <1>20 DEF CommitResult, RecordResult
<1>21. CASE LockExpires
  BY <1>21 DEF LockExpires
<1>22. CASE AlipaySettles
  BY <1>22 DEF AlipaySettles
<1> QED
  BY <1>1, <1>2, <1>3, <1>4, <1>5, <1>6, <1>7, <1>8, <1>9, <1>10, <1>11,
     <1>12, <1>13, <1>14, <1>15, <1>16, <1>17, <1>18, <1>19, <1>20, <1>21,
     <1>22, NextCases

(* The amount on the order is the sum of its refunds that are done,        *)
(* whatever fails, as long as no call outlives the lock.                   *)
THEOREM AmountIsExact ==
  ASSUME SlowCalls = FALSE
  PROVE  Spec => []RefundAmountIsDone
<1>1. Init => Holder /\ SumIsFresh /\ RefundAmountIsDone
  BY RefundAssumption
     DEF Init, Holder, Critical, Creating, Polling, OfRow, OfOrder, Workers,
         SumIsFresh, RefundAmountIsDone, DoneRows
<1> QED
  BY <1>1, HolderStep, SumStep, AmountStep, RowsInvariant, TypeCorrect, PTL
     DEF Spec

(* Without faults and slow calls, the poll does not lose the only refund   *)
(* of an order.                                                            *)
THEOREM LoneRefundIsPolled ==
  ASSUME SlowCalls = FALSE
  PROVE  Spec => []LoneRefundIsQueued
<1>1. Init => Holder /\ LoneIsPolled
  BY RefundAssumption
     DEF Init, Holder, Critical, Creating, Polling, OfRow, OfOrder, Workers,
         LoneIsPolled
<1>2. LoneIsPolled => LoneRefundIsQueued
  BY DEF LoneIsPolled, Lone, LoneRefundIsQueued
<1> QED
  BY <1>1, <1>2, HolderStep, LoneStep, RowsInvariant, TypeCorrect, PTL
     DEF Spec

-----------------------------------------------------------------------------
(* The amounts of a set of refunds are added up by a fold.  That adding one *)
(* more refund adds its amount, whichever the fold takes first, needs       *)
(* inductions over sets, made here by taking the least counterexample.      *)

(* The refund that the fold takes next out of S, and the total of S when g *)
(* has the totals of smaller sets.                                         *)
Taken(S) == CHOOSE r \in S : TRUE
Adds(g, S) == IF S = {} THEN 0 ELSE Taken(S).amount + g[S \ {Taken(S)}]
Totals(S) == CHOOSE g : g = [T \in SUBSET S |-> Adds(g, T)]

LEMMA FoldIsTotal ==
  ASSUME NEW S
  PROVE  AmountOf(S) = Totals(S)[S]
BY DEF AmountOf, MapThenSumSet, MapThenFoldSet, Adds, Taken, Totals

LEMMA LeastNat ==
  ASSUME NEW B \in SUBSET Nat, B # {}
  PROVE  \E n \in B : \A m \in B : ~ (m < n)
<1>1. IsWellFoundedOn(OpToRel(<, Nat), Nat)
  BY NatLessThanWellFounded
<1>2. \E x \in B : \A y \in B : ~ (<<y, x>> \in OpToRel(<, Nat))
  BY <1>1, WFMin
<1> QED
  BY <1>2 DEF OpToRel

(* Of the wrong ones among finite sets, one has the fewest elements.       *)
LEMMA LeastSet ==
  ASSUME NEW D, IsFiniteSet(D), NEW W \in SUBSET SUBSET D, W # {}
  PROVE  \E S \in W : \A T \in W : ~ (Cardinality(T) < Cardinality(S))
<1> DEFINE B == {Cardinality(S) : S \in W}
<1>1. \A S \in SUBSET D : Cardinality(S) \in Nat
  BY FS_Subset, FS_CardinalityType
<1>2. B \in SUBSET Nat /\ B # {}
  BY <1>1
<1>3. PICK n \in B : \A m \in B : ~ (m < n)
  <2> HIDE DEF B
  <2> QED
    BY <1>2, LeastNat
<1> QED
  BY <1>3

LEMMA TakenIsOne ==
  ASSUME NEW S, IsFiniteSet(S), S # {}
  PROVE  Taken(S) \in S
BY DEF Taken

LEMMA OneLess ==
  ASSUME NEW S, IsFiniteSet(S), NEW r \in S
  PROVE  /\ IsFiniteSet(S \ {r})
         /\ Cardinality(S \ {r}) < Cardinality(S)
<1>1. Cardinality(S) \in Nat
  BY FS_CardinalityType
<1>2. IsFiniteSet(S \ {r}) /\ Cardinality(S \ {r}) = Cardinality(S) - 1
  BY FS_RemoveElement
<1> QED
  BY <1>1, <1>2

(* The functions that add up every set of at most n refunds.               *)
AddsUpTo(S, n) ==
  {g \in [SUBSET S -> Int] :
     \A T \in SUBSET S : Cardinality(T) <= n => g[T] = Adds(g, T)}

LEMMA TotalsExist ==
  ASSUME NEW S \in SUBSET Requests, NEW n \in Nat
  PROVE  AddsUpTo(S, n) # {}
<1> DEFINE B == {k \in Nat : AddsUpTo(S, k) = {}}
<1>0. \A T \in SUBSET S : IsFiniteSet(T) /\ Cardinality(T) \in Nat
  BY RefundAssumption, FS_Subset, FS_CardinalityType
<1>1. SUFFICES ASSUME B # {}
               PROVE  FALSE
  OBVIOUS
<1>2. PICK k \in B : \A m \in B : ~ (m < k)
  <2>1. B \in SUBSET Nat
    OBVIOUS
  <2> HIDE DEF B
  <2> QED
    BY <1>1, <2>1, LeastNat
<1>3. CASE k = 0
  <2>1. \A T \in SUBSET S : Cardinality(T) <= 0 => T = {}
    BY <1>0, FS_EmptySet
  <2>2. [T \in SUBSET S |-> 0] \in AddsUpTo(S, 0)
    BY <2>1 DEF AddsUpTo, Adds
  <2> QED
    BY <1>2, <1>3, <2>2
<1>4. CASE k # 0
  <2>1. k - 1 \in Nat /\ k - 1 < k
    BY <1>2, <1>4
  <2>2. AddsUpTo(S, k - 1) # {}
    BY <1>2, <2>1
  <2>3. PICK g \in [SUBSET S -> Int] :
          \A T \in SUBSET S : Cardinality(T) <= k - 1 => g[T] = Adds(g, T)
    BY <2>2 DEF AddsUpTo
  <2> DEFINE h == [T \in SUBSET S |-> Adds(g, T)]
  <2>4. \A T \in SUBSET S : Adds(g, T) \in Int
    <3> SUFFICES ASSUME NEW T \in SUBSET S, T # {}
                 PROVE  Adds(g, T) \in Int
      BY DEF Adds
    <3>1. Taken(T) \in S /\ T \ {Taken(T)} \in SUBSET S
      BY <1>0, TakenIsOne
    <3>2. Taken(T).amount \in Int
      BY <3>1, RefundAssumption DEF RequestSet
    <3> QED
      BY <3>1, <3>2, <2>3 DEF Adds
  <2>5. ASSUME NEW T \in SUBSET S, Cardinality(T) <= k
        PROVE  h[T] = Adds(h, T)
    <3>1. CASE T = {}
      BY <3>1 DEF Adds
    <3>2. CASE T # {}
      <4>1. /\ T \ {Taken(T)} \in SUBSET S
            /\ Cardinality(T \ {Taken(T)}) <= k - 1
        BY <1>0, <1>2, <2>5, <3>2, TakenIsOne, OneLess
      <4>2. h[T \ {Taken(T)}] = g[T \ {Taken(T)}]
        BY <4>1, <2>3
      <4> QED
        BY <3>2, <4>2 DEF Adds
    <3> QED
      BY <3>1, <3>2
  <2>6. h \in AddsUpTo(S, k)
    BY <2>4, <2>5 DEF AddsUpTo
  <2> QED
    BY <1>2, <2>6
<1> QED
  BY <1>3, <1>4

LEMMA TotalsAdd ==
  ASSUME NEW S \in SUBSET Requests
  PROVE  \A T \in SUBSET S : Totals(S)[T] = Adds(Totals(S), T)
<1>1. /\ Cardinality(S) \in Nat
      /\ \A T \in SUBSET S : Cardinality(T) <= Cardinality(S)
  BY RefundAssumption, FS_Subset, FS_CardinalityType
<1>2. PICK g : g \in AddsUpTo(S, Cardinality(S))
  BY <1>1, TotalsExist
<1>3. g = [T \in SUBSET S |-> Adds(g, T)]
  BY <1>1, <1>2 DEF AddsUpTo
<1>4. Totals(S) = [T \in SUBSET S |-> Adds(Totals(S), T)]
  BY <1>3 DEF Totals
<1> QED
  BY <1>4

(* The total of a set does not depend on what it is a part of.             *)
LEMMA TotalsAgree ==
  ASSUME NEW S \in SUBSET Requests, NEW T \in SUBSET S
  PROVE  Totals(S)[T] = AmountOf(T)
<1> DEFINE W == {U \in SUBSET T : Totals(S)[U] # Totals(T)[U]}
<1>0. IsFiniteSet(T) /\ T \in SUBSET Requests
  BY RefundAssumption, FS_Subset
<1>1. W = {}
  <2> SUFFICES ASSUME W # {}
               PROVE  FALSE
    OBVIOUS
  <2>1. PICK U \in W : \A V \in W : ~ (Cardinality(V) < Cardinality(U))
    <3>1. W \in SUBSET SUBSET T
      OBVIOUS
    <3> HIDE DEF W
    <3> QED
      BY <1>0, <3>1, LeastSet
  <2>2. U \in SUBSET T /\ U \in SUBSET S /\ IsFiniteSet(U)
    BY <1>0, FS_Subset
  <2>3. Totals(S)[U] = Adds(Totals(S), U) /\ Totals(T)[U] = Adds(Totals(T), U)
    BY <1>0, <2>2, TotalsAdd
  <2>4. U # {}
    BY <2>3 DEF Adds
  <2>5. /\ U \ {Taken(U)} \in SUBSET T
        /\ Cardinality(U \ {Taken(U)}) < Cardinality(U)
    BY <2>2, <2>4, TakenIsOne, OneLess
  <2>6. Totals(S)[U \ {Taken(U)}] = Totals(T)[U \ {Taken(U)}]
    BY <2>1, <2>5
  <2> QED
    BY <2>3, <2>4, <2>6 DEF Adds
<1> QED
  BY <1>1, FoldIsTotal

LEMMA AmountTaken ==
  ASSUME NEW S \in SUBSET Requests, S # {}
  PROVE  /\ Taken(S) \in S
         /\ AmountOf(S) = Taken(S).amount + AmountOf(S \ {Taken(S)})
<1>1. Taken(S) \in S
  BY RefundAssumption, FS_Subset, TakenIsOne
<1>2. AmountOf(S) = Adds(Totals(S), S)
  BY FoldIsTotal, TotalsAdd
<1>3. Totals(S)[S \ {Taken(S)}] = AmountOf(S \ {Taken(S)})
  BY TotalsAgree
<1> QED
  BY <1>1, <1>2, <1>3 DEF Adds

LEMMA NoAmount == AmountOf({}) = 0
BY FoldIsTotal, TotalsAdd DEF Adds

LEMMA AmountIsInt ==
  ASSUME NEW S \in SUBSET Requests
  PROVE  AmountOf(S) \in Int
<1> DEFINE W == {T \in SUBSET S : AmountOf(T) \notin Int}
<1>0. IsFiniteSet(S)
  BY RefundAssumption, FS_Subset
<1>1. W = {}
  <2> SUFFICES ASSUME W # {}
               PROVE  FALSE
    OBVIOUS
  <2>1. PICK U \in W : \A V \in W : ~ (Cardinality(V) < Cardinality(U))
    <3>1. W \in SUBSET SUBSET S
      OBVIOUS
    <3> HIDE DEF W
    <3> QED
      BY <1>0, <3>1, LeastSet
  <2>2. U \in SUBSET Requests /\ IsFiniteSet(U) /\ U # {}
    <3>1. U \in SUBSET S /\ AmountOf(U) \notin Int
      OBVIOUS
    <3>2. AmountOf({}) \in Int
      BY NoAmount
    <3>3. U # {}
      BY <3>1, <3>2, Zenon
    <3> QED
      BY <1>0, <3>1, <3>3, FS_Subset
  <2>3. /\ Taken(U) \in U
        /\ AmountOf(U) = Taken(U).amount + AmountOf(U \ {Taken(U)})
    BY <2>2, AmountTaken
  <2>4. U \ {Taken(U)} \notin W
    BY <2>1, <2>2, <2>3, OneLess
  <2>5. Taken(U).amount \in Int
    BY <2>2, <2>3, RefundAssumption DEF RequestSet
  <2>6. AmountOf(U \ {Taken(U)}) \in Int
    BY <2>4
  <2>7. AmountOf(U) \in Int
    BY <2>3, <2>5, <2>6
  <2> QED
    BY <2>7
<1> QED
  BY <1>1

(* One more refund adds its amount.                                        *)
LEMMA AmountAdds ==
  ASSUME NEW S \in SUBSET Requests, NEW r \in S
  PROVE  AmountOf(S) = AmountOf(S \ {r}) + r.amount
<1> DEFINE Wrong(T) == \E q \in T : AmountOf(T) # AmountOf(T \ {q}) + q.amount
           W == {T \in SUBSET S : Wrong(T)}
<1>0. IsFiniteSet(S) /\ \A q \in S : q.amount \in Int
  BY RefundAssumption, FS_Subset DEF RequestSet
<1>1. W = {}
  <2> SUFFICES ASSUME W # {}
               PROVE  FALSE
    OBVIOUS
  <2>1. PICK T \in W : \A V \in W : ~ (Cardinality(V) < Cardinality(T))
    <3>1. W \in SUBSET SUBSET S
      OBVIOUS
    <3> HIDE DEF W
    <3> QED
      BY <1>0, <3>1, LeastSet
  <2>2. PICK q \in T : AmountOf(T) # AmountOf(T \ {q}) + q.amount
    OBVIOUS
  <2> DEFINE t == Taken(T)
             N == T \ {t, q}
  <2>3. /\ T \in SUBSET Requests /\ IsFiniteSet(T) /\ t \in T
        /\ AmountOf(T) = t.amount + AmountOf(T \ {t})
    BY <1>0, <2>2, AmountTaken, FS_Subset
  <2>4. /\ AmountOf(T \ {t}) \in Int /\ AmountOf(T \ {q}) \in Int
        /\ AmountOf(N) \in Int
        /\ t.amount \in Int /\ q.amount \in Int
    BY <1>0, <2>3, AmountIsInt
  <2>5. t # q
    BY <2>2, <2>3, <2>4
  <2>6. T \ {t} \notin W /\ T \ {q} \notin W
    BY <2>1, <2>3, OneLess
  <2>7. AmountOf(T \ {t}) = AmountOf(N) + q.amount
    <3>1. q \in T \ {t} /\ (T \ {t}) \ {q} = N
      BY <2>5
    <3> QED
      BY <2>6, <3>1
  <2>8. AmountOf(T \ {q}) = AmountOf(N) + t.amount
    <3>1. t \in T \ {q} /\ (T \ {q}) \ {t} = N
      BY <2>3, <2>5
    <3> QED
      BY <2>6, <3>1
  <2> HIDE DEF t, N
  <2> QED
    BY <2>2, <2>3, <2>4, <2>7, <2>8
<1> QED
  BY <1>1

-----------------------------------------------------------------------------
(* OrderRefund implements RefundContract.  While a request holds the lock  *)
(* its order stays one that may be refunded, and what it commits is what   *)
(* Alipay agreed to; while a poll holds it, its row stays in progress and   *)
(* no refund is asked for that it has not found.                           *)
StillAsked ==
  \A w \in Requests :
    /\ pc[w] \in Creating \ {"Validate"}
         => status = "Payed" /\ 0 < w.amount /\ w.amount <= PriceOf(w.items)
    /\ pc[w] = "Commit" => SameAmount(w)

StillOpen ==
  \A w \in PollJobs :
    /\ pc[w] \in Polling \ {"Read"} => refund[cur[w]] = "Processing"
    /\ pc[w] \in {"Mark"} \cup OfRow => found[w] = UNION {r.items : r \in Rows}

LEMMA AskedStep ==
  TypeOK /\ Holder /\ StillAsked /\ [Next]_vars => StillAsked'
<1> SUFFICES ASSUME TypeOK, Holder, StillAsked, [Next]_vars
             PROVE  StillAsked'
  OBVIOUS
<1> USE RefundAssumption
    DEF StillAsked, SameAmount, Holder, TypeOK, RefundStatus, Committed, Rows,
        DoneRows, RequestSet, Outside, Creating, OfOrder, OfRow, Polling,
        Critical, Workers, NoFault, Fault, At, Goes, GoTo, rowVars,
        orderVars, mysqlVars, redisVars, alipayVars, localVars
<1>1. CASE UNCHANGED vars
  BY <1>1 DEF vars
<1>2. ASSUME NEW w \in Workers, GetOrderLock(w) PROVE StillAsked'
  BY <1>2 DEF GetOrderLock, Return, Forget
<1>3. ASSUME NEW w \in Workers, UnLockOrder(w) PROVE StillAsked'
  BY <1>3 DEF UnLockOrder, Return, Forget
<1>4. ASSUME NEW w \in Workers, DelOrderRefundResult(w) PROVE StillAsked'
  BY <1>4 DEF DelOrderRefundResult
<1>5. ASSUME NEW w \in Workers, Crash(w) PROVE StillAsked'
  BY <1>5 DEF Crash, RollBack, Return, Forget
<1>6. ASSUME NEW w \in Requests, RequestRefund(w) PROVE StillAsked'
  BY <1>6 DEF RequestRefund
<1>7. ASSUME NEW w \in Requests, Validate(w) PROVE StillAsked'
  BY <1>7 DEF Validate
<1>8. ASSUME NEW w \in Requests, SetOrderRefundResult(w) PROVE StillAsked'
  BY <1>8 DEF SetOrderRefundResult
<1>9. ASSUME NEW w \in Requests, InsertRefund(w) PROVE StillAsked'
  BY <1>9 DEF InsertRefund
<1>10. ASSUME NEW w \in Requests, RefundOrder(w) PROVE StillAsked'
  BY <1>10 DEF RefundOrder, Accepts, Repeats, Refuses, RollBack
<1>11. ASSUME NEW w \in Requests, CommitRefund(w) PROVE StillAsked'
  BY <1>11 DEF CommitRefund
<1>12. ASSUME NEW w \in PollJobs, StartJob(w) PROVE StillAsked'
  BY <1>12 DEF StartJob
<1>13. ASSUME NEW w \in PollJobs, GetOrderRefundByOrderID(w) PROVE StillAsked'
  BY <1>13 DEF GetOrderRefundByOrderID, Youngest
<1>14. ASSUME NEW w \in PollJobs, QueryRefund(w) PROVE StillAsked'
  BY <1>14 DEF QueryRefund
<1>15. ASSUME NEW w \in PollJobs, ListRefunds(w) PROVE StillAsked'
  BY <1>15 DEF ListRefunds, RequestSet
<1>16. ASSUME NEW w \in PollJobs, MarkRefund(w) PROVE StillAsked'
  BY <1>16 DEF MarkRefund
<1>17. ASSUME NEW w \in PollJobs, SumRefunds(w) PROVE StillAsked'
  BY <1>17 DEF SumRefunds
<1>18. ASSUME NEW w \in PollJobs, UpdateOrder(w) PROVE StillAsked'
  BY <1>18 DEF UpdateOrder
<1>19. ASSUME NEW w \in PollJobs, DeleteUserCourse(w) PROVE StillAsked'
  BY <1>19 DEF DeleteUserCourse
<1>20. ASSUME NEW w \in PollJobs, CommitResult(w) PROVE StillAsked'
  BY <1>20 DEF CommitResult, RecordResult
<1>21. CASE LockExpires
  BY <1>21 DEF LockExpires
<1>22. CASE AlipaySettles
  BY <1>22 DEF AlipaySettles
<1> QED
  BY <1>1, <1>2, <1>3, <1>4, <1>5, <1>6, <1>7, <1>8, <1>9, <1>10, <1>11,
     <1>12, <1>13, <1>14, <1>15, <1>16, <1>17, <1>18, <1>19, <1>20, <1>21,
     <1>22, NextCases

LEMMA OpenStep ==
  TypeOK /\ RowOfRequest /\ RowOfPoll /\ Holder /\ StillOpen /\ [Next]_vars => StillOpen'
<1> SUFFICES ASSUME TypeOK, RowOfRequest, RowOfPoll, Holder, StillOpen, [Next]_vars
             PROVE  StillOpen'
  OBVIOUS
<1> USE RefundAssumption
    DEF StillOpen, RowOfRequest, RowOfPoll, Holder, TypeOK, RefundStatus, Committed, Rows,
        DoneRows, RequestSet, Outside, Creating, OfOrder, OfRow, Polling,
        Critical, Workers, NoFault, Fault, At, Goes, GoTo, rowVars,
        orderVars, mysqlVars, redisVars, alipayVars, localVars
<1>1. CASE UNCHANGED vars
  BY <1>1 DEF vars
<1>2. ASSUME NEW w \in Workers, GetOrderLock(w) PROVE StillOpen'
  BY <1>2 DEF GetOrderLock, Return, Forget
<1>3. ASSUME NEW w \in Workers, UnLockOrder(w) PROVE StillOpen'
  BY <1>3 DEF UnLockOrder, Return, Forget
<1>4. ASSUME NEW w \in Workers, DelOrderRefundResult(w) PROVE StillOpen'
  BY <1>4 DEF DelOrderRefundResult
<1>5. ASSUME NEW w \in Workers, Crash(w) PROVE StillOpen'
  BY <1>5 DEF Crash, RollBack, Return, Forget
<1>6. ASSUME NEW w \in Requests, RequestRefund(w) PROVE StillOpen'
  BY <1>6 DEF RequestRefund
<1>7. ASSUME NEW w \in Requests, Validate(w) PROVE StillOpen'
  BY <1>7 DEF Validate
<1>8. ASSUME NEW w \in Requests, SetOrderRefundResult(w) PROVE StillOpen'
  BY <1>8 DEF SetOrderRefundResult
<1>9. ASSUME NEW w \in Requests, InsertRefund(w) PROVE StillOpen'
  BY <1>9 DEF InsertRefund
<1>10. ASSUME NEW w \in Requests, RefundOrder(w) PROVE StillOpen'
  BY <1>10 DEF RefundOrder, SameAmount, Accepts, Repeats, Refuses, RollBack
<1>11. ASSUME NEW w \in Requests, CommitRefund(w) PROVE StillOpen'
  BY <1>11 DEF CommitRefund
<1>12. ASSUME NEW w \in PollJobs, StartJob(w) PROVE StillOpen'
  BY <1>12 DEF StartJob
<1>13. ASSUME NEW w \in PollJobs, GetOrderRefundByOrderID(w) PROVE StillOpen'
  BY <1>13 DEF GetOrderRefundByOrderID, Youngest
<1>14. ASSUME NEW w \in PollJobs, QueryRefund(w) PROVE StillOpen'
  BY <1>14 DEF QueryRefund
<1>15. ASSUME NEW w \in PollJobs, ListRefunds(w) PROVE StillOpen'
  BY <1>15 DEF ListRefunds, RequestSet
<1>16. ASSUME NEW w \in PollJobs, MarkRefund(w) PROVE StillOpen'
  BY <1>16 DEF MarkRefund
<1>17. ASSUME NEW w \in PollJobs, SumRefunds(w) PROVE StillOpen'
  BY <1>17 DEF SumRefunds
<1>18. ASSUME NEW w \in PollJobs, UpdateOrder(w) PROVE StillOpen'
  BY <1>18 DEF UpdateOrder
<1>19. ASSUME NEW w \in PollJobs, DeleteUserCourse(w) PROVE StillOpen'
  BY <1>19 DEF DeleteUserCourse
<1>20. ASSUME NEW w \in PollJobs, CommitResult(w) PROVE StillOpen'
  BY <1>20 DEF CommitResult, RecordResult
<1>21. CASE LockExpires
  BY <1>21 DEF LockExpires
<1>22. CASE AlipaySettles
  BY <1>22 DEF AlipaySettles
<1> QED
  BY <1>1, <1>2, <1>3, <1>4, <1>5, <1>6, <1>7, <1>8, <1>9, <1>10, <1>11,
     <1>12, <1>13, <1>14, <1>15, <1>16, <1>17, <1>18, <1>19, <1>20, <1>21,
     <1>22, NextCases

(* The abstract record of a refund.                                        *)
RecordOf == [r \in Requests |-> IF refund[r] = "Open" THEN "Absent" ELSE refund[r]]

(* Steps that nobody outside can see.                                      *)
LEMMA Hidden ==
  ASSUME UNCHANGED <<status, refundAmount, owned, taken, answer>>,
         \A r \in Requests : \/ refund'[r] = refund[r]
                             \/ {refund[r], refund'[r]} \subseteq {"Open", "Absent"}
  PROVE  UNCHANGED Contract!vars
<1>1. UNCHANGED RecordOf
  BY DEF RecordOf
<1> QED
  BY <1>1 DEF Contract!vars, RecordOf

LEMMA RecordedAreRows ==
  ASSUME TypeOK
  PROVE  Contract!Recorded = Rows
BY DEF Contract!Recorded, Rows, Committed, TypeOK, RefundStatus

LEMMA AcceptStep ==
  ASSUME TypeOK, StillAsked, NEW w \in Requests, RefundOrder(w)
  PROVE  Contract!Next \/ UNCHANGED Contract!vars
<1>1. /\ UNCHANGED <<status, refundAmount, owned>>
      /\ \A r \in Requests : \/ refund'[r] = refund[r]
                             \/ {refund[r], refund'[r]} \subseteq {"Open", "Absent"}
  BY DEF RefundOrder, RollBack, TypeOK, mysqlVars, orderVars, rowVars
<1>2. CASE Accepts(w)
  <2>1. Contract!MayAsk(w)
    BY DEF RefundOrder, At, StillAsked, Creating, Contract!MayAsk
  <2>2. UNCHANGED RecordOf
    BY <1>1 DEF RecordOf
  <2>3. Contract!Accept(w)
    BY <1>1, <1>2, <2>1, <2>2 DEF Accepts, Contract!Accept, RecordOf
  <2> QED
    BY <2>3 DEF Contract!Next
<1>3. CASE UNCHANGED alipayVars
  BY <1>1, <1>3, Hidden DEF alipayVars
<1> QED
  BY <1>2, <1>3 DEF RefundOrder, Repeats, Refuses

LEMMA RecordStep ==
  ASSUME TypeOK, RowOfRequest, StillAsked, NEW w \in Requests, CommitRefund(w)
  PROVE  Contract!Next \/ UNCHANGED Contract!vars
<1>1. /\ UNCHANGED <<status, refundAmount, owned, taken, answer>>
      /\ \/ refund' = [refund EXCEPT ![w] = "Processing"]
         \/ refund' = [refund EXCEPT ![w] = "Absent"]
  BY DEF CommitRefund, orderVars, alipayVars
<1>2. refund[w] = "Open" /\ refund \in [Requests -> RefundStatus]
  BY DEF CommitRefund, At, RowOfRequest, TypeOK
<1>3. CASE refund' = [refund EXCEPT ![w] = "Processing"]
  <2>1. Contract!MayAsk(w) /\ SameAmount(w)
    BY DEF CommitRefund, At, StillAsked, Creating, Contract!MayAsk
  <2>2. RecordOf' = [RecordOf EXCEPT ![w] = "Processing"] /\ RecordOf[w] = "Absent"
    BY <1>2, <1>3 DEF RecordOf
  <2>3. Contract!Record(w)
    BY <1>1, <2>1, <2>2 DEF Contract!Record, SameAmount, RecordOf
  <2> QED
    BY <2>3 DEF Contract!Next
<1>4. CASE refund' = [refund EXCEPT ![w] = "Absent"]
  BY <1>1, <1>2, <1>4, Hidden
<1> QED
  BY <1>1, <1>3, <1>4

LEMMA RevokeStep ==
  ASSUME TypeOK, StillOpen, NEW w \in PollJobs, DeleteUserCourse(w)
  PROVE  Contract!Next \/ UNCHANGED Contract!vars
<1>1. UNCHANGED <<status, refundAmount, refund, taken, answer>>
  BY DEF DeleteUserCourse, orderVars, rowVars, alipayVars
<1>2. CASE owned' = owned
  BY <1>1, <1>2, Hidden
<1>3. CASE owned' = owned \ cur[w].items
  <2>1. /\ cur[w] \in Requests /\ answer \in Results
        /\ refund[cur[w]] = "Processing"
    BY DEF DeleteUserCourse, At, StillOpen, TypeOK, Polling, OfRow, OfOrder
  <2>2. UNCHANGED RecordOf /\ RecordOf[cur[w]] = "Processing"
    BY <1>1, <2>1 DEF RecordOf
  <2>3. Contract!Revoke(cur[w])
    BY <1>1, <1>3, <2>1, <2>2 DEF Contract!Revoke, RecordOf
  <2> QED
    BY <2>1, <2>3 DEF Contract!Next
<1> QED
  BY <1>2, <1>3 DEF DeleteUserCourse

LEMMA FinishStep ==
  ASSUME TypeOK, RowOfPoll, SumIsFresh, RefundAmountIsDone, StillOpen,
         NEW w \in PollJobs, CommitResult(w)
  PROVE  Contract!Next \/ UNCHANGED Contract!vars
<1>0. PICK r \in Requests : r = cur[w]
  BY DEF CommitResult, At, TypeOK, Polling, OfRow, OfOrder
<1>1. UNCHANGED <<owned, taken, answer>>
  BY DEF CommitResult, RecordResult, alipayVars, mysqlVars, orderVars, rowVars
<1>2. CASE UNCHANGED mysqlVars
  BY <1>1, <1>2, Hidden DEF mysqlVars, orderVars, rowVars
<1>3. CASE RecordResult(w)
  <2>1. /\ r \in Requests /\ answer \in Results /\ refund[r] = "Processing"
        /\ r.items \cap owned = {}
        /\ found[w] = UNION {q.items : q \in Rows}
    BY <1>0 DEF CommitResult, At, StillOpen, RowOfPoll, TypeOK, Polling, OfRow, OfOrder
  <2>2. answer # "Open" /\ refund' = [refund EXCEPT ![r] = answer]
    BY <1>0, <1>3, <2>1, RefundAssumption DEF RecordResult
  <2>3. RecordOf' = [RecordOf EXCEPT ![r] = answer] /\ RecordOf[r] = "Processing"
    BY <2>1, <2>2 DEF RecordOf, TypeOK
  <2>4. answer = "Done" => sum[w] = refundAmount + r.amount
    <3> SUFFICES ASSUME answer = "Done"
                 PROVE  sum[w] = refundAmount + r.amount
      OBVIOUS
    <3>1. sum[w] = AmountOf(DoneRows \cup {r})
      BY <1>0 DEF CommitResult, At, SumIsFresh, OfOrder
    <3>2. DoneRows \cup {r} \in SUBSET Requests /\ r \notin DoneRows
      BY <2>1 DEF DoneRows
    <3>3. AmountOf(DoneRows \cup {r}) = AmountOf((DoneRows \cup {r}) \ {r}) + r.amount
      BY <3>2, AmountAdds
    <3>4. (DoneRows \cup {r}) \ {r} = DoneRows
      BY <3>2
    <3> QED
      BY <3>1, <3>3, <3>4 DEF RefundAmountIsDone
  <2>5. IF answer = "Done"
        THEN /\ refundAmount' = refundAmount + r.amount
             /\ status' = IF \/ refundAmount + r.amount >= PriceOf(Items)
                             \/ UNION {q.items : q \in Contract!Recorded} = Items
                          THEN "Refund" ELSE status
        ELSE UNCHANGED <<status, refundAmount>>
    BY <1>3, <2>1, <2>4, RecordedAreRows DEF RecordResult, PaymentAmount, orderVars
  <2>6. Contract!Finish(r)
    BY <1>1, <2>1, <2>3, <2>5 DEF Contract!Finish, RecordOf
  <2> QED
    BY <2>1, <2>6 DEF Contract!Next
<1> QED
  BY <1>2, <1>3 DEF CommitResult

LEMMA ContractStep ==
  TypeOK /\ RowOfRequest /\ RowOfPoll /\ SumIsFresh /\ RefundAmountIsDone
    /\ StillAsked /\ StillOpen /\ [Next]_vars => [Contract!Next]_(Contract!vars)
<1> SUFFICES ASSUME TypeOK, RowOfRequest, RowOfPoll, SumIsFresh, RefundAmountIsDone,
                    StillAsked, StillOpen, [Next]_vars
             PROVE  Contract!Next \/ UNCHANGED Contract!vars
  OBVIOUS
<1>1. CASE AlipaySettles
  <2>1. UNCHANGED RecordOf
    BY <1>1 DEF AlipaySettles, mysqlVars, rowVars, RecordOf
  <2>2. Contract!Settle
    BY <1>1, <2>1 DEF AlipaySettles, mysqlVars, orderVars, Contract!Settle, RecordOf
  <2> QED
    BY <2>2 DEF Contract!Next
<1>2. ASSUME NEW w \in Requests, InsertRefund(w)
      PROVE  UNCHANGED Contract!vars
  <2>1. UNCHANGED <<status, refundAmount, owned, taken, answer>>
    BY <1>2 DEF InsertRefund, orderVars, alipayVars
  <2>2. \A r \in Requests : \/ refund'[r] = refund[r]
                            \/ {refund[r], refund'[r]} \subseteq {"Open", "Absent"}
    BY <1>2 DEF InsertRefund, At, RowOfRequest, TypeOK, rowVars
  <2> QED
    BY <2>1, <2>2, Hidden
<1>3. ASSUME NEW w \in Workers, Crash(w)
      PROVE  UNCHANGED Contract!vars
  <2>1. UNCHANGED <<status, refundAmount, owned, taken, answer>>
    BY <1>3 DEF Crash, RollBack, orderVars, alipayVars
  <2>2. \A r \in Requests : \/ refund'[r] = refund[r]
                            \/ {refund[r], refund'[r]} \subseteq {"Open", "Absent"}
    BY <1>3 DEF Crash, RollBack
  <2> QED
    BY <2>1, <2>2, Hidden
<1>4. CASE UNCHANGED <<mysqlVars, alipayVars>>
  BY <1>4, Hidden DEF mysqlVars, orderVars, rowVars, alipayVars
<1>5. \/ UNCHANGED <<mysqlVars, alipayVars>>
      \/ AlipaySettles
      \/ \E w \in Workers : Crash(w)
      \/ \E w \in Requests : InsertRefund(w) \/ RefundOrder(w) \/ CommitRefund(w)
      \/ \E w \in PollJobs : DeleteUserCourse(w) \/ CommitResult(w)
  BY NextCases DEF vars, GetOrderLock, UnLockOrder, DelOrderRefundResult,
     RequestRefund, Validate, SetOrderRefundResult, StartJob,
     GetOrderRefundByOrderID, QueryRefund, ListRefunds, MarkRefund, SumRefunds,
     UpdateOrder, LockExpires
<1> QED
  BY <1>1, <1>2, <1>3, <1>4, <1>5, AcceptStep, RecordStep, RevokeStep, FinishStep

(* However requests, polls, failed calls and crashes interleave, refunds   *)
(* keep their contract as long as no call outlives the lock.               *)
THEOREM RefundContractKept ==
  ASSUME SlowCalls = FALSE
  PROVE  Spec => RefundKeepsContract
<1>1. Init => /\ Holder /\ SumIsFresh /\ RefundAmountIsDone
              /\ StillAsked /\ StillOpen /\ Contract!Init
  <2> SUFFICES ASSUME Init
               PROVE  /\ Holder /\ SumIsFresh /\ RefundAmountIsDone
                      /\ StillAsked /\ StillOpen /\ Contract!Init
    OBVIOUS
  <2>1. Holder /\ SumIsFresh /\ RefundAmountIsDone /\ StillAsked /\ StillOpen
    BY RefundAssumption
       DEF Init, Holder, Critical, Creating, Polling, OfRow, OfOrder, Workers,
           SumIsFresh, RefundAmountIsDone, DoneRows, StillAsked, StillOpen
  <2>2. refundAmount = 0
    BY NoAmount DEF Init
  <2>3. RecordOf = [r \in Requests |-> "Absent"]
    BY DEF Init, RecordOf
  <2>4. Contract!Init
    BY <2>2, <2>3 DEF Init, Contract!Init, RecordOf
  <2> QED
    BY <2>1, <2>4
<1> QED
  BY <1>1, HolderStep, SumStep, AmountStep, AskedStep, OpenStep, ContractStep,
     RowsInvariant, TypeCorrect, PTL
     DEF Spec, RefundKeepsContract, Contract!Spec

=============================================================================

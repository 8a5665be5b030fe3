--------------------------- MODULE Courses_proofs ----------------------------
(***************************************************************************)
(* What is promised of the courses of the shop, for any number of          *)
(* customers, courses, quotes, orders, entries, rows and requests, any     *)
(* prices and times, and any number of updates and failures: first what    *)
(* Purchase says of buying them, then what CourseCatalog says of the       *)
(* catalogue inside one.  The two specifications share no name and no      *)
(* state, and neither part uses the other.                                 *)
(***************************************************************************)
EXTENDS Purchase, CourseCatalog, FiniteSetTheorems, SequenceTheorems, WellFoundedInduction, TLAPS

(* The items are copies of what was on sale at m.                          *)
CopiedAt(items, m) == items = [c \in DOMAIN items |-> m.list[c]]

(* The copies of a quote that is being written are of the moment it was    *)
(* begun; those of one that is kept, of less than CalcTime before.         *)
Copying(q) ==
  /\ quote[q].pc = "Set" =>
       /\ \E m \in offers : m.at = quote[q].at /\ CopiedAt(quote[q].items, m)
       /\ now <= quote[q].at + CalcTime
  /\ quote[q].pc = "Kept" =>
       \E m \in offers : /\ m.at <= quote[q].at
                         /\ quote[q].at <= m.at + CalcTime
                         /\ CopiedAt(quote[q].items, m)
  /\ quote[q].at <= now

QuotesAreCopies ==
  /\ [at |-> now, list |-> course] \in offers
  /\ \A q \in Quotes : Copying(q)

(* The moment an order is made of.                                         *)
Sold(o) ==
  \E m \in offers : /\ m.at <= order[o].at
                    /\ order[o].at < m.at + CalcTime + QuoteTime
                    /\ CopiedAt(order[o].items, m)

OrdersAreSold ==
  \A o \in Orders :
    /\ status[o] # "Absent" => order[o].pc # "Idle"
    /\ order[o].pc # "Idle" => Sold(o) /\ order[o].user \in Customers

(* An order is refunded only after its last delivery.                      *)
Ordered(o) ==
  /\ status[o] \in {"Payed", "Refund"} => order[o].pc = "Done"
  /\ refund[o].pc # "None" => status[o] \in {"Payed", "Refund"}
  /\ refund[o].pc = "None" => refund[o].answer = "None"
  /\ delivered[o] # None => /\ paid[o]
                            /\ delivered[o] <= now
                            /\ order[o].pc \in {"Poll", "Commit", "Done"}

StagesAreOrdered == \A o \in Orders : Ordered(o)

(* Are the courses taken back, in a transaction that goes on or has ended? *)
Revoked(o, c)  == refund[o].pc \in {"Revoked", "Closed"} /\ c \in refund[o].items
Answered(o, c) == refund[o].answer # "None" /\ c \in refund[o].items

(* The steps of a refund after it was asked for.                           *)
RefundStep(o) ==
  \/ \E answer \in {"Done", "Failed"} : AnswerRefund(o, answer)
  \/ RefundDeliveryFun(o)
  \/ UpdateOrderRefundResult(o)
  \/ RollbackRefundResult(o)

RefundRow == [pc : {"None", "Processing", "Revoked", "Closed"}, items : SUBSET Courses,
              amount : Nat, answer : {"None", "Done", "Failed"}]

(* Every row is owed to the delivery of its order, and none is missing     *)
(* before Alipay has answered a refund.                                    *)
RowsAreOwed ==
  \A row \in rows :
    /\ row.user = order[row.order].user
    /\ row.goods \in DOMAIN order[row.order].items
    /\ delivered[row.order] # None
    /\ row.expires <= delivered[row.order] + order[row.order].items[row.goods].term
    /\ ~ Revoked(row.order, row.goods)

OwedHasRow ==
  \A o \in Orders : delivered[o] # None =>
    \A c \in DOMAIN order[o].items : ~ Answered(o, c) =>
      [user |-> order[o].user, order |-> o, goods |-> c,
       expires |-> delivered[o] + order[o].items[c].term] \in rows

SaleInv   == TypeOK /\ QuotesAreCopies /\ StagesAreOrdered /\ OrdersAreSold
AccessInv == SaleInv /\ RowsAreOwed /\ OwedHasRow

-----------------------------------------------------------------------------
(* Copies are functions from courses to offers.                            *)
LEMMA CopyIsFunction ==
  ASSUME NEW items \in Copies
  PROVE  /\ DOMAIN items \subseteq Courses
         /\ items \in [DOMAIN items -> Offer]
BY DEF Copies

LEMMA BlankIsCopy == Blank \in Copies
<1>1. Blank \in [{} -> Offer]
  BY DEF Blank
<1>2. {} \in SUBSET Courses
  OBVIOUS
<1> QED
  BY <1>1, <1>2 DEF Copies

LEMMA OfferedIsCopy ==
  ASSUME NEW offered \in [Courses -> Offer], NEW S \in SUBSET Courses
  PROVE  /\ [c \in S |-> offered[c]] \in Copies
         /\ DOMAIN [c \in S |-> offered[c]] = S
<1>1. [c \in S |-> offered[c]] \in [S -> Offer]
  OBVIOUS
<1> QED
  BY <1>1 DEF Copies

LEMMA TermIsNat ==
  ASSUME NEW items \in Copies, NEW c \in DOMAIN items
  PROVE  c \in Courses /\ items[c] \in Offer /\ items[c].term \in Nat
BY CopyIsFunction, PurchaseAssumption DEF Offer

(* A request goes to another step.                                         *)
LEMMA OrderMoves ==
  ASSUME NEW P, NEW U, NEW I, NEW A, NEW f \in [Orders -> [pc : P, user : U, items : I,
         at : A]],
         NEW o \in Orders, NEW p \in P
  PROVE  [f EXCEPT ![o].pc = p] \in [Orders -> [pc : P, user : U, items : I, at : A]]
OBVIOUS

LEMMA QuoteMoves ==
  ASSUME NEW P, NEW I, NEW A, NEW f \in [Quotes -> [pc : P, items : I, at : A]],
         NEW q \in Quotes, NEW p \in P, NEW a \in A
  PROVE  [f EXCEPT ![q].pc = p, ![q].at = a] \in [Quotes -> [pc : P, items : I, at : A]]
OBVIOUS

-----------------------------------------------------------------------------
(* The sum of the prices of an order is computed by a fold.  That it is a  *)
(* number takes an induction over the sets it has added up, which is made  *)
(* here by taking the least counterexample.                                *)

(* The element that the fold takes next out of s, and the sum over s when  *)
(* g has the sums over smaller sets.                                       *)
Taken(s) == CHOOSE c \in s : TRUE
Adds(p, g, s) == IF s = {} THEN 0 ELSE p[Taken(s)] + g[s \ {Taken(s)}]
Sums(p) == CHOOSE g : g = [s \in SUBSET DOMAIN p |-> Adds(p, g, s)]

LEMMA FoldIsSum ==
  ASSUME NEW p
  PROVE  FoldFunction(+, 0, p) = Sums(p)[DOMAIN p]
BY DEF FoldFunction, FoldFunctionOnSet, MapThenFoldSet, Adds, Taken, Sums

LEMMA LeastNat ==
  ASSUME NEW B \in SUBSET Nat, B # {}
  PROVE  \E n \in B : \A m \in B : ~ (m < n)
<1>1. IsWellFoundedOn(OpToRel(<, Nat), Nat)
  BY NatLessThanWellFounded
<1>2. \E x \in B : \A y \in B : ~ (<<y, x>> \in OpToRel(<, Nat))
  BY <1>1, WFMin
<1> QED
  BY <1>2 DEF OpToRel

LEMMA TakenIsOne ==
  ASSUME NEW s, IsFiniteSet(s), s # {}
  PROVE  /\ Taken(s) \in s
         /\ IsFiniteSet(s \ {Taken(s)})
         /\ Cardinality(s) \in Nat
         /\ Cardinality(s) # 0
         /\ Cardinality(s \ {Taken(s)}) = Cardinality(s) - 1
<1>1. Taken(s) \in s
  BY DEF Taken
<1> QED
  BY <1>1, FS_RemoveElement, FS_EmptySet, FS_CardinalityType

(* The functions that add up every set of at most n elements.              *)
AddsUpTo(p, n) ==
  {g \in [SUBSET DOMAIN p -> Nat] :
     \A s \in SUBSET DOMAIN p : Cardinality(s) <= n => g[s] = Adds(p, g, s)}

LEMMA SumsExist ==
  ASSUME NEW D, IsFiniteSet(D), NEW p \in [D -> Nat], NEW n \in Nat
  PROVE  AddsUpTo(p, n) # {}
<1> DEFINE B == {k \in Nat : AddsUpTo(p, k) = {}}
<1>0. \A s \in SUBSET D : IsFiniteSet(s) /\ Cardinality(s) \in Nat
  BY FS_Subset, FS_CardinalityType
<1>1. SUFFICES ASSUME B # {}
               PROVE  FALSE
  OBVIOUS
<1>2. PICK k \in B : \A m \in B : ~ (m < k)
  <2> HIDE DEF B
  <2>1. B \in SUBSET Nat
    BY DEF B
  <2> QED
    BY <1>1, <2>1, LeastNat
<1>3. CASE k = 0
  <2>1. \A s \in SUBSET D : Cardinality(s) <= 0 => s = {}
    BY <1>0, FS_EmptySet
  <2>2. [s \in SUBSET D |-> 0] \in AddsUpTo(p, 0)
    BY <2>1 DEF AddsUpTo, Adds
  <2> QED
    BY <1>2, <1>3, <2>2
<1>4. CASE k # 0
  <2>1. k - 1 \in Nat /\ k - 1 < k
    BY <1>2, <1>4
  <2>2. AddsUpTo(p, k - 1) # {}
    BY <1>2, <2>1
  <2>3. PICK g \in [SUBSET D -> Nat] :
          \A s \in SUBSET D : Cardinality(s) <= k - 1 => g[s] = Adds(p, g, s)
    BY <2>2 DEF AddsUpTo
  <2> DEFINE h == [s \in SUBSET D |-> Adds(p, g, s)]
  <2>4. \A s \in SUBSET D : Adds(p, g, s) \in Nat
    <3> SUFFICES ASSUME NEW s \in SUBSET D, s # {}
                 PROVE  Adds(p, g, s) \in Nat
      BY DEF Adds
    <3>1. Taken(s) \in D /\ s \ {Taken(s)} \in SUBSET D
      BY <1>0, TakenIsOne
    <3> QED
      BY <3>1, <2>3 DEF Adds
  <2>5. ASSUME NEW s \in SUBSET D, Cardinality(s) <= k
        PROVE  h[s] = Adds(p, h, s)
    <3>1. CASE s = {}
      BY <3>1 DEF Adds
    <3>2. CASE s # {}
      <4>1. /\ s \ {Taken(s)} \in SUBSET D
            /\ Cardinality(s \ {Taken(s)}) <= k - 1
        BY <1>0, <1>2, <2>5, <3>2, TakenIsOne
      <4>2. h[s \ {Taken(s)}] = g[s \ {Taken(s)}]
        BY <4>1, <2>3
      <4> QED
        BY <3>2, <4>2 DEF Adds
    <3> QED
      BY <3>1, <3>2
  <2>6. h \in AddsUpTo(p, k)
    BY <2>4, <2>5 DEF AddsUpTo
  <2> QED
    BY <1>2, <2>6
<1> QED
  BY <1>3, <1>4

LEMMA SumsAdd ==
  ASSUME NEW D, IsFiniteSet(D), NEW p \in [D -> Nat]
  PROVE  \A s \in SUBSET D : Sums(p)[s] = Adds(p, Sums(p), s)
<1>1. /\ Cardinality(D) \in Nat
      /\ \A s \in SUBSET D : Cardinality(s) <= Cardinality(D)
  BY FS_Subset, FS_CardinalityType
<1>2. PICK g : g \in AddsUpTo(p, Cardinality(D))
  BY <1>1, SumsExist
<1>3. g = [s \in SUBSET D |-> Adds(p, g, s)]
  BY <1>1, <1>2 DEF AddsUpTo
<1>4. Sums(p) = [s \in SUBSET D |-> Adds(p, Sums(p), s)]
  BY <1>3 DEF Sums
<1> QED
  BY <1>4

LEMMA SumsAreNat ==
  ASSUME NEW D, IsFiniteSet(D), NEW p \in [D -> Nat], NEW s \in SUBSET D
  PROVE  Sums(p)[s] \in Nat
<1> DEFINE Wrong == {t \in SUBSET D : Sums(p)[t] \notin Nat}
           B == {Cardinality(t) : t \in Wrong}
<1>0. \A t \in SUBSET D : IsFiniteSet(t) /\ Cardinality(t) \in Nat
  BY FS_Subset, FS_CardinalityType
<1>1. SUFFICES ASSUME B # {}
               PROVE  FALSE
  OBVIOUS
<1>2. PICK k \in B : \A m \in B : ~ (m < k)
  <2>1. B \in SUBSET Nat
    BY <1>0
  <2> HIDE DEF B
  <2> QED
    BY <1>1, <2>1, LeastNat
<1>3. PICK t \in Wrong : Cardinality(t) = k
  OBVIOUS
<1>4. Sums(p)[t] = Adds(p, Sums(p), t)
  BY SumsAdd
<1>5. t # {}
  BY <1>3, <1>4 DEF Adds
<1>6. Taken(t) \in D /\ t \ {Taken(t)} \in SUBSET D
  BY <1>0, <1>5, TakenIsOne
<1>7. Cardinality(t \ {Taken(t)}) < k
  BY <1>0, <1>3, <1>5, TakenIsOne
<1>8. Sums(p)[t \ {Taken(t)}] \in Nat
  BY <1>2, <1>6, <1>7
<1> QED
  BY <1>3, <1>4, <1>5, <1>6, <1>8 DEF Adds

LEMMA TotalIsNat ==
  ASSUME NEW items \in Copies
  PROVE  Total(items) \in Nat
<1>1. Price(items) \in [DOMAIN items -> Nat]
  BY CopyIsFunction, PurchaseAssumption DEF Price, Offer
<1>2. IsFiniteSet(DOMAIN items)
  BY CopyIsFunction, FS_Subset, PurchaseAssumption
<1>3. DOMAIN Price(items) = DOMAIN items
  BY DEF Price
<1>4. Sums(Price(items))[DOMAIN items] \in Nat
  BY <1>1, <1>2, SumsAreNat
<1> QED
  BY <1>3, <1>4, FoldIsSum DEF Total

-----------------------------------------------------------------------------
LEMMA InitInv == Init => AccessInv
<1> SUFFICES ASSUME Init
             PROVE  AccessInv
  OBVIOUS
<1>1. TypeOK
  BY BlankIsCopy, PurchaseAssumption DEF Init, TypeOK, Totals
<1>2. QuotesAreCopies
  BY DEF Init, QuotesAreCopies, Copying
<1>3. OrdersAreSold /\ StagesAreOrdered /\ RowsAreOwed /\ OwedHasRow
  BY DEF Init, OrdersAreSold, StagesAreOrdered, Ordered, RowsAreOwed, OwedHasRow
<1> QED
  BY <1>1, <1>2, <1>3 DEF AccessInv, SaleInv

LEMMA RefundMoves ==
  ASSUME TypeOK, NEW o \in Orders, RefundStep(o)
  PROVE  /\ UNCHANGED <<now, goodsVars, quote, order, paid, moneyVars, delivered>>
         /\ refund' \in [Orders -> RefundRow]
         /\ refund[o].pc # "None" /\ refund'[o].pc # "None"
         /\ refund'[o].items = refund[o].items
         /\ status' = status \/ status' = [status EXCEPT ![o] = "Refund"]
         /\ \A p \in Orders \ {o} : refund'[p] = refund[p]
         /\ rows' \subseteq rows
         /\ faults' \in Nat
<1>0. /\ refund \in [Orders -> RefundRow]
      /\ status \in [Orders -> {"Absent", "WaitPay", "Payed", "Refund"}]
  BY DEF TypeOK, RefundRow
<1>1. ASSUME NEW answer \in {"Done", "Failed"}, AnswerRefund(o, answer)
      PROVE  /\ refund' = [refund EXCEPT ![o].answer = answer]
             /\ refund[o].pc = "Processing"
             /\ UNCHANGED <<now, goodsVars, quote, order, paid, moneyVars, delivered,
                            status, rows, faults>>
  BY <1>1 DEF AnswerRefund
<1>2. ASSUME RefundDeliveryFun(o)
      PROVE  /\ refund' = [refund EXCEPT ![o].pc = "Revoked"]
             /\ refund[o].pc = "Processing" /\ rows' \subseteq rows
             /\ UNCHANGED <<now, goodsVars, quote, order, paid, moneyVars, delivered,
                            status, faults>>
  BY <1>2 DEF RefundDeliveryFun
<1>3. ASSUME UpdateOrderRefundResult(o)
      PROVE  /\ refund' = [refund EXCEPT ![o].pc = "Closed"]
             /\ refund[o].pc = "Revoked"
             /\ status' = status \/ status' = [status EXCEPT ![o] = "Refund"]
             /\ UNCHANGED <<now, goodsVars, quote, order, paid, moneyVars, delivered,
                            rows, faults>>
  BY <1>0, <1>3 DEF UpdateOrderRefundResult
<1>4. ASSUME RollbackRefundResult(o)
      PROVE  /\ refund' = [refund EXCEPT ![o].pc = "Processing"]
             /\ refund[o].pc = "Revoked" /\ faults' = faults + 1
             /\ UNCHANGED <<now, goodsVars, quote, order, paid, moneyVars, delivered,
                            status, rows>>
  BY <1>4 DEF RollbackRefundResult, Fault
<1>5. /\ \/ \E answer \in {"Done", "Failed"} :
              refund' = [refund EXCEPT ![o].answer = answer]
         \/ \E label \in {"Processing", "Revoked", "Closed"} :
              refund' = [refund EXCEPT ![o].pc = label]
      /\ refund[o].pc # "None"
  BY <1>1, <1>2, <1>3, <1>4 DEF RefundStep
<1>6. /\ refund' \in [Orders -> RefundRow]
      /\ refund'[o].pc # "None" /\ refund'[o].items = refund[o].items
      /\ \A p \in Orders \ {o} : refund'[p] = refund[p]
  BY <1>0, <1>5 DEF RefundRow
<1>7. /\ UNCHANGED <<now, goodsVars, quote, order, paid, moneyVars, delivered>>
      /\ status' = status \/ status' = [status EXCEPT ![o] = "Refund"]
      /\ rows' \subseteq rows
      /\ faults' = faults \/ faults' = faults + 1
  BY <1>1, <1>2, <1>3, <1>4 DEF RefundStep
<1> QED
  BY <1>5, <1>6, <1>7 DEF TypeOK

LEMMA TypeStep == TypeOK /\ OrdersAreSold /\ [Next]_vars => TypeOK'
<1> SUFFICES ASSUME TypeOK, OrdersAreSold, [Next]_vars
               PROVE  TypeOK'
  OBVIOUS
<1>1. ASSUME NEW c \in Courses, NEW p \in Prices \cup {0}, NEW t \in Terms \cup {0},
             UpdateCourse(c, [price |-> p, term |-> t])
      PROVE  TypeOK'
  <2>1. course' \in [Courses -> Offer]
    <3> DEFINE new == [price |-> IF p = 0 THEN course[c].price ELSE p,
                       term  |-> IF t = 0 THEN course[c].term ELSE t]
    <3>1. course \in [Courses -> Offer] /\ course[c] \in Offer
      BY DEF TypeOK
    <3>2. new \in Offer
      BY <3>1 DEF Offer
    <3>3. course' = [course EXCEPT ![c] = new]
      BY <1>1, <3>1 DEF UpdateCourse
    <3> QED
      BY <3>1, <3>2, <3>3
  <2>2. offers' \subseteq [at : Nat, list : [Courses -> Offer]]
    BY <1>1, <2>1 DEF TypeOK, UpdateCourse
  <2>3. updates' \in Nat
    BY <1>1 DEF TypeOK, UpdateCourse
  <2>4. UNCHANGED <<now, quote, orderVars, moneyVars, rows, delivered, faults>>
    BY <1>1 DEF UpdateCourse
  <2> QED
    BY <2>1, <2>2, <2>3, <2>4 DEF TypeOK, moneyVars, orderVars
<1>2. ASSUME NEW q \in Quotes, NEW S \in SUBSET Courses, GetCourseInfoByIds(q, S)
      PROVE  TypeOK'
  <2>1. [c \in S |-> course[c]] \in Copies
    BY OfferedIsCopy DEF TypeOK
  <2> QED
    BY <1>2, <2>1 DEF TypeOK, GetCourseInfoByIds, goodsVars, moneyVars, orderVars
<1>3. ASSUME NEW q \in Quotes, SetOrderCalcFee(q)
      PROVE  TypeOK'
  <2>1. quote' \in [Quotes -> [pc : {"Idle", "Set", "Kept", "Lost"}, items : Copies, at : Nat]]
    BY <1>3, QuoteMoves, ZenonT(40) DEF TypeOK, SetOrderCalcFee, goodsVars, moneyVars, orderVars
  <2> QED
    BY <1>3, <2>1 DEF TypeOK, SetOrderCalcFee, goodsVars, moneyVars, orderVars
<1>4. ASSUME NEW q \in Quotes, StopQuote(q)
      PROVE  TypeOK'
  BY <1>4, SMTT(30) DEF TypeOK, StopQuote, Fault, goodsVars, moneyVars, orderVars
<1>5. ASSUME NEW o \in Orders, NEW u \in Customers, NEW q \in Quotes,
             GetOrderCalcFee(o, u, q)
      PROVE  TypeOK'
  <2>1. Total(quote[q].items) \in Totals
    BY DEF TypeOK, Totals
  <2> QED
    BY <1>5, <2>1 DEF TypeOK, GetOrderCalcFee, Buy, goodsVars, moneyVars, orderVars
<1>6. ASSUME NEW o \in Orders, CreateOrder(o)
      PROVE  TypeOK'
  <2>1. order' \in [Orders -> [pc : {"Idle", "Create", "PrePay", "Poll", "Commit", "Done"},
                             user : Customers \cup {None}, items : Copies, at : Nat]]
    BY <1>6, OrderMoves DEF TypeOK, CreateOrder, goodsVars, moneyVars, orderVars
  <2> QED
    BY <1>6, <2>1 DEF TypeOK, CreateOrder, goodsVars, moneyVars, orderVars
<1>7. ASSUME NEW o \in Orders, PagePrePayOrder(o)
      PROVE  TypeOK'
  <2>1. order' \in [Orders -> [pc : {"Idle", "Create", "PrePay", "Poll", "Commit", "Done"},
                             user : Customers \cup {None}, items : Copies, at : Nat]]
    BY <1>7, OrderMoves DEF TypeOK, PagePrePayOrder, goodsVars, moneyVars, orderVars
  <2> QED
    BY <1>7, <2>1 DEF TypeOK, PagePrePayOrder, goodsVars, moneyVars, orderVars
<1>8. ASSUME NEW o \in Orders, Pay(o)
      PROVE  TypeOK'
  BY <1>8 DEF TypeOK, Pay, goodsVars, moneyVars, orderVars
<1>9. ASSUME NEW o \in Orders, UserBenefitPackage(o)
      PROVE  TypeOK'
  <2>1. rows' \subseteq [user : Customers, order : Orders, goods : Courses, expires : Nat]
    <3>1. order[o].items \in Copies /\ order[o].user \in Customers
      BY <1>9 DEF TypeOK, OrdersAreSold, UserBenefitPackage
    <3>2. \A c \in DOMAIN order[o].items :
            [user |-> order[o].user, order |-> o, goods |-> c,
             expires |-> now + order[o].items[c].term]
              \in [user : Customers, order : Orders, goods : Courses, expires : Nat]
      BY <3>1, TermIsNat DEF TypeOK
    <3> QED
      BY <1>9, <3>2 DEF TypeOK, UserBenefitPackage
  <2>2. order' \in [Orders -> [pc : {"Idle", "Create", "PrePay", "Poll", "Commit", "Done"},
                             user : Customers \cup {None}, items : Copies, at : Nat]]
    BY <1>9, OrderMoves DEF TypeOK, UserBenefitPackage, goodsVars, moneyVars, orderVars
  <2> QED
    BY <1>9, <2>1, <2>2 DEF TypeOK, UserBenefitPackage, goodsVars, moneyVars, orderVars
<1>10. ASSUME NEW o \in Orders, CommitPayed(o)
      PROVE  TypeOK'
  <2>1. order' \in [Orders -> [pc : {"Idle", "Create", "PrePay", "Poll", "Commit", "Done"},
                             user : Customers \cup {None}, items : Copies, at : Nat]]
    BY <1>10, OrderMoves DEF TypeOK, CommitPayed, goodsVars, moneyVars, orderVars
  <2> QED
    BY <1>10, <2>1 DEF TypeOK, CommitPayed, goodsVars, moneyVars, orderVars
<1>11. ASSUME NEW o \in Orders, RollbackPayed(o)
      PROVE  TypeOK'
  <2>1. order' \in [Orders -> [pc : {"Idle", "Create", "PrePay", "Poll", "Commit", "Done"},
                             user : Customers \cup {None}, items : Copies, at : Nat]]
    BY <1>11, OrderMoves DEF TypeOK, RollbackPayed, Fault, goodsVars, moneyVars,
       orderVars
  <2> QED
    BY <1>11, <2>1 DEF TypeOK, RollbackPayed, Fault, goodsVars, moneyVars, orderVars
<1>12. ASSUME NEW o \in Orders, NEW S \in SUBSET Courses, NEW fen \in Amounts,
              OrderRefund(o, S, fen)
      PROVE  TypeOK'
  <2>1. fen \in Nat
    BY PurchaseAssumption
  <2> QED
    BY <1>12, <2>1 DEF TypeOK, OrderRefund, goodsVars, moneyVars, orderVars
<1>13. ASSUME NEW o \in Orders, RefundStep(o)
      PROVE  TypeOK'
  BY <1>13, RefundMoves DEF TypeOK, RefundRow, goodsVars, moneyVars
<1>14. ASSUME NEW o \in Orders, StopOrder(o)
      PROVE  TypeOK'
  <2>1. order' \in [Orders -> [pc : {"Idle", "Create", "PrePay", "Poll", "Commit", "Done"},
                             user : Customers \cup {None}, items : Copies, at : Nat]]
    BY <1>14, OrderMoves DEF TypeOK, StopOrder, Fault, goodsVars, moneyVars, orderVars
  <2> QED
    BY <1>14, <2>1 DEF TypeOK, StopOrder, Fault, goodsVars, moneyVars, orderVars
<1>15. ASSUME Tick
      PROVE  TypeOK'
  BY <1>15 DEF TypeOK, Tick, goodsVars, moneyVars, orderVars
<1>16. CASE UNCHANGED vars
  BY <1>16 DEF TypeOK, vars, goodsVars, moneyVars, orderVars
<1> QED
  BY <1>1, <1>2, <1>3, <1>4, <1>5, <1>6, <1>7, <1>8, <1>9, <1>10, <1>11, <1>12, <1>13,
     <1>14, <1>15, <1>16 DEF Next, RefundStep

LEMMA QuoteStep == TypeOK /\ QuotesAreCopies /\ [Next]_vars => QuotesAreCopies'
<1> SUFFICES ASSUME TypeOK, QuotesAreCopies, [Next]_vars
               PROVE  QuotesAreCopies'
  OBVIOUS
<1>1. ASSUME NEW c \in Courses, NEW p \in Prices \cup {0}, NEW t \in Terms \cup {0},
             UpdateCourse(c, [price |-> p, term |-> t])
      PROVE  QuotesAreCopies'
  BY <1>1, SMTT(30) DEF QuotesAreCopies, Copying, CopiedAt, UpdateCourse, goodsVars, moneyVars,
     orderVars
<1>2. ASSUME NEW q \in Quotes, NEW S \in SUBSET Courses, GetCourseInfoByIds(q, S)
      PROVE  QuotesAreCopies'
  <2> DEFINE items == [c \in S |-> course[c]]
             m == [at |-> now, list |-> course]
  <2>1. quote' = [quote EXCEPT ![q] = [pc |-> "Set", items |-> items, at |-> now]]
    BY <1>2 DEF GetCourseInfoByIds
  <2>2. CopiedAt(items, m)
    BY DEF CopiedAt
  <2>3. UNCHANGED <<now, course, offers>>
    BY <1>2 DEF GetCourseInfoByIds, goodsVars, moneyVars, orderVars
  <2> HIDE DEF items
  <2>4. m \in offers' /\ m.at = now
    BY <2>3 DEF QuotesAreCopies, Copying
  <2> HIDE DEF m
  <2> QED
    BY <2>1, <2>2, <2>3, <2>4, PurchaseAssumption DEF QuotesAreCopies, Copying, TypeOK
<1>3. ASSUME NEW q \in Quotes, SetOrderCalcFee(q)
      PROVE  QuotesAreCopies'
  <2>1. quote[q].pc = "Set" /\ quote' = [quote EXCEPT ![q].pc = "Kept", ![q].at = now]
    BY <1>3 DEF SetOrderCalcFee
  <2>2. UNCHANGED <<now, course, offers>>
    BY <1>3 DEF SetOrderCalcFee, goodsVars, moneyVars, orderVars
  <2>3. PICK m \in offers : m.at = quote[q].at /\ CopiedAt(quote[q].items, m)
    BY <2>1 DEF QuotesAreCopies, Copying
  <2>4. m.at <= now /\ now <= m.at + CalcTime
    BY <2>1, <2>3 DEF QuotesAreCopies, Copying
  <2>5. /\ quote'[q].pc = "Kept"
        /\ quote'[q].items = quote[q].items
        /\ quote'[q].at = now
    BY <2>1 DEF TypeOK
  <2>6. \A r \in Quotes \ {q} : quote'[r] = quote[r]
    BY <2>1 DEF TypeOK
  <2>7. CopiedAt(quote'[q].items, m) /\ quote'[q].at <= now'
    BY <2>2, <2>3, <2>5 DEF TypeOK
  <2>8. m \in offers' /\ m.at <= quote'[q].at /\ quote'[q].at <= m.at + CalcTime
    BY <2>2, <2>4, <2>5
  <2>9. ASSUME NEW r \in Quotes \ {q}
        PROVE  Copying(r)'
    BY <2>2, <2>6 DEF QuotesAreCopies, Copying
  <2>10. Copying(q)'
    BY <2>5, <2>7, <2>8 DEF Copying
  <2> QED
    BY <2>2, <2>9, <2>10 DEF QuotesAreCopies
<1>4. ASSUME NEW q \in Quotes, StopQuote(q)
      PROVE  QuotesAreCopies'
  <2>1. quote'[q].pc = "Lost" /\ quote'[q].at = quote[q].at
    BY <1>4 DEF StopQuote, TypeOK
  <2>2. \A r \in Quotes \ {q} : quote'[r] = quote[r]
    BY <1>4 DEF StopQuote, TypeOK
  <2> QED
    BY <1>4, <2>1, <2>2 DEF QuotesAreCopies, Copying, StopQuote, Fault, goodsVars,
       moneyVars, orderVars
<1>5. ASSUME NEW o \in Orders, NEW u \in Customers, NEW q \in Quotes,
             GetOrderCalcFee(o, u, q)
      PROVE  QuotesAreCopies'
  BY <1>5 DEF QuotesAreCopies, Copying, CopiedAt, GetOrderCalcFee, Buy, goodsVars,
     moneyVars, orderVars
<1>6. ASSUME NEW o \in Orders, CreateOrder(o)
      PROVE  QuotesAreCopies'
  BY <1>6 DEF QuotesAreCopies, Copying, CopiedAt, CreateOrder, goodsVars, moneyVars,
     orderVars
<1>7. ASSUME NEW o \in Orders, PagePrePayOrder(o)
      PROVE  QuotesAreCopies'
  BY <1>7 DEF QuotesAreCopies, Copying, CopiedAt, PagePrePayOrder, goodsVars,
     moneyVars, orderVars
<1>8. ASSUME NEW o \in Orders, Pay(o)
      PROVE  QuotesAreCopies'
  BY <1>8 DEF QuotesAreCopies, Copying, CopiedAt, Pay, goodsVars, moneyVars, orderVars
<1>9. ASSUME NEW o \in Orders, UserBenefitPackage(o)
      PROVE  QuotesAreCopies'
  BY <1>9 DEF QuotesAreCopies, Copying, CopiedAt, UserBenefitPackage, goodsVars,
     moneyVars, orderVars
<1>10. ASSUME NEW o \in Orders, CommitPayed(o)
      PROVE  QuotesAreCopies'
  BY <1>10 DEF QuotesAreCopies, Copying, CopiedAt, CommitPayed, goodsVars, moneyVars,
     orderVars
<1>11. ASSUME NEW o \in Orders, RollbackPayed(o)
      PROVE  QuotesAreCopies'
  BY <1>11 DEF QuotesAreCopies, Copying, CopiedAt, RollbackPayed, Fault, goodsVars,
     moneyVars, orderVars
<1>12. ASSUME NEW o \in Orders, NEW S \in SUBSET Courses, NEW fen \in Amounts,
              OrderRefund(o, S, fen)
      PROVE  QuotesAreCopies'
  BY <1>12 DEF QuotesAreCopies, Copying, CopiedAt, OrderRefund, goodsVars, moneyVars,
     orderVars
<1>13. ASSUME NEW o \in Orders, RefundStep(o)
      PROVE  QuotesAreCopies'
  <2>1. UNCHANGED <<now, course, offers, quote>>
    BY <1>13, RefundMoves DEF goodsVars
  <2> QED
    BY <2>1 DEF QuotesAreCopies, Copying, CopiedAt
<1>14. ASSUME NEW o \in Orders, StopOrder(o)
      PROVE  QuotesAreCopies'
  BY <1>14 DEF QuotesAreCopies, Copying, CopiedAt, StopOrder, Fault, goodsVars,
     moneyVars, orderVars
<1>15. ASSUME Tick
      PROVE  QuotesAreCopies'
  <2>1. /\ now' = now + 1
        /\ offers \subseteq offers'
        /\ [at |-> now', list |-> course'] \in offers'
    BY <1>15 DEF Tick
  <2>2. UNCHANGED quote
    BY <1>15 DEF Tick
  <2>3. ASSUME NEW q \in Quotes, quote[q].pc = "Set"
        PROVE  now' <= quote[q].at + CalcTime
    BY <1>15, <2>3, PurchaseAssumption DEF Tick, TypeOK
  <2>4. ASSUME NEW q \in Quotes
        PROVE  quote[q].at <= now'
    BY <2>1 DEF QuotesAreCopies, Copying, TypeOK
  <2> QED
    BY <2>1, <2>2, <2>3, <2>4 DEF QuotesAreCopies, Copying
<1>16. CASE UNCHANGED vars
  BY <1>16 DEF QuotesAreCopies, Copying, vars, goodsVars, moneyVars, orderVars
<1> QED
  BY <1>1, <1>2, <1>3, <1>4, <1>5, <1>6, <1>7, <1>8, <1>9, <1>10, <1>11, <1>12, <1>13,
     <1>14, <1>15, <1>16 DEF Next, RefundStep

LEMMA SoldStep ==
  TypeOK /\ QuotesAreCopies /\ StagesAreOrdered /\ OrdersAreSold /\ [Next]_vars => OrdersAreSold'
<1> SUFFICES ASSUME TypeOK, QuotesAreCopies, StagesAreOrdered, OrdersAreSold, [Next]_vars
               PROVE  OrdersAreSold'
  OBVIOUS
<1>1. ASSUME NEW c \in Courses, NEW p \in Prices \cup {0}, NEW t \in Terms \cup {0},
             UpdateCourse(c, [price |-> p, term |-> t])
      PROVE  OrdersAreSold'
  <2>1. UNCHANGED <<order, status>> /\ offers \subseteq offers'
    BY <1>1 DEF UpdateCourse, goodsVars, moneyVars, orderVars
  <2> QED
    BY <2>1 DEF OrdersAreSold, Sold
<1>2. ASSUME NEW q \in Quotes, NEW S \in SUBSET Courses, GetCourseInfoByIds(q, S)
      PROVE  OrdersAreSold'
  BY <1>2 DEF OrdersAreSold, Sold, GetCourseInfoByIds, goodsVars, moneyVars, orderVars
<1>3. ASSUME NEW q \in Quotes, SetOrderCalcFee(q)
      PROVE  OrdersAreSold'
  BY <1>3 DEF OrdersAreSold, Sold, SetOrderCalcFee, goodsVars, moneyVars, orderVars
<1>4. ASSUME NEW q \in Quotes, StopQuote(q)
      PROVE  OrdersAreSold'
  BY <1>4 DEF OrdersAreSold, Sold, StopQuote, Fault, goodsVars, moneyVars, orderVars
<1>5. ASSUME NEW o \in Orders, NEW u \in Customers, NEW q \in Quotes,
             GetOrderCalcFee(o, u, q)
      PROVE  OrdersAreSold'
  <2>1. /\ order'[o] = [pc |-> "Create", user |-> u, items |-> quote[q].items, at |-> now]
        /\ \A p \in Orders \ {o} : order'[p] = order[p]
        /\ quote[q].pc = "Kept" /\ now < quote[q].at + QuoteTime
    BY <1>5 DEF TypeOK, GetOrderCalcFee, Buy
  <2>2. UNCHANGED <<offers, status>>
    BY <1>5 DEF GetOrderCalcFee, Buy, goodsVars, moneyVars, orderVars
  <2>3. PICK m \in offers : /\ m.at <= quote[q].at
                            /\ quote[q].at <= m.at + CalcTime
                            /\ CopiedAt(quote[q].items, m)
    BY <2>1 DEF QuotesAreCopies, Copying
  <2>4. /\ m.at \in Nat /\ now \in Nat /\ quote[q].at \in Nat /\ quote[q].at <= now
        /\ CalcTime \in Nat /\ QuoteTime \in Nat
    BY PurchaseAssumption DEF TypeOK, QuotesAreCopies, Copying
  <2>5. m.at <= now /\ now < m.at + CalcTime + QuoteTime
    BY <2>1, <2>3, <2>4
  <2> QED
    BY <2>1, <2>2, <2>3, <2>5 DEF OrdersAreSold, Sold
<1>6. ASSUME NEW o \in Orders, CreateOrder(o)
      PROVE  OrdersAreSold'
  <2>1. /\ order'[o].user = order[o].user /\ order'[o].items = order[o].items
        /\ order'[o].at = order[o].at
        /\ order[o].pc # "Idle"
        /\ \A p \in Orders \ {o} : order'[p] = order[p] /\ status'[p] = status[p]
        /\ order'[o].pc # "Idle"
    BY <1>6 DEF TypeOK, CreateOrder, goodsVars, moneyVars, orderVars
  <2>2. UNCHANGED offers
    BY <1>6 DEF CreateOrder, goodsVars, moneyVars, orderVars
  <2> QED
    BY <2>1, <2>2 DEF OrdersAreSold, Sold
<1>7. ASSUME NEW o \in Orders, PagePrePayOrder(o)
      PROVE  OrdersAreSold'
  <2>1. /\ order'[o].user = order[o].user /\ order'[o].items = order[o].items
        /\ order'[o].at = order[o].at
        /\ order[o].pc # "Idle"
        /\ \A p \in Orders \ {o} : order'[p] = order[p] /\ status'[p] = status[p]
        /\ order'[o].pc # "Idle"
    BY <1>7 DEF TypeOK, PagePrePayOrder, goodsVars, moneyVars, orderVars
  <2>2. UNCHANGED offers
    BY <1>7 DEF PagePrePayOrder, goodsVars, moneyVars, orderVars
  <2> QED
    BY <2>1, <2>2 DEF OrdersAreSold, Sold
<1>8. ASSUME NEW o \in Orders, Pay(o)
      PROVE  OrdersAreSold'
  BY <1>8 DEF OrdersAreSold, Sold, Pay, goodsVars, moneyVars, orderVars
<1>9. ASSUME NEW o \in Orders, UserBenefitPackage(o)
      PROVE  OrdersAreSold'
  <2>1. /\ order'[o].user = order[o].user /\ order'[o].items = order[o].items
        /\ order'[o].at = order[o].at
        /\ order[o].pc # "Idle"
        /\ \A p \in Orders \ {o} : order'[p] = order[p] /\ status'[p] = status[p]
        /\ order'[o].pc # "Idle"
    BY <1>9 DEF TypeOK, UserBenefitPackage, goodsVars, moneyVars, orderVars
  <2>2. UNCHANGED offers
    BY <1>9 DEF UserBenefitPackage, goodsVars, moneyVars, orderVars
  <2> QED
    BY <2>1, <2>2 DEF OrdersAreSold, Sold
<1>10. ASSUME NEW o \in Orders, CommitPayed(o)
      PROVE  OrdersAreSold'
  <2>1. /\ order'[o].user = order[o].user /\ order'[o].items = order[o].items
        /\ order'[o].at = order[o].at
        /\ order[o].pc # "Idle"
        /\ \A p \in Orders \ {o} : order'[p] = order[p] /\ status'[p] = status[p]
        /\ order'[o].pc # "Idle"
    BY <1>10 DEF TypeOK, CommitPayed, goodsVars, moneyVars, orderVars
  <2>2. UNCHANGED offers
    BY <1>10 DEF CommitPayed, goodsVars, moneyVars, orderVars
  <2> QED
    BY <2>1, <2>2 DEF OrdersAreSold, Sold
<1>11. ASSUME NEW o \in Orders, RollbackPayed(o)
      PROVE  OrdersAreSold'
  <2>1. /\ order'[o].user = order[o].user /\ order'[o].items = order[o].items
        /\ order'[o].at = order[o].at
        /\ order[o].pc # "Idle"
        /\ \A p \in Orders \ {o} : order'[p] = order[p] /\ status'[p] = status[p]
        /\ order'[o].pc # "Idle"
    BY <1>11 DEF TypeOK, RollbackPayed, Fault, goodsVars, moneyVars, orderVars
  <2>2. UNCHANGED offers
    BY <1>11 DEF RollbackPayed, Fault, goodsVars, moneyVars, orderVars
  <2> QED
    BY <2>1, <2>2 DEF OrdersAreSold, Sold
<1>12. ASSUME NEW o \in Orders, NEW S \in SUBSET Courses, NEW fen \in Amounts,
              OrderRefund(o, S, fen)
      PROVE  OrdersAreSold'
  BY <1>12 DEF OrdersAreSold, Sold, OrderRefund, goodsVars, moneyVars, orderVars
<1>13. ASSUME NEW o \in Orders, RefundStep(o)
      PROVE  OrdersAreSold'
  <2>1. /\ UNCHANGED <<offers, order>>
        /\ status' = status \/ status' = [status EXCEPT ![o] = "Refund"]
        /\ status[o] # "Absent"
    BY <1>13, RefundMoves DEF goodsVars, StagesAreOrdered, Ordered
  <2>2. \A p \in Orders : status'[p] # "Absent" => status[p] # "Absent"
    BY <2>1 DEF TypeOK
  <2> QED
    BY <2>1, <2>2 DEF OrdersAreSold, Sold
<1>14. ASSUME NEW o \in Orders, StopOrder(o)
      PROVE  OrdersAreSold'
  <2>1. /\ order'[o].user = order[o].user /\ order'[o].items = order[o].items
        /\ order'[o].at = order[o].at
        /\ order[o].pc # "Idle"
        /\ \A p \in Orders \ {o} : order'[p] = order[p] /\ status'[p] = status[p]
        /\ order'[o].pc # "Idle"
    BY <1>14 DEF TypeOK, StopOrder, Fault, goodsVars, moneyVars, orderVars
  <2>2. UNCHANGED offers
    BY <1>14 DEF StopOrder, Fault, goodsVars, moneyVars, orderVars
  <2> QED
    BY <2>1, <2>2 DEF OrdersAreSold, Sold
<1>15. ASSUME Tick
      PROVE  OrdersAreSold'
  <2>1. UNCHANGED <<order, status>> /\ offers \subseteq offers'
    BY <1>15 DEF Tick, goodsVars, moneyVars, orderVars
  <2> QED
    BY <2>1 DEF OrdersAreSold, Sold
<1>16. CASE UNCHANGED vars
  BY <1>16 DEF OrdersAreSold, Sold, vars, goodsVars, moneyVars, orderVars
<1> QED
  BY <1>1, <1>2, <1>3, <1>4, <1>5, <1>6, <1>7, <1>8, <1>9, <1>10, <1>11, <1>12, <1>13,
     <1>14, <1>15, <1>16 DEF Next, RefundStep

LEMMA StageStep == TypeOK /\ StagesAreOrdered /\ [Next]_vars => StagesAreOrdered'
<1> SUFFICES ASSUME TypeOK, StagesAreOrdered, [Next]_vars
               PROVE  StagesAreOrdered'
  OBVIOUS
<1>1. ASSUME NEW c \in Courses, NEW p \in Prices \cup {0}, NEW t \in Terms \cup {0},
             UpdateCourse(c, [price |-> p, term |-> t])
      PROVE  StagesAreOrdered'
  BY <1>1 DEF StagesAreOrdered, Ordered, UpdateCourse, goodsVars, moneyVars, orderVars
<1>2. ASSUME NEW q \in Quotes, NEW S \in SUBSET Courses, GetCourseInfoByIds(q, S)
      PROVE  StagesAreOrdered'
  BY <1>2 DEF StagesAreOrdered, Ordered, GetCourseInfoByIds, goodsVars, moneyVars,
     orderVars
<1>3. ASSUME NEW q \in Quotes, SetOrderCalcFee(q)
      PROVE  StagesAreOrdered'
  BY <1>3 DEF StagesAreOrdered, Ordered, SetOrderCalcFee, goodsVars, moneyVars,
     orderVars
<1>4. ASSUME NEW q \in Quotes, StopQuote(q)
      PROVE  StagesAreOrdered'
  BY <1>4 DEF StagesAreOrdered, Ordered, StopQuote, Fault, goodsVars, moneyVars,
     orderVars
<1>5. ASSUME NEW o \in Orders, NEW u \in Customers, NEW q \in Quotes,
             GetOrderCalcFee(o, u, q)
      PROVE  StagesAreOrdered'
  <2>1. \A p \in Orders \ {o} : /\ order'[p] = order[p] /\ status'[p] = status[p]
                                /\ paid'[p] = paid[p] /\ refund'[p] = refund[p]
                                /\ delivered'[p] = delivered[p]
    BY <1>5 DEF TypeOK, GetOrderCalcFee, Buy, goodsVars, moneyVars, orderVars
  <2>2. now' = now
    BY <1>5 DEF GetOrderCalcFee, Buy, goodsVars, moneyVars, orderVars
  <2>3. Ordered(o)'
    BY <1>5 DEF TypeOK, StagesAreOrdered, Ordered, GetOrderCalcFee, Buy, goodsVars,
       moneyVars, orderVars
  <2> QED
    BY <2>1, <2>2, <2>3 DEF StagesAreOrdered, Ordered
<1>6. ASSUME NEW o \in Orders, CreateOrder(o)
      PROVE  StagesAreOrdered'
  <2>1. \A p \in Orders \ {o} : /\ order'[p] = order[p] /\ status'[p] = status[p]
                                /\ paid'[p] = paid[p] /\ refund'[p] = refund[p]
                                /\ delivered'[p] = delivered[p]
    BY <1>6 DEF TypeOK, CreateOrder, goodsVars, moneyVars, orderVars
  <2>2. now' = now
    BY <1>6 DEF CreateOrder, goodsVars, moneyVars, orderVars
  <2>3. Ordered(o)'
    BY <1>6 DEF TypeOK, StagesAreOrdered, Ordered, CreateOrder, goodsVars, moneyVars,
       orderVars
  <2> QED
    BY <2>1, <2>2, <2>3 DEF StagesAreOrdered, Ordered
<1>7. ASSUME NEW o \in Orders, PagePrePayOrder(o)
      PROVE  StagesAreOrdered'
  <2>1. \A p \in Orders \ {o} : /\ order'[p] = order[p] /\ status'[p] = status[p]
                                /\ paid'[p] = paid[p] /\ refund'[p] = refund[p]
                                /\ delivered'[p] = delivered[p]
    BY <1>7 DEF TypeOK, PagePrePayOrder, goodsVars, moneyVars, orderVars
  <2>2. now' = now
    BY <1>7 DEF PagePrePayOrder, goodsVars, moneyVars, orderVars
  <2>3. Ordered(o)'
    BY <1>7 DEF TypeOK, StagesAreOrdered, Ordered, PagePrePayOrder, goodsVars,
       moneyVars, orderVars
  <2> QED
    BY <2>1, <2>2, <2>3 DEF StagesAreOrdered, Ordered
<1>8. ASSUME NEW o \in Orders, Pay(o)
      PROVE  StagesAreOrdered'
  <2>1. \A p \in Orders \ {o} : /\ order'[p] = order[p] /\ status'[p] = status[p]
                                /\ paid'[p] = paid[p] /\ refund'[p] = refund[p]
                                /\ delivered'[p] = delivered[p]
    BY <1>8 DEF TypeOK, Pay, goodsVars, moneyVars, orderVars
  <2>2. now' = now
    BY <1>8 DEF Pay, goodsVars, moneyVars, orderVars
  <2>3. Ordered(o)'
    BY <1>8 DEF TypeOK, StagesAreOrdered, Ordered, Pay, goodsVars, moneyVars, orderVars
  <2> QED
    BY <2>1, <2>2, <2>3 DEF StagesAreOrdered, Ordered
<1>9. ASSUME NEW o \in Orders, UserBenefitPackage(o)
      PROVE  StagesAreOrdered'
  <2>1. \A p \in Orders \ {o} : /\ order'[p] = order[p] /\ status'[p] = status[p]
                                /\ paid'[p] = paid[p] /\ refund'[p] = refund[p]
                                /\ delivered'[p] = delivered[p]
    BY <1>9 DEF TypeOK, UserBenefitPackage, goodsVars, moneyVars, orderVars
  <2>2. now' = now
    BY <1>9 DEF UserBenefitPackage, goodsVars, moneyVars, orderVars
  <2>3. Ordered(o)'
    BY <1>9 DEF TypeOK, StagesAreOrdered, Ordered, UserBenefitPackage, IsPayed, goodsVars,
       moneyVars, orderVars
  <2> QED
    BY <2>1, <2>2, <2>3 DEF StagesAreOrdered, Ordered
<1>10. ASSUME NEW o \in Orders, CommitPayed(o)
      PROVE  StagesAreOrdered'
  <2>1. \A p \in Orders \ {o} : /\ order'[p] = order[p] /\ status'[p] = status[p]
                                /\ paid'[p] = paid[p] /\ refund'[p] = refund[p]
                                /\ delivered'[p] = delivered[p]
    BY <1>10 DEF TypeOK, CommitPayed, goodsVars, moneyVars, orderVars
  <2>2. now' = now
    BY <1>10 DEF CommitPayed, goodsVars, moneyVars, orderVars
  <2>3. Ordered(o)'
    BY <1>10 DEF TypeOK, StagesAreOrdered, Ordered, CommitPayed, goodsVars, moneyVars,
       orderVars
  <2> QED
    BY <2>1, <2>2, <2>3 DEF StagesAreOrdered, Ordered
<1>11. ASSUME NEW o \in Orders, RollbackPayed(o)
      PROVE  StagesAreOrdered'
  <2>1. \A p \in Orders \ {o} : /\ order'[p] = order[p] /\ status'[p] = status[p]
                                /\ paid'[p] = paid[p] /\ refund'[p] = refund[p]
                                /\ delivered'[p] = delivered[p]
    BY <1>11 DEF TypeOK, RollbackPayed, Fault, goodsVars, moneyVars, orderVars
  <2>2. now' = now
    BY <1>11 DEF RollbackPayed, Fault, goodsVars, moneyVars, orderVars
  <2>3. Ordered(o)'
    BY <1>11 DEF TypeOK, StagesAreOrdered, Ordered, RollbackPayed, Fault, goodsVars,
       moneyVars, orderVars
  <2> QED
    BY <2>1, <2>2, <2>3 DEF StagesAreOrdered, Ordered
<1>12. ASSUME NEW o \in Orders, NEW S \in SUBSET Courses, NEW fen \in Amounts,
              OrderRefund(o, S, fen)
      PROVE  StagesAreOrdered'
  <2>1. \A p \in Orders \ {o} : /\ order'[p] = order[p] /\ status'[p] = status[p]
                                /\ paid'[p] = paid[p] /\ refund'[p] = refund[p]
                                /\ delivered'[p] = delivered[p]
    BY <1>12 DEF TypeOK, OrderRefund, goodsVars, moneyVars, orderVars
  <2>2. now' = now
    BY <1>12 DEF OrderRefund, goodsVars, moneyVars, orderVars
  <2>3. Ordered(o)'
    BY <1>12 DEF TypeOK, StagesAreOrdered, Ordered, OrderRefund, goodsVars, moneyVars,
       orderVars
  <2> QED
    BY <2>1, <2>2, <2>3 DEF StagesAreOrdered, Ordered
<1>13. ASSUME NEW o \in Orders, RefundStep(o)
      PROVE  StagesAreOrdered'
  BY <1>13, RefundMoves DEF StagesAreOrdered, Ordered, TypeOK
<1>14. ASSUME NEW o \in Orders, StopOrder(o)
      PROVE  StagesAreOrdered'
  <2>1. \A p \in Orders \ {o} : /\ order'[p] = order[p] /\ status'[p] = status[p]
                                /\ paid'[p] = paid[p] /\ refund'[p] = refund[p]
                                /\ delivered'[p] = delivered[p]
    BY <1>14 DEF TypeOK, StopOrder, Fault, goodsVars, moneyVars, orderVars
  <2>2. now' = now
    BY <1>14 DEF StopOrder, Fault, goodsVars, moneyVars, orderVars
  <2>3. Ordered(o)'
    BY <1>14 DEF TypeOK, StagesAreOrdered, Ordered, StopOrder, Fault, goodsVars,
       moneyVars, orderVars
  <2> QED
    BY <2>1, <2>2, <2>3 DEF StagesAreOrdered, Ordered
<1>15. ASSUME Tick
      PROVE  StagesAreOrdered'
  BY <1>15 DEF TypeOK, StagesAreOrdered, Ordered, Tick, goodsVars, moneyVars, orderVars
<1>16. CASE UNCHANGED vars
  BY <1>16 DEF StagesAreOrdered, Ordered, vars, goodsVars, moneyVars, orderVars
<1> QED
  BY <1>1, <1>2, <1>3, <1>4, <1>5, <1>6, <1>7, <1>8, <1>9, <1>10, <1>11, <1>12, <1>13,
     <1>14, <1>15, <1>16 DEF Next, RefundStep

(* Every variable keeps its type: the copies of courses in quotes and      *)
(* orders are whole offers, and the amounts are sums of prices of offers.  *)
THEOREM TypeCorrect == Spec => []TypeOK
<1>1. Init => SaleInv
  BY InitInv DEF AccessInv
<1>2. SaleInv /\ [Next]_vars => SaleInv'
  BY TypeStep, QuoteStep, StageStep, SoldStep DEF SaleInv
<1>3. SaleInv => TypeOK
  BY DEF SaleInv
<1> QED
  BY <1>1, <1>2, <1>3, PTL DEF Spec

(* Whatever is updated meanwhile, an order is made of what was on sale at  *)
(* one moment, at most CalcTime + QuoteTime before (OrderCalcFee,          *)
(* OrderPayNow).                                                           *)
THEOREM OrdersAreOfOneMoment == Spec => []SoldAsQuoted
<1>1. Init => SaleInv
  BY InitInv DEF AccessInv
<1>2. SaleInv /\ [Next]_vars => SaleInv'
  BY TypeStep, QuoteStep, StageStep, SoldStep DEF SaleInv
<1>3. SaleInv => SoldAsQuoted
  BY DEF SaleInv, OrdersAreSold, Sold, CopiedAt, SoldAsQuoted
<1> QED
  BY <1>1, <1>2, <1>3, PTL DEF Spec

-----------------------------------------------------------------------------
LEMMA RowsStep ==
  TypeOK /\ StagesAreOrdered /\ RowsAreOwed /\ OwedHasRow /\ [Next]_vars
    => (RowsAreOwed /\ OwedHasRow)'
<1> SUFFICES ASSUME TypeOK, StagesAreOrdered, RowsAreOwed, OwedHasRow, [Next]_vars
               PROVE  (RowsAreOwed /\ OwedHasRow)'
  OBVIOUS
<1>1. ASSUME NEW c \in Courses, NEW p \in Prices \cup {0}, NEW t \in Terms \cup {0},
             UpdateCourse(c, [price |-> p, term |-> t])
      PROVE  (RowsAreOwed /\ OwedHasRow)'
  BY <1>1 DEF RowsAreOwed, OwedHasRow, Revoked, Answered, UpdateCourse, goodsVars, moneyVars,
     orderVars
<1>2. ASSUME NEW q \in Quotes, NEW S \in SUBSET Courses, GetCourseInfoByIds(q, S)
      PROVE  (RowsAreOwed /\ OwedHasRow)'
  BY <1>2 DEF RowsAreOwed, OwedHasRow, Revoked, Answered, GetCourseInfoByIds, goodsVars,
     moneyVars, orderVars
<1>3. ASSUME NEW q \in Quotes, SetOrderCalcFee(q)
      PROVE  (RowsAreOwed /\ OwedHasRow)'
  BY <1>3 DEF RowsAreOwed, OwedHasRow, Revoked, Answered, SetOrderCalcFee, goodsVars, moneyVars,
     orderVars
<1>4. ASSUME NEW q \in Quotes, StopQuote(q)
      PROVE  (RowsAreOwed /\ OwedHasRow)'
  BY <1>4 DEF RowsAreOwed, OwedHasRow, Revoked, Answered, StopQuote, Fault, goodsVars,
     moneyVars, orderVars
<1>5. ASSUME NEW o \in Orders, NEW u \in Customers, NEW q \in Quotes,
             GetOrderCalcFee(o, u, q)
      PROVE  (RowsAreOwed /\ OwedHasRow)'
  <2>1. /\ UNCHANGED <<rows, delivered, refund>>
        /\ \A p \in Orders \ {o} : order'[p] = order[p]
        /\ order[o].pc = "Idle"
    BY <1>5 DEF TypeOK, GetOrderCalcFee, Buy, goodsVars, moneyVars, orderVars
  <2>2. delivered[o] = None
    BY <2>1 DEF StagesAreOrdered, Ordered
  <2>3. \A row \in rows : row.order # o
    BY <2>2 DEF RowsAreOwed
  <2> QED
    BY <2>1, <2>2, <2>3 DEF RowsAreOwed, OwedHasRow, Revoked, Answered, TypeOK
<1>6. ASSUME NEW o \in Orders, CreateOrder(o)
      PROVE  (RowsAreOwed /\ OwedHasRow)'
  <2>1. /\ \A p \in Orders : order'[p].user = order[p].user /\ order'[p].items = order[p].items
        /\ UNCHANGED <<rows, delivered, refund>>
    BY <1>6 DEF TypeOK, CreateOrder, goodsVars, moneyVars, orderVars
  <2> QED
    BY <2>1 DEF RowsAreOwed, OwedHasRow, Revoked, Answered, TypeOK
<1>7. ASSUME NEW o \in Orders, PagePrePayOrder(o)
      PROVE  (RowsAreOwed /\ OwedHasRow)'
  <2>1. /\ \A p \in Orders : order'[p].user = order[p].user /\ order'[p].items = order[p].items
        /\ UNCHANGED <<rows, delivered, refund>>
    BY <1>7 DEF TypeOK, PagePrePayOrder, goodsVars, moneyVars, orderVars
  <2> QED
    BY <2>1 DEF RowsAreOwed, OwedHasRow, Revoked, Answered, TypeOK
<1>8. ASSUME NEW o \in Orders, Pay(o)
      PROVE  (RowsAreOwed /\ OwedHasRow)'
  BY <1>8 DEF RowsAreOwed, OwedHasRow, Revoked, Answered, Pay, goodsVars, moneyVars, orderVars
<1>9. ASSUME NEW o \in Orders, UserBenefitPackage(o)
      PROVE  (RowsAreOwed /\ OwedHasRow)'
  <2> DEFINE items == order[o].items
             Row(c) == [user |-> order[o].user, order |-> o, goods |-> c,
                        expires |-> now + items[c].term]
  <2>1. /\ order[o].pc = "Poll"
        /\ rows' = rows \cup {Row(c) : c \in DOMAIN items}
        /\ delivered' = [delivered EXCEPT ![o] = now]
        /\ refund' = refund
        /\ \A p \in Orders : order'[p].user = order[p].user /\ order'[p].items = order[p].items
    BY <1>9 DEF TypeOK, UserBenefitPackage, goodsVars, moneyVars, orderVars
  <2>2. refund[o].pc = "None" /\ now \in Nat /\ now # None
    BY <2>1, PurchaseAssumption DEF StagesAreOrdered, Ordered, TypeOK
  <2>3. RowsAreOwed'
    <3> SUFFICES ASSUME NEW row \in rows'
                 PROVE  /\ row.user = order[row.order].user
                        /\ row.goods \in DOMAIN order[row.order].items
                        /\ row.order \in Orders
                        /\ delivered'[row.order] # None
                        /\ row.expires <= delivered'[row.order] + order[row.order].items[row.goods].term
                        /\ ~ Revoked(row.order, row.goods)
      BY <2>1 DEF RowsAreOwed, Revoked
    <3>1. CASE row \in rows /\ row.order = o
      <4>1. /\ items \in Copies /\ row.goods \in DOMAIN items
            /\ row.expires <= delivered[o] + items[row.goods].term
            /\ delivered[o] \in Nat /\ delivered[o] <= now /\ row.expires \in Nat
        BY <3>1 DEF RowsAreOwed, StagesAreOrdered, Ordered, TypeOK
      <4>2. items[row.goods].term \in Nat
        BY <4>1, TermIsNat
      <4>3. row.expires <= now + items[row.goods].term
        BY <4>1, <4>2, <2>2
      <4> QED
        BY <2>1, <2>2, <3>1, <4>3 DEF RowsAreOwed, TypeOK
    <3>2. CASE row \in rows /\ row.order # o
      BY <2>1, <3>2 DEF RowsAreOwed, TypeOK
    <3>3. ASSUME NEW c \in DOMAIN items, row = Row(c)
          PROVE  /\ row.user = order[row.order].user
                 /\ row.goods \in DOMAIN order[row.order].items
                 /\ row.order \in Orders
                 /\ delivered'[row.order] # None
                 /\ row.expires <= delivered'[row.order] + order[row.order].items[row.goods].term
                 /\ ~ Revoked(row.order, row.goods)
      <4>1. items[c].term \in Nat /\ now + items[c].term <= now + items[c].term
        BY TermIsNat, <2>2 DEF TypeOK
      <4>2. /\ row.order = o
            /\ row.goods = c
            /\ row.user = order[o].user
            /\ row.expires = now + items[c].term
        BY <3>3
      <4>3. delivered'[o] = now /\ ~ Revoked(o, c)
        BY <2>1, <2>2 DEF TypeOK, Revoked
      <4> QED
        BY <2>2, <4>1, <4>2, <4>3
    <3> QED
      BY <2>1, <3>1, <3>2, <3>3
  <2>4. OwedHasRow'
    <3> SUFFICES ASSUME NEW p \in Orders, delivered'[p] # None,
                        NEW c \in DOMAIN order[p].items, ~ Answered(p, c)
                 PROVE  [user |-> order[p].user, order |-> p, goods |-> c,
                         expires |-> delivered'[p] + order[p].items[c].term] \in rows'
      BY <2>1 DEF OwedHasRow, Answered
    <3>1. CASE p = o
      <4>1. delivered'[o] = now
        BY <2>1 DEF TypeOK
      <4> QED
        BY <2>1, <3>1, <4>1
    <3>2. CASE p # o
      BY <2>1, <3>2 DEF OwedHasRow, TypeOK
    <3> QED
      BY <3>1, <3>2
  <2> QED
    BY <2>3, <2>4
<1>10. ASSUME NEW o \in Orders, CommitPayed(o)
      PROVE  (RowsAreOwed /\ OwedHasRow)'
  <2>1. /\ \A p \in Orders : order'[p].user = order[p].user /\ order'[p].items = order[p].items
        /\ UNCHANGED <<rows, delivered, refund>>
    BY <1>10 DEF TypeOK, CommitPayed, goodsVars, moneyVars, orderVars
  <2> QED
    BY <2>1 DEF RowsAreOwed, OwedHasRow, Revoked, Answered, TypeOK
<1>11. ASSUME NEW o \in Orders, RollbackPayed(o)
      PROVE  (RowsAreOwed /\ OwedHasRow)'
  <2>1. /\ \A p \in Orders : order'[p].user = order[p].user /\ order'[p].items = order[p].items
        /\ UNCHANGED <<rows, delivered, refund>>
    BY <1>11 DEF TypeOK, RollbackPayed, Fault, goodsVars, moneyVars, orderVars
  <2> QED
    BY <2>1 DEF RowsAreOwed, OwedHasRow, Revoked, Answered, TypeOK
<1>12. ASSUME NEW o \in Orders, NEW S \in SUBSET Courses, NEW fen \in Amounts,
              OrderRefund(o, S, fen)
      PROVE  (RowsAreOwed /\ OwedHasRow)'
  <2>1. /\ UNCHANGED <<rows, delivered, order>>
        /\ refund[o].pc = "None" /\ refund'[o].pc = "Processing"
        /\ refund[o].answer = "None"
        /\ \A p \in Orders \ {o} : refund'[p] = refund[p]
    BY <1>12 DEF TypeOK, OrderRefund, StagesAreOrdered, Ordered, goodsVars, moneyVars,
       orderVars
  <2>2. RowsAreOwed'
    <3> SUFFICES ASSUME NEW row \in rows
                 PROVE  ~ Revoked(row.order, row.goods)'
      BY <2>1 DEF RowsAreOwed
    <3>1. row.order \in Orders /\ row.goods \in Courses /\ ~ Revoked(row.order, row.goods)
      BY DEF RowsAreOwed, TypeOK
    <3> QED
      BY <2>1, <3>1 DEF Revoked
  <2>3. OwedHasRow'
    <3> SUFFICES ASSUME NEW p \in Orders, delivered[p] # None,
                        NEW c \in DOMAIN order[p].items, ~ Answered(p, c)'
                 PROVE  [user |-> order[p].user, order |-> p, goods |-> c,
                         expires |-> delivered[p] + order[p].items[c].term] \in rows
      BY <2>1 DEF OwedHasRow
    <3>1. ~ Answered(p, c)
      BY <2>1 DEF Answered
    <3> QED
      BY <3>1 DEF OwedHasRow
  <2> QED
    BY <2>2, <2>3
<1>13. ASSUME NEW o \in Orders, RefundDeliveryFun(o)
      PROVE  (RowsAreOwed /\ OwedHasRow)'
  <2>1. /\ UNCHANGED <<delivered, order>>
        /\ rows' = rows \ RefundedRows(o)
        /\ refund'[o].items = refund[o].items /\ refund'[o].answer = refund[o].answer
        /\ refund[o].answer # "None"
        /\ \A p \in Orders \ {o} : refund'[p] = refund[p]
    BY <1>13 DEF TypeOK, RefundDeliveryFun
  <2>2. RowsAreOwed'
    <3> SUFFICES ASSUME NEW row \in rows'
                 PROVE  ~ Revoked(row.order, row.goods)'
      BY <2>1 DEF RowsAreOwed
    <3>1. row \in rows /\ row.order \in Orders /\ row.user = order[row.order].user
      BY <2>1 DEF RowsAreOwed, TypeOK
    <3>2. row.order = o => row.goods \notin refund[o].items
      BY <2>1, <3>1 DEF RefundedRows
    <3> QED
      BY <2>1, <3>1, <3>2 DEF RowsAreOwed, Revoked
  <2>3. OwedHasRow'
    <3> SUFFICES ASSUME NEW p \in Orders, delivered[p] # None,
                        NEW c \in DOMAIN order[p].items, ~ Answered(p, c)'
                 PROVE  [user |-> order[p].user, order |-> p, goods |-> c,
                         expires |-> delivered[p] + order[p].items[c].term] \in rows'
      BY <2>1 DEF OwedHasRow
    <3>1. ~ Answered(p, c) /\ (p = o => c \notin refund[o].items)
      BY <2>1 DEF Answered
    <3> DEFINE row == [user |-> order[p].user, order |-> p, goods |-> c,
                       expires |-> delivered[p] + order[p].items[c].term]
    <3>2. row \in rows
      BY <3>1 DEF OwedHasRow
    <3>3. row \notin RefundedRows(o)
      BY <3>1 DEF RefundedRows
    <3> QED
      BY <2>1, <3>2, <3>3
  <2> QED
    BY <2>2, <2>3
<1>17. ASSUME NEW o \in Orders,
              \/ \E answer \in {"Done", "Failed"} : AnswerRefund(o, answer)
              \/ UpdateOrderRefundResult(o) \/ RollbackRefundResult(o)
       PROVE  (RowsAreOwed /\ OwedHasRow)'
  <2>1. /\ UNCHANGED <<delivered, order, rows>>
        /\ refund'[o].items = refund[o].items
        /\ refund'[o].pc \in {"Revoked", "Closed"} => refund[o].pc = "Revoked"
        /\ refund[o].answer # "None" => refund'[o].answer # "None"
        /\ \A p \in Orders \ {o} : refund'[p] = refund[p]
    BY <1>17 DEF TypeOK, AnswerRefund, UpdateOrderRefundResult, RollbackRefundResult
  <2>2. RowsAreOwed'
    <3> SUFFICES ASSUME NEW row \in rows
                 PROVE  ~ Revoked(row.order, row.goods)'
      BY <2>1 DEF RowsAreOwed
    <3>1. row.order \in Orders /\ row.goods \in Courses /\ ~ Revoked(row.order, row.goods)
      BY DEF RowsAreOwed, TypeOK
    <3> QED
      BY <2>1, <3>1 DEF Revoked
  <2>3. OwedHasRow'
    <3> SUFFICES ASSUME NEW p \in Orders, delivered[p] # None,
                        NEW c \in DOMAIN order[p].items, ~ Answered(p, c)'
                 PROVE  [user |-> order[p].user, order |-> p, goods |-> c,
                         expires |-> delivered[p] + order[p].items[c].term] \in rows
      BY <2>1 DEF OwedHasRow
    <3>1. ~ Answered(p, c)
      BY <2>1 DEF Answered
    <3> QED
      BY <3>1 DEF OwedHasRow
  <2> QED
    BY <2>2, <2>3
<1>14. ASSUME NEW o \in Orders, StopOrder(o)
      PROVE  (RowsAreOwed /\ OwedHasRow)'
  <2>1. /\ \A p \in Orders : order'[p].user = order[p].user /\ order'[p].items = order[p].items
        /\ UNCHANGED <<rows, delivered, refund>>
    BY <1>14 DEF TypeOK, StopOrder, Fault, goodsVars, moneyVars, orderVars
  <2> QED
    BY <2>1 DEF RowsAreOwed, OwedHasRow, Revoked, Answered, TypeOK
<1>15. ASSUME Tick
      PROVE  (RowsAreOwed /\ OwedHasRow)'
  BY <1>15 DEF RowsAreOwed, OwedHasRow, Revoked, Answered, Tick, goodsVars, moneyVars, orderVars
<1>16. CASE UNCHANGED vars
  BY <1>16 DEF RowsAreOwed, OwedHasRow, Revoked, Answered, vars, goodsVars, moneyVars, orderVars
<1> QED
  BY <1>1, <1>2, <1>3, <1>4, <1>5, <1>6, <1>7, <1>8, <1>9, <1>10, <1>11, <1>12, <1>13,
     <1>14, <1>15, <1>16, <1>17 DEF Next

(* An invariant of rows is what can be learned.                            *)
LEMMA AccessFollows == AccessInv => AccessIsBought
<1> SUFFICES ASSUME AccessInv, NEW u \in Customers, NEW c \in Courses
             PROVE  /\ HasValidUserCourse(u, c) =>
                         \E o \in Orders : /\ Entitles(o, u, c)
                                           /\ ~(refund[o].pc = "Closed" /\ c \in refund[o].items)
                    /\ \A o \in Orders :
                         /\ Entitles(o, u, c)
                         /\ ~(refund[o].answer # "None" /\ c \in refund[o].items)
                         => HasValidUserCourse(u, c)
  BY DEF AccessIsBought
<1> USE DEF AccessInv, SaleInv
<1>1. ASSUME HasValidUserCourse(u, c)
      PROVE  \E o \in Orders : /\ Entitles(o, u, c)
                               /\ ~(refund[o].pc = "Closed" /\ c \in refund[o].items)
  <2>1. PICK row \in rows : row.user = u /\ row.goods = c /\ row.expires >= now
    BY <1>1 DEF HasValidUserCourse
  <2> DEFINE o == row.order
  <2>2. /\ o \in Orders /\ row.expires \in Nat /\ now \in Nat /\ order[o].items \in Copies
        /\ delivered[o] \in Nat \cup {None}
    BY DEF TypeOK
  <2>3. /\ order[o].user = u /\ c \in DOMAIN order[o].items /\ delivered[o] # None
        /\ row.expires <= delivered[o] + order[o].items[c].term
        /\ ~ Revoked(o, c)
    BY <2>1 DEF RowsAreOwed
  <2>4. paid[o]
    BY <2>2, <2>3 DEF StagesAreOrdered, Ordered
  <2>5. order[o].items[c].term \in Nat
    BY <2>2, <2>3, TermIsNat
  <2>6. delivered[o] + order[o].items[c].term >= now
    BY <2>1, <2>2, <2>3, <2>5
  <2> QED
    BY <2>2, <2>3, <2>4, <2>6 DEF Entitles, Revoked
<1>2. ASSUME NEW o \in Orders, Entitles(o, u, c), ~ Answered(o, c)
      PROVE  HasValidUserCourse(u, c)
  <2> DEFINE row == [user |-> u, order |-> o, goods |-> c,
                     expires |-> delivered[o] + order[o].items[c].term]
  <2>1. row \in rows
    BY <1>2 DEF OwedHasRow, Entitles
  <2>2. row.user = u /\ row.goods = c /\ row.expires >= now
    BY <1>2 DEF Entitles
  <2> QED
    BY <2>1, <2>2 DEF HasValidUserCourse
<1> QED
  BY <1>1, <1>2 DEF Answered

(* Deliveries that are repeated, refunds of some courses of an order and   *)
(* commits that fail after the courses were taken leave a customer what    *)
(* the customer's orders still entitle to (userBenefitPackage,             *)
(* DeleteUserCourse, UpdateOrderRefundResult, HasValidUserCourse).         *)
THEOREM AccessIsAlwaysBought == Spec => []AccessIsBought
<1>1. Init => AccessInv
  BY InitInv
<1>2. AccessInv /\ [Next]_vars => AccessInv'
  BY TypeStep, QuoteStep, StageStep, SoldStep, RowsStep DEF AccessInv, SaleInv
<1>3. AccessInv => AccessIsBought
  BY AccessFollows
<1> QED
  BY <1>1, <1>2, <1>3, PTL DEF Spec

-----------------------------------------------------------------------------
(* Where a request stands, its order stands: until the row is inserted     *)
(* there is no trade that could be paid, and what is about to become Payed *)
(* is paid for and delivered.                                              *)
Placed(o) ==
  /\ order[o].pc \in {"Idle", "Create"} => status[o] = "Absent"
  /\ order[o].pc \in {"PrePay", "Poll", "Commit"} => status[o] = "WaitPay"
  /\ order[o].pc = "Commit" => paid[o] /\ delivered[o] # None
  /\ trade[o] # None => status[o] # "Absent"

OrdersArePlaced == \A o \in Orders : Placed(o)

(* What a step of one order leaves of the others.                          *)
OthersStay(o) ==
  \A p \in Orders \ {o} :
    /\ order'[p] = order[p] /\ status'[p] = status[p] /\ paid'[p] = paid[p]
    /\ trade'[p] = trade[p] /\ delivered'[p] = delivered[p]

(* The steps of the courses and of the quotes, the request of a refund and  *)
(* the clock leave an order what it is; every other step is one of an order. *)
LEMMA OrderSteps ==
  ASSUME [Next]_vars
  PROVE  \/ UNCHANGED <<order, status, paid, trade, delivered>>
         \/ \E o \in Orders :
              \/ \E u \in Customers, q \in Quotes : GetOrderCalcFee(o, u, q)
              \/ CreateOrder(o) \/ PagePrePayOrder(o) \/ Pay(o) \/ UserBenefitPackage(o)
              \/ CommitPayed(o) \/ RollbackPayed(o) \/ StopOrder(o) \/ RefundStep(o)
<1> DEFINE Same == UNCHANGED <<order, status, paid, trade, delivered>>
<1> USE DEF orderVars, moneyVars
<1>1. ASSUME UNCHANGED vars PROVE Same
  BY <1>1 DEF vars
<1>2. ASSUME NEW c \in Courses, NEW p \in Prices \cup {0}, NEW t \in Terms \cup {0},
             UpdateCourse(c, [price |-> p, term |-> t])
      PROVE  Same
  BY <1>2 DEF UpdateCourse
<1>3. ASSUME NEW q \in Quotes,
             \/ \E S \in SUBSET Courses : GetCourseInfoByIds(q, S)
             \/ SetOrderCalcFee(q) \/ StopQuote(q)
      PROVE  Same
  BY <1>3 DEF GetCourseInfoByIds, SetOrderCalcFee, StopQuote
<1>4. ASSUME NEW o \in Orders,
             \E S \in SUBSET Courses, fen \in Amounts : OrderRefund(o, S, fen)
      PROVE  Same
  BY <1>4 DEF OrderRefund
<1>5. ASSUME Tick PROVE Same
  BY <1>5 DEF Tick
<1> HIDE DEF Same
<1>6. Next => \/ Same
              \/ \E o \in Orders :
                   \/ \E u \in Customers, q \in Quotes : GetOrderCalcFee(o, u, q)
                   \/ CreateOrder(o) \/ PagePrePayOrder(o) \/ Pay(o)
                   \/ UserBenefitPackage(o) \/ CommitPayed(o) \/ RollbackPayed(o)
                   \/ StopOrder(o) \/ RefundStep(o)
  BY <1>2, <1>3, <1>4, <1>5 DEF Next, RefundStep
<1> QED
  BY <1>1, <1>6 DEF Same

LEMMA PlacedStep ==
  TypeOK /\ StagesAreOrdered /\ OrdersArePlaced /\ [Next]_vars => OrdersArePlaced'
<1> SUFFICES ASSUME TypeOK, StagesAreOrdered, OrdersArePlaced, [Next]_vars
               PROVE  OrdersArePlaced'
  OBVIOUS
<1>1. ASSUME UNCHANGED <<order, status, paid, trade, delivered>>
      PROVE  OrdersArePlaced'
  BY <1>1 DEF OrdersArePlaced, Placed
<1>2. ASSUME NEW o \in Orders, OthersStay(o), Placed(o)'
      PROVE  OrdersArePlaced'
  BY <1>2 DEF OrdersArePlaced, Placed, OthersStay
<1>3. ASSUME NEW o \in Orders, NEW u \in Customers, NEW q \in Quotes,
             GetOrderCalcFee(o, u, q)
      PROVE  OrdersArePlaced'
  <2>1. OthersStay(o)
    BY <1>3 DEF GetOrderCalcFee, Buy, OthersStay, TypeOK
  <2>2. Placed(o)'
    BY <1>3 DEF GetOrderCalcFee, Buy, OrdersArePlaced, Placed, TypeOK
  <2> QED
    BY <1>2, <2>1, <2>2
<1>4. ASSUME NEW o \in Orders, CreateOrder(o)
      PROVE  OrdersArePlaced'
  <2>1. OthersStay(o)
    BY <1>4 DEF CreateOrder, OthersStay, moneyVars, TypeOK
  <2>2. Placed(o)'
    BY <1>4 DEF CreateOrder, OrdersArePlaced, Placed, moneyVars, TypeOK
  <2> QED
    BY <1>2, <2>1, <2>2
<1>5. ASSUME NEW o \in Orders, PagePrePayOrder(o)
      PROVE  OrdersArePlaced'
  <2>1. OthersStay(o)
    BY <1>5 DEF PagePrePayOrder, OthersStay, TypeOK
  <2>2. Placed(o)'
    BY <1>5 DEF PagePrePayOrder, OrdersArePlaced, Placed, TypeOK
  <2> QED
    BY <1>2, <2>1, <2>2
<1>6. ASSUME NEW o \in Orders, Pay(o)
      PROVE  OrdersArePlaced'
  <2>1. OthersStay(o)
    BY <1>6 DEF Pay, OthersStay, moneyVars, TypeOK
  <2>2. Placed(o)'
    BY <1>6 DEF Pay, OrdersArePlaced, Placed, moneyVars, TypeOK
  <2> QED
    BY <1>2, <2>1, <2>2
<1>7. ASSUME NEW o \in Orders, UserBenefitPackage(o)
      PROVE  OrdersArePlaced'
  <2>1. OthersStay(o)
    BY <1>7 DEF UserBenefitPackage, OthersStay, moneyVars, TypeOK
  <2>2. now # None
    BY PurchaseAssumption DEF TypeOK
  <2>3. Placed(o)'
    BY <1>7, <2>2 DEF UserBenefitPackage, IsPayed, OrdersArePlaced, Placed, moneyVars, TypeOK
  <2> QED
    BY <1>2, <2>1, <2>3
<1>8. ASSUME NEW o \in Orders, CommitPayed(o)
      PROVE  OrdersArePlaced'
  <2>1. OthersStay(o)
    BY <1>8 DEF CommitPayed, OthersStay, moneyVars, TypeOK
  <2>2. Placed(o)'
    BY <1>8 DEF CommitPayed, OrdersArePlaced, Placed, moneyVars, TypeOK
  <2> QED
    BY <1>2, <2>1, <2>2
<1>9. ASSUME NEW o \in Orders, RollbackPayed(o) \/ StopOrder(o)
      PROVE  OrdersArePlaced'
  <2>1. OthersStay(o)
    BY <1>9 DEF RollbackPayed, StopOrder, OthersStay, moneyVars, TypeOK
  <2>2. Placed(o)'
    BY <1>9 DEF RollbackPayed, StopOrder, OrdersArePlaced, Placed, moneyVars, TypeOK
  <2> QED
    BY <1>2, <2>1, <2>2
<1>10. ASSUME NEW o \in Orders, RefundStep(o)
      PROVE  OrdersArePlaced'
  <2>1. /\ UNCHANGED <<order, paid, trade, delivered>>
        /\ status' = status \/ status' = [status EXCEPT ![o] = "Refund"]
        /\ refund[o].pc # "None"
    BY <1>10, RefundMoves DEF moneyVars
  <2>2. OthersStay(o)
    BY <2>1 DEF OthersStay, TypeOK
  <2>3. order[o].pc = "Done" /\ status'[o] # "Absent"
    BY <2>1 DEF StagesAreOrdered, Ordered, TypeOK
  <2>4. Placed(o)'
    BY <2>1, <2>3 DEF Placed
  <2> QED
    BY <1>2, <2>2, <2>4
<1> QED
  BY <1>1, <1>3, <1>4, <1>5, <1>6, <1>7, <1>8, <1>9, <1>10, OrderSteps

LEMMA PurchaseContractStep ==
  ASSUME TypeOK, StagesAreOrdered, OrdersArePlaced, [Next]_vars
  PROVE  [Contract!Next]_(Contract!vars)
<1> DEFINE State(o) == IF status[o] = "Refund" THEN "Payed" ELSE status[o]
           Goods(o) == IF status[o] \in {"Payed", "Refund"} /\ delivered[o] # None THEN 1 ELSE 0
<1> USE DEF Contract!vars
<1>1. ASSUME NEW o \in Orders, CreateOrder(o)
      PROVE  [Contract!Next]_(Contract!vars)
  <2>1. /\ status[o] = "Absent" /\ status' = [status EXCEPT ![o] = "WaitPay"]
        /\ UNCHANGED <<paid, delivered>>
    BY <1>1 DEF CreateOrder, OrdersArePlaced, Placed
  <2>2. /\ \A p \in Orders : Goods(p)' = Goods(p)
        /\ State(o) = "Absent"
        /\ [p \in Orders |-> State(p)]' = [[p \in Orders |-> State(p)] EXCEPT ![o] = "WaitPay"]
    BY <2>1 DEF TypeOK
  <2>3. Contract!Place(o)
    BY <2>1, <2>2 DEF Contract!Place
  <2> QED
    BY <2>3 DEF Contract!Next
<1>2. ASSUME NEW o \in Orders, Pay(o)
      PROVE  [Contract!Next]_(Contract!vars)
  <2>1. /\ status[o] # "Absent" /\ ~ paid[o]
        /\ paid' = [paid EXCEPT ![o] = TRUE]
        /\ UNCHANGED <<status, delivered>>
    BY <1>2 DEF Pay, OrdersArePlaced, Placed
  <2>2. Contract!Pay(o)
    BY <2>1 DEF Contract!Pay
  <2> QED
    BY <2>2 DEF Contract!Next
<1>3. ASSUME NEW o \in Orders, CommitPayed(o)
      PROVE  [Contract!Next]_(Contract!vars)
  <2>1. /\ status[o] = "WaitPay" /\ paid[o] /\ delivered[o] # None
        /\ status' = [status EXCEPT ![o] = "Payed"]
        /\ UNCHANGED <<paid, delivered>>
    BY <1>3 DEF CommitPayed, OrdersArePlaced, Placed
  <2>2. /\ \A p \in Orders : Goods(p)' = IF p = o THEN 1 ELSE Goods(p)
        /\ State(o) = "WaitPay"
        /\ [p \in Orders |-> State(p)]' = [[p \in Orders |-> State(p)] EXCEPT ![o] = "Payed"]
    BY <2>1 DEF TypeOK
  <2>3. Contract!Deliver(o)
    BY <2>1, <2>2 DEF Contract!Deliver
  <2> QED
    BY <2>3 DEF Contract!Next
<1>4. ASSUME NEW o \in Orders, UserBenefitPackage(o)
      PROVE  UNCHANGED Contract!vars
  <2>1. /\ status[o] = "WaitPay" /\ UNCHANGED <<status, paid>>
        /\ \A p \in Orders \ {o} : delivered'[p] = delivered[p]
    BY <1>4 DEF UserBenefitPackage, OrdersArePlaced, Placed, TypeOK
  <2>2. \A p \in Orders : Goods(p)' = Goods(p)
    BY <2>1
  <2> QED
    BY <2>1, <2>2
<1>5. ASSUME UNCHANGED <<status, paid, delivered>>
      PROVE  UNCHANGED Contract!vars
  BY <1>5
<1>6. ASSUME NEW o \in Orders,
             \/ \E u \in Customers, q \in Quotes : GetOrderCalcFee(o, u, q)
             \/ PagePrePayOrder(o) \/ RollbackPayed(o) \/ StopOrder(o)
      PROVE  UNCHANGED <<status, paid, delivered>>
  BY <1>6 DEF GetOrderCalcFee, Buy, PagePrePayOrder, RollbackPayed, StopOrder, moneyVars
<1>7. ASSUME NEW o \in Orders, RefundStep(o)
      PROVE  UNCHANGED Contract!vars
  <2>1. /\ UNCHANGED <<paid, delivered>>
        /\ status' = status \/ status' = [status EXCEPT ![o] = "Refund"]
        /\ status[o] \in {"Payed", "Refund"}
    BY <1>7, RefundMoves DEF StagesAreOrdered, Ordered
  <2>2. \A p \in Orders : State(p)' = State(p) /\ Goods(p)' = Goods(p)
    BY <2>1 DEF TypeOK
  <2> QED
    BY <2>1, <2>2
<1> QED
  BY <1>1, <1>2, <1>3, <1>4, <1>5, <1>6, <1>7, OrderSteps

(* However calls fail and deliveries are repeated, an order of a quote is  *)
(* placed, paid for and delivered as OrderContract says: Payed only for    *)
(* the money of Alipay, with its courses delivered, and for good.          *)
THEOREM ContractIsKept == Spec => PurchaseKeepsContract
<1>1. Init => OrdersArePlaced /\ Contract!Init
  BY DEF Init, OrdersArePlaced, Placed, Contract!Init
<1>2. TypeOK /\ StagesAreOrdered /\ OrdersArePlaced /\ [Next]_vars
        => [Contract!Next]_(Contract!vars)
  BY PurchaseContractStep
<1>3. Init => StagesAreOrdered
  BY InitInv DEF AccessInv, SaleInv
<1> QED
  BY <1>1, <1>2, <1>3, StageStep, PlacedStep, TypeCorrect, PTL
     DEF Spec, PurchaseKeepsContract, Contract!Spec

-----------------------------------------------------------------------------
(* The transactions of UpdateCatalogSort.                                  *)

(* An arrangement is of items that were there once; nothing is written     *)
(* before its transaction begins.                                          *)
ListsAreKnown ==
  \A r \in Requests :
    /\ At(r, "Sort") => /\ written[r] <= Len(list[r])
                        /\ \A k \in 1 .. Len(list[r]) : list[r][k].item \in Known(Items)
    /\ pc[r] \notin {"Sort", "Done"} => written[r] = 0

(* No row is locked by two transactions.                                   *)
LocksExclude == \A r, s \in Requests : r # s => Locked(r) \cap Locked(s) = {}

(* What a transaction has written still stands.                            *)
WrittenStands ==
  \A r \in Requests : At(r, "Sort") =>
    \A k \in Final(list[r], written[r]) :
      LET i == list[r][k].item
      IN  presence[i] = "Here" => /\ sort[i] = list[r][k].sort
                                  /\ i \in Entries => parent[i] = list[r][k].under

LocksInv == CatalogTypeOK /\ ListsAreKnown /\ LocksExclude /\ WrittenStands

(* Positions and parents, as others see them, stay as they are.            *)
SameView(S) == \A i \in S : Sort(i)' = Sort(i) /\ Parent(i)' = Parent(i)

-----------------------------------------------------------------------------
(* The rows of AddCatalogLesson have ids in the order of the lessons.      *)
Numbered(r, new, index) ==
  /\ presence' = [i \in Items |-> IF i \in new THEN "Here" ELSE presence[i]]
  /\ parent' = [i \in Items |-> IF i \in new THEN target[r] ELSE parent[i]]
  /\ sort' = [i \in Items |-> IF i \in new THEN top[r] + index[i] ELSE sort[i]]
  /\ lesson' = [i \in Rows |-> IF i \in new THEN picks[r][index[i]] ELSE lesson[i]]
  /\ older' = [i \in Items |->
                 IF i \in new THEN ahead[r] \cup {j \in new : j < i} ELSE older[i]]

LEMMA LessonsAdded ==
  ASSUME CatalogTypeOK, NEW r \in Requests, NEW ids \in FreshIds(Rows, Len(picks[r])),
         AddCatalogLesson(r, ids)
  PROVE  \E new \in SUBSET (Rows \ Known(Rows)) :
           \E index \in [new -> 1 .. Len(picks[r])] :
             /\ \A i, j \in new : j < i => index[j] < index[i]
             /\ Numbered(r, new, index)
<1> DEFINE n == Len(picks[r])
           at(i) == CHOOSE k \in 1 .. n : ids[k] = i
           new == {ids[k] : k \in 1 .. n}
           index == [i \in new |-> at(i)]
<1>1. n \in Nat
  BY DEF CatalogTypeOK
<1>2. /\ ids \in [1 .. n -> Rows \ Known(Rows)]
      /\ \A a, b \in 1 .. n : a < b => ids[a] < ids[b]
  BY DEF FreshIds
<1>3. new \in SUBSET (Rows \ Known(Rows))
  BY <1>2
<1>4. \A i \in new : at(i) \in 1 .. n /\ ids[at(i)] = i
  OBVIOUS
<1>5. index \in [new -> 1 .. n]
  BY <1>4
<1>6. ASSUME NEW i \in new, NEW j \in new, j < i
      PROVE  index[j] < index[i]
  <2>1. /\ index[i] \in 1 .. n /\ ids[index[i]] = i
        /\ index[j] \in 1 .. n /\ ids[index[j]] = j
    BY <1>4
  <2>2. i \in Nat /\ j \in Nat
    BY <1>3, CatalogAssumption
  <2> HIDE DEF index
  <2>3. ~ (index[i] < index[j])
    BY <1>2, <1>6, <2>1, <2>2
  <2>4. index[i] # index[j]
    BY <1>6, <2>1, <2>2
  <2> QED
    BY <1>1, <2>1, <2>3, <2>4
<1>7. /\ presence' = [i \in Items |-> IF i \in new THEN "Here" ELSE presence[i]]
      /\ parent' = [i \in Items |-> IF i \in new THEN target[r] ELSE parent[i]]
      /\ sort' = [i \in Items |-> IF i \in new THEN top[r] + at(i) ELSE sort[i]]
      /\ lesson' = [i \in Rows |-> IF i \in new THEN picks[r][at(i)] ELSE lesson[i]]
      /\ older' = [i \in Items |->
                     IF i \in new THEN ahead[r] \cup {j \in new : j < i} ELSE older[i]]
  BY DEF AddCatalogLesson
<1>8. \A i \in new : at(i) = index[i]
  OBVIOUS
<1> HIDE DEF index, at, new
<1>9. Numbered(r, new, index)
  BY <1>7, <1>8 DEF Numbered
<1> QED
  BY <1>3, <1>5, <1>6, <1>9

LEMMA FreshEntry ==
  ASSUME NEW e, <<e>> \in FreshIds(Entries, 1)
  PROVE  e \in Entries /\ e \in Items /\ presence[e] = "Absent"
<1>1. <<e>> \in [1 .. 1 -> Entries \ Known(Entries)] /\ 1 \in 1 .. 1
  BY DEF FreshIds
<1>2. <<e>>[1] \in Entries \ Known(Entries)
  BY <1>1
<1> QED
  BY <1>2 DEF Known, Items

LEMMA ViewTypes ==
  ASSUME CatalogTypeOK, NEW i \in Items
  PROVE  Sort(i) \in Nat /\ Parent(i) \in Entries \cup {Root}
BY DEF CatalogTypeOK, Sort, Parent, Version

LEMMA LockedIsKnown ==
  ASSUME CatalogTypeOK, ListsAreKnown, NEW r \in Requests
  PROVE  Locked(r) \subseteq Known(Items)
<1>1. written[r] \in Nat /\ Len(list[r]) \in Nat
  BY DEF CatalogTypeOK
<1>2. At(r, "Sort") => \A k \in 1 .. written[r] : list[r][k].item \in Known(Items)
  BY <1>1 DEF ListsAreKnown
<1> QED
  BY <1>2 DEF Locked

-----------------------------------------------------------------------------
LEMMA CatalogInitType == CatalogInit => CatalogTypeOK
BY CatalogAssumption
   DEF CatalogInit, CatalogTypeOK, Version, Labels, Items

LEMMA CatalogTypeStep ==
  CatalogTypeOK /\ ListsAreKnown /\ [CatalogNext]_catalogVars => CatalogTypeOK'
<1> SUFFICES ASSUME CatalogTypeOK, ListsAreKnown, [CatalogNext]_catalogVars
             PROVE  CatalogTypeOK'
  OBVIOUS
<1> USE DEF rowVars, requestVars, history, At, GoTo
<1>1. ASSUME NEW r \in Requests, NEW p \in Entries \cup {Root}, NEW m \in Positions,
             StartCatalog(r, p, m)
      PROVE  CatalogTypeOK'
  <2>1. m \in Nat /\ Siblings(Entries, p) \in SUBSET Items
    BY ViewTypes DEF Positions, Siblings, Here, Items
  <2> QED
    BY <1>1, <2>1 DEF StartCatalog, ReadMaxSort, CatalogTypeOK, Labels
<1>2. ASSUME NEW r \in Requests, NEW e \in Entries, AddCatalog(r, e)
      PROVE  CatalogTypeOK'
  <2>1. e \in Items /\ target[r] \in Entries \cup {Root} /\ top[r] + 1 \in Nat
    BY DEF Items, CatalogTypeOK
  <2> QED
    BY <1>2, <2>1 DEF AddCatalog, CatalogTypeOK, Labels
<1>4. ASSUME NEW r \in Requests, NEW p \in Entries, NEW ids \in Picks, NEW m \in Positions,
             StartCatalogLesson(r, p, ids, m)
      PROVE  CatalogTypeOK'
  <2>1. m \in Nat /\ Siblings(Rows, p) \in SUBSET Items /\ ids \in Seq(LessonIds)
    BY ViewTypes, CatalogAssumption DEF Positions, Siblings, Here, Items
  <2> QED
    BY <1>4, <2>1 DEF StartCatalogLesson, ReadMaxSort, CatalogTypeOK, Labels
<1>5. ASSUME NEW r \in Requests, NEW ids \in FreshIds(Rows, Len(picks[r])),
             AddCatalogLesson(r, ids)
      PROVE  CatalogTypeOK'
  <2>9. PICK new \in SUBSET (Rows \ Known(Rows)) :
          \E index \in [new -> 1 .. Len(picks[r])] : Numbered(r, new, index)
    BY <1>5, LessonsAdded
  <2>1. PICK index \in [new -> 1 .. Len(picks[r])] : Numbered(r, new, index)
    BY <2>9
  <2>2. new \subseteq Items /\ picks[r] \in Seq(LessonIds) /\ Len(picks[r]) \in Nat
    BY DEF Items, CatalogTypeOK
  <2>3. \A i \in new : index[i] \in 1 .. Len(picks[r]) /\ picks[r][index[i]] \in LessonIds
    BY <2>2
  <2>4. /\ presence' \in [Items -> {"Absent", "Here", "Deleted"}]
        /\ parent' \in [Items -> Entries \cup {Root}]
        /\ older' \in [Items -> SUBSET Items]
    BY <2>1, <2>2 DEF Numbered, CatalogTypeOK
  <2>5. sort' \in [Items -> Nat] /\ lesson' \in [Rows -> LessonIds \cup {NoLesson}]
    BY <2>1, <2>2, <2>3 DEF Numbered, CatalogTypeOK
  <2>6. /\ pc' \in [Requests -> Labels]
        /\ UNCHANGED <<undo, trial, requestVars, failures, ahead, placed, arrangement>>
    BY <1>5 DEF AddCatalogLesson, CatalogTypeOK, Labels
  <2> QED
    BY <2>4, <2>5, <2>6 DEF CatalogTypeOK
<1>6. ASSUME NEW r \in Requests, NEW e \in Entries, DeleteCatalog(r, e)
      PROVE  CatalogTypeOK'
  BY <1>6 DEF DeleteCatalog, CatalogTypeOK, Labels
<1>7. ASSUME NEW r \in Requests, NEW S \in SUBSET Rows, RemoveCatalogLesson(r, S)
      PROVE  CatalogTypeOK'
  BY <1>7 DEF RemoveCatalogLesson, CatalogTypeOK, Labels
<1>8. ASSUME NEW r \in Requests, NEW i \in Rows, UpdateCatalogLesson(r, i)
      PROVE  CatalogTypeOK'
  BY <1>8 DEF UpdateCatalogLesson, CatalogTypeOK, Labels
<1>9. ASSUME NEW r \in Requests, NEW layout \in Layouts, StartSort(r, layout)
      PROVE  CatalogTypeOK'
  BY <1>9, CatalogAssumption DEF StartSort, CatalogTypeOK, Labels
<1>10. ASSUME NEW r \in Requests, UpdateCatalogSort(r)
       PROVE  CatalogTypeOK'
  <2> DEFINE k == written[r] + 1
             i == list[r][k].item
  <2>1. k \in 1 .. Len(list[r]) /\ k \in Nat
    BY <1>10 DEF UpdateCatalogSort, CatalogTypeOK
  <2>2. list[r][k] \in Slot
    <3>1. list[r] \in Seq(Slot)
      BY DEF CatalogTypeOK
    <3> HIDE DEF k
    <3> QED
      BY <2>1, <3>1, ElementOfSeq
  <2>3. i \in Items /\ list[r][k].under \in Entries \cup {Root} /\ list[r][k].sort \in Nat
    BY <2>2 DEF Slot
  <2>4. /\ undo' = [undo EXCEPT ![i] =
              IF Free(i) THEN [parent |-> parent[i], sort |-> sort[i]] ELSE @]
        /\ sort' = [sort EXCEPT ![i] = IF presence[i] = "Here" THEN list[r][k].sort ELSE @]
        /\ parent' = [parent EXCEPT ![i] =
              IF presence[i] = "Here" /\ i \in Entries THEN list[r][k].under ELSE @]
        /\ written' = [written EXCEPT ![r] = k]
        /\ UNCHANGED <<presence, lesson, trial, pc, target, top, picks, list,
                       failures, history>>
    BY <1>10 DEF UpdateCatalogSort
  <2> HIDE DEF k, i
  <2>5. undo' \in [Items -> Version]
    BY <2>3, <2>4 DEF CatalogTypeOK, Version
  <2> QED
    BY <2>1, <2>3, <2>4, <2>5 DEF CatalogTypeOK
<1>11. ASSUME NEW r \in Requests, Commit(r)
       PROVE  CatalogTypeOK'
  <2>1. Locked(r) \subseteq Items
    BY LockedIsKnown DEF Known
  <2> QED
    BY <1>11, <2>1 DEF Commit, CatalogTypeOK, Labels
<1>12. ASSUME NEW r \in Requests, Rollback(r), failures' \in 0 .. MaxFailures
       PROVE  CatalogTypeOK'
  BY <1>12 DEF Rollback, CatalogTypeOK, Version, Labels
<1>13. ASSUME NEW r \in Requests, Victim(r) \/ Stop(r)
       PROVE  CatalogTypeOK'
  <2>1. failures' \in 0 .. MaxFailures /\ Rollback(r)
    BY <1>13, CatalogAssumption DEF Victim, Stop, Failure, CatalogTypeOK
  <2> QED
    BY <1>12, <2>1
<1>14. CASE UNCHANGED catalogVars
  BY <1>14 DEF catalogVars, CatalogTypeOK
<1> QED
  BY <1>1, <1>2, <1>4, <1>5, <1>6, <1>7, <1>8, <1>9, <1>10, <1>11, <1>13, <1>14
     DEF CatalogNext

-----------------------------------------------------------------------------
(* How a step changes what others see.  Most steps neither begin nor end a *)
(* transaction and write, if at all, items that were not there before.     *)
Kept(S) == \A i \in S : sort'[i] = sort[i] /\ parent'[i] = parent[i] /\ undo'[i] = undo[i]

(* Items do not come back, and none is forgotten.                          *)
Ages == \A i \in Known(Items) :
          presence'[i] # "Absent" /\ (presence'[i] = "Here" => presence[i] = "Here")

Quiet ==
  /\ \A r \in Requests :
       /\ pc'[r] = "Sort" <=> pc[r] = "Sort"
       /\ pc'[r] \in {"Sort", "Done"} \/ pc[r] \notin {"Sort", "Done"}
  /\ UNCHANGED <<list, written, placed, arrangement>>
  /\ Kept(Known(Items))
  /\ Ages

LEMMA GoesOn ==
  ASSUME CatalogTypeOK, NEW r \in Requests, NEW label \in Labels \ {"Sort"},
         pc[r] \notin {"Sort", "Done"}, GoTo(r, label)
  PROVE  \A s \in Requests : /\ pc'[s] = "Sort" <=> pc[s] = "Sort"
                             /\ pc'[s] \in {"Sort", "Done"} \/ pc[s] \notin {"Sort", "Done"}
BY DEF CatalogTypeOK, GoTo

LEMMA QuietSteps ==
  ASSUME CatalogTypeOK, NEW r \in Requests,
         \/ \E p \in Entries \cup {Root}, m \in Positions : StartCatalog(r, p, m)
         \/ \E e \in Entries : AddCatalog(r, e)
         \/ \E p \in Entries, ids \in Picks, m \in Positions : StartCatalogLesson(r, p, ids, m)
         \/ \E ids \in FreshIds(Rows, Len(picks[r])) : AddCatalogLesson(r, ids)
         \/ \E e \in Entries : DeleteCatalog(r, e)
         \/ \E S \in SUBSET Rows : RemoveCatalogLesson(r, S)
         \/ \E i \in Rows : UpdateCatalogLesson(r, i)
  PROVE  Quiet
<1> USE DEF At, rowVars, requestVars, history
<1> DEFINE Forward == pc[r] \notin {"Sort", "Done"} /\ \E label \in Labels \ {"Sort"} : GoTo(r, label)
<1>1. ASSUME NEW p \in Entries \cup {Root}, NEW m \in Positions, StartCatalog(r, p, m)
      PROVE  Quiet
  <2>1. Forward
    BY <1>1 DEF StartCatalog, Labels
  <2> QED
    BY <1>1, <2>1, GoesOn DEF StartCatalog, ReadMaxSort, Quiet, Kept, Ages, Known
<1>2. ASSUME NEW e \in Entries, AddCatalog(r, e)
      PROVE  Quiet
  <2>1. Forward
    BY <1>2 DEF AddCatalog, Labels
  <2>2. \A i \in Known(Items) : i # e
    BY <1>2, FreshEntry DEF AddCatalog, Known
  <2>3. Kept(Known(Items)) /\ Ages
    BY <1>2, <2>2 DEF AddCatalog, Kept, Ages, Known, CatalogTypeOK
  <2>4. UNCHANGED <<list, written, placed, arrangement>>
    BY <1>2 DEF AddCatalog
  <2> QED
    BY <2>1, <2>3, <2>4, GoesOn DEF Quiet
<1>4. ASSUME NEW p \in Entries, NEW ids \in Picks, NEW m \in Positions,
             StartCatalogLesson(r, p, ids, m)
      PROVE  Quiet
  <2>1. Forward
    BY <1>4 DEF StartCatalogLesson, Labels
  <2> QED
    BY <1>4, <2>1, GoesOn DEF StartCatalogLesson, ReadMaxSort, Quiet, Kept, Ages, Known
<1>5. ASSUME NEW ids \in FreshIds(Rows, Len(picks[r])), AddCatalogLesson(r, ids)
      PROVE  Quiet
  <2>1. Forward
    BY <1>5 DEF AddCatalogLesson, Labels
  <2>2. PICK new \in SUBSET (Rows \ Known(Rows)) :
          \E index \in [new -> 1 .. Len(picks[r])] : Numbered(r, new, index)
    BY <1>5, LessonsAdded
  <2>3. PICK index \in [new -> 1 .. Len(picks[r])] : Numbered(r, new, index)
    BY <2>2
  <2>4. \A i \in Known(Items) : i \in Items /\ i \notin new
    BY DEF Known
  <2>5. UNCHANGED <<undo, list, written, placed, arrangement>>
    BY <1>5 DEF AddCatalogLesson
  <2>6. Kept(Known(Items)) /\ Ages
    BY <2>3, <2>4, <2>5 DEF Numbered, Kept, Ages, Known
  <2> QED
    BY <2>1, <2>5, <2>6, GoesOn DEF Quiet
<1>6. ASSUME NEW e \in Entries, DeleteCatalog(r, e)
      PROVE  Quiet
  <2>1. Forward
    BY <1>6 DEF DeleteCatalog, Labels
  <2>2. Kept(Known(Items)) /\ Ages
    BY <1>6 DEF DeleteCatalog, Kept, Ages, Known, Here, CatalogTypeOK
  <2> QED
    BY <1>6, <2>1, <2>2, GoesOn DEF DeleteCatalog, Quiet
<1>7. ASSUME NEW S \in SUBSET Rows, RemoveCatalogLesson(r, S)
      PROVE  Quiet
  <2>1. Forward
    BY <1>7 DEF RemoveCatalogLesson, Labels
  <2>2. Kept(Known(Items)) /\ Ages
    BY <1>7 DEF RemoveCatalogLesson, Kept, Ages, Known, Here, CatalogTypeOK
  <2> QED
    BY <1>7, <2>1, <2>2, GoesOn DEF RemoveCatalogLesson, Quiet
<1>8. ASSUME NEW i \in Rows, UpdateCatalogLesson(r, i)
      PROVE  Quiet
  <2>1. Forward
    BY <1>8 DEF UpdateCatalogLesson, Labels
  <2> QED
    BY <1>8, <2>1, GoesOn DEF UpdateCatalogLesson, Quiet, Kept, Ages, Known
<1> QED
  BY <1>1, <1>2, <1>4, <1>5, <1>6, <1>7, <1>8

(* The locks of each request after a step.                                 *)
LEMMA QuietLocks ==
  ASSUME Quiet
  PROVE  \A r \in Requests : Locked(r)' = Locked(r)
BY DEF Quiet, Locked, At

LEMMA SortLocks ==
  ASSUME CatalogTypeOK, ListsAreKnown, NEW r \in Requests, UpdateCatalogSort(r)
  PROVE  /\ Locked(r)' = Locked(r) \cup {list[r][written[r] + 1].item}
         /\ \A s \in Requests \ {r} : Locked(s)' = Locked(s)
<1>1. /\ written' = [written EXCEPT ![r] = written[r] + 1]
      /\ UNCHANGED <<pc, list>>
      /\ At(r, "Sort")
  BY DEF UpdateCatalogSort
<1>2. written[r] \in Nat /\ written'[r] = written[r] + 1
  BY <1>1 DEF CatalogTypeOK
<1>3. 1 .. written'[r] = 1 .. written[r] \cup {written[r] + 1}
  BY <1>2
<1>4. Locked(r)' = Locked(r) \cup {list[r][written[r] + 1].item}
  BY <1>1, <1>3 DEF Locked, At
<1>5. \A s \in Requests \ {r} : written'[s] = written[s]
  BY <1>1 DEF CatalogTypeOK
<1> QED
  BY <1>1, <1>4, <1>5 DEF Locked, At

LEMMA EndLocks ==
  ASSUME CatalogTypeOK, NEW r \in Requests, GoTo(r, "Done"), UNCHANGED <<list, written>>
  PROVE  /\ Locked(r)' = {}
         /\ \A s \in Requests \ {r} : Locked(s)' = Locked(s)
BY DEF CatalogTypeOK, GoTo, Locked, At

LEMMA StartLocks ==
  ASSUME CatalogTypeOK, ListsAreKnown, NEW r \in Requests, NEW layout, StartSort(r, layout)
  PROVE  \A s \in Requests : Locked(s)' = Locked(s)
<1>1. /\ pc[r] = "Idle" /\ written[r] = 0 /\ written' = written
      /\ pc'[r] = "Sort"
      /\ \A s \in Requests \ {r} : pc'[s] = pc[s] /\ list'[s] = list[s]
  BY DEF StartSort, At, GoTo, ListsAreKnown, CatalogTypeOK
<1>2. Locked(r) = {} /\ Locked(r)' = {}
  BY <1>1 DEF Locked, At
<1>3. \A s \in Requests \ {r} : Locked(s)' = Locked(s)
  BY <1>1 DEF Locked, At
<1> QED
  BY <1>2, <1>3

(* A row is written by one transaction, and taken back only by the same.   *)
LEMMA RollbackSteps ==
  ASSUME NEW r \in Requests, Victim(r) \/ Stop(r)
  PROVE  Rollback(r)
BY DEF Victim, Stop

-----------------------------------------------------------------------------
LEMMA ListsStep ==
  CatalogTypeOK /\ ListsAreKnown /\ [CatalogNext]_catalogVars => ListsAreKnown'
<1> SUFFICES ASSUME CatalogTypeOK, ListsAreKnown, [CatalogNext]_catalogVars
             PROVE  ListsAreKnown'
  OBVIOUS
<1> USE DEF At
<1>1. ASSUME Quiet
      PROVE  ListsAreKnown'
  <2>1. UNCHANGED <<list, written>> /\ \A i \in Known(Items) : i \in Known(Items)'
    BY <1>1 DEF Quiet, Ages, Known
  <2> QED
    BY <1>1, <2>1 DEF ListsAreKnown, Quiet
<1>2. ASSUME NEW r \in Requests, NEW layout \in Layouts, StartSort(r, layout)
      PROVE  ListsAreKnown'
  <2>1. /\ pc[r] = "Idle" /\ written[r] = 0 /\ written' = written /\ presence' = presence
        /\ pc'[r] = "Sort" /\ list'[r] = layout
        /\ \A s \in Requests \ {r} : pc'[s] = pc[s] /\ list'[s] = list[s]
    BY <1>2 DEF StartSort, GoTo, ListsAreKnown, CatalogTypeOK, rowVars
  <2>2. Len(layout) \in Nat /\ \A k \in 1 .. Len(layout) : layout[k].item \in Known(Items)
    BY <1>2, CatalogAssumption DEF StartSort, Here, Known
  <2>3. Known(Items)' = Known(Items)
    BY <2>1 DEF Known
  <2> QED
    BY <2>1, <2>2, <2>3 DEF ListsAreKnown
<1>3. ASSUME NEW r \in Requests, UpdateCatalogSort(r)
      PROVE  ListsAreKnown'
  <2>1. /\ written[r] < Len(list[r]) /\ pc[r] = "Sort"
        /\ written' = [written EXCEPT ![r] = written[r] + 1]
        /\ UNCHANGED <<pc, list, presence>>
    BY <1>3 DEF UpdateCatalogSort
  <2>2. written[r] \in Nat /\ Len(list[r]) \in Nat
    BY DEF CatalogTypeOK
  <2>3. written[r] + 1 <= Len(list[r])
    BY <2>1, <2>2
  <2>4. written'[r] = written[r] + 1 /\ \A s \in Requests \ {r} : written'[s] = written[s]
    BY <2>1 DEF CatalogTypeOK
  <2>5. Known(Items)' = Known(Items)
    BY <2>1 DEF Known
  <2> QED
    BY <2>1, <2>3, <2>4, <2>5 DEF ListsAreKnown
<1>4. ASSUME NEW r \in Requests, Commit(r) \/ Rollback(r)
      PROVE  ListsAreKnown'
  <2>1. /\ GoTo(r, "Done")
        /\ UNCHANGED <<list, written, presence>>
    BY <1>4 DEF Commit, Rollback, rowVars, requestVars
  <2>2. Known(Items)' = Known(Items)
    BY <2>1 DEF Known
  <2> QED
    BY <2>1, <2>2 DEF ListsAreKnown, GoTo, CatalogTypeOK
<1>5. CASE UNCHANGED catalogVars
  BY <1>5 DEF catalogVars, rowVars, requestVars, ListsAreKnown, Known
<1> QED
  BY <1>1, <1>2, <1>3, <1>4, <1>5, QuietSteps, RollbackSteps DEF CatalogNext

LEMMA ExcludeStep ==
  LocksInv /\ [CatalogNext]_catalogVars => LocksExclude'
<1> SUFFICES ASSUME CatalogTypeOK, ListsAreKnown, LocksExclude, [CatalogNext]_catalogVars
             PROVE  LocksExclude'
  BY DEF LocksInv
<1>1. ASSUME \A r \in Requests : Locked(r)' \subseteq Locked(r)
      PROVE  LocksExclude'
  BY <1>1 DEF LocksExclude
<1>2. ASSUME NEW r \in Requests, UpdateCatalogSort(r)
      PROVE  LocksExclude'
  <2>1. \A s \in Requests \ {r} : list[r][written[r] + 1].item \notin Locked(s)
    BY <1>2 DEF UpdateCatalogSort, Waits
  <2> QED
    BY <1>2, <2>1, SortLocks DEF LocksExclude
<1>3. ASSUME NEW r \in Requests, Commit(r) \/ Rollback(r)
      PROVE  LocksExclude'
  <2>1. GoTo(r, "Done") /\ UNCHANGED <<list, written>>
    BY <1>3 DEF Commit, Rollback, rowVars, requestVars
  <2> QED
    BY <1>1, <2>1, EndLocks
<1>4. CASE UNCHANGED catalogVars
  BY <1>1, <1>4 DEF catalogVars, requestVars, Locked, At
<1> QED
  BY <1>1, <1>2, <1>3, <1>4, QuietSteps, QuietLocks, StartLocks, RollbackSteps DEF CatalogNext

LEMMA StandsStep ==
  LocksInv /\ [CatalogNext]_catalogVars => WrittenStands'
<1> SUFFICES ASSUME LocksInv, [CatalogNext]_catalogVars
             PROVE  WrittenStands'
  OBVIOUS
<1> USE DEF At, LocksInv
<1>1. ASSUME NEW s \in Requests, NEW k \in 1 .. written[s], At(s, "Sort")
      PROVE  list[s][k].item \in Locked(s) /\ list[s][k].item \in Known(Items)
  <2>1. list[s][k].item \in Locked(s)
    BY <1>1 DEF Locked
  <2> QED
    BY <2>1, LockedIsKnown
<1>2. ASSUME \A s \in Requests : At(s, "Sort")' => At(s, "Sort"), UNCHANGED <<list, written>>,
             Kept(Known(Items)), Ages
      PROVE  WrittenStands'
  BY <1>1, <1>2 DEF WrittenStands, Kept, Ages, Final
<1>3. ASSUME NEW r \in Requests, NEW layout \in Layouts, StartSort(r, layout)
      PROVE  WrittenStands'
  <2>1. /\ pc[r] = "Idle" /\ written[r] = 0
        /\ UNCHANGED <<written, presence, parent, sort>>
        /\ \A s \in Requests \ {r} : pc'[s] = pc[s] /\ list'[s] = list[s]
    BY <1>3 DEF StartSort, GoTo, ListsAreKnown, CatalogTypeOK, rowVars
  <2>2. \A k \in Final(list'[r], written'[r]) : FALSE
    BY <2>1 DEF Final
  <2> QED
    BY <2>1, <2>2 DEF WrittenStands, Final
<1>4. ASSUME NEW r \in Requests, UpdateCatalogSort(r)
      PROVE  WrittenStands'
  <2> DEFINE n == written[r] + 1
             w == list[r][n].item
  <2>1. /\ w \in Known(Items) /\ n \in Nat /\ w \in Items
        /\ n <= Len(list[r])
    <3>1. written[r] < Len(list[r]) /\ At(r, "Sort") /\ written[r] \in Nat /\ Len(list[r]) \in Nat
      BY <1>4 DEF UpdateCatalogSort, CatalogTypeOK
    <3>2. n \in 1 .. Len(list[r])
      BY <3>1
    <3> QED
      BY <3>1, <3>2 DEF ListsAreKnown, Known
  <2>2. /\ sort' = [sort EXCEPT ![w] = IF presence[w] = "Here" THEN list[r][n].sort ELSE @]
        /\ parent' = [parent EXCEPT ![w] =
              IF presence[w] = "Here" /\ w \in Entries THEN list[r][n].under ELSE @]
        /\ written' = [written EXCEPT ![r] = n]
        /\ UNCHANGED <<pc, list, presence>>
        /\ \A s \in Requests \ {r} : w \notin Locked(s)
    BY <1>4 DEF UpdateCatalogSort, Waits
  <2> HIDE DEF n, w
  <2>3. \A i \in Items : i # w => sort'[i] = sort[i] /\ parent'[i] = parent[i]
    BY <2>2 DEF CatalogTypeOK
  <2>4. presence[w] = "Here" =>
          sort'[w] = list[r][n].sort /\ (w \in Entries => parent'[w] = list[r][n].under)
    BY <2>1, <2>2 DEF CatalogTypeOK
  <2>5. ASSUME NEW s \in Requests, At(s, "Sort"), NEW k \in Final(list[s], written[s]),
               list[s][k].item # w, presence[list[s][k].item] = "Here"
        PROVE  /\ sort'[list[s][k].item] = list[s][k].sort
               /\ list[s][k].item \in Entries => parent'[list[s][k].item] = list[s][k].under
    <3>1. k \in 1 .. written[s]
      BY DEF Final
    <3>2. list[s][k].item \in Items
      BY <1>1, <2>5, <3>1 DEF Known
    <3> QED
      BY <2>3, <2>5, <3>2 DEF WrittenStands
  <2>6. /\ written[r] \in Nat /\ n = written[r] + 1 /\ written'[r] = n
        /\ \A s \in Requests \ {r} : written'[s] = written[s]
    BY <2>2 DEF CatalogTypeOK, n
  <2>7. ASSUME NEW k \in Final(list[r], n), k # n
        PROVE  k \in Final(list[r], written[r]) /\ list[r][k].item # w
    <3>1. k \in 1 .. n /\ \A m \in (k + 1) .. n : list[r][m].item # list[r][k].item
      BY DEF Final
    <3>2. k \in 1 .. written[r] /\ n \in (k + 1) .. n
          /\ \A m \in (k + 1) .. written[r] : m \in (k + 1) .. n
      BY <2>1, <2>6, <2>7, <3>1
    <3> QED
      BY <3>1, <3>2 DEF Final, w
  <2>8. ASSUME NEW s \in Requests \ {r}, At(s, "Sort"), NEW k \in Final(list[s], written[s])
        PROVE  list[s][k].item # w
    <3>1. k \in 1 .. written[s]
      BY DEF Final
    <3> QED
      BY <1>1, <2>2, <2>8, <3>1
  <2>9. ASSUME NEW s \in Requests, At(s, "Sort"), NEW k \in Final(list[s], written'[s]),
               presence[list[s][k].item] = "Here"
        PROVE  /\ sort'[list[s][k].item] = list[s][k].sort
               /\ list[s][k].item \in Entries => parent'[list[s][k].item] = list[s][k].under
    <3>1. CASE s # r
      BY <2>5, <2>6, <2>8, <2>9, <3>1
    <3>2. CASE s = r /\ k # n
      BY <2>5, <2>6, <2>7, <2>9, <3>2
    <3>3. CASE s = r /\ k = n
      BY <2>4, <2>9, <3>3 DEF w
    <3> QED
      BY <3>1, <3>2, <3>3
  <2> QED
    BY <2>2, <2>9 DEF WrittenStands, Final
<1>5. ASSUME NEW r \in Requests, Commit(r) \/ Rollback(r)
      PROVE  WrittenStands'
  <2>1. /\ \A s \in Requests : pc'[s] = "Sort" => pc[s] = "Sort" /\ s # r
        /\ UNCHANGED <<list, written, presence>>
        /\ \A i \in Items \ Locked(r) : sort'[i] = sort[i] /\ parent'[i] = parent[i]
    BY <1>5 DEF Commit, Rollback, GoTo, CatalogTypeOK, rowVars, requestVars
  <2>2. ASSUME NEW s \in Requests \ {r}, pc[s] = "Sort", NEW k \in Final(list[s], written[s])
        PROVE  list[s][k].item \in Items \ Locked(r)
    <3>1. k \in 1 .. written[s]
      BY DEF Final
    <3> QED
      BY <1>1, <2>2, <3>1 DEF LocksExclude, Known
  <2> QED
    BY <2>1, <2>2 DEF WrittenStands, Final
<1>6. CASE UNCHANGED catalogVars
  BY <1>6 DEF catalogVars, rowVars, requestVars, WrittenStands, Final
<1>7. ASSUME Quiet
      PROVE  WrittenStands'
  BY <1>2, <1>7 DEF Quiet
<1> QED
  BY <1>3, <1>4, <1>5, <1>6, <1>7, QuietSteps, RollbackSteps DEF CatalogNext

LEMMA LocksInitStep ==
  /\ CatalogInit => LocksInv
  /\ LocksInv /\ [CatalogNext]_catalogVars => LocksInv'
<1>1. CatalogInit => ListsAreKnown /\ LocksExclude /\ WrittenStands
  BY DEF CatalogInit, ListsAreKnown, LocksExclude, WrittenStands, Final, Locked, At
<1> QED
  BY <1>1, CatalogInitType, CatalogTypeStep, ListsStep, ExcludeStep, StandsStep DEF LocksInv

(* The type invariant of CourseCatalog.                                    *)
THEOREM CatalogTypeCorrect == CatalogSpec => []CatalogTypeOK
<1>1. LocksInv => CatalogTypeOK
  BY DEF LocksInv
<1> QED
  BY <1>1, LocksInitStep, PTL DEF CatalogSpec

-----------------------------------------------------------------------------
(* What others see of an item changes only when a transaction commits.     *)
Steady == SameView(Known(Items)) /\ Ages /\ UNCHANGED <<placed, arrangement>>

LEMMA KeptView ==
  ASSUME \A r \in Requests : Locked(r)' = Locked(r), NEW S, Kept(S)
  PROVE  SameView(S)
BY DEF SameView, Kept, Sort, Parent, Free

LEMMA SortView ==
  ASSUME LocksInv, NEW r \in Requests, UpdateCatalogSort(r)
  PROVE  SameView(Known(Items))
<1> DEFINE w == list[r][written[r] + 1].item
<1>1. /\ undo' = [undo EXCEPT ![w] =
            IF Free(w) THEN [parent |-> parent[w], sort |-> sort[w]] ELSE @]
      /\ \A i \in Items \ {w} : sort'[i] = sort[i] /\ parent'[i] = parent[i]
  BY DEF UpdateCatalogSort, LocksInv, CatalogTypeOK
<1>2. \A i : Free(i)' <=> Free(i) /\ i # w
  BY SortLocks DEF LocksInv, Free
<1> HIDE DEF w
<1>3. \A i \in Items \ {w} : undo'[i] = undo[i]
  BY <1>1 DEF LocksInv, CatalogTypeOK
<1>4. ASSUME NEW i \in Items, i # w
      PROVE  Sort(i)' = Sort(i) /\ Parent(i)' = Parent(i)
  BY <1>1, <1>2, <1>3, <1>4 DEF Sort, Parent
<1>5. ASSUME NEW i \in Items, i = w
      PROVE  Sort(i)' = Sort(i) /\ Parent(i)' = Parent(i)
  <2>1. CASE Free(w)
    <3>1. undo'[i] = [parent |-> parent[i], sort |-> sort[i]]
      BY <1>1, <1>5, <2>1 DEF LocksInv, CatalogTypeOK
    <3> QED
      BY <1>2, <1>5, <2>1, <3>1 DEF Sort, Parent
  <2>2. CASE ~ Free(w)
    <3>1. undo'[i] = undo[i]
      BY <1>1, <1>5, <2>2 DEF LocksInv, CatalogTypeOK
    <3> QED
      BY <1>2, <1>5, <2>2, <3>1 DEF Sort, Parent
  <2> QED
    BY <2>1, <2>2
<1> QED
  BY <1>4, <1>5 DEF SameView, Known

(* After the end of a transaction its rows are free again.                 *)
LEMMA EndFrees ==
  ASSUME LocksInv, NEW r \in Requests, GoTo(r, "Done"), UNCHANGED <<list, written>>
  PROVE  \A i : Free(i)' <=> Free(i) \/ i \in Locked(r)
<1>1. \A i : i \in Locked(r) => \A s \in Requests \ {r} : i \notin Locked(s)
  BY DEF LocksInv, LocksExclude
<1> QED
  BY <1>1, EndLocks DEF LocksInv, Free

LEMMA RollbackView ==
  ASSUME LocksInv, NEW r \in Requests, Rollback(r)
  PROVE  SameView(Known(Items))
<1>1. \A i : Free(i)' <=> Free(i) \/ i \in Locked(r)
  BY EndFrees DEF Rollback, requestVars
<1>2. /\ undo' = undo
      /\ \A i \in Items \ Locked(r) : sort'[i] = sort[i] /\ parent'[i] = parent[i]
      /\ \A i \in Items \cap Locked(r) : sort'[i] = undo[i].sort /\ parent'[i] = undo[i].parent
  BY DEF Rollback
<1>3. \A i \in Locked(r) : ~ Free(i)
  BY DEF Free
<1> QED
  BY <1>1, <1>2, <1>3 DEF SameView, Sort, Parent, Known

LEMMA CommitView ==
  ASSUME LocksInv, NEW r \in Requests, Commit(r)
  PROVE  /\ SameView(Items \ Locked(r))
         /\ \A i \in Locked(r) : Sort(i)' = sort[i] /\ Parent(i)' = parent[i]
         /\ presence' = presence /\ placed' = placed \cup Locked(r) /\ arrangement' = list[r]
<1>1. /\ UNCHANGED <<presence, sort, parent, undo, list, written>> /\ GoTo(r, "Done")
      /\ placed' = placed \cup Locked(r) /\ arrangement' = list[r]
  BY DEF Commit, rowVars, requestVars
<1>2. \A i : Free(i)' <=> Free(i) \/ i \in Locked(r)
  BY <1>1, EndFrees
<1> QED
  BY <1>1, <1>2 DEF SameView, Sort, Parent

LEMMA SteadySteps ==
  ASSUME LocksInv, [CatalogNext]_catalogVars
  PROVE  Steady \/ \E r \in Requests : Commit(r)
<1>1. ASSUME Quiet
      PROVE  Steady
  BY <1>1, QuietLocks, KeptView DEF Quiet, Steady
<1>2. ASSUME NEW r \in Requests, NEW layout \in Layouts, StartSort(r, layout)
      PROVE  Steady
  <2>1. UNCHANGED <<presence, sort, parent, undo, placed, arrangement>>
    BY <1>2 DEF StartSort, rowVars, history
  <2>2. SameView(Known(Items))
    BY <1>2, <2>1, StartLocks, KeptView DEF Kept, LocksInv
  <2> QED
    BY <2>1, <2>2 DEF Steady, Ages, Known
<1>3. ASSUME NEW r \in Requests, UpdateCatalogSort(r)
      PROVE  Steady
  <2>1. UNCHANGED <<presence, placed, arrangement>>
    BY <1>3 DEF UpdateCatalogSort, history
  <2> QED
    BY <1>3, <2>1, SortView DEF Steady, Ages, Known
<1>4. ASSUME NEW r \in Requests, Rollback(r)
      PROVE  Steady
  <2>1. UNCHANGED <<presence, placed, arrangement>>
    BY <1>4 DEF Rollback, history
  <2> QED
    BY <1>4, <2>1, RollbackView DEF Steady, Ages, Known
<1>5. CASE UNCHANGED catalogVars
  <2>1. UNCHANGED <<presence, sort, parent, undo, placed, arrangement, pc, list, written>>
    BY <1>5 DEF catalogVars, rowVars, requestVars, history
  <2>2. \A r \in Requests : Locked(r)' = Locked(r)
    BY <2>1 DEF Locked, At
  <2>3. SameView(Known(Items))
    BY <2>1, <2>2, KeptView DEF Kept
  <2> QED
    BY <2>1, <2>3 DEF Steady, Ages, Known
<1> QED
  BY <1>1, <1>2, <1>3, <1>4, <1>5, QuietSteps, RollbackSteps DEF CatalogNext, LocksInv

-----------------------------------------------------------------------------
(* The positions.                                                          *)

(* What the history of a behaviour mentions was there once.                *)
HistoryIsKnown ==
  /\ \A r \in Requests : ahead[r] \subseteq Known(Items)
  /\ \A i \in Known(Items) : older[i] \subseteq Known(Items)
  /\ \A k \in 1 .. Len(arrangement) : arrangement[k].item \in Known(Items)

(* The siblings that a request has found stand no further than the         *)
(* position it has read.                                                   *)
AheadBelowTop ==
  \A r \in Requests : pc[r] \in {"Insert", "InsertLessons"} =>
    \A j \in ahead[r] \ placed : Sort(j) <= top[r]

(* AppendedLast, of deleted items too.                                     *)
NewStandLast ==
  \A i \in Known(Items) \ placed : \A j \in older[i] \ placed : Sort(j) < Sort(i)

(* The items of the last arrangement stand as it wanted them.              *)
ArrangedStand ==
  \A k \in Final(arrangement, Len(arrangement)) : \A i \in Here(Items) :
    i = arrangement[k].item =>
      /\ Sort(i) = arrangement[k].sort
      /\ i \in Entries => Parent(i) = arrangement[k].under

PlacesInv == HistoryIsKnown /\ AheadBelowTop /\ NewStandLast /\ ArrangedStand

(* In a step that ends no transaction the items that were there keep their *)
(* places.                                                                 *)
LEMMA SteadyPlaces ==
  ASSUME CatalogTypeOK, PlacesInv, Steady, \A i \in Known(Items) : older'[i] = older[i]
  PROVE  /\ \A k \in 1 .. Len(arrangement') : arrangement'[k].item \in Known(Items)'
         /\ ArrangedStand'
         /\ \A i \in Known(Items) :
              older'[i] \subseteq Known(Items) /\ older'[i] \subseteq Known(Items)'
         /\ \A i \in Known(Items) \ placed' : \A j \in older'[i] \ placed' : Sort(j)' < Sort(i)'
<1>1. /\ \A i \in Known(Items) : Sort(i)' = Sort(i) /\ Parent(i)' = Parent(i)
      /\ \A i \in Known(Items) : i \in Known(Items)' /\ (i \in Here(Items)' => i \in Here(Items))
      /\ placed' = placed /\ arrangement' = arrangement
  BY DEF Steady, SameView, Ages, Known, Here
<1>2. \A k \in 1 .. Len(arrangement) : arrangement[k].item \in Known(Items)
  BY DEF PlacesInv, HistoryIsKnown
<1>3. ArrangedStand'
  <2>1. SUFFICES ASSUME NEW k \in Final(arrangement, Len(arrangement)),
                        NEW i \in Here(Items)', i = arrangement[k].item
                 PROVE  /\ Sort(i)' = arrangement[k].sort
                        /\ i \in Entries => Parent(i)' = arrangement[k].under
    BY <1>1 DEF ArrangedStand, Final
  <2>2. i \in Known(Items) /\ i \in Here(Items)
    BY <1>1, <1>2, <2>1 DEF Final
  <2>3. Sort(i) = arrangement[k].sort /\ (i \in Entries => Parent(i) = arrangement[k].under)
    BY <2>1, <2>2 DEF PlacesInv, ArrangedStand
  <2> QED
    BY <1>1, <2>2, <2>3
<1>4. \A i \in Known(Items) : older[i] \subseteq Known(Items)
  BY DEF PlacesInv, HistoryIsKnown
<1>5. \A i \in Known(Items) \ placed : \A j \in older[i] \ placed : Sort(j)' < Sort(i)'
  BY <1>1, <1>4 DEF PlacesInv, NewStandLast
<1> QED
  BY <1>1, <1>2, <1>3, <1>4, <1>5

(* And a request that had read a position has read enough.                 *)
LEMMA SteadyAhead ==
  ASSUME CatalogTypeOK, PlacesInv, Steady, NEW r \in Requests,
         pc'[r] \in {"Insert", "InsertLessons"} =>
           /\ pc[r] \in {"Insert", "InsertLessons"}
           /\ top'[r] = top[r]
         , ahead'[r] = ahead[r]
  PROVE  /\ ahead'[r] \subseteq Known(Items)'
         /\ pc'[r] \in {"Insert", "InsertLessons"} =>
              \A j \in ahead'[r] \ placed' : Sort(j)' <= top'[r]
<1>1. /\ \A i \in Known(Items) : Sort(i)' = Sort(i) /\ i \in Known(Items)'
      /\ placed' = placed
  BY DEF Steady, SameView, Ages, Known
<1>2. ahead[r] \subseteq Known(Items)
  BY DEF PlacesInv, HistoryIsKnown
<1> QED
  BY <1>1, <1>2 DEF PlacesInv, AheadBelowTop

LEMMA PlacesByParts ==
  ASSUME CatalogTypeOK, PlacesInv, Steady,
         \A i \in Known(Items) : older'[i] = older[i],
         \A i \in Known(Items)' \ Known(Items) :
           older'[i] \subseteq Known(Items)' /\ \A j \in older'[i] \ placed : Sort(j)' < Sort(i)',
         \A r \in Requests :
           /\ ahead'[r] \subseteq Known(Items)'
           /\ pc'[r] \in {"Insert", "InsertLessons"} =>
                \A j \in ahead'[r] \ placed' : Sort(j)' <= top'[r]
  PROVE  PlacesInv'
<1>1. placed' = placed
  BY DEF Steady
<1>2. HistoryIsKnown'
  BY SteadyPlaces DEF HistoryIsKnown
<1>3. AheadBelowTop'
  BY DEF AheadBelowTop
<1>4. NewStandLast'
  BY <1>1, SteadyPlaces DEF NewStandLast
<1> QED
  BY <1>2, <1>3, <1>4, SteadyPlaces DEF PlacesInv

(* A position is read.                                                     *)
LEMMA ReadPlaces ==
  ASSUME LocksInv, PlacesInv, Steady, NEW r \in Requests, NEW kind, NEW p, NEW m \in Nat,
         kind \subseteq Items, ReadMaxSort(r, kind, p, m), NEW label, GoTo(r, label)
  PROVE  PlacesInv'
<1>1. /\ ahead'[r] = Siblings(kind, p) /\ top'[r] = m
      /\ \A s \in Requests \ {r} : pc'[s] = pc[s] /\ top'[s] = top[s] /\ ahead'[s] = ahead[s]
      /\ older' = older /\ presence' = presence
  BY DEF ReadMaxSort, GoTo, rowVars, LocksInv, CatalogTypeOK
<1>2. Siblings(kind, p) \subseteq Known(Items) /\ Known(Items)' = Known(Items)
  BY <1>1 DEF Siblings, Here, Known
<1>3. \A j \in Siblings(kind, p) : Sort(j)' = Sort(j) /\ Sort(j) <= m
  BY <1>2 DEF Steady, SameView, ReadMaxSort, MaxSort
<1>4. ASSUME NEW s \in Requests
      PROVE  /\ ahead'[s] \subseteq Known(Items)'
             /\ pc'[s] \in {"Insert", "InsertLessons"} =>
                  \A j \in ahead'[s] \ placed' : Sort(j)' <= top'[s]
  <2>1. CASE s = r
    BY <1>1, <1>2, <1>3, <2>1
  <2>2. CASE s # r
    BY <1>1, <2>2, SteadyAhead DEF LocksInv
  <2> QED
    BY <2>1, <2>2
<1> QED
  BY <1>1, <1>2, <1>4, PlacesByParts DEF LocksInv

LEMMA PlacesStep ==
  LocksInv /\ PlacesInv /\ [CatalogNext]_catalogVars => PlacesInv'
<1> SUFFICES ASSUME LocksInv, PlacesInv, [CatalogNext]_catalogVars
             PROVE  PlacesInv'
  OBVIOUS
<1> USE DEF At
<1>0. CatalogTypeOK /\ CatalogTypeOK'
  BY LocksInitStep DEF LocksInv
<1>1. ASSUME NEW r \in Requests, Commit(r)
      PROVE  PlacesInv'
  <2>1. /\ SameView(Items \ Locked(r)) /\ presence' = presence
        /\ \A i \in Locked(r) : Sort(i)' = sort[i] /\ Parent(i)' = parent[i]
        /\ placed' = placed \cup Locked(r) /\ arrangement' = list[r]
    BY <1>1, CommitView
  <2>2. /\ ahead' = ahead /\ older' = older /\ top' = top
        /\ \A s \in Requests : pc'[s] \in {"Insert", "InsertLessons"} => pc'[s] = pc[s]
        /\ At(r, "Sort") /\ written[r] = Len(list[r])
    BY <1>0, <1>1 DEF Commit, GoTo, CatalogTypeOK, requestVars
  <2>3. Known(Items)' = Known(Items) /\ Here(Items)' = Here(Items) /\ Known(Items) \subseteq Items
    BY <2>1 DEF Known, Here
  <2>4. \A k \in 1 .. Len(list[r]) : list[r][k].item \in Known(Items) /\ list[r][k].item \in Locked(r)
    BY <2>2 DEF LocksInv, ListsAreKnown, Locked
  <2>5. HistoryIsKnown'
    BY <2>1, <2>2, <2>3, <2>4 DEF PlacesInv, HistoryIsKnown
  <2>6. \A i \in Known(Items) \ placed' : Sort(i)' = Sort(i) /\ i \in Known(Items) \ placed
    BY <2>1, <2>3 DEF SameView
  <2>7. /\ \A s \in Requests : ahead[s] \subseteq Known(Items)
        /\ \A i \in Known(Items) : older[i] \subseteq Known(Items)
    BY DEF PlacesInv, HistoryIsKnown
  <2>8. AheadBelowTop'
    BY <2>2, <2>6, <2>7 DEF PlacesInv, AheadBelowTop
  <2>9. NewStandLast'
    BY <2>2, <2>3, <2>6, <2>7 DEF PlacesInv, NewStandLast
  <2>10. ASSUME NEW k \in Final(list[r], Len(list[r])), NEW i \in Here(Items),
                i = list[r][k].item
         PROVE  /\ Sort(i)' = list[r][k].sort
                /\ i \in Entries => Parent(i)' = list[r][k].under
    <3>1. presence[i] = "Here" /\ k \in 1 .. Len(list[r])
      BY DEF Here, Final
    <3>2. sort[i] = list[r][k].sort /\ (i \in Entries => parent[i] = list[r][k].under)
      BY <2>2, <2>10, <3>1 DEF LocksInv, WrittenStands
    <3> QED
      BY <2>1, <2>4, <2>10, <3>1, <3>2
  <2>11. ArrangedStand'
    BY <2>1, <2>3, <2>10 DEF ArrangedStand, Final
  <2> QED
    BY <2>5, <2>8, <2>9, <2>11 DEF PlacesInv
<1>2. ASSUME Steady, UNCHANGED <<ahead, older>>,
             \A s \in Requests : pc'[s] \in {"Insert", "InsertLessons"} =>
               pc[s] \in {"Insert", "InsertLessons"} /\ top'[s] = top[s],
             \A i \in Items : presence[i] = "Absent" => presence'[i] = "Absent"
      PROVE  PlacesInv'
  <2>1. \A s \in Requests :
          /\ ahead'[s] \subseteq Known(Items)'
          /\ pc'[s] \in {"Insert", "InsertLessons"} =>
               \A j \in ahead'[s] \ placed' : Sort(j)' <= top'[s]
    BY <1>0, <1>2, SteadyAhead
  <2>2. \A i \in Known(Items)' \ Known(Items) : FALSE
    BY <1>2 DEF Known
  <2> QED
    BY <1>0, <1>2, <2>1, <2>2, PlacesByParts
<1>3. ASSUME Steady, NEW r \in Requests, NEW p \in Entries \cup {Root}, NEW m \in Positions,
             StartCatalog(r, p, m)
      PROVE  PlacesInv'
  <2>1. m \in Nat
    BY <1>0, ViewTypes DEF Positions
  <2> QED
    BY <1>3, <2>1, ReadPlaces DEF StartCatalog, Items
<1>4. ASSUME Steady, NEW r \in Requests, NEW p \in Entries, NEW ids \in Picks,
             NEW m \in Positions, StartCatalogLesson(r, p, ids, m)
      PROVE  PlacesInv'
  <2>1. m \in Nat
    BY <1>0, ViewTypes DEF Positions
  <2> QED
    BY <1>4, <2>1, ReadPlaces DEF StartCatalogLesson, Items
<1>5. ASSUME Steady, NEW r \in Requests, NEW e \in Entries, AddCatalog(r, e)
      PROVE  PlacesInv'
  <2>1. /\ pc[r] = "Insert" /\ e \in Items /\ presence[e] = "Absent"
        /\ presence' = [presence EXCEPT ![e] = "Here"]
        /\ sort' = [sort EXCEPT ![e] = top[r] + 1]
        /\ older' = [older EXCEPT ![e] = ahead[r]]
        /\ ahead' = ahead /\ top' = top
        /\ GoTo(r, "Done")
    BY <1>5, FreshEntry DEF AddCatalog, requestVars
  <2>2. Quiet
    BY <1>0, <1>5, QuietSteps
  <2>3. Free(e)'
    BY <1>0, <2>1, <2>2, QuietLocks, LockedIsKnown DEF Free, LocksInv, Known
  <2>4. Sort(e)' = top[r] + 1 /\ older'[e] = ahead[r]
    BY <1>0, <2>1, <2>3 DEF Sort, CatalogTypeOK
  <2>5. \A s \in Requests :
          /\ ahead'[s] \subseteq Known(Items)'
          /\ pc'[s] \in {"Insert", "InsertLessons"} =>
               \A j \in ahead'[s] \ placed' : Sort(j)' <= top'[s]
    <3>1. \A s \in Requests : pc'[s] \in {"Insert", "InsertLessons"} => pc'[s] = pc[s]
      BY <1>0, <2>1 DEF GoTo, CatalogTypeOK
    <3> QED
      BY <1>0, <1>5, <2>1, <3>1, SteadyAhead
  <2>6. ahead[r] \subseteq Known(Items) /\ \A j \in Known(Items) : Sort(j)' = Sort(j) /\ Sort(j) \in Nat
    BY <1>0, <1>5, ViewTypes DEF PlacesInv, HistoryIsKnown, Steady, SameView, Known
  <2>7. \A j \in ahead[r] \ placed : Sort(j)' < Sort(e)'
    <3>1. \A j \in ahead[r] \ placed : Sort(j) <= top[r]
      BY <2>1 DEF PlacesInv, AheadBelowTop
    <3>2. top[r] \in Nat
      BY <1>0 DEF CatalogTypeOK
    <3> QED
      BY <2>4, <2>6, <3>1, <3>2
  <2>8. \A i \in Known(Items)' \ Known(Items) : i = e
    BY <1>0, <2>1 DEF Known, CatalogTypeOK
  <2>9. \A i \in Known(Items) : older'[i] = older[i] /\ i \in Known(Items)'
    BY <1>0, <2>1 DEF Known, CatalogTypeOK
  <2>10. \A i \in Known(Items)' \ Known(Items) :
           older'[i] \subseteq Known(Items)' /\ \A j \in older'[i] \ placed : Sort(j)' < Sort(i)'
    BY <2>4, <2>6, <2>7, <2>8, <2>9
  <2> QED
    BY <1>0, <1>5, <2>5, <2>9, <2>10, PlacesByParts
<1>6. ASSUME Steady, NEW r \in Requests, NEW ids \in FreshIds(Rows, Len(picks[r])),
             AddCatalogLesson(r, ids)
      PROVE  PlacesInv'
  <2>1. /\ pc[r] = "InsertLessons" /\ ahead' = ahead /\ top' = top
        /\ GoTo(r, "Done")
    BY <1>6 DEF AddCatalogLesson, requestVars
  <2>2. PICK new \in SUBSET (Rows \ Known(Rows)) :
          \E index \in [new -> 1 .. Len(picks[r])] :
            /\ \A i, j \in new : j < i => index[j] < index[i]
            /\ Numbered(r, new, index)
    BY <1>0, <1>6, LessonsAdded
  <2>3. PICK index \in [new -> 1 .. Len(picks[r])] :
          /\ \A i, j \in new : j < i => index[j] < index[i]
          /\ Numbered(r, new, index)
    BY <2>2
  <2>4. /\ new \subseteq Items /\ new \cap Known(Items) = {}
        /\ \A i \in new : index[i] \in Nat /\ index[i] > 0
    <3>1. Len(picks[r]) \in Nat
      BY <1>0 DEF CatalogTypeOK
    <3> QED
      BY <3>1 DEF Items, Known
  <2>5. Quiet
    BY <1>0, <1>6, QuietSteps
  <2>6. \A i \in new : Free(i)'
    BY <1>0, <2>4, <2>5, QuietLocks, LockedIsKnown DEF Free, LocksInv
  <2>7. \A i \in new : Sort(i)' = top[r] + index[i] /\ older'[i] = ahead[r] \cup {j \in new : j < i}
    BY <2>3, <2>4, <2>6 DEF Sort, Numbered
  <2>8. \A s \in Requests :
          /\ ahead'[s] \subseteq Known(Items)'
          /\ pc'[s] \in {"Insert", "InsertLessons"} =>
               \A j \in ahead'[s] \ placed' : Sort(j)' <= top'[s]
    <3>1. \A s \in Requests : pc'[s] \in {"Insert", "InsertLessons"} => pc'[s] = pc[s]
      BY <1>0, <2>1 DEF GoTo, CatalogTypeOK
    <3> QED
      BY <1>0, <1>6, <2>1, <3>1, SteadyAhead
  <2>9. ahead[r] \subseteq Known(Items) /\ \A j \in Known(Items) : Sort(j)' = Sort(j) /\ Sort(j) \in Nat
    BY <1>0, <1>6, ViewTypes DEF PlacesInv, HistoryIsKnown, Steady, SameView, Known
  <2>10. ASSUME NEW i \in new, NEW j \in older'[i] \ placed
         PROVE  Sort(j)' < Sort(i)'
    <3>1. top[r] \in Nat
      BY <1>0 DEF CatalogTypeOK
    <3>2. CASE j \in ahead[r]
      <4>1. Sort(j) <= top[r]
        BY <2>1, <3>2 DEF PlacesInv, AheadBelowTop
      <4> QED
        BY <2>4, <2>7, <2>9, <3>1, <3>2, <4>1
    <3>3. CASE j \in new /\ j < i
      <4>1. index[j] < index[i] /\ index[j] \in Nat /\ index[i] \in Nat
        BY <2>3, <2>4, <3>3
      <4> QED
        BY <2>7, <3>1, <3>3, <4>1
    <3> QED
      BY <2>7, <3>2, <3>3
  <2>11. /\ \A i \in Known(Items)' \ Known(Items) : i \in new
         /\ \A i \in new : i \in Known(Items)'
         /\ \A i \in Known(Items) : older'[i] = older[i] /\ i \in Known(Items)'
    BY <2>3, <2>4 DEF Numbered, Known
  <2>12. \A i \in Known(Items)' \ Known(Items) :
           older'[i] \subseteq Known(Items)' /\ \A j \in older'[i] \ placed : Sort(j)' < Sort(i)'
    BY <2>7, <2>9, <2>10, <2>11
  <2> QED
    BY <1>0, <1>6, <2>8, <2>11, <2>12, PlacesByParts
<1>7. ASSUME Steady, NEW r \in Requests,
             \/ \E e \in Entries : DeleteCatalog(r, e)
             \/ \E S \in SUBSET Rows : RemoveCatalogLesson(r, S)
             \/ \E i \in Rows : UpdateCatalogLesson(r, i)
             \/ \E layout \in Layouts : StartSort(r, layout)
             \/ UpdateCatalogSort(r)
             \/ Rollback(r)
      PROVE  PlacesInv'
  <2>1. /\ UNCHANGED <<ahead, older, top>>
        /\ pc' = pc \/ \E label \in {"Done", "Sort"} : GoTo(r, label)
    BY <1>7 DEF DeleteCatalog, RemoveCatalogLesson, UpdateCatalogLesson, StartSort,
                UpdateCatalogSort, Rollback, requestVars, history
  <2>2. \A i \in Items : presence[i] = "Absent" => presence'[i] = "Absent"
    BY <1>0, <1>7
       DEF DeleteCatalog, RemoveCatalogLesson, UpdateCatalogLesson, StartSort,
           UpdateCatalogSort, Rollback, rowVars, Here, CatalogTypeOK
  <2>3. \A s \in Requests : pc'[s] \in {"Insert", "InsertLessons"} =>
          pc[s] \in {"Insert", "InsertLessons"}
    BY <1>0, <2>1 DEF GoTo, CatalogTypeOK
  <2> QED
    BY <1>2, <1>7, <2>1, <2>2, <2>3
<1>8. ASSUME Steady, UNCHANGED catalogVars
      PROVE  PlacesInv'
  BY <1>2, <1>8 DEF catalogVars, requestVars, history, rowVars
<1> QED
  BY <1>1, <1>3, <1>4, <1>5, <1>6, <1>7, <1>8, SteadySteps, RollbackSteps DEF CatalogNext

LEMMA PlacesFollow == PlacesInv => PositionsHold
<1>1. AppendedLast <=> \A i \in Here(Items) : \A j \in older[i] \cap Here(Items) :
        {i, j} \cap placed = {} => Sort(j) < Sort(i)
  BY DEF AppendedLast
<1>2. PlacesInv => AppendedLast
  BY <1>1 DEF PlacesInv, NewStandLast, Here, Known
<1>3. PlacesInv => ReorderIsWhole
  BY DEF PlacesInv, ArrangedStand, ReorderIsWhole
<1> QED
  BY <1>2, <1>3 DEF PositionsHold

(* However requests of the back office overlap, stop, fail or are rolled   *)
(* back, an item that AddCatalog or AddCatalogLesson has added stands last *)
(* among the siblings its request had found, until one of them is          *)
(* rearranged, and the items of the arrangement UpdateCatalogSort has      *)
(* committed last stand as it wanted them.                                 *)
THEOREM PositionsAlwaysHold == CatalogSpec => []PositionsHold
<1>1. CatalogInit => PlacesInv
  <2> SUFFICES ASSUME CatalogInit
               PROVE  PlacesInv
    OBVIOUS
  <2>1. \A i \in Known(Items) : older[i] = {}
    BY DEF CatalogInit, Known
  <2>2. Len(arrangement) = 0 /\ \A r \in Requests : ahead[r] = {} /\ pc[r] = "Idle"
    BY DEF CatalogInit
  <2> QED
    BY <2>1, <2>2
       DEF PlacesInv, HistoryIsKnown, AheadBelowTop, NewStandLast, ArrangedStand, Final
<1> QED
  BY <1>1, LocksInitStep, PlacesStep, PlacesFollow, PTL DEF CatalogSpec

=============================================================================

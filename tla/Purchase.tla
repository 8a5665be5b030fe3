------------------------------ MODULE Purchase ------------------------------
(***************************************************************************)
(* What customers are quoted, charged and given (service/order/customer.go,*)
(* payment.go and admin.go; adaptor/repo/{order,user,goods}): a quote is   *)
(* kept in redis for ten minutes with a copy of each course as it was, the *)
(* order takes its items from the quote, Alipay is told an amount in yuan, *)
(* the courses are delivered with the times of the copies, and a refund    *)
(* takes them back.  The back office changes prices and times meanwhile.   *)
(*                                                                         *)
(* How an order comes to be paid, cancelled or refunded, with its locks    *)
(* and queues, is in OrderLifecycle and OrderRefund; here those are        *)
(* single steps, and it is the amounts, the copies, the times and the rows *)
(* of user_course_goods that count.  Amounts are in fen.                   *)
(***************************************************************************)
EXTENDS Integers, FiniteSets, Functions

CONSTANTS
  Customers,   \* those who buy
  Courses,     \* ids of course_goods
  Prices,      \* the prices that courses are given, in fen
  Terms,       \* the learn times that courses are given; 0 is not a valid one
  First,       \* what each course is sold for at first
  Quotes,      \* the requests OrderCalcFee, which are the keys of the quotes too
  Orders,      \* the requests OrderPayNow, which are the orders too
  Amounts,     \* the amounts, in fen, that refunds are asked for
  QuoteTime,   \* OrderCalcFeeExpire
  CalcTime,    \* the longest that OrderCalcFee may take to write its quote
  MaxTime,     \* bound: the end of time
  MaxUpdates,  \* bound: updates of courses in a behaviour
  MaxFaults,   \* bound: failed calls and lost servers in a behaviour
  None         \* no customer, no trade, no time

\* What a course is sold for; the copies of it in quotes and in order_items.
Offer == [price : Prices, term : Terms]

ASSUME PurchaseAssumption ==
  /\ Prices \subseteq Nat /\ Terms \subseteq Nat /\ Amounts \subseteq Nat
  /\ First \in [Courses -> Offer]
  /\ IsFiniteSet(Courses)
  /\ QuoteTime \in Nat /\ CalcTime \in Nat /\ MaxTime \in Nat
  /\ MaxUpdates \in Nat /\ MaxFaults \in Nat
  /\ None \notin Customers \cup Nat

VARIABLES
  now,        \* the time
  course,     \* course_goods: course_price and learn_time
  quote,      \* a request OrderCalcFee, and the quote it leaves in redis
  order,      \* a request OrderPayNow, and the row and items it leaves
  status,     \* orders.status
  amount,     \* orders.payment_amount
  trade,      \* what Alipay charges for the order, None without a trade
  paid,       \* has the customer paid the trade? (external)
  rows,       \* user_course_goods
  refund,     \* the refund of an order: its row of order_refunds, and Alipay's answer
  updates,    \* updates of courses so far
  faults,     \* failures so far
  \* history
  offers,     \* what was on sale at each moment
  delivered   \* when the courses of an order were delivered last

goodsVars  == <<course, updates, offers>>
moneyVars  == <<amount, trade>>
orderVars  == <<order, status, paid, refund>>
vars == <<now, goodsVars, quote, orderVars, moneyVars, rows, delivered, faults>>

Copies == UNION {[S -> Offer] : S \in SUBSET Courses}
Blank  == [c \in {} |-> c]

Price(items) == [c \in DOMAIN items |-> items[c].price]
Total(items) == FoldFunction(+, 0, Price(items))

(* strings.TrimSuffix(amount, "00"), which Alipay reads as yuan.  An       *)
(* amount that does not end in 00 stays as it is: 150 fen are sent as 150  *)
(* yuan.                                                                   *)
Yuan(fen) == IF fen % 100 = 0 THEN fen \div 100 ELSE fen
Sent(fen) == 100 * Yuan(fen)

Totals == {Total(items) : items \in Copies} \cup {0}

TypeOK ==
  /\ now \in Nat
  /\ course \in [Courses -> Offer]
  /\ quote \in [Quotes -> [pc : {"Idle", "Set", "Kept", "Lost"}, items : Copies, at : Nat]]
  /\ order \in [Orders -> [pc : {"Idle", "Create", "PrePay", "Poll", "Commit", "Done"},
                           user : Customers \cup {None}, items : Copies, at : Nat]]
  /\ status \in [Orders -> {"Absent", "WaitPay", "Payed", "Refund"}]
  /\ amount \in [Orders -> Totals]
  /\ trade \in [Orders -> {Sent(total) : total \in Totals} \cup {None}]
  /\ paid \in [Orders -> BOOLEAN]
  /\ rows \subseteq [user : Customers, order : Orders, goods : Courses, expires : Nat]
  /\ refund \in [Orders -> [pc : {"None", "Processing", "Revoked", "Closed"},
                            items : SUBSET Courses, amount : Nat,
                            answer : {"None", "Done", "Failed"}]]
  /\ updates \in Nat
  /\ faults \in Nat
  /\ offers \subseteq [at : Nat, list : [Courses -> Offer]]
  /\ delivered \in [Orders -> Nat \cup {None}]

Init ==
  /\ now = 0
  /\ course = First
  /\ quote = [q \in Quotes |-> [pc |-> "Idle", items |-> Blank, at |-> 0]]
  /\ order = [o \in Orders |-> [pc |-> "Idle", user |-> None, items |-> Blank, at |-> 0]]
  /\ status = [o \in Orders |-> "Absent"]
  /\ amount = [o \in Orders |-> 0]
  /\ trade = [o \in Orders |-> None]
  /\ paid = [o \in Orders |-> FALSE]
  /\ rows = {}
  /\ refund = [o \in Orders |->
                 [pc |-> "None", items |-> {}, amount |-> 0, answer |-> "None"]]
  /\ updates = 0
  /\ faults = 0
  /\ offers = {[at |-> 0, list |-> First]}
  /\ delivered = [o \in Orders |-> None]

-----------------------------------------------------------------------------
Fault == faults < MaxFaults /\ faults' = faults + 1

-----------------------------------------------------------------------------
(* UpdateCourse leaves alone what the form does not fill in.               *)
UpdateCourse(c, offer) ==
  /\ updates < MaxUpdates
  /\ updates' = updates + 1
  /\ course' = [course EXCEPT ![c] =
                  [price |-> IF offer.price = 0 THEN @.price ELSE offer.price,
                   term  |-> IF offer.term = 0 THEN @.term ELSE offer.term]]
  /\ offers' = offers \cup {[at |-> now, list |-> course']}
  /\ UNCHANGED <<now, quote, orderVars, moneyVars, rows, delivered, faults>>

(* OrderCalcFee: one SELECT reads the courses, whether or not they are on   *)
(* the shelf.                                                              *)
GetCourseInfoByIds(q, S) ==
  /\ quote[q].pc = "Idle"
  /\ S # {}
  /\ quote' = [quote EXCEPT ![q] =
                 [pc |-> "Set", items |-> [c \in S |-> course[c]], at |-> now]]
  /\ UNCHANGED <<now, goodsVars, orderVars, moneyVars, rows, delivered, faults>>

SetOrderCalcFee(q) ==
  /\ quote[q].pc = "Set"
  /\ quote' = [quote EXCEPT ![q].pc = "Kept", ![q].at = now]
  /\ UNCHANGED <<now, goodsVars, orderVars, moneyVars, rows, delivered, faults>>

(* OrderPayNow: the quote stays, so that a second order may be made of it.  *)
Buy(o, u, q) ==
  /\ order[o].pc = "Idle"
  /\ quote[q].pc = "Kept"
  /\ Total(quote[q].items) # 0
  /\ order' = [order EXCEPT ![o] =
                 [pc |-> "Create", user |-> u, items |-> quote[q].items, at |-> now]]
  /\ amount' = [amount EXCEPT ![o] = Total(quote[q].items)]
  /\ UNCHANGED <<now, goodsVars, quote, status, paid, refund, trade, rows, delivered,
                 faults>>

\* Wrong: quotes do not expire.
GetOrderCalcFeeForever(o, u, q) == Buy(o, u, q)

GetOrderCalcFee(o, u, q) ==
  /\ now < quote[q].at + QuoteTime
  /\ Buy(o, u, q)

CreateOrder(o) ==
  /\ order[o].pc = "Create"
  /\ status' = [status EXCEPT ![o] = "WaitPay"]
  /\ order' = [order EXCEPT ![o].pc = "PrePay"]
  /\ UNCHANGED <<now, goodsVars, quote, paid, refund, moneyVars, rows, delivered, faults>>

(* assemblyAliPayParam and PagePrePayOrder, and the customer opens the page. *)
PagePrePayOrder(o) ==
  /\ order[o].pc = "PrePay"
  /\ trade' = [trade EXCEPT ![o] = Sent(amount[o])]
  /\ order' = [order EXCEPT ![o].pc = "Poll"]
  /\ UNCHANGED <<now, goodsVars, quote, status, paid, refund, amount, rows, delivered,
                 faults>>

Pay(o) ==
  /\ trade[o] # None
  /\ ~paid[o]
  /\ paid' = [paid EXCEPT ![o] = TRUE]
  /\ UNCHANGED <<now, goodsVars, quote, order, status, refund, moneyVars, rows, delivered,
                 faults>>

-----------------------------------------------------------------------------
\* Wrong: a trade that is there is taken for one that is paid.
TradeExists(o) == trade[o] # None

(* What Alipay answers to the poll.                                        *)
IsPayed(o) == paid[o]

(* The poll finds the trade paid: userBenefitPackage inserts the rows on a *)
(* connection of its own, before the status is committed.                  *)
UserBenefitPackage(o) ==
  LET items == order[o].items
  IN  /\ order[o].pc = "Poll"
      /\ IsPayed(o)
      /\ \A c \in DOMAIN items : items[c].term # 0
      /\ rows' = rows \cup {[user |-> order[o].user, order |-> o, goods |-> c,
                             expires |-> now + items[c].term] : c \in DOMAIN items}
      /\ delivered' = [delivered EXCEPT ![o] = now]
      /\ order' = [order EXCEPT ![o].pc = "Commit"]
      /\ UNCHANGED <<now, goodsVars, quote, status, paid, refund, moneyVars, faults>>

CommitPayed(o) ==
  /\ order[o].pc = "Commit"
  /\ status' = [status EXCEPT ![o] = "Payed"]
  /\ order' = [order EXCEPT ![o].pc = "Done"]
  /\ UNCHANGED <<now, goodsVars, quote, paid, refund, moneyVars, rows, delivered, faults>>

(* The commit fails: a later poll delivers again.                          *)
RollbackPayed(o) ==
  /\ order[o].pc = "Commit"
  /\ order' = [order EXCEPT ![o].pc = "Poll"]
  /\ Fault
  /\ UNCHANGED <<now, goodsVars, quote, status, paid, refund, moneyVars, rows, delivered>>

-----------------------------------------------------------------------------
(* OrderRefund, from its checks to CreatOrderRefund.  Alipay pays back no  *)
(* more than the trade, and takes one refund of a trade (see OrderRefund). *)
OrderRefund(o, S, fen) ==
  /\ status[o] = "Payed"
  /\ refund[o].pc = "None"
  /\ S # {}
  /\ S \subseteq DOMAIN order[o].items
  /\ fen > 0
  /\ fen <= Total([c \in S |-> order[o].items[c]])
  /\ fen <= amount[o]
  /\ Sent(fen) <= trade[o]
  /\ refund' = [refund EXCEPT ![o] =
                  [pc |-> "Processing", items |-> S, amount |-> fen, answer |-> "None"]]
  /\ UNCHANGED <<now, goodsVars, quote, order, status, paid, moneyVars, rows, delivered,
                 faults>>

(* Alipay pays the refund, or closes it without.                           *)
AnswerRefund(o, answer) ==
  /\ refund[o].pc = "Processing"
  /\ refund[o].answer = "None"
  /\ refund' = [refund EXCEPT ![o].answer = answer]
  /\ UNCHANGED <<now, goodsVars, quote, order, status, paid, moneyVars, rows, delivered,
                 faults>>

\* Wrong: the courses go, whichever order they came with.
RefundedRowsOfUser(o) ==
  {row \in rows : row.user = order[o].user /\ row.goods \in refund[o].items}

(* DeleteUserCourse takes the rows of the refunded items.                  *)
RefundedRows(o) ==
  {row \in rows : row.user = order[o].user /\ row.order = o /\ row.goods \in refund[o].items}

(* The poll has Alipay's answer, whichever it is.  Within the transaction  *)
(* that is to write it, RefundDeliveryFun takes the courses on a           *)
(* connection of its own.                                                  *)
RefundDeliveryFun(o) ==
  /\ refund[o].pc = "Processing"
  /\ refund[o].answer # "None"
  /\ rows' = rows \ RefundedRows(o)
  /\ refund' = [refund EXCEPT ![o].pc = "Revoked"]
  /\ UNCHANGED <<now, goodsVars, quote, order, status, paid, moneyVars, delivered, faults>>

(* The transaction is committed: the answer is in the row, and the order   *)
(* is refunded if Alipay has paid back all of it, or each of its items.    *)
UpdateOrderRefundResult(o) ==
  LET whole == \/ refund[o].amount >= amount[o]
               \/ refund[o].items = DOMAIN order[o].items
  IN  /\ refund[o].pc = "Revoked"
      /\ refund' = [refund EXCEPT ![o].pc = "Closed"]
      /\ status' = [status EXCEPT ![o] =
                      IF refund[o].answer = "Done" /\ whole THEN "Refund" ELSE @]
      /\ UNCHANGED <<now, goodsVars, quote, order, paid, moneyVars, rows, delivered, faults>>

(* The commit fails: the courses are gone, and the refund is still being   *)
(* processed, to be polled again.                                          *)
RollbackRefundResult(o) ==
  /\ refund[o].pc = "Revoked"
  /\ refund' = [refund EXCEPT ![o].pc = "Processing"]
  /\ Fault
  /\ UNCHANGED <<now, goodsVars, quote, order, status, paid, moneyVars, rows, delivered>>

-----------------------------------------------------------------------------
(* A call fails, or the server stops: the request ends where it is.        *)
StopQuote(q) ==
  /\ quote[q].pc = "Set"
  /\ quote' = [quote EXCEPT ![q].pc = "Lost"]
  /\ Fault
  /\ UNCHANGED <<now, goodsVars, orderVars, moneyVars, rows, delivered>>

StopOrder(o) ==
  /\ order[o].pc \in {"Create", "PrePay"}
  /\ order' = [order EXCEPT ![o].pc = "Done"]
  /\ Fault
  /\ UNCHANGED <<now, goodsVars, quote, status, paid, refund, moneyVars, rows, delivered>>

Tick ==
  /\ now < MaxTime
  /\ \A q \in Quotes : quote[q].pc = "Set" => now < quote[q].at + CalcTime
  /\ now' = now + 1
  /\ offers' = offers \cup {[at |-> now', list |-> course]}
  /\ UNCHANGED <<course, updates, quote, orderVars, moneyVars, rows, delivered, faults>>

Next ==
  \/ \E c \in Courses, p \in Prices \cup {0}, t \in Terms \cup {0} :
       UpdateCourse(c, [price |-> p, term |-> t])
  \/ \E q \in Quotes :
       \/ \E S \in SUBSET Courses : GetCourseInfoByIds(q, S)
       \/ SetOrderCalcFee(q)
       \/ StopQuote(q)
  \/ \E o \in Orders :
       \/ \E u \in Customers, q \in Quotes : GetOrderCalcFee(o, u, q)
       \/ CreateOrder(o)
       \/ PagePrePayOrder(o)
       \/ Pay(o)
       \/ UserBenefitPackage(o)
       \/ CommitPayed(o)
       \/ RollbackPayed(o)
       \/ \E S \in SUBSET Courses, fen \in Amounts : OrderRefund(o, S, fen)
       \/ \E answer \in {"Done", "Failed"} : AnswerRefund(o, answer)
       \/ RefundDeliveryFun(o)
       \/ UpdateOrderRefundResult(o)
       \/ RollbackRefundResult(o)
       \/ StopOrder(o)
  \/ Tick

Spec == Init /\ [][Next]_vars

-----------------------------------------------------------------------------
(* HasValidUserCourse, and with it the lessons of the course that are not   *)
(* on trial (getLessonLearnSessionInfo).                                   *)
HasValidUserCourse(u, c) ==
  \E row \in rows : row.user = u /\ row.goods = c /\ row.expires >= now

(* An order is made of one and the same moment of the shop, no older than  *)
(* a quote may be, however prices and times were changed meanwhile.        *)
SoldAsQuoted ==
  \A o \in Orders : status[o] # "Absent" =>
    \E m \in offers :
      /\ m.at <= order[o].at
      /\ order[o].at < m.at + CalcTime + QuoteTime
      /\ order[o].items = [c \in DOMAIN order[o].items |-> m.list[c]]

(* When an order, paid at Alipay, lets a customer learn a course: for the  *)
(* time that the copy of the course says, from the last delivery on.       *)
Entitles(o, u, c) ==
  /\ order[o].user = u
  /\ c \in DOMAIN order[o].items
  /\ paid[o]
  /\ delivered[o] # None
  /\ delivered[o] + order[o].items[c].term >= now

(* A customer can learn a course while one of the customer's own orders    *)
(* entitles to it and Alipay has answered no refund of it, and cannot when *)
(* no order does but those whose refund of it is closed: what was          *)
(* delivered twice goes at once, and what other orders have delivered      *)
(* stays.  Between the answer and the commit the courses may be gone, or   *)
(* not yet.  A refund that Alipay has not paid takes them as well.         *)
AccessIsBought ==
  \A u \in Customers, c \in Courses :
    /\ HasValidUserCourse(u, c) =>
         \E o \in Orders : /\ Entitles(o, u, c)
                           /\ ~(refund[o].pc = "Closed" /\ c \in refund[o].items)
    /\ \A o \in Orders :
         /\ Entitles(o, u, c)
         /\ ~(refund[o].answer # "None" /\ c \in refund[o].items)
         => HasValidUserCourse(u, c)

(* Seen as placed, paid for and delivered, a purchase keeps the contract   *)
(* that OrderLifecycle keeps: this module may leave the locks and queues   *)
(* of that one out.  Goods count as delivered when the commit that follows *)
(* the delivery makes the order Payed; a refund changes nothing of that.   *)
Contract == INSTANCE OrderContract WITH
  Orders <- Orders,
  state  <- [o \in Orders |-> IF status[o] = "Refund" THEN "Payed" ELSE status[o]],
  paid   <- paid,
  goods  <- [o \in Orders |->
              IF status[o] \in {"Payed", "Refund"} /\ delivered[o] # None THEN 1 ELSE 0]

\* However calls fail and are repeated, an order is placed once, paid at
\* most once, and delivered in exchange for the money and for that only.
PurchaseKeepsContract == Contract!Spec
=============================================================================

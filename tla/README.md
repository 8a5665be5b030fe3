# Verification of the education mall

The repository is the server of a shop for online courses: a back office and a
customer API over MySQL, redis and Alipay, with timers that move orders on.
This directory holds TLA+ models of its stateful parts, the TLC configurations
that check them on small instances, and proofs, checked by TLAPS, of the
properties that matter most. Orders come first (sections 3 to 6), then what
they rest on: tokens, logins, the back office, catalogue and lessons.

Run `tlc -config X.cfg M.tla` for a run of `PROJECT.json` and
`tlapm M.tla` for a module with proofs.

## 1. The system

| part | state it keeps | operations | hard about it |
|---|---|---|---|
| Order lifecycle (`service/order/{customer,cancel,timeout,payment}.go`, `timer/`) | MySQL `orders`, `order_items`, `user_course_goods`; redis: order lock, sorted set of unpaid orders, hash of polled payments; the trade at Alipay | OrderPayNow, CancelOrder, AdminCancelOrder, TimeOutOrderCancel, QueryOrderPayResult | four actors on one order, a lock that expires, state in three stores with no common transaction |
| Order refunds (`service/order/admin.go`) | `order_refunds`, refund columns of `orders`, `user_course_goods`; redis: order lock, hash of polled refunds; refunds at Alipay | OrderRefund, QueryOrderRefundResult | a remote call inside a transaction, several refunds of an order behind one queue entry |
| Order pricing (`service/order/customer.go`) | the quote in redis, copies of the courses in `order_items` | OrderCalcFee, OrderPayNow, the amounts sent to Alipay, UpdateCourse | prices change between quote and purchase; unit conversion |
| Worker and order ids (`adaptor/redis/genid.go`, `utils/snowflake`) | leased worker ids in redis, clock and sequence in memory | NewGenIdNode, runHeartbeat, GetNextID | a lease that expires under a stalled server, clocks that step back, a sequence that wraps |
| Third-party tokens (`service/token`, `adaptor/redis/{lock,token}.go`) | cached Lark token, its locker | GetToken, updateToken | one refresher and many waiters, a locker with expiry and renewal |
| Sessions and login (`adaptor/redis/verify.go`, `service/{user,admin}/login.go`, `router/auth.go`) | captcha tickets, SMS codes, tokens, counters of wrong passwords | captcha, SMS and password logins, reset, logout | several calls on one key, two keys per token |
| Accounts (`service/user`, `adaptor/repo/user`) | `user`, `mobile_user` | registration, profile | create after check |
| Catalogue (`service/goods`, `adaptor/repo/goods`) | courses, catalogue tree and its order, lessons, category tree | add, move, sort, delete | positions computed before the insert, deletion after a check, trees |
| Learning (`service/goods/learn.go`, `adaptor/repo/goods/learn.go`) | `user_course_goods` (written by orders) | who may learn a lesson | access that outlives, or ends before, what was paid for |
| Back office (`service/{admin,role,perm}`) | users, roles, permissions | CRUD | permission tree, replacement of assignments |
| Cart, storage, HTTP layer, utilities, generated data access | rows or nothing | single statements, I/O | nothing that a model would settle |

The parts meet in MySQL and redis. An order takes its prices from the
catalogue, its number from the id generator; the order handlers deliver courses
(`CreateUserCourse`) and refunds take them away (`DeleteUserCourse`); the timers
call the order services; the order lock is shared by the handlers of orders and
of refunds. What makes each part correct:

- lifecycle: one handler at a time per order; goods exactly once and only for
  money; Payed and Cancel are final; every order settles; polls end.
- refunds: the recorded amount is what was refunded; courses go exactly with
  refunded items; every refund reaches a result; no more is refunded than paid.
- ids: two servers never generate the same id. Tokens: one refresh at a time, and
  a token is handed out only while it is valid.
- pricing: an order is of one moment of the shop. Learning: access is what was bought
  and not refunded.
- logins: what is for one use lets one request through, guesses are limited, nobody is
  locked out for good. Back office: a token ends with what it stands for, permissions
  are those the last update wanted.
- catalogue: a new item is the last, an arrangement is whole, nothing is orphaned, a
  video goes exactly when no lesson shows it.

## 2. Plan

The order the modules were written in, all of it done but item 7:

1. `OrderLifecycle`, its abstract specification `OrderContract`, the refinement
   `OrderImplementation`, and the proofs.
2. `OrderRefund`: refunds of a paid order with their poll; `OrderIds`: the lease of
   worker ids and the ids made under it; proofs of both.
3. `Purchase`: quote, order, payment, delivery, refund and access in one module, with
   the first two reduced to single steps and prices that change.
4. `LarkToken`: the cached token of Lark under its lock, and the messages sent with it.
5. `CustomerLogin`, `BackOffice`, `CourseCatalog`, `Lessons`: requests that overlap on
   one account, role, catalogue or tree.
6. Contracts: `RefundContract`, which `OrderRefund` implements, and `OrderContract`,
   which `Purchase` implements too, so that the module that joins everything is tied to
   the one that has the locks and queues; proofs of both and of `CourseCatalog`.
7. Left: a refund contract for `Purchase` as well, which would need the total of an order
   there; the bound of 500 orders in one run of the timeout job, which needs an instance
   with more orders than a run reads.

Every module comes with an `MC` module, one `.cfg` or more of the run's name, and a
module `_proofs`; `Courses_proofs` has the proofs about both `Purchase` and
`CourseCatalog`, which share no name. Each property has a wrong variant of the code
that breaks it, next to the definition it replaces (`\* Wrong:`).

## 3. OrderLifecycle

### Correspondence

| model | code |
|---|---|
| `status` | `orders.status`: 1 WaitPay, 2 Payed, -1 Cancel; `Absent` before the insert |
| `entitled` | rows of the order in `user_course_goods`, counted in deliveries |
| `polled`, `scheduled` | redis hash `order:pay:result`, sorted set `order:timeout:cancel` |
| `lock` | redis key `lock:order:<id>`; the uuid of a call is the worker that makes it |
| `trade` | the trade with `inner_trade_no` at Alipay (external) |
| `creating` | progress of the OrderPayNow request that places the order |
| `pc`, `ord`, `todo` | a goroutine: next call, its order, the orders its job run has still to visit |
| `age` | time since the order was put into redis, in the four intervals the code tells apart |
| `faults` | failed calls and crashes so far |

One action per call: `OrderPayNow` is `CreateOrder`, `PagePrePayOrder`,
`SetOrderPayResult`, `SetTimeoutOrderCancel`; a job run is `StartJob` (the read of
the set or hash) and, for each order, `NextOrder`, `GetOrderLock`,
`GetOrderByID`, then `CancelOrder` (timeout) or `QueryOrderByOutTradeNo`,
`UpdateStatusInTx`, `UserBenefitPackage`, `CommitPayed` (poll), then the two
deletions and `UnLockOrder`, the deferred call; a cancel request is the
same with `CloseOrder` in between. A request may name an order that is not there or is
another customer's: `GetOrderByID` then finds none and the handler returns. Every call may fail, with or without having
taken effect (`Fault`), and a worker may stop anywhere (`Crash`): MySQL rolls its
transaction back, redis keeps its keys. `UpdateStatusInTx` is invisible to others
until `CommitPayed`, and excludes other writers of the row (`RowLocked`);
`UserBenefitPackage` writes on a connection of its own, so it is visible at once
and survives a rollback.

Abstractions: the items of an order are delivered as one (CreateInBatches is one
statement up to 100 items); the answer of a failed read is an error; goods whose
learn or service time is outside 1..6 (`InvalidGoods`) make the delivery fail
every time; an order that costs nothing is refused before it exists. The order
lock is also taken by the refund handlers; for an order of this module that is
one more reason for `GetOrderLock` to fail.

External assumptions: a trade exists once the customer opens the payment page,
which needs the URL, which is returned after `SetTimeoutOrderCancel`; a paid
trade stays paid; a waiting one can be closed. `tx.Model(&Order{})` in
`UpdateOrderPaySuccess` names the repository's own struct instead of the row's;
gorm derives the same table name, `orders`, from it.

`SlowCalls` says whether a call may outlast the ten seconds of the lock. FALSE: a
lock expires only after its owner has left without releasing it. TRUE: at any
time.

### Runs

All with `OrderLifecycleMC`. Deadlock is not checked: behaviours end when no
order is left to place or to handle.

| run | instance | shows |
|---|---|---|
| `OrderLocked` | 1 order, 1 timeout run, 2 overlapping polls, 1 cancel request, 2 faults, fair | `LockExclusive`, `StatusSettlesOnce`, `CancelledUndelivered`, `DuplicateNeedsFault`; `WaitingSettles`, `PollEnds` |
| `OrderSlowCalls` | the same with 1 fault, locks that expire at any time, ages to 7 days | `DeliveredOnlyIfPaid`, `PayedIsDelivered`, `WaitingIsScheduled`, `FreshIsPolled`, `OwnerUnlocks` |
| `OrderContractKept` | 2 orders, the goods of one invalid, 1+1 job runs, no faults, fair | `ImplementsContract`; and `WaitingSettles`, `PollEnds`: an order whose goods can never be delivered does not block the other, and is not polled for ever |
| `OrderPaidThenCancelled` | violation of `CancelledOnlyUnpaid` | a paid order the poll has not noticed yet is cancelled |

Met while modelling, besides the finding: when a cancel outlasts its lock, it can overwrite
Payed with Cancel; a payment made more than five minutes after the order is never
handled, because the poll gives the order up by then and the timeout job cancels it; and
an order whose creation fails after the insert waits for ever, as no timeout run finds it.
`FreshIsPolled` is the part of a promise that nobody's payment is missed which the code
keeps: in its first five minutes no placed order that waits is out of the hash. A poll
that runs later, a job that stands still that long, or a cancel can still miss one
(`CancelledOnlyUnpaid`).

Cancel requests are left out of `OrderContractKept` to make room for the second
order; the theorem `ContractImplemented` covers them.

Orders do not interact but through the job runs that visit several of them, so one
order suffices for safety and two for liveness. Two polls, a timeout run and a request
give every pair of handlers but two timeout runs or two requests, which do what one of
each does twice; two faults allow a lost answer and a crash in one behaviour. `MaxAge` is 30 minutes except where the seven-day window of
the timeout job matters: reaching it needs a week without a run.

### Fairness

`FairSpec` assumes that a placed order's request goes on, that a job starts again
(`timer.Start` schedules it every minute or five seconds) and goes on, that
locks expire (redis TTL) and that an order gets older up to 30 minutes. It does not
assume that anyone pays, cancels or opens a page, nor that the week passes.

### Refinement

`OrderContract` has no locks, queues or jobs: an order is placed, its price may be
paid, it is delivered in exchange or cancelled. `OrderImplementation` maps
`status`, a paid trade and the deliveries of Payed orders to it. It holds when no
call fails or is slow; with a failed commit goods are delivered before the order
is Payed, perhaps twice, and with slow calls both outcomes can happen.

### Proofs (`OrderLifecycle_proofs`)

For any number of orders, job runs and requests:

- `TypeCorrect`.
- Whatever fails and however slow calls are: `NoWaitingOrderIsLost`,
  `NoFreshOrderIsForgotten`, `NoFreeGoods`, `NoPayedOrderUndelivered` and, of each step, `OnlyOwnerUnlocks`: the
  uuid in the lock keeps a slow handler from deleting the lock of its successor, so
  that only its owner or its expiry ends a lock. The invariant `OrderInv` adds to
  the properties of states what a worker knows where it stands: a worker past the query
  (`Deliver`, `Commit`) has a paid trade, one at `Commit` has delivered, one
  that deletes entries works on an order that no longer waits.
- When calls do not outlast the lock: `OneHandlerPerOrder` from `Holder` (a
  worker in its critical part is the value of the lock), then
  `SettledForGood`, `CancelDeliversNothing` and `DuplicatesAreFaults` from
  `StatusStillRead` (the status a worker read is still there when it acts on it)
  and `Accounted` (deliveries are counted by faults and commits).
- Without faults and slow calls: `ContractImplemented`.

Assumed: `ConstantAssumption` only, besides the conditions in each theorem.
Liveness (`WaitingSettles`, `PollEnds`) is only model-checked.

## 4. OrderRefund

### Correspondence

| model | code |
|---|---|
| `status`, `refundAmount` | `orders.status` (2 Payed, 3 Refund), `orders.refund_amount` |
| `refund`, `id` | the row of `order_refunds` a request inserts: its status and its id; `Open` is a row only its transaction sees |
| `owned` | the items of the order that are still in `user_course_goods` |
| `polled` | the entry of the order in the redis hash `order:refund:result` |
| `lock` | the order lock, as in `OrderLifecycle` |
| `taken`, `answer` | the request whose refund Alipay accepted, and what it reports of it (external) |
| `cur`, `found`, `sum` | locals of `QueryOrderRefundResult`: its row, the items found in refunds, the new total |

`OrderRefund` is `GetOrderLock`, `Validate` (its reads and checks),
`SetOrderRefundResult`, then the transaction of `CreatOrderRefund`:
`InsertRefund`, `RefundOrder` (the call to Alipay inside it), `CommitRefund`; an
error of any of the three goes through `DelOrderRefundResult`. A run of the refund
job is `StartJob`, `GetOrderLock`, `GetOrderRefundByOrderID`, `QueryRefund`,
then `UpdateOrderRefundResult`: `ListRefunds` before the transaction,
`MarkRefund`, `SumRefunds`, `UpdateOrder`, `DeleteUserCourse` and `CommitResult`
in it. The writes of the transaction become visible in `RecordResult`;
`MarkRefund` and `UpdateOrder` are where it waits for row locks.
`DeleteUserCourse` uses a connection of its own, so its effect is immediate.
Faults and crashes are those of `OrderLifecycle`.

Abstractions: one order; the other refundable statuses (shipped, received,
completed) are never written by this code; a request inserts one row, so rows are
named after requests; reads that only fail or succeed are one step with the call
that follows them. Amounts are exact here: their conversion to Alipay's format
is in `Purchase`.

External assumption: the code gives Alipay no number of the refund
(`out_request_no`) and asks for the result under the number of the trade, which
is the number Alipay then takes. So a trade has one refund as far as this code
can see: a second request for the same amount is the same refund again, and one for
another amount is refused. An answer other than "in progress" is final.

### Runs

All with `OrderRefundMC`: two items, of prices 1 and 2, and requests that overlap,
repeat each other, cover everything, ask too much or nothing.

| run | instance | shows |
|---|---|---|
| `RefundLocked` | 2 of 6 requests, 2 overlapping polls, 1 fault, fair | `RefundAmountIsDone`, `LoneRefundIsQueued`, `UnrecordedNeedsFault`, `DoneRestsOnPayment`, `RevokedNeedsAnswer`, `RefundedNeedsDone`, `RefundSettles`, `RefundKeepsContract` |

`DoneRestsOnPayment`, `RevokedNeedsAnswer` and `RefundedNeedsDone` hold for slow calls
too: the theorems about them do not assume `~SlowCalls`.

Refunds meet only in pairs (a shared poll entry, a shared total, a shared
trade), so two requests and two polls give every conflict. Deadlock is not checked:
behaviours end when all requests were made and nothing is polled.

`RefundAmountIsDone` is the one that needs the lock: two polls that finish two
refunds side by side would each write a total without the other's.
`LoneRefundIsQueued` and `RefundSettles` are limited to a refund without a rival,
because with a rival the code loses it: the end of the first refund deletes the one poll
entry of the order, and the second stays Processing. Two requests for the same item are
not told apart either, so both can end as done, for more than the item's price.
`DoneRestsOnPayment` says no more than the code keeps: behind a refund that shows as done
there is a payment of its amount by Alipay, its own or that of an equal request. Two
requests of one amount are one refund to Alipay, so it pays once, and both rows end as done.
`UnrecordedNeedsFault` has its condition on faults because Alipay is called inside
the transaction: a failed commit forgets a refund that was paid.

Also, by design of `ListRefunds`, an order becomes Refund when its refunds cover
all items, whether or not the others are done: `RefundedNeedsDone` claims no more
than one that is done.

### Fairness

`FairSpec` assumes that handlers go on, that the refund job starts again (`timer.Start`), that
locks expire and that Alipay settles what it accepted. Nobody has to ask for a
refund.

### Refinement

`RefundContract` has no locks, jobs, transactions or failures: Alipay accepts a refund
and settles it; the mall records a refund that Alipay agreed to and that the order still
allows, takes its courses away once the result is known, and then records the result,
which adds the refund's own amount to the total if it was paid. `OrderRefund` keeps it
(`RefundKeepsContract`) under a lock that holds, for any failures and crashes: what polls
and requests do side by side looks like one refund after the other. The total is where
this is more than bookkeeping: the code writes a sum over rows that it read two
statements before, the contract an addition. What the contract does not promise is what
the code does not do: two refunds of one item, or two of one amount of which Alipay paid
one, both count.

### Proofs (`OrderRefund_proofs`)

For any items, prices, requests and numbers of polls:

- `TypeCorrect`.
- Whatever fails and however slow calls are: `NoDoneWithoutPayment`,
  `NoCourseLostUnasked`, `RefundedOrderHasDone`, `MoneyIsRecorded`. They rest on
  facts about where a worker stands: a request that has inserted its row
  still owns it (`RowOfRequest`), a poll past its read works on a recorded row
  (`RowOfPoll`), and a row is marked only with Alipay's final answer
  (`ResultIsAnswer`); and on one about rows, that those recorded have the amount that
  Alipay accepted (`RowsAreAgreed`).
- When calls do not outlast the lock: `AmountIsExact`, from `Holder` (a worker
  in its critical part is the value of the lock) and `SumIsFresh` (the total a
  poll carries is still that of the refunds done, with its own), and
  `LoneRefundIsPolled`, from `LoneIsPolled`.
- When calls do not outlast the lock: `RefundContractKept`. `StillAsked` says that an
  order stays refundable, and a refund one that Alipay agreed to, until its request has
  committed; `StillOpen` that a poll's row stays in progress, and the items it has found
  are those of all rows, until its commit. With `SumIsFresh` the commit of a poll is then
  `Finish` of the contract.
- `AmountAdds`: one more refund adds its amount to `AmountOf`. That is a fold, which takes
  its elements in an order of its own; each induction over sets it needs is made by taking
  the counterexample with the fewest elements (`LeastSet`).

Assumed: `RefundAssumption` only. `RefundSettles` is only model-checked.

## 5. OrderIds

### Correspondence

| model | code |
|---|---|
| `holder`, `expires` | the redis key `genid:<worker id>`: the uuid in it, the end of its TTL |
| `node`, `workerID` | a `GenIdNode`: not created, in `getWorkerID`, in use, gone |
| `tick`, `beat`, `tries` | `runHeartbeat`: the tick it serves or waits for, its next call of redis, the failed ones for this tick |
| `lastStamp`, `sequence` | the fields of `snowflake.Node` |
| `pc`, `at`, `renewed`, `until` | a call of GetNextID: where it stands, its generator, when it renewed the lease, the end of its sleep |
| `issued`, `repeated` | ids returned, and those returned twice |

`getWorkerID` is one SetNX per step, from worker id 1 on; an error counts as
"taken", also when redis had executed it. `Heartbeat` is one renewal: an error is
tried again after `Pause`, `MaxRetry` times in all, a lost lease is no
error and is not noticed; the ticker keeps one tick for a late heartbeat
(`AwaitTick`). A call is `RenewToGenerate` (the Lua script), `ReadClock` under the
mutex of the node, `WakeUp` after its sleep and `NextMillisecond` when the
sequence of a millisecond is used up. A server may stop anywhere (`Crash`).

Time is explicit: redis keeps the true time, each reading of a server's clock may
be wrong by up to `Skew` in either direction, so clocks differ and step back. The
ids are packed as in the code, with the same widths.

Assumed of the environment: a call returns within `Delay` of its renewal and
heartbeats run on time (`TimePasses`); no clock is set back while a call sleeps
(`ClockSetAsleep = FALSE`). The code relies on all three without saying so.
GetNextID compares the clock with the last stamp once, before its sleep: if the
clock is set back meanwhile, the stamp goes back with it, and with
`ClockSetAsleep = TRUE` TLC finds ids out of order.

### Run

`OrderIds` (module `OrderIdsMC`): 2 generators, 2 calls at a time, 2 worker ids,
sequences of 2, up to 3 ids, 2 faults, clocks wrong by 1, 6 units of time; a lease
lasts 4 and is renewed every 2, a retry waits 1 and there are 2 tries, which
leaves room for the retries as 60, 30, 10 and 3 do in the code. That is enough for a
lease to expire and pass to the other generator, for a retry, a wrapped
sequence and a sleep. It shows `Unique`, `IdsIncrease` and `LeaseKept`. Generators
may fail to find a worker id, and behaviours end at the bounds: deadlock is
not checked.

### Proofs (`OrderIds_proofs`)

For any number of generators, calls and worker ids, any clock error and times:

- `TypeCorrect`, with `Mutex` (one call at a time sleeps or spins in a node) and
  `SpinReset` (it has reset the sequence).
- `IdsOfOneGeneratorIncrease`, from `OwnBelow`: what a generator has returned is
  not above its last stamp and sequence, except while a call spins. No
  assumption on the lease.
- `NoIdTwice`, if `Delay + 2 * Skew < TTL`: a call that has renewed still has the
  lease when it stamps (`InFlightHolds`), so every id is older than the lease
  it was made under (`IdsOld`), and those of earlier holders of a worker id are
  older than any stamp a clock can show now (`OthersOld`).
- `WorkerIdKept`, if the retries fit between ticks and before the expiry:
  from `Beating`, the heartbeat is behind its tick by at most its retries.

`NextCases` first turns the steps of a call into the three effects the proofs
tell apart: it returns an id, spins or sleeps.

## 6. Purchase

### Correspondence

| model | code |
|---|---|
| `course` | `course_goods.course_price` and `learn_time`; `UpdateCourse` leaves a field alone that the form does not fill in |
| `quote` | the key of `SetOrderCalcFee`: the total and a copy of each course, for `OrderCalcFeeExpire` |
| `order`, `amount`, `status` | the row of `orders` with its `payment_amount`, and its `order_items` |
| `trade` | what Alipay charges: the amount as `assemblyAliPayParam` writes it |
| `paid` | the trade at Alipay (external) |
| `rows` | `user_course_goods` |
| `refund` | the row of `order_refunds`, where its poll stands, and Alipay's answer (external) |
| `offers`, `delivered` | history: what was on sale at each moment, when an order was delivered last |

`OrderCalcFee` is `GetCourseInfoByIds` (one SELECT) and, later, `SetOrderCalcFee`;
`OrderPayNow` is `GetOrderCalcFee`, `CreateOrder` and `PagePrePayOrder`; the poll is
`UserBenefitPackage` and `CommitPayed`, or `RollbackPayed`, after which the rows are
there and come again. `OrderRefund` has the checks of the amount;
Alipay pays the refund or closes it (`AnswerRefund`). The refund's poll is
`RefundDeliveryFun`, which deletes the rows whichever the answer is and on a connection of
its own, and then `UpdateOrderRefundResult`, the commit, which makes the order Refund when
all of it was paid back, or `RollbackRefundResult`, after which the rows are gone, the refund
is still in progress, and the poll comes again. `HasValidUserCourse` is the test that
guards lessons.

Abstractions: locks, queues, cancels and polls are those of sections 3 and 4 and are
single steps here; learn time and service time are one `term` (both are copied and
added up alike); amounts are in fen and sums are exact.

### Run

`Purchase`: a course at 1 yuan and one at 1.50, two customers, one quote, two orders,
one update to either price, refunds of 1 yuan, one failure, time to 2 where a quote and the
shorter course live 1. One quote is enough for two orders to share it, by two customers
even, and for an update to come between the quote and either; 100 and 150 are the two kinds
of amounts for Alipay, with and without a final 00. Time is enough for a quote and a course
to run out.

- `SoldAsQuoted`: the items of an order are all copies of one and the same moment, no
  older than a quote may be. Against: a quote that does not expire.
- `AccessIsBought`: a customer can learn a course while an order of the customer, paid and
  delivered, entitles to it and Alipay has answered no refund of it, and cannot when the
  only such orders have closed refunds of it. That includes refunds that failed, double
  deliveries and two orders for one course. Between Alipay's answer and the commit nothing
  is promised, since the rows go before it.
- `PurchaseKeepsContract`: placing, paying and delivering implement `OrderContract`, the
  specification that `OrderLifecycle` implements; there are no cancels here. Against: a
  trade that exists is taken for one that is paid (`IsPayed`).

### Proofs (`Courses_proofs`)

For any courses, prices, customers, orders, times and failures: `TypeCorrect`;
`OrdersAreOfOneMoment` (`SoldAsQuoted`), from `QuotesAreCopies` and `OrdersAreSold`,
which follow the copy from the shop to the quote and to the order;
`AccessIsAlwaysBought`, from `StagesAreOrdered` (rows only after payment, refunds only
after Payed, answers before what rests on them), `RowsAreOwed` (a row belongs to an order
that entitles to it, expires no later than its last delivery says, and is none that a refund
has taken) and `OwedHasRow` (and there is such a row until Alipay has answered a refund).
`ContractIsKept`, from `StagesAreOrdered` and `OrdersArePlaced`: what is paid, delivered or
waits to be committed was placed. That the total of an order is a number at all is
`TotalIsNat`, on which the types rest: the fold over the prices has a value (`SumsExist`) and
adds them up (`SumsAdd`), by the least counterexample as in section 4.

### What the code does besides

An amount that does not end in 00 is sent to Alipay as it is, a hundred times too
large (`orders.gen.go:17` says the column is fen). `Sent` is what the code sends, and no
property says that Alipay and MySQL have the same amount. A refund that Alipay closes without
paying takes the courses away as well, and one whose commit fails takes them while it still
shows as in progress. A quote is made of a course
whatever its status, stays valid for ten minutes after a change of its price, and may
be used for several orders; the answer "商品信息已更新" is only given when the quote has
expired or costs nothing. What the customer is shown is wider than what can be learnt:
`GetPurchasedCourseList` does not filter expired courses, and `GetCourseInfo` shows
the expiry of the newest purchase, not of the latest to expire.

## 7. LarkToken

### Correspondence

| model | code |
|---|---|
| `life`, `revoked` | the tokens at Lark (external) |
| `lock`, `cached`, `ttl` | redis: the key of `GetLock`, the token of `GetAccessToken` with its time to live |
| `pc`, `age` | a call of `SendLarkMsg`: its next call, and for how long it has been at it |
| `try`, `force`, `code` | the locals of `SendLarkMsg`: the loop's counter, whether a fresh token is wanted, `resp.Code` |
| `token`, `left` | the token a caller has, and `expire` as Lark returned it |
| `accepted`, `lost`, `result` | history: what became of the message, and what the caller was told |

`GetAccessToken`, `GetLock`, `GetLarkTenantAccessToken`, `SetAccessToken` and, for
those who do not get the lock, `AwaitLock` and `GetCache` are `GetToken` with
`updateToken`; the four `Post` actions are the request for the message and the four
kinds of its answer. The lock is never released by `updateToken`: it runs out.

Assumed (`LarkAssumption`): a call of Lark ends before the lock and before the margin
by which a token leaves the cache early (the HTTP client's timeout of 5 seconds
against 60 and 200); Lark returns the old token while more than `Renew` of it is left.

### Run and fairness

`LarkToken`: two callers, three tokens, two faults (failed calls, lost answers or
revoked tokens), lives and times small but in the order of the code's. Two callers are
one that fetches and one that waits; three tokens allow one that expires, one that is
revoked and a fresh one. Deadlock is checked.

- `OneFetches`: two callers never fetch at once, though nobody releases the lock.
- `MessageOutcome`: a token is refused only after a revocation; a message is reported
  as sent without having been accepted only when both answers were lost (`resp.Code`
  is then still zero, which means success); it goes out twice only after a lost
  answer.
- `SendEnds`: every call ends.

`FairSpec`: a call that has begun goes on (`WF` of `Proceed`), and time passes. The
latter is `SF`, since a step that takes no time disables the tick, and others may make
such steps again and again.

### Proofs (`LarkToken_proofs`)

For any callers, tokens and times that satisfy `LarkAssumption`: `TypeCorrect`,
`OneCallerFetches` and `MessagesAreAccountedFor`, by the invariant `Inv`: who fetches
is younger than the lock (`LockIsHeld`), a cached token, and one on its way, lives
longer than the cache and the call last (`CacheIsValid`, `TokenIsValid`), and each try
is accepted, refused or lost (`TriesAreCounted`). `SendEnds` is only model-checked.

## 8. CustomerLogin

### Correspondence

| model | code |
|---|---|
| `keys`, `tickets`, `code` | `captcha:<key>`, `captcha:ticket:<ticket>`, `verify:code:<mobile>:<scene>` |
| `limit` | `verify:frelimit:<mobile or ip>` |
| `errs`, `errTTL` | `password:errcount:<mobile>`, and whether its expiry has been set |
| `session`, `newest` | `user:token:<token>`, `token:user:<user>` |
| `owner`, `enabled`, `password` | `mobile_user`, `user.status`, `user.password` |
| `request` | the handler a request is in, the next call, and what it has read |
| `uses`, `shared`, `awaited`, `wrong`, `strays`, `doomed` | history |

A request is one of: check of a captcha, an SMS code (`GetSmsVerifyCode`, three
scenes), a login by code or by password, a reset of the password, a change of an
account's status. Every call of redis or MySQL is a step; a ticket, a code and a token
are named after the request that makes them. Whatever expires may do so at any time.
Pictures, profiles and the text of messages are left out. Sending is one step, since
section 7 has the rest.

### Run

`CustomerLogin`: three requests of any kind on one mobile, one captcha, one old
ticket, an old code per scene, two accounts (so that two first logins can both create
one), two passwords, one wrong password allowed, one fault. The properties are about a
pair of requests on one key, and a third that undoes or repeats what one of them did.

- `OneTime`: a captcha, ticket or code lets one request through, unless another had
  read it before it was deleted or the deletion was lost; and a code that was stored
  stays until it is used or expires, unless it was stored while an older one was being
  deleted.
- `LockoutHolds`: no more than `MaxErr` wrong passwords between two resets of the
  counter, however many logins run at once; and the counter has an expiry, or somebody
  is about to set it, unless a call failed.
- `ResetEndsNewest`: a reset ends the session that the map knew of.

### Proofs (`CustomerLogin_proofs`)

For any requests, mobiles, accounts and failures: `TypeCorrect`; `OneTimeAlways`, from
`OnceInv` (who still holds a thing is the one who deletes it, and what was used is
gone or being deleted); `LockoutAlwaysHolds`, from `Lockout`, which bounds the wrong
passwords by the counter less those logins that were counted and have not compared
yet, a cardinality that every step of a login changes by one; `ResetAlwaysEnds`, from
`TokenInv`. Each action has a lemma that says what it does to its request
(`...Moves`), and each invariant a lemma for each action that touches it.

### What the code does besides

The counter of messages per hour is incremented and never compared (`verify.go:114`):
it refuses nobody. Two first logins on one mobile make two accounts. A reset, like a
logout, ends only the newest session; older ones live on.

## 9. BackOffice

### Correspondence

| model | code |
|---|---|
| `known`, `enabled`, `deleted`, `stamp` | `admin_user`: its rows, `status`, `is_delete`, `update_at` |
| `userRole`, `lastId` | `admin_user_role`, with the ids of its rows |
| `rolePerm`, `perms` | `role_permission`, `permission` |
| `session`, `newest` | `admin:user:token:<token>` with the `update_at` it carries, `admin:token:user:<user>` |
| `request` | the next statement of a request; for a transaction, what it has deleted and inserted |
| `outdated`, `doomed`, `wantedRoles`, `wantedPerms`, `mixed` | history |

`UpdateUser` is `UpdateUserRow`, `DeleteUserRoles`, `InsertUserRoles`, `CommitUser`,
with the row of the user locked from the first; `SetRolePerms` is `DeleteRolePerms`,
`InsertRolePerms`, `CommitRolePerms`, which lock what they delete: when there is
nothing to delete, nothing keeps two of them apart (`mixed`). A login is `GetUser`,
`SetToken`, `SetMap`; a logout and a reset read the map, delete the token, and go on.
`LetsIn` is the test of `router/auth.go`.

Abstractions: whether a code or password is right is left open (section 8 has it); two
updates of a row are a millisecond apart, so that `update_at` tells them apart;
permissions are rows, their texts and their place in the menu left out; the routes
guarded by a permission are not told apart.

### Run

`BackOffice`: three requests, two administrators of whom one exists, two roles, two
permissions, one fault. Two requests make each pair of transactions on one role or
user; the third looks on or is a login between them.

- `TokensEnd`: a token never lets in after an update that its login had not seen; a
  logout or reset ends the token the map knew of.
- `PermissionsAreWanted`: an administrator's permissions are those of the last update
  of each role, of the roles of the administrator's last update, never a mixture.

### Proofs (`BackOffice_proofs`)

For any requests, users, roles and permissions: `TypeCorrect`; `TokensAlwaysEnd`, from
`TokenInv` and `StampInv` (a stamp that was overwritten does not come back);
`PermissionsAlwaysWanted`, from `RolesInv` and `PermsInv`, which say what each stage
of a transaction holds against the committed rows.

### What the code does besides

`GetMyRoles` gives a role the id of its row in `admin_user_role`, and looks its
permissions up by that id (`role.go:81,87`). The token of a deleted administrator
still lets in: only the status and `update_at` are compared. A logout ends the newest
token only.

## 10. CourseCatalog

### Correspondence

| model | code |
|---|---|
| `presence`, `parent`, `sort` | `course_catalog` and `course_lessons`: is there a row (they are deleted for good, and ids are not used again), `parent_id` or `catalog_id`, `sort` |
| `undo` | the version others read while a transaction has written a row |
| `lesson`, `trial` | `course_lessons.lesson_id`, `enable_trial` |
| `pc`, `target`, `top`, `picks`, `list`, `written` | a request: next statement, locals |
| `ahead`, `older`, `placed`, `arrangement` | history |

`StartCatalog` and `StartCatalogLesson` read the largest position, `AddCatalog` and
`AddCatalogLesson` insert after it; `UpdateCatalogSort` writes one row of an
arrangement at a time in its transaction, waits for the lock of a row, and ends as
`Commit`, as the `Victim` of a deadlock or with an error. `DeleteCatalog`,
`RemoveCatalogLesson` and `UpdateCatalogLesson` are single statements. A page may ask for
any lessons there are: only `LessonList` leaves out those a course has, when it is shown, and
`AddCatalogLesson` does not look again. So a lesson can be twice in a course, and no property
says otherwise.

### Run

`CourseCatalog`: four requests, one fault, two entries and room for two more, three
rows for two lessons, five arrangements of which two move an entry below the other and
one names an entry twice.
Two inserts and a deletion are needed for a position to be given twice, and an
arrangement on top of that makes four.

- `PositionsHold`: a new item stands after each sibling that was there when its
  request began; the arrangement committed last stands, whatever was rolled back
  beside it.

Two inserts that overlap do get the same position; `AppendedLast` therefore speaks of
the siblings a request could see. Positions and parents are what the page sends, which
the code does not check: an arrangement may give two items one position, or name an item
twice, and then the last slot that names it counts (`Final`). Assumed is only that the
page names what it has shown, and no negative position.

### Proofs (`Courses_proofs`)

For any entries, rows, lessons, arrangements, requests and failures: `CatalogTypeCorrect`
and `PositionsAlwaysHold`. `LocksInv` is about the rows that arrangements have written:
what they name exists (`ListsAreKnown`), no two of them have written the same row
(`LocksExclude`), and what one has written last of an item still stands as it wanted
(`WrittenStands`).
So what others see of an item, the version before (`Parent`, `Sort`), changes only by a
commit, and then to the arrangement. `PlacesInv` is about new items: the siblings a
request has found are below the position it has read (`AheadBelowTop`) and below the
item it adds (`NewStandLast`), until one of them is arranged; and the last arrangement
stands (`ArrangedStand`).

Most steps change nothing that others see; `Quiet`, `Steady` and `SameView` say so once,
and each invariant has cases only for the steps that do.

## 11. Lessons

### Correspondence

| model | code |
|---|---|
| `category`, `parent`, `sort` | `lesson_category`: `is_delete`, `parent_id`, `sort` |
| `folder`, `video`, `enabled` | `lessons`: `category_id`, `video_key`, `status` |
| `stored`, `uploaded` | the object storage (external) |
| `all`, `level` | locals of `CategoryDelete`, which collects the tree level by level |
| `list`, `written` | the rows of a `CategorySort` |
| `form`, `new`, `old` | `UpdateLesson`: the form, what it is saved with, the row read |
| `raced`, `stale`, `order`, `disturbed` | history |

`CategoryDelete` is `StartDelete`, `FindByParentIDs` for each level, `DeleteCategory`.
`CategorySort` is `StartSort`, `UpdateCategorySort` row by row, `EndSort`: it opens a
transaction and writes on another connection, so rows are committed one by one and a
failure undoes none. `UpdateLesson` is `OpenForm` (the page), `GetLessonById`,
`UpdateLesson`, `DeleteFile`. `CreateLesson`, `MoveLesson` and `UpdateLessonStatus`
are statements after their checks.

### Run

`Lessons`: three requests, a category with two below it and another one below one of
those, room for a fifth, two lessons, three videos, one fault. A tree of three levels
needs the deletion's loop twice; two requests to race and a third to come later
suffice, as histories (`raced`, `stale`, `disturbed`) are set by pairs.

- `TreeIsWhole`: a category whose parent is gone was added while, or after, the parent
  was deleted; a sort that ran alone and to its end stands.
- `VideosMatch`: a lesson whose video is gone was saved from a form older than its
  row; a stored video that nobody needs is left by a failure or such a save.

### Proofs (`Lessons_proofs`)

For any tree, lessons, videos and requests: `TypeCorrect`; `TreeIsAlwaysWhole`, from
`TreeInv` (what `CategoryDelete` has collected is closed but for the level still to be
read, and what raced) and `SortInv` (rows written so far stand as wanted, one sort at
a time unless disturbed); `VideosAlwaysMatch`, from `FileInv` (each video has one
owner, a fresh one is unused, the old one of a request is the row's) and
`AimsAreRight` (a request aims at a row of the right table).

## 12. Bounds, faults and what is not proved

Every bound is a constant of the model (`MaxFaults`, `MaxTime`, `MaxIds`,
`MaxRequests`, `MaxUpdates`, `MaxAge`) or the size of a set. The theorems do not
depend on any of them. Faults are the same everywhere: a call fails with or without
having taken effect, or the server stops, and the handler goes its error path; a
transaction is rolled back, redis keeps what it has.

Only TLC checks liveness: `WaitingSettles`, `PollEnds`, `RefundSettles` and `SendEnds`,
whose fairness is about `ENABLED`, which the provers cannot handle. Every invariant, action
property and refinement of a passing run is also a theorem. The runs do not repeat the type
invariants that the theorems about types prove. Symmetry is used where a run has no
temporal formula with fairness.

## 13. Not modelled

- Generated data access (`adaptor/repo/query`, `adaptor/repo/model`): nearly half of
  all lines, the same wrapper of gorm per table. The models use rows and statements,
  which is what the wrapper means.
- The HTTP layer (`api`, `router` but for the token test), DTOs, request and response
  types: binding without state.
- Reads: lists, details, statistics of orders, courses and users. They read committed
  rows and change nothing. (`OrderStatistic`'s filter by goods, `order.go:211-215`, is
  a subquery that is not correlated with the order, so it holds for all orders or
  none.)
- The cart, the rows of courses and roles themselves, names and texts: single
  statements.
- The WeChat and profile parts of accounts, which no route reaches.
- Object storage and uploads but for the files of lessons, logging, signing, the HTTP
  client, configuration: I/O and stateless helpers.

The stateful handlers are a small part of the repository's lines; what is left out
above is most of the rest.

------------------------------ MODULE OrderIds ------------------------------
(***************************************************************************)
(* The generators of order ids: GenIdNode (adaptor/redis/genid.go), which  *)
(* leases a worker id in redis and renews it in the background, and Node   *)
(* (utils/snowflake/snowflake.go), which makes ids of the clock, the       *)
(* worker id and a sequence.                                               *)
(*                                                                         *)
(* One unit of time serves for stamps (milliseconds in the code) and for   *)
(* leases.  redis keeps the true time; a server's clock is wrong by up to  *)
(* Skew and may be set.  A stamp counts from an epoch in the past.         *)
(***************************************************************************)
EXTENDS Integers, FiniteSets

CONSTANTS
  Nodes,         \* the generators that are ever created
  Calls,         \* the goroutines that call GetNextID
  WorkerIDMax, sequenceMask,            \* snowflake.go
  TTL, RenewTick, Pause, MaxRetry,      \* genid.go
  Skew,          \* how far a clock may be from the true time
  Delay,         \* how long a call may take after it has renewed the lease
  ClockSetAsleep, \* whether a clock may be set back while a call sleeps
  MaxTime,       \* bound: the last moment
  MaxIds,        \* bound: ids in a behaviour
  MaxFaults,     \* bound: failed calls of redis
  None           \* no node

WorkerIDs == 1 .. WorkerIDMax

ASSUME NodeAssumption ==
  /\ WorkerIDMax \in 1 .. 31 /\ sequenceMask \in 0 .. 511
  /\ TTL \in Nat \ {0} /\ RenewTick \in Nat \ {0} /\ Pause \in Nat \ {0}
  /\ MaxRetry \in Nat \ {0}
  /\ Skew \in Nat /\ Delay \in Nat /\ ClockSetAsleep \in BOOLEAN
  /\ MaxTime \in Nat /\ MaxIds \in Nat /\ MaxFaults \in Nat
  /\ None \notin Nodes

VARIABLES
  time,       \* the true time
  \* redis
  holder,     \* the node whose uuid was last written to the key of an id
  expires,    \* when that key expires
  \* a GenIdNode
  node,       \* what it is doing
  workerID,   \* its worker id, while it acquires one the id it tries
  tick,       \* the tick its heartbeat waits for or serves
  beat,       \* when its heartbeat calls redis next
  tries,      \* failed calls for this tick
  lastStamp, sequence,                  \* of a snowflake node
  \* GetNextID
  pc,         \* what a call does next
  at,         \* the node it was made on
  renewed,    \* when it renewed the lease
  until,      \* when it wakes up
  issued,     \* the ids returned so far
  repeated,   \* those of them returned twice
  faults      \* failed calls of redis so far

leaseVars == <<holder, expires>>
beatVars  == <<tick, beat, tries>>
flakeVars == <<lastStamp, sequence>>
callVars  == <<pc, at, renewed, until>>
idVars    == <<issued, repeated>>
vars == <<time, leaseVars, node, workerID, beatVars, flakeVars,
          callVars, idVars, faults>>

\* The packed id: the fields do not overlap.
Pack(stamp, worker, seq) == stamp * 16384 + worker * 512 + seq

\* What the clock of a server may show: it may be set between two readings.
Clock == time - Skew .. time + Skew

\* A call that has renewed the lease; one that holds the mutex of its node.
InFlight(c) == pc[c] \in {"Lock", "Sleep", "Spin"}
HasMutex(c) == pc[c] \in {"Sleep", "Spin"}

\* An id that a node returned.
Issued == [stamp : Nat, worker : WorkerIDs, seq : 0 .. sequenceMask,
           by : Nodes]

TypeOK ==
  /\ time \in Nat
  /\ holder \in [WorkerIDs -> Nodes \cup {None}]
  /\ expires \in [WorkerIDs -> Nat]
  /\ node \in [Nodes -> {"Absent", "Acquire", "Run", "Dead"}]
  /\ workerID \in [Nodes -> WorkerIDs]
  /\ tick \in [Nodes -> Nat] /\ beat \in [Nodes -> Nat]
  /\ tries \in [Nodes -> 0 .. MaxRetry - 1]
  /\ lastStamp \in [Nodes -> Nat] /\ sequence \in [Nodes -> 0 .. sequenceMask]
  /\ pc \in [Calls -> {"Idle", "Lock", "Sleep", "Spin"}]
  /\ at \in [Calls -> Nodes \cup {None}]
  /\ renewed \in [Calls -> Nat] /\ until \in [Calls -> Nat]
  /\ issued \subseteq Issued
  /\ repeated \subseteq Nat
  /\ faults \in 0 .. MaxFaults
  /\ time > Skew
  /\ \A c \in Calls : InFlight(c) => at[c] \in Nodes /\ node[at[c]] = "Run"

Init ==
  /\ time = Skew + 1
  /\ holder = [i \in WorkerIDs |-> None]
  /\ expires = [i \in WorkerIDs |-> 0]
  /\ node = [n \in Nodes |-> "Absent"]
  /\ workerID = [n \in Nodes |-> 1]
  /\ tick = [n \in Nodes |-> 0]
  /\ beat = [n \in Nodes |-> 0]
  /\ tries = [n \in Nodes |-> 0]
  /\ lastStamp = [n \in Nodes |-> 0]
  /\ sequence = [n \in Nodes |-> 0]
  /\ pc = [c \in Calls |-> "Idle"]
  /\ at = [c \in Calls |-> None]
  /\ renewed = [c \in Calls |-> 0]
  /\ until = [c \in Calls |-> 0]
  /\ issued = {} /\ repeated = {}
  /\ faults = 0

-----------------------------------------------------------------------------
NoFault == UNCHANGED faults
Fault   == faults < MaxFaults /\ faults' = faults + 1

Free(i) == expires[i] <= time
Held(n) == holder[workerID[n]] = n /\ ~Free(workerID[n])

Lease(n) ==
  /\ holder' = [holder EXCEPT ![workerID[n]] = n]
  /\ expires' = [expires EXCEPT ![workerID[n]] = time + TTL]

\* luaRenew: extends the key if the node still holds it, otherwise does
\* nothing.
Renew(n) ==
  /\ expires' = IF Held(n) THEN [expires EXCEPT ![workerID[n]] = time + TTL]
                           ELSE expires
  /\ UNCHANGED holder

-----------------------------------------------------------------------------
(* NewGenIdNode and its heartbeat.                                         *)

NewGenIdNode(n) ==
  /\ node[n] = "Absent"
  /\ node' = [node EXCEPT ![n] = "Acquire"]
  /\ UNCHANGED <<time, leaseVars, workerID, beatVars, flakeVars,
                 callVars, idVars, faults>>

\* Having tried them all, the server panics.
TryNext(n) ==
  /\ UNCHANGED beatVars
  /\ IF workerID[n] = WorkerIDMax
     THEN node' = [node EXCEPT ![n] = "Dead"] /\ UNCHANGED workerID
     ELSE workerID' = [workerID EXCEPT ![n] = @ + 1] /\ UNCHANGED node

runHeartbeat(n) ==
  /\ node' = [node EXCEPT ![n] = "Run"] /\ UNCHANGED workerID
  /\ tick' = [tick EXCEPT ![n] = time + RenewTick]
  /\ beat' = [beat EXCEPT ![n] = time + RenewTick]
  /\ tries' = [tries EXCEPT ![n] = 0]

\* One SetNX of getWorkerID; its errors are taken for "not free".
getWorkerID(n) ==
  /\ node[n] = "Acquire"
  /\ \/ NoFault /\ Free(workerID[n]) /\ Lease(n) /\ runHeartbeat(n)
     \/ NoFault /\ ~Free(workerID[n]) /\ UNCHANGED leaseVars /\ TryNext(n)
     \/ Fault /\ UNCHANGED leaseVars /\ TryNext(n)
     \/ Fault /\ Free(workerID[n]) /\ Lease(n) /\ TryNext(n)
  /\ UNCHANGED <<time, flakeVars, callVars, idVars>>

\* The ticker keeps one tick for a heartbeat that is late.
AwaitTick(n, now) ==
  LET next == tick[n] + RenewTick IN
  /\ tick' = [tick EXCEPT ![n] = next]
  /\ beat' = [beat EXCEPT ![n] = IF next > now THEN next ELSE now]
  /\ tries' = [tries EXCEPT ![n] = 0]

Retry(n) ==
  IF tries[n] + 1 = MaxRetry
  THEN AwaitTick(n, time + Pause)
  ELSE /\ beat' = [beat EXCEPT ![n] = time + Pause]
       /\ tries' = [tries EXCEPT ![n] = @ + 1]
       /\ UNCHANGED tick

\* Wrong: a failed renewal waits for the next tick.
HeartbeatOnce(n) ==
  /\ node[n] = "Run" /\ beat[n] <= time
  /\ \/ NoFault /\ Renew(n)
     \/ Fault /\ UNCHANGED leaseVars
  /\ AwaitTick(n, time)
  /\ UNCHANGED <<time, node, workerID, flakeVars, callVars, idVars>>

\* A lease that is lost is no error.
Heartbeat(n) ==
  /\ node[n] = "Run" /\ beat[n] <= time
  /\ \/ NoFault /\ Renew(n) /\ AwaitTick(n, time)
     \/ Fault /\ (Renew(n) \/ UNCHANGED leaseVars) /\ Retry(n)
  /\ UNCHANGED <<time, node, workerID, flakeVars, callVars, idVars>>

-----------------------------------------------------------------------------
(* GetNextID of the GenIdNode and, under its mutex, of the snowflake node. *)

Bounded ==
  Cardinality(issued) + Cardinality({d \in Calls : InFlight(d)}) < MaxIds

\* Without the lease, or after an error, it returns "worker id lost".
RenewToGenerate(c, n) ==
  /\ pc[c] = "Idle" /\ node[n] = "Run"
  /\ Bounded
  /\ \/ /\ NoFault /\ Held(n) /\ Renew(n)
        /\ pc' = [pc EXCEPT ![c] = "Lock"]
        /\ at' = [at EXCEPT ![c] = n]
        /\ renewed' = [renewed EXCEPT ![c] = time]
     \/ Fault /\ Renew(n) /\ UNCHANGED <<pc, at, renewed>>
  /\ UNCHANGED <<time, node, workerID, beatVars, flakeVars, until, idVars>>

Return(c) ==
  /\ pc' = [pc EXCEPT ![c] = "Idle"]
  /\ at' = [at EXCEPT ![c] = None]
  /\ renewed' = [renewed EXCEPT ![c] = 0]
  /\ until' = [until EXCEPT ![c] = 0]

Issue(c, now, seq) ==
  LET n == at[c]  worker == workerID[n]
      id == [stamp |-> now, worker |-> worker, seq |-> seq, by |-> n] IN
  /\ lastStamp' = [lastStamp EXCEPT ![n] = now]
  /\ issued' = issued \cup {id}
  /\ repeated' = repeated \cup
       {Pack(x.stamp, x.worker, x.seq) :
          x \in {y \in issued : Pack(y.stamp, y.worker, y.seq)
                                  = Pack(now, worker, seq)}}
  /\ Return(c)

\* (seq + 1) & sequenceMask
NextSeq(seq) == IF seq = sequenceMask THEN 0 ELSE seq + 1

\* Wrong: a sequence that is used up starts again in the same millisecond.
StampWrapped(c, now) ==
  LET n == at[c]  next == NextSeq(sequence[n]) IN
  \/ /\ now = lastStamp[n]
     /\ sequence' = [sequence EXCEPT ![n] = next]
     /\ Issue(c, now, next)
  \/ /\ now # lastStamp[n]
     /\ sequence' = [sequence EXCEPT ![n] = 0]
     /\ Issue(c, now, 0)

\* The same millisecond as the last id, or another one.
Stamp(c, now) ==
  LET n == at[c]  next == NextSeq(sequence[n]) IN
  \/ /\ now = lastStamp[n] /\ next # 0
     /\ sequence' = [sequence EXCEPT ![n] = next]
     /\ Issue(c, now, next)
  \/ /\ now = lastStamp[n] /\ next = 0
     /\ sequence' = [sequence EXCEPT ![n] = 0]
     /\ pc' = [pc EXCEPT ![c] = "Spin"]
     /\ UNCHANGED <<lastStamp, at, renewed, until, idVars>>
  \/ /\ now # lastStamp[n]
     /\ sequence' = [sequence EXCEPT ![n] = 0]
     /\ Issue(c, now, 0)

MutexFree(n) == \A c \in Calls : HasMutex(c) => at[c] # n

\* Wrong: does not wait for the clock to catch up.
ReadClockOnce(c) ==
  /\ pc[c] = "Lock" /\ MutexFree(at[c])
  /\ \E now \in Clock : Stamp(c, now)
  /\ UNCHANGED <<time, leaseVars, node, workerID, beatVars, faults>>

ReadClock(c) ==
  /\ pc[c] = "Lock" /\ MutexFree(at[c])
  /\ \E now \in Clock :
       \/ now >= lastStamp[at[c]] /\ Stamp(c, now)
       \/ /\ now < lastStamp[at[c]]
          /\ pc' = [pc EXCEPT ![c] = "Sleep"]
          /\ until' = [until EXCEPT ![c] = time + (lastStamp[at[c]] - now)]
          /\ UNCHANGED <<at, renewed, flakeVars, idVars>>
  /\ UNCHANGED <<time, leaseVars, node, workerID, beatVars, faults>>

\* The clock is read again and not compared again.
WakeUp(c) ==
  /\ pc[c] = "Sleep" /\ time >= until[c]
  /\ \E now \in Clock :
       (ClockSetAsleep \/ now >= lastStamp[at[c]]) /\ Stamp(c, now)
  /\ UNCHANGED <<time, leaseVars, node, workerID, beatVars, faults>>

NextMillisecond(c) ==
  /\ pc[c] = "Spin"
  /\ \E now \in Clock :
       now > lastStamp[at[c]] /\ Issue(c, now, sequence[at[c]])
  /\ UNCHANGED <<time, leaseVars, node, workerID, beatVars, sequence, faults>>

-----------------------------------------------------------------------------
\* Heartbeats are on time; a call takes at most Delay after its renewal.
TimePasses ==
  /\ time < MaxTime
  /\ \A n \in Nodes : node[n] = "Run" => time < beat[n]
  /\ \A c \in Calls : InFlight(c) => time < renewed[c] + Delay
  /\ time' = time + 1
  /\ UNCHANGED <<leaseVars, node, workerID, beatVars, flakeVars,
                 callVars, idVars, faults>>

\* The server stops with its calls; redis keeps the lease until it expires.
Crash(n) ==
  /\ node[n] \in {"Acquire", "Run"}
  /\ node' = [node EXCEPT ![n] = "Dead"]
  /\ pc' = [c \in Calls |-> IF at[c] = n THEN "Idle" ELSE pc[c]]
  /\ at' = [c \in Calls |-> IF at[c] = n THEN None ELSE at[c]]
  /\ renewed' = [c \in Calls |-> IF at[c] = n THEN 0 ELSE renewed[c]]
  /\ until' = [c \in Calls |-> IF at[c] = n THEN 0 ELSE until[c]]
  /\ UNCHANGED <<time, leaseVars, workerID, beatVars, flakeVars,
                 idVars, faults>>

GetNextID(c) ==
  \/ \E n \in Nodes : RenewToGenerate(c, n)
  \/ ReadClock(c) \/ WakeUp(c) \/ NextMillisecond(c)

Next ==
  \/ \E n \in Nodes : \/ NewGenIdNode(n) \/ getWorkerID(n) \/ Heartbeat(n)
                      \/ Crash(n)
  \/ \E c \in Calls : GetNextID(c)
  \/ TimePasses

Spec == Init /\ [][Next]_vars

-----------------------------------------------------------------------------
\* No id is returned twice, by one generator or by two that had the same
\* worker id one after the other: a server that crashed, stalled or lost its
\* lease has no call left that could still stamp an id when another one may.
Unique == repeated = {}

\* A generator loses its worker id only if MaxRetry calls of redis failed:
\* the heartbeat has time for all its retries before the lease expires.
LeaseKept ==
  \A n \in Nodes : node[n] = "Run" /\ faults < MaxRetry => Held(n)

\* The ids of one generator increase, though its clock may be set back and
\* many calls meet in one millisecond.
IdsIncrease ==
  [][\A x \in issued' \ issued, y \in issued :
       x.by = y.by => Pack(y.stamp, y.worker, y.seq)
                        < Pack(x.stamp, x.worker, x.seq)]_vars

=============================================================================

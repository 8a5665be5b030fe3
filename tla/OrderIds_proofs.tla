--------------------------- MODULE OrderIds_proofs ---------------------------
(* Theorems about OrderIds, for every set of generators and calls and every *)
(* timing the theorems state.                                               *)
EXTENDS OrderIds, TLAPS

(* The ways a call goes on under the mutex: it returns an id, begins to    *)
(* spin, or goes to sleep.                                                 *)
Elsewhere == UNCHANGED <<time, leaseVars, node, workerID, beatVars, faults>>

Issues(c, now, seq) ==
  /\ InFlight(c) /\ now \in Clock
  /\ HasMutex(c) \/ MutexFree(at[c])
  /\ \/ /\ now = lastStamp[at[c]] /\ pc[c] # "Spin"
        /\ sequence[at[c]] < sequenceMask /\ seq = sequence[at[c]] + 1
     \/ /\ now # lastStamp[at[c]] /\ seq = 0
        /\ ClockSetAsleep \/ now > lastStamp[at[c]]
  /\ sequence' = [sequence EXCEPT ![at[c]] = seq]
  /\ Issue(c, now, seq) /\ Elsewhere

Spins(c) ==
  /\ pc[c] \in {"Lock", "Sleep"}
  /\ HasMutex(c) \/ MutexFree(at[c])
  /\ sequence[at[c]] = sequenceMask
  /\ sequence' = [sequence EXCEPT ![at[c]] = 0]
  /\ pc' = [pc EXCEPT ![c] = "Spin"]
  /\ UNCHANGED <<lastStamp, at, renewed, until, idVars>> /\ Elsewhere

Sleeps(c, now) ==
  /\ pc[c] = "Lock" /\ MutexFree(at[c])
  /\ now \in Clock /\ now < lastStamp[at[c]]
  /\ pc' = [pc EXCEPT ![c] = "Sleep"]
  /\ until' = [until EXCEPT ![c] = time + (lastStamp[at[c]] - now)]
  /\ UNCHANGED <<at, renewed, flakeVars, idVars>> /\ Elsewhere

(* A spinning call has reset the sequence.                                 *)
SpinReset == \A c \in Calls : pc[c] = "Spin" => sequence[at[c]] = 0

LEMMA PackIsNat ==
  \A stamp, worker, seq \in Nat : Pack(stamp, worker, seq) \in Nat
BY DEF Pack

LEMMA StampCases ==
  ASSUME TypeOK, NEW c \in Calls, pc[c] \in {"Lock", "Sleep"},
         HasMutex(c) \/ MutexFree(at[c]),
         NEW now \in Clock, ClockSetAsleep \/ now >= lastStamp[at[c]],
         Stamp(c, now), Elsewhere
  PROVE  (\E seq \in Nat : Issues(c, now, seq)) \/ Spins(c)
<1> DEFINE seq == sequence[at[c]]
<1>1. seq \in Nat /\ seq <= sequenceMask /\ lastStamp[at[c]] \in Nat /\ now \in Int
  BY NodeAssumption DEF TypeOK, InFlight, Clock
<1>2. CASE now = lastStamp[at[c]] /\ NextSeq(seq) # 0
  <2>1. NextSeq(seq) = seq + 1 /\ seq < sequenceMask
    BY <1>1, <1>2, NodeAssumption DEF NextSeq
  <2>2. Issue(c, now, seq + 1) /\ sequence' = [sequence EXCEPT ![at[c]] = seq + 1]
    BY <1>2, <2>1 DEF Stamp
  <2>3. Issues(c, now, seq + 1)
    BY <1>1, <1>2, <2>1, <2>2 DEF Issues, InFlight
  <2> QED
    BY <1>1, <2>3
<1>3. CASE now = lastStamp[at[c]] /\ NextSeq(seq) = 0
  <2>1. seq = sequenceMask
    BY <1>1, <1>3, NodeAssumption DEF NextSeq
  <2> QED
    BY <1>3, <2>1 DEF Stamp, Spins
<1>4. CASE now # lastStamp[at[c]]
  <2>1. Issue(c, now, 0) /\ sequence' = [sequence EXCEPT ![at[c]] = 0]
    BY <1>4 DEF Stamp
  <2>2. Issues(c, now, 0)
    BY <1>1, <1>4, <2>1 DEF Issues, InFlight
  <2> QED
    BY <2>2
<1> QED
  BY <1>2, <1>3, <1>4

LEMMA NextCases ==
  ASSUME TypeOK, SpinReset, Next
  PROVE \/ \E n \in Nodes : \/ NewGenIdNode(n) \/ getWorkerID(n)
                            \/ Heartbeat(n) \/ Crash(n)
        \/ \E c \in Calls, n \in Nodes : RenewToGenerate(c, n)
        \/ \E c \in Calls : \/ \E now, seq \in Nat : Issues(c, now, seq)
                            \/ Spins(c)
                            \/ \E now \in Nat : Sleeps(c, now)
        \/ TimePasses
<1> USE NodeAssumption DEF TypeOK
<1>0. Clock \subseteq Nat
  BY DEF Clock
<1>1. ASSUME NEW c \in Calls, ReadClock(c)
      PROVE  \/ \E now, seq \in Nat : Issues(c, now, seq)
             \/ Spins(c) \/ \E now \in Nat : Sleeps(c, now)
  <2> USE DEF Elsewhere, InFlight
  <2>1. PICK now \in Clock :
          \/ now >= lastStamp[at[c]] /\ Stamp(c, now)
          \/ /\ now < lastStamp[at[c]]
             /\ pc' = [pc EXCEPT ![c] = "Sleep"]
             /\ until' = [until EXCEPT ![c] = time + (lastStamp[at[c]] - now)]
             /\ UNCHANGED <<at, renewed, flakeVars, idVars>>
    BY <1>1 DEF ReadClock
  <2>2. CASE now < lastStamp[at[c]]
    BY <1>0, <1>1, <2>1, <2>2, SMTT(30) DEF ReadClock, Sleeps
  <2>3. CASE now >= lastStamp[at[c]]
    <3>1. pc[c] = "Lock" /\ MutexFree(at[c]) /\ Stamp(c, now)
      BY <1>0, <1>1, <2>1, <2>3 DEF ReadClock
    <3> QED
      BY <1>0, <1>1, <2>3, <3>1, StampCases DEF ReadClock
  <2> QED
    BY <1>0, <1>1, <2>2, <2>3 DEF ReadClock, InFlight
<1>2. ASSUME NEW c \in Calls, WakeUp(c)
      PROVE  (\E now, seq \in Nat : Issues(c, now, seq)) \/ Spins(c)
  <2>1. PICK now \in Clock :
          (ClockSetAsleep \/ now >= lastStamp[at[c]]) /\ Stamp(c, now)
    BY <1>2 DEF WakeUp
  <2>2. pc[c] = "Sleep" /\ Elsewhere
    BY <1>2 DEF WakeUp, Elsewhere
  <2> QED
    BY <1>0, <2>1, <2>2, StampCases DEF HasMutex
<1>3. ASSUME NEW c \in Calls, NextMillisecond(c)
      PROVE  \E now, seq \in Nat : Issues(c, now, seq)
  <2>1. PICK now \in Clock : now > lastStamp[at[c]] /\ Issue(c, now, 0)
    BY <1>3 DEF NextMillisecond, SpinReset
  <2>2. at[c] \in Nodes /\ sequence[at[c]] = 0
    BY <1>3 DEF NextMillisecond, SpinReset, InFlight
  <2>3. sequence' = [sequence EXCEPT ![at[c]] = 0]
    BY <1>3, <2>2 DEF NextMillisecond
  <2>5. now # lastStamp[at[c]]
    BY <1>0, <2>1, <2>2
  <2>4. Issues(c, now, 0)
    BY <1>3, <2>1, <2>3, <2>5
       DEF NextMillisecond, Issues, InFlight, HasMutex, Elsewhere
  <2> QED
    BY <1>0, <2>4
<1> QED
  BY <1>1, <1>2, <1>3 DEF Next, GetNextID

-----------------------------------------------------------------------------
(* One step per invariant and action: what each step keeps.                *)
LEMMA TypeStep ==
  ASSUME TypeOK, SpinReset, [Next]_vars
  PROVE  TypeOK'
<1> USE NodeAssumption
    DEF TypeOK, InFlight, HasMutex, MutexFree, Held, Free, NoFault, Fault, leaseVars,
        beatVars, flakeVars, callVars, idVars
<1>1. CASE UNCHANGED vars
  BY <1>1 DEF vars
<1>2. ASSUME NEW n \in Nodes, NewGenIdNode(n) PROVE TypeOK'
  BY <1>2 DEF NewGenIdNode
<1>3. ASSUME NEW n \in Nodes, getWorkerID(n) PROVE TypeOK'
  <2>1. workerID[n] \in WorkerIDs /\ time + TTL \in Nat /\ time + RenewTick \in Nat
    OBVIOUS
  <2>2. /\ holder' \in [WorkerIDs -> Nodes \cup {None}] /\ expires' \in [WorkerIDs -> Nat]
    BY <1>3, <2>1 DEF getWorkerID, Lease
  <2>7. workerID[n] # WorkerIDMax => workerID[n] + 1 \in WorkerIDs
    BY <2>1 DEF WorkerIDs
  <2>3. workerID' \in [Nodes -> WorkerIDs]
    BY <1>3, <2>1, <2>7 DEF getWorkerID, TryNext, runHeartbeat
  <2>4. node' \in [Nodes -> {"Absent", "Acquire", "Run", "Dead"}]
    BY <1>3 DEF getWorkerID, TryNext, runHeartbeat
  <2>5. /\ tick' \in [Nodes -> Nat] /\ beat' \in [Nodes -> Nat]
        /\ tries' \in [Nodes -> 0 .. MaxRetry - 1]
    BY <1>3, <2>1 DEF getWorkerID, TryNext, runHeartbeat
  <2>6. \A m \in Nodes : node[m] = "Run" => node'[m] = "Run"
    BY <1>3 DEF getWorkerID, TryNext, runHeartbeat
  <2> QED
    BY <1>3, <2>2, <2>3, <2>4, <2>5, <2>6 DEF getWorkerID
<1>4. ASSUME NEW n \in Nodes, Heartbeat(n) PROVE TypeOK'
  <2>1. workerID[n] \in WorkerIDs /\ time + TTL \in Nat /\ time + Pause \in Nat
        /\ tick[n] + RenewTick \in Nat /\ tries[n] \in 0 .. MaxRetry - 1
    OBVIOUS
  <2>2. /\ holder' \in [WorkerIDs -> Nodes \cup {None}] /\ expires' \in [WorkerIDs -> Nat]
    BY <1>4, <2>1 DEF Heartbeat, Renew
  <2>4. 0 \in 0 .. MaxRetry - 1
        /\ tries[n] + 1 # MaxRetry => tries[n] + 1 \in 0 .. MaxRetry - 1
    BY <2>1, SMTT(30)
  <2>3. /\ tick' \in [Nodes -> Nat] /\ beat' \in [Nodes -> Nat]
        /\ tries' \in [Nodes -> 0 .. MaxRetry - 1]
    BY <1>4, <2>1, <2>4 DEF Heartbeat, AwaitTick, Retry
  <2> QED
    BY <1>4, <2>2, <2>3 DEF Heartbeat
<1>5. ASSUME NEW n \in Nodes, Crash(n) PROVE TypeOK'
  BY <1>5 DEF Crash
<1>6. ASSUME NEW c \in Calls, NEW n \in Nodes, RenewToGenerate(c, n) PROVE TypeOK'
  <2>1. workerID[n] \in WorkerIDs /\ time + TTL \in Nat
    OBVIOUS
  <2>2. /\ holder' \in [WorkerIDs -> Nodes \cup {None}] /\ expires' \in [WorkerIDs -> Nat]
    BY <1>6, <2>1 DEF RenewToGenerate, Renew
  <2> QED
    BY <1>6, <2>2 DEF RenewToGenerate
<1>7. ASSUME NEW c \in Calls, NEW now \in Nat, NEW seq \in Nat, Issues(c, now, seq)
      PROVE  TypeOK'
  <2>1. at[c] \in Nodes /\ now \in Nat /\ seq \in 0 .. sequenceMask
    BY <1>7 DEF Issues
  <2>2. [stamp |-> now, worker |-> workerID[at[c]], seq |-> seq, by |-> at[c]] \in Issued
    BY <2>1 DEF Issued
  <2>3. issued' \subseteq Issued
    BY <1>7, <2>2 DEF Issues, Issue
  <2>4. \A x \in issued : Pack(x.stamp, x.worker, x.seq) \in Nat
    <3>0. \A x \in Issued : x.stamp \in Nat /\ x.worker \in Nat /\ x.seq \in Nat
      BY DEF Issued, WorkerIDs
    <3>1. \A x \in issued : x.stamp \in Nat /\ x.worker \in Nat /\ x.seq \in Nat
      BY <3>0
    <3> QED
      BY <3>1, PackIsNat
  <2>5. repeated' \subseteq Nat
    <3>1. repeated' = repeated \cup
        {Pack(x.stamp, x.worker, x.seq) : x \in {y \in issued :
           Pack(y.stamp, y.worker, y.seq) = Pack(now, workerID[at[c]], seq)}}
      BY <1>7 DEF Issues, Issue
    <3>2. \A r \in repeated' : r \in repeated \/
            \E x \in issued : r = Pack(x.stamp, x.worker, x.seq)
      BY <3>1
    <3>3. repeated \subseteq Nat
      OBVIOUS
    <3> SUFFICES ASSUME NEW r \in repeated' PROVE r \in Nat
      OBVIOUS
    <3>4. CASE r \in repeated
      BY <3>3, <3>4
    <3>5. CASE \E x \in issued : r = Pack(x.stamp, x.worker, x.seq)
      BY <2>4, <3>5
    <3> QED
      BY <3>2, <3>4, <3>5
  <2> QED
    BY <1>7, <2>1, <2>3, <2>5 DEF Issues, Issue, Return, Elsewhere
<1>8. ASSUME NEW c \in Calls, Spins(c) PROVE TypeOK'
  BY <1>8 DEF Spins, Elsewhere
<1>9. ASSUME NEW c \in Calls, NEW now \in Nat, Sleeps(c, now) PROVE TypeOK'
  BY <1>9 DEF Sleeps, Elsewhere
<1>10. CASE TimePasses
  BY <1>10 DEF TimePasses
<1> QED
  BY <1>1, <1>2, <1>3, <1>4, <1>5, <1>6, <1>7, <1>8, <1>9, <1>10, NextCases

(* A sleeping or spinning call is alone with its generator.                *)
Mutex ==
  \A c, d \in Calls : HasMutex(c) /\ HasMutex(d) /\ at[c] = at[d] => c = d

LEMMA MutexStep ==
  ASSUME TypeOK, TypeOK', SpinReset, Mutex, [Next]_vars
  PROVE  Mutex'
<1> USE NodeAssumption
    DEF Mutex, TypeOK, InFlight, HasMutex, MutexFree, Held, Free, NoFault, Fault, leaseVars,
        beatVars, flakeVars, callVars, idVars
<1>1. CASE UNCHANGED vars
  BY <1>1 DEF vars
<1>2. ASSUME NEW n \in Nodes, NewGenIdNode(n) PROVE Mutex'
  BY <1>2 DEF NewGenIdNode
<1>3. ASSUME NEW n \in Nodes, getWorkerID(n) PROVE Mutex'
  BY <1>3 DEF getWorkerID, Lease, TryNext, runHeartbeat
<1>4. ASSUME NEW n \in Nodes, Heartbeat(n) PROVE Mutex'
  BY <1>4 DEF Heartbeat, Renew, AwaitTick, Retry
<1>5. ASSUME NEW n \in Nodes, Crash(n) PROVE Mutex'
  BY <1>5 DEF Crash
<1>6. ASSUME NEW c \in Calls, NEW n \in Nodes, RenewToGenerate(c, n) PROVE Mutex'
  BY <1>6 DEF RenewToGenerate, Renew
<1>7. ASSUME NEW c \in Calls, NEW now \in Nat, NEW seq \in Nat, Issues(c, now, seq)
      PROVE  Mutex'
  BY <1>7 DEF Issues, Issue, Return, Elsewhere
<1>8. ASSUME NEW c \in Calls, Spins(c) PROVE Mutex'
  BY <1>8 DEF Spins, Elsewhere
<1>9. ASSUME NEW c \in Calls, NEW now \in Nat, Sleeps(c, now) PROVE Mutex'
  BY <1>9 DEF Sleeps, Elsewhere
<1>10. CASE TimePasses
  BY <1>10 DEF TimePasses
<1> QED
  BY <1>1, <1>2, <1>3, <1>4, <1>5, <1>6, <1>7, <1>8, <1>9, <1>10, NextCases

LEMMA SpinResetStep ==
  ASSUME TypeOK, TypeOK', SpinReset, Mutex, [Next]_vars
  PROVE  SpinReset'
<1> USE NodeAssumption
    DEF SpinReset, TypeOK, InFlight, HasMutex, MutexFree, Held, Free, NoFault, Fault, leaseVars,
        beatVars, flakeVars, callVars, idVars
<1>1. CASE UNCHANGED vars
  BY <1>1 DEF vars
<1>2. ASSUME NEW n \in Nodes, NewGenIdNode(n) PROVE SpinReset'
  BY <1>2 DEF NewGenIdNode
<1>3. ASSUME NEW n \in Nodes, getWorkerID(n) PROVE SpinReset'
  BY <1>3 DEF getWorkerID, Lease, TryNext, runHeartbeat
<1>4. ASSUME NEW n \in Nodes, Heartbeat(n) PROVE SpinReset'
  BY <1>4 DEF Heartbeat, Renew, AwaitTick, Retry
<1>5. ASSUME NEW n \in Nodes, Crash(n) PROVE SpinReset'
  BY <1>5 DEF Crash
<1>6. ASSUME NEW c \in Calls, NEW n \in Nodes, RenewToGenerate(c, n) PROVE SpinReset'
  BY <1>6 DEF RenewToGenerate, Renew
<1>7. ASSUME NEW c \in Calls, NEW now \in Nat, NEW seq \in Nat, Issues(c, now, seq)
      PROVE  SpinReset'
  <2>1. \A d \in Calls \ {c} : pc[d] = "Spin" => at[d] # at[c]
    BY <1>7 DEF Issues, Mutex
  <2>2. pc' = [pc EXCEPT ![c] = "Idle"] /\ at' = [at EXCEPT ![c] = None]
        /\ sequence' = [sequence EXCEPT ![at[c]] = seq]
    BY <1>7 DEF Issues, Issue, Return
  <2> QED
    BY <2>1, <2>2
<1>8. ASSUME NEW c \in Calls, Spins(c) PROVE SpinReset'
  BY <1>8 DEF Spins, Elsewhere
<1>9. ASSUME NEW c \in Calls, NEW now \in Nat, Sleeps(c, now) PROVE SpinReset'
  BY <1>9 DEF Sleeps, Elsewhere
<1>10. CASE TimePasses
  BY <1>10 DEF TimePasses
<1> QED
  BY <1>1, <1>2, <1>3, <1>4, <1>5, <1>6, <1>7, <1>8, <1>9, <1>10, NextCases

(* Every reachable state has the types OrderIds declares.                  *)
THEOREM TypeCorrect == Spec => []TypeOK
<1>1. Init => TypeOK /\ SpinReset /\ Mutex
  BY NodeAssumption
     DEF Init, TypeOK, SpinReset, Mutex, InFlight, HasMutex, WorkerIDs
<1>2. TypeOK /\ SpinReset /\ Mutex /\ [Next]_vars
        => (TypeOK /\ SpinReset /\ Mutex)'
  BY TypeStep, MutexStep, SpinResetStep
<1> QED
  BY <1>1, <1>2, PTL DEF Spec

-----------------------------------------------------------------------------
(* Ids of one generator: everything it has returned is below what it       *)
(* returns next.                                                           *)
OwnBelow ==
  \A x \in issued :
    /\ x.worker = workerID[x.by] /\ node[x.by] \in {"Run", "Dead"}
    /\ x.stamp <= lastStamp[x.by]
    /\ \/ x.stamp < lastStamp[x.by] \/ x.seq <= sequence[x.by]
       \/ node[x.by] = "Dead"
       \/ \E c \in Calls : pc[c] = "Spin" /\ at[c] = x.by

LEMMA IssuedBelow ==
  ASSUME ~ClockSetAsleep, TypeOK, Mutex, OwnBelow,
         NEW c \in Calls, NEW now \in Nat, NEW seq \in Nat, Issues(c, now, seq),
         NEW y \in issued, y.by = at[c]
  PROVE  /\ y.stamp \in Nat /\ y.seq \in 0 .. sequenceMask
         /\ y.worker = workerID[at[c]]
         /\ y.stamp < now \/ (y.stamp = now /\ y.seq < seq)
<1> USE NodeAssumption DEF TypeOK, InFlight, HasMutex, MutexFree
<1>1. /\ at[c] \in Nodes /\ node[at[c]] = "Run"
      /\ y.stamp \in Nat /\ y.seq \in 0 .. sequenceMask
      /\ lastStamp[at[c]] \in Nat /\ sequence[at[c]] \in 0 .. sequenceMask
  BY DEF Issues, Issued
<1>2. pc[c] # "Spin" => \A d \in Calls : pc[d] = "Spin" => at[d] # at[c]
  BY DEF Issues, Mutex
<1>3. /\ y.worker = workerID[at[c]] /\ y.stamp <= lastStamp[at[c]]
      /\ pc[c] # "Spin" => y.stamp < lastStamp[at[c]] \/ y.seq <= sequence[at[c]]
  BY <1>1, <1>2 DEF OwnBelow
<1> QED
  BY <1>1, <1>3 DEF Issues

(* The id a call returns, and the state of its generator after it.         *)
LEMMA IssuedId ==
  ASSUME TypeOK,
         NEW c \in Calls, NEW now \in Nat, NEW seq \in Nat, Issues(c, now, seq)
  PROVE  /\ at[c] \in Nodes /\ node[at[c]] = "Run" /\ now \in Clock
         /\ seq \in 0 .. sequenceMask
         /\ issued' = issued \cup {[stamp |-> now, worker |-> workerID[at[c]],
                                    seq |-> seq, by |-> at[c]]}
         /\ lastStamp' = [lastStamp EXCEPT ![at[c]] = now]
         /\ sequence' = [sequence EXCEPT ![at[c]] = seq]
         /\ pc' = [pc EXCEPT ![c] = "Idle"] /\ at' = [at EXCEPT ![c] = None]
         /\ UNCHANGED <<time, holder, expires, node, workerID>>
BY NodeAssumption
   DEF TypeOK, InFlight, Issues, Issue, Return, Elsewhere, leaseVars

LEMMA OwnStep ==
  ASSUME ~ClockSetAsleep, TypeOK, TypeOK', SpinReset, Mutex, OwnBelow, [Next]_vars
  PROVE  OwnBelow'
<1> USE NodeAssumption
    DEF OwnBelow, TypeOK, InFlight, HasMutex, MutexFree, Held, Free, NoFault, Fault, leaseVars,
        beatVars, flakeVars, callVars, idVars
<1>1. CASE UNCHANGED vars
  BY <1>1 DEF vars
<1>2. ASSUME NEW n \in Nodes, NewGenIdNode(n) PROVE OwnBelow'
  BY <1>2 DEF NewGenIdNode
<1>3. ASSUME NEW n \in Nodes, getWorkerID(n) PROVE OwnBelow'
  <2>1. \A x \in issued : x.by \in Nodes \ {n}
    BY <1>3 DEF getWorkerID, Issued
  <2>2. \A m \in Nodes \ {n} : workerID'[m] = workerID[m] /\ node'[m] = node[m]
    BY <1>3 DEF getWorkerID, TryNext, runHeartbeat
  <2>3. UNCHANGED <<issued, lastStamp, sequence, pc, at>>
    BY <1>3 DEF getWorkerID
  <2> QED
    BY <2>1, <2>2, <2>3
<1>4. ASSUME NEW n \in Nodes, Heartbeat(n) PROVE OwnBelow'
  BY <1>4 DEF Heartbeat, Renew, AwaitTick, Retry
<1>5. ASSUME NEW n \in Nodes, Crash(n) PROVE OwnBelow'
  <2>1. node' = [node EXCEPT ![n] = "Dead"]
        /\ UNCHANGED <<workerID, issued, lastStamp, sequence>>
    BY <1>5 DEF Crash
  <2>2. \A c \in Calls : at[c] # n => pc'[c] = pc[c] /\ at'[c] = at[c]
    BY <1>5 DEF Crash
  <2>3. \A x \in issued : x.by \in Nodes
    BY DEF Issued
  <2> QED
    BY <2>1, <2>2, <2>3
<1>6. ASSUME NEW c \in Calls, NEW n \in Nodes, RenewToGenerate(c, n) PROVE OwnBelow'
  BY <1>6 DEF RenewToGenerate, Renew
<1>7. ASSUME NEW c \in Calls, NEW now \in Nat, NEW seq \in Nat, Issues(c, now, seq)
      PROVE  OwnBelow'
  <2> DEFINE id == [stamp |-> now, worker |-> workerID[at[c]],
                   seq |-> seq, by |-> at[c]]
  <2>1. ASSUME NEW x \in issued, x.by = at[c]
        PROVE  /\ x.worker = workerID[at[c]] /\ x.stamp <= now
               /\ x.stamp < now \/ x.seq <= seq
    BY <1>7, <2>1, IssuedBelow, IssuedId
  <2>2. ASSUME NEW x \in issued, x.by # at[c], NEW d \in Calls,
               pc[d] = "Spin", at[d] = x.by
        PROVE  pc'[d] = "Spin" /\ at'[d] = x.by
    BY <1>7, <2>2, IssuedId
  <2>3. \A x \in issued : x.by \in Nodes
    BY DEF Issued
  <2>4. ASSUME NEW x \in issued' PROVE
          /\ x.worker = workerID'[x.by] /\ node'[x.by] \in {"Run", "Dead"}
          /\ x.stamp <= lastStamp'[x.by]
          /\ \/ x.stamp < lastStamp'[x.by] \/ x.seq <= sequence'[x.by]
             \/ node'[x.by] = "Dead"
             \/ \E d \in Calls : pc'[d] = "Spin" /\ at'[d] = x.by
    <3>1. CASE x = id
      BY <1>7, <3>1, IssuedId
    <3>2. CASE x \in issued /\ x.by = at[c]
      BY <1>7, <2>1, <3>2, IssuedId
    <3>3. CASE x \in issued /\ x.by # at[c]
      <4>1. x.by \in Nodes /\ workerID'[x.by] = workerID[x.by]
            /\ node'[x.by] = node[x.by] /\ lastStamp'[x.by] = lastStamp[x.by]
            /\ sequence'[x.by] = sequence[x.by]
        BY <1>7, <2>3, <3>3, IssuedId
      <4>2. (\E d \in Calls : pc[d] = "Spin" /\ at[d] = x.by)
              => \E d \in Calls : pc'[d] = "Spin" /\ at'[d] = x.by
        BY <2>2, <3>3
      <4> QED
        BY <3>3, <4>1, <4>2
    <3> QED
      BY <1>7, <2>4, <3>1, <3>2, <3>3, IssuedId
  <2> QED
    BY <2>4
<1>8. ASSUME NEW c \in Calls, Spins(c) PROVE OwnBelow'
  BY <1>8 DEF Spins, Elsewhere
<1>9. ASSUME NEW c \in Calls, NEW now \in Nat, Sleeps(c, now) PROVE OwnBelow'
  BY <1>9 DEF Sleeps, Elsewhere
<1>10. CASE TimePasses
  BY <1>10 DEF TimePasses
<1> QED
  BY <1>1, <1>2, <1>3, <1>4, <1>5, <1>6, <1>7, <1>8, <1>9, <1>10, NextCases

(* The ids of one generator increase, if no clock is set back while a call *)
(* sleeps: GetNextID does not compare the clock again after its sleep.     *)
THEOREM IdsOfOneGeneratorIncrease ==
  ASSUME ~ClockSetAsleep
  PROVE  Spec => IdsIncrease
<1>1. Init => TypeOK /\ SpinReset /\ Mutex /\ OwnBelow
  BY NodeAssumption
     DEF Init, TypeOK, SpinReset, Mutex, OwnBelow, InFlight, HasMutex, WorkerIDs
<1>2. TypeOK /\ SpinReset /\ Mutex /\ OwnBelow /\ [Next]_vars
        => (TypeOK /\ SpinReset /\ Mutex /\ OwnBelow)'
  BY TypeStep, MutexStep, SpinResetStep, OwnStep
<1>3. ASSUME TypeOK, SpinReset, Mutex, OwnBelow, Next
      PROVE  [\A x \in issued' \ issued, y \in issued :
                x.by = y.by => Pack(y.stamp, y.worker, y.seq)
                                 < Pack(x.stamp, x.worker, x.seq)]_vars
  <2> SUFFICES ASSUME NEW x \in issued' \ issued, NEW y \in issued, x.by = y.by
               PROVE  Pack(y.stamp, y.worker, y.seq)
                        < Pack(x.stamp, x.worker, x.seq)
    OBVIOUS
  <2>1. PICK c \in Calls : \E now, seq \in Nat : Issues(c, now, seq)
    BY <1>3, NextCases
       DEF NewGenIdNode, getWorkerID, Heartbeat, Crash, RenewToGenerate,
           Spins, Sleeps, TimePasses, idVars
  <2>2. PICK now \in Nat, seq \in Nat : Issues(c, now, seq)
    BY <2>1
  <2>3. x = [stamp |-> now, worker |-> workerID[at[c]], seq |-> seq, by |-> at[c]]
        /\ seq \in 0 .. sequenceMask /\ workerID[at[c]] \in WorkerIDs
    BY <1>3, <2>2, IssuedId DEF TypeOK
  <2>4. /\ y.stamp \in Nat /\ y.seq \in 0 .. sequenceMask
        /\ y.worker = workerID[at[c]]
        /\ y.stamp < now \/ (y.stamp = now /\ y.seq < seq)
    BY <1>3, <2>2, <2>3, IssuedBelow
  <2>5. workerID[at[c]] \in 0 .. 31 /\ seq \in 0 .. 511 /\ y.seq \in 0 .. 511
    BY <2>3, <2>4, NodeAssumption, SMTT(30) DEF WorkerIDs
  <2>6. Pack(y.stamp, workerID[at[c]], y.seq) < Pack(now, workerID[at[c]], seq)
    <3> DEFINE t == y.stamp  w == workerID[at[c]]  p == y.seq
    <3>1. /\ t \in Nat /\ w \in 0 .. 31 /\ p \in 0 .. 511 /\ seq \in 0 .. 511
          /\ t < now \/ (t = now /\ p < seq)
      BY <2>4, <2>5
    <3> HIDE DEF t, w, p
    <3>2. Pack(t, w, p) < Pack(now, w, seq)
      BY <3>1 DEF Pack
    <3> QED
      BY <3>2 DEF t, w, p
  <2> QED
    BY <2>3, <2>4, <2>6
<1> QED
  BY <1>1, <1>2, <1>3, PTL DEF Spec, IdsIncrease

-----------------------------------------------------------------------------
(* A call that has renewed the lease still has it when it returns, and     *)
(* every id is older than the lease it was made under.                     *)
ExpiresBound == \A i \in WorkerIDs : expires[i] <= time + TTL

InFlightHolds ==
  \A c \in Calls : InFlight(c) =>
    /\ holder[workerID[at[c]]] = at[c]
    /\ renewed[c] <= time /\ time <= renewed[c] + Delay
    /\ renewed[c] + TTL <= expires[workerID[at[c]]]

IdsOld == \A x \in issued : x.stamp + TTL <= expires[x.worker] + Delay + Skew

OthersOld == \A x \in issued : x.by # holder[x.worker] => x.stamp + Skew < time

LEMMA ExpiresStep ==
  ASSUME TypeOK, TypeOK', SpinReset, ExpiresBound, [Next]_vars
  PROVE  ExpiresBound'
<1> USE NodeAssumption
    DEF ExpiresBound, TypeOK, InFlight, HasMutex, MutexFree, Held, Free, NoFault, Fault, leaseVars,
        beatVars, flakeVars, callVars, idVars
<1>1. CASE UNCHANGED vars
  BY <1>1 DEF vars
<1>2. ASSUME NEW n \in Nodes, NewGenIdNode(n) PROVE ExpiresBound'
  BY <1>2 DEF NewGenIdNode
<1>3. ASSUME NEW n \in Nodes, getWorkerID(n) PROVE ExpiresBound'
  BY <1>3 DEF getWorkerID, Lease, TryNext, runHeartbeat
<1>4. ASSUME NEW n \in Nodes, Heartbeat(n) PROVE ExpiresBound'
  BY <1>4 DEF Heartbeat, Renew, AwaitTick, Retry
<1>5. ASSUME NEW n \in Nodes, Crash(n) PROVE ExpiresBound'
  BY <1>5 DEF Crash
<1>6. ASSUME NEW c \in Calls, NEW n \in Nodes, RenewToGenerate(c, n) PROVE ExpiresBound'
  BY <1>6 DEF RenewToGenerate, Renew
<1>7. ASSUME NEW c \in Calls, NEW now \in Nat, NEW seq \in Nat, Issues(c, now, seq)
      PROVE  ExpiresBound'
  BY <1>7 DEF Issues, Issue, Return, Elsewhere
<1>8. ASSUME NEW c \in Calls, Spins(c) PROVE ExpiresBound'
  BY <1>8 DEF Spins, Elsewhere
<1>9. ASSUME NEW c \in Calls, NEW now \in Nat, Sleeps(c, now) PROVE ExpiresBound'
  BY <1>9 DEF Sleeps, Elsewhere
<1>10. CASE TimePasses
  BY <1>10 DEF TimePasses
<1> QED
  BY <1>1, <1>2, <1>3, <1>4, <1>5, <1>6, <1>7, <1>8, <1>9, <1>10, NextCases

LEMMA InFlightStep ==
  ASSUME Delay < TTL, TypeOK, TypeOK', SpinReset, Mutex, InFlightHolds, [Next]_vars
  PROVE  InFlightHolds'
<1> USE NodeAssumption
    DEF InFlightHolds, TypeOK, InFlight, HasMutex, MutexFree, Held, Free, NoFault, Fault, leaseVars,
        beatVars, flakeVars, callVars, idVars
<1>1. CASE UNCHANGED vars
  BY <1>1 DEF vars
<1>2. ASSUME NEW n \in Nodes, NewGenIdNode(n) PROVE InFlightHolds'
  BY <1>2 DEF NewGenIdNode
<1>3. ASSUME NEW n \in Nodes, getWorkerID(n) PROVE InFlightHolds'
  BY <1>3 DEF getWorkerID, Lease, TryNext, runHeartbeat
<1>4. ASSUME NEW n \in Nodes, Heartbeat(n) PROVE InFlightHolds'
  BY <1>4 DEF Heartbeat, Renew, AwaitTick, Retry
<1>5. ASSUME NEW n \in Nodes, Crash(n) PROVE InFlightHolds'
  BY <1>5 DEF Crash
<1>6. ASSUME NEW c \in Calls, NEW n \in Nodes, RenewToGenerate(c, n) PROVE InFlightHolds'
  BY <1>6 DEF RenewToGenerate, Renew
<1>7. ASSUME NEW c \in Calls, NEW now \in Nat, NEW seq \in Nat, Issues(c, now, seq)
      PROVE  InFlightHolds'
  BY <1>7 DEF Issues, Issue, Return, Elsewhere
<1>8. ASSUME NEW c \in Calls, Spins(c) PROVE InFlightHolds'
  BY <1>8 DEF Spins, Elsewhere
<1>9. ASSUME NEW c \in Calls, NEW now \in Nat, Sleeps(c, now) PROVE InFlightHolds'
  BY <1>9 DEF Sleeps, Elsewhere
<1>10. CASE TimePasses
  BY <1>10 DEF TimePasses
<1> QED
  BY <1>1, <1>2, <1>3, <1>4, <1>5, <1>6, <1>7, <1>8, <1>9, <1>10, NextCases

LEMMA IdsOldStep ==
  ASSUME TypeOK, TypeOK', SpinReset, ExpiresBound, InFlightHolds, IdsOld, [Next]_vars
  PROVE  IdsOld'
<1> USE NodeAssumption
    DEF IdsOld, TypeOK, InFlight, HasMutex, MutexFree, Held, Free, NoFault, Fault, leaseVars,
        beatVars, flakeVars, callVars, idVars
<1>1. CASE UNCHANGED vars
  BY <1>1 DEF vars
<1>2. ASSUME NEW n \in Nodes, NewGenIdNode(n) PROVE IdsOld'
  BY <1>2 DEF NewGenIdNode
<1>3. ASSUME NEW n \in Nodes, getWorkerID(n) PROVE IdsOld'
  <2>1. workerID[n] \in WorkerIDs /\ time + TTL \in Nat
    OBVIOUS
  <2>5. UNCHANGED expires
        \/ expires' = [expires EXCEPT ![workerID[n]] = time + TTL]
    BY <1>3, <2>1 DEF getWorkerID, Lease, Renew
  <2>2. \A i \in WorkerIDs : expires[i] <= expires'[i]
    BY <2>1, <2>5 DEF ExpiresBound
  <2>3. expires' \in [WorkerIDs -> Nat] /\ issued' = issued
    BY <1>3, <2>1 DEF getWorkerID, Lease, Renew
  <2>4. \A x \in issued : x.worker \in WorkerIDs /\ x.stamp \in Nat
    BY DEF Issued
  <2> QED
    BY <2>2, <2>3, <2>4
<1>4. ASSUME NEW n \in Nodes, Heartbeat(n) PROVE IdsOld'
  <2>1. workerID[n] \in WorkerIDs /\ time + TTL \in Nat
    OBVIOUS
  <2>5. UNCHANGED expires
        \/ expires' = [expires EXCEPT ![workerID[n]] = time + TTL]
    BY <1>4, <2>1 DEF Heartbeat, Lease, Renew
  <2>2. \A i \in WorkerIDs : expires[i] <= expires'[i]
    BY <2>1, <2>5 DEF ExpiresBound
  <2>3. expires' \in [WorkerIDs -> Nat] /\ issued' = issued
    BY <1>4, <2>1 DEF Heartbeat, Lease, Renew
  <2>4. \A x \in issued : x.worker \in WorkerIDs /\ x.stamp \in Nat
    BY DEF Issued
  <2> QED
    BY <2>2, <2>3, <2>4
<1>5. ASSUME NEW n \in Nodes, Crash(n) PROVE IdsOld'
  BY <1>5 DEF Crash
<1>6. ASSUME NEW c \in Calls, NEW n \in Nodes, RenewToGenerate(c, n) PROVE IdsOld'
  <2>1. workerID[n] \in WorkerIDs /\ time + TTL \in Nat
    OBVIOUS
  <2>5. UNCHANGED expires
        \/ expires' = [expires EXCEPT ![workerID[n]] = time + TTL]
    BY <1>6, <2>1 DEF RenewToGenerate, Lease, Renew
  <2>2. \A i \in WorkerIDs : expires[i] <= expires'[i]
    BY <2>1, <2>5 DEF ExpiresBound
  <2>3. expires' \in [WorkerIDs -> Nat] /\ issued' = issued
    BY <1>6, <2>1 DEF RenewToGenerate, Lease, Renew
  <2>4. \A x \in issued : x.worker \in WorkerIDs /\ x.stamp \in Nat
    BY DEF Issued
  <2> QED
    BY <2>2, <2>3, <2>4
<1>7. ASSUME NEW c \in Calls, NEW now \in Nat, NEW seq \in Nat, Issues(c, now, seq)
      PROVE  IdsOld'
  <2> DEFINE id == [stamp |-> now, worker |-> workerID[at[c]],
                   seq |-> seq, by |-> at[c]]
  <2>1. /\ issued' = issued \cup {id} /\ now \in Clock
        /\ at[c] \in Nodes /\ UNCHANGED <<time, expires, holder>>
    BY <1>7, IssuedId
  <2>2. InFlight(c)
    BY <1>7 DEF Issues
  <2>3. now + TTL <= expires[workerID[at[c]]] + Delay + Skew
    <3>1. now <= time + Skew /\ time <= renewed[c] + Delay
          /\ renewed[c] + TTL <= expires[workerID[at[c]]]
      BY <2>1, <2>2 DEF Clock, InFlightHolds
    <3>2. renewed[c] \in Nat /\ expires[workerID[at[c]]] \in Nat
      BY <2>1
    <3> QED
      BY <3>1, <3>2
  <2> QED
    BY <2>1, <2>3
<1>8. ASSUME NEW c \in Calls, Spins(c) PROVE IdsOld'
  BY <1>8 DEF Spins, Elsewhere
<1>9. ASSUME NEW c \in Calls, NEW now \in Nat, Sleeps(c, now) PROVE IdsOld'
  BY <1>9 DEF Sleeps, Elsewhere
<1>10. CASE TimePasses
  BY <1>10 DEF TimePasses
<1> QED
  BY <1>1, <1>2, <1>3, <1>4, <1>5, <1>6, <1>7, <1>8, <1>9, <1>10, NextCases

LEMMA OthersOldStep ==
  ASSUME Delay + 2 * Skew < TTL, TypeOK, TypeOK', SpinReset, ExpiresBound, InFlightHolds, IdsOld, OthersOld, [Next]_vars
  PROVE  OthersOld'
<1> USE NodeAssumption
    DEF OthersOld, TypeOK, InFlight, HasMutex, MutexFree, Held, Free, NoFault, Fault, leaseVars,
        beatVars, flakeVars, callVars, idVars
<1>1. CASE UNCHANGED vars
  BY <1>1 DEF vars
<1>2. ASSUME NEW n \in Nodes, NewGenIdNode(n) PROVE OthersOld'
  BY <1>2 DEF NewGenIdNode
<1>3. ASSUME NEW n \in Nodes, getWorkerID(n) PROVE OthersOld'
  <2>1. issued' = issued /\ time' = time /\ workerID[n] \in WorkerIDs
    BY <1>3 DEF getWorkerID
  <2>2. holder' = holder \/
        (Free(workerID[n]) /\ holder' = [holder EXCEPT ![workerID[n]] = n])
    BY <1>3 DEF getWorkerID, Lease
  <2>3. ASSUME NEW x \in issued, Free(x.worker) PROVE x.stamp + Skew < time
    <3>1. x.stamp \in Nat /\ x.worker \in WorkerIDs
      BY DEF Issued
    <3>2. x.stamp + TTL <= expires[x.worker] + Delay + Skew
          /\ expires[x.worker] <= time /\ expires[x.worker] \in Nat
      BY <2>3, <3>1 DEF IdsOld
    <3> QED
      BY <3>1, <3>2
  <2>4. \A x \in issued : x.worker \in WorkerIDs
    BY DEF Issued
  <2> QED
    BY <2>1, <2>2, <2>3, <2>4
<1>4. ASSUME NEW n \in Nodes, Heartbeat(n) PROVE OthersOld'
  BY <1>4 DEF Heartbeat, Renew, AwaitTick, Retry
<1>5. ASSUME NEW n \in Nodes, Crash(n) PROVE OthersOld'
  BY <1>5 DEF Crash
<1>6. ASSUME NEW c \in Calls, NEW n \in Nodes, RenewToGenerate(c, n) PROVE OthersOld'
  BY <1>6 DEF RenewToGenerate, Renew
<1>7. ASSUME NEW c \in Calls, NEW now \in Nat, NEW seq \in Nat, Issues(c, now, seq)
      PROVE  OthersOld'
  <2> DEFINE id == [stamp |-> now, worker |-> workerID[at[c]],
                   seq |-> seq, by |-> at[c]]
  <2>1. /\ issued' = issued \cup {id} /\ now \in Clock
        /\ at[c] \in Nodes /\ UNCHANGED <<time, expires, holder>>
    BY <1>7, IssuedId
  <2>2. InFlight(c)
    BY <1>7 DEF Issues
  <2>3. holder[workerID[at[c]]] = at[c]
    BY <2>2 DEF InFlightHolds
  <2> QED
    BY <2>1, <2>3
<1>8. ASSUME NEW c \in Calls, Spins(c) PROVE OthersOld'
  BY <1>8 DEF Spins, Elsewhere
<1>9. ASSUME NEW c \in Calls, NEW now \in Nat, Sleeps(c, now) PROVE OthersOld'
  BY <1>9 DEF Sleeps, Elsewhere
<1>10. CASE TimePasses
  <2>1. time' = time + 1 /\ UNCHANGED <<issued, holder>>
    BY <1>10 DEF TimePasses
  <2>2. \A x \in issued : x.stamp \in Nat
    BY DEF Issued
  <2>3. ASSUME NEW x \in issued', x.by # holder'[x.worker]
        PROVE  x.stamp + Skew < time'
    BY <2>1, <2>2, <2>3
  <2> QED
    BY <2>3
<1> QED
  BY <1>1, <1>2, <1>3, <1>4, <1>5, <1>6, <1>7, <1>8, <1>9, <1>10, NextCases

(* No generator returns an id twice, and no two return the same one, if    *)
(* calls return in time: luaRenew and the clock are not read together.     *)
THEOREM NoIdTwice ==
  ASSUME Delay + 2 * Skew < TTL, ~ClockSetAsleep
  PROVE  Spec => []Unique
<1> DEFINE Inv == /\ TypeOK /\ SpinReset /\ Mutex /\ OwnBelow /\ ExpiresBound
                  /\ InFlightHolds /\ IdsOld /\ OthersOld /\ Unique
<1>1. Init => Inv
  BY NodeAssumption
     DEF Init, TypeOK, SpinReset, Mutex, OwnBelow, ExpiresBound, InFlightHolds,
         IdsOld, OthersOld, Unique, InFlight, HasMutex, WorkerIDs
<1>2. ASSUME Inv, [Next]_vars PROVE Inv'
  <2>1. Delay < TTL
    BY NodeAssumption
  <2>2. TypeOK' /\ SpinReset' /\ Mutex' /\ OwnBelow'
    BY <1>2, TypeStep, MutexStep, SpinResetStep, OwnStep
  <2>3. ExpiresBound' /\ InFlightHolds'
    BY <1>2, <2>1, <2>2, ExpiresStep, InFlightStep
  <2>4. IdsOld' /\ OthersOld'
    BY <1>2, <2>2, IdsOldStep, OthersOldStep
  <2>5. Unique'
    <3>1. CASE UNCHANGED repeated
      BY <1>2, <3>1 DEF Unique
    <3>2. ASSUME NEW c \in Calls, NEW now \in Nat, NEW seq \in Nat,
                 Issues(c, now, seq)
          PROVE  repeated' = {}
      <4>1. /\ at[c] \in Nodes /\ now \in Clock /\ seq \in 0 .. sequenceMask
            /\ workerID[at[c]] \in WorkerIDs
        BY <1>2, <3>2, IssuedId DEF TypeOK
      <4>2. holder[workerID[at[c]]] = at[c]
        BY <1>2, <3>2 DEF Issues, InFlightHolds
      <4>3. ASSUME NEW y \in issued, Pack(y.stamp, y.worker, y.seq)
                                       = Pack(now, workerID[at[c]], seq)
            PROVE  FALSE
        <5>0. /\ y.stamp \in Nat /\ y.worker \in WorkerIDs
              /\ y.seq \in 0 .. sequenceMask
          BY <1>2 DEF TypeOK, Issued
        <5>1. /\ y.stamp \in Nat /\ y.worker \in 0 .. 31
              /\ y.seq \in 0 .. 511
              /\ workerID[at[c]] \in 0 .. 31 /\ seq \in 0 .. 511
          BY <4>1, <5>0, NodeAssumption, SMTT(30) DEF WorkerIDs
        <5>2. y.stamp = now /\ y.worker = workerID[at[c]] /\ y.seq = seq
          <6> DEFINE t == y.stamp  v == y.worker  p == y.seq
                     w == workerID[at[c]]
          <6>1. t \in Nat /\ v \in 0 .. 31 /\ p \in 0 .. 511
                /\ w \in 0 .. 31 /\ seq \in 0 .. 511
            BY <5>1
          <6>2. Pack(t, v, p) = Pack(now, w, seq)
            BY <4>3
          <6> HIDE DEF t, v, p, w
          <6>3. t = now /\ v = w /\ p = seq
            BY <6>1, <6>2 DEF Pack
          <6> QED
            BY <6>3 DEF t, v, p, w
        <5>3. CASE y.by = at[c]
          BY <1>2, <3>2, <5>1, <5>2, <5>3, IssuedBelow
        <5>4. CASE y.by # at[c]
          <6>1. y.stamp + Skew < time
            BY <1>2, <4>2, <5>2, <5>4 DEF OthersOld
          <6>2. time \in Nat /\ Skew \in Nat /\ time - Skew <= now
            BY <1>2, <4>1, NodeAssumption DEF TypeOK, Clock
          <6> QED
            BY <5>1, <5>2, <6>1, <6>2
        <5> QED
          BY <5>3, <5>4
      <4>4. repeated' = repeated \cup
              {Pack(x.stamp, x.worker, x.seq) : x \in {y \in issued :
                 Pack(y.stamp, y.worker, y.seq) = Pack(now, workerID[at[c]], seq)}}
        BY <3>2 DEF Issues, Issue
      <4> QED
        BY <1>2, <4>3, <4>4 DEF Unique
    <3>3. (UNCHANGED repeated)
          \/ \E c \in Calls : \E now, seq \in Nat : Issues(c, now, seq)
      BY <1>2, NextCases
         DEF vars, NewGenIdNode, getWorkerID, Heartbeat, Crash, RenewToGenerate,
             Spins, Sleeps, TimePasses, idVars
    <3> QED
      BY <3>1, <3>2, <3>3 DEF Unique
  <2> QED
    BY <2>2, <2>3, <2>4, <2>5
<1>3. Inv => Unique
  OBVIOUS
<1> QED
  BY <1>1, <1>2, <1>3, PTL DEF Spec

-----------------------------------------------------------------------------
(* The heartbeat is at most its retries behind its tick, and the lease     *)
(* lasts for TTL from the tick before.                                     *)
Late == (MaxRetry - 1) * Pause

Timing == RenewTick + Late < TTL /\ Late <= RenewTick

Beating ==
  \A n \in Nodes : node[n] = "Run" /\ faults < MaxRetry =>
    /\ holder[workerID[n]] = n
    /\ tries[n] <= faults
    /\ time <= beat[n] /\ tick[n] <= beat[n]
    /\ beat[n] <= tick[n] + tries[n] * Pause
    /\ tick[n] + TTL <= expires[workerID[n]] + RenewTick

LEMMA Products ==
  \A a, b, p \in Nat : /\ a * p \in Nat
                      /\ a <= b => a * p <= b * p
                      /\ (a + 1) * p = a * p + p
OBVIOUS

LEMMA Between == \A a, b \in Nat : a <= b => a = b \/ ~(b <= a)
OBVIOUS

LEMMA BeatingHeld ==
  ASSUME Timing, TypeOK, Beating,
         NEW n \in Nodes, node[n] = "Run", faults < MaxRetry
  PROVE  /\ Held(n)
         /\ beat[n] <= tick[n] + RenewTick
<1>1. /\ tries[n] \in Nat /\ Pause \in Nat /\ MaxRetry - 1 \in Nat
      /\ tries[n] <= MaxRetry - 1 /\ workerID[n] \in WorkerIDs
      /\ tick[n] \in Nat /\ beat[n] \in Nat /\ time \in Nat
      /\ RenewTick \in Nat /\ TTL \in Nat /\ expires[workerID[n]] \in Nat
  BY NodeAssumption DEF TypeOK
<1>2. tries[n] * Pause \in Nat /\ Late \in Nat /\ tries[n] * Pause <= Late
  BY <1>1, Products DEF Late
<1>3. /\ holder[workerID[n]] = n
      /\ time <= beat[n] /\ beat[n] <= tick[n] + tries[n] * Pause
      /\ tick[n] + TTL <= expires[workerID[n]] + RenewTick
  BY DEF Beating
<1>4. time < expires[workerID[n]] /\ beat[n] <= tick[n] + RenewTick
  BY <1>1, <1>2, <1>3 DEF Timing
<1> QED
  BY <1>1, <1>3, <1>4 DEF Held, Free

LEMMA BeatingStep ==
  ASSUME Timing, TypeOK, TypeOK', SpinReset, ExpiresBound, Beating, [Next]_vars
  PROVE  Beating'
<1> USE NodeAssumption
    DEF Beating, TypeOK, InFlight, HasMutex, MutexFree, Held, Free, NoFault, Fault, leaseVars,
        beatVars, flakeVars, callVars, idVars
<1>1. CASE UNCHANGED vars
  BY <1>1 DEF vars
<1>2. ASSUME NEW n \in Nodes, NewGenIdNode(n) PROVE Beating'
  BY <1>2 DEF NewGenIdNode
<1>3. ASSUME NEW n \in Nodes, getWorkerID(n) PROVE Beating'
  <2>1. workerID[n] \in WorkerIDs /\ node[n] = "Acquire" /\ time + TTL \in Nat
    BY <1>3 DEF getWorkerID
  <2>2. UNCHANGED leaseVars \/ (Free(workerID[n]) /\ Lease(n))
    BY <1>3 DEF getWorkerID
  <2>3. ASSUME node'[n] = "Run"
        PROVE  /\ holder'[workerID'[n]] = n
               /\ tries'[n] <= faults'
               /\ time' <= beat'[n] /\ tick'[n] <= beat'[n]
               /\ beat'[n] <= tick'[n] + tries'[n] * Pause
               /\ tick'[n] + TTL <= expires'[workerID'[n]] + RenewTick
    <3>1. Lease(n) /\ runHeartbeat(n) /\ UNCHANGED <<time, faults>>
      BY <1>3, <2>1, <2>3 DEF getWorkerID, TryNext
    <3>2. 0 * Pause = 0
      OBVIOUS
    <3>3. /\ workerID'[n] = workerID[n] /\ holder'[workerID[n]] = n
          /\ expires'[workerID[n]] = time + TTL /\ tick'[n] = time + RenewTick
          /\ beat'[n] = time + RenewTick /\ tries'[n] = 0
      BY <2>1, <3>1 DEF Lease, runHeartbeat
    <3> QED
      BY <3>1, <3>2, <3>3
  <2>4. ASSUME NEW m \in Nodes \ {n}, node'[m] = "Run", faults' < MaxRetry
        PROVE  /\ holder'[workerID'[m]] = m
               /\ tries'[m] <= faults'
               /\ time' <= beat'[m] /\ tick'[m] <= beat'[m]
               /\ beat'[m] <= tick'[m] + tries'[m] * Pause
               /\ tick'[m] + TTL <= expires'[workerID'[m]] + RenewTick
    <3>1. node[m] = "Run" /\ faults < MaxRetry /\ faults <= faults'
          /\ workerID'[m] = workerID[m] /\ tick'[m] = tick[m]
          /\ beat'[m] = beat[m] /\ tries'[m] = tries[m] /\ time' = time
      BY <1>3, <2>1, <2>4 DEF getWorkerID, TryNext, runHeartbeat
    <3>2. Held(m)
      BY <2>4, <3>1, BeatingHeld
    <3>3. holder'[workerID[m]] = holder[workerID[m]]
          /\ expires[workerID[m]] <= expires'[workerID[m]]
      BY <2>1, <2>2, <3>2, SMTT(30) DEF Lease
    <3> QED
      BY <2>1, <2>4, <3>1, <3>3 DEF Beating
  <2> QED
    BY <2>3, <2>4 DEF Beating
<1>4. ASSUME NEW n \in Nodes, Heartbeat(n) PROVE Beating'
  <2>1. /\ workerID[n] \in WorkerIDs /\ node[n] = "Run" /\ beat[n] <= time
        /\ time + TTL \in Nat /\ UNCHANGED <<time, node, workerID, holder>>
    BY <1>4 DEF Heartbeat, Renew
  <2>2. UNCHANGED expires \/ expires' = [expires EXCEPT ![workerID[n]] = time + TTL]
    BY <1>4 DEF Heartbeat, Renew
  <2>5. \A i \in WorkerIDs : expires[i] <= expires'[i]
    BY <2>1, <2>2 DEF ExpiresBound
  <2>3. ASSUME faults' < MaxRetry
        PROVE  /\ holder'[workerID'[n]] = n
               /\ tries'[n] <= faults'
               /\ time' <= beat'[n] /\ tick'[n] <= beat'[n]
               /\ beat'[n] <= tick'[n] + tries'[n] * Pause
               /\ tick'[n] + TTL <= expires'[workerID'[n]] + RenewTick
    <3>1. faults < MaxRetry /\ faults <= faults' /\ tries[n] <= faults
      BY <1>4, <2>1, <2>3 DEF Heartbeat, Beating
    <3>6. Held(n) /\ beat[n] <= tick[n] + RenewTick
      BY <2>1, <3>1, BeatingHeld
    <3>7. time <= beat[n] /\ time \in Nat /\ beat[n] \in Nat
      BY <2>1, <3>1 DEF Beating
    <3>2. Held(n) /\ beat[n] = time /\ time <= tick[n] + RenewTick
      <4>1. Held(n) /\ beat[n] <= time /\ time <= beat[n]
            /\ beat[n] <= tick[n] + RenewTick
        BY <2>1, <3>6, <3>7
      <4>2. beat[n] = time
        BY <3>7, <4>1, Between, Zenon
      <4> QED
        BY <4>1, <4>2
    <3>3. /\ tick[n] <= time /\ time <= tick[n] + tries[n] * Pause
          /\ tick[n] + TTL <= expires[workerID[n]] + RenewTick
          /\ holder[workerID[n]] = n
      BY <2>1, <3>1, <3>2 DEF Beating
    <3>4. CASE Renew(n) /\ AwaitTick(n, time)
      <4>1. /\ expires'[workerID[n]] = time + TTL /\ tick'[n] = tick[n] + RenewTick
            /\ beat'[n] = tick[n] + RenewTick /\ tries'[n] = 0
        <5>1. tick[n] + RenewTick \in Nat
          OBVIOUS
        <5>2. expires' = [expires EXCEPT ![workerID[n]] = time + TTL]
          BY <3>2, <3>4 DEF Renew
        <5>3. /\ tick' = [tick EXCEPT ![n] = tick[n] + RenewTick]
              /\ tries' = [tries EXCEPT ![n] = 0]
              /\ beat' = [beat EXCEPT ![n] = IF tick[n] + RenewTick > time
                             THEN tick[n] + RenewTick ELSE time]
          BY <3>4 DEF AwaitTick
        <5>4. beat'[n] = tick[n] + RenewTick
          <6>1. tick[n] + RenewTick > time \/ tick[n] + RenewTick = time
            <7> DEFINE next == tick[n] + RenewTick
            <7>1. time <= next /\ next \in Nat /\ time \in Nat
              BY <3>2, <3>7, <5>1
            <7> HIDE DEF next
            <7>2. next > time \/ next = time
              BY <7>1
            <7> QED
              BY <7>2 DEF next
          <6>2. n \in DOMAIN beat
            OBVIOUS
          <6> QED
            BY <5>3, <6>1, <6>2
        <5> QED
          BY <2>1, <5>2, <5>3, <5>4
      <4>2. 0 * Pause = 0
        OBVIOUS
      <4> QED
        BY <2>1, <2>3, <3>1, <3>2, <3>3, <4>1, <4>2
    <3>5. CASE Fault /\ Retry(n)
      <4>1. tries[n] + 1 # MaxRetry /\ faults' = faults + 1
        BY <2>3, <3>1, <3>5
      <4>2. /\ beat'[n] = time + Pause /\ tries'[n] = tries[n] + 1
            /\ tick'[n] = tick[n]
        BY <3>5, <4>1 DEF Retry
      <4>3. (tries[n] + 1) * Pause = tries[n] * Pause + Pause
            /\ tries[n] * Pause \in Nat
        BY Products
      <4>4. expires[workerID[n]] <= expires'[workerID[n]]
        BY <2>1, <2>5
      <4> HIDE DEF Fault
      <4> QED
        BY <2>1, <3>1, <3>3, <4>1, <4>2, <4>3, <4>4
    <3> QED
      BY <1>4, <3>4, <3>5 DEF Heartbeat
  <2>4. ASSUME NEW m \in Nodes \ {n}, node'[m] = "Run", faults' < MaxRetry
        PROVE  /\ holder'[workerID'[m]] = m
               /\ tries'[m] <= faults'
               /\ time' <= beat'[m] /\ tick'[m] <= beat'[m]
               /\ beat'[m] <= tick'[m] + tries'[m] * Pause
               /\ tick'[m] + TTL <= expires'[workerID'[m]] + RenewTick
    <3>1. node[m] = "Run" /\ faults < MaxRetry /\ faults <= faults'
          /\ workerID'[m] = workerID[m] /\ tick'[m] = tick[m]
          /\ beat'[m] = beat[m] /\ tries'[m] = tries[m] /\ time' = time
      BY <1>4, <2>1, <2>4 DEF Heartbeat, AwaitTick, Retry
    <3>2. Held(m)
      BY <2>4, <3>1, BeatingHeld
    <3>3. holder'[workerID[m]] = holder[workerID[m]]
          /\ expires[workerID[m]] <= expires'[workerID[m]]
      BY <2>1, <2>5
    <3> QED
      BY <2>1, <2>4, <3>1, <3>3 DEF Beating
  <2> QED
    BY <2>1, <2>3, <2>4 DEF Beating
<1>5. ASSUME NEW n \in Nodes, Crash(n) PROVE Beating'
  BY <1>5 DEF Crash
<1>6. ASSUME NEW c \in Calls, NEW n \in Nodes, RenewToGenerate(c, n) PROVE Beating'
  <2>1. /\ workerID[n] \in WorkerIDs /\ time + TTL \in Nat
        /\ UNCHANGED <<time, node, workerID, holder, tick, beat, tries>>
        /\ faults <= faults'
    BY <1>6 DEF RenewToGenerate, Renew
  <2>2. UNCHANGED expires \/ expires' = [expires EXCEPT ![workerID[n]] = time + TTL]
    BY <1>6 DEF RenewToGenerate, Renew
  <2>3. \A i \in WorkerIDs : expires[i] <= expires'[i] /\ expires'[i] \in Nat
    BY <2>1, <2>2 DEF ExpiresBound
  <2>4. ASSUME NEW m \in Nodes, node[m] = "Run", faults' < MaxRetry
        PROVE  tick[m] + TTL <= expires'[workerID[m]] + RenewTick
    <3>1. tick[m] + TTL <= expires[workerID[m]] + RenewTick
      BY <2>1, <2>4 DEF Beating
    <3> QED
      BY <2>3, <3>1
  <2>5. faults' < MaxRetry => faults < MaxRetry
    BY <2>1
  <2> QED
    BY <2>1, <2>4, <2>5 DEF Beating
<1>7. ASSUME NEW c \in Calls, NEW now \in Nat, NEW seq \in Nat, Issues(c, now, seq)
      PROVE  Beating'
  BY <1>7 DEF Issues, Issue, Return, Elsewhere
<1>8. ASSUME NEW c \in Calls, Spins(c) PROVE Beating'
  BY <1>8 DEF Spins, Elsewhere
<1>9. ASSUME NEW c \in Calls, NEW now \in Nat, Sleeps(c, now) PROVE Beating'
  BY <1>9 DEF Sleeps, Elsewhere
<1>10. CASE TimePasses
  BY <1>10 DEF TimePasses
<1> QED
  BY <1>1, <1>2, <1>3, <1>4, <1>5, <1>6, <1>7, <1>8, <1>9, <1>10, NextCases

(* runHeartbeat keeps the worker id through fewer than maxRetry failures.   *)
THEOREM WorkerIdKept ==
  ASSUME RenewTick + (MaxRetry - 1) * Pause < TTL,
         (MaxRetry - 1) * Pause <= RenewTick
  PROVE  Spec => []LeaseKept
<1> DEFINE Inv == TypeOK /\ SpinReset /\ Mutex /\ ExpiresBound /\ Beating
<1> Timing
  BY DEF Timing, Late
<1>1. Init => Inv
  BY NodeAssumption
     DEF Init, TypeOK, SpinReset, Mutex, ExpiresBound, Beating, InFlight,
         HasMutex, WorkerIDs
<1>2. Inv /\ [Next]_vars => Inv'
  BY TypeStep, MutexStep, SpinResetStep, ExpiresStep, BeatingStep
<1>3. Inv => LeaseKept
  BY BeatingHeld DEF LeaseKept
<1> QED
  BY <1>1, <1>2, <1>3, PTL DEF Spec

=============================================================================

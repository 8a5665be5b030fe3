------------------------------ MODULE LarkToken ------------------------------
(***************************************************************************)
(* The access token for Lark and the messages sent with it                 *)
(* (service/token, adaptor/redis/{lock,token}.go, SendLarkMsg in           *)
(* adaptor/rpc/lark.go): verification codes go out as Lark messages.  The  *)
(* token is cached in redis for less than its life; whoever finds no token *)
(* fetches one under a lock that is never released and so runs out, while  *)
(* the others wait two seconds for it.  A message is tried twice, the      *)
(* second time with a fresh token if Lark has refused the first.           *)
(*                                                                         *)
(* Time is counted in ticks.  A call of Lark takes up to CallTime (the     *)
(* client's timeout); redis and the steps between calls take no time in    *)
(* comparison.                                                             *)
(***************************************************************************)
EXTENDS Integers

CONSTANTS
  Callers,    \* those who send messages, one after another
  Tokens,     \* the tokens Lark gives out; a dead one may be given out again
  Life,       \* how long a new token lives
  Renew,      \* Lark returns the old token while it has so much left
  Margin,     \* ExpireTokenDueDuration: so much earlier is it taken from the cache
  LockTime,   \* the life of the lock
  Wait,       \* how long AwaitLock waits
  CallTime,   \* the longest a call of Lark may take
  MaxFaults,  \* bound: failed calls, lost answers and revoked tokens
  None        \* no token

ASSUME LarkAssumption ==
  /\ Life \in Nat /\ Renew \in Nat /\ Margin \in Nat
  /\ LockTime \in Nat /\ Wait \in Nat /\ CallTime \in Nat
  /\ MaxFaults \in Nat
  /\ CallTime < LockTime
  /\ CallTime < Margin
  /\ Margin < Renew
  /\ Renew <= Life
  /\ None \notin Tokens

VARIABLES
  \* Lark
  life,     \* what is left of the life of a token
  revoked,  \* tokens that Lark has given up before their end
  \* redis
  lock,     \* the time to live of the lock, 0 when it is free
  cached,   \* the cached token
  ttl,      \* its time to live
  \* callers
  pc,       \* what a caller does next
  age,      \* how long it has been at that
  try,      \* which try of SendLarkMsg this is
  force,    \* does it want a fresh token?
  token,    \* the token it has
  left,     \* what it was told is left of the token's life
  code,     \* resp.Code, which the tries of a call share
  faults,   \* failures so far
  \* history
  accepted, \* how many messages of the call Lark has accepted
  lost,     \* how many of its tries have ended without an answer
  result    \* what the last call returned

larkVars  == <<life, revoked>>
redisVars == <<lock, cached, ttl>>
callVars  == <<try, force, code>>
tokenVars == <<token, left>>
history   == <<accepted, lost, result>>
vars == <<larkVars, redisVars, pc, age, callVars, tokenVars, faults, history>>

Codes  == {"OK", "Invalid", "Other"}
Labels == {"Idle", "Cache", "Lock", "Fetch", "Store", "Await", "Reread", "Post"}
Valid(t) == life[t] > 0 /\ t \notin revoked
Has(t)   == \E c \in Callers : token[c] = t

TypeOK ==
  /\ life \in [Tokens -> 0 .. Life]
  /\ revoked \subseteq Tokens
  /\ lock \in 0 .. LockTime
  /\ cached \in Tokens \cup {None}
  /\ ttl \in 0 .. Life
  /\ pc \in [Callers -> Labels]
  /\ age \in [Callers -> Nat]
  /\ try \in [Callers -> {1, 2}]
  /\ force \in [Callers -> BOOLEAN]
  /\ token \in [Callers -> Tokens \cup {None}]
  /\ left \in [Callers -> 0 .. Life]
  /\ code \in [Callers -> Codes]
  /\ faults \in 0 .. MaxFaults
  /\ accepted \in [Callers -> 0 .. 2]
  /\ lost \in [Callers -> 0 .. 2]
  /\ result \in [Callers -> {"None", "OK", "Error"}]

Init ==
  /\ life = [t \in Tokens |-> 0]
  /\ revoked = {}
  /\ lock = 0
  /\ cached = None
  /\ ttl = 0
  /\ pc = [c \in Callers |-> "Idle"]
  /\ age = [c \in Callers |-> 0]
  /\ try = [c \in Callers |-> 1]
  /\ force = [c \in Callers |-> FALSE]
  /\ token = [c \in Callers |-> None]
  /\ left = [c \in Callers |-> 0]
  /\ code = [c \in Callers |-> "OK"]
  /\ faults = 0
  /\ accepted = [c \in Callers |-> 0]
  /\ lost = [c \in Callers |-> 0]
  /\ result = [c \in Callers |-> "None"]

-----------------------------------------------------------------------------
At(c, label) == pc[c] = label
GoTo(c, label) ==
  /\ pc' = [pc EXCEPT ![c] = label]
  /\ age' = [age EXCEPT ![c] = 0]

(* SendLarkMsg returns; what it held is forgotten.                         *)
Return(c, r) ==
  /\ GoTo(c, "Idle")
  /\ try' = [try EXCEPT ![c] = 1]
  /\ force' = [force EXCEPT ![c] = FALSE]
  /\ code' = [code EXCEPT ![c] = "OK"]
  /\ token' = [token EXCEPT ![c] = None]
  /\ result' = [result EXCEPT ![c] = r]
  /\ UNCHANGED left

Keep(c, t) == token' = [token EXCEPT ![c] = t] /\ UNCHANGED left

NoFault == UNCHANGED faults
Fault   == faults < MaxFaults /\ faults' = faults + 1

-----------------------------------------------------------------------------
SendLarkMsg(c) ==
  /\ At(c, "Idle")
  /\ accepted' = [accepted EXCEPT ![c] = 0]
  /\ lost' = [lost EXCEPT ![c] = 0]
  /\ result' = [result EXCEPT ![c] = "None"]
  /\ GoTo(c, "Cache")
  /\ UNCHANGED <<larkVars, redisVars, callVars, tokenVars, faults>>

(* getLarkTenantAccessToken reads the cache; a failure counts as a miss.   *)
GetAccessToken(c) ==
  /\ At(c, "Cache")
  /\ \/ ttl > 0 /\ ~ force[c] /\ Keep(c, cached) /\ GoTo(c, "Post") /\ NoFault
     \/ (ttl = 0 \/ force[c]) /\ GoTo(c, "Lock") /\ NoFault /\ UNCHANGED tokenVars
     \/ GoTo(c, "Lock") /\ Fault /\ UNCHANGED tokenVars
  /\ UNCHANGED <<larkVars, redisVars, callVars, history>>

(* updateToken: SetNX with an expiry.  Nobody deletes the lock.            *)
\* Wrong: SET without NX.
GetLockAlways(c) ==
  /\ At(c, "Lock")
  /\ lock' = LockTime
  /\ GoTo(c, "Fetch")
  /\ NoFault
  /\ UNCHANGED <<larkVars, cached, ttl, callVars, tokenVars, history>>

GetLock(c) ==
  /\ At(c, "Lock")
  /\ \/ /\ lock = 0
        /\ lock' = LockTime
        /\ GoTo(c, "Fetch")
        /\ NoFault /\ UNCHANGED <<callVars, tokenVars, result>>
     \/ /\ lock > 0
        /\ GoTo(c, "Await")
        /\ NoFault /\ UNCHANGED <<lock, callVars, tokenVars, result>>
     \/ Return(c, "Error") /\ Fault /\ UNCHANGED lock
  /\ UNCHANGED <<larkVars, cached, ttl, accepted, lost>>

(* Lark answers with the token it has given out, or with a new one.        *)
Current(t) == Valid(t) /\ life[t] >= Renew
Unused(t)  == life[t] = 0 /\ ~ Has(t) /\ t # cached

GetLarkTenantAccessToken(c) ==
  /\ At(c, "Fetch")
  /\ \/ \E t \in Tokens :
          /\ \/ Current(t) /\ UNCHANGED larkVars
             \/ /\ Unused(t)
                /\ life' = [life EXCEPT ![t] = Life]
                /\ revoked' = revoked \ {t}
          /\ token' = [token EXCEPT ![c] = t]
          /\ left' = [left EXCEPT ![c] = life'[t]]
          /\ GoTo(c, "Store")
          /\ NoFault /\ UNCHANGED <<callVars, result>>
     \/ Return(c, "Error") /\ Fault /\ UNCHANGED larkVars
  /\ UNCHANGED <<redisVars, accepted, lost>>

(* A token that cannot be cached is used all the same.                     *)
SetAccessToken(c) ==
  /\ At(c, "Store")
  /\ \/ /\ cached' = token[c]
        /\ ttl' = left[c] - Margin
        /\ NoFault
     \/ Fault /\ UNCHANGED <<cached, ttl>>
  /\ left' = [left EXCEPT ![c] = 0]
  /\ GoTo(c, "Post")
  /\ UNCHANGED <<larkVars, lock, callVars, token, history>>

(* AwaitLock polls the lock, and gives up after the time Wait.             *)
AwaitLock(c) ==
  /\ At(c, "Await")
  /\ \/ lock = 0 /\ GoTo(c, "Reread") /\ NoFault /\ UNCHANGED <<callVars, tokenVars, result>>
     \/ lock > 0 /\ age[c] > Wait /\ Return(c, "Error") /\ NoFault
     \/ Return(c, "Error") /\ Fault
  /\ UNCHANGED <<larkVars, redisVars, accepted, lost>>

\* Wrong: it waits until the cache has a token.
GetCacheWaiting(c) ==
  /\ At(c, "Reread")
  /\ \/ ttl > 0 /\ Keep(c, cached) /\ GoTo(c, "Post")
     \/ ttl = 0 /\ UNCHANGED <<pc, age, tokenVars>>
  /\ UNCHANGED <<larkVars, redisVars, callVars, faults, history>>

(* updateToken then takes what the cache holds, wanted fresh or not.       *)
GetCache(c) ==
  /\ At(c, "Reread")
  /\ \/ /\ ttl > 0
        /\ Keep(c, cached)
        /\ GoTo(c, "Post")
        /\ NoFault /\ UNCHANGED <<callVars, result>>
     \/ ttl = 0 /\ Return(c, "Error") /\ NoFault
     \/ Return(c, "Error") /\ Fault
  /\ UNCHANGED <<larkVars, redisVars, accepted, lost>>

-----------------------------------------------------------------------------
(* The message is posted.  After the second try the code decides, which    *)
(* is that of the last answer, or 0 if there was none.                     *)
NextTry(c, k, fresh) ==
  IF try[c] = 1
  THEN /\ try' = [try EXCEPT ![c] = 2]
       /\ force' = [force EXCEPT ![c] = fresh]
       /\ code' = [code EXCEPT ![c] = k]
       /\ GoTo(c, "Cache")
       /\ UNCHANGED <<tokenVars, result>>
  ELSE Return(c, IF k = "OK" THEN "OK" ELSE "Error")

Accept(c) ==
  /\ Valid(token[c])
  /\ accepted' = [accepted EXCEPT ![c] = @ + 1]

PostAccepted(c) ==
  /\ At(c, "Post")
  /\ Accept(c)
  /\ Return(c, "OK")
  /\ UNCHANGED <<larkVars, redisVars, faults, lost>>

PostInvalid(c) ==
  /\ At(c, "Post")
  /\ ~ Valid(token[c])
  /\ NextTry(c, "Invalid", TRUE)
  /\ UNCHANGED <<larkVars, redisVars, faults, accepted, lost>>

PostRefused(c) ==
  /\ At(c, "Post")
  /\ NextTry(c, "Other", force[c])
  /\ Fault
  /\ UNCHANGED <<larkVars, redisVars, accepted, lost>>

\* Wrong: the code of an earlier refusal is forgotten.
PostFailsForgetting(c) ==
  /\ At(c, "Post")
  /\ Accept(c) \/ UNCHANGED accepted
  /\ lost' = [lost EXCEPT ![c] = @ + 1]
  /\ NextTry(c, "OK", force[c])
  /\ Fault
  /\ UNCHANGED <<larkVars, redisVars>>

(* No answer: the message may have been accepted, or not.                  *)
PostFails(c) ==
  /\ At(c, "Post")
  /\ Accept(c) \/ UNCHANGED accepted
  /\ lost' = [lost EXCEPT ![c] = @ + 1]
  /\ NextTry(c, code[c], force[c])
  /\ Fault
  /\ UNCHANGED <<larkVars, redisVars>>

-----------------------------------------------------------------------------
RevokeToken(t) ==
  /\ Valid(t)
  /\ revoked' = revoked \cup {t}
  /\ Fault
  /\ UNCHANGED <<life, redisVars, pc, age, callVars, tokenVars, history>>

Less(n) == IF n = 0 THEN 0 ELSE n - 1

Calling(c) == pc[c] \in {"Fetch", "Post"}

Tick ==
  /\ \A c \in Callers :
       \/ At(c, "Idle")
       \/ Calling(c) /\ age[c] < CallTime
       \/ At(c, "Await") /\ age[c] <= Wait
  /\ life' = [t \in Tokens |-> Less(life[t])]
  /\ lock' = Less(lock)
  /\ ttl' = Less(ttl)
  /\ cached' = IF ttl' = 0 THEN None ELSE cached
  /\ age' = [c \in Callers |-> IF At(c, "Idle") THEN 0 ELSE age[c] + 1]
  /\ UNCHANGED <<revoked, pc, callVars, tokenVars, faults, history>>

Proceed(c) ==
  \/ GetAccessToken(c)
  \/ GetLock(c)
  \/ GetLarkTenantAccessToken(c)
  \/ SetAccessToken(c)
  \/ AwaitLock(c)
  \/ GetCache(c)
  \/ PostAccepted(c)
  \/ PostInvalid(c)
  \/ PostRefused(c)
  \/ PostFails(c)

Next ==
  \/ \E c \in Callers : SendLarkMsg(c) \/ Proceed(c)
  \/ \E t \in Tokens : RevokeToken(t)
  \/ Tick

Spec == Init /\ [][Next]_vars

(* Time passes, however many calls others make in no time (so strong       *)
(* fairness: Tick waits for the steps that take none), and a call that has *)
(* begun goes on.                                                          *)
FairSpec ==
  /\ Spec
  /\ SF_vars(Tick)
  /\ \A c \in Callers : WF_vars(Proceed(c))

-----------------------------------------------------------------------------
(* The lock of updateToken outlives the call it guards: two callers never  *)
(* fetch a token at the same time, though nobody ever releases the lock.   *)
OneFetches ==
  \A c, d \in Callers :
    pc[c] \in {"Fetch", "Store"} /\ pc[d] \in {"Fetch", "Store"} => c = d

(* The margin by which tokens leave the cache early covers the time a      *)
(* message is under way: Lark refuses a token only after revoking one.     *)
InvalidNeedsRevocation ==
  \A c \in Callers : At(c, "Post") => Valid(token[c]) \/ token[c] \in revoked

(* A message that is reported as sent but was not accepted has been tried  *)
(* twice without an answer; every refusal is reported.                     *)
UnsentNeedsTwoLosses ==
  \A c \in Callers : result[c] = "OK" /\ accepted[c] = 0 => lost[c] = 2

(* A message goes out twice only if the answer to the first was lost.      *)
TwiceNeedsLoss ==
  \A c \in Callers : accepted[c] > 1 => lost[c] > 0

(* What becomes of a message.                                              *)
MessageOutcome == InvalidNeedsRevocation /\ UnsentNeedsTwoLosses /\ TwiceNeedsLoss

(* Every call ends, whoever holds the lock or has died with it.            *)
SendEnds == \A c \in Callers : ~ At(c, "Idle") ~> At(c, "Idle")
=============================================================================

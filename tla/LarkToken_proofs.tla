--------------------------- MODULE LarkToken_proofs ---------------------------
(***************************************************************************)
(* What LarkToken promises, for every number of callers and tokens and for *)
(* every choice of the times that LarkAssumption allows.  The invariant    *)
(* says how much of the lock, of the cached token and of a caller's token  *)
(* is left at least, and what the tries of a call have come to so far.     *)
(***************************************************************************)
EXTENDS LarkToken, TLAPS

(* The lock outlives the call it was taken for.                            *)
LockIsHeld ==
  \A c \in Callers :
    /\ At(c, "Fetch") => lock + age[c] >= LockTime /\ age[c] <= CallTime
    /\ At(c, "Store") => lock > 0

(* The cache gives a token up a Margin before its end.                     *)
CacheIsValid ==
  /\ cached = None <=> ttl = 0
  /\ cached # None => life[cached] >= ttl + Margin

(* A caller's token lives longer than the call of Lark.                    *)
TokenIsValid ==
  \A c \in Callers :
    /\ At(c, "Store") => token[c] \in Tokens /\ left[c] = life[token[c]] /\ left[c] >= Renew
    /\ At(c, "Post") => /\ token[c] \in Tokens
                        /\ life[token[c]] + age[c] >= Margin
                        /\ age[c] <= CallTime

(* What the tries of a call have come to.                                  *)
TriesAreCounted ==
  \A c \in Callers :
    /\ At(c, "Idle") =>
         /\ try[c] = 1 /\ code[c] = "OK"
         /\ accepted[c] <= lost[c] + 1
         /\ result[c] = "OK" /\ accepted[c] = 0 => lost[c] = 2
    /\ ~ At(c, "Idle") =>
         /\ result[c] = "None"
         /\ accepted[c] <= lost[c]
         /\ try[c] = 1 => code[c] = "OK" /\ lost[c] = 0
         /\ try[c] = 2 => lost[c] = IF code[c] = "OK" THEN 1 ELSE 0

(* OneFetches is part of it: the lock is free when it is taken.            *)
Inv == TypeOK /\ LockIsHeld /\ OneFetches /\ CacheIsValid /\ TokenIsValid /\ TriesAreCounted

-----------------------------------------------------------------------------
LEMMA InitInv == Init => Inv
BY LarkAssumption DEF Init, Inv, TypeOK, LockIsHeld, OneFetches, CacheIsValid, TokenIsValid,
   TriesAreCounted, At, Codes, Labels

USE DEF At, Codes, Labels, Valid, Has, Current, Unused, GoTo, NoFault, Fault

(* The part of TypeOK that a step of a call is about.                      *)
CallTypes ==
  /\ pc \in [Callers -> Labels]
  /\ age \in [Callers -> Nat]
  /\ try \in [Callers -> {1, 2}]
  /\ force \in [Callers -> BOOLEAN]
  /\ token \in [Callers -> Tokens \cup {None}]
  /\ left \in [Callers -> 0 .. Life]
  /\ code \in [Callers -> Codes]
  /\ result \in [Callers -> {"None", "OK", "Error"}]

LEMMA ReturnTypes ==
  ASSUME CallTypes, NEW c \in Callers, NEW r \in {"OK", "Error"}, Return(c, r)
  PROVE  CallTypes'
BY DEF CallTypes, Return

LEMMA NextTryTypes ==
  ASSUME CallTypes, NEW c \in Callers, NEW k \in Codes, NEW fresh \in BOOLEAN,
         NextTry(c, k, fresh)
  PROVE  CallTypes'
<1>1. CASE try[c] = 1
  BY <1>1 DEF CallTypes, NextTry, tokenVars
<1>2. CASE try[c] # 1
  BY <1>2, ReturnTypes DEF NextTry
<1> QED
  BY <1>1, <1>2

LEMMA TypeStep == TypeOK /\ LockIsHeld /\ CacheIsValid /\ TokenIsValid /\ TriesAreCounted /\ [Next]_vars => TypeOK'
<1> SUFFICES ASSUME TypeOK, LockIsHeld, CacheIsValid, TokenIsValid, TriesAreCounted, [Next]_vars
             PROVE TypeOK'
  OBVIOUS
<1> USE LarkAssumption DEF TypeOK
<1>1. ASSUME NEW c \in Callers, SendLarkMsg(c) PROVE TypeOK'
  BY <1>1 DEF SendLarkMsg, larkVars, redisVars, callVars, tokenVars
<1>2. ASSUME NEW c \in Callers, GetAccessToken(c) PROVE TypeOK'
  BY <1>2 DEF GetAccessToken, Keep, CacheIsValid, larkVars, redisVars, callVars, tokenVars, history
<1>3. ASSUME NEW c \in Callers, GetLock(c) PROVE TypeOK'
  <2>1. CASE Return(c, "Error")
    BY <1>3, <2>1, ReturnTypes DEF GetLock, CallTypes, larkVars
  <2>2. CASE ~ Return(c, "Error")
    BY <1>3, <2>2 DEF GetLock, larkVars, callVars, tokenVars
  <2> QED
    BY <2>1, <2>2
<1>4. ASSUME NEW c \in Callers, GetLarkTenantAccessToken(c) PROVE TypeOK'
  <2>1. CASE Return(c, "Error")
    BY <1>4, <2>1, ReturnTypes DEF GetLarkTenantAccessToken, CallTypes, larkVars, redisVars
  <2>2. CASE ~ Return(c, "Error")
    <3>1. PICK t \in Tokens :
             /\ \/ Current(t) /\ UNCHANGED larkVars
                \/ Unused(t) /\ life' = [life EXCEPT ![t] = Life] /\ revoked' = revoked \ {t}
             /\ token' = [token EXCEPT ![c] = t]
             /\ left' = [left EXCEPT ![c] = life'[t]]
      BY <1>4, <2>2 DEF GetLarkTenantAccessToken
    <3>2. life' \in [Tokens -> 0 .. Life] /\ revoked' \subseteq Tokens
      BY <3>1 DEF larkVars
    <3>3. token' \in [Callers -> Tokens \cup {None}] /\ left' \in [Callers -> 0 .. Life]
      BY <3>1, <3>2
    <3> QED
      BY <1>4, <2>2, <3>2, <3>3 DEF GetLarkTenantAccessToken, redisVars, callVars
  <2> QED
    BY <2>1, <2>2
<1>5. ASSUME NEW c \in Callers, SetAccessToken(c) PROVE TypeOK'
  BY <1>5 DEF SetAccessToken, TokenIsValid, larkVars, redisVars, callVars, tokenVars, history
<1>6. ASSUME NEW c \in Callers, AwaitLock(c) PROVE TypeOK'
  <2>1. CASE Return(c, "Error")
    BY <1>6, <2>1, ReturnTypes DEF AwaitLock, CallTypes, larkVars, redisVars
  <2>2. CASE ~ Return(c, "Error")
    BY <1>6, <2>2 DEF AwaitLock, larkVars, redisVars, callVars, tokenVars
  <2> QED
    BY <2>1, <2>2
<1>7. ASSUME NEW c \in Callers, GetCache(c) PROVE TypeOK'
  <2>1. CASE Return(c, "Error")
    BY <1>7, <2>1, ReturnTypes DEF GetCache, CallTypes, larkVars, redisVars
  <2>2. CASE ~ Return(c, "Error")
    BY <1>7, <2>2 DEF GetCache, Keep, larkVars, redisVars, callVars
  <2> QED
    BY <2>1, <2>2
<1>8. ASSUME NEW c \in Callers, PostAccepted(c) PROVE TypeOK'
  BY <1>8 DEF PostAccepted, Accept, Return, TriesAreCounted, larkVars, redisVars, callVars, tokenVars
<1>9. ASSUME NEW c \in Callers, PostInvalid(c) PROVE TypeOK'
  <2>1. CallTypes'
    BY <1>9, NextTryTypes DEF PostInvalid, CallTypes
  <2> QED
    BY <1>9, <2>1 DEF PostInvalid, CallTypes, larkVars, redisVars
<1>10. ASSUME NEW c \in Callers, PostRefused(c) PROVE TypeOK'
  <2>1. CallTypes'
    BY <1>10, NextTryTypes DEF PostRefused, CallTypes
  <2> QED
    BY <1>10, <2>1 DEF PostRefused, CallTypes, larkVars, redisVars
<1>11. ASSUME NEW c \in Callers, PostFails(c) PROVE TypeOK'
  <2>1. CallTypes'
    BY <1>11, NextTryTypes DEF PostFails, CallTypes
  <2>2. accepted' \in [Callers -> 0 .. 2] /\ lost' \in [Callers -> 0 .. 2]
    BY <1>11 DEF PostFails, Accept, TriesAreCounted
  <2> QED
    BY <1>11, <2>1, <2>2 DEF PostFails, CallTypes, larkVars, redisVars
<1>12. ASSUME NEW t \in Tokens, RevokeToken(t) PROVE TypeOK'
  BY <1>12 DEF RevokeToken, larkVars, redisVars, callVars, tokenVars, history
<1>13. CASE Tick
  BY <1>13 DEF Tick, Less, larkVars, redisVars, callVars, tokenVars, history
<1>14. CASE UNCHANGED vars
  BY <1>14 DEF vars, larkVars, redisVars, callVars, tokenVars, history
<1> QED
  BY <1>1, <1>2, <1>3, <1>4, <1>5, <1>6, <1>7, <1>8, <1>9, <1>10, <1>11, <1>12, <1>13, <1>14
     DEF Next, Proceed

LEMMA LockStep == TypeOK /\ LockIsHeld /\ OneFetches /\ [Next]_vars => LockIsHeld' /\ OneFetches'
<1> SUFFICES ASSUME TypeOK, LockIsHeld, OneFetches, [Next]_vars PROVE LockIsHeld' /\ OneFetches'
  OBVIOUS
<1> USE LarkAssumption DEF TypeOK, LockIsHeld, OneFetches
<1>1. ASSUME NEW c \in Callers, SendLarkMsg(c) PROVE LockIsHeld' /\ OneFetches'
  BY <1>1 DEF SendLarkMsg, redisVars
<1>2. ASSUME NEW c \in Callers, GetAccessToken(c) PROVE LockIsHeld' /\ OneFetches'
  BY <1>2 DEF GetAccessToken, redisVars
<1>3. ASSUME NEW c \in Callers, GetLock(c) PROVE LockIsHeld' /\ OneFetches'
  BY <1>3 DEF GetLock, Return
<1>4. ASSUME NEW c \in Callers, GetLarkTenantAccessToken(c) PROVE LockIsHeld' /\ OneFetches'
  BY <1>4 DEF GetLarkTenantAccessToken, Return, redisVars
<1>5. ASSUME NEW c \in Callers, SetAccessToken(c) PROVE LockIsHeld' /\ OneFetches'
  BY <1>5 DEF SetAccessToken
<1>6. ASSUME NEW c \in Callers, AwaitLock(c) PROVE LockIsHeld' /\ OneFetches'
  BY <1>6 DEF AwaitLock, Return, redisVars
<1>7. ASSUME NEW c \in Callers, GetCache(c) PROVE LockIsHeld' /\ OneFetches'
  BY <1>7 DEF GetCache, Return, redisVars
<1>8. ASSUME NEW c \in Callers, PostAccepted(c) \/ PostInvalid(c) \/ PostRefused(c) \/ PostFails(c)
      PROVE LockIsHeld' /\ OneFetches'
  BY <1>8 DEF PostAccepted, PostInvalid, PostRefused, PostFails, NextTry, Return, redisVars
<1>12. ASSUME NEW t \in Tokens, RevokeToken(t) PROVE LockIsHeld' /\ OneFetches'
  BY <1>12 DEF RevokeToken, redisVars
<1>13. CASE Tick
  BY <1>13 DEF Tick, Less, Calling
<1>14. CASE UNCHANGED vars
  BY <1>14 DEF vars, redisVars
<1> QED
  BY <1>1, <1>2, <1>3, <1>4, <1>5, <1>6, <1>7, <1>8, <1>12, <1>13, <1>14 DEF Next, Proceed

LEMMA TokenStep ==
  TypeOK /\ CacheIsValid /\ TokenIsValid /\ [Next]_vars => CacheIsValid' /\ TokenIsValid'
<1> SUFFICES ASSUME TypeOK, CacheIsValid, TokenIsValid, [Next]_vars
             PROVE CacheIsValid' /\ TokenIsValid'
  OBVIOUS
<1> USE LarkAssumption DEF TypeOK, CacheIsValid, TokenIsValid
<1>1. ASSUME NEW c \in Callers, SendLarkMsg(c) PROVE CacheIsValid' /\ TokenIsValid'
  BY <1>1 DEF SendLarkMsg, larkVars, redisVars, tokenVars
<1>2. ASSUME NEW c \in Callers, GetAccessToken(c) PROVE CacheIsValid' /\ TokenIsValid'
  <2>1. CASE GoTo(c, "Lock") /\ UNCHANGED tokenVars
    BY <1>2, <2>1 DEF GetAccessToken, larkVars, redisVars, tokenVars
  <2>2. CASE ttl > 0 /\ Keep(c, cached) /\ GoTo(c, "Post")
    BY <1>2, <2>2 DEF GetAccessToken, Keep, larkVars, redisVars
  <2> QED
    BY <1>2, <2>1, <2>2 DEF GetAccessToken
<1>3. ASSUME NEW c \in Callers, GetLock(c) PROVE CacheIsValid' /\ TokenIsValid'
  <2>1. CASE Return(c, "Error")
    BY <1>3, <2>1 DEF GetLock, Return, larkVars
  <2>2. CASE ~ Return(c, "Error")
    BY <1>3, <2>2 DEF GetLock, larkVars, tokenVars
  <2> QED
    BY <2>1, <2>2
<1>4. ASSUME NEW c \in Callers, GetLarkTenantAccessToken(c) PROVE CacheIsValid' /\ TokenIsValid'
  <2>1. CASE Return(c, "Error")
    BY <1>4, <2>1, ZenonT(40) DEF GetLarkTenantAccessToken, Return, larkVars, redisVars
  <2>2. CASE ~ Return(c, "Error")
    <3>1. PICK t \in Tokens :
             /\ \/ Current(t) /\ UNCHANGED larkVars
                \/ Unused(t) /\ life' = [life EXCEPT ![t] = Life] /\ revoked' = revoked \ {t}
             /\ token' = [token EXCEPT ![c] = t]
             /\ left' = [left EXCEPT ![c] = life'[t]]
             /\ GoTo(c, "Store")
      BY <1>4, <2>2 DEF GetLarkTenantAccessToken
    <3>2. UNCHANGED redisVars
      BY <1>4 DEF GetLarkTenantAccessToken
    <3>3. CASE Current(t) /\ UNCHANGED larkVars
      BY <3>1, <3>2, <3>3 DEF larkVars, redisVars
    <3>4. CASE Unused(t) /\ life' = [life EXCEPT ![t] = Life] /\ revoked' = revoked \ {t}
      <4>1. life'[t] = Life /\ \A s \in Tokens : s # t => life'[s] = life[s]
        BY <3>4
      <4>2. t # cached /\ \A d \in Callers : token[d] # t
        BY <3>4
      <4>3. CacheIsValid'
        BY <3>2, <4>1, <4>2 DEF redisVars
      <4>4. TokenIsValid'
        BY <3>1, <4>1, <4>2
      <4> QED
        BY <4>3, <4>4
    <3> QED
      BY <3>1, <3>3, <3>4
  <2> QED
    BY <2>1, <2>2
<1>5. ASSUME NEW c \in Callers, SetAccessToken(c) PROVE CacheIsValid' /\ TokenIsValid'
  <2>1. CacheIsValid'
    BY <1>5 DEF SetAccessToken, larkVars
  <2>2. TokenIsValid'
    BY <1>5 DEF SetAccessToken, larkVars
  <2> QED
    BY <2>1, <2>2
<1>6. ASSUME NEW c \in Callers, AwaitLock(c) PROVE CacheIsValid' /\ TokenIsValid'
  <2>1. CASE Return(c, "Error")
    BY <1>6, <2>1 DEF AwaitLock, Return, larkVars, redisVars
  <2>2. CASE ~ Return(c, "Error")
    BY <1>6, <2>2 DEF AwaitLock, larkVars, redisVars, tokenVars
  <2> QED
    BY <2>1, <2>2
<1>7. ASSUME NEW c \in Callers, GetCache(c) PROVE CacheIsValid' /\ TokenIsValid'
  <2>1. CASE Return(c, "Error")
    BY <1>7, <2>1 DEF GetCache, Return, larkVars, redisVars
  <2>2. CASE ~ Return(c, "Error")
    BY <1>7, <2>2 DEF GetCache, Keep, larkVars, redisVars
  <2> QED
    BY <2>1, <2>2
<1>8. ASSUME NEW c \in Callers, PostAccepted(c) \/ PostInvalid(c) \/ PostRefused(c) \/ PostFails(c)
      PROVE CacheIsValid' /\ TokenIsValid'
  <2>1. UNCHANGED <<larkVars, redisVars, left>>
    BY <1>8 DEF PostAccepted, PostInvalid, PostRefused, PostFails, NextTry, Return, tokenVars
  <2>2. \/ pc' = [pc EXCEPT ![c] = "Cache"] /\ UNCHANGED token
        \/ pc' = [pc EXCEPT ![c] = "Idle"] /\ token' = [token EXCEPT ![c] = None]
    BY <1>8 DEF PostAccepted, PostInvalid, PostRefused, PostFails, NextTry, Return, tokenVars
  <2>3. age' = [age EXCEPT ![c] = 0]
    BY <1>8 DEF PostAccepted, PostInvalid, PostRefused, PostFails, NextTry, Return
  <2> QED
    BY <2>1, <2>2, <2>3 DEF larkVars, redisVars
<1>12. ASSUME NEW t \in Tokens, RevokeToken(t) PROVE CacheIsValid' /\ TokenIsValid'
  BY <1>12 DEF RevokeToken, redisVars, tokenVars
<1>13. CASE Tick
  <2>1. CacheIsValid'
    BY <1>13 DEF Tick, Less
  <2>2. TokenIsValid'
    BY <1>13 DEF Tick, Less, Calling, tokenVars
  <2> QED
    BY <2>1, <2>2
<1>14. CASE UNCHANGED vars
  BY <1>14 DEF vars, larkVars, redisVars, tokenVars
<1> QED
  BY <1>1, <1>2, <1>3, <1>4, <1>5, <1>6, <1>7, <1>8, <1>12, <1>13, <1>14 DEF Next, Proceed

LEMMA TriesStep == TypeOK /\ TriesAreCounted /\ [Next]_vars => TriesAreCounted'
<1> SUFFICES ASSUME TypeOK, TriesAreCounted, [Next]_vars PROVE TriesAreCounted'
  OBVIOUS
<1> USE DEF TypeOK, TriesAreCounted
<1>1. ASSUME NEW c \in Callers, SendLarkMsg(c) PROVE TriesAreCounted'
  BY <1>1 DEF SendLarkMsg, callVars
<1>2. ASSUME NEW c \in Callers, GetAccessToken(c) \/ SetAccessToken(c) PROVE TriesAreCounted'
  BY <1>2 DEF GetAccessToken, SetAccessToken, callVars, history
<1>3. ASSUME NEW c \in Callers, ~ At(c, "Idle"), Return(c, "Error"), UNCHANGED <<accepted, lost>>
      PROVE TriesAreCounted'
  BY <1>3 DEF Return
<1>4. ASSUME NEW c \in Callers, ~ At(c, "Idle"), UNCHANGED <<callVars, history>>,
             \E label \in Labels \ {"Idle"} : GoTo(c, label)
      PROVE TriesAreCounted'
  BY <1>4 DEF callVars, history
<1>5. ASSUME NEW c \in Callers, GetLock(c) PROVE TriesAreCounted'
  BY <1>3, <1>4, <1>5 DEF GetLock, history
<1>6. ASSUME NEW c \in Callers, GetLarkTenantAccessToken(c) PROVE TriesAreCounted'
  BY <1>3, <1>4, <1>6 DEF GetLarkTenantAccessToken, history
<1>7. ASSUME NEW c \in Callers, AwaitLock(c) PROVE TriesAreCounted'
  BY <1>3, <1>4, <1>7 DEF AwaitLock, history
<1>8. ASSUME NEW c \in Callers, GetCache(c) PROVE TriesAreCounted'
  BY <1>3, <1>4, <1>8 DEF GetCache, history
<1>9. ASSUME NEW c \in Callers, PostAccepted(c) PROVE TriesAreCounted'
  BY <1>9 DEF PostAccepted, Accept, Return
<1>10. ASSUME NEW c \in Callers, PostInvalid(c) \/ PostRefused(c) PROVE TriesAreCounted'
  <2>1. PICK k \in {"Invalid", "Other"}, fresh \in BOOLEAN : NextTry(c, k, fresh)
    <3>1. CASE PostInvalid(c)
      BY <3>1, Zenon DEF PostInvalid
    <3>2. CASE PostRefused(c)
      <4>1. force[c] \in BOOLEAN
        OBVIOUS
      <4> QED
        BY <3>2, <4>1, Zenon DEF PostRefused
    <3> QED
      BY <1>10, <3>1, <3>2
  <2>2. ~ At(c, "Idle") /\ UNCHANGED <<accepted, lost>>
    BY <1>10 DEF PostInvalid, PostRefused
  <2>3. CASE try[c] = 1
    BY <2>1, <2>2, <2>3 DEF NextTry
  <2>4. CASE try[c] # 1
    BY <1>3, <2>1, <2>2, <2>4 DEF NextTry
  <2> QED
    BY <2>3, <2>4
<1>11. ASSUME NEW c \in Callers, PostFails(c) PROVE TriesAreCounted'
  <2>1. /\ ~ At(c, "Idle")
        /\ accepted' = [accepted EXCEPT ![c] = @ + 1] \/ UNCHANGED accepted
        /\ lost' = [lost EXCEPT ![c] = @ + 1]
        /\ NextTry(c, code[c], force[c])
    BY <1>11 DEF PostFails, Accept
  <2>2. CASE try[c] = 1
    BY <2>1, <2>2 DEF NextTry
  <2>3. CASE try[c] = 2
    BY <2>1, <2>3 DEF NextTry, Return
  <2> QED
    BY <2>2, <2>3
<1>12. ASSUME NEW t \in Tokens, RevokeToken(t) PROVE TriesAreCounted'
  BY <1>12 DEF RevokeToken, callVars, history
<1>13. CASE Tick
  BY <1>13 DEF Tick, callVars, history
<1>14. CASE UNCHANGED vars
  BY <1>14 DEF vars, callVars, history
<1> QED
  BY <1>1, <1>2, <1>5, <1>6, <1>7, <1>8, <1>9, <1>10, <1>11, <1>12, <1>13, <1>14
     DEF Next, Proceed

LEMMA InvStep == Inv /\ [Next]_vars => Inv'
BY TypeStep, LockStep, TokenStep, TriesStep DEF Inv

LEMMA Invariance == Spec => []Inv
<1> QED
  BY InitInv, InvStep, PTL DEF Spec

-----------------------------------------------------------------------------
(* The types: a time to live never falls below zero, a call has two tries. *)
THEOREM TypeCorrect == Spec => []TypeOK
<1>1. Inv => TypeOK
  BY DEF Inv
<1> QED
  BY <1>1, Invariance, PTL

(* For any times with CallTime < LockTime, updateToken fetches one token   *)
(* at a time: the lock is still there when the call it guards has ended.   *)
THEOREM OneCallerFetches == Spec => []OneFetches
<1>1. Inv => OneFetches
  BY DEF Inv
<1> QED
  BY <1>1, Invariance, PTL

(* For any times with CallTime < Margin < Renew <= Life, Lark refuses a    *)
(* token only after it has revoked it; a message that is reported as sent  *)
(* was accepted or has lost the answer of both its tries; and one that     *)
(* goes out twice has lost an answer.                                      *)
THEOREM MessagesAreAccountedFor == Spec => []MessageOutcome
<1>1. Inv => InvalidNeedsRevocation
  BY LarkAssumption DEF Inv, TypeOK, TokenIsValid, InvalidNeedsRevocation
<1>2. Inv => UnsentNeedsTwoLosses
  BY DEF Inv, TriesAreCounted, UnsentNeedsTwoLosses
<1>3. Inv => TwiceNeedsLoss
  BY DEF Inv, TypeOK, TriesAreCounted, TwiceNeedsLoss
<1> QED
  BY <1>1, <1>2, <1>3, Invariance, PTL DEF MessageOutcome
=============================================================================

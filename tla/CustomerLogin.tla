---------------------------- MODULE CustomerLogin ----------------------------
(***************************************************************************)
(* How customers prove who they are (service/user/{verify,login,user}.go,  *)
(* adaptor/redis/verify.go, adaptor/repo/user/user.go): captchas, tickets, *)
(* codes sent by message, passwords with a count of wrong ones, accounts   *)
(* made at the first login, and login tokens.  Each call of redis or MySQL *)
(* is a step of its own, so that requests on the same mobile overlap in    *)
(* every way; GetSmsVerifyCode and the two logins share the first steps.   *)
(*                                                                         *)
(* A request is named by what it makes: the ticket, the code and the token *)
(* of request r are all called r.  Whatever expires may do so at any time. *)
(* Names, pictures and the profile in the answer are left out.             *)
(***************************************************************************)
EXTENDS Integers, FiniteSets, Functions

CONSTANTS
  Requests,     \* the requests of a behaviour
  Keys,         \* captchas that have been shown
  OldTickets,   \* the tickets there are at first, those of earlier requests
  OldCodes,     \* the codes there are at first, by mobile and scene
  OldTokens,    \* the tokens there are at first, by account
  Mobiles,
  Users,        \* ids of accounts
  Passwords,
  Ip,           \* where the requests come from
  MaxErr,       \* PasswordErrMaxCount
  MaxFaults,    \* bound: failed or lost calls in a behaviour
  None          \* no user, no password, no request

Scenes  == {"Login", "Reset"}
Earlier == OldTickets \cup Range(OldCodes) \cup Range(OldTokens)
Ids     == Requests \cup Earlier

ASSUME LoginAssumption ==
  /\ IsFiniteSet(Requests)
  /\ Requests \cap Earlier = {}
  /\ OldCodes \in [Mobiles \X Scenes -> Earlier]
  /\ \A s, s2 \in Mobiles \X Scenes : OldCodes[s] = OldCodes[s2] => s = s2
  /\ OldTokens \in [Users -> Earlier]
  /\ \A u, v \in Users : OldTokens[u] = OldTokens[v] => u = v
  /\ Range(OldCodes) \cap (OldTickets \cup Range(OldTokens)) = {}
  /\ Keys \cap Ids = {}
  /\ Users \subseteq Nat
  /\ MaxErr \in Nat \ {0}
  /\ MaxFaults \in Nat
  /\ Ip \notin Mobiles
  /\ None \notin Users \cup Passwords \cup Ids \cup Keys \cup Mobiles

VARIABLES
  \* redis
  keys,      \* captcha:<key>
  tickets,   \* captcha:ticket:<ticket>
  code,      \* verify:code:<mobile>:<scene>, the request that has sent it
  limit,     \* verify:frelimit:<mobile or ip>, which nobody compares
  errs,      \* password:errcount:<mobile>, 0 when there is none
  errTTL,    \* has that counter a time to live?
  session,   \* user:token:<token>, the account it stands for
  newest,    \* token:user:<user>, the token set last
  \* MySQL
  owner,     \* mobile_user: the mobile of an account, None if there is none
  enabled,   \* user.status
  password,  \* user.password
  request,   \* what a request does next, in which handler, and what it holds
  faults,    \* failures so far
  \* history
  uses,      \* how many requests a captcha, a ticket or a code has let through
  shared,    \* those read again, or stored, while one was being deleted, and
             \* those whose deletion was lost
  awaited,   \* the code that was stored last and is neither used nor expired
  wrong,     \* wrong passwords since the counter was last set back
  strays,    \* requests counted before that and not compared yet
  doomed     \* tokens that a reset has found in the map, and is to end

onceVars    == <<keys, tickets, code, uses, shared, awaited>>
errVars     == <<errs, errTTL, wrong, strays>>
tokenVars   == <<session, newest, doomed>>
userVars    == <<owner, enabled, password>>
vars == <<onceVars, limit, errVars, tokenVars, userVars, request, faults>>

Calls  == {"None", "Captcha", "SmsRegister", "SmsLogin", "SmsReset", "CodeLogin",
           "PasswordLogin", "Reset", "UpdateUser"}
Labels == {"Idle", "DelKey", "SetTicket", "DelTicket", "Limit", "Registered",
           "Send", "SetCode", "DelCode", "Find", "Create", "Read", "Incr",
           "Expire", "Compare", "SetToken", "SetMap", "Update", "GetMap",
           "Clean", "Done"}

Request ==
  [pc : Labels, call : Calls,
   mobile : Mobiles \cup {None},
   typed : Passwords \cup {None},       \* the password that was typed
   held : Ids \cup Keys \cup {None},    \* the captcha, ticket, code or token it has read
   user : Users \cup {None},            \* the account it has read
   read : Passwords \cup {None}]        \* its password at that time, if it is compared

NoRequest(label) ==
  [pc |-> label, call |-> "None", mobile |-> None, typed |-> None, held |-> None,
   user |-> None, read |-> None]

TypeOK ==
  /\ keys \subseteq Keys
  /\ tickets \subseteq Ids
  /\ code \in [Mobiles \X Scenes -> Ids \cup {None}]
  /\ limit \in [Mobiles \cup {Ip} -> Nat]
  /\ errs \in [Mobiles -> Nat]
  /\ errTTL \in [Mobiles -> BOOLEAN]
  /\ session \in [Ids -> Users \cup {None}]
  /\ newest \in [Users -> Ids \cup {None}]
  /\ owner \in [Users -> Mobiles \cup {None}]
  /\ enabled \in [Users -> BOOLEAN]
  /\ password \in [Users -> Passwords \cup {None}]
  /\ request \in [Requests -> Request]
  /\ faults \in 0 .. MaxFaults
  /\ uses \in [Ids \cup Keys -> Nat]
  /\ shared \subseteq Ids \cup Keys
  /\ awaited \in [Mobiles \X Scenes -> Ids \cup {None}]
  /\ wrong \in [Mobiles -> Nat]
  /\ strays \subseteq Requests
  /\ doomed \subseteq Ids

(* At first a customer may have an account, with a password or without,    *)
(* and is logged in then; captchas, tickets and codes are there to be used. *)
Init ==
  /\ keys = Keys
  /\ tickets = OldTickets
  /\ code = OldCodes
  /\ limit = [k \in Mobiles \cup {Ip} |-> 0]
  /\ errs = [m \in Mobiles |-> 0]
  /\ errTTL = [m \in Mobiles |-> FALSE]
  /\ owner \in [Users -> Mobiles \cup {None}]
  /\ \A u, v \in Users : u < v /\ owner[v] # None => owner[u] \notin {None, owner[v]}
  /\ enabled = [u \in Users |-> TRUE]
  /\ password \in [Users -> Passwords \cup {None}]
  /\ \A u \in Users : owner[u] = None => password[u] = None
  /\ newest = [u \in Users |-> IF owner[u] = None THEN None ELSE OldTokens[u]]
  /\ session \in [Ids -> Users \cup {None}]
  /\ \A t \in Ids, u \in Users : session[t] = u <=> newest[u] = t
  /\ request = [r \in Requests |-> NoRequest("Idle")]
  /\ faults = 0
  /\ uses = [x \in Ids \cup Keys |-> 0]
  /\ shared = {}
  /\ awaited = code
  /\ wrong = [m \in Mobiles |-> 0]
  /\ strays = {}
  /\ doomed = {}

-----------------------------------------------------------------------------
At(r, label) == request[r].pc = label
Is(r, c)     == request[r].call = c

(* A request that has ended holds nothing.                                 *)
Becomes(r, next) == request' = [request EXCEPT ![r] = next]
GoTo(r, label) ==
  Becomes(r, IF label = "Done" THEN NoRequest("Done") ELSE [request[r] EXCEPT !.pc = label])

Scene(c) == IF c \in {"SmsReset", "Reset"} THEN "Reset" ELSE "Login"
Slot(r)  == <<request[r].mobile, Scene(request[r].call)>>

Fault == faults < MaxFaults /\ faults' = faults + 1

(* A captcha, a ticket or a code x lets r through; it is deleted next.     *)
Deleting == {r \in Requests : request[r].pc \in {"DelKey", "DelTicket", "DelCode"}}

Use(r, c, m, p, x, label) ==
  /\ At(r, "Idle")
  /\ Becomes(r, [NoRequest(label) EXCEPT !.call = c, !.mobile = m, !.typed = p, !.held = x])
  /\ uses' = [uses EXCEPT ![x] = @ + 1]
  /\ shared' = IF \E q \in Deleting : request[q].held = x THEN shared \cup {x} ELSE shared

(* Its deletion, whose failure nobody notices.                             *)
Delete(r, deleted, kept) ==
  \/ deleted /\ UNCHANGED <<shared, faults>>
  \/ kept /\ Fault /\ shared' = shared \cup {request[r].held}

-----------------------------------------------------------------------------
(* CheckSlideCaptcha: Get and Del of the captcha, then a ticket if the     *)
(* puzzle was solved.                                                      *)
GetCaptchaKey(r, k) ==
  /\ k \in keys
  /\ Use(r, "Captcha", None, None, k, "DelKey")
  /\ UNCHANGED <<keys, tickets, code, awaited, limit, errVars, tokenVars,
                 userVars, faults>>

DelCaptchaKey(r) ==
  /\ At(r, "DelKey")
  /\ Delete(r, keys' = keys \ {request[r].held}, UNCHANGED keys)
  /\ GoTo(r, "SetTicket") \/ GoTo(r, "Done")
  /\ UNCHANGED <<tickets, code, uses, awaited, limit, errVars, tokenVars, userVars>>

SetCaptchaTicket(r) ==
  /\ At(r, "SetTicket")
  /\ tickets' = tickets \cup {r}
  /\ GoTo(r, "Done")
  /\ UNCHANGED <<keys, code, uses, shared, awaited, limit, errVars, tokenVars,
                 userVars, faults>>

(* GetSmsVerifyCode and MobilePasswordLogin take a ticket.                 *)
GetCaptchaTicket(r, c, m, p, t) ==
  /\ t \in tickets
  /\ Use(r, c, m, p, t, "DelTicket")
  /\ UNCHANGED <<keys, tickets, code, awaited, limit, errVars, tokenVars,
                 userVars, faults>>

\* Wrong: the ticket is left to expire.
DelCaptchaTicketNever(r) ==
  /\ At(r, "DelTicket")
  /\ GoTo(r, IF Is(r, "PasswordLogin") THEN "Find" ELSE "Limit")
  /\ UNCHANGED <<onceVars, limit, errVars, tokenVars, userVars, faults>>

DelCaptchaTicket(r) ==
  /\ At(r, "DelTicket")
  /\ Delete(r, tickets' = tickets \ {request[r].held}, UNCHANGED tickets)
  /\ GoTo(r, IF Is(r, "PasswordLogin") THEN "Find" ELSE "Limit")
  /\ UNCHANGED <<keys, code, uses, awaited, limit, errVars, tokenVars, userVars>>

-----------------------------------------------------------------------------
GetSmsVerifyCode(r, c, m, t) ==
  /\ c \in {"SmsRegister", "SmsLogin", "SmsReset"}
  /\ GetCaptchaTicket(r, c, m, None, t)

(* CheckSmsLimited: the mobile and the address are counted.  A count above *)
(* three gets a new hour to live, and the answer is "not limited" too: no   *)
(* message is ever refused.                                                *)
CheckSmsLimited(r) ==
  /\ At(r, "Limit")
  /\ limit' = [k \in DOMAIN limit |->
                 IF k \in {request[r].mobile, Ip} THEN limit[k] + 1 ELSE limit[k]]
  /\ GoTo(r, IF Is(r, "SmsLogin") THEN "Send" ELSE "Registered")
  /\ UNCHANGED <<onceVars, errVars, tokenVars, userVars, faults>>

Accounts(m) == {u \in Users : owner[u] = m}

(* A new customer may register, a known one may reset the password.        *)
CheckRegistered(r) ==
  /\ At(r, "Registered")
  /\ GoTo(r, IF (Accounts(request[r].mobile) = {}) = Is(r, "SmsRegister")
             THEN "Send" ELSE "Done")
  /\ UNCHANGED <<onceVars, limit, errVars, tokenVars, userVars, faults>>

SendLarkMsg(r) ==
  /\ At(r, "Send")
  /\ GoTo(r, "SetCode")
  /\ UNCHANGED <<onceVars, limit, errVars, tokenVars, userVars, faults>>

SetVerifyCode(r) ==
  /\ At(r, "SetCode")
  /\ code' = [code EXCEPT ![Slot(r)] = r]
  /\ awaited' = [awaited EXCEPT ![Slot(r)] = r]
  /\ shared' = IF \E q \in Deleting : At(q, "DelCode") /\ Slot(q) = Slot(r)
               THEN shared \cup {r} ELSE shared
  /\ GoTo(r, "Done")
  /\ UNCHANGED <<keys, tickets, uses, limit, errVars, tokenVars, userVars, faults>>

(* checkSmsVerifyCode of MobileVerifyLogin or MobilePasswordReset, with    *)
(* the right code; a wrong one changes nothing.                            *)
CheckSmsVerifyCode(r, c, m, p) ==
  LET slot == <<m, Scene(c)>>
  IN  /\ code[slot] # None
      /\ Use(r, c, m, p, code[slot], "DelCode")
      /\ awaited' = [awaited EXCEPT ![slot] = None]
      /\ UNCHANGED <<keys, tickets, code, limit, errVars, tokenVars, userVars, faults>>

(* DelVerifyCode deletes what the key holds by now.  A reset whose two     *)
(* passwords differ ends here.                                             *)
DelVerifyCode(r) ==
  /\ At(r, "DelCode")
  /\ Delete(r, code' = [code EXCEPT ![Slot(r)] = None], UNCHANGED code)
  /\ GoTo(r, "Find") \/ (Is(r, "Reset") /\ GoTo(r, "Done"))
  /\ UNCHANGED <<keys, tickets, uses, awaited, limit, errVars, tokenVars, userVars>>

-----------------------------------------------------------------------------
(* GetUserByMobile: the first account of the mobile.                       *)
GetUserByMobile(r) ==
  LET m == request[r].mobile
  IN  /\ At(r, "Find")
      /\ \/ /\ Accounts(m) = {}
            /\ GoTo(r, IF Is(r, "CodeLogin") THEN "Create" ELSE "Done")
         \/ \E u \in Accounts(m) :
              /\ \A v \in Accounts(m) : u <= v
              /\ Becomes(r, [request[r] EXCEPT !.pc = "Read", !.user = u])
      /\ UNCHANGED <<onceVars, limit, errVars, tokenVars, userVars, faults>>

(* MobileCreateUser: both rows in one transaction.  A key of the table may *)
(* refuse the second account of a mobile; then the request just ends.      *)
MobileCreateUser(r, u) ==
  /\ At(r, "Create")
  /\ owner[u] = None
  /\ \A v \in Users : v < u => owner[v] # None
  /\ owner' = [owner EXCEPT ![u] = request[r].mobile]
  /\ Becomes(r, [request[r] EXCEPT !.pc = "Read", !.user = u])
  /\ UNCHANGED <<onceVars, limit, errVars, tokenVars, enabled, password, faults>>

GetUserByID(r) ==
  LET u == request[r].user
  IN  /\ At(r, "Read")
      /\ IF enabled[u]
         THEN Becomes(r, [request[r] EXCEPT
                !.read = IF Is(r, "PasswordLogin") THEN password[u] ELSE None,
                !.pc = CASE Is(r, "CodeLogin")     -> "SetToken"
                         [] Is(r, "PasswordLogin") -> "Incr"
                         [] Is(r, "Reset")         -> "Update"])
         ELSE GoTo(r, "Done")
      /\ UNCHANGED <<onceVars, limit, errVars, tokenVars, userVars, faults>>

-----------------------------------------------------------------------------
(* The count of wrong passwords: the login counts before it compares.      *)
Counted(m) ==
  {r \in Requests : request[r].mobile = m /\ request[r].pc \in {"Expire", "Compare"}}

\* Wrong: one guess too many.
IncrPasswordErrLate(r) ==
  LET m == request[r].mobile
  IN  /\ At(r, "Incr")
      /\ errs' = [errs EXCEPT ![m] = @ + 1]
      /\ GoTo(r, CASE errs'[m] = 1          -> "Expire"
                   [] errs'[m] > MaxErr + 1 -> "Done"
                   [] OTHER                 -> "Compare")
      /\ UNCHANGED <<onceVars, limit, errTTL, wrong, strays, tokenVars, userVars, faults>>

IncrPasswordErr(r) ==
  LET m == request[r].mobile
  IN  /\ At(r, "Incr")
      /\ errs' = [errs EXCEPT ![m] = @ + 1]
      /\ GoTo(r, CASE errs'[m] = 1      -> "Expire"
                   [] errs'[m] > MaxErr -> "Done"
                   [] OTHER             -> "Compare")
      /\ UNCHANGED <<onceVars, limit, errTTL, wrong, strays, tokenVars, userVars, faults>>

(* Only the first of a count sets the ten minutes, and does not look       *)
(* whether that went well.                                                 *)
ExpirePasswordErr(r) ==
  LET m == request[r].mobile
  IN  /\ At(r, "Expire")
      /\ \/ errTTL' = [errTTL EXCEPT ![m] = errs[m] > 0] /\ UNCHANGED faults
         \/ Fault /\ UNCHANGED errTTL
      /\ GoTo(r, "Compare")
      /\ UNCHANGED <<onceVars, limit, errs, wrong, strays, tokenVars, userVars>>

(* The counter goes; requests that were counted before may still compare.  *)
Forget(m, others) ==
  /\ errs' = [errs EXCEPT ![m] = 0]
  /\ errTTL' = [errTTL EXCEPT ![m] = FALSE]
  /\ wrong' = [wrong EXCEPT ![m] = 0]
  /\ strays' = strays \cup others

WrongPassword(r) ==
  /\ At(r, "Compare")
  /\ request[r].typed # request[r].read
  /\ wrong' = [wrong EXCEPT ![request[r].mobile] = IF r \in strays THEN @ ELSE @ + 1]
  /\ strays' = strays \ {r}
  /\ GoTo(r, "Done")
  /\ UNCHANGED <<onceVars, limit, errs, errTTL, tokenVars, userVars, faults>>

(* DeletePasswordErr, whose failure is ignored.                            *)
RightPassword(r) ==
  LET m == request[r].mobile
  IN  /\ At(r, "Compare")
      /\ request[r].typed = request[r].read
      /\ \/ Forget(m, Counted(m) \ {r}) /\ UNCHANGED faults
         \/ Fault /\ UNCHANGED errVars
      /\ GoTo(r, "SetToken")
      /\ UNCHANGED <<onceVars, limit, tokenVars, userVars>>

-----------------------------------------------------------------------------
(* handleUserLogin: SetUserToken sets the token and then the map entry.    *)
SetUserToken(r) ==
  /\ At(r, "SetToken")
  /\ session' = [session EXCEPT ![r] = request[r].user]
  /\ GoTo(r, "SetMap")
  /\ UNCHANGED <<onceVars, limit, errVars, newest, doomed, userVars, faults>>

Resetting(u) ==
  \E r \in Requests : request[r].pc \in {"GetMap", "Clean"} /\ request[r].user = u

SetUserMap(r) ==
  LET u == request[r].user
  IN  /\ At(r, "SetMap")
      /\ newest' = [newest EXCEPT ![u] = r]
      /\ doomed' = IF Resetting(u) THEN {t \in doomed : session[t] # u} ELSE doomed
      /\ GoTo(r, "Done")
      /\ UNCHANGED <<onceVars, limit, errVars, session, userVars, faults>>

(* MobilePasswordReset: the new password, then CleanUserToken, whose       *)
(* failure is ignored.                                                     *)
UpdateUserPassword(r) ==
  LET u == request[r].user
  IN  /\ At(r, "Update")
      /\ password' = [password EXCEPT ![u] = request[r].typed]
      /\ doomed' = IF Resetting(u) THEN doomed ELSE doomed \cup ({newest[u]} \ {None})
      /\ GoTo(r, "GetMap")
      /\ UNCHANGED <<onceVars, limit, errVars, session, newest, owner, enabled, faults>>

GetNewestToken(r) ==
  LET t == newest[request[r].user]
  IN  /\ At(r, "GetMap")
      /\ IF t = None
         THEN GoTo(r, "Done")
         ELSE Becomes(r, [request[r] EXCEPT !.pc = "Clean", !.held = t])
      /\ UNCHANGED <<onceVars, limit, errVars, tokenVars, userVars, faults>>

\* Wrong: only the entry of the map is deleted.
CleanUserMap(r) ==
  /\ At(r, "Clean")
  /\ newest' = [newest EXCEPT ![request[r].user] = None]
  /\ GoTo(r, "Done")
  /\ UNCHANGED <<onceVars, limit, errVars, session, doomed, userVars, faults>>

CleanUserToken(r) ==
  /\ At(r, "Clean")
  /\ session' = [session EXCEPT ![request[r].held] = None]
  /\ newest' = [newest EXCEPT ![request[r].user] = None]
  /\ GoTo(r, "Done")
  /\ UNCHANGED <<onceVars, limit, errVars, doomed, userVars, faults>>

-----------------------------------------------------------------------------
(* The back office switches an account off, or on again.                   *)
UpdateCustomerUser(r, u) ==
  /\ At(r, "Idle")
  /\ owner[u] # None
  /\ enabled' = [enabled EXCEPT ![u] = ~@]
  /\ GoTo(r, "Done")
  /\ UNCHANGED <<onceVars, limit, errVars, tokenVars, owner, password, faults>>

(* Time.  A captcha or a ticket that expires is one that nobody uses, and  *)
(* tokens live for a week.                                                 *)
CodeExpires(slot) ==
  /\ code[slot] # None
  /\ code' = [code EXCEPT ![slot] = None]
  /\ awaited' = [awaited EXCEPT ![slot] = None]
  /\ UNCHANGED <<keys, tickets, uses, shared, limit, errVars, tokenVars,
                 userVars, request, faults>>

PasswordErrExpires(m) ==
  /\ errTTL[m]
  /\ Forget(m, Counted(m))
  /\ UNCHANGED <<onceVars, limit, tokenVars, userVars, request, faults>>

(* A call fails, or the server stops: the request ends where it is.        *)
Stop(r) ==
  /\ request[r].pc \notin {"Idle", "Done"}
  /\ GoTo(r, "Done")
  /\ shared' = IF r \in Deleting THEN shared \cup {request[r].held} ELSE shared
  /\ Fault
  /\ UNCHANGED <<keys, tickets, code, uses, awaited, limit, errVars, tokenVars, userVars>>

Next ==
  \/ \E r \in Requests :
       \/ \E k \in Keys : GetCaptchaKey(r, k)
       \/ DelCaptchaKey(r)
       \/ SetCaptchaTicket(r)
       \/ \E c \in Calls, m \in Mobiles, t \in Ids : GetSmsVerifyCode(r, c, m, t)
       \/ DelCaptchaTicket(r)
       \/ CheckSmsLimited(r)
       \/ CheckRegistered(r)
       \/ SendLarkMsg(r)
       \/ SetVerifyCode(r)
       \/ \E m \in Mobiles : CheckSmsVerifyCode(r, "CodeLogin", m, None)
       \/ \E m \in Mobiles, p \in Passwords : CheckSmsVerifyCode(r, "Reset", m, p)
       \/ DelVerifyCode(r)
       \/ \E m \in Mobiles, p \in Passwords, t \in Ids :
            GetCaptchaTicket(r, "PasswordLogin", m, p, t)
       \/ GetUserByMobile(r)
       \/ \E u \in Users : MobileCreateUser(r, u)
       \/ GetUserByID(r)
       \/ IncrPasswordErr(r)
       \/ ExpirePasswordErr(r)
       \/ WrongPassword(r)
       \/ RightPassword(r)
       \/ SetUserToken(r)
       \/ SetUserMap(r)
       \/ UpdateUserPassword(r)
       \/ GetNewestToken(r)
       \/ CleanUserToken(r)
       \/ \E u \in Users : UpdateCustomerUser(r, u)
       \/ Stop(r)
  \/ \E slot \in Mobiles \X Scenes : CodeExpires(slot)
  \/ \E m \in Mobiles : PasswordErrExpires(m)

Spec == Init /\ [][Next]_vars

-----------------------------------------------------------------------------
(* A captcha, a ticket or a code lets one request through.  It lets more   *)
(* through only if they read it before the first had deleted it, or if     *)
(* that deletion was lost: Get and Del are two calls.                      *)
OnceUnlessShared ==
  \A x \in Ids \cup Keys : uses[x] > 1 => x \in shared

(* A code that was stored stays until it is used or expires.  DelVerifyCode *)
(* deletes by mobile and scene, whatever code is there by then: only a     *)
(* code stored while an older one was being deleted is lost with it.       *)
CodeKept ==
  \A slot \in Mobiles \X Scenes :
    awaited[slot] # None => code[slot] = awaited[slot] \/ awaited[slot] \in shared

(* Between two times that the counter of wrong passwords is set back, no   *)
(* more than MaxErr passwords are found wrong, however many logins run at  *)
(* once; those counted before are not counted again.                       *)
GuessLimit == \A m \in Mobiles : wrong[m] <= MaxErr

(* A mobile is never locked for good: its counter has a time to live, or   *)
(* the login that is to set it is under way, unless that call was lost.    *)
LockoutEnds ==
  \A m \in Mobiles :
    \/ errs[m] = 0
    \/ errTTL[m]
    \/ \E r \in Counted(m) : At(r, "Expire")
    \/ faults > 0

(* A reset ends the session that the map knew of when the password was     *)
(* changed, unless a call failed, another reset was under way already, or  *)
(* a login set the map in between.                                         *)
ResetEndsNewest ==
  \A t \in doomed, u \in Users : session[t] = u => Resetting(u) \/ faults > 0

(* What is to be used once is.                                             *)
OneTime == OnceUnlessShared /\ CodeKept

(* The count of wrong passwords limits guesses, and not for good.          *)
LockoutHolds == GuessLimit /\ LockoutEnds
=============================================================================

------------------------- MODULE CustomerLogin_proofs -------------------------
(***************************************************************************)
(* What CustomerLogin promises, for every set of requests, mobiles, users  *)
(* and passwords, for every MaxErr and for any number of failures.         *)
(***************************************************************************)
EXTENDS CustomerLogin, FiniteSetTheorems, TLAPS

HasMobile == Labels \ {"Idle", "DelKey", "SetTicket", "Done"}
HasUser   == {"Read", "Incr", "Expire", "Compare", "SetToken", "SetMap", "Update",
              "GetMap", "Clean"}

(* What a request holds where.                                             *)
ShapeOf(r) ==
    /\ At(r, "DelKey") => request[r].held \in Keys
    /\ request[r].pc \in {"DelTicket", "DelCode", "Clean"} => request[r].held \in Ids
    /\ request[r].pc \in HasMobile => request[r].mobile \in Mobiles
    /\ request[r].pc \in HasUser => request[r].user \in Users
    /\ request[r].pc \in {"DelCode", "Find", "Create", "Read"} =>
         request[r].call \in {"CodeLogin", "PasswordLogin", "Reset"}

Shape == \A r \in Requests : ShapeOf(r)

Typed == TypeOK /\ Shape

USE DEF At, Is

LEMMA NoRequestTyped == \A label \in Labels : NoRequest(label) \in Request
BY LoginAssumption DEF NoRequest, Request, Calls, Labels

LEMMA GoToTyped ==
  ASSUME Typed, NEW r \in Requests, NEW label \in Labels, GoTo(r, label)
  PROVE  /\ request' \in [Requests -> Request]
         /\ \A q \in Requests : q # r => request'[q] = request[q]
         /\ request'[r].pc = label
         /\ label # "Done" =>
              /\ request'[r] = [request[r] EXCEPT !.pc = label]
              /\ request'[r].call = request[r].call
              /\ request'[r].mobile = request[r].mobile
              /\ request'[r].typed = request[r].typed
              /\ request'[r].held = request[r].held
              /\ request'[r].user = request[r].user
              /\ request'[r].read = request[r].read
         /\ label = "Done" => request'[r] = NoRequest("Done")
<1>0. request[r] \in Request
  BY DEF Typed, TypeOK
<1>1. [request[r] EXCEPT !.pc = label] \in Request
  BY <1>0 DEF Request
<1>2. CASE label = "Done"
  BY <1>2, NoRequestTyped DEF GoTo, Becomes, Typed, TypeOK, NoRequest
<1>3. CASE label # "Done"
  BY <1>1, <1>3 DEF GoTo, Becomes, Typed, TypeOK, Request
<1> QED
  BY <1>2, <1>3

LEMMA UseTyped ==
  ASSUME Typed, NEW r \in Requests, NEW c \in Calls, NEW m \in Mobiles \cup {None},
         NEW p \in Passwords \cup {None}, NEW x \in Ids \cup Keys,
         NEW label \in Labels, Use(r, c, m, p, x, label)
  PROVE  /\ request' \in [Requests -> Request]
         /\ \A q \in Requests : q # r => request'[q] = request[q]
         /\ request[r].pc = "Idle" /\ request'[r].pc = label
         /\ request'[r].call = c /\ request'[r].mobile = m /\ request'[r].held = x
         /\ uses' \in [Ids \cup Keys -> Nat]
         /\ shared' \subseteq Ids \cup Keys
<1>0. NoRequest(label) \in Request
  BY NoRequestTyped
<1>1. [NoRequest(label) EXCEPT !.call = c, !.mobile = m, !.typed = p, !.held = x] \in Request
  BY <1>0 DEF NoRequest, Request
<1>2. [NoRequest(label) EXCEPT !.call = c, !.mobile = m, !.typed = p, !.held = x].pc = label
  BY DEF NoRequest
<1> QED
  BY <1>1, <1>2 DEF Use, Becomes, Typed, TypeOK, NoRequest, Request

(* What the actions may rely on.                                           *)
LEMMA Fields ==
  ASSUME Typed, NEW r \in Requests
  PROVE  /\ request[r] \in Request
         /\ ShapeOf(r)
         /\ request[r].pc \in Labels
         /\ request[r].call \in Calls
         /\ request[r].mobile \in Mobiles \cup {None}
         /\ request[r].typed \in Passwords \cup {None}
         /\ request[r].held \in Ids \cup Keys \cup {None}
         /\ request[r].user \in Users \cup {None}
         /\ At(r, "DelKey") => request[r].held \in Keys
         /\ request[r].pc \in {"DelTicket", "DelCode", "Clean"} => request[r].held \in Ids
         /\ request[r].pc \in HasMobile => request[r].mobile \in Mobiles
         /\ request[r].pc \in HasUser => request[r].user \in Users
<1>1. request[r] \in Request /\ ShapeOf(r)
  BY DEF Typed, TypeOK, Shape
<1> QED
  BY <1>1 DEF Request, ShapeOf

LEMMA BecomesTyped ==
  ASSUME Typed, NEW r \in Requests, NEW next \in Request, Becomes(r, next)
  PROVE  /\ request' \in [Requests -> Request]
         /\ \A q \in Requests : q # r => request'[q] = request[q]
         /\ request'[r] = next
BY DEF Becomes, Typed, TypeOK

LEMMA ReadsUser ==
  ASSUME Typed, NEW r \in Requests, NEW u \in Users, At(r, "Find") \/ At(r, "Create"),
         Becomes(r, [request[r] EXCEPT !.pc = "Read", !.user = u])
  PROVE  /\ request' \in [Requests -> Request]
         /\ \A q \in Requests : q # r => request'[q] = request[q]
         /\ request'[r].pc = "Read"
         /\ ShapeOf(r)'
<1> DEFINE next == [request[r] EXCEPT !.pc = "Read", !.user = u]
<1>1. request[r] \in Request /\ ShapeOf(r)
  BY DEF Typed, TypeOK, Shape
<1>2. next \in Request
  BY <1>1 DEF Request, Labels
<1>3. /\ next.pc = "Read" /\ next.user = u
      /\ next.mobile = request[r].mobile /\ next.call = request[r].call
  BY <1>1 DEF Request
<1> HIDE DEF next
<1>4. request' \in [Requests -> Request] /\ request'[r] = next
      /\ \A q \in Requests : q # r => request'[q] = request[q]
  BY <1>2, BecomesTyped DEF next
<1> QED
  BY <1>1, <1>3, <1>4 DEF ShapeOf, HasMobile, HasUser, Labels

LEMMA GetUserByMobileTyped ==
  ASSUME Typed, NEW r \in Requests, GetUserByMobile(r)
  PROVE  /\ request' \in [Requests -> Request]
         /\ \A q \in Requests : q # r => request'[q] = request[q]
         /\ request'[r].pc \in {"Create", "Done", "Read"}
         /\ ShapeOf(r)'
<1>1. request[r] \in Request /\ ShapeOf(r)
  BY DEF Typed, TypeOK, Shape
<1>2. ASSUME GoTo(r, IF Is(r, "CodeLogin") THEN "Create" ELSE "Done")
      PROVE  /\ request' \in [Requests -> Request]
             /\ \A q \in Requests : q # r => request'[q] = request[q]
             /\ request'[r].pc \in {"Create", "Done"}
             /\ ShapeOf(r)'
  <2>1. CASE Is(r, "CodeLogin")
    <3>1. GoTo(r, "Create")
      BY <1>2, <2>1
    <3>2. request'[r] = [request[r] EXCEPT !.pc = "Create"]
      BY <3>1, GoToTyped DEF Labels
    <3> QED
      BY <1>1, <2>1, <3>1, <3>2, GoToTyped DEF GetUserByMobile, ShapeOf, HasMobile,
         HasUser, Labels, Request
  <2>2. CASE ~ Is(r, "CodeLogin")
    BY <1>1, <1>2, <2>2, GoToTyped DEF ShapeOf, HasMobile, HasUser, Labels
  <2> QED
    BY <2>1, <2>2
<1>3. ASSUME NEW u \in Users, Becomes(r, [request[r] EXCEPT !.pc = "Read", !.user = u])
      PROVE  /\ request' \in [Requests -> Request]
             /\ \A q \in Requests : q # r => request'[q] = request[q]
             /\ request'[r].pc = "Read"
             /\ ShapeOf(r)'
  BY <1>3, ReadsUser DEF GetUserByMobile
<1> QED
  BY <1>2, <1>3 DEF GetUserByMobile, Accounts

LEMMA MobileCreateUserTyped ==
  ASSUME Typed, NEW r \in Requests, NEW u \in Users, MobileCreateUser(r, u)
  PROVE  /\ request' \in [Requests -> Request]
         /\ \A q \in Requests : q # r => request'[q] = request[q]
         /\ request'[r].pc = "Read"
         /\ ShapeOf(r)'
BY ReadsUser DEF MobileCreateUser

LEMMA GetUserByIDTyped ==
  ASSUME Typed, NEW r \in Requests, GetUserByID(r)
  PROVE  /\ request' \in [Requests -> Request]
         /\ \A q \in Requests : q # r => request'[q] = request[q]
         /\ request'[r].pc \in {"SetToken", "Incr", "Update", "Done"}
         /\ ShapeOf(r)'
<1> DEFINE u == request[r].user
           read == IF Is(r, "PasswordLogin") THEN password[u] ELSE None
           label == CASE Is(r, "CodeLogin")     -> "SetToken"
                      [] Is(r, "PasswordLogin") -> "Incr"
                      [] Is(r, "Reset")         -> "Update"
           next == [request[r] EXCEPT !.read = read, !.pc = label]
<1>1. request[r] \in Request /\ ShapeOf(r) /\ At(r, "Read")
  BY DEF Typed, TypeOK, Shape, GetUserByID
<1>2. u \in Users /\ request[r].mobile \in Mobiles
  BY <1>1 DEF ShapeOf, HasUser, HasMobile, Labels
<1>3. read \in Passwords \cup {None}
  BY <1>2 DEF Typed, TypeOK
<1>4. label \in {"SetToken", "Incr", "Update"}
  BY <1>1 DEF ShapeOf
<1>5. CASE enabled[u]
  <2> HIDE DEF read, label
  <2>1. next \in Request
    BY <1>1, <1>3, <1>4 DEF Request, Labels
  <2>2. next.pc = label /\ next.user = u /\ next.mobile = request[r].mobile
    BY <1>1 DEF Request
  <2>3. Becomes(r, next)
    BY <1>5 DEF GetUserByID, read, label
  <2> HIDE DEF next
  <2> QED
    BY <1>2, <1>4, <2>1, <2>2, <2>3, BecomesTyped DEF ShapeOf, HasMobile, HasUser, Labels
<1>6. CASE ~ enabled[u]
  BY <1>1, <1>6, GoToTyped DEF GetUserByID, ShapeOf, HasMobile, HasUser, Labels
<1> QED
  BY <1>5, <1>6

LEMMA GetNewestTokenTyped ==
  ASSUME Typed, NEW r \in Requests, GetNewestToken(r)
  PROVE  /\ request' \in [Requests -> Request]
         /\ \A q \in Requests : q # r => request'[q] = request[q]
         /\ \/ request'[r].pc = "Done"
            \/ /\ request'[r].pc = "Clean"
               /\ request'[r].user = request[r].user
               /\ request'[r].held = newest[request[r].user]
               /\ request'[r].held # None
         /\ ShapeOf(r)'
<1> DEFINE u == request[r].user
           t == newest[u]
           next == [request[r] EXCEPT !.pc = "Clean", !.held = t]
<1>1. request[r] \in Request /\ ShapeOf(r) /\ At(r, "GetMap")
  BY DEF Typed, TypeOK, Shape, GetNewestToken
<1>2. u \in Users /\ request[r].mobile \in Mobiles
  BY <1>1 DEF ShapeOf, HasUser, HasMobile, Labels
<1>3. t \in Ids \cup {None}
  BY <1>2 DEF Typed, TypeOK
<1>4. CASE t = None
  BY <1>1, <1>4, GoToTyped DEF GetNewestToken, ShapeOf, HasMobile, HasUser, Labels
<1>5. CASE t # None
  <2>1. next \in Request
    BY <1>1, <1>3 DEF Request, Labels
  <2>2. /\ next.pc = "Clean"
        /\ next.user = u
        /\ next.mobile = request[r].mobile
        /\ next.held = t
    BY <1>1 DEF Request
  <2>3. Becomes(r, next)
    BY <1>5 DEF GetNewestToken
  <2> HIDE DEF next
  <2> QED
    BY <1>2, <1>3, <1>5, <2>1, <2>2, <2>3, BecomesTyped DEF ShapeOf, HasMobile, HasUser,
       Labels
<1> QED
  BY <1>4, <1>5

(* Next, with the names of GetSmsVerifyCode and of the two logins that take *)
(* a ticket or a code taken together.                                      *)
NextCases ==
  \/ \E r \in Requests :
       \/ \E k \in Keys : GetCaptchaKey(r, k)
       \/ DelCaptchaKey(r)
       \/ SetCaptchaTicket(r)
       \/ \E c \in Calls, m \in Mobiles, p \in Passwords \cup {None}, t \in Ids :
            c \in {"SmsRegister", "SmsLogin", "SmsReset", "PasswordLogin"} /\ GetCaptchaTicket(r, c, m, p, t)
       \/ DelCaptchaTicket(r)
       \/ CheckSmsLimited(r)
       \/ CheckRegistered(r)
       \/ SendLarkMsg(r)
       \/ SetVerifyCode(r)
       \/ \E c \in {"CodeLogin", "Reset"}, m \in Mobiles, p \in Passwords \cup {None} :
            CheckSmsVerifyCode(r, c, m, p)
       \/ DelVerifyCode(r)
       \/ GetUserByMobile(r)
       \/ \E u \in Users : MobileCreateUser(r, u)
       \/ GetUserByID(r)
       \/ IncrPasswordErr(r)
       \/ ExpirePasswordErr(r)
       \/ WrongPassword(r)
       \/ RightPassword(r)
       \/ SetUserToken(r)
       \/ SetUserMap(r)
       \/ UpdateUserPassword(r)
       \/ GetNewestToken(r)
       \/ CleanUserToken(r)
       \/ \E u \in Users : UpdateCustomerUser(r, u)
       \/ Stop(r)
  \/ \E slot \in Mobiles \X Scenes : CodeExpires(slot)
  \/ \E m \in Mobiles : PasswordErrExpires(m)
  \/ UNCHANGED vars

LEMMA NextIsCases == [Next]_vars => NextCases
<1> SUFFICES ASSUME Next PROVE NextCases
  BY Zenon DEF NextCases
<1>1. CASE \E r \in Requests : \E c \in Calls, m \in Mobiles, t \in Ids : GetSmsVerifyCode(r, c, m, t)
  <2>1. PICK r \in Requests, c \in Calls, m \in Mobiles, t \in Ids : GetSmsVerifyCode(r, c, m, t)
    BY <1>1
  <2>2. c \in {"SmsRegister", "SmsLogin", "SmsReset"} /\ GetCaptchaTicket(r, c, m, None, t)
    BY <2>1 DEF GetSmsVerifyCode
  <2> QED
    BY <2>2, Zenon DEF NextCases
<1>2. CASE \E r \in Requests, m \in Mobiles, p \in Passwords, t \in Ids :
             GetCaptchaTicket(r, "PasswordLogin", m, p, t)
  BY <1>2, Zenon DEF NextCases, Calls
<1>3. CASE \E r \in Requests, m \in Mobiles : CheckSmsVerifyCode(r, "CodeLogin", m, None)
  BY <1>3, Zenon DEF NextCases
<1>4. CASE \E r \in Requests, m \in Mobiles, p \in Passwords : CheckSmsVerifyCode(r, "Reset", m, p)
  BY <1>4, Zenon DEF NextCases
<1> QED
  BY <1>1, <1>2, <1>3, <1>4, Zenon DEF Next, NextCases

(* Only request r changes, and goes from one label to another.  Most        *)
(* actions leave the rest of it as it was.                                 *)
Moves(r, from, to) ==
  /\ request' \in [Requests -> Request]
  /\ \A q \in Requests : q # r => request'[q] = request[q]
  /\ request[r].pc \in from
  /\ request'[r].pc \in to

Keeps(r) ==
  /\ request'[r].pc # "Done" =>
       /\ request'[r].call = request[r].call
       /\ request'[r].mobile = request[r].mobile
       /\ request'[r].held = request[r].held
       /\ request'[r].user = request[r].user
  /\ request'[r].pc = "Done" => request'[r] = NoRequest("Done")

LEMMA GetCaptchaKeyMoves ==
  ASSUME Typed, NEW r \in Requests, NEW k \in Keys, GetCaptchaKey(r, k)
  PROVE  Moves(r, {"Idle"}, {"DelKey"}) /\ Use(r, "Captcha", None, None, k, "DelKey")
         /\ request'[r].call = "Captcha"
         /\ request'[r].mobile = None
         /\ request'[r].held = k
         /\ k \in Ids \cup Keys
<1>1. Use(r, "Captcha", None, None, k, "DelKey")
  BY DEF GetCaptchaKey
<1>2. /\ "Captcha" \in Calls
      /\ "CodeLogin" \in Calls
      /\ "Reset" \in Calls
      /\ "DelKey" \in Labels
  BY DEF Calls, Labels
<1>3. k \in Ids \cup Keys
  BY DEF GetCaptchaKey, Scene, Scenes, Typed, TypeOK
<1>4. /\ "Captcha" \in Calls
      /\ None \in Mobiles \cup {None}
      /\ None \in Passwords \cup {None}
  BY <1>2
<1>5. /\ request' \in [Requests -> Request]
      /\ \A q \in Requests : q # r => request'[q] = request[q]
      /\ request[r].pc = "Idle" /\ request'[r].pc = "DelKey"
      /\ request'[r].call = "Captcha" /\ request'[r].mobile = None /\ request'[r].held = k
      /\ uses' \in [Ids \cup Keys -> Nat]
      /\ shared' \subseteq Ids \cup Keys
  BY <1>1, <1>2, <1>3, <1>4, UseTyped, Zenon
<1> QED
  BY <1>1, <1>3, <1>5 DEF Moves

LEMMA DelCaptchaKeyMoves ==
  ASSUME Typed, NEW r \in Requests, DelCaptchaKey(r)
  PROVE  Moves(r, {"DelKey"}, {"SetTicket", "Done"}) /\ Keeps(r)
<1>1. PICK label \in Labels : GoTo(r, label) /\ label \in {"SetTicket", "Done"}
  BY DEF DelCaptchaKey, Labels
<1>2. request[r].pc \in {"DelKey"}
  BY Fields DEF DelCaptchaKey
<1> QED
  BY <1>1, <1>2, GoToTyped DEF Moves, Keeps

LEMMA SetCaptchaTicketMoves ==
  ASSUME Typed, NEW r \in Requests, SetCaptchaTicket(r)
  PROVE  Moves(r, {"SetTicket"}, {"Done"}) /\ Keeps(r)
<1>1. PICK label \in Labels : GoTo(r, label) /\ label \in {"Done"}
  BY DEF SetCaptchaTicket, Labels
<1>2. request[r].pc \in {"SetTicket"}
  BY Fields DEF SetCaptchaTicket
<1> QED
  BY <1>1, <1>2, GoToTyped DEF Moves, Keeps

LEMMA GetCaptchaTicketMoves ==
  ASSUME Typed, NEW r \in Requests, NEW c \in Calls, NEW m \in Mobiles,
         NEW p \in Passwords \cup {None}, NEW t \in Ids,
             c \in {"SmsRegister", "SmsLogin", "SmsReset", "PasswordLogin"}, GetCaptchaTicket(r, c, m, p, t)
  PROVE  Moves(r, {"Idle"}, {"DelTicket"}) /\ Use(r, c, m, p, t, "DelTicket")
         /\ request'[r].call = c /\ request'[r].mobile = m /\ request'[r].held = t
         /\ t \in Ids \cup Keys
<1>1. Use(r, c, m, p, t, "DelTicket")
  BY DEF GetCaptchaTicket
<1>2. /\ "Captcha" \in Calls
      /\ "CodeLogin" \in Calls
      /\ "Reset" \in Calls
      /\ "DelTicket" \in Labels
  BY DEF Calls, Labels
<1>3. t \in Ids \cup Keys
  BY DEF GetCaptchaTicket, Scene, Scenes, Typed, TypeOK
<1>4. /\ c \in Calls /\ m \in Mobiles \cup {None} /\ p \in Passwords \cup {None}
  BY <1>2
<1>5. /\ request' \in [Requests -> Request]
      /\ \A q \in Requests : q # r => request'[q] = request[q]
      /\ request[r].pc = "Idle" /\ request'[r].pc = "DelTicket"
      /\ request'[r].call = c /\ request'[r].mobile = m /\ request'[r].held = t
      /\ uses' \in [Ids \cup Keys -> Nat]
      /\ shared' \subseteq Ids \cup Keys
  BY <1>1, <1>2, <1>3, <1>4, UseTyped, Zenon
<1> QED
  BY <1>1, <1>3, <1>5 DEF Moves

LEMMA DelCaptchaTicketMoves ==
  ASSUME Typed, NEW r \in Requests, DelCaptchaTicket(r)
  PROVE  Moves(r, {"DelTicket"}, {"Find", "Limit"}) /\ Keeps(r)
<1>1. PICK label \in Labels : GoTo(r, label) /\ label \in {"Find", "Limit"}
  BY DEF DelCaptchaTicket, Labels
<1>2. request[r].pc \in {"DelTicket"}
  BY Fields DEF DelCaptchaTicket
<1> QED
  BY <1>1, <1>2, GoToTyped DEF Moves, Keeps

LEMMA CheckSmsLimitedMoves ==
  ASSUME Typed, NEW r \in Requests, CheckSmsLimited(r)
  PROVE  Moves(r, {"Limit"}, {"Send", "Registered"}) /\ Keeps(r)
<1>1. PICK label \in Labels : GoTo(r, label) /\ label \in {"Send", "Registered"}
  BY DEF CheckSmsLimited, Labels
<1>2. request[r].pc \in {"Limit"}
  BY Fields DEF CheckSmsLimited
<1> QED
  BY <1>1, <1>2, GoToTyped DEF Moves, Keeps

LEMMA CheckRegisteredMoves ==
  ASSUME Typed, NEW r \in Requests, CheckRegistered(r)
  PROVE  Moves(r, {"Registered"}, {"Send", "Done"}) /\ Keeps(r)
<1>1. PICK label \in Labels : GoTo(r, label) /\ label \in {"Send", "Done"}
  BY DEF CheckRegistered, Labels
<1>2. request[r].pc \in {"Registered"}
  BY Fields DEF CheckRegistered
<1> QED
  BY <1>1, <1>2, GoToTyped DEF Moves, Keeps

LEMMA SendLarkMsgMoves ==
  ASSUME Typed, NEW r \in Requests, SendLarkMsg(r)
  PROVE  Moves(r, {"Send"}, {"SetCode"}) /\ Keeps(r)
<1>1. PICK label \in Labels : GoTo(r, label) /\ label \in {"SetCode"}
  BY DEF SendLarkMsg, Labels
<1>2. request[r].pc \in {"Send"}
  BY Fields DEF SendLarkMsg
<1> QED
  BY <1>1, <1>2, GoToTyped DEF Moves, Keeps

LEMMA SetVerifyCodeMoves ==
  ASSUME Typed, NEW r \in Requests, SetVerifyCode(r)
  PROVE  Moves(r, {"SetCode"}, {"Done"}) /\ Keeps(r)
<1>1. PICK label \in Labels : GoTo(r, label) /\ label \in {"Done"}
  BY DEF SetVerifyCode, Labels
<1>2. request[r].pc \in {"SetCode"}
  BY Fields DEF SetVerifyCode
<1> QED
  BY <1>1, <1>2, GoToTyped DEF Moves, Keeps

LEMMA CheckSmsVerifyCodeMoves ==
  ASSUME Typed, NEW r \in Requests, NEW c \in {"CodeLogin", "Reset"}, NEW m \in Mobiles,
         NEW p \in Passwords \cup {None}, CheckSmsVerifyCode(r, c, m, p)
  PROVE  Moves(r, {"Idle"}, {"DelCode"}) /\ Use(r, c, m, p, code[<<m, Scene(c)>>], "DelCode")
         /\ request'[r].call = c /\ request'[r].mobile = m /\ request'[r].held = code[<<m, Scene(c)>>]
         /\ code[<<m, Scene(c)>>] \in Ids \cup Keys
<1>1. Use(r, c, m, p, code[<<m, Scene(c)>>], "DelCode")
  BY DEF CheckSmsVerifyCode
<1>2. /\ "Captcha" \in Calls
      /\ "CodeLogin" \in Calls
      /\ "Reset" \in Calls
      /\ "DelCode" \in Labels
  BY DEF Calls, Labels
<1>3. code[<<m, Scene(c)>>] \in Ids \cup Keys
  BY DEF CheckSmsVerifyCode, Scene, Scenes, Typed, TypeOK
<1>4. /\ c \in Calls /\ m \in Mobiles \cup {None} /\ p \in Passwords \cup {None}
  BY <1>2
<1>5. /\ request' \in [Requests -> Request]
      /\ \A q \in Requests : q # r => request'[q] = request[q]
      /\ request[r].pc = "Idle" /\ request'[r].pc = "DelCode"
      /\ request'[r].call = c /\ request'[r].mobile = m /\ request'[r].held = code[<<m, Scene(c)>>]
      /\ uses' \in [Ids \cup Keys -> Nat]
      /\ shared' \subseteq Ids \cup Keys
  BY <1>1, <1>2, <1>3, <1>4, UseTyped, Zenon
<1> QED
  BY <1>1, <1>3, <1>5 DEF Moves

LEMMA DelVerifyCodeMoves ==
  ASSUME Typed, NEW r \in Requests, DelVerifyCode(r)
  PROVE  Moves(r, {"DelCode"}, {"Find", "Done"}) /\ Keeps(r)
<1>1. PICK label \in Labels : GoTo(r, label) /\ label \in {"Find", "Done"}
  BY DEF DelVerifyCode, Labels
<1>2. request[r].pc \in {"DelCode"}
  BY Fields DEF DelVerifyCode
<1> QED
  BY <1>1, <1>2, GoToTyped DEF Moves, Keeps

LEMMA GetUserByMobileMoves ==
  ASSUME Typed, NEW r \in Requests, GetUserByMobile(r)
  PROVE  Moves(r, {"Find"}, {"Create", "Done", "Read"})
BY GetUserByMobileTyped DEF GetUserByMobile, Moves

LEMMA MobileCreateUserMoves ==
  ASSUME Typed, NEW r \in Requests, NEW u \in Users, MobileCreateUser(r, u)
  PROVE  Moves(r, {"Create"}, {"Read"})
BY MobileCreateUserTyped DEF MobileCreateUser, Moves

LEMMA GetUserByIDMoves ==
  ASSUME Typed, NEW r \in Requests, GetUserByID(r)
  PROVE  Moves(r, {"Read"}, {"SetToken", "Incr", "Update", "Done"})
BY GetUserByIDTyped DEF GetUserByID, Moves

LEMMA IncrPasswordErrMoves ==
  ASSUME Typed, NEW r \in Requests, IncrPasswordErr(r)
  PROVE  Moves(r, {"Incr"}, {"Expire", "Done", "Compare"}) /\ Keeps(r)
<1>1. PICK label \in Labels : GoTo(r, label) /\ label \in {"Expire", "Done", "Compare"}
  BY DEF IncrPasswordErr, Labels
<1>2. request[r].pc \in {"Incr"}
  BY Fields DEF IncrPasswordErr
<1> QED
  BY <1>1, <1>2, GoToTyped DEF Moves, Keeps

LEMMA ExpirePasswordErrMoves ==
  ASSUME Typed, NEW r \in Requests, ExpirePasswordErr(r)
  PROVE  Moves(r, {"Expire"}, {"Compare"}) /\ Keeps(r)
<1>1. PICK label \in Labels : GoTo(r, label) /\ label \in {"Compare"}
  BY DEF ExpirePasswordErr, Labels
<1>2. request[r].pc \in {"Expire"}
  BY Fields DEF ExpirePasswordErr
<1> QED
  BY <1>1, <1>2, GoToTyped DEF Moves, Keeps

LEMMA WrongPasswordMoves ==
  ASSUME Typed, NEW r \in Requests, WrongPassword(r)
  PROVE  Moves(r, {"Compare"}, {"Done"}) /\ Keeps(r)
<1>1. PICK label \in Labels : GoTo(r, label) /\ label \in {"Done"}
  BY DEF WrongPassword, Labels
<1>2. request[r].pc \in {"Compare"}
  BY Fields DEF WrongPassword
<1> QED
  BY <1>1, <1>2, GoToTyped DEF Moves, Keeps

LEMMA RightPasswordMoves ==
  ASSUME Typed, NEW r \in Requests, RightPassword(r)
  PROVE  Moves(r, {"Compare"}, {"SetToken"}) /\ Keeps(r)
<1>1. PICK label \in Labels : GoTo(r, label) /\ label \in {"SetToken"}
  BY DEF RightPassword, Labels
<1>2. request[r].pc \in {"Compare"}
  BY Fields DEF RightPassword
<1> QED
  BY <1>1, <1>2, GoToTyped DEF Moves, Keeps

LEMMA SetUserTokenMoves ==
  ASSUME Typed, NEW r \in Requests, SetUserToken(r)
  PROVE  Moves(r, {"SetToken"}, {"SetMap"}) /\ Keeps(r)
<1>1. PICK label \in Labels : GoTo(r, label) /\ label \in {"SetMap"}
  BY DEF SetUserToken, Labels
<1>2. request[r].pc \in {"SetToken"}
  BY Fields DEF SetUserToken
<1> QED
  BY <1>1, <1>2, GoToTyped DEF Moves, Keeps

LEMMA SetUserMapMoves ==
  ASSUME Typed, NEW r \in Requests, SetUserMap(r)
  PROVE  Moves(r, {"SetMap"}, {"Done"}) /\ Keeps(r)
<1>1. PICK label \in Labels : GoTo(r, label) /\ label \in {"Done"}
  BY DEF SetUserMap, Labels
<1>2. request[r].pc \in {"SetMap"}
  BY Fields DEF SetUserMap
<1> QED
  BY <1>1, <1>2, GoToTyped DEF Moves, Keeps

LEMMA UpdateUserPasswordMoves ==
  ASSUME Typed, NEW r \in Requests, UpdateUserPassword(r)
  PROVE  Moves(r, {"Update"}, {"GetMap"}) /\ Keeps(r)
<1>1. PICK label \in Labels : GoTo(r, label) /\ label \in {"GetMap"}
  BY DEF UpdateUserPassword, Labels
<1>2. request[r].pc \in {"Update"}
  BY Fields DEF UpdateUserPassword
<1> QED
  BY <1>1, <1>2, GoToTyped DEF Moves, Keeps

LEMMA GetNewestTokenMoves ==
  ASSUME Typed, NEW r \in Requests, GetNewestToken(r)
  PROVE  Moves(r, {"GetMap"}, {"Done", "Clean"})
BY GetNewestTokenTyped DEF GetNewestToken, Moves

LEMMA CleanUserTokenMoves ==
  ASSUME Typed, NEW r \in Requests, CleanUserToken(r)
  PROVE  Moves(r, {"Clean"}, {"Done"}) /\ Keeps(r)
<1>1. PICK label \in Labels : GoTo(r, label) /\ label \in {"Done"}
  BY DEF CleanUserToken, Labels
<1>2. request[r].pc \in {"Clean"}
  BY Fields DEF CleanUserToken
<1> QED
  BY <1>1, <1>2, GoToTyped DEF Moves, Keeps

LEMMA UpdateCustomerUserMoves ==
  ASSUME Typed, NEW r \in Requests, NEW u \in Users, UpdateCustomerUser(r, u)
  PROVE  Moves(r, {"Idle"}, {"Done"}) /\ Keeps(r)
<1>1. PICK label \in Labels : GoTo(r, label) /\ label \in {"Done"}
  BY DEF UpdateCustomerUser, Labels
<1>2. request[r].pc \in {"Idle"}
  BY Fields DEF UpdateCustomerUser
<1> QED
  BY <1>1, <1>2, GoToTyped DEF Moves, Keeps

LEMMA StopMoves ==
  ASSUME Typed, NEW r \in Requests, Stop(r)
  PROVE  Moves(r, Labels \ {"Idle", "Done"}, {"Done"}) /\ Keeps(r)
<1>1. PICK label \in Labels : GoTo(r, label) /\ label \in {"Done"}
  BY DEF Stop, Labels
<1>2. request[r].pc \in Labels \ {"Idle", "Done"}
  BY Fields DEF Stop
<1> QED
  BY <1>1, <1>2, GoToTyped DEF Moves, Keeps

LEMMA TypeStep == Typed /\ NextCases => Typed'
<1> SUFFICES ASSUME Typed, NextCases PROVE Typed'
  OBVIOUS
<1> USE LoginAssumption
<1>1. ASSUME NEW r \in Requests, NEW k \in Keys, GetCaptchaKey(r, k) PROVE Typed'
  <2>1. Use(r, "Captcha", None, None, k, "DelKey") /\ k \in Ids \cup Keys
    BY <1>1 DEF GetCaptchaKey, Typed, TypeOK, Scenes, Scene
  <2>6. /\ "Captcha" \in Calls
        /\ "CodeLogin" \in Calls
        /\ "Reset" \in Calls
        /\ "DelKey" \in Labels
    BY DEF Calls, Labels
  <2>7. /\ "Captcha" \in Calls
        /\ None \in Mobiles \cup {None}
        /\ None \in Passwords \cup {None}
        /\ k \in Ids \cup Keys
    BY <1>1, <2>1, <2>6
  <2>8. /\ request' \in [Requests -> Request]
        /\ \A q \in Requests : q # r => request'[q] = request[q]
        /\ request[r].pc = "Idle" /\ request'[r].pc = "DelKey"
        /\ request'[r].call = "Captcha" /\ request'[r].mobile = None /\ request'[r].held = k
        /\ uses' \in [Ids \cup Keys -> Nat]
        /\ shared' \subseteq Ids \cup Keys
    BY <1>1, <2>1, <2>6, <2>7, UseTyped, Zenon
  <2>2. /\ request' \in [Requests -> Request]
        /\ \A q \in Requests : q # r => request'[q] = request[q]
        /\ request'[r].pc = "DelKey"
        /\ request'[r].held \in Keys
        /\ uses' \in [Ids \cup Keys -> Nat] /\ shared' \subseteq Ids \cup Keys
    BY <1>1, <2>1, <2>8
  <2>4. UNCHANGED <<keys, tickets, code, limit, errs, errTTL, session, newest, owner,
                    enabled, password, faults, awaited, wrong, strays, doomed>>
    BY <1>1 DEF GetCaptchaKey, onceVars, errVars, tokenVars, userVars
  <2>5. Shape'
    BY <2>2 DEF Typed, Shape, ShapeOf, HasMobile, HasUser, Labels
  <2> QED
    BY <2>2, <2>4, <2>5 DEF Typed, TypeOK
<1>2. ASSUME NEW r \in Requests, DelCaptchaKey(r) PROVE Typed'
  <2>1. Moves(r, {"DelKey"}, {"SetTicket", "Done"}) /\ Keeps(r)
    BY <1>2, DelCaptchaKeyMoves
  <2>3. request[r].pc \in {"DelKey"} /\ ShapeOf(r)
    BY <2>1, Fields DEF Moves
  <2>4. /\ r \in Ids
        /\ request[r].held \in Ids \cup Keys \cup {None}
        /\ request[r].typed \in Passwords \cup {None}
    BY <2>3, Fields DEF Ids, HasMobile, HasUser, Labels
  <2>5. keys' \subseteq Keys
    BY <1>2, <2>3, <2>4, Fields DEF DelCaptchaKey, Delete, Fault, Slot, Scene, Scenes,
       Deleting, HasMobile, HasUser, Labels, Typed, TypeOK
  <2>6. shared' \subseteq Ids \cup Keys
    BY <1>2, <2>3, <2>4, Fields DEF DelCaptchaKey, Delete, Fault, Slot, Scene, Scenes,
       Deleting, HasMobile, HasUser, Labels, Typed, TypeOK
  <2>7. faults' \in 0 .. MaxFaults
    BY <1>2, <2>3, <2>4, Fields DEF DelCaptchaKey, Delete, Fault, Slot, Scene, Scenes,
       Deleting, HasMobile, HasUser, Labels, Typed, TypeOK
  <2>8. UNCHANGED <<tickets, code, limit, errs, errTTL, session, newest, owner, enabled,
                    password, uses, awaited, wrong, strays, doomed>>
    BY <1>2 DEF DelCaptchaKey, Delete, Fault, onceVars, errVars, tokenVars, userVars
  <2>9. Shape'
    BY <2>1, <2>3 DEF Moves, Keeps, NoRequest, Typed, Shape, ShapeOf, HasMobile, HasUser,
       Labels
  <2> QED
    BY <2>1, <2>5, <2>6, <2>7, <2>8, <2>9 DEF Moves, Typed, TypeOK
<1>3. ASSUME NEW r \in Requests, SetCaptchaTicket(r) PROVE Typed'
  <2>1. Moves(r, {"SetTicket"}, {"Done"}) /\ Keeps(r)
    BY <1>3, SetCaptchaTicketMoves
  <2>3. request[r].pc \in {"SetTicket"} /\ ShapeOf(r)
    BY <2>1, Fields DEF Moves
  <2>4. /\ r \in Ids
        /\ request[r].held \in Ids \cup Keys \cup {None}
        /\ request[r].typed \in Passwords \cup {None}
    BY <2>3, Fields DEF Ids, HasMobile, HasUser, Labels
  <2>5. tickets' \subseteq Ids
    BY <1>3, <2>3, <2>4, Fields DEF SetCaptchaTicket, Fault, Slot, Scene, Scenes, Deleting,
       HasMobile, HasUser, Labels, Typed, TypeOK
  <2>6. UNCHANGED <<keys, code, limit, errs, errTTL, session, newest, owner, enabled,
                    password, faults, uses, shared, awaited, wrong, strays, doomed>>
    BY <1>3 DEF SetCaptchaTicket, Fault, onceVars, errVars, tokenVars, userVars
  <2>7. Shape'
    BY <2>1, <2>3 DEF Moves, Keeps, NoRequest, Typed, Shape, ShapeOf, HasMobile, HasUser,
       Labels
  <2> QED
    BY <2>1, <2>5, <2>6, <2>7 DEF Moves, Typed, TypeOK
<1>4. ASSUME NEW r \in Requests, NEW c \in Calls, NEW m \in Mobiles,
             NEW p \in Passwords \cup {None}, NEW t \in Ids,
             c \in {"SmsRegister", "SmsLogin", "SmsReset", "PasswordLogin"}, GetCaptchaTicket(r, c, m, p, t)
             PROVE  Typed'
  <2>1. Use(r, c, m, p, t, "DelTicket") /\ t \in Ids \cup Keys
    BY <1>4 DEF GetCaptchaTicket, Typed, TypeOK, Scenes, Scene
  <2>6. /\ "Captcha" \in Calls
        /\ "CodeLogin" \in Calls
        /\ "Reset" \in Calls
        /\ "DelTicket" \in Labels
    BY DEF Calls, Labels
  <2>7. /\ c \in Calls /\ m \in Mobiles \cup {None} /\ p \in Passwords \cup {None}
        /\ t \in Ids \cup Keys
    BY <1>4, <2>1, <2>6
  <2>8. /\ request' \in [Requests -> Request]
        /\ \A q \in Requests : q # r => request'[q] = request[q]
        /\ request[r].pc = "Idle" /\ request'[r].pc = "DelTicket"
        /\ request'[r].call = c /\ request'[r].mobile = m /\ request'[r].held = t
        /\ uses' \in [Ids \cup Keys -> Nat]
        /\ shared' \subseteq Ids \cup Keys
    BY <1>4, <2>1, <2>6, <2>7, UseTyped, Zenon
  <2>2. /\ request' \in [Requests -> Request]
        /\ \A q \in Requests : q # r => request'[q] = request[q]
        /\ request'[r].pc = "DelTicket"
        /\ request'[r].held \in Ids /\ request'[r].mobile \in Mobiles
        /\ uses' \in [Ids \cup Keys -> Nat] /\ shared' \subseteq Ids \cup Keys
    BY <1>4, <2>1, <2>8
  <2>4. UNCHANGED <<keys, tickets, code, limit, errs, errTTL, session, newest, owner,
                    enabled, password, faults, awaited, wrong, strays, doomed>>
    BY <1>4 DEF GetCaptchaTicket, onceVars, errVars, tokenVars, userVars
  <2>5. Shape'
    BY <2>2 DEF Typed, Shape, ShapeOf, HasMobile, HasUser, Labels
  <2> QED
    BY <2>2, <2>4, <2>5 DEF Typed, TypeOK
<1>5. ASSUME NEW r \in Requests, DelCaptchaTicket(r) PROVE Typed'
  <2>1. Moves(r, {"DelTicket"}, {"Find", "Limit"}) /\ Keeps(r)
    BY <1>5, DelCaptchaTicketMoves
  <2>2. request'[r].pc = "Find" => Is(r, "PasswordLogin")
    BY <1>5, GoToTyped DEF DelCaptchaTicket, Labels
  <2>3. request[r].pc \in {"DelTicket"} /\ ShapeOf(r)
    BY <2>1, Fields DEF Moves
  <2>4. /\ r \in Ids
        /\ request[r].held \in Ids \cup Keys \cup {None}
        /\ request[r].typed \in Passwords \cup {None}
        /\ request[r].mobile \in Mobiles
        /\ request[r].held \in Ids
    BY <2>3, Fields DEF Ids, HasMobile, HasUser, Labels
  <2>5. tickets' \subseteq Ids
    BY <1>5, <2>3, <2>4, Fields DEF DelCaptchaTicket, Delete, Fault, Slot, Scene, Scenes,
       Deleting, HasMobile, HasUser, Labels, Typed, TypeOK
  <2>6. shared' \subseteq Ids \cup Keys
    BY <1>5, <2>3, <2>4, Fields DEF DelCaptchaTicket, Delete, Fault, Slot, Scene, Scenes,
       Deleting, HasMobile, HasUser, Labels, Typed, TypeOK
  <2>7. faults' \in 0 .. MaxFaults
    BY <1>5, <2>3, <2>4, Fields DEF DelCaptchaTicket, Delete, Fault, Slot, Scene, Scenes,
       Deleting, HasMobile, HasUser, Labels, Typed, TypeOK
  <2>8. UNCHANGED <<keys, code, limit, errs, errTTL, session, newest, owner, enabled,
                    password, uses, awaited, wrong, strays, doomed>>
    BY <1>5 DEF DelCaptchaTicket, Delete, Fault, onceVars, errVars, tokenVars, userVars
  <2>9. Shape'
    BY <2>1, <2>2, <2>3 DEF Moves, Keeps, NoRequest, Typed, Shape, ShapeOf, HasMobile,
       HasUser, Labels
  <2> QED
    BY <2>1, <2>5, <2>6, <2>7, <2>8, <2>9 DEF Moves, Typed, TypeOK
<1>6. ASSUME NEW r \in Requests, CheckSmsLimited(r) PROVE Typed'
  <2>1. Moves(r, {"Limit"}, {"Send", "Registered"}) /\ Keeps(r)
    BY <1>6, CheckSmsLimitedMoves
  <2>3. request[r].pc \in {"Limit"} /\ ShapeOf(r)
    BY <2>1, Fields DEF Moves
  <2>4. /\ r \in Ids
        /\ request[r].held \in Ids \cup Keys \cup {None}
        /\ request[r].typed \in Passwords \cup {None}
        /\ request[r].mobile \in Mobiles
    BY <2>3, Fields DEF Ids, HasMobile, HasUser, Labels
  <2>5. limit' \in [Mobiles \cup {Ip} -> Nat]
    BY <1>6, <2>3, <2>4, Fields DEF CheckSmsLimited, Fault, Slot, Scene, Scenes, Deleting,
       HasMobile, HasUser, Labels, Typed, TypeOK
  <2>6. UNCHANGED <<keys, tickets, code, errs, errTTL, session, newest, owner, enabled,
                    password, faults, uses, shared, awaited, wrong, strays, doomed>>
    BY <1>6 DEF CheckSmsLimited, Fault, onceVars, errVars, tokenVars, userVars
  <2>7. Shape'
    BY <2>1, <2>3 DEF Moves, Keeps, NoRequest, Typed, Shape, ShapeOf, HasMobile, HasUser,
       Labels
  <2> QED
    BY <2>1, <2>5, <2>6, <2>7 DEF Moves, Typed, TypeOK
<1>7. ASSUME NEW r \in Requests, CheckRegistered(r) PROVE Typed'
  <2>1. Moves(r, {"Registered"}, {"Send", "Done"}) /\ Keeps(r)
    BY <1>7, CheckRegisteredMoves
  <2>3. request[r].pc \in {"Registered"} /\ ShapeOf(r)
    BY <2>1, Fields DEF Moves
  <2>5. UNCHANGED <<keys, tickets, code, limit, errs, errTTL, session, newest, owner,
                    enabled, password, faults, uses, shared, awaited, wrong, strays, doomed>>
    BY <1>7 DEF CheckRegistered, Fault, onceVars, errVars, tokenVars, userVars
  <2>6. Shape'
    BY <2>1, <2>3 DEF Moves, Keeps, NoRequest, Typed, Shape, ShapeOf, HasMobile, HasUser,
       Labels
  <2> QED
    BY <2>1, <2>5, <2>6 DEF Moves, Typed, TypeOK
<1>8. ASSUME NEW r \in Requests, SendLarkMsg(r) PROVE Typed'
  <2>1. Moves(r, {"Send"}, {"SetCode"}) /\ Keeps(r)
    BY <1>8, SendLarkMsgMoves
  <2>3. request[r].pc \in {"Send"} /\ ShapeOf(r)
    BY <2>1, Fields DEF Moves
  <2>5. UNCHANGED <<keys, tickets, code, limit, errs, errTTL, session, newest, owner,
                    enabled, password, faults, uses, shared, awaited, wrong, strays, doomed>>
    BY <1>8 DEF SendLarkMsg, Fault, onceVars, errVars, tokenVars, userVars
  <2>6. Shape'
    BY <2>1, <2>3 DEF Moves, Keeps, NoRequest, Typed, Shape, ShapeOf, HasMobile, HasUser,
       Labels
  <2> QED
    BY <2>1, <2>5, <2>6 DEF Moves, Typed, TypeOK
<1>9. ASSUME NEW r \in Requests, SetVerifyCode(r) PROVE Typed'
  <2>1. Moves(r, {"SetCode"}, {"Done"}) /\ Keeps(r)
    BY <1>9, SetVerifyCodeMoves
  <2>3. request[r].pc \in {"SetCode"} /\ ShapeOf(r)
    BY <2>1, Fields DEF Moves
  <2>4. /\ r \in Ids
        /\ request[r].held \in Ids \cup Keys \cup {None}
        /\ request[r].typed \in Passwords \cup {None}
        /\ request[r].mobile \in Mobiles
    BY <2>3, Fields DEF Ids, HasMobile, HasUser, Labels
  <2>5. Slot(r) \in Mobiles \X Scenes
    BY <2>4 DEF Slot, Scene, Scenes
  <2>6. code' \in [Mobiles \X Scenes -> Ids \cup {None}]
    BY <1>9, <2>4, <2>5 DEF SetVerifyCode, Delete, Typed, TypeOK
  <2>7. Slot(r) \in Mobiles \X Scenes
    BY <2>4 DEF Slot, Scene, Scenes
  <2>8. awaited' \in [Mobiles \X Scenes -> Ids \cup {None}]
    BY <1>9, <2>4, <2>7 DEF SetVerifyCode, Delete, Typed, TypeOK
  <2>9. shared' \subseteq Ids \cup Keys
    BY <1>9, <2>3, <2>4, Fields DEF SetVerifyCode, Slot, Fault, Slot, Scene, Scenes,
       Deleting, HasMobile, HasUser, Labels, Typed, TypeOK
  <2>10. UNCHANGED <<keys, tickets, limit, errs, errTTL, session, newest, owner, enabled,
                     password, faults, uses, wrong, strays, doomed>>
    BY <1>9 DEF SetVerifyCode, Slot, Fault, onceVars, errVars, tokenVars, userVars
  <2>11. Shape'
    BY <2>1, <2>3 DEF Moves, Keeps, NoRequest, Typed, Shape, ShapeOf, HasMobile, HasUser,
       Labels
  <2> QED
    BY <2>1, <2>6, <2>8, <2>9, <2>10, <2>11 DEF Moves, Typed, TypeOK
<1>10. ASSUME NEW r \in Requests, NEW c \in {"CodeLogin", "Reset"}, NEW m \in Mobiles,
              NEW p \in Passwords \cup {None}, CheckSmsVerifyCode(r, c, m, p)
       PROVE  Typed'
  <2>1. Use(r, c, m, p, code[<<m, Scene(c)>>], "DelCode") /\ code[<<m, Scene(c)>>] \in Ids
    BY <1>10 DEF CheckSmsVerifyCode, Typed, TypeOK, Scenes, Scene
  <2>6. /\ "Captcha" \in Calls
        /\ "CodeLogin" \in Calls
        /\ "Reset" \in Calls
        /\ "DelCode" \in Labels
    BY DEF Calls, Labels
  <2>7. /\ c \in Calls /\ m \in Mobiles \cup {None} /\ p \in Passwords \cup {None}
        /\ code[<<m, Scene(c)>>] \in Ids \cup Keys
    BY <1>10, <2>1, <2>6
  <2>8. /\ request' \in [Requests -> Request]
        /\ \A q \in Requests : q # r => request'[q] = request[q]
        /\ request[r].pc = "Idle" /\ request'[r].pc = "DelCode"
        /\ request'[r].call = c /\ request'[r].mobile = m /\ request'[r].held = code[<<m, Scene(c)>>]
        /\ uses' \in [Ids \cup Keys -> Nat]
        /\ shared' \subseteq Ids \cup Keys
    BY <1>10, <2>1, <2>6, <2>7, UseTyped, Zenon
  <2>2. /\ request' \in [Requests -> Request]
        /\ \A q \in Requests : q # r => request'[q] = request[q]
        /\ request'[r].pc = "DelCode"
        /\ request'[r].held \in Ids
        /\ request'[r].mobile \in Mobiles
        /\ request'[r].call = c
        /\ uses' \in [Ids \cup Keys -> Nat] /\ shared' \subseteq Ids \cup Keys
    BY <1>10, <2>1, <2>8
  <2>3. awaited' \in [Mobiles \X Scenes -> Ids \cup {None}]
    BY <1>10 DEF CheckSmsVerifyCode, Typed, TypeOK
  <2>4. UNCHANGED <<keys, tickets, code, limit, errs, errTTL, session, newest, owner,
                    enabled, password, faults, wrong, strays, doomed>>
    BY <1>10 DEF CheckSmsVerifyCode, onceVars, errVars, tokenVars, userVars
  <2>5. Shape'
    BY <2>2 DEF Typed, Shape, ShapeOf, HasMobile, HasUser, Labels
  <2> QED
    BY <2>2, <2>3, <2>4, <2>5 DEF Typed, TypeOK
<1>11. ASSUME NEW r \in Requests, DelVerifyCode(r) PROVE Typed'
  <2>1. Moves(r, {"DelCode"}, {"Find", "Done"}) /\ Keeps(r)
    BY <1>11, DelVerifyCodeMoves
  <2>3. request[r].pc \in {"DelCode"} /\ ShapeOf(r)
    BY <2>1, Fields DEF Moves
  <2>4. /\ r \in Ids
        /\ request[r].held \in Ids \cup Keys \cup {None}
        /\ request[r].typed \in Passwords \cup {None}
        /\ request[r].mobile \in Mobiles
        /\ request[r].held \in Ids
    BY <2>3, Fields DEF Ids, HasMobile, HasUser, Labels
  <2>5. Slot(r) \in Mobiles \X Scenes
    BY <2>4 DEF Slot, Scene, Scenes
  <2>6. code' \in [Mobiles \X Scenes -> Ids \cup {None}]
    BY <1>11, <2>4, <2>5 DEF DelVerifyCode, Delete, Typed, TypeOK
  <2>7. shared' \subseteq Ids \cup Keys
    BY <1>11, <2>3, <2>4, Fields DEF DelVerifyCode, Delete, Slot, Fault, Slot, Scene,
       Scenes, Deleting, HasMobile, HasUser, Labels, Typed, TypeOK
  <2>8. faults' \in 0 .. MaxFaults
    BY <1>11, <2>3, <2>4, Fields DEF DelVerifyCode, Delete, Slot, Fault, Slot, Scene,
       Scenes, Deleting, HasMobile, HasUser, Labels, Typed, TypeOK
  <2>9. UNCHANGED <<keys, tickets, limit, errs, errTTL, session, newest, owner, enabled,
                    password, uses, awaited, wrong, strays, doomed>>
    BY <1>11 DEF DelVerifyCode, Delete, Slot, Fault, onceVars, errVars, tokenVars, userVars
  <2>10. Shape'
    BY <2>1, <2>3 DEF Moves, Keeps, NoRequest, Typed, Shape, ShapeOf, HasMobile, HasUser,
       Labels
  <2> QED
    BY <2>1, <2>6, <2>7, <2>8, <2>9, <2>10 DEF Moves, Typed, TypeOK
<1>12. ASSUME NEW r \in Requests, GetUserByMobile(r) PROVE Typed'
  <2>1. /\ request' \in [Requests -> Request]
        /\ \A q \in Requests : q # r => request'[q] = request[q]
        /\ ShapeOf(r)'
    BY <1>12, GetUserByMobileTyped
  <2>3. UNCHANGED <<keys, tickets, code, limit, errs, errTTL, session, newest, owner,
                    enabled, password, faults, uses, shared, awaited, wrong, strays, doomed>>
    BY <1>12 DEF GetUserByMobile, onceVars, errVars, tokenVars, userVars
  <2>4. Shape'
    BY <2>1 DEF Typed, Shape, ShapeOf
  <2> QED
    BY <2>1, <2>3, <2>4 DEF Typed, TypeOK
<1>13. ASSUME NEW r \in Requests, NEW u \in Users, MobileCreateUser(r, u) PROVE Typed'
  <2>1. /\ request' \in [Requests -> Request]
        /\ \A q \in Requests : q # r => request'[q] = request[q]
        /\ ShapeOf(r)'
    BY <1>13, MobileCreateUserTyped
  <2>2. owner' \in [Users -> Mobiles \cup {None}]
    BY <1>13, Fields DEF MobileCreateUser, Typed, TypeOK
  <2>3. UNCHANGED <<keys, tickets, code, limit, errs, errTTL, session, newest, enabled,
                    password, faults, uses, shared, awaited, wrong, strays, doomed>>
    BY <1>13 DEF MobileCreateUser, onceVars, errVars, tokenVars, userVars
  <2>4. Shape'
    BY <2>1 DEF Typed, Shape, ShapeOf
  <2> QED
    BY <2>1, <2>2, <2>3, <2>4 DEF Typed, TypeOK
<1>14. ASSUME NEW r \in Requests, GetUserByID(r) PROVE Typed'
  <2>1. /\ request' \in [Requests -> Request]
        /\ \A q \in Requests : q # r => request'[q] = request[q]
        /\ ShapeOf(r)'
    BY <1>14, GetUserByIDTyped
  <2>3. UNCHANGED <<keys, tickets, code, limit, errs, errTTL, session, newest, owner,
                    enabled, password, faults, uses, shared, awaited, wrong, strays, doomed>>
    BY <1>14 DEF GetUserByID, onceVars, errVars, tokenVars, userVars
  <2>4. Shape'
    BY <2>1 DEF Typed, Shape, ShapeOf
  <2> QED
    BY <2>1, <2>3, <2>4 DEF Typed, TypeOK
<1>15. ASSUME NEW r \in Requests, IncrPasswordErr(r) PROVE Typed'
  <2>1. Moves(r, {"Incr"}, {"Expire", "Done", "Compare"}) /\ Keeps(r)
    BY <1>15, IncrPasswordErrMoves
  <2>3. request[r].pc \in {"Incr"} /\ ShapeOf(r)
    BY <2>1, Fields DEF Moves
  <2>4. /\ r \in Ids
        /\ request[r].held \in Ids \cup Keys \cup {None}
        /\ request[r].typed \in Passwords \cup {None}
        /\ request[r].mobile \in Mobiles
        /\ request[r].user \in Users
    BY <2>3, Fields DEF Ids, HasMobile, HasUser, Labels
  <2>5. errs' \in [Mobiles -> Nat]
    BY <1>15, <2>3, <2>4, Fields DEF IncrPasswordErr, Fault, Slot, Scene, Scenes, Deleting,
       HasMobile, HasUser, Labels, Typed, TypeOK
  <2>6. UNCHANGED <<keys, tickets, code, limit, errTTL, session, newest, owner, enabled,
                    password, faults, uses, shared, awaited, wrong, strays, doomed>>
    BY <1>15 DEF IncrPasswordErr, Fault, onceVars, errVars, tokenVars, userVars
  <2>7. Shape'
    BY <2>1, <2>3 DEF Moves, Keeps, NoRequest, Typed, Shape, ShapeOf, HasMobile, HasUser,
       Labels
  <2> QED
    BY <2>1, <2>5, <2>6, <2>7 DEF Moves, Typed, TypeOK
<1>16. ASSUME NEW r \in Requests, ExpirePasswordErr(r) PROVE Typed'
  <2>1. Moves(r, {"Expire"}, {"Compare"}) /\ Keeps(r)
    BY <1>16, ExpirePasswordErrMoves
  <2>3. request[r].pc \in {"Expire"} /\ ShapeOf(r)
    BY <2>1, Fields DEF Moves
  <2>4. /\ r \in Ids
        /\ request[r].held \in Ids \cup Keys \cup {None}
        /\ request[r].typed \in Passwords \cup {None}
        /\ request[r].mobile \in Mobiles
        /\ request[r].user \in Users
    BY <2>3, Fields DEF Ids, HasMobile, HasUser, Labels
  <2>5. errTTL' \in [Mobiles -> BOOLEAN] /\ faults' \in 0 .. MaxFaults
    <3>1. CASE errTTL' = [errTTL EXCEPT ![request[r].mobile] = errs[request[r].mobile] > 0] /\ UNCHANGED faults
      BY <2>4, <3>1 DEF Typed, TypeOK
    <3>2. CASE Fault /\ UNCHANGED errTTL
      BY <3>2, LoginAssumption DEF Fault, errVars, Typed, TypeOK
    <3> QED
      BY <1>16, <3>1, <3>2 DEF ExpirePasswordErr
  <2>6. UNCHANGED <<keys, tickets, code, limit, errs, session, newest, owner, enabled,
                    password, uses, shared, awaited, wrong, strays, doomed>>
    BY <1>16 DEF ExpirePasswordErr, Fault, onceVars, errVars, tokenVars, userVars
  <2>7. Shape'
    BY <2>1, <2>3 DEF Moves, Keeps, NoRequest, Typed, Shape, ShapeOf, HasMobile, HasUser,
       Labels
  <2> QED
    BY <2>1, <2>5, <2>6, <2>7 DEF Moves, Typed, TypeOK
<1>17. ASSUME NEW r \in Requests, WrongPassword(r) PROVE Typed'
  <2>1. Moves(r, {"Compare"}, {"Done"}) /\ Keeps(r)
    BY <1>17, WrongPasswordMoves
  <2>3. request[r].pc \in {"Compare"} /\ ShapeOf(r)
    BY <2>1, Fields DEF Moves
  <2>4. /\ r \in Ids
        /\ request[r].held \in Ids \cup Keys \cup {None}
        /\ request[r].typed \in Passwords \cup {None}
        /\ request[r].mobile \in Mobiles
        /\ request[r].user \in Users
    BY <2>3, Fields DEF Ids, HasMobile, HasUser, Labels
  <2>5. wrong' \in [Mobiles -> Nat]
    BY <1>17, <2>3, <2>4, Fields DEF WrongPassword, Fault, Slot, Scene, Scenes, Deleting,
       HasMobile, HasUser, Labels, Typed, TypeOK
  <2>6. strays' \subseteq Requests
    BY <1>17, <2>3, <2>4, Fields DEF WrongPassword, Fault, Slot, Scene, Scenes, Deleting,
       HasMobile, HasUser, Labels, Typed, TypeOK
  <2>7. UNCHANGED <<keys, tickets, code, limit, errs, errTTL, session, newest, owner,
                    enabled, password, faults, uses, shared, awaited, doomed>>
    BY <1>17 DEF WrongPassword, Fault, onceVars, errVars, tokenVars, userVars
  <2>8. Shape'
    BY <2>1, <2>3 DEF Moves, Keeps, NoRequest, Typed, Shape, ShapeOf, HasMobile, HasUser,
       Labels
  <2> QED
    BY <2>1, <2>5, <2>6, <2>7, <2>8 DEF Moves, Typed, TypeOK
<1>18. ASSUME NEW r \in Requests, RightPassword(r) PROVE Typed'
  <2>1. Moves(r, {"Compare"}, {"SetToken"}) /\ Keeps(r)
    BY <1>18, RightPasswordMoves
  <2>3. request[r].pc \in {"Compare"} /\ ShapeOf(r)
    BY <2>1, Fields DEF Moves
  <2>4. /\ r \in Ids
        /\ request[r].held \in Ids \cup Keys \cup {None}
        /\ request[r].typed \in Passwords \cup {None}
        /\ request[r].mobile \in Mobiles
        /\ request[r].user \in Users
    BY <2>3, Fields DEF Ids, HasMobile, HasUser, Labels
  <2>5. /\ errs' \in [Mobiles -> Nat]
        /\ errTTL' \in [Mobiles -> BOOLEAN]
        /\ wrong' \in [Mobiles -> Nat]
        /\ strays' \subseteq Requests
        /\ faults' \in 0 .. MaxFaults
    <3>1. CASE Forget(request[r].mobile, Counted(request[r].mobile) \ {r}) /\ UNCHANGED faults
      BY <2>4, <3>1 DEF Forget, Counted, Typed, TypeOK
    <3>2. CASE Fault /\ UNCHANGED errVars
      BY <3>2, LoginAssumption DEF Fault, errVars, Typed, TypeOK
    <3> QED
      BY <1>18, <3>1, <3>2 DEF RightPassword
  <2>6. UNCHANGED <<keys, tickets, code, limit, session, newest, owner, enabled, password,
                    uses, shared, awaited, doomed>>
    BY <1>18 DEF RightPassword, Forget, Counted, Fault, onceVars, errVars, tokenVars,
       userVars
  <2>7. Shape'
    BY <2>1, <2>3 DEF Moves, Keeps, NoRequest, Typed, Shape, ShapeOf, HasMobile, HasUser,
       Labels
  <2> QED
    BY <2>1, <2>5, <2>6, <2>7 DEF Moves, Typed, TypeOK
<1>19. ASSUME NEW r \in Requests, SetUserToken(r) PROVE Typed'
  <2>1. Moves(r, {"SetToken"}, {"SetMap"}) /\ Keeps(r)
    BY <1>19, SetUserTokenMoves
  <2>3. request[r].pc \in {"SetToken"} /\ ShapeOf(r)
    BY <2>1, Fields DEF Moves
  <2>4. /\ r \in Ids
        /\ request[r].held \in Ids \cup Keys \cup {None}
        /\ request[r].typed \in Passwords \cup {None}
        /\ request[r].mobile \in Mobiles
        /\ request[r].user \in Users
    BY <2>3, Fields DEF Ids, HasMobile, HasUser, Labels
  <2>5. session' \in [Ids -> Users \cup {None}]
    BY <1>19, <2>3, <2>4, Fields DEF SetUserToken, Fault, Slot, Scene, Scenes, Deleting,
       HasMobile, HasUser, Labels, Typed, TypeOK
  <2>6. UNCHANGED <<keys, tickets, code, limit, errs, errTTL, newest, owner, enabled,
                    password, faults, uses, shared, awaited, wrong, strays, doomed>>
    BY <1>19 DEF SetUserToken, Fault, onceVars, errVars, tokenVars, userVars
  <2>7. Shape'
    BY <2>1, <2>3 DEF Moves, Keeps, NoRequest, Typed, Shape, ShapeOf, HasMobile, HasUser,
       Labels
  <2> QED
    BY <2>1, <2>5, <2>6, <2>7 DEF Moves, Typed, TypeOK
<1>20. ASSUME NEW r \in Requests, SetUserMap(r) PROVE Typed'
  <2>1. Moves(r, {"SetMap"}, {"Done"}) /\ Keeps(r)
    BY <1>20, SetUserMapMoves
  <2>3. request[r].pc \in {"SetMap"} /\ ShapeOf(r)
    BY <2>1, Fields DEF Moves
  <2>4. /\ r \in Ids
        /\ request[r].held \in Ids \cup Keys \cup {None}
        /\ request[r].typed \in Passwords \cup {None}
        /\ request[r].mobile \in Mobiles
        /\ request[r].user \in Users
    BY <2>3, Fields DEF Ids, HasMobile, HasUser, Labels
  <2>5. newest' \in [Users -> Ids \cup {None}]
    BY <1>20, <2>3, <2>4, Fields DEF SetUserMap, Fault, Slot, Scene, Scenes, Deleting,
       HasMobile, HasUser, Labels, Typed, TypeOK
  <2>6. doomed' \subseteq Ids
    BY <1>20, <2>3, <2>4, Fields DEF SetUserMap, Fault, Slot, Scene, Scenes, Deleting,
       HasMobile, HasUser, Labels, Typed, TypeOK
  <2>7. UNCHANGED <<keys, tickets, code, limit, errs, errTTL, session, owner, enabled,
                    password, faults, uses, shared, awaited, wrong, strays>>
    BY <1>20 DEF SetUserMap, Fault, onceVars, errVars, tokenVars, userVars
  <2>8. Shape'
    BY <2>1, <2>3 DEF Moves, Keeps, NoRequest, Typed, Shape, ShapeOf, HasMobile, HasUser,
       Labels
  <2> QED
    BY <2>1, <2>5, <2>6, <2>7, <2>8 DEF Moves, Typed, TypeOK
<1>21. ASSUME NEW r \in Requests, UpdateUserPassword(r) PROVE Typed'
  <2>1. Moves(r, {"Update"}, {"GetMap"}) /\ Keeps(r)
    BY <1>21, UpdateUserPasswordMoves
  <2>3. request[r].pc \in {"Update"} /\ ShapeOf(r)
    BY <2>1, Fields DEF Moves
  <2>4. /\ r \in Ids
        /\ request[r].held \in Ids \cup Keys \cup {None}
        /\ request[r].typed \in Passwords \cup {None}
        /\ request[r].mobile \in Mobiles
        /\ request[r].user \in Users
    BY <2>3, Fields DEF Ids, HasMobile, HasUser, Labels
  <2>5. newest[request[r].user] \in Ids \cup {None}
    BY <2>4 DEF Typed, TypeOK
  <2>6. doomed' \subseteq Ids
    BY <1>21, <2>5 DEF UpdateUserPassword, Typed, TypeOK
  <2>7. password' \in [Users -> Passwords \cup {None}]
    BY <1>21, <2>3, <2>4, Fields DEF UpdateUserPassword, Fault, Slot, Scene, Scenes,
       Deleting, HasMobile, HasUser, Labels, Typed, TypeOK
  <2>8. UNCHANGED <<keys, tickets, code, limit, errs, errTTL, session, newest, owner,
                    enabled, faults, uses, shared, awaited, wrong, strays>>
    BY <1>21 DEF UpdateUserPassword, Fault, onceVars, errVars, tokenVars, userVars
  <2>9. Shape'
    BY <2>1, <2>3 DEF Moves, Keeps, NoRequest, Typed, Shape, ShapeOf, HasMobile, HasUser,
       Labels
  <2> QED
    BY <2>1, <2>6, <2>7, <2>8, <2>9 DEF Moves, Typed, TypeOK
<1>22. ASSUME NEW r \in Requests, GetNewestToken(r) PROVE Typed'
  <2>1. /\ request' \in [Requests -> Request]
        /\ \A q \in Requests : q # r => request'[q] = request[q]
        /\ ShapeOf(r)'
    BY <1>22, GetNewestTokenTyped
  <2>3. UNCHANGED <<keys, tickets, code, limit, errs, errTTL, session, newest, owner,
                    enabled, password, faults, uses, shared, awaited, wrong, strays, doomed>>
    BY <1>22 DEF GetNewestToken, onceVars, errVars, tokenVars, userVars
  <2>4. Shape'
    BY <2>1 DEF Typed, Shape, ShapeOf
  <2> QED
    BY <2>1, <2>3, <2>4 DEF Typed, TypeOK
<1>23. ASSUME NEW r \in Requests, CleanUserToken(r) PROVE Typed'
  <2>1. Moves(r, {"Clean"}, {"Done"}) /\ Keeps(r)
    BY <1>23, CleanUserTokenMoves
  <2>3. request[r].pc \in {"Clean"} /\ ShapeOf(r)
    BY <2>1, Fields DEF Moves
  <2>4. /\ r \in Ids
        /\ request[r].held \in Ids \cup Keys \cup {None}
        /\ request[r].typed \in Passwords \cup {None}
        /\ request[r].mobile \in Mobiles
        /\ request[r].user \in Users
        /\ request[r].held \in Ids
    BY <2>3, Fields DEF Ids, HasMobile, HasUser, Labels
  <2>5. session' \in [Ids -> Users \cup {None}]
    BY <1>23, <2>3, <2>4, Fields DEF CleanUserToken, Fault, Slot, Scene, Scenes, Deleting,
       HasMobile, HasUser, Labels, Typed, TypeOK
  <2>6. newest' \in [Users -> Ids \cup {None}]
    BY <1>23, <2>3, <2>4, Fields DEF CleanUserToken, Fault, Slot, Scene, Scenes, Deleting,
       HasMobile, HasUser, Labels, Typed, TypeOK
  <2>7. UNCHANGED <<keys, tickets, code, limit, errs, errTTL, owner, enabled, password,
                    faults, uses, shared, awaited, wrong, strays, doomed>>
    BY <1>23 DEF CleanUserToken, Fault, onceVars, errVars, tokenVars, userVars
  <2>8. Shape'
    BY <2>1, <2>3 DEF Moves, Keeps, NoRequest, Typed, Shape, ShapeOf, HasMobile, HasUser,
       Labels
  <2> QED
    BY <2>1, <2>5, <2>6, <2>7, <2>8 DEF Moves, Typed, TypeOK
<1>24. ASSUME NEW r \in Requests, NEW u \in Users, UpdateCustomerUser(r, u) PROVE Typed'
  <2>1. Moves(r, {"Idle"}, {"Done"}) /\ Keeps(r)
    BY <1>24, UpdateCustomerUserMoves
  <2>3. request[r].pc \in {"Idle"} /\ ShapeOf(r)
    BY <2>1, Fields DEF Moves
  <2>5. enabled' \in [Users -> BOOLEAN]
    BY <1>24, <2>3, Fields DEF UpdateCustomerUser, Fault, Slot, Scene, Scenes, Deleting,
       HasMobile, HasUser, Labels, Typed, TypeOK
  <2>6. UNCHANGED <<keys, tickets, code, limit, errs, errTTL, session, newest, owner,
                    password, faults, uses, shared, awaited, wrong, strays, doomed>>
    BY <1>24 DEF UpdateCustomerUser, Fault, onceVars, errVars, tokenVars, userVars
  <2>7. Shape'
    BY <2>1, <2>3 DEF Moves, Keeps, NoRequest, Typed, Shape, ShapeOf, HasMobile, HasUser,
       Labels
  <2> QED
    BY <2>1, <2>5, <2>6, <2>7 DEF Moves, Typed, TypeOK
<1>25. ASSUME NEW r \in Requests, Stop(r) PROVE Typed'
  <2>1. Moves(r, Labels \ {"Idle", "Done"}, {"Done"}) /\ Keeps(r)
    BY <1>25, StopMoves
  <2>3. request[r].pc \in Labels \ {"Idle", "Done"} /\ ShapeOf(r)
    BY <2>1, Fields DEF Moves
  <2>4. /\ r \in Ids
        /\ request[r].held \in Ids \cup Keys \cup {None}
        /\ request[r].typed \in Passwords \cup {None}
    BY <2>3, Fields DEF Ids, HasMobile, HasUser, Labels
  <2>5. shared' \subseteq Ids \cup Keys
    BY <1>25, <2>3, <2>4, Fields DEF Stop, Fault, Slot, Scene, Scenes, Deleting, HasMobile,
       HasUser, Labels, Typed, TypeOK
  <2>6. faults' \in 0 .. MaxFaults
    BY <1>25, <2>3, <2>4, Fields DEF Stop, Fault, Slot, Scene, Scenes, Deleting, HasMobile,
       HasUser, Labels, Typed, TypeOK
  <2>7. UNCHANGED <<keys, tickets, code, limit, errs, errTTL, session, newest, owner,
                    enabled, password, uses, awaited, wrong, strays, doomed>>
    BY <1>25 DEF Stop, Fault, onceVars, errVars, tokenVars, userVars
  <2>8. Shape'
    BY <2>1, <2>3 DEF Moves, Keeps, NoRequest, Typed, Shape, ShapeOf, HasMobile, HasUser,
       Labels
  <2> QED
    BY <2>1, <2>5, <2>6, <2>7, <2>8 DEF Moves, Typed, TypeOK
<1>26. ASSUME NEW slot \in Mobiles \X Scenes, CodeExpires(slot) PROVE Typed'
  <2>1. /\ code' \in [Mobiles \X Scenes -> Ids \cup {None}]
        /\ awaited' \in [Mobiles \X Scenes -> Ids \cup {None}]
    BY <1>26 DEF CodeExpires, Typed, TypeOK
  <2>2. UNCHANGED <<keys, tickets, limit, errs, errTTL, session, newest, owner, enabled,
                    password, faults, uses, shared, wrong, strays, doomed, request>>
    BY <1>26 DEF CodeExpires, vars, onceVars, errVars, tokenVars, userVars
  <2> QED
    BY <2>1, <2>2 DEF Typed, TypeOK, Shape, ShapeOf
<1>27. ASSUME NEW m \in Mobiles, PasswordErrExpires(m) PROVE Typed'
  <2>1. /\ errs' \in [Mobiles -> Nat]
        /\ errTTL' \in [Mobiles -> BOOLEAN]
        /\ wrong' \in [Mobiles -> Nat]
        /\ strays' \subseteq Requests
    BY <1>27 DEF PasswordErrExpires, Forget, Counted, Typed, TypeOK
  <2>2. UNCHANGED <<keys, tickets, code, limit, session, newest, owner, enabled, password,
                    faults, uses, shared, awaited, doomed, request>>
    BY <1>27 DEF PasswordErrExpires, Forget, Counted, vars, onceVars, errVars, tokenVars,
       userVars
  <2> QED
    BY <2>1, <2>2 DEF Typed, TypeOK, Shape, ShapeOf
<1>28. CASE UNCHANGED vars
  <2>2. UNCHANGED <<keys, tickets, code, limit, errs, errTTL, session, newest, owner,
                    enabled, password, faults, uses, shared, awaited, wrong, strays, doomed, request>>
    BY <1>28 DEF vars, vars, onceVars, errVars, tokenVars, userVars
  <2> QED
    BY <2>2 DEF Typed, TypeOK, Shape, ShapeOf
<1> HIDE LoginAssumption
<1> QED
  BY <1>1, <1>2, <1>3, <1>4, <1>5, <1>6, <1>7, <1>8, <1>9, <1>10, <1>11, <1>12, <1>13,
     <1>14, <1>15, <1>16, <1>17, <1>18, <1>19, <1>20, <1>21, <1>22, <1>23, <1>24, <1>25,
        <1>26, <1>27, <1>28, SMTT(60) DEF NextCases

(* Every variable has its type, and a request holds where it is what its   *)
(* next step uses: a mobile, the account it has read, what it will delete. *)
LEMMA InitTyped == Init => Typed
<1> SUFFICES ASSUME Init PROVE Typed
  OBVIOUS
<1> USE LoginAssumption
<1>1. code \in [Mobiles \X Scenes -> Ids \cup {None}] /\ awaited = code
  <2>1. OldCodes \in [Mobiles \X Scenes -> Ids]
    BY DEF Ids
  <2> QED
    BY <2>1 DEF Init
<1>2. newest \in [Users -> Ids \cup {None}]
  <2>1. \A u \in Users : OldTokens[u] \in Ids
    BY DEF Ids
  <2> QED
    BY <2>1 DEF Init
<1>3. tickets \subseteq Ids
  BY DEF Init, Ids, Earlier
<1>4. request \in [Requests -> Request]
  BY NoRequestTyped DEF Init, Labels
<1>5. \A r \in Requests : request[r].pc = "Idle"
  BY DEF Init, NoRequest
<1> QED
  BY <1>1, <1>2, <1>3, <1>4, <1>5 DEF Init, Typed, TypeOK, Shape, ShapeOf, HasMobile,
     HasUser, Labels

THEOREM TypeCorrect == Spec => []Typed
<1>1. Init => Typed
  BY InitTyped
<1>2. Typed /\ [Next]_vars => Typed'
  BY NextIsCases, TypeStep
<1> QED
  BY <1>1, <1>2, PTL DEF Spec

-----------------------------------------------------------------------------
(* The count of wrong passwords covers the guesses already found wrong and *)
(* those that are still to be compared.                                    *)
Pending(m) == Counted(m) \ strays

Guesses(m) ==
  /\ wrong[m] + Cardinality(Pending(m)) <= errs[m]
  /\ wrong[m] + Cardinality(Pending(m)) <= MaxErr

Unlocks(m) ==
  \/ errs[m] = 0
  \/ errTTL[m]
  \/ \E r \in Counted(m) : At(r, "Expire")
  \/ faults > 0

Lockout == \A m \in Mobiles : Guesses(m) /\ Unlocks(m)

LEMMA PendingFinite ==
  ASSUME Typed, NEW m \in Mobiles
  PROVE  /\ IsFiniteSet(Pending(m))
         /\ Cardinality(Pending(m)) \in Nat
         /\ wrong[m] \in Nat /\ errs[m] \in Nat
<1>1. Pending(m) \subseteq Requests
  BY DEF Pending, Counted
<1>2. IsFiniteSet(Pending(m))
  BY <1>1, LoginAssumption, FS_Subset
<1> QED
  BY <1>2, FS_CardinalityType DEF Typed, TypeOK

LEMMA FewerGuesses ==
  ASSUME Typed, Typed', NEW m \in Mobiles, Guesses(m),
         Pending(m)' \subseteq Pending(m), wrong'[m] = wrong[m], errs'[m] >= errs[m]
  PROVE  Guesses(m)'
<1>1. Cardinality(Pending(m)') <= Cardinality(Pending(m))
  BY PendingFinite, FS_Subset
<1>2. Cardinality(Pending(m)') \in Nat
  BY PendingFinite, FS_Subset, FS_CardinalityType
<1> QED
  BY <1>1, <1>2, PendingFinite, LoginAssumption DEF Guesses, Typed, TypeOK

LEMMA NoGuesses ==
  ASSUME Typed, NEW m \in Mobiles, Pending(m)' = {}, wrong'[m] = 0, errs'[m] \in Nat
  PROVE  Guesses(m)'
BY FS_EmptySet, LoginAssumption DEF Guesses

LEMMA LockoutSame ==
  ASSUME Lockout, UNCHANGED <<errVars, request, faults>> PROVE Lockout'
BY DEF Lockout, Guesses, Unlocks, Pending, Counted, errVars

LEMMA LockoutFrame ==
  ASSUME Typed, Typed', Lockout, UNCHANGED errVars, faults' >= faults, NEW r \in Requests,
         \A q \in Requests : q # r => request'[q] = request[q],
         request[r].pc \notin {"Expire", "Compare"}, request'[r].pc \notin {"Expire", "Compare"}
  PROVE  Lockout'
<1> SUFFICES ASSUME NEW m \in Mobiles PROVE (Guesses(m) /\ Unlocks(m))'
  BY DEF Lockout
<1>1. Counted(m)' = Counted(m)
  BY DEF Counted
<1>2. Guesses(m)'
  <2>1. Pending(m)' \subseteq Pending(m)
    BY <1>1 DEF Pending, errVars
  <2>2. wrong'[m] = wrong[m] /\ errs'[m] >= errs[m]
    BY PendingFinite DEF errVars
  <2>3. Guesses(m)
    BY DEF Lockout
  <2> QED
    BY <2>1, <2>2, <2>3, FewerGuesses
<1>3. Unlocks(m)'
  <2>1. faults \in Int /\ faults' \in Int
    BY LoginAssumption DEF Typed, TypeOK
  <2>2. CASE \E q \in Counted(m) : At(q, "Expire")
    <3>1. PICK q \in Counted(m) : At(q, "Expire")
      BY <2>2
    <3>2. q # r /\ q \in Requests
      BY <3>1 DEF Counted
    <3> QED
      BY <1>1, <3>1, <3>2 DEF Unlocks
  <2> QED
    BY <2>1, <2>2 DEF Lockout, Unlocks, errVars
<1> QED
  BY <1>2, <1>3

(* A guess is counted before it is compared, in one call.                  *)
LEMMA IncrKeepsLockout ==
  ASSUME Typed, Typed', Lockout, NEW r \in Requests, IncrPasswordErr(r)
  PROVE  Lockout'
<1> DEFINE m0 == request[r].mobile
           n == errs[m0] + 1
           label == CASE n = 1 -> "Expire" [] n > MaxErr -> "Done" [] OTHER -> "Compare"
<1> USE LoginAssumption
<1>1. Moves(r, {"Incr"}, {"Expire", "Done", "Compare"}) /\ Keeps(r) /\ m0 \in Mobiles
  BY IncrPasswordErrMoves, Fields DEF IncrPasswordErr, HasMobile, Labels
<1>2. errs \in [Mobiles -> Nat] /\ errs' = [errs EXCEPT ![m0] = n]
  BY DEF Typed, TypeOK, IncrPasswordErr
<1>3. n \in Nat /\ n >= 1 /\ errs'[m0] = n
  BY <1>1, <1>2
<1>4. label \in Labels /\ GoTo(r, label)
  <2>1. GoTo(r, CASE errs'[m0] = 1 -> "Expire" [] errs'[m0] > MaxErr -> "Done" [] OTHER -> "Compare")
    BY DEF IncrPasswordErr
  <2> QED
    BY <1>3, <2>1 DEF Labels
<1>5. request'[r].pc = label
  BY <1>4, GoToTyped
<1>6. request'[r].pc # "Done" => n <= MaxErr
  BY <1>3, <1>5
<1>7. n = 1 => request'[r].pc = "Expire"
  BY <1>5
<1> HIDE DEF label, n
<1> SUFFICES ASSUME NEW m \in Mobiles PROVE (Guesses(m) /\ Unlocks(m))'
  BY DEF Lockout
<1>8. UNCHANGED <<errTTL, wrong, strays, faults>>
  BY DEF IncrPasswordErr
<1>9. Counted(m)' \subseteq Counted(m) \cup {r} /\ (m # m0 => Counted(m)' \subseteq Counted(m))
  <2>1. r \in Counted(m)' => m = m0
    BY <1>1, LoginAssumption DEF Counted, Keeps, NoRequest, Moves
  <2> QED
    BY <1>1, <2>1 DEF Counted, Moves
<1>10. \A q \in Counted(m) : q # r /\ q \in Counted(m)' /\ request'[q] = request[q]
  BY <1>1 DEF Counted, Moves
<1>11. CASE m # m0
  <2>1. Pending(m)' \subseteq Pending(m)
    BY <1>8, <1>9, <1>11 DEF Pending
  <2>2. Guesses(m)'
    BY <1>2, <1>8, <1>11, <2>1, FewerGuesses, PendingFinite DEF Lockout
  <2>3. Unlocks(m)'
    BY <1>2, <1>8, <1>10, <1>11 DEF Lockout, Unlocks
  <2> QED
    BY <2>2, <2>3
<1>12. CASE m = m0
  <2>1. ASSUME request'[r].pc = "Done" PROVE Guesses(m)'
    <3>1. Pending(m)' \subseteq Pending(m)
      <4>1. r \notin Counted(m)'
        BY <2>1 DEF Counted
      <4> QED
        BY <1>8, <1>9, <4>1 DEF Pending
    <3>2. n >= errs[m] /\ n \in Nat
      BY <1>2, <1>12 DEF n
    <3>3. wrong'[m] = wrong[m] /\ errs'[m] >= errs[m] /\ Guesses(m)
      BY <1>3, <1>8, <1>12, <3>2 DEF Lockout
    <3> QED
      BY <3>1, <3>3, FewerGuesses
  <2>2. ASSUME request'[r].pc # "Done" PROVE Guesses(m)'
    <3>1. Pending(m)' \subseteq Pending(m) \cup {r}
      BY <1>8, <1>9 DEF Pending
    <3>2. /\ Cardinality(Pending(m) \cup {r}) \in Nat
          /\ Cardinality(Pending(m) \cup {r}) <= Cardinality(Pending(m)) + 1
          /\ IsFiniteSet(Pending(m) \cup {r})
      <4>1. IsFiniteSet(Pending(m)) /\ Cardinality(Pending(m)) \in Nat
        BY PendingFinite
      <4>2. /\ IsFiniteSet(Pending(m) \cup {r})
            /\ Cardinality(Pending(m) \cup {r}) =
                 IF r \in Pending(m) THEN Cardinality(Pending(m)) ELSE Cardinality(Pending(m)) + 1
        BY <4>1, FS_AddElement
      <4> QED
        BY <4>1, <4>2
    <3>3. /\ Cardinality(Pending(m)') \in Nat
          /\ Cardinality(Pending(m)') <= Cardinality(Pending(m)) + 1
      BY <3>1, <3>2, PendingFinite, FS_Subset, FS_CardinalityType
    <3>4. wrong[m] + Cardinality(Pending(m)) <= errs[m] /\ wrong' = wrong
      BY <1>8 DEF Lockout, Guesses
    <3>5. n = errs[m] + 1 /\ errs'[m] = n /\ n <= MaxErr
      BY <1>3, <1>6, <1>12, <2>2 DEF n
    <3>6. wrong'[m] + Cardinality(Pending(m)') <= n
      BY <1>3, <3>3, <3>4, <3>5, PendingFinite
    <3>7. wrong'[m] \in Nat /\ MaxErr \in Nat
      BY <3>4, PendingFinite
    <3> QED
      BY <1>3, <3>3, <3>5, <3>6, <3>7 DEF Guesses
  <2>3. Unlocks(m)'
    <3>1. CASE n = 1
      <4>1. r \in Counted(m)' /\ request'[r].pc = "Expire"
        BY <1>1, <1>7, <1>12, <3>1 DEF Counted, Keeps
      <4> QED
        BY <4>1 DEF Unlocks
    <3>2. CASE n # 1
      <4>1. errs[m] # 0
        BY <1>2, <1>12, <3>2 DEF n
      <4> QED
        BY <1>8, <1>10, <4>1 DEF Lockout, Unlocks
    <3> QED
      BY <3>1, <3>2
  <2> QED
    BY <2>1, <2>2, <2>3
<1> QED
  BY <1>11, <1>12

LEMMA ExpireKeepsLockout ==
  ASSUME Typed, Typed', Lockout, NEW r \in Requests, ExpirePasswordErr(r)
  PROVE  Lockout'
<1> USE LoginAssumption
<1>1. Moves(r, {"Expire"}, {"Compare"}) /\ Keeps(r) /\ request[r].mobile \in Mobiles
  BY ExpirePasswordErrMoves, Fields DEF ExpirePasswordErr, HasMobile, Labels
<1> SUFFICES ASSUME NEW m \in Mobiles PROVE (Guesses(m) /\ Unlocks(m))'
  BY DEF Lockout
<1>2. UNCHANGED <<errs, wrong, strays>>
  BY DEF ExpirePasswordErr
<1>3. Counted(m)' = Counted(m)
  BY <1>1 DEF Counted, Moves, Keeps
<1>4. Guesses(m)'
  <2>1. Pending(m)' \subseteq Pending(m)
    BY <1>2, <1>3 DEF Pending
  <2>2. wrong'[m] = wrong[m] /\ errs'[m] >= errs[m]
    BY <1>2, PendingFinite
  <2>3. Guesses(m)
    BY DEF Lockout
  <2> QED
    BY <2>1, <2>2, <2>3, FewerGuesses
<1>5. CASE faults' = faults + 1
  BY <1>4, <1>5 DEF Unlocks, Typed, TypeOK
<1>6. CASE errTTL' = [errTTL EXCEPT ![request[r].mobile] = errs[request[r].mobile] > 0] /\ UNCHANGED faults
  <2>1. CASE m = request[r].mobile
    <3>1. errTTL'[m] = (errs[m] > 0) /\ errs'[m] = errs[m]
      BY <1>1, <1>2, <1>6, <2>1 DEF Typed, TypeOK
    <3>2. errs[m] \in Nat
      BY PendingFinite
    <3>3. errs[m] = 0 \/ errs[m] > 0
      BY <3>2
    <3>4. errs'[m] = 0 \/ errTTL'[m]
      BY <3>1, <3>3, Zenon
    <3> QED
      BY <1>4, <3>4 DEF Unlocks
  <2>2. CASE m # request[r].mobile
    <3>1. errTTL'[m] = errTTL[m]
      BY <1>6, <2>2 DEF Typed, TypeOK
    <3>2. \A q \in Counted(m) : request'[q] = request[q]
      BY <1>1, <2>2 DEF Counted, Moves
    <3> QED
      BY <1>2, <1>3, <1>4, <1>6, <3>1, <3>2 DEF Unlocks, Lockout
  <2> QED
    BY <2>1, <2>2
<1> QED
  BY <1>5, <1>6 DEF ExpirePasswordErr, Fault

LEMMA WrongKeepsLockout ==
  ASSUME Typed, Typed', Lockout, NEW r \in Requests, WrongPassword(r)
  PROVE  Lockout'
<1> DEFINE m0 == request[r].mobile
<1> USE LoginAssumption
<1>1. Moves(r, {"Compare"}, {"Done"}) /\ m0 \in Mobiles
  BY WrongPasswordMoves, Fields DEF WrongPassword, HasMobile, Labels
<1> SUFFICES ASSUME NEW m \in Mobiles PROVE (Guesses(m) /\ Unlocks(m))'
  BY DEF Lockout
<1>2. /\ UNCHANGED <<errs, errTTL, faults>>
      /\ strays' = strays \ {r}
      /\ wrong' = [wrong EXCEPT ![m0] = IF r \in strays THEN @ ELSE @ + 1]
  BY DEF WrongPassword
<1>3. Counted(m)' = Counted(m) \ {r}
  BY <1>1 DEF Counted, Moves
<1>4. \A q \in Counted(m) : At(q, "Expire") => q # r /\ request'[q] = request[q]
  BY <1>1 DEF Counted, Moves
<1>5. Unlocks(m)'
  BY <1>2, <1>3, <1>4 DEF Unlocks, Lockout
<1>6. Pending(m)' = Pending(m) \ {r}
  BY <1>2, <1>3 DEF Pending
<1>7. wrong \in [Mobiles -> Nat] /\ errs \in [Mobiles -> Nat]
  BY DEF Typed, TypeOK
<1>8. CASE m # m0 \/ r \in strays
  <2>1. wrong'[m] = wrong[m]
    BY <1>2, <1>7, <1>8
  <2> QED
    BY <1>2, <1>5, <1>6, <1>7, <2>1, FewerGuesses DEF Lockout
<1>9. CASE m = m0 /\ r \notin strays
  <2>1. r \in Pending(m)
    BY <1>1, <1>9 DEF Pending, Counted, Moves
  <2>2. Cardinality(Pending(m)') = Cardinality(Pending(m)) - 1
    BY <1>6, <2>1, PendingFinite, FS_RemoveElement, ZenonT(40)
  <2>3. wrong'[m] = wrong[m] + 1
    BY <1>2, <1>7, <1>9
  <2> QED
    BY <1>2, <1>5, <1>7, <2>2, <2>3, PendingFinite DEF Guesses, Lockout
<1> QED
  BY <1>8, <1>9

LEMMA ForgetKeepsLockout ==
  ASSUME Typed, Typed', Lockout, NEW m0 \in Mobiles, NEW others,
         Forget(m0, others), UNCHANGED faults,
         Counted(m0)' \subseteq others,
         \A m \in Mobiles : m # m0 => Counted(m)' = Counted(m),
         \A m \in Mobiles : m # m0 => \A q \in Counted(m) : request'[q] = request[q]
  PROVE  Lockout'
<1> USE LoginAssumption
<1> SUFFICES ASSUME NEW m \in Mobiles PROVE (Guesses(m) /\ Unlocks(m))'
  BY DEF Lockout
<1>1. /\ errs' = [errs EXCEPT ![m0] = 0]
      /\ errTTL' = [errTTL EXCEPT ![m0] = FALSE]
      /\ wrong' = [wrong EXCEPT ![m0] = 0]
      /\ strays' = strays \cup others
  BY DEF Forget
<1>2. /\ errs \in [Mobiles -> Nat]
      /\ wrong \in [Mobiles -> Nat]
      /\ errTTL \in [Mobiles -> BOOLEAN]
  BY DEF Typed, TypeOK
<1>3. CASE m = m0
  <2>1. Pending(m)' = {}
    BY <1>1, <1>3 DEF Pending
  <2> QED
    BY <1>1, <1>2, <1>3, <2>1, NoGuesses DEF Unlocks
<1>4. CASE m # m0
  <2>1. Pending(m)' \subseteq Pending(m)
    BY <1>1, <1>4 DEF Pending
  <2>2. wrong'[m] = wrong[m] /\ errs'[m] = errs[m] /\ errTTL'[m] = errTTL[m]
    BY <1>1, <1>2, <1>4
  <2>3. Guesses(m)'
    BY <1>2, <2>1, <2>2, FewerGuesses DEF Lockout
  <2>4. Unlocks(m)'
    BY <1>4, <2>2 DEF Lockout, Unlocks
  <2> QED
    BY <2>3, <2>4
<1> QED
  BY <1>3, <1>4

(* The request leaves, or a call has failed.                               *)
LEMMA LeaveKeepsLockout ==
  ASSUME Typed, Typed', Lockout, NEW r \in Requests, UNCHANGED errVars, Fault,
         \A q \in Requests : q # r => request'[q] = request[q],
         request'[r].pc \notin {"Expire", "Compare"}
  PROVE  Lockout'
<1> SUFFICES ASSUME NEW m \in Mobiles PROVE (Guesses(m) /\ Unlocks(m))'
  BY DEF Lockout
<1>1. Counted(m)' \subseteq Counted(m)
  BY DEF Counted
<1>2. Guesses(m)'
  <2>1. Pending(m)' \subseteq Pending(m)
    BY <1>1 DEF Pending, errVars
  <2>2. wrong'[m] = wrong[m] /\ errs'[m] >= errs[m]
    BY PendingFinite DEF errVars
  <2>3. Guesses(m)
    BY DEF Lockout
  <2> QED
    BY <2>1, <2>2, <2>3, FewerGuesses
<1>3. faults' > 0
  BY LoginAssumption DEF Fault, Typed, TypeOK
<1> QED
  BY <1>2, <1>3 DEF Unlocks

LEMMA RightKeepsLockout ==
  ASSUME Typed, Typed', Lockout, NEW r \in Requests, RightPassword(r)
  PROVE  Lockout'
<1>1. Moves(r, {"Compare"}, {"SetToken"}) /\ request[r].mobile \in Mobiles
  BY RightPasswordMoves, Fields DEF RightPassword, HasMobile, Labels
<1> PICK m0 \in Mobiles : m0 = request[r].mobile
  BY <1>1
<1>2. CASE Forget(m0, Counted(m0) \ {r}) /\ UNCHANGED faults
  <2>1. Counted(m0)' \subseteq Counted(m0) \ {r}
    <3>1. r \notin Counted(m0)'
      BY <1>1 DEF Counted, Moves
    <3>2. \A q \in Requests : q # r => request'[q] = request[q]
      BY <1>1 DEF Moves
    <3> QED
      BY <3>1, <3>2 DEF Counted
  <2>2. \A m \in Mobiles : m # m0 => Counted(m)' = Counted(m)
    BY <1>1 DEF Counted, Moves
  <2>3. \A m \in Mobiles : m # m0 => \A q \in Counted(m) : request'[q] = request[q]
    BY <1>1 DEF Counted, Moves
  <2> QED
    BY <1>1, <1>2, <2>1, <2>2, <2>3, ForgetKeepsLockout
<1>3. CASE Fault /\ UNCHANGED errVars
  BY <1>1, <1>3, LeaveKeepsLockout DEF Moves
<1> QED
  BY <1>2, <1>3 DEF RightPassword

LEMMA LockoutStep == Typed /\ Typed' /\ Lockout /\ NextCases => Lockout'
<1> SUFFICES ASSUME Typed, Typed', Lockout, NextCases PROVE Lockout'
  OBVIOUS
<1>1. ASSUME NEW r \in Requests, NEW k \in Keys, GetCaptchaKey(r, k) PROVE Lockout'
  <2>1. Moves(r, {"Idle"}, {"DelKey"})
    BY <1>1, GetCaptchaKeyMoves
  <2>2. UNCHANGED errVars /\ faults' >= faults
    BY LoginAssumption, <1>1 DEF GetCaptchaKey, onceVars, errVars, tokenVars, userVars,
       Delete, Fault, Typed, TypeOK
  <2> QED
    BY <2>1, <2>2, LockoutFrame DEF Moves, Labels
<1>2. ASSUME NEW r \in Requests, DelCaptchaKey(r) PROVE Lockout'
  <2>1. Moves(r, {"DelKey"}, {"SetTicket", "Done"})
    BY <1>2, DelCaptchaKeyMoves
  <2>2. UNCHANGED errVars /\ faults' >= faults
    BY LoginAssumption, <1>2 DEF DelCaptchaKey, onceVars, errVars, tokenVars, userVars,
       Delete, Fault, Typed, TypeOK
  <2> QED
    BY <2>1, <2>2, LockoutFrame DEF Moves, Labels
<1>3. ASSUME NEW r \in Requests, SetCaptchaTicket(r) PROVE Lockout'
  <2>1. Moves(r, {"SetTicket"}, {"Done"})
    BY <1>3, SetCaptchaTicketMoves
  <2>2. UNCHANGED errVars /\ faults' >= faults
    BY LoginAssumption, <1>3 DEF SetCaptchaTicket, onceVars, errVars, tokenVars, userVars,
       Delete, Fault, Typed, TypeOK
  <2> QED
    BY <2>1, <2>2, LockoutFrame DEF Moves, Labels
<1>4. ASSUME NEW r \in Requests, NEW c \in Calls, NEW m \in Mobiles,
             NEW p \in Passwords \cup {None}, NEW t \in Ids,
             c \in {"SmsRegister", "SmsLogin", "SmsReset", "PasswordLogin"}, GetCaptchaTicket(r, c, m, p, t)
             PROVE  Lockout'
  <2>1. Moves(r, {"Idle"}, {"DelTicket"})
    BY <1>4, GetCaptchaTicketMoves
  <2>2. UNCHANGED errVars /\ faults' >= faults
    BY LoginAssumption, <1>4 DEF GetCaptchaTicket, onceVars, errVars, tokenVars, userVars,
       Delete, Fault, Typed, TypeOK
  <2> QED
    BY <2>1, <2>2, LockoutFrame DEF Moves, Labels
<1>5. ASSUME NEW r \in Requests, DelCaptchaTicket(r) PROVE Lockout'
  <2>1. Moves(r, {"DelTicket"}, {"Find", "Limit"})
    BY <1>5, DelCaptchaTicketMoves
  <2>2. UNCHANGED errVars /\ faults' >= faults
    BY LoginAssumption, <1>5 DEF DelCaptchaTicket, onceVars, errVars, tokenVars, userVars,
       Delete, Fault, Typed, TypeOK
  <2> QED
    BY <2>1, <2>2, LockoutFrame DEF Moves, Labels
<1>6. ASSUME NEW r \in Requests, CheckSmsLimited(r) PROVE Lockout'
  <2>1. Moves(r, {"Limit"}, {"Send", "Registered"})
    BY <1>6, CheckSmsLimitedMoves
  <2>2. UNCHANGED errVars /\ faults' >= faults
    BY LoginAssumption, <1>6 DEF CheckSmsLimited, onceVars, errVars, tokenVars, userVars,
       Delete, Fault, Typed, TypeOK
  <2> QED
    BY <2>1, <2>2, LockoutFrame DEF Moves, Labels
<1>7. ASSUME NEW r \in Requests, CheckRegistered(r) PROVE Lockout'
  <2>1. Moves(r, {"Registered"}, {"Send", "Done"})
    BY <1>7, CheckRegisteredMoves
  <2>2. UNCHANGED errVars /\ faults' >= faults
    BY LoginAssumption, <1>7 DEF CheckRegistered, onceVars, errVars, tokenVars, userVars,
       Delete, Fault, Typed, TypeOK
  <2> QED
    BY <2>1, <2>2, LockoutFrame DEF Moves, Labels
<1>8. ASSUME NEW r \in Requests, SendLarkMsg(r) PROVE Lockout'
  <2>1. Moves(r, {"Send"}, {"SetCode"})
    BY <1>8, SendLarkMsgMoves
  <2>2. UNCHANGED errVars /\ faults' >= faults
    BY LoginAssumption, <1>8 DEF SendLarkMsg, onceVars, errVars, tokenVars, userVars,
       Delete, Fault, Typed, TypeOK
  <2> QED
    BY <2>1, <2>2, LockoutFrame DEF Moves, Labels
<1>9. ASSUME NEW r \in Requests, SetVerifyCode(r) PROVE Lockout'
  <2>1. Moves(r, {"SetCode"}, {"Done"})
    BY <1>9, SetVerifyCodeMoves
  <2>2. UNCHANGED errVars /\ faults' >= faults
    BY LoginAssumption, <1>9 DEF SetVerifyCode, onceVars, errVars, tokenVars, userVars,
       Delete, Fault, Typed, TypeOK
  <2> QED
    BY <2>1, <2>2, LockoutFrame DEF Moves, Labels
<1>10. ASSUME NEW r \in Requests, NEW c \in {"CodeLogin", "Reset"}, NEW m \in Mobiles,
              NEW p \in Passwords \cup {None}, CheckSmsVerifyCode(r, c, m, p)
       PROVE  Lockout'
  <2>1. Moves(r, {"Idle"}, {"DelCode"})
    BY <1>10, CheckSmsVerifyCodeMoves
  <2>2. UNCHANGED errVars /\ faults' >= faults
    BY LoginAssumption, <1>10 DEF CheckSmsVerifyCode, onceVars, errVars, tokenVars,
       userVars, Delete, Fault, Typed, TypeOK
  <2> QED
    BY <2>1, <2>2, LockoutFrame DEF Moves, Labels
<1>11. ASSUME NEW r \in Requests, DelVerifyCode(r) PROVE Lockout'
  <2>1. Moves(r, {"DelCode"}, {"Find", "Done"})
    BY <1>11, DelVerifyCodeMoves
  <2>2. UNCHANGED errVars /\ faults' >= faults
    BY LoginAssumption, <1>11 DEF DelVerifyCode, onceVars, errVars, tokenVars, userVars,
       Delete, Fault, Typed, TypeOK
  <2> QED
    BY <2>1, <2>2, LockoutFrame DEF Moves, Labels
<1>12. ASSUME NEW r \in Requests, GetUserByMobile(r) PROVE Lockout'
  <2>1. Moves(r, {"Find"}, {"Create", "Done", "Read"})
    BY <1>12, GetUserByMobileMoves
  <2>2. UNCHANGED errVars /\ faults' >= faults
    <3>1. UNCHANGED <<errVars, faults>>
      BY <1>12, Zenon DEF GetUserByMobile
    <3> QED
      BY <3>1, LoginAssumption DEF Typed, TypeOK
  <2> QED
    BY <2>1, <2>2, LockoutFrame DEF Moves, Labels
<1>13. ASSUME NEW r \in Requests, NEW u \in Users, MobileCreateUser(r, u) PROVE Lockout'
  <2>1. Moves(r, {"Create"}, {"Read"})
    BY <1>13, MobileCreateUserMoves
  <2>2. UNCHANGED errVars /\ faults' >= faults
    BY LoginAssumption, <1>13 DEF MobileCreateUser, onceVars, errVars, tokenVars, userVars,
       Delete, Fault, Typed, TypeOK
  <2> QED
    BY <2>1, <2>2, LockoutFrame DEF Moves, Labels
<1>14. ASSUME NEW r \in Requests, GetUserByID(r) PROVE Lockout'
  <2>1. Moves(r, {"Read"}, {"SetToken", "Incr", "Update", "Done"})
    BY <1>14, GetUserByIDMoves
  <2>2. UNCHANGED errVars /\ faults' >= faults
    BY LoginAssumption, <1>14 DEF GetUserByID, onceVars, errVars, tokenVars, userVars,
       Delete, Fault, Typed, TypeOK
  <2> QED
    BY <2>1, <2>2, LockoutFrame DEF Moves, Labels
<1>15. ASSUME NEW r \in Requests, IncrPasswordErr(r) PROVE Lockout'
  BY <1>15, IncrKeepsLockout
<1>16. ASSUME NEW r \in Requests, ExpirePasswordErr(r) PROVE Lockout'
  BY <1>16, ExpireKeepsLockout
<1>17. ASSUME NEW r \in Requests, WrongPassword(r) PROVE Lockout'
  BY <1>17, WrongKeepsLockout
<1>18. ASSUME NEW r \in Requests, RightPassword(r) PROVE Lockout'
  BY <1>18, RightKeepsLockout
<1>19. ASSUME NEW r \in Requests, SetUserToken(r) PROVE Lockout'
  <2>1. Moves(r, {"SetToken"}, {"SetMap"})
    BY <1>19, SetUserTokenMoves
  <2>2. UNCHANGED errVars /\ faults' >= faults
    BY LoginAssumption, <1>19 DEF SetUserToken, onceVars, errVars, tokenVars, userVars,
       Delete, Fault, Typed, TypeOK
  <2> QED
    BY <2>1, <2>2, LockoutFrame DEF Moves, Labels
<1>20. ASSUME NEW r \in Requests, SetUserMap(r) PROVE Lockout'
  <2>1. Moves(r, {"SetMap"}, {"Done"})
    BY <1>20, SetUserMapMoves
  <2>2. UNCHANGED errVars /\ faults' >= faults
    BY LoginAssumption, <1>20 DEF SetUserMap, onceVars, errVars, tokenVars, userVars,
       Delete, Fault, Typed, TypeOK
  <2> QED
    BY <2>1, <2>2, LockoutFrame DEF Moves, Labels
<1>21. ASSUME NEW r \in Requests, UpdateUserPassword(r) PROVE Lockout'
  <2>1. Moves(r, {"Update"}, {"GetMap"})
    BY <1>21, UpdateUserPasswordMoves
  <2>2. UNCHANGED errVars /\ faults' >= faults
    BY LoginAssumption, <1>21 DEF UpdateUserPassword, onceVars, errVars, tokenVars,
       userVars, Delete, Fault, Typed, TypeOK
  <2> QED
    BY <2>1, <2>2, LockoutFrame DEF Moves, Labels
<1>22. ASSUME NEW r \in Requests, GetNewestToken(r) PROVE Lockout'
  <2>1. Moves(r, {"GetMap"}, {"Done", "Clean"})
    BY <1>22, GetNewestTokenMoves
  <2>2. UNCHANGED errVars /\ faults' >= faults
    BY LoginAssumption, <1>22 DEF GetNewestToken, onceVars, errVars, tokenVars, userVars,
       Delete, Fault, Typed, TypeOK
  <2> QED
    BY <2>1, <2>2, LockoutFrame DEF Moves, Labels
<1>23. ASSUME NEW r \in Requests, CleanUserToken(r) PROVE Lockout'
  <2>1. Moves(r, {"Clean"}, {"Done"})
    BY <1>23, CleanUserTokenMoves
  <2>2. UNCHANGED errVars /\ faults' >= faults
    BY LoginAssumption, <1>23 DEF CleanUserToken, onceVars, errVars, tokenVars, userVars,
       Delete, Fault, Typed, TypeOK
  <2> QED
    BY <2>1, <2>2, LockoutFrame DEF Moves, Labels
<1>24. ASSUME NEW r \in Requests, NEW u \in Users, UpdateCustomerUser(r, u) PROVE Lockout'
  <2>1. Moves(r, {"Idle"}, {"Done"})
    BY <1>24, UpdateCustomerUserMoves
  <2>2. UNCHANGED errVars /\ faults' >= faults
    BY LoginAssumption, <1>24 DEF UpdateCustomerUser, onceVars, errVars, tokenVars,
       userVars, Delete, Fault, Typed, TypeOK
  <2> QED
    BY <2>1, <2>2, LockoutFrame DEF Moves, Labels
<1>25. ASSUME NEW r \in Requests, Stop(r) PROVE Lockout'
  <2>1. Moves(r, Labels \ {"Idle", "Done"}, {"Done"})
    BY <1>25, StopMoves
  <2> QED
    BY <1>25, <2>1, LeaveKeepsLockout DEF Moves, Stop, errVars
<1>26. ASSUME NEW slot \in Mobiles \X Scenes, CodeExpires(slot) PROVE Lockout'
  BY <1>26, LockoutSame DEF CodeExpires, vars, onceVars, errVars, tokenVars, userVars
<1>27. ASSUME NEW m \in Mobiles, PasswordErrExpires(m) PROVE Lockout'
  <2>1. Forget(m, Counted(m)) /\ UNCHANGED <<request, faults>>
    BY <1>27 DEF PasswordErrExpires
  <2>2. \A m2 \in Mobiles : Counted(m2)' = Counted(m2)
    BY <2>1 DEF Counted
  <2> QED
    BY <2>1, <2>2, ForgetKeepsLockout
<1>28. CASE UNCHANGED vars
  BY <1>28, LockoutSame DEF vars, onceVars, errVars, tokenVars, userVars
<1> QED
  BY <1>1, <1>2, <1>3, <1>4, <1>5, <1>6, <1>7, <1>8, <1>9, <1>10, <1>11, <1>12, <1>13,
     <1>14, <1>15, <1>16, <1>17, <1>18, <1>19, <1>20, <1>21, <1>22, <1>23, <1>24, <1>25,
        <1>26, <1>27, <1>28, SMTT(60) DEF NextCases

(* Between two times that the counter of wrong passwords is set back no    *)
(* more than MaxErr passwords are found wrong, and a mobile is not locked  *)
(* for good unless a call failed (adaptor/redis/verify.go:240).            *)
THEOREM LockoutAlwaysHolds == Spec => []LockoutHolds
<1>1. Init => Typed /\ Lockout
  <2> SUFFICES ASSUME Init PROVE Lockout
    BY InitTyped
  <2>1. \A m \in Mobiles : Pending(m) = {}
    BY DEF Init, Pending, Counted, NoRequest
  <2> QED
    <3> SUFFICES ASSUME NEW m \in Mobiles PROVE Guesses(m) /\ Unlocks(m)
      BY DEF Lockout
    <3>1. wrong[m] = 0 /\ errs[m] = 0 /\ Pending(m) = {}
      BY <2>1 DEF Init
    <3>2. Cardinality(Pending(m)) = 0
      BY <3>1, FS_EmptySet
    <3> QED
      BY <3>1, <3>2, LoginAssumption DEF Guesses, Unlocks
<1>2. Typed /\ Lockout /\ [Next]_vars => (Typed /\ Lockout)'
  BY NextIsCases, TypeStep, LockoutStep
<1>3. Typed /\ Lockout => LockoutHolds
  BY PendingFinite, LoginAssumption DEF Lockout, Guesses, Unlocks, LockoutHolds,
     GuessLimit, LockoutEnds
<1> QED
  BY <1>1, <1>2, <1>3, PTL DEF Spec

-----------------------------------------------------------------------------
(* A token that is not made yet is in no map, and one in the map stands    *)
(* for the account it is found under, or for nobody any more.  Without     *)
(* failures, the token a reset is to end stays in the map until then, and  *)
(* it is the one that every reset under way has found there.               *)
NotMade == \A r \in Requests :
  request[r].pc # "Done" => r \notin doomed /\ \A u \in Users : newest[u] # r

OwnToken == \A r \in Requests : At(r, "SetMap") => session[r] \in {request[r].user, None}

OwnMap == \A u \in Users : newest[u] # None => session[newest[u]] \in {u, None}

Cleans(u, t) ==
  \A r \in Requests : At(r, "Clean") /\ request[r].user = u => request[r].held = t

Doomed == faults = 0 =>
  \A u \in Users, t \in doomed : session[t] = u => Resetting(u) /\ newest[u] = t /\ Cleans(u, t)

TokenInv == NotMade /\ OwnToken /\ OwnMap /\ Doomed

LEMMA TokenInvSame ==
  ASSUME TokenInv, UNCHANGED <<tokenVars, request, faults>> PROVE TokenInv'
BY DEF TokenInv, NotMade, OwnToken, OwnMap, Doomed, Cleans, Resetting, tokenVars

LEMMA TokenInvFrame ==
  ASSUME Typed, Typed', TokenInv, UNCHANGED tokenVars, faults' >= faults,
         NEW r \in Requests,
         \A q \in Requests : q # r => request'[q] = request[q],
         request[r].pc \notin {"SetMap", "GetMap", "Clean", "Done"},
         request'[r].pc \notin {"SetMap", "GetMap", "Clean"}
  PROVE  TokenInv'
<1>1. NotMade'
  BY DEF TokenInv, NotMade, tokenVars
<1>2. OwnToken'
  BY DEF TokenInv, OwnToken, tokenVars
<1>3. OwnMap'
  BY DEF TokenInv, OwnMap, tokenVars
<1>4. Doomed'
  <2>1. \A u \in Users : Resetting(u) => Resetting(u)'
    BY DEF Resetting
  <2>2. \A u \in Users, t \in doomed : Cleans(u, t) => Cleans(u, t)'
    BY DEF Cleans
  <2>3. faults' = 0 => faults = 0
    BY LoginAssumption DEF Typed, TypeOK
  <2> QED
    BY <2>1, <2>2, <2>3 DEF TokenInv, Doomed, tokenVars
<1> QED
  BY <1>1, <1>2, <1>3, <1>4 DEF TokenInv

LEMMA SetTokenKeepsTokenInv ==
  ASSUME Typed, Typed', TokenInv, NEW r \in Requests, SetUserToken(r)
  PROVE  TokenInv'
<1> PICK u0 \in Users : u0 = request[r].user
  BY Fields DEF SetUserToken, HasUser, Labels
<1>1. Moves(r, {"SetToken"}, {"SetMap"}) /\ Keeps(r)
  BY SetUserTokenMoves
<1>2. session' = [session EXCEPT ![r] = u0] /\ UNCHANGED <<newest, doomed, faults>>
  BY DEF SetUserToken
<1>3. r \in Ids /\ session \in [Ids -> Users \cup {None}]
  BY DEF Ids, Typed, TypeOK
<1>4. \A t \in Ids : t # r => session'[t] = session[t]
  BY <1>2, <1>3
<1>5. r \notin doomed /\ \A u \in Users : newest[u] # r
  BY <1>1 DEF TokenInv, NotMade, Moves
<1>6. NotMade'
  BY <1>1, <1>2 DEF TokenInv, NotMade, Moves
<1>7. OwnToken'
  <2>1. session'[r] = request'[r].user
    BY <1>1, <1>2, <1>3 DEF Moves, Keeps
  <2>2. \A q \in Requests : q # r => session'[q] = session[q] /\ request'[q] = request[q]
    BY <1>1, <1>4 DEF Moves, Ids
  <2> QED
    BY <2>1, <2>2 DEF TokenInv, OwnToken
<1>8. OwnMap'
  <2>1. \A u \in Users : newest[u] # None => newest[u] \in Ids
    BY DEF Typed, TypeOK
  <2> QED
    BY <1>2, <1>4, <1>5, <2>1 DEF TokenInv, OwnMap
<1>9. Doomed'
  <2>1. \A u \in Users : Resetting(u) => Resetting(u)'
    BY <1>1 DEF Resetting, Moves
  <2>2. \A u \in Users, t \in doomed : Cleans(u, t) => Cleans(u, t)'
    BY <1>1 DEF Cleans, Moves
  <2>3. \A t \in doomed : t \in Ids /\ session'[t] = session[t]
    BY <1>4, <1>5 DEF Typed, TypeOK
  <2> QED
    BY <1>2, <2>1, <2>2, <2>3 DEF TokenInv, Doomed
<1> QED
  BY <1>6, <1>7, <1>8, <1>9 DEF TokenInv

LEMMA SetMapKeepsTokenInv ==
  ASSUME Typed, Typed', TokenInv, NEW r \in Requests, SetUserMap(r)
  PROVE  TokenInv'
<1> PICK u0 \in Users : u0 = request[r].user
  BY Fields DEF SetUserMap, HasUser, Labels
<1>1. Moves(r, {"SetMap"}, {"Done"})
  BY SetUserMapMoves
<1>2. /\ newest' = [newest EXCEPT ![u0] = r]
      /\ doomed' = IF Resetting(u0) THEN {t \in doomed : session[t] # u0} ELSE doomed
      /\ UNCHANGED <<session, faults>>
  BY DEF SetUserMap
<1>3. newest \in [Users -> Ids \cup {None}] /\ r \in Ids
  BY DEF Ids, Typed, TypeOK
<1>4. newest'[u0] = r /\ \A u \in Users : u # u0 => newest'[u] = newest[u]
  BY <1>2, <1>3
<1>5. doomed' \subseteq doomed
  BY <1>2
<1>6. NotMade'
  BY <1>1, <1>4, <1>5 DEF TokenInv, NotMade, Moves
<1>7. OwnToken'
  BY <1>1, <1>2 DEF TokenInv, OwnToken, Moves
<1>8. OwnMap'
  <2>1. session[r] \in {u0, None}
    BY <1>1 DEF TokenInv, OwnToken, Moves
  <2> QED
    BY <1>2, <1>4, <2>1 DEF TokenInv, OwnMap
<1>9. Doomed'
  <2> SUFFICES ASSUME faults' = 0, NEW u \in Users, NEW t \in doomed', session'[t] = u
               PROVE  (Resetting(u) /\ newest[u] = t /\ Cleans(u, t))'
    BY DEF Doomed
  <2>1. t \in doomed /\ session[t] = u /\ faults = 0
    BY <1>2, <1>5
  <2>2. Resetting(u) /\ newest[u] = t /\ Cleans(u, t)
    BY <2>1 DEF TokenInv, Doomed
  <2>3. u # u0
    BY <1>2, <2>1, <2>2
  <2>4. Resetting(u)' /\ Cleans(u, t)'
    BY <1>1, <2>2 DEF Resetting, Cleans, Moves
  <2> QED
    BY <1>4, <2>2, <2>3, <2>4
<1> QED
  BY <1>6, <1>7, <1>8, <1>9 DEF TokenInv

LEMMA UpdateKeepsTokenInv ==
  ASSUME Typed, Typed', TokenInv, NEW r \in Requests, UpdateUserPassword(r)
  PROVE  TokenInv'
<1> PICK u0 \in Users : u0 = request[r].user
  BY Fields DEF UpdateUserPassword, HasUser, Labels
<1>1. Moves(r, {"Update"}, {"GetMap"}) /\ Keeps(r)
  BY UpdateUserPasswordMoves
<1>2. /\ doomed' = IF Resetting(u0) THEN doomed ELSE doomed \cup ({newest[u0]} \ {None})
      /\ UNCHANGED <<session, newest, faults>>
  BY DEF UpdateUserPassword
<1>3. \A t \in doomed' : t \in doomed \/ (~ Resetting(u0) /\ t = newest[u0] /\ t # None)
  BY <1>2
<1>4. NotMade'
  <2> SUFFICES ASSUME NEW q \in Requests, request'[q].pc # "Done"
               PROVE  q \notin doomed' /\ \A u \in Users : newest'[u] # q
    BY DEF NotMade
  <2>1. request[q].pc # "Done"
    BY <1>1 DEF Moves
  <2>2. q \notin doomed /\ \A u \in Users : newest[u] # q
    BY <2>1 DEF TokenInv, NotMade
  <2> QED
    BY <1>2, <1>3, <2>2
<1>5. OwnToken'
  BY <1>1, <1>2 DEF TokenInv, OwnToken, Moves
<1>6. OwnMap'
  BY <1>2 DEF TokenInv, OwnMap
<1>7. Doomed'
  <2> SUFFICES ASSUME faults' = 0, NEW u \in Users, NEW t \in doomed', session'[t] = u
               PROVE  (Resetting(u) /\ newest[u] = t /\ Cleans(u, t))'
    BY DEF Doomed
  <2>1. CASE t \in doomed
    <3>1. Resetting(u) /\ newest[u] = t /\ Cleans(u, t)
      BY <1>2, <2>1 DEF TokenInv, Doomed
    <3>2. Resetting(u)' /\ Cleans(u, t)'
      BY <1>1, <3>1 DEF Resetting, Cleans, Moves
    <3> QED
      BY <1>2, <3>1, <3>2
  <2>2. CASE ~ Resetting(u0) /\ t = newest[u0] /\ t # None
    <3>1. session[t] \in {u0, None}
      BY <2>2 DEF TokenInv, OwnMap
    <3>2. u = u0
      BY <1>2, <3>1, LoginAssumption
    <3>3. Resetting(u)'
      BY <1>1, <3>2 DEF Resetting, Moves, Keeps
    <3>4. Cleans(u, t)'
      BY <1>1, <2>2, <3>2 DEF Cleans, Resetting, Moves
    <3> QED
      BY <1>2, <2>2, <3>2, <3>3, <3>4
  <2> QED
    BY <1>3, <2>1, <2>2
<1> QED
  BY <1>4, <1>5, <1>6, <1>7 DEF TokenInv

LEMMA GetNewestKeepsTokenInv ==
  ASSUME Typed, Typed', TokenInv, NEW r \in Requests, GetNewestToken(r)
  PROVE  TokenInv'
<1> PICK u0 \in Users : u0 = request[r].user
  BY Fields DEF GetNewestToken, HasUser, Labels
<1>1. Moves(r, {"GetMap"}, {"Done", "Clean"})
  BY GetNewestTokenMoves
<1>2. request'[r].pc # "Done" => request'[r].user = u0 /\ request'[r].held = newest[u0]
  BY GetNewestTokenTyped
<1>3. request'[r].pc = "Done" => newest[u0] = None
  <2>1. CASE newest[u0] = None
    BY <2>1
  <2>2. CASE newest[u0] # None
    <3>1. request'[r] = [request[r] EXCEPT !.pc = "Clean", !.held = newest[u0]]
      BY <2>2, Fields DEF GetNewestToken, Becomes, Typed, TypeOK
    <3>2. request'[r].pc = "Clean"
      BY <3>1, Fields DEF Request
    <3> QED
      BY <3>2
  <2> QED
    BY <2>1, <2>2
<1>4. UNCHANGED <<session, newest, doomed, faults>>
  BY DEF GetNewestToken, tokenVars
<1>5. NotMade' /\ OwnToken' /\ OwnMap'
  BY <1>1, <1>4 DEF TokenInv, NotMade, OwnToken, OwnMap, Moves
<1>6. Doomed'
  <2> SUFFICES ASSUME faults' = 0, NEW u \in Users, NEW t \in doomed', session'[t] = u
               PROVE  (Resetting(u) /\ newest[u] = t /\ Cleans(u, t))'
    BY DEF Doomed
  <2>1. Resetting(u) /\ newest[u] = t /\ Cleans(u, t) /\ t # None
    BY <1>4, LoginAssumption DEF TokenInv, Doomed, Typed, TypeOK
  <2>2. Resetting(u)'
    <3>1. CASE u = u0
      BY <1>1, <1>2, <1>3, <2>1, <3>1 DEF Resetting, Moves
    <3>2. CASE u # u0
      BY <1>1, <2>1, <3>2 DEF Resetting, Moves
    <3> QED
      BY <3>1, <3>2
  <2>3. Cleans(u, t)'
    BY <1>1, <1>2, <2>1 DEF Cleans, Moves
  <2> QED
    BY <1>4, <2>1, <2>2, <2>3
<1> QED
  BY <1>5, <1>6 DEF TokenInv

LEMMA CleanKeepsTokenInv ==
  ASSUME Typed, Typed', TokenInv, NEW r \in Requests, CleanUserToken(r)
  PROVE  TokenInv'
<1> PICK u0 \in Users : u0 = request[r].user
  BY Fields DEF CleanUserToken, HasUser, Labels
<1> PICK t0 \in Ids : t0 = request[r].held
  BY Fields DEF CleanUserToken
<1>1. Moves(r, {"Clean"}, {"Done"})
  BY CleanUserTokenMoves
<1>2. /\ session' = [session EXCEPT ![t0] = None]
      /\ newest' = [newest EXCEPT ![u0] = None]
      /\ UNCHANGED <<doomed, faults>>
  BY DEF CleanUserToken
<1>3. newest \in [Users -> Ids \cup {None}] /\ session \in [Ids -> Users \cup {None}]
  BY DEF Typed, TypeOK
<1>4. \A t \in Ids : session'[t] \in {session[t], None} /\ (t # t0 => session'[t] = session[t])
                    /\ session'[t0] = None
  BY <1>2, <1>3
<1>5. newest'[u0] = None /\ \A u \in Users : u # u0 => newest'[u] = newest[u]
  BY <1>2, <1>3
<1>6. NotMade'
  BY <1>1, <1>2, <1>5, LoginAssumption DEF TokenInv, NotMade, Moves, Ids
<1>7. OwnToken'
  BY <1>1, <1>4 DEF TokenInv, OwnToken, Moves, Ids
<1>8. OwnMap'
  <2> SUFFICES ASSUME NEW u \in Users, newest'[u] # None
               PROVE  session'[newest'[u]] \in {u, None}
    BY DEF OwnMap
  <2>1. u # u0 /\ newest'[u] = newest[u] /\ newest[u] \in Ids
    BY <1>3, <1>5
  <2> QED
    BY <1>4, <2>1 DEF TokenInv, OwnMap
<1>9. Doomed'
  <2> SUFFICES ASSUME faults' = 0, NEW u \in Users, NEW t \in doomed', session'[t] = u
               PROVE  (Resetting(u) /\ newest[u] = t /\ Cleans(u, t))'
    BY DEF Doomed
  <2>1. t \in Ids /\ t # t0 /\ session[t] = u /\ t \in doomed /\ faults = 0
    BY <1>2, <1>4, LoginAssumption DEF Typed, TypeOK
  <2>2. Resetting(u) /\ newest[u] = t /\ Cleans(u, t)
    BY <2>1 DEF TokenInv, Doomed
  <2>3. u # u0
    BY <1>1, <2>1, <2>2 DEF Cleans, Moves
  <2>4. Resetting(u)' /\ Cleans(u, t)'
    BY <1>1, <2>2, <2>3 DEF Resetting, Cleans, Moves
  <2> QED
    BY <1>5, <2>2, <2>3, <2>4
<1> QED
  BY <1>6, <1>7, <1>8, <1>9 DEF TokenInv

LEMMA StopKeepsTokenInv ==
  ASSUME Typed, Typed', TokenInv, NEW r \in Requests, Stop(r)
  PROVE  TokenInv'
<1>1. Moves(r, Labels \ {"Idle", "Done"}, {"Done"})
  BY StopMoves
<1>2. UNCHANGED tokenVars /\ faults' = faults + 1
  BY DEF Stop, Fault
<1>3. faults' # 0
  BY <1>2, LoginAssumption DEF Typed, TypeOK
<1> QED
  BY <1>1, <1>2, <1>3 DEF TokenInv, NotMade, OwnToken, OwnMap, Doomed, tokenVars, Moves

LEMMA TokenInvStep == Typed /\ Typed' /\ TokenInv /\ NextCases => TokenInv'
<1> SUFFICES ASSUME Typed, Typed', TokenInv, NextCases PROVE TokenInv'
  OBVIOUS
<1>1. ASSUME NEW r \in Requests, NEW k \in Keys, GetCaptchaKey(r, k) PROVE TokenInv'
  <2>1. Moves(r, {"Idle"}, {"DelKey"})
    BY <1>1, GetCaptchaKeyMoves
  <2>2. UNCHANGED tokenVars /\ faults' >= faults
    <3>1. UNCHANGED tokenVars /\ (UNCHANGED faults \/ Fault)
      BY <1>1, Zenon DEF GetCaptchaKey, Delete
    <3> QED
      BY <3>1, LoginAssumption DEF Fault, Typed, TypeOK
  <2> QED
    BY <2>1, <2>2, TokenInvFrame DEF Moves, Labels
<1>2. ASSUME NEW r \in Requests, DelCaptchaKey(r) PROVE TokenInv'
  <2>1. Moves(r, {"DelKey"}, {"SetTicket", "Done"})
    BY <1>2, DelCaptchaKeyMoves
  <2>2. UNCHANGED tokenVars /\ faults' >= faults
    <3>1. UNCHANGED tokenVars /\ (UNCHANGED faults \/ Fault)
      BY <1>2, Zenon DEF DelCaptchaKey, Delete
    <3> QED
      BY <3>1, LoginAssumption DEF Fault, Typed, TypeOK
  <2> QED
    BY <2>1, <2>2, TokenInvFrame DEF Moves, Labels
<1>3. ASSUME NEW r \in Requests, SetCaptchaTicket(r) PROVE TokenInv'
  <2>1. Moves(r, {"SetTicket"}, {"Done"})
    BY <1>3, SetCaptchaTicketMoves
  <2>2. UNCHANGED tokenVars /\ faults' >= faults
    <3>1. UNCHANGED tokenVars /\ (UNCHANGED faults \/ Fault)
      BY <1>3, Zenon DEF SetCaptchaTicket, Delete
    <3> QED
      BY <3>1, LoginAssumption DEF Fault, Typed, TypeOK
  <2> QED
    BY <2>1, <2>2, TokenInvFrame DEF Moves, Labels
<1>4. ASSUME NEW r \in Requests, NEW c \in Calls, NEW m \in Mobiles,
             NEW p \in Passwords \cup {None}, NEW t \in Ids,
             c \in {"SmsRegister", "SmsLogin", "SmsReset", "PasswordLogin"}, GetCaptchaTicket(r, c, m, p, t)
             PROVE  TokenInv'
  <2>1. Moves(r, {"Idle"}, {"DelTicket"})
    BY <1>4, GetCaptchaTicketMoves
  <2>2. UNCHANGED tokenVars /\ faults' >= faults
    <3>1. UNCHANGED tokenVars /\ (UNCHANGED faults \/ Fault)
      BY <1>4, Zenon DEF GetCaptchaTicket, Delete
    <3> QED
      BY <3>1, LoginAssumption DEF Fault, Typed, TypeOK
  <2> QED
    BY <2>1, <2>2, TokenInvFrame DEF Moves, Labels
<1>5. ASSUME NEW r \in Requests, DelCaptchaTicket(r) PROVE TokenInv'
  <2>1. Moves(r, {"DelTicket"}, {"Find", "Limit"})
    BY <1>5, DelCaptchaTicketMoves
  <2>2. UNCHANGED tokenVars /\ faults' >= faults
    <3>1. UNCHANGED tokenVars /\ (UNCHANGED faults \/ Fault)
      BY <1>5, Zenon DEF DelCaptchaTicket, Delete
    <3> QED
      BY <3>1, LoginAssumption DEF Fault, Typed, TypeOK
  <2> QED
    BY <2>1, <2>2, TokenInvFrame DEF Moves, Labels
<1>6. ASSUME NEW r \in Requests, CheckSmsLimited(r) PROVE TokenInv'
  <2>1. Moves(r, {"Limit"}, {"Send", "Registered"})
    BY <1>6, CheckSmsLimitedMoves
  <2>2. UNCHANGED tokenVars /\ faults' >= faults
    <3>1. UNCHANGED tokenVars /\ (UNCHANGED faults \/ Fault)
      BY <1>6, Zenon DEF CheckSmsLimited, Delete
    <3> QED
      BY <3>1, LoginAssumption DEF Fault, Typed, TypeOK
  <2> QED
    BY <2>1, <2>2, TokenInvFrame DEF Moves, Labels
<1>7. ASSUME NEW r \in Requests, CheckRegistered(r) PROVE TokenInv'
  <2>1. Moves(r, {"Registered"}, {"Send", "Done"})
    BY <1>7, CheckRegisteredMoves
  <2>2. UNCHANGED tokenVars /\ faults' >= faults
    <3>1. UNCHANGED tokenVars /\ (UNCHANGED faults \/ Fault)
      BY <1>7, Zenon DEF CheckRegistered, Delete
    <3> QED
      BY <3>1, LoginAssumption DEF Fault, Typed, TypeOK
  <2> QED
    BY <2>1, <2>2, TokenInvFrame DEF Moves, Labels
<1>8. ASSUME NEW r \in Requests, SendLarkMsg(r) PROVE TokenInv'
  <2>1. Moves(r, {"Send"}, {"SetCode"})
    BY <1>8, SendLarkMsgMoves
  <2>2. UNCHANGED tokenVars /\ faults' >= faults
    <3>1. UNCHANGED tokenVars /\ (UNCHANGED faults \/ Fault)
      BY <1>8, Zenon DEF SendLarkMsg, Delete
    <3> QED
      BY <3>1, LoginAssumption DEF Fault, Typed, TypeOK
  <2> QED
    BY <2>1, <2>2, TokenInvFrame DEF Moves, Labels
<1>9. ASSUME NEW r \in Requests, SetVerifyCode(r) PROVE TokenInv'
  <2>1. Moves(r, {"SetCode"}, {"Done"})
    BY <1>9, SetVerifyCodeMoves
  <2>2. UNCHANGED tokenVars /\ faults' >= faults
    <3>1. UNCHANGED tokenVars /\ (UNCHANGED faults \/ Fault)
      BY <1>9, Zenon DEF SetVerifyCode, Delete
    <3> QED
      BY <3>1, LoginAssumption DEF Fault, Typed, TypeOK
  <2> QED
    BY <2>1, <2>2, TokenInvFrame DEF Moves, Labels
<1>10. ASSUME NEW r \in Requests, NEW c \in {"CodeLogin", "Reset"}, NEW m \in Mobiles,
              NEW p \in Passwords \cup {None}, CheckSmsVerifyCode(r, c, m, p)
       PROVE  TokenInv'
  <2>1. Moves(r, {"Idle"}, {"DelCode"})
    BY <1>10, CheckSmsVerifyCodeMoves
  <2>2. UNCHANGED tokenVars /\ faults' >= faults
    <3>1. UNCHANGED tokenVars /\ (UNCHANGED faults \/ Fault)
      BY <1>10, Zenon DEF CheckSmsVerifyCode, Delete
    <3> QED
      BY <3>1, LoginAssumption DEF Fault, Typed, TypeOK
  <2> QED
    BY <2>1, <2>2, TokenInvFrame DEF Moves, Labels
<1>11. ASSUME NEW r \in Requests, DelVerifyCode(r) PROVE TokenInv'
  <2>1. Moves(r, {"DelCode"}, {"Find", "Done"})
    BY <1>11, DelVerifyCodeMoves
  <2>2. UNCHANGED tokenVars /\ faults' >= faults
    <3>1. UNCHANGED tokenVars /\ (UNCHANGED faults \/ Fault)
      BY <1>11, Zenon DEF DelVerifyCode, Delete
    <3> QED
      BY <3>1, LoginAssumption DEF Fault, Typed, TypeOK
  <2> QED
    BY <2>1, <2>2, TokenInvFrame DEF Moves, Labels
<1>12. ASSUME NEW r \in Requests, GetUserByMobile(r) PROVE TokenInv'
  <2>1. Moves(r, {"Find"}, {"Create", "Done", "Read"})
    BY <1>12, GetUserByMobileMoves
  <2>2. UNCHANGED tokenVars /\ faults' >= faults
    <3>1. UNCHANGED tokenVars /\ (UNCHANGED faults \/ Fault)
      BY <1>12, Zenon DEF GetUserByMobile, Delete
    <3> QED
      BY <3>1, LoginAssumption DEF Fault, Typed, TypeOK
  <2> QED
    BY <2>1, <2>2, TokenInvFrame DEF Moves, Labels
<1>13. ASSUME NEW r \in Requests, NEW u \in Users, MobileCreateUser(r, u) PROVE TokenInv'
  <2>1. Moves(r, {"Create"}, {"Read"})
    BY <1>13, MobileCreateUserMoves
  <2>2. UNCHANGED tokenVars /\ faults' >= faults
    <3>1. UNCHANGED tokenVars /\ (UNCHANGED faults \/ Fault)
      BY <1>13, Zenon DEF MobileCreateUser, Delete
    <3> QED
      BY <3>1, LoginAssumption DEF Fault, Typed, TypeOK
  <2> QED
    BY <2>1, <2>2, TokenInvFrame DEF Moves, Labels
<1>14. ASSUME NEW r \in Requests, GetUserByID(r) PROVE TokenInv'
  <2>1. Moves(r, {"Read"}, {"SetToken", "Incr", "Update", "Done"})
    BY <1>14, GetUserByIDMoves
  <2>2. UNCHANGED tokenVars /\ faults' >= faults
    <3>1. UNCHANGED tokenVars /\ (UNCHANGED faults \/ Fault)
      BY <1>14, Zenon DEF GetUserByID, Delete
    <3> QED
      BY <3>1, LoginAssumption DEF Fault, Typed, TypeOK
  <2> QED
    BY <2>1, <2>2, TokenInvFrame DEF Moves, Labels
<1>15. ASSUME NEW r \in Requests, IncrPasswordErr(r) PROVE TokenInv'
  <2>1. Moves(r, {"Incr"}, {"Expire", "Done", "Compare"})
    BY <1>15, IncrPasswordErrMoves
  <2>2. UNCHANGED tokenVars /\ faults' >= faults
    <3>1. UNCHANGED tokenVars /\ (UNCHANGED faults \/ Fault)
      BY <1>15, Zenon DEF IncrPasswordErr, Delete
    <3> QED
      BY <3>1, LoginAssumption DEF Fault, Typed, TypeOK
  <2> QED
    BY <2>1, <2>2, TokenInvFrame DEF Moves, Labels
<1>16. ASSUME NEW r \in Requests, ExpirePasswordErr(r) PROVE TokenInv'
  <2>1. Moves(r, {"Expire"}, {"Compare"})
    BY <1>16, ExpirePasswordErrMoves
  <2>2. UNCHANGED tokenVars /\ faults' >= faults
    <3>1. UNCHANGED tokenVars /\ (UNCHANGED faults \/ Fault)
      BY <1>16, Zenon DEF ExpirePasswordErr, Delete
    <3> QED
      BY <3>1, LoginAssumption DEF Fault, Typed, TypeOK
  <2> QED
    BY <2>1, <2>2, TokenInvFrame DEF Moves, Labels
<1>17. ASSUME NEW r \in Requests, WrongPassword(r) PROVE TokenInv'
  <2>1. Moves(r, {"Compare"}, {"Done"})
    BY <1>17, WrongPasswordMoves
  <2>2. UNCHANGED tokenVars /\ faults' >= faults
    <3>1. UNCHANGED tokenVars /\ (UNCHANGED faults \/ Fault)
      BY <1>17, Zenon DEF WrongPassword, Delete
    <3> QED
      BY <3>1, LoginAssumption DEF Fault, Typed, TypeOK
  <2> QED
    BY <2>1, <2>2, TokenInvFrame DEF Moves, Labels
<1>18. ASSUME NEW r \in Requests, RightPassword(r) PROVE TokenInv'
  <2>1. Moves(r, {"Compare"}, {"SetToken"})
    BY <1>18, RightPasswordMoves
  <2>2. UNCHANGED tokenVars /\ faults' >= faults
    <3>1. UNCHANGED tokenVars /\ (UNCHANGED faults \/ Fault)
      BY <1>18, Zenon DEF RightPassword, Delete
    <3> QED
      BY <3>1, LoginAssumption DEF Fault, Typed, TypeOK
  <2> QED
    BY <2>1, <2>2, TokenInvFrame DEF Moves, Labels
<1>19. ASSUME NEW r \in Requests, SetUserToken(r) PROVE TokenInv'
  BY <1>19, SetTokenKeepsTokenInv
<1>20. ASSUME NEW r \in Requests, SetUserMap(r) PROVE TokenInv'
  BY <1>20, SetMapKeepsTokenInv
<1>21. ASSUME NEW r \in Requests, UpdateUserPassword(r) PROVE TokenInv'
  BY <1>21, UpdateKeepsTokenInv
<1>22. ASSUME NEW r \in Requests, GetNewestToken(r) PROVE TokenInv'
  BY <1>22, GetNewestKeepsTokenInv
<1>23. ASSUME NEW r \in Requests, CleanUserToken(r) PROVE TokenInv'
  BY <1>23, CleanKeepsTokenInv
<1>24. ASSUME NEW r \in Requests, NEW u \in Users, UpdateCustomerUser(r, u) PROVE TokenInv'
  <2>1. Moves(r, {"Idle"}, {"Done"})
    BY <1>24, UpdateCustomerUserMoves
  <2>2. UNCHANGED tokenVars /\ faults' >= faults
    <3>1. UNCHANGED tokenVars /\ (UNCHANGED faults \/ Fault)
      BY <1>24, Zenon DEF UpdateCustomerUser, Delete
    <3> QED
      BY <3>1, LoginAssumption DEF Fault, Typed, TypeOK
  <2> QED
    BY <2>1, <2>2, TokenInvFrame DEF Moves, Labels
<1>25. ASSUME NEW r \in Requests, Stop(r) PROVE TokenInv'
  BY <1>25, StopKeepsTokenInv
<1>26. ASSUME NEW slot \in Mobiles \X Scenes, CodeExpires(slot) PROVE TokenInv'
  BY <1>26, TokenInvSame DEF CodeExpires, vars, onceVars, errVars, tokenVars, userVars
<1>27. ASSUME NEW m \in Mobiles, PasswordErrExpires(m) PROVE TokenInv'
  BY <1>27, TokenInvSame DEF PasswordErrExpires, vars, onceVars, errVars, tokenVars,
     userVars
<1>28. CASE UNCHANGED vars
  BY <1>28, TokenInvSame DEF vars, onceVars, errVars, tokenVars, userVars
<1> QED
  BY <1>1, <1>2, <1>3, <1>4, <1>5, <1>6, <1>7, <1>8, <1>9, <1>10, <1>11, <1>12, <1>13,
     <1>14, <1>15, <1>16, <1>17, <1>18, <1>19, <1>20, <1>21, <1>22, <1>23, <1>24, <1>25,
        <1>26, <1>27, <1>28, SMTT(60) DEF NextCases

(* A reset ends the token that the map knew of when the password changed,  *)
(* unless a call failed, another reset was under way, or a login set the   *)
(* map meanwhile (service/user/login.go, CleanUserToken).                  *)
THEOREM ResetAlwaysEnds == Spec => []ResetEndsNewest
<1>1. Init => Typed /\ TokenInv
  <2> SUFFICES ASSUME Init PROVE TokenInv
    BY InitTyped
  <2>1. \A u \in Users : newest[u] \in {None, OldTokens[u]}
    BY DEF Init
  <2>2. \A u \in Users : OldTokens[u] \in Earlier
    BY LoginAssumption DEF Earlier, Range
  <2>3. NotMade
    BY <2>1, <2>2, LoginAssumption DEF Init, NotMade, Ids
  <2>4. OwnMap
    BY InitTyped DEF Init, OwnMap, Typed, TypeOK
  <2>5. OwnToken /\ Doomed
    BY DEF Init, NoRequest, OwnToken, Doomed
  <2> QED
    BY <2>3, <2>4, <2>5 DEF TokenInv
<1>2. Typed /\ TokenInv /\ [Next]_vars => (Typed /\ TokenInv)'
  BY NextIsCases, TypeStep, TokenInvStep
<1>3. Typed /\ TokenInv => ResetEndsNewest
  BY LoginAssumption DEF TokenInv, Doomed, ResetEndsNewest, Typed, TypeOK
<1> QED
  BY <1>1, <1>2, <1>3, PTL DEF Spec

-----------------------------------------------------------------------------
(* Captchas, tickets and codes are of three kinds; a code is stored under  *)
(* one mobile and scene only, and what is there and has let a request      *)
(* through is about to be deleted, or shared.                              *)
Slots == Mobiles \X Scenes
DelLabels == {"DelKey", "DelTicket", "DelCode"}
There(x) == x \in keys \/ x \in tickets \/ \E s \in Slots : code[s] = x

NotSent == \A r \in Requests :
  request[r].pc # "Done" =>
    /\ r \notin tickets /\ uses[r] = 0
    /\ \A s \in Slots : code[s] # r
    /\ \A q \in Deleting : request[q].held # r

Kinds ==
  /\ \A s \in Slots : code[s] \notin tickets
  /\ \A s, s2 \in Slots : code[s] = code[s2] /\ code[s] # None => s = s2
  /\ \A r \in Requests : At(r, "DelTicket") => \A s \in Slots : code[s] # request[r].held
  /\ \A r \in Requests : At(r, "DelCode") =>
       /\ request[r].held \notin tickets
       /\ \A s \in Slots : code[s] = request[r].held => s = Slot(r)

UsedGoes == \A x \in Ids \cup Keys :
  There(x) /\ uses[x] > 0 => x \in shared \/ \E q \in Deleting : request[q].held = x

NothingAwaited == \A r \in Requests :
  At(r, "DelCode") => awaited[Slot(r)] \in shared \cup {None}

OnceInv == NotSent /\ Kinds /\ UsedGoes /\ NothingAwaited /\ OnceUnlessShared /\ CodeKept

LEMMA SlotTyped ==
  ASSUME Typed, NEW r \in Requests, request[r].mobile \in Mobiles
  PROVE  Slot(r) \in Slots
BY DEF Slot, Slots, Scene, Scenes

(* A step that only takes away, and lets requests move on.                 *)
LEMMA OnceShrinks ==
  ASSUME Typed, Typed', OnceInv,
         keys' \subseteq keys, tickets' \subseteq tickets, shared \subseteq shared', uses' = uses,
         \A s \in Slots : code'[s] \in {code[s], None},
         \A s \in Slots : awaited'[s] \in {awaited[s], None},
         \A s \in Slots : awaited'[s] # None => code'[s] = code[s] \/ awaited[s] \in shared,
         \A q \in Requests : \/ request'[q] = request[q]
                             \/ /\ request'[q].pc \notin DelLabels
                                /\ request'[q].pc # "Done" => request[q].pc # "Done",
         \A q \in Deleting, x \in Ids \cup Keys :
           request[q].held = x => request'[q] = request[q] \/ x \in shared' \/ ~ There(x)'
  PROVE  OnceInv'
<1>1. \A q \in Deleting' : q \in Deleting /\ request'[q] = request[q]
  BY DEF Deleting, DelLabels
<1>2. \A s \in Slots, r \in Requests : r # None
  BY LoginAssumption DEF Ids
<1>3. NotSent'
  BY <1>1, <1>2 DEF OnceInv, NotSent
<1>4. Kinds'
  <2>1. \A s \in Slots : code'[s] \notin tickets'
    <3>1. None \notin tickets
      BY LoginAssumption DEF Typed, TypeOK
    <3> QED
      BY <3>1 DEF OnceInv, Kinds
  <2>2. \A s, s2 \in Slots : code'[s] = code'[s2] /\ code'[s] # None => s = s2
    BY DEF OnceInv, Kinds
  <2>3. \A r \in Requests : At(r, "DelTicket")' =>
          At(r, "DelTicket") /\ request'[r] = request[r] /\ request[r].held # None
    BY Fields, LoginAssumption DEF DelLabels
  <2>4. \A r \in Requests : At(r, "DelCode")' =>
          At(r, "DelCode") /\ request'[r] = request[r] /\ request[r].held # None
    BY Fields, LoginAssumption DEF DelLabels
  <2> QED
    BY <2>1, <2>2, <2>3, <2>4 DEF OnceInv, Kinds, Slot
<1>5. UsedGoes'
  <2> SUFFICES ASSUME NEW x \in Ids \cup Keys, There(x)', uses'[x] > 0, x \notin shared'
               PROVE  \E q \in Deleting' : request'[q].held = x
    BY DEF UsedGoes
  <2>1. There(x)
    BY LoginAssumption DEF There
  <2>2. PICK q \in Deleting : request[q].held = x
    BY <2>1 DEF OnceInv, UsedGoes
  <2>3. request'[q] = request[q]
    BY <2>2
  <2> QED
    BY <2>2, <2>3 DEF Deleting
<1>6. NothingAwaited'
  <2> SUFFICES ASSUME NEW r \in Requests, At(r, "DelCode")'
               PROVE  awaited'[Slot(r)'] \in shared' \cup {None}
    BY DEF NothingAwaited
  <2>1. At(r, "DelCode") /\ request'[r] = request[r]
    BY DEF DelLabels
  <2>2. Slot(r)' = Slot(r) /\ Slot(r) \in Slots
    BY <2>1, SlotTyped, Fields DEF Slot, HasMobile, Labels
  <2> QED
    BY <2>1, <2>2 DEF OnceInv, NothingAwaited
<1>7. OnceUnlessShared'
  BY DEF OnceInv, OnceUnlessShared
<1>8. CodeKept'
  BY DEF OnceInv, CodeKept, Slots
<1> QED
  BY <1>3, <1>4, <1>5, <1>6, <1>7, <1>8 DEF OnceInv

LEMMA OnceInvSame ==
  ASSUME OnceInv, UNCHANGED <<onceVars, request>> PROVE OnceInv'
BY DEF OnceInv, NotSent, Kinds, UsedGoes, NothingAwaited, OnceUnlessShared, CodeKept, There,
       Deleting, Slot, Slots, onceVars

LEMMA OnceInvFrame ==
  ASSUME Typed, Typed', OnceInv, UNCHANGED onceVars, NEW r \in Requests,
         \A q \in Requests : q # r => request'[q] = request[q],
         request[r].pc \notin {"DelKey", "DelTicket", "DelCode", "Done"},
         request'[r].pc \notin {"DelKey", "DelTicket", "DelCode"}
  PROVE  OnceInv'
BY OnceShrinks DEF onceVars, Deleting, DelLabels

(* A request reads x, and is to delete it next.                            *)
LEMMA UseKeepsOnceInv ==
  ASSUME Typed, Typed', OnceInv, NEW r \in Requests, NEW x \in Ids \cup Keys,
         NEW label \in DelLabels, Moves(r, {"Idle"}, {label}), request'[r].held = x,
         uses' = [uses EXCEPT ![x] = @ + 1],
         shared' = IF \E q \in Deleting : request[q].held = x THEN shared \cup {x} ELSE shared,
         UNCHANGED <<keys, tickets, code>>,
         \A s \in Slots : awaited'[s] \in {awaited[s], None},
         label = "DelKey" => x \in keys,
         label = "DelTicket" => x \in tickets,
         label = "DelCode" => Slot(r)' \in Slots /\ x = code[Slot(r)'] /\ awaited'[Slot(r)'] = None
  PROVE  OnceInv'
<1>1. There(x)
  BY DEF There, DelLabels
<1>2. Deleting' = Deleting \cup {r} /\ r \notin Deleting
  BY DEF Deleting, DelLabels, Moves
<1>3. \A q \in Requests : request'[q].pc # "Done" => request[q].pc # "Done" /\ x # q
  <2>1. \A q \in Requests : request'[q].pc # "Done" => request[q].pc # "Done"
    BY DEF Moves
  <2>2. \A q \in Requests : q \notin keys
    BY LoginAssumption DEF Ids, Typed, TypeOK
  <2> QED
    BY <1>1, <2>1, <2>2 DEF There, OnceInv, NotSent
<1>4. uses \in [Ids \cup Keys -> Nat]
  BY DEF Typed, TypeOK
<1>5. uses'[x] = uses[x] + 1 /\ \A y \in Ids \cup Keys : y # x => uses'[y] = uses[y]
  BY <1>4
<1>6. NotSent'
  <2> SUFFICES ASSUME NEW q \in Requests, request'[q].pc # "Done"
               PROVE  /\ q \notin tickets' /\ uses'[q] = 0
                      /\ \A s \in Slots : code'[s] # q
                      /\ \A p \in Deleting' : request'[p].held # q
    BY DEF NotSent
  <2>1. request[q].pc # "Done" /\ x # q /\ q \in Ids \cup Keys
    BY <1>3 DEF Ids
  <2>2. \A p \in Deleting' : p = r \/ (p \in Deleting /\ request'[p] = request[p])
    BY <1>2 DEF Moves, Deleting
  <2> QED
    BY <1>5, <2>1, <2>2 DEF OnceInv, NotSent
<1>7. Kinds'
  <2>1. x \in tickets => \A s \in Slots : code[s] # x
    BY DEF OnceInv, Kinds
  <2>2. label = "DelCode" => x \notin tickets /\ x # None
    BY LoginAssumption DEF OnceInv, Kinds
  <2>3. label = "DelCode" => \A s \in Slots : code[s] = x => s = Slot(r)'
    BY <2>2 DEF OnceInv, Kinds
  <2>4. \A q \in Requests : q # r => request'[q] = request[q] /\ Slot(q)' = Slot(q)
    BY DEF Moves, Slot
  <2>5. \A q \in Requests : At(q, "DelTicket")' => \A s \in Slots : code'[s] # request'[q].held
    BY <2>1, <2>4 DEF Moves, OnceInv, Kinds
  <2>6. \A q \in Requests : At(q, "DelCode")' =>
          /\ request'[q].held \notin tickets'
          /\ \A s \in Slots : code'[s] = request'[q].held => s = Slot(q)'
    BY <2>2, <2>3, <2>4 DEF Moves, OnceInv, Kinds
  <2> QED
    BY <2>5, <2>6 DEF OnceInv, Kinds
<1>8. UsedGoes'
  <2> SUFFICES ASSUME NEW y \in Ids \cup Keys, There(y)', uses'[y] > 0
               PROVE  y \in shared' \/ \E q \in Deleting' : request'[q].held = y
    BY DEF UsedGoes
  <2>1. CASE y = x
    BY <1>2, <2>1
  <2>2. CASE y # x
    <3>1. There(y) /\ uses[y] > 0
      BY <1>5, <2>2 DEF There
    <3>2. y \in shared \/ \E q \in Deleting : request[q].held = y
      BY <3>1 DEF OnceInv, UsedGoes
    <3>3. \A q \in Deleting : q \in Deleting' /\ request'[q] = request[q]
      BY <1>2 DEF Moves, Deleting
    <3> QED
      BY <3>2, <3>3
  <2> QED
    BY <2>1, <2>2
<1>9. NothingAwaited'
  <2> SUFFICES ASSUME NEW q \in Requests, At(q, "DelCode")'
               PROVE  awaited'[Slot(q)'] \in shared' \cup {None}
    BY DEF NothingAwaited
  <2>1. CASE q = r
    BY <2>1 DEF Moves
  <2>2. CASE q # r
    <3>1. request'[q] = request[q] /\ At(q, "DelCode")
      BY <2>2 DEF Moves
    <3>2. Slot(q)' = Slot(q) /\ Slot(q) \in Slots
      BY <3>1, SlotTyped, Fields DEF Slot, HasMobile, Labels
    <3> QED
      BY <3>1, <3>2 DEF OnceInv, NothingAwaited
  <2> QED
    BY <2>1, <2>2
<1>10. OnceUnlessShared'
  <2> SUFFICES ASSUME NEW y \in Ids \cup Keys, uses'[y] > 1 PROVE y \in shared'
    BY DEF OnceUnlessShared
  <2>1. CASE y = x
    <3>1. uses[x] > 0
      BY <1>4, <1>5, <2>1
    <3>2. x \in shared \/ \E q \in Deleting : request[q].held = x
      BY <1>1, <3>1 DEF OnceInv, UsedGoes
    <3> QED
      BY <2>1, <3>2
  <2>2. CASE y # x
    BY <1>5, <2>2 DEF OnceInv, OnceUnlessShared
  <2> QED
    BY <2>1, <2>2
<1>11. CodeKept'
  BY DEF OnceInv, CodeKept, Slots
<1> QED
  BY <1>6, <1>7, <1>8, <1>9, <1>10, <1>11 DEF OnceInv

LEMMA DelKeyKeepsOnceInv ==
  ASSUME Typed, Typed', OnceInv, NEW r \in Requests, DelCaptchaKey(r)
  PROVE  OnceInv'
<1>1. Moves(r, {"DelKey"}, {"SetTicket", "Done"})
  BY DelCaptchaKeyMoves
<1> PICK x \in Keys : x = request[r].held
  BY Fields DEF DelCaptchaKey
<1>2. UNCHANGED <<tickets, code, uses, awaited>>
  BY DEF DelCaptchaKey
<1>3. \/ keys' = keys \ {x} /\ UNCHANGED shared
      \/ UNCHANGED keys /\ shared' = shared \cup {x}
  BY DEF DelCaptchaKey, Delete
<1>4. x \in shared' \/ ~ There(x)'
  <2>1. x \notin Ids \cup {None}
    BY LoginAssumption
  <2>2. x \notin tickets /\ \A s \in Slots : code[s] # x
    BY <2>1 DEF Typed, TypeOK, Slots
  <2> QED
    BY <1>2, <1>3, <2>2 DEF There
<1> QED
  BY <1>1, <1>2, <1>3, <1>4, OnceShrinks DEF Moves, Deleting, DelLabels

LEMMA DelTicketKeepsOnceInv ==
  ASSUME Typed, Typed', OnceInv, NEW r \in Requests, DelCaptchaTicket(r)
  PROVE  OnceInv'
<1>1. Moves(r, {"DelTicket"}, {"Find", "Limit"})
  BY DelCaptchaTicketMoves
<1> PICK x \in Ids : x = request[r].held
  BY Fields DEF DelCaptchaTicket
<1>2. UNCHANGED <<keys, code, uses, awaited>>
  BY DEF DelCaptchaTicket
<1>3. \/ tickets' = tickets \ {x} /\ UNCHANGED shared
      \/ UNCHANGED tickets /\ shared' = shared \cup {x}
  BY DEF DelCaptchaTicket, Delete
<1>4. x \in shared' \/ ~ There(x)'
  <2>1. x \notin keys
    BY LoginAssumption DEF Typed, TypeOK
  <2>2. \A s \in Slots : code[s] # x
    BY <1>1 DEF OnceInv, Kinds, Moves
  <2> QED
    BY <1>2, <1>3, <2>1, <2>2 DEF There
<1> QED
  BY <1>1, <1>2, <1>3, <1>4, OnceShrinks DEF Moves, Deleting, DelLabels

LEMMA DelCodeKeepsOnceInv ==
  ASSUME Typed, Typed', OnceInv, NEW r \in Requests, DelVerifyCode(r)
  PROVE  OnceInv'
<1>1. Moves(r, {"DelCode"}, {"Find", "Done"})
  BY DelVerifyCodeMoves
<1> PICK x \in Ids : x = request[r].held
  BY Fields DEF DelVerifyCode
<1> PICK s0 \in Slots : s0 = Slot(r)
  BY SlotTyped, Fields DEF DelVerifyCode, HasMobile, Labels
<1>2. UNCHANGED <<keys, tickets, uses, awaited>>
  BY DEF DelVerifyCode
<1>3. \/ code' = [code EXCEPT ![s0] = None] /\ UNCHANGED shared
      \/ UNCHANGED code /\ shared' = shared \cup {x}
  BY DEF DelVerifyCode, Delete
<1>4. code \in [Slots -> Ids \cup {None}]
  BY DEF Typed, TypeOK, Slots
<1>5. \A s \in Slots : code'[s] \in {code[s], None} /\ (s # s0 => code'[s] = code[s])
  BY <1>3, <1>4
<1>6. x \in shared' \/ ~ There(x)'
  <2>1. x \notin keys /\ x # None
    BY LoginAssumption DEF Typed, TypeOK
  <2>2. x \notin tickets /\ \A s \in Slots : code[s] = x => s = s0
    BY <1>1 DEF OnceInv, Kinds, Moves
  <2>3. CASE code' = [code EXCEPT ![s0] = None]
    <3>1. code'[s0] # x
      BY <1>4, <2>1, <2>3
    <3> QED
      BY <1>2, <1>5, <2>1, <2>2, <3>1 DEF There
  <2> QED
    BY <1>3, <2>3
<1>7. awaited[s0] \in shared \cup {None}
  BY <1>1 DEF OnceInv, NothingAwaited, Moves
<1>8. \A s \in Slots : awaited'[s] # None => code'[s] = code[s] \/ awaited[s] \in shared
  BY <1>2, <1>5, <1>7
<1> QED
  BY <1>1, <1>2, <1>3, <1>5, <1>6, <1>8, OnceShrinks DEF Moves, Deleting, DelLabels

LEMMA StopKeepsOnceInv ==
  ASSUME Typed, Typed', OnceInv, NEW r \in Requests, Stop(r)
  PROVE  OnceInv'
<1>1. Moves(r, Labels \ {"Idle", "Done"}, {"Done"})
  BY StopMoves
<1>2. /\ UNCHANGED <<keys, tickets, code, uses, awaited>>
      /\ shared' = IF r \in Deleting THEN shared \cup {request[r].held} ELSE shared
  BY DEF Stop
<1> QED
  BY <1>1, <1>2, OnceShrinks DEF Moves, Deleting, DelLabels

LEMMA CodeExpiresKeepsOnceInv ==
  ASSUME Typed, Typed', OnceInv, NEW slot \in Slots, CodeExpires(slot)
  PROVE  OnceInv'
<1>1. /\ UNCHANGED <<keys, tickets, uses, shared, request>>
      /\ code' = [code EXCEPT ![slot] = None]
      /\ awaited' = [awaited EXCEPT ![slot] = None]
  BY DEF CodeExpires
<1>2. code \in [Slots -> Ids \cup {None}] /\ awaited \in [Slots -> Ids \cup {None}]
  BY DEF Typed, TypeOK, Slots
<1>3. \A s \in Slots : /\ code'[s] \in {code[s], None} /\ awaited'[s] \in {awaited[s], None}
                       /\ awaited'[s] # None => code'[s] = code[s]
  BY <1>1, <1>2
<1> QED
  BY <1>1, <1>3, OnceShrinks

LEMMA SetTicketKeepsOnceInv ==
  ASSUME Typed, Typed', OnceInv, NEW r \in Requests, SetCaptchaTicket(r)
  PROVE  OnceInv'
<1>1. Moves(r, {"SetTicket"}, {"Done"})
  BY SetCaptchaTicketMoves
<1>2. tickets' = tickets \cup {r} /\ UNCHANGED <<keys, code, uses, shared, awaited>>
  BY DEF SetCaptchaTicket
<1>3. /\ r \notin tickets /\ uses[r] = 0
      /\ \A s \in Slots : code[s] # r
      /\ \A q \in Deleting : request[q].held # r
  BY <1>1 DEF OnceInv, NotSent, Moves
<1>4. Deleting' = Deleting /\ \A q \in Deleting : q # r /\ request'[q] = request[q]
  BY <1>1 DEF Deleting, Moves
<1>5. NotSent'
  BY <1>1, <1>2, <1>4 DEF OnceInv, NotSent, Moves
<1>6. Kinds'
  <2>1. \A q \in Requests : At(q, "DelCode")' =>
          At(q, "DelCode") /\ request'[q] = request[q] /\ Slot(q)' = Slot(q) /\ request[q].held # r
    BY <1>1, <1>3 DEF Moves, Deleting, Slot
  <2>2. \A q \in Requests : At(q, "DelTicket")' => At(q, "DelTicket") /\ request'[q] = request[q]
    BY <1>1 DEF Moves
  <2> QED
    BY <1>2, <1>3, <2>1, <2>2 DEF OnceInv, Kinds
<1>7. UsedGoes'
  <2> SUFFICES ASSUME NEW x \in Ids \cup Keys, There(x)', uses'[x] > 0
               PROVE  x \in shared' \/ \E q \in Deleting' : request'[q].held = x
    BY DEF UsedGoes
  <2>1. x # r
    BY <1>2, <1>3
  <2>2. There(x) /\ uses[x] > 0
    BY <1>2, <2>1 DEF There
  <2> QED
    BY <1>2, <1>4, <2>2 DEF OnceInv, UsedGoes
<1>8. NothingAwaited'
  <2>1. \A q \in Requests : At(q, "DelCode")' => At(q, "DelCode") /\ Slot(q)' = Slot(q)
    BY <1>1 DEF Moves, Slot
  <2> QED
    BY <1>2, <2>1 DEF OnceInv, NothingAwaited
<1>9. OnceUnlessShared' /\ CodeKept'
  BY <1>2 DEF OnceInv, OnceUnlessShared, CodeKept
<1> QED
  BY <1>5, <1>6, <1>7, <1>8, <1>9 DEF OnceInv

LEMMA SetCodeKeepsOnceInv ==
  ASSUME Typed, Typed', OnceInv, NEW r \in Requests, SetVerifyCode(r)
  PROVE  OnceInv'
<1>1. Moves(r, {"SetCode"}, {"Done"})
  BY SetVerifyCodeMoves
<1> PICK s0 \in Slots : s0 = Slot(r)
  BY SlotTyped, Fields DEF SetVerifyCode, HasMobile, Labels
<1>2. /\ code' = [code EXCEPT ![s0] = r] /\ awaited' = [awaited EXCEPT ![s0] = r]
      /\ shared' = IF \E q \in Deleting : At(q, "DelCode") /\ Slot(q) = s0
                   THEN shared \cup {r} ELSE shared
      /\ UNCHANGED <<keys, tickets, uses>>
  BY DEF SetVerifyCode
<1>3. code \in [Slots -> Ids \cup {None}] /\ awaited \in [Slots -> Ids \cup {None}]
  BY DEF Typed, TypeOK, Slots
<1>4. /\ code'[s0] = r /\ awaited'[s0] = r
      /\ \A s \in Slots : s # s0 => code'[s] = code[s] /\ awaited'[s] = awaited[s]
  BY <1>2, <1>3
<1>5. /\ r \notin tickets /\ uses[r] = 0
      /\ \A s \in Slots : code[s] # r
      /\ \A q \in Deleting : request[q].held # r
  BY <1>1 DEF OnceInv, NotSent, Moves
<1>6. Deleting' = Deleting /\ \A q \in Deleting : q # r /\ request'[q] = request[q]
  BY <1>1 DEF Deleting, Moves
<1>7. NotSent'
  <2>1. \A q \in Requests : request'[q].pc # "Done" => request[q].pc # "Done" /\ q # r
    BY <1>1 DEF Moves
  <2> QED
    BY <1>2, <1>4, <1>6, <2>1 DEF OnceInv, NotSent
<1>8. Kinds'
  <2>1. \A q \in Requests : At(q, "DelCode")' =>
          At(q, "DelCode") /\ request'[q] = request[q] /\ Slot(q)' = Slot(q) /\ request[q].held # r
    BY <1>1, <1>5 DEF Moves, Deleting, Slot
  <2>2. \A q \in Requests : At(q, "DelTicket")' =>
          At(q, "DelTicket") /\ request'[q] = request[q] /\ request[q].held # r
    BY <1>1, <1>5 DEF Moves, Deleting
  <2>3. \A s \in Slots : code'[s] \notin tickets'
    BY <1>2, <1>4, <1>5 DEF OnceInv, Kinds
  <2>4. \A s, s2 \in Slots : code'[s] = code'[s2] /\ code'[s] # None => s = s2
    BY <1>4, <1>5 DEF OnceInv, Kinds
  <2>5. \A q \in Requests : At(q, "DelTicket")' => \A s \in Slots : code'[s] # request'[q].held
    BY <1>4, <2>2 DEF OnceInv, Kinds
  <2>6. \A q \in Requests : At(q, "DelCode")' =>
          /\ request'[q].held \notin tickets'
          /\ \A s \in Slots : code'[s] = request'[q].held => s = Slot(q)'
    BY <1>2, <1>4, <2>1 DEF OnceInv, Kinds
  <2> QED
    BY <2>3, <2>4, <2>5, <2>6 DEF Kinds
<1>9. UsedGoes'
  <2> SUFFICES ASSUME NEW x \in Ids \cup Keys, There(x)', uses'[x] > 0
               PROVE  x \in shared' \/ \E q \in Deleting' : request'[q].held = x
    BY DEF UsedGoes
  <2>1. x # r
    BY <1>2, <1>5
  <2>2. There(x) /\ uses[x] > 0
    BY <1>2, <1>4, <2>1 DEF There
  <2> QED
    BY <1>2, <1>6, <2>2 DEF OnceInv, UsedGoes
<1>10. NothingAwaited'
  <2> SUFFICES ASSUME NEW q \in Requests, At(q, "DelCode")'
               PROVE  awaited'[Slot(q)'] \in shared' \cup {None}
    BY DEF NothingAwaited
  <2>1. request'[q] = request[q] /\ At(q, "DelCode") /\ q \in Deleting
    BY <1>1 DEF Moves, Deleting
  <2>2. Slot(q)' = Slot(q) /\ Slot(q) \in Slots
    BY <2>1, SlotTyped, Fields DEF Slot, HasMobile, Labels
  <2>3. CASE Slot(q) = s0
    BY <1>2, <1>4, <2>1, <2>2, <2>3
  <2>4. CASE Slot(q) # s0
    BY <1>2, <1>4, <2>1, <2>2, <2>4 DEF OnceInv, NothingAwaited
  <2> QED
    BY <2>3, <2>4
<1>11. OnceUnlessShared'
  BY <1>2 DEF OnceInv, OnceUnlessShared
<1>12. CodeKept'
  BY <1>2, <1>4 DEF OnceInv, CodeKept, Slots
<1> QED
  BY <1>7, <1>8, <1>9, <1>10, <1>11, <1>12 DEF OnceInv

LEMMA OnceInvStep == Typed /\ Typed' /\ OnceInv /\ NextCases => OnceInv'
<1> SUFFICES ASSUME Typed, Typed', OnceInv, NextCases PROVE OnceInv'
  OBVIOUS
<1>1. ASSUME NEW r \in Requests, NEW k \in Keys, GetCaptchaKey(r, k) PROVE OnceInv'
  <2>1. /\ Moves(r, {"Idle"}, {"DelKey"})
        /\ Use(r, "Captcha", None, None, k, "DelKey")
        /\ request'[r].held = k
    BY <1>1, GetCaptchaKeyMoves
  <2>2. UNCHANGED <<keys, tickets, code>> /\ \A s \in Slots : awaited'[s] \in {awaited[s],
                    None}
    BY <1>1 DEF GetCaptchaKey, Typed, TypeOK, Slots
  <2>3. "DelKey" \in DelLabels
    BY DEF DelLabels
  <2> QED
    BY <1>1, <2>1, <2>2, <2>3, UseKeepsOnceInv DEF Use, GetCaptchaKey
<1>2. ASSUME NEW r \in Requests, DelCaptchaKey(r) PROVE OnceInv'
  BY <1>2, DelKeyKeepsOnceInv
<1>3. ASSUME NEW r \in Requests, SetCaptchaTicket(r) PROVE OnceInv'
  BY <1>3, SetTicketKeepsOnceInv
<1>4. ASSUME NEW r \in Requests, NEW c \in Calls, NEW m \in Mobiles,
             NEW p \in Passwords \cup {None}, NEW t \in Ids,
             c \in {"SmsRegister", "SmsLogin", "SmsReset", "PasswordLogin"}, GetCaptchaTicket(r, c, m, p, t)
             PROVE  OnceInv'
  <2>1. /\ Moves(r, {"Idle"}, {"DelTicket"})
        /\ Use(r, c, m, p, t, "DelTicket")
        /\ request'[r].held = t
    BY <1>4, GetCaptchaTicketMoves
  <2>2. UNCHANGED <<keys, tickets, code>> /\ \A s \in Slots : awaited'[s] \in {awaited[s],
                    None}
    BY <1>4 DEF GetCaptchaTicket, Typed, TypeOK, Slots
  <2>3. "DelTicket" \in DelLabels
    BY DEF DelLabels
  <2> QED
    BY <1>4, <2>1, <2>2, <2>3, UseKeepsOnceInv DEF Use, GetCaptchaTicket
<1>5. ASSUME NEW r \in Requests, DelCaptchaTicket(r) PROVE OnceInv'
  BY <1>5, DelTicketKeepsOnceInv
<1>6. ASSUME NEW r \in Requests, CheckSmsLimited(r) PROVE OnceInv'
  <2>1. Moves(r, {"Limit"}, {"Send", "Registered"})
    BY <1>6, CheckSmsLimitedMoves
  <2>2. UNCHANGED onceVars
    BY <1>6 DEF CheckSmsLimited
  <2> QED
    BY <2>1, <2>2, OnceInvFrame DEF Moves, Labels
<1>7. ASSUME NEW r \in Requests, CheckRegistered(r) PROVE OnceInv'
  <2>1. Moves(r, {"Registered"}, {"Send", "Done"})
    BY <1>7, CheckRegisteredMoves
  <2>2. UNCHANGED onceVars
    BY <1>7 DEF CheckRegistered
  <2> QED
    BY <2>1, <2>2, OnceInvFrame DEF Moves, Labels
<1>8. ASSUME NEW r \in Requests, SendLarkMsg(r) PROVE OnceInv'
  <2>1. Moves(r, {"Send"}, {"SetCode"})
    BY <1>8, SendLarkMsgMoves
  <2>2. UNCHANGED onceVars
    BY <1>8 DEF SendLarkMsg
  <2> QED
    BY <2>1, <2>2, OnceInvFrame DEF Moves, Labels
<1>9. ASSUME NEW r \in Requests, SetVerifyCode(r) PROVE OnceInv'
  BY <1>9, SetCodeKeepsOnceInv
<1>10. ASSUME NEW r \in Requests, NEW c \in {"CodeLogin", "Reset"}, NEW m \in Mobiles,
              NEW p \in Passwords \cup {None}, CheckSmsVerifyCode(r, c, m, p)
       PROVE  OnceInv'
  <2>1. /\ Moves(r, {"Idle"}, {"DelCode"})
        /\ Use(r, c, m, p, code[<<m, Scene(c)>>], "DelCode")
        /\ request'[r].held = code[<<m, Scene(c)>>]
        /\ code[<<m, Scene(c)>>] \in Ids \cup Keys
    BY <1>10, CheckSmsVerifyCodeMoves
  <2>2. UNCHANGED <<keys, tickets, code>> /\ \A s \in Slots : awaited'[s] \in {awaited[s],
                    None}
    BY <1>10 DEF CheckSmsVerifyCode, Typed, TypeOK, Slots
  <2>3. "DelCode" \in DelLabels
    BY DEF DelLabels
  <2>4. /\ Slot(r)' = <<m, Scene(c)>>
        /\ <<m, Scene(c)>> \in Slots
        /\ awaited'[<<m, Scene(c)>>] = None
    <3>1. request'[r].mobile = m /\ request'[r].call = c
      BY <1>10, CheckSmsVerifyCodeMoves, ZenonT(40)
    <3>2. <<m, Scene(c)>> \in Slots
      BY DEF Slots, Scene, Scenes
    <3> QED
      BY <1>10, <3>1, <3>2 DEF Slot, CheckSmsVerifyCode, Typed, TypeOK, Slots
  <2> QED
    BY <1>10, <2>1, <2>2, <2>3, <2>4, UseKeepsOnceInv DEF Use, CheckSmsVerifyCode
<1>11. ASSUME NEW r \in Requests, DelVerifyCode(r) PROVE OnceInv'
  BY <1>11, DelCodeKeepsOnceInv
<1>12. ASSUME NEW r \in Requests, GetUserByMobile(r) PROVE OnceInv'
  <2>1. Moves(r, {"Find"}, {"Create", "Done", "Read"})
    BY <1>12, GetUserByMobileMoves
  <2>2. UNCHANGED onceVars
    BY <1>12 DEF GetUserByMobile
  <2> QED
    BY <2>1, <2>2, OnceInvFrame DEF Moves, Labels
<1>13. ASSUME NEW r \in Requests, NEW u \in Users, MobileCreateUser(r, u) PROVE OnceInv'
  <2>1. Moves(r, {"Create"}, {"Read"})
    BY <1>13, MobileCreateUserMoves
  <2>2. UNCHANGED onceVars
    BY <1>13 DEF MobileCreateUser
  <2> QED
    BY <2>1, <2>2, OnceInvFrame DEF Moves, Labels
<1>14. ASSUME NEW r \in Requests, GetUserByID(r) PROVE OnceInv'
  <2>1. Moves(r, {"Read"}, {"SetToken", "Incr", "Update", "Done"})
    BY <1>14, GetUserByIDMoves
  <2>2. UNCHANGED onceVars
    BY <1>14 DEF GetUserByID
  <2> QED
    BY <2>1, <2>2, OnceInvFrame DEF Moves, Labels
<1>15. ASSUME NEW r \in Requests, IncrPasswordErr(r) PROVE OnceInv'
  <2>1. Moves(r, {"Incr"}, {"Expire", "Done", "Compare"})
    BY <1>15, IncrPasswordErrMoves
  <2>2. UNCHANGED onceVars
    BY <1>15 DEF IncrPasswordErr
  <2> QED
    BY <2>1, <2>2, OnceInvFrame DEF Moves, Labels
<1>16. ASSUME NEW r \in Requests, ExpirePasswordErr(r) PROVE OnceInv'
  <2>1. Moves(r, {"Expire"}, {"Compare"})
    BY <1>16, ExpirePasswordErrMoves
  <2>2. UNCHANGED onceVars
    BY <1>16 DEF ExpirePasswordErr
  <2> QED
    BY <2>1, <2>2, OnceInvFrame DEF Moves, Labels
<1>17. ASSUME NEW r \in Requests, WrongPassword(r) PROVE OnceInv'
  <2>1. Moves(r, {"Compare"}, {"Done"})
    BY <1>17, WrongPasswordMoves
  <2>2. UNCHANGED onceVars
    BY <1>17 DEF WrongPassword
  <2> QED
    BY <2>1, <2>2, OnceInvFrame DEF Moves, Labels
<1>18. ASSUME NEW r \in Requests, RightPassword(r) PROVE OnceInv'
  <2>1. Moves(r, {"Compare"}, {"SetToken"})
    BY <1>18, RightPasswordMoves
  <2>2. UNCHANGED onceVars
    BY <1>18 DEF RightPassword
  <2> QED
    BY <2>1, <2>2, OnceInvFrame DEF Moves, Labels
<1>19. ASSUME NEW r \in Requests, SetUserToken(r) PROVE OnceInv'
  <2>1. Moves(r, {"SetToken"}, {"SetMap"})
    BY <1>19, SetUserTokenMoves
  <2>2. UNCHANGED onceVars
    BY <1>19 DEF SetUserToken
  <2> QED
    BY <2>1, <2>2, OnceInvFrame DEF Moves, Labels
<1>20. ASSUME NEW r \in Requests, SetUserMap(r) PROVE OnceInv'
  <2>1. Moves(r, {"SetMap"}, {"Done"})
    BY <1>20, SetUserMapMoves
  <2>2. UNCHANGED onceVars
    BY <1>20 DEF SetUserMap
  <2> QED
    BY <2>1, <2>2, OnceInvFrame DEF Moves, Labels
<1>21. ASSUME NEW r \in Requests, UpdateUserPassword(r) PROVE OnceInv'
  <2>1. Moves(r, {"Update"}, {"GetMap"})
    BY <1>21, UpdateUserPasswordMoves
  <2>2. UNCHANGED onceVars
    BY <1>21 DEF UpdateUserPassword
  <2> QED
    BY <2>1, <2>2, OnceInvFrame DEF Moves, Labels
<1>22. ASSUME NEW r \in Requests, GetNewestToken(r) PROVE OnceInv'
  <2>1. Moves(r, {"GetMap"}, {"Done", "Clean"})
    BY <1>22, GetNewestTokenMoves
  <2>2. UNCHANGED onceVars
    BY <1>22 DEF GetNewestToken
  <2> QED
    BY <2>1, <2>2, OnceInvFrame DEF Moves, Labels
<1>23. ASSUME NEW r \in Requests, CleanUserToken(r) PROVE OnceInv'
  <2>1. Moves(r, {"Clean"}, {"Done"})
    BY <1>23, CleanUserTokenMoves
  <2>2. UNCHANGED onceVars
    BY <1>23 DEF CleanUserToken
  <2> QED
    BY <2>1, <2>2, OnceInvFrame DEF Moves, Labels
<1>24. ASSUME NEW r \in Requests, NEW u \in Users, UpdateCustomerUser(r, u) PROVE OnceInv'
  <2>1. Moves(r, {"Idle"}, {"Done"})
    BY <1>24, UpdateCustomerUserMoves
  <2>2. UNCHANGED onceVars
    BY <1>24 DEF UpdateCustomerUser
  <2> QED
    BY <2>1, <2>2, OnceInvFrame DEF Moves, Labels
<1>25. ASSUME NEW r \in Requests, Stop(r) PROVE OnceInv'
  BY <1>25, StopKeepsOnceInv
<1>26. ASSUME NEW slot \in Mobiles \X Scenes, CodeExpires(slot) PROVE OnceInv'
  BY <1>26, CodeExpiresKeepsOnceInv DEF Slots
<1>27. ASSUME NEW m \in Mobiles, PasswordErrExpires(m) PROVE OnceInv'
  BY <1>27, OnceInvSame DEF PasswordErrExpires, vars, onceVars, errVars, tokenVars, userVars
<1>28. CASE UNCHANGED vars
  BY <1>28, OnceInvSame DEF vars, onceVars, errVars, tokenVars, userVars
<1> QED
  BY <1>1, <1>2, <1>3, <1>4, <1>5, <1>6, <1>7, <1>8, <1>9, <1>10, <1>11, <1>12, <1>13,
     <1>14, <1>15, <1>16, <1>17, <1>18, <1>19, <1>20, <1>21, <1>22, <1>23, <1>24, <1>25,
        <1>26, <1>27, <1>28, SMTT(60) DEF NextCases

(* A captcha, a ticket or a code lets one request through, unless two read *)
(* it before its deletion, which may be lost; and a code that was stored   *)
(* last stays until it is used or expires, unless it was stored while an   *)
(* older one was being deleted (adaptor/redis/verify.go:65).               *)
THEOREM OneTimeAlways == Spec => []OneTime
<1>1. Init => Typed /\ OnceInv
  <2> SUFFICES ASSUME Init PROVE OnceInv
    BY InitTyped
  <2>1. \A r \in Requests : request[r].pc = "Idle"
    BY DEF Init, NoRequest
  <2>2. \A s \in Slots : OldCodes[s] \in Earlier /\ OldCodes[s] \in Range(OldCodes)
    BY LoginAssumption DEF Slots, Earlier, Range
  <2>3. code = OldCodes /\ tickets = OldTickets /\ awaited = code /\ Deleting = {}
    BY <2>1 DEF Init, Deleting
  <2>4. \A x \in Ids \cup Keys : uses[x] = 0
    BY DEF Init
  <2>5. NotSent
    BY <2>2, <2>3, <2>4, LoginAssumption DEF NotSent, Ids, Earlier
  <2>6. Kinds
    BY <2>1, <2>2, <2>3, LoginAssumption DEF Kinds, Slots
  <2>7. UsedGoes /\ NothingAwaited /\ OnceUnlessShared /\ CodeKept
    BY <2>1, <2>3, <2>4 DEF UsedGoes, NothingAwaited, OnceUnlessShared, CodeKept
  <2> QED
    BY <2>5, <2>6, <2>7 DEF OnceInv
<1>2. Typed /\ OnceInv /\ [Next]_vars => (Typed /\ OnceInv)'
  BY NextIsCases, TypeStep, OnceInvStep
<1>3. OnceInv => OneTime
  BY DEF OnceInv, OneTime
<1> QED
  BY <1>1, <1>2, <1>3, PTL DEF Spec
=============================================================================

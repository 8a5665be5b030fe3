--------------------------- MODULE BackOffice_proofs ---------------------------
(***************************************************************************)
(* What BackOffice promises, for every set of requests, administrators,    *)
(* roles and permissions, and for any number of failures.                  *)
(***************************************************************************)
EXTENDS BackOffice, TLAPS

OfUser == {"SetToken", "SetMap", "Password", "GetMap", "Clean", "UpdateRow",
           "DeleteRoles", "InsertRoles", "CommitUser"}
OfRole == {"DeletePerms", "InsertPerms", "CommitPerms"}

(* What a request holds where.                                             *)
ShapeOf(r) ==
  /\ request[r].pc \in OfUser => request[r].user \in Users
  /\ request[r].pc \in OfRole => request[r].role \in Roles
  /\ request[r].pc = "Clean" => request[r].token \in Tokens

Shape == \A r \in Requests : ShapeOf(r)

Typed == TypeOK /\ Shape

USE DEF At

LEMMA NoRequestTyped ==
  ASSUME NEW label \in Labels
  PROVE  /\ NoRequest(label) \in Request
         /\ NoRequest(label).pc = label
         /\ NoRequest(label).user = None /\ NoRequest(label).stamp = None
<1>1. <<>> \in Seq(Roles)
  OBVIOUS
<1> QED
  BY <1>1 DEF NoRequest, Request

(* Only request r changes, and goes from one label to another; most actions *)
(* leave the rest of it as it was.                                         *)
Moves(r, from, to) ==
  /\ request' \in [Requests -> Request]
  /\ \A q \in Requests : q # r => request'[q] = request[q]
  /\ request[r].pc \in from
  /\ request'[r].pc \in to

Keeps(r) ==
  /\ request'[r].user = request[r].user
  /\ request'[r].stamp = request[r].stamp
  /\ request'[r].token = request[r].token
  /\ request'[r].list = request[r].list
  /\ request'[r].role = request[r].role
  /\ request'[r].set = request[r].set
  /\ request'[r].gone = request[r].gone
  /\ request'[r].rows = request[r].rows
  /\ request'[r].taken = request[r].taken

LEMMA BecomesTyped ==
  ASSUME Typed, NEW r \in Requests, NEW next \in Request, Becomes(r, next)
  PROVE  /\ request' \in [Requests -> Request]
         /\ \A q \in Requests : q # r => request'[q] = request[q]
         /\ request'[r] = next
BY DEF Becomes, Typed, TypeOK

LEMMA GoToTyped ==
  ASSUME Typed, NEW r \in Requests, NEW label \in Labels, GoTo(r, label)
  PROVE  /\ request' \in [Requests -> Request]
         /\ \A q \in Requests : q # r => request'[q] = request[q]
         /\ request'[r].pc = label
         /\ label # "Done" => Keeps(r)
         /\ label = "Done" => request'[r] = NoRequest("Done")
<1>0. request[r] \in Request
  BY DEF Typed, TypeOK
<1>1. CASE label = "Done"
  <2>1. Becomes(r, NoRequest("Done")) /\ NoRequest("Done") \in Request
    BY <1>1, NoRequestTyped DEF GoTo, Labels
  <2> QED
    BY <1>1, <2>1, BecomesTyped, NoRequestTyped
<1>2. CASE label # "Done"
  <2> DEFINE next == [request[r] EXCEPT !.pc = label]
  <2>1. next \in Request
    BY <1>0 DEF Request
  <2>2. /\ next.pc = label /\ next.user = request[r].user /\ next.stamp = request[r].stamp
        /\ next.token = request[r].token /\ next.list = request[r].list
        /\ next.role = request[r].role /\ next.set = request[r].set
        /\ next.gone = request[r].gone /\ next.rows = request[r].rows
        /\ next.taken = request[r].taken
    BY <1>0 DEF Request
  <2>3. Becomes(r, next)
    BY <1>2 DEF GoTo
  <2> HIDE DEF next
  <2> QED
    BY <1>2, <2>1, <2>2, <2>3, BecomesTyped DEF Keeps
<1> QED
  BY <1>1, <1>2

LEMMA Fields ==
  ASSUME Typed, NEW r \in Requests
  PROVE  /\ request[r] \in Request
         /\ request[r].pc \in Labels
         /\ request[r].pc \in OfUser => request[r].user \in Users
         /\ request[r].pc \in OfRole => request[r].role \in Roles
         /\ request[r].pc = "Clean" => request[r].token \in Tokens
         /\ request[r].stamp \in Requests \cup {None}
         /\ request[r].enable \in BOOLEAN
         /\ request[r].list \in Seq(Roles)
         /\ request[r].set \in SUBSET Perms
         /\ request[r].gone \in SUBSET UserRole
         /\ request[r].rows \in SUBSET UserRole
         /\ request[r].taken \in SUBSET Perms
<1>1. request[r] \in Request /\ ShapeOf(r)
  BY DEF Typed, TypeOK, Shape
<1> QED
  BY <1>1 DEF Request, ShapeOf

LEMMA RowsTyped ==
  ASSUME NEW list \in Seq(Roles), NEW n \in Nat
  PROVE  /\ RowsOf(list, n) \in SUBSET UserRole
         /\ RolesOf(RowsOf(list, n)) = ToSet(list)
         /\ ToSet(list) \in SUBSET Roles
         /\ n + Len(list) \in Nat
<1>1. \A k \in 1 .. Len(list) : list[k] \in Roles
  OBVIOUS
<1>2. RowsOf(list, n) \subseteq UserRole
  BY <1>1 DEF RowsOf, UserRole
<1>3. ToSet(list) = {list[k] : k \in 1 .. Len(list)}
  BY DEF ToSet
<1>4. RolesOf(RowsOf(list, n)) = {list[k] : k \in 1 .. Len(list)}
  <2> DEFINE row(k) == [id |-> n + k, role |-> list[k]]
  <2>1. \A k \in 1 .. Len(list) : row(k) \in RowsOf(list, n) /\ row(k).role = list[k]
    BY DEF RowsOf
  <2>2. \A y \in RowsOf(list, n) : \E k \in 1 .. Len(list) : y = row(k) /\ y.role = list[k]
    BY DEF RowsOf
  <2> HIDE DEF row
  <2> QED
    BY <2>1, <2>2 DEF RolesOf
<1> QED
  BY <1>1, <1>2, <1>3, <1>4

LEMMA SessionTyped ==
  ASSUME Typed, NEW t \in Tokens
  PROVE  session[t].user \in Users \cup {None} /\ session[t].stamp \in Requests \cup {None}
BY DEF Typed, TypeOK, Session

LEMMA GetUserMoves ==
  ASSUME Typed, NEW r \in Requests, NEW u \in Users, GetUser(r, u)
  PROVE  Moves(r, {"Idle"}, {"SetToken"})
         /\ request'[r].user = u /\ request'[r].stamp = stamp[u]
<1> DEFINE next == [NoRequest("SetToken") EXCEPT !.user = u, !.stamp = stamp[u]]
<1>1. /\ NoRequest("SetToken") \in Request
      /\ NoRequest("SetToken").pc = "SetToken"
      /\ NoRequest("SetToken").stamp = None
      /\ request[r] \in Request /\ request[r].pc \in {"Idle"}
  BY NoRequestTyped, Fields DEF GetUser, Labels
<1>2. stamp[u] \in Requests \cup {None}
  BY <1>1, Fields, RowsTyped, SessionTyped, BackOfficeAssumption DEF Typed, TypeOK, OfUser,
     OfRole, LetsIn, GetUser
<1>3. next \in Request
  BY <1>1, <1>2, ZenonT(60) DEF Request, Labels
<1>4. next.pc = "SetToken" /\ next.user = u /\ next.stamp = stamp[u]
  BY <1>1 DEF Request
<1>5. Becomes(r, next)
  BY DEF GetUser
<1> HIDE DEF next
<1> QED
  BY <1>1, <1>3, <1>4, <1>5, BecomesTyped DEF Moves

LEMMA SetTokenMoves ==
  ASSUME Typed, NEW r \in Requests, SetToken(r)
  PROVE  Moves(r, {"SetToken"}, {"SetMap"}) /\ Keeps(r)
<1>1. GoTo(r, "SetMap") /\ "SetMap" \in Labels
  BY DEF SetToken, Labels
<1>2. request[r].pc \in {"SetToken"}
  BY Fields DEF SetToken
<1> QED
  BY <1>1, <1>2, GoToTyped DEF Moves

LEMMA SetMapMoves ==
  ASSUME Typed, NEW r \in Requests, SetMap(r)
  PROVE  Moves(r, {"SetMap"}, {"Done"}) /\ request'[r] = NoRequest("Done")
<1>1. GoTo(r, "Done") /\ "Done" \in Labels
  BY DEF SetMap, Labels
<1>2. request[r].pc \in {"SetMap"}
  BY Fields DEF SetMap
<1> QED
  BY <1>1, <1>2, GoToTyped DEF Moves

LEMMA AdminUserLogoutMoves ==
  ASSUME Typed, NEW r \in Requests, NEW t \in Tokens, AdminUserLogout(r, t)
  PROVE  Moves(r, {"Idle"}, {"GetMap"})
         /\ request'[r].user = session[t].user /\ request'[r].stamp = None
<1> DEFINE next == [NoRequest("GetMap") EXCEPT !.user = session[t].user]
<1>1. /\ NoRequest("GetMap") \in Request
      /\ NoRequest("GetMap").pc = "GetMap"
      /\ NoRequest("GetMap").stamp = None
      /\ request[r] \in Request /\ request[r].pc \in {"Idle"}
  BY NoRequestTyped, Fields DEF AdminUserLogout, Labels
<1>2. session[t].user \in Users
  BY <1>1, Fields, RowsTyped, SessionTyped, BackOfficeAssumption DEF Typed, TypeOK, OfUser,
     OfRole, LetsIn, AdminUserLogout
<1>3. next \in Request
  BY <1>1, <1>2, ZenonT(60) DEF Request, Labels
<1>4. next.pc = "GetMap" /\ next.user = session[t].user /\ next.stamp = None
  BY <1>1 DEF Request
<1>5. Becomes(r, next)
  BY DEF AdminUserLogout
<1> HIDE DEF next
<1> QED
  BY <1>1, <1>3, <1>4, <1>5, BecomesTyped DEF Moves

LEMMA MobilePasswordResetMoves ==
  ASSUME Typed, NEW r \in Requests, NEW u \in Users, MobilePasswordReset(r, u)
  PROVE  Moves(r, {"Idle"}, {"Password"})
         /\ request'[r].user = u /\ request'[r].stamp = None
<1> DEFINE next == [NoRequest("Password") EXCEPT !.user = u]
<1>1. /\ NoRequest("Password") \in Request
      /\ NoRequest("Password").pc = "Password"
      /\ NoRequest("Password").stamp = None
      /\ request[r] \in Request /\ request[r].pc \in {"Idle"}
  BY NoRequestTyped, Fields DEF MobilePasswordReset, Labels
<1>2. u \in Users
  BY <1>1, Fields, RowsTyped, SessionTyped, BackOfficeAssumption DEF Typed, TypeOK, OfUser,
     OfRole, LetsIn, MobilePasswordReset
<1>3. next \in Request
  BY <1>1, <1>2, ZenonT(60) DEF Request, Labels
<1>4. next.pc = "Password" /\ next.user = u /\ next.stamp = None
  BY <1>1 DEF Request
<1>5. Becomes(r, next)
  BY DEF MobilePasswordReset
<1> HIDE DEF next
<1> QED
  BY <1>1, <1>3, <1>4, <1>5, BecomesTyped DEF Moves

LEMMA UpdateUserPasswordMoves ==
  ASSUME Typed, NEW r \in Requests, UpdateUserPassword(r)
  PROVE  Moves(r, {"Password"}, {"GetMap"}) /\ Keeps(r)
<1>1. GoTo(r, "GetMap") /\ "GetMap" \in Labels
  BY DEF UpdateUserPassword, Labels
<1>2. request[r].pc \in {"Password"}
  BY Fields DEF UpdateUserPassword
<1> QED
  BY <1>1, <1>2, GoToTyped DEF Moves

LEMMA GetNewestTokenMoves ==
  ASSUME Typed, NEW r \in Requests, GetNewestToken(r)
  PROVE  /\ Moves(r, {"GetMap"}, {"Done", "Clean"})
         /\ request'[r].pc = "Done" => newest[request[r].user] = None
         /\ request'[r].pc = "Clean" => /\ request'[r].user = request[r].user
                                       /\ request'[r].token = newest[request[r].user]
                                       /\ request'[r].token \in Tokens
         /\ request'[r].stamp \in {request[r].stamp, None}
<1> DEFINE t == newest[request[r].user]
           next == [request[r] EXCEPT !.pc = "Clean", !.token = t]
<1>1. request[r] \in Request /\ request[r].pc = "GetMap" /\ request[r].user \in Users
  BY Fields DEF GetNewestToken, OfUser
<1>2. t \in Tokens \cup {None}
  BY <1>1 DEF Typed, TypeOK
<1>3. CASE t = None
  BY <1>1, <1>3, GoToTyped, NoRequestTyped DEF GetNewestToken, Labels, Moves
<1>4. CASE t # None
  <2>1. next \in Request
    BY <1>1, <1>2 DEF Request, Labels
  <2>2. /\ next.pc = "Clean"
        /\ next.user = request[r].user
        /\ next.token = t
        /\ next.stamp = request[r].stamp
    BY <1>1 DEF Request
  <2>3. Becomes(r, next)
    BY <1>4 DEF GetNewestToken
  <2> HIDE DEF next
  <2> QED
    BY <1>1, <1>2, <1>4, <2>1, <2>2, <2>3, BecomesTyped DEF Moves
<1> QED
  BY <1>3, <1>4

LEMMA CleanAdminUserTokenMoves ==
  ASSUME Typed, NEW r \in Requests, CleanAdminUserToken(r)
  PROVE  Moves(r, {"Clean"}, {"Done"}) /\ request'[r] = NoRequest("Done")
<1>1. GoTo(r, "Done") /\ "Done" \in Labels
  BY DEF CleanAdminUserToken, Labels
<1>2. request[r].pc \in {"Clean"}
  BY Fields DEF CleanAdminUserToken
<1> QED
  BY <1>1, <1>2, GoToTyped DEF Moves

LEMMA CreateUserMoves ==
  ASSUME Typed, NEW r \in Requests, NEW u \in Users, NEW list \in RoleLists, CreateUser(r,
         u, list)
  PROVE  Moves(r, {"Idle"}, {"Done"}) /\ request'[r] = NoRequest("Done")
<1>1. GoTo(r, "Done") /\ "Done" \in Labels
  BY DEF CreateUser, Labels
<1>2. request[r].pc \in {"Idle"}
  BY Fields DEF CreateUser
<1> QED
  BY <1>1, <1>2, GoToTyped DEF Moves

LEMMA UpdateUserMoves ==
  ASSUME Typed, NEW r \in Requests, NEW u \in Users, NEW list \in RoleLists,
         NEW enable \in BOOLEAN, UpdateUser(r, u, list, enable)
  PROVE  Moves(r, {"Idle"}, {"UpdateRow"})
         /\ request'[r].user = u /\ request'[r].list = list /\ request'[r].stamp = None
<1> DEFINE next == [NoRequest("UpdateRow") EXCEPT !.user = u, !.list = list, !.enable = enable]
<1>1. /\ NoRequest("UpdateRow") \in Request
      /\ NoRequest("UpdateRow").pc = "UpdateRow"
      /\ NoRequest("UpdateRow").stamp = None
      /\ request[r] \in Request /\ request[r].pc \in {"Idle"}
  BY NoRequestTyped, Fields DEF UpdateUser, Labels
<1>2. list \in Seq(Roles)
  BY <1>1, Fields, RowsTyped, SessionTyped, BackOfficeAssumption DEF Typed, TypeOK, OfUser,
     OfRole, LetsIn, UpdateUser
<1>3. next \in Request
  BY <1>1, <1>2, ZenonT(60) DEF Request, Labels
<1>4. next.pc = "UpdateRow" /\ next.user = u /\ next.list = list /\ next.stamp = None
  BY <1>1 DEF Request
<1>5. Becomes(r, next)
  BY DEF UpdateUser
<1> HIDE DEF next
<1> QED
  BY <1>1, <1>3, <1>4, <1>5, BecomesTyped DEF Moves

LEMMA UpdateUserRowMoves ==
  ASSUME Typed, NEW r \in Requests, UpdateUserRow(r)
  PROVE  Moves(r, {"UpdateRow"}, {"DeleteRoles"}) /\ Keeps(r)
<1>1. GoTo(r, "DeleteRoles") /\ "DeleteRoles" \in Labels
  BY DEF UpdateUserRow, Labels
<1>2. request[r].pc \in {"UpdateRow"}
  BY Fields DEF UpdateUserRow
<1> QED
  BY <1>1, <1>2, GoToTyped DEF Moves

LEMMA DeleteUserRolesMoves ==
  ASSUME Typed, NEW r \in Requests, DeleteUserRoles(r)
  PROVE  Moves(r, {"DeleteRoles"}, {"InsertRoles"})
         /\ request'[r].user = request[r].user
         /\ request'[r].list = request[r].list
         /\ request'[r].gone = userRole[request[r].user]
         /\ request'[r].stamp = request[r].stamp
<1> DEFINE next == [request[r] EXCEPT !.pc = "InsertRoles", !.gone = userRole[request[r].user]]
<1>1. /\ NoRequest("InsertRoles") \in Request
      /\ NoRequest("InsertRoles").pc = "InsertRoles"
      /\ NoRequest("InsertRoles").stamp = None
      /\ request[r] \in Request /\ request[r].pc \in {"DeleteRoles"}
  BY NoRequestTyped, Fields DEF DeleteUserRoles, Labels
<1>2. userRole[request[r].user] \in SUBSET UserRole /\ request[r].user \in Users
  BY <1>1, Fields, RowsTyped, SessionTyped, BackOfficeAssumption DEF Typed, TypeOK, OfUser,
     OfRole, LetsIn, DeleteUserRoles
<1>3. next \in Request
  BY <1>1, <1>2, ZenonT(60) DEF Request, Labels
<1>4. /\ next.pc = "InsertRoles"
      /\ next.user = request[r].user
      /\ next.list = request[r].list
      /\ next.gone = userRole[request[r].user]
      /\ next.stamp = request[r].stamp
  BY <1>1 DEF Request
<1>5. Becomes(r, next)
  BY DEF DeleteUserRoles
<1> HIDE DEF next
<1> QED
  BY <1>1, <1>3, <1>4, <1>5, BecomesTyped DEF Moves

LEMMA InsertUserRolesMoves ==
  ASSUME Typed, NEW r \in Requests, InsertUserRoles(r)
  PROVE  Moves(r, {"InsertRoles"}, {"CommitUser"})
         /\ request'[r].user = request[r].user
         /\ request'[r].list = request[r].list
         /\ request'[r].gone = request[r].gone
         /\ request'[r].rows = RowsOf(request[r].list, lastId)
         /\ request'[r].stamp = request[r].stamp
<1> DEFINE next == [request[r] EXCEPT !.pc = "CommitUser", !.rows = RowsOf(request[r].list, lastId)]
<1>1. /\ NoRequest("CommitUser") \in Request
      /\ NoRequest("CommitUser").pc = "CommitUser"
      /\ NoRequest("CommitUser").stamp = None
      /\ request[r] \in Request /\ request[r].pc \in {"InsertRoles"}
  BY NoRequestTyped, Fields DEF InsertUserRoles, Labels
<1>2. RowsOf(request[r].list, lastId) \in SUBSET UserRole /\ request[r].user \in Users
  BY <1>1, Fields, RowsTyped, SessionTyped, BackOfficeAssumption DEF Typed, TypeOK, OfUser,
     OfRole, LetsIn, InsertUserRoles
<1>3. next \in Request
  BY <1>1, <1>2, ZenonT(60) DEF Request, Labels
<1>4. /\ next.pc = "CommitUser"
      /\ next.user = request[r].user
      /\ next.list = request[r].list
      /\ next.gone = request[r].gone
      /\ next.rows = RowsOf(request[r].list, lastId)
      /\ next.stamp = request[r].stamp
  BY <1>1 DEF Request
<1>5. Becomes(r, next)
  BY DEF InsertUserRoles
<1> HIDE DEF next
<1> QED
  BY <1>1, <1>3, <1>4, <1>5, BecomesTyped DEF Moves

LEMMA CommitUserMoves ==
  ASSUME Typed, NEW r \in Requests, CommitUser(r)
  PROVE  Moves(r, {"CommitUser"}, {"Done"}) /\ request'[r] = NoRequest("Done")
<1>1. GoTo(r, "Done") /\ "Done" \in Labels
  BY DEF CommitUser, Labels
<1>2. request[r].pc \in {"CommitUser"}
  BY Fields DEF CommitUser
<1> QED
  BY <1>1, <1>2, GoToTyped DEF Moves

LEMMA DeleteUserMoves ==
  ASSUME Typed, NEW r \in Requests, NEW u \in Users, DeleteUser(r, u)
  PROVE  Moves(r, {"Idle"}, {"Done"}) /\ request'[r] = NoRequest("Done")
<1>1. GoTo(r, "Done") /\ "Done" \in Labels
  BY DEF DeleteUser, Labels
<1>2. request[r].pc \in {"Idle"}
  BY Fields DEF DeleteUser
<1> QED
  BY <1>1, <1>2, GoToTyped DEF Moves

LEMMA SetRolePermsMoves ==
  ASSUME Typed, NEW r \in Requests, NEW role \in Roles, NEW set \in PermSets,
         SetRolePerms(r, role, set)
  PROVE  Moves(r, {"Idle"}, {"DeletePerms"})
         /\ request'[r].role = role /\ request'[r].set = set /\ request'[r].stamp = None
<1> DEFINE next == [NoRequest("DeletePerms") EXCEPT !.role = role, !.set = set]
<1>1. /\ NoRequest("DeletePerms") \in Request
      /\ NoRequest("DeletePerms").pc = "DeletePerms"
      /\ NoRequest("DeletePerms").stamp = None
      /\ request[r] \in Request /\ request[r].pc \in {"Idle"}
  BY NoRequestTyped, Fields DEF SetRolePerms, Labels
<1>2. set \in SUBSET Perms
  BY <1>1, Fields, RowsTyped, SessionTyped, BackOfficeAssumption DEF Typed, TypeOK, OfUser,
     OfRole, LetsIn, SetRolePerms
<1>3. next \in Request
  BY <1>1, <1>2, ZenonT(60) DEF Request, Labels
<1>4. next.pc = "DeletePerms" /\ next.role = role /\ next.set = set /\ next.stamp = None
  BY <1>1 DEF Request
<1>5. Becomes(r, next)
  BY DEF SetRolePerms
<1> HIDE DEF next
<1> QED
  BY <1>1, <1>3, <1>4, <1>5, BecomesTyped DEF Moves

LEMMA DeleteRolePermsMoves ==
  ASSUME Typed, NEW r \in Requests, DeleteRolePerms(r)
  PROVE  Moves(r, {"DeletePerms"}, {"InsertPerms"})
         /\ request'[r].role = request[r].role
         /\ request'[r].set = request[r].set
         /\ request'[r].taken = rolePerm[request[r].role]
         /\ request'[r].stamp = request[r].stamp
<1> DEFINE next == [request[r] EXCEPT !.pc = "InsertPerms", !.taken = rolePerm[request[r].role]]
<1>1. /\ NoRequest("InsertPerms") \in Request
      /\ NoRequest("InsertPerms").pc = "InsertPerms"
      /\ NoRequest("InsertPerms").stamp = None
      /\ request[r] \in Request /\ request[r].pc \in {"DeletePerms"}
  BY NoRequestTyped, Fields DEF DeleteRolePerms, Labels
<1>2. rolePerm[request[r].role] \in SUBSET Perms /\ request[r].role \in Roles
  BY <1>1, Fields, RowsTyped, SessionTyped, BackOfficeAssumption DEF Typed, TypeOK, OfUser,
     OfRole, LetsIn, DeleteRolePerms
<1>3. next \in Request
  BY <1>1, <1>2, ZenonT(60) DEF Request, Labels
<1>4. /\ next.pc = "InsertPerms"
      /\ next.role = request[r].role
      /\ next.set = request[r].set
      /\ next.taken = rolePerm[request[r].role]
      /\ next.stamp = request[r].stamp
  BY <1>1 DEF Request
<1>5. Becomes(r, next)
  BY DEF DeleteRolePerms
<1> HIDE DEF next
<1> QED
  BY <1>1, <1>3, <1>4, <1>5, BecomesTyped DEF Moves

LEMMA InsertRolePermsMoves ==
  ASSUME Typed, NEW r \in Requests, InsertRolePerms(r)
  PROVE  Moves(r, {"InsertPerms"}, {"CommitPerms"}) /\ Keeps(r)
<1>1. GoTo(r, "CommitPerms") /\ "CommitPerms" \in Labels
  BY DEF InsertRolePerms, Labels
<1>2. request[r].pc \in {"InsertPerms"}
  BY Fields DEF InsertRolePerms
<1> QED
  BY <1>1, <1>2, GoToTyped DEF Moves

LEMMA CommitRolePermsMoves ==
  ASSUME Typed, NEW r \in Requests, CommitRolePerms(r)
  PROVE  Moves(r, {"CommitPerms"}, {"Done"}) /\ request'[r] = NoRequest("Done")
<1>1. GoTo(r, "Done") /\ "Done" \in Labels
  BY DEF CommitRolePerms, Labels
<1>2. request[r].pc \in {"CommitPerms"}
  BY Fields DEF CommitRolePerms
<1> QED
  BY <1>1, <1>2, GoToTyped DEF Moves

LEMMA DeletePermissionMoves ==
  ASSUME Typed, NEW r \in Requests, NEW p \in Perms, DeletePermission(r, p)
  PROVE  Moves(r, {"Idle"}, {"Done"}) /\ request'[r] = NoRequest("Done")
<1>1. GoTo(r, "Done") /\ "Done" \in Labels
  BY DEF DeletePermission, Labels
<1>2. request[r].pc \in {"Idle"}
  BY Fields DEF DeletePermission
<1> QED
  BY <1>1, <1>2, GoToTyped DEF Moves

LEMMA StopMoves ==
  ASSUME Typed, NEW r \in Requests, Stop(r)
  PROVE  Moves(r, Labels \ {"Idle", "Done"}, {"Done"}) /\ request'[r] = NoRequest("Done")
<1>1. GoTo(r, "Done") /\ "Done" \in Labels
  BY DEF Stop, Labels
<1>2. request[r].pc \in Labels \ {"Idle", "Done"}
  BY Fields DEF Stop
<1> QED
  BY <1>1, <1>2, GoToTyped DEF Moves

(* Next, with its stuttering steps.                                        *)
NextCases ==
  \/ \E r \in Requests :
       \/ \E u \in Users : GetUser(r, u)
       \/ SetToken(r)
       \/ SetMap(r)
       \/ \E t \in Tokens : AdminUserLogout(r, t)
       \/ \E u \in Users : MobilePasswordReset(r, u)
       \/ UpdateUserPassword(r)
       \/ GetNewestToken(r)
       \/ CleanAdminUserToken(r)
       \/ \E u \in Users, list \in RoleLists : CreateUser(r, u, list)
       \/ \E u \in Users, list \in RoleLists, enable \in BOOLEAN : UpdateUser(r, u, list, enable)
       \/ UpdateUserRow(r)
       \/ DeleteUserRoles(r)
       \/ InsertUserRoles(r)
       \/ CommitUser(r)
       \/ \E u \in Users : DeleteUser(r, u)
       \/ \E role \in Roles, set \in PermSets : SetRolePerms(r, role, set)
       \/ DeleteRolePerms(r)
       \/ InsertRolePerms(r)
       \/ CommitRolePerms(r)
       \/ \E p \in Perms : DeletePermission(r, p)
       \/ Stop(r)
  \/ UNCHANGED vars

LEMMA NextIsCases == [Next]_vars => NextCases
BY Zenon DEF Next, NextCases

LEMMA TypeStep == Typed /\ NextCases => Typed'
<1> SUFFICES ASSUME Typed, NextCases PROVE Typed'
  OBVIOUS
<1>1. ASSUME NEW r \in Requests, NEW u \in Users, GetUser(r, u) PROVE Typed'
  <2>1. Moves(r, {"Idle"}, {"SetToken"})
    BY <1>1, GetUserMoves
  <2>3. UNCHANGED <<known, enabled, deleted, stamp, userRole, lastId, wantedRoles,
                    rolePerm, perms, wantedPerms, mixed, session, newest, outdated, doomed, faults>>
    BY <1>1 DEF GetUser, Restamp, Doom, userVars, roleVars, permVars, tokenVars
  <2>4. ShapeOf(r)'
    BY <1>1, <2>1, GetUserMoves, Fields DEF Moves, Keeps, ShapeOf, OfUser, OfRole, Tokens
  <2>5. Shape'
    BY <2>1, <2>4 DEF Typed, Shape, ShapeOf, Moves, Tokens
  <2> QED
    BY <2>1, <2>3, <2>5 DEF Moves, Typed, TypeOK
<1>2. ASSUME NEW r \in Requests, SetToken(r) PROVE Typed'
  <2>1. Moves(r, {"SetToken"}, {"SetMap"})
    BY <1>2, SetTokenMoves
  <2>2. request[r].user \in Users /\ r \in Tokens
    BY <2>1, Fields DEF Moves, OfUser, OfRole, Tokens
  <2>3. session' \in [Tokens -> Session]
    BY <1>2, <2>2, Fields, RowsTyped, BackOfficeAssumption DEF SetToken, Restamp, Doom,
       Session, NoSession, Fault, Tokens, Typed, TypeOK
  <2>4. UNCHANGED <<known, enabled, deleted, stamp, userRole, lastId, wantedRoles,
                    rolePerm, perms, wantedPerms, mixed, newest, outdated, doomed, faults>>
    BY <1>2 DEF SetToken, Restamp, Doom, userVars, roleVars, permVars, tokenVars
  <2>5. ShapeOf(r)'
    BY <1>2, <2>1, SetTokenMoves, Fields DEF Moves, Keeps, ShapeOf, OfUser, OfRole, Tokens
  <2>6. Shape'
    BY <2>1, <2>5 DEF Typed, Shape, ShapeOf, Moves, Tokens
  <2> QED
    BY <2>1, <2>3, <2>4, <2>6 DEF Moves, Typed, TypeOK
<1>3. ASSUME NEW r \in Requests, SetMap(r) PROVE Typed'
  <2>1. Moves(r, {"SetMap"}, {"Done"})
    BY <1>3, SetMapMoves
  <2>2. request[r].user \in Users /\ r \in Tokens
    BY <2>1, Fields DEF Moves, OfUser, OfRole, Tokens
  <2>3. newest' \in [Users -> Tokens \cup {None}]
    BY <1>3, <2>2, Fields, RowsTyped, BackOfficeAssumption DEF SetMap, Restamp, Doom,
       Session, NoSession, Fault, Tokens, Typed, TypeOK
  <2>4. doomed' \subseteq Tokens
    BY <1>3, <2>2, Fields, RowsTyped, BackOfficeAssumption DEF SetMap, Restamp, Doom,
       Session, NoSession, Fault, Tokens, Typed, TypeOK
  <2>5. UNCHANGED <<known, enabled, deleted, stamp, userRole, lastId, wantedRoles,
                    rolePerm, perms, wantedPerms, mixed, session, outdated, faults>>
    BY <1>3 DEF SetMap, Restamp, Doom, userVars, roleVars, permVars, tokenVars
  <2>6. ShapeOf(r)'
    BY <1>3, <2>1, SetMapMoves, Fields DEF Moves, Keeps, ShapeOf, OfUser, OfRole, Tokens
  <2>7. Shape'
    BY <2>1, <2>6 DEF Typed, Shape, ShapeOf, Moves, Tokens
  <2> QED
    BY <2>1, <2>3, <2>4, <2>5, <2>7 DEF Moves, Typed, TypeOK
<1>4. ASSUME NEW r \in Requests, NEW t \in Tokens, AdminUserLogout(r, t) PROVE Typed'
  <2>1. Moves(r, {"Idle"}, {"GetMap"})
    BY <1>4, AdminUserLogoutMoves
  <2>2. r \in Tokens
    BY DEF Tokens
  <2>3. session[t].user \in Users
    BY <1>4, SessionTyped DEF AdminUserLogout, LetsIn
  <2>4. newest[session[t].user] \in Tokens \cup {None}
    BY <2>3 DEF Typed, TypeOK
  <2>5. doomed' \subseteq Tokens
    BY <1>4, <2>4 DEF AdminUserLogout, Doom, Typed, TypeOK
  <2>6. UNCHANGED <<known, enabled, deleted, stamp, userRole, lastId, wantedRoles,
                    rolePerm, perms, wantedPerms, mixed, session, newest, outdated, faults>>
    BY <1>4 DEF AdminUserLogout, Restamp, Doom, userVars, roleVars, permVars, tokenVars
  <2>7. ShapeOf(r)'
    BY <1>4, <2>1, AdminUserLogoutMoves, Fields, SessionTyped DEF AdminUserLogout, LetsIn,
       Moves, Keeps, ShapeOf, OfUser, OfRole, Tokens
  <2>8. Shape'
    BY <2>1, <2>7 DEF Typed, Shape, ShapeOf, Moves, Tokens
  <2> QED
    BY <2>1, <2>5, <2>6, <2>8 DEF Moves, Typed, TypeOK
<1>5. ASSUME NEW r \in Requests, NEW u \in Users, MobilePasswordReset(r, u) PROVE Typed'
  <2>1. Moves(r, {"Idle"}, {"Password"})
    BY <1>5, MobilePasswordResetMoves
  <2>3. UNCHANGED <<known, enabled, deleted, stamp, userRole, lastId, wantedRoles,
                    rolePerm, perms, wantedPerms, mixed, session, newest, outdated, doomed, faults>>
    BY <1>5 DEF MobilePasswordReset, Restamp, Doom, userVars, roleVars, permVars, tokenVars
  <2>4. ShapeOf(r)'
    BY <1>5, <2>1, MobilePasswordResetMoves, Fields DEF Moves, Keeps, ShapeOf, OfUser,
       OfRole, Tokens
  <2>5. Shape'
    BY <2>1, <2>4 DEF Typed, Shape, ShapeOf, Moves, Tokens
  <2> QED
    BY <2>1, <2>3, <2>5 DEF Moves, Typed, TypeOK
<1>6. ASSUME NEW r \in Requests, UpdateUserPassword(r) PROVE Typed'
  <2>1. Moves(r, {"Password"}, {"GetMap"})
    BY <1>6, UpdateUserPasswordMoves
  <2>2. request[r].user \in Users /\ r \in Tokens
    BY <2>1, Fields DEF Moves, OfUser, OfRole, Tokens
  <2>3. stamp' \in [Users -> Requests \cup {None}]
    BY <1>6, <2>2, Fields, RowsTyped, BackOfficeAssumption DEF UpdateUserPassword, Restamp,
       Doom, Session, NoSession, Fault, Tokens, Typed, TypeOK
  <2>4. outdated' \subseteq Tokens
    BY <1>6, <2>2, Fields, RowsTyped, BackOfficeAssumption DEF UpdateUserPassword, Restamp,
       Doom, Session, NoSession, Fault, Tokens, Typed, TypeOK
  <2>5. doomed' \subseteq Tokens
    BY <1>6, <2>2, Fields, RowsTyped, BackOfficeAssumption DEF UpdateUserPassword, Restamp,
       Doom, Session, NoSession, Fault, Tokens, Typed, TypeOK
  <2>6. UNCHANGED <<known, enabled, deleted, userRole, lastId, wantedRoles, rolePerm,
                    perms, wantedPerms, mixed, session, newest, faults>>
    BY <1>6 DEF UpdateUserPassword, Restamp, Doom, userVars, roleVars, permVars, tokenVars
  <2>7. ShapeOf(r)'
    BY <1>6, <2>1, UpdateUserPasswordMoves, Fields DEF Moves, Keeps, ShapeOf, OfUser,
       OfRole, Tokens
  <2>8. Shape'
    BY <2>1, <2>7 DEF Typed, Shape, ShapeOf, Moves, Tokens
  <2> QED
    BY <2>1, <2>3, <2>4, <2>5, <2>6, <2>8 DEF Moves, Typed, TypeOK
<1>7. ASSUME NEW r \in Requests, GetNewestToken(r) PROVE Typed'
  <2>1. Moves(r, {"GetMap"}, {"Done", "Clean"})
    BY <1>7, GetNewestTokenMoves
  <2>3. UNCHANGED <<known, enabled, deleted, stamp, userRole, lastId, wantedRoles,
                    rolePerm, perms, wantedPerms, mixed, session, newest, outdated, doomed, faults>>
    BY <1>7 DEF GetNewestToken, Restamp, Doom, userVars, roleVars, permVars, tokenVars
  <2>4. ShapeOf(r)'
    BY <1>7, <2>1, GetNewestTokenMoves, Fields DEF Moves, Keeps, ShapeOf, OfUser, OfRole,
       Tokens
  <2>5. Shape'
    BY <2>1, <2>4 DEF Typed, Shape, ShapeOf, Moves, Tokens
  <2> QED
    BY <2>1, <2>3, <2>5 DEF Moves, Typed, TypeOK
<1>8. ASSUME NEW r \in Requests, CleanAdminUserToken(r) PROVE Typed'
  <2>1. Moves(r, {"Clean"}, {"Done"})
    BY <1>8, CleanAdminUserTokenMoves
  <2>2. request[r].user \in Users /\ request[r].token \in Tokens /\ r \in Tokens
    BY <2>1, Fields DEF Moves, OfUser, OfRole, Tokens
  <2>3. session' \in [Tokens -> Session]
    BY <1>8, <2>2, Fields, RowsTyped, BackOfficeAssumption DEF CleanAdminUserToken,
       Restamp, Doom, Session, NoSession, Fault, Tokens, Typed, TypeOK
  <2>4. newest' \in [Users -> Tokens \cup {None}]
    BY <1>8, <2>2, Fields, RowsTyped, BackOfficeAssumption DEF CleanAdminUserToken,
       Restamp, Doom, Session, NoSession, Fault, Tokens, Typed, TypeOK
  <2>5. UNCHANGED <<known, enabled, deleted, stamp, userRole, lastId, wantedRoles,
                    rolePerm, perms, wantedPerms, mixed, outdated, doomed, faults>>
    BY <1>8 DEF CleanAdminUserToken, Restamp, Doom, userVars, roleVars, permVars, tokenVars
  <2>6. ShapeOf(r)'
    BY <1>8, <2>1, CleanAdminUserTokenMoves, Fields DEF Moves, Keeps, ShapeOf, OfUser,
       OfRole, Tokens
  <2>7. Shape'
    BY <2>1, <2>6 DEF Typed, Shape, ShapeOf, Moves, Tokens
  <2> QED
    BY <2>1, <2>3, <2>4, <2>5, <2>7 DEF Moves, Typed, TypeOK
<1>9. ASSUME NEW r \in Requests, NEW u \in Users, NEW list \in RoleLists, CreateUser(r, u,
             list)
      PROVE  Typed'
  <2>1. Moves(r, {"Idle"}, {"Done"})
    BY <1>9, CreateUserMoves
  <2>2. r \in Tokens
    BY DEF Tokens
  <2>3. known' \subseteq Users
    BY <1>9, <2>2, Fields, RowsTyped, BackOfficeAssumption DEF CreateUser, Restamp, Doom,
       Session, NoSession, Fault, Tokens, Typed, TypeOK
  <2>4. enabled' \in [Users -> BOOLEAN]
    BY <1>9, <2>2, Fields, RowsTyped, BackOfficeAssumption DEF CreateUser, Restamp, Doom,
       Session, NoSession, Fault, Tokens, Typed, TypeOK
  <2>5. stamp' \in [Users -> Requests \cup {None}]
    BY <1>9, <2>2, Fields, RowsTyped, BackOfficeAssumption DEF CreateUser, Restamp, Doom,
       Session, NoSession, Fault, Tokens, Typed, TypeOK
  <2>6. userRole' \in [Users -> SUBSET UserRole]
    BY <1>9, <2>2, Fields, RowsTyped, BackOfficeAssumption DEF CreateUser, Restamp, Doom,
       Session, NoSession, Fault, Tokens, Typed, TypeOK
  <2>7. lastId' \in Nat
    BY <1>9, <2>2, Fields, RowsTyped, BackOfficeAssumption DEF CreateUser, Restamp, Doom,
       Session, NoSession, Fault, Tokens, Typed, TypeOK
  <2>8. wantedRoles' \in [Users -> SUBSET Roles]
    BY <1>9, <2>2, Fields, RowsTyped, BackOfficeAssumption DEF CreateUser, Restamp, Doom,
       Session, NoSession, Fault, Tokens, Typed, TypeOK
  <2>9. UNCHANGED <<deleted, rolePerm, perms, wantedPerms, mixed, session, newest,
                    outdated, doomed, faults>>
    BY <1>9 DEF CreateUser, Restamp, Doom, userVars, roleVars, permVars, tokenVars
  <2>10. ShapeOf(r)'
    BY <1>9, <2>1, CreateUserMoves, Fields DEF Moves, Keeps, ShapeOf, OfUser, OfRole, Tokens
  <2>11. Shape'
    BY <2>1, <2>10 DEF Typed, Shape, ShapeOf, Moves, Tokens
  <2> QED
    BY <2>1, <2>3, <2>4, <2>5, <2>6, <2>7, <2>8, <2>9, <2>11 DEF Moves, Typed, TypeOK
<1>10. ASSUME NEW r \in Requests, NEW u \in Users, NEW list \in RoleLists,
              NEW enable \in BOOLEAN, UpdateUser(r, u, list, enable)
       PROVE  Typed'
  <2>1. Moves(r, {"Idle"}, {"UpdateRow"})
    BY <1>10, UpdateUserMoves
  <2>3. UNCHANGED <<known, enabled, deleted, stamp, userRole, lastId, wantedRoles,
                    rolePerm, perms, wantedPerms, mixed, session, newest, outdated, doomed, faults>>
    BY <1>10 DEF UpdateUser, Restamp, Doom, userVars, roleVars, permVars, tokenVars
  <2>4. ShapeOf(r)'
    BY <1>10, <2>1, UpdateUserMoves, Fields DEF Moves, Keeps, ShapeOf, OfUser, OfRole,
       Tokens
  <2>5. Shape'
    BY <2>1, <2>4 DEF Typed, Shape, ShapeOf, Moves, Tokens
  <2> QED
    BY <2>1, <2>3, <2>5 DEF Moves, Typed, TypeOK
<1>11. ASSUME NEW r \in Requests, UpdateUserRow(r) PROVE Typed'
  <2>1. Moves(r, {"UpdateRow"}, {"DeleteRoles"})
    BY <1>11, UpdateUserRowMoves
  <2>3. UNCHANGED <<known, enabled, deleted, stamp, userRole, lastId, wantedRoles,
                    rolePerm, perms, wantedPerms, mixed, session, newest, outdated, doomed, faults>>
    BY <1>11 DEF UpdateUserRow, Restamp, Doom, userVars, roleVars, permVars, tokenVars
  <2>4. ShapeOf(r)'
    BY <1>11, <2>1, UpdateUserRowMoves, Fields DEF Moves, Keeps, ShapeOf, OfUser, OfRole,
       Tokens
  <2>5. Shape'
    BY <2>1, <2>4 DEF Typed, Shape, ShapeOf, Moves, Tokens
  <2> QED
    BY <2>1, <2>3, <2>5 DEF Moves, Typed, TypeOK
<1>12. ASSUME NEW r \in Requests, DeleteUserRoles(r) PROVE Typed'
  <2>1. Moves(r, {"DeleteRoles"}, {"InsertRoles"})
    BY <1>12, DeleteUserRolesMoves
  <2>3. UNCHANGED <<known, enabled, deleted, stamp, userRole, lastId, wantedRoles,
                    rolePerm, perms, wantedPerms, mixed, session, newest, outdated, doomed, faults>>
    BY <1>12 DEF DeleteUserRoles, Restamp, Doom, userVars, roleVars, permVars, tokenVars
  <2>4. ShapeOf(r)'
    BY <1>12, <2>1, DeleteUserRolesMoves, Fields DEF Moves, Keeps, ShapeOf, OfUser, OfRole,
       Tokens
  <2>5. Shape'
    BY <2>1, <2>4 DEF Typed, Shape, ShapeOf, Moves, Tokens
  <2> QED
    BY <2>1, <2>3, <2>5 DEF Moves, Typed, TypeOK
<1>13. ASSUME NEW r \in Requests, InsertUserRoles(r) PROVE Typed'
  <2>1. Moves(r, {"InsertRoles"}, {"CommitUser"})
    BY <1>13, InsertUserRolesMoves
  <2>2. request[r].user \in Users /\ r \in Tokens
    BY <2>1, Fields DEF Moves, OfUser, OfRole, Tokens
  <2>3. lastId' \in Nat
    BY <1>13, <2>2, Fields, RowsTyped, BackOfficeAssumption DEF InsertUserRoles, Restamp,
       Doom, Session, NoSession, Fault, Tokens, Typed, TypeOK
  <2>4. UNCHANGED <<known, enabled, deleted, stamp, userRole, wantedRoles, rolePerm, perms,
                    wantedPerms, mixed, session, newest, outdated, doomed, faults>>
    BY <1>13 DEF InsertUserRoles, Restamp, Doom, userVars, roleVars, permVars, tokenVars
  <2>5. ShapeOf(r)'
    BY <1>13, <2>1, InsertUserRolesMoves, Fields DEF Moves, Keeps, ShapeOf, OfUser, OfRole,
       Tokens
  <2>6. Shape'
    BY <2>1, <2>5 DEF Typed, Shape, ShapeOf, Moves, Tokens
  <2> QED
    BY <2>1, <2>3, <2>4, <2>6 DEF Moves, Typed, TypeOK
<1>14. ASSUME NEW r \in Requests, CommitUser(r) PROVE Typed'
  <2>1. Moves(r, {"CommitUser"}, {"Done"})
    BY <1>14, CommitUserMoves
  <2>2. request[r].user \in Users /\ r \in Tokens
    BY <2>1, Fields DEF Moves, OfUser, OfRole, Tokens
  <2>3. enabled' \in [Users -> BOOLEAN]
    BY <1>14, <2>2, Fields, RowsTyped, BackOfficeAssumption DEF CommitUser, Restamp, Doom,
       Session, NoSession, Fault, Tokens, Typed, TypeOK
  <2>4. stamp' \in [Users -> Requests \cup {None}]
    BY <1>14, <2>2, Fields, RowsTyped, BackOfficeAssumption DEF CommitUser, Restamp, Doom,
       Session, NoSession, Fault, Tokens, Typed, TypeOK
  <2>5. outdated' \subseteq Tokens
    BY <1>14, <2>2, Fields, RowsTyped, BackOfficeAssumption DEF CommitUser, Restamp, Doom,
       Session, NoSession, Fault, Tokens, Typed, TypeOK
  <2>6. userRole' \in [Users -> SUBSET UserRole]
    BY <1>14, <2>2, Fields, RowsTyped, BackOfficeAssumption DEF CommitUser, Restamp, Doom,
       Session, NoSession, Fault, Tokens, Typed, TypeOK
  <2>7. wantedRoles' \in [Users -> SUBSET Roles]
    BY <1>14, <2>2, Fields, RowsTyped, BackOfficeAssumption DEF CommitUser, Restamp, Doom,
       Session, NoSession, Fault, Tokens, Typed, TypeOK
  <2>8. UNCHANGED <<known, deleted, lastId, rolePerm, perms, wantedPerms, mixed, session,
                    newest, doomed, faults>>
    BY <1>14 DEF CommitUser, Restamp, Doom, userVars, roleVars, permVars, tokenVars
  <2>9. ShapeOf(r)'
    BY <1>14, <2>1, CommitUserMoves, Fields DEF Moves, Keeps, ShapeOf, OfUser, OfRole,
       Tokens
  <2>10. Shape'
    BY <2>1, <2>9 DEF Typed, Shape, ShapeOf, Moves, Tokens
  <2> QED
    BY <2>1, <2>3, <2>4, <2>5, <2>6, <2>7, <2>8, <2>10 DEF Moves, Typed, TypeOK
<1>15. ASSUME NEW r \in Requests, NEW u \in Users, DeleteUser(r, u) PROVE Typed'
  <2>1. Moves(r, {"Idle"}, {"Done"})
    BY <1>15, DeleteUserMoves
  <2>2. r \in Tokens
    BY DEF Tokens
  <2>3. deleted' \subseteq Users
    BY <1>15, <2>2, Fields, RowsTyped, BackOfficeAssumption DEF DeleteUser, Restamp, Doom,
       Session, NoSession, Fault, Tokens, Typed, TypeOK
  <2>4. UNCHANGED <<known, enabled, stamp, userRole, lastId, wantedRoles, rolePerm, perms,
                    wantedPerms, mixed, session, newest, outdated, doomed, faults>>
    BY <1>15 DEF DeleteUser, Restamp, Doom, userVars, roleVars, permVars, tokenVars
  <2>5. ShapeOf(r)'
    BY <1>15, <2>1, DeleteUserMoves, Fields DEF Moves, Keeps, ShapeOf, OfUser, OfRole,
       Tokens
  <2>6. Shape'
    BY <2>1, <2>5 DEF Typed, Shape, ShapeOf, Moves, Tokens
  <2> QED
    BY <2>1, <2>3, <2>4, <2>6 DEF Moves, Typed, TypeOK
<1>16. ASSUME NEW r \in Requests, NEW role \in Roles, NEW set \in PermSets, SetRolePerms(r,
              role, set)
       PROVE  Typed'
  <2>1. Moves(r, {"Idle"}, {"DeletePerms"})
    BY <1>16, SetRolePermsMoves
  <2>3. UNCHANGED <<known, enabled, deleted, stamp, userRole, lastId, wantedRoles,
                    rolePerm, perms, wantedPerms, mixed, session, newest, outdated, doomed, faults>>
    BY <1>16 DEF SetRolePerms, Restamp, Doom, userVars, roleVars, permVars, tokenVars
  <2>4. ShapeOf(r)'
    BY <1>16, <2>1, SetRolePermsMoves, Fields DEF Moves, Keeps, ShapeOf, OfUser, OfRole,
       Tokens
  <2>5. Shape'
    BY <2>1, <2>4 DEF Typed, Shape, ShapeOf, Moves, Tokens
  <2> QED
    BY <2>1, <2>3, <2>5 DEF Moves, Typed, TypeOK
<1>17. ASSUME NEW r \in Requests, DeleteRolePerms(r) PROVE Typed'
  <2>1. Moves(r, {"DeletePerms"}, {"InsertPerms"})
    BY <1>17, DeleteRolePermsMoves
  <2>2. request[r].role \in Roles /\ r \in Tokens
    BY <2>1, Fields DEF Moves, OfUser, OfRole, Tokens
  <2>3. mixed' \subseteq Roles
    BY <1>17, <2>2, Fields, RowsTyped, BackOfficeAssumption DEF DeleteRolePerms, Restamp,
       Doom, Session, NoSession, Fault, Tokens, Typed, TypeOK
  <2>4. UNCHANGED <<known, enabled, deleted, stamp, userRole, lastId, wantedRoles,
                    rolePerm, perms, wantedPerms, session, newest, outdated, doomed, faults>>
    BY <1>17 DEF DeleteRolePerms, Restamp, Doom, userVars, roleVars, permVars, tokenVars
  <2>5. ShapeOf(r)'
    BY <1>17, <2>1, DeleteRolePermsMoves, Fields DEF Moves, Keeps, ShapeOf, OfUser, OfRole,
       Tokens
  <2>6. Shape'
    BY <2>1, <2>5 DEF Typed, Shape, ShapeOf, Moves, Tokens
  <2> QED
    BY <2>1, <2>3, <2>4, <2>6 DEF Moves, Typed, TypeOK
<1>18. ASSUME NEW r \in Requests, InsertRolePerms(r) PROVE Typed'
  <2>1. Moves(r, {"InsertPerms"}, {"CommitPerms"})
    BY <1>18, InsertRolePermsMoves
  <2>3. UNCHANGED <<known, enabled, deleted, stamp, userRole, lastId, wantedRoles,
                    rolePerm, perms, wantedPerms, mixed, session, newest, outdated, doomed, faults>>
    BY <1>18 DEF InsertRolePerms, Restamp, Doom, userVars, roleVars, permVars, tokenVars
  <2>4. ShapeOf(r)'
    BY <1>18, <2>1, InsertRolePermsMoves, Fields DEF Moves, Keeps, ShapeOf, OfUser, OfRole,
       Tokens
  <2>5. Shape'
    BY <2>1, <2>4 DEF Typed, Shape, ShapeOf, Moves, Tokens
  <2> QED
    BY <2>1, <2>3, <2>5 DEF Moves, Typed, TypeOK
<1>19. ASSUME NEW r \in Requests, CommitRolePerms(r) PROVE Typed'
  <2>1. Moves(r, {"CommitPerms"}, {"Done"})
    BY <1>19, CommitRolePermsMoves
  <2>2. request[r].role \in Roles /\ r \in Tokens
    BY <2>1, Fields DEF Moves, OfUser, OfRole, Tokens
  <2>3. rolePerm' \in [Roles -> SUBSET Perms]
    BY <1>19, <2>2, Fields, RowsTyped, BackOfficeAssumption DEF CommitRolePerms, Restamp,
       Doom, Session, NoSession, Fault, Tokens, Typed, TypeOK
  <2>4. wantedPerms' \in [Roles -> SUBSET Perms]
    BY <1>19, <2>2, Fields, RowsTyped, BackOfficeAssumption DEF CommitRolePerms, Restamp,
       Doom, Session, NoSession, Fault, Tokens, Typed, TypeOK
  <2>5. UNCHANGED <<known, enabled, deleted, stamp, userRole, lastId, wantedRoles, perms,
                    mixed, session, newest, outdated, doomed, faults>>
    BY <1>19 DEF CommitRolePerms, Restamp, Doom, userVars, roleVars, permVars, tokenVars
  <2>6. ShapeOf(r)'
    BY <1>19, <2>1, CommitRolePermsMoves, Fields DEF Moves, Keeps, ShapeOf, OfUser, OfRole,
       Tokens
  <2>7. Shape'
    BY <2>1, <2>6 DEF Typed, Shape, ShapeOf, Moves, Tokens
  <2> QED
    BY <2>1, <2>3, <2>4, <2>5, <2>7 DEF Moves, Typed, TypeOK
<1>20. ASSUME NEW r \in Requests, NEW p \in Perms, DeletePermission(r, p) PROVE Typed'
  <2>1. Moves(r, {"Idle"}, {"Done"})
    BY <1>20, DeletePermissionMoves
  <2>2. r \in Tokens
    BY DEF Tokens
  <2>3. perms' \subseteq Perms
    BY <1>20, <2>2, Fields, RowsTyped, BackOfficeAssumption DEF DeletePermission, Restamp,
       Doom, Session, NoSession, Fault, Tokens, Typed, TypeOK
  <2>4. UNCHANGED <<known, enabled, deleted, stamp, userRole, lastId, wantedRoles,
                    rolePerm, wantedPerms, mixed, session, newest, outdated, doomed, faults>>
    BY <1>20 DEF DeletePermission, Restamp, Doom, userVars, roleVars, permVars, tokenVars
  <2>5. ShapeOf(r)'
    BY <1>20, <2>1, DeletePermissionMoves, Fields DEF Moves, Keeps, ShapeOf, OfUser,
       OfRole, Tokens
  <2>6. Shape'
    BY <2>1, <2>5 DEF Typed, Shape, ShapeOf, Moves, Tokens
  <2> QED
    BY <2>1, <2>3, <2>4, <2>6 DEF Moves, Typed, TypeOK
<1>21. ASSUME NEW r \in Requests, Stop(r) PROVE Typed'
  <2>1. Moves(r, Labels \ {"Idle", "Done"}, {"Done"})
    BY <1>21, StopMoves
  <2>2. r \in Tokens
    BY DEF Tokens
  <2>3. faults' \in 0 .. MaxFaults
    BY <1>21, <2>2, Fields, RowsTyped, BackOfficeAssumption DEF Stop, Restamp, Doom,
       Session, NoSession, Fault, Tokens, Typed, TypeOK
  <2>4. UNCHANGED <<known, enabled, deleted, stamp, userRole, lastId, wantedRoles,
                    rolePerm, perms, wantedPerms, mixed, session, newest, outdated, doomed>>
    BY <1>21 DEF Stop, Restamp, Doom, userVars, roleVars, permVars, tokenVars
  <2>5. ShapeOf(r)'
    BY <1>21, <2>1, StopMoves, Fields DEF Moves, Keeps, ShapeOf, OfUser, OfRole, Tokens
  <2>6. Shape'
    BY <2>1, <2>5 DEF Typed, Shape, ShapeOf, Moves, Tokens
  <2> QED
    BY <2>1, <2>3, <2>4, <2>6 DEF Moves, Typed, TypeOK
<1>22. CASE UNCHANGED vars
  BY <1>22 DEF vars, userVars, roleVars, permVars, tokenVars, Typed, TypeOK, Shape,
     ShapeOf, Tokens
<1> QED
  BY <1>1, <1>2, <1>3, <1>4, <1>5, <1>6, <1>7, <1>8, <1>9, <1>10, <1>11,
     <1>12, <1>13, <1>14, <1>15, <1>16, <1>17, <1>18, <1>19, <1>20, <1>21,
        <1>22, SMTT(60) DEF NextCases

LEMMA InitTyped == Init => Typed
<1> SUFFICES ASSUME Init PROVE Typed
  OBVIOUS
<1> USE BackOfficeAssumption
<1>1. request \in [Requests -> Request] /\ \A r \in Requests : request[r].pc = "Idle"
  BY NoRequestTyped DEF Init, Labels
<1>2. session \in [Tokens -> Session]
  BY DEF Init, Session, NoSession
<1>3. newest \in [Users -> Tokens \cup {None}]
  BY DEF Init, Tokens
<1>4. wantedRoles \in [Users -> SUBSET Roles]
  BY DEF Init, RolesOf, UserRole
<1>5. rolePerm \in [Roles -> SUBSET Perms] /\ wantedPerms = rolePerm
  BY DEF Init
<1> QED
  BY <1>1, <1>2, <1>3, <1>4, <1>5 DEF Init, Typed, TypeOK, Shape, ShapeOf, OfUser, OfRole

(* Every variable has its type, and a request knows the administrator, the *)
(* role or the token that its next step is about.                          *)
THEOREM TypeCorrect == Spec => [](TypeOK /\ Shape)
<1>1. Init => Typed
  BY InitTyped
<1>2. Typed /\ [Next]_vars => Typed'
  BY NextIsCases, TypeStep
<1>3. Typed <=> TypeOK /\ Shape
  BY DEF Typed
<1> QED
  BY <1>1, <1>2, <1>3, PTL DEF Spec

-----------------------------------------------------------------------------
(* A token that is not made yet is in no map, and one in the map stands    *)
(* for the administrator it is found under, or for nobody any more.        *)
(* Without failures, the token that a logout or a reset is to end stays in *)
(* the map until then, and every one under way has found it there.         *)
NotMade == \A r \in Requests :
  request[r].pc # "Done" => r \notin doomed /\ \A u \in Users : newest[u] # r

OwnToken == \A r \in Requests :
  At(r, "SetMap") => session[r].user \in {request[r].user, None}

OwnMap == \A u \in Users : newest[u] # None => session[newest[u]].user \in {u, None}

Cleans(u, t) ==
  \A r \in Requests : At(r, "Clean") /\ request[r].user = u => request[r].token = t

Doomed == faults = 0 =>
  \A u \in Users, t \in doomed :
    session[t].user = u => Ending(u) /\ newest[u] = t /\ Cleans(u, t)

TokenInv == NotMade /\ OwnToken /\ OwnMap /\ Doomed

LEMMA TokenInvSame ==
  ASSUME TokenInv, UNCHANGED <<tokenVars, request, faults>> PROVE TokenInv'
BY DEF TokenInv, NotMade, OwnToken, OwnMap, Doomed, Cleans, Ending, tokenVars

LEMMA TokenInvFrame ==
  ASSUME Typed, TokenInv, UNCHANGED <<session, newest, doomed, faults>>, NEW r \in Requests,
         \A q \in Requests : q # r => request'[q] = request[q],
         request[r].pc \notin {"SetMap", "GetMap", "Clean", "Done"},
         request'[r].pc \notin {"SetMap", "GetMap", "Clean"}
  PROVE  TokenInv'
<1>1. NotMade' /\ OwnToken' /\ OwnMap'
  BY DEF TokenInv, NotMade, OwnToken, OwnMap
<1>2. Doomed'
  <2>1. \A u \in Users : Ending(u) => Ending(u)'
    BY DEF Ending
  <2>2. \A u \in Users, t \in doomed : Cleans(u, t) => Cleans(u, t)'
    BY DEF Cleans
  <2> QED
    BY <2>1, <2>2 DEF TokenInv, Doomed
<1> QED
  BY <1>1, <1>2 DEF TokenInv

LEMMA SetTokenKeepsTokenInv ==
  ASSUME Typed, TokenInv, NEW r \in Requests, SetToken(r)
  PROVE  TokenInv'
<1> PICK u0 \in Users : u0 = request[r].user
  BY Fields DEF SetToken, OfUser
<1>1. Moves(r, {"SetToken"}, {"SetMap"}) /\ Keeps(r)
  BY SetTokenMoves
<1>2. /\ session' = [session EXCEPT ![r] = [user |-> u0, stamp |-> request[r].stamp]]
      /\ UNCHANGED <<newest, doomed, faults>>
  BY DEF SetToken
<1>3. r \in Tokens /\ session \in [Tokens -> Session]
  BY DEF Tokens, Typed, TypeOK
<1>4. session'[r].user = u0 /\ \A t \in Tokens : t # r => session'[t] = session[t]
  BY <1>2, <1>3
<1>5. r \notin doomed /\ \A u \in Users : newest[u] # r
  BY <1>1 DEF TokenInv, NotMade, Moves
<1>6. NotMade'
  BY <1>1, <1>2 DEF TokenInv, NotMade, Moves
<1>7. OwnToken'
  BY <1>1, <1>4 DEF TokenInv, OwnToken, Moves, Keeps, Tokens
<1>8. OwnMap'
  <2>1. \A u \in Users : newest[u] # None => newest[u] \in Tokens
    BY DEF Typed, TypeOK
  <2> QED
    BY <1>2, <1>4, <1>5, <2>1 DEF TokenInv, OwnMap
<1>9. Doomed'
  <2>1. \A u \in Users : Ending(u) => Ending(u)'
    BY <1>1 DEF Ending, Moves
  <2>2. \A u \in Users, t \in doomed : Cleans(u, t) => Cleans(u, t)'
    BY <1>1 DEF Cleans, Moves
  <2>3. \A t \in doomed : t \in Tokens /\ session'[t] = session[t]
    BY <1>4, <1>5 DEF Typed, TypeOK
  <2> QED
    BY <1>2, <2>1, <2>2, <2>3 DEF TokenInv, Doomed
<1> QED
  BY <1>6, <1>7, <1>8, <1>9 DEF TokenInv

LEMMA SetMapKeepsTokenInv ==
  ASSUME Typed, TokenInv, NEW r \in Requests, SetMap(r)
  PROVE  TokenInv'
<1> PICK u0 \in Users : u0 = request[r].user
  BY Fields DEF SetMap, OfUser
<1>1. Moves(r, {"SetMap"}, {"Done"})
  BY SetMapMoves
<1>2. /\ newest' = [newest EXCEPT ![u0] = r]
      /\ doomed' = IF Ending(u0) THEN {t \in doomed : session[t].user # u0} ELSE doomed
      /\ UNCHANGED <<session, faults>>
  BY DEF SetMap
<1>3. newest'[u0] = r /\ \A u \in Users : u # u0 => newest'[u] = newest[u]
  BY <1>2 DEF Typed, TypeOK
<1>4. doomed' \subseteq doomed
  BY <1>2
<1>5. NotMade'
  BY <1>1, <1>3, <1>4 DEF TokenInv, NotMade, Moves
<1>6. OwnToken'
  BY <1>1, <1>2 DEF TokenInv, OwnToken, Moves
<1>7. OwnMap'
  <2>1. session[r].user \in {u0, None}
    BY <1>1 DEF TokenInv, OwnToken, Moves
  <2> QED
    BY <1>2, <1>3, <2>1 DEF TokenInv, OwnMap
<1>8. Doomed'
  <2> SUFFICES ASSUME faults' = 0, NEW u \in Users, NEW t \in doomed', session'[t].user = u
               PROVE  (Ending(u) /\ newest[u] = t /\ Cleans(u, t))'
    BY DEF Doomed
  <2>1. t \in doomed /\ session[t].user = u /\ faults = 0
    BY <1>2, <1>4
  <2>2. Ending(u) /\ newest[u] = t /\ Cleans(u, t)
    BY <2>1 DEF TokenInv, Doomed
  <2>3. u # u0
    BY <1>2, <2>1, <2>2
  <2>4. Ending(u)' /\ Cleans(u, t)'
    BY <1>1, <2>2 DEF Ending, Cleans, Moves
  <2> QED
    BY <1>3, <2>2, <2>3, <2>4
<1> QED
  BY <1>5, <1>6, <1>7, <1>8 DEF TokenInv

(* A logout or a reset finds what it is to end.                            *)
LEMMA DoomKeepsTokenInv ==
  ASSUME Typed, TokenInv, NEW r \in Requests, NEW u0 \in Users, Doom(u0),
         UNCHANGED <<session, newest, faults>>,
         Moves(r, {"Idle", "Password"}, {"GetMap"}), request'[r].user = u0
  PROVE  TokenInv'
<1>1. \A t \in doomed' : t \in doomed \/ (~ Ending(u0) /\ t = newest[u0] /\ t # None)
  BY DEF Doom
<1>2. NotMade'
  <2> SUFFICES ASSUME NEW q \in Requests, request'[q].pc # "Done"
               PROVE  q \notin doomed' /\ \A u \in Users : newest'[u] # q
    BY DEF NotMade
  <2>1. q \notin doomed /\ \A u \in Users : newest[u] # q
    BY DEF Moves, TokenInv, NotMade
  <2> QED
    BY <1>1, <2>1
<1>3. OwnToken' /\ OwnMap'
  BY DEF TokenInv, OwnToken, OwnMap, Moves
<1>4. Doomed'
  <2> SUFFICES ASSUME faults' = 0, NEW u \in Users, NEW t \in doomed', session'[t].user = u
               PROVE  (Ending(u) /\ newest[u] = t /\ Cleans(u, t))'
    BY DEF Doomed
  <2>1. CASE t \in doomed
    <3>1. Ending(u) /\ newest[u] = t /\ Cleans(u, t)
      BY <2>1 DEF TokenInv, Doomed
    <3>2. Ending(u)' /\ Cleans(u, t)'
      BY <3>1 DEF Ending, Cleans, Moves
    <3> QED
      BY <3>1, <3>2
  <2>2. CASE ~ Ending(u0) /\ t = newest[u0] /\ t # None
    <3>1. session[t].user \in {u0, None}
      BY <2>2 DEF TokenInv, OwnMap
    <3>2. u = u0
      BY <3>1, BackOfficeAssumption
    <3>3. Ending(u)'
      BY <3>2 DEF Ending, Moves
    <3>4. Cleans(u, t)'
      BY <2>2, <3>2 DEF Cleans, Ending, Moves
    <3> QED
      BY <2>2, <3>2, <3>3, <3>4
  <2> QED
    BY <1>1, <2>1, <2>2
<1> QED
  BY <1>2, <1>3, <1>4 DEF TokenInv

LEMMA GetNewestKeepsTokenInv ==
  ASSUME Typed, TokenInv, NEW r \in Requests, GetNewestToken(r)
  PROVE  TokenInv'
<1> PICK u0 \in Users : u0 = request[r].user
  BY Fields DEF GetNewestToken, OfUser
<1>1. /\ Moves(r, {"GetMap"}, {"Done", "Clean"})
      /\ request'[r].pc = "Done" => newest[u0] = None
      /\ request'[r].pc = "Clean" => request'[r].user = u0 /\ request'[r].token = newest[u0]
  BY GetNewestTokenMoves
<1>2. UNCHANGED <<session, newest, doomed, faults>>
  BY DEF GetNewestToken, tokenVars
<1>3. NotMade' /\ OwnToken' /\ OwnMap'
  BY <1>1, <1>2 DEF TokenInv, NotMade, OwnToken, OwnMap, Moves
<1>4. Doomed'
  <2> SUFFICES ASSUME faults' = 0, NEW u \in Users, NEW t \in doomed', session'[t].user = u
               PROVE  (Ending(u) /\ newest[u] = t /\ Cleans(u, t))'
    BY DEF Doomed
  <2>1. Ending(u) /\ newest[u] = t /\ Cleans(u, t) /\ t # None
    BY <1>2, BackOfficeAssumption DEF TokenInv, Doomed, Typed, TypeOK
  <2>2. Ending(u)'
    <3>1. CASE u = u0
      BY <1>1, <2>1, <3>1 DEF Ending, Moves
    <3>2. CASE u # u0
      BY <1>1, <2>1, <3>2 DEF Ending, Moves
    <3> QED
      BY <3>1, <3>2
  <2>3. Cleans(u, t)'
    BY <1>1, <2>1 DEF Cleans, Moves
  <2> QED
    BY <1>2, <2>1, <2>2, <2>3
<1> QED
  BY <1>3, <1>4 DEF TokenInv

LEMMA CleanKeepsTokenInv ==
  ASSUME Typed, TokenInv, NEW r \in Requests, CleanAdminUserToken(r)
  PROVE  TokenInv'
<1> PICK u0 \in Users : u0 = request[r].user
  BY Fields DEF CleanAdminUserToken, OfUser
<1> PICK t0 \in Tokens : t0 = request[r].token
  BY Fields DEF CleanAdminUserToken
<1>1. Moves(r, {"Clean"}, {"Done"})
  BY CleanAdminUserTokenMoves
<1>2. /\ session' = [session EXCEPT ![t0] = NoSession]
      /\ newest' = [newest EXCEPT ![u0] = None]
      /\ UNCHANGED <<doomed, faults>>
  BY DEF CleanAdminUserToken
<1>3. newest \in [Users -> Tokens \cup {None}] /\ session \in [Tokens -> Session]
  BY DEF Typed, TypeOK
<1>4. session'[t0].user = None /\ \A t \in Tokens : t # t0 => session'[t] = session[t]
  BY <1>2, <1>3 DEF NoSession
<1>5. newest'[u0] = None /\ \A u \in Users : u # u0 => newest'[u] = newest[u]
  BY <1>2, <1>3
<1>6. \A r2 \in Requests : r2 # None /\ r2 \in Tokens
  BY BackOfficeAssumption DEF Tokens
<1>7. NotMade'
  BY <1>1, <1>2, <1>5, <1>6 DEF TokenInv, NotMade, Moves
<1>8. OwnToken'
  BY <1>1, <1>4, <1>6 DEF TokenInv, OwnToken, Moves
<1>9. OwnMap'
  <2> SUFFICES ASSUME NEW u \in Users, newest'[u] # None
               PROVE  session'[newest'[u]].user \in {u, None}
    BY DEF OwnMap
  <2>1. u # u0 /\ newest'[u] = newest[u] /\ newest[u] \in Tokens
    BY <1>3, <1>5
  <2> QED
    BY <1>4, <2>1 DEF TokenInv, OwnMap
<1>10. Doomed'
  <2> SUFFICES ASSUME faults' = 0, NEW u \in Users, NEW t \in doomed', session'[t].user = u
               PROVE  (Ending(u) /\ newest[u] = t /\ Cleans(u, t))'
    BY DEF Doomed
  <2>1. t \in Tokens /\ t # t0 /\ session[t].user = u /\ t \in doomed /\ faults = 0
    BY <1>2, <1>4, BackOfficeAssumption DEF Typed, TypeOK
  <2>2. Ending(u) /\ newest[u] = t /\ Cleans(u, t)
    BY <2>1 DEF TokenInv, Doomed
  <2>3. u # u0
    BY <1>1, <2>1, <2>2 DEF Cleans, Moves
  <2>4. Ending(u)' /\ Cleans(u, t)'
    BY <1>1, <2>2, <2>3 DEF Ending, Cleans, Moves
  <2> QED
    BY <1>5, <2>2, <2>3, <2>4
<1> QED
  BY <1>7, <1>8, <1>9, <1>10 DEF TokenInv

LEMMA StopKeepsTokenInv ==
  ASSUME Typed, TokenInv, NEW r \in Requests, Stop(r)
  PROVE  TokenInv'
<1>1. Moves(r, Labels \ {"Idle", "Done"}, {"Done"})
  BY StopMoves
<1>2. UNCHANGED tokenVars /\ faults' # 0
  BY BackOfficeAssumption DEF Stop, Fault, Typed, TypeOK
<1> QED
  BY <1>1, <1>2 DEF TokenInv, NotMade, OwnToken, OwnMap, Doomed, tokenVars, Moves

LEMMA TokenInvStep == Typed /\ TokenInv /\ NextCases => TokenInv'
<1> SUFFICES ASSUME Typed, TokenInv, NextCases PROVE TokenInv'
  OBVIOUS
<1>1. ASSUME NEW r \in Requests, NEW u \in Users, GetUser(r, u) PROVE TokenInv'
  <2>1. Moves(r, {"Idle"}, {"SetToken"})
    BY <1>1, GetUserMoves
  <2>2. UNCHANGED <<session, newest, doomed, faults>>
    BY <1>1, BackOfficeAssumption DEF GetUser, userVars, roleVars, permVars, tokenVars,
       Restamp
  <2> QED
    BY <2>1, <2>2, TokenInvFrame DEF Moves, Labels
<1>2. ASSUME NEW r \in Requests, SetToken(r) PROVE TokenInv'
  BY <1>2, SetTokenKeepsTokenInv
<1>3. ASSUME NEW r \in Requests, SetMap(r) PROVE TokenInv'
  BY <1>3, SetMapKeepsTokenInv
<1>4. ASSUME NEW r \in Requests, NEW t \in Tokens, AdminUserLogout(r, t) PROVE TokenInv'
  <2>1. Moves(r, {"Idle"}, {"GetMap"}) /\ request'[r].user = session[t].user
    BY <1>4, AdminUserLogoutMoves DEF Keeps
  <2>2. session[t].user \in Users
    BY <1>4, <2>1, Fields, SessionTyped DEF AdminUserLogout, LetsIn, OfUser
  <2>3. Doom(session[t].user) /\ UNCHANGED <<session, newest, faults>>
    BY <1>4 DEF AdminUserLogout
  <2> QED
    BY <1>4, <2>1, <2>2, <2>3, DoomKeepsTokenInv DEF Moves
<1>5. ASSUME NEW r \in Requests, NEW u \in Users, MobilePasswordReset(r, u) PROVE TokenInv'
  <2>1. Moves(r, {"Idle"}, {"Password"})
    BY <1>5, MobilePasswordResetMoves
  <2>2. UNCHANGED <<session, newest, doomed, faults>>
    BY <1>5, BackOfficeAssumption DEF MobilePasswordReset, userVars, roleVars, permVars,
       tokenVars, Restamp
  <2> QED
    BY <2>1, <2>2, TokenInvFrame DEF Moves, Labels
<1>6. ASSUME NEW r \in Requests, UpdateUserPassword(r) PROVE TokenInv'
  <2>1. Moves(r, {"Password"}, {"GetMap"}) /\ request'[r].user = request[r].user
    BY <1>6, UpdateUserPasswordMoves DEF Keeps
  <2>2. request[r].user \in Users
    BY <1>6, <2>1, Fields, SessionTyped DEF UpdateUserPassword, LetsIn, OfUser
  <2>3. Doom(request[r].user) /\ UNCHANGED <<session, newest, faults>>
    BY <1>6 DEF UpdateUserPassword
  <2> QED
    BY <1>6, <2>1, <2>2, <2>3, DoomKeepsTokenInv DEF Moves
<1>7. ASSUME NEW r \in Requests, GetNewestToken(r) PROVE TokenInv'
  BY <1>7, GetNewestKeepsTokenInv
<1>8. ASSUME NEW r \in Requests, CleanAdminUserToken(r) PROVE TokenInv'
  BY <1>8, CleanKeepsTokenInv
<1>9. ASSUME NEW r \in Requests, NEW u \in Users, NEW list \in RoleLists, CreateUser(r, u,
             list)
      PROVE  TokenInv'
  <2>1. Moves(r, {"Idle"}, {"Done"})
    BY <1>9, CreateUserMoves
  <2>2. UNCHANGED <<session, newest, doomed, faults>>
    BY <1>9, BackOfficeAssumption DEF CreateUser, userVars, roleVars, permVars, tokenVars,
       Restamp
  <2> QED
    BY <2>1, <2>2, TokenInvFrame DEF Moves, Labels
<1>10. ASSUME NEW r \in Requests, NEW u \in Users, NEW list \in RoleLists,
              NEW enable \in BOOLEAN, UpdateUser(r, u, list, enable)
       PROVE  TokenInv'
  <2>1. Moves(r, {"Idle"}, {"UpdateRow"})
    BY <1>10, UpdateUserMoves
  <2>2. UNCHANGED <<session, newest, doomed, faults>>
    BY <1>10, BackOfficeAssumption DEF UpdateUser, userVars, roleVars, permVars, tokenVars,
       Restamp
  <2> QED
    BY <2>1, <2>2, TokenInvFrame DEF Moves, Labels
<1>11. ASSUME NEW r \in Requests, UpdateUserRow(r) PROVE TokenInv'
  <2>1. Moves(r, {"UpdateRow"}, {"DeleteRoles"})
    BY <1>11, UpdateUserRowMoves
  <2>2. UNCHANGED <<session, newest, doomed, faults>>
    BY <1>11, BackOfficeAssumption DEF UpdateUserRow, userVars, roleVars, permVars,
       tokenVars, Restamp
  <2> QED
    BY <2>1, <2>2, TokenInvFrame DEF Moves, Labels
<1>12. ASSUME NEW r \in Requests, DeleteUserRoles(r) PROVE TokenInv'
  <2>1. Moves(r, {"DeleteRoles"}, {"InsertRoles"})
    BY <1>12, DeleteUserRolesMoves
  <2>2. UNCHANGED <<session, newest, doomed, faults>>
    BY <1>12, BackOfficeAssumption DEF DeleteUserRoles, userVars, roleVars, permVars,
       tokenVars, Restamp
  <2> QED
    BY <2>1, <2>2, TokenInvFrame DEF Moves, Labels
<1>13. ASSUME NEW r \in Requests, InsertUserRoles(r) PROVE TokenInv'
  <2>1. Moves(r, {"InsertRoles"}, {"CommitUser"})
    BY <1>13, InsertUserRolesMoves
  <2>2. UNCHANGED <<session, newest, doomed, faults>>
    BY <1>13, BackOfficeAssumption DEF InsertUserRoles, userVars, roleVars, permVars,
       tokenVars, Restamp
  <2> QED
    BY <2>1, <2>2, TokenInvFrame DEF Moves, Labels
<1>14. ASSUME NEW r \in Requests, CommitUser(r) PROVE TokenInv'
  <2>1. Moves(r, {"CommitUser"}, {"Done"})
    BY <1>14, CommitUserMoves
  <2>2. UNCHANGED <<session, newest, doomed, faults>>
    BY <1>14, BackOfficeAssumption DEF CommitUser, userVars, roleVars, permVars, tokenVars,
       Restamp
  <2> QED
    BY <2>1, <2>2, TokenInvFrame DEF Moves, Labels
<1>15. ASSUME NEW r \in Requests, NEW u \in Users, DeleteUser(r, u) PROVE TokenInv'
  <2>1. Moves(r, {"Idle"}, {"Done"})
    BY <1>15, DeleteUserMoves
  <2>2. UNCHANGED <<session, newest, doomed, faults>>
    BY <1>15, BackOfficeAssumption DEF DeleteUser, userVars, roleVars, permVars, tokenVars,
       Restamp
  <2> QED
    BY <2>1, <2>2, TokenInvFrame DEF Moves, Labels
<1>16. ASSUME NEW r \in Requests, NEW role \in Roles, NEW set \in PermSets, SetRolePerms(r,
              role, set)
       PROVE  TokenInv'
  <2>1. Moves(r, {"Idle"}, {"DeletePerms"})
    BY <1>16, SetRolePermsMoves
  <2>2. UNCHANGED <<session, newest, doomed, faults>>
    BY <1>16, BackOfficeAssumption DEF SetRolePerms, userVars, roleVars, permVars,
       tokenVars, Restamp
  <2> QED
    BY <2>1, <2>2, TokenInvFrame DEF Moves, Labels
<1>17. ASSUME NEW r \in Requests, DeleteRolePerms(r) PROVE TokenInv'
  <2>1. Moves(r, {"DeletePerms"}, {"InsertPerms"})
    BY <1>17, DeleteRolePermsMoves
  <2>2. UNCHANGED <<session, newest, doomed, faults>>
    BY <1>17, BackOfficeAssumption DEF DeleteRolePerms, userVars, roleVars, permVars,
       tokenVars, Restamp
  <2> QED
    BY <2>1, <2>2, TokenInvFrame DEF Moves, Labels
<1>18. ASSUME NEW r \in Requests, InsertRolePerms(r) PROVE TokenInv'
  <2>1. Moves(r, {"InsertPerms"}, {"CommitPerms"})
    BY <1>18, InsertRolePermsMoves
  <2>2. UNCHANGED <<session, newest, doomed, faults>>
    BY <1>18, BackOfficeAssumption DEF InsertRolePerms, userVars, roleVars, permVars,
       tokenVars, Restamp
  <2> QED
    BY <2>1, <2>2, TokenInvFrame DEF Moves, Labels
<1>19. ASSUME NEW r \in Requests, CommitRolePerms(r) PROVE TokenInv'
  <2>1. Moves(r, {"CommitPerms"}, {"Done"})
    BY <1>19, CommitRolePermsMoves
  <2>2. UNCHANGED <<session, newest, doomed, faults>>
    BY <1>19, BackOfficeAssumption DEF CommitRolePerms, userVars, roleVars, permVars,
       tokenVars, Restamp
  <2> QED
    BY <2>1, <2>2, TokenInvFrame DEF Moves, Labels
<1>20. ASSUME NEW r \in Requests, NEW p \in Perms, DeletePermission(r, p) PROVE TokenInv'
  <2>1. Moves(r, {"Idle"}, {"Done"})
    BY <1>20, DeletePermissionMoves
  <2>2. UNCHANGED <<session, newest, doomed, faults>>
    BY <1>20, BackOfficeAssumption DEF DeletePermission, userVars, roleVars, permVars,
       tokenVars, Restamp
  <2> QED
    BY <2>1, <2>2, TokenInvFrame DEF Moves, Labels
<1>21. ASSUME NEW r \in Requests, Stop(r) PROVE TokenInv'
  BY <1>21, StopKeepsTokenInv
<1>22. CASE UNCHANGED vars
  BY <1>22, TokenInvSame DEF vars, userVars, roleVars, permVars, tokenVars
<1> QED
  BY <1>1, <1>2, <1>3, <1>4, <1>5, <1>6, <1>7, <1>8, <1>9, <1>10, <1>11,
     <1>12, <1>13, <1>14, <1>15, <1>16, <1>17, <1>18, <1>19, <1>20, <1>21,
        <1>22, SMTT(60) DEF NextCases

LEMMA InitTokens == Init => TokenInv
<1> SUFFICES ASSUME Init PROVE TokenInv
  OBVIOUS
<1>1. \A u \in Users : newest[u] # None => u \in First /\ newest[u] = OldTokens[u]
  BY DEF Init
<1>2. NotMade
  BY <1>1, BackOfficeAssumption DEF Init, NotMade, Tokens
<1>3. OwnMap
  <2>1. \A u \in Users : newest[u] # None => newest[u] \in Tokens
    BY <1>1 DEF Tokens
  <2> QED
    BY <1>1, <2>1 DEF Init, OwnMap
<1>4. OwnToken /\ Doomed
  BY DEF Init, NoRequest, OwnToken, Doomed
<1> QED
  BY <1>2, <1>3, <1>4 DEF TokenInv

-----------------------------------------------------------------------------
(* An update_at that is still to be written is nowhere yet, and what was   *)
(* outdated, a token or a login under way, differs from the row.           *)
NotWritten == \A r \in Requests :
  request[r].pc \notin {"GetMap", "Clean", "Done"} =>
    /\ \A u \in Users : stamp[u] # r
    /\ \A t \in Tokens : session[t].stamp # r
    /\ \A q \in Requests : request[q].stamp # r

NotIn == \A r \in Requests :
  /\ request[r].pc \in {"Idle", "SetToken"} => session[r].user = None
  /\ At(r, "Idle") => r \notin outdated

Differ ==
  /\ \A t \in outdated, u \in Users : session[t].user = u => session[t].stamp # stamp[u]
  /\ \A r \in Requests, u \in Users :
       At(r, "SetToken") /\ r \in outdated /\ request[r].user = u => request[r].stamp # stamp[u]

StampInv == NotWritten /\ NotIn /\ Differ

LEMMA StampInvSame ==
  ASSUME StampInv, UNCHANGED <<stamp, session, outdated, request>> PROVE StampInv'
BY DEF StampInv, NotWritten, NotIn, Differ

LEMMA StampInvFrame ==
  ASSUME Typed, StampInv, UNCHANGED <<stamp, session, outdated>>, NEW r \in Requests,
         \A q \in Requests : q # r => request'[q] = request[q],
         request[r].pc \notin {"GetMap", "Clean", "Done"} \/ request'[r].pc \in {"GetMap", "Clean", "Done"},
         request'[r].pc \notin {"Idle", "SetToken"},
         request'[r].stamp \in {request[r].stamp, None}
  PROVE  StampInv'
<1>1. \A q \in Requests : q # None
  BY BackOfficeAssumption DEF Tokens
<1>2. NotWritten'
  <2> SUFFICES ASSUME NEW p \in Requests, request'[p].pc \notin {"GetMap", "Clean", "Done"}
               PROVE  (/\ \A u \in Users : stamp[u] # p
                       /\ \A t \in Tokens : session[t].stamp # p
                       /\ \A q \in Requests : request[q].stamp # p)'
    BY DEF NotWritten
  <2>1. request[p].pc \notin {"GetMap", "Clean", "Done"}
    OBVIOUS
  <2> QED
    BY <1>1, <2>1 DEF StampInv, NotWritten
<1>3. NotIn'
  BY DEF StampInv, NotIn
<1>4. Differ'
  BY DEF StampInv, Differ
<1> QED
  BY <1>2, <1>3, <1>4 DEF StampInv

LEMMA GetUserKeepsStampInv ==
  ASSUME Typed, StampInv, NEW r \in Requests, NEW u0 \in Users, GetUser(r, u0)
  PROVE  StampInv'
<1>1. /\ Moves(r, {"Idle"}, {"SetToken"})
      /\ request'[r].user = u0 /\ request'[r].stamp = stamp[u0]
  BY GetUserMoves
<1>2. UNCHANGED <<stamp, session, outdated>>
  BY DEF GetUser, userVars, tokenVars
<1>3. NotWritten'
  BY <1>1, <1>2 DEF StampInv, NotWritten, Moves
<1>4. NotIn'
  BY <1>1, <1>2 DEF StampInv, NotIn, Moves
<1>5. Differ'
  BY <1>1, <1>2 DEF StampInv, NotIn, Differ, Moves
<1> QED
  BY <1>3, <1>4, <1>5 DEF StampInv

LEMMA SetTokenKeepsStampInv ==
  ASSUME Typed, StampInv, NEW r \in Requests, SetToken(r)
  PROVE  StampInv'
<1> PICK u0 \in Users : u0 = request[r].user
  BY Fields DEF SetToken, OfUser
<1>1. Moves(r, {"SetToken"}, {"SetMap"}) /\ Keeps(r)
  BY SetTokenMoves
<1>2. /\ session' = [session EXCEPT ![r] = [user |-> u0, stamp |-> request[r].stamp]]
      /\ UNCHANGED <<stamp, outdated>>
  BY DEF SetToken, userVars
<1>3. r \in Tokens /\ session \in [Tokens -> Session]
  BY DEF Tokens, Typed, TypeOK
<1>4. /\ session'[r].user = u0 /\ session'[r].stamp = request[r].stamp
      /\ \A t \in Tokens : t # r => session'[t] = session[t]
  BY <1>2, <1>3
<1>5. NotWritten'
  BY <1>1, <1>2, <1>4 DEF StampInv, NotWritten, Moves, Keeps
<1>6. NotIn'
  BY <1>1, <1>2, <1>4 DEF StampInv, NotIn, Moves, Tokens
<1>7. Differ'
  <2>1. outdated \subseteq Tokens
    BY DEF Typed, TypeOK
  <2> QED
    BY <1>1, <1>2, <1>4, <2>1 DEF StampInv, Differ, Moves
<1> QED
  BY <1>5, <1>6, <1>7 DEF StampInv

LEMMA CleanKeepsStampInv ==
  ASSUME Typed, StampInv, NEW r \in Requests, CleanAdminUserToken(r)
  PROVE  StampInv'
<1> PICK t0 \in Tokens : t0 = request[r].token
  BY Fields DEF CleanAdminUserToken
<1>1. Moves(r, {"Clean"}, {"Done"}) /\ request'[r].stamp = None
  BY CleanAdminUserTokenMoves, NoRequestTyped DEF Labels
<1>2. session' = [session EXCEPT ![t0] = NoSession] /\ UNCHANGED <<stamp, outdated>>
  BY DEF CleanAdminUserToken, userVars
<1>3. session'[t0] = NoSession /\ \A t \in Tokens : t # t0 => session'[t] = session[t]
  BY <1>2 DEF Typed, TypeOK
<1>4. /\ NoSession.user = None
      /\ NoSession.stamp = None
      /\ None \notin Users
      /\ None \notin Requests
  BY BackOfficeAssumption DEF NoSession, Tokens
<1>5. NotWritten'
  BY <1>1, <1>2, <1>3, <1>4 DEF StampInv, NotWritten, Moves
<1>6. NotIn'
  BY <1>1, <1>2, <1>3, <1>4 DEF StampInv, NotIn, Moves, Tokens
<1>7. Differ'
  <2>1. outdated \subseteq Tokens
    BY DEF Typed, TypeOK
  <2> QED
    BY <1>1, <1>2, <1>3, <1>4, <2>1 DEF StampInv, Differ, Moves
<1> QED
  BY <1>5, <1>6, <1>7 DEF StampInv

LEMMA CreateKeepsStampInv ==
  ASSUME Typed, StampInv, NEW r \in Requests, NEW u0 \in Users, NEW list \in RoleLists,
         CreateUser(r, u0, list)
  PROVE  StampInv'
<1>1. Moves(r, {"Idle"}, {"Done"}) /\ request'[r].stamp = None
  BY CreateUserMoves, NoRequestTyped DEF Labels
<1>2. stamp' = [stamp EXCEPT ![u0] = r] /\ UNCHANGED <<session, outdated>>
  BY DEF CreateUser, tokenVars
<1>3. stamp'[u0] = r /\ \A u \in Users : u # u0 => stamp'[u] = stamp[u]
  BY <1>2 DEF Typed, TypeOK
<1>4. None \notin Requests /\ outdated \subseteq Tokens
  BY BackOfficeAssumption DEF Tokens, Typed, TypeOK
<1>5. NotWritten'
  BY <1>1, <1>2, <1>3, <1>4 DEF StampInv, NotWritten, Moves
<1>6. NotIn'
  BY <1>1, <1>2 DEF StampInv, NotIn, Moves
<1>7. Differ'
  <2>1. /\ \A t \in Tokens : session[t].stamp # r
        /\ \A q \in Requests : request[q].stamp # r
    BY <1>1 DEF StampInv, NotWritten, Moves
  <2> QED
    BY <1>1, <1>2, <1>3, <1>4, <2>1 DEF StampInv, Differ, Moves
<1> QED
  BY <1>5, <1>6, <1>7 DEF StampInv

(* The row of u0 gets a new update_at.                                     *)
LEMMA RestampKeepsStampInv ==
  ASSUME Typed, TokenInv, StampInv, NEW r \in Requests, NEW u0 \in Users, Restamp(r, u0),
         UNCHANGED session, Moves(r, {"Password", "CommitUser"}, {"GetMap", "Done"}),
         request'[r].stamp \in {request[r].stamp, None}
  PROVE  StampInv'
<1>1. /\ stamp' = [stamp EXCEPT ![u0] = r]
      /\ outdated' = outdated
           \cup {t \in Tokens : session[t].user = u0}
           \cup {q \in Requests : request[q].pc \in {"SetToken", "SetMap"} /\ request[q].user = u0}
  BY DEF Restamp
<1>2. stamp'[u0] = r /\ \A u \in Users : u # u0 => stamp'[u] = stamp[u]
  BY <1>1 DEF Typed, TypeOK
<1>3. None \notin Requests /\ outdated \subseteq Tokens /\ None \notin Users
  BY BackOfficeAssumption DEF Tokens, Typed, TypeOK
<1>4. NotWritten'
  <2> SUFFICES ASSUME NEW p \in Requests, request'[p].pc \notin {"GetMap", "Clean", "Done"}
               PROVE  (/\ \A u \in Users : stamp[u] # p
                       /\ \A t \in Tokens : session[t].stamp # p
                       /\ \A q \in Requests : request[q].stamp # p)'
    BY DEF NotWritten
  <2>1. request[p].pc \notin {"GetMap", "Clean", "Done"} /\ p # r
    BY DEF Moves
  <2> QED
    BY <1>2, <1>3, <2>1 DEF StampInv, NotWritten, Moves
<1>5. NotIn'
  <2> SUFFICES ASSUME NEW q \in Requests
               PROVE  (/\ request[q].pc \in {"Idle", "SetToken"} => session[q].user = None
                       /\ At(q, "Idle") => q \notin outdated)'
    BY DEF NotIn
  <2>1. request'[q].pc \in {"Idle", "SetToken"} => request'[q] = request[q]
    BY DEF Moves
  <2>2. request[q].pc \in {"Idle", "SetToken"} => session[q].user = None
    BY DEF StampInv, NotIn
  <2>3. At(q, "Idle") => q \notin outdated
    BY DEF StampInv, NotIn
  <2>4. At(q, "Idle")' => q \notin outdated'
    BY <1>1, <1>3, <2>1, <2>2, <2>3
  <2> QED
    BY <2>1, <2>2, <2>4
<1>6. Differ'
  <2>1. /\ \A t \in Tokens : session[t].stamp # r
        /\ \A q \in Requests : request[q].stamp # r
    BY DEF StampInv, NotWritten, Moves
  <2>2. ASSUME NEW t \in outdated', NEW u \in Users, session'[t].user = u
        PROVE  session'[t].stamp # stamp'[u]
    <3>1. t \in Tokens
      BY <1>1, <1>3 DEF Tokens
    <3>2. CASE u = u0
      BY <1>2, <2>1, <3>1, <3>2
    <3>3. CASE u # u0
      <4>1. ASSUME t \in Requests, request[t].pc \in {"SetToken", "SetMap"},
                   request[t].user = u0
            PROVE  FALSE
        BY <1>3, <2>2, <3>3, <4>1 DEF StampInv, NotIn, TokenInv, OwnToken
      <4>2. t \in outdated
        BY <1>1, <2>2, <3>3, <4>1
      <4> QED
        BY <1>2, <2>2, <3>3, <4>2 DEF StampInv, Differ
    <3> QED
      BY <3>2, <3>3
  <2>3. ASSUME NEW q \in Requests, NEW u \in Users, At(q, "SetToken")', q \in outdated',
               request'[q].user = u
        PROVE  request'[q].stamp # stamp'[u]
    <3>1. request'[q] = request[q] /\ At(q, "SetToken")
      BY <2>3 DEF Moves
    <3>2. CASE u = u0
      BY <1>2, <2>1, <3>1, <3>2
    <3>3. CASE u # u0
      <4>1. session[q].user = None
        BY <3>1 DEF StampInv, NotIn
      <4>2. q \in outdated
        BY <1>1, <1>3, <2>3, <3>1, <3>3, <4>1
      <4> QED
        BY <1>2, <2>3, <3>1, <3>3, <4>2 DEF StampInv, Differ
    <3> QED
      BY <3>2, <3>3
  <2> QED
    BY <2>2, <2>3 DEF Differ
<1> QED
  BY <1>4, <1>5, <1>6 DEF StampInv

LEMMA StampInvStep == Typed /\ TokenInv /\ StampInv /\ NextCases => StampInv'
<1> SUFFICES ASSUME Typed, TokenInv, StampInv, NextCases PROVE StampInv'
  OBVIOUS
<1>1. ASSUME NEW r \in Requests, NEW u \in Users, GetUser(r, u) PROVE StampInv'
  BY <1>1, GetUserKeepsStampInv
<1>2. ASSUME NEW r \in Requests, SetToken(r) PROVE StampInv'
  BY <1>2, SetTokenKeepsStampInv
<1>3. ASSUME NEW r \in Requests, SetMap(r) PROVE StampInv'
  <2>1. Moves(r, {"SetMap"}, {"Done"}) /\ request'[r].stamp \in {request[r].stamp, None}
    BY <1>3, SetMapMoves, NoRequestTyped DEF Keeps, Labels
  <2>2. UNCHANGED <<stamp, session, outdated>>
    BY <1>3 DEF SetMap, userVars, roleVars, permVars, tokenVars
  <2> QED
    BY <2>1, <2>2, StampInvFrame DEF Moves, Labels
<1>4. ASSUME NEW r \in Requests, NEW t \in Tokens, AdminUserLogout(r, t) PROVE StampInv'
  <2>1. Moves(r, {"Idle"}, {"GetMap"}) /\ request'[r].stamp \in {request[r].stamp, None}
    BY <1>4, AdminUserLogoutMoves, NoRequestTyped DEF Keeps, Labels
  <2>2. UNCHANGED <<stamp, session, outdated>>
    BY <1>4 DEF AdminUserLogout, userVars, roleVars, permVars, tokenVars
  <2> QED
    BY <2>1, <2>2, StampInvFrame DEF Moves, Labels
<1>5. ASSUME NEW r \in Requests, NEW u \in Users, MobilePasswordReset(r, u) PROVE StampInv'
  <2>1. Moves(r, {"Idle"}, {"Password"}) /\ request'[r].stamp \in {request[r].stamp, None}
    BY <1>5, MobilePasswordResetMoves, NoRequestTyped DEF Keeps, Labels
  <2>2. UNCHANGED <<stamp, session, outdated>>
    BY <1>5 DEF MobilePasswordReset, userVars, roleVars, permVars, tokenVars
  <2> QED
    BY <2>1, <2>2, StampInvFrame DEF Moves, Labels
<1>6. ASSUME NEW r \in Requests, UpdateUserPassword(r) PROVE StampInv'
  <2>1. Moves(r, {"Password"}, {"GetMap"}) /\ request'[r].stamp \in {request[r].stamp, None}
    BY <1>6, UpdateUserPasswordMoves, NoRequestTyped DEF Keeps, Labels
  <2>2. request[r].user \in Users /\ Restamp(r, request[r].user) /\ UNCHANGED session
    BY <1>6, Fields DEF UpdateUserPassword, OfUser
  <2> QED
    BY <2>1, <2>2, RestampKeepsStampInv DEF Moves
<1>7. ASSUME NEW r \in Requests, GetNewestToken(r) PROVE StampInv'
  <2>1. /\ Moves(r, {"GetMap"}, {"Done", "Clean"})
        /\ request'[r].stamp \in {request[r].stamp, None}
    BY <1>7, GetNewestTokenMoves, NoRequestTyped DEF Keeps, Labels
  <2>2. UNCHANGED <<stamp, session, outdated>>
    BY <1>7 DEF GetNewestToken, userVars, roleVars, permVars, tokenVars
  <2> QED
    BY <2>1, <2>2, StampInvFrame DEF Moves, Labels
<1>8. ASSUME NEW r \in Requests, CleanAdminUserToken(r) PROVE StampInv'
  BY <1>8, CleanKeepsStampInv
<1>9. ASSUME NEW r \in Requests, NEW u \in Users, NEW list \in RoleLists, CreateUser(r, u,
             list)
      PROVE  StampInv'
  BY <1>9, CreateKeepsStampInv
<1>10. ASSUME NEW r \in Requests, NEW u \in Users, NEW list \in RoleLists,
              NEW enable \in BOOLEAN, UpdateUser(r, u, list, enable)
       PROVE  StampInv'
  <2>1. Moves(r, {"Idle"}, {"UpdateRow"}) /\ request'[r].stamp \in {request[r].stamp, None}
    BY <1>10, UpdateUserMoves, NoRequestTyped DEF Keeps, Labels
  <2>2. UNCHANGED <<stamp, session, outdated>>
    BY <1>10 DEF UpdateUser, userVars, roleVars, permVars, tokenVars
  <2> QED
    BY <2>1, <2>2, StampInvFrame DEF Moves, Labels
<1>11. ASSUME NEW r \in Requests, UpdateUserRow(r) PROVE StampInv'
  <2>1. /\ Moves(r, {"UpdateRow"}, {"DeleteRoles"})
        /\ request'[r].stamp \in {request[r].stamp, None}
    BY <1>11, UpdateUserRowMoves, NoRequestTyped DEF Keeps, Labels
  <2>2. UNCHANGED <<stamp, session, outdated>>
    BY <1>11 DEF UpdateUserRow, userVars, roleVars, permVars, tokenVars
  <2> QED
    BY <2>1, <2>2, StampInvFrame DEF Moves, Labels
<1>12. ASSUME NEW r \in Requests, DeleteUserRoles(r) PROVE StampInv'
  <2>1. /\ Moves(r, {"DeleteRoles"}, {"InsertRoles"})
        /\ request'[r].stamp \in {request[r].stamp, None}
    BY <1>12, DeleteUserRolesMoves, NoRequestTyped DEF Keeps, Labels
  <2>2. UNCHANGED <<stamp, session, outdated>>
    BY <1>12 DEF DeleteUserRoles, userVars, roleVars, permVars, tokenVars
  <2> QED
    BY <2>1, <2>2, StampInvFrame DEF Moves, Labels
<1>13. ASSUME NEW r \in Requests, InsertUserRoles(r) PROVE StampInv'
  <2>1. /\ Moves(r, {"InsertRoles"}, {"CommitUser"})
        /\ request'[r].stamp \in {request[r].stamp, None}
    BY <1>13, InsertUserRolesMoves, NoRequestTyped DEF Keeps, Labels
  <2>2. UNCHANGED <<stamp, session, outdated>>
    BY <1>13 DEF InsertUserRoles, userVars, roleVars, permVars, tokenVars
  <2> QED
    BY <2>1, <2>2, StampInvFrame DEF Moves, Labels
<1>14. ASSUME NEW r \in Requests, CommitUser(r) PROVE StampInv'
  <2>1. Moves(r, {"CommitUser"}, {"Done"}) /\ request'[r].stamp \in {request[r].stamp, None}
    BY <1>14, CommitUserMoves, NoRequestTyped DEF Keeps, Labels
  <2>2. request[r].user \in Users /\ Restamp(r, request[r].user) /\ UNCHANGED session
    BY <1>14, Fields DEF CommitUser, OfUser
  <2> QED
    BY <2>1, <2>2, RestampKeepsStampInv DEF Moves
<1>15. ASSUME NEW r \in Requests, NEW u \in Users, DeleteUser(r, u) PROVE StampInv'
  <2>1. Moves(r, {"Idle"}, {"Done"}) /\ request'[r].stamp \in {request[r].stamp, None}
    BY <1>15, DeleteUserMoves, NoRequestTyped DEF Keeps, Labels
  <2>2. UNCHANGED <<stamp, session, outdated>>
    BY <1>15 DEF DeleteUser, userVars, roleVars, permVars, tokenVars
  <2> QED
    BY <2>1, <2>2, StampInvFrame DEF Moves, Labels
<1>16. ASSUME NEW r \in Requests, NEW role \in Roles, NEW set \in PermSets, SetRolePerms(r,
              role, set)
       PROVE  StampInv'
  <2>1. /\ Moves(r, {"Idle"}, {"DeletePerms"})
        /\ request'[r].stamp \in {request[r].stamp, None}
    BY <1>16, SetRolePermsMoves, NoRequestTyped DEF Keeps, Labels
  <2>2. UNCHANGED <<stamp, session, outdated>>
    BY <1>16 DEF SetRolePerms, userVars, roleVars, permVars, tokenVars
  <2> QED
    BY <2>1, <2>2, StampInvFrame DEF Moves, Labels
<1>17. ASSUME NEW r \in Requests, DeleteRolePerms(r) PROVE StampInv'
  <2>1. /\ Moves(r, {"DeletePerms"}, {"InsertPerms"})
        /\ request'[r].stamp \in {request[r].stamp, None}
    BY <1>17, DeleteRolePermsMoves, NoRequestTyped DEF Keeps, Labels
  <2>2. UNCHANGED <<stamp, session, outdated>>
    BY <1>17 DEF DeleteRolePerms, userVars, roleVars, permVars, tokenVars
  <2> QED
    BY <2>1, <2>2, StampInvFrame DEF Moves, Labels
<1>18. ASSUME NEW r \in Requests, InsertRolePerms(r) PROVE StampInv'
  <2>1. /\ Moves(r, {"InsertPerms"}, {"CommitPerms"})
        /\ request'[r].stamp \in {request[r].stamp, None}
    BY <1>18, InsertRolePermsMoves, NoRequestTyped DEF Keeps, Labels
  <2>2. UNCHANGED <<stamp, session, outdated>>
    BY <1>18 DEF InsertRolePerms, userVars, roleVars, permVars, tokenVars
  <2> QED
    BY <2>1, <2>2, StampInvFrame DEF Moves, Labels
<1>19. ASSUME NEW r \in Requests, CommitRolePerms(r) PROVE StampInv'
  <2>1. /\ Moves(r, {"CommitPerms"}, {"Done"})
        /\ request'[r].stamp \in {request[r].stamp, None}
    BY <1>19, CommitRolePermsMoves, NoRequestTyped DEF Keeps, Labels
  <2>2. UNCHANGED <<stamp, session, outdated>>
    BY <1>19 DEF CommitRolePerms, userVars, roleVars, permVars, tokenVars
  <2> QED
    BY <2>1, <2>2, StampInvFrame DEF Moves, Labels
<1>20. ASSUME NEW r \in Requests, NEW p \in Perms, DeletePermission(r, p) PROVE StampInv'
  <2>1. Moves(r, {"Idle"}, {"Done"}) /\ request'[r].stamp \in {request[r].stamp, None}
    BY <1>20, DeletePermissionMoves, NoRequestTyped DEF Keeps, Labels
  <2>2. UNCHANGED <<stamp, session, outdated>>
    BY <1>20 DEF DeletePermission, userVars, roleVars, permVars, tokenVars
  <2> QED
    BY <2>1, <2>2, StampInvFrame DEF Moves, Labels
<1>21. ASSUME NEW r \in Requests, Stop(r) PROVE StampInv'
  <2>1. /\ Moves(r, Labels \ {"Idle", "Done"}, {"Done"})
        /\ request'[r].stamp \in {request[r].stamp, None}
    BY <1>21, StopMoves, NoRequestTyped DEF Keeps, Labels
  <2>2. UNCHANGED <<stamp, session, outdated>>
    BY <1>21 DEF Stop, userVars, roleVars, permVars, tokenVars
  <2> QED
    BY <2>1, <2>2, StampInvFrame DEF Moves, Labels
<1>22. CASE UNCHANGED vars
  BY <1>22, StampInvSame DEF vars, userVars, roleVars, permVars, tokenVars
<1> QED
  BY <1>1, <1>2, <1>3, <1>4, <1>5, <1>6, <1>7, <1>8, <1>9, <1>10, <1>11,
     <1>12, <1>13, <1>14, <1>15, <1>16, <1>17, <1>18, <1>19, <1>20, <1>21,
        <1>22, SMTT(60) DEF NextCases

LEMMA InitStamps == Init => StampInv
<1> SUFFICES ASSUME Init PROVE StampInv
  OBVIOUS
<1>1. \A r \in Requests : request[r].pc = "Idle" /\ request[r].stamp = None
  BY DEF Init, NoRequest
<1>2. None \notin Requests /\ \A r \in Requests : r \in Tokens
  BY BackOfficeAssumption DEF Tokens
<1>3. \A t \in Tokens : session[t].stamp = None
  BY DEF Init, NoSession
<1>4. \A u \in Users : stamp[u] = None
  BY DEF Init
<1>5. NotWritten
  BY <1>1, <1>2, <1>3, <1>4 DEF NotWritten
<1>6. NotIn
  <2> SUFFICES ASSUME NEW r \in Requests PROVE session[r].user = None /\ r \notin outdated
    BY DEF NotIn
  <2>1. session[r].user \in Users \cup {None}
    BY <1>2, InitTyped, SessionTyped
  <2>2. \A u \in Users : session[r].user # u
    BY <1>2, BackOfficeAssumption DEF Init
  <2> QED
    BY <2>1, <2>2 DEF Init
<1>7. Differ
  BY DEF Init, Differ
<1> QED
  BY <1>5, <1>6, <1>7 DEF StampInv

(* A token never lets in an administrator whose row was updated after the  *)
(* login had read it (service/admin/user.go), and a logout or a reset ends *)
(* the token the map knew of, unless a call failed, another was ending it  *)
(* already, or a login set the map meanwhile.                              *)
THEOREM TokensAlwaysEnd == Spec => []TokensEnd
<1>1. Init => Typed /\ TokenInv /\ StampInv
  BY InitTyped, InitTokens, InitStamps
<1>2. Typed /\ TokenInv /\ StampInv /\ [Next]_vars => (Typed /\ TokenInv /\ StampInv)'
  BY NextIsCases, TypeStep, TokenInvStep, StampInvStep
<1>3. Typed /\ TokenInv /\ StampInv => TokensEnd
  <2> SUFFICES ASSUME Typed, TokenInv, StampInv PROVE TokensEnd
    OBVIOUS
  <2>1. ASSUME NEW t \in outdated PROVE ~ LetsIn(t)
    <3>1. session[t].user \in Users \cup {None}
      BY SessionTyped DEF Typed, TypeOK
    <3> QED
      BY <3>1 DEF LetsIn, StampInv, Differ
  <2>2. \A t \in doomed, u \in Users : session[t].user = u => Ending(u) \/ faults > 0
    BY BackOfficeAssumption DEF TokenInv, Doomed, Typed, TypeOK
  <2> QED
    BY <2>1, <2>2 DEF TokensEnd
<1> QED
  BY <1>1, <1>2, <1>3, PTL DEF Spec

-----------------------------------------------------------------------------
(* The update of a user that has written the row holds it to its end, so   *)
(* that what it deletes is all there is; and of a role that is not mixed   *)
(* at most one replacement is under way, and has deleted all there is.     *)
Holding  == {"DeleteRoles", "InsertRoles", "CommitUser"}
Updating == Holding \cup {"UpdateRow"}

RolesInv ==
  /\ \A r, q \in Requests :
       request[r].pc \in Holding /\ request[q].pc \in Holding
         /\ request[r].user = request[q].user => r = q
  /\ \A r \in Requests :
       /\ request[r].pc \in Updating => request[r].user \in known
       /\ request[r].pc \in {"InsertRoles", "CommitUser"} =>
            request[r].gone = userRole[request[r].user]
       /\ At(r, "CommitUser") => RolesOf(request[r].rows) = ToSet(request[r].list)
  /\ \A u \in Users : RolesOf(userRole[u]) = wantedRoles[u]

PermsInv == \A role \in Roles \ mixed :
  /\ rolePerm[role] = wantedPerms[role]
  /\ \A q \in Replacing(role) :
       request[q].taken = rolePerm[role] /\ \A p \in Replacing(role) : p = q

LEMMA RolesInvSame ==
  ASSUME RolesInv, UNCHANGED <<userVars, roleVars, request>> PROVE RolesInv'
BY DEF RolesInv, userVars, roleVars

LEMMA RolesInvFrame ==
  ASSUME Typed, RolesInv, UNCHANGED <<known, userRole, wantedRoles>>, NEW r \in Requests,
         \A q \in Requests : q # r => request'[q] = request[q],
         request'[r].pc \notin Updating
  PROVE  RolesInv'
BY DEF RolesInv, Updating, Holding

LEMMA UpdateUserKeepsRoles ==
  ASSUME Typed, RolesInv, NEW r \in Requests, NEW u \in Users, NEW list \in RoleLists,
         NEW enable \in BOOLEAN, UpdateUser(r, u, list, enable)
  PROVE  RolesInv'
<1>1. Moves(r, {"Idle"}, {"UpdateRow"}) /\ request'[r].user = u
  BY UpdateUserMoves
<1>2. UNCHANGED <<known, userRole, wantedRoles>> /\ u \in known
  BY DEF UpdateUser, userVars, roleVars
<1> QED
  BY <1>1, <1>2 DEF RolesInv, Updating, Holding, Moves

LEMMA UpdateRowKeepsRoles ==
  ASSUME Typed, RolesInv, NEW r \in Requests, UpdateUserRow(r)
  PROVE  RolesInv'
<1>1. Moves(r, {"UpdateRow"}, {"DeleteRoles"}) /\ Keeps(r)
  BY UpdateUserRowMoves
<1>2. UNCHANGED <<known, userRole, wantedRoles>>
  BY DEF UpdateUserRow, userVars, roleVars
<1>3. \A q \in Requests : request[q].pc \in Holding => request[q].user # request[r].user
  BY DEF UpdateUserRow, RowLocked, Holding
<1> QED
  BY <1>1, <1>2, <1>3 DEF RolesInv, Updating, Holding, Moves, Keeps

LEMMA DeleteRolesKeepsRoles ==
  ASSUME Typed, RolesInv, NEW r \in Requests, DeleteUserRoles(r)
  PROVE  RolesInv'
<1>1. /\ Moves(r, {"DeleteRoles"}, {"InsertRoles"})
      /\ request'[r].user = request[r].user
      /\ request'[r].gone = userRole[request[r].user]
  BY DeleteUserRolesMoves
<1>2. UNCHANGED <<known, userRole, wantedRoles>>
  BY DEF DeleteUserRoles, userVars, roleVars
<1> QED
  BY <1>1, <1>2 DEF RolesInv, Updating, Holding, Moves

LEMMA InsertRolesKeepsRoles ==
  ASSUME Typed, RolesInv, NEW r \in Requests, InsertUserRoles(r)
  PROVE  RolesInv'
<1>1. /\ Moves(r, {"InsertRoles"}, {"CommitUser"})
      /\ request'[r].user = request[r].user
      /\ request'[r].list = request[r].list
      /\ request'[r].gone = request[r].gone
      /\ request'[r].rows = RowsOf(request[r].list, lastId)
  BY InsertUserRolesMoves
<1>2. UNCHANGED <<known, userRole, wantedRoles>>
  BY DEF InsertUserRoles, userVars, roleVars
<1>3. RolesOf(request'[r].rows) = ToSet(request'[r].list)
  BY <1>1, Fields, RowsTyped DEF Typed, TypeOK
<1> QED
  BY <1>1, <1>2, <1>3 DEF RolesInv, Updating, Holding, Moves

LEMMA CommitUserKeepsRoles ==
  ASSUME Typed, RolesInv, NEW r \in Requests, CommitUser(r)
  PROVE  RolesInv'
<1> PICK u0 \in Users : u0 = request[r].user
  BY Fields DEF CommitUser, OfUser
<1>1. Moves(r, {"CommitUser"}, {"Done"})
  BY CommitUserMoves
<1>2. /\ userRole' = [userRole EXCEPT ![u0] = (@ \ request[r].gone) \cup request[r].rows]
      /\ wantedRoles' = [wantedRoles EXCEPT ![u0] = ToSet(request[r].list)]
      /\ UNCHANGED known
  BY DEF CommitUser
<1>3. request[r].gone = userRole[u0] /\ RolesOf(request[r].rows) = ToSet(request[r].list)
  BY <1>1 DEF RolesInv, Moves
<1>4. /\ userRole'[u0] = request[r].rows /\ wantedRoles'[u0] = ToSet(request[r].list)
      /\ \A u \in Users : u # u0 => userRole'[u] = userRole[u] /\ wantedRoles'[u] = wantedRoles[u]
  BY <1>2, <1>3 DEF Typed, TypeOK
<1>5. \A u \in Users : RolesOf(userRole'[u]) = wantedRoles'[u]
  BY <1>3, <1>4 DEF RolesInv
<1>6. \A q \in Requests : request'[q].pc \in Updating \cup Holding =>
        q # r /\ request'[q] = request[q] /\ request[q].user \in Users
  BY <1>1, Fields DEF Moves, Updating, Holding, OfUser
<1>7. \A q \in Requests : q # r /\ request[q].pc \in Holding => request[q].user # u0
  BY <1>1 DEF RolesInv, Moves, Holding
<1>8. \A p, q \in Requests :
        request'[p].pc \in Holding /\ request'[q].pc \in Holding
          /\ request'[p].user = request'[q].user => p = q
  BY <1>6 DEF RolesInv
<1>9. \A q \in Requests : request'[q].pc \in Updating => request'[q].user \in known'
  BY <1>2, <1>6 DEF RolesInv
<1>10. \A q \in Requests : request'[q].pc \in {"InsertRoles", "CommitUser"} =>
         request'[q].gone = userRole'[request'[q].user]
  BY <1>4, <1>6, <1>7 DEF RolesInv, Holding
<1>11. \A q \in Requests : At(q, "CommitUser")' => RolesOf(request'[q].rows) = ToSet(request'[q].list)
  BY <1>6 DEF RolesInv, Holding
<1> QED
  BY <1>5, <1>8, <1>9, <1>10, <1>11 DEF RolesInv

LEMMA CreateUserKeepsRoles ==
  ASSUME Typed, RolesInv, NEW r \in Requests, NEW u0 \in Users, NEW list \in RoleLists,
         CreateUser(r, u0, list)
  PROVE  RolesInv'
<1>1. Moves(r, {"Idle"}, {"Done"})
  BY CreateUserMoves
<1>2. /\ userRole' = [userRole EXCEPT ![u0] = RowsOf(list, lastId)]
      /\ wantedRoles' = [wantedRoles EXCEPT ![u0] = ToSet(list)]
      /\ known' = known \cup {u0} /\ u0 \notin known
  BY DEF CreateUser
<1>3. RolesOf(RowsOf(list, lastId)) = ToSet(list)
  BY RowsTyped, BackOfficeAssumption DEF Typed, TypeOK
<1>4. /\ userRole'[u0] = RowsOf(list, lastId) /\ wantedRoles'[u0] = ToSet(list)
      /\ \A u \in Users : u # u0 => userRole'[u] = userRole[u] /\ wantedRoles'[u] = wantedRoles[u]
  BY <1>2 DEF Typed, TypeOK
<1>5. \A u \in Users : RolesOf(userRole'[u]) = wantedRoles'[u]
  BY <1>3, <1>4 DEF RolesInv
<1>6. \A q \in Requests : request'[q].pc \in Updating =>
        /\ request'[q] = request[q] /\ request[q].user \in known
        /\ request[q].user \in Users \ {u0}
  BY <1>1, <1>2, Fields DEF RolesInv, Moves, Updating, Holding, OfUser
<1> QED
  BY <1>2, <1>4, <1>5, <1>6 DEF RolesInv, Updating, Holding

LEMMA PermsInvSame ==
  ASSUME PermsInv, UNCHANGED <<permVars, request>> PROVE PermsInv'
BY DEF PermsInv, Replacing, permVars

LEMMA PermsInvFrame ==
  ASSUME Typed, PermsInv, UNCHANGED <<rolePerm, wantedPerms, mixed>>, NEW r \in Requests,
         \A q \in Requests : q # r => request'[q] = request[q],
         request'[r].pc \notin {"InsertPerms", "CommitPerms"}
  PROVE  PermsInv'
<1>1. \A role : \A q \in Replacing(role)' : q \in Replacing(role) /\ request'[q] = request[q]
  BY DEF Replacing
<1> QED
  BY <1>1 DEF PermsInv

LEMMA DeletePermsKeepsPerms ==
  ASSUME Typed, PermsInv, NEW r \in Requests, DeleteRolePerms(r)
  PROVE  PermsInv'
<1> PICK role0 \in Roles : role0 = request[r].role
  BY Fields DEF DeleteRolePerms, OfRole
<1>1. /\ Moves(r, {"DeletePerms"}, {"InsertPerms"})
      /\ request'[r].role = role0 /\ request'[r].taken = rolePerm[role0]
  BY DeleteRolePermsMoves
<1>2. /\ UNCHANGED <<rolePerm, wantedPerms>>
      /\ mixed' = IF Replacing(role0) = {} THEN mixed ELSE mixed \cup {role0}
  BY DEF DeleteRolePerms
<1> SUFFICES ASSUME NEW role \in Roles, role \notin mixed'
             PROVE  (/\ rolePerm[role] = wantedPerms[role]
                     /\ \A q \in Replacing(role) :
                          request[q].taken = rolePerm[role] /\ \A p \in Replacing(role) : p = q)'
  BY DEF PermsInv
<1>3. role \notin mixed
  BY <1>2
<1>4. CASE role = role0
  <2>1. Replacing(role0) = {}
    BY <1>2, <1>4
  <2>2. \A q \in Replacing(role)' : q = r
    BY <1>1, <1>4, <2>1 DEF Replacing, Moves
  <2> QED
    BY <1>1, <1>2, <1>3, <1>4, <2>2 DEF PermsInv
<1>5. CASE role # role0
  <2>1. \A q \in Replacing(role)' : q \in Replacing(role) /\ request'[q] = request[q]
    BY <1>1, <1>5 DEF Replacing, Moves
  <2> QED
    BY <1>2, <1>3, <2>1 DEF PermsInv
<1> QED
  BY <1>4, <1>5

LEMMA InsertPermsKeepsPerms ==
  ASSUME Typed, PermsInv, NEW r \in Requests, InsertRolePerms(r)
  PROVE  PermsInv'
<1>1. Moves(r, {"InsertPerms"}, {"CommitPerms"}) /\ Keeps(r)
  BY InsertRolePermsMoves
<1>2. UNCHANGED <<rolePerm, wantedPerms, mixed>>
  BY DEF InsertRolePerms, permVars
<1>3. \A role : \A q \in Replacing(role)' :
        q \in Replacing(role) /\ request'[q].taken = request[q].taken
  BY <1>1 DEF Replacing, Moves, Keeps
<1> QED
  BY <1>2, <1>3 DEF PermsInv

LEMMA CommitPermsKeepsPerms ==
  ASSUME Typed, PermsInv, NEW r \in Requests, CommitRolePerms(r)
  PROVE  PermsInv'
<1> PICK role0 \in Roles : role0 = request[r].role
  BY Fields DEF CommitRolePerms, OfRole
<1>1. Moves(r, {"CommitPerms"}, {"Done"})
  BY CommitRolePermsMoves
<1>2. /\ rolePerm' = [rolePerm EXCEPT ![role0] = (@ \ request[r].taken) \cup request[r].set]
      /\ wantedPerms' = [wantedPerms EXCEPT ![role0] = request[r].set]
      /\ UNCHANGED mixed
  BY DEF CommitRolePerms
<1> SUFFICES ASSUME NEW role \in Roles, role \notin mixed
             PROVE  (/\ rolePerm[role] = wantedPerms[role]
                     /\ \A q \in Replacing(role) :
                          request[q].taken = rolePerm[role] /\ \A p \in Replacing(role) : p = q)'
  BY <1>2 DEF PermsInv
<1>3. \A q \in Replacing(role)' : q \in Replacing(role) /\ q # r /\ request'[q] = request[q]
  BY <1>1 DEF Replacing, Moves
<1>4. CASE role = role0
  <2>1. r \in Replacing(role)
    BY <1>1, <1>4 DEF Replacing, Moves
  <2>2. request[r].taken = rolePerm[role] /\ \A p \in Replacing(role) : p = r
    BY <2>1 DEF PermsInv
  <2>3. rolePerm'[role] = request[r].set /\ wantedPerms'[role] = request[r].set
    BY <1>2, <1>4, <2>2 DEF Typed, TypeOK
  <2> QED
    BY <1>3, <2>2, <2>3
<1>5. CASE role # role0
  <2>1. rolePerm'[role] = rolePerm[role] /\ wantedPerms'[role] = wantedPerms[role]
    BY <1>2, <1>5 DEF Typed, TypeOK
  <2> QED
    BY <1>3, <2>1 DEF PermsInv
<1> QED
  BY <1>4, <1>5

LEMMA RolesInvStep == Typed /\ RolesInv /\ NextCases => RolesInv'
<1> SUFFICES ASSUME Typed, RolesInv, NextCases PROVE RolesInv'
  OBVIOUS
<1>1. ASSUME NEW r \in Requests, NEW u \in Users, GetUser(r, u) PROVE RolesInv'
  <2>1. Moves(r, {"Idle"}, {"SetToken"})
    BY <1>1, GetUserMoves
  <2>2. UNCHANGED <<known, userRole, wantedRoles>>
    BY <1>1, BackOfficeAssumption DEF GetUser, userVars, roleVars, permVars, tokenVars
  <2> QED
    BY <2>1, <2>2, RolesInvFrame DEF Moves, Updating, Holding
<1>2. ASSUME NEW r \in Requests, SetToken(r) PROVE RolesInv'
  <2>1. Moves(r, {"SetToken"}, {"SetMap"})
    BY <1>2, SetTokenMoves
  <2>2. UNCHANGED <<known, userRole, wantedRoles>>
    BY <1>2, BackOfficeAssumption DEF SetToken, userVars, roleVars, permVars, tokenVars
  <2> QED
    BY <2>1, <2>2, RolesInvFrame DEF Moves, Updating, Holding
<1>3. ASSUME NEW r \in Requests, SetMap(r) PROVE RolesInv'
  <2>1. Moves(r, {"SetMap"}, {"Done"})
    BY <1>3, SetMapMoves
  <2>2. UNCHANGED <<known, userRole, wantedRoles>>
    BY <1>3, BackOfficeAssumption DEF SetMap, userVars, roleVars, permVars, tokenVars
  <2> QED
    BY <2>1, <2>2, RolesInvFrame DEF Moves, Updating, Holding
<1>4. ASSUME NEW r \in Requests, NEW t \in Tokens, AdminUserLogout(r, t) PROVE RolesInv'
  <2>1. Moves(r, {"Idle"}, {"GetMap"})
    BY <1>4, AdminUserLogoutMoves
  <2>2. UNCHANGED <<known, userRole, wantedRoles>>
    BY <1>4, BackOfficeAssumption DEF AdminUserLogout, userVars, roleVars, permVars,
       tokenVars
  <2> QED
    BY <2>1, <2>2, RolesInvFrame DEF Moves, Updating, Holding
<1>5. ASSUME NEW r \in Requests, NEW u \in Users, MobilePasswordReset(r, u) PROVE RolesInv'
  <2>1. Moves(r, {"Idle"}, {"Password"})
    BY <1>5, MobilePasswordResetMoves
  <2>2. UNCHANGED <<known, userRole, wantedRoles>>
    BY <1>5, BackOfficeAssumption DEF MobilePasswordReset, userVars, roleVars, permVars,
       tokenVars
  <2> QED
    BY <2>1, <2>2, RolesInvFrame DEF Moves, Updating, Holding
<1>6. ASSUME NEW r \in Requests, UpdateUserPassword(r) PROVE RolesInv'
  <2>1. Moves(r, {"Password"}, {"GetMap"})
    BY <1>6, UpdateUserPasswordMoves
  <2>2. UNCHANGED <<known, userRole, wantedRoles>>
    BY <1>6, BackOfficeAssumption DEF UpdateUserPassword, userVars, roleVars, permVars,
       tokenVars
  <2> QED
    BY <2>1, <2>2, RolesInvFrame DEF Moves, Updating, Holding
<1>7. ASSUME NEW r \in Requests, GetNewestToken(r) PROVE RolesInv'
  <2>1. Moves(r, {"GetMap"}, {"Done", "Clean"})
    BY <1>7, GetNewestTokenMoves
  <2>2. UNCHANGED <<known, userRole, wantedRoles>>
    BY <1>7, BackOfficeAssumption DEF GetNewestToken, userVars, roleVars, permVars,
       tokenVars
  <2> QED
    BY <2>1, <2>2, RolesInvFrame DEF Moves, Updating, Holding
<1>8. ASSUME NEW r \in Requests, CleanAdminUserToken(r) PROVE RolesInv'
  <2>1. Moves(r, {"Clean"}, {"Done"})
    BY <1>8, CleanAdminUserTokenMoves
  <2>2. UNCHANGED <<known, userRole, wantedRoles>>
    BY <1>8, BackOfficeAssumption DEF CleanAdminUserToken, userVars, roleVars, permVars,
       tokenVars
  <2> QED
    BY <2>1, <2>2, RolesInvFrame DEF Moves, Updating, Holding
<1>9. ASSUME NEW r \in Requests, NEW u \in Users, NEW list \in RoleLists, CreateUser(r, u,
             list)
      PROVE  RolesInv'
  BY <1>9, CreateUserKeepsRoles
<1>10. ASSUME NEW r \in Requests, NEW u \in Users, NEW list \in RoleLists,
              NEW enable \in BOOLEAN, UpdateUser(r, u, list, enable)
       PROVE  RolesInv'
  BY <1>10, UpdateUserKeepsRoles
<1>11. ASSUME NEW r \in Requests, UpdateUserRow(r) PROVE RolesInv'
  BY <1>11, UpdateRowKeepsRoles
<1>12. ASSUME NEW r \in Requests, DeleteUserRoles(r) PROVE RolesInv'
  BY <1>12, DeleteRolesKeepsRoles
<1>13. ASSUME NEW r \in Requests, InsertUserRoles(r) PROVE RolesInv'
  BY <1>13, InsertRolesKeepsRoles
<1>14. ASSUME NEW r \in Requests, CommitUser(r) PROVE RolesInv'
  BY <1>14, CommitUserKeepsRoles
<1>15. ASSUME NEW r \in Requests, NEW u \in Users, DeleteUser(r, u) PROVE RolesInv'
  <2>1. Moves(r, {"Idle"}, {"Done"})
    BY <1>15, DeleteUserMoves
  <2>2. UNCHANGED <<known, userRole, wantedRoles>>
    BY <1>15, BackOfficeAssumption DEF DeleteUser, userVars, roleVars, permVars, tokenVars
  <2> QED
    BY <2>1, <2>2, RolesInvFrame DEF Moves, Updating, Holding
<1>16. ASSUME NEW r \in Requests, NEW role \in Roles, NEW set \in PermSets, SetRolePerms(r,
              role, set)
       PROVE  RolesInv'
  <2>1. Moves(r, {"Idle"}, {"DeletePerms"})
    BY <1>16, SetRolePermsMoves
  <2>2. UNCHANGED <<known, userRole, wantedRoles>>
    BY <1>16, BackOfficeAssumption DEF SetRolePerms, userVars, roleVars, permVars, tokenVars
  <2> QED
    BY <2>1, <2>2, RolesInvFrame DEF Moves, Updating, Holding
<1>17. ASSUME NEW r \in Requests, DeleteRolePerms(r) PROVE RolesInv'
  <2>1. Moves(r, {"DeletePerms"}, {"InsertPerms"})
    BY <1>17, DeleteRolePermsMoves
  <2>2. UNCHANGED <<known, userRole, wantedRoles>>
    BY <1>17, BackOfficeAssumption DEF DeleteRolePerms, userVars, roleVars, permVars,
       tokenVars
  <2> QED
    BY <2>1, <2>2, RolesInvFrame DEF Moves, Updating, Holding
<1>18. ASSUME NEW r \in Requests, InsertRolePerms(r) PROVE RolesInv'
  <2>1. Moves(r, {"InsertPerms"}, {"CommitPerms"})
    BY <1>18, InsertRolePermsMoves
  <2>2. UNCHANGED <<known, userRole, wantedRoles>>
    BY <1>18, BackOfficeAssumption DEF InsertRolePerms, userVars, roleVars, permVars,
       tokenVars
  <2> QED
    BY <2>1, <2>2, RolesInvFrame DEF Moves, Updating, Holding
<1>19. ASSUME NEW r \in Requests, CommitRolePerms(r) PROVE RolesInv'
  <2>1. Moves(r, {"CommitPerms"}, {"Done"})
    BY <1>19, CommitRolePermsMoves
  <2>2. UNCHANGED <<known, userRole, wantedRoles>>
    BY <1>19, BackOfficeAssumption DEF CommitRolePerms, userVars, roleVars, permVars,
       tokenVars
  <2> QED
    BY <2>1, <2>2, RolesInvFrame DEF Moves, Updating, Holding
<1>20. ASSUME NEW r \in Requests, NEW p \in Perms, DeletePermission(r, p) PROVE RolesInv'
  <2>1. Moves(r, {"Idle"}, {"Done"})
    BY <1>20, DeletePermissionMoves
  <2>2. UNCHANGED <<known, userRole, wantedRoles>>
    BY <1>20, BackOfficeAssumption DEF DeletePermission, userVars, roleVars, permVars,
       tokenVars
  <2> QED
    BY <2>1, <2>2, RolesInvFrame DEF Moves, Updating, Holding
<1>21. ASSUME NEW r \in Requests, Stop(r) PROVE RolesInv'
  <2>1. Moves(r, Labels \ {"Idle", "Done"}, {"Done"})
    BY <1>21, StopMoves
  <2>2. UNCHANGED <<known, userRole, wantedRoles>>
    BY <1>21, BackOfficeAssumption DEF Stop, userVars, roleVars, permVars, tokenVars
  <2> QED
    BY <2>1, <2>2, RolesInvFrame DEF Moves, Updating, Holding
<1>22. CASE UNCHANGED vars
  BY <1>22, RolesInvSame DEF vars, userVars, roleVars, permVars, tokenVars
<1> QED
  BY <1>1, <1>2, <1>3, <1>4, <1>5, <1>6, <1>7, <1>8, <1>9, <1>10, <1>11,
     <1>12, <1>13, <1>14, <1>15, <1>16, <1>17, <1>18, <1>19, <1>20, <1>21,
        <1>22, SMTT(60) DEF NextCases

LEMMA PermsInvStep == Typed /\ PermsInv /\ NextCases => PermsInv'
<1> SUFFICES ASSUME Typed, PermsInv, NextCases PROVE PermsInv'
  OBVIOUS
<1>1. ASSUME NEW r \in Requests, NEW u \in Users, GetUser(r, u) PROVE PermsInv'
  <2>1. Moves(r, {"Idle"}, {"SetToken"})
    BY <1>1, GetUserMoves
  <2>2. UNCHANGED <<rolePerm, wantedPerms, mixed>>
    BY <1>1, BackOfficeAssumption DEF GetUser, userVars, roleVars, permVars, tokenVars
  <2> QED
    BY <2>1, <2>2, PermsInvFrame DEF Moves, Labels
<1>2. ASSUME NEW r \in Requests, SetToken(r) PROVE PermsInv'
  <2>1. Moves(r, {"SetToken"}, {"SetMap"})
    BY <1>2, SetTokenMoves
  <2>2. UNCHANGED <<rolePerm, wantedPerms, mixed>>
    BY <1>2, BackOfficeAssumption DEF SetToken, userVars, roleVars, permVars, tokenVars
  <2> QED
    BY <2>1, <2>2, PermsInvFrame DEF Moves, Labels
<1>3. ASSUME NEW r \in Requests, SetMap(r) PROVE PermsInv'
  <2>1. Moves(r, {"SetMap"}, {"Done"})
    BY <1>3, SetMapMoves
  <2>2. UNCHANGED <<rolePerm, wantedPerms, mixed>>
    BY <1>3, BackOfficeAssumption DEF SetMap, userVars, roleVars, permVars, tokenVars
  <2> QED
    BY <2>1, <2>2, PermsInvFrame DEF Moves, Labels
<1>4. ASSUME NEW r \in Requests, NEW t \in Tokens, AdminUserLogout(r, t) PROVE PermsInv'
  <2>1. Moves(r, {"Idle"}, {"GetMap"})
    BY <1>4, AdminUserLogoutMoves
  <2>2. UNCHANGED <<rolePerm, wantedPerms, mixed>>
    BY <1>4, BackOfficeAssumption DEF AdminUserLogout, userVars, roleVars, permVars,
       tokenVars
  <2> QED
    BY <2>1, <2>2, PermsInvFrame DEF Moves, Labels
<1>5. ASSUME NEW r \in Requests, NEW u \in Users, MobilePasswordReset(r, u) PROVE PermsInv'
  <2>1. Moves(r, {"Idle"}, {"Password"})
    BY <1>5, MobilePasswordResetMoves
  <2>2. UNCHANGED <<rolePerm, wantedPerms, mixed>>
    BY <1>5, BackOfficeAssumption DEF MobilePasswordReset, userVars, roleVars, permVars,
       tokenVars
  <2> QED
    BY <2>1, <2>2, PermsInvFrame DEF Moves, Labels
<1>6. ASSUME NEW r \in Requests, UpdateUserPassword(r) PROVE PermsInv'
  <2>1. Moves(r, {"Password"}, {"GetMap"})
    BY <1>6, UpdateUserPasswordMoves
  <2>2. UNCHANGED <<rolePerm, wantedPerms, mixed>>
    BY <1>6, BackOfficeAssumption DEF UpdateUserPassword, userVars, roleVars, permVars,
       tokenVars
  <2> QED
    BY <2>1, <2>2, PermsInvFrame DEF Moves, Labels
<1>7. ASSUME NEW r \in Requests, GetNewestToken(r) PROVE PermsInv'
  <2>1. Moves(r, {"GetMap"}, {"Done", "Clean"})
    BY <1>7, GetNewestTokenMoves
  <2>2. UNCHANGED <<rolePerm, wantedPerms, mixed>>
    BY <1>7, BackOfficeAssumption DEF GetNewestToken, userVars, roleVars, permVars,
       tokenVars
  <2> QED
    BY <2>1, <2>2, PermsInvFrame DEF Moves, Labels
<1>8. ASSUME NEW r \in Requests, CleanAdminUserToken(r) PROVE PermsInv'
  <2>1. Moves(r, {"Clean"}, {"Done"})
    BY <1>8, CleanAdminUserTokenMoves
  <2>2. UNCHANGED <<rolePerm, wantedPerms, mixed>>
    BY <1>8, BackOfficeAssumption DEF CleanAdminUserToken, userVars, roleVars, permVars,
       tokenVars
  <2> QED
    BY <2>1, <2>2, PermsInvFrame DEF Moves, Labels
<1>9. ASSUME NEW r \in Requests, NEW u \in Users, NEW list \in RoleLists, CreateUser(r, u,
             list)
      PROVE  PermsInv'
  <2>1. Moves(r, {"Idle"}, {"Done"})
    BY <1>9, CreateUserMoves
  <2>2. UNCHANGED <<rolePerm, wantedPerms, mixed>>
    BY <1>9, BackOfficeAssumption DEF CreateUser, userVars, roleVars, permVars, tokenVars
  <2> QED
    BY <2>1, <2>2, PermsInvFrame DEF Moves, Labels
<1>10. ASSUME NEW r \in Requests, NEW u \in Users, NEW list \in RoleLists,
              NEW enable \in BOOLEAN, UpdateUser(r, u, list, enable)
       PROVE  PermsInv'
  <2>1. Moves(r, {"Idle"}, {"UpdateRow"})
    BY <1>10, UpdateUserMoves
  <2>2. UNCHANGED <<rolePerm, wantedPerms, mixed>>
    BY <1>10, BackOfficeAssumption DEF UpdateUser, userVars, roleVars, permVars, tokenVars
  <2> QED
    BY <2>1, <2>2, PermsInvFrame DEF Moves, Labels
<1>11. ASSUME NEW r \in Requests, UpdateUserRow(r) PROVE PermsInv'
  <2>1. Moves(r, {"UpdateRow"}, {"DeleteRoles"})
    BY <1>11, UpdateUserRowMoves
  <2>2. UNCHANGED <<rolePerm, wantedPerms, mixed>>
    BY <1>11, BackOfficeAssumption DEF UpdateUserRow, userVars, roleVars, permVars,
       tokenVars
  <2> QED
    BY <2>1, <2>2, PermsInvFrame DEF Moves, Labels
<1>12. ASSUME NEW r \in Requests, DeleteUserRoles(r) PROVE PermsInv'
  <2>1. Moves(r, {"DeleteRoles"}, {"InsertRoles"})
    BY <1>12, DeleteUserRolesMoves
  <2>2. UNCHANGED <<rolePerm, wantedPerms, mixed>>
    BY <1>12, BackOfficeAssumption DEF DeleteUserRoles, userVars, roleVars, permVars,
       tokenVars
  <2> QED
    BY <2>1, <2>2, PermsInvFrame DEF Moves, Labels
<1>13. ASSUME NEW r \in Requests, InsertUserRoles(r) PROVE PermsInv'
  <2>1. Moves(r, {"InsertRoles"}, {"CommitUser"})
    BY <1>13, InsertUserRolesMoves
  <2>2. UNCHANGED <<rolePerm, wantedPerms, mixed>>
    BY <1>13, BackOfficeAssumption DEF InsertUserRoles, userVars, roleVars, permVars,
       tokenVars
  <2> QED
    BY <2>1, <2>2, PermsInvFrame DEF Moves, Labels
<1>14. ASSUME NEW r \in Requests, CommitUser(r) PROVE PermsInv'
  <2>1. Moves(r, {"CommitUser"}, {"Done"})
    BY <1>14, CommitUserMoves
  <2>2. UNCHANGED <<rolePerm, wantedPerms, mixed>>
    BY <1>14, BackOfficeAssumption DEF CommitUser, userVars, roleVars, permVars, tokenVars
  <2> QED
    BY <2>1, <2>2, PermsInvFrame DEF Moves, Labels
<1>15. ASSUME NEW r \in Requests, NEW u \in Users, DeleteUser(r, u) PROVE PermsInv'
  <2>1. Moves(r, {"Idle"}, {"Done"})
    BY <1>15, DeleteUserMoves
  <2>2. UNCHANGED <<rolePerm, wantedPerms, mixed>>
    BY <1>15, BackOfficeAssumption DEF DeleteUser, userVars, roleVars, permVars, tokenVars
  <2> QED
    BY <2>1, <2>2, PermsInvFrame DEF Moves, Labels
<1>16. ASSUME NEW r \in Requests, NEW role \in Roles, NEW set \in PermSets, SetRolePerms(r,
              role, set)
       PROVE  PermsInv'
  <2>1. Moves(r, {"Idle"}, {"DeletePerms"})
    BY <1>16, SetRolePermsMoves
  <2>2. UNCHANGED <<rolePerm, wantedPerms, mixed>>
    BY <1>16, BackOfficeAssumption DEF SetRolePerms, userVars, roleVars, permVars, tokenVars
  <2> QED
    BY <2>1, <2>2, PermsInvFrame DEF Moves, Labels
<1>17. ASSUME NEW r \in Requests, DeleteRolePerms(r) PROVE PermsInv'
  BY <1>17, DeletePermsKeepsPerms
<1>18. ASSUME NEW r \in Requests, InsertRolePerms(r) PROVE PermsInv'
  BY <1>18, InsertPermsKeepsPerms
<1>19. ASSUME NEW r \in Requests, CommitRolePerms(r) PROVE PermsInv'
  BY <1>19, CommitPermsKeepsPerms
<1>20. ASSUME NEW r \in Requests, NEW p \in Perms, DeletePermission(r, p) PROVE PermsInv'
  <2>1. Moves(r, {"Idle"}, {"Done"})
    BY <1>20, DeletePermissionMoves
  <2>2. UNCHANGED <<rolePerm, wantedPerms, mixed>>
    BY <1>20, BackOfficeAssumption DEF DeletePermission, userVars, roleVars, permVars,
       tokenVars
  <2> QED
    BY <2>1, <2>2, PermsInvFrame DEF Moves, Labels
<1>21. ASSUME NEW r \in Requests, Stop(r) PROVE PermsInv'
  <2>1. Moves(r, Labels \ {"Idle", "Done"}, {"Done"})
    BY <1>21, StopMoves
  <2>2. UNCHANGED <<rolePerm, wantedPerms, mixed>>
    BY <1>21, BackOfficeAssumption DEF Stop, userVars, roleVars, permVars, tokenVars
  <2> QED
    BY <2>1, <2>2, PermsInvFrame DEF Moves, Labels
<1>22. CASE UNCHANGED vars
  BY <1>22, PermsInvSame DEF vars, userVars, roleVars, permVars, tokenVars
<1> QED
  BY <1>1, <1>2, <1>3, <1>4, <1>5, <1>6, <1>7, <1>8, <1>9, <1>10, <1>11,
     <1>12, <1>13, <1>14, <1>15, <1>16, <1>17, <1>18, <1>19, <1>20, <1>21,
        <1>22, SMTT(60) DEF NextCases

(* The permissions of an administrator are those that the last update of   *)
(* each role wanted, of the roles that the last update of the              *)
(* administrator wanted (service/admin/perm.go, MyPermissionList).         *)
THEOREM PermissionsAlwaysWanted == Spec => []PermissionsAreWanted
<1>1. Init => Typed /\ RolesInv /\ PermsInv
  <2> SUFFICES ASSUME Init PROVE RolesInv /\ PermsInv
    BY InitTyped
  <2>1. \A r \in Requests : request[r].pc = "Idle"
    BY DEF Init, NoRequest
  <2> QED
    BY <2>1 DEF Init, RolesInv, PermsInv, Updating, Holding, Replacing
<1>2. Typed /\ RolesInv /\ PermsInv /\ [Next]_vars => (Typed /\ RolesInv /\ PermsInv)'
  BY NextIsCases, TypeStep, RolesInvStep, PermsInvStep
<1>3. Typed /\ RolesInv /\ PermsInv => PermissionsAreWanted
  <2> SUFFICES ASSUME Typed, RolesInv, PermsInv, NEW u \in known,
                      wantedRoles[u] \cap mixed = {}
               PROVE  MyPermissionList(u) = perms \cap UNION {wantedPerms[role] : role \in wantedRoles[u]}
    BY DEF PermissionsAreWanted
  <2>1. /\ u \in Users
        /\ wantedRoles[u] = RolesOf(userRole[u])
        /\ wantedRoles[u] \subseteq Roles
    BY DEF Typed, TypeOK, RolesInv
  <2>2. \A role \in wantedRoles[u] : rolePerm[role] = wantedPerms[role]
    BY <2>1 DEF PermsInv
  <2>3. \A p : (\E y \in userRole[u] : p \in rolePerm[y.role])
               <=> (\E role \in wantedRoles[u] : p \in wantedPerms[role])
    BY <2>1, <2>2 DEF RolesOf
  <2> QED
    BY <2>3 DEF MyPermissionList
<1> QED
  BY <1>1, <1>2, <1>3, PTL DEF Spec
================================================================================

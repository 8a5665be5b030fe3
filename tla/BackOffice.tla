------------------------------ MODULE BackOffice ------------------------------
(***************************************************************************)
(* The accounts of the back office: administrators and their tokens, the   *)
(* roles they have, and the permissions of those (service/{admin,role,     *)
(* perm}, adaptor/repo/admin, router/auth.go).  A token carries the        *)
(* update_at of the row its login has read, and lets in only while the row *)
(* still has it.  UpdateUser and SetRolePerms replace the rows of a user,  *)
(* or of a role, in a transaction: they delete what is there and insert    *)
(* the new ones.  A transaction locks the rows it writes; others see them  *)
(* as they were before, and wait if they write them too.  (A delete finds  *)
(* the rows of a role in the order of their ids, so one that has waited    *)
(* sees the rows the other has inserted.)                                  *)
(*                                                                         *)
(* A request is named by what it makes: its token, and the update_at that  *)
(* it writes, are called r.  (Two updates of a row are a millisecond apart *)
(* at least.)  Whether a login's ticket, code or password is right is left *)
(* open here; names and the texts of permissions are left out.             *)
(***************************************************************************)
EXTENDS Integers, Sequences, SequencesExt

CONSTANTS
  Requests,    \* the requests of a behaviour
  Users,       \* ids of administrators
  Roles,       \* ids of roles
  Perms,       \* permissions
  First,       \* the administrators there are at first
  OldTokens,   \* their tokens
  OldRows,     \* the rows of their roles
  LastId,      \* the last id of those
  RoleLists,   \* the lists of roles that pages ask for
  PermSets,    \* the sets of permissions that pages ask for
  MaxFaults,   \* bound: failed or lost calls in a behaviour
  None         \* no user, no token, no role

Tokens   == Requests \cup {OldTokens[u] : u \in First}
UserRole == [id : Nat, role : Roles]

ASSUME BackOfficeAssumption ==
  /\ First \subseteq Users
  /\ \A u \in First : OldTokens[u] \notin Requests
  /\ \A u, v \in First : OldTokens[u] = OldTokens[v] => u = v
  /\ LastId \in Nat
  /\ OldRows \in [Users -> SUBSET UserRole]
  /\ \A u \in Users : \A y \in OldRows[u] : y.id <= LastId
  /\ RoleLists \subseteq Seq(Roles)
  /\ PermSets \subseteq SUBSET Perms
  /\ MaxFaults \in Nat
  /\ None \notin Users \cup Tokens \cup Roles

VARIABLES
  \* MySQL
  known,     \* the administrators that have a row
  enabled,   \* admin_user.status
  deleted,   \* admin_user.is_delete
  stamp,     \* admin_user.update_at: the request that wrote it, None at first
  userRole,  \* admin_user_role: the rows of a user, with their ids
  lastId,    \* the last id of that table
  rolePerm,  \* role_permission: the permissions of a role
  perms,     \* the permissions there are
  \* redis
  session,   \* admin:user:token:<token>, its user is None if there is none
  newest,    \* admin:token:user:<user>, the token set last
  \* requests
  request,   \* what a request does next, and what it holds
  faults,    \* failures so far
  \* history
  outdated,  \* tokens, or logins, whose administrator was updated since
  doomed,    \* tokens that a logout or a reset has to end
  wantedRoles,  \* the roles that the last update of a user wanted
  wantedPerms,  \* the permissions that the last update of a role wanted
  mixed      \* roles without a row that two updates found so

userVars  == <<known, enabled, deleted, stamp>>
roleVars  == <<userRole, lastId, wantedRoles>>
permVars  == <<rolePerm, perms, wantedPerms, mixed>>
tokenVars == <<session, newest, outdated, doomed>>
vars == <<userVars, roleVars, permVars, tokenVars, request, faults>>

Session == [user : Users \cup {None}, stamp : Requests \cup {None}]
Labels  == {"Idle", "SetToken", "SetMap", "Password", "GetMap", "Clean", "UpdateRow",
            "DeleteRoles", "InsertRoles", "CommitUser", "DeletePerms",
            "InsertPerms", "CommitPerms", "Done"}

Request ==
  [pc : Labels,
   user : Users \cup {None},      \* the administrator it is about
   stamp : Requests \cup {None},  \* the update_at a login has read
   token : Tokens \cup {None},    \* the token the map has shown
   enable : BOOLEAN,              \* the status wanted
   list : Seq(Roles),             \* the roles wanted
   role : Roles \cup {None},      \* the role to give permissions
   set : SUBSET Perms,            \* the permissions wanted
   gone : SUBSET UserRole,        \* the rows that its transaction has deleted
   rows : SUBSET UserRole,        \* and inserted
   taken : SUBSET Perms]          \* the permissions that it has deleted

NoRequest(label) ==
  [pc |-> label, user |-> None, stamp |-> None, token |-> None, enable |-> TRUE,
   list |-> <<>>, role |-> None, set |-> {}, gone |-> {}, rows |-> {},
   taken |-> {}]

TypeOK ==
  /\ known \subseteq Users
  /\ enabled \in [Users -> BOOLEAN]
  /\ deleted \subseteq Users
  /\ stamp \in [Users -> Requests \cup {None}]
  /\ userRole \in [Users -> SUBSET UserRole]
  /\ lastId \in Nat
  /\ rolePerm \in [Roles -> SUBSET Perms]
  /\ perms \subseteq Perms
  /\ session \in [Tokens -> Session]
  /\ newest \in [Users -> Tokens \cup {None}]
  /\ request \in [Requests -> Request]
  /\ faults \in 0 .. MaxFaults
  /\ outdated \subseteq Tokens
  /\ doomed \subseteq Tokens
  /\ wantedRoles \in [Users -> SUBSET Roles]
  /\ wantedPerms \in [Roles -> SUBSET Perms]
  /\ mixed \subseteq Roles

RolesOf(rows) == {y.role : y \in rows}

NoSession == [user |-> None, stamp |-> None]

(* At first some administrators are there, logged in, with their roles.    *)
Init ==
  /\ known = First
  /\ enabled = [u \in Users |-> u \in First]
  /\ deleted = {}
  /\ stamp = [u \in Users |-> None]
  /\ userRole = OldRows
  /\ lastId = LastId
  /\ rolePerm \in [Roles -> PermSets \cup {{}}]
  /\ perms = Perms
  /\ session \in [Tokens -> {NoSession} \cup [user : First, stamp : {None}]]
  /\ \A t \in Tokens : \A u \in Users :
       session[t].user = u <=> u \in First /\ OldTokens[u] = t
  /\ newest = [u \in Users |-> IF u \in First THEN OldTokens[u] ELSE None]
  /\ request = [r \in Requests |-> NoRequest("Idle")]
  /\ faults = 0
  /\ outdated = {}
  /\ doomed = {}
  /\ wantedRoles = [u \in Users |-> RolesOf(OldRows[u])]
  /\ wantedPerms = rolePerm
  /\ mixed = {}

-----------------------------------------------------------------------------
At(r, label) == request[r].pc = label

(* A request that has ended holds nothing.                                 *)
Becomes(r, next) == request' = [request EXCEPT ![r] = next]
GoTo(r, label) ==
  Becomes(r, IF label = "Done" THEN NoRequest("Done") ELSE [request[r] EXCEPT !.pc = label])

Fault == faults < MaxFaults /\ faults' = faults + 1

(* GetAdminUserByToken.                                                    *)
LetsIn(t) ==
  LET u == session[t].user
  IN  u # None /\ enabled[u] /\ stamp[u] = session[t].stamp

Authorized == \E t \in Tokens : LetsIn(t)

(* The row of u changes, and its update_at with it: tokens of u, and       *)
(* logins that have read the row, are outdated.                            *)
Restamp(r, u) ==
  /\ stamp' = [stamp EXCEPT ![u] = r]
  /\ outdated' = outdated
       \cup {t \in Tokens : session[t].user = u}
       \cup {q \in Requests : request[q].pc \in {"SetToken", "SetMap"} /\ request[q].user = u}

(* The lock that a transaction which has written the row of u holds.       *)
RowLocked(u) ==
  \E q \in Requests : request[q].pc \in {"DeleteRoles", "InsertRoles", "CommitUser"}
                      /\ request[q].user = u

-----------------------------------------------------------------------------
(* MobileVerifyLogin, MobilePasswordLogin and LarkQrCodeLogin read the row *)
(* of an enabled administrator.  The mobile of one that was deleted is     *)
(* gone, its account at Lark is not, and that login is not on the white    *)
(* list.                                                                   *)
GetUser(r, u) ==
  /\ At(r, "Idle")
  /\ u \in known /\ enabled[u]
  /\ u \notin deleted \/ Authorized
  /\ Becomes(r, [NoRequest("SetToken") EXCEPT !.user = u, !.stamp = stamp[u]])
  /\ UNCHANGED <<userVars, roleVars, permVars, tokenVars, faults>>

\* Wrong: the token carries the time of the login, not of the row.
SetTokenRefreshed(r) ==
  /\ At(r, "SetToken")
  /\ session' = [session EXCEPT ![r] = [user |-> request[r].user,
                                       stamp |-> stamp[request[r].user]]]
  /\ GoTo(r, "SetMap")
  /\ UNCHANGED <<userVars, roleVars, permVars, newest, outdated, doomed, faults>>

(* SetAdminUserToken: the token, then the map entry.                       *)
SetToken(r) ==
  /\ At(r, "SetToken")
  /\ session' = [session EXCEPT ![r] = [user |-> request[r].user, stamp |-> request[r].stamp]]
  /\ GoTo(r, "SetMap")
  /\ UNCHANGED <<userVars, roleVars, permVars, newest, outdated, doomed, faults>>

Ending(u) ==
  \E q \in Requests : request[q].pc \in {"GetMap", "Clean"} /\ request[q].user = u

SetMap(r) ==
  LET u == request[r].user
  IN  /\ At(r, "SetMap")
      /\ newest' = [newest EXCEPT ![u] = r]
      /\ doomed' = IF Ending(u) THEN {t \in doomed : session[t].user # u} ELSE doomed
      /\ GoTo(r, "Done")
      /\ UNCHANGED <<userVars, roleVars, permVars, session, outdated, faults>>

(* What CleanAdminUserToken, called next, has to end.                      *)
Doom(u) ==
  doomed' = IF Ending(u) THEN doomed ELSE doomed \cup ({newest[u]} \ {None})

AdminUserLogout(r, t) ==
  /\ At(r, "Idle")
  /\ LetsIn(t)
  /\ Becomes(r, [NoRequest("GetMap") EXCEPT !.user = session[t].user])
  /\ Doom(session[t].user)
  /\ UNCHANGED <<userVars, roleVars, permVars, session, newest, outdated, faults>>

(* MobilePasswordReset is not on the white list either.                    *)
MobilePasswordReset(r, u) ==
  /\ At(r, "Idle")
  /\ Authorized
  /\ u \in known \ deleted /\ enabled[u]
  /\ Becomes(r, [NoRequest("Password") EXCEPT !.user = u])
  /\ UNCHANGED <<userVars, roleVars, permVars, tokenVars, faults>>

UpdateUserPassword(r) ==
  LET u == request[r].user
  IN  /\ At(r, "Password")
      /\ ~RowLocked(u)
      /\ Restamp(r, u)
      /\ Doom(u)
      /\ GoTo(r, "GetMap")
      /\ UNCHANGED <<known, enabled, deleted, roleVars, permVars, session, newest, faults>>

GetNewestToken(r) ==
  LET t == newest[request[r].user]
  IN  /\ At(r, "GetMap")
      /\ IF t = None
         THEN GoTo(r, "Done")
         ELSE Becomes(r, [request[r] EXCEPT !.pc = "Clean", !.token = t])
      /\ UNCHANGED <<userVars, roleVars, permVars, tokenVars, faults>>

CleanAdminUserToken(r) ==
  /\ At(r, "Clean")
  /\ session' = [session EXCEPT ![request[r].token] = NoSession]
  /\ newest' = [newest EXCEPT ![request[r].user] = None]
  /\ GoTo(r, "Done")
  /\ UNCHANGED <<userVars, roleVars, permVars, outdated, doomed, faults>>

-----------------------------------------------------------------------------
(* The rows that an insert of roles makes after the ids up to n.           *)
RowsOf(list, n) == {[id |-> n + k, role |-> list[k]] : k \in 1 .. Len(list)}

(* One transaction, on rows that nobody else has yet.                      *)
CreateUser(r, u, list) ==
  /\ At(r, "Idle")
  /\ Authorized
  /\ u \notin known
  /\ known' = known \cup {u}
  /\ enabled' = [enabled EXCEPT ![u] = TRUE]
  /\ stamp' = [stamp EXCEPT ![u] = r]
  /\ userRole' = [userRole EXCEPT ![u] = RowsOf(list, lastId)]
  /\ lastId' = lastId + Len(list)
  /\ wantedRoles' = [wantedRoles EXCEPT ![u] = ToSet(list)]
  /\ GoTo(r, "Done")
  /\ UNCHANGED <<deleted, permVars, tokenVars, faults>>

(* UpdateUser: the row of the user is written first, so that another       *)
(* update of the user waits.                                               *)
UpdateUser(r, u, list, enable) ==
  /\ At(r, "Idle")
  /\ Authorized
  /\ u \in known
  /\ Becomes(r, [NoRequest("UpdateRow") EXCEPT !.user = u, !.list = list, !.enable = enable])
  /\ UNCHANGED <<userVars, roleVars, permVars, tokenVars, faults>>

\* Wrong: the roles are replaced before the row of the user is written.
UpdateUserRowUnlocked(r) ==
  /\ At(r, "UpdateRow")
  /\ GoTo(r, "DeleteRoles")
  /\ UNCHANGED <<userVars, roleVars, permVars, tokenVars, faults>>

UpdateUserRow(r) ==
  /\ At(r, "UpdateRow")
  /\ ~RowLocked(request[r].user)
  /\ GoTo(r, "DeleteRoles")
  /\ UNCHANGED <<userVars, roleVars, permVars, tokenVars, faults>>

DeleteUserRoles(r) ==
  /\ At(r, "DeleteRoles")
  /\ Becomes(r, [request[r] EXCEPT !.pc = "InsertRoles", !.gone = userRole[request[r].user]])
  /\ UNCHANGED <<userVars, roleVars, permVars, tokenVars, faults>>

InsertUserRoles(r) ==
  /\ At(r, "InsertRoles")
  /\ Becomes(r, [request[r] EXCEPT !.pc = "CommitUser", 
                                    !.rows = RowsOf(request[r].list, lastId)])
  /\ lastId' = lastId + Len(request[r].list)
  /\ UNCHANGED <<userVars, userRole, wantedRoles, permVars, tokenVars, faults>>

CommitUser(r) ==
  LET u == request[r].user
  IN  /\ At(r, "CommitUser")
      /\ enabled' = [enabled EXCEPT ![u] = request[r].enable]
      /\ Restamp(r, u)
      /\ userRole' = [userRole EXCEPT ![u] = (@ \ request[r].gone) \cup request[r].rows]
      /\ wantedRoles' = [wantedRoles EXCEPT ![u] = ToSet(request[r].list)]
      /\ GoTo(r, "Done")
      /\ UNCHANGED <<known, deleted, lastId, permVars, session, newest, doomed, faults>>

(* is_delete and the mobile; neither status nor update_at.                 *)
DeleteUser(r, u) ==
  /\ At(r, "Idle")
  /\ Authorized
  /\ u \in known /\ ~RowLocked(u)
  /\ deleted' = deleted \cup {u}
  /\ GoTo(r, "Done")
  /\ UNCHANGED <<known, enabled, stamp, roleVars, permVars, tokenVars, faults>>

-----------------------------------------------------------------------------
(* The transactions that replace the permissions of role.  One that has    *)
(* deleted or inserted a row of the role holds its lock; one that has      *)
(* found none does not.                                                    *)
Replacing(role) ==
  {q \in Requests : request[q].pc \in {"InsertPerms", "CommitPerms"} /\ request[q].role = role}

RowsLocked(role) ==
  \E q \in Replacing(role) :
    request[q].taken # {} \/ (At(q, "CommitPerms") /\ request[q].set # {})

SetRolePerms(r, role, set) ==
  /\ At(r, "Idle")
  /\ Authorized
  /\ Becomes(r, [NoRequest("DeletePerms") EXCEPT !.role = role, !.set = set])
  /\ UNCHANGED <<userVars, roleVars, permVars, tokenVars, faults>>

DeleteRolePerms(r) ==
  LET role == request[r].role
  IN  /\ At(r, "DeletePerms")
      /\ ~RowsLocked(role)
      /\ Becomes(r, [request[r] EXCEPT !.pc = "InsertPerms", !.taken = rolePerm[role]])
      /\ mixed' = IF Replacing(role) = {} THEN mixed ELSE mixed \cup {role}
      /\ UNCHANGED <<userVars, roleVars, rolePerm, perms, wantedPerms, tokenVars, faults>>

InsertRolePerms(r) ==
  /\ At(r, "InsertPerms")
  /\ GoTo(r, "CommitPerms")
  /\ UNCHANGED <<userVars, roleVars, permVars, tokenVars, faults>>

CommitRolePerms(r) ==
  LET role == request[r].role
  IN  /\ At(r, "CommitPerms")
      /\ rolePerm' = [rolePerm EXCEPT ![role] = (@ \ request[r].taken) \cup request[r].set]
      /\ wantedPerms' = [wantedPerms EXCEPT ![role] = request[r].set]
      /\ GoTo(r, "Done")
      /\ UNCHANGED <<userVars, roleVars, perms, mixed, tokenVars, faults>>

(* The rows of role_permission stay; a new permission has a new id.        *)
DeletePermission(r, p) ==
  /\ At(r, "Idle")
  /\ Authorized
  /\ perms' = perms \ {p}
  /\ GoTo(r, "Done")
  /\ UNCHANGED <<userVars, roleVars, rolePerm, wantedPerms, mixed, tokenVars, faults>>

(* A call fails, or the server stops.  A transaction under way is undone.  *)
Stop(r) ==
  /\ request[r].pc \notin {"Idle", "Done"}
  /\ GoTo(r, "Done")
  /\ Fault
  /\ UNCHANGED <<userVars, roleVars, permVars, tokenVars>>

Next ==
  \E r \in Requests :
    \/ \E u \in Users : GetUser(r, u)
    \/ SetToken(r)
    \/ SetMap(r)
    \/ \E t \in Tokens : AdminUserLogout(r, t)
    \/ \E u \in Users : MobilePasswordReset(r, u)
    \/ UpdateUserPassword(r)
    \/ GetNewestToken(r)
    \/ CleanAdminUserToken(r)
    \/ \E u \in Users, list \in RoleLists : CreateUser(r, u, list)
    \/ \E u \in Users, list \in RoleLists, enable \in BOOLEAN : UpdateUser(r, u, list, enable)
    \/ UpdateUserRow(r)
    \/ DeleteUserRoles(r)
    \/ InsertUserRoles(r)
    \/ CommitUser(r)
    \/ \E u \in Users : DeleteUser(r, u)
    \/ \E role \in Roles, set \in PermSets : SetRolePerms(r, role, set)
    \/ DeleteRolePerms(r)
    \/ InsertRolePerms(r)
    \/ CommitRolePerms(r)
    \/ \E p \in Perms : DeletePermission(r, p)
    \/ Stop(r)

Spec == Init /\ [][Next]_vars

-----------------------------------------------------------------------------
(* MyPermissionList: what an administrator is shown, over three tables.    *)
MyPermissionList(u) ==
  {p \in perms : \E y \in userRole[u] : p \in rolePerm[y.role]}

(* A token never lets in an administrator whose row was updated after the  *)
(* login had read it, whatever the row says by then; and a logout or a     *)
(* reset ends the token the map knew of when it began, unless a call       *)
(* failed, another was ending it already, or a login set the map meanwhile. *)
TokensEnd ==
  /\ \A t \in outdated : ~LetsIn(t)
  /\ \A t \in doomed, u \in Users : session[t].user = u => Ending(u) \/ faults > 0

(* The permissions of an administrator are those that the last update of   *)
(* each of the roles wanted, of the roles that the last update of the      *)
(* administrator wanted, and never a mixture of two updates; except for a  *)
(* role without permissions that two updates found so at a time.           *)
PermissionsAreWanted ==
  \A u \in known :
    wantedRoles[u] \cap mixed = {} =>
      MyPermissionList(u) = perms \cap UNION {wantedPerms[role] : role \in wantedRoles[u]}
=============================================================================

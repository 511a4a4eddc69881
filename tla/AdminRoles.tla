----------------------------- MODULE AdminRoles ------------------------------
(***************************************************************************)
(* Who may administer the platform: the roles, the users that hold them,   *)
(* and the audit rows of apps/accounts/admin_services.py and               *)
(* apps/accounts/admin_views.py.                                           *)
(*                                                                         *)
(* Of a role's capabilities only "roles.manage" matters to the safeguards, *)
(* so a role is "manager" (it has that capability) or "plain".  As in      *)
(* Marketplace, a handler reads the rows it works on once and then makes   *)
(* autocommitted writes, each a step of its own; save() without            *)
(* update_fields writes the whole row back as it was read.                 *)
(***************************************************************************)
EXTENDS Naturals, FiniteSets

CONSTANTS
    Users,      \* registered users
    Roles,      \* primary keys of AdminRole rows
    BuiltIn,    \* the protected role the migration seeds
    First,      \* the user who holds it after deployment
    Web,        \* processes that serve HTTP requests
    Endpoints,  \* the optional endpoints in play, see OptionalEndpoints
    Crashes,    \* may a process die in the middle of a handler?
    None        \* no role, no user

OptionalEndpoints == {"role_capabilities", "suspend", "profile"}

ASSUME RolesAssumption == BuiltIn \in Roles /\ None \notin Roles /\ First \in Users
ASSUME EndpointsAssumption == Endpoints \subseteq OptionalEndpoints
ASSUME CrashesAssumption == Crashes \in BOOLEAN

VARIABLES
    roles,    \* table accounts_adminrole: the state of each row
    users,    \* table accounts_user: its columns admin_role, is_staff, is_active
    audited,  \* what the newest moderation_auditlog row says of each user and role
    told,     \* the role in each user's newest role_assigned notification
    handler,  \* what each process is in the middle of
    contested \* history: what calls overlapped on, or died owing an audit row for

vars == <<roles, users, audited, told, handler, contested>>

-----------------------------------------------------------------------------
Live == {"plain", "manager"}
RoleState == {"unborn", "deleted"} \cup Live

UserRow == [role: Roles \cup {None}, staff: BOOLEAN, active: BOOLEAN]

Audited == [role: [Users -> Roles \cup {None}], active: [Users -> BOOLEAN],
            state: [Roles -> RoleState]]

(* Where a handler has a role, and where it has a user, in its locals. *)
RolePCs == {"create.audit", "rename.save", "update.save", "update.audit",
            "delete.row", "delete.audit"}
UserPCs == {"assign.roles", "assign.check", "assign.write", "assign.audit", "assign.notify",
            "active.write", "active.audit", "profile.save"}
PCs == {"idle", "create.insert"} \cup RolePCs \cup UserPCs

(* row: the target user as read; was: the state of that user's role as     *)
(* read; state: the state of the target role as read or as it shall be;    *)
(* managing: what role_ids_with_capability("roles.manage") returned.       *)
Handler == [pc: PCs, user: Users \cup {None}, role: Roles \cup {None},
            row: UserRow, was: RoleState, state: RoleState, managing: SUBSET Roles]

Nobody == [role |-> None, staff |-> FALSE, active |-> TRUE]
Idle == [pc |-> "idle", user |-> None, role |-> None, row |-> Nobody,
         was |-> "unborn", state |-> "unborn", managing |-> {}]

Init ==
    /\ roles = [r \in Roles |-> IF r = BuiltIn THEN "manager" ELSE "unborn"]
    /\ users = [u \in Users |->
                   IF u = First THEN [role |-> BuiltIn, staff |-> TRUE, active |-> TRUE]
                   ELSE Nobody]
    /\ audited = [role |-> [u \in Users |-> users[u].role],
                  active |-> [u \in Users |-> TRUE], state |-> roles]
    /\ told = [u \in Users |-> None]
    /\ handler = [w \in Web |-> Idle]
    /\ contested = {}

-----------------------------------------------------------------------------
At(w, pc) == handler[w].pc = pc
Become(w, h) == handler' = [handler EXCEPT ![w] = h]
Goto(w, pc) == Become(w, [handler[w] EXCEPT !.pc = pc])
Finish(w) == Become(w, Idle)

StateOf(r) == IF r = None THEN "unborn" ELSE roles[r]

(* HasCapability("roles.manage") for a user whose token is accepted. *)
CanManage(u) == users[u].active /\ StateOf(users[u].role) = "manager"

(* Some signed-in user has a role at all, and so perhaps the capability. *)
SomeAdmin == \E u \in Users : users[u].active /\ users[u].role # None
SomeManager == \E u \in Users : CanManage(u)

(* Where a handler goes on to write who holds a role or what a role may.   *)
ManagePCs == {"assign.roles", "assign.check", "assign.write", "rename.save", "update.save",
              "profile.save"}

(* The rows a handler is about to write to or to report on and, as         *)
(* "roles.manage", the question who has that capability.                   *)
Subjects(h) ==
    {u \in Users : h.pc \in UserPCs /\ h.user = u}
        \cup {r \in Roles : h.pc \in RolePCs /\ h.role = r}
        \cup {c \in {"roles.manage"} : h.pc \in ManagePCs}

(* What two handlers are at work on at once. *)
Overlap ==
    {x \in Users \cup Roles \cup {"roles.manage"} :
        \E v, w \in Web : v # w /\ x \in Subjects(handler[v]) \cap Subjects(handler[w])}

(* Where a handler that dies has written and not yet reported. *)
AuditPCs == {"create.audit", "update.audit", "delete.audit", "assign.audit", "active.audit"}

-----------------------------------------------------------------------------
(* Roles.                                                                  *)

CreateBegin(w, state) ==
    /\ At(w, "idle")
    /\ SomeManager
    /\ Become(w, [Idle EXCEPT !.pc = "create.insert", !.state = state])
    /\ UNCHANGED <<roles, users, audited, told>>

CreateInsert(w, r) ==
    /\ At(w, "create.insert")
    /\ roles[r] = "unborn"
    /\ roles' = [roles EXCEPT ![r] = handler[w].state]
    /\ Become(w, [handler[w] EXCEPT !.pc = "create.audit", !.role = r])
    /\ UNCHANGED <<users, audited, told>>

(* A rename reads the row and writes all of it back. *)
RenameBegin(w, r) ==
    /\ At(w, "idle")
    /\ SomeManager
    /\ roles[r] \in Live
    /\ Become(w, [Idle EXCEPT !.pc = "rename.save", !.role = r, !.state = roles[r]])
    /\ UNCHANGED <<roles, users, audited, told>>

(* Without the role_protected guard. *)
UpdateBegin_mut(w, r, state) ==
    /\ At(w, "idle")
    /\ SomeManager
    /\ roles[r] \in Live
    /\ Become(w, [Idle EXCEPT !.pc = "update.save", !.role = r, !.state = state])
    /\ UNCHANGED <<roles, users, audited, told>>

(* New capabilities, not for the protected role. *)
UpdateBegin(w, r, state) ==
    /\ At(w, "idle")
    /\ SomeManager
    /\ roles[r] \in Live
    /\ r # BuiltIn
    /\ Become(w, [Idle EXCEPT !.pc = "update.save", !.role = r, !.state = state])
    /\ UNCHANGED <<roles, users, audited, told>>

(* save() on a row that is gone inserts it again; one that fails on a      *)
(* duplicate name ends the handler like a crash.  The role_updated row of  *)
(* a rename names no capabilities, so audited has no place for it, and the *)
(* handler is done with its save.                                          *)
UpdateSave(w) ==
    /\ \/ At(w, "rename.save") /\ Finish(w)
       \/ At(w, "update.save") /\ Goto(w, "update.audit")
    /\ roles' = [roles EXCEPT ![handler[w].role] = handler[w].state]
    /\ UNCHANGED <<users, audited, told>>

DeleteBegin(w, r) ==
    /\ At(w, "idle")
    /\ SomeManager
    /\ roles[r] \in Live
    /\ r # BuiltIn
    /\ Become(w, [Idle EXCEPT !.pc = "delete.row", !.role = r, !.state = "deleted"])
    /\ UNCHANGED <<roles, users, audited, told>>

(* ProtectedError while some user holds the role. *)
DeleteRow(w) ==
    /\ At(w, "delete.row")
    /\ IF \E u \in Users : users[u].role = handler[w].role
       THEN Finish(w) /\ UNCHANGED roles
       ELSE /\ roles' = [roles EXCEPT ![handler[w].role] = "deleted"]
            /\ Goto(w, "delete.audit")
    /\ UNCHANGED <<users, audited, told>>

(* role_created, role_updated, role_deleted. *)
RoleAudit(w) ==
    /\ \E pc \in {"create.audit", "update.audit", "delete.audit"} : At(w, pc)
    /\ audited' = [audited EXCEPT !.state[handler[w].role] = handler[w].state]
    /\ Finish(w)
    /\ UNCHANGED <<roles, users, told>>

-----------------------------------------------------------------------------
(* Who holds which role.                                                   *)

AssignBegin(w, u, r) ==
    /\ At(w, "idle")
    /\ SomeManager
    /\ r = None \/ StateOf(r) \in Live
    /\ users[u].role # r
    /\ LET was == StateOf(users[u].role) IN
       Become(w, [pc |-> IF was = "manager" THEN "assign.roles" ELSE "assign.write",
                  user |-> u, role |-> r, row |-> users[u],
                  was |-> was, state |-> StateOf(r), managing |-> {}])
    /\ UNCHANGED <<roles, users, audited, told>>

(* role_ids_with_capability: a query of its own, evaluated in Python. *)
AssignRoles(w) ==
    /\ At(w, "assign.roles")
    /\ Become(w, [handler[w] EXCEPT !.pc = "assign.check",
                                    !.managing = {r \in Roles : roles[r] = "manager"}])
    /\ UNCHANGED <<roles, users, audited, told>>

(* Without the exclude(pk=user.pk). *)
AssignCheck_mut(w) ==
    /\ At(w, "assign.check")
    /\ IF handler[w].state = "manager" \/ \E v \in Users : users[v].role \in handler[w].managing
       THEN Goto(w, "assign.write") ELSE Finish(w)
    /\ UNCHANGED <<roles, users, audited, told>>

(* last_role_manager: does anybody else hold a managing role?  The query   *)
(* looks neither at is_active nor at who is being demoted just now.        *)
AssignCheck(w) ==
    /\ At(w, "assign.check")
    /\ IF \/ handler[w].state = "manager"
          \/ \E v \in Users \ {handler[w].user} : users[v].role \in handler[w].managing
       THEN Goto(w, "assign.write") ELSE Finish(w)
    /\ UNCHANGED <<roles, users, audited, told>>

(* is_staff missing from update_fields. *)
AssignWrite_mut(w) ==
    LET u == handler[w].user
        r == handler[w].role
    IN  /\ At(w, "assign.write")
        /\ IF r # None /\ StateOf(r) \notin Live
           THEN Finish(w) /\ UNCHANGED users
           ELSE /\ users' = [users EXCEPT ![u].role = r]
                /\ Goto(w, "assign.audit")
        /\ UNCHANGED <<roles, audited, told>>

(* Returns before the audit row. *)
AssignUnaudited_mut(w) ==
    LET u == handler[w].user
        r == handler[w].role
    IN  /\ At(w, "assign.write")
        /\ users' = [users EXCEPT ![u].role = r, ![u].staff = r # None]
        /\ Goto(w, "assign.notify")
        /\ UNCHANGED <<roles, audited, told>>

(* An IntegrityError if the new role was deleted in the meantime. *)
AssignWrite(w) ==
    LET u == handler[w].user
        r == handler[w].role
    IN  /\ At(w, "assign.write")
        /\ IF r # None /\ StateOf(r) \notin Live
           THEN Finish(w) /\ UNCHANGED users
           ELSE /\ users' = [users EXCEPT ![u].role = r, ![u].staff = r # None]
                /\ Goto(w, "assign.audit")
        /\ UNCHANGED <<roles, audited, told>>

AssignAudit(w) ==
    /\ At(w, "assign.audit")
    /\ audited' = [audited EXCEPT !.role[handler[w].user] = handler[w].role]
    /\ Goto(w, "assign.notify")
    /\ UNCHANGED <<roles, users, told>>

AssignNotify(w) ==
    /\ At(w, "assign.notify")
    /\ told' = [told EXCEPT ![handler[w].user] = handler[w].role]
    /\ Finish(w)
    /\ UNCHANGED <<roles, users, audited>>

-----------------------------------------------------------------------------
(* Suspension, and the profile's own columns.                              *)

(* suspend (active is FALSE) and reactivate (TRUE). *)
SetActiveBegin(w, u, active) ==
    /\ At(w, "idle")
    /\ SomeAdmin
    /\ users[u].active # active
    /\ Become(w, [Idle EXCEPT !.pc = "active.write", !.user = u, !.row = users[u],
                              !.row.active = active])
    /\ UNCHANGED <<roles, users, audited, told>>

SetActiveWrite(w) ==
    /\ At(w, "active.write")
    /\ users' = [users EXCEPT ![handler[w].user].active = handler[w].row.active]
    /\ Goto(w, "active.audit")
    /\ UNCHANGED <<roles, audited, told>>

SetActiveAudit(w) ==
    /\ At(w, "active.audit")
    /\ audited' = [audited EXCEPT !.active[handler[w].user] = handler[w].row.active]
    /\ Finish(w)
    /\ UNCHANGED <<roles, users, told>>

(* PATCH /users/me/ by the user, PATCH /admin/users/{id}/ by an admin: the *)
(* row is read, profile columns change, and the whole row is saved.  The   *)
(* admin's user_updated audit row names profile columns only, so audited   *)
(* has no place for it, and the handler is done with its save.             *)
ProfileBegin(w, u) ==
    /\ At(w, "idle")
    /\ users[u].active \/ SomeAdmin
    /\ Become(w, [Idle EXCEPT !.pc = "profile.save", !.user = u, !.row = users[u]])
    /\ UNCHANGED <<roles, users, audited, told>>

(* An IntegrityError if the role it held was deleted in the meantime. *)
ProfileSave(w) ==
    LET row == handler[w].row IN
    /\ At(w, "profile.save")
    /\ IF row.role # None /\ StateOf(row.role) \notin Live
       THEN UNCHANGED users
       ELSE users' = [users EXCEPT ![handler[w].user] = row]
    /\ Finish(w)
    /\ UNCHANGED <<roles, audited, told>>

-----------------------------------------------------------------------------
Crash(w) ==
    /\ Crashes
    /\ ~At(w, "idle")
    /\ Finish(w)
    /\ contested' = contested \cup {x \in Subjects(handler[w]) : handler[w].pc \in AuditPCs}
    /\ UNCHANGED <<roles, users, audited, told>>

Arrive(w) ==
    \/ \E state \in Live : CreateBegin(w, state)
    \/ \E r \in Roles : RenameBegin(w, r) \/ DeleteBegin(w, r)
    \/ "role_capabilities" \in Endpoints
          /\ \E r \in Roles, state \in Live : UpdateBegin(w, r, state)
    \/ \E u \in Users, r \in Roles \cup {None} : AssignBegin(w, u, r)
    \/ "suspend" \in Endpoints /\ \E u \in Users, active \in BOOLEAN : SetActiveBegin(w, u, active)
    \/ "profile" \in Endpoints /\ \E u \in Users : ProfileBegin(w, u)

Step(w) ==
    \/ \E r \in Roles : CreateInsert(w, r)
    \/ UpdateSave(w) \/ DeleteRow(w) \/ RoleAudit(w)
    \/ AssignRoles(w) \/ AssignCheck(w) \/ AssignWrite(w) \/ AssignAudit(w) \/ AssignNotify(w)
    \/ SetActiveWrite(w) \/ SetActiveAudit(w) \/ ProfileSave(w)

Next == \E w \in Web :
            \/ (Arrive(w) \/ Step(w)) /\ contested' = contested \cup Overlap'
            \/ Crash(w)

Spec == Init /\ [][Next]_vars
-----------------------------------------------------------------------------
(* No handler is in the middle of anything about the row. *)
Settled(x) == \A w \in Web : x \notin Subjects(handler[w])

(* The tables hold rows of their types, and a handler that goes on to use  *)
(* its role or its user (an id it must take before it deletes the row) has *)
(* one.                                                                    *)
TypeOK ==
    /\ roles \in [Roles -> RoleState]
    /\ users \in [Users -> UserRow]
    /\ audited \in Audited
    /\ told \in [Users -> Roles \cup {None}]
    /\ handler \in [Web -> Handler]
    /\ contested \subseteq Users \cup Roles \cup {"roles.manage"}
    /\ \A w \in Web : /\ handler[w].pc \in RolePCs => handler[w].role \in Roles
                      /\ handler[w].pc \in UserPCs => handler[w].user \in Users

(* The protected role is never deleted and never loses roles.manage,       *)
(* whatever snapshot a rename, an update or a deletion works on: the guard *)
(* of update_admin_role sees is_protected, and a rename of the built-in    *)
(* role writes the right capabilities back.                                *)
BuiltInStays == roles[BuiltIn] = "manager"

(* is_staff says exactly who holds a role, and a held role exists: assign, *)
(* the stale save of a profile and the deletion of a role agree on it in   *)
(* every interleaving.                                                     *)
StaffHoldRoles ==
    \A u \in Users : /\ users[u].staff <=> users[u].role # None
                     /\ users[u].role # None => StateOf(users[u].role) \in Live

(* "The system can never be edited into a state where nobody can manage    *)
(* roles" (API_REFERENCE): some user is able to.                           *)
SomeoneCanManage == SomeManager

Managers == {u \in Users : StateOf(users[u].role) = "manager"}
Leaves(w, pc) == At(w, pc) /\ ~At(w, pc)'

(* The ways to lose the last one who can manage roles, and no other: the   *)
(* only role that could is edited, or its only holder suspended, neither   *)
(* of which last_role_manager looks at; the holders that are left are all  *)
(* suspended; or calls that write roles overlap, one counting on what the  *)
(* other takes away or writes back as it was.                              *)
LockoutsAreKnown ==
    [][SomeManager /\ ~SomeManager' =>
          \/ \E w \in Web : Leaves(w, "update.save") \/ Leaves(w, "active.write")
          \/ Managers' # {}
          \/ "roles.manage" \in contested]_vars

(* "Every mutating admin action writes an AuditLog entry" (ADMIN_API_PLAN):*)
(* the newest audit rows say who holds which role, who is suspended and    *)
(* which roles there are, except of a user or a role on which two calls    *)
(* overlapped, or a call died between its write and its audit row.         *)
AuditTellsTheTruth ==
    /\ \A u \in Users \ contested :
          Settled(u) => audited.role[u] = users[u].role /\ audited.active[u] = users[u].active
    /\ \A r \in Roles \ contested : Settled(r) => audited.state[r] = roles[r]
=============================================================================

-------------------------- MODULE AdminRolesProofs ---------------------------
(***************************************************************************)
(* Proofs about AdminRoles for any users, roles and processes.             *)
(*                                                                         *)
(* BuiltInStays and StaffHoldRoles are not inductive: a handler carries a  *)
(* role's state or a user's row from the moment it read them to the moment *)
(* it writes them back.  IInv adds what is known of these snapshots,       *)
(* AuditInv which audit rows are owed and by whom, and ManageHolds what    *)
(* was read of who can manage roles.                                       *)
(***************************************************************************)
EXTENDS AdminRoles, TLAPS

(* What a handler carries can be written back at any time. *)
Writable(h) ==
    /\ h.pc \in {"create.insert", "rename.save", "update.save"} => h.state \in Live
    /\ h.pc \in {"rename.save", "update.save"} /\ h.role = BuiltIn => h.state = "manager"
    /\ h.pc = "delete.row" => h.role # BuiltIn /\ h.state = "deleted"
    /\ h.pc = "profile.save" => (h.row.staff <=> h.row.role # None)

Good(h) ==
    /\ h \in Handler
    /\ h.pc \in RolePCs => h.role \in Roles
    /\ h.pc \in UserPCs => h.user \in Users
    /\ Writable(h)

TablesOK ==
    /\ roles \in [Roles -> RoleState]
    /\ users \in [Users -> UserRow]
    /\ audited \in Audited
    /\ told \in [Users -> Roles \cup {None}]
    /\ BuiltInStays
    /\ StaffHoldRoles

IInv == TablesOK /\ handler \in [Web -> Handler] /\ \A w \in Web : Good(handler[w])

-----------------------------------------------------------------------------
(* The history variable names users and roles, and nothing else. *)
HistoryOK == contested \subseteq Users \cup Roles \cup {"roles.manage"}

(* Whatever a process is at work on may become contested, and nothing else.*)
LEMMA HistoryTyped == Spec => []HistoryOK
<1>1. Init => HistoryOK
  BY DEF Init, HistoryOK
<1>2. HistoryOK /\ [Next]_vars => HistoryOK'
  BY DEF HistoryOK, Next, vars, Crash, Overlap, Subjects
<1>3. QED
  BY <1>1, <1>2, PTL DEF Spec

(* The invariant says all that the three properties say. *)
LEMMA Implies == IInv /\ HistoryOK => TypeOK /\ BuiltInStays /\ StaffHoldRoles
BY DEF IInv, HistoryOK, TablesOK, Good, TypeOK

(* The tables the migration leaves satisfy the invariant. *)
LEMMA Initial == Init => IInv
<1> SUFFICES ASSUME Init PROVE IInv
  OBVIOUS
<1> USE RolesAssumption
<1>1. TablesOK
  <2>1. roles \in [Roles -> RoleState] /\ users \in [Users -> UserRow]
    BY DEF Init, RoleState, Live, UserRow, Nobody
  <2>2. audited \in Audited /\ told \in [Users -> Roles \cup {None}]
    BY <2>1 DEF Init, Audited, UserRow
  <2>3. BuiltInStays /\ StaffHoldRoles
    BY DEF Init, BuiltInStays, StaffHoldRoles, StateOf, Nobody, Live
  <2>4. QED
    BY <2>1, <2>2, <2>3 DEF TablesOK
<1>2. Good(Idle)
  BY DEF Good, Writable, Idle, Nobody, Handler, PCs, RolePCs, UserPCs, UserRow, RoleState
<1>3. QED
  BY <1>1, <1>2 DEF IInv, Init, Good

(* A process that leaves the tables good and its own locals good keeps the *)
(* invariant, because it cannot touch the locals of the others.            *)
LEMMA Moves ==
    ASSUME IInv, NEW w \in Web, NEW h, Good(h), Become(w, h), TablesOK'
    PROVE  IInv'
BY DEF IInv, Good, Become

(* What a process is about to do with its locals is known to be possible. *)
LEMMA Carried ==
    ASSUME IInv, NEW w \in Web
    PROVE  Good(handler[w])
BY DEF IInv

(* A process may always stop. *)
LEMMA IdleGood == Good(Idle)
BY RolesAssumption
   DEF Good, Writable, Idle, Nobody, Handler, PCs, RolePCs, UserPCs, UserRow, RoleState

(* A process that waits for nothing but its next audit row or notification *)
(* may have any locals of the right types.                                 *)
LEMMA GotoGood ==
    ASSUME NEW h, Good(h), NEW pc,
           \/ pc = "update.audit" /\ h.pc = "update.save"
           \/ pc = "delete.audit" /\ h.pc = "delete.row"
           \/ pc = "assign.check" /\ h.pc = "assign.roles"
           \/ pc = "assign.write" /\ h.pc = "assign.check"
           \/ pc = "assign.audit" /\ h.pc = "assign.write"
           \/ pc = "assign.notify" /\ h.pc = "assign.audit"
           \/ pc = "active.audit" /\ h.pc = "active.write"
    PROVE  Good([h EXCEPT !.pc = pc])
BY DEF Good, Writable, Handler, PCs, RolePCs, UserPCs

(* The locals of one that has asked which roles may manage roles. *)
LEMMA RolesLocals ==
    ASSUME NEW w \in Web, handler[w] \in Handler, AssignRoles(w)
    PROVE  \E h \in Handler :
               /\ Become(w, h) /\ h.pc = "assign.check"
               /\ h.user = handler[w].user /\ h.role = handler[w].role
               /\ h.row = handler[w].row
               /\ h.was = handler[w].was /\ h.state = handler[w].state
               /\ h.managing = {r \in Roles : roles[r] = "manager"}
<1> DEFINE S == {r \in Roles : roles[r] = "manager"}
           h == [handler[w] EXCEPT !.pc = "assign.check", !.managing = S]
<1>1. Become(w, h)
  BY DEF AssignRoles
<1>2. S \in SUBSET Roles
  OBVIOUS
<1> HIDE DEF S
<1>3. /\ h \in Handler /\ h.pc = "assign.check"
      /\ h.user = handler[w].user /\ h.role = handler[w].role /\ h.row = handler[w].row
      /\ h.was = handler[w].was /\ h.state = handler[w].state /\ h.managing = S
  BY <1>2 DEF Handler, PCs, UserPCs
<1> HIDE DEF h
<1>4. QED
  BY <1>1, <1>3 DEF S

(* A handler begins: it reads rows and changes none. *)
LEMMA Begins ==
    ASSUME IInv, NEW w \in Web, Arrive(w)
    PROVE  IInv'
<1> USE RolesAssumption
<1>0. TablesOK /\ (UNCHANGED <<roles, users, audited, told>> => TablesOK')
  BY DEF IInv, TablesOK, BuiltInStays, StaffHoldRoles, StateOf
<1>1. ASSUME NEW state \in Live, CreateBegin(w, state) PROVE IInv'
  <2> DEFINE h == [Idle EXCEPT !.pc = "create.insert", !.state = state]
  <2>1. Good(h)
    BY IdleGood DEF Good, Writable, Handler, Idle, PCs, RolePCs, UserPCs, RoleState
  <2>2. QED
    BY <1>0, <1>1, <2>1, Moves DEF CreateBegin
<1>2. ASSUME NEW r \in Roles, RenameBegin(w, r) PROVE IInv'
  <2> DEFINE h == [Idle EXCEPT !.pc = "rename.save", !.role = r, !.state = roles[r]]
  <2>1. roles[r] \in Live /\ (r = BuiltIn => roles[r] = "manager")
    BY <1>0, <1>2 DEF RenameBegin, TablesOK, BuiltInStays
  <2>2. Good(h)
    BY <2>1, IdleGood DEF Good, Writable, Handler, Idle, PCs, RolePCs, UserPCs, RoleState
  <2>3. QED
    BY <1>0, <1>2, <2>2, Moves DEF RenameBegin
<1>3. ASSUME NEW r \in Roles, DeleteBegin(w, r) PROVE IInv'
  <2> DEFINE h == [Idle EXCEPT !.pc = "delete.row", !.role = r, !.state = "deleted"]
  <2>1. Good(h)
    BY <1>3, IdleGood
       DEF DeleteBegin, Good, Writable, Handler, Idle, PCs, RolePCs, UserPCs, RoleState
  <2>2. QED
    BY <1>0, <1>3, <2>1, Moves DEF DeleteBegin
<1>4. ASSUME NEW r \in Roles, NEW state \in Live, UpdateBegin(w, r, state) PROVE IInv'
  <2> DEFINE h == [Idle EXCEPT !.pc = "update.save", !.role = r, !.state = state]
  <2>1. Good(h)
    BY <1>4, IdleGood
       DEF UpdateBegin, Good, Writable, Handler, Idle, PCs, RolePCs, UserPCs, RoleState
  <2>2. QED
    BY <1>0, <1>4, <2>1, Moves DEF UpdateBegin
<1>5. ASSUME NEW u \in Users, NEW r \in Roles \cup {None}, AssignBegin(w, u, r) PROVE IInv'
  <2>1. PICK h : /\ Become(w, h)
                 /\ h = [pc |-> IF StateOf(users[u].role) = "manager"
                                THEN "assign.roles" ELSE "assign.write",
                         user |-> u, role |-> r, row |-> users[u],
                         was |-> StateOf(users[u].role), state |-> StateOf(r),
                         managing |-> {}]
    BY <1>5 DEF AssignBegin
  <2>2. users[u] \in UserRow /\ StateOf(users[u].role) \in RoleState /\ StateOf(r) \in RoleState
    BY <1>0 DEF TablesOK, UserRow, StateOf, RoleState
  <2>3. h \in Handler
    BY <2>1, <2>2 DEF Handler, PCs, RolePCs, UserPCs
  <2>4. Good(h)
    BY <2>1, <2>3 DEF Good, Writable, RolePCs, UserPCs
  <2>5. QED
    BY <1>0, <1>5, <2>1, <2>4, Moves DEF AssignBegin
<1>6. ASSUME NEW u \in Users, NEW active \in BOOLEAN, SetActiveBegin(w, u, active) PROVE IInv'
  <2>1. PICK h : /\ Become(w, h)
                 /\ h = [Idle EXCEPT !.pc = "active.write", !.user = u, !.row = users[u],
                                     !.row.active = active]
    BY <1>6 DEF SetActiveBegin
  <2>2. users[u] \in UserRow
    BY <1>0 DEF TablesOK
  <2>3. h \in Handler /\ h.pc = "active.write" /\ h.user = u
    BY <2>1, <2>2, IdleGood DEF Good, Handler, Idle, PCs, UserPCs, UserRow
  <2>4. Good(h)
    BY <2>3 DEF Good, Writable, RolePCs, UserPCs
  <2>5. QED
    BY <1>0, <1>6, <2>1, <2>4, Moves DEF SetActiveBegin
<1>7. ASSUME NEW u \in Users, ProfileBegin(w, u) PROVE IInv'
  <2>1. PICK h : /\ Become(w, h)
                 /\ h = [Idle EXCEPT !.pc = "profile.save", !.user = u, !.row = users[u]]
    BY <1>7 DEF ProfileBegin
  <2>2. users[u] \in UserRow /\ (users[u].staff <=> users[u].role # None)
    BY <1>0 DEF TablesOK, StaffHoldRoles
  <2>3. h \in Handler /\ h.pc = "profile.save" /\ h.user = u /\ h.row = users[u]
    BY <2>1, <2>2, IdleGood DEF Good, Handler, Idle, PCs, UserPCs
  <2>4. Good(h)
    BY <2>2, <2>3 DEF Good, Writable, RolePCs, UserPCs
  <2>5. QED
    BY <1>0, <1>7, <2>1, <2>4, Moves DEF ProfileBegin
<1>8. QED
  BY <1>1, <1>2, <1>3, <1>4, <1>5, <1>6, <1>7 DEF Arrive

-----------------------------------------------------------------------------
(* Creating, renaming, editing and deleting roles. *)
LEMMA RoleSteps ==
    ASSUME IInv, NEW w \in Web,
           (\E r \in Roles : CreateInsert(w, r)) \/ UpdateSave(w) \/ DeleteRow(w) \/ RoleAudit(w)
    PROVE  IInv'
<1> USE RolesAssumption
<1>0. TablesOK /\ Good(handler[w])
  BY Carried DEF IInv
<1>1. ASSUME NEW r \in Roles, CreateInsert(w, r) PROVE IInv'
  <2>1. handler[w].state \in Live /\ r # BuiltIn
    BY <1>0, <1>1 DEF CreateInsert, At, Good, Writable, TablesOK, BuiltInStays
  <2>2. TablesOK'
    <3>1. roles' \in [Roles -> RoleState]
      BY <1>0, <1>1, <2>1 DEF CreateInsert, TablesOK, RoleState
    <3>2. BuiltInStays'
      BY <1>0, <1>1, <2>1 DEF CreateInsert, TablesOK, BuiltInStays
    <3>3. \A q \in Roles : roles[q] \in Live => roles'[q] \in Live
      BY <1>0, <1>1, <2>1 DEF CreateInsert, TablesOK, Live
    <3>4. StaffHoldRoles'
      BY <1>0, <1>1, <3>3 DEF CreateInsert, TablesOK, UserRow, StaffHoldRoles, StateOf
    <3>5. QED
      BY <1>0, <1>1, <3>1, <3>2, <3>4 DEF CreateInsert, TablesOK
  <2>3. Good([handler[w] EXCEPT !.pc = "create.audit", !.role = r])
    BY <1>0 DEF Good, Writable, Handler, PCs, RolePCs, UserPCs
  <2>4. QED
    BY <1>1, <2>2, <2>3, Moves DEF CreateInsert
<1>2. CASE UpdateSave(w)
  <2>1. /\ handler[w].state \in Live
        /\ handler[w].role \in Roles
        /\ handler[w].role = BuiltIn => handler[w].state = "manager"
    BY <1>0, <1>2 DEF UpdateSave, At, Good, Writable, RolePCs
  <2>2. TablesOK'
    BY <1>0, <1>2, <2>1
       DEF UpdateSave, TablesOK, BuiltInStays, StaffHoldRoles, StateOf, RoleState
  <2>3. CASE Finish(w)
    BY <2>2, <2>3, IdleGood, Moves DEF Finish
  <2>4. CASE At(w, "update.save") /\ Goto(w, "update.audit")
    <3>1. Good([handler[w] EXCEPT !.pc = "update.audit"])
      BY <1>0, <2>4, GotoGood DEF At
    <3>2. QED
      BY <2>2, <2>4, <3>1, Moves DEF Goto
  <2>5. QED
    BY <1>2, <2>3, <2>4 DEF UpdateSave
<1>3. CASE DeleteRow(w)
  <2>1. handler[w].role \in Roles /\ handler[w].role # BuiltIn
    BY <1>0, <1>3 DEF DeleteRow, At, Good, Writable, RolePCs
  <2>2. CASE \E u \in Users : users[u].role = handler[w].role
    <3>1. Finish(w) /\ UNCHANGED <<roles, users, audited, told>>
      BY <1>3, <2>2 DEF DeleteRow
    <3>2. TablesOK'
      BY <1>0, <3>1 DEF TablesOK, BuiltInStays, StaffHoldRoles, StateOf
    <3>3. QED
      BY <3>1, <3>2, IdleGood, Moves DEF Finish
  <2>3. CASE \A u \in Users : users[u].role # handler[w].role
    <3>1. /\ roles' = [roles EXCEPT ![handler[w].role] = "deleted"]
          /\ Goto(w, "delete.audit")
          /\ UNCHANGED <<users, audited, told>>
      BY <1>3, <2>3 DEF DeleteRow
    <3>2. TablesOK'
      BY <1>0, <2>1, <2>3, <3>1 DEF TablesOK, BuiltInStays, StaffHoldRoles, StateOf, RoleState
    <3>3. Good([handler[w] EXCEPT !.pc = "delete.audit"])
      BY <1>0, <1>3, GotoGood DEF DeleteRow, At
    <3>4. QED
      BY <3>1, <3>2, <3>3, Moves DEF Goto
  <2>4. QED
    BY <2>2, <2>3
<1>4. CASE RoleAudit(w)
  <2>1. handler[w].role \in Roles /\ handler[w].state \in RoleState
    BY <1>0, <1>4 DEF RoleAudit, At, Good, RolePCs, Handler
  <2>2. audited' \in Audited
    BY <1>0, <1>4, <2>1 DEF RoleAudit, TablesOK, Audited
  <2>3. TablesOK'
    BY <1>0, <1>4, <2>2 DEF RoleAudit, TablesOK, BuiltInStays, StaffHoldRoles, StateOf
  <2>4. QED
    BY <1>4, <2>3, IdleGood, Moves DEF RoleAudit, Finish
<1>5. QED
  BY <1>1, <1>2, <1>3, <1>4

(* Giving a role to a user, or taking it away. *)
LEMMA AssignSteps ==
    ASSUME IInv, NEW w \in Web,
           \/ AssignRoles(w) \/ AssignCheck(w) \/ AssignWrite(w)
           \/ AssignAudit(w) \/ AssignNotify(w)
    PROVE  IInv'
<1> USE RolesAssumption
<1>0. TablesOK /\ Good(handler[w])
  BY Carried DEF IInv
<1> DEFINE u == handler[w].user
           r == handler[w].role
<1>1. (UNCHANGED <<roles, users, audited, told>>) => TablesOK'
  BY <1>0 DEF TablesOK, BuiltInStays, StaffHoldRoles, StateOf
<1>2. r \in Roles \cup {None}
  BY <1>0 DEF Good, Handler
<1>3. CASE AssignCheck(w)
  <2>1. Good([handler[w] EXCEPT !.pc = "assign.write"])
    BY <1>0, <1>3, GotoGood DEF AssignCheck, At
  <2>2. QED
    BY <1>1, <1>3, <2>1, IdleGood, Moves DEF AssignCheck, Goto, Finish
<1>4. CASE AssignWrite(w)
  <2>1. u \in Users
    BY <1>0, <1>4 DEF AssignWrite, At, Good, UserPCs
  <2>2. CASE r # None /\ StateOf(r) \notin Live
    BY <1>1, <1>4, <2>2, IdleGood, Moves DEF AssignWrite, Finish
  <2>3. CASE r = None \/ StateOf(r) \in Live
    <3>1. /\ users' = [users EXCEPT ![u].role = r, ![u].staff = r # None]
          /\ Goto(w, "assign.audit")
          /\ UNCHANGED <<roles, audited, told>>
      BY <1>4, <2>3 DEF AssignWrite
    <3>2. users' \in [Users -> UserRow]
      BY <1>0, <1>2, <2>1, <3>1 DEF TablesOK, UserRow
    <3>3. /\ users'[u].role = r
          /\ users'[u].staff <=> r # None
          /\ \A v \in Users \ {u} : users'[v] = users[v]
      BY <1>0, <2>1, <3>1 DEF TablesOK, UserRow
    <3>4. StaffHoldRoles'
      BY <1>0, <2>3, <3>1, <3>3 DEF TablesOK, StaffHoldRoles, StateOf
    <3>5. TablesOK'
      BY <1>0, <3>1, <3>2, <3>4 DEF TablesOK, BuiltInStays
    <3>6. Good([handler[w] EXCEPT !.pc = "assign.audit"])
      BY <1>0, <1>4, GotoGood DEF AssignWrite, At
    <3>7. QED
      BY <3>1, <3>5, <3>6, Moves DEF Goto
  <2>4. QED
    BY <2>2, <2>3
<1>5. CASE AssignAudit(w)
  <2>1. audited' \in Audited
    BY <1>0, <1>2, <1>5 DEF AssignAudit, TablesOK, Audited
  <2>2. TablesOK'
    BY <1>0, <1>5, <2>1 DEF AssignAudit, TablesOK, BuiltInStays, StaffHoldRoles, StateOf
  <2>3. Good([handler[w] EXCEPT !.pc = "assign.notify"])
    BY <1>0, <1>5, GotoGood DEF AssignAudit, At
  <2>4. QED
    BY <1>5, <2>2, <2>3, Moves DEF AssignAudit, Goto
<1>6. CASE AssignNotify(w)
  <2>1. told' \in [Users -> Roles \cup {None}]
    BY <1>0, <1>2, <1>6 DEF AssignNotify, TablesOK
  <2>2. TablesOK'
    BY <1>0, <1>6, <2>1 DEF AssignNotify, TablesOK, BuiltInStays, StaffHoldRoles, StateOf
  <2>3. QED
    BY <1>6, <2>2, IdleGood, Moves DEF AssignNotify, Finish
<1>7. CASE AssignRoles(w)
  <2>1. PICK h \in Handler :
               /\ Become(w, h) /\ h.pc = "assign.check"
               /\ h.user = handler[w].user /\ h.row = handler[w].row
    BY <1>0, <1>7, RolesLocals DEF Good
  <2>2. Good(h)
    BY <1>0, <1>7, <2>1 DEF AssignRoles, At, Good, Writable, RolePCs, UserPCs
  <2>3. QED
    BY <1>1, <1>7, <2>1, <2>2, Moves DEF AssignRoles
<1>8. QED
  BY <1>3, <1>4, <1>5, <1>6, <1>7

(* Suspending, reactivating, and saving a profile. *)
LEMMA UserSteps ==
    ASSUME IInv, NEW w \in Web,
           SetActiveWrite(w) \/ SetActiveAudit(w) \/ ProfileSave(w)
    PROVE  IInv'
<1> USE RolesAssumption
<1>0. TablesOK /\ Good(handler[w])
  BY Carried DEF IInv
<1> DEFINE u == handler[w].user
           row == handler[w].row
<1>1. row \in UserRow
  BY <1>0 DEF Good, Handler
<1>2. CASE SetActiveWrite(w)
  <2>1. u \in Users
    BY <1>0, <1>2 DEF SetActiveWrite, At, Good, UserPCs
  <2>2. users' \in [Users -> UserRow]
    BY <1>0, <1>1, <1>2, <2>1 DEF SetActiveWrite, TablesOK, UserRow
  <2>3. \A v \in Users : users'[v].role = users[v].role /\ users'[v].staff = users[v].staff
    BY <1>0, <1>2, <2>1 DEF SetActiveWrite, TablesOK, UserRow
  <2>4. TablesOK'
    BY <1>0, <1>2, <2>2, <2>3
       DEF SetActiveWrite, TablesOK, BuiltInStays, StaffHoldRoles, StateOf
  <2>5. Good([handler[w] EXCEPT !.pc = "active.audit"])
    BY <1>0, <1>2, GotoGood DEF SetActiveWrite, At
  <2>6. QED
    BY <1>2, <2>4, <2>5, Moves DEF SetActiveWrite, Goto
<1>3. CASE SetActiveAudit(w)
  <2>1. audited' \in Audited
    BY <1>0, <1>1, <1>3 DEF SetActiveAudit, TablesOK, Audited, UserRow
  <2>2. TablesOK'
    BY <1>0, <1>3, <2>1 DEF SetActiveAudit, TablesOK, BuiltInStays, StaffHoldRoles, StateOf
  <2>3. QED
    BY <1>3, <2>2, IdleGood, Moves DEF SetActiveAudit, Finish
<1>4. CASE ProfileSave(w)
  <2>1. row.staff <=> row.role # None
    BY <1>0, <1>4 DEF ProfileSave, At, Good, Writable
  <2>2. TablesOK'
    BY <1>0, <1>1, <1>4, <2>1
       DEF ProfileSave, TablesOK, BuiltInStays, StaffHoldRoles, StateOf
  <2>3. QED
    BY <1>4, <2>2, IdleGood, Moves DEF ProfileSave, Finish
<1>5. QED
  BY <1>2, <1>3, <1>4

-----------------------------------------------------------------------------
(* Every step of every process keeps the invariant. *)
LEMMA Inductive == IInv /\ [Next]_vars => IInv'
<1> SUFFICES ASSUME IInv, [Next]_vars PROVE IInv'
  OBVIOUS
<1>1. CASE UNCHANGED vars
  BY <1>1 DEF vars, IInv, TablesOK, BuiltInStays, StaffHoldRoles, StateOf, Good, Writable
<1>2. ASSUME NEW w \in Web, Arrive(w) \/ Step(w) PROVE IInv'
  BY <1>2, Begins, RoleSteps, AssignSteps, UserSteps DEF Step
<1>3. ASSUME NEW w \in Web, Crash(w) PROVE IInv'
  <2>1. TablesOK'
    BY <1>3 DEF Crash, IInv, TablesOK, BuiltInStays, StaffHoldRoles, StateOf
  <2>2. QED
    BY <1>3, <2>1, IdleGood, Moves DEF Crash, Finish
<1>4. QED
  BY <1>1, <1>2, <1>3 DEF Next

(* The invariant holds in every behaviour. *)
THEOREM Invariance == Spec => []IInv
BY Initial, Inductive, PTL DEF Spec

(* Whatever the handlers interleave, every row has its type, and a handler *)
(* that uses its role or its user has one.                                 *)
THEOREM TypeCorrect == Spec => []TypeOK
BY Invariance, HistoryTyped, Implies, PTL

(* The built-in role exists and can manage roles for ever (role_protected  *)
(* and is_protected of admin_services.py).                                 *)
THEOREM BuiltInIsSafe == Spec => []BuiltInStays
BY Invariance, HistoryTyped, Implies, PTL

(* is_staff follows admin_role, and admin_role refers to a role that       *)
(* exists, in spite of stale saves and concurrent deletions.               *)
THEOREM StaffAreHolders == Spec => []StaffHoldRoles
BY Invariance, HistoryTyped, Implies, PTL

-----------------------------------------------------------------------------
(* What is known of a user or a role on which no clash is noted.           *)

(* Two handlers at work on one thing have been noted. *)
OverlapSeen ==
    \A v, w \in Web, x \in Users \cup Roles \cup {"roles.manage"} :
        v # w /\ x \in Subjects(handler[v]) /\ x \in Subjects(handler[w]) => x \in contested

(* Who handles a role has seen it. *)
Born == \A w \in Web : handler[w].pc \in RolePCs => roles[handler[w].role] # "unborn"

(* Where a handler owes an audit row about a role. *)
RoleAuditPCs == {"create.audit", "update.audit", "delete.audit"}

(* The audit rows are true, or a handler that knows the truth owes one.    *)
UserHolds(u) ==
    u \notin contested =>
        /\ (\A w \in Web : At(w, "assign.audit") => handler[w].user # u)
              => audited.role[u] = users[u].role
        /\ (\A w \in Web : At(w, "active.audit") => handler[w].user # u)
              => audited.active[u] = users[u].active
        /\ \A w \in Web : handler[w].user = u =>
              /\ At(w, "assign.audit") => users[u].role = handler[w].role
              /\ At(w, "active.audit") => users[u].active = handler[w].row.active
              /\ At(w, "profile.save") => users[u] = handler[w].row

RoleHolds(r) ==
    r \notin contested =>
        /\ (\A w \in Web : handler[w].pc \in RoleAuditPCs => handler[w].role # r)
              => audited.state[r] = roles[r]
        /\ \A w \in Web : handler[w].role = r =>
              /\ handler[w].pc \in RoleAuditPCs => roles[r] = handler[w].state
              /\ At(w, "rename.save") => roles[r] = handler[w].state

(* What a handler read of who can manage roles still holds when it writes. *)
StillIs(r, state) == StateOf(r) = state \/ StateOf(r) = "deleted"
Knows(h) ==
    /\ h.pc = "rename.save" => StillIs(h.role, h.state)
    /\ h.pc = "profile.save" => h.row.role = users[h.user].role
    /\ h.pc \in {"assign.roles", "assign.check", "assign.write"} =>
          /\ h.was = StateOf(users[h.user].role)
          /\ h.role # None => StillIs(h.role, h.state) /\ StateOf(h.role) # "unborn"
          /\ h.role = None => h.state = "unborn"
    /\ h.pc = "assign.check" =>
          \A v \in Users : users[v].role \in h.managing => StateOf(users[v].role) = "manager"
    /\ h.pc = "assign.write" /\ h.was = "manager" /\ h.state # "manager" =>
          \E v \in Users \ {h.user} : StateOf(users[v].role) = "manager"

ManageHolds == "roles.manage" \notin contested => \A w \in Web : Knows(handler[w])

(* A handler with a user or a role to write or report is at work on it. *)
LEMMA AtWork ==
    ASSUME NEW h
    PROVE  /\ h.pc \in UserPCs /\ h.user \in Users => h.user \in Subjects(h)
           /\ h.pc \in RolePCs /\ h.role \in Roles => h.role \in Subjects(h)
           /\ h.pc \in ManagePCs => "roles.manage" \in Subjects(h)
           /\ Subjects(h) \subseteq Users \cup Roles \cup {"roles.manage"}
BY DEF Subjects

(* A process without a request is at work on nothing. *)
LEMMA IdleHasNoSubject == Subjects(Idle) = {}
BY DEF Subjects, Idle, UserPCs, RolePCs, ManagePCs

(* Overlap holds whatever two handlers are at work on. *)
LEMMA SharedIsOverlap ==
    \A v, w \in Web, x \in Users \cup Roles \cup {"roles.manage"} :
        v # w /\ x \in Subjects(handler[v]) /\ x \in Subjects(handler[w]) => x \in Overlap
BY DEF Overlap

(* Clashes are kept, and every overlap is among them. *)
LEMMA NextClashes ==
    ASSUME IInv, OverlapSeen, Next
    PROVE  OverlapSeen' /\ contested \subseteq contested'
<1>1. CASE contested' = contested \cup Overlap'
  <2>1. (\A v, w \in Web, x \in Users \cup Roles \cup {"roles.manage"} :
            v # w /\ x \in Subjects(handler[v]) /\ x \in Subjects(handler[w]) => x \in Overlap)'
    BY SharedIsOverlap, PTL
  <2>2. QED
    BY <1>1, <2>1 DEF OverlapSeen
<1>2. ASSUME NEW w \in Web, Crash(w) PROVE OverlapSeen' /\ contested \subseteq contested'
  <2>1. contested \subseteq contested'
    BY <1>2 DEF Crash
  <2>2. \A v \in Web : handler'[v] = IF v = w THEN Idle ELSE handler[v]
    BY <1>2 DEF Crash, Finish, Become, IInv
  <2>3. \A v \in Web : Subjects(handler'[v]) \subseteq Subjects(handler[v])
    BY <2>2, IdleHasNoSubject
  <2>4. ASSUME NEW v \in Web, NEW u \in Web, NEW x \in Users \cup Roles \cup {"roles.manage"},
               v # u, x \in Subjects(handler'[v]), x \in Subjects(handler'[u])
        PROVE  x \in contested'
    BY <2>1, <2>3, <2>4 DEF OverlapSeen
  <2>5. QED
    BY <2>1, <2>4 DEF OverlapSeen, Subjects
<1>3. QED
  BY <1>1, <1>2 DEF Next

(* Two handlers at work on one user have been noted. *)
LEMMA TwoOnUser ==
    ASSUME IInv, OverlapSeen, NEW v \in Web, NEW w \in Web, v # w,
           handler[v].pc \in UserPCs, handler[w].pc \in UserPCs, handler[v].user = handler[w].user
    PROVE  handler[w].user \in contested
BY AtWork DEF IInv, Good, OverlapSeen

(* The same of two handlers on one role. *)
LEMMA TwoOnRole ==
    ASSUME IInv, OverlapSeen, NEW v \in Web, NEW w \in Web, v # w,
           handler[v].pc \in RolePCs, handler[w].pc \in RolePCs, handler[v].role = handler[w].role
    PROVE  handler[w].role \in contested
BY AtWork DEF IInv, Good, OverlapSeen

(* The same of two handlers that write who may manage roles. *)
LEMMA TwoManage ==
    ASSUME IInv, OverlapSeen, NEW v \in Web, NEW w \in Web, v # w,
           handler[v].pc \in ManagePCs, handler[w].pc \in ManagePCs
    PROVE  "roles.manage" \in contested
BY AtWork DEF IInv, Good, OverlapSeen

(* What each handler has before and after a step of one of them. *)
LEMMA Moved ==
    ASSUME IInv, NEW w \in Web, NEW h, Become(w, h)
    PROVE  \A v \in Web : handler'[v] = IF v = w THEN h ELSE handler[v]
BY DEF IInv, Become

-----------------------------------------------------------------------------
(* Users. *)
(* The audit rows of all users, and where they are owed. *)
UsersHold == \A u \in Users : UserHolds(u)
UserAuditPCs == {"assign.audit", "active.audit"}

(* Steps that write no user and no audit row about one. *)
LEMMA UsersAlone ==
    ASSUME IInv, UsersHold, NEW w \in Web, NEW h, Become(w, h),
           UNCHANGED users, audited'.role = audited.role, audited'.active = audited.active,
           contested \subseteq contested',
           handler[w].pc \in UserAuditPCs => handler[w].user \in contested',
           h.pc \notin UserAuditPCs,
           h.pc = "profile.save" => h.row = users[h.user]
    PROVE  UsersHold'
<1> SUFFICES ASSUME NEW u \in Users, u \notin contested'
             PROVE  UserHolds(u)'
  BY DEF UsersHold, UserHolds
<1>1. UserHolds(u) /\ u \notin contested
  BY DEF UsersHold
<1>2. \A v \in Web : handler'[v] = IF v = w THEN h ELSE handler[v]
  BY Moved
<1>3. \A v \in Web : handler[v].pc \in UserAuditPCs /\ handler[v].user = u
                         => handler'[v] = handler[v]
  BY <1>2
<1>4. ASSUME NEW v \in Web, handler'[v].user = u
      PROVE  /\ handler'[v].pc = "assign.audit" => users[u].role = handler'[v].role
             /\ handler'[v].pc = "active.audit" => users[u].active = handler'[v].row.active
             /\ handler'[v].pc = "profile.save" => users[u] = handler'[v].row
  BY <1>1, <1>2, <1>4 DEF UserHolds, UserAuditPCs, At
<1>5. QED
  BY <1>1, <1>3, <1>4 DEF UserHolds, UserAuditPCs, At

(* One user's row is written by the handler at work on it; what changes is *)
(* what that handler goes on to report.                                    *)
LEMMA UserWritten ==
    ASSUME IInv, OverlapSeen, UsersHold, NEW w \in Web, NEW h, Become(w, h),
           handler[w].pc \in UserPCs \ UserAuditPCs,
           NEW u \in Users, u = handler[w].user,
           \A v \in Users \ {u} : users'[v] = users[v],
           UNCHANGED audited, contested \subseteq contested',
           h.pc # "profile.save",
           h.pc \in UserAuditPCs => h.user = u,
           u \notin contested =>
               /\ IF h.pc = "assign.audit" THEN users'[u].role = h.role
                  ELSE users'[u].role = users[u].role
               /\ IF h.pc = "active.audit" THEN users'[u].active = h.row.active
                  ELSE users'[u].active = users[u].active
    PROVE  UsersHold'
<1> SUFFICES ASSUME NEW v \in Users, v \notin contested'
             PROVE  UserHolds(v)'
  BY DEF UsersHold, UserHolds
<1>1. UserHolds(v) /\ v \notin contested
  BY DEF UsersHold
<1>2. \A x \in Web : handler'[x] = IF x = w THEN h ELSE handler[x]
  BY Moved
<1>3. CASE v = u
  <2>1. \A x \in Web \ {w} : handler'[x] = handler[x]
                             /\ (handler[x].pc \in UserPCs => handler[x].user # u)
    BY <1>1, <1>2, <1>3, TwoOnUser
  <2>2. \A x \in Web : handler[x].pc \in UserAuditPCs => handler[x].user # u
    BY <2>1 DEF UserAuditPCs, UserPCs
  <2>3. audited.role[u] = users[u].role /\ audited.active[u] = users[u].active
    BY <1>1, <1>3, <2>2 DEF UserHolds, UserAuditPCs, At
  <2>4. ASSUME NEW x \in Web, handler'[x].user = u
        PROVE  /\ handler'[x].pc = "assign.audit" => users'[u].role = handler'[x].role
               /\ handler'[x].pc = "active.audit" => users'[u].active = handler'[x].row.active
               /\ handler'[x].pc # "profile.save"
    BY <1>1, <1>2, <1>3, <2>1, <2>4 DEF UserPCs
  <2>5. /\ h.pc # "assign.audit" => audited.role[u] = users'[u].role
        /\ h.pc # "active.audit" => audited.active[u] = users'[u].active
    BY <1>1, <1>3, <2>3
  <2>6. handler'[w] = h
    BY <1>2
  <2>7. QED
    BY <1>3, <2>4, <2>5, <2>6 DEF UserHolds, UserAuditPCs, At
<1>4. CASE v # u
  <2>1. \A x \in Web : handler[x].pc \in UserAuditPCs /\ handler[x].user = v
                           => handler'[x] = handler[x]
    BY <1>2, <1>4
  <2>2. ASSUME NEW x \in Web, handler'[x].user = v
        PROVE  /\ handler'[x].pc = "assign.audit" => users[v].role = handler'[x].role
               /\ handler'[x].pc = "active.audit" => users[v].active = handler'[x].row.active
               /\ handler'[x].pc = "profile.save" => users[v] = handler'[x].row
    BY <1>1, <1>2, <1>4, <2>2 DEF UserHolds, UserAuditPCs, At
  <2>3. users'[v] = users[v]
    BY <1>4
  <2>4. QED
    BY <1>1, <2>1, <2>2, <2>3 DEF UserHolds, UserAuditPCs, At
<1>5. QED
  BY <1>3, <1>4

(* The audit row of an assignment, and of a suspension. *)
LEMMA UserAudited ==
    ASSUME IInv, OverlapSeen, UsersHold, NEW w \in Web, AssignAudit(w) \/ SetActiveAudit(w),
           contested \subseteq contested'
    PROVE  UsersHold'
<1> DEFINE u == handler[w].user
<1>1. PICK h : Become(w, h) /\ h.pc \notin UserAuditPCs /\ h.pc # "profile.save"
  <2>1. CASE AssignAudit(w)
    BY <2>1 DEF AssignAudit, Goto, UserAuditPCs, IInv, Good, Handler
  <2>2. CASE SetActiveAudit(w)
    BY <2>2 DEF SetActiveAudit, Finish, Idle, UserAuditPCs
  <2>3. QED
    BY <2>1, <2>2
<1>2. handler[w].pc \in UserAuditPCs /\ handler[w].pc \in UserPCs /\ u \in Users /\ UNCHANGED users
  BY DEF AssignAudit, SetActiveAudit, At, UserAuditPCs, UserPCs, IInv, Good
<1>3. audited \in Audited
  BY DEF IInv, TablesOK
<1>4. /\ \A v \in Users : audited'.role[v] = IF v = u /\ At(w, "assign.audit") THEN handler[w].role
                                             ELSE audited.role[v]
      /\ \A v \in Users : audited'.active[v] = IF v = u /\ At(w, "active.audit")
                                               THEN handler[w].row.active
                                               ELSE audited.active[v]
  BY <1>2, <1>3 DEF AssignAudit, SetActiveAudit, Audited, At
<1> SUFFICES ASSUME NEW v \in Users, v \notin contested'
             PROVE  UserHolds(v)'
  BY DEF UsersHold, UserHolds
<1>5. UserHolds(v) /\ v \notin contested
  BY DEF UsersHold
<1>6. \A x \in Web : handler'[x] = IF x = w THEN h ELSE handler[x]
  BY <1>1, Moved
<1> HIDE DEF u
<1>7. ASSUME NEW x \in Web, handler'[x].user = v
      PROVE  /\ handler'[x].pc = "assign.audit" => users[v].role = handler'[x].role
             /\ handler'[x].pc = "active.audit" => users[v].active = handler'[x].row.active
             /\ handler'[x].pc = "profile.save" => users[v] = handler'[x].row
  BY <1>1, <1>5, <1>6, <1>7 DEF UserHolds, UserAuditPCs, At
<1>8. CASE v = u
  <2>1. \A x \in Web \ {w} : handler[x].pc \in UserPCs => handler[x].user # u
    BY <1>2, <1>5, <1>8, TwoOnUser DEF u
  <2>2. audited'.role[v] = users[v].role /\ audited'.active[v] = users[v].active
    BY <1>2, <1>4, <1>5, <1>8, <2>1 DEF UserHolds, UserAuditPCs, UserPCs, At, u
  <2>3. QED
    BY <1>2, <1>7, <2>2 DEF UserHolds, At
<1>9. CASE v # u
  <2>1. audited'.role[v] = audited.role[v] /\ audited'.active[v] = audited.active[v]
    BY <1>4, <1>9
  <2>2. \A x \in Web : handler[x].pc \in UserAuditPCs /\ handler[x].user = v
                           => handler'[x] = handler[x]
    BY <1>6, <1>9 DEF u
  <2>3. QED
    BY <1>2, <1>5, <1>7, <2>1, <2>2 DEF UserHolds, UserAuditPCs, At
<1>10. QED
  BY <1>8, <1>9

-----------------------------------------------------------------------------
(* Roles, in the same way. *)
RolesHold == \A r \in Roles : RoleHolds(r)

(* Steps that write no role and no audit row about one. *)
LEMMA RolesAlone ==
    ASSUME IInv, RolesHold, NEW w \in Web, NEW h, Become(w, h),
           UNCHANGED roles, audited'.state = audited.state,
           contested \subseteq contested',
           handler[w].pc \in RoleAuditPCs => handler[w].role \in contested',
           h.pc \notin RoleAuditPCs,
           h.pc = "rename.save" => h.state = roles[h.role]
    PROVE  RolesHold'
<1> SUFFICES ASSUME NEW r \in Roles, r \notin contested'
             PROVE  RoleHolds(r)'
  BY DEF RolesHold, RoleHolds
<1>1. RoleHolds(r) /\ r \notin contested
  BY DEF RolesHold
<1>2. \A v \in Web : handler'[v] = IF v = w THEN h ELSE handler[v]
  BY Moved
<1>3. \A v \in Web : handler[v].pc \in RoleAuditPCs /\ handler[v].role = r
                           => handler'[v] = handler[v]
  BY <1>2
<1>4. ASSUME NEW v \in Web, handler'[v].role = r
      PROVE  /\ handler'[v].pc \in RoleAuditPCs => roles[r] = handler'[v].state
             /\ handler'[v].pc = "rename.save" => roles[r] = handler'[v].state
  BY <1>1, <1>2, <1>4 DEF RoleHolds, At
<1>5. QED
  BY <1>1, <1>3, <1>4 DEF RoleHolds, At

(* One role's row is written while no other handler is at work on it. *)
LEMMA RoleWritten ==
    ASSUME IInv, RolesHold, NEW w \in Web, NEW h, Become(w, h),
           handler[w].pc \notin RoleAuditPCs,
           NEW r \in Roles,
           \A q \in Roles \ {r} : roles'[q] = roles[q],
           UNCHANGED audited, contested \subseteq contested',
           h.pc # "rename.save",
           h.pc \in RoleAuditPCs => h.role = r,
           r \notin contested =>
               /\ \A v \in Web \ {w} : handler[v].pc \in RolePCs => handler[v].role # r
               /\ roles'[r] = IF h.pc \in RoleAuditPCs THEN h.state ELSE roles[r]
    PROVE  RolesHold'
<1> SUFFICES ASSUME NEW q \in Roles, q \notin contested'
             PROVE  RoleHolds(q)'
  BY DEF RolesHold, RoleHolds
<1>1. RoleHolds(q) /\ q \notin contested
  BY DEF RolesHold
<1>2. \A v \in Web : handler'[v] = IF v = w THEN h ELSE handler[v]
  BY Moved
<1>3. CASE q = r
  <2>1. \A v \in Web : handler[v].pc \in RoleAuditPCs => handler[v].role # r
    BY <1>1, <1>3 DEF RoleAuditPCs, RolePCs
  <2>2. audited.state[r] = roles[r]
    BY <1>1, <1>3, <2>1 DEF RoleHolds
  <2>3. ASSUME NEW v \in Web, handler'[v].role = r
        PROVE  /\ handler'[v].pc \in RoleAuditPCs => roles'[r] = handler'[v].state
               /\ handler'[v].pc # "rename.save"
    BY <1>1, <1>2, <1>3, <2>1, <2>3 DEF RolePCs
  <2>4. h.pc \notin RoleAuditPCs => audited.state[r] = roles'[r]
    BY <1>1, <1>3, <2>2
  <2>5. handler'[w] = h
    BY <1>2
  <2>6. QED
    BY <1>3, <2>3, <2>4, <2>5 DEF RoleHolds, At
<1>4. CASE q # r
  <2>1. \A v \in Web : handler[v].pc \in RoleAuditPCs /\ handler[v].role = q
                           => handler'[v] = handler[v]
    BY <1>2
  <2>2. ASSUME NEW v \in Web, handler'[v].role = q
        PROVE  /\ handler'[v].pc \in RoleAuditPCs => roles[q] = handler'[v].state
               /\ handler'[v].pc = "rename.save" => roles[q] = handler'[v].state
    BY <1>1, <1>2, <1>4, <2>2 DEF RoleHolds, At
  <2>3. roles'[q] = roles[q]
    BY <1>4
  <2>4. QED
    BY <1>1, <2>1, <2>2, <2>3 DEF RoleHolds, At
<1>5. QED
  BY <1>3, <1>4

(* The audit row of a creation, an edit or a deletion. *)
LEMMA RoleAudited ==
    ASSUME IInv, OverlapSeen, RolesHold, NEW w \in Web, RoleAudit(w),
           contested \subseteq contested'
    PROVE  RolesHold'
<1> DEFINE r == handler[w].role
<1>1. Become(w, Idle) /\ UNCHANGED roles
  BY DEF RoleAudit, Finish
<1>2. handler[w].pc \in RoleAuditPCs /\ handler[w].pc \in RolePCs /\ r \in Roles
  BY DEF RoleAudit, At, RoleAuditPCs, RolePCs, IInv, Good
<1>3. \A q \in Roles : audited'.state[q] = IF q = r THEN handler[w].state ELSE audited.state[q]
  BY <1>2 DEF RoleAudit, IInv, TablesOK, Audited
<1> SUFFICES ASSUME NEW q \in Roles, q \notin contested'
             PROVE  RoleHolds(q)'
  BY DEF RolesHold, RoleHolds
<1>4. RoleHolds(q) /\ q \notin contested
  BY DEF RolesHold
<1>5. \A v \in Web : handler'[v] = IF v = w THEN Idle ELSE handler[v]
  BY <1>1, Moved
<1> HIDE DEF r
<1>6. ASSUME NEW v \in Web, handler'[v].role = q
      PROVE  /\ handler'[v].pc \in RoleAuditPCs => roles[q] = handler'[v].state
             /\ handler'[v].pc = "rename.save" => roles[q] = handler'[v].state
  BY <1>4, <1>5, <1>6 DEF RoleHolds, RoleAuditPCs, At, Idle
<1>7. CASE q = r
  <2>1. audited'.state[q] = roles[q]
    BY <1>2, <1>3, <1>4, <1>7 DEF RoleHolds, r
  <2>2. QED
    BY <1>1, <1>6, <2>1 DEF RoleHolds, At
<1>8. CASE q # r
  <2>1. audited'.state[q] = audited.state[q]
    BY <1>3, <1>8
  <2>2. \A v \in Web : handler[v].pc \in RoleAuditPCs /\ handler[v].role = q
                           => handler'[v] = handler[v]
    BY <1>5, <1>8 DEF r
  <2>3. QED
    BY <1>1, <1>4, <1>6, <2>1, <2>2 DEF RoleHolds, At
<1>9. QED
  BY <1>7, <1>8

-----------------------------------------------------------------------------
(* All steps. *)

(* What a handler knows when it begins. *)
Fresh(h) ==
    /\ h.pc \notin UserAuditPCs \cup RoleAuditPCs
    /\ h.pc = "profile.save" => h.row = users[h.user]
    /\ h.pc = "rename.save" => h.state = roles[h.role]
    /\ h.pc \in RolePCs => roles[h.role] # "unborn"
    /\ Knows(h)

(* A request that arrives changes no table, and its handler knows what it  *)
(* has just read.                                                          *)
LEMMA Starts ==
    ASSUME NEW w \in Web, Arrive(w)
    PROVE  /\ handler[w].pc = "idle"
           /\ UNCHANGED <<roles, users, audited, told>>
           /\ \E h : Become(w, h) /\ Fresh(h)
<1>1. ASSUME NEW state \in Live, CreateBegin(w, state) PROVE \E h : Become(w, h) /\ Fresh(h)
  <2> DEFINE h == [Idle EXCEPT !.pc = "create.insert", !.state = state]
  <2>1. Fresh(h)
    BY <1>1
       DEF CreateBegin, Fresh, Knows, StillIs, StateOf, Idle, RolePCs, UserAuditPCs, RoleAuditPCs
  <2>2. Become(w, h)
    BY <1>1 DEF CreateBegin
  <2> HIDE DEF h
  <2>3. QED
    BY <2>1, <2>2
<1>2. ASSUME NEW r \in Roles, RenameBegin(w, r) PROVE \E h : Become(w, h) /\ Fresh(h)
  <2> DEFINE h == [Idle EXCEPT !.pc = "rename.save", !.role = r, !.state = roles[r]]
  <2>1. Fresh(h)
    BY <1>2, RolesAssumption
       DEF RenameBegin, Fresh, Knows, StillIs, StateOf, Idle, RolePCs, UserAuditPCs,
           RoleAuditPCs, Live
  <2>2. Become(w, h)
    BY <1>2 DEF RenameBegin
  <2> HIDE DEF h
  <2>3. QED
    BY <2>1, <2>2
<1>3. ASSUME NEW r \in Roles, DeleteBegin(w, r) PROVE \E h : Become(w, h) /\ Fresh(h)
  <2> DEFINE h == [Idle EXCEPT !.pc = "delete.row", !.role = r, !.state = "deleted"]
  <2>1. Fresh(h)
    BY <1>3
       DEF DeleteBegin, Fresh, Knows, StillIs, StateOf, Idle, RolePCs, UserAuditPCs,
           RoleAuditPCs, Live
  <2>2. Become(w, h)
    BY <1>3 DEF DeleteBegin
  <2> HIDE DEF h
  <2>3. QED
    BY <2>1, <2>2
<1>4. ASSUME NEW r \in Roles, NEW state \in Live, UpdateBegin(w, r, state)
      PROVE  \E h : Become(w, h) /\ Fresh(h)
  <2> DEFINE h == [Idle EXCEPT !.pc = "update.save", !.role = r, !.state = state]
  <2>1. Fresh(h)
    BY <1>4
       DEF UpdateBegin, Fresh, Knows, StillIs, StateOf, Idle, RolePCs, UserAuditPCs,
           RoleAuditPCs, Live
  <2>2. Become(w, h)
    BY <1>4 DEF UpdateBegin
  <2> HIDE DEF h
  <2>3. QED
    BY <2>1, <2>2
<1>5. ASSUME NEW u \in Users, NEW r \in Roles \cup {None}, AssignBegin(w, u, r)
      PROVE  \E h : Become(w, h) /\ Fresh(h)
  <2> DEFINE was == StateOf(users[u].role)
             h == [pc |-> IF was = "manager" THEN "assign.roles" ELSE "assign.write",
                   user |-> u, role |-> r, row |-> users[u], was |-> was, state |-> StateOf(r),
                   managing |-> {}]
  <2>1. Become(w, h) /\ (r = None \/ StateOf(r) \in Live)
    BY <1>5 DEF AssignBegin
  <2>2. /\ h.pc = IF was = "manager" THEN "assign.roles" ELSE "assign.write"
        /\ h.user = u /\ h.role = r /\ h.was = was /\ h.state = StateOf(r)
    OBVIOUS
  <2> HIDE DEF h
  <2>3. Knows(h)
    BY <2>1, <2>2, RolesAssumption DEF Knows, StillIs, StateOf, Live
  <2>4. Fresh(h)
    BY <2>2, <2>3 DEF Fresh, RolePCs, UserAuditPCs, RoleAuditPCs
  <2>5. QED
    BY <2>1, <2>4
<1>6. ASSUME NEW u \in Users, NEW active \in BOOLEAN, SetActiveBegin(w, u, active)
      PROVE  \E h : Become(w, h) /\ Fresh(h)
  <2> DEFINE h == [Idle EXCEPT !.pc = "active.write", !.user = u, !.row = users[u],
                              !.row.active = active]
  <2>1. Fresh(h)
    BY <1>6
       DEF SetActiveBegin, Fresh, Knows, StillIs, StateOf, Idle, RolePCs, UserAuditPCs, RoleAuditPCs
  <2>2. Become(w, h)
    BY <1>6 DEF SetActiveBegin
  <2> HIDE DEF h
  <2>3. QED
    BY <2>1, <2>2
<1>7. ASSUME NEW u \in Users, ProfileBegin(w, u) PROVE \E h : Become(w, h) /\ Fresh(h)
  <2> DEFINE h == [Idle EXCEPT !.pc = "profile.save", !.user = u, !.row = users[u]]
  <2>1. Fresh(h)
    BY <1>7
       DEF ProfileBegin, Fresh, Knows, StillIs, StateOf, Idle, RolePCs, UserAuditPCs, RoleAuditPCs
  <2>2. Become(w, h)
    BY <1>7 DEF ProfileBegin
  <2> HIDE DEF h
  <2>3. QED
    BY <2>1, <2>2
<1>8. handler[w].pc = "idle" /\ UNCHANGED <<roles, users, audited, told>>
  BY DEF Arrive, At, CreateBegin, RenameBegin, DeleteBegin, UpdateBegin, AssignBegin,
         SetActiveBegin, ProfileBegin
<1>9. QED
  BY <1>1, <1>2, <1>3, <1>4, <1>5, <1>6, <1>7, <1>8 DEF Arrive

(* Nobody forgets that a role was created. *)
LEMMA NextBorn ==
    ASSUME IInv, Born, Next
    PROVE  Born'
<1>1. ASSUME NEW w \in Web, NEW h, Become(w, h),
             \A r \in Roles : roles[r] # "unborn" => roles'[r] # "unborn",
             h.pc \in RolePCs => roles'[h.role] # "unborn"
      PROVE  Born'
  <2>1. \A v \in Web : handler'[v] = IF v = w THEN h ELSE handler[v]
    BY <1>1, Moved
  <2>2. \A v \in Web : handler[v].pc \in RolePCs => handler[v].role \in Roles
    BY DEF IInv, Good
  <2>3. QED
    BY <1>1, <2>1, <2>2 DEF Born
<1>2. ASSUME NEW w \in Web, Arrive(w) PROVE Born'
  BY <1>1, <1>2, Starts DEF Fresh
<1>3. ASSUME NEW w \in Web, NEW r \in Roles, CreateInsert(w, r) PROVE Born'
  <2>1. handler[w].state # "unborn" /\ handler[w] \in Handler /\ roles \in [Roles -> RoleState]
    BY <1>3 DEF CreateInsert, At, IInv, TablesOK, Good, Writable, Live
  <2> DEFINE h == [handler[w] EXCEPT !.pc = "create.audit", !.role = r]
  <2>2. h.role = r
    BY <2>1 DEF Handler
  <2>3. roles'[r] # "unborn" /\ \A q \in Roles : roles[q] # "unborn" => roles'[q] # "unborn"
    BY <1>3, <2>1 DEF CreateInsert
  <2>4. Become(w, h)
    BY <1>3 DEF CreateInsert
  <2> HIDE DEF h
  <2>5. QED
    BY <1>1, <2>2, <2>3, <2>4
<1>4. ASSUME NEW w \in Web, UpdateSave(w) PROVE Born'
  <2>1. /\ handler[w].role \in Roles /\ handler[w].state # "unborn" /\ handler[w] \in Handler
        /\ roles \in [Roles -> RoleState]
    BY <1>4 DEF UpdateSave, At, IInv, TablesOK, Good, Writable, Live, RolePCs
  <2>2. /\ roles'[handler[w].role] # "unborn"
        /\ \A q \in Roles : roles[q] # "unborn" => roles'[q] # "unborn"
    BY <1>4, <2>1 DEF UpdateSave
  <2>3. PICK h : Become(w, h) /\ (h.pc \in RolePCs => h.role = handler[w].role)
    BY <1>4, <2>1 DEF UpdateSave, Finish, Goto, Idle, RolePCs, Handler
  <2>4. QED
    BY <1>1, <2>2, <2>3
<1>5. ASSUME NEW w \in Web, DeleteRow(w) PROVE Born'
  <2>1. handler[w].role \in Roles /\ handler[w] \in Handler /\ roles \in [Roles -> RoleState]
    BY <1>5 DEF DeleteRow, At, IInv, TablesOK, Good, RolePCs
  <2>2. \A q \in Roles : roles[q] # "unborn" => roles'[q] # "unborn"
    BY <1>5, <2>1 DEF DeleteRow
  <2>3. PICK h : Become(w, h) /\ (h.pc \in RolePCs => roles'[h.role] # "unborn")
    <3>1. CASE \E u \in Users : users[u].role = handler[w].role
      BY <1>5, <3>1 DEF DeleteRow, Finish, Idle, RolePCs
    <3>2. CASE \A u \in Users : users[u].role # handler[w].role
      BY <1>5, <2>1, <3>2 DEF DeleteRow, Goto, Handler
    <3>3. QED
      BY <3>1, <3>2
  <2>4. QED
    BY <1>1, <2>2, <2>3
<1>6. ASSUME NEW w \in Web, UNCHANGED roles,
             NEW h, Become(w, h), h.pc \notin RolePCs
      PROVE  Born'
  BY <1>1, <1>6
<1>7. ASSUME NEW w \in Web,
             \/ RoleAudit(w) \/ SetActiveAudit(w) \/ ProfileSave(w) \/ AssignNotify(w) \/ Crash(w)
             \/ AssignRoles(w) \/ AssignCheck(w) \/ AssignWrite(w) \/ AssignAudit(w)
             \/ SetActiveWrite(w)
      PROVE  Born'
  <2>1. handler[w] \in Handler
    BY DEF IInv, Good
  <2>2. UNCHANGED roles
    BY <1>7 DEF RoleAudit, SetActiveAudit, ProfileSave, AssignNotify, Crash, AssignRoles,
                AssignCheck, AssignWrite, AssignAudit, SetActiveWrite
  <2>3. \/ Become(w, Idle)
        \/ \E pc \in UserPCs : Become(w, [handler[w] EXCEPT !.pc = pc])
        \/ AssignRoles(w)
    BY <1>7 DEF RoleAudit, SetActiveAudit, ProfileSave, AssignNotify, Crash, AssignRoles,
                AssignCheck, AssignWrite, AssignAudit, SetActiveWrite, Finish, Goto, UserPCs
  <2>4. PICK h : Become(w, h) /\ h.pc \notin RolePCs
    BY <2>1, <2>3, RolesLocals DEF Handler, Idle, UserPCs, RolePCs
  <2>5. QED
    BY <1>6, <2>2, <2>4
<1>8. QED
  BY <1>2, <1>3, <1>4, <1>5, <1>7 DEF Next, Step

(* No step makes an audit row lie about a user on whom no clash is noted. *)
LEMMA NextUsers ==
    ASSUME IInv, OverlapSeen, UsersHold, Next
    PROVE  UsersHold'
<1> USE NextClashes
<1>1. ASSUME NEW w \in Web, Arrive(w) PROVE UsersHold'
  <2>1. PICK h : Become(w, h) /\ Fresh(h)
    BY <1>1, Starts
  <2>2. UNCHANGED <<users, audited>> /\ handler[w].pc \notin UserAuditPCs
    BY <1>1, Starts DEF UserAuditPCs
  <2>3. h.pc \notin UserAuditPCs /\ (h.pc = "profile.save" => h.row = users[h.user])
    BY <2>1 DEF Fresh
  <2>4. QED
    BY <2>1, <2>2, <2>3, UsersAlone
<1>2. ASSUME NEW w \in Web,
             \/ (\E r \in Roles : CreateInsert(w, r)) \/ UpdateSave(w) \/ DeleteRow(w) \/ RoleAudit(w)
             \/ AssignRoles(w) \/ AssignCheck(w) \/ AssignNotify(w)
      PROVE  UsersHold'
  <2>1. handler[w] \in Handler /\ audited \in Audited
    BY DEF IInv, Good, TablesOK
  <2>2. /\ UNCHANGED users
        /\ audited'.role = audited.role /\ audited'.active = audited.active
        /\ handler[w].pc \notin UserAuditPCs
    BY <1>2, <2>1 DEF CreateInsert, UpdateSave, DeleteRow, RoleAudit, AssignRoles, AssignCheck,
                      AssignNotify, At, Audited, UserAuditPCs
  <2>3. \/ Become(w, Idle)
        \/ \E pc \in {"update.audit", "delete.audit", "assign.write"} :
              Become(w, [handler[w] EXCEPT !.pc = pc])
        \/ \E r \in Roles : Become(w, [handler[w] EXCEPT !.pc = "create.audit", !.role = r])
        \/ AssignRoles(w)
    BY <1>2 DEF CreateInsert, UpdateSave, DeleteRow, RoleAudit, AssignRoles, AssignCheck,
                AssignNotify, Finish, Goto
  <2>4. ASSUME NEW h, Become(w, h), h.pc \notin UserAuditPCs, h.pc # "profile.save"
        PROVE  UsersHold'
    BY <2>2, <2>4, UsersAlone
  <2>5. CASE Become(w, Idle)
    BY <2>4, <2>5 DEF Idle, UserAuditPCs
  <2>6. ASSUME NEW pc \in {"update.audit", "delete.audit", "assign.write"},
               Become(w, [handler[w] EXCEPT !.pc = pc])
        PROVE  UsersHold'
    <3>1. [handler[w] EXCEPT !.pc = pc].pc = pc
      BY <2>1 DEF Handler
    <3>2. QED
      BY <2>4, <2>6, <3>1 DEF UserAuditPCs
  <2>7. ASSUME NEW r \in Roles, Become(w, [handler[w] EXCEPT !.pc = "create.audit", !.role = r])
        PROVE  UsersHold'
    <3>1. [handler[w] EXCEPT !.pc = "create.audit", !.role = r].pc = "create.audit"
      BY <2>1 DEF Handler
    <3>2. QED
      BY <2>4, <2>7, <3>1 DEF UserAuditPCs
  <2>8. CASE AssignRoles(w)
    <3>1. PICK h : Become(w, h) /\ h.pc = "assign.check"
      BY <2>1, <2>8, RolesLocals
    <3>2. QED
      BY <2>4, <3>1 DEF UserAuditPCs
  <2>9. QED
    BY <2>3, <2>5, <2>6, <2>7, <2>8
<1>3. ASSUME NEW w \in Web, AssignWrite(w) PROVE UsersHold'
  <2> DEFINE u == handler[w].user
             r == handler[w].role
  <2>1. /\ u \in Users /\ handler[w] \in Handler /\ users \in [Users -> UserRow]
        /\ handler[w].pc \in UserPCs \ UserAuditPCs /\ UNCHANGED audited
    BY <1>3 DEF AssignWrite, At, IInv, Good, TablesOK, UserPCs, UserAuditPCs
  <2>2. CASE Finish(w) /\ UNCHANGED users
    BY <2>1, <2>2, UsersAlone DEF Finish, Idle, UserAuditPCs
  <2>3. CASE /\ users' = [users EXCEPT ![u].role = r, ![u].staff = r # None]
             /\ Goto(w, "assign.audit")
    <3> DEFINE h == [handler[w] EXCEPT !.pc = "assign.audit"]
    <3>1. Become(w, h) /\ h.pc = "assign.audit" /\ h.user = u /\ h.role = r
      BY <2>1, <2>3 DEF Goto, Handler
    <3>2. /\ \A v \in Users \ {u} : users'[v] = users[v]
          /\ users'[u].role = r /\ users'[u].active = users[u].active
      BY <2>1, <2>3 DEF UserRow
    <3> HIDE DEF h
    <3>3. QED
      BY <2>1, <3>1, <3>2, UserWritten
  <2>4. QED
    BY <1>3, <2>2, <2>3 DEF AssignWrite
<1>4. ASSUME NEW w \in Web, SetActiveWrite(w) PROVE UsersHold'
  <2> DEFINE u == handler[w].user
             h == [handler[w] EXCEPT !.pc = "active.audit"]
  <2>1. /\ u \in Users /\ handler[w] \in Handler /\ users \in [Users -> UserRow]
        /\ handler[w].pc \in UserPCs \ UserAuditPCs /\ UNCHANGED audited
    BY <1>4 DEF SetActiveWrite, At, IInv, Good, TablesOK, UserPCs, UserAuditPCs
  <2>2. Become(w, h) /\ h.pc = "active.audit" /\ h.user = u /\ h.row = handler[w].row
    BY <1>4, <2>1 DEF SetActiveWrite, Goto, Handler
  <2>3. /\ \A v \in Users \ {u} : users'[v] = users[v]
        /\ users'[u].role = users[u].role /\ users'[u].active = handler[w].row.active
    BY <1>4, <2>1 DEF SetActiveWrite, UserRow
  <2> HIDE DEF h
  <2>4. QED
    BY <2>1, <2>2, <2>3, UserWritten
<1>5. ASSUME NEW w \in Web, ProfileSave(w) PROVE UsersHold'
  <2> DEFINE u == handler[w].user
  <2>1. /\ u \in Users /\ users \in [Users -> UserRow]
        /\ handler[w].pc \in UserPCs \ UserAuditPCs /\ UNCHANGED audited
    BY <1>5 DEF ProfileSave, At, IInv, Good, TablesOK, UserPCs, UserAuditPCs
  <2>2. \A v \in Users \ {u} : users'[v] = users[v]
    BY <1>5, <2>1 DEF ProfileSave
  <2>3. u \notin contested => users[u] = handler[w].row
    BY <1>5, <2>1 DEF ProfileSave, At, UsersHold, UserHolds
  <2>4. u \notin contested => users'[u] = users[u]
    BY <1>5, <2>1, <2>3 DEF ProfileSave
  <2>5. Become(w, Idle) /\ Idle.pc = "idle"
    BY <1>5 DEF ProfileSave, Finish, Idle
  <2>6. QED
    BY <2>1, <2>2, <2>4, <2>5, UserWritten DEF UserAuditPCs
<1>6. ASSUME NEW w \in Web, AssignAudit(w) \/ SetActiveAudit(w) PROVE UsersHold'
  BY <1>6, UserAudited
<1>7. ASSUME NEW w \in Web, Crash(w) PROVE UsersHold'
  <2>1. handler[w].pc \in UserAuditPCs => handler[w].user \in contested'
    BY <1>7, AtWork DEF Crash, UserAuditPCs, AuditPCs, UserPCs, IInv, Good
  <2>2. Become(w, Idle) /\ UNCHANGED <<users, audited>>
    BY <1>7 DEF Crash, Finish
  <2>3. QED
    BY <2>1, <2>2, UsersAlone DEF Idle, UserAuditPCs
<1>8. QED
  BY <1>1, <1>2, <1>3, <1>4, <1>5, <1>6, <1>7 DEF Next, Step

(* No step makes an audit row lie about a role on which no clash is noted. *)
LEMMA NextRoles ==
    ASSUME IInv, OverlapSeen, Born, RolesHold, Next
    PROVE  RolesHold'
<1> USE NextClashes
<1>1. ASSUME NEW w \in Web, Arrive(w) PROVE RolesHold'
  <2>1. PICK h : Become(w, h) /\ Fresh(h)
    BY <1>1, Starts
  <2>2. UNCHANGED <<roles, audited>> /\ handler[w].pc \notin RoleAuditPCs
    BY <1>1, Starts DEF RoleAuditPCs
  <2>3. h.pc \notin RoleAuditPCs /\ (h.pc = "rename.save" => h.state = roles[h.role])
    BY <2>1 DEF Fresh
  <2>4. QED
    BY <2>1, <2>2, <2>3, RolesAlone
<1>2. ASSUME NEW w \in Web, NEW r \in Roles, CreateInsert(w, r) PROVE RolesHold'
  <2> DEFINE h == [handler[w] EXCEPT !.pc = "create.audit", !.role = r]
  <2>1. handler[w] \in Handler /\ roles \in [Roles -> RoleState] /\ handler[w].pc = "create.insert"
    BY <1>2 DEF CreateInsert, At, IInv, Good, TablesOK
  <2>2. Become(w, h) /\ h.pc = "create.audit" /\ h.role = r /\ h.state = handler[w].state
    BY <1>2, <2>1 DEF CreateInsert, Handler
  <2>3. \A v \in Web : handler[v].pc \in RolePCs => handler[v].role # r
    BY <1>2 DEF CreateInsert, Born
  <2>4. (\A q \in Roles \ {r} : roles'[q] = roles[q]) /\ roles'[r] = handler[w].state /\ UNCHANGED audited
    BY <1>2, <2>1 DEF CreateInsert
  <2> HIDE DEF h
  <2>5. h.pc \in RoleAuditPCs /\ h.pc # "rename.save" /\ handler[w].pc \notin RoleAuditPCs
    BY <2>1, <2>2 DEF RoleAuditPCs
  <2>6. QED
    BY <2>2, <2>3, <2>4, <2>5, RoleWritten
<1>3. ASSUME NEW w \in Web, UpdateSave(w) PROVE RolesHold'
  <2> DEFINE r == handler[w].role
  <2>1. /\ handler[w] \in Handler /\ roles \in [Roles -> RoleState] /\ r \in Roles
        /\ handler[w].pc \in RolePCs \ RoleAuditPCs /\ UNCHANGED audited
    BY <1>3 DEF UpdateSave, At, IInv, Good, TablesOK, RolePCs, RoleAuditPCs
  <2>2. r \notin contested =>
            \A v \in Web \ {w} : handler[v].pc \in RolePCs => handler[v].role # r
    BY <2>1, TwoOnRole
  <2>3. (\A q \in Roles \ {r} : roles'[q] = roles[q]) /\ roles'[r] = handler[w].state
    BY <1>3, <2>1 DEF UpdateSave
  <2>4. CASE At(w, "rename.save") /\ Finish(w)
    <3>1. r \notin contested => roles'[r] = roles[r]
      BY <2>1, <2>3, <2>4 DEF RolesHold, RoleHolds
    <3>2. Become(w, Idle) /\ Idle.pc \notin RoleAuditPCs /\ Idle.pc # "rename.save"
      BY <2>4 DEF Finish, Idle, RoleAuditPCs
    <3>3. QED
      BY <2>1, <2>2, <2>3, <3>1, <3>2, RoleWritten
  <2>5. CASE At(w, "update.save") /\ Goto(w, "update.audit")
    <3> DEFINE h == [handler[w] EXCEPT !.pc = "update.audit"]
    <3>1. Become(w, h) /\ h.pc = "update.audit" /\ h.role = r /\ h.state = handler[w].state
      BY <2>1, <2>5 DEF Goto, Handler
    <3> HIDE DEF h
    <3>2. h.pc \in RoleAuditPCs /\ h.pc # "rename.save"
      BY <3>1 DEF RoleAuditPCs
    <3>3. QED
      BY <2>1, <2>2, <2>3, <3>1, <3>2, RoleWritten
  <2>6. QED
    BY <1>3, <2>4, <2>5 DEF UpdateSave
<1>4. ASSUME NEW w \in Web, DeleteRow(w) PROVE RolesHold'
  <2> DEFINE r == handler[w].role
  <2>1. /\ handler[w] \in Handler /\ roles \in [Roles -> RoleState] /\ r \in Roles
        /\ handler[w].pc \in RolePCs \ RoleAuditPCs /\ UNCHANGED audited
    BY <1>4 DEF DeleteRow, At, IInv, Good, TablesOK, RolePCs, RoleAuditPCs
  <2>2. CASE Finish(w) /\ UNCHANGED roles
    BY <2>1, <2>2, RolesAlone DEF Finish, Idle, RoleAuditPCs
  <2>3. CASE roles' = [roles EXCEPT ![r] = "deleted"] /\ Goto(w, "delete.audit")
    <3> DEFINE h == [handler[w] EXCEPT !.pc = "delete.audit"]
    <3>1. Become(w, h) /\ h.pc = "delete.audit" /\ h.role = r /\ h.state = handler[w].state
      BY <2>1, <2>3 DEF Goto, Handler
    <3>2. handler[w].state = "deleted"
      BY <1>4 DEF DeleteRow, At, IInv, Good, Writable
    <3>3. (\A q \in Roles \ {r} : roles'[q] = roles[q]) /\ roles'[r] = handler[w].state
      BY <2>1, <2>3, <3>2
    <3>4. r \notin contested =>
              \A v \in Web \ {w} : handler[v].pc \in RolePCs => handler[v].role # r
      BY <2>1, TwoOnRole
    <3> HIDE DEF h
    <3>5. h.pc \in RoleAuditPCs /\ h.pc # "rename.save"
      BY <3>1 DEF RoleAuditPCs
    <3>6. QED
      BY <2>1, <3>1, <3>3, <3>4, <3>5, RoleWritten
  <2>4. QED
    BY <1>4, <2>2, <2>3 DEF DeleteRow
<1>5. ASSUME NEW w \in Web, RoleAudit(w) PROVE RolesHold'
  BY <1>5, RoleAudited
<1>6. ASSUME NEW w \in Web,
             \/ AssignRoles(w) \/ AssignCheck(w) \/ AssignWrite(w) \/ AssignAudit(w)
             \/ AssignNotify(w) \/ SetActiveWrite(w) \/ SetActiveAudit(w) \/ ProfileSave(w)
      PROVE  RolesHold'
  <2>1. handler[w] \in Handler /\ audited \in Audited
    BY DEF IInv, Good, TablesOK
  <2>2. UNCHANGED roles /\ audited'.state = audited.state /\ handler[w].pc \notin RoleAuditPCs
    BY <1>6, <2>1 DEF AssignRoles, AssignCheck, AssignWrite, AssignAudit, AssignNotify,
                      SetActiveWrite, SetActiveAudit, ProfileSave, At, Audited, RoleAuditPCs
  <2>3. ASSUME NEW h, Become(w, h), h.pc \notin RoleAuditPCs, h.pc # "rename.save"
        PROVE  RolesHold'
    BY <2>2, <2>3, RolesAlone
  <2>4. CASE Finish(w)
    BY <2>3, <2>4 DEF Finish, Idle, RoleAuditPCs
  <2>5. ASSUME NEW pc \in UserPCs, Goto(w, pc)
        PROVE  RolesHold'
    <3>1. [handler[w] EXCEPT !.pc = pc].pc = pc
      BY <2>1 DEF Handler
    <3>2. QED
      BY <2>3, <2>5, <3>1 DEF Goto, UserPCs, RoleAuditPCs
  <2>6. CASE AssignRoles(w)
    <3>1. PICK h : Become(w, h) /\ h.pc = "assign.check"
      BY <2>1, <2>6, RolesLocals
    <3>2. QED
      BY <2>3, <3>1 DEF RoleAuditPCs
  <2>7. AssignRoles(w) \/ Finish(w) \/ \E pc \in UserPCs : Goto(w, pc)
    BY <1>6 DEF AssignCheck, AssignWrite, AssignAudit, AssignNotify, SetActiveWrite,
                SetActiveAudit, ProfileSave, UserPCs
  <2>8. QED
    BY <2>4, <2>5, <2>6, <2>7
<1>7. ASSUME NEW w \in Web, Crash(w) PROVE RolesHold'
  <2>1. handler[w].pc \in RoleAuditPCs => handler[w].role \in contested'
    BY <1>7, AtWork DEF Crash, RoleAuditPCs, AuditPCs, RolePCs, IInv, Good
  <2>2. Become(w, Idle) /\ UNCHANGED <<roles, audited>>
    BY <1>7 DEF Crash, Finish
  <2>3. QED
    BY <2>1, <2>2, RolesAlone DEF Idle, RoleAuditPCs
<1>8. QED
  BY <1>1, <1>2, <1>3, <1>4, <1>5, <1>6, <1>7 DEF Next, Step

-----------------------------------------------------------------------------
(* The invariant behind the audit log. *)
AuditInv == IInv /\ OverlapSeen /\ Born /\ UsersHold /\ RolesHold

(* After deployment the audit rows are true and nobody is at work. *)
LEMMA AuditInitial == Init => AuditInv
<1> SUFFICES ASSUME Init PROVE AuditInv
  OBVIOUS
<1>1. \A w \in Web : handler[w] = Idle
  BY DEF Init
<1>2. OverlapSeen
  BY <1>1, IdleHasNoSubject DEF OverlapSeen
<1>3. Born
  BY <1>1 DEF Born, Idle, RolePCs
<1>4. UsersHold
  <2>1. \A u \in Users : audited.active[u] = users[u].active /\ audited.role[u] = users[u].role
    BY DEF Init, Nobody
  <2>2. \A w \in Web : handler[w].pc = "idle"
    BY <1>1 DEF Idle
  <2>3. QED
    BY <2>1, <2>2 DEF UsersHold, UserHolds, At
<1>5. RolesHold
  BY <1>1 DEF Init, RolesHold, RoleHolds, At, Idle, RoleAuditPCs
<1>6. QED
  BY <1>2, <1>3, <1>4, <1>5, Initial DEF AuditInv

(* Every step keeps the invariant behind the audit log. *)
LEMMA AuditInductive == AuditInv /\ [Next]_vars => AuditInv'
<1>1. AuditInv /\ Next => AuditInv'
  BY Inductive, NextClashes, NextBorn, NextUsers, NextRoles DEF AuditInv
<1>2. AuditInv /\ UNCHANGED vars => AuditInv'
  <2> SUFFICES ASSUME AuditInv, UNCHANGED vars PROVE AuditInv'
    OBVIOUS
  <2>1. IInv'
    BY Inductive DEF AuditInv
  <2>2. OverlapSeen' /\ Born'
    BY DEF AuditInv, vars, OverlapSeen, Born, Subjects
  <2>3. UsersHold' /\ RolesHold'
    BY DEF AuditInv, vars, UsersHold, UserHolds, RolesHold, RoleHolds, At
  <2>4. QED
    BY <2>1, <2>2, <2>3 DEF AuditInv
<1>3. QED
  BY <1>1, <1>2

(* When nobody is at work on a row, no audit row of it is owed. *)
LEMMA AuditImplies == AuditInv => AuditTellsTheTruth
<1> SUFFICES ASSUME AuditInv PROVE AuditTellsTheTruth
  OBVIOUS
<1>1. ASSUME NEW u \in Users \ contested, Settled(u)
      PROVE  audited.role[u] = users[u].role /\ audited.active[u] = users[u].active
  <2>1. \A w \in Web : handler[w].pc \in UserPCs => handler[w].user # u
    BY <1>1, AtWork DEF Settled
  <2>2. QED
    BY <1>1, <2>1 DEF AuditInv, UsersHold, UserHolds, At, UserPCs
<1>2. ASSUME NEW r \in Roles \ contested, Settled(r)
      PROVE  audited.state[r] = roles[r]
  <2>1. \A w \in Web : handler[w].pc \in RolePCs => handler[w].role # r
    BY <1>2, AtWork DEF Settled
  <2>2. QED
    BY <1>2, <2>1 DEF AuditInv, RolesHold, RoleHolds, RoleAuditPCs, RolePCs
<1>3. QED
  BY <1>1, <1>2 DEF AuditTellsTheTruth

(* The newest audit rows say who holds which role, who is suspended and    *)
(* which roles there are, unless two calls overlapped on the row or a      *)
(* process died between a write and its audit row (every admin action of   *)
(* admin_services.py and admin_views.py writes the row and then records    *)
(* it).                                                                    *)
THEOREM AuditIsTrue == Spec => []AuditTellsTheTruth
<1>1. Spec => []AuditInv
  BY AuditInitial, AuditInductive, PTL DEF Spec
<1>2. QED
  BY <1>1, AuditImplies, PTL

-----------------------------------------------------------------------------
(* Who can manage roles. *)

(* A step of another handler that takes no role from a user and leaves     *)
(* every role a user holds as it is takes nothing from what h knows.       *)
HoldersStay ==
    /\ \A u \in Users : users'[u].role = users[u].role
    /\ \A r \in Roles : \/ roles'[r] = roles[r]
                        \/ roles[r] = "unborn"
                        \/ roles'[r] = "deleted" /\ \A u \in Users : users[u].role # r

(* Such a step changes the state of no role that is held. *)
LEMMA HoldersKept ==
    ASSUME IInv, HoldersStay, NEW u \in Users
    PROVE  StateOf(users[u].role)' = StateOf(users[u].role)
BY DEF IInv, TablesOK, UserRow, StaffHoldRoles, StateOf, Live, HoldersStay

(* What a handler knows survives such a step of another one. *)
LEMMA KnowsKept ==
    ASSUME IInv, HoldersStay, NEW h, Knows(h),
           h.pc \in UserPCs => h.user \in Users,
           h.role \in Roles \cup {None},
           h.pc = "rename.save" => h.role \in Roles /\ roles[h.role] # "unborn"
    PROVE  Knows(h)'
<1>1. \A u \in Users : /\ users'[u].role = users[u].role
                       /\ StateOf(users[u].role)' = StateOf(users[u].role)
  BY HoldersKept DEF HoldersStay
<1>2. ASSUME NEW state, h.role \in Roles, roles[h.role] # "unborn", StillIs(h.role, state)
      PROVE  StillIs(h.role, state)' /\ StateOf(h.role)' \in {StateOf(h.role), "deleted"}
  BY <1>2, RolesAssumption DEF StillIs, StateOf, HoldersStay
<1>3. h.pc = "rename.save" => StillIs(h.role, h.state)'
  BY <1>2 DEF Knows
<1>4. h.pc = "profile.save" => h.row.role = users'[h.user].role
  BY <1>1 DEF Knows, UserPCs
<1>5. ASSUME h.pc \in {"assign.roles", "assign.check", "assign.write"}
      PROVE  /\ h.was = StateOf(users[h.user].role)'
             /\ h.role # None => StillIs(h.role, h.state)' /\ StateOf(h.role)' # "unborn"
             /\ h.role = None => h.state = "unborn"
  <2>1. h.user \in Users
    BY <1>5 DEF UserPCs
  <2>2. h.was = StateOf(users[h.user].role)'
    BY <1>1, <1>5, <2>1 DEF Knows
  <2>3. h.role # None => /\ h.role \in Roles /\ roles[h.role] # "unborn"
                         /\ StillIs(h.role, h.state) /\ StateOf(h.role) # "unborn"
    BY <1>5 DEF Knows, StateOf
  <2>4. QED
    BY <1>2, <1>5, <2>2, <2>3 DEF Knows
<1>6. h.pc = "assign.write" /\ h.was = "manager" /\ h.state # "manager" =>
          \E v \in Users \ {h.user} : StateOf(users[v].role)' = "manager"
  BY <1>1 DEF Knows
<1>7. h.pc = "assign.check" =>
          \A v \in Users : users'[v].role \in h.managing => StateOf(users[v].role)' = "manager"
  BY <1>1 DEF Knows
<1>8. QED
  BY <1>3, <1>4, <1>5, <1>6, <1>7 DEF Knows

(* Nobody else is at work on who can manage roles when a handler that is   *)
(* writes, unless that is noted.                                           *)
LEMMA ManageMoved ==
    ASSUME IInv, OverlapSeen, Born, ManageHolds, NEW w \in Web, NEW h, Become(w, h),
           contested \subseteq contested',
           "roles.manage" \notin contested => Knows(h)',
           HoldersStay \/ handler[w].pc \in ManagePCs
    PROVE  ManageHolds'
<1> SUFFICES ASSUME "roles.manage" \notin contested', NEW v \in Web
             PROVE  Knows(handler[v])'
  BY DEF ManageHolds
<1>1. "roles.manage" \notin contested /\ Knows(handler[v]) /\ Knows(h)'
  BY DEF ManageHolds
<1>2. handler'[v] = IF v = w THEN h ELSE handler[v]
  BY Moved
<1>3. CASE v = w
  BY <1>1, <1>2, <1>3 DEF Knows
<1>4. ASSUME v # w, handler[w].pc \in ManagePCs PROVE Knows(handler[v])'
  <2>1. handler'[v].pc \notin ManagePCs
    BY <1>1, <1>2, <1>4, TwoManage
  <2>2. QED
    BY <2>1 DEF Knows, ManagePCs
<1>5. ASSUME v # w, HoldersStay PROVE Knows(handler[v])'
  <2>1. /\ handler[v].pc \in UserPCs => handler[v].user \in Users
        /\ handler[v].role \in Roles \cup {None}
        /\ handler[v].pc = "rename.save" =>
              handler[v].role \in Roles /\ roles[handler[v].role] # "unborn"
    BY DEF IInv, Good, Handler, Born, RolePCs
  <2>2. ASSUME NEW g, g = handler[v], g = handler'[v] PROVE Knows(handler[v])'
    <3>1. Knows(g)'
      BY <1>1, <1>5, <2>1, <2>2, KnowsKept
    <3>2. QED
      BY <2>2, <3>1 DEF Knows
  <2>3. QED
    BY <1>2, <1>5, <2>2
<1>6. QED
  BY <1>3, <1>4, <1>5

(* No step leaves a handler with outdated knowledge that nobody noted. *)
LEMMA NextManage ==
    ASSUME IInv, OverlapSeen, Born, ManageHolds, Next
    PROVE  ManageHolds'
<1> USE NextClashes
<1>0. \A h : h.pc \notin ManagePCs => Knows(h)'
  BY DEF Knows, ManagePCs
<1>1. ASSUME NEW w \in Web, Arrive(w) PROVE ManageHolds'
  <2>1. PICK h : Become(w, h) /\ Fresh(h)
    BY <1>1, Starts
  <2>2. UNCHANGED <<roles, users>>
    BY <1>1, Starts
  <2>3. Knows(h)' /\ HoldersStay
    BY <2>1, <2>2 DEF Fresh, Knows, StillIs, StateOf, HoldersStay
  <2>4. QED
    BY <2>1, <2>3, ManageMoved
<1>2. ASSUME NEW w \in Web,
             \/ (\E r \in Roles : CreateInsert(w, r)) \/ DeleteRow(w) \/ RoleAudit(w)
             \/ AssignAudit(w) \/ AssignNotify(w) \/ SetActiveWrite(w) \/ SetActiveAudit(w)
             \/ Crash(w) \/ UpdateSave(w) \/ AssignWrite(w) \/ ProfileSave(w)
      PROVE  ManageHolds'
  <2>1. handler[w] \in Handler /\ roles \in [Roles -> RoleState] /\ users \in [Users -> UserRow]
    BY DEF IInv, Good, TablesOK
  <2>2. HoldersStay \/ handler[w].pc \in ManagePCs
    <3>1. CASE UNCHANGED <<roles, users>>
      BY <3>1 DEF HoldersStay
    <3>2. CASE \E r \in Roles : CreateInsert(w, r)
      BY <2>1, <3>2 DEF CreateInsert, HoldersStay
    <3>3. CASE DeleteRow(w)
      BY <2>1, <3>3 DEF DeleteRow, HoldersStay
    <3>4. CASE SetActiveWrite(w)
      BY <2>1, <3>4 DEF SetActiveWrite, HoldersStay, UserRow
    <3>5. CASE UpdateSave(w) \/ AssignWrite(w) \/ ProfileSave(w)
      BY <3>5 DEF UpdateSave, AssignWrite, ProfileSave, At, ManagePCs
    <3>6. QED
      BY <1>2, <3>1, <3>2, <3>3, <3>4, <3>5
         DEF RoleAudit, AssignAudit, AssignNotify, SetActiveAudit, Crash
  <2>3. ASSUME NEW h, Become(w, h), h.pc \notin ManagePCs PROVE ManageHolds'
    BY <1>0, <2>2, <2>3, ManageMoved
  <2>4. CASE Finish(w)
    BY <2>3, <2>4 DEF Finish, Idle, ManagePCs
  <2>5. ASSUME NEW pc \in AuditPCs \cup {"assign.notify"}, Goto(w, pc) PROVE ManageHolds'
    <3>1. [handler[w] EXCEPT !.pc = pc].pc = pc
      BY <2>1 DEF Handler
    <3>2. QED
      BY <2>3, <2>5, <3>1 DEF Goto, AuditPCs, ManagePCs
  <2>6. ASSUME NEW r \in Roles, CreateInsert(w, r) PROVE ManageHolds'
    <3>1. [handler[w] EXCEPT !.pc = "create.audit", !.role = r].pc = "create.audit"
      BY <2>1 DEF Handler
    <3>2. QED
      BY <2>3, <2>6, <3>1 DEF CreateInsert, ManagePCs
  <2>7. \/ Finish(w) \/ (\E pc \in AuditPCs \cup {"assign.notify"} : Goto(w, pc))
        \/ \E r \in Roles : CreateInsert(w, r)
    BY <1>2 DEF DeleteRow, RoleAudit, AssignAudit, AssignNotify, SetActiveWrite, SetActiveAudit,
                Crash, UpdateSave, AssignWrite, ProfileSave, AuditPCs
  <2>8. QED
    BY <2>4, <2>5, <2>6, <2>7
<1>3. ASSUME NEW w \in Web, AssignCheck(w) PROVE ManageHolds'
  <2>1. /\ handler[w] \in Handler /\ At(w, "assign.check") /\ UNCHANGED <<roles, users>>
        /\ HoldersStay
    BY <1>3 DEF AssignCheck, IInv, Good, HoldersStay
  <2>2. CASE Finish(w)
    BY <1>0, <2>1, <2>2, ManageMoved DEF Finish, Idle, ManagePCs
  <2>3. CASE /\ \/ handler[w].state = "manager"
                \/ \E v \in Users \ {handler[w].user} : users[v].role \in handler[w].managing
             /\ Goto(w, "assign.write")
    <3>1. PICK h : /\ Become(w, h) /\ h.pc = "assign.write"
                   /\ h.user = handler[w].user /\ h.role = handler[w].role
                   /\ h.was = handler[w].was /\ h.state = handler[w].state
      BY <2>1, <2>3 DEF Goto, Handler
    <3>2. Knows(handler[w]) => Knows(h)
      BY <2>1, <2>3, <3>1 DEF Knows, At
    <3>3. Knows(h) => Knows(h)'
      BY <2>1, <3>1 DEF Knows, StillIs, StateOf
    <3>4. "roles.manage" \notin contested => Knows(h)'
      BY <3>2, <3>3 DEF ManageHolds
    <3>5. QED
      BY <2>1, <3>1, <3>4, ManageMoved
  <2>4. QED
    BY <1>3, <2>2, <2>3 DEF AssignCheck
<1>4. ASSUME NEW w \in Web, AssignRoles(w) PROVE ManageHolds'
  <2>1. /\ handler[w] \in Handler /\ At(w, "assign.roles") /\ UNCHANGED <<roles, users>>
        /\ HoldersStay
    BY <1>4 DEF AssignRoles, IInv, Good, HoldersStay
  <2>2. PICK h : /\ Become(w, h) /\ h.pc = "assign.check"
                 /\ h.user = handler[w].user /\ h.role = handler[w].role
                 /\ h.was = handler[w].was /\ h.state = handler[w].state
                 /\ h.managing = {r \in Roles : roles[r] = "manager"}
    BY <1>4, <2>1, RolesLocals
  <2>3. \A v \in Users : users[v].role \in h.managing => StateOf(users[v].role) = "manager"
    BY <2>2, RolesAssumption DEF StateOf
  <2>4. Knows(handler[w]) => Knows(h)
    BY <2>1, <2>2, <2>3 DEF Knows, At
  <2>5. Knows(h) => Knows(h)'
    BY <2>1, <2>2 DEF Knows, StillIs, StateOf
  <2>6. "roles.manage" \notin contested => Knows(h)'
    BY <2>4, <2>5 DEF ManageHolds
  <2>7. QED
    BY <2>1, <2>2, <2>6, ManageMoved
<1>5. QED
  BY <1>1, <1>2, <1>3, <1>4 DEF Next, Step

(* A step that takes away the last one who can manage roles. *)
LEMMA Lockout ==
    ASSUME IInv, ManageHolds, Next, SomeManager, ~SomeManager', "roles.manage" \notin contested
    PROVE  \/ \E w \in Web : Leaves(w, "update.save") \/ Leaves(w, "active.write")
           \/ Managers' # {}
<1>1. PICK m \in Users : users[m].active /\ StateOf(users[m].role) = "manager"
  BY DEF SomeManager, CanManage
<1>2. ~(HoldersStay /\ \A u \in Users : users'[u].active = users[u].active)
  BY <1>1, HoldersKept DEF SomeManager, CanManage
<1>3. ~UNCHANGED <<roles, users>>
  BY <1>2 DEF HoldersStay
<1>4. handler \in [Web -> Handler] /\ roles \in [Roles -> RoleState] /\ users \in [Users -> UserRow]
  BY DEF IInv, TablesOK
<1>5. ASSUME NEW w \in Web, NEW r \in Roles, CreateInsert(w, r) PROVE FALSE
  BY <1>2, <1>4, <1>5 DEF CreateInsert, HoldersStay
<1>6. ASSUME NEW w \in Web, DeleteRow(w) PROVE FALSE
  BY <1>2, <1>4, <1>6 DEF DeleteRow, HoldersStay
<1>7. ASSUME NEW w \in Web, SetActiveWrite(w) PROVE Leaves(w, "active.write")
  BY <1>4, <1>7 DEF SetActiveWrite, Leaves, At, Goto, Become, Handler
<1>8. ASSUME NEW w \in Web, UpdateSave(w) PROVE Leaves(w, "update.save")
  <2>1. CASE At(w, "rename.save")
    <3>1. /\ handler[w].role \in Roles
          /\ roles' = [roles EXCEPT ![handler[w].role] = handler[w].state] /\ UNCHANGED users
          /\ roles[handler[w].role] \in {handler[w].state, "deleted"}
      BY <1>8, <2>1, RolesAssumption
         DEF UpdateSave, At, IInv, Good, RolePCs, ManageHolds, Knows, StillIs, StateOf
    <3>2. StateOf(users[m].role)' = "manager"
      BY <1>1, <1>4, <3>1 DEF StateOf
    <3>3. QED
      BY <1>1, <3>1, <3>2 DEF SomeManager, CanManage
  <2>2. CASE At(w, "update.save") /\ Goto(w, "update.audit")
    BY <1>4, <2>2 DEF Leaves, At, Goto, Become, Handler
  <2>3. QED
    BY <1>8, <2>1, <2>2 DEF UpdateSave
<1>9. ASSUME NEW w \in Web, AssignWrite(w) PROVE Managers' # {}
  <2> DEFINE u == handler[w].user
             r == handler[w].role
  <2>1. /\ u \in Users /\ UNCHANGED roles /\ Knows(handler[w]) /\ handler[w].pc = "assign.write"
        /\ users' = [users EXCEPT ![u].role = r, ![u].staff = r # None]
        /\ r = None \/ StateOf(r) \in Live
    BY <1>3, <1>9 DEF AssignWrite, At, IInv, Good, UserPCs, ManageHolds
  <2>2. /\ users'[u].role = r /\ users'[u].active = users[u].active
        /\ \A v \in Users \ {u} : users'[v] = users[v]
    BY <1>4, <2>1 DEF UserRow
  <2>3. m = u
    <3>1. SUFFICES ASSUME m # u PROVE FALSE
      OBVIOUS
    <3>2. users'[m] = users[m]
      BY <2>2, <3>1
    <3>3. CanManage(m)'
      BY <1>1, <2>1, <3>2 DEF CanManage, StateOf
    <3>4. QED
      BY <3>3 DEF SomeManager
  <2>4. handler[w].was = "manager"
    BY <1>1, <2>1, <2>3 DEF Knows
  <2>5. handler[w].state # "manager"
    <3>1. SUFFICES ASSUME handler[w].state = "manager" PROVE FALSE
      OBVIOUS
    <3>2. StateOf(r) = "manager"
      BY <2>1, <3>1 DEF Knows, StillIs, Live
    <3>3. QED
      BY <1>1, <2>1, <2>2, <2>3, <3>2 DEF SomeManager, CanManage, StateOf
  <2>6. PICK v \in Users \ {u} : StateOf(users[v].role) = "manager"
    BY <2>1, <2>4, <2>5 DEF Knows
  <2>7. QED
    BY <2>1, <2>2, <2>6 DEF Managers, StateOf
<1>10. ASSUME NEW w \in Web, ProfileSave(w) PROVE Managers' # {}
  <2> DEFINE u == handler[w].user
             row == handler[w].row
  <2>1. /\ u \in Users /\ UNCHANGED roles /\ row.role = users[u].role
        /\ users' = [users EXCEPT ![u] = row]
    BY <1>3, <1>10 DEF ProfileSave, At, IInv, Good, UserPCs, ManageHolds, Knows
  <2>2. \A v \in Users : users'[v].role = users[v].role
    BY <1>4, <2>1
  <2>3. QED
    BY <1>1, <2>1, <2>2 DEF Managers, StateOf
<1>11. ASSUME NEW w \in Web,
              \/ Arrive(w) \/ RoleAudit(w) \/ AssignRoles(w) \/ AssignCheck(w) \/ AssignAudit(w)
              \/ AssignNotify(w) \/ SetActiveAudit(w) \/ Crash(w)
       PROVE  FALSE
  BY <1>3, <1>11, Starts
     DEF RoleAudit, AssignRoles, AssignCheck, AssignAudit, AssignNotify, SetActiveAudit, Crash
<1>12. QED
  BY <1>5, <1>6, <1>7, <1>8, <1>9, <1>10, <1>11 DEF Next, Step

(* After deployment nobody carries any knowledge. *)
LEMMA ManageInitial == Init => ManageHolds
BY DEF Init, ManageHolds, Knows, Idle

(* Every step keeps the knowledge. *)
LEMMA ManageInductive == AuditInv /\ ManageHolds /\ [Next]_vars => ManageHolds'
<1>1. AuditInv /\ ManageHolds /\ Next => ManageHolds'
  BY NextManage DEF AuditInv
<1>2. ManageHolds /\ UNCHANGED vars => ManageHolds'
  BY DEF vars, ManageHolds, Knows, StillIs, StateOf
<1>3. QED
  BY <1>1, <1>2

(* last_role_manager: the last user who can manage roles is lost in no way *)
(* but the listed ones, for any users, roles, processes and crashes.       *)
THEOREM LockoutsAreNamed == Spec => LockoutsAreKnown
<1>1. AuditInv /\ ManageHolds /\ [Next]_vars =>
          [SomeManager /\ ~SomeManager' =>
              \/ \E w \in Web : Leaves(w, "update.save") \/ Leaves(w, "active.write")
              \/ Managers' # {}
              \/ "roles.manage" \in contested]_vars
  BY Lockout DEF AuditInv
<1>2. Spec => [](AuditInv /\ ManageHolds)
  BY AuditInitial, AuditInductive, ManageInitial, ManageInductive, PTL DEF Spec
<1>3. QED
  BY <1>1, <1>2, PTL DEF Spec, LockoutsAreKnown
=============================================================================

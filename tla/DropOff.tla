------------------------------- MODULE DropOff -------------------------------
(***************************************************************************)
(* Drop-off points (apps/dropoff): staff create, edit and delete them and  *)
(* assign their managers, an approved partner gets one, and the parties of *)
(* an exchange agree to meet at one (apps/exchanges/services.py).          *)
(*                                                                         *)
(* As in Marketplace a handler reads first and writes later, one           *)
(* autocommitted statement or transaction at a time.  Who may see a point  *)
(* is decided when it is read, and left out here.                          *)
(***************************************************************************)
EXTENDS Naturals, FiniteSets

CONSTANTS
    Users,      \* who may manage a point
    Points,     \* primary keys of drop-off points
    Exchanges,  \* exchanges that are scheduled
    Values,     \* what a column of a point may hold
    Web,        \* processes that serve HTTP requests
    Crashes,    \* may a process die in the middle of a handler?
    None

ASSUME NoneAssumption == None \notin Users \cup Points \cup Exchanges \cup Values
ASSUME CrashesAssumption == Crashes \in BOOLEAN

VARIABLES
    points,    \* table dropoff_dropoffpoint: a row, or None
    managers,  \* table dropoff_dropoffpoint_managers: <<point, user>>
    meeting,   \* column dropoff_point of the exchanges
    logged,    \* the managers the last audit row about a point stands for, or None
    handler,   \* what each process is in the middle of
    asked,     \* history: what the calls that came through asked for, in turn
    gone,      \* history: points that were deleted
    clashed    \* history: where calls overlapped or died

tables == <<points, managers, meeting, logged>>
vars == <<points, managers, meeting, logged, handler, asked, gone, clashed>>
-----------------------------------------------------------------------------
(* Of the columns, two: the place (name, address, location) and its        *)
(* coordinator.                                                            *)
Columns == {"place", "coordinator"}
Row == [Columns -> Values]

ASSUME RowAssumption == None \notin Row
ASSUME ListAssumption == \A users \in SUBSET Users : users # None

PCs == {"idle", "patch.save", "destroy.write", "assign.read", "assign.write",
        "assign.audit", "approve.add", "approve.audit", "schedule.save"}

(* row: the instance that patch saves, col the column it set.  users: the  *)
(* managers to be, existing those there are.  names: does the call name a  *)
(* point, or does it only change the time?                                 *)
Handler == [pc: PCs, point: Points \cup {None}, exch: Exchanges \cup {None},
            row: Row \cup {None}, col: Columns \cup {None},
            users: SUBSET Users, existing: SUBSET Users, names: BOOLEAN]

Idle == [pc |-> "idle", point |-> None, exch |-> None, row |-> None, col |-> None,
         users |-> {}, existing |-> {}, names |-> FALSE]

Init ==
    /\ points = [p \in Points |-> None]
    /\ managers = {}
    /\ meeting = [e \in Exchanges |-> None]
    /\ logged = [p \in Points |-> None]
    /\ handler = [w \in Web |-> Idle]
    /\ asked = [rows |-> [p \in Points |-> None], meeting |-> [e \in Exchanges |-> None]]
    /\ gone = {}
    /\ clashed = {}

At(w, pc) == handler[w].pc = pc
Become(w, h) == handler' = [handler EXCEPT ![w] = h]
Goto(w, pc) == Become(w, [handler[w] EXCEPT !.pc = pc])
Finish(w) == Become(w, Idle)

Present(p) == points[p] # None
ManagersOf(p) == {u \in Users : <<p, u>> \in managers}

-----------------------------------------------------------------------------
(* POST, PATCH and DELETE /admin/dropoff-points/.                          *)

(* INSERT, with a primary key that was never used. *)
Insert(p, row) ==
    /\ ~Present(p) /\ p \notin gone
    /\ points' = [points EXCEPT ![p] = row]
    /\ asked' = [asked EXCEPT !.rows[p] = row]

Create(p, row) ==
    /\ Insert(p, row)
    /\ UNCHANGED <<managers, meeting, logged, handler, gone>>

PatchBegin(w, p, col, v) ==
    /\ At(w, "idle")
    /\ Present(p)
    /\ Become(w, [Idle EXCEPT !.pc = "patch.save", !.point = p, !.col = col,
                              !.row = [points[p] EXCEPT ![col] = v]])
    /\ UNCHANGED <<tables, asked, gone>>

(* save() without update_fields: an UPDATE of every column or, when there  *)
(* is no such row any more, an INSERT of it.                               *)
PatchSave(w) ==
    LET h == handler[w] IN
    /\ At(w, "patch.save")
    /\ points' = [points EXCEPT ![h.point] = h.row]
    /\ asked' = [asked EXCEPT !.rows[h.point] =
                    IF @ = None THEN h.row ELSE [@ EXCEPT ![h.col] = h.row[h.col]]]
    /\ Finish(w)
    /\ UNCHANGED <<managers, meeting, logged, gone>>

DestroyBegin(w, p) ==
    /\ At(w, "idle")
    /\ Present(p)
    /\ Become(w, [Idle EXCEPT !.pc = "destroy.write", !.point = p])
    /\ UNCHANGED <<tables, asked, gone>>

(* One transaction: the exchanges lose their reference (SET_NULL), the     *)
(* managers' rows and the point go.                                        *)
DestroyWrite(w) ==
    LET p == handler[w].point IN
    /\ At(w, "destroy.write")
    /\ points' = [points EXCEPT ![p] = None]
    /\ managers' = {m \in managers : m[1] # p}
    /\ meeting' = [e \in Exchanges |-> IF meeting[e] = p THEN None ELSE meeting[e]]
    /\ asked' = [asked EXCEPT !.rows[p] = None,
                    !.meeting = [e \in Exchanges |-> IF @[e] = p THEN None ELSE @[e]]]
    /\ gone' = gone \cup {p}
    /\ Finish(w)
    /\ UNCHANGED logged

-----------------------------------------------------------------------------
(* POST /admin/dropoff-points/{id}/assign-managers/.                       *)

AssignBegin(w, p, users) ==
    /\ At(w, "idle")
    /\ Present(p)
    /\ Become(w, [Idle EXCEPT !.pc = "assign.read", !.point = p, !.users = users])
    /\ UNCHANGED <<tables, asked, gone>>

(* managers.set() is a transaction, but reads the managers first and locks *)
(* nothing: another may commit in between.                                 *)
AssignRead(w) ==
    /\ At(w, "assign.read")
    /\ Become(w, [handler[w] EXCEPT !.pc = "assign.write",
                                    !.existing = ManagersOf(handler[w].point)])
    /\ UNCHANGED <<tables, asked, gone>>

(* managers.add(). *)
AssignAdd_mut(w) ==
    LET p == handler[w].point IN
    /\ At(w, "assign.write")
    /\ Present(p)
    /\ managers' = managers \cup ({p} \X handler[w].users)
    /\ Goto(w, "assign.audit")
    /\ UNCHANGED <<points, meeting, logged, asked, gone>>

(* managers.set() and, to be safe, point.save(). *)
AssignSave_mut(w) ==
    LET p == handler[w].point IN
    /\ At(w, "assign.write")
    /\ managers' = {m \in managers : m[1] # p} \cup ({p} \X handler[w].users)
    /\ points' = IF Present(p) THEN points
                 ELSE [points EXCEPT ![p] = CHOOSE row \in Row : TRUE]
    /\ Goto(w, "assign.audit")
    /\ UNCHANGED <<meeting, logged, asked, gone>>

(* It removes those who are not to be managers and adds those who were     *)
(* not; an IntegrityError where one is added to a point that is gone.      *)
AssignWrite(w) ==
    LET h == handler[w]
        removed == {h.point} \X (h.existing \ h.users)
        added == {h.point} \X (h.users \ h.existing)
    IN  /\ At(w, "assign.write")
        /\ IF Present(h.point) \/ added = {}
           THEN /\ managers' = (managers \ removed) \cup added
                /\ Goto(w, "assign.audit")
           ELSE Finish(w) /\ UNCHANGED managers
        /\ UNCHANGED <<points, meeting, logged, asked, gone>>

(* An approved application: the point is made and the applicant becomes    *)
(* its manager.                                                            *)
ApproveCreate(w, p, row, u) ==
    /\ At(w, "idle")
    /\ Insert(p, row)
    /\ Become(w, [Idle EXCEPT !.pc = "approve.add", !.point = p, !.users = {u}])
    /\ UNCHANGED <<managers, meeting, logged, gone>>

ApproveAdd(w) ==
    LET p == handler[w].point IN
    /\ At(w, "approve.add")
    /\ IF Present(p)
       THEN managers' = managers \cup ({p} \X handler[w].users) /\ Goto(w, "approve.audit")
       ELSE Finish(w) /\ UNCHANGED managers
    /\ UNCHANGED <<points, meeting, logged, asked, gone>>

(* The row of an assignment has the managers.  That of an approval has the *)
(* point and, as its target, the application: it stands for the applicant. *)
LogManagers(w) ==
    /\ At(w, "assign.audit") \/ At(w, "approve.audit")
    /\ logged' = [logged EXCEPT ![handler[w].point] = handler[w].users]
    /\ Finish(w)
    /\ UNCHANGED <<points, managers, meeting, asked, gone>>

-----------------------------------------------------------------------------
(* POST /exchanges/{id}/schedule/.                                         *)

(* Without the test for None: a call that only changes the time. *)
PointToSave_mut(e, p) == p

(* dropoff_point is saved in any case: the one named, or the one read. *)
PointToSave(e, p) == IF p = None THEN meeting[e] ELSE p

ScheduleBegin(w, e, p) ==
    /\ At(w, "idle")
    /\ p # None => Present(p)
    /\ Become(w, [Idle EXCEPT !.pc = "schedule.save", !.exch = e,
                              !.point = PointToSave(e, p), !.names = p # None])
    /\ UNCHANGED <<tables, asked, gone>>

(* An IntegrityError when the point is gone. *)
ScheduleSave(w) ==
    LET h == handler[w] IN
    /\ At(w, "schedule.save")
    /\ IF h.point = None \/ Present(h.point)
       THEN /\ meeting' = [meeting EXCEPT ![h.exch] = h.point]
            /\ asked' = IF h.names THEN [asked EXCEPT !.meeting[h.exch] = h.point] ELSE asked
       ELSE UNCHANGED <<meeting, asked>>
    /\ Finish(w)
    /\ UNCHANGED <<points, managers, logged, gone>>

-----------------------------------------------------------------------------
Crash(w) ==
    /\ Crashes
    /\ ~At(w, "idle")
    /\ Finish(w)
    /\ UNCHANGED <<tables, asked, gone>>

Arrive(w) ==
    \/ \E p \in Points :
          \/ \E col \in Columns, v \in Values : PatchBegin(w, p, col, v)
          \/ DestroyBegin(w, p)
          \/ \E users \in SUBSET Users : AssignBegin(w, p, users)
          \/ \E row \in Row, u \in Users : ApproveCreate(w, p, row, u)
    \/ \E e \in Exchanges, p \in Points \cup {None} : ScheduleBegin(w, e, p)

Step(w) ==
    \/ PatchSave(w) \/ DestroyWrite(w)
    \/ AssignRead(w) \/ AssignWrite(w) \/ ApproveAdd(w) \/ LogManagers(w)
    \/ ScheduleSave(w)

(* What a handler is at work on. *)
RowPCs == {"patch.save", "destroy.write"}
ManagerPCs == {"destroy.write", "assign.read", "assign.write", "assign.audit",
               "approve.add", "approve.audit"}

Subjects(h) ==
    (IF h.pc \in RowPCs THEN {<<"row", h.point>>} ELSE {})
        \cup (IF h.pc \in ManagerPCs THEN {<<"managers", h.point>>} ELSE {})
        \cup (IF h.pc = "schedule.save" THEN {<<"meeting", h.exch>>} ELSE {})

Overlap ==
    UNION {Subjects(handler[x[1]]) \cap Subjects(handler[x[2]]) :
               x \in {y \in Web \X Web : y[1] # y[2]}}

Next ==
    \/ (\E p \in Points, row \in Row : Create(p, row)) /\ UNCHANGED clashed
    \/ \E w \in Web :
          \/ (Arrive(w) \/ Step(w)) /\ clashed' = clashed \cup Overlap'
          \/ Crash(w) /\ clashed' = clashed \cup Subjects(handler[w])

Spec == Init /\ [][Next]_vars
-----------------------------------------------------------------------------
Settled(x) == x \notin clashed /\ \A w \in Web : x \notin Subjects(handler[w])

(* Tables and locals have their types, and managers and meetings are at    *)
(* points that exist: the foreign keys, which every writer keeps to.       *)
TypeOK ==
    /\ points \in [Points -> Row \cup {None}]
    /\ managers \subseteq {p \in Points : Present(p)} \X Users
    /\ meeting \in [Exchanges -> {p \in Points : Present(p)} \cup {None}]
    /\ logged \in [Points -> (SUBSET Users) \cup {None}]
    /\ handler \in [Web -> Handler]
    /\ gone \subseteq Points
    /\ clashed \subseteq ({"row", "managers"} \X Points) \cup ({"meeting"} \X Exchanges)

(* "Replaces the full manager list": the managers of a point are those the *)
(* audit log last named, nobody if it named none, unless assignments       *)
(* overlapped or died, whatever else happened to the point.                *)
ManagersAreLogged ==
    \A p \in Points \ gone : Settled(<<"managers", p>>) =>
        ManagersOf(p) = IF logged[p] = None THEN {} ELSE logged[p]

(* Edits that do not overlap are all there: a PATCH changes what it names  *)
(* and leaves the other columns as the last call set them.                 *)
RowsAreAsAsked ==
    \A p \in Points : Settled(<<"row", p>>) => points[p] = asked.rows[p]

(* Both together: a point is what the calls about it asked for.            *)
PointsAreAsAsked == ManagersAreLogged /\ RowsAreAsAsked

(* The parties meet where their last call that named a point said, until   *)
(* the point is deleted; a new time moves nobody, and an exchange finds    *)
(* its way back to a deleted point only where calls about it, or a         *)
(* deletion and a PATCH, overlapped.                                       *)
MeetingsStand ==
    \A e \in Exchanges :
        Settled(<<"meeting", e>>) /\ meeting[e] # asked.meeting[e]
            => <<"row", meeting[e]>> \in clashed

(* A deleted point comes back only by a PATCH that overlapped its deletion,*)
(* never by an assignment, an approval or an appointment.                  *)
GoneStaysGone ==
    \A p \in gone : Present(p) => <<"row", p>> \in clashed

-----------------------------------------------------------------------------
(* What the documents say and the code does not do (README, "Divergences").*)

(* API_REFERENCE.md:1231: assign-managers "replaces the full manager list  *)
(* for this point"; between assignments there is the list of one of them.  *)
ListsAreReplaced ==
    \A p \in Points \ gone :
        (\A w \in Web : <<"managers", p>> \notin Subjects(handler[w])) =>
            ManagersOf(p) = IF logged[p] = None THEN {} ELSE logged[p]

(* API_REFERENCE.md:1218: PATCH takes "any subset" of the fields: two of   *)
(* different columns do not undo each other.                               *)
PatchesCompose ==
    \A p \in Points :
        (\A w \in Web : <<"row", p>> \notin Subjects(handler[w])) => points[p] = asked.rows[p]
=============================================================================

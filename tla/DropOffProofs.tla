---------------------------- MODULE DropOffProofs ----------------------------
(***************************************************************************)
(* Proofs about DropOff, for any number of points, users, exchanges and    *)
(* processes, whatever overlaps and dies.                                  *)
(*                                                                         *)
(* OverlapSeen says that on a thing without a clash one handler at most is *)
(* at work.  RowHolds, ManagersHold and MeetingHolds say of such a thing   *)
(* what the tables are and what that handler knows of them.                *)
(***************************************************************************)
EXTENDS DropOff, TLAPS

PointPCs == RowPCs \cup ManagerPCs
AuditPCs == {"assign.audit", "approve.audit"}
Things == ({"row", "managers"} \X Points) \cup ({"meeting"} \X Exchanges)
AskedType == [rows: [Points -> Row \cup {None}], meeting: [Exchanges -> Points \cup {None}]]

(* What a handler in the middle of its writes holds. *)
Holds(h) ==
    /\ h.pc \in PointPCs => h.point \in Points /\ (Present(h.point) \/ h.point \in gone)
    /\ h.pc = "patch.save" => h.row \in Row /\ h.col \in Columns
    /\ h.pc = "schedule.save" => h.exch \in Exchanges

Typed == TypeOK /\ asked \in AskedType /\ \A w \in Web : Holds(handler[w])

(* Two handlers at work on one thing have been noted. *)
OverlapSeen ==
    \A v, w \in Web, x \in Things :
        v # w /\ x \in Subjects(handler[v]) /\ x \in Subjects(handler[w]) => x \in clashed

(* The row is what was asked for; a PATCH under way will change its column *)
(* and no other.                                                           *)
RowHolds(p) ==
    <<"row", p>> \notin clashed =>
        /\ points[p] = asked.rows[p]
        /\ Present(p) => p \notin gone
        /\ \A w \in Web : At(w, "patch.save") /\ handler[w].point = p =>
              /\ Present(p)
              /\ \A c \in Columns : c # handler[w].col => handler[w].row[c] = points[p][c]

LastLogged(p) == IF logged[p] = None THEN {} ELSE logged[p]

(* The managers are those logged, or those about to be; an assignment      *)
(* under way knows them.                                                   *)
ManagersHold(p) ==
    p \notin gone /\ <<"managers", p>> \notin clashed =>
        /\ (\A w \in Web : handler[w].pc \in AuditPCs => handler[w].point # p)
              => ManagersOf(p) = LastLogged(p)
        /\ \A w \in Web : handler[w].point = p =>
              /\ handler[w].pc \in AuditPCs => ManagersOf(p) = handler[w].users
              /\ At(w, "assign.write") => handler[w].existing = ManagersOf(p)
              /\ At(w, "approve.add") => ManagersOf(p) = {}

(* The meeting is where it was asked for, or back at a point that came     *)
(* back; a call that only changes the time saves what there is, or a point *)
(* deleted since.                                                          *)
MeetingHolds(e) ==
    <<"meeting", e>> \notin clashed =>
        /\ \/ meeting[e] = asked.meeting[e]
           \/ asked.meeting[e] = None /\ <<"row", meeting[e]>> \in clashed
        /\ \A w \in Web :
              At(w, "schedule.save") /\ handler[w].exch = e /\ ~handler[w].names =>
                  \/ handler[w].point = meeting[e]
                  \/ handler[w].point \in gone /\ asked.meeting[e] = None

RowsHold == \A p \in Points : RowHolds(p)
AllManagersHold == \A p \in Points : ManagersHold(p)
MeetingsHold == \A e \in Exchanges : MeetingHolds(e)

IInv == Typed /\ OverlapSeen /\ RowsHold /\ AllManagersHold /\ MeetingsHold

-----------------------------------------------------------------------------
(* None is no point, no exchange and no row. *)
LEMMA NoneIsNothing ==
    None \notin Users /\ None \notin Points /\ None \notin Exchanges /\ None \notin Row
BY NoneAssumption, RowAssumption

LEMMA HandlerTyped ==
    ASSUME Typed, NEW w \in Web
    PROVE  handler[w] \in Handler /\ Holds(handler[w])
BY DEF Typed, TypeOK

(* What a handler is at work on, thing by thing. *)
LEMMA SubjectsAre ==
    ASSUME NEW h \in Handler
    PROVE  /\ \A p \in Points : <<"row", p>> \in Subjects(h) <=> h.pc \in RowPCs /\ h.point = p
           /\ \A p \in Points :
                 <<"managers", p>> \in Subjects(h) <=> h.pc \in ManagerPCs /\ h.point = p
           /\ \A e \in Exchanges :
                 <<"meeting", e>> \in Subjects(h) <=> h.pc = "schedule.save" /\ h.exch = e
BY DEF Subjects, RowPCs, ManagerPCs

LEMMA SubjectsAreThings ==
    ASSUME NEW h \in Handler,
           h.pc \in PointPCs => h.point \in Points,
           h.pc = "schedule.save" => h.exch \in Exchanges
    PROVE  Subjects(h) \subseteq Things
<1>1. CASE h.pc = "schedule.save"
    BY <1>1 DEF Subjects, Things, RowPCs, ManagerPCs
<1>2. CASE h.pc \in PointPCs
    <2>1. h.point \in Points /\ h.pc # "schedule.save"
        BY <1>2 DEF PointPCs, RowPCs, ManagerPCs
    <2> QED BY <2>1 DEF Subjects, Things
<1>3. CASE h.pc \notin PointPCs \cup {"schedule.save"}
    BY <1>3 DEF Subjects, PointPCs
<1> QED BY <1>1, <1>2, <1>3

(* What two handlers share is in Overlap. *)
LEMMA SharedIsOverlap ==
    \A v, w \in Web : v # w => Subjects(handler[v]) \cap Subjects(handler[w]) \subseteq Overlap
<1> SUFFICES ASSUME NEW v \in Web, NEW w \in Web, v # w
             PROVE  Subjects(handler[v]) \cap Subjects(handler[w]) \subseteq Overlap
    OBVIOUS
<1>1. <<v, w>> \in {y \in Web \X Web : y[1] # y[2]}
    OBVIOUS
<1>2. Subjects(handler[<<v, w>>[1]]) \cap Subjects(handler[<<v, w>>[2]])
        = Subjects(handler[v]) \cap Subjects(handler[w])
    OBVIOUS
<1> QED BY <1>1, <1>2 DEF Overlap

(* ... and nothing else is. *)
LEMMA OverlapIsShared ==
    ASSUME NEW x \in Overlap
    PROVE  \E v \in Web : x \in Subjects(handler[v])
BY DEF Overlap

-----------------------------------------------------------------------------
(* The tables and the handlers keep their types. *)

(* An action that moves one handler and lets no point vanish. *)
LEMMA HoldsOn ==
    ASSUME Typed, NEW w \in Web, NEW h \in Handler,
           handler' = [handler EXCEPT ![w] = h],
           \A p \in Points : Present(p) => Present(p)' \/ p \in gone',
           gone \subseteq gone', Holds(h)'
    PROVE  handler' \in [Web -> Handler] /\ \A v \in Web : Holds(handler[v])'
<1>1. handler' \in [Web -> Handler]
    BY DEF Typed, TypeOK
<1>2. ASSUME NEW v \in Web PROVE Holds(handler[v])'
    <2>1. CASE v = w
        <3>1. handler'[v] = h
            BY <2>1 DEF Typed, TypeOK
        <3> QED BY <3>1
    <2>2. CASE v # w
        <3>1. handler'[v] = handler[v]
            BY <2>2 DEF Typed, TypeOK
        <3> QED BY <3>1, HandlerTyped DEF Holds
    <2> QED BY <2>1, <2>2
<1> QED BY <1>1, <1>2

LEMMA IdleHolds == Idle \in Handler /\ Holds(Idle) /\ Holds(Idle)' /\ Subjects(Idle) = {}
BY DEF Idle, Handler, PCs, Holds, PointPCs, RowPCs, ManagerPCs, Subjects

(* Everything but clashed. *)
TablesTyped ==
    /\ points \in [Points -> Row \cup {None}]
    /\ managers \subseteq {p \in Points : Present(p)} \X Users
    /\ meeting \in [Exchanges -> {p \in Points : Present(p)} \cup {None}]
    /\ logged \in [Points -> (SUBSET Users) \cup {None}]
    /\ handler \in [Web -> Handler]
    /\ gone \subseteq Points
    /\ asked \in AskedType
    /\ \A w \in Web : Holds(handler[w])

LEMMA TablesAreTyped == Typed => TablesTyped
BY DEF Typed, TypeOK, TablesTyped

(* A call begins, or ends without a trace. *)
LEMMA BeginTyped ==
    ASSUME Typed, NEW w \in Web, NEW h \in Handler, Become(w, h), Holds(h),
           UNCHANGED <<tables, asked, gone>>
    PROVE  TablesTyped'
<1>1. UNCHANGED <<points, managers, meeting, logged, asked, gone>>
    BY DEF tables
<1>2. Holds(h)' /\ \A p \in Points : Present(p) => Present(p)'
    BY <1>1 DEF Holds, Present
<1>3. handler' \in [Web -> Handler] /\ \A v \in Web : Holds(handler[v])'
    BY <1>1, <1>2, HoldsOn DEF Become
<1> QED BY <1>1, <1>3, TablesAreTyped DEF TablesTyped, Present

LEMMA InsertTyped ==
    ASSUME Typed, NEW p \in Points, NEW row \in Row, Insert(p, row)
    PROVE  /\ points' \in [Points -> Row \cup {None}]
           /\ asked' \in AskedType
           /\ Present(p)' /\ ~Present(p) /\ p \notin gone
           /\ \A q \in Points : Present(q) => Present(q)'
           /\ \A q \in Points \ {p} : points'[q] = points[q]
           /\ asked'.rows = [asked.rows EXCEPT ![p] = row] /\ points'[p] = row
           /\ asked'.meeting = asked.meeting
<1>1. points \in [Points -> Row \cup {None}] /\ asked \in AskedType
    BY DEF Typed, TypeOK
<1>2. points' = [points EXCEPT ![p] = row] /\ asked' = [asked EXCEPT !.rows[p] = row]
    BY DEF Insert
<1>3. /\ points' \in [Points -> Row \cup {None}] /\ points'[p] = row
      /\ \A q \in Points \ {p} : points'[q] = points[q]
    BY <1>1, <1>2
<1>4. /\ asked' \in AskedType /\ asked'.meeting = asked.meeting
      /\ asked'.rows = [asked.rows EXCEPT ![p] = row]
    BY <1>1, <1>2 DEF AskedType
<1>5. Present(p)' /\ \A q \in Points : Present(q) => Present(q)'
    BY <1>3, NoneIsNothing DEF Present
<1> QED BY <1>3, <1>4, <1>5 DEF Insert

LEMMA CreateTyped ==
    ASSUME Typed, NEW p \in Points, NEW row \in Row, Create(p, row)
    PROVE  TablesTyped'
<1>1. Insert(p, row) /\ UNCHANGED <<managers, meeting, logged, handler, gone>>
    BY DEF Create
<1>2. \A w \in Web : Holds(handler[w])'
    BY <1>1, InsertTyped, HandlerTyped DEF Holds
<1>3. managers' \subseteq {q \in Points : Present(q)'} \X Users
    BY <1>1, InsertTyped DEF Typed, TypeOK
<1>4. meeting' \in [Exchanges -> {q \in Points : Present(q)'} \cup {None}]
    <2>1. {q \in Points : Present(q)} \subseteq {q \in Points : Present(q)'}
        BY <1>1, InsertTyped
    <2> QED BY <1>1, <2>1 DEF Typed, TypeOK
<1> QED BY <1>1, <1>2, <1>3, <1>4, InsertTyped DEF TablesTyped, Typed, TypeOK

LEMMA ApproveCreateTyped ==
    ASSUME Typed, NEW w \in Web, NEW p \in Points, NEW row \in Row, NEW u \in Users,
           ApproveCreate(w, p, row, u)
    PROVE  TablesTyped'
<1> DEFINE h == [Idle EXCEPT !.pc = "approve.add", !.point = p, !.users = {u}]
<1>1. /\ Insert(p, row) /\ UNCHANGED <<managers, meeting, logged, gone>>
      /\ handler' = [handler EXCEPT ![w] = h]
    BY DEF ApproveCreate, Become
<1>2. h \in Handler /\ h.pc = "approve.add" /\ h.point = p
    BY DEF Idle, Handler, PCs
<1>3. Holds(h)'
    BY <1>1, <1>2, InsertTyped DEF Holds
<1>4. handler' \in [Web -> Handler] /\ \A v \in Web : Holds(handler[v])'
    <2> HIDE DEF h
    <2> QED BY <1>1, <1>2, <1>3, InsertTyped, HoldsOn
<1>5. managers' \subseteq {q \in Points : Present(q)'} \X Users
    BY <1>1, InsertTyped DEF Typed, TypeOK
<1>6. meeting' \in [Exchanges -> {q \in Points : Present(q)'} \cup {None}]
    <2>1. {q \in Points : Present(q)} \subseteq {q \in Points : Present(q)'}
        BY <1>1, InsertTyped
    <2> QED BY <1>1, <2>1 DEF Typed, TypeOK
<1> QED BY <1>1, <1>4, <1>5, <1>6, InsertTyped DEF TablesTyped, Typed, TypeOK

LEMMA PatchBeginIs ==
    ASSUME Typed, NEW w \in Web, NEW p \in Points, NEW col \in Columns, NEW v \in Values,
           PatchBegin(w, p, col, v)
    PROVE  \E h \in Handler :
              /\ Become(w, h) /\ Holds(h)
              /\ h.pc = "patch.save" /\ h.point = p /\ h.col = col
              /\ \A c \in Columns : c # col => h.row[c] = points[p][c]
<1> DEFINE h == [Idle EXCEPT !.pc = "patch.save", !.point = p, !.col = col,
                             !.row = [points[p] EXCEPT ![col] = v]]
<1>1. points[p] \in Row
    BY DEF PatchBegin, Present, Typed, TypeOK
<1>2. [points[p] EXCEPT ![col] = v] \in Row
    BY <1>1 DEF Row
<1>3. h \in Handler
    BY <1>2 DEF Idle, Handler, PCs
<1>4. /\ h.pc = "patch.save" /\ h.point = p /\ h.col = col
      /\ h.row = [points[p] EXCEPT ![col] = v]
    BY DEF Idle
<1>5. Holds(h)
    BY <1>2, <1>4 DEF Holds, PatchBegin
<1>6. Become(w, h)
    BY DEF PatchBegin
<1>7. \A c \in Columns : c # col => h.row[c] = points[p][c]
    BY <1>1, <1>4 DEF Row
<1> HIDE DEF h
<1> QED BY <1>3, <1>4, <1>5, <1>6, <1>7

LEMMA DestroyBeginIs ==
    ASSUME Typed, NEW w \in Web, NEW p \in Points, DestroyBegin(w, p)
    PROVE  \E h \in Handler :
              Become(w, h) /\ Holds(h) /\ h.pc = "destroy.write" /\ h.point = p
<1> DEFINE h == [Idle EXCEPT !.pc = "destroy.write", !.point = p]
<1>1. h \in Handler /\ h.pc = "destroy.write" /\ h.point = p
    BY DEF Idle, Handler, PCs
<1>2. Holds(h) /\ Become(w, h)
    BY <1>1 DEF Holds, DestroyBegin
<1> HIDE DEF h
<1> QED BY <1>1, <1>2

LEMMA AssignBeginIs ==
    ASSUME Typed, NEW w \in Web, NEW p \in Points, NEW users \in SUBSET Users,
           AssignBegin(w, p, users)
    PROVE  \E h \in Handler :
              Become(w, h) /\ Holds(h) /\ h.pc = "assign.read" /\ h.point = p
<1> DEFINE h == [Idle EXCEPT !.pc = "assign.read", !.point = p, !.users = users]
<1>1. h \in Handler /\ h.pc = "assign.read" /\ h.point = p
    BY DEF Idle, Handler, PCs
<1>2. Holds(h) /\ Become(w, h)
    BY <1>1 DEF Holds, AssignBegin
<1> HIDE DEF h
<1> QED BY <1>1, <1>2

LEMMA ScheduleBeginIs ==
    ASSUME Typed, NEW w \in Web, NEW e \in Exchanges, NEW p \in Points \cup {None},
           ScheduleBegin(w, e, p)
    PROVE  \E h \in Handler :
              /\ Become(w, h) /\ Holds(h) /\ h.pc = "schedule.save" /\ h.exch = e
              /\ ~h.names => h.point = meeting[e]
<1> DEFINE h == [Idle EXCEPT !.pc = "schedule.save", !.exch = e,
                             !.point = PointToSave(e, p), !.names = p # None]
<1>1. meeting[e] \in Points \cup {None}
    BY DEF Typed, TypeOK
<1>2. h \in Handler
    BY <1>1 DEF Idle, Handler, PCs, PointToSave
<1>3. /\ h.pc = "schedule.save" /\ h.exch = e /\ h.names = (p # None)
      /\ h.point = PointToSave(e, p)
    BY DEF Idle
<1>4. Holds(h)
    BY <1>3 DEF Holds, PointPCs, RowPCs, ManagerPCs
<1>5. ~h.names => h.point = meeting[e]
    BY <1>3 DEF PointToSave
<1>6. Become(w, h)
    BY DEF ScheduleBegin
<1> HIDE DEF h
<1> QED BY <1>2, <1>3, <1>4, <1>5, <1>6

(* A handler goes on to pc, or is done; what it holds stays as it is. *)
LEMMA GotoIs ==
    ASSUME Typed, NEW w \in Web, NEW pc \in PCs
    PROVE  /\ [handler[w] EXCEPT !.pc = pc] \in Handler
           /\ [handler[w] EXCEPT !.pc = pc].pc = pc
           /\ [handler[w] EXCEPT !.pc = pc].point = handler[w].point
           /\ [handler[w] EXCEPT !.pc = pc].users = handler[w].users
<1>1. handler[w] \in Handler
    BY HandlerTyped
<1> QED BY <1>1 DEF Handler

LEMMA PatchSaveTyped ==
    ASSUME Typed, NEW w \in Web, PatchSave(w)
    PROVE  /\ TablesTyped'
           /\ handler[w].point \in Points /\ handler[w].row \in Row /\ handler[w].col \in Columns
           /\ \A q \in Points : Present(q) => Present(q)'
           /\ points' = [points EXCEPT ![handler[w].point] = handler[w].row]
<1> DEFINE h == handler[w]
<1>1. /\ points' = [points EXCEPT ![h.point] = h.row]
      /\ handler' = [handler EXCEPT ![w] = Idle]
      /\ UNCHANGED <<managers, meeting, logged, gone>>
      /\ asked' = [asked EXCEPT !.rows[h.point] =
                      IF @ = None THEN h.row ELSE [@ EXCEPT ![h.col] = h.row[h.col]]]
    BY DEF PatchSave, Finish, Become
<1>2. h.point \in Points /\ h.row \in Row /\ h.col \in Columns
    BY HandlerTyped DEF PatchSave, At, Holds, PointPCs, RowPCs
<1>3. /\ points' \in [Points -> Row \cup {None}]
      /\ \A q \in Points : points'[q] = IF q = h.point THEN h.row ELSE points[q]
    BY <1>1, <1>2 DEF Typed, TypeOK
<1>4. \A q \in Points : Present(q) => Present(q)'
    BY <1>2, <1>3, NoneIsNothing DEF Present
<1>5. asked' \in AskedType
    <2>1. asked.rows[h.point] \in Row \cup {None}
        BY <1>2 DEF Typed, AskedType
    <2>2. (IF asked.rows[h.point] = None THEN h.row
           ELSE [asked.rows[h.point] EXCEPT ![h.col] = h.row[h.col]]) \in Row
        BY <1>2, <2>1 DEF Row
    <2> QED BY <1>1, <1>2, <2>2 DEF Typed, AskedType
<1>6. handler' \in [Web -> Handler] /\ \A v \in Web : Holds(handler[v])'
    BY <1>1, <1>4, IdleHolds, HoldsOn
<1>7. {q \in Points : Present(q)} \subseteq {q \in Points : Present(q)'}
    BY <1>4
<1> QED BY <1>1, <1>2, <1>3, <1>4, <1>5, <1>6, <1>7 DEF TablesTyped, Typed, TypeOK

LEMMA DestroyWriteTyped ==
    ASSUME Typed, NEW w \in Web, DestroyWrite(w)
    PROVE  /\ TablesTyped'
           /\ handler[w].point \in Points
           /\ points' = [points EXCEPT ![handler[w].point] = None]
<1> DEFINE p == handler[w].point
<1>1. /\ points' = [points EXCEPT ![p] = None]
      /\ managers' = {m \in managers : m[1] # p}
      /\ meeting' = [e \in Exchanges |-> IF meeting[e] = p THEN None ELSE meeting[e]]
      /\ asked' = [asked EXCEPT !.rows[p] = None,
                      !.meeting = [e \in Exchanges |-> IF @[e] = p THEN None ELSE @[e]]]
      /\ gone' = gone \cup {p} /\ UNCHANGED logged
      /\ handler' = [handler EXCEPT ![w] = Idle]
    BY DEF DestroyWrite, Finish, Become
<1>2. p \in Points
    BY HandlerTyped DEF DestroyWrite, At, Holds, PointPCs, RowPCs
<1>3. /\ points' \in [Points -> Row \cup {None}]
      /\ points'[p] = None
      /\ \A q \in Points \ {p} : points'[q] = points[q]
    BY <1>1, <1>2 DEF Typed, TypeOK
<1>4. asked' \in AskedType
    BY <1>1, <1>2 DEF Typed, AskedType
<1>5. \A q \in Points : Present(q) => Present(q)' \/ q \in gone'
    BY <1>1, <1>3 DEF Present
<1>6. handler' \in [Web -> Handler] /\ \A v \in Web : Holds(handler[v])'
    BY <1>1, <1>5, IdleHolds, HoldsOn
<1>7. managers' \subseteq {q \in Points : Present(q)'} \X Users
    <2> SUFFICES ASSUME NEW m \in managers, m[1] # p
                 PROVE  m \in {q \in Points : Present(q)'} \X Users
        BY <1>1
    <2>1. PICK q \in {r \in Points : Present(r)}, u \in Users : m = <<q, u>>
        BY DEF Typed, TypeOK
    <2>2. q # p /\ Present(q)'
        BY <1>3, <2>1 DEF Present
    <2> QED BY <2>1, <2>2
<1>8. meeting' \in [Exchanges -> {q \in Points : Present(q)'} \cup {None}]
    <2>1. ASSUME NEW e \in Exchanges
          PROVE  meeting'[e] \in {q \in Points : Present(q)'} \cup {None}
        <3>1. meeting[e] \in {q \in Points : Present(q)} \cup {None}
            BY DEF Typed, TypeOK
        <3> QED BY <1>1, <1>3, <3>1 DEF Present
    <2> QED BY <1>1, <2>1
<1>9. gone' \subseteq Points /\ logged' = logged
    <2>1. gone \subseteq Points
        BY DEF Typed, TypeOK
    <2> QED BY <1>1, <1>2, <2>1
<1> QED BY <1>1, <1>2, <1>3, <1>4, <1>6, <1>7, <1>8, <1>9 DEF TablesTyped, Typed, TypeOK

LEMMA AssignReadIs ==
    ASSUME Typed, NEW w \in Web, AssignRead(w)
    PROVE  \E h \in Handler :
              /\ Become(w, h) /\ Holds(h) /\ h.pc = "assign.write"
              /\ h.point = handler[w].point /\ h.existing = ManagersOf(handler[w].point)
<1> DEFINE p == handler[w].point
           h == [handler[w] EXCEPT !.pc = "assign.write", !.existing = ManagersOf(p)]
<1>1. handler[w] \in Handler /\ Holds(handler[w]) /\ ManagersOf(p) \in SUBSET Users
    BY HandlerTyped DEF ManagersOf
<1>2. h \in Handler /\ h.pc = "assign.write" /\ h.point = p /\ h.existing = ManagersOf(p)
    BY <1>1 DEF Handler, PCs
<1>3. p \in Points /\ (Present(p) \/ p \in gone)
    BY <1>1 DEF AssignRead, At, Holds, PointPCs, ManagerPCs
<1>4. Holds(h) /\ Become(w, h)
    BY <1>2, <1>3 DEF Holds, AssignRead
<1> HIDE DEF h
<1> QED BY <1>2, <1>4

(* The three steps that write managers and audit rows: the handler goes on *)
(* about the same point, or is done.                                       *)
LEMMA ManagerStepTyped ==
    ASSUME Typed, NEW w \in Web, handler[w].pc \in ManagerPCs,
           NEW h \in {Idle, [handler[w] EXCEPT !.pc = "assign.audit"],
                      [handler[w] EXCEPT !.pc = "approve.audit"]},
           Become(w, h),
           managers' \subseteq {p \in Points : Present(p)} \X Users,
           logged' \in [Points -> (SUBSET Users) \cup {None}],
           UNCHANGED <<points, meeting, asked, gone>>
    PROVE  TablesTyped'
<1>1. handler[w].point \in Points
      /\ (Present(handler[w].point) \/ handler[w].point \in gone)
    BY HandlerTyped DEF Holds, PointPCs
<1>2. h \in Handler
    BY GotoIs, IdleHolds DEF PCs
<1>3. Holds(h)'
    <2>1. CASE h = Idle
        BY <2>1, IdleHolds
    <2>2. CASE h # Idle
        <3>1. h.pc \in AuditPCs /\ h.point = handler[w].point
            <4>1. handler[w] \in Handler
                BY HandlerTyped
            <4> QED BY <2>2, <4>1 DEF AuditPCs, Handler
        <3> QED BY <1>1, <3>1 DEF Holds, AuditPCs, Present
    <2> QED BY <2>1, <2>2
<1>4. handler' \in [Web -> Handler] /\ \A v \in Web : Holds(handler[v])'
    BY <1>2, <1>3, HoldsOn DEF Become, Present
<1> QED BY <1>4 DEF TablesTyped, Typed, TypeOK, Present

LEMMA AssignWriteTyped ==
    ASSUME Typed, NEW w \in Web, AssignWrite(w)
    PROVE  TablesTyped'
<1> DEFINE p == handler[w].point
           removed == {p} \X (handler[w].existing \ handler[w].users)
           added == {p} \X (handler[w].users \ handler[w].existing)
<1>1. handler[w] \in Handler /\ handler[w].pc \in ManagerPCs /\ p \in Points
    BY HandlerTyped DEF AssignWrite, At, ManagerPCs, PointPCs, Holds
<1>2. UNCHANGED <<points, meeting, logged, asked, gone>>
    BY DEF AssignWrite
<1>3. managers \subseteq {q \in Points : Present(q)} \X Users
      /\ logged \in [Points -> (SUBSET Users) \cup {None}]
    BY DEF Typed, TypeOK
<1>4. CASE Present(p) \/ added = {}
    <2>1. managers' = (managers \ removed) \cup added
          /\ Become(w, [handler[w] EXCEPT !.pc = "assign.audit"])
        BY <1>4 DEF AssignWrite, Goto
    <2>2. added \subseteq {q \in Points : Present(q)} \X Users
        BY <1>1, <1>4 DEF Handler
    <2> QED BY <1>1, <1>2, <1>3, <2>1, <2>2, ManagerStepTyped
<1>5. CASE ~(Present(p) \/ added = {})
    <2>1. managers' = managers /\ Become(w, Idle)
        BY <1>5 DEF AssignWrite, Finish
    <2> QED BY <1>1, <1>2, <1>3, <2>1, ManagerStepTyped
<1> QED BY <1>4, <1>5

LEMMA ApproveAddTyped ==
    ASSUME Typed, NEW w \in Web, ApproveAdd(w)
    PROVE  TablesTyped'
<1> DEFINE p == handler[w].point
<1>1. handler[w] \in Handler /\ handler[w].pc \in ManagerPCs /\ p \in Points
    BY HandlerTyped DEF ApproveAdd, At, ManagerPCs, PointPCs, Holds
<1>2. UNCHANGED <<points, meeting, logged, asked, gone>>
    BY DEF ApproveAdd
<1>3. managers \subseteq {q \in Points : Present(q)} \X Users
      /\ logged \in [Points -> (SUBSET Users) \cup {None}]
    BY DEF Typed, TypeOK
<1>4. CASE Present(p)
    <2>1. managers' = managers \cup ({p} \X handler[w].users)
          /\ Become(w, [handler[w] EXCEPT !.pc = "approve.audit"])
        BY <1>4 DEF ApproveAdd, Goto
    <2>2. {p} \X handler[w].users \subseteq {q \in Points : Present(q)} \X Users
        BY <1>1, <1>4 DEF Handler
    <2> QED BY <1>1, <1>2, <1>3, <2>1, <2>2, ManagerStepTyped
<1>5. CASE ~Present(p)
    <2>1. managers' = managers /\ Become(w, Idle)
        BY <1>5 DEF ApproveAdd, Finish
    <2> QED BY <1>1, <1>2, <1>3, <2>1, ManagerStepTyped
<1> QED BY <1>4, <1>5

LEMMA LogManagersTyped ==
    ASSUME Typed, NEW w \in Web, LogManagers(w)
    PROVE  /\ TablesTyped'
           /\ handler[w].point \in Points /\ handler[w].users \subseteq Users
           /\ logged' = [logged EXCEPT ![handler[w].point] = handler[w].users]
<1>1. handler[w] \in Handler /\ handler[w].pc \in ManagerPCs /\ handler[w].point \in Points
    BY HandlerTyped DEF LogManagers, At, ManagerPCs, PointPCs, Holds
<1>2. /\ UNCHANGED <<points, managers, meeting, asked, gone>>
      /\ logged' = [logged EXCEPT ![handler[w].point] = handler[w].users]
      /\ Become(w, Idle)
    BY DEF LogManagers, Finish
<1>3. /\ managers \subseteq {q \in Points : Present(q)} \X Users
      /\ logged \in [Points -> (SUBSET Users) \cup {None}]
    BY DEF Typed, TypeOK
<1>4. handler[w].users \in SUBSET Users
    BY <1>1 DEF Handler
<1>5. logged' \in [Points -> (SUBSET Users) \cup {None}]
    BY <1>2, <1>3, <1>4
<1>6. TablesTyped'
    BY <1>1, <1>2, <1>3, <1>5, ManagerStepTyped
<1> QED BY <1>1, <1>2, <1>4, <1>6

LEMMA ScheduleSaveTyped ==
    ASSUME Typed, NEW w \in Web, ScheduleSave(w)
    PROVE  TablesTyped'
<1> DEFINE h == handler[w]
<1>1. h \in Handler /\ h.exch \in Exchanges
    BY HandlerTyped DEF ScheduleSave, At, Holds
<1>2. UNCHANGED <<points, managers, logged, gone>> /\ handler' = [handler EXCEPT ![w] = Idle]
    BY DEF ScheduleSave, Finish, Become
<1>3. meeting' \in [Exchanges -> {q \in Points : Present(q)} \cup {None}]
      /\ asked' \in AskedType
    <2>1. meeting \in [Exchanges -> {q \in Points : Present(q)} \cup {None}]
          /\ asked \in AskedType
        BY DEF Typed, TypeOK
    <2>2. CASE h.point = None \/ Present(h.point)
        <3>1. h.point \in {q \in Points : Present(q)} \cup {None}
            BY <1>1, <2>2 DEF Handler
        <3>2. meeting' = [meeting EXCEPT ![h.exch] = h.point]
              /\ asked' = IF h.names THEN [asked EXCEPT !.meeting[h.exch] = h.point] ELSE asked
            BY <2>2 DEF ScheduleSave
        <3>3. asked' \in AskedType
            BY <1>1, <2>1, <3>1, <3>2 DEF AskedType
        <3> QED BY <1>1, <2>1, <3>1, <3>2, <3>3
    <2>3. CASE ~(h.point = None \/ Present(h.point))
        BY <2>1, <2>3 DEF ScheduleSave
    <2> QED BY <2>2, <2>3
<1>4. handler' \in [Web -> Handler] /\ \A v \in Web : Holds(handler[v])'
    BY <1>2, IdleHolds, HoldsOn DEF Present
<1> QED BY <1>2, <1>3, <1>4, TablesAreTyped DEF TablesTyped, Present

(* Every step keeps the types of the tables and what the handlers hold. *)
LEMMA NextTablesTyped == Typed /\ Next => TablesTyped'
<1> SUFFICES ASSUME Typed, Next PROVE TablesTyped'
    OBVIOUS
<1>1. CASE \E p \in Points, row \in Row : Create(p, row)
    BY <1>1, CreateTyped
<1>2. ASSUME NEW w \in Web, NEW p \in Points, NEW col \in Columns, NEW v \in Values,
             PatchBegin(w, p, col, v)
      PROVE  TablesTyped'
    BY <1>2, PatchBeginIs, BeginTyped DEF PatchBegin
<1>3. ASSUME NEW w \in Web, NEW p \in Points, DestroyBegin(w, p) PROVE TablesTyped'
    BY <1>3, DestroyBeginIs, BeginTyped DEF DestroyBegin
<1>4. ASSUME NEW w \in Web, NEW p \in Points, NEW users \in SUBSET Users,
             AssignBegin(w, p, users)
      PROVE  TablesTyped'
    BY <1>4, AssignBeginIs, BeginTyped DEF AssignBegin
<1>5. ASSUME NEW w \in Web, NEW e \in Exchanges, NEW p \in Points \cup {None},
             ScheduleBegin(w, e, p)
      PROVE  TablesTyped'
    BY <1>5, ScheduleBeginIs, BeginTyped DEF ScheduleBegin
<1>6. ASSUME NEW w \in Web, AssignRead(w) PROVE TablesTyped'
    BY <1>6, AssignReadIs, BeginTyped DEF AssignRead
<1>7. ASSUME NEW w \in Web, Crash(w) PROVE TablesTyped'
    BY <1>7, IdleHolds, BeginTyped DEF Crash, Finish
<1>8. ASSUME NEW w \in Web, Arrive(w) PROVE TablesTyped'
    BY <1>2, <1>3, <1>4, <1>5, <1>8, ApproveCreateTyped DEF Arrive
<1>9. ASSUME NEW w \in Web, Step(w) PROVE TablesTyped'
    BY <1>6, <1>9, PatchSaveTyped, DestroyWriteTyped, AssignWriteTyped, ApproveAddTyped,
       LogManagersTyped, ScheduleSaveTyped DEF Step
<1> QED BY <1>1, <1>7, <1>8, <1>9 DEF Next

-----------------------------------------------------------------------------
(* Clashes are kept, typed, and every overlap is among them. *)

LEMMA OverlapIsThings == TablesTyped => Overlap \subseteq Things
<1> SUFFICES ASSUME TablesTyped, NEW x \in Overlap PROVE x \in Things
    OBVIOUS
<1>1. PICK v \in Web : x \in Subjects(handler[v])
    BY OverlapIsShared
<1>2. handler[v] \in Handler /\ Holds(handler[v])
    BY DEF TablesTyped
<1> QED BY <1>1, <1>2, SubjectsAreThings DEF Holds

LEMMA NextClashes ==
    Typed /\ OverlapSeen /\ Next => Typed' /\ OverlapSeen' /\ clashed \subseteq clashed'
<1> SUFFICES ASSUME Typed, OverlapSeen, Next
             PROVE  Typed' /\ OverlapSeen' /\ clashed \subseteq clashed'
    OBVIOUS
<1>1. TablesTyped'
    BY NextTablesTyped
<1>2. clashed \subseteq Things
    BY DEF Typed, TypeOK, Things
<1>3. clashed' \subseteq Things => Typed'
    BY <1>1 DEF TablesTyped, Typed, TypeOK, Things
<1>4. CASE \E p \in Points, row \in Row : Create(p, row) /\ UNCHANGED clashed
    <2>1. UNCHANGED <<handler, clashed>>
        BY <1>4 DEF Create
    <2> QED BY <1>2, <1>3, <2>1 DEF OverlapSeen
<1>5. CASE clashed' = clashed \cup Overlap'
    <2>1. Overlap' \subseteq Things
        <3>1. (TablesTyped => Overlap \subseteq Things)'
            BY OverlapIsThings, PTL
        <3>2. Things' = Things
            BY DEF Things
        <3> QED BY <1>1, <3>1, <3>2
    <2>2. OverlapSeen'
        <3>1. (\A v, w \in Web :
                  v # w => Subjects(handler[v]) \cap Subjects(handler[w]) \subseteq Overlap)'
            BY SharedIsOverlap, PTL
        <3> QED BY <1>5, <3>1 DEF OverlapSeen
    <2> QED BY <1>2, <1>3, <1>5, <2>1, <2>2
<1>6. ASSUME NEW w \in Web, Crash(w), clashed' = clashed \cup Subjects(handler[w])
      PROVE  Typed' /\ OverlapSeen' /\ clashed \subseteq clashed'
    <2>1. Subjects(handler[w]) \subseteq Things
        BY HandlerTyped, SubjectsAreThings DEF Holds
    <2>2. \A v \in Web : handler'[v] = IF v = w THEN Idle ELSE handler[v]
        BY <1>6 DEF Crash, Finish, Become, Typed, TypeOK
    <2>3. \A v \in Web : Subjects(handler'[v]) \subseteq Subjects(handler[v])
        BY <2>2, IdleHolds
    <2>4. OverlapSeen'
        <3> SUFFICES ASSUME NEW v \in Web, NEW u \in Web, NEW x \in Things, v # u,
                            x \in Subjects(handler'[v]), x \in Subjects(handler'[u])
                     PROVE  x \in clashed'
            BY DEF OverlapSeen, Subjects, Things
        <3>1. x \in Subjects(handler[v]) /\ x \in Subjects(handler[u])
            BY <2>3
        <3> QED BY <1>6, <3>1 DEF OverlapSeen
    <2> QED BY <1>2, <1>3, <1>6, <2>1, <2>4
<1> QED BY <1>4, <1>5, <1>6 DEF Next

(* Two handlers on one thing. *)
LEMMA TwoOnRow ==
    ASSUME Typed, OverlapSeen, NEW v \in Web, NEW w \in Web, v # w, NEW p \in Points,
           handler[v].pc \in RowPCs, handler[v].point = p,
           handler[w].pc \in RowPCs, handler[w].point = p
    PROVE  <<"row", p>> \in clashed
BY HandlerTyped, SubjectsAre DEF OverlapSeen, Things

LEMMA TwoOnManagers ==
    ASSUME Typed, OverlapSeen, NEW v \in Web, NEW w \in Web, v # w, NEW p \in Points,
           handler[v].pc \in ManagerPCs, handler[v].point = p,
           handler[w].pc \in ManagerPCs, handler[w].point = p
    PROVE  <<"managers", p>> \in clashed
BY HandlerTyped, SubjectsAre DEF OverlapSeen, Things

LEMMA TwoOnMeeting ==
    ASSUME Typed, OverlapSeen, NEW v \in Web, NEW w \in Web, v # w, NEW e \in Exchanges,
           handler[v].pc = "schedule.save", handler[v].exch = e,
           handler[w].pc = "schedule.save", handler[w].exch = e
    PROVE  <<"meeting", e>> \in clashed
BY HandlerTyped, SubjectsAre DEF OverlapSeen, Things

-----------------------------------------------------------------------------
(* RowHolds. *)

(* Steps that write no row: what a PATCH that begins has read is there.    *)
LEMMA RowsAlone ==
    ASSUME Typed, RowsHold, NEW w \in Web, NEW h \in Handler, Become(w, h),
           UNCHANGED <<points, gone>>, asked'.rows = asked.rows, clashed \subseteq clashed',
           h.pc = "patch.save" =>
               /\ Present(h.point)
               /\ \A c \in Columns : c # h.col => h.row[c] = points[h.point][c]
    PROVE  RowsHold'
<1> SUFFICES ASSUME NEW p \in Points, <<"row", p>> \notin clashed'
             PROVE  RowHolds(p)'
    BY DEF RowsHold, RowHolds
<1>1. /\ points[p] = asked.rows[p]
      /\ Present(p) => p \notin gone
      /\ \A v \in Web : At(v, "patch.save") /\ handler[v].point = p =>
            /\ Present(p)
            /\ \A c \in Columns : c # handler[v].col => handler[v].row[c] = points[p][c]
    BY DEF RowsHold, RowHolds
<1>2. \A v \in Web : handler'[v] = IF v = w THEN h ELSE handler[v]
    BY DEF Become, Typed, TypeOK
<1>3. ASSUME NEW v \in Web, handler'[v].pc = "patch.save", handler'[v].point = p
      PROVE  /\ Present(p)
             /\ \A c \in Columns : c # handler'[v].col => handler'[v].row[c] = points[p][c]
    BY <1>1, <1>2, <1>3 DEF At
<1> QED BY <1>1, <1>3 DEF RowHolds, Present, At

(* A point is created, with a key that nobody can be at work on. *)
LEMMA RowsInsert ==
    ASSUME Typed, RowsHold, NEW p \in Points, NEW row \in Row, Insert(p, row),
           UNCHANGED gone, clashed \subseteq clashed',
           \A v \in Web : handler'[v] = handler[v] \/ handler'[v].pc # "patch.save"
    PROVE  RowsHold'
<1> SUFFICES ASSUME NEW q \in Points, <<"row", q>> \notin clashed'
             PROVE  RowHolds(q)'
    BY DEF RowsHold, RowHolds
<1>1. RowHolds(q) /\ <<"row", q>> \notin clashed
    BY DEF RowsHold
<1>2. points'[q] = asked'.rows[q]
    BY <1>1, InsertTyped DEF RowHolds, Typed, AskedType
<1>3. Present(q)' => q \notin gone'
    BY <1>1, InsertTyped DEF RowHolds, Present
<1>4. ASSUME NEW v \in Web, handler'[v].pc = "patch.save", handler'[v].point = q
      PROVE  /\ Present(q)'
             /\ \A c \in Columns : c # handler'[v].col => handler'[v].row[c] = points'[q][c]
    <2>1. handler'[v] = handler[v]
        BY <1>4
    <2>2. /\ Present(q)
          /\ \A c \in Columns : c # handler[v].col => handler[v].row[c] = points[q][c]
        BY <1>1, <1>4, <2>1 DEF RowHolds, At
    <2>3. q # p
        BY <2>2, InsertTyped
    <2> QED BY <2>1, <2>2, <2>3, InsertTyped DEF Present
<1> QED BY <1>2, <1>3, <1>4 DEF RowHolds, At

(* A PATCH changes its column; without a clash it works on what is there.  *)
LEMMA RowsPatch ==
    ASSUME Typed, OverlapSeen, RowsHold, NEW w \in Web, PatchSave(w), clashed \subseteq clashed'
    PROVE  RowsHold'
<1> DEFINE h == handler[w]
<1>1. /\ handler' = [handler EXCEPT ![w] = Idle] /\ UNCHANGED gone
      /\ asked' = [asked EXCEPT !.rows[h.point] =
                      IF @ = None THEN h.row ELSE [@ EXCEPT ![h.col] = h.row[h.col]]]
      /\ h.pc = "patch.save"
    BY DEF PatchSave, Finish, Become, At
<1>2. /\ h.point \in Points /\ h.row \in Row /\ h.col \in Columns
      /\ points' = [points EXCEPT ![h.point] = h.row]
    BY PatchSaveTyped
<1>3. /\ points \in [Points -> Row \cup {None}]
      /\ asked.rows \in [Points -> Row \cup {None}]
      /\ \A q \in Points : points'[q] = IF q = h.point THEN h.row ELSE points[q]
    BY <1>2 DEF Typed, TypeOK, AskedType
<1>4. asked'.rows = [asked.rows EXCEPT ![h.point] =
                        IF @ = None THEN h.row ELSE [@ EXCEPT ![h.col] = h.row[h.col]]]
    BY <1>1 DEF Typed, AskedType
<1> SUFFICES ASSUME NEW p \in Points, <<"row", p>> \notin clashed'
             PROVE  RowHolds(p)'
    BY DEF RowsHold, RowHolds
<1>5. RowHolds(p) /\ <<"row", p>> \notin clashed
    BY DEF RowsHold
<1>6. CASE p = h.point
    <2>1. /\ Present(p) /\ p \notin gone /\ points[p] = asked.rows[p]
          /\ \A c \in Columns : c # h.col => h.row[c] = points[p][c]
        BY <1>1, <1>5, <1>6 DEF RowHolds, At
    <2>2. points[p] \in Row
        BY <1>3, <2>1 DEF Present
    <2>3. h.row = [points[p] EXCEPT ![h.col] = h.row[h.col]]
        BY <1>2, <2>1, <2>2 DEF Row
    <2>4. points'[p] = asked'.rows[p]
        BY <1>3, <1>4, <1>6, <2>1, <2>3 DEF Present
    <2>5. ASSUME NEW v \in Web PROVE ~(handler'[v].pc = "patch.save" /\ handler'[v].point = p)
        <3>1. CASE v = w
            BY <1>1, <3>1 DEF Idle, Typed, TypeOK
        <3>2. CASE v # w
            <4>1. handler'[v] = handler[v]
                BY <1>1, <3>2 DEF Typed, TypeOK
            <4> QED BY <1>1, <1>5, <1>6, <3>2, <4>1, TwoOnRow DEF RowPCs
        <3> QED BY <3>1, <3>2
    <2> QED BY <1>1, <2>1, <2>4, <2>5 DEF RowHolds, At
<1>7. CASE p # h.point
    <2>1. points'[p] = points[p] /\ asked'.rows[p] = asked.rows[p]
        BY <1>3, <1>4, <1>7
    <2>2. ASSUME NEW v \in Web, handler'[v].pc = "patch.save", handler'[v].point = p
          PROVE  handler'[v] = handler[v]
        BY <1>1, <2>2 DEF Idle, Typed, TypeOK
    <2> QED BY <1>1, <1>5, <2>1, <2>2 DEF RowHolds, Present, At
<1> QED BY <1>6, <1>7

(* A deletion leaves nobody at work on the point, unless they clashed. *)
LEMMA RowsDestroy ==
    ASSUME Typed, OverlapSeen, RowsHold, NEW w \in Web, DestroyWrite(w), clashed \subseteq clashed'
    PROVE  RowsHold'
<1> DEFINE d == handler[w].point
<1>1. /\ handler' = [handler EXCEPT ![w] = Idle] /\ gone' = gone \cup {d}
      /\ asked' = [asked EXCEPT !.rows[d] = None,
                      !.meeting = [e \in Exchanges |-> IF @[e] = d THEN None ELSE @[e]]]
      /\ handler[w].pc = "destroy.write"
    BY DEF DestroyWrite, Finish, Become, At
<1>2. d \in Points /\ points' = [points EXCEPT ![d] = None]
    BY DestroyWriteTyped
<1>3. /\ \A q \in Points : points'[q] = IF q = d THEN None ELSE points[q]
      /\ \A q \in Points : asked'.rows[q] = IF q = d THEN None ELSE asked.rows[q]
    BY <1>1, <1>2 DEF Typed, TypeOK, AskedType
<1> SUFFICES ASSUME NEW p \in Points, <<"row", p>> \notin clashed'
             PROVE  RowHolds(p)'
    BY DEF RowsHold, RowHolds
<1>4. RowHolds(p) /\ <<"row", p>> \notin clashed
    BY DEF RowsHold
<1>5. ASSUME NEW v \in Web, handler'[v].pc = "patch.save", handler'[v].point = p
      PROVE  v # w /\ handler'[v] = handler[v]
    BY <1>1, <1>5 DEF Idle, Typed, TypeOK
<1>6. CASE p = d
    <2>1. ASSUME NEW v \in Web PROVE ~(handler'[v].pc = "patch.save" /\ handler'[v].point = p)
        BY <1>1, <1>4, <1>5, <1>6, TwoOnRow DEF RowPCs
    <2> QED BY <1>3, <1>6, <2>1 DEF RowHolds, Present, At
<1>7. CASE p # d
    BY <1>1, <1>3, <1>4, <1>5, <1>7 DEF RowHolds, Present, At
<1> QED BY <1>6, <1>7

(* How the handler of each of the other steps goes on. *)
LEMMA AssignWriteIs ==
    ASSUME Typed, NEW w \in Web, AssignWrite(w)
    PROVE  \E h \in Handler :
              /\ Become(w, h)
              /\ \/ h = Idle
                 \/ h.pc = "assign.audit" /\ h.point = handler[w].point /\ h.users = handler[w].users
BY GotoIs, IdleHolds DEF AssignWrite, Goto, Finish, PCs

LEMMA ApproveAddIs ==
    ASSUME Typed, NEW w \in Web, ApproveAdd(w)
    PROVE  \E h \in Handler :
              /\ Become(w, h)
              /\ \/ h = Idle
                 \/ h.pc = "approve.audit" /\ h.point = handler[w].point /\ h.users = handler[w].users
BY GotoIs, IdleHolds DEF ApproveAdd, Goto, Finish, PCs

LEMMA ScheduleSaveAsks ==
    ASSUME Typed, NEW w \in Web, ScheduleSave(w)
    PROVE  asked'.rows = asked.rows
BY DEF ScheduleSave, Typed, AskedType

LEMMA NextRows ==
    ASSUME Typed, OverlapSeen, RowsHold, Next, clashed \subseteq clashed'
    PROVE  RowsHold'
<1>1. ASSUME NEW p \in Points, NEW row \in Row, Create(p, row) PROVE RowsHold'
    BY <1>1, RowsInsert DEF Create
<1>2. ASSUME NEW w \in Web, NEW p \in Points, NEW col \in Columns, NEW v \in Values,
             PatchBegin(w, p, col, v)
      PROVE  RowsHold'
    <2>1. UNCHANGED <<points, gone, asked>> /\ Present(p)
        BY <1>2 DEF PatchBegin, tables
    <2> QED BY <1>2, <2>1, PatchBeginIs, RowsAlone
<1>3. ASSUME NEW w \in Web, NEW h \in Handler, Become(w, h), h.pc # "patch.save",
             UNCHANGED <<points, gone>>, asked'.rows = asked.rows
      PROVE  RowsHold'
    BY <1>3, RowsAlone
<1>4. ASSUME NEW w \in Web, NEW p \in Points, DestroyBegin(w, p) PROVE RowsHold'
    BY <1>3, <1>4, DestroyBeginIs DEF DestroyBegin, tables
<1>5. ASSUME NEW w \in Web, NEW p \in Points, NEW users \in SUBSET Users,
             AssignBegin(w, p, users)
      PROVE  RowsHold'
    BY <1>3, <1>5, AssignBeginIs DEF AssignBegin, tables
<1>6. ASSUME NEW w \in Web, NEW e \in Exchanges, NEW p \in Points \cup {None},
             ScheduleBegin(w, e, p)
      PROVE  RowsHold'
    BY <1>3, <1>6, ScheduleBeginIs DEF ScheduleBegin, tables
<1>7. ASSUME NEW w \in Web, NEW p \in Points, NEW row \in Row, NEW u \in Users,
             ApproveCreate(w, p, row, u)
      PROVE  RowsHold'
    <2>1. \A v \in Web : handler'[v] = handler[v] \/ handler'[v].pc # "patch.save"
        BY <1>7 DEF ApproveCreate, Become, Idle, Typed, TypeOK
    <2> QED BY <1>7, <2>1, RowsInsert DEF ApproveCreate
<1>8. ASSUME NEW w \in Web, AssignRead(w) PROVE RowsHold'
    BY <1>3, <1>8, AssignReadIs DEF AssignRead, tables
<1>9. Idle \in Handler /\ Idle.pc = "idle"
    BY IdleHolds DEF Idle
<1>10. ASSUME NEW w \in Web, AssignWrite(w) \/ ApproveAdd(w) PROVE RowsHold'
    <2>1. UNCHANGED <<points, gone>> /\ asked'.rows = asked.rows
        BY <1>10 DEF AssignWrite, ApproveAdd
    <2> QED BY <1>3, <1>9, <1>10, <2>1, AssignWriteIs, ApproveAddIs
<1>11. ASSUME NEW w \in Web, LogManagers(w) \/ ScheduleSave(w) \/ Crash(w) PROVE RowsHold'
    <2>1. UNCHANGED <<points, gone>> /\ asked'.rows = asked.rows
        BY <1>11, ScheduleSaveAsks DEF LogManagers, ScheduleSave, Crash, tables
    <2>2. Become(w, Idle)
        BY <1>11 DEF LogManagers, ScheduleSave, Crash, Finish
    <2> QED BY <1>3, <1>9, <2>1, <2>2
<1>12. ASSUME NEW w \in Web, Arrive(w) PROVE RowsHold'
    BY <1>2, <1>4, <1>5, <1>6, <1>7, <1>12 DEF Arrive
<1>13. ASSUME NEW w \in Web, Step(w) PROVE RowsHold'
    BY <1>8, <1>10, <1>11, <1>13, RowsPatch, RowsDestroy DEF Step
<1> QED BY <1>1, <1>11, <1>12, <1>13 DEF Next

-----------------------------------------------------------------------------
(* ManagersHold. *)

(* Steps that write no manager and no audit row.                           *)
LEMMA ManagersAlone ==
    ASSUME Typed, AllManagersHold, NEW w \in Web, NEW h \in Handler, Become(w, h),
           UNCHANGED <<managers, logged, gone>>, clashed \subseteq clashed',
           handler[w].pc \in AuditPCs => <<"managers", handler[w].point>> \in clashed',
           h.pc \notin AuditPCs,
           h.pc = "assign.write" => h.existing = ManagersOf(h.point),
           h.pc = "approve.add" => ManagersOf(h.point) = {}
    PROVE  AllManagersHold'
<1> SUFFICES ASSUME NEW p \in Points, p \notin gone', <<"managers", p>> \notin clashed'
             PROVE  ManagersHold(p)'
    BY DEF AllManagersHold, ManagersHold
<1>1. ManagersHold(p) /\ p \notin gone /\ <<"managers", p>> \notin clashed
    BY DEF AllManagersHold
<1>2. \A v \in Web : handler'[v] = IF v = w THEN h ELSE handler[v]
    BY DEF Become, Typed, TypeOK
<1>3. ManagersOf(p)' = ManagersOf(p) /\ LastLogged(p)' = LastLogged(p)
    BY DEF ManagersOf, LastLogged
<1>4. ASSUME \A v \in Web : handler'[v].pc \in AuditPCs => handler'[v].point # p
      PROVE  ManagersOf(p) = LastLogged(p)
    <2>1. \A v \in Web : handler[v].pc \in AuditPCs => handler[v].point # p
        BY <1>2, <1>4
    <2> QED BY <1>1, <2>1 DEF ManagersHold
<1>5. ASSUME NEW v \in Web, handler'[v].point = p
      PROVE  /\ handler'[v].pc \in AuditPCs => ManagersOf(p) = handler'[v].users
             /\ handler'[v].pc = "assign.write" => handler'[v].existing = ManagersOf(p)
             /\ handler'[v].pc = "approve.add" => ManagersOf(p) = {}
    <2>1. CASE v = w
        BY <1>2, <1>5, <2>1
    <2>2. CASE v # w
        BY <1>1, <1>2, <1>5, <2>2 DEF ManagersHold, At
    <2> QED BY <2>1, <2>2
<1> QED BY <1>3, <1>4, <1>5 DEF ManagersHold, At

LEMMA ManagersDestroy ==
    ASSUME Typed, AllManagersHold, NEW w \in Web, DestroyWrite(w), clashed \subseteq clashed'
    PROVE  AllManagersHold'
<1> DEFINE d == handler[w].point
<1>1. /\ handler' = [handler EXCEPT ![w] = Idle] /\ gone' = gone \cup {d}
      /\ managers' = {m \in managers : m[1] # d} /\ UNCHANGED logged
      /\ handler[w].pc = "destroy.write"
    BY DEF DestroyWrite, Finish, Become, At
<1> SUFFICES ASSUME NEW p \in Points, p \notin gone', <<"managers", p>> \notin clashed'
             PROVE  ManagersHold(p)'
    BY DEF AllManagersHold, ManagersHold
<1>2. ManagersHold(p) /\ p \notin gone /\ <<"managers", p>> \notin clashed /\ p # d
    BY <1>1 DEF AllManagersHold
<1>3. ManagersOf(p)' = ManagersOf(p) /\ LastLogged(p)' = LastLogged(p)
    BY <1>1, <1>2 DEF ManagersOf, LastLogged
<1>4. \A v \in Web : \/ handler'[v] = handler[v]
                     \/ v = w /\ handler'[v].pc = "idle"
    BY <1>1 DEF Idle, Typed, TypeOK
<1>5. (\A v \in Web : handler'[v].pc \in AuditPCs => handler'[v].point # p)
        => \A v \in Web : handler[v].pc \in AuditPCs => handler[v].point # p
    BY <1>1, <1>4 DEF AuditPCs
<1>6. ASSUME NEW v \in Web, handler'[v].point = p
      PROVE  /\ handler'[v].pc \in AuditPCs => ManagersOf(p) = handler'[v].users
             /\ handler'[v].pc = "assign.write" => handler'[v].existing = ManagersOf(p)
             /\ handler'[v].pc = "approve.add" => ManagersOf(p) = {}
    <2>1. CASE handler'[v] = handler[v]
        BY <1>2, <1>6, <2>1 DEF ManagersHold, At
    <2>2. CASE handler'[v].pc = "idle"
        BY <2>2 DEF AuditPCs
    <2> QED BY <1>4, <2>1, <2>2
<1> QED BY <1>2, <1>3, <1>5, <1>6 DEF ManagersHold, At

(* The managers of one point become those of the call, which goes on to    *)
(* report them.                                                            *)
LEMMA ManagersWritten ==
    ASSUME Typed, OverlapSeen, AllManagersHold, NEW w \in Web, NEW h \in Handler, Become(w, h),
           handler[w].pc \in ManagerPCs \ AuditPCs,
           h.pc \in AuditPCs, h.point = handler[w].point,
           UNCHANGED <<logged, gone>>, clashed \subseteq clashed',
           \A p \in Points \ {h.point} : ManagersOf(p)' = ManagersOf(p),
           \/ ManagersOf(h.point)' = h.users
           \/ h.point \in gone
           \/ <<"managers", h.point>> \in clashed
    PROVE  AllManagersHold'
<1> SUFFICES ASSUME NEW p \in Points, p \notin gone', <<"managers", p>> \notin clashed'
             PROVE  ManagersHold(p)'
    BY DEF AllManagersHold, ManagersHold
<1>1. ManagersHold(p) /\ p \notin gone /\ <<"managers", p>> \notin clashed
    BY DEF AllManagersHold
<1>2. \A v \in Web : handler'[v] = IF v = w THEN h ELSE handler[v]
    BY DEF Become, Typed, TypeOK
<1>3. LastLogged(p)' = LastLogged(p)
    BY DEF LastLogged
<1>4. CASE p = h.point
    <2>1. ManagersOf(p)' = h.users
        BY <1>1, <1>4
    <2>2. ~\A v \in Web : handler'[v].pc \in AuditPCs => handler'[v].point # p
        BY <1>2, <1>4
    <2>3. ASSUME NEW v \in Web, v # w, handler'[v].point = p
          PROVE  handler'[v].pc \notin ManagerPCs
        BY <1>1, <1>2, <1>4, <2>3, TwoOnManagers
    <2>4. AuditPCs \cup {"assign.write", "approve.add"} \subseteq ManagerPCs
        BY DEF AuditPCs, ManagerPCs
    <2>5. h.pc # "assign.write" /\ h.pc # "approve.add"
        BY DEF AuditPCs
    <2>6. ASSUME NEW v \in Web, handler'[v].point = p
          PROVE  /\ handler'[v].pc \in AuditPCs => ManagersOf(p)' = handler'[v].users
                 /\ handler'[v].pc # "assign.write" /\ handler'[v].pc # "approve.add"
        BY <1>2, <2>1, <2>3, <2>4, <2>5, <2>6
    <2> QED BY <2>2, <2>6 DEF ManagersHold, At
<1>5. CASE p # h.point
    <2>1. ManagersOf(p)' = ManagersOf(p)
        BY <1>5
    <2>2. \A v \in Web : handler'[v].point = p => v # w /\ handler'[v] = handler[v]
        BY <1>2, <1>5
    <2>3. \A v \in Web : handler[v].point = p => v # w /\ handler'[v] = handler[v]
        BY <1>2, <1>5
    <2> QED BY <1>1, <1>3, <2>1, <2>2, <2>3 DEF ManagersHold, At
<1> QED BY <1>4, <1>5

LEMMA ManagersLogged ==
    ASSUME Typed, OverlapSeen, AllManagersHold, NEW w \in Web, LogManagers(w),
           clashed \subseteq clashed'
    PROVE  AllManagersHold'
<1> DEFINE a == handler[w].point
<1>1. /\ handler' = [handler EXCEPT ![w] = Idle] /\ UNCHANGED <<managers, gone>>
      /\ handler[w].pc \in AuditPCs
    BY DEF LogManagers, Finish, Become, At, AuditPCs
<1>2. /\ a \in Points /\ handler[w].users \subseteq Users
      /\ logged' = [logged EXCEPT ![a] = handler[w].users]
      /\ logged \in [Points -> (SUBSET Users) \cup {None}]
    BY LogManagersTyped DEF Typed, TypeOK
<1> SUFFICES ASSUME NEW p \in Points, p \notin gone', <<"managers", p>> \notin clashed'
             PROVE  ManagersHold(p)'
    BY DEF AllManagersHold, ManagersHold
<1>3. ManagersHold(p) /\ p \notin gone /\ <<"managers", p>> \notin clashed
    BY <1>1 DEF AllManagersHold
<1>4. \A v \in Web : handler'[v] = IF v = w THEN Idle ELSE handler[v]
    BY <1>1 DEF Typed, TypeOK
<1>5. ManagersOf(p)' = ManagersOf(p) /\ Idle.pc = "idle" /\ "idle" \notin AuditPCs
    BY <1>1 DEF ManagersOf, Idle, AuditPCs
<1>6. CASE p = a
    <2>1. ManagersOf(p) = handler[w].users
        BY <1>1, <1>3, <1>6 DEF ManagersHold
    <2>2. LastLogged(p)' = ManagersOf(p)
        <3>1. logged'[p] = handler[w].users
            BY <1>2, <1>6
        <3>2. handler[w].users # None
            BY <1>2, ListAssumption
        <3> QED BY <1>5, <2>1, <3>1, <3>2 DEF LastLogged
    <2>3. AuditPCs \cup {"assign.write", "approve.add"} \subseteq ManagerPCs
        BY DEF AuditPCs, ManagerPCs
    <2>4. ASSUME NEW v \in Web, handler'[v].point = p
          PROVE  handler'[v].pc \notin AuditPCs \cup {"assign.write", "approve.add"}
        <3>1. CASE v = w
            BY <1>4, <1>5, <3>1
        <3>2. CASE v # w
            <4>1. handler[v].pc \notin ManagerPCs
                BY <1>1, <1>3, <1>4, <1>6, <2>3, <2>4, <3>2, TwoOnManagers
            <4> QED BY <1>4, <2>3, <3>2, <4>1
        <3> QED BY <3>1, <3>2
    <2> QED BY <1>5, <2>2, <2>4 DEF ManagersHold, At
<1>7. CASE p # a
    <2>1. LastLogged(p)' = LastLogged(p)
        BY <1>2, <1>7 DEF LastLogged
    <2>2. \A v \in Web : handler[v].pc \in AuditPCs /\ handler[v].point = p
              => handler'[v] = handler[v]
        BY <1>4, <1>7
    <2>3. \A v \in Web : handler'[v] = handler[v] \/ handler'[v].pc = "idle"
        BY <1>4, <1>5
    <2>4. ASSUME NEW v \in Web, handler'[v].point = p
          PROVE  /\ handler'[v].pc \in AuditPCs => ManagersOf(p) = handler'[v].users
                 /\ handler'[v].pc = "assign.write" => handler'[v].existing = ManagersOf(p)
                 /\ handler'[v].pc = "approve.add" => ManagersOf(p) = {}
        <3>1. CASE handler'[v] = handler[v]
            BY <1>3, <2>4, <3>1 DEF ManagersHold, At
        <3>2. CASE handler'[v].pc = "idle"
            BY <1>5, <3>2
        <3> QED BY <2>3, <3>1, <3>2
    <2> QED BY <1>3, <1>5, <2>1, <2>2, <2>4 DEF ManagersHold, At
<1> QED BY <1>6, <1>7

(* managers.set() with what it has read, and managers.add() to nobody. *)
LEMMA ManagersAssign ==
    ASSUME Typed, OverlapSeen, AllManagersHold, NEW w \in Web, AssignWrite(w),
           clashed \subseteq clashed'
    PROVE  AllManagersHold'
<1> DEFINE p == handler[w].point
           users == handler[w].users
           existing == handler[w].existing
           removed == {p} \X (existing \ users)
           added == {p} \X (users \ existing)
<1>1. /\ handler[w] \in Handler /\ handler[w].pc = "assign.write"
      /\ handler[w].pc \in ManagerPCs \ AuditPCs
      /\ p \in Points /\ (Present(p) \/ p \in gone)
    BY HandlerTyped DEF AssignWrite, At, ManagerPCs, AuditPCs, PointPCs, Holds
<1>2. UNCHANGED <<points, meeting, logged, asked, gone>>
    BY DEF AssignWrite
<1>3. CASE Present(p) \/ added = {}
    <2>1. managers' = (managers \ removed) \cup added
          /\ Become(w, [handler[w] EXCEPT !.pc = "assign.audit"])
        BY <1>3 DEF AssignWrite, Goto
    <2>2. PICK h \in Handler : /\ Become(w, h) /\ h.pc = "assign.audit"
                               /\ h.point = p /\ h.users = users
        BY <2>1, GotoIs DEF PCs
    <2>3. users \subseteq Users
        BY <1>1 DEF Handler
    <2>4. \A q \in Points \ {p} : ManagersOf(q)' = ManagersOf(q)
        BY <2>1 DEF ManagersOf
    <2>5. \/ {u \in Users : <<p, u>> \in managers'} = users
          \/ p \in gone \/ <<"managers", p>> \in clashed
        <3>1. SUFFICES ASSUME p \notin gone, <<"managers", p>> \notin clashed
                       PROVE  {u \in Users : <<p, u>> \in managers'} = users
            OBVIOUS
        <3>2. existing = ManagersOf(p)
            BY <1>1, <3>1 DEF AllManagersHold, ManagersHold, At
        <3>3. \A u \in Users : <<p, u>> \in managers' <=> u \in users
            BY <2>1, <3>2 DEF ManagersOf
        <3> QED BY <2>3, <3>3
    <2>6. h.pc \in AuditPCs /\ ManagersOf(h.point)' = {u \in Users : <<p, u>> \in managers'}
        BY <2>2 DEF AuditPCs, ManagersOf
    <2> HIDE DEF p, users, existing, removed, added
    <2>7. h.point = handler[w].point
        BY <2>2 DEF p
    <2> QED BY <1>1, <1>2, <2>2, <2>4, <2>5, <2>6, <2>7, ManagersWritten
<1>4. CASE ~(Present(p) \/ added = {})
    <2>1. managers' = managers /\ Become(w, Idle)
        BY <1>4 DEF AssignWrite, Finish
    <2>2. Idle \in Handler /\ Idle.pc = "idle" /\ "idle" \notin AuditPCs
        BY IdleHolds DEF Idle, AuditPCs
    <2> QED BY <1>1, <1>2, <2>1, <2>2, ManagersAlone
<1> QED BY <1>3, <1>4

LEMMA ManagersApprove ==
    ASSUME Typed, OverlapSeen, AllManagersHold, NEW w \in Web, ApproveAdd(w),
           clashed \subseteq clashed'
    PROVE  AllManagersHold'
<1> DEFINE p == handler[w].point
           users == handler[w].users
<1>1. /\ handler[w] \in Handler /\ handler[w].pc = "approve.add"
      /\ handler[w].pc \in ManagerPCs \ AuditPCs
      /\ p \in Points /\ (Present(p) \/ p \in gone)
    BY HandlerTyped DEF ApproveAdd, At, ManagerPCs, AuditPCs, PointPCs, Holds
<1>2. UNCHANGED <<points, meeting, logged, asked, gone>>
    BY DEF ApproveAdd
<1>3. CASE Present(p)
    <2>1. managers' = managers \cup ({p} \X users)
          /\ Become(w, [handler[w] EXCEPT !.pc = "approve.audit"])
        BY <1>3 DEF ApproveAdd, Goto
    <2>2. PICK h \in Handler : /\ Become(w, h) /\ h.pc = "approve.audit"
                               /\ h.point = p /\ h.users = users
        BY <2>1, GotoIs DEF PCs
    <2>3. users \subseteq Users
        BY <1>1 DEF Handler
    <2>4. \A q \in Points \ {p} : ManagersOf(q)' = ManagersOf(q)
        BY <2>1 DEF ManagersOf
    <2>5. \/ {u \in Users : <<p, u>> \in managers'} = users
          \/ p \in gone \/ <<"managers", p>> \in clashed
        <3>1. SUFFICES ASSUME p \notin gone, <<"managers", p>> \notin clashed
                       PROVE  {u \in Users : <<p, u>> \in managers'} = users
            OBVIOUS
        <3>2. ManagersOf(p) = {}
            BY <1>1, <3>1 DEF AllManagersHold, ManagersHold, At
        <3>3. \A u \in Users : <<p, u>> \in managers' <=> u \in users
            BY <2>1, <3>2 DEF ManagersOf
        <3> QED BY <2>3, <3>3
    <2>6. h.pc \in AuditPCs /\ ManagersOf(h.point)' = {u \in Users : <<p, u>> \in managers'}
        BY <2>2 DEF AuditPCs, ManagersOf
    <2> HIDE DEF p, users
    <2>7. h.point = handler[w].point
        BY <2>2 DEF p
    <2> QED BY <1>1, <1>2, <2>2, <2>4, <2>5, <2>6, <2>7, ManagersWritten
<1>4. CASE ~Present(p)
    <2>1. managers' = managers /\ Become(w, Idle)
        BY <1>4 DEF ApproveAdd, Finish
    <2>2. Idle \in Handler /\ Idle.pc = "idle" /\ "idle" \notin AuditPCs
        BY IdleHolds DEF Idle, AuditPCs
    <2> QED BY <1>1, <1>2, <2>1, <2>2, ManagersAlone
<1> QED BY <1>3, <1>4

(* A handler that dies owing an audit row has clashed. *)
LEMMA ManagersCrash ==
    ASSUME Typed, AllManagersHold, NEW w \in Web, Crash(w),
           clashed' = clashed \cup Subjects(handler[w])
    PROVE  AllManagersHold'
<1>1. UNCHANGED <<managers, logged, gone>> /\ Become(w, Idle)
    BY DEF Crash, Finish, tables
<1>2. Idle \in Handler /\ Idle.pc = "idle" /\ "idle" \notin AuditPCs
    BY IdleHolds DEF Idle, AuditPCs
<1>3. handler[w].pc \in AuditPCs => <<"managers", handler[w].point>> \in Subjects(handler[w])
    BY HandlerTyped, SubjectsAre DEF Holds, PointPCs, ManagerPCs, AuditPCs
<1> QED BY <1>1, <1>2, <1>3, ManagersAlone

LEMMA NextManagers ==
    ASSUME Typed, OverlapSeen, AllManagersHold, Next, clashed \subseteq clashed'
    PROVE  AllManagersHold'
<1>1. ASSUME NEW p \in Points, NEW row \in Row, Create(p, row) PROVE AllManagersHold'
    BY <1>1 DEF Create, AllManagersHold, ManagersHold, ManagersOf, LastLogged, At
<1>2. ASSUME NEW w \in Web, NEW h \in Handler, Become(w, h),
             h.pc \notin AuditPCs \cup {"assign.write", "approve.add"},
             handler[w].pc \notin AuditPCs,
             UNCHANGED <<managers, logged, gone>>
      PROVE  AllManagersHold'
    BY <1>2, ManagersAlone
<1>3. ASSUME NEW w \in Web, At(w, "idle"), NEW h \in Handler, Become(w, h),
             h.pc \in {"patch.save", "destroy.write", "assign.read", "schedule.save"},
             UNCHANGED <<tables, asked, gone>>
      PROVE  AllManagersHold'
    BY <1>2, <1>3 DEF At, AuditPCs, tables
<1>4. ASSUME NEW w \in Web, NEW p \in Points, NEW row \in Row, NEW u \in Users,
             ApproveCreate(w, p, row, u)
      PROVE  AllManagersHold'
    <2> DEFINE h == [Idle EXCEPT !.pc = "approve.add", !.point = p, !.users = {u}]
    <2>1. h \in Handler /\ h.pc = "approve.add" /\ h.point = p
        BY DEF Idle, Handler, PCs
    <2>2. Become(w, h) /\ UNCHANGED <<managers, logged, gone>> /\ handler[w].pc = "idle"
        BY <1>4 DEF ApproveCreate, At
    <2>3. ManagersOf(p) = {}
        BY <1>4, InsertTyped DEF ApproveCreate, ManagersOf, Typed, TypeOK
    <2>4. "approve.add" \notin AuditPCs /\ "idle" \notin AuditPCs
        BY DEF AuditPCs
    <2> HIDE DEF h
    <2> QED BY <2>1, <2>2, <2>3, <2>4, ManagersAlone
<1>5. ASSUME NEW w \in Web, Arrive(w) PROVE AllManagersHold'
    <2>1. ASSUME NEW p \in Points, NEW col \in Columns, NEW v \in Values, PatchBegin(w, p, col, v)
          PROVE  AllManagersHold'
        BY <1>3, <2>1, PatchBeginIs DEF PatchBegin
    <2>2. ASSUME NEW p \in Points, DestroyBegin(w, p) PROVE AllManagersHold'
        BY <1>3, <2>2, DestroyBeginIs DEF DestroyBegin
    <2>3. ASSUME NEW p \in Points, NEW users \in SUBSET Users, AssignBegin(w, p, users)
          PROVE  AllManagersHold'
        BY <1>3, <2>3, AssignBeginIs DEF AssignBegin
    <2>4. ASSUME NEW e \in Exchanges, NEW p \in Points \cup {None}, ScheduleBegin(w, e, p)
          PROVE  AllManagersHold'
        BY <1>3, <2>4, ScheduleBeginIs DEF ScheduleBegin
    <2> QED BY <1>4, <1>5, <2>1, <2>2, <2>3, <2>4 DEF Arrive
<1>6. ASSUME NEW w \in Web, AssignRead(w) PROVE AllManagersHold'
    <2>1. PICK h \in Handler :
              /\ Become(w, h) /\ h.pc = "assign.write"
              /\ h.point = handler[w].point /\ h.existing = ManagersOf(handler[w].point)
        BY <1>6, AssignReadIs
    <2>2. /\ UNCHANGED <<managers, logged, gone>>
          /\ handler[w].pc \notin AuditPCs /\ h.pc \notin AuditPCs
        BY <1>6, <2>1 DEF AssignRead, At, AuditPCs, tables
    <2> QED BY <2>1, <2>2, ManagersAlone
<1>7. ASSUME NEW w \in Web, PatchSave(w) \/ ScheduleSave(w) PROVE AllManagersHold'
    <2>1. /\ UNCHANGED <<managers, logged, gone>> /\ Become(w, Idle)
          /\ handler[w].pc \notin AuditPCs
        BY <1>7 DEF PatchSave, ScheduleSave, At, Finish, AuditPCs
    <2>2. Idle \in Handler /\ Idle.pc \notin AuditPCs \cup {"assign.write", "approve.add"}
        BY IdleHolds DEF Idle, AuditPCs
    <2> QED BY <1>2, <2>1, <2>2
<1>8. ASSUME NEW w \in Web, Step(w) PROVE AllManagersHold'
    BY <1>6, <1>7, <1>8, ManagersDestroy, ManagersAssign, ManagersApprove, ManagersLogged
       DEF Step
<1> QED BY <1>1, <1>5, <1>8, ManagersCrash DEF Next

-----------------------------------------------------------------------------
(* MeetingHolds. *)

(* Steps that move no meeting: a call that begins keeps what it has read.  *)
LEMMA MeetingsAlone ==
    ASSUME Typed, MeetingsHold, NEW w \in Web, NEW h \in Handler, Become(w, h),
           UNCHANGED meeting, asked'.meeting = asked.meeting,
           gone \subseteq gone', clashed \subseteq clashed',
           h.pc = "schedule.save" /\ ~h.names => h.point = meeting[h.exch]
    PROVE  MeetingsHold'
<1> SUFFICES ASSUME NEW e \in Exchanges, <<"meeting", e>> \notin clashed'
             PROVE  MeetingHolds(e)'
    BY DEF MeetingsHold, MeetingHolds
<1>1. MeetingHolds(e) /\ <<"meeting", e>> \notin clashed
    BY DEF MeetingsHold
<1>2. \A v \in Web : handler'[v] = IF v = w THEN h ELSE handler[v]
    BY DEF Become, Typed, TypeOK
<1>3. ASSUME NEW v \in Web,
             handler'[v].pc = "schedule.save", handler'[v].exch = e, ~handler'[v].names
      PROVE  \/ handler'[v].point = meeting[e]
             \/ handler'[v].point \in gone' /\ asked.meeting[e] = None
    <2>1. CASE v = w
        BY <1>2, <1>3, <2>1
    <2>2. CASE v # w
        BY <1>1, <1>2, <1>3, <2>2 DEF MeetingHolds, At
    <2> QED BY <2>1, <2>2
<1> QED BY <1>1, <1>3 DEF MeetingHolds, At

(* Who was to meet at a deleted point meets nowhere, and so it was asked.  *)
LEMMA MeetingsDestroy ==
    ASSUME Typed, MeetingsHold, NEW w \in Web, DestroyWrite(w), clashed \subseteq clashed'
    PROVE  MeetingsHold'
<1> DEFINE d == handler[w].point
<1>1. /\ handler' = [handler EXCEPT ![w] = Idle] /\ gone' = gone \cup {d}
      /\ meeting' = [e \in Exchanges |-> IF meeting[e] = d THEN None ELSE meeting[e]]
      /\ asked' = [asked EXCEPT !.rows[d] = None,
                      !.meeting = [e \in Exchanges |-> IF @[e] = d THEN None ELSE @[e]]]
    BY DEF DestroyWrite, Finish, Become
<1>2. d \in Points /\ d # None
    BY DestroyWriteTyped, NoneIsNothing
<1>3. \A e \in Exchanges : asked'.meeting[e] = IF asked.meeting[e] = d THEN None
                                               ELSE asked.meeting[e]
    BY <1>1 DEF Typed, AskedType
<1> SUFFICES ASSUME NEW e \in Exchanges, <<"meeting", e>> \notin clashed'
             PROVE  MeetingHolds(e)'
    BY DEF MeetingsHold, MeetingHolds
<1>4. MeetingHolds(e) /\ <<"meeting", e>> \notin clashed
    BY DEF MeetingsHold
<1>5. \A v \in Web : handler'[v] = handler[v] \/ handler'[v].pc # "schedule.save"
    BY <1>1 DEF Idle, Typed, TypeOK
<1>6. \/ meeting'[e] = asked'.meeting[e]
      \/ asked'.meeting[e] = None /\ <<"row", meeting'[e]>> \in clashed'
    BY <1>1, <1>3, <1>4 DEF MeetingHolds
<1>7. ASSUME NEW v \in Web,
             handler'[v].pc = "schedule.save", handler'[v].exch = e, ~handler'[v].names
      PROVE  \/ handler'[v].point = meeting'[e]
             \/ handler'[v].point \in gone' /\ asked'.meeting[e] = None
    <2>1. \/ handler'[v].point = meeting[e]
          \/ handler'[v].point \in gone /\ asked.meeting[e] = None
        BY <1>4, <1>5, <1>7 DEF MeetingHolds, At
    <2>2. CASE meeting[e] = d
        <3>1. asked'.meeting[e] = None
            BY <1>3, <1>4, <2>2 DEF MeetingHolds
        <3> QED BY <1>1, <2>1, <2>2, <3>1
    <2>3. CASE meeting[e] # d
        BY <1>1, <1>3, <2>1, <2>3
    <2> QED BY <2>2, <2>3
<1> QED BY <1>6, <1>7 DEF MeetingHolds, At

(* A call that only changes the time saves what there is; or a point that  *)
(* was deleted and, if it can be saved at all, came back through a clash.  *)
LEMMA MeetingsSave ==
    ASSUME Typed, OverlapSeen, RowsHold, MeetingsHold, NEW w \in Web, ScheduleSave(w),
           clashed \subseteq clashed'
    PROVE  MeetingsHold'
<1> DEFINE h == handler[w]
<1>1. /\ h \in Handler /\ h.pc = "schedule.save" /\ h.exch \in Exchanges
      /\ UNCHANGED <<points, gone>> /\ Become(w, Idle)
    BY HandlerTyped DEF ScheduleSave, At, Holds, Finish
<1>2. Idle \in Handler /\ Idle.pc # "schedule.save"
    BY IdleHolds DEF Idle
<1>3. CASE ~(h.point = None \/ Present(h.point))
    BY <1>1, <1>2, <1>3, MeetingsAlone DEF ScheduleSave
<1>4. CASE h.point = None \/ Present(h.point)
    <2>1. /\ meeting' = [meeting EXCEPT ![h.exch] = h.point]
          /\ asked' = IF h.names THEN [asked EXCEPT !.meeting[h.exch] = h.point] ELSE asked
        BY <1>4 DEF ScheduleSave
    <2>2. \A e \in Exchanges : meeting'[e] = IF e = h.exch THEN h.point ELSE meeting[e]
        BY <1>1, <2>1 DEF Typed, TypeOK
    <2>3. \A e \in Exchanges : asked'.meeting[e] = IF e = h.exch /\ h.names THEN h.point
                                                   ELSE asked.meeting[e]
        BY <1>1, <2>1 DEF Typed, AskedType
    <2>4. \A v \in Web : handler'[v] = IF v = w THEN Idle ELSE handler[v]
        BY <1>1 DEF Become, Typed, TypeOK
    <2> SUFFICES ASSUME NEW e \in Exchanges, <<"meeting", e>> \notin clashed'
                 PROVE  MeetingHolds(e)'
        BY DEF MeetingsHold, MeetingHolds
    <2>5. MeetingHolds(e) /\ <<"meeting", e>> \notin clashed
        BY DEF MeetingsHold
    <2>6. CASE e # h.exch
        BY <1>1, <1>2, <2>2, <2>3, <2>4, <2>5, <2>6 DEF MeetingHolds, At
    <2>7. CASE e = h.exch
        <3>1. ASSUME NEW v \in Web
              PROVE  ~(handler'[v].pc = "schedule.save" /\ handler'[v].exch = e)
            BY <1>1, <1>2, <2>4, <2>5, <2>7, TwoOnMeeting
        <3>2. \/ meeting'[e] = asked'.meeting[e]
              \/ asked'.meeting[e] = None /\ <<"row", meeting'[e]>> \in clashed'
            <4>1. CASE h.names
                BY <2>2, <2>3, <2>7, <4>1
            <4>2. CASE ~h.names /\ h.point = meeting[e]
                BY <2>2, <2>3, <2>5, <2>7, <4>2 DEF MeetingHolds
            <4>3. CASE ~h.names /\ h.point # meeting[e]
                <5>1. h.point \in gone /\ asked.meeting[e] = None
                    BY <1>1, <2>5, <2>7, <4>3 DEF MeetingHolds, At
                <5>2. h.point \in Points
                    BY <5>1 DEF Typed, TypeOK
                <5>3. Present(h.point)
                    BY <1>4, <5>2, NoneIsNothing
                <5>4. <<"row", h.point>> \in clashed
                    BY <5>1, <5>2, <5>3 DEF RowsHold, RowHolds
                <5> QED BY <2>2, <2>3, <2>7, <4>3, <5>1, <5>4
            <4> QED BY <4>1, <4>2, <4>3
        <3> QED BY <3>1, <3>2 DEF MeetingHolds, At
    <2> QED BY <2>6, <2>7
<1> QED BY <1>3, <1>4

LEMMA NextMeetings ==
    ASSUME Typed, OverlapSeen, RowsHold, MeetingsHold, Next, clashed \subseteq clashed'
    PROVE  MeetingsHold'
<1>1. ASSUME NEW p \in Points, NEW row \in Row, Create(p, row) PROVE MeetingsHold'
    <2>1. UNCHANGED <<meeting, handler, gone>> /\ asked'.meeting = asked.meeting
        BY <1>1, InsertTyped DEF Create
    <2> QED BY <2>1 DEF MeetingsHold, MeetingHolds, At
<1>2. ASSUME NEW w \in Web, NEW h \in Handler, Become(w, h), h.pc # "schedule.save",
             UNCHANGED <<meeting, gone>>, asked'.meeting = asked.meeting
      PROVE  MeetingsHold'
    BY <1>2, MeetingsAlone
<1>3. Idle \in Handler /\ Idle.pc = "idle"
    BY IdleHolds DEF Idle
<1>4. ASSUME NEW w \in Web, Arrive(w) PROVE MeetingsHold'
    <2>1. ASSUME NEW p \in Points, NEW col \in Columns, NEW v \in Values, PatchBegin(w, p, col, v)
          PROVE  MeetingsHold'
        BY <1>2, <2>1, PatchBeginIs DEF PatchBegin, tables
    <2>2. ASSUME NEW p \in Points, DestroyBegin(w, p) PROVE MeetingsHold'
        BY <1>2, <2>2, DestroyBeginIs DEF DestroyBegin, tables
    <2>3. ASSUME NEW p \in Points, NEW users \in SUBSET Users, AssignBegin(w, p, users)
          PROVE  MeetingsHold'
        BY <1>2, <2>3, AssignBeginIs DEF AssignBegin, tables
    <2>4. ASSUME NEW e \in Exchanges, NEW p \in Points \cup {None}, ScheduleBegin(w, e, p)
          PROVE  MeetingsHold'
        <3>1. UNCHANGED <<meeting, gone, asked>>
            BY <2>4 DEF ScheduleBegin, tables
        <3> QED BY <2>4, <3>1, ScheduleBeginIs, MeetingsAlone
    <2>5. ASSUME NEW p \in Points, NEW row \in Row, NEW u \in Users, ApproveCreate(w, p, row, u)
          PROVE  MeetingsHold'
        <3> DEFINE h == [Idle EXCEPT !.pc = "approve.add", !.point = p, !.users = {u}]
        <3>1. h \in Handler /\ h.pc = "approve.add"
            BY DEF Idle, Handler, PCs
        <3>2. Become(w, h) /\ UNCHANGED <<meeting, gone>> /\ asked'.meeting = asked.meeting
            BY <2>5, InsertTyped DEF ApproveCreate
        <3> HIDE DEF h
        <3> QED BY <1>2, <3>1, <3>2
    <2> QED BY <1>4, <2>1, <2>2, <2>3, <2>4, <2>5 DEF Arrive
<1>5. ASSUME NEW w \in Web, AssignRead(w) PROVE MeetingsHold'
    BY <1>2, <1>5, AssignReadIs DEF AssignRead, tables
<1>6. ASSUME NEW w \in Web, AssignWrite(w) \/ ApproveAdd(w) PROVE MeetingsHold'
    <2>1. UNCHANGED <<meeting, gone>> /\ asked'.meeting = asked.meeting
        BY <1>6 DEF AssignWrite, ApproveAdd
    <2> QED BY <1>2, <1>3, <1>6, <2>1, AssignWriteIs, ApproveAddIs
<1>7. ASSUME NEW w \in Web, PatchSave(w) \/ LogManagers(w) \/ Crash(w) PROVE MeetingsHold'
    <2>1. UNCHANGED <<meeting, gone>> /\ Become(w, Idle)
        BY <1>7 DEF PatchSave, LogManagers, Crash, Finish, tables
    <2>2. asked'.meeting = asked.meeting
        BY <1>7 DEF PatchSave, LogManagers, Crash, Typed, AskedType
    <2> QED BY <1>2, <1>3, <2>1, <2>2
<1>8. ASSUME NEW w \in Web, Step(w) PROVE MeetingsHold'
    BY <1>5, <1>6, <1>7, <1>8, MeetingsDestroy, MeetingsSave DEF Step
<1> QED BY <1>1, <1>4, <1>7, <1>8 DEF Next

-----------------------------------------------------------------------------
LEMMA InitHolds == Init => IInv
<1> SUFFICES ASSUME Init PROVE IInv
    OBVIOUS
<1>1. Typed
    <2>1. TypeOK
        <3>1. /\ points \in [Points -> Row \cup {None}]
              /\ meeting \in [Exchanges -> {p \in Points : Present(p)} \cup {None}]
              /\ logged \in [Points -> (SUBSET Users) \cup {None}]
            BY DEF Init
        <3>2. handler \in [Web -> Handler]
            BY IdleHolds DEF Init
        <3>3. /\ managers \subseteq {p \in Points : Present(p)} \X Users
              /\ gone \subseteq Points
              /\ clashed \subseteq ({"row", "managers"} \X Points) \cup ({"meeting"} \X Exchanges)
            BY DEF Init
        <3> QED BY <3>1, <3>2, <3>3 DEF TypeOK
    <2>2. asked \in AskedType
        BY DEF Init, AskedType
    <2> QED BY <2>1, <2>2, IdleHolds DEF Init, Typed
<1>2. OverlapSeen
    BY IdleHolds DEF Init, OverlapSeen
<1>3. \A w \in Web : handler[w].pc = "idle"
    BY DEF Init, Idle
<1>4. RowsHold
    BY <1>3 DEF Init, RowsHold, RowHolds, Present, At
<1>5. AllManagersHold
    BY <1>3 DEF Init, AllManagersHold, ManagersHold, ManagersOf, LastLogged, AuditPCs, At
<1>6. MeetingsHold
    BY <1>3 DEF Init, MeetingsHold, MeetingHolds, At
<1> QED BY <1>1, <1>2, <1>4, <1>5, <1>6 DEF IInv

LEMMA NextHolds == IInv /\ [Next]_vars => IInv'
<1> SUFFICES ASSUME IInv, [Next]_vars PROVE IInv'
    OBVIOUS
<1>1. CASE Next
    <2>1. Typed' /\ OverlapSeen' /\ clashed \subseteq clashed'
        BY <1>1, NextClashes DEF IInv
    <2> QED BY <1>1, <2>1, NextRows, NextManagers, NextMeetings DEF IInv
<1>2. CASE UNCHANGED vars
    <2> USE <1>2 DEF vars
    <2>1. Typed'
        BY DEF IInv, Typed, TypeOK, Holds, Present
    <2>2. OverlapSeen' /\ RowsHold'
        BY DEF IInv, OverlapSeen, RowsHold, RowHolds, Present, At
    <2>3. AllManagersHold' /\ MeetingsHold'
        BY DEF IInv, AllManagersHold, ManagersHold, ManagersOf, LastLogged,
               MeetingsHold, MeetingHolds, At
    <2> QED BY <2>1, <2>2, <2>3 DEF IInv
<1> QED BY <1>1, <1>2

LEMMA IInvAlways == Spec => []IInv
BY InitHolds, NextHolds, PTL DEF Spec

(* A point that is not being edited is what the calls about it asked for,  *)
(* and has the managers the audit log names, unless two of them clashed.   *)
THEOREM PointsAsAsked == Spec => []PointsAreAsAsked
<1>1. IInv => PointsAreAsAsked
    <2> SUFFICES ASSUME IInv PROVE ManagersAreLogged /\ RowsAreAsAsked
        BY DEF PointsAreAsAsked
    <2>1. ManagersAreLogged
        <3> SUFFICES ASSUME NEW p \in Points \ gone, Settled(<<"managers", p>>)
                     PROVE  ManagersOf(p) = LastLogged(p)
            BY DEF ManagersAreLogged, LastLogged
        <3>1. \A w \in Web : handler[w].pc \in AuditPCs => handler[w].point # p
            BY HandlerTyped, SubjectsAre DEF IInv, Settled, AuditPCs, ManagerPCs
        <3> QED BY <3>1 DEF IInv, Settled, AllManagersHold, ManagersHold
    <2>2. RowsAreAsAsked
        BY DEF IInv, RowsHold, RowHolds, RowsAreAsAsked, Settled
    <2> QED BY <2>1, <2>2
<1> QED BY <1>1, IInvAlways, PTL

(* The parties meet where they last agreed to, and a new time moves        *)
(* nobody: schedule_exchange saves the point with the time.                *)
THEOREM MeetingsAsAgreed == Spec => []MeetingsStand
<1>1. IInv => MeetingsStand
    BY DEF IInv, MeetingsHold, MeetingHolds, MeetingsStand, Settled
<1> QED BY <1>1, IInvAlways, PTL

(* Only a PATCH that overlapped the deletion of a point brings it back.    *)
THEOREM GoneForGood == Spec => []GoneStaysGone
<1>1. IInv => GoneStaysGone
    BY DEF IInv, Typed, TypeOK, RowsHold, RowHolds, GoneStaysGone
<1> QED BY <1>1, IInvAlways, PTL
=============================================================================

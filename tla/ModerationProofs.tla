-------------------------- MODULE ModerationProofs ---------------------------
(***************************************************************************)
(* Proofs about Moderation, for any number of reports, rows, moderators    *)
(* and processes.                                                          *)
(*                                                                         *)
(* RecordsAreTrue is not inductive: it needs that a handler past its save  *)
(* works on a decided report (HandlerHolds), and that a decided report is  *)
(* never undecided.  RecordsAgree needs that nobody else has the report in *)
(* hand that one handler has (AgreeInv).  The properties about records     *)
(* that are owed are proved by what starts and what ends such a debt.      *)
(***************************************************************************)
EXTENDS Moderation, TLAPS

(* What a handler that is in the middle of a decision knows of its report. *)
HandlerHolds ==
    \A w \in Web :
        /\ \A r \in handler[w].todo : reports[r].status # "unborn"
        /\ handler[w].pc \in {"decide.save", "decide.audit", "decide.tell"} =>
              /\ handler[w].report \in Reports
              /\ handler[w].by \in Moderators
              /\ reports[handler[w].report].status # "unborn"
        /\ handler[w].pc \in {"decide.audit", "decide.tell"} => Decided(handler[w].report)
        /\ handler[w].pc = "decide.next" => handler[w].by \in Moderators

(* The inductive invariant of what holds whoever dies. *)
IInv == TypeOK /\ HandlerHolds /\ RecordsAreTrue

(* A decision never makes a report unborn, open or undecided. *)
Monotone ==
    \A r \in Reports :
        /\ reports[r].status # "unborn" => reports'[r].status # "unborn"
        /\ Decided(r) => Decided(r)'

(* Nothing is filed, decided or logged in the initial state. *)
LEMMA InitIInv == Init => IInv
  BY NoneAssumption DEF Init, IInv, TypeOK, HandlerHolds, RecordsAreTrue,
     Idle, Handler, ReportRow, Outcomes, Decided

(* A locals record of the right type keeps the table of handlers typed. *)
LEMMA BecomeTyped ==
    ASSUME NEW w \in Web, NEW h \in Handler, handler \in [Web -> Handler], Become(w, h)
    PROVE  /\ handler' \in [Web -> Handler]
           /\ contested \subseteq Reports => contested' \subseteq Reports
  BY DEF Become

(* Every action keeps the types of rows and locals. *)
LEMMA TypeStep == ASSUME TypeOK, HandlerHolds, [Next]_vars PROVE TypeOK'
<1> USE DEF TypeOK, Goto, At, filed, listed
<1> Idle \in Handler
  BY DEF Idle, Handler, Outcomes
<1>1. CASE UNCHANGED vars
  BY <1>1 DEF vars
<1>2. ASSUME NEW w \in Web, NEW u \in Users, NEW t \in Targets, FileReport(w, u, t)
      PROVE  TypeOK'
  BY <1>2 DEF FileReport, ReportRow
<1>3. ASSUME NEW w \in Web, NEW r \in Reports, NEW o \in Outcomes, NEW a \in Moderators,
             DecideBegin(w, r, o, a)
      PROVE  TypeOK'
  <2>1. [Idle EXCEPT !.pc = "decide.save", !.report = r, !.outcome = o, !.by = a] \in Handler
    BY DEF Idle, Handler
  <2> QED BY <1>3, <2>1, BecomeTyped DEF DecideBegin
<1>4. ASSUME NEW w \in Web, NEW R \in SUBSET Reports, NEW o \in Outcomes,
             NEW a \in Moderators, BulkDecideBegin(w, R, o, a)
      PROVE  TypeOK'
  <2>1. [Idle EXCEPT !.pc = "decide.next", !.todo = R \cap Open, !.outcome = o, !.by = a]
           \in Handler
    BY DEF Idle, Handler
  <2> QED BY <1>4, <2>1, BecomeTyped DEF BulkDecideBegin
<1>5. ASSUME NEW w \in Web, NEW S \in SUBSET Rows, NEW v \in BOOLEAN,
             NEW f \in {FALSE, Filtered}, BulkUpdate(w, S, f, v)
      PROVE  TypeOK'
  <2>1. active' \in [Rows -> BOOLEAN]
    BY <1>5 DEF BulkUpdate
  <2>2. f \in BOOLEAN
    BY SwitchesAssumption
  <2>3. [Idle EXCEPT !.pc = "bulk.fetch", !.sel = S, !.set = v, !.filtered = f] \in Handler
    BY <2>2 DEF Idle, Handler
  <2> QED BY <1>5, <2>1, <2>3, BecomeTyped DEF BulkUpdate
<1>6. ASSUME NEW w \in Web, BulkDecideNext(w)
      PROVE  TypeOK'
  <2> PICK r \in handler[w].todo :
        Become(w, [handler[w] EXCEPT !.pc = "decide.save", !.report = r, !.todo = @ \ {r}])
    BY <1>6 DEF BulkDecideNext
  <2>1. [handler[w] EXCEPT !.pc = "decide.save", !.report = r, !.todo = @ \ {r}] \in Handler
    BY DEF Handler
  <2> QED BY <1>6, <2>1, BecomeTyped DEF BulkDecideNext
<1>7. ASSUME NEW w \in Web, DecideSave(w)
      PROVE  TypeOK'
  <2>1. handler[w].outcome \in Outcomes /\ handler[w].by \in Moderators \cup {None}
    BY DEF Handler
  <2>2. reports' \in [Reports -> ReportRow]
    BY <1>7, <2>1 DEF DecideSave, ReportRow
  <2>3. [handler[w] EXCEPT !.pc = "decide.audit"] \in Handler
    BY DEF Handler
  <2> QED BY <1>7, <2>2, <2>3, BecomeTyped DEF DecideSave
<1>8. ASSUME NEW w \in Web, DecideAudit(w)
      PROVE  TypeOK'
  <2>1. <<handler[w].report, handler[w].outcome, handler[w].by>>
           \in Reports \X Outcomes \X Moderators
    BY <1>8 DEF DecideAudit, HandlerHolds, Handler
  <2>2. [handler[w] EXCEPT !.pc = "decide.tell"] \in Handler
    BY DEF Handler
  <2> QED BY <1>8, <2>1, <2>2, BecomeTyped DEF DecideAudit
<1>9. ASSUME NEW w \in Web, DecideTell(w)
      PROVE  TypeOK'
  <2>1. told' \in [Reports -> [Outcomes -> 0..2]]
    <3> DEFINE r == handler[w].report
               o == handler[w].outcome
               more == IF told[r][o] = 2 THEN 2 ELSE told[r][o] + 1
    <3>1. r \in Reports /\ o \in Outcomes
      BY <1>9 DEF DecideTell, HandlerHolds, Handler
    <3>2. told[r] \in [Outcomes -> 0..2] /\ told[r][o] \in 0..2
      BY <3>1
    <3>3. more \in 0..2
      BY <3>2
    <3>4. [told[r] EXCEPT ![o] = more] \in [Outcomes -> 0..2]
      BY <3>2, <3>3
    <3>5. told' = [told EXCEPT ![r] = [told[r] EXCEPT ![o] = more]]
      BY <1>9 DEF DecideTell
    <3> QED BY <3>4, <3>5
  <2>2. [handler[w] EXCEPT !.pc = "decide.next"] \in Handler
    BY DEF Handler
  <2> QED BY <1>9, <2>1, <2>2, BecomeTyped DEF DecideTell, AfterDecision
<1>10. ASSUME NEW w \in Web, BulkFetch(w)
       PROVE  TypeOK'
  <2> DEFINE found == Selected(handler[w].sel, handler[w].filtered, handler[w].set)
  <2>1. found \in SUBSET Rows
    BY DEF Selected, Handler
  <2>2. [handler[w] EXCEPT !.pc = "bulk.audit", !.sel = found] \in Handler
    BY <2>1 DEF Handler
  <2>3. Become(w, Idle) \/ Become(w, [handler[w] EXCEPT !.pc = "bulk.audit", !.sel = found])
    BY <1>10 DEF BulkFetch
  <2> QED BY <1>10, <2>2, <2>3, BecomeTyped DEF BulkFetch
<1>11. ASSUME NEW w \in Web, BulkAudit(w)
       PROVE  TypeOK'
  <2> PICK x \in handler[w].sel :
          /\ trail' = [trail EXCEPT ![x][handler[w].set] = @ + 1]
          /\ Become(w, IF handler[w].sel = {x} THEN Idle
                       ELSE [handler[w] EXCEPT !.sel = @ \ {x}])
    BY <1>11 DEF BulkAudit
  <2>1. x \in Rows /\ handler[w].set \in BOOLEAN
    BY DEF Handler
  <2>5. trail' \in [Rows -> [BOOLEAN -> Nat]]
    <3>1. trail[x] \in [BOOLEAN -> Nat]
      BY <2>1
    <3>2. [trail[x] EXCEPT ![handler[w].set] = trail[x][handler[w].set] + 1] \in [BOOLEAN -> Nat]
      BY <2>1, <3>1
    <3> QED BY <3>2
  <2>2. [handler[w] EXCEPT !.sel = @ \ {x}] \in Handler
    BY DEF Handler
  <2>3. Become(w, Idle) \/ Become(w, [handler[w] EXCEPT !.sel = @ \ {x}])
    OBVIOUS
  <2>4. handler' \in [Web -> Handler] /\ contested' \subseteq Reports
    BY <2>2, <2>3, BecomeTyped
  <2> QED BY <1>11, <2>4, <2>5 DEF BulkAudit
<1>12. ASSUME NEW w \in Web, Crash(w)
       PROVE  TypeOK'
  <2>1. Owed(handler[w]) \subseteq Reports
    BY DEF Owed, HandlerHolds
  <2>2. handler' \in [Web -> Handler] /\ contested' \subseteq Reports
    BY <1>12, BecomeTyped DEF Crash
  <2> QED BY <1>12, <2>1, <2>2 DEF Crash
<1> HIDE DEF TypeOK
<1> QED
  BY <1>1, <1>2, <1>3, <1>4, <1>5, <1>6, <1>7, <1>8, <1>9, <1>10, <1>11, <1>12
     DEF Next, Arrive, Step

(* Only FileReport and DecideSave write reports, and neither undoes one. *)
LEMMA MonotoneStep == ASSUME TypeOK, [Next]_vars PROVE Monotone
<1> USE DEF Monotone, Decided
<1>1. ASSUME NEW w \in Web, NEW u \in Users, NEW t \in Targets, FileReport(w, u, t)
      PROVE  Monotone
  BY <1>1 DEF FileReport, TypeOK, ReportRow, Outcomes
<1>2. ASSUME NEW w \in Web, DecideSave(w)
      PROVE  Monotone
  BY <1>2 DEF DecideSave, TypeOK, ReportRow, Handler, Outcomes
<1>3. ASSUME reports' = reports
      PROVE  Monotone
  BY <1>3
<1> QED
  BY <1>1, <1>2, <1>3 DEF Next, Arrive, Step, DecideBegin, BulkDecideBegin, BulkUpdate,
     BulkDecideNext, DecideAudit, DecideTell, BulkFetch, BulkAudit, Crash, vars, filed, listed

(* HandlerHolds of the handlers that do not move follows from Monotone;    *)
(* the one that does re-establishes its own.                               *)
LEMMA HandlerStep == ASSUME TypeOK, HandlerHolds, [Next]_vars PROVE HandlerHolds'
<1> USE DEF At, Become, Goto
<1> DEFINE Holds(h) ==
        /\ \A r \in h.todo : reports'[r].status # "unborn"
        /\ h.pc \in {"decide.save", "decide.audit", "decide.tell"} =>
              /\ h.report \in Reports
              /\ h.by \in Moderators
              /\ reports'[h.report].status # "unborn"
        /\ h.pc \in {"decide.audit", "decide.tell"} => reports'[h.report].status \in Outcomes
        /\ h.pc = "decide.next" => h.by \in Moderators
<1>1. Monotone /\ handler \in [Web -> Handler]
  BY MonotoneStep DEF TypeOK
<1>2. \A w \in Web : Holds(handler[w])
  <2> SUFFICES ASSUME NEW w \in Web PROVE Holds(handler[w])
    OBVIOUS
  <2>1. handler[w].todo \subseteq Reports
    BY <1>1 DEF Handler
  <2> QED BY <1>1, <2>1 DEF HandlerHolds, Monotone, Decided
<1>3. Holds(Idle)
  BY DEF Idle
<1>4. SUFFICES \A w \in Web : Holds(handler'[w])
  BY DEF HandlerHolds, Decided
<1>5. ASSUME NEW w \in Web, NEW h, Become(w, h), Holds(h)
      PROVE  \A v \in Web : Holds(handler'[v])
  BY <1>1, <1>2, <1>5
<1>6. ASSUME NEW w \in Web, NEW u \in Users, NEW t \in Targets, FileReport(w, u, t)
      PROVE  \A v \in Web : Holds(handler'[v])
  BY <1>2, <1>6 DEF FileReport
<1>7. ASSUME NEW w \in Web, NEW r \in Reports, NEW o \in Outcomes, NEW a \in Moderators,
             DecideBegin(w, r, o, a)
      PROVE  \A v \in Web : Holds(handler'[v])
  <2>1. Holds([Idle EXCEPT !.pc = "decide.save", !.report = r, !.outcome = o, !.by = a])
    BY <1>7 DEF DecideBegin, Idle, filed
  <2> QED BY <1>5, <1>7, <2>1 DEF DecideBegin
<1>8. ASSUME NEW w \in Web, NEW R \in SUBSET Reports, NEW o \in Outcomes,
             NEW a \in Moderators, BulkDecideBegin(w, R, o, a)
      PROVE  \A v \in Web : Holds(handler'[v])
  <2>1. Holds([Idle EXCEPT !.pc = "decide.next", !.todo = R \cap Open,
                           !.outcome = o, !.by = a])
    BY <1>8 DEF BulkDecideBegin, Idle, Open, filed
  <2> QED BY <1>5, <1>8, <2>1 DEF BulkDecideBegin
<1>9. ASSUME NEW w \in Web, NEW S \in SUBSET Rows, NEW v \in BOOLEAN,
             NEW f \in {FALSE, Filtered}, BulkUpdate(w, S, f, v)
      PROVE  \A x \in Web : Holds(handler'[x])
  <2>1. Holds([Idle EXCEPT !.pc = "bulk.fetch", !.sel = S, !.set = v, !.filtered = f])
    BY DEF Idle
  <2> QED BY <1>5, <1>9, <2>1 DEF BulkUpdate
<1>10. ASSUME NEW w \in Web, BulkDecideNext(w)
       PROVE  \A v \in Web : Holds(handler'[v])
  <2> PICK r \in handler[w].todo :
        Become(w, [handler[w] EXCEPT !.pc = "decide.save", !.report = r, !.todo = @ \ {r}])
    BY <1>10 DEF BulkDecideNext
  <2>1. r \in Reports /\ handler[w] \in Handler
    BY <1>1 DEF Handler
  <2>2. Holds([handler[w] EXCEPT !.pc = "decide.save", !.report = r, !.todo = @ \ {r}])
    BY <1>2, <1>10, <2>1 DEF BulkDecideNext, Handler
  <2> QED BY <1>5, <2>2
<1>11. ASSUME NEW w \in Web, DecideSave(w)
       PROVE  \A v \in Web : Holds(handler'[v])
  <2>1. handler[w].report \in Reports /\ handler[w] \in Handler
    BY <1>1, <1>11 DEF DecideSave, HandlerHolds
  <2>2. reports'[handler[w].report].status \in Outcomes
    BY <1>11, <2>1 DEF DecideSave, TypeOK, ReportRow, Handler
  <2>3. Holds([handler[w] EXCEPT !.pc = "decide.audit"])
    BY <1>2, <1>11, <2>1, <2>2 DEF DecideSave, Handler
  <2> QED BY <1>5, <1>11, <2>3 DEF DecideSave
<1>12. ASSUME NEW w \in Web, DecideAudit(w)
       PROVE  \A v \in Web : Holds(handler'[v])
  <2>1. handler[w] \in Handler
    BY <1>1
  <2>2. Holds([handler[w] EXCEPT !.pc = "decide.tell"])
    BY <1>2, <1>12, <2>1 DEF DecideAudit, Handler
  <2> QED BY <1>5, <1>12, <2>2 DEF DecideAudit
<1>13. ASSUME NEW w \in Web, DecideTell(w)
       PROVE  \A v \in Web : Holds(handler'[v])
  <2>1. handler[w] \in Handler
    BY <1>1
  <2>2. Holds([handler[w] EXCEPT !.pc = "decide.next"])
    BY <1>2, <1>13, <2>1 DEF DecideTell, Handler
  <2> QED BY <1>3, <1>5, <1>13, <2>2 DEF DecideTell, AfterDecision
<1>14. ASSUME NEW w \in Web, BulkFetch(w)
       PROVE  \A v \in Web : Holds(handler'[v])
  <2> DEFINE found == Selected(handler[w].sel, handler[w].filtered, handler[w].set)
  <2>1. handler[w] \in Handler
    BY <1>1
  <2>2. Holds([handler[w] EXCEPT !.pc = "bulk.audit", !.sel = found])
    BY <1>2, <2>1 DEF Handler
  <2>3. Become(w, Idle) \/ Become(w, [handler[w] EXCEPT !.pc = "bulk.audit", !.sel = found])
    BY <1>14 DEF BulkFetch
  <2> QED BY <1>3, <1>5, <2>2, <2>3
<1>15. ASSUME NEW w \in Web, BulkAudit(w)
       PROVE  \A v \in Web : Holds(handler'[v])
  <2> PICK x \in handler[w].sel :
        Become(w, IF handler[w].sel = {x} THEN Idle
                  ELSE [handler[w] EXCEPT !.sel = @ \ {x}])
    BY <1>15 DEF BulkAudit
  <2>1. handler[w] \in Handler
    BY <1>1
  <2>2. Holds([handler[w] EXCEPT !.sel = @ \ {x}])
    BY <1>2, <2>1 DEF Handler
  <2>3. Become(w, Idle) \/ Become(w, [handler[w] EXCEPT !.sel = @ \ {x}])
    OBVIOUS
  <2> QED BY <1>3, <1>5, <2>2, <2>3
<1>16. ASSUME NEW w \in Web, Crash(w)
       PROVE  \A v \in Web : Holds(handler'[v])
  BY <1>3, <1>5, <1>16 DEF Crash
<1>17. CASE UNCHANGED vars
  BY <1>2, <1>17 DEF vars
<1> QED
  BY <1>6, <1>7, <1>8, <1>9, <1>10, <1>11, <1>12, <1>13, <1>14, <1>15, <1>16, <1>17
     DEF Next, Arrive, Step

(* DecideAudit and DecideTell, the only writers of records, write about a  *)
(* report that HandlerHolds says is decided.                               *)
LEMMA RecordsStep ==
    ASSUME TypeOK, HandlerHolds, RecordsAreTrue, [Next]_vars PROVE RecordsAreTrue'
<1>1. Monotone
  BY MonotoneStep
<1>2. \A rec \in audited : Decided(rec[1])'
  BY <1>1 DEF RecordsAreTrue, TypeOK, Monotone
<1>3. \A r \in Reports, o \in Outcomes : told[r][o] > 0 => Decided(r)'
  BY <1>1 DEF RecordsAreTrue, Monotone
<1>4. ASSUME NEW w \in Web, DecideAudit(w)
      PROVE  RecordsAreTrue'
  <2>1. reports'[handler[w].report].status \in Outcomes
    BY <1>1, <1>4 DEF DecideAudit, At, HandlerHolds, Monotone, Decided
  <2>2. \A rec \in audited' : Decided(rec[1])'
    BY <1>2, <1>4, <2>1 DEF DecideAudit, Decided
  <2> QED BY <1>3, <1>4, <2>2 DEF DecideAudit, RecordsAreTrue
<1>5. ASSUME NEW w \in Web, DecideTell(w)
      PROVE  RecordsAreTrue'
  <2>1. reports'[handler[w].report].status \in Outcomes
    BY <1>1, <1>5 DEF DecideTell, At, HandlerHolds, Monotone, Decided
  <2>2. \A r \in Reports : r # handler[w].report => told'[r] = told[r]
    BY <1>5 DEF DecideTell, TypeOK
  <2>3. \A r \in Reports, o \in Outcomes : told'[r][o] > 0 => Decided(r)'
    BY <1>3, <2>1, <2>2 DEF Decided
  <2> QED BY <1>2, <1>5, <2>3 DEF DecideTell, RecordsAreTrue
<1>6. ASSUME audited' = audited, told' = told
      PROVE  RecordsAreTrue'
  BY <1>2, <1>3, <1>6 DEF RecordsAreTrue
<1> QED
  BY <1>4, <1>5, <1>6 DEF Next, Arrive, Step, FileReport, DecideBegin, BulkDecideBegin,
     BulkUpdate, BulkDecideNext, DecideSave, BulkFetch, BulkAudit, Crash, vars, filed, listed

(* The inductive invariant holds in every behaviour. *)
THEOREM Invariance == Spec => []IInv
<1>1. IInv /\ [Next]_vars => IInv'
  BY TypeStep, HandlerStep, RecordsStep DEF IInv
<1> QED BY InitIInv, <1>1, PTL DEF Spec

(* The handlers keep rows and locals of the declared types. *)
THEOREM TypeCorrect == Spec => []TypeOK
  BY Invariance, PTL DEF IInv

(* Audit rows and notices are about decided reports, whoever dies. *)
THEOREM RecordsTrue == Spec => []RecordsAreTrue
  BY Invariance, PTL DEF IInv

-----------------------------------------------------------------------------
(* What is owed until it is recorded, or lost with the process.            *)

(* DecideSave starts owing the audit row of what it writes, and takes that *)
(* of an overwritten decision off; only DecideAudit pays.                  *)
LEMMA LoggedStep ==
    ASSUME TypeOK, HandlerHolds, DecisionsAreLogged, [Next]_vars
    PROVE  DecisionsAreLogged'
<1> USE DEF At, Become, Goto
<1> DEFINE Owes(h, r) == /\ h.pc = "decide.audit" /\ h.report = r
                         /\ h.outcome = reports[r].status /\ h.by = reports[r].resolved_by
<1>1. ASSUME reports' = reports, audited' = audited, lost' = lost,
             \A v \in Web : handler[v].pc = "decide.audit" => handler'[v] = handler[v]
      PROVE  DecisionsAreLogged'
  BY <1>1 DEF DecisionsAreLogged, Decided
<1>2. ASSUME NEW w \in Web, NEW u \in Users, NEW t \in Targets, FileReport(w, u, t)
      PROVE  DecisionsAreLogged'
  <2> PICK p \in Reports : reports' = [reports EXCEPT ![p] =
          [status |-> "open", reporter |-> u, target |-> t, resolved_by |-> None]]
    BY <1>2 DEF FileReport
  <2>1. \A r \in Reports : Decided(r)' => reports'[r] = reports[r]
    BY DEF TypeOK, Decided, Outcomes
  <2> QED BY <1>2, <2>1 DEF FileReport, DecisionsAreLogged, Decided, listed
<1>3. ASSUME NEW w \in Web, DecideSave(w)
      PROVE  DecisionsAreLogged'
  <2>1. /\ handler[w].report \in Reports /\ handler[w] \in Handler
        /\ handler' = [handler EXCEPT ![w] = [handler[w] EXCEPT !.pc = "decide.audit"]]
    BY <1>3 DEF DecideSave, HandlerHolds, TypeOK
  <2>2. /\ reports'[handler[w].report].status = handler[w].outcome
        /\ reports'[handler[w].report].resolved_by = handler[w].by
        /\ \A r \in Reports : r # handler[w].report => reports'[r] = reports[r]
    BY <1>3, <2>1 DEF DecideSave, TypeOK, ReportRow
  <2>3. /\ handler'[w].pc = "decide.audit" /\ handler'[w].report = handler[w].report
        /\ handler'[w].outcome = handler[w].outcome /\ handler'[w].by = handler[w].by
        /\ \A v \in Web : v # w => handler'[v] = handler[v]
    BY <2>1 DEF TypeOK, Handler
  <2>4. SUFFICES ASSUME NEW r \in Reports \ lost, Decided(r)'
                 PROVE  \/ <<r, reports'[r].status, reports'[r].resolved_by>> \in audited'
                        \/ \E v \in Web : /\ handler'[v].pc = "decide.audit"
                                          /\ handler'[v].report = r
                                          /\ handler'[v].outcome = reports'[r].status
                                          /\ handler'[v].by = reports'[r].resolved_by
    BY <1>3 DEF DecisionsAreLogged, DecideSave
  <2>5. CASE r = handler[w].report
    BY <2>2, <2>3, <2>5
  <2>6. CASE r # handler[w].report
    <3>1. reports'[r] = reports[r] /\ Decided(r) /\ audited' = audited
      BY <1>3, <2>2, <2>4, <2>6 DEF Decided, DecideSave
    <3>2. CASE <<r, reports[r].status, reports[r].resolved_by>> \in audited
      BY <3>1, <3>2
    <3>3. ASSUME NEW v \in Web, Owes(handler[v], r)
          PROVE  /\ handler'[v].pc = "decide.audit" /\ handler'[v].report = r
                 /\ handler'[v].outcome = reports'[r].status
                 /\ handler'[v].by = reports'[r].resolved_by
      BY <1>3, <2>3, <3>1, <3>3 DEF DecideSave
    <3> QED BY <3>1, <3>2, <3>3 DEF DecisionsAreLogged
  <2> QED BY <2>5, <2>6
<1>4. ASSUME NEW w \in Web, DecideAudit(w)
      PROVE  DecisionsAreLogged'
  <2>1. \A v \in Web : v # w => handler'[v] = handler[v]
    BY <1>4 DEF DecideAudit, TypeOK
  <2>2. reports' = reports /\ lost' = lost /\ audited \subseteq audited'
        /\ <<handler[w].report, handler[w].outcome, handler[w].by>> \in audited'
    BY <1>4 DEF DecideAudit
  <2> QED BY <2>1, <2>2 DEF DecisionsAreLogged, Decided
<1>5. ASSUME NEW w \in Web, handler[w].pc # "decide.audit",
             reports' = reports, audited' = audited, lost' = lost,
             \E h : Become(w, h)
      PROVE  DecisionsAreLogged'
  BY <1>1, <1>5 DEF TypeOK
<1>6. CASE UNCHANGED vars
  BY <1>1, <1>6 DEF vars
<1>7. ASSUME NEW w \in Web, Crash(w)
      PROVE  DecisionsAreLogged'
  <2>1. \A v \in Web : v # w => handler'[v] = handler[v]
    BY <1>7 DEF Crash, TypeOK
  <2>2. /\ reports' = reports /\ audited' = audited /\ lost \subseteq lost'
        /\ handler[w].pc = "decide.audit" => handler[w].report \in lost'
    BY <1>7 DEF Crash, Owed, filed
  <2>3. SUFFICES ASSUME NEW r \in Reports \ lost', Decided(r)
                 PROVE  \/ <<r, reports[r].status, reports[r].resolved_by>> \in audited
                        \/ \E v \in Web : v # w /\ Owes(handler[v], r)
    BY <2>1, <2>2 DEF DecisionsAreLogged, Decided
  <2>4. r \in Reports \ lost
    BY <2>2
  <2> QED BY <2>2, <2>3, <2>4 DEF DecisionsAreLogged
<1>8. ASSUME NEW w \in Web, BulkFetch(w) \/ BulkAudit(w) \/ BulkDecideNext(w) \/ DecideTell(w)
      PROVE  DecisionsAreLogged'
  <2>1. \E h : Become(w, h)
    BY <1>8 DEF BulkFetch, BulkAudit, BulkDecideNext, DecideTell, AfterDecision
  <2> QED BY <1>5, <1>8, <2>1 DEF BulkFetch, BulkAudit, BulkDecideNext, DecideTell, filed
<1>9. ASSUME NEW w \in Web, NEW r, NEW o, NEW a, DecideBegin(w, r, o, a)
      PROVE  DecisionsAreLogged'
  BY <1>5, <1>9 DEF DecideBegin, filed
<1>10. ASSUME NEW w \in Web, NEW R, NEW o, NEW a, BulkDecideBegin(w, R, o, a)
       PROVE  DecisionsAreLogged'
  BY <1>5, <1>10 DEF BulkDecideBegin, filed
<1>11. ASSUME NEW w \in Web, NEW S, NEW f, NEW v, BulkUpdate(w, S, f, v)
       PROVE  DecisionsAreLogged'
  BY <1>5, <1>11 DEF BulkUpdate, filed
<1> QED
  BY <1>2, <1>3, <1>4, <1>6, <1>7, <1>8, <1>9, <1>10, <1>11 DEF Next, Arrive, Step

(* The decision of every report is in the audit log, with the moderator    *)
(* its row names, however decisions overlap, unless a process died that    *)
(* was deciding this report.                                               *)
THEOREM DecisionsLogged == Spec => []DecisionsAreLogged
<1>1. Init => DecisionsAreLogged
  BY DEF Init, DecisionsAreLogged, Decided, Outcomes
<1>2. IInv /\ DecisionsAreLogged /\ [Next]_vars => DecisionsAreLogged'
  BY LoggedStep DEF IInv
<1> QED BY <1>1, <1>2, Invariance, PTL DEF Spec

(* DecideSave makes the notice of its outcome due; only DecideTell and     *)
(* death end that.                                                         *)
LEMMA HeardStep ==
    ASSUME TypeOK, HandlerHolds, ReportersHear, [Next]_vars PROVE ReportersHear'
<1> USE DEF At, Become, Goto
<1>1. ASSUME NEW w \in Web, lost \subseteq lost',
             \A v \in Web : v # w => handler'[v] = handler[v],
             \A r \in Reports, o \in Outcomes : told[r][o] > 0 => told'[r][o] > 0,
             \A r \in Reports : Decided(r)' =>
                \/ Decided(r) /\ reports'[r].status = reports[r].status
                \/ Deciding(w, r)' /\ handler'[w].outcome = reports'[r].status,
             \A r \in Reports : Deciding(w, r) =>
                \/ Deciding(w, r)' /\ handler'[w].outcome = handler[w].outcome
                \/ told'[r][handler[w].outcome] > 0
                \/ r \in lost'
      PROVE  ReportersHear'
  <2> SUFFICES ASSUME NEW r \in Reports \ lost', Decided(r)',
                      ~(Deciding(w, r)' /\ handler'[w].outcome = reports'[r].status)
               PROVE  \/ told'[r][reports'[r].status] > 0
                      \/ \E v \in Web : Deciding(v, r)' /\ handler'[v].outcome = reports'[r].status
    BY DEF ReportersHear
  <2>1. Decided(r) /\ reports'[r].status = reports[r].status /\ reports[r].status \in Outcomes
    BY <1>1 DEF Decided
  <2>2. CASE told[r][reports[r].status] > 0
    BY <1>1, <2>1, <2>2
  <2>3. ASSUME NEW v \in Web, Deciding(v, r), handler[v].outcome = reports[r].status
        PROVE  \/ told'[r][reports'[r].status] > 0
               \/ Deciding(v, r)' /\ handler'[v].outcome = reports'[r].status
    BY <1>1, <2>1, <2>3 DEF Deciding
  <2>4. r \in Reports \ lost
    BY <1>1
  <2> QED BY <2>1, <2>2, <2>3, <2>4 DEF ReportersHear
<1>2. ASSUME NEW w \in Web, NEW u \in Users, NEW t \in Targets, FileReport(w, u, t)
      PROVE  ReportersHear'
  <2> PICK p \in Reports : reports' = [reports EXCEPT ![p] =
          [status |-> "open", reporter |-> u, target |-> t, resolved_by |-> None]]
    BY <1>2 DEF FileReport
  <2>1. \A r \in Reports : Decided(r)' => Decided(r) /\ reports'[r].status = reports[r].status
    BY DEF TypeOK, Decided, Outcomes
  <2> QED BY <1>1, <1>2, <2>1 DEF FileReport, Deciding
<1>3. ASSUME NEW w \in Web, DecideSave(w)
      PROVE  ReportersHear'
  <2>1. /\ handler'[w].pc = "decide.audit" /\ handler'[w].report = handler[w].report
        /\ handler'[w].outcome = handler[w].outcome
        /\ \A v \in Web : v # w => handler'[v] = handler[v]
    BY <1>3 DEF DecideSave, TypeOK, Handler
  <2>2. /\ handler[w].report \in Reports
        /\ \A r \in Reports : r # handler[w].report => reports'[r] = reports[r]
        /\ reports'[handler[w].report].status = handler[w].outcome
    BY <1>3 DEF DecideSave, TypeOK, HandlerHolds, ReportRow
  <2>3. \A r \in Reports : Decided(r)' =>
                \/ Decided(r) /\ reports'[r].status = reports[r].status
                \/ Deciding(w, r)' /\ handler'[w].outcome = reports'[r].status
    BY <2>1, <2>2 DEF Deciding, Decided
  <2> QED BY <1>1, <1>3, <2>1, <2>3 DEF DecideSave, Deciding
<1>4. ASSUME NEW w \in Web, DecideAudit(w)
      PROVE  ReportersHear'
  <2>1. /\ handler'[w].pc = "decide.tell" /\ handler'[w].report = handler[w].report
        /\ handler'[w].outcome = handler[w].outcome
        /\ \A v \in Web : v # w => handler'[v] = handler[v]
    BY <1>4 DEF DecideAudit, TypeOK, Handler
  <2> QED BY <1>1, <1>4, <2>1 DEF DecideAudit, Deciding, Decided
<1>5. ASSUME NEW w \in Web, DecideTell(w)
      PROVE  ReportersHear'
  <2>1. handler[w].report \in Reports /\ handler[w].outcome \in Outcomes
    BY <1>5 DEF DecideTell, HandlerHolds, TypeOK, Handler
  <2>2. /\ told'[handler[w].report][handler[w].outcome] > 0
        /\ \A r \in Reports, o \in Outcomes : told[r][o] > 0 => told'[r][o] > 0
    <3> DEFINE x == handler[w].report
               y == handler[w].outcome
               n == IF told[x][y] = 2 THEN 2 ELSE told[x][y] + 1
    <3>1. told' = [told EXCEPT ![x] = [told[x] EXCEPT ![y] = n]]
      BY <1>5 DEF DecideTell
    <3>2. told \in [Reports -> [Outcomes -> 0..2]] /\ told[x] \in [Outcomes -> 0..2]
      BY <2>1 DEF TypeOK
    <3>3. told[x][y] \in 0..2
      BY <2>1, <3>2
    <3>4. n > 0
      BY <3>3
    <3> HIDE DEF x, y, n
    <3>5. x \in Reports /\ y \in Outcomes
      BY <2>1 DEF x, y
    <3>6. told'[x] = [told[x] EXCEPT ![y] = n] /\ \A r \in Reports \ {x} : told'[r] = told[r]
      BY <3>1, <3>2, <3>5
    <3>7. told'[x][y] = n /\ \A o \in Outcomes \ {y} : told'[x][o] = told[x][o]
      BY <3>2, <3>5, <3>6
    <3> QED BY <3>4, <3>6, <3>7 DEF x, y
  <2>3. \A v \in Web : v # w => handler'[v] = handler[v]
    BY <1>5 DEF DecideTell, AfterDecision, TypeOK
  <2> QED BY <1>1, <1>5, <2>2, <2>3 DEF DecideTell, Deciding, Decided
<1>6. ASSUME NEW w \in Web, Crash(w)
      PROVE  ReportersHear'
  <2>1. \A v \in Web : v # w => handler'[v] = handler[v]
    BY <1>6 DEF Crash, TypeOK
  <2>2. \A r \in Reports : Deciding(w, r) => r \in lost'
    BY <1>6 DEF Crash, Owed, Deciding
  <2> QED BY <1>1, <1>6, <2>1, <2>2 DEF Crash, Decided, filed
<1>7. ASSUME NEW w \in Web, UNCHANGED <<lost, filed>>, \E h : Become(w, h),
             handler[w].pc \notin {"decide.audit", "decide.tell"}
      PROVE  ReportersHear'
  <2>1. \A v \in Web : v # w => handler'[v] = handler[v]
    BY <1>7 DEF TypeOK
  <2> QED BY <1>1, <1>7, <2>1 DEF Deciding, Decided, filed
<1>8. ASSUME NEW w \in Web, BulkFetch(w) \/ BulkAudit(w) \/ BulkDecideNext(w)
      PROVE  ReportersHear'
  BY <1>7, <1>8 DEF BulkFetch, BulkAudit, BulkDecideNext, filed
<1>9. ASSUME NEW w \in Web, NEW r, NEW o, NEW a, DecideBegin(w, r, o, a)
      PROVE  ReportersHear'
  BY <1>7, <1>9 DEF DecideBegin, filed
<1>10. ASSUME NEW w \in Web, NEW R, NEW o, NEW a, BulkDecideBegin(w, R, o, a)
       PROVE  ReportersHear'
  BY <1>7, <1>10 DEF BulkDecideBegin, filed
<1>11. ASSUME NEW w \in Web, NEW S, NEW f, NEW v, BulkUpdate(w, S, f, v)
       PROVE  ReportersHear'
  BY <1>7, <1>11 DEF BulkUpdate, filed
<1>12. CASE UNCHANGED vars
  BY <1>12 DEF vars, ReportersHear, Deciding, Decided
<1> QED
  BY <1>2, <1>3, <1>4, <1>5, <1>6, <1>8, <1>9, <1>10, <1>11, <1>12 DEF Next, Arrive, Step

(* Who filed a report that is decided has a notice of the decision that    *)
(* stands, or somebody is about to write it, or a process died deciding    *)
(* this report; however many decisions overwrite each other.               *)
THEOREM ReportersAreTold == Spec => []ReportersHear
<1>1. Init => ReportersHear
  BY DEF Init, ReportersHear, Decided, Outcomes
<1>2. IInv /\ ReportersHear /\ [Next]_vars => ReportersHear'
  BY HeardStep DEF IInv
<1> QED BY <1>1, <1>2, Invariance, PTL DEF Spec

-----------------------------------------------------------------------------
(* Row, audit log and notice of a report that nobody else had in hand.     *)

SavePCs == {"decide.save", "decide.audit", "decide.tell"}

(* The handler will yet decide the report; it has decided it. *)
Fresh(h, r) == r \in h.todo \/ (h.pc = "decide.save" /\ h.report = r)
Reporting(h, r) == h.pc \in {"decide.audit", "decide.tell"} /\ h.report = r

(* The row names what the handler decided, and nobody has been told yet.   *)
Stands(h, r) ==
    /\ h.outcome = reports[r].status /\ h.by = reports[r].resolved_by
    /\ \A o \in Outcomes : told[r][o] = 0

Exclusive ==
    \A r \in Reports \ contested, v, w \in Web :
        r \in InHand(handler[v]) /\ r \in InHand(handler[w]) => v = w

AgreeInv ==
    /\ Exclusive
    /\ RecordsAgree
    /\ \A w \in Web :
          /\ handler[w].pc \in SavePCs => handler[w].report \notin handler[w].todo
          /\ handler[w].pc = "decide.tell" =>
                <<handler[w].report, handler[w].outcome, handler[w].by>> \in audited
    /\ \A r \in Reports \ contested, w \in Web :
          /\ Fresh(handler[w], r) => ~Decided(r)
          /\ Reporting(handler[w], r) => Stands(handler[w], r)

(* A report that a second process takes in hand is contested from then on. *)
LEMMA ExclusiveStep ==
    ASSUME TypeOK, Exclusive, NEW w \in Web, NEW h, Become(w, h)
    PROVE  Exclusive' /\ contested \subseteq contested'
  <1>1. handler'[w] = h /\ \A v \in Web : v # w => handler'[v] = handler[v]
    BY DEF TypeOK, Become
  <1>2. contested \subseteq contested'
    BY DEF Become
  <1>3. \A r \in Reports \ contested', v \in Web : r \in InHand(h) /\ r \in InHand(handler[v]) => v = w
    BY DEF Become
  <1>4. ASSUME NEW r \in Reports \ contested', NEW u \in Web, NEW v \in Web,
               r \in InHand(handler'[u]), r \in InHand(handler'[v])
        PROVE  u = v
    BY <1>1, <1>2, <1>3, <1>4 DEF Exclusive
  <1>5. Exclusive'
    BY <1>4 DEF Exclusive, InHand
  <1> QED BY <1>2, <1>5

(* What one process has in hand, no other has. *)
LEMMA OthersNot ==
    ASSUME Exclusive, NEW r \in Reports \ contested, NEW v \in Web, NEW w \in Web, v # w,
           Fresh(handler[w], r) \/ Reporting(handler[w], r)
    PROVE  ~Fresh(handler[v], r) /\ ~Reporting(handler[v], r)
  BY DEF Exclusive, InHand, Fresh, Reporting

(* A step that writes no report and no record leaves the agreement alone,  *)
(* if the process takes in hand only open reports.                         *)
LEMMA AgreeQuiet ==
    ASSUME TypeOK, AgreeInv, UNCHANGED filed, NEW w \in Web, NEW h, Become(w, h),
           \A r \in Reports : Fresh(h, r) => Fresh(handler[w], r) \/ ~Decided(r),
           h.pc \notin {"decide.audit", "decide.tell"},
           h.pc \in SavePCs => h.report \notin h.todo
    PROVE  AgreeInv'
  <1>1. handler'[w] = h /\ \A v \in Web : v # w => handler'[v] = handler[v]
    BY DEF TypeOK, Become
  <1>2. Exclusive' /\ contested \subseteq contested'
    BY ExclusiveStep DEF AgreeInv
  <1>3. RecordsAgree'
    BY <1>2 DEF AgreeInv, RecordsAgree, filed
  <1>4. ASSUME NEW r \in Reports \ contested', NEW v \in Web
        PROVE  /\ Fresh(handler'[v], r) => reports[r].status \notin Outcomes
               /\ Reporting(handler'[v], r) =>
                     /\ handler'[v].outcome = reports[r].status
                     /\ handler'[v].by = reports[r].resolved_by
                     /\ \A o \in Outcomes : told[r][o] = 0
    <2>1. r \in Reports \ contested
      BY <1>2
    <2>2. CASE v = w
      BY <1>1, <2>1, <2>2 DEF AgreeInv, Reporting, Decided
    <2>3. CASE v # w
      BY <1>1, <2>1, <2>3 DEF AgreeInv, Stands, Decided
    <2> QED BY <2>2, <2>3
  <1>5. \A v \in Web :
          /\ handler'[v].pc \in SavePCs => handler'[v].report \notin handler'[v].todo
          /\ handler'[v].pc = "decide.tell" =>
                <<handler'[v].report, handler'[v].outcome, handler'[v].by>> \in audited
    BY <1>1 DEF AgreeInv
  <1> QED BY <1>2, <1>3, <1>4, <1>5 DEF AgreeInv, Stands, Fresh, Reporting, Decided, filed

(* Every action. *)
LEMMA AgreeStep ==
    ASSUME TypeOK, HandlerHolds, RecordsAreTrue, AgreeInv, [Next]_vars PROVE AgreeInv'
<1> USE DEF At, Goto
<1>1. CASE UNCHANGED vars
  BY <1>1 DEF vars, filed, AgreeInv, Exclusive, RecordsAgree, Fresh, Reporting, Stands, Decided,
     InHand
<1>2. ASSUME NEW w \in Web, NEW u \in Users, NEW t \in Targets, FileReport(w, u, t)
      PROVE  AgreeInv'
  <2> PICK p \in Reports :
        /\ reports[p].status = "unborn"
        /\ reports' = [reports EXCEPT ![p] = [status |-> "open", reporter |-> u,
                                              target |-> t, resolved_by |-> None]]
    BY <1>2 DEF FileReport
  <2>1. /\ \A r \in Reports : r # p => reports'[r] = reports[r]
        /\ reports'[p].status = "open"
    BY DEF TypeOK
  <2>2. UNCHANGED <<handler, contested, audited, told>>
    BY <1>2 DEF FileReport
  <2>3. ~Decided(p) /\ ~Decided(p)' /\ \A v \in Web : ~Reporting(handler[v], p)
    BY <2>1 DEF Decided, Outcomes, HandlerHolds, Reporting
  <2>4. RecordsAgree'
    <3>1. \A rec \in audited : rec[1] # p
      BY <2>3 DEF RecordsAreTrue
    <3> QED BY <2>1, <2>2, <3>1 DEF AgreeInv, RecordsAgree
  <2>5. \A r \in Reports \ contested, v \in Web :
          /\ Fresh(handler[v], r) => ~Decided(r)'
          /\ Reporting(handler[v], r) => Stands(handler[v], r)'
    BY <2>1, <2>2, <2>3 DEF AgreeInv, Stands, Decided
  <2> QED BY <2>2, <2>4, <2>5 DEF AgreeInv, Exclusive, Fresh, Reporting, Stands, InHand
<1>3. ASSUME NEW w \in Web, NEW r \in Reports, NEW o, NEW a, DecideBegin(w, r, o, a)
      PROVE  AgreeInv'
  <2> DEFINE h == [Idle EXCEPT !.pc = "decide.save", !.report = r, !.outcome = o, !.by = a]
  <2>1. h.pc = "decide.save" /\ h.report = r /\ h.todo = {}
    BY DEF Idle
  <2>2. ~Decided(r) /\ UNCHANGED filed /\ Become(w, h)
    BY <1>3 DEF DecideBegin, Decided, Outcomes
  <2> HIDE DEF h
  <2> QED BY <2>1, <2>2, AgreeQuiet DEF Fresh
<1>4. ASSUME NEW w \in Web, NEW R, NEW o, NEW a, BulkDecideBegin(w, R, o, a)
      PROVE  AgreeInv'
  <2> DEFINE h == [Idle EXCEPT !.pc = "decide.next", !.todo = R \cap Open, !.outcome = o,
                               !.by = a]
  <2>1. h.pc = "decide.next" /\ h.todo = R \cap Open
    BY DEF Idle
  <2>2. \A r \in Open : ~Decided(r)
    BY DEF Open, Decided, Outcomes
  <2>3. UNCHANGED filed /\ Become(w, h)
    BY <1>4 DEF BulkDecideBegin
  <2> HIDE DEF h
  <2> QED BY <2>1, <2>2, <2>3, AgreeQuiet DEF Fresh, SavePCs
<1>5. ASSUME NEW w \in Web, BulkDecideNext(w)
      PROVE  AgreeInv'
  <2> PICK r \in handler[w].todo :
        Become(w, [handler[w] EXCEPT !.pc = "decide.save", !.report = r, !.todo = @ \ {r}])
    BY <1>5 DEF BulkDecideNext
  <2> DEFINE h == [handler[w] EXCEPT !.pc = "decide.save", !.report = r, !.todo = @ \ {r}]
  <2>1. h.pc = "decide.save" /\ h.report = r /\ h.todo = handler[w].todo \ {r}
    BY DEF TypeOK, Handler
  <2>2. UNCHANGED filed /\ Become(w, h)
    BY <1>5 DEF BulkDecideNext
  <2> HIDE DEF h
  <2> QED BY <2>1, <2>2, AgreeQuiet DEF Fresh
<1>6. ASSUME NEW w \in Web, NEW S, NEW f, NEW v, BulkUpdate(w, S, f, v)
      PROVE  AgreeInv'
  <2> DEFINE h == [Idle EXCEPT !.pc = "bulk.fetch", !.sel = S, !.set = v, !.filtered = f]
  <2>1. h.pc = "bulk.fetch" /\ h.todo = {}
    BY DEF Idle
  <2>2. UNCHANGED filed /\ Become(w, h)
    BY <1>6 DEF BulkUpdate
  <2> HIDE DEF h
  <2> QED BY <2>1, <2>2, AgreeQuiet DEF Fresh, SavePCs
<1>7. Idle.pc = "idle" /\ Idle.todo = {}
  BY DEF Idle
<1>8. ASSUME NEW w \in Web, BulkFetch(w)
      PROVE  AgreeInv'
  <2> DEFINE found == Selected(handler[w].sel, handler[w].filtered, handler[w].set)
  <2>1. PICK h : /\ Become(w, h)
                 /\ h \in {Idle, [handler[w] EXCEPT !.pc = "bulk.audit", !.sel = found]}
    BY <1>8 DEF BulkFetch
  <2> HIDE DEF found
  <2>2. h.pc \in {"idle", "bulk.audit"} /\ h.todo \subseteq handler[w].todo
    <3>1. CASE h = Idle
      BY <1>7, <3>1
    <3>2. CASE h = [handler[w] EXCEPT !.pc = "bulk.audit", !.sel = found]
      BY <3>2 DEF TypeOK, Handler
    <3> QED BY <2>1, <3>1, <3>2
  <2> QED BY <1>8, <2>1, <2>2, AgreeQuiet DEF BulkFetch, Fresh, SavePCs
<1>9. ASSUME NEW w \in Web, BulkAudit(w)
      PROVE  AgreeInv'
  <2>0. PICK x \in handler[w].sel :
          \E g : Become(w, g) /\ g \in {Idle, [handler[w] EXCEPT !.sel = @ \ {x}]}
    BY <1>9 DEF BulkAudit
  <2>1. PICK h : Become(w, h) /\ h \in {Idle, [handler[w] EXCEPT !.sel = @ \ {x}]}
    BY <2>0
  <2>2. h.pc \in {"idle", "bulk.audit"} /\ h.todo \subseteq handler[w].todo
    BY <1>7, <1>9, <2>1 DEF BulkAudit, TypeOK, Handler
  <2> QED BY <1>9, <2>1, <2>2, AgreeQuiet DEF BulkAudit, Fresh, SavePCs
<1>10. ASSUME NEW w \in Web, Crash(w)
       PROVE  AgreeInv'
  BY <1>7, <1>10, AgreeQuiet DEF Crash, Fresh, SavePCs
<1>11. ASSUME NEW w \in Web, NEW h, Become(w, h),
              h.report = handler[w].report, h.outcome = handler[w].outcome,
              h.by = handler[w].by, h.todo = handler[w].todo
       PROVE  /\ handler'[w] = h /\ \A v \in Web : v # w => handler'[v] = handler[v]
              /\ Exclusive' /\ contested \subseteq contested'
  BY <1>11, ExclusiveStep DEF TypeOK, Become, AgreeInv
<1>12. ASSUME NEW w \in Web, DecideSave(w)
       PROVE  AgreeInv'
  <2> DEFINE h == [handler[w] EXCEPT !.pc = "decide.audit"]
             p == handler[w].report
  <2>1. /\ Become(w, h) /\ h.pc = "decide.audit" /\ h.report = p /\ h.todo = handler[w].todo
        /\ h.outcome = handler[w].outcome /\ h.by = handler[w].by
    BY <1>12 DEF DecideSave, TypeOK, Handler
  <2> HIDE DEF h
  <2>2. /\ handler'[w] = h /\ \A v \in Web : v # w => handler'[v] = handler[v]
        /\ Exclusive' /\ contested \subseteq contested'
    BY <1>11, <2>1
  <2>3. /\ p \in Reports /\ Fresh(handler[w], p) /\ p \notin handler[w].todo
        /\ handler[w].outcome \in Outcomes
    BY <1>12 DEF DecideSave, HandlerHolds, Fresh, AgreeInv, SavePCs, TypeOK, Handler
  <2>4. /\ \A r \in Reports : r # p => reports'[r] = reports[r]
        /\ reports'[p].status = h.outcome /\ reports'[p].resolved_by = h.by
        /\ UNCHANGED <<audited, told>>
    BY <1>12, <2>1, <2>3 DEF DecideSave, TypeOK, ReportRow
  <2>5. p \notin contested => /\ \A rec \in audited : rec[1] # p
                              /\ \A o \in Outcomes : told[p][o] = 0
    BY <2>3 DEF AgreeInv, RecordsAreTrue, TypeOK
  <2>6. RecordsAgree'
    BY <2>2, <2>4, <2>5 DEF AgreeInv, RecordsAgree
  <2>7. ASSUME NEW r \in Reports \ contested', NEW v \in Web
        PROVE  /\ Fresh(handler'[v], r) => reports'[r].status \notin Outcomes
               /\ Reporting(handler'[v], r) =>
                     /\ handler'[v].outcome = reports'[r].status
                     /\ handler'[v].by = reports'[r].resolved_by
                     /\ \A o \in Outcomes : told'[r][o] = 0
    <3>1. r \in Reports \ contested
      BY <2>2
    <3>2. CASE r = p /\ v = w
      BY <2>1, <2>2, <2>3, <2>4, <2>5, <3>1, <3>2 DEF Fresh, Reporting
    <3>3. CASE r = p /\ v # w
      BY <2>2, <2>3, <3>1, <3>3, OthersNot DEF AgreeInv
    <3>4. CASE r # p /\ v = w
      BY <2>1, <2>2, <2>4, <3>1, <3>4 DEF AgreeInv, Fresh, Reporting, Decided
    <3>5. CASE r # p /\ v # w
      BY <2>2, <2>4, <3>1, <3>5 DEF AgreeInv, Stands, Decided
    <3> QED BY <3>2, <3>3, <3>4, <3>5
  <2>8. \A v \in Web :
          /\ handler'[v].pc \in SavePCs => handler'[v].report \notin handler'[v].todo
          /\ handler'[v].pc = "decide.tell" =>
                <<handler'[v].report, handler'[v].outcome, handler'[v].by>> \in audited'
    BY <2>1, <2>2, <2>3, <2>4 DEF AgreeInv
  <2> QED BY <2>2, <2>6, <2>7, <2>8 DEF AgreeInv, Stands, Fresh, Reporting, Decided
<1>13. ASSUME NEW w \in Web, DecideAudit(w)
       PROVE  AgreeInv'
  <2> DEFINE h == [handler[w] EXCEPT !.pc = "decide.tell"]
             p == handler[w].report
             row == <<p, handler[w].outcome, handler[w].by>>
  <2>1. /\ Become(w, h) /\ h.pc = "decide.tell" /\ h.report = p /\ h.todo = handler[w].todo
        /\ h.outcome = handler[w].outcome /\ h.by = handler[w].by
    BY <1>13 DEF DecideAudit, TypeOK, Handler
  <2> HIDE DEF h
  <2>2. /\ handler'[w] = h /\ \A v \in Web : v # w => handler'[v] = handler[v]
        /\ Exclusive' /\ contested \subseteq contested'
    BY <1>11, <2>1
  <2>3. /\ audited' = audited \cup {row} /\ UNCHANGED <<reports, told>>
        /\ Reporting(handler[w], p) /\ p \in Reports /\ p \notin handler[w].todo
    BY <1>13 DEF DecideAudit, Reporting, HandlerHolds, AgreeInv, SavePCs
  <2>4. p \notin contested => Stands(handler[w], p)
    BY <2>3 DEF AgreeInv
  <2>5. RecordsAgree'
    <3>1. \A r \in Reports, o \in Outcomes :
             told'[r][o] > 0 => \E a \in Moderators : <<r, o, a>> \in audited'
      BY <2>3 DEF AgreeInv, RecordsAgree
    <3>2. ASSUME NEW r \in Reports \ contested', NEW rec \in audited', rec[1] = r
          PROVE  rec[2] = reports'[r].status /\ rec[3] = reports'[r].resolved_by
      <4>1. r \in Reports \ contested
        BY <2>2
      <4>2. CASE rec \in audited
        BY <2>3, <3>2, <4>1, <4>2 DEF AgreeInv, RecordsAgree
      <4>3. CASE rec = row
        BY <2>3, <2>4, <3>2, <4>1, <4>3 DEF Stands
      <4> QED BY <2>3, <4>2, <4>3
    <3>3. \A r \in Reports \ contested', o \in Outcomes : told'[r][o] <= 1
      BY <2>2, <2>3 DEF AgreeInv, RecordsAgree
    <3> QED BY <3>1, <3>2, <3>3 DEF RecordsAgree
  <2>6. ASSUME NEW r \in Reports \ contested', NEW v \in Web
        PROVE  /\ Fresh(handler'[v], r) => reports'[r].status \notin Outcomes
               /\ Reporting(handler'[v], r) =>
                     /\ handler'[v].outcome = reports'[r].status
                     /\ handler'[v].by = reports'[r].resolved_by
                     /\ \A o \in Outcomes : told'[r][o] = 0
    <3>1. r \in Reports \ contested
      BY <2>2
    <3>2. Fresh(handler'[v], r) => Fresh(handler[v], r)
      BY <2>1, <2>2 DEF Fresh
    <3>3. Reporting(handler'[v], r) => /\ Reporting(handler[v], r)
                                       /\ handler'[v].outcome = handler[v].outcome
                                       /\ handler'[v].by = handler[v].by
      BY <2>1, <2>2, <2>3 DEF Reporting
    <3> QED BY <2>3, <3>1, <3>2, <3>3 DEF AgreeInv, Stands, Decided
  <2>7. \A v \in Web :
          /\ handler'[v].pc \in SavePCs => handler'[v].report \notin handler'[v].todo
          /\ handler'[v].pc = "decide.tell" =>
                <<handler'[v].report, handler'[v].outcome, handler'[v].by>> \in audited'
    BY <2>1, <2>2, <2>3 DEF AgreeInv
  <2> QED BY <2>2, <2>5, <2>6, <2>7 DEF AgreeInv, Stands, Fresh, Reporting, Decided
<1>14. ASSUME NEW w \in Web, DecideTell(w)
       PROVE  AgreeInv'
  <2> DEFINE p == handler[w].report
             q == handler[w].outcome
  <2>1. PICK h : Become(w, h) /\ h \in {Idle, [handler[w] EXCEPT !.pc = "decide.next"]}
    BY <1>14 DEF DecideTell, AfterDecision
  <2>2. h.pc \in {"idle", "decide.next"} /\ h.todo \subseteq handler[w].todo
    BY <1>7, <2>1 DEF TypeOK, Handler
  <2>3. /\ handler'[w] = h /\ (\A v \in Web : v # w => handler'[v] = handler[v])
        /\ Exclusive' /\ contested \subseteq contested'
    BY <2>1, ExclusiveStep DEF TypeOK, Become, AgreeInv
  <2>4. /\ UNCHANGED <<reports, audited>>
        /\ Reporting(handler[w], p) /\ p \in Reports /\ q \in Outcomes /\ p \notin handler[w].todo
        /\ handler[w].by \in Moderators /\ <<p, q, handler[w].by>> \in audited
    BY <1>14 DEF DecideTell, Reporting, HandlerHolds, AgreeInv, SavePCs, TypeOK, Handler
  <2>5. /\ \A r \in Reports : r # p => told'[r] = told[r]
        /\ \A o \in Outcomes : o # q => told'[p][o] = told[p][o]
        /\ told[p][q] = 0 => told'[p][q] = 1
    BY <1>14, <2>4 DEF DecideTell, TypeOK
  <2>6. p \notin contested => \A o \in Outcomes : told[p][o] = 0
    BY <2>4 DEF AgreeInv, Stands
  <2>7. RecordsAgree'
    <3>1. ASSUME NEW r \in Reports, NEW o \in Outcomes, told'[r][o] > 0
          PROVE  \E a \in Moderators : <<r, o, a>> \in audited'
      <4>1. CASE r = p /\ o = q
        BY <2>4, <4>1
      <4>2. CASE r # p \/ o # q
        BY <2>4, <2>5, <3>1, <4>2 DEF AgreeInv, RecordsAgree
      <4> QED BY <4>1, <4>2
    <3>2. ASSUME NEW r \in Reports \ contested', NEW o \in Outcomes
          PROVE  told'[r][o] <= 1
      <4>1. r \in Reports \ contested
        BY <2>3
      <4>2. CASE r = p
        <5>1. told[p][o] = 0 /\ told[p][q] = 0
          BY <2>4, <2>6, <4>1, <4>2
        <5> QED BY <2>5, <4>2, <5>1
      <4>3. CASE r # p
        BY <2>5, <4>1, <4>3 DEF AgreeInv, RecordsAgree
      <4> QED BY <4>2, <4>3
    <3>3. \A r \in Reports \ contested' : \A rec \in audited' : rec[1] = r =>
              rec[2] = reports'[r].status /\ rec[3] = reports'[r].resolved_by
      BY <2>3, <2>4 DEF AgreeInv, RecordsAgree
    <3> QED BY <3>1, <3>2, <3>3 DEF RecordsAgree
  <2>8. ASSUME NEW r \in Reports \ contested', NEW v \in Web
        PROVE  /\ Fresh(handler'[v], r) => reports'[r].status \notin Outcomes
               /\ Reporting(handler'[v], r) =>
                     /\ handler'[v].outcome = reports'[r].status
                     /\ handler'[v].by = reports'[r].resolved_by
                     /\ \A o \in Outcomes : told'[r][o] = 0
    <3>1. r \in Reports \ contested
      BY <2>3
    <3>2. CASE v = w
      BY <2>2, <2>3, <2>4, <3>1, <3>2 DEF AgreeInv, Fresh, Reporting, Decided
    <3>3. CASE v # w
      <4>1. r = p => ~Fresh(handler[v], r) /\ ~Reporting(handler[v], r)
        BY <2>4, <3>1, <3>3, OthersNot DEF AgreeInv
      <4> QED BY <2>3, <2>4, <2>5, <3>1, <3>3, <4>1 DEF AgreeInv, Stands, Decided
    <3> QED BY <3>2, <3>3
  <2>9. \A v \in Web :
          /\ handler'[v].pc \in SavePCs => handler'[v].report \notin handler'[v].todo
          /\ handler'[v].pc = "decide.tell" =>
                <<handler'[v].report, handler'[v].outcome, handler'[v].by>> \in audited'
    BY <2>2, <2>3, <2>4 DEF AgreeInv, SavePCs
  <2> QED BY <2>3, <2>7, <2>8, <2>9 DEF AgreeInv, Stands, Fresh, Reporting, Decided
<1> QED
  BY <1>1, <1>2, <1>3, <1>4, <1>5, <1>6, <1>8, <1>9, <1>10, <1>12, <1>13, <1>14
     DEF Next, Arrive, Step

(* Nobody is told an outcome that is not in the audit log, and of a report *)
(* that no two processes had in hand at once row, audit log and the one    *)
(* notice agree; whatever interleaves and whoever dies.                    *)
THEOREM RecordsInAgreement == Spec => []RecordsAgree
<1>1. Init => AgreeInv
  BY DEF Init, AgreeInv, Exclusive, RecordsAgree, Fresh, Reporting, SavePCs, Idle, InHand
<1>2. IInv /\ AgreeInv /\ [Next]_vars => AgreeInv'
  BY AgreeStep DEF IInv
<1>3. AgreeInv => RecordsAgree
  BY DEF AgreeInv
<1> QED BY <1>1, <1>2, <1>3, Invariance, PTL DEF Spec

-----------------------------------------------------------------------------
(* The bulk actions of the lists.                                          *)

(* One step: what is written is owed, and what is owed goes one of three ways. *)
LoggedChange(x) ==
    /\ active'[x] # active[x] => \E w \in Web : OwesRow(w, x)' /\ handler'[w].set = active'[x]
    /\ \A w \in Web : OwesRow(w, x) /\ ~OwesRow(w, x)' =>
          \/ LogsRow(w, x)
          \/ Crash(w)
          \/ handler[w].filtered /\ active[x] = handler[w].set

LEMMA BulkStep ==
    ASSUME TypeOK, [Next]_vars, NEW x \in Rows PROVE LoggedChange(x)
<1> USE DEF At, Goto
<1>1. ASSUME NEW w \in Web, NEW h, Become(w, h)
      PROVE  handler'[w] = h /\ \A v \in Web : v # w => handler'[v] = handler[v]
  BY <1>1 DEF TypeOK, Become
<1>2. ASSUME NEW w \in Web, UNCHANGED active, NEW h, Become(w, h),
             OwesRow(w, x) /\ ~OwesRow(w, x)' =>
                \/ LogsRow(w, x)
                \/ Crash(w)
                \/ handler[w].filtered /\ active[x] = handler[w].set
      PROVE  LoggedChange(x)
  <2>1. \A v \in Web : v # w => handler'[v] = handler[v]
    BY <1>1, <1>2
  <2>2. \A v \in Web : v # w => (OwesRow(v, x) => OwesRow(v, x)')
    BY <2>1 DEF OwesRow
  <2> QED BY <1>2, <2>2 DEF LoggedChange
<1>3. ASSUME NEW w \in Web, NEW S \in SUBSET Rows, NEW f, NEW v \in BOOLEAN, BulkUpdate(w, S, f, v)
      PROVE  LoggedChange(x)
  <2> DEFINE h == [Idle EXCEPT !.pc = "bulk.fetch", !.sel = S, !.set = v, !.filtered = f]
  <2>1. h.pc = "bulk.fetch" /\ h.sel = S /\ h.set = v
    BY DEF Idle
  <2>2. Become(w, h) /\ handler[w].pc = "idle"
    BY <1>3 DEF BulkUpdate
  <2> HIDE DEF h
  <2>3. handler'[w] = h /\ \A u \in Web : u # w => handler'[u] = handler[u]
    BY <1>1, <2>2
  <2>4. active'[x] # active[x] => x \in S /\ active'[x] = v
    BY <1>3 DEF BulkUpdate, Selected
  <2>5. \A u \in Web : OwesRow(u, x) => OwesRow(u, x)'
    BY <2>2, <2>3 DEF OwesRow
  <2> QED BY <2>1, <2>3, <2>4, <2>5 DEF LoggedChange, OwesRow
<1>4. ASSUME NEW w \in Web, BulkFetch(w)
      PROVE  LoggedChange(x)
  <2> DEFINE found == Selected(handler[w].sel, handler[w].filtered, handler[w].set)
             h == [handler[w] EXCEPT !.pc = "bulk.audit", !.sel = found]
  <2>1. h.pc = "bulk.audit" /\ h.sel = found
    BY DEF TypeOK, Handler
  <2>2. OwesRow(w, x) /\ x \notin found => handler[w].filtered /\ active[x] = handler[w].set
    BY DEF OwesRow, Selected
  <2> HIDE DEF found
  <2>3. CASE found = {}
    BY <1>2, <1>4, <2>2, <2>3 DEF BulkFetch, listed, found
  <2>4. CASE found # {}
    <3>1. Become(w, h) /\ UNCHANGED active
      BY <1>4, <2>4 DEF BulkFetch, listed, found
    <3>2. handler'[w] = h
      BY <1>1, <3>1
    <3>3. x \in found => OwesRow(w, x)'
      BY <2>1, <3>2 DEF OwesRow
    <3> QED BY <1>2, <2>2, <3>1, <3>3
  <2> QED BY <2>3, <2>4
<1>5. ASSUME NEW w \in Web, BulkAudit(w)
      PROVE  LoggedChange(x)
  <2>1. PICK y \in handler[w].sel :
          /\ trail' = [trail EXCEPT ![y][handler[w].set] = @ + 1]
          /\ Become(w, IF handler[w].sel = {y} THEN Idle
                       ELSE [handler[w] EXCEPT !.sel = @ \ {y}])
    BY <1>5 DEF BulkAudit
  <2>2. UNCHANGED active
    BY <1>5 DEF BulkAudit
  <2>3. CASE x = y
    <3>1. trail[x] \in [BOOLEAN -> Nat] /\ handler[w].set \in BOOLEAN
      BY DEF TypeOK, Handler
    <3>2. LogsRow(w, x)
      BY <2>1, <2>3, <3>1 DEF LogsRow, TypeOK
    <3> QED BY <1>2, <2>1, <2>2, <3>2
  <2>4. CASE x # y
    <3>1. OwesRow(w, x) => /\ handler[w].sel # {y}
                           /\ Become(w, [handler[w] EXCEPT !.sel = @ \ {y}])
      BY <2>1, <2>4 DEF OwesRow
    <3>2. /\ [handler[w] EXCEPT !.sel = @ \ {y}].pc = handler[w].pc
          /\ [handler[w] EXCEPT !.sel = @ \ {y}].sel = handler[w].sel \ {y}
      BY DEF TypeOK, Handler
    <3>3. OwesRow(w, x) => OwesRow(w, x)'
      BY <1>1, <2>4, <3>1, <3>2 DEF OwesRow
    <3> QED BY <1>2, <2>1, <2>2, <3>3
  <2> QED BY <2>3, <2>4
<1>6. ASSUME NEW w \in Web, Crash(w)
      PROVE  LoggedChange(x)
  BY <1>2, <1>6 DEF Crash, listed
<1>7. ASSUME NEW w \in Web, UNCHANGED active, NEW h, Become(w, h),
             handler[w].pc \notin {"bulk.fetch", "bulk.audit"}
      PROVE  LoggedChange(x)
  BY <1>2, <1>7 DEF OwesRow
<1>8. ASSUME NEW w \in Web, BulkDecideNext(w)
      PROVE  LoggedChange(x)
  BY <1>7, <1>8 DEF BulkDecideNext, listed
<1>9. ASSUME NEW w \in Web, DecideSave(w) \/ DecideAudit(w) \/ DecideTell(w)
      PROVE  LoggedChange(x)
  BY <1>7, <1>9 DEF DecideSave, DecideAudit, DecideTell, AfterDecision, listed
<1>10. ASSUME NEW w \in Web, NEW r, NEW o, NEW a,
              DecideBegin(w, r, o, a) \/ BulkDecideBegin(w, r, o, a)
       PROVE  LoggedChange(x)
  BY <1>7, <1>10 DEF DecideBegin, BulkDecideBegin, listed
<1>11. CASE UNCHANGED <<handler, active>>
  BY <1>11 DEF LoggedChange, OwesRow
<1> QED
  BY <1>3, <1>4, <1>5, <1>6, <1>8, <1>9, <1>10, <1>11
     DEF Next, Arrive, Step, FileReport, listed, vars

(* Every change a bulk action makes to a row, each of them, gets an audit  *)
(* row of its own, on filtered lists and others, unless the process dies   *)
(* or the row has left the list it was filtered by.                        *)
THEOREM BulkLogged == Spec => BulkIsLogged
<1>1. IInv /\ [Next]_vars => \A x \in Rows : LoggedChange(x)
  BY BulkStep DEF IInv
<1> QED BY <1>1, Invariance, PTL DEF Spec, BulkIsLogged, LoggedChange
=============================================================================

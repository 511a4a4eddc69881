----------------------------- MODULE Moderation ------------------------------
(***************************************************************************)
(* Reports (apps/moderation) and the bulk actions of the Django admin      *)
(* (admin.py of moderation, accounts and listings).                        *)
(*                                                                         *)
(* A report is decided on a snapshot: the view or the bulk action fetches  *)
(* it, resolve_report looks at the status it was fetched with, and then    *)
(* come three autocommitted writes: the row, the audit row, the notice.    *)
(* A bulk action of the user or listing list is one UPDATE, followed by a  *)
(* loop over the same queryset, which is thereby evaluated a second time.  *)
(***************************************************************************)
EXTENDS Naturals

CONSTANTS
    Reports,     \* primary keys of Report rows: a bound on the reports filed
    Users,       \* those who report
    Targets,     \* what is reported
    Moderators,  \* users with reports.resolve
    Rows,        \* the rows of a list of the Django admin: users or listings
    Filtered,    \* may the list be filtered by the column the action writes?
    Web,         \* processes that serve HTTP requests
    Crashes,     \* may a process die in the middle of a handler?
    None

ASSUME NoneAssumption == None \notin Reports \cup Users \cup Targets \cup Moderators
ASSUME SwitchesAssumption == Filtered \in BOOLEAN /\ Crashes \in BOOLEAN

VARIABLES
    reports,   \* table moderation_report
    audited,   \* audit rows of reports: <<report, outcome, actor>>
    told,      \* notices to the reporter: how many per outcome, 2 = more than one
    active,    \* is_active of a user; of a listing: not removed
    trail,     \* audit rows of the rows of the list: how many per value written
    handler,   \* what each process is in the middle of
    lost,      \* no part of the program: reports a process died deciding,
    contested  \* and reports that two processes had in hand at once

filed == <<reports, audited, told>>
listed == <<active, trail>>
vars == <<reports, audited, told, active, trail, handler, lost, contested>>

-----------------------------------------------------------------------------
Outcomes == {"resolved", "dismissed"}
ReportRow == [status: {"unborn", "open"} \cup Outcomes, reporter: Users \cup {None},
              target: Targets \cup {None}, resolved_by: Moderators \cup {None}]

(* todo: the reports a bulk action fetched and has yet to decide.  sel:    *)
(* the rows its list selects, set: the value its UPDATE writes.            *)
Handler == [pc: {"idle", "decide.next", "decide.save", "decide.audit", "decide.tell",
                 "bulk.fetch", "bulk.audit"},
            report: Reports \cup {None}, outcome: Outcomes, by: Moderators \cup {None},
            todo: SUBSET Reports, sel: SUBSET Rows, set: BOOLEAN, filtered: BOOLEAN]

Idle == [pc |-> "idle", report |-> None, outcome |-> "resolved", by |-> None,
         todo |-> {}, sel |-> {}, set |-> FALSE, filtered |-> FALSE]

Init ==
    /\ reports = [r \in Reports |-> [status |-> "unborn", reporter |-> None,
                                     target |-> None, resolved_by |-> None]]
    /\ audited = {}
    /\ told = [r \in Reports |-> [o \in Outcomes |-> 0]]
    /\ active = [x \in Rows |-> TRUE]
    /\ trail = [x \in Rows |-> [v \in BOOLEAN |-> 0]]
    /\ handler = [w \in Web |-> Idle]
    /\ lost = {}
    /\ contested = {}

At(w, pc) == handler[w].pc = pc

(* The reports that a handler has fetched and is not done with. *)
InHand(h) ==
    h.todo \cup {r \in {h.report} : h.pc \in {"decide.save", "decide.audit", "decide.tell"}}

Become(w, h) ==
    /\ handler' = [handler EXCEPT ![w] = h]
    /\ contested' = contested \cup
           {r \in Reports \cap InHand(h) : \E v \in Web \ {w} : r \in InHand(handler[v])}
Goto(w, pc) == Become(w, [handler[w] EXCEPT !.pc = pc])

Open == {r \in Reports : reports[r].status = "open"}
Decided(r) == reports[r].status \in Outcomes

-----------------------------------------------------------------------------
(* POST /reports/.                                                         *)

OpenReportsOn(u, t) == {r \in Open : reports[r].reporter = u /\ reports[r].target = t}

(* one_open_report_per_reporter_per_target, which the insertion runs into. *)
Duplicate(u, t) == OpenReportsOn(u, t) # {}

(* create_report: one insertion, whose IntegrityError is the answer. *)
FileReport(w, u, t) ==
    /\ At(w, "idle")
    /\ ~Duplicate(u, t)
    /\ \E r \in Reports :
          /\ reports[r].status = "unborn"
          /\ reports' = [reports EXCEPT ![r] = [status |-> "open", reporter |-> u,
                                                target |-> t, resolved_by |-> None]]
    /\ UNCHANGED <<lost, audited, told, listed, handler, contested>>

-----------------------------------------------------------------------------
(* POST /admin/reports/{id}/resolve/ and dismiss/, and the bulk actions    *)
(* resolve_reports and dismiss_reports.                                    *)

(* Without the invalid_transition guard. *)
DecideBegin_mut(w, r, o, a) ==
    /\ At(w, "idle")
    /\ reports[r].status # "unborn"
    /\ Become(w, [Idle EXCEPT !.pc = "decide.save", !.report = r, !.outcome = o, !.by = a])
    /\ UNCHANGED <<lost, filed, listed>>

(* get_object, and resolve_report's guard on the status that was fetched. *)
DecideBegin(w, r, o, a) ==
    /\ At(w, "idle")
    /\ reports[r].status = "open"
    /\ Become(w, [Idle EXCEPT !.pc = "decide.save", !.report = r, !.outcome = o, !.by = a])
    /\ UNCHANGED <<lost, filed, listed>>

(* queryset.filter(status=OPEN), fetched as a whole. *)
BulkDecideBegin(w, R, o, a) ==
    /\ At(w, "idle")
    /\ R \cap Open # {}
    /\ Become(w, [Idle EXCEPT !.pc = "decide.next", !.todo = R \cap Open,
                              !.outcome = o, !.by = a])
    /\ UNCHANGED <<lost, filed, listed>>

(* The next turn of the loop: the guard sees the fetched, open instance. *)
BulkDecideNext(w) ==
    /\ At(w, "decide.next")
    /\ \E r \in handler[w].todo :
          Become(w, [handler[w] EXCEPT !.pc = "decide.save", !.report = r, !.todo = @ \ {r}])
    /\ UNCHANGED <<lost, filed, listed>>

(* "resolved_by" missing from update_fields. *)
DecideSave_mut(w) ==
    /\ At(w, "decide.save")
    /\ reports' = [reports EXCEPT ![handler[w].report].status = handler[w].outcome]
    /\ Goto(w, "decide.audit")
    /\ UNCHANGED <<lost, audited, told, listed>>

(* save(update_fields=["status", "resolved_by", "resolved_at"]). *)
DecideSave(w) ==
    /\ At(w, "decide.save")
    /\ reports' = [reports EXCEPT ![handler[w].report] =
                      [@ EXCEPT !.status = handler[w].outcome, !.resolved_by = handler[w].by]]
    /\ Goto(w, "decide.audit")
    /\ UNCHANGED <<lost, audited, told, listed>>

DecideAudit(w) ==
    /\ At(w, "decide.audit")
    /\ audited' = audited \cup {<<handler[w].report, handler[w].outcome, handler[w].by>>}
    /\ Goto(w, "decide.tell")
    /\ UNCHANGED <<lost, reports, told, listed>>

(* The view answers; the bulk action goes on with its loop. *)
AfterDecision(w) ==
    IF handler[w].todo = {} THEN Become(w, Idle) ELSE Goto(w, "decide.next")

(* The notice says "resolved" whatever was decided. *)
DecideTell_mut(w) ==
    /\ At(w, "decide.tell")
    /\ told' = [told EXCEPT ![handler[w].report]["resolved"] = IF @ = 2 THEN 2 ELSE @ + 1]
    /\ AfterDecision(w)
    /\ UNCHANGED <<lost, reports, audited, listed>>

(* notify_report_resolved tells the reporter the outcome of this call. *)
DecideTell(w) ==
    /\ At(w, "decide.tell")
    /\ told' = [told EXCEPT ![handler[w].report][handler[w].outcome] =
                    IF @ = 2 THEN 2 ELSE @ + 1]
    /\ AfterDecision(w)
    /\ UNCHANGED <<lost, reports, audited, listed>>

-----------------------------------------------------------------------------
(* The bulk actions suspend_users, reactivate_users, remove_listings and   *)
(* restore_listings: all four have this form.                              *)

(* The rows that were selected, in the list filtered by the other value of *)
(* the column that v is about to be written to.                            *)
Selected(S, filtered, v) == IF filtered THEN {x \in S : active[x] # v} ELSE S

(* queryset.update(...): one statement. *)
BulkUpdate(w, S, filtered, v) ==
    /\ At(w, "idle")
    /\ Selected(S, filtered, v) # {}
    /\ active' = [x \in Rows |-> IF x \in Selected(S, filtered, v) THEN v ELSE active[x]]
    /\ Become(w, [Idle EXCEPT !.pc = "bulk.fetch", !.sel = S, !.set = v, !.filtered = filtered])
    /\ UNCHANGED <<lost, filed, trail>>

(* "for x in queryset": update emptied the result cache, so the filter is  *)
(* applied again, to the rows as they are now.                             *)
BulkFetch(w) ==
    /\ At(w, "bulk.fetch")
    /\ LET found == Selected(handler[w].sel, handler[w].filtered, handler[w].set)
       IN  IF found = {} THEN Become(w, Idle)
           ELSE Become(w, [handler[w] EXCEPT !.pc = "bulk.audit", !.sel = found])
    /\ UNCHANGED <<lost, filed, listed>>

(* The audit row says "reactivated" or "restored" whatever was done. *)
BulkAudit_mut(w) ==
    /\ At(w, "bulk.audit")
    /\ \E x \in handler[w].sel :
          /\ trail' = [trail EXCEPT ![x][TRUE] = @ + 1]
          /\ Become(w, IF handler[w].sel = {x} THEN Idle
                       ELSE [handler[w] EXCEPT !.sel = @ \ {x}])
    /\ UNCHANGED <<lost, filed, active>>

BulkAudit(w) ==
    /\ At(w, "bulk.audit")
    /\ \E x \in handler[w].sel :
          /\ trail' = [trail EXCEPT ![x][handler[w].set] = @ + 1]
          /\ Become(w, IF handler[w].sel = {x} THEN Idle
                       ELSE [handler[w] EXCEPT !.sel = @ \ {x}])
    /\ UNCHANGED <<lost, filed, active>>

-----------------------------------------------------------------------------
(* The report that a handler has decided and not yet told of. *)
Owed(h) == {r \in {h.report} : h.pc \in {"decide.audit", "decide.tell"}}

Crash(w) ==
    /\ Crashes
    /\ ~At(w, "idle")
    /\ lost' = lost \cup Owed(handler[w])
    /\ Become(w, Idle)
    /\ UNCHANGED <<filed, listed>>

Arrive(w) ==
    \/ \E u \in Users, t \in Targets : FileReport(w, u, t)
    \/ \E r \in Reports, o \in Outcomes, a \in Moderators : DecideBegin(w, r, o, a)
    \/ \E R \in SUBSET Reports, o \in Outcomes, a \in Moderators : BulkDecideBegin(w, R, o, a)
    \/ \E S \in SUBSET Rows, v \in BOOLEAN, f \in {FALSE, Filtered} : BulkUpdate(w, S, f, v)

Step(w) ==
    \/ BulkDecideNext(w)
    \/ DecideSave(w)
    \/ DecideAudit(w)
    \/ DecideTell(w)
    \/ BulkFetch(w)
    \/ BulkAudit(w)

Next == \E w \in Web : Arrive(w) \/ Step(w) \/ Crash(w)

Spec == Init /\ [][Next]_vars

-----------------------------------------------------------------------------
(* Every row and every local has its type. *)
TypeOK ==
    /\ reports \in [Reports -> ReportRow]
    /\ audited \subseteq Reports \X Outcomes \X Moderators
    /\ told \in [Reports -> [Outcomes -> 0..2]]
    /\ active \in [Rows -> BOOLEAN]
    /\ trail \in [Rows -> [BOOLEAN -> Nat]]
    /\ handler \in [Web -> Handler]
    /\ lost \subseteq Reports
    /\ contested \subseteq Reports

(* An audit row, or a notice, is about a report that was decided and stays *)
(* so, whatever interleaves and whoever dies (resolve_report writes the    *)
(* row first).                                                             *)
RecordsAreTrue ==
    /\ \A rec \in audited : Decided(rec[1])
    /\ \A r \in Reports, o \in Outcomes : told[r][o] > 0 => Decided(r)

(* The reporter is told no outcome that the audit log does not know, even  *)
(* of a report that moderators decided over one another.  Of a report that *)
(* no two processes had in hand at once, singly or in bulk, row, audit log *)
(* and notice name one outcome and one moderator, and the notice is one.   *)
RecordsAgree ==
    /\ \A r \in Reports, o \in Outcomes :
          told[r][o] > 0 => \E a \in Moderators : <<r, o, a>> \in audited
    /\ \A r \in Reports \ contested :
          /\ \A rec \in audited : rec[1] = r =>
                rec[2] = reports[r].status /\ rec[3] = reports[r].resolved_by
          /\ \A o \in Outcomes : told[r][o] <= 1

Deciding(w, r) == handler[w].report = r /\ handler[w].pc \in {"decide.audit", "decide.tell"}

(* The decision a report's row ends up with is in the audit log, with the  *)
(* moderator the row names, also when two moderators decide one report at  *)
(* once and one of them overwrites the other.  A process that dies loses   *)
(* the record of no other report than the one it was deciding.             *)
DecisionsAreLogged ==
    \A r \in Reports \ lost : Decided(r) =>
        \/ <<r, reports[r].status, reports[r].resolved_by>> \in audited
        \/ \E w \in Web : /\ At(w, "decide.audit") /\ handler[w].report = r
                          /\ handler[w].outcome = reports[r].status
                          /\ handler[w].by = reports[r].resolved_by

(* Who filed a report hears of the decision that stands, single or bulk,   *)
(* as soon as nobody is in the middle of telling: also when a decision was *)
(* overwritten, whose notice may come after that of the one that stands.   *)
(* Only a process that died deciding this very report takes that away.     *)
ReportersHear ==
    \A r \in Reports \ lost : Decided(r) =>
        \/ told[r][reports[r].status] > 0
        \/ \E w \in Web : Deciding(w, r) /\ handler[w].outcome = reports[r].status

(* A step never changes a decision.  Refuted when two moderators decide    *)
(* one report at once: both pass the guard (test_cannot_resolve_already_   *)
(* resolved_report in tests/test_moderation.py; README, "Divergences").    *)
DecidedOnce ==
    [][\A r \in Reports : Decided(r) => reports'[r] = reports[r]]_vars

(* A row of the list whose value a bulk action wrote and not yet logged. *)
OwesRow(w, x) == handler[w].pc \in {"bulk.fetch", "bulk.audit"} /\ x \in handler[w].sel
LogsRow(w, x) == trail'[x][handler[w].set] = trail[x][handler[w].set] + 1

(* Every change that a bulk action makes to a row is owed an audit row of  *)
(* its own with the value written, however many overlap on the row, and    *)
(* the debt ends in just three ways: the audit row is written, the process *)
(* dies, or the list was filtered by the column and the row, being what    *)
(* the action has made it, is not in the list when it is fetched again.    *)
BulkIsLogged ==
    [][\A x \in Rows :
           /\ active'[x] # active[x] =>
                 \E w \in Web : OwesRow(w, x)' /\ handler'[w].set = active'[x]
           /\ \A w \in Web : OwesRow(w, x) /\ ~OwesRow(w, x)' =>
                 \/ LogsRow(w, x)
                 \/ Crash(w)
                 \/ handler[w].filtered /\ active[x] = handler[w].set]_vars

(* Without the third way: record_audit_log's docstring, "so nothing        *)
(* happens silently".  Refuted for filtered lists (README, "Divergences"). *)
NothingSilently ==
    [][\A x \in Rows, w \in Web :
           OwesRow(w, x) /\ ~OwesRow(w, x)' => LogsRow(w, x) \/ Crash(w)]_vars
=============================================================================

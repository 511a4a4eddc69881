------------------------------ MODULE DailyJobs ------------------------------
(***************************************************************************)
(* The daily command (apps/analytics/management/commands/run_daily_jobs)   *)
(* at work beside the marketplace: it expires requests, recomputes the     *)
(* impact statistics, sends reminders and reconciles photos, in this       *)
(* order, in a process of its own, and what raises ends the rest.  The     *)
(* statistics are cached in the memory of each process (LocMemCache).      *)
(*                                                                         *)
(* Extends Marketplace, whose handlers run here unchanged, with a clock    *)
(* that ticks.  All times are relative: how many ticks ago a snapshot was  *)
(* computed, how many are left of a cache entry, how many until the books  *)
(* change hands.  Of the four counts of a snapshot the one of completed    *)
(* exchanges stands for all.                                               *)
(***************************************************************************)
EXTENDS Marketplace, Integers

CONSTANTS
    Period,    \* the scheduler starts the command every so many ticks
    Late,      \* bound: how long after its time a run may still be at work
    Window,    \* EXCHANGE_REMINDER_WINDOW_HOURS
    TTL,       \* IMPACT_STATS_CACHE_TTL_SECONDS
    Horizon,   \* bound: how far ahead a handover is agreed
    Deaths     \* bound: how many runs of the command end in the middle

ASSUME TimesAssumption == /\ Period \in Nat \ {0} /\ Window \in Nat
                          /\ TTL \in Nat \ {0} /\ Horizon \in Nat
ASSUME LateAssumption == Late \in 0..Period
ASSUME DeathsAssumption == Deaths \in Nat

VARIABLES
    newest,   \* the newest row of analytics_impactstatssnapshot, or None
    cached,   \* the cache entry "impact_stats" of each process, or None
    stats,    \* what each process is doing about the statistics
    agenda,   \* when the books of each exchange change hands, and reminders sent
    job       \* the daily command

dailyVars == <<newest, cached, stats, agenda, job>>
allVars == <<vars, dailyVars>>
-----------------------------------------------------------------------------
(* Ages and counts beyond these make no difference to any property. *)
Old == Period + Late + TTL
Many == ((Window + Late) \div Period) + 3

Snapshot == [completed: 0..Cardinality(ExchangeIds), age: 0..Old]
Entry == [completed: 0..Cardinality(ExchangeIds), age: 0..Old, left: 1..TTL]
Stats == [pc: {"idle", "count", "insert", "cache", "fill"}, snapshot: Snapshot]
Stages == {"off", "expire", "expiring", "stats", "remind", "donor", "recipient", "photos"}

(* due: ticks until scheduled_at, negative when it has passed.  ahead: its  *)
(* value when it was set.  donor, recipient: reminders sent since.  Of the *)
(* command, since: ticks since the last time it was to start.              *)
Agenda == [due: -1..Horizon, ahead: 0..Horizon, donor: 0..Many, recipient: 0..Many]
Job == [stage: Stages, since: 0..Period, todo: SUBSET ExchangeIds,
        exch: ExchangeIds \cup {None}, died: 0..Deaths]

Blank == [completed |-> 0, age |-> 0]
NoStats == [pc |-> "idle", snapshot |-> Blank]

DailyInit ==
    /\ Init
    /\ newest = None
    /\ cached = [p \in Processes |-> None]
    /\ stats = [p \in Processes |-> NoStats]
    /\ agenda = [e \in ExchangeIds |-> [due |-> -1, ahead |-> 0, donor |-> 0, recipient |-> 0]]
    /\ job \in [stage: {"off"}, since: 0..Period, todo: {{}}, exch: {None}, died: {0}]

Capped(n, bound) == IF n < bound THEN n ELSE bound

-----------------------------------------------------------------------------
(* The statistics.                                                         *)

Completed == Cardinality({e \in ExchangeIds : exchanges[e].status = "completed"})
Busy(p) == stats[p].pc # "idle"
StatsAt(p, pc) == stats[p].pc = pc
StatsBecome(p, pc, snapshot) == stats' = [stats EXCEPT ![p] = [pc |-> pc, snapshot |-> snapshot]]

(* cache.set: the entry lives for the TTL from now, however old it is. *)
CacheSet(p, s) ==
    cached' = [cached EXCEPT ![p] = [completed |-> s.completed, age |-> s.age, left |-> TTL]]

(* GET /stats/impact/ by a process whose cache is empty: the newest row is *)
(* read, or the first snapshot computed.  With a cache entry it is served. *)
GetStats(p) ==
    /\ At(p, "idle") /\ ~Busy(p)
    /\ cached[p] = None
    /\ IF newest # None THEN StatsBecome(p, "fill", newest) ELSE StatsBecome(p, "count", Blank)
    /\ UNCHANGED <<vars, newest, cached, agenda, job>>

(* POST /admin/stats/recompute/. *)
AdminRecompute(p) ==
    /\ At(p, "idle") /\ ~Busy(p)
    /\ StatsBecome(p, "count", Blank)
    /\ UNCHANGED <<vars, newest, cached, agenda, job>>

StatsFill(p) ==
    /\ StatsAt(p, "fill")
    /\ CacheSet(p, stats[p].snapshot)
    /\ StatsBecome(p, "idle", Blank)
    /\ UNCHANGED <<vars, newest, agenda, job>>

(* recompute_impact_stats: count, insert, cache. *)
StatsCount(p) ==
    /\ StatsAt(p, "count")
    /\ StatsBecome(p, "insert", [completed |-> Completed, age |-> 0])
    /\ UNCHANGED <<vars, newest, cached, agenda, job>>

(* get_or_create where create is meant: the first snapshot stays. *)
StatsInsert_mut(p) ==
    LET s == IF newest = None THEN stats[p].snapshot ELSE newest IN
    /\ StatsAt(p, "insert")
    /\ newest' = s
    /\ StatsBecome(p, "cache", s)
    /\ UNCHANGED <<vars, cached, agenda, job>>

StatsInsert(p) ==
    /\ StatsAt(p, "insert")
    /\ newest' = stats[p].snapshot
    /\ StatsBecome(p, "cache", stats[p].snapshot)
    /\ UNCHANGED <<vars, cached, agenda, job>>

StatsCache(p) ==
    /\ StatsAt(p, "cache")
    /\ CacheSet(p, stats[p].snapshot)
    /\ StatsBecome(p, "idle", Blank)
    /\ UNCHANGED <<vars, newest, agenda, job>>

StatsStep(p) == StatsFill(p) \/ StatsCount(p) \/ StatsInsert(p) \/ StatsCache(p)

-----------------------------------------------------------------------------
(* The command.                                                            *)

Stage(s) == job.stage = s
GoToStage(s) == job' = [job EXCEPT !.stage = s]

JobStart ==
    /\ Stage("off")
    /\ job.since = Period
    /\ job' = [job EXCEPT !.stage = "expire", !.since = 0]
    /\ UNCHANGED <<vars, newest, cached, stats, agenda>>

(* The process of the command ends, and its cache with it. *)
JobOver(c) == cached' = [cached EXCEPT ![c] = None]

JobExpire(c) ==
    /\ Stage("expire")
    /\ \/ ExpireBegin(c) /\ GoToStage("expiring") /\ UNCHANGED stats
       \/ /\ StalePending = {}
          /\ GoToStage("stats")
          /\ StatsBecome(c, "count", Blank)
          /\ UNCHANGED vars
    /\ UNCHANGED <<newest, cached, agenda>>

JobExpireRow(c) ==
    /\ Stage("expiring")
    /\ \E r \in RequestIds : ExpireRow(c, r)
    /\ IF handler'[c] = Idle
       THEN GoToStage("stats") /\ StatsBecome(c, "count", Blank)
       ELSE UNCHANGED <<job, stats>>
    /\ UNCHANGED <<newest, cached, agenda>>

(* Without scheduled_at__gte. *)
Upcoming_mut == {e \in ExchangeIds : /\ exchanges[e].status = "scheduled"
                                     /\ exchanges[e].scheduledAt /\ agenda[e].due <= Window}

(* status=SCHEDULED, scheduled_at__gte=now, scheduled_at__lte=window_end. *)
Upcoming == {e \in ExchangeIds : /\ exchanges[e].status = "scheduled"
                                 /\ agenda[e].due \in 0..Window}

JobStats(c) ==
    /\ Stage("stats")
    /\ ~Busy(c)
    /\ job' = [job EXCEPT !.stage = "remind", !.todo = Upcoming]
    /\ UNCHANGED <<vars, newest, cached, stats, agenda>>

JobRemind ==
    /\ Stage("remind")
    /\ \/ /\ job.todo = {}
          /\ GoToStage("photos")
       \/ \E e \in job.todo :
             job' = [job EXCEPT !.stage = "donor", !.exch = e, !.todo = @ \ {e}]
    /\ UNCHANGED <<vars, newest, cached, stats, agenda>>

(* The donor only. *)
JobTell_mut ==
    /\ Stage("donor")
    /\ agenda' = [agenda EXCEPT ![job.exch].donor = Capped(@ + 1, Many)]
    /\ job' = [job EXCEPT !.stage = "remind", !.exch = None]
    /\ UNCHANGED <<vars, newest, cached, stats>>

(* notify_exchange_reminder: a row for the donor, then one for the          *)
(* recipient; agenda counts them per appointment, which the inbox does not. *)
JobTell ==
    /\ \/ /\ Stage("donor")
          /\ agenda' = [agenda EXCEPT ![job.exch].donor = Capped(@ + 1, Many)]
          /\ GoToStage("recipient")
       \/ /\ Stage("recipient")
          /\ agenda' = [agenda EXCEPT ![job.exch].recipient = Capped(@ + 1, Many)]
          /\ job' = [job EXCEPT !.stage = "remind", !.exch = None]
    /\ UNCHANGED <<vars, newest, cached, stats>>

(* reconcile_pending_photos, the subject of PhotoStore, and the end. *)
JobPhotos(c) ==
    /\ Stage("photos")
    /\ GoToStage("off")
    /\ JobOver(c)
    /\ UNCHANGED <<vars, newest, stats, agenda>>

JobStep(c) ==
    JobExpire(c) \/ JobExpireRow(c) \/ JobStats(c) \/ JobRemind \/ JobTell \/ JobPhotos(c)

(* A stage raises or the process is killed: the later stages wait for the  *)
(* next run.                                                               *)
JobDies(c) ==
    /\ ~Stage("off")
    /\ job.died < Deaths
    /\ job' = [job EXCEPT !.stage = "off", !.todo = {}, !.exch = None, !.died = @ + 1]
    /\ handler' = [handler EXCEPT ![c] = Idle]
    /\ stats' = [stats EXCEPT ![c] = NoStats]
    /\ JobOver(c)
    /\ UNCHANGED <<rows, ratings, logs, newest, agenda>>

-----------------------------------------------------------------------------
(* The marketplace, where scheduling an exchange sets its time.            *)

Agree(w) ==
    /\ ScheduleSave(w)
    /\ \E t \in 0..Horizon :
          agenda' = [agenda EXCEPT ![handler[w].exch] =
                        [due |-> t, ahead |-> t, donor |-> 0, recipient |-> 0]]
    /\ UNCHANGED <<newest, cached, stats, job>>

Serve(w) ==
    \/ ~Busy(w) /\ Arrive(w) /\ UNCHANGED dailyVars
    \/ ~At(w, "schedule.save") /\ Step(w) /\ UNCHANGED dailyVars
    \/ Agree(w)

Owners ==
    /\ \/ \E l \in Listings, u \in Users : CreateListing(l, u)
       \/ \E r \in RequestIds : Age(r)
    /\ UNCHANGED dailyVars

(* Time passes between the stages of a run as well, and between one        *)
(* reminder and the next; no run is at work longer than Late.              *)
Tick ==
    /\ job.since < (IF Stage("off") THEN Period ELSE Late)
    /\ \A p \in Processes : ~Busy(p)
    /\ job' = [job EXCEPT !.since = @ + 1]
    /\ newest' = IF newest = None THEN None
                 ELSE [newest EXCEPT !.age = Capped(@ + 1, Old)]
    /\ cached' = [p \in Processes |->
           IF cached[p] = None \/ cached[p].left = 1 THEN None
           ELSE [cached[p] EXCEPT !.age = Capped(@ + 1, Old), !.left = @ - 1]]
    /\ agenda' = [e \in ExchangeIds |->
           [agenda[e] EXCEPT !.due = IF @ < 0 THEN @ ELSE @ - 1]]
    /\ UNCHANGED <<vars, stats>>

DailyNext ==
    \/ Owners
    \/ \E w \in Web : Serve(w) \/ GetStats(w) \/ AdminRecompute(w)
    \/ \E p \in Processes : StatsStep(p)
    \/ JobStart
    \/ \E c \in Cron : JobStep(c) \/ JobDies(c)
    \/ Tick

DailySpec == DailyInit /\ [][DailyNext]_allVars

(* Processes go on with what they serve, the scheduler starts the command, *)
(* it goes on, and time passes however many calls there are.               *)
FairDaily ==
    /\ DailySpec
    /\ \A w \in Web : WF_allVars(Serve(w) /\ ~At(w, "idle"))
    /\ \A p \in Processes : WF_allVars(StatsStep(p))
    /\ WF_allVars(JobStart)
    /\ \A c \in Cron : WF_allVars(JobStep(c))
    /\ SF_allVars(Tick)
-----------------------------------------------------------------------------
(* Type invariant of what the command adds; the rows are Marketplace's.    *)
DailyTypeOK ==
    /\ TypeOK
    /\ newest \in Snapshot \cup {None}
    /\ cached \in [Processes -> Entry \cup {None}]
    /\ stats \in [Processes -> Stats]
    /\ agenda \in [ExchangeIds -> Agenda]
    /\ job \in Job

(* Every party who agreed to a time far enough ahead is reminded before    *)
(* it comes, if the exchange is still on and no run of the command died:   *)
(* between the appointment and the handover there is a run within whose    *)
(* window it falls, rescheduling and races with the command included.  The *)
(* window begins when the run gets to the reminders, so it has to be longer *)
(* than a period by as much as a run may be late.                          *)
RemindersReach ==
    \A e \in ExchangeIds :
        /\ exchanges[e].status = "scheduled" /\ exchanges[e].scheduledAt
        /\ agenda[e].due < 0 /\ agenda[e].ahead >= Period + Late
        /\ job.died = 0
        => agenda[e].donor > 0 /\ agenda[e].recipient > 0

(* Nothing records that a reminder was sent, so each run within the window *)
(* repeats it, but no more often: once per run, and once more where the    *)
(* exchange was rescheduled between the job's query and its notice.        *)
RemindersAreFew ==
    \A e \in ExchangeIds :
        /\ agenda[e].donor <= ((Window + Late) \div Period) + 2
        /\ agenda[e].recipient <= ((Window + Late) \div Period) + 2

(* How stale the public statistics can be: the daily recomputation does    *)
(* not reach the caches of the web processes, so an answer is as old as    *)
(* the newest row was when this process last looked, and a TTL more; the   *)
(* newest row is replaced within a period and what a run may be late.      *)
ServedIsRecent ==
    job.died = 0 => \A p \in Processes : cached[p] # None => cached[p].age < Period + Late + TTL

(* The reference promises "a snapshot recomputed once daily".              *)
ServedWithinADay ==
    job.died = 0 => \A p \in Processes : cached[p] # None => cached[p].age <= Period + Late

(* Once no more exchanges are completed, every process comes to serve the  *)
(* right number and stays with it, although each has a copy of its own and *)
(* recomputations race.                                                    *)
ImpactReachesEveryone ==
    \A p \in Processes : <>[](cached[p] # None => cached[p].completed = Completed)
=============================================================================

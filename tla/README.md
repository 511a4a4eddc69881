# SalvageMe backend: TLA+ models, checks and proofs

SalvageMe is a Django REST backend for giving books away. This directory
models the parts of it where the order of writes matters: a listing that two
readers want, roles that two administrators change, photos that live half in
the database and half in an external store, partner applications that pass
through several hands, reports that two moderators decide, a ranking that is
computed while donations go on, refresh tokens that several tabs rotate, drop-off
points that are deleted while parties agree to meet there, and a daily command that
runs beside all of it. The modules are translated from the code; documents and
tests say which properties to state.

## 1. The system

Paths are relative to `src/`. Everything runs as WSGI workers (several processes)
plus one management command that a scheduler starts daily. There is no queue and
no background worker. **No view runs in a transaction** (`ATOMIC_REQUESTS` is not
set), and no query locks a row; `transaction.atomic` appears only around single
insertions, to catch an `IntegrityError`. A handler is therefore one read of the
rows it works on, on which it decides its guards, followed by autocommitted
writes, between which other handlers run and after any of which the process may
be killed. That is the granularity of all the models.

| Component | State | Operations | Hard part | Correct when |
|---|---|---|---|---|
| Listings (`apps/listings`) | `Listing.status`, `owner` | create, PATCH, delete, admin remove/restore; `mark_pending`, `revert_to_available`, `mark_claimed` called by others | the status is a copy of what requests and exchanges say; PATCH saves the whole row | status agrees with the exchanges; claimed only after a handover |
| Requests (`apps/requests`) | `BookRequest.status` | create, accept, decline, daily expiry | check-then-insert; accept makes four writes; the job saves rows it fetched earlier | one exchange per acceptance, rivals declined, decisions final |
| Exchanges (`apps/exchanges`) | `Exchange.status`, `completed_at`, `scheduled_at` | schedule, complete, cancel, staff overrides, rate, reminders | two parties and staff act at once | a finished exchange stays finished, but for a late cancellation; reminders come in time |
| Ratings (`apps/accounts`) | `UserRating` | created by `rate_exchange` | check-then-insert, backed by a unique constraint | by a party, about the other, once |
| Admin roles (`apps/accounts/admin_*`) | `AdminRole`, `User.admin_role`, `is_staff`, `is_active` | create/edit/delete role, assign, suspend, reactivate, profile PATCH | last-manager check is read-then-write and looks only at one of three ways to lose a manager | somebody can manage roles; built-in role intact; audit log complete |
| Listing photos (`apps/listings/services.py`, `common/fileforge_client.py`) | `ListingPhoto` rows; files in FileForge | upload, delete, daily reconciliation | two stores, lost answers, deaths in between | no orphaned file, no lasting broken image |
| Partner applications (`apps/partners`) | `PartnerApplication`, accounts, drop-off points | submit, verify by the set-password link, approve, reject | five writes without a transaction; e-mail spelling | role only for verified applicants; decision, role and notices agree |
| Accounts (`apps/accounts`) | users, refresh tokens and cookies, set-password links | register, log in, refresh, log out, set password, profile | rotation: issue, blacklist and cookie are three writes; tabs overlap; answers get lost | a browser keeps a cookie that works; a logout leaves no token |
| Notifications (`apps/notifications`) | `Notification` rows, read flags | written by every service; mark read, mark all read; e-mail | ordering after the write they report | true, and complete when nobody dies |
| Moderation (`apps/moderation`) | `Report`, `AuditLog` | file, resolve, dismiss, singly and in bulk; bulk suspension and removal; audit rows by all admin actions | decisions are read-then-write; bulk actions evaluate a queryset twice | every decision and bulk change logged and told; records agree |
| Daily jobs (`run_daily_jobs`) | - | expire requests, reminders, snapshot, reconcile photos | overlaps with everything | requests leave, reminders come in time |
| Impact statistics (`apps/analytics`) | snapshots, a cache in each process | recompute daily or by staff, serve | the job's cache is not the web's; recomputations race | bounded staleness; right in the end |
| Leaderboard (`apps/accounts/leaderboard_*`) | derived from exchanges; `FeaturedDonor` | ranking, own rank, feature | ties, opt-out, two queries for one answer | list and own rank agree; a rank is too good by nothing but what was undone meanwhile |
| Drop-off points (`apps/dropoff`) | point, managers; `Exchange.dropoff_point` | create, PATCH, delete, assign managers, made by an approval, meeting place of an exchange | whole-row saves re-insert; `managers.set()` merges | managers as last logged; meeting places stand |
| Django admin, HTTP plumbing, settings, seed data | - | - | bulk actions | - |

How they interact: `accept_request` (requests) writes the listing and creates the
exchange; `complete_exchange` and `cancel_exchange` (exchanges) write the listing;
all of them end in `notify` and, for staff, `record_audit_log`. `SetPasswordView`
(accounts) calls `complete_email_verification_if_pending` (partners), and
`approve_partner_application` calls `assign_admin_role` (accounts) and creates a
drop-off point. `run_daily_jobs` calls into requests, exchanges, analytics and
listings, one after the other.

## 2. Modules

| Module | Models | Kind |
|---|---|---|
| `OneReader` | what the marketplace promises about one book | abstract specification |
| `Marketplace` | listings, requests, exchanges, ratings, and the notices and audit rows of their handlers | specification |
| `Disturbances` | which listings overlapping handlers, deaths and restorations have disturbed; EXTENDS `Marketplace` | histories; refines `OneReader` |
| `MarketplaceProofs` | | theorems about `Marketplace` (part 1), `Disturbances` with the refinement of `OneReader` (part 2) and `DailyJobs` (part 3) |
| `AdminRoles`, `AdminRolesProofs` | admin roles, suspension, profile saves | specification, theorems |
| `PhotoStore`, `PhotoStoreProofs` | one listing's photos, FileForge, reconciliation | specification, theorems |
| `PartnerApplications`, `PartnerApplicationsProofs` | application, verification, decision | specification, theorems |
| `Moderation`, `ModerationProofs` | reports, their decisions, bulk actions of the Django admin | specification, theorems |
| `Leaderboard`, `LeaderboardProofs` | ranking, own rank, opt-out, spotlight | specification, theorems |
| `DailyJobs` | the daily command, a clock, the statistics and reminders; EXTENDS `Marketplace`, whose handlers run in it | composition; implements `Marketplace` |
| `Sessions`, `SessionsProofs` | registration, login, refresh, logout, and the browsers' cookies | specification, theorems |
| `DropOff`, `DropOffProofs` | drop-off points, their managers, meeting places | specification, theorems |
| `MC*` | symmetries, views and bounds for TLC | |

### How state and actions correspond to the code

Tables are functions from primary keys to rows (`unborn` or outside the domain:
not inserted). `handler[w]` is process `w`'s call stack: `pc` names its next
write (`"accept.listing"` is `accept_request` before `mark_pending`), the other
fields are the Python locals that later steps still use. Each handler is

* a `...Begin` action: the fetch of the rows and every guard decided on them.
  A guard that fails returns an error and writes nothing, so it is a conjunct;
* one action per write, each going to the next `pc`. A value that the code takes
  from an instance fetched earlier is taken from `handler[w]`, and a value the
  code writes with `QuerySet.update` or a column-limited `save` touches only those
  columns. `save()` without `update_fields` writes the whole row back;
* `Crash(w)`, which drops the call stack and keeps the rows.

`Arrive(w)` is a request reaching a free worker, `Step(w)` a worker going on.
`Endpoints` (Marketplace, AdminRoles) says which optional endpoints take part, so
that runs stay small; the proofs are about every choice. 

*Marketplace.* `accept_request` is `AcceptBegin`, `AcceptRequest`, `AcceptListing`,
`AcceptExchange`, `AcceptOthers`, `AcceptNotify`. `MarkPending(l, seen)` decides on
the status `seen` in the snapshot, as the method does on its instance. The owner of
a listing never changes. `ratings` is a set of rows with ids; the unique constraint on exchange and
rater is the condition of `RateInsert`, so that two calls that both pass the check of
`rate_exchange` end in one row and one error. `inbox` is the set of notices ever written, so a repeated
notice is not told from one. `stale` says that `created_at` lies before the cutoff.
Timestamps are booleans (is it set?). A deleted listing is one that is marked
`removed` by `destroy`. `ExchangeStatus` has no `no_show`, which the code declares and no
handler writes.

*AdminRoles.* A role is `manager` if it has `roles.manage`, else `plain`; other
capabilities decide nothing here. `audited` and `told` keep the newest row per user
or role. `UpdateSave` can insert a deleted row again, which is what `save()` does.
`AssignRoles` and `AssignCheck` are the two queries of the last-manager check. The audit rows
of a rename and of an admin's profile edit name columns that are not modelled, so `audited` has
no place for them.
Superusers, who pass every check without a role, are left out.

*PhotoStore.* FileForge is external: it refuses, obeys, or obeys and its answer is
lost (`Lossy`). `DriftAway` is a file deleted in FileForge itself. `Job` is the
daily command; it holds the list of rows it fetched.

*PartnerApplications.* An address is a pair of an address without case and a
spelling. `ApproveGrant` abstracts `assign_admin_role` to granting or refusing;
`granted` records for which application. A password is known by how many came before it (0 is
the unusable one): an invitation is made from the user fetched at the beginning of the call, and
is dead on arrival (`stale`) if the password was replaced since. `LinkExpires` is
`PASSWORD_RESET_TIMEOUT`. Counts stop at 2, enough to tell once from
more than once.

*Moderation.* A single decision and each turn of a bulk one share `DecideSave`,
`DecideAudit`, `DecideTell`; `todo` is the rest of the bulk action's fetched list,
whose instances were all open when they were fetched. The bulk actions of the user
list and of the listing list have one form: `active` is `is_active` of a user, or
"not removed" of a listing. Whether the list was filtered by the column the action writes
(possible where `Filtered`) matters because the queryset is evaluated again after the
update. `trail` counts the audit rows per row and value, so that one of them cannot pass for
another, and `told` the notices per outcome. Filing a report is one insertion, which the
partial unique constraint refuses if the reporter has an open report on the target.

*Leaderboard.* Nothing is stored but exchanges, opt-outs and
`FeaturedDonor` rows; `Ranking`, `Ahead` and `Shown` are the queries.
`RankBegin` and `RankAhead` are the two queries of one answer. `Complete` and `Cancel` are the
saves of `complete_exchange` and `cancel_exchange` alone: their guards were decided on what
the calls read earlier, so that either may come over the other. Dates are
calendar months, so that "this month" changes while a handler runs. `InOrder` is the
sorted query: the order is total (count, then id), so there is one such sequence. The
longest list is 100 places, and `OwnRankFitsList` is about that list.

*DailyJobs.* `job` is the command: its stage, the rows it has fetched, and how many
ticks ago it was to start. Time passes between its stages and between two reminders too, and a
run is at work until `Late` ticks after its time at most, because it started late or takes long; `agenda` says how
many ticks are left until an exchange's `scheduled_at`, how many there were when it
was set, and how many reminders each party got since. `cached[p]` is the
`LocMemCache` of process `p`; it dies with the command's process. Of the four counts
of a snapshot the completed exchanges stand for all. A stage that raises is
`JobDies`: nothing in the command catches an exception.

*Sessions.* A call carries the cookie of the moment it was sent; its answer is a
separate step, which may be late (`Deliver`) or never come (`Lose`). `session` of a
token is the first token of its chain of rotations; the code does not store it, and
no action looks at it but to copy it. The outstanding and blacklisted tokens are those of
`simplejwt`, which is external. A rejected refresh leaves the cookie as it is.

*DropOff.* Two columns stand for all: one PATCH changes one of them, and saves both.
`AssignRead` and `AssignWrite` are the two halves of `managers.set()`, which reads
the managers in the transaction but locks nothing. Foreign keys turn a write that
refers to a deleted point into an error, which ends the handler.

**Histories.** Seven modules carry variables, or parts of `handler`, that no action reads and that only
properties mention: `disturbed` (Disturbances), `contested` (AdminRoles), `spoiled`
(PartnerApplications), `clashed` (DropOff) and `loose` (Sessions) collect the objects -
a listing, a user, an application, a point, a session - on which two handlers were at work at once or one
died half-way; `lost` (Moderation) what a dead process had not yet recorded, and `contested`
(Moderation) the reports that two processes had in hand at once; `wasOpen` (Marketplace) which of the rows
that a handler works on were pending or scheduled when it fetched them, and `undone` (Leaderboard) what was
cancelled between its two queries. A
property about everything else then says exactly what the missing transactions can
cost, and where nothing is lost. `asked` and `gone` (DropOff) record what the calls
asked for and what was deleted, `lost` and `over` (Sessions) the browsers that missed
an answer and the sessions that logged out.

`Disturbances` lays them over `Marketplace`, whose actions it leaves as they are. A
listing is `disturbed` when two handlers that go on to write its rows are at work at
once (`Overlap`), when a process dies with its handler half done (`Dies`; a handler
that has written nothing yet is not), or when a moderator restores it while its book
is promised or gone (`Reopens`). `torn` keeps only the deaths. `WorksOn(w, l)` says
that handler `w` has read rows of `l` and has a write of its rows left; a
handler that has only notices or audit rows left disturbs nobody.

## 3. Runs

Each run finishes within three minutes with two workers.

| Run | Shows | Instance |
|---|---|---|
| `market_undisturbed` | two processes, each also the job's, that may die, and moderators; a listing that nothing disturbed implements `OneReader`; `StatusTellsTheTruth`, `NobodyWaitsInVain`, `OneRequestEach`, `DecisionsStand`; disturbed or not, `DecisionsAreTold`, `ReportsAreTrue` | 3 users, 1 listing, 2 requests, 2 exchanges |
| `market_racing` | two processes, each also the job's, that may die: `ClaimedIsHandedOver`, `ExchangesAreAskedFor`, `NothingReopens`, `AcceptanceStands`, `CompletionStands` | 2 users, 1 listing, 2 requests, 1 exchange, 2 rating ids |
| `market_double_accept` | **violation** of `OneExchangePerRequest` | two processes |
| `roles` | two processes that may die: `BuiltInStays`, `StaffHoldRoles`, `AuditTellsTheTruth`, `LockoutsAreKnown` | 2 users, 2 roles |
| `photos` | two web processes and the job, failing deletions, drift: `NoOrphans`, `BrokenPhotosLeave` | 2 rows, 3 files |
| `photos_outage` | **violation** of `ReconcileKeepsBacked` | a status call that fails |
| `partners` | two processes that may die: `GrantsAreVerified`, `DecisionsAreComplete`, `ReviewersToldOnce`, `NobodyIsStuck` | 1 account, 2 applications, 2 spellings, links that expire |
| `moderation` | two processes that may die: `RecordsAgree`, `DecisionsAreLogged`, `ReportersHear`, `BulkIsLogged` | 2 reports, 2 reporters, 1 target, 2 moderators, 2 listed rows, filtered or not |
| `leaderboard` | one answer at a time while exchanges complete, completions are undone, donors opt out and the month turns: `RankingsAgree`, `RankNeverFlatters` | 3 donors, 3 exchanges, 2 months, 1 spotlight entry |
| `daily_jobs` | the command, late by up to a period, beside a web process and a clock, dying once: `RemindersReach`, `RemindersAreFew`, `ServedIsRecent`; liveness: `StaleRequestsLeave`, `ImpactReachesEveryone` | 2 users, 1 listing, 1 request, 1 exchange, 1 web process, the job |
| `sessions` | two calls at a time, late, lost or dying: `TypeOK`, `SessionsSurvive`, `OneLiveTokenEach` | 1 user, 2 browsers, 4 tokens |
| `dropoff` | three processes that may die: `PointsAreAsAsked`, `MeetingsStand`, `GoneStaysGone` | 1 point, 1 user, 1 exchange, 2 values |

A type invariant is checked where it says more than types (in `sessions`, that a token belongs to
an account that exists); the other modules state theirs
(`TypeOK`, `DailyTypeOK`) for the reader and for the proofs.

**What holds in spite of races, and what does not.** Properties come in two classes.
Some hold whatever interleaves and dies; they are checked with two processes and
crashes, and all of them are proved. The others hold of every object on which calls did
not overlap and none died half-way; the histories of section 2 tell these objects from
the rest, in runs where everything may interleave. For the second class the logic of each
handler is right and what is missing is a transaction; without the exception they are
refuted (section 4).

**Bounds.** One listing per marketplace run: handlers touch one listing and its
requests only, and no action relates two listings. Two processes are enough for
every race of two handlers on one row; two requests of two readers let one be accepted
while the other is declined as its rival, or made after a cancellation; two exchanges let
a book be promised, called off and promised again. `market_undisturbed` explores
everything until the listing is disturbed. Of a disturbed one only `DecisionsAreTold` and
`ReportsAreTrue` say more, and `Followed` lets requests, acceptances, and the parties'
completions and cancellations go on there, until a process dies over it. That
the other listings stay out of its reach, which one listing cannot show, is proved
(section 5). `FewRatings` stops `market_racing` at the second rating: one is enough for
two processes to race for. When the keys are used up
`RequestInsert`, `AcceptExchange` and `UploadInsert` wait, which is why runs set
`CHECK_DEADLOCK FALSE`: the system stops when its keys are used up and everything
is decided, and a system with nothing to do is not at fault. `MaxPhotos`,
`Files`, `MaxApps` and `Users` bound the rows, files and accounts ever made.
Two applications are needed for `ReviewersToldOnce`: with one, nothing could be
verified twice. The other runs are bounded as follows; the proofs of section 5 have no such
bounds.

* `roles` (`FewClashes`): calls overlap, or one dies, over one user or one role, and beside it over
  the question who can manage roles; a state in which two users, or a user and a role, were hit is
  not explored further. So a profile save that overlaps an assignment is explored to the end.
  The run stops where nobody is left who can manage roles, which is where `LockoutsAreKnown` looks.
* `partners` (`FewSpoiled`): overlaps and deaths hit one thing, the verification or the decision of an
  application or the link of an account; what follows once a second is hit is left to the proofs. Only the first application may ask for a
  drop-off point.
* `dropoff` has no bound on clashes: whatever three processes do to one point is explored to the
  end. Three, because a point that is deleted can be saved again by a PATCH that overlapped, while a
  third call makes an appointment there; two values, so that an edit can be undone. That an
  appointment moves from one point to another is covered by the proof only.
* `daily_jobs`: `Period = 1`, `Late = 1`, so a run may still be at work when the next is due, `Window = 2`, the
  shortest that `RemindersReach` allows, `TTL = 1`, and `Horizon = 3`, so that an exchange is agreed on before,
  at and beyond the window; `Deaths = 1` lets one run of the command die (`Crashes = TRUE` is the
  marketplace's name for it, which `DailyImplementsMarketplace` needs). `OneOwner` picks
  which of the two users owns the listing.
* `sessions` has four tokens: a login and three rotations, or two logins and two rotations, by
  two calls at once; `FewExpired` leaves at most one of them to expire, which ends a session and
  touches no other.
* `moderation`: two reports are one to decide and one to file behind it, or two for a bulk action; two moderators
  decide one report at once. `OneSide` explores the reports while no list was touched and the lists
  while nothing was reported, since they share no variable but the processes, and each row of a list
  is logged once per value and once more.
* `leaderboard`: three exchanges among three donors give every tie and every strict order of two; a second
  month is what a period can be mistaken for. One process, because a rank is only read, so two
  readers cannot disturb each other. `OneTopic` explores the spotlight and the ranking one at a
  time: they read and write different tables.

**Symmetry** is over interchangeable keys and workers and is used in runs without
liveness only. Views leave out what no action reads and no property of the run mentions:
`market_racing` (`Tables`) notices and audit rows; `roles` (`Rows`) notices, and the audit rows of
contested users and roles; `partners` (`Read`) which password of several an account has, but for
whether an invitation under way was made from the last; `dropoff` (`Read`) histories and audit
rows of what has clashed or is gone; `daily_jobs` (`Read`) the logs, the times of exchanges that
are over, and ages once a run has died: neither a guard, a fairness condition nor a property looks
at these, so the view may be used with liveness.

**Fairness.** `DailyJobs!FairDaily`: a process that serves a call goes on with it (WF
of `Serve` in the middle of a handler, and of `StatsStep`), the scheduler starts the
command when its time has come (WF of `JobStart`), the command goes on (WF of
`JobStep`), and time passes however many calls arrive (SF of `Tick`: it is disabled
while a run is as late as it may be, and while the statistics are being computed, again and again, so WF would not do; that
computation takes no day). `PhotoStore!FairSpec`: the daily command is started and
runs to its end (WF of `Reconcile`); nothing is assumed of web processes or of
FileForge, except that status calls are answered. No fairness is assumed of users,
moderators or calls that arrive.

### Mutants

Operators ending in `_mut` are faulty variants of the definition after them, the
way a plausible edit of the code would be (a guard dropped, a save forgotten, a
filter missing). Nothing uses them; substituting one for its original makes the
property it is meant for fail in its run, which shows that the property says
something about the code. `PROJECT.json` pairs them.

## 4. Divergences

The two violation runs refute what the repository says of itself:

1. **`market_double_accept`** - two overlapping accepts of one request both see
   `pending` (`apps/requests/services.py:58`) and each create an exchange;
   `API_REFERENCE.md:1514-1515` says accept rejects being called twice.
2. **`photos_outage`** - any `FileForgeError`, an outage too, makes reconciliation
   delete the row (`apps/listings/services.py:76`) although its docstring says only
   rows whose file "no longer exists".

Further ones, met with the same modules. Their properties are defined in the
modules and are not part of the regular runs; each is refuted in seconds by the
module's MC module with the constants given (everything else as in the run named, without its `CONSTRAINT` and `VIEW`).

| Property | Constants | What happens | Said in |
|---|---|---|---|
| `GivenIsGone` | `market_racing`, `Endpoints = {"moderate"}` | remove and restore put a claimed listing on offer (`listings/admin_views.py:61`) | `API_REFERENCE.md:1385` |
| `ExpiryFreesListing` | `market_racing`, `Endpoints = {"expire"}` | the job cancels the last request and leaves the listing pending (`requests/services.py:110`) | docstring, lines 102-104 |
| `PatchKeepsStatus` | `market_racing`, `Crashes = FALSE` | a stale PATCH writes an old status back (`listings/serializers.py:101`) | `API_REFERENCE.md:389-390` |
| `AcceptedHasExchange` | `market_racing`, `Endpoints = {}` | an accept dies after its first write (`requests/services.py:64`) | `API_REFERENCE.md:1392` |
| `OnlyPendingExpire` | `market_racing`, `Endpoints = {"expire"}` | the job cancels a request accepted after it was fetched (`requests/services.py:112`) | `API_REFERENCE.md:1394` |
| `OneOpenRequest` | `market_double_accept`, two requests | two calls of one reader both find no pending request (`requests/services.py:33`) | `API_REFERENCE.md:462` |
| `SomeoneCanManage` | `roles`, `Endpoints = {"role_capabilities"}` | the only manager's role loses `roles.manage` in an edit of capabilities (`accounts/admin_services.py:56`) | `API_REFERENCE.md:958-959`: the system "can never be edited into a state where nobody can manage roles" |
| `SomeoneCanManage` | `roles`, `Endpoints = {"suspend"}` | the only manager is suspended (`accounts/admin_views.py:131`) | comment, `admin_services.py:95-98` |
| `SomeoneCanManage` | `roles`, `Endpoints = {}`, `Crashes = FALSE` | two managers are demoted at once (`admin_services.py:101`) | comment, `admin_services.py:95` |
| `AuditTellsTheTruth` without `\ contested` | `roles`, `Endpoints = {"profile"}`, `Crashes = FALSE` | a stale profile save undoes an assignment without an audit row (`accounts/serializers.py:62`) | `docs/ADMIN_API_PLAN.md:344` |
| `AppendedLast` | `photos` with `MaxPhotos = 4`, 4 files, one process, no failures | the order of a new photo is the count of rows (`listings/views.py:108`) | `API_REFERENCE.md:419-420` |
| `ReadyFiresOnce` | `partners` | two uses of one link both find the application unverified (`partners/services.py:136-150`); `reviewers_notified_at` is never read | `notifications/services.py:179-181` |
| `RejectedGetNothing` | `partners` | approve and reject race, the role is granted and the status ends rejected (`partners/services.py:200`) | `API_REFERENCE.md:1356` |
| `OnePlaceEach` | `partners` | two approvals create two drop-off points (`partners/services.py:160`) | `API_REFERENCE.md:1344-1345` |
| `OnePendingEach` | `partners` | the look-up is made on the address in the form, the constraint on the spelled one that is stored (`partners/services.py:71`) | `API_REFERENCE.md:766` |
| `DecidedOnce` | `moderation` | two moderators both find the report open; the later decision overwrites the earlier (`moderation/services.py:46`) | `moderation/tests/test_moderation.py:47` |
| `NothingSilently` | `moderation` | the list was filtered by the written column: the loop finds no rows and writes no audit row (`accounts/admin.py:52`, `listings/admin.py:26`) | `docs/ADMIN_API_PLAN.md:344` |
| `RankNeverFlatters` without `\cup h.undone` | `leaderboard` | a cancellation that read the exchange while it was scheduled overwrites its completion between the two queries, and the caller's count is too high (`exchanges/services.py:60-64`, `accounts/leaderboard_services.py:95-112`) | docstring of `get_my_leaderboard_rank`, "Correct at any scale" |
| `NobodyIsStuck` without `"expired"` | `partners` | a link runs out after three days; a second submission in the same spelling is refused while the first is pending, and nothing else sends a link (`partners/services.py:71-77, 125`) | `API_REFERENCE.md:745-746` |
| `NobodyIsStuck` without its last disjunct | `partners` | an earlier link is used while a submission is under way, and the invitation is made from the replaced password (`partners/services.py:88, 125`): the application stays unverified | as before |
| `OptedOutNotShown` | `leaderboard` | the opt-out is read when an entry is made, not when it is shown (`accounts/leaderboard_services.py:151`) | `API_REFERENCE.md:1304-1305` |
| `ServedWithinADay` | `daily_jobs` with `DailySpec`, `TTL = 2` | a web process serves its own copy until the TTL is over, after the command has recomputed (`analytics/services.py:40-42`) | `API_REFERENCE.md:865-867` |
| `RemindersReach` | `daily_jobs` with `DailySpec`, `Period = Window = 2`, `Late = 2`, `Horizon = 4` | the window is as long as the time between two runs (24 hours, daily), and a run that gets to the reminders later than the last one leaves a gap (`exchanges/services.py:150-155`) | docstring, `exchanges/services.py:141-146` |
| `RefusedWhenOver` | `sessions` | two tabs refresh with one cookie: the second is refused although nobody logged out (`accounts/views.py:101`) | `API_REFERENCE.md:97` |
| `LoggedOutStaysOut` | `sessions` | a refresh overlaps the logout and its answer, or its fresh token, outlives it (`accounts/views.py:108, 131`) | `API_REFERENCE.md:98` |
| `ListsAreReplaced` | `dropoff`, two users | two assignments overlap and leave a mixture (`dropoff/admin_views.py:59`) | `API_REFERENCE.md:1231` |
| `PatchesCompose` | `dropoff` | two PATCHes of different columns undo each other (`dropoff/admin_serializers.py:57`) | `API_REFERENCE.md:1218` |

Seen and not modelled as a property: creating, editing and deleting a drop-off point
write no audit row (`dropoff/admin_views.py:48-52`; `perform_update` and
`perform_destroy` are not overridden), although `docs/ADMIN_API_PLAN.md:344` says that
every mutating admin action does.

Seen and not modelled: a logged-in submission that omits `applicant_name` or
`applicant_email`, which the reference calls optional, raises a `TypeError`.

## 5. Proofs

TLAPS proves, for any number of users, rows, files and processes and any choice of
endpoints and crashes:

| Module | Theorem | Says |
|---|---|---|
| `MarketplaceProofs` | `TypeCorrect` | `Spec => []TypeOK` |
| | `ClaimsAreHandovers` | a claimed listing had a completed exchange |
| | `ExchangesAsked` | exchanges go from the owner to a reader who asked |
| | `ReservationsDecided` | a pending listing had a request decided |
| | `ReportsTrue` | notices and audit rows report what happened |
| | `NothingIsReopened` | no step undoes a decision or a completion |
| | `AcceptancesStand` | an acceptance is taken back only by a handler that fetched the request before it |
| | `CompletionsStand` | a completion is taken back only by a cancellation that fetched the exchange before it |
| | `OneReaderAtATime` | `NotedSpec => OneReaderSpec`: every undisturbed listing keeps the promise of `OneReader` |
| | `StatusesTrue`, `NobodyInVain` | `StatusTellsTheTruth`, `NobodyWaitsInVain` |
| | `RequestsAreOneEach` | `OneRequestEach` |
| | `DecisionsAreFinal` | `DecisionsStand` |
| | `DecisionsTold` | `DecisionsAreTold`, however handlers overlap |
| | `NothingElseDisturbs` | with one process that does not die and no moderators, `disturbed` stays empty |
| | `DailyInvariance` | `DailySpec => []IInv`: the marketplace is as safe beside the daily command |
| | `DailyImplementsMarketplace` | `DailySpec => Spec` |
| | `DailyTypeCorrect` | `DailyTypeOK`, for finitely many exchanges |
| | `RemindersComeInTime` | `RemindersReach`, assuming `Period + Late <= Window` |
| | `FewReminders` | `RemindersAreFew` |
| | `ServedRecent` | `ServedIsRecent`, for finitely many exchanges and one command |
| `AdminRolesProofs` | `TypeCorrect`, `BuiltInIsSafe`, `StaffAreHolders` | as the properties of the runs |
| | `AuditIsTrue` | `AuditTellsTheTruth`: audit rows are true, or a clash or a death is noted |
| | `LockoutsAreNamed` | `LockoutsAreKnown`: the listed ways to lose the last manager are all |
| `SessionsProofs` | `TypeCorrect` | tokens belong to accounts and sessions |
| | `BrowsersKeepASession` | `SessionsSurvive`, however many calls overlap |
| | `OneTokenEach` | `OneLiveTokenEach`, for finitely many calls at a time |
| `PhotoStoreProofs` | `TypeCorrect` | |
| | `NothingIsOrphaned` | `NoOrphans`, assuming `Reliable` |
| | `NothingIsBroken` | `NoBrokenImages`, assuming `Steady`: a row without a file is about to be deleted |
| | `OnlyBrokenAreReconciled` | `ReconcileKeepsBacked`, assuming that status calls are answered |
| `ModerationProofs` | `TypeCorrect` | |
| | `RecordsTrue` | audit rows and notices are about decided reports |
| | `RecordsInAgreement` | `RecordsAgree`: log and notices agree, and with the row where nobody decided at once |
| | `DecisionsLogged` | every decision is logged, or a process died deciding that report |
| | `ReportersAreTold` | every reporter is told the outcome that stands, with the same exception |
| | `BulkLogged` | `BulkIsLogged`: each single change is logged, or a process died, or the list was filtered |
| `PartnerApplicationsProofs` | `TypeCorrect`, `GrantsVerified` | as the properties |
| | `DecisionsComplete` | role, point, audit row and notice agree with the decision |
| | `ReviewersTold` | reviewers are told of what is verified, and once |
| | `NobodyStuck` | `NobodyIsStuck`: who waits for verification, and what became of the link |
| `LeaderboardProofs` | `TypeCorrect` | |
| | `RanksAgree` | `RankingsAgree`: the list, every cut of it and the own rank |
| | `EveryTopFits` | the same of every cut, whatever limit is asked for |
| | `RankIsModest` | `RankNeverFlatters`, whatever happens between the two queries |
| `DropOffProofs` | `PointsAsAsked` | rows and managers are what undisturbed calls asked for and logged |
| | `MeetingsAsAgreed` | the parties meet where they last agreed to |
| | `GoneForGood` | a deleted point comes back only by a PATCH that overlapped |

**Assumptions.** Only the named `ASSUME`s of the modules (`None` is no key,
`Endpoints` is a set of endpoints, and the like), and a few more for single theorems.
The theorems about undisturbed listings have no assumption but that `StatusesTrue` is about
finite sets of request and exchange ids (it counts rows). The exceptions are those of the histories,
per listing: two overlapping handlers, a death half-way or a restored listing each let a second reader be promised the
book (section 4), and `NothingElseDisturbs` shows that these are all: where none of them
can happen, the theorems are about every listing.
`NothingIsOrphaned` assumes `Reliable`: uploads neither lose their answer nor die
between the two stores, and status calls are answered. Without the first two the file
really is orphaned; without the last, reconciliation deletes the row of a stored file, and
that is all it takes: `OnlyBrokenAreReconciled` assumes nothing else. `NothingIsBroken`
assumes `Steady`: nothing is deleted in FileForge itself, and deletions neither lose their
answer nor die; where they do, the row is left to reconciliation (`BrokenPhotosLeave`).
`DailyImplementsMarketplace` assumes that the command has a process of its own, as
`manage.py run_daily_jobs` has (`Cron \cap Web = {}`), that the marketplace has the expiry
among its endpoints, and that its processes may crash if runs of the command die.
`ServedRecent` assumes that there is one process that runs the command (`OneCommand`), and
says so in its hypotheses: with two, the one that goes on need not be the one that
recomputes. The project's README sets the command up as one Scheduled Task
(`src/README.md:218`). `RemindersComeInTime` assumes `Period + Late <= Window`: the window of reminders is
longer than the time between two runs by what a run may be late. **The defaults do not meet it**: the window is 24 hours
and the command daily, so that only runs that get to their reminders at the same time of
each day leave no gap (section 4). A window of 25 hours meets it for runs that are late by up
to an hour. `LateAssumption` says that a run is over when the next but one is due.

**Marketplace.** None of the properties is inductive: that a claimed listing was
handed over depends on what a PATCH that is under way will write back. `IInv` adds
`RowsRefer` (rows refer to rows that exist and fit) and `HandlerHolds` (a handler in
the middle of its writes holds what it saw or wrote: a PATCH that read `claimed`
knows of a completed exchange, an accept past its first write works on a decided
request). The facts that snapshots rely on are monotone - a decided request stays
decided, a completion timestamp stays set - so each step is shown to keep them
first, and every handler that does not move keeps its `HandlerHolds` by that alone.
Then one lemma per group of actions shows that the acting handler re-establishes its
own. `NothingReopens` follows from the type invariant and the guards of each action,
and `AcceptanceStands` and `CompletionStands` from which handlers write a request, or the status of an
exchange, at all, and from `HandlerHolds`, by which those handlers fetched their row while it was open.
`DecisionsAreTold` speaks of the moments when no handler is half done. `ToldInv` says it of
every state: a request, an acceptance or a completion has its notices, or there is a
handler that still owes them, or a process died over its listing. A step of a handler
`Pays` what it owed, or goes on owing it, and `Owes` what it has just done; a death of
one that owes is what `torn` notes.

**Undisturbed listings, and OneReader.** The mapping is in `Disturbances`: promised, and
handed over, are the scheduled and the completed exchanges of a listing; the listings that
were disturbed are excused, each for itself. `NInv` says of every other listing `k` that
it is `Good`: at most one handler is at work on it, and what that handler is in the middle
of `Fits` the rows of `k`; or none is, and the rows fit the idle handler. `Fits` is all
that the properties need, said of one listing and one handler:

* `Bound(k)`, the exchanges that promise or gave the book, has at most one member
  (`AtMostOne`), because whoever makes an exchange works for a request that was pending,
  and whoever is pending waits for a book that nobody is bound to, or is about to be
  declined (`WaitersMayHope`);
* the status is that of the exchanges, but that within a handler a listing may be reserved
  and not yet, or no longer, promised (`StatusFits`, `Settling`);
* accepted requests and exchanges of a reader are equally many, but that within
  `accept_request` one exchange may be owing (`OneForOne`, `Owing`);
* no reader has two open requests (`OneEach`);
* what the handler read when it began is still so when it writes it back (`Knows`).

The proof then asks what a step does to one listing. A handler that is not about `k`
leaves all its rows alone (`StepElsewhere`; `Stays` carries `Good` over), which is why
other listings may be in any state. The one that is goes from `Fits` to `Fits` (`StepHere`,
`Moves`). A handler that begins finds what it needs in the rows that fit the idle one, or
overlaps another and disturbs (`BeginGood`); a death that leaves nothing half done leaves
rows that fit (`CrashGood`); and what a removal, a creation and the passing of time do is
the rest. A restoration of a book that is bound excuses the listing; any other
finds it free. With `NInv` each step is, listing by listing, a step of `OneReader`
or a stutter: `AcceptBinds` a promise, `CompleteHandsOver` a handover, `CancelCallsOff` a
call-off. `DecisionsStand` follows because every writer of a request status `Knows` its
request to be pending, but the sweep of rivals, which writes only where it reads so.

**DailyJobs.** Each step of `DailyNext` is one of the marketplace's actions, the end of a
process, or leaves the marketplace's tables alone (`MarketMoves`); so the lemmas about
`Marketplace` are used again as they are, and `IInv` holds beside the command. For the
refinement it remains that a run that dies does so in a process that is idle or in the
middle of the expiry (`CronHolds`).
The three properties of the command are about numbers that change with time, and none is
inductive. What is invariant is relative to `Clock`, the ticks since the command was last to look: in
the stages before its query a period and what the run is late, afterwards what it is late. A tick takes one from an
appointment's `due` and adds one to `Clock`, at most `Period + Late`, and the query takes a
period from it. So an appointment made `Period + Late` ahead is `OnTheWay`: either
`due + Clock >= Period + Late`, and the next query finds it within the window or leaves it so far
away; or it is in the hands of the run, whose remaining lateness cannot bring it to its time; or
both parties were told. `Few` says the converse, that
each reminder after the second has cost a period: `due + Clock + (sent - 2) * Period <= Window + Late`
when none is owed, and one reminder fewer when one is. The last reminder is the one that
a run may send for an appointment that was moved after the query; `RunsOK` is the
arithmetic of `(Window + Late) \div Period`. `SnapshotsAreYoung` follows a snapshot from the
count (age 0) through the table (at most `Clock`), a reader's local (at most a period and what a run may be late) and its
cache (age and time left together at most a TTL more); the run goes on to the reminders only
when its own snapshot is in the table.

**Leaderboard.** That the list is what the query says needs that there is such a list: a
finite set with a strict total order can be listed in that order, because giving each
element its place, one more than the number of those before it, is a bijection onto
`1..n` (`Sortable`). The donors ahead of somebody then are the initial segment of the list
down to the first of those who gave as much, and the cardinality of a segment is its
length (`Segment`), which is all of `RankingsAgree`. For `RankNeverFlatters` the invariant
`RankInv` says that the count a caller's handler holds is at most the number of exchanges the
caller has given or that were cancelled since they were counted: an exchange leaves the one set
only into the other (`GivenStays`). The more
one has given, the fewer are ahead (`AheadShrinks`), so counting with the older number ranks the
caller no better than one who has all of these.

**AdminRoles.** The invariant adds that a rename of the built-in role under way
holds the capabilities it read, that no other handler has the built-in role as its
target to edit or delete, and that the user row a profile save will write back is
consistent (`staff` iff it has a role).
`AuditInv` says of each user and role on which no clash is noted that its audit row is
true, or that a handler which knows what the row says owes it (`UserHolds`,
`RoleHolds`). Whoever writes such a row is alone at work on it (`OverlapSeen`), a stale
save included: it writes back what is there. `ManageHolds` does the same for
`last_role_manager`: while no two calls that write roles overlapped, the state of the
role to be replaced is the one read, and a manager's demotion knows of another manager.
A creation and a deletion cannot disturb that, because they touch roles nobody holds. So
`Lockout` leaves the edit of a role, a suspension, and managers that are all suspended.

**PhotoStore.** The type invariant says that files of rows, and of handlers, were
once stored. `NoOrphans` needs that a deletion that reaches its second half has
deleted the file, that reconciliation drops a row only when its file is gone, and
that the state of a file id only evolves from unused to stored to deleted. `NoBrokenImages`
needs to know who else has a file: nobody (`FileInv`). An upload inserts a file no row and
no deletion has (`Fresh`), two rows have two files (`OneRowEach`), and a deletion deletes
the file of its own row only (`OwnFile`).

**Moderation.** The invariant adds that a report in a handler's hands is no longer
`unborn`, that a handler past its save works on a decided report, and that
decided reports stay decided. `DecisionsAreLogged` needs one case more than it
seems: when a second decision overwrites the row, the logged decision is no longer the
row's, and the handler that wrote last still owes its audit row. `lost` is a history
variable: what a process had written and not yet recorded when it died. With it the
properties about reports say exactly what a death can cost, and are proved by what
starts, what keeps and what settles such a debt. For `RecordsAgree` it is invariant that a report
without a clash is in the hands of one process at most (`Exclusive`), for which it is either still open and `Fresh` or
its row names what that process decided and nobody was told (`Stands`). `BulkIsLogged` is about each
step: only the update changes a row, and the handler that did so holds it until its audit row,
its death, or a second evaluation of the filter.

**Sessions.** That a browser keeps a cookie that works depends on who else could set or
blacklist it. `IInv` adds that a fresh token on its way to a browser is in nobody's
cookie and in no other call (`FreshIsNew`), that no two browsers share a cookie and
only a browser's own calls carry it (`CookiesAreApart`), and what each call holds at
each step (`CallHolds`). Then the only step that blacklists a cookie is one whose own
answer replaces it.
`OneLiveTokenEach` needs to know, at a refresh or a logout, that the token it was sent
is the only one of its session that works. `LiveInv` follows a session that is not
loose: at most one call is about it (`Alone`); the tokens that work are known to that
call, at each of its steps, and no browser holds another (`CallKnows`); between calls
the one that works is in at most one cookie (`Rests`); and after a logout there is none
and none under way (`StaysOver`). `Chains` says that a fresh token belongs to the session
of the one it replaces, or is the first of a session nobody else knows of.

**PartnerApplications.** `HandlerHolds` says what a handler knows of its user and its
application, and every step keeps it because rows only grow in what it speaks of
(`Grows`). A property of what is settled says nothing of the steps in between, so each
is generalised to what is under way: `OverlapSeen` says that an application on which no
overlap was noted has one handler at work on it, `Stage` what that handler has written
when it is at a given step, `RecordsOwed` and `NoticeOwed` which handler still owes a
record when several are at work, and `LinkOwed` who owes somebody a link. That a link
owed is given needs `OnePerSpelling`, the unique constraint: `VerifyFind` takes the
newest application, and with one spelling there is no other. That an invitation is dead on
arrival only for somebody who has set a password needs `StaleMeansReplaced`: a handler whose
snapshot of the user has another password than the row knows that the row's was set by a link.

**DropOff.** `OverlapSeen` again says that on a thing without a clash one handler at
most is at work. `RowHolds`, `ManagersHold` and `MeetingHolds` say what that handler
knows of it: a PATCH under way differs from the row in its own column only, an assignment
knows the managers there are, and a call that changes only the time saves the point there
is - or one deleted since, which it can save only if a PATCH brought it back.
`MeetingsStand` is inductive only with the last case spelled out: then nothing was asked
for any more, so that a second deletion leaves nothing behind either. Each step is shown
to keep each part on its own, most of them because they write none of its tables.

Of the theorems that restate no run's property, `ReservationsDecided`, `RecordsTrue`,
`NothingElseDisturbs`, `NothingIsBroken` and the type theorems of `Disturbances` (`NotedTypes`), `PhotoStore`,
`Moderation` and `PartnerApplications` are proved and not model-checked again.

**Only model-checked:** liveness (`StaleRequestsLeave`, `ImpactReachesEveryone`,
`BrokenPhotosLeave`). Temporal reasoning under fairness, which needs `ENABLED`, is out of
the prover's reach. Every invariant and every action property of a passing run is proved.

## 6. Not modelled, and why

* E-mail, formatting, pagination, search, filters, geography, generated schema,
  seed data: no state of the protocols.
* Access tokens: signed, stored nowhere, and they expire by themselves. Throttling.
* `avatar_file_id`, `avatar_url`: columns no handler writes.
* Scoping of drop-off points to their managers: a filter on reads.
* Generic edit forms of the Django admin: they write any field of any row, and no
  invariant survives them by design.
* Cascades of a deleted user or listing row: no endpoint deletes either; only the
  Django admin does.
* Reading notifications: `is_read` takes part in nothing else.

## 7. Plan

Done, in this order: `Marketplace` with `OneReader` (the core of the system), its
proofs; `AdminRoles`, `PhotoStore` and their proofs; `PartnerApplications`;
`Moderation` and its proofs; `Leaderboard`; `DailyJobs`, which composes the marketplace
with a clock, the statistics and the reminders; `Sessions` and its proofs; `DropOff`; the
proofs about `PartnerApplications` and `DropOff`; those of `AuditTellsTheTruth`,
`LockoutsAreKnown` and `OneLiveTokenEach`; the proofs about `DailyJobs` and `Leaderboard`;
`Disturbances`, with the refinement of `OneReader` and all that is said of undisturbed
listings.

Next:

1. The composition of `PartnerApplications` with `AdminRoles`, so that a grant goes
   through the last-manager check instead of succeeding or failing at will.
2. Read flags of notifications, and the rows of the spotlight's audit log.

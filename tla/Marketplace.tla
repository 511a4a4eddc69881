----------------------------- MODULE Marketplace -----------------------------
(***************************************************************************)
(* The request -> accept -> exchange -> rating life of a listed book:      *)
(* apps/listings, apps/requests and apps/exchanges of the SalvageMe        *)
(* backend, with the notification and audit rows their handlers write.     *)
(*                                                                         *)
(* No handler runs in a transaction (ATOMIC_REQUESTS is unset, and no      *)
(* query locks a row), so a handler is a sequence of steps: one read of    *)
(* the rows it works on, on which its guards are decided, and then one     *)
(* step per autocommitted write.  Handlers of different processes          *)
(* interleave between those steps, and a process that dies leaves the      *)
(* writes it made.  A process that is in the middle of a handler is        *)
(* described by its entry of the variable "handler": pc names the next     *)
(* write, the other fields are the Python locals that later steps use.     *)
(*                                                                         *)
(* Operators whose name ends in _mut are faulty variants of the operator   *)
(* that follows them.  No action uses them; they are what a property is    *)
(* tried against (README, "Mutants").                                      *)
(***************************************************************************)
EXTENDS Naturals, FiniteSets

CONSTANTS
    Users,        \* registered users: owners and readers
    Listings,     \* primary keys of Listing rows
    RequestIds,   \* primary keys of BookRequest rows
    ExchangeIds,  \* primary keys of Exchange rows
    RatingIds,    \* primary keys of UserRating rows
    Web,          \* processes that serve HTTP requests
    Cron,         \* processes that run the daily job
    Endpoints,    \* the optional endpoints in play, see OptionalEndpoints
    Crashes,      \* may a process die in the middle of a handler?
    None          \* no row, no user

OptionalEndpoints ==
    {"delete", "patch", "decline", "schedule", "rate", "force", "moderate", "expire"}

ASSUME EndpointsAssumption == Endpoints \subseteq OptionalEndpoints
ASSUME CrashesAssumption == Crashes \in BOOLEAN
ASSUME NoneAssumption ==
    None \notin Users \cup Listings \cup RequestIds \cup ExchangeIds \cup RatingIds

VARIABLES
    listings,   \* table listings_listing
    requests,   \* table requests_bookrequest
    exchanges,  \* table exchanges_exchange
    ratings,    \* table accounts_userrating
    inbox,      \* table notifications_notification: <<category, recipient, row>>
    auditLog,   \* table moderation_auditlog: <<action, target row>>
    handler     \* what each process is in the middle of

Processes == Web \cup Cron

rows == <<listings, requests, exchanges>>
logs == <<inbox, auditLog>>
vars == <<listings, requests, exchanges, ratings, inbox, auditLog, handler>>

-----------------------------------------------------------------------------
(* The status values of the rows; "unborn" is a key not yet inserted.      *)

ListingStatus == {"unborn", "available", "pending", "claimed", "removed"}
RequestStatus == {"unborn", "pending", "accepted", "declined", "cancelled"}
ExchangeStatus == {"unborn", "scheduled", "completed", "cancelled"}

ListingRow == [status: ListingStatus, owner: Users \cup {None}]

(* stale: created_at lies before the cutoff of the daily job. *)
RequestRow == [status: RequestStatus, listing: Listings \cup {None},
               requester: Users \cup {None}, stale: BOOLEAN]

(* completedAt, scheduledAt: is the timestamp of that name set? *)
ExchangeRow == [status: ExchangeStatus, listing: Listings \cup {None},
                donor: Users \cup {None}, recipient: Users \cup {None},
                completedAt: BOOLEAN, scheduledAt: BOOLEAN]

RatingRow == [id: RatingIds, exchange: ExchangeIds, rated_by: Users, rated_user: Users]

PCs == {"idle", "patch.save", "remove.audit", "restore.save", "restore.audit",
        "request.check", "request.insert", "request.notify",
        "accept.request", "accept.listing", "accept.exchange", "accept.others",
        "accept.notify", "decline.request", "decline.notify",
        "schedule.save", "schedule.donor", "schedule.recipient",
        "complete.exchange", "complete.listing", "complete.audit",
        "complete.donor", "complete.recipient",
        "cancel.exchange", "cancel.listing", "cancel.audit",
        "rate.check", "rate.insert", "expire.row"}

(* seen: the listing's status as the handler read it.  todo: the rows the  *)
(* daily job has fetched and not yet written.  wasOpen: which of the rows  *)
(* it works on were pending or scheduled when it fetched them, a history   *)
(* that no action reads.                                                   *)
Handler == [pc: PCs, req: RequestIds \cup {None}, exch: ExchangeIds \cup {None},
            lst: Listings \cup {None}, user: Users \cup {None},
            seen: ListingStatus, forced: BOOLEAN, todo: SUBSET RequestIds,
            wasOpen: SUBSET (RequestIds \cup ExchangeIds)]

Idle == [pc |-> "idle", req |-> None, exch |-> None, lst |-> None, user |-> None,
         seen |-> "unborn", forced |-> FALSE, todo |-> {}, wasOpen |-> {}]

Init ==
    /\ listings = [l \in Listings |-> [status |-> "unborn", owner |-> None]]
    /\ requests = [r \in RequestIds |-> [status |-> "unborn", listing |-> None,
                                         requester |-> None, stale |-> FALSE]]
    /\ exchanges = [e \in ExchangeIds |->
                       [status |-> "unborn", listing |-> None, donor |-> None,
                        recipient |-> None, completedAt |-> FALSE, scheduledAt |-> FALSE]]
    /\ ratings = {}
    /\ inbox = {}
    /\ auditLog = {}
    /\ handler = [w \in Processes |-> Idle]

-----------------------------------------------------------------------------
(* Control of a handler, and the row writes several handlers share.        *)

At(w, pc) == handler[w].pc = pc
Become(w, h) == handler' = [handler EXCEPT ![w] = h]
Goto(w, pc) == Become(w, [handler[w] EXCEPT !.pc = pc])
Finish(w) == Become(w, Idle)

SetListing(l, s) == listings' = [listings EXCEPT ![l].status = s]
SetRequest(r, s) == requests' = [requests EXCEPT ![r].status = s]

(* Listing.mark_pending, decided on the status the instance was read with. *)
MarkPending(l, seen) ==
    listings' = IF seen = "available"
                THEN [listings EXCEPT ![l].status = "pending"] ELSE listings

(* The attribute is set and save() forgotten. *)
RevertToAvailable_mut(l, seen) == UNCHANGED listings

(* Listing.revert_to_available, likewise. *)
RevertToAvailable(l, seen) ==
    listings' = IF seen = "pending"
                THEN [listings EXCEPT ![l].status = "available"] ELSE listings

(* Listing.mark_claimed: no condition. *)
MarkClaimed(l) == SetListing(l, "claimed")

IsParty(e, u) == u \in {exchanges[e].donor, exchanges[e].recipient}
Donor(l) == listings[l].owner

(* _assert_is_party's second half: the parties still match the listing. *)
PartiesMatch(e) == Donor(exchanges[e].listing) = exchanges[e].donor

PendingRequests == {r \in RequestIds : requests[r].status = "pending"}
ScheduledExchanges == {e \in ExchangeIds : exchanges[e].status = "scheduled"}

Notify(categories) == inbox' = inbox \cup categories
RecordAuditLog(action, target) == auditLog' = auditLog \cup {<<action, target>>}

-----------------------------------------------------------------------------
(* Listings: the owner's endpoints and the moderators'.                    *)

CreateListing(l, u) ==
    /\ listings[l].status = "unborn"
    /\ listings' = [listings EXCEPT ![l] = [status |-> "available", owner |-> u]]
    /\ UNCHANGED <<requests, exchanges, ratings, logs, handler>>

(* Soft delete: one unconditional write of the status. *)
DeleteListing(l) ==
    /\ listings[l].status # "unborn"
    /\ SetListing(l, "removed")
    /\ UNCHANGED <<requests, exchanges, ratings, logs, handler>>

(* A PATCH reads the row, changes the editable fields on the instance and  *)
(* saves the whole instance: the status goes back as it was read.          *)
PatchBegin(w, l) ==
    /\ At(w, "idle")
    /\ listings[l].status # "unborn"
    /\ Become(w, [Idle EXCEPT !.pc = "patch.save", !.lst = l,
                              !.seen = listings[l].status])
    /\ UNCHANGED <<rows, ratings, logs>>

PatchSave(w) ==
    /\ At(w, "patch.save")
    /\ SetListing(handler[w].lst, handler[w].seen)
    /\ Finish(w)
    /\ UNCHANGED <<requests, exchanges, ratings, logs>>

RemoveWrite(w, l) ==
    /\ At(w, "idle")
    /\ listings[l].status # "unborn"
    /\ SetListing(l, "removed")
    /\ Become(w, [Idle EXCEPT !.pc = "remove.audit", !.lst = l])
    /\ UNCHANGED <<requests, exchanges, ratings, logs>>

RemoveAudit(w) ==
    /\ At(w, "remove.audit")
    /\ RecordAuditLog("listing_removed", handler[w].lst)
    /\ Finish(w)
    /\ UNCHANGED <<rows, ratings, inbox>>

RestoreBegin(w, l) ==
    /\ At(w, "idle")
    /\ listings[l].status = "removed"
    /\ Become(w, [Idle EXCEPT !.pc = "restore.save", !.lst = l])
    /\ UNCHANGED <<rows, ratings, logs>>

RestoreSave(w) ==
    /\ At(w, "restore.save")
    /\ SetListing(handler[w].lst, "available")
    /\ Goto(w, "restore.audit")
    /\ UNCHANGED <<requests, exchanges, ratings, logs>>

RestoreAudit(w) ==
    /\ At(w, "restore.audit")
    /\ RecordAuditLog("listing_restored", handler[w].lst)
    /\ Finish(w)
    /\ UNCHANGED <<rows, ratings, inbox>>

-----------------------------------------------------------------------------
(* Requests.                                                               *)

(* Without the listing_unavailable guard. *)
MayRequest_mut(l, u) == listings[l].status # "unborn" /\ listings[l].owner # u

(* create_request's first two guards, on the listing the view fetched. *)
MayRequest(l, u) ==
    /\ listings[l].status = "available"
    /\ listings[l].owner # u

RequestBegin(w, l, u) ==
    /\ At(w, "idle")
    /\ MayRequest(l, u)
    /\ Become(w, [Idle EXCEPT !.pc = "request.check", !.lst = l, !.user = u])
    /\ UNCHANGED <<rows, ratings, logs>>

PendingOf(l, u) ==
    {r \in RequestIds : /\ requests[r].status = "pending"
                        /\ requests[r].listing = l
                        /\ requests[r].requester = u}

(* The duplicate check is left out. *)
RequestCheck_mut(w) ==
    At(w, "request.check") /\ Goto(w, "request.insert") /\ UNCHANGED <<rows, ratings, logs>>

(* The duplicate check is a query of its own. *)
RequestCheck(w) ==
    /\ At(w, "request.check")
    /\ IF PendingOf(handler[w].lst, handler[w].user) = {}
       THEN Goto(w, "request.insert") ELSE Finish(w)
    /\ UNCHANGED <<rows, ratings, logs>>

RequestInsert(w, r) ==
    /\ At(w, "request.insert")
    /\ requests[r].status = "unborn"
    /\ requests' = [requests EXCEPT ![r] =
           [status |-> "pending", listing |-> handler[w].lst,
            requester |-> handler[w].user, stale |-> FALSE]]
    /\ Become(w, [handler[w] EXCEPT !.pc = "request.notify", !.req = r])
    /\ UNCHANGED <<listings, exchanges, ratings, logs>>

RequestNotify(w) ==
    /\ At(w, "request.notify")
    /\ Notify({<<"request_received", Donor(handler[w].lst), handler[w].req>>})
    /\ Finish(w)
    /\ UNCHANGED <<rows, ratings, auditLog>>

(* Without the request_not_pending guard. *)
DecisionBegin_mut(w, r, pc) ==
    /\ At(w, "idle")
    /\ requests[r].status # "unborn"
    /\ Become(w, [Idle EXCEPT !.pc = pc, !.req = r, !.wasOpen = {r} \cap PendingRequests,
                              !.seen = listings[requests[r].listing].status])
    /\ UNCHANGED <<rows, ratings, logs>>

(* The owner's decisions; both guard on the request as it was read. *)
DecisionBegin(w, r, pc) ==
    /\ At(w, "idle")
    /\ requests[r].status = "pending"
    /\ Become(w, [Idle EXCEPT !.pc = pc, !.req = r, !.wasOpen = {r} \cap PendingRequests,
                              !.seen = listings[requests[r].listing].status])
    /\ UNCHANGED <<rows, ratings, logs>>

(* The listing is reserved and the exchange made, the request never saved. *)
AcceptBegin_mut(w, r) == DecisionBegin(w, r, "accept.listing")

AcceptBegin(w, r) == DecisionBegin(w, r, "accept.request")
DeclineBegin(w, r) == DecisionBegin(w, r, "decline.request")

AcceptRequest(w) ==
    /\ At(w, "accept.request")
    /\ SetRequest(handler[w].req, "accepted")
    /\ Goto(w, "accept.listing")
    /\ UNCHANGED <<listings, exchanges, ratings, logs>>

AcceptListing(w) ==
    /\ At(w, "accept.listing")
    /\ MarkPending(requests[handler[w].req].listing, handler[w].seen)
    /\ Goto(w, "accept.exchange")
    /\ UNCHANGED <<requests, exchanges, ratings, logs>>

AcceptExchange(w, e) ==
    LET r == requests[handler[w].req] IN
    /\ At(w, "accept.exchange")
    /\ exchanges[e].status = "unborn"
    /\ exchanges' = [exchanges EXCEPT ![e] =
           [status |-> "scheduled", listing |-> r.listing, donor |-> Donor(r.listing),
            recipient |-> r.requester, completedAt |-> FALSE, scheduledAt |-> FALSE]]
    /\ Become(w, [handler[w] EXCEPT !.pc = "accept.others", !.exch = e])
    /\ UNCHANGED <<listings, requests, ratings, logs>>

(* Only the same reader's requests. *)
MootOwn_mut(r) == {q \in RequestIds \ {r} : /\ requests[q].status = "pending"
                                            /\ requests[q].listing = requests[r].listing
                                            /\ requests[q].requester = requests[r].requester}

(* The other requests that the bulk UPDATE of accept_request declines. *)
Moot(r) == {q \in RequestIds \ {r} : /\ requests[q].status = "pending"
                                     /\ requests[q].listing = requests[r].listing}

AcceptOthers(w) ==
    LET moot == Moot(handler[w].req) IN
    /\ At(w, "accept.others")
    /\ requests' = [q \in RequestIds |->
           IF q \in moot THEN [requests[q] EXCEPT !.status = "declined"] ELSE requests[q]]
    /\ Goto(w, "accept.notify")
    /\ UNCHANGED <<listings, exchanges, ratings, logs>>

AcceptNotify(w) ==
    /\ At(w, "accept.notify")
    /\ Notify({<<"request_accepted", requests[handler[w].req].requester, handler[w].exch>>})
    /\ Finish(w)
    /\ UNCHANGED <<rows, ratings, auditLog>>

DeclineRequest(w) ==
    /\ At(w, "decline.request")
    /\ SetRequest(handler[w].req, "declined")
    /\ Goto(w, "decline.notify")
    /\ UNCHANGED <<listings, exchanges, ratings, logs>>

DeclineNotify(w) ==
    LET r == handler[w].req IN
    /\ At(w, "decline.notify")
    /\ Notify({<<"request_declined", requests[r].requester, r>>})
    /\ Finish(w)
    /\ UNCHANGED <<rows, ratings, auditLog>>

(* A pending request passes the cutoff of the daily job. *)
Age(r) ==
    /\ requests[r].status = "pending"
    /\ ~requests[r].stale
    /\ requests' = [requests EXCEPT ![r].stale = TRUE]
    /\ UNCHANGED <<listings, exchanges, ratings, logs, handler>>

(* Every row past the cutoff is fetched, whatever its status. *)
StalePending_mut == {r \in RequestIds : requests[r].stale}

StalePending == {r \in RequestIds : requests[r].status = "pending" /\ requests[r].stale}

(* expire_stale_requests fetches the stale rows once ...                   *)
ExpireBegin(w) ==
    /\ At(w, "idle")
    /\ StalePending # {}
    /\ Become(w, [Idle EXCEPT !.pc = "expire.row", !.todo = StalePending,
                              !.wasOpen = StalePending \cap PendingRequests])
    /\ UNCHANGED <<rows, ratings, logs>>

(* The rows are visited and never saved. *)
ExpireRow_mut(w, r) ==
    LET rest == handler[w].todo \ {r} IN
    /\ At(w, "expire.row")
    /\ r \in handler[w].todo
    /\ IF rest = {} THEN Finish(w)
       ELSE Become(w, [handler[w] EXCEPT !.todo = rest, !.wasOpen = @ \cap rest])
    /\ UNCHANGED <<rows, ratings, logs>>

(* ... and then saves each, whatever became of it in the meantime.         *)
ExpireRow(w, r) ==
    LET rest == handler[w].todo \ {r} IN
    /\ At(w, "expire.row")
    /\ r \in handler[w].todo
    /\ SetRequest(r, "cancelled")
    /\ IF rest = {} THEN Finish(w)
       ELSE Become(w, [handler[w] EXCEPT !.todo = rest, !.wasOpen = @ \cap rest])
    /\ UNCHANGED <<listings, exchanges, ratings, logs>>

-----------------------------------------------------------------------------
(* Exchanges.  forced: the staff override, which skips _assert_is_party    *)
(* and leaves an audit row.                                                *)

(* Without the exchange_not_scheduled guard. *)
ExchangeBegin_mut(w, e, forced, pc) ==
    /\ At(w, "idle")
    /\ exchanges[e].status # "unborn"
    /\ forced \/ PartiesMatch(e)
    /\ Become(w, [Idle EXCEPT !.pc = pc, !.exch = e, !.forced = forced,
                              !.wasOpen = {e} \cap ScheduledExchanges,
                              !.seen = listings[exchanges[e].listing].status])
    /\ UNCHANGED <<rows, ratings, logs>>

(* Some party acts on a still scheduled exchange, or staff forces it. *)
ExchangeBegin(w, e, forced, pc) ==
    /\ At(w, "idle")
    /\ exchanges[e].status = "scheduled"
    /\ forced \/ PartiesMatch(e)
    /\ Become(w, [Idle EXCEPT !.pc = pc, !.exch = e, !.forced = forced,
                              !.wasOpen = {e} \cap ScheduledExchanges,
                              !.seen = listings[exchanges[e].listing].status])
    /\ UNCHANGED <<rows, ratings, logs>>

ScheduleBegin(w, e) == ExchangeBegin(w, e, FALSE, "schedule.save")
(* The listing is claimed and the exchange never saved. *)
CompleteBegin_mut(w, e, forced) == ExchangeBegin(w, e, forced, "complete.listing")
CompleteBegin(w, e, forced) == ExchangeBegin(w, e, forced, "complete.exchange")
CancelBegin(w, e, forced) == ExchangeBegin(w, e, forced, "cancel.exchange")

(* save() without update_fields: the status goes back as it was read. *)
ScheduleSave_mut(w) ==
    /\ At(w, "schedule.save")
    /\ exchanges' = [exchanges EXCEPT ![handler[w].exch].scheduledAt = TRUE,
                                      ![handler[w].exch].status = "scheduled"]
    /\ Goto(w, "schedule.donor")
    /\ UNCHANGED <<listings, requests, ratings, logs>>

ScheduleSave(w) ==
    /\ At(w, "schedule.save")
    /\ exchanges' = [exchanges EXCEPT ![handler[w].exch].scheduledAt = TRUE]
    /\ Goto(w, "schedule.donor")
    /\ UNCHANGED <<listings, requests, ratings, logs>>

(* notify_exchange_*: a row for the donor, then a row for the recipient. *)
TellParties(w, category, donorPc, recipientPc) ==
    LET e == handler[w].exch IN
    /\ \/ /\ At(w, donorPc)
          /\ Notify({<<category, exchanges[e].donor, e>>})
          /\ Goto(w, recipientPc)
       \/ /\ At(w, recipientPc)
          /\ Notify({<<category, exchanges[e].recipient, e>>})
          /\ Finish(w)
    /\ UNCHANGED <<rows, ratings, auditLog>>

ScheduleNotify(w) ==
    TellParties(w, "exchange_scheduled", "schedule.donor", "schedule.recipient")

(* completed_at missing from update_fields. *)
CompleteExchange_mut(w) ==
    /\ At(w, "complete.exchange")
    /\ exchanges' = [exchanges EXCEPT ![handler[w].exch].status = "completed"]
    /\ Goto(w, "complete.listing")
    /\ UNCHANGED <<listings, requests, ratings, logs>>

CompleteExchange(w) ==
    /\ At(w, "complete.exchange")
    /\ exchanges' = [exchanges EXCEPT ![handler[w].exch].status = "completed",
                                      ![handler[w].exch].completedAt = TRUE]
    /\ Goto(w, "complete.listing")
    /\ UNCHANGED <<listings, requests, ratings, logs>>

CompleteListing(w) ==
    /\ At(w, "complete.listing")
    /\ MarkClaimed(exchanges[handler[w].exch].listing)
    /\ Goto(w, IF handler[w].forced THEN "complete.audit" ELSE "complete.donor")
    /\ UNCHANGED <<requests, exchanges, ratings, logs>>

(* The forced completion returns after its audit row. *)
CompleteAudit_mut(w) ==
    /\ At(w, "complete.audit")
    /\ RecordAuditLog("exchange_force_completed", handler[w].exch)
    /\ Finish(w)
    /\ UNCHANGED <<rows, ratings, inbox>>

CompleteAudit(w) ==
    /\ At(w, "complete.audit")
    /\ RecordAuditLog("exchange_force_completed", handler[w].exch)
    /\ Goto(w, "complete.donor")
    /\ UNCHANGED <<rows, ratings, inbox>>

CompleteNotify(w) ==
    TellParties(w, "exchange_completed", "complete.donor", "complete.recipient")

CancelExchange(w) ==
    /\ At(w, "cancel.exchange")
    /\ exchanges' = [exchanges EXCEPT ![handler[w].exch].status = "cancelled"]
    /\ Goto(w, "cancel.listing")
    /\ UNCHANGED <<listings, requests, ratings, logs>>

CancelListing(w) ==
    /\ At(w, "cancel.listing")
    /\ RevertToAvailable(exchanges[handler[w].exch].listing, handler[w].seen)
    /\ IF handler[w].forced THEN Goto(w, "cancel.audit") ELSE Finish(w)
    /\ UNCHANGED <<requests, exchanges, ratings, logs>>

CancelAudit(w) ==
    /\ At(w, "cancel.audit")
    /\ RecordAuditLog("exchange_force_cancelled", handler[w].exch)
    /\ Finish(w)
    /\ UNCHANGED <<rows, ratings, inbox>>

-----------------------------------------------------------------------------
(* Ratings.                                                                *)

MayRate(e, u) ==
    /\ exchanges[e].status = "completed"
    /\ IsParty(e, u)
    /\ PartiesMatch(e)

RateBegin(w, e, u) ==
    /\ At(w, "idle")
    /\ MayRate(e, u)
    /\ Become(w, [Idle EXCEPT !.pc = "rate.check", !.exch = e, !.user = u])
    /\ UNCHANGED <<rows, ratings, logs>>

RatingsBy(e, u) == {x \in ratings : x.exchange = e /\ x.rated_by = u}

OtherParty(e, u) ==
    IF u = exchanges[e].donor THEN exchanges[e].recipient ELSE exchanges[e].donor

RateCheck(w) ==
    /\ At(w, "rate.check")
    /\ IF RatingsBy(handler[w].exch, handler[w].user) = {}
       THEN Goto(w, "rate.insert") ELSE Finish(w)
    /\ UNCHANGED <<rows, ratings, logs>>

(* The unique constraint (exchange, rated_by) turns the insert of a second *)
(* rating into an IntegrityError, which ends the handler.                  *)
RateInsert(w) ==
    LET e == handler[w].exch
        u == handler[w].user
    IN  /\ At(w, "rate.insert")
        /\ IF RatingsBy(e, u) = {}
           THEN \E i \in RatingIds \ {x.id : x \in ratings} :
                   ratings' = ratings \cup
                       {[id |-> i, exchange |-> e, rated_by |-> u,
                         rated_user |-> OtherParty(e, u)]}
           ELSE UNCHANGED ratings
        /\ Finish(w)
        /\ UNCHANGED <<rows, logs>>

-----------------------------------------------------------------------------
(* The process dies, or the handler raises, between two writes. *)
Crash(w) ==
    /\ Crashes
    /\ ~At(w, "idle")
    /\ Finish(w)
    /\ UNCHANGED <<rows, ratings, logs>>

(* A user's or a moderator's call arrives at a free process. *)
Arrive(w) ==
    \/ "patch" \in Endpoints /\ \E l \in Listings : PatchBegin(w, l)
    \/ "moderate" \in Endpoints /\ \E l \in Listings : RemoveWrite(w, l)
    \/ "moderate" \in Endpoints /\ \E l \in Listings : RestoreBegin(w, l)
    \/ \E l \in Listings, u \in Users : RequestBegin(w, l, u)
    \/ \E r \in RequestIds : AcceptBegin(w, r)
    \/ "decline" \in Endpoints /\ \E r \in RequestIds : DeclineBegin(w, r)
    \/ "schedule" \in Endpoints /\ \E e \in ExchangeIds : ScheduleBegin(w, e)
    \/ \E e \in ExchangeIds, forced \in BOOLEAN :
           /\ forced => "force" \in Endpoints
           /\ CompleteBegin(w, e, forced) \/ CancelBegin(w, e, forced)
    \/ "rate" \in Endpoints /\ \E e \in ExchangeIds, u \in Users : RateBegin(w, e, u)

(* A handler makes its next write. *)
Step(w) ==
    \/ PatchSave(w) \/ RemoveAudit(w) \/ RestoreSave(w) \/ RestoreAudit(w)
    \/ RequestCheck(w) \/ (\E r \in RequestIds : RequestInsert(w, r)) \/ RequestNotify(w)
    \/ AcceptRequest(w) \/ AcceptListing(w) \/ (\E e \in ExchangeIds : AcceptExchange(w, e))
    \/ AcceptOthers(w) \/ AcceptNotify(w)
    \/ DeclineRequest(w) \/ DeclineNotify(w)
    \/ ScheduleSave(w) \/ ScheduleNotify(w)
    \/ CompleteExchange(w) \/ CompleteListing(w) \/ CompleteAudit(w) \/ CompleteNotify(w)
    \/ CancelExchange(w) \/ CancelListing(w) \/ CancelAudit(w)
    \/ RateCheck(w) \/ RateInsert(w)
    \/ (\E r \in RequestIds : ExpireRow(w, r))

Next ==
    \/ \E l \in Listings, u \in Users : CreateListing(l, u)
    \/ "delete" \in Endpoints /\ \E l \in Listings : DeleteListing(l)
    \/ "expire" \in Endpoints /\ \E r \in RequestIds : Age(r)
    \/ \E w \in Web : Arrive(w)
    \/ "expire" \in Endpoints /\ \E w \in Cron : ExpireBegin(w)
    \/ \E w \in Processes : Step(w) \/ Crash(w)

Spec == Init /\ [][Next]_vars
-----------------------------------------------------------------------------
(* Vocabulary of the properties.                                           *)

ExchangesOf(l) == {e \in ExchangeIds : exchanges[e].listing = l}
Open(l) == {e \in ExchangesOf(l) : exchanges[e].status = "scheduled"}
Done(l) == {e \in ExchangesOf(l) : exchanges[e].status = "completed"}
Quiescent == \A w \in Processes : At(w, "idle")

(* The owner, or the daily job, has settled the request. *)
Decided(r) == requests[r].status \notin {"unborn", "pending"}

(* The reader asked for the book and has an answer. *)
AskedFor(l, u) ==
    \E r \in RequestIds : Decided(r) /\ requests[r].listing = l /\ requests[r].requester = u

(* The exchange was arranged for that reader. *)
IsFor(e, u) == exchanges[e].status # "unborn" /\ exchanges[e].recipient = u

(* Some exchange of the listing was completed at some time. *)
HandedOver(l) == \E e \in ExchangesOf(l) : exchanges[e].completedAt

(* Type invariant of the rows, the logs and the handlers. *)
TypeOK ==
    /\ listings \in [Listings -> ListingRow]
    /\ requests \in [RequestIds -> RequestRow]
    /\ exchanges \in [ExchangeIds -> ExchangeRow]
    /\ ratings \subseteq RatingRow
    /\ handler \in [Processes -> Handler]

-----------------------------------------------------------------------------
(* What holds whatever interleaves and whoever dies.                       *)

(* A listing is "claimed" only if some exchange of it was completed: the   *)
(* mark_claimed of complete_exchange, the stale save of a PATCH and the    *)
(* guards of restore never claim a book nobody received.                   *)
ClaimedIsHandedOver ==
    \A l \in Listings : listings[l].status = "claimed" => HandedOver(l)

(* accept_request hands a book only to a reader who asked for it and whose *)
(* request is no longer open, and only from its owner to somebody else.    *)
ExchangesAreAskedFor ==
    \A e \in ExchangeIds :
        exchanges[e].status # "unborn" =>
            /\ exchanges[e].donor = Donor(exchanges[e].listing)
            /\ exchanges[e].recipient # exchanges[e].donor
            /\ AskedFor(exchanges[e].listing, exchanges[e].recipient)

(* A decided request is never undecided again and a finished exchange is   *)
(* never scheduled again: the status guards of accept, decline, complete   *)
(* and cancel survive every stale snapshot.  A completion is never undone. *)
NothingReopens ==
    [][/\ \A r \in RequestIds :
             requests'[r].status = "pending" => requests[r].status \in {"unborn", "pending"}
       /\ \A e \in ExchangeIds :
             /\ exchanges'[e].status = "scheduled"
                    => exchanges[e].status \in {"unborn", "scheduled"}
             /\ exchanges[e].completedAt => exchanges'[e].completedAt]_vars

(* "accepted" is a promise: it is taken back only by a write of a handler  *)
(* that fetched the request while it was still pending, before the         *)
(* acceptance was saved: the job with it in its batch, or a decline.  No   *)
(* call that began later, and no acceptance of another request, undoes it. *)
AcceptanceStands ==
    [][\A r \in RequestIds :
           requests[r].status = "accepted" /\ requests'[r].status # "accepted" =>
               \E w \in Processes :
                   /\ r \in handler[w].wasOpen /\ handler'[w] # handler[w]
                   /\ \/ At(w, "expire.row") /\ r \in handler[w].todo
                      \/ At(w, "decline.request") /\ handler[w].req = r]_vars

(* The parties' completion is taken back only by a cancellation that       *)
(* fetched the exchange while it was still scheduled, and saves its        *)
(* "cancelled" over it; no call that began after the completion does.      *)
CompletionStands ==
    [][\A e \in ExchangeIds :
           exchanges[e].status = "completed" /\ exchanges'[e].status # "completed" =>
               \E w \in Processes :
                   /\ e \in handler[w].wasOpen /\ handler'[w] # handler[w]
                   /\ At(w, "cancel.exchange") /\ handler[w].exch = e]_vars

(* Notifications and audit rows are written last, so what they report has  *)
(* happened even when handlers race or die.                                *)
ReportsAreTrue ==
    /\ \A r \in RequestIds, u \in Users :
          <<"request_declined", u, r>> \in inbox => Decided(r) /\ requests[r].requester = u
    /\ \A e \in ExchangeIds, u \in Users :
          /\ <<"request_accepted", u, e>> \in inbox => IsFor(e, u)
          /\ <<"exchange_completed", u, e>> \in inbox => exchanges[e].completedAt /\ IsParty(e, u)
          /\ <<"exchange_scheduled", u, e>> \in inbox => exchanges[e].scheduledAt /\ IsParty(e, u)
    /\ \A e \in ExchangeIds :
          <<"exchange_force_completed", e>> \in auditLog => exchanges[e].completedAt

(* A listing is reserved only on an owner's decision: mark_pending runs    *)
(* after a request of that listing left "pending", and a stale PATCH or a  *)
(* cancelled exchange brings "pending" back to no listing that never had   *)
(* one.                                                                    *)
ReservedOnDecision ==
    \A l \in Listings :
        listings[l].status = "pending" =>
            \E r \in RequestIds : Decided(r) /\ requests[r].listing = l

-----------------------------------------------------------------------------
(* The inductive invariant behind the properties above: rows refer to rows *)
(* that exist and fit, and a handler in the middle of its writes holds     *)
(* what it saw or wrote before.                                            *)

Born(l) == l \in Listings /\ listings[l].status # "unborn"
DecidedOn(l) == \E r \in RequestIds : Decided(r) /\ requests[r].listing = l

RequestRefers(q) == /\ Born(q.listing)
                    /\ q.requester \in Users \ {Donor(q.listing)}

ExchangeRefers(x) == /\ Born(x.listing)
                     /\ x.donor = Donor(x.listing)
                     /\ x.recipient \in Users \ {x.donor}
                     /\ AskedFor(x.listing, x.recipient)

RowsRefer ==
    /\ \A l \in Listings : Born(l) => listings[l].owner \in Users
    /\ \A r \in RequestIds : requests[r].status # "unborn" => RequestRefers(requests[r])
    /\ \A e \in ExchangeIds :
          /\ exchanges[e].status # "unborn" => ExchangeRefers(exchanges[e])
          /\ exchanges[e].completedAt \/ exchanges[e].scheduledAt
                => exchanges[e].status # "unborn"
          /\ exchanges[e].status = "completed" => exchanges[e].completedAt

ListingPCs == {"patch.save", "restore.save", "request.check", "request.insert"}
DecidedPCs == {"accept.listing", "accept.exchange", "accept.others", "accept.notify",
               "decline.notify"}
RequestPCs == {"accept.request", "decline.request"} \cup DecidedPCs
CompletedPCs == {"complete.listing", "complete.audit", "complete.donor", "complete.recipient",
                 "rate.check", "rate.insert"}
ScheduledPCs == {"schedule.donor", "schedule.recipient"}
ExchangePCs == {"accept.others", "accept.notify", "schedule.save", "complete.exchange",
                "cancel.exchange", "cancel.listing", "cancel.audit"}
                   \cup ScheduledPCs \cup CompletedPCs

HandlerHolds(h) ==
    /\ h.pc \in ListingPCs => Born(h.lst)
    /\ h.pc = "patch.save" =>
          /\ h.seen # "unborn"
          /\ h.seen = "claimed" => HandedOver(h.lst)
          /\ h.seen = "pending" => DecidedOn(h.lst)
    /\ h.pc \in {"request.check", "request.insert"} => h.user \in Users \ {Donor(h.lst)}
    /\ h.pc \in RequestPCs => h.req \in RequestIds /\ requests[h.req].status # "unborn"
    /\ h.pc \in DecidedPCs => Decided(h.req)
    /\ h.pc \in {"accept.others", "accept.notify"} =>
          /\ exchanges[h.exch].recipient = requests[h.req].requester
          /\ exchanges[h.exch].listing = requests[h.req].listing
    /\ h.pc \in ExchangePCs => h.exch \in ExchangeIds /\ exchanges[h.exch].status # "unborn"
    /\ h.pc \in ScheduledPCs => exchanges[h.exch].scheduledAt
    /\ h.pc \in CompletedPCs => exchanges[h.exch].completedAt
    /\ h.pc \in {"rate.check", "rate.insert"} => IsParty(h.exch, h.user)
    /\ \A r \in h.todo : requests[r].status # "unborn"
    /\ h.pc = "expire.row" => h.todo \subseteq h.wasOpen
    /\ h.pc = "decline.request" => h.req \in h.wasOpen
    /\ h.pc = "cancel.exchange" => h.exch \in h.wasOpen

IInv == /\ TypeOK
        /\ RowsRefer
        /\ \A w \in Processes : HandlerHolds(handler[w])
        /\ ClaimedIsHandedOver
        /\ ReservedOnDecision
        /\ ReportsAreTrue

-----------------------------------------------------------------------------
(* Liveness, under the fairness of the daily job (DailyJobs, FairDaily).   *)

(* A request that has passed the cutoff does not stay pending for ever:    *)
(* the owner decides it or the daily job expires it.                       *)
StaleRequestsLeave ==
    \A r \in RequestIds : []<>(r \notin StalePending)
-----------------------------------------------------------------------------
(* What the documents say and the code does not do (README, "Divergences", *)
(* gives the constants that refute each).                                  *)

(* API_REFERENCE.md:1515: accept rejects being called twice.  No pair of   *)
(* listing and reader has more exchanges than requests.                    *)
OneExchangePerRequest ==
    \A l \in Listings, u \in Users :
        Cardinality({e \in ExchangesOf(l) : exchanges[e].recipient = u})
          <= Cardinality({r \in RequestIds : /\ requests[r].listing = l
                                             /\ requests[r].requester = u})

(* API_REFERENCE.md:1392: "accepted: an exchange now exists for it".       *)
(* Between handlers each accepted request has its exchange, one for one.   *)
AcceptedHasExchange ==
    Quiescent =>
        \A l \in Listings, u \in Users :
            Cardinality({r \in RequestIds : /\ requests[r].status = "accepted"
                                            /\ requests[r].listing = l
                                            /\ requests[r].requester = u})
              = Cardinality({e \in ExchangesOf(l) : exchanges[e].recipient = u})

(* API_REFERENCE.md:462: one open request per reader and book, which       *)
(* create_request's duplicate check is for.                                *)
OneOpenRequest ==
    \A l \in Listings, u \in Users : Cardinality(PendingOf(l, u)) <= 1

(* API_REFERENCE.md:1385: "claimed: the exchange completed, no longer      *)
(* available".  A book that was handed over is not offered again.          *)
GivenIsGone ==
    Quiescent => \A l \in Listings : Done(l) # {} => listings[l].status # "available"

(* expire_stale_requests' docstring: it reverts a listing left dangling in *)
(* "pending" with no other active request.  Only the job writes            *)
(* "cancelled" on a request, so when all of them carry it, the job was the *)
(* last to touch them.                                                     *)
ExpiryFreesListing ==
    Quiescent =>
        \A l \in Listings :
            /\ \E r \in RequestIds : requests[r].listing = l
            /\ \A r \in RequestIds :
                  requests[r].listing = l => requests[r].status = "cancelled"
            /\ Open(l) = {}
            => listings[l].status # "pending"

(* API_REFERENCE.md:390: a PATCH of a listing never edits its status.      *)
PatchKeepsStatus ==
    [][\A w \in Web : At(w, "patch.save") /\ handler'[w] = Idle
            => listings' = listings]_vars

(* API_REFERENCE.md:1394: "cancelled: expired automatically after 14 days  *)
(* still pending".  The job cancels no request that was decided.           *)
OnlyPendingExpire ==
    [][\A r \in RequestIds :
           requests'[r].status = "cancelled" /\ requests[r].status # "cancelled"
               => requests[r].status = "pending"]_vars
=============================================================================

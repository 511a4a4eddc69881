------------------------- MODULE MarketplaceProofs -------------------------
(***************************************************************************)
(* Theorems about Marketplace and the two modules that extend it, in three *)
(* parts, each for any sets of users, rows and processes, with or without  *)
(* crashes.                                                                *)
(*                                                                         *)
(* 1. Handlers interleave (Marketplace).  The argument has two halves.     *)
(*    Keeps names what no step ever takes back (rows, who they are about,  *)
(*    decisions, timestamps); it makes what a handler saw before it was    *)
(*    overtaken still true when it acts on it.  IInv says that each        *)
(*    handler holds what its next write needs.  Every action is shown to   *)
(*    imply Keeps and to preserve IInv; the theorems follow.               *)
(* 2. A listing that nothing disturbed (Disturbances).  Good says how far  *)
(*    its rows have got, given the one handler that may be at work on it;  *)
(*    the refinement of OneReader and the other theorems follow from it.   *)
(* 3. The daily command beside the marketplace (DailyJobs): reminders and  *)
(*    statistics.                                                          *)
(***************************************************************************)
EXTENDS DailyJobs, Disturbances, FiniteSetTheorems, TLAPS

-----------------------------------------------------------------------------
(* Type correctness.  One lemma per shared write, then one step per action.*)

ListingsOK == listings \in [Listings -> ListingRow]
RequestsOK == requests \in [RequestIds -> RequestRow]
ExchangesOK == exchanges \in [ExchangeIds -> ExchangeRow]
HandlerOK == handler \in [Processes -> Handler]

(* TypeOK is the conjunction of the four tables' types and the handlers'. *)
LEMMA TypeParts ==
    TypeOK <=> ListingsOK /\ RequestsOK /\ ExchangesOK /\ ratings \subseteq RatingRow /\ HandlerOK
  BY DEF TypeOK, ListingsOK, RequestsOK, ExchangesOK, HandlerOK, Processes

(* The locals of a process that does nothing are of their type. *)
LEMMA IdleIsHandler == Idle \in Handler
  BY DEF Idle, Handler, PCs, ListingStatus

(* Giving a process locals of the right type keeps the handlers typed. *)
LEMMA BecomeType ==
    ASSUME HandlerOK, NEW w, NEW h \in Handler, Become(w, h)
    PROVE  HandlerOK'
  BY DEF HandlerOK, Become

(* So does ending a handler. *)
LEMMA FinishType ==
    ASSUME HandlerOK, NEW w, Finish(w)
    PROVE  HandlerOK'
  BY IdleIsHandler, BecomeType DEF Finish

(* So does moving a handler to its next write. *)
LEMMA GotoType ==
    ASSUME HandlerOK, NEW w \in Processes, NEW pc \in PCs, Goto(w, pc)
    PROVE  HandlerOK'
  <1>1. [handler[w] EXCEPT !.pc = pc] \in Handler
    BY DEF HandlerOK, Handler
  <1> QED
    BY <1>1, BecomeType DEF Goto

(* Writing a listing status keeps the listings typed. *)
LEMMA SetListingType ==
    ASSUME ListingsOK, NEW l, NEW s \in ListingStatus, SetListing(l, s)
    PROVE  ListingsOK'
  BY DEF ListingsOK, SetListing, ListingRow

(* Writing a request status keeps the requests typed. *)
LEMMA SetRequestType ==
    ASSUME RequestsOK, NEW r, NEW s \in RequestStatus, SetRequest(r, s)
    PROVE  RequestsOK'
  BY DEF RequestsOK, SetRequest, RequestRow

-----------------------------------------------------------------------------
(* What no step takes back.  Rows stay, and so do the fields that say who  *)
(* and what they are about; decisions and timestamps are never undone.     *)

KeepsListing(l) ==
    listings[l].status # "unborn" => /\ listings'[l].status # "unborn"
                                     /\ listings'[l].owner = listings[l].owner
KeepsRequest(r) ==
    /\ requests[r].status # "unborn" => /\ requests'[r].status # "unborn"
                                        /\ requests'[r].listing = requests[r].listing
                                        /\ requests'[r].requester = requests[r].requester
    /\ Decided(r) => Decided(r)'
KeepsExchange(e) ==
    /\ exchanges[e].status # "unborn" => /\ exchanges'[e].status # "unborn"
                                         /\ exchanges'[e].listing = exchanges[e].listing
                                         /\ exchanges'[e].donor = exchanges[e].donor
                                         /\ exchanges'[e].recipient = exchanges[e].recipient
    /\ exchanges[e].completedAt => exchanges'[e].completedAt
    /\ exchanges[e].scheduledAt => exchanges'[e].scheduledAt
    /\ exchanges'[e].status = "scheduled" => exchanges[e].status \in {"unborn", "scheduled"}

Keeps == /\ \A l \in Listings : KeepsListing(l)
         /\ \A r \in RequestIds : KeepsRequest(r)
         /\ \A e \in ExchangeIds : KeepsExchange(e)

(* A table that is not written takes nothing back. *)
LEMMA KeepsUnchanged ==
    /\ UNCHANGED listings => \A l \in Listings : KeepsListing(l)
    /\ UNCHANGED requests => \A r \in RequestIds : KeepsRequest(r)
    /\ UNCHANGED exchanges => \A e \in ExchangeIds : KeepsExchange(e)
  BY DEF KeepsListing, KeepsRequest, KeepsExchange, Decided

(* No listing is deleted by a write of its status. *)
LEMMA SetListingKeeps ==
    ASSUME ListingsOK, NEW l, NEW s, s # "unborn", SetListing(l, s)
    PROVE  \A k \in Listings : KeepsListing(k)
  BY DEF ListingsOK, ListingRow, SetListing, KeepsListing

(* A write of a decision on a request undoes no decision. *)
LEMMA SetRequestKeeps ==
    ASSUME RequestsOK, NEW r, NEW s, s \notin {"unborn", "pending"}, SetRequest(r, s)
    PROVE  \A q \in RequestIds : KeepsRequest(q)
  BY DEF RequestsOK, RequestRow, SetRequest, KeepsRequest, Decided

(* No write of any handler takes back what Keeps names. *)
LEMMA KeepsStep ==
    ASSUME TypeOK, RowsRefer, NEW w \in Processes, HandlerHolds(handler[w]), Step(w)
    PROVE  Keeps
  <1> USE KeepsUnchanged DEF rows, logs
  <1> SUFFICES /\ \A l \in Listings : KeepsListing(l)
               /\ \A r \in RequestIds : KeepsRequest(r)
               /\ \A e \in ExchangeIds : KeepsExchange(e)
    BY DEF Keeps
  <1>1. ListingsOK /\ RequestsOK /\ ExchangesOK
    BY TypeParts
  <1>2. CASE \/ RemoveAudit(w) \/ RestoreAudit(w) \/ RequestCheck(w) \/ RequestNotify(w)
            \/ AcceptNotify(w) \/ DeclineNotify(w) \/ ScheduleNotify(w) \/ CompleteAudit(w)
            \/ CompleteNotify(w) \/ CancelAudit(w) \/ RateCheck(w) \/ RateInsert(w)
    BY <1>2 DEF RemoveAudit, RestoreAudit, RequestCheck, RequestNotify, AcceptNotify,
         DeclineNotify, ScheduleNotify, TellParties, CompleteAudit, CompleteNotify, CancelAudit,
         RateCheck, RateInsert
  <1>3. CASE PatchSave(w)
    BY <1>1, <1>3, SetListingKeeps DEF PatchSave, At, HandlerHolds
  <1>4. CASE RestoreSave(w) \/ CompleteListing(w)
    BY <1>1, <1>4, SetListingKeeps DEF RestoreSave, CompleteListing, MarkClaimed
  <1>5. CASE AcceptListing(w) \/ CancelListing(w)
    BY <1>1, <1>5 DEF AcceptListing, CancelListing, MarkPending, RevertToAvailable,
         ListingsOK, ListingRow, KeepsListing
  <1>6. CASE AcceptRequest(w) \/ DeclineRequest(w)
    BY <1>1, <1>6, SetRequestKeeps DEF AcceptRequest, DeclineRequest
  <1>7. CASE AcceptOthers(w)
    BY <1>1, <1>7 DEF AcceptOthers, RequestsOK, RequestRow, KeepsRequest, Decided
  <1>8. ASSUME NEW r \in RequestIds, RequestInsert(w, r) \/ ExpireRow(w, r) PROVE Keeps
    <2>1. CASE RequestInsert(w, r)
      BY <1>1, <2>1 DEF RequestInsert, RequestsOK, RequestRow, KeepsRequest, Decided, Keeps
    <2>2. CASE ExpireRow(w, r)
      BY <1>1, <2>2, SetRequestKeeps DEF ExpireRow, Keeps
    <2> QED BY <1>8, <2>1, <2>2
  <1>9. ASSUME NEW e \in ExchangeIds, AcceptExchange(w, e) PROVE Keeps
    BY <1>1, <1>9 DEF AcceptExchange, ExchangesOK, ExchangeRow, KeepsExchange, Keeps, RowsRefer
  <1>10. CASE CompleteExchange(w) \/ CancelExchange(w) \/ ScheduleSave(w)
    <2> SUFFICES ASSUME NEW e \in ExchangeIds PROVE KeepsExchange(e)
      BY <1>10 DEF CompleteExchange, CancelExchange, ScheduleSave
    <2>1. CASE CompleteExchange(w)
      BY <1>1, <2>1 DEF CompleteExchange, ExchangesOK, ExchangeRow, KeepsExchange
    <2>2. CASE CancelExchange(w)
      BY <1>1, <2>2 DEF CancelExchange, ExchangesOK, ExchangeRow, KeepsExchange
    <2>3. CASE ScheduleSave(w)
      BY <1>1, <2>3 DEF ScheduleSave, ExchangesOK, ExchangeRow, KeepsExchange
    <2> QED BY <1>10, <2>1, <2>2, <2>3
  <1> QED
    BY <1>2, <1>3, <1>4, <1>5, <1>6, <1>7, <1>8, <1>9, <1>10 DEF Step, Keeps

-----------------------------------------------------------------------------
(* What Keeps preserves: every fact a handler or a log relies on.          *)

(* A listing that exists goes on existing, with its owner. *)
LEMMA BornKept ==
    ASSUME Keeps, NEW l, Born(l)
    PROVE  Born(l)' /\ Donor(l)' = Donor(l)
  BY DEF Keeps, KeepsListing, Born, Donor

(* A reader whose request was decided stays one. *)
LEMMA DecidedKept ==
    ASSUME Keeps, RowsRefer, NEW l \in Listings
    PROVE  /\ \A u : AskedFor(l, u) => AskedFor(l, u)'
           /\ DecidedOn(l) => DecidedOn(l)'
  <1>1. \A r \in RequestIds : Decided(r) => /\ Decided(r)'
                                          /\ requests'[r].listing = requests[r].listing
                                          /\ requests'[r].requester = requests[r].requester
    BY DEF Keeps, KeepsRequest, Decided
  <1> QED BY <1>1 DEF AskedFor, DecidedOn

(* An exchange that was made stays made, a handover stays a handover. *)
LEMMA ExchangeKept ==
    ASSUME Keeps, RowsRefer, NEW l
    PROVE  HandedOver(l) => HandedOver(l)'
  BY DEF Keeps, KeepsExchange, RowsRefer, HandedOver, ExchangesOf

(* What a handler holds is not falsified by other handlers' writes. *)
LEMMA HandlerKept ==
    ASSUME Keeps, RowsRefer, NEW h \in Handler, HandlerHolds(h)
    PROVE  HandlerHolds(h)'
  <1>1. ASSUME h.pc \in ListingPCs
        PROVE  h.lst \in Listings /\ Born(h.lst)' /\ Donor(h.lst)' = Donor(h.lst)
    BY <1>1, BornKept DEF HandlerHolds, Born
  <1>2. ASSUME h.pc = "patch.save"
        PROVE  /\ h.seen # "unborn"
               /\ h.seen = "claimed" => HandedOver(h.lst)'
               /\ h.seen = "pending" => DecidedOn(h.lst)'
    BY <1>1, <1>2, ExchangeKept, DecidedKept DEF HandlerHolds, ListingPCs
  <1>3. ASSUME h.pc \in {"request.check", "request.insert"}
        PROVE  (h.user \in Users \ {Donor(h.lst)})'
    BY <1>1, <1>3 DEF HandlerHolds, ListingPCs
  <1>4. ASSUME h.pc \in RequestPCs
        PROVE  /\ h.req \in RequestIds /\ requests[h.req].status # "unborn"
               /\ requests'[h.req].status # "unborn"
               /\ requests'[h.req].listing = requests[h.req].listing
               /\ requests'[h.req].requester = requests[h.req].requester
               /\ Decided(h.req) => Decided(h.req)'
    BY <1>4 DEF HandlerHolds, Keeps, KeepsRequest
  <1>5. ASSUME h.pc \in DecidedPCs PROVE Decided(h.req)'
    BY <1>4, <1>5 DEF HandlerHolds, RequestPCs
  <1>6. ASSUME h.pc \in ExchangePCs
        PROVE  /\ h.exch \in ExchangeIds /\ exchanges'[h.exch].status # "unborn"
               /\ exchanges[h.exch].scheduledAt => exchanges'[h.exch].scheduledAt
               /\ exchanges[h.exch].completedAt => exchanges'[h.exch].completedAt
               /\ exchanges'[h.exch].donor = exchanges[h.exch].donor
               /\ exchanges'[h.exch].recipient = exchanges[h.exch].recipient
               /\ exchanges'[h.exch].listing = exchanges[h.exch].listing
    BY <1>6 DEF HandlerHolds, Keeps, KeepsExchange
  <1>7. ASSUME h.pc \in {"accept.others", "accept.notify"}
        PROVE  /\ (exchanges[h.exch].recipient = requests[h.req].requester)'
               /\ (exchanges[h.exch].listing = requests[h.req].listing)'
    BY <1>4, <1>7, <1>6 DEF HandlerHolds, RequestPCs, DecidedPCs, ExchangePCs
  <1>8. \A r \in h.todo : requests'[r].status # "unborn"
    BY DEF HandlerHolds, Keeps, KeepsRequest, Handler
  <1>12. /\ h.pc = "expire.row" => h.todo \subseteq h.wasOpen
         /\ h.pc = "decline.request" => h.req \in h.wasOpen
         /\ h.pc = "cancel.exchange" => h.exch \in h.wasOpen
    BY DEF HandlerHolds
  <1>9. (h.pc \in ScheduledPCs => exchanges[h.exch].scheduledAt)'
    BY <1>6 DEF HandlerHolds, ExchangePCs
  <1>10. (h.pc \in CompletedPCs => exchanges[h.exch].completedAt)'
    BY <1>6 DEF HandlerHolds, ExchangePCs
  <1>11. (h.pc \in {"rate.check", "rate.insert"} => IsParty(h.exch, h.user))'
    BY <1>6 DEF HandlerHolds, ExchangePCs, CompletedPCs, IsParty
  <1> QED
    BY <1>1, <1>2, <1>3, <1>4, <1>5, <1>6, <1>7, <1>8, <1>9, <1>10, <1>11,
       <1>12 DEF HandlerHolds

-----------------------------------------------------------------------------
(* Referential integrity.  A row that was there still refers; the lemmas   *)
(* below leave the inserted row and the three timestamps to each step.     *)

(* A request that referred to a listing and a reader still does. *)
LEMMA RequestStillRefers ==
    ASSUME Keeps, RowsRefer, NEW r \in RequestIds, requests[r].status # "unborn"
    PROVE  RequestRefers(requests[r])'
  BY BornKept DEF Keeps, KeepsRequest, RowsRefer, RequestRefers

(* An exchange that fitted its listing and its request still does. *)
LEMMA ExchangeStillRefers ==
    ASSUME Keeps, RowsRefer, NEW e \in ExchangeIds, exchanges[e].status # "unborn"
    PROVE  ExchangeRefers(exchanges[e])'
  <1>1. ExchangeRefers(exchanges[e]) /\ exchanges[e].listing \in Listings
    BY DEF RowsRefer, ExchangeRefers, Born
  <1>2. /\ exchanges'[e].listing = exchanges[e].listing
        /\ exchanges'[e].donor = exchanges[e].donor
        /\ exchanges'[e].recipient = exchanges[e].recipient
    BY DEF Keeps, KeepsExchange
  <1> QED
    BY <1>1, <1>2, BornKept, DecidedKept DEF ExchangeRefers

TimestampsFit(x) == /\ x.completedAt \/ x.scheduledAt => x.status # "unborn"
                    /\ x.status = "completed" => x.completedAt

(* The tables go on referring if the inserted rows do. *)
LEMMA RowsReferFrom ==
    ASSUME Keeps, RowsRefer,
           \A l \in Listings : Born(l)' => Born(l),
           \A r \in RequestIds : requests[r].status = "unborn" /\ requests'[r].status # "unborn"
                                     => RequestRefers(requests[r])',
           \A e \in ExchangeIds : exchanges[e].status = "unborn" /\ exchanges'[e].status # "unborn"
                                     => ExchangeRefers(exchanges[e])',
           \A e \in ExchangeIds : TimestampsFit(exchanges[e])'
    PROVE  RowsRefer'
  <1>1. \A l \in Listings : (Born(l) => listings[l].owner \in Users)'
    BY BornKept DEF RowsRefer, Donor
  <1>2. \A r \in RequestIds : (requests[r].status # "unborn" => RequestRefers(requests[r]))'
    BY RequestStillRefers
  <1>3. \A e \in ExchangeIds : (exchanges[e].status # "unborn" => ExchangeRefers(exchanges[e]))'
    BY ExchangeStillRefers
  <1> QED
    BY <1>1, <1>2, <1>3 DEF RowsRefer, TimestampsFit

(* Every write of a handler leaves the tables referring. *)
LEMMA RowsReferStep ==
    ASSUME TypeOK, RowsRefer, Keeps, NEW w \in Processes, HandlerHolds(handler[w]), Step(w)
    PROVE  RowsRefer'
  <1> USE DEF rows, logs
  <1>1. ListingsOK /\ RequestsOK /\ ExchangesOK
    BY TypeParts
  <1>2. \A e \in ExchangeIds : TimestampsFit(exchanges[e])
    BY DEF RowsRefer, TimestampsFit
  <1>3. \A l \in Listings : Born(l)' => Born(l)
    <2>1. CASE UNCHANGED listings
      BY <2>1 DEF Born
    <2>2. CASE PatchSave(w) \/ RestoreSave(w)
      BY <1>1, <2>2 DEF PatchSave, RestoreSave, At, HandlerHolds, ListingPCs, SetListing,
           ListingsOK, ListingRow, Born
    <2>3. CASE AcceptListing(w)
      <3>1. Born(requests[handler[w].req].listing)
        BY <2>3 DEF AcceptListing, At, HandlerHolds, RequestPCs, DecidedPCs, RowsRefer,
             RequestRefers
      <3> QED
        BY <1>1, <2>3, <3>1 DEF AcceptListing, MarkPending, ListingsOK, ListingRow, Born
    <2>4. CASE CancelListing(w) \/ CompleteListing(w)
      <3>1. Born(exchanges[handler[w].exch].listing)
        BY <2>4 DEF CancelListing, CompleteListing, At, HandlerHolds, ExchangePCs, CompletedPCs,
             RowsRefer, ExchangeRefers
      <3> QED
        BY <1>1, <2>4, <3>1 DEF CancelListing, CompleteListing, RevertToAvailable, MarkClaimed,
             SetListing, ListingsOK, ListingRow, Born
    <2> QED
      BY <2>1, <2>2, <2>3, <2>4 DEF Step, RemoveAudit, RestoreAudit, RequestCheck, RequestNotify,
         AcceptNotify, DeclineNotify, ScheduleNotify, TellParties, CompleteAudit, CompleteNotify,
         CancelAudit,
         RateCheck, RateInsert, RequestInsert, AcceptRequest, DeclineRequest, AcceptExchange,
         AcceptOthers, ScheduleSave, CompleteExchange, CancelExchange, ExpireRow
  <1>4. ASSUME NEW r \in RequestIds, requests[r].status = "unborn", requests'[r].status # "unborn"
        PROVE  RequestRefers(requests[r])'
    <2>1. CASE UNCHANGED requests
      BY <1>4, <2>1
    <2>2. ASSUME NEW q \in RequestIds, RequestInsert(w, q)
          PROVE  RequestRefers(requests[r])'
      <3>1. Born(handler[w].lst) /\ handler[w].user \in Users \ {Donor(handler[w].lst)}
        BY <2>2 DEF RequestInsert, At, HandlerHolds, ListingPCs
      <3>2. requests'[r].listing = handler[w].lst /\ requests'[r].requester = handler[w].user
        BY <1>1, <1>4, <2>2 DEF RequestInsert, RequestsOK, RequestRow
      <3> QED
        BY <3>1, <3>2, BornKept DEF RequestRefers
    <2>3. CASE AcceptRequest(w) \/ DeclineRequest(w)
      BY <1>1, <1>4, <2>3 DEF AcceptRequest, DeclineRequest, At, HandlerHolds, RequestPCs,
           SetRequest, RequestsOK, RequestRow
    <2>4. CASE AcceptOthers(w)
      BY <1>1, <1>4, <2>4 DEF AcceptOthers, Moot, RequestsOK, RequestRow
    <2>5. ASSUME NEW q \in RequestIds, ExpireRow(w, q)
          PROVE  RequestRefers(requests[r])'
      BY <1>1, <1>4, <2>5 DEF ExpireRow, HandlerHolds, SetRequest, RequestsOK, RequestRow
    <2> QED
      BY <2>1, <2>2, <2>3, <2>4, <2>5 DEF Step, PatchSave, RemoveAudit, RestoreSave, RestoreAudit,
         RequestCheck, RequestNotify, AcceptListing, AcceptExchange, AcceptNotify, DeclineNotify,
         ScheduleSave, ScheduleNotify, TellParties, CompleteExchange, CompleteListing,
         CompleteAudit,
         CompleteNotify, CancelExchange, CancelListing, CancelAudit, RateCheck, RateInsert
  <1>5. \A e \in ExchangeIds :
          /\ exchanges[e].status = "unborn" /\ exchanges'[e].status # "unborn"
                => ExchangeRefers(exchanges[e])'
          /\ TimestampsFit(exchanges[e])'
    <2> SUFFICES ASSUME NEW e \in ExchangeIds
                 PROVE  /\ exchanges[e].status = "unborn" /\ exchanges'[e].status # "unborn"
                              => ExchangeRefers(exchanges[e])'
                        /\ TimestampsFit(exchanges[e])'
      OBVIOUS
    <2>1. CASE UNCHANGED exchanges
      BY <1>2, <2>1 DEF TimestampsFit
    <2>2. ASSUME NEW f \in ExchangeIds, AcceptExchange(w, f)
          PROVE  /\ exchanges[e].status = "unborn" /\ exchanges'[e].status # "unborn"
                       => ExchangeRefers(exchanges[e])'
                 /\ TimestampsFit(exchanges[e])'
      <3> DEFINE r == handler[w].req
      <3>1. r \in RequestIds /\ Decided(r) /\ RequestRefers(requests[r])
        BY <2>2 DEF AcceptExchange, At, HandlerHolds, RequestPCs, DecidedPCs, RowsRefer
      <3>2. CASE e = f
        <4>1. exchanges'[e] = [status |-> "scheduled", listing |-> requests[r].listing,
                               donor |-> Donor(requests[r].listing),
                               recipient |-> requests[r].requester,
                               completedAt |-> FALSE, scheduledAt |-> FALSE]
          BY <1>1, <2>2, <3>2 DEF AcceptExchange, ExchangesOK
        <4>2. PICK l \in Listings, u \in Users :
                 /\ l = requests[r].listing /\ u = requests[r].requester
                 /\ Born(l) /\ u # Donor(l) /\ Donor(l) \in Users /\ AskedFor(l, u)
          BY <3>1 DEF AskedFor, RequestRefers, Born, RowsRefer, Donor
        <4>3. Born(l)' /\ Donor(l)' = Donor(l) /\ AskedFor(l, u)'
          BY <4>2, BornKept, DecidedKept
        <4>4. /\ exchanges'[e].listing = l
              /\ exchanges'[e].donor = Donor(l)
              /\ exchanges'[e].recipient = u
              /\ exchanges'[e].status = "scheduled"
              /\ ~exchanges'[e].completedAt /\ ~exchanges'[e].scheduledAt
          BY <4>1, <4>2
        <4>5. ExchangeRefers(exchanges[e])'
          BY <4>2, <4>3, <4>4 DEF ExchangeRefers
        <4> QED
          BY <4>4, <4>5 DEF TimestampsFit
      <3>3. CASE e # f
        BY <1>1, <1>2, <2>2, <3>3 DEF AcceptExchange, ExchangesOK, TimestampsFit
      <3> QED BY <3>2, <3>3
    <2>3. CASE CompleteExchange(w) \/ CancelExchange(w) \/ ScheduleSave(w)
      <3>1. handler[w].exch \in ExchangeIds /\ exchanges[handler[w].exch].status # "unborn"
        BY <2>3 DEF CompleteExchange, CancelExchange, ScheduleSave, At, HandlerHolds, ExchangePCs
      <3>2. CASE CompleteExchange(w)
        BY <1>1, <1>2, <3>1, <3>2 DEF CompleteExchange, ExchangesOK, ExchangeRow, TimestampsFit
      <3>3. CASE CancelExchange(w)
        BY <1>1, <1>2, <3>1, <3>3 DEF CancelExchange, ExchangesOK, ExchangeRow, TimestampsFit
      <3>4. CASE ScheduleSave(w)
        BY <1>1, <1>2, <3>1, <3>4 DEF ScheduleSave, ExchangesOK, ExchangeRow, TimestampsFit
      <3> QED BY <2>3, <3>2, <3>3, <3>4
    <2> QED
      BY <2>1, <2>2, <2>3 DEF Step, PatchSave, RemoveAudit, RestoreSave, RestoreAudit,
         RequestCheck, RequestInsert, RequestNotify, AcceptRequest, AcceptListing, AcceptOthers,
         AcceptNotify, DeclineRequest, DeclineNotify, ScheduleNotify, TellParties, CompleteListing,
         CompleteAudit, CompleteNotify, CancelListing, CancelAudit, RateCheck, RateInsert, ExpireRow
  <1> QED
    BY <1>3, <1>4, <1>5, RowsReferFrom

-----------------------------------------------------------------------------
(* The steps of a handler preserve the invariant.  The row a step inserts  *)
(* is of its type because the handler's locals are.                        *)

(* Every write of a handler leaves every table typed. *)
LEMMA StepType ==
    ASSUME TypeOK, RowsRefer, NEW w \in Processes, HandlerHolds(handler[w]), Step(w)
    PROVE  TypeOK'
  <1>1. ListingsOK /\ RequestsOK /\ ExchangesOK /\ ratings \subseteq RatingRow /\ HandlerOK
    BY TypeParts
  <1>2. handler[w] \in Handler
    BY <1>1 DEF HandlerOK
  <1> SUFFICES ListingsOK' /\ RequestsOK' /\ ExchangesOK' /\ (ratings \subseteq RatingRow)'
                  /\ HandlerOK'
    BY DEF TypeOK, ListingsOK, RequestsOK, ExchangesOK, HandlerOK, Processes
  <1> USE <1>1 DEF rows, logs
  <1>3. ASSUME UNCHANGED listings PROVE ListingsOK'
    BY <1>3 DEF ListingsOK
  <1>4. ASSUME UNCHANGED requests PROVE RequestsOK'
    BY <1>4 DEF RequestsOK
  <1>5. ASSUME UNCHANGED exchanges PROVE ExchangesOK'
    BY <1>5 DEF ExchangesOK
  <1>6. CASE PatchSave(w)
    <2>1. handler[w].seen \in ListingStatus
      BY <1>2 DEF Handler
    <2> QED BY <1>6, <2>1, <1>4, <1>5, FinishType, SetListingType DEF PatchSave
  <1>7. CASE RemoveAudit(w) \/ RestoreAudit(w)
    BY <1>7, <1>3, <1>4, <1>5, FinishType DEF RemoveAudit, RestoreAudit
  <1>8. CASE RestoreSave(w)
    BY <1>8, <1>4, <1>5, GotoType, SetListingType DEF RestoreSave, PCs, ListingStatus
  <1>9. CASE RequestCheck(w)
    BY <1>9, <1>3, <1>4, <1>5, FinishType, GotoType DEF RequestCheck, PCs
  <1>10. ASSUME NEW r \in RequestIds, RequestInsert(w, r)
         PROVE  RequestsOK' /\ HandlerOK' /\ UNCHANGED <<listings, exchanges, ratings>>
    <2>1. [handler[w] EXCEPT !.pc = "request.notify", !.req = r] \in Handler
      BY <1>2 DEF Handler, PCs
    <2>2. [status |-> "pending", listing |-> handler[w].lst,
           requester |-> handler[w].user, stale |-> FALSE] \in RequestRow
      BY <1>2 DEF Handler, RequestRow, RequestStatus
    <2>3. RequestsOK'
      BY <1>10, <2>2 DEF RequestInsert, RequestsOK
    <2>4. HandlerOK'
      BY <1>10, <2>1, BecomeType DEF RequestInsert
    <2> QED
      BY <1>10, <2>3, <2>4 DEF RequestInsert
  <1>11. CASE RequestNotify(w) \/ AcceptNotify(w) \/ DeclineNotify(w)
    BY <1>11, <1>3, <1>4, <1>5, FinishType DEF RequestNotify, AcceptNotify, DeclineNotify
  <1>12. CASE AcceptRequest(w) \/ DeclineRequest(w)
    BY <1>12, <1>3, <1>5, GotoType, SetRequestType
       DEF AcceptRequest, DeclineRequest, PCs, RequestStatus
  <1>13. CASE AcceptListing(w)
    <2>1. ListingsOK'
      BY <1>13 DEF AcceptListing, MarkPending, ListingsOK, ListingRow, ListingStatus
    <2> QED BY <1>13, <2>1, <1>4, <1>5, GotoType DEF AcceptListing, PCs
  <1>14. ASSUME NEW e \in ExchangeIds, AcceptExchange(w, e)
         PROVE  ExchangesOK' /\ HandlerOK' /\ UNCHANGED <<listings, requests, ratings>>
    <2> DEFINE r == requests[handler[w].req]
               x == [status |-> "scheduled", listing |-> r.listing, donor |-> Donor(r.listing),
                     recipient |-> r.requester, completedAt |-> FALSE, scheduledAt |-> FALSE]
    <2>1. x \in ExchangeRow
      <3>1. r \in RequestRow /\ RequestRefers(r)
        BY <1>14 DEF AcceptExchange, At, HandlerHolds, RequestPCs, DecidedPCs, RowsRefer, RequestsOK
      <3>2. r.listing \in Listings /\ Donor(r.listing) \in Users
        BY <3>1 DEF RequestRefers, RowsRefer, Born, Donor
      <3> QED
        BY <3>1, <3>2 DEF RequestRow, ExchangeRow, ExchangeStatus
    <2>2. ExchangesOK'
      BY <1>14, <2>1 DEF AcceptExchange, ExchangesOK
    <2>3. [handler[w] EXCEPT !.pc = "accept.others", !.exch = e] \in Handler
      BY <1>2 DEF Handler, PCs
    <2> QED
      BY <1>14, <2>2, <2>3, BecomeType DEF AcceptExchange
  <1>15. CASE AcceptOthers(w)
    <2>1. RequestsOK'
      BY <1>15 DEF AcceptOthers, RequestsOK, RequestRow, RequestStatus
    <2> QED BY <1>15, <2>1, <1>3, <1>5, GotoType DEF AcceptOthers, PCs
  <1>16. CASE ScheduleSave(w)
    <2>1. ExchangesOK'
      BY <1>16 DEF ScheduleSave, ExchangesOK, ExchangeRow
    <2> QED BY <1>16, <2>1, <1>3, <1>4, GotoType DEF ScheduleSave, PCs
  <1>17. CASE ScheduleNotify(w) \/ CompleteNotify(w) \/ CancelAudit(w)
    BY <1>17, <1>3, <1>4, <1>5, GotoType, FinishType
       DEF ScheduleNotify, TellParties, CompleteNotify, CancelAudit, PCs
  <1>18. CASE CompleteExchange(w)
    <2>1. ExchangesOK'
      BY <1>18 DEF CompleteExchange, ExchangesOK, ExchangeRow, ExchangeStatus
    <2> QED BY <1>18, <2>1, <1>3, <1>4, GotoType DEF CompleteExchange, PCs
  <1>19. CASE CompleteListing(w)
    BY <1>19, <1>4, <1>5, GotoType, SetListingType
       DEF CompleteListing, MarkClaimed, PCs, ListingStatus
  <1>20. CASE CompleteAudit(w)
    BY <1>20, <1>3, <1>4, <1>5, GotoType DEF CompleteAudit, PCs
  <1>21. CASE CancelExchange(w)
    <2>1. ExchangesOK'
      BY <1>21 DEF CancelExchange, ExchangesOK, ExchangeRow, ExchangeStatus
    <2> QED BY <1>21, <2>1, <1>3, <1>4, GotoType DEF CancelExchange, PCs
  <1>22. CASE CancelListing(w)
    <2>1. ListingsOK'
      BY <1>22 DEF CancelListing, RevertToAvailable, ListingsOK, ListingRow, ListingStatus
    <2> QED BY <1>22, <2>1, <1>4, <1>5, GotoType, FinishType DEF CancelListing, PCs
  <1>23. CASE RateCheck(w)
    BY <1>23, <1>3, <1>4, <1>5, GotoType, FinishType DEF RateCheck, PCs
  <1>24. CASE RateInsert(w)
    <2> DEFINE e == handler[w].exch
               u == handler[w].user
    <2>1. e \in ExchangeIds /\ ExchangeRefers(exchanges[e]) /\ IsParty(e, u)
      BY <1>24 DEF RateInsert, At, HandlerHolds, ExchangePCs, CompletedPCs, RowsRefer
    <2>2. exchanges[e].donor \in Users /\ exchanges[e].recipient \in Users
      BY <2>1 DEF ExchangeRefers, RowsRefer, Donor, Born
    <2>3. u \in Users /\ OtherParty(e, u) \in Users
      BY <2>1, <2>2 DEF IsParty, OtherParty
    <2>4. \A i \in RatingIds :
             [id |-> i, exchange |-> e, rated_by |-> u, rated_user |-> OtherParty(e, u)]
                \in RatingRow
      BY <2>1, <2>3 DEF RatingRow
    <2> QED
      BY <1>24, <2>4, <1>3, <1>4, <1>5, FinishType DEF RateInsert
  <1>25. ASSUME NEW r \in RequestIds, ExpireRow(w, r)
         PROVE  RequestsOK' /\ HandlerOK' /\ UNCHANGED <<listings, exchanges, ratings>>
    <2>1. RequestsOK'
      BY <1>25, SetRequestType DEF ExpireRow, RequestStatus
    <2>2. [handler[w] EXCEPT !.todo = handler[w].todo \ {r},
                             !.wasOpen = handler[w].wasOpen \cap (handler[w].todo \ {r})]
             \in Handler
      BY <1>2 DEF Handler
    <2> QED
      BY <1>25, <2>1, <2>2, BecomeType, FinishType DEF ExpireRow
  <1> QED
    BY <1>3, <1>4, <1>5, <1>6, <1>7, <1>8, <1>9, <1>10, <1>11, <1>12, <1>13, <1>14, <1>15, <1>16,
       <1>17, <1>18, <1>19, <1>20, <1>21, <1>22, <1>23, <1>24, <1>25 DEF Step

(* A handler that ends holds nothing; one that goes on keeps what it held. *)
LEMMA OthersHold ==
    ASSUME TypeOK, Keeps, RowsRefer, \A v \in Processes : HandlerHolds(handler[v]),
           NEW w \in Processes, NEW h \in Handler, Become(w, h), HandlerHolds(h)'
    PROVE  \A v \in Processes : HandlerHolds(handler[v])'
  <1> SUFFICES ASSUME NEW v \in Processes PROVE HandlerHolds(handler[v])'
    OBVIOUS
  <1>1. CASE v = w
    <2>1. handler'[v] = h
      BY <1>1, TypeParts DEF Become, HandlerOK
    <2> QED BY <2>1 DEF HandlerHolds
  <1>2. CASE v # w
    <2>1. PICK g \in Handler : g = handler[v] /\ g = handler'[v]
      BY <1>2, TypeParts DEF Become, HandlerOK
    <2>2. HandlerHolds(g)
      BY <2>1
    <2>3. HandlerHolds(g)'
      BY <2>2, HandlerKept
    <2> QED BY <2>1, <2>3 DEF HandlerHolds
  <1> QED BY <1>1, <1>2

(* A process that does nothing holds nothing. *)
LEMMA IdleHolds == HandlerHolds(Idle)'
  BY DEF HandlerHolds, Idle, ListingPCs, RequestPCs, DecidedPCs, ExchangePCs, ScheduledPCs,
       CompletedPCs

(* After a handler's write every process holds what its next writes rely on. *)
LEMMA StepHolds ==
    ASSUME TypeOK, RowsRefer, Keeps, \A v \in Processes : HandlerHolds(handler[v]),
           NEW w \in Processes, Step(w)
    PROVE  \A v \in Processes : HandlerHolds(handler[v])'
  <1> USE DEF ListingPCs, RequestPCs, DecidedPCs, ExchangePCs, ScheduledPCs, CompletedPCs
  <1>1. PICK g \in Handler : g = handler[w] /\ HandlerHolds(g) /\ HandlerHolds(g)'
    <2>1. PICK g \in Handler : g = handler[w]
      BY TypeParts DEF HandlerOK
    <2>2. HandlerHolds(g)
      BY <2>1
    <2> QED BY <2>1, <2>2, HandlerKept
  <1>2. ASSUME Finish(w) PROVE \A v \in Processes : HandlerHolds(handler[v])'
    BY <1>2, IdleIsHandler, IdleHolds, OthersHold DEF Finish
  <1>3. ASSUME NEW pc \in PCs, Goto(w, pc), HandlerHolds([g EXCEPT !.pc = pc])'
        PROVE  \A v \in Processes : HandlerHolds(handler[v])'
    <2>1. [g EXCEPT !.pc = pc] \in Handler /\ Become(w, [g EXCEPT !.pc = pc])
      BY <1>1, <1>3 DEF Handler, Goto
    <2> QED BY <1>3, <2>1, OthersHold
  <1>4. CASE \/ PatchSave(w) \/ RemoveAudit(w) \/ RestoreAudit(w) \/ RequestNotify(w)
            \/ AcceptNotify(w) \/ DeclineNotify(w) \/ CancelAudit(w) \/ RateInsert(w)
    BY <1>2, <1>4 DEF PatchSave, RemoveAudit, RestoreAudit, RequestNotify, AcceptNotify,
         DeclineNotify, CancelAudit, RateInsert
  <1>5. CASE RestoreSave(w)
    <2>1. HandlerHolds([g EXCEPT !.pc = "restore.audit"])'
      BY <1>1, <1>5 DEF RestoreSave, At, HandlerHolds, Handler
    <2> QED BY <1>3, <1>5, <2>1 DEF RestoreSave, PCs
  <1>6. CASE RequestCheck(w)
    <2>1. HandlerHolds([g EXCEPT !.pc = "request.insert"])'
      BY <1>1, <1>6 DEF RequestCheck, At, HandlerHolds, Handler
    <2> QED BY <1>2, <1>3, <1>6, <2>1 DEF RequestCheck, PCs
  <1>7. ASSUME NEW r \in RequestIds, RequestInsert(w, r)
        PROVE  \A v \in Processes : HandlerHolds(handler[v])'
    <2> DEFINE h == [g EXCEPT !.pc = "request.notify", !.req = r]
    <2>1. h \in Handler /\ Become(w, h)
      BY <1>1, <1>7 DEF RequestInsert, Handler, PCs
    <2>2. HandlerHolds(h)'
      BY <1>1, <1>7 DEF RequestInsert, At, HandlerHolds, Handler
    <2> HIDE DEF h
    <2> QED BY <2>1, <2>2, OthersHold
  <1>8. CASE AcceptRequest(w)
    <2>1. Decided(g.req)'
      BY <1>1, <1>8, TypeParts DEF AcceptRequest, At, HandlerHolds, SetRequest, RequestsOK,
           RequestRow, Decided
    <2>2. HandlerHolds([g EXCEPT !.pc = "accept.listing"])'
      BY <1>1, <1>8, <2>1 DEF AcceptRequest, At, HandlerHolds, Handler
    <2> QED BY <1>3, <1>8, <2>2 DEF AcceptRequest, PCs
  <1>9. CASE AcceptListing(w)
    <2>1. HandlerHolds([g EXCEPT !.pc = "accept.exchange"])'
      BY <1>1, <1>9 DEF AcceptListing, At, HandlerHolds, Handler
    <2> QED BY <1>3, <1>9, <2>1 DEF AcceptListing, PCs
  <1>10. ASSUME NEW e \in ExchangeIds, AcceptExchange(w, e)
         PROVE  \A v \in Processes : HandlerHolds(handler[v])'
    <2> DEFINE h == [g EXCEPT !.pc = "accept.others", !.exch = e]
    <2>1. h \in Handler /\ Become(w, h)
      BY <1>1, <1>10 DEF AcceptExchange, Handler, PCs
    <2>2. /\ exchanges'[e].status = "scheduled"
          /\ exchanges'[e].recipient = requests'[g.req].requester
      BY <1>1, <1>10, TypeParts DEF AcceptExchange, ExchangesOK
    <2>3. HandlerHolds(h)'
      BY <1>1, <1>10, <2>2 DEF AcceptExchange, At, HandlerHolds, Handler
    <2> HIDE DEF h
    <2> QED BY <2>1, <2>3, OthersHold
  <1>11. CASE AcceptOthers(w)
    <2>1. HandlerHolds([g EXCEPT !.pc = "accept.notify"])'
      BY <1>1, <1>11 DEF AcceptOthers, At, HandlerHolds, Handler
    <2> QED BY <1>3, <1>11, <2>1 DEF AcceptOthers, PCs
  <1>12. CASE DeclineRequest(w)
    <2>1. Decided(g.req)'
      BY <1>1, <1>12, TypeParts DEF DeclineRequest, At, HandlerHolds, SetRequest, RequestsOK,
           RequestRow, Decided
    <2>2. HandlerHolds([g EXCEPT !.pc = "decline.notify"])'
      BY <1>1, <1>12, <2>1 DEF DeclineRequest, At, HandlerHolds, Handler
    <2> QED BY <1>3, <1>12, <2>2 DEF DeclineRequest, PCs
  <1>13. CASE ScheduleSave(w)
    <2>1. exchanges'[g.exch].scheduledAt
      BY <1>1, <1>13, TypeParts DEF ScheduleSave, At, HandlerHolds, ExchangesOK, ExchangeRow
    <2>2. HandlerHolds([g EXCEPT !.pc = "schedule.donor"])'
      BY <1>1, <1>13, <2>1 DEF ScheduleSave, At, HandlerHolds, Handler
    <2> QED BY <1>3, <1>13, <2>2 DEF ScheduleSave, PCs
  <1>14. CASE CompleteExchange(w)
    <2>1. exchanges'[g.exch].completedAt
      BY <1>1, <1>14, TypeParts DEF CompleteExchange, At, HandlerHolds, ExchangesOK, ExchangeRow
    <2>2. HandlerHolds([g EXCEPT !.pc = "complete.listing"])'
      BY <1>1, <1>14, <2>1 DEF CompleteExchange, At, HandlerHolds, Handler
    <2> QED BY <1>3, <1>14, <2>2 DEF CompleteExchange, PCs
  <1>15. CASE CompleteListing(w)
    <2>1. HandlerHolds([g EXCEPT !.pc = "complete.audit"])'
      BY <1>1, <1>15 DEF CompleteListing, At, HandlerHolds, Handler
    <2>2. HandlerHolds([g EXCEPT !.pc = "complete.donor"])'
      BY <1>1, <1>15 DEF CompleteListing, At, HandlerHolds, Handler
    <2> QED BY <1>3, <1>15, <2>1, <2>2 DEF CompleteListing, PCs
  <1>16. CASE CompleteAudit(w)
    <2>1. HandlerHolds([g EXCEPT !.pc = "complete.donor"])'
      BY <1>1, <1>16 DEF CompleteAudit, At, HandlerHolds, Handler
    <2> QED BY <1>3, <1>16, <2>1 DEF CompleteAudit, PCs
  <1>17. CASE CancelExchange(w)
    <2>1. HandlerHolds([g EXCEPT !.pc = "cancel.listing"])'
      BY <1>1, <1>17 DEF CancelExchange, At, HandlerHolds, Handler
    <2> QED BY <1>3, <1>17, <2>1 DEF CancelExchange, PCs
  <1>18. CASE CancelListing(w)
    <2>1. HandlerHolds([g EXCEPT !.pc = "cancel.audit"])'
      BY <1>1, <1>18 DEF CancelListing, At, HandlerHolds, Handler
    <2> QED BY <1>2, <1>3, <1>18, <2>1 DEF CancelListing, PCs
  <1>19. CASE RateCheck(w)
    <2>1. HandlerHolds([g EXCEPT !.pc = "rate.insert"])'
      BY <1>1, <1>19 DEF RateCheck, At, HandlerHolds, Handler
    <2> QED BY <1>2, <1>3, <1>19, <2>1 DEF RateCheck, PCs
  <1>21. CASE ScheduleNotify(w)
    <2>1. ASSUME handler[w].pc = "schedule.donor"
          PROVE  HandlerHolds([g EXCEPT !.pc = "schedule.recipient"])'
      BY <1>1, <2>1 DEF HandlerHolds, Handler
    <2> QED BY <1>2, <1>3, <1>21, <2>1 DEF ScheduleNotify, TellParties, At, PCs
  <1>22. CASE CompleteNotify(w)
    <2>1. ASSUME handler[w].pc = "complete.donor"
          PROVE  HandlerHolds([g EXCEPT !.pc = "complete.recipient"])'
      BY <1>1, <2>1 DEF HandlerHolds, Handler
    <2> QED BY <1>2, <1>3, <1>22, <2>1 DEF CompleteNotify, TellParties, At, PCs
  <1>20. ASSUME NEW r \in RequestIds, ExpireRow(w, r)
         PROVE  \A v \in Processes : HandlerHolds(handler[v])'
    <2> DEFINE h == [g EXCEPT !.todo = g.todo \ {r}, !.wasOpen = g.wasOpen \cap (g.todo \ {r})]
    <2>1. h \in Handler /\ (Finish(w) \/ Become(w, h))
      BY <1>1, <1>20 DEF ExpireRow, Handler
    <2>2. HandlerHolds(h)'
      BY <1>1, <1>20 DEF ExpireRow, At, HandlerHolds, Handler
    <2> HIDE DEF h
    <2> QED BY <1>2, <2>1, <2>2, OthersHold
  <1> QED
    BY <1>4, <1>5, <1>6, <1>7, <1>8, <1>9, <1>10, <1>11, <1>12, <1>13, <1>14, <1>15, <1>16,
       <1>17, <1>18, <1>19, <1>20, <1>21, <1>22 DEF Step

(* Claims and reservations survive a step that makes none without its ground. *)
LEMMA ClaimsKept ==
    ASSUME Keeps, RowsRefer, ClaimedIsHandedOver, ReservedOnDecision,
           \A l \in Listings :
               \/ listings'[l].status = listings[l].status
               \/ /\ listings'[l].status = "claimed" => HandedOver(l)
                  /\ listings'[l].status = "pending" => DecidedOn(l)
    PROVE  ClaimedIsHandedOver' /\ ReservedOnDecision'
  <1>1. \A l \in Listings : (HandedOver(l) => HandedOver(l)') /\ (DecidedOn(l) => DecidedOn(l)')
    BY ExchangeKept, DecidedKept
  <1> QED
    BY <1>1 DEF ClaimedIsHandedOver, ReservedOnDecision, DecidedOn

(* CompleteListing and AcceptListing, the only writers, have their ground. *)
LEMMA StepClaims ==
    ASSUME TypeOK, RowsRefer, Keeps, ClaimedIsHandedOver, ReservedOnDecision,
           NEW w \in Processes, HandlerHolds(handler[w]), Step(w)
    PROVE  ClaimedIsHandedOver' /\ ReservedOnDecision'
  <1> SUFFICES ASSUME NEW l \in Listings, listings'[l].status # listings[l].status
               PROVE  /\ listings'[l].status = "claimed" => HandedOver(l)
                      /\ listings'[l].status = "pending" => DecidedOn(l)
    BY ClaimsKept
  <1>1. ListingsOK
    BY TypeParts
  <1>2. CASE PatchSave(w)
    BY <1>1, <1>2 DEF PatchSave, At, HandlerHolds, SetListing, ListingsOK, ListingRow
  <1>3. CASE RestoreSave(w)
    BY <1>1, <1>3 DEF RestoreSave, SetListing, ListingsOK, ListingRow
  <1>4. CASE AcceptListing(w)
    <2>1. l = requests[handler[w].req].listing /\ listings'[l].status = "pending"
      BY <1>1, <1>4 DEF AcceptListing, MarkPending, ListingsOK, ListingRow
    <2>2. DecidedOn(l)
      BY <1>4, <2>1 DEF AcceptListing, At, HandlerHolds, RequestPCs, DecidedPCs, DecidedOn
    <2> QED BY <2>1, <2>2
  <1>5. CASE CancelListing(w)
    BY <1>1, <1>5 DEF CancelListing, RevertToAvailable, ListingsOK, ListingRow
  <1>6. CASE CompleteListing(w)
    <2>1. l = exchanges[handler[w].exch].listing /\ listings'[l].status = "claimed"
      BY <1>1, <1>6 DEF CompleteListing, MarkClaimed, SetListing, ListingsOK, ListingRow
    <2>2. HandedOver(l)
      BY <1>6, <2>1 DEF CompleteListing, At, HandlerHolds, ExchangePCs, CompletedPCs, HandedOver,
           ExchangesOf
    <2> QED BY <2>1, <2>2
  <1> QED
    BY <1>2, <1>3, <1>4, <1>5, <1>6 DEF Step, RemoveAudit, RestoreAudit, RequestCheck,
         RequestNotify,
       AcceptNotify, DeclineNotify, ScheduleNotify, TellParties, CompleteAudit, CompleteNotify,
       CancelAudit,
       RateCheck, RateInsert, RequestInsert, AcceptRequest, DeclineRequest, AcceptExchange,
       AcceptOthers, ScheduleSave, CompleteExchange, CancelExchange, ExpireRow, rows, logs

(* What the kinds of report say, for one row and one user. *)
DeclinedFact(r, u) == Decided(r) /\ requests[r].requester = u
CompletedFact(e, u) == exchanges[e].completedAt /\ IsParty(e, u)
ScheduledFact(e, u) == exchanges[e].scheduledAt /\ IsParty(e, u)

(* What a report says stays true. *)
LEMMA FactsKept ==
    ASSUME RowsRefer, Keeps
    PROVE  /\ \A r \in RequestIds, u \in Users : DeclinedFact(r, u) => DeclinedFact(r, u)'
           /\ \A e \in ExchangeIds, u \in Users :
                 /\ IsFor(e, u) => IsFor(e, u)'
                 /\ CompletedFact(e, u) => CompletedFact(e, u)'
                 /\ ScheduledFact(e, u) => ScheduledFact(e, u)'
           /\ \A e \in ExchangeIds : exchanges[e].completedAt => exchanges'[e].completedAt
  BY DEF RowsRefer, Keeps, KeepsRequest, KeepsExchange, DeclinedFact, IsFor, CompletedFact,
         ScheduledFact, IsParty, Decided

(* Reports stay true if each new one is true when it is written. *)
LEMMA ReportsKept ==
    ASSUME RowsRefer, Keeps, ReportsAreTrue,
           \A r \in RequestIds, u \in Users :
              <<"request_declined", u, r>> \in inbox' =>
                  <<"request_declined", u, r>> \in inbox \/ DeclinedFact(r, u),
           \A e \in ExchangeIds, u \in Users :
              /\ <<"request_accepted", u, e>> \in inbox' =>
                    <<"request_accepted", u, e>> \in inbox \/ IsFor(e, u)
              /\ <<"exchange_completed", u, e>> \in inbox' =>
                    <<"exchange_completed", u, e>> \in inbox \/ CompletedFact(e, u)
              /\ <<"exchange_scheduled", u, e>> \in inbox' =>
                    <<"exchange_scheduled", u, e>> \in inbox \/ ScheduledFact(e, u),
           \A e \in ExchangeIds :
              <<"exchange_force_completed", e>> \in auditLog' =>
                    <<"exchange_force_completed", e>> \in auditLog \/ exchanges[e].completedAt
    PROVE  ReportsAreTrue'
  BY FactsKept DEF ReportsAreTrue, DeclinedFact, CompletedFact, ScheduledFact

(* Each notification and audit row is true when it is written. *)
LEMMA StepReports ==
    ASSUME TypeOK, RowsRefer, Keeps, ReportsAreTrue,
           NEW w \in Processes, HandlerHolds(handler[w]), Step(w)
    PROVE  ReportsAreTrue'
  <1> USE DEF ListingPCs, RequestPCs, DecidedPCs, ExchangePCs, ScheduledPCs, CompletedPCs
  <1>1. CASE RequestNotify(w)
    BY <1>1, ReportsKept DEF RequestNotify, Notify
  <1>2. CASE AcceptNotify(w)
    <2>1. IsFor(handler[w].exch, requests[handler[w].req].requester)
      BY <1>2 DEF AcceptNotify, At, HandlerHolds, IsFor
    <2> QED BY <1>2, <2>1, ReportsKept DEF AcceptNotify, Notify
  <1>3. CASE DeclineNotify(w)
    <2>1. Decided(handler[w].req)
      BY <1>3 DEF DeclineNotify, At, HandlerHolds
    <2> QED BY <1>3, <2>1, ReportsKept DEF DeclineNotify, Notify, DeclinedFact
  <1>4. CASE ScheduleNotify(w)
    <2>1. exchanges[handler[w].exch].scheduledAt
      BY <1>4 DEF ScheduleNotify, TellParties, At, HandlerHolds
    <2> QED
      BY <1>4, <2>1, ReportsKept DEF ScheduleNotify, TellParties, Notify, ScheduledFact, IsParty
  <1>5. CASE CompleteNotify(w)
    <2>1. exchanges[handler[w].exch].completedAt
      BY <1>5 DEF CompleteNotify, TellParties, At, HandlerHolds
    <2> QED
      BY <1>5, <2>1, ReportsKept DEF CompleteNotify, TellParties, Notify, CompletedFact, IsParty
  <1>6. CASE RemoveAudit(w) \/ RestoreAudit(w) \/ CancelAudit(w)
    BY <1>6, ReportsKept DEF RemoveAudit, RestoreAudit, CancelAudit, RecordAuditLog
  <1>7. CASE CompleteAudit(w)
    <2>1. exchanges[handler[w].exch].completedAt
      BY <1>7 DEF CompleteAudit, At, HandlerHolds
    <2> QED BY <1>7, <2>1, ReportsKept DEF CompleteAudit, RecordAuditLog
  <1>8. CASE UNCHANGED logs
    BY <1>8, ReportsKept DEF logs
  <1> QED
    BY <1>1, <1>2, <1>3, <1>4, <1>5, <1>6, <1>7, <1>8 DEF Step, PatchSave, RestoreSave,
         RequestCheck,
       RequestInsert, AcceptRequest, AcceptListing, AcceptExchange, AcceptOthers, DeclineRequest,
       ScheduleSave, CompleteExchange, CompleteListing, CancelExchange, CancelListing, RateCheck,
       RateInsert, ExpireRow

-----------------------------------------------------------------------------
(* The other actions: a call that arrives, a job that starts, a process    *)
(* that dies, a listing created or deleted, a request that grows old.      *)

(* Only the handler of one process changes, and its new locals hold. *)
LEMMA RowsAloneInv ==
    ASSUME IInv, UNCHANGED <<rows, ratings, logs>>,
           NEW w \in Processes, NEW h \in Handler, HandlerHolds(h), Become(w, h)
    PROVE  Keeps /\ IInv'
  <1> USE DEF rows, logs
  <1>1. Keeps
    BY KeepsUnchanged DEF Keeps
  <1>2. TypeOK'
    BY BecomeType, TypeParts DEF IInv, TypeOK, ListingsOK, RequestsOK, ExchangesOK, HandlerOK,
         Processes
  <1>3. RowsRefer'
    BY <1>1, RowsReferFrom DEF IInv, RowsRefer, Born, TimestampsFit
  <1>4. \A v \in Processes : HandlerHolds(handler[v])'
    <2>1. HandlerHolds(h)'
      BY <1>1, HandlerKept DEF IInv
    <2> QED
      BY <1>1, <2>1, OthersHold DEF IInv, Processes
  <1>5. ClaimedIsHandedOver' /\ ReservedOnDecision'
    BY <1>1, ClaimsKept DEF IInv
  <1>6. ReportsAreTrue'
    BY <1>1, ReportsKept DEF IInv
  <1> QED
    BY <1>1, <1>2, <1>3, <1>4, <1>5, <1>6 DEF IInv, Processes

(* Rows may change, but no ratings and no logs, and nothing is inserted     *)
(* but a listing.                                                          *)
LEMMA RowWriteInv ==
    ASSUME IInv, Keeps, UNCHANGED <<exchanges, ratings, logs>>, TypeOK',
           \A v \in Processes : HandlerHolds(handler[v])',
           \A l \in Listings :
               /\ Born(l)' => Born(l) \/ listings'[l].owner \in Users
               /\ \/ listings'[l].status = listings[l].status
                  \/ listings'[l].status \notin {"claimed", "pending"},
           \A r \in RequestIds : requests'[r].status # "unborn" => requests[r].status # "unborn"
    PROVE  IInv'
  <1> USE DEF logs
  <1>1. RowsRefer'
    <2>1. \A l \in Listings : (Born(l) => listings[l].owner \in Users)'
      BY BornKept DEF IInv, RowsRefer, Donor
    <2>2. \A r \in RequestIds : (requests[r].status # "unborn" => RequestRefers(requests[r]))'
      BY RequestStillRefers DEF IInv
    <2>3. \A e \in ExchangeIds : (exchanges[e].status # "unborn" => ExchangeRefers(exchanges[e]))'
      BY ExchangeStillRefers DEF IInv
    <2> QED
      BY <2>1, <2>2, <2>3 DEF IInv, RowsRefer
  <1>2. ClaimedIsHandedOver' /\ ReservedOnDecision'
    BY ClaimsKept DEF IInv
  <1>3. ReportsAreTrue'
    BY ReportsKept DEF IInv
  <1> QED
    BY <1>1, <1>2, <1>3 DEF IInv, Processes

(* The handlers keep what they hold when none of them moves. *)
LEMMA NoHandlerMoves ==
    ASSUME IInv, Keeps, UNCHANGED handler
    PROVE  \A v \in Processes : HandlerHolds(handler[v])'
  <1> SUFFICES ASSUME NEW v \in Processes PROVE HandlerHolds(handler[v])'
    OBVIOUS
  <1>1. PICK g \in Handler : g = handler[v] /\ g = handler'[v]
    BY TypeParts DEF IInv, HandlerOK
  <1>2. HandlerHolds(g)
    BY <1>1 DEF IInv, Processes
  <1>3. HandlerHolds(g)'
    BY <1>2, HandlerKept DEF IInv
  <1> QED
    BY <1>1, <1>3 DEF HandlerHolds

(* A new listing. *)
LEMMA CreateInv ==
    ASSUME IInv, NEW l \in Listings, NEW u \in Users, CreateListing(l, u)
    PROVE  Keeps /\ IInv'
  <1>1. ListingsOK
    BY TypeParts DEF IInv
  <1>2. /\ \A k \in Listings : KeepsListing(k)
        /\ \A k \in Listings : /\ Born(k)' => Born(k) \/ listings'[k].owner \in Users
                              /\ \/ listings'[k].status = listings[k].status
                                 \/ listings'[k].status \notin {"claimed", "pending"}
        /\ ListingsOK'
    BY <1>1 DEF CreateListing, ListingsOK, ListingRow, ListingStatus, KeepsListing, Born
  <1>3. Keeps
    BY <1>2, KeepsUnchanged DEF CreateListing, Keeps
  <1>4. TypeOK'
    BY <1>2 DEF IInv, CreateListing, TypeOK, ListingsOK
  <1> QED
    BY <1>2, <1>3, <1>4, NoHandlerMoves, RowWriteInv DEF CreateListing, logs

(* The owner's soft delete. *)
LEMMA DeleteInv ==
    ASSUME IInv, NEW l \in Listings, DeleteListing(l)
    PROVE  Keeps /\ IInv'
  <1>1. ListingsOK
    BY TypeParts DEF IInv
  <1>2. Keeps
    BY <1>1, SetListingKeeps, KeepsUnchanged DEF DeleteListing, Keeps
  <1>3. TypeOK'
    BY <1>1, SetListingType DEF IInv, DeleteListing, TypeOK, ListingsOK, ListingStatus
  <1>4. \A k \in Listings : /\ Born(k)' => Born(k)
                           /\ \/ listings'[k].status = listings[k].status
                              \/ listings'[k].status \notin {"claimed", "pending"}
    BY <1>1 DEF DeleteListing, SetListing, ListingsOK, ListingRow, Born
  <1> QED
    BY <1>2, <1>3, <1>4, NoHandlerMoves, RowWriteInv DEF DeleteListing, logs

(* The first write of a moderator's removal. *)
LEMMA RemoveInv ==
    ASSUME IInv, NEW w \in Processes, NEW l \in Listings, RemoveWrite(w, l)
    PROVE  Keeps /\ IInv'
  <1> DEFINE h == [Idle EXCEPT !.pc = "remove.audit", !.lst = l]
  <1>1. ListingsOK
    BY TypeParts DEF IInv
  <1>2. Keeps
    BY <1>1, SetListingKeeps, KeepsUnchanged DEF RemoveWrite, Keeps
  <1>3. h \in Handler /\ Become(w, h) /\ HandlerHolds(h)'
    BY DEF RemoveWrite, Idle, Handler, PCs, ListingStatus, HandlerHolds,
           ListingPCs, RequestPCs, DecidedPCs, ExchangePCs, ScheduledPCs, CompletedPCs
  <1> HIDE DEF h
  <1>4. TypeOK'
    BY <1>1, <1>3, SetListingType, BecomeType
       DEF IInv, RemoveWrite, TypeOK, ListingsOK, HandlerOK, ListingStatus, Processes
  <1>5. \A v \in Processes : HandlerHolds(handler[v])'
    BY <1>2, <1>3, OthersHold DEF IInv, Processes
  <1>6. \A k \in Listings : /\ Born(k)' => Born(k)
                           /\ \/ listings'[k].status = listings[k].status
                              \/ listings'[k].status \notin {"claimed", "pending"}
    BY <1>1 DEF RemoveWrite, SetListing, ListingsOK, ListingRow, Born
  <1> QED
    BY <1>2, <1>4, <1>5, <1>6, RowWriteInv DEF RemoveWrite, logs

(* A request passing the cutoff of the daily job. *)
LEMMA AgeInv ==
    ASSUME IInv, NEW r \in RequestIds, Age(r)
    PROVE  Keeps /\ IInv'
  <1>1. RequestsOK
    BY TypeParts DEF IInv
  <1>2. /\ \A q \in RequestIds : KeepsRequest(q)
        /\ \A q \in RequestIds : requests'[q].status # "unborn" => requests[q].status # "unborn"
        /\ RequestsOK'
    BY <1>1 DEF Age, RequestsOK, RequestRow, KeepsRequest, Decided
  <1>3. Keeps
    BY <1>2, KeepsUnchanged DEF Age, Keeps
  <1>4. TypeOK'
    BY <1>2 DEF IInv, Age, TypeOK, RequestsOK
  <1> QED
    BY <1>2, <1>3, <1>4, NoHandlerMoves, RowWriteInv DEF Age, Born, logs

(* A call other than a removal writes nothing yet: it leaves the process   *)
(* with locals that hold, because its guards have just been evaluated.     *)
LEMMA ArriveHolds ==
    ASSUME IInv, NEW w \in Web, Arrive(w), ~ \E l \in Listings : RemoveWrite(w, l)
    PROVE  /\ UNCHANGED <<rows, ratings, logs>>
           /\ \E h \in Handler : HandlerHolds(h) /\ Become(w, h)
  <1> DEFINE Held == /\ UNCHANGED <<rows, ratings, logs>>
                     /\ \E h \in Handler : HandlerHolds(h) /\ Become(w, h)
  <1> USE DEF ListingPCs, RequestPCs, DecidedPCs, ExchangePCs, ScheduledPCs, CompletedPCs
  <1>1. /\ TypeOK /\ RowsRefer /\ ListingsOK /\ RequestsOK /\ ExchangesOK
        /\ ClaimedIsHandedOver /\ ReservedOnDecision
    BY TypeParts DEF IInv
  <1>2. ASSUME NEW l \in Listings, PatchBegin(w, l) PROVE Held
    <2> DEFINE h == [Idle EXCEPT !.pc = "patch.save", !.lst = l, !.seen = listings[l].status]
    <2>1. h \in Handler
      BY <1>1 DEF Idle, Handler, PCs, ListingsOK, ListingRow
    <2>2. HandlerHolds(h)
      BY <1>1, <1>2 DEF PatchBegin, Idle, HandlerHolds, Born, ClaimedIsHandedOver,
           ReservedOnDecision, DecidedOn
    <2> QED BY <1>2, <2>1, <2>2 DEF PatchBegin
  <1>3. ASSUME NEW l \in Listings, RestoreBegin(w, l) PROVE Held
    <2> DEFINE h == [Idle EXCEPT !.pc = "restore.save", !.lst = l]
    <2>1. h \in Handler
      BY DEF Idle, Handler, PCs, ListingStatus
    <2>2. HandlerHolds(h)
      BY <1>3 DEF RestoreBegin, Idle, HandlerHolds, Born
    <2> QED BY <1>3, <2>1, <2>2 DEF RestoreBegin
  <1>4. ASSUME NEW l \in Listings, NEW u \in Users, RequestBegin(w, l, u) PROVE Held
    <2> DEFINE h == [Idle EXCEPT !.pc = "request.check", !.lst = l, !.user = u]
    <2>1. h \in Handler
      BY DEF Idle, Handler, PCs, ListingStatus
    <2>2. HandlerHolds(h)
      BY <1>4 DEF RequestBegin, MayRequest, Idle, HandlerHolds, Born, Donor
    <2> QED BY <1>4, <2>1, <2>2 DEF RequestBegin
  <1>5. ASSUME NEW r \in RequestIds, NEW pc \in {"accept.request", "decline.request"},
               DecisionBegin(w, r, pc)
        PROVE  Held
    <2> DEFINE s == listings[requests[r].listing].status
               h == [Idle EXCEPT !.pc = pc, !.req = r, !.wasOpen = {r} \cap PendingRequests,
                                 !.seen = s]
    <2>1. s \in ListingStatus
      BY <1>1, <1>5 DEF DecisionBegin, RowsRefer, RequestRefers, Born, ListingsOK, ListingRow
    <2>2. h \in Handler
      BY <2>1 DEF Idle, Handler, PCs
    <2>3. HandlerHolds(h)
      BY <1>5 DEF DecisionBegin, Idle, HandlerHolds, PendingRequests
    <2> QED BY <1>5, <2>2, <2>3 DEF DecisionBegin
  <1>6. ASSUME NEW e \in ExchangeIds, NEW forced \in BOOLEAN,
               NEW pc \in {"schedule.save", "complete.exchange", "cancel.exchange"},
               ExchangeBegin(w, e, forced, pc)
        PROVE  Held
    <2> DEFINE s == listings[exchanges[e].listing].status
               h == [Idle EXCEPT !.pc = pc, !.exch = e, !.forced = forced,
                                 !.wasOpen = {e} \cap ScheduledExchanges, !.seen = s]
    <2>1. s \in ListingStatus
      BY <1>1, <1>6 DEF ExchangeBegin, RowsRefer, ExchangeRefers, Born, ListingsOK, ListingRow
    <2>2. h \in Handler
      BY <2>1 DEF Idle, Handler, PCs
    <2>3. HandlerHolds(h)
      BY <1>6 DEF ExchangeBegin, Idle, HandlerHolds, ScheduledExchanges
    <2> QED BY <1>6, <2>2, <2>3 DEF ExchangeBegin
  <1>7. ASSUME NEW e \in ExchangeIds, NEW u \in Users, RateBegin(w, e, u) PROVE Held
    <2> DEFINE h == [Idle EXCEPT !.pc = "rate.check", !.exch = e, !.user = u]
    <2>1. h \in Handler
      BY DEF Idle, Handler, PCs, ListingStatus
    <2>2. HandlerHolds(h)
      BY <1>1, <1>7 DEF RateBegin, MayRate, Idle, HandlerHolds, RowsRefer
    <2> QED BY <1>7, <2>1, <2>2 DEF RateBegin
  <1> HIDE DEF Held
  <1>8. Held
    BY <1>2, <1>3, <1>4, <1>5, <1>6, <1>7
       DEF Arrive, AcceptBegin, DeclineBegin, ScheduleBegin, CompleteBegin, CancelBegin
  <1> QED
    BY <1>8 DEF Held

(* Every call that arrives. *)
LEMMA ArriveInv ==
    ASSUME IInv, NEW w \in Web, Arrive(w)
    PROVE  Keeps /\ IInv'
  <1>1. w \in Processes
    BY DEF Processes
  <1>2. CASE \E l \in Listings : RemoveWrite(w, l)
    BY <1>1, <1>2, RemoveInv
  <1>3. CASE ~ \E l \in Listings : RemoveWrite(w, l)
    <2>1. PICK h \in Handler : HandlerHolds(h) /\ Become(w, h)
      BY <1>3, ArriveHolds
    <2>2. UNCHANGED <<rows, ratings, logs>>
      BY <1>3, ArriveHolds
    <2> QED BY <1>1, <2>1, <2>2, RowsAloneInv
  <1> QED BY <1>2, <1>3

(* The daily job fetching the stale requests. *)
LEMMA ExpireBeginInv ==
    ASSUME IInv, NEW w \in Cron, ExpireBegin(w)
    PROVE  Keeps /\ IInv'
  <1>1. PICK todo \in SUBSET RequestIds : todo = StalePending
    BY DEF StalePending
  <1> DEFINE h == [Idle EXCEPT !.pc = "expire.row", !.todo = todo,
                               !.wasOpen = todo \cap PendingRequests]
  <1>2. h \in Handler
    BY DEF Idle, Handler, PCs, ListingStatus
  <1>3. HandlerHolds(h)
    BY <1>1 DEF StalePending, PendingRequests, Idle, HandlerHolds, ListingPCs, RequestPCs, DecidedPCs,
         ExchangePCs, ScheduledPCs, CompletedPCs
  <1>4. w \in Processes /\ Become(w, h) /\ UNCHANGED <<rows, ratings, logs>>
    BY <1>1 DEF ExpireBegin, Processes
  <1> HIDE DEF h
  <1> QED BY <1>2, <1>3, <1>4, RowsAloneInv

(* A process that dies. *)
LEMMA CrashInv ==
    ASSUME IInv, NEW w \in Processes, Crash(w)
    PROVE  Keeps /\ IInv'
  <1>1. HandlerHolds(Idle)
    BY DEF HandlerHolds, Idle, ListingPCs, RequestPCs, DecidedPCs, ExchangePCs, ScheduledPCs,
         CompletedPCs
  <1> QED
    BY <1>1, IdleIsHandler, RowsAloneInv DEF Crash, Finish

(* Every write of a handler. *)
LEMMA StepInv ==
    ASSUME IInv, NEW w \in Processes, Step(w)
    PROVE  Keeps /\ IInv'
  <1>1. TypeOK /\ RowsRefer /\ (\A v \in Processes : HandlerHolds(handler[v]))
    BY DEF IInv, Processes
  <1>2. Keeps
    BY <1>1, KeepsStep
  <1>3. TypeOK' /\ RowsRefer'
    BY <1>1, <1>2, StepType, RowsReferStep
  <1>4. \A v \in Processes : HandlerHolds(handler[v])'
    BY <1>1, <1>2, StepHolds
  <1>5. ClaimedIsHandedOver' /\ ReservedOnDecision' /\ ReportsAreTrue'
    BY <1>1, <1>2, StepClaims, StepReports DEF IInv
  <1> QED
    BY <1>2, <1>3, <1>4, <1>5 DEF IInv, Processes

(* A step that changes nothing. *)
LEMMA StutterInv ==
    ASSUME IInv, UNCHANGED vars
    PROVE  Keeps /\ IInv'
  <1> USE DEF vars, rows, logs
  <1>1. Keeps
    BY KeepsUnchanged DEF Keeps
  <1>2. TypeOK'
    BY DEF IInv, TypeOK
  <1> QED
    BY <1>1, <1>2, NoHandlerMoves, RowWriteInv DEF Born

-----------------------------------------------------------------------------
(* The invariant and what follows from it.                                 *)

(* The empty tables satisfy the invariant. *)
LEMMA InitInv == Init => IInv
  <1> SUFFICES ASSUME Init PROVE IInv
    OBVIOUS
  <1>1. TypeOK
    BY IdleIsHandler DEF Init, TypeOK, ListingRow, ListingStatus, RequestRow, RequestStatus,
         ExchangeRow, ExchangeStatus
  <1>2. RowsRefer
    BY DEF Init, RowsRefer, Born
  <1>3. HandlerHolds(Idle)
    BY DEF HandlerHolds, Idle, ListingPCs, RequestPCs, DecidedPCs, ExchangePCs, ScheduledPCs,
         CompletedPCs
  <1>4. \A w \in Processes : HandlerHolds(handler[w])
    BY <1>3 DEF Init
  <1>5. ClaimedIsHandedOver /\ ReservedOnDecision /\ ReportsAreTrue
    BY DEF Init, ClaimedIsHandedOver, ReservedOnDecision, ReportsAreTrue
  <1> QED
    BY <1>1, <1>2, <1>4, <1>5 DEF IInv

(* Every step keeps the invariant, and takes nothing back. *)
LEMMA NextInv == IInv /\ [Next]_vars => Keeps /\ IInv'
  <1> SUFFICES ASSUME IInv, [Next]_vars PROVE Keeps /\ IInv'
    OBVIOUS
  <1> QED
    BY CreateInv, DeleteInv, AgeInv, ArriveInv, ExpireBeginInv, CrashInv, StepInv, StutterInv
       DEF Next, Processes

(* The inductive invariant holds in every behaviour, for any number of     *)
(* users, rows and processes, with and without crashes.                    *)
THEOREM Invariance == Spec => []IInv
  <1>1. IInv /\ [Next]_vars => IInv'
    BY NextInv
  <1> QED
    BY <1>1, InitInv, PTL DEF Spec

(* Type correctness: no handler writes a status, a reference or a local    *)
(* outside the tables' column types.                                       *)
THEOREM TypeCorrect == Spec => []TypeOK
  <1>1. IInv => TypeOK
    BY DEF IInv
  <1> QED
    BY <1>1, Invariance, PTL

(* A listing is "claimed" only after some exchange of it was completed,    *)
(* whichever handlers interleave and die (listings and exchanges services).*)
THEOREM ClaimsAreHandovers == Spec => []ClaimedIsHandedOver
  <1>1. IInv => ClaimedIsHandedOver
    BY DEF IInv
  <1> QED
    BY <1>1, Invariance, PTL

(* Every exchange is between the listing's owner and another user whose    *)
(* request for that listing was decided (requests/services.accept_request).*)
THEOREM ExchangesAsked == Spec => []ExchangesAreAskedFor
  <1>1. IInv => ExchangesAreAskedFor
    BY DEF IInv, RowsRefer, ExchangeRefers, AskedFor, ExchangesAreAskedFor
  <1> QED
    BY <1>1, Invariance, PTL

(* A listing is "pending" only if one of its requests was decided: neither *)
(* stale PATCHes nor cancellations reserve a book nobody asked for.        *)
THEOREM ReservationsDecided == Spec => []ReservedOnDecision
  <1>1. IInv => ReservedOnDecision
    BY DEF IInv
  <1> QED
    BY <1>1, Invariance, PTL

(* What notifications and audit rows say has happened: each is written     *)
(* after the writes it reports, and those are never undone.                *)
THEOREM ReportsTrue == Spec => []ReportsAreTrue
  <1>1. IInv => ReportsAreTrue
    BY DEF IInv
  <1> QED
    BY <1>1, Invariance, PTL

(* No step returns a decided request to "pending", a finished exchange to  *)
(* "scheduled", or undoes a completion, for any stale snapshot a handler   *)
(* may be working on.                                                      *)
THEOREM NothingIsReopened == Spec => NothingReopens
  <1>1. IInv /\ [Next]_vars =>
          /\ \A r \in RequestIds :
                requests'[r].status = "pending" => requests[r].status \in {"unborn", "pending"}
          /\ \A e \in ExchangeIds :
                /\ exchanges'[e].status = "scheduled"
                       => exchanges[e].status \in {"unborn", "scheduled"}
                /\ exchanges[e].completedAt => exchanges'[e].completedAt
    BY NextInv DEF Keeps, KeepsRequest, KeepsExchange, Decided
  <1> QED
    BY <1>1, Invariance, PTL DEF Spec, NothingReopens

(* A step that takes an acceptance back is a late save of the daily job or *)
(* of a decline, which fetched the request while it was pending.           *)
LEMMA AcceptanceStep ==
    ASSUME IInv, [Next]_vars, NEW r \in RequestIds,
           requests[r].status = "accepted", requests'[r].status # "accepted"
    PROVE  \E w \in Processes :
               /\ r \in handler[w].wasOpen /\ handler'[w] # handler[w]
               /\ \/ At(w, "expire.row") /\ r \in handler[w].todo
                  \/ At(w, "decline.request") /\ handler[w].req = r
  <1>0. requests \in [RequestIds -> RequestRow] /\ HandlerOK
    BY TypeParts DEF IInv, TypeOK
  <1>1. PICK w \in Processes : Step(w)
    BY <1>0 DEF Next, vars, rows, CreateListing, DeleteListing, Age, Arrive, PatchBegin,
       RemoveWrite, RestoreBegin, RequestBegin, AcceptBegin, DeclineBegin, DecisionBegin,
       ScheduleBegin, CompleteBegin, CancelBegin, ExchangeBegin, RateBegin, ExpireBegin, Crash,
       Processes, RequestRow
  <1>2. requests' # requests /\ HandlerHolds(handler[w])
    BY DEF IInv, Processes
  <1>3. CASE \E q \in RequestIds : RequestInsert(w, q)
    BY <1>0, <1>3 DEF RequestInsert, RequestRow
  <1>4. CASE AcceptRequest(w)
    BY <1>0, <1>4 DEF AcceptRequest, SetRequest, RequestRow
  <1>5. CASE AcceptOthers(w)
    BY <1>0, <1>5 DEF AcceptOthers, Moot, RequestRow
  <1>6. CASE DeclineRequest(w)
    <2>1. handler[w].req = r /\ r \in handler[w].wasOpen
      BY <1>0, <1>2, <1>6 DEF DeclineRequest, SetRequest, RequestRow, HandlerHolds, At
    <2>2. handler'[w] # handler[w]
      BY <1>0, <1>6 DEF DeclineRequest, Goto, Become, At, HandlerOK, Handler
    <2> QED BY <1>6, <2>1, <2>2 DEF DeclineRequest
  <1>7. ASSUME NEW q \in RequestIds, ExpireRow(w, q)
        PROVE  /\ r \in handler[w].wasOpen /\ handler'[w] # handler[w]
               /\ At(w, "expire.row") /\ r \in handler[w].todo
    <2>1. q = r /\ r \in handler[w].todo
      BY <1>0, <1>7 DEF ExpireRow, SetRequest, RequestRow
    <2>2. PICK h : /\ Become(w, h)
                   /\ h \in {Idle, [handler[w] EXCEPT !.todo = handler[w].todo \ {q},
                                        !.wasOpen = handler[w].wasOpen
                                                        \cap (handler[w].todo \ {q})]}
      BY <1>7 DEF ExpireRow, Finish
    <2>3. handler[w] \in Handler
      BY <1>0 DEF HandlerOK, Processes
    <2>4. r \notin h.todo
      <3>1. CASE h = Idle
        BY <3>1 DEF Idle
      <3>2. CASE h = [handler[w] EXCEPT !.todo = handler[w].todo \ {q},
                                        !.wasOpen = handler[w].wasOpen
                                                        \cap (handler[w].todo \ {q})]
        <4>1. h.todo = handler[w].todo \ {q}
          BY <2>3, <3>2 DEF Handler
        <4> QED BY <2>1, <4>1
      <3> QED BY <2>2, <3>1, <3>2
    <2>5. handler'[w] = h
      BY <1>0, <2>2 DEF Become, HandlerOK
    <2> QED BY <1>2, <1>7, <2>1, <2>4, <2>5 DEF ExpireRow, HandlerHolds, At
  <1> QED
    BY <1>1, <1>2, <1>3, <1>4, <1>5, <1>6, <1>7
       DEF Step, PatchSave, RemoveAudit, RestoreSave, RestoreAudit, RequestCheck, RequestNotify,
         AcceptListing, AcceptExchange, AcceptNotify, DeclineNotify, ScheduleSave, ScheduleNotify,
         TellParties, CompleteExchange, CompleteListing, CompleteAudit, CompleteNotify,
         CancelExchange, CancelListing, CancelAudit, RateCheck, RateInsert, rows

(* An acceptance is taken back only by the write of a decline or of the    *)
(* daily job that fetched the request while it was pending: by no later    *)
(* call, and by no acceptance of a rival.                                  *)
THEOREM AcceptancesStand == Spec => AcceptanceStands
  <1>1. IInv /\ [Next]_vars =>
          \A r \in RequestIds :
              requests[r].status = "accepted" /\ requests'[r].status # "accepted" =>
                  \E w \in Processes :
                      /\ r \in handler[w].wasOpen /\ handler'[w] # handler[w]
                      /\ \/ At(w, "expire.row") /\ r \in handler[w].todo
                         \/ At(w, "decline.request") /\ handler[w].req = r
    BY AcceptanceStep
  <1> QED
    BY <1>1, Invariance, PTL DEF Spec, AcceptanceStands

(* A step that takes a completion back is the save of a cancellation that  *)
(* fetched the exchange while it was scheduled.                            *)
LEMMA CompletionStep ==
    ASSUME IInv, [Next]_vars, NEW e \in ExchangeIds,
           exchanges[e].status = "completed", exchanges'[e].status # "completed"
    PROVE  \E w \in Processes :
               /\ e \in handler[w].wasOpen /\ handler'[w] # handler[w]
               /\ At(w, "cancel.exchange") /\ handler[w].exch = e
  <1>0. ExchangesOK /\ HandlerOK
    BY TypeParts DEF IInv
  <1>1. PICK w \in Processes : Step(w)
    BY <1>0 DEF Next, vars, rows, CreateListing, DeleteListing, Age, Arrive, PatchBegin,
       RemoveWrite, RestoreBegin, RequestBegin, AcceptBegin, DeclineBegin, DecisionBegin,
       ScheduleBegin, CompleteBegin, CancelBegin, ExchangeBegin, RateBegin, ExpireBegin, Crash,
       Processes, ExchangesOK, ExchangeRow
  <1>2. exchanges' # exchanges /\ HandlerHolds(handler[w])
    BY DEF IInv, Processes
  <1>3. CASE \E f \in ExchangeIds : AcceptExchange(w, f)
    BY <1>0, <1>3 DEF AcceptExchange, ExchangesOK, ExchangeRow
  <1>4. CASE ScheduleSave(w) \/ CompleteExchange(w)
    BY <1>0, <1>4 DEF ScheduleSave, CompleteExchange, ExchangesOK, ExchangeRow
  <1>5. CASE CancelExchange(w)
    <2>1. handler[w].exch = e /\ e \in handler[w].wasOpen
      BY <1>0, <1>2, <1>5 DEF CancelExchange, ExchangesOK, ExchangeRow, HandlerHolds, At
    <2>2. handler'[w] # handler[w]
      BY <1>0, <1>5 DEF CancelExchange, Goto, Become, At, HandlerOK, Handler
    <2> QED BY <1>5, <2>1, <2>2 DEF CancelExchange
  <1> QED
    BY <1>1, <1>2, <1>3, <1>4, <1>5
       DEF Step, PatchSave, RemoveAudit, RestoreSave, RestoreAudit, RequestCheck, RequestInsert,
         RequestNotify, AcceptRequest, AcceptListing, AcceptOthers, AcceptNotify, DeclineRequest,
         DeclineNotify, ScheduleNotify, TellParties, CompleteListing, CompleteAudit,
         CompleteNotify, CancelListing, CancelAudit, RateCheck, RateInsert, ExpireRow, rows

(* A completion is taken back only by a cancellation that overlaps it.     *)
THEOREM CompletionsStand == Spec => CompletionStands
  <1>1. IInv /\ [Next]_vars =>
          \A e \in ExchangeIds :
              exchanges[e].status = "completed" /\ exchanges'[e].status # "completed" =>
                  \E w \in Processes :
                      /\ e \in handler[w].wasOpen /\ handler'[w] # handler[w]
                      /\ At(w, "cancel.exchange") /\ handler[w].exch = e
    BY CompletionStep
  <1> QED
    BY <1>1, Invariance, PTL DEF Spec, CompletionStands

-----------------------------------------------------------------------------
(***************************************************************************)
(* 2. A listing that nothing disturbed (Disturbances), for any sets of     *)
(* users, listings, requests, exchanges and processes, with crashes and    *)
(* moderation, and whatever happens to the other listings: its book is     *)
(* promised to one reader at a time and handed over once (OneReader), and  *)
(* its tables agree.                                                       *)
(*                                                                         *)
(* The argument is about one listing k and the one handler h at work on    *)
(* it, if there is one.  Fits(h, k) says what the rows of k are while h is *)
(* where it is, and what h knows.  Good(k) says it of the handler that is  *)
(* at work, and of none when none is.  A step of a handler that is not     *)
(* about k leaves all of it alone (StepElsewhere, Stays); a step of the    *)
(* one that is leads from Fits to Fits (Moves); and where a second one     *)
(* would begin, or the first one die, the listing counts as disturbed.     *)
(***************************************************************************)

(* Nobody is promised a book beside another who has it or will get it. *)
AtMostOne(k) == \A e, f \in Bound(k) : e = f

(* Within a handler a listing may be reserved and not yet, or no longer,   *)
(* promised.                                                               *)
Settling(h, k) ==
    \/ h.pc = "accept.exchange" /\ requests[h.req].listing = k
    \/ h.pc = "complete.listing" /\ exchanges[h.exch].listing = k
    \/ h.pc = "cancel.listing" /\ exchanges[h.exch].listing = k /\ h.seen = "pending"

StatusFits(h, k) ==
    /\ listings[k].status = "available" => Free(k)
    /\ listings[k].status = "claimed" => Done(k) # {}
    /\ listings[k].status = "pending" => Open(k) # {} \/ Settling(h, k)

Waits(r, k) == requests[r].status = "pending" /\ requests[r].listing = k

(* Whoever waits, waits for a free book or is about to be declined. *)
WaitersMayHope(h, k) ==
    (\E r \in RequestIds : Waits(r, k)) =>
        Free(k) \/ (h.pc = "accept.others" /\ requests[h.req].listing = k)

OneEach(k) == \A u \in Users : \A q, r \in PendingOf(k, u) : q = r

(* The request is accepted and its exchange not yet made. *)
Owing(h, k, u) ==
    /\ h.pc \in {"accept.listing", "accept.exchange"}
    /\ requests[h.req].listing = k
    /\ requests[h.req].requester = u

FiniteRows == IsFiniteSet(RequestIds) /\ IsFiniteSet(ExchangeIds)

OneForOne(h, k) ==
    FiniteRows =>
        \A u \in Users :
            Cardinality(AcceptedOf(k, u))
               = IF Owing(h, k, u) THEN Cardinality(GivenTo(k, u)) + 1
                                   ELSE Cardinality(GivenTo(k, u))

(* What the handler at work on k knows of it at each of its writes. *)
KnowsListing(h, k) ==
    /\ h.pc = "patch.save" /\ h.lst = k =>
          /\ h.seen = "available" => Free(k)
          /\ h.seen = "claimed" => Done(k) # {}
          /\ h.seen = "pending" => Open(k) # {}
    /\ h.pc \in {"request.check", "request.insert"} /\ h.lst = k => Free(k)
    /\ h.pc = "request.insert" /\ h.lst = k => PendingOf(k, h.user) = {}

KnowsRequest(h, k) ==
    /\ h.pc \in {"accept.request", "decline.request"} /\ requests[h.req].listing = k =>
          requests[h.req].status = "pending"
    /\ h.pc \in {"accept.request", "accept.listing", "accept.exchange"}
       /\ requests[h.req].listing = k =>
          /\ Free(k)
          /\ \/ h.pc # "accept.exchange" /\ h.seen = "available"
             \/ listings[k].status # "available"
    /\ h.pc = "expire.row" =>
          \A r \in h.todo : requests[r].listing = k => requests[r].status = "pending"

KnowsExchange(h, k) ==
    /\ h.pc \in {"complete.exchange", "cancel.exchange"} /\ exchanges[h.exch].listing = k =>
          exchanges[h.exch].status = "scheduled"
    /\ h.pc = "cancel.exchange" /\ exchanges[h.exch].listing = k
       /\ listings[k].status = "pending" => h.seen = "pending"
    /\ h.pc = "complete.listing" /\ exchanges[h.exch].listing = k =>
          exchanges[h.exch].status = "completed"
    /\ h.pc = "cancel.listing" /\ exchanges[h.exch].listing = k => Free(k)

Knows(h, k) == KnowsListing(h, k) /\ KnowsRequest(h, k) /\ KnowsExchange(h, k)

RowsFit(h, k) == /\ AtMostOne(k)
                 /\ StatusFits(h, k)
                 /\ WaitersMayHope(h, k)
                 /\ OneEach(k)
                 /\ OneForOne(h, k)

Fits(h, k) == RowsFit(h, k) /\ Knows(h, k)

Good(k) == /\ ~Overlap(k)
           /\ \A w \in Processes : WorksOn(w, k) => Fits(handler[w], k)
           /\ (\A w \in Processes : ~WorksOn(w, k)) => Fits(Idle, k)

(* A row that is not inserted yet is about no listing. *)
UnbornAreBlank ==
    /\ \A r \in RequestIds : requests[r].status = "unborn" => requests[r].listing = None
    /\ \A e \in ExchangeIds : exchanges[e].status = "unborn" => exchanges[e].listing = None

NInv == /\ torn \subseteq disturbed
        /\ disturbed \subseteq Listings
        /\ UnbornAreBlank
        /\ \A k \in Listings \ disturbed : Good(k)

-----------------------------------------------------------------------------
(* One listing and the handlers that are not about it.                     *)

(* The rows of the listing k are after the step what they were before. *)
SameRequest(r, k) ==
    requests[r].listing = k \/ requests'[r].listing = k =>
        /\ requests'[r].listing = requests[r].listing
        /\ requests'[r].status = requests[r].status
        /\ requests'[r].requester = requests[r].requester

SameExchange(e, k) ==
    exchanges[e].listing = k \/ exchanges'[e].listing = k =>
        /\ exchanges'[e].listing = exchanges[e].listing
        /\ exchanges'[e].status = exchanges[e].status
        /\ exchanges'[e].recipient = exchanges[e].recipient

Same(k) == /\ \A r \in RequestIds : SameRequest(r, k)
           /\ \A e \in ExchangeIds : SameExchange(e, k)
           /\ listings'[k].status = listings[k].status

(* Its exchanges promise it to the same readers ... *)
LEMMA SameBound ==
    ASSUME NEW k, \A e \in ExchangeIds : SameExchange(e, k)
    PROVE  /\ Open(k)' = Open(k) /\ Done(k)' = Done(k) /\ Bound(k)' = Bound(k)
           /\ Free(k)' <=> Free(k)
           /\ \A u : GivenTo(k, u)' = GivenTo(k, u)
  BY DEF SameExchange, Open, Done, Bound, Free, ExchangesOf, GivenTo

(* ... and its requests come from the same. *)
LEMMA SameWaiters ==
    ASSUME NEW k, \A r \in RequestIds : SameRequest(r, k)
    PROVE  /\ \A r \in RequestIds : Waits(r, k)' <=> Waits(r, k)
           /\ \A u : AcceptedOf(k, u)' = AcceptedOf(k, u) /\ PendingOf(k, u)' = PendingOf(k, u)
  BY DEF SameRequest, Waits, AcceptedOf, PendingOf

(* Where nothing is written, everything is the same. *)
LEMMA SameRows ==
    ASSUME UNCHANGED rows
    PROVE  \A k : Same(k)
  BY DEF rows, Same, SameRequest, SameExchange

(* The rows a handler refers to are there. *)
Refers(h) ==
    /\ h.pc \in RequestWritePCs => h.req \in RequestIds
    /\ h.pc \in ExchangeWritePCs => h.exch \in ExchangeIds
    /\ h.todo \subseteq RequestIds

LEMMA HandlersRefer ==
    ASSUME IInv, NEW w \in Processes
    PROVE  Refers(handler[w])
  BY DEF IInv, TypeOK, Handler, HandlerHolds, Refers, RequestWritePCs, ExchangeWritePCs,
     RequestPCs, DecidedPCs, ExchangePCs, CompletedPCs

LEMMA IdleRefers == Refers(Idle)
  BY DEF Refers, Idle, RequestWritePCs, ExchangeWritePCs

(* So what fitted a handler fits it still, where the rows are the same.    *)
LEMMA SameFits ==
    ASSUME NEW k, Same(k), NEW h, Refers(h), Fits(h, k)
    PROVE  Fits(h, k)'
  <1>1. /\ Open(k)' = Open(k) /\ Done(k)' = Done(k) /\ Bound(k)' = Bound(k)
        /\ Free(k)' <=> Free(k)
        /\ \A u : GivenTo(k, u)' = GivenTo(k, u)
    BY SameBound DEF Same
  <1>2. /\ \A r \in RequestIds : Waits(r, k)' <=> Waits(r, k)
        /\ \A u : AcceptedOf(k, u)' = AcceptedOf(k, u) /\ PendingOf(k, u)' = PendingOf(k, u)
    BY SameWaiters DEF Same
  <1>3. listings'[k].status = listings[k].status
    BY DEF Same
  <1>4. \A r \in RequestIds : (requests'[r].listing = k <=> requests[r].listing = k)
            /\ (requests[r].listing = k => requests'[r].status = requests[r].status
                                           /\ requests'[r].requester = requests[r].requester)
    BY DEF Same, SameRequest
  <1>5. \A e \in ExchangeIds : (exchanges'[e].listing = k <=> exchanges[e].listing = k)
            /\ (exchanges[e].listing = k => exchanges'[e].status = exchanges[e].status)
    BY DEF Same, SameExchange
  <1>6. StatusFits(h, k)'
    BY <1>1, <1>3, <1>4, <1>5 DEF Fits, RowsFit, StatusFits, Settling, Refers, RequestWritePCs,
       ExchangeWritePCs
  <1>7. WaitersMayHope(h, k)'
    BY <1>1, <1>2, <1>4 DEF Fits, RowsFit, WaitersMayHope, Refers, RequestWritePCs
  <1>8. AtMostOne(k)' /\ OneEach(k)'
    BY <1>1, <1>2 DEF Fits, RowsFit, AtMostOne, OneEach
  <1>9. OneForOne(h, k)'
    <2>1. \A u : Owing(h, k, u)' <=> Owing(h, k, u)
      BY <1>4 DEF Owing, Refers, RequestWritePCs
    <2> QED BY <1>1, <1>2, <2>1 DEF Fits, RowsFit, OneForOne
  <1>10. KnowsListing(h, k)'
    BY <1>1, <1>2 DEF Fits, Knows, KnowsListing
  <1>11. KnowsRequest(h, k)'
    BY <1>1, <1>3, <1>4 DEF Fits, Knows, KnowsRequest, Refers, RequestWritePCs
  <1>12. KnowsExchange(h, k)'
    BY <1>1, <1>3, <1>5 DEF Fits, Knows, KnowsExchange, Refers, ExchangeWritePCs
  <1> QED
    BY <1>6, <1>7, <1>8, <1>9, <1>10, <1>11, <1>12 DEF Fits, RowsFit, Knows

(* A handler that is not about k is, for k, none.                          *)
LEMMA NotAbout ==
    ASSUME NEW k, NEW h, ~About(h, k)
    PROVE  Fits(h, k) <=> Fits(Idle, k)
  <1>1. /\ \A u : ~Owing(h, k, u) /\ ~Owing(Idle, k, u)
        /\ ~Settling(h, k) /\ ~Settling(Idle, k)
    BY DEF About, Owing, Settling, Idle, RequestWritePCs, ExchangeWritePCs
  <1>2. Knows(h, k) /\ Knows(Idle, k)
    BY DEF About, Knows, KnowsListing, KnowsRequest, KnowsExchange, Idle, ListingPCs,
       RequestWritePCs, ExchangeWritePCs
  <1>3. RowsFit(h, k) <=> RowsFit(Idle, k)
    BY <1>1 DEF RowsFit, StatusFits, OneForOne, WaitersMayHope, About, RequestWritePCs, Idle
  <1> QED
    BY <1>2, <1>3 DEF Fits

LEMMA KnowsNothing ==
    ASSUME NEW k, NEW h, ~About(h, k)'
    PROVE  /\ \A u : ~Owing(h, k, u)'
           /\ ~Settling(h, k)'
           /\ Knows(h, k)'
  BY DEF About, Owing, Settling, Knows, KnowsListing, KnowsRequest, KnowsExchange, ListingPCs,
     RequestWritePCs, ExchangeWritePCs

LEMMA IdleIsAboutNone == \A k : ~About(Idle, k)'
  BY DEF About, Idle, ListingPCs, RequestWritePCs, ExchangeWritePCs

LEMMA NotAboutAfter ==
    ASSUME NEW k, NEW h, ~About(h, k)'
    PROVE  Fits(h, k)' <=> Fits(Idle, k)'
  <1>1. /\ \A u : ~Owing(h, k, u)' /\ ~Owing(Idle, k, u)'
        /\ ~Settling(h, k)' /\ ~Settling(Idle, k)'
        /\ Knows(h, k)' /\ Knows(Idle, k)'
    BY KnowsNothing, IdleIsAboutNone
  <1>2. RowsFit(h, k)' <=> RowsFit(Idle, k)'
    BY <1>1 DEF RowsFit, StatusFits, OneForOne, WaitersMayHope, About, RequestWritePCs, Idle
  <1> QED
    BY <1>1, <1>2 DEF Fits

(* No step changes what a handler that does not move is about. *)
LEMMA AboutKept ==
    ASSUME IInv, Keeps, NEW v \in Processes, NEW h, h = handler[v], NEW k
    PROVE  About(h, k)' <=> About(h, k)
  <1>1. HandlerHolds(h) /\ h.todo \subseteq RequestIds
    BY DEF IInv, TypeOK, Handler, Processes
  <1>2. h.pc \in RequestWritePCs => requests'[h.req].listing = requests[h.req].listing
    BY <1>1 DEF HandlerHolds, RequestPCs, RequestWritePCs, DecidedPCs, Keeps, KeepsRequest
  <1>3. h.pc \in ExchangeWritePCs => exchanges'[h.exch].listing = exchanges[h.exch].listing
    BY <1>1 DEF HandlerHolds, ExchangePCs, ExchangeWritePCs, CompletedPCs, Keeps, KeepsExchange
  <1>4. \A r \in h.todo : requests'[r].listing = requests[r].listing
    BY <1>1 DEF HandlerHolds, Keeps, KeepsRequest
  <1> QED
    BY <1>2, <1>3, <1>4 DEF About

(* The handler at work on k, or one that begins to be, moves on. *)
LEMMA Moves ==
    ASSUME IInv, Keeps, NEW k, Good(k), ~Overlap(k)',
           NEW w \in Processes, NEW h, Become(w, h), WorksOn(w, k) \/ About(h, k)',
           Fits(handler[w], k) => Fits(h, k)'
    PROVE  Good(k)'
  <1>1. \A v \in Processes : handler'[v] = IF v = w THEN h ELSE handler[v]
    BY DEF IInv, TypeOK, Become, Processes
  <1>2. ASSUME NEW v \in Processes, v # w PROVE ~WorksOn(v, k) /\ ~WorksOn(v, k)'
    <2>1. PICK g : g = handler[v]
      OBVIOUS
    <2>2. About(g, k)' <=> About(g, k)
      BY <2>1, AboutKept
    <2>3. handler'[v] = g
      BY <1>1, <1>2, <2>1
    <2>4. WorksOn(v, k)' <=> WorksOn(v, k)
      BY <2>1, <2>2, <2>3 DEF WorksOn, About
    <2>5. CASE WorksOn(w, k)
      BY <1>2, <2>4, <2>5 DEF Good, Overlap
    <2>6. CASE About(h, k)'
      <3>1. WorksOn(w, k)'
        BY <1>1, <2>6 DEF WorksOn, About
      <3> QED BY <1>2, <2>4, <3>1 DEF Overlap
    <2> QED BY <2>5, <2>6
  <1>3. Fits(handler[w], k)
    <2>1. CASE WorksOn(w, k)
      BY <2>1 DEF Good
    <2>2. CASE ~WorksOn(w, k)
      <3>1. Fits(Idle, k)
        BY <1>2, <2>2 DEF Good
      <3> QED BY <2>2, <3>1, NotAbout DEF WorksOn
    <2> QED BY <2>1, <2>2
  <1>4. Fits(h, k)'
    BY <1>3
  <1>5. handler'[w] = h
    BY <1>1
  <1>6. Fits(handler[w], k)'
    BY <1>4, <1>5 DEF Fits, RowsFit, Knows, AtMostOne, StatusFits, WaitersMayHope, OneEach,
       OneForOne, KnowsListing, KnowsRequest, KnowsExchange, Settling, Owing
  <1>7. \A v \in Processes : WorksOn(v, k)' => Fits(handler[v], k)'
    BY <1>2, <1>6
  <1>8. ASSUME ~WorksOn(w, k)' PROVE Fits(Idle, k)'
    <2>1. ~About(h, k)'
      BY <1>5, <1>8 DEF WorksOn, About
    <2> QED BY <1>4, <2>1, NotAboutAfter
  <1> QED
    BY <1>7, <1>8 DEF Good

(* Who is at work on k stays where it is, if anybody is. *)
LEMMA Stays ==
    ASSUME IInv, Keeps, NEW k, Good(k), ~Overlap(k)',
           \A v \in Processes :
               \/ handler'[v] = handler[v]
               \/ ~WorksOn(v, k) /\ ~WorksOn(v, k)',
           \A h : (h = Idle \/ \E v \in Processes : h = handler[v]) /\ Fits(h, k) => Fits(h, k)'
    PROVE  Good(k)'
  <1>1. ASSUME NEW v \in Processes PROVE WorksOn(v, k)' <=> WorksOn(v, k)
    <2>1. CASE handler'[v] = handler[v]
      <3>1. PICK g : g = handler[v]
        OBVIOUS
      <3>2. About(g, k)' <=> About(g, k)
        BY <3>1, AboutKept
      <3> QED BY <2>1, <3>1, <3>2 DEF WorksOn, About
    <2> QED BY <2>1
  <1>2. ASSUME NEW v \in Processes, WorksOn(v, k)' PROVE Fits(handler[v], k)'
    <2>1. PICK g : g = handler[v]
      OBVIOUS
    <2>2. WorksOn(v, k) /\ handler'[v] = g
      BY <1>1, <1>2, <2>1
    <2>3. Fits(g, k)'
      BY <2>1, <2>2 DEF Good
    <2> QED
      BY <2>2, <2>3 DEF Fits, RowsFit, Knows, AtMostOne, StatusFits, WaitersMayHope, OneEach,
         OneForOne, KnowsListing, KnowsRequest, KnowsExchange, Settling, Owing
  <1>3. (\A v \in Processes : ~WorksOn(v, k)') => Fits(Idle, k)'
    <2>1. (\A v \in Processes : ~WorksOn(v, k)) /\ Fits(Idle, k) => Fits(Idle, k)'
      OBVIOUS
    <2> QED BY <1>1, <2>1 DEF Good
  <1> QED
    BY <1>2, <1>3 DEF Good

-----------------------------------------------------------------------------
(* A step of a handler that is not about k: k's rows stay, and the handler *)
(* does not come to be about it.                                           *)

Leaves(w, k) == Same(k) /\ \E h : Become(w, h) /\ ~About(h, k)'

(* Steps that write no row but for logs and ratings. *)
LogStep(w) ==
    \/ RemoveAudit(w) \/ RestoreAudit(w) \/ RequestNotify(w) \/ AcceptNotify(w)
    \/ DeclineNotify(w) \/ ScheduleNotify(w) \/ CompleteAudit(w) \/ CompleteNotify(w)
    \/ CancelAudit(w) \/ RateCheck(w) \/ RateInsert(w)

ListingStep(w) ==
    PatchSave(w) \/ RestoreSave(w) \/ AcceptListing(w) \/ CompleteListing(w) \/ CancelListing(w)

RequestStep(w) ==
    \/ \E r \in RequestIds : RequestInsert(w, r) \/ ExpireRow(w, r)
    \/ RequestCheck(w) \/ AcceptRequest(w) \/ AcceptOthers(w) \/ DeclineRequest(w)

ExchangeStep(w) ==
    \/ \E e \in ExchangeIds : AcceptExchange(w, e)
    \/ CompleteExchange(w) \/ CancelExchange(w)

LEMMA StepKinds ==
    ASSUME NEW w, Step(w)
    PROVE  LogStep(w) \/ ListingStep(w) \/ RequestStep(w) \/ ExchangeStep(w) \/ ScheduleSave(w)
  BY DEF Step, LogStep, ListingStep, RequestStep, ExchangeStep

(* A handler that has only to tell or to log, or is done, is about none.   *)
LEMMA AboutNone ==
    ASSUME NEW h, h.pc \in {"idle", "remove.audit", "restore.audit", "request.notify",
                            "accept.notify", "decline.notify", "schedule.save", "schedule.donor",
                            "schedule.recipient", "complete.audit", "complete.donor",
                            "complete.recipient", "cancel.audit", "rate.check", "rate.insert"}
    PROVE  \A k : ~About(h, k) /\ ~About(h, k)'
  BY DEF About, ListingPCs, RequestWritePCs, ExchangeWritePCs

LEMMA LogLeaves ==
    ASSUME IInv, NEW w \in Processes, LogStep(w), NEW k
    PROVE  Leaves(w, k)
  <1>1. UNCHANGED rows
    BY DEF LogStep, RemoveAudit, RestoreAudit, RequestNotify, AcceptNotify, DeclineNotify,
       ScheduleNotify, TellParties, CompleteAudit, CompleteNotify, CancelAudit, RateCheck,
       RateInsert
  <1>2. \/ Finish(w)
        \/ \E pc \in {"schedule.recipient", "complete.donor", "complete.recipient",
                      "rate.insert"} : Goto(w, pc)
    BY DEF LogStep, RemoveAudit, RestoreAudit, RequestNotify, AcceptNotify, DeclineNotify,
       ScheduleNotify, TellParties, CompleteAudit, CompleteNotify, CancelAudit, RateCheck,
       RateInsert
  <1>3. CASE Finish(w)
    <2>1. ~About(Idle, k)'
      BY AboutNone DEF Idle
    <2> QED BY <1>1, <1>3, <2>1, SameRows DEF Finish, Leaves
  <1>4. ASSUME NEW pc \in {"schedule.recipient", "complete.donor", "complete.recipient",
                           "rate.insert"}, Goto(w, pc)
        PROVE  Leaves(w, k)
    <2>1. PICK h : h = [handler[w] EXCEPT !.pc = pc]
      OBVIOUS
    <2>2. h.pc = pc
      BY <2>1 DEF IInv, TypeOK, Handler, Processes
    <2>3. ~About(h, k)'
      BY <2>2, AboutNone
    <2> QED BY <1>1, <1>4, <2>1, <2>3, SameRows DEF Goto, Leaves
  <1> QED
    BY <1>2, <1>3, <1>4

LEMMA ListingLeaves ==
    ASSUME IInv, NEW w \in Processes, ListingStep(w), NEW k \in Listings, ~WorksOn(w, k)
    PROVE  Leaves(w, k)
  <1>0. listings \in [Listings -> ListingRow] /\ handler[w] \in Handler
    BY DEF IInv, TypeOK, Processes
  <1>1. UNCHANGED <<requests, exchanges>>
    BY DEF ListingStep, PatchSave, RestoreSave, AcceptListing, CompleteListing, CancelListing
  <1>2. ASSUME NEW l, l # k, NEW s, SetListing(l, s) \/ UNCHANGED listings PROVE Same(k)
    BY <1>0, <1>1, <1>2 DEF SetListing, Same, SameRequest, SameExchange
  <1>3. ASSUME NEW pc, Goto(w, pc), pc \in {"restore.audit", "complete.audit", "complete.donor",
                                            "cancel.audit"}
        PROVE  \E h : Become(w, h) /\ ~About(h, k)'
    <2>1. PICK h : h = [handler[w] EXCEPT !.pc = pc]
      OBVIOUS
    <2>2. h.pc = pc
      BY <1>0, <2>1 DEF Handler
    <2>3. ~About(h, k)'
      BY <1>3, <2>2, AboutNone
    <2> QED BY <1>3, <2>1, <2>3 DEF Goto
  <1>4. ASSUME Finish(w) PROVE \E h : Become(w, h) /\ ~About(h, k)'
    BY <1>4, AboutNone DEF Finish, Idle
  <1>5. CASE PatchSave(w)
    <2>1. handler[w].lst # k
      BY <1>5 DEF PatchSave, At, WorksOn, About, ListingPCs
    <2> QED BY <1>2, <1>4, <1>5, <2>1 DEF PatchSave, Leaves
  <1>6. CASE RestoreSave(w)
    <2>1. handler[w].lst # k
      BY <1>6 DEF RestoreSave, At, WorksOn, About, ListingPCs
    <2>2. Same(k)
      BY <1>2, <1>6, <2>1 DEF RestoreSave
    <2>3. Goto(w, "restore.audit")
      BY <1>6 DEF RestoreSave
    <2> QED BY <1>3, <2>2, <2>3 DEF Leaves
  <1>7. CASE AcceptListing(w)
    <2>1. requests[handler[w].req].listing # k
      BY <1>7 DEF AcceptListing, At, WorksOn, About, RequestWritePCs
    <2>2. Same(k)
      BY <1>2, <1>7, <2>1 DEF AcceptListing, MarkPending, SetListing
    <2>3. PICK h : h = [handler[w] EXCEPT !.pc = "accept.exchange"]
      OBVIOUS
    <2>4. h.pc = "accept.exchange" /\ h.req = handler[w].req
      BY <1>0, <2>3 DEF Handler
    <2>5. ~About(h, k)'
      BY <1>1, <2>1, <2>4 DEF About, ListingPCs, RequestWritePCs, ExchangeWritePCs
    <2> QED BY <1>7, <2>2, <2>3, <2>5 DEF AcceptListing, Goto, Leaves
  <1>8. CASE CompleteListing(w)
    <2>1. exchanges[handler[w].exch].listing # k
      BY <1>8 DEF CompleteListing, At, WorksOn, About, ExchangeWritePCs
    <2>2. Same(k)
      BY <1>2, <1>8, <2>1 DEF CompleteListing, MarkClaimed
    <2>3. PICK pc \in {"complete.audit", "complete.donor"} : Goto(w, pc)
      BY <1>8 DEF CompleteListing
    <2> QED BY <1>3, <2>2, <2>3 DEF Leaves
  <1>9. CASE CancelListing(w)
    <2>1. exchanges[handler[w].exch].listing # k
      BY <1>9 DEF CancelListing, At, WorksOn, About, ExchangeWritePCs
    <2>2. Same(k)
      BY <1>2, <1>9, <2>1 DEF CancelListing, RevertToAvailable, SetListing
    <2>3. Finish(w) \/ Goto(w, "cancel.audit")
      BY <1>9 DEF CancelListing
    <2> QED BY <1>3, <1>4, <2>2, <2>3 DEF Leaves
  <1> QED
    BY <1>5, <1>6, <1>7, <1>8, <1>9 DEF ListingStep

LEMMA RequestLeaves ==
    ASSUME IInv, Keeps, UnbornAreBlank, NEW w \in Processes, RequestStep(w),
           NEW k \in Listings, ~WorksOn(w, k)
    PROVE  Leaves(w, k)
  <1>0. /\ requests \in [RequestIds -> RequestRow] /\ handler[w] \in Handler
        /\ HandlerHolds(handler[w]) /\ k # None
    BY NoneAssumption DEF IInv, TypeOK, Processes
  <1>1. UNCHANGED <<listings, exchanges>>
    BY DEF RequestStep, RequestInsert, ExpireRow, RequestCheck, AcceptRequest, AcceptOthers,
       DeclineRequest, rows
  <1>2. ASSUME NEW q, requests[q].listing # k, NEW s, SetRequest(q, s) PROVE Same(k)
    BY <1>0, <1>1, <1>2 DEF SetRequest, Same, SameRequest, SameExchange, RequestRow
  <1>3. ASSUME NEW pc, Goto(w, pc),
               \/ pc \in {"accept.notify", "decline.notify"}
               \/ pc = "request.insert" /\ handler[w].lst # k
               \/ pc = "accept.listing" /\ requests'[handler[w].req].listing # k
        PROVE  \E h : Become(w, h) /\ ~About(h, k)'
    <2>1. PICK h : h = [handler[w] EXCEPT !.pc = pc]
      OBVIOUS
    <2>2. h.pc = pc /\ h.req = handler[w].req /\ h.lst = handler[w].lst
      BY <1>0, <2>1 DEF Handler
    <2>3. ~About(h, k)'
      BY <1>3, <2>2 DEF About, ListingPCs, RequestWritePCs, ExchangeWritePCs
    <2> QED BY <1>3, <2>1, <2>3 DEF Goto
  <1>4. ASSUME Finish(w) PROVE \E h : Become(w, h) /\ ~About(h, k)'
    BY <1>4, AboutNone DEF Finish, Idle
  <1>5. ASSUME NEW r \in RequestIds, RequestInsert(w, r) PROVE Leaves(w, k)
    <2>1. handler[w].lst # k
      BY <1>5 DEF RequestInsert, At, WorksOn, About, ListingPCs
    <2>2. requests[r].listing # k /\ requests'[r].listing # k
      BY <1>0, <1>5, <2>1 DEF RequestInsert, UnbornAreBlank
    <2>3. Same(k)
      BY <1>0, <1>1, <1>5, <2>2 DEF RequestInsert, Same, SameRequest, SameExchange
    <2>4. PICK h : h = [handler[w] EXCEPT !.pc = "request.notify", !.req = r]
      OBVIOUS
    <2>5. h.pc = "request.notify"
      BY <1>0, <2>4 DEF Handler
    <2>6. ~About(h, k)'
      BY <2>5, AboutNone
    <2> QED BY <1>5, <2>3, <2>4, <2>6 DEF RequestInsert, Leaves
  <1>6. ASSUME NEW r \in RequestIds, ExpireRow(w, r) PROVE Leaves(w, k)
    <2>1. r \in handler[w].todo /\ \A q \in handler[w].todo : requests[q].listing # k
      BY <1>6 DEF ExpireRow, At, WorksOn, About
    <2>2. Same(k)
      BY <1>2, <1>6, <2>1 DEF ExpireRow
    <2>3. \A q \in handler[w].todo : requests'[q].listing # k
      BY <1>0, <2>1 DEF HandlerHolds, Keeps, KeepsRequest, Handler
    <2>4. CASE handler[w].todo \ {r} = {}
      BY <1>4, <1>6, <2>2, <2>4 DEF ExpireRow, Leaves
    <2>5. CASE handler[w].todo \ {r} # {}
      <3>1. PICK h : h = [handler[w] EXCEPT !.todo = handler[w].todo \ {r},
                !.wasOpen = handler[w].wasOpen \cap (handler[w].todo \ {r})]
        OBVIOUS
      <3>2. h.pc = "expire.row" /\ h.todo = handler[w].todo \ {r}
        BY <1>0, <1>6, <3>1 DEF Handler, ExpireRow, At
      <3>3. ~About(h, k)'
        BY <2>3, <3>2 DEF About, ListingPCs, RequestWritePCs, ExchangeWritePCs
      <3>4. Become(w, h)
        BY <1>6, <2>5, <3>1 DEF ExpireRow
      <3> QED BY <2>2, <3>3, <3>4 DEF Leaves
    <2> QED BY <2>4, <2>5
  <1>7. CASE RequestCheck(w)
    <2>1. handler[w].lst # k
      BY <1>7 DEF RequestCheck, At, WorksOn, About, ListingPCs
    <2> QED BY <1>3, <1>4, <1>7, <2>1, SameRows DEF RequestCheck, Leaves
  <1>8. CASE AcceptRequest(w) \/ DeclineRequest(w)
    <2>1. requests[handler[w].req].listing # k /\ handler[w].req \in RequestIds
          /\ requests[handler[w].req].status # "unborn"
      BY <1>0, <1>8 DEF AcceptRequest, DeclineRequest, At, WorksOn, About, RequestWritePCs,
         HandlerHolds, RequestPCs
    <2>2. Same(k)
      BY <1>2, <1>8, <2>1 DEF AcceptRequest, DeclineRequest
    <2>3. requests'[handler[w].req].listing # k
      BY <2>1 DEF Keeps, KeepsRequest
    <2> QED BY <1>3, <1>8, <2>2, <2>3 DEF AcceptRequest, DeclineRequest, Leaves
  <1>9. CASE AcceptOthers(w)
    <2>1. requests[handler[w].req].listing # k
      BY <1>9 DEF AcceptOthers, At, WorksOn, About, RequestWritePCs
    <2>2. Same(k)
      BY <1>0, <1>1, <1>9, <2>1 DEF AcceptOthers, Moot, Same, SameRequest, SameExchange, RequestRow
    <2> QED BY <1>3, <1>9, <2>2 DEF AcceptOthers, Leaves
  <1> QED
    BY <1>5, <1>6, <1>7, <1>8, <1>9 DEF RequestStep

LEMMA ExchangeLeaves ==
    ASSUME IInv, UnbornAreBlank, NEW w \in Processes, ExchangeStep(w) \/ ScheduleSave(w),
           NEW k \in Listings, ~WorksOn(w, k)
    PROVE  Leaves(w, k)
  <1>0. /\ exchanges \in [ExchangeIds -> ExchangeRow] /\ handler[w] \in Handler
        /\ k # None
    BY NoneAssumption DEF IInv, TypeOK, Processes
  <1>1. UNCHANGED <<listings, requests>>
    BY DEF ExchangeStep, AcceptExchange, CompleteExchange, CancelExchange, ScheduleSave
  <1>2. ASSUME NEW e \in ExchangeIds, AcceptExchange(w, e) PROVE Leaves(w, k)
    <2>1. requests[handler[w].req].listing # k
      BY <1>2 DEF AcceptExchange, At, WorksOn, About, RequestWritePCs
    <2>2. exchanges[e].listing # k /\ exchanges'[e].listing # k
      BY <1>0, <1>2, <2>1 DEF AcceptExchange, UnbornAreBlank
    <2>3. Same(k)
      BY <1>0, <1>1, <1>2, <2>2 DEF AcceptExchange, Same, SameRequest, SameExchange
    <2>4. PICK h : h = [handler[w] EXCEPT !.pc = "accept.others", !.exch = e]
      OBVIOUS
    <2>5. h.pc = "accept.others" /\ h.req = handler[w].req
      BY <1>0, <2>4 DEF Handler
    <2>6. ~About(h, k)'
      BY <1>1, <2>1, <2>5 DEF About, ListingPCs, RequestWritePCs, ExchangeWritePCs
    <2> QED BY <1>2, <2>3, <2>4, <2>6 DEF AcceptExchange, Leaves
  <1>3. CASE CompleteExchange(w) \/ CancelExchange(w)
    <2>1. PICK x : x = handler[w].exch
      OBVIOUS
    <2>2. exchanges[x].listing # k
      BY <1>3, <2>1 DEF CompleteExchange, CancelExchange, At, WorksOn, About, ExchangeWritePCs
    <2>3. \A e \in ExchangeIds : exchanges'[e].listing = exchanges[e].listing
                                 /\ (e # x => exchanges'[e] = exchanges[e])
      BY <1>0, <1>3, <2>1 DEF CompleteExchange, CancelExchange, ExchangeRow
    <2>4. Same(k)
      BY <1>1, <2>2, <2>3 DEF Same, SameRequest, SameExchange
    <2>5. PICK pc \in {"complete.listing", "cancel.listing"} : Goto(w, pc)
      BY <1>3 DEF CompleteExchange, CancelExchange
    <2>6. PICK h : h = [handler[w] EXCEPT !.pc = pc]
      OBVIOUS
    <2>7. h.pc = pc /\ h.exch = x
      BY <1>0, <2>1, <2>6 DEF Handler
    <2>8. exchanges'[x].listing # k
      <3>1. x \in ExchangeIds
        BY <1>3, <2>1 DEF CompleteExchange, CancelExchange, At, IInv, HandlerHolds, ExchangePCs,
           Processes
      <3> QED BY <2>2, <2>3, <3>1
    <2>9. ~About(h, k)'
      BY <2>7, <2>8 DEF About, ListingPCs, RequestWritePCs, ExchangeWritePCs
    <2> QED BY <2>4, <2>5, <2>6, <2>9 DEF Goto, Leaves
  <1>4. CASE ScheduleSave(w)
    <2>1. \A e \in ExchangeIds : /\ exchanges'[e].status = exchanges[e].status
                                 /\ exchanges'[e].listing = exchanges[e].listing
                                 /\ exchanges'[e].recipient = exchanges[e].recipient
      BY <1>0, <1>4 DEF ScheduleSave, ExchangeRow
    <2>2. Same(k)
      BY <1>1, <2>1 DEF Same, SameRequest, SameExchange
    <2>3. PICK h : h = [handler[w] EXCEPT !.pc = "schedule.donor"]
      OBVIOUS
    <2>4. h.pc = "schedule.donor"
      BY <1>0, <2>3 DEF Handler
    <2>5. ~About(h, k)'
      BY <2>4, AboutNone
    <2> QED BY <1>4, <2>2, <2>3, <2>5 DEF ScheduleSave, Goto, Leaves
  <1> QED
    BY <1>2, <1>3, <1>4 DEF ExchangeStep

(* All of them. *)
LEMMA StepElsewhere ==
    ASSUME IInv, Keeps, UnbornAreBlank, NEW w \in Processes, Step(w),
           NEW k \in Listings, ~WorksOn(w, k)
    PROVE  Leaves(w, k)
  BY StepKinds, LogLeaves, ListingLeaves, RequestLeaves, ExchangeLeaves


-----------------------------------------------------------------------------
(* A step of the handler that is at work on k: what fits the handler fits  *)
(* what becomes of it.                                                     *)

GoesOn(w, k) == \E h : Become(w, h) /\ Fits(h, k)'

SettlingPCs == {"accept.exchange", "complete.listing", "cancel.listing"}
OwedPCs == {"accept.listing", "accept.exchange"}

(* Writes of the listing. *)
LEMMA ListingHere ==
    ASSUME IInv, NEW w \in Processes, ListingStep(w), NEW k \in Listings, WorksOn(w, k),
           ~Reopens(k), Fits(handler[w], k)
    PROVE  GoesOn(w, k)
  <1> PICK g : g = handler[w]
    OBVIOUS
  <1>0. /\ listings \in [Listings -> ListingRow] /\ g \in Handler /\ HandlerHolds(g)
        /\ RowsFit(g, k) /\ Knows(g, k)
    BY DEF IInv, TypeOK, Fits
  <1>1. UNCHANGED <<requests, exchanges>> /\ g.pc # "accept.others"
    BY DEF At, ListingStep, PatchSave, RestoreSave, AcceptListing, CompleteListing, CancelListing
  <1>2. /\ Open(k)' = Open(k) /\ Done(k)' = Done(k) /\ Bound(k)' = Bound(k)
        /\ Free(k)' <=> Free(k)
        /\ \A u : /\ AcceptedOf(k, u)' = AcceptedOf(k, u) /\ PendingOf(k, u)' = PendingOf(k, u)
                  /\ GivenTo(k, u)' = GivenTo(k, u)
        /\ \A r : Waits(r, k)' <=> Waits(r, k)
    BY <1>1 DEF Open, Done, Bound, Free, ExchangesOf, GivenTo, AcceptedOf, PendingOf, Waits
  <1>3. ASSUME NEW h, Become(w, h), StatusFits(h, k)', Knows(h, k)',
               \A u : Owing(h, k, u)' <=> Owing(g, k, u)
        PROVE  GoesOn(w, k)
    <2>1. AtMostOne(k)' /\ OneEach(k)'
      BY <1>0, <1>2 DEF RowsFit, AtMostOne, OneEach
    <2>2. WaitersMayHope(h, k)'
      BY <1>0, <1>1, <1>2 DEF RowsFit, WaitersMayHope
    <2>3. OneForOne(h, k)'
      BY <1>0, <1>2, <1>3 DEF RowsFit, OneForOne
    <2> QED BY <1>3, <2>1, <2>2, <2>3 DEF GoesOn, Fits, RowsFit
  <1>4. ASSUME NEW h, Become(w, h), h.pc \in {"idle", "restore.audit", "complete.audit",
                                              "complete.donor", "cancel.audit"},
               StatusFits(h, k)', g.pc \notin OwedPCs
        PROVE  GoesOn(w, k)
    <2>1. ~About(h, k)'
      BY <1>4, AboutNone
    <2>2. Knows(h, k)' /\ \A u : ~Owing(h, k, u)' /\ ~Owing(g, k, u)
      BY <1>4, <2>1, KnowsNothing DEF Owing, OwedPCs
    <2> QED BY <1>3, <1>4, <2>2
  <1>5. CASE PatchSave(w)
    <2>1. g.pc = "patch.save" /\ g.lst = k
      BY <1>5 DEF PatchSave, At, WorksOn, About, RequestWritePCs, ExchangeWritePCs
    <2>2. listings'[k].status = g.seen
      BY <1>0, <1>5, <2>1 DEF PatchSave, SetListing, ListingRow
    <2>3. StatusFits(Idle, k)'
      BY <1>0, <1>2, <2>1, <2>2 DEF StatusFits, Knows, KnowsListing
    <2> QED BY <1>4, <1>5, <2>1, <2>3 DEF PatchSave, Finish, Idle, OwedPCs
  <1>6. CASE RestoreSave(w)
    <2>1. g.pc = "restore.save" /\ g.lst = k
      BY <1>6 DEF RestoreSave, At, WorksOn, About, RequestWritePCs, ExchangeWritePCs
    <2>2. Free(k) /\ listings'[k].status = "available"
      BY <1>0, <1>6, <2>1 DEF RestoreSave, SetListing, ListingRow, Reopens
    <2>3. PICK h : h = [g EXCEPT !.pc = "restore.audit"]
      OBVIOUS
    <2>4. h.pc = "restore.audit" /\ Become(w, h)
      BY <1>0, <1>6, <2>3 DEF Handler, RestoreSave, Goto
    <2>5. StatusFits(h, k)'
      BY <1>2, <2>2 DEF StatusFits
    <2> QED BY <1>4, <2>1, <2>4, <2>5 DEF OwedPCs
  <1>7. CASE AcceptListing(w)
    <2>1. g.pc = "accept.listing" /\ requests[g.req].listing = k
      BY <1>7 DEF AcceptListing, At, WorksOn, About, ListingPCs, ExchangeWritePCs
    <2>2. PICK h : h = [g EXCEPT !.pc = "accept.exchange"]
      OBVIOUS
    <2>3. h.pc = "accept.exchange" /\ h.req = g.req /\ Become(w, h)
      BY <1>0, <1>7, <2>2 DEF Handler, AcceptListing, Goto
    <2>4. Free(k) /\ (g.seen = "available" \/ listings[k].status # "available")
      BY <1>0, <2>1 DEF Knows, KnowsRequest
    <2>5. /\ listings'[k].status # "available"
          /\ listings'[k].status = "claimed" => listings[k].status = "claimed"
      BY <1>0, <1>7, <2>1, <2>4 DEF AcceptListing, MarkPending, ListingRow
    <2>6. StatusFits(h, k)'
      BY <1>0, <1>1, <1>2, <2>1, <2>3, <2>5 DEF RowsFit, StatusFits, Settling
    <2>7. Knows(h, k)'
      BY <1>1, <1>2, <2>3, <2>4, <2>5 DEF Knows, KnowsListing, KnowsRequest, KnowsExchange
    <2>8. \A u : Owing(h, k, u)' <=> Owing(g, k, u)
      BY <1>1, <2>1, <2>3 DEF Owing
    <2> QED BY <1>3, <2>3, <2>6, <2>7, <2>8
  <1>8. CASE CompleteListing(w)
    <2>1. g.pc = "complete.listing" /\ exchanges[g.exch].listing = k
      BY <1>8 DEF CompleteListing, At, WorksOn, About, ListingPCs, RequestWritePCs
    <2>2. PICK pc \in {"complete.audit", "complete.donor"} : Goto(w, pc)
      BY <1>8 DEF CompleteListing
    <2>3. PICK h : h = [g EXCEPT !.pc = pc]
      OBVIOUS
    <2>4. h.pc = pc /\ Become(w, h)
      BY <1>0, <2>2, <2>3 DEF Handler, Goto
    <2>5. g.exch \in Done(k)
      BY <1>0, <2>1 DEF Knows, KnowsExchange, HandlerHolds, ExchangePCs, CompletedPCs, Done,
         ExchangesOf
    <2>6. listings'[k].status = "claimed"
      BY <1>0, <1>8, <2>1 DEF CompleteListing, MarkClaimed, SetListing, ListingRow
    <2>7. StatusFits(h, k)'
      BY <1>2, <2>5, <2>6 DEF StatusFits
    <2>8. g.pc \notin OwedPCs
      BY <2>1 DEF OwedPCs
    <2> QED BY <1>4, <2>2, <2>4, <2>7, <2>8
  <1>9. CASE CancelListing(w)
    <2>1. g.pc = "cancel.listing" /\ exchanges[g.exch].listing = k
      BY <1>9 DEF CancelListing, At, WorksOn, About, ListingPCs, RequestWritePCs
    <2>2. PICK h : Become(w, h) /\ h \in {Idle, [g EXCEPT !.pc = "cancel.audit"]}
      BY <1>9 DEF CancelListing, Goto, Finish
    <2>3. h.pc \in {"idle", "cancel.audit"}
      BY <1>0, <2>2 DEF Idle, Handler
    <2>4. Free(k) /\ (Settling(g, k) <=> g.seen = "pending")
      BY <1>0, <2>1 DEF Knows, KnowsExchange, Settling
    <2>5. listings'[k].status = IF g.seen = "pending" THEN "available" ELSE listings[k].status
      BY <1>0, <1>9, <2>1 DEF CancelListing, RevertToAvailable, ListingRow
    <2>6. StatusFits(h, k)'
      BY <1>0, <1>2, <2>4, <2>5 DEF RowsFit, StatusFits
    <2> QED BY <1>4, <2>1, <2>2, <2>3, <2>6 DEF OwedPCs
  <1> QED
    BY <1>5, <1>6, <1>7, <1>8, <1>9 DEF ListingStep

(* A write of requests of k after which nobody waits who did not, and the  *)
(* same ones are accepted.                                                 *)
RequestsLeave(k) ==
    /\ UNCHANGED <<listings, exchanges>>
    /\ \A r \in RequestIds : requests'[r].listing = k \/ requests[r].listing = k =>
          /\ requests'[r].listing = requests[r].listing
          /\ requests'[r].requester = requests[r].requester
          /\ requests'[r].status = "pending" => requests[r].status = "pending"
          /\ requests'[r].status = "accepted" <=> requests[r].status = "accepted"

LEMMA RequestsLeaveFits ==
    ASSUME NEW k, RequestsLeave(k), NEW g, NEW h, RowsFit(g, k),
           g.pc \notin SettlingPCs \cup OwedPCs, h.pc \notin SettlingPCs \cup OwedPCs,
           g.pc # "accept.others" \/ \A r \in RequestIds : ~Waits(r, k)'
    PROVE  RowsFit(h, k)'
  <1>1. /\ Open(k)' = Open(k) /\ Done(k)' = Done(k) /\ Bound(k)' = Bound(k)
        /\ Free(k)' <=> Free(k)
        /\ \A u : GivenTo(k, u)' = GivenTo(k, u)
        /\ listings' = listings
    BY DEF RequestsLeave, Open, Done, Bound, Free, ExchangesOf, GivenTo
  <1>2. /\ \A u : AcceptedOf(k, u)' = AcceptedOf(k, u) /\ PendingOf(k, u)' \subseteq PendingOf(k, u)
        /\ \A r \in RequestIds : Waits(r, k)' => Waits(r, k)
    BY DEF RequestsLeave, AcceptedOf, PendingOf, Waits
  <1>3. /\ ~Settling(g, k) /\ ~Settling(h, k)'
        /\ \A u : ~Owing(g, k, u) /\ ~Owing(h, k, u)'
    BY DEF Settling, Owing, SettlingPCs, OwedPCs
  <1>4. StatusFits(h, k)'
    BY <1>1, <1>3 DEF RowsFit, StatusFits
  <1>5. WaitersMayHope(h, k)'
    BY <1>1, <1>2 DEF RowsFit, WaitersMayHope
  <1>6. AtMostOne(k)' /\ OneEach(k)'
    BY <1>1, <1>2 DEF RowsFit, AtMostOne, OneEach
  <1>7. OneForOne(h, k)'
    BY <1>1, <1>2, <1>3 DEF RowsFit, OneForOne
  <1> QED
    BY <1>4, <1>5, <1>6, <1>7 DEF RowsFit

(* Who asks joins nobody: the check found no request of this reader.       *)
LEMMA InsertHere ==
    ASSUME IInv, UnbornAreBlank, NEW w \in Processes, NEW r \in RequestIds, RequestInsert(w, r),
           NEW k \in Listings, WorksOn(w, k), Fits(handler[w], k)
    PROVE  GoesOn(w, k)
  <1> PICK g : g = handler[w]
    OBVIOUS
  <1>0. /\ requests \in [RequestIds -> RequestRow] /\ g \in Handler /\ k # None
        /\ RowsFit(g, k) /\ Knows(g, k)
    BY NoneAssumption DEF IInv, TypeOK, Fits
  <1>1. g.pc = "request.insert" /\ g.lst = k /\ UNCHANGED <<listings, exchanges>>
    BY DEF RequestInsert, At, WorksOn, About, RequestWritePCs, ExchangeWritePCs
  <1>2. /\ Open(k)' = Open(k) /\ Done(k)' = Done(k) /\ Bound(k)' = Bound(k)
        /\ Free(k)' <=> Free(k)
        /\ \A u : GivenTo(k, u)' = GivenTo(k, u)
    BY <1>1 DEF Open, Done, Bound, Free, ExchangesOf, GivenTo
  <1>3. Free(k) /\ PendingOf(k, g.user) = {}
    BY <1>0, <1>1 DEF Knows, KnowsListing
  <1>4. /\ requests[r].listing # k
        /\ requests'[r].status = "pending" /\ requests'[r].requester = g.user
        /\ \A q \in RequestIds \ {r} : requests'[q] = requests[q]
    BY <1>0 DEF RequestInsert, UnbornAreBlank
  <1>5. \A u : /\ AcceptedOf(k, u)' = AcceptedOf(k, u)
               /\ PendingOf(k, u)' \subseteq PendingOf(k, u) \cup {r}
               /\ u # g.user => PendingOf(k, u)' \subseteq PendingOf(k, u)
    BY <1>4 DEF AcceptedOf, PendingOf
  <1>6. OneEach(k)'
    <2> SUFFICES ASSUME NEW u \in Users, NEW p \in PendingOf(k, u)', NEW q \in PendingOf(k, u)'
                 PROVE  p = q
      BY DEF OneEach
    <2>1. CASE u = g.user
      BY <1>3, <1>5, <2>1
    <2>2. CASE u # g.user
      BY <1>0, <1>5, <2>2 DEF RowsFit, OneEach
    <2> QED BY <2>1, <2>2
  <1>7. PICK h : h = [g EXCEPT !.pc = "request.notify", !.req = r]
    OBVIOUS
  <1>8. h.pc = "request.notify" /\ Become(w, h)
    BY <1>0, <1>7 DEF Handler, RequestInsert
  <1>9. ~About(h, k)'
    BY <1>8, AboutNone
  <1>10. Knows(h, k)' /\ ~Settling(h, k)' /\ \A u : ~Owing(h, k, u)'
    BY <1>9, KnowsNothing
  <1>11. ~Settling(g, k) /\ \A u : ~Owing(g, k, u)
    BY <1>1 DEF Settling, Owing
  <1>12. AtMostOne(k)' /\ StatusFits(h, k)' /\ WaitersMayHope(h, k)'
    BY <1>0, <1>1, <1>2, <1>3, <1>10, <1>11 DEF RowsFit, AtMostOne, StatusFits, WaitersMayHope
  <1>13. OneForOne(h, k)'
    BY <1>0, <1>2, <1>5, <1>10, <1>11 DEF RowsFit, OneForOne
  <1> QED
    BY <1>6, <1>8, <1>10, <1>12, <1>13 DEF GoesOn, Fits, RowsFit

(* The one request that is accepted is the one whose exchange is owing.    *)
LEMMA AcceptHere ==
    ASSUME IInv, NEW w \in Processes, AcceptRequest(w),
           NEW k \in Listings, WorksOn(w, k), Fits(handler[w], k)
    PROVE  GoesOn(w, k)
  <1> PICK g : g = handler[w]
    OBVIOUS
  <1>0. /\ requests \in [RequestIds -> RequestRow] /\ g \in Handler /\ HandlerHolds(g)
        /\ RowsFit(g, k) /\ Knows(g, k)
    BY DEF IInv, TypeOK, Fits
  <1>1. /\ g.pc = "accept.request" /\ requests[g.req].listing = k
        /\ UNCHANGED <<listings, exchanges>>
    BY DEF AcceptRequest, At, WorksOn, About, ListingPCs, ExchangeWritePCs
  <1>2. PICK r : r = g.req
    OBVIOUS
  <1>3. r \in RequestIds /\ requests[r].status = "pending" /\ Free(k)
        /\ (g.seen = "available" \/ listings[k].status # "available")
    BY <1>0, <1>1, <1>2 DEF Knows, KnowsRequest, HandlerHolds, RequestPCs
  <1>4. PICK u : u = requests[r].requester
    OBVIOUS
  <1>5. /\ requests'[r].status = "accepted" /\ requests'[r].listing = k
        /\ requests'[r].requester = u
        /\ \A q \in RequestIds \ {r} : requests'[q] = requests[q]
    BY <1>0, <1>1, <1>2, <1>3, <1>4 DEF AcceptRequest, SetRequest, RequestRow
  <1>6. /\ Open(k)' = Open(k) /\ Done(k)' = Done(k) /\ Bound(k)' = Bound(k)
        /\ Free(k)' <=> Free(k)
        /\ \A v : GivenTo(k, v)' = GivenTo(k, v)
    BY <1>1 DEF Open, Done, Bound, Free, ExchangesOf, GivenTo
  <1>7. PICK h : h = [g EXCEPT !.pc = "accept.listing"]
    OBVIOUS
  <1>8. h.pc = "accept.listing" /\ h.req = r /\ h.seen = g.seen /\ Become(w, h)
    BY <1>0, <1>2, <1>7 DEF Handler, AcceptRequest, Goto
  <1>9. AtMostOne(k)' /\ StatusFits(h, k)' /\ WaitersMayHope(h, k)'
    BY <1>0, <1>1, <1>3, <1>6, <1>8 DEF RowsFit, AtMostOne, StatusFits, WaitersMayHope, Settling
  <1>10. OneEach(k)'
    <2>1. \A v : PendingOf(k, v)' \subseteq PendingOf(k, v)
      BY <1>5 DEF PendingOf
    <2> QED BY <1>0, <2>1 DEF RowsFit, OneEach
  <1>11. OneForOne(h, k)'
    <2> SUFFICES ASSUME FiniteRows, NEW v \in Users
                 PROVE  Cardinality(AcceptedOf(k, v)')
                           = IF Owing(h, k, v)' THEN Cardinality(GivenTo(k, v)) + 1
                                                ELSE Cardinality(GivenTo(k, v))
      BY <1>6 DEF OneForOne
    <2>1. Cardinality(AcceptedOf(k, v)) = Cardinality(GivenTo(k, v))
      BY <1>0, <1>1 DEF RowsFit, OneForOne, Owing
    <2>2. Owing(h, k, v)' <=> v = u
      BY <1>5, <1>8 DEF Owing
    <2>3. CASE v = u
      <3>1. AcceptedOf(k, v)' = AcceptedOf(k, v) \cup {r} /\ r \notin AcceptedOf(k, v)
        BY <1>3, <1>5, <2>3 DEF AcceptedOf
      <3>2. IsFiniteSet(AcceptedOf(k, v))
        BY FS_Subset DEF FiniteRows, AcceptedOf
      <3>3. Cardinality(AcceptedOf(k, v) \cup {r}) = Cardinality(AcceptedOf(k, v)) + 1
        BY <3>1, <3>2, FS_AddElement
      <3> QED BY <2>1, <2>2, <2>3, <3>1, <3>3
    <2>4. CASE v # u
      <3>1. AcceptedOf(k, v)' = AcceptedOf(k, v)
        BY <1>3, <1>4, <1>5, <2>4 DEF AcceptedOf
      <3> QED BY <2>1, <2>2, <2>4, <3>1
    <2> QED BY <2>3, <2>4
  <1>12. Knows(h, k)'
    BY <1>1, <1>3, <1>6, <1>8 DEF Knows, KnowsListing, KnowsRequest, KnowsExchange
  <1> QED
    BY <1>8, <1>9, <1>10, <1>11, <1>12 DEF GoesOn, Fits, RowsFit

(* The other writes of requests, and the check. *)
LEMMA RequestHere ==
    ASSUME IInv, UnbornAreBlank, NEW w \in Processes, RequestStep(w),
           NEW k \in Listings, WorksOn(w, k), Fits(handler[w], k)
    PROVE  GoesOn(w, k)
  <1> PICK g : g = handler[w]
    OBVIOUS
  <1>0. /\ requests \in [RequestIds -> RequestRow] /\ g \in Handler /\ HandlerHolds(g)
        /\ RowsFit(g, k) /\ Knows(g, k)
    BY DEF IInv, TypeOK, Fits
  <1>1. ASSUME NEW h, Become(w, h), ~About(h, k)', RequestsLeave(k),
               g.pc \notin SettlingPCs \cup OwedPCs, h.pc \notin SettlingPCs \cup OwedPCs,
               g.pc # "accept.others" \/ \A r \in RequestIds : ~Waits(r, k)'
        PROVE  GoesOn(w, k)
    <2>1. RowsFit(h, k)' /\ Knows(h, k)'
      BY <1>0, <1>1, RequestsLeaveFits, KnowsNothing
    <2> QED BY <1>1, <2>1 DEF GoesOn, Fits
  <1>2. CASE RequestCheck(w)
    <2>1. g.pc = "request.check" /\ g.lst = k /\ UNCHANGED rows
      BY <1>2 DEF RequestCheck, At, WorksOn, About, RequestWritePCs, ExchangeWritePCs
    <2>2. RequestsLeave(k)
      BY <2>1 DEF RequestsLeave, rows
    <2>3. CASE Finish(w)
      BY <1>1, <2>1, <2>2, <2>3, IdleIsAboutNone DEF Finish, Idle, SettlingPCs, OwedPCs
    <2>4. CASE ~Finish(w)
      <3>1. Goto(w, "request.insert") /\ PendingOf(k, g.user) = {}
        BY <1>2, <2>1, <2>4 DEF RequestCheck
      <3>2. PICK h : h = [g EXCEPT !.pc = "request.insert"]
        OBVIOUS
      <3>3. /\ h.pc = "request.insert" /\ h.lst = k /\ h.user = g.user
            /\ Become(w, h)
        BY <1>0, <2>1, <3>1, <3>2 DEF Handler, Goto
      <3>4. RowsFit(h, k)'
        BY <1>0, <2>1, <2>2, <3>3, RequestsLeaveFits DEF SettlingPCs, OwedPCs
      <3>5. Free(k)' /\ PendingOf(k, g.user)' = {}
        BY <1>0, <2>1, <3>1 DEF Knows, KnowsListing, Free, Bound, Open, Done, ExchangesOf,
           PendingOf, rows
      <3>6. Knows(h, k)'
        BY <3>3, <3>5 DEF Knows, KnowsListing, KnowsRequest, KnowsExchange
      <3> QED BY <3>3, <3>4, <3>6 DEF GoesOn, Fits
    <2> QED BY <2>3, <2>4
  <1>3. CASE AcceptOthers(w)
    <2>1. g.pc = "accept.others" /\ requests[g.req].listing = k /\ g.req \in RequestIds
          /\ requests[g.req].status # "pending"
      BY <1>0, <1>3 DEF AcceptOthers, At, WorksOn, About, ListingPCs, ExchangeWritePCs,
         HandlerHolds, RequestPCs, DecidedPCs, Decided
    <2>2. \A q \in RequestIds : requests'[q] = IF q \in Moot(g.req)
              THEN [requests[q] EXCEPT !.status = "declined"] ELSE requests[q]
      BY <1>3 DEF AcceptOthers
    <2>3. \A q \in Moot(g.req) : q \in RequestIds /\ requests[q].status = "pending"
      BY DEF Moot
    <2>4. RequestsLeave(k)
      BY <1>0, <1>3, <2>2, <2>3 DEF RequestsLeave, AcceptOthers, RequestRow
    <2>5. \A q \in RequestIds : ~Waits(q, k)'
      BY <1>0, <2>1, <2>2 DEF Waits, Moot, RequestRow
    <2>6. PICK h : h = [g EXCEPT !.pc = "accept.notify"]
      OBVIOUS
    <2>7. h.pc = "accept.notify" /\ Become(w, h)
      BY <1>0, <1>3, <2>6 DEF Handler, AcceptOthers, Goto
    <2>8. ~About(h, k)'
      BY <2>7, AboutNone
    <2> QED BY <1>1, <2>1, <2>4, <2>5, <2>7, <2>8 DEF SettlingPCs, OwedPCs
  <1>4. CASE DeclineRequest(w)
    <2>1. g.pc = "decline.request" /\ g.req \in RequestIds /\ requests[g.req].status = "pending"
      BY <1>0, <1>4 DEF DeclineRequest, At, WorksOn, About, ListingPCs, ExchangeWritePCs,
         HandlerHolds, RequestPCs, Knows, KnowsRequest
    <2>2. RequestsLeave(k)
      BY <1>0, <1>4, <2>1 DEF RequestsLeave, DeclineRequest, SetRequest, RequestRow
    <2>3. PICK h : h = [g EXCEPT !.pc = "decline.notify"]
      OBVIOUS
    <2>4. h.pc = "decline.notify" /\ Become(w, h)
      BY <1>0, <1>4, <2>3 DEF Handler, DeclineRequest, Goto
    <2>5. ~About(h, k)'
      BY <2>4, AboutNone
    <2> QED BY <1>1, <2>1, <2>2, <2>4, <2>5 DEF SettlingPCs, OwedPCs
  <1>5. ASSUME NEW r \in RequestIds, ExpireRow(w, r) PROVE GoesOn(w, k)
    <2>1. g.pc = "expire.row" /\ r \in g.todo
          /\ \A q \in g.todo : requests[q].listing = k => requests[q].status = "pending"
      BY <1>0, <1>5 DEF ExpireRow, At, Knows, KnowsRequest
    <2>2. RequestsLeave(k)
      BY <1>0, <1>5, <2>1 DEF RequestsLeave, ExpireRow, SetRequest, RequestRow
    <2>3. PICK h : /\ Become(w, h)
                   /\ h \in {Idle, [g EXCEPT !.todo = g.todo \ {r},
                                             !.wasOpen = g.wasOpen \cap (g.todo \ {r})]}
      BY <1>5 DEF ExpireRow, Finish
    <2>4. /\ h.pc \in {"idle", "expire.row"}
          /\ h.pc = "expire.row" => h.todo = g.todo \ {r}
      <3>1. CASE h = Idle
        BY <3>1 DEF Idle
      <3>2. CASE h = [g EXCEPT !.todo = g.todo \ {r},
                               !.wasOpen = g.wasOpen \cap (g.todo \ {r})]
        <4>1. h.pc = g.pc /\ h.todo = g.todo \ {r}
          BY <1>0, <3>2 DEF Handler
        <4> QED BY <2>1, <4>1
      <3> QED BY <2>3, <3>1, <3>2
    <2>5. RowsFit(h, k)'
      BY <1>0, <2>1, <2>2, <2>4, RequestsLeaveFits DEF SettlingPCs, OwedPCs
    <2>6. \A q \in g.todo \ {r} : requests'[q] = requests[q]
      <3>1. g.todo \subseteq RequestIds
        BY <1>0 DEF Handler
      <3> QED BY <1>0, <1>5, <3>1 DEF ExpireRow, SetRequest
    <2>7. Knows(h, k)'
      BY <2>1, <2>4, <2>6 DEF Knows, KnowsListing, KnowsRequest, KnowsExchange
    <2> QED BY <2>3, <2>5, <2>7 DEF GoesOn, Fits
  <1> QED
    BY <1>2, <1>3, <1>4, <1>5, InsertHere, AcceptHere DEF RequestStep

-----------------------------------------------------------------------------
(* Who is bound, step by step.  The promise: accept_request makes an       *)
(* exchange of a free book.                                                *)
LEMMA AcceptBinds ==
    ASSUME IInv, UnbornAreBlank, NEW w \in Processes, NEW e \in ExchangeIds, AcceptExchange(w, e),
           NEW k \in Listings, WorksOn(w, k), Fits(handler[w], k)
    PROVE  /\ exchanges[e].listing # k /\ exchanges'[e].listing = k
           /\ exchanges'[e].recipient = requests[handler[w].req].requester
           /\ \A f \in ExchangeIds \ {e} : exchanges'[f] = exchanges[f]
           /\ Open(k) = {} /\ Done(k) = {} /\ Open(k)' = {e} /\ Done(k)' = {}
  <1>1. handler[w].pc = "accept.exchange" /\ requests[handler[w].req].listing = k /\ k # None
    BY NoneAssumption DEF AcceptExchange, At, WorksOn, About, ListingPCs, ExchangeWritePCs
  <1>2. Free(k)
    BY <1>1 DEF Fits, Knows, KnowsRequest
  <1>3. /\ exchanges'[e].status = "scheduled" /\ exchanges'[e].listing = k
        /\ exchanges'[e].recipient = requests[handler[w].req].requester
        /\ exchanges[e].listing # k
        /\ \A f \in ExchangeIds \ {e} : exchanges'[f] = exchanges[f]
    BY <1>1 DEF IInv, TypeOK, AcceptExchange, UnbornAreBlank
  <1> QED
    BY <1>2, <1>3 DEF Open, Done, Bound, Free, ExchangesOf

(* The exchange of a completion or a cancellation is the one promise. *)
LEMMA ScheduledBinds ==
    ASSUME NEW k, AtMostOne(k), NEW e \in ExchangeIds, exchanges[e].listing = k,
           exchanges[e].status = "scheduled"
    PROVE  Open(k) = {e} /\ Done(k) = {}
  <1>1. e \in Open(k) /\ e \notin Done(k)
    BY DEF Open, Done, ExchangesOf
  <1>2. \A f \in Open(k) \cup Done(k) : f = e
    BY <1>1 DEF AtMostOne, Bound
  <1> QED BY <1>1, <1>2

(* The promise is kept. *)
LEMMA CompleteHandsOver ==
    ASSUME IInv, NEW w \in Processes, CompleteExchange(w),
           NEW k \in Listings, WorksOn(w, k), Fits(handler[w], k),
           NEW e, e = handler[w].exch
    PROVE  /\ e \in ExchangeIds /\ exchanges'[e].status = "completed"
           /\ \A f \in ExchangeIds : /\ exchanges'[f].listing = exchanges[f].listing
                                     /\ exchanges'[f].recipient = exchanges[f].recipient
           /\ Open(k) = {e} /\ Done(k) = {} /\ Open(k)' = {} /\ Done(k)' = {e}
  <1>1. handler[w].pc = "complete.exchange" /\ exchanges[e].listing = k
    BY DEF CompleteExchange, At, WorksOn, About, ListingPCs, RequestWritePCs
  <1>2. e \in ExchangeIds /\ exchanges[e].status = "scheduled"
    BY <1>1 DEF IInv, HandlerHolds, ExchangePCs, Fits, Knows, KnowsExchange
  <1>3. Open(k) = {e} /\ Done(k) = {}
    BY <1>1, <1>2, ScheduledBinds DEF Fits, RowsFit
  <1>4. /\ exchanges'[e].status = "completed"
        /\ \A f \in ExchangeIds : /\ exchanges'[f].listing = exchanges[f].listing
                                  /\ exchanges'[f].recipient = exchanges[f].recipient
                                  /\ f # e => exchanges'[f] = exchanges[f]
    BY <1>2 DEF IInv, TypeOK, ExchangeRow, CompleteExchange
  <1>5. Open(k)' = {} /\ Done(k)' = {e}
    BY <1>1, <1>2, <1>3, <1>4 DEF Open, Done, ExchangesOf
  <1> QED BY <1>2, <1>3, <1>4, <1>5

(* The promise is called off. *)
LEMMA CancelCallsOff ==
    ASSUME IInv, NEW w \in Processes, CancelExchange(w),
           NEW k \in Listings, WorksOn(w, k), Fits(handler[w], k),
           NEW e, e = handler[w].exch
    PROVE  /\ e \in ExchangeIds
           /\ \A f \in ExchangeIds : /\ exchanges'[f].listing = exchanges[f].listing
                                     /\ exchanges'[f].recipient = exchanges[f].recipient
           /\ Open(k) = {e} /\ Done(k) = {} /\ Open(k)' = {} /\ Done(k)' = {}
  <1>1. handler[w].pc = "cancel.exchange" /\ exchanges[e].listing = k
    BY DEF CancelExchange, At, WorksOn, About, ListingPCs, RequestWritePCs
  <1>2. e \in ExchangeIds /\ exchanges[e].status = "scheduled"
    BY <1>1 DEF IInv, HandlerHolds, ExchangePCs, Fits, Knows, KnowsExchange
  <1>3. Open(k) = {e} /\ Done(k) = {}
    BY <1>1, <1>2, ScheduledBinds DEF Fits, RowsFit
  <1>4. /\ exchanges'[e].status = "cancelled"
        /\ \A f \in ExchangeIds : /\ exchanges'[f].listing = exchanges[f].listing
                                  /\ exchanges'[f].recipient = exchanges[f].recipient
                                  /\ f # e => exchanges'[f] = exchanges[f]
    BY <1>2 DEF IInv, TypeOK, ExchangeRow, CancelExchange
  <1>5. Open(k)' = {} /\ Done(k)' = {}
    BY <1>1, <1>2, <1>3, <1>4 DEF Open, Done, ExchangesOf
  <1> QED BY <1>2, <1>3, <1>4, <1>5

(* The exchange that was owing is made: those who wait are to be declined. *)
LEMMA PromiseHere ==
    ASSUME IInv, UnbornAreBlank, NEW w \in Processes, NEW e \in ExchangeIds, AcceptExchange(w, e),
           NEW k \in Listings, WorksOn(w, k), Fits(handler[w], k)
    PROVE  GoesOn(w, k)
  <1> PICK g : g = handler[w]
    OBVIOUS
  <1>0. g \in Handler /\ RowsFit(g, k) /\ Knows(g, k) /\ UNCHANGED <<listings, requests>>
    BY DEF IInv, TypeOK, Fits, AcceptExchange
  <1>1. g.pc = "accept.exchange" /\ requests[g.req].listing = k
    BY DEF AcceptExchange, At, WorksOn, About, ListingPCs, ExchangeWritePCs
  <1>2. PICK u : u = requests[g.req].requester
    OBVIOUS
  <1>3. /\ exchanges[e].listing # k /\ exchanges'[e].listing = k /\ exchanges'[e].recipient = u
        /\ \A f \in ExchangeIds \ {e} : exchanges'[f] = exchanges[f]
        /\ Open(k) = {} /\ Done(k) = {} /\ Open(k)' = {e} /\ Done(k)' = {}
    BY <1>2, AcceptBinds
  <1>4. /\ \A v : AcceptedOf(k, v)' = AcceptedOf(k, v) /\ PendingOf(k, v)' = PendingOf(k, v)
        /\ \A r : Waits(r, k)' <=> Waits(r, k)
    BY <1>0 DEF AcceptedOf, PendingOf, Waits
  <1>5. PICK h : h = [g EXCEPT !.pc = "accept.others", !.exch = e]
    OBVIOUS
  <1>6. h.pc = "accept.others" /\ h.req = g.req /\ Become(w, h)
    BY <1>0, <1>5 DEF Handler, AcceptExchange
  <1>7. listings[k].status # "available"
    BY <1>0, <1>1 DEF Knows, KnowsRequest
  <1>8. StatusFits(h, k)'
    BY <1>0, <1>3, <1>7 DEF RowsFit, StatusFits
  <1>9. AtMostOne(k)' /\ OneEach(k)' /\ WaitersMayHope(h, k)'
    BY <1>0, <1>1, <1>3, <1>4, <1>6 DEF RowsFit, AtMostOne, Bound, OneEach, WaitersMayHope
  <1>10. OneForOne(h, k)'
    <2> SUFFICES ASSUME FiniteRows, NEW v \in Users
                 PROVE  Cardinality(AcceptedOf(k, v)) = Cardinality(GivenTo(k, v)')
      BY <1>4, <1>6 DEF OneForOne, Owing
    <2>1. Owing(g, k, v) <=> v = u
      BY <1>1, <1>2 DEF Owing
    <2>2. CASE v = u
      <3>1. GivenTo(k, v)' = GivenTo(k, v) \cup {e} /\ e \notin GivenTo(k, v)
        BY <1>3, <2>2 DEF GivenTo, ExchangesOf
      <3>2. IsFiniteSet(GivenTo(k, v))
        BY FS_Subset DEF FiniteRows, GivenTo, ExchangesOf
      <3>3. Cardinality(GivenTo(k, v) \cup {e}) = Cardinality(GivenTo(k, v)) + 1
        BY <3>1, <3>2, FS_AddElement
      <3> QED BY <1>0, <2>1, <2>2, <3>1, <3>3 DEF RowsFit, OneForOne
    <2>3. CASE v # u
      <3>1. GivenTo(k, v)' = GivenTo(k, v)
        BY <1>3, <2>3 DEF GivenTo, ExchangesOf
      <3> QED BY <1>0, <2>1, <2>3, <3>1 DEF RowsFit, OneForOne
    <2> QED BY <2>2, <2>3
  <1>11. Knows(h, k)'
    BY <1>6 DEF Knows, KnowsListing, KnowsRequest, KnowsExchange
  <1> QED
    BY <1>6, <1>8, <1>9, <1>10, <1>11 DEF GoesOn, Fits, RowsFit

(* The promise ends, one way or the other. *)
LEMMA EndHere ==
    ASSUME IInv, NEW w \in Processes, CompleteExchange(w) \/ CancelExchange(w),
           NEW k \in Listings, WorksOn(w, k), Fits(handler[w], k)
    PROVE  GoesOn(w, k)
  <1> PICK g : g = handler[w]
    OBVIOUS
  <1>0. g \in Handler /\ RowsFit(g, k) /\ Knows(g, k) /\ UNCHANGED <<listings, requests>>
    BY DEF IInv, TypeOK, Fits, CompleteExchange, CancelExchange
  <1>1. PICK e : e = g.exch
    OBVIOUS
  <1>2. PICK pc \in {"complete.listing", "cancel.listing"} :
             /\ Goto(w, pc)
             /\ pc = "complete.listing" => CompleteExchange(w)
             /\ pc = "cancel.listing" => CancelExchange(w)
    BY DEF CompleteExchange, CancelExchange
  <1>3. /\ g.pc \in {"complete.exchange", "cancel.exchange"} /\ exchanges[e].listing = k
        /\ pc = "cancel.listing" => g.pc = "cancel.exchange"
    BY <1>1, <1>2 DEF CompleteExchange, CancelExchange, At, WorksOn, About, ListingPCs,
       RequestWritePCs
  <1>4. PICK h : h = [g EXCEPT !.pc = pc]
    OBVIOUS
  <1>5. h.pc = pc /\ h.exch = e /\ h.seen = g.seen /\ Become(w, h)
    BY <1>0, <1>1, <1>2, <1>4 DEF Handler, Goto
  <1>6. /\ \A f \in ExchangeIds : /\ exchanges'[f].listing = exchanges[f].listing
                                  /\ exchanges'[f].recipient = exchanges[f].recipient
        /\ e \in ExchangeIds /\ Open(k) = {e} /\ Done(k) = {} /\ Open(k)' = {}
        /\ pc = "complete.listing" => Done(k)' = {e} /\ exchanges'[e].status = "completed"
        /\ pc = "cancel.listing" => Done(k)' = {}
    BY <1>1, <1>2, CompleteHandsOver, CancelCallsOff
  <1>7. /\ \A v : /\ AcceptedOf(k, v)' = AcceptedOf(k, v) /\ PendingOf(k, v)' = PendingOf(k, v)
                  /\ GivenTo(k, v)' = GivenTo(k, v)
        /\ \A r : Waits(r, k)' <=> Waits(r, k)
    BY <1>0, <1>6 DEF AcceptedOf, PendingOf, Waits, GivenTo, ExchangesOf
  <1>8. pc = "cancel.listing" /\ listings[k].status = "pending" => h.seen = "pending"
    BY <1>0, <1>1, <1>3, <1>5 DEF Knows, KnowsExchange
  <1>9. listings[k].status = "pending" => Settling(h, k)'
    BY <1>3, <1>5, <1>6, <1>8 DEF Settling
  <1>10. listings[k].status \notin {"available", "claimed"}
    BY <1>0, <1>6 DEF RowsFit, StatusFits, Free, Bound
  <1>11. StatusFits(h, k)'
    BY <1>0, <1>9, <1>10 DEF StatusFits
  <1>12. \A r \in RequestIds : ~Waits(r, k)'
    BY <1>0, <1>3, <1>6, <1>7 DEF RowsFit, WaitersMayHope, Free, Bound
  <1>13. AtMostOne(k)' /\ OneEach(k)' /\ WaitersMayHope(h, k)'
    BY <1>0, <1>2, <1>6, <1>7, <1>12 DEF RowsFit, AtMostOne, Bound, OneEach, WaitersMayHope
  <1>14. OneForOne(h, k)'
    <2>1. \A u : ~Owing(g, k, u) /\ ~Owing(h, k, u)'
      BY <1>3, <1>5 DEF Owing
    <2> QED BY <1>0, <1>7, <2>1 DEF RowsFit, OneForOne
  <1>15. Knows(h, k)'
    BY <1>2, <1>5, <1>6 DEF Knows, KnowsListing, KnowsRequest, KnowsExchange, Free, Bound
  <1> QED
    BY <1>5, <1>11, <1>13, <1>14, <1>15 DEF GoesOn, Fits, RowsFit

(* All of them. *)
LEMMA StepHere ==
    ASSUME IInv, UnbornAreBlank, NEW w \in Processes, Step(w),
           NEW k \in Listings, WorksOn(w, k), ~Reopens(k), Fits(handler[w], k)
    PROVE  GoesOn(w, k)
  <1>1. ASSUME LogStep(w) \/ ScheduleSave(w) PROVE ~WorksOn(w, k)
    <2>1. handler[w].pc \in {"remove.audit", "restore.audit", "request.notify",
                             "accept.notify", "decline.notify", "schedule.save", "schedule.donor",
                             "schedule.recipient", "complete.audit", "complete.donor",
                             "complete.recipient", "cancel.audit", "rate.check", "rate.insert"}
      BY <1>1 DEF LogStep, RemoveAudit, RestoreAudit, RequestNotify, AcceptNotify, DeclineNotify,
         ScheduleNotify, TellParties, CompleteAudit, CompleteNotify, CancelAudit, RateCheck,
         RateInsert, ScheduleSave, At
    <2> QED BY <2>1, AboutNone DEF WorksOn
  <1> QED
    BY <1>1, StepKinds, ListingHere, RequestHere, PromiseHere, EndHere DEF ExchangeStep

-----------------------------------------------------------------------------
(* A step beside the handler at work on k, and a step of that handler.     *)
LEMMA Elsewhere ==
    ASSUME IInv, Keeps, NEW k, Good(k), ~Overlap(k)',
           NEW w \in Processes, ~WorksOn(w, k), Leaves(w, k)
    PROVE  Good(k)'
  <1>1. PICK h : Become(w, h) /\ ~About(h, k)'
    BY DEF Leaves
  <1>2. \A v \in Processes : handler'[v] = IF v = w THEN h ELSE handler[v]
    BY <1>1 DEF IInv, TypeOK, Become
  <1>3. ~WorksOn(w, k)'
    BY <1>1, <1>2 DEF WorksOn, About
  <1>4. \A v \in Processes : handler'[v] = handler[v] \/ (~WorksOn(v, k) /\ ~WorksOn(v, k)')
    BY <1>2, <1>3
  <1>5. ASSUME NEW g, g = Idle \/ \E v \in Processes : g = handler[v], Fits(g, k)
        PROVE  Fits(g, k)'
    <2>1. Refers(g)
      BY <1>5, HandlersRefer, IdleRefers
    <2> QED BY <1>5, <2>1, SameFits DEF Leaves
  <1> QED
    BY <1>4, <1>5, Stays

LEMMA Onward ==
    ASSUME IInv, Keeps, NEW k, Good(k), ~Overlap(k)',
           NEW w \in Processes, WorksOn(w, k), Fits(handler[w], k) => GoesOn(w, k)
    PROVE  Good(k)'
  <1>1. PICK h : Become(w, h) /\ Fits(h, k)'
    BY DEF Good, GoesOn
  <1> QED
    BY <1>1, Moves

LEMMA StepGood ==
    ASSUME IInv, Keeps, UnbornAreBlank, NEW k \in Listings, Good(k), ~Overlap(k)', ~Reopens(k),
           NEW w \in Processes, Step(w)
    PROVE  Good(k)'
  BY StepHere, StepElsewhere, Elsewhere, Onward

-----------------------------------------------------------------------------
(* A call that arrives writes nothing yet and knows what the rows say.     *)

Begins(w) ==
    \/ \E l \in Listings : PatchBegin(w, l) \/ RestoreBegin(w, l)
    \/ \E l \in Listings, u \in Users : RequestBegin(w, l, u)
    \/ \E r \in RequestIds : AcceptBegin(w, r) \/ DeclineBegin(w, r)
    \/ \E e \in ExchangeIds, forced \in BOOLEAN :
           ScheduleBegin(w, e) \/ CompleteBegin(w, e, forced) \/ CancelBegin(w, e, forced)
    \/ \E e \in ExchangeIds, u \in Users : RateBegin(w, e, u)
    \/ ExpireBegin(w)

BeginPCs == {"patch.save", "restore.save", "request.check", "accept.request", "decline.request",
             "schedule.save", "complete.exchange", "cancel.exchange", "rate.check", "expire.row"}

LEMMA BeginKnows ==
    ASSUME NEW w, Begins(w), NEW k \in Listings, RowsFit(Idle, k)
    PROVE  \E h : Become(w, h) /\ h.pc \in BeginPCs /\ Knows(h, k)
  <1>1. /\ listings[k].status = "available" => Free(k)
        /\ listings[k].status = "claimed" => Done(k) # {}
        /\ listings[k].status = "pending" => Open(k) # {}
        /\ \A r \in RequestIds : Waits(r, k) => Free(k)
    BY DEF RowsFit, StatusFits, Settling, WaitersMayHope, Idle
  <1>2. ASSUME NEW l \in Listings, PatchBegin(w, l)
        PROVE  \E h : Become(w, h) /\ h.pc \in BeginPCs /\ Knows(h, k)
    <2>1. PICK h : h = [Idle EXCEPT !.pc = "patch.save", !.lst = l, !.seen = listings[l].status]
      OBVIOUS
    <2>2. h.pc = "patch.save" /\ h.lst = l /\ h.seen = listings[l].status
      BY <2>1 DEF Idle
    <2>3. Knows(h, k)
      BY <1>1, <2>2 DEF Knows, KnowsListing, KnowsRequest, KnowsExchange
    <2> QED BY <1>2, <2>1, <2>2, <2>3 DEF PatchBegin, BeginPCs
  <1>3. ASSUME NEW l \in Listings, RestoreBegin(w, l)
        PROVE  \E h : Become(w, h) /\ h.pc \in BeginPCs /\ Knows(h, k)
    <2>1. PICK h : h = [Idle EXCEPT !.pc = "restore.save", !.lst = l]
      OBVIOUS
    <2>2. h.pc = "restore.save"
      BY <2>1 DEF Idle
    <2>3. Knows(h, k)
      BY <2>2 DEF Knows, KnowsListing, KnowsRequest, KnowsExchange
    <2> QED BY <1>3, <2>1, <2>2, <2>3 DEF RestoreBegin, BeginPCs
  <1>4. ASSUME NEW l \in Listings, NEW u \in Users, RequestBegin(w, l, u)
        PROVE  \E h : Become(w, h) /\ h.pc \in BeginPCs /\ Knows(h, k)
    <2>1. PICK h : h = [Idle EXCEPT !.pc = "request.check", !.lst = l, !.user = u]
      OBVIOUS
    <2>2. h.pc = "request.check" /\ h.lst = l /\ listings[l].status = "available"
      BY <1>4, <2>1 DEF Idle, RequestBegin, MayRequest
    <2>3. Knows(h, k)
      BY <1>1, <2>2 DEF Knows, KnowsListing, KnowsRequest, KnowsExchange
    <2> QED BY <1>4, <2>1, <2>2, <2>3 DEF RequestBegin, BeginPCs
  <1>5. ASSUME NEW r \in RequestIds, AcceptBegin(w, r) \/ DeclineBegin(w, r)
        PROVE  \E h : Become(w, h) /\ h.pc \in BeginPCs /\ Knows(h, k)
    <2>1. PICK pc \in {"accept.request", "decline.request"} : DecisionBegin(w, r, pc)
      BY <1>5 DEF AcceptBegin, DeclineBegin
    <2>2. PICK h : h = [Idle EXCEPT !.pc = pc, !.req = r,
                                   !.wasOpen = {r} \cap PendingRequests,
                                   !.seen = listings[requests[r].listing].status]
      OBVIOUS
    <2>3. /\ h.pc = pc /\ h.req = r /\ h.seen = listings[requests[r].listing].status
          /\ requests[r].status = "pending"
      BY <2>1, <2>2 DEF Idle, DecisionBegin
    <2>4. Knows(h, k)
      BY <1>1, <2>3 DEF Knows, KnowsListing, KnowsRequest, KnowsExchange, Waits
    <2> QED BY <2>1, <2>2, <2>3, <2>4 DEF DecisionBegin, BeginPCs
  <1>6. ASSUME NEW e \in ExchangeIds, NEW forced \in BOOLEAN,
               ScheduleBegin(w, e) \/ CompleteBegin(w, e, forced) \/ CancelBegin(w, e, forced)
        PROVE  \E h : Become(w, h) /\ h.pc \in BeginPCs /\ Knows(h, k)
    <2>1. PICK pc \in {"schedule.save", "complete.exchange", "cancel.exchange"}, f \in BOOLEAN :
                ExchangeBegin(w, e, f, pc)
      BY <1>6 DEF ScheduleBegin, CompleteBegin, CancelBegin
    <2>2. PICK h : h = [Idle EXCEPT !.pc = pc, !.exch = e, !.forced = f,
                                   !.wasOpen = {e} \cap ScheduledExchanges,
                                   !.seen = listings[exchanges[e].listing].status]
      OBVIOUS
    <2>3. /\ h.pc = pc /\ h.exch = e /\ h.seen = listings[exchanges[e].listing].status
          /\ exchanges[e].status = "scheduled"
      BY <2>1, <2>2 DEF Idle, ExchangeBegin
    <2>4. Knows(h, k)
      BY <2>3 DEF Knows, KnowsListing, KnowsRequest, KnowsExchange
    <2> QED BY <2>1, <2>2, <2>3, <2>4 DEF ExchangeBegin, BeginPCs
  <1>7. ASSUME NEW e \in ExchangeIds, NEW u \in Users, RateBegin(w, e, u)
        PROVE  \E h : Become(w, h) /\ h.pc \in BeginPCs /\ Knows(h, k)
    <2>1. PICK h : h = [Idle EXCEPT !.pc = "rate.check", !.exch = e, !.user = u]
      OBVIOUS
    <2>2. h.pc = "rate.check"
      BY <2>1 DEF Idle
    <2>3. Knows(h, k)
      BY <2>2 DEF Knows, KnowsListing, KnowsRequest, KnowsExchange
    <2> QED BY <1>7, <2>1, <2>2, <2>3 DEF RateBegin, BeginPCs
  <1>8. ASSUME ExpireBegin(w)
        PROVE  \E h : Become(w, h) /\ h.pc \in BeginPCs /\ Knows(h, k)
    <2>1. PICK h : h = [Idle EXCEPT !.pc = "expire.row", !.todo = StalePending,
                                    !.wasOpen = StalePending \cap PendingRequests]
      OBVIOUS
    <2>2. h.pc = "expire.row" /\ h.todo = StalePending
      BY <2>1 DEF Idle
    <2>3. Knows(h, k)
      BY <2>2 DEF Knows, KnowsListing, KnowsRequest, KnowsExchange, StalePending
    <2> QED BY <1>8, <2>1, <2>2, <2>3 DEF ExpireBegin, BeginPCs
  <1> QED
    BY <1>2, <1>3, <1>4, <1>5, <1>6, <1>7, <1>8 DEF Begins

LEMMA BeginGood ==
    ASSUME IInv, Keeps, NEW k \in Listings, Good(k), ~Overlap(k)', NEW w \in Processes, Begins(w)
    PROVE  Good(k)'
  <1>1. At(w, "idle") /\ UNCHANGED rows
    BY DEF Begins, PatchBegin, RestoreBegin, RequestBegin, AcceptBegin, DeclineBegin, DecisionBegin,
           ScheduleBegin, CompleteBegin, CancelBegin, ExchangeBegin, RateBegin, ExpireBegin
  <1>2. ~About(handler[w], k)
    BY <1>1, AboutNone DEF At
  <1>3. Fits(handler[w], k) <=> Fits(Idle, k)
    BY <1>2, NotAbout
  <1>4. ASSUME NEW h, h.pc \in BeginPCs, Knows(h, k), Fits(Idle, k) PROVE Fits(h, k)'
    <2>1. RequestsLeave(k)
      BY <1>1 DEF RequestsLeave, rows
    <2>2. Idle.pc = "idle"
      BY DEF Idle
    <2>3. RowsFit(h, k)'
      BY <1>4, <2>1, <2>2, RequestsLeaveFits DEF Fits, BeginPCs, SettlingPCs, OwedPCs
    <2>4. Knows(h, k)'
      BY <1>1, <1>4 DEF rows, Knows, KnowsListing, KnowsRequest, KnowsExchange, Free, Bound, Open,
         Done, ExchangesOf, PendingOf
    <2> QED BY <2>3, <2>4 DEF Fits
  <1>5. CASE \E h : Become(w, h) /\ ~About(h, k)'
    BY <1>1, <1>2, <1>5, SameRows, Elsewhere DEF Leaves, WorksOn
  <1>6. CASE \A h : Become(w, h) => About(h, k)'
    <2>1. CASE \E v \in Processes : WorksOn(v, k)
      <3>1. PICK v \in Processes : WorksOn(v, k)
        BY <2>1
      <3>2. v # w
        BY <1>2, <3>1 DEF WorksOn
      <3>3. PICK h : Become(w, h)
        BY DEF Begins, PatchBegin, RestoreBegin, RequestBegin, AcceptBegin, DeclineBegin,
               DecisionBegin, ScheduleBegin, CompleteBegin, CancelBegin, ExchangeBegin, RateBegin,
               ExpireBegin
      <3>4. PICK g : g = handler[v]
        OBVIOUS
      <3>5. handler'[w] = h /\ handler'[v] = g
        BY <3>2, <3>3, <3>4 DEF IInv, TypeOK, Become
      <3>6. About(h, k)' /\ About(g, k)'
        BY <1>6, <3>1, <3>3, <3>4, AboutKept DEF WorksOn
      <3>7. WorksOn(w, k)' /\ WorksOn(v, k)'
        BY <3>5, <3>6 DEF WorksOn, About
      <3> QED BY <3>2, <3>7 DEF Overlap
    <2>2. CASE \A v \in Processes : ~WorksOn(v, k)
      <3>1. Fits(Idle, k)
        BY <2>2 DEF Good
      <3>2. PICK h : Become(w, h) /\ h.pc \in BeginPCs /\ Knows(h, k)
        BY <3>1, BeginKnows DEF Fits
      <3>3. About(h, k)' /\ Fits(h, k)'
        BY <1>4, <1>6, <3>1, <3>2
      <3> QED BY <3>2, <3>3, Moves
    <2> QED BY <2>1, <2>2
  <1> QED
    BY <1>5, <1>6

-----------------------------------------------------------------------------
(* A process dies: with nothing half done, the rows still agree.           *)
LEMMA CrashGood ==
    ASSUME IInv, Keeps, NEW k \in Listings, Good(k), ~Overlap(k)', ~Dies(k),
           NEW w \in Processes, Crash(w)
    PROVE  Good(k)'
  <1>1. Finish(w) /\ UNCHANGED rows
    BY DEF Crash
  <1>2. CASE ~WorksOn(w, k)
    BY <1>1, <1>2, SameRows, IdleIsAboutNone, Elsewhere DEF Leaves, Finish
  <1>3. CASE WorksOn(w, k)
    <2>1. PICK g : g = handler[w]
      OBVIOUS
    <2>2. About(g, k) /\ ~HalfDone(g, k) /\ RowsFit(g, k)
      BY <1>3, <2>1 DEF WorksOn, Dies, Good, Fits
    <2>3. /\ ~Settling(g, k) /\ ~Settling(Idle, k)
          /\ \A u : ~Owing(g, k, u) /\ ~Owing(Idle, k, u)
          /\ ~(g.pc = "accept.others" /\ requests[g.req].listing = k)
      BY <2>2 DEF HalfDone, Settling, Owing, Idle
    <2>4. RowsFit(Idle, k)
      BY <2>2, <2>3 DEF RowsFit, StatusFits, OneForOne, WaitersMayHope
    <2>5. Knows(Idle, k)
      BY DEF Idle, Knows, KnowsListing, KnowsRequest, KnowsExchange
    <2>6. Fits(Idle, k)'
      BY <1>1, <2>4, <2>5, SameRows, SameFits, IdleRefers DEF Fits
    <2> QED BY <1>1, <1>3, <2>6, Onward DEF GoesOn, Finish
  <1> QED
    BY <1>2, <1>3

-----------------------------------------------------------------------------
(* What happens beside the handlers: a book is offered, or withdrawn, or a *)
(* request grows old.                                                      *)

LEMMA RemovedFits ==
    ASSUME NEW k, UNCHANGED <<requests, exchanges>>, listings'[k].status = "removed",
           NEW h, Fits(h, k)
    PROVE  Fits(h, k)'
  <1>1. /\ Open(k)' = Open(k) /\ Done(k)' = Done(k) /\ Bound(k)' = Bound(k)
        /\ Free(k)' <=> Free(k)
        /\ \A u : /\ AcceptedOf(k, u)' = AcceptedOf(k, u) /\ PendingOf(k, u)' = PendingOf(k, u)
                  /\ GivenTo(k, u)' = GivenTo(k, u)
        /\ \A r : Waits(r, k)' <=> Waits(r, k)
    BY DEF Open, Done, Bound, Free, ExchangesOf, GivenTo, AcceptedOf, PendingOf, Waits
  <1>2. \A u : Owing(h, k, u)' <=> Owing(h, k, u)
    BY DEF Owing
  <1>3. RowsFit(h, k)'
    BY <1>1, <1>2 DEF Fits, RowsFit, AtMostOne, StatusFits, WaitersMayHope, OneEach, OneForOne
  <1>4. Knows(h, k)'
    BY <1>1 DEF Fits, Knows, KnowsListing, KnowsRequest, KnowsExchange
  <1> QED
    BY <1>3, <1>4 DEF Fits

LEMMA RemovesGood ==
    ASSUME IInv, Keeps, NEW k \in Listings, Good(k), ~Overlap(k)',
           NEW l \in Listings, SetListing(l, "removed"), UNCHANGED <<requests, exchanges>>,
           \A v \in Processes : handler'[v] = handler[v] \/ (~WorksOn(v, k) /\ ~WorksOn(v, k)')
    PROVE  Good(k)'
  <1>1. listings'[k].status = IF k = l THEN "removed" ELSE listings[k].status
    BY DEF IInv, TypeOK, SetListing, ListingRow
  <1>2. ASSUME NEW h, h = Idle \/ \E v \in Processes : h = handler[v], Fits(h, k)
        PROVE  Fits(h, k)'
    <2>1. CASE k = l
      BY <1>1, <1>2, <2>1, RemovedFits
    <2>2. CASE k # l
      <3>1. Same(k)
        BY <1>1, <2>2 DEF Same, SameRequest, SameExchange
      <3>2. Refers(h)
        BY <1>2, HandlersRefer, IdleRefers
      <3> QED BY <1>2, <3>1, <3>2, SameFits
    <2> QED BY <2>1, <2>2
  <1> QED
    BY <1>2, Stays

LEMMA RemoveWriteGood ==
    ASSUME IInv, Keeps, NEW k \in Listings, Good(k), ~Overlap(k)',
           NEW w \in Processes, NEW l \in Listings, RemoveWrite(w, l)
    PROVE  Good(k)'
  <1>1. ~WorksOn(w, k)
    BY AboutNone DEF RemoveWrite, At, WorksOn
  <1>2. PICK h : h = [Idle EXCEPT !.pc = "remove.audit", !.lst = l]
    OBVIOUS
  <1>3. h.pc = "remove.audit" /\ Become(w, h)
    BY <1>2 DEF Idle, RemoveWrite
  <1>4. ~About(h, k)'
    BY <1>3, AboutNone
  <1>5. \A v \in Processes : handler'[v] = IF v = w THEN h ELSE handler[v]
    BY <1>3 DEF IInv, TypeOK, Become
  <1>6. ~WorksOn(w, k)'
    BY <1>4, <1>5 DEF WorksOn, About
  <1> QED
    BY <1>1, <1>5, <1>6, RemovesGood DEF RemoveWrite

(* Nothing is known of a book that was not there. *)
LEMMA UnbornIsFree ==
    ASSUME IInv, UnbornAreBlank, NEW k \in Listings, listings[k].status = "unborn"
    PROVE  /\ \A e \in ExchangeIds : exchanges[e].listing # k
           /\ \A r \in RequestIds : requests[r].listing # k
           /\ \A v \in Processes : ~WorksOn(v, k)
  <1>1. /\ \A e \in ExchangeIds : exchanges[e].listing # k
        /\ \A r \in RequestIds : requests[r].listing # k
    BY NoneAssumption DEF UnbornAreBlank, IInv, RowsRefer, RequestRefers, ExchangeRefers, Born
  <1>2. ASSUME NEW v \in Processes PROVE ~About(handler[v], k)
    <2>1. HandlerHolds(handler[v]) /\ Refers(handler[v])
      BY HandlersRefer DEF IInv
    <2> QED BY <1>1, <2>1 DEF About, HandlerHolds, Born, Refers
  <1> QED
    BY <1>1, <1>2 DEF WorksOn

LEMMA CreateGood ==
    ASSUME IInv, Keeps, UnbornAreBlank, NEW k \in Listings, Good(k), ~Overlap(k)',
           NEW l \in Listings, NEW u \in Users, CreateListing(l, u)
    PROVE  Good(k)'
  <1>1. UNCHANGED <<requests, exchanges, handler>>
    BY DEF CreateListing
  <1>2. CASE k # l
    <2>1. Same(k)
      BY <1>1, <1>2 DEF IInv, TypeOK, CreateListing, Same, SameRequest, SameExchange
    <2>2. ASSUME NEW h, h = Idle \/ \E v \in Processes : h = handler[v], Fits(h, k)
          PROVE  Fits(h, k)'
      <3>1. Refers(h)
        BY <2>2, HandlersRefer, IdleRefers
      <3> QED BY <2>1, <2>2, <3>1, SameFits
    <2> QED BY <1>1, <2>2, Stays
  <1>3. CASE k = l
    <2>1. /\ \A e \in ExchangeIds : exchanges[e].listing # k
          /\ \A v \in Processes : ~WorksOn(v, k)
      BY <1>3, UnbornIsFree DEF CreateListing
    <2>2. \A v \in Processes : ~WorksOn(v, k)'
      BY <1>1, <2>1 DEF WorksOn, About
    <2>3. Free(k)' /\ listings'[k].status = "available"
      BY <1>1, <1>3, <2>1 DEF IInv, TypeOK, CreateListing, Free, Bound, Open, Done, ExchangesOf
    <2>4. Fits(Idle, k)
      BY <2>1 DEF Good
    <2>5. RowsFit(Idle, k)'
      <3>1. /\ \A v : /\ AcceptedOf(k, v)' = AcceptedOf(k, v)
                      /\ PendingOf(k, v)' = PendingOf(k, v) /\ GivenTo(k, v)' = GivenTo(k, v)
                      /\ ~Owing(Idle, k, v) /\ ~Owing(Idle, k, v)'
            /\ Bound(k)' = {}
        BY <1>1, <2>3 DEF GivenTo, ExchangesOf, AcceptedOf, PendingOf, Owing, Idle, Free
      <3> QED
        BY <2>3, <2>4, <3>1 DEF Fits, RowsFit, AtMostOne, StatusFits, WaitersMayHope, OneEach,
           OneForOne
    <2>6. Fits(Idle, k)'
      BY <2>5, IdleIsAboutNone, KnowsNothing DEF Fits
    <2> QED BY <2>2, <2>6 DEF Good, Overlap
  <1> QED
    BY <1>2, <1>3

LEMMA AgeGood ==
    ASSUME IInv, Keeps, NEW k \in Listings, Good(k), ~Overlap(k)', NEW r \in RequestIds, Age(r)
    PROVE  Good(k)'
  <1>1. Same(k) /\ UNCHANGED handler
    BY DEF IInv, TypeOK, RequestRow, Age, Same, SameRequest, SameExchange
  <1>2. ASSUME NEW h, h = Idle \/ \E v \in Processes : h = handler[v], Fits(h, k)
        PROVE  Fits(h, k)'
    <2>1. Refers(h)
      BY <1>2, HandlersRefer, IdleRefers
    <2> QED BY <1>1, <1>2, <2>1, SameFits
  <1> QED
    BY <1>1, <1>2, Stays

(* Nothing happens. *)
LEMMA StutterGood ==
    ASSUME UNCHANGED vars, NEW k, Good(k)
    PROVE  Good(k)'
  <1>1. \A h : (Fits(h, k)' <=> Fits(h, k)) /\ (About(h, k)' <=> About(h, k))
    BY DEF vars, Fits, RowsFit, AtMostOne, StatusFits, Settling, WaitersMayHope, Waits, OneEach,
       PendingOf, OneForOne, Owing, AcceptedOf, GivenTo, Knows, KnowsListing, KnowsRequest,
       KnowsExchange, Free, Bound, Open, Done, ExchangesOf, About
  <1>2. \A v \in Processes : /\ WorksOn(v, k)' <=> WorksOn(v, k)
                             /\ Fits(handler[v], k)' <=> Fits(handler[v], k)
    BY DEF vars, WorksOn, About, Fits, RowsFit, AtMostOne, StatusFits, Settling, WaitersMayHope,
       Waits, OneEach, PendingOf, OneForOne, Owing, AcceptedOf, GivenTo, Knows, KnowsListing,
       KnowsRequest, KnowsExchange, Free, Bound, Open, Done, ExchangesOf
  <1> QED
    BY <1>1, <1>2 DEF Good, Overlap

-----------------------------------------------------------------------------
(* A row is inserted with its listing, and never taken back. *)

LEMMA UnbornRequests ==
    ASSUME IInv, Next, NEW r \in RequestIds, requests'[r].status = "unborn"
    PROVE  requests[r].status = "unborn" /\ requests'[r].listing = requests[r].listing
  <1>0. requests \in [RequestIds -> RequestRow]
    BY DEF IInv, TypeOK
  <1>1. requests[r].status = "unborn"
    BY NextInv DEF Keeps, KeepsRequest
  <1>2. ASSUME UNCHANGED requests PROVE requests'[r].listing = requests[r].listing
    BY <1>2
  <1>3. ASSUME NEW q \in RequestIds, Age(q) PROVE requests'[r].listing = requests[r].listing
    BY <1>0, <1>3 DEF Age, RequestRow
  <1>4. ASSUME NEW w \in Processes, RequestStep(w)
        PROVE  requests'[r].listing = requests[r].listing
    <2>1. ASSUME NEW q \in RequestIds, RequestInsert(w, q)
          PROVE  requests'[r].listing = requests[r].listing
      BY <1>0, <2>1 DEF RequestInsert
    <2>2. ASSUME NEW q, NEW s, SetRequest(q, s)
          PROVE  requests'[r].listing = requests[r].listing
      BY <1>0, <2>2 DEF SetRequest, RequestRow
    <2>3. CASE AcceptOthers(w)
      BY <1>0, <2>3 DEF AcceptOthers, RequestRow
    <2> QED
      BY <1>2, <1>4, <2>1, <2>2, <2>3 DEF RequestStep, ExpireRow, RequestCheck, AcceptRequest,
         DeclineRequest, rows
  <1>5. ASSUME NEW w \in Processes, Step(w) PROVE requests'[r].listing = requests[r].listing
    <2>1. LogStep(w) => UNCHANGED requests
      BY DEF LogStep, RemoveAudit, RestoreAudit, RequestNotify, AcceptNotify, DeclineNotify,
         ScheduleNotify, TellParties, CompleteAudit, CompleteNotify, CancelAudit, RateCheck,
         RateInsert, rows
    <2>2. ListingStep(w) \/ ExchangeStep(w) \/ ScheduleSave(w) => UNCHANGED requests
      BY DEF ListingStep, PatchSave, RestoreSave, AcceptListing, CompleteListing, CancelListing,
         ExchangeStep, AcceptExchange, CompleteExchange, CancelExchange, ScheduleSave
    <2> QED BY <1>2, <1>4, <1>5, <2>1, <2>2, StepKinds
  <1>6. ASSUME NEW w \in Processes, Arrive(w) \/ ExpireBegin(w) \/ Crash(w)
        PROVE  UNCHANGED requests
    BY <1>6 DEF Arrive, PatchBegin, RemoveWrite, RestoreBegin, RequestBegin, AcceptBegin,
       DeclineBegin, DecisionBegin, ScheduleBegin, CompleteBegin, CancelBegin, ExchangeBegin,
       RateBegin, ExpireBegin, Crash, rows
  <1> QED
    BY <1>1, <1>2, <1>3, <1>5, <1>6 DEF Next, Processes, CreateListing, DeleteListing

LEMMA UnbornExchanges ==
    ASSUME IInv, Next, NEW e \in ExchangeIds, exchanges'[e].status = "unborn"
    PROVE  exchanges[e].status = "unborn" /\ exchanges'[e].listing = exchanges[e].listing
  <1>0. exchanges \in [ExchangeIds -> ExchangeRow]
    BY DEF IInv, TypeOK
  <1>1. exchanges[e].status = "unborn"
    BY NextInv DEF Keeps, KeepsExchange
  <1>2. ASSUME UNCHANGED exchanges PROVE exchanges'[e].listing = exchanges[e].listing
    BY <1>2
  <1>3. ASSUME NEW w \in Processes, ExchangeStep(w) \/ ScheduleSave(w)
        PROVE  exchanges'[e].listing = exchanges[e].listing
    <2>1. ASSUME NEW f \in ExchangeIds, AcceptExchange(w, f)
          PROVE  exchanges'[e].listing = exchanges[e].listing
      BY <1>0, <2>1 DEF AcceptExchange
    <2>2. CASE CompleteExchange(w) \/ CancelExchange(w) \/ ScheduleSave(w)
      <3>1. PICK x : x = handler[w].exch
        OBVIOUS
      <3>2. \/ exchanges' = [exchanges EXCEPT ![x].status = "completed", ![x].completedAt = TRUE]
            \/ exchanges' = [exchanges EXCEPT ![x].status = "cancelled"]
            \/ exchanges' = [exchanges EXCEPT ![x].scheduledAt = TRUE]
        BY <2>2, <3>1 DEF CompleteExchange, CancelExchange, ScheduleSave
      <3> QED BY <1>0, <3>2 DEF ExchangeRow
    <2> QED BY <1>3, <2>1, <2>2 DEF ExchangeStep
  <1>4. ASSUME NEW w \in Processes, Step(w) PROVE exchanges'[e].listing = exchanges[e].listing
    <2>1. LogStep(w) => UNCHANGED exchanges
      BY DEF LogStep, RemoveAudit, RestoreAudit, RequestNotify, AcceptNotify, DeclineNotify,
         ScheduleNotify, TellParties, CompleteAudit, CompleteNotify, CancelAudit, RateCheck,
         RateInsert, rows
    <2>2. ListingStep(w) \/ RequestStep(w) => UNCHANGED exchanges
      BY DEF ListingStep, PatchSave, RestoreSave, AcceptListing, CompleteListing, CancelListing,
         RequestStep, RequestInsert, ExpireRow, RequestCheck, AcceptRequest, AcceptOthers,
         DeclineRequest, rows
    <2> QED BY <1>2, <1>3, <1>4, <2>1, <2>2, StepKinds
  <1>5. ASSUME NEW w \in Processes, Arrive(w) \/ ExpireBegin(w) \/ Crash(w)
        PROVE  UNCHANGED exchanges
    BY <1>5 DEF Arrive, PatchBegin, RemoveWrite, RestoreBegin, RequestBegin, AcceptBegin,
       DeclineBegin, DecisionBegin, ScheduleBegin, CompleteBegin, CancelBegin, ExchangeBegin,
       RateBegin, ExpireBegin, Crash, rows
  <1> QED
    BY <1>1, <1>2, <1>4, <1>5 DEF Next, Processes, CreateListing, DeleteListing, Age

LEMMA BlankKept ==
    ASSUME IInv, UnbornAreBlank, [Next]_vars
    PROVE  UnbornAreBlank'
  <1>1. CASE UNCHANGED vars
    BY <1>1 DEF vars, UnbornAreBlank
  <1>2. CASE Next
    BY <1>2, UnbornRequests, UnbornExchanges DEF UnbornAreBlank
  <1> QED
    BY <1>1, <1>2

-----------------------------------------------------------------------------
(* The invariant of the listings that nothing disturbed. *)

LEMMA InitNInv == NotedInit => NInv
  <1> SUFFICES ASSUME NotedInit PROVE NInv
    OBVIOUS
  <1>1. UnbornAreBlank /\ torn = {} /\ disturbed = {}
    BY DEF NotedInit, Init, UnbornAreBlank
  <1>2. ASSUME NEW k \in Listings PROVE Good(k)
    <2>1. \A w \in Processes : ~WorksOn(w, k)
      BY AboutNone DEF NotedInit, Init, Idle, WorksOn
    <2>2. Free(k) /\ \A u : AcceptedOf(k, u) = {} /\ GivenTo(k, u) = {} /\ PendingOf(k, u) = {}
      <3>1. /\ \A r \in RequestIds : requests[r].status = "unborn"
            /\ \A e \in ExchangeIds : exchanges[e].listing # k
        BY NoneAssumption DEF NotedInit, Init
      <3> QED
        BY <3>1 DEF Free, Bound, Open, Done, ExchangesOf, AcceptedOf, GivenTo, PendingOf
    <2>3. \A u : ~Owing(Idle, k, u)
      BY DEF Owing, Idle
    <2>4. RowsFit(Idle, k)
      BY <2>2, <2>3 DEF NotedInit, Init, RowsFit, AtMostOne, Free, StatusFits, WaitersMayHope,
         OneEach, OneForOne
    <2>5. Knows(Idle, k)
      BY DEF Idle, Knows, KnowsListing, KnowsRequest, KnowsExchange
    <2> QED BY <2>1, <2>4, <2>5 DEF Good, Overlap, Fits
  <1> QED
    BY <1>1, <1>2 DEF NInv

LEMMA NextGood ==
    ASSUME IInv, Keeps, UnbornAreBlank, Next,
           NEW k \in Listings, Good(k), ~Overlap(k)', ~Dies(k), ~Reopens(k)
    PROVE  Good(k)'
  <1>1. ASSUME NEW w \in Processes, Arrive(w) PROVE Good(k)'
    <2>1. Begins(w) \/ \E l \in Listings : RemoveWrite(w, l)
      BY <1>1 DEF Arrive, Begins
    <2> QED BY <2>1, BeginGood, RemoveWriteGood
  <1>2. ASSUME NEW w \in Processes, ExpireBegin(w) PROVE Good(k)'
    BY <1>2, BeginGood DEF Begins
  <1>3. ASSUME NEW w \in Processes, Step(w) PROVE Good(k)'
    BY <1>3, StepGood
  <1>4. ASSUME NEW w \in Processes, Crash(w) PROVE Good(k)'
    BY <1>4, CrashGood
  <1>5. ASSUME NEW l \in Listings, DeleteListing(l) PROVE Good(k)'
    BY <1>5, RemovesGood DEF DeleteListing
  <1>6. ASSUME NEW l \in Listings, NEW u \in Users, CreateListing(l, u) PROVE Good(k)'
    BY <1>6, CreateGood
  <1>7. ASSUME NEW r \in RequestIds, Age(r) PROVE Good(k)'
    BY <1>7, AgeGood
  <1> QED
    BY <1>1, <1>2, <1>3, <1>4, <1>5, <1>6, <1>7 DEF Next, Processes

LEMMA NextNInv == IInv /\ NInv /\ [NotedNext]_<<vars, noted>> => NInv'
  <1> SUFFICES ASSUME IInv, NInv, [NotedNext]_<<vars, noted>> PROVE NInv'
    OBVIOUS
  <1>1. Keeps /\ UnbornAreBlank'
    BY NextInv, BlankKept DEF NInv, NotedNext, noted
  <1>2. CASE UNCHANGED <<vars, noted>>
    BY <1>1, <1>2, StutterGood DEF NInv, noted
  <1>3. CASE NotedNext
    <2>1. torn' \subseteq disturbed' /\ disturbed' \subseteq Listings
      BY <1>3 DEF NotedNext, Note, NInv
    <2>2. ASSUME NEW k \in Listings \ disturbed'
          PROVE  Good(k) /\ ~Overlap(k)' /\ ~Dies(k) /\ ~Reopens(k)
      BY <1>3, <2>2 DEF NotedNext, Note, NInv
    <2> QED BY <1>1, <1>3, <2>1, <2>2, NextGood DEF NInv, NotedNext
  <1> QED
    BY <1>2, <1>3

(* The histories watch the marketplace and take no part in it. *)
LEMMA NotedIsSpec == NotedSpec => Spec
  <1>1. NotedInit => Init
    BY DEF NotedInit
  <1>2. [NotedNext]_<<vars, noted>> => [Next]_vars
    BY DEF NotedNext, vars, noted
  <1> QED
    BY <1>1, <1>2, PTL DEF NotedSpec, Spec

LEMMA NotedInvariance == NotedSpec => [](IInv /\ NInv)
  <1>1. IInv /\ NInv /\ [NotedNext]_<<vars, noted>> => NInv'
    BY NextNInv
  <1> QED
    BY <1>1, InitNInv, NotedIsSpec, Invariance, PTL DEF NotedSpec

(* The rows a good listing has. *)
LEMMA GoodRows ==
    ASSUME NEW k, Good(k)
    PROVE  \E h : RowsFit(h, k)
  BY DEF Good, Fits

-----------------------------------------------------------------------------
(* The refinement.  What a step does to the exchanges of a listing that    *)
(* nothing has disturbed is a step of OneReader, or none.                  *)

LEMMA ReaderInit == NotedInit => Reader!Init
  BY DEF NotedInit, Init, Reader!Init, Open, Done, ExchangesOf

LEMMA WritersOfExchanges ==
    ASSUME [Next]_vars
    PROVE  \/ UNCHANGED exchanges
           \/ \E w \in Processes : ExchangeStep(w) \/ ScheduleSave(w)
  <1>1. ASSUME NEW w \in Processes, Step(w)
        PROVE  UNCHANGED exchanges \/ ExchangeStep(w) \/ ScheduleSave(w)
    <2>1. LogStep(w) => UNCHANGED exchanges
      BY DEF LogStep, RemoveAudit, RestoreAudit, RequestNotify, AcceptNotify, DeclineNotify,
         ScheduleNotify, TellParties, CompleteAudit, CompleteNotify, CancelAudit, RateCheck,
         RateInsert, rows
    <2>2. ListingStep(w) \/ RequestStep(w) => UNCHANGED exchanges
      BY DEF ListingStep, PatchSave, RestoreSave, AcceptListing, CompleteListing, CancelListing,
         RequestStep, RequestInsert, ExpireRow, RequestCheck, AcceptRequest, AcceptOthers,
         DeclineRequest, rows
    <2> QED BY <1>1, <2>1, <2>2, StepKinds
  <1>2. ASSUME NEW w \in Processes, Arrive(w) \/ ExpireBegin(w) \/ Crash(w)
        PROVE  UNCHANGED exchanges
    BY <1>2 DEF Arrive, PatchBegin, RemoveWrite, RestoreBegin, RequestBegin, AcceptBegin,
       DeclineBegin, DecisionBegin, ScheduleBegin, CompleteBegin, CancelBegin, ExchangeBegin,
       RateBegin, ExpireBegin, Crash, rows
  <1> QED
    BY <1>1, <1>2 DEF Next, Processes, CreateListing, DeleteListing, Age, vars

BookStep(k) ==
    \/ Reader!Same(k)
    \/ \E e \in ExchangeIds :
           Reader!Promise(k, e) \/ Reader!CallOff(k, e) \/ Reader!HandOver(k, e)

LEMMA BooksStep ==
    ASSUME IInv, NInv, [Next]_vars, NEW k \in Listings \ disturbed
    PROVE  BookStep(k)
  <1>1. ASSUME \A e \in ExchangeIds : SameExchange(e, k) PROVE BookStep(k)
    <2>1. Open(k)' = Open(k) /\ Done(k)' = Done(k)
      BY <1>1, SameBound
    <2> QED BY <2>1 DEF BookStep, Reader!Same
  <1>2. CASE UNCHANGED exchanges
    BY <1>1, <1>2 DEF SameExchange
  <1>3. ASSUME NEW w \in Processes, ExchangeStep(w) \/ ScheduleSave(w), ~WorksOn(w, k)
        PROVE  BookStep(k)
    BY <1>1, <1>3, ExchangeLeaves DEF NInv, Leaves, Same
  <1>4. ASSUME NEW w \in Processes, ExchangeStep(w) \/ ScheduleSave(w), WorksOn(w, k)
        PROVE  BookStep(k)
    <2>1. Fits(handler[w], k)
      BY <1>4 DEF NInv, Good
    <2>2. ASSUME NEW e \in ExchangeIds, AcceptExchange(w, e) PROVE BookStep(k)
      <3>1. Open(k) = {} /\ Done(k) = {} /\ Open(k)' = {e} /\ Done(k)' = {}
        BY <1>4, <2>1, <2>2, AcceptBinds DEF NInv
      <3>2. Reader!Promise(k, e)
        BY <3>1 DEF Reader!Promise
      <3> QED BY <3>2 DEF BookStep
    <2>3. PICK e : e = handler[w].exch
      OBVIOUS
    <2>4. CASE CompleteExchange(w)
      <3>1. /\ e \in ExchangeIds
            /\ Open(k) = {e} /\ Done(k) = {} /\ Open(k)' = {} /\ Done(k)' = {e}
        BY <1>4, <2>1, <2>3, <2>4, CompleteHandsOver
      <3>2. Reader!HandOver(k, e)
        BY <3>1 DEF Reader!HandOver
      <3> QED BY <3>1, <3>2 DEF BookStep
    <2>5. CASE CancelExchange(w)
      <3>1. /\ e \in ExchangeIds
            /\ Open(k) = {e} /\ Done(k) = {} /\ Open(k)' = {} /\ Done(k)' = {}
        BY <1>4, <2>1, <2>3, <2>5, CancelCallsOff
      <3>2. Reader!CallOff(k, e)
        BY <3>1 DEF Reader!CallOff
      <3> QED BY <3>1, <3>2 DEF BookStep
    <2>6. ~ScheduleSave(w)
      BY <1>4, AboutNone DEF ScheduleSave, At, WorksOn
    <2> QED BY <1>4, <2>2, <2>4, <2>5, <2>6 DEF ExchangeStep
  <1> QED
    BY <1>2, <1>3, <1>4, WritersOfExchanges

LEMMA ReaderNext ==
    ASSUME IInv, NInv, [NotedNext]_<<vars, noted>>
    PROVE  [Reader!Next]_(Reader!vars)
  <1>1. disturbed \subseteq disturbed' /\ [Next]_vars
    BY DEF NotedNext, Note, vars, noted
  <1>2. \A k \in Listings \ disturbed' : BookStep(k)
    BY <1>1, BooksStep
  <1>3. Reader!Next
    BY <1>1, <1>2 DEF Reader!Next, BookStep
  <1> QED
    BY <1>3

-----------------------------------------------------------------------------
(* The results. *)

(* Tables, handlers and histories are of their types.                      *)
THEOREM NotedTypes == NotedSpec => []NotedOK
  <1>1. IInv /\ NInv => NotedOK
    BY DEF IInv, NInv, NotedOK
  <1> QED
    BY <1>1, NotedInvariance, PTL

(* A book that nothing disturbed is promised to one reader at a time and   *)
(* handed over once, for any number of readers, books, requests, exchanges *)
(* and processes, although no handler of the marketplace is atomic.        *)
THEOREM OneReaderAtATime == NotedSpec => OneReaderSpec
  <1>1. IInv /\ NInv /\ [NotedNext]_<<vars, noted>> => [Reader!Next]_(Reader!vars)
    BY ReaderNext
  <1> QED
    BY <1>1, NotedInvariance, ReaderInit, PTL DEF NotedSpec, OneReaderSpec, Reader!Spec

(* What the invariant says of a listing nobody is at work on. *)
LEMMA SettledFits ==
    ASSUME NInv, NEW l \in Listings, Settled(l)
    PROVE  /\ listings[l].status = "available" => Free(l)
           /\ listings[l].status = "claimed" => Done(l) # {}
           /\ listings[l].status = "pending" => Open(l) # {}
           /\ (\E r \in RequestIds : Waits(r, l)) => Free(l)
           /\ FiniteRows => \A u \in Users :
                  Cardinality(AcceptedOf(l, u)) = Cardinality(GivenTo(l, u))
  <1>1. RowsFit(Idle, l)
    BY DEF Settled, NInv, Good, Fits
  <1>2. ~Settling(Idle, l) /\ (\A u : ~Owing(Idle, l, u)) /\ Idle.pc = "idle"
    BY DEF Settling, Owing, Idle
  <1> QED
    BY <1>1, <1>2 DEF RowsFit, StatusFits, WaitersMayHope, OneForOne

(* A settled listing is reserved exactly when somebody is promised it, and *)
(* each accepted request has its exchange: the writes of accept, complete  *)
(* and cancel add up, whatever is deleted, removed, restored, expired or   *)
(* edited before, after or beside them.                                    *)
THEOREM StatusesTrue ==
    ASSUME IsFiniteSet(RequestIds), IsFiniteSet(ExchangeIds)
    PROVE  NotedSpec => []StatusTellsTheTruth
  <1>1. IInv /\ NInv => StatusTellsTheTruth
    BY SettledFits DEF StatusTellsTheTruth, FiniteRows
  <1> QED
    BY <1>1, NotedInvariance, PTL

(* Nor does anybody wait for a settled book that is reserved or gone:      *)
(* accept_request declines the rivals before it returns.                   *)
THEOREM NobodyInVain == NotedSpec => []NobodyWaitsInVain
  <1>1. ASSUME IInv, NInv, NEW r \in RequestIds, requests[r].status = "pending",
               Settled(requests[r].listing)
        PROVE  listings[requests[r].listing].status \in {"available", "removed"}
    <2>1. PICK l : l = requests[r].listing
      OBVIOUS
    <2>2. l \in Listings /\ listings[l].status # "unborn"
      BY <1>1, <2>1 DEF IInv, RowsRefer, RequestRefers, Born
    <2>3. Free(l)
      BY <1>1, <2>1, <2>2, SettledFits DEF Waits
    <2>4. listings[l].status \notin {"pending", "claimed"}
      BY <1>1, <2>1, <2>2, <2>3, SettledFits DEF Free, Bound
    <2> QED BY <1>1, <2>1, <2>2, <2>4 DEF IInv, TypeOK, ListingRow, ListingStatus
  <1>2. IInv /\ NInv => NobodyWaitsInVain
    BY <1>1 DEF NobodyWaitsInVain
  <1> QED
    BY <1>2, NotedInvariance, PTL

(* The duplicate check of create_request, a query of its own, is enough    *)
(* as long as the handlers of one listing do not overlap.                  *)
THEOREM RequestsAreOneEach == NotedSpec => []OneRequestEach
  <1>1. ASSUME IInv, NInv, NEW l \in Listings \ disturbed, NEW u \in Users,
               NEW q \in PendingOf(l, u), NEW r \in PendingOf(l, u)
        PROVE  q = r
    BY <1>1, GoodRows DEF NInv, RowsFit, OneEach
  <1>2. IInv /\ NInv => OneRequestEach
    BY <1>1 DEF OneRequestEach
  <1> QED
    BY <1>2, NotedInvariance, PTL

(* Whoever writes a request of an undisturbed listing finds it open. *)
LEMMA DecisionStep ==
    ASSUME IInv, NInv, [Next]_vars, NEW r \in RequestIds, Decided(r),
           requests[r].listing \notin disturbed
    PROVE  requests'[r].status = requests[r].status
  <1>1. PICK k : k = requests[r].listing
    OBVIOUS
  <1>2. k \in Listings \ disturbed /\ requests \in [RequestIds -> RequestRow]
    BY <1>1 DEF Decided, IInv, TypeOK, RowsRefer, RequestRefers, Born
  <1>3. ASSUME NEW w \in Processes, Step(w) PROVE requests'[r].status = requests[r].status
    <2>1. CASE ~WorksOn(w, k)
      <3>1. Leaves(w, k)
        BY <1>2, <1>3, <2>1, StepElsewhere, NextInv DEF NInv
      <3> QED BY <1>1, <3>1 DEF Leaves, Same, SameRequest
    <2>2. CASE WorksOn(w, k)
      <3>1. Knows(handler[w], k)
        BY <1>2, <2>2 DEF NInv, Good, Fits
      <3>2. ASSUME NEW q \in RequestIds, RequestInsert(w, q)
            PROVE  requests'[r].status = requests[r].status
        BY <1>2, <3>2 DEF RequestInsert, Decided
      <3>3. CASE AcceptRequest(w) \/ DeclineRequest(w)
        <4>1. handler[w].req # r
          BY <1>1, <3>1, <3>3 DEF AcceptRequest, DeclineRequest, At, Knows, KnowsRequest, Decided
        <4> QED BY <1>2, <3>3, <4>1 DEF AcceptRequest, DeclineRequest, SetRequest
      <3>4. CASE AcceptOthers(w)
        BY <1>2, <3>4 DEF AcceptOthers, Moot, Decided
      <3>5. ASSUME NEW q \in RequestIds, ExpireRow(w, q)
            PROVE  requests'[r].status = requests[r].status
        <4>1. q # r
          BY <1>1, <3>1, <3>5 DEF ExpireRow, At, Knows, KnowsRequest, Decided
        <4> QED BY <1>2, <3>5, <4>1 DEF ExpireRow, SetRequest
      <3>6. CASE UNCHANGED requests
        BY <3>6
      <3>7. RequestStep(w) \/ UNCHANGED requests
        BY <1>3, StepKinds DEF LogStep, RemoveAudit, RestoreAudit, RequestNotify, AcceptNotify,
           DeclineNotify, ScheduleNotify, TellParties, CompleteAudit, CompleteNotify, CancelAudit,
           RateCheck, RateInsert, rows, ListingStep, PatchSave, RestoreSave, AcceptListing,
           CompleteListing, CancelListing, ExchangeStep, AcceptExchange, CompleteExchange,
           CancelExchange, ScheduleSave
      <3> QED BY <3>2, <3>3, <3>4, <3>5, <3>6, <3>7 DEF RequestStep, RequestCheck, rows
    <2> QED BY <2>1, <2>2
  <1>4. ASSUME NEW q \in RequestIds, Age(q) PROVE requests'[r].status = requests[r].status
    BY <1>2, <1>4 DEF Age, RequestRow
  <1>5. ASSUME NEW w \in Processes, Arrive(w) \/ ExpireBegin(w) \/ Crash(w)
        PROVE  UNCHANGED requests
    BY <1>5 DEF Arrive, PatchBegin, RemoveWrite, RestoreBegin, RequestBegin, AcceptBegin,
       DeclineBegin, DecisionBegin, ScheduleBegin, CompleteBegin, CancelBegin, ExchangeBegin,
       RateBegin, ExpireBegin, Crash, rows
  <1> QED
    BY <1>3, <1>4, <1>5 DEF Next, Processes, CreateListing, DeleteListing, vars

(* A decision, and an expiry, is final while the handlers of its listing   *)
(* do not overlap: save() without a condition overwrites none.             *)
THEOREM DecisionsAreFinal == NotedSpec => DecisionsStand
  <1>1. ASSUME IInv, NInv, [NotedNext]_<<vars, noted>>,
               NEW r \in RequestIds, Decided(r), requests[r].listing \notin disturbed'
        PROVE  requests'[r].status = requests[r].status
    <2>1. requests[r].listing \notin disturbed /\ [Next]_vars
      BY <1>1 DEF NotedNext, Note, vars, noted
    <2> QED BY <1>1, <2>1, DecisionStep
  <1>2. IInv /\ NInv /\ [NotedNext]_<<vars, noted>>
           => [\A r \in RequestIds :
                  Decided(r) /\ requests[r].listing \notin disturbed' =>
                      requests'[r].status = requests[r].status]_<<vars, noted>>
    BY <1>1
  <1> QED
    BY <1>2, NotedInvariance, PTL DEF NotedSpec, DecisionsStand
-----------------------------------------------------------------------------
(* Who has been told, and which handler has still to tell.                 *)

Told(category, u, id) == <<category, u, id>> \in inbox
Tells(category, u, id) == <<category, u, id>> \in inbox'

RequestTold(r) ==
    requests[r].status # "unborn" =>
        \/ requests[r].listing \in torn
        \/ Told("request_received", Donor(requests[r].listing), r)
        \/ \E w \in Processes : /\ At(w, "request.notify")
                                /\ handler[w].req = r
                                /\ handler[w].lst = requests[r].listing

AcceptTold(e) ==
    exchanges[e].status # "unborn" =>
        \/ exchanges[e].listing \in torn
        \/ Told("request_accepted", exchanges[e].recipient, e)
        \/ \E w \in Processes : /\ handler[w].pc \in {"accept.others", "accept.notify"}
                                /\ handler[w].exch = e

TellingBoth == {"complete.listing", "complete.audit", "complete.donor"}

CompleteTold(e) ==
    exchanges[e].status = "completed" =>
        \/ exchanges[e].listing \in torn
        \/ \E w \in Processes : handler[w].pc \in TellingBoth /\ handler[w].exch = e
        \/ /\ Told("exchange_completed", exchanges[e].donor, e)
           /\ \/ Told("exchange_completed", exchanges[e].recipient, e)
              \/ \E w \in Processes : At(w, "complete.recipient") /\ handler[w].exch = e

ToldInv == /\ \A r \in RequestIds : RequestTold(r)
           /\ \A e \in ExchangeIds : AcceptTold(e) /\ CompleteTold(e)

(* A handler that becomes h pays what it owes or goes on owing it, and     *)
(* owes what it has just done.                                             *)
Pays(g, h) ==
    /\ g.pc = "request.notify" => Tells("request_received", Donor(g.lst), g.req)
    /\ g.pc \in {"accept.others", "accept.notify"} =>
          \/ h.pc = "accept.notify" /\ h.exch = g.exch
          \/ Tells("request_accepted", exchanges[g.exch].recipient, g.exch)
    /\ g.pc \in TellingBoth =>
          /\ h.exch = g.exch
          /\ \/ h.pc \in TellingBoth
             \/ /\ h.pc = "complete.recipient"
                /\ Tells("exchange_completed", exchanges[g.exch].donor, g.exch)
    /\ g.pc = "complete.recipient" =>
          Tells("exchange_completed", exchanges[g.exch].recipient, g.exch)

Owes(h) ==
    /\ \A r \in RequestIds : requests[r].status = "unborn" /\ requests'[r].status # "unborn" =>
          h.pc = "request.notify" /\ h.req = r /\ h.lst = requests'[r].listing
    /\ \A e \in ExchangeIds :
          /\ exchanges[e].status = "unborn" /\ exchanges'[e].status # "unborn" =>
                h.pc = "accept.others" /\ h.exch = e
          /\ exchanges[e].status # "completed" /\ exchanges'[e].status = "completed" =>
                h.pc = "complete.listing" /\ h.exch = e

(* A step in which w becomes h, pays what it owed and owes what it did.    *)
LEMMA TellsOn ==
    ASSUME IInv, Keeps, ToldInv, torn \subseteq torn', inbox \subseteq inbox',
           NEW w \in Processes, NEW h, Become(w, h), Pays(handler[w], h), Owes(h)
    PROVE  ToldInv'
  <1>1. \A v \in Processes : handler'[v] = IF v = w THEN h ELSE handler[v]
    BY DEF IInv, TypeOK, Become, Processes
  <1>2. \A l \in Listings : Born(l) => Donor(l)' = Donor(l)
    BY DEF Keeps, KeepsListing, Born, Donor
  <1>3. ASSUME NEW r \in RequestIds, requests'[r].status # "unborn" PROVE RequestTold(r)'
    <2>1. CASE requests[r].status = "unborn"
      BY <1>1, <1>3, <2>1 DEF Owes, RequestTold, At
    <2>2. CASE requests[r].status # "unborn"
      <3>1. /\ requests'[r].listing = requests[r].listing
            /\ Donor(requests[r].listing)' = Donor(requests[r].listing)
        BY <1>2, <2>2 DEF Keeps, KeepsRequest, IInv, RowsRefer, RequestRefers, Born
      <3>4. CASE requests[r].listing \in torn
        BY <3>1, <3>4 DEF RequestTold
      <3>2. CASE Told("request_received", Donor(requests[r].listing), r)
        BY <3>1, <3>2 DEF RequestTold, Told
      <3>3. ASSUME NEW v \in Processes, At(v, "request.notify"), handler[v].req = r,
                   handler[v].lst = requests[r].listing
            PROVE  RequestTold(r)'
        <4>1. CASE v = w
          BY <3>1, <3>3, <4>1 DEF Pays, RequestTold, Told, Tells, At
        <4>2. CASE v # w
          BY <1>1, <3>1, <3>3, <4>2 DEF RequestTold, At
        <4> QED BY <4>1, <4>2
      <3> QED BY <2>2, <3>2, <3>3, <3>4 DEF ToldInv, RequestTold
    <2> QED BY <2>1, <2>2
  <1>4. ASSUME NEW e \in ExchangeIds, exchanges'[e].status # "unborn" PROVE AcceptTold(e)'
    <2>1. CASE exchanges[e].status = "unborn"
      BY <1>1, <1>4, <2>1 DEF Owes, AcceptTold
    <2>2. CASE exchanges[e].status # "unborn"
      <3>1. /\ exchanges'[e].recipient = exchanges[e].recipient
            /\ exchanges'[e].listing = exchanges[e].listing
        BY <2>2 DEF Keeps, KeepsExchange
      <3>4. CASE exchanges[e].listing \in torn
        BY <3>1, <3>4 DEF AcceptTold
      <3>2. CASE Told("request_accepted", exchanges[e].recipient, e)
        BY <3>1, <3>2 DEF AcceptTold, Told
      <3>3. ASSUME NEW v \in Processes, handler[v].pc \in {"accept.others", "accept.notify"},
                   handler[v].exch = e
            PROVE  AcceptTold(e)'
        <4>1. CASE v = w
          BY <1>1, <3>1, <3>3, <4>1 DEF Pays, AcceptTold, Told, Tells
        <4>2. CASE v # w
          BY <1>1, <3>3, <4>2 DEF AcceptTold
        <4> QED BY <4>1, <4>2
      <3> QED BY <2>2, <3>2, <3>3, <3>4 DEF ToldInv, AcceptTold
    <2> QED BY <2>1, <2>2
  <1>5. ASSUME NEW e \in ExchangeIds, exchanges'[e].status = "completed" PROVE CompleteTold(e)'
    <2>1. CASE exchanges[e].status # "completed"
      BY <1>1, <1>5, <2>1 DEF Owes, CompleteTold, TellingBoth
    <2>2. CASE exchanges[e].status = "completed"
      <3>1. /\ exchanges'[e].recipient = exchanges[e].recipient
            /\ exchanges'[e].donor = exchanges[e].donor
            /\ exchanges'[e].listing = exchanges[e].listing
        BY <2>2 DEF Keeps, KeepsExchange
      <3>5. CASE exchanges[e].listing \in torn
        BY <3>1, <3>5 DEF CompleteTold
      <3>2. ASSUME NEW v \in Processes, handler[v].pc \in TellingBoth, handler[v].exch = e
            PROVE  CompleteTold(e)'
        <4>1. CASE v = w
          BY <1>1, <3>1, <3>2, <4>1 DEF Pays, CompleteTold, Told, Tells, At
        <4>2. CASE v # w
          BY <1>1, <3>2, <4>2 DEF CompleteTold
        <4> QED BY <4>1, <4>2
      <3>3. CASE /\ Told("exchange_completed", exchanges[e].donor, e)
                 /\ Told("exchange_completed", exchanges[e].recipient, e)
        BY <3>1, <3>3 DEF CompleteTold, Told
      <3>4. ASSUME Told("exchange_completed", exchanges[e].donor, e),
                   NEW v \in Processes, At(v, "complete.recipient"), handler[v].exch = e
            PROVE  CompleteTold(e)'
        <4>1. CASE v = w
          BY <3>1, <3>4, <4>1 DEF Pays, CompleteTold, Told, Tells, At
        <4>2. CASE v # w
          BY <1>1, <3>1, <3>4, <4>2 DEF CompleteTold, Told, At
        <4> QED BY <4>1, <4>2
      <3> QED BY <2>2, <3>2, <3>3, <3>4, <3>5 DEF ToldInv, CompleteTold
    <2> QED BY <2>1, <2>2
  <1> QED
    BY <1>3, <1>4, <1>5 DEF ToldInv, RequestTold, AcceptTold, CompleteTold

OwingPCs == {"request.notify", "accept.others", "accept.notify", "complete.recipient"}
                \cup TellingBoth

(* No row is born and no exchange completed. *)
NothingNew ==
    /\ \A r \in RequestIds : requests[r].status = "unborn" => requests'[r].status = "unborn"
    /\ \A e \in ExchangeIds :
          /\ exchanges[e].status = "unborn" => exchanges'[e].status = "unborn"
          /\ exchanges'[e].status = "completed" => exchanges[e].status = "completed"

(* A step that makes and completes nothing owes no notice.                 *)
LEMMA OwesNothing ==
    ASSUME NothingNew
    PROVE  \A h : Owes(h)
  BY DEF NothingNew, Owes

(* A handler that is not about to tell anybody has nothing to pay.         *)
LEMMA PaysNothing ==
    ASSUME NEW w, handler[w].pc \notin OwingPCs
    PROVE  \A h : Pays(handler[w], h)
  BY DEF Pays, OwingPCs

(* A call that arrives. *)
LEMMA ArriveTells ==
    ASSUME IInv, Keeps, ToldInv, torn \subseteq torn', NEW w \in Processes,
           Arrive(w) \/ ExpireBegin(w)
    PROVE  ToldInv'
  <1>1. /\ handler[w].pc = "idle" /\ UNCHANGED <<requests, exchanges, inbox>>
        /\ \E h : Become(w, h)
    BY DEF Arrive, PatchBegin, RemoveWrite, RestoreBegin, RequestBegin, AcceptBegin, DeclineBegin,
           DecisionBegin, ScheduleBegin, CompleteBegin, CancelBegin, ExchangeBegin, RateBegin,
           ExpireBegin, rows, logs, At
  <1>2. NothingNew
    BY <1>1 DEF NothingNew
  <1>3. \A h : Pays(handler[w], h)
    BY <1>1, PaysNothing DEF OwingPCs, TellingBoth
  <1> QED
    BY <1>1, <1>2, <1>3, OwesNothing, TellsOn

(* What happens beside the handlers. *)
LEMMA BesideTells ==
    ASSUME IInv, Keeps, ToldInv, torn \subseteq torn',
           \/ \E l \in Listings, u \in Users : CreateListing(l, u)
           \/ \E l \in Listings : DeleteListing(l)
           \/ \E r \in RequestIds : Age(r)
    PROVE  ToldInv'
  <1>1. UNCHANGED <<exchanges, inbox, handler>>
    BY DEF CreateListing, DeleteListing, Age, logs
  <1>2. \A r \in RequestIds : /\ requests'[r].status = requests[r].status
                              /\ requests'[r].listing = requests[r].listing
    BY DEF IInv, TypeOK, RequestRow, CreateListing, DeleteListing, Age
  <1>3. \A r \in RequestIds : requests[r].status # "unborn" =>
            Donor(requests[r].listing)' = Donor(requests[r].listing)
    BY <1>2 DEF Keeps, KeepsListing, IInv, RowsRefer, RequestRefers, Born, Donor
  <1>4. \A r \in RequestIds : RequestTold(r)'
    BY <1>1, <1>2, <1>3 DEF ToldInv, RequestTold, Told, At
  <1>5. \A e \in ExchangeIds : AcceptTold(e)' /\ CompleteTold(e)'
    BY <1>1 DEF ToldInv, AcceptTold, CompleteTold, Told, At
  <1> QED
    BY <1>4, <1>5 DEF ToldInv

(* Steps that tell of nothing, owe nothing and bring nothing about. *)
LEMMA QuietTells ==
    ASSUME IInv, Keeps, ToldInv, torn \subseteq torn', NEW w \in Processes,
           \/ PatchSave(w) \/ RemoveAudit(w) \/ RestoreSave(w) \/ RestoreAudit(w)
           \/ RequestCheck(w) \/ AcceptRequest(w) \/ AcceptListing(w)
           \/ DeclineRequest(w) \/ DeclineNotify(w) \/ ScheduleSave(w) \/ ScheduleNotify(w)
           \/ CancelExchange(w) \/ CancelListing(w) \/ CancelAudit(w)
           \/ RateCheck(w) \/ RateInsert(w)
           \/ \E r \in RequestIds : ExpireRow(w, r)
    PROVE  ToldInv'
  <1>0. requests \in [RequestIds -> RequestRow] /\ exchanges \in [ExchangeIds -> ExchangeRow]
    BY DEF IInv, TypeOK
  <1>1. handler[w].pc \notin OwingPCs /\ \E h : Become(w, h)
    BY DEF PatchSave, RemoveAudit, RestoreSave, RestoreAudit, RequestCheck, AcceptRequest,
           AcceptListing, DeclineRequest, DeclineNotify, ScheduleSave, ScheduleNotify, TellParties,
           CancelExchange, CancelListing, CancelAudit, RateCheck, RateInsert, ExpireRow,
           OwingPCs, TellingBoth, At, Goto, Finish
  <1>2. inbox \subseteq inbox'
    BY DEF PatchSave, RemoveAudit, RestoreSave, RestoreAudit, RequestCheck, AcceptRequest,
           AcceptListing, DeclineRequest, DeclineNotify, ScheduleSave, ScheduleNotify, TellParties,
           CancelExchange, CancelListing, CancelAudit, RateCheck, RateInsert, ExpireRow,
           Notify, rows, logs
  <1>3. NothingNew
    <2>1. CASE UNCHANGED <<requests, exchanges>>
      BY <2>1 DEF NothingNew
    <2>2. CASE \/ AcceptRequest(w) \/ DeclineRequest(w) \/ \E r \in RequestIds : ExpireRow(w, r)
      <3>1. HandlerHolds(handler[w])
        BY DEF IInv, Processes
      <3>2. CASE AcceptRequest(w) \/ DeclineRequest(w)
        BY <1>0, <3>1, <3>2 DEF AcceptRequest, DeclineRequest, HandlerHolds, RequestPCs, At,
             SetRequest, NothingNew, RequestRow
      <3>3. ASSUME NEW r \in RequestIds, ExpireRow(w, r) PROVE NothingNew
        BY <1>0, <3>1, <3>3 DEF ExpireRow, HandlerHolds, SetRequest, NothingNew, RequestRow
      <3> QED BY <2>2, <3>2, <3>3
    <2>3. CASE ScheduleSave(w) \/ CancelExchange(w)
      <3>1. handler[w].exch \in ExchangeIds /\ exchanges[handler[w].exch].status # "unborn"
        BY <2>3 DEF ScheduleSave, CancelExchange, At, IInv, HandlerHolds, ExchangePCs, Processes
      <3> QED BY <1>0, <2>3, <3>1 DEF ScheduleSave, CancelExchange, NothingNew, ExchangeRow
    <2> QED
      BY <2>1, <2>2, <2>3 DEF PatchSave, RemoveAudit, RestoreSave, RestoreAudit, RequestCheck,
           AcceptListing, DeclineNotify, ScheduleNotify, TellParties, CancelListing, CancelAudit,
           RateCheck, RateInsert, rows
  <1> QED
    BY <1>1, <1>2, <1>3, OwesNothing, PaysNothing, TellsOn

(* A request is made, and its owner told. *)
LEMMA RequestTells ==
    ASSUME IInv, Keeps, ToldInv, torn \subseteq torn', NEW w \in Processes,
           (\E r \in RequestIds : RequestInsert(w, r)) \/ RequestNotify(w)
    PROVE  ToldInv'
  <1>0. requests \in [RequestIds -> RequestRow] /\ handler[w] \in Handler
    BY DEF IInv, TypeOK, Processes
  <1>1. ASSUME NEW r \in RequestIds, RequestInsert(w, r) PROVE ToldInv'
    <2>1. PICK h : h = [handler[w] EXCEPT !.pc = "request.notify", !.req = r]
      OBVIOUS
    <2>2. h.pc = "request.notify" /\ h.req = r /\ h.lst = handler[w].lst
      BY <1>0, <2>1 DEF Handler
    <2>3. Owes(h)
      BY <1>0, <1>1, <2>2 DEF RequestInsert, Owes
    <2>4. Pays(handler[w], h)
      BY <1>1, PaysNothing DEF RequestInsert, At, OwingPCs, TellingBoth
    <2> QED BY <1>1, <2>1, <2>3, <2>4, TellsOn DEF RequestInsert, logs
  <1>2. CASE RequestNotify(w)
    <2>1. NothingNew
      BY <1>2 DEF RequestNotify, NothingNew, rows
    <2>2. Pays(handler[w], Idle)
      BY <1>2 DEF RequestNotify, Pays, Tells, Notify, At, TellingBoth
    <2> QED
      BY <1>2, <2>1, <2>2, OwesNothing, TellsOn DEF RequestNotify, Finish, Notify
  <1> QED
    BY <1>1, <1>2

(* An acceptance makes an exchange, and the reader is told. *)
LEMMA AcceptTells ==
    ASSUME IInv, Keeps, ToldInv, torn \subseteq torn', NEW w \in Processes,
           (\E e \in ExchangeIds : AcceptExchange(w, e)) \/ AcceptOthers(w) \/ AcceptNotify(w)
    PROVE  ToldInv'
  <1>0. /\ requests \in [RequestIds -> RequestRow] /\ exchanges \in [ExchangeIds -> ExchangeRow]
        /\ handler[w] \in Handler /\ HandlerHolds(handler[w])
    BY DEF IInv, TypeOK, Processes
  <1>1. ASSUME NEW e \in ExchangeIds, AcceptExchange(w, e) PROVE ToldInv'
    <2>1. PICK h : h = [handler[w] EXCEPT !.pc = "accept.others", !.exch = e]
      OBVIOUS
    <2>2. h.pc = "accept.others" /\ h.exch = e
      BY <1>0, <2>1 DEF Handler
    <2>3. Owes(h)
      BY <1>0, <1>1, <2>2 DEF AcceptExchange, Owes
    <2>4. Pays(handler[w], h)
      BY <1>1, PaysNothing DEF AcceptExchange, At, OwingPCs, TellingBoth
    <2> QED BY <1>1, <2>1, <2>3, <2>4, TellsOn DEF AcceptExchange, logs
  <1>2. CASE AcceptOthers(w)
    <2>1. PICK h : h = [handler[w] EXCEPT !.pc = "accept.notify"]
      OBVIOUS
    <2>2. h.pc = "accept.notify" /\ h.exch = handler[w].exch
      BY <1>0, <2>1 DEF Handler
    <2>3. NothingNew
      BY <1>0, <1>2 DEF AcceptOthers, Moot, NothingNew, RequestRow
    <2>4. Pays(handler[w], h)
      BY <1>2, <2>2 DEF AcceptOthers, Pays, At, TellingBoth
    <2> QED BY <1>2, <2>1, <2>3, <2>4, OwesNothing, TellsOn DEF AcceptOthers, Goto, logs
  <1>3. CASE AcceptNotify(w)
    <2>1. NothingNew
      BY <1>3 DEF AcceptNotify, NothingNew, rows
    <2>2. exchanges[handler[w].exch].recipient = requests[handler[w].req].requester
      BY <1>0, <1>3 DEF AcceptNotify, At, HandlerHolds
    <2>3. Pays(handler[w], Idle)
      BY <1>3, <2>2 DEF AcceptNotify, Pays, Tells, Notify, At, TellingBoth
    <2> QED
      BY <1>3, <2>1, <2>3, OwesNothing, TellsOn DEF AcceptNotify, Finish, Notify
  <1> QED
    BY <1>1, <1>2, <1>3

(* A completion, and its notices to the donor and then to the recipient. *)
LEMMA CompleteTells ==
    ASSUME IInv, Keeps, ToldInv, torn \subseteq torn', NEW w \in Processes,
           CompleteExchange(w) \/ CompleteListing(w) \/ CompleteAudit(w) \/ CompleteNotify(w)
    PROVE  ToldInv'
  <1>0. exchanges \in [ExchangeIds -> ExchangeRow] /\ handler[w] \in Handler
    BY DEF IInv, TypeOK, Processes
  <1>1. \A pc : LET h == [handler[w] EXCEPT !.pc = pc] IN h.pc = pc /\ h.exch = handler[w].exch
    BY <1>0 DEF Handler
  <1>2. CASE CompleteExchange(w)
    <2>1. PICK h : h = [handler[w] EXCEPT !.pc = "complete.listing"]
      OBVIOUS
    <2>2. h.pc = "complete.listing" /\ h.exch = handler[w].exch
      BY <1>1, <2>1
    <2>3. handler[w].exch \in ExchangeIds /\ exchanges[handler[w].exch].status # "unborn"
      BY <1>2 DEF CompleteExchange, At, IInv, HandlerHolds, ExchangePCs, Processes
    <2>4. Owes(h)
      BY <1>0, <1>2, <2>2, <2>3 DEF CompleteExchange, Owes, ExchangeRow
    <2>5. Pays(handler[w], h)
      BY <1>2, PaysNothing DEF CompleteExchange, At, OwingPCs, TellingBoth
    <2> QED BY <1>2, <2>1, <2>4, <2>5, TellsOn DEF CompleteExchange, Goto, logs
  <1>3. CASE CompleteListing(w) \/ CompleteAudit(w)
    <2>1. PICK pc \in {"complete.audit", "complete.donor"} : Goto(w, pc)
      BY <1>3 DEF CompleteListing, CompleteAudit
    <2>2. PICK h : h = [handler[w] EXCEPT !.pc = pc]
      OBVIOUS
    <2>3. h.pc \in {"complete.audit", "complete.donor"} /\ h.exch = handler[w].exch
      BY <1>1, <2>2
    <2>4. NothingNew /\ inbox \subseteq inbox'
      BY <1>3 DEF CompleteListing, CompleteAudit, NothingNew, rows, logs
    <2>5. Pays(handler[w], h)
      BY <1>3, <2>3 DEF CompleteListing, CompleteAudit, Pays, At, TellingBoth
    <2> QED BY <2>1, <2>2, <2>4, <2>5, OwesNothing, TellsOn DEF Goto
  <1>4. CASE CompleteNotify(w)
    <2>1. NothingNew /\ inbox \subseteq inbox'
      BY <1>4 DEF CompleteNotify, TellParties, Notify, NothingNew, rows
    <2>2. CASE At(w, "complete.donor") /\ Goto(w, "complete.recipient")
      <3>1. PICK h : h = [handler[w] EXCEPT !.pc = "complete.recipient"]
        OBVIOUS
      <3>2. h.pc = "complete.recipient" /\ h.exch = handler[w].exch
        BY <1>1, <3>1
      <3>3. Pays(handler[w], h)
        BY <1>4, <2>2, <3>2 DEF CompleteNotify, TellParties, Notify, Pays, Tells, At, TellingBoth
      <3> QED BY <2>1, <2>2, <3>1, <3>3, OwesNothing, TellsOn DEF Goto
    <2>3. CASE At(w, "complete.recipient") /\ Finish(w)
      <3>1. Pays(handler[w], Idle)
        BY <1>4, <2>3 DEF CompleteNotify, TellParties, Notify, Pays, Tells, At, TellingBoth
      <3> QED BY <2>1, <2>3, <3>1, OwesNothing, TellsOn DEF Finish
    <2> QED BY <1>4, <2>2, <2>3 DEF CompleteNotify, TellParties
  <1> QED
    BY <1>2, <1>3, <1>4

(* A process that dies owing a notice tears the listing it is about.      *)
LEMMA CrashTells ==
    ASSUME IInv, ToldInv, torn \subseteq torn', \A l \in Listings : Dies(l) => l \in torn',
           NEW w \in Processes, Crash(w)
    PROVE  ToldInv'
  <1>1. UNCHANGED <<listings, requests, exchanges, inbox>>
    BY DEF Crash, rows, logs
  <1>2. \A v \in Processes : v # w => handler'[v] = handler[v]
    BY DEF IInv, TypeOK, Crash, Finish, Become
  <1>3. \A l \in Listings : HalfDone(handler[w], l) => l \in torn'
    BY DEF Dies
  <1>4. ASSUME NEW r \in RequestIds, requests[r].status # "unborn" PROVE RequestTold(r)'
    <2>1. requests[r].listing \in Listings
      BY <1>4 DEF IInv, RowsRefer, RequestRefers, Born
    <2>2. CASE At(w, "request.notify") /\ handler[w].lst = requests[r].listing
      BY <1>1, <1>3, <2>1, <2>2 DEF RequestTold, HalfDone, At
    <2> QED BY <1>1, <1>2, <1>4, <2>2 DEF ToldInv, RequestTold, Told, Donor, At
  <1>5. ASSUME NEW e \in ExchangeIds, exchanges[e].status # "unborn"
        PROVE  AcceptTold(e)' /\ CompleteTold(e)'
    <2>1. exchanges[e].listing \in Listings
      BY <1>5 DEF IInv, RowsRefer, ExchangeRefers, Born
    <2>2. CASE /\ handler[w].pc \in {"accept.others", "accept.notify", "complete.recipient"}
                                        \cup TellingBoth
               /\ handler[w].exch = e
      <3>1. HandlerHolds(handler[w])
        BY DEF IInv
      <3>2. HalfDone(handler[w], exchanges[e].listing)
        BY <2>2, <3>1 DEF HalfDone, HandlerHolds, TellingBoth
      <3> QED BY <1>1, <1>3, <2>1, <3>2 DEF AcceptTold, CompleteTold
    <2> QED BY <1>1, <1>2, <1>5, <2>2 DEF ToldInv, AcceptTold, CompleteTold, Told, At
  <1> QED
    BY <1>1, <1>4, <1>5 DEF ToldInv, RequestTold, AcceptTold, CompleteTold

LEMMA NextTells ==
    ASSUME IInv, ToldInv, [NotedNext]_<<vars, noted>>
    PROVE  ToldInv'
  <1>0. Keeps /\ torn \subseteq torn'
    BY NextInv DEF NotedNext, Note, noted
  <1>1. CASE UNCHANGED <<vars, noted>>
    BY <1>1 DEF vars, noted, ToldInv, RequestTold, AcceptTold, CompleteTold, Told, Donor, At
  <1>2. ASSUME NEW w \in Processes, Step(w) PROVE ToldInv'
    BY <1>0, <1>2, QuietTells, RequestTells, AcceptTells, CompleteTells DEF Step
  <1>3. ASSUME NEW w \in Processes, Arrive(w) \/ ExpireBegin(w) PROVE ToldInv'
    BY <1>0, <1>3, ArriveTells
  <1>4. ASSUME NEW w \in Processes, NotedNext, Crash(w) PROVE ToldInv'
    BY <1>0, <1>4, CrashTells DEF NotedNext, Note
  <1>5. ASSUME \/ \E l \in Listings, u \in Users : CreateListing(l, u)
               \/ \E l \in Listings : DeleteListing(l)
               \/ \E r \in RequestIds : Age(r)
        PROVE  ToldInv'
    BY <1>0, <1>5, BesideTells
  <1> QED
    BY <1>1, <1>2, <1>3, <1>4, <1>5 DEF NotedNext, Next, Processes

(* A listing on which no process died with a handler half done, and no     *)
(* handler is half done now: the owner of each request, the reader of each *)
(* acceptance and both parties of each completion have been told, however  *)
(* handlers overlap (the notify calls of apps/requests/services.py and     *)
(* apps/exchanges/services.py).                                            *)
THEOREM DecisionsTold == NotedSpec => []DecisionsAreTold
  <1>1. NotedInit => ToldInv
    BY DEF NotedInit, Init, ToldInv, RequestTold, AcceptTold, CompleteTold
  <1>2. IInv /\ ToldInv /\ [NotedNext]_<<vars, noted>> => ToldInv'
    BY NextTells
  <1>3. ASSUME IInv, ToldInv, NEW r \in RequestIds, requests[r].status # "unborn",
               Finished(requests[r].listing)
        PROVE  <<"request_received", Donor(requests[r].listing), r>> \in inbox
    BY <1>3 DEF ToldInv, RequestTold, Told, Finished, HalfDone, At
  <1>4. ASSUME IInv, ToldInv, NEW e \in ExchangeIds, exchanges[e].status # "unborn",
               Finished(exchanges[e].listing)
        PROVE  /\ <<"request_accepted", exchanges[e].recipient, e>> \in inbox
               /\ exchanges[e].status = "completed" =>
                     \A u \in {exchanges[e].donor, exchanges[e].recipient} :
                         <<"exchange_completed", u, e>> \in inbox
    <2>1. ASSUME NEW w \in Processes, handler[w].exch = e
          PROVE  handler[w].pc \notin {"accept.others", "accept.notify", "complete.recipient"}
                                         \cup TellingBoth
      <3>1. HandlerHolds(handler[w]) /\ ~HalfDone(handler[w], exchanges[e].listing)
        BY <1>4 DEF IInv, Finished
      <3> QED BY <2>1, <3>1 DEF HalfDone, HandlerHolds, TellingBoth
    <2>2. exchanges[e].listing \notin torn
      BY <1>4 DEF Finished
    <2> QED BY <1>4, <2>1, <2>2 DEF ToldInv, AcceptTold, CompleteTold, Told, At
  <1>5. IInv /\ ToldInv => DecisionsAreTold
    BY <1>3, <1>4 DEF DecisionsAreTold
  <1> QED
    BY <1>1, <1>2, <1>5, NotedIsSpec, Invariance, PTL DEF NotedSpec


-----------------------------------------------------------------------------
(* Nothing else disturbs a listing: with one process that does not die,    *)
(* and no moderator who restores, all of the above is about every listing. *)

NoRestore == \A w \in Processes : handler[w].pc # "restore.save"

(* A handler that comes to a write other than a restoration's. *)
LEMMA BecomeNoRestore ==
    ASSUME HandlerOK, NoRestore, NEW w, NEW h, h.pc # "restore.save", Become(w, h)
    PROVE  NoRestore'
  BY DEF HandlerOK, NoRestore, Become

LEMMA GotoNoRestore ==
    ASSUME HandlerOK, NoRestore, NEW w \in Processes, NEW pc, pc # "restore.save", Goto(w, pc)
    PROVE  NoRestore'
  <1>1. [handler[w] EXCEPT !.pc = pc].pc = pc
    BY DEF HandlerOK, Handler
  <1> QED
    BY <1>1, BecomeNoRestore DEF Goto

LEMMA FinishNoRestore ==
    ASSUME HandlerOK, NoRestore, NEW w, Finish(w)
    PROVE  NoRestore'
  <1>1. Idle.pc # "restore.save"
    BY DEF Idle
  <1> QED
    BY <1>1, BecomeNoRestore DEF Finish

LEMMA StepNoRestore ==
    ASSUME HandlerOK, NoRestore, NEW w \in Processes, Step(w)
    PROVE  NoRestore'
  <1>1. ASSUME LogStep(w) PROVE NoRestore'
    BY <1>1, GotoNoRestore, FinishNoRestore
       DEF LogStep, RemoveAudit, RestoreAudit, RequestNotify, AcceptNotify, DeclineNotify,
           ScheduleNotify, TellParties, CompleteAudit, CompleteNotify, CancelAudit, RateCheck,
           RateInsert
  <1>2. ASSUME ListingStep(w) PROVE NoRestore'
    BY <1>2, GotoNoRestore, FinishNoRestore
       DEF ListingStep, PatchSave, RestoreSave, AcceptListing, CompleteListing, CancelListing
  <1>3. ASSUME RequestStep(w) PROVE NoRestore'
    <2>1. ASSUME NEW r \in RequestIds, RequestInsert(w, r) PROVE NoRestore'
      <3>1. [handler[w] EXCEPT !.pc = "request.notify", !.req = r].pc # "restore.save"
        BY DEF HandlerOK, Handler
      <3> QED BY <2>1, <3>1, BecomeNoRestore DEF RequestInsert
    <2>2. ASSUME NEW r \in RequestIds, ExpireRow(w, r) PROVE NoRestore'
      <3>1. [handler[w] EXCEPT !.todo = handler[w].todo \ {r},
                              !.wasOpen = handler[w].wasOpen \cap (handler[w].todo \ {r})].pc
              # "restore.save"
        BY DEF HandlerOK, Handler, NoRestore
      <3> QED BY <2>2, <3>1, BecomeNoRestore, FinishNoRestore DEF ExpireRow
    <2> QED
      BY <1>3, <2>1, <2>2, GotoNoRestore, FinishNoRestore
         DEF RequestStep, RequestCheck, AcceptRequest, AcceptOthers, DeclineRequest
  <1>4. ASSUME ExchangeStep(w) PROVE NoRestore'
    <2>1. ASSUME NEW e \in ExchangeIds, AcceptExchange(w, e) PROVE NoRestore'
      <3>1. [handler[w] EXCEPT !.pc = "accept.others", !.exch = e].pc # "restore.save"
        BY DEF HandlerOK, Handler
      <3> QED BY <2>1, <3>1, BecomeNoRestore DEF AcceptExchange
    <2> QED
      BY <1>4, <2>1, GotoNoRestore, FinishNoRestore
         DEF ExchangeStep, CompleteExchange, CancelExchange
  <1>5. ASSUME ScheduleSave(w) PROVE NoRestore'
    BY <1>5, GotoNoRestore DEF ScheduleSave
  <1> QED
    BY <1>1, <1>2, <1>3, <1>4, <1>5, StepKinds

LEMMA NextNoRestore ==
    ASSUME HandlerOK, NoRestore, "moderate" \notin Endpoints, [Next]_vars
    PROVE  NoRestore'
  <1>1. ASSUME NEW w \in Web, Arrive(w) PROVE NoRestore'
    BY <1>1, BecomeNoRestore
       DEF Arrive, PatchBegin, RequestBegin, AcceptBegin, DeclineBegin, DecisionBegin,
           ScheduleBegin, CompleteBegin, CancelBegin, ExchangeBegin, RateBegin, Idle
  <1>2. ASSUME NEW w \in Cron, ExpireBegin(w) PROVE NoRestore'
    BY <1>2, BecomeNoRestore DEF ExpireBegin, Idle
  <1>3. ASSUME NEW w \in Processes, Crash(w) PROVE NoRestore'
    BY <1>3, FinishNoRestore DEF Crash
  <1>4. ASSUME UNCHANGED handler PROVE NoRestore'
    BY <1>4 DEF NoRestore
  <1> QED
    BY <1>1, <1>2, <1>3, <1>4, StepNoRestore DEF Next, vars, CreateListing, DeleteListing, Age

(* With one process that finishes what it begins, and without moderators,  *)
(* no listing is ever disturbed: the theorems of this part then hold of    *)
(* every listing.                                                          *)
THEOREM NothingElseDisturbs ==
    ASSUME NEW p, Processes = {p}, ~Crashes, "moderate" \notin Endpoints
    PROVE  NotedSpec => [](disturbed = {})
  <1>1. NotedInit => NoRestore /\ disturbed = {}
    BY DEF NotedInit, Init, NoRestore, Idle
  <1>2. IInv /\ NoRestore /\ disturbed = {} /\ [NotedNext]_<<vars, noted>>
            => (NoRestore /\ disturbed = {})'
    <2> SUFFICES ASSUME IInv, NoRestore, disturbed = {}, [NotedNext]_<<vars, noted>>
                 PROVE  NoRestore' /\ disturbed' = {}
      OBVIOUS
    <2>1. NoRestore'
      BY NextNoRestore, TypeParts DEF IInv, NotedNext, vars, noted
    <2>2. \A l : ~Overlap(l)' /\ ~Dies(l) /\ ~Reopens(l)
      BY DEF Overlap, Dies, Crash, Reopens, RestoreSave, At, NoRestore
    <2> QED BY <2>1, <2>2 DEF NotedNext, Note, noted
  <1> QED
    BY <1>1, <1>2, NotedIsSpec, Invariance, PTL DEF NotedSpec

-----------------------------------------------------------------------------
(***************************************************************************)
(* 3. The daily command (DailyJobs).  Beside it the marketplace does what   *)
(* it does without it: each step of DailyNext is a step of the             *)
(* marketplace, the end of a process, or leaves the marketplace alone.     *)
(*                                                                         *)
(* All that is said of the reminders and of the statistics is said         *)
(* relative to Clock, the ticks since the start of the last run that has   *)
(* looked: how far an appointment is away and how old a snapshot is change *)
(* with it, and when the next run looks, a period has passed.              *)
(***************************************************************************)

(* Which steps of the marketplace the steps of DailyNext take. *)
LEMMA MarketMoves ==
    ASSUME [DailyNext]_allVars
    PROVE  \/ \E l \in Listings, u \in Users : CreateListing(l, u)
           \/ \E r \in RequestIds : Age(r)
           \/ \E w \in Web : Arrive(w)
           \/ \E p \in Processes : Step(p)
           \/ \E c \in Cron : ExpireBegin(c)
           \/ \E c \in Cron : JobDies(c)
           \/ UNCHANGED vars
  <1>1. CASE Owners
    BY <1>1 DEF Owners
  <1>2. ASSUME NEW w \in Web, Serve(w) \/ GetStats(w) \/ AdminRecompute(w)
        PROVE  Arrive(w) \/ Step(w) \/ UNCHANGED vars
    BY <1>2 DEF Serve, Agree, GetStats, AdminRecompute, Step
  <1>3. ASSUME NEW p \in Processes, StatsStep(p) PROVE UNCHANGED vars
    BY <1>3 DEF StatsStep, StatsFill, StatsCount, StatsInsert, StatsCache
  <1>4. ASSUME NEW c \in Cron, JobStep(c)
        PROVE  ExpireBegin(c) \/ Step(c) \/ UNCHANGED vars
    BY <1>4 DEF JobStep, JobExpire, JobExpireRow, JobStats, JobRemind, JobTell, JobPhotos, Step
  <1>5. CASE JobStart \/ Tick \/ UNCHANGED allVars
    BY <1>5 DEF JobStart, Tick, allVars
  <1> QED
    BY <1>1, <1>2, <1>3, <1>4, <1>5 DEF DailyNext, Processes

(* A run of the command that dies leaves the rows as they are. *)
LEMMA JobDiesInv ==
    ASSUME IInv, NEW c \in Cron, JobDies(c)
    PROVE  Keeps /\ IInv'
  <1>1. HandlerHolds(Idle)
    BY DEF HandlerHolds, Idle, ListingPCs, RequestPCs, DecidedPCs, ExchangePCs, ScheduledPCs,
         CompletedPCs
  <1>2. c \in Processes /\ Become(c, Idle) /\ UNCHANGED <<rows, ratings, logs>>
    BY DEF JobDies, Become, Processes
  <1> QED
    BY <1>1, <1>2, IdleIsHandler, RowsAloneInv

(* Every step beside the command keeps the invariant of the marketplace. *)
LEMMA DailyKeeps == IInv /\ [DailyNext]_allVars => Keeps /\ IInv'
  <1> SUFFICES ASSUME IInv, [DailyNext]_allVars PROVE Keeps /\ IInv'
    OBVIOUS
  <1> QED
    BY MarketMoves, CreateInv, AgeInv, ArriveInv, StepInv, ExpireBeginInv, JobDiesInv, StutterInv

(* All that is proved of the marketplace's states holds while the daily    *)
(* command runs beside it, dies and is started again.                      *)
THEOREM DailyInvariance == DailySpec => []IInv
  <1>1. DailyInit => IInv
    BY InitInv DEF DailyInit
  <1> QED
    BY <1>1, DailyKeeps, PTL DEF DailySpec

(* What a step does to the record of the command.                          *)
JobKeeps == /\ job.stage # "off" => job.since <= Late
            /\ job.stage \in {"donor", "recipient"} => job.exch \in ExchangeIds \ job.todo
            /\ job.stage \notin {"remind", "donor", "recipient"} => job.todo = {}
JobOK == job \in Job /\ JobKeeps

(* The command goes through its stages within Late, and only while it sends *)
(* reminders has it exchanges to remind of.                                *)
LEMMA JobStepOK ==
    ASSUME JobOK, [DailyNext]_allVars
    PROVE  JobOK'
  <1> USE TimesAssumption, LateAssumption, DeathsAssumption DEF JobOK, JobKeeps, Job, Stages
  <1>1. CASE UNCHANGED job
    BY <1>1
  <1>2. CASE JobStart
    <2>1. job' = [stage |-> "expire", since |-> 0, todo |-> {}, exch |-> job.exch,
                  died |-> job.died]
      BY <1>2 DEF JobStart, Stage
    <2> QED
      BY <2>1
  <1>3. CASE Tick
    <2>1. job' = [stage |-> job.stage, since |-> job.since + 1, todo |-> job.todo,
                  exch |-> job.exch, died |-> job.died]
      BY <1>3 DEF Tick
    <2>2. job.since \in 0..Period /\ job.since < (IF job.stage = "off" THEN Period ELSE Late)
      BY <1>3 DEF Tick, Stage
    <2>3. job.since + 1 \in 0..Period /\ (job.stage # "off" => job.since + 1 <= Late)
      BY <2>2
    <2> QED
      BY <2>1, <2>3
  <1>4. ASSUME NEW c \in Cron, JobExpire(c) \/ JobExpireRow(c) \/ JobPhotos(c) PROVE JobOK'
    BY <1>4 DEF JobExpire, JobExpireRow, JobPhotos, GoToStage, Stage
  <1>5. ASSUME NEW c \in Cron, JobStats(c) PROVE JobOK'
    BY <1>5 DEF JobStats, Upcoming, Stage
  <1>6. CASE JobRemind
    <2>1. CASE job' = [job EXCEPT !.stage = "photos"] /\ job.todo = {}
      BY <1>6, <2>1 DEF JobRemind, Stage
    <2>2. ASSUME NEW e \in job.todo,
                 job' = [job EXCEPT !.stage = "donor", !.exch = e, !.todo = @ \ {e}]
          PROVE  JobOK'
      <3>1. job' = [stage |-> "donor", since |-> job.since, todo |-> job.todo \ {e}, exch |-> e,
                    died |-> job.died]
        BY <1>6, <2>2 DEF JobRemind, Stage
      <3> QED
        BY <3>1
    <2> QED
      BY <1>6, <2>1, <2>2 DEF JobRemind, GoToStage
  <1>7. CASE JobTell
    BY <1>7 DEF JobTell, GoToStage, Stage
  <1>8. ASSUME NEW c \in Cron, JobDies(c) PROVE JobOK'
    <2>1. job' = [stage |-> "off", since |-> job.since, todo |-> {}, exch |-> None,
                  died |-> job.died + 1]
      BY <1>8 DEF JobDies, Stage
    <2>2. job.died + 1 \in 0..Deaths
      BY <1>8 DEF JobDies
    <2> QED
      BY <2>1, <2>2
  <1>9. Owners \/ (\E w \in Web : Serve(w) \/ GetStats(w) \/ AdminRecompute(w))
            \/ (\E p \in Processes : StatsStep(p)) \/ UNCHANGED allVars => UNCHANGED job
    BY DEF Owners, Serve, Agree, GetStats, AdminRecompute, StatsStep, StatsFill, StatsCount,
         StatsInsert, StatsCache, allVars, dailyVars
  <1> QED
    BY <1>1, <1>2, <1>3, <1>4, <1>5, <1>6, <1>7, <1>8, <1>9 DEF DailyNext, JobStep

(* The command has not begun. *)
LEMMA JobInit == DailyInit => JobOK
  BY TimesAssumption, DeathsAssumption DEF DailyInit, JobOK, JobKeeps, Job, Stages

(* The process of the command is idle or in the middle of the expiry. *)
CronHolds == \A c \in Cron : handler[c] = Idle \/ handler[c].pc = "expire.row"

(* A process only ever moves its own handler. *)
LEMMA OthersStay ==
    ASSUME IInv, NEW w \in Processes, Arrive(w) \/ ExpireBegin(w) \/ Step(w)
    PROVE  \A v \in Processes \ {w} : handler'[v] = handler[v]
  <1>1. handler \in [Processes -> Handler]
    BY TypeParts DEF IInv, HandlerOK
  <1> USE <1>1 DEF Become, Goto, Finish
  <1>2. CASE Arrive(w) \/ ExpireBegin(w)
    BY <1>2 DEF Arrive, ExpireBegin, PatchBegin, RemoveWrite, RestoreBegin, RequestBegin,
         AcceptBegin, DeclineBegin, DecisionBegin, ScheduleBegin, CompleteBegin, CancelBegin,
         ExchangeBegin, RateBegin
  <1>3. CASE Step(w)
    BY <1>3 DEF Step, PatchSave, RemoveAudit, RestoreSave, RestoreAudit, RequestCheck,
         RequestInsert, RequestNotify, AcceptRequest, AcceptListing, AcceptExchange, AcceptOthers,
         AcceptNotify, DeclineRequest, DeclineNotify, ScheduleSave, ScheduleNotify, TellParties,
         CompleteExchange, CompleteListing, CompleteAudit, CompleteNotify, CancelExchange,
         CancelListing, CancelAudit, RateCheck, RateInsert, ExpireRow
  <1> QED BY <1>2, <1>3

(* A run dies in a process that crashes or is between two handlers. *)
LEMMA CronDies ==
    ASSUME IInv, CronHolds, NEW c \in Cron, Crashes, JobDies(c)
    PROVE  Crash(c) \/ UNCHANGED vars
  <1>1. handler \in [Processes -> Handler] /\ c \in Processes
    BY TypeParts DEF IInv, HandlerOK, Processes
  <1>2. CASE handler[c] = Idle
    <2>1. handler' = handler
      BY <1>1, <1>2 DEF JobDies
    <2> QED
      BY <2>1 DEF JobDies, vars, rows, logs
  <1>3. CASE handler[c] # Idle
    BY <1>3 DEF CronHolds, JobDies, Crash, At, Finish, Become
  <1> QED BY <1>2, <1>3

(* Only the expiry runs in the process of the command. *)
LEMMA CronStep ==
    ASSUME IInv, CronHolds, Cron \cap Web = {}, [DailyNext]_allVars
    PROVE  CronHolds'
  <1> SUFFICES ASSUME NEW c \in Cron PROVE (handler[c] = Idle \/ handler[c].pc = "expire.row")'
    BY DEF CronHolds
  <1>1. handler \in [Processes -> Handler] /\ c \in Processes /\ c \notin Web
    BY TypeParts DEF IInv, HandlerOK, Processes
  <1>2. CASE \E l \in Listings, u \in Users : CreateListing(l, u)
    BY <1>2 DEF CreateListing, CronHolds
  <1>3. CASE \E r \in RequestIds : Age(r)
    BY <1>3 DEF Age, CronHolds
  <1>4. ASSUME NEW w \in Processes, w # c, Arrive(w) \/ ExpireBegin(w) \/ Step(w)
        PROVE  handler'[c] = handler[c]
    BY <1>1, <1>4, OthersStay
  <1>5. CASE ExpireBegin(c)
    BY <1>1, <1>5 DEF ExpireBegin, Become, Idle
  <1>6. CASE Step(c)
    <2>1. At(c, "idle") \/ At(c, "expire.row")
      BY DEF CronHolds, At, Idle
    <2>2. PICK r \in RequestIds : ExpireRow(c, r)
      BY <1>6, <2>1 DEF At, Step, PatchSave, RemoveAudit, RestoreSave, RestoreAudit, RequestCheck,
         RequestInsert, RequestNotify, AcceptRequest, AcceptListing, AcceptExchange, AcceptOthers,
         AcceptNotify, DeclineRequest, DeclineNotify, ScheduleSave, ScheduleNotify, TellParties,
         CompleteExchange, CompleteListing, CompleteAudit, CompleteNotify, CancelExchange,
         CancelListing, CancelAudit, RateCheck, RateInsert
    <2> QED
      BY <1>1, <2>2 DEF ExpireRow, Finish, Become, At, Handler
  <1>7. ASSUME NEW d \in Cron, JobDies(d)
        PROVE  handler'[c] = handler[c] \/ handler'[c] = Idle
    BY <1>1, <1>7 DEF JobDies
  <1>8. CASE UNCHANGED vars
    BY <1>8 DEF vars, CronHolds
  <1> QED
    BY <1>1, <1>2, <1>3, <1>4, <1>5, <1>6, <1>7, <1>8, MarketMoves DEF CronHolds, Processes

(* The marketplace beside the daily command implements the marketplace: a   *)
(* run that dies is a crash of its process, or dies between two handlers.  *)
THEOREM DailyImplementsMarketplace ==
    ASSUME Cron \cap Web = {}, "expire" \in Endpoints, Deaths > 0 => Crashes
    PROVE  DailySpec => Spec
  <1> DEFINE Held == IInv /\ CronHolds /\ JobOK
  <1>1. DailyInit => Init /\ Held
    BY InitInv, JobInit DEF DailyInit, Init, CronHolds, Processes
  <1>2. Held /\ [DailyNext]_allVars => Held'
    <2> SUFFICES ASSUME Held, [DailyNext]_allVars PROVE Held'
      OBVIOUS
    <2>1. IInv' /\ CronHolds'
      BY DailyKeeps, CronStep
    <2>2. JobOK'
      BY JobStepOK
    <2> QED BY <2>1, <2>2
  <1>3. Held /\ [DailyNext]_allVars => [Next]_vars
    <2> SUFFICES ASSUME Held, [DailyNext]_allVars PROVE [Next]_vars
      OBVIOUS
    <2>1. ASSUME NEW c \in Cron, JobDies(c) PROVE Crash(c) \/ UNCHANGED vars
      <3>1. Crashes
        BY <2>1, DeathsAssumption DEF JobOK, Job, JobDies
      <3> QED
        BY <2>1, <3>1, CronDies
    <2> QED
      BY <2>1, MarketMoves DEF Next, Processes
  <1> HIDE DEF Held
  <1> QED
    BY <1>1, <1>2, <1>3, PTL DEF DailySpec, Spec

-----------------------------------------------------------------------------
(* Type correctness of what the command adds.                              *)

Reach == Window + Late
Runs == Reach \div Period

(* How many runs of the command can find an appointment in their window. *)
LEMMA RunsOK == /\ Runs \in Nat /\ Many = Runs + 3
                /\ \A n \in Nat : n * Period <= Reach => n <= Runs
  <1> DEFINE q == Reach \div Period
  <1>0. Reach \in Nat
    BY TimesAssumption, LateAssumption DEF Reach
  <1>1. q \in Int /\ q * Period <= Reach /\ Reach < (q + 1) * Period
    BY <1>0, TimesAssumption
  <1>2. q >= 0
    <2>1. CASE q + 1 <= 0
      <3>1. (q + 1) * Period <= 0
        BY <1>0, <1>1, <2>1, TimesAssumption
      <3> QED
        BY <1>0, <1>1, <3>1, TimesAssumption
    <2> QED
      BY <1>1, <2>1
  <1>3. ASSUME NEW n \in Nat, n * Period <= Reach PROVE n <= q
    <2>1. CASE n >= q + 1
      <3>1. n * Period >= (q + 1) * Period
        BY <1>0, <1>1, <2>1, TimesAssumption
      <3> QED
        BY <1>0, <1>1, <1>3, <3>1, TimesAssumption
    <2> QED
      BY <1>1, <2>1
  <1>4. Runs = q
    BY DEF Runs
  <1> HIDE DEF q
  <1> QED
    BY <1>1, <1>2, <1>3, <1>4 DEF Many, Runs, Reach

(* What a step that adds one, up to a bound, arrives at. *)
LEMMA CappedOK == \A n, bound \in Nat : Capped(n, bound) \in 0..bound /\ Capped(n, bound) <= n
  BY DEF Capped

(* The bound on ages is a number, and beyond what the command leaves. *)
LEMMA OldOK == Old \in Nat /\ Period <= Old
  BY TimesAssumption, LateAssumption DEF Old

SnapshotsOK == /\ newest \in Snapshot \cup {None}
               /\ cached \in [Processes -> Entry \cup {None}]
               /\ stats \in [Processes -> Stats]

(* The count of completed exchanges fits its column. *)
LEMMA CompletedOK ==
    ASSUME IsFiniteSet(ExchangeIds)
    PROVE  /\ Completed \in 0..Cardinality(ExchangeIds)
           /\ Blank \in Snapshot /\ NoStats \in Stats
           /\ [completed |-> Completed, age |-> 0] \in Snapshot
  <1> DEFINE done == {e \in ExchangeIds : exchanges[e].status = "completed"}
  <1>1. Cardinality(done) \in Nat /\ Cardinality(ExchangeIds) \in Nat
        /\ Cardinality(done) <= Cardinality(ExchangeIds)
    BY FS_Subset, FS_CardinalityType
  <1> QED
    BY <1>1, OldOK DEF Completed, Blank, NoStats, Snapshot, Stats

(* A process that goes on with the statistics. *)
LEMMA StatsBecomeOK ==
    ASSUME stats \in [Processes -> Stats], NEW p, NEW s \in Snapshot,
           NEW pc \in {"idle", "count", "insert", "cache", "fill"}, StatsBecome(p, pc, s)
    PROVE  stats' \in [Processes -> Stats]
  BY DEF StatsBecome, Stats

(* A process that caches a snapshot. *)
LEMMA CacheSetOK ==
    ASSUME cached \in [Processes -> Entry \cup {None}], NEW p, NEW s \in Snapshot, CacheSet(p, s)
    PROVE  cached' \in [Processes -> Entry \cup {None}]
  <1>1. [completed |-> s.completed, age |-> s.age, left |-> TTL] \in Entry
    BY TimesAssumption DEF Snapshot, Entry
  <1> QED
    BY <1>1 DEF CacheSet

(* The snapshots and the cache entries grow older, and entries expire. *)
LEMMA TickSnapshots ==
    ASSUME SnapshotsOK, Tick
    PROVE  SnapshotsOK'
  <1>1. newest' \in Snapshot \cup {None}
    <2>1. CASE newest = None
      BY <2>1 DEF Tick
    <2>2. CASE newest # None
      <3>1. newest \in Snapshot /\ newest' = [newest EXCEPT !.age = Capped(@ + 1, Old)]
        BY <2>2 DEF Tick, SnapshotsOK
      <3>2. Capped(newest.age + 1, Old) \in 0..Old
        BY <3>1, CappedOK, OldOK DEF Snapshot
      <3> QED
        BY <3>1, <3>2 DEF Snapshot
    <2> QED BY <2>1, <2>2
  <1>2. ASSUME NEW p \in Processes PROVE cached'[p] \in Entry \cup {None}
    <2>1. CASE cached[p] = None \/ cached[p].left = 1
      BY <2>1 DEF Tick
    <2>2. CASE ~(cached[p] = None \/ cached[p].left = 1)
      <3>1. /\ cached[p] \in Entry /\ cached[p].left # 1
            /\ cached'[p] = [cached[p] EXCEPT !.age = Capped(@ + 1, Old), !.left = @ - 1]
        BY <2>2 DEF Tick, SnapshotsOK
      <3>2. cached[p].age \in Nat /\ cached[p].left \in 1..TTL
        BY <3>1 DEF Entry
      <3>3. Capped(cached[p].age + 1, Old) \in 0..Old /\ cached[p].left - 1 \in 1..TTL
        BY <3>1, <3>2, CappedOK, OldOK, TimesAssumption
      <3> QED
        BY <3>1, <3>3 DEF Entry
    <2> QED BY <2>1, <2>2
  <1>3. cached' \in [Processes -> Entry \cup {None}]
    <2>1. cached' = [p \in Processes |-> cached'[p]]
      BY DEF Tick
    <2> QED BY <1>2, <2>1
  <1> QED
    BY <1>1, <1>3 DEF Tick, SnapshotsOK

(* Every step keeps the snapshots typed. *)
LEMMA SnapshotsStep ==
    ASSUME IsFiniteSet(ExchangeIds), SnapshotsOK, [DailyNext]_allVars
    PROVE  SnapshotsOK'
  <1> USE CompletedOK, StatsBecomeOK, CacheSetOK DEF SnapshotsOK
  <1>1. CASE UNCHANGED <<newest, cached, stats>>
    BY <1>1
  <1>2. ASSUME NEW w \in Web, GetStats(w) \/ AdminRecompute(w) PROVE SnapshotsOK'
    BY <1>2 DEF GetStats, AdminRecompute
  <1>3. ASSUME NEW p \in Processes, StatsStep(p) PROVE SnapshotsOK'
    <2>1. stats[p].snapshot \in Snapshot
      BY DEF Stats
    <2> QED
      BY <1>3, <2>1 DEF StatsStep, StatsFill, StatsCount, StatsInsert, StatsCache
  <1>4. ASSUME NEW c \in Cron, JobExpire(c) \/ JobExpireRow(c) PROVE SnapshotsOK'
    BY <1>4 DEF JobExpire, JobExpireRow
  <1>5. ASSUME NEW c \in Cron, JobPhotos(c) \/ JobDies(c) PROVE SnapshotsOK'
    BY <1>5 DEF JobPhotos, JobDies, JobOver
  <1>6. CASE Tick
    BY <1>6, TickSnapshots
  <1>7. Owners \/ (\E w \in Web : Serve(w)) \/ JobStart \/ JobRemind \/ JobTell
            \/ (\E c \in Cron : JobStats(c)) \/ UNCHANGED allVars
            => UNCHANGED <<newest, cached, stats>>
    BY DEF Owners, Serve, Agree, JobStart, JobRemind, JobTell, JobStats, allVars, dailyVars
  <1> QED
    BY <1>1, <1>2, <1>3, <1>4, <1>5, <1>6, <1>7 DEF DailyNext, JobStep

(* The appointments. *)
AgendaOK == agenda \in [ExchangeIds -> Agenda]

(* A notice counts one more reminder. *)
LEMMA TellOK ==
    ASSUME AgendaOK, JobTell
    PROVE  AgendaOK'
  <1> DEFINE e == job.exch
  <1>1. Many \in Nat
    BY RunsOK
  <1>2. CASE e \notin ExchangeIds
    BY <1>2 DEF JobTell, AgendaOK
  <1>3. CASE e \in ExchangeIds
    <2>1. agenda[e] \in Agenda
      BY <1>3 DEF AgendaOK
    <2>2. agenda[e].donor + 1 \in Nat /\ agenda[e].recipient + 1 \in Nat
      BY <1>1, <2>1 DEF Agenda
    <2>3. /\ Capped(agenda[e].donor + 1, Many) \in 0..Many
          /\ Capped(agenda[e].recipient + 1, Many) \in 0..Many
      BY <1>1, <2>2, CappedOK
    <2>4. /\ [agenda[e] EXCEPT !.donor = Capped(@ + 1, Many)] \in Agenda
          /\ [agenda[e] EXCEPT !.recipient = Capped(@ + 1, Many)] \in Agenda
      BY <2>1, <2>3 DEF Agenda
    <2>5. \/ agenda' = [agenda EXCEPT ![e] = [agenda[e] EXCEPT !.donor = Capped(@ + 1, Many)]]
          \/ agenda' = [agenda EXCEPT ![e] = [agenda[e] EXCEPT !.recipient = Capped(@ + 1, Many)]]
      BY DEF JobTell
    <2> QED
      BY <2>4, <2>5 DEF AgendaOK
  <1> QED BY <1>2, <1>3

(* Every step keeps the appointments typed. *)
LEMMA AgendaStep ==
    ASSUME AgendaOK, [DailyNext]_allVars
    PROVE  AgendaOK'
  <1> USE RunsOK, TimesAssumption DEF AgendaOK, Agenda
  <1>1. CASE UNCHANGED agenda
    BY <1>1
  <1>2. ASSUME NEW w \in Web, Agree(w) PROVE AgendaOK'
    <2>1. PICK t \in 0..Horizon :
              agenda' = [agenda EXCEPT ![handler[w].exch] =
                            [due |-> t, ahead |-> t, donor |-> 0, recipient |-> 0]]
      BY <1>2 DEF Agree
    <2>2. [due |-> t, ahead |-> t, donor |-> 0, recipient |-> 0] \in Agenda
      OBVIOUS
    <2> QED BY <2>1, <2>2
  <1>3. CASE JobTell
    BY <1>3, TellOK
  <1>4. CASE Tick
    <2>1. ASSUME NEW e \in ExchangeIds PROVE agenda'[e] \in Agenda
      <3>1. /\ agenda[e].due \in -1..Horizon
            /\ agenda'[e] = [agenda[e] EXCEPT !.due = IF @ < 0 THEN @ ELSE @ - 1]
        BY <1>4 DEF Tick
      <3>2. (IF agenda[e].due < 0 THEN agenda[e].due ELSE agenda[e].due - 1) \in -1..Horizon
        BY <3>1
      <3> QED BY <3>1, <3>2
    <2> QED
      BY <1>4, <2>1 DEF Tick
  <1>5. Owners \/ (\E w \in Web : (Serve(w) /\ ~Agree(w)) \/ GetStats(w) \/ AdminRecompute(w))
            \/ (\E p \in Processes : StatsStep(p)) \/ JobStart \/ JobRemind
            \/ (\E c \in Cron : JobExpire(c) \/ JobExpireRow(c) \/ JobStats(c) \/ JobPhotos(c)
                                    \/ JobDies(c))
            \/ UNCHANGED allVars
            => UNCHANGED agenda
    BY DEF Owners, Serve, GetStats, AdminRecompute, StatsStep, StatsFill, StatsCount,
         StatsInsert, StatsCache, JobStart, JobRemind, JobExpire, JobExpireRow, JobStats,
         JobPhotos, JobDies, allVars, dailyVars
  <1> QED
    BY <1>1, <1>2, <1>3, <1>4, <1>5 DEF DailyNext, JobStep

(* Type correctness of the command and of what it shares with the web      *)
(* processes: the newest snapshot, the caches and the appointments.        *)
THEOREM DailyTypeCorrect ==
    ASSUME IsFiniteSet(ExchangeIds)
    PROVE  DailySpec => []DailyTypeOK
  <1> DEFINE Held == JobOK /\ SnapshotsOK /\ AgendaOK
  <1>1. DailyInit => Held
    <2>1. DailyInit => SnapshotsOK
      BY CompletedOK DEF DailyInit, SnapshotsOK
    <2>2. DailyInit => AgendaOK
      BY RunsOK, TimesAssumption DEF DailyInit, AgendaOK, Agenda
    <2> QED
      BY <2>1, <2>2, JobInit
  <1>2. Held /\ [DailyNext]_allVars => Held'
    BY JobStepOK, SnapshotsStep, AgendaStep
  <1>3. IInv /\ Held => DailyTypeOK
    BY DEF IInv, JobOK, SnapshotsOK, AgendaOK, DailyTypeOK
  <1> HIDE DEF Held
  <1> QED
    BY <1>1, <1>2, <1>3, DailyInvariance, PTL DEF DailySpec

-----------------------------------------------------------------------------
(* How far the command has come.                                           *)

(* Ticks since the last run was to start that has asked which exchanges to *)
(* remind of, which it does when it has recomputed the statistics.         *)
Clock == IF job.stage \in {"expire", "expiring", "stats"} THEN Period + job.since ELSE job.since

(* The command still has to remind the donor, and the recipient.           *)
DonorOwed(e) == e \in job.todo \/ (job.stage = "donor" /\ job.exch = e)
RecipientOwed(e) == DonorOwed(e) \/ (job.stage = "recipient" /\ job.exch = e)

(* Never more than a period and what a run may be late has passed. *)
LEMMA ClockOK == JobOK => Clock \in 0..(Period + Late) /\ job.since \in 0..Period
  BY TimesAssumption, LateAssumption DEF JobOK, JobKeeps, Job, Clock

(* Only the passing of time, the query of the command, its notices and its *)
(* end change how far it has come.                                         *)
LEMMA JobGoesOn ==
    ASSUME JobOK, [DailyNext]_allVars, ~Tick, ~JobTell,
           \A c \in Cron : ~JobStats(c) /\ ~JobDies(c)
    PROVE  /\ Clock' = Clock /\ job'.died = job.died
           /\ \A e : /\ DonorOwed(e)' <=> DonorOwed(e)
                     /\ RecipientOwed(e)' <=> RecipientOwed(e)
  <1> DEFINE Unmoved == /\ Clock' = Clock /\ job'.died = job.died
                        /\ \A e : /\ DonorOwed(e)' <=> DonorOwed(e)
                                  /\ RecipientOwed(e)' <=> RecipientOwed(e)
  <1> USE TimesAssumption DEF JobOK, JobKeeps, Job, Clock, DonorOwed, RecipientOwed, Stage,
          GoToStage
  <1>1. CASE UNCHANGED job
    BY <1>1
  <1>2. CASE JobStart
    <2>1. job' = [stage |-> "expire", since |-> 0, todo |-> {}, exch |-> job.exch,
                  died |-> job.died]
      BY <1>2 DEF JobStart
    <2> QED BY <1>2, <2>1 DEF JobStart
  <1>3. ASSUME NEW c \in Cron, JobExpire(c) \/ JobExpireRow(c) \/ JobPhotos(c) PROVE Unmoved
    BY <1>3 DEF JobExpire, JobExpireRow, JobPhotos
  <1>4. CASE JobRemind
    <2>1. CASE job' = [job EXCEPT !.stage = "photos"] /\ job.todo = {}
      BY <1>4, <2>1 DEF JobRemind
    <2>2. ASSUME NEW f \in job.todo,
                 job' = [job EXCEPT !.stage = "donor", !.exch = f, !.todo = @ \ {f}]
          PROVE  Unmoved
      <3>1. job' = [stage |-> "donor", since |-> job.since, todo |-> job.todo \ {f}, exch |-> f,
                    died |-> job.died]
        BY <2>2
      <3> QED
        BY <1>4, <3>1 DEF JobRemind
    <2> QED
      BY <1>4, <2>1, <2>2 DEF JobRemind
  <1>5. Owners \/ (\E w \in Web : Serve(w) \/ GetStats(w) \/ AdminRecompute(w))
            \/ (\E p \in Processes : StatsStep(p)) \/ UNCHANGED allVars => UNCHANGED job
    BY DEF Owners, Serve, Agree, GetStats, AdminRecompute, StatsStep, StatsFill, StatsCount,
         StatsInsert, StatsCache, allVars, dailyVars
  <1> QED
    BY <1>1, <1>2, <1>3, <1>4, <1>5 DEF DailyNext, JobStep

(* The other steps, field by field. *)
LEMMA JobMoves ==
    ASSUME JobOK
    PROVE  /\ Tick => /\ job'.stage = job.stage /\ job'.todo = job.todo /\ job'.exch = job.exch
                      /\ job'.died = job.died /\ job'.since = job.since + 1
                      /\ job.since < Period /\ (job.stage # "off" => job.since < Late)
           /\ \A c \in Cron : JobStats(c) =>
                 /\ job.stage = "stats" /\ job'.stage = "remind" /\ job.todo = {}
                 /\ job'.todo = Upcoming /\ job'.since = job.since /\ job'.died = job.died
           /\ JobTell => /\ job'.died = job.died /\ job'.since = job.since /\ job.since <= Late
                         /\ job'.todo = job.todo /\ job.exch \in ExchangeIds \ job.todo
                         /\ \/ /\ job.stage = "donor" /\ job'.stage = "recipient"
                               /\ job'.exch = job.exch
                            \/ job.stage = "recipient" /\ job'.stage = "remind"
           /\ \A c \in Cron : JobDies(c) => /\ job.stage # "off" /\ job'.stage = "off"
                                            /\ job'.todo = {} /\ job'.since = job.since
                                            /\ job'.died = job.died + 1
  <1> USE DEF JobOK, JobKeeps, Job, Stage, GoToStage
  <1>1. ASSUME Tick
        PROVE  /\ job'.stage = job.stage /\ job'.todo = job.todo /\ job'.exch = job.exch
               /\ job'.died = job.died /\ job'.since = job.since + 1
               /\ job.since < Period /\ (job.stage # "off" => job.since < Late)
    <2>1. job' = [stage |-> job.stage, since |-> job.since + 1, todo |-> job.todo,
                  exch |-> job.exch, died |-> job.died]
      BY <1>1 DEF Tick
    <2>2. job.since < (IF job.stage = "off" THEN Period ELSE Late)
      BY <1>1 DEF Tick
    <2>3. job.since \in Nat /\ Period \in Nat /\ Late \in Nat /\ Late <= Period
      BY TimesAssumption, LateAssumption
    <2>4. job.since < Period /\ (job.stage # "off" => job.since < Late)
      BY ONLY <2>2, <2>3
    <2> QED BY <2>1, <2>4
  <1>2. ASSUME NEW c \in Cron, JobStats(c)
        PROVE  /\ job.stage = "stats" /\ job'.stage = "remind" /\ job.todo = {}
               /\ job'.todo = Upcoming /\ job'.since = job.since /\ job'.died = job.died
    <2>1. job' = [stage |-> "remind", since |-> job.since, todo |-> Upcoming, exch |-> job.exch,
                  died |-> job.died]
      BY <1>2 DEF JobStats
    <2> QED BY <1>2, <2>1 DEF JobStats
  <1>3. ASSUME JobTell
        PROVE  /\ job'.died = job.died /\ job'.since = job.since /\ job.since <= Late
               /\ job'.todo = job.todo /\ job.exch \in ExchangeIds \ job.todo
               /\ \/ /\ job.stage = "donor" /\ job'.stage = "recipient" /\ job'.exch = job.exch
                  \/ job.stage = "recipient" /\ job'.stage = "remind"
    BY <1>3 DEF JobTell
  <1>4. ASSUME NEW c \in Cron, JobDies(c)
        PROVE  /\ job.stage # "off" /\ job'.stage = "off" /\ job'.todo = {}
               /\ job'.since = job.since /\ job'.died = job.died + 1
    <2>1. job' = [stage |-> "off", since |-> job.since, todo |-> {}, exch |-> None,
                  died |-> job.died + 1]
      BY <1>4 DEF JobDies
    <2> QED BY <1>4, <2>1 DEF JobDies
  <1> QED BY <1>1, <1>2, <1>3, <1>4

(* While time passes the command owes what it owed. *)
LEMMA TickOwes ==
    ASSUME JobOK, Tick, NEW e
    PROVE  /\ Clock' = Clock + 1
           /\ DonorOwed(e)' <=> DonorOwed(e)
           /\ RecipientOwed(e)' <=> RecipientOwed(e)
  <1>1. Clock' = Clock + 1
    BY JobMoves, TimesAssumption DEF Clock, JobOK, Job
  <1>2. /\ DonorOwed(e)' <=> DonorOwed(e)
        /\ RecipientOwed(e)' <=> RecipientOwed(e)
    BY JobMoves DEF DonorOwed, RecipientOwed
  <1> QED BY <1>1, <1>2

(* While no run has died, none has died before. *)
LEMMA NoDeathBefore ==
    ASSUME JobOK, [DailyNext]_allVars, job'.died = 0
    PROVE  job.died = 0 /\ \A c \in Cron : ~JobDies(c)
  <1>1. job.died \in Nat
    BY DEF JobOK, Job
  <1> QED
    BY <1>1, JobGoesOn, JobMoves

-----------------------------------------------------------------------------
(* How old the statistics are that are served.                             *)

OneCommand == \A c, d \in Cron : c = d

(* The newest snapshot was computed after the command's last recomputation *)
(* was due; the command is about to insert one, or has.                    *)
NewestIsYoung ==
    /\ newest # None => newest.age <= Clock
    /\ \A c \in Cron : job.stage = "stats" =>
          \/ stats[c].pc \in {"count", "insert"}
          \/ newest # None => newest.age <= job.since

(* What a process has counted is new, what it has read is no older than the *)
(* command leaves it, and it caches it for no more than a TTL.             *)
CopiesAreYoung(p) ==
    /\ stats[p].pc \in {"insert", "cache"} => stats[p].snapshot.age = 0
    /\ stats[p].pc = "fill" => stats[p].snapshot.age <= Period + Late
    /\ cached[p] # None => cached[p].age + cached[p].left <= Period + Late + TTL

SnapshotsAreYoung ==
    job.died = 0 => NewestIsYoung /\ \A p \in Processes : CopiesAreYoung(p)

(* Everything grows older at once, and nobody is in the middle of a copy. *)
LEMMA TickYoung ==
    ASSUME JobOK, SnapshotsOK, NewestIsYoung, \A p \in Processes : CopiesAreYoung(p), Tick
    PROVE  NewestIsYoung' /\ \A p \in Processes : CopiesAreYoung(p)'
  <1>1. /\ Clock \in Nat /\ Clock' = Clock + 1
        /\ job.since \in Nat /\ job'.since = job.since + 1 /\ job'.stage = job.stage
    BY JobMoves, TickOwes, ClockOK, TimesAssumption, LateAssumption
  <1>2. newest' # None => /\ newest # None /\ newest.age \in Nat /\ newest'.age \in Nat
                          /\ newest'.age <= newest.age + 1
    <2>1. CASE newest = None
      BY <2>1 DEF Tick
    <2>2. CASE newest # None
      <3>1. newest \in Snapshot /\ newest' = [newest EXCEPT !.age = Capped(@ + 1, Old)]
        BY <2>2 DEF Tick, SnapshotsOK
      <3>2. newest.age \in Nat /\ newest.age + 1 \in Nat
        BY <3>1, OldOK DEF Snapshot
      <3>3. Capped(newest.age + 1, Old) \in Nat /\ Capped(newest.age + 1, Old) <= newest.age + 1
        BY <3>2, OldOK DEF Capped
      <3>4. newest'.age = Capped(newest.age + 1, Old)
        BY <3>1 DEF Snapshot
      <3> QED
        BY <2>2, <3>2, <3>3, <3>4
    <2> QED BY <2>1, <2>2
  <1>4. NewestIsYoung'
    <2>1. newest' # None => newest'.age <= Clock'
      BY <1>1, <1>2 DEF NewestIsYoung
    <2>2. ASSUME NEW c \in Cron, job'.stage = "stats", newest' # None
          PROVE  newest'.age <= job'.since
      <3>1. stats[c].pc = "idle"
        BY DEF Tick, Busy, Processes
      <3>2. newest.age <= job.since
        BY <1>1, <1>2, <2>2, <3>1 DEF NewestIsYoung
      <3> QED
        BY <1>1, <1>2, <2>2, <3>2
    <2> QED
      BY <2>1, <2>2 DEF NewestIsYoung
  <1>3. ASSUME NEW p \in Processes PROVE CopiesAreYoung(p)'
    <2>1. stats'[p] = stats[p]
      BY DEF Tick
    <2>2. ASSUME cached'[p] # None PROVE cached'[p].age + cached'[p].left <= Period + Late + TTL
      <3>1. /\ cached[p] # None /\ cached[p] \in Entry
            /\ cached'[p] = [cached[p] EXCEPT !.age = Capped(@ + 1, Old), !.left = @ - 1]
        BY <2>2 DEF Tick, SnapshotsOK
      <3>2. /\ cached[p].age \in Nat /\ cached[p].age + 1 \in Nat /\ cached[p].left \in Nat
            /\ cached[p].age + cached[p].left <= Period + Late + TTL
        BY <3>1, OldOK, TimesAssumption DEF Entry, CopiesAreYoung
      <3>3. /\ Capped(cached[p].age + 1, Old) \in Nat
            /\ Capped(cached[p].age + 1, Old) <= cached[p].age + 1
        BY <3>2, OldOK DEF Capped
      <3>4. /\ cached'[p].age = Capped(cached[p].age + 1, Old)
            /\ cached'[p].left = cached[p].left - 1
        BY <3>1 DEF Entry
      <3> QED
        BY <3>2, <3>3, <3>4, TimesAssumption, LateAssumption
    <2> QED
      BY <2>1, <2>2 DEF CopiesAreYoung
  <1> QED
    BY <1>3, <1>4

(* What a process is doing about the statistics leaves them young. *)
LEMMA StatsStepYoung ==
    ASSUME JobOK, SnapshotsOK, NewestIsYoung, \A p \in Processes : CopiesAreYoung(p),
           NEW p \in Processes, StatsStep(p)
    PROVE  NewestIsYoung' /\ \A q \in Processes : CopiesAreYoung(q)'
  <1> USE DEF SnapshotsOK, CopiesAreYoung, StatsAt, StatsBecome, Stats, Snapshot
  <1>1. UNCHANGED job /\ Clock' = Clock /\ Clock \in Nat /\ job.since \in Nat
    BY ClockOK, TimesAssumption, LateAssumption DEF Clock, StatsStep, StatsFill, StatsCount, StatsInsert, StatsCache
  <1>2. stats[p].snapshot \in Snapshot /\ stats[p].snapshot.age \in Nat
    BY OldOK
  <1>3. CASE StatsFill(p) \/ StatsCache(p)
    <2>1. stats[p].snapshot.age <= Period + Late
      BY <1>2, <1>3, TimesAssumption, LateAssumption DEF StatsFill, StatsCache
    <2>2. \A q \in Processes : CopiesAreYoung(q)'
      BY <1>2, <1>3, <2>1, TimesAssumption, LateAssumption DEF StatsFill, StatsCache, CacheSet
    <2>3. NewestIsYoung'
      BY <1>1, <1>3 DEF NewestIsYoung, StatsFill, StatsCache, Processes
    <2> QED BY <2>2, <2>3
  <1>4. CASE StatsCount(p)
    <2>1. \A q \in Processes : CopiesAreYoung(q)'
      BY <1>4 DEF StatsCount
    <2>2. NewestIsYoung'
      BY <1>1, <1>4 DEF NewestIsYoung, StatsCount, Processes
    <2> QED BY <2>1, <2>2
  <1>5. CASE StatsInsert(p)
    <2>1. newest' = stats[p].snapshot /\ stats[p].snapshot.age = 0
      BY <1>5 DEF StatsInsert
    <2>2. \A q \in Processes : CopiesAreYoung(q)'
      BY <1>5, <2>1 DEF StatsInsert
    <2>3. NewestIsYoung'
      BY <1>1, <1>5, <2>1, TimesAssumption DEF NewestIsYoung, StatsInsert
    <2> QED BY <2>2, <2>3
  <1> QED
    BY <1>3, <1>4, <1>5 DEF StatsStep

(* The command starts to recompute, and goes on when it has. *)
LEMMA JobStepYoung ==
    ASSUME OneCommand, JobOK, JobOK', SnapshotsOK, NewestIsYoung,
           \A p \in Processes : CopiesAreYoung(p), NEW c \in Cron, JobStep(c)
    PROVE  NewestIsYoung' /\ \A p \in Processes : CopiesAreYoung(p)'
  <1> USE DEF SnapshotsOK, CopiesAreYoung, Stats, Stage, GoToStage
  <1>1. \A d \in Cron : d = c
    BY DEF OneCommand
  <1>2. CASE JobExpire(c) \/ JobExpireRow(c)
    <2>1. Clock' = Clock /\ newest' = newest /\ cached' = cached
      BY <1>2, TimesAssumption DEF JobExpire, JobExpireRow, Clock, JobOK, Job
    <2>2. CASE stats' = stats /\ job'.stage # "stats"
      BY <2>1, <2>2 DEF NewestIsYoung
    <2>3. CASE StatsBecome(c, "count", Blank)
      <3>1. \A p \in Processes : CopiesAreYoung(p)'
        BY <2>1, <2>3 DEF StatsBecome
      <3>2. \A d \in Cron : stats'[d].pc = "count"
        BY <1>1, <2>3 DEF StatsBecome, Processes
      <3> QED
        BY <2>1, <3>1, <3>2 DEF NewestIsYoung
    <2> QED
      BY <1>2, <2>2, <2>3 DEF JobExpire, JobExpireRow, JobOK, Job
  <1>3. CASE JobStats(c)
    <2>1. newest # None => newest.age <= job.since
      BY <1>3 DEF JobStats, NewestIsYoung, Busy
    <2>2. job'.stage = "remind" /\ Clock' = job.since /\ UNCHANGED <<newest, cached, stats>>
      BY <1>3, JobMoves DEF JobStats, Clock
    <2> QED
      BY <2>1, <2>2 DEF NewestIsYoung
  <1>4. CASE JobRemind \/ JobTell \/ JobPhotos(c)
    <2>1. job'.since = job.since
      BY <1>4, JobMoves DEF JobRemind, JobPhotos, JobOK, JobKeeps, Job
    <2>2. Clock' = Clock /\ job'.stage # "stats" /\ newest' = newest /\ stats' = stats
      BY <1>4, <2>1 DEF JobRemind, JobTell, JobPhotos, Clock, JobOK, Job
    <2>3. \A p \in Processes : cached'[p] = cached[p] \/ cached'[p] = None
      BY <1>4 DEF JobRemind, JobTell, JobPhotos, JobOver
    <2> QED
      BY <2>2, <2>3 DEF NewestIsYoung
  <1> QED
    BY <1>2, <1>3, <1>4 DEF JobStep

(* While no run of the command dies, what is cached is young. *)
LEMMA YoungStep ==
    ASSUME OneCommand, JobOK, SnapshotsOK, SnapshotsAreYoung, [DailyNext]_allVars
    PROVE  SnapshotsAreYoung'
  <1> SUFFICES ASSUME job'.died = 0
               PROVE  NewestIsYoung' /\ \A p \in Processes : CopiesAreYoung(p)'
    BY DEF SnapshotsAreYoung
  <1>1. NewestIsYoung /\ (\A p \in Processes : CopiesAreYoung(p)) /\ \A c \in Cron : ~JobDies(c)
    BY NoDeathBefore DEF SnapshotsAreYoung
  <1>2. CASE Tick
    BY <1>1, <1>2, TickYoung
  <1>3. ASSUME NEW p \in Processes, StatsStep(p)
        PROVE  NewestIsYoung' /\ \A q \in Processes : CopiesAreYoung(q)'
    BY <1>1, <1>3, StatsStepYoung
  <1>4. ASSUME NEW c \in Cron, JobStep(c)
        PROVE  NewestIsYoung' /\ \A q \in Processes : CopiesAreYoung(q)'
    BY <1>1, <1>4, JobStepOK, JobStepYoung
  <1>5. ASSUME NEW w \in Web, GetStats(w) \/ AdminRecompute(w)
        PROVE  NewestIsYoung' /\ \A q \in Processes : CopiesAreYoung(q)'
    <2>1. UNCHANGED <<newest, cached, job>> /\ Clock' = Clock /\ Clock <= Period + Late
      BY <1>5, ClockOK DEF GetStats, AdminRecompute, Clock
    <2>2. \/ StatsBecome(w, "count", Blank)
          \/ newest # None /\ newest.age <= Period + Late /\ StatsBecome(w, "fill", newest)
      <3>1. newest # None => newest \in Snapshot /\ newest.age <= Clock
        BY <1>1 DEF NewestIsYoung, SnapshotsOK
      <3>2. newest # None => newest.age <= Period + Late
        BY <2>1, <3>1, OldOK, ClockOK, TimesAssumption, LateAssumption DEF Snapshot
      <3> QED
        BY <1>5, <3>2 DEF GetStats, AdminRecompute
    <2>3. \A q \in Processes : CopiesAreYoung(q)'
      BY <1>1, <2>1, <2>2 DEF CopiesAreYoung, StatsBecome, SnapshotsOK, Stats
    <2>4. NewestIsYoung'
      BY <1>1, <1>5, <2>1, <2>2
         DEF NewestIsYoung, StatsBecome, SnapshotsOK, Stats, Processes, GetStats, AdminRecompute,
             Busy
    <2> QED BY <2>3, <2>4
  <1>6. CASE UNCHANGED <<newest, cached, stats, job>>
    BY <1>1, <1>6 DEF NewestIsYoung, CopiesAreYoung, Clock
  <1>7. CASE JobStart
    <2>1. Clock' = Clock
      <3>1. job.stage = "off" /\ job.since = Period /\ job'.stage = "expire" /\ job'.since = 0
        BY <1>7 DEF JobStart, Stage, JobOK, Job
      <3> QED
        BY <3>1, TimesAssumption DEF Clock
    <2>2. job'.stage # "stats" /\ UNCHANGED <<newest, cached, stats>>
      BY <1>7 DEF JobStart, JobOK, Job
    <2> QED
      BY <1>1, <2>1, <2>2 DEF NewestIsYoung, CopiesAreYoung
  <1>8. Owners \/ (\E w \in Web : Serve(w)) \/ UNCHANGED allVars
            => UNCHANGED <<newest, cached, stats, job>>
    BY DEF Owners, Serve, Agree, allVars, dailyVars
  <1> QED
    BY <1>1, <1>2, <1>3, <1>4, <1>5, <1>6, <1>7, <1>8 DEF DailyNext

(* The statistics that are served are younger than a period, what a run    *)
(* may be late, and a TTL, although the command's recomputation never      *)
(* reaches the caches of the web processes: for any number of these and    *)
(* any such times, if one command runs at a time and none dies.            *)
THEOREM ServedRecent ==
    ASSUME IsFiniteSet(ExchangeIds), OneCommand
    PROVE  DailySpec => []ServedIsRecent
  <1> DEFINE Held == JobOK /\ SnapshotsOK /\ SnapshotsAreYoung
  <1>1. DailyInit => Held
    <2>1. DailyInit => SnapshotsOK
      BY CompletedOK DEF DailyInit, SnapshotsOK
    <2>2. DailyInit => SnapshotsAreYoung
      BY DEF DailyInit, SnapshotsAreYoung, NewestIsYoung, CopiesAreYoung, NoStats
    <2> QED
      BY <2>1, <2>2, JobInit
  <1>2. Held /\ [DailyNext]_allVars => Held'
    BY JobStepOK, SnapshotsStep, YoungStep
  <1>3. Held => ServedIsRecent
    <2> SUFFICES ASSUME Held, job.died = 0, NEW p \in Processes, cached[p] # None
                 PROVE  cached[p].age < Period + Late + TTL
      BY DEF ServedIsRecent
    <2>1. cached[p] \in Entry /\ cached[p].age + cached[p].left <= Period + Late + TTL
      BY DEF SnapshotsOK, SnapshotsAreYoung, CopiesAreYoung
    <2>2. cached[p].age \in Nat /\ cached[p].left \in Nat /\ cached[p].left >= 1
      BY <2>1, OldOK, TimesAssumption DEF Entry
    <2> QED
      BY <2>1, <2>2, TimesAssumption, LateAssumption
  <1> HIDE DEF Held
  <1> QED
    BY <1>1, <1>2, <1>3, PTL DEF DailySpec

-----------------------------------------------------------------------------
(* How often a party is reminded of one appointment.  The k-th reminder     *)
(* means that k - 1 periods have passed since the first, and the first came *)
(* when the books were to change hands within the window, by a run that    *)
(* was late by no more than Late.  An appointment that has passed may      *)
(* still have its reminder under way.                                      *)

Few(sent, due, owed, clock) ==
    /\ sent <= Runs + 2
    /\ owed /\ sent >= 1 =>
          /\ (sent - 1) * Period <= Reach
          /\ due >= 0 => due + clock + (sent - 1) * Period <= Reach
    /\ due >= 0 /\ sent >= 2 /\ ~owed => due + clock + (sent - 2) * Period <= Reach

LEMMA ReachOK == Reach \in Nat /\ \A n \in Int : n * Period \in Int
  BY TimesAssumption, LateAssumption DEF Reach

(* A tick brings the handover as much nearer as it takes the command on.   *)
LEMMA FewTick ==
    ASSUME NEW sent \in Nat, NEW due \in Int, NEW clock \in Nat, NEW owed \in BOOLEAN,
           Few(sent, due, owed, clock)
    PROVE  Few(sent, IF due < 0 THEN due ELSE due - 1, owed, clock + 1)
  <1> PICK next \in Int : next = IF due < 0 THEN due ELSE due - 1
    OBVIOUS
  <1>1. next >= 0 => due >= 0 /\ next + (clock + 1) = due + clock
    OBVIOUS
  <1>2. ASSUME owed, sent >= 1
        PROVE  /\ (sent - 1) * Period <= Reach
               /\ next >= 0 => next + (clock + 1) + (sent - 1) * Period <= Reach
    BY <1>1, <1>2 DEF Few
  <1>3. ASSUME next >= 0, sent >= 2, ~owed
        PROVE  next + (clock + 1) + (sent - 2) * Period <= Reach
    BY <1>1, <1>3 DEF Few
  <1>4. sent <= Runs + 2
    BY DEF Few
  <1>5. Few(sent, next, owed, clock + 1)
    BY <1>2, <1>3, <1>4 DEF Few
  <1> QED BY <1>5

(* The command finds a period gone since it last asked. *)
LEMMA FewQuery ==
    ASSUME NEW sent \in Nat, NEW due \in Int, NEW owed \in BOOLEAN, NEW since \in 0..Late,
           Few(sent, due, FALSE, Period + since), owed => due \in 0..Window
    PROVE  Few(sent, due, owed, since)
  <1>1. sent <= Runs + 2
    BY DEF Few
  <1>2. ASSUME due >= 0, sent >= 2
        PROVE  due + since + Period + (sent - 2) * Period <= Reach
    BY <1>2, TimesAssumption, LateAssumption, ReachOK DEF Few
  <1>3. ASSUME owed, sent >= 1
        PROVE  due + since + (sent - 1) * Period <= Reach
    <2>1. CASE sent = 1
      BY <1>3, <2>1, TimesAssumption, LateAssumption DEF Reach
    <2>2. CASE sent >= 2
      <3>1. due + since + Period + (sent - 2) * Period <= Reach
        BY <1>2, <1>3, <2>2
      <3>2. Period + (sent - 2) * Period = (sent - 1) * Period
        BY TimesAssumption
      <3>3. (sent - 2) * Period \in Int /\ (sent - 1) * Period \in Int
        BY ReachOK
      <3> QED
        BY <3>1, <3>2, <3>3, TimesAssumption, LateAssumption, ReachOK
    <2> QED BY <1>3, <2>1, <2>2
  <1>4. ASSUME owed, sent >= 1 PROVE (sent - 1) * Period <= Reach
    <2>1. (sent - 1) * Period \in Int /\ due \in Nat /\ since \in Nat
      BY <1>4, ReachOK, TimesAssumption, LateAssumption
    <2> QED
      BY <1>3, <1>4, <2>1, ReachOK
  <1>5. ASSUME due >= 0, sent >= 2, ~owed PROVE due + since + (sent - 2) * Period <= Reach
    <2>1. (sent - 2) * Period \in Int
      BY ReachOK
    <2> QED
      BY <1>2, <1>5, <2>1, TimesAssumption, LateAssumption, ReachOK
  <1> QED
    BY <1>1, <1>3, <1>4, <1>5 DEF Few

(* One more reminder, of one that is owed. *)
LEMMA FewTold ==
    ASSUME NEW sent \in Nat, NEW due \in Int, NEW clock \in Nat, Few(sent, due, TRUE, clock)
    PROVE  Few(Capped(sent + 1, Many), due, FALSE, clock)
  <1>1. sent + 1 <= Runs + 2
    <2>1. CASE sent = 0
      BY <2>1, RunsOK
    <2>2. CASE sent >= 1
      <3>1. (sent - 1) * Period <= Reach /\ sent - 1 \in Nat
        BY <2>2 DEF Few
      <3>2. sent - 1 <= Runs
        BY <3>1, RunsOK
      <3> QED
        BY <3>2, RunsOK
    <2> QED BY <2>1, <2>2
  <1>2. Capped(sent + 1, Many) = sent + 1
    BY <1>1, RunsOK DEF Capped
  <1>3. due >= 0 /\ sent + 1 >= 2 => due + clock + ((sent + 1) - 2) * Period <= Reach
    <2>1. (sent + 1) - 2 = sent - 1
      OBVIOUS
    <2>2. due >= 0 /\ sent >= 1 => due + clock + (sent - 1) * Period <= Reach
      BY DEF Few
    <2> QED
      BY <2>1, <2>2
  <1> QED
    BY <1>1, <1>2, <1>3 DEF Few

(* What is owed no more, because the run died, by a clock that goes back. *)
LEMMA FewDropped ==
    ASSUME NEW sent \in Nat, NEW due \in Int, NEW clock \in Nat, NEW owed \in BOOLEAN,
           NEW since \in Nat, since <= clock, Few(sent, due, owed, clock)
    PROVE  Few(sent, due, FALSE, since)
  <1>1. sent <= Runs + 2
    BY DEF Few
  <1>2. ASSUME due >= 0, sent >= 2 PROVE due + since + (sent - 2) * Period <= Reach
    <2>1. (sent - 2) * Period \in Int /\ (sent - 1) * Period = (sent - 2) * Period + Period
      BY TimesAssumption
    <2>2. CASE owed
      <3>1. due + clock + (sent - 1) * Period <= Reach
        BY <1>2, <2>2 DEF Few
      <3> QED
        BY <1>2, <2>1, <3>1, TimesAssumption, ReachOK
    <2>3. CASE ~owed
      <3>1. due + clock + (sent - 2) * Period <= Reach
        BY <1>2, <2>3 DEF Few
      <3> QED
        BY <1>2, <2>1, <3>1, TimesAssumption, ReachOK
    <2> QED BY <2>2, <2>3
  <1> QED
    BY <1>1, <1>2 DEF Few

FewOf(e) == /\ Few(agenda[e].donor, agenda[e].due, DonorOwed(e), Clock)
            /\ Few(agenda[e].recipient, agenda[e].due, RecipientOwed(e), Clock)

(* What is known of an appointment by its type. *)
LEMMA AppointmentOK ==
    ASSUME AgendaOK, NEW e \in ExchangeIds
    PROVE  /\ agenda[e].donor \in Nat /\ agenda[e].recipient \in Nat
           /\ agenda[e].due \in Int /\ agenda[e].due >= -1 /\ agenda[e].ahead \in Nat
           /\ DonorOwed(e) \in BOOLEAN /\ RecipientOwed(e) \in BOOLEAN
  <1>1. agenda[e] \in Agenda /\ Many \in Nat
    BY RunsOK DEF AgendaOK
  <1> QED
    BY <1>1, TimesAssumption DEF Agenda, DonorOwed, RecipientOwed

(* An appointment that is made or moved starts anew, which is why one more *)
(* reminder is possible: the command may just be about to send one.        *)
LEMMA AgreeFew ==
    ASSUME JobOK, AgendaOK, NEW w \in Web, Agree(w), NEW e \in ExchangeIds, FewOf(e)
    PROVE  FewOf(e)'
  <1>1. UNCHANGED job
    BY DEF Agree
  <1>2. PICK t \in 0..Horizon :
            agenda' = [agenda EXCEPT ![handler[w].exch] =
                          [due |-> t, ahead |-> t, donor |-> 0, recipient |-> 0]]
    BY DEF Agree
  <1>3. CASE e = handler[w].exch
    <2>1. agenda'[e].due = t /\ agenda'[e].donor = 0 /\ agenda'[e].recipient = 0
      BY <1>2, <1>3 DEF AgendaOK
    <2> QED
      BY <2>1, RunsOK, TimesAssumption DEF FewOf, Few
  <1>4. CASE e # handler[w].exch
    BY <1>1, <1>2, <1>4 DEF AgendaOK, FewOf, Clock, DonorOwed, RecipientOwed
  <1> QED BY <1>3, <1>4

(* A notice of the command. *)
LEMMA TellFew ==
    ASSUME JobOK, AgendaOK, JobTell, NEW e \in ExchangeIds, FewOf(e)
    PROVE  FewOf(e)'
  <1>1. Clock \in Nat /\ Clock' = Clock
    BY JobMoves, ClockOK, TimesAssumption, LateAssumption DEF Clock
  <1>2. CASE e # job.exch
    <2>1. agenda'[e] = agenda[e]
      BY <1>2 DEF JobTell, AgendaOK
    <2>2. (DonorOwed(e)' <=> DonorOwed(e)) /\ (RecipientOwed(e)' <=> RecipientOwed(e))
      BY <1>2, JobMoves DEF DonorOwed, RecipientOwed
    <2> QED
      BY <1>1, <2>1, <2>2 DEF FewOf, Few
  <1>3. CASE e = job.exch /\ Stage("donor")
    <2>1. /\ agenda'[e].donor = Capped(agenda[e].donor + 1, Many)
          /\ agenda'[e].recipient = agenda[e].recipient /\ agenda'[e].due = agenda[e].due
      BY <1>3 DEF JobTell, AgendaOK, Agenda, Stage
    <2>2. DonorOwed(e) /\ ~DonorOwed(e)' /\ RecipientOwed(e) /\ RecipientOwed(e)'
      BY <1>3, JobMoves DEF DonorOwed, RecipientOwed, Stage
    <2>3. Few(agenda[e].donor, agenda[e].due, TRUE, Clock)
      BY <1>1, <2>2 DEF FewOf, Few
    <2>4. Few(agenda'[e].donor, agenda'[e].due, FALSE, Clock)
      BY <1>1, <2>1, <2>3, FewTold, AppointmentOK
    <2> QED
      BY <1>1, <2>1, <2>2, <2>4 DEF FewOf, Few
  <1>4. CASE e = job.exch /\ Stage("recipient")
    <2>1. /\ agenda'[e].recipient = Capped(agenda[e].recipient + 1, Many)
          /\ agenda'[e].donor = agenda[e].donor /\ agenda'[e].due = agenda[e].due
      BY <1>4 DEF JobTell, AgendaOK, Agenda, Stage
    <2>2. ~DonorOwed(e) /\ ~DonorOwed(e)' /\ RecipientOwed(e) /\ ~RecipientOwed(e)'
      BY <1>4, JobMoves DEF DonorOwed, RecipientOwed, Stage
    <2>3. Few(agenda[e].recipient, agenda[e].due, TRUE, Clock)
      BY <1>1, <2>2 DEF FewOf, Few
    <2>4. Few(agenda'[e].recipient, agenda'[e].due, FALSE, Clock)
      BY <1>1, <2>1, <2>3, FewTold, AppointmentOK
    <2> QED
      BY <1>1, <2>1, <2>2, <2>4 DEF FewOf, Few
  <1> QED
    BY <1>2, <1>3, <1>4 DEF JobTell

(* Every other step of the command, and the passing of time. *)
LEMMA FewStep ==
    ASSUME JobOK, AgendaOK, [DailyNext]_allVars, NEW e \in ExchangeIds, FewOf(e)
    PROVE  FewOf(e)'
  <1>0. /\ agenda[e].donor \in Nat /\ agenda[e].recipient \in Nat /\ agenda[e].due \in Int
        /\ DonorOwed(e) \in BOOLEAN /\ RecipientOwed(e) \in BOOLEAN
        /\ Clock \in Nat /\ job.since \in Nat
    BY AppointmentOK, ClockOK, TimesAssumption, LateAssumption
  <1>1. ASSUME NEW w \in Web, Agree(w) PROVE FewOf(e)'
    BY <1>1, AgreeFew
  <1>2. CASE JobTell
    BY <1>2, TellFew
  <1>3. CASE Tick
    <2>1. /\ Clock' = Clock + 1
          /\ DonorOwed(e)' <=> DonorOwed(e)
          /\ RecipientOwed(e)' <=> RecipientOwed(e)
      BY <1>3, TickOwes
    <2>2. /\ agenda'[e].due = IF agenda[e].due < 0 THEN agenda[e].due ELSE agenda[e].due - 1
          /\ agenda'[e].donor = agenda[e].donor /\ agenda'[e].recipient = agenda[e].recipient
      BY <1>3 DEF Tick, AgendaOK, Agenda
    <2>3. /\ Few(agenda[e].donor, agenda[e].due, DonorOwed(e), Clock)
          /\ Few(agenda[e].recipient, agenda[e].due, RecipientOwed(e), Clock)
      BY DEF FewOf
    <2>4. /\ Few(agenda[e].donor, agenda'[e].due, DonorOwed(e), Clock + 1)
          /\ Few(agenda[e].recipient, agenda'[e].due, RecipientOwed(e), Clock + 1)
      BY <1>0, <2>2, <2>3, FewTick
    <2> QED
      BY <2>1, <2>2, <2>4 DEF FewOf, Few
  <1>4. ASSUME NEW c \in Cron, JobStats(c) PROVE FewOf(e)'
    <2>1. /\ Clock = Period + job.since /\ Clock' = job.since /\ job.since \in 0..Late
          /\ ~DonorOwed(e) /\ ~RecipientOwed(e)
      BY <1>0, <1>4, JobMoves, LateAssumption DEF JobStats, Clock, DonorOwed, RecipientOwed,
         JobOK, JobKeeps
    <2>2. /\ agenda' = agenda
          /\ DonorOwed(e)' \in BOOLEAN /\ RecipientOwed(e)' \in BOOLEAN
          /\ DonorOwed(e)' => agenda[e].due \in 0..Window
          /\ RecipientOwed(e)' => agenda[e].due \in 0..Window
      BY <1>4, JobMoves DEF JobStats, DonorOwed, RecipientOwed, Upcoming
    <2>3. /\ Few(agenda[e].donor, agenda[e].due, FALSE, Period + job.since)
          /\ Few(agenda[e].recipient, agenda[e].due, FALSE, Period + job.since)
      BY <2>1 DEF FewOf, Few
    <2>4. /\ Few(agenda[e].donor, agenda[e].due, DonorOwed(e)', job.since)
          /\ Few(agenda[e].recipient, agenda[e].due, RecipientOwed(e)', job.since)
      BY <1>0, <2>1, <2>2, <2>3, FewQuery
    <2> QED
      BY <2>1, <2>2, <2>4 DEF FewOf
  <1>5. ASSUME NEW c \in Cron, JobDies(c) PROVE FewOf(e)'
    <2>0. agenda' = agenda
      BY <1>5 DEF JobDies
    <2>1. Clock' = job.since /\ job.since <= Clock /\ ~DonorOwed(e)' /\ ~RecipientOwed(e)'
      BY <1>0, <1>5, JobMoves, TimesAssumption DEF Clock, DonorOwed, RecipientOwed
    <2>2. /\ Few(agenda[e].donor, agenda[e].due, FALSE, job.since)
          /\ Few(agenda[e].recipient, agenda[e].due, FALSE, job.since)
      BY <1>0, <2>1, FewDropped DEF FewOf
    <2> QED
      BY <2>0, <2>1, <2>2 DEF FewOf, Few
  <1>6. CASE /\ ~Tick /\ ~JobTell /\ \A c \in Cron : ~JobStats(c) /\ ~JobDies(c)
             /\ \A w \in Web : ~Agree(w)
    <2>1. agenda' = agenda
      BY <1>6 DEF DailyNext, JobStep, Owners, Serve, GetStats, AdminRecompute, StatsStep,
         StatsFill, StatsCount, StatsInsert, StatsCache, JobStart, JobRemind, JobExpire,
         JobExpireRow, JobPhotos, allVars, dailyVars
    <2>2. /\ Clock' = Clock
          /\ DonorOwed(e)' <=> DonorOwed(e)
          /\ RecipientOwed(e)' <=> RecipientOwed(e)
      BY <1>6, JobGoesOn
    <2> QED
      BY <2>1, <2>2 DEF FewOf, Few
  <1> QED
    BY <1>1, <1>2, <1>3, <1>4, <1>5, <1>6

(* At first nothing is agreed and nobody was reminded. *)
LEMMA FewInit == DailyInit => AgendaOK /\ \A e \in ExchangeIds : FewOf(e)
  <1>1. DailyInit => AgendaOK
    BY RunsOK, TimesAssumption DEF DailyInit, AgendaOK, Agenda
  <1>2. DailyInit => \A e \in ExchangeIds : FewOf(e)
    BY RunsOK DEF DailyInit, FewOf, Few, DonorOwed, RecipientOwed
  <1> QED
    BY <1>1, <1>2

(* Nothing records that a reminder was sent, and yet no party gets more of  *)
(* them for one appointment than there are runs within the window, and two: *)
(* for any period, window and number of exchanges, however often runs of    *)
(* the command die and appointments are moved.                             *)
THEOREM FewReminders == DailySpec => []RemindersAreFew
  <1> DEFINE Held == JobOK /\ AgendaOK /\ \A e \in ExchangeIds : FewOf(e)
  <1>1. DailyInit => Held
    BY FewInit, JobInit
  <1>2. Held /\ [DailyNext]_allVars => Held'
    BY JobStepOK, AgendaStep, FewStep
  <1>3. Held => RemindersAreFew
    BY DEF RemindersAreFew, FewOf, Few, Runs, Reach
  <1> HIDE DEF Held
  <1> QED
    BY <1>1, <1>2, <1>3, PTL DEF DailySpec

-----------------------------------------------------------------------------
(* That the reminders come.  An appointment far enough ahead is so far from *)
(* due that the next run will find it and be in time, however late; or a    *)
(* run is about to tell its parties, and will be done before it comes; or  *)
(* has told them.                                                          *)

Agreed(e) == exchanges[e].status = "scheduled" /\ exchanges[e].scheduledAt
OnTheWay(e) ==
    \/ agenda[e].due + Clock >= Period + Late
    \/ /\ DonorOwed(e) \/ (RecipientOwed(e) /\ agenda[e].donor > 0)
       /\ agenda[e].due + job.since >= Late
    \/ agenda[e].donor > 0 /\ agenda[e].recipient > 0
ReminderComes(e) ==
    Agreed(e) /\ agenda[e].ahead >= Period + Late /\ job.died = 0 => OnTheWay(e)

(* Only a schedule call makes an appointment. *)
LEMMA AgreedBefore ==
    ASSUME IInv, [DailyNext]_allVars, NEW e \in ExchangeIds, \A w \in Web : ~Agree(w), Agreed(e)'
    PROVE  Agreed(e)
  <1>1. ExchangesOK
    BY TypeParts DEF IInv
  <1>2. CASE UNCHANGED exchanges
    BY <1>2 DEF Agreed
  <1>3. ASSUME NEW w \in Web, Step(w), ~At(w, "schedule.save") PROVE Agreed(e)
    <2>1. CASE \E f \in ExchangeIds : AcceptExchange(w, f)
      BY <1>1, <2>1 DEF AcceptExchange, ExchangesOK, ExchangeRow, Agreed
    <2>2. CASE CompleteExchange(w) \/ CancelExchange(w)
      BY <1>1, <2>2 DEF CompleteExchange, CancelExchange, ExchangesOK, ExchangeRow, Agreed
    <2>3. CASE UNCHANGED exchanges
      BY <2>3 DEF Agreed
    <2> QED
      BY <1>3, <2>1, <2>2, <2>3 DEF rows, Step, PatchSave, RemoveAudit, RestoreSave, RestoreAudit,
         RequestCheck, RequestInsert, RequestNotify, AcceptRequest, AcceptListing, AcceptOthers,
         AcceptNotify, DeclineRequest, DeclineNotify, ScheduleSave, ScheduleNotify, TellParties,
         CompleteListing, CompleteAudit, CompleteNotify, CancelListing, CancelAudit, RateCheck,
         RateInsert, ExpireRow
  <1>4. ASSUME NEW w \in Web, Arrive(w) PROVE UNCHANGED exchanges
    BY <1>4 DEF rows, Arrive, PatchBegin, RemoveWrite, RestoreBegin, RequestBegin,
         AcceptBegin, DeclineBegin, DecisionBegin, ScheduleBegin, CompleteBegin, CancelBegin,
         ExchangeBegin, RateBegin
  <1>5. Owners \/ (\E w \in Web : GetStats(w) \/ AdminRecompute(w)) \/ JobStart
            \/ (\E p \in Processes : StatsStep(p)) \/ Tick
            \/ (\E c \in Cron : JobStep(c) \/ JobDies(c)) \/ UNCHANGED allVars
            => UNCHANGED exchanges
    BY DEF Owners, CreateListing, Age, GetStats, AdminRecompute, StatsStep, StatsFill, StatsCount,
         StatsInsert, StatsCache, JobStart, JobStep, JobExpire, ExpireBegin, JobExpireRow,
         ExpireRow, JobStats, JobRemind, JobTell, JobPhotos, JobDies, Tick, allVars, vars, rows
  <1> QED
    BY <1>2, <1>3, <1>4, <1>5 DEF DailyNext, Serve

(* A notice brings the reminder on. *)
LEMMA TellComes ==
    ASSUME JobOK, AgendaOK, JobTell, NEW e \in ExchangeIds, OnTheWay(e)
    PROVE  OnTheWay(e)'
  <1> USE AppointmentOK
  <1>1. Clock' = Clock /\ job'.since = job.since
    BY JobMoves DEF Clock
  <1>2. CASE e # job.exch
    <2>1. agenda'[e] = agenda[e]
      BY <1>2 DEF JobTell, AgendaOK
    <2>2. (DonorOwed(e)' <=> DonorOwed(e)) /\ (RecipientOwed(e)' <=> RecipientOwed(e))
      BY <1>2, JobMoves DEF DonorOwed, RecipientOwed
    <2> QED
      BY <1>1, <2>1, <2>2 DEF OnTheWay
  <1>3. \A n \in Nat : Capped(n + 1, Many) > 0
    BY RunsOK DEF Capped
  <1>4. CASE e = job.exch /\ Stage("donor")
    <2>1. agenda'[e].donor = Capped(agenda[e].donor + 1, Many)
      BY <1>4 DEF JobTell, AgendaOK, Agenda, Stage
    <2>2. RecipientOwed(e)' /\ DonorOwed(e) /\ agenda'[e].due = agenda[e].due
      BY <1>4, JobMoves DEF JobTell, AgendaOK, Agenda, RecipientOwed, DonorOwed, Stage
    <2>3. agenda'[e].donor > 0
      BY <1>3, <2>1
    <2>4. CASE agenda[e].donor > 0 /\ agenda[e].recipient > 0
      <3>1. agenda'[e].recipient = agenda[e].recipient
        BY <1>4 DEF JobTell, AgendaOK, Agenda, Stage
      <3> QED BY <2>3, <2>4, <3>1 DEF OnTheWay
    <2> QED
      BY <1>1, <2>2, <2>3, <2>4 DEF OnTheWay
  <1>5. CASE e = job.exch /\ Stage("recipient")
    <2>1. /\ agenda'[e].recipient = Capped(agenda[e].recipient + 1, Many)
          /\ agenda'[e].donor = agenda[e].donor /\ agenda'[e].due = agenda[e].due
      BY <1>5 DEF JobTell, AgendaOK, Agenda, Stage
    <2>2. ~DonorOwed(e)
      BY <1>5, JobMoves DEF DonorOwed, Stage
    <2> QED
      BY <1>1, <1>3, <2>1, <2>2 DEF OnTheWay
  <1> QED
    BY <1>2, <1>4, <1>5 DEF JobTell

(* Every step keeps the reminder on its way. *)
LEMMA ReminderStep ==
    ASSUME IInv, JobOK, AgendaOK, [DailyNext]_allVars, NEW e \in ExchangeIds, ReminderComes(e),
           Period + Late <= Window
    PROVE  ReminderComes(e)'
  <1> SUFFICES ASSUME Agreed(e)', agenda'[e].ahead >= Period + Late, job'.died = 0
               PROVE  OnTheWay(e)'
    BY DEF ReminderComes
  <1>1. job.died = 0 /\ \A c \in Cron : ~JobDies(c)
    BY NoDeathBefore
  <1>2. /\ agenda[e].donor \in Nat /\ agenda[e].recipient \in Nat
        /\ agenda[e].due \in Int /\ agenda[e].due >= -1 /\ agenda[e].ahead \in Nat
    BY AppointmentOK
  <1>3. ASSUME NEW w \in Web, Agree(w) PROVE OnTheWay(e)'
    <2>1. UNCHANGED job /\ Clock' = Clock /\ Clock \in Nat
      BY <1>3, ClockOK, TimesAssumption, LateAssumption DEF Agree, Clock
    <2>2. PICK t \in 0..Horizon :
              agenda' = [agenda EXCEPT ![handler[w].exch] =
                            [due |-> t, ahead |-> t, donor |-> 0, recipient |-> 0]]
      BY <1>3 DEF Agree
    <2>3. CASE e = handler[w].exch
      <3>1. agenda'[e].due = t /\ agenda'[e].ahead = t
        BY <2>2, <2>3 DEF AgendaOK
      <3> QED
        BY <2>1, <3>1, TimesAssumption, LateAssumption DEF OnTheWay
    <2>4. CASE e # handler[w].exch
      <3>1. exchanges'[e] = exchanges[e] /\ agenda'[e] = agenda[e]
        BY <1>3, <2>2, <2>4, TypeParts DEF Agree, ScheduleSave, AgendaOK, IInv, ExchangesOK
      <3>2. OnTheWay(e)
        BY <1>1, <3>1 DEF ReminderComes, Agreed
      <3> QED
        BY <2>1, <3>1, <3>2 DEF OnTheWay, DonorOwed, RecipientOwed
    <2> QED BY <2>3, <2>4
  <1>4. ASSUME \A w \in Web : ~Agree(w), agenda'[e].ahead = agenda[e].ahead PROVE OnTheWay(e)
    BY <1>1, <1>4, AgreedBefore DEF ReminderComes
  <1>5. CASE JobTell
    <2>1. agenda[e] \in Agenda /\ UNCHANGED exchanges
      BY <1>5 DEF JobTell, AgendaOK, vars
    <2>2. agenda'[e].ahead = agenda[e].ahead
      BY <1>5, <2>1 DEF JobTell, AgendaOK, Agenda
    <2>3. OnTheWay(e)
      BY <1>1, <2>1, <2>2 DEF ReminderComes, Agreed
    <2> QED
      BY <1>5, <2>3, TellComes
  <1>6. CASE Tick
    <2>1. /\ agenda'[e].ahead = agenda[e].ahead
          /\ agenda'[e].due = IF agenda[e].due < 0 THEN agenda[e].due ELSE agenda[e].due - 1
          /\ agenda'[e].donor = agenda[e].donor /\ agenda'[e].recipient = agenda[e].recipient
      <3>1. /\ agenda[e] \in Agenda
            /\ agenda'[e] = [agenda[e] EXCEPT !.due = IF @ < 0 THEN @ ELSE @ - 1]
        BY <1>6 DEF Tick, AgendaOK
      <3> QED
        BY <3>1 DEF Agenda
    <2>2. /\ Clock' = Clock + 1 /\ job'.since = job.since + 1
          /\ DonorOwed(e)' <=> DonorOwed(e)
          /\ RecipientOwed(e)' <=> RecipientOwed(e)
      BY <1>6, TickOwes, JobMoves
    <2>3. OnTheWay(e)
      BY <1>1, <1>6, <2>1 DEF ReminderComes, Agreed, Tick, vars
    <2>4. Clock \in Nat /\ job.since \in Nat
      BY ClockOK, TimesAssumption, LateAssumption
    <2>5. agenda'[e].due + 1 >= agenda[e].due
      BY <1>2, <2>1
    <2>6. agenda'[e].due \in Int
      BY <1>2, <2>1
    <2>7. CASE agenda[e].due + Clock >= Period + Late
      BY <1>2, <2>2, <2>4, <2>5, <2>6, <2>7, TimesAssumption, LateAssumption DEF OnTheWay
    <2>8. CASE /\ DonorOwed(e) \/ (RecipientOwed(e) /\ agenda[e].donor > 0)
               /\ agenda[e].due + job.since >= Late
      <3>1. agenda'[e].due + job'.since >= Late
        BY <1>2, <2>2, <2>4, <2>5, <2>6, <2>8, LateAssumption
      <3> QED BY <2>1, <2>2, <2>8, <3>1 DEF OnTheWay
    <2>9. CASE agenda[e].donor > 0 /\ agenda[e].recipient > 0
      BY <2>1, <2>9 DEF OnTheWay
    <2> QED
      BY <2>3, <2>7, <2>8, <2>9 DEF OnTheWay
  <1>7. ASSUME NEW c \in Cron, JobStats(c) PROVE OnTheWay(e)'
    <2>1. /\ Clock = Period + job.since /\ Clock' = job.since /\ job'.since = job.since
          /\ job.since \in 0..Late /\ ~DonorOwed(e) /\ ~RecipientOwed(e)
      BY <1>7, JobMoves, ClockOK, LateAssumption DEF JobStats, Clock, DonorOwed, RecipientOwed,
         JobOK, JobKeeps
    <2>2. UNCHANGED <<exchanges, agenda>> /\ job'.todo = Upcoming
      BY <1>7, JobMoves DEF JobStats, vars
    <2>3. OnTheWay(e) /\ Agreed(e)
      BY <1>1, <2>2 DEF ReminderComes, Agreed
    <2>4. CASE agenda[e].donor > 0 /\ agenda[e].recipient > 0
      BY <2>2, <2>4 DEF OnTheWay
    <2>5. CASE agenda[e].due + Clock >= Period + Late
      <3>1. agenda[e].due + job.since >= Late /\ agenda[e].due >= 0
        BY <1>2, <2>1, <2>5, TimesAssumption, LateAssumption
      <3>2. CASE agenda[e].due <= Window
        <4>1. DonorOwed(e)'
          BY <1>2, <2>2, <2>3, <3>1, <3>2, TimesAssumption DEF DonorOwed, Upcoming, Agreed
        <4> QED BY <2>1, <2>2, <3>1, <4>1 DEF OnTheWay
      <3>3. CASE agenda[e].due > Window
        BY <1>2, <2>1, <2>2, <3>3, TimesAssumption, LateAssumption DEF OnTheWay
      <3> QED BY <1>2, <3>2, <3>3, TimesAssumption
    <2> QED BY <2>1, <2>3, <2>4, <2>5 DEF OnTheWay
  <1>8. CASE /\ ~Tick /\ ~JobTell /\ \A c \in Cron : ~JobStats(c) /\ ~JobDies(c)
             /\ \A w \in Web : ~Agree(w)
    <2>1. agenda' = agenda
      BY <1>8 DEF DailyNext, JobStep, Owners, Serve, GetStats, AdminRecompute, StatsStep,
         StatsFill, StatsCount, StatsInsert, StatsCache, JobStart, JobRemind, JobExpire,
         JobExpireRow, JobPhotos, allVars, dailyVars
    <2>2. /\ Clock' = Clock
          /\ DonorOwed(e)' <=> DonorOwed(e)
          /\ RecipientOwed(e)' <=> RecipientOwed(e)
      BY <1>8, JobGoesOn
    <2>3. OnTheWay(e)
      BY <1>4, <1>8, <2>1
    <2>4. CASE agenda[e].due + job.since >= Late /\ job'.since # job.since
      <3>1. JobStart
        BY <1>8, <2>4 DEF DailyNext, JobStep, Owners, Serve, GetStats, AdminRecompute, StatsStep,
           StatsFill, StatsCount, StatsInsert, StatsCache, JobRemind, JobExpire, JobExpireRow,
           JobPhotos, GoToStage, JobOK, Job, allVars, dailyVars
      <3>2. ~DonorOwed(e) /\ ~RecipientOwed(e)
        BY <3>1 DEF JobStart, Stage, JobOK, JobKeeps, DonorOwed, RecipientOwed
      <3> QED BY <2>1, <2>2, <2>3, <3>2 DEF OnTheWay
    <2> QED
      BY <2>1, <2>2, <2>3, <2>4 DEF OnTheWay
  <1> QED
    BY <1>1, <1>3, <1>5, <1>6, <1>7, <1>8

(* Both parties of an exchange that is still on were reminded before the    *)
(* books change hands, if the time was agreed far enough ahead and no run   *)
(* of the command died: however late the runs are, within the bound, with  *)
(* time passing between the query and the notices, however calls race with *)
(* the command and appointments are moved.  The window has to exceed the   *)
(* period by that bound, as the settings' defaults do not.                 *)
THEOREM RemindersComeInTime ==
    ASSUME Period + Late <= Window
    PROVE  DailySpec => []RemindersReach
  <1> DEFINE Held == /\ IInv /\ JobOK /\ AgendaOK
                     /\ \A e \in ExchangeIds : ReminderComes(e)
  <1>1. DailyInit => Held
    <2>1. DailyInit => \A e \in ExchangeIds : ReminderComes(e)
      BY DEF DailyInit, Init, ReminderComes, Agreed
    <2> QED
      BY <2>1, FewInit, JobInit, InitInv DEF DailyInit
  <1>2. Held /\ [DailyNext]_allVars => Held'
    BY DailyKeeps, JobStepOK, AgendaStep, ReminderStep
  <1>3. Held => RemindersReach
    <2> SUFFICES ASSUME Held, NEW e \in ExchangeIds, Agreed(e), agenda[e].due < 0,
                        agenda[e].ahead >= Period + Late, job.died = 0
                 PROVE  agenda[e].donor > 0 /\ agenda[e].recipient > 0
      BY DEF RemindersReach, Agreed
    <2>1. OnTheWay(e) /\ Clock \in 0..(Period + Late) /\ job.since \in 0..Period
      BY ClockOK DEF ReminderComes
    <2>2. agenda[e].due \in Int /\ ~(agenda[e].due + Clock >= Period + Late)
      BY <2>1, AppointmentOK, TimesAssumption, LateAssumption
    <2>3. DonorOwed(e) \/ RecipientOwed(e) => job.since <= Late
      BY DEF JobOK, JobKeeps, DonorOwed, RecipientOwed
    <2>4. ~((DonorOwed(e) \/ RecipientOwed(e)) /\ agenda[e].due + job.since >= Late)
      BY <2>1, <2>2, <2>3, TimesAssumption, LateAssumption
    <2> QED
      BY <2>1, <2>2, <2>4 DEF OnTheWay
  <1> HIDE DEF Held
  <1> QED
    BY <1>1, <1>2, <1>3, PTL DEF DailySpec
=============================================================================

----------------------------- MODULE Disturbances -----------------------------
(***************************************************************************)
(* What the handlers of Marketplace achieve for a listing that was not     *)
(* disturbed.  No view runs in a transaction, so there are three ways to   *)
(* disturb one: two handlers are at work on its rows at once, a process    *)
(* dies with a handler half done, or a moderator restores a listing whose  *)
(* book is promised or gone.  Two history variables, which no action reads,*)
(* note the listings this has happened to; the properties are about all    *)
(* the others, however many processes there are and whatever happens to    *)
(* the rest.                                                               *)
(***************************************************************************)
EXTENDS Marketplace

VARIABLES
    torn,       \* listings on which a process died with a handler half done
    disturbed   \* these, and those worked on by two at once or wrongly restored

noted == <<torn, disturbed>>

-----------------------------------------------------------------------------
(* Handlers and the listings they are about.                               *)

RequestWritePCs == {"accept.request", "accept.listing", "accept.exchange", "accept.others",
                    "decline.request"}
ExchangeWritePCs == {"complete.exchange", "complete.listing", "cancel.exchange", "cancel.listing"}

(* A handler that became h has read rows of the listing and goes on to     *)
(* write some.                                                             *)
About(h, l) ==
    \/ h.pc \in ListingPCs /\ h.lst = l
    \/ h.pc \in RequestWritePCs /\ requests[h.req].listing = l
    \/ h.pc \in ExchangeWritePCs /\ exchanges[h.exch].listing = l
    \/ h.pc = "expire.row" /\ \E r \in h.todo : requests[r].listing = l

WorksOn(w, l) == About(handler[w], l)

(* It has made some of its writes, or has somebody to tell of them.        *)
HalfDone(h, l) ==
    \/ h.pc = "request.notify" /\ h.lst = l
    \/ /\ h.pc \in {"accept.listing", "accept.exchange", "accept.others", "accept.notify"}
       /\ requests[h.req].listing = l
    \/ /\ \/ h.pc \in {"complete.listing", "complete.audit", "complete.donor",
                       "complete.recipient"}
          \/ h.pc = "cancel.listing" /\ h.seen = "pending"
       /\ exchanges[h.exch].listing = l

Bound(l) == Open(l) \cup Done(l)
Free(l) == Bound(l) = {}

Overlap(l) == \E v, w \in Processes : v # w /\ WorksOn(v, l) /\ WorksOn(w, l)
Dies(l) == \E w \in Processes : Crash(w) /\ HalfDone(handler[w], l)
Reopens(l) == ~Free(l) /\ \E w \in Processes : RestoreSave(w) /\ handler[w].lst = l

Note ==
    /\ torn' = torn \cup {l \in Listings : Dies(l)}
    /\ disturbed' = disturbed \cup {l \in Listings : Overlap(l)' \/ Dies(l) \/ Reopens(l)}

NotedInit == Init /\ torn = {} /\ disturbed = {}
NotedNext == Next /\ Note
NotedSpec == NotedInit /\ [][NotedNext]_<<vars, noted>>

-----------------------------------------------------------------------------
(* Properties.  A listing is settled when nothing disturbed it and no      *)
(* handler is at work on it.                                               *)

Settled(l) == l \notin disturbed /\ \A w \in Processes : ~WorksOn(w, l)
Finished(l) == l \notin torn /\ \A w \in Processes : ~HalfDone(handler[w], l)

AcceptedOf(l, u) == {r \in RequestIds : /\ requests[r].status = "accepted"
                                        /\ requests[r].listing = l
                                        /\ requests[r].requester = u}
GivenTo(l, u) == {e \in ExchangesOf(l) : exchanges[e].recipient = u}

(* Type invariant of the histories. *)
NotedOK == TypeOK /\ torn \subseteq disturbed /\ disturbed \subseteq Listings

(* Refinement: a book is promised to one reader at a time and handed over  *)
(* once, whatever order accept, cancel, complete, delete and restore come  *)
(* in; only a disturbed one may be promised twice.                         *)
Reader == INSTANCE OneReader WITH
              promised <- [l \in Listings |-> Open(l)],
              handedOver <- [l \in Listings |-> Done(l)],
              excused <- disturbed
OneReaderSpec == Reader!Spec

(* The status of a settled listing and of its requests is the one its      *)
(* exchanges call for, and each accepted request has its exchange:         *)
(* API_REFERENCE's tables of statuses.                                     *)
StatusTellsTheTruth ==
    \A l \in Listings : Settled(l) =>
        /\ listings[l].status = "pending" => Open(l) # {}
        /\ listings[l].status = "claimed" => Done(l) # {}
        /\ listings[l].status = "available" => Free(l)
        /\ \A u \in Users : Cardinality(AcceptedOf(l, u)) = Cardinality(GivenTo(l, u))

(* No reader waits for a settled book that is reserved or gone:            *)
(* accept_request declines every other request of that listing.            *)
NobodyWaitsInVain ==
    \A r \in RequestIds :
        requests[r].status = "pending" /\ Settled(requests[r].listing) =>
            listings[requests[r].listing].status \in {"available", "removed"}

(* No reader has two open requests for a listing that nothing disturbed,   *)
(* at any moment: create_request's duplicate check is a query of its own.  *)
OneRequestEach ==
    \A l \in Listings \ disturbed, u \in Users :
        \A q, r \in PendingOf(l, u) : q = r

(* The owner's decision and the expiry are final while nothing disturbs    *)
(* the listing: no accept, decline or sweep, and no run of the job, writes *)
(* over another's, although each saves what it read.                       *)
DecisionsStand ==
    [][\A r \in RequestIds :
           Decided(r) /\ requests[r].listing \notin disturbed' =>
               requests'[r].status = requests[r].status]_<<vars, noted>>

(* When no handler is half done everybody whom it concerns has been told,  *)
(* unless a process died: the owner of a request, the reader of an         *)
(* acceptance, both parties of a completion, staff-forced or not.          *)
DecisionsAreTold ==
    /\ \A r \in RequestIds :
          requests[r].status # "unborn" /\ Finished(requests[r].listing) =>
              <<"request_received", Donor(requests[r].listing), r>> \in inbox
    /\ \A e \in ExchangeIds :
          exchanges[e].status # "unborn" /\ Finished(exchanges[e].listing) =>
              /\ <<"request_accepted", exchanges[e].recipient, e>> \in inbox
              /\ exchanges[e].status = "completed" =>
                    \A u \in {exchanges[e].donor, exchanges[e].recipient} :
                        <<"exchange_completed", u, e>> \in inbox
=============================================================================

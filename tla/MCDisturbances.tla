---------------------------- MODULE MCDisturbances ----------------------------
(* Symmetries and the bound of the run of Disturbances. *)
EXTENDS Disturbances, TLC

CONSTANTS w1, w2

Symmetry == Permutations(Users) \cup Permutations(Listings) \cup Permutations(RequestIds)
                \cup Permutations(ExchangeIds) \cup Permutations(Web)

(* Handlers that make or unmake what the notices are about. *)
ToldPCs == {"idle", "request.check", "request.insert", "request.notify",
            "accept.request", "accept.listing", "accept.exchange", "accept.others",
            "accept.notify", "complete.exchange", "complete.listing", "complete.audit",
            "complete.donor", "complete.recipient", "cancel.exchange", "cancel.listing",
            "cancel.audit"}

(* Of a disturbed listing only DecisionsAreTold and ReportsAreTrue say     *)
(* more: requests, acceptances, and completions and cancellations by the   *)
(* parties go on, as long as no process dies over it.                      *)
Followed ==
    \/ disturbed = {}
    \/ /\ torn = {}
       /\ \A w \in Processes : handler[w].pc \in ToldPCs /\ ~handler[w].forced
       /\ \A l \in Listings : listings[l].status # "removed"
       /\ \A r \in RequestIds : ~requests[r].stale
=============================================================================

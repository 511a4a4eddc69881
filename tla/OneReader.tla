------------------------------ MODULE OneReader ------------------------------
(***************************************************************************)
(* What the marketplace promises about one book: it is promised to one     *)
(* reader at a time, and once handed over it is never promised again.      *)
(* Books may come to be excused from this, each for itself; of an excused  *)
(* book nothing is said any more.                                          *)
(*                                                                         *)
(* A handover is identified by the exchange that carries it.  The module   *)
(* says nothing of requests, listing statuses, handlers or writes: those   *)
(* are the marketplace's business, which implements this module when the   *)
(* books that Disturbances notes are the excused ones (README, "Runs").    *)
(***************************************************************************)
CONSTANTS Listings,     \* the books on offer
          ExchangeIds   \* the handovers that may ever be arranged

VARIABLES promised,     \* [Listings -> handovers arranged and still open]
          handedOver,   \* [Listings -> handovers that took place]
          excused       \* the books of which nothing is promised any more

vars == <<promised, handedOver, excused>>

Init == /\ promised = [l \in Listings |-> {}]
        /\ handedOver = [l \in Listings |-> {}]
        /\ excused = {}

(* A free book is promised. *)
Promise(l, e) ==
    /\ promised[l] = {} /\ promised'[l] = {e}
    /\ handedOver[l] = {} /\ handedOver'[l] = {}

(* The promise is called off and the book is free again. *)
CallOff(l, e) ==
    /\ promised[l] = {e} /\ promised'[l] = {}
    /\ handedOver'[l] = handedOver[l]

(* The promise is kept. *)
HandOver(l, e) ==
    /\ promised[l] = {e} /\ promised'[l] = {}
    /\ handedOver'[l] = {e}

Same(l) == promised'[l] = promised[l] /\ handedOver'[l] = handedOver[l]

(* Every book that is not excused takes a step of its own, or none. *)
Next ==
    /\ excused \subseteq excused'
    /\ \A l \in Listings \ excused' :
          \/ Same(l)
          \/ \E e \in ExchangeIds : Promise(l, e) \/ CallOff(l, e) \/ HandOver(l, e)

Spec == Init /\ [][Next]_vars
=============================================================================

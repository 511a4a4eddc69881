--------------------------- MODULE MCMarketplace ----------------------------
(* Symmetries, a view and a bound for the runs of Marketplace.             *)
EXTENDS Marketplace, TLC

CONSTANTS w1, w2

(* Users, rows and (when both are web processes) workers are interchangeable. *)
RowSymmetry == Permutations(Users) \cup Permutations(Listings)
                   \cup Permutations(RequestIds) \cup Permutations(ExchangeIds)
                   \cup Permutations(RatingIds)
WorkerSymmetry == RowSymmetry \cup Permutations(Web)

(* Nothing reads the notifications or the audit rows: for properties that  *)
(* do not mention them, states that differ only there are the same.        *)
Tables == <<listings, requests, exchanges, ratings, handler>>

(* One rating is enough for two processes to race for; the second is tried *)
(* and goes no further.                                                    *)
FewRatings == Cardinality(ratings) <= 1
=============================================================================

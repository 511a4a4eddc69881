----------------------------- MODULE MCSessions ------------------------------
(* Symmetry and a bound for the run of Sessions, which checks safety. *)
EXTENDS Sessions, TLC

(* Everything is interchangeable. *)
SessionSymmetry == Permutations(Users) \cup Permutations(Browsers)
                       \cup Permutations(Tokens) \cup Permutations(Calls)

(* At most one token is left to expire: expiry ends a session, and the     *)
(* properties are about one session at a time.                             *)
FewExpired == Cardinality({t \in Tokens : tokens[t].state = "expired"}) <= 1
=============================================================================

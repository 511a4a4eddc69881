------------------------ MODULE MCPartnerApplications ------------------------
(* Symmetry and a bound for the run of PartnerApplications, which checks safety. *)
EXTENDS PartnerApplications, TLC

(* Accounts, addresses, spellings and workers are interchangeable. *)
PartnerSymmetry == Permutations(Users) \cup Permutations(Addresses)
                       \cup Permutations(Spellings) \cup Permutations(Web)

(* Calls overlap, or one dies half-way, at one place at a time, and one   *)
(* application at most, the first, asks for a drop-off point: what becomes *)
(* of one application does not depend on what another one asks for.        *)
FewSpoiled ==
    /\ Cardinality(spoiled) <= 1
    /\ \A a \in Rows : apps[a].place => a = 1

(* Passwords count for no more than whether one was ever set, and whether *)
(* the invitation a process is about to make was made from the last one.   *)
Read ==
    LET stale(h) == /\ h.pc \in {"submit.insert", "submit.invite"} /\ ~h.verified
                    /\ h.password # accounts[h.user].password
    IN  <<[u \in Users |-> IF accounts[u] = None THEN None
                           ELSE [accounts[u] EXCEPT !.password = IF @ = 0 THEN 0 ELSE 1]],
          [w \in Web |-> [handler[w] EXCEPT !.password = IF stale(handler[w]) THEN 1 ELSE 0]],
          link, apps, granted, places, ready, reported, spoiled>>
=============================================================================

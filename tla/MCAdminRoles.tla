---------------------------- MODULE MCAdminRoles -----------------------------
(* Symmetries and a bound for the run of AdminRoles, which checks safety. *)
EXTENDS AdminRoles, TLC

(* Users but the first, roles but the built-in one, and workers are        *)
(* interchangeable.                                                        *)
AdminSymmetry == Permutations(Users \ {First}) \cup Permutations(Roles \ {BuiltIn})
                     \cup Permutations(Web)

(* Nothing reads the notifications or the audit rows, no property mentions *)
(* the former, and of the latter none those of a contested user or role,   *)
(* which stays contested: states that differ only there are the same.      *)
Rows ==
    <<roles, users, handler, contested,
      [u \in Users \ contested |-> <<audited.role[u], audited.active[u]>>],
      [r \in Roles \ contested |-> audited.state[r]]>>

(* Calls overlap or die over one user or one role, and over the question   *)
(* who can manage roles, until nobody is left who could.                   *)
FewClashes == Cardinality(contested \ {"roles.manage"}) <= 1 /\ SomeManager
=============================================================================

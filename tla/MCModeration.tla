---------------------------- MODULE MCModeration -----------------------------
(* Symmetry and a bound for the run of Moderation. *)
EXTENDS Moderation, TLC

ModerationSymmetry == Permutations(Reports) \cup Permutations(Users)
    \cup Permutations(Targets) \cup Permutations(Moderators)
    \cup Permutations(Rows) \cup Permutations(Web)

(* Reports and lists share no variable but the processes: what happens to  *)
(* the one is explored while nothing has happened to the other, and rows   *)
(* are logged once per value and once more.                                *)
OneSide ==
    \/ active = [x \in Rows |-> TRUE] /\ trail = [x \in Rows |-> [v \in BOOLEAN |-> 0]]
    \/ /\ \A r \in Reports : reports[r].status = "unborn"
       /\ \A x \in Rows, v \in BOOLEAN : trail[x][v] <= 1
=============================================================================

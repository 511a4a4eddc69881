------------------------------ MODULE MCDropOff ------------------------------
(* Symmetry and a view for the run of DropOff, which checks safety. *)
EXTENDS DropOff, TLC

(* Everything but the two columns is interchangeable. *)
DropOffSymmetry == Permutations(Users) \cup Permutations(Points) \cup Permutations(Exchanges)
                       \cup Permutations(Values) \cup Permutations(Web)

(* Of the histories and the audit log no action reads anything, and no     *)
(* property what they have on a row, a list of managers or a meeting on    *)
(* which calls have clashed, or on the managers of a deleted point: states *)
(* that differ only there are the same.                                    *)
Read ==
    <<points, managers, meeting, handler, gone, clashed,
      [p \in {q \in Points \ gone : <<"managers", q>> \notin clashed} |-> logged[p]],
      [p \in {q \in Points : <<"row", q>> \notin clashed} |-> asked.rows[p]],
      [e \in {f \in Exchanges : <<"meeting", f>> \notin clashed} |-> asked.meeting[e]]>>
=============================================================================

---------------------------- MODULE MCLeaderboard ----------------------------
(* Symmetry and a bound for the runs of Leaderboard; users are ordered by  *)
(* their ids.                                                              *)
EXTENDS Leaderboard, TLC

LeaderboardSymmetry == Permutations(Exchanges) \cup Permutations(Web)

(* The spotlight and the ranking read and write different tables: they are *)
(* explored one at a time.                                                 *)
OneTopic ==
    \/ \A e \in Exchanges : exchanges[e].month = 0
    \/ /\ \A n \in Entries : featured[n] = None
       /\ \A w \in Web : ~At(w, "feature.insert")
=============================================================================

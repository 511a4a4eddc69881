-------------------------- MODULE LeaderboardProofs --------------------------
(***************************************************************************)
(* Proofs about Leaderboard: the order the query asks for exists and is    *)
(* the one list that InOrder can choose, the own rank that is counted is   *)
(* the place in that list, every cut of it is the top, and the own rank    *)
(* answered after two queries never flatters.                              *)
(***************************************************************************)
EXTENDS Leaderboard, FiniteSetTheorems, SequenceTheorems, TLAPS

-----------------------------------------------------------------------------
(* Finite sets in order.                                                   *)

(* A finite set with a strict total order R can be listed in that order:   *)
(* each element has its place, one more than the elements before it.       *)
LEMMA Sortable ==
    ASSUME NEW D, IsFiniteSet(D), NEW R,
           \A u \in D : <<u, u>> \notin R,
           \A u, v, x \in D : <<u, v>> \in R /\ <<v, x>> \in R => <<u, x>> \in R,
           \A u, v \in D : u = v \/ <<u, v>> \in R \/ <<v, u>> \in R
    PROVE  \E s \in [1..Cardinality(D) -> D] :
               \A i, j \in DOMAIN s : i < j => <<s[i], s[j]>> \in R
<1> DEFINE n == Cardinality(D)
           Below(u) == {v \in D : <<v, u>> \in R}
           place == [u \in D |-> Cardinality(Below(u)) + 1]
<1>1. n \in Nat
    BY FS_CardinalityType
<1>2. \A u \in D : IsFiniteSet(Below(u)) /\ Cardinality(Below(u)) \in 0..(n - 1)
  <2> SUFFICES ASSUME NEW u \in D
               PROVE  IsFiniteSet(Below(u)) /\ Cardinality(Below(u)) \in 0..(n - 1)
      OBVIOUS
  <2>1. Below(u) \in SUBSET (D \ {u})
      OBVIOUS
  <2>2. IsFiniteSet(D \ {u}) /\ Cardinality(D \ {u}) = n - 1
      BY FS_RemoveElement
  <2> HIDE DEF Below
  <2>3. IsFiniteSet(Below(u)) /\ Cardinality(Below(u)) <= Cardinality(D \ {u})
      BY <2>1, <2>2, FS_Subset
  <2>4. Cardinality(Below(u)) \in Nat
      BY <2>3, FS_CardinalityType
  <2>5. QED
      BY <1>1, <2>2, <2>3, <2>4
<1>3. place \in [D -> 1..n]
  <2> HIDE DEF Below, n
  <2>1. \A u \in D : Cardinality(Below(u)) + 1 \in 1..n
      BY <1>1, <1>2
  <2>2. QED
      BY <2>1
<1>4. \A u, v \in D : <<u, v>> \in R => place[u] < place[v]
  <2> SUFFICES ASSUME NEW u \in D, NEW v \in D, <<u, v>> \in R
               PROVE  place[u] < place[v]
      OBVIOUS
  <2>1. Below(u) \in SUBSET Below(v)
      OBVIOUS
  <2>2. Below(u) # Below(v)
      OBVIOUS
  <2>3. /\ Cardinality(Below(u)) <= Cardinality(Below(v))
        /\ Cardinality(Below(v)) = Cardinality(Below(u)) => Below(v) = Below(u)
      BY <1>2, <2>1, FS_Subset
  <2> HIDE DEF Below, n
  <2>4. Cardinality(Below(u)) \in Int /\ Cardinality(Below(v)) \in Int
      BY <1>1, <1>2
  <2>5. Cardinality(Below(u)) < Cardinality(Below(v))
      BY <2>2, <2>3, <2>4
  <2>6. place[u] = Cardinality(Below(u)) + 1 /\ place[v] = Cardinality(Below(v)) + 1
      BY Zenon
  <2> HIDE DEF place
  <2>7. QED
      BY <2>4, <2>5, <2>6
<1>5. \A u, v \in D : place[u] = place[v] => u = v
  <2> SUFFICES ASSUME NEW u \in D, NEW v \in D, place[u] = place[v]
               PROVE  u = v
      OBVIOUS
  <2>1. place[u] \in 1..n
      BY <1>3
  <2> HIDE DEF place, n
  <2>2. ~(place[u] < place[v]) /\ ~(place[v] < place[u])
      BY <1>1, <2>1
  <2>3. QED
      BY <1>4, <2>2
<1>6. place \in Injection(D, 1..n)
    BY <1>3, <1>5 DEF Injection, IsInjective
<1>7. IsFiniteSet(1..n) /\ Cardinality(1..n) = n
    BY <1>1, FS_Interval
<1>8. place \in Surjection(D, 1..n)
    BY <1>6, <1>7, FS_Injection
<1>9. \A i \in 1..n : \E u \in D : place[u] = i
    BY <1>8 DEF Surjection
<1> DEFINE s == [i \in 1..n |-> CHOOSE u \in D : place[u] = i]
<1>10. \A i \in 1..n : s[i] \in D /\ place[s[i]] = i
    BY <1>9
<1>11. s \in [1..n -> D]
    BY <1>10
<1> HIDE DEF place, s
<1>12. \A i, j \in DOMAIN s : i < j => <<s[i], s[j]>> \in R
  <2> SUFFICES ASSUME NEW i \in 1..n, NEW j \in 1..n, i < j
               PROVE  <<s[i], s[j]>> \in R
      BY <1>11
  <2>1. place[s[i]] = i /\ place[s[j]] = j /\ s[i] \in D /\ s[j] \in D
      BY <1>10
  <2>2. s[i] # s[j] /\ <<s[j], s[i]>> \notin R
      BY <1>1, <1>4, <2>1
  <2>3. QED
      BY <2>1, <2>2
<1>13. QED
    BY <1>11, <1>12

(* A set of places that has with a place all before it is an initial       *)
(* segment.                                                                *)
LEMMA Segment ==
    ASSUME NEW n \in Nat, NEW J \in SUBSET (1..n), NEW i \in 1..n, i \notin J,
           \A j, k \in 1..n : j < k /\ k \in J => j \in J
    PROVE  \E m \in 1..i : J = 1..(m - 1) /\ m \notin J /\ Cardinality(J) + 1 = m
<1> DEFINE Out == {j \in Nat : j \in 1..i /\ j \notin J}
<1>1. Out \subseteq Nat /\ Out # {}
    OBVIOUS
<1>2. PICK m \in Out : \A j \in Out : ~(<<j, m>> \in OpToRel(<, Nat))
    BY <1>1, NatLessThanWellFounded, WFMin
<1>3. \A j \in Out : ~(j < m)
    BY <1>2 DEF OpToRel
<1> HIDE DEF Out
<1>4. m \in 1..i /\ m \notin J /\ \A j \in 1..(m - 1) : j \in J
    BY <1>3 DEF Out
<1>5. J = 1..(m - 1)
  <2>1. \A j \in J : j \in 1..(m - 1)
      BY <1>4
  <2>2. QED
      BY <1>4, <2>1
<1>6. Cardinality(1..(m - 1)) = m - 1
  <2>1. m \in Int /\ 1 \in Int /\ m - 1 \in Int /\ m >= 1
      BY <1>4
  <2>2. Cardinality(1..(m - 1)) = IF 1 > m - 1 THEN 0 ELSE (m - 1) - 1 + 1
      BY <2>1, FS_Interval
  <2>3. QED
      BY <2>1, <2>2
<1>7. QED
    BY <1>4, <1>5, <1>6

-----------------------------------------------------------------------------
(* The query in its order.                                                 *)

(* The counts are numbers, and only users have any. *)
LEMMA CountsOK ==
    ASSUME TypeOK, NEW since \in Nat
    PROVE  /\ IsFiniteSet(Counted(since))
           /\ \A u : /\ IsFiniteSet({e \in Counted(since) : exchanges[e].donor = u})
                    /\ CountOf(u, since) \in Nat
           /\ Donors(since) \in SUBSET Users
           /\ IsFiniteSet(Donors(since)) /\ Cardinality(Donors(since)) \in Nat
           /\ \A u \in Donors(since) : included[u]
<1>1. IsFiniteSet(Counted(since))
  <2>1. Counted(since) \in SUBSET Exchanges
      BY DEF Counted, Completed
  <2>2. QED
      BY <2>1, ExchangesAssumption, FS_Subset
<1>2. ASSUME NEW u
      PROVE  /\ IsFiniteSet({e \in Counted(since) : exchanges[e].donor = u})
             /\ CountOf(u, since) \in Nat
  <2>1. {e \in Counted(since) : exchanges[e].donor = u} \in SUBSET Counted(since)
      OBVIOUS
  <2>2. IsFiniteSet({e \in Counted(since) : exchanges[e].donor = u})
      BY <1>1, <2>1, FS_Subset
  <2>3. QED
      BY <2>2, FS_CardinalityType DEF CountOf
<1>3. /\ Donors(since) \in SUBSET Users
      /\ \A u \in Donors(since) : included[u]
  <2>1. \A e \in Counted(since) : exchanges[e] \in Exchange /\ included[exchanges[e].donor]
      BY DEF Counted, Completed, TypeOK
  <2>2. QED
      BY <2>1 DEF Donors, Exchange
<1>4. IsFiniteSet(Donors(since)) /\ Cardinality(Donors(since)) \in Nat
    BY <1>3, UsersAssumption, FS_Subset, FS_CardinalityType
<1>5. QED
    BY <1>1, <1>2, <1>3, <1>4

(* ORDER BY count, descending, and id is a strict total order of donors. *)
LEMMA BeforeOrders ==
    ASSUME TypeOK, NEW since \in Nat
    PROVE  /\ \A u \in Users : ~Before(u, u, since)
           /\ \A u, v, x \in Users :
                  Before(u, v, since) /\ Before(v, x, since) => Before(u, x, since)
           /\ \A u, v \in Users : u = v \/ Before(u, v, since) \/ Before(v, u, since)
<1>1. \A u \in Users : u \in Nat /\ CountOf(u, since) \in Nat
    BY CountsOK, UsersAssumption
<1>2. QED
    BY <1>1 DEF Before

(* The list the query returns: each donor once, in that order. *)
LEMMA ListedInOrder ==
    ASSUME TypeOK, NEW since \in Nat
    PROVE  LET n == Cardinality(Donors(since))
               s == InOrder(since)
           IN  /\ s \in [1..n -> Donors(since)]
               /\ \A i, j \in 1..n : i < j => Before(s[i], s[j], since)
               /\ \A i, j \in 1..n : s[i] = s[j] => i = j
               /\ \A u \in Donors(since) : \E i \in 1..n : s[i] = u
<1> DEFINE D == Donors(since)
           n == Cardinality(D)
           s == InOrder(since)
           R == {p \in D \X D : Before(p[1], p[2], since)}
<1>1. /\ D \in SUBSET Users /\ IsFiniteSet(D) /\ n \in Nat
    BY CountsOK
<1>2. \A u, v \in D : <<u, v>> \in R <=> Before(u, v, since)
    OBVIOUS
<1>3. /\ \A u \in D : ~Before(u, u, since)
      /\ \A u, v, x \in D : Before(u, v, since) /\ Before(v, x, since) => Before(u, x, since)
      /\ \A u, v \in D : u = v \/ Before(u, v, since) \/ Before(v, u, since)
    BY <1>1, BeforeOrders
<1> HIDE DEF R, D
<1>4. \E t \in [1..n -> D] : \A i, j \in DOMAIN t : i < j => <<t[i], t[j]>> \in R
    BY <1>1, <1>2, <1>3, Sortable
<1>5. \E t \in [1..n -> D] : \A i, j \in DOMAIN t : i < j => Before(t[i], t[j], since)
    BY <1>2, <1>4
<1>6. /\ s \in [1..n -> D]
      /\ \A i, j \in DOMAIN s : i < j => Before(s[i], s[j], since)
    BY <1>5 DEF InOrder, D
<1> HIDE DEF s
<1>7. \A i, j \in 1..n : i < j => Before(s[i], s[j], since)
    BY <1>6
<1>8. \A i, j \in 1..n : s[i] = s[j] => i = j
  <2> SUFFICES ASSUME NEW i \in 1..n, NEW j \in 1..n, s[i] = s[j]
               PROVE  i = j
      OBVIOUS
  <2>1. s[i] \in D /\ ~Before(s[i], s[i], since)
      BY <1>3, <1>6
  <2>2. ~(i < j) /\ ~(j < i)
      BY <1>7, <2>1
  <2>3. QED
      BY <1>1, <2>2
<1>9. s \in Surjection(1..n, D)
  <2>1. s \in Injection(1..n, D)
      BY <1>6, <1>8 DEF Injection, IsInjective
  <2>2. Cardinality(1..n) = n
      BY <1>1, FS_Interval
  <2>3. QED
      BY <1>1, <2>1, <2>2, FS_Injection
<1>10. \A u \in D : \E i \in 1..n : s[i] = u
    BY <1>9 DEF Surjection
<1>11. QED
    BY <1>6, <1>7, <1>8, <1>10 DEF s, D

(* The list that is answered is the beginning of it. *)
LEMMA RankingOf ==
    ASSUME TypeOK, NEW since \in Nat, NEW limit \in Int
    PROVE  LET k == Smaller(Cardinality(Donors(since)), Clamp(limit))
               t == Ranking(since, limit)
           IN  /\ k \in Nat /\ k <= Cardinality(Donors(since))
               /\ Cardinality(Donors(since)) > 0 => k > 0
               /\ Len(t) = k /\ DOMAIN t = 1..k
               /\ \A i \in 1..k : t[i] = InOrder(since)[i]
<1> DEFINE n == Cardinality(Donors(since))
           k == Smaller(n, Clamp(limit))
           s == InOrder(since)
           t == Ranking(since, limit)
<1>1. n \in Nat
    BY CountsOK
<1>2. k \in Nat /\ k <= n /\ (n > 0 => k > 0)
    BY <1>1 DEF Smaller, Clamp
<1>3. s \in [1..n -> Donors(since)]
    BY ListedInOrder
<1> HIDE DEF n, k, s
<1>4. \A i \in 1..k : s[i] \in Donors(since)
    BY <1>1, <1>2, <1>3
<1>5. t = SubSeq(s, 1, k)
    BY DEF Ranking, n, k, s
<1>6. /\ t \in Seq(Donors(since))
      /\ Len(t) = IF 1 <= k THEN k - 1 + 1 ELSE 0
      /\ \A i \in 1..(k - 1 + 1) : t[i] = s[1 + i - 1]
  <2> HIDE DEF t
  <2>1. 1 \in Int /\ k \in Int
      BY <1>2
  <2>2. QED
      BY <1>4, <1>5, <2>1, SubSeqProperties
<1>7. Len(t) = k /\ \A i \in 1..k : t[i] = s[i]
  <2> HIDE DEF t
  <2>1. \A i \in 1..k : i \in 1..(k - 1 + 1) /\ 1 + i - 1 = i
      BY <1>2
  <2>2. QED
      BY <1>2, <1>6, <2>1
<1>8. DOMAIN t = 1..k
    BY <1>6, <1>7, LenProperties
<1>9. QED
    BY <1>2, <1>7, <1>8 DEF n, k, s

(* Nobody further down has given more. *)
LEMMA Descending ==
    ASSUME TypeOK, NEW since \in Nat,
           NEW i \in 1..Cardinality(Donors(since)),
           NEW j \in 1..Cardinality(Donors(since)), i <= j
    PROVE  CountOf(InOrder(since)[i], since) >= CountOf(InOrder(since)[j], since)
<1>1. \A u : CountOf(u, since) \in Nat
    BY CountsOK
<1>2. CASE i = j
    BY <1>1, <1>2
<1>3. CASE i # j
  <2>1. i < j
      BY <1>3
  <2>2. Before(InOrder(since)[i], InOrder(since)[j], since)
      BY <2>1, ListedInOrder
  <2>3. QED
      BY <1>1, <2>2 DEF Before
<1>4. QED
    BY <1>2, <1>3

(* The donors ahead of the one at place i are those of the places before   *)
(* some place m, whose donor gave as much as that of place i.              *)
LEMMA OwnRankIsPlace ==
    ASSUME TypeOK, NEW since \in Nat, NEW i \in 1..Cardinality(Donors(since))
    PROVE  LET s == InOrder(since)
               Gave(j) == CountOf(s[j], since)
               own == OwnRank(s[i], since)
           IN  /\ own \in 1..i
               /\ Gave(own) = Gave(i)
               /\ \A j \in 1..(own - 1) : Gave(j) > Gave(i)
<1> DEFINE D == Donors(since)
           n == Cardinality(D)
           s == InOrder(since)
           Gave(j) == CountOf(s[j], since)
           J == {j \in 1..n : Gave(j) > Gave(i)}
           A == Ahead(s[i], Gave(i), since)
<1>1. n \in Nat /\ IsFiniteSet(D) /\ \A u : CountOf(u, since) \in Nat
    BY CountsOK
<1>2. /\ s \in [1..n -> D]
      /\ \A j, k \in 1..n : s[j] = s[k] => j = k
      /\ \A u \in D : \E j \in 1..n : s[j] = u
    BY ListedInOrder
<1>3. \A j, k \in 1..n : j <= k => Gave(j) >= Gave(k)
    BY Descending
<1>4. \A j \in 1..n : Gave(j) \in Nat
    BY <1>1
<1>5. PICK m \in 1..i : J = 1..(m - 1) /\ m \notin J /\ Cardinality(J) + 1 = m
  <2>1. J \in SUBSET (1..n) /\ i \notin J /\ i \in 1..n
      BY <1>4
  <2>2. ASSUME NEW j \in 1..n, NEW k \in 1..n, j < k, k \in J
        PROVE  j \in J
    <3> HIDE DEF Gave
    <3>1. Gave(j) >= Gave(k) /\ Gave(k) > Gave(i)
        BY <1>3, <2>2
    <3>2. Gave(j) \in Nat /\ Gave(k) \in Nat /\ Gave(i) \in Nat
        BY <1>4
    <3>3. Gave(j) > Gave(i)
        BY <3>1, <3>2
    <3>4. QED
        BY <3>3
  <2> HIDE DEF Gave, n
  <2> HIDE DEF J
  <2>3. QED
      BY <1>1, <2>1, <2>2, Segment
<1>6. A = {s[j] : j \in J}
  <2>1. A = {v \in D : CountOf(v, since) > Gave(i)}
      BY <1>1, <1>4 DEF Ahead
  <2>2. QED
      BY <1>2, <2>1
<1>7. Cardinality(A) = Cardinality(J)
  <2> DEFINE f == [j \in J |-> s[j]]
  <2>1. f \in Bijection(J, A)
    <3>1. f \in [J -> A] /\ \A v \in A : \E j \in J : f[j] = v
        BY <1>6
    <3>2. \A j, k \in J : f[j] = f[k] => j = k
        BY <1>2
    <3>3. QED
        BY <3>1, <3>2 DEF Bijection, Injection, Surjection, IsInjective
  <2>2. IsFiniteSet(J)
    <3>1. IsFiniteSet(1..n)
        BY <1>1, FS_Interval
    <3>2. J \in SUBSET (1..n)
        OBVIOUS
    <3>3. QED
        BY <3>1, <3>2, FS_Subset
  <2>3. QED
      BY <2>1, <2>2, FS_Bijection DEF ExistsBijection
<1>8. OwnRank(s[i], since) = m
    BY <1>5, <1>7 DEF OwnRank
<1>9. Gave(m) = Gave(i)
  <2>1. m \in 1..n /\ m <= i /\ m \notin J
      BY <1>1, <1>5
  <2>2. Gave(m) >= Gave(i) /\ ~(Gave(m) > Gave(i))
      BY <1>3, <2>1
  <2>3. QED
      BY <1>4, <2>1, <2>2
<1>10. \A j \in 1..(m - 1) : Gave(j) > Gave(i)
    BY <1>5
<1>11. QED
    BY <1>8, <1>9, <1>10

-----------------------------------------------------------------------------
(* The list, its cuts and the own rank.                                    *)

LEMMA OwnRanks == TypeOK => OwnRankFitsList
<1> SUFFICES ASSUME TypeOK, NEW since \in Cutoffs
             PROVE  LET places == Ranking(since, 100)
                        Gave(i) == CountOf(places[i], since)
                    IN  /\ Len(places) = Smaller(Cardinality(Donors(since)), 100)
                        /\ \A i \in DOMAIN places :
                               LET own == OwnRank(places[i], since)
                               IN  /\ places[i] \in Donors(since)
                                   /\ own \in 1..i /\ Gave(own) = Gave(i)
                                   /\ \A j \in 1..(i - 1) : places[j] # places[i]
                                   /\ \A j \in 1..(own - 1) : Gave(j) > Gave(i)
    BY DEF OwnRankFitsList
<1> DEFINE places == Ranking(since, 100)
           n == Cardinality(Donors(since))
           k == Smaller(n, 100)
           s == InOrder(since)
<1>1. since \in Nat /\ 100 \in Int /\ Clamp(100) = 100
    BY MonthsAssumption DEF Cutoffs, Clamp
<1>2. /\ k \in Nat /\ k <= n
      /\ Len(places) = k /\ DOMAIN places = 1..k
      /\ \A i \in 1..k : places[i] = s[i]
    BY <1>1, RankingOf
<1>3. n \in Nat
    BY <1>1, CountsOK
<1>4. /\ s \in [1..n -> Donors(since)]
      /\ \A i, j \in 1..n : s[i] = s[j] => i = j
    BY <1>1, ListedInOrder
<1>5. ASSUME NEW i \in 1..k
      PROVE  LET own == OwnRank(places[i], since)
             IN  /\ places[i] \in Donors(since)
                 /\ own \in 1..i /\ CountOf(places[own], since) = CountOf(places[i], since)
                 /\ \A j \in 1..(i - 1) : places[j] # places[i]
                 /\ \A j \in 1..(own - 1) :
                        CountOf(places[j], since) > CountOf(places[i], since)
  <2> DEFINE own == OwnRank(s[i], since)
  <2> HIDE DEF places, k, n, s
  <2>1. i \in 1..n /\ \A j \in 1..i : j \in 1..k /\ j \in 1..n
      BY <1>2, <1>3
  <2>2. /\ own \in 1..i
        /\ CountOf(s[own], since) = CountOf(s[i], since)
        /\ \A j \in 1..(own - 1) : CountOf(s[j], since) > CountOf(s[i], since)
      BY <1>1, <2>1, OwnRankIsPlace DEF s, n
  <2> HIDE DEF own
  <2>3. \A j \in 1..i : places[j] = s[j]
      BY <1>2, <2>1
  <2>4. places[i] = s[i] /\ own = OwnRank(places[i], since)
      BY <2>1, <2>3 DEF own
  <2>5. \A j \in 1..(own - 1) : j \in 1..i
      BY <2>2
  <2>6. \A j \in 1..(i - 1) : places[j] # places[i]
      BY <1>4, <2>1, <2>3
  <2>7. places[i] \in Donors(since)
      BY <1>4, <2>1, <2>4
  <2>8. QED
      BY <2>2, <2>3, <2>4, <2>5, <2>6, <2>7
<1>6. QED
    BY <1>1, <1>2, <1>5

LEMMA TopsFit == TypeOK => \A limit \in Int : TopFits(limit)
<1> SUFFICES ASSUME TypeOK, NEW limit \in Int, NEW since \in Cutoffs
             PROVE  LET top == ToSet(Ranking(since, limit))
                    IN  /\ top = {} <=> Donors(since) = {}
                        /\ \A u \in top : included[u]
                        /\ \A u \in top, v \in Donors(since) \ top :
                               CountOf(u, since) >= CountOf(v, since)
    BY DEF TopFits
<1> DEFINE t == Ranking(since, limit)
           top == ToSet(t)
           D == Donors(since)
           n == Cardinality(D)
           k == Smaller(n, Clamp(limit))
           s == InOrder(since)
<1>1. since \in Nat
    BY MonthsAssumption DEF Cutoffs
<1>2. /\ k \in Nat /\ k <= n /\ (n > 0 => k > 0)
      /\ DOMAIN t = 1..k /\ \A i \in 1..k : t[i] = s[i]
    BY <1>1, RankingOf
<1>3. /\ s \in [1..n -> D]
      /\ \A u \in D : \E i \in 1..n : s[i] = u
    BY <1>1, ListedInOrder
<1>4. IsFiniteSet(D) /\ n \in Nat /\ \A u \in D : included[u]
    BY <1>1, CountsOK
<1>5. n = 0 <=> D = {}
    BY <1>4, FS_EmptySet
<1>6. \A i, j \in 1..n : i <= j => CountOf(s[i], since) >= CountOf(s[j], since)
    BY <1>1, Descending
<1> HIDE DEF D, n, k, s, t
<1>7. top = {s[i] : i \in 1..k}
    BY <1>2 DEF ToSet
<1>8. \A i \in 1..k : i \in 1..n
    BY <1>2, <1>4
<1>9. \A u \in top : u \in D
    BY <1>3, <1>7, <1>8
<1>10. top = {} <=> D = {}
  <2>1. CASE D = {}
      BY <1>9, <2>1
  <2>2. CASE D # {}
    <3>1. 1 \in 1..k
        BY <1>2, <1>4, <1>5, <2>2
    <3>2. QED
        BY <1>7, <2>2, <3>1
  <2>3. QED
      BY <2>1, <2>2
<1>11. ASSUME NEW u \in top, NEW v \in D \ top
       PROVE  CountOf(u, since) >= CountOf(v, since)
  <2>1. PICK i \in 1..k : s[i] = u
      BY <1>7
  <2>2. PICK j \in 1..n : s[j] = v
      BY <1>3
  <2>3. j \notin 1..k
      BY <1>7, <2>2
  <2>4. i <= j /\ i \in 1..n
      BY <1>2, <1>4, <2>3
  <2>5. QED
      BY <1>6, <2>1, <2>2, <2>4
<1>12. QED
    BY <1>4, <1>9, <1>10, <1>11 DEF D, t

-----------------------------------------------------------------------------
(* The types.                                                              *)

(* What is about to be inserted is a row. *)
FeatureHolds(h) == h.pc = "feature.insert" => h.user \in Users /\ h.from \in 1..Months

IInv == TypeOK /\ \A w \in Web : FeatureHolds(handler[w])

LEMMA IdleIsHandler == Idle \in Handler
    BY MonthsAssumption DEF Idle, Handler, Cutoffs

LEMMA InitInv == Init => IInv
<1> SUFFICES ASSUME Init
             PROVE  IInv
    OBVIOUS
<1>1. exchanges \in [Exchanges -> Exchange]
  <2>1. \A x \in [donor: Users, month: {0}] : x \in Exchange
      BY MonthsAssumption DEF Exchange
  <2>2. QED
      BY <2>1 DEF Init
<1>2. QED
    BY <1>1, IdleIsHandler, MonthsAssumption DEF Init, IInv, TypeOK, Idle, FeatureHolds

LEMMA BecomeType ==
    ASSUME handler \in [Web -> Handler], NEW w \in Web, NEW h \in Handler, Become(w, h)
    PROVE  handler' \in [Web -> Handler]
    BY DEF Become

LEMMA RankBeginType ==
    ASSUME TypeOK, NEW w \in Web, NEW u \in Users, NEW since \in Cutoffs,
           RankBegin(w, u, since)
    PROVE  TypeOK'
<1> DEFINE h == [Idle EXCEPT !.pc = "rank.ahead", !.user = u, !.since = since,
                             !.count = CountOf(u, since)]
<1>1. CountOf(u, since) \in Nat
  <2>1. since \in Nat
      BY MonthsAssumption DEF Cutoffs
  <2>2. QED
      BY <2>1, CountsOK
<1>2. h \in Handler
    BY <1>1, IdleIsHandler DEF Handler
<1>3. handler' \in [Web -> Handler]
    BY <1>2, BecomeType DEF RankBegin, TypeOK
<1>4. QED
    BY <1>3 DEF RankBegin, TypeOK

LEMMA RankAheadType ==
    ASSUME TypeOK, NEW w \in Web, RankAhead(w)
    PROVE  TypeOK'
<1> DEFINE g == handler[w]
           A == Ahead(g.user, g.count, g.since)
           h == [g EXCEPT !.pc = "rank.answer", !.rank = Cardinality(A) + 1]
<1>1. g \in Handler
    BY DEF TypeOK
<1>2. Cardinality(A) \in Nat
  <2>1. g.since \in Nat
      BY <1>1, MonthsAssumption DEF Handler, Cutoffs
  <2>2. IsFiniteSet(Donors(g.since)) /\ A \in SUBSET Donors(g.since)
      BY <2>1, CountsOK DEF Ahead
  <2>3. QED
      BY <2>2, FS_Subset, FS_CardinalityType
<1> HIDE DEF A, g
<1>3. h \in Handler
  <2>1. Cardinality(A) + 1 \in Nat
      BY <1>2
  <2>2. QED
      BY <1>1, <2>1 DEF Handler
<1>4. handler' \in [Web -> Handler]
    BY <1>3, BecomeType DEF RankAhead, TypeOK, A, g
<1>5. QED
    BY <1>4 DEF RankAhead, TypeOK

(* A cancellation is noted where the caller's exchanges have been counted. *)
LEMMA CancelMoves ==
    ASSUME TypeOK, NEW e \in Exchanges, Cancel(e), NEW w \in Web
    PROVE  \/ handler'[w] = handler[w] /\ ~( /\ handler[w].pc = "rank.ahead"
                                            /\ e \in Completed(handler[w].since)
                                            /\ exchanges[e].donor = handler[w].user)
           \/ handler'[w] = [handler[w] EXCEPT !.undone = handler[w].undone \cup {e}]
    BY DEF Cancel

LEMMA CancelType ==
    ASSUME TypeOK, NEW e \in Exchanges, Cancel(e)
    PROVE  TypeOK'
<1>1. \A w \in Web : handler'[w] \in Handler
  <2> SUFFICES ASSUME NEW w \in Web
               PROVE  handler'[w] \in Handler
      OBVIOUS
  <2>1. handler[w] \in Handler
      BY DEF TypeOK
  <2>2. [handler[w] EXCEPT !.undone = handler[w].undone \cup {e}] \in Handler
      BY <2>1 DEF Handler
  <2>3. QED
      BY <2>1, <2>2, CancelMoves
<1>2. handler' = [w \in Web |-> handler'[w]]
    BY DEF Cancel
<1>3. handler' \in [Web -> Handler]
    BY <1>1, <1>2
<1>4. exchanges' \in [Exchanges -> Exchange]
    BY MonthsAssumption DEF Cancel, TypeOK, Exchange
<1>5. QED
    BY <1>3, <1>4 DEF Cancel, TypeOK

LEMMA NextType == IInv /\ [Next]_vars => TypeOK'
<1> SUFFICES ASSUME IInv, [Next]_vars
             PROVE  TypeOK'
    OBVIOUS
<1>0. TypeOK
    BY DEF IInv
<1>1. ASSUME NEW w \in Web, RankAnswer(w)
      PROVE  TypeOK'
    BY <1>0, <1>1, IdleIsHandler DEF RankAnswer, Become, TypeOK
<1>2. ASSUME NEW w \in Web, NEW u \in Users, NEW given \in 0..Months,
             NEW until \in 0..Months, FeatureBegin(w, u, given, until)
      PROVE  TypeOK'
  <2> DEFINE h == [Idle EXCEPT !.pc = "feature.insert", !.user = u, !.until = until,
                               !.from = IF given = 0 THEN month ELSE given]
  <2>1. (IF given = 0 THEN month ELSE given) \in 0..Months
      BY <1>0, MonthsAssumption DEF TypeOK
  <2>2. h \in Handler
      BY <2>1, IdleIsHandler DEF Handler
  <2>3. handler' \in [Web -> Handler]
      BY <1>0, <1>2, <2>2, BecomeType DEF FeatureBegin, TypeOK
  <2>4. QED
      BY <1>0, <1>2, <2>3 DEF FeatureBegin, TypeOK
<1>3. ASSUME NEW w \in Web, FeatureInsert(w)
      PROVE  TypeOK'
  <2> DEFINE x == [user |-> handler[w].user, from |-> handler[w].from,
                   until |-> handler[w].until]
  <2>1. handler' \in [Web -> Handler]
      BY <1>0, <1>3, IdleIsHandler DEF FeatureInsert, Become, TypeOK
  <2>2. x \in Entry
      BY <1>0, <1>3 DEF FeatureInsert, At, IInv, FeatureHolds, TypeOK, Handler, Entry
  <2> HIDE DEF x
  <2>3. PICK n \in Entries : featured' = [featured EXCEPT ![n] = x]
      BY <1>3 DEF FeatureInsert, x
  <2>4. featured' \in [Entries -> Entry \cup {None}]
      BY <1>0, <2>2, <2>3 DEF TypeOK
  <2>5. QED
      BY <1>0, <1>3, <2>1, <2>4 DEF FeatureInsert, TypeOK
<1>4. ASSUME NEW n \in Entries, Unfeature(n)
      PROVE  TypeOK'
    BY <1>0, <1>4 DEF Unfeature, TypeOK
<1>5. ASSUME NEW e \in Exchanges, Complete(e) \/ Cancel(e)
      PROVE  TypeOK'
    BY <1>0, <1>5, CancelType DEF Complete, TypeOK, Exchange
<1>6. ASSUME NEW u \in Users, NEW b \in BOOLEAN, SetIncluded(u, b)
      PROVE  TypeOK'
    BY <1>0, <1>6 DEF SetIncluded, TypeOK
<1>7. CASE TurnMonth
    BY <1>0, <1>7, MonthsAssumption DEF TurnMonth, TypeOK
<1>8. CASE UNCHANGED vars
    BY <1>0, <1>8 DEF vars, TypeOK
<1>9. QED
    BY <1>0, <1>1, <1>2, <1>3, <1>4, <1>5, <1>6, <1>7, <1>8, RankBeginType, RankAheadType
       DEF Next, Arrive, Step

(* Where a step leads. *)
LEMMA StepMoves ==
    ASSUME TypeOK, NEW v \in Web, Step(v)
    PROVE  /\ handler'[v].pc \in {"rank.answer", "idle"}
           /\ \A w \in Web \ {v} : handler'[w] = handler[w]
<1>1. handler \in [Web -> Handler] /\ handler[v] \in Handler
    BY DEF TypeOK
<1>2. CASE RankAhead(v)
  <2>1. PICK n : handler' = [handler EXCEPT ![v] = [handler[v] EXCEPT
                                 !.pc = "rank.answer", !.rank = n]]
      BY <1>2 DEF RankAhead, Become
  <2>2. handler'[v] = [handler[v] EXCEPT !.pc = "rank.answer", !.rank = n]
      BY <1>1, <2>1
  <2>3. handler'[v].pc = "rank.answer"
      BY <1>1, <2>2 DEF Handler
  <2>4. QED
      BY <1>1, <2>1, <2>3
<1>3. CASE RankAnswer(v) \/ FeatureInsert(v)
    BY <1>1, <1>3 DEF RankAnswer, FeatureInsert, Become, Idle
<1>4. QED
    BY <1>2, <1>3 DEF Step

(* Only a call that begins makes an entry, and from what it was given. *)
LEMMA NextInv == IInv /\ [Next]_vars => IInv'
<1> SUFFICES ASSUME IInv, [Next]_vars
             PROVE  IInv'
    OBVIOUS
<1>1. TypeOK /\ TypeOK'
    BY NextType DEF IInv
<1> SUFFICES ASSUME NEW w \in Web
             PROVE  FeatureHolds(handler[w])'
    BY <1>1 DEF IInv
<1>2. FeatureHolds(handler[w])
    BY DEF IInv
<1>3. ASSUME handler'[w] = handler[w]
      PROVE  FeatureHolds(handler[w])'
    BY <1>2, <1>3 DEF FeatureHolds
<1>4. ASSUME handler'[w].pc # "feature.insert"
      PROVE  FeatureHolds(handler[w])'
    BY <1>4 DEF FeatureHolds
<1>5. ASSUME NEW v \in Web, Arrive(v)
      PROVE  FeatureHolds(handler[w])'
  <2>1. CASE v # w
      BY <1>1, <1>3, <1>5, <2>1 DEF Arrive, RankBegin, FeatureBegin, Become, TypeOK
  <2>2. ASSUME NEW u \in Users, NEW since \in Cutoffs, v = w, RankBegin(v, u, since)
        PROVE  FeatureHolds(handler[w])'
      BY <1>1, <1>4, <2>2 DEF RankBegin, Become, Idle, TypeOK
  <2>3. ASSUME NEW u \in Users, NEW given \in 0..Months, NEW until \in 0..Months,
               v = w, FeatureBegin(v, u, given, until)
        PROVE  FeatureHolds(handler[w])'
    <3>1. (IF given = 0 THEN month ELSE given) \in 1..Months
        BY <1>1, MonthsAssumption DEF TypeOK
    <3>2. /\ handler'[w].user = u
          /\ handler'[w].from = IF given = 0 THEN month ELSE given
        BY <1>1, <2>3 DEF FeatureBegin, Become, Idle, TypeOK
    <3>3. QED
        BY <3>1, <3>2 DEF FeatureHolds
  <2>4. QED
      BY <1>5, <2>1, <2>2, <2>3 DEF Arrive
<1>6. ASSUME NEW v \in Web, Step(v)
      PROVE  FeatureHolds(handler[w])'
  <2>1. CASE v # w
      BY <1>1, <1>3, <1>6, <2>1, StepMoves
  <2>2. CASE v = w
    <3>1. handler'[w].pc \in {"rank.answer", "idle"}
        BY <1>1, <1>6, <2>2, StepMoves
    <3>2. QED
        BY <1>4, <3>1
  <2>3. QED
      BY <2>1, <2>2
<1>7. ASSUME NEW e \in Exchanges, Cancel(e)
      PROVE  FeatureHolds(handler[w])'
  <2>1. handler'[w].pc = handler[w].pc /\ handler'[w].user = handler[w].user
        /\ handler'[w].from = handler[w].from
      BY <1>1, <1>7, CancelMoves DEF TypeOK, Handler
  <2>2. QED
      BY <1>2, <2>1 DEF FeatureHolds
<1>8. QED
    BY <1>3, <1>5, <1>6, <1>7
       DEF Next, Unfeature, Complete, SetIncluded, TurnMonth, vars

(* The types, and what a handler holds that is about to insert a row. *)
THEOREM Invariance == Spec => []IInv
<1>1. Init => IInv
    BY InitInv
<1>2. IInv /\ [Next]_vars => IInv'
    BY NextInv
<1>3. QED
    BY <1>1, <1>2, PTL DEF Spec

(* Every row and every local has its type. *)
THEOREM TypeCorrect == Spec => []TypeOK
<1>1. IInv => TypeOK
    BY DEF IInv
<1>2. QED
    BY <1>1, Invariance, PTL

(* get_leaderboard and get_my_leaderboard_rank agree about every moment,   *)
(* ties, short lists and however many donors there are included.           *)
THEOREM RanksAgree == Spec => []RankingsAgree
<1>1. TypeOK => RankingsAgree
    BY OwnRanks, TopsFit DEF RankingsAgree, TopIsTop
<1>2. QED
    BY <1>1, TypeCorrect, PTL

(* Whatever limit is asked for, what get_leaderboard shows is the top.     *)
THEOREM EveryTopFits == Spec => [](\A limit \in Int : TopFits(limit))
<1>1. TypeOK => \A limit \in Int : TopFits(limit)
    BY TopsFit
<1>2. QED
    BY <1>1, TypeCorrect, PTL

-----------------------------------------------------------------------------
(* The own rank after two queries.                                         *)

(* What the first query counted has been given or undone since; the period *)
(* has begun.                                                              *)
CountHolds(h) ==
    h.pc = "rank.ahead" =>
        /\ h.since <= month
        /\ h.count <= Cardinality(Given(h.user, h.since) \cup h.undone)

RankInv == \A w \in Web : CountHolds(handler[w])

LEMMA GivenCounts ==
    ASSUME NEW u, NEW since, NEW S \in SUBSET Exchanges
    PROVE  /\ IsFiniteSet(Given(u, since) \cup S)
           /\ Cardinality(Given(u, since) \cup S) \in Nat
           /\ \A T \in SUBSET (Given(u, since) \cup S) :
                  Cardinality(T) \in Nat /\ Cardinality(T) <= Cardinality(Given(u, since) \cup S)
<1>1. Given(u, since) \cup S \in SUBSET Exchanges
    BY DEF Given, Completed
<1>2. QED
    BY <1>1, ExchangesAssumption, FS_Subset, FS_CardinalityType

(* Whoever has a count has not opted out, and the count is what was given. *)
LEMMA CountIsGiven ==
    ASSUME NEW u, NEW since, CountOf(u, since) > 0
    PROVE  CountOf(u, since) = Cardinality(Given(u, since))
<1>1. {e \in Counted(since) : exchanges[e].donor = u} # {}
    BY FS_EmptySet DEF CountOf
<1>2. {e \in Counted(since) : exchanges[e].donor = u} = Given(u, since)
    BY <1>1 DEF Counted, Given
<1>3. QED
    BY <1>2 DEF CountOf

(* What a caller had given has been given after a step, or is undone: a    *)
(* completion stays in the period although completed_at is written again.  *)
LEMMA GivenStays ==
    ASSUME TypeOK, [Next]_vars, NEW w \in Web, NEW h \in Handler, handler[w] = h,
           h.pc = "rank.ahead", h.since <= month,
           handler'[w] = h \/ \E e \in Exchanges : Cancel(e)
    PROVE  Given(h.user, h.since) \cup h.undone
               \subseteq Given(h.user, h.since)' \cup handler'[w].undone
<1>1. ASSUME NEW e \in Exchanges, Cancel(e)
      PROVE  Given(h.user, h.since) \cup h.undone
                 \subseteq Given(h.user, h.since)' \cup handler'[w].undone
  <2>1. \A d \in Exchanges \ {e} : exchanges'[d] = exchanges[d]
      BY <1>1 DEF Cancel, TypeOK
  <2>2. \A d \in Given(h.user, h.since) \ {e} : d \in Given(h.user, h.since)'
      BY <2>1 DEF Given, Completed
  <2>3. CASE handler'[w] = [h EXCEPT !.undone = h.undone \cup {e}]
    <3>1. handler'[w].undone = h.undone \cup {e}
        BY <2>3 DEF Handler
    <3>2. QED
        BY <2>2, <3>1
  <2>4. CASE handler'[w] = h /\ e \notin Given(h.user, h.since)
      BY <2>2, <2>4
  <2>5. QED
      BY <1>1, <2>3, <2>4, CancelMoves DEF Given
<1>2. ASSUME NEW e \in Exchanges, Complete(e)
      PROVE  Given(h.user, h.since) \subseteq Given(h.user, h.since)'
  <2>1. \A d \in Exchanges \ {e} : exchanges'[d] = exchanges[d]
      BY <1>2 DEF Complete, TypeOK
  <2>2. exchanges'[e].donor = exchanges[e].donor /\ exchanges'[e].month = month
      BY <1>2 DEF Complete, TypeOK, Exchange
  <2>3. month # 0
      BY MonthsAssumption DEF TypeOK
  <2>4. QED
      BY <2>1, <2>2, <2>3 DEF Given, Completed
<1>3. ASSUME exchanges' = exchanges
      PROVE  Given(h.user, h.since)' = Given(h.user, h.since)
    BY <1>3 DEF Given, Completed
<1>4. CASE \E e \in Exchanges : Cancel(e)
    BY <1>1, <1>4
<1>5. CASE ~ \E e \in Exchanges : Cancel(e)
  <2>1. handler'[w] = h
      BY <1>5
  <2>2. exchanges' = exchanges \/ \E e \in Exchanges : Complete(e)
      BY <1>5 DEF Next, Arrive, Step, RankBegin, RankAhead, RankAnswer, FeatureBegin,
                  FeatureInsert, Unfeature, SetIncluded, TurnMonth, vars
  <2>3. Given(h.user, h.since) \subseteq Given(h.user, h.since)'
      BY <1>2, <1>3, <2>2
  <2>4. QED
      BY <2>1, <2>3
<1>6. QED
    BY <1>4, <1>5

LEMMA InitRank == Init => RankInv
    BY DEF Init, RankInv, CountHolds, Idle

(* The months pass one way. *)
LEMMA MonthGrows == TypeOK /\ [Next]_vars => month \in Nat /\ month' \in Nat /\ month <= month'
<1> SUFFICES ASSUME TypeOK, [Next]_vars
             PROVE  month \in Nat /\ month' \in Nat /\ month <= month'
    OBVIOUS
<1>1. month \in Nat
    BY MonthsAssumption DEF TypeOK
<1>2. month' = month \/ month' = month + 1
    BY DEF Next, Arrive, Step, RankBegin, RankAhead, RankAnswer, FeatureBegin, FeatureInsert,
           Unfeature, Complete, Cancel, SetIncluded, TurnMonth, vars
<1>3. QED
    BY <1>1, <1>2

(* A count is written by the first query only.                             *)
LEMMA NextRank == IInv /\ RankInv /\ [Next]_vars => RankInv'
<1> SUFFICES ASSUME IInv, RankInv, [Next]_vars, NEW w \in Web
             PROVE  CountHolds(handler[w])'
    BY DEF RankInv
<1>1. /\ TypeOK /\ TypeOK' /\ CountHolds(handler[w])
      /\ handler[w] \in Handler /\ handler'[w] \in Handler
    BY NextType DEF IInv, TypeOK, RankInv
<1>2. ASSUME handler'[w] = handler[w] \/ \E e \in Exchanges : Cancel(e)
      PROVE  CountHolds(handler[w])'
  <2> PICK h \in Handler : handler[w] = h
      BY <1>1
  <2> PICK h1 \in Handler : handler'[w] = h1
      BY <1>1
  <2>0. /\ h1.pc = h.pc /\ h1.user = h.user /\ h1.since = h.since /\ h1.count = h.count
    <3>1. h1 = h \/ \E e : h1 = [h EXCEPT !.undone = h.undone \cup {e}]
        BY <1>1, <1>2, CancelMoves
    <3>2. QED
        BY <3>1 DEF Handler
  <2>1. h.count \in Nat /\ h.since \in Nat /\ h1.undone \in SUBSET Exchanges
      BY MonthsAssumption DEF Handler, Cutoffs
  <2> SUFFICES ASSUME h.pc = "rank.ahead"
               PROVE  /\ h.since <= month'
                      /\ h.count <= Cardinality(Given(h.user, h.since)' \cup h1.undone)
      BY <2>0 DEF CountHolds, Given, Completed
  <2>2. h.since <= month /\ h.count <= Cardinality(Given(h.user, h.since) \cup h.undone)
      BY <1>1 DEF CountHolds
  <2>3. h.since <= month'
      BY <1>1, <2>1, <2>2, MonthGrows
  <2>4. Given(h.user, h.since) \cup h.undone \subseteq Given(h.user, h.since)' \cup h1.undone
      BY <1>1, <1>2, <2>2, GivenStays
  <2>5. /\ Cardinality(Given(h.user, h.since)' \cup h1.undone) \in Nat
        /\ Cardinality(Given(h.user, h.since) \cup h.undone) \in Nat
        /\ Cardinality(Given(h.user, h.since) \cup h.undone)
             <= Cardinality(Given(h.user, h.since)' \cup h1.undone)
    <3>1. Given(h.user, h.since)' \cup h1.undone \in SUBSET Exchanges
        BY <2>1 DEF Given, Completed
    <3>2. QED
        BY <2>4, <3>1, ExchangesAssumption, FS_Subset, FS_CardinalityType
  <2>6. QED
      BY <2>1, <2>2, <2>3, <2>5
<1>3. ASSUME handler'[w].pc # "rank.ahead"
      PROVE  CountHolds(handler[w])'
    BY <1>3 DEF CountHolds
<1>4. ASSUME NEW v \in Web, Arrive(v)
      PROVE  CountHolds(handler[w])'
  <2>1. CASE v # w
      BY <1>1, <1>2, <1>4, <2>1 DEF Arrive, RankBegin, FeatureBegin, Become, TypeOK
  <2>2. ASSUME NEW u \in Users, NEW since \in Cutoffs, v = w, RankBegin(v, u, since)
        PROVE  CountHolds(handler[w])'
    <3>1. CountOf(u, since) > 0 /\ exchanges' = exchanges /\ month' = month
          /\ since <= month
        BY <1>1, <2>2, MonthsAssumption DEF RankBegin, TypeOK
    <3>2. /\ handler'[w].user = u /\ handler'[w].since = since
          /\ handler'[w].count = CountOf(u, since) /\ handler'[w].undone = {}
        BY <1>1, <2>2 DEF RankBegin, Become, Idle, TypeOK
    <3>3. CountOf(u, since) = Cardinality(Given(u, since) \cup {})
        BY <3>1, CountIsGiven
    <3>4. Given(u, since)' = Given(u, since)
        BY <3>1 DEF Given, Completed
    <3>5. Cardinality(Given(u, since) \cup {}) \in Nat
        BY GivenCounts
    <3>6. QED
        BY <3>1, <3>2, <3>3, <3>4, <3>5 DEF CountHolds, Given, Completed
  <2>3. ASSUME NEW u \in Users, NEW given \in 0..Months, NEW until \in 0..Months,
               v = w, FeatureBegin(v, u, given, until)
        PROVE  CountHolds(handler[w])'
      BY <1>1, <1>3, <2>3 DEF FeatureBegin, Become, Idle, TypeOK
  <2>4. QED
      BY <1>4, <2>1, <2>2, <2>3 DEF Arrive
<1>5. ASSUME NEW v \in Web, Step(v)
      PROVE  CountHolds(handler[w])'
  <2>1. CASE v # w
      BY <1>1, <1>2, <1>5, <2>1, StepMoves
  <2>2. CASE v = w
    <3>1. handler'[w].pc \in {"rank.answer", "idle"}
        BY <1>1, <1>5, <2>2, StepMoves
    <3>2. QED
        BY <1>3, <3>1
  <2>3. QED
      BY <2>1, <2>2
<1>6. QED
    BY <1>2, <1>4, <1>5
       DEF Next, Unfeature, Complete, SetIncluded, TurnMonth, vars

(* Who counts those ahead of fewer donations counts more. *)
LEMMA AheadShrinks ==
    ASSUME TypeOK, NEW u, NEW since \in Nat, NEW m \in Nat, NEW n \in Nat, m <= n
    PROVE  /\ Cardinality(Ahead(u, n, since)) <= Cardinality(Ahead(u, m, since))
           /\ Cardinality(Ahead(u, n, since)) \in Nat
           /\ Cardinality(Ahead(u, m, since)) \in Nat
<1>1. /\ Ahead(u, n, since) \in SUBSET Ahead(u, m, since)
      /\ Ahead(u, m, since) \in SUBSET Donors(since)
  <2>1. \A v : CountOf(v, since) \in Nat
      BY CountsOK
  <2>2. QED
      BY <2>1 DEF Ahead
<1>2. IsFiniteSet(Donors(since))
    BY CountsOK
<1>3. IsFiniteSet(Ahead(u, m, since)) /\ IsFiniteSet(Ahead(u, n, since))
    BY <1>1, <1>2, FS_Subset
<1>4. QED
    BY <1>1, <1>3, FS_Subset, FS_CardinalityType

(* The step that computes the answer. *)
LEMMA AnswerIsModest ==
    ASSUME IInv, RankInv, [Next]_vars, NEW w \in Web,
           handler[w].pc = "rank.ahead", handler'[w].pc = "rank.answer"
    PROVE  LET h == handler[w]
               credit == Cardinality(Given(h.user, h.since) \cup h.undone)
           IN  handler'[w].rank >= Cardinality(Ahead(h.user, credit, h.since)) + 1
<1> DEFINE h == handler[w]
           m == h.count
           n == Cardinality(Given(h.user, h.since) \cup h.undone)
<1>1. TypeOK /\ h \in Handler
    BY DEF IInv, TypeOK
<1>2. RankAhead(w)
  <2>1. ASSUME NEW v \in Web, Arrive(v)
        PROVE  FALSE
      BY <1>1, <2>1 DEF Arrive, RankBegin, FeatureBegin, Become, At, Idle, TypeOK
  <2>2. ASSUME NEW v \in Web, Step(v)
        PROVE  RankAhead(w)
      BY <1>1, <2>2 DEF Step, RankAhead, RankAnswer, FeatureInsert, Become, At, Idle, TypeOK
  <2>3. ASSUME NEW e \in Exchanges, Cancel(e)
        PROVE  FALSE
    <3>1. handler'[w].pc = handler[w].pc
        BY <1>1, <2>3, CancelMoves DEF Handler
    <3>2. QED
        BY <3>1
  <2>4. handler' # handler
      OBVIOUS
  <2>5. QED
      BY <2>1, <2>2, <2>3, <2>4 DEF Next, Unfeature, Complete, SetIncluded, TurnMonth, vars
<1>3. h.since \in Nat /\ m \in Nat /\ h.undone \in SUBSET Exchanges
    BY <1>1, MonthsAssumption DEF Handler, Cutoffs
<1>4. n \in Nat /\ m <= n
    BY <1>3, GivenCounts DEF RankInv, CountHolds
<1>5. handler'[w].rank = Cardinality(Ahead(h.user, m, h.since)) + 1
    BY <1>1, <1>2 DEF RankAhead, Become, TypeOK, Handler
<1> HIDE DEF m, n
<1>6. /\ Cardinality(Ahead(h.user, n, h.since)) <= Cardinality(Ahead(h.user, m, h.since))
      /\ Cardinality(Ahead(h.user, n, h.since)) \in Nat
      /\ Cardinality(Ahead(h.user, m, h.since)) \in Nat
    BY <1>1, <1>3, <1>4, AheadShrinks
<1>7. QED
    BY <1>5, <1>6 DEF n

(* get_my_leaderboard_rank counts those ahead of what the caller had given *)
(* at its first query: whoever completes, opts out or in, and whichever    *)
(* month begins between the queries, the rank is none too good; only what  *)
(* a late cancellation undoes in between is still counted.                 *)
THEOREM RankIsModest == Spec => RankNeverFlatters
<1>1. Init => RankInv
    BY InitRank
<1>2. IInv /\ RankInv /\ [Next]_vars => RankInv'
    BY NextRank
<1>3. IInv /\ RankInv /\ [Next]_vars =>
          [\A w \in Web :
              LET h == handler[w]
                  credit == Cardinality(Given(h.user, h.since) \cup h.undone)
              IN  h.pc = "rank.ahead" /\ handler'[w].pc = "rank.answer"
                  => handler'[w].rank >= Cardinality(Ahead(h.user, credit, h.since)) + 1]_vars
    BY AnswerIsModest
<1>4. QED
    BY <1>1, <1>2, <1>3, Invariance, PTL DEF Spec, RankNeverFlatters
=============================================================================

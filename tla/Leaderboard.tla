----------------------------- MODULE Leaderboard -----------------------------
(***************************************************************************)
(* The public ranking of donors, a donor's own rank, and the editorial     *)
(* spotlight (apps/accounts/leaderboard_services.py, leaderboard_views.py).*)
(*                                                                         *)
(* The public list is one query.  The own rank is two, of one queryset:    *)
(* how much the caller has given, then how many donors have given more;    *)
(* exchanges are completed, completions are overwritten by cancellations   *)
(* and donors opt out in between.  Names, ratings and tiers are shown      *)
(* beside the ranks and decide nothing.                                    *)
(***************************************************************************)
EXTENDS Naturals, FiniteSets, Sequences, SequencesExt

CONSTANTS
    Users,      \* user ids, numbers because the query orders by them
    Exchanges,  \* primary keys of exchanges: a bound on those there are
    Months,     \* bound: the calendar runs through 1..Months
    Entries,    \* primary keys of FeaturedDonor rows: a bound
    Web,        \* processes that serve HTTP requests
    None

ASSUME UsersAssumption == Users \subseteq Nat /\ IsFiniteSet(Users)
ASSUME ExchangesAssumption == IsFiniteSet(Exchanges)
ASSUME MonthsAssumption == Months \in Nat \ {0}
ASSUME NoneAssumption == None \notin Users \cup Exchanges \cup Entries

VARIABLES
    month,      \* the current calendar month
    exchanges,  \* exchange -> donor and month of completed_at; month 0: it
                \* is scheduled or cancelled, and in no query here
    included,   \* User.include_in_leaderboard
    featured,   \* table accounts_featureddonor: entry -> user and dates
    handler     \* what each process is in the middle of

vars == <<month, exchanges, included, featured, handler>>

-----------------------------------------------------------------------------
(* since 0: the period "all_time". *)
Cutoffs == 0..Months
Exchange == [donor: Users, month: 0..Months]

(* until 0: no end date. *)
Entry == [user: Users, from: 1..Months, until: 0..Months]

(* count: my_count.  A history: undone has the caller's exchanges that have *)
(* been cancelled since they were counted.                                 *)
Handler == [pc: {"idle", "rank.ahead", "rank.answer", "feature.insert"},
            user: Users \cup {None}, since: Cutoffs, count: Nat, rank: Nat,
            undone: SUBSET Exchanges, from: 0..Months, until: 0..Months]
Idle == [pc |-> "idle", user |-> None, since |-> 0, count |-> 0, rank |-> 0,
         undone |-> {}, from |-> 0, until |-> 0]

Init ==
    /\ month = 1
    /\ exchanges \in [Exchanges -> [donor: Users, month: {0}]]
    /\ included = [u \in Users |-> TRUE]
    /\ featured = [n \in Entries |-> None]
    /\ handler = [w \in Web |-> Idle]

At(w, pc) == handler[w].pc = pc
Become(w, h) == handler' = [handler EXCEPT ![w] = h]

-----------------------------------------------------------------------------
(* The queries.                                                            *)

Completed(since) == {e \in Exchanges : exchanges[e].month # 0 /\ exchanges[e].month >= since}

(* _completed_exchanges_queryset. *)
Counted(since) == {e \in Completed(since) : included[exchanges[e].donor]}

CountOf(u, since) == Cardinality({e \in Counted(since) : exchanges[e].donor = u})
Donors(since) == {exchanges[e].donor : e \in Counted(since)}

(* order_by("-completed_donation_count", "donor_id"). *)
Before(u, v, since) ==
    \/ CountOf(u, since) > CountOf(v, since)
    \/ CountOf(u, since) = CountOf(v, since) /\ u < v

Smaller(m, n) == IF m < n THEN m ELSE n
Clamp(limit) == IF limit < 1 THEN 1 ELSE IF limit > 100 THEN 100 ELSE limit

(* The rows of the query in its order; no two donors tie in it. *)
InOrder(since) ==
    CHOOSE rows \in [1..Cardinality(Donors(since)) -> Donors(since)] :
        \A i, j \in DOMAIN rows : i < j => Before(rows[i], rows[j], since)

(* get_leaderboard: the donor at each place; the place is the rank. *)
Ranking(since, limit) ==
    SubSeq(InOrder(since), 1, Smaller(Cardinality(Donors(since)), Clamp(limit)))

(* filter(count__gte=my_count). *)
Ahead_mut(u, n, since) == {v \in Donors(since) \ {u} : CountOf(v, since) >= n}

(* The second query of get_my_leaderboard_rank. *)
Ahead(u, n, since) == {v \in Donors(since) \ {u} : CountOf(v, since) > n}

(* FeaturedDonor entries that the public endpoint shows. *)
Shown == {n \in Entries : /\ featured[n] # None
                          /\ featured[n].from <= month
                          /\ featured[n].until = 0 \/ featured[n].until >= month}

-----------------------------------------------------------------------------
(* GET /leaderboard/me/.                                                   *)

(* The cutoff is taken once, when the queryset is built.  A caller who has *)
(* given nothing is answered at once, with rank None.                      *)
RankBegin(w, u, since) ==
    /\ At(w, "idle")
    /\ since \in {0, month}
    /\ CountOf(u, since) > 0
    /\ Become(w, [Idle EXCEPT !.pc = "rank.ahead", !.user = u, !.since = since,
                              !.count = CountOf(u, since)])
    /\ UNCHANGED <<month, exchanges, included, featured>>

(* The queryset is built anew for the second query. *)
RankAhead_mut(w) ==
    /\ At(w, "rank.ahead")
    /\ LET h == handler[w]
           since == IF h.since = 0 THEN 0 ELSE month
       IN  Become(w, [h EXCEPT !.pc = "rank.answer",
                               !.rank = Cardinality(Ahead(h.user, h.count, since)) + 1])
    /\ UNCHANGED <<month, exchanges, included, featured>>

RankAhead(w) ==
    /\ At(w, "rank.ahead")
    /\ LET h == handler[w]
       IN  Become(w, [h EXCEPT !.pc = "rank.answer",
                               !.rank = Cardinality(Ahead(h.user, h.count, h.since)) + 1])
    /\ UNCHANGED <<month, exchanges, included, featured>>

RankAnswer(w) ==
    /\ At(w, "rank.answer")
    /\ Become(w, Idle)
    /\ UNCHANGED <<month, exchanges, included, featured>>

-----------------------------------------------------------------------------
(* POST and DELETE /admin/leaderboard/featured/.                           *)

(* The serializer fetches the user and puts now for a featured_from that   *)
(* is not given (0); create_featured_donor looks at the opt-out.  Nothing  *)
(* relates featured_from to featured_until.                                *)
FeatureBegin(w, u, given, until) ==
    /\ At(w, "idle")
    /\ included[u]
    /\ Become(w, [Idle EXCEPT !.pc = "feature.insert", !.user = u, !.until = until,
                              !.from = IF given = 0 THEN month ELSE given])
    /\ UNCHANGED <<month, exchanges, included, featured>>

FeatureInsert(w) ==
    /\ At(w, "feature.insert")
    /\ \E n \in Entries :
          /\ featured[n] = None
          /\ featured' = [featured EXCEPT ![n] =
                [user |-> handler[w].user, from |-> handler[w].from, until |-> handler[w].until]]
    /\ Become(w, Idle)
    /\ UNCHANGED <<month, exchanges, included>>

(* remove_featured_donor. *)
Unfeature(n) ==
    /\ featured[n] # None
    /\ featured' = [featured EXCEPT ![n] = None]
    /\ UNCHANGED <<month, exchanges, included, handler>>

-----------------------------------------------------------------------------
(* What the rest of the system does meanwhile.                             *)

(* The save of complete_exchange, and that of cancel_exchange.  Both guard *)
(* on the status they read when the call began and then save whatever the  *)
(* row holds by now; a call that read the exchange while it was scheduled  *)
(* can come to its save at any later time, over the other's.               *)
Complete(e) ==
    /\ exchanges' = [exchanges EXCEPT ![e].month = month]
    /\ UNCHANGED <<month, included, featured, handler>>

Cancel(e) ==
    /\ exchanges' = [exchanges EXCEPT ![e].month = 0]
    /\ handler' = [w \in Web |->
            LET h == handler[w]
            IN  IF h.pc = "rank.ahead" /\ e \in Completed(h.since) /\ exchanges[e].donor = h.user
                THEN [h EXCEPT !.undone = @ \cup {e}]
                ELSE h]
    /\ UNCHANGED <<month, included, featured>>

(* PATCH /users/me/ or /admin/users/{id}/ of include_in_leaderboard. *)
SetIncluded(u, b) ==
    /\ included[u] # b
    /\ included' = [included EXCEPT ![u] = b]
    /\ UNCHANGED <<month, exchanges, featured, handler>>

TurnMonth ==
    /\ month < Months
    /\ month' = month + 1
    /\ UNCHANGED <<exchanges, included, featured, handler>>

Arrive(w) ==
    \/ \E u \in Users, since \in Cutoffs : RankBegin(w, u, since)
    \/ \E u \in Users, given \in 0..Months, until \in 0..Months :
          FeatureBegin(w, u, given, until)

Step(w) == RankAhead(w) \/ RankAnswer(w) \/ FeatureInsert(w)

Next ==
    \/ \E w \in Web : Arrive(w) \/ Step(w)
    \/ \E n \in Entries : Unfeature(n)
    \/ \E e \in Exchanges : Complete(e) \/ Cancel(e)
    \/ \E u \in Users, b \in BOOLEAN : SetIncluded(u, b)
    \/ TurnMonth

Spec == Init /\ [][Next]_vars

-----------------------------------------------------------------------------
(* Every row and every local has its type. *)
TypeOK ==
    /\ month \in 1..Months
    /\ exchanges \in [Exchanges -> Exchange]
    /\ included \in [Users -> BOOLEAN]
    /\ featured \in [Entries -> Entry \cup {None}]
    /\ handler \in [Web -> Handler]

OwnRank(u, since) == Cardinality(Ahead(u, CountOf(u, since), since)) + 1

(* What /leaderboard/ and /leaderboard/me/ say of one moment fits: the     *)
(* longest list there is shows each donor once, as many as it has places,  *)
(* and the own rank, computed by counting, is the first place in the list  *)
(* of those who gave as much.  (For a donor in a tie it is therefore not   *)
(* the rank that the list shows.)                                          *)
OwnRankFitsList ==
    \A since \in Cutoffs :
        LET places == Ranking(since, 100)
            Gave(i) == CountOf(places[i], since)
        IN  /\ Len(places) = Smaller(Cardinality(Donors(since)), 100)
            /\ \A i \in DOMAIN places :
                   LET own == OwnRank(places[i], since)
                   IN  /\ places[i] \in Donors(since)
                       /\ own \in 1..i /\ Gave(own) = Gave(i)
                       /\ \A j \in 1..(i - 1) : places[j] # places[i]
                       /\ \A j \in 1..(own - 1) : Gave(j) > Gave(i)

(* However short the list is cut, nobody who is left out has given more    *)
(* than anybody who is shown, a limit below 1 shows one donor, and who has *)
(* opted out is in no list.                                                *)
TopFits(limit) ==
    \A since \in Cutoffs :
        LET top == ToSet(Ranking(since, limit))
        IN  /\ top = {} <=> Donors(since) = {}
            /\ \A u \in top : included[u]
            /\ \A u \in top, v \in Donors(since) \ top :
                   CountOf(u, since) >= CountOf(v, since)

TopIsTop == \A limit \in 0..2 : TopFits(limit)

(* The list, every cut of it and the own rank agree, ties and all.         *)
RankingsAgree == OwnRankFitsList /\ TopIsTop

(* What u has given, shown or not. *)
Given(u, since) == {e \in Completed(since) : exchanges[e].donor = u}

(* The own rank that is answered flatters by nothing but what is undone    *)
(* meanwhile: it is no better than the rank of one who has given what the  *)
(* caller has given in the same period when the second query runs, and in  *)
(* addition what was cancelled between the two queries, although exchanges *)
(* are completed and cancelled, donors come and go and the month turns.    *)
(* (It may be worse: what the caller has given in between is not counted.) *)
RankNeverFlatters ==
    [][\A w \in Web :
          LET h == handler[w]
              credit == Cardinality(Given(h.user, h.since) \cup h.undone)
          IN  h.pc = "rank.ahead" /\ handler'[w].pc = "rank.answer"
              => handler'[w].rank >= Cardinality(Ahead(h.user, credit, h.since)) + 1]_vars

(* Who has opted out is not shown in the spotlight.  Refuted: the opt-out  *)
(* is read when the entry is made (API_REFERENCE.md:1304-1305, "the opt-   *)
(* out covers public donor visibility generally"; README, "Divergences").  *)
OptedOutNotShown == \A n \in Shown : included[featured[n].user]
=============================================================================

---------------------- MODULE PartnerApplicationsProofs ----------------------
(***************************************************************************)
(* Proofs about PartnerApplications, for any number of accounts, addresses *)
(* and processes, whatever overlaps and dies.                              *)
(*                                                                         *)
(* TypeOK needs HandlerHolds: what a handler in the middle of its writes   *)
(* knows of its user and its application.  The properties of what is       *)
(* settled are then generalised to what is under way: OverlapSeen says     *)
(* that an undisturbed application has one handler at work on it, and      *)
(* Verification, Decision and RecordsOwed what is written by then.  For    *)
(* links, LinkOwed names the handler that still owes somebody a link, and  *)
(* StaleMeansReplaced says whose invitation is made from an old password.  *)
(***************************************************************************)
EXTENDS PartnerApplications, FiniteSetTheorems, TLAPS

TellPCs == {"submit.tell", "verify.tell"}
MarkPCs == {"submit.mark", "verify.mark"}
GrantedPCs == {"approve.place", "approve.save", "approve.audit", "approve.tell"}

(* What a handler in the middle of its writes knows. *)
Knows(h) ==
    /\ h.pc \in VerifyPCs \cup DecidePCs => h.app \in Rows
    /\ h.pc \in LinkPCs => h.user \in Known
    /\ h.pc = "submit.lookup" => h.user \in Known \cup {None}
    /\ h.pc \in {"submit.lookup", "submit.user", "submit.insert"} => h.email \in Emails
    /\ h.pc \in TellPCs \cup MarkPCs \cup {"approve.grant"} \cup GrantedPCs => apps[h.app].verified
    /\ h.pc \in GrantedPCs => h.app \in granted
    /\ h.pc = "approve.place" \/ (h.pc = "approve.grant" /\ h.place) => apps[h.app].place

HandlerHolds ==
    /\ \A w \in Web : Knows(handler[w])
    /\ \A u \in Users : link[u] # "none" => u \in Known

(* Nothing is known yet of an application that is not there. *)
Unborn ==
    /\ \A a \in AppIds \ Rows : ready[a] = 0 /\ places[a] = 0 /\ ReportedOf(a) = {}
    /\ \A a \in Rows : apps[a].status = "approved" => a \in granted

(* Two handlers at work on one thing have been noted. *)
OverlapSeen ==
    \A w, v \in Web, kind \in {"verify", "decide"}, a \in AppIds :
        /\ w # v
        /\ <<kind, a>> \in Subjects(handler[w])
        /\ <<kind, a>> \in Subjects(handler[v])
        => <<"overlap", <<kind, a>>>> \in spoiled

Clean(x) == <<"overlap", x>> \notin spoiled /\ <<"death", x>> \notin spoiled

(* How far the reviewers' notice has come: nothing, verified, or told. *)
Fresh(a) == ~apps[a].verified /\ ~apps[a].marked /\ ready[a] = 0
Proven(a) == apps[a].verified /\ ~apps[a].marked /\ ready[a] = 0
Told(a) == apps[a].verified /\ ~apps[a].marked /\ ready[a] = 1
Marked(a) == apps[a].verified /\ apps[a].marked /\ ready[a] = 1

Verification(a) ==
    Clean(<<"verify", a>>) =>
        /\ Settled(<<"verify", a>>) => Fresh(a) \/ Marked(a)
        /\ \A w \in Web : handler[w].app = a =>
              /\ At(w, "verify.save") => Fresh(a)
              /\ handler[w].pc \in TellPCs => Proven(a)
              /\ handler[w].pc \in MarkPCs => Told(a)

(* A verified application of which nobody was told has somebody to tell. *)
NoticeOwed(a) ==
    <<"death", <<"verify", a>>>> \notin spoiled /\ apps[a].verified /\ ready[a] = 0 =>
        \E w \in Web : handler[w].pc \in TellPCs /\ handler[w].app = a

(* How far a decision has come. *)
Audit(a, status) == <<"audit", a, status>>
Notice(a, status) == <<"notice", a, status>>
Untouched(a) == a \notin granted /\ places[a] = 0
Served(a) == a \in granted /\ places[a] < 2 /\ (places[a] > 0 => apps[a].place)
Outcome(a) == IF apps[a].status = "approved" THEN Served(a) ELSE Untouched(a)

Done(a) ==
    /\ Outcome(a)
    /\ ReportedOf(a) = IF apps[a].status = "pending" THEN {}
                       ELSE {Audit(a, apps[a].status), Notice(a, apps[a].status)}

(* What a handler that is alone with a has written when it is at pc. *)
Stage(pc, a) ==
    /\ pc \in {"approve.grant", "reject.save"} =>
          apps[a].status = "pending" /\ Untouched(a) /\ ReportedOf(a) = {}
    /\ pc = "approve.place" =>
          apps[a].status = "pending" /\ a \in granted /\ places[a] = 0 /\ ReportedOf(a) = {}
    /\ pc = "approve.save" => apps[a].status = "pending" /\ Served(a) /\ ReportedOf(a) = {}
    /\ pc = "approve.audit" => apps[a].status = "approved" /\ Served(a) /\ ReportedOf(a) = {}
    /\ pc = "approve.tell" =>
          apps[a].status = "approved" /\ Served(a) /\ ReportedOf(a) = {Audit(a, "approved")}
    /\ pc = "reject.audit" => apps[a].status = "rejected" /\ Untouched(a) /\ ReportedOf(a) = {}
    /\ pc = "reject.tell" =>
          apps[a].status = "rejected" /\ Untouched(a) /\ ReportedOf(a) = {Audit(a, "rejected")}

Decision(a) ==
    Clean(<<"decide", a>>) =>
        /\ Settled(<<"decide", a>>) => Done(a)
        /\ \A w \in Web : handler[w].app = a => Stage(handler[w].pc, a)

(* A status without its audit row or its notice has a handler that owes it. *)
AuditPC(status) == IF status = "approved" THEN "approve.audit" ELSE "reject.audit"
TellPC(status) == IF status = "approved" THEN "approve.tell" ELSE "reject.tell"

RecordsOwed(a) ==
    <<"death", <<"decide", a>>>> \notin spoiled /\ apps[a].status # "pending" =>
        /\ Audit(a, apps[a].status) \in reported
              \/ \E w \in Web : handler[w].app = a /\ At(w, AuditPC(apps[a].status))
        /\ Notice(a, apps[a].status) \in reported
              \/ \E w \in Web : /\ handler[w].app = a
                                /\ handler[w].pc \in {AuditPC(apps[a].status), TellPC(apps[a].status)}

(* one_pending_application_per_email, and who owes a link to a user with   *)
(* one address whose application waits for verification.                   *)
OnePerSpelling == \A a, b \in Pending : apps[a].email = apps[b].email => a = b

LinkOwed(a) ==
    LET u == apps[a].user IN
    /\ apps[a].status = "pending" /\ ~apps[a].verified
    /\ <<"death", <<"link", u>>>> \notin spoiled
    /\ \A b \in Rows : apps[b].user = u => apps[b].email = apps[a].email
    => \/ link[u] # "none"
       \/ \E w \in Web : /\ handler[w].user = u
                         /\ \/ handler[w].pc \in {"submit.invite", "verify.find"}
                            \/ At(w, "verify.save") /\ handler[w].app = a

(* Who is invited with a password that is no longer his has set another,   *)
(* and is verified.                                                        *)
Replaced(u) == accounts[u].verified /\ accounts[u].password > 0

Snapshot(h) ==
    /\ h.pc = "submit.invite" => ~h.verified
    /\ h.pc \in {"submit.insert", "submit.invite"} /\ ~h.verified =>
          h.password = accounts[h.user].password \/ Replaced(h.user)

StaleMeansReplaced ==
    /\ \A w \in Web : Snapshot(handler[w])
    /\ \A u \in Users : link[u] = "stale" => Replaced(u)

IInv ==
    /\ TypeOK
    /\ HandlerHolds
    /\ Unborn
    /\ GrantsAreVerified
    /\ OverlapSeen
    /\ OnePerSpelling
    /\ StaleMeansReplaced
    /\ \A a \in Rows : Verification(a) /\ NoticeOwed(a) /\ Decision(a) /\ RecordsOwed(a) /\ LinkOwed(a)
-----------------------------------------------------------------------------
(* What TypeOK says of everything but the history. *)
Tables ==
    /\ accounts \in [Users -> Account \cup {None}]
    /\ link \in [Users -> Link]
    /\ Rows = 1..Cardinality(Rows) /\ Rows \subseteq AppIds
    /\ apps \in [Rows -> AppRow]
    /\ granted \subseteq Rows
    /\ places \in [AppIds -> 0..2] /\ ready \in [AppIds -> 0..2]
    /\ reported \subseteq {"audit", "notice"} \X AppIds \X Status
    /\ handler \in [Web -> Handler]
    /\ \A a \in Rows : apps[a].user \in Known

(* No step removes an account or a row, changes whose it is or what it     *)
(* asks for, or takes a verification or a grant back.                      *)
Grows ==
    /\ Known \subseteq Known'
    /\ Rows \subseteq Rows'
    /\ \A a \in Rows : /\ apps[a].verified => apps'[a].verified
                       /\ apps'[a].user = apps[a].user
                       /\ apps'[a].email = apps[a].email
                       /\ apps'[a].place = apps[a].place
    /\ granted \subseteq granted'

(* What process w does leaves the others where they are. *)
OthersStay(w) == \A v \in Web \ {w} : handler'[v] = handler[v]

Fine(w) == Tables' /\ Grows /\ OthersStay(w) /\ Knows(handler[w])'

(* Nothing has happened in the initial state. *)
LEMMA InitIInv == Init => IInv
<1> SUFFICES ASSUME Init PROVE IInv
  OBVIOUS
<1>1. Rows = {} /\ Cardinality(Rows) = 0 /\ Rows = 1..Cardinality(Rows)
  <2>1. Rows = {}
    BY DEF Init, Rows
  <2> QED BY <2>1, FS_EmptySet
<1>2. TypeOK
  <2>1. accounts \in [Users -> Account \cup {None}]
    BY DEF Init, Account
  <2>2. handler \in [Web -> Handler]
    BY NoneAssumption DEF Init, Handler, Idle, PCs
  <2> QED BY <1>1, <2>1, <2>2 DEF Init, TypeOK, Link
<1>3. \A w \in Web : handler[w] = Idle
  BY DEF Init
<1>4. HandlerHolds /\ OverlapSeen
  BY <1>3 DEF Init, HandlerHolds, Knows, OverlapSeen, Idle, Subjects, VerifyPCs, DecidePCs, LinkPCs,
     TellPCs, MarkPCs, GrantedPCs
<1>5. Unborn /\ GrantsAreVerified /\ OnePerSpelling
  BY <1>1 DEF Init, Unborn, GrantsAreVerified, OnePerSpelling, Pending, ReportedOf
<1>6. \A a \in Rows : FALSE
  BY <1>1
<1>7. StaleMeansReplaced
  BY <1>3 DEF Init, StaleMeansReplaced, Snapshot, Idle
<1> QED BY <1>2, <1>4, <1>5, <1>6, <1>7 DEF IInv

(* A locals record of the right type moves one process. *)
LEMMA Moves ==
    ASSUME TypeOK, NEW w \in Web, NEW h \in Handler, Become(w, h)
    PROVE  handler' \in [Web -> Handler] /\ handler'[w] = h /\ OthersStay(w)
  BY DEF Become, TypeOK, OthersStay

(* A process at rest knows nothing. *)
LEMMA IdleFine == Idle \in Handler /\ Knows(Idle) /\ Knows(Idle)'
  BY NoneAssumption DEF Idle, Handler, PCs, Knows, VerifyPCs, DecidePCs, LinkPCs, TellPCs, MarkPCs, GrantedPCs

LEMMA GotoTyped == ASSUME NEW h \in Handler, NEW pc \in PCs PROVE [h EXCEPT !.pc = pc] \in Handler
  BY DEF Handler

(* Where the tables stay, a handler has only to know what its new place asks. *)
LEMMA TablesStay ==
    ASSUME TypeOK, NEW w \in Web, NEW h \in Handler, Become(w, h), Knows(h)',
           UNCHANGED <<people, apps, outcome>>
    PROVE  Fine(w)
<1>1. handler' \in [Web -> Handler] /\ handler'[w] = h /\ OthersStay(w)
  BY Moves
<1>2. Tables'
  BY <1>1 DEF Tables, TypeOK, people, outcome, Rows, Known
<1>3. Grows
  BY DEF Grows, people, outcome, Known, Rows
<1>4. Knows(handler[w])'
  BY <1>1 DEF Knows
<1> QED BY <1>1, <1>2, <1>3, <1>4 DEF Fine

(* One lemma per group of actions: the tables and the acting handler's     *)
(* knowledge.                                                              *)
LEMMA FineArrive == ASSUME TypeOK, HandlerHolds, NEW w \in Web, Arrive(w) PROVE Fine(w)
<1> USE DEF Knows, VerifyPCs, DecidePCs, LinkPCs, TellPCs, MarkPCs, GrantedPCs
<1>1. ASSUME NEW e \in Emails, NEW user \in Users \cup {None}, NEW place \in BOOLEAN,
             SubmitBegin(w, e, user, place)
      PROVE  Fine(w)
  <2> PICK h : h = [Idle EXCEPT !.pc = "submit.lookup", !.user = user, !.email = e, !.place = place]
    OBVIOUS
  <2>1. h \in Handler
    BY IdleFine DEF Handler, PCs
  <2>2. user \in Known' \cup {None}
    BY <1>1 DEF SubmitBegin, Known, people
  <2>3. Become(w, h) /\ Knows(h)'
    BY <1>1, <2>2 DEF SubmitBegin, Idle
  <2> QED BY <1>1, <2>1, <2>3, TablesStay DEF SubmitBegin
<1>2. ASSUME NEW u \in Users, SetPasswordBegin(w, u) PROVE Fine(w)
  <2> PICK h : h = [Idle EXCEPT !.pc = "password.save", !.user = u]
    OBVIOUS
  <2>1. h \in Handler
    BY IdleFine DEF Handler, PCs
  <2>2. u \in Known'
    BY <1>2 DEF SetPasswordBegin, HandlerHolds, Known, people
  <2>3. Become(w, h) /\ Knows(h)'
    BY <1>2, <2>2 DEF SetPasswordBegin, Idle
  <2> QED BY <1>2, <2>1, <2>3, TablesStay DEF SetPasswordBegin
<1>3. ASSUME NEW a \in Rows, RejectBegin(w, a) PROVE Fine(w)
  <2> PICK h : h = [Idle EXCEPT !.pc = "reject.save", !.app = a, !.user = apps[a].user]
    OBVIOUS
  <2>1. h \in Handler
    BY IdleFine DEF Handler, PCs, TypeOK, AppRow, Known
  <2>2. Become(w, h) /\ Knows(h)'
    BY <1>3 DEF RejectBegin, Idle, Rows
  <2> QED BY <1>3, <2>1, <2>2, TablesStay DEF RejectBegin
<1>4. ASSUME NEW a \in Rows, NEW place \in BOOLEAN, ApproveBegin(w, a, place) PROVE Fine(w)
  <2> PICK h : h = [Idle EXCEPT !.pc = "approve.grant", !.app = a, !.user = apps[a].user,
                                !.place = apps[a].place /\ place]
    OBVIOUS
  <2>1. h \in Handler
    BY IdleFine DEF Handler, PCs, TypeOK, AppRow, Known
  <2>2. Become(w, h) /\ Knows(h)'
    BY <1>4 DEF ApproveBegin, Idle, Rows
  <2> QED BY <1>4, <2>1, <2>2, TablesStay DEF ApproveBegin
<1> QED BY <1>1, <1>2, <1>3, <1>4 DEF Arrive

(* The next key is one after the last. *)
LEMMA NextKey ==
    ASSUME TypeOK, NEW new, new = Cardinality(Rows) + 1, new \in AppIds, Rows' = Rows \cup {new}
    PROVE  new \notin Rows /\ Rows' = 1..Cardinality(Rows') /\ Rows' \subseteq AppIds
<1> DEFINE n == Cardinality(Rows)
<1>1. IsFiniteSet(Rows) /\ n \in Nat
  <2>1. IsFiniteSet(AppIds)
    BY FS_Interval, BoundAssumption DEF AppIds
  <2> QED BY <2>1, FS_Subset, FS_CardinalityType DEF TypeOK
<1>2. Rows = 1..n
  BY DEF TypeOK
<1>3. new \notin Rows
  BY <1>1, <1>2
<1>4. Cardinality(Rows \cup {new}) = n + 1
  BY <1>1, <1>3, FS_AddElement
<1>5. Rows \cup {new} = 1..(n + 1)
  BY <1>1, <1>2
<1>6. Cardinality(Rows') = n + 1
  BY <1>4
<1> QED BY <1>1, <1>3, <1>5, <1>6 DEF TypeOK

LEMMA FineSubmit ==
    ASSUME TypeOK, HandlerHolds, NEW w \in Web,
           SubmitLookup(w) \/ SubmitUser(w) \/ SubmitInsert(w) \/ SubmitInvite(w)
    PROVE  Fine(w)
<1> USE DEF VerifyPCs, DecidePCs, LinkPCs, TellPCs, MarkPCs, GrantedPCs
<1>0. Knows(handler[w]) /\ handler[w] \in Handler
  BY DEF HandlerHolds, TypeOK
<1>1. CASE SubmitLookup(w)
  <2>1. ASSUME handler[w].user # None,
               Become(w, [handler[w] EXCEPT !.pc = "submit.insert", !.verified = TRUE,
                                            !.email = accounts[handler[w].user].email])
        PROVE  Fine(w)
    <3> PICK h : h = [handler[w] EXCEPT !.pc = "submit.insert", !.verified = TRUE,
                                        !.email = accounts[handler[w].user].email]
      OBVIOUS
    <3>1. handler[w].user \in Known /\ accounts[handler[w].user].email \in Emails
      BY <1>0, <1>1, <2>1 DEF SubmitLookup, At, Knows, TypeOK, Account, Known
    <3>2. h \in Handler
      BY <1>0, <3>1 DEF Handler, PCs
    <3>3. h.user \in Known'
      BY <1>0, <1>1, <3>1 DEF SubmitLookup, Known, people, Handler
    <3>4. Become(w, h) /\ Knows(h)'
      BY <1>0, <2>1, <3>1, <3>3 DEF Knows, Handler
    <3> QED BY <1>1, <3>2, <3>4, TablesStay DEF SubmitLookup
  <2>2. ASSUME NEW u \in Known,
               Become(w, [handler[w] EXCEPT !.pc = "submit.insert", !.user = u,
                                            !.verified = accounts[u].verified,
                                            !.password = accounts[u].password])
        PROVE  Fine(w)
    <3> PICK h : h = [handler[w] EXCEPT !.pc = "submit.insert", !.user = u,
                                        !.verified = accounts[u].verified,
                                        !.password = accounts[u].password]
      OBVIOUS
    <3>1. u \in Users /\ accounts[u].verified \in BOOLEAN /\ accounts[u].password \in Nat
      BY DEF TypeOK, Account, Known
    <3>2. h \in Handler
      BY <1>0, <3>1 DEF Handler, PCs
    <3>3. u \in Known' /\ h.email \in Emails
      BY <1>0, <1>1 DEF SubmitLookup, Known, people, Handler, Knows, At
    <3>4. Become(w, h) /\ Knows(h)'
      BY <1>0, <2>2, <3>3 DEF Knows, Handler
    <3> QED BY <1>1, <3>2, <3>4, TablesStay DEF SubmitLookup
  <2>3. CASE Goto(w, "submit.user")
    <3> PICK h : h = [handler[w] EXCEPT !.pc = "submit.user"]
      OBVIOUS
    <3>1. h \in Handler
      BY <1>0, GotoTyped DEF PCs
    <3>2. Become(w, h) /\ Knows(h)'
      BY <1>0, <1>1, <2>3 DEF Goto, Knows, Handler, SubmitLookup, At
    <3> QED BY <1>1, <3>1, <3>2, TablesStay DEF SubmitLookup
  <2> QED BY <1>1, <2>1, <2>2, <2>3 DEF SubmitLookup
<1>2. CASE SubmitUser(w)
  <2>1. ASSUME NEW u \in Users \ Known,
               accounts' = [accounts EXCEPT ![u] = [email |-> handler[w].email,
                                                    password |-> 0, verified |-> FALSE]],
               Become(w, [handler[w] EXCEPT !.pc = "submit.insert", !.user = u,
                                            !.password = 0])
        PROVE  Fine(w)
    <3> PICK h : h = [handler[w] EXCEPT !.pc = "submit.insert", !.user = u, !.password = 0]
      OBVIOUS
    <3>0. UNCHANGED <<link, apps, outcome>>
      BY <1>2 DEF SubmitUser
    <3>1. h \in Handler /\ Become(w, h)
      BY <1>0, <2>1 DEF Handler, PCs
    <3>2. handler' \in [Web -> Handler] /\ handler'[w] = h /\ OthersStay(w)
      BY <3>1, Moves
    <3>3. handler[w].email \in Emails
      BY <1>0, <1>2 DEF SubmitUser, At, Knows
    <3>4. accounts' \in [Users -> Account \cup {None}] /\ accounts'[u] # None
      <4>1. [email |-> handler[w].email, password |-> 0, verified |-> FALSE] \in Account
        BY <3>3 DEF Account
      <4>2. accounts' \in [Users -> Account \cup {None}]
        BY <2>1, <4>1 DEF TypeOK
      <4> QED BY <2>1, <4>1, <4>2, AccountAssumption DEF TypeOK
    <3>5. Known \subseteq Known' /\ u \in Known'
      BY <2>1, <3>4 DEF Known, TypeOK
    <3>6. Tables'
      BY <3>0, <3>2, <3>4, <3>5 DEF Tables, TypeOK, outcome, Rows
    <3>7. Grows
      BY <3>0, <3>5 DEF Grows, outcome, Rows
    <3>8. Knows(handler[w])'
      BY <1>0, <3>2, <3>3, <3>5 DEF Knows, Handler
    <3> QED BY <3>2, <3>6, <3>7, <3>8 DEF Fine
  <2>2. CASE Finish(w) /\ UNCHANGED accounts
    BY <1>2, <2>2, IdleFine, TablesStay DEF SubmitUser, Finish, people
  <2> QED BY <1>2, <2>1, <2>2 DEF SubmitUser
<1>3. CASE SubmitInsert(w)
  <2>1. CASE Finish(w) /\ UNCHANGED apps
    BY <1>3, <2>1, IdleFine, TablesStay DEF SubmitInsert, Finish, people
  <2>2. CASE ~(Finish(w) /\ UNCHANGED apps)
    <3> PICK new : new = Cardinality(Rows) + 1
      OBVIOUS
    <3> PICK row : row = [email |-> handler[w].email, user |-> handler[w].user,
                          place |-> handler[w].place, verified |-> handler[w].verified,
                          marked |-> FALSE, status |-> "pending"]
      OBVIOUS
    <3> PICK h : h = [handler[w] EXCEPT
                        !.pc = IF handler[w].verified THEN "submit.tell" ELSE "submit.invite",
                        !.app = new]
      OBVIOUS
    <3>1. /\ new \in AppIds
          /\ apps' = [a \in Rows \cup {new} |-> IF a = new THEN row ELSE apps[a]]
          /\ Become(w, h)
          /\ UNCHANGED <<people, outcome>>
          /\ At(w, "submit.insert")
      BY <1>3, <2>2 DEF SubmitInsert
    <3>2. Rows' = Rows \cup {new}
      BY <3>1 DEF Rows
    <3>3. new \notin Rows /\ Rows' = 1..Cardinality(Rows') /\ Rows' \subseteq AppIds
      BY <3>1, <3>2, NextKey
    <3>4. row \in AppRow /\ row.user \in Known
      BY <1>0, <3>1 DEF AppRow, Handler, Knows, At, Known, Status
    <3>5. h \in Handler
      BY <1>0, <3>1 DEF Handler, PCs
    <3>6. handler' \in [Web -> Handler] /\ handler'[w] = h /\ OthersStay(w)
      BY <3>1, <3>5, Moves
    <3>7. apps' \in [Rows' -> AppRow] /\ \A a \in Rows : apps'[a] = apps[a]
      BY <3>1, <3>2, <3>3, <3>4 DEF TypeOK
    <3>8. apps'[new] = row
      BY <3>1
    <3>9. UNCHANGED Known
      BY <3>1 DEF people, Known
    <3>10. Tables'
      <4>1. \A a \in Rows' : apps'[a].user \in Known'
        BY <3>2, <3>4, <3>7, <3>8, <3>9 DEF TypeOK
      <4> QED BY <3>1, <3>2, <3>3, <3>6, <3>7, <4>1 DEF Tables, TypeOK, people, outcome
    <3>11. Grows
      BY <3>1, <3>2, <3>7, <3>9 DEF Grows, outcome
    <3>12. Knows(handler[w])'
      <4>1. h.app \in Rows' /\ h.user \in Known'
        BY <1>0, <3>1, <3>2, <3>9 DEF Handler, Knows, At
      <4>2. h.pc = "submit.tell" => apps'[h.app].verified
        BY <1>0, <3>8 DEF Handler
      <4>3. h.pc \in {"submit.tell", "submit.invite"}
        BY <1>0 DEF Handler
      <4> QED BY <3>6, <4>1, <4>2, <4>3 DEF Knows
    <3> QED BY <3>6, <3>10, <3>11, <3>12 DEF Fine
  <2> QED BY <2>1, <2>2
<1>4. CASE SubmitInvite(w)
  <2>1. handler' \in [Web -> Handler] /\ handler'[w] = Idle /\ OthersStay(w)
    BY <1>4, IdleFine, Moves DEF SubmitInvite, Finish
  <2>2. link' \in [Users -> Link]
    BY <1>4 DEF SubmitInvite, TypeOK, Link
  <2>3. Tables'
    BY <1>4, <2>1, <2>2 DEF SubmitInvite, Tables, TypeOK, outcome, Rows, Known
  <2>4. Grows
    BY <1>4 DEF SubmitInvite, Grows, outcome, Rows, Known
  <2>5. Knows(handler[w])'
    BY <2>1, IdleFine DEF Knows
  <2> QED BY <2>1, <2>3, <2>4, <2>5 DEF Fine
<1> QED BY <1>1, <1>2, <1>3, <1>4

LEMMA FineVerify ==
    ASSUME TypeOK, HandlerHolds, NEW w \in Web,
           SetPasswordSave(w) \/ VerifyFind(w) \/ VerifySave(w) \/ TellReviewers(w) \/ MarkNotified(w)
    PROVE  Fine(w)
<1> USE DEF VerifyPCs, DecidePCs, LinkPCs, TellPCs, MarkPCs, GrantedPCs
<1>0. Knows(handler[w]) /\ handler[w] \in Handler
  BY DEF HandlerHolds, TypeOK
<1>1. CASE SetPasswordSave(w)
  <2> PICK u : u = handler[w].user
    OBVIOUS
  <2> PICK h : h = [handler[w] EXCEPT !.pc = "verify.find"]
    OBVIOUS
  <2>1. u \in Known /\ u \in Users /\ accounts[u] \in Account
    BY <1>0, <1>1 DEF SetPasswordSave, At, Knows, Known, TypeOK
  <2>2. h \in Handler /\ Become(w, h)
    BY <1>0, <1>1, GotoTyped DEF SetPasswordSave, Goto, PCs
  <2>3. handler' \in [Web -> Handler] /\ handler'[w] = h /\ OthersStay(w)
    BY <2>2, Moves
  <2>4. accounts' \in [Users -> Account \cup {None}] /\ accounts'[u] \in Account
        /\ \A v \in Users \ {u} : accounts'[v] = accounts[v]
    BY <1>1, <2>1 DEF SetPasswordSave, TypeOK, Account
  <2>5. Known \subseteq Known'
    BY <2>1, <2>4, AccountAssumption DEF Known
  <2>6. Tables'
    BY <1>1, <2>3, <2>4, <2>5 DEF SetPasswordSave, Tables, TypeOK, outcome, Rows, Link
  <2>7. Grows
    BY <1>1, <2>5 DEF SetPasswordSave, Grows, outcome, Rows
  <2>8. Knows(handler[w])'
    BY <1>0, <2>1, <2>3, <2>5 DEF Knows, Handler
  <2> QED BY <2>3, <2>6, <2>7, <2>8 DEF Fine
<1>2. CASE VerifyFind(w)
  <2>1. CASE Finish(w)
    BY <1>2, <2>1, IdleFine, TablesStay DEF VerifyFind, Finish
  <2>2. ASSUME NEW a \in Unverified(handler[w].user),
               Become(w, [handler[w] EXCEPT !.pc = "verify.save", !.app = a])
        PROVE  Fine(w)
    <3> PICK h : h = [handler[w] EXCEPT !.pc = "verify.save", !.app = a]
      OBVIOUS
    <3>1. a \in Rows /\ a \in AppIds
      BY DEF Unverified, Pending, TypeOK
    <3>2. h \in Handler /\ Become(w, h)
      BY <1>0, <2>2, <3>1 DEF Handler, PCs
    <3>3. h.user \in Known' /\ h.app \in Rows'
      BY <1>0, <1>2, <3>1 DEF VerifyFind, At, Knows, Known, Handler, people, Rows
    <3>4. Knows(h)'
      BY <1>0, <3>3 DEF Knows, Handler
    <3> QED BY <1>2, <3>2, <3>4, TablesStay DEF VerifyFind
  <2> QED BY <1>2, <2>1, <2>2 DEF VerifyFind
<1>3. CASE VerifySave(w)
  <2> PICK h : h = [handler[w] EXCEPT !.pc = "verify.tell"]
    OBVIOUS
  <2> PICK b : b = handler[w].app
    OBVIOUS
  <2>1. b \in Rows
    BY <1>0, <1>3 DEF VerifySave, At, Knows
  <2>2. handler' \in [Web -> Handler] /\ handler'[w] = h /\ OthersStay(w)
    BY <1>0, <1>3, GotoTyped, Moves DEF VerifySave, Goto, PCs
  <2>3. Rows' = Rows /\ apps' \in [Rows -> AppRow]
        /\ \A a \in Rows : apps'[a] = IF a = b THEN [apps[a] EXCEPT !.verified = TRUE] ELSE apps[a]
    BY <1>3, <2>1 DEF VerifySave, Rows, TypeOK, AppRow
  <2>4. Known' = Known
    BY <1>3 DEF VerifySave, Known, people
  <2>5. \A a \in Rows : apps'[a].user = apps[a].user /\ apps'[a].email = apps[a].email
                       /\ apps'[a].place = apps[a].place
                       /\ (apps[a].verified \/ a = b => apps'[a].verified)
    BY <2>3 DEF TypeOK, AppRow
  <2>6. Tables'
    BY <1>3, <2>2, <2>3, <2>4, <2>5 DEF VerifySave, Tables, TypeOK, people, outcome
  <2>7. Grows
    BY <1>3, <2>3, <2>4, <2>5 DEF VerifySave, Grows, outcome
  <2>8. Knows(handler[w])'
    BY <1>0, <2>1, <2>2, <2>3, <2>5 DEF Knows, Handler
  <2> QED BY <2>2, <2>6, <2>7, <2>8 DEF Fine
<1>4. CASE TellReviewers(w)
  <2> PICK b : b = handler[w].app
    OBVIOUS
  <2>1. b \in Rows /\ b \in AppIds
    BY <1>0, <1>4 DEF TellReviewers, At, Knows, TypeOK
  <2>2. PICK pc \in MarkPCs : Become(w, [handler[w] EXCEPT !.pc = pc])
    BY <1>4 DEF TellReviewers, Goto
  <2> PICK h : h = [handler[w] EXCEPT !.pc = pc]
    OBVIOUS
  <2>3. h \in Handler
    BY <1>0, GotoTyped DEF PCs
  <2>4. handler' \in [Web -> Handler] /\ handler'[w] = h /\ OthersStay(w)
    BY <2>2, <2>3, Moves
  <2>5. ready' \in [AppIds -> 0..2]
    <3> PICK n : n = IF ready[b] < 2 THEN ready[b] + 1 ELSE ready[b]
      OBVIOUS
    <3>1. n \in 0..2
      BY <2>1 DEF TypeOK
    <3>2. ready' = [ready EXCEPT ![b] = n]
      BY <1>4 DEF TellReviewers
    <3> QED BY <3>1, <3>2 DEF TypeOK
  <2>6. Tables'
    BY <1>4, <2>4, <2>5 DEF TellReviewers, Tables, TypeOK, people, Rows, Known
  <2>7. Grows
    BY <1>4 DEF TellReviewers, Grows, people, Rows, Known
  <2>8. Knows(handler[w])'
    BY <1>0, <1>4, <2>1, <2>4 DEF TellReviewers, Knows, At, Handler, Rows
  <2> QED BY <2>4, <2>6, <2>7, <2>8 DEF Fine
<1>5. CASE MarkNotified(w)
  <2> PICK b : b = handler[w].app
    OBVIOUS
  <2>1. b \in Rows
    BY <1>0, <1>5 DEF MarkNotified, At, Knows
  <2>2. handler' \in [Web -> Handler] /\ handler'[w] = Idle /\ OthersStay(w)
    BY <1>5, IdleFine, Moves DEF MarkNotified, Finish
  <2>3. Rows' = Rows /\ apps' \in [Rows -> AppRow]
        /\ \A a \in Rows : apps'[a] = IF a = b THEN [apps[a] EXCEPT !.marked = TRUE] ELSE apps[a]
    BY <1>5, <2>1 DEF MarkNotified, Rows, TypeOK, AppRow
  <2>4. Known' = Known
    BY <1>5 DEF MarkNotified, Known, people
  <2>5. \A a \in Rows : apps'[a].user = apps[a].user /\ apps'[a].email = apps[a].email
                       /\ apps'[a].place = apps[a].place
                       /\ apps'[a].verified = apps[a].verified
    BY <2>3 DEF TypeOK, AppRow
  <2>6. Tables'
    BY <1>5, <2>2, <2>3, <2>4, <2>5 DEF MarkNotified, Tables, TypeOK, people, outcome
  <2>7. Grows
    BY <1>5, <2>3, <2>4, <2>5 DEF MarkNotified, Grows, outcome
  <2>8. Knows(handler[w])'
    BY <2>2, IdleFine DEF Knows
  <2> QED BY <2>2, <2>6, <2>7, <2>8 DEF Fine
<1> QED BY <1>1, <1>2, <1>3, <1>4, <1>5

LEMMA FineDecide ==
    ASSUME TypeOK, HandlerHolds, NEW w \in Web,
           ApproveGrant(w) \/ ApprovePlace(w) \/ DecisionSave(w) \/ DecisionAudit(w) \/ DecisionTell(w)
    PROVE  Fine(w)
<1> USE DEF VerifyPCs, DecidePCs, LinkPCs, TellPCs, MarkPCs, GrantedPCs
<1> PICK b : b = handler[w].app
  OBVIOUS
<1>0. /\ Knows(handler[w]) /\ handler[w] \in Handler
      /\ handler[w].pc \in DecidePCs /\ b \in Rows /\ b \in AppIds
      /\ handler[w].pc \in GrantedPCs \cup {"approve.grant"} => apps[b].verified
      /\ handler[w].pc \in GrantedPCs => b \in granted
  BY DEF HandlerHolds, TypeOK, Knows, At, ApproveGrant, ApprovePlace, DecisionSave, DecisionAudit,
         DecisionTell
<1>1. CASE ApproveGrant(w)
  <2>1. CASE UNCHANGED granted /\ Finish(w)
    BY <1>1, <2>1, IdleFine, TablesStay DEF ApproveGrant, Finish, outcome
  <2>2. CASE granted' = granted \cup {b}
             /\ Goto(w, IF handler[w].place THEN "approve.place" ELSE "approve.save")
    <3> PICK h : h = [handler[w] EXCEPT !.pc = IF handler[w].place THEN "approve.place"
                                               ELSE "approve.save"]
      OBVIOUS
    <3>1. h \in Handler
      BY <1>0, GotoTyped DEF PCs
    <3>2. handler' \in [Web -> Handler] /\ handler'[w] = h /\ OthersStay(w)
      BY <2>2, <3>1, Moves DEF Goto
    <3>3. Tables'
      BY <1>0, <1>1, <2>2, <3>2 DEF ApproveGrant, Tables, TypeOK, people, Rows, Known
    <3>4. Grows
      BY <1>1, <2>2 DEF ApproveGrant, Grows, people, Rows, Known
    <3>5. Knows(handler[w])'
      <4>1. h.app = b /\ apps' = apps /\ b \in granted'
        BY <1>0, <1>1, <2>2 DEF ApproveGrant, Handler
      <4>2. h.pc = "approve.place" => apps[b].place
        BY <1>0, <1>1 DEF ApproveGrant, At, Knows, Handler
      <4>3. h.pc \in {"approve.place", "approve.save"} /\ apps[b].verified
        BY <1>0, <1>1 DEF ApproveGrant, At, Handler
      <4> QED BY <1>0, <3>2, <4>1, <4>2, <4>3 DEF Knows, Rows
    <3> QED BY <3>2, <3>3, <3>4, <3>5 DEF Fine
  <2> QED BY <1>1, <2>1, <2>2 DEF ApproveGrant
<1>2. CASE ApprovePlace(w)
  <2> PICK h : h = [handler[w] EXCEPT !.pc = "approve.save"]
    OBVIOUS
  <2>1. h \in Handler
    BY <1>0, GotoTyped DEF PCs
  <2>2. handler' \in [Web -> Handler] /\ handler'[w] = h /\ OthersStay(w)
    BY <1>2, <2>1, Moves DEF ApprovePlace, Goto
  <2>3. places' \in [AppIds -> 0..2]
    <3> PICK n : n = IF places[b] < 2 THEN places[b] + 1 ELSE places[b]
      OBVIOUS
    <3>1. n \in 0..2
      BY <1>0 DEF TypeOK
    <3>2. places' = [places EXCEPT ![b] = n]
      BY <1>2 DEF ApprovePlace
    <3> QED BY <3>1, <3>2 DEF TypeOK
  <2>4. Tables'
    BY <1>2, <2>2, <2>3 DEF ApprovePlace, Tables, TypeOK, people, Rows, Known
  <2>5. Grows
    BY <1>2 DEF ApprovePlace, Grows, people, Rows, Known
  <2>6. Knows(handler[w])'
    BY <1>0, <1>2, <2>2 DEF ApprovePlace, Knows, Handler, Rows, At
  <2> QED BY <2>2, <2>4, <2>5, <2>6 DEF Fine
<1>3. CASE DecisionSave(w)
  <2>1. PICK status \in Status, pc \in {"approve.audit", "reject.audit"} :
           /\ apps' = [apps EXCEPT ![b].status = status]
           /\ Become(w, [handler[w] EXCEPT !.pc = pc])
           /\ pc = "approve.audit" => At(w, "approve.save")
    BY <1>3 DEF DecisionSave, Goto, Status
  <2> PICK h : h = [handler[w] EXCEPT !.pc = pc]
    OBVIOUS
  <2>2. h \in Handler
    BY <1>0, GotoTyped DEF PCs
  <2>3. handler' \in [Web -> Handler] /\ handler'[w] = h /\ OthersStay(w)
    BY <2>1, <2>2, Moves
  <2>4. Rows' = Rows /\ apps' \in [Rows -> AppRow]
        /\ \A a \in Rows : apps'[a] = IF a = b THEN [apps[a] EXCEPT !.status = status] ELSE apps[a]
    BY <1>0, <2>1 DEF Rows, TypeOK, AppRow
  <2>5. \A a \in Rows : apps'[a].user = apps[a].user /\ apps'[a].email = apps[a].email
                       /\ apps'[a].place = apps[a].place
                       /\ apps'[a].verified = apps[a].verified
    BY <2>4 DEF TypeOK, AppRow
  <2>6. Tables'
    BY <1>3, <2>3, <2>4, <2>5 DEF DecisionSave, Tables, TypeOK, people, outcome, Known
  <2>7. Grows
    BY <1>3, <2>4, <2>5 DEF DecisionSave, Grows, people, outcome, Known
  <2>8. Knows(handler[w])'
    BY <1>0, <1>3, <2>1, <2>3, <2>4, <2>5 DEF DecisionSave, Knows, Handler, At, outcome
  <2> QED BY <2>3, <2>6, <2>7, <2>8 DEF Fine
<1>4. CASE DecisionAudit(w)
  <2>1. PICK status \in Status, pc \in {"approve.tell", "reject.tell"} :
           /\ reported' = reported \cup {<<"audit", b, status>>}
           /\ Become(w, [handler[w] EXCEPT !.pc = pc])
           /\ pc = "approve.tell" => At(w, "approve.audit")
    BY <1>4 DEF DecisionAudit, Goto, Status, Report
  <2> PICK h : h = [handler[w] EXCEPT !.pc = pc]
    OBVIOUS
  <2>2. h \in Handler
    BY <1>0, GotoTyped DEF PCs
  <2>3. handler' \in [Web -> Handler] /\ handler'[w] = h /\ OthersStay(w)
    BY <2>1, <2>2, Moves
  <2>4. Tables'
    BY <1>0, <1>4, <2>1, <2>3 DEF DecisionAudit, Tables, TypeOK, people, Rows, Known
  <2>5. Grows
    BY <1>4 DEF DecisionAudit, Grows, people, Rows, Known
  <2>6. Knows(handler[w])'
    BY <1>0, <1>4, <2>1, <2>3 DEF DecisionAudit, Knows, Handler, Rows, At
  <2> QED BY <2>3, <2>4, <2>5, <2>6 DEF Fine
<1>5. CASE DecisionTell(w)
  <2>1. PICK status \in Status : reported' = reported \cup {<<"notice", b, status>>}
    BY <1>5 DEF DecisionTell, Status, Report
  <2>2. handler' \in [Web -> Handler] /\ handler'[w] = Idle /\ OthersStay(w)
    BY <1>5, IdleFine, Moves DEF DecisionTell, Finish
  <2>3. Tables'
    BY <1>0, <1>5, <2>1, <2>2 DEF DecisionTell, Tables, TypeOK, people, Rows, Known
  <2>4. Grows
    BY <1>5 DEF DecisionTell, Grows, people, Rows, Known
  <2>5. Knows(handler[w])'
    BY <2>2, IdleFine DEF Knows
  <2> QED BY <2>2, <2>3, <2>4, <2>5 DEF Fine
<1> QED BY <1>1, <1>2, <1>3, <1>4, <1>5

LEMMA FineAct ==
    ASSUME TypeOK, HandlerHolds, NEW w \in Web, Arrive(w) \/ Step(w) \/ Crash(w)
    PROVE  Fine(w)
<1>1. CASE Crash(w)
  BY <1>1, IdleFine, TablesStay DEF Crash, Finish
<1> QED BY <1>1, FineArrive, FineSubmit, FineVerify, FineDecide DEF Step

(* A link belongs to an account. *)
LEMMA LinksStep ==
    ASSUME TypeOK, HandlerHolds, NEW w \in Web, Arrive(w) \/ Step(w) \/ Crash(w), Fine(w)
    PROVE  (\A u \in Users : link[u] # "none" => u \in Known)'
<1>1. \A u \in Users : link'[u] # "none" => link[u] # "none" \/ u \in Known
  <2>1. CASE SubmitInvite(w)
    BY <2>1 DEF SubmitInvite, HandlerHolds, Knows, At, LinkPCs, TypeOK
  <2>2. CASE SetPasswordSave(w)
    BY <2>2 DEF SetPasswordSave, TypeOK
  <2>3. CASE ~SubmitInvite(w) /\ ~SetPasswordSave(w)
    BY <2>3 DEF Arrive, Step, Crash, SubmitBegin, SetPasswordBegin, RejectBegin, ApproveBegin,
       SubmitLookup, SubmitUser, SubmitInsert, VerifyFind, VerifySave, TellReviewers, MarkNotified,
       ApproveGrant, ApprovePlace, DecisionSave, DecisionAudit, DecisionTell, people
  <2> QED BY <2>1, <2>2, <2>3
<1> QED BY <1>1 DEF Fine, Grows, HandlerHolds

(* What a handler knows stays true whatever the others do. *)
LEMMA HoldsStep ==
    ASSUME TypeOK, HandlerHolds, NEW w \in Web, Arrive(w) \/ Step(w) \/ Crash(w)
    PROVE  HandlerHolds'
<1>1. Fine(w) /\ (\A u \in Users : link[u] # "none" => u \in Known)'
  BY FineAct, LinksStep
<1>2. ASSUME NEW v \in Web PROVE Knows(handler[v])'
  <2>1. CASE v = w
    BY <1>1, <2>1 DEF Fine
  <2>2. CASE v # w
    <3>1. Knows(handler[v]) /\ handler'[v] = handler[v]
      BY <1>1, <2>2 DEF Fine, OthersStay, HandlerHolds
    <3> QED BY <1>1, <3>1 DEF Fine, Grows, Knows, VerifyPCs, DecidePCs, LinkPCs, TellPCs, MarkPCs,
               GrantedPCs
  <2> QED BY <2>1, <2>2
<1> QED BY <1>1, <1>2 DEF HandlerHolds

-----------------------------------------------------------------------------
(* What the history says.                                                  *)

(* On what a handler is at work, by kind. *)
LEMMA SubjectsOf ==
    ASSUME NEW h, NEW x
    PROVE  /\ <<"verify", x>> \in Subjects(h) <=> h.pc \in VerifyPCs /\ h.app = x
           /\ <<"decide", x>> \in Subjects(h) <=> h.pc \in DecidePCs /\ h.app = x
           /\ <<"link", x>> \in Subjects(h) <=> h.pc \in LinkPCs /\ h.user = x
  BY DEF Subjects

(* The subjects of a handler that knows what it works on. *)
LEMMA SubjectsTyped ==
    ASSUME NEW h \in Handler, Knows(h), Rows \subseteq AppIds
    PROVE  Subjects(h) \subseteq ({"verify", "decide"} \X AppIds) \cup ({"link"} \X Users)
<1>1. h.pc \in VerifyPCs \cup DecidePCs => h.app \in AppIds
  BY DEF Knows
<1>2. h.pc \in LinkPCs => h.user \in Users
  BY DEF Knows, Known
<1> QED BY <1>1, <1>2 DEF Subjects

(* The history is only added to; overlaps and deaths are noted. *)
LEMMA HistoryStep ==
    ASSUME TypeOK, HandlerHolds, OverlapSeen, NEW w \in Web,
           \/ (Arrive(w) \/ Step(w)) /\ spoiled' = spoiled \cup Overlap'
           \/ Crash(w)
    PROVE  /\ TypeOK' /\ HandlerHolds' /\ OverlapSeen'
           /\ spoiled \subseteq spoiled'
<1>1. Fine(w) /\ HandlerHolds'
  BY FineAct, HoldsStep
<1>2. \A v \in Web : handler[v] \in Handler /\ Knows(handler[v])
  BY DEF TypeOK, HandlerHolds
<1>3. \A v \in Web : handler'[v] \in Handler /\ Knows(handler[v])'
  BY <1>1 DEF Fine, Tables, HandlerHolds
<1>4. \A v \in Web : Subjects(handler[v]) \subseteq ({"verify", "decide"} \X AppIds) \cup ({"link"} \X Users)
  BY <1>2, SubjectsTyped DEF TypeOK
<1>5. \A v \in Web : Subjects(handler'[v]) \subseteq ({"verify", "decide"} \X AppIds) \cup ({"link"} \X Users)
  <2> SUFFICES ASSUME NEW v \in Web
               PROVE  Subjects(handler'[v]) \subseteq ({"verify", "decide"} \X AppIds) \cup ({"link"} \X Users)
    OBVIOUS
  <2>1. handler'[v].pc \in VerifyPCs \cup DecidePCs => handler'[v].app \in AppIds
    BY <1>1, <1>3 DEF Knows, Fine, Tables
  <2>2. handler'[v].pc \in LinkPCs => handler'[v].user \in Users
    BY <1>3 DEF Knows, Known
  <2> QED BY <2>1, <2>2 DEF Subjects
<1>6. CASE (Arrive(w) \/ Step(w)) /\ spoiled' = spoiled \cup Overlap'
  <2>1. Overlap' \subseteq {"overlap", "death"} \X
                           (({"verify", "decide"} \X AppIds) \cup ({"link"} \X Users))
    BY <1>5 DEF Overlap
  <2>2. TypeOK'
    BY <1>1, <1>6, <2>1 DEF TypeOK, Fine, Tables
  <2>3. OverlapSeen'
    <3> SUFFICES ASSUME NEW u \in Web, NEW v \in Web, NEW kind \in {"verify", "decide"},
                        NEW a \in AppIds, u # v,
                        <<kind, a>> \in Subjects(handler'[u]), <<kind, a>> \in Subjects(handler'[v])
                 PROVE  <<"overlap", <<kind, a>>>> \in Overlap'
      BY <1>6 DEF OverlapSeen
    <3> DEFINE x == <<kind, a>>
    <3>1. x[1] # "link"
      OBVIOUS
    <3> QED BY <3>1 DEF Overlap
  <2> QED BY <1>1, <1>6, <2>2, <2>3
<1>7. CASE Crash(w)
  <2>1. spoiled' \subseteq {"overlap", "death"} \X
                           (({"verify", "decide"} \X AppIds) \cup ({"link"} \X Users))
    BY <1>4, <1>7 DEF Crash, TypeOK
  <2>2. TypeOK'
    BY <1>1, <2>1 DEF TypeOK, Fine, Tables
  <2>3. handler'[w] = Idle /\ \A v \in Web \ {w} : handler'[v] = handler[v]
    BY <1>7 DEF Crash, Finish, Become, TypeOK
  <2>4. Subjects(Idle) = {}
    BY DEF Subjects, Idle, VerifyPCs, DecidePCs, LinkPCs
  <2>5. OverlapSeen'
    <3>1. spoiled \subseteq spoiled'
      BY <1>7 DEF Crash
    <3>2. \A v \in Web : Subjects(handler'[v]) \subseteq Subjects(handler[v])
      BY <2>3, <2>4
    <3> QED BY <3>1, <3>2 DEF OverlapSeen
  <2> QED BY <1>1, <1>7, <2>2, <2>5 DEF Crash
<1> QED BY <1>6, <1>7

(* A death half-way is noted. *)
LEMMA DeathsAreNoted ==
    ASSUME NEW w \in Web, Crash(w)
    PROVE  /\ handler[w].pc \in VerifyPCs \ {"verify.save"} =>
                 <<"death", <<"verify", handler[w].app>>>> \in spoiled'
           /\ handler[w].pc \in DecidePCs \ {"approve.grant", "reject.save"} =>
                 <<"death", <<"decide", handler[w].app>>>> \in spoiled'
           /\ handler[w].pc \in LinkPCs \ {"submit.insert", "password.save"} =>
                 <<"death", <<"link", handler[w].user>>>> \in spoiled'
<1> DEFINE h == handler[w]
<1>1. \A y \in Subjects(h) : h.pc \in HalfWay(y[1]) => <<"death", y>> \in spoiled'
  BY DEF Crash
<1>2. ASSUME h.pc \in VerifyPCs \ {"verify.save"}
      PROVE  <<"death", <<"verify", h.app>>>> \in spoiled'
  <2>1. <<"verify", h.app>> \in Subjects(h) /\ h.pc \in HalfWay("verify")
    BY <1>2, SubjectsOf DEF HalfWay
  <2> QED BY <1>1, <2>1
<1>3. ASSUME h.pc \in DecidePCs \ {"approve.grant", "reject.save"}
      PROVE  <<"death", <<"decide", h.app>>>> \in spoiled'
  <2>1. <<"decide", h.app>> \in Subjects(h) /\ h.pc \in HalfWay("decide")
    BY <1>3, SubjectsOf DEF HalfWay
  <2> QED BY <1>1, <2>1
<1>4. ASSUME h.pc \in LinkPCs \ {"submit.insert", "password.save"}
      PROVE  <<"death", <<"link", h.user>>>> \in spoiled'
  <2>1. <<"link", h.user>> \in Subjects(h) /\ h.pc \in HalfWay("link")
    BY <1>4, SubjectsOf DEF HalfWay
  <2> QED BY <1>1, <2>1
<1> QED BY <1>2, <1>3, <1>4

(* What a step of process w does, told once for the lemmas below. *)
Act(w) ==
    /\ \/ (Arrive(w) \/ Step(w)) /\ spoiled' = spoiled \cup Overlap'
       \/ Crash(w)
    /\ Fine(w)
    /\ TypeOK' /\ HandlerHolds' /\ OverlapSeen'
    /\ spoiled \subseteq spoiled'

LEMMA ActFacts ==
    ASSUME TypeOK, HandlerHolds, OverlapSeen, NEW w \in Web,
           \/ (Arrive(w) \/ Step(w)) /\ spoiled' = spoiled \cup Overlap'
           \/ Crash(w)
    PROVE  Act(w)
  BY FineAct, HistoryStep DEF Act

(* GrantsAreVerified, and what holds of applications that are not there.    *)
LEMMA GrantsStep ==
    ASSUME IInv, NEW w \in Web, Act(w)
    PROVE  GrantsAreVerified'
<1> USE DEF IInv, Act
<1>1. granted' \subseteq granted \/ (granted' = granted \cup {handler[w].app} /\ At(w, "approve.grant"))
  BY DEF Arrive, Step, Crash, SubmitBegin, SetPasswordBegin, RejectBegin, ApproveBegin,
     SubmitLookup, SubmitUser, SubmitInsert, SubmitInvite, SetPasswordSave, VerifyFind, VerifySave,
     TellReviewers, MarkNotified, ApproveGrant, ApprovePlace, DecisionSave, DecisionAudit,
     DecisionTell, outcome
<1>2. At(w, "approve.grant") => handler[w].app \in Rows /\ apps[handler[w].app].verified
  BY DEF At, HandlerHolds, Knows, DecidePCs
<1>3. \A a \in granted' : a \in Rows /\ apps[a].verified
  BY <1>1, <1>2 DEF GrantsAreVerified, TypeOK
<1> QED BY <1>3 DEF Fine, Grows, GrantsAreVerified

-----------------------------------------------------------------------------
(* Verification.                                                           *)

SameNotice(a) ==
    /\ apps'[a].verified = apps[a].verified
    /\ apps'[a].marked = apps[a].marked
    /\ ready'[a] = ready[a]

(* What a step does to the verification of an application: nothing, which  *)
(* includes a death, or one of four moves of a handler that works on it.   *)
VerifyQuiet(w, a) ==
    /\ SameNotice(a)
    /\ handler[w].pc \in VerifyPCs /\ handler[w].app = a => Crash(w)
    /\ ~(handler'[w].pc \in VerifyPCs /\ handler'[w].app = a)

VerifyMove(w, a) ==
    \/ /\ SameNotice(a) /\ ~apps[a].verified /\ At(w, "verify.find")
       /\ At(w, "verify.save")' /\ handler'[w].app = a
    \/ /\ handler[w].app = a /\ At(w, "verify.save")
       /\ apps'[a].verified /\ apps'[a].marked = apps[a].marked /\ ready'[a] = ready[a]
       /\ At(w, "verify.tell")' /\ handler'[w].app = a
    \/ /\ handler[w].app = a /\ handler[w].pc \in TellPCs
       /\ apps'[a].verified = apps[a].verified /\ apps'[a].marked = apps[a].marked
       /\ ready'[a] = IF ready[a] < 2 THEN ready[a] + 1 ELSE ready[a]
       /\ handler'[w].pc \in MarkPCs /\ handler'[w].app = a
    \/ /\ handler[w].app = a /\ handler[w].pc \in MarkPCs
       /\ apps'[a].verified = apps[a].verified /\ apps'[a].marked /\ ready'[a] = ready[a]
       /\ At(w, "idle")'

(* Where a request that has arrived starts. *)
LEMMA ArrivesAt ==
    ASSUME TypeOK, NEW w \in Web, Arrive(w)
    PROVE  handler'[w].pc \in {"submit.lookup", "password.save", "reject.save", "approve.grant"}
<1>1. \A h : Become(w, h) => handler'[w] = h
  BY DEF Become, TypeOK
<1>2. CASE \E e \in Emails, user \in Users \cup {None}, place \in BOOLEAN :
              SubmitBegin(w, e, user, place)
  BY <1>1, <1>2 DEF SubmitBegin, Idle
<1>3. CASE \E u \in Users : SetPasswordBegin(w, u)
  BY <1>1, <1>3 DEF SetPasswordBegin, Idle
<1>4. CASE \E a \in Rows : RejectBegin(w, a)
  BY <1>1, <1>4 DEF RejectBegin, Idle
<1>5. CASE \E a \in Rows, place \in BOOLEAN : ApproveBegin(w, a, place)
  <2> PICK a \in Rows, place \in BOOLEAN : ApproveBegin(w, a, place)
    BY <1>5
  <2> PICK h : h = [Idle EXCEPT !.pc = "approve.grant", !.app = a, !.user = apps[a].user,
                                !.place = apps[a].place /\ place]
    OBVIOUS
  <2>1. handler'[w] = h
    BY <1>1 DEF ApproveBegin
  <2>2. h.pc = "approve.grant"
    BY DEF Idle
  <2> QED BY <2>1, <2>2
<1> QED BY <1>2, <1>3, <1>4, <1>5 DEF Arrive

LEMMA VerifyMoves ==
    ASSUME IInv, NEW w \in Web, Act(w), NEW a \in Rows
    PROVE  VerifyQuiet(w, a) \/ VerifyMove(w, a)
<1> USE DEF VerifyPCs, TellPCs, MarkPCs, At
<1>0. /\ handler \in [Web -> Handler] /\ handler[w] \in Handler /\ Idle.pc = "idle"
      /\ a \in AppIds /\ a \in DOMAIN apps /\ apps[a] \in AppRow
      /\ ready \in [AppIds -> 0..2]
  BY DEF IInv, TypeOK, Idle, Rows
<1>1. CASE Arrive(w)
  <2>1. At(w, "idle") /\ UNCHANGED <<apps, ready>>
    BY <1>1 DEF Arrive, SubmitBegin, SetPasswordBegin, RejectBegin, ApproveBegin, outcome
  <2>2. handler'[w].pc \in {"submit.lookup", "password.save", "reject.save", "approve.grant"}
    BY <1>1, ArrivesAt DEF IInv
  <2> QED BY <2>1, <2>2 DEF VerifyQuiet, SameNotice
<1>2. CASE SubmitLookup(w) \/ SubmitUser(w) \/ SubmitInvite(w) \/ SetPasswordSave(w)
  <2>1. handler[w].pc \notin VerifyPCs /\ UNCHANGED <<apps, ready>>
    BY <1>2 DEF SubmitLookup, SubmitUser, SubmitInvite, SetPasswordSave, outcome
  <2>2. handler'[w].pc \notin VerifyPCs
    <3>0. \A h : Become(w, h) => handler'[w] = h
      BY <1>0 DEF Become
    <3>1. CASE SubmitLookup(w)
      BY <1>0, <3>0, <3>1 DEF SubmitLookup, Goto, Handler
    <3>2. CASE SubmitUser(w)
      BY <1>0, <3>0, <3>2 DEF SubmitUser, Finish, Handler
    <3>3. CASE SubmitInvite(w) \/ SetPasswordSave(w)
      BY <1>0, <3>3 DEF SubmitInvite, SetPasswordSave, Become, Finish, Goto, Handler
    <3> QED BY <1>2, <3>1, <3>2, <3>3
  <2> QED BY <2>1, <2>2 DEF VerifyQuiet, SameNotice
<1>3. CASE SubmitInsert(w)
  <2>1. CASE Finish(w) /\ UNCHANGED apps
    BY <1>0, <1>3, <2>1 DEF SubmitInsert, Become, Finish, VerifyQuiet, SameNotice, outcome
  <2>2. CASE ~(Finish(w) /\ UNCHANGED apps)
    <3> PICK new : new = Cardinality(Rows) + 1
      OBVIOUS
    <3>1. /\ new \in AppIds /\ Rows' = Rows \cup {new} /\ UNCHANGED ready
          /\ handler'[w].app = new /\ At(w, "submit.insert")
      BY <1>0, <1>3, <2>2 DEF SubmitInsert, Become, Rows, outcome, Handler
    <3>2. new \notin Rows
      BY <3>1, NextKey DEF IInv
    <3>3. apps'[a] = apps[a]
      BY <1>0, <1>3, <2>2, <3>2 DEF SubmitInsert
    <3> QED BY <3>1, <3>2, <3>3 DEF VerifyQuiet, SameNotice
  <2> QED BY <2>1, <2>2
<1>4. CASE VerifyFind(w)
  BY <1>0, <1>4 DEF VerifyFind, Unverified, Become, Finish, VerifyQuiet, VerifyMove, SameNotice,
     outcome, Handler
<1>5. CASE VerifySave(w)
  <2>1. CASE handler[w].app = a
    BY <1>0, <1>5, <2>1 DEF VerifySave, Become, Goto, VerifyMove, outcome, Handler, AppRow
  <2>2. CASE handler[w].app # a
    BY <1>0, <1>5, <2>2 DEF VerifySave, Become, Goto, VerifyQuiet, SameNotice, outcome, Handler
  <2> QED BY <2>1, <2>2
<1>6. CASE TellReviewers(w)
  <2>1. CASE handler[w].app = a
    BY <1>0, <1>6, <2>1 DEF TellReviewers, Become, Goto, VerifyMove, Handler
  <2>2. CASE handler[w].app # a
    BY <1>0, <1>6, <2>2 DEF TellReviewers, Become, Goto, VerifyQuiet, SameNotice, Handler
  <2> QED BY <2>1, <2>2
<1>7. CASE MarkNotified(w)
  <2>1. CASE handler[w].app = a
    BY <1>0, <1>7, <2>1 DEF MarkNotified, Become, Finish, VerifyMove, outcome, AppRow
  <2>2. CASE handler[w].app # a
    BY <1>0, <1>7, <2>2 DEF MarkNotified, Become, Finish, VerifyQuiet, SameNotice, outcome
  <2> QED BY <2>1, <2>2
<1>8. CASE ApproveGrant(w) \/ ApprovePlace(w) \/ DecisionAudit(w) \/ DecisionTell(w)
  BY <1>0, <1>8 DEF ApproveGrant, ApprovePlace, DecisionAudit, DecisionTell, Become, Goto, Finish,
     VerifyQuiet, SameNotice, Handler
<1>9. CASE DecisionSave(w)
  <2>1. SameNotice(a)
    BY <1>0, <1>9 DEF DecisionSave, SameNotice, outcome, AppRow
  <2> QED BY <1>0, <1>9, <2>1 DEF DecisionSave, Become, Goto, VerifyQuiet, Handler
<1>10. CASE Crash(w)
  BY <1>0, <1>10 DEF Crash, Finish, Become, VerifyQuiet, SameNotice, outcome
<1> QED BY <1>1, <1>2, <1>3, <1>4, <1>5, <1>6, <1>7, <1>8, <1>9, <1>10 DEF Act, Step

(* Nobody else is at work on what is undisturbed and in w's hands.         *)
LEMMA Alone ==
    ASSUME IInv, NEW w \in Web, NEW v \in Web, v # w, NEW a \in Rows
    PROVE  /\ Clean(<<"verify", a>>) /\ handler[w].pc \in VerifyPCs /\ handler[w].app = a =>
                 ~(handler[v].pc \in VerifyPCs /\ handler[v].app = a)
           /\ Clean(<<"decide", a>>) /\ handler[w].pc \in DecidePCs /\ handler[w].app = a =>
                 ~(handler[v].pc \in DecidePCs /\ handler[v].app = a)
  BY SubjectsOf DEF IInv, OverlapSeen, Clean, TypeOK

LEMMA AloneAfter ==
    ASSUME IInv, NEW w \in Web, Act(w), NEW v \in Web, v # w, NEW a \in Rows
    PROVE  /\ Clean(<<"verify", a>>)' /\ handler'[w].pc \in VerifyPCs /\ handler'[w].app = a =>
                 ~(handler[v].pc \in VerifyPCs /\ handler[v].app = a)
           /\ Clean(<<"decide", a>>)' /\ handler'[w].pc \in DecidePCs /\ handler'[w].app = a =>
                 ~(handler[v].pc \in DecidePCs /\ handler[v].app = a)
<1>1. handler'[v] = handler[v] /\ OverlapSeen' /\ a \in AppIds
  BY DEF Act, Fine, OthersStay, IInv, TypeOK
<1>2. \A kind \in {"verify", "decide"} :
         <<kind, a>> \in Subjects(handler'[w]) /\ <<kind, a>> \in Subjects(handler[v])
            => <<"overlap", <<kind, a>>>> \in spoiled'
  BY <1>1 DEF OverlapSeen
<1> QED BY <1>2, SubjectsOf DEF Clean

(* What is inserted: by whom, and with nothing known of it yet. *)
Inserted(w, a) ==
    /\ At(w, "submit.insert")
    /\ apps'[a] = [email |-> handler[w].email, user |-> handler[w].user, place |-> handler[w].place,
                   verified |-> handler[w].verified, marked |-> FALSE, status |-> "pending"]
    /\ handler'[w] = [handler[w] EXCEPT
                        !.pc = IF handler[w].verified THEN "submit.tell" ELSE "submit.invite",
                        !.app = a]
    /\ \A b \in Pending : apps[b].email # handler[w].email
    /\ UNCHANGED <<people, outcome>>
    /\ Rows' = Rows \cup {a} /\ a \in AppIds
    /\ \A b \in Rows : apps'[b] = apps[b]

LEMMA Insertions ==
    ASSUME IInv, NEW w \in Web, Act(w), NEW a \in Rows', a \notin Rows
    PROVE  Inserted(w, a)
<1>1. Rows' # Rows
  OBVIOUS
<1>2. SubmitInsert(w) /\ ~UNCHANGED apps
  <2>1. ~UNCHANGED apps
    BY <1>1 DEF Rows
  <2>2. ~VerifySave(w) /\ ~MarkNotified(w) /\ ~DecisionSave(w)
    BY <1>1 DEF VerifySave, MarkNotified, DecisionSave, Rows
  <2> QED BY <2>1, <2>2 DEF Act, Arrive, Step, Crash, SubmitBegin, SetPasswordBegin, RejectBegin,
             ApproveBegin, SubmitLookup, SubmitUser, SubmitInvite, SetPasswordSave, VerifyFind,
             TellReviewers, ApproveGrant, ApprovePlace, DecisionAudit, DecisionTell
<1> PICK new : new = Cardinality(Rows) + 1
  OBVIOUS
<1> PICK row : row = [email |-> handler[w].email, user |-> handler[w].user, place |-> handler[w].place,
                      verified |-> handler[w].verified, marked |-> FALSE, status |-> "pending"]
  OBVIOUS
<1> PICK h : h = [handler[w] EXCEPT
                    !.pc = IF handler[w].verified THEN "submit.tell" ELSE "submit.invite", !.app = new]
  OBVIOUS
<1>3. /\ At(w, "submit.insert") /\ UNCHANGED <<people, outcome>>
      /\ ~\E b \in Pending : apps[b].email = handler[w].email
      /\ new \in AppIds
      /\ apps' = [b \in Rows \cup {new} |-> IF b = new THEN row ELSE apps[b]]
      /\ Become(w, h)
  BY <1>2 DEF SubmitInsert
<1>4. Rows' = Rows \cup {new}
  BY <1>3 DEF Rows
<1>5. a = new /\ new \notin Rows
  BY <1>3, <1>4, NextKey DEF IInv
<1>6. handler'[w] = h
  BY <1>3 DEF Become, IInv, TypeOK
<1>7. apps'[a] = row /\ \A b \in Rows : apps'[b] = apps[b]
  BY <1>3, <1>5
<1> QED BY <1>3, <1>4, <1>5, <1>6, <1>7 DEF Inserted

(* Nobody works on an application that is not there. *)
LEMMA NobodyOnNew ==
    ASSUME IInv, NEW v \in Web, NEW a, a \notin Rows
    PROVE  ~(handler[v].pc \in VerifyPCs \cup DecidePCs /\ handler[v].app = a)
  BY DEF IInv, HandlerHolds, Knows

LEMMA VerificationStep ==
    ASSUME IInv, NEW w \in Web, Act(w), NEW a \in Rows'
    PROVE  Verification(a)'
<1> USE DEF VerifyPCs, TellPCs, MarkPCs, At
<1> SUFFICES ASSUME Clean(<<"verify", a>>)'
             PROVE  /\ Settled(<<"verify", a>>)' => Fresh(a)' \/ Marked(a)'
                    /\ \A v \in Web : handler'[v].app = a =>
                          /\ handler'[v].pc = "verify.save" => Fresh(a)'
                          /\ handler'[v].pc \in TellPCs => Proven(a)'
                          /\ handler'[v].pc \in MarkPCs => Told(a)'
  BY DEF Verification
<1>0. /\ Clean(<<"verify", a>>)
      /\ \A v \in Web \ {w} : handler'[v] = handler[v]
      /\ \A v \in Web : <<"verify", a>> \in Subjects(handler[v])
                            <=> handler[v].pc \in VerifyPCs /\ handler[v].app = a
      /\ \A v \in Web : <<"verify", a>> \in Subjects(handler'[v])
                            <=> handler'[v].pc \in VerifyPCs /\ handler'[v].app = a
  BY SubjectsOf DEF Act, Clean, Fine, OthersStay
<1>1. CASE a \notin Rows
  <2>1. Inserted(w, a)
    BY <1>1, Insertions
  <2>2. ready'[a] = 0 /\ ~apps'[a].marked /\ apps'[a].verified = handler[w].verified
    BY <1>1, <2>1 DEF Inserted, outcome, IInv, Unborn
  <2>3. handler'[w].pc = IF handler[w].verified THEN "submit.tell" ELSE "submit.invite"
    BY <2>1 DEF Inserted, IInv, TypeOK, Handler
  <2>4. \A v \in Web : handler'[v].pc \in VerifyPCs /\ handler'[v].app = a => v = w
    BY <1>0, <1>1, NobodyOnNew
  <2>5. handler[w].verified \in BOOLEAN /\ handler'[w].app = a
    BY <2>1 DEF Inserted, IInv, TypeOK, Handler
  <2> QED BY <1>0, <2>2, <2>3, <2>4, <2>5 DEF Fresh, Proven, Settled
<1>2. CASE a \in Rows /\ VerifyQuiet(w, a)
  <2>1. Verification(a)
    BY <1>2 DEF IInv
  <2>2. Fresh(a)' = Fresh(a) /\ Marked(a)' = Marked(a) /\ Proven(a)' = Proven(a) /\ Told(a)' = Told(a)
    BY <1>2 DEF VerifyQuiet, SameNotice, Fresh, Marked, Proven, Told
  <2>3. ASSUME NEW v \in Web, handler'[v].app = a, handler'[v].pc \in VerifyPCs
        PROVE  handler[v] = handler'[v]
    BY <1>0, <1>2, <2>3 DEF VerifyQuiet
  <2>4. CASE handler[w].pc \in VerifyPCs /\ handler[w].app = a
    <3>1. Crash(w)
      BY <1>2, <2>4 DEF VerifyQuiet
    <3>2. handler[w].pc = "verify.save"
      BY <2>4, <3>1, DeathsAreNoted DEF Clean
    <3>3. Fresh(a)
      BY <1>0, <2>1, <2>4, <3>2 DEF Verification
    <3> QED BY <1>0, <2>1, <2>2, <2>3, <3>3 DEF Verification
  <2>5. CASE ~(handler[w].pc \in VerifyPCs /\ handler[w].app = a)
    <3>1. Settled(<<"verify", a>>)' => Settled(<<"verify", a>>)
      BY <1>0, <2>5 DEF Settled
    <3> QED BY <1>0, <2>1, <2>2, <2>3, <3>1 DEF Verification
  <2> QED BY <2>4, <2>5
<1>3. CASE a \in Rows /\ VerifyMove(w, a)
  <2>1. Verification(a)
    BY <1>3 DEF IInv
  <2>2. \A v \in Web \ {w} : ~(handler[v].pc \in VerifyPCs /\ handler[v].app = a)
    <3>1. \/ handler[w].pc \in VerifyPCs /\ handler[w].app = a
          \/ handler'[w].pc \in VerifyPCs /\ handler'[w].app = a
      BY <1>3 DEF VerifyMove
    <3>2. CASE handler[w].pc \in VerifyPCs /\ handler[w].app = a
      <4> SUFFICES ASSUME NEW v \in Web, v # w
                   PROVE  ~(handler[v].pc \in VerifyPCs /\ handler[v].app = a)
        OBVIOUS
      <4> QED BY <1>0, <1>3, <3>2, Alone
    <3>3. CASE handler'[w].pc \in VerifyPCs /\ handler'[w].app = a
      <4> SUFFICES ASSUME NEW v \in Web, v # w
                   PROVE  ~(handler[v].pc \in VerifyPCs /\ handler[v].app = a)
        OBVIOUS
      <4> QED BY <1>3, <3>3, AloneAfter
    <3> QED BY <3>1, <3>2, <3>3
  <2>3. CASE SameNotice(a) /\ ~apps[a].verified /\ At(w, "verify.find")
             /\ At(w, "verify.save")' /\ handler'[w].app = a
    <3>1. Settled(<<"verify", a>>)
      BY <1>0, <2>2, <2>3 DEF Settled
    <3>2. Fresh(a)
      BY <1>0, <2>1, <2>3, <3>1 DEF Verification, Marked
    <3>3. Fresh(a)'
      BY <2>3, <3>2 DEF Fresh, SameNotice
    <3> QED BY <1>0, <2>2, <2>3, <3>3 DEF Settled
  <2>4. CASE ~At(w, "verify.find")
    <3>1. handler[w].app = a
      BY <1>3, <2>4 DEF VerifyMove
    <3>2. /\ handler[w].pc = "verify.save" => Fresh(a)
          /\ handler[w].pc \in TellPCs => Proven(a)
          /\ handler[w].pc \in MarkPCs => Told(a)
      BY <1>0, <2>1, <3>1 DEF Verification
    <3>3. /\ handler[w].pc = "verify.save" => Proven(a)' /\ At(w, "verify.tell")' /\ handler'[w].app = a
          /\ handler[w].pc \in TellPCs => Told(a)' /\ handler'[w].pc \in MarkPCs /\ handler'[w].app = a
          /\ handler[w].pc \in MarkPCs => Marked(a)' /\ At(w, "idle")'
          /\ handler[w].pc \in VerifyPCs
      BY <1>3, <2>4, <3>2 DEF VerifyMove, Fresh, Proven, Told, Marked
    <3> QED BY <1>0, <2>2, <3>3 DEF Settled
  <2> QED BY <1>3, <2>3, <2>4 DEF VerifyMove
<1> QED BY <1>1, <1>2, <1>3, VerifyMoves

LEMMA NoticeOwedStep ==
    ASSUME IInv, NEW w \in Web, Act(w), NEW a \in Rows'
    PROVE  NoticeOwed(a)'
<1> USE DEF VerifyPCs, TellPCs, MarkPCs, At
<1> SUFFICES ASSUME <<"death", <<"verify", a>>>> \notin spoiled', apps'[a].verified, ready'[a] = 0
             PROVE  \E v \in Web : handler'[v].pc \in TellPCs /\ handler'[v].app = a
  BY DEF NoticeOwed
<1>0. <<"death", <<"verify", a>>>> \notin spoiled /\ \A v \in Web \ {w} : handler'[v] = handler[v]
  BY DEF Act, Fine, OthersStay
<1>1. CASE a \notin Rows
  <2>1. Inserted(w, a)
    BY <1>1, Insertions
  <2>2. handler[w].verified
    BY <2>1 DEF Inserted
  <2>3. handler'[w].pc = "submit.tell" /\ handler'[w].app = a
    BY <2>1, <2>2 DEF Inserted, IInv, TypeOK, Handler
  <2> QED BY <2>3
<1>2. CASE a \in Rows /\ VerifyQuiet(w, a)
  <2>1. apps[a].verified /\ ready[a] = 0
    BY <1>2 DEF VerifyQuiet, SameNotice
  <2>2. PICK v \in Web : handler[v].pc \in TellPCs /\ handler[v].app = a
    BY <1>0, <1>2, <2>1 DEF IInv, NoticeOwed
  <2>3. v # w
    BY <1>2, <2>2, DeathsAreNoted DEF VerifyQuiet
  <2> QED BY <1>0, <2>2, <2>3
<1>3. CASE a \in Rows /\ VerifyMove(w, a)
  <2>0. ready[a] \in 0..2
    BY <1>3 DEF IInv, TypeOK
  <2>1. CASE handler[w].app = a /\ At(w, "verify.save")
    BY <1>3, <2>1 DEF VerifyMove
  <2>2. CASE handler[w].app = a /\ handler[w].pc \in TellPCs
    <3>1. ready'[a] = IF ready[a] < 2 THEN ready[a] + 1 ELSE ready[a]
      BY <1>3, <2>2 DEF VerifyMove
    <3> QED BY <2>0, <3>1
  <2>3. CASE ~(handler[w].app = a /\ handler[w].pc \in TellPCs \cup {"verify.save"})
    <3>1. apps[a].verified /\ ready[a] = 0
      BY <1>3, <2>3 DEF VerifyMove, SameNotice
    <3>2. PICK v \in Web : handler[v].pc \in TellPCs /\ handler[v].app = a
      BY <1>0, <1>3, <3>1 DEF IInv, NoticeOwed
    <3> QED BY <1>0, <2>3, <3>2
  <2> QED BY <2>1, <2>2, <2>3
<1> QED BY <1>1, <1>2, <1>3, VerifyMoves

-----------------------------------------------------------------------------
(* Decisions.                                                              *)

SamePlaces(a) == places'[a] = places[a] /\ apps'[a].place = apps[a].place
SameStatus(a) == apps'[a].status = apps[a].status
SameGrant(a) == a \in granted' <=> a \in granted
SameReports(a) == ReportedOf(a)' = ReportedOf(a)

DecideQuiet(w, a) ==
    /\ SameStatus(a) /\ SameGrant(a) /\ SamePlaces(a) /\ SameReports(a)
    /\ handler[w].pc \in DecidePCs /\ handler[w].app = a => Crash(w)
    /\ ~(handler'[w].pc \in DecidePCs /\ handler'[w].app = a)

DecideBegins(w, a) ==
    /\ At(w, "idle") /\ apps[a].status = "pending"
    /\ SameStatus(a) /\ SameGrant(a) /\ SamePlaces(a) /\ SameReports(a)
    /\ handler'[w].pc \in {"approve.grant", "reject.save"} /\ handler'[w].app = a

(* The moves of a handler that works on the decision of a. *)
DecideMove(w, a) ==
    /\ handler[w].app = a
    /\ \/ /\ At(w, "approve.grant") /\ At(w, "idle")'
          /\ SameStatus(a) /\ SameGrant(a) /\ SamePlaces(a) /\ SameReports(a)
       \/ /\ At(w, "approve.grant") /\ handler'[w].pc \in {"approve.place", "approve.save"}
          /\ handler'[w].app = a
          /\ SameStatus(a) /\ a \in granted' /\ SamePlaces(a) /\ SameReports(a)
       \/ /\ At(w, "approve.place") /\ At(w, "approve.save")' /\ handler'[w].app = a
          /\ places'[a] = IF places[a] < 2 THEN places[a] + 1 ELSE places[a]
          /\ apps'[a].place = apps[a].place
          /\ SameStatus(a) /\ SameGrant(a) /\ SameReports(a)
       \/ \E d \in {<<"approve.save", "approve.audit", "approved">>,
                    <<"reject.save", "reject.audit", "rejected">>} :
             /\ At(w, d[1]) /\ At(w, d[2])' /\ handler'[w].app = a
             /\ apps'[a].status = d[3]
             /\ SameGrant(a) /\ SamePlaces(a) /\ SameReports(a)
       \/ \E d \in {<<"approve.audit", "approve.tell", "approved">>,
                    <<"reject.audit", "reject.tell", "rejected">>} :
             /\ At(w, d[1]) /\ At(w, d[2])' /\ handler'[w].app = a
             /\ ReportedOf(a)' = ReportedOf(a) \cup {Audit(a, d[3])}
             /\ SameStatus(a) /\ SameGrant(a) /\ SamePlaces(a)
       \/ \E d \in {<<"approve.tell", "approved">>, <<"reject.tell", "rejected">>} :
             /\ At(w, d[1]) /\ At(w, "idle")'
             /\ ReportedOf(a)' = ReportedOf(a) \cup {Notice(a, d[2])}
             /\ SameStatus(a) /\ SameGrant(a) /\ SamePlaces(a)

LEMMA DecideMoves ==
    ASSUME IInv, NEW w \in Web, Act(w), NEW a \in Rows
    PROVE  DecideQuiet(w, a) \/ DecideBegins(w, a) \/ DecideMove(w, a)
<1> USE DEF DecidePCs, At
<1>0. /\ handler \in [Web -> Handler] /\ handler[w] \in Handler /\ Idle.pc = "idle"
      /\ a \in AppIds /\ a \in DOMAIN apps /\ apps[a] \in AppRow
      /\ places \in [AppIds -> 0..2]
      /\ \A h : Become(w, h) => handler'[w] = h
  BY DEF IInv, TypeOK, Idle, Rows, Become
<1>1. CASE Arrive(w)
  <2>1. At(w, "idle") /\ UNCHANGED <<apps, outcome>>
    BY <1>1 DEF Arrive, SubmitBegin, SetPasswordBegin, RejectBegin, ApproveBegin
  <2>2. SameStatus(a) /\ SameGrant(a) /\ SamePlaces(a) /\ SameReports(a)
    BY <2>1 DEF SameStatus, SameGrant, SamePlaces, SameReports, ReportedOf, outcome
  <2>3. handler'[w].pc \in {"submit.lookup", "password.save", "reject.save", "approve.grant"}
    BY <1>1, ArrivesAt DEF IInv
  <2>4. CASE handler'[w].pc \in {"submit.lookup", "password.save"}
    BY <2>1, <2>2, <2>4 DEF DecideQuiet
  <2>5. CASE handler'[w].pc \in {"reject.save", "approve.grant"}
    <3>1. PICK b \in Rows : apps[b].status = "pending" /\ handler'[w].app = b
      <4>1. CASE \E e \in Emails, user \in Users \cup {None}, place \in BOOLEAN :
                    SubmitBegin(w, e, user, place)
        <5> PICK e \in Emails, user \in Users \cup {None}, place \in BOOLEAN : SubmitBegin(w, e, user, place)
          BY <4>1
        <5> PICK h : h = [Idle EXCEPT !.pc = "submit.lookup", !.user = user, !.email = e, !.place = place]
          OBVIOUS
        <5>1. handler'[w].pc = "submit.lookup"
          <6>1. h.pc = "submit.lookup"
            BY DEF Idle
          <6>2. handler'[w] = h
            BY <1>0 DEF SubmitBegin
          <6> QED BY <6>1, <6>2
        <5> QED BY <2>5, <5>1
      <4>2. CASE \E u \in Users : SetPasswordBegin(w, u)
        <5>1. handler'[w].pc = "password.save"
          BY <1>0, <4>2 DEF SetPasswordBegin, Idle
        <5> QED BY <2>5, <5>1
      <4>3. CASE \E b \in Rows : RejectBegin(w, b)
        BY <1>0, <4>3 DEF RejectBegin, Idle
      <4>4. CASE \E b \in Rows, place \in BOOLEAN : ApproveBegin(w, b, place)
        <5> PICK b \in Rows, place \in BOOLEAN : ApproveBegin(w, b, place)
          BY <4>4
        <5> PICK h : h = [Idle EXCEPT !.pc = "approve.grant", !.app = b, !.user = apps[b].user,
                                      !.place = apps[b].place /\ place]
          OBVIOUS
        <5>1. handler'[w] = h /\ apps[b].status = "pending"
          BY <1>0 DEF ApproveBegin
        <5>2. h.app = b
          BY DEF Idle
        <5> QED BY <5>1, <5>2
      <4> QED BY <1>1, <4>1, <4>2, <4>3, <4>4 DEF Arrive
    <3>2. CASE a = b
      BY <2>1, <2>2, <2>5, <3>1, <3>2 DEF DecideBegins
    <3>3. CASE a # b
      BY <2>1, <2>2, <3>1, <3>3 DEF DecideQuiet
    <3> QED BY <3>2, <3>3
  <2> QED BY <2>3, <2>4, <2>5
<1>2. CASE \/ SubmitLookup(w) \/ SubmitUser(w) \/ SubmitInsert(w) \/ SubmitInvite(w)
           \/ SetPasswordSave(w) \/ VerifyFind(w) \/ VerifySave(w) \/ TellReviewers(w) \/ MarkNotified(w)
  <2>1. handler[w].pc \notin DecidePCs /\ UNCHANGED <<granted, places, reported>>
    BY <1>2 DEF SubmitLookup, SubmitUser, SubmitInsert, SubmitInvite, SetPasswordSave, VerifyFind,
       VerifySave, TellReviewers, MarkNotified, outcome
  <2>2. handler'[w].pc \notin DecidePCs
    <3>1. CASE SubmitLookup(w)
      BY <1>0, <3>1 DEF SubmitLookup, Goto, Handler
    <3>2. CASE SubmitUser(w)
      BY <1>0, <3>2 DEF SubmitUser, Finish, Handler
    <3>3. CASE SubmitInsert(w)
      <4>1. CASE Finish(w)
        BY <1>0, <4>1 DEF Finish
      <4>2. CASE ~Finish(w)
        BY <1>0, <3>3, <4>2 DEF SubmitInsert, Handler
      <4> QED BY <4>1, <4>2
    <3>4. CASE SubmitInvite(w) \/ SetPasswordSave(w) \/ VerifyFind(w) \/ VerifySave(w)
      BY <1>0, <3>4 DEF SubmitInvite, SetPasswordSave, VerifyFind, VerifySave, Finish, Goto, Handler
    <3>5. CASE TellReviewers(w) \/ MarkNotified(w)
      BY <1>0, <3>5 DEF TellReviewers, MarkNotified, Finish, Goto, Handler
    <3> QED BY <1>2, <3>1, <3>2, <3>3, <3>4, <3>5
  <2>3. apps'[a].status = apps[a].status /\ apps'[a].place = apps[a].place
    <3>1. CASE SubmitInsert(w)
      <4>1. CASE UNCHANGED apps
        BY <4>1
      <4>2. CASE ~UNCHANGED apps
        <5> PICK new : new = Cardinality(Rows) + 1
          OBVIOUS
        <5>1. new \in AppIds /\ Rows' = Rows \cup {new}
          BY <3>1, <4>2 DEF SubmitInsert, Rows
        <5>2. new \notin Rows
          BY <5>1, NextKey DEF IInv
        <5> QED BY <3>1, <4>2, <5>2 DEF SubmitInsert
      <4> QED BY <4>1, <4>2
    <3>2. CASE VerifySave(w) \/ MarkNotified(w)
      BY <1>0, <3>2 DEF VerifySave, MarkNotified, AppRow
    <3>3. CASE ~SubmitInsert(w) /\ ~VerifySave(w) /\ ~MarkNotified(w)
      BY <1>2, <3>3 DEF SubmitLookup, SubmitUser, SubmitInvite, SetPasswordSave, VerifyFind, TellReviewers
    <3> QED BY <3>1, <3>2, <3>3
  <2> QED BY <2>1, <2>2, <2>3 DEF DecideQuiet, SameStatus, SameGrant, SamePlaces, SameReports, ReportedOf
<1>3. CASE Crash(w)
  BY <1>0, <1>3 DEF Crash, Finish, DecideQuiet, SameStatus, SameGrant, SamePlaces, SameReports,
     ReportedOf, outcome
<1>4. CASE ApproveGrant(w)
  <2>1. SameStatus(a) /\ SamePlaces(a) /\ SameReports(a) /\ handler[w].pc = "approve.grant"
    BY <1>4 DEF ApproveGrant, SameStatus, SamePlaces, SameReports, ReportedOf
  <2>2. CASE UNCHANGED granted /\ Finish(w)
    BY <1>0, <2>1, <2>2 DEF Finish, DecideMove, DecideQuiet, SameGrant
  <2>3. CASE granted' = granted \cup {handler[w].app}
             /\ Goto(w, IF handler[w].place THEN "approve.place" ELSE "approve.save")
    <3>1. handler'[w].pc \in {"approve.place", "approve.save"} /\ handler'[w].app = handler[w].app
      BY <1>0, <2>3 DEF Goto, Handler
    <3> QED BY <2>1, <2>3, <3>1 DEF DecideMove, DecideQuiet, SameGrant
  <2> QED BY <1>4, <2>2, <2>3 DEF ApproveGrant
<1>5. CASE ApprovePlace(w)
  <2>1. SameStatus(a) /\ SameGrant(a) /\ SameReports(a) /\ handler[w].pc = "approve.place"
        /\ apps'[a].place = apps[a].place
    BY <1>5 DEF ApprovePlace, SameStatus, SameGrant, SameReports, ReportedOf
  <2>2. handler'[w].pc = "approve.save" /\ handler'[w].app = handler[w].app
    BY <1>0, <1>5 DEF ApprovePlace, Goto, Handler
  <2>3. /\ handler[w].app # a => places'[a] = places[a]
        /\ handler[w].app = a => places'[a] = IF places[a] < 2 THEN places[a] + 1 ELSE places[a]
    BY <1>0, <1>5 DEF ApprovePlace
  <2> QED BY <2>1, <2>2, <2>3 DEF DecideMove, DecideQuiet, SamePlaces
<1>6. CASE DecisionSave(w)
  <2>1. PICK d \in {<<"approve.save", "approve.audit", "approved">>,
                    <<"reject.save", "reject.audit", "rejected">>} :
           At(w, d[1]) /\ apps' = [apps EXCEPT ![handler[w].app].status = d[3]] /\ Goto(w, d[2])
    BY <1>6 DEF DecisionSave
  <2>2. At(w, d[2])' /\ handler'[w].app = handler[w].app
    BY <1>0, <2>1 DEF Goto, Handler
  <2>3. SameGrant(a) /\ SameReports(a) /\ SamePlaces(a)
    BY <1>0, <1>6, <2>1 DEF DecisionSave, SameGrant, SameReports, SamePlaces, ReportedOf, outcome, AppRow
  <2>4. apps'[a].status = IF handler[w].app = a THEN d[3] ELSE apps[a].status
    BY <1>0, <2>1 DEF AppRow
  <2> QED BY <2>1, <2>2, <2>3, <2>4 DEF DecideMove, DecideQuiet, SameStatus
<1>7. CASE DecisionAudit(w)
  <2>1. PICK d \in {<<"approve.audit", "approve.tell", "approved">>,
                    <<"reject.audit", "reject.tell", "rejected">>} :
           At(w, d[1]) /\ Report(w, "audit", d[3]) /\ Goto(w, d[2])
    BY <1>7 DEF DecisionAudit
  <2>2. At(w, d[2])' /\ handler'[w].app = handler[w].app
    BY <1>0, <2>1 DEF Goto, Handler
  <2>3. SameStatus(a) /\ SameGrant(a) /\ SamePlaces(a)
    BY <1>7 DEF DecisionAudit, SameStatus, SameGrant, SamePlaces
  <2>4. ReportedOf(a)' = IF handler[w].app = a THEN ReportedOf(a) \cup {Audit(a, d[3])} ELSE ReportedOf(a)
    BY <2>1 DEF Report, ReportedOf, Audit
  <2> QED BY <2>1, <2>2, <2>3, <2>4 DEF DecideMove, DecideQuiet, SameReports
<1>8. CASE DecisionTell(w)
  <2>1. PICK d \in {<<"approve.tell", "approved">>, <<"reject.tell", "rejected">>} :
           At(w, d[1]) /\ Report(w, "notice", d[2])
    BY <1>8 DEF DecisionTell
  <2>2. handler'[w].pc = "idle"
    BY <1>0, <1>8 DEF DecisionTell, Finish
  <2>3. SameStatus(a) /\ SameGrant(a) /\ SamePlaces(a)
    BY <1>8 DEF DecisionTell, SameStatus, SameGrant, SamePlaces
  <2>4. ReportedOf(a)' = IF handler[w].app = a THEN ReportedOf(a) \cup {Notice(a, d[2])} ELSE ReportedOf(a)
    BY <2>1 DEF Report, ReportedOf, Notice
  <2> QED BY <2>1, <2>2, <2>3, <2>4 DEF DecideMove, DecideQuiet, SameReports
<1> QED BY <1>1, <1>2, <1>3, <1>4, <1>5, <1>6, <1>7, <1>8 DEF Act, Step

LEMMA UnbornStep ==
    ASSUME IInv, NEW w \in Web, Act(w)
    PROVE  Unborn'
<1>1. Rows \subseteq Rows' /\ granted \subseteq granted'
  BY DEF Act, Fine, Grows
<1>2. ASSUME NEW a \in AppIds \ Rows'
      PROVE  ready'[a] = 0 /\ places'[a] = 0 /\ ReportedOf(a)' = {}
  <2>1. ready[a] = 0 /\ places[a] = 0 /\ ReportedOf(a) = {} /\ a \notin Rows
    BY <1>1 DEF IInv, Unborn
  <2>2. ~(handler[w].pc \in VerifyPCs \cup DecidePCs /\ handler[w].app = a)
    BY <2>1, NobodyOnNew
  <2>3. ready'[a] = ready[a]
    <3>1. CASE TellReviewers(w)
      BY <2>2, <3>1 DEF TellReviewers, At, VerifyPCs, IInv, TypeOK
    <3>2. CASE ~TellReviewers(w)
      BY <3>2 DEF Act, Arrive, Step, Crash, SubmitBegin, SetPasswordBegin, RejectBegin, ApproveBegin,
         SubmitLookup, SubmitUser, SubmitInsert, SubmitInvite, SetPasswordSave, VerifyFind, VerifySave,
         MarkNotified, ApproveGrant, ApprovePlace, DecisionSave, DecisionAudit, DecisionTell, outcome
    <3> QED BY <3>1, <3>2
  <2>4. places'[a] = places[a]
    <3>1. CASE ApprovePlace(w)
      BY <2>2, <3>1 DEF ApprovePlace, At, DecidePCs, IInv, TypeOK
    <3>2. CASE ~ApprovePlace(w)
      BY <3>2 DEF Act, Arrive, Step, Crash, SubmitBegin, SetPasswordBegin, RejectBegin, ApproveBegin,
         SubmitLookup, SubmitUser, SubmitInsert, SubmitInvite, SetPasswordSave, VerifyFind, VerifySave,
         MarkNotified, ApproveGrant, TellReviewers, DecisionSave, DecisionAudit, DecisionTell, outcome
    <3> QED BY <3>1, <3>2
  <2>5. ReportedOf(a)' = ReportedOf(a)
    <3>1. CASE DecisionAudit(w) \/ DecisionTell(w)
      <4>1. \E what, status : Report(w, what, status)
        BY <3>1 DEF DecisionAudit, DecisionTell
      <4>2. handler[w].app # a
        BY <2>2, <3>1 DEF DecisionAudit, DecisionTell, At, DecidePCs
      <4> QED BY <4>1, <4>2 DEF Report, ReportedOf
    <3>2. CASE ~(DecisionAudit(w) \/ DecisionTell(w))
      <4>1. UNCHANGED reported
        BY <3>2 DEF Act, Arrive, Step, Crash, SubmitBegin, SetPasswordBegin, RejectBegin,
           ApproveBegin, SubmitLookup, SubmitUser, SubmitInsert, SubmitInvite, SetPasswordSave,
           VerifyFind, VerifySave, MarkNotified, ApproveGrant, TellReviewers, DecisionSave,
           ApprovePlace, outcome
      <4> QED BY <4>1 DEF ReportedOf
    <3> QED BY <3>1, <3>2
  <2> QED BY <2>1, <2>3, <2>4, <2>5
<1>3. ASSUME NEW a \in Rows', apps'[a].status = "approved" PROVE a \in granted'
  <2>1. CASE a \notin Rows
    <3>1. Inserted(w, a)
      BY <2>1, Insertions
    <3>2. apps'[a].status = "pending"
      BY <3>1 DEF Inserted
    <3> QED BY <1>3, <3>2
  <2>2. CASE a \in Rows /\ apps[a].status = "approved"
    BY <1>1, <2>2 DEF IInv, Unborn
  <2>3. CASE a \in Rows /\ apps[a].status # "approved"
    <3>1. handler[w].app = a /\ At(w, "approve.save")
      <4>1. ~SameStatus(a)
        BY <1>3, <2>3 DEF SameStatus
      <4> QED BY <1>3, <2>3, <4>1, DecideMoves DEF DecideQuiet, DecideBegins, DecideMove
    <3>2. a \in granted
      BY <3>1 DEF At, IInv, HandlerHolds, Knows, GrantedPCs
    <3> QED BY <1>1, <3>2
  <2> QED BY <2>1, <2>2, <2>3
<1> QED BY <1>2, <1>3 DEF Unborn

LEMMA DecisionStep ==
    ASSUME IInv, NEW w \in Web, Act(w), NEW a \in Rows'
    PROVE  Decision(a)'
<1> USE DEF DecidePCs, At
<1> SUFFICES ASSUME Clean(<<"decide", a>>)'
             PROVE  /\ Settled(<<"decide", a>>)' => Done(a)'
                    /\ \A v \in Web : handler'[v].app = a => Stage(handler[v].pc, a)'
  BY DEF Decision
<1>0. /\ Clean(<<"decide", a>>)
      /\ \A v \in Web \ {w} : handler'[v] = handler[v]
      /\ \A v \in Web : <<"decide", a>> \in Subjects(handler[v])
                            <=> handler[v].pc \in DecidePCs /\ handler[v].app = a
      /\ \A v \in Web : <<"decide", a>> \in Subjects(handler'[v])
                            <=> handler'[v].pc \in DecidePCs /\ handler'[v].app = a
  BY SubjectsOf DEF Act, Clean, Fine, OthersStay
<1>00. \A v \in Web : ~(handler'[v].pc \in DecidePCs /\ handler'[v].app = a)
             => (handler'[v].app = a => Stage(handler[v].pc, a)')
  BY DEF Stage
<1>1. CASE a \notin Rows
  <2>1. Inserted(w, a)
    BY <1>1, Insertions
  <2>2. places'[a] = 0 /\ a \notin granted' /\ ReportedOf(a)' = {} /\ apps'[a].status = "pending"
    <3>1. a \in AppIds /\ UNCHANGED <<granted, places, reported>>
      BY <2>1 DEF Inserted, outcome
    <3>2. apps'[a].status = "pending"
      BY <2>1 DEF Inserted
    <3>3. a \notin granted /\ places[a] = 0 /\ ReportedOf(a) = {}
      BY <1>1, <3>1 DEF IInv, Unborn, TypeOK
    <3> QED BY <3>1, <3>2, <3>3 DEF ReportedOf
  <2>3. handler'[w].pc \notin DecidePCs
    BY <2>1 DEF Inserted, IInv, TypeOK, Handler
  <2>4. \A v \in Web : ~(handler'[v].pc \in DecidePCs /\ handler'[v].app = a)
    BY <1>0, <1>1, <2>3, NobodyOnNew
  <2>5. Done(a)'
    BY <2>2 DEF Done, Outcome, Untouched
  <2> QED BY <1>00, <2>4, <2>5
<1>2. CASE a \in Rows /\ DecideQuiet(w, a)
  <2>1. Decision(a)
    BY <1>2 DEF IInv
  <2>2. Done(a)' = Done(a)
    BY <1>2 DEF DecideQuiet, SameStatus, SameGrant, SamePlaces, SameReports, Done, Outcome, Served,
       Untouched, Audit, Notice
  <2>3. ASSUME NEW v \in Web, handler'[v].app = a, handler'[v].pc \in DecidePCs
        PROVE  Stage(handler[v].pc, a)'
    <3>1. v # w /\ handler'[v] = handler[v]
      BY <1>0, <1>2, <2>3 DEF DecideQuiet
    <3>2. Stage(handler[v].pc, a)
      BY <1>0, <2>1, <2>3, <3>1 DEF Decision
    <3> QED BY <1>2, <3>1, <3>2 DEF DecideQuiet, SameStatus, SameGrant, SamePlaces, SameReports, Stage,
               Served, Untouched, Audit
  <2>4. CASE handler[w].pc \in DecidePCs /\ handler[w].app = a
    <3>1. Crash(w)
      BY <1>2, <2>4 DEF DecideQuiet
    <3>2. handler[w].pc \in {"approve.grant", "reject.save"}
      BY <2>4, <3>1, DeathsAreNoted DEF Clean
    <3>3. Stage(handler[w].pc, a)
      BY <1>0, <2>1, <2>4 DEF Decision
    <3>4. Done(a)
      BY <3>2, <3>3 DEF Stage, Done, Outcome
    <3> QED BY <1>00, <2>2, <2>3, <3>4
  <2>5. CASE ~(handler[w].pc \in DecidePCs /\ handler[w].app = a)
    <3>1. Settled(<<"decide", a>>)' => Settled(<<"decide", a>>)
      BY <1>0, <2>5 DEF Settled
    <3> QED BY <1>0, <1>00, <2>1, <2>2, <2>3, <3>1 DEF Decision
  <2> QED BY <2>4, <2>5
<1>3. CASE a \in Rows /\ DecideBegins(w, a)
  <2>1. \A v \in Web \ {w} : ~(handler[v].pc \in DecidePCs /\ handler[v].app = a)
    <3> SUFFICES ASSUME NEW v \in Web, v # w
                 PROVE  ~(handler[v].pc \in DecidePCs /\ handler[v].app = a)
      OBVIOUS
    <3> QED BY <1>3, AloneAfter DEF DecideBegins
  <2>2. Settled(<<"decide", a>>)
    BY <1>0, <1>3, <2>1 DEF Settled, DecideBegins
  <2>3. Done(a) /\ apps[a].status = "pending"
    BY <1>0, <1>3, <2>2 DEF Decision, IInv, DecideBegins
  <2>4. Untouched(a) /\ ReportedOf(a) = {}
    BY <2>3 DEF Done, Outcome
  <2>5. Untouched(a)' /\ ReportedOf(a)' = {} /\ apps'[a].status = "pending"
    BY <1>3, <2>3, <2>4 DEF DecideBegins, SameStatus, SameGrant, SamePlaces, SameReports, Untouched
  <2>6. Stage(handler[w].pc, a)' /\ ~Settled(<<"decide", a>>)'
    BY <1>0, <1>3, <2>5 DEF DecideBegins, Stage, Settled
  <2> QED BY <1>0, <1>00, <2>1, <2>6
<1>4. CASE a \in Rows /\ DecideMove(w, a)
  <2>0. /\ handler[w].pc \in DecidePCs /\ handler[w].app = a /\ places[a] \in 0..2
        /\ handler'[w].pc = "idle" \/ (handler'[w].pc \in DecidePCs /\ handler'[w].app = a)
    BY <1>4 DEF DecideMove, IInv, TypeOK
  <2>1. \A v \in Web \ {w} : ~(handler[v].pc \in DecidePCs /\ handler[v].app = a)
    <3> SUFFICES ASSUME NEW v \in Web, v # w
                 PROVE  ~(handler[v].pc \in DecidePCs /\ handler[v].app = a)
      OBVIOUS
    <3> QED BY <1>0, <1>4, <2>0, Alone
  <2>2. Stage(handler[w].pc, a)
    BY <1>0, <1>4, <2>0 DEF IInv, Decision
  <2>3. handler'[w].pc = "idle" => Done(a)'
    <3> SUFFICES ASSUME handler'[w].pc = "idle" PROVE Done(a)'
      OBVIOUS
    <3>1. CASE handler[w].pc = "approve.grant"
      BY <1>4, <2>2, <3>1 DEF DecideMove, Stage, Done, Outcome, Untouched, SameStatus, SameGrant,
         SamePlaces, SameReports
    <3>2. CASE handler[w].pc = "approve.tell"
      <4>1. apps'[a].status = "approved" /\ ReportedOf(a)' = {Audit(a, "approved"), Notice(a, "approved")}
        BY <1>4, <2>2, <3>2 DEF DecideMove, Stage, SameStatus
      <4>2. Served(a)'
        BY <1>4, <2>2, <3>2 DEF DecideMove, Stage, Served, SameGrant, SamePlaces
      <4> QED BY <4>1, <4>2 DEF Done, Outcome, Audit, Notice
    <3>3. CASE handler[w].pc = "reject.tell"
      <4>1. apps'[a].status = "rejected" /\ ReportedOf(a)' = {Audit(a, "rejected"), Notice(a, "rejected")}
        BY <1>4, <2>2, <3>3 DEF DecideMove, Stage, SameStatus
      <4>2. Untouched(a)'
        BY <1>4, <2>2, <3>3 DEF DecideMove, Stage, Untouched, SameGrant, SamePlaces
      <4> QED BY <4>1, <4>2 DEF Done, Outcome, Audit, Notice
    <3> QED BY <1>4, <3>1, <3>2, <3>3 DEF DecideMove
  <2>4. handler'[w].pc # "idle" => Stage(handler[w].pc, a)'
    <3> SUFFICES ASSUME handler'[w].pc # "idle" PROVE Stage(handler[w].pc, a)'
      OBVIOUS
    <3>1. CASE handler[w].pc = "approve.grant"
      <4>1. apps'[a].status = "pending" /\ a \in granted' /\ places'[a] = 0 /\ ReportedOf(a)' = {}
            /\ handler'[w].pc \in {"approve.place", "approve.save"}
        BY <1>4, <2>2, <3>1 DEF DecideMove, Stage, Untouched, SameStatus, SamePlaces, SameReports
      <4> QED BY <4>1 DEF Stage, Served
    <3>2. CASE handler[w].pc = "approve.place"
      <4>1. apps'[a].status = "pending" /\ a \in granted' /\ ReportedOf(a)' = {}
            /\ handler'[w].pc = "approve.save"
        BY <1>4, <2>2, <3>2 DEF DecideMove, Stage, SameStatus, SameGrant, SameReports
      <4>2. places[a] = 0 /\ places'[a] = IF places[a] < 2 THEN places[a] + 1 ELSE places[a]
        BY <1>4, <2>2, <3>2 DEF DecideMove, Stage
      <4>3. places'[a] = 1
        BY <4>2
      <4>4. apps'[a].place
        BY <1>4, <2>0, <3>2 DEF DecideMove, IInv, HandlerHolds, Knows
      <4> QED BY <4>1, <4>3, <4>4 DEF Stage, Served
    <3>3. CASE handler[w].pc = "approve.save"
      BY <1>4, <2>2, <3>3 DEF DecideMove, Stage, Served, SameGrant, SamePlaces, SameReports
    <3>4. CASE handler[w].pc = "reject.save"
      BY <1>4, <2>2, <3>4 DEF DecideMove, Stage, Untouched, SameGrant, SamePlaces, SameReports
    <3>5. CASE handler[w].pc = "approve.audit"
      <4>1. apps'[a].status = "approved" /\ ReportedOf(a)' = {Audit(a, "approved")}
            /\ handler'[w].pc = "approve.tell"
        BY <1>4, <2>2, <3>5 DEF DecideMove, Stage, SameStatus
      <4>2. Served(a)'
        BY <1>4, <2>2, <3>5 DEF DecideMove, Stage, Served, SameGrant, SamePlaces
      <4> QED BY <4>1, <4>2 DEF Stage, Audit
    <3>6. CASE handler[w].pc = "reject.audit"
      <4>1. apps'[a].status = "rejected" /\ ReportedOf(a)' = {Audit(a, "rejected")}
            /\ handler'[w].pc = "reject.tell"
        BY <1>4, <2>2, <3>6 DEF DecideMove, Stage, SameStatus
      <4>2. Untouched(a)'
        BY <1>4, <2>2, <3>6 DEF DecideMove, Stage, Untouched, SameGrant, SamePlaces
      <4> QED BY <4>1, <4>2 DEF Stage, Audit
    <3> QED BY <1>4, <3>1, <3>2, <3>3, <3>4, <3>5, <3>6 DEF DecideMove
  <2> QED BY <1>0, <1>00, <2>0, <2>1, <2>3, <2>4 DEF Settled
<1> QED BY <1>1, <1>2, <1>3, <1>4, DecideMoves

LEMMA RecordsOwedStep ==
    ASSUME IInv, NEW w \in Web, Act(w), NEW a \in Rows'
    PROVE  RecordsOwed(a)'
<1> USE DEF At
<1> PICK status : status = apps'[a].status
  OBVIOUS
<1> SUFFICES ASSUME <<"death", <<"decide", a>>>> \notin spoiled', status # "pending"
             PROVE  /\ \/ Audit(a, status) \in reported'
                       \/ \E v \in Web : handler'[v].app = a /\ handler'[v].pc = AuditPC(status)
                    /\ \/ Notice(a, status) \in reported'
                       \/ \E v \in Web : /\ handler'[v].app = a
                                         /\ handler'[v].pc \in {AuditPC(status), TellPC(status)}
  BY DEF RecordsOwed, Audit, Notice
<1>0. /\ <<"death", <<"decide", a>>>> \notin spoiled
      /\ \A v \in Web \ {w} : handler'[v] = handler[v]
      /\ reported \subseteq reported'
  <2>1. reported \subseteq reported'
    BY DEF Act, Arrive, Step, Crash, SubmitBegin, SetPasswordBegin, RejectBegin, ApproveBegin,
       SubmitLookup, SubmitUser, SubmitInsert, SubmitInvite, SetPasswordSave, VerifyFind, VerifySave,
       MarkNotified, ApproveGrant, TellReviewers, DecisionSave, ApprovePlace, DecisionAudit,
       DecisionTell, Report, outcome
  <2> QED BY <2>1 DEF Act, Fine, OthersStay
<1>1. a \in Rows
  <2> SUFFICES ASSUME a \notin Rows PROVE FALSE
    OBVIOUS
  <2>1. Inserted(w, a)
    BY Insertions
  <2>2. apps'[a].status = "pending"
    BY <2>1 DEF Inserted
  <2> QED BY <2>2
<1>2. status \in {"approved", "rejected"}
  BY DEF Act, TypeOK, AppRow, Status
<1>3. AuditPC(status) \in DecidePCs \ {"approve.grant", "reject.save"}
      /\ TellPC(status) \in DecidePCs \ {"approve.grant", "reject.save"}
  BY DEF AuditPC, TellPC, DecidePCs
(* Where the status stays, whoever owed a record owes it still, unless it is w. *)
<1>4. ASSUME SameStatus(a),
             handler[w].app = a => handler[w].pc \notin {AuditPC(status), TellPC(status)}
      PROVE  /\ \/ Audit(a, status) \in reported'
                \/ \E v \in Web : handler'[v].app = a /\ handler'[v].pc = AuditPC(status)
             /\ \/ Notice(a, status) \in reported'
                \/ \E v \in Web : /\ handler'[v].app = a
                                  /\ handler'[v].pc \in {AuditPC(status), TellPC(status)}
  <2>1. RecordsOwed(a) /\ apps[a].status = status
    BY <1>1, <1>4 DEF IInv, SameStatus
  <2>2. \A v \in Web : handler[v].app = a /\ handler[v].pc \in {AuditPC(status), TellPC(status)}
                           => handler'[v] = handler[v]
    BY <1>0, <1>4
  <2> QED BY <1>0, <2>1, <2>2 DEF RecordsOwed
<1>5. CASE DecideQuiet(w, a)
  <2>1. ~(handler[w].app = a /\ handler[w].pc \in {AuditPC(status), TellPC(status)})
    BY <1>3, <1>5, DeathsAreNoted DEF DecideQuiet
  <2> QED BY <1>4, <1>5, <2>1 DEF DecideQuiet
<1>6. CASE DecideBegins(w, a)
  BY <1>3, <1>4, <1>6 DEF DecideBegins, DecidePCs
<1>7. CASE DecideMove(w, a)
  <2>1. CASE handler[w].pc \in {"approve.grant", "approve.place"}
    <3>1. SameStatus(a)
      BY <1>7, <2>1 DEF DecideMove
    <3>2. handler[w].pc \notin {AuditPC(status), TellPC(status)}
      BY <2>1 DEF AuditPC, TellPC
    <3> QED BY <1>4, <3>1, <3>2
  <2>2. CASE handler[w].pc \in {"approve.save", "reject.save"}
    <3>1. handler'[w].app = a /\ handler'[w].pc = AuditPC(status)
      BY <1>7, <2>2 DEF DecideMove, AuditPC
    <3> QED BY <3>1
  <2>3. CASE handler[w].pc \in {"approve.audit", "reject.audit"}
    <3>1. PICK d \in {<<"approve.audit", "approve.tell", "approved">>,
                      <<"reject.audit", "reject.tell", "rejected">>} :
             /\ handler[w].pc = d[1] /\ handler'[w].pc = d[2] /\ handler'[w].app = a
             /\ ReportedOf(a)' = ReportedOf(a) \cup {Audit(a, d[3])} /\ SameStatus(a)
      BY <1>7, <2>3 DEF DecideMove
    <3>2. CASE status = d[3]
      <4>1. Audit(a, status) \in reported'
        BY <3>1, <3>2 DEF ReportedOf
      <4>2. handler'[w].pc = TellPC(status)
        BY <3>1, <3>2 DEF TellPC
      <4> QED BY <3>1, <4>1, <4>2
    <3>3. CASE status # d[3]
      <4>1. handler[w].pc \notin {AuditPC(status), TellPC(status)}
        BY <1>2, <3>1, <3>3 DEF AuditPC, TellPC
      <4> QED BY <1>4, <3>1, <4>1
    <3> QED BY <3>2, <3>3
  <2>4. CASE handler[w].pc \in {"approve.tell", "reject.tell"}
    <3>1. PICK d \in {<<"approve.tell", "approved">>, <<"reject.tell", "rejected">>} :
             /\ handler[w].pc = d[1] /\ handler[w].app = a
             /\ ReportedOf(a)' = ReportedOf(a) \cup {Notice(a, d[2])} /\ SameStatus(a)
      BY <1>7, <2>4 DEF DecideMove
    <3>2. CASE status = d[2]
      <4>1. Notice(a, status) \in reported'
        BY <3>1, <3>2 DEF ReportedOf
      <4>2. RecordsOwed(a) /\ apps[a].status = status
        BY <1>1, <3>1 DEF IInv, SameStatus
      <4>3. Audit(a, status) \in reported
            \/ \E v \in Web : handler[v].app = a /\ handler[v].pc = AuditPC(status)
        BY <1>0, <4>2 DEF RecordsOwed
      <4>4. handler[w].pc # AuditPC(status)
        BY <2>4 DEF AuditPC
      <4>5. Audit(a, status) \in reported'
            \/ \E v \in Web : handler'[v].app = a /\ handler'[v].pc = AuditPC(status)
        BY <1>0, <4>3, <4>4
      <4> QED BY <4>1, <4>5
    <3>3. CASE status # d[2]
      <4>1. handler[w].pc \notin {AuditPC(status), TellPC(status)}
        BY <1>2, <3>1, <3>3 DEF AuditPC, TellPC
      <4> QED BY <1>4, <3>1, <4>1
    <3> QED BY <3>2, <3>3
  <2> QED BY <1>7, <2>1, <2>2, <2>3, <2>4 DEF DecideMove
<1> QED BY <1>1, <1>5, <1>6, <1>7, DecideMoves

-----------------------------------------------------------------------------
(* Links.                                                                  *)

(* Nothing becomes pending again. *)
LEMMA PendingBefore ==
    ASSUME IInv, NEW w \in Web, Act(w), NEW a \in Rows, apps'[a].status = "pending"
    PROVE  a \in Pending /\ apps'[a].email = apps[a].email
<1>1. SameStatus(a)
  BY DecideMoves DEF DecideQuiet, DecideBegins, DecideMove
<1> QED BY <1>1 DEF SameStatus, Pending, Act, Fine, Grows

(* Two pending rows of one spelling never come to be. *)
LEMMA OnePerSpellingStep ==
    ASSUME IInv, NEW w \in Web, Act(w)
    PROVE  OnePerSpelling'
<1>1. \A a \in Rows : apps'[a].status = "pending" => a \in Pending /\ apps'[a].email = apps[a].email
  BY PendingBefore
<1>2. ASSUME NEW a \in Rows', a \notin Rows PROVE Inserted(w, a)
  BY <1>2, Insertions
<1> SUFFICES ASSUME NEW a \in Rows', NEW b \in Rows', apps'[a].status = "pending",
                    apps'[b].status = "pending", apps'[a].email = apps'[b].email
             PROVE  a = b
  BY DEF OnePerSpelling, Pending
<1>3. CASE a \in Rows /\ b \in Rows
  BY <1>1, <1>3 DEF IInv, OnePerSpelling
<1>4. ASSUME NEW x \in Rows', NEW y \in Rows', x \notin Rows, y \in Rows,
             apps'[y].status = "pending", apps'[x].email = apps'[y].email
      PROVE  FALSE
  <2>1. y \in Pending /\ apps'[y].email = apps[y].email
    BY <1>1, <1>4
  <2>2. Inserted(w, x)
    BY <1>2, <1>4
  <2>3. apps'[x].email = handler[w].email
    BY <2>2 DEF Inserted
  <2>4. apps[y].email # handler[w].email
    BY <2>1, <2>2 DEF Inserted
  <2> QED BY <1>4, <2>1, <2>3, <2>4
<1>5. CASE a \notin Rows /\ b \notin Rows
  <2>1. Rows' = Rows \cup {a}
    BY <1>2, <1>5 DEF Inserted
  <2> QED BY <1>5, <2>1
<1> QED BY <1>3, <1>4, <1>5

(* What a process does next on the way to a link. *)
LEMMA NextOfLink ==
    ASSUME NEW w \in Web, Act(w), ~Crash(w)
    PROVE  /\ At(w, "submit.invite") => SubmitInvite(w)
           /\ At(w, "verify.find") => VerifyFind(w)
           /\ At(w, "verify.save") => VerifySave(w)
  BY DEF Act, At, Arrive, Step, SubmitBegin, SetPasswordBegin, RejectBegin, ApproveBegin,
     SubmitLookup, SubmitUser, SubmitInsert, SubmitInvite, SetPasswordSave, VerifyFind, VerifySave,
     MarkNotified, ApproveGrant, TellReviewers, DecisionSave, ApprovePlace, DecisionAudit, DecisionTell

(* A link is used up by a new password only, which goes on to verify. *)
LEMMA LinksUsed ==
    ASSUME IInv, NEW w \in Web, Act(w), NEW u \in Users, link[u] # "none",
           link'[u] = "none"
    PROVE  handler'[w].user = u /\ At(w, "verify.find")'
<1>1. SetPasswordSave(w)
  <2>1. ~SubmitInvite(w)
    BY DEF SubmitInvite, IInv, TypeOK
  <2> QED BY <2>1 DEF Act, Arrive, Step, Crash, SubmitBegin, SetPasswordBegin, RejectBegin,
             ApproveBegin, SubmitLookup, SubmitUser, SubmitInsert, VerifyFind, VerifySave,
             MarkNotified, ApproveGrant, TellReviewers, DecisionSave, ApprovePlace, DecisionAudit,
             DecisionTell, people
<1>2. handler[w].user = u
  BY <1>1 DEF SetPasswordSave, IInv, TypeOK
<1> QED BY <1>1, <1>2 DEF SetPasswordSave, Goto, Become, At, IInv, TypeOK, Handler

LEMMA LinkOwedStep ==
    ASSUME IInv, NEW w \in Web, Act(w), NEW a \in Rows'
    PROVE  LinkOwed(a)'
<1> PICK u : u = apps'[a].user
  OBVIOUS
<1> DEFINE Owes(v) == /\ handler[v].user = u
                      /\ \/ handler[v].pc \in {"submit.invite", "verify.find"}
                         \/ At(v, "verify.save") /\ handler[v].app = a
<1> SUFFICES ASSUME apps'[a].status = "pending", ~apps'[a].verified,
                    <<"death", <<"link", u>>>> \notin spoiled',
                    \A b \in Rows' : apps'[b].user = u => apps'[b].email = apps'[a].email
             PROVE  link'[u] # "none" \/ \E v \in Web : Owes(v)'
  BY DEF LinkOwed
<1>0. \A v \in Web \ {w} : handler'[v] = handler[v]
  BY DEF Act, Fine, OthersStay
<1>1. CASE a \notin Rows
  <2>1. Inserted(w, a)
    BY <1>1, Insertions
  <2>2. ~handler[w].verified /\ handler[w].user = u
    BY <2>1 DEF Inserted
  <2>3. handler'[w].pc = "submit.invite"
    <3>1. handler'[w].pc = IF handler[w].verified THEN "submit.tell" ELSE "submit.invite"
      BY <2>1 DEF Inserted, IInv, TypeOK, Handler
    <3> QED BY <2>2, <3>1
  <2>4. handler'[w].user = u
    <3>1. handler'[w].user = handler[w].user
      BY <2>1 DEF Inserted, IInv, TypeOK, Handler
    <3> QED BY <2>2, <3>1
  <2> QED BY <2>3, <2>4
<1>2. CASE a \in Rows
  <2>1. a \in Pending /\ ~apps[a].verified /\ u = apps[a].user /\ u \in Users
    BY <1>2, PendingBefore DEF Act, Fine, Grows, Known, IInv, TypeOK
  <2>2. <<"death", <<"link", u>>>> \notin spoiled
    BY DEF Act
  <2>3. \A b \in Rows : apps[b].user = u => apps[b].email = apps[a].email
    BY <1>2 DEF Act, Fine, Grows
  <2>4. LinkOwed(a)
    BY <1>2 DEF IInv
  <2>5. link[u] # "none" \/ \E v \in Web : Owes(v)
    BY <2>1, <2>2, <2>3, <2>4 DEF LinkOwed, Pending
  <2>6. CASE link[u] # "none"
    <3>1. link'[u] # "none" \/ (handler'[w].user = u /\ handler'[w].pc = "verify.find")
      BY <2>1, <2>6, LinksUsed DEF At
    <3> QED BY <3>1
  <2>7. ASSUME NEW v \in Web, v # w, Owes(v) PROVE Owes(v)'
    BY <1>0, <2>7 DEF At
  <2>8. CASE Owes(w)
    <3>1. ~Crash(w)
      BY <2>8, DeathsAreNoted DEF At, LinkPCs
    <3>2. CASE At(w, "submit.invite")
      <4>1. SubmitInvite(w)
        BY <3>1, <3>2, NextOfLink
      <4> QED BY <2>1, <2>8, <4>1 DEF SubmitInvite, IInv, TypeOK
    <3>3. CASE At(w, "verify.find")
      <4>1. VerifyFind(w)
        BY <3>1, <3>3, NextOfLink
      <4>2. handler[w].user = u
        BY <2>8
      <4>3. a \in Unverified(u)
        BY <2>1 DEF Unverified
      <4>4. PICK b \in Unverified(u) : Become(w, [handler[w] EXCEPT !.pc = "verify.save", !.app = b])
        BY <4>1, <4>2, <4>3 DEF VerifyFind
      <4>5. b = a
        <5>1. b \in Pending /\ apps[b].user = u
          BY DEF Unverified
        <5> QED BY <2>1, <2>3, <5>1 DEF IInv, OnePerSpelling, Pending
      <4>6. handler'[w].pc = "verify.save" /\ handler'[w].app = a /\ handler'[w].user = u
        BY <4>2, <4>4, <4>5 DEF Become, IInv, TypeOK, Handler
      <4> QED BY <4>6 DEF At
    <3>4. CASE At(w, "verify.save") /\ handler[w].app = a
      <4>1. VerifySave(w)
        BY <3>1, <3>4, NextOfLink
      <4>2. apps'[a].verified
        BY <1>2, <3>4, <4>1 DEF VerifySave, IInv, TypeOK, Rows, AppRow
      <4> QED BY <4>2
    <3> QED BY <2>8, <3>2, <3>3, <3>4 DEF At
  <2> QED BY <2>5, <2>6, <2>7, <2>8
<1> QED BY <1>1, <1>2

(* A password that is replaced belongs to somebody verified by then.       *)
LEMMA Replacing ==
    ASSUME IInv, NEW w \in Web, Act(w), NEW u \in Known
    PROVE  accounts'[u] = accounts[u] \/ Replaced(u)'
<1>0. u \in Users /\ accounts[u] \in Account
  BY DEF Known, IInv, TypeOK
<1>1. CASE SubmitUser(w)
  BY <1>0, <1>1 DEF SubmitUser, IInv, TypeOK
<1>2. CASE SetPasswordSave(w)
  <2> PICK x : x = handler[w].user
    OBVIOUS
  <2>1. CASE x = u
    <3>1. accounts'[u] = [email |-> accounts[u].email, verified |-> TRUE,
                          password |-> accounts[u].password + 1]
      BY <1>0, <1>2, <2>1 DEF SetPasswordSave, IInv, TypeOK
    <3>2. accounts[u].password \in Nat
      BY <1>0 DEF Account
    <3> QED BY <3>1, <3>2 DEF Replaced
  <2>2. CASE x # u
    BY <1>0, <1>2, <2>2 DEF SetPasswordSave, IInv, TypeOK
  <2> QED BY <2>1, <2>2
<1>3. CASE ~SubmitUser(w) /\ ~SetPasswordSave(w)
  BY <1>3 DEF Act, Arrive, Step, Crash, SubmitBegin, SetPasswordBegin, RejectBegin, ApproveBegin,
     SubmitLookup, SubmitInsert, SubmitInvite, VerifyFind, VerifySave, TellReviewers, MarkNotified,
     ApproveGrant, ApprovePlace, DecisionSave, DecisionAudit, DecisionTell, people
<1> QED BY <1>1, <1>2, <1>3

(* Where a submission starts to depend on its snapshot, it is new or kept. *)
LEMMA SnapshotTaken ==
    ASSUME IInv, NEW w \in Web, Act(w)
    PROVE  Snapshot(handler[w])'
<1> PICK h : h = handler[w]
  OBVIOUS
<1>0. h \in Handler /\ Snapshot(h) /\ Knows(h)
  BY DEF IInv, TypeOK, StaleMeansReplaced, HandlerHolds
<1>1. ASSUME NEW g, Become(w, g) PROVE handler'[w] = g
  BY <1>1 DEF Become, IInv, TypeOK
<1>2. CASE SubmitLookup(w)
  <2>1. CASE Become(w, [h EXCEPT !.pc = "submit.insert", !.verified = TRUE,
                                 !.email = accounts[h.user].email])
    <3>1. handler'[w].pc = "submit.insert" /\ handler'[w].verified = TRUE
      BY <1>0, <1>1, <2>1 DEF Handler
    <3> QED BY <3>1 DEF Snapshot
  <2>2. ASSUME NEW u \in Known,
               Become(w, [h EXCEPT !.pc = "submit.insert", !.user = u,
                                   !.verified = accounts[u].verified,
                                   !.password = accounts[u].password])
        PROVE  Snapshot(handler[w])'
    <3>1. /\ handler'[w].pc = "submit.insert" /\ handler'[w].user = u
          /\ handler'[w].password = accounts[u].password
      BY <1>0, <1>1, <2>2 DEF Handler
    <3>2. accounts'[u] = accounts[u]
      BY <1>2 DEF SubmitLookup, people
    <3> QED BY <3>1, <3>2 DEF Snapshot
  <2>3. CASE Goto(w, "submit.user")
    <3>1. handler'[w].pc = "submit.user"
      BY <1>0, <1>1, <2>3 DEF Goto, Handler
    <3> QED BY <3>1 DEF Snapshot
  <2> QED BY <1>2, <2>1, <2>2, <2>3 DEF SubmitLookup
<1>3. CASE SubmitUser(w)
  <2>1. ASSUME NEW u \in Users \ Known,
               accounts' = [accounts EXCEPT ![u] = [email |-> h.email, password |-> 0,
                                                    verified |-> FALSE]],
               Become(w, [h EXCEPT !.pc = "submit.insert", !.user = u, !.password = 0])
        PROVE  Snapshot(handler[w])'
    <3>1. /\ handler'[w].pc = "submit.insert" /\ handler'[w].user = u
          /\ handler'[w].password = 0
      BY <1>0, <1>1, <2>1 DEF Handler
    <3>2. accounts'[u].password = 0
      BY <2>1 DEF IInv, TypeOK
    <3> QED BY <3>1, <3>2 DEF Snapshot
  <2>2. CASE Finish(w)
    BY <1>1, <2>2 DEF Finish, Snapshot, Idle
  <2> QED BY <1>3, <2>1, <2>2 DEF SubmitUser
<1>4. CASE SubmitInsert(w)
  <2>1. CASE Finish(w)
    BY <1>1, <2>1 DEF Finish, Snapshot, Idle
  <2>2. CASE ~Finish(w)
    <3> PICK new : new = Cardinality(Rows) + 1
      OBVIOUS
    <3>1. /\ Become(w, [h EXCEPT !.pc = IF h.verified THEN "submit.tell" ELSE "submit.invite",
                                 !.app = new])
          /\ UNCHANGED accounts /\ h.pc = "submit.insert"
      BY <1>4, <2>2 DEF SubmitInsert, people, At
    <3>2. /\ handler'[w].pc = IF h.verified THEN "submit.tell" ELSE "submit.invite"
          /\ handler'[w].user = h.user /\ handler'[w].password = h.password
          /\ handler'[w].verified = h.verified
      BY <1>0, <1>1, <3>1 DEF Handler
    <3> QED BY <1>0, <3>1, <3>2 DEF Snapshot, Replaced
  <2> QED BY <2>1, <2>2
<1>5. CASE ~SubmitLookup(w) /\ ~SubmitUser(w) /\ ~SubmitInsert(w)
  <2>1. handler'[w].pc \notin {"submit.insert", "submit.invite"}
    <3>1. CASE Arrive(w)
      BY <3>1, ArrivesAt DEF IInv
    <3>2. CASE Crash(w) \/ SubmitInvite(w)
      BY <1>1, <3>2 DEF Crash, SubmitInvite, Finish, Idle
    <3>3. CASE SetPasswordSave(w) \/ VerifySave(w)
      BY <1>0, <1>1, <3>3 DEF SetPasswordSave, VerifySave, Goto, Handler
    <3>7. CASE VerifyFind(w)
      <4>1. CASE Finish(w)
        BY <1>1, <4>1 DEF Finish, Idle
      <4>2. ASSUME NEW a, Become(w, [h EXCEPT !.pc = "verify.save", !.app = a])
            PROVE  handler'[w].pc = "verify.save"
        BY <1>0, <1>1, <4>2 DEF Handler
      <4> QED BY <3>7, <4>1, <4>2 DEF VerifyFind
    <3>4. CASE TellReviewers(w) \/ MarkNotified(w)
      BY <1>0, <1>1, <3>4 DEF TellReviewers, MarkNotified, Goto, Finish, Idle, Handler
    <3>5. CASE ApproveGrant(w) \/ ApprovePlace(w)
      BY <1>0, <1>1, <3>5 DEF ApproveGrant, ApprovePlace, Goto, Finish, Idle, Handler
    <3>6. CASE DecisionSave(w) \/ DecisionAudit(w) \/ DecisionTell(w)
      BY <1>0, <1>1, <3>6 DEF DecisionSave, DecisionAudit, DecisionTell, Goto, Finish, Idle, Handler
    <3> QED BY <1>5, <3>1, <3>2, <3>3, <3>4, <3>5, <3>6, <3>7 DEF Act, Step
  <2> QED BY <2>1 DEF Snapshot
<1> QED BY <1>2, <1>3, <1>4, <1>5

LEMMA StaleStep ==
    ASSUME IInv, NEW w \in Web, Act(w)
    PROVE  StaleMeansReplaced'
<1>1. \A u \in Known : accounts'[u] = accounts[u] \/ Replaced(u)'
  BY Replacing
<1>2. \A u \in Known : Replaced(u) => Replaced(u)'
  BY <1>1 DEF Replaced
<1>3. ASSUME NEW v \in Web, v # w PROVE Snapshot(handler[v])'
  <2>1. handler'[v] = handler[v]
    BY <1>3 DEF Act, Fine, OthersStay
  <2>2. Snapshot(handler[v])
    BY DEF IInv, StaleMeansReplaced
  <2>3. handler[v].pc \in {"submit.insert", "submit.invite"} => handler[v].user \in Known
    BY DEF IInv, HandlerHolds, Knows, LinkPCs
  <2> QED BY <1>1, <1>2, <2>1, <2>2, <2>3 DEF Snapshot
<1>4. ASSUME NEW u \in Users, link'[u] = "stale" PROVE Replaced(u)'
  <2>1. CASE link[u] = "stale"
    <3>1. u \in Known
      BY <2>1 DEF IInv, HandlerHolds
    <3> QED BY <1>2, <2>1, <3>1 DEF IInv, StaleMeansReplaced
  <2>2. CASE link[u] # "stale"
    <3>1. SubmitInvite(w)
      <4>1. ~SetPasswordSave(w)
        BY <1>4, <2>2 DEF SetPasswordSave, IInv, TypeOK
      <4> QED BY <1>4, <2>2, <4>1 DEF Act, Arrive, Step, Crash, SubmitBegin, SetPasswordBegin,
                 RejectBegin, ApproveBegin, SubmitLookup, SubmitUser, SubmitInsert, VerifyFind,
                 VerifySave, MarkNotified, ApproveGrant, TellReviewers, DecisionSave, ApprovePlace,
                 DecisionAudit, DecisionTell, people
    <3>2. handler[w].user = u /\ handler[w].password # accounts[u].password
      BY <1>4, <2>2, <3>1 DEF SubmitInvite, IInv, TypeOK
    <3>3. Replaced(u)
      BY <3>1, <3>2 DEF SubmitInvite, At, IInv, StaleMeansReplaced, Snapshot
    <3> QED BY <3>1, <3>3 DEF SubmitInvite, Replaced
  <2> QED BY <2>1, <2>2
<1> QED BY <1>3, <1>4, SnapshotTaken DEF StaleMeansReplaced

(* A link that runs out leaves nobody without one that was sent.           *)
LEMMA ExpiryStep ==
    ASSUME IInv, NEW u \in Users, LinkExpires(u)
    PROVE  IInv'
<1> USE DEF IInv, Rows
<1>0. UNCHANGED <<accounts, apps, granted, places, ready, reported, handler, spoiled>>
  BY DEF LinkExpires, outcome
<1>1. \A v \in Users : link'[v] = link[v] \/ (link[v] = "works" /\ link'[v] = "expired")
  BY DEF LinkExpires, TypeOK
<1>2. link' \in [Users -> Link]
  BY DEF LinkExpires, TypeOK, Link
<1>3. TypeOK' /\ OverlapSeen'
  BY <1>0, <1>2 DEF TypeOK, OverlapSeen, Known
<1>4. HandlerHolds'
  BY <1>0, <1>1 DEF HandlerHolds, Knows, Known
<1>5. Unborn' /\ GrantsAreVerified' /\ OnePerSpelling'
  BY <1>0 DEF Unborn, GrantsAreVerified, OnePerSpelling, Pending, ReportedOf
<1>6. StaleMeansReplaced'
  BY <1>0, <1>1 DEF StaleMeansReplaced, Snapshot, Replaced
<1>7. ASSUME NEW a \in Rows
      PROVE  Verification(a)' /\ NoticeOwed(a)' /\ Decision(a)' /\ RecordsOwed(a)' /\ LinkOwed(a)'
  <2>1. Verification(a)'
    BY <1>0 DEF Verification, Clean, Settled, Fresh, Proven, Told, Marked, At
  <2>2. NoticeOwed(a)'
    BY <1>0 DEF NoticeOwed
  <2>3. Decision(a)'
    BY <1>0 DEF Decision, Clean, Settled, Done, Stage, Outcome, Served, Untouched, Audit, Notice, ReportedOf
  <2>4. RecordsOwed(a)'
    BY <1>0 DEF RecordsOwed, Audit, Notice, AuditPC, TellPC, At
  <2>5. LinkOwed(a)'
    <3>1. apps[a].user \in Users
      BY DEF TypeOK, Known
    <3>2. link[apps[a].user] # "none" => link'[apps[a].user] # "none"
      BY <1>1, <3>1
    <3>3. LinkOwed(a)
      OBVIOUS
    <3> QED BY <1>0, <3>2, <3>3 DEF LinkOwed, At
  <2> QED BY <2>1, <2>2, <2>3, <2>4, <2>5
<1> QED BY <1>0, <1>3, <1>4, <1>5, <1>6, <1>7

-----------------------------------------------------------------------------
LEMMA StepIInv == IInv /\ [Next]_vars => IInv'
<1> SUFFICES ASSUME IInv, [Next]_vars PROVE IInv'
  OBVIOUS
<1>1. CASE UNCHANGED vars
  <2> USE <1>1 DEF vars, IInv, Rows
  <2>1. TypeOK' /\ HandlerHolds' /\ OverlapSeen'
    BY DEF TypeOK, HandlerHolds, Knows, OverlapSeen, Known
  <2>2. Unborn' /\ GrantsAreVerified' /\ OnePerSpelling'
    BY DEF Unborn, GrantsAreVerified, OnePerSpelling, Pending, ReportedOf
  <2>4. StaleMeansReplaced'
    BY DEF StaleMeansReplaced, Snapshot, Replaced
  <2>3. ASSUME NEW a \in Rows
        PROVE  Verification(a)' /\ NoticeOwed(a)' /\ Decision(a)' /\ RecordsOwed(a)' /\ LinkOwed(a)'
    <3>1. Verification(a)'
      BY DEF Verification, Clean, Settled, Fresh, Proven, Told, Marked, At
    <3>2. NoticeOwed(a)'
      BY DEF NoticeOwed
    <3>3. Decision(a)'
      BY DEF Decision, Clean, Settled, Done, Stage, Outcome, Served, Untouched, Audit, Notice, ReportedOf
    <3>4. RecordsOwed(a)'
      BY DEF RecordsOwed, Audit, Notice, AuditPC, TellPC, At
    <3>5. LinkOwed(a)'
      BY DEF LinkOwed, At
    <3> QED BY <3>1, <3>2, <3>3, <3>4, <3>5
  <2> QED BY <2>1, <2>2, <2>3, <2>4
<1>2. ASSUME NEW w \in Web, ((Arrive(w) \/ Step(w)) /\ spoiled' = spoiled \cup Overlap') \/ Crash(w)
      PROVE  IInv'
  <2>1. Act(w)
    BY <1>2, ActFacts DEF IInv
  <2>2. TypeOK' /\ HandlerHolds' /\ OverlapSeen'
    BY <2>1 DEF Act
  <2>3. Unborn' /\ GrantsAreVerified' /\ OnePerSpelling'
    BY <2>1, UnbornStep, GrantsStep, OnePerSpellingStep
  <2>4. \A a \in Rows' : Verification(a)' /\ NoticeOwed(a)' /\ Decision(a)' /\ RecordsOwed(a)' /\ LinkOwed(a)'
    BY <2>1, VerificationStep, NoticeOwedStep, DecisionStep, RecordsOwedStep, LinkOwedStep
  <2>5. StaleMeansReplaced'
    BY <2>1, StaleStep
  <2> QED BY <2>2, <2>3, <2>4, <2>5 DEF IInv
<1> QED BY <1>1, <1>2, ExpiryStep DEF Next

LEMMA Inductive == Spec => []IInv
  BY InitIInv, StepIInv, PTL DEF Spec

(* Rows belong to accounts, and handlers have what they work on.           *)
THEOREM TypeCorrect == Spec => []TypeOK
<1>1. IInv => TypeOK
  BY DEF IInv
<1> QED BY <1>1, Inductive, PTL

(* Nobody gets a role off an unverified address (approve's first guard),   *)
(* whatever races and dies.                                                *)
THEOREM GrantsVerified == Spec => []GrantsAreVerified
<1>1. IInv => GrantsAreVerified
  BY DEF IInv
<1> QED BY <1>1, Inductive, PTL

(* Role, drop-off point, audit row and notice agree with the decision of   *)
(* approve or reject wherever two decisions did not overlap and none died. *)
THEOREM DecisionsComplete == Spec => []DecisionsAreComplete
<1>1. ASSUME IInv PROVE DecisionsAreComplete
  <2> SUFFICES ASSUME NEW a \in Rows
               PROVE  LET status == apps[a].status
                          record == IF status = "pending" THEN {}
                                    ELSE {<<"audit", a, status>>, <<"notice", a, status>>}
                      IN  /\ Undisturbed(<<"decide", a>>) =>
                                /\ a \in granted <=> status = "approved"
                                /\ places[a] > 0 => status = "approved" /\ apps[a].place
                                /\ places[a] < 2
                                /\ ReportedOf(a) = record
                          /\ Survived(<<"decide", a>>) =>
                                /\ status = "approved" => a \in granted
                                /\ record \subseteq ReportedOf(a)
    BY DEF DecisionsAreComplete
  <2> PICK status : status = apps[a].status
    OBVIOUS
  <2>1. CASE Undisturbed(<<"decide", a>>)
    <3>1. Done(a)
      BY <1>1, <2>1 DEF Undisturbed, Survived, IInv, Decision, Clean
    <3>2. places[a] \in 0..2
      BY <1>1 DEF IInv, TypeOK
    <3>3. /\ a \in granted <=> status = "approved"
          /\ places[a] > 0 => status = "approved" /\ apps[a].place
          /\ places[a] < 2
      BY <3>1, <3>2 DEF Done, Outcome, Served, Untouched
    <3>4. ReportedOf(a) = IF status = "pending" THEN {} ELSE {Audit(a, status), Notice(a, status)}
      BY <3>1 DEF Done
    <3>5. status = "approved" => a \in granted
      BY <3>3
    <3> QED BY <3>3, <3>4, <3>5 DEF Audit, Notice
  <2>2. CASE Survived(<<"decide", a>>) /\ ~Undisturbed(<<"decide", a>>)
    <3>1. status = "approved" => a \in granted
      BY <1>1 DEF IInv, Unborn
    <3>2. \A w \in Web : ~(handler[w].pc \in DecidePCs /\ handler[w].app = a)
      BY <2>2, SubjectsOf DEF Survived, Settled
    <3>3. \A w \in Web : ~(handler[w].app = a /\ handler[w].pc \in {AuditPC(status), TellPC(status)})
      BY <3>2 DEF AuditPC, TellPC, DecidePCs
    <3>4. status # "pending" => Audit(a, status) \in reported /\ Notice(a, status) \in reported
      BY <1>1, <2>2, <3>3 DEF IInv, RecordsOwed, Survived, At
    <3> QED BY <2>2, <3>1, <3>4 DEF ReportedOf, Audit, Notice
  <2> QED BY <2>1, <2>2 DEF Undisturbed
<1> QED BY <1>1, Inductive, PTL

(* The reviewers hear of a verified application once, and always if no     *)
(* process dies before notify_partner_application_ready.                   *)
THEOREM ReviewersTold == Spec => []ReviewersToldOnce
<1>1. ASSUME IInv PROVE ReviewersToldOnce
  <2> SUFFICES ASSUME NEW a \in Rows
               PROVE  /\ Undisturbed(<<"verify", a>>) =>
                            /\ ready[a] = (IF apps[a].verified THEN 1 ELSE 0)
                            /\ apps[a].marked <=> apps[a].verified
                      /\ Survived(<<"verify", a>>) /\ apps[a].verified => ready[a] > 0
    BY DEF ReviewersToldOnce
  <2>1. ASSUME Undisturbed(<<"verify", a>>)
        PROVE  /\ ready[a] = (IF apps[a].verified THEN 1 ELSE 0)
               /\ apps[a].marked <=> apps[a].verified
    BY <1>1, <2>1 DEF Undisturbed, Survived, IInv, Verification, Clean, Fresh, Marked
  <2>2. ASSUME Survived(<<"verify", a>>), apps[a].verified PROVE ready[a] > 0
    <3>1. \A w \in Web : ~(handler[w].pc \in VerifyPCs /\ handler[w].app = a)
      BY <2>2, SubjectsOf DEF Survived, Settled
    <3>2. ready[a] # 0
      BY <1>1, <2>2, <3>1 DEF IInv, NoticeOwed, Survived, VerifyPCs, TellPCs
    <3> QED BY <1>1, <3>2 DEF IInv, TypeOK
  <2> QED BY <2>1, <2>2
<1> QED BY <1>1, Inductive, PTL

(* Whoever waits for verification has a link that works, or had one until  *)
(* it ran out, or was invited by a submission that looked him up before he *)
(* set a password, and is verified; or a process died between              *)
(* submit_partner_application and _send_invite_email, or between the new   *)
(* password and the verification; spellings apart.                         *)
THEOREM NobodyStuck == Spec => []NobodyIsStuck
<1>1. ASSUME IInv PROVE NobodyIsStuck
  <2> SUFFICES ASSUME NEW a \in Pending, NEW u, u = apps[a].user, ~apps[a].verified,
                      Survived(<<"link", u>>),
                      \A b \in Rows : apps[b].user = u => apps[b].email = apps[a].email
               PROVE  \/ link[u] \in {"works", "expired"}
                      \/ link[u] = "stale" /\ accounts[u].verified /\ accounts[u].password > 0
    BY DEF NobodyIsStuck
  <2>1. a \in Rows /\ LinkOwed(a) /\ u \in Users
    BY <1>1 DEF Pending, IInv, TypeOK, Known
  <2>2. \A w \in Web : ~(handler[w].pc \in LinkPCs /\ handler[w].user = u)
    BY SubjectsOf DEF Survived, Settled
  <2>3. link[u] # "none"
    BY <2>1, <2>2 DEF LinkOwed, Pending, Survived, LinkPCs, At
  <2>4. link[u] \in Link
    BY <1>1, <2>1 DEF IInv, TypeOK
  <2>5. link[u] = "stale" => Replaced(u)
    BY <1>1, <2>1 DEF IInv, StaleMeansReplaced
  <2> QED BY <2>3, <2>4, <2>5 DEF Link, Replaced
<1> QED BY <1>1, Inductive, PTL
=============================================================================

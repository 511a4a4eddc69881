------------------------- MODULE PartnerApplications -------------------------
(***************************************************************************)
(* How an application to become a partner goes from the public form to a   *)
(* decision (apps/partners/services.py), with the accounts it makes and    *)
(* the set-password link that verifies them (apps/accounts/views.py).      *)
(*                                                                         *)
(* An e-mail address comes in spellings that differ in case only: look-ups *)
(* ignore case, the unique constraint does not.  assign_admin_role is the  *)
(* subject of AdminRoles; here it grants the role or refuses.              *)
(***************************************************************************)
EXTENDS Naturals, FiniteSets

CONSTANTS
    Users,      \* primary keys of accounts
    MaxApps,    \* bound: primary keys of applications are 1..MaxApps
    Addresses,  \* e-mail addresses, case ignored
    Spellings,  \* how an address may be spelled
    Web,        \* processes that serve HTTP requests
    Crashes,    \* may a process die in the middle of a handler?
    None

ASSUME BoundAssumption == MaxApps \in Nat
ASSUME NoneAssumption == None \notin Users \cup Nat
ASSUME CrashesAssumption == Crashes \in BOOLEAN

VARIABLES
    accounts,  \* the accounts: [email, password, verified] or None
    link,      \* what became of the set-password links of an account
    apps,      \* table partners_partnerapplication: id -> row
    granted,   \* the applications whose approval got the role to the applicant
    places,    \* how many drop-off points were created for an application
    ready,     \* how often the reviewers were told that it is ready (up to 2)
    reported,  \* audit rows and notifications to the applicant: <<"audit", id, status>>...
    handler,   \* what each process is in the middle of
    spoiled    \* history: where calls overlapped, and where one died half-way

vars == <<accounts, link, apps, granted, places, ready, reported, handler, spoiled>>
-----------------------------------------------------------------------------
Emails == Addresses \X Spellings
SameAddress(e, f) == e[1] = f[1]

(* A password is known by how many were set before it: 0 is the unusable    *)
(* one, and a new hash differs from every earlier one.                     *)
Account == [email: Emails, password: Nat, verified: BOOLEAN]
ASSUME AccountAssumption == None \notin Account

(* check_token accepts a link of the account; there is none, or a password  *)
(* was set since; the last one ran out; the last one never worked, for it   *)
(* was made from a password already replaced.                              *)
Link == {"works", "none", "expired", "stale"}

Status == {"pending", "approved", "rejected"}
AppIds == 1..MaxApps
AppRow == [email: Emails, user: Users, place: BOOLEAN, verified: BOOLEAN,
           marked: BOOLEAN, status: Status]

PCs == {"idle", "submit.lookup", "submit.user", "submit.insert", "submit.tell",
        "submit.mark", "submit.invite", "password.save", "verify.find", "verify.save",
        "verify.tell", "verify.mark", "approve.grant", "approve.place", "approve.save",
        "approve.audit", "approve.tell", "reject.save", "reject.audit", "reject.tell"}

Handler == [pc: PCs, user: Users \cup {None}, app: AppIds \cup {None},
            email: Emails \cup {None}, place: BOOLEAN, verified: BOOLEAN,
           password: Nat]
Idle == [pc |-> "idle", user |-> None, app |-> None, email |-> None,
         place |-> FALSE, verified |-> FALSE, password |-> 0]

Known == {u \in Users : accounts[u] # None}
Rows == DOMAIN apps
Pending == {a \in Rows : apps[a].status = "pending"}

(* Registered users, each with an address of its own. *)
Init ==
    /\ accounts \in [Users -> [email: Emails, password: {1}, verified: BOOLEAN] \cup {None}]
    /\ \A u, v \in Known : SameAddress(accounts[u].email, accounts[v].email) => u = v
    /\ link = [u \in Users |-> "none"]
    /\ apps = [a \in {} |-> None]
    /\ granted = {}
    /\ places = [a \in AppIds |-> 0]
    /\ ready = [a \in AppIds |-> 0]
    /\ reported = {}
    /\ handler = [w \in Web |-> Idle]
    /\ spoiled = {}

At(w, pc) == handler[w].pc = pc
Become(w, h) == handler' = [handler EXCEPT ![w] = h]
Goto(w, pc) == Become(w, [handler[w] EXCEPT !.pc = pc])
Finish(w) == Become(w, Idle)

people == <<accounts, link>>
outcome == <<granted, places, ready, reported>>

(* What a handler is at work on: the verification of an application, the   *)
(* decision of one, or the way of a user to a verified address.            *)
VerifyPCs == {"submit.tell", "submit.mark", "verify.save", "verify.tell", "verify.mark"}
DecidePCs == {"approve.grant", "approve.place", "approve.save", "approve.audit",
              "approve.tell", "reject.save", "reject.audit", "reject.tell"}
LinkPCs == {"submit.insert", "submit.invite", "password.save", "verify.find", "verify.save"}

Subjects(h) ==
    (IF h.pc \in VerifyPCs THEN {<<"verify", h.app>>} ELSE {})
        \cup (IF h.pc \in DecidePCs THEN {<<"decide", h.app>>} ELSE {})
        \cup (IF h.pc \in LinkPCs THEN {<<"link", h.user>>} ELSE {})

(* Where a handler that dies leaves its work half done. *)
HalfWay(work) ==
    CASE work = "verify" -> VerifyPCs \ {"verify.save"}
      [] work = "decide" -> DecidePCs \ {"approve.grant", "reject.save"}
      [] work = "link" -> LinkPCs \ {"submit.insert", "password.save"}

(* What two handlers are at work on at once; no property depends on two     *)
(* handlers that are at work on one link.                                  *)
Overlap ==
    UNION {{<<"overlap", x>> : x \in {y \in Subjects(handler[w]) :
               y[1] # "link" /\ \E v \in Web \ {w} : y \in Subjects(handler[v])}} : w \in Web}

-----------------------------------------------------------------------------
(* POST /partner-applications/.                                            *)

(* The check is made on the address in the request, even where a logged-in *)
(* user's own address replaces it afterwards.                              *)
SubmitBegin(w, e, user, place) ==
    /\ At(w, "idle")
    /\ user # None => user \in Known /\ accounts[user].password > 0
    /\ ~\E a \in Pending : SameAddress(apps[a].email, e)
    /\ Become(w, [Idle EXCEPT !.pc = "submit.lookup", !.user = user, !.email = e,
                              !.place = place])
    /\ UNCHANGED <<people, apps, outcome>>

SubmitLookup(w) ==
    LET h == handler[w]
        matching == {u \in Known : SameAddress(accounts[u].email, h.email)}
    IN  /\ At(w, "submit.lookup")
        /\ \/ /\ h.user # None
              /\ Become(w, [h EXCEPT !.pc = "submit.insert", !.verified = TRUE,
                                     !.email = accounts[h.user].email])
           \/ /\ h.user = None
              /\ \E u \in matching :
                    Become(w, [h EXCEPT !.pc = "submit.insert", !.user = u,
                                        !.verified = accounts[u].verified,
                                        !.password = accounts[u].password])
           \/ /\ h.user = None /\ matching = {}
              /\ Goto(w, "submit.user")
        /\ UNCHANGED <<people, apps, outcome>>

(* A new account; an IntegrityError if another submission has just taken   *)
(* the user name.                                                          *)
SubmitUser(w) ==
    /\ At(w, "submit.user")
    /\ \/ \E u \in Users \ Known :
             /\ accounts' = [accounts EXCEPT ![u] =
                               [email |-> handler[w].email, password |-> 0, verified |-> FALSE]]
             /\ Become(w, [handler[w] EXCEPT !.pc = "submit.insert", !.user = u,
                                             !.password = 0])
       \/ /\ \E u \in Known : SameAddress(accounts[u].email, handler[w].email)
          /\ Finish(w) /\ UNCHANGED accounts
    /\ UNCHANGED <<link, apps, outcome>>

(* one_pending_application_per_email compares the spelled address.         *)
SubmitInsert(w) ==
    LET h == handler[w]
        new == Cardinality(Rows) + 1
        row == [email |-> h.email, user |-> h.user, place |-> h.place,
                verified |-> h.verified, marked |-> FALSE, status |-> "pending"]
    IN  /\ At(w, "submit.insert")
        /\ IF \E a \in Pending : apps[a].email = h.email
           THEN Finish(w) /\ UNCHANGED apps
           ELSE /\ new \in AppIds
                /\ apps' = [a \in Rows \cup {new} |-> IF a = new THEN row ELSE apps[a]]
                /\ Become(w, [h EXCEPT !.pc = IF h.verified THEN "submit.tell" ELSE "submit.invite",
                                       !.app = new])
        /\ UNCHANGED <<people, outcome>>

(* A registered user is thought to need no link. *)
SubmitInvite_mut(w) ==
    /\ At(w, "submit.invite")
    /\ link' = IF accounts[handler[w].user].password > 0 THEN link
               ELSE [link EXCEPT ![handler[w].user] = "works"]
    /\ Finish(w)
    /\ UNCHANGED <<accounts, apps, outcome>>

(* The token is made from the user as the look-up found him: with a        *)
(* password set since, by an earlier link, it is dead on arrival.          *)
SubmitInvite(w) ==
    LET u == handler[w].user
        fresh == handler[w].password = accounts[u].password
    IN  /\ At(w, "submit.invite")
        /\ link' = [link EXCEPT ![u] = IF fresh THEN "works"
                                      ELSE IF @ = "works" THEN @ ELSE "stale"]
        /\ Finish(w)
        /\ UNCHANGED <<accounts, apps, outcome>>

(* PASSWORD_RESET_TIMEOUT, three days after it was made. *)
LinkExpires(u) ==
    /\ link[u] = "works"
    /\ link' = [link EXCEPT ![u] = "expired"]
    /\ UNCHANGED <<accounts, apps, outcome, handler, spoiled>>

-----------------------------------------------------------------------------
(* POST /auth/set-password/.                                               *)

SetPasswordBegin(w, u) ==
    /\ At(w, "idle")
    /\ link[u] = "works"
    /\ Become(w, [Idle EXCEPT !.pc = "password.save", !.user = u])
    /\ UNCHANGED <<people, apps, outcome>>

(* A new password invalidates every link of the account. *)
SetPasswordSave(w) ==
    LET u == handler[w].user IN
    /\ At(w, "password.save")
    /\ accounts' = [accounts EXCEPT ![u] = [email |-> accounts[u].email, verified |-> TRUE,
                                            password |-> accounts[u].password + 1]]
    /\ link' = [link EXCEPT ![u] = "none"]
    /\ Goto(w, "verify.find")
    /\ UNCHANGED <<apps, outcome>>

(* Without the filter on email_verified_at. *)
Unverified_mut(u) == {a \in Pending : apps[a].user = u}

Unverified(u) == {a \in Pending : apps[a].user = u /\ ~apps[a].verified}

(* The newest application of the user that waits for verification. *)
VerifyFind(w) ==
    LET waiting == Unverified(handler[w].user) IN
    /\ At(w, "verify.find")
    /\ \/ waiting = {} /\ Finish(w)
       \/ \E a \in waiting :
             /\ \A b \in waiting : b <= a
             /\ Become(w, [handler[w] EXCEPT !.pc = "verify.save", !.app = a])
    /\ UNCHANGED <<people, apps, outcome>>

VerifySave(w) ==
    /\ At(w, "verify.save")
    /\ apps' = [apps EXCEPT ![handler[w].app].verified = TRUE]
    /\ Goto(w, "verify.tell")
    /\ UNCHANGED <<people, outcome>>

(* notify_partner_application_ready, from both handlers. *)
TellReviewers(w) ==
    /\ \/ At(w, "submit.tell") /\ Goto(w, "submit.mark")
       \/ At(w, "verify.tell") /\ Goto(w, "verify.mark")
    /\ ready' = [ready EXCEPT ![handler[w].app] = IF @ < 2 THEN @ + 1 ELSE @]
    /\ UNCHANGED <<people, apps, granted, places, reported>>

(* reviewers_notified_at. *)
MarkNotified(w) ==
    /\ At(w, "submit.mark") \/ At(w, "verify.mark")
    /\ apps' = [apps EXCEPT ![handler[w].app].marked = TRUE]
    /\ Finish(w)
    /\ UNCHANGED <<people, outcome>>

-----------------------------------------------------------------------------
(* POST /admin/partner-applications/{id}/approve/ and reject/.             *)

(* Without the email_not_verified guard. *)
ApproveBegin_mut(w, a, place) ==
    /\ At(w, "idle")
    /\ apps[a].status = "pending"
    /\ Become(w, [Idle EXCEPT !.pc = "approve.grant", !.app = a, !.user = apps[a].user,
                              !.place = apps[a].place /\ place])
    /\ UNCHANGED <<people, apps, outcome>>

ApproveBegin(w, a, place) ==
    /\ At(w, "idle")
    /\ apps[a].verified
    /\ apps[a].status = "pending"
    /\ Become(w, [Idle EXCEPT !.pc = "approve.grant", !.app = a, !.user = apps[a].user,
                              !.place = apps[a].place /\ place])
    /\ UNCHANGED <<people, apps, outcome>>

(* A refusal (last_role_manager) is taken for a grant. *)
ApproveGrant_mut(w) ==
    /\ At(w, "approve.grant")
    /\ granted' \in {granted, granted \cup {handler[w].app}}
    /\ Goto(w, IF handler[w].place THEN "approve.place" ELSE "approve.save")
    /\ UNCHANGED <<people, apps, places, ready, reported>>

(* The role is granted first, or assign_admin_role raises.  An applicant   *)
(* who has the role already counts as granted it.                          *)
ApproveGrant(w) ==
    /\ At(w, "approve.grant")
    /\ \/ /\ granted' = granted \cup {handler[w].app}
          /\ Goto(w, IF handler[w].place THEN "approve.place" ELSE "approve.save")
       \/ UNCHANGED granted /\ Finish(w)
    /\ UNCHANGED <<people, apps, places, ready, reported>>

ApprovePlace(w) ==
    /\ At(w, "approve.place")
    /\ places' = [places EXCEPT ![handler[w].app] = IF @ < 2 THEN @ + 1 ELSE @]
    /\ Goto(w, "approve.save")
    /\ UNCHANGED <<people, apps, granted, ready, reported>>

RejectBegin(w, a) ==
    /\ At(w, "idle")
    /\ apps[a].status = "pending"
    /\ Become(w, [Idle EXCEPT !.pc = "reject.save", !.app = a, !.user = apps[a].user])
    /\ UNCHANGED <<people, apps, outcome>>

(* save(update_fields=["status", ...]), whatever the row's status is now.  *)
DecisionSave(w) ==
    LET a == handler[w].app IN
    /\ \/ /\ At(w, "approve.save")
          /\ apps' = [apps EXCEPT ![a].status = "approved"]
          /\ Goto(w, "approve.audit")
       \/ /\ At(w, "reject.save")
          /\ apps' = [apps EXCEPT ![a].status = "rejected"]
          /\ Goto(w, "reject.audit")
    /\ UNCHANGED <<people, outcome>>

Report(w, what, status) == reported' = reported \cup {<<what, handler[w].app, status>>}

DecisionAudit(w) ==
    /\ \/ At(w, "approve.audit") /\ Report(w, "audit", "approved") /\ Goto(w, "approve.tell")
       \/ At(w, "reject.audit") /\ Report(w, "audit", "rejected") /\ Goto(w, "reject.tell")
    /\ UNCHANGED <<people, apps, granted, places, ready>>

DecisionTell(w) ==
    /\ \/ At(w, "approve.tell") /\ Report(w, "notice", "approved")
       \/ At(w, "reject.tell") /\ Report(w, "notice", "rejected")
    /\ Finish(w)
    /\ UNCHANGED <<people, apps, granted, places, ready>>

-----------------------------------------------------------------------------
Crash(w) ==
    /\ Crashes
    /\ ~At(w, "idle")
    /\ Finish(w)
    /\ spoiled' = spoiled \cup
           {<<"death", x>> : x \in {y \in Subjects(handler[w]) : handler[w].pc \in HalfWay(y[1])}}
    /\ UNCHANGED <<people, apps, outcome>>

Arrive(w) ==
    \/ \E e \in Emails, user \in Users \cup {None}, place \in BOOLEAN : SubmitBegin(w, e, user, place)
    \/ \E u \in Users : SetPasswordBegin(w, u)
    \/ \E a \in Rows : RejectBegin(w, a) \/ \E place \in BOOLEAN : ApproveBegin(w, a, place)

Step(w) ==
    \/ SubmitLookup(w) \/ SubmitUser(w) \/ SubmitInsert(w) \/ SubmitInvite(w)
    \/ SetPasswordSave(w) \/ VerifyFind(w) \/ VerifySave(w)
    \/ TellReviewers(w) \/ MarkNotified(w)
    \/ ApproveGrant(w) \/ ApprovePlace(w)
    \/ DecisionSave(w) \/ DecisionAudit(w) \/ DecisionTell(w)

Next == \/ \E w \in Web :
                \/ (Arrive(w) \/ Step(w)) /\ spoiled' = spoiled \cup Overlap'
                \/ Crash(w)
        \/ \E u \in Users : LinkExpires(u)

Spec == Init /\ [][Next]_vars
-----------------------------------------------------------------------------
(* No handler is at work on x, and none overlapped or died there.          *)
Settled(x) == \A w \in Web : x \notin Subjects(handler[w])
Survived(x) == Settled(x) /\ <<"death", x>> \notin spoiled
Undisturbed(x) == Survived(x) /\ <<"overlap", x>> \notin spoiled
ReportedOf(a) == {r \in reported : r[2] = a}

(* Every row belongs to an account, and every handler has the user or the  *)
(* application its next step works on.                                     *)
TypeOK ==
    /\ accounts \in [Users -> Account \cup {None}]
    /\ link \in [Users -> Link]
    /\ Rows = 1..Cardinality(Rows) /\ Rows \subseteq AppIds
    /\ apps \in [Rows -> AppRow]
    /\ granted \subseteq Rows
    /\ places \in [AppIds -> 0..2] /\ ready \in [AppIds -> 0..2]
    /\ reported \subseteq {"audit", "notice"} \X AppIds \X Status
    /\ handler \in [Web -> Handler]
    /\ spoiled \subseteq {"overlap", "death"} \X
                           (({"verify", "decide"} \X AppIds) \cup ({"link"} \X Users))
    /\ \A a \in Rows : apps[a].user \in Known

(* "Nobody gets a role granted off an unverified email": what approve      *)
(* grants, it grants on a verified application, also when set-password and *)
(* the decisions race and processes die.                                   *)
GrantsAreVerified == \A a \in granted : apps[a].verified

(* Once an application is decided, by calls that neither overlapped nor    *)
(* died: the role, the drop-off point, the audit row and the notice all    *)
(* agree with the status, and there are no others.  Where two decisions    *)
(* overlapped, the status that is left has its audit row and its notice,   *)
(* and an approval its role, unless a process died.                        *)
DecisionsAreComplete ==
    \A a \in Rows :
        LET status == apps[a].status
            record == IF status = "pending" THEN {}
                      ELSE {<<"audit", a, status>>, <<"notice", a, status>>}
        IN  /\ Undisturbed(<<"decide", a>>) =>
                   /\ a \in granted <=> status = "approved"
                   /\ places[a] > 0 => status = "approved" /\ apps[a].place
                   /\ places[a] < 2
                   /\ ReportedOf(a) = record
            /\ Survived(<<"decide", a>>) =>
                   /\ status = "approved" => a \in granted
                   /\ record \subseteq ReportedOf(a)

(* reviewers_notified_at is set and the reviewers are told exactly when an *)
(* application is verified, and once, unless two uses of a link overlap;   *)
(* they are told all the same where two uses overlapped and none died.     *)
ReviewersToldOnce ==
    \A a \in Rows :
        /\ Undisturbed(<<"verify", a>>) =>
               /\ ready[a] = (IF apps[a].verified THEN 1 ELSE 0)
               /\ apps[a].marked <=> apps[a].verified
        /\ Survived(<<"verify", a>>) /\ apps[a].verified => ready[a] > 0

(* Whoever waits for verification has a link that works, whatever races,   *)
(* unless a process died on the way, or a second application in another    *)
(* spelling of the address got past the check.  The code leaves two more    *)
(* without a way to a decision: whose link ran out, and whose invitation    *)
(* was made from a password replaced since; the latter is always somebody  *)
(* who has set a password and is verified, if the application is not.      *)
NobodyIsStuck ==
    \A a \in Pending :
        LET u == apps[a].user IN
        /\ ~apps[a].verified
        /\ Survived(<<"link", u>>)
        /\ \A b \in Rows : apps[b].user = u => apps[b].email = apps[a].email
        => \/ link[u] \in {"works", "expired"}
           \/ link[u] = "stale" /\ accounts[u].verified /\ accounts[u].password > 0

(* "guards this with application.reviewers_notified_at so it only ever     *)
(* fires once" (notify_partner_application_ready).                         *)
ReadyFiresOnce == \A a \in Rows : ready[a] < 2

(* A rejected applicant's "account is completely untouched".               *)
RejectedGetNothing ==
    \A a \in Rows :
        Settled(<<"decide", a>>) /\ apps[a].status = "rejected" => a \notin granted

(* "already_reviewed": an application is approved once.                    *)
OnePlaceEach == \A a \in Rows : places[a] < 2

(* "One pending application per email at a time".                          *)
OnePendingEach ==
    \A a, b \in Pending : SameAddress(apps[a].email, apps[b].email) => a = b
=============================================================================

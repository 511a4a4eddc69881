------------------------------ MODULE Sessions ------------------------------
(***************************************************************************)
(* Registration, login, refresh and logout (apps/accounts/views.py): how a *)
(* browser keeps its refresh cookie while tokens are rotated.              *)
(*                                                                         *)
(* Tabs of a browser call at the same time.  A call carries the cookie of  *)
(* the moment it was sent; its answer may come late, after answers to      *)
(* later calls, or never, and the process that serves it may die.  The     *)
(* tables of outstanding and blacklisted tokens are simplejwt's, modelled  *)
(* from its calls here.  Access tokens are not stored anywhere.            *)
(***************************************************************************)
EXTENDS Naturals, FiniteSets

CONSTANTS
    Users,     \* user names
    Browsers,  \* browsers, each with one cookie
    Tokens,    \* refresh tokens (jti)
    Calls,     \* bound: calls that may be under way at once
    None

ASSUME NoneAssumption == None \notin Users \cup Browsers \cup Tokens

VARIABLES
    accounts,  \* user names that are registered
    tokens,    \* refresh tokens: what the server knows of each
    cookie,    \* the refresh cookie of each browser, or None
    call,      \* the calls under way
    lost,      \* history: browsers that missed the last answer about their cookie
    loose,     \* history: sessions where calls overlapped or one came to nothing
    over       \* history: sessions that logged out

server == <<accounts, tokens>>
vars == <<accounts, tokens, cookie, call, lost, loose, over>>
-----------------------------------------------------------------------------
(* session: the first token of the chain of rotations. *)
Token == [state: {"unborn", "live", "expired", "blacklisted"},
          user: Users \cup {None}, session: Tokens \cup {None}]

PCs == {"idle", "register.insert", "login.issue",
        "refresh.check", "refresh.issue", "refresh.blacklist",
        "logout.check", "logout.blacklist",
        "answer.set", "answer.clear", "answer.error"}

(* token: the cookie that was sent.  fresh: the one the answer sets. *)
Call == [pc: PCs, browser: Browsers \cup {None}, user: Users \cup {None},
         token: Tokens \cup {None}, fresh: Tokens \cup {None}]

Idle == [pc |-> "idle", browser |-> None, user |-> None, token |-> None, fresh |-> None]

Init ==
    /\ accounts = {}
    /\ tokens = [t \in Tokens |-> [state |-> "unborn", user |-> None, session |-> None]]
    /\ cookie = [b \in Browsers |-> None]
    /\ call = [c \in Calls |-> Idle]
    /\ lost = {}
    /\ loose = {}
    /\ over = {}

At(c, pc) == call[c].pc = pc
Become(c, h) == call' = [call EXCEPT ![c] = h]
Goto(c, pc) == Become(c, [call[c] EXCEPT !.pc = pc])
Finish(c) == Become(c, Idle)

Send(c, pc, b, u, t) ==
    /\ At(c, "idle")
    /\ Become(c, [Idle EXCEPT !.pc = pc, !.browser = b, !.user = u, !.token = t])
    /\ UNCHANGED <<server, cookie, lost>>

(* RefreshToken(raw_token) raises a TokenError for any other token. *)
Valid(t) == tokens[t].state = "live"

Blacklist(t) == tokens' = [tokens EXCEPT ![t].state = "blacklisted"]

(* RefreshToken.for_user: a new row among the outstanding tokens. *)
Issue(t, u, session) ==
    /\ tokens[t].state = "unborn"
    /\ tokens' = [tokens EXCEPT ![t] = [state |-> "live", user |-> u, session |-> session]]

-----------------------------------------------------------------------------
(* POST /auth/register/ and /auth/login/.                                  *)

RegisterBegin(c, b, u) == u \notin accounts /\ Send(c, "register.insert", b, u, None)
LoginBegin(c, b, u) == u \in accounts /\ Send(c, "login.issue", b, u, None)

(* The token is made before the account is saved. *)
RegisterInsert_mut(c) ==
    /\ At(c, "register.insert")
    /\ Goto(c, "login.issue")
    /\ UNCHANGED <<server, cookie, lost>>

(* An IntegrityError if another registration took the name since. *)
RegisterInsert(c) ==
    /\ At(c, "register.insert")
    /\ accounts' = accounts \cup {call[c].user}
    /\ Goto(c, IF call[c].user \in accounts THEN "answer.error" ELSE "login.issue")
    /\ UNCHANGED <<tokens, cookie, lost>>

LoginIssue(c, t) ==
    /\ At(c, "login.issue")
    /\ Issue(t, call[c].user, t)
    /\ Become(c, [call[c] EXCEPT !.pc = "answer.set", !.fresh = t])
    /\ UNCHANGED <<accounts, cookie, lost>>

-----------------------------------------------------------------------------
(* POST /auth/refresh/ and /auth/logout/.                                  *)

RefreshBegin(c, b) == cookie[b] # None /\ Send(c, "refresh.check", b, None, cookie[b])

(* The old token is blacklisted before there is a new one. *)
RefreshCheck_mut(c) ==
    /\ At(c, "refresh.check")
    /\ IF Valid(call[c].token)
       THEN Goto(c, "refresh.issue") /\ Blacklist(call[c].token)
       ELSE Goto(c, "answer.error") /\ UNCHANGED tokens
    /\ UNCHANGED <<accounts, cookie, lost>>

RefreshCheck(c) ==
    /\ At(c, "refresh.check")
    /\ Goto(c, IF Valid(call[c].token) THEN "refresh.issue" ELSE "answer.error")
    /\ UNCHANGED <<server, cookie, lost>>

RefreshIssue(c, t) ==
    LET old == tokens[call[c].token] IN
    /\ At(c, "refresh.issue")
    /\ Issue(t, old.user, old.session)
    /\ Become(c, [call[c] EXCEPT !.pc = "refresh.blacklist", !.fresh = t])
    /\ UNCHANGED <<accounts, cookie, lost>>

(* BLACKLIST_AFTER_ROTATION unset. *)
RefreshBlacklist_mut(c) ==
    /\ At(c, "refresh.blacklist")
    /\ Goto(c, "answer.set")
    /\ UNCHANGED <<server, cookie, lost>>

RefreshBlacklist(c) ==
    /\ At(c, "refresh.blacklist")
    /\ Blacklist(call[c].token)
    /\ Goto(c, "answer.set")
    /\ UNCHANGED <<accounts, cookie, lost>>

LogoutBegin(c, b) == cookie[b] # None /\ Send(c, "logout.check", b, None, cookie[b])

(* A logout succeeds whatever the token. *)
LogoutCheck(c) ==
    /\ At(c, "logout.check")
    /\ Goto(c, IF Valid(call[c].token) THEN "logout.blacklist" ELSE "answer.clear")
    /\ UNCHANGED <<server, cookie, lost>>

LogoutBlacklist(c) ==
    /\ At(c, "logout.blacklist")
    /\ Blacklist(call[c].token)
    /\ Goto(c, "answer.clear")
    /\ UNCHANGED <<accounts, cookie, lost>>

-----------------------------------------------------------------------------
(* Answers, and what comes between.                                        *)

Answering(c) == At(c, "answer.set") \/ At(c, "answer.clear") \/ At(c, "answer.error")

(* _set_refresh_cookie, _clear_refresh_cookie, or an error that leaves the *)
(* cookie as it is.                                                        *)
Deliver(c) ==
    LET b == call[c].browser IN
    /\ Answering(c)
    /\ IF At(c, "answer.error") THEN UNCHANGED <<cookie, lost>>
       ELSE /\ cookie' = [cookie EXCEPT ![b] = call[c].fresh]
            /\ lost' = lost \ {b}
    /\ Finish(c)
    /\ UNCHANGED server

(* Nothing is missed where no cookie was sent: the browser has it still. *)
Lose(c) ==
    /\ Answering(c)
    /\ lost' = IF call[c].token = None \/ At(c, "answer.error") THEN lost
               ELSE lost \cup {call[c].browser}
    /\ Finish(c)
    /\ UNCHANGED <<server, cookie>>

Crash(c) ==
    /\ ~At(c, "idle") /\ ~Answering(c)
    /\ Finish(c)
    /\ UNCHANGED <<server, cookie, lost>>

(* REFRESH_TOKEN_LIFETIME has passed. *)
Expire(t) ==
    /\ tokens[t].state = "live"
    /\ tokens' = [tokens EXCEPT ![t].state = "expired"]
    /\ UNCHANGED <<accounts, cookie, call, lost>>

Arrive(c) ==
    \/ \E b \in Browsers, u \in Users : RegisterBegin(c, b, u) \/ LoginBegin(c, b, u)
    \/ \E b \in Browsers : RefreshBegin(c, b) \/ LogoutBegin(c, b)

Step(c) ==
    \/ RegisterInsert(c)
    \/ \E t \in Tokens : LoginIssue(c, t) \/ RefreshIssue(c, t)
    \/ RefreshCheck(c) \/ RefreshBlacklist(c)
    \/ LogoutCheck(c) \/ LogoutBlacklist(c)
    \/ Deliver(c)

SessionOf(h) == IF h.token = None THEN {} ELSE {tokens[h.token].session}
InUse(s) == {c \in Calls : s \in SessionOf(call[c])}
Overlap == {s \in Tokens : Cardinality(InUse(s)) > 1}
Ended == {s \in Tokens : \E c \in InUse(s) : At(c, "answer.clear")}

Next ==
    /\ \/ (\E c \in Calls : Arrive(c) \/ Step(c)) /\ loose' = loose \cup Overlap'
       \/ \E c \in Calls : (Lose(c) \/ Crash(c)) /\ loose' = loose \cup SessionOf(call[c])
       \/ (\E t \in Tokens : Expire(t)) /\ UNCHANGED loose
    /\ over' = over \cup Ended'

Spec == Init /\ [][Next]_vars
-----------------------------------------------------------------------------
Live(s) == {t \in Tokens : tokens[t].session = s /\ Valid(t)}

(* Every token was issued to an account, in a session, and every call has  *)
(* what its next step works on.                                            *)
TypeOK ==
    /\ accounts \subseteq Users
    /\ tokens \in [Tokens -> Token]
    /\ cookie \in [Browsers -> Tokens \cup {None}]
    /\ call \in [Calls -> Call]
    /\ lost \subseteq Browsers /\ loose \subseteq Tokens /\ over \subseteq Tokens
    /\ \A t \in Tokens : tokens[t].state # "unborn" =>
          tokens[t].user \in accounts /\ tokens[t].session \in Tokens

(* A browser keeps a token that works until it expires, however many tabs  *)
(* refresh, log in and log out at once, in whatever order the answers come *)
(* and whoever dies: if its cookie is blacklisted, an answer that replaces *)
(* it is on the way, or was lost.                                          *)
SessionsSurvive ==
    \A b \in Browsers :
        cookie[b] # None /\ tokens[cookie[b]].state = "blacklisted" =>
            \/ b \in lost
            \/ \E c \in Calls : /\ At(c, "answer.set") \/ At(c, "answer.clear")
                                /\ call[c].browser = b /\ call[c].token = cookie[b]

(* The inductive invariant behind SessionsSurvive: a token on its way to a  *)
(* browser is known to nobody else, and no two browsers share one.         *)
CallHolds(h) ==
    /\ h.pc # "idle" => h.browser \in Browsers
    /\ h.pc \in {"register.insert", "login.issue"} => h.user \in Users /\ h.token = None
    /\ h.pc = "login.issue" => h.user \in accounts
    /\ h.pc \in {"refresh.check", "refresh.issue", "refresh.blacklist",
                 "logout.check", "logout.blacklist", "answer.clear"} => h.token # None
    /\ h.token # None => tokens[h.token].state # "unborn"
    /\ h.pc \in {"logout.check", "logout.blacklist", "answer.clear"} => h.fresh = None
    /\ h.pc \in {"refresh.blacklist", "answer.set"} => h.fresh # None
    /\ h.fresh # None => tokens[h.fresh].state \in {"live", "expired"}

FreshIsNew ==
    \A c \in Calls : call[c].fresh # None =>
        /\ \A b \in Browsers : cookie[b] # call[c].fresh
        /\ \A d \in Calls : call[d].token # call[c].fresh
        /\ \A d \in Calls \ {c} : call[d].fresh # call[c].fresh

CookiesAreApart ==
    \A b \in Browsers : cookie[b] # None =>
        /\ tokens[cookie[b]].state # "unborn"
        /\ \A o \in Browsers \ {b} : cookie[o] # cookie[b]
        /\ \A c \in Calls : call[c].token = cookie[b] => call[c].browser = b

IInv == /\ TypeOK
        /\ \A c \in Calls : CallHolds(call[c])
        /\ FreshIsNew
        /\ CookiesAreApart
        /\ SessionsSurvive

(* Rotation does not multiply tokens: a session whose calls neither        *)
(* overlapped nor came to nothing has one that works, or two in the middle *)
(* of a refresh, and after a logout none, the rotated ones included.       *)
OneLiveTokenEach ==
    \A s \in Tokens \ loose :
        Cardinality(Live(s)) <=
            IF s \in over THEN 0
            ELSE IF \E c \in InUse(s) : At(c, "refresh.blacklist") THEN 2 ELSE 1

(* API_REFERENCE.md:97: a refresh is refused when the token "has expired   *)
(* or was invalidated"; nothing but a logout is there to invalidate it.    *)
RefusedWhenOver ==
    [][\A c \in Calls :
          At(c, "refresh.check") /\ call'[c].pc = "answer.error" =>
              \/ tokens[call[c].token].state = "expired"
              \/ tokens[call[c].token].session \in over]_vars

(* API_REFERENCE.md:98: logout "blacklists the refresh token server-side   *)
(* and clears the cookie": the browser does not come back to the session.  *)
LoggedOutStaysOut ==
    \A b \in Browsers :
        cookie[b] # None /\ Valid(cookie[b]) => tokens[cookie[b]].session \notin over
=============================================================================

--------------------------- MODULE SessionsProofs ----------------------------
(***************************************************************************)
(* Proofs about Sessions: its type invariant, and that every browser keeps *)
(* a token that works unless an answer was lost, for any number of         *)
(* browsers, tokens and overlapping calls: one lemma per action shows that *)
(* it keeps IInv.  From it, and from LiveInv, which follows one session    *)
(* through its calls, how many tokens of a session work at a time.         *)
(***************************************************************************)
EXTENDS Sessions, TLAPS, FiniteSetTheorems

(* What a call knows has a type. *)
LEMMA CallTyped ==
    ASSUME TypeOK, NEW c \in Calls
    PROVE  /\ call[c] \in Call
           /\ call[c].browser \in Browsers \cup {None}
           /\ call[c].user \in Users \cup {None}
           /\ call[c].token \in Tokens \cup {None}
           /\ call[c].fresh \in Tokens \cup {None}
BY DEF TypeOK, Call

LEMMA TokenTyped ==
    ASSUME TypeOK, NEW t \in Tokens
    PROVE  tokens[t] \in Token
BY DEF TypeOK

(* The call with no content holds vacuously. *)
LEMMA IdleHolds == Idle \in Call /\ CallHolds(Idle) /\ CallHolds(Idle)'
BY DEF Idle, Call, CallHolds, PCs

(* The initial state satisfies the invariant. *)
LEMMA InitHolds == Init => IInv
<1> SUFFICES ASSUME Init PROVE IInv
    OBVIOUS
<1>1. TypeOK
    BY IdleHolds DEF Init, TypeOK, Token
<1>2. ASSUME NEW c \in Calls PROVE CallHolds(call[c])
    BY IdleHolds DEF Init
<1>3. FreshIsNew /\ CookiesAreApart /\ SessionsSurvive
    BY DEF Init, FreshIsNew, CookiesAreApart, SessionsSurvive, Idle
<1> QED BY <1>1, <1>2, <1>3 DEF IInv

(* The history variables keep their types. *)
LEMMA HistoryTyped ==
    ASSUME IInv, Next
    PROVE  loose' \subseteq Tokens /\ over' \subseteq Tokens
<1>1. loose \subseteq Tokens /\ over \subseteq Tokens
    BY DEF IInv, TypeOK
<1>2. Overlap' \subseteq Tokens /\ Ended' \subseteq Tokens
    BY DEF Overlap, Ended
<1>3. ASSUME NEW c \in Calls PROVE SessionOf(call[c]) \subseteq Tokens
    <2>1. CASE call[c].token = None
        BY <2>1 DEF SessionOf
    <2>2. CASE call[c].token # None
        <3>1. call[c].token \in Tokens /\ tokens[call[c].token].state # "unborn"
            BY <2>2, CallTyped DEF IInv, CallHolds
        <3> QED BY <2>2, <3>1 DEF IInv, TypeOK, SessionOf
    <2> QED BY <2>1, <2>2
<1> QED BY <1>1, <1>2, <1>3 DEF Next

-----------------------------------------------------------------------------
(* The steps that leave the tokens and the cookies alone: calls are sent,  *)
(* check what they carry, die, and lose their answers.  The call goes on   *)
(* with what it had, or is sent with the cookie of its browser.            *)
LEMMA CallStep ==
    ASSUME IInv, NEW c \in Calls, NEW h \in Call,
           call' = [call EXCEPT ![c] = h],
           UNCHANGED <<tokens, cookie>>,
           accounts \subseteq accounts', accounts' \subseteq Users,
           lost \subseteq lost', lost' \subseteq Browsers,
           CallHolds(h)',
           h.token # None =>
               \/ h.token = call[c].token /\ h.browser = call[c].browser
               \/ h.browser \in Browsers /\ h.token = cookie[h.browser],
           h.fresh # None => h.fresh = call[c].fresh,
           At(c, "answer.set") \/ At(c, "answer.clear") =>
               (call[c].token # None => call[c].browser \in lost'),
           loose' \subseteq Tokens, over' \subseteq Tokens
    PROVE  IInv'
<1>1. call'[c] = h /\ \A d \in Calls \ {c} : call'[d] = call[d]
    BY DEF IInv, TypeOK
<1>2. h.token # None => h.token \in Tokens /\ tokens[h.token].state # "unborn"
    BY DEF CallHolds, Call
<1>3. TypeOK'
    BY DEF IInv, TypeOK
<1>4. ASSUME NEW d \in Calls PROVE CallHolds(call[d])'
    BY <1>1 DEF IInv, CallHolds
<1>5. FreshIsNew'
    <2> SUFFICES ASSUME NEW d \in Calls, call'[d].fresh # None
                 PROVE  /\ \A b \in Browsers : cookie[b] # call'[d].fresh
                        /\ \A e \in Calls : call'[e].token # call'[d].fresh
                        /\ \A e \in Calls \ {d} : call'[e].fresh # call'[d].fresh
        BY DEF FreshIsNew
    <2>1. call'[d].fresh = call[d].fresh
        BY <1>1
    <2>2. ASSUME NEW e \in Calls PROVE call'[e].token # call'[d].fresh
        BY <1>1, <2>1 DEF IInv, FreshIsNew
    <2>3. ASSUME NEW e \in Calls \ {d} PROVE call'[e].fresh # call'[d].fresh
        BY <1>1, <2>1 DEF IInv, FreshIsNew
    <2> QED BY <2>1, <2>2, <2>3 DEF IInv, FreshIsNew
<1>6. CookiesAreApart'
    <2> SUFFICES ASSUME NEW b \in Browsers, cookie[b] # None
                 PROVE  /\ tokens[cookie[b]].state # "unborn"
                        /\ \A o \in Browsers \ {b} : cookie[o] # cookie[b]
                        /\ \A d \in Calls : call'[d].token = cookie[b] => call'[d].browser = b
        BY DEF CookiesAreApart
    <2>1. ASSUME NEW d \in Calls, call'[d].token = cookie[b] PROVE call'[d].browser = b
        BY <1>1, <2>1 DEF IInv, CookiesAreApart
    <2> QED BY <2>1 DEF IInv, CookiesAreApart
<1>7. SessionsSurvive'
    <2> SUFFICES ASSUME NEW b \in Browsers, cookie[b] # None,
                        tokens[cookie[b]].state = "blacklisted", b \notin lost'
                 PROVE  \E d \in Calls : /\ call'[d].pc \in {"answer.set", "answer.clear"}
                                         /\ call'[d].browser = b /\ call'[d].token = cookie[b]
        BY DEF SessionsSurvive, At
    <2>1. PICK d \in Calls : /\ call[d].pc \in {"answer.set", "answer.clear"}
                             /\ call[d].browser = b /\ call[d].token = cookie[b]
        BY DEF IInv, SessionsSurvive, At
    <2>2. d # c
        BY <2>1 DEF At
    <2> QED BY <1>1, <2>1, <2>2
<1> QED BY <1>3, <1>4, <1>5, <1>6, <1>7 DEF IInv

(* A token is issued: nobody knew it before. *)
LEMMA IssueStep ==
    ASSUME IInv, NEW c \in Calls, NEW t \in Tokens, NEW u \in accounts, NEW s \in Tokens,
           NEW pc \in {"refresh.blacklist", "answer.set"},
           ~Answering(c), call[c].pc # "idle",
           pc = "refresh.blacklist" => call[c].token # None,
           Issue(t, u, s),
           Become(c, [call[c] EXCEPT !.pc = pc, !.fresh = t]),
           UNCHANGED <<accounts, cookie, lost>>,
           loose' \subseteq Tokens, over' \subseteq Tokens
    PROVE  IInv'
<1> DEFINE h == [call[c] EXCEPT !.pc = pc, !.fresh = t]
<1>1. /\ call'[c] = h
      /\ \A d \in Calls \ {c} : call'[d] = call[d]
    BY DEF IInv, TypeOK, Become
<1>2. /\ h \in Call /\ h.pc = pc /\ h.fresh = t
      /\ h.token = call[c].token /\ h.browser = call[c].browser /\ h.user = call[c].user
    BY CallTyped DEF IInv, Call, PCs
<1>3. /\ tokens[t].state = "unborn"
      /\ tokens'[t] = [state |-> "live", user |-> u, session |-> s]
      /\ \A o \in Tokens \ {t} : tokens'[o] = tokens[o]
    BY DEF IInv, TypeOK, Issue
<1>4. t # None
    BY NoneAssumption
<1>5. /\ \A b \in Browsers : cookie[b] # t
      /\ \A d \in Calls : call[d].token # t /\ call[d].fresh # t
    BY <1>3, <1>4 DEF IInv, CookiesAreApart, CallHolds
<1> HIDE DEF h
<1>6. TypeOK'
    <2>1. tokens' \in [Tokens -> Token]
        BY DEF IInv, TypeOK, Issue, Token
    <2>2. call' \in [Calls -> Call]
        BY <1>2 DEF IInv, TypeOK, Become, h
    <2>3. \A o \in Tokens : tokens'[o].state # "unborn" =>
              tokens'[o].user \in accounts /\ tokens'[o].session \in Tokens
        BY <1>3 DEF IInv, TypeOK
    <2> QED BY <2>1, <2>2, <2>3 DEF IInv, TypeOK
<1>7. ASSUME NEW d \in Calls PROVE CallHolds(call[d])'
    <2>1. /\ call[d].token # None => tokens'[call[d].token] = tokens[call[d].token]
          /\ call[d].fresh # None => tokens'[call[d].fresh] = tokens[call[d].fresh]
        BY <1>3, <1>5, CallTyped DEF IInv
    <2>2. CASE d = c
        BY <1>1, <1>2, <1>3, <1>4, <2>1, <2>2 DEF IInv, CallHolds
    <2>3. CASE d # c
        BY <1>1, <2>1, <2>3 DEF IInv, CallHolds
    <2> QED BY <2>2, <2>3
<1>8. FreshIsNew'
    BY <1>1, <1>2, <1>5 DEF IInv, FreshIsNew
<1>9. CookiesAreApart'
    <2>1. \A b \in Browsers : cookie[b] # None => tokens'[cookie[b]] = tokens[cookie[b]]
        BY <1>3, <1>5 DEF IInv, TypeOK
    <2> QED BY <1>1, <1>2, <2>1 DEF IInv, CookiesAreApart
<1>10. SessionsSurvive'
    <2>1. \A b \in Browsers : cookie[b] # None => tokens'[cookie[b]] = tokens[cookie[b]]
        BY <1>3, <1>5 DEF IInv, TypeOK
    <2> QED BY <1>1, <2>1 DEF IInv, SessionsSurvive, At, Answering
<1> QED BY <1>6, <1>7, <1>8, <1>9, <1>10 DEF IInv

(* A token is blacklisted by a call that goes on to its answer. *)
LEMMA BlacklistStep ==
    ASSUME IInv, NEW c \in Calls, NEW pc \in {"answer.set", "answer.clear"},
           pc = "answer.set" => At(c, "refresh.blacklist"),
           pc = "answer.clear" => At(c, "logout.blacklist") /\ call[c].fresh = None,
           Blacklist(call[c].token), Goto(c, pc),
           UNCHANGED <<accounts, cookie, lost>>,
           loose' \subseteq Tokens, over' \subseteq Tokens
    PROVE  IInv'
<1> DEFINE h == [call[c] EXCEPT !.pc = pc]
           t == call[c].token
<1>1. /\ call'[c] = h
      /\ \A d \in Calls \ {c} : call'[d] = call[d]
    BY DEF IInv, TypeOK, Goto, Become
<1>2. /\ h \in Call /\ h.pc = pc /\ h.fresh = call[c].fresh
      /\ h.token = t /\ h.browser = call[c].browser /\ h.user = call[c].user
    BY CallTyped DEF IInv, Call, PCs
<1>3. t \in Tokens /\ t # None /\ tokens[t].state # "unborn"
    BY CallTyped DEF IInv, CallHolds, At
<1> HIDE DEF h, t
<1>4. /\ tokens' = [tokens EXCEPT ![t].state = "blacklisted"]
      /\ tokens'[t].state = "blacklisted"
      /\ tokens'[t].user = tokens[t].user /\ tokens'[t].session = tokens[t].session
      /\ \A o \in Tokens \ {t} : tokens'[o] = tokens[o]
    BY <1>3 DEF IInv, TypeOK, Token, Blacklist, t
<1>5. TypeOK'
    <2>1. tokens' \in [Tokens -> Token]
        BY <1>3, <1>4 DEF IInv, TypeOK, Token
    <2>2. call' \in [Calls -> Call]
        BY <1>2 DEF IInv, TypeOK, Goto, Become, h
    <2>3. \A o \in Tokens : tokens'[o].state # "unborn" =>
              tokens'[o].user \in accounts /\ tokens'[o].session \in Tokens
        BY <1>3, <1>4 DEF IInv, TypeOK
    <2> QED BY <2>1, <2>2, <2>3 DEF IInv, TypeOK
<1>6. ASSUME NEW d \in Calls PROVE CallHolds(call[d])'
    <2>1. /\ call[d].token # None => tokens'[call[d].token].state # "unborn"
          /\ call[d].fresh # None => tokens'[call[d].fresh] = tokens[call[d].fresh]
        <3>1. call[d].fresh # t \/ call[d].fresh = None
            BY DEF IInv, FreshIsNew, t
        <3>2. call[d].token # None => call[d].token \in Tokens /\ tokens[call[d].token].state # "unborn"
            BY CallTyped DEF IInv, CallHolds
        <3> QED BY <1>4, <3>1, <3>2, CallTyped DEF IInv
    <2>2. CASE d = c
        BY <1>1, <1>2, <1>3, <2>1, <2>2 DEF IInv, CallHolds, At, t
    <2>3. CASE d # c
        BY <1>1, <2>1, <2>3 DEF IInv, CallHolds
    <2> QED BY <2>2, <2>3
<1>7. FreshIsNew'
    BY <1>1, <1>2, <1>3 DEF IInv, FreshIsNew, t
<1>8. CookiesAreApart'
    <2>1. \A b \in Browsers : cookie[b] # None => tokens'[cookie[b]].state # "unborn"
        BY <1>4 DEF IInv, TypeOK, CookiesAreApart
    <2> QED BY <1>1, <1>2, <1>3, <2>1 DEF IInv, CookiesAreApart, t
<1>9. SessionsSurvive'
    <2> SUFFICES ASSUME NEW b \in Browsers, cookie[b] # None,
                        tokens'[cookie[b]].state = "blacklisted", b \notin lost
                 PROVE  \E d \in Calls : /\ call'[d].pc \in {"answer.set", "answer.clear"}
                                         /\ call'[d].browser = b /\ call'[d].token = cookie[b]
        BY DEF SessionsSurvive, At
    <2>1. CASE cookie[b] = t
        <3>1. call[c].browser = b
            BY <2>1 DEF IInv, CookiesAreApart, t
        <3> QED BY <1>1, <1>2, <2>1, <3>1
    <2>2. CASE cookie[b] # t
        <3>1. tokens[cookie[b]].state = "blacklisted"
            BY <1>4, <2>2 DEF IInv, TypeOK
        <3>2. PICK d \in Calls : /\ call[d].pc \in {"answer.set", "answer.clear"}
                                 /\ call[d].browser = b /\ call[d].token = cookie[b]
            BY <3>1 DEF IInv, SessionsSurvive, At
        <3> QED BY <1>1, <2>2, <3>2 DEF t
    <2> QED BY <2>1, <2>2
<1> QED BY <1>5, <1>6, <1>7, <1>8, <1>9 DEF IInv

(* An answer arrives: the cookie becomes the new token, or none. *)
LEMMA DeliverStep ==
    ASSUME IInv, NEW c \in Calls, Deliver(c),
           loose' \subseteq Tokens, over' \subseteq Tokens
    PROVE  IInv'
<1> DEFINE b == call[c].browser
           f == call[c].fresh
<1>1. /\ call' = [call EXCEPT ![c] = Idle]
      /\ call'[c] = Idle
      /\ \A d \in Calls \ {c} : call'[d] = call[d]
    BY DEF IInv, TypeOK, Deliver, Finish, Become
<1>2. UNCHANGED <<accounts, tokens>>
    BY DEF Deliver, server
<1>3. b \in Browsers /\ f \in Tokens \cup {None}
    BY CallTyped DEF IInv, CallHolds, Deliver, Answering, At
<1>4. CASE At(c, "answer.error")
    <2>1. UNCHANGED <<cookie, lost>>
        BY <1>4 DEF Deliver
    <2>2. Idle.token = None /\ Idle.fresh = None
        BY DEF Idle
    <2>3. ~At(c, "answer.set") /\ ~At(c, "answer.clear")
        BY <1>4 DEF At
    <2>4. lost' \subseteq Browsers /\ accounts' \subseteq Users
        BY <1>2, <2>1 DEF IInv, TypeOK
    <2> QED BY <1>1, <1>2, <2>1, <2>2, <2>3, <2>4, IdleHolds, CallStep
<1>5. CASE ~At(c, "answer.error")
    <2>1. /\ cookie' = [cookie EXCEPT ![b] = f]
          /\ cookie'[b] = f
          /\ \A o \in Browsers \ {b} : cookie'[o] = cookie[o]
          /\ lost' = lost \ {b}
        BY <1>3, <1>5 DEF IInv, TypeOK, Deliver
    <2>2. /\ f # None => tokens[f].state \in {"live", "expired"}
          /\ At(c, "answer.clear") => f = None
          /\ At(c, "answer.set") => f # None
          /\ At(c, "answer.set") \/ At(c, "answer.clear")
        BY <1>5 DEF IInv, CallHolds, At, Deliver, Answering
    <2>3. f # None => /\ \A o \in Browsers : cookie[o] # f
                      /\ \A d \in Calls : call[d].token # f
                      /\ \A d \in Calls \ {c} : call[d].fresh # f
        BY DEF IInv, FreshIsNew
    <2>4. Idle.token = None /\ Idle.fresh = None /\ Idle.pc = "idle"
        BY DEF Idle
    <2> HIDE DEF b, f
    <2>5. TypeOK'
        BY <1>1, <1>2, <1>3, <2>1, IdleHolds DEF IInv, TypeOK
    <2>6. ASSUME NEW d \in Calls PROVE CallHolds(call[d])'
        BY <1>1, <1>2, IdleHolds DEF IInv, CallHolds
    <2>7. FreshIsNew'
        <3> SUFFICES ASSUME NEW d \in Calls, call'[d].fresh # None
                     PROVE  /\ \A o \in Browsers : cookie'[o] # call'[d].fresh
                            /\ \A e \in Calls : call'[e].token # call'[d].fresh
                            /\ \A e \in Calls \ {d} : call'[e].fresh # call'[d].fresh
            BY DEF FreshIsNew
        <3>1. d # c /\ call'[d] = call[d]
            BY <1>1, <2>4
        <3>2. call[d].fresh # f
            BY <2>3, <3>1
        <3>3. \A o \in Browsers : cookie'[o] # call'[d].fresh
            BY <2>1, <3>1, <3>2 DEF IInv, FreshIsNew
        <3> QED BY <1>1, <2>4, <3>1, <3>3 DEF IInv, FreshIsNew
    <2>8. CookiesAreApart'
        <3> SUFFICES ASSUME NEW o \in Browsers, cookie'[o] # None
                     PROVE  /\ tokens[cookie'[o]].state # "unborn"
                            /\ \A p \in Browsers \ {o} : cookie'[p] # cookie'[o]
                            /\ \A d \in Calls : call'[d].token = cookie'[o] => call'[d].browser = o
            BY <1>2 DEF CookiesAreApart
        <3>1. CASE o = b
            BY <1>1, <2>1, <2>2, <2>3, <2>4, <3>1
        <3>2. CASE o # b
            BY <1>1, <2>1, <2>3, <2>4, <3>2 DEF IInv, CookiesAreApart
        <3> QED BY <3>1, <3>2
    <2>9. SessionsSurvive'
        <3> SUFFICES ASSUME NEW o \in Browsers, cookie'[o] # None,
                            tokens[cookie'[o]].state = "blacklisted", o \notin lost'
                     PROVE  \E d \in Calls : /\ call'[d].pc \in {"answer.set", "answer.clear"}
                                             /\ call'[d].browser = o /\ call'[d].token = cookie'[o]
            BY <1>2 DEF SessionsSurvive, At
        <3>1. o # b
            BY <2>1, <2>2
        <3>2. cookie'[o] = cookie[o] /\ o \notin lost
            BY <2>1, <3>1
        <3>3. PICK d \in Calls : /\ call[d].pc \in {"answer.set", "answer.clear"}
                                 /\ call[d].browser = o /\ call[d].token = cookie[o]
            BY <3>2 DEF IInv, SessionsSurvive, At
        <3> QED BY <1>1, <3>1, <3>2, <3>3 DEF b
    <2> QED BY <2>5, <2>6, <2>7, <2>8, <2>9 DEF IInv
<1> QED BY <1>4, <1>5

(* A token expires: it was not blacklisted, and is not. *)
LEMMA ExpireStep ==
    ASSUME IInv, NEW t \in Tokens, Expire(t),
           loose' \subseteq Tokens, over' \subseteq Tokens
    PROVE  IInv'
<1>1. /\ tokens[t].state = "live" /\ tokens'[t].state = "expired"
      /\ tokens'[t].user = tokens[t].user /\ tokens'[t].session = tokens[t].session
      /\ \A o \in Tokens \ {t} : tokens'[o] = tokens[o]
    BY DEF IInv, TypeOK, Token, Expire
<1>2. UNCHANGED <<accounts, cookie, call, lost>>
    BY DEF Expire
<1>3. TypeOK'
    <2>1. tokens' \in [Tokens -> Token]
        BY DEF IInv, TypeOK, Token, Expire
    <2> QED BY <1>1, <1>2, <2>1 DEF IInv, TypeOK
<1>4. ASSUME NEW d \in Calls PROVE CallHolds(call[d])'
    BY <1>1, <1>2, CallTyped DEF IInv, CallHolds
<1>5. FreshIsNew' /\ CookiesAreApart' /\ SessionsSurvive'
    BY <1>1, <1>2 DEF IInv, TypeOK, FreshIsNew, CookiesAreApart, SessionsSurvive, At
<1> QED BY <1>3, <1>4, <1>5 DEF IInv
-----------------------------------------------------------------------------
(* Every step keeps the invariant. *)
LEMMA NextKeeps ==
    ASSUME IInv, Next
    PROVE  IInv'
<1>0. TypeOK /\ loose' \subseteq Tokens /\ over' \subseteq Tokens
    BY HistoryTyped DEF IInv
<1>00. accounts \subseteq Users /\ lost \subseteq Browsers
    BY <1>0 DEF TypeOK
<1>1. ASSUME NEW c \in Calls, NEW b \in Browsers, NEW u \in Users \cup {None},
             NEW t \in Tokens \cup {None}, NEW pc, Send(c, pc, b, u, t),
             \/ pc = "register.insert" /\ u \in Users /\ t = None
             \/ pc = "login.issue" /\ u \in accounts /\ t = None
             \/ pc \in {"refresh.check", "logout.check"} /\ t # None /\ t = cookie[b]
      PROVE  IInv'
    <2> DEFINE h == [Idle EXCEPT !.pc = pc, !.browser = b, !.user = u, !.token = t]
    <2>1. /\ h \in Call
          /\ h.pc = pc /\ h.browser = b /\ h.user = u /\ h.token = t /\ h.fresh = None
        BY <1>1 DEF Idle, Call, PCs
    <2>2. /\ call' = [call EXCEPT ![c] = h]
          /\ call[c].pc = "idle"
        BY <1>1 DEF Send, Become, At
    <2> HIDE DEF h
    <2>3. accounts' = accounts /\ tokens' = tokens /\ cookie' = cookie /\ lost' = lost
        BY <1>1 DEF Send, server
    <2>4. t # None => tokens[t].state # "unborn"
        BY <1>1 DEF IInv, CookiesAreApart
    <2>5. CallHolds(h)'
        BY <1>1, <1>00, <2>1, <2>3, <2>4 DEF CallHolds
    <2>6. ~At(c, "answer.set") /\ ~At(c, "answer.clear")
        BY <2>2 DEF At
    <2>7. h.token # None => h.browser \in Browsers /\ h.token = cookie[h.browser]
        BY <1>1, <2>1
    <2> QED BY <1>0, <1>00, <2>1, <2>2, <2>3, <2>5, <2>6, <2>7, CallStep
<1>2. ASSUME NEW c \in Calls, Arrive(c) PROVE IInv'
    <2>1. \A b \in Browsers : cookie[b] \in Tokens \cup {None}
        BY <1>0 DEF TypeOK
    <2>2. ASSUME NEW b \in Browsers, NEW u \in Users, RegisterBegin(c, b, u) PROVE IInv'
        BY <1>1, <2>2 DEF RegisterBegin
    <2>3. ASSUME NEW b \in Browsers, NEW u \in Users, LoginBegin(c, b, u) PROVE IInv'
        BY <1>1, <2>3 DEF LoginBegin
    <2>4. ASSUME NEW b \in Browsers, RefreshBegin(c, b) PROVE IInv'
        BY <1>1, <2>1, <2>4 DEF RefreshBegin
    <2>5. ASSUME NEW b \in Browsers, LogoutBegin(c, b) PROVE IInv'
        BY <1>1, <2>1, <2>5 DEF LogoutBegin
    <2> QED BY <1>2, <2>2, <2>3, <2>4, <2>5 DEF Arrive
<1>3. ASSUME NEW c \in Calls, NEW pc \in PCs, NEW h, h = [call[c] EXCEPT !.pc = pc], Goto(c, pc),
             UNCHANGED <<tokens, cookie, lost>>, ~Answering(c),
             accounts \subseteq accounts', accounts' \subseteq Users,
             CallHolds(h)'
      PROVE  IInv'
    <2>1. h \in Call /\ h.token = call[c].token /\ h.browser = call[c].browser
              /\ h.fresh = call[c].fresh
        BY <1>0, <1>3, CallTyped DEF Call
    <2>2. call' = [call EXCEPT ![c] = h]
        BY <1>3 DEF Goto, Become
    <2>3. ~At(c, "answer.set") /\ ~At(c, "answer.clear")
        BY <1>3 DEF Answering
    <2>4. lost \subseteq lost' /\ lost' \subseteq Browsers /\ UNCHANGED <<tokens, cookie>>
        BY <1>00, <1>3
    <2> QED BY <1>0, <1>3, <2>1, <2>2, <2>3, <2>4, CallStep
<1>4. ASSUME NEW c \in Calls, Step(c) PROVE IInv'
    <2>0. CallHolds(call[c]) /\ call[c] \in Call
        BY <1>0, CallTyped DEF IInv
    <2>1. CASE RegisterInsert(c)
        <3>1. call[c].user \in Users /\ call[c].pc = "register.insert"
            BY <2>0, <2>1 DEF RegisterInsert, At, CallHolds
        <3>2. accounts' = accounts \cup {call[c].user} /\ UNCHANGED <<tokens, cookie, lost>>
            BY <2>1 DEF RegisterInsert
        <3>3. PICK pc \in {"answer.error", "login.issue"} : Goto(c, pc)
            BY <2>1 DEF RegisterInsert
        <3>4. PICK h : h = [call[c] EXCEPT !.pc = pc]
            OBVIOUS
        <3>5. CallHolds(h)'
            BY <2>0, <3>1, <3>2, <3>4 DEF CallHolds, Call
        <3>6. ~Answering(c)
            BY <3>1 DEF Answering, At
        <3> QED BY <1>3, <1>00, <3>1, <3>2, <3>3, <3>4, <3>5, <3>6 DEF PCs
    <2>2. ASSUME NEW t \in Tokens, LoginIssue(c, t) PROVE IInv'
        <3>1. call[c].pc = "login.issue" /\ call[c].user \in accounts /\ ~Answering(c)
            BY <2>0, <2>2 DEF LoginIssue, At, CallHolds, Answering
        <3> QED BY <1>0, <2>2, <3>1, IssueStep DEF LoginIssue
    <2>3. ASSUME NEW t \in Tokens, RefreshIssue(c, t) PROVE IInv'
        <3>1. call[c].pc = "refresh.issue" /\ call[c].token # None /\ ~Answering(c)
              /\ tokens[call[c].token].state # "unborn"
            BY <2>0, <2>3 DEF RefreshIssue, At, CallHolds, Answering
        <3>2. call[c].token \in Tokens
            BY <1>0, <3>1, CallTyped
        <3>3. tokens[call[c].token].user \in accounts /\ tokens[call[c].token].session \in Tokens
            BY <1>0, <3>1, <3>2 DEF TypeOK
        <3> QED BY <1>0, <2>3, <3>1, <3>3, IssueStep DEF RefreshIssue
    <2>4. CASE RefreshCheck(c) \/ LogoutCheck(c)
        <3>1. PICK pc \in {"refresh.issue", "answer.error", "logout.blacklist", "answer.clear"} :
                  /\ Goto(c, pc)
                  /\ pc \in {"refresh.issue", "answer.error"} => call[c].pc = "refresh.check"
                  /\ pc \in {"logout.blacklist", "answer.clear"} => call[c].pc = "logout.check"
            BY <2>4 DEF RefreshCheck, LogoutCheck, At
        <3>2. UNCHANGED <<accounts, tokens, cookie, lost>>
            BY <2>4 DEF RefreshCheck, LogoutCheck, server
        <3>3. PICK h : h = [call[c] EXCEPT !.pc = pc]
            OBVIOUS
        <3>4. CallHolds(h)'
            BY <2>0, <3>1, <3>2, <3>3 DEF CallHolds, Call
        <3>5. ~Answering(c)
            BY <3>1 DEF Answering, At
        <3> QED BY <1>3, <1>00, <3>1, <3>2, <3>3, <3>4, <3>5 DEF PCs
    <2>5. CASE RefreshBlacklist(c)
        BY <1>0, <2>5, BlacklistStep DEF RefreshBlacklist
    <2>6. CASE LogoutBlacklist(c)
        <3>1. call[c].fresh = None
            BY <2>0, <2>6 DEF LogoutBlacklist, At, CallHolds
        <3> QED BY <1>0, <2>6, <3>1, BlacklistStep DEF LogoutBlacklist
    <2>7. CASE Deliver(c)
        BY <1>0, <2>7, DeliverStep
    <2> QED BY <1>4, <2>1, <2>2, <2>3, <2>4, <2>5, <2>6, <2>7 DEF Step
<1>5. ASSUME NEW c \in Calls, Lose(c) \/ Crash(c) PROVE IInv'
    <2>1. call' = [call EXCEPT ![c] = Idle]
        BY <1>5 DEF Lose, Crash, Finish, Become
    <2>2. UNCHANGED <<accounts, tokens, cookie>>
        BY <1>5 DEF Lose, Crash, server
    <2>3. Idle.token = None /\ Idle.fresh = None
        BY DEF Idle
    <2>4. call[c].browser \in Browsers
        BY <1>5 DEF IInv, CallHolds, Lose, Crash, Answering, At
    <2>5. lost \subseteq lost' /\ lost' \subseteq Browsers
        BY <1>00, <1>5, <2>4 DEF Lose, Crash
    <2>6. At(c, "answer.set") \/ At(c, "answer.clear") =>
              (call[c].token # None => call[c].browser \in lost')
        BY <1>5 DEF Lose, Crash, Answering, At
    <2> QED BY <1>0, <1>00, <2>1, <2>2, <2>3, <2>5, <2>6, IdleHolds, CallStep
<1>6. ASSUME NEW t \in Tokens, Expire(t) PROVE IInv'
    BY <1>0, <1>6, ExpireStep
<1> QED BY <1>2, <1>4, <1>5, <1>6 DEF Next

(* IInv is an invariant of every behaviour. *)
LEMMA SpecInvariant == Spec => []IInv
<1>1. IInv /\ UNCHANGED vars => IInv'
    BY DEF IInv, TypeOK, CallHolds, FreshIsNew, CookiesAreApart, SessionsSurvive, At, vars
<1> QED BY InitHolds, NextKeeps, <1>1, PTL DEF Spec

(* Every token was issued to an account that exists, in a session; the     *)
(* two racing registrations included.                                      *)
THEOREM TypeCorrect == Spec => []TypeOK
<1>1. IInv => TypeOK
    BY DEF IInv
<1> QED BY <1>1, SpecInvariant, PTL

(* However many tabs call at once, in whatever order the answers come, and *)
(* whoever dies, rotation throws no browser out unless an answer is lost.  *)
THEOREM BrowsersKeepASession == Spec => []SessionsSurvive
<1>1. IInv => SessionsSurvive
    BY DEF IInv
<1> QED BY <1>1, SpecInvariant, PTL

-----------------------------------------------------------------------------
(* A session's one token, step by step.  While a session is neither        *)
(* overlapped nor left without an answer, one call at most is about it,    *)
(* and the tokens of it that work are known to that call, or to the one    *)
(* browser whose cookie it is.                                             *)

CookieIn(b, s) == cookie[b] # None /\ tokens[cookie[b]].session = s

(* The tokens of its session that can still work while h is at work. *)
Known(h) ==
    IF h.pc = "refresh.blacklist" THEN {h.token, h.fresh}
    ELSE IF h.pc = "answer.set" THEN {h.fresh}
    ELSE IF h.pc = "answer.clear" THEN {}
    ELSE {h.token}

Alone(s) == \A c, d \in InUse(s) : c = d

CallKnows(s) ==
    \A c \in InUse(s) :
        /\ Live(s) \subseteq Known(call[c])
        /\ \A b \in Browsers : CookieIn(b, s) => cookie[b] = call[c].token

Rests(s) ==
    InUse(s) = {} =>
        /\ \A t, o \in Live(s) : t = o
        /\ \A b \in Browsers : CookieIn(b, s) => /\ Live(s) \subseteq {cookie[b]}
                                                 /\ \A o \in Browsers : CookieIn(o, s) => o = b

StaysOver(s) ==
    s \in over => /\ Live(s) = {}
                  /\ \A c \in InUse(s) : call[c].pc \notin {"refresh.issue", "refresh.blacklist"}

SessionFits(s) == Alone(s) /\ CallKnows(s) /\ Rests(s) /\ StaysOver(s)

(* A fresh token belongs to the session of the token it replaces, or is    *)
(* the first and only one of its own.                                      *)
FreshFits(c) ==
    call[c].fresh # None =>
        IF call[c].token # None
        THEN tokens[call[c].fresh].session = tokens[call[c].token].session
        ELSE \A t \in Tokens \ {call[c].fresh} :
                 tokens[t].state # "unborn"
                    => tokens[t].session # tokens[call[c].fresh].session

Chains ==
    /\ \A t \in Tokens : tokens[t].state # "unborn" => tokens[tokens[t].session].state # "unborn"
    /\ \A s \in over : tokens[s].state # "unborn"
    /\ \A c \in Calls : FreshFits(c) /\ (At(c, "idle") => call[c].token = None)

LiveInv == Chains /\ \A s \in Tokens \ loose : SessionFits(s)
(* Which calls are about a session, and what Live holds, spelled out. *)
LEMMA UseMeans ==
    \A s, c :
        /\ c \in InUse(s) <=> /\ c \in Calls /\ call[c].token # None
                              /\ tokens[call[c].token].session = s
        /\ c \in InUse(s)' <=> /\ c \in Calls /\ call'[c].token # None
                               /\ tokens'[call'[c].token].session = s
BY DEF InUse, SessionOf

(* The tokens of a session that work. *)
LEMMA LiveMeans ==
    \A s, t :
        /\ t \in Live(s) <=> /\ t \in Tokens /\ tokens[t].session = s /\ tokens[t].state = "live"
        /\ t \in Live(s)' <=> /\ t \in Tokens /\ tokens'[t].session = s /\ tokens'[t].state = "live"
BY DEF Live, Valid

(* A set of at most one member. *)
LEMMA AtMostOne ==
    ASSUME NEW S, IsFiniteSet(S), ~(Cardinality(S) > 1)
    PROVE  \A x, y \in S : x = y
<1> SUFFICES ASSUME NEW x \in S, NEW y \in S, x # y PROVE FALSE
    OBVIOUS
<1>1. Cardinality({x, y}) = 2
    <2>1. IsFiniteSet({x}) /\ Cardinality({x}) = 1
        BY FS_Singleton
    <2>2. Cardinality({x} \cup {y}) = 2
        BY <2>1, FS_AddElement
    <2> QED BY <2>2
<1>2. {x, y} \in SUBSET S
    OBVIOUS
<1>3. Cardinality({x, y}) <= Cardinality(S)
    BY <1>2, FS_Subset
<1>4. Cardinality(S) \in Nat
    BY FS_CardinalityType
<1> QED BY <1>1, <1>3, <1>4

(* What stays of a token: once issued it belongs to its session. *)
TokensStay ==
    \A t \in Tokens : tokens[t].state # "unborn" =>
        tokens'[t].state # "unborn" /\ tokens'[t].session = tokens[t].session

(* A call that does not move is about the session it was about. *)
LEMMA UseStays ==
    ASSUME IInv, TokensStay, NEW c \in Calls, call'[c].token = call[c].token
    PROVE  \A s : c \in InUse(s)' <=> c \in InUse(s)
<1>1. call[c].token # None => call[c].token \in Tokens /\ tokens[call[c].token].state # "unborn"
    BY CallTyped DEF IInv, CallHolds
<1> QED BY <1>1, UseMeans DEF TokensStay

(* Only a logout ends a session, and then none of its tokens works.        *)
LEMMA OverFrom ==
    ASSUME NEW s \in Tokens, Alone(s)', CallKnows(s)', over' = over \cup Ended',
           s \in over => /\ Live(s)' = {}
                         /\ \A c \in InUse(s)' :
                                call'[c].pc \notin {"refresh.issue", "refresh.blacklist"}
    PROVE  StaysOver(s)'
<1>1. CASE s \in over
    BY <1>1 DEF StaysOver
<1>2. CASE s \in Ended'
    <2>1. PICK c \in InUse(s)' : call'[c].pc = "answer.clear"
        BY <1>2 DEF Ended, At
    <2>2. Live(s)' = {}
        BY <2>1 DEF CallKnows, Known
    <2>3. \A d \in InUse(s)' : d = c
        BY <2>1 DEF Alone
    <2> QED BY <2>1, <2>2, <2>3 DEF StaysOver
<1> QED BY <1>1, <1>2 DEF StaysOver

(* A step that is not about session s, or expires a token of it. *)
LEMMA Undisturbed ==
    ASSUME NEW s \in Tokens, SessionFits(s), over' = over \cup Ended',
           InUse(s)' = InUse(s), \A c \in InUse(s) : call'[c] = call[c],
           Live(s)' \subseteq Live(s),
           \A b \in Browsers : CookieIn(b, s)' => CookieIn(b, s) /\ cookie'[b] = cookie[b]
    PROVE  SessionFits(s)'
<1>1. Alone(s)'
    BY DEF SessionFits, Alone
<1>2. \A c \in InUse(s) : Known(call[c])' = Known(call[c])
    BY DEF Known
<1>3. CallKnows(s)'
    BY <1>2 DEF SessionFits, CallKnows
<1>4. Rests(s)'
    BY DEF SessionFits, Rests
<1>5. StaysOver(s)'
    <2>1. s \in over => /\ Live(s)' = {}
                        /\ \A c \in InUse(s)' :
                               call'[c].pc \notin {"refresh.issue", "refresh.blacklist"}
        BY DEF SessionFits, StaysOver
    <2> QED BY <1>1, <1>3, <2>1, OverFrom
<1> QED BY <1>1, <1>3, <1>4, <1>5 DEF SessionFits

-----------------------------------------------------------------------------
(* How tokens belong to sessions.                                          *)

(* What ends was issued. *)
LEMMA OverBorn ==
    ASSUME IInv, Chains, IInv', TokensStay, over' = over \cup Ended',
           \A t \in Tokens : tokens'[t].state # "unborn"
                                => tokens'[tokens'[t].session].state # "unborn"
    PROVE  \A s \in over' : tokens'[s].state # "unborn"
<1>1. \A s \in over : tokens'[s].state # "unborn"
    BY DEF IInv, TypeOK, Chains, TokensStay
<1>2. ASSUME NEW s \in Ended' PROVE tokens'[s].state # "unborn"
    <2>1. PICK c \in Calls : call'[c].token # None /\ tokens'[call'[c].token].session = s
        BY UseMeans DEF Ended
    <2>2. call'[c].token \in Tokens
        BY <2>1 DEF IInv, TypeOK, Call
    <2>3. tokens'[call'[c].token].state # "unborn"
        BY <2>1 DEF IInv, CallHolds
    <2> QED BY <2>1, <2>2, <2>3
<1> QED BY <1>1, <1>2

(* No token is issued. *)
NothingIssued ==
    \A t \in Tokens : /\ tokens'[t].state = "unborn" <=> tokens[t].state = "unborn"
                      /\ tokens'[t].session = tokens[t].session

(* Then every token keeps its session. *)
LEMMA QuietChains ==
    ASSUME IInv, Chains, IInv', NothingIssued, over' = over \cup Ended',
           \A c \in Calls : /\ call'[c].fresh # None => /\ call'[c].fresh = call[c].fresh
                                                        /\ call'[c].token = call[c].token
                            /\ call'[c].pc = "idle" => call'[c].token = None
    PROVE  Chains'
<1>1. \A t \in Tokens : tokens'[t].state # "unborn"
                           => tokens'[tokens'[t].session].state # "unborn"
    BY DEF NothingIssued, Chains, IInv, TypeOK
<1>2. TokensStay
    BY DEF NothingIssued, TokensStay
<1>3. \A s \in over' : tokens'[s].state # "unborn"
    BY <1>1, <1>2, OverBorn
<1>4. ASSUME NEW c \in Calls, call'[c].fresh # None PROVE FreshFits(c)'
    <2>1. call'[c].fresh = call[c].fresh /\ call'[c].token = call[c].token /\ FreshFits(c)
        BY <1>4 DEF Chains
    <2>2. call[c].fresh \in Tokens /\ (call[c].token # None => call[c].token \in Tokens)
        BY <1>4, <2>1, CallTyped DEF IInv
    <2> QED BY <1>4, <2>1, <2>2 DEF FreshFits, NothingIssued
<1>5. \A c \in Calls : FreshFits(c)'
    BY <1>4 DEF FreshFits
<1> QED BY <1>1, <1>3, <1>5 DEF Chains, At

(* A token is issued, in the session of the old one or in its own. *)
LEMMA IssueChains ==
    ASSUME IInv, Chains, IInv', over' = over \cup Ended',
           NEW c \in Calls, NEW t \in Tokens, NEW u, NEW s \in Tokens, Issue(t, u, s),
           call'[c].token = call[c].token, call'[c].fresh = t, call'[c].pc # "idle",
           \A d \in Calls \ {c} : call'[d] = call[d],
           IF call[c].token = None THEN s = t ELSE s = tokens[call[c].token].session
    PROVE  Chains' /\ TokensStay
<1>1. /\ tokens[t].state = "unborn"
      /\ tokens'[t].state = "live" /\ tokens'[t].session = s
      /\ \A o \in Tokens \ {t} : tokens'[o] = tokens[o]
    BY DEF IInv, TypeOK, Issue
<1>2. TokensStay
    BY <1>1 DEF TokensStay
<1>3. \A d \in Calls : /\ call[d].token # None => /\ call[d].token \in Tokens \ {t}
                                                  /\ tokens[call[d].token].state # "unborn"
                       /\ call[d].fresh # None => /\ call[d].fresh \in Tokens \ {t}
                                                  /\ tokens[call[d].fresh].state # "unborn"
    BY <1>1, CallTyped DEF IInv, CallHolds
<1>4. \A o \in Tokens : tokens[o].state # "unborn" =>
          tokens[o].session \in Tokens \ {t} /\ tokens[tokens[o].session].state # "unborn"
    BY <1>1 DEF Chains, IInv, TypeOK
<1>5. s # t => tokens[s].state # "unborn"
    BY <1>3, <1>4
<1>6. \A o \in Tokens : tokens'[o].state # "unborn"
                           => tokens'[tokens'[o].session].state # "unborn"
    BY <1>1, <1>4, <1>5
<1>7. \A x \in over' : tokens'[x].state # "unborn"
    BY <1>2, <1>6, OverBorn
<1>8. t # None
    BY NoneAssumption
<1>9. FreshFits(c)'
    BY <1>1, <1>3, <1>4, <1>8 DEF FreshFits
<1>10. ASSUME NEW d \in Calls \ {c} PROVE FreshFits(d)'
    <2>1. CASE call[d].fresh = None
        BY <2>1 DEF FreshFits
    <2>2. CASE call[d].fresh # None /\ call[d].token # None
        BY <1>1, <1>3, <2>2 DEF FreshFits, Chains
    <2>3. CASE call[d].fresh # None /\ call[d].token = None
        <3>1. \A o \in Tokens \ {call[d].fresh} :
                  tokens[o].state # "unborn" => tokens[o].session # tokens[call[d].fresh].session
            BY <2>3 DEF Chains, FreshFits
        <3>2. s # tokens[call[d].fresh].session
            <4>1. CASE call[c].token = None
                BY <1>3, <1>4, <2>3, <4>1
            <4>2. CASE call[c].token # None
                <5>1. call[c].token # call[d].fresh
                    BY <2>3 DEF IInv, FreshIsNew
                <5> QED BY <1>3, <3>1, <4>2, <5>1
            <4> QED BY <4>1, <4>2
        <3> QED BY <1>1, <1>3, <2>3, <3>1, <3>2 DEF FreshFits
    <2> QED BY <2>1, <2>2, <2>3
<1>11. \A d \in Calls : call'[d].pc = "idle" => call'[d].token = None
    BY DEF Chains, At
<1> QED BY <1>2, <1>6, <1>7, <1>9, <1>10, <1>11 DEF Chains, At

-----------------------------------------------------------------------------
(* One session, step by step.                                              *)

(* A call arrives, with the cookie of its browser or without. *)
LEMMA SendFits ==
    ASSUME IInv, Chains, NEW s \in Tokens, SessionFits(s), Alone(s)', over' = over \cup Ended',
           NEW c \in Calls, At(c, "idle"), NEW h, call' = [call EXCEPT ![c] = h],
           UNCHANGED <<tokens, cookie>>,
           h.token # None => /\ h.pc \in {"refresh.check", "logout.check"}
                             /\ \E b \in Browsers : h.token = cookie[b]
    PROVE  SessionFits(s)'
<1>1. call'[c] = h /\ \A d \in Calls \ {c} : call'[d] = call[d]
    BY DEF IInv, TypeOK
<1>2. c \notin InUse(s)
    BY UseMeans DEF Chains
<1>3. \A d \in Calls \ {c} : d \in InUse(s)' <=> d \in InUse(s)
    BY <1>1, UseMeans
<1>4. Live(s)' = Live(s) /\ \A b : CookieIn(b, s)' <=> CookieIn(b, s)
    BY DEF Live, Valid, CookieIn
<1>5. CASE c \notin InUse(s)'
    <2>1. InUse(s)' = InUse(s)
        <3>1. InUse(s) \subseteq Calls /\ InUse(s)' \subseteq Calls
            BY DEF InUse
        <3> QED BY <1>2, <1>3, <1>5, <3>1
    <2> QED BY <1>1, <1>2, <1>4, <2>1, Undisturbed, UseMeans
<1>6. CASE c \in InUse(s)'
    <2>1. InUse(s) = {} /\ InUse(s)' = {c}
        BY <1>2, <1>3, <1>6, UseMeans DEF Alone
    <2>2. PICK b \in Browsers : h.token # None /\ h.token = cookie[b] /\ tokens[cookie[b]].session = s
        BY <1>1, <1>6, UseMeans
    <2>3. /\ Live(s) \subseteq {h.token}
          /\ \A o \in Browsers : CookieIn(o, s) => cookie[o] = h.token
        BY <2>1, <2>2 DEF SessionFits, Rests, CookieIn
    <2>4. Known(h) = {h.token}
        BY <2>2 DEF Known
    <2>5. \A d \in InUse(s)' : call'[d] = h
        BY <1>1, <2>1
    <2>6. CallKnows(s)'
        <3>1. Known(h)' = Known(h)
            BY DEF Known
        <3> QED BY <1>4, <2>3, <2>4, <2>5, <3>1 DEF CallKnows
    <2>7. Rests(s)'
        BY <2>1 DEF Rests
    <2>8. StaysOver(s)'
        <3>1. s \in over => /\ Live(s)' = {}
                            /\ \A d \in InUse(s)' :
                                   call'[d].pc \notin {"refresh.issue", "refresh.blacklist"}
            BY <1>4, <2>2, <2>5 DEF SessionFits, StaysOver
        <3> QED BY <2>6, <3>1, OverFrom
    <2> QED BY <2>6, <2>7, <2>8 DEF SessionFits
<1> QED BY <1>5, <1>6

(* A call goes on and writes no token. *)
LEMMA GotoFits ==
    ASSUME IInv, Chains, NEW s \in Tokens, SessionFits(s), over' = over \cup Ended',
           NEW c \in Calls, NEW h, call' = [call EXCEPT ![c] = h], h.token = call[c].token,
           UNCHANGED <<tokens, cookie>>,
           c \in InUse(s) => /\ Live(s) \subseteq Known(h)
                             /\ h.pc \in {"refresh.issue", "refresh.blacklist"} => s \notin over
    PROVE  SessionFits(s)'
<1>1. call'[c] = h /\ \A d \in Calls \ {c} : call'[d] = call[d]
    BY DEF IInv, TypeOK
<1>2. InUse(s)' = InUse(s)
    <2>1. InUse(s) \subseteq Calls /\ InUse(s)' \subseteq Calls
        BY DEF InUse
    <2>2. \A d \in Calls : call'[d].token = call[d].token
        BY <1>1
    <2>3. \A d \in Calls : d \in InUse(s)' <=> d \in InUse(s)
        BY <2>2, UseMeans
    <2> QED BY <2>1, <2>3
<1>3. Live(s)' = Live(s) /\ \A b : CookieIn(b, s)' <=> CookieIn(b, s)
    BY DEF Live, Valid, CookieIn
<1>4. Alone(s)' /\ Rests(s)'
    BY <1>2, <1>3 DEF SessionFits, Alone, Rests
<1>5. CallKnows(s)'
    <2> SUFFICES ASSUME NEW d \in InUse(s)
                 PROVE  /\ Live(s) \subseteq Known(call[d])'
                        /\ \A b \in Browsers : CookieIn(b, s) => cookie[b] = call'[d].token
        BY <1>2, <1>3 DEF CallKnows
    <2>1. d \in Calls
        BY UseMeans
    <2>2. CASE d = c
        <3>1. Known(call[d])' = Known(h)
            BY <1>1, <2>2 DEF Known
        <3> QED BY <1>1, <2>2, <3>1 DEF SessionFits, CallKnows
    <2>3. CASE d # c
        <3>1. Known(call[d])' = Known(call[d])
            BY <1>1, <2>1, <2>3 DEF Known
        <3> QED BY <1>1, <2>1, <2>3, <3>1 DEF SessionFits, CallKnows
    <2> QED BY <2>2, <2>3
<1>6. StaysOver(s)'
    <2>1. s \in over => /\ Live(s)' = {}
                        /\ \A d \in InUse(s)' :
                               call'[d].pc \notin {"refresh.issue", "refresh.blacklist"}
        BY <1>1, <1>2, <1>3, UseMeans DEF SessionFits, StaysOver
    <2> QED BY <1>4, <1>5, <2>1, OverFrom
<1> QED BY <1>4, <1>5, <1>6 DEF SessionFits

(* A check lets pass only a token that works. *)
LEMMA CheckFits ==
    ASSUME IInv, Chains, NEW s \in Tokens, SessionFits(s), over' = over \cup Ended',
           NEW c \in Calls, RefreshCheck(c) \/ LogoutCheck(c)
    PROVE  SessionFits(s)'
<1>1. PICK pc \in {"refresh.issue", "answer.error", "logout.blacklist", "answer.clear"} :
          /\ Goto(c, pc)
          /\ pc \in {"refresh.issue", "logout.blacklist"} => Valid(call[c].token)
          /\ pc = "answer.clear" => ~Valid(call[c].token)
    BY DEF RefreshCheck, LogoutCheck
<1>2. PICK h : h = [call[c] EXCEPT !.pc = pc]
    OBVIOUS
<1>3. h.pc = pc /\ h.token = call[c].token /\ call' = [call EXCEPT ![c] = h]
    BY <1>1, <1>2, CallTyped DEF IInv, Call, Goto, Become
<1>4. UNCHANGED <<tokens, cookie>>
    BY DEF RefreshCheck, LogoutCheck, server
<1>5. ASSUME c \in InUse(s)
      PROVE  /\ Live(s) \subseteq Known(h)
             /\ h.pc \in {"refresh.issue", "refresh.blacklist"} => s \notin over
    <2>1. call[c].pc \in {"refresh.check", "logout.check"}
        BY DEF RefreshCheck, LogoutCheck, At
    <2>2. Live(s) \subseteq {call[c].token}
        BY <1>5, <2>1 DEF SessionFits, CallKnows, Known
    <2>3. call[c].token \in Tokens /\ tokens[call[c].token].session = s
        BY <1>5, UseMeans, CallTyped DEF IInv
    <2>4. call[c].token \in Live(s) <=> Valid(call[c].token)
        BY <2>3 DEF Live
    <2> QED BY <1>1, <1>3, <2>2, <2>4 DEF Known, SessionFits, StaysOver
<1> QED BY <1>3, <1>4, <1>5, GotoFits

(* Expiry. *)
LEMMA ExpireFits ==
    ASSUME IInv, NEW s \in Tokens, SessionFits(s), over' = over \cup Ended',
           NEW t \in Tokens, Expire(t)
    PROVE  SessionFits(s)'
<1>1. UNCHANGED <<call, cookie>>
    BY DEF Expire
<1>2. \A o \in Tokens : /\ tokens'[o].session = tokens[o].session
                        /\ tokens'[o].state = "live" => tokens[o].state = "live"
    BY DEF IInv, TypeOK, Token, Expire
<1>3. InUse(s)' = InUse(s)
    BY <1>1, <1>2, UseMeans, CallTyped DEF IInv
<1>4. Live(s)' \subseteq Live(s)
    BY <1>2 DEF Live, Valid
<1>5. \A b \in Browsers : CookieIn(b, s)' => CookieIn(b, s)
    BY <1>1, <1>2 DEF IInv, TypeOK, CookieIn
<1> QED BY <1>1, <1>3, <1>4, <1>5, Undisturbed

(* A call and a cookie that carry no fresh token stay about their session. *)
LEMMA CarriersStay ==
    ASSUME IInv, TokensStay, NEW s
    PROVE  /\ \A d \in Calls : call'[d].token = call[d].token => (d \in InUse(s)' <=> d \in InUse(s))
           /\ \A b \in Browsers : cookie'[b] = cookie[b] => (CookieIn(b, s)' <=> CookieIn(b, s))
<1>1. ASSUME NEW b \in Browsers, cookie'[b] = cookie[b], cookie[b] # None
      PROVE  tokens'[cookie[b]].session = tokens[cookie[b]].session
    BY <1>1 DEF IInv, TypeOK, CookiesAreApart, TokensStay
<1> QED BY <1>1, UseStays DEF CookieIn

(* A token is issued. *)
LEMMA IssueFits ==
    ASSUME IInv, Chains, TokensStay, NEW s \in Tokens, SessionFits(s), over' = over \cup Ended',
           NEW c \in Calls, NEW t \in Tokens, LoginIssue(c, t) \/ RefreshIssue(c, t)
    PROVE  SessionFits(s)'
<1>0. PICK h : h = call'[c]
    OBVIOUS
<1>1. /\ \A d \in Calls \ {c} : call'[d] = call[d]
      /\ h.token = call[c].token /\ h.fresh = t
      /\ h.pc = IF LoginIssue(c, t) THEN "answer.set" ELSE "refresh.blacklist"
      /\ call[c].pc = IF LoginIssue(c, t) THEN "login.issue" ELSE "refresh.issue"
    <2>1. PICK pc : /\ pc = IF LoginIssue(c, t) THEN "answer.set" ELSE "refresh.blacklist"
                    /\ Become(c, [call[c] EXCEPT !.pc = pc, !.fresh = t])
                    /\ call[c].pc = IF LoginIssue(c, t) THEN "login.issue" ELSE "refresh.issue"
        BY DEF LoginIssue, RefreshIssue, At
    <2>2. PICK g : g = [call[c] EXCEPT !.pc = pc, !.fresh = t]
        OBVIOUS
    <2>3. g.pc = pc /\ g.fresh = t /\ g.token = call[c].token
        BY <2>2, CallTyped DEF IInv, Call
    <2>4. call' = [call EXCEPT ![c] = g]
        BY <2>1, <2>2 DEF Become
    <2>5. call'[c] = g /\ \A d \in Calls \ {c} : call'[d] = call[d]
        BY <2>4 DEF IInv, TypeOK
    <2> QED BY <1>0, <2>1, <2>3, <2>5
<1>2. UNCHANGED cookie
    BY DEF LoginIssue, RefreshIssue
<1>3. PICK x \in Tokens \cup {None} :
          /\ tokens[t].state = "unborn" /\ tokens'[t].state = "live" /\ tokens'[t].session = x
          /\ \A o \in Tokens \ {t} : tokens'[o] = tokens[o]
          /\ x = IF LoginIssue(c, t) THEN t ELSE tokens[call[c].token].session
    <2>1. CASE LoginIssue(c, t)
        BY <2>1 DEF IInv, TypeOK, LoginIssue, Issue
    <2>2. CASE RefreshIssue(c, t) /\ ~LoginIssue(c, t)
        <3>1. call[c].token \in Tokens
            BY <2>2, CallTyped DEF IInv, CallHolds, RefreshIssue, At
        <3>2. tokens[call[c].token].session \in Tokens \cup {None}
            BY <3>1 DEF IInv, TypeOK, Token
        <3> QED BY <2>2, <3>2 DEF IInv, TypeOK, RefreshIssue, Issue
    <2> QED BY <2>1, <2>2
<1>4. Live(s)' = IF x = s THEN Live(s) \cup {t} ELSE Live(s)
    BY <1>3 DEF Live, Valid
<1>5. InUse(s)' = InUse(s)
    <2>1. InUse(s) \subseteq Calls /\ InUse(s)' \subseteq Calls
        BY DEF InUse
    <2>2. \A d \in Calls : call'[d].token = call[d].token
        BY <1>0, <1>1
    <2>3. \A d \in Calls : d \in InUse(s)' <=> d \in InUse(s)
        BY <2>2, CarriersStay
    <2> QED BY <2>1, <2>3
<1>6. \A b \in Browsers : CookieIn(b, s)' <=> CookieIn(b, s)
    BY <1>2, CarriersStay
<1>7. CASE x # s
    <2>1. c \notin InUse(s)
        <3>1. LoginIssue(c, t) => call[c].token = None
            BY <1>1 DEF IInv, CallHolds
        <3> QED BY <1>3, <1>7, <3>1, UseMeans
    <2>2. \A d \in InUse(s) : call'[d] = call[d]
        BY <1>1, <2>1, UseMeans
    <2>3. Live(s)' \subseteq Live(s)
        BY <1>4, <1>7
    <2> QED BY <1>2, <1>5, <1>6, <2>2, <2>3, Undisturbed
<1>8. CASE x = s /\ LoginIssue(c, t)
    <2>0. s = t
        BY <1>3, <1>8
    <2>1. \A o \in Tokens : tokens[o].state # "unborn" => tokens[o].session # t
        BY <1>3 DEF Chains
    <2>2. InUse(s) = {}
        <3>1. ASSUME NEW d \in InUse(s) PROVE FALSE
            <4>1. d \in Calls /\ call[d].token # None /\ tokens[call[d].token].session = t
                BY <2>0, <3>1, UseMeans
            <4>2. call[d].token \in Tokens /\ tokens[call[d].token].state # "unborn"
                BY <4>1, CallTyped DEF IInv, CallHolds
            <4> QED BY <2>1, <4>1, <4>2
        <3> QED BY <3>1
    <2>3. \A b \in Browsers : ~CookieIn(b, s)
        BY <2>0, <2>1 DEF CookieIn, IInv, TypeOK, CookiesAreApart
    <2>4. Live(s) = {}
        BY <2>0, <2>1 DEF Live, Valid
    <2>5. s \notin over
        BY <1>3, <2>0 DEF Chains
    <2>6. Alone(s)' /\ CallKnows(s)'
        BY <1>5, <2>2 DEF Alone, CallKnows
    <2>7. Rests(s)'
        BY <1>4, <1>6, <1>8, <2>3, <2>4 DEF Rests
    <2> QED BY <2>5, <2>6, <2>7, OverFrom DEF SessionFits
<1>9. CASE x = s /\ ~LoginIssue(c, t)
    <2>1. call[c].pc = "refresh.issue" /\ h.pc = "refresh.blacklist"
        BY <1>1, <1>9
    <2>2. call[c].token # None
        BY <2>1 DEF IInv, CallHolds
    <2>3. c \in InUse(s)
        BY <1>3, <1>9, <2>2, UseMeans
    <2>4. InUse(s) = {c}
        BY <2>3 DEF SessionFits, Alone
    <2>5. Live(s) \subseteq {call[c].token} /\ s \notin over
        BY <2>1, <2>3 DEF SessionFits, CallKnows, Known, StaysOver
    <2>6. Alone(s)' /\ Rests(s)'
        BY <1>5, <2>4 DEF Alone, Rests
    <2>7. CallKnows(s)'
        <3>1. Known(call[c])' = {h.token, t}
            BY <1>0, <1>1, <2>1 DEF Known
        <3>2. Live(s)' \subseteq Known(call[c])'
            BY <1>1, <1>4, <2>5, <3>1
        <3>3. \A b \in Browsers : CookieIn(b, s)' => cookie'[b] = call'[c].token
            BY <1>0, <1>1, <1>2, <1>6, <2>3 DEF SessionFits, CallKnows
        <3> QED BY <1>5, <2>4, <3>2, <3>3 DEF CallKnows
    <2> QED BY <2>5, <2>6, <2>7, OverFrom DEF SessionFits
<1> QED BY <1>7, <1>8, <1>9

(* The old token, or the one that logs out, is blacklisted. *)
LEMMA BlacklistFits ==
    ASSUME IInv, Chains, TokensStay, NEW s \in Tokens, SessionFits(s), over' = over \cup Ended',
           NEW c \in Calls, RefreshBlacklist(c) \/ LogoutBlacklist(c)
    PROVE  SessionFits(s)'
<1>0. PICK h : h = call'[c]
    OBVIOUS
<1>1. /\ \A d \in Calls \ {c} : call'[d] = call[d]
      /\ h.token = call[c].token /\ h.fresh = call[c].fresh
      /\ \/ call[c].pc = "refresh.blacklist" /\ h.pc = "answer.set"
         \/ call[c].pc = "logout.blacklist" /\ h.pc = "answer.clear"
    BY <1>0, CallTyped
       DEF IInv, TypeOK, RefreshBlacklist, LogoutBlacklist, Goto, Become, Call, At
<1>2. UNCHANGED cookie
    BY DEF RefreshBlacklist, LogoutBlacklist
<1>3. PICK x : x = call[c].token
    OBVIOUS
<1>4. x \in Tokens /\ x # None /\ tokens' = [tokens EXCEPT ![x].state = "blacklisted"]
    BY <1>1, <1>3, CallTyped DEF IInv, CallHolds, RefreshBlacklist, LogoutBlacklist, Blacklist
<1>5. Live(s)' = Live(s) \ {x}
    BY <1>4 DEF IInv, TypeOK, Token, Live, Valid
<1>6. InUse(s)' = InUse(s)
    <2>1. InUse(s) \subseteq Calls /\ InUse(s)' \subseteq Calls
        BY DEF InUse
    <2>2. \A d \in Calls : call'[d].token = call[d].token
        BY <1>0, <1>1
    <2>3. \A d \in Calls : d \in InUse(s)' <=> d \in InUse(s)
        BY <2>2, CarriersStay
    <2> QED BY <2>1, <2>3
<1>7. \A b \in Browsers : CookieIn(b, s)' <=> CookieIn(b, s)
    BY <1>2, CarriersStay
<1>8. CASE c \notin InUse(s)
    <2>1. \A d \in InUse(s) : call'[d] = call[d]
        BY <1>1, <1>8, UseMeans
    <2>2. Live(s)' \subseteq Live(s)
        BY <1>5
    <2> QED BY <1>2, <1>6, <1>7, <2>1, <2>2, Undisturbed
<1>9. CASE c \in InUse(s)
    <2>1. InUse(s) = {c}
        BY <1>9 DEF SessionFits, Alone
    <2>2. Alone(s)' /\ Rests(s)'
        BY <1>6, <2>1 DEF Alone, Rests
    <2>3. Live(s) \subseteq Known(call[c])
        BY <1>9 DEF SessionFits, CallKnows
    <2>4. Live(s)' \subseteq Known(call[c])'
        BY <1>0, <1>1, <1>3, <1>5, <2>3 DEF Known
    <2>5. CallKnows(s)'
        <3>1. \A b \in Browsers : CookieIn(b, s)' => cookie'[b] = call'[c].token
            BY <1>0, <1>1, <1>2, <1>7, <1>9 DEF SessionFits, CallKnows
        <3> QED BY <1>6, <2>1, <2>4, <3>1 DEF CallKnows
    <2>6. s \in over => /\ Live(s)' = {}
                        /\ \A d \in InUse(s)' :
                               call'[d].pc \notin {"refresh.issue", "refresh.blacklist"}
        BY <1>0, <1>1, <1>5, <1>6, <2>1 DEF SessionFits, StaysOver
    <2> QED BY <2>2, <2>5, <2>6, OverFrom DEF SessionFits
<1> QED BY <1>8, <1>9

(* An answer arrives. *)
LEMMA DeliverFits ==
    ASSUME IInv, Chains, TokensStay, NEW s \in Tokens, SessionFits(s), over' = over \cup Ended',
           NEW c \in Calls, Deliver(c)
    PROVE  SessionFits(s)'
<1>0. PICK g, b : g = call[c] /\ b = g.browser
    OBVIOUS
<1>1. /\ call' = [call EXCEPT ![c] = Idle] /\ UNCHANGED tokens
      /\ g.pc \in {"answer.set", "answer.clear", "answer.error"}
      /\ cookie' = IF g.pc = "answer.error" THEN cookie ELSE [cookie EXCEPT ![b] = g.fresh]
    BY <1>0 DEF Deliver, Finish, Become, server, Answering, At
<1>2. /\ call'[c] = Idle /\ Idle.token = None
      /\ \A d \in Calls \ {c} : call'[d] = call[d]
    BY <1>1 DEF IInv, TypeOK, Idle
<1>3. b \in Browsers /\ CallHolds(g)
    BY <1>0, <1>1 DEF IInv, CallHolds
<1>4. /\ \A o \in Browsers \ {b} : cookie'[o] = cookie[o]
      /\ cookie'[b] = IF g.pc = "answer.error" THEN cookie[b] ELSE g.fresh
    BY <1>1, <1>3 DEF IInv, TypeOK
<1>5. Live(s)' = Live(s)
    BY <1>1 DEF Live, Valid
<1>6. InUse(s)' = InUse(s) \ {c}
    <2>1. InUse(s) \subseteq Calls /\ InUse(s)' \subseteq Calls /\ c \notin InUse(s)'
        BY <1>2, UseMeans
    <2>2. \A d \in Calls \ {c} : d \in InUse(s)' <=> d \in InUse(s)
        BY <1>2, CarriersStay
    <2> QED BY <2>1, <2>2
<1>7. \A o \in Browsers \ {b} : CookieIn(o, s)' <=> CookieIn(o, s)
    BY <1>4, CarriersStay
<1>8. CASE c \in InUse(s)
    <2>1. InUse(s)' = {}
        BY <1>6, <1>8 DEF SessionFits, Alone
    <2>2. g.token # None /\ tokens[g.token].session = s
        BY <1>0, <1>8, UseMeans
    <2>3. \A o \in Browsers \ {b} : ~CookieIn(o, s)
        <3>1. ASSUME NEW o \in Browsers, CookieIn(o, s) PROVE cookie[o] = g.token
            BY <1>0, <1>8, <3>1 DEF SessionFits, CallKnows
        <3>2. ASSUME NEW o \in Browsers, CookieIn(o, s) PROVE o = b
            BY <1>0, <3>1, <3>2 DEF IInv, CookiesAreApart, CookieIn
        <3> QED BY <3>2
    <2>4. Live(s) \subseteq Known(g)
        BY <1>0, <1>8 DEF SessionFits, CallKnows
    <2>5. CookieIn(b, s)' => Live(s) \subseteq {cookie'[b]}
        <3>1. CASE g.pc = "answer.error"
            <4>1. CookieIn(b, s)' <=> CookieIn(b, s)
                BY <1>3, <1>4, <3>1, CarriersStay
            <4>2. CookieIn(b, s) => cookie[b] = g.token
                BY <1>0, <1>3, <1>8 DEF SessionFits, CallKnows
            <4> QED BY <1>4, <2>4, <3>1, <4>1, <4>2 DEF Known
        <3>2. CASE g.pc = "answer.set"
            BY <1>4, <2>4, <3>2 DEF Known
        <3>3. CASE g.pc = "answer.clear"
            BY <2>4, <3>3 DEF Known
        <3> QED BY <1>1, <3>1, <3>2, <3>3
    <2>6. \A t, o \in Live(s) : t = o
        BY <1>1, <2>4 DEF Known
    <2>7. Rests(s)'
        BY <1>5, <1>7, <2>3, <2>5, <2>6 DEF Rests
    <2>8. Alone(s)' /\ CallKnows(s)'
        BY <2>1 DEF Alone, CallKnows
    <2>9. s \in over => Live(s)' = {}
        BY <1>5 DEF SessionFits, StaysOver
    <2> QED BY <2>1, <2>7, <2>8, <2>9, OverFrom DEF SessionFits
<1>9. CASE c \notin InUse(s) /\ (CookieIn(b, s)' => CookieIn(b, s) /\ cookie'[b] = cookie[b])
    <2>1. InUse(s)' = InUse(s) /\ \A d \in InUse(s) : call'[d] = call[d]
        BY <1>2, <1>6, <1>9, UseMeans
    <2>2. Live(s)' \subseteq Live(s)
        BY <1>5
    <2>3. \A o \in Browsers : CookieIn(o, s)' => CookieIn(o, s) /\ cookie'[o] = cookie[o]
        BY <1>4, <1>7, <1>9
    <2> QED BY <2>1, <2>2, <2>3, Undisturbed
<1>10. CASE c \notin InUse(s) /\ CookieIn(b, s)' /\ ~(CookieIn(b, s) /\ cookie'[b] = cookie[b])
    <2>1. g.pc # "answer.error"
        BY <1>3, <1>4, <1>10, CarriersStay
    <2>2. PICK f : f = g.fresh /\ f = cookie'[b] /\ f # None /\ tokens[f].session = s
        BY <1>1, <1>4, <1>10, <2>1 DEF CookieIn
    <2>3. FreshFits(c)
        BY DEF Chains
    <2>4. g.token = None
        BY <1>0, <1>10, <2>2, <2>3, UseMeans DEF FreshFits
    <2>5. \A t \in Tokens \ {f} : tokens[t].state # "unborn" => tokens[t].session # s
        BY <1>0, <2>2, <2>3, <2>4 DEF FreshFits
    <2>6. InUse(s) = {}
        <3>1. ASSUME NEW d \in InUse(s) PROVE FALSE
            <4>1. d \in Calls /\ call[d].token # None /\ tokens[call[d].token].session = s
                BY <3>1, UseMeans
            <4>2. call[d].token \in Tokens /\ tokens[call[d].token].state # "unborn"
                BY <4>1, CallTyped DEF IInv, CallHolds
            <4>3. call[d].token # f
                BY <1>0, <2>2, <4>1 DEF IInv, FreshIsNew
            <4> QED BY <2>5, <4>1, <4>2, <4>3
        <3> QED BY <3>1
    <2>7. \A o \in Browsers : ~CookieIn(o, s)
        <3>1. ASSUME NEW o \in Browsers, CookieIn(o, s) PROVE FALSE
            <4>1. cookie[o] \in Tokens /\ tokens[cookie[o]].state # "unborn"
                BY <3>1 DEF CookieIn, IInv, TypeOK, CookiesAreApart
            <4>2. cookie[o] # f
                BY <1>0, <2>2 DEF IInv, FreshIsNew
            <4> QED BY <2>5, <3>1, <4>1, <4>2 DEF CookieIn
        <3> QED BY <3>1
    <2>8. Live(s) \subseteq {f}
        BY <2>5 DEF Live, Valid
    <2>9. Rests(s)'
        BY <1>5, <1>7, <2>2, <2>7, <2>8 DEF Rests
    <2>10. InUse(s)' = {}
        BY <1>6, <2>6
    <2>11. Alone(s)' /\ CallKnows(s)'
        BY <2>10 DEF Alone, CallKnows
    <2>12. s \in over => Live(s)' = {}
        BY <1>5 DEF SessionFits, StaysOver
    <2> QED BY <2>9, <2>10, <2>11, <2>12, OverFrom DEF SessionFits
<1> QED BY <1>8, <1>9, <1>10

(* An answer or a process is lost: the session is loose from then on, and  *)
(* the others are not concerned.                                           *)
LEMMA LostFits ==
    ASSUME IInv, TokensStay, NEW s \in Tokens, SessionFits(s), over' = over \cup Ended',
           NEW c \in Calls, Lose(c) \/ Crash(c), s \notin SessionOf(call[c])
    PROVE  SessionFits(s)'
<1>1. call' = [call EXCEPT ![c] = Idle] /\ UNCHANGED <<tokens, cookie>>
    BY DEF Lose, Crash, Finish, Become, server
<1>2. /\ call'[c] = Idle /\ Idle.token = None
      /\ \A d \in Calls \ {c} : call'[d] = call[d]
    BY <1>1 DEF IInv, TypeOK, Idle
<1>3. c \notin InUse(s) /\ c \notin InUse(s)'
    BY <1>2, UseMeans DEF InUse
<1>4. InUse(s)' = InUse(s) /\ \A d \in InUse(s) : call'[d] = call[d]
    <2>1. InUse(s) \subseteq Calls /\ InUse(s)' \subseteq Calls
        BY DEF InUse
    <2>2. \A d \in Calls \ {c} : d \in InUse(s)' <=> d \in InUse(s)
        BY <1>2, CarriersStay
    <2> QED BY <1>2, <1>3, <2>1, <2>2
<1>5. Live(s)' \subseteq Live(s) /\ \A b \in Browsers : CookieIn(b, s)' => CookieIn(b, s)
    BY <1>1 DEF Live, Valid, CookieIn
<1> QED BY <1>1, <1>4, <1>5, Undisturbed

-----------------------------------------------------------------------------
(* Together.                                                               *)

(* At the start there is no token. *)
LEMMA InitLive == Init => LiveInv
<1> SUFFICES ASSUME Init PROVE LiveInv
    OBVIOUS
<1>1. Chains
    BY DEF Init, Chains, FreshFits, Idle, At
<1>2. ASSUME NEW s \in Tokens PROVE SessionFits(s)
    <2>1. InUse(s) = {}
        BY UseMeans DEF Init, Idle
    <2>2. Live(s) = {} /\ s \notin over /\ \A b \in Browsers : ~CookieIn(b, s)
        BY DEF Init, Live, Valid, CookieIn
    <2> QED BY <2>1, <2>2 DEF SessionFits, Alone, CallKnows, Rests, StaysOver
<1> QED BY <1>1, <1>2 DEF LiveInv

(* A call is sent by a browser that has nothing fresh yet. *)
LEMMA ArriveSends ==
    ASSUME NEW c \in Calls, Arrive(c)
    PROVE  \E h : /\ call' = [call EXCEPT ![c] = h] /\ UNCHANGED <<tokens, cookie>> /\ At(c, "idle")
                  /\ h.fresh = None /\ h.pc # "idle"
                  /\ h.token # None => /\ h.pc \in {"refresh.check", "logout.check"}
                                       /\ \E b \in Browsers : h.token = cookie[b]
<1>1. ASSUME NEW b \in Browsers, NEW u, NEW t, NEW pc, Send(c, pc, b, u, t), pc # "idle",
             t # None => pc \in {"refresh.check", "logout.check"} /\ t = cookie[b]
      PROVE  \E h : /\ call' = [call EXCEPT ![c] = h] /\ UNCHANGED <<tokens, cookie>> /\ At(c, "idle")
                    /\ h.fresh = None /\ h.pc # "idle"
                    /\ h.token # None => /\ h.pc \in {"refresh.check", "logout.check"}
                                         /\ \E o \in Browsers : h.token = cookie[o]
    <2>1. PICK h : h = [Idle EXCEPT !.pc = pc, !.browser = b, !.user = u, !.token = t]
        OBVIOUS
    <2>2. h.pc = pc /\ h.token = t /\ h.fresh = None
        BY <2>1 DEF Idle
    <2>3. call' = [call EXCEPT ![c] = h] /\ UNCHANGED <<tokens, cookie>> /\ At(c, "idle")
        BY <1>1, <2>1 DEF Send, Become, server
    <2> QED BY <1>1, <2>2, <2>3
<1> QED BY <1>1 DEF Arrive, RegisterBegin, LoginBegin, RefreshBegin, LogoutBegin

(* Every step keeps tokens in their sessions. *)
LEMMA NextChains ==
    ASSUME IInv, Chains, IInv', Next
    PROVE  Chains' /\ TokensStay
<1>0. over' = over \cup Ended'
    BY DEF Next
<1>1. NothingIssued => TokensStay
    BY DEF NothingIssued, TokensStay
<1>2. ASSUME NEW c \in Calls, NEW h, call' = [call EXCEPT ![c] = h], NothingIssued,
             h.fresh # None => h.fresh = call[c].fresh /\ h.token = call[c].token,
             h.pc = "idle" => h.token = None
      PROVE  Chains' /\ TokensStay
    <2>1. call'[c] = h /\ \A d \in Calls \ {c} : call'[d] = call[d]
        BY <1>2 DEF IInv, TypeOK
    <2>2. \A d \in Calls : /\ call'[d].fresh # None => /\ call'[d].fresh = call[d].fresh
                                                       /\ call'[d].token = call[d].token
                           /\ call'[d].pc = "idle" => call'[d].token = None
        BY <1>2, <2>1 DEF Chains, At
    <2> QED BY <1>0, <1>1, <1>2, <2>2, QuietChains
<1>3. UNCHANGED tokens => NothingIssued
    BY DEF NothingIssued
<1>4. ASSUME NEW c \in Calls, Arrive(c) PROVE Chains' /\ TokensStay
    BY <1>2, <1>3, <1>4, ArriveSends
<1>5. ASSUME NEW c \in Calls, Finish(c), NothingIssued PROVE Chains' /\ TokensStay
    BY <1>2, <1>5 DEF Finish, Become, Idle
<1>6. ASSUME NEW c \in Calls, NEW pc, Goto(c, pc), pc # "idle", NothingIssued
      PROVE  Chains' /\ TokensStay
    <2>1. PICK h : h = [call[c] EXCEPT !.pc = pc]
        OBVIOUS
    <2>2. h.pc = pc /\ h.fresh = call[c].fresh /\ h.token = call[c].token
        BY <2>1, CallTyped DEF IInv, Call
    <2> QED BY <1>2, <1>6, <2>1, <2>2 DEF Goto, Become
<1>7. ASSUME NEW c \in Calls, NEW t \in Tokens, LoginIssue(c, t) \/ RefreshIssue(c, t)
      PROVE  Chains' /\ TokensStay
    <2>1. PICK pc : /\ pc \in {"answer.set", "refresh.blacklist"}
                    /\ Become(c, [call[c] EXCEPT !.pc = pc, !.fresh = t])
        BY <1>7 DEF LoginIssue, RefreshIssue
    <2>2. PICK h : h = [call[c] EXCEPT !.pc = pc, !.fresh = t]
        OBVIOUS
    <2>3. h.pc = pc /\ h.fresh = t /\ h.token = call[c].token
        BY <2>2, CallTyped DEF IInv, Call
    <2>4. call' = [call EXCEPT ![c] = h]
        BY <2>1, <2>2 DEF Become
    <2>5. call'[c] = h /\ \A d \in Calls \ {c} : call'[d] = call[d]
        BY <2>4 DEF IInv, TypeOK
    <2>6. PICK s, u : /\ Issue(t, u, s)
                      /\ s = IF call[c].token = None THEN t ELSE tokens[call[c].token].session
        <3>1. CASE LoginIssue(c, t)
            <4>1. call[c].token = None
                BY <3>1 DEF IInv, CallHolds, LoginIssue, At
            <4> QED BY <3>1, <4>1 DEF LoginIssue
        <3>2. CASE RefreshIssue(c, t)
            <4>1. call[c].token # None
                BY <3>2 DEF IInv, CallHolds, RefreshIssue, At
            <4> QED BY <3>2, <4>1 DEF RefreshIssue
        <3> QED BY <1>7, <3>1, <3>2
    <2>7. s \in Tokens
        BY <2>6, CallTyped DEF IInv, TypeOK, CallHolds
    <2> QED BY <1>0, <2>1, <2>3, <2>5, <2>6, <2>7, IssueChains
<1>8. ASSUME NEW x, tokens' = [tokens EXCEPT ![x].state = "blacklisted"], x \in Tokens,
             tokens[x].state # "unborn"
      PROVE  NothingIssued
    BY <1>8 DEF IInv, TypeOK, Token, NothingIssued
<1>9. ASSUME NEW c \in Calls, RefreshBlacklist(c) \/ LogoutBlacklist(c)
      PROVE  Chains' /\ TokensStay
    <2>1. PICK x : x = call[c].token
        OBVIOUS
    <2>2. x \in Tokens /\ tokens[x].state # "unborn"
        BY <1>9, <2>1, CallTyped DEF IInv, CallHolds, RefreshBlacklist, LogoutBlacklist, At
    <2>3. tokens' = [tokens EXCEPT ![x].state = "blacklisted"]
        BY <1>9, <2>1 DEF RefreshBlacklist, LogoutBlacklist, Blacklist
    <2> QED BY <1>6, <1>8, <1>9, <2>2, <2>3 DEF RefreshBlacklist, LogoutBlacklist
<1>10. ASSUME NEW c \in Calls, Step(c) PROVE Chains' /\ TokensStay
    <2>1. CASE RegisterInsert(c) \/ RefreshCheck(c) \/ LogoutCheck(c)
        BY <1>3, <1>6, <2>1 DEF RegisterInsert, RefreshCheck, LogoutCheck, server
    <2>2. CASE Deliver(c)
        BY <1>3, <1>5, <2>2 DEF Deliver, server
    <2> QED BY <1>7, <1>9, <1>10, <2>1, <2>2 DEF Step
<1>11. ASSUME NEW c \in Calls, Lose(c) \/ Crash(c) PROVE Chains' /\ TokensStay
    BY <1>3, <1>5, <1>11 DEF Lose, Crash, server
<1>12. ASSUME NEW t \in Tokens, Expire(t) PROVE Chains' /\ TokensStay
    <2>1. NothingIssued /\ UNCHANGED call
        BY <1>12 DEF IInv, TypeOK, Token, NothingIssued, Expire
    <2> QED BY <1>0, <1>1, <2>1, QuietChains DEF Chains, At
<1> QED BY <1>4, <1>10, <1>11, <1>12 DEF Next

(* Every step keeps every session that is not loose. *)
LEMMA NextLive ==
    ASSUME IsFiniteSet(Calls), IInv, LiveInv, IInv', Next
    PROVE  LiveInv'
<1>0. Chains' /\ TokensStay /\ Chains /\ over' = over \cup Ended'
    BY NextChains DEF LiveInv, Next
<1> SUFFICES ASSUME NEW s \in Tokens, s \notin loose' PROVE SessionFits(s)'
    BY <1>0 DEF LiveInv
<1>1. SessionFits(s)
    BY DEF LiveInv, Next
<1>2. ASSUME s \notin Overlap' PROVE Alone(s)'
    <2>1. IsFiniteSet(InUse(s)')
        BY FS_Subset DEF InUse
    <2>2. ~(Cardinality(InUse(s)') > 1)
        BY <1>2 DEF Overlap
    <2> QED BY <2>1, <2>2, AtMostOne DEF Alone
<1>3. ASSUME NEW c \in Calls, Arrive(c), s \notin Overlap' PROVE SessionFits(s)'
    BY <1>0, <1>1, <1>2, <1>3, ArriveSends, SendFits
<1>4. ASSUME NEW c \in Calls, Step(c) PROVE SessionFits(s)'
    <2>1. CASE RegisterInsert(c)
        <3>1. PICK pc : Goto(c, pc)
            BY <2>1 DEF RegisterInsert
        <3>2. PICK h : h = [call[c] EXCEPT !.pc = pc]
            OBVIOUS
        <3>3. h.token = call[c].token /\ call' = [call EXCEPT ![c] = h]
            BY <3>1, <3>2, CallTyped DEF IInv, Call, Goto, Become
        <3>4. call[c].token = None
            BY <2>1 DEF RegisterInsert, IInv, CallHolds, At
        <3>5. c \notin InUse(s) /\ UNCHANGED <<tokens, cookie>>
            BY <2>1, <3>4, UseMeans DEF RegisterInsert
        <3> QED BY <1>0, <1>1, <3>3, <3>5, GotoFits
    <2> QED BY <1>0, <1>1, <1>4, <2>1, IssueFits, CheckFits, BlacklistFits, DeliverFits DEF Step
<1>5. ASSUME NEW c \in Calls, Lose(c) \/ Crash(c), s \notin SessionOf(call[c])
      PROVE  SessionFits(s)'
    BY <1>0, <1>1, <1>5, LostFits
<1>6. ASSUME NEW t \in Tokens, Expire(t) PROVE SessionFits(s)'
    BY <1>0, <1>1, <1>6, ExpireFits
<1> QED BY <1>3, <1>4, <1>5, <1>6 DEF Next

(* What it says of the number of tokens. *)
LEMMA LiveCounts == LiveInv => OneLiveTokenEach
<1> SUFFICES ASSUME LiveInv, NEW s \in Tokens \ loose
             PROVE  Cardinality(Live(s)) <=
                        IF s \in over THEN 0
                        ELSE IF \E c \in InUse(s) : At(c, "refresh.blacklist") THEN 2 ELSE 1
    BY DEF OneLiveTokenEach
<1>0. SessionFits(s)
    BY DEF LiveInv
<1>1. ASSUME NEW S, NEW x, S \subseteq {x} PROVE Cardinality(S) <= 1
    <2>1. IsFiniteSet({x}) /\ Cardinality({x}) = 1
        BY FS_Singleton
    <2> QED BY <1>1, <2>1, FS_Subset
<1>2. CASE s \in over
    <2>1. Live(s) = {}
        BY <1>0, <1>2 DEF SessionFits, StaysOver
    <2> QED BY <1>2, <2>1, FS_EmptySet
<1>3. CASE s \notin over /\ \E c \in InUse(s) : At(c, "refresh.blacklist")
    <2>1. PICK c \in InUse(s) : call[c].pc = "refresh.blacklist"
        BY <1>3 DEF At
    <2>2. PICK x, y : x = call[c].token /\ y = call[c].fresh
        OBVIOUS
    <2>3. Live(s) \subseteq {x} \cup {y}
        BY <1>0, <2>1, <2>2 DEF SessionFits, CallKnows, Known
    <2>4. IsFiniteSet({x}) /\ Cardinality({x}) = 1
        BY FS_Singleton
    <2>5. IsFiniteSet({x} \cup {y}) /\ Cardinality({x} \cup {y}) <= 2
        BY <2>4, FS_AddElement
    <2>6. Cardinality(Live(s)) <= Cardinality({x} \cup {y}) /\ IsFiniteSet(Live(s))
        BY <2>3, <2>5, FS_Subset
    <2>7. Cardinality(Live(s)) \in Nat /\ Cardinality({x} \cup {y}) \in Nat
        BY <2>5, <2>6, FS_CardinalityType
    <2>8. Cardinality(Live(s)) <= 2
        BY <2>5, <2>6, <2>7
    <2> QED BY <1>3, <2>8
<1>4. CASE s \notin over /\ ~\E c \in InUse(s) : At(c, "refresh.blacklist")
    <2>1. \E x : Live(s) \subseteq {x}
        <3>1. CASE InUse(s) = {}
            <4>1. \A t, o \in Live(s) : t = o
                BY <1>0, <3>1 DEF SessionFits, Rests
            <4> QED BY <4>1
        <3>2. ASSUME NEW c \in InUse(s) PROVE \E x : Live(s) \subseteq {x}
            <4>1. Live(s) \subseteq Known(call[c]) /\ call[c].pc # "refresh.blacklist"
                BY <1>0, <1>4, <3>2 DEF SessionFits, CallKnows, At
            <4>2. \/ Known(call[c]) = {call[c].fresh}
                  \/ Known(call[c]) = {}
                  \/ Known(call[c]) = {call[c].token}
                BY <4>1 DEF Known
            <4> QED BY <4>1, <4>2
        <3> QED BY <3>1, <3>2
    <2> QED BY <1>1, <1>4, <2>1
<1> QED BY <1>2, <1>3, <1>4

(* However many browsers, tokens and tabs there are, a session whose calls *)
(* neither overlapped nor came to nothing has one refresh token that works *)
(* (two while the old one is being blacklisted), and none after a logout.  *)
THEOREM OneTokenEach == ASSUME IsFiniteSet(Calls) PROVE Spec => []OneLiveTokenEach
<1>1. IInv /\ LiveInv /\ IInv' /\ Next => LiveInv'
    BY NextLive
<1>2. LiveInv /\ UNCHANGED vars => LiveInv'
    BY DEF vars, LiveInv, Chains, FreshFits, At, SessionFits, Alone, CallKnows, Rests, StaysOver,
       InUse, SessionOf, Live, Valid, CookieIn, Known
<1> QED BY <1>1, <1>2, InitLive, LiveCounts, SpecInvariant, PTL DEF Spec
=============================================================================

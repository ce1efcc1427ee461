--------------------------- MODULE SessionsProofs ----------------------------
(***************************************************************************)
(* Proofs about sessions, for any browsers, users, lifetimes and bounds.   *)
(*                                                                         *)
(* RoleIsRecent carries the moment a role held through the three copies    *)
(* that are made of it: the answer of /users/me, the session and the       *)
(* check.  TokensIdentify says that a CSRF token names one session and a   *)
(* state one browser, because random() draws both anew.                    *)
(***************************************************************************)
EXTENDS Sessions, TLAPS

USE SessionsAssumption

\* Before anybody logs in the invariant holds.
LEMMA InitInv == Init => IInv
<1> SUFFICES ASSUME Init PROVE IInv
  OBVIOUS
<1>1. TypeOK
  BY DEF Init, TypeOK
<1>2. RoleIsRecent
  BY DEF Init, RoleIsRecent
<1>3. NotAskedYet /\ TokensIdentify /\ LoginFollowsFlow
  BY DEF Init, TokensIdentify, NotAskedYet, LoginFollowsFlow
<1> QED
  BY <1>1, <1>2, <1>3 DEF IInv

\* What a new session looks like.
LEMMA IssueFacts ==
  ASSUME TypeOK, NEW c \in calls, Issue(c)
  PROVE  /\ session' \in [Browser -> Session \cup {None}]
         /\ c.browser \in Browser
         /\ session'[c.browser] # None
         /\ session'[c.browser].user = c.link.user /\ session'[c.browser].admin = c.admin
         /\ session'[c.browser].csrf = fresh /\ session'[c.browser].exp = now + SessionTTL
         /\ session'[c.browser].by = c.link.by
         /\ \A b \in Browser \ {c.browser} : session'[b] = session[b]
<1> DEFINE s == [user |-> c.link.user, admin |-> c.admin, csrf |-> fresh,
                 exp |-> now + SessionTTL, by |-> c.link.by]
<1>1. c \in Call /\ c.browser \in Browser
  BY DEF TypeOK, Call
<1>2. c.link.user \in User /\ c.link.by \in Browser /\ fresh \in Nat /\ now + SessionTTL \in Nat
  BY <1>1 DEF Call, TypeOK, Link
<1>3. s \in Session
  <2>1. c.admin \in BOOLEAN
    BY <1>1, Zenon DEF Call
  <2> QED
    BY <1>2, <2>1, Zenon DEF Session, Token
<1>4. /\ s # None /\ s.user = c.link.user /\ s.admin = c.admin /\ s.csrf = fresh
      /\ s.exp = now + SessionTTL /\ s.by = c.link.by
  BY <1>3
<1>5. session' = [session EXCEPT ![c.browser] = s]
  BY DEF Issue
<1> HIDE DEF s
<1> QED
  BY <1>1, <1>3, <1>4, <1>5 DEF TypeOK

\* The call that Exchange puts in place of c.
LEMMA ExchangedCall ==
  ASSUME NEW c \in Call, NEW due \in Nat
  PROVE  LET d == [c EXCEPT !.stage = "me", !.due = due] IN
         d \in Call /\ d.link = c.link /\ d.browser = c.browser /\ d.due = due /\ d.admin = c.admin
<1>1. [c EXCEPT !.stage = "me", !.due = due] \in Call
  BY ZenonT(60) DEF Call
<1> QED
  BY <1>1 DEF Call

\* The call that me puts in place of c.
LEMMA AnsweredCall ==
  ASSUME NEW c \in Call, NEW admin \in BOOLEAN
  PROVE  LET d == [c EXCEPT !.stage = "issue", !.admin = admin] IN
         d \in Call /\ d.link = c.link /\ d.browser = c.browser /\ d.due = c.due /\ d.admin = admin
<1>1. [c EXCEPT !.stage = "issue", !.admin = admin] \in Call
  BY ZenonT(60) DEF Call
<1> QED
  BY <1>1 DEF Call

\* Who a request may be from: the test hook, or the user of a live session.
LEMMA CallerFacts ==
  ASSUME TypeOK, NEW r \in Gets \cup Posts, Caller(r) # None
  PROVE  \/ Caller(r) = testUser /\ r.bearer # None /\ testToken # NoToken
         \/ /\ Caller(r) = session[r.jar] /\ r.bearer = None
            /\ r.jar \in Browser
            /\ session[r.jar] \in Session /\ ~(session[r.jar].exp < now)
<1>1. r.jar \in Browser
  <2>1. CASE r \in Gets
    BY <2>1, SMTT(60) DEF Gets
  <2>2. CASE r \in [method : {"POST"}, jar : Browser, bearer : Bearer, form : {None}]
    BY <2>2, SMTT(60)
  <2>3. ASSUME NEW p \in pages, r = [method |-> "POST", jar |-> p.browser, bearer |-> None, form |-> p]
        PROVE  r.jar \in Browser
    BY <2>3, SMTT(60) DEF TypeOK, Page
  <2> QED
    BY <2>1, <2>2, <2>3, ZenonT(60) DEF Posts
<1>2. session[r.jar] # None => session[r.jar] \in Session
  BY <1>1, ZenonT(60) DEF TypeOK
<1> QED
  BY <1>1, <1>2, SMTT(60) DEF Caller

\* A page that a request leaves open is the session's.
LEMMA ViewFacts ==
  ASSUME TypeOK, NEW r \in Gets, View(r)
  PROVE  /\ r.jar \in Browser /\ session[r.jar] # None /\ session[r.jar] \in Session
         /\ pages' = pages \cup {[browser |-> r.jar, csrf |-> session[r.jar].csrf,
                                  user |-> session[r.jar].user]}
         /\ UNCHANGED <<now, fresh, coder, session, flow, testToken, calls, changes>>
<1>1. /\ Caller(r) # None /\ r.bearer = None
      /\ pages' = pages \cup {[browser |-> r.jar, csrf |-> Caller(r).csrf, user |-> Caller(r).user]}
      /\ UNCHANGED <<now, fresh, coder, session, flow, testToken, calls, changes>>
  BY ZenonT(60) DEF View, Allows
<1>2. Caller(r) = session[r.jar] /\ r.jar \in Browser /\ session[r.jar] \in Session
  BY <1>1, CallerFacts, ZenonT(60)
<1> QED
  BY <1>1, <1>2, ZenonT(60)

\* Logging out ends one session at most.
LEMMA LogoutFacts ==
  ASSUME TypeOK, NEW r \in Posts, Logout(r)
  PROVE  /\ \A b \in Browser : session'[b] \in {session[b], None}
         /\ session' \in [Browser -> Session \cup {None}]
         /\ UNCHANGED <<now, fresh, coder, flow, pages, testToken, calls, changes>>
<1>1. /\ session' = [session EXCEPT ![r.jar] = None]
      /\ UNCHANGED <<now, fresh, coder, flow, pages, testToken, calls, changes>>
  BY ZenonT(60) DEF Logout
<1>2. session \in [Browser -> Session \cup {None}]
  BY DEF TypeOK
<1> QED
  BY <1>1, <1>2, ZenonT(60)

\* Every step keeps the types.
LEMMA TypeStep == TypeOK /\ [Next]_vars => TypeOK'
<1> SUFFICES ASSUME TypeOK, [Next]_vars PROVE TypeOK'
  OBVIOUS
<1> USE DEF coder, browsers
<1>0. calls \subseteq Call
  BY DEF TypeOK
<1>1. CASE Tick
  BY <1>1 DEF Tick, TypeOK
<1>2. ASSUME NEW u \in User, RoleChange(u) PROVE TypeOK'
  <2>1. role' \in [User -> BOOLEAN]
    BY <1>2, Zenon DEF RoleChange, TypeOK
  <2> QED
    BY <1>2, <2>1 DEF RoleChange, TypeOK
<1>3. ASSUME NEW a \in asked, NEW u \in User, Authorize(a, u) PROVE TypeOK'
  BY <1>3 DEF Authorize, TypeOK, Asked, Link
<1>4. ASSUME NEW b \in Browser, Login(b) PROVE TypeOK'
  <2>1. [state |-> fresh, exp |-> now + FlowTTL] \in Flow /\ [state |-> fresh, by |-> b] \in Asked
    BY DEF TypeOK, Flow, Asked, Token
  <2> QED
    BY <1>4, <2>1 DEF Login, TypeOK
<1>5. ASSUME NEW r \in Gets, View(r) PROVE TypeOK'
  <2>1. [browser |-> r.jar, csrf |-> session[r.jar].csrf, user |-> session[r.jar].user] \in Page
    BY <1>5, ViewFacts, SMTT(60) DEF Page, Session
  <2>2. /\ pages' = pages \cup {[browser |-> r.jar, csrf |-> session[r.jar].csrf,
                                 user |-> session[r.jar].user]}
        /\ UNCHANGED <<now, fresh, role, seen, asked, links, spent, session, flow, testToken,
                       calls, changes>>
    BY <1>5, ViewFacts, SMTT(60)
  <2>3. pages' \subseteq Page
    BY <2>1, <2>2, SMTT(60) DEF TypeOK
  <2> QED
    BY <2>2, <2>3, SMTT(60) DEF TypeOK
<1>6. ASSUME NEW b \in Browser, NEW l \in links, Callback(b, l) PROVE TypeOK'
  <2>1. [browser |-> b, link |-> l, stage |-> "exchange", admin |-> FALSE, due |-> now + Timeout] \in Call
    <3>1. l \in Link /\ now + Timeout \in Nat
      BY DEF TypeOK
    <3> QED BY <3>1, Zenon DEF Call
  <2> QED
    BY ZenonT(60), <1>6, <2>1 DEF Callback, TypeOK
<1>7. ASSUME NEW c \in calls, Exchange(c) PROVE TypeOK'
  <2>1. now + Timeout \in Nat /\ c.link \in Link
    BY <1>0 DEF TypeOK, Call
  <2>2. [c EXCEPT !.stage = "me", !.due = now + Timeout] \in Call
    BY ZenonT(60), <1>0, <2>1, ExchangedCall
  <2>3. calls' \subseteq Call
    BY <1>0, <1>7, <2>2, Zenon DEF Exchange
  <2> QED
    BY <1>7, <2>1, <2>3 DEF Exchange, TypeOK
<1>8. ASSUME NEW c \in calls, me(c) PROVE TypeOK'
  <2>1. c \in Call /\ c.link.user \in User
    BY <1>0 DEF Call, Link
  <2>2. role[c.link.user] \in BOOLEAN
    BY <2>1, ZenonT(60) DEF TypeOK
  <2>3. calls' \subseteq Call
    BY ZenonT(60), <1>0, <1>8, <2>2, AnsweredCall DEF me
  <2> QED
    BY <1>8, <2>3 DEF me, TypeOK
<1>9. ASSUME NEW c \in calls, Issue(c) PROVE TypeOK'
  <2>1. session' \in [Browser -> Session \cup {None}] /\ c.browser \in Browser
    BY <1>9, IssueFacts
  <2>2. /\ UNCHANGED <<now, coder, pages, testToken, changes>> /\ calls' \subseteq calls
        /\ fresh' = fresh + 1 /\ flow' = [flow EXCEPT ![c.browser] = None]
    BY <1>9 DEF Issue
  <2> QED
    BY <2>1, <2>2 DEF TypeOK
<1>10. ASSUME NEW c \in calls, CallbackFails(c) PROVE TypeOK'
  BY ZenonT(60), <1>10 DEF CallbackFails, TypeOK
<1>11. ASSUME NEW c \in calls, Abandon(c) PROVE TypeOK'
  BY <1>11 DEF Abandon, TypeOK
<1>12. ASSUME NEW r \in Posts, Logout(r) PROVE TypeOK'
  BY ZenonT(60), <1>12, LogoutFacts DEF TypeOK
<1>13. ASSUME NEW t \in Bearer \cup {NoToken}, Restart(t) PROVE TypeOK'
  BY ZenonT(60), <1>13 DEF Restart, TypeOK
<1>14. CASE UNCHANGED vars
  BY SMTT(60), <1>14 DEF vars, TypeOK
<1> QED
  BY <1>1, <1>2, <1>3, <1>4, <1>5, <1>6, <1>7, <1>8, <1>9, <1>10, <1>11, <1>12,
     <1>13, <1>14 DEF Next

\* Every step keeps RoleIsRecent.
LEMMA RoleStep == IInv /\ [Next]_vars => RoleIsRecent'
<1> SUFFICES ASSUME IInv, [Next]_vars PROVE RoleIsRecent'
  BY Zenon
<1> USE DEF coder, browsers
<1>0. /\ now \in Nat /\ calls \subseteq Call
      /\ \A u \in User : seen[u] \in Nat
      /\ \A c \in Call : c.due \in Nat /\ c.link.user \in User /\ c.browser \in Browser
      /\ \A b \in Browser : session[b] # None => session[b].user \in User /\ session[b].exp \in Nat
  BY SMTT(60) DEF IInv, TypeOK, Call, Link, Session
<1>1. CASE Tick
  <2>1. /\ now' = now + 1 /\ UNCHANGED <<role, session, calls>>
        /\ \A c \in calls : now < c.due
        /\ \A u \in User : seen'[u] = IF role[u] THEN now + 1 ELSE seen[u]
    BY <1>1 DEF Tick
  <2>2. \A u \in User : seen[u] <= seen'[u] /\ seen'[u] <= now' /\ seen'[u] \in Nat
                         /\ (role[u] => seen'[u] = now')
    BY <1>0, <2>1 DEF IInv, RoleIsRecent
  <2>3. \A c \in calls :
          /\ now' <= c.due /\ c.due <= now' + Timeout
          /\ c.admin => seen'[c.link.user] # 0 /\ c.due <= seen'[c.link.user] + Timeout
    BY <1>0, <2>1, <2>2 DEF IInv, RoleIsRecent
  <2>4. \A b \in Browser : session[b] # None /\ session[b].admin =>
          /\ seen'[session[b].user] # 0
          /\ session[b].exp <= seen'[session[b].user] + SessionTTL + Timeout
    BY SMTT(60), <1>0, <2>2 DEF IInv, RoleIsRecent
  <2> QED
    BY <1>0, <2>1, <2>2, <2>3, <2>4 DEF RoleIsRecent
<1>2. ASSUME NEW u \in User, RoleChange(u) PROVE RoleIsRecent'
  <2>1. /\ UNCHANGED <<now, session, calls>>
        /\ seen'[u] = now /\ \A v \in User \ {u} : seen'[v] = seen[v] /\ role'[v] = role[v]
    BY <1>2 DEF RoleChange, IInv, TypeOK
  <2>2. \A v \in User : seen[v] <= seen'[v] /\ seen'[v] <= now /\ seen'[v] \in Nat
                         /\ (role'[v] => seen'[v] = now)
    BY <1>0, <2>1 DEF IInv, RoleIsRecent
  <2>3. \A c \in calls :
          c.admin => seen'[c.link.user] # 0 /\ c.due <= seen'[c.link.user] + Timeout
    BY <1>0, <2>2 DEF IInv, RoleIsRecent
  <2>4. \A b \in Browser : session[b] # None /\ session[b].admin =>
          /\ seen'[session[b].user] # 0
          /\ session[b].exp <= seen'[session[b].user] + SessionTTL + Timeout
    BY SMTT(60), <1>0, <2>2 DEF IInv, RoleIsRecent
  <2> QED
    BY <2>1, <2>2, <2>3, <2>4 DEF IInv, RoleIsRecent
<1>3. ASSUME NEW b \in Browser, NEW l \in links, Callback(b, l) PROVE RoleIsRecent'
  <2> DEFINE d == [browser |-> b, link |-> l, stage |-> "exchange", admin |-> FALSE, due |-> now + Timeout]
  <2>1. calls' = calls \cup {d} /\ UNCHANGED <<now, role, seen, session>>
    BY <1>3 DEF Callback
  <2>2. d.due = now + Timeout /\ d.admin = FALSE
    BY SMTT(60)
  <2> HIDE DEF d
  <2> QED
    BY SMTT(60), <1>0, <2>1, <2>2 DEF IInv, RoleIsRecent
<1>4. ASSUME NEW c \in calls, Exchange(c) PROVE RoleIsRecent'
  <2> DEFINE d == [c EXCEPT !.stage = "me", !.due = now + Timeout]
  <2>1. calls' \subseteq calls \cup {d} /\ UNCHANGED <<now, role, seen, session>>
    BY ZenonT(60), <1>4 DEF Exchange
  <2>2. d.due = now + Timeout /\ d.admin = c.admin /\ d.link = c.link
    <3>1. c \in Call /\ now + Timeout \in Nat
      BY <1>0
    <3> QED BY ZenonT(60), <3>1, ExchangedCall
  <2>3. ~c.admin
    BY <1>4 DEF Exchange, IInv, NotAskedYet
  <2> HIDE DEF d
  <2> QED
    BY <1>0, <2>1, <2>2, <2>3 DEF IInv, RoleIsRecent
<1>5. ASSUME NEW c \in calls, me(c) PROVE RoleIsRecent'
  <2> DEFINE d == [c EXCEPT !.stage = "issue", !.admin = role[c.link.user]]
  <2>1. calls' \subseteq calls \cup {d} /\ UNCHANGED <<now, role, seen, session>>
    BY ZenonT(60), <1>5 DEF me
  <2>2. d.due = c.due /\ d.admin = role[c.link.user] /\ d.link = c.link
    <3>1. role[c.link.user] \in BOOLEAN
      BY <1>0, Zenon DEF IInv, TypeOK
    <3> QED
      BY ZenonT(60), <1>0, <3>1, AnsweredCall
  <2> HIDE DEF d
  <2> QED
    BY <1>0, <2>1, <2>2 DEF IInv, RoleIsRecent
<1>6. ASSUME NEW c \in calls, Issue(c) PROVE RoleIsRecent'
  <2>1. calls' \subseteq calls /\ UNCHANGED <<now, role, seen>>
    BY <1>6 DEF Issue
  <2>2. /\ c.browser \in Browser
        /\ session'[c.browser].user = c.link.user /\ session'[c.browser].admin = c.admin
        /\ session'[c.browser].exp = now + SessionTTL
        /\ \A b \in Browser \ {c.browser} : session'[b] = session[b]
    BY <1>6, IssueFacts DEF IInv
  <2>3. c.admin => /\ seen[c.link.user] # 0
                   /\ now + SessionTTL <= seen[c.link.user] + SessionTTL + Timeout
    BY <1>0 DEF IInv, RoleIsRecent
  <2> QED
    BY <2>1, <2>2, <2>3 DEF IInv, RoleIsRecent
<1>7. ASSUME NEW r \in Posts, Logout(r) PROVE RoleIsRecent'
  <2>1. UNCHANGED <<now, role, seen, calls>> /\ \A b \in Browser : session'[b] \in {session[b], None}
    BY ZenonT(60), <1>7, LogoutFacts DEF IInv
  <2> QED
    BY <2>1 DEF IInv, RoleIsRecent
<1>8. CASE UNCHANGED <<now, role, seen, session>> /\ calls' \subseteq calls
  BY SMTT(60), <1>8 DEF IInv, RoleIsRecent
<1> QED
  BY ZenonT(60), <1>1, <1>2, <1>3, <1>4, <1>5, <1>6, <1>7, <1>8
  DEF Next, vars, Authorize, Login, View, CallbackFails, Abandon, Restart

\* Every step keeps TokensIdentify.
LEMMA TokensStep == IInv /\ [Next]_vars => TokensIdentify'
<1> DEFINE OneUser(x) ==
      /\ \A b, d \in Browser :
           x[b] # None /\ x[d] # None /\ x[b].csrf = x[d].csrf => x[b].user = x[d].user
      /\ \A p \in pages, b \in Browser :
           x[b] # None /\ x[b].csrf = p.csrf => x[b].user = p.user
<1> SUFFICES ASSUME IInv, [Next]_vars PROVE TokensIdentify'
  OBVIOUS
<1> USE DEF coder, browsers
<1>0. fresh \in Nat /\ calls \subseteq Call
  BY SMTT(60) DEF IInv, TypeOK
<1>u. OneUser(session)
  BY ZenonT(60) DEF IInv, TokensIdentify
<1>1. ASSUME NEW a \in asked, NEW u \in User, Authorize(a, u) PROVE TokensIdentify'
  <2> DEFINE l == [state |-> a.state, by |-> a.by, user |-> u]
  <2>1. links' = links \cup {l} /\ UNCHANGED <<fresh, asked, session, flow, pages, calls>>
    BY <1>1 DEF Authorize
  <2>2. [state |-> l.state, by |-> l.by] \in asked
    BY SMTT(60) DEF IInv, TypeOK, Asked
  <2> HIDE DEF l
  <2> QED
    BY <2>1, <2>2 DEF IInv, TokensIdentify
<1>2. ASSUME NEW b \in Browser, Login(b) PROVE TokensIdentify'
  <2> DEFINE a == [state |-> fresh, by |-> b]
  <2>1. /\ asked' = asked \cup {a} /\ fresh' = fresh + 1 /\ UNCHANGED <<links, session, pages, calls>>
        /\ \A d \in Browser \ {b} : flow'[d] = flow[d]
        /\ flow'[b].state = fresh
    <3>1. /\ asked' = asked \cup {a} /\ fresh' = fresh + 1 /\ UNCHANGED <<links, session, pages, calls>>
          /\ flow' = [flow EXCEPT ![b] = [state |-> fresh, exp |-> now + FlowTTL]]
      BY <1>2, ZenonT(60) DEF Login
    <3>2. flow \in [Browser -> Flow \cup {None}]
      BY ZenonT(60) DEF IInv, TypeOK
    <3> HIDE DEF a
    <3> QED BY <3>1, <3>2, SMTT(60)
  <2>2. a.state = fresh /\ a.by = b /\ [state |-> flow'[b].state, by |-> b] \in asked'
    BY SMTT(60), <2>1
  <2>3. /\ \A p \in pages : p.csrf \in Nat
        /\ \A d \in Browser : session[d] # None => session[d].csrf \in Nat
        /\ \A d \in asked : d.state \in Nat /\ d.state < fresh
    BY SMTT(60) DEF IInv, TypeOK, TokensIdentify, Page, Session, Asked, Token
  <2>4. /\ \A d \in asked' : d.state < fresh'
        /\ \A d, e \in asked' : d.state = e.state => d.by = e.by
    <3>1. \A d, e \in asked : d.state = e.state => d.by = e.by
      BY ZenonT(60) DEF IInv, TokensIdentify
    <3> HIDE DEF a
    <3> QED BY SMTT(60), <1>0, <2>1, <2>2, <2>3, <3>1
  <2>5. /\ \A d \in Browser : session[d] # None => session[d].csrf < fresh'
        /\ \A p \in pages : p.csrf < fresh'
    <3>1. /\ \A d \in Browser : session[d] # None => session[d].csrf < fresh
          /\ \A p \in pages : p.csrf < fresh
      BY ZenonT(60) DEF IInv, TokensIdentify
    <3> QED BY SMTT(60), <1>0, <2>1, <2>3, <3>1
  <2>6. /\ \A d \in Browser : flow'[d] # None => [state |-> flow'[d].state, by |-> d] \in asked'
        /\ \A l \in links : [state |-> l.state, by |-> l.by] \in asked'
    BY SMTT(60), <2>1, <2>2 DEF IInv, TokensIdentify
  <2> QED
    BY <2>1, <2>4, <2>5, <2>6, ZenonT(60) DEF IInv, TokensIdentify
<1>3. ASSUME NEW r \in Gets, View(r) PROVE TokensIdentify'
  <2> DEFINE b == r.jar
             p == [browser |-> b, csrf |-> session[b].csrf, user |-> session[b].user]
  <2>1. /\ pages' = pages \cup {p} /\ b \in Browser /\ session[b] # None
        /\ UNCHANGED <<fresh, asked, links, session, flow, calls>>
    BY <1>3, ViewFacts, ZenonT(60) DEF IInv
  <2>2. p.csrf = session[b].csrf /\ p.user = session[b].user
    BY SMTT(60)
  <2> HIDE DEF p, b
  <2>3. \A d \in Browser : session[d] # None /\ session[d].csrf = p.csrf => session[d].user = p.user
    BY SMTT(60), <2>1, <2>2 DEF IInv, TokensIdentify
  <2> QED
    BY SMTT(60), <2>1, <2>2, <2>3 DEF IInv, TokensIdentify
<1>4. ASSUME NEW b \in Browser, NEW l \in links, Callback(b, l) PROVE TokensIdentify'
  <2> DEFINE d == [browser |-> b, link |-> l, stage |-> "exchange", admin |-> FALSE, due |-> now + Timeout]
  <2>1. /\ calls' = calls \cup {d} /\ flow[b] # None /\ flow[b].state = l.state
        /\ UNCHANGED <<fresh, asked, links, session, flow, pages>>
    BY <1>4 DEF Callback
  <2>2. d.link = l /\ d.browser = b
    OBVIOUS
  <2> HIDE DEF d
  <2>3. l.by = b
    BY <2>1, Zenon DEF IInv, TokensIdentify
  <2> QED
    BY SMTT(60), <2>1, <2>2, <2>3 DEF IInv, TokensIdentify
<1>5. ASSUME NEW c \in calls, Exchange(c) PROVE TokensIdentify'
  <2> DEFINE d == [c EXCEPT !.stage = "me", !.due = now + Timeout]
  <2>1. calls' \subseteq calls \cup {d} /\ UNCHANGED <<fresh, asked, links, session, flow, pages>>
    BY ZenonT(60), <1>5 DEF Exchange
  <2>2. d.browser = c.browser /\ d.link = c.link
    <3>1. c \in Call /\ now + Timeout \in Nat
      BY <1>0 DEF IInv, TypeOK
    <3> QED BY ZenonT(60), <3>1, ExchangedCall
  <2> HIDE DEF d
  <2> QED
    BY SMTT(60), <2>1, <2>2 DEF IInv, TokensIdentify
<1>6. ASSUME NEW c \in calls, me(c) PROVE TokensIdentify'
  <2> DEFINE d == [c EXCEPT !.stage = "issue", !.admin = role[c.link.user]]
  <2>1. calls' \subseteq calls \cup {d} /\ UNCHANGED <<fresh, asked, links, session, flow, pages>>
    BY <1>6 DEF me
  <2>2. d.browser = c.browser /\ d.link = c.link
    BY SMTT(60), <1>0 DEF Call
  <2> HIDE DEF d
  <2> QED
    BY <2>1, <2>2 DEF IInv, TokensIdentify
<1>7. ASSUME NEW c \in calls, Issue(c) PROVE TokensIdentify'
  <2>1. /\ calls' \subseteq calls /\ fresh' = fresh + 1 /\ UNCHANGED <<asked, links, pages>>
        /\ \A b \in Browser : flow'[b] \in {flow[b], None}
    BY SMTT(60), <1>7 DEF Issue, IInv, TypeOK
  <2>2. /\ c.browser \in Browser /\ session'[c.browser].csrf = fresh
        /\ \A b \in Browser \ {c.browser} : session'[b] = session[b]
    BY <1>7, IssueFacts DEF IInv
  <2>3. /\ \A p \in pages : p.csrf \in Nat
        /\ \A d \in Browser : session[d] # None => session[d].csrf \in Nat
        /\ \A d \in asked : d.state \in Nat
    BY SMTT(60) DEF IInv, TypeOK, Page, Session, Asked, Token
  <2>4. /\ \A b \in Browser : session'[b] # None => session'[b].csrf < fresh'
        /\ \A p \in pages : p.csrf < fresh' /\ p.csrf # fresh
        /\ \A a \in asked : a.state < fresh'
        /\ \A b \in Browser : session[b] # None => session[b].csrf # fresh
    <3>1. /\ \A b \in Browser : session[b] # None => session[b].csrf < fresh
          /\ \A p \in pages : p.csrf < fresh
          /\ \A a \in asked : a.state < fresh
      BY ZenonT(60) DEF IInv, TokensIdentify
    <3> QED
      BY SMTT(60), <1>0, <2>1, <2>2, <2>3, <3>1
  <2>5. OneUser(session')
    BY <1>u, <2>2, <2>4, SMTT(60)
  <2>6. \A b \in Browser : flow'[b] # None => [state |-> flow'[b].state, by |-> b] \in asked
    BY <2>1, ZenonT(60) DEF IInv, TokensIdentify
  <2> QED
    BY <2>1, <2>4, <2>5, <2>6, ZenonT(60) DEF IInv, TokensIdentify
<1>8. ASSUME NEW r \in Posts, Logout(r) PROVE TokensIdentify'
  <2>1. /\ UNCHANGED <<fresh, asked, links, flow, pages, calls>>
        /\ \A b \in Browser : session'[b] \in {session[b], None}
    BY ZenonT(60), <1>8, LogoutFacts DEF IInv
  <2>2. OneUser(session')
    BY <1>u, <2>1, SMTT(60)
  <2>3. \A b \in Browser : session'[b] # None => session'[b].csrf < fresh
    BY <2>1, ZenonT(60) DEF IInv, TokensIdentify
  <2> QED
    BY <2>1, <2>2, <2>3, ZenonT(60) DEF IInv, TokensIdentify
<1>9. ASSUME NEW c \in calls, CallbackFails(c) PROVE TokensIdentify'
  <2>1. /\ UNCHANGED <<fresh, asked, links, session, pages>> /\ calls' \subseteq calls
        /\ \A b \in Browser : flow'[b] \in {flow[b], None}
    BY <1>9, SMTT(60) DEF CallbackFails, IInv, TypeOK
  <2> QED
    BY <2>1, ZenonT(60) DEF IInv, TokensIdentify
<1>10. CASE UNCHANGED <<fresh, asked, links, session, flow, pages>> /\ calls' \subseteq calls
  BY ZenonT(60), <1>10 DEF IInv, TokensIdentify
<1> QED
  BY <1>1, <1>2, <1>3, <1>4, <1>5, <1>6, <1>7, <1>8, <1>9, <1>10
  DEF Next, vars, Tick, RoleChange, Abandon, Restart

\* A role is known only to calls that me has answered.
LEMMA NotAskedStep == IInv /\ [Next]_vars => NotAskedYet'
<1> SUFFICES ASSUME IInv, [Next]_vars, NEW d \in calls', d.admin PROVE d.stage = "issue"
  BY DEF NotAskedYet
<1>1. CASE d \in calls
  BY ZenonT(60), <1>1 DEF IInv, NotAskedYet
<1>2. ASSUME NEW b \in Browser, NEW l \in links, Callback(b, l), d \notin calls PROVE FALSE
  <2>1. d = [browser |-> b, link |-> l, stage |-> "exchange", admin |-> FALSE, due |-> now + Timeout]
    BY <1>2, ZenonT(60) DEF Callback
  <2>2. d.admin = FALSE
    BY <2>1, ZenonT(60)
  <2> QED
    BY <2>2
<1>3. ASSUME NEW c \in calls, Exchange(c), d \notin calls PROVE FALSE
  <2>1. d = [c EXCEPT !.stage = "me", !.due = now + Timeout] /\ c.stage = "exchange"
    BY <1>3 DEF Exchange
  <2>2. c \in Call /\ now + Timeout \in Nat
    BY SMTT(60) DEF IInv, TypeOK
  <2>3. d.admin = c.admin
    BY <2>1, <2>2, ExchangedCall, ZenonT(60)
  <2> QED
    BY <2>1, <2>3 DEF IInv, NotAskedYet
<1>4. ASSUME NEW c \in calls, me(c), d \notin calls PROVE d.stage = "issue"
  <2>1. d = [c EXCEPT !.stage = "issue", !.admin = role[c.link.user]] /\ c \in Call
    BY ZenonT(60), <1>4 DEF me, IInv, TypeOK
  <2> QED
    BY <2>1 DEF Call
<1> QED
  BY ZenonT(60), <1>1, <1>2, <1>3, <1>4
  DEF Next, vars, coder, browsers, Tick, RoleChange, Authorize, Login, View, Issue, CallbackFails,
      Abandon, Logout, Restart

\* A new session is for the browser that began its login.
LEMMA LoginStep == IInv /\ [Next]_vars => LoginFollowsFlow'
<1> SUFFICES ASSUME IInv, [Next]_vars PROVE LoginFollowsFlow'
  BY Zenon
<1>1. ASSUME NEW c \in calls, Issue(c) PROVE LoginFollowsFlow'
  <2>1. /\ session'[c.browser].by = c.link.by
        /\ \A b \in Browser \ {c.browser} : session'[b] = session[b]
    BY SMTT(60), <1>1, IssueFacts DEF IInv
  <2>2. c.link.by = c.browser
    BY SMTT(60) DEF IInv, TokensIdentify
  <2> QED
    BY SMTT(60), <2>1, <2>2 DEF IInv, LoginFollowsFlow
<1>2. ASSUME NEW r \in Posts, Logout(r) PROVE LoginFollowsFlow'
  BY <1>2, LogoutFacts, ZenonT(60) DEF IInv, LoginFollowsFlow
<1>3. CASE UNCHANGED session
  BY <1>3, ZenonT(60) DEF IInv, LoginFollowsFlow
<1> QED
  BY ZenonT(60), <1>1, <1>2, <1>3
  DEF Next, vars, coder, browsers, Tick, RoleChange, Authorize, Login, View, Callback, Exchange, me,
      CallbackFails, Abandon, Restart

\* The invariant holds in every state of every behaviour.
THEOREM Invariant == Spec => []IInv
<1>1. IInv /\ [Next]_vars => IInv'
  BY TypeStep, RoleStep, NotAskedStep, TokensStep, LoginStep DEF IInv
<1> QED
  BY <1>1, InitInv, PTL DEF Spec

\* Require runs an admin-only handler only for the test hook that is configured
\* (auth.go:167-172), or for a user whose last admin role at Coder is no longer
\* ago than a session and one call last (auth.go:122, auth.go:174).
THEOREM RoleBounded == Spec => []AdminIsRecent
<1>1. IInv => AdminIsRecent
  <2> SUFFICES ASSUME IInv, NEW r \in Gets \cup Posts, Allows(r, TRUE)
               PROVE  \/ Caller(r).user = TestHook /\ testToken # NoToken
                      \/ /\ Caller(r).user \in User
                         /\ seen[Caller(r).user] # 0
                         /\ now <= seen[Caller(r).user] + SessionTTL + Timeout
    BY ZenonT(60) DEF AdminIsRecent
  <2>1. Caller(r) # None /\ Caller(r).admin /\ TypeOK
    BY ZenonT(60) DEF Allows, IInv
  <2>2. CASE Caller(r) = testUser /\ testToken # NoToken
    BY <2>2, SMTT(60) DEF testUser
  <2>3. ASSUME Caller(r) = session[r.jar], r.jar \in Browser, session[r.jar] \in Session,
               ~(session[r.jar].exp < now)
        PROVE  /\ Caller(r).user \in User
               /\ seen[Caller(r).user] # 0
               /\ now <= seen[Caller(r).user] + SessionTTL + Timeout
    <3> DEFINE s == session[r.jar]
    <3>1. s.user \in User /\ s.exp \in Nat /\ now \in Nat /\ seen[s.user] \in Nat /\ ~(s.exp < now)
      BY <2>1, <2>3, SMTT(60) DEF TypeOK, Session
    <3>2. seen[s.user] # 0 /\ s.exp <= seen[s.user] + SessionTTL + Timeout
      BY <2>1, <2>3, ZenonT(60) DEF IInv, RoleIsRecent
    <3> HIDE DEF s
    <3>3. now <= seen[s.user] + SessionTTL + Timeout
      BY <3>1, <3>2, SMTT(60)
    <3> QED
      BY <2>3, <3>1, <3>2, <3>3, ZenonT(60) DEF s
  <2> QED
    BY <2>1, <2>2, <2>3, CallerFacts, ZenonT(60)
<1> QED
  BY <1>1, Invariant, PTL

\* Require lets a form through only as the user whose page it was sent from
\* (auth.go:197-202).
THEOREM FormBound == Spec => []FormActsAsItsUser
<1>1. IInv => FormActsAsItsUser
  <2> SUFFICES ASSUME IInv, NEW r \in Posts, r.form # None, Allows(r, FALSE)
               PROVE  Caller(r).user = r.form.user
    BY ZenonT(60) DEF FormActsAsItsUser
  <2>1. PICK p \in pages : r = [method |-> "POST", jar |-> p.browser, bearer |-> None, form |-> p]
    BY SMTT(60) DEF Posts
  <2>2. r.form = p /\ r.method = "POST" /\ r.bearer = None
    BY <2>1, SMTT(60)
  <2>3. Caller(r) # None /\ p.csrf = Caller(r).csrf /\ TypeOK
    BY <2>2, ZenonT(60) DEF Allows, IInv
  <2>4. Caller(r) = session[r.jar] /\ r.jar \in Browser
    BY <2>2, <2>3, CallerFacts, ZenonT(60)
  <2>5. \A q \in pages, b \in Browser :
          session[b] # None /\ session[b].csrf = q.csrf => session[b].user = q.user
    BY ZenonT(60) DEF IInv, TokensIdentify
  <2> QED
    BY <2>2, <2>3, <2>4, <2>5, SMTT(60)
<1> QED
  BY <1>1, Invariant, PTL

\* A browser's session stems from a login that this browser began (auth.go:99).
THEOREM LoginBound == Spec => []LoginFollowsFlow
<1>1. IInv => LoginFollowsFlow
  BY DEF IInv
<1> QED
  BY <1>1, Invariant, PTL

=============================================================================

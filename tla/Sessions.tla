------------------------------ MODULE Sessions -------------------------------
(***************************************************************************)
(* Login through Coder, signed session cookies and the checks in front of  *)
(* every handler (admin/internal/auth/auth.go).  admin keeps no session:   *)
(* what it knows of a browser is what the browser's two cookies say, and   *)
(* setSigned and getSigned make a cookie that admin did not issue under    *)
(* that name no cookie at all.                                             *)
(*                                                                         *)
(* A browser has several tabs, so logins, callbacks, pages and forms of    *)
(* one cookie jar interleave; a callback URL can be opened later, again or *)
(* in another browser.  Callback waits for Coder twice, and roles change   *)
(* at Coder at any time.  The Max-Age of cookies is left out: a browser    *)
(* may keep a cookie, and only the Exp inside it counts.                   *)
(*                                                                         *)
(* Where TEST_TOKEN is set, the scripts of infra/tests act as testUser     *)
(* with a bearer instead of a cookie, without a role at Coder.             *)
(***************************************************************************)
EXTENDS Naturals, FiniteSets

CONSTANTS
  Browser, User,
  None,           \* no cookie, no header, no form
  Bearer,         \* tokens sent as Authorization: Bearer
  NoToken,        \* TEST_TOKEN is empty
  TestHook,       \* ID of testUser
  SessionTTL,     \* sessionTTL, eight hours
  FlowTTL,        \* ten minutes
  Timeout,        \* of a call to Coder, ten seconds
  MaxToken,       \* bound on the random values drawn when a login begins
  MaxTime,        \* bound on the clock
  MaxRoleChange,  \* bound on changes of a role
  MaxCall,        \* bound on callbacks in progress at a time
  MaxLink,        \* bound on logins that Coder lets go on
  MaxPage         \* bound on pages left open

Token == Nat
Flow == [state : Token, exp : Nat]
Session == [user : User, admin : BOOLEAN, csrf : Token, exp : Nat, by : Browser]
Asked == [state : Token, by : Browser]
Link == [state : Token, by : Browser, user : User]
Call == [browser : Browser, link : Link, stage : {"exchange", "me", "issue"},
         admin : BOOLEAN, due : Nat]
Page == [browser : Browser, csrf : Token, user : User]

\* Who the test hook acts as.
testUser == [user |-> TestHook, admin |-> TRUE]

ASSUME SessionsAssumption ==
  /\ None \notin Flow /\ None \notin Session \cup {testUser}
  /\ None \notin Page /\ None \notin Bearer
  /\ NoToken \notin Bearer /\ TestHook \notin User
  /\ SessionTTL \in Nat /\ FlowTTL \in Nat /\ Timeout \in Nat
  /\ MaxToken \in Nat /\ MaxTime \in Nat /\ MaxRoleChange \in Nat /\ MaxCall \in Nat
  /\ MaxLink \in Nat /\ MaxPage \in Nat

VARIABLES
  now,            \* the clock; starts at 1
  fresh,          \* the next value of random()
  \* Coder
  role,           \* who is owner or user-admin
  seen,           \* history: when a user last was, 0 for never
  asked,          \* authorisation URLs that Login redirected to
  links,          \* callback URLs it redirected to; by: who began the login
  spent,          \* those whose code was exchanged
  \* the browsers
  session, flow,  \* cookies
  pages,          \* pages left open, each with forms that carry a CSRF token
  \* admin
  testToken,      \* Config.TestToken
  calls,          \* callbacks waiting for Coder
  changes         \* role changes so far

coder == <<role, seen, asked, links, spent>>
browsers == <<session, flow, pages>>
vars == <<now, fresh, coder, browsers, testToken, calls, changes>>

TypeOK ==
  /\ now \in Nat /\ fresh \in Nat
  /\ role \in [User -> BOOLEAN]
  /\ seen \in [User -> Nat]
  /\ asked \subseteq Asked /\ links \subseteq Link /\ spent \subseteq Link
  /\ session \in [Browser -> Session \cup {None}]
  /\ flow \in [Browser -> Flow \cup {None}]
  /\ pages \subseteq Page
  /\ testToken \in Bearer \cup {NoToken}
  /\ calls \subseteq Call
  /\ changes \in Nat

Init ==
  /\ now = 1 /\ fresh = 0
  /\ role \in [User -> BOOLEAN]
  /\ seen = [u \in User |-> IF role[u] THEN 1 ELSE 0]
  /\ asked = {} /\ links = {} /\ spent = {}
  /\ session = [b \in Browser |-> None]
  /\ flow = [b \in Browser |-> None]
  /\ pages = {}
  /\ testToken \in Bearer \cup {NoToken}
  /\ calls = {}
  /\ changes = 0

-----------------------------------------------------------------------------
(* The clock and Coder (external) *)

\* A call to Coder does not outlast its timeout.
Tick ==
  /\ now < MaxTime
  /\ \A c \in calls : now < c.due
  /\ now' = now + 1
  /\ seen' = [u \in User |-> IF role[u] THEN now + 1 ELSE seen[u]]
  /\ UNCHANGED <<fresh, role, asked, links, spent, browsers, testToken, calls, changes>>

RoleChange(u) ==
  /\ changes < MaxRoleChange
  /\ changes' = changes + 1
  /\ role' = [role EXCEPT ![u] = ~@]
  /\ seen' = [seen EXCEPT ![u] = now]
  /\ UNCHANGED <<now, fresh, asked, links, spent, browsers, testToken, calls>>

\* Whoever is signed in to Coder there lets the login go on.
Authorize(a, u) ==
  /\ a \in asked
  /\ Cardinality(links) < MaxLink
  /\ links' = links \cup {[state |-> a.state, by |-> a.by, user |-> u]}
  /\ UNCHANGED <<now, fresh, role, seen, asked, spent, browsers, testToken, calls, changes>>

-----------------------------------------------------------------------------
(* Login and Callback *)

\* Mutant: the state and the verifier are not drawn anew.
LoginNotFresh(b) ==
  /\ fresh < MaxToken
  /\ flow' = [flow EXCEPT ![b] = [state |-> 0, exp |-> now + FlowTTL]]
  /\ asked' = asked \cup {[state |-> 0, by |-> b]}
  /\ fresh' = fresh + 1
  /\ UNCHANGED <<now, role, seen, links, spent, session, pages, testToken, calls, changes>>

\* State and Verifier are drawn together; one token stands for both.
Login(b) ==
  /\ fresh < MaxToken
  /\ flow' = [flow EXCEPT ![b] = [state |-> fresh, exp |-> now + FlowTTL]]
  /\ asked' = asked \cup {[state |-> fresh, by |-> b]}
  /\ fresh' = fresh + 1
  /\ UNCHANGED <<now, role, seen, links, spent, session, pages, testToken, calls, changes>>

\* Callback's check: a flow cookie, not expired, with the state of the URL.
\* Otherwise the answer is a 400 that leaves the cookies alone.
Callback(b, l) ==
  /\ l \in links
  /\ Cardinality(calls) < MaxCall
  /\ flow[b] # None /\ ~(flow[b].exp < now) /\ flow[b].state = l.state
  /\ calls' = calls \cup {[browser |-> b, link |-> l, stage |-> "exchange",
                           admin |-> FALSE, due |-> now + Timeout]}
  /\ UNCHANGED <<now, fresh, coder, browsers, testToken, changes>>

\* Coder gives a token once for each code, to the one who has the verifier of
\* the login it was issued for, which the check has established.
Exchange(c) ==
  /\ c \in calls /\ c.stage = "exchange"
  /\ c.link \notin spent
  /\ spent' = spent \cup {c.link}
  /\ calls' = (calls \ {c}) \cup {[c EXCEPT !.stage = "me", !.due = now + Timeout]}
  /\ UNCHANGED <<now, fresh, role, seen, asked, links, browsers, testToken, changes>>

\* Coder answers /users/me with the roles of that moment.
me(c) ==
  /\ c \in calls /\ c.stage = "me"
  /\ calls' = (calls \ {c}) \cup {[c EXCEPT !.stage = "issue", !.admin = role[c.link.user]]}
  /\ UNCHANGED <<now, fresh, coder, browsers, testToken, changes>>

\* The answer arrives: the response carries a new session and drops the flow.
Issue(c) ==
  /\ c \in calls /\ c.stage = "issue"
  /\ session' = [session EXCEPT ![c.browser] =
                   [user |-> c.link.user, admin |-> c.admin, csrf |-> fresh,
                    exp |-> now + SessionTTL, by |-> c.link.by]]
  /\ flow' = [flow EXCEPT ![c.browser] = None]
  /\ fresh' = fresh + 1
  /\ calls' = calls \ {c}
  /\ UNCHANGED <<now, coder, pages, testToken, changes>>

\* A call to Coder fails or times out: 502, and the flow cookie is dropped.
CallbackFails(c) ==
  /\ c \in calls
  /\ flow' = [flow EXCEPT ![c.browser] = None]
  /\ calls' = calls \ {c}
  /\ UNCHANGED <<now, fresh, coder, session, pages, testToken, changes>>

\* The tab is closed: no response reaches the browser.
Abandon(c) ==
  /\ c \in calls
  /\ calls' = calls \ {c}
  /\ UNCHANGED <<now, fresh, coder, browsers, testToken, changes>>

\* admin is deployed again, with or without the hook: the callbacks end, and the
\* cookies stay good since the key is kept.
Restart(t) ==
  /\ testToken' = t
  /\ calls' = {}
  /\ UNCHANGED <<now, fresh, coder, browsers, changes>>

-----------------------------------------------------------------------------
(* Require *)

\* A page is fetched, by a browser or a script.
Gets == [method : {"GET"}, jar : Browser, bearer : Bearer \cup {None}, form : {None}]

\* A form of an open page is sent, or a script posts with its bearer, which a
\* browser never attaches on its own.
Posts == {[method |-> "POST", jar |-> p.browser, bearer |-> None, form |-> p] : p \in pages}
           \cup [method : {"POST"}, jar : Browser, bearer : Bearer, form : {None}]

\* Mutant: Exp is left to the browser's Max-Age.
CallerForever(r) ==
  CASE r.bearer # None /\ testToken # NoToken /\ r.bearer = testToken -> testUser
    [] r.bearer = None /\ session[r.jar] # None -> session[r.jar]
    [] OTHER -> None

\* Auth.User: a bearer is the test hook's or nobody's, whatever the cookie says;
\* without one it is the user of the session cookie, until it expires.
Caller(r) ==
  CASE r.bearer # None /\ testToken # NoToken /\ r.bearer = testToken -> testUser
    [] r.bearer = None /\ session[r.jar] # None /\ ~(session[r.jar].exp < now) -> session[r.jar]
    [] OTHER -> None

\* Mutant: the CSRF token is not compared.
AllowsAnyToken(r, admin) ==
  /\ Caller(r) # None
  /\ admin => Caller(r).admin

\* Require: a caller, an admin where the route asks for one and, for a POST
\* without a bearer, the CSRF token of the session in the form.
Allows(r, admin) ==
  /\ Caller(r) # None
  /\ admin => Caller(r).admin
  /\ r.method = "POST" /\ r.bearer = None => r.form.csrf = Caller(r).csrf

\* A GET: the forms of a page that is left open get the session's CSRF token.
\* A script keeps no page.
View(r) ==
  /\ r \in Gets
  /\ Allows(r, FALSE)
  /\ r.bearer = None
  /\ Cardinality(pages) < MaxPage
  /\ pages' = pages \cup {[browser |-> r.jar, csrf |-> Caller(r).csrf, user |-> Caller(r).user]}
  /\ UNCHANGED <<now, fresh, coder, session, flow, testToken, calls, changes>>

\* The only handler behind Require that changes a cookie.
Logout(r) ==
  /\ r \in Posts
  /\ Allows(r, FALSE)
  /\ session' = [session EXCEPT ![r.jar] = None]
  /\ UNCHANGED <<now, fresh, coder, flow, pages, testToken, calls, changes>>

Next ==
  \/ Tick
  \/ \E u \in User : RoleChange(u)
  \/ \E a \in asked, u \in User : Authorize(a, u)
  \/ \E b \in Browser : Login(b)
  \/ \E b \in Browser, l \in links : Callback(b, l)
  \/ \E c \in calls : Exchange(c) \/ me(c) \/ Issue(c) \/ CallbackFails(c) \/ Abandon(c)
  \/ \E t \in Bearer \cup {NoToken} : Restart(t)
  \/ \E r \in Gets : View(r)
  \/ \E r \in Posts : Logout(r)

Spec == Init /\ [][Next]_vars

-----------------------------------------------------------------------------
(* Properties *)

\* Require lets an admin-only handler, for a GET or a POST, run only for the test
\* hook while TEST_TOKEN is set, or for a user who had an admin role at Coder at
\* most SessionTTL and the timeout of one call earlier: a role that is taken away
\* stops counting by then, whatever was in flight when it was.
AdminIsRecent ==
  \A r \in Gets \cup Posts : Allows(r, TRUE) =>
    \/ Caller(r).user = TestHook /\ testToken # NoToken
    \/ /\ Caller(r).user \in User
       /\ seen[Caller(r).user] # 0
       /\ now <= seen[Caller(r).user] + SessionTTL + Timeout

\* A form acts as the user it was rendered for: one that was left open in a tab
\* is refused after a login as somebody else in another tab of that browser.
FormActsAsItsUser ==
  \A r \in Posts : r.form # None /\ Allows(r, FALSE) => Caller(r).user = r.form.user

\* A browser is only signed in by a login that it began itself: a callback URL
\* opened in another browser, late or twice, signs nobody in.
LoginFollowsFlow == \A b \in Browser : session[b] # None => session[b].by = b

-----------------------------------------------------------------------------
(* The inductive invariant *)

\* What a role that was read at Coder is still good for.
RoleIsRecent ==
  /\ \A u \in User : seen[u] <= now /\ (role[u] => seen[u] = now)
  /\ now # 0
  /\ \A c \in calls :
       /\ now <= c.due /\ c.due <= now + Timeout
       /\ c.admin => seen[c.link.user] # 0 /\ c.due <= seen[c.link.user] + Timeout
  /\ \A b \in Browser : session[b] # None /\ session[b].admin =>
       /\ seen[session[b].user] # 0
       /\ session[b].exp <= seen[session[b].user] + SessionTTL + Timeout

\* A call knows no role before me has been answered.
NotAskedYet == \A c \in calls : c.admin => c.stage = "issue"

\* A CSRF token belongs to one session, a state to the browser that drew it.
TokensIdentify ==
  /\ \A b \in Browser : session[b] # None => session[b].csrf < fresh
  /\ \A p \in pages : p.csrf < fresh
  /\ \A b, d \in Browser :
       session[b] # None /\ session[d] # None /\ session[b].csrf = session[d].csrf
         => session[b].user = session[d].user
  /\ \A p \in pages, b \in Browser :
       session[b] # None /\ session[b].csrf = p.csrf => session[b].user = p.user
  /\ \A a \in asked : a.state < fresh
  /\ \A a, d \in asked : a.state = d.state => a.by = d.by
  /\ \A b \in Browser : flow[b] # None => [state |-> flow[b].state, by |-> b] \in asked
  /\ \A l \in links : [state |-> l.state, by |-> l.by] \in asked
  /\ \A c \in calls : c.link.by = c.browser

IInv ==
  /\ TypeOK
  /\ RoleIsRecent /\ NotAskedYet /\ TokensIdentify /\ LoginFollowsFlow

=============================================================================

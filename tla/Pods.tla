-------------------------------- MODULE Pods ---------------------------------
(***************************************************************************)
(* Which workspace an IP stands for: the pod watcher                       *)
(* (admin/internal/watch/pods.go), and what relies on it: the denials that *)
(* Envoy's access log reports and the request link in its 403 answers.     *)
(*                                                                         *)
(* A pod passes through the stages below once.  The informer's cache       *)
(* follows each pod's stages in order, skipping some after a relist, but   *)
(* not those of two pods in step: a later event of one pod may be handled  *)
(* before an earlier one of another.  An IP is free for another pod once   *)
(* the sandbox of a terminating pod is torn down, which the API does not   *)
(* show.  Log entries are buffered by Envoy, and a link may be opened much *)
(* later.                                                                  *)
(***************************************************************************)
EXTENDS Naturals

CONSTANTS
  Pod, IP, User,
  Ws,             \* workspace IDs, ordered as numbers
  WsOf,           \* label com.coder.workspace.id of a pod
  OwnerOf,        \* label com.coder.user.id of a workspace's pods
  Admin,          \* users with an admin session
  NoIP,
  MaxEntry,       \* bound on answers with code 403
  MaxForm         \* bound on request forms opened

\* Stages of a pod.  0: no IP yet.  Released: the IP is free again, whether or
\* not the terminating pod is still listed.
Stage == 0..3
RunningStage == 1
Terminating == 2
Released == 3

Entry == [ip : IP, ws : Ws, refused : BOOLEAN, moved : BOOLEAN]
Form == [ws : Ws, from : Ws, excused : BOOLEAN]
Record == [ws : Ws, from : Ws, refused : BOOLEAN, excused : BOOLEAN]

ASSUME PodsAssumption ==
  /\ Ws \subseteq Nat
  /\ WsOf \in [Pod -> Ws]
  /\ OwnerOf \in [Ws -> User]
  /\ Admin \subseteq User
  /\ NoIP \notin IP
  /\ MaxEntry \in Nat /\ MaxForm \in Nat

VARIABLES
  stage, ip,      \* the pods at the API server
  cached,         \* the stage of each pod in the informer's cache
  logs,           \* access log entries with code 403 on their way to admin
  links,          \* 403 answers whose link somebody may still open
  entries,        \* how many there were
  forms, opened,  \* request forms that are open, and how many there were
  denials, filed  \* rows written: ws, and the workspace it came from

pods == <<stage, ip>>
vars == <<pods, cached, logs, links, entries, forms, opened, denials, filed>>

TypeOK ==
  /\ stage \in [Pod -> Stage]
  /\ ip \in [Pod -> IP \cup {NoIP}]
  /\ cached \in [Pod -> Stage]
  /\ logs \subseteq Entry /\ links \subseteq Entry
  /\ entries \in 0..MaxEntry
  /\ forms \subseteq Form /\ opened \in 0..MaxForm
  /\ denials \subseteq Record /\ filed \subseteq Form

Init ==
  /\ stage = [p \in Pod |-> 0]
  /\ ip = [p \in Pod |-> NoIP]
  /\ cached = [p \in Pod |-> 0]
  /\ logs = {} /\ links = {} /\ entries = 0
  /\ forms = {} /\ opened = 0
  /\ denials = {} /\ filed = {}

-----------------------------------------------------------------------------
(* Kubernetes (external) *)

Holds(p, i) == ip[p] = i /\ stage[p] \in {RunningStage, Terminating}

\* A log entry or a link notes that its IP went to another pod.
Move(es, i) == {IF e.ip = i THEN [e EXCEPT !.moved = TRUE] ELSE e : e \in es}

Run(p, i) ==
  /\ stage[p] = 0
  /\ \A q \in Pod : ~Holds(q, i)
  /\ stage' = [stage EXCEPT ![p] = RunningStage]
  /\ ip' = [ip EXCEPT ![p] = i]
  /\ logs' = Move(logs, i)
  /\ links' = Move(links, i)
  /\ UNCHANGED <<cached, entries, forms, opened, denials, filed>>

\* The pod is deleted or fails, then its IP is freed.
End(p) ==
  /\ stage[p] \in {RunningStage, Terminating}
  /\ stage' = [stage EXCEPT ![p] = @ + 1]
  /\ UNCHANGED <<ip, cached, logs, links, entries, forms, opened, denials, filed>>

\* An event or a relist brings the cache closer to the API.
Sync(p, s) ==
  /\ cached[p] < s /\ s <= stage[p]
  /\ cached' = [cached EXCEPT ![p] = s]
  /\ UNCHANGED <<pods, logs, links, entries, forms, opened, denials, filed>>

-----------------------------------------------------------------------------
(* watch.Pods *)

\* Mutant: a pod that is still listed counts as running.
RunningWhenListed == {p \in Pod : cached[p] # 0}

\* Running: labelled, phase Running, with an IP, not terminating.
Running == {p \in Pod : cached[p] = RunningStage}

\* ByIP: the first match; the list is sorted by workspace ID.
ByIP(i) == {WsOf[p] : p \in {p \in Running : ip[p] = i}}
First(ws) == CHOOSE w \in ws : \A v \in ws : w <= v

ByID(w) == \E p \in Running : WsOf[p] = w

\* History: a pod that the cache takes for running at i has in fact gone on.
Stale(i) == \E p \in Pod : ip[p] = i /\ cached[p] = RunningStage /\ stage[p] > RunningStage

-----------------------------------------------------------------------------
(* Denials and request links *)

\* Envoy answers a pod with 403: its own refusal, with a link in the body, or
\* one that it passes on from the site.  Either way the access log shows 403.
Answer403(p, refused) ==
  /\ entries < MaxEntry
  /\ stage[p] \in {RunningStage, Terminating}
  /\ LET e == [ip |-> ip[p], ws |-> WsOf[p], refused |-> refused, moved |-> FALSE] IN
     /\ logs' = logs \cup {e}
     /\ links' = IF refused THEN links \cup {e} ELSE links
  /\ entries' = entries + 1
  /\ UNCHANGED <<pods, cached, forms, opened, denials, filed>>

\* Mutant: an IP of no running workspace is recorded too, with an empty ID.
OnDenialUnknown(e) ==
  /\ e \in logs
  /\ logs' = logs \ {e}
  /\ denials' = denials \cup {[ws |-> IF ByIP(e.ip) = {} THEN 0 ELSE First(ByIP(e.ip)), from |-> e.ws,
                              refused |-> e.refused, excused |-> e.moved \/ Stale(e.ip)]}
  /\ UNCHANGED <<pods, cached, links, entries, forms, opened, filed>>

\* StreamAccessLogs and OnDenial: a 403 is a denial of the workspace at its IP.
OnDenial(e) ==
  /\ e \in logs
  /\ logs' = logs \ {e}
  /\ denials' = IF ByIP(e.ip) = {} THEN denials
                ELSE denials \cup {[ws |-> First(ByIP(e.ip)), from |-> e.ws, refused |-> e.refused,
                                    excused |-> e.moved \/ Stale(e.ip)]}
  /\ UNCHANGED <<pods, cached, links, entries, forms, opened, filed>>

\* The stream breaks: what Envoy had buffered for it is lost.
LoseLog(e) ==
  /\ e \in logs
  /\ logs' = logs \ {e}
  /\ UNCHANGED <<pods, cached, links, entries, forms, opened, denials, filed>>

own(u, w) == u \in Admin \/ OwnerOf[w] = u

OpenForm == opened < MaxForm /\ opened' = opened + 1

\* requestForm with src=: the form is for the workspace now at that IP.
requestForm(u, e) ==
  /\ OpenForm
  /\ e \in links
  /\ ByIP(e.ip) # {}
  /\ own(u, First(ByIP(e.ip)))
  /\ forms' = forms \cup {[ws |-> First(ByIP(e.ip)), from |-> e.ws,
                           excused |-> e.moved \/ Stale(e.ip)]}
  /\ UNCHANGED <<pods, cached, logs, links, entries, denials, filed>>

\* A form for a workspace that the user names.
Chosen(w) == [ws |-> w, from |-> w, excused |-> FALSE]

\* requestForm with ws=, from My workspaces.
requestFormByID(u, w) ==
  /\ OpenForm
  /\ ByID(w)
  /\ own(u, w)
  /\ forms' = forms \cup {Chosen(w)}
  /\ UNCHANGED <<pods, cached, logs, links, entries, denials, filed>>

\* fileRequest: whoever posts the form, and whichever workspace it names, the
\* workspace runs and is theirs.
fileRequest(u, f) ==
  /\ f \in forms \cup {Chosen(w) : w \in Ws}
  /\ ByID(f.ws)
  /\ own(u, f.ws)
  /\ filed' = filed \cup {f}
  /\ UNCHANGED <<pods, cached, logs, links, entries, forms, opened, denials>>

Next ==
  \/ \E p \in Pod : End(p)
  \/ \E p \in Pod, i \in IP : Run(p, i)
  \/ \E p \in Pod, s \in Stage : Sync(p, s)
  \/ \E p \in Pod, refused \in BOOLEAN : Answer403(p, refused)
  \/ \E e \in logs : OnDenial(e) \/ LoseLog(e)
  \/ \E u \in User, e \in links : requestForm(u, e)
  \/ \E u \in User, w \in Ws : requestFormByID(u, w)
  \/ \E u \in User, f \in Form : fileRequest(u, f)

Spec == Init /\ [][Next]_vars

-----------------------------------------------------------------------------
(* Properties *)

\* A denial is recorded, and a request filed, for another workspace than the
\* one that was refused only if the IP was given to another pod in between or
\* the informer had yet to hear that the IP's former pod ended: a watcher that
\* has caught up maps every IP to its holder.
WrongOnlyAfterReuse ==
  \A r \in denials \cup filed : r.ws = r.from \/ r.excused

\* design.md:271: a "Denial from A appears in the denials table, attributed to
\* A's workspace ID".
AttributedRight == \A r \in denials : r.ws = r.from

\* server.go:24: a "Denial is one refused request, as Envoy saw it".
DenialsWereRefused == \A r \in denials : r.refused

-----------------------------------------------------------------------------
(* The inductive invariant *)

\* The cache is behind the API, and an IP has one holder.
PodsOK ==
  /\ \A p \in Pod : cached[p] <= stage[p] /\ (stage[p] # 0 => ip[p] \in IP)
  /\ \A p, q \in Pod, i \in IP : Holds(p, i) /\ Holds(q, i) => p = q

\* While the IP has not gone to another pod, whoever holds it belongs to the
\* workspace that was answered.
EntriesOK ==
  \A e \in logs \cup links, p \in Pod : ~e.moved /\ Holds(p, e.ip) => WsOf[p] = e.ws

IInv ==
  /\ TypeOK /\ PodsOK /\ EntriesOK
  /\ \A r \in forms \cup denials \cup filed : r.ws = r.from \/ r.excused

=============================================================================

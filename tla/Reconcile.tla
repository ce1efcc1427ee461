------------------------------ MODULE Reconcile ------------------------------
(***************************************************************************)
(* The select loop of serve (admin/cmd/sandcastle-admin/main.go): HTTP     *)
(* handlers and the pod informer announce changes on a channel of capacity *)
(* one, the loop rebuilds the whole policy and pushes it to Envoy and then *)
(* to Cilium; a one-minute resync and the expiry ticker back it up.        *)
(*                                                                         *)
(* The contents of an input are abstracted to a version number: how often  *)
(* what PolicyInput or Running would return for it has changed.  A rebuild *)
(* reads the inputs one after the other (PolicyInput is three queries      *)
(* without a transaction), so it may mix versions.                         *)
(***************************************************************************)
EXTENDS Naturals

CONSTANTS
  Nothing,        \* no snapshot
  MaxChange,      \* bound on changes of the inputs
  MaxFailure,     \* bound on failing stages
  MaxCrash,       \* bound on crashes of admin and restarts of Envoy
  VersionBound    \* snapshot versions are counted modulo this

Table == {"zones", "rules", "assignments"}
Source == Table \cup {"pods"}
Version == [Source -> Nat]

ASSUME ReconcileAssumption ==
  /\ Nothing \notin Version
  /\ MaxChange \in Nat /\ MaxFailure \in Nat /\ MaxCrash \in Nat
  /\ VersionBound \in Nat /\ VersionBound > 1

\* The tables one committed transaction of the store changes together, none for
\* a rename, a filed or a denied request.
WriteSet == {{}, {"zones"}, {"rules"}, {"assignments"}, {"zones", "rules"},
             {"zones", "assignments"}}

Failure == {"load", "build", "push", "cilium"}    \* the stage that apply wraps
NoError == "none"                        \* lastErr = ""

VARIABLES
  \* the inputs
  current,        \* committed rows (unexpired ones) and the informer's cache
  api,            \* version of the pods at the API server
  due,            \* an expired grant is still in the table
  \* admin
  owed,           \* announcements due from callers that have committed
  silent,         \* a commit that its caller believes failed: nobody announces
  changed,        \* the channel holds a token
  at,             \* where the loop is ("push": building and pushing)
  read,           \* the policy.Input being assembled, Zero between rebuilds
  err, lastErr,   \* this rebuild's error, until it is reported, and the last one
  pushed,         \* the snapshot in the xDS cache
  version,        \* Server.version
  \* outside admin
  cilium,         \* newest versions any Cilium policy was rendered from
  whole,          \* all of them were: the last cilium.Apply went through
  audited,        \* error of the last reconcile_error row in the audit table
  envoy,          \* versions Envoy enforces
  envoyVersion,   \* version string of Envoy's snapshot, 0 for none
  connected,      \* Envoy has an ADS stream to this process
  \* how much of the bounds is used
  changes, failures, crashes

inputs == <<current, api, due>>
admin == <<owed, silent, changed, at, read, err, lastErr, pushed, version>>
outside == <<cilium, whole, audited, envoy, envoyVersion, connected>>
bounds == <<changes, failures, crashes>>
vars == <<inputs, admin, outside, bounds>>

Stage == {"down", "select", "sleep", "zones", "rules", "assignments", "pods",
          "push", "cilium", "report"}

TypeOK ==
  /\ current \in Version
  /\ api \in Nat
  /\ due \in BOOLEAN
  /\ owed \in Nat
  /\ silent \in BOOLEAN
  /\ changed \in BOOLEAN
  /\ at \in Stage
  /\ read \in Version
  /\ err \in Failure \cup {NoError}
  /\ lastErr \in Failure \cup {NoError}
  /\ pushed \in Version \cup {Nothing}
  /\ version \in Nat
  /\ cilium \in Version \cup {Nothing}
  /\ whole \in BOOLEAN
  /\ audited \in Failure \cup {NoError}
  /\ envoy \in Version \cup {Nothing}
  /\ envoyVersion \in Nat
  /\ connected \in BOOLEAN
  /\ changes \in Nat /\ failures \in Nat /\ crashes \in Nat

Zero == [t \in Source |-> 0]

\* serve has seeded the store and synced the pod cache, and calls notify().
Init ==
  /\ current = Zero
  /\ api = 0
  /\ due = FALSE
  /\ owed = 0
  /\ silent = FALSE
  /\ changed = TRUE
  /\ at = "select"
  /\ read = Zero
  /\ err = NoError
  /\ lastErr = NoError
  /\ pushed = Nothing
  /\ version = 0
  /\ cilium = Nothing
  /\ whole = FALSE
  /\ audited = NoError
  /\ envoy = Nothing
  /\ envoyVersion = 0
  /\ connected = FALSE
  /\ changes = 0 /\ failures = 0 /\ crashes = 0

Bump(ts) == [t \in Source |-> IF t \in ts THEN current[t] + 1 ELSE current[t]]

UseChange == changes < MaxChange /\ changes' = changes + 1 /\ UNCHANGED <<failures, crashes>>
UseFailure == failures < MaxFailure /\ failures' = failures + 1 /\ UNCHANGED <<changes, crashes>>
UseCrash == crashes < MaxCrash /\ crashes' = crashes + 1 /\ UNCHANGED <<changes, failures>>

-----------------------------------------------------------------------------
(* The inputs change *)

\* A store method commits; its handler has yet to call Changed (web.done).
StoreCommit(ts) ==
  /\ at # "down"
  /\ current' = Bump(ts)
  /\ owed' = owed + 1
  /\ UseChange
  /\ UNCHANGED <<api, due, silent, changed, at, read, err, lastErr, pushed, version, outside>>

\* COMMIT took effect but its caller sees an error (cancelled request, lost
\* connection): done answers 500 and does not call Changed.
StoreCommitUnseen(ts) ==
  /\ at # "down"
  /\ current' = Bump(ts)
  /\ silent' = TRUE
  /\ UseChange
  /\ UNCHANGED <<api, due, owed, changed, at, read, err, lastErr, pushed, version, outside>>

\* A grant passes its expires_at: PolicyInput stops returning it.
GrantLapses ==
  /\ current' = Bump({"rules"})
  /\ due' = TRUE
  /\ UseChange
  /\ UNCHANGED <<api, admin, outside>>

PodChanges ==
  /\ api' = api + 1
  /\ UseChange
  /\ UNCHANGED <<current, due, admin, outside>>

\* The informer updates its cache, then calls the event handler.
InformerSync ==
  /\ at # "down"
  /\ current["pods"] # api
  /\ current' = [current EXCEPT !["pods"] = api]
  /\ owed' = owed + 1
  /\ UNCHANGED <<api, due, silent, changed, at, read, err, lastErr, pushed, version, outside, bounds>>

\* notify: a send that does not block when the channel is full.
Notify ==
  /\ owed > 0
  /\ owed' = owed - 1
  /\ changed' = TRUE
  /\ UNCHANGED <<inputs, silent, at, read, err, lastErr, pushed, version, outside, bounds>>

\* Every ten minutes the informer hands its pods to UpdateFunc, changed or not.
InformerResync ==
  /\ at # "down"
  /\ changed' = TRUE
  /\ UNCHANGED <<inputs, owed, silent, at, read, err, lastErr, pushed, version, outside, bounds>>

-----------------------------------------------------------------------------
(* The select loop *)

Wake ==
  /\ at = "select"
  /\ changed
  /\ changed' = FALSE
  /\ at' = "sleep"
  /\ UNCHANGED <<inputs, owed, silent, read, err, lastErr, pushed, version, outside, bounds>>

\* After the 200 ms sleep the channel is drained and the rebuild starts.
Drain ==
  /\ at = "sleep"
  /\ changed' = FALSE
  /\ silent' = FALSE
  /\ at' = "zones"
  /\ UNCHANGED <<inputs, owed, read, err, lastErr, pushed, version, outside, bounds>>

\* Mutant: the resync rebuilds only when a change was announced.
ResyncIfChanged ==
  /\ at = "select"
  /\ changed
  /\ silent' = FALSE
  /\ at' = "zones"
  /\ UNCHANGED <<inputs, owed, changed, read, err, lastErr, pushed, version, outside, bounds>>

Resync ==
  /\ at = "select"
  /\ silent' = FALSE
  /\ at' = "zones"
  /\ UNCHANGED <<inputs, owed, changed, read, err, lastErr, pushed, version, outside, bounds>>

\* ExpireGrants deletes at least one row, and the loop notifies itself.
Expiry ==
  /\ at = "select"
  /\ due
  /\ due' = FALSE
  /\ changed' = TRUE
  /\ UNCHANGED <<current, api, owed, silent, at, read, err, lastErr, pushed, version, outside, bounds>>

\* ExpireGrants commits but returns an error: no notify.
ExpiryUnseen ==
  /\ at = "select"
  /\ due
  /\ due' = FALSE
  /\ silent' = TRUE
  /\ UseFailure
  /\ UNCHANGED <<current, api, owed, changed, at, read, err, lastErr, pushed, version, outside>>

-----------------------------------------------------------------------------
(* apply: PolicyInput's three queries, Running, Push, Apply *)

\* The order of the steps; Running follows the three queries.
After == [zones |-> "rules", rules |-> "assignments", assignments |-> "pods", pods |-> "push"]

Read(t) ==
  /\ at = t
  /\ read' = [read EXCEPT ![t] = current[t]]
  /\ at' = After[t]
  /\ UNCHANGED <<inputs, owed, silent, changed, err, lastErr, pushed, version, outside, bounds>>

NextVersion == (version % VersionBound) + 1

\* Mutant: the snapshot is built before in.Pods is set.
PushWithoutPods ==
  /\ at = "push"
  /\ version' = NextVersion
  /\ pushed' = [t \in Table |-> read[t]]
  /\ at' = "cilium"
  /\ UNCHANGED <<inputs, owed, silent, changed, read, err, lastErr, outside, bounds>>

\* Push: a new version, then the snapshot replaces the old one.
Push ==
  /\ at = "push"
  /\ version' = NextVersion
  /\ pushed' = read
  /\ at' = "cilium"
  /\ UNCHANGED <<inputs, owed, silent, changed, read, err, lastErr, outside, bounds>>

\* Mutant: the channel is drained after the rebuild, not before it.
ApplyCiliumDrains ==
  /\ at = "cilium"
  /\ cilium' = read
  /\ whole' = TRUE
  /\ read' = Zero
  /\ lastErr' = NoError
  /\ changed' = FALSE
  /\ at' = "select"
  /\ UNCHANGED <<inputs, owed, silent, err, pushed, version,
                 audited, envoy, envoyVersion, connected, bounds>>

ApplyCilium ==
  /\ at = "cilium"
  /\ cilium' = read
  /\ whole' = TRUE
  /\ read' = Zero
  /\ lastErr' = NoError
  /\ at' = "select"
  /\ UNCHANGED <<inputs, owed, silent, changed, err, pushed, version,
                 audited, envoy, envoyVersion, connected, bounds>>

\* Mutant: the rows loaded so far are pushed although a query failed.
FailLoadPushes ==
  /\ at \in Table
  /\ err' = "load"
  /\ version' = NextVersion
  /\ pushed' = read
  /\ read' = Zero
  /\ at' = "report"
  /\ UseFailure
  /\ UNCHANGED <<inputs, owed, silent, changed, lastErr, outside>>

\* Any stage but Running may fail, the timeout of rctx included; apply returns
\* at once.  A query fails: nothing is pushed.
FailLoad ==
  /\ at \in Table
  /\ err' = "load"
  /\ read' = Zero
  /\ at' = "report"
  /\ UseFailure
  /\ UNCHANGED <<inputs, owed, silent, changed, lastErr, pushed, version, outside>>

\* Mutant: apply goes on to Cilium after Push has failed.
FailPushContinues ==
  /\ at = "push"
  /\ err' = "push"
  /\ version' = NextVersion
  /\ at' = "cilium"
  /\ UseFailure
  /\ UNCHANGED <<inputs, owed, silent, changed, read, lastErr, pushed, outside>>

\* xds.Build fails: Push is not called.
FailBuild ==
  /\ at = "push"
  /\ err' = "build"
  /\ read' = Zero
  /\ at' = "report"
  /\ UseFailure
  /\ UNCHANGED <<inputs, owed, silent, changed, lastErr, pushed, version, outside>>

\* The version is used up; SetSnapshot may have stored the snapshot before it
\* failed to answer a watch.
FailPush ==
  /\ at = "push"
  /\ err' = "push"
  /\ version' = NextVersion
  /\ pushed' \in {pushed, read}
  /\ read' = Zero
  /\ at' = "report"
  /\ UseFailure
  /\ UNCHANGED <<inputs, owed, silent, changed, lastErr, outside>>

\* One bad object does not stop cilium.Apply: no policy, or some, are new.
FailCilium ==
  /\ at = "cilium"
  /\ err' = "cilium"
  /\ cilium' \in {cilium, read}
  /\ whole' = FALSE
  /\ read' = Zero
  /\ at' = "report"
  /\ UseFailure
  /\ UNCHANGED <<inputs, owed, silent, changed, lastErr, pushed, version,
                 audited, envoy, envoyVersion, connected>>

\* reconcile: the error is audited unless it is the last one again.
Report ==
  /\ at = "report"
  /\ audited' = IF err # lastErr THEN err ELSE audited
  /\ lastErr' = err
  /\ err' = NoError
  /\ at' = "select"
  /\ UNCHANGED <<inputs, owed, silent, changed, read, pushed, version,
                 cilium, whole, envoy, envoyVersion, connected, bounds>>

\* AuditSystem fails too; only the log shows it.
ReportLost ==
  /\ at = "report"
  /\ err # lastErr
  /\ lastErr' = err
  /\ err' = NoError
  /\ at' = "select"
  /\ UNCHANGED <<inputs, owed, silent, changed, read, pushed, version, outside, bounds>>

-----------------------------------------------------------------------------
(* Crashes, and Envoy *)

\* The process dies or is replaced: its memory and its streams are gone.  In the
\* middle of cilium.Apply some policies may be new already.
Crash ==
  /\ at # "down"
  /\ at' = "down"
  /\ owed' = 0
  /\ silent' = FALSE
  /\ changed' = FALSE
  /\ read' = Zero
  /\ err' = NoError
  /\ lastErr' = NoError
  /\ pushed' = Nothing
  /\ version' = 0
  /\ connected' = FALSE
  /\ \/ UNCHANGED <<cilium, whole>>
     \/ at = "cilium" /\ cilium' = read /\ whole' = FALSE
  /\ UseCrash
  /\ UNCHANGED <<inputs, audited, envoy, envoyVersion>>

\* serve up to the select loop: the pod cache syncs, then notify().
Start ==
  /\ at = "down"
  /\ current' = [current EXCEPT !["pods"] = api]
  /\ changed' = TRUE
  /\ at' = "select"
  /\ UNCHANGED <<api, due, owed, silent, read, err, lastErr, pushed, version, outside, bounds>>

EnvoyConnect ==
  /\ at # "down"
  /\ ~connected
  /\ connected' = TRUE
  /\ UNCHANGED <<inputs, admin, cilium, whole, audited, envoy, envoyVersion, bounds>>

\* The snapshot cache answers Envoy's watch with the newest snapshot.  When
\* Envoy names the same version it may leave the watch open instead.
EnvoyReceive ==
  /\ connected
  /\ pushed # Nothing
  /\ version # envoyVersion \/ envoy # pushed
  /\ envoy' = pushed
  /\ envoyVersion' = version
  /\ UNCHANGED <<inputs, admin, cilium, whole, audited, connected, bounds>>

EnvoyRestart ==
  /\ envoy' = Nothing
  /\ envoyVersion' = 0
  /\ connected' = FALSE
  /\ UseCrash
  /\ UNCHANGED <<inputs, admin, cilium, whole, audited>>

-----------------------------------------------------------------------------

Next ==
  \/ \E ts \in WriteSet : StoreCommit(ts) \/ StoreCommitUnseen(ts)
  \/ GrantLapses
  \/ PodChanges
  \/ InformerSync \/ InformerResync
  \/ Notify
  \/ Wake \/ Drain \/ Resync \/ Expiry \/ ExpiryUnseen
  \/ \E t \in Source : Read(t)
  \/ Push \/ ApplyCilium \/ FailLoad \/ FailBuild \/ FailPush \/ FailCilium
  \/ Report \/ ReportLost
  \/ Crash \/ Start
  \/ EnvoyConnect \/ EnvoyReceive \/ EnvoyRestart

Spec == Init /\ [][Next]_vars

(***************************************************************************)
(* The goroutines run, the resync ticker keeps firing, the kubelet starts  *)
(* admin again, Envoy reconnects and an open watch is answered when the    *)
(* version differs.  The code's version never repeats within a process, so *)
(* there a watch that is out of date stays so until it is answered; here   *)
(* versions wrap (VersionBound), hence SF.  Failures are finite            *)
(* (MaxFailure).                                                           *)
(***************************************************************************)
Fairness ==
  /\ WF_vars(InformerSync)
  /\ WF_vars(Notify)
  /\ WF_vars(Wake)
  /\ WF_vars(Drain)
  /\ WF_vars(Resync)
  /\ WF_vars(\E t \in Source : Read(t))
  /\ WF_vars(Push)
  /\ WF_vars(ApplyCilium)
  /\ WF_vars(Report)
  /\ WF_vars(Start)
  /\ WF_vars(EnvoyConnect)
  /\ SF_vars(EnvoyReceive /\ version # envoyVersion)

FairSpec == Spec /\ Fairness

-----------------------------------------------------------------------------
(* Properties *)

\* Somebody will make the loop rebuild again, or only the resync can.
Announced == changed \/ owed > 0 \/ due \/ silent

\* No wakeup is lost: a loop that rests in its select after a rebuild that
\* succeeded, with no token, no caller about to notify, no expired grant to
\* delete and no unseen commit, has pushed exactly the current inputs to
\* Envoy and to Cilium.  Draining the channel after the sleep, the reads of a
\* rebuild and the commits of the handlers may interleave in any way.
NoLostWakeup ==
  at = "select" /\ lastErr = NoError /\ ~Announced
    => pushed = current /\ cilium = current /\ whole

AtMost(v, u) == \A t \in Source : v[t] <= u[t]

\* apply's order holds across rebuilds that fail at any stage: no Cilium policy
\* stems from inputs newer than those Envoy was given, so a revocation reaches
\* Envoy no later than Cilium.
EnvoyFirst ==
  cilium # Nothing /\ pushed # Nothing => AtMost(cilium, pushed)

\* What Envoy enforces never goes back, whatever is lost, retried or
\* restarted: the loop implements the abstract module Enforcement.
Abstract == INSTANCE Enforcement WITH enforced <- envoy
ImplementsEnforcement == Abstract!Spec

\* Once the inputs and the failures stop, Envoy and Cilium reach the current
\* policy and keep it: after a failed rebuild, an unseen commit, a lapse, a
\* crash between a commit and its notify, or a restart whose first snapshot
\* has the version Envoy already holds.
Convergence == <>[](/\ envoy = current
                    /\ cilium = current /\ whole
                    /\ current["pods"] = api)

-----------------------------------------------------------------------------
(***************************************************************************)
(* The inductive invariant behind NoLostWakeup, EnvoyFirst and the         *)
(* refinement.                                                             *)
(***************************************************************************)

\* The inputs that the rebuild under way has read.
Done ==
  {t \in Source :
     \/ at \in {"push", "cilium"}
     \/ at = "pods" /\ t \in Table
     \/ at = "assignments" /\ t \in {"zones", "rules"}
     \/ at = "rules" /\ t = "zones"}

\* x, if it is there, has nothing newer than v among the inputs ts.
Below(x, v, ts) == x # Nothing => \A t \in ts : x[t] <= v[t]

\* What the rebuild has read is current, or another rebuild is coming.
ReadIsFresh == \A t \in Done : read[t] = current[t] \/ Announced

\* What is enforced anywhere is no newer than the inputs or than the read.
NothingFromTheFuture ==
  /\ current["pods"] <= api
  /\ \A t \in Done : read[t] <= current[t]
  /\ \A x \in {pushed, cilium, envoy} :
       Below(x, current, Source) /\ Below(x, read, Done)

\* The xDS cache is no older than what it leads to.
CacheLeads ==
  pushed # Nothing => Below(cilium, pushed, Source) /\ Below(envoy, pushed, Source)

\* The local state of apply and reconcile.
StageOK ==
  /\ at = "cilium" => pushed = read
  /\ at = "report" => err # NoError

IInv ==
  /\ TypeOK
  /\ ReadIsFresh
  /\ NothingFromTheFuture
  /\ CacheLeads
  /\ StageOK
  /\ NoLostWakeup

\* main.go:159: each distinct failure is audited.
FailureAudited == at = "select" /\ lastErr # NoError => audited = lastErr

=============================================================================

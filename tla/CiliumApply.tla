----------------------------- MODULE CiliumApply -----------------------------
(***************************************************************************)
(* cilium.Apply (admin/internal/cilium/cilium.go) against the Kubernetes   *)
(* API: a Get and a Create or Update per desired policy, then a List of    *)
(* the managed policies and a Delete for each one no longer desired.       *)
(* Between any two calls somebody else may write the same objects, and     *)
(* any call may fail, run into the deadline of the rebuild, or take effect *)
(* after its caller has given up.  The loop of main.go calls Apply again   *)
(* at the latest with the next resync.                                     *)
(*                                                                         *)
(* Render sorts the policies by name; no property depends on the order, so *)
(* the policies still to be handled are a set.                             *)
(***************************************************************************)
EXTENDS Naturals

CONSTANTS
  Name,           \* names of CiliumNetworkPolicies in the namespace
  Spec,           \* the specs that are told apart
  None,           \* no spec: the policy is not rendered
  NoObject,       \* no object of that name
  MaxChange,      \* bound on changes of what Render returns
  MaxOther,       \* bound on writes by anybody else
  MaxFailure      \* bound on failing calls, deadlines and crashes

Object == [owner : {"admin", "other"}, spec : Spec, version : Nat]
Desired == [Name -> Spec \cup {None}]
Request ==
  {r \in [op : {"create", "update", "delete"}, name : Name, spec : Spec \cup {None}, version : Nat] :
     r.op # "delete" => r.spec # None}

ASSUME CiliumApplyAssumption ==
  /\ None \notin Spec
  /\ NoObject \notin Object
  /\ MaxChange \in Nat /\ MaxOther \in Nat /\ MaxFailure \in Nat

VARIABLES
  \* the API server
  object,         \* the objects, by name
  revision,       \* the last resourceVersion given to an object of that name
  late,           \* requests whose caller has given up, still to be served
  \* admin
  policy,         \* what Render would return now
  at,             \* where Apply is; "down": there was none, or it crashed
  desired,        \* its argument
  todo,           \* the desired policies it has not handled
  name, cur,      \* the policy being handled, and what Get returned for it
  listed,         \* undesired policies the List returned, still to be deleted
  expired,        \* the context of this rebuild is past its deadline
  errs,           \* the names this Apply has reported a failure for
  \* history
  touched,        \* names written by others or by a late request since it began
  changes, others, failures

server == <<object, revision, late>>
locals == <<at, desired, todo, name, cur, listed, expired, errs>>
bounds == <<changes, others, failures>>
vars == <<server, policy, locals, touched, bounds>>

TypeOK ==
  /\ object \in [Name -> Object \cup {NoObject}]
  /\ revision \in [Name -> Nat]
  /\ late \subseteq Request
  /\ policy \in Desired
  /\ at \in {"down", "idle", "get", "create", "update", "prune"}
  /\ desired \in Desired
  /\ todo \subseteq Name
  /\ name \in Name
  /\ cur \in Object \cup {NoObject}
  /\ listed \subseteq Name
  /\ expired \in BOOLEAN
  /\ errs \subseteq Name
  /\ touched \subseteq Name
  /\ changes \in Nat /\ others \in Nat /\ failures \in Nat

Managed(n) == object[n] # NoObject /\ object[n].owner = "admin"
Foreign(n) == object[n] # NoObject /\ object[n].owner # "admin"
Wanted(d) == {n \in Name : d[n] # None}

\* Nothing is managed yet; static policies may have any of the names.
Init ==
  /\ object \in [Name -> [owner : {"other"}, spec : Spec, version : {0}] \cup {NoObject}]
  /\ revision = [n \in Name |-> 0]
  /\ late = {}
  /\ policy \in Desired
  /\ at = "down"
  /\ desired = policy
  /\ todo = {}
  /\ name \in Name
  /\ cur = NoObject
  /\ listed = {}
  /\ expired = FALSE
  /\ errs = {}
  /\ touched = {}
  /\ changes = 0 /\ others = 0 /\ failures = 0

UseChange == changes < MaxChange /\ changes' = changes + 1 /\ UNCHANGED <<others, failures>>
UseOther == others < MaxOther /\ others' = others + 1 /\ UNCHANGED <<changes, failures>>
UseFailure == failures < MaxFailure /\ failures' = failures + 1 /\ UNCHANGED <<changes, others>>

-----------------------------------------------------------------------------
(* The API server (external): what a request does when it is served *)

\* An object of name n is written: o gets the next resourceVersion.
Write(n, owner, spec) ==
  /\ revision' = [revision EXCEPT ![n] = @ + 1]
  /\ object' = [object EXCEPT ![n] = [owner |-> owner, spec |-> spec,
                                      version |-> revision[n] + 1]]

Remove(n) ==
  /\ object' = [object EXCEPT ![n] = NoObject]
  /\ UNCHANGED revision

\* Create is refused when the name is taken, Update when the object is gone or
\* has another resourceVersion; Delete of nothing is a NotFound.
Accepted(r) ==
  \/ r.op = "create" /\ object[r.name] = NoObject
  \/ r.op = "update" /\ object[r.name] # NoObject /\ object[r.name].version = r.version
  \/ r.op = "delete"

Serve(r) == IF r.op = "delete" THEN Remove(r.name) ELSE Write(r.name, "admin", r.spec)

\* A request that its caller believes failed is served after all, or refused.
Land(r) ==
  /\ r \in late
  /\ late' = late \ {r}
  /\ IF Accepted(r) THEN Serve(r) ELSE UNCHANGED <<object, revision>>
  /\ touched' = touched \cup {r.name}
  /\ UNCHANGED <<policy, locals, bounds>>

\* Somebody else creates, edits or relabels an object, or deletes it.
OtherWrite(n, owner, spec) ==
  /\ Write(n, owner, spec)
  /\ touched' = touched \cup {n}
  /\ UseOther
  /\ UNCHANGED <<late, policy, locals>>

OtherDelete(n) ==
  /\ object[n] # NoObject
  /\ Remove(n)
  /\ touched' = touched \cup {n}
  /\ UseOther
  /\ UNCHANGED <<late, policy, locals>>

-----------------------------------------------------------------------------
(* Apply *)

\* The zones, rules, grants or assignments change, and with them one policy.
PolicyChange(n, s) ==
  /\ policy[n] # s
  /\ policy' = [policy EXCEPT ![n] = s]
  /\ UseChange
  /\ UNCHANGED <<server, locals, touched>>

\* Mutant: policies that are unchanged since the last rebuild are not written.
StartOnChange ==
  /\ at \in {"down", "idle"}
  /\ at' = "get"
  /\ desired' = policy
  /\ todo' = IF at = "idle" /\ desired = policy THEN {} ELSE Wanted(policy)
  /\ expired' = FALSE
  /\ errs' = {}
  /\ touched' = {}
  /\ UNCHANGED <<server, policy, name, cur, listed, bounds>>

\* A rebuild calls Apply with what Render returns.
Start ==
  /\ at \in {"down", "idle"}
  /\ at' = "get"
  /\ desired' = policy
  /\ todo' = Wanted(policy)
  /\ expired' = FALSE
  /\ errs' = {}
  /\ touched' = {}
  /\ UNCHANGED <<server, policy, name, cur, listed, bounds>>

\* The policy is dealt with; an error is collected and the loop goes on.
Handled(n, failed) ==
  /\ at' = "get"
  /\ todo' = todo \ {n}
  /\ errs' = errs \cup failed
  /\ cur' = NoObject
  /\ UNCHANGED <<policy, desired, name, listed, expired, touched>>

\* Get answers: NotFound leads to Create, an object with another spec to
\* Update, a foreign object is an error and an equal one is left alone.
Get(n) ==
  /\ at = "get" /\ n \in todo /\ ~expired
  /\ IF object[n] = NoObject \/ (Managed(n) /\ object[n].spec # desired[n])
       THEN /\ at' = IF object[n] = NoObject THEN "create" ELSE "update"
            /\ name' = n
            /\ cur' = object[n]
            /\ UNCHANGED <<policy, desired, todo, listed, expired, errs, touched>>
       ELSE Handled(n, IF Foreign(n) THEN {n} ELSE {})
  /\ UNCHANGED <<server, bounds>>

\* Mutant: Update does not carry the resourceVersion that Get returned.
PendingUnversioned ==
  [op |-> at, name |-> name, spec |-> desired[name],
   version |-> IF object[name] = NoObject THEN 0 ELSE object[name].version]

\* The write that follows a Get; Update carries the version Get returned.
Pending ==
  [op |-> at, name |-> name, spec |-> desired[name],
   version |-> IF at = "update" THEN cur.version ELSE 0]

\* Create or Update is answered; AlreadyExists, Conflict and NotFound are errors.
CreateOrUpdate ==
  /\ at \in {"create", "update"} /\ ~expired
  /\ IF Accepted(Pending) THEN Serve(Pending) ELSE UNCHANGED <<object, revision>>
  /\ Handled(name, IF Accepted(Pending) THEN {} ELSE {name})
  /\ UNCHANGED <<late, bounds>>

\* All desired policies are handled: the managed ones are listed, and those
\* that are wanted are skipped.
List ==
  /\ at = "get" /\ todo = {} /\ ~expired
  /\ at' = "prune"
  /\ listed' = {n \in Name : Managed(n)} \ Wanted(desired)
  /\ UNCHANGED <<server, policy, desired, todo, name, cur, expired, errs, touched, bounds>>

\* Delete is answered; NotFound is no error.
Delete(n) ==
  /\ at = "prune" /\ n \in listed /\ ~expired
  /\ Remove(n)
  /\ listed' = listed \ {n}
  /\ UNCHANGED <<late, policy, at, desired, todo, name, cur, expired, errs, touched, bounds>>

Return ==
  /\ at = "prune" /\ listed = {}
  /\ at' = "idle"
  /\ UNCHANGED <<server, policy, desired, todo, name, cur, listed, expired, errs, touched, bounds>>

-----------------------------------------------------------------------------
(* Failing calls *)

\* A call fails on its way, or its caller gives up while it is on its way.
Fails ==
  \/ expired /\ UNCHANGED bounds
  \/ ~expired /\ UseFailure

\* The request may reach the server later; none is sent once the deadline passed.
MayLand(rs) == late' \in {late} \cup {late \cup {r} : r \in IF expired THEN {} ELSE rs}

Deletes(ns) == {[op |-> "delete", name |-> n, spec |-> None, version |-> 0] : n \in ns}

FailGet(n) ==
  /\ at = "get" /\ n \in todo
  /\ Handled(n, {n})
  /\ Fails
  /\ UNCHANGED server

FailWrite ==
  /\ at \in {"create", "update"}
  /\ MayLand({Pending})
  /\ Handled(name, {name})
  /\ Fails
  /\ UNCHANGED <<object, revision>>

\* Nothing is pruned: the error leaves every undesired name in doubt.
FailList ==
  /\ at = "get" /\ todo = {}
  /\ at' = "idle"
  /\ errs' = errs \cup (Name \ Wanted(desired))
  /\ Fails
  /\ UNCHANGED <<server, policy, desired, todo, name, cur, listed, expired, touched>>

\* Mutant: the first failing Delete ends the prune.
FailDeleteReturns(n) ==
  /\ at = "prune" /\ n \in listed
  /\ MayLand(Deletes({n}))
  /\ listed' = {}
  /\ errs' = errs \cup {n}
  /\ Fails
  /\ UNCHANGED <<object, revision, policy, at, desired, todo, name, cur, expired, touched>>

FailDelete(n) ==
  /\ at = "prune" /\ n \in listed
  /\ MayLand(Deletes({n}))
  /\ listed' = listed \ {n}
  /\ errs' = errs \cup {n}
  /\ Fails
  /\ UNCHANGED <<object, revision, policy, at, desired, todo, name, cur, expired, touched>>

\* The 30 seconds of rctx are over.
Deadline ==
  /\ at \notin {"down", "idle"} /\ ~expired
  /\ expired' = TRUE
  /\ UseFailure
  /\ UNCHANGED <<server, policy, at, desired, todo, name, cur, listed, errs, touched>>

\* admin dies; a write on its way may still reach the server.
Crash ==
  /\ at # "down"
  /\ at' = "down"
  /\ MayLand(IF at \in {"create", "update"} THEN {Pending} ELSE Deletes(listed))
  /\ todo' = {}
  /\ cur' = NoObject
  /\ listed' = {}
  /\ UseFailure
  /\ UNCHANGED <<object, revision, policy, desired, name, expired, errs, touched>>

-----------------------------------------------------------------------------

Next ==
  \/ \E r \in late : Land(r)
  \/ \E n \in Name, owner \in {"admin", "other"}, spec \in Spec : OtherWrite(n, owner, spec)
  \/ \E n \in Name : OtherDelete(n)
  \/ \E n \in Name, s \in Spec \cup {None} : PolicyChange(n, s)
  \/ Start
  \/ \E n \in Name : Get(n) \/ Delete(n) \/ FailGet(n) \/ FailDelete(n)
  \/ CreateOrUpdate \/ List \/ Return
  \/ FailWrite \/ FailList \/ Deadline \/ Crash

Behaviour == Init /\ [][Next]_vars

\* The resync calls Apply again, and every call is answered or fails.
Fairness ==
  /\ WF_vars(Start)
  /\ WF_vars(\E n \in Name : Get(n) \/ Delete(n))
  /\ WF_vars(CreateOrUpdate)
  /\ WF_vars(List)
  /\ WF_vars(Return)
  /\ WF_vars(expired /\ (FailWrite \/ FailList \/ \E n \in Name : FailGet(n) \/ FailDelete(n)))

FairBehaviour == Behaviour /\ Fairness

-----------------------------------------------------------------------------
(* Properties *)

\* Policy n is in force as d says: present under admin's label, or not managed.
InForce(n, d) ==
  IF d[n] = None THEN ~Managed(n) ELSE Managed(n) /\ object[n].spec = d[n]

\* When Apply returns, every policy is in force except those it reports a
\* failure for and those somebody else wrote meanwhile.  One bad object never
\* blocks the rest, and a nil error means all of them are in force.
OneBadObjectBlocksNoOther ==
  at = "idle" => \A n \in Name \ (errs \cup touched) : InForce(n, desired)

\* No request of admin changes an object without its label, whoever relabelled
\* or recreated it between Get and Update or while a request was late.  It may
\* delete one, but only if somebody wrote the object after this Apply began or
\* the Delete is a late one.
ForeignNotOverwritten ==
  [][\A n \in Name :
       others' = others /\ Foreign(n) /\ object'[n] # object[n]
         => object'[n] = NoObject /\ (n \in touched \/ late' # late)]_vars

\* Once policies, other writers and failures stop, every policy is in force for
\* good, unless a foreign object holds its name: failed and late calls, crashes
\* and expired rebuilds are made up for by the resync.
Convergence == <>[](\A n \in Name : InForce(n, policy) \/ Foreign(n))

\* cilium.go:2: admin "owns only objects carrying its managed-by label and never
\* touches" the others.
ForeignUntouched ==
  [][\A n \in Name : others' = others /\ Foreign(n) => object'[n] = object[n]]_vars

-----------------------------------------------------------------------------
(* The inductive invariant *)

\* No object carries a version that was not given out yet, and an object that
\* still has the version Get returned is the object Get returned.
VersionsIdentify ==
  /\ \A n \in Name : object[n] # NoObject => object[n].version <= revision[n]
  /\ at = "update" =>
       /\ cur # NoObject /\ cur.owner = "admin" /\ cur.version <= revision[name]
       /\ object[name] # NoObject /\ object[name].version = cur.version => object[name] = cur
  /\ \A r \in late : r.op = "update" =>
       /\ r.version <= revision[r.name]
       /\ object[r.name] # NoObject /\ object[r.name].version = r.version => Managed(r.name)

\* What Apply has done so far, for the names nobody else wrote.
Progress ==
  /\ todo \subseteq Wanted(desired)
  /\ listed \cap Wanted(desired) = {}
  /\ at # "prune" => listed = {}
  /\ at \in {"create", "update"} =>
       /\ name \in todo
       /\ name \notin touched => object[name] = cur
       /\ at = "create" => cur = NoObject
  /\ at \in {"prune", "idle"} => todo = {}
  /\ at \in {"get", "create", "update", "prune", "idle"} =>
       \A n \in Wanted(desired) \ (todo \cup errs \cup touched) : InForce(n, desired)
  /\ at \in {"prune", "idle"} =>
       \A n \in Name \ (Wanted(desired) \cup errs \cup touched) : Managed(n) => n \in listed /\ at = "prune"
  /\ at = "prune" => \A n \in listed \ touched : Managed(n)

IInv == TypeOK /\ VersionsIdentify /\ Progress

=============================================================================

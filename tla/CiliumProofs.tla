----------------------------- MODULE CiliumProofs ----------------------------
(***************************************************************************)
(* From the store to the policies in the cluster, for any names, specs,    *)
(* zones, workspaces, rules and bounds.                                    *)
(*                                                                         *)
(* First cilium.Apply.  IInv is inductive: VersionsIdentify makes the      *)
(* resourceVersion that Update carries stand for the object Get returned,  *)
(* so an Update that is accepted replaces an object with admin's label;    *)
(* Progress says, for the names that nobody else wrote, what Apply has     *)
(* already established.                                                    *)
(*                                                                         *)
(* Then PolicyInput and Render (module PolicyRead): what is rendered is    *)
(* what Envoy is given, and ReadOK says what a torn read still knows about *)
(* a workspace.  Together: after an Apply without errors, admin's policies *)
(* allow what the input's allowlists say.                                  *)
(***************************************************************************)
EXTENDS CiliumApply, PolicyRead, TLAPS

USE CiliumApplyAssumption

\* What Write leaves behind.
LEMMA WriteFacts ==
  ASSUME TypeOK, NEW n \in Name, NEW owner \in {"admin", "other"}, NEW spec \in Spec,
         Write(n, owner, spec)
  PROVE  /\ object' \in [Name -> Object \cup {NoObject}]
         /\ revision' \in [Name -> Nat]
         /\ object'[n] # NoObject
         /\ object'[n].owner = owner /\ object'[n].spec = spec
         /\ object'[n].version = revision[n] + 1
         /\ revision'[n] = revision[n] + 1
         /\ \A m \in Name \ {n} : object'[m] = object[m] /\ revision'[m] = revision[m]
<1> DEFINE o == [owner |-> owner, spec |-> spec, version |-> revision[n] + 1]
<1>1. o \in Object
  BY DEF TypeOK, Object
<1>2. o # NoObject /\ o.owner = owner /\ o.spec = spec /\ o.version = revision[n] + 1
  BY <1>1
<1>3. object' = [object EXCEPT ![n] = o]
  BY DEF Write
<1> HIDE DEF o
<1> QED
  BY <1>1, <1>2, <1>3 DEF TypeOK, Write

\* What Remove leaves behind.
LEMMA RemoveFacts ==
  ASSUME TypeOK, NEW n \in Name, Remove(n)
  PROVE  /\ object' \in [Name -> Object \cup {NoObject}]
         /\ revision' = revision
         /\ object'[n] = NoObject
         /\ \A m \in Name \ {n} : object'[m] = object[m]
BY DEF Remove, TypeOK

\* Serving a request that is accepted, or refusing it, only changes its name,
\* and leaves there an object with admin's label and a new version, or none.
LEMMA ServeFacts ==
  ASSUME TypeOK, NEW r \in Request,
         IF Accepted(r) THEN Serve(r) ELSE UNCHANGED <<object, revision>>
  PROVE  /\ object' \in [Name -> Object \cup {NoObject}]
         /\ revision' \in [Name -> Nat]
         /\ \A m \in Name : revision[m] <= revision'[m]
         /\ \A m \in Name \ {r.name} : object'[m] = object[m] /\ revision'[m] = revision[m]
         /\ \/ object' = object /\ revision' = revision /\ ~Accepted(r)
            \/ object'[r.name] = NoObject /\ r.op = "delete" /\ Accepted(r)
            \/ /\ Accepted(r) /\ r.op # "delete"
               /\ object'[r.name] # NoObject
               /\ object'[r.name].owner = "admin" /\ object'[r.name].spec = r.spec
               /\ object'[r.name].version = revision'[r.name]
               /\ revision'[r.name] = revision[r.name] + 1
<1>1. r.name \in Name /\ (r.op # "delete" => r.spec \in Spec)
  BY DEF Request
<1>2. CASE ~Accepted(r)
  BY <1>2 DEF TypeOK
<1>3. CASE Accepted(r) /\ r.op = "delete"
  <2>1. Remove(r.name)
    BY <1>3 DEF Serve
  <2> QED
    BY <1>1, <1>3, <2>1, RemoveFacts DEF TypeOK
<1>4. CASE Accepted(r) /\ r.op # "delete"
  <2>1. Write(r.name, "admin", r.spec)
    BY <1>4 DEF Serve
  <2>2. \A m \in Name : revision[m] \in Nat
    BY DEF TypeOK
  <2> HIDE DEF Accepted
  <2> QED
    BY <1>1, <1>4, <2>1, <2>2, WriteFacts
<1> QED
  BY <1>2, <1>3, <1>4

\* Before the first Apply the invariant holds.
LEMMA InitInv == Init => IInv
<1> SUFFICES ASSUME Init PROVE IInv
  OBVIOUS
<1>1. object \in [Name -> Object \cup {NoObject}]
  BY DEF Init, Object
<1>2. \A n \in Name : object[n] # NoObject => object[n].version = 0
  BY DEF Init
<1>3. expired \in BOOLEAN
  BY Zenon DEF Init
<1>4. TypeOK
  BY <1>1, <1>3 DEF Init, TypeOK, Desired
<1>5. VersionsIdentify
  BY <1>2 DEF Init, VersionsIdentify
<1>6. Progress
  BY DEF Init, Progress
<1> QED
  BY <1>4, <1>5, <1>6 DEF IInv

\* The write that follows a Get is a request; so are deletes.
LEMMA PendingIsRequest ==
  ASSUME IInv, at \in {"create", "update"}
  PROVE  /\ Pending \in Request
         /\ Pending.op = at /\ Pending.name = name /\ Pending.spec = desired[name]
         /\ at = "update" => Pending.version = cur.version
<1>1. desired[name] \in Spec
  BY DEF IInv, TypeOK, Progress, Wanted, Desired
<1>2. at = "update" => cur.version \in Nat
  BY DEF IInv, TypeOK, VersionsIdentify, Object
<1>3. name \in Name
  BY DEF IInv, TypeOK
<1> QED
  BY <1>1, <1>2, <1>3 DEF Pending, Request

LEMMA DeletesAreRequests ==
  ASSUME NEW ns \in SUBSET Name
  PROVE  Deletes(ns) \subseteq Request /\ \A r \in Deletes(ns) : r.op = "delete"
BY DEF Deletes, Request

\* A call that fails adds at most one of its requests to the late ones.
LEMMA MayLandFacts ==
  ASSUME NEW rs, MayLand(rs)
  PROVE  late \subseteq late' /\ late' \subseteq late \cup rs
BY DEF MayLand

\* The requests that a crash may leave behind.
LEMMA CrashRequests ==
  ASSUME IInv
  PROVE  (IF at \in {"create", "update"} THEN {Pending} ELSE Deletes(listed)) \subseteq Request
BY PendingIsRequest, DeletesAreRequests DEF IInv, TypeOK

\* Every step keeps the types.
LEMMA TypeStep == IInv /\ [Next]_vars => TypeOK'
<1> SUFFICES ASSUME IInv, [Next]_vars PROVE TypeOK'
  OBVIOUS
<1> USE DEF IInv
<1>1. ASSUME NEW r \in late, Land(r) PROVE TypeOK'
  <2>1. r \in Request
    BY DEF TypeOK
  <2>2. /\ object' \in [Name -> Object \cup {NoObject}]
        /\ revision' \in [Name -> Nat]
    BY <1>1, <2>1, ServeFacts DEF Land
  <2>3. r.name \in Name
    BY <2>1 DEF Request
  <2> QED
    BY <1>1, <2>2, <2>3 DEF Land, TypeOK, locals, bounds
<1>2. ASSUME NEW n \in Name, NEW owner \in {"admin", "other"}, NEW spec \in Spec,
             OtherWrite(n, owner, spec)
      PROVE TypeOK'
  <2>1. /\ object' \in [Name -> Object \cup {NoObject}]
        /\ revision' \in [Name -> Nat]
    BY <1>2, WriteFacts DEF OtherWrite
  <2> QED
    BY <1>2, <2>1 DEF OtherWrite, UseOther, TypeOK, locals
<1>3. ASSUME NEW n \in Name, OtherDelete(n) PROVE TypeOK'
  <2>1. /\ object' \in [Name -> Object \cup {NoObject}]
        /\ revision' = revision
    BY <1>3, RemoveFacts DEF OtherDelete
  <2> QED
    BY <1>3, <2>1 DEF OtherDelete, UseOther, TypeOK, locals
<1>4. ASSUME NEW n \in Name, NEW s \in Spec \cup {None}, PolicyChange(n, s) PROVE TypeOK'
  BY <1>4 DEF PolicyChange, UseChange, TypeOK, Desired, server, locals
<1>5. CASE Start
  <2>1. expired' \in BOOLEAN
    BY <1>5, Zenon DEF Start
  <2> QED
    BY <1>5, <2>1 DEF Start, TypeOK, Wanted, server, bounds
<1>6. ASSUME NEW n \in Name, Get(n) PROVE TypeOK'
  BY <1>6 DEF Get, Handled, TypeOK, server, bounds
<1>7. ASSUME NEW n \in Name, Delete(n) PROVE TypeOK'
  <2>1. /\ object' \in [Name -> Object \cup {NoObject}]
        /\ revision' = revision
    BY <1>7, RemoveFacts DEF Delete
  <2> QED
    BY <1>7, <2>1 DEF Delete, TypeOK, bounds
<1>8. ASSUME NEW n \in Name, FailGet(n) PROVE TypeOK'
  BY <1>8 DEF FailGet, Handled, Fails, UseFailure, TypeOK, server, bounds
<1>9. ASSUME NEW n \in Name, FailDelete(n) PROVE TypeOK'
  <2>1. late' \subseteq Request
    BY <1>9, MayLandFacts, DeletesAreRequests DEF FailDelete, TypeOK
  <2> QED
    BY <1>9, <2>1 DEF FailDelete, Fails, UseFailure, TypeOK, bounds
<1>10. CASE CreateOrUpdate
  <2>1. /\ object' \in [Name -> Object \cup {NoObject}]
        /\ revision' \in [Name -> Nat]
    BY <1>10, PendingIsRequest, ServeFacts DEF CreateOrUpdate
  <2> QED
    BY <1>10, <2>1 DEF CreateOrUpdate, Handled, TypeOK, bounds
<1>11. CASE List
  BY <1>11 DEF List, TypeOK, server, bounds
<1>12. CASE Return
  BY <1>12 DEF Return, TypeOK, server, bounds
<1>13. CASE FailWrite
  <2>1. late' \subseteq Request
    BY <1>13, MayLandFacts, PendingIsRequest DEF FailWrite, TypeOK
  <2> QED
    BY <1>13, <2>1 DEF FailWrite, Handled, Fails, UseFailure, TypeOK, bounds
<1>14. CASE FailList
  BY <1>14 DEF FailList, Fails, UseFailure, TypeOK, server, bounds
<1>15. CASE Deadline
  BY <1>15 DEF Deadline, UseFailure, TypeOK, server
<1>16. CASE Crash
  <2>1. late' \subseteq Request
    BY <1>16, MayLandFacts, CrashRequests DEF Crash, TypeOK
  <2> QED
    BY <1>16, <2>1 DEF Crash, UseFailure, TypeOK
<1>17. CASE UNCHANGED vars
  BY <1>17 DEF vars, server, locals, bounds, TypeOK
<1> QED
  BY <1>1, <1>2, <1>3, <1>4, <1>5, <1>6, <1>7, <1>8, <1>9, <1>10, <1>11, <1>12,
     <1>13, <1>14, <1>15, <1>16, <1>17 DEF Next

\* An object written under a new version, or removed, takes no name from the
\* object that a Get or a late Update has seen.
LEMMA VersionsKept ==
  ASSUME IInv, NEW n \in Name,
         late' \subseteq late, UNCHANGED <<at, name, cur>>,
         \A m \in Name \ {n} : object'[m] = object[m] /\ revision'[m] = revision[m],
         \/ object'[n] = NoObject /\ revision'[n] = revision[n]
         \/ object'[n] = object[n] /\ revision'[n] = revision[n]
         \/ object'[n].version = revision[n] + 1 /\ revision'[n] = revision[n] + 1
  PROVE  VersionsIdentify'
<1>1. /\ \A m \in Name : revision[m] \in Nat /\ object[m] \in Object \cup {NoObject}
      /\ cur # NoObject => cur.version \in Nat
      /\ \A r \in late : r.name \in Name /\ r.version \in Nat
      /\ name \in Name
  BY DEF IInv, TypeOK, Object, Request
<1>2. \A m \in Name : object'[m] # NoObject => object'[m].version <= revision'[m]
  BY <1>1 DEF IInv, VersionsIdentify
<1>3. at' = "update" =>
        /\ cur' # NoObject /\ cur'.owner = "admin" /\ cur'.version <= revision'[name']
        /\ object'[name'] # NoObject /\ object'[name'].version = cur'.version => object'[name'] = cur'
  BY <1>1 DEF IInv, VersionsIdentify
<1>4. ASSUME NEW r \in late', r.op = "update"
      PROVE  /\ r.version <= revision'[r.name]
             /\ object'[r.name] # NoObject /\ object'[r.name].version = r.version
                  => object'[r.name].owner = "admin"
  BY <1>1, <1>4 DEF IInv, VersionsIdentify, Managed
<1> QED
  BY <1>2, <1>3, <1>4 DEF VersionsIdentify, Managed

\* Every step keeps VersionsIdentify.
LEMMA VersionsStep == IInv /\ [Next]_vars => VersionsIdentify'
<1> SUFFICES ASSUME IInv, [Next]_vars PROVE VersionsIdentify'
  OBVIOUS
<1>1. ASSUME NEW r \in late, Land(r) PROVE VersionsIdentify'
  <2>1. r \in Request /\ r.name \in Name
    BY DEF IInv, TypeOK, Request
  <2>2. TypeOK /\ (IF Accepted(r) THEN Serve(r) ELSE UNCHANGED <<object, revision>>)
    BY <1>1 DEF Land, IInv
  <2>3. late' \subseteq late /\ UNCHANGED <<at, name, cur>>
    BY <1>1 DEF Land, locals
  <2>4. /\ \A m \in Name \ {r.name} : object'[m] = object[m] /\ revision'[m] = revision[m]
        /\ \/ object'[r.name] = NoObject /\ revision'[r.name] = revision[r.name]
           \/ object'[r.name] = object[r.name] /\ revision'[r.name] = revision[r.name]
           \/ object'[r.name].version = revision[r.name] + 1 /\ revision'[r.name] = revision[r.name] + 1
    <3>1. CASE Accepted(r) /\ r.op = "delete"
      BY <2>1, <2>2, <3>1, RemoveFacts DEF Serve
    <3>2. CASE ~(Accepted(r) /\ r.op = "delete")
      BY <2>1, <2>2, <3>2, ServeFacts
    <3> QED BY SMTT(30), <3>1, <3>2
  <2> QED
    BY <2>1, <2>3, <2>4, VersionsKept
<1>2. ASSUME NEW n \in Name, NEW owner \in {"admin", "other"}, NEW spec \in Spec,
             OtherWrite(n, owner, spec)
      PROVE VersionsIdentify'
  <2>1. TypeOK /\ Write(n, owner, spec) /\ late' = late /\ UNCHANGED <<at, name, cur>>
    BY <1>2 DEF OtherWrite, locals, IInv
  <2> QED
    BY <2>1, WriteFacts, VersionsKept
<1>3. ASSUME NEW n \in Name, OtherDelete(n) PROVE VersionsIdentify'
  <2>1. TypeOK /\ Remove(n) /\ late' = late /\ UNCHANGED <<at, name, cur>>
    BY <1>3 DEF OtherDelete, locals, IInv
  <2> QED
    BY <2>1, RemoveFacts, VersionsKept
<1>4. ASSUME NEW n \in Name, Get(n) PROVE VersionsIdentify'
  <2>1. UNCHANGED <<object, revision, late>>
    BY SMTT(60), <1>4 DEF Get, server
  <2>2. at' = "update" => name' = n /\ cur' = object[n] /\ Managed(n)
    BY SMTT(60), <1>4 DEF Get, Handled
  <2> QED
    BY SMTT(60), <2>1, <2>2 DEF IInv, VersionsIdentify, Managed
<1>5. CASE CreateOrUpdate
  <2>1. TypeOK /\ (IF Accepted(Pending) THEN Serve(Pending) ELSE UNCHANGED <<object, revision>>)
    BY SMTT(30), <1>5 DEF CreateOrUpdate, IInv
  <2>2. Pending \in Request /\ Pending.op # "delete" /\ Pending.name = name /\ name \in Name
    BY <1>5, PendingIsRequest DEF CreateOrUpdate, IInv, TypeOK
  <2>3. late' = late /\ at' = "get"
    BY <1>5 DEF CreateOrUpdate, Handled
  <2>4. /\ \A m \in Name \ {name} : object'[m] = object[m] /\ revision'[m] = revision[m]
        /\ \/ object' = object /\ revision' = revision
           \/ object'[name].version = revision[name] + 1 /\ revision'[name] = revision[name] + 1
    BY <2>1, <2>2, ServeFacts
  <2>5. /\ \A m \in Name : revision[m] \in Nat
        /\ \A r \in late : r.name \in Name /\ r.version \in Nat
    BY DEF IInv, TypeOK, Request
  <2> QED
    BY <2>2, <2>3, <2>4, <2>5 DEF IInv, VersionsIdentify, Managed
<1>6. ASSUME NEW n \in Name, Delete(n) PROVE VersionsIdentify'
  <2>1. TypeOK /\ Remove(n) /\ late' = late /\ UNCHANGED <<at, name, cur>>
    BY <1>6 DEF Delete, IInv
  <2> QED
    BY <2>1, RemoveFacts, VersionsKept
<1>7. CASE FailWrite
  <2>1. late' \subseteq late \cup {Pending} /\ UNCHANGED <<object, revision>> /\ at' = "get"
    BY <1>7, MayLandFacts DEF FailWrite, Handled
  <2>2. /\ Pending.op = at /\ Pending.name = name
        /\ at = "update" => Pending.version = cur.version
    BY <1>7, PendingIsRequest DEF FailWrite
  <2> QED
    BY <2>1, <2>2 DEF IInv, VersionsIdentify, Managed
<1>8. ASSUME NEW n \in Name, FailDelete(n) PROVE VersionsIdentify'
  <2>1. late' \subseteq late \cup Deletes({n}) /\ UNCHANGED <<object, revision, at, name, cur>>
    BY <1>8, MayLandFacts DEF FailDelete
  <2>2. \A r \in Deletes({n}) : r.op = "delete"
    BY DeletesAreRequests
  <2> QED
    BY ZenonT(60), <2>1, <2>2 DEF IInv, VersionsIdentify, Managed
<1>9. CASE Crash
  <2>1. /\ late' \subseteq late \cup (IF at \in {"create", "update"} THEN {Pending} ELSE Deletes(listed))
        /\ UNCHANGED <<object, revision>> /\ at' = "down"
    BY <1>9, MayLandFacts DEF Crash
  <2>2. \A r \in Deletes(listed) : r.op = "delete"
    BY DeletesAreRequests DEF IInv, TypeOK
  <2>3. at \in {"create", "update"} =>
          /\ Pending.op = at /\ Pending.name = name
          /\ at = "update" => Pending.version = cur.version
    BY PendingIsRequest
  <2> QED
    BY <2>1, <2>2, <2>3 DEF IInv, VersionsIdentify, Managed
<1>10. ASSUME NEW n \in Name, NEW s \in Spec \cup {None}, PolicyChange(n, s) PROVE VersionsIdentify'
  BY SMTT(60), <1>10 DEF PolicyChange, server, locals, IInv, VersionsIdentify, Managed
<1>11. CASE Start
  BY <1>11 DEF Start, server, IInv, VersionsIdentify, Managed
<1>12. ASSUME NEW n \in Name, FailGet(n) PROVE VersionsIdentify'
  BY <1>12 DEF FailGet, Handled, server, IInv, VersionsIdentify, Managed
<1>13. CASE List
  BY SMTT(60), <1>13 DEF List, server, IInv, VersionsIdentify, Managed
<1>14. CASE Return
  BY <1>14 DEF Return, server, IInv, VersionsIdentify, Managed
<1>15. CASE FailList
  BY <1>15 DEF FailList, server, IInv, VersionsIdentify, Managed
<1>16. CASE Deadline
  BY <1>16 DEF Deadline, server, IInv, VersionsIdentify, Managed
<1>17. CASE UNCHANGED vars
  BY SMTT(60), <1>17 DEF vars, server, locals, IInv, VersionsIdentify, Managed
<1> QED
  BY <1>1, <1>2, <1>3, <1>4, <1>5, <1>6, <1>7, <1>8, <1>9, <1>10, <1>11, <1>12,
     <1>13, <1>14, <1>15, <1>16, <1>17 DEF Next

\* A write by somebody else, or a late one, excuses its name.
LEMMA ProgressWithoutName ==
  ASSUME IInv, NEW n \in Name,
         UNCHANGED locals, touched' = touched \cup {n},
         \A m \in Name \ {n} : object'[m] = object[m]
  PROVE  Progress'
<1>1. Wanted(desired)' = Wanted(desired)
  BY DEF Wanted, locals
<1>2. \A m \in Name \ {n} : /\ Managed(m)' <=> Managed(m)
                            /\ InForce(m, desired)' <=> InForce(m, desired)
  BY DEF Managed, InForce, locals
<1>3. at' \in {"create", "update"} =>
        /\ name' \in todo'
        /\ name' \notin touched' => object'[name'] = cur'
        /\ at' = "create" => cur' = NoObject
  BY SMTT(60) DEF IInv, Progress, Wanted, locals
<1>4. at' \in {"get", "create", "update", "prune", "idle"} =>
        \A m \in Wanted(desired) \ (todo \cup errs \cup touched') : InForce(m, desired)'
  BY SMTT(60), <1>2 DEF IInv, Progress, Wanted, locals
<1>5. at' \in {"prune", "idle"} =>
        \A m \in Name \ (Wanted(desired) \cup errs \cup touched') :
           Managed(m)' => m \in listed' /\ at' = "prune"
  BY SMTT(60), <1>2 DEF IInv, Progress, locals
<1>6. at' = "prune" => \A m \in listed \ touched' : Managed(m)'
  BY <1>2 DEF IInv, TypeOK, Progress, Managed, locals
<1> QED
  BY <1>1, <1>3, <1>4, <1>5, <1>6 DEF IInv, Progress, locals

\* Every step keeps Progress.
LEMMA ProgressStep == IInv /\ [Next]_vars => Progress'
<1> SUFFICES ASSUME IInv, [Next]_vars PROVE Progress'
  OBVIOUS
<1> USE DEF IInv
<1>1. ASSUME NEW r \in late, Land(r) PROVE Progress'
  <2>1. r \in Request /\ r.name \in Name
    BY DEF TypeOK, Request
  <2>2. \A m \in Name \ {r.name} : object'[m] = object[m]
    BY SMTT(60), <1>1, <2>1, ServeFacts DEF Land
  <2> QED
    BY <1>1, <2>1, <2>2, ProgressWithoutName DEF Land
<1>2. ASSUME NEW n \in Name, NEW owner \in {"admin", "other"}, NEW spec \in Spec,
             OtherWrite(n, owner, spec)
      PROVE Progress'
  <2>1. \A m \in Name \ {n} : object'[m] = object[m]
    BY <1>2, WriteFacts DEF OtherWrite
  <2> QED
    BY <1>2, <2>1, ProgressWithoutName DEF OtherWrite
<1>3. ASSUME NEW n \in Name, OtherDelete(n) PROVE Progress'
  <2>1. \A m \in Name \ {n} : object'[m] = object[m]
    BY SMTT(60), <1>3, RemoveFacts DEF OtherDelete
  <2> QED
    BY <1>3, <2>1, ProgressWithoutName DEF OtherDelete
<1>4. ASSUME NEW n \in Name, NEW s \in Spec \cup {None}, PolicyChange(n, s) PROVE Progress'
  BY SMTT(60), <1>4 DEF PolicyChange, server, locals, Progress, Managed, InForce, Wanted
<1>5. CASE Start
  <2>1. at' = "get" /\ todo' = Wanted(desired)' /\ listed' = listed /\ at \in {"down", "idle"}
    BY <1>5 DEF Start, Wanted
  <2> QED
    BY <2>1 DEF Progress
<1>6. ASSUME NEW n \in Name, Get(n) PROVE Progress'
  <2>1. /\ UNCHANGED <<object, desired, listed, touched>>
        /\ at = "get" /\ n \in todo
    BY SMTT(60), <1>6 DEF Get, Handled, server
  <2>2. /\ Wanted(desired)' = Wanted(desired) /\ Wanted(desired) \subseteq Name
        /\ n \in Wanted(desired)
    BY <2>1 DEF Wanted, Progress
  <2>3. \A m \in Name : /\ Managed(m)' <=> Managed(m)
                        /\ InForce(m, desired)' <=> InForce(m, desired)
    BY SMTT(60), <2>1 DEF Managed, InForce
  <2>4. CASE object[n] = NoObject \/ (Managed(n) /\ object[n].spec # desired[n])
    <3>1. /\ at' \in {"create", "update"} /\ name' = n /\ cur' = object[n]
          /\ at' = "create" => object[n] = NoObject
          /\ UNCHANGED <<todo, errs>>
      BY SMTT(60), <1>6, <2>4 DEF Get
    <3> QED
      BY SMTT(60), <2>1, <2>2, <2>3, <3>1 DEF Progress
  <2>5. CASE ~(object[n] = NoObject \/ (Managed(n) /\ object[n].spec # desired[n]))
    <3>1. /\ at' = "get" /\ todo' = todo \ {n}
          /\ errs' = errs \cup (IF Foreign(n) THEN {n} ELSE {})
      BY <1>6, <2>5 DEF Get, Handled
    <3>2. n \notin errs' => InForce(n, desired)
      BY SMTT(60), <2>2, <2>5, <3>1 DEF Foreign, Managed, InForce, Wanted
    <3> QED
      BY SMTT(60), <2>1, <2>2, <2>3, <3>1, <3>2 DEF Progress
  <2> QED BY SMTT(60), <2>4, <2>5
<1>7. ASSUME NEW n \in Name, Delete(n) PROVE Progress'
  <2>1. /\ UNCHANGED <<at, desired, todo, errs, touched>> /\ at = "prune"
        /\ n \in listed /\ listed' = listed \ {n}
    BY <1>7 DEF Delete
  <2>2. object'[n] = NoObject /\ \A m \in Name \ {n} : object'[m] = object[m]
    BY SMTT(60), <1>7, RemoveFacts DEF Delete
  <2>3. Wanted(desired)' = Wanted(desired) /\ n \notin Wanted(desired)
    BY SMTT(30), <2>1 DEF Wanted, Progress
  <2>4. /\ ~Managed(n)'
        /\ \A m \in Name \ {n} : /\ Managed(m)' <=> Managed(m)
                                 /\ InForce(m, desired)' <=> InForce(m, desired)
    BY <2>1, <2>2 DEF Managed, InForce
  <2>5. Wanted(desired) \subseteq Name /\ listed \subseteq Name
    BY SMTT(60) DEF Wanted, TypeOK
  <2> QED
    BY <2>1, <2>3, <2>4, <2>5 DEF Progress
<1>8. ASSUME NEW n \in Name, FailGet(n) PROVE Progress'
  <2>1. /\ UNCHANGED <<object, desired, listed, touched>> /\ at = "get" /\ at' = "get"
        /\ todo' = todo \ {n} /\ errs' = errs \cup {n}
    BY SMTT(60), <1>8 DEF FailGet, Handled, server
  <2> QED
    BY <2>1 DEF Progress, Wanted, InForce, Managed
<1>9. ASSUME NEW n \in Name, FailDelete(n) PROVE Progress'
  <2>1. /\ UNCHANGED <<object, at, desired, todo, touched>> /\ at = "prune"
        /\ listed' = listed \ {n} /\ errs' = errs \cup {n}
    BY SMTT(60), <1>9 DEF FailDelete
  <2> QED
    BY <2>1 DEF Progress, Wanted, InForce, Managed
<1>10. CASE CreateOrUpdate
  <2>1. /\ UNCHANGED <<desired, name, listed, touched>> /\ at \in {"create", "update"} /\ at' = "get"
        /\ todo' = todo \ {name}
        /\ errs' = errs \cup (IF Accepted(Pending) THEN {} ELSE {name})
    BY SMTT(60), <1>10 DEF CreateOrUpdate, Handled
  <2>2. Pending \in Request /\ Pending.op # "delete" /\ Pending.name = name
        /\ Pending.spec = desired[name] /\ name \in Name
    BY SMTT(60), <2>1, PendingIsRequest DEF TypeOK
  <2>3. /\ \A m \in Name \ {name} : object'[m] = object[m]
        /\ Accepted(Pending) => /\ object'[name] # NoObject /\ object'[name].owner = "admin"
                                /\ object'[name].spec = desired[name]
    BY SMTT(60), <1>10, <2>2, ServeFacts DEF CreateOrUpdate
  <2>4. /\ Wanted(desired)' = Wanted(desired) /\ Wanted(desired) \subseteq Name
        /\ name \in Wanted(desired)
    BY SMTT(60), <2>1 DEF Wanted, Progress
  <2>5. \A m \in Name \ {name} : InForce(m, desired)' <=> InForce(m, desired)
    BY SMTT(60), <2>1, <2>3 DEF Managed, InForce
  <2>6. name \notin errs' => InForce(name, desired)'
    BY SMTT(60), <2>1, <2>2, <2>3, <2>4 DEF Managed, InForce, Wanted
  <2> QED
    BY <2>1, <2>2, <2>4, <2>5, <2>6 DEF Progress
<1>11. CASE List
  <2>1. /\ UNCHANGED <<object, desired, todo, errs, touched>> /\ at = "get" /\ todo = {} /\ at' = "prune"
        /\ listed' = {n \in Name : Managed(n)} \ Wanted(desired)
    BY SMTT(60), <1>11 DEF List, server
  <2> QED
    BY <2>1 DEF Progress, Wanted, InForce, Managed
<1>12. CASE Return
  <2>1. /\ UNCHANGED <<object, desired, todo, errs, touched, listed>> /\ at = "prune"
        /\ listed = {} /\ at' = "idle"
    BY SMTT(60), <1>12 DEF Return, server
  <2> QED
    BY <2>1 DEF Progress, Wanted, InForce, Managed
<1>13. CASE FailWrite
  <2>1. /\ UNCHANGED <<object, desired, listed, touched>> /\ at' = "get"
        /\ at \in {"create", "update"} /\ todo' = todo \ {name} /\ errs' = errs \cup {name}
    BY SMTT(60), <1>13 DEF FailWrite, Handled
  <2> QED
    BY <2>1 DEF Progress, Wanted, InForce, Managed
<1>14. CASE FailList
  <2>1. /\ UNCHANGED <<object, desired, todo, touched, listed>> /\ at = "get"
        /\ todo = {} /\ at' = "idle" /\ errs' = errs \cup (Name \ Wanted(desired))
    BY SMTT(60), <1>14 DEF FailList, server
  <2> QED
    BY <2>1 DEF Progress, Wanted, InForce, Managed
<1>15. CASE Deadline
  <2>1. UNCHANGED <<object, at, desired, todo, name, cur, listed, errs, touched>>
    BY ZenonT(60), <1>15 DEF Deadline, server
  <2> QED
    BY <2>1, SMTT(60) DEF Progress, Wanted, InForce, Managed
<1>16. CASE Crash
  <2>1. at' = "down" /\ todo' = {} /\ listed' = {} /\ UNCHANGED <<desired, errs>>
    BY ZenonT(60), <1>16 DEF Crash
  <2> QED
    BY <2>1, SMTT(60) DEF Progress, Wanted
<1>17. CASE UNCHANGED vars
  BY <1>17 DEF vars, server, locals, Progress, Wanted, InForce, Managed
<1> QED
  BY SMTT(60), <1>1, <1>2, <1>3, <1>4, <1>5, <1>6, <1>7, <1>8, <1>9, <1>10, <1>11, <1>12,
     <1>13, <1>14, <1>15, <1>16, <1>17 DEF Next

\* The invariant holds in every state of every behaviour.
THEOREM Invariant == Behaviour => []IInv
<1>1. IInv /\ [Next]_vars => IInv'
  BY TypeStep, VersionsStep, ProgressStep DEF IInv
<1> QED
  BY <1>1, InitInv, PTL DEF Behaviour

\* When Apply returns, every policy is in force unless it reports a failure for
\* that very name or somebody else wrote it meanwhile (cilium.go:131-133).
THEOREM NoOtherBlocked == Behaviour => []OneBadObjectBlocksNoOther
<1>1. IInv => OneBadObjectBlocksNoOther
  BY ZenonT(60) DEF IInv, Progress, OneBadObjectBlocksNoOther, InForce, Wanted
<1> QED
  BY <1>1, Invariant, PTL

\* No write of admin, in time or late, changes an object without its label; a
\* Delete removes one only in the windows that ForeignNotOverwritten names.
THEOREM ForeignKept == Behaviour => ForeignNotOverwritten
<1> DEFINE Kept(n) == others' = others /\ Foreign(n) /\ object'[n] # object[n]
                        => object'[n] = NoObject /\ (n \in touched \/ late' # late)
<1>1. ASSUME IInv, [Next]_vars, NEW n \in Name PROVE Kept(n)
  <2>1. CASE object' = object
    BY SMTT(30), <2>1
  <2>2. ASSUME NEW r \in late, Land(r) PROVE Kept(n)
    <3>1. r \in Request /\ TypeOK
      BY <1>1 DEF IInv, TypeOK
    <3>2. late' # late
      BY SMTT(60), <2>2 DEF Land
    <3>3. r.op # "delete" /\ Accepted(r) => ~Foreign(r.name)
      BY <1>1, <3>1 DEF IInv, VersionsIdentify, Accepted, Foreign, Managed, Request
    <3>4. \/ object'[n] = object[n]
          \/ object'[n] = NoObject
          \/ n = r.name /\ r.op # "delete" /\ Accepted(r)
      BY SMTT(30), <2>2, <3>1, ServeFacts DEF Land
    <3> QED
      BY <3>2, <3>3, <3>4
  <2>3. ASSUME others' = others + 1 PROVE Kept(n)
    BY <1>1, <2>3 DEF IInv, TypeOK
  <2>4. CASE CreateOrUpdate
    <3>1. /\ Pending \in Request /\ Pending.op = at /\ Pending.name = name
          /\ at \in {"create", "update"} /\ TypeOK
          /\ at = "update" => Pending.version = cur.version
      BY SMTT(60), <1>1, <2>4, PendingIsRequest DEF CreateOrUpdate, IInv
    <3>2. Accepted(Pending) => ~Foreign(name)
      BY SMTT(60), <1>1, <3>1 DEF IInv, VersionsIdentify, Accepted, Foreign
    <3>3. object'[n] = object[n] \/ (n = name /\ Accepted(Pending))
      BY <2>4, <3>1, ServeFacts DEF CreateOrUpdate
    <3> QED
      BY SMTT(60), <3>2, <3>3
  <2>5. ASSUME NEW m \in Name, Delete(m) PROVE Kept(n)
    <3>1. at = "prune" /\ m \in listed /\ (n # m => object'[n] = object[n]) /\ object'[m] = NoObject
      BY SMTT(60), <1>1, <2>5, RemoveFacts DEF Delete, IInv
    <3>2. m \in touched \/ ~Foreign(m)
      BY <1>1, <3>1 DEF IInv, Progress, Managed, Foreign
    <3> QED
      BY SMTT(60), <3>1, <3>2
  <2> QED
    BY ZenonT(60), <1>1, <2>1, <2>2, <2>3, <2>4, <2>5
    DEF Next, vars, server, OtherWrite, OtherDelete, UseOther, PolicyChange, Start, Get, Handled,
        List, Return, FailGet, FailDelete, FailWrite, FailList, Deadline, Crash
<1>2. IInv /\ [Next]_vars => [\A n \in Name : Kept(n)]_vars
  BY SMTT(30), <1>1
<1> QED
  BY <1>2, Invariant, PTL DEF Behaviour, ForeignNotOverwritten

-----------------------------------------------------------------------------
(* What is rendered: PolicyRead *)

HIDE CiliumApplyAssumption

\* A zone's policy selects the workspaces of that zone, and no other pod.
LEMMA ZoneSelector ==
  ASSUME NEW i \in Input, NEW z \in Zone, NEW dns,
         z = i.default \/ \E w \in Elsewhere(i) : i.assign[w] = z
  PROVE  LET p == cnp(Selector(i, z), dns) IN
         /\ Admitted(p)
         /\ \A w \in Ws : Selects(p, w) <=> ZoneOf(i, w) = z
         /\ ~ Selects(p, NoWs)
<1>a. NoZone \notin Zone /\ NoWs \notin Ws
  BY SMTT(30), PolicyReadAssumption
<1> USE <1>a
<1> DEFINE p == cnp(Selector(i, z), dns)
           E == Elsewhere(i)
<1>0. p.expr = Selector(i, z) /\ p.dns = dns
  BY DEF cnp
<1>1. \A w \in Ws : i.assign[w] \in Zone \cup {NoZone}
  BY DEF Input
<1>2. \A w : w \in E <=> w \in Ws /\ i.assign[w] # NoZone /\ i.assign[w] # i.default
  BY DEF Elsewhere
<1>3. \A w \in Ws : ZoneOf(i, w) = IF i.assign[w] # NoZone THEN i.assign[w] ELSE i.default
  BY SMTT(30) DEF ZoneOf
<1> HIDE DEF p, E
<1>4. CASE z = i.default
  <2>1. CASE E = {}
    <3>1. p.expr = {[op |-> "Exists", values |-> {}]}
      BY <1>0, <1>4, <2>1 DEF Selector, match, E
    <3>2. Admitted(p) /\ \A w : Selects(p, w) <=> w # NoWs
      BY SMTT(30), <3>1 DEF Admitted, Selects
    <3> QED BY <1>2, <1>3, <1>4, <2>1, <3>2 DEF p
  <2>2. CASE E # {}
    <3>1. p.expr = {[op |-> "Exists", values |-> {}], [op |-> "NotIn", values |-> E]}
      BY <1>0, <1>4, <2>2 DEF Selector, match, E
    <3>2. Admitted(p) /\ \A w : Selects(p, w) <=> w # NoWs /\ w \notin E
      BY SMTT(30), <2>2, <3>1 DEF Admitted, Selects
    <3> QED BY <1>2, <1>3, <1>4, <3>2 DEF p
  <2> QED BY SMTT(30), <2>1, <2>2
<1>5. CASE z # i.default
  <2> DEFINE M == {w \in E : i.assign[w] = z}
  <2>1. M # {}
    BY <1>5 DEF E
  <2>2. p.expr = {[op |-> "In", values |-> M]}
    BY <1>0, <1>5 DEF Selector, match, E
  <2>3. Admitted(p) /\ \A w : Selects(p, w) <=> w \in M
    BY <2>1, <2>2 DEF Admitted, Selects
  <2> QED BY <1>2, <1>3, <1>5, <2>3 DEF p
<1> QED BY <1>4, <1>5

\* A grant's policy selects its workspace.
LEMMA GrantSelector ==
  ASSUME NEW w, NEW dns
  PROVE  LET p == cnp({match("In", {w})}, dns) IN
         Admitted(p) /\ \A v : Selects(p, v) <=> v = w
<1> DEFINE p == cnp({match("In", {w})}, dns)
<1>1. p.expr = {[op |-> "In", values |-> {w}]}
  BY DEF cnp, match
<1> HIDE DEF p
<1>2. Admitted(p) /\ \A v : Selects(p, v) <=> v = w
  BY <1>1 DEF Admitted, Selects
<1> QED BY ZenonT(60), <1>2 DEF p

\* cilium.Render: the policies of an input let a workspace resolve exactly the
\* DNS rules of its Effective list, and nothing to a pod that is no workspace.
LEMMA RenderAgrees ==
  ASSUME NEW i \in Input
  PROVE  /\ \A w \in Ws : Allowed(Render(i), w) = dnsRules(Effective(i, w))
         /\ Allowed(Render(i), NoWs) = {}
<1>a. NoZone \notin Zone /\ NoWs \notin Ws
  BY SMTT(30), PolicyReadAssumption
<1> USE <1>a
<1> DEFINE Z == {z \in Zone : /\ dnsRules(i.rules[z]) # {}
                              /\ z = i.default \/ \E w \in Elsewhere(i) : i.assign[w] = z}
           G == {w \in Ws : dnsRules(i.grants[w]) # {}}
           zp(z) == cnp(Selector(i, z), dnsRules(i.rules[z]))
           gp(w) == cnp({match("In", {w})}, dnsRules(i.grants[w]))
<1>1. Render(i) = {zp(z) : z \in Z} \cup {gp(w) : w \in G}
  BY DEF Render, ZonePolicies, GrantPolicies
<1>2. ASSUME NEW z \in Z
      PROVE  /\ Admitted(zp(z)) /\ \A w \in Ws : Selects(zp(z), w) <=> ZoneOf(i, w) = z
             /\ ~ Selects(zp(z), NoWs) /\ Resolves(zp(z)) = dnsRules(i.rules[z])
  <2>1. /\ Admitted(zp(z)) /\ \A w \in Ws : Selects(zp(z), w) <=> ZoneOf(i, w) = z
        /\ ~ Selects(zp(z), NoWs)
    <3>1. z \in Zone /\ (z = i.default \/ \E w \in Elsewhere(i) : i.assign[w] = z)
      OBVIOUS
    <3> DEFINE dns == dnsRules(i.rules[z])
               p == cnp(Selector(i, z), dns)
    <3> HIDE DEF dns
    <3>2. /\ Admitted(p) /\ \A w \in Ws : Selects(p, w) <=> ZoneOf(i, w) = z
          /\ ~ Selects(p, NoWs)
      BY ZenonT(60), <3>1, ZoneSelector
    <3> QED BY ZenonT(60), <3>2 DEF dns
  <2>2. zp(z).dns = dnsRules(i.rules[z]) /\ zp(z).dns # {}
    BY SMTT(30) DEF cnp
  <2>3. Resolves(zp(z)) = dnsRules(i.rules[z])
    BY <2>2 DEF Resolves
  <2> QED BY ZenonT(60), <2>1, <2>3
<1>3. ASSUME NEW v \in G
      PROVE  /\ Admitted(gp(v)) /\ \A w : Selects(gp(v), w) <=> w = v
             /\ Resolves(gp(v)) = dnsRules(i.grants[v])
  <2>1. Admitted(gp(v)) /\ \A w : Selects(gp(v), w) <=> w = v
    BY ZenonT(60), GrantSelector
  <2>2. gp(v).dns = dnsRules(i.grants[v]) /\ gp(v).dns # {}
    BY DEF cnp
  <2>3. Resolves(gp(v)) = dnsRules(i.grants[v])
    BY ZenonT(60), <2>2 DEF Resolves
  <2> QED BY ZenonT(60), <2>1, <2>3
<1> HIDE DEF zp, gp
<1>4. ASSUME NEW w, NEW x
      PROVE  x \in Allowed(Render(i), w)
               <=> \/ \E z \in Z : Selects(zp(z), w) /\ x \in dnsRules(i.rules[z])
                   \/ \E v \in G : w = v /\ x \in dnsRules(i.grants[v])
  <2>1. x \in Allowed(Render(i), w)
          <=> \E p \in Render(i) : Admitted(p) /\ Selects(p, w) /\ x \in Resolves(p)
    BY ZenonT(60) DEF Allowed
  <2> HIDE DEF Z, G
  <2>2. x \in Allowed(Render(i), w)
          <=> \/ \E z \in Z : Admitted(zp(z)) /\ Selects(zp(z), w) /\ x \in Resolves(zp(z))
              \/ \E v \in G : Admitted(gp(v)) /\ Selects(gp(v), w) /\ x \in Resolves(gp(v))
    BY ZenonT(60), <1>1, <2>1
  <2>3. ASSUME NEW z \in Z
        PROVE  Admitted(zp(z)) /\ Selects(zp(z), w) /\ x \in Resolves(zp(z))
                 <=> Selects(zp(z), w) /\ x \in dnsRules(i.rules[z])
    BY ZenonT(60), <1>2
  <2>4. ASSUME NEW v \in G
        PROVE  Admitted(gp(v)) /\ Selects(gp(v), w) /\ x \in Resolves(gp(v))
                 <=> w = v /\ x \in dnsRules(i.grants[v])
    BY ZenonT(60), <1>3
  <2> QED BY ZenonT(60), <2>2, <2>3, <2>4
<1>5. ASSUME NEW w \in Ws PROVE Allowed(Render(i), w) = dnsRules(Effective(i, w))
  <2> SUFFICES ASSUME NEW x
               PROVE  x \in Allowed(Render(i), w) <=> x \in dnsRules(Effective(i, w))
    BY ZenonT(60)
  <2> DEFINE h == ZoneOf(i, w)
  <2>1. h \in Zone \cup {NoZone}
    BY SMTT(30) DEF ZoneOf, Input
  <2>2. x \in dnsRules(Effective(i, w))
          <=> \/ h # NoZone /\ x \in dnsRules(i.rules[h])
              \/ x \in dnsRules(i.grants[w])
    BY DEF dnsRules, Effective
  <2>3. h # NoZone => h = i.default \/ (w \in Elsewhere(i) /\ i.assign[w] = h)
    BY DEF ZoneOf, Elsewhere, Input
  <2>4. (\E z \in Z : Selects(zp(z), w) /\ x \in dnsRules(i.rules[z]))
          <=> h \in Z /\ x \in dnsRules(i.rules[h])
    BY ZenonT(60), <1>2
  <2>5. h # NoZone /\ x \in dnsRules(i.rules[h]) => h \in Z
    BY SMTT(30), <2>1, <2>3
  <2>6. h \in Z => h # NoZone
    OBVIOUS
  <2>7. (\E v \in G : w = v /\ x \in dnsRules(i.grants[v])) <=> x \in dnsRules(i.grants[w])
    BY ZenonT(60)
  <2> HIDE DEF h, Z, G
  <2> QED BY ZenonT(60), <1>4, <2>2, <2>4, <2>5, <2>6, <2>7
<1>6. Allowed(Render(i), NoWs) = {}
  <2> SUFFICES ASSUME NEW x \in Allowed(Render(i), NoWs) PROVE FALSE
    BY ZenonT(60)
  <2>1. \A z \in Z : ~ Selects(zp(z), NoWs)
    BY ZenonT(60), <1>2
  <2>2. NoWs \notin G
    OBVIOUS
  <2> HIDE DEF Z, G
  <2> QED BY ZenonT(60), <1>4, <2>1, <2>2
<1> QED BY <1>5, <1>6

-----------------------------------------------------------------------------
(* PolicyInput while admins change the store *)

\* The rows without the foreign keys.
Rows == [zones : SUBSET Zone, default : Zone \cup {NoZone}, rules : [Zone -> SUBSET Rule],
         grants : [Ws -> SUBSET Rule], assign : [Ws -> Zone \cup {NoZone}]]

\* What makes rows a database.
LEMMA IsDatabase ==
  ASSUME NEW d
  PROVE  d \in Database <=>
           /\ d \in Rows
           /\ d.default \in d.zones \cup {NoZone}
           /\ \A z \in Zone \ d.zones : d.rules[z] = {}
           /\ \A w \in Ws : d.assign[w] \in d.zones \cup {NoZone}
BY ZenonT(60) DEF Database, Rows

\* The transactions on zones keep the foreign keys.
LEMMA ZoneTransactions ==
  ASSUME db \in Database, NEW z \in Zone
  PROVE  /\ [db EXCEPT !.zones = @ \cup {z}] \in Database
         /\ \A s \in Zone : [db EXCEPT !.zones = @ \cup {z}, !.rules[z] = db.rules[s]] \in Database
         /\ z # db.default /\ (\A w \in Ws : db.assign[w] # z)
              => [db EXCEPT !.zones = @ \ {z}, !.rules[z] = {}] \in Database
         /\ z \in db.zones
              => [db EXCEPT !.default = z,
                            !.assign = [w \in Ws |-> IF @[w] = z THEN NoZone ELSE @[w]]] \in Database
<1>1. /\ db \in Rows /\ db.default \in db.zones \cup {NoZone}
      /\ \A y \in Zone \ db.zones : db.rules[y] = {}
      /\ \A w \in Ws : db.assign[w] \in db.zones \cup {NoZone}
  BY ZenonT(60), IsDatabase
<1>2. /\ db.zones \subseteq Zone /\ db.default \in Zone \cup {NoZone}
      /\ db.rules \in [Zone -> SUBSET Rule] /\ db.assign \in [Ws -> Zone \cup {NoZone}]
  BY <1>1 DEF Rows
<1>3. [db EXCEPT !.zones = @ \cup {z}] \in Database
  <2> DEFINE d == [db EXCEPT !.zones = @ \cup {z}]
  <2>1. d \in Rows
    BY ZenonT(60), <1>1, <1>2 DEF Rows
  <2>2. /\ d.zones = db.zones \cup {z} /\ d.default = db.default /\ d.rules = db.rules
        /\ d.assign = db.assign
    BY <1>1 DEF Rows
  <2> HIDE DEF d
  <2>3. d \in Database
    BY <1>1, <2>1, <2>2, IsDatabase
  <2> QED BY <2>3 DEF d
<1>4. ASSUME NEW s \in Zone
      PROVE  [db EXCEPT !.zones = @ \cup {z}, !.rules[z] = db.rules[s]] \in Database
  <2> DEFINE f == [db.rules EXCEPT ![z] = db.rules[s]]
             d == [db EXCEPT !.zones = @ \cup {z}, !.rules = f]
  <2>0. f \in [Zone -> SUBSET Rule] /\ \A y \in Zone \ {z} : f[y] = db.rules[y]
    BY <1>2
  <2>a. [db EXCEPT !.zones = @ \cup {z}, !.rules[z] = db.rules[s]] = d
    BY <1>1 DEF Rows
  <2> HIDE DEF f
  <2>1. d \in Rows
    BY ZenonT(60), <1>1, <1>2, <2>0 DEF Rows
  <2>2. /\ d.zones = db.zones \cup {z} /\ d.default = db.default /\ d.rules = f
        /\ d.assign = db.assign
    BY <1>1 DEF Rows
  <2> HIDE DEF d
  <2>3. d \in Database
    BY <1>1, <2>0, <2>1, <2>2, IsDatabase
  <2> QED BY ZenonT(60), <2>a, <2>3
<1>5. ASSUME z # db.default, \A w \in Ws : db.assign[w] # z
      PROVE  [db EXCEPT !.zones = @ \ {z}, !.rules[z] = {}] \in Database
  <2> DEFINE f == [db.rules EXCEPT ![z] = {}]
             d == [db EXCEPT !.zones = @ \ {z}, !.rules = f]
  <2>0. f \in [Zone -> SUBSET Rule] /\ f[z] = {} /\ \A y \in Zone \ {z} : f[y] = db.rules[y]
    BY <1>2
  <2>a. [db EXCEPT !.zones = @ \ {z}, !.rules[z] = {}] = d
    BY <1>1 DEF Rows
  <2> HIDE DEF f
  <2>1. d \in Rows
    BY ZenonT(60), <1>1, <1>2, <2>0 DEF Rows
  <2>2. /\ d.zones = db.zones \ {z} /\ d.default = db.default /\ d.rules = f
        /\ d.assign = db.assign
    BY SMTT(30), <1>1 DEF Rows
  <2> HIDE DEF d
  <2>3. d \in Database
    BY <1>1, <1>5, <2>0, <2>1, <2>2, IsDatabase
  <2> QED BY ZenonT(60), <2>a, <2>3
<1>6. ASSUME z \in db.zones
      PROVE  [db EXCEPT !.default = z,
                        !.assign = [w \in Ws |-> IF @[w] = z THEN NoZone ELSE @[w]]] \in Database
  <2> DEFINE f == [w \in Ws |-> IF db.assign[w] = z THEN NoZone ELSE db.assign[w]]
             d == [db EXCEPT !.default = z, !.assign = f]
  <2>0. /\ f \in [Ws -> Zone \cup {NoZone}] /\ \A w \in Ws : f[w] \in {db.assign[w], NoZone}
    BY <1>2
  <2>a. [db EXCEPT !.default = z,
                   !.assign = [w \in Ws |-> IF @[w] = z THEN NoZone ELSE @[w]]] = d
    BY <1>1 DEF Rows
  <2> HIDE DEF f
  <2>1. d \in Rows
    BY ZenonT(60), <1>1, <1>2, <2>0 DEF Rows
  <2>2. /\ d.zones = db.zones /\ d.default = z /\ d.rules = db.rules /\ d.assign = f
    BY <1>1 DEF Rows
  <2> HIDE DEF d
  <2>3. d \in Database
    BY <1>1, <1>6, <2>0, <2>1, <2>2, IsDatabase
  <2> QED BY ZenonT(60), <2>a, <2>3
<1> QED BY ZenonT(60), <1>3, <1>4, <1>5, <1>6

\* So do those on rules, assignments and grants.
LEMMA RuleTransactions ==
  ASSUME db \in Database, NEW r \in Rule
  PROVE  /\ \A z \in db.zones : [db EXCEPT !.rules[z] = @ \cup {r}] \in Database
         /\ \A z \in Zone : [db EXCEPT !.rules[z] = @ \ {r}] \in Database
         /\ \A w \in Ws : /\ [db EXCEPT !.grants[w] = @ \cup {r}] \in Database
                          /\ [db EXCEPT !.grants[w] = @ \ {r}] \in Database
<1>1. /\ db \in Rows /\ db.default \in db.zones \cup {NoZone}
      /\ \A y \in Zone \ db.zones : db.rules[y] = {}
      /\ \A w \in Ws : db.assign[w] \in db.zones \cup {NoZone}
  BY ZenonT(60), IsDatabase
<1>2. /\ db.zones \subseteq Zone
      /\ db.rules \in [Zone -> SUBSET Rule] /\ db.grants \in [Ws -> SUBSET Rule]
  BY <1>1 DEF Rows
<1>3. ASSUME NEW f \in [Zone -> SUBSET Rule], \A y \in Zone \ db.zones : f[y] = {}
      PROVE  [db EXCEPT !.rules = f] \in Database
  <2> DEFINE d == [db EXCEPT !.rules = f]
  <2>1. d \in Rows
    BY ZenonT(60), <1>1 DEF Rows
  <2>2. /\ d.zones = db.zones /\ d.default = db.default /\ d.rules = f /\ d.assign = db.assign
    BY SMTT(30), <1>1 DEF Rows
  <2> HIDE DEF d
  <2>3. d \in Database
    BY <1>1, <1>3, <2>1, <2>2, IsDatabase
  <2> QED BY <2>3 DEF d
<1>4. ASSUME NEW g \in [Ws -> SUBSET Rule]
      PROVE  [db EXCEPT !.grants = g] \in Database
  <2> DEFINE d == [db EXCEPT !.grants = g]
  <2>1. d \in Rows
    BY ZenonT(60), <1>1 DEF Rows
  <2>2. /\ d.zones = db.zones /\ d.default = db.default /\ d.rules = db.rules /\ d.assign = db.assign
    BY <1>1 DEF Rows
  <2> HIDE DEF d
  <2>3. d \in Database
    BY <1>1, <2>1, <2>2, IsDatabase
  <2> QED BY <2>3 DEF d
<1>5. ASSUME NEW z \in Zone, NEW rs \in SUBSET Rule, z \in db.zones \/ rs = {}
      PROVE  [db EXCEPT !.rules[z] = rs] \in Database
  <2> DEFINE f == [db.rules EXCEPT ![z] = rs]
  <2>1. f \in [Zone -> SUBSET Rule] /\ \A y \in Zone \ db.zones : f[y] = {}
    BY <1>1, <1>2, <1>5
  <2>2. [db EXCEPT !.rules[z] = rs] = [db EXCEPT !.rules = f]
    BY <1>1 DEF Rows
  <2> HIDE DEF f
  <2> QED BY ZenonT(60), <1>3, <2>1, <2>2
<1>6. ASSUME NEW w \in Ws, NEW rs \in SUBSET Rule
      PROVE  [db EXCEPT !.grants[w] = rs] \in Database
  <2> DEFINE g == [db.grants EXCEPT ![w] = rs]
  <2>1. g \in [Ws -> SUBSET Rule]
    BY <1>2
  <2>2. [db EXCEPT !.grants[w] = rs] = [db EXCEPT !.grants = g]
    BY <1>1 DEF Rows
  <2> HIDE DEF g
  <2> QED BY ZenonT(60), <1>4, <2>1, <2>2
<1>7. \A z \in db.zones : [db EXCEPT !.rules[z] = @ \cup {r}] \in Database
  <2> SUFFICES ASSUME NEW z \in db.zones PROVE [db EXCEPT !.rules[z] = @ \cup {r}] \in Database
    OBVIOUS
  <2>1. z \in Zone /\ db.rules[z] \cup {r} \in SUBSET Rule
    BY <1>2
  <2>2. [db EXCEPT !.rules[z] = db.rules[z] \cup {r}] \in Database
    BY ZenonT(60), <1>5, <2>1
  <2> QED BY <2>2
<1>8. \A z \in Zone : [db EXCEPT !.rules[z] = @ \ {r}] \in Database
  <2> SUFFICES ASSUME NEW z \in Zone PROVE [db EXCEPT !.rules[z] = @ \ {r}] \in Database
    OBVIOUS
  <2>1. db.rules[z] \ {r} \in SUBSET Rule /\ (z \in db.zones \/ db.rules[z] \ {r} = {})
    BY <1>1, <1>2
  <2>2. [db EXCEPT !.rules[z] = db.rules[z] \ {r}] \in Database
    BY ZenonT(60), <1>5, <2>1
  <2> QED BY <2>2
<1>9. \A w \in Ws : /\ [db EXCEPT !.grants[w] = @ \cup {r}] \in Database
                    /\ [db EXCEPT !.grants[w] = @ \ {r}] \in Database
  <2> SUFFICES ASSUME NEW w \in Ws
               PROVE  /\ [db EXCEPT !.grants[w] = @ \cup {r}] \in Database
                      /\ [db EXCEPT !.grants[w] = @ \ {r}] \in Database
    OBVIOUS
  <2>1. db.grants[w] \cup {r} \in SUBSET Rule /\ db.grants[w] \ {r} \in SUBSET Rule
    BY <1>2
  <2>2. /\ [db EXCEPT !.grants[w] = db.grants[w] \cup {r}] \in Database
        /\ [db EXCEPT !.grants[w] = db.grants[w] \ {r}] \in Database
    BY ZenonT(60), <1>6, <2>1
  <2> QED BY <2>2
<1> QED BY ZenonT(60), <1>7, <1>8, <1>9

\* So do assignments.
LEMMA AssignTransaction ==
  ASSUME db \in Database, NEW w \in Ws, NEW z \in db.zones
  PROVE  [db EXCEPT !.assign[w] = IF z = db.default THEN NoZone ELSE z] \in Database
<1> DEFINE a == IF z = db.default THEN NoZone ELSE z
           f == [db.assign EXCEPT ![w] = a]
           d == [db EXCEPT !.assign = f]
<1>1. /\ db \in Rows /\ db.default \in db.zones \cup {NoZone}
      /\ \A y \in Zone \ db.zones : db.rules[y] = {}
      /\ \A v \in Ws : db.assign[v] \in db.zones \cup {NoZone}
  BY ZenonT(60), IsDatabase
<1>2. db.zones \subseteq Zone /\ db.assign \in [Ws -> Zone \cup {NoZone}]
  BY <1>1 DEF Rows
<1>3. a \in db.zones \cup {NoZone} /\ a \in Zone \cup {NoZone}
  BY <1>2
<1>4. [db EXCEPT !.assign[w] = a] = d
  BY <1>1 DEF Rows
<1> HIDE DEF a
<1>5. f \in [Ws -> Zone \cup {NoZone}] /\ \A v \in Ws : f[v] \in db.zones \cup {NoZone}
  BY <1>1, <1>2, <1>3
<1> HIDE DEF f
<1>6. d \in Rows
  BY ZenonT(60), <1>1, <1>5 DEF Rows
<1>7. d.zones = db.zones /\ d.default = db.default /\ d.rules = db.rules /\ d.assign = f
  BY <1>1 DEF Rows
<1> HIDE DEF d
<1>8. d \in Database
  BY <1>1, <1>5, <1>6, <1>7, IsDatabase
<1> QED BY ZenonT(60), <1>4, <1>8 DEF a

\* The zone and the list of a workspace are a zone and a list.
LEMMA HomeAndList ==
  ASSUME NEW d \in Database, NEW w \in Ws
  PROVE  /\ ZoneOf(d, w) \in Zone \cup {NoZone} /\ Effective(d, w) \in SUBSET Rule
         /\ Effective(d, w) = ListIn(d, ZoneOf(d, w), w)
<1>1. d \in Rows
  BY ZenonT(60), IsDatabase
<1>2. ZoneOf(d, w) \in Zone \cup {NoZone}
  BY <1>1 DEF ZoneOf, Rows
<1>3. ZoneOf(d, w) # NoZone => d.rules[ZoneOf(d, w)] \in SUBSET Rule
  BY <1>1, <1>2 DEF Rows
<1>4. d.grants[w] \in SUBSET Rule
  BY <1>1 DEF Rows
<1>5. Effective(d, w) \in SUBSET Rule
  BY <1>3, <1>4 DEF Effective
<1>6. Effective(d, w) = ListIn(d, ZoneOf(d, w), w)
  BY DEF Effective, ListIn
<1> QED BY <1>2, <1>5, <1>6

\* A transaction adds to the homes and the lists, and to nothing read so far.
LEMMA CommitStep ==
  ASSUME ReadIInv, NEW d \in Database, Commit(d)
  PROVE  ReadIInv'
<1>a. MaxCommit \in Nat
  BY SMTT(30), PolicyReadAssumption
<1> USE <1>a
<1>1. /\ query # "done" /\ query' = query /\ in' = in /\ db' = d
      /\ commits < MaxCommit /\ commits' = commits + 1
      /\ homes' = [w \in Ws |-> homes[w] \cup {ZoneOf(d, w)}]
      /\ lists' = [w \in Ws |-> lists[w] \cup {Effective(d, w)}]
      /\ defaultMoved' = (defaultMoved \/ d.default # db.default)
  BY DEF Commit
<1>2. /\ homes \in [Ws -> SUBSET (Zone \cup {NoZone})] /\ lists \in [Ws -> SUBSET SUBSET Rule]
      /\ defaultMoved \in BOOLEAN /\ commits \in 0..MaxCommit
  BY SMTT(30) DEF ReadIInv, ReadTypeOK
<1>3. \A w \in Ws : /\ homes'[w] = homes[w] \cup {ZoneOf(d, w)}
                    /\ lists'[w] = lists[w] \cup {Effective(d, w)}
  BY <1>1
<1>4. ReadTypeOK'
  <2>1. homes' \in [Ws -> SUBSET (Zone \cup {NoZone})]
    BY <1>1, <1>2, HomeAndList
  <2>2. lists' \in [Ws -> SUBSET SUBSET Rule]
    <3>1. \A w \in Ws : lists[w] \cup {Effective(d, w)} \in SUBSET SUBSET Rule
      BY ZenonT(60), <1>2, HomeAndList
    <3> QED BY ZenonT(60), <1>1, <3>1
  <2>3. defaultMoved' \in BOOLEAN /\ commits' \in 0..MaxCommit
    BY <1>1, <1>2
  <2> QED BY SMTT(30), <1>1, <2>1, <2>2, <2>3 DEF ReadIInv, ReadTypeOK
<1>5. \A w \in Ws : ZoneOf(d, w) \in homes'[w] /\ Effective(d, w) \in lists'[w]
  BY ZenonT(60), <1>3
<1>6. query' # "zones" /\ ~ defaultMoved' => in'.default = d.default
  BY ZenonT(60), <1>1, <1>2 DEF ReadIInv, ReadOK
<1>7. query' \in {"assignments", "done"} =>
        \A w \in Ws : \E z \in homes'[w] : ListIn(in, z, w) \in lists'[w]
  <2> SUFFICES ASSUME query' \in {"assignments", "done"}, NEW w \in Ws
               PROVE  \E z \in homes'[w] : ListIn(in, z, w) \in lists'[w]
    OBVIOUS
  <2>1. PICK z \in homes[w] : ListIn(in, z, w) \in lists[w]
    BY ZenonT(60), <1>1 DEF ReadIInv, ReadOK
  <2> QED BY ZenonT(60), <1>3, <2>1
<1>8. ReadOK'
  BY ZenonT(60), <1>1, <1>5, <1>6, <1>7 DEF ReadOK, ZoneOf, Effective, ListIn
<1> QED BY <1>4, <1>8 DEF ReadIInv

\* The steps of PolicyInput.
LEMMA QueryStep ==
  ASSUME ReadIInv, PolicyInput
  PROVE  ReadIInv'
<1>1. db' = db /\ commits' = commits /\ homes' = homes /\ lists' = lists
      /\ defaultMoved' = defaultMoved
  BY DEF PolicyInput, QueryZones, QueryRules, QueryAssignments, history
<1>2. /\ in \in Input /\ db \in Rows /\ db \in Database
  BY ZenonT(60), IsDatabase DEF ReadIInv, ReadTypeOK
<1>a. /\ db.default \in Zone \cup {NoZone} /\ db.rules \in [Zone -> SUBSET Rule]
      /\ db.grants \in [Ws -> SUBSET Rule] /\ db.assign \in [Ws -> Zone \cup {NoZone}]
  BY <1>2 DEF Rows
<1>3. \A w \in Ws : ZoneOf(db, w) \in homes[w] /\ Effective(db, w) \in lists[w]
  BY DEF ReadIInv, ReadOK
<1>4. ASSUME in' \in Input, query' \in {"zones", "rules", "assignments", "done"} PROVE ReadTypeOK'
  BY <1>1, <1>4 DEF ReadIInv, ReadTypeOK
<1>5. CASE QueryZones
  <2>1. query' = "rules" /\ in' = [in EXCEPT !.default = db.default]
    BY <1>5 DEF QueryZones
  <2>2. in' \in Input
    BY ZenonT(60), <1>2, <1>a, <2>1 DEF Input
  <2>3. in'.default = db.default
    BY <1>2, <2>1 DEF Input
  <2>4. ReadTypeOK'
    BY <1>4, <2>1, <2>2
  <2>5. ReadOK'
    BY <1>1, <1>3, <2>1, <2>3 DEF ReadOK, ZoneOf, Effective
  <2> QED BY <2>4, <2>5 DEF ReadIInv
<1>6. CASE QueryRules
  <2>1. query = "rules" /\ query' = "assignments"
        /\ in' = [in EXCEPT !.rules = db.rules, !.grants = db.grants]
    BY <1>6 DEF QueryRules
  <2>2. in' \in Input
    BY ZenonT(60), <1>2, <1>a, <2>1 DEF Input
  <2>3. in'.default = in.default /\ in'.rules = db.rules /\ in'.grants = db.grants
    BY <1>2, <2>1 DEF Input
  <2>4. ~ defaultMoved => in'.default = db.default
    BY <2>1, <2>3 DEF ReadIInv, ReadOK
  <2>5. \A w \in Ws : \E z \in homes[w] : ListIn(in', z, w) \in lists[w]
    <3> SUFFICES ASSUME NEW w \in Ws PROVE \E z \in homes[w] : ListIn(in', z, w) \in lists[w]
      OBVIOUS
    <3>1. Effective(db, w) = ListIn(db, ZoneOf(db, w), w)
      BY ZenonT(60), <1>2, HomeAndList
    <3>2. ListIn(in', ZoneOf(db, w), w) = ListIn(db, ZoneOf(db, w), w)
      BY <2>3 DEF ListIn
    <3> QED BY ZenonT(60), <1>3, <3>1, <3>2
  <2>6. ReadTypeOK'
    BY <1>4, <2>1, <2>2
  <2>7. ReadOK'
    BY <1>1, <1>3, <2>1, <2>4, <2>5 DEF ReadOK, ZoneOf, Effective, ListIn
  <2> QED BY <2>6, <2>7 DEF ReadIInv
<1>7. CASE QueryAssignments
  <2>1. query = "assignments" /\ query' = "done" /\ in' = [in EXCEPT !.assign = db.assign]
    BY <1>7 DEF QueryAssignments
  <2>2. in' \in Input
    BY ZenonT(60), <1>2, <1>a, <2>1 DEF Input
  <2>3. /\ in'.default = in.default /\ in'.rules = in.rules /\ in'.grants = in.grants
        /\ in'.assign = db.assign
    BY <1>2, <2>1 DEF Input
  <2>4. ~ defaultMoved => in'.default = db.default
    BY <2>1, <2>3 DEF ReadIInv, ReadOK
  <2>5. \A w \in Ws : \E z \in homes[w] : ListIn(in', z, w) \in lists[w]
    <3>1. \A w \in Ws : \E z \in homes[w] : ListIn(in, z, w) \in lists[w]
      BY ZenonT(60), <2>1 DEF ReadIInv, ReadOK
    <3>2. \A w, z : ListIn(in', z, w) = ListIn(in, z, w)
      BY <2>3 DEF ListIn
    <3> QED BY ZenonT(60), <3>1, <3>2
  <2>6. ~ defaultMoved => \A w \in Ws : ZoneOf(in', w) \in homes[w]
    <3> SUFFICES ASSUME ~ defaultMoved, NEW w \in Ws PROVE ZoneOf(in', w) \in homes[w]
      OBVIOUS
    <3>1. ZoneOf(in', w) = ZoneOf(db, w)
      BY <2>3, <2>4 DEF ZoneOf
    <3> QED BY ZenonT(60), <1>3, <3>1
  <2>7. ReadTypeOK'
    BY <1>4, <2>1, <2>2
  <2>8. ReadOK'
    BY <1>1, <1>3, <2>1, <2>4, <2>5, <2>6 DEF ReadOK, ZoneOf, Effective, ListIn
  <2> QED BY <2>7, <2>8 DEF ReadIInv
<1> QED BY <1>5, <1>6, <1>7 DEF PolicyInput

\* The inductive invariant of a read among transactions.
THEOREM ReadInductive == ReadSpec => []ReadIInv
<1>a. MaxCommit \in Nat
  BY PolicyReadAssumption
<1> USE <1>a
<1>1. ReadInit => ReadIInv
  <2> SUFFICES ASSUME ReadInit PROVE ReadIInv
    OBVIOUS
  <2>1. /\ db \in Database /\ commits = 0 /\ query = "zones" /\ in = NoInput
        /\ homes = [w \in Ws |-> {ZoneOf(db, w)}] /\ lists = [w \in Ws |-> {Effective(db, w)}]
        /\ defaultMoved = FALSE
    BY DEF ReadInit
  <2>2. NoInput \in Input
    BY ZenonT(60) DEF NoInput, Input
  <2>3. homes \in [Ws -> SUBSET (Zone \cup {NoZone})]
    BY <2>1, HomeAndList
  <2>4. lists \in [Ws -> SUBSET SUBSET Rule]
    <3>1. \A w \in Ws : {Effective(db, w)} \in SUBSET SUBSET Rule
      BY ZenonT(60), <2>1, HomeAndList
    <3> QED BY ZenonT(60), <2>1, <3>1
  <2>5. ReadTypeOK
    <3>1. commits \in 0..MaxCommit
      BY <2>1
    <3>2. query \in {"zones", "rules", "assignments", "done"} /\ defaultMoved \in BOOLEAN
      BY ZenonT(60), <2>1
    <3>3. in \in Input /\ db \in Database
      BY ZenonT(60), <2>1, <2>2
    <3> QED BY ZenonT(60), <2>3, <2>4, <3>1, <3>2, <3>3 DEF ReadTypeOK
  <2>6. \A w \in Ws : ZoneOf(db, w) \in homes[w] /\ Effective(db, w) \in lists[w]
    BY ZenonT(60), <2>1
  <2>7. ReadOK
    BY <2>1, <2>6 DEF ReadOK
  <2> QED BY <2>5, <2>7 DEF ReadIInv
<1>2. ReadIInv /\ [ReadNext]_readVars => ReadIInv'
  <2> SUFFICES ASSUME ReadIInv, [ReadNext]_readVars PROVE ReadIInv'
    OBVIOUS
  <2>0. db \in Database /\ db.zones \subseteq Zone
    BY IsDatabase DEF ReadIInv, ReadTypeOK, Rows
  <2>1. ASSUME NEW z \in Zone, CreateZone(z) \/ DeleteZone(z) \/ SetDefaultZone(z) PROVE ReadIInv'
    BY ZenonT(60), <2>0, <2>1, ZoneTransactions, CommitStep
       DEF CreateZone, DeleteZone, SetDefaultZone
  <2>2. ASSUME NEW s \in Zone, NEW z \in Zone, CloneZone(s, z) PROVE ReadIInv'
    BY ZenonT(60), <2>0, <2>2, ZoneTransactions, CommitStep DEF CloneZone
  <2>3. ASSUME NEW z \in Zone, NEW r \in Rule, AddZoneRule(z, r) \/ DeleteZoneRule(z, r)
        PROVE  ReadIInv'
    BY ZenonT(60), <2>0, <2>3, RuleTransactions, CommitStep DEF AddZoneRule, DeleteZoneRule
  <2>4. ASSUME NEW w \in Ws, NEW z \in Zone, Assign(w, z) PROVE ReadIInv'
    BY ZenonT(60), <2>0, <2>4, AssignTransaction, CommitStep DEF Assign
  <2>5. ASSUME NEW w \in Ws, NEW r \in Rule, Grant(w, r) \/ GrantEnds(w, r) PROVE ReadIInv'
    BY ZenonT(60), <2>0, <2>5, RuleTransactions, CommitStep DEF Grant, GrantEnds
  <2>6. ASSUME UNCHANGED readVars PROVE ReadIInv'
    <3>1. /\ db' = db /\ commits' = commits /\ query' = query /\ in' = in /\ homes' = homes
          /\ lists' = lists /\ defaultMoved' = defaultMoved
      BY ZenonT(60), <2>6 DEF readVars, history
    <3>2. ReadTypeOK'
      BY <3>1 DEF ReadIInv, ReadTypeOK
    <3>3. ReadOK'
      BY ZenonT(60), <3>1 DEF ReadIInv, ReadOK, ZoneOf, Effective, ListIn
    <3> QED BY <3>2, <3>3 DEF ReadIInv
  <2> QED BY ZenonT(60), <2>1, <2>2, <2>3, <2>4, <2>5, <2>6, QueryStep DEF ReadNext
<1> QED BY <1>1, <1>2, PTL DEF ReadSpec

\* The store, the result of PolicyInput and the history keep their types (TypeOK).
THEOREM ReadTyped == ReadSpec => []ReadTypeOK
<1>1. ReadIInv => ReadTypeOK
  BY DEF ReadIInv
<1> QED BY <1>1, ReadInductive, PTL

\* However the three queries of PolicyInput were torn, Render gives Cilium the
\* view that Effective gives Envoy (CiliumAgrees).
THEOREM CiliumAndEnvoyAgree == ReadSpec => []CiliumAgrees
<1>1. ReadIInv => CiliumAgrees
  BY RenderAgrees DEF ReadIInv, ReadTypeOK, CiliumAgrees
<1> QED BY <1>1, ReadInductive, PTL

\* PolicyInput gives a workspace that nothing happened to its allowlist, unless
\* another zone became the default between the queries (UnaffectedExact).
THEOREM UnaffectedKeepTheirList == ReadSpec => []UnaffectedExact
<1>1. ReadIInv => UnaffectedExact
  <2> SUFFICES ASSUME ReadIInv, query = "done", ~ defaultMoved, NEW w \in Ws, Unaffected(w)
               PROVE  lists[w] = {Effective(in, w)}
    BY ZenonT(60) DEF UnaffectedExact
  <2>1. PICK z \in homes[w] : ListIn(in, z, w) \in lists[w]
    BY ZenonT(60) DEF ReadIInv, ReadOK
  <2>2. ZoneOf(in, w) \in homes[w]
    BY ZenonT(60) DEF ReadIInv, ReadOK
  <2>3. z = ZoneOf(in, w)
    BY ZenonT(60), <2>2 DEF Unaffected
  <2>4. Effective(in, w) = ListIn(in, ZoneOf(in, w), w)
    BY SMTT(30) DEF Effective, ListIn
  <2>5. Effective(in, w) \in lists[w]
    BY <2>1, <2>3, <2>4
  <2>6. \A k, l \in lists[w] : k = l
    BY ZenonT(60) DEF Unaffected
  <2> QED BY <2>5, <2>6
<1> QED BY <1>1, ReadInductive, PTL

-----------------------------------------------------------------------------
(* Apply of what was rendered *)

\* The policies of admin that are in the cluster.
InCluster == {object[n].spec : n \in {n \in Name : Managed(n)}}

\* The argument of Apply is what Render returned for i.
Renders(d, i) == {d[n] : n \in Wanted(d)} = Render(i)

\* When Apply returns nil and nobody else wrote a policy meanwhile, admin's
\* policies in the cluster let every workspace resolve exactly the DNS rules of
\* its allowlist, and other pods nothing: no policy of an earlier input is left.
THEOREM AppliedIsEffective ==
  ASSUME NEW i \in Input
  PROVE  Behaviour =>
           [](at = "idle" /\ errs = {} /\ touched = {} /\ Renders(desired, i) =>
                /\ \A w \in Ws : Allowed(InCluster, w) = dnsRules(Effective(i, w))
                /\ Allowed(InCluster, NoWs) = {})
<1> DEFINE Applied == at = "idle" /\ errs = {} /\ touched = {} /\ Renders(desired, i)
           Exact == /\ \A w \in Ws : Allowed(InCluster, w) = dnsRules(Effective(i, w))
                    /\ Allowed(InCluster, NoWs) = {}
<1>1. OneBadObjectBlocksNoOther => (Applied => Exact)
  <2> SUFFICES ASSUME OneBadObjectBlocksNoOther, Applied PROVE Exact
    OBVIOUS
  <2>1. \A n \in Name : InForce(n, desired)
    BY ZenonT(60) DEF OneBadObjectBlocksNoOther
  <2>2. \A n \in Name : /\ Managed(n) <=> n \in Wanted(desired)
                        /\ Managed(n) => object[n].spec = desired[n]
    BY ZenonT(60), <2>1 DEF InForce, Wanted
  <2>3. InCluster = {desired[n] : n \in Wanted(desired)}
    BY <2>2 DEF InCluster, Wanted
  <2>4. InCluster = Render(i)
    BY <2>3 DEF Renders
  <2> QED BY ZenonT(60), <2>4, RenderAgrees
<1> QED BY <1>1, NoOtherBlocked, PTL

=============================================================================

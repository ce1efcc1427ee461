----------------------------- MODULE EnvoyProofs -----------------------------
(***************************************************************************)
(* From the rules to Envoy's tunnels.  For every input and every order of  *)
(* the two loops, policy.HostIPs computes the same map, and Envoy's        *)
(* most-specific routing over that map admits exactly the entitled pods.   *)
(* The keys of that map nest as Tunnels assumes, and the map is one of its *)
(* snapshots.  And for any keys that nest, any snapshots, any number of    *)
(* pushes and any order in which Envoy takes the resources over, open      *)
(* tunnels are entitled: the invariant ties an open tunnel to a listener   *)
(* of its name; the name holds the IPs, so a snapshot with other IPs has   *)
(* no such listener.                                                       *)
(***************************************************************************)
EXTENDS HostIPs, Tunnels, SequenceTheorems, WellFoundedInduction, TLAPS

\* The keys of an input are keys.
LEMMA KeysAreKeys ==
  ASSUME NEW i \in Inputs PROVE Keys(i) \subseteq Key
<1> SUFFICES ASSUME NEW p \in Running(i), NEW k \in Effective(i, p.ws) PROVE k \in Key
  BY DEF Keys
<1>1. i \in Input /\ p \in [ws : Ws, ip : IP \cup {NoIP}]
  BY HostIPsAssumption DEF Running, Input
<1>2. i.grants[p.ws] \subseteq Rule
  BY <1>1 DEF Input
<1>3. ZoneOf(i, p.ws) \in Zone \cup {NoZone}
  BY <1>1 DEF Input, ZoneOf
<1>4. ZoneOf(i, p.ws) # NoZone => i.zoneRules[ZoneOf(i, p.ws)] \subseteq Rule
  BY <1>1, <1>3 DEF Input
<1>5. PICK r \in Rule : k = r.key
  BY <1>2, <1>4 DEF Effective
<1> QED BY <1>5 DEF Rule

\* The IPs of a key are those of running pods.
LEMMA OwnIPs ==
  ASSUME NEW i \in Inputs, NEW k PROVE Own(i, k) \subseteq IP
BY HostIPsAssumption DEF Own, Running, Input

\* A wildcard over a wildcard covers what the latter covers.
LEMMA CoversTransitive ==
  ASSUME NEW u \in Key, NEW v \in Key, NEW k \in Key, Covers(u, v), Covers(v, k)
  PROVE  Covers(u, k)
<1>1. Len(u.name) \in Nat /\ Len(v.name) \in Nat /\ Len(k.name) \in Nat
  BY DEF Key, Name
<1> QED BY <1>1 DEF Covers, Below

\* Merging a wildcard into a key it covers brings nothing that Merged excludes.
LEMMA MergedMonotone ==
  ASSUME NEW i \in Inputs, NEW w \in Keys(i), NEW k \in Keys(i), Covers(w, k)
  PROVE  Merged(i, w) \subseteq Merged(i, k)
<1>1. Keys(i) \subseteq Key
  BY KeysAreKeys
<1>2. Own(i, w) \subseteq Merged(i, k)
  BY DEF Merged
<1>3. ASSUME NEW u \in Keys(i), Covers(u, w) PROVE Own(i, u) \subseteq Merged(i, k)
  <2>1. Covers(u, k)
    BY <1>1, <1>3, CoversTransitive
  <2> QED BY <2>1 DEF Merged
<1> QED BY <1>2, <1>3 DEF Merged

\* The map after the first loop satisfies the inductive invariant.
LEMMA InitInv == Init => IInv
<1> SUFFICES ASSUME Init PROVE IInv
  OBVIOUS
<1>1. TypeOK
  BY OwnIPs DEF Init, TypeOK
<1>2. Bounded
  BY DEF Init, Bounded, Merged
<1>3. Arrived
  BY DEF Init, Arrived, Visited
<1> QED BY <1>1, <1>2, <1>3 DEF IInv, Init

\* Every step of the loops preserves it.
LEMMA StepInv == IInv /\ [Next]_vars => IInv'
<1> SUFFICES ASSUME IInv, [Next]_vars PROVE IInv'
  OBVIOUS
<1> USE DEF IInv
<1>1. ASSUME NEW k \in outer, SkipExact(k) PROVE IInv'
  <2>1. TypeOK' /\ Bounded'
    BY <1>1 DEF SkipExact, TypeOK, Bounded
  <2>2. Arrived'
    BY <1>1 DEF SkipExact, Arrived, Visited, Covers
  <2> QED BY <1>1, <2>1, <2>2 DEF SkipExact
<1>2. ASSUME NEW k \in outer, PickWild(k) PROVE IInv'
  <2>1. TypeOK' /\ Bounded'
    BY <1>2 DEF PickWild, TypeOK, Bounded
  <2>2. Arrived'
    BY <1>2 DEF PickWild, Arrived, Visited
  <2> QED BY <1>2, <2>1, <2>2 DEF PickWild
<1>3. ASSUME NEW k \in inner, Merge(k) PROVE IInv'
  <2>1. wk \in Keys(in) /\ k \in Keys(in) /\ in \in Inputs /\ in' = in
    BY <1>3 DEF Merge, TypeOK
  <2>2. set' \in [Keys(in) -> SUBSET IP]
    BY <1>3, <2>1 DEF Merge, TypeOK
  <2>3. \A x \in Keys(in) : x # k \/ ~Covers(wk, k) => set'[x] = set[x]
    BY <1>3 DEF Merge, TypeOK
  <2>4. Covers(wk, k) => set'[k] = set[k] \cup set[wk]
    BY <1>3, <2>1 DEF Merge, TypeOK
  <2>5. TypeOK'
    BY <1>3, <2>1, <2>2 DEF Merge, TypeOK
  <2>6. Bounded'
    <3>1. ASSUME NEW x \in Keys(in)
          PROVE  Own(in, x) \subseteq set'[x] /\ set'[x] \subseteq Merged(in, x)
      <4>1. CASE x # k \/ ~Covers(wk, k)
        BY <2>3, <4>1 DEF Bounded
      <4>2. CASE x = k /\ Covers(wk, k)
        <5>1. Merged(in, wk) \subseteq Merged(in, k)
          BY <2>1, <4>2, MergedMonotone
        <5> QED BY <2>1, <2>4, <4>2, <5>1 DEF Bounded
      <4> QED BY <4>1, <4>2
    <3> QED BY <2>1, <3>1 DEF Bounded
  <2>7. Arrived'
    <3>1. ASSUME NEW w \in Keys(in), NEW x \in Keys(in), Covers(w, x), Visited(w, x)'
          PROVE  Own(in, w) \subseteq set'[x]
      <4>1. set[x] \subseteq set'[x]
        BY <2>3, <2>4
      <4>2. CASE Visited(w, x)
        BY <3>1, <4>1, <4>2 DEF Arrived
      <4>3. CASE ~Visited(w, x)
        <5>1. w = wk /\ x = k
          BY <1>3, <3>1, <4>3 DEF Merge, Visited
        <5> QED BY <2>1, <2>4, <3>1, <5>1 DEF Bounded
      <4> QED BY <4>2, <4>3
    <3> QED BY <2>1, <3>1 DEF Arrived
  <2> QED BY <1>3, <2>5, <2>6, <2>7 DEF Merge
<1>4. ASSUME EndInner PROVE IInv'
  <2>1. TypeOK' /\ Bounded'
    BY <1>4 DEF EndInner, TypeOK, Bounded
  <2>2. Arrived'
    BY <1>4 DEF EndInner, Arrived, Visited
  <2> QED BY <1>4, <2>1, <2>2 DEF EndInner
<1>5. ASSUME Return PROVE IInv'
  <2>1. TypeOK' /\ Bounded'
    BY <1>5 DEF Return, TypeOK, Bounded
  <2>2. Arrived'
    BY <1>5 DEF Return, Arrived, Visited
  <2> QED BY <1>5, <2>1, <2>2 DEF Return
<1>6. ASSUME UNCHANGED vars PROVE IInv'
  BY <1>6 DEF vars, TypeOK, Bounded, Arrived, Visited
<1> QED BY <1>1, <1>2, <1>3, <1>4, <1>5, <1>6 DEF Next

\* The inductive invariant of the merge.
THEOREM Inductive == Spec => []IInv
BY InitInv, StepInv, PTL DEF Spec

\* HostIPs keeps its map, loop variables and keys well typed (TypeOK).
THEOREM TypeCorrect == Spec => []TypeOK
<1>1. IInv => TypeOK
  BY DEF IInv
<1> QED BY <1>1, Inductive, PTL

\* What the inductive invariant says once HostIPs returns.
LEMMA Result == IInv => OrderIndependent
<1> SUFFICES ASSUME IInv, at = "done", NEW k \in Keys(in) PROVE set[k] = Merged(in, k)
  BY DEF OrderIndependent
<1>1. set[k] \subseteq Merged(in, k) /\ Own(in, k) \subseteq set[k]
  BY DEF IInv, Bounded
<1>2. \A w \in Keys(in) : Covers(w, k) => Own(in, w) \subseteq set[k]
  BY DEF IInv, Arrived, Visited
<1>3. Merged(in, k) \subseteq set[k]
  BY <1>1, <1>2 DEF Merged
<1> QED BY <1>1, <1>3

\* The merge of policy.HostIPs gives the same map in every order in which Go
\* may visit it (OrderIndependent).
THEOREM AnyOrder == Spec => []OrderIndependent
BY Result, Inductive, PTL

-----------------------------------------------------------------------------

\* Of the keys that match a name, Envoy has one to route to.
LEMMA SomeRouted ==
  ASSUME Keys(in) \subseteq Key, NEW name \in Name, NEW port,
         NEW m \in Keys(in), Matches(m, name, port)
  PROVE  \E k \in Keys(in) : Routed(k, name, port)
<1> DEFINE M == {k \in Keys(in) : Matches(k, name, port)}
           D == {Len(name) - Len(k.name) : k \in M}
<1>1. \A k \in M : k \in Key /\ Len(k.name) \in Nat
  BY DEF Key, Name
<1>2. Len(name) \in Nat
  BY DEF Name
<1>3. \A k \in M : Len(k.name) =< Len(name) /\ (k.form = "wild" => Len(k.name) < Len(name))
  BY <1>1, <1>2 DEF Matches, Below
<1>4. D \subseteq Nat /\ D # {}
  BY <1>1, <1>2, <1>3
<1>5. PICK d \in D : \A e \in D : ~(e < d)
  <2> HIDE DEF D
  <2>1. PICK d \in D : \A e \in D : ~(<<e, d>> \in OpToRel(<, Nat))
    BY ZenonT(60), <1>4, WFMin, NatLessThanWellFounded
  <2>2. ASSUME NEW e \in D, e < d PROVE <<e, d>> \in OpToRel(<, Nat)
    BY <1>4, <2>2 DEF OpToRel
  <2> QED BY ZenonT(60), <2>1, <2>2
<1>6. PICK k \in M : d = Len(name) - Len(k.name)
  BY <1>5
<1>7. ASSUME NEW j \in M, j # k PROVE j.form = "wild" /\ Len(j.name) < Len(k.name)
  <2>1. Len(j.name) =< Len(k.name)
    <3>1. Len(name) - Len(j.name) \in D
      OBVIOUS
    <3>2. ~(Len(name) - Len(j.name) < Len(name) - Len(k.name))
      BY <1>5, <1>6, <3>1
    <3> QED BY <1>1, <1>2, <3>2
  <2>2. CASE j.form = "exact"
    <3>1. j.name = name /\ k.name = name /\ k.form = "exact"
      BY SMTT(60), <1>1, <1>2, <1>3, <2>1, <2>2 DEF Matches, Below, Key
    <3>2. j = k
      BY SMTT(60), <1>1, <2>2, <3>1 DEF Matches, Key
    <3> QED BY <1>7, <3>2
  <2>3. CASE j.form = "wild" /\ Len(j.name) = Len(k.name)
    <3>1. k.form = "wild"
      BY <1>1, <1>2, <1>3, <2>3 DEF Matches, Below, Key
    <3>2. \A n \in 1..Len(k.name) : j.name[n] = k.name[n]
      BY SMTT(60), <2>3, <3>1 DEF Matches, Below
    <3>3. j.name = k.name
      BY ZenonT(60), <1>1, <2>3, <3>2, SeqEqual DEF Key, Name
    <3>4. j = k
      BY <1>1, <2>3, <3>1, <3>3 DEF Matches, Key
    <3> QED BY <1>7, <3>4
  <2> QED BY <1>1, <2>1, <2>2, <2>3 DEF Key
<1> QED BY <1>6, <1>7 DEF Routed

\* Two keys that match a name: the longer one is covered by the other.
LEMMA MatchingNest ==
  ASSUME NEW name \in Name, NEW port, NEW j \in Key, NEW k \in Key,
         Matches(j, name, port), Matches(k, name, port),
         j.form = "wild", Len(j.name) < Len(k.name)
  PROVE  Covers(j, k)
<1>1. Len(j.name) \in Nat /\ Len(k.name) \in Nat /\ Len(name) \in Nat
  BY DEF Key, Name
<1>2. \A n \in 1..Len(j.name) : j.name[n] = name[n]
  BY DEF Matches, Below
<1>3. \A n \in 1..Len(k.name) : k.name[n] = name[n]
  BY DEF Matches, Below
<1> QED BY SMTT(60), <1>1, <1>2, <1>3 DEF Covers, Below, Matches

\* A key that covers a matching key matches.
LEMMA CoveringMatches ==
  ASSUME NEW name \in Name, NEW port, NEW j \in Key, NEW k \in Key,
         Covers(j, k), Matches(k, name, port)
  PROVE  Matches(j, name, port)
<1>1. Len(j.name) \in Nat /\ Len(k.name) \in Nat /\ Len(name) \in Nat
  BY DEF Key, Name
<1> QED BY <1>1 DEF Covers, Below, Matches

\* An IP is among a key's own exactly when a rule of its pod has that key.
LEMMA OwnEntitled ==
  ASSUME NEW name, NEW port, NEW ip
  PROVE  Entitled(ip, name, port)
           <=> \E k \in Keys(in) : Matches(k, name, port) /\ ip \in Own(in, k)
BY DEF Entitled, Own, Keys

\* The map HostIPs returns, read with Envoy's most-specific routing, admits
\* exactly the pods with a rule for the destination (EnvoyAdmitsEntitled).
THEOREM AdmitsEntitled == Spec => []EnvoyAdmitsEntitled
<1>1. IInv => EnvoyAdmitsEntitled
  <2> SUFFICES ASSUME IInv, at = "done", NEW name \in Requested, NEW port \in Port, NEW ip \in IP
               PROVE  (\E k \in Keys(in) : Routed(k, name, port) /\ ip \in set[k])
                        <=> Entitled(ip, name, port)
    BY DEF EnvoyAdmitsEntitled
  <2>1. name \in Name /\ Keys(in) \subseteq Key
    BY HostIPsAssumption, KeysAreKeys DEF IInv, TypeOK
  <2>2. \A k \in Keys(in) : set[k] = Merged(in, k)
    BY Result DEF OrderIndependent
  <2>3. ASSUME NEW k \in Keys(in), Routed(k, name, port), ip \in set[k]
        PROVE  Entitled(ip, name, port)
    <3>1. Matches(k, name, port)
      BY <2>3 DEF Routed
    <3>2. PICK j \in Keys(in) : ip \in Own(in, j) /\ (j = k \/ Covers(j, k))
      BY <2>2, <2>3 DEF Merged
    <3>3. Matches(j, name, port)
      BY <2>1, <3>1, <3>2, CoveringMatches
    <3> QED BY <3>2, <3>3, OwnEntitled
  <2>4. ASSUME Entitled(ip, name, port)
        PROVE  \E k \in Keys(in) : Routed(k, name, port) /\ ip \in set[k]
    <3>1. PICK j \in Keys(in) : Matches(j, name, port) /\ ip \in Own(in, j)
      BY <2>4, OwnEntitled
    <3>2. PICK k \in Keys(in) : Routed(k, name, port)
      BY <2>1, <3>1, SomeRouted
    <3>3. j = k \/ Covers(j, k)
      BY <2>1, <3>1, <3>2, MatchingNest DEF Routed
    <3>4. ip \in Merged(in, k)
      BY <3>1, <3>3 DEF Merged
    <3> QED BY <2>2, <3>2, <3>4
  <2> QED BY <2>3, <2>4
<1> QED BY <1>1, Inductive, PTL

-----------------------------------------------------------------------------
(* What HostIPs supplies to Tunnels *)

CONSTANT TlsPort  \* 443

\* A key as Tunnels sees it: the requested names that it matches.
NamesOf(k) == {n \in Requested : Matches(k, n, TlsPort)}
TunnelKey == {NamesOf(k) : k \in Key} \ {{}}

T == INSTANCE Tunnels WITH PodIP <- IP, HostKey <- TunnelKey, Host <- Requested

\* The map that HostIPs has built, by the names that its keys match.
Built == [e \in TunnelKey |-> UNION {set[k] : k \in {k \in Keys(in) : NamesOf(k) = e}}]

\* Of two keys that match a common name, one covers the other.
LEMMA NamesNest ==
  ASSUME NEW j \in Key, NEW k \in Key, NEW n \in NamesOf(j) \cap NamesOf(k)
  PROVE  Covers(j, k) \/ Covers(k, j) \/ j = k
<1>1. n \in Name /\ Matches(j, n, TlsPort) /\ Matches(k, n, TlsPort)
  BY HostIPsAssumption DEF NamesOf
<1>2. Len(j.name) \in Nat /\ Len(k.name) \in Nat
  BY DEF Key, Name
<1>3. CASE j.form = "wild" /\ k.form = "wild"
  <2>1. CASE Len(j.name) = Len(k.name)
    <3>1. \A m \in 1..Len(k.name) : j.name[m] = k.name[m]
      BY <1>1, <1>3, <2>1 DEF Matches, Below
    <3>2. j.name = k.name
      BY ZenonT(60), <2>1, <3>1, SeqEqual DEF Key, Name
    <3>3. j = k
      BY <1>1, <1>3, <3>2 DEF Matches, Key
    <3> QED BY <3>3
  <2>2. CASE Len(j.name) < Len(k.name)
    BY ZenonT(60), <1>1, <1>3, <2>2, MatchingNest
  <2>3. CASE Len(k.name) < Len(j.name)
    BY ZenonT(60), <1>1, <1>3, <2>3, MatchingNest
  <2> QED BY <1>2, <2>1, <2>2, <2>3
<1>4. CASE j.form = "exact" /\ k.form = "exact"
  BY <1>1, <1>4 DEF Matches, Key
<1>5. CASE j.form = "wild" /\ k.form = "exact"
  BY <1>1, <1>5 DEF Matches, Covers
<1>6. CASE j.form = "exact" /\ k.form = "wild"
  BY <1>1, <1>6 DEF Matches, Covers
<1> QED BY <1>3, <1>4, <1>5, <1>6 DEF Key

\* A key matches what the keys it covers match.
LEMMA CoveredNames ==
  ASSUME NEW j \in Key, NEW k \in Key, Covers(j, k) PROVE NamesOf(k) \subseteq NamesOf(j)
<1> SUFFICES ASSUME NEW n \in NamesOf(k) PROVE n \in NamesOf(j)
  OBVIOUS
<1>1. n \in Name /\ n \in Requested /\ Matches(k, n, TlsPort)
  BY HostIPsAssumption DEF NamesOf
<1>2. Matches(j, n, TlsPort)
  BY ZenonT(60), <1>1, CoveringMatches
<1> QED BY <1>1, <1>2 DEF NamesOf

\* The exact and wildcard domains of Envoy's virtual hosts (build.go:101-116)
\* nest as Tunnels assumes of its keys (KeysNest).
THEOREM TunnelKeysNest == KeysNest(TunnelKey, Requested)
<1> SUFFICES ASSUME NEW n \in Requested, NEW K \in SUBSET TunnelKey, K # {}, \A e \in K : n \in e
             PROVE  \E e \in K : \A f \in K : e \subseteq f
  <2>1. TunnelKey \subseteq SUBSET Requested
    BY DEF TunnelKey, NamesOf
  <2> QED BY ZenonT(60), <2>1 DEF KeysNest
<1> DEFINE M == {k \in Key : NamesOf(k) \in K}
           D == {Len(n) - Len(k.name) : k \in M}
<1>1. n \in Name /\ Len(n) \in Nat
  BY HostIPsAssumption DEF Name
<1>2. \A k \in M : k \in Key /\ Len(k.name) \in Nat /\ Matches(k, n, TlsPort) /\ n \in NamesOf(k)
  BY DEF Key, Name, NamesOf
<1>3. \A k \in M : Len(k.name) =< Len(n)
  BY <1>1, <1>2 DEF Matches, Below, Key
<1>4. M # {}
  BY DEF TunnelKey
<1>5. D \subseteq Nat /\ D # {}
  BY <1>1, <1>2, <1>3, <1>4
<1>6. PICK d \in D : \A c \in D : ~(c < d)
  <2> HIDE DEF D
  <2>1. PICK d \in D : \A c \in D : ~(<<c, d>> \in OpToRel(<, Nat))
    BY ZenonT(60), <1>5, WFMin, NatLessThanWellFounded
  <2>2. ASSUME NEW c \in D, c < d PROVE <<c, d>> \in OpToRel(<, Nat)
    BY <1>5, <2>2 DEF OpToRel
  <2> QED BY ZenonT(60), <2>1, <2>2
<1>7. PICK l \in M : d = Len(n) - Len(l.name)
  BY <1>6
<1>8. ASSUME NEW f \in K PROVE NamesOf(l) \subseteq f
  <2>1. PICK j \in Key : NamesOf(j) = f
    BY DEF TunnelKey
  <2>2. j \in M /\ n \in NamesOf(j) \cap NamesOf(l)
    BY <1>2, <2>1
  <2>3. ~ Covers(l, j)
    <3>1. Len(n) - Len(j.name) \in D
      BY <2>2
    <3>2. ~(Len(n) - Len(j.name) < Len(n) - Len(l.name))
      BY ZenonT(60), <1>6, <1>7, <3>1
    <3>3. ~(Len(l.name) < Len(j.name))
      BY <1>1, <1>2, <2>2, <3>2
    <3> QED BY <3>3 DEF Covers, Below
  <2>4. Covers(j, l) \/ j = l
    BY ZenonT(60), <1>2, <2>2, <2>3, NamesNest
  <2> QED BY ZenonT(60), <1>2, <2>1, <2>4, CoveredNames
<1> QED BY <1>7, <1>8

\* What policy.HostIPs returns is a snapshot that Tunnels lets admin push: a key
\* admits the IPs of every wildcard above it.
THEOREM BuiltIsSnapshot == Spec => [](at = "done" => Built \in T!Snapshot)
<1>1. IInv => (at = "done" => Built \in T!Snapshot)
  <2> SUFFICES ASSUME IInv, at = "done" PROVE Built \in T!Snapshot
    OBVIOUS
  <2>1. /\ Keys(in) \subseteq Key /\ in \in Inputs
        /\ \A k \in Keys(in) : set[k] = Merged(in, k) /\ set[k] \subseteq IP
    BY KeysAreKeys, Result DEF IInv, TypeOK, OrderIndependent
  <2>2. Built \in [TunnelKey -> SUBSET IP]
    BY <2>1 DEF Built
  <2>3. ASSUME NEW e \in TunnelKey, NEW f \in TunnelKey, e \subseteq f, Built[e] # {},
               NEW ip \in Built[f]
        PROVE  ip \in Built[e]
    <3>1. PICK k \in Keys(in) : NamesOf(k) = e
      BY <2>3 DEF Built
    <3>2. PICK m \in Keys(in) : NamesOf(m) = f /\ ip \in set[m]
      BY <2>3 DEF Built
    <3>3. PICK n : n \in e
      BY DEF TunnelKey
    <3>4. CASE e = f
      BY <3>4
    <3>5. CASE e # f
      <4>1. n \in NamesOf(m) \cap NamesOf(k) /\ m \in Key /\ k \in Key
        BY <2>1, <2>3, <3>1, <3>2, <3>3
      <4>2. Covers(m, k) \/ Covers(k, m) \/ m = k
        BY ZenonT(60), <4>1, NamesNest
      <4>3. ~ Covers(k, m) /\ m # k
        BY <2>3, <3>1, <3>2, <3>5, <4>1, CoveredNames
      <4>4. Merged(in, m) \subseteq Merged(in, k)
        BY ZenonT(60), <2>1, <4>2, <4>3, MergedMonotone
      <4>5. ip \in set[k]
        BY <2>1, <3>2, <4>4
      <4> QED BY <3>1, <4>5 DEF Built
    <3> QED BY <3>4, <3>5
  <2> QED BY <2>2, <2>3 DEF T!Snapshot
<1> QED BY <1>1, Inductive, PTL

-----------------------------------------------------------------------------
(* Tunnels, for any keys that nest *)

\* The tunnel that Connect adds.
LEMMA NewTunnel ==
  ASSUME NEW ip \in PodIP, NEW k \in HostKey, NEW ips \in SUBSET PodIP
  PROVE  LET t == [ip |-> ip, key |-> k, ips |-> ips, sni |-> NoSNI, draining |-> FALSE] IN
         t \in Tunnel /\ t.ip = ip /\ t.key = k /\ t.ips = ips /\ t.sni = NoSNI /\ t.draining = FALSE
<1>1. [ip |-> ip, key |-> k, ips |-> ips, sni |-> NoSNI, draining |-> FALSE] \in Tunnel
  BY ZenonT(60) DEF Tunnel
<1> QED
  BY <1>1

\* A handshake only sets the SNI.
LEMMA GreetedTunnel ==
  ASSUME NEW t \in Tunnel, NEW n \in Host
  PROVE  LET h == [t EXCEPT !.sni = n] IN
         /\ h \in Tunnel /\ h.ip = t.ip /\ h.key = t.key /\ h.ips = t.ips /\ h.sni = n
         /\ h.draining = t.draining
<1>1. [t EXCEPT !.sni = n] \in Tunnel
  BY ZenonT(60) DEF Tunnel
<1> QED
  BY <1>1 DEF Tunnel

\* Draining keeps the rest of a tunnel.
LEMMA DrainedTunnel ==
  ASSUME NEW t \in Tunnel
  PROVE  LET d == [t EXCEPT !.draining = TRUE] IN
         d \in Tunnel /\ d.ip = t.ip /\ d.key = t.key /\ d.ips = t.ips /\ d.sni = t.sni /\ d.draining
<1>1. [t EXCEPT !.draining = TRUE] \in Tunnel
  BY ZenonT(60) DEF Tunnel
<1> QED
  BY <1>1 DEF Tunnel

\* The invariant of Tunnels (IInv) holds at the start and is kept by every step.
THEOREM TunnelsInductive == TunnelSpec => []TunnelIInv
<1>1. TunnelInit => TunnelIInv
  <2>1. Empty \in Snapshot
    BY DEF Empty, Snapshot
  <2> QED
    BY <2>1 DEF TunnelInit, TunnelIInv, TunnelTypeOK
<1>2. TunnelIInv /\ [TunnelNext]_tunnelVars => TunnelIInv'
  <2> SUFFICES ASSUME TunnelIInv, [TunnelNext]_tunnelVars PROVE TunnelIInv'
    OBVIOUS
  <2>1. ASSUME NEW s \in Snapshot, Push(s) PROVE TunnelIInv'
    BY <2>1 DEF Push, envoy, TunnelIInv, TunnelTypeOK, Sni
  <2>2. CASE TakeClusters
    BY <2>2 DEF TakeClusters, TunnelIInv, TunnelTypeOK, Sni
  <2>3. CASE TakeListeners
    <3>1. /\ listeners' = pushed /\ UNCHANGED <<pushed, clusters, routes, pushes, restarts>>
          /\ Sni(listeners)' = Sni(pushed)
      BY <2>3 DEF TakeListeners, Sni
    <3>2. ASSUME NEW d \in tunnels'
          PROVE  /\ d \in Tunnel /\ d.ip \in d.ips
                 /\ d.sni # NoSNI => d.sni \in d.key
                 /\ ~d.draining => hashName(d.key, d.ips) \in Sni(pushed)
      <4>1. PICK t \in tunnels : d = IF hashName(t.key, t.ips) \in Sni(pushed) THEN t
                                     ELSE [t EXCEPT !.draining = TRUE]
        BY <2>3 DEF TakeListeners
      <4>2. t \in Tunnel /\ t.ip \in t.ips /\ (t.sni # NoSNI => t.sni \in t.key)
        BY DEF TunnelIInv, TunnelTypeOK
      <4>3. CASE hashName(t.key, t.ips) \in Sni(pushed)
        BY <4>1, <4>2, <4>3
      <4>4. CASE hashName(t.key, t.ips) \notin Sni(pushed)
        BY <4>1, <4>2, <4>4, DrainedTunnel
      <4> QED BY <4>3, <4>4
    <3> QED
      BY <3>1, <3>2 DEF TunnelIInv, TunnelTypeOK
  <2>4. CASE TakeRoutes
    BY <2>4 DEF TakeRoutes, TunnelIInv, TunnelTypeOK, Sni
  <2>5. ASSUME NEW ip \in PodIP, NEW n \in Host, NEW k \in HostKey, Connect(ip, n, k) PROVE TunnelIInv'
    <3> DEFINE t == [ip |-> ip, key |-> k, ips |-> routes[k], sni |-> NoSNI, draining |-> FALSE]
    <3>1. /\ tunnels' = tunnels \cup {t} /\ UNCHANGED <<pushed, clusters, listeners, routes, pushes, restarts>>
          /\ ip \in routes[k] /\ hashName(k, routes[k]) \in Sni(listeners)
      BY <2>5 DEF Connect, Admits
    <3>2. /\ t \in Tunnel /\ t.ip = ip /\ t.key = k /\ t.ips = routes[k] /\ t.sni = NoSNI
      <4>1. routes[k] \in SUBSET PodIP
        BY DEF TunnelIInv, TunnelTypeOK, Snapshot
      <4> QED BY <4>1, NewTunnel
    <3>3. Sni(listeners)' = Sni(listeners)
      BY <3>1 DEF Sni
    <3> HIDE DEF t
    <3> QED
      BY <3>1, <3>2, <3>3 DEF TunnelIInv, TunnelTypeOK
  <2>6. ASSUME NEW t \in tunnels, NEW n \in Host, Hello(t, n) PROVE TunnelIInv'
    <3> DEFINE h == [t EXCEPT !.sni = n]
    <3>1. /\ UNCHANGED <<pushed, clusters, listeners, routes, pushes, restarts>>
          /\ tunnels' \subseteq tunnels \cup {h}
          /\ h \in tunnels' => h \in tunnels \/ n \in t.key
      BY <2>6 DEF Hello, ServerNames
    <3>2. /\ h \in Tunnel /\ h.ip = t.ip /\ h.key = t.key /\ h.ips = t.ips /\ h.sni = n
          /\ h.draining = t.draining
      BY GreetedTunnel DEF TunnelIInv, TunnelTypeOK
    <3>3. Sni(listeners)' = Sni(listeners)
      BY <3>1 DEF Sni
    <3> HIDE DEF h
    <3> QED
      BY <3>1, <3>2, <3>3 DEF TunnelIInv, TunnelTypeOK
  <2>7. ASSUME NEW t \in tunnels, Close(t) PROVE TunnelIInv'
    BY <2>7 DEF Close, TunnelIInv, TunnelTypeOK, Sni
  <2>8. CASE EnvoyRestart
    <3>1. Empty \in Snapshot
      BY DEF Empty, Snapshot
    <3> QED
      BY <2>8, <3>1 DEF EnvoyRestart, TunnelIInv, TunnelTypeOK
  <2>9. CASE UNCHANGED tunnelVars
    BY <2>9 DEF tunnelVars, envoy, TunnelIInv, TunnelTypeOK, Sni
  <2> QED
    BY <2>1, <2>2, <2>3, <2>4, <2>5, <2>6, <2>7, <2>8, <2>9 DEF TunnelNext
<1> QED
  BY <1>1, <1>2, PTL DEF TunnelSpec

\* The resources that Envoy has are those of snapshots that were built, and its
\* tunnels are tunnels of their keys (TypeOK).
THEOREM TunnelsTyped == TunnelSpec => []TunnelTypeOK
<1>1. TunnelIInv => TunnelTypeOK
  BY DEF TunnelIInv
<1> QED
  BY <1>1, TunnelsInductive, PTL

\* Nobody's tunnel outlives, undrained, the listeners that entitled it, and none
\* carries an SNI that its IP may not reach (build.go:76-97, build.go:225).
THEOREM TunnelsAreEntitled == TunnelSpec => []OpenIsEntitled
<1>1. TunnelIInv => OpenIsEntitled
  <2> SUFFICES ASSUME TunnelIInv, NEW t \in tunnels, ~t.draining, t.sni # NoSNI
               PROVE  MayReach(listeners, t.ip, t.sni)
    BY DEF OpenIsEntitled
  <2>1. t.key \in HostKey /\ t.sni \in t.key /\ t.ip \in t.ips /\ hashName(t.key, t.ips) \in Sni(listeners)
    BY DEF TunnelIInv, TunnelTypeOK, Tunnel
  <2>2. PICK k \in HostKey : hashName(t.key, t.ips) = hashName(k, listeners[k])
    BY <2>1 DEF Sni
  <2>3. t.ips = listeners[t.key]
    BY <2>2 DEF hashName
  <2> QED
    BY <2>1, <2>3 DEF MayReach
<1> QED
  BY <1>1, TunnelsInductive, PTL

-----------------------------------------------------------------------------

\* Of the keys of a snapshot that match a name, one is the most specific.
LEMMA SomeMostSpecific ==
  ASSUME NEW s, NEW n \in Host, NEW f \in Matching(s, n)
  PROVE  \E e \in MostSpecific(s, n) : TRUE
<1>1. Matching(s, n) \in SUBSET HostKey /\ \A k \in Matching(s, n) : n \in k
  BY DEF Matching
<1>2. PICK e \in Matching(s, n) : \A m \in Matching(s, n) : e \subseteq m
  BY <1>1, TunnelsAssumption DEF KeysNest
<1> QED BY <1>2 DEF MostSpecific

\* Once Envoy has taken the three kinds of resources from one push, it serves
\* every CONNECT that the rules allow: the virtual host it routes to admits the
\* IP and names a cluster and a listener that are there, which takes the SNI
\* (the state that EntitledIsServed says is reached).
THEOREM SettledServes ==
  TunnelSpec => [](clusters = pushed /\ listeners = pushed /\ routes = pushed =>
                 \A ip \in PodIP, n \in Host : MayReach(pushed, ip, n) =>
                   \E e \in MostSpecific(routes, n) : Admits(ip, e) /\ n \in ServerNames(e))
<1> DEFINE Settled == clusters = pushed /\ listeners = pushed /\ routes = pushed
           Served == \A ip \in PodIP, n \in Host : MayReach(pushed, ip, n) =>
                       \E e \in MostSpecific(routes, n) : Admits(ip, e) /\ n \in ServerNames(e)
<1>1. TunnelTypeOK => (Settled => Served)
  <2> SUFFICES ASSUME TunnelTypeOK, Settled, NEW ip \in PodIP, NEW n \in Host,
                      MayReach(pushed, ip, n)
               PROVE  \E e \in MostSpecific(routes, n) : Admits(ip, e) /\ n \in ServerNames(e)
    OBVIOUS
  <2>1. routes \in Snapshot /\ clusters = routes /\ listeners = routes
    BY DEF TunnelTypeOK
  <2>2. PICK f \in HostKey : n \in f /\ ip \in routes[f]
    BY DEF MayReach
  <2>3. f \in Matching(routes, n)
    BY <2>2 DEF Matching
  <2>4. PICK e \in MostSpecific(routes, n) : TRUE
    BY ZenonT(60), <2>1, <2>3, SomeMostSpecific
  <2>5. e \in HostKey /\ n \in e /\ routes[e] # {} /\ e \subseteq f
    BY <2>3, <2>4 DEF MostSpecific, Matching
  <2>6. ip \in routes[e]
    BY <2>1, <2>2, <2>5 DEF Snapshot
  <2>7. hashName(e, routes[e]) \in Sni(routes)
    BY <2>5 DEF Sni
  <2>8. Admits(ip, e) /\ n \in ServerNames(e)
    BY <2>1, <2>5, <2>6, <2>7 DEF Admits, ServerNames
  <2> QED BY <2>4, <2>8
<1> QED
  BY <1>1, TunnelsTyped, PTL

=============================================================================

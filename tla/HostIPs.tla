------------------------------- MODULE HostIPs -------------------------------
(***************************************************************************)
(* policy.HostIPs (admin/internal/policy/policy.go): which pod IPs may     *)
(* reach which proxy destination.  The IPs of every "*.suffix" key are     *)
(* merged into the keys it covers, in place, by two nested loops over a Go *)
(* map.  Go visits the entries of a map in any order, so the merge is a    *)
(* state machine that picks the next key freely.                           *)
(*                                                                         *)
(* A name is the sequence of its labels from the top-level domain down, so *)
(* that HasSuffix(host, ".suffix") is being a proper prefix here.          *)
(***************************************************************************)
EXTENDS Naturals, Sequences

CONSTANTS
  Label,        \* labels of domain names
  Port,         \* ports of proxy destinations
  Ws, Zone, IP, \* workspaces, zones, pod IPs
  NoZone,       \* not assigned
  NoIP,         \* the empty IP
  Valid,        \* the rules that ValidRule accepts
  Inputs,       \* the values of policy.Input considered
  Requested     \* the names that workspaces ask Envoy for

Name == Seq(Label)
Key == [form : {"exact", "wild"}, name : Name, port : Port]
Rule == [kind : {"host", "dns"}, key : Key]
Input ==
  [default   : Zone \cup {NoZone},
   zoneRules : [Zone -> SUBSET Rule],
   assign    : [Ws -> Zone \cup {NoZone}],
   grants    : [Ws -> SUBSET Rule],
   pods      : SUBSET [ws : Ws, ip : IP \cup {NoIP}]]

ASSUME HostIPsAssumption ==
  /\ Inputs \subseteq Input
  /\ Requested \subseteq Name
  /\ NoZone \notin Zone
  /\ NoIP \notin IP

NoKey == [form |-> "exact", name |-> << >>, port |-> 0]

VARIABLES
  in,       \* the argument
  set,      \* the local map from keys to sets of IPs
  at,       \* "outer" or "inner" loop, or "done"
  outer,    \* keys the outer loop has yet to visit
  wk,       \* its wildcard key
  inner     \* keys the inner loop has yet to visit

vars == <<in, set, at, outer, wk, inner>>

-----------------------------------------------------------------------------

ZoneOf(i, w) == IF i.assign[w] # NoZone THEN i.assign[w] ELSE i.default

\* Zone rules (none when there is no default zone) and grants of kind "host".
Effective(i, w) ==
  LET z == ZoneOf(i, w)
      zoned == IF z = NoZone THEN {} ELSE i.zoneRules[z]
  IN  {r.key : r \in {r \in zoned \cup i.grants[w] : r.kind = "host" /\ r \in Valid}}

\* Mutant: pods without an IP are not skipped.
RunningAll(i) == i.pods

Running(i) == {p \in i.pods : p.ip # NoIP}

Keys(i) == UNION {Effective(i, p.ws) : p \in Running(i)}

\* The IPs a key gets from its own rules.
Own(i, k) == {p.ip : p \in {p \in Running(i) : k \in Effective(i, p.ws)}}

Below(m, n) == Len(m) < Len(n) /\ \A j \in 1..Len(m) : m[j] = n[j]

\* k != wk && k.Port == wk.Port && strings.HasSuffix(k.Host, suffix): a wildcard
\* is not below itself, and "a.com" does not end in ".a.com".
Covers(w, k) == w.form = "wild" /\ w.port = k.port /\ Below(w.name, k.name)

TypeOK ==
  /\ in \in Inputs
  /\ set \in [Keys(in) -> SUBSET IP]
  /\ at \in {"outer", "inner", "done"}
  /\ outer \subseteq Keys(in)
  /\ at = "inner" => wk \in Keys(in) /\ wk.form = "wild"
  /\ inner \subseteq Keys(in)

\* The first loop, over the pods, has run.
Init ==
  /\ in \in Inputs
  /\ set = [k \in Keys(in) |-> Own(in, k)]
  /\ at = "outer"
  /\ outer = Keys(in)
  /\ wk = NoKey
  /\ inner = {}

\* An exact key is skipped.
SkipExact(k) ==
  /\ at = "outer"
  /\ k.form = "exact"
  /\ outer' = outer \ {k}
  /\ UNCHANGED <<in, set, at, wk, inner>>

PickWild(k) ==
  /\ at = "outer"
  /\ k.form = "wild"
  /\ outer' = outer \ {k}
  /\ wk' = k
  /\ inner' = Keys(in)
  /\ at' = "inner"
  /\ UNCHANGED <<in, set>>

\* Mutant: longer wildcards are left as they are.
MergeExactOnly(k) ==
  /\ at = "inner"
  /\ inner' = inner \ {k}
  /\ set' = IF Covers(wk, k) /\ k.form = "exact"
              THEN [set EXCEPT ![k] = set[k] \cup set[wk]] ELSE set
  /\ UNCHANGED <<in, at, outer, wk>>

\* Mutant: the covered key's IPs go to the wildcard as well.
MergeBothWays(k) ==
  /\ at = "inner"
  /\ inner' = inner \ {k}
  /\ set' = IF Covers(wk, k)
              THEN [set EXCEPT ![k] = set[k] \cup set[wk], ![wk] = set[k] \cup set[wk]]
              ELSE set
  /\ UNCHANGED <<in, at, outer, wk>>

\* One turn of the inner loop.
Merge(k) ==
  /\ at = "inner"
  /\ inner' = inner \ {k}
  /\ set' = IF Covers(wk, k) THEN [set EXCEPT ![k] = set[k] \cup set[wk]] ELSE set
  /\ UNCHANGED <<in, at, outer, wk>>

EndInner ==
  /\ at = "inner"
  /\ inner = {}
  /\ at' = "outer"
  /\ wk' = NoKey
  /\ UNCHANGED <<in, set, outer, inner>>

Return ==
  /\ at = "outer"
  /\ outer = {}
  /\ at' = "done"
  /\ UNCHANGED <<in, set, outer, wk, inner>>

Next ==
  \/ \E k \in outer : SkipExact(k) \/ PickWild(k)
  \/ \E k \in inner : Merge(k)
  \/ EndInner
  \/ Return

Spec == Init /\ [][Next]_vars

-----------------------------------------------------------------------------
(* Properties *)

\* What the merge is for: the IPs of a key and of all the keys that cover it.
Merged(i, k) == Own(i, k) \cup UNION {Own(i, w) : w \in {w \in Keys(i) : Covers(w, k)}}

\* The in-place merge computes Merged whatever the order in which Go visits the
\* map, although a wildcard may be merged before or after it has itself
\* received the IPs of a shorter wildcard.
OrderIndependent == at = "done" => \A k \in Keys(in) : set[k] = Merged(in, k)

\* Envoy: a virtual host's domain matches the requested name.
Matches(k, name, port) ==
  /\ k.port = port
  /\ \/ k.form = "exact" /\ k.name = name
     \/ k.form = "wild" /\ Below(k.name, name)

\* Envoy: the exact domain, else the longest wildcard, and no other.
Routed(k, name, port) ==
  /\ Matches(k, name, port)
  /\ \A j \in Keys(in) :
       Matches(j, name, port) /\ j # k => j.form = "wild" /\ Len(j.name) < Len(k.name)

\* Some host rule of the pod's workspace allows the destination.
Entitled(ip, name, port) ==
  \E p \in Running(in) :
    p.ip = ip /\ \E k \in Effective(in, p.ws) : Matches(k, name, port)

\* Envoy routes a request to the most specific matching key only, and that key
\* admits exactly the pods whose own rules (of the zone or granted, exact or
\* wildcard) allow the destination: a grant to one workspace neither locks the
\* others out nor lets them in.
EnvoyAdmitsEntitled ==
  at = "done" =>
    \A name \in Requested, port \in Port, ip \in IP :
      (\E k \in Keys(in) : Routed(k, name, port) /\ ip \in set[k])
        <=> Entitled(ip, name, port)

-----------------------------------------------------------------------------
(* The inductive invariant *)

\* A key holds its own IPs and never one that Merged would not give it.
Bounded == \A k \in Keys(in) : Own(in, k) \subseteq set[k] /\ set[k] \subseteq Merged(in, k)

\* The outer loop is past w, and the inner loop past k if it is on w.
Visited(w, k) == w \notin outer /\ (at = "inner" /\ w = wk => k \notin inner)

\* The own IPs of a visited wildcard have arrived.
Arrived ==
  \A w \in Keys(in), k \in Keys(in) :
    Covers(w, k) /\ Visited(w, k) => Own(in, w) \subseteq set[k]

IInv == TypeOK /\ Bounded /\ Arrived /\ (at = "done" => outer = {})

=============================================================================

----------------------------- MODULE PolicyRead ------------------------------
(***************************************************************************)
(* What a rebuild makes of the store while admins change it: PolicyInput   *)
(* (admin/internal/store/store.go) reads zones, rules and assignments in   *)
(* three queries, each of which sees the transactions committed so far;    *)
(* Effective (admin/internal/policy) is what Envoy is to allow of the      *)
(* result, and Render (admin/internal/cilium) what Cilium is.              *)
(*                                                                         *)
(* Transactions of the store are single steps here; how they interleave is *)
(* the subject of Zones and Requests.                                      *)
(***************************************************************************)
EXTENDS Naturals

CONSTANTS
  Zone, Ws,
  Rule,         \* rows that table rules may hold, of both kinds
  Dns,          \* those of kind "dns"
  Valid,        \* those that ValidRule accepts
  NoZone,       \* no default zone, or no row in assignments
  NoWs,         \* a pod without a workspace label
  MaxCommit     \* bound on transactions

\* zones and default; rules with a zone_id, and with a workspace_id that are
\* unexpired; assignments.
Database ==
  {d \in [zones : SUBSET Zone, default : Zone \cup {NoZone}, rules : [Zone -> SUBSET Rule],
          grants : [Ws -> SUBSET Rule], assign : [Ws -> Zone \cup {NoZone}]] :
     /\ d.default \in d.zones \cup {NoZone}
     /\ \A z \in Zone \ d.zones : d.rules[z] = {}
     /\ \A w \in Ws : d.assign[w] \in d.zones \cup {NoZone}}

\* policy.Input.  A zone without an entry in ZoneRules is one without rules.
Input == [default : Zone \cup {NoZone}, rules : [Zone -> SUBSET Rule],
          grants : [Ws -> SUBSET Rule], assign : [Ws -> Zone \cup {NoZone}]]

ASSUME PolicyReadAssumption ==
  /\ NoZone \notin Zone
  /\ NoWs \notin Ws
  /\ Dns \subseteq Rule /\ Valid \subseteq Rule
  /\ MaxCommit \in Nat

VARIABLES
  db,           \* the committed rows
  commits,      \* how many transactions there were
  query, in,    \* the next query of PolicyInput, "done" at its end; its result
  \* history of the read
  homes,        \* the zones each workspace was in
  lists,        \* the allowlists each workspace was entitled to
  defaultMoved  \* another zone became the default

history == <<homes, lists, defaultMoved>>
readVars == <<db, commits, query, in, history>>

ReadTypeOK ==
  /\ db \in Database
  /\ commits \in 0..MaxCommit
  /\ query \in {"zones", "rules", "assignments", "done"}
  /\ in \in Input
  /\ homes \in [Ws -> SUBSET (Zone \cup {NoZone})]
  /\ lists \in [Ws -> SUBSET SUBSET Rule]
  /\ defaultMoved \in BOOLEAN

-----------------------------------------------------------------------------
(* The policy package *)

ZoneOf(i, w) == IF i.assign[w] # NoZone THEN i.assign[w] ELSE i.default

\* Effective, of both kinds; invalid rows are dropped.
Effective(i, w) ==
  LET z == ZoneOf(i, w) IN ((IF z = NoZone THEN {} ELSE i.rules[z]) \cup i.grants[w]) \cap Valid

-----------------------------------------------------------------------------
(* Transactions *)

\* d is committed while the read goes on.
Commit(d) ==
  /\ query # "done"
  /\ commits < MaxCommit
  /\ d # db
  /\ commits' = commits + 1
  /\ db' = d
  /\ homes' = [w \in Ws |-> homes[w] \cup {ZoneOf(d, w)}]
  /\ lists' = [w \in Ws |-> lists[w] \cup {Effective(d, w)}]
  /\ defaultMoved' = (defaultMoved \/ d.default # db.default)
  /\ UNCHANGED <<query, in>>

CreateZone(z) ==
  /\ z \notin db.zones
  /\ Commit([db EXCEPT !.zones = @ \cup {z}])

CloneZone(s, z) ==
  /\ s \in db.zones /\ z \notin db.zones
  /\ Commit([db EXCEPT !.zones = @ \cup {z}, !.rules[z] = db.rules[s]])

\* Mutant: members are not looked for.
DeleteZoneInUse(z) ==
  /\ z \in db.zones /\ z # db.default
  /\ Commit([db EXCEPT !.zones = @ \ {z}, !.rules[z] = {}])

\* Not the default and nobody's zone; its rules go with it.
DeleteZone(z) ==
  /\ z \in db.zones /\ z # db.default
  /\ \A w \in Ws : db.assign[w] # z
  /\ Commit([db EXCEPT !.zones = @ \ {z}, !.rules[z] = {}])

\* Rows that point at the new default are deleted.
SetDefaultZone(z) ==
  /\ z \in db.zones
  /\ Commit([db EXCEPT !.default = z,
                       !.assign = [w \in Ws |-> IF @[w] = z THEN NoZone ELSE @[w]]])

AddZoneRule(z, r) ==
  /\ r \in Valid
  /\ z \in db.zones
  /\ Commit([db EXCEPT !.rules[z] = @ \cup {r}])

DeleteZoneRule(z, r) == Commit([db EXCEPT !.rules[z] = @ \ {r}])

\* A move to the default zone deletes the row.
Assign(w, z) ==
  /\ z \in db.zones
  /\ Commit([db EXCEPT !.assign[w] = IF z = db.default THEN NoZone ELSE z])

Grant(w, r) ==
  /\ r \in Valid
  /\ Commit([db EXCEPT !.grants[w] = @ \cup {r}])

\* Revoked by DeleteRule, or past its expires_at.
GrantEnds(w, r) == Commit([db EXCEPT !.grants[w] = @ \ {r}])

-----------------------------------------------------------------------------
(* PolicyInput *)

NoInput == [default |-> NoZone, rules |-> [z \in Zone |-> {}],
            grants |-> [w \in Ws |-> {}], assign |-> [w \in Ws |-> NoZone]]

\* Any state admins may have brought the store to, and rows that another release
\* took for valid; the read begins.
ReadInit ==
  /\ db \in Database
  /\ commits = 0
  /\ query = "zones" /\ in = NoInput
  /\ homes = [w \in Ws |-> {ZoneOf(db, w)}]
  /\ lists = [w \in Ws |-> {Effective(db, w)}]
  /\ defaultMoved = FALSE

QueryZones ==
  /\ query = "zones" /\ query' = "rules"
  /\ in' = [in EXCEPT !.default = db.default]
  /\ UNCHANGED <<db, commits, history>>

QueryRules ==
  /\ query = "rules" /\ query' = "assignments"
  /\ in' = [in EXCEPT !.rules = db.rules, !.grants = db.grants]
  /\ UNCHANGED <<db, commits, history>>

\* Mutant: an assignment to a zone without rules is skipped.
QueryAssignmentsRuled ==
  /\ query = "assignments" /\ query' = "done"
  /\ in' = [in EXCEPT !.assign = [w \in Ws |->
              IF \E z \in Zone : db.assign[w] = z /\ in.rules[z] # {} THEN db.assign[w] ELSE NoZone]]
  /\ UNCHANGED <<db, commits, history>>

QueryAssignments ==
  /\ query = "assignments" /\ query' = "done"
  /\ in' = [in EXCEPT !.assign = db.assign]
  /\ UNCHANGED <<db, commits, history>>

PolicyInput == QueryZones \/ QueryRules \/ QueryAssignments

ReadNext ==
  \/ PolicyInput
  \/ \E z \in Zone : CreateZone(z) \/ DeleteZone(z) \/ SetDefaultZone(z)
  \/ \E s, z \in Zone : CloneZone(s, z)
  \/ \E z \in Zone, r \in Rule : AddZoneRule(z, r) \/ DeleteZoneRule(z, r)
  \/ \E w \in Ws, z \in Zone : Assign(w, z)
  \/ \E w \in Ws, r \in Rule : Grant(w, r) \/ GrantEnds(w, r)

ReadSpec == ReadInit /\ [][ReadNext]_readVars

-----------------------------------------------------------------------------
(* Render *)

\* A policy: the match expressions of its selector and its DNS rules.
match(op, values) == [op |-> op, values |-> values]
cnp(expr, dns) == [expr |-> expr, dns |-> dns]

dnsRules(rules) == rules \cap Dns \cap Valid

\* Mutant: a row that names the default zone counts as being elsewhere.
ElsewhereByRow(i) == {w \in Ws : i.assign[w] # NoZone}

Elsewhere(i) == {w \in Ws : i.assign[w] \notin {NoZone, i.default}}

Selector(i, z) ==
  IF z = i.default
    THEN {match("Exists", {})} \cup
         (IF Elsewhere(i) # {} THEN {match("NotIn", Elsewhere(i))} ELSE {})
    ELSE {match("In", {w \in Elsewhere(i) : i.assign[w] = z})}

\* Zones without rules or, but for the default, without members are left out.
ZonePolicies(i) ==
  {cnp(Selector(i, z), dnsRules(i.rules[z])) :
     z \in {z \in Zone : /\ dnsRules(i.rules[z]) # {}
                         /\ z = i.default \/ \E w \in Elsewhere(i) : i.assign[w] = z}}

GrantPolicies(i) ==
  {cnp({match("In", {w})}, dnsRules(i.grants[w])) : w \in {w \in Ws : dnsRules(i.grants[w]) # {}}}

Render(i) == ZonePolicies(i) \cup GrantPolicies(i)

\* How the API server and Cilium take a policy: an expression without values is
\* refused; the rules of the policies that select a pod add up; a policy
\* without DNS rules would allow every name.
Admitted(p) == \A x \in p.expr : x.op = "Exists" \/ x.values # {}
Selects(p, w) ==
  \A x \in p.expr : CASE x.op = "Exists" -> w # NoWs
                      [] x.op = "In" -> w \in x.values
                      [] x.op = "NotIn" -> w \notin x.values
Resolves(p) == IF p.dns = {} THEN Dns ELSE p.dns
Allowed(ps, w) == UNION {Resolves(p) : p \in {p \in ps : Admitted(p) /\ Selects(p, w)}}

-----------------------------------------------------------------------------
(* Properties *)

\* However the read was torn, Cilium and Envoy are given the same view of it:
\* the policies of Render let a workspace resolve exactly the DNS rules of its
\* Effective list, no invalid row, and a pod that is no workspace nothing.
CiliumAgrees ==
  query = "done" =>
    /\ \A w \in Ws : Allowed(Render(in), w) = dnsRules(Effective(in, w))
    /\ Allowed(Render(in), NoWs) = {}

Unaffected(w) == (\A y, z \in homes[w] : y = z) /\ (\A k, l \in lists[w] : k = l)

\* The read gives a workspace whose zone and allowlist stayed the same all the
\* while exactly that allowlist, whatever was committed about others between
\* the queries, unless another zone became the default.
UnaffectedExact ==
  query = "done" /\ ~defaultMoved =>
    \A w \in Ws : Unaffected(w) => lists[w] = {Effective(in, w)}

\* design.md:150: the effective allowlist is, "for each workspace, its zone's
\* host rules plus its" grants, also when the default zone changes, which makes
\* rows that point at it "redundant" (zones.go:132).
UnaffectedKeepsList ==
  query = "done" => \A w \in Ws : Unaffected(w) => lists[w] = {Effective(in, w)}

-----------------------------------------------------------------------------
(* The inductive invariant *)

\* The allowlist that i has for a workspace of zone z.
ListIn(i, z, w) == ((IF z = NoZone THEN {} ELSE i.rules[z]) \cup i.grants[w]) \cap Valid

\* The rules were read when the workspace was in one of its homes, and give it
\* one of its lists there; the zone that is read last is one of its homes.
ReadOK ==
  /\ \A w \in Ws : ZoneOf(db, w) \in homes[w] /\ Effective(db, w) \in lists[w]
  /\ query # "zones" /\ ~defaultMoved => in.default = db.default
  /\ query \in {"assignments", "done"} =>
       \A w \in Ws : \E z \in homes[w] : ListIn(in, z, w) \in lists[w]
  /\ query = "done" /\ ~defaultMoved => \A w \in Ws : ZoneOf(in, w) \in homes[w]

ReadIInv == ReadTypeOK /\ ReadOK

=============================================================================

-------------------------------- MODULE Zones --------------------------------
(***************************************************************************)
(* The zone half of the store (admin/internal/store/zones.go): zones, the  *)
(* default zone, zone rules and workspace assignments, written by          *)
(* concurrent HTTP handlers.                                               *)
(*                                                                         *)
(* Every store method runs one READ COMMITTED transaction.  A method is    *)
(* one action per SQL statement; the statements of different sessions      *)
(* interleave.  Uncommitted writes are kept in tx[s], invisible to other   *)
(* sessions, and reach the tables at Commit.  A statement that needs a row *)
(* another transaction has written or locked is not enabled until that     *)
(* transaction ends, which is how Postgres blocks it.  A statement that    *)
(* fails rolls its transaction back.  The audit INSERT that ends every     *)
(* method touches no row any other transaction needs, so it is part of     *)
(* Commit.  A method whose first statement already fails changes nothing   *)
(* and has no action.                                                      *)
(*                                                                         *)
(* Zone names are left out: a name clash is one more way to roll back.     *)
(***************************************************************************)
EXTENDS Naturals, FiniteSets

CONSTANTS
  Zone,         \* zone ids (uuids) that may ever be created
  Workspace,    \* workspace ids
  Rule,         \* the (kind, value, port) of a zone rule
  SeedRule,     \* the rules Seed gives the first zone
  Session,      \* concurrent store callers, one pooled connection each
  FirstZone,    \* the zone Seed created on the first start
  NoZone        \* no row, no argument

ASSUME ZoneAssumption ==
  /\ FirstZone \in Zone
  /\ NoZone \notin Zone
  /\ SeedRule \subseteq Rule

VARIABLES
  zones,        \* committed ids in table zones
  defaults,     \* committed ids with is_default
  assigned,     \* committed assignments: zone_id of each workspace, or NoZone
  rules,        \* committed zone rules, pairs <<zone_id, rule>>
  used,         \* ids ever handed out by gen_random_uuid()
  tx            \* the open transaction of each session

vars == <<zones, defaults, assigned, rules, used, tx>>

(***************************************************************************)
(* An open transaction: the next statement, the zone argument, the rows    *)
(* its UPDATE found, the row locks it holds and the writes it has made.    *)
(***************************************************************************)
Statement == {"idle", "clone_rules", "delete_zone", "default_unset",
              "default_set", "default_clear", "assign_delete", "assign_put",
              "commit"}

Transaction ==
  [at     : Statement,
   zone   : Zone \cup {NoZone},       \* the zone argument
   ws     : SUBSET Workspace,         \* the workspace argument
   found  : SUBSET Zone,              \* rows matched by UPDATE's snapshot
   locked : SUBSET Zone,              \* zone rows held FOR NO KEY UPDATE
   named  : SUBSET Zone,              \* those held FOR UPDATE: the name changes
   shared : SUBSET Zone,              \* zone rows held FOR KEY SHARE
   unset  : SUBSET Zone,              \* is_default cleared
   set    : SUBSET Zone,              \* is_default set
   ins    : SUBSET Zone,              \* zones inserted
   del    : SUBSET Zone,              \* zones deleted (held FOR UPDATE)
   rows   : SUBSET Workspace,         \* assignment rows written
   dest   : Zone \cup {NoZone},       \* their new zone, NoZone when deleted
   add    : SUBSET (Zone \X Rule),    \* zone rules inserted
   drop   : SUBSET (Zone \X Rule)]    \* zone rules deleted

Idle ==
  [at |-> "idle", zone |-> NoZone, ws |-> {}, found |-> {}, locked |-> {},
   named |-> {}, shared |-> {}, unset |-> {}, set |-> {}, ins |-> {}, del |-> {},
   rows |-> {}, dest |-> NoZone, add |-> {}, drop |-> {}]

Members(z) == {w \in Workspace : assigned[w] = z}
RulesOf(z) == {r \in rules : r[1] = z}

\* policy.Input.ZoneOf: the assigned zone, else the default one (as a set,
\* empty when there is no default).
ZoneOf(w) == IF assigned[w] # NoZone THEN {assigned[w]} ELSE defaults

TypeOK ==
  /\ zones \subseteq Zone
  /\ defaults \subseteq Zone
  /\ assigned \in [Workspace -> Zone \cup {NoZone}]
  /\ rules \subseteq Zone \X Rule
  /\ used \subseteq Zone
  /\ tx \in [Session -> Transaction]

\* The database after migration and the first Seed.
Init ==
  /\ zones = {FirstZone}
  /\ defaults = {FirstZone}
  /\ assigned = [w \in Workspace |-> NoZone]
  /\ rules = {FirstZone} \X SeedRule
  /\ used = {FirstZone}
  /\ tx = [s \in Session |-> Idle]

-----------------------------------------------------------------------------
(* Row locks of the other sessions. *)

Others(s) == Session \ {s}

\* No other session holds z FOR NO KEY UPDATE or FOR UPDATE.
Writable(s, z) == \A o \in Others(s) : z \notin tx[o].locked \cup tx[o].del

\* No other session holds z FOR UPDATE: a foreign key may point at it.
Shareable(s, z) == \A o \in Others(s) : z \notin tx[o].named \cup tx[o].del

\* No other session holds z in any mode: the row may be deleted or renamed.
Deletable(s, z) == Writable(s, z) /\ \A o \in Others(s) : z \notin tx[o].shared

\* No other session has written the assignment row of w.
RowFree(s, w) == \A o \in Others(s) : w \notin tx[o].rows

\* No other session has inserted or deleted rule row r.
RuleFree(s, r) == \A o \in Others(s) : r \notin tx[o].add \cup tx[o].drop

\* The transaction of s becomes t.
Step(s, t) == tx' = [tx EXCEPT ![s] = t]

Rollback(s) == Step(s, Idle)

Tables == <<zones, defaults, assigned, rules, used>>

-----------------------------------------------------------------------------
(* CreateZone, CloneZone, RenameZone *)

CreateZone(s, z) ==
  /\ tx[s].at = "idle"
  /\ z \notin used
  /\ used' = used \cup {z}
  /\ Step(s, [Idle EXCEPT !.at = "commit", !.ins = {z}])
  /\ UNCHANGED <<zones, defaults, assigned, rules>>

\* INSERT INTO zones ... WHERE EXISTS (source): locks nothing in the source.
CloneZone(s, src, z) ==
  /\ tx[s].at = "idle"
  /\ src \in zones
  /\ z \notin used
  /\ used' = used \cup {z}
  /\ Step(s, [Idle EXCEPT !.at = "clone_rules", !.zone = src, !.ins = {z}])
  /\ UNCHANGED <<zones, defaults, assigned, rules>>

\* Mutant: the columns of the INSERT are swapped.
CloneRulesSwapped(s) ==
  /\ tx[s].at = "clone_rules"
  /\ Step(s, [tx[s] EXCEPT !.at = "commit",
                   !.add = {<<r[2], tx[s].zone>> : r \in RulesOf(tx[s].zone)}])
  /\ UNCHANGED Tables

\* INSERT INTO rules SELECT: the source rules as this statement sees them.
CloneRules(s) ==
  /\ tx[s].at = "clone_rules"
  /\ Step(s, [tx[s] EXCEPT !.at = "commit",
                   !.add = {r \in tx[s].ins \X Rule : <<tx[s].zone, r[2]>> \in rules}])
  /\ UNCHANGED Tables

\* The UPDATE holds the row, FOR UPDATE when it changes the name, whose column is
\* unique; the name itself is not modelled.
RenameZone(s, z) ==
  /\ tx[s].at = "idle"
  /\ z \in zones
  /\ \/ /\ Writable(s, z)                          \* it has that name already
        /\ Step(s, [Idle EXCEPT !.at = "commit", !.locked = {z}])
     \/ /\ Deletable(s, z)
        /\ Step(s, [Idle EXCEPT !.at = "commit", !.locked = {z}, !.named = {z}])
  /\ UNCHANGED Tables

-----------------------------------------------------------------------------
(* DeleteZone *)

\* SELECT is_default, assigned: an unlocked read, refused when either holds.
DeleteZone(s, z) ==
  /\ tx[s].at = "idle"
  /\ z \in zones
  /\ z \notin defaults
  /\ Members(z) = {}
  /\ Step(s, [Idle EXCEPT !.at = "delete_zone", !.zone = z])
  /\ UNCHANGED Tables

\* DELETE FROM zones WHERE id = $1, with its foreign keys: rules go with the
\* zone (ON DELETE CASCADE), a referencing assignment fails the statement.
\* The number of rows deleted is not looked at.
DeleteZoneRow(s) ==
  LET z == tx[s].zone IN
  /\ tx[s].at = "delete_zone"
  /\ Deletable(s, z)
  /\ \A w \in Members(z) : RowFree(s, w)
  /\ \A r \in RulesOf(z) : RuleFree(s, r)
  /\ \/ /\ z \notin zones
        /\ Step(s, [tx[s] EXCEPT !.at = "commit"])
     \/ /\ z \in zones
        /\ Members(z) # {}
        /\ Rollback(s)
     \/ /\ z \in zones
        /\ Members(z) = {}
        /\ Step(s, [tx[s] EXCEPT !.at = "commit", !.del = {z},
                   !.drop = RulesOf(z)])
  /\ UNCHANGED Tables

-----------------------------------------------------------------------------
(* SetDefaultZone *)

\* UPDATE ... WHERE is_default takes its snapshot here; if a row it found is
\* locked it waits, and then looks again only at the rows it found.
SetDefaultZone(s, z) ==
  /\ tx[s].at = "idle"
  /\ Step(s, [Idle EXCEPT !.at = "default_unset", !.zone = z,
                   !.found = defaults])
  /\ UNCHANGED Tables

SetDefaultUnset(s) ==
  /\ tx[s].at = "default_unset"
  /\ \A d \in tx[s].found : Writable(s, d)
  /\ Step(s, [tx[s] EXCEPT !.at = "default_set",
                   !.locked = tx[s].found \cap zones,
                   !.unset = tx[s].found \cap defaults])
  /\ UNCHANGED Tables

\* Mutant: no unique index zones_one_default.
NoOtherDefaults(s, z) == {}

\* Default rows, other than z itself, that s still sees in zones_one_default.
OtherDefaults(s, z) == defaults \ (tx[s].unset \cup {z})

\* The unique index waits for a transaction whose outcome decides the clash.
IndexSettled(s, z) ==
  \A o \in Others(s) :
    /\ tx[o].set = {}
    /\ OtherDefaults(s, z) \cap (tx[o].unset \cup tx[o].del) = {}

\* Mutant: the number of rows updated is not looked at.
SetDefaultSetUnchecked(s) ==
  LET z == tx[s].zone IN
  /\ tx[s].at = "default_set"
  /\ Writable(s, z)
  /\ IndexSettled(s, z)
  /\ OtherDefaults(s, z) = {}
  /\ Step(s, [tx[s] EXCEPT !.at = "default_clear", !.locked = tx[s].locked \cup {z},
                   !.set = {z} \cap zones])
  /\ UNCHANGED Tables

SetDefaultSet(s) ==
  LET z == tx[s].zone IN
  /\ tx[s].at = "default_set"
  /\ Writable(s, z)
  /\ \/ /\ z \notin zones                          \* ErrNotFound
        /\ Rollback(s)
     \/ /\ z \in zones
        /\ IndexSettled(s, z)
        /\ OtherDefaults(s, z) # {}                \* ErrConflict
        /\ Rollback(s)
     \/ /\ z \in zones
        /\ IndexSettled(s, z)
        /\ OtherDefaults(s, z) = {}
        /\ Step(s, [tx[s] EXCEPT !.at = "default_clear",
                   !.locked = tx[s].locked \cup {z}, !.set = {z}])
  /\ UNCHANGED Tables

\* Mutant: the DELETE has no WHERE.
SetDefaultClearAll(s) ==
  /\ tx[s].at = "default_clear"
  /\ \A w \in Workspace : RowFree(s, w)
  /\ Step(s, [tx[s] EXCEPT !.at = "commit",
                   !.rows = {w \in Workspace : assigned[w] # NoZone}])
  /\ UNCHANGED Tables

\* DELETE FROM assignments WHERE zone_id = $1: the committed rows only.
SetDefaultClear(s) ==
  LET z == tx[s].zone IN
  /\ tx[s].at = "default_clear"
  /\ \A w \in Members(z) : RowFree(s, w)
  /\ Step(s, [tx[s] EXCEPT !.at = "commit", !.rows = Members(z)])
  /\ UNCHANGED Tables

-----------------------------------------------------------------------------
(* AddZoneRule, DeleteRule (of a zone rule) *)

\* The foreign key and rules_zone_uniq wait for whoever decides them.
AddZoneRule(s, z, r) ==
  /\ tx[s].at = "idle"
  /\ z \in zones
  /\ Shareable(s, z)
  /\ <<z, r>> \notin rules
  /\ RuleFree(s, <<z, r>>)
  /\ Step(s, [Idle EXCEPT !.at = "commit", !.shared = {z},
                   !.add = {<<z, r>>}])
  /\ UNCHANGED Tables

DeleteRule(s, z, r) ==
  /\ tx[s].at = "idle"
  /\ <<z, r>> \in rules
  /\ RuleFree(s, <<z, r>>)
  /\ Step(s, [Idle EXCEPT !.at = "commit", !.drop = {<<z, r>>}])
  /\ UNCHANGED Tables

-----------------------------------------------------------------------------
(* Assign *)

\* SELECT is_default decides which statement comes next.
Assign(s, w, z) ==
  /\ tx[s].at = "idle"
  /\ z \in zones
  /\ Step(s, [Idle EXCEPT !.at = IF z \in defaults THEN "assign_delete"
                   ELSE "assign_put",
                   !.zone = z, !.ws = {w}])
  /\ UNCHANGED Tables

AssignDelete(s) ==
  LET row == {w \in tx[s].ws : assigned[w] # NoZone} IN
  /\ tx[s].at = "assign_delete"
  /\ \A w \in row : RowFree(s, w)
  /\ Step(s, [tx[s] EXCEPT !.at = "commit", !.rows = row])
  /\ UNCHANGED Tables

\* Mutant: assignments.zone_id is not a foreign key.
AssignPutUnreferenced(s) ==
  /\ tx[s].at = "assign_put"
  /\ \A w \in tx[s].ws : RowFree(s, w)
  /\ Step(s, [tx[s] EXCEPT !.at = "commit",
                   !.rows = tx[s].ws, !.dest = tx[s].zone])
  /\ UNCHANGED Tables

\* INSERT ... ON CONFLICT DO UPDATE; the foreign key holds the zone row.
AssignPut(s) ==
  LET z == tx[s].zone IN
  /\ tx[s].at = "assign_put"
  /\ \A w \in tx[s].ws : RowFree(s, w)
  /\ Shareable(s, z)
  /\ \/ /\ z \notin zones                          \* foreign key: ErrConflict
        /\ Rollback(s)
     \/ /\ z \in zones
        /\ Step(s, [tx[s] EXCEPT !.at = "commit", !.shared = {z},
                   !.rows = tx[s].ws, !.dest = z])
  /\ UNCHANGED Tables

-----------------------------------------------------------------------------
(* The end of a transaction *)

\* The audit row is inserted and the transaction's writes become visible.
Commit(s) ==
  /\ tx[s].at = "commit"
  /\ zones' = (zones \cup tx[s].ins) \ tx[s].del
  /\ defaults' = ((defaults \ tx[s].unset) \cup tx[s].set) \ tx[s].del
  /\ assigned' = [w \in Workspace |->
                    IF w \in tx[s].rows THEN tx[s].dest ELSE assigned[w]]
  /\ rules' = (rules \cup tx[s].add) \ tx[s].drop
  /\ Step(s, Idle)
  /\ UNCHANGED used

\* A cancelled request, a lost connection, a name clash or a deadlock victim.
Abort(s) ==
  /\ tx[s].at # "idle"
  /\ Rollback(s)
  /\ UNCHANGED Tables

\* The process dies, Postgres rolls back what was open, and serve runs Seed.
Restart ==
  /\ tx' = [s \in Session |-> Idle]
  /\ \/ /\ zones # {}
        /\ UNCHANGED Tables
     \/ /\ zones = {}
        /\ \E z \in Zone \ used :
             /\ zones' = {z}
             /\ defaults' = {z}
             /\ rules' = {z} \X SeedRule
             /\ used' = used \cup {z}
        /\ UNCHANGED assigned

SessionStep(s) ==
  \/ \E z \in Zone : \/ CreateZone(s, z)
                     \/ RenameZone(s, z)
                     \/ DeleteZone(s, z)
                     \/ SetDefaultZone(s, z)
  \/ \E src, z \in Zone : CloneZone(s, src, z)
  \/ \E z \in Zone, r \in Rule : AddZoneRule(s, z, r) \/ DeleteRule(s, z, r)
  \/ \E w \in Workspace, z \in Zone : Assign(s, w, z)
  \/ CloneRules(s)
  \/ DeleteZoneRow(s)
  \/ SetDefaultUnset(s)
  \/ SetDefaultSet(s)
  \/ SetDefaultClear(s)
  \/ AssignDelete(s)
  \/ AssignPut(s)
  \/ Commit(s)
  \/ Abort(s)

Next == Restart \/ \E s \in Session : SessionStep(s)

Spec == Init /\ [][Next]_vars

-----------------------------------------------------------------------------
(* Properties *)

\* However SetDefaultZone, DeleteZone and Seed interleave, at most one zone is
\* the default: the transaction that loses the race on zones_one_default
\* fails instead of leaving two (PolicyInput would pick either).
AtMostOneDefault == Cardinality(defaults) <= 1

\* No assignment, rule or default mark outlives its zone, although DeleteZone
\* checks for members before the statement that deletes: the foreign keys and
\* their row locks close the window against Assign and AddZoneRule.
NoDangling ==
  /\ defaults \subseteq zones
  /\ \A w \in Workspace : assigned[w] # NoZone => assigned[w] \in zones
  /\ \A r \in rules : r[1] \in zones

\* Concurrent SetDefaultZone calls, one of them for a zone being deleted
\* included, never leave the system without a default zone: only a DELETE of
\* the default zone itself does.
DefaultLostOnlyByDelete ==
  [][defaults # {} /\ defaults' = {} => defaults \cap zones' = {}]_vars

\* A workspace with an explicit assignment keeps its effective zone until an
\* Assign of that workspace commits: making its zone the default (which
\* deletes the row), changing the default or deleting zones never moves it.
ExplicitMembersStay ==
  [][\A w \in Workspace :
       assigned[w] # NoZone /\ ZoneOf(w)' # ZoneOf(w)
         => \E s \in Session : /\ tx[s].at = "commit"
                               /\ w \in tx[s].ws
                               /\ tx'[s] = Idle]_vars

\* zones.go:104: DeleteZone refuses the default zone.
DeleteRefusesDefault == [][\A z \in zones \ zones' : z \notin defaults]_vars

\* zones.go:132 and 169: no explicit row points at the default zone, so its
\* members follow future default changes.
DefaultMembersImplicit == \A w \in Workspace : assigned[w] \notin defaults

-----------------------------------------------------------------------------
(***************************************************************************)
(* The inductive invariant behind the properties above.                    *)
(***************************************************************************)

\* What a transaction has done by the time it reaches a statement.
Progress(t) ==
  /\ t.at = "idle" => t = Idle
  /\ t.at \notin {"clone_rules", "commit"} => t.ins = {}
  /\ t.at \notin {"assign_delete", "assign_put", "commit"} => t.ws = {}
  /\ t.at \notin {"default_set", "default_clear", "commit"} => t.locked = {}
  /\ t.at \notin {"default_clear", "commit"} => t.set = {}
  /\ t.at = "default_clear" => t.set # {}
  /\ t.at = "commit" /\ t.unset # {} => t.set # {}
  /\ t.at # "commit" => /\ t.shared = {} /\ t.del = {}
                        /\ t.rows = {} /\ t.dest = NoZone
                        /\ t.add = {} /\ t.drop = {}

\* A transaction locks what it writes and what it refers to.
Guarded(t) ==
  /\ t.unset \subseteq t.locked
  /\ t.set \subseteq t.locked \cap {t.zone}
  /\ t.dest # NoZone => t.dest \in t.shared
  /\ \A r \in t.add : r[1] \in t.ins \cup t.shared
  /\ t.del # {} => /\ t.locked = {} /\ t.shared = {} /\ t.ins = {}
                   /\ t.rows = {}

\* What the tables say as long as the transaction holds its locks.
Holds(t) ==
  /\ t.locked \cup t.shared \cup t.del \subseteq zones
  /\ t.ins \cap zones = {}
  /\ t.set # {} => defaults \ t.unset \subseteq t.set
  /\ \A w \in t.rows \ t.ws : t.dest = NoZone /\ t.set = {assigned[w]}
  /\ \A w \in Workspace : assigned[w] \notin t.del
  /\ \A r \in rules : r[1] \in t.del => r \in t.drop

\* What two open transactions never both have.
Exclusive(t, u) ==
  /\ t.locked \cap (u.locked \cup u.del) = {}
  /\ u.locked \cap t.del = {}
  /\ t.del \cap (u.del \cup u.shared) = {}
  /\ u.del \cap t.shared = {}
  /\ t.rows \cap u.rows = {}
  /\ t.ins \cap u.ins = {}
  /\ t.set = {} \/ u.set = {}

TransactionsOK ==
  \A s \in Session :
    /\ Progress(tx[s]) /\ Guarded(tx[s]) /\ Holds(tx[s])
    /\ tx[s].ins \subseteq used
    /\ \A o \in Others(s) : Exclusive(tx[s], tx[o])

TablesOK ==
  /\ zones \subseteq used
  /\ \A y, z \in defaults : y = z
  /\ NoDangling

IInv == TypeOK /\ TransactionsOK /\ TablesOK

=============================================================================

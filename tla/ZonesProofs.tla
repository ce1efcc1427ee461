----------------------------- MODULE ZonesProofs -----------------------------
(***************************************************************************)
(* Proofs about zones, the default zone and assignments, for any number of *)
(* sessions, zones and workspaces.                                         *)
(*                                                                         *)
(* IInv is inductive.  AtMostOneDefault and NoDangling are not by          *)
(* themselves: that a COMMIT preserves them depends on what the            *)
(* transaction read in earlier statements, and it is the row locks that    *)
(* keep those reads true.  Progress, Guarded and Holds say what a          *)
(* transaction has locked and what its locks guarantee, Exclusive what two *)
(* transactions cannot both have.  StatementStep reduces a statement to    *)
(* its own transaction, CommitStep is the step that changes the tables.    *)
(***************************************************************************)
EXTENDS Zones, FiniteSetTheorems, TLAPS

USE ZoneAssumption DEF Tables, Statement

\* Locks exclude in both directions.
LEMMA ExclusiveSymmetric ==
  ASSUME NEW t, NEW u, Exclusive(t, u)
  PROVE  Exclusive(u, t)
  BY DEF Exclusive

\* A session without a transaction is in nobody's way.
LEMMA IdleOK ==
  /\ Idle \in Transaction
  /\ Idle.ins = {}
  /\ Progress(Idle) /\ Guarded(Idle) /\ Holds(Idle) /\ Holds(Idle)'
  /\ \A u : Exclusive(Idle, u)
<1>1. Idle \in Transaction
  BY SMTT(60) DEF Idle, Transaction
<1>2. Progress(Idle) /\ Guarded(Idle) /\ Holds(Idle) /\ Holds(Idle)' /\ Idle.ins = {}
  BY ZenonT(60) DEF Idle, Progress, Guarded, Holds
<1>3. \A u : Exclusive(Idle, u)
  BY SMTT(60) DEF Idle, Exclusive
<1> QED
  BY <1>1, <1>2, <1>3

\* A statement that touches no committed row only has to look after its own
\* transaction.
LEMMA StatementStep ==
  ASSUME IInv, NEW s \in Session, NEW t \in Transaction, Step(s, t),
         UNCHANGED <<zones, defaults, assigned, rules>>,
         used \subseteq used', used' \subseteq Zone,
         t.ins \subseteq used', Progress(t), Guarded(t), Holds(t),
         \A o \in Others(s) : Exclusive(t, tx[o])
  PROVE  IInv'
<1>1. tx' \in [Session -> Transaction] /\ tx'[s] = t /\ \A o \in Others(s) : tx'[o] = tx[o]
  BY DEF IInv, TypeOK, Step, Others
<1>2. TypeOK'
  BY <1>1 DEF IInv, TypeOK
<1>3. TablesOK'
  BY DEF IInv, TablesOK, NoDangling
<1>4. \A o \in Session : Progress(tx'[o]) /\ Guarded(tx'[o]) /\ tx'[o].ins \subseteq used'
  BY <1>1 DEF IInv, TransactionsOK, Others
<1>5. \A o \in Session : Holds(tx'[o])
  BY <1>1 DEF IInv, TransactionsOK, Others
<1>6. \A o \in Session : Holds(tx[o])'
  BY <1>5 DEF Holds
<1>7. \A o \in Session : \A p \in Others(o) : Exclusive(tx'[o], tx'[p])
  BY <1>1, ExclusiveSymmetric DEF IInv, TransactionsOK, Others
<1> QED
  BY SMTT(60), <1>2, <1>3, <1>4, <1>6, <1>7 DEF IInv, TransactionsOK, Others, Progress, Guarded, Exclusive

\* The id of a new zone is in nobody's transaction.
LEMMA CreateZoneStep ==
  ASSUME IInv, NEW s \in Session, NEW z \in Zone, CreateZone(s, z)
  PROVE  IInv'
<1> DEFINE t == [Idle EXCEPT !.at = "commit", !.ins = {z}]
<1>1. t \in Transaction
  BY ZenonT(60), IdleOK DEF Transaction
<1>2. Progress(t) /\ Guarded(t)
  BY DEF Progress, Guarded, Idle
<1>3. Holds(t)
  BY DEF Holds, Idle, CreateZone, IInv, TablesOK
<1>4. \A o \in Others(s) : Exclusive(t, tx[o])
  BY DEF Exclusive, Idle, CreateZone, IInv, TransactionsOK, Others
<1>5. used' \subseteq Zone /\ used \subseteq used' /\ t.ins \subseteq used'
  BY DEF CreateZone, IInv, TypeOK, Idle
<1> QED
  BY ZenonT(60), <1>1, <1>2, <1>3, <1>4, <1>5, StatementStep DEF CreateZone

\* The UPDATE waits for the row, whichever lock it needs.
LEMMA RenameZoneStep ==
  ASSUME IInv, NEW s \in Session, NEW z \in Zone, RenameZone(s, z)
  PROVE  IInv'
<1> DEFINE same == [Idle EXCEPT !.at = "commit", !.locked = {z}]
           other == [Idle EXCEPT !.at = "commit", !.locked = {z}, !.named = {z}]
<1>0. PICK t \in {same, other} : Step(s, t)
  BY ZenonT(60) DEF RenameZone
<1>1. t \in Transaction
  <2>1. same \in Transaction
    BY ZenonT(60), IdleOK DEF Transaction
  <2>2. other \in Transaction
    BY ZenonT(60), IdleOK DEF Transaction
  <2> QED
    BY <2>1, <2>2
<1>2. /\ t.at = "commit" /\ t.locked = {z} /\ t.zone = NoZone /\ t.dest = NoZone
      /\ t.shared = {} /\ t.unset = {} /\ t.set = {} /\ t.ins = {} /\ t.del = {}
      /\ t.ws = {} /\ t.rows = {} /\ t.add = {} /\ t.drop = {}
  <2>1. CASE t = same
    BY <2>1 DEF Idle
  <2>2. CASE t = other
    BY <2>2 DEF Idle
  <2> QED
    BY <2>1, <2>2
<1> HIDE DEF same, other
<1>3. Progress(t) /\ Guarded(t)
  BY <1>2 DEF Progress, Guarded
<1>4. Holds(t)
  BY <1>2 DEF Holds, RenameZone, IInv, TablesOK
<1>5. \A o \in Others(s) : Exclusive(t, tx[o])
  <2>1. Writable(s, z)
    BY ZenonT(60) DEF RenameZone, Deletable
  <2> QED
    BY <1>2, <2>1 DEF Exclusive, Writable, IInv, TransactionsOK, Others
<1>6. used' \subseteq Zone /\ used \subseteq used' /\ t.ins \subseteq used'
  BY <1>2 DEF RenameZone, IInv, TypeOK
<1> QED
  BY ZenonT(60), <1>0, <1>1, <1>2, <1>3, <1>4, <1>5, <1>6, StatementStep DEF RenameZone

\* The SELECT of DeleteZone locks nothing.
LEMMA DeleteZoneStep ==
  ASSUME IInv, NEW s \in Session, NEW z \in Zone, DeleteZone(s, z)
  PROVE  IInv'
<1> DEFINE t == [Idle EXCEPT !.at = "delete_zone", !.zone = z]
<1>1. t \in Transaction
  BY ZenonT(60), IdleOK DEF Transaction, IInv, TypeOK
<1>2. Progress(t) /\ Guarded(t)
  BY DEF Progress, Guarded, Idle
<1>3. Holds(t)
  BY DEF Holds, Idle, DeleteZone, IInv, TablesOK
<1>4. \A o \in Others(s) : Exclusive(t, tx[o])
  BY DEF Exclusive, Idle, DeleteZone, IInv, TransactionsOK, Others
<1>5. used' \subseteq Zone /\ used \subseteq used' /\ t.ins \subseteq used'
  BY DEF DeleteZone, IInv, TypeOK, Idle
<1> QED
  BY ZenonT(60), <1>1, <1>2, <1>3, <1>4, <1>5, StatementStep DEF DeleteZone

\* The snapshot of the UPDATE locks nothing.
LEMMA SetDefaultZoneStep ==
  ASSUME IInv, NEW s \in Session, NEW z \in Zone, SetDefaultZone(s, z)
  PROVE  IInv'
<1> DEFINE t == [Idle EXCEPT !.at = "default_unset", !.zone = z, !.found = defaults]
<1>1. t \in Transaction
  BY ZenonT(60), IdleOK DEF Transaction, IInv, TypeOK
<1>2. Progress(t) /\ Guarded(t)
  BY DEF Progress, Guarded, Idle
<1>3. Holds(t)
  BY DEF Holds, Idle, SetDefaultZone, IInv, TablesOK
<1>4. \A o \in Others(s) : Exclusive(t, tx[o])
  BY DEF Exclusive, Idle, SetDefaultZone, IInv, TransactionsOK, Others
<1>5. used' \subseteq Zone /\ used \subseteq used' /\ t.ins \subseteq used'
  BY DEF SetDefaultZone, IInv, TypeOK, Idle
<1> QED
  BY ZenonT(60), <1>1, <1>2, <1>3, <1>4, <1>5, StatementStep DEF SetDefaultZone

\* The id of a clone is in nobody's transaction.
LEMMA CloneZoneStep ==
  ASSUME IInv, NEW s \in Session, NEW src \in Zone, NEW z \in Zone, CloneZone(s, src, z)
  PROVE  IInv'
<1> DEFINE t == [Idle EXCEPT !.at = "clone_rules", !.zone = src, !.ins = {z}]
<1>1. t \in Transaction
  BY ZenonT(60), IdleOK DEF Transaction, IInv, TypeOK
<1>2. Progress(t) /\ Guarded(t)
  BY DEF Progress, Guarded, Idle
<1>3. Holds(t)
  BY DEF Holds, Idle, CloneZone, IInv, TablesOK
<1>4. \A o \in Others(s) : Exclusive(t, tx[o])
  BY DEF Exclusive, Idle, CloneZone, IInv, TransactionsOK, Others
<1>5. used' \subseteq Zone /\ used \subseteq used' /\ t.ins \subseteq used'
  BY DEF CloneZone, IInv, TypeOK, Idle
<1> QED
  BY ZenonT(60), <1>1, <1>2, <1>3, <1>4, <1>5, StatementStep DEF CloneZone

\* The foreign key of a rule holds the zone.
LEMMA AddZoneRuleStep ==
  ASSUME IInv, NEW s \in Session, NEW z \in Zone, NEW r \in Rule, AddZoneRule(s, z, r)
  PROVE  IInv'
<1> DEFINE t == [Idle EXCEPT !.at = "commit", !.shared = {z}, !.add = {<<z, r>>}]
<1>1. t \in Transaction
  <2>1. {<<z, r>>} \in SUBSET (Zone \X Rule)
    OBVIOUS
  <2> QED
    BY ZenonT(60), <2>1, IdleOK DEF Transaction
<1>2. Progress(t) /\ Guarded(t)
  BY DEF Progress, Guarded, Idle
<1>3. Holds(t)
  BY DEF Holds, Idle, AddZoneRule, IInv, TablesOK
<1>4. \A o \in Others(s) : Exclusive(t, tx[o])
  BY DEF Exclusive, Idle, AddZoneRule, Shareable, IInv, TransactionsOK, Others
<1>5. used' \subseteq Zone /\ used \subseteq used' /\ t.ins \subseteq used'
  BY DEF AddZoneRule, IInv, TypeOK, Idle
<1> QED
  BY ZenonT(60), <1>1, <1>2, <1>3, <1>4, <1>5, StatementStep DEF AddZoneRule

\* A rule may go at any time.
LEMMA DeleteRuleStep ==
  ASSUME IInv, NEW s \in Session, NEW z \in Zone, NEW r \in Rule, DeleteRule(s, z, r)
  PROVE  IInv'
<1> DEFINE t == [Idle EXCEPT !.at = "commit", !.drop = {<<z, r>>}]
<1>1. t \in Transaction
  <2>1. {<<z, r>>} \in SUBSET (Zone \X Rule)
    OBVIOUS
  <2> QED
    BY ZenonT(60), <2>1, IdleOK DEF Transaction
<1>2. Progress(t) /\ Guarded(t)
  BY DEF Progress, Guarded, Idle
<1>3. Holds(t)
  BY DEF Holds, Idle, DeleteRule, IInv, TablesOK
<1>4. \A o \in Others(s) : Exclusive(t, tx[o])
  BY DEF Exclusive, Idle, DeleteRule, IInv, TransactionsOK, Others
<1>5. used' \subseteq Zone /\ used \subseteq used' /\ t.ins \subseteq used'
  BY DEF DeleteRule, IInv, TypeOK, Idle
<1> QED
  BY ZenonT(60), <1>1, <1>2, <1>3, <1>4, <1>5, StatementStep DEF DeleteRule

\* The SELECT of Assign locks nothing.
LEMMA AssignStep ==
  ASSUME IInv, NEW s \in Session, NEW w \in Workspace, NEW z \in Zone, Assign(s, w, z)
  PROVE  IInv'
<1> DEFINE at == IF z \in defaults THEN "assign_delete" ELSE "assign_put"
           t == [Idle EXCEPT !.at = at, !.zone = z, !.ws = {w}]
<1>1. t \in Transaction
  BY ZenonT(60), IdleOK DEF Transaction, IInv, TypeOK
<1>2. Progress(t) /\ Guarded(t)
  BY DEF Progress, Guarded, Idle
<1>3. Holds(t)
  BY DEF Holds, Idle
<1>4. \A o \in Others(s) : Exclusive(t, tx[o])
  BY DEF Exclusive, Idle
<1>5. used' \subseteq Zone /\ used \subseteq used' /\ t.ins \subseteq used'
  BY DEF Assign, IInv, TypeOK, Idle
<1> QED
  BY ZenonT(60), <1>1, <1>2, <1>3, <1>4, <1>5, StatementStep DEF Assign

\* A transaction that rolls back leaves no trace.
LEMMA RollbackStep ==
  ASSUME IInv, NEW s \in Session, Rollback(s), UNCHANGED Tables
  PROVE  IInv'
<1>1. used' \subseteq Zone
  BY SMTT(60) DEF IInv, TypeOK
<1> QED
  BY <1>1, IdleOK, StatementStep DEF Rollback

\* Cloned rules belong to the zone the transaction inserts.
LEMMA CloneRulesStep ==
  ASSUME IInv, NEW s \in Session, CloneRules(s)
  PROVE  IInv'
<1> DEFINE t == [tx[s] EXCEPT !.at = "commit",
                     !.add = {r \in tx[s].ins \X Rule : <<tx[s].zone, r[2]>> \in rules}]
<1>0. /\ tx[s] \in Transaction /\ tx[s].ins \subseteq used
      /\ Progress(tx[s]) /\ Guarded(tx[s]) /\ Holds(tx[s])
      /\ \A o \in Others(s) : Exclusive(tx[s], tx[o])
  BY DEF IInv, TypeOK, TransactionsOK
<1>1. t \in Transaction
  BY ZenonT(60), <1>0 DEF Transaction, IInv, TypeOK, Members
<1>2. Progress(t) /\ Guarded(t)
  BY <1>0 DEF Progress, Guarded, CloneRules, Idle, Transaction, IInv, TablesOK, NoDangling
<1>3. Holds(t)
  BY <1>0 DEF Holds, Progress, CloneRules, Transaction, IInv
<1>4. \A o \in Others(s) : Exclusive(t, tx[o])
  BY <1>0 DEF Exclusive, CloneRules, Progress, Transaction, IInv
<1>5. used' \subseteq Zone /\ used \subseteq used' /\ t.ins \subseteq used'
  BY <1>0 DEF CloneRules, IInv, TypeOK, Transaction
<1> QED
  BY ZenonT(60), <1>1, <1>2, <1>3, <1>4, <1>5, StatementStep DEF CloneRules

\* The old default is unset under its row lock.
LEMMA SetDefaultUnsetStep ==
  ASSUME IInv, NEW s \in Session, SetDefaultUnset(s)
  PROVE  IInv'
<1> DEFINE t == [tx[s] EXCEPT !.at = "default_set",
                     !.locked = tx[s].found \cap zones,
                     !.unset = tx[s].found \cap defaults]
<1>0. /\ tx[s] \in Transaction /\ tx[s].ins \subseteq used
      /\ Progress(tx[s]) /\ Guarded(tx[s]) /\ Holds(tx[s])
      /\ \A o \in Others(s) : Exclusive(tx[s], tx[o])
  BY DEF IInv, TypeOK, TransactionsOK
<1>1. t \in Transaction
  BY ZenonT(60), <1>0 DEF Transaction, IInv, TypeOK, Members
<1>2. Progress(t) /\ Guarded(t)
  BY <1>0 DEF Progress, Guarded, SetDefaultUnset, Idle, Transaction, IInv, TablesOK, NoDangling
<1>3. Holds(t)
  BY <1>0 DEF Holds, Progress, SetDefaultUnset, Transaction, TablesOK, NoDangling, IInv
<1>4. \A o \in Others(s) : Exclusive(t, tx[o])
  BY <1>0 DEF Exclusive, SetDefaultUnset, Writable, Progress, Transaction, IInv
<1>5. used' \subseteq Zone /\ used \subseteq used' /\ t.ins \subseteq used'
  BY <1>0 DEF SetDefaultUnset, IInv, TypeOK, Transaction
<1> QED
  BY ZenonT(60), <1>1, <1>2, <1>3, <1>4, <1>5, StatementStep DEF SetDefaultUnset

\* The assignment rows deleted are those of the new default zone.
LEMMA SetDefaultClearStep ==
  ASSUME IInv, NEW s \in Session, SetDefaultClear(s)
  PROVE  IInv'
<1> DEFINE t == [tx[s] EXCEPT !.at = "commit", !.rows = Members(tx[s].zone)]
<1>0. /\ tx[s] \in Transaction /\ tx[s].ins \subseteq used
      /\ Progress(tx[s]) /\ Guarded(tx[s]) /\ Holds(tx[s])
      /\ \A o \in Others(s) : Exclusive(tx[s], tx[o])
  BY DEF IInv, TypeOK, TransactionsOK
<1>1. t \in Transaction
  BY ZenonT(60), <1>0 DEF Transaction, IInv, TypeOK, Members
<1>2. Progress(t) /\ Guarded(t)
  BY SMTT(60), <1>0 DEF Progress, Guarded, SetDefaultClear, Idle, Transaction, IInv, TablesOK, NoDangling
<1>3. Holds(t)
  BY <1>0 DEF Holds, Progress, SetDefaultClear, Transaction, Members, Guarded, IInv
<1>4. \A o \in Others(s) : Exclusive(t, tx[o])
  BY <1>0 DEF Exclusive, SetDefaultClear, RowFree, Members, Progress, Transaction, IInv
<1>5. used' \subseteq Zone /\ used \subseteq used' /\ t.ins \subseteq used'
  BY SMTT(60), <1>0 DEF SetDefaultClear, IInv, TypeOK, Transaction
<1> QED
  BY ZenonT(60), <1>1, <1>2, <1>3, <1>4, <1>5, StatementStep DEF SetDefaultClear

\* Assign to the default zone deletes the workspace's own row.
LEMMA AssignDeleteStep ==
  ASSUME IInv, NEW s \in Session, AssignDelete(s)
  PROVE  IInv'
<1> DEFINE t == [tx[s] EXCEPT !.at = "commit",
                     !.rows = {w \in tx[s].ws : assigned[w] # NoZone}]
<1>0. /\ tx[s] \in Transaction /\ tx[s].ins \subseteq used
      /\ Progress(tx[s]) /\ Guarded(tx[s]) /\ Holds(tx[s])
      /\ \A o \in Others(s) : Exclusive(tx[s], tx[o])
  BY DEF IInv, TypeOK, TransactionsOK
<1>1. t \in Transaction
  BY ZenonT(60), <1>0 DEF Transaction, IInv, TypeOK, Members
<1>2. Progress(t) /\ Guarded(t)
  BY <1>0 DEF Progress, Guarded, AssignDelete, Idle, Transaction, IInv, TablesOK, NoDangling
<1>3. Holds(t)
  BY SMTT(60), <1>0 DEF Holds, Progress, AssignDelete, Transaction, IInv
<1>4. \A o \in Others(s) : Exclusive(t, tx[o])
  BY <1>0 DEF Exclusive, AssignDelete, RowFree, Progress, Transaction, IInv
<1>5. used' \subseteq Zone /\ used \subseteq used' /\ t.ins \subseteq used'
  BY <1>0 DEF AssignDelete, IInv, TypeOK, Transaction
<1> QED
  BY ZenonT(60), <1>1, <1>2, <1>3, <1>4, <1>5, StatementStep DEF AssignDelete

\* A zone row is deleted when nobody holds it or refers to it.
LEMMA DeleteZoneRowStep ==
  ASSUME IInv, NEW s \in Session, DeleteZoneRow(s)
  PROVE  IInv'
<1>0. /\ tx[s] \in Transaction /\ tx[s].ins \subseteq used
      /\ Progress(tx[s]) /\ Guarded(tx[s]) /\ Holds(tx[s])
      /\ \A o \in Others(s) : Exclusive(tx[s], tx[o])
  BY DEF IInv, TypeOK, TransactionsOK
<1>1. CASE Step(s, [tx[s] EXCEPT !.at = "commit"])
  <2> DEFINE t == [tx[s] EXCEPT !.at = "commit"]
  <2>1. t \in Transaction
    BY ZenonT(60), <1>0, <1>1 DEF Transaction, IInv, TypeOK
  <2>2. Progress(t) /\ Guarded(t)
    BY SMTT(60), <1>0, <1>1 DEF Progress, Guarded, DeleteZoneRow, Transaction
  <2>3. Holds(t)
    BY SMTT(60), <1>0, <1>1 DEF Holds, Progress, DeleteZoneRow, Transaction
  <2>4. \A o \in Others(s) : Exclusive(t, tx[o])
    BY <1>0, <1>1 DEF Exclusive, Progress, DeleteZoneRow, Transaction
  <2>5. used' \subseteq Zone /\ used \subseteq used' /\ t.ins \subseteq used'
    BY <1>0 DEF DeleteZoneRow, IInv, TypeOK, Transaction
  <2> QED
    BY ZenonT(60), <1>1, <2>1, <2>2, <2>3, <2>4, <2>5, StatementStep DEF DeleteZoneRow
<1>2. CASE /\ tx[s].zone \in zones
           /\ Members(tx[s].zone) = {}
           /\ Step(s, [tx[s] EXCEPT !.at = "commit", !.del = {tx[s].zone},
                                   !.drop = RulesOf(tx[s].zone)])
  <2> DEFINE t == [tx[s] EXCEPT !.at = "commit", !.del = {tx[s].zone},
                        !.drop = RulesOf(tx[s].zone)]
  <2>1. t \in Transaction
    <3>1. tx[s].zone \in Zone /\ RulesOf(tx[s].zone) \in SUBSET (Zone \X Rule)
      BY <1>2 DEF IInv, TypeOK, RulesOf
    <3> QED
      BY ZenonT(60), <1>0, <3>1 DEF Transaction
  <2>2. Progress(t) /\ Guarded(t)
    BY SMTT(60), <1>0, <1>2 DEF Progress, Guarded, DeleteZoneRow, Transaction
  <2>3. Holds(t)
    BY SMTT(60), <1>0, <1>2 DEF Holds, Progress, DeleteZoneRow, Transaction, Members, RulesOf
  <2>4. \A o \in Others(s) : Exclusive(t, tx[o])
    BY SMTT(60), <1>0, <1>2 DEF Exclusive, Progress, DeleteZoneRow, Transaction, Deletable, Writable
  <2>5. used' \subseteq Zone /\ used \subseteq used' /\ t.ins \subseteq used'
    BY <1>0 DEF DeleteZoneRow, IInv, TypeOK, Transaction
  <2> QED
    BY ZenonT(60), <1>2, <2>1, <2>2, <2>3, <2>4, <2>5, StatementStep DEF DeleteZoneRow
<1> QED
  BY <1>1, <1>2, RollbackStep DEF DeleteZoneRow

\* A zone becomes the default when no other default is left.
LEMMA SetDefaultSetStep ==
  ASSUME IInv, NEW s \in Session, SetDefaultSet(s)
  PROVE  IInv'
<1>0. /\ tx[s] \in Transaction /\ tx[s].ins \subseteq used
      /\ Progress(tx[s]) /\ Guarded(tx[s]) /\ Holds(tx[s])
      /\ \A o \in Others(s) : Exclusive(tx[s], tx[o])
  BY DEF IInv, TypeOK, TransactionsOK
<1>1. CASE /\ tx[s].zone \in zones
           /\ IndexSettled(s, tx[s].zone)
           /\ OtherDefaults(s, tx[s].zone) = {}
           /\ Step(s, [tx[s] EXCEPT !.at = "default_clear",
                                   !.locked = tx[s].locked \cup {tx[s].zone},
                                   !.set = {tx[s].zone}])
  <2> DEFINE t == [tx[s] EXCEPT !.at = "default_clear",
                        !.locked = tx[s].locked \cup {tx[s].zone},
                        !.set = {tx[s].zone}]
  <2>1. t \in Transaction
    <3>1. tx[s].zone \in Zone
      BY <1>1 DEF IInv, TypeOK, RulesOf
    <3> QED
      BY ZenonT(60), <1>0, <3>1 DEF Transaction
  <2>2. Progress(t) /\ Guarded(t)
    BY SMTT(60), <1>0, <1>1 DEF Progress, Guarded, SetDefaultSet, Transaction
  <2>3. Holds(t)
    BY SMTT(60), <1>0, <1>1 DEF Holds, Progress, SetDefaultSet, Transaction, OtherDefaults
  <2>4. \A o \in Others(s) : Exclusive(t, tx[o])
    BY <1>0, <1>1 DEF Exclusive, Progress, SetDefaultSet, Transaction, Writable, IndexSettled
  <2>5. used' \subseteq Zone /\ used \subseteq used' /\ t.ins \subseteq used'
    BY <1>0 DEF SetDefaultSet, IInv, TypeOK, Transaction
  <2> QED
    BY ZenonT(60), <1>1, <2>1, <2>2, <2>3, <2>4, <2>5, StatementStep DEF SetDefaultSet
<1> QED
  BY <1>1, RollbackStep DEF SetDefaultSet

\* An assignment holds the zone it refers to.
LEMMA AssignPutStep ==
  ASSUME IInv, NEW s \in Session, AssignPut(s)
  PROVE  IInv'
<1>0. /\ tx[s] \in Transaction /\ tx[s].ins \subseteq used
      /\ Progress(tx[s]) /\ Guarded(tx[s]) /\ Holds(tx[s])
      /\ \A o \in Others(s) : Exclusive(tx[s], tx[o])
  BY DEF IInv, TypeOK, TransactionsOK
<1>1. CASE /\ tx[s].zone \in zones
           /\ Step(s, [tx[s] EXCEPT !.at = "commit", !.shared = {tx[s].zone},
                                   !.rows = tx[s].ws, !.dest = tx[s].zone])
  <2> DEFINE t == [tx[s] EXCEPT !.at = "commit", !.shared = {tx[s].zone},
                        !.rows = tx[s].ws, !.dest = tx[s].zone]
  <2>1. t \in Transaction
    <3>1. tx[s].zone \in Zone
      BY <1>1 DEF IInv, TypeOK, RulesOf
    <3> QED
      BY ZenonT(60), <1>0, <3>1 DEF Transaction
  <2>2. Progress(t) /\ Guarded(t)
    BY SMTT(60), <1>0, <1>1 DEF Progress, Guarded, AssignPut, Transaction
  <2>3. Holds(t)
    BY SMTT(60), <1>0, <1>1 DEF Holds, Progress, AssignPut, Transaction
  <2>4. \A o \in Others(s) : Exclusive(t, tx[o])
    BY <1>0, <1>1 DEF Exclusive, Progress, AssignPut, Transaction, Shareable, RowFree
  <2>5. used' \subseteq Zone /\ used \subseteq used' /\ t.ins \subseteq used'
    BY SMTT(60), <1>0 DEF AssignPut, IInv, TypeOK, Transaction
  <2> QED
    BY ZenonT(60), <1>1, <2>1, <2>2, <2>3, <2>4, <2>5, StatementStep DEF AssignPut
<1> QED
  BY <1>1, RollbackStep DEF AssignPut

\* A COMMIT keeps the tables in order, and what it writes disturbs nothing that
\* the locks of the other transactions promise them.
LEMMA CommitStep ==
  ASSUME IInv, NEW s \in Session, Commit(s)
  PROVE  IInv'
<1> DEFINE c == tx[s]
<1>0. /\ c \in Transaction /\ c.ins \subseteq used
      /\ Progress(c) /\ Guarded(c) /\ Holds(c)
      /\ \A o \in Others(s) : Exclusive(c, tx[o])
  BY DEF IInv, TypeOK, TransactionsOK
<1>1. /\ tx' \in [Session -> Transaction] /\ tx'[s] = Idle
      /\ \A o \in Others(s) : tx'[o] = tx[o]
  BY SMTT(60), IdleOK DEF IInv, TypeOK, Commit, Step, Others
<1>2. TypeOK'
  BY <1>0, <1>1 DEF IInv, TypeOK, Commit, Transaction
<1>3. TablesOK'
  <2>1. zones' \subseteq used'
    BY SMTT(60), <1>0 DEF IInv, TablesOK, Commit
  <2>2. \A y, z \in defaults' : y = z
    BY SMTT(60), <1>0 DEF IInv, TablesOK, Commit, Guarded, Holds
  <2>3. defaults' \subseteq zones'
    BY SMTT(60), <1>0 DEF IInv, TablesOK, NoDangling, Commit, Guarded, Holds
  <2>4. ASSUME NEW w \in Workspace, assigned'[w] # NoZone
        PROVE  assigned'[w] \in zones'
    BY SMTT(60), <1>0, <2>4 DEF IInv, TablesOK, NoDangling, Commit, Guarded, Holds
  <2>5. ASSUME NEW r \in rules' PROVE r[1] \in zones'
    BY SMTT(60), <1>0, <2>5 DEF IInv, TablesOK, NoDangling, Commit, Guarded, Holds
  <2> QED
    BY SMTT(60), <2>1, <2>2, <2>3, <2>4, <2>5 DEF TablesOK, NoDangling
<1>4. ASSUME NEW o \in Others(s) PROVE Holds(tx[o])'
  <2> DEFINE u == tx[o]
  <2>0. u' = u /\ u \in Transaction /\ Holds(u) /\ Exclusive(c, u)
    BY SMTT(60), <1>0, <1>1 DEF IInv, TypeOK, TransactionsOK, Others
  <2> HIDE DEF c, u
  <2>a. assigned' = [w \in Workspace |-> IF w \in c.rows THEN c.dest ELSE assigned[w]]
    BY ZenonT(60) DEF Commit, c
  <2>1. u.locked \cup u.shared \cup u.del \subseteq zones'
    BY <1>0, <2>0, SMTT(60) DEF Commit, Holds, Exclusive, c
  <2>2. u.ins \cap zones' = {}
    BY <1>0, <2>0, SMTT(60) DEF Commit, Holds, Exclusive, c
  <2>3. u.set # {} => defaults' \ u.unset \subseteq u.set
    BY <1>0, <2>0, SMTT(60) DEF Commit, Holds, Exclusive, c
  <2>4. \A w \in u.rows \ u.ws : u.dest = NoZone /\ u.set = {assigned'[w]}
    <3>1. u.rows \subseteq Workspace /\ u.rows \cap c.rows = {}
      BY <2>0, SMTT(60) DEF Exclusive, Transaction
    <3>2. \A w \in u.rows : assigned'[w] = assigned[w]
      BY <2>a, <3>1, SMTT(60)
    <3> QED
      BY <2>0, <3>2, ZenonT(60) DEF Holds
  <2>5. \A w \in Workspace : assigned'[w] \notin u.del
    <3>1. /\ u.del \subseteq Zone /\ u.del \cap c.shared = {}
          /\ \A w \in Workspace : assigned[w] \notin u.del
      BY <2>0, SMTT(60) DEF Exclusive, Transaction, Holds
    <3>2. c.dest # NoZone => c.dest \in c.shared
      BY <1>0, ZenonT(60) DEF Guarded
    <3> QED
      BY <2>a, <3>1, <3>2, ZoneAssumption, SMTT(60)
  <2>6. \A r \in rules' : r[1] \in u.del => r \in u.drop
    BY <1>0, <2>0, ZenonT(60) DEF Commit, Holds, Exclusive, Guarded, c
  <2> QED
    BY <2>0, <2>1, <2>2, <2>3, <2>4, <2>5, <2>6, SMTT(60) DEF Holds, u
<1>5. \A o \in Session : Holds(tx[o])'
  BY ZenonT(60), <1>1, <1>4, IdleOK DEF Others, Holds
<1>6. \A o \in Session : Progress(tx'[o]) /\ Guarded(tx'[o]) /\ tx'[o].ins \subseteq used'
  BY <1>1, IdleOK DEF IInv, TransactionsOK, Others, Commit
<1>7. \A o \in Session : \A p \in Others(o) : Exclusive(tx'[o], tx'[p])
  BY <1>1, IdleOK, ExclusiveSymmetric DEF IInv, TransactionsOK, Others
<1>8. \A o \in Session : Progress(tx[o])' /\ Guarded(tx[o])'
  BY ZenonT(60), <1>6 DEF Progress, Guarded
<1>9. \A o \in Session : \A p \in Others(o) : Exclusive(tx[o], tx[p])'
  BY ZenonT(60), <1>7 DEF Exclusive
<1>10. TransactionsOK'
  BY ZenonT(60), <1>5, <1>6, <1>8, <1>9 DEF TransactionsOK, Others
<1> QED
  BY <1>2, <1>3, <1>10 DEF IInv

\* Seed adds a zone only when there is none.
LEMMA RestartStep ==
  ASSUME IInv, Restart
  PROVE  IInv'
<1>1. \A s \in Session : tx'[s] = Idle
  BY SMTT(60) DEF Restart
<1>2. TypeOK'
  BY IdleOK DEF IInv, TypeOK, Restart
<1>3. TablesOK'
  <2>1. CASE UNCHANGED Tables
    BY <2>1 DEF IInv, TablesOK, NoDangling
  <2>2. CASE /\ zones = {}
             /\ \E z \in Zone \ used :
                  /\ zones' = {z}
                  /\ defaults' = {z}
                  /\ rules' = {z} \X SeedRule
                  /\ used' = used \cup {z}
             /\ UNCHANGED assigned
    BY SMTT(60), <2>2 DEF IInv, TablesOK, NoDangling
  <2> QED
    BY SMTT(60), <2>1, <2>2 DEF Restart
<1>4. TransactionsOK'
  BY SMTT(60), <1>1, IdleOK DEF TransactionsOK, Others, Progress, Guarded, Holds, Exclusive
<1> QED
  BY <1>2, <1>3, <1>4 DEF IInv

\* Every statement of a session preserves the invariant.
LEMMA SessionStepInv ==
  ASSUME IInv, NEW s \in Session, SessionStep(s)
  PROVE  IInv'
<1>1. CASE \E z \in Zone : \/ CreateZone(s, z) \/ RenameZone(s, z)
                           \/ DeleteZone(s, z) \/ SetDefaultZone(s, z)
  BY <1>1, CreateZoneStep, RenameZoneStep, DeleteZoneStep, SetDefaultZoneStep
<1>2. CASE \E src, z \in Zone : CloneZone(s, src, z)
  BY <1>2, CloneZoneStep
<1>3. CASE \E z \in Zone, r \in Rule : AddZoneRule(s, z, r) \/ DeleteRule(s, z, r)
  BY <1>3, AddZoneRuleStep, DeleteRuleStep
<1>4. CASE \E w \in Workspace, z \in Zone : Assign(s, w, z)
  BY <1>4, AssignStep
<1>5. CASE CloneRules(s) \/ DeleteZoneRow(s)
  BY <1>5, CloneRulesStep, DeleteZoneRowStep
<1>6. CASE SetDefaultUnset(s) \/ SetDefaultSet(s) \/ SetDefaultClear(s)
  BY <1>6, SetDefaultUnsetStep, SetDefaultSetStep, SetDefaultClearStep
<1>7. CASE AssignDelete(s) \/ AssignPut(s)
  BY <1>7, AssignDeleteStep, AssignPutStep
<1>8. CASE Commit(s)
  BY <1>8, CommitStep
<1>9. CASE Abort(s)
  BY <1>9, RollbackStep DEF Abort
<1> QED
  BY SMTT(60), <1>1, <1>2, <1>3, <1>4, <1>5, <1>6, <1>7, <1>8, <1>9 DEF SessionStep

\* The seeded database satisfies the invariant.
LEMMA InitInv == Init => IInv
<1> SUFFICES ASSUME Init PROVE IInv
  OBVIOUS
<1>1. TypeOK
  BY IdleOK DEF Init, TypeOK
<1>2. TransactionsOK
  BY IdleOK DEF Init, TransactionsOK, Others
<1>3. TablesOK
  BY DEF Init, TablesOK, NoDangling
<1> QED
  BY <1>1, <1>2, <1>3 DEF IInv

\* So does every stuttering step.
LEMMA StutterStep ==
  ASSUME IInv, UNCHANGED vars
  PROVE  IInv'
<1>1. /\ zones' = zones /\ defaults' = defaults /\ assigned' = assigned
      /\ rules' = rules /\ used' = used /\ tx' = tx
  BY DEF vars
<1>2. TypeOK' /\ TablesOK'
  BY SMTT(60), <1>1 DEF IInv, TypeOK, TablesOK, NoDangling
<1>3. ASSUME NEW s \in Session
      PROVE  /\ Progress(tx[s])' /\ Guarded(tx[s])' /\ Holds(tx[s])'
             /\ (tx[s].ins \subseteq used)'
             /\ \A o \in Others(s) : Exclusive(tx[s], tx[o])'
  <2>1. Progress(tx[s])' /\ Guarded(tx[s])'
    BY ZenonT(60), <1>1 DEF IInv, TransactionsOK, Progress, Guarded
  <2>2. Holds(tx[s])'
    <3>1. Holds(tx[s])
      BY ZenonT(60) DEF IInv, TransactionsOK
    <3> QED
      BY SMTT(60), <1>1, <3>1 DEF Holds
  <2>3. (tx[s].ins \subseteq used)'
    BY SMTT(60), <1>1 DEF IInv, TransactionsOK
  <2>4. \A o \in Others(s) : Exclusive(tx[s], tx[o])'
    BY SMTT(60), <1>1 DEF IInv, TransactionsOK, Exclusive
  <2> QED
    BY SMTT(60), <2>1, <2>2, <2>3, <2>4
<1>4. TransactionsOK'
  BY <1>3 DEF TransactionsOK, Others
<1> QED
  BY <1>2, <1>4 DEF IInv

\* The inductive invariant holds throughout.
THEOREM Inductive == Spec => []IInv
<1>1. IInv /\ [Next]_vars => IInv'
  BY SessionStepInv, RestartStep, StutterStep DEF Next
<1> QED
  BY InitInv, <1>1, PTL DEF Spec

\* The tables and the open transactions keep their types.
THEOREM TypeCorrect == Spec => []TypeOK
<1>1. IInv => TypeOK
  BY DEF IInv
<1> QED
  BY Inductive, <1>1, PTL

\* For any number of sessions, zones and workspaces there is never more than
\* one default zone.
THEOREM OneDefault == Spec => []AtMostOneDefault
<1>1. IInv => AtMostOneDefault
  <2> SUFFICES ASSUME \A y, z \in defaults : y = z
               PROVE  Cardinality(defaults) <= 1
    BY DEF IInv, TablesOK, AtMostOneDefault
  <2>1. CASE defaults = {}
    BY <2>1, FS_EmptySet
  <2>2. ASSUME NEW z \in defaults PROVE Cardinality(defaults) <= 1
    <3>1. defaults = {z}
      OBVIOUS
    <3>2. Cardinality({z}) = 1
      BY ZenonT(60), FS_Singleton
    <3> QED
      BY <3>1, <3>2
  <2> QED
    BY <2>1, <2>2
<1> QED
  BY Inductive, <1>1, PTL

\* No assignment, rule or default mark outlives its zone.
THEOREM NothingDangles == Spec => []NoDangling
<1>1. IInv => NoDangling
  BY DEF IInv, TablesOK
<1> QED
  BY Inductive, <1>1, PTL

\* A statement that is not a COMMIT leaves the tables alone.
LEMMA OnlyCommitWrites ==
  ASSUME NEW s \in Session, SessionStep(s)
  PROVE  Commit(s) \/ UNCHANGED <<zones, defaults, assigned, rules>>
  BY ZenonT(60) DEF SessionStep, CreateZone, RenameZone, DeleteZone, SetDefaultZone, CloneZone,
         AddZoneRule, DeleteRule, Assign, CloneRules, DeleteZoneRow, SetDefaultUnset,
         SetDefaultSet, SetDefaultClear, AssignDelete, AssignPut, Abort

\* Only a DELETE of the default zone leaves the system without one: a
\* SetDefaultZone that has cleared the old mark cannot commit without setting
\* the new one.
THEOREM DefaultSurvives == Spec => DefaultLostOnlyByDelete
<1> DEFINE Kept == defaults # {} /\ defaults' = {} => defaults \cap zones' = {}
<1>1. ASSUME IInv, [Next]_vars PROVE Kept \/ UNCHANGED vars
  <2>1. ASSUME NEW s \in Session, Commit(s) PROVE Kept
    <3>1. Progress(tx[s]) /\ Guarded(tx[s])
      BY <1>1 DEF IInv, TransactionsOK
    <3> QED
      BY SMTT(60), <2>1, <3>1 DEF Commit, Progress, Guarded
  <2>2. CASE Restart
    BY <1>1, <2>2 DEF Restart, IInv, TablesOK, NoDangling
  <2>3. ASSUME NEW s \in Session, SessionStep(s), ~Commit(s) PROVE Kept
    BY <2>3, OnlyCommitWrites
  <2> QED
    BY SMTT(60), <1>1, <2>1, <2>2, <2>3 DEF Next
<1>2. IInv /\ [Next]_vars => [Kept]_vars
  BY <1>1
<1> QED
  BY Inductive, <1>2, PTL DEF Spec, DefaultLostOnlyByDelete

\* Nothing but an Assign of the workspace moves an explicitly assigned one.
THEOREM MembersStay == Spec => ExplicitMembersStay
<1> DEFINE Moved(w) == assigned[w] # NoZone /\ ZoneOf(w)' # ZoneOf(w)
           ByAssign(w) == \E s \in Session : /\ tx[s].at = "commit"
                                             /\ w \in tx[s].ws
                                             /\ tx'[s] = Idle
           Kept == \A w \in Workspace : Moved(w) => ByAssign(w)
<1>1. ASSUME IInv, [Next]_vars PROVE Kept \/ UNCHANGED vars
  <2>1. ASSUME NEW s \in Session, Commit(s) PROVE Kept
    <3>0. tx[s] \in Transaction /\ Progress(tx[s]) /\ Guarded(tx[s]) /\ Holds(tx[s])
      BY SMTT(60), <1>1 DEF IInv, TypeOK, TransactionsOK
    <3>1. tx[s].at = "commit" /\ tx'[s] = Idle
      BY SMTT(60), <1>1, <2>1 DEF Commit, Step, IInv, TypeOK
    <3>2. SUFFICES ASSUME NEW w \in Workspace, assigned[w] # NoZone, w \notin tx[s].ws
                   PROVE  ZoneOf(w)' = ZoneOf(w)
      BY SMTT(60), <3>1
    <3>3. CASE w \notin tx[s].rows
      BY <2>1, <3>2, <3>3 DEF Commit, ZoneOf
    <3>4. CASE w \in tx[s].rows
      <4>1. tx[s].dest = NoZone /\ tx[s].set = {assigned[w]}
        BY SMTT(60), <3>0, <3>2, <3>4 DEF Holds
      <4>2. assigned'[w] = NoZone
        BY SMTT(60), <2>1, <3>4, <4>1 DEF Commit
      <4>3. defaults' = {assigned[w]}
        BY SMTT(60), <2>1, <3>0, <3>4, <4>1 DEF Commit, Guarded, Holds
      <4> QED
        BY SMTT(60), <3>2, <4>2, <4>3 DEF ZoneOf
    <3> QED
      BY SMTT(60), <3>3, <3>4
  <2>2. CASE Restart
    BY <2>2 DEF Restart, ZoneOf
  <2>3. ASSUME NEW s \in Session, SessionStep(s), ~Commit(s) PROVE Kept
    BY SMTT(60), <2>3, OnlyCommitWrites DEF ZoneOf
  <2> QED
    BY <1>1, <2>1, <2>2, <2>3 DEF Next
<1>2. IInv /\ [Next]_vars => [Kept]_vars
  BY <1>1
<1> QED
  BY Inductive, <1>2, PTL DEF Spec, ExplicitMembersStay

=============================================================================

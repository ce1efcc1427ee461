--------------------------- MODULE ReconcileProofs ---------------------------
(***************************************************************************)
(* Proofs about the reconcile loop, for any values of the bounds.          *)
(*                                                                         *)
(* IInv is inductive.  Its heart is ReadIsFresh: an input that a rebuild   *)
(* has read either is still current or its change is announced, because    *)
(* the announcements are cleared only before the first read.  The other    *)
(* conjuncts order the copies of the inputs: Envoy and Cilium have nothing *)
(* newer than the snapshot cache, and a rebuild reads nothing older.       *)
(*                                                                         *)
(* SMT drops the type of a flag that is set to FALSE; those steps are      *)
(* Zenon's.                                                                *)
(***************************************************************************)
EXTENDS Reconcile, TLAPS

USE ReconcileAssumption
    DEF Version, Source, Table, Stage, Failure, NoError, Zero,
        inputs, admin, outside, bounds, UseChange, UseFailure, UseCrash

\* The loop's first state satisfies the inductive invariant.
LEMMA InitInv == Init => IInv
<1> SUFFICES ASSUME Init PROVE IInv
  OBVIOUS
<1>1. /\ due \in BOOLEAN /\ silent \in BOOLEAN /\ changed \in BOOLEAN
      /\ whole \in BOOLEAN /\ connected \in BOOLEAN
  BY Zenon DEF Init
<1>2. TypeOK
  BY <1>1 DEF Init, TypeOK
<1>3. ReadIsFresh /\ StageOK /\ NoLostWakeup
  BY DEF Init, ReadIsFresh, StageOK, NoLostWakeup, Announced, Done
<1>4. NothingFromTheFuture /\ CacheLeads
  BY DEF Init, NothingFromTheFuture, CacheLeads, Below, Done
<1> QED
  BY <1>2, <1>3, <1>4 DEF IInv

\* Every action keeps the types.
LEMMA TypeStep == TypeOK /\ [Next]_vars => TypeOK'
<1> SUFFICES ASSUME TypeOK, [Next]_vars PROVE TypeOK'
  OBVIOUS
<1>1. ASSUME NEW ts \in WriteSet, StoreCommit(ts) PROVE TypeOK'
  BY <1>1 DEF TypeOK, StoreCommit, Bump
<1>2. ASSUME NEW ts \in WriteSet, StoreCommitUnseen(ts) PROVE TypeOK'
  BY <1>2 DEF TypeOK, StoreCommitUnseen, Bump
<1>3. CASE GrantLapses
  BY <1>3 DEF TypeOK, GrantLapses, Bump
<1>4. CASE PodChanges
  BY <1>4 DEF TypeOK, PodChanges
<1>5. CASE InformerSync
  BY <1>5 DEF TypeOK, InformerSync
<1>6. CASE Notify \/ InformerResync
  <2>1. CASE Notify
    BY <2>1 DEF TypeOK, Notify
  <2>2. CASE InformerResync
    <3>1. changed' \in BOOLEAN
      BY <2>2, ZenonT(60) DEF InformerResync
    <3> QED
      BY <2>2, <3>1, SMTT(60) DEF TypeOK, InformerResync
  <2> QED
    BY <1>6, <2>1, <2>2
<1>7. CASE Wake
  <2>1. changed' \in BOOLEAN
    BY <1>7, Zenon DEF Wake
  <2> QED
    BY <1>7, <2>1 DEF TypeOK, Wake
<1>8. CASE Drain
  <2>1. changed' \in BOOLEAN /\ silent' \in BOOLEAN
    BY <1>8, Zenon DEF Drain
  <2> QED
    BY <1>8, <2>1 DEF TypeOK, Drain
<1>9. CASE Resync
  <2>1. silent' \in BOOLEAN
    BY <1>9, Zenon DEF Resync
  <2> QED
    BY <1>9, <2>1 DEF TypeOK, Resync
<1>10. CASE Expiry
  <2>1. due' \in BOOLEAN
    BY <1>10, Zenon DEF Expiry
  <2> QED
    BY <1>10, <2>1 DEF TypeOK, Expiry
<1>11. CASE ExpiryUnseen
  <2>1. due' \in BOOLEAN
    BY <1>11, Zenon DEF ExpiryUnseen
  <2> QED
    BY <1>11, <2>1 DEF TypeOK, ExpiryUnseen
<1>12. CASE Push
  BY <1>12 DEF TypeOK, Push, NextVersion
<1>13. CASE ApplyCilium
  BY <1>13 DEF TypeOK, ApplyCilium
<1>14. CASE FailLoad \/ FailBuild
  BY <1>14 DEF TypeOK, FailLoad, FailBuild
<1>15. CASE FailPush
  BY <1>15 DEF TypeOK, FailPush, NextVersion
<1>16. CASE FailCilium
  <2>1. whole' \in BOOLEAN
    BY <1>16, Zenon DEF FailCilium
  <2> QED
    BY <1>16, <2>1 DEF TypeOK, FailCilium
<1>17. CASE Report
  BY <1>17 DEF TypeOK, Report
<1>18. CASE ReportLost
  BY <1>18 DEF TypeOK, ReportLost
<1>19. CASE Crash
  <2>1. silent' \in BOOLEAN /\ changed' \in BOOLEAN /\ connected' \in BOOLEAN
    BY <1>19, Zenon DEF Crash
  <2>2. whole' \in BOOLEAN /\ cilium' \in Version \cup {Nothing}
    BY <1>19, ZenonT(60) DEF TypeOK, Crash
  <2> QED
    BY <1>19, <2>1, <2>2 DEF TypeOK, Crash
<1>20. CASE Start
  BY <1>20 DEF TypeOK, Start
<1>21. CASE EnvoyConnect
  BY <1>21 DEF TypeOK, EnvoyConnect
<1>22. CASE EnvoyReceive
  BY <1>22 DEF TypeOK, EnvoyReceive
<1>23. CASE EnvoyRestart
  <2>1. connected' \in BOOLEAN
    BY <1>23, Zenon DEF EnvoyRestart
  <2> QED
    BY <1>23, <2>1 DEF TypeOK, EnvoyRestart
<1>24. ASSUME NEW t \in Source, Read(t) PROVE TypeOK'
  BY <1>24 DEF TypeOK, Read, After
<1>25. CASE UNCHANGED vars
  BY SMTT(60), <1>25 DEF TypeOK, vars
<1> QED
  BY <1>1, <1>2, <1>3, <1>4, <1>5, <1>6, <1>7, <1>8, <1>9, <1>10, <1>11, <1>12, <1>13, <1>14, <1>15, <1>16, <1>17, <1>18, <1>19, <1>20, <1>21, <1>22, <1>23, <1>24, <1>25 DEF Next

\* No step makes a read stale without announcing another rebuild.
LEMMA FreshStep ==
  ASSUME TypeOK, TypeOK', ReadIsFresh, [Next]_vars
  PROVE  ReadIsFresh'
<1> USE DEF TypeOK, ReadIsFresh, Announced, Done
<1>1. ASSUME NEW ts \in WriteSet, StoreCommit(ts) \/ StoreCommitUnseen(ts)
     PROVE  ReadIsFresh'
  BY <1>1 DEF StoreCommit, StoreCommitUnseen, Bump, WriteSet
<1>2. CASE GrantLapses
  BY <1>2 DEF GrantLapses, Bump
<1>3. CASE InformerSync
  BY <1>3 DEF InformerSync
<1>4. CASE Notify \/ InformerResync
  BY <1>4 DEF Notify, InformerResync
<1>5. CASE Wake \/ Drain \/ Resync
  BY <1>5 DEF Wake, Drain, Resync
<1>6. CASE Expiry \/ ExpiryUnseen
  BY <1>6 DEF Expiry, ExpiryUnseen
<1>7. ASSUME NEW t \in Source, Read(t)
     PROVE  ReadIsFresh'
  BY <1>7 DEF Read, After
<1>8. CASE Push
  BY <1>8 DEF Push, NextVersion
<1>9. CASE ApplyCilium \/ FailLoad \/ FailBuild \/ FailPush \/ FailCilium
  BY <1>9 DEF ApplyCilium, FailLoad, FailBuild, FailPush, NextVersion, FailCilium
<1>10. CASE Report \/ ReportLost
  BY <1>10 DEF Report, ReportLost
<1>11. CASE Crash \/ Start
  BY <1>11 DEF Crash, Start
<1>12. CASE PodChanges \/ EnvoyConnect \/ EnvoyReceive \/ EnvoyRestart
  BY <1>12 DEF PodChanges, EnvoyConnect, EnvoyReceive, EnvoyRestart
<1>13. CASE UNCHANGED vars
  BY SMTT(60), <1>13 DEF vars
<1> HIDE DEF TypeOK, ReadIsFresh, Announced, Done
<1> QED
  BY <1>1, <1>2, <1>3, <1>4, <1>5, <1>6, <1>7, <1>8, <1>9, <1>10, <1>11, <1>12, <1>13 DEF Next

\* Versions only grow, so what was read or enforced stays below them.
LEMMA FutureStep ==
  ASSUME TypeOK, TypeOK', NothingFromTheFuture, StageOK, [Next]_vars
  PROVE  NothingFromTheFuture'
<1> USE DEF TypeOK, NothingFromTheFuture, StageOK, Done, Below
<1>1. ASSUME NEW ts \in WriteSet, StoreCommit(ts)
     PROVE  NothingFromTheFuture'
  BY SMTT(60), <1>1 DEF StoreCommit, Bump, WriteSet
<1>2. ASSUME NEW ts \in WriteSet, StoreCommitUnseen(ts)
     PROVE  NothingFromTheFuture'
  BY <1>2 DEF StoreCommitUnseen, Bump, WriteSet
<1>3. CASE GrantLapses
  BY <1>3 DEF GrantLapses, Bump
<1>4. CASE PodChanges
  BY <1>4 DEF PodChanges
<1>5. CASE InformerSync
  BY <1>5 DEF InformerSync
<1>6. CASE Notify \/ InformerResync \/ Expiry \/ ExpiryUnseen
  BY <1>6 DEF Notify, InformerResync, Expiry, ExpiryUnseen
<1>7. CASE Wake \/ Drain \/ Resync
  BY SMTT(60), <1>7 DEF Wake, Drain, Resync
<1>8. ASSUME NEW t \in Source, Read(t)
     PROVE  NothingFromTheFuture'
  BY <1>8 DEF Read, After
<1>9. CASE Push
  BY <1>9 DEF Push, NextVersion
<1>10. CASE ApplyCilium
  BY SMTT(60), <1>10 DEF ApplyCilium
<1>11. CASE FailLoad \/ FailBuild \/ FailPush
  BY <1>11 DEF FailLoad, FailBuild, FailPush, NextVersion
<1>12. CASE FailCilium
  BY SMTT(60), <1>12 DEF FailCilium
<1>13. CASE Report \/ ReportLost
  BY <1>13 DEF Report, ReportLost
<1>14. CASE Crash
  BY <1>14 DEF Crash
<1>15. CASE Start
  BY SMTT(60), <1>15 DEF Start
<1>16. CASE EnvoyConnect
  BY SMTT(30), <1>16 DEF EnvoyConnect
<1>17. CASE EnvoyReceive
  BY SMTT(60), <1>17 DEF EnvoyReceive
<1>18. CASE EnvoyRestart
  BY SMTT(60), <1>18 DEF EnvoyRestart
<1>19. CASE UNCHANGED vars
  BY SMTT(60), <1>19 DEF vars
<1> HIDE DEF TypeOK, NothingFromTheFuture, StageOK, Done, Below
<1> QED
  BY ZenonT(60), <1>1, <1>2, <1>3, <1>4, <1>5, <1>6, <1>7, <1>8, <1>9, <1>10, <1>11, <1>12, <1>13, <1>14, <1>15, <1>16, <1>17, <1>18, <1>19 DEF Next

\* A new snapshot is no older than what Cilium and Envoy have, and they take
\* nothing but the snapshot.
LEMMA CacheStep ==
  ASSUME TypeOK, TypeOK', NothingFromTheFuture, CacheLeads, StageOK, [Next]_vars
  PROVE  CacheLeads'
<1> USE DEF TypeOK, NothingFromTheFuture, CacheLeads, StageOK, Done, Below
<1>1. ASSUME NEW ts \in WriteSet, StoreCommit(ts) \/ StoreCommitUnseen(ts)
     PROVE  CacheLeads'
  BY SMTT(60), <1>1 DEF StoreCommit, StoreCommitUnseen, Bump, WriteSet
<1>2. CASE GrantLapses \/ PodChanges \/ InformerSync \/ InformerResync \/ Notify
  BY SMTT(60), <1>2 DEF GrantLapses, Bump, PodChanges, InformerSync, InformerResync, Notify
<1>3. CASE Wake \/ Drain \/ Resync \/ Expiry \/ ExpiryUnseen
  BY SMTT(60), <1>3 DEF Wake, Drain, Resync, Expiry, ExpiryUnseen
<1>4. ASSUME NEW t \in Source, Read(t)
     PROVE  CacheLeads'
  BY SMTT(60), <1>4 DEF Read, After
<1>5. CASE Push
  BY SMTT(60), <1>5 DEF Push, NextVersion
<1>6. CASE ApplyCilium
  BY SMTT(60), <1>6 DEF ApplyCilium
<1>7. CASE FailLoad \/ FailBuild \/ FailPush
  BY <1>7 DEF FailLoad, FailBuild, FailPush, NextVersion
<1>8. CASE FailCilium
  BY SMTT(60), <1>8 DEF FailCilium
<1>9. CASE Report \/ ReportLost
  BY SMTT(60), <1>9 DEF Report, ReportLost
<1>10. CASE Crash
  BY SMTT(60), <1>10 DEF Crash
<1>11. CASE Start
  BY SMTT(60), <1>11 DEF Start
<1>12. CASE EnvoyConnect
  BY SMTT(60), <1>12 DEF EnvoyConnect
<1>13. CASE EnvoyReceive
  BY SMTT(60), <1>13 DEF EnvoyReceive
<1>14. CASE EnvoyRestart
  BY SMTT(60), <1>14 DEF EnvoyRestart
<1>15. CASE UNCHANGED vars
  BY SMTT(60), <1>15 DEF vars
<1> HIDE DEF TypeOK, NothingFromTheFuture, CacheLeads, StageOK, Done, Below
<1> QED
  BY SMTT(60), <1>1, <1>2, <1>3, <1>4, <1>5, <1>6, <1>7, <1>8, <1>9, <1>10, <1>11, <1>12, <1>13, <1>14, <1>15 DEF Next

\* Cilium is given what was pushed, and only errors are reported.
LEMMA StageStep ==
  ASSUME TypeOK, TypeOK', StageOK, [Next]_vars
  PROVE  StageOK'
<1> USE DEF TypeOK, StageOK
<1>1. ASSUME NEW ts \in WriteSet, StoreCommit(ts) \/ StoreCommitUnseen(ts)
     PROVE  StageOK'
  BY SMTT(60), <1>1 DEF StoreCommit, StoreCommitUnseen, Bump, WriteSet
<1>2. CASE GrantLapses \/ PodChanges \/ InformerSync \/ InformerResync \/ Notify
  BY SMTT(60), <1>2 DEF GrantLapses, Bump, PodChanges, InformerSync, InformerResync, Notify
<1>3. CASE Wake \/ Drain \/ Resync \/ Expiry \/ ExpiryUnseen
  BY SMTT(60), <1>3 DEF Wake, Drain, Resync, Expiry, ExpiryUnseen
<1>4. ASSUME NEW t \in Source, Read(t)
     PROVE  StageOK'
  BY <1>4 DEF Read, After
<1>5. CASE Push
  BY SMTT(60), <1>5 DEF Push, NextVersion
<1>6. CASE ApplyCilium \/ FailLoad \/ FailBuild \/ FailPush \/ FailCilium
  BY <1>6 DEF ApplyCilium, FailLoad, FailBuild, FailPush, NextVersion, FailCilium
<1>7. CASE Report \/ ReportLost
  BY <1>7 DEF Report, ReportLost
<1>8. CASE Crash \/ Start
  BY SMTT(60), <1>8 DEF Crash, Start
<1>9. CASE EnvoyConnect \/ EnvoyReceive \/ EnvoyRestart
  BY <1>9 DEF EnvoyConnect, EnvoyReceive, EnvoyRestart
<1>10. CASE UNCHANGED vars
  BY SMTT(60), <1>10 DEF vars
<1> HIDE DEF TypeOK, StageOK
<1> QED
  BY SMTT(60), <1>1, <1>2, <1>3, <1>4, <1>5, <1>6, <1>7, <1>8, <1>9, <1>10 DEF Next

\* The loop comes to rest only with the current inputs applied.
LEMMA WakeupStep ==
  ASSUME TypeOK, TypeOK', ReadIsFresh, StageOK, NoLostWakeup, [Next]_vars
  PROVE  NoLostWakeup'
<1> USE DEF TypeOK, ReadIsFresh, StageOK, NoLostWakeup, Announced, Done
<1>1. ASSUME NEW ts \in WriteSet, StoreCommit(ts) \/ StoreCommitUnseen(ts)
     PROVE  NoLostWakeup'
  BY SMTT(60), <1>1 DEF StoreCommit, StoreCommitUnseen, Bump, WriteSet
<1>2. CASE GrantLapses
  BY SMTT(60), <1>2 DEF GrantLapses, Bump
<1>3. CASE PodChanges
  BY SMTT(60), <1>3 DEF PodChanges
<1>4. CASE InformerSync
  BY SMTT(60), <1>4 DEF InformerSync
<1>5. CASE Notify \/ InformerResync
  BY SMTT(60), <1>5 DEF Notify, InformerResync
<1>6. CASE Wake \/ Drain \/ Resync
  BY SMTT(60), <1>6 DEF Wake, Drain, Resync
<1>7. CASE Expiry \/ ExpiryUnseen
  BY SMTT(60), <1>7 DEF Expiry, ExpiryUnseen
<1>8. ASSUME NEW t \in Source, Read(t)
     PROVE  NoLostWakeup'
  BY SMTT(60), <1>8 DEF Read, After
<1>9. CASE Push
  BY SMTT(60), <1>9 DEF Push, NextVersion
<1>10. CASE ApplyCilium
  BY SMTT(60), <1>10 DEF ApplyCilium
<1>11. CASE FailLoad \/ FailBuild \/ FailPush \/ FailCilium
  BY SMTT(60), <1>11 DEF FailLoad, FailBuild, FailPush, NextVersion, FailCilium
<1>12. CASE Report \/ ReportLost
  BY SMTT(60), <1>12 DEF Report, ReportLost
<1>13. CASE Crash \/ Start
  BY SMTT(60), <1>13 DEF Crash, Start
<1>14. CASE EnvoyConnect \/ EnvoyReceive \/ EnvoyRestart
  BY SMTT(60), <1>14 DEF EnvoyConnect, EnvoyReceive, EnvoyRestart
<1>15. CASE UNCHANGED vars
  BY <1>15 DEF vars
<1> HIDE DEF TypeOK, ReadIsFresh, StageOK, NoLostWakeup, Announced, Done
<1> QED
  BY SMTT(60), <1>1, <1>2, <1>3, <1>4, <1>5, <1>6, <1>7, <1>8, <1>9, <1>10, <1>11, <1>12, <1>13, <1>14, <1>15 DEF Next

\* The inductive invariant holds throughout.
THEOREM Inductive == Spec => []IInv
<1>1. IInv /\ [Next]_vars => IInv'
  <2> SUFFICES ASSUME IInv, [Next]_vars PROVE IInv'
    OBVIOUS
  <2>1. TypeOK'
    BY TypeStep DEF IInv
  <2>2. ReadIsFresh'
    BY <2>1, FreshStep DEF IInv
  <2>3. NothingFromTheFuture'
    BY <2>1, FutureStep DEF IInv
  <2>4. CacheLeads'
    BY <2>1, CacheStep DEF IInv
  <2>5. StageOK'
    BY <2>1, StageStep DEF IInv
  <2>6. NoLostWakeup'
    BY <2>1, WakeupStep DEF IInv
  <2> QED
    BY <2>1, <2>2, <2>3, <2>4, <2>5, <2>6 DEF IInv
<1> QED
  BY InitInv, <1>1, PTL DEF Spec

\* The state of the loop, of Envoy and of Cilium keeps its types.
THEOREM TypeCorrect == Spec => []TypeOK
<1>1. IInv => TypeOK
  BY DEF IInv
<1> QED
  BY Inductive, <1>1, PTL

\* However commits, pod events, lapses, failures and crashes interleave with
\* the rebuilds of the select loop, no change is left out of the policy while
\* nothing announces it.
THEOREM NoWakeupIsLost == Spec => []NoLostWakeup
<1>1. IInv => NoLostWakeup
  BY DEF IInv
<1> QED
  BY Inductive, <1>1, PTL

\* No Cilium policy stems from inputs newer than Envoy's snapshot (apply pushes
\* Envoy first).
THEOREM EnvoyIsFirst == Spec => []EnvoyFirst
<1>1. IInv => EnvoyFirst
  BY SMTT(60) DEF IInv, CacheLeads, Below, EnvoyFirst, AtMost
<1> QED
  BY Inductive, <1>1, PTL

\* A step of the loop changes the inputs, lets Envoy go forward, clears it, or
\* is invisible to Enforcement.
LEMMA EnforcementStep ==
  ASSUME IInv, IInv', [Next]_vars
  PROVE  [Abstract!Next]_<<current, envoy>>
<1> USE DEF Abstract!Next, Abstract!Change, Abstract!Enforce, Abstract!Clear,
            Abstract!Version
<1>1. current' \in Version /\ envoy' \in Version \cup {Nothing}
  BY SMTT(60) DEF IInv, TypeOK
<1>2. ASSUME NEW ts \in WriteSet, StoreCommit(ts) \/ StoreCommitUnseen(ts)
      PROVE  Abstract!Next
  BY SMTT(60), <1>1, <1>2 DEF IInv, TypeOK, StoreCommit, StoreCommitUnseen, Bump
<1>3. CASE GrantLapses
  BY SMTT(60), <1>1, <1>3 DEF IInv, TypeOK, GrantLapses, Bump
<1>4. CASE InformerSync \/ Start
  BY SMTT(60), <1>1, <1>4 DEF IInv, TypeOK, NothingFromTheFuture, InformerSync, Start
<1>5. CASE EnvoyReceive
  BY <1>1, <1>5 DEF IInv, TypeOK, NothingFromTheFuture, CacheLeads, Below, EnvoyReceive
<1>6. CASE EnvoyRestart
  BY SMTT(60), <1>6 DEF EnvoyRestart
<1>7. CASE \/ PodChanges \/ Notify \/ InformerResync \/ Wake \/ Drain \/ Resync
           \/ Expiry \/ ExpiryUnseen \/ (\E t \in Source : Read(t)) \/ Push
           \/ ApplyCilium \/ FailLoad \/ FailBuild \/ FailPush \/ FailCilium
           \/ Report \/ ReportLost \/ Crash \/ EnvoyConnect
  BY <1>7 DEF PodChanges, Notify, InformerResync, Wake, Drain, Resync, Expiry, ExpiryUnseen, Read,
              Push, ApplyCilium, FailLoad, FailBuild, FailPush, FailCilium, Report, ReportLost,
              Crash, EnvoyConnect
<1>8. CASE UNCHANGED vars
  BY <1>8 DEF vars
<1> QED
  BY <1>2, <1>3, <1>4, <1>5, <1>6, <1>7, <1>8 DEF Next

\* The loop implements Enforcement: what Envoy enforces of an input never goes
\* back to an older version and is never ahead of the input.
THEOREM Refinement == Spec => ImplementsEnforcement
<1>1. Init => Abstract!Init
  BY DEF Init, Abstract!Init
<1>2. IInv /\ IInv' /\ [Next]_vars => [Abstract!Next]_<<current, envoy>>
  BY EnforcementStep
<1> QED
  BY Inductive, <1>1, <1>2, PTL DEF Spec, ImplementsEnforcement, Abstract!Spec

=============================================================================

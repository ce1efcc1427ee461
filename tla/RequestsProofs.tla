--------------------------- MODULE RequestsProofs ---------------------------
(***************************************************************************)
(* Proofs about requests and grants, for any number of handlers, requests  *)
(* and grants.                                                             *)
(*                                                                         *)
(* IInv is inductive.  The audit counters are exact because a transaction  *)
(* that removes a grant holds its row (Exclusive) and the row is still     *)
(* there when it commits (Holds); likewise the request that a transaction  *)
(* decides is held and still pending.                                      *)
(***************************************************************************)
EXTENDS Requests, TLAPS

USE RequestAssumption DEF tables, Decision, Session

\* Holding rows excludes in both directions.
LEMMA ExclusiveSymmetric ==
  ASSUME NEW t, NEW u, Exclusive(t, u)
  PROVE  Exclusive(u, t)
  BY DEF Exclusive

\* A session without a transaction holds nothing.
LEMMA IdleOK ==
  /\ Idle \in Transaction
  /\ Holds(Idle) /\ Holds(Idle)'
  /\ \A u : Exclusive(Idle, u)
<1>1. Idle \in Transaction
  BY DEF Idle, Transaction
<1>2. Holds(Idle) /\ Holds(Idle)'
  BY DEF Idle, Holds
<1>3. \A u : Exclusive(Idle, u)
  BY DEF Idle, Exclusive
<1> QED
  BY <1>1, <1>2, <1>3

\* When one session's transaction becomes t, the others stay as they are.
LEMMA StepFacts ==
  ASSUME TypeOK, TransactionsOK, NEW s \in Session, NEW t \in Transaction, Step(s, t),
         \A o \in Others(s) : Exclusive(t, tx[o])
  PROVE  /\ tx' \in [Session -> Transaction]
         /\ tx'[s] = t
         /\ \A o \in Others(s) : tx'[o] = tx[o]
         /\ \A o \in Session : \A p \in Others(o) : Exclusive(tx'[o], tx'[p])
<1>1. /\ tx' \in [Session -> Transaction] /\ tx'[s] = t
      /\ \A o \in Others(s) : tx'[o] = tx[o]
  BY DEF TypeOK, Step, Others
<1> QED
  BY <1>1, ExclusiveSymmetric DEF TransactionsOK, Others

\* A statement that does not commit only has to look after its own transaction.
LEMMA StatementStep ==
  ASSUME IInv, NEW s \in Session, NEW t \in Transaction, Step(s, t), UNCHANGED tables,
         Holds(t), \A o \in Others(s) : Exclusive(t, tx[o])
  PROVE  IInv'
<1>1. /\ tx' \in [Session -> Transaction] /\ tx'[s] = t
      /\ \A o \in Others(s) : tx'[o] = tx[o]
      /\ \A o \in Session : \A p \in Others(o) : Exclusive(tx'[o], tx'[p])
  BY ZenonT(60), StepFacts DEF IInv
<1>2. TypeOK'
  BY <1>1 DEF IInv, TypeOK
<1>3. \A o \in Session : Holds(tx'[o])
  BY <1>1 DEF IInv, TransactionsOK, Others
<1>4. TransactionsOK'
  BY <1>1, <1>3 DEF TransactionsOK, Holds, Exclusive, Others
<1>5. GrantsAccounted' /\ DecidedOnce' /\ ApprovalGrantsOnce'
  BY DEF IInv, GrantsAccounted, DecidedOnce, ApprovalGrantsOnce
<1> QED
  BY <1>2, <1>4, <1>5 DEF IInv

\* The end of a transaction leaves the others holding what they held, provided
\* their rows are still as they found them.
LEMMA EndStep ==
  ASSUME TypeOK, TransactionsOK, NEW s \in Session, End(s),
         \A o \in Others(s) : /\ tx[o].held \subseteq grants'
                              /\ tx[o].at = "decide" => status'[tx[o].req] = "pending"
  PROVE  tx' \in [Session -> Transaction] /\ TransactionsOK'
<1>1. /\ tx' \in [Session -> Transaction] /\ tx'[s] = Idle
      /\ \A o \in Others(s) : tx'[o] = tx[o]
      /\ \A o \in Session : \A p \in Others(o) : Exclusive(tx'[o], tx'[p])
  BY ZenonT(60), StepFacts, IdleOK DEF End
<1>2. ASSUME NEW o \in Session PROVE Holds(tx[o])'
  <2>1. CASE o = s
    BY <1>1, <2>1 DEF Holds, Idle
  <2>2. CASE o # s
    <3>1. o \in Others(s) /\ Holds(tx[o])
      BY <2>2 DEF Others, TransactionsOK
    <3>2. tx'[o] = tx[o]
      BY <1>1, <3>1
    <3> QED
      BY <3>1, <3>2 DEF Holds
  <2> QED
    BY <2>1, <2>2
<1> QED
  BY <1>1, <1>2 DEF TransactionsOK, Exclusive, Others

\* The row a statement is about to lock is locked by nobody else.
LEMMA FirstStatements ==
  ASSUME IInv, NEW s \in Handler,
         \/ \E subj \in Subject : FileRequest(s, subj)
         \/ \E r \in RequestId, verdict \in Decision : Decide(s, r, verdict)
         \/ \E g \in GrantId : Revoke(s, g)
  PROVE  IInv'
<1>1. ASSUME NEW subj \in Subject, FileRequest(s, subj) PROVE IInv'
  <2> DEFINE t == [Idle EXCEPT !.at = "file", !.subj = subj]
  <2>1. t \in Transaction /\ Holds(t)
    BY ZenonT(60) DEF Idle, Transaction, Holds
  <2>2. \A o \in Others(s) : Exclusive(t, tx[o])
    BY DEF Idle, Exclusive
  <2> QED
    BY ZenonT(60), <1>1, <2>1, <2>2, StatementStep DEF FileRequest
<1>2. ASSUME NEW r \in RequestId, NEW verdict \in Decision, Decide(s, r, verdict)
      PROVE  IInv'
  <2> DEFINE t == [Idle EXCEPT !.at = "decide", !.req = r, !.verdict = verdict]
  <2>1. t \in Transaction /\ Holds(t)
    BY ZenonT(60), <1>2 DEF Idle, Transaction, Holds, Decide
  <2>2. \A o \in Others(s) : Exclusive(t, tx[o])
    BY ZenonT(60), <1>2 DEF Idle, Exclusive, Decide, RequestFree
  <2> QED
    BY ZenonT(60), <1>2, <2>1, <2>2, StatementStep DEF Decide
<1>3. ASSUME NEW g \in GrantId, Revoke(s, g) PROVE IInv'
  <2> DEFINE t == [Idle EXCEPT !.at = "revoke", !.held = {g}]
  <2>1. t \in Transaction /\ Holds(t)
    BY ZenonT(60), <1>3 DEF Idle, Transaction, Holds, Revoke
  <2>2. \A o \in Others(s) : Exclusive(t, tx[o])
    BY ZenonT(60), <1>3 DEF Idle, Exclusive, Revoke, GrantFree
  <2> QED
    BY ZenonT(60), <1>3, <2>1, <2>2, StatementStep DEF Revoke
<1> QED
  BY <1>1, <1>2, <1>3

\* The expiry loop waits for the rows it found and holds those that remain.
LEMMA ExpireStatements ==
  ASSUME IInv, ExpireGrants \/ ExpireDelete
  PROVE  IInv'
<1>1. CASE ExpireGrants
  <2> DEFINE t == [Idle EXCEPT !.at = "expire", !.found = grants \cap lapsed]
  <2>1. t \in Transaction /\ Holds(t)
    BY ZenonT(60) DEF Idle, Transaction, Holds, IInv, TypeOK
  <2>2. \A o \in Others(Loop) : Exclusive(t, tx[o])
    BY DEF Idle, Exclusive
  <2> QED
    BY <1>1, <2>1, <2>2, StatementStep DEF ExpireGrants
<1>2. CASE ExpireDelete
  <2> DEFINE t == [tx[Loop] EXCEPT !.at = "expired", !.held = tx[Loop].found \cap grants]
  <2>0. tx[Loop] \in Transaction /\ Holds(tx[Loop])
    BY DEF IInv, TypeOK, TransactionsOK
  <2>1. t \in Transaction /\ Holds(t)
    BY ZenonT(60), <1>2, <2>0 DEF Transaction, Holds, ExpireDelete, IInv, TypeOK
  <2>2. \A o \in Others(Loop) : Exclusive(t, tx[o])
    BY <1>2, <2>0 DEF Exclusive, ExpireDelete, GrantFree, Holds, Transaction
  <2> QED
    BY <1>2, <2>1, <2>2, StatementStep DEF ExpireDelete
<1> QED
  BY <1>1, <1>2

\* A request that is filed was filed by nobody before.
LEMMA FileInsertStep ==
  ASSUME IInv, NEW s \in Handler, NEW r \in RequestId, FileInsert(s, r)
  PROVE  IInv'
<1>0. TypeOK /\ TransactionsOK /\ Holds(tx[s]) /\ tx[s] \in Transaction
  BY DEF IInv, TypeOK, TransactionsOK
<1>1. \A o \in Others(s) : /\ tx[o].held \subseteq grants'
                           /\ tx[o].at = "decide" => status'[tx[o].req] = "pending"
  BY <1>0 DEF FileInsert, TransactionsOK, TypeOK, Holds, Others
<1>2. tx' \in [Session -> Transaction] /\ TransactionsOK'
  BY ZenonT(60), <1>0, <1>1, EndStep DEF FileInsert
<1>3. TypeOK'
  BY <1>0, <1>2 DEF FileInsert, TypeOK, Holds
<1>4. GrantsAccounted'
  BY DEF IInv, FileInsert, GrantsAccounted
<1>5. DecidedOnce'
  BY DEF IInv, TypeOK, FileInsert, DecidedOnce
<1>6. ApprovalGrantsOnce'
  BY DEF IInv, TypeOK, FileInsert, ApprovalGrantsOnce
<1> QED
  BY <1>2, <1>3, <1>4, <1>5, <1>6 DEF IInv

\* A denial changes the request it holds, which was pending.
LEMMA DecideDenyStep ==
  ASSUME IInv, NEW s \in Handler, DecideDeny(s)
  PROVE  IInv'
<1>0. /\ TypeOK /\ TransactionsOK /\ tx[s] \in Transaction
      /\ tx[s].req \in RequestId /\ status[tx[s].req] = "pending"
      /\ \A o \in Others(s) : Holds(tx[o]) /\ tx[o].req # tx[s].req
  BY DEF IInv, TypeOK, TransactionsOK, Holds, Exclusive, DecideDeny, Others
<1>1. \A o \in Others(s) : /\ tx[o].held \subseteq grants'
                           /\ tx[o].at = "decide" => status'[tx[o].req] = "pending"
  BY <1>0 DEF DecideDeny, TypeOK, Holds
<1>2. tx' \in [Session -> Transaction] /\ TransactionsOK'
  BY ZenonT(60), <1>0, <1>1, EndStep DEF DecideDeny
<1>3. TypeOK'
  BY <1>0, <1>2 DEF DecideDeny, TypeOK
<1>4. GrantsAccounted'
  BY DEF IInv, DecideDeny, GrantsAccounted
<1>5. DecidedOnce'
  BY <1>0 DEF IInv, TypeOK, DecideDeny, DecidedOnce
<1>6. ApprovalGrantsOnce'
  BY <1>0 DEF IInv, TypeOK, DecideDeny, ApprovalGrantsOnce
<1> QED
  BY <1>2, <1>3, <1>4, <1>5, <1>6 DEF IInv

\* An approval inserts the first grant of a request that was pending.
LEMMA DecideApproveStep ==
  ASSUME IInv, NEW s \in Handler, NEW g \in GrantId, DecideApprove(s, g)
  PROVE  IInv'
<1>0. /\ TypeOK /\ TransactionsOK /\ tx[s] \in Transaction
      /\ tx[s].req \in RequestId /\ status[tx[s].req] = "pending"
      /\ \A o \in Others(s) : Holds(tx[o]) /\ tx[o].req # tx[s].req
  BY DEF IInv, TypeOK, TransactionsOK, Holds, Exclusive, DecideApprove, Others
<1>1. \A o \in Others(s) : /\ tx[o].held \subseteq grants'
                           /\ tx[o].at = "decide" => status'[tx[o].req] = "pending"
  BY <1>0 DEF DecideApprove, InsertGrant, TypeOK, Holds
<1>2. tx' \in [Session -> Transaction] /\ TransactionsOK'
  BY ZenonT(60), <1>0, <1>1, EndStep DEF DecideApprove
<1>3. TypeOK'
  BY <1>0, <1>2 DEF DecideApprove, InsertGrant, TypeOK
<1>4. GrantsAccounted'
  BY <1>0 DEF IInv, TypeOK, DecideApprove, InsertGrant, GrantsAccounted
<1>5. DecidedOnce'
  BY <1>0 DEF IInv, TypeOK, DecideApprove, DecidedOnce
<1>6. ApprovalGrantsOnce'
  BY <1>0 DEF IInv, TypeOK, DecideApprove, InsertGrant, ApprovalGrantsOnce
<1> QED
  BY <1>2, <1>3, <1>4, <1>5, <1>6 DEF IInv

\* A direct grant is nobody's approval.
LEMMA GrantStep ==
  ASSUME IInv, NEW s \in Handler, NEW g \in GrantId, Grant(s, g)
  PROVE  IInv'
<1>1. TypeOK'
  BY DEF IInv, TypeOK, Grant, InsertGrant
<1>2. TransactionsOK'
  BY DEF IInv, TransactionsOK, Grant, InsertGrant, Holds, Exclusive, Others
<1>3. GrantsAccounted'
  BY DEF IInv, TypeOK, Grant, InsertGrant, GrantsAccounted
<1>4. DecidedOnce'
  BY DEF IInv, Grant, DecidedOnce
<1>5. ApprovalGrantsOnce'
  BY DEF IInv, TypeOK, Grant, InsertGrant, ApprovalGrantsOnce
<1> QED
  BY <1>1, <1>2, <1>3, <1>4, <1>5 DEF IInv

\* A revocation or an expiry removes exactly rows that it holds and that are
\* still there, so each is closed once.
LEMMA RemoveStep ==
  ASSUME IInv, NEW s \in Session, RemoveGrants(tx[s].held), End(s),
         UNCHANGED <<status, subject, lapsed, origin, filed, decided, opened>>
  PROVE  IInv'
<1>0. /\ TypeOK /\ TransactionsOK /\ tx[s] \in Transaction /\ tx[s].held \subseteq grants
      /\ \A o \in Others(s) : Holds(tx[o]) /\ tx[s].held \cap tx[o].held = {}
  BY SMTT(60) DEF IInv, TypeOK, TransactionsOK, Holds, Exclusive, Others
<1>1. \A o \in Others(s) : /\ tx[o].held \subseteq grants'
                           /\ tx[o].at = "decide" => status'[tx[o].req] = "pending"
  BY <1>0 DEF RemoveGrants, Holds
<1>2. tx' \in [Session -> Transaction] /\ TransactionsOK'
  BY <1>0, <1>1, EndStep
<1>3. TypeOK'
  BY <1>0, <1>2 DEF RemoveGrants, TypeOK
<1>4. GrantsAccounted'
  BY SMTT(60), <1>0 DEF IInv, TypeOK, RemoveGrants, GrantsAccounted
<1>5. DecidedOnce' /\ ApprovalGrantsOnce'
  BY DEF IInv, DecidedOnce, ApprovalGrantsOnce
<1> QED
  BY SMTT(60), <1>2, <1>3, <1>4, <1>5 DEF IInv

\* Time passes for one grant.
LEMMA LapseStep ==
  ASSUME IInv, NEW g \in GrantId, Lapse(g)
  PROVE  IInv'
<1>1. TypeOK' /\ TransactionsOK'
  BY DEF IInv, TypeOK, TransactionsOK, Lapse, Holds, Exclusive, Others
<1>2. GrantsAccounted' /\ DecidedOnce' /\ ApprovalGrantsOnce'
  BY DEF IInv, Lapse, GrantsAccounted, DecidedOnce, ApprovalGrantsOnce
<1> QED
  BY SMTT(60), <1>1, <1>2 DEF IInv

\* A transaction that rolls back leaves no trace.
LEMMA AbortStep ==
  ASSUME IInv, NEW s \in Session, Abort(s)
  PROVE  IInv'
  BY StatementStep, IdleOK DEF Abort, End

\* The inductive invariant holds throughout.
THEOREM Inductive == Spec => []IInv
<1>1. Init => IInv
  <2> SUFFICES ASSUME Init PROVE IInv
    OBVIOUS
  <2>1. TypeOK
    BY IdleOK DEF Init, TypeOK
  <2>2. TransactionsOK
    BY IdleOK DEF Init, TransactionsOK, Others
  <2>3. GrantsAccounted /\ DecidedOnce /\ ApprovalGrantsOnce
    BY DEF Init, GrantsAccounted, DecidedOnce, ApprovalGrantsOnce
  <2> QED
    BY <2>1, <2>2, <2>3 DEF IInv
<1>2. IInv /\ [Next]_vars => IInv'
  <2> SUFFICES ASSUME IInv, [Next]_vars PROVE IInv'
    OBVIOUS
  <2>1. ASSUME NEW s \in Handler, HandlerStep(s) PROVE IInv'
    <3>1. ASSUME RevokeCommit(s) PROVE IInv'
      BY <3>1, RemoveStep DEF RevokeCommit
    <3> QED
      BY <2>1, <3>1, FirstStatements, FileInsertStep, DecideDenyStep, DecideApproveStep,
         GrantStep DEF HandlerStep
  <2>2. CASE LoopStep
    <3>1. CASE ExpireCommit
      BY <3>1, RemoveStep DEF ExpireCommit
    <3> QED
      BY <2>2, <3>1, ExpireStatements DEF LoopStep
  <2>3. CASE \E g \in GrantId : Lapse(g)
    BY <2>3, LapseStep
  <2>4. CASE \E s \in Session : Abort(s)
    BY SMTT(60), <2>4, AbortStep
  <2>5. CASE UNCHANGED vars
    BY <2>5 DEF vars, IInv, TypeOK, TransactionsOK, Holds, Exclusive, Others,
                GrantsAccounted, DecidedOnce, ApprovalGrantsOnce
  <2> QED
    BY <2>1, <2>2, <2>3, <2>4, <2>5 DEF Next
<1> QED
  BY <1>1, <1>2, PTL DEF Spec

\* The tables and the open transactions keep their types.
THEOREM TypeCorrect == Spec => []TypeOK
<1>1. IInv => TypeOK
  BY DEF IInv
<1> QED
  BY Inductive, <1>1, PTL

\* The audit log opens and closes every grant exactly once.
THEOREM AuditAccountsForGrants == Spec => []GrantsAccounted
<1>1. IInv => GrantsAccounted
  BY DEF IInv
<1> QED
  BY Inductive, <1>1, PTL

\* No request is decided twice.
THEOREM NoDoubleDecision == Spec => []DecidedOnce
<1>1. IInv => DecidedOnce
  BY DEF IInv
<1> QED
  BY Inductive, <1>1, PTL

\* A request has one grant if it is approved and none otherwise.
THEOREM OneGrantPerApproval == Spec => []ApprovalGrantsOnce
<1>1. IInv => ApprovalGrantsOnce
  BY DEF IInv
<1> QED
  BY Inductive, <1>1, PTL

\* Decided requests stay decided and removed grants stay removed: a decision
\* only touches a request that is still pending, an INSERT only a fresh id.
THEOREM NothingComesBack == Spec => NoResurrection
<1> DEFINE Stays ==
      /\ \A r \in RequestId : status[r] \in Decision => status'[r] = status[r]
      /\ \A g \in GrantId :
           origin[g] # None => /\ origin'[g] = origin[g]
                               /\ g \notin grants => g \notin grants'
<1>1. ASSUME IInv, [Next]_vars PROVE Stays \/ UNCHANGED vars
  <2>0. TypeOK /\ \A s \in Session : Holds(tx[s])
    BY SMTT(60), <1>1 DEF IInv, TransactionsOK
  <2>1. ASSUME NEW s \in Handler, HandlerStep(s) PROVE Stays
    <3>1. ASSUME NEW r \in RequestId, FileInsert(s, r) PROVE Stays
      BY <2>0, <3>1 DEF FileInsert, TypeOK
    <3>2. CASE DecideDeny(s)
      BY SMTT(60), <2>0, <3>2 DEF DecideDeny, TypeOK, Holds
    <3>3. ASSUME NEW g \in GrantId, DecideApprove(s, g) PROVE Stays
      BY <2>0, <3>3 DEF DecideApprove, InsertGrant, TypeOK, Holds
    <3>4. ASSUME NEW g \in GrantId, Grant(s, g) PROVE Stays
      BY <2>0, <3>4 DEF Grant, InsertGrant, TypeOK
    <3>5. CASE RevokeCommit(s)
      BY <3>5 DEF RevokeCommit, RemoveGrants
    <3>6. CASE UNCHANGED tables
      BY <3>6
    <3> QED
      BY ZenonT(60), <2>1, <3>1, <3>2, <3>3, <3>4, <3>5, <3>6
         DEF HandlerStep, FileRequest, Decide, Revoke
  <2>2. CASE LoopStep
    BY <2>2 DEF LoopStep, ExpireGrants, ExpireDelete, ExpireCommit, RemoveGrants
  <2>3. CASE \E g \in GrantId : Lapse(g)
    BY <2>3 DEF Lapse
  <2>4. CASE \E s \in Session : Abort(s)
    BY <2>4 DEF Abort
  <2> QED
    BY <1>1, <2>1, <2>2, <2>3, <2>4 DEF Next
<1>2. IInv /\ [Next]_vars => [Stays]_vars
  BY <1>1
<1> QED
  BY Inductive, <1>2, PTL DEF Spec, NoResurrection

=============================================================================

---------------------------- MODULE DenialsProofs ----------------------------
(***************************************************************************)
(* For any number of streams, workspaces and hosts: the denial log's rate  *)
(* limit, the finality of its counters, the bound on the throttle, and how *)
(* far concurrent trims may miss the cap.                                  *)
(***************************************************************************)
EXTENDS Denials, FiniteSetTheorems, TLAPS

\* A stream without a transaction satisfies the invariant.
LEMMA IdleOK ==
  /\ Idle \in Transaction
  /\ Holds(Idle) /\ Holds(Idle)'
  /\ \A u : Exclusive(Idle, u) /\ Exclusive(u, Idle)
<1>1. Idle \in Transaction
  BY SMTT(60) DEF Idle, Transaction
<1>2. Holds(Idle) /\ Holds(Idle)'
  BY ZenonT(60) DEF Idle, Holds
<1>3. \A u : Exclusive(Idle, u) /\ Exclusive(u, Idle)
  BY SMTT(60) DEF Idle, Exclusive
<1> QED
  BY <1>1, <1>2, <1>3

\* A statement that changes no table only has to respect the locks.
LEMMA StatementStep ==
  ASSUME IInv, NEW s \in Stream, NEW t \in Transaction,
         Step(s, t), UNCHANGED table, Holds(t),
         \A o \in Stream \ {s} : Exclusive(t, tx[o])
  PROVE  tx' \in [Stream -> Transaction] /\ TransactionsOK' /\ TableOK'
<1>1. tx' \in [Stream -> Transaction] /\ tx'[s] = t /\ \A o \in Stream \ {s} : tx'[o] = tx[o]
  BY DEF Step, IInv, TypeOK
<1>2. rows' = rows /\ first' = first /\ seen' = seen /\ count' = count
  BY DEF table
<1>3. TableOK'
  BY <1>2 DEF IInv, TableOK, RateLimited
<1>4. \A o \in Stream : Holds(tx[o])'
  BY <1>1, <1>2, SMTT(60) DEF IInv, TransactionsOK, Holds
<1>5. ASSUME NEW o \in Stream, NEW p \in Stream \ {o} PROVE Exclusive(tx'[o], tx'[p])
  <2>1. CASE o = s
    BY <1>1, <2>1
  <2>2. CASE p = s
    BY <1>1, <2>2, SMTT(60) DEF Exclusive
  <2>3. CASE o # s /\ p # s
    BY <1>1, <2>3 DEF IInv, TransactionsOK
  <2> QED
    BY <2>1, <2>2, <2>3
<1>6. TransactionsOK'
  BY <1>4, <1>5 DEF TransactionsOK, Exclusive
<1> QED
  BY <1>1, <1>3, <1>6

\* The throttle's map stays bounded and typed.
LEMMA AllowStep ==
  ASSUME IInv, NEW k \in Key, Allow(k)
  PROVE  last' \in [Key -> Nat \cup {Never}] /\ ThrottleBounded'
<1>1. Mark(k) \in [Key -> Nat \cup {Never}]
  BY DEF IInv, TypeOK, Mark
<1>2. Swept(k) \in [Key -> Nat \cup {Never}] /\ Restarted(k) \in [Key -> Nat \cup {Never}]
  BY <1>1 DEF IInv, TypeOK, Swept, Restarted
<1>3. Tracked(Restarted(k)) = {k}
  BY DEF IInv, TypeOK, Tracked, Restarted, Never
<1>4. Cardinality(Tracked(Restarted(k))) <= MaxTracked
  BY <1>3, FS_Singleton, DenialsAssumption
<1> QED
  BY <1>1, <1>2, <1>4 DEF Allow, ThrottleBounded

\* A denial that the throttle lets through.
LEMMA OnDenialStep ==
  ASSUME IInv, NEW s \in Stream, NEW k \in Key, OnDenial(s, k)
  PROVE  IInv'
<1> DEFINE t == [Idle EXCEPT !.at = "begin", !.key = {k}]
<1>1. t \in Transaction
  BY ZenonT(60) DEF Idle, Transaction
<1>2. Holds(t)
  BY SMTT(60) DEF Idle, Holds
<1>3. \A o \in Stream \ {s} : Exclusive(t, tx[o])
  BY SMTT(60) DEF Idle, Exclusive
<1>4. Step(s, t) /\ UNCHANGED table /\ clock' = clock /\ Allow(k)
  BY DEF OnDenial
<1> HIDE DEF t
<1>5. tx' \in [Stream -> Transaction] /\ TransactionsOK' /\ TableOK'
  BY <1>1, <1>2, <1>3, <1>4, StatementStep
<1> QED
  BY <1>4, <1>5, AllowStep DEF IInv, TypeOK, table

\* A step that leaves the clock, the throttle and the table alone.
LEMMA InnerStep ==
  ASSUME IInv, NEW s \in Stream, NEW t \in Transaction,
         Step(s, t), UNCHANGED <<clock, last, table>>, Holds(t),
         \A o \in Stream \ {s} : Exclusive(t, tx[o])
  PROVE  IInv'
<1>1. tx' \in [Stream -> Transaction] /\ TransactionsOK' /\ TableOK'
  BY StatementStep
<1> QED
  BY <1>1 DEF IInv, TypeOK, table, ThrottleBounded

\* RecordDenial's statements up to COMMIT.
LEMMA StatementsStep ==
  ASSUME IInv, NEW s \in Stream, Begin(s) \/ Upsert(s) \/ Trim(s) \/ Delete(s) \/ Abort(s)
  PROVE  IInv'
<1>0. /\ tx[s] \in Transaction /\ Holds(tx[s])
      /\ \A o \in Stream \ {s} : tx[o] \in Transaction /\ Exclusive(tx[s], tx[o])
      /\ clock \in Nat /\ rows \subseteq Key /\ seen \in [Key -> Nat \cup {Never}]
  BY SMTT(60) DEF IInv, TypeOK, TransactionsOK
<1>1. CASE Begin(s)
  <2> DEFINE t == [tx[s] EXCEPT !.at = "upsert", !.now = clock]
  <2>1. t \in Transaction
    BY <1>0, ZenonT(60) DEF Transaction
  <2>2. Holds(t) /\ \A o \in Stream \ {s} : Exclusive(t, tx[o])
    BY <1>0, <1>1, SMTT(60) DEF Begin, Holds, Exclusive, Transaction
  <2>3. Step(s, t) /\ UNCHANGED <<clock, last, table>>
    BY <1>1 DEF Begin
  <2> HIDE DEF t
  <2> QED
    BY <2>1, <2>2, <2>3, InnerStep
<1>2. CASE Upsert(s)
  <2>0. \A k \in tx[s].key : Free(s, k)
    BY <1>2 DEF Upsert
  <2>1. UNCHANGED <<clock, last, table>>
    BY <1>2 DEF Upsert
  <2>2. ASSUME tx[s].at = "upsert", NEW a \in {"trim", "commit"},
               \A k \in tx[s].key \cap rows : seen[k] < tx[s].now - Second,
               Step(s, [tx[s] EXCEPT !.at = a, !.write = tx[s].key])
        PROVE  IInv'
    <3> DEFINE t == [tx[s] EXCEPT !.at = a, !.write = tx[s].key]
    <3>1. t \in Transaction
      BY <1>0, <2>2, ZenonT(60) DEF Transaction
    <3>2. Holds(t)
      BY <1>0, <2>2, SMTT(60) DEF Holds, Transaction
    <3>3. \A o \in Stream \ {s} : Exclusive(t, tx[o])
      BY <1>0, <2>0, <2>2, SMTT(60) DEF Free, Exclusive, Holds, Transaction
    <3>4. Step(s, t)
      BY <2>2
    <3> HIDE DEF t
    <3> QED
      BY <2>1, <3>1, <3>2, <3>3, <3>4, InnerStep
  <2>3. ASSUME Step(s, Idle) PROVE IInv'
    BY <2>1, <2>3, IdleOK, InnerStep
  <2>4. ASSUME NEW k \in tx[s].key \cap rows, seen[k] < tx[s].now - Second
        PROVE  \A j \in tx[s].key \cap rows : seen[j] < tx[s].now - Second
    BY <1>0, <2>4 DEF Holds
  <2>5. CASE tx[s].key \cap rows = {} /\ Step(s, [tx[s] EXCEPT !.at = "trim", !.write = tx[s].key])
    BY <1>2, <2>2, <2>5 DEF Upsert
  <2>6. CASE /\ \E k \in tx[s].key \cap rows : seen[k] < tx[s].now - Second
             /\ Step(s, [tx[s] EXCEPT !.at = "commit", !.write = tx[s].key])
    BY SMTT(60), <1>2, <2>2, <2>4, <2>6 DEF Upsert
  <2> QED
    BY <1>2, <2>3, <2>5, <2>6 DEF Upsert
<1>3. CASE Trim(s)
  <2> DEFINE t == [tx[s] EXCEPT !.at = "delete", !.found = Excess(s)]
  <2>0. Excess(s) \subseteq Key
    BY <1>0, SMTT(60) DEF Excess, Transaction
  <2>1. t \in Transaction
    BY <1>0, <2>0, ZenonT(60) DEF Transaction
  <2>2. Holds(t) /\ \A o \in Stream \ {s} : Exclusive(t, tx[o])
    BY <1>0, <1>3, SMTT(60) DEF Trim, Holds, Exclusive, Transaction
  <2>3. Step(s, t) /\ UNCHANGED <<clock, last, table>>
    BY <1>3 DEF Trim
  <2> HIDE DEF t
  <2> QED
    BY <2>1, <2>2, <2>3, InnerStep
<1>4. CASE Delete(s)
  <2> DEFINE h == tx[s].found
             t == [tx[s] EXCEPT !.at = "commit", !.held = h]
  <2>0. h \subseteq Key
    BY <1>0, SMTT(60) DEF Transaction
  <2>1. \A o \in Stream \ {s} : h \cap (tx[o].write \cup tx[o].held) = {}
    BY <1>4, SMTT(60) DEF Delete, Free
  <2>2. Step(s, t) /\ UNCHANGED <<clock, last, table>> /\ tx[s].at = "delete"
    BY <1>4 DEF Delete
  <2> HIDE DEF h
  <2>3. t \in Transaction
    BY <1>0, <2>0, ZenonT(60) DEF Transaction
  <2>4. Holds(t) /\ \A o \in Stream \ {s} : Exclusive(t, tx[o])
    BY <1>0, <2>1, <2>2, SMTT(60) DEF Holds, Exclusive, Transaction
  <2> HIDE DEF t
  <2> QED
    BY <2>2, <2>3, <2>4, InnerStep
<1>5. CASE Abort(s)
  BY <1>5, IdleOK, InnerStep DEF Abort
<1> QED
  BY <1>1, <1>2, <1>3, <1>4, <1>5

-----------------------------------------------------------------------------

\* What COMMIT does to a single row.
LEMMA CommitRow ==
  ASSUME IInv, NEW s \in Stream, Commit(s), NEW k \in rows'
  PROVE  /\ k \in Key
         /\ \/ k \notin tx[s].write /\ k \in rows
               /\ first'[k] = first[k] /\ seen'[k] = seen[k] /\ count'[k] = count[k]
            \/ k \in tx[s].write /\ k \in rows /\ seen[k] < tx[s].now - Second
               /\ first'[k] = first[k] /\ seen'[k] = tx[s].now /\ count'[k] = count[k] + 1
            \/ k \in tx[s].write /\ k \notin rows
               /\ first'[k] = tx[s].now /\ seen'[k] = tx[s].now /\ count'[k] = 1
<1>0. tx[s] \in Transaction /\ Holds(tx[s]) /\ rows \subseteq Key
  BY SMTT(60) DEF IInv, TypeOK, TransactionsOK
<1>1. k \in Key /\ k \notin tx[s].held /\ k \in rows \cup tx[s].write
  BY <1>0, SMTT(60) DEF Commit, Transaction
<1>2. k \notin rows => count[k] = 0
  BY <1>1 DEF IInv, TableOK
<1>3. k \in tx[s].write /\ k \in rows => seen[k] < tx[s].now - Second
  BY <1>0 DEF Holds
<1>4. first'[k] = IF k \in tx[s].write /\ k \notin rows THEN tx[s].now ELSE first[k]
  BY <1>1, SMTT(60) DEF Commit
<1>5. seen'[k] = IF k \in tx[s].write THEN tx[s].now ELSE seen[k]
  BY <1>1, SMTT(60) DEF Commit
<1>6. count'[k] = IF k \in tx[s].write THEN count[k] + 1 ELSE count[k]
  BY <1>1, SMTT(60) DEF Commit
<1> QED
  BY <1>1, <1>2, <1>3, <1>4, <1>5, <1>6, SMTT(60)

\* COMMIT keeps the rate limit and everybody else's locks meaningful.
LEMMA CommitStep ==
  ASSUME IInv, NEW s \in Stream, Commit(s)
  PROVE  IInv'
<1> DEFINE c == tx[s]
<1>0. /\ c \in Transaction /\ Holds(c) /\ clock' = clock /\ last' = last
      /\ tx' = [o \in Stream |-> IF o = s THEN Idle
                                 ELSE [tx[o] EXCEPT !.found = @ \ c.held]]
  BY SMTT(60) DEF IInv, TypeOK, TransactionsOK, Commit
<1>a. ASSUME NEW o \in Stream, NEW x \in SUBSET Key
      PROVE  [tx[o] EXCEPT !.found = @ \ x] \in Transaction
  <2>1. tx[o] \in Transaction
    BY DEF IInv, TypeOK
  <2> QED
    BY <2>1, ZenonT(60) DEF Transaction
<1>1. TypeOK'
  <2>1. tx' \in [Stream -> Transaction]
    <3>1. c.held \in SUBSET Key
      BY <1>0, ZenonT(60) DEF Transaction
    <3> QED
      BY ZenonT(60), <1>0, <1>a, <3>1, IdleOK
  <2>2. rows' \subseteq Key
    BY <1>0, SMTT(60) DEF IInv, TypeOK, Commit, Transaction
  <2>3. c.now \in Nat
    BY <1>0 DEF Transaction
  <2>4. /\ first' \in [Key -> Nat \cup {Never}]
        /\ seen' \in [Key -> Nat \cup {Never}]
        /\ count' \in [Key -> Nat]
    BY <2>3, SMTT(60) DEF IInv, TypeOK, Commit
  <2> QED
    BY <1>0, <2>1, <2>2, <2>4 DEF IInv, TypeOK
<1>2. TransactionsOK'
  <2>1. tx'[s] = Idle /\ \A o \in Stream \ {s} : tx'[o] = [tx[o] EXCEPT !.found = @ \ c.held]
    BY <1>0
  <2>a. ASSUME NEW o \in Stream \ {s}
        PROVE  /\ tx[o].key = tx'[o].key /\ tx[o].write = tx'[o].write
               /\ tx[o].held = tx'[o].held /\ tx[o].at = tx'[o].at
               /\ tx[o].now = tx'[o].now
    <3>1. tx[o] \in Transaction
      BY DEF IInv, TypeOK
    <3> DEFINE u == [tx[o] EXCEPT !.found = @ \ c.held]
    <3>2. /\ tx[o].key = u.key /\ tx[o].write = u.write /\ tx[o].held = u.held
          /\ tx[o].at = u.at /\ tx[o].now = u.now
      BY <3>1, SMTT(60) DEF Transaction
    <3>3. tx'[o] = u
      BY <2>1
    <3> HIDE DEF u
    <3> QED
      BY <3>2, <3>3
  <2>2. ASSUME NEW o \in Stream \ {s} PROVE Holds(tx[o])'
    <3>1. Holds(tx[o]) /\ Exclusive(c, tx[o]) /\ tx[o] \in Transaction
      BY SMTT(60) DEF IInv, TypeOK, TransactionsOK
    <3>2. ASSUME NEW k \in tx[o].write \cap rows' PROVE k \in rows /\ seen'[k] = seen[k]
      <4>1. k \notin c.write
        BY <3>1, SMTT(60) DEF Exclusive
      <4> QED
        BY <4>1, CommitRow
    <3> QED
      BY <2>a, <3>1, <3>2, SMTT(60) DEF Holds
  <2>3. \A o \in Stream : Holds(tx[o])'
    BY <2>1, <2>2, IdleOK, ZenonT(60) DEF Holds
  <2>4. \A o \in Stream, p \in Stream : o # p => Exclusive(tx'[o], tx'[p])
    BY <2>1, <2>a, IdleOK, SMTT(60) DEF IInv, TransactionsOK, Exclusive
  <2> QED
    BY <2>3, <2>4 DEF TransactionsOK, Exclusive
<1>3. TableOK'
  <2>1. ASSUME NEW k \in rows'
        PROVE  /\ first'[k] \in Nat /\ seen'[k] \in Nat /\ count'[k] > 0
               /\ seen'[k] >= first'[k] + Second * (count'[k] - 1)
    <3>1. c.now \in Nat /\ Second \in Nat
      BY <1>0, DenialsAssumption DEF Transaction
    <3>2. k \in rows => /\ first[k] \in Nat /\ seen[k] \in Nat
                        /\ count[k] \in Nat /\ count[k] > 0
                        /\ seen[k] >= first[k] + Second * (count[k] - 1)
      BY CommitRow DEF IInv, TypeOK, TableOK, RateLimited
    <3> QED
      BY <3>1, <3>2, CommitRow, SMTT(60)
  <2>2. ASSUME NEW k \in Key \ rows' PROVE count'[k] = 0
    <3>1. k \in c.held \/ (k \notin rows /\ k \notin c.write)
      BY <2>2, SMTT(60) DEF Commit
    <3>2. k \notin rows => count[k] = 0
      BY DEF IInv, TableOK
    <3> QED
      BY <3>1, <3>2, SMTT(60) DEF Commit
  <2> QED
    BY <2>1, <2>2 DEF TableOK, RateLimited
<1> QED
  BY <1>0, <1>1, <1>2, <1>3 DEF IInv, ThrottleBounded

\* The invariant holds at the start.
LEMMA InitInv == Init => IInv
<1> SUFFICES ASSUME Init PROVE IInv
  OBVIOUS
<1>1. TypeOK
  BY IdleOK DEF Init, TypeOK
<1>2. TransactionsOK
  BY IdleOK DEF Init, TransactionsOK
<1>3. TableOK
  BY DEF Init, TableOK, RateLimited
<1>4. Tracked(last) = {}
  BY DEF Init, Tracked
<1>5. ThrottleBounded
  BY <1>4, FS_EmptySet, DenialsAssumption DEF ThrottleBounded
<1> QED
  BY <1>1, <1>2, <1>3, <1>5 DEF IInv

\* A restart forgets the throttle and the open transactions.
LEMMA RestartStep ==
  ASSUME IInv, Restart PROVE IInv'
<1>1. \A s \in Stream : tx'[s] = Idle
  BY DEF Restart
<1>2. rows' = rows /\ first' = first /\ seen' = seen /\ count' = count /\ clock' = clock
  BY DEF Restart, table
<1>3. TypeOK'
  BY <1>2, IdleOK DEF IInv, TypeOK, Restart
<1>4. TransactionsOK'
  BY <1>1, IdleOK, ZenonT(60) DEF TransactionsOK, Holds, Exclusive
<1>5. TableOK'
  BY <1>2 DEF IInv, TableOK, RateLimited
<1>6. Tracked(last') = {}
  BY DEF Restart, Tracked
<1>7. ThrottleBounded'
  BY <1>6, FS_EmptySet, DenialsAssumption DEF ThrottleBounded
<1> QED
  BY <1>3, <1>4, <1>5, <1>7 DEF IInv

\* Time passes, or nothing happens.
LEMMA QuietStep ==
  ASSUME IInv, Tick \/ UNCHANGED vars PROVE IInv'
<1>1. /\ rows' = rows /\ first' = first /\ seen' = seen /\ count' = count
      /\ tx' = tx /\ last' = last /\ clock' \in Nat
  BY DEF Tick, vars, table, IInv, TypeOK
<1>2. TypeOK'
  BY <1>1, SMTT(60) DEF IInv, TypeOK
<1>3. TransactionsOK'
  BY <1>1, SMTT(60) DEF IInv, TransactionsOK, Holds, Exclusive
<1>4. TableOK' /\ ThrottleBounded'
  BY <1>1, SMTT(60) DEF IInv, TableOK, RateLimited, ThrottleBounded
<1> QED
  BY <1>2, <1>3, <1>4 DEF IInv

\* The inductive invariant of the denial log.
THEOREM Inductive == Spec => []IInv
<1>1. IInv /\ [Next]_vars => IInv'
  BY OnDenialStep, StatementsStep, CommitStep, RestartStep, QuietStep DEF Next
<1> QED
  BY InitInv, <1>1, PTL DEF Spec

\* The throttle, the table and the transactions keep their types (TypeOK).
THEOREM TypeCorrect == Spec => []TypeOK
<1>1. IInv => TypeOK
  BY DEF IInv
<1> QED
  BY <1>1, Inductive, PTL

\* RecordDenial counts a key at most once a second (RateLimited).
THEOREM OncePerSecond == Spec => []RateLimited
<1>1. IInv => RateLimited
  BY DEF IInv, TableOK
<1> QED
  BY <1>1, Inductive, PTL

\* throttle.allow keeps its map bounded (ThrottleBounded).
THEOREM BoundedThrottle == Spec => []ThrottleBounded
<1>1. IInv => ThrottleBounded
  BY DEF IInv
<1> QED
  BY <1>1, Inductive, PTL

\* A RecordDenial that commits late never sets a row back (NeverBack).
THEOREM RowsNeverGoBack == Spec => NeverBack
<1> DEFINE Forward == \A k \in rows \cap rows' :
                        seen[k] <= seen'[k] /\ count[k] <= count'[k] /\ first[k] = first'[k]
<1>1. IInv /\ [Next]_vars => [Forward]_vars
  <2> SUFFICES ASSUME IInv, [Next]_vars PROVE Forward
    OBVIOUS
  <2>0. \A k \in rows : seen[k] \in Nat /\ count[k] \in Nat
    BY DEF IInv, TypeOK, TableOK
  <2>1. ASSUME NEW s \in Stream, Commit(s) PROVE Forward
    <3>1. tx[s].now \in Nat /\ Second \in Nat
      BY DenialsAssumption, SMTT(60) DEF IInv, TypeOK, Transaction
    <3> QED
      BY <2>0, <2>1, <3>1, CommitRow, SMTT(60)
  <2>2. CASE UNCHANGED table
    <3>1. rows' = rows /\ first' = first /\ seen' = seen /\ count' = count
      BY <2>2, ZenonT(60) DEF table
    <3> QED
      BY <2>0, <3>1, SMTT(60)
  <2>3. (\E s \in Stream : Commit(s)) \/ UNCHANGED table
    BY ZenonT(60) DEF Next, OnDenial, Begin, Upsert, Trim, Delete, Abort, Restart, Tick, vars, table
  <2> QED
    BY <2>1, <2>2, <2>3
<1> QED
  BY <1>1, Inductive, PTL DEF Spec, NeverBack

-----------------------------------------------------------------------------
(* How far a workspace may exceed the cap *)

\* A set whose elements are all the same one.
LEMMA AtMostOne ==
  ASSUME NEW S, \A j, k \in S : j = k
  PROVE  IsFiniteSet(S) /\ Cardinality(S) <= 1
<1>1. CASE S = {}
  <2>1. IsFiniteSet(S) /\ Cardinality(S) = 0
    BY ZenonT(60), <1>1, FS_EmptySet
  <2> QED BY <2>1
<1>2. CASE S # {}
  <2>1. PICK x \in S : TRUE
    BY <1>2
  <2>a. S = {x}
    BY <2>1
  <2>2. IsFiniteSet(S) /\ Cardinality(S) = 1
    BY ZenonT(60), <2>a, FS_Singleton
  <2> QED BY <2>2
<1> QED
  BY <1>1, <1>2

\* The rows that the DELETE leaves to its workspace are numbered by the rows
\* before them in ORDER BY last_seen DESC, host: there are at most Cap.
LEMMA KeptRows ==
  ASSUME IInv, IsFiniteSet(rows), NEW s \in Stream, NEW w
  PROVE  LET K == {k \in rows \cup tx[s].write : k[1] = w /\ ~ (Cardinality(Before(s, k)) >= Cap)} IN
         IsFiniteSet(K) /\ Cardinality(K) <= Cap
<1> DEFINE V == rows \cup tx[s].write
           A == {k \in V : k[1] = w}
           K == {k \in V : k[1] = w /\ ~ (Cardinality(Before(s, k)) >= Cap)}
           rank == [k \in K |-> Cardinality(Before(s, k))]
<1>1. /\ tx[s] \in Transaction /\ Holds(tx[s]) /\ rows \subseteq Key
      /\ seen \in [Key -> Nat \cup {Never}]
  BY DEF IInv, TypeOK, TransactionsOK
<1>2. V \subseteq Key /\ tx[s].now \in Int
  BY <1>1 DEF Transaction
<1>3. IsFiniteSet(V)
  <2>1. IsFiniteSet(tx[s].write)
    BY <1>1, AtMostOne DEF Holds
  <2> QED
    BY ZenonT(60), <2>1, FS_Union
<1>4. ASSUME NEW k \in V
      PROVE  /\ SeenBy(s, k) \in Int /\ k[2] \in Nat
             /\ Before(s, k) \subseteq V /\ IsFiniteSet(Before(s, k)) /\ Cardinality(Before(s, k)) \in Nat
  <2>1. SeenBy(s, k) \in Int
    BY <1>1, <1>2 DEF SeenBy, Never
  <2>2. k[2] \in Nat
    BY ZenonT(60), <1>2, DenialsAssumption DEF Key
  <2>3. Before(s, k) \subseteq V
    BY DEF Before
  <2>4. IsFiniteSet(Before(s, k))
    BY <1>3, <2>3, FS_Subset
  <2>5. Cardinality(Before(s, k)) \in Nat
    BY <2>4, FS_CardinalityType
  <2> QED
    BY <2>1, <2>2, <2>3, <2>4, <2>5
<1>5. ASSUME NEW j \in A, NEW k \in A, j # k
      PROVE  j \in Before(s, k) \/ k \in Before(s, j)
  <2>1. j[2] # k[2]
    BY <1>2, <1>5 DEF Key
  <2>2. SeenBy(s, j) \in Int /\ SeenBy(s, k) \in Int /\ j[2] \in Nat /\ k[2] \in Nat
    BY <1>4
  <2> QED
    BY <2>1, <2>2 DEF Before
<1>6. ASSUME NEW j \in A, NEW k \in A, j \in Before(s, k)
      PROVE  Cardinality(Before(s, j)) < Cardinality(Before(s, k))
  <2>1. Before(s, j) \subseteq Before(s, k)
    <3> SUFFICES ASSUME NEW i \in Before(s, j) PROVE i \in Before(s, k)
      OBVIOUS
    <3>1. i \in V /\ i[1] = w
      BY DEF Before
    <3>2. /\ SeenBy(s, i) \in Int /\ SeenBy(s, j) \in Int /\ SeenBy(s, k) \in Int
          /\ i[2] \in Nat /\ j[2] \in Nat /\ k[2] \in Nat
      BY <1>4, <3>1
    <3> QED
      BY <1>6, <3>1, <3>2 DEF Before
  <2>2. j \notin Before(s, j)
    <3>1. SeenBy(s, j) \in Int /\ j[2] \in Nat
      BY <1>4
    <3> QED
      BY <3>1 DEF Before
  <2>3. /\ IsFiniteSet(Before(s, k)) /\ Cardinality(Before(s, k)) \in Nat
        /\ Cardinality(Before(s, j)) \in Nat
    BY <1>4
  <2>4. /\ Cardinality(Before(s, j)) <= Cardinality(Before(s, k))
        /\ Cardinality(Before(s, k)) = Cardinality(Before(s, j)) => Before(s, k) = Before(s, j)
    BY ZenonT(60), <2>1, <2>3, FS_Subset
  <2>5. Cardinality(Before(s, k)) # Cardinality(Before(s, j))
    BY <1>6, <2>2, <2>4
  <2> QED
    BY <2>3, <2>4, <2>5
<1>7. \A k \in K : k \in A /\ rank[k] = Cardinality(Before(s, k)) /\ rank[k] \in 0..(Cap - 1)
  BY <1>4, DenialsAssumption
<1>8. ASSUME NEW j \in K, NEW k \in K, rank[j] = rank[k] PROVE j = k
  <2>1. /\ Cardinality(Before(s, j)) \in Nat /\ Cardinality(Before(s, k)) \in Nat
        /\ Cardinality(Before(s, j)) = Cardinality(Before(s, k)) /\ j \in A /\ k \in A
    BY <1>4, <1>7, <1>8
  <2> QED
    BY SMTT(30), <1>5, <1>6, <2>1
<1>9. rank \in Injection(K, 0..(Cap - 1))
  BY ZenonT(60), <1>7, <1>8 DEF Injection, IsInjective
<1>10. IsFiniteSet(0..(Cap - 1)) /\ Cardinality(0..(Cap - 1)) = Cap
  <2>1. 0 \in Int /\ Cap - 1 \in Int /\ Cap \in Nat
    BY DenialsAssumption
  <2>2. /\ IsFiniteSet(0..(Cap - 1))
        /\ Cardinality(0..(Cap - 1)) = IF 0 > Cap - 1 THEN 0 ELSE Cap - 1 - 0 + 1
    BY ZenonT(60), <2>1, FS_Interval
  <2> QED
    BY <2>1, <2>2
<1>11. IsFiniteSet(K) /\ Cardinality(K) <= Cardinality(0..(Cap - 1))
  <2> HIDE DEF K, rank
  <2> QED BY ZenonT(60), <1>9, <1>10, FS_Injection
<1> QED
  BY <1>10, <1>11

\* Each transaction writes at most one row.
LEMMA WrittenRows ==
  ASSUME IInv, NEW Q \in SUBSET Stream
  PROVE  LET U == UNION {tx[o].write : o \in Q} IN
         IsFiniteSet(U) /\ Cardinality(U) <= Cardinality(Q)
<1> DEFINE U == UNION {tx[o].write : o \in Q}
           writer == [k \in U |-> CHOOSE o \in Q : k \in tx[o].write]
<1>1. \A o \in Q : \A j, k \in tx[o].write : j = k
  BY SMTT(60) DEF IInv, TransactionsOK, Holds
<1>2. \A k \in U : writer[k] \in Q /\ k \in tx[writer[k]].write
  BY ZenonT(60)
<1>3. \A j, k \in U : writer[j] = writer[k] => j = k
  BY <1>1, <1>2
<1>4. writer \in Injection(U, Q)
  BY ZenonT(60), <1>2, <1>3 DEF Injection, IsInjective
<1>5. IsFiniteSet(Q)
  BY ZenonT(60), StreamAssumption, FS_Subset
<1> HIDE DEF U, writer
<1>6. IsFiniteSet(U) /\ Cardinality(U) <= Cardinality(Q)
  BY ZenonT(60), <1>4, <1>5, FS_Injection
<1> QED
  BY <1>6 DEF U

\* A transaction that leaves the table alone has to keep the bound for the
\* outcomes in which it commits.
LEMMA OvershootStatement ==
  ASSUME IInv, OvershootInv, NEW s \in Stream, NEW t \in Transaction, Step(s, t),
         rows' = rows, FoundOK(t),
         t.at \in {"delete", "commit"} =>
           \A w \in Ws, Q \in SUBSET (Pending \ {s}) :
             Cardinality({k \in (rows \cup t.write \cup UNION {tx[o].write : o \in Q})
                                  \ (t.found \cup UNION {tx[o].found : o \in Q}) : k[1] = w})
               <= Cap + Cardinality(Stream) - 1
  PROVE  OvershootInv'
<1>1. tx'[s] = t /\ \A o \in Stream \ {s} : tx'[o] = tx[o]
  BY DEF Step, IInv, TypeOK
<1>2. \A o \in Stream : FoundOK(tx[o])'
  BY <1>1 DEF OvershootInv, FoundOK
<1>3. ASSUME NEW w \in Ws, NEW P \in SUBSET Pending'
      PROVE  Cardinality(After(w, P)') <= Cap + Cardinality(Stream) - 1
  <2> DEFINE Q == P \ {s}
  <2>1. Q \subseteq Pending \ {s} /\ P \subseteq Stream
    BY <1>1 DEF Pending
  <2>2. CASE s \notin P
    <3>1. \A o \in P : tx'[o] = tx[o]
      BY <1>1, <2>1, <2>2
    <3>2. After(w, P)' = After(w, P)
      BY <3>1 DEF After
    <3> QED
      BY <2>1, <2>2, <3>2 DEF OvershootInv
  <2>3. CASE s \in P
    <3>1. t.at \in {"delete", "commit"}
      BY <1>1, <2>3 DEF Pending
    <3>2. /\ UNION {tx'[o].write : o \in P} = t.write \cup UNION {tx[o].write : o \in Q}
          /\ UNION {tx'[o].found : o \in P} = t.found \cup UNION {tx[o].found : o \in Q}
      BY <1>1, <2>1, <2>3
    <3>3. After(w, P)' = {k \in (rows \cup t.write \cup UNION {tx[o].write : o \in Q})
                                  \ (t.found \cup UNION {tx[o].found : o \in Q}) : k[1] = w}
      BY <3>2 DEF After
    <3> QED
      BY ZenonT(60), <2>1, <3>1, <3>3
  <2> QED
    BY <2>2, <2>3
<1> QED
  BY <1>2, <1>3 DEF OvershootInv

\* A statement before the trim leaves nothing to commit.
LEMMA OvershootQuiet ==
  ASSUME IInv, OvershootInv, NEW s \in Stream, NEW t \in Transaction, Step(s, t),
         rows' = rows, t.at \notin {"delete", "commit"}, t.found = {}
  PROVE  OvershootInv'
<1>1. FoundOK(t)
  BY DEF FoundOK
<1> QED
  BY ZenonT(60), <1>1, OvershootStatement

\* The snapshot of the DELETE leaves Cap rows; the other transactions that
\* are past their trim add one each.
LEMMA TrimOvershoot ==
  ASSUME IInv, OvershootInv, NEW s \in Stream, Trim(s)
  PROVE  OvershootInv'
<1> DEFINE t == [tx[s] EXCEPT !.at = "delete", !.found = Excess(s)]
<1>1. tx[s] \in Transaction /\ rows \subseteq Key
  BY DEF IInv, TypeOK
<1>2. Excess(s) \subseteq Key
  BY <1>1, SMTT(60) DEF Excess, Transaction
<1>3. t \in Transaction
  BY <1>1, <1>2, ZenonT(60) DEF Transaction
<1>4. t.at = "delete" /\ t.found = Excess(s) /\ t.write = tx[s].write
  BY <1>1 DEF Transaction
<1>5. Step(s, t) /\ rows' = rows
  BY DEF Trim, table
<1>6. ASSUME NEW w \in Ws, NEW Q \in SUBSET (Pending \ {s})
      PROVE  Cardinality({k \in (rows \cup tx[s].write \cup UNION {tx[o].write : o \in Q})
                                  \ (Excess(s) \cup UNION {tx[o].found : o \in Q}) : k[1] = w})
               <= Cap + Cardinality(Stream) - 1
  <2> DEFINE U == UNION {tx[o].write : o \in Q}
             F == UNION {tx[o].found : o \in Q}
             S == {k \in (rows \cup tx[s].write \cup U) \ (Excess(s) \cup F) : k[1] = w}
             K == {k \in rows \cup tx[s].write : k[1] = w /\ ~ (Cardinality(Before(s, k)) >= Cap)}
  <2>1. CASE \E j \in tx[s].write : j[1] = w
    <3>1. S \subseteq K \cup U
      BY <2>1 DEF Excess
    <3>2. IsFiniteSet(K) /\ Cardinality(K) <= Cap
      BY ZenonT(60), KeptRows DEF OvershootInv
    <3>3. Q \subseteq Stream \ {s}
      BY DEF Pending
    <3>4. IsFiniteSet(U) /\ Cardinality(U) <= Cardinality(Q)
      BY ZenonT(60), <3>3, WrittenRows
    <3>5. IsFiniteSet(Stream \ {s}) /\ Cardinality(Stream \ {s}) = Cardinality(Stream) - 1
      BY ZenonT(60), StreamAssumption, FS_RemoveElement
    <3>6. IsFiniteSet(Q) /\ Cardinality(Q) <= Cardinality(Stream \ {s})
      BY ZenonT(60), <3>3, <3>5, FS_Subset
    <3> HIDE DEF U, F, S, K
    <3>7. /\ IsFiniteSet(K \cup U) /\ IsFiniteSet(K \cap U)
          /\ Cardinality(K \cup U) = Cardinality(K) + Cardinality(U) - Cardinality(K \cap U)
      BY ZenonT(60), <3>2, <3>4, FS_Union, FS_Intersection
    <3>8. IsFiniteSet(S) /\ Cardinality(S) <= Cardinality(K \cup U)
      BY ZenonT(60), <3>1, <3>7, FS_Subset
    <3>9. /\ Cardinality(K) \in Nat /\ Cardinality(U) \in Nat /\ Cardinality(K \cap U) \in Nat
          /\ Cardinality(S) \in Nat /\ Cardinality(Q) \in Nat /\ Cardinality(Stream) \in Nat
      BY ZenonT(60), <3>2, <3>4, <3>6, <3>7, <3>8, StreamAssumption, FS_CardinalityType
    <3>10. Cap \in Nat
      BY DenialsAssumption
    <3>11. Cardinality(S) <= Cap + Cardinality(Stream) - 1
      BY <3>2, <3>4, <3>5, <3>6, <3>7, <3>8, <3>9, <3>10
    <3> QED
      BY <3>11 DEF S, U, F
  <2>2. CASE ~ \E j \in tx[s].write : j[1] = w
    <3>1. S = After(w, Q)
      BY <2>2 DEF Excess, After
    <3>2. Q \in SUBSET Pending
      OBVIOUS
    <3>3. Cardinality(After(w, Q)) <= Cap + Cardinality(Stream) - 1
      BY <3>2 DEF OvershootInv
    <3> HIDE DEF S
    <3>4. Cardinality(S) <= Cap + Cardinality(Stream) - 1
      BY ZenonT(60), <3>1, <3>3
    <3> QED
      BY <3>4 DEF S
  <2> QED
    BY <2>1, <2>2
<1>7. FoundOK(t)
  BY <1>4 DEF FoundOK
<1> HIDE DEF t
<1>8. \A w \in Ws, Q \in SUBSET (Pending \ {s}) :
        Cardinality({k \in (rows \cup t.write \cup UNION {tx[o].write : o \in Q})
                             \ (t.found \cup UNION {tx[o].found : o \in Q}) : k[1] = w})
          <= Cap + Cardinality(Stream) - 1
  BY ZenonT(60), <1>4, <1>6
<1> QED
  BY ZenonT(60), <1>3, <1>5, <1>7, <1>8, OvershootStatement

\* The statements other than the trim change no outcome.
LEMMA StatementsOvershoot ==
  ASSUME IInv, OvershootInv, NEW s \in Stream, Begin(s) \/ Upsert(s) \/ Delete(s) \/ Abort(s)
  PROVE  OvershootInv'
<1>0. /\ tx[s] \in Transaction /\ Holds(tx[s]) /\ FoundOK(tx[s]) /\ clock \in Nat
  BY SMTT(60) DEF IInv, TypeOK, TransactionsOK, OvershootInv
<1>a. rows' = rows
  BY ZenonT(60) DEF Begin, Upsert, Delete, Abort, table
<1>b. ASSUME Step(s, Idle) PROVE OvershootInv'
  <2>1. Idle.at = "idle" /\ Idle.found = {}
    BY DEF Idle
  <2>2. Idle.at \notin {"delete", "commit"}
    BY <2>1
  <2> QED
    BY ZenonT(60), <1>a, <1>b, <2>1, <2>2, IdleOK, OvershootQuiet
<1>1. CASE Begin(s)
  <2> DEFINE t == [tx[s] EXCEPT !.at = "upsert", !.now = clock]
  <2>1. t \in Transaction
    BY <1>0, ZenonT(60) DEF Transaction
  <2>2. t.at \notin {"delete", "commit"} /\ t.found = {}
    BY <1>0, <1>1 DEF Begin, FoundOK, Transaction
  <2>3. Step(s, t)
    BY <1>1 DEF Begin
  <2> HIDE DEF t
  <2> QED
    BY ZenonT(60), <1>a, <2>1, <2>2, <2>3, OvershootQuiet
<1>2. CASE Upsert(s)
  <2>0. tx[s].at = "upsert"
    BY <1>2 DEF Upsert
  <2>1. CASE Step(s, [tx[s] EXCEPT !.at = "trim", !.write = tx[s].key])
    <3> DEFINE t == [tx[s] EXCEPT !.at = "trim", !.write = tx[s].key]
    <3>1. t \in Transaction
      BY <1>0, ZenonT(60) DEF Transaction
    <3>2. t.at \notin {"delete", "commit"} /\ t.found = {}
      BY <1>0, <2>0 DEF FoundOK, Transaction
    <3>3. Step(s, t)
      BY <2>1
    <3> HIDE DEF t
    <3> QED
      BY ZenonT(60), <1>a, <3>1, <3>2, <3>3, OvershootQuiet
  <2>2. CASE /\ \E k \in tx[s].key \cap rows : seen[k] < tx[s].now - Second
             /\ Step(s, [tx[s] EXCEPT !.at = "commit", !.write = tx[s].key])
    <3> DEFINE t == [tx[s] EXCEPT !.at = "commit", !.write = tx[s].key]
    <3>1. t \in Transaction
      BY <1>0, ZenonT(60) DEF Transaction
    <3>2. t.write = tx[s].key /\ t.found = {} /\ t.held = {} /\ t.at = "commit"
      BY <1>0, <2>0 DEF FoundOK, Holds, Transaction
    <3>3. Step(s, t)
      BY <2>2
    <3> HIDE DEF t
    <3>4. t.write \subseteq rows
      BY <1>0, <2>2, <3>2 DEF Holds
    <3>5. FoundOK(t)
      BY <3>2 DEF FoundOK
    <3>6. ASSUME NEW w \in Ws, NEW Q \in SUBSET (Pending \ {s})
          PROVE  Cardinality({k \in (rows \cup t.write \cup UNION {tx[o].write : o \in Q})
                                      \ (t.found \cup UNION {tx[o].found : o \in Q}) : k[1] = w})
                   <= Cap + Cardinality(Stream) - 1
      <4> DEFINE S == {k \in (rows \cup t.write \cup UNION {tx[o].write : o \in Q})
                               \ (t.found \cup UNION {tx[o].found : o \in Q}) : k[1] = w}
      <4>1. S = After(w, Q)
        BY <3>2, <3>4 DEF After
      <4>2. Cardinality(After(w, Q)) <= Cap + Cardinality(Stream) - 1
        BY DEF OvershootInv
      <4> QED
        BY ZenonT(60), <4>1, <4>2
    <3> QED
      BY ZenonT(60), <1>a, <3>1, <3>3, <3>5, <3>6, OvershootStatement
  <2> QED
    BY ZenonT(60), <1>2, <1>b, <2>1, <2>2 DEF Upsert
<1>3. CASE Delete(s)
  <2> DEFINE t == [tx[s] EXCEPT !.at = "commit", !.held = tx[s].found]
  <2>1. t \in Transaction
    BY <1>0, ZenonT(60) DEF Transaction
  <2>2. t.write = tx[s].write /\ t.found = tx[s].found /\ t.held = tx[s].found /\ t.at = "commit"
    BY <1>0 DEF Transaction
  <2>3. Step(s, t) /\ tx[s].at = "delete"
    BY <1>3 DEF Delete
  <2> HIDE DEF t
  <2>4. FoundOK(t)
    BY <2>2 DEF FoundOK
  <2>5. ASSUME NEW w \in Ws, NEW Q \in SUBSET (Pending \ {s})
        PROVE  Cardinality({k \in (rows \cup t.write \cup UNION {tx[o].write : o \in Q})
                                    \ (t.found \cup UNION {tx[o].found : o \in Q}) : k[1] = w})
                 <= Cap + Cardinality(Stream) - 1
    <3> DEFINE S == {k \in (rows \cup t.write \cup UNION {tx[o].write : o \in Q})
                             \ (t.found \cup UNION {tx[o].found : o \in Q}) : k[1] = w}
    <3>1. S = After(w, Q \cup {s})
      BY <2>2 DEF After
    <3>2. Q \cup {s} \in SUBSET Pending
      BY <2>3 DEF Pending
    <3>3. Cardinality(After(w, Q \cup {s})) <= Cap + Cardinality(Stream) - 1
      BY <3>2 DEF OvershootInv
    <3> QED
      BY ZenonT(60), <3>1, <3>3
  <2> QED
    BY ZenonT(60), <1>a, <2>1, <2>3, <2>4, <2>5, OvershootStatement
<1>4. CASE Abort(s)
  BY <1>4, <1>b DEF Abort
<1> QED
  BY <1>1, <1>2, <1>3, <1>4

\* COMMIT makes true what was already counted: the table after the commits P
\* from here is the table after the commits P and s from before.
LEMMA CommitOvershoot ==
  ASSUME IInv, OvershootInv, NEW s \in Stream, Commit(s)
  PROVE  OvershootInv'
<1> DEFINE c == tx[s]
<1>1. /\ c \in Transaction /\ Holds(c) /\ c.at = "commit" /\ c.held = c.found
      /\ rows' = (rows \cup c.write) \ c.held
  BY SMTT(60) DEF IInv, TypeOK, TransactionsOK, OvershootInv, FoundOK, Commit
<1>2. tx'[s] = Idle /\ \A o \in Stream \ {s} : tx'[o] = [tx[o] EXCEPT !.found = @ \ c.held]
  BY DEF Commit
<1>3. ASSUME NEW o \in Stream \ {s}
      PROVE  /\ tx'[o].at = tx[o].at /\ tx'[o].write = tx[o].write /\ tx'[o].held = tx[o].held
             /\ tx'[o].found = tx[o].found \ c.held
             /\ tx[o].held \cap c.held = {} /\ tx[o].write \cap c.held = {}
  <2>1. tx[o] \in Transaction /\ Exclusive(c, tx[o])
    BY SMTT(60) DEF IInv, TypeOK, TransactionsOK
  <2>2. tx'[o] = [tx[o] EXCEPT !.found = @ \ c.held]
    BY <1>2
  <2>3. /\ tx'[o].at = tx[o].at /\ tx'[o].write = tx[o].write /\ tx'[o].held = tx[o].held
        /\ tx'[o].found = tx[o].found \ c.held
    BY <2>1, <2>2 DEF Transaction
  <2>4. tx[o].held \cap c.held = {} /\ tx[o].write \cap c.held = {}
    BY <2>1 DEF Exclusive
  <2> QED
    BY <2>3, <2>4
<1>4. Idle.at = "idle" /\ Idle.found = {}
  BY DEF Idle
<1> HIDE DEF c
<1>5. \A o \in Stream : FoundOK(tx[o])'
  <2>1. ASSUME NEW o \in Stream \ {s} PROVE FoundOK(tx[o])'
    <3>1. FoundOK(tx[o])
      BY DEF OvershootInv
    <3>2. tx[o].at \notin {"delete", "commit"} => tx'[o].found = {}
      BY <1>3, <3>1 DEF FoundOK
    <3>3. tx[o].at = "commit" => tx'[o].held = tx'[o].found
      BY ZenonT(60), <1>3, <3>1 DEF FoundOK
    <3> QED
      BY <1>3, <3>2, <3>3 DEF FoundOK
  <2>2. FoundOK(tx[s])'
    BY <1>2, <1>4 DEF FoundOK
  <2> QED
    BY <2>1, <2>2 DEF FoundOK
<1>6. IsFiniteSet(rows')
  <2>1. IsFiniteSet(c.write)
    BY <1>1, AtMostOne DEF Holds
  <2>2. IsFiniteSet(rows)
    BY DEF OvershootInv
  <2>3. IsFiniteSet(rows \cup c.write)
    BY ZenonT(60), <2>1, <2>2, FS_Union
  <2> QED
    BY ZenonT(60), <1>1, <2>3, FS_Difference
<1>7. ASSUME NEW w \in Ws, NEW P \in SUBSET Pending'
      PROVE  Cardinality(After(w, P)') <= Cap + Cardinality(Stream) - 1
  <2>1. P \subseteq Stream \ {s} /\ P \cup {s} \subseteq Pending
    BY <1>1, <1>2, <1>3, <1>4 DEF Pending, c
  <2>2. /\ UNION {tx'[o].write : o \in P} = UNION {tx[o].write : o \in P}
        /\ UNION {tx'[o].found : o \in P} = (UNION {tx[o].found : o \in P}) \ c.held
        /\ (UNION {tx[o].write : o \in P}) \cap c.held = {}
    <3>1. \A o \in P : /\ tx'[o].write = tx[o].write /\ tx'[o].found = tx[o].found \ c.held
                       /\ tx[o].write \cap c.held = {}
      BY <1>3, <2>1
    <3>2. UNION {tx'[o].write : o \in P} = UNION {tx[o].write : o \in P}
      BY ZenonT(60), <3>1
    <3>3. UNION {tx'[o].found : o \in P} = (UNION {tx[o].found : o \in P}) \ c.held
      BY SMTT(60), <3>1
    <3>4. (UNION {tx[o].write : o \in P}) \cap c.held = {}
      BY SMTT(60), <3>1
    <3> QED
      BY ZenonT(60), <3>2, <3>3, <3>4
  <2>3. /\ UNION {tx[o].write : o \in P \cup {s}} = c.write \cup UNION {tx[o].write : o \in P}
        /\ UNION {tx[o].found : o \in P \cup {s}} = c.held \cup UNION {tx[o].found : o \in P}
    BY <1>1 DEF c
  <2>4. After(w, P)' = After(w, P \cup {s})
    <3> DEFINE U == UNION {tx[o].write : o \in P}
               F == UNION {tx[o].found : o \in P}
    <3>1. rows' = (rows \cup c.write) \ c.held /\ U \cap c.held = {}
      BY <1>1, <2>2
    <3>2. After(w, P)' = {k \in (rows' \cup U) \ (F \ c.held) : k[1] = w}
      BY ZenonT(60), <2>2 DEF After
    <3>3. After(w, P \cup {s})
            = {k \in (rows \cup (c.write \cup U)) \ (c.held \cup F) : k[1] = w}
      BY ZenonT(60), <2>3 DEF After
    <3> HIDE DEF U, F
    <3>4. {k \in (rows' \cup U) \ (F \ c.held) : k[1] = w}
            = {k \in (rows \cup (c.write \cup U)) \ (c.held \cup F) : k[1] = w}
      BY <3>1
    <3> QED
      BY ZenonT(60), <3>2, <3>3, <3>4
  <2>5. Cardinality(After(w, P \cup {s})) <= Cap + Cardinality(Stream) - 1
    BY <2>1 DEF OvershootInv
  <2> QED
    BY ZenonT(60), <2>4, <2>5
<1> QED
  BY <1>5, <1>6, <1>7 DEF OvershootInv

\* The steps outside RecordDenial's statements.
LEMMA OuterOvershoot ==
  ASSUME IInv, OvershootInv,
         \/ \E s \in Stream, k \in Key : OnDenial(s, k)
         \/ Restart \/ Tick \/ UNCHANGED vars
  PROVE  OvershootInv'
<1>1. ASSUME NEW s \in Stream, NEW k \in Key, OnDenial(s, k) PROVE OvershootInv'
  <2> DEFINE t == [Idle EXCEPT !.at = "begin", !.key = {k}]
  <2>1. t \in Transaction
    BY ZenonT(60) DEF Idle, Transaction
  <2>2. t.at \notin {"delete", "commit"} /\ t.found = {}
    BY DEF Idle
  <2>3. Step(s, t) /\ rows' = rows
    BY ZenonT(60), <1>1 DEF OnDenial, table
  <2> HIDE DEF t
  <2> QED
    BY ZenonT(60), <2>1, <2>2, <2>3, OvershootQuiet
<1>2. CASE Restart
  <2>1. rows' = rows /\ \A s \in Stream : tx'[s] = Idle
    BY <1>2 DEF Restart, table
  <2>2. Idle.at = "idle" /\ Idle.found = {}
    BY DEF Idle
  <2>3. Pending' = {}
    BY <2>1, <2>2 DEF Pending
  <2>4. \A s \in Stream : FoundOK(tx[s])'
    BY <2>1, <2>2 DEF FoundOK
  <2>5. ASSUME NEW w \in Ws, NEW P \in SUBSET Pending'
        PROVE  Cardinality(After(w, P)') <= Cap + Cardinality(Stream) - 1
    <3>1. P = {} /\ P \in SUBSET Pending
      BY <2>3
    <3>2. After(w, P)' = After(w, P)
      BY <2>1, <3>1 DEF After
    <3> QED
      BY <3>1, <3>2 DEF OvershootInv
  <2> QED
    BY <2>1, <2>4, <2>5 DEF OvershootInv
<1>3. CASE Tick \/ UNCHANGED vars
  <2>1. rows' = rows /\ tx' = tx
    BY <1>3 DEF Tick, vars, table
  <2>2. Pending' = Pending /\ \A w, P : After(w, P)' = After(w, P)
    BY SMTT(30), <2>1 DEF Pending, After
  <2>3. \A s \in Stream : FoundOK(tx[s])'
    BY <2>1 DEF OvershootInv, FoundOK
  <2> QED
    BY <2>1, <2>2, <2>3 DEF OvershootInv
<1> QED
  BY <1>1, <1>2, <1>3

\* No transaction, no row.
LEMMA InitOvershoot == Init => OvershootInv
<1> SUFFICES ASSUME Init PROVE OvershootInv
  OBVIOUS
<1>1. rows = {} /\ \A s \in Stream : tx[s] = Idle
  BY DEF Init
<1>2. Idle.at = "idle" /\ Idle.found = {}
  BY DEF Idle
<1>3. \A s \in Stream : FoundOK(tx[s])
  BY <1>1, <1>2 DEF FoundOK
<1>4. IsFiniteSet({}) /\ Cardinality({}) = 0
  BY ZenonT(60), FS_EmptySet
<1>5. Cardinality(Stream) \in Nat /\ Cardinality(Stream) # 0
  BY ZenonT(60), StreamAssumption, FS_EmptySet, FS_CardinalityType
<1>6. ASSUME NEW w \in Ws, NEW P \in SUBSET Pending
      PROVE  Cardinality(After(w, P)) <= Cap + Cardinality(Stream) - 1
  <2>1. P = {}
    BY <1>1, <1>2 DEF Pending
  <2>2. After(w, P) = {}
    BY <1>1, <2>1 DEF After
  <2>3. Cap \in Nat
    BY DenialsAssumption
  <2> QED
    BY <1>4, <1>5, <2>2, <2>3
<1> QED
  BY <1>1, <1>3, <1>4, <1>6 DEF OvershootInv

\* Concurrent calls of RecordDenial leave a workspace at most one row per other
\* stream above the cap that requests.go promises (OvershootBounded).
THEOREM BoundedOvershoot == Spec => []OvershootBounded
<1>1. IInv /\ OvershootInv /\ [Next]_vars => OvershootInv'
  BY ZenonT(60), StatementsOvershoot, TrimOvershoot, CommitOvershoot, OuterOvershoot DEF Next
<1>2. OvershootInv => OvershootBounded
  <2> SUFFICES ASSUME OvershootInv, NEW w \in Ws
               PROVE  Cardinality(RowsOf(w)) <= Cap + Cardinality(Stream) - 1
    BY DEF OvershootBounded
  <2>1. RowsOf(w) = After(w, {})
    BY DEF RowsOf, After
  <2>2. Cardinality(After(w, {})) <= Cap + Cardinality(Stream) - 1
    BY ZenonT(60) DEF OvershootInv
  <2> QED
    BY ZenonT(60), <2>1, <2>2
<1> QED
  BY InitOvershoot, Inductive, <1>1, <1>2, PTL DEF Spec

=============================================================================

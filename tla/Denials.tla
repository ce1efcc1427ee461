------------------------------- MODULE Denials -------------------------------
(***************************************************************************)
(* The denial log: Envoy's access-log streams call OnDenial concurrently   *)
(* (StreamAccessLogs runs in one goroutine per stream), the in-memory      *)
(* throttle (admin/cmd/sandcastle-admin/main.go) lets one denial per key   *)
(* and second through, and RecordDenial (admin/internal/store/requests.go) *)
(* upserts a row, throttles again and trims the workspace's rows to Cap.   *)
(*                                                                         *)
(* RecordDenial is one READ COMMITTED transaction of two statements.  Its  *)
(* now() is the time of BEGIN.  Whose pod an IP is (ByIP) and how a log    *)
(* entry is classified are left open: any workspace may be denied any      *)
(* host at any time.                                                       *)
(***************************************************************************)
EXTENDS Integers, FiniteSets

CONSTANTS
  Ws,           \* workspaces
  Host,         \* hosts and ports, numbered in the order of their names
  Stream,       \* access-log streams
  Cap,          \* rows a workspace keeps: 200
  Second,       \* clock ticks in a second
  Minute,       \* clock ticks in a minute
  MaxTracked,   \* entries the throttle keeps: 10000
  MaxClock      \* bound on the clock

ASSUME DenialsAssumption ==
  /\ Host \subseteq Nat
  /\ Cap \in Nat /\ Second \in Nat \ {0} /\ Minute \in Nat
  /\ MaxTracked \in Nat \ {0} /\ MaxClock \in Nat

\* Envoy keeps one or more streams open.
ASSUME StreamAssumption == IsFiniteSet(Stream) /\ Stream # {}

Key == Ws \X Host
Never == -1

VARIABLES
  clock,
  last,         \* throttle.last, Never when absent
  rows,         \* keys in table denials
  first, seen,  \* their first_seen and last_seen, Never when absent
  count,        \* their count
  tx            \* RecordDenial of each stream

table == <<rows, first, seen, count>>
vars == <<clock, last, rows, first, seen, count, tx>>

Transaction ==
  [at    : {"idle", "begin", "upsert", "trim", "delete", "commit"},
   key   : SUBSET Key,       \* the argument
   now   : Nat,              \* now()
   write : SUBSET Key,       \* row inserted or bumped, uncommitted
   found : SUBSET Key,       \* rows the DELETE found
   held  : SUBSET Key]       \* rows deleted, uncommitted

Idle == [at |-> "idle", key |-> {}, now |-> 0, write |-> {}, found |-> {}, held |-> {}]

TypeOK ==
  /\ clock \in Nat
  /\ last \in [Key -> Nat \cup {Never}]
  /\ rows \subseteq Key
  /\ first \in [Key -> Nat \cup {Never}]
  /\ seen \in [Key -> Nat \cup {Never}]
  /\ count \in [Key -> Nat]
  /\ tx \in [Stream -> Transaction]

Init ==
  /\ clock = 0
  /\ last = [k \in Key |-> Never]
  /\ rows = {}
  /\ first = [k \in Key |-> Never]
  /\ seen = [k \in Key |-> Never]
  /\ count = [k \in Key |-> 0]
  /\ tx = [s \in Stream |-> Idle]

Step(s, t) == tx' = [tx EXCEPT ![s] = t]

-----------------------------------------------------------------------------
(* The throttle *)

Tracked(m) == {k \in Key : m[k] # Never}

\* The map with k marked, and without the entries older than a minute.
Mark(k) == [last EXCEPT ![k] = clock]
Swept(k) == [j \in Key |-> IF Mark(k)[j] # Never /\ clock - Mark(k)[j] > Minute
                             THEN Never ELSE Mark(k)[j]]
Restarted(k) == [j \in Key |-> IF j = k THEN clock ELSE Never]

\* Mutant: a flood of fresh keys is only swept.
AllowSweeping(k) ==
  last' = IF Cardinality(Tracked(Mark(k))) > MaxTracked THEN Swept(k) ELSE Mark(k)

\* allow, under its mutex, when it answers true.
Allow(k) ==
  \/ /\ Cardinality(Tracked(Mark(k))) <= MaxTracked
     /\ last' = Mark(k)
  \/ /\ Cardinality(Tracked(Mark(k))) > MaxTracked
     /\ Cardinality(Tracked(Swept(k))) <= MaxTracked
     /\ last' = Swept(k)
  \/ /\ Cardinality(Tracked(Mark(k))) > MaxTracked
     /\ Cardinality(Tracked(Swept(k))) > MaxTracked
     /\ last' = Restarted(k)

\* Mutant: workspace and host are passed to RecordDenial in the wrong order.
OnDenialSwapped(s, k) ==
  /\ tx[s].at = "idle"
  /\ last[k] = Never \/ clock - last[k] >= Second
  /\ Allow(k)
  /\ Step(s, [Idle EXCEPT !.at = "begin", !.key = {<<k[2], k[1]>>}])
  /\ UNCHANGED <<clock, table>>

\* A denial the throttle lets through; one it drops changes nothing.
OnDenial(s, k) ==
  /\ tx[s].at = "idle"
  /\ last[k] = Never \/ clock - last[k] >= Second
  /\ Allow(k)
  /\ Step(s, [Idle EXCEPT !.at = "begin", !.key = {k}])
  /\ UNCHANGED <<clock, table>>

-----------------------------------------------------------------------------
(* RecordDenial *)

Begin(s) ==
  /\ tx[s].at = "begin"
  /\ Step(s, [tx[s] EXCEPT !.at = "upsert", !.now = clock])
  /\ UNCHANGED <<clock, last, table>>

\* Mutant: the row is not waited for.
FreeAtOnce(s, k) == TRUE

\* No other transaction has inserted, updated or deleted row k.
Free(s, k) == \A o \in Stream \ {s} : k \notin tx[o].write \cup tx[o].held

\* Mutant: ON CONFLICT DO UPDATE without WHERE.
UpsertAlways(s) ==
  /\ tx[s].at = "upsert"
  /\ \A k \in tx[s].key : Free(s, k)
  /\ Step(s, [tx[s] EXCEPT !.at = IF tx[s].key \subseteq rows THEN "commit" ELSE "trim",
                           !.write = tx[s].key])
  /\ UNCHANGED <<clock, last, table>>

\* INSERT ... ON CONFLICT DO UPDATE ... WHERE, after waiting for the row: a new
\* row is followed by the trim, a bumped or a throttled one by COMMIT.
Upsert(s) ==
  /\ tx[s].at = "upsert"
  /\ \A k \in tx[s].key : Free(s, k)
  /\ \/ /\ tx[s].key \cap rows = {}
        /\ Step(s, [tx[s] EXCEPT !.at = "trim", !.write = tx[s].key])
     \/ /\ \E k \in tx[s].key \cap rows : seen[k] < tx[s].now - Second
        /\ Step(s, [tx[s] EXCEPT !.at = "commit", !.write = tx[s].key])
     \/ /\ \E k \in tx[s].key \cap rows : seen[k] >= tx[s].now - Second
        /\ Step(s, Idle)
  /\ UNCHANGED <<clock, last, table>>

\* last_seen of a row as the transaction of s sees it.
SeenBy(s, k) == IF k \in tx[s].write THEN tx[s].now ELSE seen[k]

\* The rows that ORDER BY last_seen DESC, host puts before row k.
Before(s, k) ==
  {j \in rows \cup tx[s].write :
     /\ j[1] = k[1]
     /\ \/ SeenBy(s, j) > SeenBy(s, k)
        \/ SeenBy(s, j) = SeenBy(s, k) /\ j[2] < k[2]}

\* Mutant: OFFSET one too large.
ExcessOffByOne(s) ==
  {k \in rows \cup tx[s].write :
     /\ \E j \in tx[s].write : j[1] = k[1]
     /\ Cardinality(Before(s, k)) >= Cap + 1}

\* The workspace's rows past OFFSET Cap.
Excess(s) ==
  {k \in rows \cup tx[s].write :
     /\ \E j \in tx[s].write : j[1] = k[1]
     /\ Cardinality(Before(s, k)) >= Cap}

\* The snapshot of the DELETE.
Trim(s) ==
  /\ tx[s].at = "trim"
  /\ Step(s, [tx[s] EXCEPT !.at = "delete", !.found = Excess(s)])
  /\ UNCHANGED <<clock, last, table>>

\* The rows found are locked, after waiting; Commit has taken out those gone.
Delete(s) ==
  /\ tx[s].at = "delete"
  /\ \A k \in tx[s].found : Free(s, k)
  /\ Step(s, [tx[s] EXCEPT !.at = "commit", !.held = tx[s].found])
  /\ UNCHANGED <<clock, last, table>>

\* A row deleted here is gone for every DELETE that found it, even if it is
\* inserted again: that is another tuple, which their snapshots do not have.
Commit(s) ==
  LET t == tx[s]
      kept == t.write \ t.held IN
  /\ t.at = "commit"
  /\ rows' = (rows \cup t.write) \ t.held
  /\ first' = [k \in Key |-> IF k \in t.held THEN Never
                             ELSE IF k \in kept \ rows THEN t.now ELSE first[k]]
  /\ seen' = [k \in Key |-> IF k \in t.held THEN Never
                            ELSE IF k \in kept THEN t.now ELSE seen[k]]
  /\ count' = [k \in Key |-> IF k \in t.held THEN 0
                             ELSE IF k \in kept THEN count[k] + 1 ELSE count[k]]
  /\ tx' = [o \in Stream |-> IF o = s THEN Idle
                             ELSE [tx[o] EXCEPT !.found = @ \ t.held]]
  /\ UNCHANGED <<clock, last>>

\* An error: the transaction rolls back, the throttle keeps its mark.
Abort(s) ==
  /\ tx[s].at # "idle"
  /\ Step(s, Idle)
  /\ UNCHANGED <<clock, last, table>>

\* A new process: the throttle is empty.
Restart ==
  /\ last' = [k \in Key |-> Never]
  /\ tx' = [s \in Stream |-> Idle]
  /\ UNCHANGED <<clock, table>>

Tick ==
  /\ clock < MaxClock
  /\ clock' = clock + 1
  /\ UNCHANGED <<last, table, tx>>

Next ==
  \/ \E s \in Stream :
       \/ \E k \in Key : OnDenial(s, k)
       \/ Begin(s) \/ Upsert(s) \/ Trim(s) \/ Delete(s) \/ Commit(s) \/ Abort(s)
  \/ Restart
  \/ Tick

Spec == Init /\ [][Next]_vars

-----------------------------------------------------------------------------
(* Properties *)

\* The database counts a key at most once per second, although streams race,
\* the throttle forgets on a flood or a restart, and a transaction that began
\* earlier may reach the row later.
RateLimited ==
  \A k \in rows : seen[k] >= first[k] + Second * (count[k] - 1)

\* A late transaction never sets last_seen or count back.
NeverBack ==
  [][\A k \in rows \cap rows' :
       seen[k] <= seen'[k] /\ count[k] <= count'[k] /\ first[k] = first'[k]]_vars

\* The throttle's map is bounded whatever keys arrive.
ThrottleBounded == Cardinality(Tracked(last)) <= MaxTracked

RowsOf(w) == {k \in rows : k[1] = w}

\* Concurrent inserts may leave a workspace above the cap, because each trims
\* only the rows it sees, but only by one row per other stream.
OvershootBounded ==
  \A w \in Ws : Cardinality(RowsOf(w)) <= Cap + Cardinality(Stream) - 1

\* requests.go:87: each workspace keeps its newest Cap rows.
CapKept == \A w \in Ws : Cardinality(RowsOf(w)) <= Cap

-----------------------------------------------------------------------------
(***************************************************************************)
(* The inductive invariant behind RateLimited, NeverBack and               *)
(* ThrottleBounded: a transaction locks the rows it writes, so what it     *)
(* found in them stays true until it ends.                                 *)
(***************************************************************************)

Holds(t) ==
  /\ \A j, k \in t.key : j = k
  /\ t.write \subseteq t.key
  /\ t.at \in {"idle", "begin", "upsert"} => t.write = {}
  /\ t.at # "commit" => t.held = {}
  /\ \A k \in t.write \cap rows : seen[k] < t.now - Second

\* What two open transactions never both have.
Exclusive(t, u) == (t.write \cup t.held) \cap (u.write \cup u.held) = {}

TransactionsOK ==
  \A s \in Stream :
    /\ Holds(tx[s])
    /\ \A o \in Stream \ {s} : Exclusive(tx[s], tx[o])

TableOK ==
  /\ \A k \in rows : first[k] \in Nat /\ seen[k] \in Nat /\ count[k] > 0
  /\ \A k \in Key \ rows : count[k] = 0
  /\ RateLimited

IInv == TypeOK /\ TransactionsOK /\ TableOK /\ ThrottleBounded

-----------------------------------------------------------------------------
(***************************************************************************)
(* What OvershootBounded rests on besides: whichever of the transactions   *)
(* that are past their trim commit next, and in whatever order, the bound  *)
(* holds afterwards.                                                       *)
(***************************************************************************)

\* The DELETE removes what it found, unless another transaction has.
FoundOK(t) ==
  /\ t.at \notin {"delete", "commit"} => t.found = {}
  /\ t.at = "commit" => t.held = t.found

Pending == {s \in Stream : tx[s].at \in {"delete", "commit"}}

\* The rows of w when exactly the transactions of the streams P have committed.
After(w, P) ==
  {k \in (rows \cup UNION {tx[s].write : s \in P}) \ UNION {tx[s].found : s \in P} : k[1] = w}

OvershootInv ==
  /\ \A s \in Stream : FoundOK(tx[s])
  /\ IsFiniteSet(rows)
  /\ \A w \in Ws, P \in SUBSET Pending :
       Cardinality(After(w, P)) <= Cap + Cardinality(Stream) - 1

=============================================================================

------------------------------ MODULE Requests ------------------------------
(***************************************************************************)
(* Access requests and workspace grants (admin/internal/store/requests.go  *)
(* and the grant half of zones.go): owners file requests, admins decide    *)
(* them, grant directly and revoke, and the expiry ticker of serve deletes *)
(* what has lapsed.  The handlers run concurrently in READ COMMITTED       *)
(* transactions, modelled as in module Zones: one action per statement     *)
(* that reads or locks something another transaction may change.  An       *)
(* INSERT of a row with a fresh id waits for nobody and is invisible until *)
(* COMMIT, so it belongs to the commit step, as the audit INSERT does.     *)
(*                                                                         *)
(* The audit table is kept as the number of committed rows of each kind    *)
(* about each request and grant.                                           *)
(***************************************************************************)
EXTENDS Naturals, FiniteSets

CONSTANTS
  RequestId,    \* ids of requests that may ever be filed
  GrantId,      \* ids of workspace rules that may ever be inserted
  Subject,      \* (workspace, host, port) of a request
  Handler,      \* concurrent HTTP handlers
  Loop,         \* the select loop of serve, which runs ExpireGrants
  Direct,       \* origin of a grant no request asked for
  None          \* no status, no subject, no request, no origin

Decision == {"approved", "denied"}

ASSUME RequestAssumption ==
  /\ Loop \notin Handler
  /\ Direct \notin RequestId
  /\ None \notin RequestId \cup Subject \cup Decision \cup {Direct, "pending"}

Session == Handler \cup {Loop}

VARIABLES
  status,       \* status of each request; None before it is filed
  subject,      \* what each request asks for
  grants,       \* ids of the workspace rules in table rules
  lapsed,       \* ids whose expires_at has passed
  origin,       \* request a grant was inserted for, or Direct; None before
                \* it exists
  filed,        \* audit: rows "request" of each request
  decided,      \* audit: rows "approve" and "deny" of each request
  opened,       \* audit: rows "approve" and "grant" of each grant
  closed,       \* audit: rows "rule_delete" and "expire" of each grant
  tx            \* the open transaction of each session

tables == <<status, subject, grants, lapsed, origin, filed, decided, opened, closed>>
vars == <<status, subject, grants, lapsed, origin, filed, decided, opened, closed, tx>>

Transaction ==
  [at      : {"idle", "file", "decide", "revoke", "expire", "expired"},
   subj    : Subject \cup {None},        \* FileRequest's argument
   req     : RequestId \cup {None},      \* request row held by Decide
   verdict : Decision \cup {None},
   found   : SUBSET GrantId,             \* rows matched by ExpireGrants
   held    : SUBSET GrantId]             \* rule rows deleted, uncommitted

Idle == [at |-> "idle", subj |-> None, req |-> None, verdict |-> None,
         found |-> {}, held |-> {}]

TypeOK ==
  /\ status \in [RequestId -> {None, "pending"} \cup Decision]
  /\ subject \in [RequestId -> Subject \cup {None}]
  /\ grants \subseteq GrantId
  /\ lapsed \subseteq GrantId
  /\ origin \in [GrantId -> RequestId \cup {Direct, None}]
  /\ filed \in [RequestId -> Nat]
  /\ decided \in [RequestId -> Nat]
  /\ opened \in [GrantId -> Nat]
  /\ closed \in [GrantId -> Nat]
  /\ tx \in [Session -> Transaction]

Init ==
  /\ status = [r \in RequestId |-> None]
  /\ subject = [r \in RequestId |-> None]
  /\ grants = {}
  /\ lapsed = {}
  /\ origin = [g \in GrantId |-> None]
  /\ filed = [r \in RequestId |-> 0]
  /\ decided = [r \in RequestId |-> 0]
  /\ opened = [g \in GrantId |-> 0]
  /\ closed = [g \in GrantId |-> 0]
  /\ tx = [s \in Session |-> Idle]

-----------------------------------------------------------------------------
(* Row locks of the other sessions *)

Others(s) == Session \ {s}

\* Mutant: a SELECT of the status that does not wait for the row.
RequestUnlocked(s, r) == TRUE

RequestFree(s, r) == \A o \in Others(s) : tx[o].req # r
GrantFree(s, g) == \A o \in Others(s) : g \notin tx[o].held

\* The transaction of s becomes t.
Step(s, t) == tx' = [tx EXCEPT ![s] = t]

End(s) == Step(s, Idle)

\* grant(): the rule row and its "grant" or "approve" audit row.
InsertGrant(g, from) ==
  /\ origin[g] = None
  /\ grants' = grants \cup {g}
  /\ origin' = [origin EXCEPT ![g] = from]
  /\ opened' = [opened EXCEPT ![g] = @ + 1]

\* The rows in gone leave table rules, each with its own audit row.
RemoveGrants(gone) ==
  /\ grants' = grants \ gone
  /\ closed' = [g \in GrantId |-> IF g \in gone THEN closed[g] + 1 ELSE closed[g]]

-----------------------------------------------------------------------------
(* FileRequest *)

\* SELECT finds no identical pending request (else its id is the answer).
FileRequest(s, subj) ==
  /\ tx[s].at = "idle"
  /\ ~ \E r \in RequestId : status[r] = "pending" /\ subject[r] = subj
  /\ Step(s, [Idle EXCEPT !.at = "file", !.subj = subj])
  /\ UNCHANGED tables

FileInsert(s, r) ==
  /\ tx[s].at = "file"
  /\ status[r] = None
  /\ status' = [status EXCEPT ![r] = "pending"]
  /\ subject' = [subject EXCEPT ![r] = tx[s].subj]
  /\ filed' = [filed EXCEPT ![r] = @ + 1]
  /\ End(s)
  /\ UNCHANGED <<grants, lapsed, origin, decided, opened, closed>>

-----------------------------------------------------------------------------
(* Decide *)

\* Mutant: the UPDATE does not look at the status.
DecideAnyStatus(s, r, verdict) ==
  /\ tx[s].at = "idle"
  /\ RequestFree(s, r)
  /\ status[r] # None
  /\ Step(s, [Idle EXCEPT !.at = "decide", !.req = r, !.verdict = verdict])
  /\ UNCHANGED tables

\* UPDATE ... WHERE status = 'pending' waits for the row, then looks again;
\* no row is ErrConflict.
Decide(s, r, verdict) ==
  /\ tx[s].at = "idle"
  /\ RequestFree(s, r)
  /\ status[r] = "pending"
  /\ Step(s, [Idle EXCEPT !.at = "decide", !.req = r, !.verdict = verdict])
  /\ UNCHANGED tables

DecideDeny(s) ==
  /\ tx[s].at = "decide"
  /\ tx[s].verdict = "denied"
  /\ status' = [status EXCEPT ![tx[s].req] = "denied"]
  /\ decided' = [decided EXCEPT ![tx[s].req] = @ + 1]
  /\ End(s)
  /\ UNCHANGED <<subject, grants, lapsed, origin, filed, opened, closed>>

\* Mutant: the decision is stored under the name of the form's button.
DecideApproveVerb(s, g) ==
  /\ tx[s].at = "decide"
  /\ tx[s].verdict = "approved"
  /\ status' = [status EXCEPT ![tx[s].req] = "approve"]
  /\ decided' = [decided EXCEPT ![tx[s].req] = @ + 1]
  /\ InsertGrant(g, tx[s].req)
  /\ End(s)
  /\ UNCHANGED <<subject, lapsed, filed, closed>>

\* Mutant: the grant commits and the UPDATE of the request is lost.
DecideApproveHalf(s, g) ==
  /\ tx[s].at = "decide"
  /\ tx[s].verdict = "approved"
  /\ InsertGrant(g, tx[s].req)
  /\ End(s)
  /\ UNCHANGED <<status, decided, subject, lapsed, filed, closed>>

\* A rule grant() finds invalid rolls everything back: Abort.
DecideApprove(s, g) ==
  /\ tx[s].at = "decide"
  /\ tx[s].verdict = "approved"
  /\ status' = [status EXCEPT ![tx[s].req] = "approved"]
  /\ decided' = [decided EXCEPT ![tx[s].req] = @ + 1]
  /\ InsertGrant(g, tx[s].req)
  /\ End(s)
  /\ UNCHANGED <<subject, lapsed, filed, closed>>

-----------------------------------------------------------------------------
(* Grant, and DeleteRule of a workspace grant *)

Grant(s, g) ==
  /\ tx[s].at = "idle"
  /\ InsertGrant(g, Direct)
  /\ UNCHANGED <<status, subject, lapsed, filed, decided, closed, tx>>

\* DELETE ... RETURNING waits for the row; no row is ErrNotFound.
Revoke(s, g) ==
  /\ tx[s].at = "idle"
  /\ GrantFree(s, g)
  /\ g \in grants
  /\ Step(s, [Idle EXCEPT !.at = "revoke", !.held = {g}])
  /\ UNCHANGED tables

RevokeCommit(s) ==
  /\ tx[s].at = "revoke"
  /\ RemoveGrants(tx[s].held)
  /\ End(s)
  /\ UNCHANGED <<status, subject, lapsed, origin, filed, decided, opened>>

-----------------------------------------------------------------------------
(* ExpireGrants, run by the ticker *)

\* Mutant: only grants that came from a request expire.
ExpireGrantsApproved ==
  /\ tx[Loop].at = "idle"
  /\ Step(Loop, [Idle EXCEPT !.at = "expire",
              !.found = {g \in grants \cap lapsed : origin[g] # Direct}])
  /\ UNCHANGED tables

\* now() and the snapshot of DELETE ... WHERE expires_at <= now().
ExpireGrants ==
  /\ tx[Loop].at = "idle"
  /\ Step(Loop, [Idle EXCEPT !.at = "expire", !.found = grants \cap lapsed])
  /\ UNCHANGED tables

\* Mutant: rows a revocation has removed meanwhile are reported too.
ExpireDeleteAll ==
  /\ tx[Loop].at = "expire"
  /\ \A g \in tx[Loop].found : GrantFree(Loop, g)
  /\ Step(Loop, [tx[Loop] EXCEPT !.at = "expired", !.held = tx[Loop].found])
  /\ UNCHANGED tables

\* The rows found are locked, after waiting for them; those gone are skipped.
ExpireDelete ==
  /\ tx[Loop].at = "expire"
  /\ \A g \in tx[Loop].found : GrantFree(Loop, g)
  /\ Step(Loop, [tx[Loop] EXCEPT !.at = "expired", !.held = tx[Loop].found \cap grants])
  /\ UNCHANGED tables

ExpireCommit ==
  /\ tx[Loop].at = "expired"
  /\ RemoveGrants(tx[Loop].held)
  /\ End(Loop)
  /\ UNCHANGED <<status, subject, lapsed, origin, filed, decided, opened>>

-----------------------------------------------------------------------------

\* Time reaches the expires_at of a grant.
Lapse(g) ==
  /\ origin[g] # None
  /\ g \notin lapsed
  /\ lapsed' = lapsed \cup {g}
  /\ UNCHANGED <<status, subject, grants, origin, filed, decided, opened, closed, tx>>

\* An error, a timeout, or a crash of the process: the transaction rolls back.
Abort(s) ==
  /\ tx[s].at # "idle"
  /\ End(s)
  /\ UNCHANGED tables

HandlerStep(s) ==
  \/ \E subj \in Subject : FileRequest(s, subj)
  \/ \E r \in RequestId : FileInsert(s, r)
  \/ \E r \in RequestId, verdict \in Decision : Decide(s, r, verdict)
  \/ DecideDeny(s)
  \/ \E g \in GrantId : DecideApprove(s, g) \/ Grant(s, g) \/ Revoke(s, g)
  \/ RevokeCommit(s)

LoopStep == ExpireGrants \/ ExpireDelete \/ ExpireCommit

Next ==
  \/ \E s \in Handler : HandlerStep(s)
  \/ LoopStep
  \/ \E g \in GrantId : Lapse(g)
  \/ \E s \in Session : Abort(s)

Spec == Init /\ [][Next]_vars

(***************************************************************************)
(* A handler does not hold its transaction for ever: it commits or its     *)
(* context ends.  The ticker keeps firing.  The database is not down for   *)
(* ever, so a DELETE or COMMIT that is tried again and again succeeds.     *)
(***************************************************************************)
Fairness ==
  /\ \A s \in Handler : WF_vars(Abort(s)) /\ SF_vars(RevokeCommit(s))
  /\ WF_vars(ExpireGrants)
  /\ SF_vars(ExpireDelete)
  /\ SF_vars(ExpireCommit)

FairSpec == Spec /\ Fairness

-----------------------------------------------------------------------------
(* Properties *)

\* The audit log accounts for every grant: one row opened it, and one row
\* closed it exactly when it is gone.  A revocation and the expiry ticker that
\* meet on one grant therefore never both report it, and no grant appears or
\* disappears unreported.
GrantsAccounted ==
  \A g \in GrantId :
    /\ opened[g] = IF origin[g] = None THEN 0 ELSE 1
    /\ closed[g] = IF origin[g] = None \/ g \in grants THEN 0 ELSE 1
    /\ g \in grants => origin[g] # None

\* Two admins who decide the same request concurrently never both succeed:
\* a request has one decision row exactly when it is decided.
DecidedOnce ==
  \A r \in RequestId :
    /\ decided[r] = IF status[r] \in Decision THEN 1 ELSE 0
    /\ filed[r] = IF status[r] = None THEN 0 ELSE 1

\* An approved request has exactly one grant row inserted for it, any other
\* request none: a rolled back or repeated approval leaves no access behind.
ApprovalGrantsOnce ==
  \A r \in RequestId :
    /\ status[r] = "approved" => \E g \in GrantId : origin[g] = r
    /\ \A g, h \in GrantId : origin[g] = r /\ origin[h] = r => g = h
    /\ \A g \in GrantId : origin[g] = r => status[r] = "approved"

\* What has been decided or removed stays so: no late commit of another
\* transaction reopens a request or brings a removed grant back.
NoResurrection ==
  [][/\ \A r \in RequestId : status[r] \in Decision => status'[r] = status[r]
     /\ \A g \in GrantId :
          origin[g] # None => /\ origin'[g] = origin[g]
                              /\ g \notin grants => g \notin grants']_vars

\* Every grant past its expiry is eventually deleted (and so audited), even
\* when ticks fail or meet revocations.
LapsedRemoved == \A g \in GrantId : g \in lapsed ~> g \notin grants

\* requests.go:25: FileRequest returns the id of an identical pending request
\* instead of recording another.
OnePendingPerSubject ==
  \A q, r \in RequestId :
    status[q] = "pending" /\ status[r] = "pending" /\ subject[q] = subject[r] => q = r

-----------------------------------------------------------------------------
(***************************************************************************)
(* The inductive invariant behind the safety properties above: a           *)
(* transaction holds the rows it writes, and what it found in them stays   *)
(* true until it ends.                                                     *)
(***************************************************************************)

Holds(t) ==
  /\ t.held \subseteq grants
  /\ t.at \notin {"revoke", "expired"} => t.held = {}
  /\ t.at # "decide" => t.req = None
  /\ t.at = "decide" => t.req \in RequestId /\ status[t.req] = "pending"
  /\ t.at = "file" => t.subj \in Subject

\* What two open transactions never both hold.
Exclusive(t, u) ==
  /\ t.held \cap u.held = {}
  /\ t.req = None \/ t.req # u.req

TransactionsOK ==
  \A s \in Session :
    /\ Holds(tx[s])
    /\ \A o \in Others(s) : Exclusive(tx[s], tx[o])

IInv ==
  /\ TypeOK
  /\ TransactionsOK
  /\ GrantsAccounted
  /\ DecidedOnce
  /\ ApprovalGrantsOnce

=============================================================================

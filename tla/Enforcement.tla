----------------------------- MODULE Enforcement -----------------------------
(***************************************************************************)
(* What the reconcile loop promises of Envoy, without saying how.          *)
(*                                                                         *)
(* The inputs of the policy (tables and pods) are versioned.  Envoy        *)
(* enforces, of every input, a version it once had; it may lag and may mix *)
(* versions of different inputs, but of no input does it ever go back, so  *)
(* a revoked rule or a departed pod that Envoy has dropped does not return *)
(* unless it is granted again.  A fresh Envoy enforces nothing.            *)
(***************************************************************************)
EXTENDS Naturals

CONSTANTS
  Source,       \* inputs of a rebuild
  Nothing       \* no snapshot

VARIABLES
  current,      \* version of each input
  enforced      \* version of each input that Envoy enforces, or Nothing

Version == [Source -> Nat]

Init ==
  /\ current = [t \in Source |-> 0]
  /\ enforced = Nothing

\* An input changes.
Change ==
  /\ current' \in Version
  /\ \A t \in Source : current[t] <= current'[t]
  /\ UNCHANGED enforced

\* Envoy takes a snapshot no older than the one it has.
Enforce ==
  /\ enforced' \in Version
  /\ \A t \in Source :
       /\ enforced # Nothing => enforced[t] <= enforced'[t]
       /\ enforced'[t] <= current[t]
  /\ UNCHANGED current

\* Envoy restarts: no listener until the next snapshot.
Clear ==
  /\ enforced' = Nothing
  /\ UNCHANGED current

Next == Change \/ Enforce \/ Clear

Spec == Init /\ [][Next]_<<current, enforced>>

=============================================================================

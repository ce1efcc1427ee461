------------------------------- MODULE MCPods --------------------------------
(* Instances of Pods: a workspace of one user, one of another that starts     *)
(* later, and a second pod of the first.                                      *)
EXTENDS Pods, TLC

CONSTANTS p1, p2, p3, alice, bob, root

Pods2 == {p1, p2}
Pods3 == {p1, p2, p3}
Users == {alice, bob, root}
WsOfPods == [p \in Pod |-> IF p = p2 THEN 2 ELSE 1]
Owners == 1 :> alice @@ 2 :> bob

=============================================================================

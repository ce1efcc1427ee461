----------------------------- MODULE MCTunnels ------------------------------
(* Instances of Tunnels: two names, each with a key of its own, and the      *)
(* wildcard above both.                                                      *)
EXTENDS Tunnels, TLC

CONSTANTS a, b

Names == {a, b}
Keys == {{a}, {b}, {a, b}}
Symmetry == Permutations(PodIP) \cup Permutations(Names)

=============================================================================

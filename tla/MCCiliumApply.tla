---------------------------- MODULE MCCiliumApply ----------------------------
(* Instances of CiliumApply. *)
EXTENDS CiliumApply, TLC

Symmetry == Permutations(Name) \cup Permutations(Spec)

=============================================================================

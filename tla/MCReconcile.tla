----------------------------- MODULE MCReconcile -----------------------------
(* Instances of Reconcile; the bounds are given in the cfg files. *)
EXTENDS Reconcile

=============================================================================

------------------------------ MODULE MCDenials ------------------------------
(***************************************************************************)
(* Small instances of Denials; the streams are interchangeable, and so are *)
(* the workspaces.                                                         *)
(***************************************************************************)
EXTENDS Denials, TLC

Symmetry == Permutations(Stream) \cup Permutations(Ws)

=============================================================================

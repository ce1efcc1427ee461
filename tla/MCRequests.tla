----------------------------- MODULE MCRequests -----------------------------
(***************************************************************************)
(* Small instances of Requests.  Ids are used up as rows are inserted,     *)
(* which bounds the model.                                                 *)
(***************************************************************************)
EXTENDS Requests, TLC

Symmetry == Permutations(Handler) \cup Permutations(RequestId)
              \cup Permutations(GrantId)

=============================================================================

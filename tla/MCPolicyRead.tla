---------------------------- MODULE MCPolicyRead -----------------------------
(* Instances of PolicyRead: two workspaces, a rule of each kind and one row   *)
(* that is not valid.                                                         *)
EXTENDS PolicyRead, FiniteSets, TLC

Symmetry == Permutations(Zone) \cup Permutations(Ws)

\* At most one row of the store is invalid.
OneInvalid ==
  Cardinality({p \in Zone \X (Rule \ Valid) : p[2] \in db.rules[p[1]]})
    + Cardinality({p \in Ws \X (Rule \ Valid) : p[2] \in db.grants[p[1]]}) <= 1

=============================================================================

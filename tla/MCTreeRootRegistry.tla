-------------------------- MODULE MCTreeRootRegistry --------------------------
(* Symmetry for the runs of TreeRootRegistry that check safety only. *)
EXTENDS TreeRootRegistry, TLC

\* Roots and call slots are interchangeable.
Symmetry == Permutations(Hashes) \cup Permutations(Calls)
=============================================================================

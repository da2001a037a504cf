------------------------------ MODULE MCStorage ------------------------------
(* Instances of Storage for TLC: two trees, a and c, that share the blob b.  *)
EXTENDS Storage, TLC

CONSTANTS a, b, c, own, followed

Tree == (a :> {b} @@ b :> {} @@ c :> {b})
Priorities == (own :> 0 @@ followed :> 1)
\* The two trees are alike, and so are the workers and the users.
Alike == {p @@ q @@ r : p \in Permutations({a, c}), q \in Permutations(Worker), r \in Permutations(Pubkey)}

\* Bound: two evictions or collections at once are followed while nothing else
\* runs, one with anything else.
Evicting == {th \in Thread : tasks[th].at \in {"listed", "sweep", "trees", "gc", "gcsweep"} \/ tasks[th].return = "trees"}
OneEvictsOrTwoRun ==
    Cardinality(Evicting) <= 1 \/ Cardinality({th \in Thread : tasks[th].at # "idle"}) <= 2
===============================================================================

------------------------------ MODULE OrderedMap ------------------------------
(***************************************************************************)
(* What the B-tree of hashtree-index promises its users: a root stands for *)
(* a map from keys to values.                                              *)
(***************************************************************************)
CONSTANTS Key, Value, None

VARIABLE map      \* the value of each key, or None

Init == map = [k \in Key |-> None]

insert(k, v) == map' = [map EXCEPT ![k] = v]

delete(k) == map' = [map EXCEPT ![k] = None]

\* The entries of another map are added; preferOther decides which of two
\* values stays.
merge(other, preferOther) ==
    map' = [k \in Key |-> IF other[k] # None /\ (preferOther \/ map[k] = None) THEN other[k] ELSE map[k]]
===============================================================================

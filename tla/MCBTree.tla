------------------------------- MODULE MCBTree -------------------------------
(* Instances of BTree for TLC. *)
EXTENDS BTree

CONSTANTS v1, v2

\* Keys that localeCompare and < order alike, such as words of plain letters.
Alphabetic == [k \in Key |-> k]

\* The last two of nine keys are ordered differently, as "foo2:x" and "foo:y":
\* a tree holds one of them or the other while alike is true.
LastTwo == [k \in Key |-> IF k = 8 THEN 9 ELSE IF k = 9 THEN 8 ELSE k]

\* The keys of four terms, "v:bar:a", "v:foo2:x", "v:foo:y" and "v:z:b", in the
\* order of <; localeCompare puts the third before the second.
Terms == <<1, 3, 2, 4>>
AllKeys == Key \X {v1}

\* The other tree of a merge has two keys with values of their own, and these are
\* the only keys with a second value.
TwoKeys == {<<<<7, v2>>, <<2, v2>>>>}
FewValues == (Key \X {v1}) \cup ({2, 7} \X {v2})

\* A tree of three levels; 8, 9 and 13 are in no leaf of it.
TenKeys == {[i \in 1 .. 10 |-> <<<<1, 2, 3, 4, 5, 6, 10, 11, 7, 12>>[i], v1>>]}
FewKeys == {5, 8, 9, 13} \X {v1}

\* Bound: nothing is said of a tree once an insert has fallen into a gap, or keys
\* have met that the two orders do not agree on.
Sane == intact /\ alike
===============================================================================

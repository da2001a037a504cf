----------------------------- MODULE BTreeProofs -----------------------------
(***************************************************************************)
(* Proofs about BTree, for every order, every set of keys and any sequence *)
(* of inserts, deletes and merges.                                         *)
(*                                                                         *)
(* The invariant is Inv: while no insert has fallen into a gap and < and   *)
(* localeCompare have ordered the keys alike, the root stands for the map  *)
(* and is an Index, a tree of directories of finite height, the names in   *)
(* each of which the two orders agree on (Directory), in which the names   *)
(* of each internal node divide all names below it (Ordered), every child  *)
(* but the first holds nothing below its own name at any depth (AllLow),   *)
(* and no node leaves its limits (AllSized).  Ordered must speak of the    *)
(* names of internal nodes too, not only of keys, because a split files a  *)
(* half under one of them; AllLow is what a split of a node off the left   *)
(* edge needs to file its left half under the first name, and an insert    *)
(* into a gap is what destroys it.                                         *)
(*                                                                         *)
(* Each operation is taken in three steps: its recursion over the nodes is *)
(* unfolded once (GetIs, InsertIs, DeleteIs, RangeIs), what it makes of    *)
(* one node is derived from what it makes of the children (InsertInternal, *)
(* DeleteInternal, TraverseInternal), and a node of least height for which *)
(* it fails is shown not to exist.                                         *)
(***************************************************************************)
EXTENDS BTree, SmallestNumber, FiniteSetTheorems, TLAPS

-----------------------------------------------------------------------------
(* Sorted directories *)

\* s lists the elements of S in ascending order.
Lists(s, S) ==
    /\ s \in [1 .. Cardinality(S) -> S]
    /\ \A i, j \in 1 .. Cardinality(S) : i < j => s[i] < s[j]
    /\ \A a \in S : \E i \in 1 .. Cardinality(S) : s[i] = a

\* Every finite set of numbers can be listed in ascending order.
LEMMA ListExists ==
    ASSUME NEW S \in SUBSET Nat, IsFiniteSet(S)
    PROVE  \E s : Lists(s, S)
<1> DEFINE Good(n) == \A T \in SUBSET Nat : IsFiniteSet(T) /\ Cardinality(T) = n => \E s : Lists(s, T)
           bad == {n \in Nat : ~Good(n)}
<1>1. SUFFICES bad = {}
  <2>1. Cardinality(S) \in Nat
    BY FS_CardinalityType
  <2> QED
    BY <1>1, <2>1
<1>2. SUFFICES ASSUME bad # {} PROVE FALSE
  OBVIOUS
<1>3. PICK n \in bad : \A m \in bad : n <= m
  <2> HIDE DEF bad
  <2>1. bad \subseteq Nat
    BY DEF bad
  <2> QED
    BY <1>2, <2>1, SmallestExists
<1>4. PICK T \in SUBSET Nat : IsFiniteSet(T) /\ Cardinality(T) = n /\ ~\E s : Lists(s, T)
  BY <1>3
<1>5. n \in Nat
  BY <1>3
<1>6. CASE T = {}
  <2>1. Cardinality(T) = 0
    BY <1>6, FS_EmptySet
  <2>2. Lists([i \in 1 .. Cardinality(T) |-> 0], T)
    BY <1>6, <2>1 DEF Lists
  <2> QED
    BY <2>2, <1>4
<1>7. CASE T # {}
  <2>1. PICK least \in T : \A a \in T : least <= a
    BY <1>7, SmallestExists
  <2> DEFINE rest == T \ {least}
  <2>2. IsFiniteSet(rest) /\ Cardinality(rest) = n - 1 /\ rest \in SUBSET Nat
    BY <1>4, <2>1, FS_RemoveElement
  <2>3. n - 1 \in Nat
    BY <2>2, FS_CardinalityType
  <2>4. Good(n - 1)
    BY <1>3, <1>5, <2>3
  <2>5. PICK s : Lists(s, rest)
    BY <2>2, <2>4
  <2> DEFINE all == [i \in 1 .. n |-> IF i = 1 THEN least ELSE s[i - 1]]
  <2>6. \A i \in 1 .. n : i # 1 => i - 1 \in 1 .. n - 1
    BY <1>5
  <2>7. s \in [1 .. n - 1 -> rest]
    BY <2>2, <2>5 DEF Lists
  <2>8. \A i \in 1 .. n : i # 1 => all[i] \in rest
    BY <2>6, <2>7
  <2>9. all \in [1 .. n -> T]
    BY <2>8, <2>1
  <2>10. ASSUME NEW i \in 1 .. n, NEW j \in 1 .. n, i < j PROVE all[i] < all[j]
    <3>1. j # 1 /\ all[j] \in rest
      BY <2>8, <2>10, <1>5
    <3>2. CASE i = 1
      <4>1. all[i] = least
        BY <3>2
      <4>2. \A b \in rest : least < b
        BY <2>1
      <4> HIDE DEF all, rest
      <4> QED
        BY <3>1, <4>1, <4>2
    <3>3. CASE i # 1
      <4>1. i - 1 \in 1 .. n - 1 /\ j - 1 \in 1 .. n - 1 /\ i - 1 < j - 1
        BY <2>6, <2>10, <3>1, <3>3, <1>5
      <4>2. s[i - 1] < s[j - 1]
        BY <4>1, <2>2, <2>5 DEF Lists
      <4> QED
        BY <4>2, <3>1, <3>3
    <3> QED
      BY <3>2, <3>3
  <2>11. ASSUME NEW a \in T PROVE \E i \in 1 .. n : all[i] = a
    <3>1. CASE a = least
      <4>1. 1 \in 1 .. n
        BY <2>3, <1>5
      <4> QED
        BY <3>1, <4>1
    <3>2. CASE a # least
      <4>1. PICK i \in 1 .. n - 1 : s[i] = a
        BY <3>2, <2>2, <2>5 DEF Lists
      <4>2. i + 1 \in 1 .. n /\ i + 1 # 1 /\ (i + 1) - 1 = i
        BY <1>5
      <4> QED
        BY <4>1, <4>2
    <3> QED
      BY <3>1, <3>2
  <2>12. Lists(all, T)
    BY <2>9, <2>10, <2>11, <1>4 DEF Lists
  <2> QED
    BY <2>12, <1>4
<1> QED
  BY <1>6, <1>7

\* In a list of numbers the number of smaller ones is the position.
LEMMA Rank ==
    ASSUME NEW S \in SUBSET Nat, IsFiniteSet(S), NEW s, Lists(s, S), NEW i \in 1 .. Cardinality(S)
    PROVE  Cardinality({b \in S : b < s[i]}) = i - 1
<1> DEFINE smaller == {b \in S : b < s[i]}
           f == [j \in 1 .. i - 1 |-> s[j]]
<1>1. Cardinality(S) \in Nat /\ i \in Nat /\ i - 1 \in Nat
  BY FS_CardinalityType
<1>2. ASSUME NEW j \in 1 .. i - 1 PROVE j \in 1 .. Cardinality(S) /\ s[j] \in smaller
  <2>1. j \in 1 .. Cardinality(S) /\ j < i
    BY <1>1
  <2> QED
    BY <2>1 DEF Lists
<1>3. ASSUME NEW b \in smaller PROVE \E j \in 1 .. i - 1 : s[j] = b
  <2>1. PICK j \in 1 .. Cardinality(S) : s[j] = b
    BY DEF Lists
  <2>2. s[i] \in Nat /\ s[j] \in Nat /\ s[j] < s[i]
    BY <2>1 DEF Lists
  <2>3. ~(i < j) /\ i # j
    <3>1. i < j => s[i] < s[j]
      BY DEF Lists
    <3> QED
      BY <2>2, <3>1
  <2>4. j \in 1 .. i - 1
    BY <2>3, <1>1
  <2> QED
    BY <2>1, <2>4
<1>4. ASSUME NEW j \in 1 .. i - 1, NEW k \in 1 .. i - 1, s[j] = s[k] PROVE j = k
  <2>1. j \in 1 .. Cardinality(S) /\ k \in 1 .. Cardinality(S) /\ j \in Nat /\ k \in Nat
    BY <1>2, <1>1
  <2>2. s[j] \in Nat
    BY <2>1 DEF Lists
  <2>3. (j < k => s[j] < s[k]) /\ (k < j => s[k] < s[j])
    BY <2>1 DEF Lists
  <2> QED
    BY <1>4, <2>1, <2>2, <2>3
<1>5. f \in Bijection(1 .. i - 1, smaller)
  <2>1. f \in [1 .. i - 1 -> smaller]
    BY <1>2
  <2>2. \A b \in smaller : \E j \in 1 .. i - 1 : f[j] = b
    BY <1>3
  <2>3. \A j, k \in 1 .. i - 1 : f[j] = f[k] => j = k
    BY <1>4
  <2> HIDE DEF f, smaller
  <2> QED
    BY <2>1, <2>2, <2>3 DEF Bijection, Injection, Surjection, IsInjective
<1>6. ExistsBijection(1 .. i - 1, smaller)
  BY <1>5 DEF ExistsBijection
<1>7. IsFiniteSet(1 .. i - 1) /\ Cardinality(1 .. i - 1) = i - 1
  <2> DEFINE m == i - 1
  <2>1. m \in Int /\ 1 \in Int /\ m >= 0
    BY <1>1
  <2> HIDE DEF m
  <2>2. IsFiniteSet(1 .. m) /\ Cardinality(1 .. m) = IF 1 > m THEN 0 ELSE m - 1 + 1
    BY <2>1, FS_Interval
  <2>3. Cardinality(1 .. m) = m
    BY <2>1, <2>2
  <2> QED
    BY <2>2, <2>3 DEF m
<1> QED
  BY <1>6, <1>7, FS_Bijection

\* sortEntries lists the names of a directory in ascending order.
LEMMA Sorted ==
    ASSUME NEW node, DOMAIN node \in SUBSET Key, Alike(DOMAIN node), IsFiniteSet(DOMAIN node)
    PROVE  Lists(sortEntries(node), DOMAIN node)
<1> DEFINE D == DOMAIN node
           n == Cardinality(D)
<1>1. D \in SUBSET Nat /\ n \in Nat
  BY KeyAssumption, FS_CardinalityType
<1>2. PICK s : Lists(s, D)
  BY <1>1, ListExists
<1>3. s \in [1 .. n -> D]
  BY <1>2 DEF Lists
<1>4. \A i \in 1 .. n : Cardinality({b \in D : b < s[i]}) = i - 1
  BY <1>1, <1>2, Rank
<1>5. \A a \in D : {b \in D : Locale[b] < Locale[a]} = {b \in D : b < a}
  BY DEF Alike
<1>6. ASSUME NEW i \in 1 .. n
      PROVE  (CHOOSE a \in D : Cardinality({b \in D : Locale[b] < Locale[a]}) = i - 1) = s[i]
  <2>1. s[i] \in D /\ Cardinality({b \in D : Locale[b] < Locale[s[i]]}) = i - 1
    BY <1>3, <1>4, <1>5
  <2>2. ASSUME NEW a \in D, Cardinality({b \in D : Locale[b] < Locale[a]}) = i - 1 PROVE a = s[i]
    <3>1. PICK j \in 1 .. n : s[j] = a
      BY <1>2 DEF Lists
    <3>2. j - 1 = i - 1
      BY <1>4, <1>5, <2>2, <3>1
    <3>3. j = i
      BY <3>2, <1>1
    <3> QED
      BY <3>1, <3>3
  <2> HIDE DEF D
  <2> QED
    BY <2>1, <2>2
<1>7. sortEntries(node) = [i \in 1 .. n |-> s[i]]
  BY <1>6 DEF sortEntries
<1>8. sortEntries(node) = s
  BY <1>7, <1>3
<1> QED
  BY <1>2, <1>8

\* The list as a sequence.
LEMMA SortedSeq ==
    ASSUME NEW node, DOMAIN node \in SUBSET Key, Alike(DOMAIN node), IsFiniteSet(DOMAIN node)
    PROVE  /\ sortEntries(node) \in Seq(DOMAIN node)
           /\ Len(sortEntries(node)) = Cardinality(DOMAIN node)
           /\ Cardinality(DOMAIN node) \in Nat
<1> DEFINE n == Cardinality(DOMAIN node)
<1>1. n \in Nat
  BY FS_CardinalityType
<1>2. sortEntries(node) \in [1 .. n -> DOMAIN node]
  BY Sorted DEF Lists
<1> HIDE DEF n
<1>3. sortEntries(node) \in Seq(DOMAIN node) /\ Len(sortEntries(node)) = n
  BY <1>1, <1>2
<1> QED
  BY <1>1, <1>3 DEF n

\* Min finds the smallest of a set of numbers.
LEMMA MinIsLeast ==
    ASSUME NEW S \in SUBSET Nat, S # {}
    PROVE  Min(S) \in S /\ \A a \in S : Min(S) <= a
<1>1. \E m \in S : \A a \in S : m =< a
  BY SmallestExists
<1> QED
  BY <1>1 DEF Min

\* findChild returns a name below which the key is not, unless it is the first
\* one, and whose right neighbours are all greater than the key.
Found(node, key, name) ==
    /\ name \in DOMAIN node
    /\ \A b \in DOMAIN node : name < b => key < b
    /\ name <= key \/ \A b \in DOMAIN node : name <= b

\* The loop of findChild stops at the child the key belongs to.
LEMMA FindChild ==
    ASSUME NEW node, DOMAIN node \in SUBSET Key, Alike(DOMAIN node), IsFiniteSet(DOMAIN node),
           DOMAIN node # {}, NEW key \in Key
    PROVE  Found(node, key, findChild(node, key))
<1> DEFINE D == DOMAIN node
           n == Cardinality(D)
           s == sortEntries(node)
           before == {i \in 1 .. n - 1 : key < s[i + 1]}
<1>1. n \in Nat /\ n # 0 /\ Len(s) = n
  BY SortedSeq, FS_EmptySet
<1>2. D \in SUBSET Nat /\ key \in Nat
  BY KeyAssumption
<1>3. Lists(s, D)
  BY Sorted
<1>4. findChild(node, key) = s[IF before = {} THEN n ELSE Min(before)]
  BY <1>1 DEF findChild
<1> HIDE DEF s, n, D
<1>5. s \in [1 .. n -> D] /\ (\A i, j \in 1 .. n : i < j => s[i] < s[j])
      /\ \A a \in D : \E i \in 1 .. n : s[i] = a
  BY <1>3 DEF Lists, n
<1>6. CASE before = {}
  <2>1. findChild(node, key) = s[n] /\ n \in 1 .. n
    BY <1>1, <1>4, <1>6
  <2>2. ASSUME NEW b \in D PROVE ~(s[n] < b)
    <3>1. PICK j \in 1 .. n : s[j] = b
      BY <1>5
    <3>2. j < n => s[j] < s[n]
      BY <1>5, <2>1
    <3>3. j = n \/ j < n
      BY <1>1
    <3>4. s[n] \in Nat /\ s[j] \in Nat
      BY <1>2, <1>5, <2>1
    <3> QED
      BY <3>1, <3>2, <3>3, <3>4
  <2>3. CASE n = 1
    <3>0. \A i \in 1 .. n : i = n
      BY <2>3
    <3>1. \A b \in D : b = s[n]
      BY <1>5, <3>0
    <3>2. \A b \in D : s[n] <= b
      BY <3>1, <1>2
    <3> QED
      BY <2>1, <2>2, <3>2, <1>5 DEF Found, D
  <2>4. CASE n # 1
    <3>1. n - 1 \in 1 .. n - 1 /\ (n - 1) + 1 = n
      BY <1>1, <2>4
    <3>2. ~(key < s[n])
      BY <3>1, <1>6
    <3>4. s[n] \in D
      BY <2>1, <1>5
    <3>6. s[n] \in Nat
      BY <3>4, <1>2
    <3>3. s[n] <= key
      BY <3>2, <3>6, <1>2
    <3>5. \A b \in D : s[n] < b => key < b
      BY <2>2
    <3> QED
      BY <2>1, <3>3, <3>4, <3>5 DEF Found, D
  <2> QED
    BY <2>3, <2>4
<1>7. CASE before # {}
  <2> DEFINE m == Min(before)
  <2>1. m \in before /\ \A i \in before : m <= i
    <3>1. before \in SUBSET Nat
      BY <1>1
    <3> QED
      BY <1>7, <3>1, MinIsLeast
  <2>2. findChild(node, key) = s[m]
    BY <1>4, <1>7
  <2> HIDE DEF m
  <2>3. m \in 1 .. n /\ m \in Nat /\ m + 1 \in 1 .. n /\ key < s[m + 1] /\ (m = 1 \/ m - 1 \in 1 .. n - 1)
    BY <2>1, <1>1
  <2>4. s[m] \in D /\ s[m] \in Nat /\ s[m + 1] \in Nat
    BY <2>3, <1>2, <1>5
  <2>5. ASSUME NEW b \in D, s[m] < b PROVE key < b
    <3>1. PICK j \in 1 .. n : s[j] = b
      BY <1>5
    <3>2. j \in Nat /\ b \in Nat
      BY <1>2
    <3>3. ~(j < m) /\ j # m
      <4>1. j < m => s[j] < s[m]
        BY <1>5, <2>3
      <4> QED
        BY <4>1, <3>1, <3>2, <2>4, <2>5
    <3>4. j = m + 1 \/ m + 1 < j
      BY <3>2, <3>3, <2>3
    <3>5. m + 1 < j => s[m + 1] < s[j]
      BY <1>5, <2>3
    <3> QED
      BY <3>1, <3>2, <3>4, <3>5, <2>3, <2>4, <1>2
  <2>6. CASE m = 1
    <3>1. ASSUME NEW b \in D PROVE s[m] <= b
      <4>1. PICK j \in 1 .. n : s[j] = b
        BY <1>5
      <4>2. j = m \/ m < j
        BY <2>6
      <4>3. m < j => s[m] < s[j]
        BY <1>5, <2>3
      <4>4. b \in Nat
        BY <1>2
      <4> QED
        BY <4>1, <4>2, <4>3, <4>4, <2>4
    <3> QED
      BY <2>2, <2>4, <2>5, <3>1 DEF Found, D
  <2>7. CASE m # 1
    <3>1. m - 1 \in 1 .. n - 1 /\ (m - 1) + 1 = m /\ ~(m <= m - 1)
      BY <2>3, <2>7
    <3>2. m - 1 \notin before
      BY <2>1, <3>1
    <3>3. ~(key < s[m])
      BY <3>1, <3>2
    <3>4. s[m] <= key
      BY <3>3, <2>4, <1>2
    <3> QED
      BY <2>2, <2>4, <2>5, <3>4 DEF Found, D
  <2> QED
    BY <2>6, <2>7
<1> QED
  BY <1>6, <1>7

\* What a split makes of a directory: two with the smaller and the larger names,
\* each filed under its first name.
Halves(node, halves) ==
    LET L == DOMAIN halves.left
        R == DOMAIN halves.right
    IN /\ L \cup R = DOMAIN node
       /\ halves.left = [a \in L |-> node[a]] /\ halves.right = [b \in R |-> node[b]]
       /\ halves.leftFirstKey \in L /\ halves.rightFirstKey \in R
       /\ \A a \in L : halves.leftFirstKey <= a /\ a < halves.rightFirstKey
       /\ \A b \in R : halves.rightFirstKey <= b
       /\ Cardinality(L) = Cardinality(DOMAIN node) \div 2
       /\ Cardinality(R) = Cardinality(DOMAIN node) - Cardinality(DOMAIN node) \div 2

\* splitLeaf and splitInternal divide a directory of two or more names.
LEMMA SplitDivides ==
    ASSUME NEW node, DOMAIN node \in SUBSET Key, Alike(DOMAIN node), IsFiniteSet(DOMAIN node),
           Cardinality(DOMAIN node) >= 2
    PROVE  Halves(node, split(node))
<1> DEFINE D == DOMAIN node
           n == Cardinality(D)
           s == sortEntries(node)
           mid == n \div 2
           L == {s[i] : i \in 1 .. mid}
           R == D \ L
           h == split(node)
<1>1. n \in Nat /\ n >= 2 /\ Len(s) = n
  BY SortedSeq
<1>2. D \in SUBSET Nat
  BY KeyAssumption
<1>3. Lists(s, D)
  BY Sorted
<1>4. h = [left |-> Restrict(node, L), right |-> Restrict(node, R), leftFirstKey |-> s[1], rightFirstKey |-> s[mid + 1]]
  BY <1>1 DEF split
<1>5. /\ h.left = [a \in L |-> node[a]] /\ h.right = [b \in R |-> node[b]]
      /\ h.leftFirstKey = s[1] /\ h.rightFirstKey = s[mid + 1]
  BY <1>4 DEF Restrict
<1> HIDE DEF h, s
<1>6. s \in [1 .. n -> D] /\ (\A i, j \in 1 .. n : i < j => s[i] < s[j])
      /\ \A a \in D : \E i \in 1 .. n : s[i] = a
  BY <1>3 DEF Lists
<1>7. mid \in Nat /\ 1 <= mid /\ mid + 1 <= n /\ 1 \in 1 .. mid /\ mid + 1 \in 1 .. n
  BY <1>1
<1>8. L = {b \in D : b < s[mid + 1]}
  <2>1. ASSUME NEW i \in 1 .. mid PROVE s[i] \in D /\ s[i] < s[mid + 1]
    <3>1. i \in 1 .. n /\ i < mid + 1
      BY <1>1, <1>7
    <3> QED
      BY <3>1, <1>6, <1>7
  <2>2. ASSUME NEW b \in D, b < s[mid + 1] PROVE \E i \in 1 .. mid : s[i] = b
    <3>1. PICK i \in 1 .. n : s[i] = b
      BY <1>6
    <3>2. ~(mid + 1 < i) /\ i # mid + 1
      <4>1. mid + 1 < i => s[mid + 1] < s[i]
        BY <1>6, <1>7
      <4>2. s[mid + 1] \in Nat /\ b \in Nat
        BY <1>2, <1>6, <1>7
      <4> QED
        BY <4>1, <4>2, <2>2, <3>1
    <3>3. i \in 1 .. mid
      BY <3>2, <1>1, <1>7
    <3> QED
      BY <3>1, <3>3
  <2> QED
    BY <2>1, <2>2
<1>9. Cardinality(L) = mid
  <2>1. Cardinality({b \in D : b < s[mid + 1]}) = (mid + 1) - 1
    BY <1>2, <1>3, <1>7, Rank
  <2>2. (mid + 1) - 1 = mid
    BY <1>7
  <2> QED
    BY <1>8, <2>1, <2>2
<1>10. Cardinality(R) = n - mid
  <2>1. D \cap L = L
    BY <1>8
  <2>2. Cardinality(R) = n - Cardinality(D \cap L)
    BY FS_Difference
  <2> QED
    BY <2>1, <2>2, <1>9
<1>11. s[1] \in L /\ s[mid + 1] \in R
  <2>1. s[mid + 1] \in D /\ s[mid + 1] \in Nat
    BY <1>2, <1>6, <1>7
  <2>2. s[mid + 1] \notin L
    BY <1>8, <2>1
  <2> QED
    BY <2>1, <2>2, <1>7
<1>12. ASSUME NEW a \in D PROVE s[1] <= a
  <2>1. PICK i \in 1 .. n : s[i] = a
    BY <1>6
  <2>2. 1 \in 1 .. n /\ (i = 1 \/ 1 < i)
    BY <1>1
  <2>3. 1 < i => s[1] < s[i]
    BY <1>6, <2>2
  <2>4. s[1] \in Nat /\ s[i] \in Nat
    BY <1>2, <1>6, <2>2
  <2> QED
    BY <2>1, <2>2, <2>3, <2>4
<1>13. ASSUME NEW b \in R PROVE s[mid + 1] <= b
  <2>1. s[mid + 1] \in Nat /\ b \in Nat
    BY <1>2, <1>6, <1>7
  <2> QED
    BY <2>1, <1>8
<1>14. L \cup R = D /\ DOMAIN h.left = L /\ DOMAIN h.right = R /\ L \subseteq D
  BY <1>5, <1>8
<1> HIDE DEF L, R, mid
<1> QED
  BY <1>5, <1>8, <1>9, <1>10, <1>11, <1>12, <1>13, <1>14 DEF Halves, mid, h

-----------------------------------------------------------------------------
(* The nodes of a tree *)

\* g gives the first levels of a tree, up to the m-th.
Levels(g, node, m) ==
    /\ DOMAIN g = 0 .. m
    /\ g[0] = {node}
    /\ \A i \in 1 .. m : g[i] = UNION {children(parent) : parent \in g[i - 1]}

\* Any number of levels can be listed.
LEMMA LevelsExist == ASSUME NEW node PROVE \A m \in Nat : \E g : Levels(g, node, m)
<1> DEFINE bad == {m \in Nat : ~\E g : Levels(g, node, m)}
<1>1. SUFFICES ASSUME bad # {} PROVE FALSE
  OBVIOUS
<1>2. PICK m \in bad : \A n \in bad : m <= n
  <2>1. bad \in SUBSET Nat
    OBVIOUS
  <2> QED
    BY <1>1, <2>1, SmallestExists
<1>3. m \in Nat /\ ~\E g : Levels(g, node, m)
  BY <1>2
<1>4. CASE m = 0
  <2>1. Levels([i \in 0 .. 0 |-> {node}], node, 0)
    BY DEF Levels
  <2> QED
    BY <1>3, <1>4, <2>1
<1>5. CASE m # 0
  <2>1. m - 1 \in Nat /\ m - 1 \notin bad
    BY <1>2, <1>3, <1>5
  <2>2. PICK g : Levels(g, node, m - 1)
    BY <2>1
  <2> DEFINE all == [i \in 0 .. m |-> IF i = m THEN UNION {children(parent) : parent \in g[m - 1]} ELSE g[i]]
  <2>3. \A i \in 0 .. m : i # m => i \in 0 .. m - 1
    BY <1>3
  <2>4. all[0] = {node} /\ DOMAIN all = 0 .. m
    BY <1>3, <1>5, <2>2 DEF Levels
  <2>5. ASSUME NEW i \in 1 .. m PROVE all[i] = UNION {children(parent) : parent \in all[i - 1]}
    <3>1. i - 1 \in 0 .. m /\ i - 1 # m /\ i \in 0 .. m
      BY <1>3
    <3>2. all[i - 1] = g[i - 1]
      BY <3>1
    <3>3. CASE i = m
      BY <3>1, <3>2, <3>3
    <3>4. CASE i # m
      <4>1. i \in 1 .. m - 1
        BY <1>3, <3>4
      <4>2. g[i] = UNION {children(parent) : parent \in g[i - 1]}
        BY <2>2, <4>1 DEF Levels
      <4>3. all[i] = g[i]
        BY <3>1, <3>4
      <4> QED
        BY <3>2, <4>2, <4>3
    <3> QED
      BY <3>3, <3>4
  <2>6. Levels(all, node, m)
    BY <2>4, <2>5 DEF Levels
  <2> QED
    BY <1>3, <2>6
<1> QED
  BY <1>4, <1>5

\* Two lists of levels agree as far as both go.
LEMMA LevelsUnique ==
    ASSUME NEW node, NEW m \in Nat, NEW n \in Nat, NEW g, NEW h, Levels(g, node, m), Levels(h, node, n)
    PROVE  \A i \in Nat : i <= m /\ i <= n => g[i] = h[i]
<1> DEFINE bad == {i \in Nat : i <= m /\ i <= n /\ g[i] # h[i]}
<1>1. SUFFICES ASSUME bad # {} PROVE FALSE
  OBVIOUS
<1>2. PICK i \in bad : \A j \in bad : i <= j
  <2>1. bad \in SUBSET Nat
    OBVIOUS
  <2> QED
    BY <1>1, <2>1, SmallestExists
<1>3. i # 0
  BY <1>2 DEF Levels
<1>4. i \in 1 .. m /\ i \in 1 .. n /\ i - 1 \in Nat /\ ~(i <= i - 1)
  BY <1>2, <1>3
<1>5. i - 1 <= m /\ i - 1 <= n
  BY <1>4
<1>6. g[i - 1] = h[i - 1]
  BY <1>2, <1>4, <1>5
<1>7. g[i] = h[i]
  BY <1>4, <1>6 DEF Levels
<1> QED
  BY <1>2, <1>7

\* Level is the function its definition describes.
LEMMA LevelIs ==
    ASSUME NEW node
    PROVE  /\ Level(node)[0] = {node}
           /\ \A n \in Nat : Level(node)[n + 1] = UNION {children(parent) : parent \in Level(node)[n]}
<1> DEFINE list(m) == CHOOSE g : Levels(g, node, m)
           f == [n \in Nat |-> list(n)[n]]
           Is(g) == g = [n \in Nat |-> IF n = 0 THEN {node} ELSE UNION {children(parent) : parent \in g[n - 1]}]
<1>1. ASSUME NEW m \in Nat PROVE Levels(list(m), node, m)
  BY LevelsExist
<1>2. ASSUME NEW n \in Nat, n # 0 PROVE f[n] = UNION {children(parent) : parent \in f[n - 1]}
  <2>1. n - 1 \in Nat /\ n \in 1 .. n /\ n - 1 <= n /\ n - 1 <= n - 1
    BY <1>2
  <2>2. Levels(list(n), node, n) /\ Levels(list(n - 1), node, n - 1)
    BY <1>1, <2>1
  <2> HIDE DEF list
  <2>3. list(n)[n - 1] = list(n - 1)[n - 1]
    BY <2>1, <2>2, LevelsUnique
  <2>4. list(n)[n] = UNION {children(parent) : parent \in list(n)[n - 1]}
    BY <2>1, <2>2 DEF Levels
  <2> QED
    BY <2>1, <2>3, <2>4
<1>3. f[0] = {node}
  <2>1. Levels(list(0), node, 0)
    BY <1>1
  <2> HIDE DEF list
  <2> QED
    BY <2>1 DEF Levels
<1>4. Is(f)
  <2>2. f = [n \in Nat |-> f[n]]
    OBVIOUS
  <2> HIDE DEF f
  <2>1. \A n \in Nat : f[n] = IF n = 0 THEN {node} ELSE UNION {children(parent) : parent \in f[n - 1]}
    BY <1>2, <1>3
  <2> QED
    BY <2>1, <2>2
<1>5. Is(Level(node))
  <2> HIDE DEF f
  <2> QED
    BY <1>4, Zenon DEF Level
<1>6. ASSUME NEW n \in Nat PROVE Level(node)[n + 1] = UNION {children(parent) : parent \in Level(node)[n]}
  <2>1. n + 1 \in Nat /\ n + 1 # 0 /\ (n + 1) - 1 = n
    OBVIOUS
  <2> QED
    BY <1>5, <2>1
<1> QED
  BY <1>5, <1>6

\* The levels of a tree are those of its children, one further down.
LEMMA LevelOfChildren ==
    ASSUME NEW node
    PROVE  \A n \in Nat : Level(node)[n + 1] = UNION {Level(c)[n] : c \in children(node)}
<1> DEFINE bad == {n \in Nat : Level(node)[n + 1] # UNION {Level(c)[n] : c \in children(node)}}
<1>1. SUFFICES ASSUME bad # {} PROVE FALSE
  OBVIOUS
<1>2. PICK n \in bad : \A m \in bad : n <= m
  <2>1. bad \in SUBSET Nat
    OBVIOUS
  <2> QED
    BY <1>1, <2>1, SmallestExists
<1>3. CASE n = 0
  <2>1. Level(node)[0 + 1] = UNION {children(parent) : parent \in {node}}
    BY LevelIs
  <2>2. \A c \in children(node) : Level(c)[0] = {c}
    BY LevelIs
  <2>3. UNION {Level(c)[0] : c \in children(node)} = children(node)
    BY <2>2
  <2> QED
    BY <1>2, <1>3, <2>1, <2>3
<1>4. CASE n # 0
  <2>1. n - 1 \in Nat /\ (n - 1) + 1 = n /\ ~(n <= n - 1)
    BY <1>2, <1>4
  <2>2. Level(node)[n] = UNION {Level(c)[n - 1] : c \in children(node)}
    BY <1>2, <2>1
  <2>3. Level(node)[n + 1] = UNION {children(parent) : parent \in Level(node)[n]}
    BY <1>2, LevelIs
  <2>4. ASSUME NEW c PROVE Level(c)[n] = UNION {children(parent) : parent \in Level(c)[n - 1]}
    BY <2>1, LevelIs
  <2>5. ASSUME NEW x PROVE x \in Level(node)[n + 1] <=> \E c \in children(node) : x \in Level(c)[n]
    <3>1. x \in Level(node)[n + 1] <=> \E parent \in Level(node)[n] : x \in children(parent)
      BY <2>3
    <3>2. x \in Level(node)[n + 1] <=> \E c \in children(node) : \E parent \in Level(c)[n - 1] : x \in children(parent)
      BY <3>1, <2>2
    <3> QED
      BY <3>2, <2>4
  <2> QED
    BY <1>2, <2>5
<1> QED
  BY <1>3, <1>4

\* A tree of at most h levels.
Height(node, h) == h \in Nat /\ Level(node)[h] = {}

\* A tree has h + 1 levels when its children have h.
LEMMA HeightOfChildren ==
    ASSUME NEW node, NEW h \in Nat
    PROVE  /\ ~Height(node, 0)
           /\ Height(node, h + 1) <=> \A c \in children(node) : Height(c, h)
<1>1. Level(node)[0] # {}
  BY LevelIs
<1>2. Level(node)[h + 1] = {} <=> \A c \in children(node) : Level(c)[h] = {}
  <2>1. Level(node)[h + 1] = UNION {Level(c)[h] : c \in children(node)}
    BY LevelOfChildren
  <2> QED
    BY <2>1
<1> QED
  BY <1>1, <1>2 DEF Height

\* Below an empty level there is nothing.
LEMMA HeightGrows ==
    ASSUME NEW node, NEW h \in Nat, Height(node, h)
    PROVE  \A n \in Nat : h <= n => Height(node, n)
<1> DEFINE bad == {n \in Nat : h <= n /\ ~Height(node, n)}
<1>1. SUFFICES ASSUME bad # {} PROVE FALSE
  OBVIOUS
<1>2. PICK n \in bad : \A m \in bad : n <= m
  <2>1. bad \in SUBSET Nat
    OBVIOUS
  <2> QED
    BY <1>1, <2>1, SmallestExists
<1>3. n # h
  BY <1>2
<1>4. n - 1 \in Nat /\ (n - 1) + 1 = n /\ h <= n - 1 /\ ~(n <= n - 1)
  BY <1>2, <1>3
<1>5. Level(node)[n - 1] = {}
  BY <1>2, <1>4 DEF Height
<1>6. Level(node)[n] = UNION {children(parent) : parent \in Level(node)[n - 1]}
  BY <1>4, LevelIs
<1>7. Level(node)[n] = {}
  BY <1>5, <1>6
<1> QED
  BY <1>2, <1>7 DEF Height

\* The nodes of a tree of finite height are those of its levels.
LEMMA BelowIs ==
    ASSUME NEW node, NEW h \in Nat, Height(node, h)
    PROVE  Below(node) = UNION {Level(node)[i] : i \in 0 .. h}
<1> DEFINE L == Level(node)
           Is(g) == g = [n \in Nat |-> LET here == L[n] IN IF here = {} THEN {} ELSE here \cup g[n + 1]]
           f == [n \in Nat |-> UNION {L[i] : i \in n .. h}]
           from == CHOOSE g : Is(g)
<1>1. \A n \in Nat : h <= n => L[n] = {}
  BY HeightGrows DEF Height
<1> HIDE DEF L
<1>2. ASSUME NEW n \in Nat PROVE f[n] = IF L[n] = {} THEN {} ELSE L[n] \cup f[n + 1]
  <2>1. CASE L[n] = {}
    <3>1. ASSUME NEW i \in n .. h PROVE L[i] = {}
      <4>1. Height(node, n)
        BY <2>1 DEF Height, L
      <4> QED
        BY <4>1, HeightGrows DEF Height, L
    <3> QED
      BY <2>1, <3>1
  <2>2. CASE L[n] # {}
    <3>1. n < h
      BY <1>1, <2>2
    <3>2. n .. h = {n} \cup (n + 1) .. h
      BY <3>1
    <3>3. UNION {L[i] : i \in n .. h} = L[n] \cup UNION {L[i] : i \in (n + 1) .. h}
      BY <3>2
    <3> QED
      BY <2>2, <3>3
  <2> QED
    BY <2>1, <2>2
<1>3. Is(f)
  <2>1. f = [n \in Nat |-> f[n]]
    OBVIOUS
  <2> HIDE DEF f
  <2> QED
    BY <1>2, <2>1
<1>4. Is(from)
  <2> HIDE DEF f
  <2> QED
    BY <1>3, Zenon
<1>5. Below(node) = from[0]
  BY Zenon DEF Below, L
<1> HIDE DEF from
<1>6. \A n \in Nat : from[n] = IF L[n] = {} THEN {} ELSE L[n] \cup from[n + 1]
  BY <1>4
<1> DEFINE bad == {d \in Nat : d <= h /\ from[h - d] # f[h - d]}
<1>7. ASSUME bad # {} PROVE FALSE
  <2>1. PICK d \in bad : \A e \in bad : d <= e
    <3>1. bad \in SUBSET Nat
      OBVIOUS
    <3> QED
      BY <1>7, <3>1, SmallestExists
  <2>2. h - d \in Nat /\ d \in Nat
    BY <2>1
  <2> HIDE DEF f
  <2>5. from[h - d] # f[h - d]
    BY <2>1
  <2>6. PICK k \in Nat : k = h - d
    BY <2>2
  <2>7. /\ from[k] = IF L[k] = {} THEN {} ELSE L[k] \cup from[k + 1]
        /\ f[k] = IF L[k] = {} THEN {} ELSE L[k] \cup f[k + 1]
    BY <1>2, <1>6
  <2>3. CASE d = 0
    <3>1. L[k] = {}
      BY <1>1, <2>3, <2>6
    <3> QED
      BY <2>5, <2>6, <2>7, <3>1
  <2>4. CASE d # 0
    <3>1. d - 1 \in Nat /\ d - 1 <= h /\ ~(d <= d - 1) /\ h - (d - 1) = (h - d) + 1
      BY <2>1, <2>4
    <3>2. d - 1 \notin bad
      BY <2>1, <3>1
    <3>3. from[h - (d - 1)] = f[h - (d - 1)]
      BY <3>1, <3>2
    <3>4. from[k + 1] = f[k + 1]
      BY <3>1, <3>3, <2>6
    <3> QED
      BY <2>5, <2>6, <2>7, <3>4
  <2> QED
    BY <2>3, <2>4
<1>8. from[0] = f[0]
  <2>1. h - h = 0 /\ h <= h
    OBVIOUS
  <2> HIDE DEF f
  <2> QED
    BY <1>7, <2>1
<1> QED
  BY <1>5, <1>8 DEF L

\* The nodes of a tree are its root and the nodes below its children.
LEMMA BelowNode ==
    ASSUME NEW node, NEW h \in Nat, Height(node, h)
    PROVE  /\ h - 1 \in Nat /\ h = (h - 1) + 1
           /\ \A c \in children(node) : Height(c, h - 1)
           /\ Below(node) = {node} \cup UNION {Below(c) : c \in children(node)}
<1>1. h - 1 \in Nat /\ h = (h - 1) + 1
  <2>1. ~Height(node, 0)
    BY HeightOfChildren
  <2>2. h # 0
    BY <2>1
  <2> QED
    BY <2>2
<1> DEFINE n == h - 1
<1>2. n \in Nat /\ h = n + 1
  BY <1>1
<1> HIDE DEF n
<1>3. \A c \in children(node) : Height(c, n)
  BY <1>2, HeightOfChildren
<1>4. \A c \in children(node) : Below(c) = UNION {Level(c)[i] : i \in 0 .. n}
  BY <1>2, <1>3, BelowIs
<1>5. Below(node) = UNION {Level(node)[i] : i \in 0 .. n + 1}
  BY <1>2, BelowIs
<1>6. Level(node)[0] = {node} /\ \A i \in Nat : Level(node)[i + 1] = UNION {Level(c)[i] : c \in children(node)}
  BY LevelIs, LevelOfChildren
<1>7. ASSUME NEW x
      PROVE  (\E i \in 0 .. n + 1 : x \in Level(node)[i])
             <=> x = node \/ \E c \in children(node) : \E i \in 0 .. n : x \in Level(c)[i]
  <2>1. ASSUME NEW i \in 0 .. n + 1, x \in Level(node)[i], x # node
        PROVE  \E c \in children(node) : \E j \in 0 .. n : x \in Level(c)[j]
    <3>1. i # 0
      BY <1>6, <2>1
    <3>2. i - 1 \in 0 .. n /\ i - 1 \in Nat /\ (i - 1) + 1 = i
      BY <1>2, <3>1
    <3>3. x \in UNION {Level(c)[i - 1] : c \in children(node)}
      BY <1>6, <2>1, <3>2
    <3> QED
      BY <3>2, <3>3
  <2>2. ASSUME NEW c \in children(node), NEW j \in 0 .. n, x \in Level(c)[j]
        PROVE  \E i \in 0 .. n + 1 : x \in Level(node)[i]
    <3>1. j + 1 \in 0 .. n + 1 /\ j \in Nat
      BY <1>2
    <3>2. x \in Level(node)[j + 1]
      BY <1>6, <2>2, <3>1
    <3> QED
      BY <3>1, <3>2
  <2>3. 0 \in 0 .. n + 1 /\ node \in Level(node)[0]
    BY <1>2, <1>6
  <2> QED
    BY <2>1, <2>2, <2>3
<1>8. ASSUME NEW x PROVE x \in Below(node) <=> x = node \/ \E c \in children(node) : x \in Below(c)
  <2>1. x \in Below(node) <=> \E i \in 0 .. n + 1 : x \in Level(node)[i]
    BY <1>5
  <2>2. \A c \in children(node) : x \in Below(c) <=> \E i \in 0 .. n : x \in Level(c)[i]
    BY <1>4
  <2> QED
    BY <1>7, <2>1, <2>2
<1>9. Below(node) = {node} \cup UNION {Below(c) : c \in children(node)}
  BY <1>8
<1> QED
  BY <1>1, <1>3, <1>9 DEF n

\* Every node of a tree is the root of a tree whose nodes are some of it, and the
\* nodes other than the root are roots of lower trees.
LEMMA BelowInside ==
    ASSUME NEW node, NEW h \in Nat, Height(node, h)
    PROVE  \A x \in Below(node) :
               /\ Height(x, h) /\ (x # node => Height(x, h - 1))
               /\ Below(x) \subseteq Below(node) /\ children(x) \subseteq Below(node)
<1> DEFINE Fine(y, n) == \A x \in Below(y) :
               /\ Height(x, n) /\ (x # y => Height(x, n - 1))
               /\ Below(x) \subseteq Below(y) /\ children(x) \subseteq Below(y)
           bad == {n \in Nat : \E y : Height(y, n) /\ ~Fine(y, n)}
<1>1. SUFFICES bad = {}
  BY <1>1
<1>2. SUFFICES ASSUME bad # {} PROVE FALSE
  OBVIOUS
<1>3. PICK n \in bad : \A m \in bad : n <= m
  <2>1. bad \in SUBSET Nat
    OBVIOUS
  <2> HIDE DEF bad
  <2> QED
    BY <1>2, <2>1, SmallestExists
<1>4. PICK y : Height(y, n) /\ ~Fine(y, n)
  BY <1>3
<1>5. n \in Nat
  BY <1>3
<1>6. /\ n - 1 \in Nat /\ n = (n - 1) + 1
      /\ \A c \in children(y) : Height(c, n - 1)
      /\ Below(y) = {y} \cup UNION {Below(c) : c \in children(y)}
  BY <1>4, <1>5, BelowNode
<1>7. ASSUME NEW c \in children(y) PROVE Fine(c, n - 1)
  <2>1. n - 1 \notin bad
    BY <1>3, <1>6
  <2> QED
    BY <2>1, <1>6
<1>8. ASSUME NEW x \in Below(y)
      PROVE  /\ Height(x, n) /\ (x # y => Height(x, n - 1))
             /\ Below(x) \subseteq Below(y) /\ children(x) \subseteq Below(y)
  <2>1. CASE x = y
    <3>1. ASSUME NEW c \in children(y) PROVE c \in Below(c)
      <4>1. Below(c) = {c} \cup UNION {Below(d) : d \in children(c)}
        BY <1>6, BelowNode
      <4> QED
        BY <4>1
    <3> QED
      BY <2>1, <3>1, <1>4, <1>6
  <2>2. CASE x # y
    <3>1. PICK c \in children(y) : x \in Below(c)
      BY <1>6, <2>2
    <3>2. Height(x, n - 1) /\ Below(x) \subseteq Below(c) /\ children(x) \subseteq Below(c)
      BY <1>7, <3>1
    <3>3. Height(x, n)
      BY <3>2, <1>6, HeightGrows
    <3> QED
      BY <3>1, <3>2, <3>3, <1>6
  <2> QED
    BY <2>1, <2>2
<1> QED
  BY <1>4, <1>8

-----------------------------------------------------------------------------
(* Search trees *)

\* A directory of the index: names to values, or names to directories.  Its names
\* are keys that localeCompare and < order alike.
Directory(m) ==
    /\ DOMAIN m \in SUBSET Key /\ Alike(DOMAIN m) /\ IsFiniteSet(DOMAIN m) /\ DOMAIN m # {}
    /\ m = [a \in DOMAIN m |-> m[a]]
    /\ \/ \A a \in DOMAIN m : m[a] = Blob(m[a].value) /\ m[a].value \in Value
       \/ \A a \in DOMAIN m : m[a] = Dir(m[a].node)

\* The names in a tree, those of its leaves included, and its entries.
Names(node) == UNION {DOMAIN m : m \in Below(node)}
Content(node) == UNION {{<<k, m[k].value>> : k \in DOMAIN m} : m \in {x \in Below(node) : isLeafNode(x)}}

\* The names of an internal node divide the names below it.
Ordered(m) ==
    \A a, b \in DOMAIN m : a < b =>
        /\ \A k \in Names(m[a].node) : k < b
        /\ \A k \in Names(m[b].node) : b <= k

\* No child holds a name before its own, the first child included.
Low(m) == \A a \in DOMAIN m : \A k \in Names(m[a].node) : a <= k
AllLow(node) == \A x \in Below(node) : ~isLeafNode(x) => Low(x)

\* A tree of directories in which names divide names everywhere and everything
\* that is not on the left edge is AllLow.
Sound(node) ==
    \A m \in Below(node) :
        /\ Directory(m)
        /\ ~isLeafNode(m) => Ordered(m) /\ \A a, b \in DOMAIN m : a < b => AllLow(m[b].node)

\* The number of entries a directory may have.
Sized(m) == Cardinality(DOMAIN m) \in (IF isLeafNode(m) \/ Order < 4 THEN 1 ELSE 2) .. Max({maxKeys, 2})
AllSized(node) == \A x \in Below(node) : Sized(x)

\* A directory holds values or directories, never both.
LEMMA Kinds ==
    ASSUME NEW m, Directory(m)
    PROVE  /\ isLeafNode(m) => /\ \A a \in DOMAIN m : m[a] = Blob(m[a].value) /\ m[a].value \in Value
                               /\ children(m) = {}
           /\ ~isLeafNode(m) => /\ \A a \in DOMAIN m : m[a] = Dir(m[a].node)
                                /\ children(m) = {m[a].node : a \in DOMAIN m}
           /\ (\A a \in DOMAIN m : m[a] = Blob(m[a].value)) => isLeafNode(m)
           /\ (\A a \in DOMAIN m : m[a] = Dir(m[a].node)) => ~isLeafNode(m)
<1>1. \A v : Blob(v).type = "Blob"
  BY DEF Blob
<1>2. \A n : Dir(n).type = "Dir"
  BY DEF Dir
<1>3. DOMAIN m # {}
  BY DEF Directory
<1>4. (\A a \in DOMAIN m : m[a] = Blob(m[a].value)) => isLeafNode(m)
  BY <1>1, <1>3 DEF isLeafNode
<1>5. (\A a \in DOMAIN m : m[a] = Dir(m[a].node)) => ~isLeafNode(m)
  BY <1>2, <1>3 DEF isLeafNode
<1> QED
  BY <1>4, <1>5 DEF Directory, children

\* What is said of a tree, said of a leaf.
LEMMA Leaf ==
    ASSUME NEW node, Directory(node), isLeafNode(node)
    PROVE  /\ \A h \in Nat : h # 0 => Height(node, h)
           /\ Below(node) = {node}
           /\ Names(node) = DOMAIN node
           /\ Content(node) = {<<k, node[k].value>> : k \in DOMAIN node}
           /\ Sound(node) /\ AllLow(node)
           /\ AllSized(node) <=> Sized(node)
<1>1. children(node) = {}
  BY Kinds
<1>2. ASSUME NEW h \in Nat, h # 0 PROVE Height(node, h)
  <2>1. h - 1 \in Nat /\ h = (h - 1) + 1
    BY <1>2
  <2>2. Height(node, (h - 1) + 1) <=> \A c \in children(node) : Height(c, h - 1)
    BY <2>1, HeightOfChildren
  <2> QED
    BY <1>1, <2>1, <2>2
<1>3. Below(node) = {node} \cup UNION {Below(c) : c \in children(node)}
  BY <1>2, BelowNode
<1>4. Below(node) = {node}
  BY <1>1, <1>3
<1> QED
  BY <1>2, <1>4 DEF Names, Content, Sound, AllLow, AllSized

\* What is said of a tree, said of its root and its children.
LEMMA Internal ==
    ASSUME NEW node, Directory(node), ~isLeafNode(node), NEW h \in Nat,
           \A a \in DOMAIN node : Height(node[a].node, h)
    PROVE  /\ Height(node, h + 1)
           /\ Below(node) = {node} \cup UNION {Below(node[a].node) : a \in DOMAIN node}
           /\ Names(node) = DOMAIN node \cup UNION {Names(node[a].node) : a \in DOMAIN node}
           /\ Content(node) = UNION {Content(node[a].node) : a \in DOMAIN node}
           /\ Sound(node) <=> /\ Ordered(node)
                              /\ \A a, b \in DOMAIN node : a < b => AllLow(node[b].node)
                              /\ \A a \in DOMAIN node : Sound(node[a].node)
           /\ AllLow(node) <=> Low(node) /\ \A a \in DOMAIN node : AllLow(node[a].node)
           /\ AllSized(node) <=> Sized(node) /\ \A a \in DOMAIN node : AllSized(node[a].node)
<1>1. children(node) = {node[a].node : a \in DOMAIN node}
  BY Kinds
<1>2. Height(node, h + 1)
  BY <1>1, HeightOfChildren
<1>3. Below(node) = {node} \cup UNION {Below(c) : c \in children(node)}
  <2>1. h + 1 \in Nat
    OBVIOUS
  <2> QED
    BY <1>2, <2>1, BelowNode
<1>4. \A x : x \in Below(node) <=> x = node \/ \E a \in DOMAIN node : x \in Below(node[a].node)
  BY <1>1, <1>3
<1>5. Below(node) = {node} \cup UNION {Below(node[a].node) : a \in DOMAIN node}
  BY <1>4
<1>6. Names(node) = DOMAIN node \cup UNION {Names(node[a].node) : a \in DOMAIN node}
  <2>1. ASSUME NEW k
        PROVE  k \in Names(node) <=> k \in DOMAIN node \/ \E a \in DOMAIN node : k \in Names(node[a].node)
    <3>1. k \in Names(node) <=> \E x \in Below(node) : k \in DOMAIN x
      BY DEF Names
    <3>2. \A a \in DOMAIN node : k \in Names(node[a].node) <=> \E x \in Below(node[a].node) : k \in DOMAIN x
      BY DEF Names
    <3> QED
      BY <1>4, <3>1, <3>2
  <2> QED
    BY <2>1
<1>7. Content(node) = UNION {Content(node[a].node) : a \in DOMAIN node}
  <2>1. ASSUME NEW e
        PROVE  e \in Content(node) <=> \E a \in DOMAIN node : e \in Content(node[a].node)
    <3>1. e \in Content(node) <=> \E x \in Below(node) : isLeafNode(x) /\ \E k \in DOMAIN x : e = <<k, x[k].value>>
      BY DEF Content
    <3>2. \A a \in DOMAIN node : e \in Content(node[a].node)
              <=> \E x \in Below(node[a].node) : isLeafNode(x) /\ \E k \in DOMAIN x : e = <<k, x[k].value>>
      BY DEF Content
    <3> QED
      BY <1>4, <3>1, <3>2
  <2> QED
    BY <2>1
<1>8. Sound(node) <=> /\ Ordered(node)
                      /\ \A a, b \in DOMAIN node : a < b => AllLow(node[b].node)
                      /\ \A a \in DOMAIN node : Sound(node[a].node)
  BY <1>4 DEF Sound
<1>9. AllLow(node) <=> Low(node) /\ \A a \in DOMAIN node : AllLow(node[a].node)
  BY <1>4 DEF AllLow
<1>10. AllSized(node) <=> Sized(node) /\ \A a \in DOMAIN node : AllSized(node[a].node)
  BY <1>4 DEF AllSized
<1> QED
  BY <1>2, <1>5, <1>6, <1>7, <1>8, <1>9, <1>10

-----------------------------------------------------------------------------
(* The recursions over the nodes of a tree *)

\* A tree of directories of at most h levels.
Tree(node, h) == Height(node, h) /\ \A m \in Below(node) : Directory(m)

\* The nodes of a tree of directories are trees of directories.
LEMMA TreeInside ==
    ASSUME NEW node, NEW h \in Nat, Tree(node, h)
    PROVE  /\ Directory(node) /\ node \in Below(node)
           /\ h - 1 \in Nat /\ ~(h <= h - 1)
           /\ \A c \in children(node) : Tree(c, h - 1)
           /\ \A x \in Below(node) : /\ Tree(x, h) /\ (x # node => Tree(x, h - 1))
                                     /\ children(x) \subseteq Below(node)
                                     /\ \A c \in children(x) : Tree(c, h - 1)
<1>1. Height(node, h)
  BY DEF Tree
<1>2. /\ h - 1 \in Nat /\ h = (h - 1) + 1
      /\ \A c \in children(node) : Height(c, h - 1)
      /\ Below(node) = {node} \cup UNION {Below(c) : c \in children(node)}
  BY <1>1, BelowNode
<1>3. \A x \in Below(node) :
               /\ Height(x, h) /\ (x # node => Height(x, h - 1))
               /\ Below(x) \subseteq Below(node) /\ children(x) \subseteq Below(node)
  BY <1>1, BelowInside
<1>4. ASSUME NEW x \in Below(node) PROVE \A c \in children(x) : Height(c, h - 1) /\ c \in Below(node)
  <2>1. Height(x, h)
    BY <1>3
  <2> QED
    BY <1>3, <2>1, BelowNode
<1>5. \A c \in children(node) : c \in Below(node)
  BY <1>2, <1>4
<1> QED
  BY <1>2, <1>3, <1>4, <1>5 DEF Tree

\* findChild leads from an internal node to one of its children.
LEMMA NextChild ==
    ASSUME NEW node, Directory(node), ~isLeafNode(node), NEW key \in Key
    PROVE  /\ Found(node, key, findChild(node, key))
           /\ node[findChild(node, key)].node \in children(node)
<1>1. Found(node, key, findChild(node, key))
  BY FindChild DEF Directory
<1>2. children(node) = {node[a].node : a \in DOMAIN node}
  BY Kinds
<1> QED
  BY <1>1, <1>2 DEF Found

\* What insertRecursive makes of a node, from what it makes of the child.
insertStep(node, key, value, result) ==
    IF isLeafNode(node) THEN setEntry(node, key, Blob(value))
    ELSE LET child == findChild(node, key)
         IN IF overflows(result) THEN withHalves(removeEntry(node, child), split(result))
            ELSE setEntry(node, child, Dir(result))

\* insertRecursive follows one path and makes a new node of each on it.
LEMMA InsertIs ==
    ASSUME NEW key \in Key, NEW value, NEW node, NEW h \in Nat, Tree(node, h)
    PROVE  insertRecursive(node, key, value) =
               insertStep(node, key, value, insertRecursive(node[findChild(node, key)].node, key, value))
<1> DEFINE op(x) == insertRecursive(x, key, value)
           next(x) == x[findChild(x, key)].node
           E(x, below) == insertStep(x, key, value, below)
           Is(g, y) == g = [x \in Below(y) |-> E(x, g[next(x)])]
           Fine(y) == /\ op(y) = E(y, op(next(y)))
                      /\ \A z, g : \A n \in Nat : Is(g, z) /\ Tree(z, n) /\ y \in Below(z) => g[y] = op(y)
           bad == {n \in Nat : \E y : Tree(y, n) /\ ~Fine(y)}
<1>1. \A x : isLeafNode(x) => \A r, s : E(x, r) = E(x, s)
  BY DEF insertStep
<1>2. ASSUME NEW y, \E g : Is(g, y) PROVE \E g : Is(g, y) /\ op(y) = g[y]
  <2> DEFINE G == CHOOSE g : Is(g, y)
  <2>1. Is(G, y)
    <3> HIDE DEF Is
    <3> QED
      BY <1>2, Zenon
  <2>2. op(y) = G[y]
    BY Zenon DEF insertRecursive, insertStep
  <2> HIDE DEF G, op, Is
  <2> QED
    BY <2>1, <2>2
<1>3. \A x : Directory(x) /\ ~isLeafNode(x) => next(x) \in children(x)
  BY NextChild
<1> HIDE DEF op, E, next
<1>4. SUFFICES ASSUME bad # {} PROVE FALSE
  BY <1>4 DEF op, E, next
<1>5. PICK n \in bad : \A m \in bad : n <= m
  <2>1. bad \in SUBSET Nat
    OBVIOUS
  <2> QED
    BY <1>4, <2>1, SmallestExists
<1>6. PICK y : Tree(y, n) /\ ~Fine(y)
  BY <1>5
<1>7. n \in Nat
  BY <1>5
<1>8. /\ Directory(y) /\ y \in Below(y)
      /\ n - 1 \in Nat /\ ~(n <= n - 1)
      /\ \A c \in children(y) : Tree(c, n - 1)
      /\ \A x \in Below(y) : /\ Tree(x, n) /\ (x # y => Tree(x, n - 1))
                             /\ children(x) \subseteq Below(y)
                             /\ \A c \in children(x) : Tree(c, n - 1)
  BY <1>6, <1>7, TreeInside
<1>9. \A x : Tree(x, n - 1) => Fine(x)
  BY <1>5, <1>8
<1>10. ~Tree(y, n - 1)
  BY <1>6, <1>9
<1>11. \A x \in Below(y) : ~isLeafNode(x) => next(x) \in Below(y) /\ next(x) # y /\ Tree(next(x), n - 1)
  <2>1. \A x \in Below(y) : Directory(x)
    BY <1>6 DEF Tree
  <2> QED
    BY <1>3, <1>8, <1>10, <2>1
<1>12. \E g : Is(g, y)
  <2> DEFINE F == [x \in Below(y) |-> IF x = y THEN E(y, op(next(y))) ELSE op(x)]
  <2>1. ASSUME NEW x \in Below(y) PROVE F[x] = E(x, F[next(x)])
    <3>1. F[x] = E(x, op(next(x)))
      <4>1. x # y => Fine(x)
        BY <1>8, <1>9
      <4> QED
        BY <4>1
    <3>2. CASE isLeafNode(x)
      BY <1>1, <3>1, <3>2
    <3>3. CASE ~isLeafNode(x)
      <4>1. F[next(x)] = op(next(x))
        BY <1>11, <3>3
      <4> QED
        BY <3>1, <4>1
    <3> QED
      BY <3>2, <3>3
  <2>2. F = [x \in Below(y) |-> F[x]]
    OBVIOUS
  <2> HIDE DEF F
  <2>3. Is(F, y)
    BY <2>1, <2>2
  <2> QED
    BY <2>3
<1>13. ASSUME NEW z, NEW g, NEW m \in Nat, Is(g, z), Tree(z, m), y \in Below(z)
       PROVE  g[y] = E(y, op(next(y)))
  <2>1. g[y] = E(y, g[next(y)])
    BY <1>13
  <2>2. CASE isLeafNode(y)
    BY <1>1, <2>1, <2>2
  <2>3. CASE ~isLeafNode(y)
    <3>1. children(y) \subseteq Below(z)
      BY <1>13, TreeInside
    <3>2. next(y) \in Below(z)
      BY <1>3, <1>8, <2>3, <3>1
    <3>3. Fine(next(y))
      BY <1>8, <1>9, <1>11, <2>3
    <3>4. g[next(y)] = op(next(y))
      BY <1>13, <3>2, <3>3
    <3> QED
      BY <2>1, <3>4
  <2> QED
    BY <2>2, <2>3
<1>14. op(y) = E(y, op(next(y)))
  <2>1. PICK g : Is(g, y) /\ op(y) = g[y]
    BY <1>2, <1>12
  <2> HIDE DEF Is
  <2> QED
    BY <1>6, <1>7, <1>8, <1>13, <2>1
<1>15. Fine(y)
  <2> HIDE DEF Is
  <2> QED
    BY <1>13, <1>14
<1> QED
  BY <1>6, <1>15

\* What delete makes of a node, from what it makes of the child.
deleteStep(node, key, newChild) ==
    IF isLeafNode(node)
    THEN IF key \in DOMAIN node THEN afterRemoval(removeEntry(node, key)) ELSE node
    ELSE LET child == findChild(node, key)
         IN IF newChild = None THEN afterRemoval(removeEntry(node, child)) ELSE setEntry(node, child, Dir(newChild))

\* delete follows one path and makes a new node of each on it.
LEMMA DeleteIs ==
    ASSUME NEW key \in Key, NEW node, NEW h \in Nat, Tree(node, h)
    PROVE  delete(node, key) = deleteStep(node, key, delete(node[findChild(node, key)].node, key))
<1> DEFINE op(x) == delete(x, key)
           next(x) == x[findChild(x, key)].node
           E(x, below) == deleteStep(x, key, below)
           Is(g, y) == g = [x \in Below(y) |-> E(x, g[next(x)])]
           Fine(y) == /\ op(y) = E(y, op(next(y)))
                      /\ \A z, g : \A n \in Nat : Is(g, z) /\ Tree(z, n) /\ y \in Below(z) => g[y] = op(y)
           bad == {n \in Nat : \E y : Tree(y, n) /\ ~Fine(y)}
<1>1. \A x : isLeafNode(x) => \A r, s : E(x, r) = E(x, s)
  BY DEF deleteStep
<1>2. ASSUME NEW y, \E g : Is(g, y) PROVE \E g : Is(g, y) /\ op(y) = g[y]
  <2> DEFINE G == CHOOSE g : Is(g, y)
  <2>1. Is(G, y)
    <3> HIDE DEF Is
    <3> QED
      BY <1>2, Zenon
  <2>2. op(y) = G[y]
    BY Zenon DEF delete, deleteStep
  <2> HIDE DEF G, op, Is
  <2> QED
    BY <2>1, <2>2
<1>3. \A x : Directory(x) /\ ~isLeafNode(x) => next(x) \in children(x)
  BY NextChild
<1> HIDE DEF op, E, next
<1>4. SUFFICES ASSUME bad # {} PROVE FALSE
  BY <1>4 DEF op, E, next
<1>5. PICK n \in bad : \A m \in bad : n <= m
  <2>1. bad \in SUBSET Nat
    OBVIOUS
  <2> QED
    BY <1>4, <2>1, SmallestExists
<1>6. PICK y : Tree(y, n) /\ ~Fine(y)
  BY <1>5
<1>7. n \in Nat
  BY <1>5
<1>8. /\ Directory(y) /\ y \in Below(y)
      /\ n - 1 \in Nat /\ ~(n <= n - 1)
      /\ \A c \in children(y) : Tree(c, n - 1)
      /\ \A x \in Below(y) : /\ Tree(x, n) /\ (x # y => Tree(x, n - 1))
                             /\ children(x) \subseteq Below(y)
                             /\ \A c \in children(x) : Tree(c, n - 1)
  BY <1>6, <1>7, TreeInside
<1>9. \A x : Tree(x, n - 1) => Fine(x)
  BY <1>5, <1>8
<1>10. ~Tree(y, n - 1)
  BY <1>6, <1>9
<1>11. \A x \in Below(y) : ~isLeafNode(x) => next(x) \in Below(y) /\ next(x) # y /\ Tree(next(x), n - 1)
  <2>1. \A x \in Below(y) : Directory(x)
    BY <1>6 DEF Tree
  <2> QED
    BY <1>3, <1>8, <1>10, <2>1
<1>12. \E g : Is(g, y)
  <2> DEFINE F == [x \in Below(y) |-> IF x = y THEN E(y, op(next(y))) ELSE op(x)]
  <2>1. ASSUME NEW x \in Below(y) PROVE F[x] = E(x, F[next(x)])
    <3>1. F[x] = E(x, op(next(x)))
      <4>1. x # y => Fine(x)
        BY <1>8, <1>9
      <4> QED
        BY <4>1
    <3>2. CASE isLeafNode(x)
      BY <1>1, <3>1, <3>2
    <3>3. CASE ~isLeafNode(x)
      <4>1. F[next(x)] = op(next(x))
        BY <1>11, <3>3
      <4> QED
        BY <3>1, <4>1
    <3> QED
      BY <3>2, <3>3
  <2>2. F = [x \in Below(y) |-> F[x]]
    OBVIOUS
  <2> HIDE DEF F
  <2>3. Is(F, y)
    BY <2>1, <2>2
  <2> QED
    BY <2>3
<1>13. ASSUME NEW z, NEW g, NEW m \in Nat, Is(g, z), Tree(z, m), y \in Below(z)
       PROVE  g[y] = E(y, op(next(y)))
  <2>1. g[y] = E(y, g[next(y)])
    BY <1>13
  <2>2. CASE isLeafNode(y)
    BY <1>1, <2>1, <2>2
  <2>3. CASE ~isLeafNode(y)
    <3>1. children(y) \subseteq Below(z)
      BY <1>13, TreeInside
    <3>2. next(y) \in Below(z)
      BY <1>3, <1>8, <2>3, <3>1
    <3>3. Fine(next(y))
      BY <1>8, <1>9, <1>11, <2>3
    <3>4. g[next(y)] = op(next(y))
      BY <1>13, <3>2, <3>3
    <3> QED
      BY <2>1, <3>4
  <2> QED
    BY <2>2, <2>3
<1>14. op(y) = E(y, op(next(y)))
  <2>1. PICK g : Is(g, y) /\ op(y) = g[y]
    BY <1>2, <1>12
  <2> HIDE DEF Is
  <2> QED
    BY <1>6, <1>7, <1>8, <1>13, <2>1
<1>15. Fine(y)
  <2> HIDE DEF Is
  <2> QED
    BY <1>13, <1>14
<1> QED
  BY <1>6, <1>15

\* No root, and no value, is not a directory.
NoneApart == \A node : Directory(node) => node # None

\* What get answers at a node, from what it answers at the child.
getStep(node, key, below) ==
    IF isLeafNode(node) THEN IF key \in DOMAIN node THEN node[key].value ELSE None ELSE below

\* get follows one path.
LEMMA GetIs ==
    ASSUME NoneApart, NEW key \in Key, NEW node, NEW h \in Nat, Tree(node, h)
    PROVE  get(node, key) = getStep(node, key, get(node[findChild(node, key)].node, key))
<1> DEFINE op(x) == get(x, key)
           next(x) == x[findChild(x, key)].node
           E(x, below) == getStep(x, key, below)
           Is(g, y) == g = [x \in Below(y) |-> E(x, g[next(x)])]
           Fine(y) == /\ op(y) = E(y, op(next(y)))
                      /\ \A z, g : \A n \in Nat : Is(g, z) /\ Tree(z, n) /\ y \in Below(z) => g[y] = op(y)
           bad == {n \in Nat : \E y : Tree(y, n) /\ ~Fine(y)}
<1>1. \A x : isLeafNode(x) => \A r, s : E(x, r) = E(x, s)
  BY DEF getStep
<1>2. ASSUME NEW y, Directory(y), \E g : Is(g, y) PROVE \E g : Is(g, y) /\ op(y) = g[y]
  <2> DEFINE G == CHOOSE g : Is(g, y)
  <2>1. Is(G, y)
    <3> HIDE DEF Is
    <3> QED
      BY <1>2, Zenon
  <2>2. op(y) = G[y]
    BY <1>2, Zenon DEF get, getStep, NoneApart
  <2> HIDE DEF G, op, Is
  <2> QED
    BY <2>1, <2>2
<1>3. \A x : Directory(x) /\ ~isLeafNode(x) => next(x) \in children(x)
  BY NextChild
<1> HIDE DEF op, E, next
<1>4. SUFFICES ASSUME bad # {} PROVE FALSE
  BY <1>4 DEF op, E, next
<1>5. PICK n \in bad : \A m \in bad : n <= m
  <2>1. bad \in SUBSET Nat
    OBVIOUS
  <2> QED
    BY <1>4, <2>1, SmallestExists
<1>6. PICK y : Tree(y, n) /\ ~Fine(y)
  BY <1>5
<1>7. n \in Nat
  BY <1>5
<1>8. /\ Directory(y) /\ y \in Below(y)
      /\ n - 1 \in Nat /\ ~(n <= n - 1)
      /\ \A c \in children(y) : Tree(c, n - 1)
      /\ \A x \in Below(y) : /\ Tree(x, n) /\ (x # y => Tree(x, n - 1))
                             /\ children(x) \subseteq Below(y)
                             /\ \A c \in children(x) : Tree(c, n - 1)
  BY <1>6, <1>7, TreeInside
<1>9. \A x : Tree(x, n - 1) => Fine(x)
  BY <1>5, <1>8
<1>10. ~Tree(y, n - 1)
  BY <1>6, <1>9
<1>11. \A x \in Below(y) : ~isLeafNode(x) => next(x) \in Below(y) /\ next(x) # y /\ Tree(next(x), n - 1)
  <2>1. \A x \in Below(y) : Directory(x)
    BY <1>6 DEF Tree
  <2> QED
    BY <1>3, <1>8, <1>10, <2>1
<1>12. \E g : Is(g, y)
  <2> DEFINE F == [x \in Below(y) |-> IF x = y THEN E(y, op(next(y))) ELSE op(x)]
  <2>1. ASSUME NEW x \in Below(y) PROVE F[x] = E(x, F[next(x)])
    <3>1. F[x] = E(x, op(next(x)))
      <4>1. x # y => Fine(x)
        BY <1>8, <1>9
      <4> QED
        BY <4>1
    <3>2. CASE isLeafNode(x)
      BY <1>1, <3>1, <3>2
    <3>3. CASE ~isLeafNode(x)
      <4>1. F[next(x)] = op(next(x))
        BY <1>11, <3>3
      <4> QED
        BY <3>1, <4>1
    <3> QED
      BY <3>2, <3>3
  <2>2. F = [x \in Below(y) |-> F[x]]
    OBVIOUS
  <2> HIDE DEF F
  <2>3. Is(F, y)
    BY <2>1, <2>2
  <2> QED
    BY <2>3
<1>13. ASSUME NEW z, NEW g, NEW m \in Nat, Is(g, z), Tree(z, m), y \in Below(z)
       PROVE  g[y] = E(y, op(next(y)))
  <2>1. g[y] = E(y, g[next(y)])
    BY <1>13
  <2>2. CASE isLeafNode(y)
    BY <1>1, <2>1, <2>2
  <2>3. CASE ~isLeafNode(y)
    <3>1. children(y) \subseteq Below(z)
      BY <1>13, TreeInside
    <3>2. next(y) \in Below(z)
      BY <1>3, <1>8, <2>3, <3>1
    <3>3. Fine(next(y))
      BY <1>8, <1>9, <1>11, <2>3
    <3>4. g[next(y)] = op(next(y))
      BY <1>13, <3>2, <3>3
    <3> QED
      BY <2>1, <3>4
  <2> QED
    BY <2>2, <2>3
<1>14. op(y) = E(y, op(next(y)))
  <2>1. PICK g : Is(g, y) /\ op(y) = g[y]
    BY <1>2, <1>8, <1>12
  <2> HIDE DEF Is
  <2> QED
    BY <1>6, <1>7, <1>8, <1>13, <2>1
<1>15. Fine(y)
  <2> HIDE DEF Is
  <2> QED
    BY <1>13, <1>14
<1> QED
  BY <1>6, <1>15

\* What a traversal yields at a node, from what it yields at the children.
rangeStep(node, start, end, below) ==
    LET sorted == sortEntries(node)
        part(i) == IF i \notin visited(node, start, end) THEN <<>>
                   ELSE IF isLeafNode(node) THEN <<<<sorted[i], node[sorted[i]].value>>>>
                   ELSE below[node[sorted[i]].node]
    IN FlattenSeq([i \in 1 .. Len(sorted) |-> part(i)])

\* rangeTraverse yields one after the other what it yields at the children.
LEMMA RangeIs ==
    ASSUME NEW start, NEW end, NEW node, NEW h \in Nat, Tree(node, h)
    PROVE  rangeTraverse(node, start, end) =
               rangeStep(node, start, end, [c \in children(node) |-> rangeTraverse(c, start, end)])
<1> DEFINE op(x) == rangeTraverse(x, start, end)
           results(x) == [c \in children(x) |-> op(c)]
           E(x, below) == rangeStep(x, start, end, below)
           Is(g, y) == g = [x \in Below(y) |-> E(x, g)]
           Fine(y) == /\ op(y) = E(y, results(y))
                      /\ \A z, g : \A n \in Nat : Is(g, z) /\ Tree(z, n) /\ y \in Below(z) => g[y] = op(y)
           bad == {n \in Nat : \E y : Tree(y, n) /\ ~Fine(y)}
<1>1. ASSUME NEW x, Directory(x), NEW r, NEW s, \A c \in children(x) : r[c] = s[c] PROVE E(x, r) = E(x, s)
  <2>1. \A i \in 1 .. Len(sortEntries(x)) : ~isLeafNode(x) => r[x[sortEntries(x)[i]].node] = s[x[sortEntries(x)[i]].node]
    <3>1. sortEntries(x) \in Seq(DOMAIN x)
      BY <1>1, SortedSeq DEF Directory
    <3>2. \A i \in 1 .. Len(sortEntries(x)) : sortEntries(x)[i] \in DOMAIN x
      BY <3>1
    <3> QED
      BY <1>1, <3>2, Kinds
  <2> DEFINE sorted == sortEntries(x)
             part(b, i) == IF i \notin visited(x, start, end) THEN <<>>
                           ELSE IF isLeafNode(x) THEN <<<<sorted[i], x[sorted[i]].value>>>>
                           ELSE b[x[sorted[i]].node]
  <2>2. [i \in 1 .. Len(sorted) |-> part(r, i)] = [i \in 1 .. Len(sorted) |-> part(s, i)]
    BY <2>1
  <2> QED
    BY <2>2, Zenon DEF rangeStep
<1>2. ASSUME NEW y, \E g : Is(g, y) PROVE \E g : Is(g, y) /\ op(y) = g[y]
  <2> DEFINE G == CHOOSE g : Is(g, y)
  <2>1. Is(G, y)
    <3> HIDE DEF Is
    <3> QED
      BY <1>2, Zenon
  <2>2. op(y) = G[y]
    BY Zenon DEF rangeTraverse, rangeStep
  <2> HIDE DEF G, op, Is
  <2> QED
    BY <2>1, <2>2
<1> HIDE DEF op, E
<1>4. SUFFICES ASSUME bad # {} PROVE FALSE
  BY <1>4 DEF op, E
<1>5. PICK n \in bad : \A m \in bad : n <= m
  <2>1. bad \in SUBSET Nat
    OBVIOUS
  <2> QED
    BY <1>4, <2>1, SmallestExists
<1>6. PICK y : Tree(y, n) /\ ~Fine(y)
  BY <1>5
<1>7. n \in Nat
  BY <1>5
<1>8. /\ Directory(y) /\ y \in Below(y)
      /\ n - 1 \in Nat /\ ~(n <= n - 1)
      /\ \A c \in children(y) : Tree(c, n - 1)
      /\ \A x \in Below(y) : /\ Tree(x, n) /\ (x # y => Tree(x, n - 1))
                             /\ children(x) \subseteq Below(y)
                             /\ \A c \in children(x) : Tree(c, n - 1)
  BY <1>6, <1>7, TreeInside
<1>9. \A x : Tree(x, n - 1) => Fine(x)
  BY <1>5, <1>8
<1>10. ~Tree(y, n - 1)
  BY <1>6, <1>9
<1>11. \A x \in Below(y) : \A c \in children(x) : c \in Below(y) /\ c # y /\ Tree(c, n - 1)
  BY <1>8, <1>10
<1>12. \A x \in Below(y) : Directory(x)
  BY <1>6 DEF Tree
<1>13. \E g : Is(g, y)
  <2> DEFINE F == [x \in Below(y) |-> IF x = y THEN E(y, results(y)) ELSE op(x)]
  <2>1. ASSUME NEW x \in Below(y) PROVE F[x] = E(x, F)
    <3>1. F[x] = E(x, results(x))
      <4>1. x # y => Fine(x)
        BY <1>8, <1>9
      <4> QED
        BY <4>1
    <3>2. \A c \in children(x) : F[c] = results(x)[c]
      BY <1>11
    <3> HIDE DEF F, results
    <3> QED
      BY <1>1, <1>12, <3>1, <3>2
  <2>2. F = [x \in Below(y) |-> F[x]]
    OBVIOUS
  <2> HIDE DEF F
  <2>3. Is(F, y)
    BY <2>1, <2>2
  <2> QED
    BY <2>3
<1>14. ASSUME NEW z, NEW g, NEW m \in Nat, Is(g, z), Tree(z, m), y \in Below(z)
       PROVE  g[y] = E(y, results(y))
  <2>1. g[y] = E(y, g)
    BY <1>14
  <2>2. children(y) \subseteq Below(z)
    BY <1>14, TreeInside
  <2>3. \A c \in children(y) : Fine(c)
    BY <1>8, <1>9
  <2>4. \A c \in children(y) : g[c] = results(y)[c]
    BY <1>14, <2>2, <2>3
  <2> HIDE DEF results
  <2> QED
    BY <1>1, <1>8, <2>1, <2>4
<1>15. op(y) = E(y, results(y))
  <2>1. PICK g : Is(g, y) /\ op(y) = g[y]
    BY <1>2, <1>13
  <2> HIDE DEF Is
  <2> QED
    BY <1>6, <1>7, <1>8, <1>14, <2>1
<1>16. Fine(y)
  <2> HIDE DEF Is
  <2> QED
    BY <1>14, <1>15
<1> QED
  BY <1>6, <1>16

-----------------------------------------------------------------------------
(* get *)

\* A search tree is a tree of directories, and so are its children.
LEMMA SoundInside ==
    ASSUME NEW node, NEW h \in Nat, Height(node, h), Sound(node)
    PROVE  /\ Tree(node, h) /\ Directory(node) /\ h - 1 \in Nat /\ h = (h - 1) + 1 /\ ~(h <= h - 1)
           /\ ~isLeafNode(node) =>
                /\ \A a \in DOMAIN node : /\ node[a] = Dir(node[a].node)
                                          /\ Sound(node[a].node) /\ Height(node[a].node, h - 1)
                                          /\ Directory(node[a].node)
                /\ Ordered(node)
                /\ \A a, b \in DOMAIN node : a < b => AllLow(node[b].node)
<1>1. Tree(node, h)
  BY DEF Tree, Sound
<1>2. Directory(node) /\ h - 1 \in Nat /\ ~(h <= h - 1) /\ \A c \in children(node) : Tree(c, h - 1)
  BY <1>1, TreeInside
<1>3. h = (h - 1) + 1
  BY <1>2
<1>4. ASSUME ~isLeafNode(node)
      PROVE  /\ \A a \in DOMAIN node : /\ node[a] = Dir(node[a].node)
                                       /\ Sound(node[a].node) /\ Height(node[a].node, h - 1)
                                       /\ Directory(node[a].node)
             /\ Ordered(node)
             /\ \A a, b \in DOMAIN node : a < b => AllLow(node[b].node)
  <2>1. children(node) = {node[a].node : a \in DOMAIN node} /\ \A a \in DOMAIN node : node[a] = Dir(node[a].node)
    BY <1>2, <1>4, Kinds
  <2>2. \A a \in DOMAIN node : Tree(node[a].node, h - 1)
    BY <1>2, <2>1
  <2>3. \A a \in DOMAIN node : Height(node[a].node, h - 1)
    BY <2>2 DEF Tree
  <2>4. Sound(node) <=> /\ Ordered(node)
                        /\ \A a, b \in DOMAIN node : a < b => AllLow(node[b].node)
                        /\ \A a \in DOMAIN node : Sound(node[a].node)
    BY <1>2, <1>4, <2>3, Internal
  <2>5. \A a \in DOMAIN node : Directory(node[a].node)
    BY <1>2, <2>2, TreeInside
  <2> QED
    BY <2>1, <2>3, <2>4, <2>5
<1> QED
  BY <1>1, <1>2, <1>3, <1>4

\* A key that occurs below an internal node occurs below the child findChild
\* leads to, and nowhere else.
LEMMA OnlyThere ==
    ASSUME NEW node, Directory(node), Ordered(node), NEW key \in Key, NEW c, Found(node, key, c),
           NEW a \in DOMAIN node, key \in Names(node[a].node)
    PROVE  a = c
<1>1. a \in Nat /\ c \in Nat /\ key \in Nat /\ c \in DOMAIN node /\ \A b \in DOMAIN node : b \in Nat
  BY KeyAssumption DEF Directory, Found
<1>2. ASSUME c < a PROVE FALSE
  <2>1. a <= key
    BY <1>1, <1>2 DEF Ordered
  <2>2. key < a
    BY <1>2 DEF Found
  <2> QED
    BY <1>1, <2>1, <2>2
<1>3. ASSUME a < c PROVE FALSE
  <2>1. key < c
    BY <1>1, <1>3 DEF Ordered
  <2>2. c <= key \/ c <= a
    BY DEF Found
  <2> QED
    BY <1>1, <1>3, <2>1, <2>2
<1> QED
  BY <1>1, <1>2, <1>3

\* In a search tree get finds the entries of the leaves, and one for each key.
LEMMA GetFinds ==
    ASSUME NoneApart, NEW key \in Key,
           NEW node, NEW h \in Nat, Height(node, h), Sound(node)
    PROVE  /\ \A v \in Value : <<key, v>> \in Content(node) <=> get(node, key) = v
           /\ get(node, key) \in Value \cup {None}
           /\ Content(node) \subseteq Names(node) \X Value
           /\ Names(node) \subseteq Key
<1> DEFINE Fine(y) == /\ \A v \in Value : <<key, v>> \in Content(y) <=> get(y, key) = v
                      /\ get(y, key) \in Value \cup {None}
                      /\ Content(y) \subseteq Names(y) \X Value
                      /\ Names(y) \subseteq Key
           bad == {n \in Nat : \E y : Height(y, n) /\ Sound(y) /\ ~Fine(y)}
<1>1. SUFFICES ASSUME bad # {} PROVE FALSE
  BY <1>1
<1>2. PICK n \in bad : \A m \in bad : n <= m
  <2>1. bad \in SUBSET Nat
    OBVIOUS
  <2> QED
    BY <1>1, <2>1, SmallestExists
<1>3. PICK y : Height(y, n) /\ Sound(y) /\ ~Fine(y)
  BY <1>2
<1>4. n \in Nat
  BY <1>2
<1>5. /\ Tree(y, n) /\ Directory(y) /\ n - 1 \in Nat /\ n = (n - 1) + 1 /\ ~(n <= n - 1)
      /\ ~isLeafNode(y) =>
            /\ \A a \in DOMAIN y : /\ y[a] = Dir(y[a].node)
                                   /\ Sound(y[a].node) /\ Height(y[a].node, n - 1)
                                   /\ Directory(y[a].node)
            /\ Ordered(y)
            /\ \A a, b \in DOMAIN y : a < b => AllLow(y[b].node)
  BY <1>3, <1>4, SoundInside
<1>6. get(y, key) = getStep(y, key, get(y[findChild(y, key)].node, key))
  BY <1>4, <1>5, GetIs
<1>7. CASE isLeafNode(y)
  <2>1. Names(y) = DOMAIN y /\ Content(y) = {<<k, y[k].value>> : k \in DOMAIN y}
    BY <1>5, <1>7, Leaf
  <2>2. DOMAIN y \subseteq Key /\ \A a \in DOMAIN y : y[a].value \in Value
    BY <1>5, <1>7, Kinds DEF Directory
  <2>3. get(y, key) = IF key \in DOMAIN y THEN y[key].value ELSE None
    BY <1>6, <1>7 DEF getStep
  <2>4. None \notin Value
    BY NoneAssumption
  <2>5. ASSUME NEW v \in Value PROVE <<key, v>> \in Content(y) <=> get(y, key) = v
    <3>1. <<key, v>> \in Content(y) <=> key \in DOMAIN y /\ v = y[key].value
      BY <2>1
    <3> QED
      BY <2>3, <2>4, <3>1
  <2>6. get(y, key) \in Value \cup {None}
    BY <2>2, <2>3
  <2>7. Content(y) \subseteq Names(y) \X Value
    BY <2>1, <2>2
  <2> QED
    BY <1>3, <2>1, <2>2, <2>5, <2>6, <2>7
<1>8. CASE ~isLeafNode(y)
  <2> DEFINE c == findChild(y, key)
  <2>1. Found(y, key, c) /\ c \in DOMAIN y
    BY <1>5, <1>8, NextChild DEF Found
  <2>2. \A a \in DOMAIN y : Fine(y[a].node)
    <3> HIDE DEF Fine
    <3> QED
      BY <1>2, <1>5, <1>8
  <2>3. get(y, key) = get(y[c].node, key)
    BY <1>6, <1>8 DEF getStep
  <2>4. /\ Names(y) = DOMAIN y \cup UNION {Names(y[a].node) : a \in DOMAIN y}
        /\ Content(y) = UNION {Content(y[a].node) : a \in DOMAIN y}
    BY <1>5, <1>8, Internal
  <2>5. ASSUME NEW v \in Value PROVE <<key, v>> \in Content(y) <=> <<key, v>> \in Content(y[c].node)
    <3>1. ASSUME NEW a \in DOMAIN y, <<key, v>> \in Content(y[a].node) PROVE a = c
      <4>1. key \in Names(y[a].node)
        BY <2>2, <3>1
      <4> HIDE DEF c
      <4> QED
        BY <1>5, <1>8, <2>1, <4>1, OnlyThere
    <3> QED
      BY <2>1, <2>4, <3>1
  <2>6. Names(y) \subseteq Key
    BY <1>5, <2>2, <2>4 DEF Directory
  <2>7. Content(y) \subseteq Names(y) \X Value
    <3>1. ASSUME NEW a \in DOMAIN y PROVE Content(y[a].node) \subseteq Names(y) \X Value
      BY <2>2, <2>4
    <3> QED
      BY <2>4, <3>1
  <2> HIDE DEF c
  <2> QED
    BY <1>3, <2>1, <2>2, <2>3, <2>5, <2>6, <2>7
<1> QED
  BY <1>7, <1>8

-----------------------------------------------------------------------------
(* Parts of nodes *)

\* The children of a node are within the limits.
SizedBelow(node) == ~isLeafNode(node) => \A a \in DOMAIN node : AllSized(node[a].node)

\* The limits on all nodes are those on the root and those below it.
LEMMA SizedRoot ==
    ASSUME NEW node, NEW h \in Nat, Height(node, h), Sound(node)
    PROVE  AllSized(node) <=> Sized(node) /\ SizedBelow(node)
<1>1. /\ Directory(node) /\ h - 1 \in Nat
      /\ ~isLeafNode(node) => \A a \in DOMAIN node : Height(node[a].node, h - 1)
  BY SoundInside
<1>2. CASE isLeafNode(node)
  BY <1>1, <1>2, Leaf DEF SizedBelow
<1>3. CASE ~isLeafNode(node)
  <2>1. AllSized(node) <=> Sized(node) /\ \A a \in DOMAIN node : AllSized(node[a].node)
    BY <1>1, <1>3, Internal
  <2> QED
    BY <1>3, <2>1 DEF SizedBelow
<1> QED
  BY <1>2, <1>3

\* sub holds the entries of a node under the names of S: it is a node of the same
\* kind, and a search tree like it.
PartOf(sub, S, node, h) ==
    /\ DOMAIN sub = S /\ Height(sub, h) /\ Sound(sub)
    /\ isLeafNode(sub) <=> isLeafNode(node)
    /\ AllLow(node) => AllLow(sub)
    /\ SizedBelow(node) => SizedBelow(sub)
    /\ Names(sub) \subseteq Names(node)
    /\ isLeafNode(node) => /\ Names(sub) = S
                           /\ Content(sub) = {<<k, node[k].value>> : k \in S}
    /\ ~isLeafNode(node) => /\ Names(sub) = S \cup UNION {Names(node[a].node) : a \in S}
                            /\ Content(sub) = UNION {Content(node[a].node) : a \in S}

\* Some of the entries of a node make such a part.
LEMMA SubNode ==
    ASSUME NEW node, NEW h \in Nat, Height(node, h), Sound(node),
           NEW S \in SUBSET DOMAIN node, S # {}, NEW sub, sub = [a \in S |-> node[a]]
    PROVE  PartOf(sub, S, node, h)
<1>1. DOMAIN sub = S /\ \A a \in S : sub[a] = node[a]
  OBVIOUS
<1>2. /\ Directory(node) /\ h - 1 \in Nat /\ h = (h - 1) + 1
      /\ ~isLeafNode(node) =>
            /\ \A a \in DOMAIN node : /\ node[a] = Dir(node[a].node)
                                      /\ Sound(node[a].node) /\ Height(node[a].node, h - 1)
                                      /\ Directory(node[a].node)
            /\ Ordered(node)
            /\ \A a, b \in DOMAIN node : a < b => AllLow(node[b].node)
  BY SoundInside
<1>3. S \in SUBSET Key /\ Alike(S) /\ IsFiniteSet(S)
  BY <1>2, FS_Subset DEF Directory, Alike
<1>4. sub = [a \in DOMAIN sub |-> sub[a]]
  BY <1>1
<1>5. h # 0
  BY <1>2
<1>6. CASE isLeafNode(node)
  <2>1. \A a \in S : node[a] = Blob(node[a].value) /\ node[a].value \in Value
    BY <1>2, <1>6, Kinds
  <2>2. \A a \in DOMAIN sub : sub[a] = Blob(sub[a].value) /\ sub[a].value \in Value
    BY <1>1, <2>1
  <2>3. Directory(sub)
    BY <1>1, <1>3, <1>4, <2>2 DEF Directory
  <2>4. isLeafNode(sub)
    BY <2>2, <2>3, Kinds
  <2>5. /\ Height(sub, h) /\ Names(sub) = DOMAIN sub /\ Sound(sub) /\ AllLow(sub)
        /\ Content(sub) = {<<k, sub[k].value>> : k \in DOMAIN sub}
    BY <1>5, <2>3, <2>4, Leaf
  <2>6. Names(node) = DOMAIN node
    BY <1>2, <1>6, Leaf
  <2>7. Content(sub) = {<<k, node[k].value>> : k \in S}
    BY <1>1, <2>5
  <2> QED
    BY <1>1, <1>6, <2>4, <2>5, <2>6, <2>7 DEF SizedBelow, PartOf
<1>7. CASE ~isLeafNode(node)
  <2>1. \A a \in DOMAIN sub : sub[a] = Dir(sub[a].node)
    BY <1>1, <1>2, <1>7
  <2>2. Directory(sub)
    BY <1>1, <1>3, <1>4, <2>1 DEF Directory
  <2>3. ~isLeafNode(sub)
    BY <2>1, <2>2, Kinds
  <2>4. \A a \in DOMAIN sub : Height(sub[a].node, h - 1)
    BY <1>1, <1>2, <1>7
  <2>5. /\ Height(sub, (h - 1) + 1)
        /\ Names(sub) = DOMAIN sub \cup UNION {Names(sub[a].node) : a \in DOMAIN sub}
        /\ Content(sub) = UNION {Content(sub[a].node) : a \in DOMAIN sub}
        /\ Sound(sub) <=> /\ Ordered(sub)
                          /\ \A a, b \in DOMAIN sub : a < b => AllLow(sub[b].node)
                          /\ \A a \in DOMAIN sub : Sound(sub[a].node)
        /\ AllLow(sub) <=> Low(sub) /\ \A a \in DOMAIN sub : AllLow(sub[a].node)
    BY <1>2, <2>2, <2>3, <2>4, Internal
  <2>6. /\ Names(node) = DOMAIN node \cup UNION {Names(node[a].node) : a \in DOMAIN node}
        /\ AllLow(node) <=> Low(node) /\ \A a \in DOMAIN node : AllLow(node[a].node)
    BY <1>2, <1>7, Internal
  <2>7. Sound(sub)
    <3>1. Ordered(sub)
      BY <1>1, <1>2, <1>7 DEF Ordered
    <3> QED
      BY <1>1, <1>2, <1>7, <2>5, <3>1
  <2>8. AllLow(node) => AllLow(sub)
    BY <1>1, <2>5, <2>6 DEF Low
  <2>9. Names(sub) = S \cup UNION {Names(node[a].node) : a \in S}
    BY <1>1, <2>5
  <2>10. Content(sub) = UNION {Content(node[a].node) : a \in S}
    BY <1>1, <2>5
  <2>11. Names(sub) \subseteq Names(node)
    BY <2>6, <2>9
  <2>12. SizedBelow(node) => SizedBelow(sub)
    BY <1>1, <1>7 DEF SizedBelow
  <2> QED
    BY <1>1, <1>2, <1>7, <2>3, <2>5, <2>7, <2>8, <2>9, <2>10, <2>11, <2>12 DEF PartOf
<1> QED
  BY <1>6, <1>7

\* The numbers of entries of the halves are within the limits.
LEMMA HalfSizes ==
    ASSUME NEW n \in Nat, n > maxKeys, n <= Max({maxKeys, 2}) + 1
    PROVE  /\ n >= 2
           /\ n \div 2 \in (IF Order < 4 THEN 1 ELSE 2) .. Max({maxKeys, 2})
           /\ n - n \div 2 \in (IF Order < 4 THEN 1 ELSE 2) .. Max({maxKeys, 2})
<1>1. maxKeys \in Nat /\ maxKeys >= 1 /\ maxKeys + 1 = Order
  BY OrderAssumption DEF maxKeys
<1>2. Max({maxKeys, 2}) \in {maxKeys, 2} /\ Max({maxKeys, 2}) >= maxKeys /\ Max({maxKeys, 2}) >= 2
  <2>1. \E m \in {maxKeys, 2} : \A k \in {maxKeys, 2} : m >= k
    BY <1>1
  <2> QED
    BY <2>1 DEF Max
<1> DEFINE cap == Max({maxKeys, 2})
<1> HIDE DEF cap, maxKeys
<1>3. cap \in Nat /\ cap >= 2 /\ (cap = maxKeys \/ cap = 2) /\ n <= cap + 1
  BY <1>1, <1>2 DEF cap
<1>4. PICK q \in Nat : q = n \div 2
  OBVIOUS
<1>5. n = 2 * q \/ n = 2 * q + 1
  BY <1>4
<1> QED
  BY <1>1, <1>3, <1>4, <1>5 DEF cap

\* Two search trees that divide what was in one.
SoundHalves(node, h, halves) ==
    LET left == halves.left
        right == halves.right
        l == halves.leftFirstKey
        r == halves.rightFirstKey
    IN /\ Height(left, h) /\ Sound(left) /\ AllSized(left)
       /\ Height(right, h) /\ Sound(right) /\ AllSized(right) /\ AllLow(right)
       /\ l \in Names(node) /\ r \in Names(node) /\ l < r
       /\ Names(left) \subseteq Names(node) /\ Names(right) \subseteq Names(node)
       /\ (\A k \in Names(left) : k < r) /\ (\A k \in Names(right) : r <= k)
       /\ AllLow(node) => AllLow(left) /\ \A k \in Names(left) : l <= k
       /\ Content(left) \cup Content(right) = Content(node)

\* splitLeaf and splitInternal make two search trees of a node that is one entry
\* too large.
LEMMA SplitSound ==
    ASSUME NEW node, NEW h \in Nat, Height(node, h), Sound(node), SizedBelow(node),
           overflows(node), Cardinality(DOMAIN node) <= Max({maxKeys, 2}) + 1
    PROVE  SoundHalves(node, h, split(node))
<1> DEFINE n == Cardinality(DOMAIN node)
           left == split(node).left
           right == split(node).right
           l == split(node).leftFirstKey
           r == split(node).rightFirstKey
           L == DOMAIN left
           R == DOMAIN right
<1>1. /\ Directory(node) /\ h - 1 \in Nat
      /\ ~isLeafNode(node) =>
            /\ \A a \in DOMAIN node : Height(node[a].node, h - 1)
            /\ Ordered(node)
            /\ \A a, b \in DOMAIN node : a < b => AllLow(node[b].node)
  BY SoundInside
<1>2. /\ DOMAIN node \in SUBSET Key /\ Alike(DOMAIN node) /\ IsFiniteSet(DOMAIN node)
      /\ n \in Nat /\ DOMAIN node \in SUBSET Nat
  BY <1>1, FS_CardinalityType, KeyAssumption DEF Directory
<1>3. /\ n >= 2
      /\ n \div 2 \in (IF Order < 4 THEN 1 ELSE 2) .. Max({maxKeys, 2})
      /\ n - n \div 2 \in (IF Order < 4 THEN 1 ELSE 2) .. Max({maxKeys, 2})
  <2> HIDE DEF n
  <2>1. n > maxKeys
    BY DEF overflows, n
  <2>2. n <= Max({maxKeys, 2}) + 1
    BY DEF n
  <2> QED
    BY <1>2, <2>1, <2>2, HalfSizes
<1>4. Halves(node, split(node))
  BY <1>2, <1>3, SplitDivides
<1>5. /\ L \cup R = DOMAIN node
      /\ left = [a \in L |-> node[a]] /\ right = [b \in R |-> node[b]]
      /\ l \in L /\ r \in R
      /\ \A a \in L : l <= a /\ a < r
      /\ \A b \in R : r <= b
      /\ Cardinality(L) = n \div 2 /\ Cardinality(R) = n - n \div 2
  BY <1>4 DEF Halves
<1> HIDE DEF left, right, l, r, n
<1>6. L \in SUBSET DOMAIN node /\ L # {} /\ R \in SUBSET DOMAIN node /\ R # {}
  BY <1>5
<1>7. /\ Height(left, h) /\ Sound(left)
      /\ isLeafNode(left) <=> isLeafNode(node)
      /\ AllLow(node) => AllLow(left)
      /\ SizedBelow(left)
      /\ Names(left) \subseteq Names(node)
      /\ isLeafNode(node) => /\ Names(left) = L
                             /\ Content(left) = {<<k, node[k].value>> : k \in L}
      /\ ~isLeafNode(node) => /\ Names(left) = L \cup UNION {Names(node[a].node) : a \in L}
                              /\ Content(left) = UNION {Content(node[a].node) : a \in L}
  <2>1. PartOf(left, L, node, h)
    BY <1>5, <1>6, SubNode
  <2> QED
    BY <2>1 DEF PartOf
<1>8. /\ Height(right, h) /\ Sound(right)
      /\ isLeafNode(right) <=> isLeafNode(node)
      /\ SizedBelow(right)
      /\ Names(right) \subseteq Names(node)
      /\ isLeafNode(node) => /\ Names(right) = R
                             /\ Content(right) = {<<k, node[k].value>> : k \in R}
      /\ ~isLeafNode(node) => /\ Names(right) = R \cup UNION {Names(node[a].node) : a \in R}
                              /\ Content(right) = UNION {Content(node[a].node) : a \in R}
  <2>1. PartOf(right, R, node, h)
    BY <1>5, <1>6, SubNode
  <2> QED
    BY <2>1 DEF PartOf
<1>9. AllSized(left) /\ AllSized(right)
  <2>1. Sized(left) /\ Sized(right)
    BY <1>3, <1>5, OrderAssumption DEF Sized
  <2> QED
    BY <1>7, <1>8, <2>1, SizedRoot
<1>10. CASE isLeafNode(node)
  <2>1. Names(node) = DOMAIN node /\ Content(node) = {<<k, node[k].value>> : k \in DOMAIN node}
    BY <1>1, <1>10, Leaf
  <2>2. Directory(right)
    BY <1>8, SoundInside
  <2>3. AllLow(right)
    BY <1>8, <1>10, <2>2, Leaf
  <2>4. Content(left) \cup Content(right) = Content(node)
    BY <1>5, <1>7, <1>8, <1>10, <2>1
  <2>5. l \in Names(node) /\ r \in Names(node) /\ l < r
    BY <1>5, <2>1
  <2>6. (\A k \in Names(left) : k < r) /\ (\A k \in Names(right) : r <= k) /\ (\A k \in Names(left) : l <= k)
    BY <1>5, <1>7, <1>8, <1>10
  <2> QED
    BY <1>7, <1>8, <1>9, <2>3, <2>4, <2>5, <2>6 DEF SoundHalves, left, right, l, r
<1>11. CASE ~isLeafNode(node)
  <2>1. /\ Names(node) = DOMAIN node \cup UNION {Names(node[a].node) : a \in DOMAIN node}
        /\ Content(node) = UNION {Content(node[a].node) : a \in DOMAIN node}
        /\ AllLow(node) <=> Low(node) /\ \A a \in DOMAIN node : AllLow(node[a].node)
    BY <1>1, <1>11, Internal
  <2>2. \A a \in DOMAIN node : \A k \in Names(node[a].node) : k \in Nat
    <3>1. ASSUME NEW a \in DOMAIN node PROVE Names(node[a].node) \subseteq Nat
      <4>1. \A m \in Below(node[a].node) : DOMAIN m \subseteq Nat
        <5>1. Sound(node[a].node)
          BY <1>11, SoundInside
        <5> QED
          BY <5>1, KeyAssumption DEF Sound, Directory
      <4> QED
        BY <4>1 DEF Names
    <3> QED
      BY <3>1
  <2>3. l < r /\ l \in Nat /\ r \in Nat /\ l \in DOMAIN node /\ r \in DOMAIN node
    BY <1>2, <1>5
  <2>4. \A b \in R : l < b /\ b \in Nat
    BY <1>2, <1>5, <2>3
  <2>5. ASSUME NEW k \in Names(left) PROVE k < r
    <3>1. CASE k \in L
      BY <1>5, <3>1
    <3>2. CASE \E a \in L : k \in Names(node[a].node)
      BY <1>1, <1>5, <1>11, <3>2 DEF Ordered
    <3> QED
      BY <1>7, <1>11, <3>1, <3>2
  <2>6. ASSUME NEW b \in R, NEW k \in Names(node[b].node) PROVE b <= k
    BY <1>1, <1>5, <1>11, <2>3, <2>4 DEF Ordered
  <2>7. ASSUME NEW k \in Names(right) PROVE r <= k
    <3>1. CASE k \in R
      BY <1>5, <3>1
    <3>2. ASSUME NEW b \in R, k \in Names(node[b].node) PROVE r <= k
      <4>1. b <= k /\ r <= b /\ b \in Nat /\ k \in Nat
        BY <1>5, <2>2, <2>4, <2>6, <3>2
      <4> QED
        BY <2>3, <4>1
    <3> QED
      BY <1>8, <1>11, <3>1, <3>2
  <2>8. AllLow(right)
    <3>1. Directory(right) /\ \A a \in R : Height(right[a].node, h - 1)
      BY <1>8, <1>11, SoundInside
    <3>2. AllLow(right) <=> Low(right) /\ \A a \in R : AllLow(right[a].node)
      BY <1>1, <1>8, <1>11, <3>1, Internal
    <3>3. \A b \in R : right[b] = node[b]
      BY <1>5
    <3>4. Low(right)
      BY <2>6, <3>3 DEF Low
    <3>5. \A b \in R : AllLow(node[b].node)
      BY <1>1, <1>5, <1>11, <2>3, <2>4
    <3> QED
      BY <3>2, <3>3, <3>4, <3>5
  <2>9. ASSUME AllLow(node), NEW k \in Names(left) PROVE l <= k
    <3>1. CASE k \in L
      BY <1>5, <3>1
    <3>2. ASSUME NEW a \in L, k \in Names(node[a].node) PROVE l <= k
      <4>1. a <= k
        BY <2>1, <2>9, <3>2, <1>5 DEF Low
      <4>2. l <= a /\ a \in Nat /\ k \in Nat
        BY <1>2, <1>5, <2>2, <3>2
      <4> QED
        BY <2>3, <4>1, <4>2
    <3> QED
      BY <1>7, <1>11, <3>1, <3>2
  <2>10. Content(left) \cup Content(right) = Content(node)
    BY <1>5, <1>7, <1>8, <1>11, <2>1
  <2> QED
    BY <1>7, <1>8, <1>9, <2>1, <2>3, <2>5, <2>7, <2>8, <2>9, <2>10 DEF SoundHalves, left, right, l, r
<1> QED
  BY <1>10, <1>11

\* The nodes of N, in place of the child c of a node, fit between its other
\* children and divide names among themselves.
Fits(new, N, node, c, h) ==
    /\ N \in SUBSET Key /\ IsFiniteSet(N) /\ N # {} /\ c \in DOMAIN node /\ Alike((DOMAIN node \ {c}) \cup N)
    /\ \A x \in N : /\ new[x] = Dir(new[x].node) /\ Sound(new[x].node) /\ Height(new[x].node, h - 1)
                    /\ \A b \in DOMAIN node : c < b => x < b /\ \A k \in Names(new[x].node) : k < b
                    /\ (\E a \in DOMAIN node : a < c) =>
                         c <= x /\ AllLow(new[x].node) /\ \A k \in Names(new[x].node) : x <= k
    /\ \A x, y \in N : x < y => /\ \A k \in Names(new[x].node) : k < y
                                /\ \A k \in Names(new[y].node) : y <= k
                                /\ AllLow(new[y].node)

\* new is a node in which those of N have taken the place of the child c.
Assembled(new, N, node, c, h) ==
    /\ ~isLeafNode(new) /\ Height(new, h) /\ Sound(new)
    /\ SizedBelow(node) /\ (\A x \in N : AllSized(new[x].node)) => SizedBelow(new)
    /\ \A k : k \in Names(new) <=> \/ k \in N \/ \E x \in N : k \in Names(new[x].node)
                                   \/ \E a \in DOMAIN node \ {c} : k = a \/ k \in Names(node[a].node)
    /\ \A e : e \in Content(new) <=> \/ \E x \in N : e \in Content(new[x].node)
                                     \/ \E a \in DOMAIN node \ {c} : e \in Content(node[a].node)
    /\ AllLow(node) /\ (\A x \in N : AllLow(new[x].node) /\ \A k \in Names(new[x].node) : x <= k) => AllLow(new)

\* Nodes that fit make a search tree.
LEMMA Assemble ==
    ASSUME NEW node, NEW h \in Nat, Height(node, h), Sound(node), ~isLeafNode(node),
           NEW new, NEW N, NEW c, Fits(new, N, node, c, h),
           new = [a \in (DOMAIN node \ {c}) \cup N |-> new[a]],
           \A a \in DOMAIN node \ {c} : a \notin N /\ new[a] = node[a]
    PROVE  Assembled(new, N, node, c, h)
<1> DEFINE D == DOMAIN node
           O == D \ {c}
<1>1. /\ Directory(node) /\ h - 1 \in Nat /\ h = (h - 1) + 1
      /\ \A a \in D : /\ node[a] = Dir(node[a].node)
                      /\ Sound(node[a].node) /\ Height(node[a].node, h - 1)
      /\ Ordered(node)
      /\ \A a, b \in D : a < b => AllLow(node[b].node)
  BY SoundInside
<1>2. D \in SUBSET Key /\ IsFiniteSet(D) /\ D \in SUBSET Nat /\ N \in SUBSET Nat /\ c \in Nat /\ c \in D
  BY <1>1, KeyAssumption DEF Directory, Fits
<1>3. DOMAIN new = O \cup N /\ \A a \in O : new[a] = node[a]
  OBVIOUS
<1>4. Directory(new)
  <2>1. IsFiniteSet(O) /\ IsFiniteSet(N) /\ N # {} /\ N \in SUBSET Key
    BY <1>2, FS_Subset DEF Fits
  <2>2. IsFiniteSet(DOMAIN new)
    <3>1. IsFiniteSet(O \cup N)
      <4> HIDE DEF O
      <4> QED
        BY <2>1, FS_Union
    <3> QED
      BY <1>3, <3>1
  <2>3. \A a \in DOMAIN new : new[a] = Dir(new[a].node)
    BY <1>1, <1>3 DEF Fits
  <2> HIDE DEF O, D
  <2>4. new = [a \in DOMAIN new |-> new[a]]
    BY <1>3 DEF O, D
  <2>5. O \in SUBSET Key
    BY <1>2 DEF O
  <2>6. Alike(DOMAIN new)
    BY <1>3 DEF Fits, O, D
  <2> QED
    BY <1>2, <1>3, <2>1, <2>2, <2>3, <2>4, <2>5, <2>6 DEF Directory
<1>5. ~isLeafNode(new)
  <2>1. \A a \in DOMAIN new : new[a] = Dir(new[a].node)
    BY <1>1, <1>3 DEF Fits
  <2> QED
    BY <1>4, <2>1, Kinds
<1>6. \A a \in DOMAIN new : Height(new[a].node, h - 1) /\ Sound(new[a].node)
  BY <1>1, <1>3 DEF Fits
<1>7. /\ Height(new, (h - 1) + 1)
      /\ Names(new) = DOMAIN new \cup UNION {Names(new[a].node) : a \in DOMAIN new}
      /\ Content(new) = UNION {Content(new[a].node) : a \in DOMAIN new}
      /\ Sound(new) <=> /\ Ordered(new)
                        /\ \A a, b \in DOMAIN new : a < b => AllLow(new[b].node)
                        /\ \A a \in DOMAIN new : Sound(new[a].node)
      /\ AllLow(new) <=> Low(new) /\ \A a \in DOMAIN new : AllLow(new[a].node)
  BY <1>1, <1>4, <1>5, <1>6, Internal
<1>8. ASSUME NEW a \in O, NEW x \in N PROVE (a < x => a < c) /\ (x < a => c < a)
  <2>1. a \in Nat /\ x \in Nat /\ (a < c \/ c < a)
    BY <1>2
  <2>2. c < a => x < a
    BY DEF Fits
  <2>3. a < c => c <= x
    BY DEF Fits
  <2> QED
    BY <1>2, <2>1, <2>2, <2>3
<1>9. ASSUME NEW a \in DOMAIN new, NEW b \in DOMAIN new, a < b
      PROVE  /\ \A k \in Names(new[a].node) : k < b
             /\ \A k \in Names(new[b].node) : b <= k
             /\ AllLow(new[b].node)
  <2>1. CASE a \in O /\ b \in O
    BY <1>1, <1>3, <1>9, <2>1 DEF Ordered
  <2>2. CASE a \in O /\ b \in N
    <3>1. a < c
      BY <1>8, <1>9, <2>2
    <3>2. c <= b /\ AllLow(new[b].node) /\ \A k \in Names(new[b].node) : b <= k
      BY <2>2, <3>1 DEF Fits
    <3>3. ASSUME NEW k \in Names(new[a].node) PROVE k < b
      <4>1. k \in Names(node[a].node) /\ new[a] = node[a] /\ Sound(node[a].node) /\ Height(node[a].node, h - 1)
        BY <1>1, <1>3, <2>2, <3>3
      <4>2. k < c
        BY <1>1, <1>2, <2>2, <3>1, <4>1 DEF Ordered
      <4>3. k \in Nat
        BY <4>1, KeyAssumption DEF Names, Sound, Directory
      <4>4. b \in Nat
        BY <1>2, <2>2
      <4> QED
        BY <1>2, <3>2, <4>2, <4>3, <4>4
    <3> QED
      BY <3>2, <3>3
  <2>3. CASE a \in N /\ b \in O
    <3>1. c < b
      BY <1>8, <1>9, <2>3
    <3>2. \A k \in Names(new[a].node) : k < b
      BY <2>3, <3>1 DEF Fits
    <3>3. (\A k \in Names(node[b].node) : b <= k) /\ AllLow(node[b].node)
      BY <1>1, <1>2, <2>3, <3>1 DEF Ordered
    <3> QED
      BY <1>3, <2>3, <3>2, <3>3
  <2>4. CASE a \in N /\ b \in N
    BY <1>9, <2>4 DEF Fits
  <2> QED
    BY <1>3, <2>1, <2>2, <2>3, <2>4
<1>10. Sound(new)
  <2>1. Ordered(new)
    BY <1>9 DEF Ordered
  <2> QED
    BY <1>6, <1>7, <1>9, <2>1
<1>11. ASSUME AllLow(node), \A x \in N : AllLow(new[x].node) /\ \A k \in Names(new[x].node) : x <= k
       PROVE  AllLow(new)
  <2>1. Low(node) /\ \A a \in D : AllLow(node[a].node)
    BY <1>1, <1>11, Internal
  <2>2. Low(new)
    BY <1>3, <1>11, <2>1 DEF Low
  <2>3. \A a \in DOMAIN new : AllLow(new[a].node)
    BY <1>3, <1>11, <2>1
  <2> QED
    BY <1>7, <2>2, <2>3
<1>12. SizedBelow(node) /\ (\A x \in N : AllSized(new[x].node)) => SizedBelow(new)
  BY <1>3 DEF SizedBelow
<1>13. ASSUME NEW k
       PROVE  k \in Names(new) <=> \/ k \in N \/ \E x \in N : k \in Names(new[x].node)
                                   \/ \E a \in O : k = a \/ k \in Names(node[a].node)
  <2>1. k \in Names(new) <=> k \in DOMAIN new \/ \E a \in DOMAIN new : k \in Names(new[a].node)
    <3> DEFINE W == UNION {Names(new[a].node) : a \in DOMAIN new}
    <3>1. Names(new) = DOMAIN new \cup W
      BY <1>7
    <3>2. k \in W <=> \E a \in DOMAIN new : k \in Names(new[a].node)
      OBVIOUS
    <3> HIDE DEF W
    <3> QED
      BY <3>1, <3>2
  <2>2. (\E a \in DOMAIN new : k \in Names(new[a].node))
           <=> (\E x \in N : k \in Names(new[x].node)) \/ (\E a \in O : k \in Names(node[a].node))
    <3> HIDE DEF O
    <3> QED
      BY <1>3
  <2>3. k \in DOMAIN new <=> k \in N \/ k \in O
    BY <1>3
  <2> HIDE DEF O
  <2> QED
    BY <2>1, <2>2, <2>3
<1>14. ASSUME NEW e
       PROVE  e \in Content(new) <=> \/ \E x \in N : e \in Content(new[x].node)
                                     \/ \E a \in O : e \in Content(node[a].node)
  <2>1. e \in Content(new) <=> \E a \in DOMAIN new : e \in Content(new[a].node)
    BY <1>7
  <2> HIDE DEF O
  <2> QED
    BY <1>3, <2>1
<1> QED
  BY <1>1, <1>5, <1>7, <1>10, <1>11, <1>12, <1>13, <1>14 DEF Assembled

\* The entries of a tree are filed under names of it.
LEMMA Contents ==
    ASSUME NEW node, Sound(node)
    PROVE  Content(node) \subseteq Names(node) \X Value /\ Names(node) \subseteq Key /\ Names(node) \subseteq Nat
<1>1. Names(node) \subseteq Key
  BY DEF Names, Sound, Directory
<1>2. ASSUME NEW e \in Content(node) PROVE e \in Names(node) \X Value
  <2>1. PICK m \in Below(node) : isLeafNode(m) /\ \E k \in DOMAIN m : e = <<k, m[k].value>>
    BY DEF Content
  <2>2. Directory(m)
    BY DEF Sound
  <2>3. \A a \in DOMAIN m : m[a].value \in Value
    BY <2>1, <2>2, Kinds
  <2>4. DOMAIN m \subseteq Names(node)
    BY DEF Names
  <2> QED
    BY <2>1, <2>3, <2>4
<1> QED
  BY <1>1, <1>2, KeyAssumption

-----------------------------------------------------------------------------
(* insert *)

\* What insertRecursive makes of a node.
Takes(node, key, value, h, result) ==
    /\ Height(result, h) /\ Sound(result) /\ SizedBelow(result)
    /\ isLeafNode(result) <=> isLeafNode(node)
    /\ Names(result) \subseteq Names(node) \cup {key}
    /\ \A e : e \in Content(result) <=> e = <<key, value>> \/ (e \in Content(node) /\ e[1] # key)
    /\ AllLow(node) /\ (isLeafNode(node) \/ \E name \in DOMAIN node : name <= key) => AllLow(result)
    /\ Cardinality(DOMAIN result) \in Cardinality(DOMAIN node) .. Cardinality(DOMAIN node) + 1

\* A node that has grown is within the limits, or one entry too large.
LEMMA Growth ==
    ASSUME NEW node, NEW h \in Nat, NEW key, NEW value, NEW result, Takes(node, key, value, h, result),
           Directory(node), Sized(node)
    PROVE  /\ ~overflows(result) => AllSized(result)
           /\ overflows(result) => Cardinality(DOMAIN result) <= Max({maxKeys, 2}) + 1
<1> DEFINE cap == Max({maxKeys, 2})
           n == Cardinality(DOMAIN node)
           m == Cardinality(DOMAIN result)
           low == IF isLeafNode(node) \/ Order < 4 THEN 1 ELSE 2
<1>1. maxKeys \in Nat /\ cap \in Nat /\ maxKeys <= cap
  <2>1. maxKeys \in Nat
    BY OrderAssumption DEF maxKeys
  <2>2. \E a \in {maxKeys, 2} : \A b \in {maxKeys, 2} : a >= b
    BY <2>1
  <2> QED
    BY <2>1, <2>2 DEF Max
<1>2. n \in Nat /\ low \in Nat
  BY FS_CardinalityType DEF Directory
<1>3. n \in low .. cap /\ m \in n .. n + 1 /\ (isLeafNode(result) <=> isLeafNode(node))
  BY DEF Sized, Takes
<1> HIDE DEF cap, n, m, maxKeys
<1>4. m \in Nat /\ low <= m /\ m <= cap + 1
  BY <1>1, <1>2, <1>3
<1>5. ASSUME ~overflows(result) PROVE AllSized(result)
  <2>1. m <= maxKeys
    BY <1>1, <1>4, <1>5 DEF overflows, m
  <2>2. m \in low .. cap
    BY <1>1, <1>2, <1>4, <2>1
  <2>3. Sized(result)
    BY <1>3, <2>2 DEF Sized, cap, m
  <2> QED
    BY <2>3, SizedRoot DEF Takes
<1> QED
  BY <1>4, <1>5 DEF cap, m

\* An entry set in a leaf.
LEMMA InsertLeaf ==
    ASSUME NEW key \in Key, NEW value \in Value, NEW node, NEW h \in Nat, h # 0, Directory(node), isLeafNode(node),
           Alike(Names(node) \cup {key})
    PROVE  Takes(node, key, value, h, setEntry(node, key, Blob(value)))
<1> DEFINE D == DOMAIN node
           new == setEntry(node, key, Blob(value))
<1>1. D \in SUBSET Key /\ IsFiniteSet(D) /\ \A a \in D : node[a] = Blob(node[a].value) /\ node[a].value \in Value
  BY Kinds DEF Directory
<1>2. DOMAIN new = D \cup {key} /\ new[key] = Blob(value) /\ \A a \in D : a # key => new[a] = node[a]
  BY DEF setEntry
<1>3. new = [a \in DOMAIN new |-> new[a]]
  BY DEF setEntry
<1>4. Blob(value).value = value
  BY DEF Blob
<1> HIDE DEF new
<1>5. \A a \in DOMAIN new : new[a] = Blob(new[a].value) /\ new[a].value \in Value
  BY <1>1, <1>2, <1>4
<1>6. IsFiniteSet(DOMAIN new) /\ Cardinality(DOMAIN new) \in Cardinality(D) .. Cardinality(D) + 1
  <2>1. Cardinality(D) \in Nat
    BY <1>1, FS_CardinalityType
  <2>2. CASE key \in D
    <3>1. DOMAIN new = D
      BY <1>2, <2>2
    <3> QED
      BY <1>1, <2>1, <3>1
  <2>3. CASE key \notin D
    <3>1. IsFiniteSet(D \cup {key}) /\ Cardinality(D \cup {key}) = Cardinality(D) + 1
      BY <1>1, <2>3, FS_AddElement
    <3> QED
      BY <1>2, <2>1, <3>1
  <2> QED
    BY <2>2, <2>3
<1>7. Directory(new)
  <2>1. Alike(DOMAIN new)
    BY <1>2, Leaf
  <2> QED
    BY <1>1, <1>2, <1>3, <1>5, <1>6, <2>1 DEF Directory
<1>8. isLeafNode(new)
  BY <1>5, <1>7, Kinds
<1>9. /\ Height(new, h) /\ Names(new) = DOMAIN new /\ Sound(new) /\ AllLow(new)
      /\ Content(new) = {<<k, new[k].value>> : k \in DOMAIN new}
  BY <1>7, <1>8, Leaf
<1>10. Names(node) = D /\ Content(node) = {<<k, node[k].value>> : k \in D}
  BY Leaf
<1>11. ASSUME NEW e
       PROVE  e \in Content(new) <=> e = <<key, value>> \/ (e \in Content(node) /\ e[1] # key)
  <2>1. e \in Content(new) <=> e = <<key, value>> \/ \E k \in D : k # key /\ e = <<k, node[k].value>>
    BY <1>2, <1>4, <1>9
  <2>2. e \in Content(node) /\ e[1] # key <=> \E k \in D : k # key /\ e = <<k, node[k].value>>
    BY <1>10
  <2> QED
    BY <2>1, <2>2
<1> QED
  BY <1>2, <1>6, <1>8, <1>9, <1>10, <1>11 DEF Takes, SizedBelow, new

\* Two names in place of one.
LEMMA TwoForOne ==
    ASSUME NEW D, IsFiniteSet(D), NEW c \in D, NEW l, NEW r, l # r, l \notin D \ {c}, r \notin D \ {c}
    PROVE  IsFiniteSet((D \ {c}) \cup {l, r}) /\ Cardinality((D \ {c}) \cup {l, r}) = Cardinality(D) + 1
<1> DEFINE O == D \ {c}
           P == O \cup {l}
<1>1. Cardinality(D) \in Nat
  BY FS_CardinalityType
<1>2. IsFiniteSet(O) /\ Cardinality(O) = Cardinality(D) - 1
  BY FS_RemoveElement
<1>3. IsFiniteSet(P) /\ Cardinality(P) = Cardinality(O) + 1
  <2> HIDE DEF O
  <2>1. l \notin O
    BY DEF O
  <2> QED
    BY <1>2, <2>1, FS_AddElement
<1>4. IsFiniteSet(P \cup {r}) /\ Cardinality(P \cup {r}) = Cardinality(P) + 1
  <2>1. r \notin P
    OBVIOUS
  <2> HIDE DEF P
  <2> QED
    BY <1>3, <2>1, FS_AddElement
<1>5. P \cup {r} = (D \ {c}) \cup {l, r}
  OBVIOUS
<1> HIDE DEF O, P
<1>6. Cardinality(P \cup {r}) = Cardinality(D) + 1
  BY <1>1, <1>2, <1>3, <1>4
<1> QED
  BY <1>4, <1>5, <1>6

\* What insertRecursive makes of an internal node, from what it made of the child.
LEMMA InsertInternal ==
    ASSUME NEW key \in Key, NEW value \in Value,
           NEW node, NEW h \in Nat, Height(node, h), Sound(node), AllSized(node), ~isLeafNode(node),
           Alike(Names(node) \cup {key}),
           NEW c, Found(node, key, c), NEW result, Takes(node[c].node, key, value, h - 1, result),
           c <= key => isLeafNode(node[c].node) \/ \E name \in DOMAIN node[c].node : name <= key
    PROVE  Takes(node, key, value, h, IF overflows(result) THEN withHalves(removeEntry(node, c), split(result))
                                      ELSE setEntry(node, c, Dir(result)))
<1> DEFINE D == DOMAIN node
           O == D \ {c}
           child == node[c].node
<1>1. /\ Directory(node) /\ h - 1 \in Nat /\ h = (h - 1) + 1
      /\ \A a \in D : /\ node[a] = Dir(node[a].node)
                      /\ Sound(node[a].node) /\ Height(node[a].node, h - 1)
                      /\ Directory(node[a].node)
      /\ Ordered(node)
      /\ \A a, b \in D : a < b => AllLow(node[b].node)
  BY SoundInside
<1>2. /\ D \in SUBSET Key /\ IsFiniteSet(D) /\ D \in SUBSET Nat /\ c \in Nat /\ c \in D /\ key \in Nat
      /\ Cardinality(D) \in Nat /\ node = [a \in D |-> node[a]]
  BY <1>1, KeyAssumption, FS_CardinalityType DEF Directory, Found
<1>3. /\ Names(node) = D \cup UNION {Names(node[a].node) : a \in D}
      /\ Content(node) = UNION {Content(node[a].node) : a \in D}
      /\ AllLow(node) <=> Low(node) /\ \A a \in D : AllLow(node[a].node)
  BY <1>1, Internal
<1>4. SizedBelow(node) /\ AllSized(child) /\ Sized(child)
  <2>1. SizedBelow(node)
    BY SizedRoot
  <2>2. AllSized(child)
    BY <1>2, <2>1 DEF SizedBelow
  <2>3. Sound(child) /\ Height(child, h - 1)
    BY <1>1, <1>2
  <2>4. Sized(child)
    BY <1>1, <2>2, <2>3, SizedRoot
  <2> QED
    BY <2>1, <2>2, <2>4
<1>5. /\ Height(result, h - 1) /\ Sound(result) /\ SizedBelow(result)
      /\ Names(result) \subseteq Names(child) \cup {key}
      /\ \A e : e \in Content(result) <=> e = <<key, value>> \/ (e \in Content(child) /\ e[1] # key)
      /\ AllLow(child) /\ (isLeafNode(child) \/ \E name \in DOMAIN child : name <= key) => AllLow(result)
  BY DEF Takes
<1>6. Names(result) \subseteq Nat /\ Names(result) \subseteq Key
  BY <1>5, Contents
<1>7. ASSUME NEW k \in Names(result) PROVE \A b \in D : c < b => k < b
  BY <1>1, <1>2, <1>5 DEF Ordered, Found
<1>8. ASSUME (\E a \in D : a < c) \/ (AllLow(node) /\ \E name \in D : name <= key)
      PROVE  AllLow(result) /\ \A k \in Names(result) : c <= k
  <2>1. c <= key
    BY <1>2, <1>8 DEF Found
  <2>2. AllLow(child) /\ \A k \in Names(child) : c <= k
    BY <1>1, <1>2, <1>3, <1>8 DEF Ordered, Low
  <2> QED
    BY <1>5, <2>1, <2>2
<1>9. ASSUME NEW a \in O, NEW e \in Content(node[a].node) PROVE e[1] # key
  <2>1. e[1] \in Names(node[a].node)
    BY <1>1, Contents
  <2>2. key \notin Names(node[a].node)
    BY <1>1, OnlyThere
  <2> QED
    BY <2>1, <2>2
<1>10. Names(child) \subseteq Names(node)
  BY <1>2, <1>3
<1>11. Names(result) \subseteq Names(node) \cup {key}
  BY <1>5, <1>10
<1>12. ASSUME NEW new, NEW N, Assembled(new, N, node, c, h),
              \A x \in N : AllSized(new[x].node) /\ x \in Names(node) \cup {key}
                           /\ Names(new[x].node) \subseteq Names(node) \cup {key},
              \A e : e \in Content(result) <=> \E x \in N : e \in Content(new[x].node),
              AllLow(node) /\ (\E name \in D : name <= key) =>
                  \A x \in N : AllLow(new[x].node) /\ \A k \in Names(new[x].node) : x <= k,
              Cardinality(DOMAIN new) \in Cardinality(D) .. Cardinality(D) + 1
       PROVE  Takes(node, key, value, h, new)
  <2>1. /\ ~isLeafNode(new) /\ Height(new, h) /\ Sound(new) /\ SizedBelow(new)
        /\ \A k : k \in Names(new) <=> \/ k \in N \/ \E x \in N : k \in Names(new[x].node)
                                       \/ \E a \in O : k = a \/ k \in Names(node[a].node)
        /\ \A e : e \in Content(new) <=> \/ \E x \in N : e \in Content(new[x].node)
                                         \/ \E a \in O : e \in Content(node[a].node)
        /\ AllLow(node) /\ (\E name \in D : name <= key) => AllLow(new)
    BY <1>4, <1>12 DEF Assembled
  <2>2. Names(new) \subseteq Names(node) \cup {key}
    <3>1. \A a \in O : a \in Names(node) /\ Names(node[a].node) \subseteq Names(node)
      BY <1>3
    <3> QED
      BY <1>12, <2>1, <3>1
  <2>3. ASSUME NEW e
        PROVE  e \in Content(new) <=> e = <<key, value>> \/ (e \in Content(node) /\ e[1] # key)
    <3>1. e \in Content(new) <=> \/ e = <<key, value>> \/ (e \in Content(child) /\ e[1] # key)
                                 \/ \E a \in O : e \in Content(node[a].node)
      BY <1>5, <1>12, <2>1
    <3>2. e \in Content(node) <=> e \in Content(child) \/ \E a \in O : e \in Content(node[a].node)
      <4>1. e \in Content(node) <=> \E a \in D : e \in Content(node[a].node)
        BY <1>3
      <4> QED
        BY <1>2, <4>1
    <3> QED
      BY <1>9, <3>1, <3>2
  <2> QED
    BY <1>12, <2>1, <2>2, <2>3 DEF Takes
<1>13. CASE ~overflows(result)
  <2> DEFINE new == setEntry(node, c, Dir(result))
  <2>1. DOMAIN new = D /\ new[c] = Dir(result) /\ (\A a \in O : new[a] = node[a]) /\ new = [a \in D |-> new[a]]
    BY <1>2 DEF setEntry
  <2>2. new[c].node = result
    BY <2>1 DEF Dir
  <2> HIDE DEF new
  <2>3. AllSized(result)
    BY <1>1, <1>2, <1>4, <1>13, Growth
  <2>4. IsFiniteSet({c}) /\ {c} \in SUBSET Key /\ {c} # {}
    BY <1>2, FS_Singleton
  <2>5. Fits(new, {c}, node, c, h)
    <3>1. Alike((D \ {c}) \cup {c})
      BY <1>2, <1>3 DEF Alike
    <3> QED
      BY <1>2, <1>5, <1>7, <1>8, <2>1, <2>2, <2>4, <3>1 DEF Fits
  <2>6. new = [a \in (D \ {c}) \cup {c} |-> new[a]]
    <3>1. (D \ {c}) \cup {c} = D
      BY <1>2
    <3> QED
      BY <2>1, <3>1
  <2>7. Assembled(new, {c}, node, c, h)
    BY <2>1, <2>5, <2>6, Assemble
  <2>8. \A x \in {c} : AllSized(new[x].node) /\ x \in Names(node) \cup {key}
                       /\ Names(new[x].node) \subseteq Names(node) \cup {key}
    BY <1>2, <1>3, <1>11, <2>2, <2>3
  <2>9. AllLow(node) /\ (\E name \in D : name <= key) =>
          \A x \in {c} : AllLow(new[x].node) /\ \A k \in Names(new[x].node) : x <= k
    BY <1>8, <2>2
  <2>10. Cardinality(DOMAIN new) \in Cardinality(D) .. Cardinality(D) + 1
    BY <1>2, <2>1
  <2>11. \A e : e \in Content(result) <=> \E x \in {c} : e \in Content(new[x].node)
    BY <2>2
  <2>12. Takes(node, key, value, h, new)
    BY <1>12, <2>7, <2>8, <2>9, <2>10, <2>11
  <2> QED
    BY <1>13, <2>12 DEF new
<1>14. CASE overflows(result)
  <2> DEFINE halves == split(result)
             l == halves.leftFirstKey
             r == halves.rightFirstKey
             left == halves.left
             right == halves.right
             new == withHalves(removeEntry(node, c), halves)
  <2>1. Cardinality(DOMAIN result) <= Max({maxKeys, 2}) + 1
    BY <1>1, <1>2, <1>4, <1>14, Growth
  <2>2. SoundHalves(result, h - 1, halves)
    BY <1>1, <1>5, <1>14, <2>1, SplitSound
  <2>3. /\ Height(left, h - 1) /\ Sound(left) /\ AllSized(left)
        /\ Height(right, h - 1) /\ Sound(right) /\ AllSized(right) /\ AllLow(right)
        /\ l \in Names(result) /\ r \in Names(result) /\ l < r
        /\ Names(left) \subseteq Names(result) /\ Names(right) \subseteq Names(result)
        /\ (\A k \in Names(left) : k < r) /\ (\A k \in Names(right) : r <= k)
        /\ AllLow(result) => AllLow(left) /\ \A k \in Names(left) : l <= k
        /\ Content(left) \cup Content(right) = Content(result)
    BY <2>2 DEF SoundHalves
  <2> HIDE DEF halves
  <2>4. l \in Nat /\ r \in Nat /\ l \in Key /\ r \in Key /\ l # r
    BY <1>6, <2>3
  <2>5. \A x \in {l, r} : x \notin O
    <3>1. ASSUME NEW x \in Names(result) PROVE x \notin O
      <4>1. \A b \in D : c < b => x < b
        BY <1>7
      <4>2. \A a \in D : a < c => c <= x
        BY <1>8
      <4> QED
        BY <1>2, <1>6, <4>1, <4>2
    <3> QED
      BY <2>3, <3>1
  <2>6. /\ DOMAIN new = O \cup {l, r} /\ new = [a \in O \cup {l, r} |-> new[a]]
        /\ new[l] = Dir(left) /\ new[r] = Dir(right) /\ \A a \in O : new[a] = node[a]
    BY <2>4, <2>5 DEF withHalves, setEntry, removeEntry, Restrict
  <2> HIDE DEF new, l, r, left, right
  <2>7. new[l].node = left /\ new[r].node = right
    BY <2>6 DEF Dir
  <2>8. IsFiniteSet(O \cup {l, r}) /\ Cardinality(O \cup {l, r}) = Cardinality(D) + 1
    BY <1>2, <2>4, <2>5, TwoForOne
  <2>9. IsFiniteSet({l, r}) /\ {l, r} \in SUBSET Key /\ {l, r} # {}
    <3>1. IsFiniteSet({l, r})
      BY <2>8, FS_Subset
    <3> QED
      BY <2>4, <3>1
  <2>10. Fits(new, {l, r}, node, c, h)
    <3>1. ASSUME NEW x \in {l, r}
          PROVE  /\ new[x] = Dir(new[x].node) /\ Sound(new[x].node) /\ Height(new[x].node, h - 1)
                 /\ \A b \in DOMAIN node : c < b => x < b /\ \A k \in Names(new[x].node) : k < b
                 /\ (\E a \in DOMAIN node : a < c) =>
                      c <= x /\ AllLow(new[x].node) /\ \A k \in Names(new[x].node) : x <= k
      BY <1>7, <1>8, <2>3, <2>6, <2>7
    <3>2. ASSUME NEW x \in {l, r}, NEW y \in {l, r}, x < y
          PROVE  /\ \A k \in Names(new[x].node) : k < y
                 /\ \A k \in Names(new[y].node) : y <= k
                 /\ AllLow(new[y].node)
      <4>1. x = l /\ y = r
        BY <2>3, <2>4, <3>2
      <4> QED
        BY <2>3, <2>7, <4>1
    <3>3. Alike(O \cup {l, r})
      <4>1. O \cup {l, r} \subseteq Names(node) \cup {key}
        BY <1>3, <1>11, <2>3 DEF l, r
      <4> QED
        BY <4>1 DEF Alike
    <3> QED
      BY <1>2, <2>9, <3>1, <3>2, <3>3 DEF Fits
  <2>11. Assembled(new, {l, r}, node, c, h)
    BY <2>5, <2>6, <2>10, Assemble
  <2>12. \A x \in {l, r} : AllSized(new[x].node) /\ x \in Names(node) \cup {key}
                           /\ Names(new[x].node) \subseteq Names(node) \cup {key}
    BY <1>11, <2>3, <2>7
  <2>13. AllLow(node) /\ (\E name \in D : name <= key) =>
           \A x \in {l, r} : AllLow(new[x].node) /\ \A k \in Names(new[x].node) : x <= k
    BY <1>8, <2>3, <2>7
  <2>14. Cardinality(DOMAIN new) \in Cardinality(D) .. Cardinality(D) + 1
    BY <1>2, <2>6, <2>8
  <2>15. \A e : e \in Content(result) <=> \E x \in {l, r} : e \in Content(new[x].node)
    BY <2>3, <2>7
  <2>16. Takes(node, key, value, h, new)
    BY <1>12, <2>11, <2>12, <2>13, <2>14, <2>15
  <2> QED
    BY <1>14, <2>16 DEF new, halves
<1> QED
  BY <1>13, <1>14

\* On the way to a key no internal node is reached under a name up to the key
\* whose own names are all greater.
NoGap(node, key) ==
    \A n \in Below(node) : ~isLeafNode(n) /\ findChild(n, key) <= key =>
        LET child == n[findChild(n, key)].node IN isLeafNode(child) \/ \E name \in DOMAIN child : name <= key

\* That is what InGap denies.
LEMMA GapFree ==
    ASSUME NEW key \in Key, NEW node, node # None, NEW h \in Nat, Tree(node, h), ~InGap(node, key)
    PROVE  NoGap(node, key)
<1>1. SUFFICES ASSUME NEW n \in Below(node), ~isLeafNode(n), findChild(n, key) <= key
               PROVE  LET child == n[findChild(n, key)].node
                      IN isLeafNode(child) \/ \E name \in DOMAIN child : name <= key
  BY DEF NoGap
<1> DEFINE child == n[findChild(n, key)].node
<1>2. child \in Below(node)
  <2>1. Directory(n)
    BY DEF Tree
  <2>2. child \in children(n)
    BY <1>1, <2>1, NextChild
  <2> QED
    BY <2>2, TreeInside
<1>3. \A name \in DOMAIN child : name \in Nat
  BY <1>2, KeyAssumption DEF Tree, Directory
<1>4. ~isLeafNode(child) => ~\A name \in DOMAIN child : key < name
  BY <1>1 DEF InGap
<1>5. key \in Nat
  BY KeyAssumption
<1> QED
  BY <1>3, <1>4, <1>5

\* insertRecursive puts an entry into a search tree.
LEMMA InsertRecursive ==
    ASSUME NEW key \in Key, NEW value \in Value,
           NEW node, NEW h \in Nat, Height(node, h), Sound(node), AllSized(node), NoGap(node, key),
           Alike(Names(node) \cup {key})
    PROVE  Takes(node, key, value, h, insertRecursive(node, key, value))
<1> DEFINE op(y) == insertRecursive(y, key, value)
           Given(y, n) == Height(y, n) /\ Sound(y) /\ AllSized(y) /\ NoGap(y, key) /\ Alike(Names(y) \cup {key})
           bad == {n \in Nat : \E y : Given(y, n) /\ ~Takes(y, key, value, n, op(y))}
<1>1. SUFFICES ASSUME bad # {} PROVE FALSE
  BY <1>1
<1>2. PICK n \in bad : \A m \in bad : n <= m
  <2>1. bad \in SUBSET Nat
    OBVIOUS
  <2> QED
    BY <1>1, <2>1, SmallestExists
<1>3. PICK y : Given(y, n) /\ ~Takes(y, key, value, n, op(y))
  BY <1>2
<1>4. n \in Nat
  BY <1>2
<1>5. /\ Tree(y, n) /\ Directory(y) /\ n - 1 \in Nat /\ n = (n - 1) + 1 /\ ~(n <= n - 1)
      /\ ~isLeafNode(y) => \A a \in DOMAIN y : Sound(y[a].node) /\ Height(y[a].node, n - 1)
  BY <1>3, <1>4, SoundInside
<1> DEFINE c == findChild(y, key)
<1>6. op(y) = insertStep(y, key, value, op(y[c].node))
  BY <1>4, <1>5, InsertIs
<1>7. CASE isLeafNode(y)
  <2>1. op(y) = setEntry(y, key, Blob(value))
    BY <1>6, <1>7 DEF insertStep
  <2>2. n # 0
    BY <1>5
  <2>3. Takes(y, key, value, n, op(y))
    BY <1>3, <1>4, <1>5, <1>7, <2>1, <2>2, InsertLeaf
  <2> QED
    BY <1>3, <2>3
<1>8. CASE ~isLeafNode(y)
  <2> DEFINE child == y[c].node
  <2>1. Found(y, key, c) /\ c \in DOMAIN y /\ child \in children(y)
    BY <1>5, <1>8, NextChild DEF Found
  <2>2. Sound(child) /\ Height(child, n - 1)
    BY <1>5, <1>8, <2>1
  <2>3. AllSized(child)
    BY <1>3, <1>4, <1>8, <2>1, SizedRoot DEF SizedBelow
  <2>4. y \in Below(y) /\ Below(child) \subseteq Below(y)
    <3>1. child \in Below(y) /\ y \in Below(y)
      BY <1>4, <1>5, <2>1, TreeInside
    <3> QED
      BY <1>3, <1>4, <3>1, BelowInside
  <2>5. NoGap(child, key)
    BY <1>3, <2>4 DEF NoGap
  <2>6. Alike(Names(child) \cup {key})
    <3>1. Names(child) \subseteq Names(y)
      BY <2>4 DEF Names
    <3> QED
      BY <1>3, <3>1 DEF Alike
  <2>7. c <= key => isLeafNode(child) \/ \E name \in DOMAIN child : name <= key
    BY <1>3, <1>8, <2>4 DEF NoGap
  <2> HIDE DEF op
  <2>8. Takes(child, key, value, n - 1, op(child))
    BY <1>2, <1>5, <2>2, <2>3, <2>5, <2>6
  <2>9. op(y) = IF overflows(op(child)) THEN withHalves(removeEntry(y, c), split(op(child)))
                ELSE setEntry(y, c, Dir(op(child)))
    BY <1>6, <1>8 DEF insertStep
  <2> HIDE DEF c
  <2>10. Takes(y, key, value, n, op(y))
    BY <1>3, <1>4, <1>8, <2>1, <2>7, <2>8, <2>9, InsertInternal
  <2> QED
    BY <1>3, <2>10
<1> QED
  BY <1>7, <1>8

\* A root: nothing, or a search tree within the limits.
Index(node) == node # None => Sound(node) /\ AllSized(node) /\ \E h \in Nat : Height(node, h)

\* The entries of a tree that may be empty.
Entries(node) == IF node = None THEN {} ELSE Content(node)

\* A root with the two halves of the old one.
LEMMA NewRoot ==
    ASSUME NoneApart, NEW node, NEW h \in Nat, NEW halves, SoundHalves(node, h, halves), Sound(node), Alike(Names(node))
    PROVE  LET new == withHalves(EmptyDirectory, halves)
           IN new # None /\ Index(new) /\ Content(new) = Content(node) /\ Names(new) \subseteq Names(node)
<1> DEFINE new == withHalves(EmptyDirectory, halves)
           left == halves.left
           right == halves.right
           l == halves.leftFirstKey
           r == halves.rightFirstKey
<1>1. /\ Height(left, h) /\ Sound(left) /\ AllSized(left)
      /\ Height(right, h) /\ Sound(right) /\ AllSized(right) /\ AllLow(right)
      /\ l \in Names(node) /\ r \in Names(node) /\ l < r
      /\ Names(left) \subseteq Names(node) /\ Names(right) \subseteq Names(node)
      /\ (\A k \in Names(left) : k < r) /\ (\A k \in Names(right) : r <= k)
      /\ Content(left) \cup Content(right) = Content(node)
  BY DEF SoundHalves
<1>2. l \in Nat /\ r \in Nat /\ l \in Key /\ r \in Key /\ l # r
  BY <1>1, Contents
<1>3. DOMAIN new = {l, r} /\ new = [a \in {l, r} |-> new[a]] /\ new[l] = Dir(left) /\ new[r] = Dir(right)
  BY <1>2 DEF withHalves, setEntry, EmptyDirectory
<1> HIDE DEF new, l, r, left, right
<1>4. new[l].node = left /\ new[r].node = right
  BY <1>3 DEF Dir
<1>5. IsFiniteSet({l, r}) /\ Cardinality({l, r}) = 2
  <2>1. IsFiniteSet({l}) /\ Cardinality({l}) = 1
    BY FS_Singleton
  <2>2. IsFiniteSet({l} \cup {r}) /\ Cardinality({l} \cup {r}) = Cardinality({l}) + 1
    BY <1>2, <2>1, FS_AddElement
  <2>3. {l} \cup {r} = {l, r}
    OBVIOUS
  <2> QED
    BY <2>1, <2>2, <2>3
<1>6. \A a \in DOMAIN new : new[a] = Dir(new[a].node)
  BY <1>3, <1>4
<1>7. Directory(new)
  <2>1. Alike(DOMAIN new)
    BY <1>1, <1>3 DEF Alike
  <2> QED
    BY <1>2, <1>3, <1>5, <1>6, <2>1 DEF Directory
<1>8. ~isLeafNode(new)
  BY <1>6, <1>7, Kinds
<1>9. \A a \in DOMAIN new : Height(new[a].node, h)
  BY <1>1, <1>3, <1>4
<1>10. /\ Height(new, h + 1)
       /\ Names(new) = DOMAIN new \cup UNION {Names(new[a].node) : a \in DOMAIN new}
       /\ Content(new) = UNION {Content(new[a].node) : a \in DOMAIN new}
       /\ Sound(new) <=> /\ Ordered(new)
                         /\ \A a, b \in DOMAIN new : a < b => AllLow(new[b].node)
                         /\ \A a \in DOMAIN new : Sound(new[a].node)
       /\ AllSized(new) <=> Sized(new) /\ \A a \in DOMAIN new : AllSized(new[a].node)
  BY <1>7, <1>8, <1>9, Internal
<1>11. ASSUME NEW a \in DOMAIN new, NEW b \in DOMAIN new, a < b PROVE a = l /\ b = r
  BY <1>1, <1>2, <1>3, <1>11
<1>12. Ordered(new) /\ \A a, b \in DOMAIN new : a < b => AllLow(new[b].node)
  BY <1>1, <1>4, <1>11 DEF Ordered
<1>13. Sized(new)
  <2>1. maxKeys \in Nat
    BY OrderAssumption DEF maxKeys
  <2>2. \E a \in {maxKeys, 2} : \A b \in {maxKeys, 2} : a >= b
    BY <2>1
  <2>3. Max({maxKeys, 2}) \in Nat /\ Max({maxKeys, 2}) >= 2
    BY <2>1, <2>2 DEF Max
  <2> QED
    BY <1>3, <1>5, <2>3 DEF Sized
<1>14. Content(new) = Content(node)
  <2>1. \A e : e \in Content(new) <=> e \in Content(left) \/ e \in Content(right)
    BY <1>3, <1>4, <1>10
  <2> QED
    BY <1>1, <2>1
<1>15. Sound(new) /\ AllSized(new)
  BY <1>1, <1>3, <1>4, <1>10, <1>12, <1>13
<1>16. new # None
  BY <1>7 DEF NoneApart
<1>17. \E n \in Nat : Height(new, n)
  BY <1>10
<1>18. Names(new) \subseteq Names(node)
  <2>1. \A a \in DOMAIN new : a \in Names(node) /\ Names(new[a].node) \subseteq Names(node)
    BY <1>1, <1>3, <1>4
  <2> QED
    BY <1>10, <2>1
<1> QED
  BY <1>14, <1>15, <1>16, <1>17, <1>18 DEF Index, new

\* A tree of one entry.
LEMMA FirstEntry ==
    ASSUME NoneApart, NEW key \in Key, NEW value \in Value
    PROVE  LET new == setEntry(EmptyDirectory, key, Blob(value))
           IN new # None /\ Index(new) /\ Content(new) = {<<key, value>>} /\ Names(new) = {key}
<1> DEFINE new == setEntry(EmptyDirectory, key, Blob(value))
<1>1. DOMAIN new = {key} /\ new[key] = Blob(value) /\ new = [a \in {key} |-> new[a]]
  BY DEF setEntry, EmptyDirectory
<1>2. new[key].value = value
  BY <1>1 DEF Blob
<1> HIDE DEF new
<1>3. IsFiniteSet({key}) /\ Cardinality({key}) = 1
  BY FS_Singleton
<1>4. \A a \in DOMAIN new : new[a] = Blob(new[a].value) /\ new[a].value \in Value
  BY <1>1, <1>2
<1>5. Directory(new)
  <2>1. Alike({key})
    BY KeyAssumption DEF Alike
  <2> QED
    BY <1>1, <1>3, <1>4, <2>1 DEF Directory
<1>6. isLeafNode(new)
  BY <1>4, <1>5, Kinds
<1>7. /\ Names(new) = DOMAIN new
      /\ Height(new, 1) /\ Sound(new) /\ (AllSized(new) <=> Sized(new))
      /\ Content(new) = {<<k, new[k].value>> : k \in DOMAIN new}
  BY <1>5, <1>6, Leaf
<1>8. Sized(new)
  <2>1. maxKeys \in Nat
    BY OrderAssumption DEF maxKeys
  <2>2. \E a \in {maxKeys, 2} : \A b \in {maxKeys, 2} : a >= b
    BY <2>1
  <2>3. Max({maxKeys, 2}) \in Nat /\ Max({maxKeys, 2}) >= 2
    BY <2>1, <2>2 DEF Max
  <2> QED
    BY <1>1, <1>3, <1>6, <2>3 DEF Sized
<1>9. Content(new) = {<<key, value>>}
  BY <1>1, <1>2, <1>7
<1>10. new # None
  BY <1>5 DEF NoneApart
<1>11. \E n \in Nat : Height(new, n)
  BY <1>7
<1> QED
  BY <1>1, <1>7, <1>8, <1>9, <1>10, <1>11 DEF Index, new

\* insert adds an entry, or replaces the one with the same key.
LEMMA Insertion ==
    ASSUME NoneApart, NEW key \in Key, NEW value \in Value, NEW node, Index(node), ~InGap(node, key),
           Alike(NamesIn(node) \cup {key})
    PROVE  /\ insert(node, key, value) # None /\ Index(insert(node, key, value))
           /\ NamesIn(insert(node, key, value)) \subseteq NamesIn(node) \cup {key}
           /\ \A e : e \in Entries(insert(node, key, value)) <=> e = <<key, value>> \/ (e \in Entries(node) /\ e[1] # key)
<1> DEFINE new == insert(node, key, value)
<1>1. CASE node = None
  <2>1. new = setEntry(EmptyDirectory, key, Blob(value))
    BY <1>1 DEF insert
  <2>2. new # None /\ Index(new) /\ Content(new) = {<<key, value>>} /\ Names(new) = {key}
    BY <2>1, FirstEntry
  <2>3. NamesIn(new) = {key}
    BY <2>2 DEF NamesIn, Names
  <2> HIDE DEF new
  <2> QED
    BY <1>1, <2>2, <2>3 DEF Entries, new
<1>2. CASE node # None
  <2>1. PICK h \in Nat : Height(node, h) /\ Sound(node) /\ AllSized(node)
    BY <1>2 DEF Index
  <2>2. NamesIn(node) = Names(node)
    BY <1>2 DEF NamesIn, Names
  <2>3. CASE get(node, key) = value
    <3>1. new = node
      BY <1>2, <2>3 DEF insert
    <3>2. (\A v \in Value : <<key, v>> \in Content(node) <=> get(node, key) = v) /\ Content(node) \subseteq Key \X Value
      BY <2>1, GetFinds
    <3>3. ASSUME NEW e
          PROVE  e \in Content(node) <=> e = <<key, value>> \/ (e \in Content(node) /\ e[1] # key)
      <4>1. <<key, value>> \in Content(node)
        BY <2>3, <3>2
      <4>2. ASSUME e \in Content(node), e[1] = key PROVE e = <<key, value>>
        <5>1. e = <<e[1], e[2]>> /\ e[2] \in Value
          BY <3>2, <4>2
        <5>2. <<key, e[2]>> \in Content(node)
          BY <4>2, <5>1
        <5>3. e[2] = value
          BY <2>3, <3>2, <5>1, <5>2
        <5> QED
          BY <4>2, <5>1, <5>3
      <4> QED
        BY <4>1, <4>2
    <3> QED
      BY <1>2, <3>1, <3>3 DEF Entries
  <2>4. CASE get(node, key) # value
    <3> DEFINE result == insertRecursive(node, key, value)
    <3>1. Tree(node, h) /\ Directory(node) /\ Sized(node)
      BY <2>1, SoundInside, SizedRoot
    <3>2. NoGap(node, key)
      BY <1>2, <2>1, <3>1, GapFree
    <3>3. Takes(node, key, value, h, result)
      BY <2>1, <2>2, <3>2, InsertRecursive
    <3>4. new = IF overflows(result) THEN withHalves(EmptyDirectory, split(result)) ELSE result
      BY <1>2, <2>4 DEF insert
    <3> HIDE DEF result, new
    <3>5. /\ ~overflows(result) => AllSized(result)
          /\ overflows(result) => Cardinality(DOMAIN result) <= Max({maxKeys, 2}) + 1
      BY <2>1, <3>1, <3>3, Growth
    <3>6. /\ Height(result, h) /\ Sound(result) /\ SizedBelow(result)
          /\ Names(result) \subseteq Names(node) \cup {key}
          /\ \A e : e \in Content(result) <=> e = <<key, value>> \/ (e \in Content(node) /\ e[1] # key)
      BY <3>3 DEF Takes
    <3>7. Alike(Names(result))
      BY <2>2, <3>6 DEF Alike
    <3>8. new # None /\ Index(new) /\ Content(new) = Content(result) /\ Names(new) \subseteq Names(result)
      <4>1. CASE overflows(result)
        <5>1. SoundHalves(result, h, split(result))
          BY <2>1, <3>5, <3>6, <4>1, SplitSound
        <5> QED
          BY <2>1, <3>4, <3>6, <3>7, <4>1, <5>1, NewRoot
      <4>2. CASE ~overflows(result)
        <5>1. Directory(result)
          BY <2>1, <3>6, SoundInside
        <5> QED
          BY <2>1, <3>4, <3>5, <3>6, <4>2, <5>1 DEF Index, NoneApart
      <4> QED
        BY <4>1, <4>2
    <3>9. NamesIn(new) \subseteq NamesIn(node) \cup {key}
      BY <2>2, <3>6, <3>8 DEF NamesIn, Names
    <3> QED
      BY <1>2, <3>6, <3>8, <3>9 DEF Entries, new
  <2> QED
    BY <2>3, <2>4
<1> QED
  BY <1>1, <1>2

-----------------------------------------------------------------------------
(* delete *)

\* What delete makes of a node.
Removes(node, key, h, result) ==
    \/ result = None /\ \A e \in Content(node) : e[1] = key
    \/ /\ result # None /\ Height(result, h) /\ Sound(result) /\ AllSized(result)
       /\ Names(result) \subseteq Names(node)
       /\ \A e : e \in Content(result) <=> e \in Content(node) /\ e[1] # key
       /\ AllLow(node) => AllLow(result)

\* The limits in terms of the number of entries.
LEMMA Limits ==
    ASSUME NEW m, Directory(m)
    PROVE  /\ Cardinality(DOMAIN m) \in Nat \ {0} /\ Max({maxKeys, 2}) \in Nat
           /\ Sized(m) <=> /\ Cardinality(DOMAIN m) <= Max({maxKeys, 2})
                           /\ isLeafNode(m) \/ Order < 4 \/ Cardinality(DOMAIN m) >= 2
<1>1. Cardinality(DOMAIN m) \in Nat /\ Cardinality(DOMAIN m) # 0
  BY FS_CardinalityType, FS_EmptySet DEF Directory
<1>2. maxKeys \in Nat
  BY OrderAssumption DEF maxKeys
<1>3. Max({maxKeys, 2}) \in Nat
  <2>1. \E a \in {maxKeys, 2} : \A b \in {maxKeys, 2} : a >= b
    BY <1>2
  <2> QED
    BY <1>2, <2>1 DEF Max
<1> QED
  BY <1>1, <1>3 DEF Sized

\* A node that keeps at least one entry when one is removed.
LEMMA AfterRemoval ==
    ASSUME NoneApart, NEW node, NEW h \in Nat, Height(node, h), Sound(node), AllSized(node),
           NEW c \in DOMAIN node, DOMAIN node \ {c} # {}
    PROVE  LET S == DOMAIN node \ {c}
               result == afterRemoval(removeEntry(node, c))
           IN /\ result # None /\ Height(result, h) /\ Sound(result) /\ AllSized(result)
              /\ Names(result) \subseteq Names(node)
              /\ isLeafNode(node) => Content(result) = {<<k, node[k].value>> : k \in S}
              /\ ~isLeafNode(node) => Content(result) = UNION {Content(node[a].node) : a \in S}
              /\ AllLow(node) => AllLow(result)
<1> DEFINE S == DOMAIN node \ {c}
           sub == removeEntry(node, c)
           result == afterRemoval(sub)
           only == CHOOSE name \in DOMAIN sub : TRUE
<1>1. sub = [a \in S |-> node[a]] /\ DOMAIN sub = S /\ \A a \in S : sub[a] = node[a]
  BY DEF removeEntry, Restrict
<1>2. result = IF Cardinality(S) = 1 /\ sub[only].type = "Dir" THEN sub[only].node ELSE sub
  BY <1>1 DEF afterRemoval
<1> HIDE DEF sub
<1>3. PartOf(sub, S, node, h)
  BY <1>1, SubNode
<1>4. /\ Height(sub, h) /\ Sound(sub)
      /\ isLeafNode(sub) <=> isLeafNode(node)
      /\ AllLow(node) => AllLow(sub)
      /\ Names(sub) \subseteq Names(node)
      /\ isLeafNode(node) => Content(sub) = {<<k, node[k].value>> : k \in S}
      /\ ~isLeafNode(node) => Content(sub) = UNION {Content(node[a].node) : a \in S}
  BY <1>3 DEF PartOf
<1>5. SizedBelow(node) /\ Sized(node) /\ SizedBelow(sub)
  <2>1. SizedBelow(node) /\ Sized(node)
    BY SizedRoot
  <2> QED
    BY <1>3, <2>1 DEF PartOf
<1>6. Directory(node) /\ Directory(sub)
  BY <1>4, SoundInside
<1>7. Cardinality(S) = Cardinality(DOMAIN node) - 1
  <2> DEFINE D == DOMAIN node
  <2>1. IsFiniteSet(D) /\ c \in D
    BY <1>6 DEF Directory
  <2> HIDE DEF D
  <2>2. Cardinality(D \ {c}) = Cardinality(D) - 1
    BY <2>1, FS_RemoveElement
  <2> QED
    BY <2>2 DEF D
<1>8. CASE isLeafNode(node) \/ Cardinality(S) # 1
  <2>1. result = sub
    <3>1. CASE Cardinality(S) # 1
      BY <1>2, <3>1
    <3>2. CASE isLeafNode(node)
      <4>1. only \in DOMAIN sub
        BY <1>1
      <4>2. sub[only] = Blob(sub[only].value)
        BY <1>4, <1>6, <3>2, <4>1, Kinds
      <4>3. sub[only].type = "Blob"
        BY <4>2 DEF Blob
      <4> HIDE DEF only
      <4> QED
        BY <1>2, <4>3
    <3> QED
      BY <1>8, <3>1, <3>2
  <2>2. Sized(sub)
    <3>1. /\ Cardinality(DOMAIN node) \in Nat \ {0} /\ Max({maxKeys, 2}) \in Nat
          /\ Sized(node) <=> /\ Cardinality(DOMAIN node) <= Max({maxKeys, 2})
                             /\ isLeafNode(node) \/ Order < 4 \/ Cardinality(DOMAIN node) >= 2
      BY <1>6, Limits
    <3>2. /\ Cardinality(S) \in Nat \ {0}
          /\ Sized(sub) <=> /\ Cardinality(S) <= Max({maxKeys, 2})
                            /\ isLeafNode(sub) \/ Order < 4 \/ Cardinality(S) >= 2
      BY <1>1, <1>6, Limits
    <3> HIDE DEF S
    <3> QED
      BY <1>4, <1>5, <1>7, <1>8, <3>1, <3>2
  <2>3. AllSized(sub)
    BY <1>4, <1>5, <2>2, SizedRoot
  <2>4. sub # None
    BY <1>6 DEF NoneApart
  <2> HIDE DEF result, S
  <2> QED
    BY <1>4, <2>1, <2>3, <2>4 DEF result, sub, S
<1>9. CASE ~isLeafNode(node) /\ Cardinality(S) = 1
  <2>1. IsFiniteSet(S)
    BY <1>6, FS_Subset DEF Directory
  <2>2. PICK x : S = {x}
    BY <1>9, <2>1, FS_Singleton
  <2>3. only = x
    BY <1>1, <2>2
  <2>4. /\ sub[x] = Dir(sub[x].node) /\ Sound(sub[x].node) /\ Height(sub[x].node, h - 1) /\ Directory(sub[x].node)
        /\ h - 1 \in Nat
    BY <1>1, <1>4, <1>9, <2>2, SoundInside
  <2>5. sub[x].type = "Dir"
    BY <2>4 DEF Dir
  <2>6. result = sub[x].node /\ sub[x] = node[x]
    BY <1>1, <1>2, <1>9, <2>2, <2>3, <2>5
  <2> HIDE DEF result, only
  <2>7. Height(result, h)
    BY <2>4, <2>6, HeightGrows
  <2>8. AllSized(result)
    BY <1>4, <1>5, <1>9, <2>2, <1>1, <2>6 DEF SizedBelow
  <2>9. \A a \in DOMAIN node : Height(node[a].node, h - 1)
    BY <1>9, SoundInside
  <2>10. /\ Names(node) = DOMAIN node \cup UNION {Names(node[a].node) : a \in DOMAIN node}
         /\ AllLow(node) <=> Low(node) /\ \A a \in DOMAIN node : AllLow(node[a].node)
    BY <1>6, <1>9, <2>4, <2>9, Internal
  <2>11. Names(result) \subseteq Names(node) /\ (AllLow(node) => AllLow(result))
    BY <2>2, <2>6, <2>10
  <2>12. Content(result) = UNION {Content(node[a].node) : a \in S}
    BY <2>2, <2>6
  <2>13. result # None
    BY <2>4, <2>6 DEF NoneApart
  <2> HIDE DEF S
  <2> QED
    BY <1>9, <2>4, <2>6, <2>7, <2>8, <2>11, <2>12, <2>13 DEF result, sub, S
<1> QED
  BY <1>8, <1>9

\* What delete makes of a leaf.
LEMMA DeleteLeaf ==
    ASSUME NoneApart, NEW key \in Key, NEW node, NEW h \in Nat, Height(node, h), Sound(node), AllSized(node), isLeafNode(node)
    PROVE  Removes(node, key, h, IF key \in DOMAIN node THEN afterRemoval(removeEntry(node, key)) ELSE node)
<1> DEFINE D == DOMAIN node
           S == D \ {key}
           result == IF key \in D THEN afterRemoval(removeEntry(node, key)) ELSE node
<1>1. Directory(node)
  BY SoundInside
<1>2. Content(node) = {<<k, node[k].value>> : k \in D}
  BY <1>1, Leaf
<1>3. CASE key \notin D
  <2>1. result = node
    BY <1>3
  <2>2. \A e : e \in Content(node) => e[1] # key
    BY <1>2, <1>3
  <2>3. node # None
    BY <1>1 DEF NoneApart
  <2> HIDE DEF result
  <2> QED
    BY <2>1, <2>2, <2>3 DEF Removes, result
<1>4. CASE key \in D /\ S = {}
  <2>1. DOMAIN removeEntry(node, key) = {}
    BY <1>4 DEF removeEntry, Restrict
  <2>2. result = None
    BY <1>4, <2>1 DEF afterRemoval
  <2>3. \A e \in Content(node) : e[1] = key
    BY <1>2, <1>4
  <2> HIDE DEF result
  <2> QED
    BY <2>2, <2>3 DEF Removes, result
<1>5. CASE key \in D /\ S # {}
  <2>1. result = afterRemoval(removeEntry(node, key))
    BY <1>5
  <2> HIDE DEF result
  <2>2. /\ result # None /\ Height(result, h) /\ Sound(result) /\ AllSized(result)
        /\ Names(result) \subseteq Names(node)
        /\ Content(result) = {<<k, node[k].value>> : k \in S}
        /\ AllLow(node) => AllLow(result)
    BY <1>5, <2>1, AfterRemoval
  <2>3. \A e : e \in Content(result) <=> e \in Content(node) /\ e[1] # key
    BY <1>2, <2>2
  <2> QED
    BY <2>2, <2>3 DEF Removes, result
<1> QED
  BY <1>3, <1>4, <1>5

\* What delete makes of an internal node, from what it made of the child.
LEMMA DeleteInternal ==
    ASSUME NoneApart, NEW key \in Key,
           NEW node, NEW h \in Nat, Height(node, h), Sound(node), AllSized(node), ~isLeafNode(node),
           NEW c, Found(node, key, c), NEW newChild, Removes(node[c].node, key, h - 1, newChild)
    PROVE  Removes(node, key, h, IF newChild = None THEN afterRemoval(removeEntry(node, c))
                                 ELSE setEntry(node, c, Dir(newChild)))
<1> DEFINE D == DOMAIN node
           O == D \ {c}
           child == node[c].node
<1>1. /\ Directory(node) /\ h - 1 \in Nat /\ h = (h - 1) + 1
      /\ \A a \in D : /\ node[a] = Dir(node[a].node)
                      /\ Sound(node[a].node) /\ Height(node[a].node, h - 1)
                      /\ Directory(node[a].node)
      /\ Ordered(node)
      /\ \A a, b \in D : a < b => AllLow(node[b].node)
  BY SoundInside
<1>2. /\ D \in SUBSET Key /\ IsFiniteSet(D) /\ D \in SUBSET Nat /\ c \in Nat /\ c \in D
      /\ node = [a \in D |-> node[a]]
  BY <1>1, KeyAssumption DEF Directory, Found
<1>3. /\ Names(node) = D \cup UNION {Names(node[a].node) : a \in D}
      /\ Content(node) = UNION {Content(node[a].node) : a \in D}
      /\ AllLow(node) <=> Low(node) /\ \A a \in D : AllLow(node[a].node)
  BY <1>1, Internal
<1>4. SizedBelow(node) /\ Sized(node)
  BY SizedRoot
<1>5. ASSUME NEW a \in O, NEW e \in Content(node[a].node) PROVE e[1] # key
  <2>1. e[1] \in Names(node[a].node)
    BY <1>1, Contents
  <2>2. key \notin Names(node[a].node)
    BY <1>1, OnlyThere
  <2> QED
    BY <2>1, <2>2
<1>6. ASSUME NEW e
      PROVE  e \in Content(node) <=> e \in Content(child) \/ \E a \in O : e \in Content(node[a].node)
  <2>1. e \in Content(node) <=> \E a \in D : e \in Content(node[a].node)
    BY <1>3
  <2> QED
    BY <1>2, <2>1
<1>7. CASE newChild = None
  <2> DEFINE result == afterRemoval(removeEntry(node, c))
  <2>1. \A e \in Content(child) : e[1] = key
    BY <1>7 DEF Removes
  <2>2. CASE O = {}
    <3>1. DOMAIN removeEntry(node, c) = {}
      BY <2>2 DEF removeEntry, Restrict
    <3>2. result = None
      BY <3>1 DEF afterRemoval
    <3>3. \A e \in Content(node) : e[1] = key
      BY <1>6, <2>1, <2>2
    <3> HIDE DEF result
    <3> QED
      BY <1>7, <3>2, <3>3 DEF Removes, result
  <2>3. CASE O # {}
    <3>1. /\ result # None /\ Height(result, h) /\ Sound(result) /\ AllSized(result)
          /\ Names(result) \subseteq Names(node)
          /\ Content(result) = UNION {Content(node[a].node) : a \in O}
          /\ AllLow(node) => AllLow(result)
      BY <1>2, <2>3, AfterRemoval
    <3> HIDE DEF result
    <3>2. ASSUME NEW e PROVE e \in Content(result) <=> e \in Content(node) /\ e[1] # key
      <4>1. e \in Content(result) <=> \E a \in O : e \in Content(node[a].node)
        BY <3>1
      <4> HIDE DEF O
      <4> QED
        BY <1>5, <1>6, <2>1, <4>1
    <3> QED
      BY <1>7, <3>1, <3>2 DEF Removes, result
  <2> QED
    BY <2>2, <2>3
<1>8. CASE newChild # None
  <2> DEFINE new == setEntry(node, c, Dir(newChild))
  <2>1. /\ Height(newChild, h - 1) /\ Sound(newChild) /\ AllSized(newChild)
        /\ Names(newChild) \subseteq Names(child)
        /\ \A e : e \in Content(newChild) <=> e \in Content(child) /\ e[1] # key
        /\ AllLow(child) => AllLow(newChild)
    BY <1>8 DEF Removes
  <2>2. DOMAIN new = D /\ new[c] = Dir(newChild) /\ (\A a \in O : new[a] = node[a]) /\ new = [a \in D |-> new[a]]
    BY <1>2 DEF setEntry
  <2>3. new[c].node = newChild
    BY <2>2 DEF Dir
  <2> HIDE DEF new
  <2>4. IsFiniteSet({c}) /\ {c} \in SUBSET Key /\ {c} # {}
    BY <1>2, FS_Singleton
  <2>5. \A b \in D : c < b => \A k \in Names(newChild) : k < b
    BY <1>1, <1>2, <2>1 DEF Ordered
  <2>6. ASSUME NEW a \in D, a < c PROVE AllLow(newChild) /\ \A k \in Names(newChild) : c <= k
    BY <1>1, <1>2, <2>1, <2>6 DEF Ordered
  <2>7. Fits(new, {c}, node, c, h)
    <3>1. Alike((D \ {c}) \cup {c})
      BY <1>1, <1>2 DEF Alike, Directory
    <3> QED
      BY <1>2, <2>1, <2>2, <2>3, <2>4, <2>5, <2>6, <3>1 DEF Fits
  <2>8. new = [a \in (D \ {c}) \cup {c} |-> new[a]]
    <3>1. (D \ {c}) \cup {c} = D
      BY <1>2
    <3> QED
      BY <2>2, <3>1
  <2>9. Assembled(new, {c}, node, c, h)
    BY <2>2, <2>7, <2>8, Assemble
  <2>10. /\ ~isLeafNode(new) /\ Height(new, h) /\ Sound(new) /\ SizedBelow(new)
         /\ \A k : k \in Names(new) <=> \/ k = c \/ k \in Names(newChild)
                                        \/ \E a \in O : k = a \/ k \in Names(node[a].node)
         /\ \A e : e \in Content(new) <=> \/ e \in Content(newChild)
                                          \/ \E a \in O : e \in Content(node[a].node)
         /\ AllLow(node) /\ AllLow(newChild) /\ (\A k \in Names(newChild) : c <= k) => AllLow(new)
    BY <1>4, <2>1, <2>3, <2>9 DEF Assembled
  <2>11. AllLow(node) => AllLow(new)
    BY <1>2, <1>3, <2>1, <2>10 DEF Low
  <2>12. Names(new) \subseteq Names(node)
    <3>1. \A a \in D : a \in Names(node) /\ Names(node[a].node) \subseteq Names(node)
      BY <1>3
    <3> QED
      BY <1>2, <2>1, <2>10, <3>1
  <2>13. ASSUME NEW e PROVE e \in Content(new) <=> e \in Content(node) /\ e[1] # key
    <3> HIDE DEF O
    <3> QED
      BY <1>5, <1>6, <2>1, <2>10
  <2>14. AllSized(new)
    <3>1. Sized(new)
      BY <1>4, <2>2, <2>10 DEF Sized
    <3> QED
      BY <2>10, <3>1, SizedRoot
  <2>15. new # None
    <3>1. Directory(new)
      BY <2>10, SoundInside
    <3> QED
      BY <3>1 DEF NoneApart
  <2> QED
    BY <1>8, <2>10, <2>11, <2>12, <2>13, <2>14, <2>15 DEF Removes, new
<1> QED
  BY <1>7, <1>8

\* delete takes the entry of a key out of a search tree.
LEMMA DeleteRecursive ==
    ASSUME NoneApart, NEW key \in Key,
           NEW node, NEW h \in Nat, Height(node, h), Sound(node), AllSized(node)
    PROVE  Removes(node, key, h, delete(node, key))
<1> DEFINE op(y) == delete(y, key)
           Given(y, n) == Height(y, n) /\ Sound(y) /\ AllSized(y)
           bad == {n \in Nat : \E y : Given(y, n) /\ ~Removes(y, key, n, op(y))}
<1>1. SUFFICES ASSUME bad # {} PROVE FALSE
  BY <1>1
<1>2. PICK n \in bad : \A m \in bad : n <= m
  <2>1. bad \in SUBSET Nat
    OBVIOUS
  <2> QED
    BY <1>1, <2>1, SmallestExists
<1>3. PICK y : Given(y, n) /\ ~Removes(y, key, n, op(y))
  BY <1>2
<1>4. n \in Nat
  BY <1>2
<1>5. /\ Tree(y, n) /\ Directory(y) /\ n - 1 \in Nat /\ n = (n - 1) + 1 /\ ~(n <= n - 1)
      /\ ~isLeafNode(y) => \A a \in DOMAIN y : Sound(y[a].node) /\ Height(y[a].node, n - 1)
  BY <1>3, <1>4, SoundInside
<1> DEFINE c == findChild(y, key)
<1>6. op(y) = deleteStep(y, key, op(y[c].node))
  BY <1>4, <1>5, DeleteIs
<1> HIDE DEF op
<1>7. CASE isLeafNode(y)
  <2>1. op(y) = IF key \in DOMAIN y THEN afterRemoval(removeEntry(y, key)) ELSE y
    BY <1>6, <1>7 DEF deleteStep
  <2>2. Removes(y, key, n, op(y))
    BY <1>3, <1>4, <1>7, <2>1, DeleteLeaf
  <2> QED
    BY <1>3, <2>2
<1>8. CASE ~isLeafNode(y)
  <2> DEFINE child == y[c].node
  <2>1. Found(y, key, c) /\ c \in DOMAIN y
    BY <1>5, <1>8, NextChild DEF Found
  <2>2. Sound(child) /\ Height(child, n - 1)
    BY <1>5, <1>8, <2>1
  <2>3. AllSized(child)
    BY <1>3, <1>4, <1>8, <2>1, SizedRoot DEF SizedBelow
  <2>4. Removes(child, key, n - 1, op(child))
    BY <1>2, <1>5, <2>2, <2>3
  <2>5. op(y) = IF op(child) = None THEN afterRemoval(removeEntry(y, c)) ELSE setEntry(y, c, Dir(op(child)))
    BY <1>6, <1>8 DEF deleteStep
  <2> HIDE DEF c
  <2>6. Removes(y, key, n, op(y))
    BY <1>3, <1>4, <1>8, <2>1, <2>4, <2>5, DeleteInternal
  <2> QED
    BY <1>3, <2>6
<1> QED
  BY <1>7, <1>8

\* delete takes the entry of a key out of a root.
LEMMA Deletion ==
    ASSUME NoneApart, NEW key \in Key, NEW node, node # None, Index(node)
    PROVE  /\ Index(delete(node, key))
           /\ \A e : e \in Entries(delete(node, key)) <=> e \in Entries(node) /\ e[1] # key
<1>1. PICK h \in Nat : Height(node, h) /\ Sound(node) /\ AllSized(node)
  BY DEF Index
<1>2. Removes(node, key, h, delete(node, key))
  BY <1>1, DeleteRecursive
<1> QED
  BY <1>1, <1>2 DEF Removes, Index, Entries

-----------------------------------------------------------------------------
(* entries and range *)

Pairs == Key \X Value

\* The keys of a sequence of entries ascend.
Ascends(s) == \A i, j \in 1 .. Len(s) : i < j => s[i][1] < s[j][1]

\* Two sequences, one after the other.
LEMMA Joined ==
    ASSUME NEW s \in Seq(Pairs), NEW t \in Seq(Pairs), Ascends(s), Ascends(t),
           \A e \in ToSet(s), f \in ToSet(t) : e[1] < f[1]
    PROVE  s \o t \in Seq(Pairs) /\ ToSet(s \o t) = ToSet(s) \cup ToSet(t) /\ Ascends(s \o t)
<1> DEFINE m == Len(s)
           n == Len(t)
           u == s \o t
<1>1. m \in Nat /\ n \in Nat /\ DOMAIN s = 1 .. m /\ DOMAIN t = 1 .. n
  OBVIOUS
<1>2. u \in Seq(Pairs) /\ Len(u) = m + n /\ DOMAIN u = 1 .. m + n
  OBVIOUS
<1>3. \A i \in 1 .. m : u[i] = s[i]
  OBVIOUS
<1>4. \A i \in 1 .. m + n : m < i => i - m \in 1 .. n /\ u[i] = t[i - m]
  OBVIOUS
<1> HIDE DEF m, n, u
<1>5. ToSet(u) = ToSet(s) \cup ToSet(t)
  <2>1. ASSUME NEW e \in ToSet(u) PROVE e \in ToSet(s) \cup ToSet(t)
    <3>1. PICK i \in 1 .. m + n : e = u[i]
      BY <1>2 DEF ToSet
    <3>2. CASE i <= m
      <4>1. i \in 1 .. m
        BY <1>1, <3>2
      <4> QED
        BY <1>1, <1>3, <3>1, <4>1 DEF ToSet
    <3>3. CASE m < i
      BY <1>1, <1>4, <3>1, <3>3 DEF ToSet
    <3> QED
      BY <1>1, <3>2, <3>3
  <2>2. ASSUME NEW e \in ToSet(s) PROVE e \in ToSet(u)
    <3>1. PICK i \in 1 .. m : e = s[i]
      BY <1>1 DEF ToSet
    <3>2. i \in 1 .. m + n
      BY <1>1
    <3> QED
      BY <1>2, <1>3, <3>1, <3>2 DEF ToSet
  <2>3. ASSUME NEW e \in ToSet(t) PROVE e \in ToSet(u)
    <3>1. PICK j \in 1 .. n : e = t[j]
      BY <1>1 DEF ToSet
    <3>2. PICK i \in Nat : i = m + j
      BY <1>1
    <3>3. i \in 1 .. m + n /\ m < i /\ i - m = j
      BY <1>1, <3>2
    <3> QED
      BY <1>2, <1>4, <3>1, <3>3 DEF ToSet
  <2> QED
    BY <2>1, <2>2, <2>3
<1>6. ASSUME NEW i \in 1 .. m + n, NEW j \in 1 .. m + n, i < j PROVE u[i][1] < u[j][1]
  <2>1. CASE j <= m
    <3>1. i \in 1 .. m /\ j \in 1 .. m
      BY <1>1, <1>6, <2>1
    <3> QED
      BY <1>3, <1>6, <3>1 DEF Ascends, m
  <2>2. CASE i <= m /\ m < j
    <3>1. i \in 1 .. m
      BY <1>1, <2>2
    <3>2. u[i] \in ToSet(s) /\ u[j] \in ToSet(t)
      BY <1>1, <1>3, <1>4, <2>2, <3>1 DEF ToSet
    <3> QED
      BY <3>2
  <2>3. CASE m < i
    <3>1. m < j /\ i - m < j - m
      BY <1>1, <1>6, <2>3
    <3>2. i - m \in 1 .. n /\ j - m \in 1 .. n /\ u[i] = t[i - m] /\ u[j] = t[j - m]
      BY <1>4, <2>3, <3>1
    <3> QED
      BY <3>1, <3>2 DEF Ascends, n
  <2> QED
    BY <1>1, <2>1, <2>2, <2>3
<1> QED
  BY <1>2, <1>5, <1>6 DEF Ascends, u

\* Any number of sequences, one after the other.
LEMMA Flattened ==
    ASSUME NEW n \in Nat, n # 0, NEW seqs \in Seq(Seq(Pairs)), Len(seqs) = n,
           \A i \in 1 .. n : Ascends(seqs[i]),
           \A i, j \in 1 .. n : i < j => \A e \in ToSet(seqs[i]), f \in ToSet(seqs[j]) : e[1] < f[1]
    PROVE  /\ FlattenSeq(seqs) \in Seq(Pairs)
           /\ ToSet(FlattenSeq(seqs)) = UNION {ToSet(seqs[i]) : i \in 1 .. n}
           /\ Ascends(FlattenSeq(seqs))
<1> DEFINE Is(g, m) == g = [i \in 1 .. m |-> IF i = 1 THEN seqs[i] ELSE g[i - 1] \o seqs[i]]
           Fine(s, m) == s \in Seq(Pairs) /\ Ascends(s) /\ ToSet(s) = UNION {ToSet(seqs[i]) : i \in 1 .. m}
           bad == {m \in Nat : m # 0 /\ m <= n /\ ~\E g : Is(g, m)}
           wrong(g) == {m \in Nat : m # 0 /\ m <= n /\ ~Fine(g[m], m)}
<1>0. \A i \in 1 .. n : seqs[i] \in Seq(Pairs)
  OBVIOUS
<1>1. ASSUME bad # {} PROVE FALSE
  <2>1. PICK m \in bad : \A k \in bad : m <= k
    <3>1. bad \in SUBSET Nat
      OBVIOUS
    <3> QED
      BY <1>1, <3>1, SmallestExists
  <2>2. CASE m = 1
    <3> DEFINE g == [i \in 1 .. m |-> seqs[1]]
    <3>1. \A i \in 1 .. m : i = 1
      BY <2>2
    <3>2. Is(g, m)
      BY <3>1
    <3> HIDE DEF Is
    <3> QED
      BY <2>1, <3>2
  <2>3. CASE m # 1
    <3>1. m - 1 \in Nat /\ m - 1 # 0 /\ m - 1 <= n /\ ~(m <= m - 1)
      BY <2>1, <2>3
    <3>2. PICK g : Is(g, m - 1)
      <4> HIDE DEF Is
      <4> QED
        BY <2>1, <3>1
    <3> DEFINE f == [i \in 1 .. m |-> IF i = m THEN g[m - 1] \o seqs[m] ELSE g[i]]
    <3>3. ASSUME NEW i \in 1 .. m PROVE f[i] = IF i = 1 THEN seqs[i] ELSE f[i - 1] \o seqs[i]
      <4>1. CASE i = m
        <5>1. m - 1 \in 1 .. m /\ m - 1 # m
          BY <3>1
        <5> QED
          BY <2>3, <4>1, <5>1
      <4>2. CASE i # m
        <5>1. i \in 1 .. m - 1
          BY <2>1, <4>2
        <5>2. g[i] = IF i = 1 THEN seqs[i] ELSE g[i - 1] \o seqs[i]
          BY <3>2, <5>1
        <5>3. i # 1 => i - 1 \in 1 .. m /\ i - 1 # m
          BY <2>1, <5>1
        <5> QED
          BY <4>2, <5>2, <5>3
      <4> QED
        BY <4>1, <4>2
    <3>4. f = [i \in 1 .. m |-> f[i]]
      OBVIOUS
    <3> HIDE DEF f
    <3>5. Is(f, m)
      BY <3>3, <3>4
    <3> HIDE DEF Is
    <3> QED
      BY <2>1, <3>5
  <2> QED
    BY <2>2, <2>3
<1>2. PICK g : Is(g, n) /\ FlattenSeq(seqs) = g[n]
  <2>1. \E g : Is(g, n)
    <3> HIDE DEF Is
    <3>1. n <= n
      OBVIOUS
    <3> QED
      BY <1>1, <3>1
  <2> DEFINE G == CHOOSE g : Is(g, n)
  <2>2. Is(G, n)
    <3> HIDE DEF Is
    <3> QED
      BY <2>1, Zenon
  <2>3. FlattenSeq(seqs) = G[n]
    BY Zenon DEF FlattenSeq
  <2> HIDE DEF G, Is
  <2> QED
    BY <2>2, <2>3
<1>3. ASSUME wrong(g) # {} PROVE FALSE
  <2>1. PICK m \in wrong(g) : \A k \in wrong(g) : m <= k
    <3>1. wrong(g) \in SUBSET Nat
      OBVIOUS
    <3> QED
      BY <1>3, <3>1, SmallestExists
  <2>2. m \in 1 .. n /\ ~Fine(g[m], m)
    BY <2>1
  <2>3. CASE m = 1
    <3>1. g[m] = seqs[1]
      BY <1>2, <2>2, <2>3
    <3>2. UNION {ToSet(seqs[i]) : i \in 1 .. m} = ToSet(seqs[1])
      BY <2>3
    <3> QED
      BY <1>0, <2>2, <2>3, <3>1, <3>2
  <2>4. CASE m # 1
    <3>1. m - 1 \in Nat /\ m - 1 # 0 /\ m - 1 <= n /\ ~(m <= m - 1) /\ m - 1 \in 1 .. n
      BY <2>2, <2>4
    <3>2. Fine(g[m - 1], m - 1)
      <4> HIDE DEF Fine
      <4> QED
        BY <2>1, <3>1
    <3>3. g[m] = g[m - 1] \o seqs[m]
      BY <1>2, <2>2, <2>4
    <3>4. \A e \in ToSet(g[m - 1]), f \in ToSet(seqs[m]) : e[1] < f[1]
      <4>1. ASSUME NEW i \in 1 .. m - 1 PROVE i \in 1 .. n /\ i < m
        BY <2>2, <3>1
      <4> QED
        BY <2>2, <3>2, <4>1
    <3>5. /\ g[m] \in Seq(Pairs) /\ Ascends(g[m])
          /\ ToSet(g[m]) = ToSet(g[m - 1]) \cup ToSet(seqs[m])
      BY <1>0, <2>2, <3>2, <3>3, <3>4, Joined
    <3>6. \A i : i \in 1 .. m <=> i \in 1 .. m - 1 \/ i = m
      BY <2>2, <3>1
    <3>7. UNION {ToSet(seqs[i]) : i \in 1 .. m} = ToSet(g[m - 1]) \cup ToSet(seqs[m])
      BY <3>2, <3>6
    <3> QED
      BY <2>2, <3>5, <3>7
  <2> QED
    BY <2>3, <2>4
<1>4. Fine(g[n], n)
  <2> HIDE DEF Fine
  <2>1. n <= n
    OBVIOUS
  <2> QED
    BY <1>3, <2>1
<1> QED
  BY <1>2, <1>4

\* The i-th entry of a leaf is before start, or all that is below the i-th child
\* of an internal node is.
Skips(node, start, i) ==
    LET sorted == sortEntries(node)
    IN start # None /\ IF isLeafNode(node) THEN sorted[i] < start ELSE i < Len(sorted) /\ sorted[i + 1] <= start

\* The loop of rangeTraverse visits exactly what it does not skip and what is
\* named before end: after the first name that is not, there is no other.
LEMMA Visited ==
    ASSUME NEW node, Directory(node), NEW start, NEW end \in Key \cup {None},
           NEW i \in 1 .. Cardinality(DOMAIN node)
    PROVE  i \in visited(node, start, end) <=>
               ~Skips(node, start, i) /\ (end = None \/ sortEntries(node)[i] < end)
<1> DEFINE n == Cardinality(DOMAIN node)
           s == sortEntries(node)
           skipped(j) == start # None /\ IF isLeafNode(node) THEN s[j] < start ELSE j < Len(s) /\ s[j + 1] <= start
           stops(j) == end # None /\ ~skipped(j) /\ s[j] >= end
           ends == {j \in 1 .. Len(s) : stops(j)} \cup {Len(s) + 1}
           last == Min(ends)
<1>1. Len(s) = n /\ n \in Nat
  BY SortedSeq DEF Directory
<1>2. Lists(s, DOMAIN node)
  BY Sorted DEF Directory
<1>3. \A j \in 1 .. n : s[j] \in Nat
  BY <1>2, KeyAssumption DEF Lists, Directory
<1>4. \A j, k \in 1 .. n : j < k => s[j] < s[k]
  BY <1>2 DEF Lists
<1>5. visited(node, start, end) = {j \in 1 .. last - 1 : ~skipped(j)}
  BY Zenon DEF visited
<1>6. skipped(i) <=> Skips(node, start, i)
  BY DEF Skips
<1> HIDE DEF s, skipped, n
<1>7. last \in ends /\ \A j \in ends : last <= j
  <2>1. ends \in SUBSET Nat /\ ends # {}
    BY <1>1
  <2> QED
    BY <2>1, MinIsLeast
<1>8. last \in Nat /\ last >= 1 /\ last <= n + 1 /\ (last # n + 1 => stops(last) /\ last \in 1 .. n)
  BY <1>1, <1>7
<1> HIDE DEF last
<1>9. i \in Nat /\ i \in 1 .. n /\ i <= n
  BY <1>1 DEF n
<1>10. ASSUME i \in visited(node, start, end) PROVE ~skipped(i) /\ (end = None \/ s[i] < end)
  <2>1. i <= last - 1 /\ ~skipped(i)
    BY <1>5, <1>10
  <2>2. ~stops(i)
    BY <1>1, <1>7, <1>8, <1>9, <2>1
  <2>3. CASE end = None
    BY <2>1, <2>3
  <2>4. CASE end # None
    <3>1. end \in Nat
      BY <2>4, KeyAssumption
    <3> QED
      BY <1>3, <1>9, <2>1, <2>2, <2>4, <3>1
  <2> QED
    BY <2>3, <2>4
<1>11. ASSUME ~skipped(i), end = None \/ s[i] < end PROVE i \in visited(node, start, end)
  <2>1. i < last
    <3>1. SUFFICES ASSUME last <= i PROVE FALSE
      BY <1>8, <1>9
    <3>2. last # n + 1
      BY <1>1, <1>8, <1>9, <3>1
    <3>3. end # None /\ s[last] >= end /\ last \in 1 .. n
      BY <1>8, <3>2
    <3>4. end \in Nat /\ s[last] \in Nat /\ s[i] \in Nat
      BY <1>3, <1>9, <3>3, KeyAssumption
    <3>5. s[last] <= s[i]
      <4>1. CASE last = i
        BY <3>4, <4>1
      <4>2. CASE last < i
        BY <1>4, <1>9, <3>3, <3>4, <4>2
      <4> QED
        BY <1>8, <1>9, <3>1, <4>1, <4>2
    <3> QED
      BY <1>11, <3>3, <3>4, <3>5
  <2>2. i \in 1 .. last - 1
    BY <1>8, <1>9, <2>1
  <2> QED
    BY <1>5, <1>11, <2>2
<1> QED
  BY <1>6, <1>10, <1>11 DEF s

\* The entries of a tree from start up to end.
Within(node, start, end) ==
    {e \in Content(node) : (start = None \/ e[1] >= start) /\ (end = None \/ e[1] < end)}

\* The keys of the leaves are those of the entries.
LEMMA KeysOfContent ==
    ASSUME NEW node
    PROVE  \A k : k \in KeysBelow(node) <=> \E e \in Content(node) : e[1] = k
<1>1. ASSUME NEW k PROVE k \in KeysBelow(node) <=> \E m \in Below(node) : isLeafNode(m) /\ k \in DOMAIN m
  BY DEF KeysBelow
<1>2. ASSUME NEW k
      PROVE  (\E e \in Content(node) : e[1] = k) <=> \E m \in Below(node) : isLeafNode(m) /\ k \in DOMAIN m
  <2>1. ASSUME NEW m \in Below(node), isLeafNode(m), k \in DOMAIN m PROVE <<k, m[k].value>> \in Content(node)
    BY <2>1 DEF Content
  <2>2. ASSUME NEW e \in Content(node) PROVE \E m \in Below(node) : isLeafNode(m) /\ e[1] \in DOMAIN m
    BY DEF Content
  <2> QED
    BY <2>1, <2>2
<1> QED
  BY <1>1, <1>2

\* What a traversal yields.
Traverses(node, start, end, seq) ==
    seq \in Seq(Pairs) /\ ToSet(seq) = Within(node, start, end) /\ Ascends(seq)

\* The sequences of none and of one entry.
LEMMA ShortSequences ==
    /\ <<>> \in Seq(Pairs) /\ ToSet(<<>>) = {} /\ Ascends(<<>>)
    /\ \A e \in Pairs : <<e>> \in Seq(Pairs) /\ ToSet(<<e>>) = {e} /\ Ascends(<<e>>)
<1>1. <<>> \in Seq(Pairs) /\ ToSet(<<>>) = {} /\ Ascends(<<>>)
  BY DEF ToSet, Ascends
<1>2. ASSUME NEW e \in Pairs PROVE <<e>> \in Seq(Pairs) /\ ToSet(<<e>>) = {e} /\ Ascends(<<e>>)
  <2>1. <<e>> \in Seq(Pairs) /\ Len(<<e>>) = 1 /\ DOMAIN <<e>> = 1 .. 1 /\ <<e>>[1] = e
    OBVIOUS
  <2>2. \A i \in 1 .. 1 : i = 1
    OBVIOUS
  <2>3. ToSet(<<e>>) = {e}
    BY <2>1, <2>2 DEF ToSet
  <2>4. Ascends(<<e>>)
    BY <2>1, <2>2 DEF Ascends
  <2> QED
    BY <2>1, <2>3, <2>4
<1> QED
  BY <1>1, <1>2

\* Within bounds, of an entry.
LEMMA Bounded ==
    ASSUME NEW node, Sound(node), NEW start \in Key \cup {None}, NEW end \in Key \cup {None}, NEW e
    PROVE  e \in Within(node, start, end) <=>
               /\ e \in Content(node)
               /\ start = None \/ ~(e[1] < start)
               /\ end = None \/ e[1] < end
<1>1. ASSUME e \in Content(node) PROVE e[1] \in Nat
  BY <1>1, Contents
<1>2. start # None => start \in Nat
  BY KeyAssumption
<1> QED
  BY <1>1, <1>2 DEF Within

\* A traversal of a leaf.
LEMMA TraverseLeaf ==
    ASSUME NEW node, Directory(node), isLeafNode(node), NEW below,
           NEW start \in Key \cup {None}, NEW end \in Key \cup {None}
    PROVE  Traverses(node, start, end, rangeStep(node, start, end, below))
<1> DEFINE D == DOMAIN node
           n == Cardinality(D)
           s == sortEntries(node)
           entry(i) == <<s[i], node[s[i]].value>>
           part(i) == IF i \notin visited(node, start, end) THEN <<>> ELSE <<entry(i)>>
           seqs == [i \in 1 .. n |-> part(i)]
<1>1. Len(s) = n /\ n \in Nat /\ n # 0
  BY SortedSeq, FS_EmptySet DEF Directory
<1>2. Lists(s, D)
  BY Sorted DEF Directory
<1>3. /\ \A i \in 1 .. n : s[i] \in D
      /\ \A a \in D : \E i \in 1 .. n : s[i] = a
      /\ \A i, j \in 1 .. n : i < j => s[i] < s[j]
  BY <1>2 DEF Lists
<1>4. rangeStep(node, start, end, below) = FlattenSeq(seqs)
  <2>1. \A i \in 1 .. n : part(i) = IF i \notin visited(node, start, end) THEN <<>>
                                    ELSE IF isLeafNode(node) THEN <<entry(i)>>
                                    ELSE below[node[s[i]].node]
    OBVIOUS
  <2>2. seqs = [i \in 1 .. Len(s) |-> IF i \notin visited(node, start, end) THEN <<>>
                                      ELSE IF isLeafNode(node) THEN <<entry(i)>>
                                      ELSE below[node[s[i]].node]]
    BY <1>1, <2>1
  <2> HIDE DEF seqs, part
  <2> QED
    BY <2>2, Zenon DEF rangeStep
<1>5. \A i \in 1 .. n : entry(i) \in Pairs
  BY <1>3, Kinds DEF Pairs, Directory
<1>6. \A i \in 1 .. n : i \in visited(node, start, end) <=>
          (start = None \/ ~(s[i] < start)) /\ (end = None \/ s[i] < end)
  BY Visited DEF Skips
<1>7. Content(node) = {<<k, node[k].value>> : k \in D} /\ Sound(node)
  BY Leaf
<1> HIDE DEF n, s, D
<1>8. ASSUME NEW i \in 1 .. n
      PROVE  /\ part(i) \in Seq(Pairs) /\ Ascends(part(i))
             /\ \A e : e \in ToSet(part(i)) <=> i \in visited(node, start, end) /\ e = entry(i)
  <2> HIDE DEF entry
  <2> QED
    BY <1>5, ShortSequences
<1> HIDE DEF part
<1>9. seqs \in Seq(Seq(Pairs)) /\ Len(seqs) = n /\ \A i \in 1 .. n : seqs[i] = part(i)
  BY <1>1, <1>8
<1>10. ASSUME NEW i \in 1 .. n, NEW j \in 1 .. n, i < j, NEW e \in ToSet(seqs[i]), NEW f \in ToSet(seqs[j])
       PROVE  e[1] < f[1]
  <2>1. e = entry(i) /\ f = entry(j)
    BY <1>8, <1>9
  <2> QED
    BY <1>3, <1>10, <2>1
<1> HIDE DEF seqs
<1>11. /\ FlattenSeq(seqs) \in Seq(Pairs) /\ Ascends(FlattenSeq(seqs))
       /\ ToSet(FlattenSeq(seqs)) = UNION {ToSet(seqs[i]) : i \in 1 .. n}
  <2>1. \A i \in 1 .. n : Ascends(seqs[i])
    BY <1>8, <1>9
  <2>2. \A i, j \in 1 .. n : i < j => \A e \in ToSet(seqs[i]), f \in ToSet(seqs[j]) : e[1] < f[1]
    BY <1>10
  <2> QED
    BY <1>1, <1>9, <2>1, <2>2, Flattened
<1>12. ASSUME NEW e PROVE e \in ToSet(FlattenSeq(seqs)) <=> e \in Within(node, start, end)
  <2>1. e \in ToSet(FlattenSeq(seqs)) <=> \E i \in 1 .. n : i \in visited(node, start, end) /\ e = entry(i)
    BY <1>8, <1>9, <1>11
  <2>2. e \in Content(node) <=> \E i \in 1 .. n : e = entry(i)
    BY <1>3, <1>7
  <2>3. e \in Within(node, start, end) <=>
               /\ e \in Content(node)
               /\ start = None \/ ~(e[1] < start)
               /\ end = None \/ e[1] < end
    BY <1>7, Bounded
  <2>4. \A i \in 1 .. n : entry(i)[1] = s[i]
    OBVIOUS
  <2> HIDE DEF entry
  <2> QED
    BY <1>6, <2>1, <2>2, <2>3, <2>4
<1> QED
  BY <1>4, <1>11, <1>12 DEF Traverses

\* A traversal of an internal node, from what it yields at the children.
LEMMA TraverseInternal ==
    ASSUME NEW node, NEW h \in Nat, Height(node, h), Sound(node), ~isLeafNode(node),
           NEW start \in Key \cup {None}, NEW end \in Key \cup {None}, EndBounded(node, end), NEW below,
           \A a \in DOMAIN node : Traverses(node[a].node, start, end, below[node[a].node])
    PROVE  Traverses(node, start, end, rangeStep(node, start, end, below))
<1> DEFINE D == DOMAIN node
           n == Cardinality(D)
           s == sortEntries(node)
           child(i) == node[s[i]].node
           part(i) == IF i \notin visited(node, start, end) THEN <<>> ELSE below[child(i)]
           seqs == [i \in 1 .. n |-> part(i)]
<1>1. /\ Directory(node) /\ Tree(node, h) /\ h - 1 \in Nat
      /\ \A a \in D : Sound(node[a].node) /\ Height(node[a].node, h - 1)
      /\ Ordered(node)
  BY SoundInside
<1>2. Len(s) = n /\ n \in Nat /\ n # 0
  BY <1>1, SortedSeq, FS_EmptySet DEF Directory
<1>3. Lists(s, D)
  BY <1>1, Sorted DEF Directory
<1>4. /\ \A i \in 1 .. n : s[i] \in D /\ s[i] \in Nat
      /\ \A a \in D : \E i \in 1 .. n : s[i] = a
      /\ \A i, j \in 1 .. n : i < j => s[i] < s[j]
  BY <1>1, <1>3, KeyAssumption DEF Lists, Directory
<1>5. rangeStep(node, start, end, below) = FlattenSeq(seqs)
  <2>1. \A i \in 1 .. n : part(i) = IF i \notin visited(node, start, end) THEN <<>>
                                    ELSE IF isLeafNode(node) THEN <<<<s[i], node[s[i]].value>>>>
                                    ELSE below[node[s[i]].node]
    OBVIOUS
  <2>2. seqs = [i \in 1 .. Len(s) |-> IF i \notin visited(node, start, end) THEN <<>>
                                      ELSE IF isLeafNode(node) THEN <<<<s[i], node[s[i]].value>>>>
                                      ELSE below[node[s[i]].node]]
    BY <1>2, <2>1
  <2> HIDE DEF seqs, part
  <2> QED
    BY <2>2, Zenon DEF rangeStep
<1>6. \A i \in 1 .. n : i \in visited(node, start, end) <=>
          ~(start # None /\ i < n /\ s[i + 1] <= start) /\ (end = None \/ s[i] < end)
  BY <1>1, <1>2, Visited DEF Skips
<1>7. Content(node) = UNION {Content(node[a].node) : a \in D}
  BY <1>1, Internal
<1>8. node \in Below(node)
  BY <1>1, TreeInside
<1> HIDE DEF n, s, D
<1>9. ASSUME NEW i \in 1 .. n
      PROVE  /\ Sound(child(i)) /\ Traverses(child(i), start, end, below[child(i)])
             /\ \A e \in Content(child(i)) : e[1] \in Names(child(i)) /\ e[1] \in Nat
  <2>1. Sound(child(i)) /\ Traverses(child(i), start, end, below[child(i)])
    BY <1>1, <1>4 DEF D
  <2> QED
    BY <2>1, Contents
<1>10. ASSUME NEW i \in 1 .. n, NEW j \in 1 .. n, i < j, NEW e \in Content(child(i)) PROVE e[1] < s[j]
  BY <1>1, <1>4, <1>9, <1>10 DEF Ordered, D
<1>11. ASSUME NEW i \in 1 .. n, NEW j \in 1 .. n, i < j, NEW f \in Content(child(j)) PROVE s[j] <= f[1]
  BY <1>1, <1>4, <1>9, <1>11 DEF Ordered, D
<1>12. ASSUME NEW i \in 1 .. n, i \notin visited(node, start, end) PROVE Within(child(i), start, end) = {}
  <2>1. SUFFICES ASSUME NEW e \in Within(child(i), start, end) PROVE FALSE
    OBVIOUS
  <2>2. e \in Content(child(i)) /\ (start = None \/ ~(e[1] < start)) /\ (end = None \/ e[1] < end)
    BY <1>9, <2>1, Bounded
  <2>3. e[1] \in Nat
    BY <1>9, <2>2
  <2>4. CASE start # None /\ i < n /\ s[i + 1] <= start
    <3>1. i + 1 \in 1 .. n /\ i < i + 1 /\ start \in Nat /\ s[i + 1] \in Nat
      BY <1>2, <1>4, <2>4, KeyAssumption
    <3>2. e[1] < s[i + 1]
      BY <1>10, <2>2, <3>1
    <3> QED
      BY <2>2, <2>3, <2>4, <3>1, <3>2
  <2>5. CASE end # None /\ ~(s[i] < end)
    <3>1. end \in Nat /\ s[i] >= end
      <4>1. end \in Nat
        BY <2>5, KeyAssumption
      <4>2. s[i] \in Nat
        BY <1>4
      <4> QED
        BY <2>5, <4>1, <4>2
    <3>2. \A k \in KeysBelow(child(i)) : k >= end
      BY <1>4, <1>8, <2>5, <3>1 DEF EndBounded, D
    <3>3. e[1] \in KeysBelow(child(i))
      BY <2>2, KeysOfContent
    <3> QED
      BY <2>2, <2>3, <2>5, <3>1, <3>2, <3>3
  <2> QED
    BY <1>6, <1>12, <2>4, <2>5
<1>13. ASSUME NEW i \in 1 .. n
       PROVE  part(i) \in Seq(Pairs) /\ Ascends(part(i)) /\ ToSet(part(i)) = Within(child(i), start, end)
  <2>1. CASE i \in visited(node, start, end)
    BY <1>9, <2>1 DEF Traverses
  <2>2. CASE i \notin visited(node, start, end)
    BY <1>12, <2>2, ShortSequences
  <2> QED
    BY <2>1, <2>2
<1> HIDE DEF part
<1>14. seqs \in Seq(Seq(Pairs)) /\ Len(seqs) = n /\ \A i \in 1 .. n : seqs[i] = part(i)
  BY <1>2, <1>13
<1>15. ASSUME NEW i \in 1 .. n, NEW j \in 1 .. n, i < j, NEW e \in ToSet(seqs[i]), NEW f \in ToSet(seqs[j])
       PROVE  e[1] < f[1]
  <2>1. e \in Content(child(i)) /\ f \in Content(child(j))
    BY <1>13, <1>14 DEF Within
  <2>2. e[1] < s[j] /\ s[j] <= f[1]
    BY <1>10, <1>11, <1>15, <2>1
  <2>3. e[1] \in Nat /\ f[1] \in Nat /\ s[j] \in Nat
    BY <1>4, <1>9, <2>1
  <2> QED
    BY <2>2, <2>3
<1> HIDE DEF seqs
<1>16. /\ FlattenSeq(seqs) \in Seq(Pairs) /\ Ascends(FlattenSeq(seqs))
       /\ ToSet(FlattenSeq(seqs)) = UNION {ToSet(seqs[i]) : i \in 1 .. n}
  <2>1. \A i \in 1 .. n : Ascends(seqs[i])
    BY <1>13, <1>14
  <2>2. \A i, j \in 1 .. n : i < j => \A e \in ToSet(seqs[i]), f \in ToSet(seqs[j]) : e[1] < f[1]
    BY <1>15
  <2> QED
    BY <1>2, <1>14, <2>1, <2>2, Flattened
<1>17. ASSUME NEW e PROVE e \in ToSet(FlattenSeq(seqs)) <=> e \in Within(node, start, end)
  <2>1. e \in ToSet(FlattenSeq(seqs)) <=> \E i \in 1 .. n : e \in Within(child(i), start, end)
    BY <1>13, <1>14, <1>16
  <2>2. e \in Content(node) <=> \E i \in 1 .. n : e \in Content(child(i))
    BY <1>4, <1>7
  <2> QED
    BY <2>1, <2>2 DEF Within
<1> QED
  BY <1>5, <1>16, <1>17 DEF Traverses

\* rangeTraverse yields the entries within the bounds, in order.
LEMMA Traversal ==
    ASSUME NEW start \in Key \cup {None}, NEW end \in Key \cup {None},
           NEW node, NEW h \in Nat, Height(node, h), Sound(node), EndBounded(node, end)
    PROVE  Traverses(node, start, end, rangeTraverse(node, start, end))
<1> DEFINE op(y) == rangeTraverse(y, start, end)
           Given(y, n) == Height(y, n) /\ Sound(y) /\ EndBounded(y, end)
           bad == {n \in Nat : \E y : Given(y, n) /\ ~Traverses(y, start, end, op(y))}
<1>1. SUFFICES ASSUME bad # {} PROVE FALSE
  BY <1>1
<1>2. PICK n \in bad : \A m \in bad : n <= m
  <2>1. bad \in SUBSET Nat
    OBVIOUS
  <2> QED
    BY <1>1, <2>1, SmallestExists
<1>3. PICK y : Given(y, n) /\ ~Traverses(y, start, end, op(y))
  BY <1>2
<1>4. n \in Nat
  BY <1>2
<1>5. /\ Tree(y, n) /\ Directory(y) /\ n - 1 \in Nat /\ ~(n <= n - 1)
      /\ ~isLeafNode(y) => \A a \in DOMAIN y : Sound(y[a].node) /\ Height(y[a].node, n - 1)
  BY <1>3, <1>4, SoundInside
<1> DEFINE below == [c \in children(y) |-> op(c)]
<1>6. op(y) = rangeStep(y, start, end, below)
  BY <1>4, <1>5, RangeIs
<1> HIDE DEF op
<1>7. CASE isLeafNode(y)
  <2>1. Traverses(y, start, end, op(y))
    BY <1>5, <1>6, <1>7, TraverseLeaf
  <2> QED
    BY <1>3, <2>1
<1>8. CASE ~isLeafNode(y)
  <2>1. children(y) = {y[a].node : a \in DOMAIN y}
    BY <1>5, <1>8, Kinds
  <2>2. ASSUME NEW a \in DOMAIN y PROVE Traverses(y[a].node, start, end, below[y[a].node])
    <3>1. y[a].node \in children(y)
      BY <2>1
    <3>2. y[a].node \in Below(y)
      BY <1>4, <1>5, <3>1, TreeInside
    <3>3. Below(y[a].node) \subseteq Below(y)
      BY <1>3, <1>4, <3>2, BelowInside
    <3>4. EndBounded(y[a].node, end)
      BY <1>3, <3>3 DEF EndBounded
    <3>5. Given(y[a].node, n - 1)
      BY <1>5, <1>8, <3>4
    <3>6. Traverses(y[a].node, start, end, op(y[a].node))
      BY <1>2, <1>5, <3>5
    <3> QED
      BY <3>1, <3>6
  <2> HIDE DEF below
  <2>3. Traverses(y, start, end, op(y))
    BY <1>3, <1>4, <1>6, <1>8, <2>2, TraverseInternal
  <2> QED
    BY <1>3, <2>3
<1> QED
  BY <1>7, <1>8

\* A traversal of an internal node yields nothing if it yields nothing at the
\* children that it may visit.
LEMMA NothingYielded ==
    ASSUME NEW node, Directory(node), ~isLeafNode(node), NEW start, NEW end \in Key \cup {None}, NEW below,
           \A a \in DOMAIN node : end = None \/ a < end => below[node[a].node] = <<>>
    PROVE  rangeStep(node, start, end, below) = <<>>
<1> DEFINE n == Cardinality(DOMAIN node)
           s == sortEntries(node)
           part(i) == IF i \notin visited(node, start, end) THEN <<>>
                      ELSE IF isLeafNode(node) THEN <<<<s[i], node[s[i]].value>>>>
                      ELSE below[node[s[i]].node]
           seqs == [i \in 1 .. n |-> part(i)]
<1>1. Len(s) = n /\ n \in Nat /\ n # 0
  BY SortedSeq, FS_EmptySet DEF Directory
<1>2. \A i \in 1 .. n : s[i] \in DOMAIN node
  <2>1. Lists(s, DOMAIN node)
    BY Sorted DEF Directory
  <2> QED
    BY <2>1 DEF Lists
<1>3. rangeStep(node, start, end, below) = FlattenSeq(seqs)
  <2>1. seqs = [i \in 1 .. Len(s) |-> part(i)]
    BY <1>1
  <2> HIDE DEF seqs
  <2> QED
    BY <2>1, Zenon DEF rangeStep
<1>4. ASSUME NEW i \in 1 .. n PROVE part(i) = <<>>
  <2>1. i \in visited(node, start, end) => end = None \/ s[i] < end
    BY Visited
  <2> QED
    BY <1>2, <2>1
<1> HIDE DEF part, n
<1>5. seqs \in Seq(Seq(Pairs)) /\ Len(seqs) = n /\ \A i \in 1 .. n : seqs[i] = <<>>
  <2>1. \A i \in 1 .. n : part(i) \in Seq(Pairs)
    BY <1>4, ShortSequences
  <2> QED
    BY <1>1, <1>4, <2>1
<1> HIDE DEF seqs
<1>6. \A i \in 1 .. n : Ascends(seqs[i]) /\ ToSet(seqs[i]) = {}
  BY <1>5, ShortSequences
<1>7. \A i, j \in 1 .. n : i < j => \A e \in ToSet(seqs[i]), f \in ToSet(seqs[j]) : e[1] < f[1]
  BY <1>6
<1> DEFINE flat == FlattenSeq(seqs)
<1>8. flat \in Seq(Pairs) /\ ToSet(flat) = UNION {ToSet(seqs[i]) : i \in 1 .. n}
  BY <1>1, <1>5, <1>6, <1>7, Flattened
<1> HIDE DEF flat
<1>9. ToSet(flat) = {}
  BY <1>6, <1>8
<1>10. Len(flat) \in Nat /\ ~(1 <= Len(flat))
  <2>1. Len(flat) \in Nat /\ DOMAIN flat = 1 .. Len(flat)
    BY <1>8
  <2>2. DOMAIN flat = {}
    BY <1>9 DEF ToSet
  <2> QED
    BY <2>1, <2>2
<1>11. flat = <<>>
  BY <1>8, <1>10
<1> QED
  BY <1>3, <1>11 DEF flat

\* If a child named end or later holds a key before end, it is the first child of
\* a node on the left edge, and a traversal up to end yields nothing.
LEMMA Unbounded ==
    ASSUME NEW start \in Key \cup {None}, NEW end \in Key \cup {None},
           NEW node, NEW h \in Nat, Height(node, h), Sound(node), ~EndBounded(node, end)
    PROVE  rangeTraverse(node, start, end) = <<>>
<1> DEFINE op(y) == rangeTraverse(y, start, end)
           Given(y, n) == Height(y, n) /\ Sound(y) /\ ~EndBounded(y, end)
           bad == {n \in Nat : \E y : Given(y, n) /\ op(y) # <<>>}
<1>1. SUFFICES ASSUME bad # {} PROVE FALSE
  BY <1>1
<1>2. PICK n \in bad : \A m \in bad : n <= m
  <2>1. bad \in SUBSET Nat
    OBVIOUS
  <2> QED
    BY <1>1, <2>1, SmallestExists
<1>3. PICK y : Given(y, n) /\ op(y) # <<>>
  BY <1>2
<1>4. n \in Nat
  BY <1>2
<1>5. /\ Tree(y, n) /\ Directory(y) /\ n - 1 \in Nat /\ ~(n <= n - 1)
      /\ ~isLeafNode(y) => /\ \A a \in DOMAIN y : Sound(y[a].node) /\ Height(y[a].node, n - 1)
                           /\ Ordered(y)
                           /\ \A a, b \in DOMAIN y : a < b => AllLow(y[b].node)
  BY <1>3, <1>4, SoundInside
<1> DEFINE below == [c \in children(y) |-> op(c)]
<1>6. op(y) = rangeStep(y, start, end, below)
  BY <1>4, <1>5, RangeIs
<1> HIDE DEF op
<1>7. end # None /\ \E x \in Below(y) : ~isLeafNode(x) /\ \E name \in DOMAIN x :
          name >= end /\ \E k \in KeysBelow(x[name].node) : ~(k >= end)
  BY <1>3 DEF EndBounded
<1>8. PICK x \in Below(y) : ~isLeafNode(x) /\ \E name \in DOMAIN x :
          name >= end /\ \E k \in KeysBelow(x[name].node) : ~(k >= end)
  BY <1>7
<1>9. PICK name \in DOMAIN x : name >= end /\ \E k \in KeysBelow(x[name].node) : ~(k >= end)
  BY <1>8
<1>10. PICK k \in KeysBelow(x[name].node) : ~(k >= end)
  BY <1>9
<1>11. Directory(x) /\ end \in Nat /\ DOMAIN x \in SUBSET Nat /\ DOMAIN y \in SUBSET Nat
  BY <1>5, <1>7, KeyAssumption DEF Tree, Directory
<1>12. k \in Names(x[name].node) /\ k \in Nat /\ k < name
  <2>1. k \in Names(x[name].node)
    BY DEF KeysBelow, Names
  <2>2. x[name].node \in children(x)
    BY <1>8, <1>11, Kinds
  <2>3. x[name].node \in Below(y)
    BY <1>4, <1>5, <2>2, TreeInside
  <2>4. Below(x[name].node) \subseteq Below(y)
    BY <1>3, <1>4, <2>3, BelowInside
  <2>5. k \in Nat
    BY <1>5, <2>1, <2>4, KeyAssumption DEF Names, Tree, Directory
  <2> QED
    BY <1>11, <1>9, <1>10, <2>1, <2>5
<1>13. ~isLeafNode(y)
  <2>1. isLeafNode(y) => Below(y) = {y}
    BY <1>5, Leaf
  <2> QED
    BY <1>8, <2>1
<1>14. children(y) = {y[a].node : a \in DOMAIN y}
  BY <1>5, <1>13, Kinds
<1>15. Below(y) = {y} \cup UNION {Below(y[a].node) : a \in DOMAIN y}
  BY <1>5, <1>13, Internal
<1>16. SUFFICES \A b \in DOMAIN y : end = None \/ b < end => below[y[b].node] = <<>>
  <2> HIDE DEF below
  <2> QED
    BY <1>3, <1>5, <1>6, <1>13, <1>16, NothingYielded
<1>17. CASE x = y
  <2>1. ASSUME NEW b \in DOMAIN y PROVE ~(b < end)
    <3>1. ~(b < name)
      BY <1>5, <1>11, <1>12, <1>13, <1>17 DEF Ordered
    <3> QED
      BY <1>11, <1>9, <3>1
  <2> QED
    BY <1>7, <2>1
<1>18. CASE \E a \in DOMAIN y : x \in Below(y[a].node)
  <2>1. PICK a \in DOMAIN y : x \in Below(y[a].node)
    BY <1>18
  <2>2. ASSUME NEW b \in DOMAIN y PROVE ~(b < a)
    <3>1. SUFFICES ASSUME b < a PROVE FALSE
      OBVIOUS
    <3>2. AllLow(y[a].node)
      BY <1>5, <1>13, <3>1
    <3>3. Low(x)
      BY <1>8, <2>1, <3>2 DEF AllLow
    <3>4. name <= k
      BY <1>12, <3>3 DEF Low
    <3> QED
      BY <1>11, <1>12, <3>4
  <2>3. ASSUME NEW b \in DOMAIN y, b # a PROVE ~(b < end)
    <3>1. a < b
      BY <1>11, <2>2, <2>3
    <3>2. name \in Names(y[a].node)
      BY <2>1 DEF Names
    <3>3. name < b
      BY <1>5, <1>13, <3>1, <3>2 DEF Ordered
    <3> QED
      BY <1>11, <1>9, <3>3
  <2>4. below[y[a].node] = <<>>
    <3>1. ~EndBounded(y[a].node, end)
      BY <1>7, <1>8, <1>9, <1>10, <2>1 DEF EndBounded
    <3>2. Given(y[a].node, n - 1)
      BY <1>5, <1>13, <3>1
    <3>3. op(y[a].node) = <<>>
      BY <1>2, <1>5, <3>2
    <3> QED
      BY <1>14, <3>3
  <2> HIDE DEF below
  <2> QED
    BY <1>7, <2>3, <2>4
<1> QED
  BY <1>15, <1>17, <1>18

-----------------------------------------------------------------------------
(* Roots as maps *)

\* What get answers, in terms of the entries.
LEMMA GetIndex ==
    ASSUME NoneApart, NEW key \in Key, NEW node, Index(node)
    PROVE  /\ get(node, key) \in Value \cup {None}
           /\ \A v \in Value : get(node, key) = v <=> <<key, v>> \in Entries(node)
           /\ Entries(node) \subseteq Pairs
<1>1. CASE node = None
  <2>1. get(node, key) = None
    BY <1>1 DEF get
  <2> QED
    BY <1>1, <2>1, NoneAssumption DEF Entries
<1>2. CASE node # None
  <2>1. PICK h \in Nat : Height(node, h) /\ Sound(node)
    BY <1>2 DEF Index
  <2>2. /\ \A v \in Value : <<key, v>> \in Content(node) <=> get(node, key) = v
        /\ get(node, key) \in Value \cup {None}
    BY <2>1, GetFinds
  <2>3. Content(node) \subseteq Pairs
    BY <2>1, Contents DEF Pairs
  <2> QED
    BY <1>2, <2>2, <2>3 DEF Entries
<1> QED
  BY <1>1, <1>2

\* get after insert.
LEMMA GetInsert ==
    ASSUME NoneApart, NEW key \in Key, NEW value \in Value, NEW node, Index(node), ~InGap(node, key),
           Alike(NamesIn(node) \cup {key})
    PROVE  \A k \in Key : get(insert(node, key, value), k) = IF k = key THEN value ELSE get(node, k)
<1> DEFINE new == insert(node, key, value)
<1>1. /\ Index(new)
      /\ \A e : e \in Entries(new) <=> e = <<key, value>> \/ (e \in Entries(node) /\ e[1] # key)
  BY Insertion
<1> HIDE DEF new
<1>2. SUFFICES ASSUME NEW k \in Key PROVE get(new, k) = IF k = key THEN value ELSE get(node, k)
  BY DEF new
<1>3. /\ get(new, k) \in Value \cup {None} /\ \A v \in Value : get(new, k) = v <=> <<k, v>> \in Entries(new)
      /\ get(node, k) \in Value \cup {None} /\ \A v \in Value : get(node, k) = v <=> <<k, v>> \in Entries(node)
  BY <1>1, GetIndex
<1>4. \A v \in Value : <<k, v>> \in Entries(new) <=> IF k = key THEN v = value ELSE <<k, v>> \in Entries(node)
  BY <1>1
<1> QED
  BY <1>3, <1>4, NoneAssumption

\* get after delete.
LEMMA GetDelete ==
    ASSUME NoneApart, NEW key \in Key, NEW node, node # None, Index(node)
    PROVE  \A k \in Key : get(delete(node, key), k) = IF k = key THEN None ELSE get(node, k)
<1> DEFINE new == delete(node, key)
<1>1. Index(new) /\ \A e : e \in Entries(new) <=> e \in Entries(node) /\ e[1] # key
  BY Deletion
<1> HIDE DEF new
<1>2. SUFFICES ASSUME NEW k \in Key PROVE get(new, k) = IF k = key THEN None ELSE get(node, k)
  BY DEF new
<1>3. /\ get(new, k) \in Value \cup {None} /\ \A v \in Value : get(new, k) = v <=> <<k, v>> \in Entries(new)
      /\ get(node, k) \in Value \cup {None} /\ \A v \in Value : get(node, k) = v <=> <<k, v>> \in Entries(node)
  BY <1>1, GetIndex
<1>4. \A v \in Value : <<k, v>> \in Entries(new) <=> k # key /\ <<k, v>> \in Entries(node)
  BY <1>1
<1> QED
  BY <1>3, <1>4, NoneAssumption

\* A tree after one more entry, from the tree before it.
insertedStep(before, item, overwrite) ==
    IF overwrite \/ get(before, item[1]) = None THEN insert(before, item[1], item[2]) ELSE before

\* inserted is the function its definition describes.
LEMMA InsertedIs ==
    ASSUME NEW base, NEW items \in Seq(Pairs), NEW overwrite
    PROVE  /\ inserted(base, items, overwrite)[0] = base
           /\ \A i \in 1 .. Len(items) : inserted(base, items, overwrite)[i] =
                  insertedStep(inserted(base, items, overwrite)[i - 1], items[i], overwrite)
<1> DEFINE n == Len(items)
           E(g, i) == insertedStep(g[i - 1], items[i], overwrite)
           Is(g, m) == g = [i \in 0 .. m |-> IF i = 0 THEN base ELSE E(g, i)]
           bad == {m \in Nat : ~\E g : Is(g, m)}
<1>1. n \in Nat
  OBVIOUS
<1>2. ASSUME bad # {} PROVE FALSE
  <2>1. PICK m \in bad : \A k \in bad : m <= k
    <3>1. bad \in SUBSET Nat
      OBVIOUS
    <3> QED
      BY <1>2, <3>1, SmallestExists
  <2>2. CASE m = 0
    <3> DEFINE g == [i \in 0 .. m |-> base]
    <3>1. \A i \in 0 .. m : i = 0
      BY <2>2
    <3>2. Is(g, m)
      BY <3>1
    <3> HIDE DEF Is
    <3> QED
      BY <2>1, <3>2
  <2>3. CASE m # 0
    <3>1. m - 1 \in Nat /\ ~(m <= m - 1)
      BY <2>1, <2>3
    <3>2. PICK g : Is(g, m - 1)
      <4> HIDE DEF Is
      <4> QED
        BY <2>1, <3>1
    <3> DEFINE f == [i \in 0 .. m |-> IF i = m THEN E(g, m) ELSE g[i]]
    <3>3. ASSUME NEW i \in 0 .. m PROVE f[i] = IF i = 0 THEN base ELSE E(f, i)
      <4>1. CASE i = m
        <5>1. m - 1 \in 0 .. m /\ m - 1 # m
          BY <3>1
        <5> QED
          BY <2>3, <4>1, <5>1
      <4>2. CASE i # m
        <5>1. i \in 0 .. m - 1
          BY <2>1, <4>2
        <5>2. g[i] = IF i = 0 THEN base ELSE E(g, i)
          BY <3>2, <5>1
        <5>3. i # 0 => i - 1 \in 0 .. m /\ i - 1 # m
          BY <2>1, <5>1
        <5> QED
          BY <4>2, <5>2, <5>3
      <4> QED
        BY <4>1, <4>2
    <3>4. f = [i \in 0 .. m |-> f[i]]
      OBVIOUS
    <3> HIDE DEF f, E
    <3>5. Is(f, m)
      BY <3>3, <3>4
    <3> HIDE DEF Is
    <3> QED
      BY <2>1, <3>5
  <2> QED
    BY <2>2, <2>3
<1>3. Is(inserted(base, items, overwrite), n)
  <2>1. \E g : Is(g, n)
    <3> HIDE DEF Is
    <3> QED
      BY <1>1, <1>2
  <2> DEFINE G == CHOOSE g : Is(g, n)
  <2>2. Is(G, n)
    <3> HIDE DEF Is
    <3> QED
      BY <2>1, Zenon
  <2>3. inserted(base, items, overwrite) = G
    BY Zenon DEF inserted, insertedStep
  <2> HIDE DEF G, Is
  <2> QED
    BY <2>2, <2>3
<1> DEFINE f == inserted(base, items, overwrite)
<1> HIDE DEF f
<1>4. Is(f, n)
  BY <1>3 DEF f
<1> HIDE DEF E, n
<1>5. f[0] = base /\ \A i \in 1 .. n : f[i] = E(f, i)
  <2>1. 0 \in 0 .. n
    BY <1>1
  <2>2. \A i \in 1 .. n : i \in 0 .. n /\ i # 0
    BY <1>1
  <2> QED
    BY <1>4, <2>1, <2>2
<1> QED
  BY <1>5 DEF f, E, n

\* The tree after some entries: a search tree whose names are old ones or keys of
\* the entries.
Made(base, items, tree) == Index(tree) /\ NamesIn(tree) \subseteq NamesIn(base) \cup KeysOf(items)

\* Inserting entries into a tree makes trees, as long as none falls into a gap and
\* < and localeCompare order the keys alike.
LEMMA InsertedIndex ==
    ASSUME NoneApart, NEW base, Index(base), NEW items \in Seq(Pairs), NEW overwrite,
           NoneInGap(base, items, overwrite), Alike(NamesIn(base) \cup KeysOf(items))
    PROVE  \A i \in 0 .. Len(items) : Made(base, items, inserted(base, items, overwrite)[i])
<1> DEFINE f == inserted(base, items, overwrite)
           n == Len(items)
           bad == {i \in Nat : i <= n /\ ~Made(base, items, f[i])}
<1>1. f[0] = base /\ \A i \in 1 .. n : f[i] = insertedStep(f[i - 1], items[i], overwrite)
  BY InsertedIs
<1>2. \A i \in 1 .. n : ~InGap(f[i - 1], items[i][1])
  BY DEF NoneInGap
<1>3. n \in Nat /\ \A i \in 1 .. n : items[i] \in Pairs
  OBVIOUS
<1>4. Made(base, items, base)
  BY DEF Made
<1> HIDE DEF f
<1>5. ASSUME bad # {} PROVE FALSE
  <2>1. PICK i \in bad : \A j \in bad : i <= j
    <3>1. bad \in SUBSET Nat
      OBVIOUS
    <3> QED
      BY <1>5, <3>1, SmallestExists
  <2>2. i # 0
    BY <1>1, <1>4, <2>1
  <2>3. i \in 1 .. n /\ i - 1 \in Nat /\ i - 1 <= n /\ ~(i <= i - 1)
    BY <1>3, <2>1, <2>2
  <2>4. Made(base, items, f[i - 1])
    BY <2>1, <2>3
  <2> DEFINE key == items[i][1]
             value == items[i][2]
             before == f[i - 1]
  <2>5. key \in Key /\ value \in Value /\ key \in KeysOf(items)
    BY <1>3, <2>3 DEF Pairs, KeysOf
  <2>6. ~InGap(before, key)
    BY <1>2, <2>3
  <2>7. f[i] = insert(before, key, value) \/ f[i] = before
    BY <1>1, <2>3 DEF insertedStep
  <2> HIDE DEF key, value, before
  <2>8. Index(before) /\ NamesIn(before) \cup {key} \subseteq NamesIn(base) \cup KeysOf(items)
    BY <2>4, <2>5 DEF Made, before
  <2>9. Alike(NamesIn(before) \cup {key})
    BY <2>8 DEF Alike
  <2>10. Made(base, items, insert(before, key, value))
    BY <2>5, <2>6, <2>8, <2>9, Insertion DEF Made
  <2>11. Made(base, items, f[i])
    BY <2>4, <2>7, <2>10 DEF before
  <2> QED
    BY <2>1, <2>11
<1>6. ASSUME NEW i \in 0 .. n PROVE Made(base, items, f[i])
  <2>1. i \in Nat /\ i <= n
    BY <1>3
  <2> QED
    BY <1>5, <2>1
<1> QED
  BY <1>6 DEF f

\* What get finds after entries with different keys were inserted: their values,
\* or without overwrite only those of the keys that were not there.
LEMMA GetInserted ==
    ASSUME NoneApart, NEW base, Index(base), NEW items \in Seq(Pairs), Ascends(items), NEW overwrite,
           NoneInGap(base, items, overwrite), Alike(NamesIn(base) \cup KeysOf(items)), NEW k \in Key
    PROVE  /\ \A j \in 1 .. Len(items) : items[j][1] = k =>
                  get(inserted(base, items, overwrite)[Len(items)], k) =
                      IF overwrite \/ get(base, k) = None THEN items[j][2] ELSE get(base, k)
           /\ (\A j \in 1 .. Len(items) : items[j][1] # k) =>
                  get(inserted(base, items, overwrite)[Len(items)], k) = get(base, k)
<1> DEFINE f == inserted(base, items, overwrite)
           n == Len(items)
           new(j) == IF overwrite \/ get(base, k) = None THEN items[j][2] ELSE get(base, k)
           Fine(i) == /\ \A j \in 1 .. i : items[j][1] = k => get(f[i], k) = new(j)
                      /\ (\A j \in 1 .. i : items[j][1] # k) => get(f[i], k) = get(base, k)
           bad == {i \in Nat : i <= n /\ ~Fine(i)}
<1>1. f[0] = base /\ \A i \in 1 .. n : f[i] = insertedStep(f[i - 1], items[i], overwrite)
  BY InsertedIs
<1>2. \A i \in 1 .. n : ~InGap(f[i - 1], items[i][1])
  BY DEF NoneInGap
<1>3. n \in Nat /\ \A i \in 1 .. n : items[i] \in Pairs
  OBVIOUS
<1>4. \A i \in 0 .. n : Index(f[i]) /\ NamesIn(f[i]) \subseteq NamesIn(base) \cup KeysOf(items)
  BY InsertedIndex DEF Made
<1>5. \A i, j \in 1 .. n : i < j => items[i][1] # items[j][1]
  <2>1. \A i \in 1 .. n : items[i][1] \in Nat
    BY <1>3, KeyAssumption DEF Pairs
  <2> QED
    BY <2>1 DEF Ascends
<1> HIDE DEF f, n, new
<1>6. ASSUME bad # {} PROVE FALSE
  <2>1. PICK i \in bad : \A j \in bad : i <= j
    <3>1. bad \in SUBSET Nat
      OBVIOUS
    <3> QED
      BY <1>6, <3>1, SmallestExists
  <2>2. i # 0
    <3>1. ASSUME i = 0 PROVE Fine(i)
      BY <1>1, <3>1
    <3> QED
      BY <2>1, <3>1
  <2>3. i \in 1 .. n /\ i - 1 \in Nat /\ i - 1 <= n /\ ~(i <= i - 1) /\ i - 1 \in 0 .. n
    BY <1>3, <2>1, <2>2
  <2>4. Fine(i - 1)
    <3> HIDE DEF Fine
    <3> QED
      BY <2>1, <2>3
  <2>5. \A j : j \in 1 .. i <=> j \in 1 .. i - 1 \/ j = i
    BY <2>3
  <2>6. \A j \in 1 .. i - 1 : j \in 1 .. n /\ j < i
    BY <1>3, <2>3
  <2> DEFINE key == items[i][1]
             value == items[i][2]
             before == f[i - 1]
  <2>7. key \in Key /\ value \in Value
    BY <1>3, <2>3 DEF Pairs
  <2>8. Index(before) /\ ~InGap(before, key) /\ NamesIn(before) \subseteq NamesIn(base) \cup KeysOf(items)
    BY <1>2, <1>4, <2>3
  <2>9. Alike(NamesIn(before) \cup {key})
    <3>1. key \in KeysOf(items)
      BY <2>3 DEF KeysOf, n
    <3> HIDE DEF key
    <3> QED
      BY <2>8, <3>1 DEF Alike
  <2>10. f[i] = IF overwrite \/ get(before, key) = None THEN insert(before, key, value) ELSE before
    BY <1>1, <2>3 DEF insertedStep
  <2> HIDE DEF before
  <2>11. get(insert(before, key, value), k) = IF k = key THEN value ELSE get(before, k)
    <3> HIDE DEF key, value
    <3> QED
      BY <2>7, <2>8, <2>9, GetInsert
  <2>12. CASE k = key
    <3>1. \A j \in 1 .. i - 1 : items[j][1] # k
      BY <1>5, <2>3, <2>6, <2>12
    <3>2. get(before, k) = get(base, k)
      BY <2>4, <3>1 DEF before
    <3>3. get(f[i], k) = new(i)
      BY <2>10, <2>11, <2>12, <3>2 DEF new
    <3>4. Fine(i)
      BY <2>3, <2>5, <2>12, <3>1, <3>3
    <3> QED
      BY <2>1, <3>4
  <2>13. CASE k # key
    <3>1. get(f[i], k) = get(before, k)
      BY <2>10, <2>11, <2>13
    <3>2. Fine(i)
      BY <2>4, <2>5, <2>13, <3>1 DEF before
    <3> QED
      BY <2>1, <3>2
  <2> QED
    BY <2>12, <2>13
<1>7. Fine(n)
  <2> HIDE DEF Fine
  <2>1. n <= n
    BY <1>3
  <2> QED
    BY <1>3, <1>6, <2>1
<1> QED
  BY <1>7 DEF f, n, new

\* entries() lists the entries of a tree in order.
LEMMA EntriesListed ==
    ASSUME NEW node, Index(node)
    PROVE  entries(node) \in Seq(Pairs) /\ Ascends(entries(node)) /\ ToSet(entries(node)) = Entries(node)
<1>1. CASE node = None
  BY <1>1, ShortSequences DEF entries, Entries
<1>2. CASE node # None
  <2>1. PICK h \in Nat : Height(node, h) /\ Sound(node)
    BY <1>2 DEF Index
  <2>2. EndBounded(node, None)
    BY DEF EndBounded
  <2>3. Traverses(node, None, None, rangeTraverse(node, None, None))
    BY <2>1, <2>2, Traversal
  <2>4. Within(node, None, None) = Content(node)
    BY DEF Within
  <2> QED
    BY <1>2, <2>3, <2>4 DEF entries, Entries, Traverses
<1> QED
  BY <1>1, <1>2

\* The keys that entries() lists are names of the tree.
LEMMA KeysListed ==
    ASSUME NEW node, Index(node)
    PROVE  KeysOf(entries(node)) \subseteq NamesIn(node)
<1> DEFINE seq == entries(node)
<1>1. seq \in Seq(Pairs) /\ ToSet(seq) = Entries(node)
  BY EntriesListed
<1> HIDE DEF seq
<1>2. ASSUME NEW i \in 1 .. Len(seq) PROVE seq[i] \in Entries(node)
  BY <1>1 DEF ToSet
<1>3. \A e \in Entries(node) : e[1] \in NamesIn(node)
  <2>1. CASE node = None
    BY <2>1 DEF Entries
  <2>2. CASE node # None
    <3>1. Content(node) \subseteq Names(node) \X Value
      BY <2>2, Contents DEF Index
    <3> QED
      BY <2>2, <3>1 DEF Entries, NamesIn, Names
  <2> QED
    BY <2>1, <2>2
<1> QED
  BY <1>2, <1>3 DEF KeysOf, seq

\* merge adds the entries of the other tree; preferOther decides between two
\* values of one key.
LEMMA Merging ==
    ASSUME NoneApart, NEW base, Index(base), NEW other, Index(other), NEW preferOther \in BOOLEAN,
           base # None => NoneInGap(base, entries(other), preferOther), Alike(NamesIn(base) \cup NamesIn(other))
    PROVE  /\ Index(merge(base, other, preferOther))
           /\ \A k \in Key : get(merge(base, other, preferOther), k) =
                  IF get(other, k) # None /\ (preferOther \/ get(base, k) = None) THEN get(other, k) ELSE get(base, k)
<1> DEFINE items == entries(other)
           n == Len(items)
<1>1. items \in Seq(Pairs) /\ Ascends(items) /\ ToSet(items) = Entries(other)
  BY EntriesListed
<1>2. \A k : get(None, k) = None
  BY DEF get
<1>3. CASE other = None
  <2>1. merge(base, other, preferOther) = base
    BY <1>3 DEF merge
  <2> QED
    BY <1>2, <1>3, <2>1
<1>4. CASE other # None /\ base = None
  <2>1. merge(base, other, preferOther) = other
    BY <1>4 DEF merge
  <2> QED
    BY <1>2, <1>4, <2>1
<1>5. CASE other # None /\ base # None
  <2> DEFINE new == inserted(base, items, preferOther)[n]
  <2>1. merge(base, other, preferOther) = new
    BY <1>5 DEF merge
  <2>2. NoneInGap(base, items, preferOther)
    BY <1>5
  <2> HIDE DEF items
  <2>3. n \in Nat /\ n \in 0 .. n /\ DOMAIN items = 1 .. n /\ \A j \in 1 .. n : items[j] \in Pairs
    BY <1>1
  <2>4. Alike(NamesIn(base) \cup KeysOf(items))
    <3>1. KeysOf(items) \subseteq NamesIn(other)
      BY <1>1, KeysListed DEF items
    <3> QED
      BY <3>1 DEF Alike
  <2>5. Index(new)
    BY <1>1, <2>2, <2>3, <2>4, InsertedIndex DEF Made
  <2>6. ASSUME NEW k \in Key
        PROVE  get(new, k) =
                 IF get(other, k) # None /\ (preferOther \/ get(base, k) = None) THEN get(other, k) ELSE get(base, k)
    <3>1. /\ \A j \in 1 .. n : items[j][1] = k =>
                get(new, k) = IF preferOther \/ get(base, k) = None THEN items[j][2] ELSE get(base, k)
          /\ (\A j \in 1 .. n : items[j][1] # k) => get(new, k) = get(base, k)
      BY <1>1, <2>2, <2>4, GetInserted
    <3>2. /\ get(other, k) \in Value \cup {None}
          /\ \A v \in Value : get(other, k) = v <=> <<k, v>> \in Entries(other)
      BY GetIndex
    <3> HIDE DEF new
    <3>3. CASE \E j \in 1 .. n : items[j][1] = k
      <4>1. PICK j \in 1 .. n : items[j][1] = k
        BY <3>3
      <4>2. items[j] = <<k, items[j][2]>> /\ items[j][2] \in Value
        BY <2>3, <4>1 DEF Pairs
      <4>3. items[j] \in Entries(other)
        BY <1>1, <2>3 DEF ToSet
      <4>4. get(other, k) = items[j][2] /\ get(other, k) # None
        BY <3>2, <4>2, <4>3, NoneAssumption
      <4> QED
        BY <3>1, <4>1, <4>4
    <3>4. CASE \A j \in 1 .. n : items[j][1] # k
      <4>1. \A v \in Value : <<k, v>> \notin Entries(other)
        <5>1. SUFFICES ASSUME NEW v \in Value, <<k, v>> \in ToSet(items) PROVE FALSE
          BY <1>1
        <5>2. PICK j \in 1 .. n : items[j] = <<k, v>>
          BY <2>3, <5>1 DEF ToSet
        <5> QED
          BY <3>4, <5>2
      <4>2. get(other, k) = None
        BY <3>2, <4>1
      <4> QED
        BY <3>1, <3>4, <4>2
    <3> QED
      BY <3>3, <3>4
  <2> HIDE DEF new
  <2> QED
    BY <2>1, <2>5, <2>6
<1> QED
  BY <1>3, <1>4, <1>5

\* The trees to merge with are search trees.
LEMMA OthersAreTrees ==
    ASSUME NoneApart, NEW items \in Others, NoneInGap(None, items, TRUE), Alike(KeysOf(items))
    PROVE  Index(inserted(None, items, TRUE)[Len(items)])
           /\ NamesIn(inserted(None, items, TRUE)[Len(items)]) \subseteq KeysOf(items)
<1>1. items \in Seq(Pairs)
  BY ItemsAssumption DEF Pairs
<1>2. Index(None) /\ NamesIn(None) = {}
  BY DEF Index, NamesIn
<1>3. Len(items) \in 0 .. Len(items)
  BY <1>1
<1>4. Alike(NamesIn(None) \cup KeysOf(items))
  BY <1>2 DEF Alike
<1>5. Made(None, items, inserted(None, items, TRUE)[Len(items)])
  BY <1>1, <1>2, <1>3, <1>4, InsertedIndex
<1> QED
  BY <1>2, <1>5 DEF Made

-----------------------------------------------------------------------------
(* The index over time *)

\* While no insert has fallen into a gap and the two orders have agreed, the root
\* is a search tree that stands for the map.
Inv ==
    /\ intact \in BOOLEAN /\ alike \in BOOLEAN
    /\ intact /\ alike => Index(root) /\ map = [k \in Key |-> get(root, k)]

\* The empty index.
LEMMA InvInit == ASSUME Init PROVE Inv
<1>1. root = None /\ map = [k \in Key |-> None] /\ intact = TRUE /\ alike = TRUE
  BY DEF Init, Map!Init
<1>2. \A k \in Key : get(root, k) = None
  BY <1>1 DEF get
<1> QED
  BY <1>1, <1>2 DEF Inv, Index

\* insert.
LEMMA InvInsert ==
    ASSUME NoneApart, Inv, NEW item \in Items, Insert(item[1], item[2])
    PROVE  Inv'
<1> DEFINE key == item[1]
           value == item[2]
<1>1. key \in Key /\ value \in Value
  BY ItemsAssumption
<1> HIDE DEF key, value
<1>2. /\ root' = insert(root, key, value) /\ map' = [map EXCEPT ![key] = value]
      /\ intact' = (intact /\ ~InGap(root, key)) /\ alike' = (alike /\ Alike(NamesIn(root) \cup {key}))
  BY DEF Insert, Map!insert, key, value
<1>3. intact' \in BOOLEAN /\ alike' \in BOOLEAN
  BY <1>2 DEF Inv
<1>4. ASSUME intact', alike' PROVE Index(root') /\ map' = [k \in Key |-> get(root', k)]
  <2>1. /\ ~InGap(root, key) /\ Alike(NamesIn(root) \cup {key})
        /\ Index(root) /\ map = [k \in Key |-> get(root, k)]
    BY <1>2, <1>4 DEF Inv
  <2>2. Index(insert(root, key, value))
    BY <1>1, <2>1, Insertion
  <2>3. \A k \in Key : get(insert(root, key, value), k) = IF k = key THEN value ELSE get(root, k)
    BY <1>1, <2>1, GetInsert
  <2>4. map' = [k \in Key |-> IF k = key THEN value ELSE get(root, k)]
    BY <1>1, <1>2, <2>1
  <2> QED
    BY <1>2, <2>2, <2>3, <2>4
<1> QED
  BY <1>3, <1>4 DEF Inv

\* delete.
LEMMA InvDelete ==
    ASSUME NoneApart, Inv, NEW key \in Key, Delete(key)
    PROVE  Inv'
<1>1. /\ root # None /\ root' = delete(root, key) /\ map' = [map EXCEPT ![key] = None]
      /\ intact' = intact /\ alike' = alike
  BY DEF Delete, Map!delete, history
<1>2. ASSUME intact, alike PROVE Index(root') /\ map' = [k \in Key |-> get(root', k)]
  <2>1. Index(root) /\ map = [k \in Key |-> get(root, k)]
    BY <1>2 DEF Inv
  <2>2. Index(delete(root, key))
    BY <1>1, <2>1, Deletion
  <2>3. \A k \in Key : get(delete(root, key), k) = IF k = key THEN None ELSE get(root, k)
    BY <1>1, <2>1, GetDelete
  <2>4. map' = [k \in Key |-> IF k = key THEN None ELSE get(root, k)]
    BY <1>1, <2>1
  <2> QED
    BY <1>1, <2>2, <2>3, <2>4
<1> QED
  BY <1>1, <1>2 DEF Inv

\* merge.
LEMMA InvMerge ==
    ASSUME NoneApart, Inv, NEW items \in Others, NEW preferOther \in BOOLEAN, Merge(items, preferOther)
    PROVE  Inv'
<1> DEFINE other == inserted(None, items, TRUE)[Len(items)]
           whole == NoneInGap(None, items, TRUE) /\ (root # None => NoneInGap(root, entries(other), preferOther))
           theirs == [k \in Key |-> get(other, k)]
<1>1. /\ root' = merge(root, other, preferOther)
      /\ map' = [k \in Key |-> IF theirs[k] # None /\ (preferOther \/ map[k] = None) THEN theirs[k] ELSE map[k]]
      /\ intact' = (intact /\ whole)
      /\ alike' = (alike /\ Alike(NamesIn(root) \cup KeysOf(items)))
  BY DEF Merge, Map!merge
<1>2. intact' \in BOOLEAN /\ alike' \in BOOLEAN
  <2> HIDE DEF whole
  <2> QED
    BY <1>1 DEF Inv
<1>3. ASSUME intact', alike' PROVE Index(root') /\ map' = [k \in Key |-> get(root', k)]
  <2>1. /\ whole /\ Alike(NamesIn(root) \cup KeysOf(items))
        /\ Index(root) /\ map = [k \in Key |-> get(root, k)]
    <3> HIDE DEF whole
    <3> QED
      BY <1>1, <1>3 DEF Inv
  <2>2. Alike(KeysOf(items))
    BY <2>1 DEF Alike
  <2>3. Index(other) /\ NamesIn(other) \subseteq KeysOf(items)
    BY <2>1, <2>2, OthersAreTrees
  <2> HIDE DEF other
  <2>4. Alike(NamesIn(root) \cup NamesIn(other))
    BY <2>1, <2>3 DEF Alike
  <2>5. /\ Index(merge(root, other, preferOther))
        /\ \A k \in Key : get(merge(root, other, preferOther), k) =
             IF get(other, k) # None /\ (preferOther \/ get(root, k) = None) THEN get(other, k) ELSE get(root, k)
    BY <2>1, <2>3, <2>4, Merging
  <2> QED
    BY <1>1, <2>1, <2>5
<1> HIDE DEF other, whole
<1> QED
  BY <1>2, <1>3 DEF Inv

\* The invariant holds always.
LEMMA InvAlways == ASSUME NoneApart PROVE Spec => []Inv
<1>1. Init => Inv
  BY InvInit
<1>2. Inv /\ [Next]_vars => Inv'
  <2>1. SUFFICES ASSUME Inv, [Next]_vars PROVE Inv'
    OBVIOUS
  <2>2. CASE \E item \in Items : Insert(item[1], item[2])
    BY <2>1, <2>2, InvInsert
  <2>3. CASE \E k \in Key : Delete(k)
    BY <2>1, <2>3, InvDelete
  <2>4. CASE \E items \in Others, preferOther \in BOOLEAN : Merge(items, preferOther)
    BY <2>1, <2>4, InvMerge
  <2>5. CASE UNCHANGED vars
    BY <2>1, <2>5 DEF Inv, vars, history
  <2> QED
    BY <2>1, <2>2, <2>3, <2>4, <2>5 DEF Next
<1> QED
  BY <1>1, <1>2, PTL DEF Spec

\* While no insert has fallen into a gap and < and localeCompare have ordered the
\* keys alike, get finds what was put in, whatever the order of the tree, the keys
\* and the sequence of inserts, splits, deletes and merges (btree.ts 21-62,
\* 307-424, 448-481, 552-571).
THEOREM GetAgreesAlways == ASSUME NoneApart PROVE Spec => []GetAgrees
<1>1. Inv => GetAgrees
  BY DEF Inv, GetAgrees
<1> QED
  BY <1>1, InvAlways, PTL

\* While no insert has fallen into a gap and < and localeCompare have ordered the
\* keys alike, the tree is a search tree within its limits (btree.ts 333, 349-359,
\* 467-475).
THEOREM WellFormedAlways == ASSUME NoneApart PROVE Spec => []WellFormed
<1>1. ASSUME Inv PROVE WellFormed
  <2>1. SUFFICES ASSUME intact, alike, root # None PROVE SearchTree(root)
    BY DEF WellFormed
  <2>2. Sound(root) /\ AllSized(root)
    BY <1>1, <2>1 DEF Inv, Index
  <2>3. ASSUME NEW n \in Below(root)
        PROVE  /\ Cardinality(DOMAIN n) \in (IF isLeafNode(n) \/ Order < 4 THEN 1 ELSE 2) .. Max({maxKeys, 2})
               /\ ~isLeafNode(n) => \A a, b \in DOMAIN n : a < b =>
                    /\ \A k \in KeysBelow(n[a].node) : k < b
                    /\ \A k \in KeysBelow(n[b].node) : k >= b
    <3>1. Sized(n) /\ Directory(n) /\ (~isLeafNode(n) => Ordered(n))
      BY <2>2 DEF AllSized, Sound
    <3>2. ASSUME ~isLeafNode(n), NEW a \in DOMAIN n, NEW b \in DOMAIN n, a < b
          PROVE  (\A k \in KeysBelow(n[a].node) : k < b) /\ (\A k \in KeysBelow(n[b].node) : k >= b)
      <4>1. \A m : KeysBelow(m) \subseteq Names(m)
        BY DEF KeysBelow, Names
      <4>2. (\A k \in Names(n[a].node) : k < b) /\ (\A k \in Names(n[b].node) : b <= k)
        BY <3>1, <3>2 DEF Ordered
      <4> QED
        BY <4>1, <4>2
    <3>3. Cardinality(DOMAIN n) \in (IF isLeafNode(n) \/ Order < 4 THEN 1 ELSE 2) .. Max({maxKeys, 2})
      BY <3>1 DEF Sized
    <3> QED
      BY <3>2, <3>3
  <2> QED
    BY <2>3 DEF SearchTree
<1> QED
  BY <1>1, InvAlways, PTL

\* While no insert has fallen into a gap and < and localeCompare have ordered the
\* keys alike, entries() and range() yield every entry within the bounds once and
\* in order, or, if a child named like the upper bound or later holds a key below
\* the bound, nothing (btree.ts 488-506, 512-545).
THEOREM RangeAgreesAlways == ASSUME NoneApart PROVE Spec => []RangeAgrees
<1>1. ASSUME Inv PROVE RangeAgrees
  <2>1. SUFFICES ASSUME intact, alike, root # None, NEW start \in Key \cup {None}, NEW end \in Key \cup {None}
                 PROVE  /\ EndBounded(root, end) => Yields(start, end)
                        /\ ~EndBounded(root, end) => rangeTraverse(root, start, end) = <<>>
    BY DEF RangeAgrees
  <2>2. Index(root) /\ \A k \in Key : get(root, k) = map[k]
    BY <1>1, <2>1 DEF Inv
  <2>3. PICK h \in Nat : Height(root, h) /\ Sound(root)
    BY <2>1, <2>2 DEF Index
  <2>4. SUFFICES ASSUME EndBounded(root, end) PROVE Yields(start, end)
    <3>1. ~EndBounded(root, end) => rangeTraverse(root, start, end) = <<>>
      BY <2>3, Unbounded
    <3> QED
      BY <2>4, <3>1
  <2> DEFINE seq == rangeTraverse(root, start, end)
             keys == {k \in Key : map[k] # None /\ (start = None \/ k >= start) /\ (end = None \/ k < end)}
  <2>5. Traverses(root, start, end, seq)
    BY <2>4, <2>3, Traversal
  <2>6. seq \in Seq(Pairs) /\ ToSet(seq) = Within(root, start, end) /\ Ascends(seq)
    BY <2>5 DEF Traverses
  <2>7. ASSUME NEW e PROVE e \in Within(root, start, end) <=> \E k \in keys : e = <<k, map[k]>>
    <3>1. Content(root) \subseteq Pairs
      BY <2>3, Contents DEF Pairs
    <3>2. \A k \in Key : /\ map[k] \in Value \cup {None}
                         /\ \A v \in Value : map[k] = v <=> <<k, v>> \in Content(root)
      BY <2>1, <2>2, GetIndex DEF Entries
    <3>3. e \in Content(root) <=> \E k \in Key : map[k] # None /\ e = <<k, map[k]>>
      <4>1. ASSUME e \in Content(root) PROVE \E k \in Key : map[k] # None /\ e = <<k, map[k]>>
        <5>1. e[1] \in Key /\ e[2] \in Value /\ e = <<e[1], e[2]>>
          BY <3>1, <4>1 DEF Pairs
        <5>2. map[e[1]] = e[2]
          BY <3>2, <4>1, <5>1
        <5> QED
          BY <5>1, <5>2, NoneAssumption
      <4>2. ASSUME NEW k \in Key, map[k] # None, e = <<k, map[k]>> PROVE e \in Content(root)
        BY <3>2, <4>2
      <4> QED
        BY <4>1, <4>2
    <3> QED
      BY <3>3 DEF Within
  <2>8. ToSet(seq) = {<<k, map[k]>> : k \in keys}
    <3> HIDE DEF keys, seq
    <3> QED
      BY <2>6, <2>7
  <2>9. \A i \in 1 .. Len(seq) - 1 : seq[i][1] < seq[i + 1][1]
    <3> HIDE DEF seq
    <3>1. Len(seq) \in Nat
      BY <2>6
    <3>2. \A i \in 1 .. Len(seq) - 1 : i \in 1 .. Len(seq) /\ i + 1 \in 1 .. Len(seq) /\ i < i + 1
      BY <3>1
    <3> QED
      BY <2>6, <3>2 DEF Ascends
  <2> QED
    BY <2>8, <2>9 DEF Yields
<1> QED
  BY <1>1, InvAlways, PTL

-----------------------------------------------------------------------------
(* Trees that only grow *)

\* Every child holds a name up to the one it is filed under.
AnchoredAt(n) == \A c \in DOMAIN n : \E name \in DOMAIN n[c].node : name <= c
Anchored(node) == \A n \in Below(node) : ~isLeafNode(n) => AnchoredAt(n)

\* Anchored, said of the root and its children.
LEMMA AnchoredRoot ==
    ASSUME NEW node, NEW h \in Nat, Height(node, h), Sound(node)
    PROVE  Anchored(node) <=> (~isLeafNode(node) => AnchoredAt(node) /\ \A c \in DOMAIN node : Anchored(node[c].node))
<1>1. /\ Directory(node) /\ h - 1 \in Nat
      /\ ~isLeafNode(node) => \A a \in DOMAIN node : Height(node[a].node, h - 1)
  BY SoundInside
<1>2. CASE isLeafNode(node)
  <2>1. Below(node) = {node}
    BY <1>1, <1>2, Leaf
  <2> QED
    BY <1>2, <2>1 DEF Anchored
<1>3. CASE ~isLeafNode(node)
  <2>1. Below(node) = {node} \cup UNION {Below(node[a].node) : a \in DOMAIN node}
    BY <1>1, <1>3, Internal
  <2>2. \A x : x \in Below(node) <=> x = node \/ \E a \in DOMAIN node : x \in Below(node[a].node)
    BY <2>1
  <2> QED
    BY <1>3, <2>2 DEF Anchored
<1> QED
  BY <1>2, <1>3

\* An anchored tree has no gaps.
LEMMA AnchoredNoGap ==
    ASSUME NEW key \in Key, NEW node, NEW h \in Nat, Tree(node, h), Anchored(node)
    PROVE  ~InGap(node, key)
<1>1. SUFFICES ASSUME NEW n \in Below(node), ~isLeafNode(n), findChild(n, key) <= key,
                      \A name \in DOMAIN n[findChild(n, key)].node : key < name
               PROVE  FALSE
  BY Zenon DEF InGap
<1> DEFINE c == findChild(n, key)
           child == n[c].node
<1>2. Directory(n)
  BY DEF Tree
<1>3. c \in DOMAIN n /\ child \in children(n)
  BY <1>1, <1>2, NextChild DEF Found
<1>4. child \in Below(node)
  BY <1>3, TreeInside
<1>5. \A name \in DOMAIN child : name \in Nat
  BY <1>4, KeyAssumption DEF Tree, Directory
<1>6. c \in Nat /\ key \in Nat
  BY <1>2, <1>3, KeyAssumption DEF Directory
<1> HIDE DEF c
<1>7. PICK name \in DOMAIN child : name <= c
  BY <1>1, <1>3 DEF Anchored, AnchoredAt
<1>8. c <= key /\ key < name
  BY <1>1 DEF c
<1> QED
  BY <1>5, <1>6, <1>7, <1>8

\* A part of an anchored tree is anchored.
LEMMA AnchoredPart ==
    ASSUME NEW node, NEW h \in Nat, Height(node, h), Sound(node), Anchored(node),
           NEW S \in SUBSET DOMAIN node, S # {}, NEW sub, sub = [a \in S |-> node[a]]
    PROVE  Anchored(sub)
<1>1. PartOf(sub, S, node, h)
  BY SubNode
<1>2. DOMAIN sub = S /\ Height(sub, h) /\ Sound(sub) /\ (isLeafNode(sub) <=> isLeafNode(node))
  BY <1>1 DEF PartOf
<1>3. \A a \in S : sub[a] = node[a]
  OBVIOUS
<1>4. ~isLeafNode(node) => AnchoredAt(node) /\ \A c \in DOMAIN node : Anchored(node[c].node)
  BY AnchoredRoot
<1>5. ~isLeafNode(sub) => AnchoredAt(sub) /\ \A c \in DOMAIN sub : Anchored(sub[c].node)
  BY <1>2, <1>3, <1>4 DEF AnchoredAt
<1> QED
  BY <1>2, <1>5, AnchoredRoot

\* The halves of an anchored tree are anchored, under their names too.
LEMMA AnchoredHalves ==
    ASSUME NEW node, NEW h \in Nat, Height(node, h), Sound(node), Anchored(node), overflows(node)
    PROVE  LET halves == split(node)
           IN /\ Anchored(halves.left) /\ halves.leftFirstKey \in DOMAIN halves.left
              /\ Anchored(halves.right) /\ halves.rightFirstKey \in DOMAIN halves.right
              /\ halves.leftFirstKey \in Nat /\ halves.rightFirstKey \in Nat
              /\ halves.leftFirstKey # halves.rightFirstKey
              /\ \A a \in DOMAIN node : halves.leftFirstKey <= a
<1> DEFINE n == Cardinality(DOMAIN node)
           left == split(node).left
           right == split(node).right
           l == split(node).leftFirstKey
           r == split(node).rightFirstKey
           L == DOMAIN left
           R == DOMAIN right
<1>1. Directory(node)
  BY SoundInside
<1>2. /\ DOMAIN node \in SUBSET Key /\ Alike(DOMAIN node) /\ IsFiniteSet(DOMAIN node)
      /\ n \in Nat /\ DOMAIN node \in SUBSET Nat
  BY <1>1, FS_CardinalityType, KeyAssumption DEF Directory
<1>3. n >= 2
  <2>1. n > maxKeys /\ maxKeys \in Nat /\ maxKeys >= 1
    BY OrderAssumption DEF overflows, maxKeys
  <2> HIDE DEF n, maxKeys
  <2> QED
    BY <1>2, <2>1
<1>4. Halves(node, split(node))
  BY <1>2, <1>3, SplitDivides
<1>5. /\ L \cup R = DOMAIN node
      /\ left = [a \in L |-> node[a]] /\ right = [b \in R |-> node[b]]
      /\ l \in L /\ r \in R
      /\ \A a \in L : l <= a /\ a < r
      /\ \A b \in R : r <= b
  BY <1>4 DEF Halves
<1> HIDE DEF left, right, l, r
<1>6. L \in SUBSET DOMAIN node /\ L # {} /\ R \in SUBSET DOMAIN node /\ R # {}
  BY <1>5
<1>7. Anchored(left)
  BY <1>5, <1>6, AnchoredPart
<1>8. Anchored(right)
  BY <1>5, <1>6, AnchoredPart
<1>9. l \in Nat /\ r \in Nat /\ l < r
  BY <1>2, <1>5, <1>6
<1>10. ASSUME NEW a \in DOMAIN node PROVE l <= a
  BY <1>2, <1>5, <1>9
<1> QED
  BY <1>5, <1>7, <1>8, <1>9, <1>10 DEF left, right, l, r

\* What insertRecursive makes of an anchored node: its first name does not grow.
Extends(node, result) == Anchored(result) /\ \E y \in DOMAIN result : \A x \in DOMAIN node : y <= x

\* One level of insertRecursive.
LEMMA ExtendsInternal ==
    ASSUME NEW node, NEW h \in Nat, Height(node, h), Sound(node), ~isLeafNode(node), Anchored(node),
           NEW c \in DOMAIN node, NEW result, Height(result, h - 1), Sound(result), Extends(node[c].node, result),
           NEW new, new = (IF overflows(result) THEN withHalves(removeEntry(node, c), split(result))
                           ELSE setEntry(node, c, Dir(result))),
           Height(new, h), Sound(new), ~isLeafNode(new)
    PROVE  Extends(node, new)
<1> DEFINE D == DOMAIN node
           O == D \ {c}
           child == node[c].node
<1>1. Directory(node) /\ h - 1 \in Nat /\ Directory(child) /\ Directory(result)
  <2>1. Directory(node) /\ h - 1 \in Nat /\ Directory(child)
    BY SoundInside
  <2> QED
    BY <2>1, SoundInside
<1>2. D \in SUBSET Nat /\ D # {} /\ DOMAIN child \in SUBSET Nat /\ DOMAIN result \in SUBSET Nat
  BY <1>1, KeyAssumption DEF Directory
<1>3. AnchoredAt(node) /\ \A a \in D : Anchored(node[a].node)
  BY AnchoredRoot
<1>4. Anchored(result) /\ \E y \in DOMAIN result : y <= c
  <2>1. PICK y \in DOMAIN result : \A x \in DOMAIN child : y <= x
    BY DEF Extends
  <2>2. PICK x \in DOMAIN child : x <= c
    BY <1>3 DEF AnchoredAt
  <2>3. y <= x /\ y \in Nat /\ x \in Nat /\ c \in Nat
    BY <1>2, <2>1
  <2>4. y <= c
    BY <2>2, <2>3
  <2> QED
    BY <2>4 DEF Extends
<1>5. PICK m \in D : \A x \in D : m <= x
  BY <1>2, SmallestExists
<1>6. CASE ~overflows(result)
  <2>1. DOMAIN new = D /\ new[c] = Dir(result) /\ \A a \in O : new[a] = node[a]
    BY <1>6 DEF setEntry
  <2>2. new[c].node = result
    BY <2>1 DEF Dir
  <2>3. AnchoredAt(new) /\ \A a \in DOMAIN new : Anchored(new[a].node)
    BY <1>3, <1>4, <2>1, <2>2 DEF AnchoredAt
  <2>4. Anchored(new)
    BY <2>3, AnchoredRoot
  <2> QED
    BY <1>5, <2>1, <2>4 DEF Extends
<1>7. CASE overflows(result)
  <2> DEFINE halves == split(result)
             l == halves.leftFirstKey
             r == halves.rightFirstKey
             left == halves.left
             right == halves.right
  <2>1. /\ Anchored(left) /\ l \in DOMAIN left /\ Anchored(right) /\ r \in DOMAIN right
        /\ l \in Nat /\ r \in Nat /\ l # r /\ \A a \in DOMAIN result : l <= a
    BY <1>1, <1>4, <1>7, AnchoredHalves
  <2> HIDE DEF halves
  <2>2. /\ DOMAIN new = O \cup {l, r}
        /\ new[l] = Dir(left) /\ new[r] = Dir(right) /\ \A a \in O : a # l /\ a # r => new[a] = node[a]
    BY <1>7, <2>1 DEF withHalves, setEntry, removeEntry, Restrict, halves
  <2> HIDE DEF l, r, left, right
  <2>3. new[l].node = left /\ new[r].node = right
    BY <2>2 DEF Dir
  <2>4. l <= l /\ r <= r
    BY <2>1
  <2>5. AnchoredAt(new) /\ \A a \in DOMAIN new : Anchored(new[a].node)
    BY <1>3, <2>1, <2>2, <2>3, <2>4 DEF AnchoredAt
  <2>6. Anchored(new)
    BY <2>5, AnchoredRoot
  <2>7. \E y \in DOMAIN new : \A x \in D : y <= x
    <3>1. CASE m # c
      BY <1>5, <2>2, <3>1
    <3>2. CASE m = c
      <4>1. PICK y \in DOMAIN result : y <= c
        BY <1>4
      <4>2. l <= y /\ y \in Nat /\ c \in Nat
        BY <1>2, <2>1
      <4>3. l <= c
        BY <2>1, <4>1, <4>2
      <4>4. \A x \in D : l <= x
        BY <1>2, <1>5, <2>1, <3>2, <4>3
      <4> QED
        BY <2>2, <4>4
    <3> QED
      BY <3>1, <3>2
  <2> QED
    BY <2>6, <2>7 DEF Extends
<1> QED
  BY <1>6, <1>7

\* insertRecursive keeps a tree anchored.
LEMMA ExtendsRecursive ==
    ASSUME NoneApart, NEW key \in Key, NEW value \in Value,
           NEW node, NEW h \in Nat, Height(node, h), Sound(node), AllSized(node), Anchored(node),
           Alike(Names(node) \cup {key})
    PROVE  /\ Takes(node, key, value, h, insertRecursive(node, key, value))
           /\ Extends(node, insertRecursive(node, key, value))
<1> DEFINE op(y) == insertRecursive(y, key, value)
           Given(y, n) == Height(y, n) /\ Sound(y) /\ AllSized(y) /\ Anchored(y) /\ Alike(Names(y) \cup {key})
           bad == {n \in Nat : \E y : Given(y, n) /\ ~Extends(y, op(y))}
<1>0. ASSUME NEW y, NEW n \in Nat, Given(y, n) PROVE Takes(y, key, value, n, op(y))
  <2>1. Tree(y, n) /\ Directory(y)
    BY <1>0, SoundInside
  <2>2. ~InGap(y, key)
    BY <1>0, <2>1, AnchoredNoGap
  <2>3. NoGap(y, key)
    BY <2>1, <2>2, GapFree DEF NoneApart
  <2> QED
    BY <1>0, <2>3, InsertRecursive
<1>1. SUFFICES ASSUME bad # {} PROVE FALSE
  BY <1>0, <1>1
<1>2. PICK n \in bad : \A m \in bad : n <= m
  <2>1. bad \in SUBSET Nat
    OBVIOUS
  <2> QED
    BY <1>1, <2>1, SmallestExists
<1>3. PICK y : Given(y, n) /\ ~Extends(y, op(y))
  BY <1>2
<1>4. n \in Nat
  BY <1>2
<1>5. /\ Tree(y, n) /\ Directory(y) /\ n - 1 \in Nat /\ ~(n <= n - 1)
      /\ ~isLeafNode(y) => \A a \in DOMAIN y : Sound(y[a].node) /\ Height(y[a].node, n - 1)
  BY <1>3, <1>4, SoundInside
<1> DEFINE c == findChild(y, key)
           child == y[c].node
<1>6. op(y) = insertStep(y, key, value, op(child))
  BY <1>4, <1>5, InsertIs
<1>7. Height(op(y), n) /\ Sound(op(y)) /\ (isLeafNode(op(y)) <=> isLeafNode(y))
  BY <1>0, <1>3, <1>4 DEF Takes
<1> HIDE DEF op
<1>8. CASE isLeafNode(y)
  <2>1. op(y) = setEntry(y, key, Blob(value))
    BY <1>6, <1>8 DEF insertStep
  <2>2. DOMAIN y \subseteq DOMAIN op(y)
    BY <2>1 DEF setEntry
  <2>3. DOMAIN y \in SUBSET Nat /\ DOMAIN y # {}
    BY <1>5, KeyAssumption DEF Directory
  <2>4. \E m \in DOMAIN y : \A x \in DOMAIN y : m <= x
    BY <2>3, SmallestExists
  <2>5. Anchored(op(y))
    BY <1>4, <1>7, <1>8, AnchoredRoot
  <2>6. Extends(y, op(y))
    BY <2>2, <2>4, <2>5 DEF Extends
  <2> QED
    BY <1>3, <2>6
<1>9. CASE ~isLeafNode(y)
  <2>1. c \in DOMAIN y
    BY <1>5, <1>9, NextChild DEF Found
  <2>2. Sound(child) /\ Height(child, n - 1)
    BY <1>5, <1>9, <2>1
  <2>3. AllSized(child)
    BY <1>3, <1>4, <1>9, <2>1, SizedRoot DEF SizedBelow
  <2>4. Anchored(child)
    BY <1>3, <1>4, <1>9, <2>1, AnchoredRoot
  <2>5. Given(child, n - 1)
    <3>1. child \in Below(y)
      BY <1>4, <1>5, <1>9, NextChild, TreeInside
    <3>2. Below(child) \subseteq Below(y)
      BY <1>3, <1>4, <3>1, BelowInside
    <3>3. Names(child) \subseteq Names(y)
      BY <3>2 DEF Names
    <3>4. Alike(Names(child) \cup {key})
      BY <1>3, <3>3 DEF Alike
    <3> QED
      BY <2>2, <2>3, <2>4, <3>4
  <2>6. Extends(child, op(child))
    BY <1>2, <1>5, <2>5
  <2>7. Height(op(child), n - 1) /\ Sound(op(child))
    BY <1>0, <1>5, <2>5 DEF Takes
  <2>8. op(y) = (IF overflows(op(child)) THEN withHalves(removeEntry(y, c), split(op(child)))
                 ELSE setEntry(y, c, Dir(op(child))))
    BY <1>6, <1>9 DEF insertStep
  <2> HIDE DEF c
  <2>9. Extends(y, op(y))
    BY <1>3, <1>4, <1>7, <1>9, <2>1, <2>6, <2>7, <2>8, ExtendsInternal
  <2> QED
    BY <1>3, <2>9
<1> QED
  BY <1>8, <1>9

\* A root of an anchored tree.
Grown(node) == Index(node) /\ (node # None => Anchored(node))

\* Inserts never fall into a gap of an anchored tree, and leave it anchored.
LEMMA GrownInsert ==
    ASSUME NoneApart, NEW key \in Key, NEW value \in Value, NEW node, Grown(node), Alike(NamesIn(node) \cup {key})
    PROVE  ~InGap(node, key) /\ Grown(insert(node, key, value))
<1> DEFINE new == insert(node, key, value)
<1>1. ~InGap(node, key)
  <2>1. CASE node = None
    BY <2>1 DEF InGap
  <2>2. CASE node # None
    <3>1. PICK h \in Nat : Height(node, h) /\ Sound(node) /\ Anchored(node)
      BY <2>2 DEF Grown, Index
    <3>2. Tree(node, h)
      BY <3>1, SoundInside
    <3> QED
      BY <3>1, <3>2, AnchoredNoGap
  <2> QED
    BY <2>1, <2>2
<1>2. new # None /\ Index(new)
  BY <1>1, Insertion DEF Grown
<1>3. PICK n \in Nat : Height(new, n) /\ Sound(new)
  BY <1>2 DEF Index
<1>4. Anchored(new)
  <2>1. CASE node = None
    <3>1. new = setEntry(EmptyDirectory, key, Blob(value))
      BY <2>1 DEF insert
    <3>2. DOMAIN new = {key} /\ new[key] = Blob(value)
      BY <3>1 DEF setEntry, EmptyDirectory
    <3>3. isLeafNode(new)
      BY <3>2 DEF isLeafNode, Blob
    <3> HIDE DEF new
    <3> QED
      BY <1>3, <3>3, AnchoredRoot
  <2>2. CASE node # None
    <3>1. PICK h \in Nat : Height(node, h) /\ Sound(node) /\ AllSized(node) /\ Anchored(node)
      BY <2>2 DEF Grown, Index
    <3>2. CASE get(node, key) = value
      BY <2>2, <3>1, <3>2 DEF insert
    <3>3. CASE get(node, key) # value
      <4> DEFINE result == insertRecursive(node, key, value)
      <4>1. Takes(node, key, value, h, result) /\ Extends(node, result)
        <5>1. NamesIn(node) = Names(node)
          BY <2>2 DEF NamesIn, Names
        <5> QED
          BY <3>1, <5>1, ExtendsRecursive
      <4>2. new = IF overflows(result) THEN withHalves(EmptyDirectory, split(result)) ELSE result
        BY <2>2, <3>3 DEF insert
      <4> HIDE DEF result, new
      <4>3. Height(result, h) /\ Sound(result) /\ Anchored(result)
        BY <4>1 DEF Takes, Extends
      <4>4. CASE overflows(result)
        <5> DEFINE halves == split(result)
                   l == halves.leftFirstKey
                   r == halves.rightFirstKey
                   left == halves.left
                   right == halves.right
        <5>1. /\ Anchored(left) /\ l \in DOMAIN left /\ Anchored(right) /\ r \in DOMAIN right
              /\ l \in Nat /\ r \in Nat /\ l # r
          BY <3>1, <4>3, <4>4, AnchoredHalves
        <5> HIDE DEF halves
        <5>2. DOMAIN new = {l, r} /\ new[l] = Dir(left) /\ new[r] = Dir(right)
          BY <4>2, <4>4, <5>1 DEF withHalves, setEntry, EmptyDirectory, halves
        <5> HIDE DEF l, r, left, right
        <5>3. new[l].node = left /\ new[r].node = right
          BY <5>2 DEF Dir
        <5>4. l <= l /\ r <= r
          BY <5>1
        <5>5. AnchoredAt(new) /\ \A a \in DOMAIN new : Anchored(new[a].node)
          BY <5>1, <5>2, <5>3, <5>4 DEF AnchoredAt
        <5> QED
          BY <1>3, <5>5, AnchoredRoot
      <4>5. CASE ~overflows(result)
        BY <4>2, <4>3, <4>5
      <4> QED
        BY <4>4, <4>5
    <3> QED
      BY <3>2, <3>3
  <2> QED
    BY <2>1, <2>2
<1> QED
  BY <1>1, <1>2, <1>4 DEF Grown

\* So do sequences of inserts.
LEMMA GrownInserted ==
    ASSUME NoneApart, NEW base, Grown(base), NEW items \in Seq(Pairs), NEW overwrite,
           Alike(NamesIn(base) \cup KeysOf(items))
    PROVE  /\ NoneInGap(base, items, overwrite)
           /\ \A i \in 0 .. Len(items) : Grown(inserted(base, items, overwrite)[i])
<1> DEFINE f == inserted(base, items, overwrite)
           n == Len(items)
           Fine(tree) == Grown(tree) /\ NamesIn(tree) \subseteq NamesIn(base) \cup KeysOf(items)
           bad == {i \in Nat : i <= n /\ ~Fine(f[i])}
<1>1. f[0] = base /\ \A i \in 1 .. n : f[i] = insertedStep(f[i - 1], items[i], overwrite)
  BY InsertedIs
<1>2. n \in Nat /\ \A i \in 1 .. n : items[i][1] \in Key /\ items[i][2] \in Value /\ items[i][1] \in KeysOf(items)
  BY DEF Pairs, KeysOf
<1>3. ASSUME NEW tree, Fine(tree), NEW i \in 1 .. n
      PROVE  ~InGap(tree, items[i][1]) /\ Fine(insert(tree, items[i][1], items[i][2]))
  <2> DEFINE key == items[i][1]
             value == items[i][2]
  <2>1. key \in Key /\ value \in Value /\ key \in KeysOf(items)
    BY <1>2
  <2> HIDE DEF key, value
  <2>2. Alike(NamesIn(tree) \cup {key})
    BY <1>3, <2>1 DEF Alike
  <2>3. ~InGap(tree, key) /\ Grown(insert(tree, key, value))
    BY <1>3, <2>1, <2>2, GrownInsert
  <2>4. NamesIn(insert(tree, key, value)) \subseteq NamesIn(tree) \cup {key}
    BY <1>3, <2>1, <2>2, <2>3, Insertion DEF Grown
  <2> QED
    BY <1>3, <2>1, <2>3, <2>4 DEF key, value
<1> HIDE DEF f
<1>4. ASSUME bad # {} PROVE FALSE
  <2>1. PICK i \in bad : \A j \in bad : i <= j
    <3>1. bad \in SUBSET Nat
      OBVIOUS
    <3> QED
      BY <1>4, <3>1, SmallestExists
  <2>2. i # 0
    BY <1>1, <2>1
  <2>3. i \in 1 .. n /\ i - 1 \in Nat /\ i - 1 <= n /\ ~(i <= i - 1)
    BY <1>2, <2>1, <2>2
  <2> HIDE DEF Fine
  <2>4. Fine(f[i - 1])
    BY <2>1, <2>3
  <2>5. Fine(insert(f[i - 1], items[i][1], items[i][2]))
    BY <1>3, <2>3, <2>4
  <2>6. Fine(f[i])
    BY <1>1, <2>3, <2>4, <2>5 DEF insertedStep
  <2> QED
    BY <2>1, <2>6
<1>5. ASSUME NEW i \in 0 .. n PROVE Fine(f[i])
  <2>1. i \in Nat /\ i <= n
    BY <1>2
  <2> HIDE DEF Fine
  <2> QED
    BY <1>4, <2>1
<1>6. ASSUME NEW i \in 1 .. n PROVE ~InGap(f[i - 1], items[i][1])
  <2>1. i - 1 \in 0 .. n
    BY <1>2
  <2>2. Fine(f[i - 1])
    BY <1>5, <2>1
  <2> HIDE DEF Fine
  <2> QED
    BY <1>3, <2>2
<1> QED
  BY <1>5, <1>6 DEF NoneInGap, f

\* The index of a program that never deletes.
GrowNext ==
    \/ \E item \in Items : Insert(item[1], item[2])
    \/ \E items \in Others, preferOther \in BOOLEAN : Merge(items, preferOther)
GrowSpec == Init /\ [][GrowNext]_vars

\* Without delete no insert falls into a gap, so that no key is ever lost while <
\* and localeCompare have ordered the keys alike: a tree that was built by insert
\* and merge answers every get, through any number of splits (btree.ts 307-424,
\* 552-571).
THEOREM NothingLostWithoutDelete ==
    ASSUME NoneApart
    PROVE  GrowSpec => [](alike => intact /\ GetAgrees /\ NothingLost)
<1> DEFINE GInv == Inv /\ (alike => intact /\ Grown(root))
<1>1. Init => GInv
  <2>1. SUFFICES ASSUME Init PROVE GInv
    OBVIOUS
  <2>2. Inv
    BY <2>1, InvInit
  <2>3. intact /\ root = None
    BY <2>1 DEF Init
  <2> QED
    BY <2>2, <2>3 DEF Grown, Index
<1>2. GInv /\ [GrowNext]_vars => GInv'
  <2>1. SUFFICES ASSUME GInv, [GrowNext]_vars PROVE GInv'
    OBVIOUS
  <2>2. ASSUME NEW item \in Items, Insert(item[1], item[2]) PROVE GInv'
    <3>1. Inv'
      BY <2>1, <2>2, InvInsert
    <3> DEFINE key == item[1]
               value == item[2]
    <3>2. key \in Key /\ value \in Value
      BY ItemsAssumption
    <3> HIDE DEF key, value
    <3>3. /\ root' = insert(root, key, value)
          /\ intact' = (intact /\ ~InGap(root, key)) /\ alike' = (alike /\ Alike(NamesIn(root) \cup {key}))
      BY <2>2 DEF Insert, key, value
    <3>4. ASSUME alike' PROVE intact' /\ Grown(root')
      <4>1. intact /\ Grown(root) /\ Alike(NamesIn(root) \cup {key})
        BY <2>1, <3>3, <3>4
      <4>2. ~InGap(root, key) /\ Grown(insert(root, key, value))
        BY <3>2, <4>1, GrownInsert
      <4> QED
        BY <3>3, <4>1, <4>2
    <3> QED
      BY <3>1, <3>4
  <2>3. ASSUME NEW items \in Others, NEW preferOther \in BOOLEAN, Merge(items, preferOther) PROVE GInv'
    <3>1. Inv'
      BY <2>1, <2>3, InvMerge
    <3> DEFINE other == inserted(None, items, TRUE)[Len(items)]
    <3>2. /\ root' = merge(root, other, preferOther)
          /\ intact' = (/\ intact
                        /\ NoneInGap(None, items, TRUE)
                        /\ root # None => NoneInGap(root, entries(other), preferOther))
          /\ alike' = (alike /\ Alike(NamesIn(root) \cup KeysOf(items)))
      BY <2>3 DEF Merge
    <3>3. ASSUME alike' PROVE intact' /\ Grown(root')
      <4>1. intact /\ Grown(root) /\ Alike(NamesIn(root) \cup KeysOf(items))
        BY <2>1, <3>2, <3>3
      <4>2. items \in Seq(Pairs)
        BY ItemsAssumption DEF Pairs
      <4>3. Grown(None) /\ Alike(NamesIn(None) \cup KeysOf(items)) /\ Alike(KeysOf(items))
        BY <4>1 DEF Grown, Index, NamesIn, Alike
      <4>4. /\ NoneInGap(None, items, TRUE)
            /\ \A i \in 0 .. Len(items) : Grown(inserted(None, items, TRUE)[i])
        BY <4>2, <4>3, GrownInserted
      <4>5. Len(items) \in 0 .. Len(items)
        BY <4>2
      <4>6. Grown(other)
        BY <4>4, <4>5
      <4>7. NamesIn(other) \subseteq KeysOf(items)
        BY <4>3, <4>4, OthersAreTrees
      <4> HIDE DEF other
      <4> DEFINE list == entries(other)
      <4>8. list \in Seq(Pairs) /\ KeysOf(list) \subseteq NamesIn(other)
        BY <4>6, EntriesListed, KeysListed DEF Grown
      <4>9. Alike(NamesIn(root) \cup KeysOf(list))
        BY <4>1, <4>7, <4>8 DEF Alike
      <4>10. /\ NoneInGap(root, list, preferOther)
             /\ \A i \in 0 .. Len(list) : Grown(inserted(root, list, preferOther)[i])
        BY <4>1, <4>8, <4>9, GrownInserted
      <4>11. Len(list) \in 0 .. Len(list)
        BY <4>8
      <4>12. Grown(merge(root, other, preferOther))
        BY <4>1, <4>6, <4>10, <4>11 DEF merge
      <4> QED
        BY <3>2, <4>1, <4>4, <4>10, <4>12
    <3> QED
      BY <3>1, <3>3
  <2>4. CASE UNCHANGED vars
    <3>1. Inv'
      BY <2>1, <2>4 DEF Inv, vars, history
    <3> QED
      BY <2>1, <2>4, <3>1 DEF vars, history
  <2> QED
    BY <2>1, <2>2, <2>3, <2>4 DEF GrowNext
<1>3. GInv => (alike => intact /\ GetAgrees /\ NothingLost)
  BY DEF Inv, GetAgrees, NothingLost
<1> QED
  BY <1>1, <1>2, <1>3, PTL DEF GrowSpec
===============================================================================

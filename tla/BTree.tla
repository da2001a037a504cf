-------------------------------- MODULE BTree --------------------------------
(***************************************************************************)
(* The B-tree over hashtree directories                                    *)
(* (ts/packages/hashtree-index/src/btree.ts), as the program changes it    *)
(* for ever: a long sequence of inserts, deletes and merges reaches shapes *)
(* that no short one has.                                                  *)
(*                                                                         *)
(* A node is a directory, a function from names to entries; nodes are      *)
(* immutable and stand for their own CID.  A name stands for the key it    *)
(* was escaped from: escapeKey is one-to-one, unescapeKey undoes it, and   *)
(* names are compared unescaped or for equality.  Keys are numbers in the  *)
(* order of the operator <, which findChild and rangeTraverse use; Locale  *)
(* gives the order of localeCompare, which sortEntries uses and which need *)
(* not be the same: keys of search.ts:108 are a term, ':' and an id, and   *)
(* ':' comes after the digits for < and before them for localeCompare.     *)
(* Two keys that localeCompare calls equal are left out.  The CID links of *)
(* insertLink are values like the strings of insert; one tree holds one of *)
(* the two.                                                                *)
(***************************************************************************)
EXTENDS Naturals, Sequences, FiniteSets, FiniteSetsExt, SequencesExt, Functions

CONSTANTS
    Key,
    Value,
    Items,      \* the entries that are inserted
    Others,     \* trees to merge with, as the sequences of entries they were made from
    None,       \* no root, no value, no bound
    Order,      \* BTreeOptions.order
    Locale      \* the position of each key in the order of localeCompare

ASSUME KeyAssumption ==
    Key \subseteq Nat /\ Locale \in [Key -> Nat] /\ \A a, b \in Key : Locale[a] = Locale[b] => a = b
ASSUME OrderAssumption == Order \in Nat \ {0, 1}
ASSUME NoneAssumption == None \notin Value \cup Key
ASSUME ItemsAssumption == Items \subseteq Key \X Value /\ Others \subseteq Seq(Key \X Value)

VARIABLES
    root,       \* the tree
    map,        \* the map it should be: each operation is also one of OrderedMap
    intact,     \* history: no insert has fallen into a gap between names
    alike       \* history: < and localeCompare have ordered the keys alike in all trees

history == <<intact, alike>>
vars == <<root, map, history>>

Map == INSTANCE OrderedMap

maxKeys == Order - 1

Init == root = None /\ Map!Init /\ intact = TRUE /\ alike = TRUE

-----------------------------------------------------------------------------
(* Directories *)

EmptyDirectory == <<>>
Blob(value) == [type |-> "Blob", value |-> value]
Dir(node) == [type |-> "Dir", node |-> node]

setEntry(node, name, entry) == [n \in DOMAIN node \cup {name} |-> IF n = name THEN entry ELSE node[n]]
removeEntry(node, name) == Restrict(node, DOMAIN node \ {name})

isLeafNode(node) == DOMAIN node = {} \/ \E name \in DOMAIN node : node[name].type # "Dir"
sortEntries(node) ==
    [i \in 1 .. Cardinality(DOMAIN node) |->
        CHOOSE a \in DOMAIN node : Cardinality({b \in DOMAIN node : Locale[b] < Locale[a]}) = i - 1]

\* Mutant: a key equal to the name of a child is sent to the one before.
findChild_Left(node, key) ==
    LET sorted == sortEntries(node)
        before == {i \in 1 .. Len(sorted) - 1 : key <= sorted[i + 1]}
    IN sorted[IF before = {} THEN Len(sorted) ELSE Min(before)]

\* The name of the child a key belongs to: the last one whose right neighbour
\* is greater than the key.
findChild(node, key) ==
    LET sorted == sortEntries(node)
        before == {i \in 1 .. Len(sorted) - 1 : key < sorted[i + 1]}
    IN sorted[IF before = {} THEN Len(sorted) ELSE Min(before)]

children(node) == IF isLeafNode(node) THEN {} ELSE {node[name].node : name \in DOMAIN node}

\* The nodes of each level of a tree, the root's first.
Level(node) ==
    LET level[n \in Nat] == IF n = 0 THEN {node} ELSE UNION {children(parent) : parent \in level[n - 1]}
    IN level

\* All nodes of a tree: what a recursion that starts at the root can reach.
Below(node) ==
    LET from[n \in Nat] == LET here == Level(node)[n] IN IF here = {} THEN {} ELSE here \cup from[n + 1]
    IN from[0]

get(node, key) ==
    LET find[n \in Below(node)] ==
            IF isLeafNode(n) THEN IF key \in DOMAIN n THEN n[key].value ELSE None
            ELSE find[n[findChild(n, key)].node]
    IN IF node = None THEN None ELSE find[node]

-----------------------------------------------------------------------------
(* insert *)

\* splitLeaf and splitInternal, which differ in the type they give entries.
split(node) ==
    LET sorted == sortEntries(node)
        mid == Len(sorted) \div 2
        left == {sorted[i] : i \in 1 .. mid}
    IN [left |-> Restrict(node, left), right |-> Restrict(node, DOMAIN node \ left),
        leftFirstKey |-> sorted[1], rightFirstKey |-> sorted[mid + 1]]

withHalves(node, halves) ==
    setEntry(setEntry(node, halves.leftFirstKey, Dir(halves.left)), halves.rightFirstKey, Dir(halves.right))

\* A node after an insert is handed up with its halves if it has grown too large.
overflows(node) == Cardinality(DOMAIN node) > maxKeys

insertRecursive(node, key, value) ==
    LET into[n \in Below(node)] ==
            IF isLeafNode(n) THEN setEntry(n, key, Blob(value))
            ELSE LET child == findChild(n, key)
                     result == into[n[child].node]
                 IN IF overflows(result) THEN withHalves(removeEntry(n, child), split(result))
                    ELSE setEntry(n, child, Dir(result))
    IN into[node]

insert(node, key, value) ==
    IF node = None THEN setEntry(EmptyDirectory, key, Blob(value))
    ELSE IF get(node, key) = value THEN node
         ELSE LET result == insertRecursive(node, key, value)
              IN IF overflows(result) THEN withHalves(EmptyDirectory, split(result)) ELSE result

-----------------------------------------------------------------------------
(* delete *)

\* Mutant: an internal node with one child is kept.
afterRemoval_KeepsOne(node) == IF DOMAIN node = {} THEN None ELSE node

\* A directory from which an entry was removed: nothing if it is empty, and an
\* internal node with one child is replaced by the child.
afterRemoval(node) ==
    IF DOMAIN node = {} THEN None
    ELSE LET only == CHOOSE name \in DOMAIN node : TRUE
         IN IF Cardinality(DOMAIN node) = 1 /\ node[only].type = "Dir" THEN node[only].node ELSE node

delete(node, key) ==
    LET without[n \in Below(node)] ==
            IF isLeafNode(n)
            THEN IF key \in DOMAIN n THEN afterRemoval(removeEntry(n, key)) ELSE n
            ELSE LET child == findChild(n, key)
                     newChild == without[n[child].node]
                 IN IF newChild = None THEN afterRemoval(removeEntry(n, child))
                    ELSE setEntry(n, child, Dir(newChild))
    IN without[node]

-----------------------------------------------------------------------------
(* entries, range and merge *)

\* Mutant: children are skipped by their own name.
visited_OwnName(node, start, end) ==
    LET sorted == sortEntries(node)
        skipped(i) == start # None /\ sorted[i] < start
        last == Min({i \in 1 .. Len(sorted) : end # None /\ ~skipped(i) /\ sorted[i] >= end} \cup {Len(sorted) + 1})
    IN {i \in 1 .. last - 1 : ~skipped(i)}

\* The children of an internal node, or the entries of a leaf, that a traversal
\* from start up to end visits: it skips those before start and returns at the
\* first that is not before end.
visited(node, start, end) ==
    LET sorted == sortEntries(node)
        leaf == isLeafNode(node)
        skipped(i) == start # None /\ IF leaf THEN sorted[i] < start
                                      ELSE i < Len(sorted) /\ sorted[i + 1] <= start
        stops(i) == end # None /\ ~skipped(i) /\ sorted[i] >= end
        last == Min({i \in 1 .. Len(sorted) : stops(i)} \cup {Len(sorted) + 1})
    IN {i \in 1 .. last - 1 : ~skipped(i)}

rangeTraverse(node, start, end) ==
    LET yields[n \in Below(node)] ==
            LET sorted == sortEntries(n)
                part(i) == IF i \notin visited(n, start, end) THEN <<>>
                           ELSE IF isLeafNode(n) THEN <<<<sorted[i], n[sorted[i]].value>>>>
                           ELSE yields[n[sorted[i]].node]
            IN FlattenSeq([i \in 1 .. Len(sorted) |-> part(i)])
    IN yields[node]

\* entries() is the traversal without bounds.
entries(node) == IF node = None THEN <<>> ELSE rangeTraverse(node, None, None)

\* The trees that inserting entries one after the other makes, the first one
\* included; without overwrite only keys that are not found are inserted.
inserted(base, items, overwrite) ==
    LET result[i \in 0 .. Len(items)] ==
            IF i = 0 THEN base
            ELSE LET before == result[i - 1]
                 IN IF overwrite \/ get(before, items[i][1]) = None
                    THEN insert(before, items[i][1], items[i][2]) ELSE before
    IN result

merge(base, other, preferOther) ==
    IF other = None THEN base
    ELSE IF base = None THEN other
    ELSE LET items == entries(other) IN inserted(base, items, preferOther)[Len(items)]

-----------------------------------------------------------------------------
\* The key is sent to a child whose name it is not below, and is below every name
\* in that child.  Such a gap is there when the name's own entry was deleted.
InGap(node, key) ==
    /\ node # None
    /\ \E n \in Below(node) :
        /\ ~isLeafNode(n)
        /\ LET child == n[findChild(n, key)].node
           IN findChild(n, key) <= key /\ ~isLeafNode(child) /\ \A name \in DOMAIN child : key < name

NoneInGap(base, items, overwrite) ==
    \A i \in 1 .. Len(items) : ~InGap(inserted(base, items, overwrite)[i - 1], items[i][1])

\* The names in all nodes of a tree: its keys, and keys that were deleted from it.
NamesIn(node) == IF node = None THEN {} ELSE UNION {DOMAIN n : n \in Below(node)}

KeysOf(items) == {items[i][1] : i \in 1 .. Len(items)}

\* localeCompare and < order these keys alike.
Alike(keys) == \A a, b \in keys : Locale[a] < Locale[b] <=> a < b

Insert(k, v) ==
    /\ root' = insert(root, k, v)
    /\ Map!insert(k, v)
    /\ intact' = (intact /\ ~InGap(root, k))
    /\ alike' = (alike /\ Alike(NamesIn(root) \cup {k}))

\* delete() takes a root, not null.
Delete(k) == root # None /\ root' = delete(root, k) /\ Map!delete(k) /\ UNCHANGED history

\* The other tree was made by inserting these entries one after the other.
Merge(items, preferOther) ==
    LET other == inserted(None, items, TRUE)[Len(items)]
    IN /\ root' = merge(root, other, preferOther)
       /\ Map!merge([k \in Key |-> get(other, k)], preferOther)
       /\ intact' = (/\ intact
                     /\ NoneInGap(None, items, TRUE)
                     /\ root # None => NoneInGap(root, entries(other), preferOther))
       /\ alike' = (alike /\ Alike(NamesIn(root) \cup KeysOf(items)))

Next ==
    \/ \E item \in Items : Insert(item[1], item[2])
    \/ \E k \in Key : Delete(k)
    \/ \E items \in Others, preferOther \in BOOLEAN : Merge(items, preferOther)

Spec == Init /\ [][Next]_vars

-----------------------------------------------------------------------------
(* Properties *)

\* While no insert has fallen into a gap and < and localeCompare have ordered the
\* keys alike, get() finds exactly what was put in, whatever shape inserts,
\* splits, deletes and merges have given the tree (btree.ts 21-62, 307-424,
\* 448-481, 552-571).
GetAgrees == intact /\ alike => \A k \in Key : get(root, k) = map[k]

\* "All keys should still be retrievable after splits" (tests/btree.test.ts:79):
\* a key that was inserted and not deleted is found (btree.ts 349-359, 412-424).
NothingLost == \A k \in Key : map[k] # None => get(root, k) # None

KeysBelow(node) == UNION {DOMAIN leaf : leaf \in {n \in Below(node) : isLeafNode(n)}}

\* A traversal yields exactly the entries from start up to end, in order.
Yields(start, end) ==
    LET seq == rangeTraverse(root, start, end)
        keys == {k \in Key : map[k] # None /\ (start = None \/ k >= start) /\ (end = None \/ k < end)}
    IN /\ ToSet(seq) = {<<k, map[k]>> : k \in keys}
       /\ \A i \in 1 .. Len(seq) - 1 : seq[i][1] < seq[i + 1][1]

\* No child named end or later holds a key before end.
EndBounded(node, end) ==
    end # None => \A n \in {m \in Below(node) : ~isLeafNode(m)} : \A name \in DOMAIN n :
        name >= end => \A k \in KeysBelow(n[name].node) : k >= end

\* entries() and range() yield every entry within the bounds once and in order,
\* though subtrees are skipped by the names of their neighbours, which deletes
\* leave stale.  The one exception: when a child named end or later holds a key
\* before end, inserted below its name, the traversal returns at that name and
\* yields nothing (btree.ts 488-506, 512-545).
RangeAgrees ==
    intact /\ alike /\ root # None =>
        \A end \in Key \cup {None} :
            IF EndBounded(root, end)
            THEN \A start \in Key \cup {None} : Yields(start, end)
            ELSE \A start \in Key \cup {None} : rangeTraverse(root, start, end) = <<>>

\* No node is empty or larger than the order allows and none has a single child
\* (for an order of four or more), and the names in an internal node divide the
\* keys below it: a child holds no key from its right neighbour's name on, and
\* only the first one holds keys before its own name.
SearchTree(node) ==
    \A n \in Below(node) :
        /\ Cardinality(DOMAIN n) \in (IF isLeafNode(n) \/ Order < 4 THEN 1 ELSE 2) .. Max({maxKeys, 2})
        /\ ~isLeafNode(n) => \A a, b \in DOMAIN n : a < b =>
            /\ \A k \in KeysBelow(n[a].node) : k < b
            /\ \A k \in KeysBelow(n[b].node) : k >= b

\* While no insert has fallen into a gap and < and localeCompare have ordered the
\* keys alike, the tree is a search tree within its limits, so it stays shallow
\* and one path leads to a key, though inserts do not update the name of a first
\* child (btree.ts 333, 349-359, 467-475).
WellFormed == intact /\ alike /\ root # None => SearchTree(root)
===============================================================================

------------------------------- MODULE Storage -------------------------------
(***************************************************************************)
(* The daemon's storage (hashtree-cli/src/storage.rs) with the background  *)
(* sync that fills it (sync.rs, fetch.rs).  Blobs live in a blob store     *)
(* whose puts and deletes take effect at once; pins, the blob-tree index,  *)
(* tree metadata and refs live in an LMDB environment with one writer at a *)
(* time, whose changes take effect at the commit.  Sync tasks, the         *)
(* eviction timer, HTTP handlers and the CLI work on both at the same      *)
(* time, and the process may die between any two steps.                    *)
(*                                                                         *)
(* Content is given: a hash stands for a blob, Links for the nodes a tree  *)
(* node names, and every blob is one unit large.  Encrypted trees are      *)
(* blobs without links.  Errors of the stores, the S3 archive and the age  *)
(* of a tree (evictable trees of one priority come in any order) are left  *)
(* out.                                                                    *)
(***************************************************************************)
EXTENDS Naturals, Sequences, FiniteSets, SequencesExt

CONSTANTS
    Hash,           \* blobs and tree nodes
    Links,          \* the hashes each tree node links to; {} for a blob
    Key,            \* refs: "npub/treename"
    Priority,       \* SyncPriority of each ref: 0 own, 1 followed
    Worker,         \* the tasks the sync service runs at a time: max_concurrent
    Desk,           \* the eviction timer, HTTP handlers and the CLI
    Pubkey,         \* Blossom users
    None,           \* absent
    MaxSize,        \* max_size_bytes
    MaxInputs       \* bound: tree events, requests and restarts

ASSUME LinksAssumption == Links \in [Hash -> SUBSET Hash]
ASSUME PriorityAssumption == Priority \in [Key -> {0, 1}]
ASSUME ThreadsAssumption == Worker \cap Desk = {} /\ IsFiniteSet(Worker) /\ IsFiniteSet(Hash)
ASSUME NoneAssumption == None \notin Hash \cup Key \cup Worker \cup Desk \cup Pubkey
ASSUME BoundsAssumption == {MaxSize, MaxInputs} \subseteq Nat

VARIABLES
    store,          \* the local blob store
    pins, blobTrees, treeMeta, treeRefs, owners,   \* LMDB databases
    writer,         \* who holds the write transaction
    tasks,          \* what each thread is doing
    subscriptions,  \* sync: current_cid of each ref
    queue,          \* sync: tasks waiting
    syncing,        \* sync: roots being synced
    inputs,
    missed,         \* history: <<blob, tree>>, blobs that were not there when the tree was indexed
    fresh           \* history: blobs indexed after a thread's eviction read the index

noted == <<missed, fresh>>
content == <<store, pins, blobTrees, treeMeta, treeRefs, owners, noted>>
sync == <<subscriptions, queue, syncing>>
vars == <<content, writer, tasks, sync, inputs>>

Thread == Worker \cup Desk

\* A thread between two steps: where it is and what it read.  late, which the
\* code does not have, collects what is pinned after the thread read the pins.
Task == [at : {"idle", "fetch", "add", "pin", "replace", "unindex", "commit", "collect", "index",
               "evict", "listed", "sweep", "trees", "gc", "gcsweep", "owner", "delete", "disown"},
         key : Key \cup {None},         \* the ref and
         root : Hash \cup {None},       \* the root being synced or added
         pending : SUBSET Hash,         \* hashes being fetched, to add or to sweep
         seen : SUBSET Hash,            \* blobs collected, or the hashes queued, or the pins
         fetched : BOOLEAN,             \* chunks_fetched > 0
         old : Hash \cup {None},        \* the tree being unindexed,
         return : {"collect", "trees"}, \* and where that returns to
         left : SUBSET (Hash \X {0, 1}), \* evictable trees, with their priority
         size : Nat,                    \* current_size of an eviction
         user : Pubkey \cup {None},     \* who uploads or deletes
         late : SUBSET Hash]
Idle == [at |-> "idle", key |-> None, root |-> None, pending |-> {}, seen |-> {}, fetched |-> FALSE,
         old |-> None, return |-> "collect", left |-> {}, size |-> 0, user |-> None, late |-> {}]

Init ==
    /\ store = {} /\ pins = {} /\ blobTrees = {} /\ owners = {}
    /\ treeMeta = [t \in Hash |-> None]
    /\ treeRefs = [k \in Key |-> None]
    /\ writer = None
    /\ tasks = [th \in Thread |-> Idle]
    /\ subscriptions = [k \in Key |-> None]
    /\ queue = <<>>
    /\ syncing = {}
    /\ inputs = 0
    /\ missed = {}
    /\ fresh = [th \in Thread |-> {}]

-----------------------------------------------------------------------------
(* Helpers *)

\* What is found by following the links of the nodes that are there: the
\* smallest set with the root and whatever its stored nodes link to.
Reached(root, there) ==
    {h \in Hash : \A S \in SUBSET Hash :
        root \in S /\ (\A n \in S \cap there : Links[n] \subseteq S) => h \in S}

\* collect_tree_blobs: the blobs among them.  A missing node counts as a blob,
\* and a missing blob is left out.
collect_tree_blobs(root) == {h \in Reached(root, store) : h \in store /\ Links[h] = {}}

\* Every node of a tree, and every blob, whatever is stored.
Nodes(root) == Reached(root, Hash)
Blobs(root) == {h \in Nodes(root) : Links[h] = {}}

InTree(b) == \E t \in Hash : <<b, t>> \in blobTrees

\* get_evictable_trees: followed trees come before own ones.
get_evictable_trees == {<<t, treeMeta[t]>> : t \in {u \in Hash : treeMeta[u] # None}}
First(trees) == {x \in trees : \A y \in trees : x[2] >= y[2]}

\* Target 90% of max.
Target == (MaxSize * 90) \div 100

\* Something comes from outside.
Input == inputs < MaxInputs /\ inputs' = inputs + 1

Step(th, from, task) == tasks[th].at = from /\ tasks' = [tasks EXCEPT ![th] = task]

\* The thread ends what it does; a sync task leaves the syncing set.
Ends(th, from) ==
    /\ Step(th, from, Idle)
    /\ syncing' = IF th \in Worker THEN syncing \ {tasks[th].root} ELSE syncing
    /\ UNCHANGED <<content, writer, subscriptions, queue, inputs>>

-----------------------------------------------------------------------------
(* Background sync *)

\* Mutant: first come, first served.
Enqueue_Last(task) == queue' = Append(queue, task)

\* A task goes before the first of a lower priority (higher number).
Enqueue(task) ==
    LET later == {i \in 1 .. Len(queue) : Priority[queue[i].key] > Priority[task.key]}
        at == IF later = {} THEN Len(queue) + 1 ELSE CHOOSE i \in later : \A j \in later : i <= j
    IN queue' = InsertAt(queue, at, task)

handle_tree_event(k, root) ==
    /\ Input
    /\ \/ /\ subscriptions[k] # root
          /\ subscriptions' = [subscriptions EXCEPT ![k] = root]
          /\ Enqueue([key |-> k, root |-> root])
       \/ subscriptions[k] = root /\ UNCHANGED <<subscriptions, queue>>
    /\ UNCHANGED <<content, writer, tasks, syncing>>

\* Mutant: the syncing set is not asked.
dispatch_Again(th) ==
    /\ Cardinality(syncing) < Cardinality(Worker) /\ queue # <<>> /\ th \in Worker
    /\ syncing' = syncing \cup {Head(queue).root}
    /\ Step(th, "idle", [Idle EXCEPT !.at = "fetch", !.key = Head(queue).key, !.root = Head(queue).root,
                                     !.pending = {Head(queue).root} \ store, !.seen = {Head(queue).root}])
    /\ queue' = Tail(queue)
    /\ UNCHANGED <<content, writer, subscriptions, inputs>>

\* One turn of the worker loop: a task whose root is being synced is dropped.
\* A root that is stored is not fetched.
dispatch(th) ==
    /\ Cardinality(syncing) < Cardinality(Worker) /\ queue # <<>> /\ th \in Worker
    /\ LET task == Head(queue)
       IN \/ /\ task.root \notin syncing
             /\ syncing' = syncing \cup {task.root}
             /\ Step(th, "idle", [Idle EXCEPT !.at = "fetch", !.key = task.key, !.root = task.root,
                                              !.pending = {task.root} \ store, !.seen = {task.root}])
          \/ task.root \in syncing /\ UNCHANGED <<syncing, tasks>>
    /\ queue' = Tail(queue)
    /\ UNCHANGED <<content, writer, subscriptions, inputs>>

\* fetch_tree_parallel: the next chunk.  One that is stored when its turn comes is
\* skipped, and so is what it links to; one that nobody has is given up; the others
\* are stored and what they link to is queued.
fetch_chunk(th) ==
    \E h \in tasks[th].pending :
        LET task == [tasks[th] EXCEPT !.pending = @ \ {h}]
            links == Links[h] \ task.seen
        IN \/ /\ Step(th, "fetch", task)
              /\ UNCHANGED <<content, writer, sync, inputs>>
           \/ /\ Step(th, "fetch", [task EXCEPT !.fetched = TRUE, !.pending = @ \cup links,
                                                !.seen = @ \cup links])
              /\ store' = store \cup {h}
              /\ UNCHANGED <<pins, blobTrees, treeMeta, treeRefs, owners, noted, writer, sync, inputs>>

\* A tree of which nothing was fetched is taken for synced and not indexed.
fetched(th) ==
    /\ tasks[th].pending = {}
    /\ \/ /\ tasks[th].fetched
          /\ Step(th, "fetch", [tasks[th] EXCEPT !.at = "replace", !.seen = {}])
          /\ UNCHANGED <<content, writer, sync, inputs>>
       \/ ~tasks[th].fetched /\ Ends(th, "fetch")

-----------------------------------------------------------------------------
(* index_tree and unindex_tree *)

\* index_tree: another version under the ref is unindexed first.
index_replace(th) ==
    LET task == tasks[th]
        old == treeRefs[task.key]
    IN /\ Step(th, "replace",
               IF old \in {None, task.root} THEN [task EXCEPT !.at = "collect"]
               ELSE [task EXCEPT !.at = "unindex", !.old = old, !.return = "collect",
                                 !.seen = collect_tree_blobs(old)])
       /\ UNCHANGED <<content, writer, sync, inputs>>

index_collect(th) ==
    /\ Step(th, "collect", [tasks[th] EXCEPT !.at = "index", !.seen = collect_tree_blobs(tasks[th].root)])
    /\ UNCHANGED <<content, writer, sync, inputs>>

\* The write transaction of index_tree.  A sync task goes on to evict.
index_tree(th) ==
    LET task == tasks[th]
    IN /\ writer = None
       /\ Step(th, "index", IF th \in Worker THEN [Idle EXCEPT !.at = "evict", !.root = task.root] ELSE Idle)
       /\ blobTrees' = blobTrees \cup (task.seen \X {task.root})
       /\ treeMeta' = [treeMeta EXCEPT ![task.root] = Priority[task.key]]
       /\ treeRefs' = [treeRefs EXCEPT ![task.key] = task.root]
       /\ missed' = {x \in missed : x[2] # task.root} \cup ((Blobs(task.root) \ task.seen) \X {task.root})
       /\ fresh' = [u \in Thread |-> IF tasks[u].at = "sweep" THEN fresh[u] \cup (task.seen \cap tasks[u].pending)
                                     ELSE fresh[u]]
       /\ UNCHANGED <<store, pins, owners, writer, sync, inputs>>

\* Mutant: other trees are not asked.
Orphans_All(task) == task.seen \cup {task.old}

\* What unindex_tree deletes: the collected blobs that are in no tree, and the
\* root.  The index is read in a transaction of its own, which does not see
\* that the entries of this tree are being deleted.
Orphans(task) == {b \in task.seen : ~InTree(b)} \cup {task.old}

\* saturating_sub.
Minus(m, n) == IF m > n THEN m - n ELSE 0

unindex_delete(th) ==
    LET task == tasks[th]
    IN /\ writer = None
       /\ writer' = th
       /\ Step(th, "unindex", [task EXCEPT !.at = "commit",
                                           !.size = IF task.return = "trees"
                                                    THEN Minus(@, Cardinality(Orphans(task) \cap store)) ELSE @])
       /\ store' = store \ Orphans(task)
       /\ UNCHANGED <<pins, blobTrees, treeMeta, treeRefs, owners, noted, sync, inputs>>

unindex_commit(th) ==
    LET task == tasks[th]
    IN /\ writer = th
       /\ writer' = None
       /\ Step(th, "commit", [task EXCEPT !.at = task.return, !.old = None, !.return = "collect",
                                          !.seen = {}, !.late = {}])
       /\ blobTrees' = blobTrees \ (task.seen \X {task.old})
       /\ treeMeta' = [treeMeta EXCEPT ![task.old] = None]
       /\ UNCHANGED <<store, pins, treeRefs, owners, noted, sync, inputs>>

-----------------------------------------------------------------------------
(* Eviction and garbage collection *)

\* evict_if_needed: over the limit, list what is stored.
evict_if_needed(th) ==
    LET used == Cardinality(store)
    IN \/ /\ used > MaxSize
          /\ Step(th, "evict", [tasks[th] EXCEPT !.at = "listed", !.pending = store, !.size = used])
          /\ UNCHANGED <<content, writer, sync, inputs>>
       \/ used <= MaxSize /\ Ends(th, "evict")

\* Mutant: only the index protects.
evict_orphaned_blobs_Pinned(th) ==
    /\ Step(th, "listed", [tasks[th] EXCEPT !.at = "sweep", !.pending = {h \in @ : ~InTree(h)}])
    /\ fresh' = [fresh EXCEPT ![th] = {}]
    /\ UNCHANGED <<store, pins, blobTrees, treeMeta, treeRefs, owners, missed, writer, sync, inputs>>

\* evict_orphaned_blobs: then read the pins and the index.
evict_orphaned_blobs(th) ==
    /\ Step(th, "listed", [tasks[th] EXCEPT !.at = "sweep", !.pending = {h \in @ \ pins : ~InTree(h)}])
    /\ fresh' = [fresh EXCEPT ![th] = {}]
    /\ UNCHANGED <<store, pins, blobTrees, treeMeta, treeRefs, owners, missed, writer, sync, inputs>>

\* gc reads the pins (gc_pins) and then lists what is stored.
gc_list(th) ==
    /\ Step(th, "gc", [tasks[th] EXCEPT !.at = "gcsweep", !.pending = store \ tasks[th].seen, !.seen = {}])
    /\ UNCHANGED <<content, writer, sync, inputs>>

\* Both then delete locally, one hash at a time.
sweep(th) ==
    \E h \in tasks[th].pending :
        /\ \/ Step(th, "sweep", [tasks[th] EXCEPT !.pending = @ \ {h},
                                                  !.size = Minus(@, Cardinality({h} \cap store))])
           \/ Step(th, "gcsweep", [tasks[th] EXCEPT !.pending = @ \ {h}])
        /\ store' = store \ {h}
        /\ UNCHANGED <<pins, blobTrees, treeMeta, treeRefs, owners, noted, writer, sync, inputs>>

gc_end(th) == tasks[th].pending = {} /\ Ends(th, "gcsweep")

\* Phase 2 of evict_if_needed begins if the orphans were not enough.
evict_rank(th) ==
    LET task == tasks[th]
    IN /\ task.pending = {}
       /\ \/ /\ task.size > Target
             /\ Step(th, "sweep", [task EXCEPT !.at = "trees", !.left = get_evictable_trees, !.late = {}])
             /\ UNCHANGED <<content, writer, sync, inputs>>
          \/ task.size <= Target /\ Ends(th, "sweep")

evict_tree(th) ==
    LET task == tasks[th]
    IN \/ /\ task.size > Target
          /\ \E tree \in First(task.left) :
                LET t == tree[1]
                    rest == [task EXCEPT !.left = @ \ {tree}]
                IN Step(th, "trees", IF t \in pins THEN rest
                                     ELSE [rest EXCEPT !.at = "unindex", !.old = t, !.return = "trees",
                                                       !.seen = collect_tree_blobs(t)])
          /\ UNCHANGED <<content, writer, sync, inputs>>
       \/ (task.left = {} \/ task.size <= Target) /\ Ends(th, "trees")

-----------------------------------------------------------------------------
(* HTTP handlers, the CLI and the timer *)

\* A job starts at the Desk.
Starts(th, task) ==
    /\ th \in Desk
    /\ Input
    /\ Step(th, "idle", task)
    /\ UNCHANGED <<content, writer, sync>>

\* The eviction timer fires; htree storage evict.
eviction_timer(th) == Starts(th, [Idle EXCEPT !.at = "evict"])

gc_pins(th) == Starts(th, [Idle EXCEPT !.at = "gc", !.seen = pins])

\* htree add: upload_file or upload_dir, pin, index_tree.
add(th, k, root) ==
    Priority[k] = 0 /\ Starts(th, [Idle EXCEPT !.at = "add", !.key = k, !.root = root, !.pending = Nodes(root)])

\* Mutant: every upload gets an owner, also one whose ownership is not tracked.
put_blob_Owned(th, h) ==
    LET task == tasks[th]
        last == IF task.key # None THEN [task EXCEPT !.at = "pin", !.pending = {}]
                ELSE [task EXCEPT !.at = "owner", !.pending = {}]
    IN /\ h \in task.pending
       /\ Step(th, "add", IF task.pending = {h} THEN last ELSE [task EXCEPT !.pending = @ \ {h}])
       /\ store' = store \cup {h}
       /\ UNCHANGED <<pins, blobTrees, treeMeta, treeRefs, owners, noted, writer, sync, inputs>>

put_blob(th, h) ==
    LET task == tasks[th]
        last == CASE task.key # None  -> [task EXCEPT !.at = "pin", !.pending = {}]
                  [] task.user # None -> [task EXCEPT !.at = "owner", !.pending = {}]
                  [] OTHER            -> Idle
    IN /\ h \in task.pending
       /\ Step(th, "add", IF task.pending = {h} THEN last ELSE [task EXCEPT !.pending = @ \ {h}])
       /\ store' = store \cup {h}
       /\ UNCHANGED <<pins, blobTrees, treeMeta, treeRefs, owners, noted, writer, sync, inputs>>

\* Threads that act on the pins they read.
Notice(ts, h) ==
    [th \in Thread |-> IF ts[th].at \in {"gc", "sweep", "gcsweep", "unindex"}
                       THEN [ts[th] EXCEPT !.late = @ \cup {h}] ELSE ts[th]]

pin_added(th) ==
    /\ writer = None /\ tasks[th].at = "pin"
    /\ pins' = pins \cup {tasks[th].root}
    /\ tasks' = Notice([tasks EXCEPT ![th] = [@ EXCEPT !.at = "replace"]], tasks[th].root)
    /\ UNCHANGED <<store, blobTrees, treeMeta, treeRefs, owners, noted, writer, sync, inputs>>

pin(h) ==
    /\ Input
    /\ writer = None /\ h \notin pins
    /\ pins' = pins \cup {h}
    /\ tasks' = Notice(tasks, h)
    /\ UNCHANGED <<store, blobTrees, treeMeta, treeRefs, owners, noted, writer, sync>>

unpin(h) ==
    /\ Input
    /\ writer = None /\ h \in pins
    /\ pins' = pins \ {h}
    /\ UNCHANGED <<store, blobTrees, treeMeta, treeRefs, owners, noted, writer, tasks, sync>>

\* store_blossom_blob: put_blob, then set_blob_owner if ownership is tracked.
store_blossom_blob(th, h, user) ==
    Starts(th, [Idle EXCEPT !.at = "add", !.root = h, !.pending = {h}, !.user = user])

set_blob_owner(th) ==
    /\ writer = None
    /\ owners' = owners \cup {<<tasks[th].root, tasks[th].user>>}
    /\ Step(th, "owner", Idle)
    /\ UNCHANGED <<store, pins, blobTrees, treeMeta, treeRefs, noted, writer, sync, inputs>>

\* delete_blob of the server: whoever asks must be an owner.
is_blob_owner(th, h, user) ==
    <<h, user>> \in owners /\ Starts(th, [Idle EXCEPT !.at = "delete", !.root = h, !.user = user])

\* Then, in a write transaction: while others own the blob only the entry goes,
\* otherwise the blob goes before the entry is committed.
delete_blossom_blob(th) ==
    LET h == tasks[th].root
        user == tasks[th].user
    IN /\ writer = None
       /\ \/ /\ \E u \in Pubkey \ {user} : <<h, u>> \in owners
             /\ owners' = owners \ {<<h, user>>}
             /\ Step(th, "delete", Idle)
             /\ UNCHANGED <<store, writer>>
          \/ /\ \A u \in Pubkey \ {user} : <<h, u>> \notin owners
             /\ store' = store \ {h}
             /\ writer' = th
             /\ Step(th, "delete", [tasks[th] EXCEPT !.at = "disown"])
             /\ UNCHANGED owners
       /\ UNCHANGED <<pins, blobTrees, treeMeta, treeRefs, noted, sync, inputs>>

disown_commit(th) ==
    /\ writer' = None
    /\ owners' = owners \ {<<tasks[th].root, tasks[th].user>>}
    /\ Step(th, "disown", Idle)
    /\ UNCHANGED <<store, pins, blobTrees, treeMeta, treeRefs, noted, sync, inputs>>

\* The process dies and starts again: what it had in memory is gone and an
\* open write transaction is undone.
Crash ==
    /\ Input
    /\ writer' = None
    /\ tasks' = [th \in Thread |-> Idle]
    /\ subscriptions' = [k \in Key |-> None] /\ queue' = <<>> /\ syncing' = {}
    /\ UNCHANGED content

\* Steps of an operation that is under way.
Runs(th) ==
    \/ fetch_chunk(th) \/ fetched(th)
    \/ index_replace(th) \/ index_collect(th) \/ index_tree(th)
    \/ unindex_delete(th) \/ unindex_commit(th)
    \/ evict_if_needed(th) \/ evict_orphaned_blobs(th) \/ gc_list(th) \/ sweep(th) \/ gc_end(th)
    \/ evict_rank(th) \/ evict_tree(th)
    \/ \E h \in Hash : put_blob(th, h)
    \/ pin_added(th) \/ set_blob_owner(th) \/ delete_blossom_blob(th) \/ disown_commit(th)

Next ==
    \/ \E k \in Key, h \in Hash : handle_tree_event(k, h)
    \/ \E th \in Thread :
        \/ dispatch(th) \/ Runs(th) \/ eviction_timer(th) \/ gc_pins(th)
        \/ \E k \in Key, h \in Hash : add(th, k, h)
        \/ \E h \in Hash, u \in Pubkey \cup {None} : store_blossom_blob(th, h, u)
        \/ \E h \in Hash, u \in Pubkey : is_blob_owner(th, h, u)
    \/ \E h \in Hash : pin(h) \/ unpin(h)
    \/ Crash

Spec == Init /\ [][Next]_vars

-----------------------------------------------------------------------------
(* Properties *)

\* Every database and every thread holds what its declaration says
\* (storage.rs:469-498, sync.rs:33-121).
TypeOK ==
    /\ store \subseteq Hash /\ pins \subseteq Hash /\ owners \subseteq Hash \X Pubkey
    /\ blobTrees \subseteq Hash \X Hash
    /\ treeMeta \in [Hash -> {None, 0, 1}]
    /\ treeRefs \in [Key -> Hash \cup {None}]
    /\ writer \in Thread \cup {None}
    /\ tasks \in [Thread -> Task]
    /\ subscriptions \in [Key -> Hash \cup {None}]
    /\ queue \in Seq([key : Key, root : Hash])
    /\ syncing \subseteq Hash
    /\ inputs \in 0 .. MaxInputs
    /\ missed \subseteq Hash \X Hash
    /\ fresh \in [Thread -> SUBSET Hash]

\* The syncing set names exactly the roots the running tasks work on, and no two
\* of them work on the same root (sync.rs:223-231, 291): a task that ends never
\* frees a root another one is still fetching.
OneSyncPerRoot ==
    /\ syncing = {tasks[th].root : th \in {w \in Worker : tasks[w].at # "idle"}}
    /\ \A v, w \in Worker : tasks[v].at # "idle" /\ tasks[v].root = tasks[w].root => v = w

\* Own trees are always ahead of followed ones, also when events of both kinds
\* and turns of the worker interleave (sync.rs:516-522).
OwnTreesFirst ==
    \A i, j \in 1 .. Len(queue) : i < j => Priority[queue[i].key] <= Priority[queue[j].key]

\* A pinned blob is deleted in five ways only: by its last Blossom owner
\* (storage.rs:1033), by an operation that read the pins before the pin was set
\* (1807, 1986), as the former version of a ref whose new version is indexed
\* (1478-1491), and by unindex_tree (1612-1624) as a blob of an unpinned or replaced
\* tree that no index entry protects, either because the blob was not there when
\* the tree was indexed, or because another operation had unindexed the tree by then:
\* an eviction, which leaves the ref, or a sync of another version that read the
\* same ref.  Nothing else that eviction, garbage collection, sync and the CLI do
\* at the same time loses pinned content; eviction never takes a pinned tree
\* (1761) it could have known of.
PinnedIsKept ==
    [][\A h \in (store \ store') \cap pins :
        \E th \in Thread :
            /\ tasks'[th] # tasks[th]
            /\ \/ tasks[th].at = "delete"
               \/ h \in tasks[th].late
               \/ /\ tasks[th].at = "unindex"
                  /\ IF h = tasks[th].old THEN tasks[th].return = "collect"
                     ELSE treeMeta[tasks[th].old] = None \/ <<h, tasks[th].old>> \in missed]_vars

\* A blob that an index entry names is deleted in four ways only: by its last
\* Blossom owner, by gc, which asks the pins alone (storage.rs:1982-2022), as the
\* root of the tree being unindexed, even if another tree holds it as a blob
\* (1638-1649), or by an eviction that read the index before the entry was written
\* (1823-1835).  However long ago unindex_tree collected its list, and whatever
\* was indexed since, it takes no blob of another tree (1612-1623).
IndexedIsKept ==
    [][\A h \in store \ store' : InTree(h) =>
        \E th \in Thread :
            /\ tasks'[th] # tasks[th]
            /\ \/ tasks[th].at \in {"delete", "gcsweep"}
               \/ tasks[th].at = "unindex" /\ h = tasks[th].old
               \/ tasks[th].at = "sweep" /\ h \in fresh[th]]_vars

\* What an eviction takes for orphaned is not part of any indexed tree
\* (storage.rs:1796).
OrphansOnly ==
    [][\A th \in Thread : tasks[th].at = "listed" /\ tasks'[th].at = "sweep" =>
        \A t \in Hash : treeMeta[t] # None => tasks'[th].pending \cap Nodes(t) = {}]_vars
===============================================================================

---------------------------- MODULE StorageProofs ----------------------------
(***************************************************************************)
(* Proofs about Storage, for any trees, refs, priorities, workers, users   *)
(* and bounds.  The queue of the sync service is in order; every thread    *)
(* has what its next step works on; no root is synced twice; and blobs     *)
(* that are pinned or indexed are deleted only in the ways the properties  *)
(* name.  The invariant behind the last ones is said of one thread's task  *)
(* at a time (Good), of the index (Indexed) and of what a sweep has left   *)
(* (Fresh).                                                                *)
(***************************************************************************)
EXTENDS Storage, SmallestNumber, SequenceTheorems, FiniteSetTheorems, TLAPS

Waiting == [key : Key, root : Hash]

\* A new task goes before the first of a lower priority, so the queue stays
\* in order (sync.rs:516-522).
LEMMA EnqueueKeepsOrder ==
    ASSUME queue \in Seq(Waiting), OwnTreesFirst,
           NEW task \in Waiting, Enqueue(task)
    PROVE  queue' \in Seq(Waiting) /\ OwnTreesFirst'
<1> DEFINE later == {i \in 1 .. Len(queue) : Priority[queue[i].key] > Priority[task.key]}
           at == IF later = {} THEN Len(queue) + 1 ELSE CHOOSE i \in later : \A j \in later : i <= j
<1>1. \A i \in 1 .. Len(queue) : Priority[queue[i].key] \in {0, 1}
  <2>1. \A i \in 1 .. Len(queue) : queue[i] \in Waiting
    OBVIOUS
  <2> QED
    BY <2>1, PriorityAssumption DEF Waiting
<1>2. Priority[task.key] \in {0, 1}
  BY PriorityAssumption DEF Waiting
<1>3. /\ at \in 1 .. Len(queue) + 1
      /\ \A i \in 1 .. at - 1 : Priority[queue[i].key] <= Priority[task.key]
      /\ \A i \in at .. Len(queue) : Priority[queue[i].key] > Priority[task.key]
  <2>1. CASE later = {}
    BY <2>1, <1>1, <1>2
  <2>2. CASE later # {}
    <3>1. PICK m \in later : \A j \in later : m <= j
      <4>1. later \in SUBSET Nat
        OBVIOUS
      <4> QED
        BY <2>2, <4>1, SmallestExists
    <3>2. at = m
      BY <3>1, <2>2
    <3>3. m \in 1 .. Len(queue) /\ Priority[queue[m].key] > Priority[task.key]
      BY <3>1
    <3>4. ASSUME NEW i \in 1 .. m - 1
          PROVE  Priority[queue[i].key] <= Priority[task.key]
      <4>1. i \in 1 .. Len(queue) /\ i \notin later
        BY <3>1, <3>3
      <4> QED
        BY <4>1, <1>1, <1>2
    <3>5. ASSUME NEW i \in m .. Len(queue)
          PROVE  Priority[queue[i].key] > Priority[task.key]
      <4>1. i = m \/ Priority[queue[m].key] <= Priority[queue[i].key]
        BY <3>3 DEF OwnTreesFirst
      <4> QED
        BY <4>1, <3>3, <1>1, <1>2
    <3> HIDE DEF at, later
    <3> QED
      BY <3>2, <3>3, <3>4, <3>5
  <2> QED
    BY <2>1, <2>2
<1>4. queue' = SubSeq(queue, 1, at - 1) \o <<task>> \o SubSeq(queue, at, Len(queue))
  BY DEF Enqueue, InsertAt
<1> HIDE DEF at
<1>5. /\ Len(queue') = Len(queue) + 1
      /\ queue' \in Seq(Waiting)
      /\ \A i \in 1 .. Len(queue') : queue'[i] = IF i < at THEN queue[i]
                                               ELSE IF i = at THEN task ELSE queue[i - 1]
  <2> DEFINE front == SubSeq(queue, 1, at - 1)
             back == SubSeq(queue, at, Len(queue))
  <2>1. /\ front \in Seq(Waiting) /\ Len(front) = at - 1
        /\ \A i \in 1 .. at - 1 : front[i] = queue[i]
    BY <1>3
  <2>2. /\ back \in Seq(Waiting) /\ Len(back) = Len(queue) + 1 - at
        /\ \A i \in 1 .. Len(queue) + 1 - at : back[i] = queue[at + i - 1]
    BY <1>3
  <2> HIDE DEF front, back
  <2>3. queue' = front \o <<task>> \o back
    BY <1>4 DEF front, back
  <2>4. /\ front \o <<task>> \in Seq(Waiting) /\ Len(front \o <<task>>) = at
        /\ \A i \in 1 .. at - 1 : (front \o <<task>>)[i] = queue[i]
        /\ (front \o <<task>>)[at] = task
    BY <2>1, <1>3
  <2> DEFINE head == front \o <<task>>
  <2> HIDE DEF head
  <2>5. /\ head \in Seq(Waiting) /\ Len(head) = at /\ head[at] = task
        /\ \A i \in 1 .. at - 1 : head[i] = queue[i]
    BY <2>4 DEF head
  <2>6. queue' = head \o back
    BY <2>3 DEF head
  <2>7. /\ queue' \in Seq(Waiting) /\ Len(queue') = Len(queue) + 1
        /\ \A i \in 1 .. at : queue'[i] = head[i]
        /\ \A i \in at + 1 .. Len(queue) + 1 : queue'[i] = back[i - at]
    <3>1. at \in Nat /\ Len(queue) \in Nat /\ at <= Len(queue) + 1
      BY <1>3
    <3>2. queue' \in Seq(Waiting) /\ Len(queue') = Len(head) + Len(back)
      BY <2>2, <2>5, <2>6, ConcatProperties
    <3>3. \A i \in 1 .. Len(head) + Len(back) :
             queue'[i] = IF i <= Len(head) THEN head[i] ELSE back[i - Len(head)]
      BY <2>2, <2>5, <2>6, ConcatProperties
    <3> QED
      BY <3>1, <3>2, <3>3, <2>2, <2>5
  <2>8. ASSUME NEW i \in 1 .. Len(queue')
        PROVE  queue'[i] = IF i < at THEN queue[i] ELSE IF i = at THEN task ELSE queue[i - 1]
    <3>1. CASE i <= at
      BY <3>1, <2>5, <2>7, <1>3
    <3>2. CASE i > at
      <4>0. Len(queue) \in Nat /\ at \in Nat /\ i \in at + 1 .. Len(queue) + 1
        <5>1. Len(queue) \in Nat
          OBVIOUS
        <5>2. at \in Nat
          BY <5>1, <1>3
        <5> QED
          BY <5>1, <5>2, <3>2, <2>7
      <4>1. queue'[i] = back[i - at] /\ i - at \in 1 .. Len(queue) + 1 - at
        <5>1. queue'[i] = back[i - at]
          BY <4>0, <2>7
        <5>2. i - at \in 1 .. Len(queue) + 1 - at
          BY <4>0
        <5> QED
          BY <5>1, <5>2
      <4>2. back[i - at] = queue[at + (i - at) - 1]
        BY <4>1, <2>2
      <4>3. at + (i - at) - 1 = i - 1 /\ ~(i < at) /\ i # at
        BY <3>2, <1>3
      <4> QED
        BY <4>1, <4>2, <4>3
    <3> QED
      BY <3>1, <3>2, <1>3
  <2> QED
    BY <2>7, <2>8
<1>6. ASSUME NEW i \in 1 .. Len(queue'), NEW j \in 1 .. Len(queue'), i < j
      PROVE  Priority[queue'[i].key] <= Priority[queue'[j].key]
  <2>1. CASE j < at
    <3>1. queue'[i] = queue[i] /\ queue'[j] = queue[j]
      BY <1>3, <1>5, <1>6, <2>1
    <3>2. i \in 1 .. Len(queue) /\ j \in 1 .. Len(queue)
      BY <1>3, <1>5, <1>6, <2>1
    <3> QED
      BY <3>1, <3>2, <1>6 DEF OwnTreesFirst
  <2>2. CASE i < at /\ j = at
    <3>1. queue'[i] = queue[i] /\ queue'[j] = task /\ i \in 1 .. at - 1
      BY <1>3, <1>5, <2>2
    <3> QED
      BY <3>1, <1>3
  <2>3. CASE i < at /\ j > at
    <3>1. queue'[i] = queue[i] /\ queue'[j] = queue[j - 1]
      BY <1>3, <1>5, <2>3
    <3>2. i \in 1 .. Len(queue) /\ j - 1 \in 1 .. Len(queue) /\ i < j - 1
      BY <1>3, <1>5, <2>3
    <3> QED
      BY <3>1, <3>2 DEF OwnTreesFirst
  <2>4. CASE i = at
    <3>1. queue'[i] = task /\ queue'[j] = queue[j - 1] /\ j - 1 \in at .. Len(queue)
      BY <1>3, <1>5, <1>6, <2>4
    <3> QED
      BY <3>1, <1>1, <1>2, <1>3
  <2>5. CASE i > at
    <3>1. queue'[i] = queue[i - 1] /\ queue'[j] = queue[j - 1]
      BY <1>3, <1>5, <1>6, <2>5
    <3>2. i - 1 \in 1 .. Len(queue) /\ j - 1 \in 1 .. Len(queue) /\ i - 1 < j - 1
      BY <1>3, <1>5, <1>6, <2>5
    <3> QED
      BY <3>1, <3>2 DEF OwnTreesFirst
  <2> QED
    BY <1>3, <1>5, <2>1, <2>2, <2>3, <2>4, <2>5
<1> QED
  BY <1>5, <1>6 DEF OwnTreesFirst

QueueInv == queue \in Seq(Waiting) /\ OwnTreesFirst

\* Operations under way do not touch the queue.
LEMMA RunsLeaveQueue ==
    ASSUME NEW th \in Thread, Runs(th)
    PROVE  queue' = queue
BY DEF Runs, fetch_chunk, fetched, index_replace, index_collect, index_tree, unindex_delete,
       unindex_commit, evict_if_needed, evict_orphaned_blobs, gc_list, sweep, gc_end, evict_rank,
       evict_tree, put_blob, pin_added, set_blob_owner, delete_blossom_blob, disown_commit, Ends, sync

\* Neither do the jobs that start at the desk.
LEMMA DeskLeavesQueue ==
    ASSUME \/ \E th \in Thread :
                \/ eviction_timer(th) \/ gc_pins(th)
                \/ \E k \in Key, h \in Hash : add(th, k, h)
                \/ \E h \in Hash, u \in Pubkey \cup {None} : store_blossom_blob(th, h, u)
                \/ \E h \in Hash, u \in Pubkey : is_blob_owner(th, h, u)
           \/ \E h \in Hash : pin(h) \/ unpin(h)
    PROVE  queue' = queue
BY DEF eviction_timer, gc_pins, add, store_blossom_blob, is_blob_owner, pin, unpin, Starts, sync

\* The queue is in order in every step: an event inserts in order, the worker
\* takes the first task, a crash empties the queue.
LEMMA NextKeepsQueue == QueueInv /\ [Next]_vars => QueueInv'
<1> SUFFICES ASSUME QueueInv, [Next]_vars
             PROVE  QueueInv'
  OBVIOUS
<1>1. CASE queue' = queue
  BY <1>1 DEF QueueInv, OwnTreesFirst
<1>2. ASSUME NEW k \in Key, NEW h \in Hash, handle_tree_event(k, h)
      PROVE  QueueInv'
  <2>1. CASE Enqueue([key |-> k, root |-> h])
    <3>1. [key |-> k, root |-> h] \in Waiting
      BY DEF Waiting
    <3> QED
      BY <2>1, <3>1, EnqueueKeepsOrder DEF QueueInv
  <2> QED
    BY <1>1, <1>2, <2>1 DEF handle_tree_event
<1>3. ASSUME NEW th \in Thread, dispatch(th)
      PROVE  QueueInv'
  <2>1. queue # <<>> /\ queue' = Tail(queue)
    BY <1>3 DEF dispatch
  <2>2. /\ queue' \in Seq(Waiting) /\ Len(queue') = Len(queue) - 1
        /\ \A i \in 1 .. Len(queue') : queue'[i] = queue[i + 1]
    BY <2>1 DEF QueueInv
  <2>3. ASSUME NEW i \in 1 .. Len(queue'), NEW j \in 1 .. Len(queue'), i < j
        PROVE  Priority[queue'[i].key] <= Priority[queue'[j].key]
    <3>1. i + 1 \in 1 .. Len(queue) /\ j + 1 \in 1 .. Len(queue) /\ i + 1 < j + 1
      BY <2>2, <2>3 DEF QueueInv
    <3> QED
      BY <2>2, <3>1 DEF QueueInv, OwnTreesFirst
  <2> QED
    BY <2>2, <2>3 DEF QueueInv, OwnTreesFirst
<1>4. CASE Crash
  BY <1>4 DEF Crash, QueueInv, OwnTreesFirst
<1>5. CASE UNCHANGED vars
  BY <1>1, <1>5 DEF vars, sync
<1> QED
  BY <1>1, <1>2, <1>3, <1>4, <1>5, RunsLeaveQueue, DeskLeavesQueue DEF Next

\* Whatever events arrive while the worker takes tasks, own trees wait in front
\* of followed ones (sync.rs:516-522), for any refs, priorities and bounds.
THEOREM OwnTreesStayFirst == Spec => []OwnTreesFirst
<1>1. Init => QueueInv
  BY DEF Init, QueueInv, OwnTreesFirst
<1>2. QueueInv => OwnTreesFirst
  BY DEF QueueInv
<1> QED
  BY <1>1, <1>2, NextKeepsQueue, PTL DEF Spec

-----------------------------------------------------------------------------
(* What the threads work on.                                               *)

\* A task has the ref, root, tree or user its next steps work on.
Purpose(t) ==
    /\ t.at = "idle" => t = Idle
    /\ t.at \in {"fetch", "replace", "collect", "index", "pin"} => t.key \in Key /\ t.root \in Hash
    /\ t.at \in {"unindex", "commit"} =>
            t.old \in Hash /\ (t.return = "collect" => t.key \in Key /\ t.root \in Hash)
    /\ t.at = "unindex" => t.seen \subseteq Blobs(t.old)
    /\ t.at \in {"add", "owner"} => t.root \in Hash
    /\ t.at = "owner" => t.user \in Pubkey

\* The sync service runs no upload, no deletion and no garbage collection, and
\* a task keeps the root it was started for.
SyncTask(t) ==
    /\ t.at \notin {"add", "pin", "owner", "delete", "disown", "gc", "gcsweep"}
    /\ t.at # "idle" => t.root \in Hash

\* What is pinned and about to be deleted was pinned after the thread read the
\* pins.
Noticed(t, P) ==
    /\ t.at = "gc" => P \subseteq t.seen \cup t.late
    /\ t.at \in {"sweep", "gcsweep"} => t.pending \cap P \subseteq t.late
    /\ t.at = "unindex" /\ t.return = "trees" /\ t.old \in P => t.old \in t.late

Good(th, t, P) == t \in Task /\ Purpose(t) /\ (th \in Worker => SyncTask(t)) /\ Noticed(t, P)

TasksGood == \A th \in Thread : Good(th, tasks[th], pins)
TypeInv == TypeOK /\ TasksGood

\* A thread that is under way takes its next step: to new, keeping its root
\* until it ends, when a sync task leaves the syncing set.  What is listed for
\* deletion is listed by evict_orphaned_blobs alone.
Ran(th, new) ==
    /\ tasks[th].at # "idle"
    /\ tasks' = [tasks EXCEPT ![th] = new]
    /\ Good(th, new, pins)
    /\ th \in Worker /\ new.at # "idle" => new.root = tasks[th].root
    /\ syncing' = IF th \in Worker /\ new.at = "idle" THEN syncing \ {tasks[th].root} ELSE syncing
    /\ new.at = "sweep" => \/ evict_orphaned_blobs(th)
                           \/ tasks[th].at = "sweep" /\ new.pending \subseteq tasks[th].pending

\* Having nothing to do is a good thing to do.
LEMMA IdleGood ==
    ASSUME NEW th \in Thread, NEW P
    PROVE  Good(th, Idle, P) /\ Idle.at = "idle" /\ Idle.root = None
<1>1. Idle \in Task
    BY NoneAssumption DEF Task, Idle
<1>2. Idle.at = "idle" /\ Idle.root = None
    BY DEF Idle
<1> QED BY <1>1, <1>2 DEF Good, Purpose, SyncTask, Noticed

\* What a thread is doing, as a value.
LEMMA CurrentTask ==
    ASSUME TypeInv, NEW th \in Thread
    PROVE  \E t \in Task : t = tasks[th] /\ Good(th, t, pins)
BY DEF TypeInv, TasksGood, Good

\* The blobs collected are stored ones, and blobs of the tree.
LEMMA CollectedType ==
    ASSUME TypeOK, NEW root
    PROVE  collect_tree_blobs(root) \in SUBSET Hash /\ collect_tree_blobs(root) \subseteq Blobs(root)
<1>1. Reached(root, store) \subseteq Reached(root, Hash)
    BY DEF Reached, TypeOK
<1> QED BY <1>1 DEF TypeOK, collect_tree_blobs, Blobs, Nodes

\* Stored blobs can be counted.
LEMMA StoredCount ==
    ASSUME TypeOK, NEW S
    PROVE  Cardinality(store) \in Nat /\ Cardinality(S \cap store) \in Nat
<1>1. IsFiniteSet(store) /\ IsFiniteSet(S \cap store)
    BY ThreadsAssumption, FS_Subset DEF TypeOK
<1> QED BY <1>1, FS_CardinalityType

\* A step of a thread that is under way, and goes on.
LEMMA GoesOn ==
    ASSUME TypeInv, NEW th \in Thread, NEW from, from # "idle", NEW new, Step(th, from, new),
           Good(th, new, pins), new.root = tasks[th].root, new.at # "idle", UNCHANGED syncing,
           new.at = "sweep" => \/ evict_orphaned_blobs(th)
                               \/ tasks[th].at = "sweep" /\ new.pending \subseteq tasks[th].pending
    PROVE  Ran(th, new)
BY DEF Ran, Step

\* A step that ends what a thread does.
LEMMA EndsRun ==
    ASSUME TypeInv, NEW th \in Thread, NEW from, from # "idle", Ends(th, from)
    PROVE  Ran(th, Idle)
BY IdleGood DEF Ran, Ends, Step

\* fetch_tree_parallel keeps its root, and so does the end of the fetch.
LEMMA FetchRun ==
    ASSUME TypeInv, NEW th \in Thread, fetch_chunk(th) \/ fetched(th)
    PROVE  \E new : Ran(th, new)
<1>1. PICK t \in Task : t = tasks[th] /\ Good(th, t, pins)
    BY CurrentTask
<1>2. CASE fetch_chunk(th)
    <2>1. PICK h \in t.pending :
            LET task == [t EXCEPT !.pending = @ \ {h}]
                links == Links[h] \ task.seen
            IN /\ \/ Step(th, "fetch", task)
                  \/ Step(th, "fetch", [task EXCEPT !.fetched = TRUE, !.pending = @ \cup links,
                                                    !.seen = @ \cup links])
               /\ UNCHANGED syncing
        BY <1>1, <1>2 DEF fetch_chunk, sync
    <2> DEFINE task == [t EXCEPT !.pending = @ \ {h}]
    <2>2. /\ task \in Task /\ task.at = t.at /\ task.root = t.root /\ task.key = t.key
        BY DEF Task
    <2>3. PICK links \in SUBSET Hash : links = Links[h] \ task.seen
        BY LinksAssumption DEF Task
    <2> DEFINE more == [task EXCEPT !.fetched = TRUE, !.pending = @ \cup links,
                                    !.seen = @ \cup links]
    <2>4. more \in Task /\ more.at = task.at /\ more.root = task.root /\ more.key = task.key
        <3> HIDE DEF task
        <3> QED BY <2>2 DEF Task
    <2>5. \E new \in {task, more} : Step(th, "fetch", new) /\ UNCHANGED syncing
        BY <2>1, <2>3
    <2> HIDE DEF task, more
    <2>6. PICK new \in {task, more} : Step(th, "fetch", new) /\ UNCHANGED syncing
        BY <2>5
    <2>7. t.at = "fetch" /\ new \in Task /\ new.at = "fetch" /\ new.root = t.root /\ new.key = t.key
        BY <1>1, <2>2, <2>4, <2>6 DEF Step
    <2>8. Good(th, new, pins)
        BY <1>1, <2>7 DEF Good, Purpose, SyncTask, Noticed
    <2>9. Ran(th, new)
        BY <1>1, <2>6, <2>7, <2>8, GoesOn
    <2> QED BY <2>9
<1>3. CASE fetched(th)
    <2> DEFINE new == [t EXCEPT !.at = "replace", !.seen = {}]
    <2>1. new \in Task /\ new.at = "replace" /\ new.root = t.root /\ new.key = t.key
        BY DEF Task
    <2>2. (Step(th, "fetch", new) /\ UNCHANGED syncing) \/ Ends(th, "fetch")
        BY <1>1, <1>3 DEF fetched, sync
    <2> HIDE DEF new
    <2>3. CASE Step(th, "fetch", new) /\ UNCHANGED syncing
        <3>1. t.at = "fetch"
            BY <1>1, <2>3 DEF Step
        <3>2. Good(th, new, pins)
            BY <1>1, <2>1, <3>1 DEF Good, Purpose, SyncTask, Noticed
        <3>3. Ran(th, new)
            BY <1>1, <2>1, <2>3, <3>2, GoesOn
        <3> QED BY <3>3
    <2> QED BY <2>2, <2>3, EndsRun
<1> QED BY <1>2, <1>3

\* index_tree and the removal of the former version it begins with.
LEMMA IndexRun ==
    ASSUME TypeInv, NEW th \in Thread, index_replace(th) \/ index_collect(th) \/ index_tree(th)
    PROVE  \E new : Ran(th, new)
<1>1. PICK t \in Task : t = tasks[th] /\ Good(th, t, pins)
    BY CurrentTask
<1>2. CASE index_replace(th)
    <2>1. t.at = "replace" /\ t.key \in Key /\ t.root \in Hash
        BY <1>1, <1>2 DEF index_replace, Step, Good, Purpose
    <2>2. PICK old \in Hash \cup {None}, X \in SUBSET Hash :
                old = treeRefs[t.key] /\ X = collect_tree_blobs(old) /\ X \subseteq Blobs(old)
        BY <2>1, CollectedType DEF TypeInv, TypeOK
    <2> DEFINE stay == [t EXCEPT !.at = "collect"]
               go == [t EXCEPT !.at = "unindex", !.old = old, !.return = "collect", !.seen = X]
    <2>3. stay \in Task /\ stay.at = "collect" /\ stay.root = t.root /\ stay.key = t.key
        BY DEF Task
    <2>4. /\ go \in Task /\ go.at = "unindex" /\ go.root = t.root /\ go.key = t.key
          /\ go.old = old /\ go.return = "collect" /\ go.seen = X
        BY DEF Task
    <2>5. /\ UNCHANGED syncing
          /\ \/ Step(th, "replace", stay)
             \/ old # None /\ Step(th, "replace", go)
        BY <1>1, <1>2, <2>2 DEF index_replace, sync
    <2> HIDE DEF stay, go
    <2>6. Good(th, stay, pins)
        BY <1>1, <2>1, <2>3 DEF Good, Purpose, SyncTask, Noticed
    <2>7. old # None => Good(th, go, pins)
        BY <1>1, <2>1, <2>2, <2>4 DEF Good, Purpose, SyncTask, Noticed
    <2>8. Ran(th, stay) \/ Ran(th, go)
        BY <1>1, <2>3, <2>4, <2>5, <2>6, <2>7, GoesOn
    <2> QED BY <2>8
<1>3. CASE index_collect(th)
    <2>1. t.at = "collect"
        BY <1>1, <1>3 DEF index_collect, Step
    <2>2. PICK X \in SUBSET Hash : X = collect_tree_blobs(t.root)
        BY CollectedType DEF TypeInv
    <2> DEFINE new == [t EXCEPT !.at = "index", !.seen = X]
    <2>3. new \in Task /\ new.at = "index" /\ new.root = t.root /\ new.key = t.key
        BY DEF Task
    <2>4. Step(th, "collect", new) /\ UNCHANGED syncing
        BY <1>1, <1>3, <2>2 DEF index_collect, sync
    <2> HIDE DEF new
    <2>5. Good(th, new, pins)
        BY <1>1, <2>1, <2>3 DEF Good, Purpose, SyncTask, Noticed
    <2>6. Ran(th, new)
        BY <1>1, <2>3, <2>4, <2>5, GoesOn
    <2> QED BY <2>6
<1>4. CASE index_tree(th)
    <2>1. t.at = "index" /\ t.root \in Hash /\ UNCHANGED syncing
        BY <1>1, <1>4 DEF index_tree, Step, Good, Purpose, sync
    <2> DEFINE new == [Idle EXCEPT !.at = "evict", !.root = t.root]
    <2>2. new \in Task /\ new.at = "evict" /\ new.root = t.root
        BY <2>1, NoneAssumption DEF Task, Idle
    <2>3. CASE th \in Worker
        <3>1. Step(th, "index", new)
            BY <1>1, <1>4, <2>3 DEF index_tree
        <3> HIDE DEF new
        <3>2. Good(th, new, pins)
            BY <2>1, <2>2 DEF Good, Purpose, SyncTask, Noticed
        <3>3. Ran(th, new)
            BY <1>1, <2>1, <2>2, <3>1, <3>2, GoesOn
        <3> QED BY <3>3
    <2>4. CASE th \notin Worker
        <3>1. Step(th, "index", Idle)
            BY <1>4, <2>4 DEF index_tree
        <3>2. Ran(th, Idle)
            BY <2>1, <2>4, <3>1, IdleGood DEF Ran, Step
        <3> QED BY <3>2
    <2> QED BY <2>3, <2>4
<1> QED BY <1>2, <1>3, <1>4

\* unindex_tree deletes and then commits, and returns to what it is part of.
LEMMA UnindexRun ==
    ASSUME TypeInv, NEW th \in Thread, unindex_delete(th) \/ unindex_commit(th)
    PROVE  \E new : Ran(th, new)
<1>1. PICK t \in Task : t = tasks[th] /\ Good(th, t, pins)
    BY CurrentTask
<1>2. CASE unindex_delete(th)
    <2>1. t.at = "unindex"
        BY <1>1, <1>2 DEF unindex_delete, Step
    <2>2. PICK n \in Nat : n = IF t.return = "trees" THEN Minus(t.size, Cardinality(Orphans(t) \cap store))
                               ELSE t.size
        <3>1. Cardinality(Orphans(t) \cap store) \in Nat /\ t.size \in Nat
            BY StoredCount DEF TypeInv, Task
        <3> QED BY <3>1 DEF Minus
    <2> DEFINE new == [t EXCEPT !.at = "commit", !.size = n]
    <2>3. /\ new \in Task /\ new.at = "commit" /\ new.root = t.root /\ new.key = t.key
          /\ new.old = t.old /\ new.return = t.return
        BY DEF Task
    <2>4. Step(th, "unindex", new) /\ UNCHANGED syncing
        BY <1>1, <1>2, <2>2 DEF unindex_delete, sync
    <2> HIDE DEF new
    <2>5. Good(th, new, pins)
        BY <1>1, <2>1, <2>3 DEF Good, Purpose, SyncTask, Noticed
    <2>6. Ran(th, new)
        BY <1>1, <2>3, <2>4, <2>5, GoesOn
    <2> QED BY <2>6
<1>3. CASE unindex_commit(th)
    <2>1. t.at = "commit" /\ t.return \in {"collect", "trees"}
        BY <1>1, <1>3 DEF unindex_commit, Step, Task
    <2> DEFINE new == [t EXCEPT !.at = t.return, !.old = None, !.return = "collect",
                                !.seen = {}, !.late = {}]
    <2>2. new \in Task /\ new.at = t.return /\ new.root = t.root /\ new.key = t.key
        BY DEF Task
    <2>3. Step(th, "commit", new) /\ UNCHANGED syncing
        BY <1>1, <1>3 DEF unindex_commit, sync
    <2> HIDE DEF new
    <2>4. Good(th, new, pins)
        BY <1>1, <2>1, <2>2 DEF Good, Purpose, SyncTask, Noticed
    <2>5. Ran(th, new)
        BY <1>1, <2>1, <2>2, <2>3, <2>4, GoesOn
    <2> QED BY <2>5
<1> QED BY <1>2, <1>3

\* Phase 1 of an eviction, and the garbage collection: what is listed for
\* deletion leaves out the pins that were read.
LEMMA SweepRun ==
    ASSUME TypeInv, NEW th \in Thread,
           evict_if_needed(th) \/ evict_orphaned_blobs(th) \/ gc_list(th) \/ sweep(th) \/ gc_end(th)
    PROVE  \E new : Ran(th, new)
<1>1. PICK t \in Task : t = tasks[th] /\ Good(th, t, pins)
    BY CurrentTask
<1>2. PICK S \in SUBSET Hash : S = store
    BY DEF TypeInv, TypeOK
<1>3. CASE evict_if_needed(th)
    <2>1. PICK used \in Nat : used = Cardinality(store)
        BY StoredCount DEF TypeInv
    <2> DEFINE new == [t EXCEPT !.at = "listed", !.pending = S, !.size = used]
    <2>2. new \in Task /\ new.at = "listed" /\ new.root = t.root
        BY DEF Task
    <2>3. (Step(th, "evict", new) /\ UNCHANGED syncing) \/ Ends(th, "evict")
        BY <1>1, <1>2, <1>3, <2>1 DEF evict_if_needed, sync
    <2> HIDE DEF new
    <2>4. CASE Step(th, "evict", new) /\ UNCHANGED syncing
        <3>1. t.at = "evict"
            BY <1>1, <2>4 DEF Step
        <3>2. Good(th, new, pins)
            BY <1>1, <2>2, <3>1 DEF Good, Purpose, SyncTask, Noticed
        <3>3. Ran(th, new)
            BY <1>1, <2>2, <2>4, <3>2, GoesOn
        <3> QED BY <3>3
    <2> QED BY <2>3, <2>4, EndsRun
<1>4. CASE evict_orphaned_blobs(th)
    <2>1. t.at = "listed"
        BY <1>1, <1>4 DEF evict_orphaned_blobs, Step
    <2>2. PICK P \in SUBSET Hash : P = {h \in t.pending \ pins : ~InTree(h)}
        BY DEF Task
    <2> DEFINE new == [t EXCEPT !.at = "sweep", !.pending = P]
    <2>3. new \in Task /\ new.at = "sweep" /\ new.root = t.root /\ new.pending = P
        BY DEF Task
    <2>4. Step(th, "listed", new) /\ UNCHANGED syncing
        BY <1>1, <1>4, <2>2 DEF evict_orphaned_blobs, sync
    <2> HIDE DEF new
    <2>5. Good(th, new, pins)
        BY <1>1, <2>1, <2>2, <2>3 DEF Good, Purpose, SyncTask, Noticed
    <2>6. Ran(th, new)
        BY <1>1, <1>4, <2>3, <2>4, <2>5, GoesOn
    <2> QED BY <2>6
<1>5. CASE gc_list(th)
    <2>1. t.at = "gc"
        BY <1>1, <1>5 DEF gc_list, Step
    <2> DEFINE new == [t EXCEPT !.at = "gcsweep", !.pending = S \ t.seen, !.seen = {}]
    <2>2. /\ new \in Task /\ new.at = "gcsweep" /\ new.root = t.root
          /\ new.pending = S \ t.seen /\ new.late = t.late
        BY DEF Task
    <2>3. Step(th, "gc", new) /\ UNCHANGED syncing
        BY <1>1, <1>2, <1>5 DEF gc_list, sync
    <2> HIDE DEF new
    <2>4. Good(th, new, pins)
        BY <1>1, <2>1, <2>2 DEF Good, Purpose, SyncTask, Noticed
    <2>5. Ran(th, new)
        BY <1>1, <2>2, <2>3, <2>4, GoesOn
    <2> QED BY <2>5
<1>6. CASE sweep(th)
    <2>1. PICK h \in t.pending :
            /\ \/ Step(th, "sweep", [t EXCEPT !.pending = @ \ {h},
                                              !.size = Minus(@, Cardinality({h} \cap store))])
               \/ Step(th, "gcsweep", [t EXCEPT !.pending = @ \ {h}])
            /\ UNCHANGED syncing
        BY <1>1, <1>6 DEF sweep, sync
    <2>2. PICK n \in Nat : n = Minus(t.size, Cardinality({h} \cap store))
        <3>1. Cardinality({h} \cap store) \in Nat /\ t.size \in Nat
            BY StoredCount DEF TypeInv, Task
        <3> QED BY <3>1 DEF Minus
    <2> DEFINE one == [t EXCEPT !.pending = @ \ {h}, !.size = n]
               two == [t EXCEPT !.pending = @ \ {h}]
    <2>3. one \in Task /\ one.at = t.at /\ one.root = t.root /\ one.pending = t.pending \ {h} /\ one.late = t.late
        BY DEF Task
    <2>4. two \in Task /\ two.at = t.at /\ two.root = t.root /\ two.pending = t.pending \ {h} /\ two.late = t.late
        BY DEF Task
    <2>5. \E new \in {one, two} : Step(th, "sweep", new) \/ Step(th, "gcsweep", new)
        BY <2>1, <2>2
    <2> HIDE DEF one, two
    <2>6. PICK new \in {one, two}, from \in {"sweep", "gcsweep"} : Step(th, from, new)
        BY <2>5
    <2>7. t.at \in {"sweep", "gcsweep"}
        BY <1>1, <2>6 DEF Step
    <2>8. Good(th, new, pins)
        BY <1>1, <2>3, <2>4, <2>7 DEF Good, Purpose, SyncTask, Noticed
    <2>9. Ran(th, new)
        BY <1>1, <2>1, <2>3, <2>4, <2>6, <2>7, <2>8, GoesOn
    <2> QED BY <2>9
<1>7. CASE gc_end(th)
    BY <1>7, EndsRun DEF gc_end
<1> QED BY <1>3, <1>4, <1>5, <1>6, <1>7

\* Phase 2 of an eviction takes unpinned trees only.
LEMMA EvictRun ==
    ASSUME TypeInv, NEW th \in Thread, evict_rank(th) \/ evict_tree(th)
    PROVE  \E new : Ran(th, new)
<1>1. PICK t \in Task : t = tasks[th] /\ Good(th, t, pins)
    BY CurrentTask
<1>2. CASE evict_rank(th)
    <2>1. PICK L \in SUBSET (Hash \X {0, 1}) : L = get_evictable_trees
        <3>1. ASSUME NEW u \in Hash, treeMeta[u] # None PROVE <<u, treeMeta[u]>> \in Hash \X {0, 1}
            BY <3>1 DEF TypeInv, TypeOK
        <3>2. get_evictable_trees \in SUBSET (Hash \X {0, 1})
            BY <3>1 DEF get_evictable_trees
        <3> QED BY <3>2
    <2> DEFINE new == [t EXCEPT !.at = "trees", !.left = L, !.late = {}]
    <2>2. new \in Task /\ new.at = "trees" /\ new.root = t.root
        BY DEF Task
    <2>3. (Step(th, "sweep", new) /\ UNCHANGED syncing) \/ Ends(th, "sweep")
        BY <1>1, <1>2, <2>1 DEF evict_rank, sync
    <2> HIDE DEF new
    <2>4. CASE Step(th, "sweep", new) /\ UNCHANGED syncing
        <3>1. t.at = "sweep"
            BY <1>1, <2>4 DEF Step
        <3>2. Good(th, new, pins)
            BY <1>1, <2>2, <3>1 DEF Good, Purpose, SyncTask, Noticed
        <3>3. Ran(th, new)
            BY <1>1, <2>2, <2>4, <3>2, GoesOn
        <3> QED BY <3>3
    <2> QED BY <2>3, <2>4, EndsRun
<1>3. CASE evict_tree(th)
    <2>1. CASE Ends(th, "trees")
        BY <2>1, EndsRun
    <2>2. CASE ~Ends(th, "trees")
        <3>1. PICK tree \in First(t.left) :
                LET rest == [t EXCEPT !.left = @ \ {tree}]
                IN Step(th, "trees", IF tree[1] \in pins THEN rest
                                     ELSE [rest EXCEPT !.at = "unindex", !.old = tree[1], !.return = "trees",
                                                       !.seen = collect_tree_blobs(tree[1])])
            BY <1>1, <1>3, <2>2 DEF evict_tree
        <3>2. UNCHANGED syncing
            BY <1>3, <2>2 DEF evict_tree, sync
        <3>3. PICK o \in Hash, X \in SUBSET Hash :
                 o = tree[1] /\ X = collect_tree_blobs(tree[1]) /\ X \subseteq Blobs(o)
            BY CollectedType DEF First, Task, TypeInv
        <3> DEFINE rest == [t EXCEPT !.left = @ \ {tree}]
        <3>4. rest \in Task /\ rest.at = t.at /\ rest.root = t.root
            BY DEF Task
        <3> DEFINE go == [rest EXCEPT !.at = "unindex", !.old = o, !.return = "trees", !.seen = X]
        <3>5. go \in Task /\ go.at = "unindex" /\ go.root = rest.root /\ go.old = o /\ go.return = "trees"
              /\ go.seen = X
            <4> HIDE DEF rest
            <4> QED BY <3>4 DEF Task
        <3>6. \/ o \in pins /\ Step(th, "trees", rest)
              \/ o \notin pins /\ Step(th, "trees", go)
            BY <3>1, <3>3
        <3> HIDE DEF rest, go
        <3>7. t.at = "trees"
            BY <1>1, <3>6 DEF Step
        <3>8. Good(th, rest, pins)
            BY <1>1, <3>4, <3>7 DEF Good, Purpose, SyncTask, Noticed
        <3>9. o \notin pins => Good(th, go, pins)
            BY <1>1, <3>3, <3>4, <3>5, <3>7 DEF Good, Purpose, SyncTask, Noticed
        <3>10. Ran(th, rest) \/ Ran(th, go)
            BY <1>1, <3>2, <3>4, <3>5, <3>6, <3>7, <3>8, <3>9, GoesOn
        <3> QED BY <3>10
    <2> QED BY <2>1, <2>2
<1> QED BY <1>2, <1>3

\* The uploads and deletions of the desk.
LEMMA UploadRun ==
    ASSUME TypeInv, NEW th \in Thread,
           \/ \E h \in Hash : put_blob(th, h)
           \/ set_blob_owner(th) \/ delete_blossom_blob(th) \/ disown_commit(th)
    PROVE  \E new : Ran(th, new)
<1>1. PICK t \in Task : t = tasks[th] /\ Good(th, t, pins)
    BY CurrentTask
<1>2. ASSUME NEW h \in Hash, put_blob(th, h) PROVE \E new : Ran(th, new)
    <2>1. t.at = "add" /\ t.root \in Hash /\ th \notin Worker /\ UNCHANGED syncing
        BY <1>1, <1>2 DEF put_blob, Step, Good, Purpose, SyncTask, sync
    <2> DEFINE pinned == [t EXCEPT !.at = "pin", !.pending = {}]
               owned == [t EXCEPT !.at = "owner", !.pending = {}]
               more == [t EXCEPT !.pending = @ \ {h}]
    <2>2. pinned \in Task /\ pinned.at = "pin" /\ pinned.root = t.root /\ pinned.key = t.key
        BY DEF Task
    <2>3. owned \in Task /\ owned.at = "owner" /\ owned.root = t.root /\ owned.user = t.user
        BY DEF Task
    <2>4. more \in Task /\ more.at = "add" /\ more.root = t.root
        BY <2>1 DEF Task
    <2>5. \/ t.key # None /\ Step(th, "add", pinned)
          \/ t.user # None /\ Step(th, "add", owned)
          \/ Step(th, "add", more)
          \/ Step(th, "add", Idle)
        BY <1>1, <1>2 DEF put_blob
    <2>6. t.key \in Key \cup {None} /\ t.user \in Pubkey \cup {None}
        BY DEF Task
    <2> HIDE DEF pinned, owned, more
    <2>7. /\ t.key # None => Good(th, pinned, pins)
          /\ t.user # None => Good(th, owned, pins)
          /\ Good(th, more, pins)
        BY <2>1, <2>2, <2>3, <2>4, <2>6 DEF Good, Purpose, SyncTask, Noticed
    <2>8. CASE Step(th, "add", Idle)
        <3>1. Ran(th, Idle)
            BY <2>1, <2>8, IdleGood DEF Ran, Step
        <3> QED BY <3>1
    <2>9. CASE ~Step(th, "add", Idle)
        <3>1. Ran(th, pinned) \/ Ran(th, owned) \/ Ran(th, more)
            BY <1>1, <2>1, <2>2, <2>3, <2>4, <2>5, <2>7, <2>9, GoesOn
        <3> QED BY <3>1
    <2> QED BY <2>8, <2>9
<1>3. ASSUME set_blob_owner(th) \/ disown_commit(th) PROVE \E new : Ran(th, new)
    <2>1. PICK from \in {"owner", "disown"} : Step(th, from, Idle) /\ UNCHANGED syncing
        BY <1>3 DEF set_blob_owner, disown_commit, sync
    <2>2. th \notin Worker
        BY <1>1, <2>1 DEF Step, Good, SyncTask
    <2>3. Ran(th, Idle)
        BY <2>1, <2>2, IdleGood DEF Ran, Step
    <2> QED BY <2>3
<1>4. ASSUME delete_blossom_blob(th) PROVE \E new : Ran(th, new)
    <2> DEFINE new == [t EXCEPT !.at = "disown"]
    <2>1. new \in Task /\ new.at = "disown" /\ new.root = t.root
        BY DEF Task
    <2>2. (Step(th, "delete", Idle) \/ Step(th, "delete", new)) /\ UNCHANGED syncing
        BY <1>1, <1>4 DEF delete_blossom_blob, sync
    <2> HIDE DEF new
    <2>3. t.at = "delete" /\ th \notin Worker
        BY <1>1, <2>2 DEF Step, Good, SyncTask
    <2>4. CASE Step(th, "delete", Idle)
        <3>1. Ran(th, Idle)
            BY <2>2, <2>3, <2>4, IdleGood DEF Ran, Step
        <3> QED BY <3>1
    <2>5. CASE Step(th, "delete", new)
        <3>1. Good(th, new, pins)
            BY <2>1, <2>3 DEF Good, Purpose, SyncTask, Noticed
        <3>2. Ran(th, new)
            BY <1>1, <2>1, <2>2, <2>5, <3>1, GoesOn
        <3> QED BY <3>2
    <2> QED BY <2>2, <2>4, <2>5
<1> QED BY <1>2, <1>3, <1>4

\* Every thread that acts on the pins it read takes notice of a new one.
LEMMA PinNoticed ==
    ASSUME NEW ts, NEW h \in Hash, \A th \in Thread : Good(th, ts[th], pins)
    PROVE  /\ Notice(ts, h) \in [Thread -> Task]
           /\ \A th \in Thread : /\ Good(th, Notice(ts, h)[th], pins \cup {h})
                                 /\ Notice(ts, h)[th].root = ts[th].root
                                 /\ Notice(ts, h)[th].at = ts[th].at
                                 /\ Notice(ts, h)[th].pending = ts[th].pending
<1>1. ASSUME NEW th \in Thread
      PROVE  /\ Notice(ts, h)[th] \in Task
             /\ Good(th, Notice(ts, h)[th], pins \cup {h})
             /\ Notice(ts, h)[th].root = ts[th].root
             /\ Notice(ts, h)[th].at = ts[th].at
             /\ Notice(ts, h)[th].pending = ts[th].pending
    <2>1. PICK t \in Task : t = ts[th] /\ Good(th, t, pins)
        BY DEF Good
    <2> DEFINE new == [t EXCEPT !.late = @ \cup {h}]
    <2>2. /\ new \in Task /\ new.late = t.late \cup {h} /\ new.root = t.root /\ new.at = t.at
          /\ new.key = t.key /\ new.old = t.old /\ new.return = t.return /\ new.seen = t.seen
          /\ new.pending = t.pending /\ new.user = t.user
        BY DEF Task
    <2>3. Notice(ts, h)[th] = IF t.at \in {"gc", "sweep", "gcsweep", "unindex"} THEN new ELSE t
        BY <2>1 DEF Notice
    <2> HIDE DEF new
    <2>4. CASE t.at \in {"gc", "sweep", "gcsweep", "unindex"}
        <3>1. Purpose(new)
            BY <2>1, <2>2, <2>4 DEF Good, Purpose
        <3>2. th \in Worker => SyncTask(new)
            BY <2>1, <2>2 DEF Good, SyncTask
        <3>3. Noticed(new, pins \cup {h})
            BY <2>1, <2>2 DEF Good, Noticed
        <3> QED BY <2>1, <2>2, <2>3, <2>4, <3>1, <3>2, <3>3 DEF Good
    <2>5. CASE t.at \notin {"gc", "sweep", "gcsweep", "unindex"}
        BY <2>1, <2>3, <2>5 DEF Good, Noticed
    <2> QED BY <2>4, <2>5
<1>2. Notice(ts, h) \in [Thread -> Task]
    BY <1>1 DEF Notice
<1> QED BY <1>1, <1>2

\* A pin is noticed by every thread that read the pins before, whoever sets it.
LEMMA PinGood ==
    ASSUME TypeInv, (\E th \in Thread : pin_added(th)) \/ (\E h \in Hash : pin(h))
    PROVE  /\ \E h \in Hash : pins' = pins \cup {h}
           /\ tasks' \in [Thread -> Task] /\ TasksGood'
           /\ \A th \in Thread : tasks'[th].root = tasks[th].root
           /\ \A th \in Thread : tasks'[th].at = "idle" <=> tasks[th].at = "idle"
           /\ \A th \in Thread : tasks'[th].at = "sweep" =>
                tasks[th].at = "sweep" /\ tasks'[th].pending = tasks[th].pending
<1>1. ASSUME NEW h \in Hash, pin(h) PROVE pins' = pins \cup {h} /\ tasks' = Notice(tasks, h)
    BY <1>1 DEF pin
<1>2. \A u \in Thread : Good(u, tasks[u], pins)
    BY DEF TypeInv, TasksGood
<1>3. CASE \E h \in Hash : pin(h)
    <2>1. PICK h \in Hash : pin(h)
        BY <1>3
    <2>2. pins' = pins \cup {h} /\ tasks' = Notice(tasks, h)
        BY <1>1, <2>1
    <2>3. /\ Notice(tasks, h) \in [Thread -> Task]
          /\ \A u \in Thread : /\ Good(u, Notice(tasks, h)[u], pins \cup {h})
                               /\ Notice(tasks, h)[u].root = tasks[u].root
                               /\ Notice(tasks, h)[u].at = tasks[u].at
                               /\ Notice(tasks, h)[u].pending = tasks[u].pending
        BY <1>2, PinNoticed
    <2> QED BY <2>2, <2>3 DEF TasksGood
<1>4. ASSUME NEW th \in Thread, pin_added(th)
      PROVE  /\ \E h \in Hash : pins' = pins \cup {h}
             /\ tasks' \in [Thread -> Task] /\ TasksGood'
             /\ \A u \in Thread : tasks'[u].root = tasks[u].root
             /\ \A u \in Thread : tasks'[u].at = "idle" <=> tasks[u].at = "idle"
             /\ \A u \in Thread : tasks'[u].at = "sweep" =>
                  tasks[u].at = "sweep" /\ tasks'[u].pending = tasks[u].pending
    <2>1. PICK t \in Task : t = tasks[th] /\ Good(th, t, pins)
        BY CurrentTask
    <2>2. t.at = "pin" /\ t.root \in Hash /\ t.key \in Key /\ th \notin Worker
        BY <1>4, <2>1 DEF pin_added, Good, Purpose, SyncTask
    <2>3. PICK h \in Hash : h = t.root
        BY <2>2
    <2> DEFINE new == [t EXCEPT !.at = "replace"]
               ts == [tasks EXCEPT ![th] = new]
    <2>4. new \in Task /\ new.at = "replace" /\ new.root = t.root /\ new.key = t.key
        BY DEF Task
    <2>5. tasks' = Notice(ts, h) /\ pins' = pins \cup {h}
        BY <1>4, <2>1, <2>3 DEF pin_added
    <2> HIDE DEF new
    <2>6. Good(th, new, pins)
        BY <2>2, <2>4 DEF Good, Purpose, SyncTask, Noticed
    <2>7. \A u \in Thread : ts[u] = IF u = th THEN new ELSE tasks[u]
        BY DEF TypeInv, TypeOK
    <2> HIDE DEF ts
    <2>8. \A u \in Thread : Good(u, ts[u], pins) /\ ts[u].root = tasks[u].root
                             /\ (ts[u].at = "idle" <=> tasks[u].at = "idle")
                             /\ (ts[u].at = "sweep" => tasks[u].at = "sweep" /\ ts[u].pending = tasks[u].pending)
        BY <1>2, <2>1, <2>2, <2>4, <2>6, <2>7
    <2>9. /\ Notice(ts, h) \in [Thread -> Task]
          /\ \A u \in Thread : /\ Good(u, Notice(ts, h)[u], pins \cup {h})
                               /\ Notice(ts, h)[u].root = ts[u].root
                               /\ Notice(ts, h)[u].at = ts[u].at
                               /\ Notice(ts, h)[u].pending = ts[u].pending
        BY <2>8, PinNoticed
    <2> QED BY <2>5, <2>8, <2>9 DEF TasksGood
<1> QED BY <1>3, <1>4

\* A job that starts, at the desk or in the sync service.
Started(th, new) ==
    /\ tasks[th].at = "idle"
    /\ tasks' = [tasks EXCEPT ![th] = new]
    /\ Good(th, new, pins) /\ new.at # "sweep"
    /\ IF th \in Worker
       THEN new.at # "idle" /\ new.root \notin syncing /\ syncing' = syncing \cup {new.root}
       ELSE syncing' = syncing

\* The worker loop starts a task for a root nobody syncs.
LEMMA DispatchStarts ==
    ASSUME TypeInv, NEW th \in Thread, dispatch(th), tasks' # tasks
    PROVE  \E new : Started(th, new)
<1>1. queue # <<>> /\ th \in Worker
    BY DEF dispatch
<1>2. PICK k \in Key, r \in Hash : k = Head(queue).key /\ r = Head(queue).root
    <2>1. queue \in Seq(Waiting)
        BY DEF TypeInv, TypeOK, Waiting
    <2>2. Head(queue) \in Waiting
        BY <1>1, <2>1
    <2> QED BY <2>2 DEF Waiting
<1>3. PICK P \in SUBSET Hash : P = {r} \ store
    OBVIOUS
<1> DEFINE new == [Idle EXCEPT !.at = "fetch", !.key = k, !.root = r, !.pending = P, !.seen = {r}]
<1>4. new \in Task /\ new.at = "fetch" /\ new.key = k /\ new.root = r
    BY NoneAssumption DEF Task, Idle
<1>5. Step(th, "idle", new) /\ r \notin syncing /\ syncing' = syncing \cup {r}
    BY <1>2, <1>3 DEF dispatch
<1> HIDE DEF new
<1>6. Good(th, new, pins)
    BY <1>4 DEF Good, Purpose, SyncTask, Noticed
<1>7. Started(th, new)
    BY <1>1, <1>4, <1>5, <1>6 DEF Started, Step
<1> QED BY <1>7

\* The jobs of the desk.
LEMMA DeskStarts ==
    ASSUME TypeInv, NEW th \in Thread,
           \/ eviction_timer(th) \/ gc_pins(th)
           \/ \E k \in Key, h \in Hash : add(th, k, h)
           \/ \E h \in Hash, u \in Pubkey \cup {None} : store_blossom_blob(th, h, u)
           \/ \E h \in Hash, u \in Pubkey : is_blob_owner(th, h, u)
    PROVE  \E new : Started(th, new)
<1>1. th \in Desk /\ UNCHANGED syncing
    BY DEF eviction_timer, gc_pins, add, store_blossom_blob, is_blob_owner, Starts, sync
<1>2. th \notin Worker
    BY <1>1, ThreadsAssumption
<1>3. ASSUME NEW new \in Task, Step(th, "idle", new), Purpose(new), Noticed(new, pins), new.at # "sweep"
      PROVE  \E n : Started(th, n)
    <2>1. Started(th, new)
        BY <1>1, <1>2, <1>3 DEF Started, Step, Good
    <2> QED BY <2>1
<1>4. CASE eviction_timer(th)
    <2> DEFINE new == [Idle EXCEPT !.at = "evict"]
    <2>1. new \in Task /\ new.at = "evict"
        BY NoneAssumption DEF Task, Idle
    <2>2. Step(th, "idle", new)
        BY <1>4 DEF eviction_timer, Starts
    <2> HIDE DEF new
    <2> QED BY <1>3, <2>1, <2>2 DEF Purpose, Noticed
<1>5. CASE gc_pins(th)
    <2>1. PICK P \in SUBSET Hash : P = pins
        BY DEF TypeInv, TypeOK
    <2> DEFINE new == [Idle EXCEPT !.at = "gc", !.seen = P]
    <2>2. new \in Task /\ new.at = "gc" /\ new.seen = P
        BY NoneAssumption DEF Task, Idle
    <2>3. Step(th, "idle", new)
        BY <1>5, <2>1 DEF gc_pins, Starts
    <2> HIDE DEF new
    <2> QED BY <1>3, <2>1, <2>2, <2>3 DEF Purpose, Noticed
<1>6. ASSUME NEW k \in Key, NEW h \in Hash, add(th, k, h) PROVE \E n : Started(th, n)
    <2>1. PICK N \in SUBSET Hash : N = Nodes(h)
        BY DEF Nodes, Reached
    <2> DEFINE new == [Idle EXCEPT !.at = "add", !.key = k, !.root = h, !.pending = N]
    <2>2. new \in Task /\ new.at = "add" /\ new.root = h
        BY NoneAssumption DEF Task, Idle
    <2>3. Step(th, "idle", new)
        BY <1>6, <2>1 DEF add, Starts
    <2> HIDE DEF new
    <2> QED BY <1>3, <2>2, <2>3 DEF Purpose, Noticed
<1>7. ASSUME NEW h \in Hash, NEW u \in Pubkey \cup {None}, store_blossom_blob(th, h, u)
      PROVE  \E n : Started(th, n)
    <2> DEFINE new == [Idle EXCEPT !.at = "add", !.root = h, !.pending = {h}, !.user = u]
    <2>1. new \in Task /\ new.at = "add" /\ new.root = h
        BY NoneAssumption DEF Task, Idle
    <2>2. Step(th, "idle", new)
        BY <1>7 DEF store_blossom_blob, Starts
    <2> HIDE DEF new
    <2> QED BY <1>3, <2>1, <2>2 DEF Purpose, Noticed
<1>8. ASSUME NEW h \in Hash, NEW u \in Pubkey, is_blob_owner(th, h, u)
      PROVE  \E n : Started(th, n)
    <2> DEFINE new == [Idle EXCEPT !.at = "delete", !.root = h, !.user = u]
    <2>1. new \in Task /\ new.at = "delete"
        BY NoneAssumption DEF Task, Idle
    <2>2. Step(th, "idle", new)
        BY <1>8 DEF is_blob_owner, Starts
    <2> HIDE DEF new
    <2> QED BY <1>3, <2>1, <2>2 DEF Purpose, Noticed
<1> QED BY <1>4, <1>5, <1>6, <1>7, <1>8

\* Operations under way, the setting of a pin aside.
LEMMA RunsRan ==
    ASSUME TypeInv, NEW th \in Thread, Runs(th), ~pin_added(th)
    PROVE  \E new : Ran(th, new)
BY FetchRun, IndexRun, UnindexRun, SweepRun, EvictRun, UploadRun DEF Runs

\* The ways a step changes what the threads do.
LEMMA StepKinds ==
    ASSUME TypeInv, [Next]_vars
    PROVE  \/ UNCHANGED <<tasks, syncing>>
           \/ \E th \in Thread : \E new : Ran(th, new) \/ Started(th, new)
           \/ /\ UNCHANGED syncing
              /\ (\E th \in Thread : pin_added(th)) \/ (\E h \in Hash : pin(h))
           \/ tasks' = [th \in Thread |-> Idle] /\ syncing' = {}
<1>1. ASSUME NEW th \in Thread, dispatch(th)
      PROVE  UNCHANGED <<tasks, syncing>> \/ \E new : Started(th, new)
    <2>1. CASE tasks' = tasks
        <3>1. th \in Worker /\ (UNCHANGED <<syncing, tasks>> \/ \E new : Step(th, "idle", new) /\ new.at = "fetch")
            <4>1. \A k, r, P : [Idle EXCEPT !.at = "fetch", !.key = k, !.root = r, !.pending = P,
                                            !.seen = {r}].at = "fetch"
                BY DEF Idle
            <4> QED BY <1>1, <4>1 DEF dispatch
        <3>2. ASSUME NEW new, Step(th, "idle", new), new.at = "fetch" PROVE FALSE
            <4>1. tasks'[th] = new /\ tasks[th].at = "idle"
                BY <3>2 DEF Step, TypeInv, TypeOK
            <4> QED BY <2>1, <3>2, <4>1
        <3> QED BY <3>1, <3>2
    <2> QED BY <1>1, <2>1, DispatchStarts
<1>2. ASSUME NEW th \in Thread, Runs(th)
      PROVE  (\E new : Ran(th, new)) \/ (pin_added(th) /\ UNCHANGED syncing)
    <2>1. pin_added(th) => UNCHANGED syncing
        BY DEF pin_added, sync
    <2> QED BY <1>2, <2>1, RunsRan
<1>3. ASSUME NEW h \in Hash, pin(h) \/ unpin(h)
      PROVE  UNCHANGED syncing /\ (pin(h) \/ UNCHANGED tasks)
    BY <1>3 DEF pin, unpin, sync
<1>4. ASSUME NEW k \in Key, NEW h \in Hash, handle_tree_event(k, h) PROVE UNCHANGED <<tasks, syncing>>
    BY <1>4 DEF handle_tree_event
<1>5. Crash => tasks' = [th \in Thread |-> Idle] /\ syncing' = {}
    BY DEF Crash
<1>6. UNCHANGED vars => UNCHANGED <<tasks, syncing>>
    BY DEF vars, sync
<1> QED BY <1>1, <1>2, <1>3, <1>4, <1>5, <1>6, DeskStarts DEF Next

\* Pins are added by pin alone.
LEMMA PinsShrink ==
    ASSUME [Next]_vars
    PROVE  \/ (\E th \in Thread : pin_added(th)) \/ (\E h \in Hash : pin(h))
           \/ pins' \subseteq pins
<1>1. ASSUME NEW th \in Thread, Runs(th) PROVE pin_added(th) \/ pins' = pins
    BY <1>1 DEF Runs, fetch_chunk, fetched, index_replace, index_collect, index_tree, unindex_delete,
       unindex_commit, evict_if_needed, evict_orphaned_blobs, gc_list, sweep, gc_end, evict_rank,
       evict_tree, put_blob, set_blob_owner, delete_blossom_blob, disown_commit, Ends, content
<1> QED BY <1>1 DEF Next, handle_tree_event, dispatch, eviction_timer, gc_pins, add, store_blossom_blob,
       is_blob_owner, unpin, Crash, Starts, content, vars

\* A task that is good stays so when pins go.
LEMMA FewerPins ==
    ASSUME NEW th, NEW t, NEW P, NEW Q \in SUBSET P, Good(th, t, P)
    PROVE  Good(th, t, Q)
BY DEF Good, Noticed

\* Every step leaves every thread with a task it can do.
LEMMA NextTasks ==
    ASSUME TypeInv, [Next]_vars
    PROVE  tasks' \in [Thread -> Task] /\ TasksGood'
<1>0. tasks \in [Thread -> Task] /\ TasksGood
    BY DEF TypeInv, TypeOK
<1>1. CASE (\E th \in Thread : pin_added(th)) \/ (\E h \in Hash : pin(h))
    BY <1>1, PinGood
<1>2. CASE ~((\E th \in Thread : pin_added(th)) \/ (\E h \in Hash : pin(h)))
    <2>1. pins' \in SUBSET pins
        BY <1>2, PinsShrink
    <2>2. ASSUME \A th \in Thread : Good(th, tasks'[th], pins) PROVE TasksGood'
        BY <2>1, <2>2, FewerPins DEF TasksGood
    <2>3. CASE UNCHANGED <<tasks, syncing>>
        BY <1>0, <2>2, <2>3 DEF TasksGood
    <2>4. ASSUME NEW th \in Thread, NEW new, Ran(th, new) \/ Started(th, new)
          PROVE  tasks' \in [Thread -> Task] /\ TasksGood'
        <3>1. tasks' = [tasks EXCEPT ![th] = new] /\ Good(th, new, pins)
            BY <2>4 DEF Ran, Started
        <3>2. tasks' \in [Thread -> Task]
            BY <1>0, <3>1 DEF Good
        <3>3. \A u \in Thread : tasks'[u] = IF u = th THEN new ELSE tasks[u]
            BY <1>0, <3>1
        <3> QED BY <1>0, <2>2, <3>1, <3>2, <3>3 DEF TasksGood
    <2>5. CASE tasks' = [th \in Thread |-> Idle]
        BY <2>2, <2>5, IdleGood DEF Good
    <2> QED BY <1>2, <2>3, <2>4, <2>5, StepKinds
<1> QED BY <1>1, <1>2

\* What LMDB and the blob store hold.
Databases ==
    /\ store \subseteq Hash /\ pins \subseteq Hash /\ owners \subseteq Hash \X Pubkey
    /\ blobTrees \subseteq Hash \X Hash
    /\ treeMeta \in [Hash -> {None, 0, 1}]
    /\ treeRefs \in [Key -> Hash \cup {None}]
    /\ writer \in Thread \cup {None}
    /\ missed \subseteq Hash \X Hash
    /\ fresh \in [Thread -> SUBSET Hash]

\* The transaction of index_tree writes a ref, a tree and its blobs.
LEMMA IndexDatabases ==
    ASSUME TypeInv, NEW th \in Thread, index_tree(th)
    PROVE  Databases'
<1>1. PICK t \in Task : t = tasks[th] /\ Good(th, t, pins)
    BY CurrentTask
<1>2. t.key \in Key /\ t.root \in Hash /\ t.seen \in SUBSET Hash
    BY <1>1 DEF index_tree, Step, Good, Purpose, Task
<1>3. Priority[t.key] \in {0, 1}
    BY <1>2, PriorityAssumption
<1>4. blobTrees' = blobTrees \cup (t.seen \X {t.root})
    BY <1>1 DEF index_tree
<1>5. treeMeta' = [treeMeta EXCEPT ![t.root] = Priority[t.key]]
    BY <1>1 DEF index_tree
<1>6. treeRefs' = [treeRefs EXCEPT ![t.key] = t.root] /\ UNCHANGED <<store, pins, owners, writer>>
    BY <1>1 DEF index_tree
<1>7. missed' \subseteq Hash \X Hash
    <2>1. missed' = {x \in missed : x[2] # t.root} \cup ((Blobs(t.root) \ t.seen) \X {t.root})
        BY <1>1 DEF index_tree
    <2>2. Blobs(t.root) \subseteq Hash
        BY DEF Blobs, Nodes, Reached
    <2>3. (Blobs(t.root) \ t.seen) \X {t.root} \subseteq Hash \X Hash
        BY <1>2, <2>2
    <2> QED BY <2>1, <2>3 DEF TypeInv, TypeOK
<1>8. fresh' \in [Thread -> SUBSET Hash]
    <2>1. fresh' = [u \in Thread |-> IF tasks[u].at = "sweep" THEN fresh[u] \cup (t.seen \cap tasks[u].pending)
                                     ELSE fresh[u]]
        BY <1>1 DEF index_tree
    <2>2. fresh \in [Thread -> SUBSET Hash]
        BY DEF TypeInv, TypeOK
    <2> QED BY <1>2, <2>1, <2>2
<1> QED BY <1>2, <1>3, <1>4, <1>5, <1>6, <1>7, <1>8 DEF TypeInv, TypeOK, Databases

\* The other operations under way.
LEMMA RunDatabases ==
    ASSUME TypeInv, NEW th \in Thread, Runs(th)
    PROVE  Databases'
<1>1. PICK t \in Task : t = tasks[th] /\ Good(th, t, pins)
    BY CurrentTask
<1>2. Databases
    BY DEF TypeInv, TypeOK, Databases
<1>3. CASE UNCHANGED <<content, writer>>
    BY <1>2, <1>3 DEF Databases, content, noted
<1>4. CASE fetch_chunk(th)
    <2>1. UNCHANGED <<pins, blobTrees, treeMeta, treeRefs, owners, missed, fresh, writer>>
        BY <1>4 DEF fetch_chunk, content, noted
    <2>2. \A h \in tasks[th].pending : h \in Hash
        BY <1>1 DEF Task
    <2>3. store' \subseteq Hash
        BY <1>2, <1>4, <2>2 DEF fetch_chunk, content, Databases
    <2> QED BY <1>2, <2>1, <2>3 DEF Databases
<1>5. CASE unindex_delete(th)
    BY <1>2, <1>5 DEF unindex_delete, Databases, noted
<1>6. CASE unindex_commit(th)
    <2>1. treeMeta' = [treeMeta EXCEPT ![tasks[th].old] = None] /\ writer' = None
        BY <1>6 DEF unindex_commit
    <2>2. blobTrees' \subseteq blobTrees /\ UNCHANGED <<store, pins, treeRefs, owners, missed, fresh>>
        BY <1>6 DEF unindex_commit, noted
    <2> QED BY <1>2, <2>1, <2>2 DEF Databases
<1>7. CASE sweep(th)
    BY <1>2, <1>7 DEF sweep, Databases, noted
<1>8. ASSUME NEW h \in Hash, put_blob(th, h) PROVE Databases'
    BY <1>2, <1>8 DEF put_blob, Databases, noted
<1>9. CASE pin_added(th)
    <2>1. t.root \in Hash
        BY <1>1, <1>9 DEF pin_added, Good, Purpose
    <2> QED BY <1>1, <1>2, <1>9, <2>1 DEF pin_added, Databases, noted
<1>10. CASE set_blob_owner(th)
    <2>1. t.root \in Hash /\ t.user \in Pubkey
        BY <1>1, <1>10 DEF set_blob_owner, Step, Good, Purpose
    <2> QED BY <1>1, <1>2, <1>10, <2>1 DEF set_blob_owner, Databases, noted
<1>11. CASE disown_commit(th)
    BY <1>2, <1>11 DEF disown_commit, Databases, noted
<1>12. CASE fetched(th) \/ index_replace(th) \/ index_collect(th)
    BY <1>3, <1>12 DEF fetched, index_replace, index_collect, Ends
<1>13. CASE evict_if_needed(th) \/ gc_list(th) \/ gc_end(th)
    BY <1>3, <1>13 DEF evict_if_needed, gc_list, gc_end, Ends
<1>14. CASE evict_rank(th) \/ evict_tree(th)
    BY <1>3, <1>14 DEF evict_rank, evict_tree, Ends
<1>15. CASE evict_orphaned_blobs(th)
    BY <1>2, <1>15 DEF evict_orphaned_blobs, Databases
<1>16. CASE delete_blossom_blob(th)
    <2>1. store' \subseteq store /\ owners' \subseteq owners /\ writer' \in {writer, th}
        BY <1>16 DEF delete_blossom_blob
    <2>2. UNCHANGED <<pins, blobTrees, treeMeta, treeRefs, missed, fresh>>
        BY <1>16 DEF delete_blossom_blob, noted
    <2> QED BY <1>2, <2>1, <2>2 DEF Databases
<1> QED BY <1>4, <1>5, <1>6, <1>7, <1>8, <1>9, <1>10, <1>11, <1>12, <1>13, <1>14, <1>15, <1>16, IndexDatabases
       DEF Runs

\* Every step keeps the types of the databases.
LEMMA NextDatabases ==
    ASSUME TypeInv, [Next]_vars
    PROVE  Databases'
<1>1. Databases
    BY DEF TypeInv, TypeOK, Databases
<1>2. CASE UNCHANGED <<content, writer>>
    BY <1>1, <1>2 DEF Databases, content, noted
<1>3. ASSUME NEW h \in Hash, pin(h) \/ unpin(h) PROVE Databases'
    BY <1>1, <1>3 DEF pin, unpin, Databases, noted
<1>5. CASE Crash
    BY <1>1, <1>5 DEF Crash, content, Databases, noted
<1>6. CASE UNCHANGED vars
    BY <1>2, <1>6 DEF vars
<1>7. ASSUME NEW k \in Key, NEW h \in Hash, handle_tree_event(k, h) PROVE Databases'
    BY <1>2, <1>7 DEF handle_tree_event
<1>8. ASSUME NEW th \in Thread,
             \/ dispatch(th) \/ eviction_timer(th) \/ gc_pins(th)
             \/ \E k \in Key, h \in Hash : add(th, k, h)
             \/ \E h \in Hash, u \in Pubkey \cup {None} : store_blossom_blob(th, h, u)
             \/ \E h \in Hash, u \in Pubkey : is_blob_owner(th, h, u)
      PROVE  Databases'
    BY <1>2, <1>8 DEF dispatch, eviction_timer, gc_pins, add, store_blossom_blob, is_blob_owner, Starts
<1> QED BY <1>3, <1>5, <1>6, <1>7, <1>8, RunDatabases DEF Next

\* The subscriptions and the inputs are counted as they come.
LEMMA NextInputs ==
    ASSUME TypeInv, [Next]_vars
    PROVE  subscriptions' \in [Key -> Hash \cup {None}] /\ inputs' \in 0 .. MaxInputs
<1>1. subscriptions \in [Key -> Hash \cup {None}] /\ inputs \in 0 .. MaxInputs /\ MaxInputs \in Nat
    BY BoundsAssumption DEF TypeInv, TypeOK
<1>2. Input => inputs' \in 0 .. MaxInputs
    BY <1>1 DEF Input
<1>3. ASSUME NEW th \in Thread, Runs(th) PROVE UNCHANGED <<subscriptions, inputs>>
    BY <1>3 DEF Runs, fetch_chunk, fetched, index_replace, index_collect, index_tree, unindex_delete,
       unindex_commit, evict_if_needed, evict_orphaned_blobs, gc_list, sweep, gc_end, evict_rank,
       evict_tree, put_blob, pin_added, set_blob_owner, delete_blossom_blob, disown_commit, Ends, sync
<1>4. ASSUME NEW k \in Key, NEW h \in Hash, handle_tree_event(k, h)
      PROVE  subscriptions' \in [Key -> Hash \cup {None}] /\ Input
    BY <1>1, <1>4 DEF handle_tree_event
<1>5. ASSUME NEW th \in Thread, dispatch(th) PROVE UNCHANGED <<subscriptions, inputs>>
    BY <1>5 DEF dispatch
<1>6. ASSUME \/ \E th \in Thread :
                \/ eviction_timer(th) \/ gc_pins(th)
                \/ \E k \in Key, h \in Hash : add(th, k, h)
                \/ \E h \in Hash, u \in Pubkey \cup {None} : store_blossom_blob(th, h, u)
                \/ \E h \in Hash, u \in Pubkey : is_blob_owner(th, h, u)
             \/ \E h \in Hash : pin(h) \/ unpin(h)
      PROVE  UNCHANGED subscriptions /\ Input
    BY <1>6 DEF eviction_timer, gc_pins, add, store_blossom_blob, is_blob_owner, pin, unpin, Starts, sync
<1>7. Crash => subscriptions' \in [Key -> Hash \cup {None}] /\ Input
    BY DEF Crash
<1>8. UNCHANGED vars => UNCHANGED <<subscriptions, inputs>>
    BY DEF vars, sync
<1> QED BY <1>1, <1>2, <1>3, <1>4, <1>5, <1>6, <1>7, <1>8 DEF Next

\* Only roots are synced.
LEMMA NextSyncing ==
    ASSUME TypeInv, [Next]_vars
    PROVE  syncing' \subseteq Hash
<1>1. syncing \subseteq Hash
    BY DEF TypeInv, TypeOK
<1>2. ASSUME NEW th \in Thread, NEW new, Started(th, new) PROVE syncing' \subseteq Hash
    BY <1>1, <1>2 DEF Started, Good, SyncTask
<1>3. ASSUME NEW th \in Thread, NEW new, Ran(th, new) PROVE syncing' \subseteq Hash
    BY <1>1, <1>3 DEF Ran
<1> QED BY <1>1, <1>2, <1>3, StepKinds

\* Every step keeps the types.
LEMMA NextTypes == TypeInv /\ QueueInv /\ [Next]_vars => TypeInv' /\ QueueInv'
<1> SUFFICES ASSUME TypeInv, QueueInv, [Next]_vars PROVE TypeInv' /\ QueueInv'
    OBVIOUS
<1>1. QueueInv'
    BY NextKeepsQueue
<1>2. queue' \in Seq([key : Key, root : Hash])
    BY <1>1 DEF QueueInv, Waiting
<1> QED BY <1>1, <1>2, NextTasks, NextDatabases, NextInputs, NextSyncing DEF TypeInv, TypeOK, Databases

\* Nothing runs and nothing is stored at the start.
LEMMA InitTypes == Init => TypeInv /\ QueueInv
<1> SUFFICES ASSUME Init PROVE TypeInv /\ QueueInv
    OBVIOUS
<1>1. \A th \in Thread : Good(th, tasks[th], pins) /\ tasks[th] \in Task
    BY IdleGood DEF Init, Good
<1>2. TypeOK
    BY <1>1, BoundsAssumption DEF Init, TypeOK
<1> QED BY <1>1, <1>2 DEF TypeInv, TasksGood, QueueInv, OwnTreesFirst, Init

\* Every database and every thread keeps the type of its declaration
\* (storage.rs:469-498, sync.rs:33-121): an operation that resumes finds the ref,
\* root, tree or user it works on.
THEOREM StorageTypeCorrect == Spec => []TypeOK
<1>1. TypeInv => TypeOK
    BY DEF TypeInv
<1> QED BY <1>1, InitTypes, NextTypes, PTL DEF Spec

-----------------------------------------------------------------------------
(* One task for a root.                                                    *)

\* OneSyncPerRoot, said of each hash and worker.
LEMMA SyncingMeans ==
    ASSUME NEW ts, NEW s
    PROVE  s = {ts[th].root : th \in {w \in Worker : ts[w].at # "idle"}}
              <=> \A h : h \in s <=> \E w \in Worker : ts[w].at # "idle" /\ ts[w].root = h
<1> DEFINE R == {ts[th].root : th \in {w \in Worker : ts[w].at # "idle"}}
<1>1. \A h : h \in R <=> \E w \in Worker : ts[w].at # "idle" /\ ts[w].root = h
    OBVIOUS
<1> HIDE DEF R
<1>2. s = R <=> \A h : h \in s <=> h \in R
    OBVIOUS
<1> QED BY <1>1, <1>2 DEF R

\* A worker that has nothing to do has no root; one that has something, has.
LEMMA WorkerRoots ==
    ASSUME TypeInv, NEW w \in Worker
    PROVE  /\ w \in Thread
           /\ tasks[w].at = "idle" => tasks[w].root = None
           /\ tasks[w].at # "idle" => tasks[w].root \in Hash
<1>1. w \in Thread
    BY DEF Thread
<1>2. Good(w, tasks[w], pins)
    BY <1>1 DEF TypeInv, TasksGood
<1> QED BY <1>1, <1>2, IdleGood DEF Good, Purpose, SyncTask

\* Every step keeps one task for a root.
LEMMA NextSync == TypeInv /\ OneSyncPerRoot /\ [Next]_vars => OneSyncPerRoot'
<1> SUFFICES ASSUME TypeInv, OneSyncPerRoot, [Next]_vars PROVE OneSyncPerRoot'
    OBVIOUS
<1> DEFINE Busy(w) == tasks[w].at # "idle"
           Busy2(w) == tasks'[w].at # "idle"
<1>1. /\ \A h : h \in syncing <=> \E w \in Worker : Busy(w) /\ tasks[w].root = h
      /\ \A v, w \in Worker : Busy(v) /\ tasks[v].root = tasks[w].root => v = w
    BY SyncingMeans DEF OneSyncPerRoot
<1>2. SUFFICES /\ \A h : h \in syncing' <=> \E w \in Worker : Busy2(w) /\ tasks'[w].root = h
               /\ \A v, w \in Worker : Busy2(v) /\ tasks'[v].root = tasks'[w].root => v = w
    BY SyncingMeans DEF OneSyncPerRoot
<1> DEFINE Goal == /\ \A h : h \in syncing' <=> \E w \in Worker : Busy2(w) /\ tasks'[w].root = h
                   /\ \A v, w \in Worker : Busy2(v) /\ tasks'[v].root = tasks'[w].root => v = w
<1>3. ASSUME UNCHANGED syncing,
             \A w \in Worker : tasks'[w].root = tasks[w].root /\ (Busy2(w) <=> Busy(w))
      PROVE  Goal
    BY <1>1, <1>3
<1>4. tasks \in [Thread -> Task] /\ Worker \subseteq Thread
    BY DEF TypeInv, TypeOK, Thread
<1>5. CASE UNCHANGED <<tasks, syncing>>
    BY <1>3, <1>5
<1>6. CASE /\ UNCHANGED syncing
           /\ (\E th \in Thread : pin_added(th)) \/ (\E h \in Hash : pin(h))
    <2>1. \A th \in Thread : tasks'[th].root = tasks[th].root /\ (Busy2(th) <=> Busy(th))
        BY <1>6, PinGood
    <2> QED BY <1>3, <1>4, <1>6, <2>1
<1>7. CASE tasks' = [th \in Thread |-> Idle] /\ syncing' = {}
    <2>1. \A w \in Worker : ~Busy2(w)
        BY <1>4, <1>7, IdleGood
    <2> QED BY <1>7, <2>1
<1>8. ASSUME NEW th \in Thread, NEW new, Ran(th, new) PROVE Goal
    <2>1. /\ \A u \in Thread : tasks'[u] = IF u = th THEN new ELSE tasks[u]
          /\ Busy(th)
        BY <1>4, <1>8 DEF Ran
    <2>2. CASE th \notin Worker
        <3>1. UNCHANGED syncing
            BY <1>8, <2>2 DEF Ran
        <3>2. \A w \in Worker : tasks'[w] = tasks[w]
            BY <1>4, <2>1, <2>2
        <3> QED BY <1>3, <3>1, <3>2
    <2>3. CASE th \in Worker /\ new.at # "idle"
        <3>1. UNCHANGED syncing /\ new.root = tasks[th].root
            BY <1>8, <2>3 DEF Ran
        <3>2. \A w \in Worker : tasks'[w].root = tasks[w].root /\ (Busy2(w) <=> Busy(w))
            BY <1>4, <2>1, <2>3, <3>1
        <3> QED BY <1>3, <3>1, <3>2
    <2>4. CASE th \in Worker /\ new.at = "idle"
        <3>1. syncing' = syncing \ {tasks[th].root}
            BY <1>8, <2>4 DEF Ran
        <3>2. \A w \in Worker : w # th => tasks'[w] = tasks[w]
            BY <1>4, <2>1
        <3>3. tasks'[th] = new /\ ~Busy2(th) /\ new.root = None
            <4>1. Good(th, new, pins)
                BY <1>8 DEF Ran
            <4> QED BY <2>1, <2>4, <4>1, IdleGood DEF Good, Purpose
        <3>4. \A w \in Worker : w # th /\ Busy(w) => tasks[w].root # tasks[th].root
            BY <1>1, <2>4
        <3>5. \A h : h \in syncing' <=> \E w \in Worker : Busy2(w) /\ tasks'[w].root = h
            BY <1>1, <2>1, <2>4, <3>1, <3>2, <3>3, <3>4
        <3>6. \A v, w \in Worker : Busy2(v) /\ tasks'[v].root = tasks'[w].root => v = w
            <4> SUFFICES ASSUME NEW v \in Worker, NEW w \in Worker, Busy2(v),
                                tasks'[v].root = tasks'[w].root
                         PROVE  v = w
                OBVIOUS
            <4>1. v # th /\ tasks'[v] = tasks[v] /\ tasks[v].root \in Hash
                BY <3>2, <3>3, WorkerRoots
            <4>2. w # th
                BY <3>3, <4>1, NoneAssumption
            <4> QED BY <1>1, <3>2, <4>1, <4>2
        <3> QED BY <3>5, <3>6
    <2> QED BY <2>2, <2>3, <2>4
<1>9. ASSUME NEW th \in Thread, NEW new, Started(th, new) PROVE Goal
    <2>1. \A u \in Thread : tasks'[u] = IF u = th THEN new ELSE tasks[u]
        BY <1>4, <1>9 DEF Started
    <2>2. CASE th \notin Worker
        <3>1. UNCHANGED syncing
            BY <1>9, <2>2 DEF Started
        <3>2. \A w \in Worker : tasks'[w] = tasks[w]
            BY <1>4, <2>1, <2>2
        <3> QED BY <1>3, <3>1, <3>2
    <2>3. CASE th \in Worker
        <3>1. /\ new.at # "idle" /\ new.root \notin syncing /\ syncing' = syncing \cup {new.root}
              /\ ~Busy(th)
            BY <1>9, <2>3 DEF Started
        <3>2. new.root \in Hash
            BY <1>9, <2>3, <3>1 DEF Started, Good, SyncTask
        <3>3. tasks'[th] = new /\ \A w \in Worker : w # th => tasks'[w] = tasks[w]
            BY <1>4, <2>1
        <3>4. \A h : h \in syncing' <=> \E w \in Worker : Busy2(w) /\ tasks'[w].root = h
            BY <1>1, <2>3, <3>1, <3>3
        <3>5. \A v, w \in Worker : Busy2(v) /\ tasks'[v].root = tasks'[w].root => v = w
            <4> SUFFICES ASSUME NEW v \in Worker, NEW w \in Worker, Busy2(v), v # w,
                                tasks'[v].root = tasks'[w].root
                         PROVE  FALSE
                OBVIOUS
            <4>1. CASE v = th
                <5>1. tasks[w].root = new.root
                    BY <3>3, <4>1
                <5>2. Busy(w)
                    BY <3>2, <5>1, WorkerRoots, NoneAssumption
                <5> QED BY <1>1, <3>1, <5>1, <5>2
            <4>2. CASE w = th
                BY <1>1, <3>1, <3>3, <4>2
            <4>3. CASE v # th /\ w # th
                BY <1>1, <3>3, <4>3
            <4> QED BY <4>1, <4>2, <4>3
        <3> QED BY <3>4, <3>5
    <2> QED BY <2>2, <2>3
<1>10. Goal
    BY <1>5, <1>6, <1>7, <1>8, <1>9, StepKinds
<1> QED BY <1>10

\* The syncing set names exactly the roots the running tasks work on, and no two
\* tasks work on the same root (sync.rs:223-231, 291), through fetches, indexing,
\* evictions and crashes, for any number of workers, refs and trees.
THEOREM RootsAreSyncedOnce == Spec => []OneSyncPerRoot
<1>1. Init => OneSyncPerRoot
    <2> SUFFICES ASSUME Init PROVE OneSyncPerRoot
        OBVIOUS
    <2>1. \A w \in Worker : tasks[w] = Idle /\ tasks[w].at = "idle"
        BY IdleGood DEF Init, Thread
    <2>2. syncing = {tasks[th].root : th \in {w \in Worker : tasks[w].at # "idle"}}
        BY <2>1 DEF Init
    <2> QED BY <2>1, <2>2 DEF OneSyncPerRoot
<1> QED BY <1>1, InitTypes, NextTypes, NextSync, PTL DEF Spec

-----------------------------------------------------------------------------
(* What is deleted.                                                        *)

\* The steps that delete blobs.
LEMMA Deleters ==
    ASSUME [Next]_vars, NEW h \in store \ store'
    PROVE  \E th \in Thread : unindex_delete(th) \/ sweep(th) \/ delete_blossom_blob(th)
<1>1. ASSUME NEW th \in Thread, Runs(th) PROVE unindex_delete(th) \/ sweep(th) \/ delete_blossom_blob(th)
    BY <1>1 DEF Runs, fetch_chunk, fetched, index_replace, index_collect, index_tree,
       unindex_commit, evict_if_needed, evict_orphaned_blobs, gc_list, gc_end, evict_rank,
       evict_tree, put_blob, pin_added, set_blob_owner, disown_commit, Ends, content
<1> QED BY <1>1 DEF Next, handle_tree_event, dispatch, eviction_timer, gc_pins, add, store_blossom_blob,
       is_blob_owner, pin, unpin, Crash, Starts, content, vars

\* The steps that change the index.
LEMMA Indexers ==
    ASSUME [Next]_vars
    PROVE  /\ \/ UNCHANGED <<blobTrees, treeMeta, missed>>
              \/ \E th \in Thread : index_tree(th) \/ unindex_commit(th)
           /\ \/ UNCHANGED fresh
              \/ \E th \in Thread : index_tree(th) \/ evict_orphaned_blobs(th)
<1>1. ASSUME NEW th \in Thread, Runs(th)
      PROVE  /\ UNCHANGED <<blobTrees, treeMeta, missed>> \/ index_tree(th) \/ unindex_commit(th)
             /\ UNCHANGED fresh \/ index_tree(th) \/ evict_orphaned_blobs(th)
    BY <1>1 DEF Runs, fetch_chunk, fetched, index_replace, index_collect, unindex_delete, unindex_commit,
       evict_if_needed, evict_orphaned_blobs, gc_list, sweep, gc_end, evict_rank, evict_tree, put_blob,
       pin_added, set_blob_owner, delete_blossom_blob, disown_commit, Ends, content, noted
<1>2. ASSUME ~\E th \in Thread : Runs(th) PROVE UNCHANGED <<blobTrees, treeMeta, missed, fresh>>
    BY <1>2 DEF Next, handle_tree_event, dispatch, eviction_timer, gc_pins, add, store_blossom_blob,
       is_blob_owner, pin, unpin, Crash, Starts, content, noted, vars
<1> QED BY <1>1, <1>2

\* The entries of an indexed tree name its blobs, except those that were not there
\* when it was indexed.
Indexed ==
    \A t \in Hash : treeMeta[t] # None =>
        \A b \in Blobs(t) : <<b, t>> \in blobTrees \cup missed

\* index_tree writes all the entries; unindex_tree takes the tree with them.
LEMMA NextIndexed == TypeInv /\ Indexed /\ [Next]_vars => Indexed'
<1> SUFFICES ASSUME TypeInv, Indexed, [Next]_vars PROVE Indexed'
    OBVIOUS
<1>0. treeMeta \in [Hash -> {None, 0, 1}]
    BY DEF TypeInv, TypeOK
<1>1. CASE UNCHANGED <<blobTrees, treeMeta, missed>>
    BY <1>1 DEF Indexed, Blobs, Nodes, Reached
<1>2. ASSUME NEW th \in Thread, index_tree(th) PROVE Indexed'
    <2>1. PICK t \in Task : t = tasks[th] /\ Good(th, t, pins)
        BY CurrentTask
    <2>2. t.root \in Hash
        BY <1>2, <2>1 DEF index_tree, Step, Good, Purpose
    <2>3. /\ blobTrees' = blobTrees \cup (t.seen \X {t.root})
          /\ treeMeta' = [treeMeta EXCEPT ![t.root] = Priority[t.key]]
          /\ missed' = {x \in missed : x[2] # t.root} \cup ((Blobs(t.root) \ t.seen) \X {t.root})
        BY <1>2, <2>1 DEF index_tree
    <2>4. ASSUME NEW r \in Hash, treeMeta'[r] # None, NEW b \in Blobs(r)
          PROVE  <<b, r>> \in blobTrees' \cup missed'
        <3>1. CASE r = t.root
            BY <2>3, <2>4, <3>1
        <3>2. CASE r # t.root
            <4>1. <<b, r>> \in blobTrees \cup missed
                BY <1>0, <2>3, <2>4, <3>2 DEF Indexed
            <4> QED BY <2>3, <3>2, <4>1
        <3> QED BY <3>1, <3>2
    <2>5. \A r : Blobs(r)' = Blobs(r)
        BY DEF Blobs, Nodes, Reached
    <2> QED BY <2>4, <2>5 DEF Indexed
<1>3. ASSUME NEW th \in Thread, unindex_commit(th) PROVE Indexed'
    <2>1. PICK t \in Task : t = tasks[th] /\ Good(th, t, pins)
        BY CurrentTask
    <2>2. /\ blobTrees' = blobTrees \ (t.seen \X {t.old})
          /\ treeMeta' = [treeMeta EXCEPT ![t.old] = None]
          /\ missed' = missed
        BY <1>3, <2>1 DEF unindex_commit, noted
    <2>3. ASSUME NEW r \in Hash, treeMeta'[r] # None, NEW b \in Blobs(r)
          PROVE  <<b, r>> \in blobTrees' \cup missed'
        <3>1. r # t.old /\ treeMeta[r] # None
            BY <1>0, <2>2, <2>3
        <3>2. <<b, r>> \in blobTrees \cup missed
            BY <2>3, <3>1 DEF Indexed
        <3> QED BY <2>2, <3>1, <3>2
    <2>4. \A r : Blobs(r)' = Blobs(r)
        BY DEF Blobs, Nodes, Reached
    <2> QED BY <2>3, <2>4 DEF Indexed
<1> QED BY <1>1, <1>2, <1>3, Indexers

\* What the step of PinnedIsKept says of one blob.
KeptPinned(h) ==
    \E th \in Thread :
        /\ tasks'[th] # tasks[th]
        /\ \/ tasks[th].at = "delete"
           \/ h \in tasks[th].late
           \/ /\ tasks[th].at = "unindex"
              /\ IF h = tasks[th].old THEN tasks[th].return = "collect"
                 ELSE treeMeta[tasks[th].old] = None \/ <<h, tasks[th].old>> \in missed

\* unindex_tree goes on to the commit of its deletions.
LEMMA UnindexMoves ==
    ASSUME TypeInv, NEW th \in Thread, unindex_delete(th)
    PROVE  tasks[th].at = "unindex" /\ tasks'[th] # tasks[th] /\ store' = store \ Orphans(tasks[th])
<1>1. PICK t \in Task : t = tasks[th] /\ Good(th, t, pins)
    BY CurrentTask
<1>2. t.at = "unindex" /\ store' = store \ Orphans(t)
    BY <1>1 DEF unindex_delete, Step
<1> DEFINE new(n) == [t EXCEPT !.at = "commit", !.size = n]
<1>3. \A n : new(n).at = "commit"
    BY DEF Task
<1>4. \E n : tasks' = [tasks EXCEPT ![th] = new(n)]
    BY <1>1 DEF unindex_delete, Step
<1> HIDE DEF new
<1>5. tasks'[th].at = "commit"
    BY <1>3, <1>4 DEF TypeInv, TypeOK
<1> QED BY <1>1, <1>2, <1>5

\* A sweep deletes one hash of its list, and takes it off.
LEMMA SweepMoves ==
    ASSUME TypeInv, NEW th \in Thread, sweep(th)
    PROVE  \E k \in tasks[th].pending :
                /\ tasks[th].at \in {"sweep", "gcsweep"} /\ tasks'[th] # tasks[th]
                /\ store' = store \ {k}
<1>1. PICK t \in Task : t = tasks[th] /\ Good(th, t, pins)
    BY CurrentTask
<1>2. PICK k \in t.pending :
        /\ \/ Step(th, "sweep", [t EXCEPT !.pending = @ \ {k},
                                          !.size = Minus(@, Cardinality({k} \cap store))])
           \/ Step(th, "gcsweep", [t EXCEPT !.pending = @ \ {k}])
        /\ store' = store \ {k}
    BY <1>1 DEF sweep
<1>3. t.at \in {"sweep", "gcsweep"}
    BY <1>1, <1>2 DEF Step
<1> DEFINE one(n) == [t EXCEPT !.pending = @ \ {k}, !.size = n]
           two == [t EXCEPT !.pending = @ \ {k}]
<1>4. two.pending = t.pending \ {k} /\ \A n : one(n).pending = t.pending \ {k}
    BY DEF Task
<1>5. tasks' = [tasks EXCEPT ![th] = two] \/ \E n : tasks' = [tasks EXCEPT ![th] = one(n)]
    BY <1>2 DEF Step
<1> HIDE DEF one, two
<1>6. tasks'[th].pending = t.pending \ {k}
    BY <1>4, <1>5 DEF TypeInv, TypeOK
<1>7. tasks'[th] # tasks[th]
    BY <1>1, <1>2, <1>6
<1> QED BY <1>1, <1>2, <1>3, <1>7

\* A deletion of the server moves on, whether or not others own the blob.
LEMMA DeleteMoves ==
    ASSUME TypeInv, NEW th \in Thread, delete_blossom_blob(th)
    PROVE  tasks[th].at = "delete" /\ tasks'[th] # tasks[th]
<1>1. PICK t \in Task : t = tasks[th] /\ Good(th, t, pins)
    BY CurrentTask
<1> DEFINE new == [t EXCEPT !.at = "disown"]
<1>2. new.at = "disown"
    BY DEF Task
<1>3. Step(th, "delete", Idle) \/ Step(th, "delete", new)
    BY <1>1 DEF delete_blossom_blob
<1> HIDE DEF new
<1>4. tasks'[th].at \in {"idle", "disown"} /\ tasks[th].at = "delete"
    BY <1>2, <1>3, IdleGood DEF Step, TypeInv, TypeOK
<1> QED BY <1>4

\* A step deletes a pinned blob in those ways only.
LEMMA StepKeepsPinned ==
    ASSUME TypeInv, Indexed, [Next]_vars, NEW h \in (store \ store') \cap pins
    PROVE  KeptPinned(h)
<1>1. ASSUME NEW th \in Thread, unindex_delete(th) PROVE KeptPinned(h)
    <2>1. PICK t \in Task : t = tasks[th] /\ Good(th, t, pins)
        BY CurrentTask
    <2>2. t.at = "unindex" /\ tasks'[th] # tasks[th] /\ h \in Orphans(t)
        BY <1>1, <2>1, UnindexMoves
    <2>3. t.return \in {"collect", "trees"} /\ t.old \in Hash /\ t.seen \subseteq Blobs(t.old)
        BY <2>1, <2>2 DEF Good, Purpose, Task
    <2>4. h = t.old /\ t.return = "trees" => h \in t.late
        BY <2>1, <2>2 DEF Good, Noticed
    <2>5. ASSUME h # t.old, treeMeta[t.old] # None PROVE <<h, t.old>> \in missed
        <3>1. h \in Blobs(t.old) /\ ~InTree(h)
            BY <2>2, <2>3, <2>5 DEF Orphans
        <3>2. <<h, t.old>> \notin blobTrees
            BY <2>3, <3>1 DEF InTree
        <3> QED BY <2>3, <2>5, <3>1, <3>2 DEF Indexed
    <2> QED BY <2>1, <2>2, <2>3, <2>4, <2>5 DEF KeptPinned
<1>2. ASSUME NEW th \in Thread, sweep(th) PROVE KeptPinned(h)
    <2>1. PICK t \in Task : t = tasks[th] /\ Good(th, t, pins)
        BY CurrentTask
    <2>2. PICK k \in tasks[th].pending :
                /\ tasks[th].at \in {"sweep", "gcsweep"} /\ tasks'[th] # tasks[th]
                /\ store' = store \ {k}
        BY <1>2, SweepMoves
    <2>3. h = k
        BY <2>2
    <2>4. h \in t.late
        BY <2>1, <2>2, <2>3 DEF Good, Noticed
    <2> QED BY <2>1, <2>2, <2>4 DEF KeptPinned
<1>3. ASSUME NEW th \in Thread, delete_blossom_blob(th) PROVE KeptPinned(h)
    BY <1>3, DeleteMoves DEF KeptPinned
<1> QED BY <1>1, <1>2, <1>3, Deleters

\* Nothing is indexed at the start.
LEMMA InitIndexed == Init => Indexed
BY DEF Init, Indexed

\* A pinned blob is deleted in five ways only, each named in the property: by
\* its last Blossom owner, by an operation that had read the pins before, as the
\* former version of a ref, as a blob that was not there when its tree was indexed,
\* or as a blob of a tree that another operation had unindexed.  The last two rest
\* on Indexed: while a tree is indexed its entries protect all its other blobs.  No
\* other order of evictions, collections, syncs, pins and crashes loses pinned
\* content.
THEOREM PinnedBlobsKept == Spec => PinnedIsKept
<1>1. TypeInv /\ Indexed /\ [Next]_vars => [\A h \in (store \ store') \cap pins :
        \E th \in Thread :
            /\ tasks'[th] # tasks[th]
            /\ \/ tasks[th].at = "delete"
               \/ h \in tasks[th].late
               \/ /\ tasks[th].at = "unindex"
                  /\ IF h = tasks[th].old THEN tasks[th].return = "collect"
                     ELSE treeMeta[tasks[th].old] = None \/ <<h, tasks[th].old>> \in missed]_vars
    BY StepKeepsPinned DEF KeptPinned
<1> QED BY <1>1, InitTypes, NextTypes, InitIndexed, NextIndexed, PTL DEF Spec, PinnedIsKept

\* What an eviction has left to sweep and is in a tree was indexed after the
\* eviction read the index.
Fresh ==
    \A th \in Thread : tasks[th].at = "sweep" =>
        \A h \in tasks[th].pending : InTree(h) => h \in fresh[th]

\* Where a thread that sweeps comes from.
LEMMA Sweeping ==
    ASSUME TypeInv, [Next]_vars, NEW th \in Thread, tasks'[th].at = "sweep"
    PROVE  \/ evict_orphaned_blobs(th)
           \/ tasks[th].at = "sweep" /\ tasks'[th].pending \subseteq tasks[th].pending
<1>0. tasks \in [Thread -> Task]
    BY DEF TypeInv, TypeOK
<1>1. ASSUME NEW u \in Thread, NEW new, Ran(u, new)
      PROVE  \/ evict_orphaned_blobs(th)
             \/ tasks[th].at = "sweep" /\ tasks'[th].pending \subseteq tasks[th].pending
    <2>1. tasks'[th] = IF th = u THEN new ELSE tasks[th]
        BY <1>0, <1>1 DEF Ran
    <2> QED BY <1>1, <2>1 DEF Ran
<1>2. ASSUME NEW u \in Thread, NEW new, Started(u, new)
      PROVE  tasks[th].at = "sweep" /\ tasks'[th].pending \subseteq tasks[th].pending
    <2>1. tasks'[th] = IF th = u THEN new ELSE tasks[th]
        BY <1>0, <1>2 DEF Started
    <2> QED BY <1>2, <2>1 DEF Started
<1>3. CASE tasks' = [u \in Thread |-> Idle]
    BY <1>3, IdleGood
<1> QED BY <1>1, <1>2, <1>3, StepKinds, PinGood

\* What index_tree writes while an eviction sweeps is fresh for it.
LEMMA NextFresh == TypeInv /\ Fresh /\ [Next]_vars => Fresh'
<1> SUFFICES ASSUME TypeInv, Fresh, [Next]_vars,
                    NEW th \in Thread, tasks'[th].at = "sweep", NEW h \in tasks'[th].pending, InTree(h)'
             PROVE  h \in fresh'[th]
    BY DEF Fresh
<1>0. tasks \in [Thread -> Task] /\ fresh \in [Thread -> SUBSET Hash]
    BY DEF TypeInv, TypeOK
<1>1. CASE evict_orphaned_blobs(th)
    <2>1. PICK t \in Task : t = tasks[th] /\ Good(th, t, pins)
        BY CurrentTask
    <2> DEFINE new == [t EXCEPT !.at = "sweep", !.pending = {k \in @ \ pins : ~InTree(k)}]
    <2>2. new.pending = {k \in t.pending \ pins : ~InTree(k)}
        BY DEF Task
    <2>3. tasks' = [tasks EXCEPT ![th] = new] /\ blobTrees' = blobTrees
        BY <1>1, <2>1 DEF evict_orphaned_blobs, Step
    <2> HIDE DEF new
    <2>4. ~InTree(h)
        BY <1>0, <2>2, <2>3
    <2> QED BY <2>3, <2>4 DEF InTree
<1>2. CASE tasks[th].at = "sweep" /\ tasks'[th].pending \subseteq tasks[th].pending
    <2>1. ~evict_orphaned_blobs(th)
        BY <1>2 DEF evict_orphaned_blobs, Step
    <2>2. fresh[th] \subseteq fresh'[th]
        <3>1. ASSUME NEW u \in Thread, evict_orphaned_blobs(u) PROVE fresh'[th] = fresh[th]
            BY <1>0, <2>1, <3>1 DEF evict_orphaned_blobs
        <3>2. ASSUME NEW u \in Thread, index_tree(u) PROVE fresh[th] \subseteq fresh'[th]
            BY <1>0, <3>2 DEF index_tree
        <3> QED BY <3>1, <3>2, Indexers
    <2>3. CASE InTree(h)
        BY <1>2, <2>2, <2>3 DEF Fresh
    <2>4. CASE ~InTree(h)
        <3>1. PICK t \in Hash : <<h, t>> \in blobTrees' /\ <<h, t>> \notin blobTrees
            BY <2>4 DEF InTree
        <3>2. ASSUME NEW u \in Thread, unindex_commit(u) PROVE FALSE
            BY <3>1, <3>2 DEF unindex_commit
        <3>3. PICK u \in Thread : index_tree(u)
            BY <3>1, <3>2, Indexers
        <3>4. h \in tasks[u].seen
            BY <3>1, <3>3 DEF index_tree
        <3>5. fresh'[th] = fresh[th] \cup (tasks[u].seen \cap tasks[th].pending)
            BY <1>2, <3>3 DEF index_tree
        <3> QED BY <1>2, <3>4, <3>5
    <2> QED BY <2>3, <2>4
<1> QED BY <1>1, <1>2, Sweeping

\* What the step of IndexedIsKept says of one blob.
KeptIndexed(h) ==
    \E th \in Thread :
        /\ tasks'[th] # tasks[th]
        /\ \/ tasks[th].at \in {"delete", "gcsweep"}
           \/ tasks[th].at = "unindex" /\ h = tasks[th].old
           \/ tasks[th].at = "sweep" /\ h \in fresh[th]

\* A step deletes an indexed blob in those ways only.
LEMMA StepKeepsIndexed ==
    ASSUME TypeInv, Fresh, [Next]_vars, NEW h \in store \ store', InTree(h)
    PROVE  KeptIndexed(h)
<1>1. ASSUME NEW th \in Thread, unindex_delete(th) PROVE KeptIndexed(h)
    <2>1. tasks[th].at = "unindex" /\ tasks'[th] # tasks[th] /\ h \in Orphans(tasks[th])
        BY <1>1, UnindexMoves
    <2> QED BY <2>1 DEF Orphans, KeptIndexed
<1>2. ASSUME NEW th \in Thread, sweep(th) PROVE KeptIndexed(h)
    <2>1. PICK k \in tasks[th].pending :
                /\ tasks[th].at \in {"sweep", "gcsweep"} /\ tasks'[th] # tasks[th]
                /\ store' = store \ {k}
        BY <1>2, SweepMoves
    <2>2. h = k
        BY <2>1
    <2> QED BY <2>1, <2>2 DEF Fresh, KeptIndexed
<1>3. ASSUME NEW th \in Thread, delete_blossom_blob(th) PROVE KeptIndexed(h)
    BY <1>3, DeleteMoves DEF KeptIndexed
<1> QED BY <1>1, <1>2, <1>3, Deleters

\* A blob that an index entry names is deleted in four ways only, each named in
\* the property: by its last Blossom owner, by gc, as the root of the tree being
\* unindexed, or by an eviction that had read the index before the entry was
\* written.  That the sweep of an eviction deletes no other indexed blob rests on
\* Fresh, which relates the list it made to every tree indexed since, by any number
\* of threads.
THEOREM IndexedBlobsKept == Spec => IndexedIsKept
<1>1. TypeInv /\ Fresh /\ [Next]_vars => [\A h \in store \ store' : InTree(h) =>
        \E th \in Thread :
            /\ tasks'[th] # tasks[th]
            /\ \/ tasks[th].at \in {"delete", "gcsweep"}
               \/ tasks[th].at = "unindex" /\ h = tasks[th].old
               \/ tasks[th].at = "sweep" /\ h \in fresh[th]]_vars
    BY StepKeepsIndexed DEF KeptIndexed
<1>2. Init => Fresh
    BY IdleGood DEF Init, Fresh
<1> QED BY <1>1, <1>2, InitTypes, NextTypes, NextFresh, PTL DEF Spec, IndexedIsKept
===============================================================================

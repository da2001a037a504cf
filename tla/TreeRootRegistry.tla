--------------------------- MODULE TreeRootRegistry ---------------------------
(***************************************************************************)
(* The tree-root registry (ts/packages/hashtree-tree-root/src/index.ts):   *)
(* the one place where a browser session keeps, for every tree, the root   *)
(* hash it believes in.  Local writes are dirty until a debounced publish  *)
(* to the Nostr relay is acknowledged; roots heard from the resolver, the  *)
(* worker or a prefetch compete by timestamp.  The registry is single      *)
(* threaded, but a publish is an await: writes, deletes, updates, retries  *)
(* and restarts all interleave with publishes that are still in flight.    *)
(*                                                                         *)
(* Abstractions.  A content key is named by the root it opens (convergent  *)
(* encryption: one key per root), so key = h is "the key of root h".  The  *)
(* four visibility strings encryptedKey, keyId, selfEncryptedKey and       *)
(* selfEncryptedLinkKey follow the same assignments everywhere and are one *)
(* field, encryptedKey, whose value names the root whose key it wraps.     *)
(***************************************************************************)
EXTENDS Naturals, FiniteSets, Functions

CONSTANTS
    Accounts,       \* npubs that log in on this browser
    Names,          \* tree names
    Hashes,         \* root hashes
    Visibilities,   \* the values of TreeVisibility in use
    Waiters,        \* callers of resolve()
    Calls,          \* slots for publishes in flight
    None,           \* undefined / null
    PublishDelay,   \* publishDelay, in seconds
    RetryDelay,     \* retryDelay, in seconds
    MaxTime,        \* bound: last second of the clock
    MaxWrites,      \* bound: calls of setLocal
    MaxRemote,      \* bound: updates from resolver, worker and prefetch
    MaxDeletes,     \* bound: calls of deleteTree
    MaxRestarts,    \* bound: reloads of the page
    MaxSwitches,    \* bound: logouts and logins as another account
    Encrypted,      \* roots come with content keys
    SaveMayFail     \* localStorage.setItem may throw

ASSUME BoundsAssumption ==
    /\ PublishDelay \in Nat /\ RetryDelay \in Nat /\ MaxTime \in Nat
    /\ MaxWrites \in Nat /\ MaxRemote \in Nat
    /\ MaxDeletes \in Nat /\ MaxRestarts \in Nat /\ MaxSwitches \in Nat

ASSUME SwitchesAssumption ==
    {Encrypted, SaveMayFail} \subseteq BOOLEAN

ASSUME VisibilityAssumption == "public" \in Visibilities

\* makeKey(npub, treeName)
Trees == Accounts \X Names
Owner(k) == k[1]

Sources == {"local-write", "nostr", "prefetch", "worker"}

Record ==
    [ hash         : Hashes,
      key          : Hashes \cup {None},
      visibility   : Visibilities,
      updatedAt    : Nat,
      source       : Sources,
      dirty        : BOOLEAN,
      encryptedKey : Hashes \cup {None} ]

\* What a publish in flight holds: its snapshot of the record, how far it has
\* come, and the author and created_at it was signed with.
Call ==
    [ tree       : Trees,
      hash       : Hashes,
      visibility : Visibilities,
      phase      : {"preparing", "signed", "accepted"},
      author     : Accounts \cup {None},
      createdAt  : Nat ]

\* A kind-30078 event held by the relay; hash = None is a deletion.
Event ==
    [ tree       : Trees,
      hash       : Hashes \cup {None},
      visibility : Visibilities,
      createdAt  : Nat ]

ASSUME NoneAssumption ==
    /\ None \notin Hashes /\ None \notin Visibilities
    /\ None \notin Accounts /\ None \notin Trees
    /\ None \notin Record /\ None \notin Call /\ None \notin Nat

VARIABLES
    records,    \* records: the in-memory map
    persisted,  \* what localStorage holds
    timers,     \* publishTimers: the second each timer is due, or None
    publishFn,  \* publishFn is set
    inflight,   \* publishes awaiting the relay
    events,     \* every event the relay has accepted
    deleting,   \* trees that deleteTree has deleted here but not yet on the relay
    deletedAt,  \* history: created_at of the deletion sent since the last local
                \* write, if nothing of the tree was left to publish then
    stranded,   \* history: trees whose timer fired before setPublishFn
    user,       \* nostrStore: the npub logged in, or None
    waiting,    \* callers of resolve() and the tree each waits for
    now,        \* Math.floor(Date.now() / 1000)
    count       \* how often each bounded operation has happened

vars == <<records, persisted, timers, publishFn, inflight, events, deleting,
          deletedAt, stranded, user, waiting, now, count>>

Bounded == {"write", "remote", "delete", "restart", "switch"}
Limit == [b \in Bounded |->
            CASE b = "write" -> MaxWrites [] b = "remote" -> MaxRemote
              [] b = "delete" -> MaxDeletes [] b = "restart" -> MaxRestarts
              [] b = "switch" -> MaxSwitches]
\* One more operation of kind b, within its bound.
Spend(b) == count[b] < Limit[b] /\ count' = [count EXCEPT ![b] = @ + 1]

-----------------------------------------------------------------------------
\* x ?? y
Or(x, y) == IF x # None THEN x ELSE y

\* The clock stops at MaxTime; a timer set near the end is due at the end.
Due(delay) == IF now + delay <= MaxTime THEN now + delay ELSE MaxTime

\* this.persistence.save / delete: the whole map is written, or setItem throws
\* and localStorage keeps what it had.
Save(recs) ==
    \/ persisted' = recs
    \/ SaveMayFail /\ persisted' = persisted

\* Mutant: the listeners are not told.
Notify_Lost(k) == waiting' = waiting
\* notify(key, record): the listeners of resolve() take the first record.
Notify(k) == waiting' = [w \in Waiters |-> IF waiting[w] = k THEN None ELSE waiting[w]]

\* dirty: a local write that is not published yet.
Dirty(r) == r # None /\ r.dirty

FreeCalls == {c \in Calls : inflight[c] = None}

\* Mutants: a dirty record is replaced; an older update is taken.
shouldAcceptUpdate_Dirty(existing, hash, key, updatedAt) ==
    existing # None => existing.updatedAt <= updatedAt
shouldAcceptUpdate_AnyAge(existing, hash, key, updatedAt) ==
    existing # None => ~existing.dirty /\ existing.hash # hash

shouldAcceptUpdate(existing, hash, key, updatedAt) ==
    existing # None =>
        /\ ~existing.dirty
        /\ existing.updatedAt <= updatedAt
        /\ ~ /\ existing.updatedAt = updatedAt
             /\ existing.hash = hash
             /\ key = None \/ existing.key = key

mergeSameHashMetadata(existing, key, visibility, encryptedKey) ==
    [existing EXCEPT
        !.key = Or(@, key),
        !.visibility = IF @ = "public" THEN Or(visibility, @) ELSE @,
        !.encryptedKey = Or(@, encryptedKey)]

\* Mutant: the key of whatever root was there before is kept.
AcceptedRecord_AnyHash(existing, hash, key, visibility, updatedAt, source, encryptedKey) ==
    [ hash         |-> hash,
      key          |-> Or(key, IF existing # None THEN existing.key ELSE None),
      visibility   |-> Or(visibility, "public"),
      updatedAt    |-> updatedAt,
      source       |-> source,
      dirty        |-> FALSE,
      encryptedKey |-> encryptedKey ]

\* The record written when an update is accepted: what the update omits is
\* taken from the existing record only when that is the same root.
AcceptedRecord(existing, hash, key, visibility, updatedAt, source, encryptedKey) ==
    LET sameHash == existing # None /\ existing.hash = hash
    IN  [ hash         |-> hash,
          key          |-> Or(key, IF sameHash THEN existing.key ELSE None),
          visibility   |-> Or(visibility, "public"),
          updatedAt    |-> updatedAt,
          source       |-> source,
          dirty        |-> FALSE,
          encryptedKey |-> Or(encryptedKey,
                              IF sameHash THEN existing.encryptedKey ELSE None) ]

\* setFromExternal keeps the existing visibility and drops the wrapped key.
ExternalRecord(existing, hash, key, visibility, updatedAt) ==
    LET sameHash == existing # None /\ existing.hash = hash
    IN  [ hash         |-> hash,
          key          |-> Or(key, IF sameHash THEN existing.key ELSE None),
          visibility   |-> Or(visibility, IF existing = None THEN "public"
                                                             ELSE existing.visibility),
          updatedAt    |-> updatedAt,
          source       |-> "prefetch",
          dirty        |-> FALSE,
          encryptedKey |-> None ]

\* records.set, persistence.save and notify, in that order.
Write(k, record) ==
    LET recs == [records EXCEPT ![k] = record] IN
    /\ records' = recs
    /\ Save(recs)
    /\ Notify(k)

\* Replace the record, merge into it, or leave it: the three outcomes every
\* update from outside has.
ApplyUpdate(k, accepted, hash, key, visibility, updatedAt, encryptedKey) ==
    LET existing == records[k]
        merged   == mergeSameHashMetadata(existing, key, visibility, encryptedKey)
    IN  \/ /\ shouldAcceptUpdate(existing, hash, key, updatedAt)
           /\ Write(k, accepted)
        \/ /\ ~shouldAcceptUpdate(existing, hash, key, updatedAt)
           /\ ~existing.dirty /\ existing.hash = hash /\ merged # existing
           /\ Write(k, merged)


-----------------------------------------------------------------------------
Init ==
    /\ records = [k \in Trees |-> None]
    /\ persisted = [k \in Trees |-> None]
    /\ timers = [k \in Trees |-> None]
    /\ publishFn = FALSE
    /\ inflight = [c \in Calls |-> None]
    /\ events = {}
    /\ deleting = {}
    /\ deletedAt = [k \in Trees |-> None]
    /\ stranded = {}
    /\ user \in Accounts
    /\ waiting = [w \in Waiters |-> None]
    /\ now = 0
    /\ count = [b \in Bounded |-> 0]

\* Mutant: the first write of a tree has no default visibility.
LocalRecord_NoDefault(existing, hash, key, visibility, encryptedKey) ==
    [ hash         |-> hash,
      key          |-> key,
      visibility   |-> visibility,
      updatedAt    |-> now,
      source       |-> "local-write",
      dirty        |-> TRUE,
      encryptedKey |-> encryptedKey ]

\* setLocal: the record is dirty, what the options omit is carried over from
\* the existing record whatever its hash, and the publish timer starts again.
\* The app writes only trees of the account that is logged in.
LocalRecord(existing, hash, key, visibility, encryptedKey) ==
    [ hash         |-> hash,
      key          |-> key,
      visibility   |-> Or(visibility, IF existing = None THEN "public"
                                                         ELSE existing.visibility),
      updatedAt    |-> now,
      source       |-> "local-write",
      dirty        |-> TRUE,
      encryptedKey |-> Or(encryptedKey, IF existing = None THEN None
                                                           ELSE existing.encryptedKey) ]

schedulePublish(k, delay) == timers' = [timers EXCEPT ![k] = Due(delay)]

setLocal(k, hash, key, visibility, encryptedKey) ==
    /\ Owner(k) = user
    /\ Spend("write")
    /\ Write(k, LocalRecord(records[k], hash, key, visibility, encryptedKey))
    /\ schedulePublish(k, PublishDelay)
    /\ deletedAt' = [deletedAt EXCEPT ![k] = None]
    /\ stranded' = stranded \ {k}
    /\ UNCHANGED <<publishFn, inflight, events, deleting, user, now>>

\* setFromResolver and setFromWorker differ in the source they record.
setFromNostr(source, k, hash, key, visibility, updatedAt, encryptedKey) ==
    /\ Spend("remote")
    /\ ApplyUpdate(k, AcceptedRecord(records[k], hash, key, visibility,
                                     updatedAt, source, encryptedKey),
                   hash, key, visibility, updatedAt, encryptedKey)
    /\ UNCHANGED <<timers, publishFn, inflight, events, deleting, deletedAt,
                   stranded, user, now>>

setFromResolver(k, hash, key, visibility, updatedAt, encryptedKey) ==
    setFromNostr("nostr", k, hash, key, visibility, updatedAt, encryptedKey)

setFromWorker(k, hash, key, visibility, updatedAt, encryptedKey) ==
    setFromNostr("worker", k, hash, key, visibility, updatedAt, encryptedKey)

setFromExternal(k, hash, key, visibility, updatedAt) ==
    /\ records[k] # None => ~records[k].dirty
    /\ Spend("remote")
    /\ ApplyUpdate(k, ExternalRecord(records[k], hash, key, visibility, updatedAt),
                   hash, key, visibility, updatedAt, None)
    /\ UNCHANGED <<timers, publishFn, inflight, events, deleting, deletedAt,
                   stranded, user, now>>

mergeKey(k, hash) ==
    /\ records[k] # None /\ records[k].hash = hash /\ records[k].key = None
    /\ Write(k, [records[k] EXCEPT !.key = hash])
    /\ UNCHANGED <<timers, publishFn, inflight, events, deleting, deletedAt,
                   stranded, user, now, count>>

\* delete, which cancels the timer as cancelPendingPublish does; the listeners
\* of resolve() take no notice of a null record.
delete(k) ==
    /\ timers' = [timers EXCEPT ![k] = None]
    /\ LET recs == [records EXCEPT ![k] = None] IN records' = recs /\ Save(recs)

\* Mutant: the deletion carries the current second.
DeletionEvent_Now(k) ==
    [tree |-> <<user, k[2]>>, hash |-> None, visibility |-> "public", createdAt |-> now]

\* deleteTree, first part: cancelPendingPublish deletes the record and its timer.
\* Publishes already in flight are not stopped.
deleteTree(k) ==
    /\ Owner(k) = user
    /\ Spend("delete")
    /\ delete(k)
    /\ deleting' = deleting \cup {k}
    /\ stranded' = stranded \ {k}
    /\ UNCHANGED <<publishFn, inflight, events, deletedAt, user, waiting, now>>

\* resolver.delete stamps the deletion now + 1; it is signed, and so keyed, by
\* the account logged in.
DeletionEvent(k) ==
    [tree |-> <<user, k[2]>>, hash |-> None, visibility |-> "public",
     createdAt |-> now + 1]

\* Nothing of the tree is left to publish: no dirty record, in memory or saved,
\* and no publish that has yet to be stamped.
Quiet(k) ==
    /\ ~Dirty(records[k]) /\ ~Dirty(persisted[k])
    /\ \A c \in Calls : inflight[c] # None /\ inflight[c].tree = k
                            => inflight[c].phase # "preparing"

\* deleteTree after its imports: the resolver sends the deletion and does not
\* wait for it, so it may be lost; with nobody logged in nothing is sent.
sendDeletion(k) ==
    /\ k \in deleting
    /\ deleting' = deleting \ {k}
    /\ \/ /\ user # None
          /\ LET e == DeletionEvent(k) IN
             /\ events' = events \cup {e}
             /\ deletedAt' = [deletedAt EXCEPT
                    ![e.tree] = IF Quiet(e.tree) THEN e.createdAt ELSE None]
       \/ UNCHANGED <<events, deletedAt>>
    /\ UNCHANGED <<records, persisted, timers, publishFn, inflight, stranded,
                   user, waiting, now, count>>

\* resolve() with no record cached: a listener is left behind until a record
\* comes or the timeout does.
resolve(w, k) ==
    /\ waiting[w] = None /\ records[k] = None
    /\ waiting' = [waiting EXCEPT ![w] = k]
    /\ UNCHANGED <<records, persisted, timers, publishFn, inflight, events,
                   deleting, deletedAt, stranded, user, now, count>>

resolveTimeout(w) ==
    /\ waiting[w] # None
    /\ waiting' = [waiting EXCEPT ![w] = None]
    /\ UNCHANGED <<records, persisted, timers, publishFn, inflight, events,
                   deleting, deletedAt, stranded, user, now, count>>

setPublishFn ==
    /\ ~publishFn /\ publishFn' = TRUE
    /\ UNCHANGED <<records, persisted, timers, inflight, events, deleting,
                   deletedAt, stranded, user, waiting, now, count>>


-----------------------------------------------------------------------------
\* doPublish up to its await, for every tree of ks: trees with no record, a
\* clean record or no publishFn are dropped, the others start a publish that
\* holds a snapshot of the record.
NeedsPublish(k) == records[k] # None /\ records[k].dirty /\ publishFn

Snapshot(k) ==
    [ tree |-> k, hash |-> records[k].hash, visibility |-> records[k].visibility,
      phase |-> "preparing", author |-> None, createdAt |-> 0 ]

doPublish(ks) ==
    \E f \in Injection({k \in ks : NeedsPublish(k)}, FreeCalls) :
        inflight' = [c \in Calls |-> IF c \in Range(f)
                                     THEN Snapshot(CHOOSE k \in DOMAIN f : f[k] = c)
                                     ELSE inflight[c]]

\* The callback of schedulePublish's setTimeout.  Before setPublishFn it drops
\* the tree, and nothing schedules it again.
timerFires(k) ==
    /\ timers[k] # None /\ timers[k] <= now
    /\ timers' = [timers EXCEPT ![k] = None]
    /\ doPublish({k})
    /\ stranded' = IF Dirty(records[k]) /\ ~publishFn THEN stranded \cup {k} ELSE stranded
    /\ UNCHANGED <<records, persisted, publishFn, events, deleting, deletedAt, user,
                   waiting, now, count>>

flushPendingPublishes ==
    LET pending == {k \in Trees : timers[k] # None} IN
    /\ publishFn /\ pending # {}
    /\ timers' = [k \in Trees |-> None]
    /\ doPublish(pending)
    /\ UNCHANGED <<records, persisted, publishFn, events, deleting, deletedAt,
                   stranded, user, waiting, now, count>>

InFlight(c, phase) == inflight[c] # None /\ inflight[c].phase = phase

\* resolver.publish has prepared the tags (it may have asked a signer to
\* encrypt the key) and the event is signed: created_at is read here, and the
\* author is the account logged in, not the owner of the record.
signEvent(c) ==
    /\ InFlight(c, "preparing") /\ user # None
    /\ inflight' = [inflight EXCEPT
            ![c] = [@ EXCEPT !.phase = "signed", !.author = user, !.createdAt = now]]
    /\ UNCHANGED <<records, persisted, timers, publishFn, events, deleting,
                   deletedAt, stranded, user, waiting, now, count>>

\* publishFn keys the event with the author's npub and the record's tree name.
CallEvent(call) ==
    [ tree |-> <<call.author, call.tree[2]>>, hash |-> call.hash,
      visibility |-> call.visibility, createdAt |-> call.createdAt ]

relayAccepts(c) ==
    /\ InFlight(c, "signed")
    /\ events' = events \cup {CallEvent(inflight[c])}
    /\ inflight' = [inflight EXCEPT ![c].phase = "accepted"]
    /\ UNCHANGED <<records, persisted, timers, publishFn, deleting, deletedAt,
                   stranded, user, waiting, now, count>>

\* Mutants: the record is marked clean whatever was published; it is marked
\* clean in memory only.
MarkClean_Unchecked(call) ==
    LET recs == [records EXCEPT ![call.tree].dirty = FALSE] IN
    IF records[call.tree] # None
    THEN records' = recs /\ Save(recs)
    ELSE UNCHANGED <<records, persisted>>
MarkClean_Unsaved(call) ==
    LET recs == [records EXCEPT ![call.tree].dirty = FALSE] IN
    IF records[call.tree] # None /\ records[call.tree].hash = call.hash
    THEN records' = recs /\ UNCHANGED persisted
    ELSE UNCHANGED <<records, persisted>>

\* doPublish after its await, publishFn having returned true: the record is
\* clean if its hash is still the one that was published.
MarkClean(call) ==
    LET recs == [records EXCEPT ![call.tree].dirty = FALSE] IN
    IF records[call.tree] # None /\ records[call.tree].hash = call.hash
    THEN records' = recs /\ Save(recs)
    ELSE UNCHANGED <<records, persisted>>

publishSucceeds(c) ==
    /\ InFlight(c, "accepted")
    /\ MarkClean(inflight[c])
    /\ inflight' = [inflight EXCEPT ![c] = None]
    /\ UNCHANGED <<timers, publishFn, events, deleting, deletedAt, stranded,
                   user, waiting, now, count>>

\* Mutant: a failed publish is not tried again.
publishFails_NoRetry(c) ==
    /\ inflight[c] # None
    /\ inflight' = [inflight EXCEPT ![c] = None]
    /\ UNCHANGED <<records, persisted, timers, publishFn, events, deleting, deletedAt,
                   stranded, user, waiting, now, count>>

\* publishFn returned false or threw, whatever the relay has meanwhile done.
publishFails(c) ==
    /\ inflight[c] # None
    /\ inflight' = [inflight EXCEPT ![c] = None]
    /\ IF timers[inflight[c].tree] = None
       THEN schedulePublish(inflight[c].tree, RetryDelay)
       ELSE UNCHANGED timers
    /\ UNCHANGED <<records, persisted, publishFn, events, deleting, deletedAt,
                   stranded, user, waiting, now, count>>

\* logout and login: nothing is flushed, cancelled or reloaded.
switchAccount(a) ==
    /\ a # user /\ Spend("switch") /\ user' = a
    /\ UNCHANGED <<records, persisted, timers, publishFn, inflight, events,
                   deleting, deletedAt, stranded, waiting, now>>

tick ==
    /\ now < MaxTime
    /\ now' = now + 1
    /\ UNCHANGED <<records, persisted, timers, publishFn, inflight, events,
                   deleting, deletedAt, stranded, user, waiting, count>>

\* Mutant: dirty records are loaded but not scheduled.
hydrate_NoTimers ==
    /\ Spend("restart")
    /\ records' = persisted
    /\ timers' = [k \in Trees |-> None]
    /\ publishFn' = FALSE
    /\ inflight' = [c \in Calls |-> None]
    /\ waiting' = [w \in Waiters |-> None]
    /\ deleting' = {} /\ stranded' = {}
    /\ UNCHANGED <<persisted, events, deletedAt, user, now>>

\* The page goes away at any point and comes back: hydrate.
hydrate ==
    /\ Spend("restart")
    /\ records' = persisted
    /\ timers' = [k \in Trees |-> IF persisted[k] # None /\ persisted[k].dirty
                                  THEN Due(PublishDelay) ELSE None]
    /\ publishFn' = FALSE
    /\ inflight' = [c \in Calls |-> None]
    /\ waiting' = [w \in Waiters |-> None]
    /\ deleting' = {} /\ stranded' = {}
    /\ UNCHANGED <<persisted, events, deletedAt, user, now>>

-----------------------------------------------------------------------------
Times == 0 .. MaxTime
\* An option that may be omitted, naming a key of root h.
KeyOption(h) == IF Encrypted THEN {None, h} ELSE {None}
VisibilityOption == Visibilities \cup {None}

Next ==
    \/ \E k \in Trees, h \in Hashes, v \in VisibilityOption :
        \E key \in KeyOption(h), enc \in KeyOption(h) : setLocal(k, h, key, v, enc)
    \/ \E k \in Trees, h \in Hashes, v \in VisibilityOption, t \in Times :
        \E key \in KeyOption(h), enc \in KeyOption(h) :
            setFromResolver(k, h, key, v, t, enc)
    \/ \E k \in Trees, h \in Hashes, v \in VisibilityOption, t \in Times :
        \E key \in KeyOption(h), enc \in KeyOption(h) :
            setFromWorker(k, h, key, v, t, enc)
    \/ \E k \in Trees, h \in Hashes, v \in VisibilityOption, t \in Times :
        \E key \in KeyOption(h) : setFromExternal(k, h, key, v, t)
    \/ \E k \in Trees, h \in Hashes : mergeKey(k, h)
    \/ \E k \in Trees : deleteTree(k)
    \/ \E k \in Trees : sendDeletion(k)
    \/ \E w \in Waiters, k \in Trees : resolve(w, k)
    \/ \E w \in Waiters : resolveTimeout(w)
    \/ setPublishFn
    \/ \E k \in Trees : timerFires(k)
    \/ flushPendingPublishes
    \/ \E c \in Calls : signEvent(c)
    \/ \E c \in Calls : relayAccepts(c)
    \/ \E c \in Calls : publishSucceeds(c)
    \/ \E c \in Calls : publishFails(c)
    \/ \E a \in Accounts \cup {None} : switchAccount(a)
    \/ tick
    \/ hydrate

Spec == Init /\ [][Next]_vars

\* Timers fire, workers initialise, the clock runs; and a publish that is
\* attempted again and again is signed, accepted and acknowledged in the end.
Fairness ==
    /\ WF_vars(tick)
    /\ WF_vars(setPublishFn)
    /\ \A k \in Trees :
        /\ WF_vars(timerFires(k))
        /\ SF_vars(\E c \in Calls : inflight[c] # None /\ inflight[c].tree = k /\ signEvent(c))
        /\ SF_vars(\E c \in Calls : inflight[c] # None /\ inflight[c].tree = k /\ relayAccepts(c))
        /\ SF_vars(\E c \in Calls : inflight[c] # None /\ inflight[c].tree = k /\ publishSucceeds(c))

FairSpec == Spec /\ Fairness

-----------------------------------------------------------------------------
TypeOK ==
    /\ records \in [Trees -> Record \cup {None}]
    /\ persisted \in [Trees -> Record \cup {None}]
    /\ timers \in [Trees -> Nat \cup {None}]
    /\ publishFn \in BOOLEAN
    /\ inflight \in [Calls -> Call \cup {None}]
    /\ events \in SUBSET Event
    /\ deleting \in SUBSET Trees
    /\ deletedAt \in [Trees -> Nat \cup {None}]
    /\ stranded \in SUBSET Trees
    /\ user \in Accounts \cup {None}
    /\ waiting \in [Waiters -> Trees \cup {None}]
    /\ now \in Nat
    /\ count \in [Bounded -> Nat]

CleanWrite(r) == r # None /\ ~r.dirty /\ r.source = "local-write"

\* A local write is marked clean only when the relay has accepted an event
\* with that root for that tree (doPublish, "Mark as clean (published)"),
\* whatever writes, retries and restarts happened around the publish.
CleanHashWasPublished ==
    \A k \in Trees : CleanWrite(records[k]) =>
        \E e \in events : e.tree = k /\ e.hash = records[k].hash

\* A dirty record always has something that will publish it: a timer, or a
\* publish of that very root in flight ("dirty: Local writes pending publish").
\* One way alone leaves it with neither: its timer fired before setPublishFn,
\* and nothing schedules it again before the next write or reload.
DirtyIsPending ==
    \A k \in Trees : Dirty(records[k]) =>
        \/ timers[k] # None
        \/ \E c \in Calls : /\ inflight[c] # None
                            /\ inflight[c].tree = k
                            /\ inflight[c].hash = records[k].hash
        \/ k \in stranded

\* The key kept for a root is the key of that root: what an update omits is
\* never filled in from another root (sameHash in setFromResolver/Worker/External).
KeyMatchesHash ==
    \A k \in Trees : records[k] # None => records[k].key \in {None, records[k].hash}

\* No caller of resolve() is left waiting for a tree whose record is there:
\* every path that sets a record notifies.
WaiterNeverMissesRecord ==
    \A w \in Waiters : waiting[w] # None => records[waiting[w]] = None

\* A deletion sent when nothing of the tree was left to publish holds until the
\* next local write: it is strictly newer than every root published for the
\* tree, those accepted after it included ("Use now + 1 to ensure delete
\* timestamp is strictly higher than any create event").  A write between the
\* two halves of deleteTree, a publish not yet signed and a deletion that
\* localStorage did not take are outside it: each can bring the tree back.
DeletedStaysDeleted ==
    \A k \in Trees : deletedAt[k] # None =>
        \A e \in events : e.tree = k /\ e.hash # None => e.createdAt < deletedAt[k]

\* What a restart will find is what the registry holds: every path that
\* changes a record saves it, the one that marks it clean included.
SavedIsCurrent == persisted = records

\* A local write is eventually published, deleted, or lost with the page before
\* it was saved, unless its owner logs out or its timer fired before
\* setPublishFn: retries, overlapping publishes and restarts never leave it
\* dirty for good otherwise.
EventuallyPublished ==
    \A k \in Trees : Dirty(records[k]) ~>
        ~Dirty(records[k]) \/ user # Owner(k) \/ k \in stranded

\* The step is neither a local write, a deletion nor a restart.
NotLocal(k) ==
    /\ records[k] # None
    /\ \A b \in {"write", "delete", "restart"} : count'[b] = count[b]

\* No update from the resolver, the worker or a prefetch, and no publish that
\* completes, replaces a write that is still dirty.
DirtyNotOverwritten ==
    [][\A k \in Trees : NotLocal(k) /\ records[k].dirty =>
            /\ records'[k] # None
            /\ records'[k].hash = records[k].hash
            /\ records'[k].visibility = records[k].visibility
            /\ records'[k].updatedAt = records[k].updatedAt]_vars

\* Updates heard in any order never take a tree back in time, and never lose
\* the key of the root they keep.
NoRollback ==
    [][\A k \in Trees : NotLocal(k) =>
            /\ records'[k] # None
            /\ records'[k].updatedAt >= records[k].updatedAt
            /\ records'[k].hash = records[k].hash /\ records[k].key # None
                    => records'[k].key = records[k].key]_vars
=============================================================================

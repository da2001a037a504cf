# Verification of hashtree

hashtree is a content-addressed file system whose mutable names are Nostr events:
data is kept as Merkle trees of hashed (and usually encrypted) blobs, and a tree's
current root is published as a replaceable kind-30078 event under `npub/treeName`.
Browsers exchange blobs over WebRTC; a Rust daemon stores, mirrors and serves them.
The protocol is described in `docs/HTS-01.md`.

This directory holds TLA+ models of the parts where interleavings, failures and
restarts decide whether the system is correct, the TLC runs that check them on small
instances, and theorems TLAPS proves for every instance.

## Inventory

| Component | State | Operations | Interacts with | What is hard | What makes it correct |
|---|---|---|---|---|---|
| Tree-root registry (`ts/packages/hashtree-tree-root`) | record per tree, localStorage copy, publish timers, listeners | `setLocal`, `setFromResolver`, `setFromWorker`, `setFromExternal`, `mergeKey`, `delete`, `resolve`, `doPublish`, `flushPendingPublishes`, `hydrate` | publish function of the app, resolver, worker, localStorage | publishes in flight while records change; retries; reloads; updates in any order | dirty writes survive and get published; clean means published; no rollback; deleted stays deleted |
| Nostr resolver (`hashtree-nostr/src/resolver/nostr.ts`, `hashtree-resolver`) | subscriptions, list caches | `resolve`, `subscribe`, `publish`, `delete`, `list`, `injectListEntry`, `stop` | relays, signer, registry | late and duplicated events, optimistic updates before anything is sent, time stamps of a second | callbacks see the current root, lists the newest one; deletions hold |
| Query forwarding machine (`hashtree-worker/src/p2p/queryForwardingMachine.ts`) | requesters per hash, hashes per requester, timers, rate window | `beginForward`, `resolveForward`, `cancelForward`, `removePeer`, `stop` | WebRTC controller | two indexes, suppression, timeouts, disconnects | indexes agree; nothing suppressed for ever; rate bounded |
| WebRTC controller (`.../webrtcController.ts`) | peers, their pending and owed requests, recent requests | `handleHello`, `handleOffer`, `handleAnswer`, the handlers of proxy events, `handleRequest`, `handleResponse`, `get`, `closePeer`, `stop` | proxy (commands and events), local store, forwarding machine | handlers that continue after an await with a peer that is gone; entries shared by `get` and forwards | every `get` ends; owed answers are delivered; pools keep their limits |
| WebRTC proxy (`.../webrtcProxy.ts`) | RTCPeerConnections, send queues | commands of the controller | controller | commands and events cross | both agree on who is connected |
| Daemon storage (`hashtree-cli/src/storage.rs`) | blobs, pins, owners, blob/tree index, tree refs | `put_blob`, `pin`, `index_tree`, `unindex_tree`, `evict_if_needed`, `gc`, `delete_blossom_blob` | LMDB, S3, server, sync | several transactions per operation, concurrent evictions | what is pinned or shared with another tree is kept |
| Daemon sync (`hashtree-cli/src/sync.rs`, `fetch.rs`) | subscriptions, queue, set being synced | `handle_tree_event`, queue loop, `queue_sync` | relays, storage, WebRTC | failures, replays, concurrent fetches of one hash | one fetch per root, own trees first |
| Core trees (`ts/packages/hashtree`, `hashtree-core`) | none (pure) | build, read, edit, encrypt | all stores | chunk boundaries | what is read is what was written |
| B-tree index (`hashtree-index/src/btree.ts`) | none (persistent structure) | `insert`, `delete`, `merge`, `get`, `range`, `entries` | core | shapes only long sequences reach | agrees with an ordered map |
| Worker, client, git remote, blob stores, FUSE, FFI, simulator, apps | various | I/O and user interface | the above | | |

`PROJECT.json` lists the components with the files each consists of, and under
`hazards` the lines where something can go wrong that a test would hardly reach.

## Modules

### TreeRootRegistry

Models `hashtree-tree-root/src/index.ts` with the publish function of
`apps/iris-files/src/treeRootCache.ts`, `deleteTree`, logout, and the parts of the
resolver that stamp and sign events.

* `records`, `persisted`, `timers`, `publishFn` are the fields of the registry and of
  its persistence. `inflight` holds the publishes that wait for the relay, each with the
  snapshot `doPublish` took; `events` is what the relay has accepted. `waiting` is the
  callers of `resolve()`. `now` counts seconds, the resolution of `created_at`.
* One action per operation. A publish is five actions because it is an await: the timer
  (or a flush) takes the snapshot, `signEvent` stamps and signs, `relayAccepts`, and
  `publishSucceeds` or `publishFails` continues `doPublish`. A failure is possible at
  every stage, also after the relay has accepted. `hydrate` is a reload of the page at
  any point.
* `deleteTree` of the app is two actions, because it awaits dynamic imports between deleting the
  record here (`deleteTree`) and sending the deletion (`sendDeletion`); `deleting` holds the trees
  in between. Signing takes any time: `signEvent` reads the clock when it happens.
* `timerFires` has no other guard than the time. Before `setPublishFn`, which the worker's
  initialisation calls after awaits without a bound, it drops a dirty record; `stranded` is a
  history of those, and `deletedAt` one of the deletions sent with nothing left to publish.
* Saves may fail (`SaveMayFail`), as `setItem` may throw and the code goes on.
* Keys are named by the root they open. The four wrapped-key strings follow the same
  assignments and are one field.
* `delete` notifies with `null`, which `resolve()` ignores; other listeners are left out.
* The relay is external: it accepts signed events in any order, or never answers.

### QueryForwarding

Models `queryForwardingMachine.ts` completely. The timers are state (`timeouts`): `beginForward`
schedules one, `clearForward` clears it, and only a timer that is there can fire. `forwards` is a history of the forwards
each peer caused; it is what the rate property speaks of, and no action reads it.
`resolveForward` and `cancelForward` do the same; the timeout differs in what the
controller does afterwards, which is in PeerController.

### PeerController

Models the data protocol of `webrtcController.ts`, composed with the forwarding machine
through `Fwd == INSTANCE QueryForwarding`. A handler is split at its awaits:
`handleRequest`/`processRequest` around `localStore.get`, `handleResponse` or
`handleLateResponse` and `finishResponse` around `verifyHash` and `localStore.put`. A
`WorkerPeer` that has left the map lives on in handlers and timers that captured it; those
are marked `orphan`. `answered`, `asked`, `waits` and `unmarked` are history, used by properties only: `waits` are the
requesters that were told nothing yet, `unmarked` those of them whose later request for the same hash
found no targets, on which `processRequest` deletes the marker of the earlier one.
`Close` counts connections that end (`MaxCloses`). `connect` is `createPeer` followed by
`onDataChannelOpen`; how a connection comes about is what PeerLifecycle is about.

### Resolver

Models `hashtree-nostr/src/resolver/nostr.ts` for one user. Three places keep the root of a
tree and each has a rule of its own: `localListCache` is overwritten, `subscriptions`
(`subscribe()`) takes an event that is not older and has another hash, and the entries of
`lists` (`list()`) take a newer event and hold a deletion for 30 seconds. `listSubscriptions`
is the list registered for the user; a list that lost its registration runs on, because its closure
still has a relay subscription. It loses it by `stop()`, which closes no list, or when an unsubscribe
function is called again after its own list has ended (`UnlistAgain`): the closures are not
idempotent and delete whatever list is registered by then. `forgot` records that this happened.

* `publish()` reads the clock, waits for `visibility.encrypt` when the tree is private or
  link-visible (`StartPublish`, `Encrypted`, `EncryptFails`), then updates all three places
  and sends. A public tree has no await on the way (`PublishPublic`). What cannot be sent is
  `unsent`; the optimistic update is not undone, as in the code.
* `SubEvent` and `ListEvent` are the two event handlers. Events stay available for ever: that
  is late, repeated and reordered delivery by several relays. Another device stamps its events by
  a clock of its own (`Stamps`), which may be ahead of this client's or behind it.
* `seen` records what each callback was last called with, `newest` the latest stamp of a tree a list
  heard of since this client's own last change of it; no action reads them. Hashes alone tell roots apart. `resolve()` keeps no state.

### PeerLifecycle

Composes the signaling half of `webrtcController.ts` with `webrtcProxy.ts`, for several nodes.
`peers` is the controller's map, `connections` the proxy's; `commands` and `events` are the
message channels between the two threads, first in, first out. `signals` are offers and
answers on the relays, a set: any order, and `loseSignal` drops one. Peers and connections
carry the number of the connection (`id`), which the code does not have: it names both by
peer id, and an event of an earlier connection acts on the present one. One action per
handler and per command (the proxy's have the prefix `rtc`). What an RTCPeerConnection does
(`Fits`, `Matches`, `Gone`, coming up, failing) is external and modelled as the WebRTC
signaling state machine requires. Hellos may arrive at any time, as every node repeats them.
`setPoolConfig` changes a node's `limits` at any time and closes nobody. Of ICE candidates only one
thing is kept, because it changes what the threads tell each other: a candidate queued behind a
remote description may be refused once that is set (`rtcCandidateFails`; `spoiled` records it).

Known limits that the properties leave room for: when the proxy still has a connection,
creating a new one reports `rtc:peerClosed` of the old one first and the controller forgets
the peer it has just created; an outbound peer whose offer was lost or rejected, and an inbound
one whose queued candidate was refused, stay `connecting` and keep their place in the pool, as
nothing times them out; a pool that a lowered limit left too large is not cut down.

### Storage

Models `hashtree-cli/src/storage.rs` with `sync.rs`, `fetch.rs` and the jobs of the server and
the CLI. The blob store (`store`) changes at once; `pins`, `blobTrees`, `treeMeta`, `treeRefs`
and `owners` are LMDB databases with one write transaction at a time (`writer`). A thread
(`Worker` for sync tasks, `Desk` for everything else) is a record saying where it is and what
it has read; each transaction, each listing and each blob deleted by a sweep is a step, so
that every stale read of the code can happen. `Crash` loses memory and an open transaction and
keeps what was deleted from the blob store.

* `handle_tree_event`, `Enqueue`, `dispatch`, `fetch_chunk`, `fetched` are the sync service.
* `index_replace`, `index_collect`, `index_tree` and `unindex_delete`, `unindex_commit` are
  `index_tree` and `unindex_tree`. The index names leaf blobs only, as `collect_tree_blobs`
  does, and `unindex_tree` reads it in a transaction that does not see its own deletions: the
  blobs of a tree are thus hardly ever freed with the tree.
* `evict_if_needed`, `evict_orphaned_blobs`, `sweep`, `evict_rank`, `evict_tree` are the two
  phases of an eviction, `gc_*` garbage collection. `treeMeta` keeps the sync priority (0 own,
  1 followed); the code's storage priorities run the other way and order the same.
* `is_blob_owner` and `delete_blossom_blob` are the check of the server and the transaction after it.
* History, read by the two properties on lost content only: `late` collects pins set after a thread
  read the pins, `missed` the blobs that were not there when their tree was indexed, `fresh` what was
  indexed after an eviction read the index.

Left out: blob sizes (one unit each), the age of trees (any order within a priority), errors of
the stores, S3, lists of uploads, cached roots; the limit of parallel downloads is not reached.

### BTree and OrderedMap

`BTree` models `hashtree-index/src/btree.ts`. A node is a function from names to entries; an
operation is a recursive function over the nodes its recursion can reach (`Below`, the union of
the levels of the tree), which is how the same text can be evaluated by TLC and reasoned about.
Each action performs the operation on the tree and, through `Map == INSTANCE OrderedMap`, on the
map it stands for. `Items` are the entries inserted, `Others` how the trees to merge with were
made. `Locale` is the order of `localeCompare`, by which `sortEntries` sorts; `findChild` and
`range` use `<`. It is any injective function: keys that `localeCompare` calls equal are left out.
The variants of the operations for CID links are the same algorithms.

`intact` is history: it stays true until an insert falls into a *gap*. An insert sends a key to the
last child whose name is not above it. If that name's own entry was deleted meanwhile, and a split
below gave the parts of the child later names, the key may be below every name in the child (an
internal node). It is stored and found, but the next split of the child files it under its first
name, which is above the key, and from then on the key is looked for in the node before (Findings,
3). `alike` is history too: it stays true until a tree holds two names that `<` and `localeCompare`
order differently (Findings, 4). GetAgrees, WellFormed and RangeAgrees speak of trees in which
neither has happened; NothingLost makes no exception and is violated in both ways.

### MC and proof modules

`MCTreeRootRegistry`, `MCResolver`, `MCPeerLifecycle`, `MCStorage` and `MCBTree` give the
constants of an instance values, symmetry sets (never where liveness is checked) and
constraints. `TreeRootRegistryProofs`, `QueryForwardingProofs`, `PeerControllerProofs`,
`ResolverProofs`, `PeerLifecycleProofs`, `StorageProofs` and `BTreeProofs` extend the
specifications and hold the theorems; `SmallestNumber` has a lemma three of them use.

## Runs

| Run | Result | Shows |
|---|---|---|
| RegistryUpdates | pass | updates of every source, a write, its publish, a deletion in its two halves, a logout, a reload, in any order: no rollback, no overwritten write, keys stay with their roots, nobody waits for a record that is there, the saved copy is current, a deletion sent with nothing left to publish wins |
| RegistryPublish | pass | two writes, overlapping publishes, failures, failed saves, a reload: clean means published, dirty means pending, and dirty ends, but for a timer that fires before the publish function is set |
| QueryForwarding | pass | indexes, timers, rate bound and the end of every forward |
| PeerController | pass | `get()`, forwarding and closes interleaved: `get()` counts every peer and ends, entries time out, a waiting peer is found unless it took its own marker away |
| PeerControllerOverwrite | violation | `forwardRequest` replaces the entry of a `get()` under way |
| Resolver | pass | every callback was told of the root its subscription or list has now; a list shows nothing older than it heard of since this client's own change; one list runs per user until one is forgotten; a deletion holds for its window whoever tries to undo it |
| PeerLifecycle | pass | three nodes: no peer without a connection stays, both threads agree when quiet, pools do not grow past their limits, an account has one device in the other pool, an accepted offer leads to a connection or is forgotten unless a queued candidate is refused |
| Storage | pass | two syncs and a desk job, with a crash anywhere: one sync per root, own trees first, pinned content is lost in five ways and what the index names in four, which the properties list |
| StorageOrphans | violation | eviction takes roots of indexed trees for orphans |
| BTree | pass | while no insert falls into a gap and both orders agree on the keys: search tree within its limits; `get` agrees with the map, and so do `entries` and `range`, but for upper bounds at which they return too early |
| BTreeLost | violation | after one delete, four inserts lose a key |
| BTreeLocale | violation | four inserts of keys of the search index lose a key |

### Findings

The violations are disagreements between the code and its own comments and tests; the lines
are quoted in `PROJECT.json`.

1. *`get()` misses its answer.* One entry per peer and hash is shared by `get` and
   `forwardRequest`.
2. *Nodes taken for orphans.* An eviction deletes the unpinned roots and inner nodes of indexed
   trees in its first phase. The second phase then cannot walk these trees, so their blobs stay
   although nothing can read them.
3. *Lost keys in the B-tree, after a delete.* With order 4, insert 1, 2, 3, 4, 5, 6, 10, 11, 7, 12 and
   delete 5, the name of an internal node. Inserting 8 and 9 splits the leaf filed under 5, whose half
   is now called 6; 5 inserted again falls into the gap before it, and inserting 13 splits the
   internal node, which its parent then files under 6. `get` of 5 returns null although it was not
   deleted.
4. *Lost keys in the B-tree, by two orders.* A split sorts by `localeCompare`, a lookup compares with
   `<`. The keys of the search index are `${prefix}${term}:${id}` (`hashtree-index/src/search.ts:108`),
   and `localeCompare` puts `:` before digits where `<` puts it after them. With order 4, inserting
   `v:bar:a`, `v:foo2:x`, `v:foo:y` and `v:z:b` splits the leaf into `v:bar:a`, `v:foo:y` and
   `v:foo2:x`, `v:z:b`; `v:foo:y` is not below `v:foo2:x`, so `get` looks in the second half and returns
   null. No delete is needed. Only for keys that both orders agree on is it a theorem that trees which
   were never deleted from lose nothing (NothingLostWithoutDelete).

### Limits that are part of the properties

Where the code does less than one would wish, the property says so and names the case, and the
theorem shows that there is no other. These have no run of their own.

* *Upper bounds* (RangeAgrees). An insert below the name of the first child does not change that
  name, and `rangeTraverse` returns at the first child whose name is not below the upper bound: insert
  b, c, d, e, which splits the leaf, and then a; a range up to b yields nothing, though `get` finds a
  and `tests/btree.test.ts:137` calls a range inclusive of its start and exclusive of its end.
  `EndBounded(node, end)` says when this does not happen, and the property says that a traversal is
  then complete and otherwise empty.
* *Stranded records* (DirtyIsPending, EventuallyPublished). `hydrate` schedules dirty records one
  second ahead; `doPublish` returns early if `setPublishFn` was not called by then, and nothing
  schedules them again before the next write or reload.
* *Same-hash writes* (CleanHashWasPublished). `doPublish` compares only the hash with its snapshot, so
  that a write of the same hash with another visibility, made while a publish is in flight, is marked
  clean although it was not sent ("Re-check record in case it changed during async publish",
  `index.ts:696`). The property promises the root only.
* *Account switches.* With two accounts and `MaxSwitches = 1` TLC violates CleanHashWasPublished: the
  publish function takes the current npub, and nothing is flushed or cancelled at logout. Run and
  theorem have `MaxSwitches = 0`.
* *Deletions* (DeletedStaysDeleted). Outside the property: a write between the two halves of
  `deleteTree`, a publish that is signed after the deletion was stamped, a deletion that localStorage
  did not take, and a switch of accounts; each can bring the tree back.
* *Markers* (WaitIsTracked). A peer that waits for a forward and asks again when every target has gone
  loses its marker, and the answer, which may still be on its way through `localStore.put`, is not
  pushed to it, contrary to the comment "Response will be pushed to original requester via
  pushToRequesters" (`webrtcController.ts:849`).
* *This client's own changes* (ListShowsNewest). `publish()` and `delete()` write a list's entry with
  the local time without looking at what is there (`nostr.ts:609`): a root of a device whose clock is
  ahead is replaced by one with an older stamp. On the `subscribe()` side there is no counterpart of
  the property: an event with the root a subscription already has does not raise `latestCreatedAt`, so
  that a late older event is applied after it.
* *Forgotten lists* (OneListPerUser), *refused candidates* (AcceptedOfferSettles) and *lowered limits*
  (PoolsWithinLimits): see Resolver and PeerLifecycle above.
* *Lost content.* PinnedIsKept: the last Blossom owner deletes the blob; an operation read the pins
  before the pin was set; the blob is the root of the version a ref had before; or it is a blob of a
  tree being removed that no index entry protects, because it was not there when the tree was indexed
  or because another operation (an eviction, or a sync that read the same ref) had removed the tree
  from the index already. IndexedIsKept: the last Blossom owner, garbage collection, the root of the
  tree being removed, and an eviction that read the index before the entry was written.

### Bounds, and why they are enough

* Registry: one account and one tree name, because trees share no state but the save of
  the whole map. Two hashes tell "same root" from
  "other root". RegistryPublish has two writes and two call slots: the smallest instance
  with a publish overtaken by a write and by another publish. RegistryUpdates has two
  remote updates (an order needs two), one write, one deletion and one reload. The clock runs to 2
  with delays of 1 in RegistryPublish, so that a publish can start before, in and after the second
  of another step, and to 1 in RegistryUpdates, where an order of stamps is all that matters.
  `SaveMayFail` holds in RegistryPublish only, as SavedIsCurrent is about the paths that save.
* QueryForwarding: two peers, two hashes, windows of 2 seconds in a clock of 3, two
  forwards per window: the boundary "exactly one window old" is reached, and a third
  forward is refused and then allowed.
* PeerController: two peers, one hash, one `get`, two requests, one response, one close.
  A collision of `get` with a forward, an answer racing its timer and a close, a peer that
  reconnects, and a late `rtc:peerClosed` all happen. The behaviours lie in one rate window.

* Resolver: one tree, two roots, two callbacks, two lists open at once, two events signed by
  any device, three seconds with an undelete window of 2 (for 30): a late event, a deletion
  between the start and the end of a publish, and the first stamp at which a deletion may be
  undone all occur. Stamps of other devices run to 4, beyond this client's clock. `AfterForgot`
  follows what happens after a running list was forgotten for two seconds and one
  event only. Trees share nothing but the list, which treats them separately.
* PeerLifecycle: three nodes, two of one account, with room for one, one and two peers; two of the
  nodes make two connections (`Reconnects`), so events of the first meet the second, and one signal is
  lost, one connection breaks or one candidate is refused. The third node may lower the limit of its
  pool to nothing at any time (`NoStrangers`). The follows pool is empty: both have the same code.
* Storage: two trees of a root and a shared blob, an own and a followed ref, two sync tasks and
  one desk, two users, a quota of two blobs of three, three inputs from outside (events,
  requests, pins, crashes). `OneEvictsOrTwoRun` limits two evictions at once to states where
  nothing else runs.
* BTree: eight keys with order 4 (at most three entries) are the fewest that make a tree of
  three levels, and there is a ninth, one of two that the orders disagree on (`LastTwo`), so that splits and collapses of internal nodes happen below the root. The
  second value and the merged tree are limited to two keys (`FewValues`, `TwoKeys`): no
  decision of the algorithm looks at values beyond equality. `Sane` ends behaviours where the
  properties say nothing more. To lose a key an internal node must split below the root and above
  a gap, which takes more keys: BTreeLost merges a tree of ten (`TenKeys`) into the empty one and
  goes on with inserts of four keys and deletes (`FewKeys`). BTreeLocale has the four keys of finding 4
  in the two orders they really have (`Terms`). What the bounds leave out, larger
  trees and other orders, is what the theorems cover.

Deadlock is not checked where the bounds end every behaviour (the registry, the controller,
PeerLifecycle and Storage); it is checked for QueryForwarding, Resolver and BTree.

### Fairness

* Registry: the clock, the worker's initialisation and due timers are weakly fair, as the
  event loop runs. Signing, acceptance and acknowledgement are strongly fair per tree: a
  relay may fail any number of times, but a publish retried for ever succeeds at some point.
  Without that no client could publish anything.
* QueryForwarding: the timer of a forward fires unless cleared.
* PeerController: entry timers fire, and the local store answers.
* PeerLifecycle: both threads handle their messages, relays deliver what they do not lose, a
  negotiated connection comes up, and ICE gives up one whose other end is silent. Hellos need
  no fairness: the property speaks of offers that were accepted.

## Proofs

All theorems are checked by TLAPS from nothing, for every value of the constants: any sets of
accounts, trees, roots, peers, nodes, pools, threads, callbacks and calls, any limits, delays
and bounds. Every safety property that a passing run checks is proved. Each inductive invariant below was
checked by TLC on the instance of its run before it was proved (for BTree, the parts of it that
are not about trees of any size: WellFormed and GetAgrees).

Assumptions on constants are named in the modules (`BoundsAssumption`, `NoneAssumption`,
`NodesAssumption`, `PoolAssumption`, `PeersAssumption`, ...) and evaluated by TLC in every run.
They say that bounds are natural numbers, that sets that are counted are finite, and that `None`
is not one of the values it stands beside.

### Registry (`TreeRootRegistryProofs`)

What each kind of step does to the records is stated once (`Writes`, `Updates`, and the lemmas
`...Effect`); all theorems are built on these.

* **TypeCorrect** — TypeOK. Inductive with `SignedHasAuthor` (a publish that is signed or
  accepted has an author): without it the event a publish adds to the relay might have no tree.
* **WritesStayPending** — DirtyIsPending, inductive relative to TypeOK and without a condition: a
  record is stranded by the timer or not at all. A successful publish of another root leaves the
  record dirty; that record's own timer or publish is what the invariant then relies on.
* **CleanWritesWerePublished** — CleanHashWasPublished, assuming `MaxSwitches = 0`. The
  strengthening (`PublishInv`) says the same of the saved copy (a reload brings it back), that
  dirty records and publishes in flight belong to the account that signs, and that every
  accepted publish has its root at the relay under its own tree.
* **DirtyIsKept** — the action property DirtyNotOverwritten, from TypeOK.
* **KeysBelongToRoots** — KeyMatchesHash. Inductive once it is said of the saved copy too
  (`KeyInv`). The argument is in the four operators that build a record: what an update omits
  comes from the existing record only when the root is the same.
* **UpdatesMoveForward** — the action property NoRollback. The half about time follows from
  `shouldAcceptUpdate`; that an accepted update of the same root cannot exchange the key needs
  `KeyInv`.
* **WaitersGetRecords** — WaiterNeverMissesRecord, inductive relative to TypeOK: the check and
  the subscription in `resolve()` are one step, every path that sets a record notifies, and
  neither marking clean nor deleting makes a record appear.
* **RestartsFindRecords** — SavedIsCurrent, assuming `SaveMayFail = FALSE`.
* **DeletionsAreNewest** — DeletedStaysDeleted, assuming that accounts are not switched or there is
  only one. `DeletionInv` says that nothing but a deletion is stamped later than the clock and, of a
  tree deleted with nothing left to publish, that no record is dirty (in memory or saved, so no
  publish starts), that every event is older than the deletion, and that every publish in flight is
  signed with an older stamp. `AuthorOwns` makes the event's tree the publish's tree: after a switch
  another account's publish of a tree of that name is signed as the owner's, and TLC finds that.

### Query forwarding (`QueryForwardingProofs`)

* **IndexesTypeCorrect**, **IndexesStayInAgreement**, **ForwardsAreWanted**, **ForwardsHaveTimers** —
  one inductive invariant (`IndexInv`): types, agreement of the indexes, no forward without a
  requester, a timer for the hashes in flight and for no other, with
  one lemma per operation. Agreement is what makes `clearForward` complete: it visits the
  requesters the hash lists, and no other index entry may name the hash.
* **ForwardsStayRateBounded** — ForwardRateBounded. The limiter forgets: the invariant
  (`RateInv`) says that what it keeps is the end of the peer's history and that what it dropped
  is at least a window old, so that its count is the count of the history.

### Controller (`PeerControllerProofs`)

* **PendingAlwaysTimesOut** — every entry has its own timer. The invariant adds to
  PendingHasTimer which peers, hashes and owners entries, timers and handlers in progress
  may name (the handlers' part is needed because `processRequest` creates entries for a
  request received earlier). This is where replacing an entry without clearing the older
  timer, and an older timer that deletes a newer entry, are shown never to leave an entry
  without a timeout.
* **ControllerKeepsIndexes** — IndexesAgree holds in the controller. Every step of the controller is
  one of the machine or leaves it alone, so the forwarding module's lemmas are used through an
  instance and not proved again.
* **WaitersAreFound** — WaitIsTracked, with `WaitersOpen`: whoever waits, or whose request waits
  for the local store, is connected. A connection that ends takes its waits with it, and the
  agreement of the machine's indexes keeps a requester in place until its forward ends. That the
  marker goes only with `no_targets` follows from `beginForward`: a requester that waits is in flight,
  so its next request is suppressed or finds no targets.
* **EveryPeerIsCounted** — GetCountsEveryPeer: what a `get()` has left to count is the number of
  its timers plus the number of its answers being stored. `GetInv` adds that a call has at most
  one timer per peer and that timers and answers belong to calls that were made; a step that
  turns timers into orphans, removes one or hands one over to an answer is a bijection between
  the sets counted before and after.
* **ControllerTypeCorrect** — TypeOK. That `left` stays a natural number is the part that is not
  local: it follows from the count.

### Resolver (`ResolverProofs`)

* **ResolverTypeCorrect** — TypeOK, inductive.
* **EveryCallbackSeesCurrent**, **OneListRuns** — CallbacksSeeCurrent and OneListPerUser, with
  `ClosedIsEmpty` (a list that is not open holds nothing), in one invariant, `ListInv`.
* **DeletionsHold** — the action property DeletionHolds, from `ListInv`: `ClosedIsEmpty` is what
  makes a list that opens no exception.
* **ListsShowNewest** — ListShowsNewest. `NewestInv` says how an entry may lag behind what its list
  received since this client's own last change: a root not at all, a deletion by less than the window
  in which it keeps roots out. Nothing is assumed of the clocks.

### Connections (`PeerLifecycleProofs`)

* **LifecycleTypeCorrect**, **NoPeerIsPhantom** — one invariant, as the handlers of events need
  both.
* **PoolsStayWithinLimits** — the action property PoolsWithinLimits: only `handleHello` and
  `handleOffer` add a peer, at most one, after the test of its pool against the limit of the moment;
  everything else shrinks the map. Cardinalities of the pools are finite by `NodesAssumption`.
* **AccountsHaveOneDevice** — OneDevicePerAccount, inductive: the peer that is added is of no account
  that the other pool has, and no step turns a peer into one of another pool.
* **ThreadsAgree** — QuietAgreement. Two queues of messages lie between the threads, so the
  invariant (`AgreementInv`) speaks of every position in them: a channel reported open is open or
  its end is reported later; from the moment a local description is on its way, nothing on its
  way separates the peer from the connection; an open channel has its opening reported or
  handled; and connections are made in the order of their numbers, so that a description of an
  earlier connection is never set on a later one. Its parts are predicates of one node's maps and
  queues, and each handler is shown to be one of a few moves (`Sends`, `Turn`, `Signaled`).

### Daemon (`StorageProofs`)

* **OwnTreesStayFirst** — the sync queue is in order. The invariant adds the type of the
  queue; the argument is the place `Enqueue` gives a task: everything before the first task of
  a lower priority is not lower, and by the order everything from there on is.
* **StorageTypeCorrect** — TypeOK with `TasksGood`: a thread has what its next steps work on
  (`Purpose`), workers do only what sync tasks do (`SyncTask`), and what is pinned and about to
  be deleted was pinned after the thread read the pins (`Noticed`).
* **RootsAreSyncedOnce** — OneSyncPerRoot, from `SyncTask`: a task keeps the root it was
  started for until it ends and takes it out of the set.
* **PinnedBlobsKept** — the action property PinnedIsKept: of all deletions, the five it names are
  the ones that can meet a pin. `Noticed` carries the stale reads; `Indexed` says that the entries of
  an indexed tree name all its blobs but those missing when it was indexed, so that `unindex_tree`
  meets an unprotected pinned blob only in the ways named.
* **IndexedBlobsKept** — the action property IndexedIsKept. `Fresh` says that what an eviction has
  left to sweep and is in a tree now was indexed after it read the index.

### B-tree (`BTreeProofs`)

All four theorems assume `NoneApart` (a directory is not the value that stands for no tree). Nothing
is assumed of the order, beyond being at least 2, of the keys, which may be infinitely many, or of how
`localeCompare` orders them: that a tree's names are ordered alike is part of the invariant as long as
`alike` holds.

* **GetAgreesAlways** — GetAgrees, and with it that the actions of the tree are those of the ordered
  map as far as lookups show. The inductive invariant `Inv` says that while `intact` and `alike` hold the root
  is an `Index` and get() is the map. An `Index` is a tree of finite height in which the names in an
  internal node divide all names below it (`Ordered`), every child but the first holds no name below
  its own at any depth (`AllLow`), and every node has a legal size (`AllSized`). WellFormed alone is
  not inductive: it speaks of keys in leaves, while a split files a half under a name found in an
  internal node, so names at every level must be in order. `AllLow` is what such a split needs off
  the left edge; on the left edge names may be above keys, as no name there is compared from below.
  An insert into a gap is exactly what breaks `AllLow`.
* **WellFormedAlways** — WellFormed, from the same invariant.
* **RangeAgreesAlways** — RangeAgrees. The content of a sound tree is what get() finds (`GetFinds`);
  a traversal is the concatenation, over the sorted names, of ascending sequences each of which ends
  before the next begins, and what it skips or stops before holds nothing within the bounds. If a
  child named like the upper bound or later holds a key below it (`~EndBounded`), it is a first child
  on the left edge, where every name is above that key, and nothing is visited (`Unbounded`).
* **NothingLostWithoutDelete** — with inserts and merges alone `intact` never fails: every child has
  an entry whose name is not above the name the child is filed under (`Anchored`), so there is no gap.
  GetAgrees and NothingLost then hold as long as `alike` does; `alike` may fail with the first split
  (finding 4).

What an operation computes for trees of any height is shown by a smallest counterexample: of all
heights at which it fails take the least; the node has children, these are less high, and what the
operation makes of a node follows from what it makes of its children. That needs no induction
theorem with an operator parameter, only that a set of natural numbers has a smallest member.

`SmallestNumber` holds that fact, which three of the developments share: the place in the sync
queue, the first event in the rate window, the least height.

### Only model-checked

* Liveness (EventuallyPublished, ForwardEnds, GetEnds, AcceptedOfferSettles): fairness and ENABLED
  are out of the prover's reach.

## Not modelled

* Byte-level code: chunking, codecs, hashing, encryption, nhash. It is pure and covered by
  the test vectors shared by the two implementations.
* User interfaces, the FUSE, FFI and git front ends, and adapters to file systems, LMDB,
  S3, IndexedDB and HTTP: I/O.
* Vendored libraries (ndk, nostr-social-graph).
* The daemon's HTTP reads, authorisation and Nostr relay, its WebRTC transport and the Rust
  resolver: the same protocols as the TypeScript ones modelled here, or request handling
  without state of its own.
* The older TypeScript WebRTC store, superseded by the worker's controller, and the worker's
  message dispatch between page, worker and service worker.
* Two browser tabs sharing localStorage, listeners other than `resolve()`, LRU eviction of
  markers, fragments of large responses, buffer backpressure, ICE candidates (but for the refusal of
  a queued one), changes of the follow list while connected, S3.

The map covers a small part of the repository's lines: most of the repository is user
interface, I/O and vendored code, in which there is no protocol to check.

## Plan

The components that carry the protocols are modelled and their safety properties proved. What
may follow: BTree without the conditions `intact` and `alike` once an internal node keeps the name it
is filed under when it splits and one order is used throughout; runs of their own for the account
switch, the stranded record, the same-hash write and the upper bound of `range`; and `subscribe()` in
the resolver once `latestCreatedAt` follows every event.

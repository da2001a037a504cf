------------------------------- MODULE Resolver -------------------------------
(***************************************************************************)
(* The Nostr reference resolver                                            *)
(* (ts/packages/hashtree-nostr/src/resolver/nostr.ts) of one user: which   *)
(* root each of the user's trees has, as told by signed events that come   *)
(* from several relays, late, more than once and in any order, and by the  *)
(* publish() and delete() of this client, which show their result before   *)
(* any relay has it.  Three places keep a tree's root: localListCache, the *)
(* subscription of the tree and the entries of a list.  Each compares and  *)
(* overwrites by a rule of its own.                                        *)
(*                                                                         *)
(* A root is its hash: keys and visibility travel with it and no rule      *)
(* looks at them.  resolve() keeps nothing in the resolver and is left     *)
(* out.  Time counts seconds, as created_at does.                          *)
(***************************************************************************)
EXTENDS Naturals, FiniteSets

CONSTANTS
    Trees,          \* tree names
    Hashes,         \* root hashes
    Callbacks,      \* functions given to subscribe() and list()
    ListIds,        \* bound: lists that are open at the same time
    NoHash,         \* null, '' or a missing hash tag: the tree is deleted
    Off,            \* what a callback that is not registered has seen
    NoList,         \* no list is registered for the user
    UndeleteWindow, \* the 30 seconds a deletion holds
    MaxClock,       \* bound: the last second
    MaxEvents       \* bound: events the user's devices sign

ASSUME WindowAssumption == UndeleteWindow \in Nat \ {0}
ASSUME BoundsAssumption == MaxClock \in Nat /\ MaxEvents \in Nat
ASSUME SentinelAssumption == NoHash \notin Hashes /\ Off \notin Hashes \cup {NoHash} /\ NoList \notin ListIds
ASSUME OffAssumption == \A shown \in [Trees -> Hashes \cup {NoHash}] : shown # Off

VARIABLES
    clock,              \* Date.now() in seconds
    events,             \* events the relays hold or held
    unsent,             \* events nostrPublish failed to send
    encrypting,         \* publish() calls that wait for visibility.encrypt
    localListCache,     \* tree -> entry; kept when lists close
    subscriptions,      \* tree -> the shared subscription of subscribe()
    lists,              \* the closures list() created
    listSubscriptions,  \* the list that is registered for the user
    ended,              \* a list has closed; its unsubscribe functions remain
    forgot              \* a list was unregistered that still runs

vars == <<clock, events, unsent, encrypting, localListCache, subscriptions, lists,
          listSubscriptions, ended, forgot>>
flags == <<ended, forgot>>

Roots == Hashes \cup {NoHash}
Times == Nat

\* A signed event with its created_at, a number its author chose.
Event == [tree : Trees, hash : Roots, at : Times]
Publish == [tree : Trees, hash : Hashes, now : Times]

\* An entry of entriesByDTag or localListCache.  Real stamps are positive.
Entry == [hash : Roots, at : Times]
Absent == [hash |-> NoHash, at |-> 0]
Exists(entry) == entry.at > 0

\* seen gives what each callback was last called with; NoHash also stands for
\* one that was not called yet, because there is no root to tell of.
Subscription == [hash : Roots, at : Times, seen : [Callbacks -> Roots \cup {Off}]]
NoSubscription == [hash |-> NoHash, at |-> 0, seen |-> [c \in Callbacks |-> Off]]

\* newest is the largest created_at among the events of a tree the list received
\* since this client's publish() or delete() last wrote the tree's entry.
Shown == [Trees -> Roots]
List == [entries : [Trees -> Entry], newest : [Trees -> Times],
         seen : [Callbacks -> Shown \cup {Off}]]
Closed == [entries |-> [t \in Trees |-> Absent], newest |-> [t \in Trees |-> 0],
           seen |-> [c \in Callbacks |-> Off]]

\* A subscription or list lives as long as it has a callback.
Open(s) == \E c \in Callbacks : s.seen[c] # Off
Tell(seen, value) == [c \in Callbacks |-> IF seen[c] = Off THEN Off ELSE value]

\* What a list hands to its callbacks: the entries that are not deleted.
Present(entries) == [t \in Trees |-> entries[t].hash]

Init ==
    /\ clock = 1
    /\ events = {}
    /\ unsent = {}
    /\ encrypting = {}
    /\ localListCache = [t \in Trees |-> Absent]
    /\ subscriptions = [t \in Trees |-> NoSubscription]
    /\ lists = [i \in ListIds |-> Closed]
    /\ listSubscriptions = NoList
    /\ ended = FALSE /\ forgot = FALSE

Max2(a, b) == IF a > b THEN a ELSE b

-----------------------------------------------------------------------------
(* Subscribing to one tree *)

\* Mutant: the callback is handed the cached entry instead of its root.
Subscribe_RawEntry(t, c) ==
    /\ subscriptions[t].seen[c] = Off
    /\ ~Open(subscriptions[t])
    /\ subscriptions' = [subscriptions EXCEPT ![t].seen[c] = localListCache[t]]
    /\ UNCHANGED <<clock, events, unsent, encrypting, localListCache, lists,
                   listSubscriptions, flags>>

\* subscribe(): join the shared subscription, or open one that starts from
\* the cached entry; the callback hears of the current root at once.
Subscribe(t, c) ==
    LET sub == subscriptions[t]
        cached == localListCache[t]
    IN /\ sub.seen[c] = Off
       /\ subscriptions' = [subscriptions EXCEPT ![t] =
            IF Open(sub) THEN [sub EXCEPT !.seen[c] = sub.hash]
            ELSE [hash |-> cached.hash, at |-> cached.at,
                  seen |-> [sub.seen EXCEPT ![c] = cached.hash]]]
       /\ UNCHANGED <<clock, events, unsent, encrypting, localListCache, lists,
                      listSubscriptions, flags>>

\* The function subscribe() returned: the last callback closes the relay
\* subscription.
Unsubscribe(t, c) ==
    LET sub == [subscriptions[t] EXCEPT !.seen[c] = Off]
    IN /\ subscriptions[t].seen[c] # Off
       /\ subscriptions' = [subscriptions EXCEPT ![t] = IF Open(sub) THEN sub ELSE NoSubscription]
       /\ UNCHANGED <<clock, events, unsent, encrypting, localListCache, lists,
                      listSubscriptions, flags>>

\* The condition of the event handler of subscribe().
SubAccepts(sub, e) == e.at >= sub.at /\ e.hash # sub.hash

\* The event handler of subscribe().  Deletions carry no hash and are ignored.
SubEvent(e) ==
    LET sub == subscriptions[e.tree]
    IN /\ Open(sub)
       /\ e.hash # NoHash
       /\ SubAccepts(sub, e)
       /\ subscriptions' = [subscriptions EXCEPT ![e.tree] =
            [hash |-> e.hash, at |-> e.at, seen |-> Tell(sub.seen, e.hash)]]
       /\ localListCache' = [localListCache EXCEPT ![e.tree] = [hash |-> e.hash, at |-> e.at]]
       /\ UNCHANGED <<clock, events, unsent, encrypting, lists, listSubscriptions, flags>>

-----------------------------------------------------------------------------
(* Listing the trees of the user *)

\* An entry a list holds keeps a root from being shown: it is a deletion
\* less than UndeleteWindow older than the root.
BlocksUndelete(entry, hash, at) ==
    Exists(entry) /\ entry.hash = NoHash /\ hash # NoHash /\ at < entry.at + UndeleteWindow

WithEntry(list, t, entry) ==
    LET entries == [list.entries EXCEPT ![t] = entry]
    IN [entries |-> entries, newest |-> list.newest, seen |-> Tell(list.seen, Present(entries))]

\* publish() and delete() write an entry whatever events the list has received.
WithOwnEntry(list, t, entry) == [WithEntry(list, t, entry) EXCEPT !.newest[t] = 0]

\* list(): join the registered list, or create one from the cache.
ListTrees(c) ==
    /\ IF listSubscriptions # NoList
       THEN /\ lists[listSubscriptions].seen[c] = Off
            /\ lists' = [lists EXCEPT ![listSubscriptions].seen[c] = Present(lists[listSubscriptions].entries)]
            /\ UNCHANGED listSubscriptions
       ELSE \E i \in ListIds :
            /\ ~Open(lists[i])
            /\ lists' = [lists EXCEPT ![i] =
                 [entries |-> localListCache, newest |-> Closed.newest,
                  seen |-> [Closed.seen EXCEPT ![c] = Present(localListCache)]]]
            /\ listSubscriptions' = i
    /\ UNCHANGED <<clock, events, unsent, encrypting, localListCache, subscriptions, flags>>

\* Mutant: the closed list stays registered.
Unlist_StaysRegistered(i, c) ==
    LET list == [lists[i] EXCEPT !.seen[c] = Off]
    IN /\ lists[i].seen[c] # Off
       /\ lists' = [lists EXCEPT ![i] = IF Open(list) THEN list ELSE Closed]
       /\ UNCHANGED <<clock, events, unsent, encrypting, localListCache, subscriptions,
                      listSubscriptions, flags>>

\* The function list() returned to the callback c of list i.  The last one
\* deletes whatever list is registered for the user.
Unlist(i, c) ==
    LET list == [lists[i] EXCEPT !.seen[c] = Off]
    IN /\ lists[i].seen[c] # Off
       /\ IF Open(list)
          THEN lists' = [lists EXCEPT ![i] = list] /\ UNCHANGED <<listSubscriptions, flags>>
          ELSE /\ lists' = [lists EXCEPT ![i] = Closed]
               /\ listSubscriptions' = NoList
               /\ ended' = TRUE
               /\ forgot' = (forgot \/ listSubscriptions \notin {NoList, i})
       /\ UNCHANGED <<clock, events, unsent, encrypting, localListCache, subscriptions>>

\* The same function is called again: it finds the callbacks of its own list
\* gone and deletes the user's registration once more, whoever holds it by now.
\* (While its list has callbacks the second call does nothing, or what Unlist
\* does when the callback was registered again.)
UnlistAgain ==
    /\ ended
    /\ listSubscriptions' = NoList
    /\ forgot' = (forgot \/ listSubscriptions # NoList)
    /\ UNCHANGED <<clock, events, unsent, encrypting, localListCache, subscriptions, lists, ended>>

\* Mutant: the rule of subscribe(), which compares hashes, without its stamp.
ListAccepts_AnyHash(entry, e) ==
    ~Exists(entry) \/ (~BlocksUndelete(entry, e.hash, e.at) /\ e.hash # entry.hash)

\* The rules of the event handler of list(): newer wins, a deletion wins a tie.
ListAccepts(entry, e) ==
    \/ ~Exists(entry)
    \/ /\ ~BlocksUndelete(entry, e.hash, e.at)
       /\ e.at > entry.at \/ (e.at = entry.at /\ e.hash = NoHash /\ entry.hash # NoHash)

\* The event handler of list i.
ListEvent(i, e) ==
    LET heard == [lists[i] EXCEPT !.newest[e.tree] = Max2(@, e.at)]
        entry == [hash |-> e.hash, at |-> e.at]
    IN /\ Open(lists[i])
       /\ IF ListAccepts(lists[i].entries[e.tree], e)
          THEN /\ lists' = [lists EXCEPT ![i] = WithEntry(heard, e.tree, entry)]
               /\ localListCache' = [localListCache EXCEPT ![e.tree] = entry]
          ELSE lists' = [lists EXCEPT ![i] = heard] /\ UNCHANGED localListCache
       /\ UNCHANGED <<clock, events, unsent, encrypting, subscriptions, listSubscriptions, flags>>

\* injectListEntry(): each of the two places is guarded, and a deletion in
\* the cache ends the call before the list is looked at.
InjectListEntry(t, h) ==
    LET entry == [hash |-> h, at |-> clock]
        cached == localListCache[t]
        list == lists[listSubscriptions]
    IN /\ ~BlocksUndelete(cached, h, clock)
       /\ localListCache' = IF clock >= cached.at THEN [localListCache EXCEPT ![t] = entry] ELSE localListCache
       /\ lists' = IF /\ listSubscriptions # NoList
                      /\ ~BlocksUndelete(list.entries[t], h, clock)
                      /\ clock >= list.entries[t].at
                   THEN [lists EXCEPT ![listSubscriptions] = WithEntry(list, t, entry)]
                   ELSE lists
       /\ UNCHANGED <<clock, events, unsent, encrypting, subscriptions, listSubscriptions, flags>>

\* stop(): the subscriptions of subscribe() are closed, the lists are only
\* forgotten.
Stop ==
    /\ subscriptions' = [t \in Trees |-> NoSubscription]
    /\ listSubscriptions' = NoList
    /\ forgot' = (forgot \/ listSubscriptions # NoList)
    /\ UNCHANGED <<clock, events, unsent, encrypting, localListCache, lists, ended>>

-----------------------------------------------------------------------------
(* Publishing *)

\* nostrPublish: the event reaches a relay or is lost.
Send(e) ==
    \/ events' = events \cup {e} /\ UNCHANGED unsent
    \/ unsent' = unsent \cup {e} /\ UNCHANGED events

\* Mutant: the subscription is changed and its callbacks are not called.
Overwrite_Silent(t, entry) ==
    /\ localListCache' = [localListCache EXCEPT ![t] = entry]
    /\ subscriptions' = [subscriptions EXCEPT ![t] =
         IF Open(@) THEN [@ EXCEPT !.hash = entry.hash, !.at = entry.at] ELSE @]

\* The optimistic part of publish() and delete(): cache and subscription are
\* overwritten whatever they hold.
Overwrite(t, entry) ==
    LET sub == subscriptions[t]
    IN /\ localListCache' = [localListCache EXCEPT ![t] = entry]
       /\ subscriptions' = [subscriptions EXCEPT ![t] =
            IF Open(sub) THEN [hash |-> entry.hash, at |-> entry.at, seen |-> Tell(sub.seen, entry.hash)]
            ELSE sub]

\* Mutant: publish() shows its root in a list whatever the list holds.
FinishPublish_Undeletes(t, h, now) ==
    LET entry == [hash |-> h, at |-> now]
    IN /\ Overwrite(t, entry)
       /\ lists' = IF listSubscriptions # NoList
                   THEN [lists EXCEPT ![listSubscriptions] = WithOwnEntry(lists[listSubscriptions], t, entry)]
                   ELSE lists
       /\ Send([tree |-> t, hash |-> h, at |-> clock])
       /\ UNCHANGED <<clock, listSubscriptions, flags>>

\* The part of publish() that runs when the keys are encrypted: now was read
\* when the call began, the event is stamped when it is signed.
FinishPublish(t, h, now) ==
    LET entry == [hash |-> h, at |-> now]
    IN /\ Overwrite(t, entry)
       /\ lists' = IF /\ listSubscriptions # NoList
                      /\ ~BlocksUndelete(lists[listSubscriptions].entries[t], h, now)
                   THEN [lists EXCEPT ![listSubscriptions] = WithOwnEntry(lists[listSubscriptions], t, entry)]
                   ELSE lists
       /\ Send([tree |-> t, hash |-> h, at |-> clock])
       /\ UNCHANGED <<clock, listSubscriptions, flags>>

MayPublish == Cardinality(events \cup unsent) + Cardinality(encrypting) < MaxEvents

\* publish() of a public tree has no await before the caches are updated.
PublishPublic(t, h) == MayPublish /\ FinishPublish(t, h, clock) /\ UNCHANGED encrypting

\* publish() of a private or link-visible tree up to visibility.encrypt.
StartPublish(t, h) ==
    /\ MayPublish
    /\ encrypting' = encrypting \cup {[tree |-> t, hash |-> h, now |-> clock]}
    /\ UNCHANGED <<clock, events, unsent, localListCache, subscriptions, lists, listSubscriptions, flags>>

\* encrypt() returned, or failed for a link-visible tree, which is ignored.
Encrypted(p) == FinishPublish(p.tree, p.hash, p.now) /\ encrypting' = encrypting \ {p}

\* encrypt() failed for a private tree: publish() gives up.
EncryptFails(p) ==
    /\ encrypting' = encrypting \ {p}
    /\ UNCHANGED <<clock, events, unsent, localListCache, subscriptions, lists, listSubscriptions, flags>>

\* delete(): the entries are stamped now, the event a second later.
Delete(t) ==
    LET entry == [hash |-> NoHash, at |-> clock]
    IN /\ MayPublish
       /\ Overwrite(t, entry)
       /\ lists' = IF listSubscriptions # NoList
                   THEN [lists EXCEPT ![listSubscriptions] = WithOwnEntry(lists[listSubscriptions], t, entry)]
                   ELSE lists
       /\ Send([tree |-> t, hash |-> NoHash, at |-> clock + 1])
       /\ UNCHANGED <<clock, encrypting, listSubscriptions, flags>>

-----------------------------------------------------------------------------
(* The rest of the world *)

\* Another device of the user publishes or deletes a tree, stamped by a clock
\* that may run ahead of or behind this client's.
Stamps == 1 .. MaxClock + 1
OtherDevice(t, h, at) ==
    /\ MayPublish
    /\ events' = events \cup {[tree |-> t, hash |-> h, at |-> at]}
    /\ UNCHANGED <<clock, unsent, encrypting, localListCache, subscriptions, lists,
                   listSubscriptions, flags>>

Tick ==
    /\ clock < MaxClock
    /\ clock' = clock + 1
    /\ UNCHANGED <<events, unsent, encrypting, localListCache, subscriptions, lists,
                   listSubscriptions, flags>>

Next ==
    \/ \E t \in Trees, c \in Callbacks : Subscribe(t, c) \/ Unsubscribe(t, c)
    \/ \E c \in Callbacks : ListTrees(c)
    \/ \E i \in ListIds, c \in Callbacks : Unlist(i, c)
    \/ UnlistAgain
    \/ \E e \in events : SubEvent(e)
    \/ \E i \in ListIds, e \in events : ListEvent(i, e)
    \/ \E t \in Trees, h \in Hashes : InjectListEntry(t, h) \/ PublishPublic(t, h) \/ StartPublish(t, h)
    \/ \E p \in encrypting : Encrypted(p) \/ EncryptFails(p)
    \/ \E t \in Trees : Delete(t)
    \/ \E t \in Trees, h \in Roots, at \in Stamps : OtherDevice(t, h, at)
    \/ Stop
    \/ Tick

Spec == Init /\ [][Next]_vars

-----------------------------------------------------------------------------
(* Properties *)

\* The variables have the types the code gives them.
TypeOK ==
    /\ clock \in Times
    /\ events \in SUBSET Event
    /\ unsent \in SUBSET Event
    /\ encrypting \in SUBSET Publish
    /\ localListCache \in [Trees -> Entry]
    /\ subscriptions \in [Trees -> Subscription]
    /\ lists \in [ListIds -> List]
    /\ listSubscriptions \in ListIds \cup {NoList}
    /\ ended \in BOOLEAN /\ forgot \in BOOLEAN

\* Whoever joined a shared subscription or list, whenever, was last called
\* with what it holds now: no path through subscribe(), list(), publish(),
\* delete(), injectListEntry() or an event handler changes a root and forgets
\* a callback (nostr.ts 319, 401, 428, 589, 634, 756, 903, 936, 1041).
CallbacksSeeCurrent ==
    /\ \A t \in Trees, c \in Callbacks :
         subscriptions[t].seen[c] \in {Off, subscriptions[t].hash}
    /\ \A i \in ListIds, c \in Callbacks :
         lists[i].seen[c] \in {Off, Present(lists[i].entries)}

\* A list shows no root older than an event it received, in whatever order
\* events of clocks that differ arrive, be they repeated, blocked by a deletion
\* or overtaken by injected entries - until this client publishes or deletes the
\* tree itself: that overwrites the entry with a stamp of its own clock, and only
\* what is received from then on counts (nostr.ts 470, 609, 796-812, 1020).
ListShowsNewest ==
    \A i \in ListIds, t \in Trees :
        lists[i].entries[t].hash # NoHash => lists[i].entries[t].at >= lists[i].newest[t]

\* A deleted tree comes back to a list only with a root stamped UndeleteWindow
\* or more after the deletion, whether an event, a publish() that began before
\* the deletion or an injected entry brings it (nostr.ts 605, 796, 1010).
DeletionHolds ==
    [][\A i \in ListIds, t \in Trees :
        LET old == lists[i].entries[t]
            new == lists'[i].entries[t]
        IN Exists(old) /\ old.hash = NoHash /\ new.hash # NoHash
           => new.at >= old.at + UndeleteWindow]_vars

\* The registered list is one that runs, and no other list of the user keeps a
\* relay subscription open - until stop() leaves a list running, or an
\* unsubscribe function that is called twice unregisters the list that took its
\* list's place (nostr.ts 717, 839-853, 859).
OneListPerUser ==
    /\ listSubscriptions # NoList => Open(lists[listSubscriptions])
    /\ ~forgot => \A i \in ListIds : Open(lists[i]) => i = listSubscriptions
===============================================================================

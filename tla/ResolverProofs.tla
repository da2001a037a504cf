---------------------------- MODULE ResolverProofs ----------------------------
(***************************************************************************)
(* What the resolver promises, for any trees, hashes, callbacks, window    *)
(* and bounds.                                                             *)
(***************************************************************************)
EXTENDS Resolver, TLAPS

-----------------------------------------------------------------------------
(* The operators on subscriptions and lists *)

\* Tell calls the registered callbacks and registers none.
LEMMA TellType ==
    ASSUME NEW V, NEW seen \in [Callbacks -> V \cup {Off}], NEW value \in V
    PROVE  Tell(seen, value) \in [Callbacks -> V \cup {Off}]
BY DEF Tell

\* The roots a list shows are a function from trees to roots, which no
\* callback can mistake for Off.
LEMMA PresentType ==
    ASSUME NEW entries \in [Trees -> Entry]
    PROVE  Present(entries) \in Shown /\ Present(entries) # Off
<1>1. Present(entries) \in Shown
    BY DEF Present, Shown, Entry
<1> QED BY <1>1, OffAssumption DEF Shown, Roots

\* An entry and its absence have the type of an entry.
LEMMA AbsentType == Absent \in Entry
BY DEF Absent, Entry, Roots, Times

\* A list that is closed and a subscription nobody has are of their types.
LEMMA ClosedType == Closed \in List /\ NoSubscription \in Subscription
<1>1. Closed.entries \in [Trees -> Entry]
    BY AbsentType DEF Closed
<1>2. Closed \in List
    BY <1>1 DEF Closed, List, Times
<1>3. NoSubscription \in Subscription
    BY DEF NoSubscription, Subscription, Roots, Times
<1> QED BY <1>2, <1>3

\* Writing an entry changes that entry alone and calls every callback.
LEMMA WithEntryFields ==
    ASSUME NEW list \in List, NEW t \in Trees, NEW entry \in Entry
    PROVE  LET new == WithEntry(list, t, entry)
           IN /\ new \in List
              /\ new.entries = [list.entries EXCEPT ![t] = entry]
              /\ new.newest = list.newest
              /\ new.seen = Tell(list.seen, Present(new.entries))
<1> DEFINE entries == [list.entries EXCEPT ![t] = entry]
           seen == Tell(list.seen, Present(entries))
<1>1. entries \in [Trees -> Entry]
    BY DEF List
<1>2. Present(entries) \in Shown
    BY <1>1, PresentType
<1>3. seen \in [Callbacks -> Shown \cup {Off}]
    <2>1. list.seen \in [Callbacks -> Shown \cup {Off}]
        BY DEF List
    <2> QED BY <2>1, <1>2, TellType
<1>4. WithEntry(list, t, entry) = [entries |-> entries, newest |-> list.newest, seen |-> seen]
    BY DEF WithEntry
<1>5. seen = Tell(list.seen, Present(entries))
    OBVIOUS
<1> HIDE DEF seen
<1>6. entries = [list.entries EXCEPT ![t] = entry]
    OBVIOUS
<1> HIDE DEF entries
<1>7. list.newest \in [Trees -> Times]
    BY DEF List
<1> QED BY <1>1, <1>3, <1>4, <1>5, <1>6, <1>7 DEF List

\* An own entry starts a new count of what was received.
LEMMA WithOwnEntryFields ==
    ASSUME NEW list \in List, NEW t \in Trees, NEW entry \in Entry
    PROVE  LET new == WithOwnEntry(list, t, entry)
           IN /\ new \in List
              /\ new.entries = [list.entries EXCEPT ![t] = entry]
              /\ new.newest = [list.newest EXCEPT ![t] = 0]
              /\ new.seen = Tell(list.seen, Present(new.entries))
<1> DEFINE mid == WithEntry(list, t, entry)
<1>1. /\ mid \in List
      /\ mid.entries = [list.entries EXCEPT ![t] = entry]
      /\ mid.newest = list.newest
      /\ mid.seen = Tell(list.seen, Present(mid.entries))
    BY WithEntryFields
<1>2. WithOwnEntry(list, t, entry) = [mid EXCEPT !.newest[t] = 0]
    BY DEF WithOwnEntry
<1> HIDE DEF mid
<1> QED BY <1>1, <1>2 DEF List, Times

-----------------------------------------------------------------------------
(* Types *)

\* What Send adds is one event, to one of the two sets.
LEMMA SendType ==
    ASSUME TypeOK, NEW e \in Event, Send(e)
    PROVE  /\ events' \in SUBSET Event /\ unsent' \in SUBSET Event
           /\ (events \cup unsent)' = (events \cup unsent) \cup {e}
BY DEF TypeOK, Send

\* The optimistic update keeps the types of cache and subscription.
LEMMA OverwriteType ==
    ASSUME TypeOK, NEW t \in Trees, NEW entry \in Entry, Overwrite(t, entry)
    PROVE  localListCache' \in [Trees -> Entry] /\ subscriptions' \in [Trees -> Subscription]
<1>1. localListCache' \in [Trees -> Entry]
    BY DEF TypeOK, Overwrite
<1> DEFINE sub == subscriptions[t]
           new == [hash |-> entry.hash, at |-> entry.at, seen |-> Tell(sub.seen, entry.hash)]
<1>2. new \in Subscription
    <2>1. sub \in Subscription /\ entry.hash \in Roots /\ entry.at \in Times
        BY DEF TypeOK, Entry
    <2>2. Tell(sub.seen, entry.hash) \in [Callbacks -> Roots \cup {Off}]
        BY <2>1, TellType DEF Subscription
    <2> QED BY <2>1, <2>2 DEF Subscription
<1>3. subscriptions' = [subscriptions EXCEPT ![t] = IF Open(sub) THEN new ELSE sub]
    BY DEF Overwrite
<1> HIDE DEF new
<1> QED BY <1>1, <1>2, <1>3 DEF TypeOK

\* A list that is replaced by a list.
LEMMA ListsType ==
    ASSUME TypeOK, NEW i \in ListIds, NEW list \in List, lists' = [lists EXCEPT ![i] = list]
    PROVE  lists' \in [ListIds -> List] /\ lists'[i] = list
           /\ \A j \in ListIds \ {i} : lists'[j] = lists[j]
BY DEF TypeOK

\* The resolver starts well typed.
LEMMA InitType == Init => TypeOK
<1> SUFFICES ASSUME Init PROVE TypeOK
    OBVIOUS
<1>1. localListCache \in [Trees -> Entry]
    BY AbsentType DEF Init
<1>2. subscriptions \in [Trees -> Subscription] /\ lists \in [ListIds -> List]
    BY ClosedType DEF Init
<1>3. clock \in Times /\ listSubscriptions \in ListIds \cup {NoList} /\ ended \in BOOLEAN /\ forgot \in BOOLEAN
    BY DEF Init, Times
<1>4. events = {} /\ unsent = {} /\ encrypting = {}
    BY DEF Init
<1> QED BY <1>1, <1>2, <1>3, <1>4 DEF TypeOK

\* subscribe and its unsubscribe function keep the types.
LEMMA SubscribeType ==
    ASSUME TypeOK, NEW t \in Trees, NEW c \in Callbacks, Subscribe(t, c) \/ Unsubscribe(t, c)
    PROVE  TypeOK'
<1> DEFINE sub == subscriptions[t]
           cached == localListCache[t]
           joined == [sub EXCEPT !.seen[c] = sub.hash]
           opened == [hash |-> cached.hash, at |-> cached.at, seen |-> [sub.seen EXCEPT ![c] = cached.hash]]
           left == [sub EXCEPT !.seen[c] = Off]
<1>1. sub \in Subscription /\ cached \in Entry
    BY DEF TypeOK
<1>2. joined \in Subscription /\ left \in Subscription
    BY <1>1 DEF Subscription
<1>3. opened \in Subscription
    BY <1>1 DEF Subscription, Entry
<1>4. \E new \in Subscription : subscriptions' = [subscriptions EXCEPT ![t] = new]
    <2>1. CASE Subscribe(t, c)
        BY <2>1, <1>2, <1>3 DEF Subscribe
    <2>2. CASE Unsubscribe(t, c)
        BY <2>2, <1>2, ClosedType DEF Unsubscribe
    <2> QED BY <2>1, <2>2
<1>5. subscriptions' \in [Trees -> Subscription]
    BY <1>4 DEF TypeOK
<1> QED BY <1>5 DEF TypeOK, Subscribe, Unsubscribe, flags

\* An event of a subscription keeps the types.
LEMMA SubEventType ==
    ASSUME TypeOK, NEW e \in events, SubEvent(e)
    PROVE  TypeOK'
<1> DEFINE sub == subscriptions[e.tree]
           new == [hash |-> e.hash, at |-> e.at, seen |-> Tell(sub.seen, e.hash)]
           entry == [hash |-> e.hash, at |-> e.at]
<1>1. e \in Event /\ e.tree \in Trees /\ e.hash \in Roots /\ e.at \in Times
    BY DEF TypeOK, Event
<1>2. sub.seen \in [Callbacks -> Roots \cup {Off}]
    BY <1>1 DEF TypeOK, Subscription
<1>3. Tell(sub.seen, e.hash) \in [Callbacks -> Roots \cup {Off}]
    BY <1>1, <1>2, TellType
<1>4. new \in Subscription /\ entry \in Entry
    BY <1>1, <1>3 DEF Subscription, Entry
<1>5. /\ subscriptions' = [subscriptions EXCEPT ![e.tree] = new]
      /\ localListCache' = [localListCache EXCEPT ![e.tree] = entry]
    BY DEF SubEvent
<1> HIDE DEF new, entry
<1>6. subscriptions' \in [Trees -> Subscription] /\ localListCache' \in [Trees -> Entry]
    BY <1>1, <1>4, <1>5 DEF TypeOK
<1> QED BY <1>6 DEF TypeOK, SubEvent, flags

\* What list() makes of a list: it joins the registered one or opens a closed
\* one with the entries of the cache.
LEMMA ListTreesFields ==
    ASSUME TypeOK, NEW c \in Callbacks, ListTrees(c)
    PROVE  \E i \in ListIds, list \in List :
              /\ lists' = [lists EXCEPT ![i] = list]
              /\ listSubscriptions' = i
              /\ list.seen[c] = Present(list.entries)
              /\ \/ /\ listSubscriptions = i
                    /\ list.entries = lists[i].entries /\ list.newest = lists[i].newest
                    /\ list.seen = [lists[i].seen EXCEPT ![c] = Present(list.entries)]
                 \/ /\ listSubscriptions = NoList /\ ~Open(lists[i])
                    /\ list.entries = localListCache /\ list.newest = [t \in Trees |-> 0]
                    /\ list.seen = [Closed.seen EXCEPT ![c] = Present(list.entries)]
<1>1. CASE listSubscriptions # NoList
    <2> DEFINE i == listSubscriptions
               list == [lists[i] EXCEPT !.seen[c] = Present(lists[i].entries)]
    <2>1. i \in ListIds /\ lists[i] \in List
        BY <1>1 DEF TypeOK
    <2>2. Present(lists[i].entries) \in Shown
        BY <2>1, PresentType DEF List
    <2>3. /\ list \in List /\ list.entries = lists[i].entries /\ list.newest = lists[i].newest
          /\ list.seen = [lists[i].seen EXCEPT ![c] = Present(lists[i].entries)]
          /\ list.seen[c] = Present(list.entries)
        BY <2>1, <2>2 DEF List
    <2>4. lists' = [lists EXCEPT ![i] = list] /\ listSubscriptions' = i
        BY <1>1 DEF ListTrees
    <2> HIDE DEF list
    <2> QED BY <2>1, <2>3, <2>4
<1>2. CASE listSubscriptions = NoList
    <2> DEFINE list == [entries |-> localListCache, newest |-> Closed.newest,
                        seen |-> [Closed.seen EXCEPT ![c] = Present(localListCache)]]
    <2>1. PICK i \in ListIds : /\ ~Open(lists[i])
                               /\ lists' = [lists EXCEPT ![i] = list]
                               /\ listSubscriptions' = i
        BY <1>2 DEF ListTrees
    <2>2. localListCache \in [Trees -> Entry] /\ Present(localListCache) \in Shown
        BY PresentType DEF TypeOK
    <2>3. Closed.seen \in [Callbacks -> Shown \cup {Off}] /\ Closed.newest = [t \in Trees |-> 0]
        BY DEF Closed
    <2>4. /\ list.entries = localListCache /\ list.newest = [t \in Trees |-> 0]
          /\ list.seen = [Closed.seen EXCEPT ![c] = Present(localListCache)]
          /\ list = [entries |-> list.entries, newest |-> list.newest, seen |-> list.seen]
        BY <2>3
    <2> HIDE DEF list
    <2>5. list \in List /\ list.seen[c] = Present(list.entries)
        BY <2>2, <2>3, <2>4 DEF List, Times
    <2> QED BY <1>2, <2>1, <2>4, <2>5
<1> QED BY <1>1, <1>2

\* What the event handler of list() makes of its list.
LEMMA ListEventFields ==
    ASSUME TypeOK, NEW i \in ListIds, NEW e \in events, ListEvent(i, e)
    PROVE  \E list \in List :
              /\ lists' = [lists EXCEPT ![i] = list]
              /\ list.newest = [lists[i].newest EXCEPT ![e.tree] = Max2(@, e.at)]
              /\ IF ListAccepts(lists[i].entries[e.tree], e)
                 THEN /\ list.entries = [lists[i].entries EXCEPT ![e.tree] = [hash |-> e.hash, at |-> e.at]]
                      /\ list.seen = Tell(lists[i].seen, Present(list.entries))
                      /\ localListCache' = [localListCache EXCEPT ![e.tree] = [hash |-> e.hash, at |-> e.at]]
                 ELSE /\ list.entries = lists[i].entries
                      /\ list.seen = lists[i].seen
                      /\ UNCHANGED localListCache
<1> DEFINE old == lists[i]
           heard == [old EXCEPT !.newest[e.tree] = Max2(old.newest[e.tree], e.at)]
           entry == [hash |-> e.hash, at |-> e.at]
           written == WithEntry(heard, e.tree, entry)
<1>1. e.tree \in Trees /\ e.hash \in Roots /\ e.at \in Times /\ old \in List
    BY DEF TypeOK, Event
<1>2. Max2(old.newest[e.tree], e.at) \in Times
    BY <1>1 DEF List, Max2
<1>3. /\ heard \in List /\ heard.entries = old.entries /\ heard.seen = old.seen
      /\ heard.newest = [old.newest EXCEPT ![e.tree] = Max2(old.newest[e.tree], e.at)]
    BY <1>1, <1>2 DEF List
<1>4. entry \in Entry
    BY <1>1 DEF Entry
<1>5. IF ListAccepts(lists[i].entries[e.tree], e)
      THEN /\ lists' = [lists EXCEPT ![i] = written]
           /\ localListCache' = [localListCache EXCEPT ![e.tree] = entry]
      ELSE lists' = [lists EXCEPT ![i] = heard] /\ UNCHANGED localListCache
    BY DEF ListEvent
<1> HIDE DEF heard
<1>6. /\ written \in List /\ written.newest = heard.newest
      /\ written.entries = [heard.entries EXCEPT ![e.tree] = entry]
      /\ written.seen = Tell(heard.seen, Present(written.entries))
    BY <1>1, <1>3, <1>4, WithEntryFields
<1> HIDE DEF written
<1> QED BY <1>3, <1>5, <1>6

\* An event of a list keeps the types.
LEMMA ListEventType ==
    ASSUME TypeOK, NEW i \in ListIds, NEW e \in events, ListEvent(i, e)
    PROVE  TypeOK'
<1>1. e.tree \in Trees /\ [hash |-> e.hash, at |-> e.at] \in Entry
    BY DEF TypeOK, Event, Entry
<1>2. lists' \in [ListIds -> List]
    BY ListEventFields DEF TypeOK
<1>3. localListCache' \in [Trees -> Entry]
    <2>1. \/ UNCHANGED localListCache
          \/ localListCache' = [localListCache EXCEPT ![e.tree] = [hash |-> e.hash, at |-> e.at]]
        BY DEF ListEvent
    <2> HIDE DEF TypeOK
    <2> QED BY <1>1, <2>1 DEF TypeOK
<1> QED BY <1>2, <1>3 DEF TypeOK, ListEvent, flags

\* A callback leaves a list, which may close it.
LEMMA UnlistFields ==
    ASSUME TypeOK, NEW i \in ListIds, NEW c \in Callbacks, Unlist(i, c)
    PROVE  \E list \in List :
              /\ lists' = [lists EXCEPT ![i] = list]
              /\ \/ /\ Open(list) /\ UNCHANGED listSubscriptions
                    /\ list.entries = lists[i].entries /\ list.newest = lists[i].newest
                    /\ list.seen = [lists[i].seen EXCEPT ![c] = Off]
                    /\ UNCHANGED flags
                 \/ /\ list = Closed /\ listSubscriptions' = NoList /\ ended' = TRUE
                    /\ forgot' = (forgot \/ listSubscriptions \notin {NoList, i})
<1> DEFINE list == [lists[i] EXCEPT !.seen[c] = Off]
<1>1. lists[i] \in List
    BY DEF TypeOK
<1>2. /\ list \in List
      /\ list.entries = lists[i].entries /\ list.newest = lists[i].newest
      /\ list.seen = [lists[i].seen EXCEPT ![c] = Off]
    BY <1>1 DEF List
<1>3. \/ /\ Open(list) /\ lists' = [lists EXCEPT ![i] = list]
         /\ UNCHANGED <<listSubscriptions, flags>>
      \/ /\ lists' = [lists EXCEPT ![i] = Closed] /\ listSubscriptions' = NoList /\ ended' = TRUE
         /\ forgot' = (forgot \/ listSubscriptions \notin {NoList, i})
    BY DEF Unlist
<1> HIDE DEF list
<1> QED BY <1>2, <1>3, ClosedType

\* This client writes an entry into the registered list: of a publish() or
\* delete() of its own, or of injectListEntry().
Written(t, entry, own) ==
    /\ listSubscriptions # NoList
    /\ lists' = [lists EXCEPT ![listSubscriptions] =
                    IF own THEN WithOwnEntry(lists[listSubscriptions], t, entry)
                    ELSE WithEntry(lists[listSubscriptions], t, entry)]

\* A local write to the running list changes one entry and tells its callbacks.
LEMMA WrittenFields ==
    ASSUME TypeOK, NEW t \in Trees, NEW entry \in Entry, NEW own \in BOOLEAN,
           Written(t, entry, own)
    PROVE  /\ listSubscriptions \in ListIds
           /\ \E list \in List :
              /\ lists' = [lists EXCEPT ![listSubscriptions] = list]
              /\ list.newest = IF own THEN [lists[listSubscriptions].newest EXCEPT ![t] = 0]
                                ELSE lists[listSubscriptions].newest
              /\ list.entries = [lists[listSubscriptions].entries EXCEPT ![t] = entry]
              /\ list.seen = Tell(lists[listSubscriptions].seen, Present(list.entries))
<1>1. listSubscriptions \in ListIds /\ lists[listSubscriptions] \in List
    BY DEF TypeOK, Written
<1> DEFINE list == IF own THEN WithOwnEntry(lists[listSubscriptions], t, entry)
                   ELSE WithEntry(lists[listSubscriptions], t, entry)
<1>2. /\ list \in List
      /\ list.newest = IF own THEN [lists[listSubscriptions].newest EXCEPT ![t] = 0]
                       ELSE lists[listSubscriptions].newest
      /\ list.entries = [lists[listSubscriptions].entries EXCEPT ![t] = entry]
      /\ list.seen = Tell(lists[listSubscriptions].seen, Present(list.entries))
    <2>1. CASE own
        BY <1>1, <2>1, WithOwnEntryFields
    <2>2. CASE ~own
        BY <1>1, <2>2, WithEntryFields
    <2> QED BY <2>1, <2>2
<1>3. lists' = [lists EXCEPT ![listSubscriptions] = list]
    BY DEF Written
<1> HIDE DEF list
<1> QED BY <1>1, <1>2, <1>3

\* What a local write does to the entries of the list.
LEMMA WrittenEntries ==
    ASSUME TypeOK, NEW t \in Trees, NEW entry \in Entry, NEW own \in BOOLEAN,
           Written(t, entry, own)
    PROVE  \E list \in List :
              /\ lists' = [lists EXCEPT ![listSubscriptions] = list]
              /\ list.entries = [lists[listSubscriptions].entries EXCEPT ![t] = entry]
<1>1. PICK list \in List :
          /\ lists' = [lists EXCEPT ![listSubscriptions] = list]
          /\ list.newest = IF own THEN [lists[listSubscriptions].newest EXCEPT ![t] = 0]
                           ELSE lists[listSubscriptions].newest
          /\ list.entries = [lists[listSubscriptions].entries EXCEPT ![t] = entry]
    BY WrittenFields
<1> QED BY <1>1

\* injectListEntry(): the stamp is the time of the call.
LEMMA InjectFields ==
    ASSUME TypeOK, NEW t \in Trees, NEW h \in Hashes, InjectListEntry(t, h)
    PROVE  LET entry == [hash |-> h, at |-> clock]
           IN /\ entry \in Entry
              /\ lists' = lists \/ (/\ Written(t, entry, FALSE)
                                    /\ ~BlocksUndelete(lists[listSubscriptions].entries[t], h, clock)
                                    /\ clock >= lists[listSubscriptions].entries[t].at)
              /\ \/ UNCHANGED localListCache
                 \/ localListCache' = [localListCache EXCEPT ![t] = entry]
<1>1. [hash |-> h, at |-> clock] \in Entry
    BY DEF TypeOK, Entry, Roots
<1> QED BY <1>1 DEF InjectListEntry, Written

\* publish() once the keys are encrypted.
LEMMA FinishPublishFields ==
    ASSUME TypeOK, NEW t \in Trees, NEW h \in Hashes, NEW now \in Times, FinishPublish(t, h, now)
    PROVE  LET entry == [hash |-> h, at |-> now]
               e == [tree |-> t, hash |-> h, at |-> clock]
           IN /\ entry \in Entry /\ Overwrite(t, entry)
              /\ e \in Event /\ Send(e)
              /\ lists' = lists \/ (/\ Written(t, entry, TRUE)
                                    /\ ~BlocksUndelete(lists[listSubscriptions].entries[t], h, now))
<1>1. [hash |-> h, at |-> now] \in Entry
    BY DEF TypeOK, Entry, Roots
<1>2. [tree |-> t, hash |-> h, at |-> clock] \in Event
    BY DEF TypeOK, Event, Roots
<1> QED BY <1>1, <1>2 DEF FinishPublish, Written

\* delete(): the event is stamped a second after the entries.
LEMMA DeleteFields ==
    ASSUME TypeOK, NEW t \in Trees, Delete(t)
    PROVE  LET entry == [hash |-> NoHash, at |-> clock]
               e == [tree |-> t, hash |-> NoHash, at |-> clock + 1]
           IN /\ entry \in Entry /\ Overwrite(t, entry)
              /\ e \in Event /\ Send(e)
              /\ lists' = lists \/ Written(t, entry, TRUE)
<1>1. [hash |-> NoHash, at |-> clock] \in Entry
    BY DEF TypeOK, Entry, Roots
<1>2. [tree |-> t, hash |-> NoHash, at |-> clock + 1] \in Event
    BY DEF TypeOK, Event, Roots, Times
<1> QED BY <1>1, <1>2 DEF Delete, Written

\* A local write leaves every list a list.
LEMMA WrittenType ==
    ASSUME TypeOK, NEW t \in Trees, NEW entry \in Entry, NEW own \in BOOLEAN,
           lists' = lists \/ Written(t, entry, own)
    PROVE  lists' \in [ListIds -> List]
<1>1. CASE lists' = lists
    BY <1>1 DEF TypeOK
<1>2. CASE Written(t, entry, own)
    <2>1. /\ listSubscriptions \in ListIds
          /\ \E list \in List : lists' = [lists EXCEPT ![listSubscriptions] = list]
        BY <1>2, WrittenFields
    <2> QED BY <2>1 DEF TypeOK
<1> QED BY <1>1, <1>2

\* injectListEntry keeps the types.
LEMMA InjectType ==
    ASSUME TypeOK, NEW t \in Trees, NEW h \in Hashes, InjectListEntry(t, h)
    PROVE  TypeOK'
<1> DEFINE entry == [hash |-> h, at |-> clock]
<1>1. /\ entry \in Entry
      /\ lists' = lists \/ Written(t, entry, FALSE)
      /\ UNCHANGED localListCache \/ localListCache' = [localListCache EXCEPT ![t] = entry]
    BY InjectFields
<1> HIDE DEF entry
<1>2. lists' \in [ListIds -> List]
    BY <1>1, WrittenType
<1>3. localListCache' \in [Trees -> Entry]
    BY <1>1 DEF TypeOK
<1> QED BY <1>2, <1>3 DEF TypeOK, InjectListEntry, flags

\* The second half of publish keeps the types.
LEMMA FinishPublishType ==
    ASSUME TypeOK, NEW t \in Trees, NEW h \in Hashes, NEW now \in Times, FinishPublish(t, h, now),
           encrypting' \in SUBSET Publish
    PROVE  TypeOK'
<1> DEFINE entry == [hash |-> h, at |-> now]
           e == [tree |-> t, hash |-> h, at |-> clock]
<1>1. /\ entry \in Entry /\ Overwrite(t, entry) /\ e \in Event /\ Send(e)
      /\ lists' = lists \/ Written(t, entry, TRUE)
    BY FinishPublishFields
<1> HIDE DEF entry, e
<1>2. localListCache' \in [Trees -> Entry] /\ subscriptions' \in [Trees -> Subscription]
    BY <1>1, OverwriteType
<1>3. events' \in SUBSET Event /\ unsent' \in SUBSET Event
    BY <1>1, SendType
<1>4. lists' \in [ListIds -> List]
    BY <1>1, WrittenType
<1> QED BY <1>2, <1>3, <1>4 DEF TypeOK, FinishPublish, flags

\* delete keeps the types.
LEMMA DeleteType ==
    ASSUME TypeOK, NEW t \in Trees, Delete(t)
    PROVE  TypeOK'
<1> DEFINE entry == [hash |-> NoHash, at |-> clock]
           e == [tree |-> t, hash |-> NoHash, at |-> clock + 1]
<1>1. /\ entry \in Entry /\ Overwrite(t, entry) /\ e \in Event /\ Send(e)
      /\ lists' = lists \/ Written(t, entry, TRUE)
    BY DeleteFields
<1> HIDE DEF entry, e
<1>2. localListCache' \in [Trees -> Entry] /\ subscriptions' \in [Trees -> Subscription]
    BY <1>1, OverwriteType
<1>3. events' \in SUBSET Event /\ unsent' \in SUBSET Event
    BY <1>1, SendType
<1>4. lists' \in [ListIds -> List]
    BY <1>1, WrittenType
<1> QED BY <1>2, <1>3, <1>4 DEF TypeOK, Delete, flags

\* The event of another device carries a stamp of its own.
LEMMA OtherDeviceType ==
    ASSUME TypeOK, NEW t \in Trees, NEW h \in Roots, NEW at \in Stamps, OtherDevice(t, h, at)
    PROVE  TypeOK'
<1>1. at \in Times
    BY BoundsAssumption DEF Stamps, Times
<1>2. [tree |-> t, hash |-> h, at |-> at] \in Event
    BY <1>1 DEF Event
<1> QED BY <1>2 DEF TypeOK, OtherDevice, flags

\* publish() before and after visibility.encrypt.
LEMMA PublishCases ==
    ASSUME TypeOK, NEW t \in Trees, NEW h \in Hashes
    PROVE  /\ PublishPublic(t, h) => TypeOK'
           /\ StartPublish(t, h) => TypeOK'
<1>1. ASSUME PublishPublic(t, h) PROVE TypeOK'
    BY <1>1, FinishPublishType DEF PublishPublic, TypeOK
<1>2. ASSUME StartPublish(t, h) PROVE TypeOK'
    <2>1. [tree |-> t, hash |-> h, now |-> clock] \in Publish
        BY DEF TypeOK, Publish
    <2> QED BY <1>2, <2>1 DEF StartPublish, TypeOK, flags
<1> QED BY <1>1, <1>2

\* An encryption that ends, one way or the other, keeps the types.
LEMMA EncryptType ==
    ASSUME TypeOK, NEW p \in encrypting, Encrypted(p) \/ EncryptFails(p)
    PROVE  TypeOK'
<1>1. p.tree \in Trees /\ p.hash \in Hashes /\ p.now \in Times /\ encrypting \ {p} \in SUBSET Publish
    BY DEF TypeOK, Publish
<1>2. CASE Encrypted(p)
    BY <1>1, <1>2, FinishPublishType DEF Encrypted
<1>3. CASE EncryptFails(p)
    BY <1>1, <1>3 DEF EncryptFails, TypeOK, flags
<1> QED BY <1>2, <1>3

\* Every step keeps the types.
LEMMA NextType == TypeOK /\ [Next]_vars => TypeOK'
<1> SUFFICES ASSUME TypeOK, [Next]_vars PROVE TypeOK'
    OBVIOUS
<1>1. CASE \E t \in Trees, c \in Callbacks : Subscribe(t, c) \/ Unsubscribe(t, c)
    BY <1>1, SubscribeType
<1>2. CASE \E c \in Callbacks : ListTrees(c)
    <2>1. PICK c \in Callbacks : ListTrees(c)
        BY <1>2
    <2>2. lists' \in [ListIds -> List] /\ listSubscriptions' \in ListIds
        BY <2>1, ListTreesFields DEF TypeOK
    <2> QED BY <2>1, <2>2 DEF ListTrees, TypeOK, flags
<1>3. CASE \E i \in ListIds, c \in Callbacks : Unlist(i, c)
    <2>1. PICK i \in ListIds, c \in Callbacks : Unlist(i, c)
        BY <1>3
    <2>2. lists' \in [ListIds -> List] /\ listSubscriptions' \in ListIds \cup {NoList}
        BY <2>1, UnlistFields DEF TypeOK
    <2>3. ended' \in BOOLEAN /\ forgot' \in BOOLEAN
        BY <2>1 DEF Unlist, TypeOK, flags
    <2> QED BY <2>1, <2>2, <2>3 DEF Unlist, TypeOK
<1>4. CASE \E e \in events : SubEvent(e)
    BY <1>4, SubEventType
<1>5. CASE \E i \in ListIds, e \in events : ListEvent(i, e)
    BY <1>5, ListEventType
<1>6. CASE \E t \in Trees, h \in Hashes : InjectListEntry(t, h) \/ PublishPublic(t, h) \/ StartPublish(t, h)
    BY <1>6, InjectType, PublishCases
<1>7. CASE \E p \in encrypting : Encrypted(p) \/ EncryptFails(p)
    BY <1>7, EncryptType
<1>8. CASE \E t \in Trees : Delete(t)
    BY <1>8, DeleteType
<1>9. CASE \E t \in Trees, h \in Roots, at \in Stamps : OtherDevice(t, h, at)
    BY <1>9, OtherDeviceType
<1>10. CASE Stop
    <2>1. subscriptions' \in [Trees -> Subscription]
        BY <1>10, ClosedType DEF Stop
    <2> QED BY <1>10, <2>1 DEF Stop, TypeOK
<1>11. CASE Tick
    <2>1. clock' \in Times
        BY <1>11 DEF Tick, TypeOK, Times
    <2> QED BY <1>11, <2>1 DEF Tick, TypeOK, flags
<1>12. CASE UnlistAgain
    BY <1>12 DEF UnlistAgain, TypeOK
<1>13. CASE UNCHANGED vars
    BY <1>13 DEF vars, TypeOK
<1> QED BY <1>1, <1>2, <1>3, <1>4, <1>5, <1>6, <1>7, <1>8, <1>9, <1>10, <1>11, <1>12, <1>13 DEF Next

\* The three places that keep a root, and the events they are filled from,
\* have the types of nostr.ts in every reachable state: in particular every
\* callback was given a root or a whole list, never a cache entry.
THEOREM ResolverTypeCorrect == Spec => []TypeOK
BY InitType, NextType, PTL DEF Spec

-----------------------------------------------------------------------------
(* Callbacks and registered lists *)

\* A list that was closed holds nothing: list() starts it from the cache.
ClosedIsEmpty == \A i \in ListIds : Open(lists[i]) \/ lists[i] = Closed

ListInv == TypeOK /\ CallbacksSeeCurrent /\ OneListPerUser /\ ClosedIsEmpty

\* The callbacks of one subscription or list have all seen what it holds.
SubCurrent(sub) == \A c \in Callbacks : sub.seen[c] \in {Off, sub.hash}
ListCurrent(list) == \A c \in Callbacks : list.seen[c] \in {Off, Present(list.entries)}

\* Tell brings every registered callback up to date, and leaves it registered.
LEMMA TellSeen ==
    ASSUME NEW seen, NEW value, value # Off
    PROVE  /\ \A c \in Callbacks : Tell(seen, value)[c] \in {Off, value}
           /\ \A c \in Callbacks : Tell(seen, value)[c] # Off <=> seen[c] # Off
BY DEF Tell

\* A step that changes one list, to one whose callbacks are up to date, and
\* that registers, unregisters or leaves alone the lists as the code does.
LEMMA OneListChanges ==
    ASSUME ListInv, NEW i \in ListIds, NEW list \in List,
           lists' = [lists EXCEPT ![i] = list],
           ListCurrent(list), Open(list) \/ list = Closed,
           \/ /\ Open(list) /\ listSubscriptions' = i /\ listSubscriptions \in {i, NoList}
              /\ UNCHANGED forgot
           \/ Open(list) = Open(lists[i]) /\ UNCHANGED <<listSubscriptions, forgot>>
           \/ /\ Open(lists[i]) /\ ~Open(list) /\ listSubscriptions' = NoList
              /\ forgot' = (forgot \/ listSubscriptions \notin {NoList, i})
    PROVE  /\ \A j \in ListIds : ListCurrent(lists'[j])
           /\ OneListPerUser' /\ ClosedIsEmpty'
<1>1. /\ lists'[i] = list /\ \A j \in ListIds : j # i => lists'[j] = lists[j]
      /\ listSubscriptions \in ListIds \cup {NoList}
    BY DEF ListInv, TypeOK
<1>2. \A j \in ListIds : ListCurrent(lists'[j])
    BY <1>1 DEF ListInv, CallbacksSeeCurrent, ListCurrent
<1>3. \A j \in ListIds : Open(lists'[j]) = IF j = i THEN Open(list) ELSE Open(lists[j])
    BY <1>1 DEF Open
<1>4. OneListPerUser'
    <2>1. listSubscriptions' # NoList => Open(lists'[listSubscriptions'])
        BY <1>1, <1>3, SentinelAssumption DEF ListInv, OneListPerUser
    <2>2. ~forgot' => \A j \in ListIds : Open(lists'[j]) => j = listSubscriptions'
        BY <1>1, <1>3, SentinelAssumption DEF ListInv, OneListPerUser
    <2> QED BY <2>1, <2>2 DEF OneListPerUser, Open
<1>5. ClosedIsEmpty'
    BY <1>1 DEF ListInv, ClosedIsEmpty
<1> QED BY <1>2, <1>4, <1>5

\* Replacing a subscription by one whose callbacks are up to date.
LEMMA OneSubChanges ==
    ASSUME ListInv, NEW t \in Trees, NEW sub, subscriptions' = [subscriptions EXCEPT ![t] = sub],
           SubCurrent(sub)
    PROVE  \A u \in Trees : SubCurrent(subscriptions'[u])
BY DEF ListInv, TypeOK, CallbacksSeeCurrent, SubCurrent

\* CallbacksSeeCurrent, one subscription and one list at a time.
LEMMA CurrentParts ==
    /\ CallbacksSeeCurrent <=> /\ \A t \in Trees : SubCurrent(subscriptions[t])
                               /\ \A i \in ListIds : ListCurrent(lists[i])
    /\ CallbacksSeeCurrent' <=> /\ \A t \in Trees : SubCurrent(subscriptions'[t])
                                /\ \A i \in ListIds : ListCurrent(lists'[i])
BY DEF CallbacksSeeCurrent, SubCurrent, ListCurrent

\* Steps that leave the lists alone.
LEMMA ListsUntouched ==
    ASSUME ListInv, UNCHANGED <<lists, listSubscriptions, forgot>>
    PROVE  /\ \A j \in ListIds : ListCurrent(lists'[j])
           /\ OneListPerUser' /\ ClosedIsEmpty'
BY DEF ListInv, CallbacksSeeCurrent, ListCurrent, OneListPerUser, ClosedIsEmpty, Open

\* Subscriptions a step leaves alone stay current.
LEMMA SubsUntouched ==
    ASSUME ListInv, UNCHANGED subscriptions
    PROVE  \A u \in Trees : SubCurrent(subscriptions'[u])
BY DEF ListInv, CallbacksSeeCurrent, SubCurrent

\* publish() and delete() tell the callbacks of the subscription.
LEMMA OverwriteCurrent ==
    ASSUME ListInv, NEW t \in Trees, NEW entry \in Entry, Overwrite(t, entry)
    PROVE  \A u \in Trees : SubCurrent(subscriptions'[u])
<1> DEFINE sub == subscriptions[t]
           new == [hash |-> entry.hash, at |-> entry.at, seen |-> Tell(sub.seen, entry.hash)]
<1>1. entry.hash # Off
    BY SentinelAssumption DEF Entry, Roots
<1>2. SubCurrent(new)
    BY <1>1, TellSeen DEF SubCurrent
<1>3. SubCurrent(sub)
    BY CurrentParts DEF ListInv
<1>4. \E s : SubCurrent(s) /\ subscriptions' = [subscriptions EXCEPT ![t] = s]
    BY <1>2, <1>3 DEF Overwrite
<1> QED BY <1>4, OneSubChanges

\* ... and those of the registered list.
LEMMA WrittenCurrent ==
    ASSUME ListInv, NEW t \in Trees, NEW entry \in Entry, NEW own \in BOOLEAN,
           lists' = lists \/ Written(t, entry, own),
           UNCHANGED <<listSubscriptions, forgot>>
    PROVE  /\ \A j \in ListIds : ListCurrent(lists'[j])
           /\ OneListPerUser' /\ ClosedIsEmpty'
<1>1. CASE lists' = lists
    BY <1>1, ListsUntouched
<1>2. CASE Written(t, entry, own)
    <2> DEFINE i == listSubscriptions
    <2>1. PICK list \in List :
              /\ i \in ListIds
              /\ lists' = [lists EXCEPT ![i] = list]
              /\ list.seen = Tell(lists[i].seen, Present(list.entries))
        BY <1>2, WrittenFields DEF ListInv
    <2>2. Present(list.entries) # Off
        BY PresentType DEF List
    <2>3. ListCurrent(list) /\ Open(list) = Open(lists[i])
        BY <2>1, <2>2, TellSeen DEF ListCurrent, Open
    <2>4. Open(lists[i])
        BY <1>2 DEF Written, ListInv, OneListPerUser
    <2> QED BY <2>1, <2>3, <2>4, OneListChanges
<1> QED BY <1>1, <1>2

\* Nobody is subscribed and no list runs at the start.
LEMMA InitList == Init => ListInv
<1> SUFFICES ASSUME Init PROVE ListInv
    OBVIOUS
<1>1. TypeOK
    BY InitType
<1>2. CallbacksSeeCurrent
    BY DEF Init, CallbacksSeeCurrent, NoSubscription, Closed
<1>3. \A i \in ListIds : lists[i] = Closed /\ ~Open(lists[i])
    BY DEF Init, Closed, Open
<1> QED BY <1>1, <1>2, <1>3 DEF Init, ListInv, OneListPerUser, ClosedIsEmpty

\* Joining, opening and leaving a subscription.
LEMMA SubscribeCurrent ==
    ASSUME ListInv, NEW t \in Trees, NEW c \in Callbacks, Subscribe(t, c) \/ Unsubscribe(t, c)
    PROVE  \A u \in Trees : SubCurrent(subscriptions'[u])
<1> DEFINE sub == subscriptions[t]
           cached == localListCache[t]
           joined == [sub EXCEPT !.seen[c] = sub.hash]
           opened == [hash |-> cached.hash, at |-> cached.at, seen |-> [sub.seen EXCEPT ![c] = cached.hash]]
           left == [sub EXCEPT !.seen[c] = Off]
<1>1. sub \in Subscription /\ SubCurrent(sub)
    BY CurrentParts DEF ListInv, TypeOK
<1>2. SubCurrent(joined) /\ SubCurrent(left)
    BY <1>1 DEF SubCurrent, Subscription
<1>3. ~Open(sub) => SubCurrent(opened)
    BY <1>1 DEF SubCurrent, Subscription, Open
<1>4. SubCurrent(NoSubscription)
    BY DEF SubCurrent, NoSubscription
<1>5. CASE Subscribe(t, c)
    <2>1. subscriptions' = [subscriptions EXCEPT ![t] = IF Open(sub) THEN joined ELSE opened]
        BY <1>5 DEF Subscribe
    <2> HIDE DEF joined, opened
    <2> QED BY <2>1, <1>2, <1>3, OneSubChanges
<1>6. CASE Unsubscribe(t, c)
    <2>1. subscriptions' = [subscriptions EXCEPT ![t] = IF Open(left) THEN left ELSE NoSubscription]
        BY <1>6 DEF Unsubscribe
    <2> HIDE DEF left
    <2> QED BY <2>1, <1>2, <1>4, OneSubChanges
<1> QED BY <1>5, <1>6

\* An event a subscription takes is told to all its callbacks.
LEMMA SubEventCurrent ==
    ASSUME ListInv, NEW e \in events, SubEvent(e)
    PROVE  \A u \in Trees : SubCurrent(subscriptions'[u])
<1> DEFINE sub == subscriptions[e.tree]
           new == [hash |-> e.hash, at |-> e.at, seen |-> Tell(sub.seen, e.hash)]
<1>1. e.tree \in Trees /\ e.hash # Off
    BY SentinelAssumption DEF ListInv, TypeOK, Event, Roots
<1>2. SubCurrent(new)
    BY <1>1, TellSeen DEF SubCurrent
<1>3. subscriptions' = [subscriptions EXCEPT ![e.tree] = new]
    BY DEF SubEvent
<1> HIDE DEF new
<1> QED BY <1>1, <1>2, <1>3, OneSubChanges

\* list() joins the running list or starts the only one, and tells its callback.
LEMMA ListTreesCurrent ==
    ASSUME ListInv, NEW c \in Callbacks, ListTrees(c)
    PROVE  /\ \A j \in ListIds : ListCurrent(lists'[j])
           /\ OneListPerUser' /\ ClosedIsEmpty'
<1>0. TypeOK
    BY DEF ListInv
<1>1. PICK i \in ListIds, list \in List :
          /\ lists' = [lists EXCEPT ![i] = list]
          /\ listSubscriptions' = i
          /\ list.seen[c] = Present(list.entries)
          /\ \/ /\ listSubscriptions = i
                /\ list.entries = lists[i].entries /\ list.newest = lists[i].newest
                /\ list.seen = [lists[i].seen EXCEPT ![c] = Present(list.entries)]
             \/ /\ listSubscriptions = NoList /\ ~Open(lists[i])
                /\ list.entries = localListCache /\ list.newest = [t \in Trees |-> 0]
                /\ list.seen = [Closed.seen EXCEPT ![c] = Present(list.entries)]
    BY <1>0, ListTreesFields
<1>2. Present(list.entries) # Off
    BY PresentType DEF List
<1>3. Open(list)
    BY <1>1, <1>2 DEF Open
<1>4. ListCurrent(lists[i]) /\ lists[i] \in List /\ Closed.seen = [d \in Callbacks |-> Off]
    BY CurrentParts DEF ListInv, TypeOK, Closed
<1>5. ListCurrent(list)
    BY <1>1, <1>4 DEF ListCurrent, List
<1>6. UNCHANGED forgot
    BY DEF ListTrees, flags
<1> QED BY <1>1, <1>3, <1>5, <1>6, OneListChanges

\* The last callback to leave closes the list it belongs to.
LEMMA UnlistCurrent ==
    ASSUME ListInv, NEW i \in ListIds, NEW c \in Callbacks, Unlist(i, c)
    PROVE  /\ \A j \in ListIds : ListCurrent(lists'[j])
           /\ OneListPerUser' /\ ClosedIsEmpty'
<1>1. PICK list \in List :
          /\ lists' = [lists EXCEPT ![i] = list]
          /\ \/ /\ Open(list) /\ UNCHANGED listSubscriptions
                /\ list.entries = lists[i].entries
                /\ list.seen = [lists[i].seen EXCEPT ![c] = Off]
                /\ UNCHANGED forgot
             \/ /\ list = Closed /\ listSubscriptions' = NoList
                /\ forgot' = (forgot \/ listSubscriptions \notin {NoList, i})
    BY UnlistFields DEF ListInv, flags
<1>2. ListCurrent(lists[i]) /\ lists[i] \in List /\ Open(lists[i])
    BY CurrentParts DEF ListInv, TypeOK, Unlist, Open
<1>3. ~Open(Closed) /\ ListCurrent(Closed)
    BY DEF Closed, Open, ListCurrent
<1>4. ListCurrent(list)
    BY <1>1, <1>2, <1>3 DEF ListCurrent, List
<1> QED BY <1>1, <1>2, <1>3, <1>4, OneListChanges

\* An event a list takes is told to all its callbacks.
LEMMA ListEventCurrent ==
    ASSUME ListInv, NEW i \in ListIds, NEW e \in events, ListEvent(i, e)
    PROVE  /\ \A j \in ListIds : ListCurrent(lists'[j])
           /\ OneListPerUser' /\ ClosedIsEmpty'
<1>1. PICK list \in List :
          /\ lists' = [lists EXCEPT ![i] = list]
          /\ \/ list.seen = Tell(lists[i].seen, Present(list.entries))
             \/ list.entries = lists[i].entries /\ list.seen = lists[i].seen
    BY ListEventFields DEF ListInv
<1>2. ListCurrent(lists[i]) /\ Open(lists[i]) /\ UNCHANGED <<forgot, listSubscriptions>>
    BY CurrentParts DEF ListInv, ListEvent, flags
<1>3. Present(list.entries) # Off
    BY PresentType DEF List
<1>4. ListCurrent(list) /\ Open(list) = Open(lists[i])
    BY <1>1, <1>2, <1>3, TellSeen DEF ListCurrent, Open
<1> QED BY <1>1, <1>2, <1>4, OneListChanges

\* Every step keeps the callbacks informed and the lists registered.
LEMMA NextList == ListInv /\ [Next]_vars => ListInv'
<1> SUFFICES ASSUME ListInv, [Next]_vars PROVE ListInv'
    OBVIOUS
<1>0. TypeOK'
    BY NextType DEF ListInv
<1> DEFINE ListPart == /\ \A j \in ListIds : ListCurrent(lists'[j])
                       /\ OneListPerUser' /\ ClosedIsEmpty'
           SubPart == \A u \in Trees : SubCurrent(subscriptions'[u])
<1> SUFFICES ListPart /\ SubPart
    BY <1>0, CurrentParts DEF ListInv
<1> HIDE DEF ListPart, SubPart
<1> USE DEF ListPart, SubPart
<1>1. CASE \E t \in Trees, c \in Callbacks : Subscribe(t, c) \/ Unsubscribe(t, c)
    <2>1. UNCHANGED <<lists, listSubscriptions, forgot>>
        BY <1>1 DEF Subscribe, Unsubscribe, flags
    <2> QED BY <1>1, <2>1, SubscribeCurrent, ListsUntouched
<1>2. CASE \E c \in Callbacks : ListTrees(c)
    <2>1. UNCHANGED subscriptions
        BY <1>2 DEF ListTrees
    <2> QED BY <1>2, <2>1, ListTreesCurrent, SubsUntouched
<1>3. CASE \E i \in ListIds, c \in Callbacks : Unlist(i, c)
    <2>1. UNCHANGED subscriptions
        BY <1>3 DEF Unlist
    <2> QED BY <1>3, <2>1, UnlistCurrent, SubsUntouched
<1>4. CASE \E e \in events : SubEvent(e)
    <2>1. UNCHANGED <<lists, listSubscriptions, forgot>>
        BY <1>4 DEF SubEvent, flags
    <2> QED BY <1>4, <2>1, SubEventCurrent, ListsUntouched
<1>5. CASE \E i \in ListIds, e \in events : ListEvent(i, e)
    <2>1. UNCHANGED subscriptions
        BY <1>5 DEF ListEvent
    <2> QED BY <1>5, <2>1, ListEventCurrent, SubsUntouched
<1>6. ASSUME NEW t \in Trees, NEW h \in Hashes, InjectListEntry(t, h)
      PROVE  ListPart /\ SubPart
    <2>1. UNCHANGED <<subscriptions, listSubscriptions, forgot>>
        BY <1>6 DEF InjectListEntry, flags
    <2>2. \E entry \in Entry : lists' = lists \/ Written(t, entry, FALSE)
        BY <1>6, InjectFields DEF ListInv
    <2> QED BY <2>1, <2>2, WrittenCurrent, SubsUntouched
<1>7. ASSUME NEW t \in Trees, NEW h \in Hashes, NEW now \in Times, FinishPublish(t, h, now)
      PROVE  ListPart /\ SubPart
    <2>1. UNCHANGED <<listSubscriptions, forgot>>
        BY <1>7 DEF FinishPublish, flags
    <2>2. \E entry \in Entry : Overwrite(t, entry) /\ (lists' = lists \/ Written(t, entry, TRUE))
        BY <1>7, FinishPublishFields DEF ListInv
    <2> QED BY <2>1, <2>2, WrittenCurrent, OverwriteCurrent
<1>8. CASE \E t \in Trees, h \in Hashes : PublishPublic(t, h)
    <2>1. clock \in Times
        BY DEF ListInv, TypeOK
    <2> QED BY <1>7, <1>8, <2>1 DEF PublishPublic
<1>9. CASE \E t \in Trees, h \in Hashes : StartPublish(t, h)
    <2>1. UNCHANGED <<subscriptions, lists, listSubscriptions, forgot>>
        BY <1>9 DEF StartPublish, flags
    <2> QED BY <2>1, SubsUntouched, ListsUntouched
<1>10. CASE \E p \in encrypting : Encrypted(p)
    <2>1. PICK p \in encrypting : FinishPublish(p.tree, p.hash, p.now)
        BY <1>10 DEF Encrypted
    <2>2. p.tree \in Trees /\ p.hash \in Hashes /\ p.now \in Times
        BY DEF ListInv, TypeOK, Publish
    <2> QED BY <1>7, <2>1, <2>2
<1>11. CASE \E p \in encrypting : EncryptFails(p)
    <2>1. UNCHANGED <<subscriptions, lists, listSubscriptions, forgot>>
        BY <1>11 DEF EncryptFails, flags
    <2> QED BY <2>1, SubsUntouched, ListsUntouched
<1>12. ASSUME NEW t \in Trees, Delete(t)
       PROVE  ListPart /\ SubPart
    <2>1. UNCHANGED <<listSubscriptions, forgot>>
        BY <1>12 DEF Delete, flags
    <2>2. \E entry \in Entry : Overwrite(t, entry) /\ (lists' = lists \/ Written(t, entry, TRUE))
        BY <1>12, DeleteFields DEF ListInv
    <2> QED BY <2>1, <2>2, WrittenCurrent, OverwriteCurrent
<1>13. CASE \E t \in Trees, h \in Roots, at \in Stamps : OtherDevice(t, h, at)
    <2>1. UNCHANGED <<subscriptions, lists, listSubscriptions, forgot>>
        BY <1>13 DEF OtherDevice, flags
    <2> QED BY <2>1, SubsUntouched, ListsUntouched
<1>14. CASE Stop
    <2>1. SubPart
        BY <1>14 DEF Stop, SubCurrent, NoSubscription
    <2>2. ListPart
        BY <1>14, CurrentParts DEF Stop, ListInv, OneListPerUser, ClosedIsEmpty, Open, ListCurrent
    <2> QED BY <2>1, <2>2
<1>16. CASE UnlistAgain
    <2>1. UNCHANGED subscriptions
        BY <1>16 DEF UnlistAgain
    <2>2. ListPart
        BY <1>16, CurrentParts DEF UnlistAgain, ListInv, OneListPerUser, ClosedIsEmpty, Open, ListCurrent
    <2> QED BY <2>1, <2>2, SubsUntouched
<1>15. CASE Tick \/ UNCHANGED vars
    <2>1. UNCHANGED <<subscriptions, lists, listSubscriptions, forgot>>
        BY <1>15 DEF Tick, vars, flags
    <2> QED BY <2>1, SubsUntouched, ListsUntouched
<1> QED BY <1>1, <1>2, <1>3, <1>4, <1>5, <1>6, <1>8, <1>9, <1>10, <1>11, <1>12, <1>13, <1>14, <1>15, <1>16 DEF Next

\* Whoever joined a shared subscription or list has been called with what it
\* holds now (nostr.ts 319, 401, 428, 589, 634, 756, 903, 936, 1041), for any
\* number of callbacks, trees, lists and events.
THEOREM EveryCallbackSeesCurrent == Spec => []CallbacksSeeCurrent
<1>1. ListInv => CallbacksSeeCurrent
    BY DEF ListInv
<1> QED BY <1>1, InitList, NextList, PTL DEF Spec

\* The registered list runs, and it is the only one until stop(), or an
\* unsubscribe function that is called again, forgets a list that runs
\* (nostr.ts 717, 839-853, 859).
THEOREM OneListRuns == Spec => []OneListPerUser
<1>1. ListInv => OneListPerUser
    BY DEF ListInv
<1> QED BY <1>1, InitList, NextList, PTL DEF Spec

\* A deleted tree comes back to a list only with a root stamped UndeleteWindow
\* or more after the deletion (nostr.ts 605, 796, 1010).  A list that opens is
\* not an exception: a closed list holds no deletion.
THEOREM DeletionsHold == Spec => DeletionHolds
<1> DEFINE Holds(old, new) ==
        Exists(old) /\ old.hash = NoHash /\ new.hash # NoHash => new.at >= old.at + UndeleteWindow
    Step == \A i \in ListIds, t \in Trees : Holds(lists[i].entries[t], lists'[i].entries[t])
<1>1. ListInv /\ [Next]_vars => [Step]_vars
    <2> SUFFICES ASSUME ListInv, [Next]_vars PROVE Step
        OBVIOUS
    <2>0. TypeOK
        BY DEF ListInv
    <2>1. ASSUME lists' = lists PROVE Step
        BY <2>1
    <2>2. ASSUME NEW t \in Trees, NEW entry \in Entry, NEW own \in BOOLEAN, Written(t, entry, own),
                 Holds(lists[listSubscriptions].entries[t], entry)
          PROVE  Step
        <3>1. listSubscriptions \in ListIds
            BY <2>0, <2>2 DEF Written, TypeOK
        <3> HIDE DEF Holds
        <3>2. PICK list \in List :
                  /\ lists' = [lists EXCEPT ![listSubscriptions] = list]
                  /\ list.entries = [lists[listSubscriptions].entries EXCEPT ![t] = entry]
            BY <2>0, <2>2, WrittenEntries
        <3>3. \A i \in ListIds, u \in Trees :
                  \/ lists'[i].entries[u] = lists[i].entries[u]
                  \/ i = listSubscriptions /\ u = t /\ lists'[i].entries[u] = entry
            BY <2>0, <3>1, <3>2 DEF TypeOK, List
        <3>4. \A i \in ListIds, u \in Trees : Holds(lists[i].entries[u], lists[i].entries[u])
            BY DEF Holds
        <3> QED BY <2>2, <3>3, <3>4
    <2>3. ASSUME NEW t \in Trees, NEW entry \in Entry, NEW old \in Entry,
                 ~BlocksUndelete(old, entry.hash, entry.at)
          PROVE  Holds(old, entry)
        BY <2>3, WindowAssumption DEF BlocksUndelete, Exists, Entry, Times
    <2>4. ASSUME NEW c \in Callbacks, ListTrees(c) PROVE Step
        <3>1. PICK i \in ListIds, list \in List :
                  /\ lists' = [lists EXCEPT ![i] = list]
                  /\ listSubscriptions' = i
                  /\ list.seen[c] = Present(list.entries)
                  /\ \/ /\ listSubscriptions = i
                        /\ list.entries = lists[i].entries /\ list.newest = lists[i].newest
                        /\ list.seen = [lists[i].seen EXCEPT ![c] = Present(list.entries)]
                     \/ /\ listSubscriptions = NoList /\ ~Open(lists[i])
                        /\ list.entries = localListCache /\ list.newest = [t \in Trees |-> 0]
                        /\ list.seen = [Closed.seen EXCEPT ![c] = Present(list.entries)]
            BY <2>0, <2>4, ListTreesFields
        <3>2. \/ list.entries = lists[i].entries
              \/ \A t \in Trees : ~Exists(lists[i].entries[t])
            BY <3>1 DEF ListInv, ClosedIsEmpty, Closed, Absent, Exists
        <3> QED BY <2>0, <3>1, <3>2 DEF TypeOK
    <2>5. ASSUME NEW i \in ListIds, NEW c \in Callbacks, Unlist(i, c) PROVE Step
        <3>1. PICK list \in List :
                  /\ lists' = [lists EXCEPT ![i] = list]
                  /\ \/ list.entries = lists[i].entries
                     \/ list = Closed
            BY <2>0, <2>5, UnlistFields
        <3>2. \A t \in Trees : Closed.entries[t].hash = NoHash
            BY DEF Closed, Absent
        <3> QED BY <2>0, <3>1, <3>2 DEF TypeOK
    <2>6. ASSUME NEW i \in ListIds, NEW e \in events, ListEvent(i, e) PROVE Step
        <3> DEFINE old == lists[i].entries[e.tree]
                   entry == [hash |-> e.hash, at |-> e.at]
        <3>1. e.tree \in Trees /\ entry \in Entry /\ old \in Entry
            BY <2>0 DEF TypeOK, Event, Entry, List
        <3>2. PICK list \in List :
                  /\ lists' = [lists EXCEPT ![i] = list]
                  /\ \/ /\ ListAccepts(old, e)
                        /\ list.entries = [lists[i].entries EXCEPT ![e.tree] = entry]
                     \/ list.entries = lists[i].entries
            <4>1. \E list \in List :
                      /\ lists' = [lists EXCEPT ![i] = list]
                      /\ IF ListAccepts(lists[i].entries[e.tree], e)
                         THEN list.entries = [lists[i].entries EXCEPT ![e.tree] = [hash |-> e.hash, at |-> e.at]]
                         ELSE list.entries = lists[i].entries
                BY <2>0, <2>6, ListEventFields, Zenon
            <4> QED BY <4>1
        <3>3. ListAccepts(old, e) => Holds(old, entry)
            <4>1. ListAccepts(old, e) /\ Exists(old) => ~BlocksUndelete(old, entry.hash, entry.at)
                BY DEF ListAccepts
            <4> QED BY <4>1, <3>1, <2>3
        <3> HIDE DEF entry
        <3>4. \A j \in ListIds, u \in Trees :
                  \/ lists'[j].entries[u] = lists[j].entries[u]
                  \/ j = i /\ u = e.tree /\ lists'[j].entries[u] = entry /\ ListAccepts(old, e)
            BY <2>0, <3>1, <3>2 DEF TypeOK, List
        <3> QED BY <3>3, <3>4
    <2>7. ASSUME NEW t \in Trees, NEW h \in Hashes, InjectListEntry(t, h) PROVE Step
        <3> DEFINE entry == [hash |-> h, at |-> clock]
        <3>1. /\ entry \in Entry /\ entry.hash = h /\ entry.at = clock
              /\ lists' = lists \/ (/\ Written(t, entry, FALSE)
                                    /\ ~BlocksUndelete(lists[listSubscriptions].entries[t], h, clock))
            BY <2>0, <2>7, InjectFields
        <3> HIDE DEF entry
        <3>2. Written(t, entry, FALSE) => lists[listSubscriptions].entries[t] \in Entry
            BY <2>0 DEF TypeOK, List, Written
        <3> QED BY <2>1, <2>2, <2>3, <3>1, <3>2
    <2>8. ASSUME NEW t \in Trees, NEW h \in Hashes, NEW now \in Times, FinishPublish(t, h, now)
          PROVE  Step
        <3> DEFINE entry == [hash |-> h, at |-> now]
        <3>1. /\ entry \in Entry /\ entry.hash = h /\ entry.at = now
              /\ lists' = lists \/ (/\ Written(t, entry, TRUE)
                                    /\ ~BlocksUndelete(lists[listSubscriptions].entries[t], h, now))
            BY <2>0, <2>8, FinishPublishFields
        <3> HIDE DEF entry
        <3>2. Written(t, entry, TRUE) => lists[listSubscriptions].entries[t] \in Entry
            BY <2>0 DEF TypeOK, List, Written
        <3> QED BY <2>1, <2>2, <2>3, <3>1, <3>2
    <2>9. ASSUME NEW p \in encrypting, Encrypted(p) PROVE Step
        <3>1. p.tree \in Trees /\ p.hash \in Hashes /\ p.now \in Times
            BY <2>0 DEF TypeOK, Publish
        <3> QED BY <2>8, <2>9, <3>1 DEF Encrypted
    <2>10. ASSUME NEW t \in Trees, Delete(t) PROVE Step
        <3> DEFINE entry == [hash |-> NoHash, at |-> clock]
        <3>1. entry \in Entry /\ entry.hash = NoHash /\ (lists' = lists \/ Written(t, entry, TRUE))
            BY <2>0, <2>10, DeleteFields
        <3> HIDE DEF entry
        <3> QED BY <2>1, <2>2, <3>1
    <2>11. ASSUME NEW t \in Trees, NEW h \in Hashes, PublishPublic(t, h) PROVE Step
        <3>1. clock \in Times
            BY <2>0 DEF TypeOK
        <3> QED BY <2>8, <2>11, <3>1 DEF PublishPublic
    <2> HIDE DEF Step
    <2>12. CASE \E t \in Trees, c \in Callbacks : Subscribe(t, c) \/ Unsubscribe(t, c)
        BY <2>1, <2>12 DEF Subscribe, Unsubscribe
    <2>13. CASE \E e \in events : SubEvent(e)
        BY <2>1, <2>13 DEF SubEvent
    <2>14. CASE \E t \in Trees, h \in Hashes : StartPublish(t, h)
        BY <2>1, <2>14 DEF StartPublish
    <2>15. CASE \E p \in encrypting : EncryptFails(p)
        BY <2>1, <2>15 DEF EncryptFails
    <2>16. CASE \E t \in Trees, h \in Roots, at \in Stamps : OtherDevice(t, h, at)
        BY <2>1, <2>16 DEF OtherDevice
    <2>17. CASE Stop \/ UnlistAgain \/ Tick \/ UNCHANGED vars
        BY <2>1, <2>17 DEF Stop, UnlistAgain, Tick, vars
    <2> QED BY <2>4, <2>5, <2>6, <2>7, <2>9, <2>10, <2>11, <2>12, <2>13, <2>14, <2>15, <2>16, <2>17 DEF Next
<1>2. [][Step]_vars => DeletionHolds
    BY PTL DEF DeletionHolds
<1> QED BY <1>1, <1>2, InitList, NextList, PTL DEF Spec

-----------------------------------------------------------------------------
(* What a list shows, and the events it received *)

\* How far the entry of a tree may lag behind the newest event received since
\* this client last wrote it.  A root does not; a deletion may, because it keeps
\* roots out that are less than UndeleteWindow newer.
Fresh(entry, newest) ==
    /\ newest > 0 => entry.at > 0
    /\ entry.hash # NoHash => entry.at >= newest
    /\ entry.hash = NoHash => newest < entry.at + UndeleteWindow

ListsFresh ==
    \A i \in ListIds, t \in Trees : Fresh(lists[i].entries[t], lists[i].newest[t])

NewestInv == TypeOK /\ ListsFresh

\* An entry no event was received for.
LEMMA UnheardFresh ==
    ASSUME NEW entry \in Entry PROVE Fresh(entry, 0)
<1>1. entry.at \in Nat /\ UndeleteWindow \in Nat \ {0}
    BY WindowAssumption DEF Entry, Times
<1> QED BY <1>1 DEF Fresh

\* The handler of list() keeps a list fresh, whichever way it decides.
LEMMA FreshEvent ==
    ASSUME NEW entry \in Entry, NEW newest \in Times, NEW e \in Event, Fresh(entry, newest)
    PROVE  IF ListAccepts(entry, e) THEN Fresh([hash |-> e.hash, at |-> e.at], Max2(newest, e.at))
           ELSE Fresh(entry, Max2(newest, e.at))
<1>1. e.at \in Nat /\ entry.at \in Nat /\ newest \in Nat /\ UndeleteWindow \in Nat \ {0}
    BY WindowAssumption DEF Event, Entry, Times
<1>2. Max2(newest, e.at) \in Nat /\ Max2(newest, e.at) = IF newest > e.at THEN newest ELSE e.at
    BY <1>1 DEF Max2
<1>3. CASE ListAccepts(entry, e)
    <2> DEFINE new == [hash |-> e.hash, at |-> e.at]
    <2>1. new.hash = e.hash /\ new.at = e.at
        OBVIOUS
    <2> HIDE DEF new
    <2>2. Fresh(new, Max2(newest, e.at))
        BY <1>1, <1>2, <1>3, <2>1 DEF Fresh, ListAccepts, BlocksUndelete, Exists
    <2> QED BY <1>3, <2>2 DEF new
<1>4. CASE ~ListAccepts(entry, e)
    BY <1>1, <1>2, <1>4 DEF Fresh, ListAccepts, BlocksUndelete, Exists
<1> QED BY <1>3, <1>4

\* injectListEntry() writes only over what is not newer than its stamp.
LEMMA FreshInjection ==
    ASSUME NEW old \in Entry, NEW newest \in Times, Fresh(old, newest), NEW entry \in Entry,
           entry.hash # NoHash, ~BlocksUndelete(old, entry.hash, entry.at), entry.at >= old.at
    PROVE  Fresh(entry, newest)
<1>1. entry.at \in Nat /\ old.at \in Nat /\ newest \in Nat /\ UndeleteWindow \in Nat \ {0}
    BY WindowAssumption DEF Entry, Times
<1> QED BY <1>1 DEF Fresh, BlocksUndelete, Exists

\* Steps that replace one list.
LEMMA OneListFresh ==
    ASSUME NewestInv, NEW i \in ListIds, NEW list \in List, lists' = [lists EXCEPT ![i] = list],
           \A t \in Trees : Fresh(list.entries[t], list.newest[t])
    PROVE  ListsFresh'
<1> SUFFICES ASSUME NEW j \in ListIds, NEW t \in Trees
             PROVE  Fresh(lists'[j].entries[t], lists'[j].newest[t])
    BY DEF ListsFresh
<1>1. Fresh(lists[j].entries[t], lists[j].newest[t])
    BY DEF NewestInv, ListsFresh
<1>2. lists'[j] = IF j = i THEN list ELSE lists[j]
    BY DEF NewestInv, TypeOK
<1> QED BY <1>1, <1>2

\* This client writes an entry that is fresh in the registered list.
LEMMA WrittenFresh ==
    ASSUME NewestInv, NEW t \in Trees, NEW entry \in Entry, NEW own \in BOOLEAN,
           Written(t, entry, own),
           ~own => Fresh(entry, lists[listSubscriptions].newest[t])
    PROVE  ListsFresh'
<1> DEFINE i == listSubscriptions
<1>0. TypeOK
    BY DEF NewestInv
<1>1. i \in ListIds
    BY <1>0, WrittenFields
<1>2. PICK list \in List :
          /\ lists' = [lists EXCEPT ![i] = list]
          /\ list.newest = IF own THEN [lists[i].newest EXCEPT ![t] = 0] ELSE lists[i].newest
          /\ list.entries = [lists[i].entries EXCEPT ![t] = entry]
    BY <1>0, WrittenFields
<1>3. ASSUME NEW u \in Trees PROVE Fresh(list.entries[u], list.newest[u])
    <2>1. lists[i].entries \in [Trees -> Entry] /\ lists[i].newest \in [Trees -> Times]
        BY <1>0, <1>1 DEF TypeOK, List
    <2>2. Fresh(lists[i].entries[u], lists[i].newest[u])
        BY <1>1 DEF NewestInv, ListsFresh
    <2>3. CASE u # t
        BY <1>2, <2>1, <2>2, <2>3
    <2>4. CASE u = t /\ own
        <3>1. list.entries[u] = entry /\ list.newest[u] = 0
            BY <1>2, <2>1, <2>4
        <3> QED BY <3>1, UnheardFresh
    <2>5. CASE u = t /\ ~own
        <3>1. list.entries[u] = entry /\ list.newest[u] = lists[i].newest[t]
            BY <1>2, <2>1, <2>5
        <3> QED BY <2>5, <3>1
    <2> QED BY <2>3, <2>4, <2>5
<1> QED BY <1>1, <1>2, <1>3, OneListFresh

\* No list has received anything at the start.
LEMMA InitNewest == Init => NewestInv
<1> SUFFICES ASSUME Init PROVE NewestInv
    OBVIOUS
<1>1. ASSUME NEW i \in ListIds, NEW t \in Trees
      PROVE  Fresh(lists[i].entries[t], lists[i].newest[t])
    <2>1. lists[i].entries[t] = Absent /\ lists[i].newest[t] = 0
        BY DEF Init, Closed
    <2> QED BY <2>1, AbsentType, UnheardFresh
<1> QED BY <1>1, InitType DEF NewestInv, ListsFresh

\* A list that starts has not received anything; one that is joined stays as it is.
LEMMA ListTreesFresh ==
    ASSUME NewestInv, NEW c \in Callbacks, ListTrees(c)
    PROVE  ListsFresh'
<1>0. TypeOK
    BY DEF NewestInv
<1>1. PICK i \in ListIds, list \in List :
          /\ lists' = [lists EXCEPT ![i] = list]
          /\ listSubscriptions' = i
          /\ list.seen[c] = Present(list.entries)
          /\ \/ /\ listSubscriptions = i
                /\ list.entries = lists[i].entries /\ list.newest = lists[i].newest
                /\ list.seen = [lists[i].seen EXCEPT ![c] = Present(list.entries)]
             \/ /\ listSubscriptions = NoList /\ ~Open(lists[i])
                /\ list.entries = localListCache /\ list.newest = [t \in Trees |-> 0]
                /\ list.seen = [Closed.seen EXCEPT ![c] = Present(list.entries)]
    BY <1>0, ListTreesFields
<1>2. ASSUME NEW t \in Trees PROVE Fresh(list.entries[t], list.newest[t])
    <2>1. Fresh(lists[i].entries[t], lists[i].newest[t]) /\ list.entries[t] \in Entry
        BY DEF NewestInv, ListsFresh, List
    <2>2. CASE list.newest = [u \in Trees |-> 0]
        <3>1. list.newest[t] = 0
            BY <2>2
        <3> QED BY <2>1, <3>1, UnheardFresh
    <2> QED BY <1>1, <2>1, <2>2
<1> QED BY <1>1, <1>2, OneListFresh

\* A list that is closed holds nothing.
LEMMA UnlistFresh ==
    ASSUME NewestInv, NEW i \in ListIds, NEW c \in Callbacks, Unlist(i, c)
    PROVE  ListsFresh'
<1>1. PICK list \in List :
          /\ lists' = [lists EXCEPT ![i] = list]
          /\ \/ list.entries = lists[i].entries /\ list.newest = lists[i].newest
             \/ list = Closed
    BY UnlistFields DEF NewestInv
<1>2. ASSUME NEW t \in Trees PROVE Fresh(list.entries[t], list.newest[t])
    <2>1. Fresh(lists[i].entries[t], lists[i].newest[t])
        BY DEF NewestInv, ListsFresh
    <2>2. CASE list = Closed
        <3>1. list.entries[t] = Absent /\ list.newest[t] = 0
            BY <2>2 DEF Closed
        <3> QED BY <3>1, AbsentType, UnheardFresh
    <2> QED BY <1>1, <2>1, <2>2
<1> QED BY <1>1, <1>2, OneListFresh

\* A list takes the newest of what it is sent, outside the window of a deletion.
LEMMA ListEventFresh ==
    ASSUME NewestInv, NEW i \in ListIds, NEW e \in events, ListEvent(i, e)
    PROVE  ListsFresh'
<1>0. TypeOK
    BY DEF NewestInv
<1> DEFINE old == lists[i].entries[e.tree]
           entry == [hash |-> e.hash, at |-> e.at]
<1>1. PICK list \in List :
          /\ lists' = [lists EXCEPT ![i] = list]
          /\ list.newest = [lists[i].newest EXCEPT ![e.tree] = Max2(@, e.at)]
          /\ IF ListAccepts(old, e)
             THEN list.entries = [lists[i].entries EXCEPT ![e.tree] = entry]
             ELSE list.entries = lists[i].entries
    BY <1>0, ListEventFields
<1>2. /\ e \in Event /\ e.tree \in Trees /\ lists[i].entries \in [Trees -> Entry]
      /\ lists[i].newest \in [Trees -> Times]
    BY <1>0 DEF TypeOK, Event, List
<1>3. ASSUME NEW t \in Trees PROVE Fresh(list.entries[t], list.newest[t])
    <2>1. Fresh(lists[i].entries[t], lists[i].newest[t])
        BY DEF NewestInv, ListsFresh
    <2>2. CASE t = e.tree
        <3>1. IF ListAccepts(old, e) THEN Fresh(entry, Max2(lists[i].newest[t], e.at))
              ELSE Fresh(old, Max2(lists[i].newest[t], e.at))
            BY <1>2, <2>1, <2>2, FreshEvent
        <3> HIDE DEF entry
        <3> QED BY <1>1, <1>2, <2>2, <3>1
    <2>3. CASE t # e.tree
        BY <1>1, <1>2, <2>1, <2>3
    <2> QED BY <2>2, <2>3
<1> QED BY <1>1, <1>3, OneListFresh

\* An injected entry is stamped no earlier than what it replaces.
LEMMA InjectFresh ==
    ASSUME NewestInv, NEW t \in Trees, NEW h \in Hashes, InjectListEntry(t, h), lists' # lists
    PROVE  ListsFresh'
<1> DEFINE entry == [hash |-> h, at |-> clock]
           old == lists[listSubscriptions].entries[t]
           newest == lists[listSubscriptions].newest[t]
<1>0. TypeOK
    BY DEF NewestInv
<1>1. /\ entry \in Entry /\ entry.hash = h /\ entry.at = clock
      /\ Written(t, entry, FALSE) /\ ~BlocksUndelete(old, h, clock) /\ clock >= old.at
    BY <1>0, InjectFields
<1> HIDE DEF entry
<1>2. listSubscriptions \in ListIds /\ old \in Entry /\ newest \in Times
    BY <1>0, <1>1 DEF TypeOK, List, Written
<1>3. Fresh(old, newest)
    BY <1>2 DEF NewestInv, ListsFresh
<1>4. Fresh(entry, newest)
    BY <1>1, <1>2, <1>3, FreshInjection, SentinelAssumption
<1> QED BY <1>1, <1>4, WrittenFresh

\* Every step keeps the lists as fresh as their events allow.
LEMMA NextNewest == NewestInv /\ [Next]_vars => NewestInv'
<1> SUFFICES ASSUME NewestInv, [Next]_vars PROVE ListsFresh'
    BY NextType DEF NewestInv
<1>0. TypeOK
    BY DEF NewestInv
<1>1. ASSUME lists' = lists PROVE ListsFresh'
    BY <1>1 DEF NewestInv, ListsFresh
<1>2. CASE \E c \in Callbacks : ListTrees(c)
    BY <1>2, ListTreesFresh
<1>3. CASE \E i \in ListIds, c \in Callbacks : Unlist(i, c)
    BY <1>3, UnlistFresh
<1>4. CASE \E i \in ListIds, e \in events : ListEvent(i, e)
    BY <1>4, ListEventFresh
<1>5. CASE \E t \in Trees, h \in Hashes : InjectListEntry(t, h)
    BY <1>1, <1>5, InjectFresh
<1>6. ASSUME NEW t \in Trees, NEW h \in Hashes, NEW now \in Times, FinishPublish(t, h, now)
      PROVE  ListsFresh'
    <2>1. \E entry \in Entry : lists' = lists \/ Written(t, entry, TRUE)
        BY <1>0, <1>6, FinishPublishFields
    <2> QED BY <1>1, <2>1, WrittenFresh
<1>7. CASE \E t \in Trees, h \in Hashes : PublishPublic(t, h)
    <2>1. clock \in Times
        BY <1>0 DEF TypeOK
    <2> QED BY <1>6, <1>7, <2>1 DEF PublishPublic
<1>8. CASE \E p \in encrypting : Encrypted(p)
    <2>1. PICK p \in encrypting : FinishPublish(p.tree, p.hash, p.now)
        BY <1>8 DEF Encrypted
    <2>2. p.tree \in Trees /\ p.hash \in Hashes /\ p.now \in Times
        BY <1>0 DEF TypeOK, Publish
    <2> QED BY <1>6, <2>1, <2>2
<1>9. ASSUME NEW t \in Trees, Delete(t) PROVE ListsFresh'
    <2>1. \E entry \in Entry : lists' = lists \/ Written(t, entry, TRUE)
        BY <1>0, <1>9, DeleteFields
    <2> QED BY <1>1, <2>1, WrittenFresh
<1>10. CASE \/ \E t \in Trees, c \in Callbacks : Subscribe(t, c) \/ Unsubscribe(t, c)
            \/ \E e \in events : SubEvent(e)
            \/ \E t \in Trees, h \in Hashes : StartPublish(t, h)
            \/ \E p \in encrypting : EncryptFails(p)
            \/ \E t \in Trees, h \in Roots, at \in Stamps : OtherDevice(t, h, at)
            \/ UnlistAgain \/ Stop \/ Tick \/ UNCHANGED vars
    <2>1. lists' = lists
        BY <1>10 DEF Subscribe, Unsubscribe, SubEvent, StartPublish, EncryptFails, OtherDevice,
                     UnlistAgain, Stop, Tick, vars
    <2> QED BY <1>1, <2>1
<1> QED BY <1>2, <1>3, <1>4, <1>5, <1>7, <1>8, <1>9, <1>10 DEF Next

\* Since this client last published or deleted a tree itself, a list of it shows
\* no root older than an event it received (nostr.ts 470, 609, 796-812, 1020),
\* whatever clocks stamp the events, in whatever order and however often they
\* arrive, and whatever is injected in between.
THEOREM ListsShowNewest == Spec => []ListShowsNewest
<1>1. NewestInv => ListShowsNewest
    BY DEF NewestInv, ListsFresh, Fresh, ListShowsNewest
<1> QED BY <1>1, InitNewest, NextNewest, PTL DEF Spec
===============================================================================

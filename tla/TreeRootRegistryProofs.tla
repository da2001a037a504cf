------------------------ MODULE TreeRootRegistryProofs ------------------------
(***************************************************************************)
(* Proofs about TreeRootRegistry, for every set of accounts, names, roots, *)
(* callers and publish slots, every delay and every bound.                 *)
(***************************************************************************)
EXTENDS TreeRootRegistry, TLAPS

\* An event that is signed has an author: what the type of events rests on.
SignedHasAuthor ==
    \A c \in Calls : inflight[c] # None /\ inflight[c].phase # "preparing"
                        => inflight[c].author # None

TypeInv == TypeOK /\ SignedHasAuthor

-----------------------------------------------------------------------------
(* The operators that build records give records.                          *)

\* An option falls back to a default of the same type (the code's ??).
LEMMA OrType ==
    ASSUME NEW S, NEW x \in S \cup {None}, NEW y \in S \cup {None}
    PROVE  Or(x, y) \in S \cup {None}
BY DEF Or

\* A default that is not undefined makes the option defined.
LEMMA OrDefined ==
    ASSUME NEW S, NEW x \in S \cup {None}, NEW y \in S
    PROVE  Or(x, y) \in S
BY DEF Or

\* Every option setLocal and the updates are given has the type of its field.
LEMMA KeyOptionType ==
    ASSUME NEW h \in Hashes, NEW x \in KeyOption(h)
    PROVE  x \in Hashes \cup {None}
BY DEF KeyOption

\* setLocal writes a record.
LEMMA LocalRecordType ==
    ASSUME NEW e \in Record \cup {None}, NEW h \in Hashes,
           NEW key \in Hashes \cup {None}, NEW v \in Visibilities \cup {None},
           NEW enc \in Hashes \cup {None}, now \in Nat
    PROVE  LocalRecord(e, h, key, v, enc) \in Record
<1>1. Or(v, IF e = None THEN "public" ELSE e.visibility) \in Visibilities
  BY OrDefined, VisibilityAssumption DEF Record
<1>2. Or(enc, IF e = None THEN None ELSE e.encryptedKey) \in Hashes \cup {None}
  BY OrType DEF Record
<1> QED BY <1>1, <1>2 DEF LocalRecord, Record, Sources

\* The record an accepted update writes: clean, of the root and time it names,
\* and not a local write.
CleanUpdate(r, h, t) ==
    r \in Record /\ r.hash = h /\ ~r.dirty /\ r.source # "local-write" /\ r.updatedAt = t

\* An accepted update from the resolver or the worker writes such a record.
LEMMA AcceptedRecordType ==
    ASSUME NEW e \in Record \cup {None}, NEW h \in Hashes,
           NEW key \in Hashes \cup {None}, NEW v \in Visibilities \cup {None},
           NEW t \in Times, NEW src \in {"nostr", "worker"},
           NEW enc \in Hashes \cup {None}
    PROVE  CleanUpdate(AcceptedRecord(e, h, key, v, t, src, enc), h, t)
<1> DEFINE sameHash == e # None /\ e.hash = h
<1>1. Or(v, "public") \in Visibilities
  BY OrDefined, VisibilityAssumption
<1>2. Or(key, IF sameHash THEN e.key ELSE None) \in Hashes \cup {None}
  BY OrType DEF Record
<1>3. Or(enc, IF sameHash THEN e.encryptedKey ELSE None) \in Hashes \cup {None}
  BY OrType DEF Record
<1>4. t \in Nat BY BoundsAssumption DEF Times
<1> QED BY <1>1, <1>2, <1>3, <1>4 DEF AcceptedRecord, CleanUpdate, Record, Sources

\* So does setFromExternal.
LEMMA ExternalRecordType ==
    ASSUME NEW e \in Record \cup {None}, NEW h \in Hashes,
           NEW key \in Hashes \cup {None}, NEW v \in Visibilities \cup {None},
           NEW t \in Times
    PROVE  CleanUpdate(ExternalRecord(e, h, key, v, t), h, t)
<1> DEFINE sameHash == e # None /\ e.hash = h
<1>1. Or(v, IF e = None THEN "public" ELSE e.visibility) \in Visibilities
  BY OrDefined, VisibilityAssumption DEF Record
<1>2. Or(key, IF sameHash THEN e.key ELSE None) \in Hashes \cup {None}
  BY OrType DEF Record
<1>3. t \in Nat BY BoundsAssumption DEF Times
<1> QED BY <1>1, <1>2, <1>3 DEF ExternalRecord, CleanUpdate, Record, Sources

\* Records that differ at most in key, visibility and wrapped key.
SameWrite(r, e) ==
    /\ r \in Record /\ r.hash = e.hash /\ r.source = e.source
    /\ r.dirty = e.dirty /\ r.updatedAt = e.updatedAt

\* Merging metadata keeps a record of the same root, source and time.
LEMMA MergeType ==
    ASSUME NEW e \in Record, NEW key \in Hashes \cup {None},
           NEW v \in Visibilities \cup {None}, NEW enc \in Hashes \cup {None}
    PROVE  SameWrite(mergeSameHashMetadata(e, key, v, enc), e)
<1>1. Or(e.key, key) \in Hashes \cup {None} BY OrType DEF Record
<1>2. Or(e.encryptedKey, enc) \in Hashes \cup {None} BY OrType DEF Record
<1>3. (IF e.visibility = "public" THEN Or(v, e.visibility) ELSE e.visibility) \in Visibilities
  BY OrDefined DEF Record
<1> QED BY <1>1, <1>2, <1>3 DEF mergeSameHashMetadata, SameWrite, Record

-----------------------------------------------------------------------------
(* What a step of each kind does to the records, stated once.              *)

\* The records change at k only, localStorage gets them or keeps what it had,
\* and the waiters of k are served.
Writes(k, r) ==
    /\ records' = [records EXCEPT ![k] = r]
    /\ persisted' = records' \/ persisted' = persisted
    /\ Notify(k)

\* A record's key is undefined or the key of its own root.
KeyFits(r) == r # None => r.key \in {None, r.hash}

\* Record r in place of e, whose key fits: the key fits again, and the key of a
\* root that stays is not lost.
KeyKept(e, r) ==
    KeyFits(e) =>
        /\ KeyFits(r)
        /\ e # None /\ r.hash = e.hash /\ e.key # None => r.key = e.key

\* An update from outside: a clean record replaces a clean one or none, and it
\* counts as a local write only if it still is the one that was there.
Updates(k, r) ==
    /\ Writes(k, r)
    /\ r \in Record /\ ~Dirty(r) /\ ~Dirty(records[k])
    /\ CleanWrite(r) => CleanWrite(records[k]) /\ r.hash = records[k].hash
    /\ records[k] # None => r.updatedAt >= records[k].updatedAt
    /\ KeyKept(records[k], r)

\* The key an accepted update writes: its own, or the one of the same root.
LEMMA AcceptedKeyKept ==
    ASSUME NEW e \in Record \cup {None}, NEW h \in Hashes, NEW key \in {None, h},
           NEW a \in Record, a.hash = h,
           a.key = Or(key, IF e # None /\ e.hash = h THEN e.key ELSE None)
    PROVE  KeyKept(e, a)
BY NoneAssumption DEF KeyKept, KeyFits, Or

\* Merging fills in a key that is missing and keeps one that is there.
LEMMA MergedKeyKept ==
    ASSUME NEW e \in Record, NEW key \in {None, e.hash},
           NEW v \in Visibilities \cup {None}, NEW enc \in Hashes \cup {None}
    PROVE  KeyKept(e, mergeSameHashMetadata(e, key, v, enc))
<1> DEFINE m == mergeSameHashMetadata(e, key, v, enc)
<1>1. m.hash = e.hash /\ m.key = Or(e.key, key)
  BY DEF mergeSameHashMetadata, Record
<1>2. e # None
  BY NoneAssumption
<1> HIDE DEF m
<1>3. KeyFits(e) => KeyFits(m) /\ (e.key # None => m.key = e.key)
  BY <1>1, <1>2 DEF KeyFits, Or
<1>4. KeyKept(e, m)
  BY <1>3 DEF KeyKept
<1> QED BY <1>4 DEF m

\* Write in the model is Writes here.
LEMMA WriteEffect ==
    ASSUME NEW k \in Trees, NEW r, Write(k, r)
    PROVE  Writes(k, r)
BY DEF Write, Writes, Save

\* The two outcomes of an update that is not ignored are both Updates.
LEMMA ApplyUpdateEffect ==
    ASSUME TypeOK, NEW k \in Trees, NEW a, NEW h \in Hashes,
           NEW key \in {None, h}, NEW v \in Visibilities \cup {None},
           NEW t \in Times, NEW enc \in Hashes \cup {None},
           CleanUpdate(a, h, t), KeyKept(records[k], a),
           ApplyUpdate(k, a, h, key, v, t, enc)
    PROVE  \E r \in Record : Updates(k, r)
<1> DEFINE e == records[k]
           m == mergeSameHashMetadata(e, key, v, enc)
<1>0. e \in Record \cup {None}
  BY DEF TypeOK
<1>1. CASE shouldAcceptUpdate(e, h, key, t) /\ Write(k, a)
  <2>1. e # None => ~e.dirty /\ e.updatedAt <= t
    BY <1>1 DEF shouldAcceptUpdate
  <2>2. Writes(k, a)
    BY <1>1, WriteEffect
  <2>3. e # None => a.updatedAt >= e.updatedAt
    BY <2>1, <1>0, BoundsAssumption DEF Record, Times, CleanUpdate
  <2> QED BY <2>1, <2>2, <2>3 DEF CleanUpdate, Updates, Dirty, CleanWrite
<1>2. CASE /\ ~shouldAcceptUpdate(e, h, key, t) /\ ~e.dirty /\ e.hash = h
           /\ Write(k, m)
  <2>1. e \in Record
    BY <1>0, <1>2 DEF shouldAcceptUpdate
  <2>2. SameWrite(m, e)
    BY <2>1, MergeType
  <2>3. Writes(k, m)
    BY <1>2, WriteEffect
  <2>4. m.updatedAt >= e.updatedAt
    BY <2>1, <2>2 DEF Record, SameWrite
  <2>5. e # None
    BY <2>1, NoneAssumption
  <2>6. KeyKept(e, m)
    BY <1>2, <2>1, MergedKeyKept
  <2> HIDE DEF m
  <2> QED BY <1>2, <2>2, <2>3, <2>4, <2>5, <2>6 DEF SameWrite, Updates, Dirty, CleanWrite
<1> QED BY <1>1, <1>2 DEF ApplyUpdate

\* The variables an update from outside leaves alone.
UpdateFrame == UNCHANGED <<timers, publishFn, inflight, events, deleting, deletedAt,
                           stranded, user, now>>

\* setFromResolver, setFromWorker and setFromExternal.
RemoteUpdate ==
    \E k \in Trees, h \in Hashes, v \in VisibilityOption, t \in Times :
        \E key \in KeyOption(h), enc \in KeyOption(h) :
            \/ setFromResolver(k, h, key, v, t, enc)
            \/ setFromWorker(k, h, key, v, t, enc)
            \/ setFromExternal(k, h, key, v, t)

\* Whatever its source, an update is one of Updates and touches nothing else.
LEMMA RemoteUpdateEffect ==
    ASSUME TypeOK, RemoteUpdate
    PROVE  /\ \E k \in Trees : \E r \in Record : Updates(k, r)
           /\ UpdateFrame
           /\ Spend("remote")
<1>1. PICK k \in Trees, h \in Hashes, v \in VisibilityOption, t \in Times :
        \E key \in KeyOption(h), enc \in KeyOption(h) :
            \/ setFromResolver(k, h, key, v, t, enc)
            \/ setFromWorker(k, h, key, v, t, enc)
            \/ setFromExternal(k, h, key, v, t)
  BY DEF RemoteUpdate
<1>2. PICK key \in KeyOption(h), enc \in KeyOption(h) :
            \/ setFromNostr("nostr", k, h, key, v, t, enc)
            \/ setFromNostr("worker", k, h, key, v, t, enc)
            \/ setFromExternal(k, h, key, v, t)
  BY <1>1 DEF setFromResolver, setFromWorker
<1>3. /\ key \in Hashes \cup {None} /\ enc \in Hashes \cup {None}
      /\ v \in Visibilities \cup {None}
      /\ records[k] \in Record \cup {None}
      /\ key \in {None, h}
  BY KeyOptionType DEF VisibilityOption, TypeOK, KeyOption
<1>4. ASSUME NEW src \in {"nostr", "worker"}, setFromNostr(src, k, h, key, v, t, enc)
      PROVE  (\E r \in Record : Updates(k, r)) /\ UpdateFrame /\ Spend("remote")
  <2>1. CleanUpdate(AcceptedRecord(records[k], h, key, v, t, src, enc), h, t)
    BY <1>3, AcceptedRecordType
  <2>2. /\ ApplyUpdate(k, AcceptedRecord(records[k], h, key, v, t, src, enc),
                       h, key, v, t, enc)
        /\ UpdateFrame /\ Spend("remote")
    BY <1>4 DEF setFromNostr, UpdateFrame
  <2>3. KeyKept(records[k], AcceptedRecord(records[k], h, key, v, t, src, enc))
    BY <1>3, <2>1, AcceptedKeyKept DEF CleanUpdate, AcceptedRecord
  <2> QED BY <1>3, <2>1, <2>2, <2>3, ApplyUpdateEffect
<1>5. ASSUME setFromExternal(k, h, key, v, t)
      PROVE  (\E r \in Record : Updates(k, r)) /\ UpdateFrame /\ Spend("remote")
  <2>1. CleanUpdate(ExternalRecord(records[k], h, key, v, t), h, t)
    BY <1>3, ExternalRecordType
  <2>2. /\ ApplyUpdate(k, ExternalRecord(records[k], h, key, v, t),
                       h, key, v, t, None)
        /\ UpdateFrame /\ Spend("remote")
    BY <1>5 DEF setFromExternal, UpdateFrame
  <2>3. KeyKept(records[k], ExternalRecord(records[k], h, key, v, t))
    BY <1>3, <2>1, AcceptedKeyKept DEF CleanUpdate, ExternalRecord
  <2> QED BY <1>3, <2>1, <2>2, <2>3, ApplyUpdateEffect
<1> QED BY <1>2, <1>4, <1>5

\* A publish starts from the record as it is.
LEMMA SnapshotType ==
    ASSUME TypeOK, NEW k \in Trees, NeedsPublish(k)
    PROVE  Snapshot(k) \in Call
<1>1. records[k] \in Record
  BY DEF TypeOK, NeedsPublish
<1> QED BY <1>1 DEF Snapshot, Call, Record

\* doPublish puts a snapshot of each tree that needs publishing, and nothing
\* else, into slots that were free.
LEMMA DoPublishEffect ==
    ASSUME TypeOK, NEW ks \in SUBSET Trees, doPublish(ks)
    PROVE  /\ inflight' \in [Calls -> Call \cup {None}]
           /\ \A c \in Calls :
                \/ inflight'[c] = inflight[c]
                \/ /\ inflight[c] = None
                   /\ \E k \in ks : NeedsPublish(k) /\ inflight'[c] = Snapshot(k)
           /\ \A k \in ks : NeedsPublish(k) =>
                \E c \in Calls : inflight[c] = None /\ inflight'[c] = Snapshot(k)
<1> DEFINE S == {k \in ks : NeedsPublish(k)}
           started(f, c) == CHOOSE k \in DOMAIN f : f[k] = c
<1>1. PICK f \in Injection(S, FreeCalls) :
        inflight' = [c \in Calls |-> IF c \in Range(f) THEN Snapshot(started(f, c))
                                                       ELSE inflight[c]]
  BY DEF doPublish
<1>2. f \in [S -> FreeCalls] /\ \A a, b \in S : f[a] = f[b] => a = b
  BY DEF Injection, IsInjective
<1>3. ASSUME NEW c \in Range(f)
      PROVE  started(f, c) \in S /\ f[started(f, c)] = c
  <2>1. \E k \in DOMAIN f : f[k] = c
    BY DEF Range
  <2> QED BY <2>1, <1>2
<1>4. ASSUME NEW k \in S
      PROVE  f[k] \in Range(f) /\ started(f, f[k]) = k
  <2>1. f[k] \in Range(f) BY <1>2 DEF Range
  <2> QED BY <2>1, <1>2, <1>3
<1>5. Range(f) \subseteq FreeCalls
  BY <1>2 DEF Range
<1>6. \A k \in S : Snapshot(k) \in Call
  BY SnapshotType
<1> HIDE DEF S, started
<1>7. \A k \in S : k \in ks /\ NeedsPublish(k)
  BY DEF S
<1>8. \A k \in ks : NeedsPublish(k) => k \in S
  BY DEF S
<1>9. inflight' \in [Calls -> Call \cup {None}]
  BY <1>1, <1>3, <1>6 DEF TypeOK
<1>10. \A c \in Calls :
                \/ inflight'[c] = inflight[c]
                \/ /\ inflight[c] = None
                   /\ \E k \in ks : NeedsPublish(k) /\ inflight'[c] = Snapshot(k)
  BY <1>1, <1>3, <1>5, <1>7 DEF FreeCalls
<1>11. \A k \in ks : NeedsPublish(k) =>
                \E c \in Calls : inflight[c] = None /\ inflight'[c] = Snapshot(k)
  BY <1>1, <1>4, <1>5, <1>8, <1>2 DEF FreeCalls
<1> QED BY <1>9, <1>10, <1>11

\* A timer is due at a second of the clock.
LEMMA DueType ==
    ASSUME now \in Nat, NEW d \in Nat
    PROVE  Due(d) \in Nat
BY BoundsAssumption DEF Due

\* Serving the waiters of k keeps each waiting for a tree or for nothing.
LEMMA NotifyType ==
    ASSUME waiting \in [Waiters -> Trees \cup {None}], NEW k, Notify(k)
    PROVE  waiting' \in [Waiters -> Trees \cup {None}]
BY DEF Notify

\* Writing a record keeps the records, localStorage and the waiters in type.
LEMMA WritesType ==
    ASSUME TypeOK, NEW k \in Trees, NEW r \in Record \cup {None}, Writes(k, r)
    PROVE  /\ records' \in [Trees -> Record \cup {None}]
           /\ persisted' \in [Trees -> Record \cup {None}]
           /\ waiting' \in [Waiters -> Trees \cup {None}]
BY NotifyType DEF TypeOK, Writes

\* Counting one more operation keeps the counters in type.
LEMMA SpendType ==
    ASSUME TypeOK, NEW b \in Bounded, Spend(b)
    PROVE  count' \in [Bounded -> Nat]
BY DEF TypeOK, Spend

\* setLocal writes a dirty record of the root it is given and starts a timer.
LEMMA SetLocalEffect ==
    ASSUME TypeOK, NEW k \in Trees, NEW h \in Hashes, NEW v \in VisibilityOption,
           NEW key \in KeyOption(h), NEW enc \in KeyOption(h),
           setLocal(k, h, key, v, enc)
    PROVE  \E r \in Record : r.dirty /\ r.hash = h /\ KeyFits(r) /\ Writes(k, r)
<1>1. /\ key \in Hashes \cup {None} /\ enc \in Hashes \cup {None}
      /\ v \in Visibilities \cup {None} /\ now \in Nat
      /\ records[k] \in Record \cup {None}
  BY KeyOptionType DEF VisibilityOption, TypeOK
<1> DEFINE r == LocalRecord(records[k], h, key, v, enc)
<1>2. r \in Record BY <1>1, LocalRecordType
<1>3. r.hash = h BY DEF LocalRecord
<1>4. r.dirty BY DEF LocalRecord
<1>5. Writes(k, r) BY WriteEffect DEF setLocal
<1>6. KeyFits(r) BY <1>3 DEF LocalRecord, KeyFits, KeyOption
<1> QED BY <1>2, <1>3, <1>4, <1>5, <1>6

\* mergeKey writes the same record with its key filled in.
LEMMA MergeKeyEffect ==
    ASSUME TypeOK, NEW k \in Trees, NEW h \in Hashes, mergeKey(k, h)
    PROVE  /\ records[k] \in Record
           /\ \E r : /\ SameWrite(r, records[k]) /\ r.visibility = records[k].visibility
                     /\ Writes(k, r) /\ KeyFits(r) /\ records[k].key = None
<1>1. records[k] \in Record BY DEF TypeOK, mergeKey
<1> DEFINE r == [records[k] EXCEPT !.key = h]
<1>2. SameWrite(r, records[k]) /\ r.visibility = records[k].visibility
  BY <1>1 DEF SameWrite, Record
<1>3. Writes(k, r) BY WriteEffect DEF mergeKey
<1>4. KeyFits(r) /\ records[k].key = None BY <1>1 DEF mergeKey, KeyFits, Record
<1> QED BY <1>1, <1>2, <1>3, <1>4

\* The acknowledgement of a publish: the record of the tree is marked clean
\* when its root is the one published, and nothing else changes.
LEMMA MarkCleanEffect ==
    ASSUME TypeOK, NEW call \in Call, MarkClean(call)
    PROVE  LET k == call.tree IN
           \/ /\ UNCHANGED <<records, persisted>>
              /\ records[k] # None => records[k].hash # call.hash
           \/ /\ records[k] \in Record /\ records[k].hash = call.hash
              /\ records' = [records EXCEPT ![k] = [@ EXCEPT !.dirty = FALSE]]
              /\ persisted' = records' \/ persisted' = persisted
<1>1. call.tree \in Trees BY DEF Call
<1>2. records[call.tree] \in Record \cup {None} BY <1>1 DEF TypeOK
<1> QED BY <1>1, <1>2 DEF MarkClean, Save

\* Signing and acceptance move a publish along and keep its snapshot.
LEMMA AdvanceEffect ==
    ASSUME TypeOK, NEW c \in Calls, inflight[c] \in Call, signEvent(c) \/ relayAccepts(c)
    PROVE  /\ inflight'[c] \in Call
           /\ inflight'[c].tree = inflight[c].tree
           /\ inflight'[c].hash = inflight[c].hash
<1> DEFINE x == inflight[c]
<1>1. CASE signEvent(c)
  <2>1. inflight'[c] = [x EXCEPT !.phase = "signed", !.author = user, !.createdAt = now]
    BY <1>1 DEF signEvent, TypeOK
  <2>2. user \in Accounts /\ now \in Nat BY <1>1 DEF signEvent, TypeOK
  <2> QED BY <2>1, <2>2 DEF Call
<1>2. CASE relayAccepts(c)
  <2>1. inflight'[c] = [x EXCEPT !.phase = "accepted"]
    BY <1>2 DEF relayAccepts, TypeOK
  <2> QED BY <2>1 DEF Call
<1> QED BY <1>1, <1>2

\* The second half of deleteTree sends a deletion stamped a second ahead, and
\* notes it if nothing of the tree is left to publish; or it sends nothing.
LEMMA SendDeletionEffect ==
    ASSUME TypeOK, NEW k \in Trees, sendDeletion(k)
    PROVE  \/ UNCHANGED <<events, deletedAt>>
           \/ \E e \in Event :
                /\ e.hash = None /\ e.createdAt = now + 1
                /\ events' = events \cup {e}
                /\ \/ deletedAt' = [deletedAt EXCEPT ![e.tree] = None]
                   \/ /\ Quiet(e.tree)
                      /\ deletedAt' = [deletedAt EXCEPT ![e.tree] = now + 1]
<1> DEFINE e == DeletionEvent(k)
<1>1. CASE UNCHANGED <<events, deletedAt>> BY <1>1
<1>2. CASE /\ user # None /\ events' = events \cup {e}
           /\ deletedAt' = [deletedAt EXCEPT
                    ![e.tree] = IF Quiet(e.tree) THEN e.createdAt ELSE None]
  <2>1. <<user, k[2]>> \in Trees BY <1>2 DEF TypeOK, Trees
  <2>2. e \in Event /\ e.hash = None /\ e.createdAt = now + 1
    BY <2>1, VisibilityAssumption DEF DeletionEvent, Event, TypeOK
  <2> HIDE DEF e
  <2> QED BY <1>2, <2>2
<1> QED BY <1>1, <1>2 DEF sendDeletion

\* The steps, with the three updates from outside taken together.
LEMMA NextCases ==
    ASSUME [Next]_vars
    PROVE  \/ UNCHANGED vars
           \/ \E k \in Trees, h \in Hashes, v \in VisibilityOption :
                \E key \in KeyOption(h), enc \in KeyOption(h) : setLocal(k, h, key, v, enc)
           \/ RemoteUpdate
           \/ \E k \in Trees, h \in Hashes : mergeKey(k, h)
           \/ \E k \in Trees : deleteTree(k)
           \/ \E k \in Trees : sendDeletion(k)
           \/ \E w \in Waiters, k \in Trees : resolve(w, k)
           \/ \E w \in Waiters : resolveTimeout(w)
           \/ setPublishFn
           \/ \E k \in Trees : timerFires(k)
           \/ flushPendingPublishes
           \/ \E c \in Calls : signEvent(c)
           \/ \E c \in Calls : relayAccepts(c)
           \/ \E c \in Calls : publishSucceeds(c)
           \/ \E c \in Calls : publishFails(c)
           \/ \E a \in Accounts \cup {None} : switchAccount(a)
           \/ tick
           \/ hydrate
<1>1. \A h : None \in KeyOption(h) BY DEF KeyOption
<1> QED BY <1>1 DEF Next, RemoteUpdate

-----------------------------------------------------------------------------
(* Type correctness.                                                       *)

\* Every step of the registry, the relay and the page keeps the types.
LEMMA TypeStep ==
    ASSUME TypeInv, [Next]_vars
    PROVE  TypeInv'
<1> USE DEF TypeInv
<1>1. CASE UNCHANGED vars
  BY <1>1 DEF vars, TypeOK, SignedHasAuthor
<1>2. ASSUME NEW k \in Trees, NEW h \in Hashes, NEW v \in VisibilityOption,
             NEW key \in KeyOption(h), NEW enc \in KeyOption(h),
             setLocal(k, h, key, v, enc)
      PROVE  TypeInv'
  <2>1. PICK r \in Record : Writes(k, r) BY <1>2, SetLocalEffect
  <2>2. /\ records' \in [Trees -> Record \cup {None}]
        /\ persisted' \in [Trees -> Record \cup {None}]
        /\ waiting' \in [Waiters -> Trees \cup {None}]
    BY <2>1, WritesType
  <2>3. Due(PublishDelay) \in Nat BY DueType, BoundsAssumption DEF TypeOK
  <2>4. timers' \in [Trees -> Nat \cup {None}]
    BY <1>2, <2>3 DEF setLocal, schedulePublish, TypeOK
  <2>5. count' \in [Bounded -> Nat]
    BY <1>2, SpendType DEF setLocal, Bounded
  <2>6. deletedAt' \in [Trees -> Nat \cup {None}]
    BY <1>2 DEF setLocal, TypeOK
  <2>7. UNCHANGED <<publishFn, inflight, events, deleting, user, now>> BY <1>2 DEF setLocal
  <2>8. stranded' \in SUBSET Trees BY <1>2 DEF setLocal, TypeOK
  <2> QED BY <2>2, <2>4, <2>5, <2>6, <2>7, <2>8 DEF TypeOK, SignedHasAuthor
<1>3. CASE RemoteUpdate
  <2>1. PICK k \in Trees, r \in Record : Updates(k, r)
    BY <1>3, RemoteUpdateEffect
  <2>2. /\ records' \in [Trees -> Record \cup {None}]
        /\ persisted' \in [Trees -> Record \cup {None}]
        /\ waiting' \in [Waiters -> Trees \cup {None}]
    BY <2>1, WritesType DEF Updates
  <2>3. UpdateFrame /\ Spend("remote") BY <1>3, RemoteUpdateEffect
  <2>4. count' \in [Bounded -> Nat] BY <2>3, SpendType DEF Bounded
  <2> QED BY <2>2, <2>3, <2>4 DEF UpdateFrame, TypeOK, SignedHasAuthor
<1>4. ASSUME NEW k \in Trees, NEW h \in Hashes, mergeKey(k, h)
      PROVE  TypeInv'
  <2>1. PICK r : SameWrite(r, records[k]) /\ Writes(k, r)
    BY <1>4, MergeKeyEffect
  <2>2. r \in Record \cup {None} BY <2>1 DEF SameWrite
  <2>3. /\ records' \in [Trees -> Record \cup {None}]
        /\ persisted' \in [Trees -> Record \cup {None}]
        /\ waiting' \in [Waiters -> Trees \cup {None}]
    BY <2>1, <2>2, WritesType
  <2> QED BY <1>4, <2>3 DEF mergeKey, TypeOK, SignedHasAuthor
<1>5. ASSUME NEW k \in Trees, deleteTree(k)
      PROVE  TypeInv'
  <2>1. deleting' \in SUBSET Trees /\ stranded' \in SUBSET Trees
    BY <1>5 DEF deleteTree, TypeOK
  <2>2. /\ records' \in [Trees -> Record \cup {None}]
        /\ persisted' \in [Trees -> Record \cup {None}]
    BY <1>5 DEF deleteTree, delete, Save, TypeOK
  <2>3. count' \in [Bounded -> Nat]
    BY <1>5, SpendType DEF deleteTree, delete, Bounded
  <2>4. timers' \in [Trees -> Nat \cup {None}] BY <1>5 DEF deleteTree, delete, TypeOK
  <2> QED BY <1>5, <2>1, <2>2, <2>3, <2>4 DEF deleteTree, TypeOK, SignedHasAuthor
<1>5a. ASSUME NEW k \in Trees, sendDeletion(k)
       PROVE  TypeInv'
  <2>1. events' \in SUBSET Event /\ deletedAt' \in [Trees -> Nat \cup {None}]
    BY <1>5a, SendDeletionEffect DEF TypeOK
  <2>2. deleting' \in SUBSET Trees BY <1>5a DEF sendDeletion, TypeOK
  <2> QED BY <1>5a, <2>1, <2>2 DEF sendDeletion, TypeOK, SignedHasAuthor
<1>6. ASSUME NEW w \in Waiters, resolveTimeout(w) \/ \E k \in Trees : resolve(w, k)
      PROVE  TypeInv'
  BY <1>6 DEF resolve, resolveTimeout, TypeOK, SignedHasAuthor
<1>7. CASE setPublishFn
  BY <1>7 DEF setPublishFn, TypeOK, SignedHasAuthor
<1>8. ASSUME NEW ks \in SUBSET Trees, doPublish(ks), timers' \in [Trees -> Nat \cup {None}],
             stranded' \in SUBSET Trees,
             UNCHANGED <<records, persisted, publishFn, events, deleting, deletedAt, user,
                         waiting, now, count>>
      PROVE  TypeInv'
  <2>1. inflight' \in [Calls -> Call \cup {None}] BY <1>8, DoPublishEffect
  <2>2. SignedHasAuthor'
    <3> SUFFICES ASSUME NEW c \in Calls, inflight'[c] # None,
                        inflight'[c].phase # "preparing"
                 PROVE  inflight'[c].author # None
      BY DEF SignedHasAuthor
    <3>1. \/ inflight'[c] = inflight[c]
          \/ \E k \in ks : inflight'[c] = Snapshot(k)
      BY <1>8, DoPublishEffect
    <3>2. \A k \in ks : Snapshot(k).phase = "preparing"
      BY DEF Snapshot
    <3> QED BY <3>1, <3>2 DEF SignedHasAuthor
  <2> QED BY <1>8, <2>1, <2>2 DEF TypeOK
<1>9. ASSUME NEW k \in Trees, timerFires(k)
      PROVE  TypeInv'
  <2>1. /\ {k} \in SUBSET Trees /\ timers' \in [Trees -> Nat \cup {None}]
        /\ stranded' \in SUBSET Trees
    BY <1>9 DEF timerFires, TypeOK
  <2> QED BY <1>8, <1>9, <2>1 DEF timerFires
<1>10. CASE flushPendingPublishes
  <2>1. /\ {k \in Trees : timers[k] # None} \in SUBSET Trees
        /\ timers' \in [Trees -> Nat \cup {None}]
        /\ stranded' \in SUBSET Trees
    BY <1>10 DEF flushPendingPublishes, TypeOK
  <2> QED BY <1>8, <1>10, <2>1 DEF flushPendingPublishes
<1>11. ASSUME NEW c \in Calls, signEvent(c)
       PROVE  TypeInv'
  <2>1. inflight[c] \in Call BY <1>11 DEF signEvent, InFlight, TypeOK
  <2>2. inflight'[c] \in Call /\ inflight'[c].author # None
    BY <1>11, <2>1 DEF signEvent, InFlight, Call, TypeOK
  <2>3. inflight' \in [Calls -> Call \cup {None}]
    BY <1>11, <2>2 DEF signEvent, TypeOK
  <2> QED BY <1>11, <2>2, <2>3 DEF signEvent, TypeOK, SignedHasAuthor
<1>12. ASSUME NEW c \in Calls, relayAccepts(c)
       PROVE  TypeInv'
  <2>1. inflight[c] \in Call /\ inflight[c].author \in Accounts
    BY <1>12 DEF relayAccepts, InFlight, TypeOK, SignedHasAuthor, Call
  <2>2. CallEvent(inflight[c]) \in Event
    BY <2>1 DEF CallEvent, Event, Call, Trees
  <2>3. inflight' = [inflight EXCEPT ![c] = [inflight[c] EXCEPT !.phase = "accepted"]]
    BY <1>12, <2>1 DEF relayAccepts
  <2>4. [inflight[c] EXCEPT !.phase = "accepted"] \in Call
    BY <2>1 DEF Call
  <2>5. [inflight[c] EXCEPT !.phase = "accepted"].author # None
    BY <2>1, NoneAssumption DEF Call
  <2>6. TypeOK' BY <1>12, <2>2, <2>3, <2>4 DEF relayAccepts, TypeOK
  <2>7. SignedHasAuthor' BY <2>3, <2>5 DEF SignedHasAuthor, TypeOK
  <2> QED BY <2>6, <2>7
<1>13. ASSUME NEW c \in Calls, publishSucceeds(c)
       PROVE  TypeInv'
  <2>1. inflight[c] \in Call /\ MarkClean(inflight[c])
    BY <1>13 DEF publishSucceeds, InFlight, TypeOK
  <2>2. \A r \in Record : [r EXCEPT !.dirty = FALSE] \in Record
    BY DEF Record
  <2>3. /\ records' \in [Trees -> Record \cup {None}]
        /\ persisted' \in [Trees -> Record \cup {None}]
    <3> DEFINE k == inflight[c].tree
    <3>1. CASE UNCHANGED <<records, persisted>> BY <3>1 DEF TypeOK
    <3>2. CASE /\ records[k] \in Record
               /\ records' = [records EXCEPT ![k] = [@ EXCEPT !.dirty = FALSE]]
               /\ persisted' = records' \/ persisted' = persisted
      <4>1. [records[k] EXCEPT !.dirty = FALSE] \in Record BY <3>2, <2>2
      <4> QED BY <3>2, <4>1 DEF TypeOK
    <3> QED BY <2>1, <3>1, <3>2, MarkCleanEffect
  <2> QED BY <1>13, <2>3 DEF publishSucceeds, TypeOK, SignedHasAuthor
<1>14. ASSUME NEW c \in Calls, publishFails(c)
       PROVE  TypeInv'
  <2>1. Due(RetryDelay) \in Nat BY DueType, BoundsAssumption DEF TypeOK
  <2>2. timers' \in [Trees -> Nat \cup {None}]
    BY <1>14, <2>1 DEF publishFails, schedulePublish, TypeOK
  <2> QED BY <1>14, <2>2 DEF publishFails, TypeOK, SignedHasAuthor
<1>15. ASSUME NEW a \in Accounts \cup {None}, switchAccount(a)
       PROVE  TypeInv'
  <2>1. count' \in [Bounded -> Nat]
    BY <1>15, SpendType DEF switchAccount, Bounded
  <2> QED BY <1>15, <2>1 DEF switchAccount, TypeOK, SignedHasAuthor
<1>16. CASE tick
  BY <1>16 DEF tick, TypeOK, SignedHasAuthor
<1>17. CASE hydrate
  <2>1. Due(PublishDelay) \in Nat BY DueType, BoundsAssumption DEF TypeOK
  <2>2. timers' \in [Trees -> Nat \cup {None}] BY <1>17, <2>1 DEF hydrate
  <2>3. count' \in [Bounded -> Nat]
    BY <1>17, SpendType DEF hydrate, Bounded
  <2> QED BY <1>17, <2>2, <2>3 DEF hydrate, TypeOK, SignedHasAuthor
<1> QED BY <1>1, <1>2, <1>3, <1>4, <1>5, <1>5a, <1>6, <1>7, <1>9, <1>10, <1>11, <1>12,
           <1>13, <1>14, <1>15, <1>16, <1>17, NextCases

\* The registry starts empty, which is well typed.
LEMMA InitType == Init => TypeInv
<1> SUFFICES ASSUME Init PROVE TypeInv OBVIOUS
<1>1. SignedHasAuthor BY DEF Init, SignedHasAuthor
<1>2. TypeOK BY DEF Init, TypeOK
<1> QED BY <1>1, <1>2 DEF TypeInv

\* The inductive invariant holds throughout.
LEMMA TypeInvHolds == Spec => []TypeInv
<1>1. Init => TypeInv
  BY InitType
<1>2. TypeInv /\ [Next]_vars => TypeInv'
  BY TypeStep
<1> QED BY <1>1, <1>2, PTL DEF Spec

\* The registry is type correct whatever the constants: no interleaving of
\* writes, updates, publishes and restarts leaves a record, a timer, a publish
\* or a relay event that the code's types do not allow.
THEOREM TypeCorrect == Spec => []TypeOK
<1>1. TypeInv => TypeOK BY DEF TypeInv
<1> QED BY <1>1, TypeInvHolds, PTL

-----------------------------------------------------------------------------
(* A dirty record always has a timer or a publish of its root in flight,    *)
(* or its timer fired before setPublishFn.                                 *)

\* What DirtyIsPending asks of one tree.
Pending(k) ==
    \/ timers[k] # None
    \/ \E c \in Calls : /\ inflight[c] # None
                        /\ inflight[c].tree = k
                        /\ inflight[c].hash = records[k].hash
    \/ k \in stranded

\* A dirty tree stays pending over a step that leaves its root, its timer, the
\* publishes in flight and what is stranded alone.
LEMMA PendingFrame ==
    ASSUME NEW k \in Trees, Pending(k), records'[k].hash = records[k].hash,
           timers'[k] = timers[k], k \in stranded => k \in stranded', UNCHANGED inflight
    PROVE  Pending(k)'
BY DEF Pending

\* Starting publishes keeps every dirty tree pending, whether its timer was
\* handed over (a snapshot of its root is in flight now, or it is stranded for
\* want of a publishFn) or not.
LEMMA PendingDoPublish ==
    ASSUME TypeOK, DirtyIsPending, NEW ks \in SUBSET Trees, doPublish(ks),
           publishFn \/ \A j \in ks : Dirty(records[j]) => j \in stranded',
           stranded \subseteq stranded',
           \A j \in Trees \ ks : timers'[j] = timers[j], UNCHANGED records
    PROVE  DirtyIsPending'
<1> SUFFICES ASSUME NEW k \in Trees, Dirty(records[k])
             PROVE  Pending(k)'
  BY DEF DirtyIsPending, Pending
<1>0. CASE k \in ks /\ ~publishFn
  BY <1>0 DEF Pending
<1>1. CASE k \in ks /\ publishFn
  <2>1. NeedsPublish(k) BY <1>1 DEF NeedsPublish, Dirty
  <2>2. PICK c \in Calls : inflight'[c] = Snapshot(k)
    BY <1>1, <2>1, DoPublishEffect
  <2>3. Snapshot(k) # None BY <2>1, SnapshotType, NoneAssumption
  <2>4. Snapshot(k).tree = k /\ Snapshot(k).hash = records[k].hash BY DEF Snapshot
  <2> QED BY <2>2, <2>3, <2>4 DEF Pending
<1>2. CASE k \notin ks
  <2>1. CASE timers[k] # None \/ k \in stranded BY <1>2, <2>1 DEF Pending
  <2>2. CASE timers[k] = None /\ k \notin stranded
    <3>1. PICK c \in Calls : /\ inflight[c] # None /\ inflight[c].tree = k
                             /\ inflight[c].hash = records[k].hash
      BY <2>2 DEF DirtyIsPending
    <3>2. inflight'[c] = inflight[c] BY <3>1, DoPublishEffect
    <3> QED BY <3>1, <3>2 DEF Pending
  <2> QED BY <2>1, <2>2
<1> QED BY <1>0, <1>1, <1>2

\* Every step keeps DirtyIsPending.
LEMMA PendingStep ==
    ASSUME TypeOK, DirtyIsPending, [Next]_vars
    PROVE  DirtyIsPending'
<1>0. \A k \in Trees : Dirty(records[k]) => Pending(k)
  BY DEF DirtyIsPending, Pending
<1>a. ASSUME \A k \in Trees : Dirty(records[k])' => Pending(k)'
      PROVE  DirtyIsPending'
  BY <1>a DEF DirtyIsPending, Pending
<1>1. CASE UNCHANGED <<records, timers, inflight, stranded>>
  BY <1>1 DEF DirtyIsPending, Dirty
<1>2. ASSUME NEW k \in Trees, NEW h \in Hashes, NEW v \in VisibilityOption,
             NEW key \in KeyOption(h), NEW enc \in KeyOption(h),
             setLocal(k, h, key, v, enc)
      PROVE  DirtyIsPending'
  <2>1. \A j \in Trees \ {k} : records'[j] = records[j] /\ timers'[j] = timers[j]
    <3>1. PICK r \in Record : Writes(k, r) BY <1>2, SetLocalEffect
    <3>2. timers' = [timers EXCEPT ![k] = Due(PublishDelay)]
      BY <1>2 DEF setLocal, schedulePublish
    <3> QED BY <3>1, <3>2 DEF Writes, TypeOK
  <2>2. Due(PublishDelay) # None
    BY DueType, BoundsAssumption, NoneAssumption DEF TypeOK
  <2>3. timers'[k] # None BY <1>2, <2>2 DEF setLocal, schedulePublish, TypeOK
  <2>4. UNCHANGED inflight /\ \A j \in Trees \ {k} : j \in stranded => j \in stranded'
    BY <1>2 DEF setLocal
  <2> QED BY <1>0, <1>a, <2>1, <2>3, <2>4, PendingFrame DEF Pending, Dirty
<1>3. CASE RemoteUpdate
  <2>1. PICK k \in Trees, r \in Record : Updates(k, r) BY <1>3, RemoteUpdateEffect
  <2>2. \A j \in Trees \ {k} : records'[j] = records[j]
    BY <2>1 DEF Updates, Writes, TypeOK
  <2>3. ~Dirty(records'[k]) BY <2>1 DEF Updates, Writes, TypeOK
  <2>4. UNCHANGED <<timers, inflight, stranded>>
    BY <1>3, RemoteUpdateEffect DEF UpdateFrame
  <2> QED BY <1>0, <1>a, <2>2, <2>3, <2>4, PendingFrame DEF Dirty
<1>4. ASSUME NEW k \in Trees, NEW h \in Hashes, mergeKey(k, h)
      PROVE  DirtyIsPending'
  <2>1. PICK r : SameWrite(r, records[k]) /\ Writes(k, r) BY <1>4, MergeKeyEffect
  <2>2. \A j \in Trees \ {k} : records'[j] = records[j]
    BY <2>1 DEF Writes, TypeOK
  <2>3. records'[k].hash = records[k].hash /\ records'[k].dirty = records[k].dirty
    BY <2>1 DEF Writes, SameWrite, TypeOK
  <2>4. records[k] # None BY <1>4 DEF mergeKey
  <2>5. UNCHANGED <<timers, inflight, stranded>> BY <1>4 DEF mergeKey
  <2> QED BY <1>0, <1>a, <2>2, <2>3, <2>4, <2>5, PendingFrame DEF Dirty
<1>5. ASSUME NEW k \in Trees, deleteTree(k)
      PROVE  DirtyIsPending'
  <2>1. /\ \A j \in Trees \ {k} : records'[j] = records[j] /\ timers'[j] = timers[j]
        /\ records'[k] = None
        /\ UNCHANGED inflight
        /\ \A j \in Trees \ {k} : j \in stranded => j \in stranded'
    BY <1>5 DEF deleteTree, delete, TypeOK
  <2> QED BY <1>0, <1>a, <2>1, PendingFrame DEF Dirty
<1>6. ASSUME NEW k \in Trees, timerFires(k)
      PROVE  DirtyIsPending'
  <2>1. /\ doPublish({k}) /\ UNCHANGED records
        /\ \A j \in Trees \ {k} : timers'[j] = timers[j]
    BY <1>6 DEF timerFires, TypeOK
  <2>2. /\ stranded \subseteq stranded'
        /\ publishFn \/ \A j \in {k} : Dirty(records[j]) => j \in stranded'
    BY <1>6 DEF timerFires
  <2> QED BY <2>1, <2>2, PendingDoPublish
<1>7. CASE flushPendingPublishes
  <2> DEFINE ks == {k \in Trees : timers[k] # None}
  <2>1. /\ publishFn /\ doPublish(ks) /\ UNCHANGED <<records, stranded>>
        /\ \A j \in Trees \ ks : timers'[j] = timers[j]
    BY <1>7 DEF flushPendingPublishes
  <2>2. ks \in SUBSET Trees OBVIOUS
  <2> HIDE DEF ks
  <2> QED BY <2>1, <2>2, PendingDoPublish
<1>8. ASSUME NEW c \in Calls, signEvent(c) \/ relayAccepts(c)
      PROVE  DirtyIsPending'
  <2>1. inflight[c] \in Call
    BY <1>8 DEF signEvent, relayAccepts, InFlight, TypeOK
  <2>2. UNCHANGED <<records, timers, stranded>> BY <1>8 DEF signEvent, relayAccepts
  <2>3. \A d \in Calls \ {c} : inflight'[d] = inflight[d]
    BY <1>8 DEF signEvent, relayAccepts, TypeOK
  <2>4. /\ inflight'[c] \in Call
        /\ inflight'[c].tree = inflight[c].tree /\ inflight'[c].hash = inflight[c].hash
    BY <1>8, <2>1, AdvanceEffect
  <2>6. inflight'[c] # None BY <2>4, NoneAssumption
  <2> QED BY <1>0, <1>a, <2>2, <2>3, <2>4, <2>6 DEF Pending, Dirty
<1>9. ASSUME NEW c \in Calls, publishSucceeds(c)
      PROVE  DirtyIsPending'
  <2> DEFINE t == inflight[c].tree
  <2>1. /\ inflight[c] \in Call /\ MarkClean(inflight[c])
        /\ UNCHANGED <<timers, stranded>>
    BY <1>9 DEF publishSucceeds, InFlight, TypeOK
  <2>2. \A d \in Calls \ {c} : inflight'[d] = inflight[d]
    BY <1>9 DEF publishSucceeds, TypeOK
  <2>3. t \in Trees BY <2>1 DEF Call
  <2>4. /\ \A k \in Trees \ {t} : records'[k] = records[k]
        /\ Dirty(records'[t]) => /\ records'[t] = records[t]
                                 /\ records[t].hash # inflight[c].hash
    <3>1. CASE /\ UNCHANGED records
               /\ records[t] # None => records[t].hash # inflight[c].hash
      BY <3>1 DEF Dirty
    <3>2. CASE /\ records[t] \in Record
               /\ records' = [records EXCEPT ![t] = [@ EXCEPT !.dirty = FALSE]]
      <4>1. records'[t] = [records[t] EXCEPT !.dirty = FALSE]
        BY <2>3, <3>2 DEF TypeOK
      <4>2. ~records'[t].dirty BY <3>2, <4>1 DEF Record
      <4>3. \A k \in Trees \ {t} : records'[k] = records[k]
        BY <3>2 DEF TypeOK
      <4> QED BY <4>2, <4>3 DEF Dirty
    <3> QED BY <2>1, <3>1, <3>2, MarkCleanEffect
  <2> QED BY <1>0, <1>a, <2>1, <2>2, <2>4 DEF Pending, Dirty
<1>10. ASSUME NEW c \in Calls, publishFails(c)
       PROVE  DirtyIsPending'
  <2> DEFINE t == inflight[c].tree
  <2>1. UNCHANGED <<records, stranded>> BY <1>10 DEF publishFails
  <2>2. \A d \in Calls \ {c} : inflight'[d] = inflight[d]
    BY <1>10 DEF publishFails, TypeOK
  <2>3. t \in Trees BY <1>10 DEF publishFails, TypeOK, Call
  <2>4. Due(RetryDelay) # None
    BY DueType, BoundsAssumption, NoneAssumption DEF TypeOK
  <2>5. timers'[t] # None
    BY <1>10, <2>3, <2>4 DEF publishFails, schedulePublish, TypeOK
  <2>6. \A k \in Trees \ {t} : timers'[k] = timers[k]
    BY <1>10 DEF publishFails, schedulePublish, TypeOK
  <2> QED BY <1>0, <1>a, <2>1, <2>2, <2>5, <2>6 DEF Pending, Dirty
<1>11. CASE hydrate
  <2>1. Due(PublishDelay) # None
    BY DueType, BoundsAssumption, NoneAssumption DEF TypeOK
  <2>2. \A k \in Trees : Dirty(records'[k]) => timers'[k] # None
    BY <1>11, <2>1 DEF hydrate, Dirty
  <2> QED BY <1>a, <2>2 DEF Pending, Dirty
<1>12. CASE \/ UNCHANGED vars \/ setPublishFn \/ tick
            \/ \E w \in Waiters : resolveTimeout(w) \/ \E k \in Trees : resolve(w, k)
            \/ \E k \in Trees : sendDeletion(k)
            \/ \E a \in Accounts \cup {None} : switchAccount(a)
  BY <1>1, <1>12 DEF vars, setPublishFn, tick, resolveTimeout, resolve, sendDeletion,
        switchAccount
<1> QED BY <1>2, <1>3, <1>4, <1>5, <1>6, <1>7, <1>8, <1>9, <1>10, <1>11, <1>12,
           NextCases

\* One thing alone strands a write: its timer firing before setPublishFn.
\* Otherwise a dirty record always has a timer or a publish of that very root in
\* flight, through any overlap of publishes, retries, deletions, account
\* switches, failed saves and restarts.
THEOREM WritesStayPending == Spec => []DirtyIsPending
<1>1. Init => TypeInv /\ DirtyIsPending
  <2>1. Init => DirtyIsPending BY DEF Init, DirtyIsPending, Dirty
  <2> QED BY <2>1, InitType
<1>2. TypeInv /\ DirtyIsPending /\ [Next]_vars => (TypeInv /\ DirtyIsPending)'
  <2>1. TypeInv /\ [Next]_vars => TypeInv' BY TypeStep
  <2>2. TypeInv /\ DirtyIsPending /\ [Next]_vars => DirtyIsPending'
    BY PendingStep DEF TypeInv
  <2> QED BY <2>1, <2>2
<1> QED BY <1>1, <1>2, PTL DEF Spec

-----------------------------------------------------------------------------
(* A clean local write was published, as long as nobody switches account.  *)

PublishedIn(evs, k, h) == \E e \in evs : e.tree = k /\ e.hash = h

\* What holds of the records and of their saved copy alike: dirty ones belong
\* to the account u, clean writes are among the relay's events evs.
RecordBacked(r, k, u, evs) ==
    /\ Dirty(r) => Owner(k) = u
    /\ CleanWrite(r) => PublishedIn(evs, k, r.hash)
RecordsBacked(f, u, evs) == \A k \in Trees : RecordBacked(f[k], k, u, evs)

\* What holds of a publish in flight: it is one of the account's own trees, it
\* is signed by that account, and once accepted its root is on the relay.
CallBacked(x, u, evs) ==
    x # None =>
        /\ Owner(x.tree) = u
        /\ x.phase # "preparing" => x.author = u
        /\ x.phase = "accepted" => PublishedIn(evs, x.tree, x.hash)

PublishInv ==
    /\ TypeInv
    /\ user # None
    /\ RecordsBacked(records, user, events)
    /\ RecordsBacked(persisted, user, events)
    /\ \A c \in Calls : CallBacked(inflight[c], user, events)

\* Records and publishes stay backed as the relay gets more events.
LEMMA BackedStays ==
    ASSUME NEW u, NEW evs, NEW more, evs \subseteq more
    PROVE  /\ \A r, k : RecordBacked(r, k, u, evs) => RecordBacked(r, k, u, more)
           /\ \A f : RecordsBacked(f, u, evs) => RecordsBacked(f, u, more)
           /\ \A x : CallBacked(x, u, evs) => CallBacked(x, u, more)
<1>1. \A k, h : PublishedIn(evs, k, h) => PublishedIn(more, k, h)
  BY DEF PublishedIn
<1>2. \A r, k : RecordBacked(r, k, u, evs) => RecordBacked(r, k, u, more)
  BY <1>1 DEF RecordBacked
<1>3. \A f : RecordsBacked(f, u, evs) => RecordsBacked(f, u, more)
  BY <1>2 DEF RecordsBacked
<1>4. \A x : CallBacked(x, u, evs) => CallBacked(x, u, more)
  BY <1>1 DEF CallBacked
<1> QED BY <1>2, <1>3, <1>4

\* Writing one backed record keeps all of them backed.
LEMMA BackedWrite ==
    ASSUME TypeOK, RecordsBacked(records, user, events),
           RecordsBacked(persisted, user, events),
           NEW k \in Trees, NEW r, RecordBacked(r, k, user, events),
           records' = [records EXCEPT ![k] = r],
           persisted' = records' \/ persisted' = persisted
    PROVE  /\ RecordsBacked(records', user, events)
           /\ RecordsBacked(persisted', user, events)
<1>1. \A j \in Trees : records'[j] = IF j = k THEN r ELSE records[j]
  BY DEF TypeOK
<1>2. RecordsBacked(records', user, events)
  BY <1>1 DEF RecordsBacked
<1> QED BY <1>2

\* Every step keeps PublishInv when accounts cannot be switched.
LEMMA PublishStep ==
    ASSUME MaxSwitches = 0, PublishInv, [Next]_vars
    PROVE  PublishInv'
<1>0. TypeInv /\ TypeInv' /\ TypeOK BY TypeStep DEF PublishInv, TypeInv
<1>a. ASSUME UNCHANGED user,
             RecordsBacked(records', user, events'),
             RecordsBacked(persisted', user, events'),
             \A c \in Calls : CallBacked(inflight'[c], user, events')
      PROVE  PublishInv'
  BY <1>0, <1>a DEF PublishInv
<1> USE DEF PublishInv
<1>b. ASSUME NEW k \in Trees, NEW r, RecordBacked(r, k, user, events), Writes(k, r),
             UNCHANGED <<user, events, inflight>>
      PROVE  PublishInv'
  BY <1>0, <1>a, <1>b, BackedWrite DEF Writes
<1>1. CASE UNCHANGED <<records, persisted, inflight, events, user>>
  BY <1>a, <1>1
<1>2. ASSUME NEW k \in Trees, NEW h \in Hashes, NEW v \in VisibilityOption,
             NEW key \in KeyOption(h), NEW enc \in KeyOption(h),
             setLocal(k, h, key, v, enc)
      PROVE  PublishInv'
  <2>1. PICK r \in Record : r.dirty /\ Writes(k, r) BY <1>0, <1>2, SetLocalEffect
  <2>2. RecordBacked(r, k, user, events)
    BY <1>2, <2>1 DEF RecordBacked, CleanWrite, setLocal
  <2>3. UNCHANGED <<user, events, inflight>> BY <1>2 DEF setLocal
  <2> QED BY <1>b, <2>1, <2>2, <2>3
<1>3. CASE RemoteUpdate
  <2>1. PICK k \in Trees, r \in Record : Updates(k, r)
    BY <1>0, <1>3, RemoteUpdateEffect
  <2>2. RecordBacked(r, k, user, events)
    BY <2>1 DEF Updates, RecordBacked, RecordsBacked
  <2>3. UNCHANGED <<user, events, inflight>>
    BY <1>0, <1>3, RemoteUpdateEffect DEF UpdateFrame
  <2>4. Writes(k, r) BY <2>1 DEF Updates
  <2> QED BY <1>b, <2>2, <2>3, <2>4
<1>4. ASSUME NEW k \in Trees, NEW h \in Hashes, mergeKey(k, h)
      PROVE  PublishInv'
  <2>1. PICK r : SameWrite(r, records[k]) /\ Writes(k, r) BY <1>0, <1>4, MergeKeyEffect
  <2>2. records[k] # None BY <1>4 DEF mergeKey
  <2>3. RecordBacked(r, k, user, events)
    BY <2>1, <2>2 DEF SameWrite, RecordBacked, RecordsBacked, Dirty, CleanWrite
  <2>4. UNCHANGED <<user, events, inflight>> BY <1>4 DEF mergeKey
  <2> QED BY <1>b, <2>1, <2>3, <2>4
<1>5. ASSUME NEW k \in Trees, deleteTree(k)
      PROVE  PublishInv'
  <2>1. RecordBacked(None, k, user, events) BY DEF RecordBacked, Dirty, CleanWrite
  <2>2. /\ records' = [records EXCEPT ![k] = None]
        /\ persisted' = records' \/ persisted' = persisted
        /\ UNCHANGED <<user, events, inflight>>
    BY <1>5 DEF deleteTree, delete, Save
  <2>3. RecordsBacked(records', user, events) /\ RecordsBacked(persisted', user, events)
    BY <1>0, <2>1, <2>2, BackedWrite
  <2> QED BY <1>a, <2>2, <2>3
<1>5a. ASSUME NEW k \in Trees, sendDeletion(k)
       PROVE  PublishInv'
  <2>1. events \subseteq events' BY <1>0, <1>5a, SendDeletionEffect
  <2>2. UNCHANGED <<records, persisted, inflight, user>> BY <1>5a DEF sendDeletion
  <2> QED BY <1>a, <2>1, <2>2, BackedStays
<1>6. ASSUME NEW ks \in SUBSET Trees, doPublish(ks),
             UNCHANGED <<records, persisted, events, user>>
      PROVE  PublishInv'
  <2>1. ASSUME NEW c \in Calls PROVE CallBacked(inflight'[c], user, events)
    <3>1. CASE inflight'[c] = inflight[c] BY <3>1
    <3>2. ASSUME NEW k \in ks, NeedsPublish(k), inflight'[c] = Snapshot(k)
          PROVE  CallBacked(inflight'[c], user, events)
      <4>1. Owner(k) = user
        BY <3>2 DEF NeedsPublish, RecordsBacked, RecordBacked, Dirty
      <4>2. Snapshot(k).tree = k /\ Snapshot(k).phase = "preparing" BY DEF Snapshot
      <4> QED BY <3>2, <4>1, <4>2 DEF CallBacked
    <3> QED BY <1>0, <1>6, <3>1, <3>2, DoPublishEffect
  <2> QED BY <1>6, <1>a, <2>1
<1>7. ASSUME NEW c \in Calls, signEvent(c)
      PROVE  PublishInv'
  <2>1. inflight[c] \in Call BY <1>0, <1>7 DEF signEvent, InFlight, TypeOK
  <2>2. /\ inflight' = [inflight EXCEPT ![c] = [inflight[c] EXCEPT
                            !.phase = "signed", !.author = user, !.createdAt = now]]
        /\ UNCHANGED <<records, persisted, events, user>>
    BY <1>7 DEF signEvent
  <2>3. /\ inflight'[c].tree = inflight[c].tree /\ inflight'[c].author = user
        /\ inflight'[c].phase = "signed"
    BY <1>0, <2>1, <2>2 DEF Call, TypeOK
  <2>4. CallBacked(inflight'[c], user, events)
    BY <1>7, <2>3 DEF CallBacked, signEvent, InFlight
  <2>5. \A d \in Calls \ {c} : inflight'[d] = inflight[d]
    BY <1>0, <2>2 DEF TypeOK
  <2> QED BY <1>a, <2>2, <2>4, <2>5
<1>8. ASSUME NEW c \in Calls, relayAccepts(c)
      PROVE  PublishInv'
  <2> DEFINE x == inflight[c]
  <2>1. /\ x \in Call /\ x # None /\ x.phase = "signed"
        /\ inflight' = [inflight EXCEPT ![c] = [x EXCEPT !.phase = "accepted"]]
        /\ events' = events \cup {CallEvent(x)}
        /\ UNCHANGED <<records, persisted, user>>
    BY <1>0, <1>8 DEF relayAccepts, InFlight, TypeOK
  <2>2. Owner(x.tree) = user /\ x.author = user
    BY <2>1 DEF CallBacked
  <2>3. x.tree = <<user, x.tree[2]>>
    BY <2>1, <2>2 DEF Call, Owner, Trees
  <2>4. PublishedIn(events', x.tree, x.hash)
    <3>1. CallEvent(x).tree = <<x.author, x.tree[2]>> /\ CallEvent(x).hash = x.hash
      BY DEF CallEvent
    <3>2. CallEvent(x) \in events' BY <2>1
    <3> HIDE DEF x
    <3> QED BY <2>2, <2>3, <3>1, <3>2 DEF PublishedIn
  <2>5. /\ inflight'[c].tree = x.tree /\ inflight'[c].author = x.author
        /\ inflight'[c].hash = x.hash
    BY <1>0, <2>1 DEF Call, TypeOK
  <2>6. CallBacked(inflight'[c], user, events')
    BY <2>2, <2>4, <2>5 DEF CallBacked
  <2>7. \A d \in Calls \ {c} : inflight'[d] = inflight[d]
    BY <1>0, <2>1 DEF TypeOK
  <2>8. events \subseteq events' BY <2>1
  <2> QED BY <1>a, <2>1, <2>6, <2>7, <2>8, BackedStays
<1>9. ASSUME NEW c \in Calls, publishSucceeds(c)
      PROVE  PublishInv'
  <2> DEFINE x == inflight[c]
             k == x.tree
  <2>1. /\ x \in Call /\ x # None /\ x.phase = "accepted" /\ MarkClean(x)
        /\ inflight' = [inflight EXCEPT ![c] = None]
        /\ UNCHANGED <<events, user>>
    BY <1>0, <1>9 DEF publishSucceeds, InFlight, TypeOK
  <2>2. \A d \in Calls : CallBacked(inflight'[d], user, events)
    BY <1>0, <2>1 DEF CallBacked, TypeOK
  <2>3. k \in Trees BY <2>1 DEF Call
  <2>4. CASE UNCHANGED <<records, persisted>>
    BY <1>a, <2>1, <2>2, <2>4
  <2>5. CASE /\ records[k] \in Record /\ records[k].hash = x.hash
             /\ records' = [records EXCEPT ![k] = [@ EXCEPT !.dirty = FALSE]]
             /\ persisted' = records' \/ persisted' = persisted
    <3> DEFINE r == [records[k] EXCEPT !.dirty = FALSE]
    <3>1. ~r.dirty /\ r.hash = x.hash BY <2>5 DEF Record
    <3>2. RecordBacked(r, k, user, events)
      BY <2>1, <3>1 DEF RecordBacked, Dirty, CallBacked
    <3>3. records' = [records EXCEPT ![k] = r] BY <2>5
    <3> HIDE DEF r, k
    <3>4. RecordsBacked(records', user, events) /\ RecordsBacked(persisted', user, events)
      BY <1>0, <2>3, <2>5, <3>2, <3>3, BackedWrite
    <3> QED BY <1>a, <2>1, <2>2, <3>4
  <2> QED BY <1>0, <2>1, <2>4, <2>5, MarkCleanEffect
<1>10. ASSUME NEW c \in Calls, publishFails(c)
       PROVE  PublishInv'
  <2>1. \A d \in Calls : CallBacked(inflight'[d], user, events)
    BY <1>0, <1>10 DEF publishFails, CallBacked, TypeOK
  <2> QED BY <1>a, <1>10, <2>1 DEF publishFails
<1>11. CASE hydrate
  BY <1>a, <1>11 DEF hydrate, CallBacked
<1>12. ASSUME NEW a \in Accounts \cup {None}, switchAccount(a)
       PROVE  FALSE
  <2>1. Limit["switch"] = MaxSwitches BY DEF Limit, Bounded
  <2>2. count["switch"] \in Nat BY <1>0 DEF TypeOK, Bounded
  <2> QED BY <1>12, <2>1, <2>2 DEF switchAccount, Spend
<1>13. CASE \/ UNCHANGED vars \/ setPublishFn \/ tick
            \/ \E w \in Waiters : resolveTimeout(w) \/ \E k \in Trees : resolve(w, k)
  BY <1>1, <1>13 DEF vars, setPublishFn, tick, resolveTimeout, resolve
<1>14. ASSUME NEW k \in Trees, timerFires(k) PROVE PublishInv'
  BY <1>6, <1>14 DEF timerFires
<1>15. CASE flushPendingPublishes
  <2>1. {k \in Trees : timers[k] # None} \in SUBSET Trees OBVIOUS
  <2> QED BY <1>6, <1>15, <2>1 DEF flushPendingPublishes
<1> QED BY <1>2, <1>3, <1>4, <1>5, <1>5a, <1>7, <1>8, <1>9, <1>10, <1>11, <1>12, <1>13,
           <1>14, <1>15, NextCases

\* The inductive invariant holds throughout.
LEMMA PublishInvHolds ==
    ASSUME MaxSwitches = 0
    PROVE  Spec => []PublishInv
<1>1. Init => PublishInv
  <2> SUFFICES ASSUME Init PROVE PublishInv OBVIOUS
  <2>1. user # None BY NoneAssumption DEF Init
  <2>2. RecordsBacked(records, user, events) /\ RecordsBacked(persisted, user, events)
    BY DEF Init, RecordsBacked, RecordBacked, Dirty, CleanWrite
  <2>3. \A c \in Calls : CallBacked(inflight[c], user, events)
    BY DEF Init, CallBacked
  <2> QED BY <2>1, <2>2, <2>3, InitType DEF PublishInv
<1>2. PublishInv /\ [Next]_vars => PublishInv'
  BY PublishStep
<1> QED BY <1>1, <1>2, PTL DEF Spec

\* No write is forgotten: while one account stays logged in, a local write is
\* clean only if the relay has accepted an event with its root for its tree,
\* however publishes overlap, fail, are retried or are cut off by a restart.
THEOREM CleanWritesWerePublished ==
    ASSUME MaxSwitches = 0
    PROVE  Spec => []CleanHashWasPublished
<1>1. PublishInv => CleanHashWasPublished
  BY DEF PublishInv, RecordsBacked, RecordBacked, PublishedIn, CleanHashWasPublished
<1> QED BY <1>1, PublishInvHolds, PTL

-----------------------------------------------------------------------------
(* A dirty write is never overwritten from outside.                        *)

\* What DirtyNotOverwritten asks of one step.
KeepsDirty ==
    \A k \in Trees : NotLocal(k) /\ records[k].dirty =>
        /\ records'[k] # None
        /\ records'[k].hash = records[k].hash
        /\ records'[k].visibility = records[k].visibility
        /\ records'[k].updatedAt = records[k].updatedAt

\* Every step keeps what is dirty, or is a local write, a deletion or a restart.
LEMMA KeepsDirtyStep ==
    ASSUME TypeOK, [Next]_vars
    PROVE  KeepsDirty
<1>1. CASE UNCHANGED records
  BY <1>1 DEF KeepsDirty, NotLocal
<1>2. ASSUME NEW b \in {"write", "delete", "restart"}, Spend(b)
      PROVE  KeepsDirty
  <2>1. b \in Bounded BY DEF Bounded
  <2>2. count'[b] = count[b] + 1 /\ count[b] \in Nat BY <1>2, <2>1 DEF Spend, TypeOK
  <2>3. count'[b] # count[b] BY <2>2
  <2> QED BY <2>3 DEF KeepsDirty, NotLocal
<1>3. CASE RemoteUpdate
  <2>1. PICK k \in Trees, r \in Record : Updates(k, r) BY <1>3, RemoteUpdateEffect
  <2>2. \A j \in Trees \ {k} : records'[j] = records[j]
    BY <2>1 DEF Updates, Writes, TypeOK
  <2>3. records[k] # None => ~records[k].dirty BY <2>1 DEF Updates, Dirty
  <2> QED BY <2>2, <2>3 DEF KeepsDirty, NotLocal
<1>4. ASSUME NEW k \in Trees, NEW h \in Hashes, mergeKey(k, h)
      PROVE  KeepsDirty
  <2>1. PICK r : /\ SameWrite(r, records[k]) /\ r.visibility = records[k].visibility
                 /\ Writes(k, r)
    BY <1>4, MergeKeyEffect
  <2>2. \A j \in Trees \ {k} : records'[j] = records[j]
    BY <2>1 DEF Writes, TypeOK
  <2>3. records'[k] = r BY <2>1 DEF Writes, TypeOK
  <2>4. r # None BY <2>1, NoneAssumption DEF SameWrite
  <2> QED BY <2>1, <2>2, <2>3, <2>4 DEF KeepsDirty, NotLocal, SameWrite
<1>5. ASSUME NEW c \in Calls, publishSucceeds(c)
      PROVE  KeepsDirty
  <2> DEFINE k == inflight[c].tree
  <2>1. inflight[c] \in Call /\ MarkClean(inflight[c])
    BY <1>5 DEF publishSucceeds, InFlight, TypeOK
  <2>2. CASE UNCHANGED <<records, persisted>> BY <1>1, <2>2
  <2>3. CASE /\ records[k] \in Record
             /\ records' = [records EXCEPT ![k] = [@ EXCEPT !.dirty = FALSE]]
    <3> DEFINE r == [records[k] EXCEPT !.dirty = FALSE]
    <3>1. /\ r \in Record /\ r.hash = records[k].hash
          /\ r.visibility = records[k].visibility /\ r.updatedAt = records[k].updatedAt
      BY <2>3 DEF Record
    <3>2. r # None BY <3>1, NoneAssumption
    <3>3. \A j \in Trees : records'[j] = IF j = k THEN r ELSE records[j]
      BY <2>3 DEF TypeOK
    <3> HIDE DEF r
    <3> QED BY <3>1, <3>2, <3>3 DEF KeepsDirty, NotLocal
  <2> QED BY <2>1, <2>2, <2>3, MarkCleanEffect
<1>6. CASE \/ UNCHANGED vars \/ setPublishFn \/ tick \/ flushPendingPublishes
           \/ \E w \in Waiters : resolveTimeout(w) \/ \E k \in Trees : resolve(w, k)
           \/ \E a \in Accounts \cup {None} : switchAccount(a)
           \/ \E k \in Trees : timerFires(k) \/ sendDeletion(k)
           \/ \E c \in Calls : signEvent(c) \/ relayAccepts(c) \/ publishFails(c)
  BY <1>1, <1>6 DEF vars, setPublishFn, tick, resolveTimeout, resolve, switchAccount,
        timerFires, sendDeletion, flushPendingPublishes, signEvent, relayAccepts,
        publishFails
<1>7. CASE \/ \E k \in Trees, h \in Hashes, v \in VisibilityOption :
                \E key \in KeyOption(h), enc \in KeyOption(h) : setLocal(k, h, key, v, enc)
           \/ \E k \in Trees : deleteTree(k)
           \/ hydrate
  BY <1>2, <1>7 DEF setLocal, deleteTree, delete, hydrate
<1> QED BY <1>3, <1>4, <1>5, <1>6, <1>7, NextCases

\* No update from the resolver, the worker or a prefetch, and no publish that
\* completes, replaces the root, visibility or time of a write still dirty.
THEOREM DirtyIsKept == Spec => DirtyNotOverwritten
<1>1. TypeOK /\ [Next]_vars => [KeepsDirty]_vars
  BY KeepsDirtyStep
<1> QED BY <1>1, TypeCorrect, PTL DEF Spec, DirtyNotOverwritten, KeepsDirty

-----------------------------------------------------------------------------
(* The key kept for a root is the key of that root, and is not lost.       *)

\* The saved records are the ones a restart brings back: their keys fit too.
KeysFit(f) == \A k \in Trees : KeyFits(f[k])
KeyInv == KeysFit(records) /\ KeysFit(persisted)

\* Writing one record whose key fits keeps all of them fitting.
LEMMA KeyWrite ==
    ASSUME TypeOK, KeyInv, NEW k \in Trees, NEW r, KeyFits(r),
           records' = [records EXCEPT ![k] = r],
           persisted' = records' \/ persisted' = persisted
    PROVE  KeyInv'
<1>1. \A j \in Trees : records'[j] = IF j = k THEN r ELSE records[j]
  BY DEF TypeOK
<1>2. KeysFit(records')
  BY <1>1 DEF KeysFit, KeyInv
<1>3. KeysFit(persisted')
  BY <1>2 DEF KeyInv
<1> QED BY <1>2, <1>3 DEF KeyInv, KeysFit

\* Every step keeps KeyInv.
LEMMA KeyStep ==
    ASSUME TypeOK, KeyInv, [Next]_vars
    PROVE  KeyInv'
<1>1. CASE UNCHANGED <<records, persisted>>
  BY <1>1 DEF KeyInv, KeysFit
<1>2. ASSUME NEW k \in Trees, NEW h \in Hashes, NEW v \in VisibilityOption,
             NEW key \in KeyOption(h), NEW enc \in KeyOption(h),
             setLocal(k, h, key, v, enc)
      PROVE  KeyInv'
  <2>1. PICK r \in Record : KeyFits(r) /\ Writes(k, r) BY <1>2, SetLocalEffect
  <2> QED BY <2>1, KeyWrite DEF Writes
<1>3. CASE RemoteUpdate
  <2>1. PICK k \in Trees, r \in Record : Updates(k, r) BY <1>3, RemoteUpdateEffect
  <2>2. KeyFits(r) BY <2>1 DEF Updates, KeyKept, KeyInv, KeysFit
  <2> QED BY <2>1, <2>2, KeyWrite DEF Updates, Writes
<1>4. ASSUME NEW k \in Trees, NEW h \in Hashes, mergeKey(k, h)
      PROVE  KeyInv'
  <2>1. PICK r : KeyFits(r) /\ Writes(k, r) BY <1>4, MergeKeyEffect
  <2> QED BY <2>1, KeyWrite DEF Writes
<1>5. ASSUME NEW k \in Trees, deleteTree(k)
      PROVE  KeyInv'
  <2>1. KeyFits(None) BY DEF KeyFits
  <2>2. /\ records' = [records EXCEPT ![k] = None]
        /\ persisted' = records' \/ persisted' = persisted
    BY <1>5 DEF deleteTree, delete, Save
  <2> QED BY <2>1, <2>2, KeyWrite
<1>6. ASSUME NEW c \in Calls, publishSucceeds(c)
      PROVE  KeyInv'
  <2>1. inflight[c] \in Call /\ MarkClean(inflight[c])
    BY <1>6 DEF publishSucceeds, InFlight, TypeOK
  <2>2. PICK k \in Trees : k = inflight[c].tree BY <2>1 DEF Call
  <2>3. CASE UNCHANGED <<records, persisted>> BY <1>1, <2>3
  <2>4. CASE /\ records[k] \in Record
             /\ records' = [records EXCEPT ![k] = [@ EXCEPT !.dirty = FALSE]]
             /\ persisted' = records' \/ persisted' = persisted
    <3> DEFINE r == [records[k] EXCEPT !.dirty = FALSE]
    <3>1. r.key = records[k].key /\ r.hash = records[k].hash BY <2>4 DEF Record
    <3>2. records[k] # None BY <2>4, NoneAssumption
    <3>3. records' = [records EXCEPT ![k] = r] BY <2>4
    <3> HIDE DEF r
    <3>4. KeyFits(r) BY <3>1, <3>2 DEF KeyFits, KeyInv, KeysFit
    <3> QED BY <2>4, <3>3, <3>4, KeyWrite
  <2> QED BY <2>1, <2>2, <2>3, <2>4, MarkCleanEffect
<1>7. CASE hydrate
  BY <1>7 DEF hydrate, KeyInv, KeysFit
<1>8. CASE \/ UNCHANGED vars \/ setPublishFn \/ tick \/ flushPendingPublishes
           \/ \E w \in Waiters : resolveTimeout(w) \/ \E k \in Trees : resolve(w, k)
           \/ \E a \in Accounts \cup {None} : switchAccount(a)
           \/ \E k \in Trees : timerFires(k) \/ sendDeletion(k)
           \/ \E c \in Calls : signEvent(c) \/ relayAccepts(c) \/ publishFails(c)
  BY <1>1, <1>8 DEF vars, setPublishFn, tick, resolveTimeout, resolve, switchAccount,
        timerFires, sendDeletion, flushPendingPublishes, signEvent, relayAccepts,
        publishFails
<1> QED BY <1>2, <1>3, <1>4, <1>5, <1>6, <1>7, <1>8, NextCases

\* Both invariants hold throughout.
LEMMA KeysAlwaysFit == Spec => [](TypeOK /\ KeyInv)
<1>1. Init => KeyInv BY DEF Init, KeyInv, KeysFit, KeyFits
<1>2. TypeOK /\ KeyInv /\ [Next]_vars => KeyInv' BY KeyStep
<1> QED BY <1>1, <1>2, TypeCorrect, PTL DEF Spec

\* A record never pairs a root with the key of another: whatever order local
\* writes, updates that omit the key, merges, acknowledgements and restarts
\* come in, the key is undefined or the root's own.
THEOREM KeysBelongToRoots == Spec => []KeyMatchesHash
<1>1. KeyInv => KeyMatchesHash BY DEF KeyInv, KeysFit, KeyFits, KeyMatchesHash
<1> QED BY <1>1, KeysAlwaysFit, PTL

\* What NoRollback asks of one step.
NoStepBack ==
    \A k \in Trees : NotLocal(k) =>
        /\ records'[k] # None
        /\ records'[k].updatedAt >= records[k].updatedAt
        /\ records'[k].hash = records[k].hash /\ records[k].key # None
                => records'[k].key = records[k].key

\* A step that replaces one record by one no older, keeping its key, and is
\* otherwise still, takes nothing back.
LEMMA ForwardWrite ==
    ASSUME TypeOK, NEW k \in Trees, NEW r \in Record,
           records' = [records EXCEPT ![k] = r],
           records[k] # None => /\ r.updatedAt >= records[k].updatedAt
                                /\ r.hash = records[k].hash /\ records[k].key # None
                                        => r.key = records[k].key
    PROVE  NoStepBack
<1>1. \A j \in Trees : records'[j] = IF j = k THEN r ELSE records[j]
  BY DEF TypeOK
<1>2. r # None BY NoneAssumption
<1>3. \A j \in Trees : records[j] # None => records[j].updatedAt \in Nat
  BY DEF TypeOK, Record
<1>4. \A j \in Trees : records[j] # None => records[j].updatedAt >= records[j].updatedAt
  BY <1>3
<1> QED BY <1>1, <1>2, <1>4 DEF NoStepBack, NotLocal

\* Every step but a local write, a deletion and a restart moves forward.
LEMMA NoStepBackStep ==
    ASSUME TypeOK, KeyInv, [Next]_vars
    PROVE  NoStepBack
<1>0. \A j \in Trees : records[j] # None => records[j] \in Record
  BY DEF TypeOK
<1>1. CASE UNCHANGED records
  <2>1. \A j \in Trees : records[j] # None => records[j].updatedAt \in Nat
    BY <1>0 DEF Record
  <2>2. \A j \in Trees : records[j] # None => records[j].updatedAt >= records[j].updatedAt
    BY <2>1
  <2> QED BY <1>1, <2>2 DEF NoStepBack, NotLocal
<1>2. ASSUME NEW b \in {"write", "delete", "restart"}, Spend(b)
      PROVE  NoStepBack
  <2>1. b \in Bounded BY DEF Bounded
  <2>2. count'[b] = count[b] + 1 /\ count[b] \in Nat BY <1>2, <2>1 DEF Spend, TypeOK
  <2>3. count'[b] # count[b] BY <2>2
  <2> QED BY <2>3 DEF NoStepBack, NotLocal
<1>3. CASE RemoteUpdate
  <2>1. PICK k \in Trees, r \in Record : Updates(k, r) BY <1>3, RemoteUpdateEffect
  <2>2. KeyFits(records[k]) BY DEF KeyInv, KeysFit
  <2>3. records[k] # None => /\ r.updatedAt >= records[k].updatedAt
                             /\ r.hash = records[k].hash /\ records[k].key # None
                                        => r.key = records[k].key
    BY <2>1, <2>2 DEF Updates, KeyKept
  <2> QED BY <2>1, <2>3, ForwardWrite DEF Updates, Writes
<1>4. ASSUME NEW k \in Trees, NEW h \in Hashes, mergeKey(k, h)
      PROVE  NoStepBack
  <2>1. PICK r : SameWrite(r, records[k]) /\ Writes(k, r) /\ records[k].key = None
    BY <1>4, MergeKeyEffect
  <2>2. r \in Record /\ r.updatedAt = records[k].updatedAt BY <2>1 DEF SameWrite
  <2>3. r.updatedAt >= records[k].updatedAt BY <2>2 DEF Record
  <2> QED BY <2>1, <2>2, <2>3, ForwardWrite DEF Writes
<1>5. ASSUME NEW c \in Calls, publishSucceeds(c)
      PROVE  NoStepBack
  <2>1. inflight[c] \in Call /\ MarkClean(inflight[c])
    BY <1>5 DEF publishSucceeds, InFlight, TypeOK
  <2>2. PICK k \in Trees : k = inflight[c].tree BY <2>1 DEF Call
  <2>3. CASE UNCHANGED <<records, persisted>> BY <1>1, <2>3
  <2>4. CASE /\ records[k] \in Record
             /\ records' = [records EXCEPT ![k] = [@ EXCEPT !.dirty = FALSE]]
    <3> DEFINE r == [records[k] EXCEPT !.dirty = FALSE]
    <3>1. r \in Record /\ r.key = records[k].key /\ r.updatedAt = records[k].updatedAt
      BY <2>4 DEF Record
    <3>2. r.updatedAt >= records[k].updatedAt BY <3>1 DEF Record
    <3>3. records' = [records EXCEPT ![k] = r] BY <2>4
    <3> HIDE DEF r
    <3> QED BY <3>1, <3>2, <3>3, ForwardWrite
  <2> QED BY <2>1, <2>2, <2>3, <2>4, MarkCleanEffect
<1>6. CASE \/ UNCHANGED vars \/ setPublishFn \/ tick \/ flushPendingPublishes
           \/ \E w \in Waiters : resolveTimeout(w) \/ \E k \in Trees : resolve(w, k)
           \/ \E a \in Accounts \cup {None} : switchAccount(a)
           \/ \E k \in Trees : timerFires(k) \/ sendDeletion(k)
           \/ \E c \in Calls : signEvent(c) \/ relayAccepts(c) \/ publishFails(c)
  BY <1>1, <1>6 DEF vars, setPublishFn, tick, resolveTimeout, resolve, switchAccount,
        timerFires, sendDeletion, flushPendingPublishes, signEvent, relayAccepts,
        publishFails
<1>7. CASE \/ \E k \in Trees, h \in Hashes, v \in VisibilityOption :
                \E key \in KeyOption(h), enc \in KeyOption(h) : setLocal(k, h, key, v, enc)
           \/ \E k \in Trees : deleteTree(k)
           \/ hydrate
  BY <1>2, <1>7 DEF setLocal, deleteTree, delete, hydrate
<1> QED BY <1>3, <1>4, <1>5, <1>6, <1>7, NextCases

\* Updates heard in any order never take a tree back in time and never lose the
\* key of a root that stays; that a same-root update cannot swap the key rests
\* on KeyInv.
THEOREM UpdatesMoveForward == Spec => NoRollback
<1>1. TypeOK /\ KeyInv /\ [Next]_vars => [NoStepBack]_vars
  BY NoStepBackStep
<1> QED BY <1>1, KeysAlwaysFit, PTL DEF Spec, NoRollback, NoStepBack

-----------------------------------------------------------------------------
(* No caller of resolve() waits for a record that is there.                *)

\* A step that serves the waiters of k, or writes None there, and leaves the
\* other records as they were, keeps every waiter rightly waiting.
LEMMA WaitersServed ==
    ASSUME TypeOK, WaiterNeverMissesRecord, NEW k \in Trees, NEW r,
           records' = [records EXCEPT ![k] = r],
           Notify(k) \/ (r = None /\ UNCHANGED waiting)
    PROVE  WaiterNeverMissesRecord'
<1> SUFFICES ASSUME NEW w \in Waiters, waiting'[w] # None
             PROVE  records'[waiting'[w]] = None
  BY DEF WaiterNeverMissesRecord
<1>1. waiting'[w] = waiting[w] /\ (Notify(k) => waiting[w] # k)
  BY DEF Notify
<1>2. waiting[w] \in Trees /\ records[waiting[w]] = None
  BY <1>1 DEF WaiterNeverMissesRecord, TypeOK
<1> QED BY <1>1, <1>2 DEF TypeOK

\* Every step keeps WaiterNeverMissesRecord.
LEMMA WaiterStep ==
    ASSUME TypeOK, WaiterNeverMissesRecord, [Next]_vars
    PROVE  WaiterNeverMissesRecord'
<1>1. CASE UNCHANGED <<records, waiting>>
  BY <1>1 DEF WaiterNeverMissesRecord
<1>2. ASSUME NEW k \in Trees, NEW r, Writes(k, r)
      PROVE  WaiterNeverMissesRecord'
  BY <1>2, WaitersServed DEF Writes
<1>3. ASSUME NEW k \in Trees, NEW h \in Hashes, NEW v \in VisibilityOption,
             NEW key \in KeyOption(h), NEW enc \in KeyOption(h),
             setLocal(k, h, key, v, enc)
      PROVE  WaiterNeverMissesRecord'
  BY <1>2, <1>3, SetLocalEffect
<1>4. CASE RemoteUpdate
  BY <1>2, <1>4, RemoteUpdateEffect DEF Updates
<1>5. ASSUME NEW k \in Trees, NEW h \in Hashes, mergeKey(k, h)
      PROVE  WaiterNeverMissesRecord'
  BY <1>2, <1>5, MergeKeyEffect
<1>6. ASSUME NEW k \in Trees, deleteTree(k)
      PROVE  WaiterNeverMissesRecord'
  <2>1. records' = [records EXCEPT ![k] = None] /\ UNCHANGED waiting
    BY <1>6 DEF deleteTree, delete
  <2> QED BY <2>1, WaitersServed
<1>7. ASSUME NEW w \in Waiters, NEW k \in Trees, resolve(w, k)
      PROVE  WaiterNeverMissesRecord'
  BY <1>7 DEF resolve, WaiterNeverMissesRecord, TypeOK
<1>8. ASSUME NEW w \in Waiters, resolveTimeout(w)
      PROVE  WaiterNeverMissesRecord'
  BY <1>8 DEF resolveTimeout, WaiterNeverMissesRecord, TypeOK
<1>9. ASSUME NEW c \in Calls, publishSucceeds(c)
      PROVE  WaiterNeverMissesRecord'
  <2>1. inflight[c] \in Call /\ MarkClean(inflight[c]) /\ UNCHANGED waiting
    BY <1>9 DEF publishSucceeds, InFlight, TypeOK
  <2>2. PICK k \in Trees : k = inflight[c].tree BY <2>1 DEF Call
  <2>3. CASE UNCHANGED <<records, persisted>> BY <1>1, <2>1, <2>3
  <2>4. CASE /\ records[k] \in Record
             /\ records' = [records EXCEPT ![k] = [@ EXCEPT !.dirty = FALSE]]
    <3>1. records[k] # None BY <2>4, NoneAssumption
    <3>2. \A j \in Trees : records[j] = None => records'[j] = None
      BY <2>4, <3>1 DEF TypeOK
    <3> QED BY <2>1, <3>2 DEF WaiterNeverMissesRecord, TypeOK
  <2> QED BY <2>1, <2>2, <2>3, <2>4, MarkCleanEffect
<1>10. CASE hydrate
  BY <1>10 DEF hydrate, WaiterNeverMissesRecord
<1>11. CASE \/ UNCHANGED vars \/ setPublishFn \/ tick \/ flushPendingPublishes
            \/ \E a \in Accounts \cup {None} : switchAccount(a)
            \/ \E k \in Trees : timerFires(k) \/ sendDeletion(k)
            \/ \E c \in Calls : signEvent(c) \/ relayAccepts(c) \/ publishFails(c)
  BY <1>1, <1>11 DEF vars, setPublishFn, tick, switchAccount,
        timerFires, sendDeletion, flushPendingPublishes, signEvent, relayAccepts,
        publishFails
<1> QED BY <1>3, <1>4, <1>5, <1>6, <1>7, <1>8, <1>9, <1>10, <1>11, NextCases

\* A caller of resolve() is never left waiting for a tree whose record is
\* there: the check and the subscription are one step, every path that sets a
\* record notifies, and marking clean or deleting never makes one appear.
THEOREM WaitersGetRecords == Spec => []WaiterNeverMissesRecord
<1>1. Init => WaiterNeverMissesRecord BY DEF Init, WaiterNeverMissesRecord
<1>2. TypeOK /\ WaiterNeverMissesRecord /\ [Next]_vars => WaiterNeverMissesRecord'
  BY WaiterStep
<1> QED BY <1>1, <1>2, TypeCorrect, PTL DEF Spec

-----------------------------------------------------------------------------
(* localStorage holds what the registry holds, while saving works.         *)

\* Every step saves what it changes.
LEMMA SavedStep ==
    ASSUME SaveMayFail = FALSE, TypeOK, SavedIsCurrent, [Next]_vars
    PROVE  SavedIsCurrent'
<1>1. CASE UNCHANGED <<records, persisted>>
  BY <1>1 DEF SavedIsCurrent
<1>2. ASSUME NEW k, NEW r, Write(k, r)
      PROVE  SavedIsCurrent'
  BY <1>2 DEF Write, Save, SavedIsCurrent
<1>3. ASSUME NEW k \in Trees, NEW h \in Hashes, NEW v \in VisibilityOption,
             NEW key \in KeyOption(h), NEW enc \in KeyOption(h),
             setLocal(k, h, key, v, enc)
      PROVE  SavedIsCurrent'
  BY <1>2, <1>3 DEF setLocal
<1>4. ASSUME NEW k, NEW a, NEW h, NEW key, NEW v, NEW t, NEW enc,
             ApplyUpdate(k, a, h, key, v, t, enc)
      PROVE  SavedIsCurrent'
  BY <1>2, <1>4 DEF ApplyUpdate
<1>5. CASE RemoteUpdate
  BY <1>4, <1>5 DEF RemoteUpdate, setFromResolver, setFromWorker, setFromNostr,
        setFromExternal
<1>6. ASSUME NEW k \in Trees, NEW h \in Hashes, mergeKey(k, h)
      PROVE  SavedIsCurrent'
  BY <1>2, <1>6 DEF mergeKey
<1>7. ASSUME NEW k \in Trees, deleteTree(k)
      PROVE  SavedIsCurrent'
  BY <1>7 DEF deleteTree, delete, Save, SavedIsCurrent
<1>8. ASSUME NEW c \in Calls, publishSucceeds(c)
      PROVE  SavedIsCurrent'
  BY <1>1, <1>8 DEF publishSucceeds, MarkClean, Save, SavedIsCurrent
<1>9. CASE hydrate
  BY <1>9 DEF hydrate, SavedIsCurrent
<1>10. CASE \/ UNCHANGED vars \/ setPublishFn \/ tick \/ flushPendingPublishes
            \/ \E w \in Waiters : resolveTimeout(w) \/ \E k \in Trees : resolve(w, k)
            \/ \E a \in Accounts \cup {None} : switchAccount(a)
            \/ \E k \in Trees : timerFires(k) \/ sendDeletion(k)
            \/ \E c \in Calls : signEvent(c) \/ relayAccepts(c) \/ publishFails(c)
  BY <1>1, <1>10 DEF vars, setPublishFn, tick, resolveTimeout, resolve, switchAccount,
        timerFires, sendDeletion, flushPendingPublishes, signEvent, relayAccepts,
        publishFails
<1> QED BY <1>3, <1>5, <1>6, <1>7, <1>8, <1>9, <1>10, NextCases

\* As long as localStorage.setItem does not throw, a restart at any point finds
\* exactly the records the page had: every path that changes a record saves it.
THEOREM RestartsFindRecords ==
    ASSUME SaveMayFail = FALSE
    PROVE  Spec => []SavedIsCurrent
<1>1. Init => SavedIsCurrent BY DEF Init, SavedIsCurrent
<1>2. TypeOK /\ SavedIsCurrent /\ [Next]_vars => SavedIsCurrent'
  BY SavedStep
<1> QED BY <1>1, <1>2, TypeCorrect, PTL DEF Spec

-----------------------------------------------------------------------------
(* A deleted tree stays deleted.                                           *)

\* An event is keyed by its author: without a switch of accounts, or with one
\* account, that is the owner of the tree the publish was started for.
AuthorOwns ==
    \A c \in Calls : inflight[c] # None /\ inflight[c].phase # "preparing"
                        => inflight[c].author = Owner(inflight[c].tree)

\* Nothing is stamped later than the clock, but a deletion.
NothingAhead ==
    /\ \A e \in events : e.hash # None => e.createdAt <= now
    /\ \A c \in Calls : inflight[c] # None /\ inflight[c].phase # "preparing"
                            => inflight[c].createdAt <= now

\* A publish that is signed, with a stamp older than d.
OlderCall(x, d) == x.phase # "preparing" /\ x.createdAt < d

\* Of a tree deleted, with nothing left to publish, since its last local write:
\* no record is dirty, in memory or saved, so no publish starts; and what was
\* published, or is under way, is older than the deletion.
Gone(k) ==
    /\ ~Dirty(records[k]) /\ ~Dirty(persisted[k])
    /\ \A e \in events : e.tree = k /\ e.hash # None => e.createdAt < deletedAt[k]
    /\ \A c \in Calls : inflight[c] # None /\ inflight[c].tree = k
                            => OlderCall(inflight[c], deletedAt[k])

DeletionInv ==
    /\ NothingAhead
    /\ \A k \in Trees : deletedAt[k] # None => Gone(k)

\* The author owns what is signed, when nobody switches account (PublishInv) or
\* there is one account to switch to (the types).
LEMMA AuthorsOwn ==
    ASSUME MaxSwitches = 0 \/ \A a, b \in Accounts : a = b
    PROVE  Spec => []AuthorOwns
<1>1. CASE MaxSwitches = 0
  <2>1. PublishInv => AuthorOwns
    BY DEF PublishInv, CallBacked, AuthorOwns
  <2> QED BY <1>1, <2>1, PublishInvHolds, PTL
<1>2. CASE \A a, b \in Accounts : a = b
  <2>1. TypeInv => AuthorOwns
    <3> SUFFICES ASSUME TypeInv, NEW c \in Calls, inflight[c] # None,
                        inflight[c].phase # "preparing"
                 PROVE  inflight[c].author = Owner(inflight[c].tree)
      BY DEF AuthorOwns
    <3>1. inflight[c].author \in Accounts
      BY DEF TypeInv, TypeOK, SignedHasAuthor, Call
    <3>2. Owner(inflight[c].tree) \in Accounts
      BY DEF TypeInv, TypeOK, Call, Trees, Owner
    <3> QED BY <1>2, <3>1, <3>2
  <2> QED BY <2>1, TypeInvHolds, PTL
<1> QED BY <1>1, <1>2

\* A tree stays gone over a step that makes nothing dirty, sends nothing, and
\* leaves the clock and the deletion alone.
LEMMA GoneFrame ==
    ASSUME NEW k \in Trees, Gone(k), UNCHANGED <<events, now, inflight>>,
           deletedAt'[k] = deletedAt[k], ~Dirty(records'[k]), ~Dirty(persisted'[k])
    PROVE  Gone(k)'
BY DEF Gone, Dirty, OlderCall

\* A step that writes one record keeps DeletionInv, if the record is clean or
\* its tree is not deleted after the step.
LEMMA DeletionWrite ==
    ASSUME TypeOK, DeletionInv, NEW k \in Trees, NEW r,
           records' = [records EXCEPT ![k] = r],
           persisted' = records' \/ persisted' = persisted,
           UNCHANGED <<events, now, inflight>>,
           \A j \in Trees \ {k} : deletedAt'[j] = deletedAt[j],
           deletedAt'[k] = None \/ (deletedAt'[k] = deletedAt[k] /\ ~Dirty(r))
    PROVE  DeletionInv'
<1>1. NothingAhead' BY DEF NothingAhead, DeletionInv
<1>2. \A j \in Trees : records'[j] = IF j = k THEN r ELSE records[j]
  BY DEF TypeOK
<1>3. ASSUME NEW j \in Trees, deletedAt'[j] # None
      PROVE  Gone(j)'
  <2>1. deletedAt'[j] = deletedAt[j] /\ Gone(j) BY <1>3 DEF DeletionInv
  <2>2. ~Dirty(records'[j]) BY <1>2, <1>3, <2>1 DEF Gone
  <2>3. ~Dirty(persisted'[j]) BY <2>1, <2>2 DEF Gone
  <2> QED BY <2>1, <2>2, <2>3, GoneFrame
<1> QED BY <1>1, <1>3 DEF DeletionInv

\* A tree whose record is not dirty starts no publish, so starting publishes
\* keeps DeletionInv.
LEMMA DeletionDoPublish ==
    ASSUME TypeOK, DeletionInv, NEW ks \in SUBSET Trees, doPublish(ks),
           UNCHANGED <<records, persisted, events, deletedAt, now>>
    PROVE  DeletionInv'
<1>0. ASSUME NEW c \in Calls
      PROVE  \/ inflight'[c] = inflight[c]
             \/ \E k \in Trees : /\ inflight'[c].tree = k
                                 /\ inflight'[c].phase = "preparing"
                                 /\ Dirty(records[k])
  <2>1. CASE inflight'[c] = inflight[c] BY <2>1
  <2>2. ASSUME NEW k \in ks, NeedsPublish(k), inflight'[c] = Snapshot(k)
        PROVE  /\ inflight'[c].tree = k /\ inflight'[c].phase = "preparing"
               /\ Dirty(records[k])
    BY <2>2 DEF Snapshot, NeedsPublish, Dirty
  <2> QED BY <2>1, <2>2, DoPublishEffect
<1>1. NothingAhead' BY <1>0 DEF NothingAhead, DeletionInv
<1>2. ASSUME NEW k \in Trees, deletedAt[k] # None
      PROVE  Gone(k)'
  <2>1. Gone(k) BY <1>2 DEF DeletionInv
  <2>2. ASSUME NEW c \in Calls, inflight'[c] # None, inflight'[c].tree = k
        PROVE  OlderCall(inflight'[c], deletedAt[k])
    BY <1>0, <2>1, <2>2 DEF Gone
  <2> QED BY <2>1, <2>2 DEF Gone, Dirty, OlderCall
<1> QED BY <1>1, <1>2 DEF DeletionInv

\* What is signed is of a tree that was not quiet, so none of a deleted tree.
LEMMA DeletionSign ==
    ASSUME TypeOK, DeletionInv, NEW c \in Calls, signEvent(c)
    PROVE  DeletionInv'
<1>1. PICK x \in Call : x = inflight[c] /\ x # None /\ x.phase = "preparing"
  BY DEF signEvent, InFlight, TypeOK
<1>2. PICK t \in Nat : t = now BY DEF TypeOK
<1>3. PICK u : u = user OBVIOUS
<1> DEFINE y == [x EXCEPT !.phase = "signed", !.author = u, !.createdAt = t]
<1>4. /\ inflight' = [inflight EXCEPT ![c] = y]
      /\ UNCHANGED <<records, persisted, events, deletedAt, now>>
  BY <1>1, <1>2, <1>3 DEF signEvent
<1>5. y.tree = x.tree /\ y.phase = "signed" /\ y.createdAt = t
  BY DEF Call
<1> HIDE DEF y
<1>6. \A d \in Calls : inflight'[d] = IF d = c THEN y ELSE inflight[d]
  BY <1>4 DEF TypeOK
<1>7. t <= now BY <1>2
<1>8. NothingAhead' BY <1>4, <1>5, <1>6, <1>7 DEF NothingAhead, DeletionInv
<1>9. ASSUME NEW k \in Trees, deletedAt[k] # None
      PROVE  Gone(k)'
  <2>1. Gone(k) BY <1>9 DEF DeletionInv
  <2>2. ASSUME NEW d \in Calls, inflight'[d] # None, inflight'[d].tree = k
        PROVE  OlderCall(inflight'[d], deletedAt[k])
    <3>1. CASE d # c BY <1>6, <2>1, <2>2, <3>1 DEF Gone
    <3>2. CASE d = c
      <4>1. x.tree = k BY <1>5, <1>6, <2>2, <3>2
      <4> QED BY <1>1, <2>1, <4>1 DEF Gone, OlderCall
    <3> QED BY <3>1, <3>2
  <2> QED BY <1>4, <2>1, <2>2 DEF Gone, Dirty, OlderCall
<1> QED BY <1>4, <1>8, <1>9 DEF DeletionInv

\* The event the relay accepts carries the stamp of its publish and, its author
\* owning the tree, the publish's tree.
LEMMA DeletionAccept ==
    ASSUME TypeOK, AuthorOwns, DeletionInv, NEW c \in Calls, relayAccepts(c)
    PROVE  DeletionInv'
<1>1. PICK x \in Call : x = inflight[c] /\ x # None /\ x.phase = "signed"
  BY DEF relayAccepts, InFlight, TypeOK
<1> DEFINE y == [x EXCEPT !.phase = "accepted"]
           e == CallEvent(x)
<1>2. /\ inflight' = [inflight EXCEPT ![c] = y] /\ events' = events \cup {e}
      /\ UNCHANGED <<records, persisted, deletedAt, now>>
  BY <1>1 DEF relayAccepts, TypeOK
<1>3. y.tree = x.tree /\ y.phase = "accepted" /\ y.createdAt = x.createdAt
  BY DEF Call
<1>4. e.tree = x.tree /\ e.createdAt = x.createdAt
  <2>1. x.author = x.tree[1] BY <1>1 DEF AuthorOwns, Owner
  <2>2. x.tree = <<x.tree[1], x.tree[2]>> BY DEF Call, Trees
  <2> QED BY <2>1, <2>2 DEF CallEvent
<1> HIDE DEF y, e
<1>5. \A d \in Calls : inflight'[d] = IF d = c THEN y ELSE inflight[d]
  BY <1>2 DEF TypeOK
<1>6. x.createdAt <= now BY <1>1 DEF DeletionInv, NothingAhead
<1>7. NothingAhead' BY <1>2, <1>3, <1>4, <1>5, <1>6 DEF NothingAhead, DeletionInv
<1>8. ASSUME NEW k \in Trees, deletedAt[k] # None
      PROVE  Gone(k)'
  <2>1. Gone(k) BY <1>8 DEF DeletionInv
  <2>2. x.tree = k => x.createdAt < deletedAt[k]
    BY <1>1, <2>1 DEF Gone, OlderCall
  <2>3. ASSUME NEW d \in Calls, inflight'[d] # None, inflight'[d].tree = k
        PROVE  OlderCall(inflight'[d], deletedAt[k])
    <3>1. CASE d # c BY <1>5, <2>1, <2>3, <3>1 DEF Gone
    <3>2. CASE d = c BY <1>3, <1>5, <2>2, <2>3, <3>2 DEF OlderCall
    <3> QED BY <3>1, <3>2
  <2>4. \A f \in events' : f.tree = k /\ f.hash # None => f.createdAt < deletedAt[k]
    BY <1>2, <1>4, <2>1, <2>2 DEF Gone
  <2> QED BY <1>2, <2>1, <2>3, <2>4 DEF Gone, Dirty, OlderCall
<1> QED BY <1>2, <1>7, <1>8 DEF DeletionInv

\* The deletion is stamped one second ahead, so it is newer than everything
\* published and everything signed.
LEMMA DeletionSend ==
    ASSUME TypeOK, DeletionInv, NEW k \in Trees, sendDeletion(k)
    PROVE  DeletionInv'
<1>0. UNCHANGED <<records, persisted, inflight, now>> BY DEF sendDeletion
<1>1. CASE UNCHANGED <<events, deletedAt>>
  BY <1>0, <1>1 DEF DeletionInv, NothingAhead, Gone, Dirty, OlderCall
<1>2. ASSUME NEW e \in Event, e.hash = None, events' = events \cup {e},
             \/ deletedAt' = [deletedAt EXCEPT ![e.tree] = None]
             \/ /\ Quiet(e.tree)
                /\ deletedAt' = [deletedAt EXCEPT ![e.tree] = now + 1]
      PROVE  DeletionInv'
  <2>1. now \in Nat BY DEF TypeOK
  <2>2. PICK t \in Trees : t = e.tree BY DEF Event
  <2>3. \A f \in events' : f \in events \/ f.hash = None BY <1>2
  <2>4. NothingAhead' BY <1>0, <2>3 DEF NothingAhead, DeletionInv
  <2>5. \A j \in Trees \ {t} : deletedAt'[j] = deletedAt[j]
    BY <1>2, <2>2 DEF TypeOK
  <2>6. ASSUME NEW j \in Trees \ {t}, deletedAt[j] # None
        PROVE  Gone(j)'
    <3>1. Gone(j) BY <2>6 DEF DeletionInv
    <3> QED BY <1>0, <2>3, <2>5, <3>1 DEF Gone, Dirty, OlderCall
  <2>7. ASSUME deletedAt'[t] # None
        PROVE  Gone(t)'
    <3>1. deletedAt'[t] = now + 1 /\ Quiet(t)
      BY <1>2, <2>2, <2>7 DEF TypeOK
    <3>2. \A n \in Nat : n <= now => n < now + 1 BY <2>1
    <3>3. ASSUME NEW f \in events', f.hash # None
          PROVE  f.createdAt < now + 1
      <4>1. f \in Event /\ f.createdAt <= now
        BY <2>3, <3>3 DEF DeletionInv, NothingAhead, TypeOK
      <4> QED BY <3>2, <4>1 DEF Event
    <3>4. ASSUME NEW c \in Calls, inflight[c] # None, inflight[c].tree = t
          PROVE  OlderCall(inflight[c], now + 1)
      <4>1. inflight[c].createdAt \in Nat BY <3>4 DEF TypeOK, Call
      <4>2. inflight[c].phase # "preparing" BY <3>1, <3>4 DEF Quiet
      <4>3. inflight[c].createdAt <= now
        BY <3>4, <4>2 DEF DeletionInv, NothingAhead
      <4> QED BY <3>2, <4>1, <4>2, <4>3 DEF OlderCall
    <3>5. ~Dirty(records[t]) /\ ~Dirty(persisted[t]) BY <3>1 DEF Quiet
    <3> QED BY <1>0, <3>1, <3>3, <3>4, <3>5 DEF Gone, Dirty, OlderCall
  <2> QED BY <2>4, <2>5, <2>6, <2>7 DEF DeletionInv
<1> QED BY <1>1, <1>2, SendDeletionEffect

\* Every step keeps DeletionInv.
LEMMA DeletionStep ==
    ASSUME TypeOK, AuthorOwns, DeletionInv, [Next]_vars
    PROVE  DeletionInv'
<1>1. CASE UNCHANGED <<records, persisted, inflight, events, deletedAt, now>>
  BY <1>1 DEF DeletionInv, NothingAhead, Gone, Dirty, OlderCall
<1>2. ASSUME NEW k \in Trees, NEW h \in Hashes, NEW v \in VisibilityOption,
             NEW key \in KeyOption(h), NEW enc \in KeyOption(h),
             setLocal(k, h, key, v, enc)
      PROVE  DeletionInv'
  <2>1. PICK r \in Record : Writes(k, r) BY <1>2, SetLocalEffect
  <2>2. /\ \A j \in Trees \ {k} : deletedAt'[j] = deletedAt[j]
        /\ deletedAt'[k] = None /\ UNCHANGED <<events, now, inflight>>
    BY <1>2 DEF setLocal, TypeOK
  <2> QED BY <2>1, <2>2, DeletionWrite DEF Writes
<1>3. CASE RemoteUpdate
  <2>1. PICK k \in Trees, r \in Record : Updates(k, r) BY <1>3, RemoteUpdateEffect
  <2>2. Writes(k, r) /\ ~Dirty(r) BY <2>1 DEF Updates
  <2>3. UNCHANGED <<events, now, inflight, deletedAt>>
    BY <1>3, RemoteUpdateEffect DEF UpdateFrame
  <2> QED BY <2>2, <2>3, DeletionWrite DEF Writes
<1>4. ASSUME NEW k \in Trees, NEW h \in Hashes, mergeKey(k, h)
      PROVE  DeletionInv'
  <2>1. PICK r : SameWrite(r, records[k]) /\ Writes(k, r) BY <1>4, MergeKeyEffect
  <2>2. records[k] # None BY <1>4 DEF mergeKey
  <2>3. deletedAt[k] # None => ~Dirty(r)
    BY <2>1, <2>2 DEF DeletionInv, Gone, Dirty, SameWrite
  <2>4. UNCHANGED <<events, now, inflight, deletedAt>> BY <1>4 DEF mergeKey
  <2> QED BY <2>1, <2>3, <2>4, DeletionWrite DEF Writes
<1>4a. ASSUME NEW k \in Trees, deleteTree(k)
       PROVE  DeletionInv'
  <2>1. /\ records' = [records EXCEPT ![k] = None]
        /\ persisted' = records' \/ persisted' = persisted
        /\ UNCHANGED <<events, now, inflight, deletedAt>>
    BY <1>4a DEF deleteTree, delete, Save
  <2>2. ~Dirty(None) BY DEF Dirty
  <2> QED BY <2>1, <2>2, DeletionWrite
<1>5. ASSUME NEW c \in Calls, inflight' = [inflight EXCEPT ![c] = None],
             UNCHANGED <<events, deletedAt, now>>,
             \A k \in Trees : ~Dirty(records[k]) => ~Dirty(records'[k]),
             \/ UNCHANGED persisted
             \/ persisted' = records'
      PROVE  DeletionInv'
  <2>1. \A d \in Calls : inflight'[d] = IF d = c THEN None ELSE inflight[d]
    BY <1>5 DEF TypeOK
  <2>2. NothingAhead' BY <1>5, <2>1 DEF DeletionInv, NothingAhead
  <2>3. ASSUME NEW k \in Trees, deletedAt[k] # None
        PROVE  Gone(k)'
    <3>1. Gone(k) BY <2>3 DEF DeletionInv
    <3>2. ~Dirty(records'[k]) /\ ~Dirty(persisted'[k]) BY <1>5, <3>1 DEF Gone
    <3> QED BY <1>5, <2>1, <3>1, <3>2 DEF Gone, Dirty, OlderCall
  <2> QED BY <1>5, <2>2, <2>3 DEF DeletionInv
<1>6. ASSUME NEW c \in Calls, publishSucceeds(c)
      PROVE  DeletionInv'
  <2>1. /\ inflight[c] \in Call /\ MarkClean(inflight[c])
        /\ inflight' = [inflight EXCEPT ![c] = None]
        /\ UNCHANGED <<events, deletedAt, now>>
    BY <1>6 DEF publishSucceeds, InFlight, TypeOK
  <2>2. PICK k \in Trees : k = inflight[c].tree BY <2>1 DEF Call
  <2>3. CASE UNCHANGED <<records, persisted>> BY <1>5, <2>1, <2>3
  <2>4. CASE /\ records[k] \in Record
             /\ records' = [records EXCEPT ![k] = [@ EXCEPT !.dirty = FALSE]]
             /\ persisted' = records' \/ persisted' = persisted
    <3> DEFINE r == [records[k] EXCEPT !.dirty = FALSE]
    <3>1. ~Dirty(r) BY <2>4 DEF Record, Dirty
    <3>2. records' = [records EXCEPT ![k] = r] BY <2>4
    <3> HIDE DEF r
    <3>3. \A j \in Trees : ~Dirty(records[j]) => ~Dirty(records'[j])
      BY <3>1, <3>2 DEF TypeOK
    <3> QED BY <1>5, <2>1, <2>4, <3>3
  <2> QED BY <2>1, <2>2, <2>3, <2>4, MarkCleanEffect
<1>7. ASSUME NEW c \in Calls, publishFails(c)
      PROVE  DeletionInv'
  BY <1>5, <1>7 DEF publishFails
<1>8. ASSUME NEW k \in Trees, timerFires(k)
      PROVE  DeletionInv'
  <2>1. {k} \in SUBSET Trees OBVIOUS
  <2> QED BY <1>8, <2>1, DeletionDoPublish DEF timerFires
<1>9. CASE flushPendingPublishes
  <2>1. {k \in Trees : timers[k] # None} \in SUBSET Trees OBVIOUS
  <2> QED BY <1>9, <2>1, DeletionDoPublish DEF flushPendingPublishes
<1>10. CASE tick
  <2>1. /\ now \in Nat /\ now' = now + 1
        /\ UNCHANGED <<records, persisted, inflight, events, deletedAt>>
    BY <1>10 DEF tick, TypeOK
  <2>3. \A n \in Nat : n <= now => n <= now' BY <2>1
  <2>4. /\ \A e \in events : e.createdAt \in Nat
        /\ \A c \in Calls : inflight[c] # None => inflight[c].createdAt \in Nat
    BY DEF TypeOK, Event, Call
  <2>5. NothingAhead' BY <2>1, <2>3, <2>4 DEF DeletionInv, NothingAhead
  <2>6. \A k \in Trees : Gone(k) => Gone(k)'
    BY <2>1 DEF Gone, Dirty, OlderCall
  <2> QED BY <2>1, <2>5, <2>6 DEF DeletionInv
<1>11. CASE hydrate
  <2>1. /\ records' = persisted /\ \A c \in Calls : inflight'[c] = None
        /\ UNCHANGED <<persisted, events, deletedAt, now>>
    BY <1>11 DEF hydrate
  <2>2. NothingAhead' BY <2>1 DEF DeletionInv, NothingAhead
  <2>3. \A k \in Trees : Gone(k) => Gone(k)'
    BY <2>1 DEF Gone, Dirty, OlderCall
  <2> QED BY <2>1, <2>2, <2>3 DEF DeletionInv
<1>12. CASE \/ UNCHANGED vars \/ setPublishFn
            \/ \E w \in Waiters : resolveTimeout(w) \/ \E k \in Trees : resolve(w, k)
            \/ \E a \in Accounts \cup {None} : switchAccount(a)
  BY <1>1, <1>12 DEF vars, setPublishFn, resolveTimeout, resolve, switchAccount
<1> QED BY <1>2, <1>3, <1>4, <1>4a, <1>6, <1>7, <1>8, <1>9, <1>10, <1>11, <1>12,
           DeletionSend, DeletionSign, DeletionAccept, NextCases

\* A deletion sent when nothing of the tree was left to publish is not undone by
\* a publish that was under way, retried or rescheduled, nor by a restart: it is
\* stamped strictly later than every root ever published for the tree, until
\* the next local write.  An event is keyed by its author, so the theorem needs
\* that nobody else's publish is signed by the owner of the tree after a switch
\* of accounts; TLC breaks the property without that.
THEOREM DeletionsAreNewest ==
    ASSUME MaxSwitches = 0 \/ \A a, b \in Accounts : a = b
    PROVE  Spec => []DeletedStaysDeleted
<1>1. Init => DeletionInv
  BY DEF Init, DeletionInv, NothingAhead
<1>2. TypeOK /\ AuthorOwns /\ DeletionInv /\ [Next]_vars => DeletionInv'
  BY DeletionStep
<1>3. DeletionInv => DeletedStaysDeleted
  BY DEF DeletionInv, Gone, DeletedStaysDeleted
<1>4. Spec => []AuthorOwns
  BY AuthorsOwn
<1> QED BY <1>1, <1>2, <1>3, <1>4, TypeCorrect, PTL DEF Spec
===============================================================================

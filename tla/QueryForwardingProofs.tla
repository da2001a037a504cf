------------------------ MODULE QueryForwardingProofs ------------------------
(***************************************************************************)
(* The two maps of the forwarding machine never drift apart, for every set *)
(* of peers and hashes and every limit.  The argument is one inductive     *)
(* invariant: the maps are well typed, they agree, and no forward is kept  *)
(* with nobody waiting for it.  Agreement alone is inductive only together *)
(* with the types; InFlightHasRequester is what removePeer re-establishes, *)
(* and timers are armed and cleared together with the entries.             *)
(***************************************************************************)
EXTENDS QueryForwarding, SmallestNumber, SequenceTheorems, TLAPS

IndexInv == TypeOK /\ IndexesAgree /\ InFlightHasRequester /\ ForwardHasTimer

\* Both indexes start empty.
LEMMA InitIndexes == Init => IndexInv
BY NotInFlightAssumption
   DEF Init, MachineInit, IndexInv, TypeOK, IndexesAgree, InFlightHasRequester,
       ForwardHasTimer, Requesters, isInFlight

\* Entering a requester in both maps, with a timer running, keeps them in agreement: the set it joins
\* is the one in flight, or a new one for a hash nobody waits for.
LEMMA TrackKeeps ==
    ASSUME IndexInv, NEW h \in Hashes, NEW p \in Peers,
           NEW requesters, requesters = Requesters(h),
           trackRequester(h, p, requesters), timeouts' = timeouts \cup {h}
    PROVE  IndexInv'
<1>1. requesters \cup {p} \in SUBSET Peers /\ requesters \cup {p} # NotInFlight
    <2>1. requesters \subseteq Peers
        BY DEF IndexInv, TypeOK, Requesters, isInFlight
    <2> QED BY <2>1, NotInFlightAssumption
<1>2. TypeOK'
    BY <1>1 DEF IndexInv, TypeOK, trackRequester
<1>3. \A g \in Hashes : Requesters(g)' = IF g = h THEN Requesters(h) \cup {p} ELSE Requesters(g)
    BY <1>1 DEF IndexInv, TypeOK, trackRequester, Requesters, isInFlight
<1>4. IndexesAgree'
    BY <1>3 DEF IndexInv, TypeOK, IndexesAgree, trackRequester
<1>5. InFlightHasRequester'
    BY <1>1 DEF IndexInv, TypeOK, InFlightHasRequester, isInFlight, trackRequester
<1>6. ForwardHasTimer'
    BY <1>1 DEF IndexInv, TypeOK, ForwardHasTimer, isInFlight, trackRequester
<1> QED BY <1>2, <1>4, <1>5, <1>6 DEF IndexInv

\* Clearing a hash takes it out of both maps.
LEMMA ClearKeeps ==
    ASSUME IndexInv, NEW h \in Hashes, clearForward(h)
    PROVE  IndexInv'
<1>1. TypeOK'
    BY DEF IndexInv, TypeOK, clearForward
<1>2. \A g \in Hashes : Requesters(g)' = IF g = h THEN {} ELSE Requesters(g)
    BY DEF IndexInv, TypeOK, clearForward, Requesters, isInFlight
<1>3. \A q \in Peers : hashesByRequester'[q] = hashesByRequester[q] \ {h}
    BY DEF IndexInv, TypeOK, IndexesAgree, clearForward, Requesters, isInFlight
<1>4. IndexesAgree'
    BY <1>2, <1>3 DEF IndexInv, IndexesAgree
<1>5. InFlightHasRequester'
    BY DEF IndexInv, TypeOK, InFlightHasRequester, isInFlight, clearForward
<1>6. ForwardHasTimer'
    BY DEF IndexInv, TypeOK, ForwardHasTimer, isInFlight, clearForward
<1> QED BY <1>1, <1>4, <1>5, <1>6 DEF IndexInv

\* A peer that leaves is in no set any more, and takes along the forwards only
\* it was waiting for.
LEMMA RemoveKeeps ==
    ASSUME IndexInv, NEW p \in Peers, removePeer(p)
    PROVE  IndexInv'
<1>1. TypeOK'
    BY NotInFlightAssumption DEF IndexInv, TypeOK, removePeer, Abandoned, isInFlight
<1>2. \A g \in Hashes : Requesters(g)' = Requesters(g) \ {p}
    <2> SUFFICES ASSUME NEW g \in Hashes PROVE Requesters(g)' = Requesters(g) \ {p}
        OBVIOUS
    <2>1. CASE p \in Requesters(g)
        BY <2>1, NotInFlightAssumption
           DEF IndexInv, TypeOK, IndexesAgree, removePeer, Abandoned, Requesters, isInFlight
    <2>2. CASE p \notin Requesters(g)
        BY <2>2 DEF IndexInv, TypeOK, IndexesAgree, removePeer, Requesters, isInFlight
    <2> QED BY <2>1, <2>2
<1>3. IndexesAgree'
    BY <1>2 DEF IndexInv, TypeOK, IndexesAgree, removePeer
<1>4. InFlightHasRequester'
    BY DEF IndexInv, TypeOK, InFlightHasRequester, isInFlight, removePeer, Abandoned
<1>5. ForwardHasTimer'
    BY NotInFlightAssumption
       DEF IndexInv, TypeOK, ForwardHasTimer, isInFlight, removePeer, Abandoned
<1> QED BY <1>1, <1>3, <1>4, <1>5 DEF IndexInv

\* stop() empties both maps.
LEMMA StopKeeps ==
    ASSUME stopMachine
    PROVE  IndexInv'
BY NotInFlightAssumption
   DEF stopMachine, IndexInv, TypeOK, IndexesAgree, InFlightHasRequester,
       ForwardHasTimer, Requesters, isInFlight

\* A step that leaves both maps alone keeps the invariant.
LEMMA IndexesUnchanged ==
    ASSUME IndexInv, UNCHANGED indexes
    PROVE  IndexInv'
BY DEF indexes, IndexInv, TypeOK, IndexesAgree, InFlightHasRequester, ForwardHasTimer,
       Requesters, isInFlight

\* Whatever beginForward decides, the maps stay in agreement.
LEMMA ForwardKeeps ==
    ASSUME IndexInv, NEW h \in Hashes, NEW p \in Peers,
           NEW candidates \in SUBSET Peers, beginForward(h, p, candidates)
    PROVE  IndexInv'
<1>1. CASE Decision(h, p, candidates) = "no_targets" /\ UNCHANGED machine
    BY <1>1, IndexesUnchanged DEF machine, indexes
<1>2. CASE /\ Decision(h, p, candidates) = "suppressed"
           /\ trackRequester(h, p, inFlightByHash[h])
           /\ UNCHANGED timeouts
    <2>1. inFlightByHash[h] = Requesters(h) /\ timeouts' = timeouts \cup {h}
        BY <1>2 DEF Decision, Requesters, IndexInv, ForwardHasTimer
    <2> QED BY <1>2, <2>1, TrackKeeps
<1>3. CASE UNCHANGED indexes
    BY <1>3, IndexesUnchanged
<1>4. CASE /\ Decision(h, p, candidates) = "forward" /\ trackRequester(h, p, {})
           /\ scheduleTimeout(h)
    <2>1. Requesters(h) = {} /\ timeouts' = timeouts \cup {h}
        BY <1>4 DEF Decision, Requesters, scheduleTimeout
    <2> QED BY <1>4, <2>1, TrackKeeps
<1> QED BY <1>1, <1>2, <1>3, <1>4 DEF beginForward

\* Every step of the machine keeps the invariant.
LEMMA NextIndexes == IndexInv /\ [Next]_vars => IndexInv'
<1> SUFFICES ASSUME IndexInv, [Next]_vars PROVE IndexInv'
    OBVIOUS
<1>1. CASE \E h \in Hashes, p \in Peers, candidates \in SUBSET Peers : Request(h, p, candidates)
    BY <1>1, ForwardKeeps DEF Request
<1>2. CASE \E h \in Hashes : Answer(h)
    BY <1>2, ClearKeeps DEF Answer, resolveForward
<1>3. CASE \E h \in Hashes : handleForwardTimeout(h)
    BY <1>3, ClearKeeps DEF handleForwardTimeout, resolveForward
<1>4. CASE \E p \in Peers : Disconnect(p)
    BY <1>4, RemoveKeeps DEF Disconnect
<1>5. CASE Stop
    BY <1>5, StopKeeps DEF Stop
<1>6. CASE tick
    BY <1>6, IndexesUnchanged DEF tick, machine, indexes
<1>7. CASE UNCHANGED vars
    BY <1>7, IndexesUnchanged DEF vars, indexes
<1> QED BY <1>1, <1>2, <1>3, <1>4, <1>5, <1>6, <1>7 DEF Next

\* The map from hashes to requesters and the map from requesters to hashes
\* (inFlightByHash, hashesByRequester) describe one relation in every
\* reachable state, for any peers, hashes and limits.
THEOREM IndexesStayInAgreement == Spec => []IndexesAgree
<1>1. IndexInv => IndexesAgree
    BY DEF IndexInv
<1> QED BY <1>1, InitIndexes, NextIndexes, PTL DEF Spec

\* No forward outlives the peers that asked for it (removePeer clears it), so
\* no request is ever suppressed by a forward that nobody waits for.
THEOREM ForwardsAreWanted == Spec => []InFlightHasRequester
<1>1. IndexInv => InFlightHasRequester
    BY DEF IndexInv
<1> QED BY <1>1, InitIndexes, NextIndexes, PTL DEF Spec

\* A forward in flight has its timer and no other timer is left running, however
\* requests, answers, timeouts, disconnections and stop() follow each other: no
\* hash stays suppressed for want of a timer, and none is ended by an old one.
THEOREM ForwardsHaveTimers == Spec => []ForwardHasTimer
<1>1. IndexInv => ForwardHasTimer
    BY DEF IndexInv
<1> QED BY <1>1, InitIndexes, NextIndexes, PTL DEF Spec

\* Both maps have their types: a hash has a set of requesters or is not in
\* flight, and a requester has a set of hashes.
THEOREM IndexesTypeCorrect == Spec => []TypeOK
<1>1. IndexInv => TypeOK
    BY DEF IndexInv
<1> QED BY <1>1, InitIndexes, NextIndexes, PTL DEF Spec

-----------------------------------------------------------------------------
(* The rate limiter *)

\* The limiter keeps the end of a peer's history, and what it dropped is at
\* least a window old.
KeepsEnd(kept, all, time) ==
    LET dropped == Len(all) - Len(kept)
    IN /\ Len(kept) <= Len(all)
       /\ \A i \in 1 .. Len(kept) : kept[i] = all[dropped + i]
       /\ \A i \in 1 .. dropped : time - all[i] >= Window

KeepsRecent(p) == KeepsEnd(eventsByPeer[p], forwards[p], now)

LimiterType ==
    /\ now \in Nat
    /\ eventsByPeer \in [Peers -> Seq(Nat)]
    /\ forwards \in [Peers -> Seq(Nat)]
    /\ \A p \in Peers : \A i \in 1 .. Len(forwards[p]) : forwards[p][i] <= now

RateInv == LimiterType /\ (\A p \in Peers : KeepsRecent(p)) /\ ForwardRateBounded

\* No peer has caused a forward at the start.
LEMMA InitRate == Init => RateInv
BY DEF Init, MachineInit, RateInv, LimiterType, KeepsRecent, KeepsEnd, ForwardRateBounded

\* Pruning drops events that left the window, from the front.
LEMMA ActiveIsRecent ==
    ASSUME LimiterType, NEW p \in Peers
    PROVE  LET kept == eventsByPeer[p]
               first == firstActiveIndex(p)
           IN /\ first \in 1 .. Len(kept) + 1
              /\ \A i \in 1 .. first - 1 : now - kept[i] >= Window
              /\ Active(p) \in Seq(Nat) /\ Len(Active(p)) = Len(kept) - first + 1
              /\ \A i \in 1 .. Len(Active(p)) : Active(p)[i] = kept[first - 1 + i]
<1> DEFINE kept == eventsByPeer[p]
           recent == {i \in 1 .. Len(kept) : now - kept[i] < Window}
           first == firstActiveIndex(p)
<1>1. kept \in Seq(Nat) /\ now \in Nat /\ Window \in Nat /\ Len(kept) \in Nat
    BY LimitsAssumption DEF LimiterType
<1>2. first = IF recent = {} THEN Len(kept) + 1 ELSE CHOOSE i \in recent : \A j \in recent : i <= j
    BY DEF firstActiveIndex
<1>3. first \in 1 .. Len(kept) + 1 /\ \A i \in 1 .. first - 1 : i \notin recent
    <2>1. CASE recent = {}
        BY <1>1, <1>2, <2>1
    <2>2. CASE recent # {}
        <3>1. recent \in SUBSET Nat
            BY <1>1
        <3>2. PICK m \in recent : \A j \in recent : m <= j
            BY <2>2, <3>1, SmallestExists
        <3>3. first \in recent /\ \A j \in recent : first <= j
            BY <1>2, <2>2, <3>2
        <3>4. first \in 1 .. Len(kept)
            BY <3>3
        <3> HIDE DEF recent
        <3> QED BY <1>1, <3>1, <3>3, <3>4
    <2> QED BY <2>1, <2>2
<1>4. \A i \in 1 .. first - 1 : now - kept[i] >= Window
    <2> SUFFICES ASSUME NEW i \in 1 .. first - 1 PROVE now - kept[i] >= Window
        OBVIOUS
    <2>1. i \in 1 .. Len(kept)
        BY <1>1, <1>3
    <2>2. kept[i] \in Nat
        BY <1>1, <2>1
    <2>3. ~(now - kept[i] < Window)
        BY <1>3, <2>1
    <2> QED BY <1>1, <2>2, <2>3
<1> HIDE DEF first, recent
<1>5. Active(p) = SubSeq(kept, first, Len(kept))
    BY DEF Active, first
<1>6. Active(p) \in Seq(Nat) /\ Len(Active(p)) = Len(kept) - first + 1
    BY <1>1, <1>3, <1>5, SubSeqProperties
<1>7. \A i \in 1 .. Len(Active(p)) : Active(p)[i] = kept[first - 1 + i]
    BY <1>1, <1>3, <1>5, <1>6, SubSeqProperties
<1> QED BY <1>3, <1>4, <1>6, <1>7 DEF first

\* The pruned list is still the end of the history, and still lacks only events
\* that left the window.
LEMMA PrunedKeepsRecent ==
    ASSUME RateInv, NEW p \in Peers
    PROVE  LET dropped == Len(forwards[p]) - Len(Active(p))
           IN /\ Len(Active(p)) \in Nat /\ Len(Active(p)) <= Len(forwards[p])
              /\ \A i \in 1 .. Len(Active(p)) : Active(p)[i] = forwards[p][dropped + i]
              /\ \A i \in 1 .. dropped : now - forwards[p][i] >= Window
<1> DEFINE kept == eventsByPeer[p]
           all == forwards[p]
           first == firstActiveIndex(p)
           before == Len(all) - Len(kept)
           dropped == Len(all) - Len(Active(p))
<1>1. /\ kept \in Seq(Nat) /\ all \in Seq(Nat) /\ Len(kept) \in Nat /\ Len(all) \in Nat
      /\ Len(kept) <= Len(all)
      /\ \A i \in 1 .. Len(kept) : kept[i] = all[before + i]
      /\ \A i \in 1 .. before : now - all[i] >= Window
    BY DEF RateInv, LimiterType, KeepsRecent, KeepsEnd
<1>2. /\ first \in 1 .. Len(kept) + 1
      /\ \A i \in 1 .. first - 1 : now - kept[i] >= Window
      /\ Len(Active(p)) = Len(kept) - first + 1
      /\ \A i \in 1 .. Len(Active(p)) : Active(p)[i] = kept[first - 1 + i]
    BY ActiveIsRecent DEF RateInv
<1>a. /\ Len(kept) \in Nat /\ Len(all) \in Nat /\ Len(kept) <= Len(all)
      /\ first \in 1 .. Len(kept) + 1 /\ Len(Active(p)) = Len(kept) - first + 1
      /\ before = Len(all) - Len(kept) /\ dropped = Len(all) - Len(Active(p))
    BY <1>1, <1>2
<1> HIDE DEF kept, all, first, before, dropped
<1>3. before \in Nat /\ dropped \in Nat /\ dropped = before + first - 1 /\ Len(Active(p)) \in Nat
    BY <1>a
<1>4. ASSUME NEW i \in 1 .. Len(Active(p)) PROVE Active(p)[i] = all[dropped + i]
    <2>1. first - 1 + i \in 1 .. Len(kept)
        BY <1>a
    <2>2. before + (first - 1 + i) = dropped + i
        BY <1>a
    <2>3. kept[first - 1 + i] = all[before + (first - 1 + i)]
        BY <1>1, <2>1
    <2> QED BY <1>2, <2>2, <2>3
<1>5. ASSUME NEW i \in 1 .. dropped PROVE now - all[i] >= Window
    <2>1. CASE i <= before
        BY <1>1, <1>3, <2>1
    <2>2. CASE i > before
        <3>1. i - before \in 1 .. first - 1 /\ i - before \in 1 .. Len(kept)
            BY <1>a, <2>2
        <3>2. before + (i - before) = i
            BY <1>3
        <3>3. kept[i - before] = all[before + (i - before)]
            BY <1>1, <3>1
        <3>4. now - kept[i - before] >= Window
            BY <1>2, <3>1
        <3> QED BY <3>2, <3>3, <3>4
    <2> QED BY <1>3, <2>1, <2>2
<1>6. Len(Active(p)) <= Len(all)
    BY <1>a
<1> QED BY <1>3, <1>4, <1>5, <1>6 DEF all, dropped

\* A forward that was refused: the list is pruned, the history is the same.
LEMMA PruneRate ==
    ASSUME RateInv, NEW p \in Peers, PruneEvents(p), UNCHANGED now
    PROVE  RateInv'
<1>1. Active(p) \in Seq(Nat)
    BY ActiveIsRecent DEF RateInv
<1>2. LimiterType'
    BY <1>1 DEF PruneEvents, RateInv, LimiterType
<1>3. ForwardRateBounded'
    BY DEF PruneEvents, RateInv, ForwardRateBounded
<1>4. ASSUME NEW q \in Peers PROVE KeepsRecent(q)'
    <2>1. CASE q = p
        <3>1. eventsByPeer'[p] = Active(p) /\ forwards' = forwards
            BY DEF PruneEvents, RateInv, LimiterType
        <3> QED BY <2>1, <3>1, PrunedKeepsRecent DEF KeepsRecent, KeepsEnd
    <2>2. CASE q # p
        BY <2>2 DEF PruneEvents, RateInv, LimiterType, KeepsRecent
    <2> QED BY <2>1, <2>2
<1> QED BY <1>2, <1>3, <1>4 DEF RateInv

\* A forward that was allowed: fewer than MaxForwards of the earlier ones are in
\* the window, so the one MaxForwards back has left it.
LEMMA CountRate ==
    ASSUME RateInv, NEW p \in Peers, allow(p), CountForward(p), UNCHANGED now
    PROVE  RateInv'
<1> DEFINE all == forwards[p]
           n == Len(all)
           new == Append(all, now)
           kept == Append(Active(p), now)
           dropped == n - Len(Active(p))
<1>1. Active(p) \in Seq(Nat) /\ all \in Seq(Nat) /\ now \in Nat /\ n \in Nat /\ MaxForwards \in Nat /\ Window \in Nat
    BY ActiveIsRecent, LimitsAssumption DEF RateInv, LimiterType
<1>2. /\ Len(Active(p)) \in Nat /\ Len(Active(p)) <= n
      /\ \A i \in 1 .. Len(Active(p)) : Active(p)[i] = all[dropped + i]
      /\ \A i \in 1 .. dropped : now - all[i] >= Window
    BY PrunedKeepsRecent
<1>3. Len(Active(p)) < MaxForwards
    BY DEF allow
<1>4. /\ eventsByPeer' = [eventsByPeer EXCEPT ![p] = kept]
      /\ forwards' = [forwards EXCEPT ![p] = new]
    BY DEF CountForward
<1>5. /\ new \in Seq(Nat) /\ Len(new) = n + 1 /\ new[n + 1] = now
      /\ \A i \in 1 .. n : new[i] = all[i]
    BY <1>1
<1>6. /\ kept \in Seq(Nat) /\ Len(kept) = Len(Active(p)) + 1 /\ kept[Len(Active(p)) + 1] = now
      /\ \A i \in 1 .. Len(Active(p)) : kept[i] = Active(p)[i]
    BY <1>1
<1> HIDE DEF new, kept
<1>7. LimiterType'
    <2>1. eventsByPeer' \in [Peers -> Seq(Nat)] /\ forwards' \in [Peers -> Seq(Nat)]
        BY <1>4, <1>5, <1>6 DEF RateInv, LimiterType
    <2>2. ASSUME NEW i \in 1 .. n + 1 PROVE new[i] <= now
        <3>1. \A j \in 1 .. n : all[j] <= now
            BY DEF RateInv, LimiterType
        <3> HIDE DEF n, all
        <3> QED BY <1>1, <1>5, <3>1
    <2>3. \A q \in Peers : \A i \in 1 .. Len(forwards'[q]) : forwards'[q][i] <= now
        BY <1>4, <1>5, <2>2 DEF RateInv, LimiterType
    <2> QED BY <1>1, <2>1, <2>3 DEF LimiterType
<1>8. ASSUME NEW q \in Peers PROVE KeepsRecent(q)'
    <2>1. CASE q = p
        <3>1. eventsByPeer'[p] = kept /\ forwards'[p] = new
            BY <1>4 DEF RateInv, LimiterType
        <3>2. Len(new) - Len(kept) = dropped /\ Len(kept) <= Len(new) /\ dropped \in Nat
            BY <1>1, <1>2, <1>5, <1>6
        <3>3. ASSUME NEW i \in 1 .. Len(kept) PROVE kept[i] = new[dropped + i]
            <4>1. CASE i <= Len(Active(p))
                <5>1. dropped + i \in 1 .. n /\ i \in 1 .. Len(Active(p))
                    BY <1>1, <1>2, <1>6, <4>1
                <5> QED BY <1>2, <1>5, <1>6, <5>1
            <4>2. CASE i = Len(Active(p)) + 1
                <5> HIDE DEF n
                <5>1. dropped + i = n + 1
                    BY <1>1, <1>2, <4>2
                <5> QED BY <1>5, <1>6, <4>2, <5>1
            <4> QED BY <1>2, <1>6, <4>1, <4>2
        <3>4. ASSUME NEW i \in 1 .. dropped PROVE now - new[i] >= Window
            <4>1. i \in 1 .. n
                BY <1>1, <1>2, <3>2
            <4> QED BY <1>2, <1>5, <4>1
        <3> QED BY <2>1, <3>1, <3>2, <3>3, <3>4 DEF KeepsRecent, KeepsEnd
    <2>2. CASE q # p
        BY <1>4, <2>2 DEF RateInv, LimiterType, KeepsRecent
    <2> QED BY <2>1, <2>2
<1>9. ForwardRateBounded'
    <2> SUFFICES ASSUME NEW q \in Peers, NEW i \in 1 .. Len(forwards'[q]),
                        i + MaxForwards <= Len(forwards'[q])
                 PROVE  forwards'[q][i + MaxForwards] - forwards'[q][i] >= Window
        BY DEF ForwardRateBounded
    <2>1. CASE q # p
        BY <1>4, <2>1 DEF RateInv, LimiterType, ForwardRateBounded
    <2>2. CASE q = p
        <3>1. forwards'[p] = new /\ i \in 1 .. n + 1 /\ i + MaxForwards <= n + 1
            BY <1>4, <1>5, <2>2 DEF RateInv, LimiterType
        <3>2. CASE i + MaxForwards <= n
            <4>1. i \in 1 .. n /\ i + MaxForwards \in 1 .. n
                BY <1>1, <3>1, <3>2
            <4>2. all[i + MaxForwards] - all[i] >= Window
                BY <3>2, <4>1 DEF RateInv, ForwardRateBounded
            <4> QED BY <1>5, <2>2, <3>1, <4>1, <4>2
        <3>3. CASE i + MaxForwards = n + 1
            <4>1. i \in 1 .. dropped /\ i \in 1 .. n
                BY <1>1, <1>2, <1>3, <3>1, <3>3
            <4>2. now - all[i] >= Window
                BY <1>2, <4>1
            <4> QED BY <1>5, <2>2, <3>1, <3>3, <4>1, <4>2
        <3> QED BY <1>1, <3>1, <3>2, <3>3
    <2> QED BY <2>1, <2>2
<1> QED BY <1>7, <1>8, <1>9 DEF RateInv

\* What was old enough to drop stays so.
LEMMA OlderIsDropped ==
    ASSUME NEW kept \in Seq(Nat), NEW all \in Seq(Nat), NEW time \in Nat, KeepsEnd(kept, all, time)
    PROVE  KeepsEnd(kept, all, time + 1)
<1> DEFINE dropped == Len(all) - Len(kept)
<1>1. Len(kept) \in Nat /\ Len(all) \in Nat /\ Len(kept) <= Len(all) /\ Window \in Nat
    BY LimitsAssumption DEF KeepsEnd
<1>2. ASSUME NEW i \in 1 .. dropped PROVE (time + 1) - all[i] >= Window
    <2>1. i \in 1 .. Len(all)
        BY <1>1
    <2>2. all[i] \in Nat
        BY <2>1
    <2>3. time - all[i] >= Window
        BY DEF KeepsEnd
    <2> QED BY <1>1, <2>2, <2>3
<1> QED BY <1>2 DEF KeepsEnd

\* Every step keeps the rate: only beginForward counts, removePeer and stop
\* forget the history together with the window.
LEMMA NextRate == RateInv /\ [Next]_vars => RateInv'
<1> SUFFICES ASSUME RateInv, [Next]_vars PROVE RateInv'
    OBVIOUS
<1>0. ASSUME UNCHANGED limiter, UNCHANGED now PROVE RateInv'
    BY <1>0 DEF limiter, RateInv, LimiterType, KeepsRecent, KeepsEnd, ForwardRateBounded
<1>1. ASSUME NEW h \in Hashes, NEW p \in Peers, NEW candidates \in SUBSET Peers,
             Request(h, p, candidates)
      PROVE  RateInv'
    <2>1. UNCHANGED now
        BY <1>1 DEF Request
    <2>2. CASE UNCHANGED limiter
        BY <1>0, <2>1, <2>2
    <2>3. CASE PruneEvents(p)
        BY <2>1, <2>3, PruneRate
    <2>4. CASE Decision(h, p, candidates) = "forward" /\ CountForward(p)
        <3>1. allow(p)
            BY <2>4 DEF Decision
        <3> QED BY <2>1, <2>4, <3>1, CountRate
    <2> QED BY <1>1, <2>2, <2>3, <2>4 DEF Request, beginForward, machine, limiter
<1>2. CASE \E h \in Hashes : Answer(h) \/ handleForwardTimeout(h)
    BY <1>0, <1>2 DEF Answer, handleForwardTimeout, resolveForward
<1>3. ASSUME NEW p \in Peers, Disconnect(p) PROVE RateInv'
    <2>1. \A q \in Peers : \/ eventsByPeer'[q] = eventsByPeer[q] /\ forwards'[q] = forwards[q]
                           \/ eventsByPeer'[q] = <<>> /\ forwards'[q] = <<>>
        BY <1>3 DEF Disconnect, removePeer, RateInv, LimiterType
    <2>2. LimiterType'
        BY <1>3, <2>1 DEF Disconnect, removePeer, RateInv, LimiterType
    <2>3. \A q \in Peers : KeepsRecent(q)'
        <3>1. KeepsEnd(<<>>, <<>>, now)
            BY DEF KeepsEnd
        <3> QED BY <1>3, <2>1, <3>1 DEF Disconnect, RateInv, KeepsRecent
    <2>4. ForwardRateBounded'
        BY <2>1 DEF RateInv, ForwardRateBounded
    <2> QED BY <2>2, <2>3, <2>4 DEF RateInv
<1>4. CASE Stop
    BY <1>4 DEF Stop, stopMachine, RateInv, LimiterType, KeepsRecent, KeepsEnd, ForwardRateBounded
<1>5. CASE tick
    <2>1. UNCHANGED limiter /\ now' = now + 1
        BY <1>5 DEF tick, machine, limiter
    <2>2. LimiterType'
        BY <2>1 DEF limiter, RateInv, LimiterType
    <2>3. ForwardRateBounded'
        BY <2>1 DEF limiter, RateInv, ForwardRateBounded
    <2>4. ASSUME NEW p \in Peers PROVE KeepsRecent(p)'
        <3>1. KeepsEnd(eventsByPeer[p], forwards[p], now + 1)
            BY OlderIsDropped DEF RateInv, LimiterType, KeepsRecent
        <3> QED BY <2>1, <3>1 DEF limiter, KeepsRecent
    <2> QED BY <2>2, <2>3, <2>4 DEF RateInv
<1>6. CASE UNCHANGED vars
    BY <1>0, <1>6 DEF vars, limiter
<1> QED BY <1>1, <1>2, <1>3, <1>4, <1>5, <1>6 DEF Next

\* No peer causes more than MaxForwards forwards within a window
\* (SlidingWindowRateLimiter.allow), for every limit and every window: the
\* limiter keeps only part of the history, and that part is enough.
THEOREM ForwardsStayRateBounded == Spec => []ForwardRateBounded
<1>1. RateInv => ForwardRateBounded
    BY DEF RateInv
<1> QED BY <1>1, InitRate, NextRate, PTL DEF Spec
===============================================================================

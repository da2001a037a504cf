---------------------------- MODULE QueryForwarding ----------------------------
(***************************************************************************)
(* The query forwarding machine of the worker's peer-to-peer layer         *)
(* (ts/packages/hashtree-worker/src/p2p/queryForwardingMachine.ts).  A     *)
(* request for a hash that is not held locally is forwarded once; later    *)
(* requesters of the same hash are remembered and suppressed.  Two maps    *)
(* record who waits for what, one per hash and one per requester; every    *)
(* forward has a timer; and a sliding-window limiter bounds the forwards   *)
(* each peer can cause.                                                    *)
(*                                                                         *)
(* A Map entry that holds an empty Set is deleted by the code, so an       *)
(* absent entry of hashesByRequester is the empty set here.                *)
(***************************************************************************)
EXTENDS Naturals, Sequences, FiniteSets

CONSTANTS
    Peers,          \* peer ids
    Hashes,         \* hash keys
    NotInFlight,    \* no entry in inFlightByHash
    MaxForwards,    \* maxForwardsPerPeerWindow
    Window,         \* forwardRateLimitWindowMs
    MaxTime         \* bound: end of the clock

ASSUME LimitsAssumption == MaxForwards \in Nat /\ Window \in Nat /\ MaxTime \in Nat
ASSUME NotInFlightAssumption == \A requesters \in SUBSET Peers : requesters # NotInFlight

VARIABLES
    inFlightByHash,     \* hash -> requesters of the forward in flight
    hashesByRequester,  \* peer -> hashes it waits for
    timeouts,           \* hashes whose handleForwardTimeout is scheduled
    eventsByPeer,       \* SlidingWindowRateLimiter.eventsByPeer
    forwards,           \* every forward a peer caused since it was last removed
    now                 \* config.now()

indexes == <<inFlightByHash, hashesByRequester, timeouts>>
limiter == <<eventsByPeer, forwards>>
machine == <<inFlightByHash, hashesByRequester, timeouts, eventsByPeer, forwards>>
vars == <<inFlightByHash, hashesByRequester, timeouts, eventsByPeer, forwards, now>>

MachineInit ==
    /\ inFlightByHash = [h \in Hashes |-> NotInFlight]
    /\ hashesByRequester = [p \in Peers |-> {}]
    /\ timeouts = {}
    /\ eventsByPeer = [p \in Peers |-> <<>>]
    /\ forwards = [p \in Peers |-> <<>>]

isInFlight(h) == inFlightByHash[h] # NotInFlight

-----------------------------------------------------------------------------
\* SlidingWindowRateLimiter: the first event of p that is still in the window,
\* and the events from there on; the ones before it are spliced off.
firstActiveIndex(p) ==
    LET events == eventsByPeer[p]
        recent == {i \in 1 .. Len(events) : now - events[i] < Window}
    IN IF recent = {} THEN Len(events) + 1 ELSE CHOOSE i \in recent : \A j \in recent : i <= j
Active(p) == SubSeq(eventsByPeer[p], firstActiveIndex(p), Len(eventsByPeer[p]))

\* Mutant: one event too many.
allow_OneMore(p) == Len(Active(p)) <= MaxForwards
allow(p) == Len(Active(p)) < MaxForwards

\* allow() counts the event when it answers true, and keeps the pruned list
\* either way.
CountForward(p) ==
    /\ eventsByPeer' = [eventsByPeer EXCEPT ![p] = Append(Active(p), now)]
    /\ forwards' = [forwards EXCEPT ![p] = Append(@, now)]
PruneEvents(p) ==
    /\ eventsByPeer' = [eventsByPeer EXCEPT ![p] = Active(p)]
    /\ UNCHANGED forwards

-----------------------------------------------------------------------------
\* Mutant: the requester is entered where the hash belongs.
trackRequester_Swapped(h, p, requesters) ==
    /\ inFlightByHash' = [inFlightByHash EXCEPT ![h] = requesters \cup {p}]
    /\ hashesByRequester' = [hashesByRequester EXCEPT ![p] = @ \cup {p}]

\* trackRequester, with the requesters set that goes into inFlightByHash.
trackRequester(h, p, requesters) ==
    /\ inFlightByHash' = [inFlightByHash EXCEPT ![h] = requesters \cup {p}]
    /\ hashesByRequester' = [hashesByRequester EXCEPT ![p] = @ \cup {h}]

\* Mutants: the hash leaves only one of the maps; its timer is left running.
clearForward_OneMap(h) ==
    /\ inFlightByHash' = [inFlightByHash EXCEPT ![h] = NotInFlight]
    /\ timeouts' = timeouts \ {h}
    /\ UNCHANGED hashesByRequester
clearForward_KeepsTimer(h) ==
    /\ inFlightByHash' = [inFlightByHash EXCEPT ![h] = NotInFlight]
    /\ hashesByRequester' = [p \in Peers |-> hashesByRequester[p] \ {h}]
    /\ UNCHANGED timeouts

\* clearForward: the hash leaves both maps and its timer is cleared.
clearForward(h) ==
    /\ inFlightByHash' = [inFlightByHash EXCEPT ![h] = NotInFlight]
    /\ hashesByRequester' =
        [p \in Peers |-> IF isInFlight(h) /\ p \in inFlightByHash[h]
                         THEN hashesByRequester[p] \ {h} ELSE hashesByRequester[p]]
    /\ timeouts' = timeouts \ {h}

\* ForwardDecision
Decision(h, p, candidates) ==
    CASE candidates \ {p} = {} -> "no_targets"
      [] candidates \ {p} # {} /\ isInFlight(h) -> "suppressed"
      [] candidates \ {p} # {} /\ ~isInFlight(h) /\ ~allow(p) -> "rate_limited"
      [] OTHER -> "forward"

\* Mutant: no timer is scheduled.
scheduleTimeout_Never(h) == UNCHANGED timeouts
scheduleTimeout(h) == timeouts' = timeouts \cup {h}

beginForward(h, p, candidates) ==
    LET decision == Decision(h, p, candidates) IN
    \/ decision = "no_targets" /\ UNCHANGED machine
    \/ /\ decision = "suppressed"
       /\ trackRequester(h, p, inFlightByHash[h])
       /\ UNCHANGED <<timeouts, limiter>>
    \/ decision = "rate_limited" /\ PruneEvents(p) /\ UNCHANGED indexes
    \/ /\ decision = "forward"
       /\ CountForward(p)
       /\ trackRequester(h, p, {})
       /\ scheduleTimeout(h)

\* resolveForward, cancelForward and handleForwardTimeout all clear the hash;
\* they differ in what the caller does with the requesters.
resolveForward(h) == clearForward(h) /\ UNCHANGED limiter

\* Mutant: a forward nobody waits for is kept.
removePeer_KeepsEmpty(p) ==
    /\ inFlightByHash' =
        [h \in Hashes |-> IF h \in hashesByRequester[p] /\ isInFlight(h)
                          THEN inFlightByHash[h] \ {p} ELSE inFlightByHash[h]]
    /\ hashesByRequester' = [hashesByRequester EXCEPT ![p] = {}]
    /\ eventsByPeer' = [eventsByPeer EXCEPT ![p] = <<>>]
    /\ forwards' = [forwards EXCEPT ![p] = <<>>]
    /\ UNCHANGED timeouts

\* The forwards nobody waits for once p is gone.
Abandoned(p) == {h \in hashesByRequester[p] : isInFlight(h) /\ inFlightByHash[h] \ {p} = {}}

\* removePeer: p leaves every set it is in, and a forward nobody waits for any
\* more is cleared, its timer too.
removePeer(p) ==
    /\ inFlightByHash' =
        [h \in Hashes |->
            IF h \in hashesByRequester[p] /\ isInFlight(h)
            THEN IF h \in Abandoned(p) THEN NotInFlight ELSE inFlightByHash[h] \ {p}
            ELSE inFlightByHash[h]]
    /\ hashesByRequester' = [hashesByRequester EXCEPT ![p] = {}]
    /\ timeouts' = timeouts \ Abandoned(p)
    /\ eventsByPeer' = [eventsByPeer EXCEPT ![p] = <<>>]
    /\ forwards' = [forwards EXCEPT ![p] = <<>>]

\* stop: every forward is cleared, then both maps and the limiter.
stopMachine ==
    /\ inFlightByHash' = [h \in Hashes |-> NotInFlight]
    /\ hashesByRequester' = [p \in Peers |-> {}]
    /\ timeouts' = {}
    /\ eventsByPeer' = [p \in Peers |-> <<>>]
    /\ forwards' = [p \in Peers |-> <<>>]

-----------------------------------------------------------------------------
\* The machine by itself, driven by any caller.
Init == MachineInit /\ now = 0

tick == now < MaxTime /\ now' = now + 1 /\ UNCHANGED machine

Request(h, p, candidates) == beginForward(h, p, candidates) /\ UNCHANGED now
Answer(h) == isInFlight(h) /\ resolveForward(h) /\ UNCHANGED now
\* The timer fires: it is the one clearForward would clear.
handleForwardTimeout(h) == h \in timeouts /\ resolveForward(h) /\ UNCHANGED now
Disconnect(p) == removePeer(p) /\ UNCHANGED now
Stop == stopMachine /\ UNCHANGED now

Next ==
    \/ \E h \in Hashes, p \in Peers, candidates \in SUBSET Peers : Request(h, p, candidates)
    \/ \E h \in Hashes : Answer(h)
    \/ \E h \in Hashes : handleForwardTimeout(h)
    \/ \E p \in Peers : Disconnect(p)
    \/ Stop
    \/ tick

Spec == Init /\ [][Next]_vars

\* A timer that is scheduled fires unless it is cleared first; a forward without
\* one is not helped.
FairSpec == Spec /\ \A h \in Hashes : WF_vars(handleForwardTimeout(h))

-----------------------------------------------------------------------------
Requesters(h) == IF isInFlight(h) THEN inFlightByHash[h] ELSE {}

TypeOK ==
    /\ inFlightByHash \in [Hashes -> (SUBSET Peers) \cup {NotInFlight}]
    /\ hashesByRequester \in [Peers -> SUBSET Hashes]
    /\ timeouts \in SUBSET Hashes

\* The two maps say the same: a requester is listed under a hash exactly when
\* the hash is listed under the requester.  Were they to drift, removePeer
\* would miss a forward (kept alive for a peer that is gone) or a later answer
\* would miss a requester.
IndexesAgree ==
    \A h \in Hashes, p \in Peers : p \in Requesters(h) <=> h \in hashesByRequester[p]

\* A forward in flight always has somebody waiting for it: whoever leaves last
\* takes the forward along, so a later request is forwarded, not suppressed.
InFlightHasRequester == \A h \in Hashes : isInFlight(h) => inFlightByHash[h] # {}

\* A forward has a timer exactly as long as it is in flight.  One that lost its
\* timer would suppress its hash for ever; a timer left over from a forward that
\* was answered or abandoned would end a later forward of the hash early.
ForwardHasTimer == \A h \in Hashes : isInFlight(h) <=> h \in timeouts

\* A peer never causes more than MaxForwards forwards in any window: of any
\* MaxForwards + 1 consecutive ones, the last comes a window after the first.
ForwardRateBounded ==
    \A p \in Peers : \A i \in 1 .. Len(forwards[p]) :
        i + MaxForwards <= Len(forwards[p])
            => forwards[p][i + MaxForwards] - forwards[p][i] >= Window

\* No hash stays suppressed for ever: through any requests that join it and
\* peers that leave it, a forward is answered, abandoned or ended by its timer.
ForwardEnds == \A h \in Hashes : isInFlight(h) ~> ~isInFlight(h)
=============================================================================

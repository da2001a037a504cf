------------------------- MODULE PeerControllerProofs -------------------------
(***************************************************************************)
(* Proofs about PeerController, for every set of peers, hashes and calls   *)
(* of get() and every bound.  Every step of the controller is a step of    *)
(* the forwarding machine or leaves it alone, so what                      *)
(* QueryForwardingProofs shows of the machine holds of it inside the       *)
(* controller; no entry of pendingRequests is ever without its timeout;    *)
(* whoever waits for a forward is where the timeout looks, and loses the   *)
(* marker the answer looks for in one way only; and get() counts each      *)
(* peer once.                                                              *)
(***************************************************************************)
EXTENDS PeerController, FiniteSetTheorems, TLAPS

\* The part of the type invariant the arguments need: which peers and hashes
\* the entries, the timers and the handlers in progress speak of.
EntryRefs ==
    /\ open \in SUBSET Peers
    /\ pending \in [Peers -> [Hashes -> Owners \cup {None}]]
    /\ timers \in SUBSET TimerType

RequestRefs == requests \in [RequestIds -> RequestType \cup {None}]
ResponseRefs == responses \in [ResponseIds -> ResponseType \cup {None}]

CountType == count \in [request : Nat, response : Nat, close : Nat]

EntryInv == EntryRefs /\ PendingHasTimer
HandlerInv == RequestRefs /\ ResponseRefs /\ CountType
Inv == EntryInv /\ HandlerInv

-----------------------------------------------------------------------------
\* A new entry and its timer come together, whatever they replace.
LEMMA EntryAdded ==
    ASSUME EntryInv, NEW o \in Owners, NEW h \in Hashes, NEW S \in SUBSET Peers,
           forwardRequest(o, h, S)
    PROVE  /\ pending' \in [Peers -> [Hashes -> Owners \cup {None}]]
           /\ timers' \in SUBSET TimerType
           /\ PendingHasTimer'
<1>1. pending' \in [Peers -> [Hashes -> Owners \cup {None}]]
    BY DEF forwardRequest, EntryInv, EntryRefs
<1>2. timers' \in SUBSET TimerType
    <2>1. \A p \in S : Timer(p, h, o) \in TimerType
        BY DEF Timer, TimerType
    <2> QED BY <2>1 DEF forwardRequest, EntryInv, EntryRefs
<1>3. PendingHasTimer'
    <2> SUFFICES ASSUME NEW p \in Peers, NEW g \in Hashes, pending'[p][g] # None
                 PROVE  Timer(p, g, pending'[p][g]) \in timers'
        BY DEF PendingHasTimer, Timer
    <2>1. CASE p \in S /\ g = h
        BY <2>1 DEF forwardRequest, EntryInv, EntryRefs
    <2>2. CASE ~(p \in S /\ g = h)
        BY <2>2 DEF forwardRequest, EntryInv, EntryRefs, PendingHasTimer
    <2> QED BY <2>1, <2>2
<1> QED BY <1>1, <1>2, <1>3

\* Letting go of the objects of S takes their entries; the entries of the other
\* peers keep their timers as long as those are among the ones kept.
LEMMA EntriesOrphaned ==
    ASSUME EntryInv, NEW S \in SUBSET Peers, NEW live \in SUBSET timers,
           \A t \in timers \ live : t.peer \in S,
           Orphan(S, live)
    PROVE  EntryInv'
<1> DEFINE kept == {u \in live : u.peer \in S => u.owner \in Gets}
           moved(t) == [t EXCEPT !.orphan = @ \/ t.peer \in S]
<1>1. open' \in SUBSET Peers /\ pending' \in [Peers -> [Hashes -> Owners \cup {None}]]
    BY DEF Orphan, EntryInv, EntryRefs
<1>2. timers' = {moved(t) : t \in kept}
    BY DEF Orphan
<1>3. timers' \in SUBSET TimerType
    <2>1. \A t \in TimerType : moved(t) \in TimerType
        BY DEF TimerType
    <2>2. kept \subseteq TimerType
        BY DEF EntryInv, EntryRefs
    <2> QED BY <1>2, <2>1, <2>2
<1>4. PendingHasTimer'
    <2> SUFFICES ASSUME NEW p \in Peers, NEW h \in Hashes, pending'[p][h] # None
                 PROVE  Timer(p, h, pending'[p][h]) \in timers'
        BY DEF PendingHasTimer, Timer
    <2>1. p \notin S /\ pending'[p][h] = pending[p][h]
        BY DEF Orphan, EntryInv, EntryRefs
    <2> DEFINE t == Timer(p, h, pending[p][h])
    <2>2. t \in timers /\ t.peer = p
        BY <2>1 DEF EntryInv, PendingHasTimer, Timer
    <2>3. t \in kept
        BY <2>1, <2>2
    <2>4. moved(t) = t
        <3>1. \A u \in TimerType : u.orphan = FALSE /\ u.peer \notin S => moved(u) = u
            BY DEF TimerType
        <3>2. t \in TimerType /\ t.orphan = FALSE /\ t.peer \notin S
            BY <2>1, <2>2 DEF Timer, EntryInv, EntryRefs
        <3> HIDE DEF moved, t
        <3> QED BY <3>1, <3>2
    <2>5. t \in timers'
        BY <1>2, <2>3, <2>4
    <2> QED BY <2>1, <2>5
<1> QED BY <1>1, <1>3, <1>4 DEF EntryInv, EntryRefs

\* closePeer clears the timers of the entries it drops, and of those only.
LEMMA EntriesClosed ==
    ASSUME EntryInv, NEW S \in SUBSET Peers, Close(S)
    PROVE  EntryInv'
<1> DEFINE current == {Timer(p, h, pending[p][h]) : p \in S, h \in Hashes}
<1>1. Orphan(S, timers \ current)
    BY DEF Close
<1>2. \A t \in timers \ (timers \ current) : t.peer \in S
    BY DEF Timer
<1> QED BY <1>1, <1>2, EntriesOrphaned

\* The entry of an answer goes together with its timer.
LEMMA EntryAnswered ==
    ASSUME EntryInv, NEW p \in Peers, NEW h \in Hashes, open' = open,
           pending' = [pending EXCEPT ![p][h] = None],
           timers' = timers \ {Timer(p, h, pending[p][h])}
    PROVE  EntryInv'
<1>1. EntryRefs'
    BY DEF EntryInv, EntryRefs
<1>2. PendingHasTimer'
    <2> SUFFICES ASSUME NEW q \in Peers, NEW g \in Hashes, pending'[q][g] # None
                 PROVE  Timer(q, g, pending'[q][g]) \in timers'
        BY DEF PendingHasTimer, Timer
    <2>1. ~(q = p /\ g = h) /\ pending'[q][g] = pending[q][g]
        BY DEF EntryInv, EntryRefs
    <2>2. Timer(q, g, pending[q][g]) # Timer(p, h, pending[p][h])
        BY <2>1 DEF Timer
    <2>3. Timer(q, g, pending[q][g]) \in timers
        BY <2>1 DEF EntryInv, PendingHasTimer
    <2> QED BY <2>1, <2>2, <2>3
<1> QED BY <1>1, <1>2 DEF EntryInv

\* A timer that fires leaves its hash without an entry; an orphaned one belongs
\* to no entry.
LEMMA EntryTimedOut ==
    ASSUME EntryInv, NEW t \in timers, entryTimeout(t)
    PROVE  EntryInv'
<1>1. t \in TimerType
    BY DEF EntryInv, EntryRefs
<1>2. EntryRefs'
    BY <1>1 DEF entryTimeout, EntryInv, EntryRefs, TimerType
<1>3. PendingHasTimer'
    <2> SUFFICES ASSUME NEW q \in Peers, NEW g \in Hashes, pending'[q][g] # None
                 PROVE  Timer(q, g, pending'[q][g]) \in timers'
        BY DEF PendingHasTimer, Timer
    <2>1. pending'[q][g] = pending[q][g] /\ (t.orphan \/ ~(q = t.peer /\ g = t.hash))
        BY <1>1 DEF entryTimeout, EntryInv, EntryRefs, TimerType
    <2>2. Timer(q, g, pending[q][g]) # t
        BY <2>1 DEF Timer
    <2>3. Timer(q, g, pending[q][g]) \in timers
        BY <2>1 DEF EntryInv, PendingHasTimer
    <2> QED BY <2>1, <2>2, <2>3 DEF entryTimeout
<1> QED BY <1>2, <1>3 DEF EntryInv

\* A step that touches neither entries, timers nor connections.
LEMMA EntriesUnchanged ==
    ASSUME EntryInv, UNCHANGED <<open, pending, timers>>
    PROVE  EntryInv'
BY DEF EntryInv, EntryRefs, PendingHasTimer, Timer

-----------------------------------------------------------------------------
(* The handlers in progress keep speaking of peers and hashes.             *)

\* The handlers whose object is gone are marked, and otherwise kept.
LEMMA HandlersOrphaned ==
    ASSUME HandlerInv, NEW S, NEW live, Orphan(S, live), UNCHANGED responses, CountType'
    PROVE  HandlerInv'
<1>1. \A r \in RequestType : [r EXCEPT !.orphan = TRUE] \in RequestType
    BY DEF RequestType
<1>2. RequestRefs'
    BY <1>1 DEF HandlerInv, RequestRefs, Orphan
<1> QED BY <1>2 DEF HandlerInv, ResponseRefs

\* A step that starts and ends no handler.
LEMMA HandlersUnchanged ==
    ASSUME HandlerInv, UNCHANGED <<requests, responses, count>>
    PROVE  HandlerInv'
BY DEF HandlerInv, RequestRefs, ResponseRefs, CountType

\* handleRequest starts a handler for the request that came in.
LEMMA RequestReceived ==
    ASSUME Inv, NEW p \in Peers, NEW h \in Hashes, NEW f \in BOOLEAN, handleRequest(p, h, f)
    PROVE  HandlerInv'
<1>1. [peer |-> p, hash |-> h, forwardable |-> f, found |-> h \in store, orphan |-> FALSE]
            \in RequestType
    BY DEF RequestType
<1>2. CountType'
    BY DEF handleRequest, Inv, HandlerInv, CountType
<1>3. RequestRefs'
    BY <1>1 DEF handleRequest, Inv, HandlerInv, RequestRefs
<1> QED BY <1>2, <1>3 DEF HandlerInv, ResponseRefs, Inv, handleRequest

\* handleResponse starts a handler for the answer that came in.
LEMMA ResponseReceived ==
    ASSUME Inv, NEW p \in Peers, NEW h \in Hashes, NEW o \in Owners \cup {Late},
           NEW push \in BOOLEAN, NEW valid \in BOOLEAN, Receive(p, h, o, push, valid)
    PROVE  HandlerInv'
<1> DEFINE r == [peer |-> p, hash |-> h, owner |-> o, push |-> push, valid |-> valid,
                 requested |-> o = Late /\ h \in recent,
                 asked |-> {g \in Gets : Timer(p, h, g) \in timers}]
<1>1. r \in ResponseType
    BY DEF ResponseType
<1>2. CountType'
    BY DEF Receive, Inv, HandlerInv, CountType
<1>3. ResponseRefs'
    <2>1. responses' = [responses EXCEPT ![count.response + 1] = r]
        BY DEF Receive
    <2> HIDE DEF r
    <2> QED BY <1>1, <2>1 DEF Inv, HandlerInv, ResponseRefs
<1> QED BY <1>2, <1>3 DEF HandlerInv, RequestRefs, Inv, Receive

\* closePeer marks the handlers of the peers it closes.
LEMMA HandlersClosed ==
    ASSUME HandlerInv, NEW S, Close(S), UNCHANGED responses
    PROVE  HandlerInv'
<1> DEFINE live == timers \ {Timer(p, h, pending[p][h]) : p \in S, h \in Hashes}
<1>1. CountType'
    BY DEF Close, HandlerInv, CountType
<1>2. Orphan(S, live)
    BY DEF Close
<1> HIDE DEF live
<1> QED BY <1>1, <1>2, HandlersOrphaned

-----------------------------------------------------------------------------
\* Nothing is pending and nobody is connected at the start.
LEMMA InitInv == Init => Inv
BY DEF Init, Inv, EntryInv, EntryRefs, PendingHasTimer, HandlerInv, RequestRefs,
       ResponseRefs, CountType

\* Every step of the controller keeps the invariant.
LEMMA NextInv == Inv /\ [Next]_vars => Inv'
<1> SUFFICES ASSUME Inv, [Next]_vars PROVE Inv'
    OBVIOUS
<1> USE DEF Inv
<1>1. ASSUME NEW p \in Peers, connect(p) PROVE Inv'
    <2>1. EntryInv'
        BY <1>1 DEF connect, EntryInv, EntryRefs, PendingHasTimer, Timer
    <2> QED BY <1>1, <2>1, HandlersUnchanged DEF connect
<1>2. ASSUME NEW p \in Peers, closePeer(p) PROVE Inv'
    <2>1. EntryInv'
        BY <1>2, EntriesClosed DEF closePeer
    <2>2. HandlerInv'
        BY <1>2, HandlersClosed DEF closePeer
    <2> QED BY <2>1, <2>2
<1>3. ASSUME stop PROVE Inv'
    <2>1. open \in SUBSET Peers
        BY DEF EntryInv, EntryRefs
    <2>2. EntryInv'
        BY <1>3, <2>1, EntriesClosed DEF stop
    <2>3. HandlerInv'
        BY <1>3, HandlersClosed DEF stop
    <2> QED BY <2>2, <2>3
<1>4. ASSUME NEW p \in Peers, onPeerClosed(p) PROVE Inv'
    <2>1. CASE p \in open
        <3>1. Orphan({p}, timers)
            BY <1>4, <2>1 DEF onPeerClosed
        <3>2. EntryInv'
            BY <3>1, EntriesOrphaned
        <3>3. CountType'
            BY <1>4 DEF onPeerClosed, HandlerInv, CountType
        <3>4. HandlerInv'
            BY <1>4, <3>1, <3>3, HandlersOrphaned DEF onPeerClosed
        <3> QED BY <3>2, <3>4
    <2>2. CASE p \notin open
        BY <1>4, <2>2, EntriesUnchanged, HandlersUnchanged DEF onPeerClosed
    <2> QED BY <2>1, <2>2
<1>5. ASSUME NEW p \in Peers, NEW h \in Hashes, NEW f \in BOOLEAN, handleRequest(p, h, f)
      PROVE  Inv'
    BY <1>5, EntriesUnchanged, RequestReceived DEF handleRequest
<1>6. ASSUME NEW n \in RequestIds, processRequest(n) PROVE Inv'
    <2> DEFINE r == requests[n]
    <2>1. r.hash \in Hashes /\ r.peer \in Peers
        BY <1>6 DEF processRequest, getForwardTargets, HandlerInv, RequestRefs, RequestType
    <2>2. EntryInv'
        <3>1. CASE UNCHANGED <<pending, timers>>
            BY <1>6, <3>1, EntriesUnchanged DEF processRequest, getForwardTargets
        <3>2. CASE forwardRequest(n, r.hash, open \ {r.peer})
            <4>1. n \in Owners /\ open \ {r.peer} \in SUBSET Peers /\ open' = open
                BY <1>6 DEF Owners, EntryInv, EntryRefs, processRequest, getForwardTargets
            <4> QED BY <2>1, <3>2, <4>1, EntryAdded DEF EntryInv, EntryRefs
        <3> QED BY <1>6, <3>1, <3>2 DEF processRequest, getForwardTargets
    <2>3. HandlerInv'
        BY <1>6 DEF processRequest, getForwardTargets, HandlerInv, RequestRefs, ResponseRefs, CountType
    <2> QED BY <2>2, <2>3
<1>7. ASSUME NEW h \in Hashes, forwardTimeout(h) PROVE Inv'
    BY <1>7, EntriesUnchanged, HandlersUnchanged DEF forwardTimeout
<1>8. ASSUME NEW p \in Peers, NEW h \in Hashes, NEW valid \in BOOLEAN,
             handleResponse(p, h, valid)
      PROVE  Inv'
    <2>1. pending[p][h] \in Owners
        BY <1>8 DEF handleResponse, EntryInv, EntryRefs
    <2>2. HandlerInv'
        BY <1>8, <2>1, ResponseReceived DEF handleResponse
    <2>3. EntryInv'
        BY <1>8, EntryAnswered DEF handleResponse, Receive
    <2> QED BY <2>2, <2>3
<1>9. ASSUME NEW p \in Peers, NEW h \in Hashes, handleLateResponse(p, h) PROVE Inv'
    <2>1. hasRequesters(h) \in BOOLEAN
        BY DEF hasRequesters
    <2>2. HandlerInv'
        BY <1>9, <2>1, ResponseReceived DEF handleLateResponse
    <2>3. EntryInv'
        BY <1>9, EntriesUnchanged DEF handleLateResponse, Receive
    <2> QED BY <2>2, <2>3
<1>10. ASSUME NEW p \in Peers, NEW h \in Hashes, forgetRequest(p, h) PROVE Inv'
    BY <1>10, EntriesUnchanged, HandlersUnchanged DEF forgetRequest
<1>11. ASSUME NEW n \in ResponseIds, finishResponse(n) PROVE Inv'
    <2>1. EntryInv'
        BY <1>11, EntriesUnchanged DEF finishResponse
    <2>2. HandlerInv'
        BY <1>11 DEF finishResponse, HandlerInv, RequestRefs, ResponseRefs, CountType
    <2> QED BY <2>1, <2>2
<1>12. ASSUME NEW g \in Gets, NEW h \in Hashes, get(g, h) PROVE Inv'
    <2>1. g \in Owners /\ open \in SUBSET Peers
        BY DEF Owners, EntryInv, EntryRefs
    <2>2. EntryInv'
        BY <1>12, <2>1, EntryAdded DEF get, EntryInv, EntryRefs
    <2> QED BY <1>12, <2>2, HandlersUnchanged DEF get
<1>13. ASSUME NEW t \in timers, entryTimeout(t) PROVE Inv'
    <2>1. EntryInv'
        BY <1>13, EntryTimedOut
    <2> QED BY <1>13, <2>1, HandlersUnchanged DEF entryTimeout
<1>14. CASE UNCHANGED vars
    BY <1>14, EntriesUnchanged, HandlersUnchanged DEF vars
<1> QED BY <1>1, <1>2, <1>3, <1>4, <1>5, <1>6, <1>7, <1>8, <1>9, <1>10, <1>11, <1>12,
          <1>13, <1>14 DEF Next

\* No entry of pendingRequests is ever without its timeout, however entries are
\* replaced, answered, orphaned or deleted by the timers of others: none is
\* left behind for good, for any peers, hashes and number of messages.
THEOREM PendingAlwaysTimesOut == Spec => []PendingHasTimer
<1>1. Inv => PendingHasTimer
    BY DEF Inv, EntryInv
<1> QED BY <1>1, InitInv, NextInv, PTL DEF Spec

\* Every step of the controller is a step of the forwarding machine or leaves
\* the machine alone.
LEMMA StepForwards == Inv /\ [Next]_vars => [Fwd!Next]_(Fwd!vars)
<1> SUFFICES ASSUME Inv, Next PROVE Fwd!Next \/ UNCHANGED Fwd!vars
    BY DEF vars, Fwd!vars
<1>1. CASE UNCHANGED machine
    BY <1>1 DEF machine, Fwd!vars
<1>2. ASSUME NEW p \in Peers, closePeer(p) PROVE Fwd!Next
    BY <1>2 DEF closePeer, Fwd!Next
<1>3. CASE stop
    BY <1>3 DEF stop, Fwd!Next
<1>4. ASSUME NEW n \in RequestIds, processRequest(n) PROVE Fwd!Next \/ UNCHANGED machine
    <2>1. requests[n].hash \in Hashes /\ requests[n].peer \in Peers
        BY <1>4 DEF processRequest, getForwardTargets, Inv, HandlerInv, RequestRefs, RequestType
    <2>2. open \ {requests[n].peer} \in SUBSET Peers
        BY DEF Inv, EntryInv, EntryRefs
    <2>3. \/ UNCHANGED machine
          \/ Fwd!Request(requests[n].hash, requests[n].peer, open \ {requests[n].peer})
        BY <1>4 DEF processRequest, getForwardTargets
    <2> QED BY <2>1, <2>2, <2>3 DEF Fwd!Next
<1>5. ASSUME NEW h \in Hashes, forwardTimeout(h) PROVE Fwd!Next
    BY <1>5 DEF forwardTimeout, Fwd!Next
<1>6. ASSUME NEW n \in ResponseIds, finishResponse(n) PROVE Fwd!Next \/ UNCHANGED machine
    <2>1. responses[n].hash \in Hashes
        BY <1>6 DEF finishResponse, Inv, HandlerInv, ResponseRefs, ResponseType
    <2>2. UNCHANGED machine \/ Fwd!Answer(responses[n].hash)
        BY <1>6 DEF finishResponse, PushToRequesters
    <2> QED BY <2>1, <2>2 DEF Fwd!Next
<1> QED BY <1>1, <1>2, <1>3, <1>4, <1>5, <1>6
       DEF Next, connect, onPeerClosed, handleRequest, handleResponse, handleLateResponse,
           Receive, forgetRequest, get, entryTimeout

Machine == INSTANCE QueryForwardingProofs WITH Window <- 1, MaxTime <- 0

\* The machine the controller uses is the one QueryForwardingProofs is about.
LEMMA SameMachine ==
    /\ Fwd!Init <=> Machine!Init
    /\ Fwd!vars = Machine!vars
    /\ Fwd!Next <=> Machine!Next
    /\ Fwd!IndexesAgree <=> Machine!IndexesAgree
<1>1. Fwd!Init <=> Machine!Init
    BY DEF Fwd!Init, Machine!Init, Fwd!MachineInit, Machine!MachineInit
<1>2. Fwd!vars = Machine!vars
    BY DEF Fwd!vars, Machine!vars
<1>3. Fwd!IndexesAgree <=> Machine!IndexesAgree
    BY DEF Fwd!IndexesAgree, Machine!IndexesAgree, Fwd!Requesters,
           Machine!Requesters, Fwd!isInFlight, Machine!isInFlight
<1>4. ASSUME NEW h, NEW p, NEW c PROVE Fwd!Request(h, p, c) <=> Machine!Request(h, p, c)
    <2>1. Fwd!firstActiveIndex(p) = Machine!firstActiveIndex(p)
        BY Zenon DEF Fwd!firstActiveIndex, Machine!firstActiveIndex
    <2> QED BY <2>1, Zenon
       DEF Fwd!Request, Machine!Request, Fwd!beginForward, Machine!beginForward,
           Fwd!Decision, Machine!Decision, Fwd!isInFlight, Machine!isInFlight,
           Fwd!allow, Machine!allow, Fwd!Active, Machine!Active, Fwd!CountForward,
           Machine!CountForward, Fwd!PruneEvents, Machine!PruneEvents,
           Fwd!trackRequester, Machine!trackRequester, Fwd!scheduleTimeout,
           Machine!scheduleTimeout, Fwd!limiter, Machine!limiter,
           Fwd!indexes, Machine!indexes, Fwd!machine, Machine!machine
<1>5. ASSUME NEW h
      PROVE  /\ Fwd!Answer(h) <=> Machine!Answer(h)
             /\ Fwd!handleForwardTimeout(h) <=> Machine!handleForwardTimeout(h)
    BY Zenon
       DEF Fwd!Answer, Machine!Answer, Fwd!handleForwardTimeout,
           Machine!handleForwardTimeout, Fwd!resolveForward, Machine!resolveForward,
           Fwd!clearForward, Machine!clearForward, Fwd!isInFlight,
           Machine!isInFlight, Fwd!limiter, Machine!limiter
<1>6. ASSUME NEW p PROVE Fwd!Disconnect(p) <=> Machine!Disconnect(p)
    BY Zenon
       DEF Fwd!Disconnect, Machine!Disconnect, Fwd!removePeer, Machine!removePeer,
           Fwd!Abandoned, Machine!Abandoned,
           Fwd!isInFlight, Machine!isInFlight
<1>7. (Fwd!Stop <=> Machine!Stop) /\ (Fwd!tick <=> Machine!tick)
    BY Zenon
       DEF Fwd!Stop, Machine!Stop, Fwd!stopMachine, Machine!stopMachine, Fwd!tick,
           Machine!tick, Fwd!machine, Machine!machine
<1>8. Fwd!Next <=> Machine!Next
    BY <1>4, <1>5, <1>6, <1>7 DEF Fwd!Next, Machine!Next
<1> QED BY <1>1, <1>2, <1>3, <1>8

\* What the forwarding machine's maps hold.
MachineType == Fwd!TypeOK /\ Fwd!IndexesAgree /\ Fwd!ForwardHasTimer

\* What the machine's proofs say of its maps, in the controller's terms.
LEMMA MachineKnown ==
    /\ Init => Machine!IndexInv
    /\ Inv /\ Machine!IndexInv /\ [Next]_vars => Machine!IndexInv'
    /\ Machine!IndexInv => MachineType
<1>1. Machine!Init => Machine!IndexInv
    BY Machine!InitIndexes, NotInFlightAssumption, CountsAssumption
<1>2. Machine!IndexInv /\ [Machine!Next]_(Machine!vars) => Machine!IndexInv'
    BY Machine!NextIndexes, NotInFlightAssumption, CountsAssumption
<1>3. Init => Machine!IndexInv
    BY <1>1, SameMachine DEF Init
<1>4. Inv /\ Machine!IndexInv /\ [Next]_vars => Machine!IndexInv'
    BY <1>2, SameMachine, StepForwards DEF Fwd!vars, Machine!vars
<1>5. Machine!IndexInv => MachineType
    BY SameMachine DEF Machine!IndexInv, MachineType, Fwd!TypeOK, Machine!TypeOK,
       Fwd!ForwardHasTimer, Machine!ForwardHasTimer, Fwd!isInFlight, Machine!isInFlight
<1> QED BY <1>3, <1>4, <1>5

\* What is proved of the machine by itself holds of it inside the controller:
\* its two maps agree whatever the controller's handlers, timers and
\* connections do.
THEOREM ControllerKeepsIndexes == Spec => []Fwd!IndexesAgree
<1>1. MachineType => Fwd!IndexesAgree
    BY DEF MachineType
<1> QED BY <1>1, InitInv, NextInv, MachineKnown, PTL DEF Spec

-----------------------------------------------------------------------------
(* A requester that waits is one the answer and the timeout will find.     *)

WaitTypes ==
    /\ closing \in SUBSET Peers /\ store \in SUBSET Hashes /\ recent \in SUBSET Hashes
    /\ their \in [Peers -> SUBSET Hashes]
    /\ waits \in SUBSET (Peers \X Hashes) /\ unmarked \in SUBSET waits

\* Whoever waits, or whose request is still to be looked at, is connected.
WaitersOpen ==
    /\ \A w \in waits : w[1] \in open
    /\ \A n \in RequestIds :
            requests[n] # None /\ ~requests[n].orphan => requests[n].peer \in open

\* What WaitIsTracked says of one waiting requester.
Tracked(w) ==
    /\ w[1] \in Fwd!Requesters(w[2])
    /\ w[2] \in their[w[1]] \/ w \in unmarked

WaitInv == WaitTypes /\ WaitersOpen /\ WaitIsTracked

\* A step that changes neither markers nor waiting requesters keeps them
\* tracked as long as it takes nobody out of the forwarding machine.
LEMMA StillTracked ==
    ASSUME WaitIsTracked, WaitTypes, UNCHANGED <<their, waitVars>>,
           \A h \in Hashes : Fwd!Requesters(h) \subseteq Fwd!Requesters(h)'
    PROVE  WaitIsTracked'
<1> SUFFICES ASSUME NEW w \in waits'
             PROVE  Tracked(w)'
    BY DEF WaitIsTracked, Tracked
<1>1. w \in waits /\ w[2] \in Hashes
    BY DEF WaitTypes, waitVars
<1> QED BY <1>1 DEF WaitIsTracked, Tracked, waitVars

\* The machine untouched keeps its requesters.
LEMMA SameRequesters ==
    ASSUME UNCHANGED machine, NEW h
    PROVE  Fwd!Requesters(h)' = Fwd!Requesters(h)
BY DEF machine, Fwd!Requesters, Fwd!isInFlight

\* Letting go of the objects of S forgets that they waited; the others are
\* where they were.
LEMMA OthersTracked ==
    ASSUME Inv, WaitInv, NEW S \in SUBSET Peers, NEW live, Orphan(S, live),
           \A h \in Hashes : \A p \in Fwd!Requesters(h) : p \notin S => p \in Fwd!Requesters(h)',
           UNCHANGED <<store, recent>>, closing' \in SUBSET Peers
    PROVE  WaitInv'
<1>1. WaitTypes'
    BY DEF WaitInv, WaitTypes, Orphan
<1>2. \A w \in waits' : w[1] \in open'
    BY DEF WaitInv, WaitTypes, WaitersOpen, Orphan
<1>3. ASSUME NEW n \in RequestIds, requests'[n] # None, ~requests'[n].orphan
      PROVE  requests'[n].peer \in open'
    <2>1. CASE requests[n] # None /\ requests[n].peer \in S
        <3>1. requests[n] \in RequestType
            BY <2>1 DEF Inv, HandlerInv, RequestRefs
        <3>2. requests'[n] = [requests[n] EXCEPT !.orphan = TRUE]
            BY <2>1 DEF Orphan
        <3>3. \A r \in RequestType : [r EXCEPT !.orphan = TRUE].orphan = TRUE
            BY DEF RequestType
        <3> QED BY <1>3, <3>1, <3>2, <3>3
    <2>2. CASE ~(requests[n] # None /\ requests[n].peer \in S)
        <3>1. requests'[n] = requests[n]
            BY <2>2 DEF Orphan
        <3> QED BY <1>3, <2>2, <3>1 DEF WaitInv, WaitersOpen, Orphan
    <2> QED BY <2>1, <2>2
<1>4. WaitersOpen'
    BY <1>2, <1>3 DEF WaitersOpen
<1>5. WaitIsTracked'
    <2> SUFFICES ASSUME NEW w \in waits'
                 PROVE  Tracked(w)'
        BY DEF WaitIsTracked, Tracked
    <2>1. w \in waits /\ w[1] \in Peers /\ w[2] \in Hashes /\ w[1] \notin S
        BY DEF Orphan, WaitInv, WaitTypes
    <2>2. Tracked(w)
        BY <2>1 DEF WaitInv, WaitIsTracked, Tracked
    <2>3. their'[w[1]] = their[w[1]] /\ (w \in unmarked => w \in unmarked')
        BY <2>1 DEF Orphan
    <2> QED BY <2>1, <2>2, <2>3 DEF Tracked
<1> QED BY <1>1, <1>4, <1>5 DEF WaitInv

\* A disconnected peer is the only one the machine lets go.
LEMMA DisconnectKeepsOthers ==
    ASSUME MachineType, NEW p \in Peers, Fwd!Disconnect(p), NEW h \in Hashes,
           NEW q \in Fwd!Requesters(h), q # p
    PROVE  q \in Fwd!Requesters(h)'
<1>1. Fwd!isInFlight(h) /\ q \in inFlightByHash[h]
    BY DEF Fwd!Requesters
<1>2. inFlightByHash'[h] = inFlightByHash[h] \/ inFlightByHash'[h] = inFlightByHash[h] \ {p}
    <2>1. h \in Fwd!Abandoned(p) => inFlightByHash[h] \ {p} = {}
        BY DEF Fwd!Abandoned
    <2>2. h \notin Fwd!Abandoned(p)
        BY <1>1, <2>1
    <2> QED BY <2>2 DEF Fwd!Disconnect, Fwd!removePeer
<1>3. q \in inFlightByHash'[h]
    BY <1>1, <1>2
<1>4. inFlightByHash[h] \in SUBSET Peers
    BY <1>1 DEF MachineType, Fwd!TypeOK, Fwd!isInFlight
<1>5. inFlightByHash'[h] # NotInFlight
    BY <1>2, <1>4, NotInFlightAssumption
<1> QED BY <1>3, <1>5 DEF Fwd!Requesters, Fwd!isInFlight

\* Clearing a hash leaves the requesters of the others alone.
LEMMA ClearKeepsOthers ==
    ASSUME MachineType, NEW h \in Hashes, Fwd!clearForward(h), NEW k \in Hashes, k # h
    PROVE  Fwd!Requesters(k)' = Fwd!Requesters(k)
BY DEF MachineType, Fwd!TypeOK, Fwd!clearForward, Fwd!Requesters, Fwd!isInFlight

\* A request takes nobody out of the machine, and enters the requester when it
\* is forwarded or suppressed.
LEMMA RequestTracks ==
    ASSUME MachineType, NEW h \in Hashes, NEW p \in Peers, NEW C \in SUBSET Peers,
           Fwd!Request(h, p, C)
    PROVE  /\ \A k \in Hashes : Fwd!Requesters(k) \subseteq Fwd!Requesters(k)'
           /\ Fwd!Decision(h, p, C) \in {"forward", "suppressed"} => p \in Fwd!Requesters(h)'
<1> DEFINE decision == Fwd!Decision(h, p, C)
<1>1. \/ decision = "no_targets" /\ UNCHANGED <<inFlightByHash, hashesByRequester>>
      \/ decision = "suppressed" /\ Fwd!trackRequester(h, p, inFlightByHash[h])
      \/ decision = "rate_limited" /\ UNCHANGED <<inFlightByHash, hashesByRequester>>
      \/ decision = "forward" /\ Fwd!trackRequester(h, p, {})
    BY DEF Fwd!Request, Fwd!beginForward, Fwd!machine, Fwd!indexes
<1>2. decision = "suppressed" => Fwd!isInFlight(h)
    BY DEF Fwd!Decision
<1>3. decision = "forward" => ~Fwd!isInFlight(h)
    BY DEF Fwd!Decision
<1> HIDE DEF decision
<1>4. CASE decision \in {"no_targets", "rate_limited"}
    BY <1>1, <1>4 DEF Fwd!Requesters, Fwd!isInFlight, decision
<1>5. ASSUME NEW R \in SUBSET Peers, R = Fwd!Requesters(h), Fwd!trackRequester(h, p, R)
      PROVE  /\ \A k \in Hashes : Fwd!Requesters(k) \subseteq Fwd!Requesters(k)'
             /\ p \in Fwd!Requesters(h)'
    <2>1. inFlightByHash'[h] = R \cup {p} /\ inFlightByHash'[h] # NotInFlight
        BY <1>5, NotInFlightAssumption DEF Fwd!trackRequester, MachineType, Fwd!TypeOK
    <2>2. \A k \in Hashes : k # h => inFlightByHash'[k] = inFlightByHash[k]
        BY <1>5 DEF Fwd!trackRequester, MachineType, Fwd!TypeOK
    <2> QED BY <1>5, <2>1, <2>2 DEF Fwd!Requesters, Fwd!isInFlight
<1>6. CASE decision = "suppressed"
    <2>1. inFlightByHash[h] = Fwd!Requesters(h) /\ inFlightByHash[h] \in SUBSET Peers
        BY <1>2, <1>6 DEF Fwd!Requesters, Fwd!isInFlight, MachineType, Fwd!TypeOK
    <2> QED BY <1>1, <1>5, <1>6, <2>1
<1>7. CASE decision = "forward"
    <2>1. {} = Fwd!Requesters(h)
        BY <1>3, <1>7 DEF Fwd!Requesters
    <2> QED BY <1>1, <1>5, <1>7, <2>1
<1> QED BY <1>1, <1>4, <1>6, <1>7

\* processRequest: a requester is marked and counted as waiting together, when
\* the machine has entered it.
LEMMA RequestWaits ==
    ASSUME Inv, WaitInv, MachineType, NEW n \in RequestIds, processRequest(n)
    PROVE  WaitInv'
<1> DEFINE r == requests[n]
<1>0. PICK p \in Peers, h \in Hashes : p = r.peer /\ h = r.hash
    BY DEF processRequest, Inv, HandlerInv, RequestRefs, RequestType
<1> DEFINE C == open \ {p}
           decision == Fwd!Decision(h, p, C)
           Mark(keep) == their' = IF r.orphan THEN their
                               ELSE [their EXCEPT ![p] = IF keep THEN @ \cup {h} ELSE @ \ {h}]
           waiting == decision \in {"forward", "suppressed"}
<1>1. /\ r # None /\ requests' = [requests EXCEPT ![n] = None]
      /\ UNCHANGED <<open, closing, store, recent>>
    BY DEF processRequest
<1>2. \/ UNCHANGED <<machine, their, waitVars>>
      \/ /\ Mark(TRUE) /\ UNCHANGED <<machine, waits>>
         /\ unmarked' = IF r.orphan THEN unmarked ELSE unmarked \ {<<p, h>>}
      \/ /\ Fwd!Request(h, p, C) /\ Mark(waiting)
         /\ IF r.orphan THEN UNCHANGED waitVars ELSE Wait(<<p, h>>, decision)
    BY <1>0 DEF processRequest, getForwardTargets, KeepsMarker
<1>3. p \in Peers /\ h \in Hashes /\ C \in SUBSET Peers
    BY DEF Inv, EntryInv, EntryRefs
<1>4. r.orphan \/ p \in open
    BY <1>0, <1>1 DEF WaitInv, WaitersOpen
<1>5. \A m \in RequestIds :
            requests'[m] # None /\ ~requests'[m].orphan => requests'[m].peer \in open'
    BY <1>1 DEF WaitInv, WaitersOpen, Inv, HandlerInv, RequestRefs
<1>6. CASE UNCHANGED <<machine, their, waitVars>>
    <2>1. WaitIsTracked'
        BY <1>6, StillTracked, SameRequesters DEF WaitInv
    <2> QED BY <1>1, <1>5, <1>6, <2>1 DEF WaitInv, WaitTypes, WaitersOpen, waitVars
<1>7. CASE /\ Mark(TRUE) /\ UNCHANGED <<machine, waits>>
           /\ unmarked' = IF r.orphan THEN unmarked ELSE unmarked \ {<<p, h>>}
    <2>1. their' \in [Peers -> SUBSET Hashes] /\ \A q \in Peers : their[q] \subseteq their'[q]
        BY <1>3, <1>7 DEF WaitInv, WaitTypes
    <2>a. unmarked' \in SUBSET waits' /\ (~r.orphan => h \in their'[p])
        BY <1>3, <1>7 DEF WaitInv, WaitTypes
    <2>b. \A w \in unmarked : w \in unmarked' \/ (w = <<p, h>> /\ ~r.orphan)
        BY <1>7
    <2>2. WaitIsTracked'
        <3> SUFFICES ASSUME NEW w \in waits'
                     PROVE  Tracked(w)'
            BY DEF WaitIsTracked, Tracked
        <3>1. w \in waits /\ w[1] \in Peers
            BY <1>7 DEF WaitInv, WaitTypes
        <3>2. Tracked(w)
            BY <3>1 DEF WaitInv, WaitIsTracked, Tracked
        <3>3. Fwd!Requesters(w[2])' = Fwd!Requesters(w[2])
            BY <1>7, SameRequesters
        <3>4. w[2] \in their'[w[1]] \/ w \in unmarked'
            BY <2>1, <2>a, <2>b, <3>1, <3>2 DEF Tracked
        <3> QED BY <3>2, <3>3, <3>4 DEF Tracked
    <2> QED BY <1>1, <1>5, <1>7, <2>1, <2>a, <2>2 DEF WaitInv, WaitTypes, WaitersOpen
<1>8. CASE /\ Fwd!Request(h, p, C) /\ Mark(waiting)
           /\ IF r.orphan THEN UNCHANGED waitVars ELSE Wait(<<p, h>>, decision)
    <2>1. \A k \in Hashes : Fwd!Requesters(k) \subseteq Fwd!Requesters(k)'
        BY <1>3, <1>8, RequestTracks
    <2>2. waiting => p \in Fwd!Requesters(h)'
        BY <1>3, <1>8, RequestTracks
    <2> HIDE DEF decision, waiting
    <2>3. CASE r.orphan
        <3>1. UNCHANGED <<their, waitVars>>
            BY <1>8, <2>3
        <3>2. WaitIsTracked'
            BY <2>1, <3>1, StillTracked DEF WaitInv
        <3> QED BY <1>1, <1>5, <3>1, <3>2 DEF WaitInv, WaitTypes, WaitersOpen, waitVars
    <2>4. CASE ~r.orphan
        <3> DEFINE w0 == <<p, h>>
        <3>1. their' = [their EXCEPT ![p] = IF waiting THEN @ \cup {h} ELSE @ \ {h}]
            BY <1>8, <2>4
        <3>2. /\ waits' = IF waiting THEN waits \cup {w0} ELSE waits
              /\ unmarked' = IF waiting THEN unmarked \ {w0} ELSE unmarked \cup ({w0} \cap waits)
            BY <1>8, <2>4 DEF Wait, waiting
        <3>3. w0 \in Peers \X Hashes /\ w0[1] = p /\ w0[2] = h
            BY <1>3
        <3>4. WaitTypes'
            BY <1>1, <1>3, <3>1, <3>2, <3>3 DEF WaitInv, WaitTypes
        <3>5. WaitersOpen'
            BY <1>1, <1>4, <1>5, <2>4, <3>2, <3>3 DEF WaitInv, WaitersOpen
        <3>6. WaitIsTracked'
            <4> SUFFICES ASSUME NEW w \in waits'
                         PROVE  Tracked(w)'
                BY DEF WaitIsTracked, Tracked
            <4>1. CASE w = w0
                <5>1. CASE waiting
                    <6>1. h \in their'[p]
                        BY <1>3, <3>1, <5>1 DEF WaitInv, WaitTypes
                    <6> QED BY <2>2, <3>3, <4>1, <5>1, <6>1 DEF Tracked
                <5>2. CASE ~waiting
                    <6>1. w \in waits /\ w \in unmarked'
                        BY <3>2, <4>1, <5>2
                    <6>2. p \in Fwd!Requesters(h)
                        BY <3>3, <4>1, <6>1 DEF WaitInv, WaitIsTracked
                    <6> QED BY <1>3, <2>1, <3>3, <4>1, <6>1, <6>2 DEF Tracked
                <5> QED BY <5>1, <5>2
            <4>2. CASE w # w0
                <5>1. w \in waits /\ w[1] \in Peers /\ w[2] \in Hashes /\ w = <<w[1], w[2]>>
                    BY <3>2, <4>2 DEF WaitInv, WaitTypes
                <5>2. Tracked(w)
                    BY <5>1 DEF WaitInv, WaitIsTracked, Tracked
                <5>3. ~(w[1] = p /\ w[2] = h)
                    BY <4>2, <5>1
                <5>4. w[2] \in their[w[1]] => w[2] \in their'[w[1]]
                    BY <1>3, <3>1, <5>1, <5>3 DEF WaitInv, WaitTypes
                <5>5. w \in unmarked => w \in unmarked'
                    BY <3>2, <4>2
                <5> QED BY <2>1, <5>1, <5>2, <5>4, <5>5 DEF Tracked
            <4> QED BY <4>1, <4>2
        <3> QED BY <3>4, <3>5, <3>6 DEF WaitInv
    <2> QED BY <2>3, <2>4
<1> HIDE DEF decision, waiting, Mark
<1> QED BY <1>2, <1>6, <1>7, <1>8

\* Once nobody waits for h, clearing it and its markers leaves the waiting
\* requesters of other hashes where they were.
LEMMA OtherHashesTracked ==
    ASSUME WaitInv, NEW h \in Hashes,
           waits' = {w \in waits : w[2] # h}, unmarked' = {w \in unmarked : w[2] # h},
           \A p \in Peers : their'[p] \in {their[p], their[p] \ {h}},
           \A k \in Hashes : k # h => Fwd!Requesters(k)' = Fwd!Requesters(k)
    PROVE  WaitIsTracked'
<1> SUFFICES ASSUME NEW w \in waits'
             PROVE  Tracked(w)'
    BY DEF WaitIsTracked, Tracked
<1>1. w \in waits /\ w[1] \in Peers /\ w[2] \in Hashes /\ w[2] # h
    BY DEF WaitInv, WaitTypes
<1>2. Tracked(w)
    BY <1>1 DEF WaitInv, WaitIsTracked, Tracked
<1>3. their'[w[1]] \in {their[w[1]], their[w[1]] \ {h}}
    BY <1>1
<1> QED BY <1>1, <1>2, <1>3 DEF Tracked

\* The timeout of a forward finds everybody who waits for its hash.
LEMMA TimeoutWaits ==
    ASSUME WaitInv, MachineType, NEW h \in Hashes, forwardTimeout(h)
    PROVE  WaitInv'
<1>1. Fwd!isInFlight(h) /\ Fwd!clearForward(h)
    BY DEF forwardTimeout, Fwd!handleForwardTimeout, Fwd!resolveForward, MachineType,
           Fwd!ForwardHasTimer
<1>2. waits' = {w \in waits : w[2] # h} /\ unmarked' = {w \in unmarked : w[2] # h}
    <2>1. \A w \in waits : w[2] = h => w[1] \in inFlightByHash[h]
        BY <1>1 DEF WaitInv, WaitIsTracked, Fwd!Requesters
    <2>2. unmarked \subseteq waits
        BY DEF WaitInv, WaitTypes
    <2> QED BY <2>1, <2>2 DEF forwardTimeout
<1>3. \A p \in Peers : their'[p] \in {their[p], their[p] \ {h}}
    BY DEF forwardTimeout, WaitInv, WaitTypes
<1>4. WaitIsTracked'
    BY <1>1, <1>2, <1>3, ClearKeepsOthers, OtherHashesTracked
<1>5. WaitTypes'
    BY <1>2 DEF forwardTimeout, WaitInv, WaitTypes
<1>6. WaitersOpen'
    BY <1>2 DEF forwardTimeout, WaitInv, WaitersOpen
<1> QED BY <1>4, <1>5, <1>6 DEF WaitInv

\* An answer that is pushed takes the hash out of the machine and out of the
\* waiting ones together.
LEMMA AnswerWaits ==
    ASSUME Inv, WaitInv, MachineType, NEW n \in ResponseIds, finishResponse(n)
    PROVE  WaitInv'
<1> DEFINE r == responses[n]
<1>1. r # None /\ r.hash \in Hashes
    BY DEF finishResponse, Inv, HandlerInv, ResponseRefs, ResponseType
<1>2. /\ closing' \in SUBSET Peers /\ store' \in SUBSET Hashes /\ recent' \in SUBSET Hashes
      /\ UNCHANGED <<open, requests>>
    BY <1>1 DEF finishResponse, WaitInv, WaitTypes
<1>3. CASE UNCHANGED <<machine, their, waitVars>>
    <2>1. WaitIsTracked'
        BY <1>3, StillTracked, SameRequesters DEF WaitInv
    <2> QED BY <1>2, <1>3, <2>1 DEF WaitInv, WaitTypes, WaitersOpen, waitVars
<1>4. CASE PushToRequesters(r.hash, r.peer)
    <2>1. waits' = {w \in waits : w[2] # r.hash} /\ unmarked' = {w \in unmarked : w[2] # r.hash}
        BY <1>4 DEF PushToRequesters
    <2>2. \A p \in Peers : their'[p] \in {their[p], their[p] \ {r.hash}}
        BY <1>4 DEF PushToRequesters
    <2>3. \A k \in Hashes : k # r.hash => Fwd!Requesters(k)' = Fwd!Requesters(k)
        <3>1. UNCHANGED machine \/ Fwd!clearForward(r.hash)
            BY <1>4 DEF PushToRequesters, Fwd!Answer, Fwd!resolveForward
        <3> QED BY <1>1, <3>1, SameRequesters, ClearKeepsOthers
    <2>4. WaitIsTracked'
        BY <1>1, <2>1, <2>2, <2>3, OtherHashesTracked
    <2>5. their' \in [Peers -> SUBSET Hashes]
        BY <1>4 DEF PushToRequesters, WaitInv, WaitTypes
    <2>6. WaitTypes'
        BY <1>2, <2>1, <2>5 DEF WaitInv, WaitTypes
    <2>7. WaitersOpen'
        BY <1>2, <2>1 DEF WaitInv, WaitersOpen
    <2> QED BY <2>4, <2>6, <2>7 DEF WaitInv
<1> QED BY <1>3, <1>4 DEF finishResponse

\* A step that touches neither the machine nor markers nor waiting requesters.
LEMMA WaitsUnchanged ==
    ASSUME WaitInv, UNCHANGED <<machine, their, waitVars>>, open \subseteq open',
           closing' \in SUBSET Peers, store' \in SUBSET Hashes, recent' \in SUBSET Hashes,
           \A n \in RequestIds :
              requests'[n] # None /\ ~requests'[n].orphan => requests'[n].peer \in open'
    PROVE  WaitInv'
<1>1. WaitIsTracked'
    BY StillTracked, SameRequesters DEF WaitInv
<1> QED BY <1>1 DEF WaitInv, WaitTypes, WaitersOpen, waitVars

\* Every step keeps the waiting requesters tracked.
LEMMA NextWaits == Inv /\ MachineType /\ WaitInv /\ [Next]_vars => WaitInv'
<1> SUFFICES ASSUME Inv, MachineType, WaitInv, [Next]_vars PROVE WaitInv'
    OBVIOUS
<1> DEFINE SameRequests == \A n \in RequestIds :
              requests'[n] # None /\ ~requests'[n].orphan => requests'[n].peer \in open'
<1>0. UNCHANGED requests /\ open \subseteq open' => SameRequests
    BY DEF WaitInv, WaitersOpen
<1>a. closing \in SUBSET Peers /\ store \in SUBSET Hashes /\ recent \in SUBSET Hashes
    BY DEF WaitInv, WaitTypes
<1>1. ASSUME NEW p \in Peers, connect(p) PROVE WaitInv'
    BY <1>0, <1>a, <1>1, WaitsUnchanged DEF connect
<1>2. ASSUME NEW p \in Peers, closePeer(p) PROVE WaitInv'
    <2>1. PICK live : Orphan({p}, live)
        BY <1>2 DEF closePeer, Close
    <2>2. \A h \in Hashes : \A q \in Fwd!Requesters(h) : q \notin {p} => q \in Fwd!Requesters(h)'
        BY <1>2, DisconnectKeepsOthers DEF closePeer
    <2>3. UNCHANGED <<store, recent>> /\ closing' \in SUBSET Peers
        BY <1>2, <1>a DEF closePeer
    <2> QED BY <2>1, <2>2, <2>3, OthersTracked
<1>3. CASE stop
    <2>1. PICK live : Orphan(open, live)
        BY <1>3 DEF stop, Close
    <2>2. open \in SUBSET Peers
        BY DEF Inv, EntryInv, EntryRefs
    <2>3. waits' = {} /\ unmarked' = {}
        BY <2>1 DEF Orphan, WaitInv, WaitersOpen, WaitTypes
    <2>4. WaitIsTracked'
        BY <2>3 DEF WaitIsTracked
    <2>5. their' \in [Peers -> SUBSET Hashes]
        BY <2>1 DEF Orphan, WaitInv, WaitTypes
    <2>6. WaitTypes'
        BY <1>3, <2>2, <2>3, <2>5 DEF stop, WaitInv, WaitTypes
    <2>7. ASSUME NEW n \in RequestIds, requests'[n] # None, ~requests'[n].orphan PROVE FALSE
        <3>1. requests[n] # None /\ requests[n] \in RequestType
            BY <2>1, <2>7 DEF Orphan, Inv, HandlerInv, RequestRefs
        <3>2. CASE requests[n].peer \in open
            <4>1. requests'[n] = [requests[n] EXCEPT !.orphan = TRUE]
                BY <2>1, <3>1, <3>2 DEF Orphan
            <4>2. \A r \in RequestType : [r EXCEPT !.orphan = TRUE].orphan = TRUE
                BY DEF RequestType
            <4> QED BY <2>7, <3>1, <4>1, <4>2
        <3>3. CASE requests[n].peer \notin open
            <4>1. requests'[n] = requests[n]
                BY <2>1, <3>3 DEF Orphan
            <4> QED BY <2>7, <3>1, <3>3, <4>1 DEF WaitInv, WaitersOpen
        <3> QED BY <3>2, <3>3
    <2>8. WaitersOpen'
        BY <2>3, <2>7 DEF WaitersOpen
    <2> QED BY <2>4, <2>6, <2>8 DEF WaitInv
<1>4. ASSUME NEW p \in Peers, onPeerClosed(p) PROVE WaitInv'
    <2>1. UNCHANGED <<machine, store, recent>> /\ closing' \in SUBSET Peers
        BY <1>4, <1>a DEF onPeerClosed
    <2>2. CASE p \in open
        <3>1. Orphan({p}, timers)
            BY <1>4, <2>2 DEF onPeerClosed
        <3> QED BY <2>1, <3>1, SameRequesters, OthersTracked
    <2>3. CASE p \notin open
        BY <1>0, <1>4, <1>a, <2>1, <2>3, WaitsUnchanged DEF onPeerClosed
    <2> QED BY <2>2, <2>3
<1>5. ASSUME NEW p \in Peers, NEW h \in Hashes, NEW f \in BOOLEAN, handleRequest(p, h, f)
      PROVE  WaitInv'
    <2> DEFINE r == [peer |-> p, hash |-> h, forwardable |-> f, found |-> h \in store,
                     orphan |-> FALSE]
    <2>1. requests' = [requests EXCEPT ![count.request + 1] = r] /\ p \in open /\ r.peer = p
        BY <1>5 DEF handleRequest
    <2>2. UNCHANGED <<machine, open, closing, store, recent, their, waitVars>>
        BY <1>5 DEF handleRequest
    <2> HIDE DEF r
    <2>3. SameRequests
        <3> SUFFICES ASSUME NEW n \in RequestIds, requests'[n] # None, ~requests'[n].orphan
                     PROVE  requests'[n].peer \in open'
            OBVIOUS
        <3>1. requests'[n] = requests[n] \/ requests'[n] = r
            BY <2>1 DEF Inv, HandlerInv, RequestRefs
        <3> QED BY <2>1, <2>2, <3>1 DEF WaitInv, WaitersOpen
    <2> QED BY <1>a, <2>2, <2>3, WaitsUnchanged
<1>6. ASSUME NEW n \in RequestIds, processRequest(n) PROVE WaitInv'
    BY <1>6, RequestWaits
<1>7. ASSUME NEW h \in Hashes, forwardTimeout(h) PROVE WaitInv'
    BY <1>7, TimeoutWaits
<1>8. ASSUME NEW p \in Peers, NEW h \in Hashes, NEW valid \in BOOLEAN,
             handleResponse(p, h, valid)
      PROVE  WaitInv'
    BY <1>0, <1>8, <1>a, WaitsUnchanged DEF handleResponse, Receive
<1>9. ASSUME NEW p \in Peers, NEW h \in Hashes, handleLateResponse(p, h) PROVE WaitInv'
    BY <1>0, <1>9, <1>a, WaitsUnchanged DEF handleLateResponse, Receive
<1>10. ASSUME NEW p \in Peers, NEW h \in Hashes, forgetRequest(p, h) PROVE WaitInv'
    BY <1>0, <1>10, <1>a, WaitsUnchanged DEF forgetRequest
<1>11. ASSUME NEW n \in ResponseIds, finishResponse(n) PROVE WaitInv'
    BY <1>11, AnswerWaits
<1>12. ASSUME NEW g \in Gets, NEW h \in Hashes, get(g, h) PROVE WaitInv'
    BY <1>0, <1>12, <1>a, WaitsUnchanged DEF get
<1>13. ASSUME NEW t \in timers, entryTimeout(t) PROVE WaitInv'
    BY <1>0, <1>13, <1>a, WaitsUnchanged DEF entryTimeout
<1>14. CASE UNCHANGED vars
    BY <1>0, <1>14, <1>a, WaitsUnchanged DEF vars, machine, waitVars
<1> QED BY <1>1, <1>2, <1>3, <1>4, <1>5, <1>6, <1>7, <1>8, <1>9, <1>10, <1>11, <1>12,
          <1>13, <1>14 DEF Next

\* Nobody waits at the start.
LEMMA InitWaits == Init => WaitInv
BY DEF Init, WaitInv, WaitTypes, WaitersOpen, WaitIsTracked

\* A peer whose request was forwarded or suppressed keeps its place among the
\* forward's requesters until the answer, the timeout or its own disconnection,
\* and its marker too unless a request of its own that found no targets deleted
\* it: no other interleaving of requests, answers, closes and reconnections
\* leaves it waiting where the answer will not look.
THEOREM WaitersAreFound == Spec => []WaitIsTracked
<1>1. WaitInv => WaitIsTracked
    BY DEF WaitInv
<1> QED BY <1>1, InitInv, NextInv, MachineKnown, InitWaits, NextWaits, PTL DEF Spec

-----------------------------------------------------------------------------
(* get() counts every peer it asked exactly once.                          *)

Owned(T, g) == {t \in T : t.owner = g}
Answering(R, g) == {n \in ResponseIds : R[n] # None /\ R[n].owner = g}

\* A call has at most one timer for each peer it asked.
OneTimerEach(T) ==
    \A t \in T, u \in T : t.owner \in Gets /\ t.owner = u.owner /\ t.peer = u.peer => t = u

\* Timers and answers belong to calls that were made, for the hash they asked.
TimersOfCalls(T, G) ==
    \A t \in T : t.owner \in Gets => G[t.owner] # None /\ t.hash = G[t.owner].hash
AnswersOfCalls(R, G) ==
    \A n \in ResponseIds : R[n] # None =>
        /\ R[n].owner \in Gets => G[R[n].owner] # None
        /\ \A g \in R[n].asked : G[g] # None

\* Numbers of answers still to come are free.
FreeNumbers == \A n \in ResponseIds : n > count.response => responses[n] = None

Counts(T, R, G) ==
    \A g \in Gets : G[g] # None =>
        G[g].left = Cardinality(Owned(T, g)) + Cardinality(Answering(R, g))

TimersInv(T, G) == IsFiniteSet(T) /\ OneTimerEach(T) /\ TimersOfCalls(T, G)
GetInv ==
    /\ gets \in [Gets -> CallType \cup {None}]
    /\ TimersInv(timers, gets) /\ AnswersOfCalls(responses, gets) /\ FreeNumbers
    /\ Counts(timers, responses, gets)

\* A set counted by another has as many elements.
LEMMA SameCount ==
    ASSUME NEW S, NEW T, IsFiniteSet(S), NEW f \in [S -> T],
           \A a \in S, b \in S : f[a] = f[b] => a = b,
           \A t \in T : \E a \in S : f[a] = t
    PROVE  IsFiniteSet(T) /\ Cardinality(T) = Cardinality(S)
<1>1. f \in Injection(S, T)
    BY DEF Injection, IsInjective
<1>2. f \in Surjection(S, T)
    BY DEF Surjection
<1>3. ExistsBijection(S, T)
    BY <1>1, <1>2 DEF Bijection, ExistsBijection
<1> QED BY <1>3, FS_Bijection

\* One timer each for the peers of S.
LEMMA AskedTimers ==
    ASSUME NEW S, IsFiniteSet(S), NEW h, NEW g
    PROVE  /\ IsFiniteSet({Timer(p, h, g) : p \in S})
           /\ Cardinality({Timer(p, h, g) : p \in S}) = Cardinality(S)
<1> DEFINE T == {Timer(p, h, g) : p \in S}
           f == [p \in S |-> Timer(p, h, g)]
<1>1. \A p \in S, q \in S : Timer(p, h, g) = Timer(q, h, g) => p = q
    BY DEF Timer
<1>2. f \in [S -> T] /\ \A t \in T : \E p \in S : f[p] = t
    OBVIOUS
<1>3. \A p \in S, q \in S : f[p] = f[q] => p = q
    BY <1>1
<1> HIDE DEF f, T
<1>4. IsFiniteSet(T) /\ Cardinality(T) = Cardinality(S)
    BY <1>2, <1>3, SameCount
<1> QED BY <1>4 DEF T

\* Marking timers as orphans loses none of those of one call.
LEMMA MovedTimers ==
    ASSUME NEW T \in SUBSET TimerType, IsFiniteSet(T), NEW S,
           \A t \in T, u \in T : t.peer = u.peer => t = u
    PROVE  /\ IsFiniteSet({[t EXCEPT !.orphan = @ \/ t.peer \in S] : t \in T})
           /\ Cardinality({[t EXCEPT !.orphan = @ \/ t.peer \in S] : t \in T}) = Cardinality(T)
<1> DEFINE moved(t) == [t EXCEPT !.orphan = @ \/ t.peer \in S]
           U == {moved(t) : t \in T}
           f == [t \in T |-> moved(t)]
<1>1. \A t \in TimerType : moved(t).peer = t.peer
    BY DEF TimerType
<1> HIDE DEF moved
<1>2. f \in [T -> U] /\ \A u \in U : \E t \in T : f[t] = u
    OBVIOUS
<1>3. \A t \in T, u \in T : f[t] = f[u] => t = u
    BY <1>1
<1> HIDE DEF f, U
<1>4. IsFiniteSet(U) /\ Cardinality(U) = Cardinality(T)
    BY <1>2, <1>3, SameCount
<1> QED BY <1>4 DEF moved, U

\* The answers in progress are finitely many.
LEMMA AnsweringFinite ==
    ASSUME NEW R, NEW g
    PROVE  IsFiniteSet(Answering(R, g)) /\ Cardinality(Answering(R, g)) \in Nat
<1>1. IsFiniteSet(ResponseIds)
    BY FS_Interval, CountsAssumption DEF ResponseIds
<1> QED BY <1>1, FS_Subset, FS_CardinalityType DEF Answering

\* The timers of a call are finitely many.
LEMMA OwnedFinite ==
    ASSUME NEW T, IsFiniteSet(T), NEW g
    PROVE  IsFiniteSet(Owned(T, g)) /\ Cardinality(Owned(T, g)) \in Nat
BY FS_Subset, FS_CardinalityType DEF Owned

\* A call that is counted is a call of its type, also when its count was reached
\* by subtraction.
LEMMA SettledCall ==
    ASSUME NEW c \in CallType, NEW d \in Nat, NEW data \in BOOLEAN, c.left - d \in Nat
    PROVE  /\ Settle(c, d, data) \in CallType
           /\ Settle(c, d, data) # None
           /\ Settle(c, d, data).hash = c.hash
           /\ Settle(c, d, data).left = c.left - d
<1>1. Settle(c, d, data) \in CallType
    BY DEF Settle, CallType
<1> QED BY <1>1, NoneAssumption DEF Settle

\* An answer that is done is one less to count for its call.
LEMMA AnswerEnds ==
    ASSUME NEW R \in [ResponseIds -> ResponseType \cup {None}], NEW k \in ResponseIds,
           R[k] # None, NEW g
    PROVE  Cardinality(Answering([R EXCEPT ![k] = None], g))
                = Cardinality(Answering(R, g)) - (IF R[k].owner = g THEN 1 ELSE 0)
<1> DEFINE A == Answering(R, g)
           B == Answering([R EXCEPT ![k] = None], g)
<1>1. k \in A <=> R[k].owner = g
    BY DEF Answering
<1>2. B = A \ {k}
    BY DEF Answering
<1>3. IsFiniteSet(A) /\ Cardinality(A) \in Nat
    BY AnsweringFinite
<1>4. Cardinality(A \ {k}) = IF k \in A THEN Cardinality(A) - 1 ELSE Cardinality(A)
    BY <1>3, FS_RemoveElement
<1> HIDE DEF A, B
<1>5. Cardinality(B) = Cardinality(A) - (IF R[k].owner = g THEN 1 ELSE 0)
    BY <1>1, <1>2, <1>3, <1>4
<1> QED BY <1>5 DEF A, B

\* A timer that is cleared or fires is one less for its call, and the others
\* stay as they are.
LEMMA TimerEnds ==
    ASSUME NEW T, NEW G, TimersInv(T, G), NEW t \in T, NEW g
    PROVE  /\ Cardinality(Owned(T \ {t}, g))
                = Cardinality(Owned(T, g)) - (IF t.owner = g THEN 1 ELSE 0)
           /\ t.owner = g => Cardinality(Owned(T, g)) >= 1
           /\ TimersInv(T \ {t}, G)
<1> DEFINE A == Owned(T, g)
           B == Owned(T \ {t}, g)
<1>1. t \in A <=> t.owner = g
    BY DEF Owned
<1>2. B = A \ {t}
    BY DEF Owned
<1>3. IsFiniteSet(A) /\ Cardinality(A) \in Nat
    BY OwnedFinite DEF TimersInv
<1>4. Cardinality(A \ {t}) = IF t \in A THEN Cardinality(A) - 1 ELSE Cardinality(A)
    BY <1>3, FS_RemoveElement
<1>5. IsFiniteSet(A \ {t}) /\ Cardinality(A \ {t}) \in Nat
    BY <1>3, FS_RemoveElement, FS_CardinalityType
<1>6. TimersInv(T \ {t}, G)
    BY FS_RemoveElement DEF TimersInv, OneTimerEach, TimersOfCalls
<1> HIDE DEF A, B
<1>7. /\ Cardinality(B) = Cardinality(A) - (IF t.owner = g THEN 1 ELSE 0)
      /\ t.owner = g => Cardinality(A) >= 1
    BY <1>1, <1>2, <1>3, <1>4, <1>5
<1> QED BY <1>6, <1>7 DEF A, B

\* The timers that outlive the objects of S.
Moved(S, live) ==
    {[t EXCEPT !.orphan = @ \/ t.peer \in S] :
        t \in {u \in live : u.peer \in S => u.owner \in Gets}}

\* The objects of S let go of: every timer of a call that was to stay is there,
\* marked, and counts for the same call and hash.
LEMMA TimersMoved ==
    ASSUME NEW T \in SUBSET TimerType, NEW G, TimersInv(T, G), NEW live \in SUBSET T, NEW S,
           NEW U, U = Moved(S, live)
    PROVE  /\ TimersInv(U, G)
           /\ \A g \in Gets : Cardinality(Owned(U, g)) = Cardinality(Owned(live, g))
<1> DEFINE moved(t) == [t EXCEPT !.orphan = @ \/ t.peer \in S]
           kept == {u \in live : u.peer \in S => u.owner \in Gets}
<1>1. \A t \in TimerType : moved(t).peer = t.peer /\ moved(t).owner = t.owner
                                                  /\ moved(t).hash = t.hash
    BY DEF TimerType
<1>2. U = {moved(t) : t \in kept}
    BY DEF Moved
<1>3. kept \in SUBSET T /\ kept \in SUBSET TimerType /\ IsFiniteSet(kept) /\ IsFiniteSet(live)
    BY FS_Subset DEF TimersInv
<1> HIDE DEF moved
<1>4. IsFiniteSet(U)
    <2> DEFINE f == [t \in kept |-> moved(t)]
    <2>1. f \in Surjection(kept, U)
        BY <1>2 DEF Surjection
    <2> HIDE DEF f
    <2> QED BY <1>3, <2>1, FS_Surjection
<1>5. \A u \in U : \E t \in kept : u = moved(t)
    BY <1>2
<1> HIDE DEF kept
<1>6. OneTimerEach(U)
    <2> SUFFICES ASSUME NEW t \in U, NEW u \in U, t.owner \in Gets, t.owner = u.owner,
                        t.peer = u.peer
                 PROVE  t = u
        BY DEF OneTimerEach
    <2>1. PICK a \in kept : t = moved(a)
        BY <1>5
    <2>2. PICK b \in kept : u = moved(b)
        BY <1>5
    <2>3. a \in T /\ b \in T /\ a.owner \in Gets /\ a.owner = b.owner /\ a.peer = b.peer
        BY <1>1, <1>3, <2>1, <2>2
    <2>4. a = b
        BY <2>3 DEF TimersInv, OneTimerEach
    <2> QED BY <2>1, <2>2, <2>4
<1>7. TimersOfCalls(U, G)
    <2> SUFFICES ASSUME NEW u \in U, u.owner \in Gets
                 PROVE  G[u.owner] # None /\ u.hash = G[u.owner].hash
        BY DEF TimersOfCalls
    <2>1. PICK a \in kept : u = moved(a)
        BY <1>5
    <2>2. a \in T /\ a.owner = u.owner /\ a.hash = u.hash
        BY <1>1, <1>3, <2>1
    <2> QED BY <2>2 DEF TimersInv, TimersOfCalls
<1>8. ASSUME NEW g \in Gets
      PROVE  Cardinality(Owned(U, g)) = Cardinality(Owned(live, g))
    <2> DEFINE A == Owned(live, g)
               B == Owned(U, g)
    <2>1. A \in SUBSET TimerType /\ \A t \in A, u \in A : t.peer = u.peer => t = u
        BY <1>8 DEF Owned, TimersInv, OneTimerEach
    <2>2. IsFiniteSet(A)
        BY <1>3, OwnedFinite
    <2>3. Cardinality({moved(t) : t \in A}) = Cardinality(A)
        BY <2>1, <2>2, MovedTimers DEF moved
    <2>4. B = {moved(t) : t \in A}
        <3>1. ASSUME NEW u \in B PROVE u \in {moved(t) : t \in A}
            <4>1. PICK a \in kept : u = moved(a)
                BY <1>5 DEF Owned
            <4>2. a \in live /\ a.owner = g
                BY <1>1, <1>3, <4>1 DEF kept, Owned
            <4> QED BY <4>1, <4>2 DEF Owned
        <3>2. ASSUME NEW a \in A PROVE moved(a) \in B
            <4>1. a \in kept
                BY <1>8 DEF Owned, kept
            <4>2. moved(a).owner = g
                BY <1>1, <1>3, <4>1 DEF Owned
            <4> QED BY <1>2, <4>1, <4>2 DEF Owned
        <3> HIDE DEF A, B
        <3> QED BY <3>1, <3>2
    <2> HIDE DEF A, B
    <2>5. Cardinality(B) = Cardinality(A)
        BY <2>3, <2>4
    <2> QED BY <2>5 DEF A, B
<1> QED BY <1>4, <1>6, <1>7, <1>8 DEF TimersInv

\* What the arguments below know of calls, timers and answers.
LEMMA GetParts ==
    ASSUME Inv, GetInv
    PROVE  /\ gets \in [Gets -> CallType \cup {None}]
           /\ timers \in SUBSET TimerType
           /\ responses \in [ResponseIds -> ResponseType \cup {None}]
           /\ TimersInv(timers, gets)
           /\ Counts(timers, responses, gets)
           /\ \A g \in Gets : /\ Cardinality(Owned(timers, g)) \in Nat
                              /\ Cardinality(Answering(responses, g)) \in Nat
<1>1. TimersInv(timers, gets)
    BY DEF GetInv
<1>2. \A g \in Gets : Cardinality(Owned(timers, g)) \in Nat
    BY <1>1, OwnedFinite DEF TimersInv
<1> QED BY <1>1, <1>2, AnsweringFinite DEF GetInv, Inv, EntryInv, EntryRefs, HandlerInv, ResponseRefs

\* The calls stay calls for the same hash.
LEMMA CallsKept ==
    ASSUME NEW T, NEW R, NEW G, NEW H, \A g \in Gets : G[g] # None => H[g] # None /\ H[g].hash = G[g].hash,
           \A n \in ResponseIds : R[n] # None => R[n].asked \subseteq Gets
    PROVE  /\ TimersInv(T, G) => TimersInv(T, H)
           /\ AnswersOfCalls(R, G) => AnswersOfCalls(R, H)
<1>1. TimersInv(T, G) => TimersInv(T, H)
    BY DEF TimersInv, TimersOfCalls
<1>2. ASSUME AnswersOfCalls(R, G) PROVE AnswersOfCalls(R, H)
    BY <1>2 DEF AnswersOfCalls
<1> QED BY <1>1, <1>2

\* An orphaned object keeps the timers of calls.
LEMMA OrphanCounts ==
    ASSUME Inv, GetInv, NEW S, Orphan(S, timers), UNCHANGED <<gets, responses, count>>
    PROVE  GetInv'
<1>0. timers' = Moved(S, timers)
    BY DEF Orphan, Moved
<1>1. /\ TimersInv(timers', gets)
      /\ \A g \in Gets : Cardinality(Owned(timers', g)) = Cardinality(Owned(timers, g))
    BY <1>0, GetParts, TimersMoved
<1>2. Counts(timers', responses, gets)
    BY <1>1, GetParts DEF Counts
<1> QED BY <1>1, <1>2 DEF GetInv, FreeNumbers

\* closePeer counts, for each call, the entries it clears: as many as timers of
\* the call go.
LEMMA CloseCounts ==
    ASSUME Inv, GetInv, NEW S \in SUBSET Peers, Close(S), UNCHANGED responses
    PROVE  GetInv'
<1> DEFINE held(g) == {p \in S : pending[p][gets[g].hash] = g}
           current == {Timer(p, h, pending[p][h]) : p \in S, h \in Hashes}
           live == timers \ current
<1>1. /\ Orphan(S, live)
      /\ gets' = [g \in Gets |->
                        IF gets[g] # None /\ held(g) # {}
                        THEN Settle(gets[g], Cardinality(held(g)), FALSE) ELSE gets[g]]
    BY DEF Close
<1>2. count'.response = count.response
    BY DEF Close, Inv, HandlerInv, CountType
<1>3. /\ TimersInv(timers', gets)
      /\ \A g \in Gets : Cardinality(Owned(timers', g)) = Cardinality(Owned(live, g))
    <2>1. live \in SUBSET timers
        OBVIOUS
    <2>2. timers' = Moved(S, live)
        BY <1>1 DEF Orphan, Moved
    <2> HIDE DEF live
    <2> QED BY <2>1, <2>2, GetParts, TimersMoved
<1>4. ASSUME NEW g \in Gets, gets[g] # None
      PROVE  /\ IsFiniteSet(held(g)) /\ Cardinality(held(g)) \in Nat
             /\ Cardinality(Owned(live, g)) = Cardinality(Owned(timers, g)) - Cardinality(held(g))
             /\ Cardinality(Owned(live, g)) \in Nat
    <2> DEFINE h == gets[g].hash
               gone == {Timer(p, h, g) : p \in held(g)}
    <2>1. gets[g] \in CallType /\ h \in Hashes
        BY <1>4, GetParts DEF CallType
    <2>2. IsFiniteSet(held(g))
        BY PeersAssumption, FS_Subset
    <2>3. Cardinality(held(g)) \in Nat
        BY <2>2, FS_CardinalityType
    <2>4. Cardinality(gone) = Cardinality(held(g))
        BY <2>2, AskedTimers
    <2>5. Owned(timers, g) \cap current = gone
        <3>1. ASSUME NEW t \in Owned(timers, g) \cap current PROVE t \in gone
            <4>1. PICK p \in S, k \in Hashes : t = Timer(p, k, pending[p][k])
                OBVIOUS
            <4>2. t \in timers /\ t.owner = g /\ t.owner = pending[p][k] /\ t.hash = k
                BY <4>1 DEF Owned, Timer
            <4>3. k = h
                BY <1>4, <4>2, GetParts DEF TimersInv, TimersOfCalls
            <4>4. t = Timer(p, h, g) /\ p \in held(g)
                BY <4>1, <4>2, <4>3
            <4> HIDE DEF held, h
            <4> QED BY <4>4
        <3>2. ASSUME NEW p \in held(g) PROVE Timer(p, h, g) \in Owned(timers, g) \cap current
            <4>1. p \in S /\ p \in Peers /\ pending[p][h] = g
                OBVIOUS
            <4>2. g # None
                BY OwnersAssumption DEF Owners
            <4>3. Timer(p, h, g) \in timers
                BY <2>1, <4>1, <4>2 DEF Inv, EntryInv, PendingHasTimer
            <4>4. Timer(p, h, g).owner = g
                BY DEF Timer
            <4>5. Timer(p, h, g) \in current
                BY <2>1, <4>1
            <4> QED BY <4>3, <4>4, <4>5 DEF Owned
        <3> HIDE DEF current, held, h
        <3> QED BY <3>1, <3>2
    <2>6. Owned(live, g) = Owned(timers, g) \ current
        BY DEF Owned
    <2>7. IsFiniteSet(Owned(timers, g))
        BY GetParts, OwnedFinite DEF TimersInv
    <2> HIDE DEF current, held, h, gone, live
    <2>8. /\ Cardinality(Owned(live, g)) = Cardinality(Owned(timers, g)) - Cardinality(gone)
          /\ IsFiniteSet(Owned(live, g))
        BY <2>5, <2>6, <2>7, FS_Difference
    <2>9. Cardinality(Owned(live, g)) \in Nat
        BY <2>8, FS_CardinalityType
    <2> QED BY <2>2, <2>3, <2>4, <2>8, <2>9
<1> HIDE DEF held, current, live
<1>5. ASSUME NEW g \in Gets, gets[g] # None
      PROVE  /\ gets'[g] \in CallType /\ gets'[g] # None /\ gets'[g].hash = gets[g].hash
             /\ gets'[g].left = Cardinality(Owned(timers', g)) + Cardinality(Answering(responses, g))
    <2> DEFINE a == Cardinality(Owned(timers, g))
               b == Cardinality(Answering(responses, g))
               d == Cardinality(held(g))
    <2>1. gets[g] \in CallType /\ gets[g].left = a + b /\ a \in Nat /\ b \in Nat
        BY <1>5, GetParts DEF Counts
    <2>2. d \in Nat /\ Cardinality(Owned(timers', g)) = a - d /\ a - d \in Nat
        BY <1>3, <1>4, <1>5
    <2>3. CASE held(g) # {}
        <3>1. gets'[g] = Settle(gets[g], d, FALSE)
            BY <1>1, <1>5, <2>3
        <3> HIDE DEF a, b, d
        <3>2. gets[g].left - d \in Nat /\ gets[g].left - d = (a - d) + b
            BY <2>1, <2>2
        <3>3. /\ gets'[g] \in CallType /\ gets'[g] # None /\ gets'[g].hash = gets[g].hash
              /\ gets'[g].left = gets[g].left - d
            <4>1. PICK call \in CallType, n \in Nat : call = gets[g] /\ n = d
                BY <2>1, <2>2
            <4>2. /\ Settle(call, n, FALSE) \in CallType /\ Settle(call, n, FALSE) # None
                  /\ Settle(call, n, FALSE).hash = call.hash
                  /\ Settle(call, n, FALSE).left = call.left - n
                BY <3>2, <4>1, SettledCall
            <4> QED BY <3>1, <4>1, <4>2
        <3> QED BY <2>2, <3>2, <3>3 DEF b
    <2>4. CASE held(g) = {}
        <3>1. gets'[g] = gets[g] /\ d = 0
            BY <1>1, <1>5, <2>4, FS_EmptySet
        <3> QED BY <1>5, <2>1, <2>2, <3>1
    <2> QED BY <2>3, <2>4
<1>6. \A g \in Gets : gets[g] = None => gets'[g] = None
    BY <1>1
<1>7. gets' \in [Gets -> CallType \cup {None}]
    <2>1. \A g \in Gets : gets'[g] \in CallType \cup {None}
        BY <1>5, <1>6
    <2> QED BY <1>1, <2>1
<1>8. Counts(timers', responses, gets')
    BY <1>5, <1>6 DEF Counts
<1>9. TimersInv(timers', gets') /\ AnswersOfCalls(responses, gets')
    <2>1. \A n \in ResponseIds : responses[n] # None => responses[n].asked \subseteq Gets
        BY GetParts DEF ResponseType
    <2> QED BY <1>3, <1>5, <2>1, CallsKept DEF GetInv
<1> QED BY <1>2, <1>7, <1>8, <1>9 DEF GetInv, FreeNumbers

\* A forward sets timers that belong to no call.
LEMMA ForwardCounts ==
    ASSUME Inv, GetInv, NEW n \in RequestIds, NEW h, NEW S \in SUBSET Peers,
           forwardRequest(n, h, S), UNCHANGED <<gets, responses, count>>
    PROVE  GetInv'
<1> DEFINE new == {Timer(p, h, n) : p \in S}
<1>1. timers' = timers \cup new
    BY DEF forwardRequest
<1>2. n \notin Gets
    BY OwnersAssumption
<1>3. \A t \in new : t.owner = n
    BY DEF Timer
<1>4. IsFiniteSet(new)
    BY AskedTimers, PeersAssumption, FS_Subset
<1> HIDE DEF new
<1>5. IsFiniteSet(timers')
    BY <1>1, <1>4, FS_Union DEF GetInv, TimersInv
<1>6. OneTimerEach(timers')
    BY <1>1, <1>2, <1>3 DEF GetInv, TimersInv, OneTimerEach
<1>7. TimersOfCalls(timers', gets)
    BY <1>1, <1>2, <1>3 DEF GetInv, TimersInv, TimersOfCalls
<1>8. \A g \in Gets : Owned(timers', g) = Owned(timers, g)
    BY <1>1, <1>2, <1>3 DEF Owned
<1>9. Counts(timers', responses, gets)
    BY <1>8 DEF GetInv, Counts
<1> QED BY <1>5, <1>6, <1>7, <1>9 DEF GetInv, TimersInv, FreeNumbers

\* get() sets a timer for each peer it counts, and had none before.
LEMMA GetCounts ==
    ASSUME Inv, GetInv, NEW g \in Gets, NEW h \in Hashes, get(g, h)
    PROVE  GetInv'
<1> DEFINE new == {Timer(p, h, g) : p \in open}
           call == [hash |-> h, left |-> Cardinality(open), result |-> "waiting",
                    answered |-> FALSE]
<1>1. /\ gets[g] = None /\ gets' = [gets EXCEPT ![g] = call]
      /\ timers' = timers \cup new /\ UNCHANGED <<responses, count>>
    BY DEF get, forwardRequest
<1>2. IsFiniteSet(open) /\ Cardinality(open) \in Nat
    BY PeersAssumption, FS_Subset, FS_CardinalityType DEF Inv, EntryInv, EntryRefs
<1>3. IsFiniteSet(new) /\ Cardinality(new) = Cardinality(open)
    BY <1>2, AskedTimers
<1>4. call \in CallType
    BY <1>2 DEF CallType
<1>5. call # None /\ call.hash = h /\ call.left = Cardinality(open)
    BY <1>4, NoneAssumption
<1>6. \A t \in new : t.owner = g /\ t.hash = h
    BY DEF Timer
<1>7. \A t \in new, u \in new : t.peer = u.peer => t = u
    <2>1. \A t \in new : t = Timer(t.peer, h, g)
        BY DEF Timer
    <2> QED BY <2>1
<1> HIDE DEF new, call
<1>8. gets'[g] = call /\ \A k \in Gets : k # g => gets'[k] = gets[k]
    BY <1>1, GetParts
<1>9. \A t \in timers : t.owner # g
    BY <1>1, GetParts DEF TimersInv, TimersOfCalls
<1>10. gets' \in [Gets -> CallType \cup {None}]
    BY <1>1, <1>4, GetParts
<1>11. TimersInv(timers', gets')
    <2>1. IsFiniteSet(timers')
        BY <1>1, <1>3, FS_Union DEF GetInv, TimersInv
    <2>2. OneTimerEach(timers')
        BY <1>1, <1>6, <1>7, <1>9 DEF GetInv, TimersInv, OneTimerEach
    <2>3. TimersOfCalls(timers', gets')
        BY <1>1, <1>5, <1>6, <1>8, <1>9 DEF GetInv, TimersInv, TimersOfCalls
    <2> QED BY <2>1, <2>2, <2>3 DEF TimersInv
<1>12. AnswersOfCalls(responses, gets')
    <2>1. \A k \in Gets : gets[k] # None => gets'[k] # None
        BY <1>1, <1>8
    <2>2. \A n \in ResponseIds : responses[n] # None => responses[n].asked \subseteq Gets
        BY GetParts DEF ResponseType
    <2> QED BY <2>1, <2>2 DEF GetInv, AnswersOfCalls
<1>13. Counts(timers', responses, gets')
    <2> SUFFICES ASSUME NEW k \in Gets, gets'[k] # None
                 PROVE  gets'[k].left = Cardinality(Owned(timers', k))
                                            + Cardinality(Answering(responses, k))
        BY DEF Counts
    <2>1. CASE k = g
        <3>1. Owned(timers', g) = new
            BY <1>1, <1>6, <1>9 DEF Owned
        <3>2. Answering(responses, g) = {}
            BY <1>1 DEF Answering, GetInv, AnswersOfCalls
        <3>3. Cardinality(Answering(responses, g)) = 0
            BY <3>2, FS_EmptySet
        <3> QED BY <1>2, <1>3, <1>5, <1>8, <2>1, <3>1, <3>3
    <2>2. CASE k # g
        <3>1. Owned(timers', k) = Owned(timers, k)
            BY <1>1, <1>6, <2>2 DEF Owned
        <3> QED BY <1>8, <2>2, <3>1 DEF GetInv, Counts
    <2> QED BY <2>1, <2>2
<1> QED BY <1>1, <1>10, <1>11, <1>12, <1>13 DEF GetInv, FreeNumbers

\* An answer takes the number after the last one, for a call that was made.
LEMMA AnswerReceived ==
    ASSUME Inv, GetInv, NEW p \in Peers, NEW h \in Hashes, NEW o \in Owners \cup {Late},
           NEW push \in BOOLEAN, NEW valid \in BOOLEAN, Receive(p, h, o, push, valid),
           o \in Gets => gets[o] # None
    PROVE  /\ \A g \in Gets : Cardinality(Answering(responses', g))
                    = Cardinality(Answering(responses, g)) + (IF o = g THEN 1 ELSE 0)
           /\ AnswersOfCalls(responses', gets)
           /\ FreeNumbers'
<1> DEFINE k == count.response + 1
           r == [peer |-> p, hash |-> h, owner |-> o, push |-> push, valid |-> valid,
                 requested |-> o = Late /\ h \in recent,
                 asked |-> {g \in Gets : Timer(p, h, g) \in timers}]
<1>1. responses' = [responses EXCEPT ![k] = r]
    BY DEF Receive
<1>2. /\ count.response \in Nat /\ count.response < MaxResponses
      /\ count'.response = count.response + 1
    BY DEF Receive, Inv, HandlerInv, CountType
<1>3. k \in ResponseIds /\ k > count.response
    BY <1>2, CountsAssumption DEF ResponseIds
<1>4. r \in ResponseType /\ r.owner = o /\ r.asked = {g \in Gets : Timer(p, h, g) \in timers}
    BY DEF ResponseType
<1>5. \A g \in r.asked : gets[g] # None
    <2> SUFFICES ASSUME NEW g \in Gets, Timer(p, h, g) \in timers PROVE gets[g] # None
        BY <1>4
    <2>1. Timer(p, h, g).owner = g
        BY DEF Timer
    <2> QED BY <2>1 DEF GetInv, TimersInv, TimersOfCalls
<1>6. responses[k] = None /\ responses \in [ResponseIds -> ResponseType \cup {None}]
    BY <1>3, GetParts DEF GetInv, FreeNumbers
<1> HIDE DEF k, r
<1>7. \A n \in ResponseIds : responses'[n] = IF n = k THEN r ELSE responses[n]
    BY <1>1, <1>6
<1>8. \A g \in Gets : Cardinality(Answering(responses', g))
                    = Cardinality(Answering(responses, g)) + (IF o = g THEN 1 ELSE 0)
    <2> TAKE g \in Gets
    <2> DEFINE A == Answering(responses, g)
               B == Answering(responses', g)
    <2>1. k \in ResponseIds /\ responses[k] = None /\ r # None
        BY <1>3, <1>4, <1>6, NoneAssumption
    <2>2. k \notin A
        BY <2>1 DEF Answering
    <2>3. B = IF o = g THEN A \cup {k} ELSE A
        BY <1>4, <1>7, <2>1 DEF Answering
    <2>4. IsFiniteSet(A) /\ Cardinality(A) \in Nat
        BY AnsweringFinite
    <2> HIDE DEF A, B
    <2>5. Cardinality(A \cup {k}) = Cardinality(A) + 1
        BY <2>2, <2>4, FS_AddElement
    <2>6. Cardinality(B) = Cardinality(A) + (IF o = g THEN 1 ELSE 0)
        BY <2>3, <2>4, <2>5
    <2> QED BY <2>6 DEF A, B
<1>9. AnswersOfCalls(responses', gets)
    BY <1>4, <1>5, <1>7 DEF GetInv, AnswersOfCalls
<1>10. FreeNumbers'
    <2> SUFFICES ASSUME NEW n \in ResponseIds, n > count'.response PROVE responses'[n] = None
        BY DEF FreeNumbers
    <2>1. n \in Nat /\ n > count.response /\ n # k
        BY <1>2 DEF k, ResponseIds
    <2> QED BY <1>7, <2>1 DEF GetInv, FreeNumbers
<1> QED BY <1>8, <1>9, <1>10

\* handleResponse turns a timer of a call into an answer of it.
LEMMA ResponseCounts ==
    ASSUME Inv, GetInv, NEW p \in Peers, NEW h \in Hashes, NEW valid \in BOOLEAN,
           handleResponse(p, h, valid)
    PROVE  GetInv'
<1>1. PICK o \in Owners : o = pending[p][h]
    BY DEF handleResponse, Inv, EntryInv, EntryRefs
<1> DEFINE t == Timer(p, h, o)
<1>2. /\ Receive(p, h, o, TRUE, valid) /\ timers' = timers \ {t} /\ UNCHANGED gets
    BY <1>1 DEF handleResponse, Receive
<1>3. t \in timers /\ t.owner = o
    BY <1>1 DEF handleResponse, Inv, EntryInv, PendingHasTimer, Timer
<1> HIDE DEF t
<1>4. o \in Gets => gets[o] # None
    BY <1>3 DEF GetInv, TimersInv, TimersOfCalls
<1>5. /\ \A g \in Gets : Cardinality(Answering(responses', g))
                    = Cardinality(Answering(responses, g)) + (IF o = g THEN 1 ELSE 0)
      /\ AnswersOfCalls(responses', gets)
      /\ FreeNumbers'
    <2>1. o \in Owners \cup {Late} /\ TRUE \in BOOLEAN
        OBVIOUS
    <2> QED BY <1>2, <1>4, <2>1, AnswerReceived
<1>6. \A g \in Gets : Cardinality(Owned(timers', g))
                    = Cardinality(Owned(timers, g)) - (IF o = g THEN 1 ELSE 0)
    BY <1>2, <1>3, TimerEnds, GetParts
<1>7. TimersInv(timers', gets)
    BY <1>2, <1>3, TimerEnds, GetParts
<1>8. Counts(timers', responses', gets)
    <2> SUFFICES ASSUME NEW g \in Gets, gets[g] # None
                 PROVE  gets[g].left = Cardinality(Owned(timers', g))
                                            + Cardinality(Answering(responses', g))
        BY DEF Counts
    <2>1. gets[g].left = Cardinality(Owned(timers, g)) + Cardinality(Answering(responses, g))
        BY GetParts DEF Counts
    <2>2. Cardinality(Owned(timers, g)) \in Nat /\ Cardinality(Answering(responses, g)) \in Nat
        BY GetParts
    <2> QED BY <1>5, <1>6, <2>1, <2>2
<1> QED BY <1>2, <1>5, <1>7, <1>8 DEF GetInv

\* A late answer is counted for nobody.
LEMMA LateCounts ==
    ASSUME Inv, GetInv, NEW p \in Peers, NEW h \in Hashes, handleLateResponse(p, h)
    PROVE  GetInv'
<1>1. hasRequesters(h) \in BOOLEAN
    BY DEF hasRequesters
<1>2. Late \notin Gets
    BY OwnersAssumption DEF Owners
<1>3. Receive(p, h, Late, hasRequesters(h), TRUE) /\ UNCHANGED <<timers, gets>>
    BY DEF handleLateResponse, Receive
<1>4. /\ \A g \in Gets : Cardinality(Answering(responses', g))
                    = Cardinality(Answering(responses, g)) + (IF Late = g THEN 1 ELSE 0)
      /\ AnswersOfCalls(responses', gets)
      /\ FreeNumbers'
    BY <1>1, <1>2, <1>3, AnswerReceived
<1>5. \A g \in Gets : Cardinality(Answering(responses', g)) = Cardinality(Answering(responses, g))
    BY <1>2, <1>4, GetParts
<1>6. Counts(timers, responses', gets)
    BY <1>5, GetParts DEF Counts
<1> QED BY <1>3, <1>4, <1>6 DEF GetInv

\* Counting one peer off for o, which has one to count.
LEMMA OneCounted ==
    ASSUME Inv, GetInv, NEW o \in Owners \cup {Late}, NEW data \in BOOLEAN,
           o \in Gets => gets[o] # None /\ gets[o].left >= 1,
           NEW G, G = Resolved(o, data), NEW g \in Gets
    PROVE  /\ gets[g] = None => G[g] = None
           /\ gets[g] # None =>
                /\ G[g] \in CallType /\ G[g] # None /\ G[g].hash = gets[g].hash
                /\ G[g].left = gets[g].left - (IF o = g THEN 1 ELSE 0)
<1>1. gets[g] # None => gets[g] \in CallType /\ gets[g].left \in Nat
    BY GetParts DEF CallType
<1>2. CASE o = g
    <2>1. G[g] = Settle(gets[g], 1, data) /\ gets[g] # None /\ gets[g].left - 1 \in Nat
        BY <1>1, <1>2, GetParts DEF Resolved
    <2> QED BY <1>1, <1>2, <2>1, SettledCall
<1>3. CASE o # g
    <2>1. G[g] = gets[g]
        BY <1>3, GetParts DEF Resolved
    <2> QED BY <1>1, <1>3, <2>1
<1> QED BY <1>2, <1>3

\* The calls after one peer was counted off, and the timers and answers that
\* are left, add up again.
LEMMA CountedOff ==
    ASSUME Inv, GetInv, NEW o \in Owners \cup {Late}, NEW T, NEW R, NEW H,
           TimersInv(T, gets), AnswersOfCalls(R, gets),
           \A n \in ResponseIds : R[n] # None => R[n].asked \subseteq Gets,
           H = [g \in Gets |-> H[g]],
           \A g \in Gets :
              /\ gets[g] = None => H[g] = None
              /\ gets[g] # None =>
                    /\ H[g] \in CallType /\ H[g] # None /\ H[g].hash = gets[g].hash
                    /\ H[g].left = gets[g].left - (IF o = g THEN 1 ELSE 0),
           \A g \in Gets : Cardinality(Owned(T, g)) + Cardinality(Answering(R, g))
                = Cardinality(Owned(timers, g)) + Cardinality(Answering(responses, g))
                        - (IF o = g THEN 1 ELSE 0)
    PROVE  /\ H \in [Gets -> CallType \cup {None}]
           /\ TimersInv(T, H) /\ AnswersOfCalls(R, H)
           /\ Counts(T, R, H)
<1>1. \A g \in Gets : H[g] \in CallType \cup {None}
    OBVIOUS
<1>2. H \in [Gets -> CallType \cup {None}]
    BY <1>1
<1>3. TimersInv(T, H) /\ AnswersOfCalls(R, H)
    BY CallsKept
<1>4. Counts(T, R, H)
    <2> SUFFICES ASSUME NEW g \in Gets, H[g] # None
                 PROVE  H[g].left = Cardinality(Owned(T, g)) + Cardinality(Answering(R, g))
        BY DEF Counts
    <2>1. gets[g] # None
        OBVIOUS
    <2>2. gets[g].left = Cardinality(Owned(timers, g)) + Cardinality(Answering(responses, g))
        BY <2>1, GetParts DEF Counts
    <2>3. H[g].left = gets[g].left - (IF o = g THEN 1 ELSE 0)
        BY <2>1
    <2>4. Cardinality(Owned(T, g)) + Cardinality(Answering(R, g))
                = Cardinality(Owned(timers, g)) + Cardinality(Answering(responses, g))
                        - (IF o = g THEN 1 ELSE 0)
        OBVIOUS
    <2>5. Cardinality(Owned(timers, g)) \in Nat /\ Cardinality(Answering(responses, g)) \in Nat
        BY GetParts
    <2> QED BY <2>2, <2>3, <2>4, <2>5
<1> QED BY <1>2, <1>3, <1>4

\* The owner of a timer that is set, or of an answer in progress, has at least
\* that one peer left to count.
LEMMA OwnerCounts ==
    ASSUME Inv, GetInv, NEW o \in Gets, gets[o] # None,
           (\E t \in timers : t.owner = o) \/ (\E n \in ResponseIds : n \in Answering(responses, o))
    PROVE  gets[o].left >= 1
<1> DEFINE a == Cardinality(Owned(timers, o))
           b == Cardinality(Answering(responses, o))
<1>1. gets[o].left = a + b /\ a \in Nat /\ b \in Nat
    BY GetParts DEF Counts
<1>2. ASSUME NEW t \in timers, t.owner = o PROVE a >= 1
    <2>1. Owned(timers, o) # {} /\ IsFiniteSet(Owned(timers, o))
        BY <1>2, OwnedFinite DEF Owned, GetInv, TimersInv
    <2>2. a # 0
        BY <2>1, FS_EmptySet
    <2> QED BY <1>1, <2>2
<1>3. ASSUME NEW n \in Answering(responses, o) PROVE b >= 1
    <2>1. Answering(responses, o) # {} /\ IsFiniteSet(Answering(responses, o))
        BY <1>3, AnsweringFinite
    <2>2. b # 0
        BY <2>1, FS_EmptySet
    <2> QED BY <1>1, <2>2
<1> HIDE DEF a, b
<1> QED BY <1>1, <1>2, <1>3

\* A timer that fires counts its peer off.
LEMMA TimeoutCounts ==
    ASSUME Inv, GetInv, NEW t \in timers, entryTimeout(t)
    PROVE  GetInv'
<1>1. PICK o \in Owners : o = t.owner
    BY DEF Inv, EntryInv, EntryRefs, TimerType
<1>2. /\ timers' = timers \ {t} /\ gets' = Resolved(o, FALSE) /\ UNCHANGED <<responses, count>>
    BY <1>1 DEF entryTimeout
<1>3. o \in Gets => gets[o] # None
    BY <1>1 DEF GetInv, TimersInv, TimersOfCalls
<1>4. o \in Gets => gets[o].left >= 1
    BY <1>1, <1>3, OwnerCounts
<1>5. \A g \in Gets :
              /\ gets[g] = None => gets'[g] = None
              /\ gets[g] # None =>
                    /\ gets'[g] \in CallType /\ gets'[g] # None /\ gets'[g].hash = gets[g].hash
                    /\ gets'[g].left = gets[g].left - (IF o = g THEN 1 ELSE 0)
    <2>1. o \in Owners \cup {Late} /\ FALSE \in BOOLEAN
        OBVIOUS
    <2> QED BY <1>2, <1>3, <1>4, <2>1, OneCounted
<1>6. /\ TimersInv(timers', gets)
      /\ \A g \in Gets : Cardinality(Owned(timers', g))
                    = Cardinality(Owned(timers, g)) - (IF o = g THEN 1 ELSE 0)
    BY <1>1, <1>2, TimerEnds, GetParts
<1>7. \A g \in Gets : Cardinality(Owned(timers', g)) + Cardinality(Answering(responses, g))
                = Cardinality(Owned(timers, g)) + Cardinality(Answering(responses, g))
                        - (IF o = g THEN 1 ELSE 0)
    BY <1>6, GetParts
<1>8. \A n \in ResponseIds : responses[n] # None => responses[n].asked \subseteq Gets
    BY GetParts DEF ResponseType
<1>9. gets' = [g \in Gets |-> gets'[g]]
    BY <1>2, GetParts DEF Resolved
<1>10. AnswersOfCalls(responses, gets) /\ FreeNumbers
    BY DEF GetInv
<1>11. /\ gets' \in [Gets -> CallType \cup {None}]
       /\ TimersInv(timers', gets') /\ AnswersOfCalls(responses, gets')
       /\ Counts(timers', responses, gets')
    BY <1>1, <1>5, <1>6, <1>7, <1>8, <1>9, <1>10, CountedOff
<1> QED BY <1>2, <1>10, <1>11 DEF GetInv, FreeNumbers

\* An answer that is done counts its peer off, whether its data was right or not.
LEMMA FinishCounts ==
    ASSUME Inv, GetInv, NEW n \in ResponseIds, finishResponse(n)
    PROVE  GetInv'
<1> DEFINE r == responses[n]
<1>1. r # None /\ r \in ResponseType /\ responses' = [responses EXCEPT ![n] = None]
    BY GetParts DEF finishResponse
<1>2. PICK o \in Owners \cup {Late}, data \in BOOLEAN : o = r.owner /\ data = r.valid
    BY <1>1 DEF ResponseType
<1>3. PICK G : G = Resolved(o, data)
    OBVIOUS
<1>4. gets' = [g \in Gets |-> IF data /\ g \in r.asked /\ gets[g].result = "waiting"
                              THEN [G[g] EXCEPT !.answered = TRUE] ELSE G[g]]
    BY <1>2, <1>3 DEF finishResponse
<1>5. UNCHANGED <<timers, count>>
    BY DEF finishResponse
<1>6. o \in Gets => gets[o] # None
    BY <1>1, <1>2 DEF GetInv, AnswersOfCalls
<1>7. o \in Gets => gets[o].left >= 1
    <2>1. n \in Answering(responses, o)
        BY <1>1, <1>2 DEF Answering
    <2> QED BY <1>6, <2>1, OwnerCounts
<1>8. \A g \in Gets :
              /\ gets[g] = None => G[g] = None
              /\ gets[g] # None =>
                    /\ G[g] \in CallType /\ G[g] # None /\ G[g].hash = gets[g].hash
                    /\ G[g].left = gets[g].left - (IF o = g THEN 1 ELSE 0)
    BY <1>2, <1>3, <1>6, <1>7, OneCounted
<1>9. \A g \in r.asked : gets[g] # None
    BY <1>1 DEF GetInv, AnswersOfCalls
<1>10. \A g \in Gets :
              /\ gets[g] = None => gets'[g] = None
              /\ gets[g] # None =>
                    /\ gets'[g] \in CallType /\ gets'[g] # None /\ gets'[g].hash = gets[g].hash
                    /\ gets'[g].left = gets[g].left - (IF o = g THEN 1 ELSE 0)
    <2> TAKE g \in Gets
    <2>1. \A c \in CallType : /\ [c EXCEPT !.answered = TRUE] \in CallType
                              /\ [c EXCEPT !.answered = TRUE].hash = c.hash
                              /\ [c EXCEPT !.answered = TRUE].left = c.left
        BY DEF CallType
    <2>2. None \notin CallType
        BY NoneAssumption
    <2>3. CASE gets[g] = None
        BY <1>4, <1>8, <1>9, <2>3
    <2>4. CASE gets[g] # None
        <3>1. gets'[g] = G[g] \/ gets'[g] = [G[g] EXCEPT !.answered = TRUE]
            BY <1>4
        <3>2. G[g] \in CallType /\ G[g] # None /\ G[g].hash = gets[g].hash
                    /\ G[g].left = gets[g].left - (IF o = g THEN 1 ELSE 0)
            BY <1>8, <2>4
        <3> QED BY <2>1, <2>2, <2>4, <3>1, <3>2
    <2> QED BY <2>3, <2>4
<1>11. \A g \in Gets : Cardinality(Answering(responses', g))
                    = Cardinality(Answering(responses, g)) - (IF o = g THEN 1 ELSE 0)
    <2> TAKE g \in Gets
    <2>1. Cardinality(Answering([responses EXCEPT ![n] = None], g))
                = Cardinality(Answering(responses, g)) - (IF responses[n].owner = g THEN 1 ELSE 0)
        BY <1>1, GetParts, AnswerEnds
    <2> QED BY <1>1, <1>2, <2>1
<1>12. \A g \in Gets : Cardinality(Owned(timers, g)) + Cardinality(Answering(responses', g))
                = Cardinality(Owned(timers, g)) + Cardinality(Answering(responses, g))
                        - (IF o = g THEN 1 ELSE 0)
    BY <1>11, GetParts
<1>13. \A k \in ResponseIds : responses'[k] # None => responses'[k] = responses[k]
    BY <1>1, GetParts
<1>14. \A k \in ResponseIds : responses'[k] # None => responses'[k].asked \subseteq Gets
    BY <1>13, GetParts DEF ResponseType
<1>15. AnswersOfCalls(responses', gets) /\ FreeNumbers'
    BY <1>5, <1>13 DEF GetInv, AnswersOfCalls, FreeNumbers
<1>16. gets' = [g \in Gets |-> gets'[g]]
    BY <1>4
<1>17. TimersInv(timers, gets)
    BY DEF GetInv
<1> HIDE DEF r
<1>18. /\ gets' \in [Gets -> CallType \cup {None}]
       /\ TimersInv(timers, gets') /\ AnswersOfCalls(responses', gets')
       /\ Counts(timers, responses', gets')
    BY <1>2, <1>10, <1>12, <1>14, <1>15, <1>16, <1>17, CountedOff
<1> QED BY <1>5, <1>15, <1>18 DEF GetInv

\* A step that sets no timer, starts or ends no answer and counts nobody.
LEMMA CountsUnchanged ==
    ASSUME GetInv, UNCHANGED <<gets, timers, responses>>, count'.response = count.response
    PROVE  GetInv'
BY DEF GetInv, FreeNumbers

\* Every step keeps the count of every call.
LEMMA NextGets == Inv /\ GetInv /\ [Next]_vars => GetInv'
<1> SUFFICES ASSUME Inv, GetInv, [Next]_vars PROVE GetInv'
    OBVIOUS
<1>1. ASSUME NEW p \in Peers, connect(p) PROVE GetInv'
    BY <1>1, CountsUnchanged DEF connect
<1>2. ASSUME NEW p \in Peers, closePeer(p) PROVE GetInv'
    BY <1>2, CloseCounts DEF closePeer
<1>3. CASE stop
    <2>1. open \in SUBSET Peers
        BY DEF Inv, EntryInv, EntryRefs
    <2> QED BY <1>3, <2>1, CloseCounts DEF stop
<1>4. ASSUME NEW p \in Peers, onPeerClosed(p) PROVE GetInv'
    BY <1>4, OrphanCounts, CountsUnchanged DEF onPeerClosed
<1>5. ASSUME NEW p \in Peers, NEW h \in Hashes, NEW f \in BOOLEAN, handleRequest(p, h, f)
      PROVE  GetInv'
    <2>1. count'.response = count.response
        BY <1>5 DEF handleRequest, Inv, HandlerInv, CountType
    <2> QED BY <1>5, <2>1, CountsUnchanged DEF handleRequest
<1>6. ASSUME NEW n \in RequestIds, processRequest(n) PROVE GetInv'
    <2>1. UNCHANGED <<gets, responses, count>>
        BY <1>6 DEF processRequest
    <2>2. CASE UNCHANGED <<pending, timers>>
        BY <2>1, <2>2, CountsUnchanged
    <2>3. CASE forwardRequest(n, requests[n].hash, open \ {requests[n].peer})
        <3>1. open \ {requests[n].peer} \in SUBSET Peers
            BY DEF Inv, EntryInv, EntryRefs
        <3> QED BY <2>1, <2>3, <3>1, ForwardCounts
    <2> QED BY <1>6, <2>2, <2>3 DEF processRequest, getForwardTargets
<1>7. ASSUME NEW h \in Hashes, forwardTimeout(h) PROVE GetInv'
    BY <1>7, CountsUnchanged DEF forwardTimeout
<1>8. ASSUME NEW p \in Peers, NEW h \in Hashes, NEW valid \in BOOLEAN,
             handleResponse(p, h, valid)
      PROVE  GetInv'
    BY <1>8, ResponseCounts
<1>9. ASSUME NEW p \in Peers, NEW h \in Hashes, handleLateResponse(p, h) PROVE GetInv'
    BY <1>9, LateCounts
<1>10. ASSUME NEW p \in Peers, NEW h \in Hashes, forgetRequest(p, h) PROVE GetInv'
    BY <1>10, CountsUnchanged DEF forgetRequest
<1>11. ASSUME NEW n \in ResponseIds, finishResponse(n) PROVE GetInv'
    BY <1>11, FinishCounts
<1>12. ASSUME NEW g \in Gets, NEW h \in Hashes, get(g, h) PROVE GetInv'
    BY <1>12, GetCounts
<1>13. ASSUME NEW t \in timers, entryTimeout(t) PROVE GetInv'
    BY <1>13, TimeoutCounts
<1>14. CASE UNCHANGED vars
    BY <1>14, CountsUnchanged DEF vars
<1> QED BY <1>1, <1>2, <1>3, <1>4, <1>5, <1>6, <1>7, <1>8, <1>9, <1>10, <1>11, <1>12,
          <1>13, <1>14 DEF Next

\* No call was made and nothing is set at the start.
LEMMA InitGets == Init => GetInv
BY FS_EmptySet
   DEF Init, GetInv, TimersInv, OneTimerEach, TimersOfCalls, AnswersOfCalls, FreeNumbers, Counts

\* get() counts every peer it asked exactly once: whatever replaces, answers,
\* orphans or closes its entries, in any order and for any number of peers,
\* calls and messages, the peers still to be counted are exactly the ones a
\* timer or an answer being stored will count.  So its promise is never
\* resolved with null too early, and never left unresolved once they are done.
THEOREM EveryPeerIsCounted == Spec => []GetCountsEveryPeer
<1>1. GetInv => GetCountsEveryPeer
    BY DEF GetInv, Counts, GetCountsEveryPeer, Outstanding, Owned, Answering
<1> QED BY <1>1, InitInv, NextInv, InitGets, NextGets, PTL DEF Spec

\* The controller's state keeps its type; that what a call has left to count
\* never falls below zero is the part that rests on the count.
THEOREM ControllerTypeCorrect == Spec => []TypeOK
<1>1. Inv /\ WaitInv /\ GetInv => TypeOK
    BY DEF Inv, EntryInv, EntryRefs, HandlerInv, RequestRefs, ResponseRefs, CountType,
           WaitInv, WaitTypes, GetInv, TypeOK
<1> QED BY <1>1, InitInv, NextInv, MachineKnown, InitWaits, NextWaits, InitGets, NextGets,
           PTL DEF Spec
===============================================================================

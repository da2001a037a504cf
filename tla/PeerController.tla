---------------------------- MODULE PeerController ----------------------------
(***************************************************************************)
(* The data protocol of the worker's WebRTC controller                     *)
(* (ts/packages/hashtree-worker/src/p2p/webrtcController.ts) composed with *)
(* its forwarding machine.  Peers ask for hashes and send data; the        *)
(* controller answers from the local store, forwards, pushes an answer to  *)
(* everybody who waits for it, and asks peers on its own behalf in get().  *)
(* The worker has one thread, but handlers give it up at every await: a    *)
(* request waits for localStore.get, a response for verifyHash and         *)
(* localStore.put, and connections close and reopen in between.            *)
(*                                                                         *)
(* A peer is open when the peers map holds it with dataChannelReady; the   *)
(* WorkerPeer object of a connection that is gone lives on in the handlers *)
(* and timers that captured it, which are marked orphan.  Time is left to  *)
(* the scheduler: a timer may fire at any point after it is set, and the   *)
(* behaviours described lie within one window of the rate limiter.         *)
(***************************************************************************)
EXTENDS Naturals, Sequences, FiniteSets

CONSTANTS
    Peers,          \* peer ids
    Hashes,         \* hash keys
    Gets,           \* calls of get()
    None,           \* absent
    Late,           \* the owner of a response no entry waits for
    NotInFlight,    \* no forward in flight
    MaxForwards,    \* maxForwardsPerPeerWindow
    MaxRequests,    \* bound: requests received
    MaxResponses,   \* bound: responses received
    MaxCloses       \* bound: connections that end

ASSUME PeersAssumption == IsFiniteSet(Peers)
ASSUME CountsAssumption == {MaxRequests, MaxResponses, MaxCloses, MaxForwards} \subseteq Nat
ASSUME NotInFlightAssumption == \A requesters \in SUBSET Peers : requesters # NotInFlight

VARIABLES
    inFlightByHash, hashesByRequester, timeouts, eventsByPeer, forwards, now,
    open,       \* the peers that are connected
    closing,    \* peers whose rtc:peerClosed event is on its way
    store,      \* hashes in localStore
    pending,    \* pendingRequests: who waits for an answer of the peer
    timers,     \* the timeouts of the entries of pendingRequests
    their,      \* theirRequests: the hashes each peer is to be sent
    recent,     \* recentRequests: hashes get() asked for
    gets,       \* the calls of get()
    requests,   \* requests waiting for localStore.get
    responses,  \* responses waiting for verifyHash and localStore.put
    waits,      \* <<p, h>>: p was told nothing and waits for a forward of h
    unmarked,   \* the waits whose marker a later request without targets deleted
    count       \* how many requests, responses and closes there were

machine == <<inFlightByHash, hashesByRequester, timeouts, eventsByPeer, forwards, now>>
\* What nobody but this module keeps: who waits, and for whom nothing is marked.
waitVars == <<waits, unmarked>>
vars == <<inFlightByHash, hashesByRequester, timeouts, eventsByPeer, forwards, now, open,
          closing, store, pending, timers, their, recent, gets, requests, responses, waits,
          unmarked, count>>

Fwd == INSTANCE QueryForwarding WITH Window <- 1, MaxTime <- 0

RequestIds == 1 .. MaxRequests
ResponseIds == 1 .. MaxResponses
\* An entry of pendingRequests belongs to a get() or to the request it forwards.
Owners == Gets \cup RequestIds

ASSUME OwnersAssumption == None \notin Owners /\ Late \notin Owners /\ Gets \cap RequestIds = {}

\* What the maps hold: the timeout of an entry, a call of get() and the handlers
\* in progress.
TimerType == [peer : Peers, hash : Hashes, owner : Owners, orphan : BOOLEAN]
CallType == [hash : Hashes, left : Nat, result : {"waiting", "data", "null"}, answered : BOOLEAN]
RequestType == [peer : Peers, hash : Hashes, forwardable : BOOLEAN, found : BOOLEAN,
                orphan : BOOLEAN]
ResponseType == [peer : Peers, hash : Hashes, owner : Owners \cup {Late}, push : BOOLEAN,
                 valid : BOOLEAN, requested : BOOLEAN, asked : SUBSET Gets]

ASSUME NoneAssumption == None \notin CallType \cup RequestType \cup ResponseType

Timer(p, h, o) == [peer |-> p, hash |-> h, owner |-> o, orphan |-> FALSE]

Init ==
    /\ Fwd!Init
    /\ open = {} /\ closing = {} /\ store = {} /\ recent = {}
    /\ pending = [p \in Peers |-> [h \in Hashes |-> None]]
    /\ timers = {}
    /\ their = [p \in Peers |-> {}]
    /\ gets = [g \in Gets |-> None]
    /\ requests = [n \in RequestIds |-> None]
    /\ responses = [n \in ResponseIds |-> None]
    /\ waits = {} /\ unmarked = {}
    /\ count = [request |-> 0, response |-> 0, close |-> 0]

-----------------------------------------------------------------------------
\* Mutant: a peer is counted twice.
Settle_Twice(call, done, data) ==
    [hash |-> call.hash, left |-> call.left - 2 * done, answered |-> call.answered,
     result |-> IF call.result # "waiting" THEN call.result ELSE IF data THEN "data"
                ELSE IF call.left = 2 * done THEN "null" ELSE "waiting"]

\* The promise of get(): the first data resolves it, and null does when the
\* last peer is done (checkDone).
Settle(call, done, data) ==
    [hash |-> call.hash, left |-> call.left - done, answered |-> call.answered,
     result |-> IF call.result # "waiting" THEN call.result
                ELSE IF data THEN "data" ELSE IF call.left = done THEN "null" ELSE "waiting"]

\* pending.resolve(data) of an entry, or checkDone() of its timer; the entry of
\* a forwarded request resolves to nothing.
Resolved(o, data) ==
    IF o \in Gets THEN [gets EXCEPT ![o] = Settle(@, 1, data)] ELSE gets

\* createPeer and, in time, onDataChannelOpen: an object with empty maps.
connect(p) ==
    /\ p \notin open
    /\ open' = open \cup {p}
    /\ UNCHANGED <<machine, closing, store, pending, timers, their, recent, gets,
                   requests, responses, waitVars, count>>

\* The objects of the connections S are let go of: handlers and timers keep
\* theirs, everything else is gone with them.  The timer of a forward has
\* nothing left to do once its object is an orphan.
Orphan(S, live) ==
    /\ open' = open \ S
    /\ pending' = [p \in Peers |-> IF p \in S THEN [h \in Hashes |-> None] ELSE pending[p]]
    /\ timers' = {[t EXCEPT !.orphan = @ \/ t.peer \in S] :
                    t \in {u \in live : u.peer \in S => u.owner \in Gets}}
    /\ their' = [p \in Peers |-> IF p \in S THEN {} ELSE their[p]]
    /\ requests' = [n \in RequestIds |->
            IF requests[n] # None /\ requests[n].peer \in S
            THEN [requests[n] EXCEPT !.orphan = TRUE] ELSE requests[n]]
    /\ waits' = {w \in waits : w[1] \notin S}
    /\ unmarked' = {w \in unmarked : w[1] \notin S}

\* Mutant: the timeouts are cleared and nothing is resolved.
Close_Silent(S) ==
    LET current == {Timer(p, h, pending[p][h]) : p \in S, h \in Hashes}
    IN  /\ Orphan(S, timers \ current)
        /\ count.close < MaxCloses
        /\ count' = [count EXCEPT !.close = @ + 1]
        /\ UNCHANGED gets

\* closePeer for every peer of S, the forwarding machine aside: the entries
\* still in pendingRequests resolve to null and their timeouts are cleared.
Close(S) ==
    LET held(g) == {p \in S : pending[p][gets[g].hash] = g}
        current == {Timer(p, h, pending[p][h]) : p \in S, h \in Hashes}
    IN  /\ gets' = [g \in Gets |->
                        IF gets[g] # None /\ held(g) # {}
                        THEN Settle(gets[g], Cardinality(held(g)), FALSE) ELSE gets[g]]
        /\ Orphan(S, timers \ current)
        /\ count.close < MaxCloses
        /\ count' = [count EXCEPT !.close = @ + 1]

\* The proxy answers rtc:closePeer with rtc:peerClosed, unless it has dropped
\* the connection itself.
closePeer(p) ==
    /\ p \in open
    /\ Close({p})
    /\ Fwd!Disconnect(p)
    /\ closing' \in {closing, closing \cup {p}}
    /\ UNCHANGED <<store, recent, responses>>

stop ==
    /\ Close(open)
    /\ Fwd!Stop
    /\ closing' = closing \cup open
    /\ UNCHANGED <<store, recent, responses>>

\* onPeerClosed takes the peer out of the map, whichever connection it is.
onPeerClosed(p) ==
    /\ p \in closing
    /\ closing' = closing \ {p}
    /\ IF p \in open THEN Orphan({p}, timers)
       ELSE UNCHANGED <<open, pending, timers, their, requests, waitVars>>
    /\ UNCHANGED <<machine, store, recent, gets, responses, count>>

-----------------------------------------------------------------------------
\* handleRequest up to the await of localStore.get.
handleRequest(p, h, forwardable) ==
    /\ p \in open /\ count.request < MaxRequests
    /\ count' = [count EXCEPT !.request = @ + 1]
    /\ requests' = [requests EXCEPT ![count.request + 1] =
            [peer |-> p, hash |-> h, forwardable |-> forwardable,
             found |-> h \in store, orphan |-> FALSE]]
    /\ UNCHANGED <<machine, open, closing, store, pending, timers, their, recent,
                   gets, responses, waitVars>>

\* forwardRequest: an entry and a timer for every target.  An entry that is
\* already there is replaced; its timer is not cleared.
forwardRequest(n, h, targets) ==
    /\ pending' = [p \in Peers |-> IF p \in targets THEN [pending[p] EXCEPT ![h] = n]
                                                    ELSE pending[p]]
    /\ timers' = timers \cup {Timer(p, h, n) : p \in targets}

getForwardTargets(p) == open \ {p}

\* Mutant: a suppressed requester loses its marker.
KeepsMarker_ForwardOnly(decision) == decision = "forward"
\* The marker goes when the request is rate limited or has no targets.
KeepsMarker(decision) == decision \in {"forward", "suppressed"}

\* A requester that is told nothing waits.  One that waits already goes on
\* waiting when its next request has no targets, but without its marker.
Wait(w, decision) ==
    \/ /\ decision \in {"forward", "suppressed"}
       /\ waits' = waits \cup {w}
       /\ unmarked' = unmarked \ {w}
    \/ /\ decision \in {"no_targets", "rate_limited"}
       /\ unmarked' = unmarked \cup ({w} \cap waits)
       /\ UNCHANGED waits

\* processRequest after the await: what the store said may be out of date.
\* The marker is set on the object of the connection the request came on.
\* forwardRequest reaches every target, so nothing is cancelled.
processRequest(n) ==
    LET r == requests[n]
        p == r.peer
        h == r.hash
        Mark(keep) == their' = IF r.orphan THEN their
                               ELSE [their EXCEPT ![p] = IF keep THEN @ \cup {h} ELSE @ \ {h}]
        decision == Fwd!Decision(h, p, getForwardTargets(p))
    IN  /\ r # None
        /\ requests' = [requests EXCEPT ![n] = None]
        /\ \/ /\ r.found \/ h \in store
              /\ UNCHANGED <<machine, their, waitVars, pending, timers>>
           \/ /\ ~r.found /\ ~r.forwardable
              /\ Mark(TRUE)
              /\ unmarked' = IF r.orphan THEN unmarked ELSE unmarked \ {<<p, h>>}
              /\ UNCHANGED <<machine, waits, pending, timers>>
           \/ /\ ~r.found /\ r.forwardable
              /\ Fwd!Request(h, p, getForwardTargets(p))
              /\ Mark(KeepsMarker(decision))
              /\ IF r.orphan THEN UNCHANGED waitVars ELSE Wait(<<p, h>>, decision)
              /\ IF decision = "forward" THEN forwardRequest(n, h, getForwardTargets(p))
                 ELSE UNCHANGED <<pending, timers>>
        /\ UNCHANGED <<open, closing, store, recent, gets, responses, count>>

\* The forwarding machine's timer, with onForwardTimeout: the markers of the
\* requesters are cleared (clearRequesterMarkers).
forwardTimeout(h) ==
    /\ Fwd!handleForwardTimeout(h)
    /\ their' = [p \in Peers |-> IF p \in inFlightByHash[h] THEN their[p] \ {h} ELSE their[p]]
    /\ waits' = {w \in waits : w[2] # h \/ w[1] \notin inFlightByHash[h]}
    /\ unmarked' = {w \in unmarked : w[2] # h \/ w[1] \notin inFlightByHash[h]}
    /\ UNCHANGED <<open, closing, store, pending, timers, recent, gets, requests,
                   responses, count>>

-----------------------------------------------------------------------------
hasRequesters(h) == \E p \in open : h \in their[p]

\* handleResponse up to its awaits: the entry it answers and its timer go.
\* With no entry it is a late response, of use when somebody asked for it
\* lately; requests older than a minute are forgotten.  Late data that does not
\* match its hash changes nothing.
\* asked: the calls of get() that asked this peer and have not given it up.
Receive(p, h, owner, push, valid) ==
    /\ p \in open /\ count.response < MaxResponses
    /\ count' = [count EXCEPT !.response = @ + 1]
    /\ responses' = [responses EXCEPT ![count.response + 1] =
            [peer |-> p, hash |-> h, owner |-> owner, push |-> push, valid |-> valid,
             requested |-> owner = Late /\ h \in recent,
             asked |-> {g \in Gets : Timer(p, h, g) \in timers}]]
    /\ UNCHANGED <<machine, open, closing, store, their, gets, requests, waitVars>>

\* Mutants: the timeout is not cleared; the entry is not deleted.
handleResponse_KeepsTimer(p, h, valid) ==
    /\ pending[p][h] # None
    /\ Receive(p, h, pending[p][h], TRUE, valid)
    /\ pending' = [pending EXCEPT ![p][h] = None]
    /\ UNCHANGED <<timers, recent>>
handleResponse_KeepsEntry(p, h, valid) ==
    /\ pending[p][h] # None
    /\ Receive(p, h, pending[p][h], TRUE, valid)
    /\ timers' = timers \ {Timer(p, h, pending[p][h])}
    /\ UNCHANGED <<pending, recent>>

handleResponse(p, h, valid) ==
    /\ pending[p][h] # None
    /\ Receive(p, h, pending[p][h], TRUE, valid)
    /\ pending' = [pending EXCEPT ![p][h] = None]
    /\ timers' = timers \ {Timer(p, h, pending[p][h])}
    /\ UNCHANGED recent

handleLateResponse(p, h) ==
    /\ pending[p][h] = None
    /\ \/ /\ h \in recent \/ hasRequesters(h)
          /\ UNCHANGED recent
       \/ /\ h \in recent /\ hasRequesters(h)
          /\ recent' = recent \ {h}
    /\ Receive(p, h, Late, hasRequesters(h), TRUE)
    /\ UNCHANGED <<pending, timers>>

forgetRequest(p, h) ==
    /\ p \in open /\ pending[p][h] = None /\ h \in recent /\ ~hasRequesters(h)
    /\ recent' = recent \ {h}
    /\ UNCHANGED <<machine, open, closing, store, pending, timers, their, gets,
                   requests, responses, waitVars, count>>

\* pushToRequesters and resolveForward; the peer that answered is left out.
PushToRequesters(h, responder) ==
    /\ their' = [p \in Peers |-> IF p \in open \ {responder} THEN their[p] \ {h} ELSE their[p]]
    /\ waits' = {w \in waits : w[2] # h}
    /\ unmarked' = {w \in unmarked : w[2] # h}
    /\ IF Fwd!isInFlight(h) THEN Fwd!Answer(h) ELSE UNCHANGED machine

\* handleResponse after its awaits, the data stored or found wrong.  What comes
\* after localStore.put runs without another task in between.
finishResponse(n) ==
    LET r == responses[n] IN
    /\ r # None
    /\ responses' = [responses EXCEPT ![n] = None]
    /\ gets' = [g \in Gets |->
                    IF r.valid /\ g \in r.asked /\ gets[g].result = "waiting"
                    THEN [Resolved(r.owner, r.valid)[g] EXCEPT !.answered = TRUE]
                    ELSE Resolved(r.owner, r.valid)[g]]
    /\ IF r.valid THEN store' = store \cup {r.hash} ELSE UNCHANGED store
    /\ IF r.valid /\ r.push THEN PushToRequesters(r.hash, r.peer)
       ELSE UNCHANGED <<machine, their, waitVars>>
    /\ IF r.valid /\ r.requested THEN recent' = recent \ {r.hash} ELSE UNCHANGED recent
    /\ UNCHANGED <<open, closing, pending, timers, requests, count>>

-----------------------------------------------------------------------------
\* get(): every open peer is asked; entries that are there are replaced.
get(g, h) ==
    /\ gets[g] = None /\ open # {}
    /\ gets' = [gets EXCEPT ![g] = [hash |-> h, left |-> Cardinality(open),
                                    result |-> "waiting", answered |-> FALSE]]
    /\ recent' = recent \cup {h}
    /\ forwardRequest(g, h, open)
    /\ UNCHANGED <<machine, open, closing, store, their, requests, responses, waitVars, count>>

\* The timeout of an entry deletes whatever entry the hash has by then.
entryTimeout(t) ==
    /\ t \in timers
    /\ timers' = timers \ {t}
    /\ pending' = IF t.orphan THEN pending ELSE [pending EXCEPT ![t.peer][t.hash] = None]
    /\ gets' = Resolved(t.owner, FALSE)
    /\ UNCHANGED <<machine, open, closing, store, their, recent, requests, responses,
                   waitVars, count>>

Next ==
    \/ \E p \in Peers : connect(p)
    \/ \E p \in Peers : closePeer(p)
    \/ stop
    \/ \E p \in Peers : onPeerClosed(p)
    \/ \E p \in Peers, h \in Hashes, forwardable \in BOOLEAN : handleRequest(p, h, forwardable)
    \/ \E n \in RequestIds : processRequest(n)
    \/ \E h \in Hashes : forwardTimeout(h)
    \/ \E p \in Peers, h \in Hashes, valid \in BOOLEAN : handleResponse(p, h, valid)
    \/ \E p \in Peers, h \in Hashes : handleLateResponse(p, h)
    \/ \E p \in Peers, h \in Hashes : forgetRequest(p, h)
    \/ \E n \in ResponseIds : finishResponse(n)
    \/ \E g \in Gets, h \in Hashes : get(g, h)
    \/ \E t \in timers : entryTimeout(t)

Spec == Init /\ [][Next]_vars

\* Timers fire and the store answers.
FairSpec ==
    /\ Spec
    /\ WF_vars(\E t \in timers : entryTimeout(t))
    /\ \A n \in ResponseIds : WF_vars(finishResponse(n))

-----------------------------------------------------------------------------
Outstanding(g) ==
    Cardinality({t \in timers : t.owner = g}) +
    Cardinality({n \in ResponseIds : responses[n] # None /\ responses[n].owner = g})

TypeOK ==
    /\ open \in SUBSET Peers /\ closing \in SUBSET Peers
    /\ store \in SUBSET Hashes /\ recent \in SUBSET Hashes
    /\ pending \in [Peers -> [Hashes -> Owners \cup {None}]]
    /\ timers \in SUBSET TimerType
    /\ their \in [Peers -> SUBSET Hashes]
    /\ gets \in [Gets -> CallType \cup {None}]
    /\ requests \in [RequestIds -> RequestType \cup {None}]
    /\ responses \in [ResponseIds -> ResponseType \cup {None}]
    /\ waits \in SUBSET (Peers \X Hashes) /\ unmarked \in SUBSET waits
    /\ count \in [request : Nat, response : Nat, close : Nat]

\* get() counts every peer it asked exactly once: what is left to count is what
\* a timer, an answer being stored or a close will still count, however often
\* its entries were replaced, orphaned or deleted by another entry's timer.
GetCountsEveryPeer ==
    \A g \in Gets : gets[g] # None => gets[g].left = Outstanding(g)

\* An entry of pendingRequests always has its timeout running, so no entry
\* outlives the peer's chance to answer.
PendingHasTimer ==
    \A p \in Peers, h \in Hashes :
        pending[p][h] # None => Timer(p, h, pending[p][h]) \in timers

\* A peer whose request was forwarded or suppressed, and that nobody has served
\* or let go since, is one the forward's timeout will let go, and one the answer
\* will find by its marker - unless a request it made meanwhile found no targets
\* and took the marker away: then "Response will be pushed to original requester
\* via pushToRequesters" does not hold, and this is the only way to lose it.
WaitIsTracked ==
    \A w \in waits : /\ w[1] \in Fwd!Requesters(w[2])
                     /\ w[2] \in their[w[1]] \/ w \in unmarked

\* Every get() comes to an end.
GetEnds == \A g \in Gets : (gets[g] # None /\ gets[g].result = "waiting")
                                ~> (gets[g] # None /\ gets[g].result # "waiting")

\* "Send request to all peers, first response wins": when an answer of a peer
\* that get() asked and has not given up is stored, get() returns it.
FirstResponseWins ==
    \A g \in Gets : gets[g] # None /\ gets[g].answered => gets[g].result = "data"
=============================================================================

---------------------------- MODULE PeerLifecycle ----------------------------
(***************************************************************************)
(* How nodes connect: the signaling half of the worker's WebRTC controller *)
(* (hashtree-worker/src/p2p/webrtcController.ts), which decides, composed  *)
(* with the proxy on the main thread (webrtcProxy.ts), which owns the      *)
(* RTCPeerConnections, and with the nodes at the other end.  Commands go   *)
(* to the proxy and events come back over two message channels, so each    *)
(* side acts on an older state of the other; both name a connection by its *)
(* peer id alone, also when it is not the first with that peer.  Hello,    *)
(* offer and answer travel over relays, in any order, and may be lost.     *)
(*                                                                         *)
(* A node is the number its UUID sorts by.  A session description is the   *)
(* number of the connection that made it.  Of the ICE candidates only the  *)
(* failure of a queued one is modelled: it is reported as a failure of the *)
(* description.  An operation of an RTCPeerConnection ends when its        *)
(* command is handled: the operations of one connection are chained, and a *)
(* closed one never completes them.                                        *)
(***************************************************************************)
EXTENDS Naturals, Sequences, FiniteSets

CONSTANTS
    Nodes,          \* peer ids, numbers that sort as the UUIDs do
    Pubkey,         \* the account of each node
    Follows,        \* the accounts each node follows
    MaxPool,        \* maxConnections of each node's pools at the start
    Configs,        \* the limits setPoolConfig may give each node's pools
    None,           \* absent
    MaxConnections, \* bound: connections each node makes
    MaxFaults       \* bound: signals lost, connections broken, candidates refused

ASSUME NodesAssumption == Nodes \subseteq Nat /\ IsFiniteSet(Nodes)

PoolNames == {"follows", "other"}

ASSUME PoolAssumption ==
    /\ MaxPool \in [Nodes -> [PoolNames -> Nat]]
    /\ Configs \in [Nodes -> SUBSET [PoolNames -> Nat]]
ASSUME BoundsAssumption == MaxConnections \in [Nodes -> Nat] /\ MaxFaults \in Nat

VARIABLES
    peers,          \* controller: what it knows of each other node
    commands,       \* worker -> main thread
    connections,    \* proxy: the RTCPeerConnection for each peer id
    events,         \* main thread -> worker
    made,           \* connections each node has made
    signals,        \* offers and answers on their way
    limits,         \* controller: maxConnections of each pool
    faults,
    spoiled         \* history: connections whose queued candidate was refused

restVars == <<limits, faults, spoiled>>
vars == <<peers, commands, connections, events, made, signals, restVars>>

Ids == Nat \ {0}

\* WorkerPeer.  id is the connection the controller asked for.
Peer == [direction : {"inbound", "outbound"}, state : {"connecting", "connected"},
         dataChannelReady : BOOLEAN, answerCreated : BOOLEAN, id : Ids]

\* PeerConnection of the proxy: the descriptions that are set, whether it is
\* up, and its data channel.
Connection == [id : Ids, local : {"none", "offer", "answer"}, remote : Ids \cup {None},
               channel : {"connecting", "open", "closed"}]

ASSUME NoneAssumption == None \notin Nat /\ None \notin Peer \cup Connection

Command == [type : {"createPeer", "closePeer", "createOffer", "createAnswer", "setLocalOffer",
                    "setLocalAnswer", "setRemoteOffer", "setRemoteAnswer"},
            peer : Nodes, id : Ids]
Event == [type : {"peerCreated", "peerClosed", "connected", "failed", "offerCreated", "answerCreated",
                  "descriptionSet", "descriptionError", "dataChannelOpen", "dataChannelClose"},
          peer : Nodes, id : Ids]
Signal == [type : {"offer", "answer"}, from : Nodes, to : Nodes, id : Ids]

Init ==
    /\ peers = [n \in Nodes |-> [m \in Nodes |-> None]]
    /\ commands = [n \in Nodes |-> <<>>]
    /\ connections = [n \in Nodes |-> [m \in Nodes |-> None]]
    /\ events = [n \in Nodes |-> <<>>]
    /\ made = [n \in Nodes |-> 0]
    /\ signals = {}
    /\ limits = MaxPool
    /\ faults = 0
    /\ spoiled = {}

-----------------------------------------------------------------------------
(* The controller: signaling *)

classifyPeer(n, m) == IF Pubkey[m] \in Follows[n] THEN "follows" ELSE "other"
Pool(n, pool) == {m \in Nodes : peers[n][m] # None /\ classifyPeer(n, m) = pool}

\* Mutant: a full pool takes one more.
shouldConnect_Full(n, m) == Cardinality(Pool(n, classifyPeer(n, m))) <= limits[n][classifyPeer(n, m)]

shouldConnect(n, m) == Cardinality(Pool(n, classifyPeer(n, m))) < limits[n][classifyPeer(n, m)]

hasOtherPoolPubkey(n, m) == \E k \in Pool(n, "other") : Pubkey[k] = Pubkey[m]

\* Mutant: one account may fill the pool with its devices.
MayConnect_AnyPubkey(n, m) ==
    /\ peers[n][m] = None
    /\ shouldConnect(n, m)

\* The checks handleHello and handleOffer make before they create a peer.
MayConnect(n, m) ==
    /\ peers[n][m] = None
    /\ shouldConnect(n, m)
    /\ classifyPeer(n, m) = "other" => ~hasOtherPoolPubkey(n, m)

\* createPeer, and the commands that follow it in the same handler.
createPeer(n, m, direction, follow) ==
    LET id == made[n] + 1
    IN /\ made[n] < MaxConnections[n]
       /\ made' = [made EXCEPT ![n] = id]
       /\ peers' = [peers EXCEPT ![n][m] = [direction |-> direction, state |-> "connecting",
                        dataChannelReady |-> FALSE, answerCreated |-> FALSE, id |-> id]]
       /\ commands' = [commands EXCEPT ![n] =
                        @ \o <<[type |-> "createPeer", peer |-> m, id |-> id]>> \o follow]

\* handleHello.  Every node says hello to everybody every five seconds
\* (sendHello), so one may arrive at any time.  The node with the lower UUID
\* initiates; everybody else waits for an offer.
handleHello(n, m) ==
    /\ n # m
    /\ MayConnect(n, m)
    /\ n < m
    /\ createPeer(n, m, "outbound", <<>>)
    /\ UNCHANGED <<connections, events, signals, restVars>>

\* setPoolConfig: the user's settings.  No peer is closed; the hello it sends
\* may arrive at any time as it is.
setPoolConfig(n) ==
    /\ \E config \in Configs[n] : limits' = [limits EXCEPT ![n] = config]
    /\ UNCHANGED <<peers, commands, connections, events, made, signals, faults, spoiled>>

handleOffer(n, offer) ==
    LET m == offer.from
        set == [type |-> "setRemoteOffer", peer |-> m, id |-> offer.id]
    IN /\ offer.type = "offer" /\ offer.to = n
       /\ signals' = signals \ {offer}
       /\ \/ /\ peers[n][m] # None
             /\ commands' = [commands EXCEPT ![n] = Append(@, set)]
             /\ UNCHANGED <<peers, made>>
          \/ MayConnect(n, m) /\ createPeer(n, m, "inbound", <<set>>)
          \/ /\ peers[n][m] = None /\ ~MayConnect(n, m)
             /\ UNCHANGED <<peers, commands, made>>
       /\ UNCHANGED <<connections, events, restVars>>

handleAnswer(n, answer) ==
    LET m == answer.from
    IN /\ answer.type = "answer" /\ answer.to = n
       /\ signals' = signals \ {answer}
       /\ commands' = IF peers[n][m] = None THEN commands
                      ELSE [commands EXCEPT ![n] =
                             Append(@, [type |-> "setRemoteAnswer", peer |-> m, id |-> answer.id])]
       /\ UNCHANGED <<peers, connections, events, made, restVars>>

-----------------------------------------------------------------------------
(* The controller: events of the proxy *)

\* Handle the next event of the proxy, which is e.
Takes(n, e) ==
    /\ events[n] # <<>> /\ e = Head(events[n])
    /\ events' = [events EXCEPT ![n] = Tail(@)]
    /\ UNCHANGED <<connections, made, restVars>>

\* Send a command about the peer of an event; id is the description it carries.
Commands(n, e, type) ==
    commands' = [commands EXCEPT ![n] = Append(@, [type |-> type, peer |-> e.peer, id |-> e.id])]

\* closePeer: forget the peer and tell the proxy.
closePeer(n, e) ==
    /\ peers' = [peers EXCEPT ![n][e.peer] = None]
    /\ Commands(n, e, "closePeer")
    /\ UNCHANGED signals

\* An event for a peer the controller does not have, and a description error,
\* change nothing.
ignored(n, e) ==
    /\ peers[n][e.peer] = None \/ e.type = "descriptionError"
    /\ e.type # "peerClosed"
    /\ Takes(n, e)
    /\ UNCHANGED <<peers, commands, signals>>

onPeerCreated(n, e) ==
    /\ e.type = "peerCreated" /\ peers[n][e.peer] # None
    /\ Takes(n, e)
    /\ IF peers[n][e.peer].direction = "outbound" THEN Commands(n, e, "createOffer") ELSE UNCHANGED commands
    /\ UNCHANGED <<peers, signals>>

\* Mutant: the state is copied, and a failed connection is not closed.
onPeerStateChange_Copies(n, e) ==
    /\ e.type \in {"connected", "failed"} /\ peers[n][e.peer] # None
    /\ Takes(n, e)
    /\ peers' = [peers EXCEPT ![n][e.peer].state = e.type]
    /\ UNCHANGED <<commands, signals>>

onPeerStateChange(n, e) ==
    /\ peers[n][e.peer] # None
    /\ Takes(n, e)
    /\ \/ /\ e.type = "connected"
          /\ peers' = [peers EXCEPT ![n][e.peer].state = "connected"]
          /\ UNCHANGED <<commands, signals>>
       \/ e.type = "failed" /\ closePeer(n, e)

onPeerClosed(n, e) ==
    /\ e.type = "peerClosed"
    /\ Takes(n, e)
    /\ peers' = [peers EXCEPT ![n][e.peer] = None]
    /\ UNCHANGED <<commands, signals>>

\* onOfferCreated and onAnswerCreated: the description is set and signaled.
onDescriptionCreated(n, e) ==
    LET offer == e.type = "offerCreated"
    IN /\ e.type \in {"offerCreated", "answerCreated"} /\ peers[n][e.peer] # None
       /\ Takes(n, e)
       /\ Commands(n, e, IF offer THEN "setLocalOffer" ELSE "setLocalAnswer")
       /\ signals' = signals \cup {[type |-> IF offer THEN "offer" ELSE "answer",
                                    from |-> n, to |-> e.peer, id |-> e.id]}
       /\ UNCHANGED peers

\* Mutant: the side that made the offer answers.
onDescriptionSet_Outbound(n, e) ==
    LET peer == peers[n][e.peer]
    IN /\ e.type = "descriptionSet" /\ peer # None
       /\ Takes(n, e)
       /\ IF peer.direction = "outbound" /\ peer.state = "connecting" /\ ~peer.answerCreated
          THEN /\ peers' = [peers EXCEPT ![n][e.peer].answerCreated = TRUE]
               /\ Commands(n, e, "createAnswer")
          ELSE UNCHANGED <<peers, commands>>
       /\ UNCHANGED signals

onDescriptionSet(n, e) ==
    LET peer == peers[n][e.peer]
    IN /\ e.type = "descriptionSet" /\ peer # None
       /\ Takes(n, e)
       /\ IF peer.direction = "inbound" /\ peer.state = "connecting" /\ ~peer.answerCreated
          THEN /\ peers' = [peers EXCEPT ![n][e.peer].answerCreated = TRUE]
               /\ Commands(n, e, "createAnswer")
          ELSE UNCHANGED <<peers, commands>>
       /\ UNCHANGED signals

onDataChannelOpen(n, e) ==
    /\ e.type = "dataChannelOpen" /\ peers[n][e.peer] # None
    /\ Takes(n, e)
    /\ peers' = [peers EXCEPT ![n][e.peer].dataChannelReady = TRUE]
    /\ UNCHANGED <<commands, signals>>

\* Mutant: a closed channel is taken for a pause, the peer is kept.
onDataChannelClose_Keeps(n, e) ==
    /\ e.type = "dataChannelClose" /\ peers[n][e.peer] # None
    /\ Takes(n, e)
    /\ UNCHANGED <<peers, commands, signals>>

onDataChannelClose(n, e) ==
    /\ e.type = "dataChannelClose" /\ peers[n][e.peer] # None
    /\ Takes(n, e)
    /\ closePeer(n, e)

handleProxyEvent(n) ==
    \E e \in {events[n][i] : i \in 1 .. Len(events[n])} :
        \/ ignored(n, e) \/ onPeerCreated(n, e) \/ onPeerStateChange(n, e) \/ onPeerClosed(n, e)
        \/ onDescriptionCreated(n, e) \/ onDescriptionSet(n, e)
        \/ onDataChannelOpen(n, e) \/ onDataChannelClose(n, e)
-----------------------------------------------------------------------------
(* The proxy: commands of the controller *)

\* Take the next command c: the connection for its peer becomes conn and the
\* given events are reported.
Carries(n, c, conn, reports) ==
    /\ commands[n] # <<>> /\ c = Head(commands[n])
    /\ commands' = [commands EXCEPT ![n] = Tail(@)]
    /\ connections' = [connections EXCEPT ![n][c.peer] = conn]
    /\ events' = [events EXCEPT ![n] = @ \o reports]
    /\ UNCHANGED <<peers, made, signals>>

Handles(n, c, conn, reports) == Carries(n, c, conn, reports) /\ UNCHANGED restVars

Report(type, m, id) == [type |-> type, peer |-> m, id |-> id]

\* createPeer of the proxy: an earlier connection with the peer is closed
\* first, and that is reported.
rtcCreatePeer(n, c) ==
    LET old == connections[n][c.peer]
        closed == IF old = None THEN <<>> ELSE <<Report("peerClosed", c.peer, old.id)>>
    IN /\ c.type = "createPeer"
       /\ Handles(n, c, [id |-> c.id, local |-> "none", remote |-> None, channel |-> "connecting"],
                  Append(closed, Report("peerCreated", c.peer, c.id)))

rtcClosePeer(n, c) ==
    /\ c.type = "closePeer" /\ connections[n][c.peer] # None
    /\ Handles(n, c, None, <<Report("peerClosed", c.peer, connections[n][c.peer].id)>>)

rtcCreateOffer(n, c) ==
    LET conn == connections[n][c.peer]
    IN /\ c.type = "createOffer" /\ conn # None
       /\ Handles(n, c, conn, <<Report("offerCreated", c.peer, conn.id)>>)

\* createAnswer rejects, and nothing is reported, unless an offer is set.
rtcCreateAnswer(n, c) ==
    LET conn == connections[n][c.peer]
    IN /\ c.type = "createAnswer" /\ conn # None
       /\ Handles(n, c, conn, IF conn.remote # None /\ conn.local = "none"
                              THEN <<Report("answerCreated", c.peer, conn.id)>> ELSE <<>>)

\* setLocalDescription and setRemoteDescription: a description that does not
\* fit the state of the connection is refused.
Fits(conn, c) ==
    CASE c.type = "setLocalOffer"   -> c.id = conn.id /\ conn.local = "none" /\ conn.remote = None
      [] c.type = "setLocalAnswer"  -> c.id = conn.id /\ conn.local = "none" /\ conn.remote # None
      [] c.type = "setRemoteOffer"  -> conn.local = "none" /\ conn.remote = None
      [] c.type = "setRemoteAnswer" -> conn.local = "offer" /\ conn.remote = None

WithDescription(conn, c) ==
    CASE c.type = "setLocalOffer"  -> [conn EXCEPT !.local = "offer"]
      [] c.type = "setLocalAnswer" -> [conn EXCEPT !.local = "answer"]
      [] OTHER                     -> [conn EXCEPT !.remote = c.id]

rtcSetDescription(n, c) ==
    LET conn == connections[n][c.peer]
    IN /\ c.type \in {"setLocalOffer", "setLocalAnswer", "setRemoteOffer", "setRemoteAnswer"}
       /\ conn # None
       /\ \/ /\ Fits(conn, c)
             /\ Handles(n, c, WithDescription(conn, c), <<Report("descriptionSet", c.peer, conn.id)>>)
          \/ /\ ~Fits(conn, c)
             /\ Handles(n, c, conn, <<Report("descriptionError", c.peer, conn.id)>>)

\* A candidate that waited for the remote description is refused: the
\* description is set, and an error is reported for it.
rtcCandidateFails(n, c) ==
    LET conn == connections[n][c.peer]
    IN /\ faults < MaxFaults
       /\ c.type \in {"setRemoteOffer", "setRemoteAnswer"}
       /\ conn # None /\ Fits(conn, c)
       /\ Carries(n, c, WithDescription(conn, c), <<Report("descriptionError", c.peer, conn.id)>>)
       /\ faults' = faults + 1
       /\ spoiled' = spoiled \cup {<<n, conn.id>>}
       /\ UNCHANGED limits

\* A command for a connection the proxy does not have.
rtcIgnored(n, c) ==
    /\ c.type # "createPeer" /\ connections[n][c.peer] = None
    /\ Handles(n, c, None, <<>>)

handleCommand(n) ==
    \E c \in {commands[n][i] : i \in 1 .. Len(commands[n])} :
        \/ rtcCreatePeer(n, c) \/ rtcClosePeer(n, c) \/ rtcCreateOffer(n, c)
        \/ rtcCreateAnswer(n, c) \/ rtcSetDescription(n, c) \/ rtcCandidateFails(n, c)
        \/ rtcIgnored(n, c)

-----------------------------------------------------------------------------
(* Connections and the network *)

\* The connection of m that the one of n was negotiated with.
Matches(n, m) ==
    LET conn == connections[n][m]
        other == connections[m][n]
    IN other # None /\ conn.remote = other.id /\ other.remote = conn.id

\* It is gone for good.
Gone(n, m) ==
    LET conn == connections[n][m]
        other == connections[m][n]
    IN /\ conn.remote # None
       /\ ~(other # None /\ other.id = conn.remote /\ other.remote \in {None, conn.id})

\* onconnectionstatechange: connected, and the data channel opens.
comesUp(n, m) ==
    LET conn == connections[n][m]
    IN /\ conn # None /\ conn.channel = "connecting" /\ conn.local # "none"
       /\ Matches(n, m) /\ connections[m][n].local # "none"
       /\ connections' = [connections EXCEPT ![n][m].channel = "open"]
       /\ events' = [events EXCEPT ![n] = @ \o <<Report("connected", m, conn.id), Report("dataChannelOpen", m, conn.id)>>]
       /\ UNCHANGED <<peers, commands, made, signals, restVars>>

\* The other end closed the connection: dc.onclose, of the channel each side
\* created.  The proxy keeps its connection.
channelCloses(n, m) ==
    LET conn == connections[n][m]
    IN /\ conn # None /\ conn.channel = "open" /\ Gone(n, m)
       /\ connections' = [connections EXCEPT ![n][m].channel = "closed"]
       /\ events' = [events EXCEPT ![n] = @ \o [i \in {1, 2} |-> Report("dataChannelClose", m, conn.id)]]
       /\ UNCHANGED <<peers, commands, made, signals, restVars>>

\* Mutant: the proxy cleans up before it reports the state.
Fail_Silent(n, m) ==
    /\ connections' = [connections EXCEPT ![n][m] = None]
    /\ UNCHANGED <<peers, commands, events, made, signals>>

\* onconnectionstatechange: failed.  The proxy cleans up without a peerClosed.
Fail(n, m) ==
    /\ connections' = [connections EXCEPT ![n][m] = None]
    /\ events' = [events EXCEPT ![n] = Append(@, Report("failed", m, connections[n][m].id))]
    /\ UNCHANGED <<peers, commands, made, signals>>

\* Checks time out when the other end is gone, or when the handshake does not
\* get on because something was lost.
timesOut(n, m) ==
    LET conn == connections[n][m]
    IN /\ conn # None /\ conn.remote # None /\ conn.local # "none"
       /\ Gone(n, m) \/ (faults > 0 /\ conn.channel = "connecting" /\ ~Matches(n, m))
       /\ Fail(n, m)
       /\ UNCHANGED restVars

breaks(n, m) ==
    LET conn == connections[n][m]
    IN /\ faults < MaxFaults
       /\ conn # None /\ conn.remote # None /\ conn.local # "none"
       /\ Fail(n, m)
       /\ faults' = faults + 1
       /\ UNCHANGED <<limits, spoiled>>

\* A relay drops an offer or an answer.
loseSignal(s) ==
    /\ faults < MaxFaults
    /\ signals' = signals \ {s}
    /\ faults' = faults + 1
    /\ UNCHANGED <<peers, commands, connections, events, made, limits, spoiled>>

Next ==
    \/ \E n \in Nodes : handleProxyEvent(n) \/ handleCommand(n) \/ setPoolConfig(n)
    \/ \E n, m \in Nodes : \/ handleHello(n, m) \/ comesUp(n, m) \/ channelCloses(n, m)
                           \/ timesOut(n, m) \/ breaks(n, m)
    \/ \E n \in Nodes, s \in signals : handleOffer(n, s) \/ handleAnswer(n, s)
    \/ \E s \in signals : loseSignal(s)

Spec == Init /\ [][Next]_vars

\* Each thread handles its messages, relays deliver what they do not lose, a
\* negotiated connection comes up and one whose other end is silent is given up.
Fairness ==
    \A n \in Nodes :
        /\ WF_vars(handleProxyEvent(n)) /\ WF_vars(handleCommand(n))
        /\ WF_vars(\E s \in signals : handleOffer(n, s) \/ handleAnswer(n, s))
        /\ WF_vars(\E m \in Nodes : comesUp(n, m) \/ timesOut(n, m))

FairSpec == Spec /\ Fairness

-----------------------------------------------------------------------------
(* Properties *)

\* Every field holds what its declaration says: WorkerPeer
\* (webrtcController.ts:52), PeerConnection (webrtcProxy.ts:24) and the messages
\* between the threads (protocol.ts).
TypeOK ==
    /\ peers \in [Nodes -> [Nodes -> Peer \cup {None}]]
    /\ commands \in [Nodes -> Seq(Command)]
    /\ connections \in [Nodes -> [Nodes -> Connection \cup {None}]]
    /\ events \in [Nodes -> Seq(Event)]
    /\ made \in [Nodes -> Nat]
    /\ signals \in SUBSET Signal
    /\ limits \in [Nodes -> [PoolNames -> Nat]]
    /\ faults \in 0 .. MaxFaults
    /\ spoiled \in SUBSET (Nodes \X Ids)

Has(queue, type, m) == \E i \in 1 .. Len(queue) : queue[i].type = type /\ queue[i].peer = m

\* A peer of the controller, which takes a place in its pool, has a connection,
\* or one is about to be made, or the event that removes the peer is on its way
\* (webrtcProxy.ts:136-150, 360-366): no peer without a connection stays.
NoPhantomPeer ==
    \A n, m \in Nodes : peers[n][m] # None =>
        \/ connections[n][m] # None
        \/ Has(commands[n], "createPeer", m)
        \/ Has(events[n], "failed", m) \/ Has(events[n], "peerClosed", m)

\* Once the two threads of a node have handled each other's messages, the
\* controller counts exactly the peers with an open channel as ready
\* (webrtcController.ts:610-624), whatever order events of an earlier connection
\* with the peer came in.
QuietAgreement ==
    \A n, m \in Nodes : commands[n] = <<>> /\ events[n] = <<>> =>
        LET peer == peers[n][m]
            conn == connections[n][m]
        IN (peer # None /\ peer.dataChannelReady) <=> (conn # None /\ conn.channel = "open")

Connected(n, m) == peers[n][m] # None /\ peers[n][m].dataChannelReady

\* However hellos and offers interleave, the "other" pool never holds two peers of
\* one account (webrtcController.ts:377-384), so no stranger fills it with devices.
OneDevicePerAccount ==
    \A n \in Nodes : \A k, m \in Pool(n, "other") : Pubkey[k] = Pubkey[m] => k = m

\* However hellos, offers and new settings interleave, a pool that grows ends up
\* within the limit in force then (webrtcController.ts:357-371), and one that a
\* lowered limit left too large only shrinks: setPoolConfig closes no peer
\* (990-1000).
PoolsWithinLimits ==
    [][\A n \in Nodes, pool \in PoolNames :
           \/ Pool(n, pool)' \subseteq Pool(n, pool)
           \/ Cardinality(Pool(n, pool)') <= limits[n][pool]]_vars

\* An offer that was accepted leads to a connection both ends use: the handshake
\* of two controllers, two proxies and the relays between them cannot get stuck
\* (webrtcController.ts:313-342, 506-590).  When a signal is lost or a connection
\* breaks, the inbound peer still comes to use or is forgotten.  It keeps its
\* place in the pool for nothing in one case only: a candidate queued behind the
\* offer was refused (webrtcProxy.ts:242-259), so the controller was told of an
\* error and never asks for an answer (571-575).  (An outbound peer also does,
\* when its offer is lost or rejected.)  Only the node that sorts higher accepts
\* offers.
AcceptedOfferSettles ==
    \A n \in Nodes : \A m \in {k \in Nodes : k < n} :
        (peers[n][m] # None /\ peers[n][m].direction = "inbound")
        ~> \/ Connected(n, m) /\ Connected(m, n)
           \/ faults > 0 /\ (Connected(n, m) \/ peers[n][m] = None)
           \/ peers[n][m] # None /\ <<n, peers[n][m].id>> \in spoiled
===============================================================================

------------------------- MODULE PeerLifecycleProofs -------------------------
(***************************************************************************)
(* What PeerLifecycle promises for every set of nodes, every pool size and *)
(* any number of connections, losses and breaks.                           *)
(***************************************************************************)
EXTENDS PeerLifecycle, SequenceTheorems, FiniteSetTheorems, TLAPS

-----------------------------------------------------------------------------
(* Message queues *)

\* Taking the next message loses that message and no other.
LEMMA TakeQueue ==
    ASSUME NEW S, NEW q \in Seq(S), q # <<>>
    PROVE  /\ Head(q) \in S
           /\ Tail(q) \in Seq(S)
           /\ \A type, m : Has(q, type, m) =>
                Has(Tail(q), type, m) \/ (Head(q).type = type /\ Head(q).peer = m)
<1>1. Head(q) \in S /\ Tail(q) \in Seq(S) /\ Len(Tail(q)) = Len(q) - 1
      /\ \A i \in 1 .. Len(Tail(q)) : Tail(q)[i] = q[i + 1]
  BY HeadTailProperties
<1>2. Len(q) \in Nat /\ Head(q) = q[1]
  OBVIOUS
<1>3. ASSUME NEW type, NEW m, Has(q, type, m)
      PROVE  Has(Tail(q), type, m) \/ (Head(q).type = type /\ Head(q).peer = m)
  <2>1. PICK i \in 1 .. Len(q) : q[i].type = type /\ q[i].peer = m
    BY <1>3 DEF Has
  <2>2. CASE i = 1
    BY <2>1, <2>2, <1>2
  <2>3. CASE i # 1
    <3>1. i - 1 \in 1 .. Len(Tail(q)) /\ (i - 1) + 1 = i
      BY <1>1, <1>2, <2>3
    <3>2. Tail(q)[i - 1] = q[i]
      BY <1>1, <3>1
    <3> QED
      BY <2>1, <3>1, <3>2 DEF Has
  <2> QED
    BY <2>2, <2>3
<1> QED
  BY <1>1, <1>3

\* Sending messages keeps the ones on their way.
LEMMA SendQueue ==
    ASSUME NEW S, NEW q \in Seq(S), NEW r \in Seq(S)
    PROVE  /\ q \o r \in Seq(S)
           /\ \A type, m : Has(q, type, m) \/ Has(r, type, m) => Has(q \o r, type, m)
<1>1. q \o r \in Seq(S) /\ Len(q \o r) = Len(q) + Len(r)
      /\ \A i \in 1 .. Len(q) + Len(r) : (q \o r)[i] = IF i <= Len(q) THEN q[i] ELSE r[i - Len(q)]
  BY ConcatProperties
<1>2. Len(q) \in Nat /\ Len(r) \in Nat
  OBVIOUS
<1>3. ASSUME NEW type, NEW m, Has(q, type, m)
      PROVE  Has(q \o r, type, m)
  <2>1. PICK i \in 1 .. Len(q) : q[i].type = type /\ q[i].peer = m
    BY <1>3 DEF Has
  <2>2. i \in 1 .. Len(q \o r) /\ (q \o r)[i] = q[i]
    BY <1>1, <1>2
  <2> QED
    BY <2>1, <2>2 DEF Has
<1>4. ASSUME NEW type, NEW m, Has(r, type, m)
      PROVE  Has(q \o r, type, m)
  <2>1. PICK i \in 1 .. Len(r) : r[i].type = type /\ r[i].peer = m
    BY <1>4 DEF Has
  <2>2. i + Len(q) \in 1 .. Len(q) + Len(r) /\ ~(i + Len(q) <= Len(q))
        /\ (i + Len(q)) - Len(q) = i
    BY <1>2
  <2>3. (q \o r)[i + Len(q)] = r[i]
    BY <1>1, <2>2
  <2> QED
    BY <1>1, <2>1, <2>2, <2>3 DEF Has
<1> QED
  BY <1>1, <1>3, <1>4

\* The same for a single message.
LEMMA SendOne ==
    ASSUME NEW S, NEW q \in Seq(S), NEW message \in S
    PROVE  /\ Append(q, message) \in Seq(S)
           /\ \A type, m : Has(q, type, m) => Has(Append(q, message), type, m)
           /\ Has(Append(q, message), message.type, message.peer)
<1>1. /\ Append(q, message) \in Seq(S)
      /\ Len(Append(q, message)) = Len(q) + 1
      /\ \A i \in 1 .. Len(q) : Append(q, message)[i] = q[i]
      /\ Append(q, message)[Len(q) + 1] = message
  BY AppendProperties
<1>2. Len(q) \in Nat
  OBVIOUS

<1>3. \A i \in 1 .. Len(q) : i \in 1 .. Len(q) + 1
  BY <1>2
<1>4. Len(q) + 1 \in 1 .. Len(q) + 1
  BY <1>2
<1> QED
  BY <1>1, <1>3, <1>4 DEF Has

\* A queue of one message holds it.
LEMMA OneMessage ==
    ASSUME NEW S, NEW message \in S
    PROVE  <<message>> \in Seq(S) /\ Has(<<message>>, message.type, message.peer)
<1>1. <<message>> \in Seq(S) /\ Len(<<message>>) = 1 /\ <<message>>[1] = message
  OBVIOUS
<1> QED
  BY <1>1 DEF Has

-----------------------------------------------------------------------------
(* What the shared parts of the handlers do *)

\* The limits and what is counted are well typed; most steps leave them alone.
RestOK ==
    /\ limits \in [Nodes -> [PoolNames -> Nat]]
    /\ faults \in 0 .. MaxFaults
    /\ spoiled \in SUBSET (Nodes \X Ids)

\* What is left alone stays well typed.
LEMMA RestKept ==
    ASSUME TypeOK, UNCHANGED restVars
    PROVE  RestOK'
BY DEF TypeOK, restVars, RestOK

\* The messages of a kind for a peer that a node has on its way are kept.
Keeps(before, after) == \A n \in Nodes : \A type, m : Has(before[n], type, m) => Has(after[n], type, m)

\* createPeer of the controller makes the peer and orders its connection.
LEMMA CreatePeerFacts ==
    ASSUME TypeOK, NEW n \in Nodes, NEW m \in Nodes, NEW direction \in {"inbound", "outbound"},
           NEW follow \in Seq(Command), createPeer(n, m, direction, follow)
    PROVE  /\ peers' \in [Nodes -> [Nodes -> Peer \cup {None}]]
           /\ \A k, j \in Nodes : k # n \/ j # m => peers'[k][j] = peers[k][j]
           /\ commands' \in [Nodes -> Seq(Command)]
           /\ made' \in [Nodes -> Nat]
           /\ Keeps(commands, commands')
           /\ Has(commands'[n], "createPeer", m)
<1> DEFINE id == made[n] + 1
           peer == [direction |-> direction, state |-> "connecting",
                    dataChannelReady |-> FALSE, answerCreated |-> FALSE, id |-> id]
           command == [type |-> "createPeer", peer |-> m, id |-> id]
           queue == commands[n] \o <<command>>
<1>0. id \in Ids /\ id \in Nat
  BY DEF TypeOK, Ids
<1>1. /\ made' = [made EXCEPT ![n] = id]
      /\ peers' = [peers EXCEPT ![n][m] = peer]
      /\ commands' = [commands EXCEPT ![n] = queue \o follow]
  BY DEF createPeer
<1>2. made' \in [Nodes -> Nat]
  BY <1>0, <1>1 DEF TypeOK
<1>3. peer \in Peer /\ command \in Command
  BY <1>0 DEF Peer, Command
<1>4. commands[n] \in Seq(Command)
  BY DEF TypeOK
<1>5. <<command>> \in Seq(Command) /\ Has(<<command>>, command.type, command.peer)
  BY <1>3, OneMessage
<1>6. queue \in Seq(Command) /\ Has(queue, command.type, command.peer)
      /\ \A type, j : Has(commands[n], type, j) => Has(queue, type, j)
  BY <1>4, <1>5, SendQueue
<1>7. command.type = "createPeer" /\ command.peer = m
  OBVIOUS
<1> HIDE DEF peer, command, queue
<1>8. queue \o follow \in Seq(Command)
      /\ \A type, j : Has(queue, type, j) => Has(queue \o follow, type, j)
  BY <1>6, SendQueue
<1>9. commands' \in [Nodes -> Seq(Command)]
  BY <1>1, <1>8 DEF TypeOK
<1>10. peers' \in [Nodes -> [Nodes -> Peer \cup {None}]]
  BY <1>1, <1>3 DEF TypeOK
<1>11. \A k, j \in Nodes : k # n \/ j # m => peers'[k][j] = peers[k][j]
  BY <1>1 DEF TypeOK
<1>12. commands'[n] = queue \o follow /\ \A k \in Nodes \ {n} : commands'[k] = commands[k]
  BY <1>1 DEF TypeOK
<1>13. Keeps(commands, commands') /\ Has(commands'[n], "createPeer", m)
  BY <1>6, <1>7, <1>8, <1>12 DEF Keeps
<1> QED
  BY <1>2, <1>9, <1>10, <1>11, <1>13

\* The controller takes an event: every other event stays.
LEMMA TakesFacts ==
    ASSUME TypeOK, NEW n \in Nodes, NEW e, Takes(n, e)
    PROVE  /\ e \in Event
           /\ events' \in [Nodes -> Seq(Event)]
           /\ connections' = connections /\ made' = made /\ restVars' = restVars
           /\ \A k, m \in Nodes, type \in {"failed", "peerClosed"} :
                Has(events[k], type, m) =>
                Has(events'[k], type, m) \/ (k = n /\ e.type = type /\ e.peer = m)
<1>1. /\ events[n] \in Seq(Event) /\ events[n] # <<>> /\ e = Head(events[n])
      /\ events' = [events EXCEPT ![n] = Tail(events[n])]
      /\ connections' = connections /\ made' = made /\ restVars' = restVars
  BY DEF TypeOK, Takes
<1>2. /\ Head(events[n]) \in Event /\ Tail(events[n]) \in Seq(Event)
      /\ \A type, m : Has(events[n], type, m) => Has(Tail(events[n]), type, m)
                        \/ (Head(events[n]).type = type /\ Head(events[n]).peer = m)
  BY <1>1, TakeQueue
<1>3. events' \in [Nodes -> Seq(Event)] /\ events'[n] = Tail(events[n])
      /\ \A k \in Nodes \ {n} : events'[k] = events[k]
  BY <1>1, <1>2 DEF TypeOK
<1> QED
  BY <1>1, <1>2, <1>3

\* The controller sends a command: every other command stays.
LEMMA CommandsFacts ==
    ASSUME TypeOK, NEW n \in Nodes, NEW e \in Event, NEW type, Commands(n, e, type),
           type \in {"createPeer", "closePeer", "createOffer", "createAnswer", "setLocalOffer",
                     "setLocalAnswer", "setRemoteOffer", "setRemoteAnswer"}
    PROVE  commands' \in [Nodes -> Seq(Command)] /\ Keeps(commands, commands')
<1> DEFINE command == [type |-> type, peer |-> e.peer, id |-> e.id]
<1>1. command \in Command
  BY DEF Command, Event
<1>2. commands' = [commands EXCEPT ![n] = Append(commands[n], command)] /\ commands[n] \in Seq(Command)
  BY DEF Commands, TypeOK
<1> HIDE DEF command
<1>3. Append(commands[n], command) \in Seq(Command)
      /\ \A t, m : Has(commands[n], t, m) => Has(Append(commands[n], command), t, m)
  BY <1>1, <1>2, SendOne
<1>4. commands' \in [Nodes -> Seq(Command)] /\ commands'[n] = Append(commands[n], command)
      /\ \A k \in Nodes \ {n} : commands'[k] = commands[k]
  BY <1>2, <1>3 DEF TypeOK
<1> QED
  BY <1>3, <1>4 DEF Keeps

\* The proxy handles a command: every other command stays, and so does every
\* connection with another peer.
LEMMA CarriesFacts ==
    ASSUME TypeOK, NEW n \in Nodes, NEW c, NEW conn \in Connection \cup {None},
           NEW reports \in Seq(Event), Carries(n, c, conn, reports), RestOK'
    PROVE  /\ TypeOK'
           /\ peers' = peers
           /\ \A k, m \in Nodes : connections'[k][m] =
                IF k = n /\ m = c.peer THEN conn ELSE connections[k][m]
           /\ \A k, m \in Nodes : Has(commands[k], "createPeer", m) =>
                Has(commands'[k], "createPeer", m) \/ (k = n /\ c.type = "createPeer" /\ c.peer = m)
           /\ Keeps(events, events')
           /\ \A type, m : Has(reports, type, m) => Has(events'[n], type, m)
<1>1. /\ commands[n] \in Seq(Command) /\ commands[n] # <<>> /\ c = Head(commands[n])
      /\ commands' = [commands EXCEPT ![n] = Tail(commands[n])]
      /\ connections' = [connections EXCEPT ![n][c.peer] = conn]
      /\ events' = [events EXCEPT ![n] = events[n] \o reports]
      /\ peers' = peers /\ made' = made /\ signals' = signals
      /\ events[n] \in Seq(Event)
  BY DEF TypeOK, Carries
<1>2. /\ Head(commands[n]) \in Command /\ Tail(commands[n]) \in Seq(Command)
      /\ \A type, m : Has(commands[n], type, m) => Has(Tail(commands[n]), type, m)
                        \/ (Head(commands[n]).type = type /\ Head(commands[n]).peer = m)
  BY <1>1, TakeQueue
<1>3. commands' \in [Nodes -> Seq(Command)] /\ commands'[n] = Tail(commands[n])
      /\ \A k \in Nodes \ {n} : commands'[k] = commands[k]
  BY <1>1, <1>2 DEF TypeOK
<1>4. events[n] \o reports \in Seq(Event)
      /\ \A type, m : Has(events[n], type, m) \/ Has(reports, type, m) => Has(events[n] \o reports, type, m)
  BY <1>1, SendQueue
<1>5. events' \in [Nodes -> Seq(Event)] /\ events'[n] = events[n] \o reports
      /\ \A k \in Nodes \ {n} : events'[k] = events[k]
  BY <1>1, <1>4 DEF TypeOK
<1>6. c.peer \in Nodes
  BY <1>1, <1>2 DEF Command
<1>7. connections' \in [Nodes -> [Nodes -> Connection \cup {None}]]
      /\ \A k, m \in Nodes : connections'[k][m] = IF k = n /\ m = c.peer THEN conn ELSE connections[k][m]
  BY <1>1, <1>6 DEF TypeOK
<1>8. TypeOK'
  BY <1>1, <1>3, <1>5, <1>7 DEF TypeOK, RestOK
<1>9. Keeps(events, events') /\ \A type, m : Has(reports, type, m) => Has(events'[n], type, m)
  BY <1>4, <1>5 DEF Keeps
<1>10. \A k, m \in Nodes : Has(commands[k], "createPeer", m) =>
            Has(commands'[k], "createPeer", m) \/ (k = n /\ c.type = "createPeer" /\ c.peer = m)
  BY <1>1, <1>2, <1>3
<1> QED
  BY <1>1, <1>7, <1>8, <1>9, <1>10

-----------------------------------------------------------------------------
(* Types, and no peer without a connection *)

Inv == TypeOK /\ NoPhantomPeer

\* No peer is new.
Shrinks == \A n, m \in Nodes : peers'[n][m] # None => peers[n][m] # None

\* An event may be taken when a peer it removes is removed.
LEMMA EventHandled ==
    ASSUME Inv, NEW n \in Nodes, NEW e, Takes(n, e),
           peers' \in [Nodes -> [Nodes -> Peer \cup {None}]], Shrinks,
           commands' \in [Nodes -> Seq(Command)], Keeps(commands, commands'),
           signals' \in SUBSET Signal,
           e.type \in {"failed", "peerClosed"} => peers'[n][e.peer] = None
    PROVE  Inv'
<1>1. /\ e \in Event
      /\ events' \in [Nodes -> Seq(Event)]
      /\ connections' = connections /\ made' = made /\ restVars' = restVars
      /\ \A k, m \in Nodes, type \in {"failed", "peerClosed"} :
            Has(events[k], type, m) =>
            Has(events'[k], type, m) \/ (k = n /\ e.type = type /\ e.peer = m)
  BY TakesFacts DEF Inv
<1>2. TypeOK'
  BY <1>1 DEF Inv, TypeOK, restVars
<1>3. ASSUME NEW k \in Nodes, NEW m \in Nodes, peers'[k][m] # None
      PROVE  \/ connections'[k][m] # None \/ Has(commands'[k], "createPeer", m)
             \/ Has(events'[k], "failed", m) \/ Has(events'[k], "peerClosed", m)
  <2>1. peers[k][m] # None
    BY <1>3 DEF Shrinks
  <2>2. \/ connections[k][m] # None \/ Has(commands[k], "createPeer", m)
        \/ Has(events[k], "failed", m) \/ Has(events[k], "peerClosed", m)
    BY <2>1 DEF Inv, NoPhantomPeer
  <2>3. Has(commands[k], "createPeer", m) => Has(commands'[k], "createPeer", m)
    BY DEF Keeps
  <2>4. ~(k = n /\ e.peer = m /\ e.type \in {"failed", "peerClosed"})
    BY <1>3
  <2> QED
    BY <1>1, <2>2, <2>3, <2>4
<1> QED
  BY <1>2, <1>3 DEF Inv, NoPhantomPeer

\* closePeer of the controller: the peer goes and a command is sent.
LEMMA ClosePeerFacts ==
    ASSUME TypeOK, NEW n \in Nodes, NEW e \in Event, closePeer(n, e)
    PROVE  /\ peers' \in [Nodes -> [Nodes -> Peer \cup {None}]] /\ Shrinks
           /\ peers'[n][e.peer] = None
           /\ commands' \in [Nodes -> Seq(Command)] /\ Keeps(commands, commands')
           /\ signals' \in SUBSET Signal
<1>1. commands' \in [Nodes -> Seq(Command)] /\ Keeps(commands, commands')
  BY CommandsFacts DEF closePeer
<1>2. e.peer \in Nodes
  BY DEF Event
<1>3. peers' = [peers EXCEPT ![n][e.peer] = None] /\ signals' = signals
  BY DEF closePeer
<1> QED
  BY <1>1, <1>2, <1>3 DEF TypeOK, Shrinks

\* A field of a peer the controller has is changed.
LEMMA PeerFieldFacts ==
    ASSUME TypeOK, NEW n \in Nodes, NEW e \in Event, peers[n][e.peer] # None,
           \/ peers' = [peers EXCEPT ![n][e.peer].state = "connected"]
           \/ peers' = [peers EXCEPT ![n][e.peer].answerCreated = TRUE]
           \/ peers' = [peers EXCEPT ![n][e.peer].dataChannelReady = TRUE]
    PROVE  peers' \in [Nodes -> [Nodes -> Peer \cup {None}]] /\ Shrinks
<1>1. e.peer \in Nodes
  BY DEF Event
<1>2. peers[n][e.peer] \in Peer
  BY <1>1 DEF TypeOK
<1>3. \E new \in Peer : peers' = [peers EXCEPT ![n][e.peer] = new]
  <2>1. CASE peers' = [peers EXCEPT ![n][e.peer].state = "connected"]
    <3>1. [peers[n][e.peer] EXCEPT !.state = "connected"] \in Peer
      BY <1>2 DEF Peer
    <3> QED
      BY <2>1, <3>1
  <2>2. CASE peers' = [peers EXCEPT ![n][e.peer].answerCreated = TRUE]
    <3>1. [peers[n][e.peer] EXCEPT !.answerCreated = TRUE] \in Peer
      BY <1>2 DEF Peer
    <3> QED
      BY <2>2, <3>1
  <2>3. CASE peers' = [peers EXCEPT ![n][e.peer].dataChannelReady = TRUE]
    <3>1. [peers[n][e.peer] EXCEPT !.dataChannelReady = TRUE] \in Peer
      BY <1>2 DEF Peer
    <3> QED
      BY <2>3, <3>1
  <2> QED
    BY <2>1, <2>2, <2>3
<1>4. PICK new \in Peer : peers' = [peers EXCEPT ![n][e.peer] = new]
  BY <1>3
<1> QED
  BY <1>1, <1>4 DEF TypeOK, Shrinks

\* Every handler of an event keeps the invariant and makes no peer.
LEMMA EventKeepsInv ==
    ASSUME Inv, NEW n \in Nodes, handleProxyEvent(n)
    PROVE  Inv' /\ Shrinks
<1>1. PICK e : \/ ignored(n, e) \/ onPeerCreated(n, e) \/ onPeerStateChange(n, e) \/ onPeerClosed(n, e)
               \/ onDescriptionCreated(n, e) \/ onDescriptionSet(n, e)
               \/ onDataChannelOpen(n, e) \/ onDataChannelClose(n, e)
  BY DEF handleProxyEvent
<1>2. Takes(n, e)
  BY <1>1 DEF ignored, onPeerCreated, onPeerStateChange, onPeerClosed, onDescriptionCreated,
              onDescriptionSet, onDataChannelOpen, onDataChannelClose
<1>3. TypeOK
  BY DEF Inv
<1>4. e \in Event
  BY <1>2, <1>3, TakesFacts
<1>5. e.peer \in Nodes /\ e.id \in Ids
  BY <1>4 DEF Event
<1> DEFINE P == /\ peers' \in [Nodes -> [Nodes -> Peer \cup {None}]] /\ Shrinks
                /\ commands' \in [Nodes -> Seq(Command)] /\ Keeps(commands, commands')
                /\ signals' \in SUBSET Signal
                /\ e.type \in {"failed", "peerClosed"} => peers'[n][e.peer] = None
<1> SUFFICES P
  BY <1>2, EventHandled
<1>6. peers' = peers => peers' \in [Nodes -> [Nodes -> Peer \cup {None}]] /\ Shrinks
  BY <1>3 DEF TypeOK, Shrinks
<1>7. commands' = commands => commands' \in [Nodes -> Seq(Command)] /\ Keeps(commands, commands')
  BY <1>3 DEF TypeOK, Keeps
<1>8. signals' = signals => signals' \in SUBSET Signal
  BY <1>3 DEF TypeOK
<1>9. CASE ignored(n, e)
  BY <1>5, <1>6, <1>7, <1>8, <1>9 DEF ignored
<1>10. CASE onPeerCreated(n, e)
  <2>1. commands' \in [Nodes -> Seq(Command)] /\ Keeps(commands, commands')
    BY <1>3, <1>4, <1>7, <1>10, CommandsFacts DEF onPeerCreated
  <2> QED
    BY <1>6, <1>8, <1>10, <2>1 DEF onPeerCreated
<1>11. CASE onPeerStateChange(n, e)
  <2>1. CASE e.type = "connected"
    <3>1. peers' \in [Nodes -> [Nodes -> Peer \cup {None}]] /\ Shrinks
      BY <1>3, <1>4, <1>11, <2>1, PeerFieldFacts DEF onPeerStateChange
    <3> QED
      BY <1>7, <1>8, <1>11, <2>1, <3>1 DEF onPeerStateChange
  <2>2. CASE closePeer(n, e)
    BY <1>3, <1>4, <2>2, ClosePeerFacts
  <2> QED
    BY <1>11, <2>1, <2>2 DEF onPeerStateChange
<1>12. CASE onPeerClosed(n, e)
  <2>1. peers' = [peers EXCEPT ![n][e.peer] = None] /\ commands' = commands /\ signals' = signals
    BY <1>12 DEF onPeerClosed
  <2>2. peers' \in [Nodes -> [Nodes -> Peer \cup {None}]] /\ Shrinks /\ peers'[n][e.peer] = None
    BY <1>3, <1>5, <2>1 DEF TypeOK, Shrinks
  <2> QED
    BY <1>7, <1>8, <2>1, <2>2
<1>13. CASE onDescriptionCreated(n, e)
  <2>1. PICK type \in {"setLocalOffer", "setLocalAnswer"} : Commands(n, e, type)
    BY <1>13 DEF onDescriptionCreated
  <2>2. commands' \in [Nodes -> Seq(Command)] /\ Keeps(commands, commands')
    BY <1>3, <1>4, <2>1, CommandsFacts
  <2>3. signals' \in SUBSET Signal
    BY <1>3, <1>5, <1>13 DEF onDescriptionCreated, TypeOK, Signal
  <2> QED
    BY <1>6, <1>13, <2>2, <2>3 DEF onDescriptionCreated
<1>14. CASE onDescriptionSet(n, e)
  <2>1. commands' \in [Nodes -> Seq(Command)] /\ Keeps(commands, commands')
    BY <1>3, <1>4, <1>7, <1>14, CommandsFacts DEF onDescriptionSet
  <2>2. peers' \in [Nodes -> [Nodes -> Peer \cup {None}]] /\ Shrinks
    BY <1>3, <1>4, <1>6, <1>14, PeerFieldFacts DEF onDescriptionSet
  <2> QED
    BY <1>8, <1>14, <2>1, <2>2 DEF onDescriptionSet
<1>15. CASE onDataChannelOpen(n, e)
  <2>1. peers' \in [Nodes -> [Nodes -> Peer \cup {None}]] /\ Shrinks
    BY <1>3, <1>4, <1>15, PeerFieldFacts DEF onDataChannelOpen
  <2> QED
    BY <1>7, <1>8, <1>15, <2>1 DEF onDataChannelOpen
<1>16. CASE onDataChannelClose(n, e)
  BY <1>3, <1>4, <1>16, ClosePeerFacts DEF onDataChannelClose
<1> QED
  BY <1>1, <1>9, <1>10, <1>11, <1>12, <1>13, <1>14, <1>15, <1>16

\* A command may be handled when it leaves a connection, or says that there is none.
LEMMA CommandHandled ==
    ASSUME Inv, NEW n \in Nodes, NEW c, NEW conn \in Connection \cup {None},
           NEW reports \in Seq(Event), Carries(n, c, conn, reports), RestOK',
           \/ conn # None
           \/ Has(reports, "peerClosed", c.peer)
           \/ connections[n][c.peer] = None /\ c.type # "createPeer"
    PROVE  Inv' /\ Shrinks
<1>1. /\ TypeOK'
      /\ peers' = peers
      /\ \A k, m \in Nodes : connections'[k][m] =
            IF k = n /\ m = c.peer THEN conn ELSE connections[k][m]
      /\ \A k, m \in Nodes : Has(commands[k], "createPeer", m) =>
            Has(commands'[k], "createPeer", m) \/ (k = n /\ c.type = "createPeer" /\ c.peer = m)
      /\ Keeps(events, events')
      /\ \A type, m : Has(reports, type, m) => Has(events'[n], type, m)
  BY CarriesFacts DEF Inv
<1>2. ASSUME NEW k \in Nodes, NEW m \in Nodes, peers'[k][m] # None
      PROVE  \/ connections'[k][m] # None \/ Has(commands'[k], "createPeer", m)
             \/ Has(events'[k], "failed", m) \/ Has(events'[k], "peerClosed", m)
  <2>1. \/ connections[k][m] # None \/ Has(commands[k], "createPeer", m)
        \/ Has(events[k], "failed", m) \/ Has(events[k], "peerClosed", m)
    BY <1>1, <1>2 DEF Inv, NoPhantomPeer
  <2>2. /\ Has(events[k], "failed", m) => Has(events'[k], "failed", m)
        /\ Has(events[k], "peerClosed", m) => Has(events'[k], "peerClosed", m)
    BY <1>1 DEF Keeps
  <2>3. CASE k = n /\ m = c.peer
    BY <1>1, <2>1, <2>2, <2>3
  <2>4. CASE ~(k = n /\ m = c.peer)
    BY <1>1, <2>1, <2>2, <2>4
  <2> QED
    BY <2>3, <2>4
<1> QED
  BY <1>1, <1>2 DEF Inv, NoPhantomPeer, Shrinks

\* A description that is set leaves a connection.
LEMMA WithDescriptionType ==
    ASSUME NEW conn \in Connection, NEW c \in Command
    PROVE  WithDescription(conn, c) \in Connection
<1>1. [conn EXCEPT !.local = "offer"] \in Connection
  BY DEF Connection
<1>2. [conn EXCEPT !.local = "answer"] \in Connection
  BY DEF Connection
<1>3. c.id \in Ids
  BY DEF Command
<1>4. [conn EXCEPT !.remote = c.id] \in Connection
  BY <1>3 DEF Connection
<1> QED
  BY <1>1, <1>2, <1>4 DEF WithDescription

\* Every handler of a command keeps the invariant and makes no peer.
LEMMA CommandKeepsInv ==
    ASSUME Inv, NEW n \in Nodes, handleCommand(n)
    PROVE  Inv' /\ Shrinks
<1>1. PICK c : \/ rtcCreatePeer(n, c) \/ rtcClosePeer(n, c) \/ rtcCreateOffer(n, c)
               \/ rtcCreateAnswer(n, c) \/ rtcSetDescription(n, c) \/ rtcCandidateFails(n, c)
               \/ rtcIgnored(n, c)
  BY DEF handleCommand
<1>2. commands[n] # <<>> /\ c = Head(commands[n])
  BY <1>1 DEF rtcCreatePeer, rtcClosePeer, rtcCreateOffer, rtcCreateAnswer, rtcSetDescription,
              rtcCandidateFails, rtcIgnored, Handles, Carries
<1>3. commands[n] \in Seq(Command)
  BY DEF Inv, TypeOK
<1>4. c \in Command
  BY <1>2, <1>3, TakeQueue
<1>5. c.peer \in Nodes /\ c.id \in Ids
  BY <1>4 DEF Command
<1> DEFINE conn == connections[n][c.peer]
<1>6. conn \in Connection \cup {None}
  BY <1>5 DEF Inv, TypeOK
<1>7. conn # None => conn \in Connection /\ conn.id \in Ids
  BY <1>6 DEF Connection
<1>rest. RestOK'
  <2>1. CASE rtcCandidateFails(n, c)
    <3>1. /\ faults < MaxFaults /\ faults' = faults + 1 /\ limits' = limits
          /\ spoiled' = spoiled \cup {<<n, conn.id>>} /\ conn # None
      BY <2>1 DEF rtcCandidateFails
    <3>2. faults' \in 0 .. MaxFaults
      BY <3>1, BoundsAssumption DEF Inv, TypeOK
    <3> QED
      BY <1>7, <3>1, <3>2 DEF Inv, TypeOK, RestOK
  <2>2. CASE ~rtcCandidateFails(n, c)
    <3>1. UNCHANGED restVars
      BY <1>1, <2>2 DEF rtcCreatePeer, rtcClosePeer, rtcCreateOffer, rtcCreateAnswer, rtcSetDescription,
                        rtcIgnored, Handles
    <3> QED
      BY <3>1, RestKept DEF Inv
  <2> QED
    BY <2>1, <2>2
<1>8. \A type \in {"peerCreated", "peerClosed", "offerCreated", "answerCreated",
                   "descriptionSet", "descriptionError"}, id \in Ids :
        Report(type, c.peer, id) \in Event
  BY <1>5 DEF Report, Event
<1>9. \A message \in Event : <<message>> \in Seq(Event) /\ Has(<<message>>, message.type, message.peer)
  BY OneMessage
<1>10. <<>> \in Seq(Event) /\ None \in Connection \cup {None}
  OBVIOUS
<1>11. CASE rtcCreatePeer(n, c)
  <2> DEFINE new == [id |-> c.id, local |-> "none", remote |-> None, channel |-> "connecting"]
             closed == IF conn = None THEN <<>> ELSE <<Report("peerClosed", c.peer, conn.id)>>
             reports == Append(closed, Report("peerCreated", c.peer, c.id))
  <2>1. Carries(n, c, new, reports)
    BY <1>11 DEF rtcCreatePeer, Handles
  <2>2. new \in Connection
    BY <1>5 DEF Connection
  <2>3. new # None
    BY <2>2, NoneAssumption
  <2>4. closed \in Seq(Event)
    BY <1>7, <1>8, <1>9, <1>10
  <2> HIDE DEF closed, new
  <2>5. Report("peerCreated", c.peer, c.id) \in Event
    BY <1>5, <1>8
  <2>6. reports \in Seq(Event)
    BY <2>4, <2>5, SendOne
  <2> HIDE DEF reports
  <2> QED
    BY <2>1, <2>2, <2>3, <2>6, <1>rest, CommandHandled
<1>12. CASE rtcClosePeer(n, c)
  <2> DEFINE message == Report("peerClosed", c.peer, conn.id)
  <2>1. Carries(n, c, None, <<message>>) /\ conn # None
    BY <1>12 DEF rtcClosePeer, Handles
  <2>2. message \in Event
    BY <1>7, <1>8, <2>1
  <2>3. message.type = "peerClosed" /\ message.peer = c.peer
    BY DEF Report
  <2> HIDE DEF message, conn
  <2>4. <<message>> \in Seq(Event) /\ Has(<<message>>, "peerClosed", c.peer)
    BY <1>9, <2>2, <2>3
  <2> QED
    BY <1>10, <2>1, <2>4, <1>rest, CommandHandled
<1>13. CASE rtcCreateOffer(n, c)
  <2>1. conn # None /\ Carries(n, c, conn, <<Report("offerCreated", c.peer, conn.id)>>)
    BY <1>13 DEF rtcCreateOffer, Handles
  <2>2. <<Report("offerCreated", c.peer, conn.id)>> \in Seq(Event)
    BY <1>7, <1>8, <1>9, <2>1
  <2> HIDE DEF conn
  <2> QED
    BY <1>6, <2>1, <2>2, <1>rest, CommandHandled
<1>14. CASE rtcCreateAnswer(n, c)
  <2>1. PICK reports \in {<<>>, <<Report("answerCreated", c.peer, conn.id)>>} :
            conn # None /\ Carries(n, c, conn, reports)
    BY <1>14 DEF rtcCreateAnswer, Handles
  <2>2. reports \in Seq(Event)
    BY <1>7, <1>8, <1>9, <1>10, <2>1
  <2> HIDE DEF conn
  <2> QED
    BY <1>6, <2>1, <2>2, <1>rest, CommandHandled
<1>15. CASE rtcSetDescription(n, c) \/ rtcCandidateFails(n, c)
  <2>1. conn # None
    BY <1>15 DEF rtcSetDescription, rtcCandidateFails, Handles
  <2>2. PICK new \in {conn, WithDescription(conn, c)}, type \in {"descriptionSet", "descriptionError"} :
            Carries(n, c, new, <<Report(type, c.peer, conn.id)>>)
    BY <1>15 DEF rtcSetDescription, rtcCandidateFails, Handles
  <2>3. conn \in Connection
    BY <1>7, <2>1
  <2>4. new \in Connection /\ new # None
    BY <1>4, <2>3, NoneAssumption, WithDescriptionType
  <2>5. <<Report(type, c.peer, conn.id)>> \in Seq(Event)
    BY <1>7, <1>8, <1>9, <2>1
  <2> HIDE DEF conn
  <2> QED
    BY <2>2, <2>4, <2>5, <1>rest, CommandHandled
<1>16. CASE rtcIgnored(n, c)
  BY <1>10, <1>16, <1>rest, CommandHandled DEF rtcIgnored, Handles
<1> QED
  BY <1>1, <1>11, <1>12, <1>13, <1>14, <1>15, <1>16

\* One place of a table of pairs of nodes is written.
LEMMA TableUpdate ==
    ASSUME NEW S, NEW table \in [Nodes -> [Nodes -> S]], NEW n \in Nodes, NEW m \in Nodes,
           NEW new \in S
    PROVE  /\ [table EXCEPT ![n][m] = new] \in [Nodes -> [Nodes -> S]]
           /\ \A k, j \in Nodes : [table EXCEPT ![n][m] = new][k][j] =
                IF k = n /\ j = m THEN new ELSE table[k][j]
OBVIOUS

\* A channel changes its state and events are reported: the connection stays.
LEMMA ChannelChanged ==
    ASSUME Inv, NEW n \in Nodes, NEW m \in Nodes,
           NEW new \in Connection, NEW reports \in Seq(Event),
           connections' = [connections EXCEPT ![n][m] = new],
           events' = [events EXCEPT ![n] = events[n] \o reports],
           UNCHANGED <<peers, commands, made, signals, restVars>>
    PROVE  Inv' /\ Shrinks
<1>4. events[n] \in Seq(Event)
  BY DEF Inv, TypeOK
<1>5. events[n] \o reports \in Seq(Event)
      /\ \A type, j : Has(events[n], type, j) => Has(events[n] \o reports, type, j)
  BY <1>4, SendQueue
<1>6. events' \in [Nodes -> Seq(Event)] /\ Keeps(events, events')
  BY <1>5 DEF Inv, TypeOK, Keeps
<1>7. connections' \in [Nodes -> [Nodes -> Connection \cup {None}]]
      /\ \A k, j \in Nodes : connections[k][j] # None => connections'[k][j] # None
  <2>1. connections \in [Nodes -> [Nodes -> Connection \cup {None}]]
    BY DEF Inv, TypeOK
  <2>2. new \in Connection \cup {None} /\ new # None
    BY NoneAssumption
  <2>3. /\ connections' \in [Nodes -> [Nodes -> Connection \cup {None}]]
        /\ \A k, j \in Nodes : connections'[k][j] = IF k = n /\ j = m THEN new ELSE connections[k][j]
    BY <2>1, <2>2, TableUpdate
  <2> QED
    BY <2>2, <2>3
<1>8. TypeOK'
  BY <1>6, <1>7 DEF Inv, TypeOK, restVars
<1> QED
  BY <1>6, <1>7, <1>8 DEF Inv, NoPhantomPeer, Shrinks, Keeps

\* A connection that failed is reported when it goes.
LEMMA FailKeepsInv ==
    ASSUME Inv, NEW n \in Nodes, NEW m \in Nodes, connections[n][m] # None, Fail(n, m),
           RestOK'
    PROVE  Inv' /\ Shrinks
<1> DEFINE message == Report("failed", m, connections[n][m].id)
<1>1. /\ connections' = [connections EXCEPT ![n][m] = None]
      /\ events' = [events EXCEPT ![n] = Append(events[n], message)]
      /\ peers' = peers /\ commands' = commands /\ made' = made /\ signals' = signals
  BY DEF Fail
<1>2. connections[n][m] \in Connection
  BY DEF Inv, TypeOK
<1>3. message \in Event /\ message.type = "failed" /\ message.peer = m
  BY <1>2 DEF Connection, Event, Report
<1> HIDE DEF message
<1>4. events[n] \in Seq(Event)
  BY DEF Inv, TypeOK
<1>5. /\ Append(events[n], message) \in Seq(Event)
      /\ \A type, j : Has(events[n], type, j) => Has(Append(events[n], message), type, j)
      /\ Has(Append(events[n], message), "failed", m)
  BY <1>3, <1>4, SendOne
<1>6. events' \in [Nodes -> Seq(Event)] /\ Keeps(events, events') /\ Has(events'[n], "failed", m)
  BY <1>1, <1>5 DEF Inv, TypeOK, Keeps
<1>7. connections' \in [Nodes -> [Nodes -> Connection \cup {None}]]
      /\ \A k, j \in Nodes : k # n \/ j # m => connections'[k][j] = connections[k][j]
  BY <1>1 DEF Inv, TypeOK
<1>8. TypeOK'
  BY <1>1, <1>6, <1>7 DEF Inv, TypeOK, RestOK
<1> QED
  BY <1>1, <1>6, <1>7, <1>8 DEF Inv, NoPhantomPeer, Shrinks, Keeps

\* A peer the controller may connect to is new, and it is the only one.
Grows(n, m) ==
    /\ MayConnect(n, m)
    /\ \A k, j \in Nodes : k # n \/ j # m => peers'[k][j] = peers[k][j]

\* createPeer keeps the invariant: the command that makes the connection is sent.
LEMMA CreatePeerKeepsInv ==
    ASSUME Inv, NEW n \in Nodes, NEW m \in Nodes, NEW direction \in {"inbound", "outbound"},
           NEW follow \in Seq(Command), createPeer(n, m, direction, follow),
           signals' \in SUBSET Signal, UNCHANGED <<connections, events, restVars>>
    PROVE  Inv' /\ \A k, j \in Nodes : k # n \/ j # m => peers'[k][j] = peers[k][j]
<1>1. /\ peers' \in [Nodes -> [Nodes -> Peer \cup {None}]]
      /\ \A k, j \in Nodes : k # n \/ j # m => peers'[k][j] = peers[k][j]
      /\ commands' \in [Nodes -> Seq(Command)]
      /\ made' \in [Nodes -> Nat]
      /\ Keeps(commands, commands')
      /\ Has(commands'[n], "createPeer", m)
  BY CreatePeerFacts DEF Inv
<1>2. TypeOK'
  BY <1>1 DEF Inv, TypeOK, restVars
<1>3. NoPhantomPeer'
  BY <1>1 DEF Inv, NoPhantomPeer, Keeps
<1> QED
  BY <1>1, <1>2, <1>3 DEF Inv

\* A hello, an offer and an answer keep the invariant; what they make is a peer
\* the node may connect to.
LEMMA SignalKeepsInv ==
    ASSUME Inv, NEW n \in Nodes,
           \/ \E m \in Nodes : handleHello(n, m)
           \/ \E s \in signals : handleOffer(n, s) \/ handleAnswer(n, s)
    PROVE  Inv' /\ (Shrinks \/ \E m \in Nodes : Grows(n, m))
<1>1. <<>> \in Seq(Command) /\ signals \in SUBSET Signal
  BY DEF Inv, TypeOK
<1>2. ASSUME NEW m \in Nodes, handleHello(n, m)
      PROVE  Inv' /\ Grows(n, m)
  BY <1>1, <1>2, CreatePeerKeepsInv DEF handleHello, Grows
<1>3. ASSUME peers' = peers, connections' = connections, events' = events, made' = made,
             restVars' = restVars, signals' \in SUBSET Signal,
             commands' \in [Nodes -> Seq(Command)], Keeps(commands, commands')
      PROVE  Inv' /\ Shrinks
  <2>1. TypeOK'
    BY <1>3 DEF Inv, TypeOK, restVars
  <2> QED
    BY <1>3, <2>1 DEF Inv, NoPhantomPeer, Keeps, Shrinks
<1>4. commands' = commands => commands' \in [Nodes -> Seq(Command)] /\ Keeps(commands, commands')
  BY DEF Inv, TypeOK, Keeps
<1>5. ASSUME NEW command \in Command, commands' = [commands EXCEPT ![n] = Append(commands[n], command)]
      PROVE  commands' \in [Nodes -> Seq(Command)] /\ Keeps(commands, commands')
  <2>1. commands[n] \in Seq(Command)
    BY DEF Inv, TypeOK
  <2>2. Append(commands[n], command) \in Seq(Command)
        /\ \A type, m : Has(commands[n], type, m) => Has(Append(commands[n], command), type, m)
    BY <2>1, SendOne
  <2> QED
    BY <1>5, <2>2 DEF Inv, TypeOK, Keeps
<1>6. ASSUME NEW s \in signals, handleOffer(n, s)
      PROVE  Inv' /\ (Shrinks \/ \E m \in Nodes : Grows(n, m))
  <2> DEFINE m == s.from
             set == [type |-> "setRemoteOffer", peer |-> m, id |-> s.id]
  <2>1. s \in Signal
    BY <1>1
  <2>2. m \in Nodes /\ set \in Command
    BY <2>1 DEF Signal, Command
  <2>3. signals' \in SUBSET Signal
    BY <1>1, <1>6 DEF handleOffer
  <2>4. connections' = connections /\ events' = events /\ restVars' = restVars
    BY <1>6 DEF handleOffer
  <2>5. CASE commands' = [commands EXCEPT ![n] = Append(commands[n], set)] /\ peers' = peers /\ made' = made
    BY <1>3, <1>5, <2>2, <2>3, <2>4, <2>5
  <2>6. CASE MayConnect(n, m) /\ createPeer(n, m, "inbound", <<set>>)
    <3> HIDE DEF set, m
    <3>1. <<set>> \in Seq(Command)
      BY <2>2
    <3>2. Inv' /\ Grows(n, m)
      BY <2>2, <2>3, <2>4, <2>6, <3>1, CreatePeerKeepsInv DEF Grows
    <3> QED
      BY <2>2, <3>2
  <2>7. CASE UNCHANGED <<peers, commands, made>>
    BY <1>3, <1>4, <2>3, <2>4, <2>7
  <2> QED
    BY <1>6, <2>5, <2>6, <2>7 DEF handleOffer
<1>7. ASSUME NEW s \in signals, handleAnswer(n, s)
      PROVE  Inv' /\ Shrinks
  <2> DEFINE set == [type |-> "setRemoteAnswer", peer |-> s.from, id |-> s.id]
  <2>1. s \in Signal
    BY <1>1
  <2>2. set \in Command
    BY <2>1 DEF Signal, Command
  <2>3. signals' \in SUBSET Signal
    BY <1>1, <1>7 DEF handleAnswer
  <2>4. connections' = connections /\ events' = events /\ restVars' = restVars /\ peers' = peers /\ made' = made
    BY <1>7 DEF handleAnswer
  <2>5. commands' = commands \/ commands' = [commands EXCEPT ![n] = Append(commands[n], set)]
    BY <1>7 DEF handleAnswer
  <2> HIDE DEF set
  <2>6. commands' \in [Nodes -> Seq(Command)] /\ Keeps(commands, commands')
    BY <1>4, <1>5, <2>2, <2>5
  <2> QED
    BY <1>3, <2>3, <2>4, <2>6
<1> QED
  BY <1>2, <1>6, <1>7

\* So do a connection that comes up or fails, a channel that closes and a
\* signal that is lost.
LEMMA NetworkKeepsInv ==
    ASSUME Inv,
           \/ \E n, m \in Nodes : comesUp(n, m) \/ channelCloses(n, m) \/ timesOut(n, m) \/ breaks(n, m)
           \/ \E s \in signals : loseSignal(s)
    PROVE  Inv' /\ Shrinks
<1>1. ASSUME NEW n \in Nodes, NEW m \in Nodes, connections[n][m] # None
      PROVE  connections[n][m] \in Connection /\ connections[n][m].id \in Ids
  BY <1>1 DEF Inv, TypeOK, Connection
<1>2. ASSUME NEW n \in Nodes, NEW m \in Nodes, comesUp(n, m)
      PROVE  Inv' /\ Shrinks
  <2> DEFINE conn == connections[n][m]
             new == [conn EXCEPT !.channel = "open"]
             reports == <<Report("connected", m, conn.id), Report("dataChannelOpen", m, conn.id)>>
  <2>1. conn # None /\ connections' = [connections EXCEPT ![n][m].channel = "open"]
        /\ events' = [events EXCEPT ![n] = events[n] \o reports]
        /\ UNCHANGED <<peers, commands, made, signals, restVars>>
    BY <1>2 DEF comesUp
  <2>2. conn \in Connection /\ conn.id \in Ids
    BY <1>1, <2>1
  <2>3. new \in Connection
    BY <2>2 DEF Connection
  <2>4. Report("connected", m, conn.id) \in Event /\ Report("dataChannelOpen", m, conn.id) \in Event
    BY <2>2 DEF Report, Event
  <2>5. reports \in Seq(Event)
    BY <2>4
  <2>6. connections' = [connections EXCEPT ![n][m] = new]
    BY <2>1
  <2> HIDE DEF reports, new
  <2> QED
    BY <2>1, <2>3, <2>5, <2>6, ChannelChanged
<1>3. ASSUME NEW n \in Nodes, NEW m \in Nodes, channelCloses(n, m)
      PROVE  Inv' /\ Shrinks
  <2> DEFINE conn == connections[n][m]
             new == [conn EXCEPT !.channel = "closed"]
             reports == [i \in {1, 2} |-> Report("dataChannelClose", m, conn.id)]
  <2>1. conn # None /\ connections' = [connections EXCEPT ![n][m].channel = "closed"]
        /\ events' = [events EXCEPT ![n] = events[n] \o reports]
        /\ UNCHANGED <<peers, commands, made, signals, restVars>>
    BY <1>3 DEF channelCloses
  <2>2. conn \in Connection /\ conn.id \in Ids
    BY <1>1, <2>1
  <2>3. new \in Connection
    BY <2>2 DEF Connection
  <2>4. Report("dataChannelClose", m, conn.id) \in Event
    BY <2>2 DEF Report, Event
  <2>5. reports \in Seq(Event)
    <3>1. {1, 2} = 1 .. 2
      OBVIOUS
    <3>2. reports \in [1 .. 2 -> Event]
      BY <2>4, <3>1
    <3> HIDE DEF reports
    <3>3. 2 \in Nat
      OBVIOUS
    <3> QED
      BY <3>2, <3>3, SeqDef
  <2>6. connections' = [connections EXCEPT ![n][m] = new]
    BY <2>1
  <2> HIDE DEF reports, new
  <2> QED
    BY <2>1, <2>3, <2>5, <2>6, ChannelChanged
<1>4. ASSUME NEW n \in Nodes, NEW m \in Nodes, timesOut(n, m) \/ breaks(n, m)
      PROVE  Inv' /\ Shrinks
  <2>1. connections[n][m] # None /\ Fail(n, m)
        /\ faults' \in 0 .. MaxFaults /\ UNCHANGED <<limits, spoiled>>
    BY <1>4, BoundsAssumption DEF timesOut, breaks, Inv, TypeOK, restVars
  <2>2. RestOK'
    BY <2>1 DEF Inv, TypeOK, RestOK
  <2> QED
    BY <2>1, <2>2, FailKeepsInv
<1>5. ASSUME NEW s \in signals, loseSignal(s)
      PROVE  Inv' /\ Shrinks
  <2>1. faults' \in 0 .. MaxFaults /\ signals' \in SUBSET Signal
        /\ UNCHANGED <<peers, commands, connections, events, made, limits, spoiled>>
    BY <1>5, BoundsAssumption DEF loseSignal, Inv, TypeOK
  <2> QED
    BY <2>1 DEF Inv, TypeOK, NoPhantomPeer, Shrinks
<1> QED
  BY <1>2, <1>3, <1>4, <1>5

\* Every step keeps the invariant; a peer is new only where the node may connect.
LEMMA StepKeepsInv ==
    ASSUME Inv, [Next]_vars
    PROVE  Inv' /\ (Shrinks \/ \E n, m \in Nodes : Grows(n, m))
<1>1. CASE UNCHANGED vars
  BY <1>1 DEF vars, restVars, Inv, TypeOK, NoPhantomPeer, Shrinks
<1>2. CASE \E n \in Nodes : handleProxyEvent(n) \/ handleCommand(n)
  BY <1>2, EventKeepsInv, CommandKeepsInv
<1>3. CASE \E n \in Nodes : \/ \E m \in Nodes : handleHello(n, m)
                            \/ \E s \in signals : handleOffer(n, s) \/ handleAnswer(n, s)
  BY <1>3, SignalKeepsInv
<1>4. CASE \/ \E n, m \in Nodes : comesUp(n, m) \/ channelCloses(n, m) \/ timesOut(n, m) \/ breaks(n, m)
           \/ \E s \in signals : loseSignal(s)
  BY <1>4, NetworkKeepsInv
<1>5. ASSUME NEW n \in Nodes, setPoolConfig(n)
      PROVE  Inv' /\ Shrinks
  <2>1. /\ limits' \in [Nodes -> [PoolNames -> Nat]]
        /\ UNCHANGED <<peers, commands, connections, events, made, signals, faults, spoiled>>
    BY <1>5, PoolAssumption DEF setPoolConfig, Inv, TypeOK
  <2> QED
    BY <2>1 DEF Inv, TypeOK, NoPhantomPeer, Shrinks
<1> QED
  BY <1>1, <1>2, <1>3, <1>4, <1>5 DEF Next

\* The invariant holds before anything happened.
LEMMA InitInv == Init => Inv
<1> SUFFICES ASSUME Init PROVE Inv
  OBVIOUS
<1>1. <<>> \in Seq(Command) /\ <<>> \in Seq(Event)
  OBVIOUS
<1>2. TypeOK
  BY <1>1, BoundsAssumption, PoolAssumption DEF Init, TypeOK
<1> QED
  BY <1>2 DEF Init, Inv, NoPhantomPeer

\* Every field of both threads, of the messages between them and of the signals
\* holds what its declaration says, for any number of nodes.
THEOREM LifecycleTypeCorrect == Spec => []TypeOK
<1>1. Inv /\ [Next]_vars => Inv'
  BY StepKeepsInv
<1>2. Inv => TypeOK
  BY DEF Inv
<1> QED
  BY InitInv, <1>1, <1>2, PTL DEF Spec

\* A peer the controller counts always has a connection, one ordered, or the
\* event that removes the peer on its way (webrtcProxy.ts:136-150, 360-366),
\* whatever is lost, closed, reordered or broken.
THEOREM NoPeerIsPhantom == Spec => []NoPhantomPeer
<1>1. Inv /\ [Next]_vars => Inv'
  BY StepKeepsInv
<1>2. Inv => NoPhantomPeer
  BY DEF Inv
<1> QED
  BY InitInv, <1>1, <1>2, PTL DEF Spec

-----------------------------------------------------------------------------
(* Pools *)

\* A pool is a finite set of nodes.
LEMMA PoolIsFinite ==
    ASSUME NEW n \in Nodes, NEW pool
    PROVE  IsFiniteSet(Pool(n, pool)) /\ Cardinality(Pool(n, pool)) \in Nat
<1>1. Pool(n, pool) \subseteq Nodes
  BY DEF Pool
<1> QED
  BY <1>1, NodesAssumption, FS_Subset, FS_CardinalityType

\* A step makes a pool grow only within its limit.
GrowsWithin ==
    \A n \in Nodes, pool \in PoolNames :
        \/ Pool(n, pool)' \subseteq Pool(n, pool)
        \/ Cardinality(Pool(n, pool)') <= limits[n][pool]

\* A step that makes no peer makes no pool larger.
LEMMA ShrinksKeepsPools ==
    ASSUME Shrinks
    PROVE  GrowsWithin /\ (OneDevicePerAccount => OneDevicePerAccount')
<1>1. \A n \in Nodes : \A pool : Pool(n, pool)' \subseteq Pool(n, pool)
  BY DEF Shrinks, Pool, classifyPeer
<1> QED
  BY <1>1 DEF GrowsWithin, OneDevicePerAccount

\* A peer the node may connect to fits in its pool.
LEMMA GrowsKeepsPools ==
    ASSUME TypeOK, NEW n \in Nodes, NEW m \in Nodes, Grows(n, m)
    PROVE  GrowsWithin /\ (OneDevicePerAccount => OneDevicePerAccount')
<1>1. \A k \in Nodes : \A pool : k # n \/ classifyPeer(n, m) # pool => Pool(k, pool)' \subseteq Pool(k, pool)
  BY DEF Grows, Pool, classifyPeer
<1>2. \A pool : Pool(n, pool)' \subseteq Pool(n, pool) \cup {m}
  BY DEF Grows, Pool, classifyPeer
<1>3. ASSUME NEW k \in Nodes, NEW pool \in PoolNames
      PROVE  Pool(k, pool)' \subseteq Pool(k, pool) \/ Cardinality(Pool(k, pool)') <= limits[k][pool]
  <2>1. limits[k][pool] \in Nat
    BY DEF TypeOK
  <2>2. IsFiniteSet(Pool(k, pool)) /\ Cardinality(Pool(k, pool)) \in Nat
    BY PoolIsFinite
  <2>3. CASE k # n \/ classifyPeer(n, m) # pool
    BY <1>1, <2>3
  <2>4. CASE k = n /\ classifyPeer(n, m) = pool
    <3>1. Cardinality(Pool(k, pool)) < limits[k][pool]
      BY <2>4 DEF Grows, MayConnect, shouldConnect
    <3>2. Pool(k, pool)' \subseteq Pool(k, pool) \cup {m}
      BY <1>2, <2>4
    <3>3. m \notin Pool(k, pool)
      BY <2>4 DEF Pool, Grows, MayConnect
    <3>4. IsFiniteSet(Pool(k, pool) \cup {m})
          /\ Cardinality(Pool(k, pool) \cup {m}) = Cardinality(Pool(k, pool)) + 1
      BY <2>2, <3>3, FS_AddElement
    <3>5. IsFiniteSet(Pool(k, pool)') /\ Cardinality(Pool(k, pool)') <= Cardinality(Pool(k, pool) \cup {m})
      BY <3>2, <3>4, FS_Subset
    <3>6. Cardinality(Pool(k, pool)') \in Nat
      BY <3>5, FS_CardinalityType
    <3> QED
      BY <2>1, <2>2, <3>1, <3>4, <3>5, <3>6
  <2> QED
    BY <2>3, <2>4
<1>4. ASSUME OneDevicePerAccount, NEW i \in Nodes, NEW k \in Pool(i, "other")', NEW j \in Pool(i, "other")',
             Pubkey[k] = Pubkey[j]
      PROVE  k = j
  <2>1. CASE i # n \/ classifyPeer(n, m) # "other"
    BY <1>1, <1>4, <2>1 DEF OneDevicePerAccount
  <2>2. CASE i = n /\ classifyPeer(n, m) = "other"
    <3>1. ~ \E l \in Pool(n, "other") : Pubkey[l] = Pubkey[m]
      BY <2>2 DEF Grows, MayConnect, hasOtherPoolPubkey
    <3>2. k \in Pool(n, "other") \cup {m} /\ j \in Pool(n, "other") \cup {m}
      BY <1>2, <2>2
    <3> QED
      BY <1>4, <2>2, <3>1, <3>2 DEF OneDevicePerAccount
  <2> QED
    BY <2>1, <2>2
<1> QED
  BY <1>3, <1>4 DEF GrowsWithin, OneDevicePerAccount

\* Every step makes pools grow within their limits and by one device per account.
LEMMA StepKeepsPools ==
    ASSUME Inv, [Next]_vars
    PROVE  GrowsWithin /\ (OneDevicePerAccount => OneDevicePerAccount')
<1>1. CASE Shrinks
  BY <1>1, ShrinksKeepsPools
<1>2. CASE \E n, m \in Nodes : Grows(n, m)
  BY <1>2, GrowsKeepsPools DEF Inv
<1> QED
  BY <1>1, <1>2, StepKeepsInv

\* However hellos and offers interleave with connections that close and with new
\* settings, no account has two devices in the "other" pool
\* (webrtcController.ts:377-384).
THEOREM AccountsHaveOneDevice == Spec => []OneDevicePerAccount
<1>1. Init => OneDevicePerAccount
  BY DEF Init, Pool, OneDevicePerAccount
<1>2. Inv /\ [Next]_vars => Inv'
  BY StepKeepsInv
<1>3. Inv /\ OneDevicePerAccount /\ [Next]_vars => OneDevicePerAccount'
  BY StepKeepsPools
<1> QED
  BY InitInv, <1>1, <1>2, <1>3, PTL DEF Spec

\* A peer joins a pool only within the limit the pool has at that moment, and a
\* pool that setPoolConfig (webrtcController.ts:990-1000) left above its limit
\* only shrinks, for any nodes, pools and settings.
THEOREM PoolsStayWithinLimits == Spec => PoolsWithinLimits
<1>1. Inv /\ [Next]_vars => Inv'
  BY StepKeepsInv
<1>2. Inv /\ [Next]_vars => GrowsWithin
  BY StepKeepsPools
<1> QED
  BY InitInv, <1>1, <1>2, PTL DEF Spec, PoolsWithinLimits, GrowsWithin

-----------------------------------------------------------------------------
(* The two threads of a node agree once they have heard each other *)

\* Events that make the controller forget a peer, and commands that end the
\* connection the proxy has for it.
Removes(e, m) == e.peer = m /\ e.type \in {"failed", "peerClosed", "dataChannelClose"}
Replaces(c, m) == c.peer = m /\ c.type \in {"createPeer", "closePeer"}

\* A description of connection id is ready to be set, or is being set.
Describes(e, m, id) == e.peer = m /\ e.id = id /\ e.type \in {"offerCreated", "answerCreated"}
SetsLocal(c) == c.type \in {"setLocalOffer", "setLocalAnswer"}

Opens(e, m) == e.peer = m /\ e.type = "dataChannelOpen"
IsOpen(K, m) == K[m] # None /\ K[m].channel = "open"
IsLive(K, m) == K[m] # None /\ K[m].channel # "closed"
IsReady(P, m) == P[m] # None /\ P[m].dataChannelReady

\* In what follows P, C, K and E are the peers, the commands, the connections
\* and the events of one node.

\* A peer is ready, and an opening is reported, only of a channel that is open
\* or whose end is reported after it.
ReadyIsOpen(P, K, E) ==
    \A m \in Nodes :
        /\ IsReady(P, m) => IsOpen(K, m) \/ \E j \in 1 .. Len(E) : Removes(E[j], m)
        /\ \A i \in 1 .. Len(E) : Opens(E[i], m) =>
                IsOpen(K, m) \/ \E j \in 1 .. Len(E) : i < j /\ Removes(E[j], m)

\* Nothing on its way separates the peer from the connection.
Undisturbed(P, C, E, m) ==
    /\ P[m] # None
    /\ \A i \in 1 .. Len(E) : ~Removes(E[i], m)
    /\ \A i \in 1 .. Len(C) : ~Replaces(C[i], m)

\* From the moment a local description is on its way to a connection that lives,
\* the peer of the controller and the connection of the proxy belong together.
Together(P, C, K, E) ==
    \A m \in Nodes : IsLive(K, m) =>
        /\ K[m].local # "none" => Undisturbed(P, C, E, m)
        /\ \A i \in 1 .. Len(C) :
                /\ SetsLocal(C[i]) /\ C[i].peer = m /\ C[i].id = K[m].id
                /\ \A j \in 1 .. Len(C) : j < i => ~Replaces(C[j], m)
                => Undisturbed(P, C, E, m)
        /\ \A i, j \in 1 .. Len(E) : Describes(E[i], m, K[m].id) /\ i < j => ~Removes(E[j], m)

\* An open channel has a local description, and the peer is or will be ready.
OpenIsReady(P, K, E) ==
    \A m \in Nodes : IsOpen(K, m) =>
        /\ K[m].local # "none"
        /\ IsReady(P, m) \/ \E i \in 1 .. Len(E) : Opens(E[i], m)

\* The connection k is newer than all that messages or connections speak of.
Newer(C, K, E, k) ==
    /\ \A i \in 1 .. Len(C) : SetsLocal(C[i]) => C[i].id < k
    /\ \A i \in 1 .. Len(E) : E[i].id < k
    /\ \A m \in Nodes : K[m] # None => K[m].id < k

\* A connection that is ordered is newer than the ones there are, and they are
\* made in the order of their numbers.
Ordered(C, K, E, last) ==
    /\ Newer(C, K, E, last + 1)
    /\ \A i \in 1 .. Len(C) : C[i].type = "createPeer" =>
        /\ C[i].id <= last
        /\ Newer(C, K, E, C[i].id)
        /\ \A j \in 1 .. Len(C) : j < i /\ C[j].type = "createPeer" => C[j].id < C[i].id

Agrees(P, C, K, E, last) ==
    /\ ReadyIsOpen(P, K, E) /\ Together(P, C, K, E) /\ OpenIsReady(P, K, E)
    /\ Ordered(C, K, E, last)

AgreementInv ==
    \A n \in Nodes : Agrees(peers[n], commands[n], connections[n], events[n], made[n])

\* F is what is left of the queue E when its first message is taken.
Rest(E, F) ==
    /\ Len(E) \in Nat /\ Len(F) \in Nat /\ Len(E) = Len(F) + 1
    /\ \A i \in 1 .. Len(F) : F[i] = E[i + 1]

\* D is the queue C with messages added.
Extends(C, D) ==
    /\ Len(C) \in Nat /\ Len(D) \in Nat /\ Len(C) <= Len(D)
    /\ \A i \in 1 .. Len(C) : D[i] = C[i]

\* Where the messages are once the first one is taken.
LEMMA RestIndexes ==
    ASSUME NEW E, NEW F, Rest(E, F)
    PROVE  /\ 1 \in 1 .. Len(E)
           /\ \A i \in 1 .. Len(F) : i + 1 \in 1 .. Len(E) /\ F[i] = E[i + 1]
           /\ \A j \in 1 .. Len(E) : j # 1 => j - 1 \in 1 .. Len(F) /\ F[j - 1] = E[j]
<1> DEFINE a == Len(E)
           b == Len(F)
<1>1. a \in Nat /\ b \in Nat /\ a = b + 1 /\ \A i \in 1 .. b : F[i] = E[i + 1]
  BY DEF Rest
<1> HIDE DEF a, b
<1>2. 1 \in 1 .. a /\ \A i \in 1 .. b : i + 1 \in 1 .. a
  BY <1>1
<1>3. \A j \in 1 .. a : j # 1 => j - 1 \in 1 .. b /\ (j - 1) + 1 = j
  BY <1>1
<1>4. \A j \in 1 .. a : j # 1 => j - 1 \in 1 .. b /\ F[j - 1] = E[j]
  BY <1>1, <1>3
<1> QED
  BY <1>1, <1>2, <1>4 DEF a, b

\* How the controller treats its peer when it handles the event e.
PeerFollows(P, P2, e) ==
    /\ \A m \in Nodes \ {e.peer} : P2[m] = P[m]
    /\ Removes(e, e.peer) => P2[e.peer] = None
    /\ ~Removes(e, e.peer) /\ P[e.peer] # None => P2[e.peer] # None
    /\ IsReady(P2, e.peer) => IsReady(P, e.peer) \/ Opens(e, e.peer)
    /\ IsReady(P, e.peer) \/ (Opens(e, e.peer) /\ P[e.peer] # None)
            => IsReady(P2, e.peer) \/ Removes(e, e.peer)

\* What it sends: the connection is closed only when the peer is forgotten, and
\* a description is set only when it was made.
Sends(P, C, D, e) ==
    /\ Extends(C, D)
    /\ \A i \in 1 .. Len(D) : Len(C) < i =>
        /\ i = Len(C) + 1
        /\ D[i].peer = e.peer /\ D[i].type # "createPeer"
        /\ D[i].type = "closePeer" => Removes(e, e.peer)
        /\ SetsLocal(D[i]) => D[i].id = e.id /\ Describes(e, e.peer, e.id) /\ P[e.peer] # None

\* Handling an event keeps what is ready open.
LEMMA EventReady ==
    ASSUME NEW P, NEW P2, NEW K, NEW E, NEW F, Rest(E, F), ReadyIsOpen(P, K, E),
           PeerFollows(P, P2, E[1]), E[1].peer \in Nodes
    PROVE  ReadyIsOpen(P2, K, F)
<1>1. /\ 1 \in 1 .. Len(E)
      /\ \A i \in 1 .. Len(F) : i + 1 \in 1 .. Len(E) /\ F[i] = E[i + 1]
      /\ \A j \in 1 .. Len(E) : j # 1 => j - 1 \in 1 .. Len(F) /\ F[j - 1] = E[j]
  BY RestIndexes
<1>2. \A i, j \in 1 .. Len(E) : i < j => j # 1
  BY DEF Rest
<1>3. ASSUME NEW m \in Nodes, IsReady(P2, m)
      PROVE  IsOpen(K, m) \/ \E j \in 1 .. Len(F) : Removes(F[j], m)
  <2>1. P2[m] # None
    BY <1>3 DEF IsReady
  <2>2. ~Removes(E[1], m)
    BY <2>1 DEF PeerFollows, Removes
  <2>3. CASE IsReady(P, m)
    <3>1. IsOpen(K, m) \/ \E j \in 1 .. Len(E) : Removes(E[j], m)
      BY <2>3 DEF ReadyIsOpen
    <3> QED
      BY <1>1, <2>2, <3>1
  <2>4. CASE Opens(E[1], m)
    <3>1. IsOpen(K, m) \/ \E j \in 1 .. Len(E) : 1 < j /\ Removes(E[j], m)
      BY <1>1, <2>4 DEF ReadyIsOpen
    <3> QED
      BY <1>1, <2>2, <3>1
  <2>5. IsReady(P, m) \/ Opens(E[1], m)
    BY <1>3 DEF PeerFollows, IsReady
  <2> QED
    BY <2>3, <2>4, <2>5
<1>4. ASSUME NEW m \in Nodes, NEW i \in 1 .. Len(F), Opens(F[i], m)
      PROVE  IsOpen(K, m) \/ \E j \in 1 .. Len(F) : i < j /\ Removes(F[j], m)
  <2>1. i + 1 \in 1 .. Len(E) /\ Opens(E[i + 1], m)
    BY <1>1, <1>4
  <2>2. IsOpen(K, m) \/ \E j \in 1 .. Len(E) : i + 1 < j /\ Removes(E[j], m)
    BY <2>1 DEF ReadyIsOpen
  <2>3. \A j \in 1 .. Len(E) : i + 1 < j => j # 1 /\ i < j - 1
    BY DEF Rest
  <2> QED
    BY <1>1, <2>2, <2>3
<1> QED
  BY <1>3, <1>4 DEF ReadyIsOpen

\* A peer and a connection that belong together still do when an event that is
\* not about to part them is handled.
LEMMA EventUndisturbed ==
    ASSUME NEW P, NEW P2, NEW C, NEW D, NEW E, NEW F, NEW m \in Nodes, Rest(E, F),
           PeerFollows(P, P2, E[1]), Sends(P, C, D, E[1]), Undisturbed(P, C, E, m)
    PROVE  Undisturbed(P2, D, F, m)
<1>1. /\ 1 \in 1 .. Len(E)
      /\ \A i \in 1 .. Len(F) : i + 1 \in 1 .. Len(E) /\ F[i] = E[i + 1]
  BY RestIndexes
<1>2. P[m] # None /\ ~Removes(E[1], m)
  BY <1>1 DEF Undisturbed
<1>3. P2[m] # None
  BY <1>2 DEF PeerFollows, Removes
<1>4. \A i \in 1 .. Len(F) : ~Removes(F[i], m)
  BY <1>1 DEF Undisturbed
<1>5. ASSUME NEW i \in 1 .. Len(D)
      PROVE  ~Replaces(D[i], m)
  <2>1. CASE Len(C) < i
    BY <1>2, <2>1 DEF Sends, Replaces, Removes
  <2>2. CASE ~(Len(C) < i)
    <3>1. i \in 1 .. Len(C) /\ D[i] = C[i]
      BY <2>2 DEF Sends, Extends
    <3> QED
      BY <3>1 DEF Undisturbed
  <2> QED
    BY <2>1, <2>2
<1> QED
  BY <1>3, <1>4, <1>5 DEF Undisturbed

\* Handling an event keeps peers and connections together.
LEMMA EventTogether ==
    ASSUME NEW P, NEW P2, NEW C, NEW D, NEW K, NEW E, NEW F, Rest(E, F), Together(P, C, K, E),
           PeerFollows(P, P2, E[1]), Sends(P, C, D, E[1])
    PROVE  Together(P2, D, K, F)
<1>1. /\ 1 \in 1 .. Len(E)
      /\ \A i \in 1 .. Len(F) : i + 1 \in 1 .. Len(E) /\ F[i] = E[i + 1]
  BY RestIndexes
<1> SUFFICES ASSUME NEW m \in Nodes, IsLive(K, m)
             PROVE  /\ K[m].local # "none" => Undisturbed(P2, D, F, m)
                    /\ \A i \in 1 .. Len(D) :
                            /\ SetsLocal(D[i]) /\ D[i].peer = m /\ D[i].id = K[m].id
                            /\ \A j \in 1 .. Len(D) : j < i => ~Replaces(D[j], m)
                            => Undisturbed(P2, D, F, m)
                    /\ \A i, j \in 1 .. Len(F) : Describes(F[i], m, K[m].id) /\ i < j => ~Removes(F[j], m)
  BY DEF Together
<1>2. /\ K[m].local # "none" => Undisturbed(P, C, E, m)
      /\ \A i \in 1 .. Len(C) :
              /\ SetsLocal(C[i]) /\ C[i].peer = m /\ C[i].id = K[m].id
              /\ \A j \in 1 .. Len(C) : j < i => ~Replaces(C[j], m)
              => Undisturbed(P, C, E, m)
      /\ \A i, j \in 1 .. Len(E) : Describes(E[i], m, K[m].id) /\ i < j => ~Removes(E[j], m)
  BY DEF Together
<1>3. Undisturbed(P, C, E, m) => Undisturbed(P2, D, F, m)
  BY EventUndisturbed
<1>4. ASSUME NEW i \in 1 .. Len(D), SetsLocal(D[i]), D[i].peer = m, D[i].id = K[m].id,
             \A j \in 1 .. Len(D) : j < i => ~Replaces(D[j], m)
      PROVE  Undisturbed(P2, D, F, m)
  <2>1. \A j \in 1 .. Len(C) : j \in 1 .. Len(D) /\ D[j] = C[j]
    BY DEF Sends, Extends
  <2>2. CASE ~(Len(C) < i)
    <3>1. i \in 1 .. Len(C) /\ D[i] = C[i]
      BY <2>1, <2>2 DEF Sends, Extends
    <3>2. \A j \in 1 .. Len(C) : j < i => ~Replaces(C[j], m)
      BY <1>4, <2>1
    <3> QED
      BY <1>2, <1>3, <1>4, <3>1, <3>2
  <2>3. CASE Len(C) < i
    <3>1. /\ i = Len(C) + 1
          /\ E[1].peer = m /\ Describes(E[1], m, K[m].id) /\ P[m] # None
      BY <1>4, <2>3 DEF Sends
    <3>2. \A j \in 1 .. Len(F) : 1 < j + 1
      BY DEF Rest
    <3>3. \A j \in 1 .. Len(F) : ~Removes(F[j], m)
      BY <1>1, <1>2, <3>1, <3>2
    <3>4. ~Removes(E[1], m)
      BY <3>1 DEF Describes, Removes
    <3>5. P2[m] # None
      BY <3>1, <3>4 DEF PeerFollows
    <3>6. ASSUME NEW j \in 1 .. Len(D)
          PROVE  ~Replaces(D[j], m)
      <4>1. CASE j < i
        BY <1>4, <4>1
      <4>2. CASE ~(j < i)
        <5>1. j = i
          BY <2>3, <3>1, <4>2 DEF Sends, Extends
        <5> QED
          BY <1>4, <5>1 DEF SetsLocal, Replaces
      <4> QED
        BY <4>1, <4>2
    <3> QED
      BY <3>3, <3>5, <3>6 DEF Undisturbed
  <2> QED
    BY <2>2, <2>3
<1>5. ASSUME NEW i \in 1 .. Len(F), NEW j \in 1 .. Len(F), Describes(F[i], m, K[m].id), i < j
      PROVE  ~Removes(F[j], m)
  <2>1. i + 1 < j + 1
    BY <1>5 DEF Rest
  <2> QED
    BY <1>1, <1>2, <1>5, <2>1
<1> QED
  BY <1>2, <1>3, <1>4, <1>5

\* Handling an event makes or keeps the peer of an open channel ready.
LEMMA EventOpen ==
    ASSUME NEW P, NEW P2, NEW C, NEW K, NEW E, NEW F, Rest(E, F), Together(P, C, K, E),
           OpenIsReady(P, K, E), PeerFollows(P, P2, E[1])
    PROVE  OpenIsReady(P2, K, F)
<1>1. /\ 1 \in 1 .. Len(E)
      /\ \A j \in 1 .. Len(E) : j # 1 => j - 1 \in 1 .. Len(F) /\ F[j - 1] = E[j]
  BY RestIndexes
<1> SUFFICES ASSUME NEW m \in Nodes, IsOpen(K, m)
             PROVE  K[m].local # "none" /\ (IsReady(P2, m) \/ \E i \in 1 .. Len(F) : Opens(F[i], m))
  BY DEF OpenIsReady
<1>2. K[m].local # "none" /\ (IsReady(P, m) \/ \E i \in 1 .. Len(E) : Opens(E[i], m))
  BY DEF OpenIsReady
<1>3. Undisturbed(P, C, E, m)
  BY <1>2 DEF Together, IsOpen, IsLive
<1>4. P[m] # None /\ ~Removes(E[1], m)
  BY <1>1, <1>3 DEF Undisturbed
<1>5. CASE IsReady(P, m) \/ Opens(E[1], m)
  <2>1. CASE m = E[1].peer
    BY <1>2, <1>4, <1>5, <2>1 DEF PeerFollows
  <2>2. CASE m # E[1].peer
    BY <1>2, <1>5, <2>2 DEF PeerFollows, IsReady, Opens
  <2> QED
    BY <2>1, <2>2
<1>6. CASE \E i \in 1 .. Len(E) : i # 1 /\ Opens(E[i], m)
  BY <1>1, <1>2, <1>6
<1> QED
  BY <1>2, <1>5, <1>6

\* Handling an event leaves the order of the connections alone.
LEMMA EventOrdered ==
    ASSUME NEW P, NEW C, NEW D, NEW K, NEW E, NEW F, NEW last, Rest(E, F), Ordered(C, K, E, last),
           Sends(P, C, D, E[1])
    PROVE  Ordered(D, K, F, last)
<1>1. /\ 1 \in 1 .. Len(E)
      /\ \A i \in 1 .. Len(F) : i + 1 \in 1 .. Len(E) /\ F[i] = E[i + 1]
  BY RestIndexes
<1>2. \A i \in 1 .. Len(D) : ~(Len(C) < i) => i \in 1 .. Len(C) /\ D[i] = C[i]
  BY DEF Sends, Extends
<1>3. ASSUME NEW k, Newer(C, K, E, k)
      PROVE  Newer(D, K, F, k)
  <2>1. ASSUME NEW i \in 1 .. Len(D), SetsLocal(D[i])
        PROVE  D[i].id < k
    <3>1. CASE Len(C) < i
      BY <1>1, <1>3, <2>1, <3>1 DEF Sends, Newer
    <3>2. CASE ~(Len(C) < i)
      BY <1>2, <1>3, <2>1, <3>2 DEF Newer
    <3> QED
      BY <3>1, <3>2
  <2> QED
    BY <1>1, <1>3, <2>1 DEF Newer
<1>4. ASSUME NEW i \in 1 .. Len(D), D[i].type = "createPeer"
      PROVE  i \in 1 .. Len(C) /\ D[i] = C[i]
  BY <1>2, <1>4 DEF Sends
<1> QED
  BY <1>3, <1>4 DEF Ordered

\* The proxy takes s commands (one or none) of the queue C and leaves D.
Consumes(C, D, s) ==
    /\ s \in {0, 1} /\ Len(C) \in Nat /\ Len(D) \in Nat /\ Len(C) = Len(D) + s
    /\ \A i \in 1 .. Len(D) : D[i] = C[i + s]

\* The events R are put at the end of the queue E, which becomes F.
Adds(E, F, R) ==
    /\ Len(E) \in Nat /\ Len(R) \in Nat /\ Len(F) = Len(E) + Len(R)
    /\ \A i \in 1 .. Len(E) : F[i] = E[i]
    /\ \A i \in 1 .. Len(R) : F[Len(E) + i] = R[i]

\* What a step of the proxy may do with its connection with m, old, and what it
\* reports of it: the connection is kept and may be described or come up, it
\* ends, it is made anew, or there is none.
Kept(C, s, old, conn, R, m) ==
    /\ s = 1 => ~Replaces(C[1], m)
    /\ old # None /\ conn # None /\ conn.id = old.id
    /\ \A i \in 1 .. Len(R) : ~Removes(R[i], m)
    /\ \/ conn.local = old.local
       \/ s = 1 /\ SetsLocal(C[1]) /\ C[1].peer = m /\ C[1].id = old.id /\ conn.local # "none"
    /\ \/ conn.channel = old.channel /\ \A i \in 1 .. Len(R) : ~Opens(R[i], m)
       \/ /\ old.channel = "connecting" /\ conn.channel = "open" /\ conn.local # "none"
          /\ \E i \in 1 .. Len(R) : Opens(R[i], m)
Ended(C, s, old, conn, R, m) ==
    /\ s = 1 => C[1].type # "createPeer"
    /\ old # None /\ (conn # None => conn.channel = "closed" /\ conn.id = old.id)
    /\ \E i \in 1 .. Len(R) : Removes(R[i], m)
    /\ \A i \in 1 .. Len(R) : ~Opens(R[i], m)
Made(C, s, old, conn, R, m) ==
    /\ s = 1 /\ C[1].type = "createPeer" /\ C[1].peer = m
    /\ conn # None /\ conn.id = C[1].id /\ conn.local = "none" /\ conn.channel = "connecting"
    /\ \A i \in 1 .. Len(R) : ~Opens(R[i], m) /\ R[i].type \notin {"offerCreated", "answerCreated"}
    /\ old # None => \E i \in 1 .. Len(R) : Removes(R[i], m)
Absent(C, s, old, conn, R, m) ==
    s = 1 /\ C[1].type # "createPeer" /\ old = None /\ conn = None /\ Len(R) = 0

Turn(C, D, s, K, K2, E, F, R, m) ==
    /\ Consumes(C, D, s) /\ (s = 1 => C[1].peer = m)
    /\ Adds(E, F, R)
    /\ \A j \in Nodes \ {m} : K2[j] = K[j]
    /\ \A i \in 1 .. Len(R) : /\ R[i].peer = m
                              /\ \/ K[m] # None /\ R[i].id = K[m].id
                                 \/ K2[m] # None /\ R[i].id = K2[m].id
    /\ \/ Kept(C, s, K[m], K2[m], R, m) \/ Ended(C, s, K[m], K2[m], R, m)
       \/ Made(C, s, K[m], K2[m], R, m) \/ Absent(C, s, K[m], K2[m], R, m)

\* Where the commands and the events are after a step of the proxy.
LEMMA TurnIndexes ==
    ASSUME NEW C, NEW D, NEW s, NEW E, NEW F, NEW R, Consumes(C, D, s), Adds(E, F, R)
    PROVE  /\ \A i \in 1 .. Len(D) : i + s \in 1 .. Len(C) /\ D[i] = C[i + s]
           /\ \A i \in 1 .. Len(D), l \in 1 .. Len(C) :
                l < i + s => (s = 1 /\ l = 1)
                             \/ (l - s \in 1 .. Len(D) /\ l - s < i /\ D[l - s] = C[l])
           /\ s = 1 => 1 \in 1 .. Len(C)
           /\ \A i \in 1 .. Len(E) : i \in 1 .. Len(F) /\ F[i] = E[i]
           /\ \A i \in 1 .. Len(R) : Len(E) + i \in 1 .. Len(F) /\ F[Len(E) + i] = R[i]
           /\ \A i \in 1 .. Len(F) : \/ i \in 1 .. Len(E) /\ F[i] = E[i]
                                     \/ i > Len(E) /\ i - Len(E) \in 1 .. Len(R) /\ F[i] = R[i - Len(E)]
<1> DEFINE c == Len(C)
           d == Len(D)
           e == Len(E)
           f == Len(F)
           r == Len(R)
<1>1. s \in {0, 1} /\ c \in Nat /\ d \in Nat /\ c = d + s /\ \A i \in 1 .. d : D[i] = C[i + s]
  BY DEF Consumes
<1>2. e \in Nat /\ r \in Nat /\ f = e + r /\ (\A i \in 1 .. e : F[i] = E[i])
      /\ \A i \in 1 .. r : F[e + i] = R[i]
  BY DEF Adds
<1> HIDE DEF c, d, e, f, r
<1>3. (\A i \in 1 .. d : i + s \in 1 .. c) /\ (s = 1 => 1 \in 1 .. c)
  BY <1>1
<1>4. ASSUME NEW i \in 1 .. d, NEW l \in 1 .. c, l < i + s, ~(s = 1 /\ l = 1)
      PROVE  l - s \in 1 .. d /\ l - s < i /\ (l - s) + s = l
  BY <1>1, <1>4
<1>5. ASSUME NEW i \in 1 .. d, NEW l \in 1 .. c, l < i + s, ~(s = 1 /\ l = 1)
      PROVE  D[l - s] = C[l]
  BY <1>1, <1>4, <1>5
<1>6. \A i \in 1 .. e : i \in 1 .. f
  BY <1>2
<1>7. \A i \in 1 .. r : e + i \in 1 .. f
  BY <1>2
<1>8. \A i \in 1 .. f : i \in 1 .. e \/ (i > e /\ i - e \in 1 .. r /\ e + (i - e) = i)
  BY <1>2
<1>9. \A i \in 1 .. f : i \in 1 .. e \/ (i > e /\ i - e \in 1 .. r /\ F[i] = R[i - e])
  BY <1>2, <1>8
<1> QED
  BY <1>1, <1>2, <1>3, <1>4, <1>5, <1>6, <1>7, <1>9 DEF c, d, e, f, r

\* A step of the proxy keeps what is ready open, or reports its end.
LEMMA TurnReady ==
    ASSUME NEW P, NEW C, NEW D, NEW s, NEW K, NEW K2, NEW E, NEW F, NEW R, NEW m \in Nodes,
           Turn(C, D, s, K, K2, E, F, R, m), ReadyIsOpen(P, K, E)
    PROVE  ReadyIsOpen(P, K2, F)
<1>1. /\ \A i \in 1 .. Len(E) : i \in 1 .. Len(F) /\ F[i] = E[i]
      /\ \A i \in 1 .. Len(R) : Len(E) + i \in 1 .. Len(F) /\ F[Len(E) + i] = R[i]
      /\ \A i \in 1 .. Len(F) : \/ i \in 1 .. Len(E) /\ F[i] = E[i]
                                \/ i > Len(E) /\ i - Len(E) \in 1 .. Len(R) /\ F[i] = R[i - Len(E)]
  BY TurnIndexes DEF Turn
<1>2. \A i \in 1 .. Len(E), j \in 1 .. Len(R) : i < Len(E) + j
  BY DEF Turn, Adds
<1>3. IsOpen(K, m) => IsOpen(K2, m) \/ \E i \in 1 .. Len(R) : Removes(R[i], m)
  BY DEF Turn, Kept, Ended, Made, Absent, IsOpen
<1>4. \A j \in Nodes : IsOpen(K, j) =>
            IsOpen(K2, j) \/ \E i \in 1 .. Len(R) : Removes(R[i], j)
  BY <1>3 DEF Turn, IsOpen
<1>5. ASSUME NEW j \in Nodes, IsReady(P, j)
      PROVE  IsOpen(K2, j) \/ \E i \in 1 .. Len(F) : Removes(F[i], j)
  <2>1. IsOpen(K, j) \/ \E i \in 1 .. Len(E) : Removes(E[i], j)
    BY <1>5 DEF ReadyIsOpen
  <2> QED
    BY <1>1, <1>4, <2>1
<1>6. ASSUME NEW j \in Nodes, NEW i \in 1 .. Len(F), Opens(F[i], j)
      PROVE  IsOpen(K2, j) \/ \E l \in 1 .. Len(F) : i < l /\ Removes(F[l], j)
  <2>1. CASE i \in 1 .. Len(E) /\ F[i] = E[i]
    <3>1. IsOpen(K, j) \/ \E l \in 1 .. Len(E) : i < l /\ Removes(E[l], j)
      BY <1>6, <2>1 DEF ReadyIsOpen
    <3>2. CASE \E l \in 1 .. Len(E) : i < l /\ Removes(E[l], j)
      BY <1>1, <3>2
    <3>3. CASE IsOpen(K, j)
      BY <1>1, <1>2, <1>4, <2>1, <3>3
    <3> QED
      BY <3>1, <3>2, <3>3
  <2>2. CASE i - Len(E) \in 1 .. Len(R) /\ F[i] = R[i - Len(E)]
    <3>1. j = m
      BY <1>6, <2>2 DEF Turn, Opens
    <3>2. Kept(C, s, K[m], K2[m], R, m) /\ K2[m].channel = "open"
      BY <1>6, <2>2, <3>1 DEF Turn, Kept, Ended, Made, Absent
    <3> QED
      BY <3>1, <3>2 DEF Kept, IsOpen
  <2> QED
    BY <1>1, <2>1, <2>2
<1> QED
  BY <1>5, <1>6 DEF ReadyIsOpen

\* What the proxy does with one connection parts no other peer from its own, nor
\* this one while it is kept.
LEMMA TurnUndisturbed ==
    ASSUME NEW P, NEW C, NEW D, NEW s, NEW K, NEW K2, NEW E, NEW F, NEW R, NEW m \in Nodes,
           NEW j \in Nodes, Turn(C, D, s, K, K2, E, F, R, m), Undisturbed(P, C, E, j),
           j # m \/ Kept(C, s, K[m], K2[m], R, m)
    PROVE  Undisturbed(P, D, F, j)
<1>1. /\ \A i \in 1 .. Len(D) : i + s \in 1 .. Len(C) /\ D[i] = C[i + s]
      /\ \A i \in 1 .. Len(F) : \/ i \in 1 .. Len(E) /\ F[i] = E[i]
                                \/ i > Len(E) /\ i - Len(E) \in 1 .. Len(R) /\ F[i] = R[i - Len(E)]
  BY TurnIndexes DEF Turn
<1>2. \A i \in 1 .. Len(R) : ~Removes(R[i], j)
  BY DEF Turn, Kept, Removes
<1> QED
  BY <1>1, <1>2 DEF Undisturbed

\* A step of the proxy keeps peers and connections together.
LEMMA TurnTogether ==
    ASSUME NEW P, NEW C, NEW D, NEW s, NEW K, NEW K2, NEW E, NEW F, NEW R, NEW last, NEW m \in Nodes,
           Turn(C, D, s, K, K2, E, F, R, m), Together(P, C, K, E), Ordered(C, K, E, last),
           s = 1 => C[1].id \in Nat
    PROVE  Together(P, D, K2, F)
<1>1. /\ \A i \in 1 .. Len(D) : i + s \in 1 .. Len(C) /\ D[i] = C[i + s]
      /\ \A i \in 1 .. Len(D), l \in 1 .. Len(C) :
           l < i + s => (s = 1 /\ l = 1)
                        \/ (l - s \in 1 .. Len(D) /\ l - s < i /\ D[l - s] = C[l])
      /\ s = 1 => 1 \in 1 .. Len(C)
      /\ \A i \in 1 .. Len(F) : \/ i \in 1 .. Len(E) /\ F[i] = E[i]
                                \/ i > Len(E) /\ i - Len(E) \in 1 .. Len(R) /\ F[i] = R[i - Len(E)]
  BY TurnIndexes DEF Turn
<1>2. \A i, l \in 1 .. Len(F) : i < l /\ l \in 1 .. Len(E) => i \in 1 .. Len(E) /\ F[i] = E[i]
  BY DEF Turn, Adds
<1> SUFFICES ASSUME NEW j \in Nodes, IsLive(K2, j)
             PROVE  /\ K2[j].local # "none" => Undisturbed(P, D, F, j)
                    /\ \A i \in 1 .. Len(D) :
                            /\ SetsLocal(D[i]) /\ D[i].peer = j /\ D[i].id = K2[j].id
                            /\ \A l \in 1 .. Len(D) : l < i => ~Replaces(D[l], j)
                            => Undisturbed(P, D, F, j)
                    /\ \A i, l \in 1 .. Len(F) : Describes(F[i], j, K2[j].id) /\ i < l => ~Removes(F[l], j)
  BY DEF Together
<1>3. CASE j # m \/ Kept(C, s, K[m], K2[m], R, m)
  <2>1. IsLive(K, j) /\ K2[j].id = K[j].id
    BY <1>3 DEF Turn, Kept, IsLive
  <2>2. /\ K[j].local # "none" => Undisturbed(P, C, E, j)
        /\ \A i \in 1 .. Len(C) :
                /\ SetsLocal(C[i]) /\ C[i].peer = j /\ C[i].id = K[j].id
                /\ \A l \in 1 .. Len(C) : l < i => ~Replaces(C[l], j)
                => Undisturbed(P, C, E, j)
        /\ \A i, l \in 1 .. Len(E) : Describes(E[i], j, K[j].id) /\ i < l => ~Removes(E[l], j)
    BY <2>1 DEF Together
  <2>3. Undisturbed(P, C, E, j) => Undisturbed(P, D, F, j)
    BY <1>3, TurnUndisturbed
  <2>4. s = 1 => ~Replaces(C[1], j)
    BY <1>3 DEF Turn, Kept, Replaces
  <2>5. ASSUME K2[j].local # "none"
        PROVE  Undisturbed(P, C, E, j)
    <3>1. CASE K2[j].local = K[j].local
      BY <2>2, <2>5, <3>1
    <3>2. CASE j = m /\ s = 1 /\ SetsLocal(C[1]) /\ C[1].peer = m /\ C[1].id = K[m].id
      <4>1. 1 \in 1 .. Len(C) /\ \A l \in 1 .. Len(C) : ~(l < 1)
        BY <1>1, <3>2 DEF Turn, Consumes
      <4> QED
        BY <2>2, <3>2, <4>1
    <3> QED
      BY <1>3, <3>1, <3>2 DEF Turn, Kept
  <2>6. ASSUME NEW i \in 1 .. Len(D), SetsLocal(D[i]), D[i].peer = j, D[i].id = K2[j].id,
               \A l \in 1 .. Len(D) : l < i => ~Replaces(D[l], j)
        PROVE  Undisturbed(P, C, E, j)
    <3>1. i + s \in 1 .. Len(C) /\ SetsLocal(C[i + s]) /\ C[i + s].peer = j /\ C[i + s].id = K[j].id
      BY <1>1, <2>1, <2>6
    <3>2. \A l \in 1 .. Len(C) : l < i + s => ~Replaces(C[l], j)
      BY <1>1, <2>4, <2>6
    <3> QED
      BY <2>2, <3>1, <3>2
  <2>7. ASSUME NEW i \in 1 .. Len(F), NEW l \in 1 .. Len(F), Describes(F[i], j, K2[j].id), i < l
        PROVE  ~Removes(F[l], j)
    <3>1. CASE l \in 1 .. Len(E) /\ F[l] = E[l]
      BY <1>2, <2>1, <2>2, <2>7, <3>1
    <3>2. CASE l - Len(E) \in 1 .. Len(R) /\ F[l] = R[l - Len(E)]
      BY <1>3, <3>2 DEF Turn, Kept, Removes
    <3> QED
      BY <1>1, <3>1, <3>2
  <2> QED
    BY <2>3, <2>5, <2>6, <2>7
<1>4. CASE j = m /\ ~Kept(C, s, K[m], K2[m], R, m)
  <2>1. Made(C, s, K[m], K2[m], R, m)
    BY <1>4 DEF Turn, IsLive, Ended, Absent
  <2>2. Newer(C, K, E, C[1].id) /\ C[1].id \in Nat
    BY <1>1, <2>1 DEF Ordered, Made
  <2>3. \A i \in 1 .. Len(D) : ~(SetsLocal(D[i]) /\ D[i].id = K2[m].id)
    BY <1>1, <2>1, <2>2 DEF Newer, Made
  <2>4. \A i \in 1 .. Len(F) : ~Describes(F[i], m, K2[m].id)
    <3>1. ~(C[1].id < C[1].id) /\ K2[m].id = C[1].id
      BY <2>1, <2>2 DEF Made
    <3>2. \A i \in 1 .. Len(E) : ~Describes(E[i], m, K2[m].id)
      BY <2>2, <3>1 DEF Newer, Describes
    <3>3. \A i \in 1 .. Len(R) : ~Describes(R[i], m, K2[m].id)
      BY <2>1 DEF Made, Describes
    <3> QED
      BY <1>1, <3>2, <3>3
  <2> QED
    BY <1>4, <2>1, <2>3, <2>4 DEF Made
<1> QED
  BY <1>3, <1>4

\* A step of the proxy opens a channel only of a described connection, and says so.
LEMMA TurnOpen ==
    ASSUME NEW P, NEW C, NEW D, NEW s, NEW K, NEW K2, NEW E, NEW F, NEW R, NEW m \in Nodes,
           Turn(C, D, s, K, K2, E, F, R, m), OpenIsReady(P, K, E)
    PROVE  OpenIsReady(P, K2, F)
<1>1. /\ \A i \in 1 .. Len(E) : i \in 1 .. Len(F) /\ F[i] = E[i]
      /\ \A i \in 1 .. Len(R) : Len(E) + i \in 1 .. Len(F) /\ F[Len(E) + i] = R[i]
  BY TurnIndexes DEF Turn
<1> SUFFICES ASSUME NEW j \in Nodes, IsOpen(K2, j)
             PROVE  K2[j].local # "none" /\ (IsReady(P, j) \/ \E i \in 1 .. Len(F) : Opens(F[i], j))
  BY DEF OpenIsReady
<1>2. CASE j # m
  <2>1. K2[j] = K[j]
    BY <1>2 DEF Turn
  <2>2. IsOpen(K, j)
    BY <2>1 DEF IsOpen
  <2> QED
    BY <1>1, <2>1, <2>2 DEF OpenIsReady
<1>3. CASE j = m
  <2>1. Kept(C, s, K[m], K2[m], R, m)
    BY <1>3 DEF Turn, IsOpen, Ended, Made, Absent
  <2>2. CASE K2[m].channel = K[m].channel
    <3>1. IsOpen(K, m)
      BY <1>3, <2>1, <2>2 DEF IsOpen, Kept
    <3>2. K[m].local # "none" /\ (IsReady(P, m) \/ \E i \in 1 .. Len(E) : Opens(E[i], m))
      BY <3>1 DEF OpenIsReady
    <3>3. K2[m].local # "none"
      BY <2>1, <3>2 DEF Kept
    <3> QED
      BY <1>1, <1>3, <3>2, <3>3
  <2>3. CASE K2[m].channel # K[m].channel
    <3>1. K2[m].local # "none" /\ \E i \in 1 .. Len(R) : Opens(R[i], m)
      BY <2>1, <2>3 DEF Kept
    <3> QED
      BY <1>1, <1>3, <3>1
  <2> QED
    BY <2>2, <2>3
<1> QED
  BY <1>2, <1>3

\* A step of the proxy makes the connections in the order of their numbers.
LEMMA TurnOrdered ==
    ASSUME NEW C, NEW D, NEW s, NEW K, NEW K2, NEW E, NEW F, NEW R, NEW last \in Nat, NEW m \in Nodes,
           Turn(C, D, s, K, K2, E, F, R, m), Ordered(C, K, E, last), s = 1 => C[1].id \in Nat
    PROVE  Ordered(D, K2, F, last)
<1>1. /\ \A i \in 1 .. Len(D) : i + s \in 1 .. Len(C) /\ D[i] = C[i + s]
      /\ s = 1 => 1 \in 1 .. Len(C)
      /\ \A i \in 1 .. Len(F) : \/ i \in 1 .. Len(E) /\ F[i] = E[i]
                                \/ i > Len(E) /\ i - Len(E) \in 1 .. Len(R) /\ F[i] = R[i - Len(E)]
  BY TurnIndexes DEF Turn
<1>2. ASSUME NEW k, Newer(C, K, E, k), Made(C, s, K[m], K2[m], R, m) => C[1].id < k
      PROVE  Newer(D, K2, F, k)
  <2>1. K2[m] # None => K2[m].id < k
    BY <1>2 DEF Turn, Kept, Ended, Made, Absent, Newer
  <2>2. K[m] # None => K[m].id < k
    BY <1>2 DEF Newer
  <2>3. \A j \in Nodes : K2[j] # None => K2[j].id < k
    BY <1>2, <2>1 DEF Turn, Newer
  <2>4. \A i \in 1 .. Len(R) : R[i].id < k
    BY <2>1, <2>2 DEF Turn
  <2>5. \A i \in 1 .. Len(F) : F[i].id < k
    BY <1>1, <1>2, <2>4 DEF Newer
  <2>6. \A i \in 1 .. Len(D) : SetsLocal(D[i]) => D[i].id < k
    BY <1>1, <1>2 DEF Newer
  <2> QED
    BY <2>3, <2>5, <2>6 DEF Newer
<1>3. Newer(D, K2, F, last + 1)
  <2>1. Made(C, s, K[m], K2[m], R, m) => C[1].id <= last /\ C[1].id \in Nat
    BY <1>1 DEF Made, Ordered
  <2>2. Made(C, s, K[m], K2[m], R, m) => C[1].id < last + 1
    BY <2>1
  <2> QED
    BY <1>2, <2>2 DEF Ordered
<1>4. ASSUME NEW i \in 1 .. Len(D), D[i].type = "createPeer"
      PROVE  /\ D[i].id <= last
             /\ Newer(D, K2, F, D[i].id)
             /\ \A j \in 1 .. Len(D) : j < i /\ D[j].type = "createPeer" => D[j].id < D[i].id
  <2>1. i + s \in 1 .. Len(C) /\ D[i] = C[i + s]
    BY <1>1
  <2>2. /\ C[i + s].id <= last /\ Newer(C, K, E, C[i + s].id)
        /\ \A j \in 1 .. Len(C) : j < i + s /\ C[j].type = "createPeer" => C[j].id < C[i + s].id
    BY <1>4, <2>1 DEF Ordered
  <2>3. s = 1 => 1 < i + s
    BY DEF Turn, Consumes
  <2>4. Made(C, s, K[m], K2[m], R, m) => C[1].id < C[i + s].id
    BY <1>1, <2>2, <2>3 DEF Made
  <2>5. Newer(D, K2, F, D[i].id)
    BY <1>2, <2>1, <2>2, <2>4
  <2>6. ASSUME NEW j \in 1 .. Len(D), j < i, D[j].type = "createPeer"
        PROVE  D[j].id < D[i].id
    <3>1. j + s \in 1 .. Len(C) /\ D[j] = C[j + s] /\ j + s < i + s
      BY <1>1, <2>6 DEF Turn, Consumes
    <3> QED
      BY <2>1, <2>2, <2>6, <3>1
  <2> QED
    BY <2>1, <2>2, <2>5, <2>6
<1> QED
  BY <1>3, <1>4 DEF Ordered

\* What a signal may add to the commands and the peers of a node: a remote
\* description, or a peer the node did not have and the order for its connection.
Signaled(P, P2, C, D, last, last2, m) ==
    /\ Extends(C, D)
    /\ \A j \in Nodes \ {m} : P2[j] = P[j]
    /\ \/ /\ P2[m] = P[m] /\ last2 = last
          /\ \A i \in 1 .. Len(D) : Len(C) < i => D[i].type \in {"setRemoteOffer", "setRemoteAnswer"}
       \/ /\ P[m] = None /\ ~IsReady(P2, m) /\ last2 = last + 1
          /\ \A i \in 1 .. Len(D) : Len(C) < i =>
                \/ i = Len(C) + 1 /\ D[i].type = "createPeer" /\ D[i].peer = m /\ D[i].id = last + 1
                \/ D[i].type = "setRemoteOffer"

\* A signal keeps the agreement.
LEMMA SignalAgrees ==
    ASSUME NEW P, NEW P2, NEW C, NEW D, NEW K, NEW E, NEW last \in Nat, NEW last2, NEW m \in Nodes,
           Signaled(P, P2, C, D, last, last2, m), Agrees(P, C, K, E, last),
           \A i \in 1 .. Len(C) : C[i].id \in Nat,
           \A i \in 1 .. Len(E) : E[i].id \in Nat,
           \A j \in Nodes : K[j] # None => K[j].id \in Nat
    PROVE  Agrees(P2, D, K, E, last2)
<1>1. \A j \in Nodes : IsReady(P2, j) => IsReady(P, j)
  BY DEF Signaled, IsReady
<1>2. \A j \in Nodes : P[j] # None => P2[j] = P[j]
  BY DEF Signaled
<1>3. \A i \in 1 .. Len(D) : ~(Len(C) < i) => i \in 1 .. Len(C) /\ D[i] = C[i]
  BY DEF Signaled, Extends
<1>4. \A i \in 1 .. Len(C) : i \in 1 .. Len(D) /\ D[i] = C[i]
  BY DEF Signaled, Extends
<1>5. \A i \in 1 .. Len(D) : Len(C) < i => ~SetsLocal(D[i])
  BY DEF Signaled, SetsLocal
<1>6. ASSUME NEW j \in Nodes, Undisturbed(P, C, E, j)
      PROVE  Undisturbed(P2, D, E, j)
  <2>1. P[j] # None /\ P2[j] # None
    BY <1>2, <1>6 DEF Undisturbed
  <2>2. \A i \in 1 .. Len(D) : Len(C) < i => ~Replaces(D[i], j)
    BY <2>1 DEF Signaled, Replaces
  <2> QED
    BY <1>3, <1>6, <2>1, <2>2 DEF Undisturbed
<1>7. ReadyIsOpen(P2, K, E)
  BY <1>1 DEF Agrees, ReadyIsOpen
<1>8. OpenIsReady(P2, K, E)
  <2>1. \A j \in Nodes : IsReady(P, j) => IsReady(P2, j)
    BY <1>2 DEF IsReady
  <2> QED
    BY <2>1 DEF Agrees, OpenIsReady
<1>9. Together(P2, D, K, E)
  <2> SUFFICES ASSUME NEW j \in Nodes, IsLive(K, j)
               PROVE  /\ K[j].local # "none" => Undisturbed(P2, D, E, j)
                      /\ \A i \in 1 .. Len(D) :
                              /\ SetsLocal(D[i]) /\ D[i].peer = j /\ D[i].id = K[j].id
                              /\ \A l \in 1 .. Len(D) : l < i => ~Replaces(D[l], j)
                              => Undisturbed(P2, D, E, j)
                      /\ \A i, l \in 1 .. Len(E) : Describes(E[i], j, K[j].id) /\ i < l => ~Removes(E[l], j)
    BY DEF Together
  <2>1. /\ K[j].local # "none" => Undisturbed(P, C, E, j)
        /\ \A i \in 1 .. Len(C) :
                /\ SetsLocal(C[i]) /\ C[i].peer = j /\ C[i].id = K[j].id
                /\ \A l \in 1 .. Len(C) : l < i => ~Replaces(C[l], j)
                => Undisturbed(P, C, E, j)
        /\ \A i, l \in 1 .. Len(E) : Describes(E[i], j, K[j].id) /\ i < l => ~Removes(E[l], j)
    BY DEF Agrees, Together
  <2>2. ASSUME NEW i \in 1 .. Len(D), SetsLocal(D[i]), D[i].peer = j, D[i].id = K[j].id,
               \A l \in 1 .. Len(D) : l < i => ~Replaces(D[l], j)
        PROVE  Undisturbed(P2, D, E, j)
    <3>1. i \in 1 .. Len(C) /\ D[i] = C[i]
      BY <1>3, <1>5, <2>2
    <3>2. \A l \in 1 .. Len(C) : l < i => ~Replaces(C[l], j)
      BY <1>4, <2>2
    <3> QED
      BY <1>6, <2>1, <2>2, <3>1, <3>2
  <2> QED
    BY <1>6, <2>1, <2>2
<1>10. Ordered(D, K, E, last2)
  <2>1. ASSUME NEW k, Newer(C, K, E, k)
        PROVE  Newer(D, K, E, k)
    BY <1>3, <1>5, <2>1 DEF Newer
  <2>2. Ordered(C, K, E, last)
    BY DEF Agrees
  <2>3. Newer(D, K, E, last + 1)
    BY <2>1, <2>2 DEF Ordered
  <2>4. CASE last2 = last /\ \A i \in 1 .. Len(D) : Len(C) < i => D[i].type # "createPeer"
    BY <1>3, <2>1, <2>2, <2>3, <2>4 DEF Ordered
  <2>5. CASE last2 = last + 1
    <3>1. \A k \in Nat : k < last + 1 => k < last2 + 1 /\ k <= last2
      BY <2>5
    <3>2. Newer(C, K, E, last2 + 1)
      BY <2>2, <3>1 DEF Ordered, Newer
    <3>3. ASSUME NEW i \in 1 .. Len(D), D[i].type = "createPeer", Len(C) < i
          PROVE  /\ D[i].id = last + 1 /\ i = Len(C) + 1
      BY <2>5, <3>3 DEF Signaled
    <3>4. ASSUME NEW i \in 1 .. Len(C), C[i].type = "createPeer"
          PROVE  C[i].id <= last2 /\ C[i].id < last + 1
      BY <2>2, <2>5, <3>4 DEF Ordered
    <3>5. ASSUME NEW i \in 1 .. Len(D), D[i].type = "createPeer"
          PROVE  /\ D[i].id <= last2 /\ Newer(D, K, E, D[i].id)
                 /\ \A j \in 1 .. Len(D) : j < i /\ D[j].type = "createPeer" => D[j].id < D[i].id
      <4>1. CASE Len(C) < i
        <5>1. \A j \in 1 .. Len(D) : j < i => ~(Len(C) < j)
          BY <3>3, <3>5, <4>1 DEF Signaled, Extends
        <5>2. last + 1 <= last2
          BY <2>5
        <5> QED
          BY <1>3, <2>3, <3>3, <3>4, <3>5, <4>1, <5>1, <5>2
      <4>2. CASE ~(Len(C) < i)
        <5>1. \A j \in 1 .. Len(D) : j < i => ~(Len(C) < j)
          BY <4>2 DEF Signaled, Extends
        <5> QED
          BY <1>3, <2>1, <2>2, <3>4, <3>5, <4>2, <5>1 DEF Ordered
      <4> QED
        BY <4>1, <4>2
    <3> QED
      BY <2>1, <3>2, <3>5 DEF Ordered
  <2> QED
    BY <2>4, <2>5 DEF Signaled
<1> QED
  BY <1>7, <1>8, <1>9, <1>10 DEF Agrees

\* Handling an event keeps it.
LEMMA EventAgrees ==
    ASSUME NEW P, NEW P2, NEW C, NEW D, NEW K, NEW E, NEW F, NEW last, Rest(E, F),
           Agrees(P, C, K, E, last), PeerFollows(P, P2, E[1]), Sends(P, C, D, E[1]),
           E[1].peer \in Nodes
    PROVE  Agrees(P2, D, K, F, last)
BY EventReady, EventTogether, EventOpen, EventOrdered DEF Agrees

\* A step of the proxy keeps it.
LEMMA TurnAgrees ==
    ASSUME NEW P, NEW C, NEW D, NEW s, NEW K, NEW K2, NEW E, NEW F, NEW R, NEW last \in Nat,
           NEW m \in Nodes, Turn(C, D, s, K, K2, E, F, R, m), Agrees(P, C, K, E, last),
           s = 1 => C[1].id \in Nat
    PROVE  Agrees(P, D, K2, F, last)
BY TurnReady, TurnTogether, TurnOpen, TurnOrdered DEF Agrees

\* A step of one node leaves the agreement of the others alone.
LEMMA OneNodeActs ==
    ASSUME AgreementInv, NEW n \in Nodes,
           Agrees(peers'[n], commands'[n], connections'[n], events'[n], made'[n]),
           \A k \in Nodes \ {n} : /\ peers'[k] = peers[k] /\ commands'[k] = commands[k]
                                  /\ connections'[k] = connections[k] /\ events'[k] = events[k]
                                  /\ made'[k] = made[k]
    PROVE  AgreementInv'
BY DEF AgreementInv

\* The command that is sent, if any, is the last of the queue.
LEMMA SendsFacts ==
    ASSUME NEW P, NEW C \in Seq(Command), NEW D, NEW e,
           \/ D = C
           \/ \E c \in Command :
                /\ D = Append(C, c)
                /\ c.peer = e.peer /\ c.type # "createPeer"
                /\ c.type = "closePeer" => Removes(e, e.peer)
                /\ SetsLocal(c) => c.id = e.id /\ Describes(e, e.peer, e.id) /\ P[e.peer] # None
    PROVE  Sends(P, C, D, e)
<1>1. Len(C) \in Nat
  OBVIOUS
<1>2. CASE D = C
  BY <1>1, <1>2 DEF Sends, Extends
<1>3. ASSUME NEW c \in Command, D = Append(C, c),
             c.peer = e.peer, c.type # "createPeer",
             c.type = "closePeer" => Removes(e, e.peer),
             SetsLocal(c) => c.id = e.id /\ Describes(e, e.peer, e.id) /\ P[e.peer] # None
      PROVE  Sends(P, C, D, e)
  <2>1. /\ Len(D) = Len(C) + 1
        /\ \A i \in 1 .. Len(C) : D[i] = C[i]
        /\ D[Len(C) + 1] = c
    BY <1>3, AppendProperties
  <2>2. Len(D) \in Nat /\ Len(C) <= Len(D)
    BY <1>1, <2>1
  <2>3. \A i \in 1 .. Len(D) : Len(C) < i => i = Len(C) + 1
    BY <1>1, <2>1
  <2> QED
    BY <1>1, <1>3, <2>1, <2>2, <2>3 DEF Sends, Extends
<1> QED
  BY <1>2, <1>3

\* Every handler of an event keeps the agreement.
LEMMA EventKeepsAgreement ==
    ASSUME Inv, AgreementInv, NEW n \in Nodes, handleProxyEvent(n)
    PROVE  AgreementInv'
<1>1. PICK e : \/ ignored(n, e) \/ onPeerCreated(n, e) \/ onPeerStateChange(n, e) \/ onPeerClosed(n, e)
               \/ onDescriptionCreated(n, e) \/ onDescriptionSet(n, e)
               \/ onDataChannelOpen(n, e) \/ onDataChannelClose(n, e)
  BY DEF handleProxyEvent
<1>2. Takes(n, e)
  BY <1>1 DEF ignored, onPeerCreated, onPeerStateChange, onPeerClosed, onDescriptionCreated,
              onDescriptionSet, onDataChannelOpen, onDataChannelClose
<1>3. TypeOK
  BY DEF Inv
<1>4. e \in Event
  BY <1>2, <1>3, TakesFacts
<1>5. e.peer \in Nodes /\ e.id \in Ids
  BY <1>4 DEF Event
<1>6. /\ events[n] \in Seq(Event) /\ events[n] # <<>> /\ e = Head(events[n])
      /\ events' = [events EXCEPT ![n] = Tail(events[n])]
      /\ connections' = connections /\ made' = made
  BY <1>2, <1>3 DEF Takes, TypeOK
<1>7. Rest(events[n], events'[n]) /\ e = events[n][1]
  <2>1. /\ Tail(events[n]) \in Seq(Event) /\ Len(Tail(events[n])) = Len(events[n]) - 1
        /\ \A i \in 1 .. Len(Tail(events[n])) : Tail(events[n])[i] = events[n][i + 1]
    BY <1>6, HeadTailProperties
  <2>2. Len(events[n]) \in Nat /\ Len(Tail(events[n])) \in Nat /\ Head(events[n]) = events[n][1]
    BY <1>6, <2>1
  <2>3. events'[n] = Tail(events[n])
    BY <1>3, <1>6 DEF TypeOK
  <2>4. Len(events[n]) = Len(Tail(events[n])) + 1
    BY <2>1, <2>2
  <2> QED
    BY <1>6, <2>1, <2>2, <2>3, <2>4 DEF Rest
<1> DEFINE P == peers[n]
           C == commands[n]
<1>8. P \in [Nodes -> Peer \cup {None}] /\ C \in Seq(Command)
  BY <1>3 DEF TypeOK
<1> DEFINE SendsWell(D) ==
             \/ D = C
             \/ \E c \in Command :
                  /\ D = Append(C, c)
                  /\ c.peer = e.peer /\ c.type # "createPeer"
                  /\ c.type = "closePeer" => Removes(e, e.peer)
                  /\ SetsLocal(c) => c.id = e.id /\ Describes(e, e.peer, e.id) /\ P[e.peer] # None
           Goal == /\ PeerFollows(P, peers'[n], e) /\ SendsWell(commands'[n])
                   /\ \A k \in Nodes \ {n} : peers'[k] = peers[k] /\ commands'[k] = commands[k]
<1> SUFFICES Goal
  <2>1. ASSUME Goal PROVE AgreementInv'
    <3>1. Sends(P, C, commands'[n], e)
      BY <1>8, <2>1, SendsFacts
    <3>2. Agrees(P, C, connections[n], events[n], made[n])
      BY DEF AgreementInv
    <3>3. Agrees(peers'[n], commands'[n], connections[n], events'[n], made[n])
      BY <1>5, <1>7, <2>1, <3>1, <3>2, EventAgrees
    <3>4. \A k \in Nodes \ {n} : events'[k] = events[k]
      BY <1>3, <1>6 DEF TypeOK
    <3> QED
      BY <1>6, <2>1, <3>3, <3>4, OneNodeActs
  <2> QED
    BY <2>1
<1>9. ASSUME NEW type, Commands(n, e, type),
             type \in {"closePeer", "createOffer", "createAnswer", "setLocalOffer", "setLocalAnswer"},
             type = "closePeer" => Removes(e, e.peer),
             type \in {"setLocalOffer", "setLocalAnswer"} =>
                e.type \in {"offerCreated", "answerCreated"} /\ P[e.peer] # None
      PROVE  SendsWell(commands'[n]) /\ \A k \in Nodes \ {n} : commands'[k] = commands[k]
  <2> DEFINE c == [type |-> type, peer |-> e.peer, id |-> e.id]
  <2>1. c \in Command /\ c.type = type /\ c.peer = e.peer /\ c.id = e.id
    BY <1>5, <1>9 DEF Command
  <2>2. commands' = [commands EXCEPT ![n] = Append(C, c)]
    BY <1>9 DEF Commands
  <2> HIDE DEF c
  <2>3. commands'[n] = Append(C, c) /\ \A k \in Nodes \ {n} : commands'[k] = commands[k]
    BY <1>3, <2>2 DEF TypeOK
  <2>4. /\ c.peer = e.peer /\ c.type # "createPeer"
        /\ c.type = "closePeer" => Removes(e, e.peer)
        /\ SetsLocal(c) => c.id = e.id /\ Describes(e, e.peer, e.id) /\ P[e.peer] # None
    BY <1>9, <2>1 DEF SetsLocal, Describes
  <2> QED
    BY <2>1, <2>3, <2>4
<1>10. commands' = commands =>
         SendsWell(commands'[n]) /\ \A k \in Nodes \ {n} : commands'[k] = commands[k]
  OBVIOUS
<1>11. ASSUME peers' = peers, Removes(e, e.peer) \/ Opens(e, e.peer) => P[e.peer] = None
       PROVE  PeerFollows(P, peers'[n], e) /\ \A k \in Nodes \ {n} : peers'[k] = peers[k]
  BY <1>11 DEF PeerFollows, IsReady
<1>12. ASSUME peers' = [peers EXCEPT ![n][e.peer] = None], Removes(e, e.peer)
       PROVE  PeerFollows(P, peers'[n], e) /\ \A k \in Nodes \ {n} : peers'[k] = peers[k]
  <2>1. peers'[n][e.peer] = None /\ (\A m \in Nodes \ {e.peer} : peers'[n][m] = P[m])
        /\ \A k \in Nodes \ {n} : peers'[k] = peers[k]
    BY <1>3, <1>5, <1>12 DEF TypeOK
  <2> QED
    BY <1>12, <2>1 DEF PeerFollows, IsReady
<1>13. ASSUME P[e.peer] # None, ~Removes(e, e.peer), NEW new \in Peer,
              peers' = [peers EXCEPT ![n][e.peer] = new],
              new.dataChannelReady <=> P[e.peer].dataChannelReady \/ Opens(e, e.peer)
       PROVE  PeerFollows(P, peers'[n], e) /\ \A k \in Nodes \ {n} : peers'[k] = peers[k]
  <2>1. peers'[n][e.peer] = new /\ (\A m \in Nodes \ {e.peer} : peers'[n][m] = P[m])
        /\ \A k \in Nodes \ {n} : peers'[k] = peers[k]
    BY <1>3, <1>5, <1>13 DEF TypeOK
  <2>2. new # None
    BY NoneAssumption
  <2> QED
    BY <1>13, <2>1, <2>2 DEF PeerFollows, IsReady
<1>14. P[e.peer] # None => P[e.peer] \in Peer
  BY <1>5, <1>8
<1> HIDE DEF SendsWell
<1>15. CASE ignored(n, e)
  BY <1>10, <1>11, <1>15 DEF ignored, Removes, Opens
<1>16. CASE onPeerCreated(n, e)
  <2>1. PeerFollows(P, peers'[n], e) /\ \A k \in Nodes \ {n} : peers'[k] = peers[k]
    BY <1>11, <1>16 DEF onPeerCreated, Removes, Opens
  <2>2. SendsWell(commands'[n]) /\ \A k \in Nodes \ {n} : commands'[k] = commands[k]
    BY <1>9, <1>10, <1>16 DEF onPeerCreated
  <2> QED
    BY <2>1, <2>2
<1>rest. CASE onPeerStateChange(n, e)
  <2>1. CASE e.type = "connected"
    <3> DEFINE new == [P[e.peer] EXCEPT !.state = "connected"]
    <3>1. new \in Peer /\ new.dataChannelReady = P[e.peer].dataChannelReady
      BY <1>14, <1>rest DEF onPeerStateChange, Peer
    <3>2. peers' = [peers EXCEPT ![n][e.peer] = new] /\ commands' = commands /\ P[e.peer] # None
      BY <1>rest, <2>1 DEF onPeerStateChange
    <3>3. ~Removes(e, e.peer) /\ ~Opens(e, e.peer)
      BY <2>1 DEF Removes, Opens
    <3> HIDE DEF new
    <3> QED
      BY <1>10, <1>13, <3>1, <3>2, <3>3
  <2>2. CASE e.type = "failed" /\ closePeer(n, e)
    BY <1>9, <1>12, <2>2 DEF closePeer, Removes
  <2> QED
    BY <1>rest, <2>1, <2>2 DEF onPeerStateChange
<1>18. CASE onPeerClosed(n, e)
  BY <1>10, <1>12, <1>18 DEF onPeerClosed, Removes
<1>19. CASE onDescriptionCreated(n, e)
  <2>1. PeerFollows(P, peers'[n], e) /\ \A k \in Nodes \ {n} : peers'[k] = peers[k]
    BY <1>11, <1>19 DEF onDescriptionCreated, Removes, Opens
  <2>2. PICK type \in {"setLocalOffer", "setLocalAnswer"} : Commands(n, e, type)
    BY <1>19 DEF onDescriptionCreated
  <2>3. SendsWell(commands'[n]) /\ \A k \in Nodes \ {n} : commands'[k] = commands[k]
    BY <1>9, <1>19, <2>2 DEF onDescriptionCreated
  <2> QED
    BY <2>1, <2>3
<1>20. CASE onDescriptionSet(n, e)
  <2>1. ~Removes(e, e.peer) /\ ~Opens(e, e.peer) /\ P[e.peer] # None
    BY <1>20 DEF onDescriptionSet, Removes, Opens
  <2>2. CASE UNCHANGED <<peers, commands>>
    BY <1>10, <1>11, <2>1, <2>2
  <2>3. CASE /\ peers' = [peers EXCEPT ![n][e.peer].answerCreated = TRUE]
             /\ Commands(n, e, "createAnswer")
    <3> DEFINE new == [P[e.peer] EXCEPT !.answerCreated = TRUE]
    <3>1. new \in Peer /\ new.dataChannelReady = P[e.peer].dataChannelReady
      BY <1>14, <2>1 DEF Peer
    <3>2. peers' = [peers EXCEPT ![n][e.peer] = new]
      BY <2>3
    <3> HIDE DEF new
    <3> QED
      BY <1>9, <1>13, <2>1, <2>3, <3>1, <3>2
  <2> QED
    BY <1>20, <2>2, <2>3 DEF onDescriptionSet
<1>21. CASE onDataChannelOpen(n, e)
  <2> DEFINE new == [P[e.peer] EXCEPT !.dataChannelReady = TRUE]
  <2>1. new \in Peer /\ new.dataChannelReady
    BY <1>14, <1>21 DEF onDataChannelOpen, Peer
  <2>2. peers' = [peers EXCEPT ![n][e.peer] = new] /\ commands' = commands /\ P[e.peer] # None
    BY <1>21 DEF onDataChannelOpen
  <2>3. ~Removes(e, e.peer) /\ Opens(e, e.peer)
    BY <1>21 DEF onDataChannelOpen, Removes, Opens
  <2> HIDE DEF new
  <2> QED
    BY <1>10, <1>13, <2>1, <2>2, <2>3
<1>22. CASE onDataChannelClose(n, e)
  BY <1>9, <1>12, <1>22 DEF onDataChannelClose, closePeer, Removes
<1> QED
  BY <1>1, <1>15, <1>16, <1>rest, <1>18, <1>19, <1>20, <1>21, <1>22

\* What the events that are reported look like in the queue.
LEMMA AddsFacts ==
    ASSUME NEW E \in Seq(Event), NEW R \in Seq(Event)
    PROVE  Adds(E, E \o R, R)
<1>1. Len(E \o R) = Len(E) + Len(R)
      /\ \A i \in 1 .. Len(E) + Len(R) : (E \o R)[i] = IF i <= Len(E) THEN E[i] ELSE R[i - Len(E)]
  BY ConcatProperties
<1>2. Len(E) \in Nat /\ Len(R) \in Nat
  OBVIOUS
<1>3. \A i \in 1 .. Len(E) : i \in 1 .. Len(E) + Len(R) /\ i <= Len(E)
  BY <1>2
<1>4. \A i \in 1 .. Len(R) : /\ Len(E) + i \in 1 .. Len(E) + Len(R)
                             /\ ~(Len(E) + i <= Len(E)) /\ (Len(E) + i) - Len(E) = i
  BY <1>2
<1>5. \A i \in 1 .. Len(E) : (E \o R)[i] = E[i]
  BY <1>1, <1>3
<1>6. \A i \in 1 .. Len(R) : (E \o R)[Len(E) + i] = R[i]
  BY <1>1, <1>4
<1> QED
  BY <1>1, <1>2, <1>5, <1>6 DEF Adds

\* A report of a step of the proxy is about the connection it had or has.
Concerns(R, m, old, conn) ==
    \A i \in 1 .. Len(R) : /\ R[i].peer = m
                           /\ \/ old # None /\ R[i].id = old.id
                              \/ conn # None /\ R[i].id = conn.id

\* A command that keeps, ends, makes or does not find its connection keeps the
\* agreement.
LEMMA CarriesAgrees ==
    ASSUME Inv, AgreementInv, NEW n \in Nodes, NEW c, NEW conn \in Connection \cup {None},
           NEW R \in Seq(Event), Carries(n, c, conn, R),
           Concerns(R, c.peer, connections[n][c.peer], conn),
           \/ Kept(commands[n], 1, connections[n][c.peer], conn, R, c.peer)
           \/ Ended(commands[n], 1, connections[n][c.peer], conn, R, c.peer)
           \/ Made(commands[n], 1, connections[n][c.peer], conn, R, c.peer)
           \/ Absent(commands[n], 1, connections[n][c.peer], conn, R, c.peer)
    PROVE  AgreementInv'
<1>1. /\ commands[n] \in Seq(Command) /\ commands[n] # <<>> /\ c = Head(commands[n])
      /\ commands' = [commands EXCEPT ![n] = Tail(commands[n])]
      /\ connections' = [connections EXCEPT ![n][c.peer] = conn]
      /\ events' = [events EXCEPT ![n] = events[n] \o R]
      /\ peers' = peers /\ made' = made
      /\ events[n] \in Seq(Event) /\ made[n] \in Nat
  BY DEF Inv, TypeOK, Carries
<1>2. /\ Head(commands[n]) \in Command /\ Tail(commands[n]) \in Seq(Command)
      /\ Len(Tail(commands[n])) = Len(commands[n]) - 1
      /\ \A i \in 1 .. Len(Tail(commands[n])) : Tail(commands[n])[i] = commands[n][i + 1]
  BY <1>1, HeadTailProperties
<1>3. c = commands[n][1] /\ c \in Command /\ c.peer \in Nodes /\ c.id \in Nat
  BY <1>1, <1>2, BoundsAssumption DEF Command, Ids
<1>4. Len(commands[n]) \in Nat /\ Len(Tail(commands[n])) \in Nat
  BY <1>1, <1>2
<1>5. Len(commands[n]) = Len(Tail(commands[n])) + 1
  BY <1>2, <1>4
<1>6. Consumes(commands[n], Tail(commands[n]), 1)
  BY <1>2, <1>4, <1>5 DEF Consumes
<1>7. Adds(events[n], events[n] \o R, R)
  BY <1>1, AddsFacts
<1>8. /\ commands'[n] = Tail(commands[n]) /\ events'[n] = events[n] \o R
      /\ \A k \in Nodes \ {n} : commands'[k] = commands[k] /\ events'[k] = events[k]
  BY <1>1 DEF Inv, TypeOK
<1>9. /\ \A k \in Nodes \ {n} : connections'[k] = connections[k]
      /\ connections'[n][c.peer] = conn
      /\ \A m \in Nodes \ {c.peer} : connections'[n][m] = connections[n][m]
  BY <1>1, <1>3 DEF Inv, TypeOK
<1>10. Turn(commands[n], commands'[n], 1, connections[n], connections'[n], events[n], events'[n], R, c.peer)
  BY <1>3, <1>6, <1>7, <1>8, <1>9 DEF Turn, Concerns
<1>11. Agrees(peers[n], commands[n], connections[n], events[n], made[n])
  BY DEF AgreementInv
<1>12. Agrees(peers[n], commands'[n], connections'[n], events'[n], made[n])
  BY <1>1, <1>3, <1>10, <1>11, TurnAgrees
<1> QED
  BY <1>1, <1>8, <1>9, <1>12, OneNodeActs

\* A report, alone in its queue.
LEMMA OneReport ==
    ASSUME NEW type, NEW m, NEW id, Report(type, m, id) \in Event
    PROVE  /\ <<Report(type, m, id)>> \in Seq(Event) /\ Len(<<Report(type, m, id)>>) = 1
           /\ \A i \in 1 .. Len(<<Report(type, m, id)>>) :
                /\ i = 1
                /\ <<Report(type, m, id)>>[i].type = type
                /\ <<Report(type, m, id)>>[i].peer = m
                /\ <<Report(type, m, id)>>[i].id = id
           /\ 1 \in 1 .. Len(<<Report(type, m, id)>>)
<1>1. /\ Report(type, m, id).type = type /\ Report(type, m, id).peer = m /\ Report(type, m, id).id = id
  BY DEF Report
<1> DEFINE r == Report(type, m, id)
<1>2. r.type = type /\ r.peer = m /\ r.id = id /\ r \in Event
  BY <1>1
<1> HIDE DEF r
<1>3. <<r>> \in Seq(Event) /\ Len(<<r>>) = 1 /\ <<r>>[1] = r
  BY <1>2
<1>4. 1 \in 1 .. 1 /\ \A i \in 1 .. 1 : i = 1
  OBVIOUS
<1>5. \A i \in 1 .. Len(<<r>>) : i = 1 /\ <<r>>[i].type = type /\ <<r>>[i].peer = m /\ <<r>>[i].id = id
  BY <1>2, <1>3, <1>4
<1> QED
  BY <1>3, <1>4, <1>5 DEF r

\* Every handler of a command keeps the agreement.
LEMMA CommandKeepsAgreement ==
    ASSUME Inv, AgreementInv, NEW n \in Nodes, handleCommand(n)
    PROVE  AgreementInv'
<1>1. PICK c : \/ rtcCreatePeer(n, c) \/ rtcClosePeer(n, c) \/ rtcCreateOffer(n, c)
               \/ rtcCreateAnswer(n, c) \/ rtcSetDescription(n, c) \/ rtcCandidateFails(n, c)
               \/ rtcIgnored(n, c)
  BY DEF handleCommand
<1>2. commands[n] # <<>> /\ c = Head(commands[n])
  BY <1>1 DEF rtcCreatePeer, rtcClosePeer, rtcCreateOffer, rtcCreateAnswer, rtcSetDescription,
              rtcCandidateFails, rtcIgnored, Handles, Carries
<1>3. commands[n] \in Seq(Command)
  BY DEF Inv, TypeOK
<1>4. c \in Command /\ c = commands[n][1]
  BY <1>2, <1>3, TakeQueue
<1>5. c.peer \in Nodes /\ c.id \in Ids
  BY <1>4 DEF Command
<1> DEFINE C == commands[n]
           conn == connections[n][c.peer]
<1>6. conn \in Connection \cup {None}
  BY <1>5 DEF Inv, TypeOK
<1>7. conn # None => conn \in Connection /\ conn.id \in Ids
  BY <1>6 DEF Connection
<1>8. \A type \in {"peerCreated", "peerClosed", "offerCreated", "answerCreated",
                   "descriptionSet", "descriptionError"}, id \in Ids :
        Report(type, c.peer, id) \in Event
  BY <1>5 DEF Report, Event
<1>9. <<>> \in Seq(Event) /\ Len(<<>>) = 0 /\ None \in Connection \cup {None} /\ 1 .. 0 = {}
  OBVIOUS
<1>10. ASSUME NEW type \in {"offerCreated", "answerCreated", "descriptionSet", "descriptionError"},
              NEW new \in Connection, conn # None, new.id = conn.id, new.channel = conn.channel,
              \/ new.local = conn.local
              \/ SetsLocal(c) /\ c.id = conn.id /\ new.local # "none",
              c.type \notin {"createPeer", "closePeer"},
              Carries(n, c, new, <<Report(type, c.peer, conn.id)>>)
       PROVE  AgreementInv'
  <2> DEFINE R == <<Report(type, c.peer, conn.id)>>
  <2>1. Report(type, c.peer, conn.id) \in Event
    BY <1>7, <1>8, <1>10
  <2>2. /\ R \in Seq(Event)
        /\ \A i \in 1 .. Len(R) : R[i].type = type /\ R[i].peer = c.peer /\ R[i].id = conn.id
    BY <2>1, OneReport
  <2> HIDE DEF R
  <2>3. new # None
    BY NoneAssumption
  <2>4. Concerns(R, c.peer, conn, new)
    BY <1>10, <2>2 DEF Concerns
  <2>5. \A i \in 1 .. Len(R) : ~Removes(R[i], c.peer) /\ ~Opens(R[i], c.peer)
    BY <2>2 DEF Removes, Opens
  <2>6. Kept(C, 1, conn, new, R, c.peer)
    BY <1>4, <1>10, <2>3, <2>5 DEF Kept, Replaces
  <2>7. Carries(n, c, new, R)
    BY <1>10 DEF R
  <2> QED
    BY <2>2, <2>4, <2>6, <2>7, CarriesAgrees
<1>11. CASE rtcCreatePeer(n, c)
  <2> DEFINE new == [id |-> c.id, local |-> "none", remote |-> None, channel |-> "connecting"]
             created == Report("peerCreated", c.peer, c.id)
             closed == IF conn = None THEN <<>> ELSE <<Report("peerClosed", c.peer, conn.id)>>
             R == Append(closed, created)
  <2>1. Carries(n, c, new, R) /\ c.type = "createPeer"
    BY <1>11 DEF rtcCreatePeer, Handles
  <2>2. new \in Connection /\ new.id = c.id /\ new.local = "none" /\ new.channel = "connecting"
    BY <1>5 DEF Connection
  <2>3. new # None
    BY <2>2, NoneAssumption
  <2>4. /\ created \in Event /\ created.type = "peerCreated" /\ created.peer = c.peer /\ created.id = c.id
    BY <1>5, <1>8 DEF Report
  <2> HIDE DEF created, new
  <2>5. CASE conn = None
    <3>1. R = <<created>>
      BY <2>5
    <3>2. R \in Seq(Event) /\ Len(R) = 1 /\ R[1] = created
      BY <2>4, <3>1
    <3>3. \A i \in 1 .. Len(R) : R[i] = created
      BY <3>2
    <3> HIDE DEF R
    <3>4. Concerns(R, c.peer, conn, new)
      BY <2>2, <2>3, <2>4, <3>3 DEF Concerns
    <3>5. Made(C, 1, conn, new, R, c.peer)
      BY <1>4, <2>1, <2>2, <2>3, <2>4, <2>5, <3>3 DEF Made, Opens
    <3> QED
      BY <2>1, <2>2, <3>2, <3>4, <3>5, CarriesAgrees
  <2>6. CASE conn # None
    <3> DEFINE gone == Report("peerClosed", c.peer, conn.id)
    <3>1. R = Append(<<gone>>, created)
      BY <2>6
    <3>2. gone \in Event /\ gone.type = "peerClosed" /\ gone.peer = c.peer /\ gone.id = conn.id
      BY <1>7, <1>8, <2>6 DEF Report
    <3> HIDE DEF gone, R
    <3>3. R \in Seq(Event) /\ Len(R) = 2 /\ R[1] = gone /\ R[2] = created
      BY <2>4, <3>1, <3>2
    <3>4. 1 \in 1 .. Len(R) /\ \A i \in 1 .. Len(R) : R[i] = gone \/ R[i] = created
      <4>1. 1 \in 1 .. 2 /\ \A i \in 1 .. 2 : i = 1 \/ i = 2
        OBVIOUS
      <4> QED
        BY <3>3, <4>1
    <3>5. Concerns(R, c.peer, conn, new)
      BY <2>2, <2>3, <2>4, <2>6, <3>2, <3>4 DEF Concerns
    <3>6. Removes(R[1], c.peer)
      BY <3>2, <3>3 DEF Removes
    <3>7. \A i \in 1 .. Len(R) : ~Opens(R[i], c.peer) /\ R[i].type \notin {"offerCreated", "answerCreated"}
      BY <2>4, <3>2, <3>4 DEF Opens
    <3>8. Made(C, 1, conn, new, R, c.peer)
      BY <1>4, <2>1, <2>2, <2>3, <3>4, <3>6, <3>7 DEF Made
    <3> QED
      BY <2>1, <2>2, <3>3, <3>5, <3>8, CarriesAgrees
  <2> QED
    BY <2>5, <2>6
<1>12. CASE rtcClosePeer(n, c)
  <2> DEFINE R == <<Report("peerClosed", c.peer, conn.id)>>
  <2>1. conn # None /\ c.type = "closePeer" /\ Carries(n, c, None, R)
    BY <1>12 DEF rtcClosePeer, Handles
  <2>2. Report("peerClosed", c.peer, conn.id) \in Event
    BY <1>7, <1>8, <2>1
  <2>3. /\ R \in Seq(Event) /\ 1 \in 1 .. Len(R)
        /\ \A i \in 1 .. Len(R) : R[i].type = "peerClosed" /\ R[i].peer = c.peer /\ R[i].id = conn.id
    BY <2>2, OneReport
  <2> HIDE DEF R
  <2>4. Concerns(R, c.peer, conn, None)
    BY <2>1, <2>3 DEF Concerns
  <2>5. Ended(C, 1, conn, None, R, c.peer)
    BY <1>4, <2>1, <2>3 DEF Ended, Removes, Opens
  <2> QED
    BY <1>9, <2>1, <2>3, <2>4, <2>5, CarriesAgrees
<1>13. CASE rtcCreateOffer(n, c)
  <2>1. conn # None /\ c.type = "createOffer" /\ Carries(n, c, conn, <<Report("offerCreated", c.peer, conn.id)>>)
    BY <1>13 DEF rtcCreateOffer, Handles
  <2> QED
    BY <1>7, <1>10, <2>1
<1>14. CASE rtcCreateAnswer(n, c)
  <2>1. conn # None /\ c.type = "createAnswer"
    BY <1>14 DEF rtcCreateAnswer, Handles
  <2>2. CASE Carries(n, c, conn, <<Report("answerCreated", c.peer, conn.id)>>)
    BY <1>7, <1>10, <2>1, <2>2
  <2>3. CASE Carries(n, c, conn, <<>>)
    <3>1. Concerns(<<>>, c.peer, conn, conn)
      BY <1>9 DEF Concerns
    <3>2. Kept(C, 1, conn, conn, <<>>, c.peer)
      BY <1>4, <1>9, <2>1 DEF Kept, Replaces
    <3> QED
      BY <1>6, <1>9, <2>3, <3>1, <3>2, CarriesAgrees
  <2> QED
    BY <1>14, <2>2, <2>3 DEF rtcCreateAnswer, Handles
<1>15. CASE rtcSetDescription(n, c) \/ rtcCandidateFails(n, c)
  <2>1. /\ conn # None
        /\ c.type \in {"setLocalOffer", "setLocalAnswer", "setRemoteOffer", "setRemoteAnswer"}
    BY <1>15 DEF rtcSetDescription, rtcCandidateFails, Handles
  <2>2. conn \in Connection
    BY <1>7, <2>1
  <2>3. CASE Carries(n, c, conn, <<Report("descriptionError", c.peer, conn.id)>>)
    BY <1>10, <2>1, <2>2, <2>3
  <2>4. ASSUME Fits(conn, c), NEW type \in {"descriptionSet", "descriptionError"},
               Carries(n, c, WithDescription(conn, c), <<Report(type, c.peer, conn.id)>>)
        PROVE  AgreementInv'
    <3> DEFINE new == WithDescription(conn, c)
    <3>1. new \in Connection
      BY <1>4, <2>2, WithDescriptionType
    <3>2. new.id = conn.id /\ new.channel = conn.channel
      BY <2>2 DEF WithDescription, Connection
    <3>3. new.local = conn.local \/ (SetsLocal(c) /\ new.local # "none")
      BY <2>1, <2>2 DEF WithDescription, Connection, SetsLocal
    <3>4. SetsLocal(c) => c.id = conn.id
      BY <2>4 DEF Fits, SetsLocal
    <3> HIDE DEF new
    <3>5. Carries(n, c, new, <<Report(type, c.peer, conn.id)>>)
      BY <2>4 DEF new
    <3> QED
      BY <1>10, <2>1, <3>1, <3>2, <3>3, <3>4, <3>5
  <2> QED
    BY <1>15, <2>3, <2>4 DEF rtcSetDescription, rtcCandidateFails, Handles
<1>16. CASE rtcIgnored(n, c)
  <2>1. c.type # "createPeer" /\ conn = None /\ Carries(n, c, None, <<>>)
    BY <1>16 DEF rtcIgnored, Handles
  <2>2. Concerns(<<>>, c.peer, conn, None)
    BY <1>9 DEF Concerns
  <2>3. Absent(C, 1, conn, None, <<>>, c.peer)
    BY <1>4, <1>9, <2>1 DEF Absent
  <2> QED
    BY <1>9, <2>1, <2>2, <2>3, CarriesAgrees
<1> QED
  BY <1>1, <1>11, <1>12, <1>13, <1>14, <1>15, <1>16

\* A connection that changes on its own, and says so, keeps the agreement.
LEMMA NetworkAgrees ==
    ASSUME Inv, AgreementInv, NEW n \in Nodes, NEW m \in Nodes, NEW conn, NEW R \in Seq(Event),
           connections' = [connections EXCEPT ![n][m] = conn],
           events' = [events EXCEPT ![n] = events[n] \o R],
           UNCHANGED <<peers, commands, made>>,
           Concerns(R, m, connections[n][m], conn),
           \/ Kept(commands[n], 0, connections[n][m], conn, R, m)
           \/ Ended(commands[n], 0, connections[n][m], conn, R, m)
    PROVE  AgreementInv'
<1>1. commands[n] \in Seq(Command) /\ events[n] \in Seq(Event) /\ made[n] \in Nat
  BY BoundsAssumption DEF Inv, TypeOK
<1>2. Len(commands[n]) \in Nat /\ Len(commands[n]) = Len(commands[n]) + 0
      /\ \A i \in 1 .. Len(commands[n]) : i + 0 = i
  BY <1>1
<1>3. Consumes(commands[n], commands[n], 0)
  BY <1>2 DEF Consumes
<1>4. Adds(events[n], events[n] \o R, R)
  BY <1>1, AddsFacts
<1>5. events'[n] = events[n] \o R /\ \A k \in Nodes \ {n} : events'[k] = events[k]
  BY DEF Inv, TypeOK
<1>6. /\ \A k \in Nodes \ {n} : connections'[k] = connections[k]
      /\ connections'[n][m] = conn
      /\ \A j \in Nodes \ {m} : connections'[n][j] = connections[n][j]
  BY DEF Inv, TypeOK
<1>7. Turn(commands[n], commands[n], 0, connections[n], connections'[n], events[n], events'[n], R, m)
  <2>1. \/ Kept(commands[n], 0, connections[n][m], connections'[n][m], R, m)
        \/ Ended(commands[n], 0, connections[n][m], connections'[n][m], R, m)
    BY <1>6
  <2>2. Concerns(R, m, connections[n][m], connections'[n][m])
    BY <1>6
  <2>3. Adds(events[n], events'[n], R)
    BY <1>4, <1>5, Zenon
  <2>5. ~(0 = 1)
    OBVIOUS
  <2>4. \A j \in Nodes \ {m} : connections'[n][j] = connections[n][j]
    BY <1>6
  <2> QED
    BY <1>3, <2>1, <2>2, <2>3, <2>4, <2>5, Zenon DEF Turn, Concerns
<1>8. Agrees(peers[n], commands[n], connections[n], events[n], made[n])
  BY DEF AgreementInv
<1>9. Agrees(peers[n], commands[n], connections'[n], events'[n], made[n])
  BY <1>1, <1>7, <1>8, TurnAgrees
<1> QED
  BY <1>5, <1>6, <1>9, OneNodeActs

\* So do all that happens to connections and signals on the way.
LEMMA NetworkKeepsAgreement ==
    ASSUME Inv, AgreementInv,
           \/ \E n, m \in Nodes : comesUp(n, m) \/ channelCloses(n, m) \/ timesOut(n, m) \/ breaks(n, m)
           \/ \E s \in signals : loseSignal(s)
    PROVE  AgreementInv'
<1>1. ASSUME NEW n \in Nodes, NEW m \in Nodes, connections[n][m] # None
      PROVE  connections[n][m] \in Connection /\ connections[n][m].id \in Ids
  BY <1>1 DEF Inv, TypeOK, Connection
<1>2. ASSUME NEW n \in Nodes, NEW m \in Nodes, comesUp(n, m)
      PROVE  AgreementInv'
  <2> DEFINE old == connections[n][m]
             conn == [old EXCEPT !.channel = "open"]
             up == Report("connected", m, old.id)
             opened == Report("dataChannelOpen", m, old.id)
             R == <<up, opened>>
  <2>1. /\ old # None /\ old.channel = "connecting" /\ old.local # "none"
        /\ connections' = [connections EXCEPT ![n][m] = conn]
        /\ events' = [events EXCEPT ![n] = events[n] \o R]
        /\ UNCHANGED <<peers, commands, made>>
    BY <1>2 DEF comesUp
  <2>2. old \in Connection /\ old.id \in Ids
    BY <1>1, <2>1
  <2>3. conn \in Connection /\ conn.id = old.id /\ conn.local = old.local /\ conn.channel = "open"
    BY <2>2 DEF Connection
  <2>4. /\ up \in Event /\ up.type = "connected" /\ up.peer = m /\ up.id = old.id
        /\ opened \in Event /\ opened.type = "dataChannelOpen" /\ opened.peer = m /\ opened.id = old.id
    BY <2>2 DEF Report, Event
  <2> HIDE DEF up, opened, conn
  <2>5. R \in Seq(Event) /\ Len(R) = 2 /\ R[1] = up /\ R[2] = opened
    BY <2>4
  <2> HIDE DEF R, old
  <2>6. 2 \in 1 .. Len(R) /\ \A i \in 1 .. Len(R) : R[i] = up \/ R[i] = opened
    <3>1. 2 \in 1 .. 2 /\ \A i \in 1 .. 2 : i = 1 \/ i = 2
      OBVIOUS
    <3> QED
      BY <2>5, <3>1
  <2>7. conn # None
    BY <2>3, NoneAssumption
  <2>8. Concerns(R, m, old, conn)
    BY <2>1, <2>4, <2>6 DEF Concerns
  <2>9. Opens(R[2], m)
    BY <2>4, <2>5 DEF Opens
  <2>10. \A i \in 1 .. Len(R) : ~Removes(R[i], m)
    BY <2>4, <2>6 DEF Removes
  <2>11. Kept(commands[n], 0, old, conn, R, m)
    BY <2>1, <2>3, <2>6, <2>7, <2>9, <2>10 DEF Kept
  <2> QED
    BY <2>1, <2>5, <2>8, <2>11, NetworkAgrees DEF old
<1>3. ASSUME NEW n \in Nodes, NEW m \in Nodes, channelCloses(n, m)
      PROVE  AgreementInv'
  <2> DEFINE old == connections[n][m]
             conn == [old EXCEPT !.channel = "closed"]
             gone == Report("dataChannelClose", m, old.id)
             R == [i \in {1, 2} |-> gone]
  <2>1. /\ old # None /\ connections' = [connections EXCEPT ![n][m] = conn]
        /\ events' = [events EXCEPT ![n] = events[n] \o R]
        /\ UNCHANGED <<peers, commands, made>>
    BY <1>3 DEF channelCloses
  <2>2. old \in Connection /\ old.id \in Ids
    BY <1>1, <2>1
  <2>3. conn \in Connection /\ conn.id = old.id /\ conn.channel = "closed"
    BY <2>2 DEF Connection
  <2>4. gone \in Event /\ gone.type = "dataChannelClose" /\ gone.peer = m /\ gone.id = old.id
    BY <2>2 DEF Report, Event
  <2> HIDE DEF gone, conn
  <2>5. R \in Seq(Event) /\ Len(R) = 2 /\ \A i \in 1 .. 2 : R[i] = gone
    <3>1. {1, 2} = 1 .. 2 /\ 2 \in Nat
      OBVIOUS
    <3>2. R \in [1 .. 2 -> Event] /\ DOMAIN R = 1 .. 2 /\ \A i \in 1 .. 2 : R[i] = gone
      BY <2>4, <3>1
    <3> HIDE DEF R
    <3>3. R \in Seq(Event)
      BY <3>1, <3>2, SeqDef
    <3>4. DOMAIN R = 1 .. Len(R) /\ Len(R) \in Nat
      BY <3>3
    <3>5. Len(R) = 2
      BY <3>2, <3>4
    <3> QED
      BY <3>2, <3>3, <3>5
  <2> HIDE DEF R, old
  <2>6. 1 \in 1 .. 2
    OBVIOUS
  <2>7. Concerns(R, m, old, conn)
    BY <2>1, <2>4, <2>5 DEF Concerns
  <2>8. Ended(commands[n], 0, old, conn, R, m)
    BY <2>1, <2>3, <2>4, <2>5, <2>6 DEF Ended, Removes, Opens
  <2> QED
    BY <2>1, <2>5, <2>7, <2>8, NetworkAgrees DEF old
<1>4. ASSUME NEW n \in Nodes, NEW m \in Nodes, timesOut(n, m) \/ breaks(n, m)
      PROVE  AgreementInv'
  <2> DEFINE old == connections[n][m]
             gone == Report("failed", m, old.id)
             R == <<gone>>
  <2>1. old # None /\ Fail(n, m)
    BY <1>4 DEF timesOut, breaks
  <2>2. old \in Connection /\ old.id \in Ids
    BY <1>1, <2>1
  <2>3. gone \in Event
    BY <2>2 DEF Report, Event
  <2>4. /\ R \in Seq(Event) /\ 1 \in 1 .. Len(R)
        /\ \A i \in 1 .. Len(R) : R[i].type = "failed" /\ R[i].peer = m /\ R[i].id = old.id
    BY <2>3, OneReport
  <2>5. events[n] \in Seq(Event)
    BY DEF Inv, TypeOK
  <2>6. Append(events[n], gone) = events[n] \o R
    BY <2>3, <2>5, AppendIsConcat
  <2>7. /\ connections' = [connections EXCEPT ![n][m] = None]
        /\ events' = [events EXCEPT ![n] = events[n] \o R]
        /\ UNCHANGED <<peers, commands, made>>
    BY <2>1, <2>6 DEF Fail
  <2> HIDE DEF R
  <2>8. Concerns(R, m, old, None)
    BY <2>1, <2>4 DEF Concerns
  <2>9. Ended(commands[n], 0, old, None, R, m)
    BY <2>1, <2>4 DEF Ended, Removes, Opens
  <2> QED
    BY <2>4, <2>7, <2>8, <2>9, NetworkAgrees
<1>5. ASSUME NEW s \in signals, loseSignal(s)
      PROVE  AgreementInv'
  BY <1>5 DEF loseSignal, AgreementInv
<1> QED
  BY <1>2, <1>3, <1>4, <1>5

\* What a signal adds to the commands.
LEMMA SignaledAgrees ==
    ASSUME Inv, AgreementInv, NEW n \in Nodes, NEW m \in Nodes,
           Signaled(peers[n], peers'[n], commands[n], commands'[n], made[n], made'[n], m),
           \A k \in Nodes \ {n} : /\ peers'[k] = peers[k] /\ commands'[k] = commands[k]
                                  /\ made'[k] = made[k],
           UNCHANGED <<connections, events>>
    PROVE  AgreementInv'
<1>1. \A i \in Ids : i \in Nat
  BY DEF Ids
<1>2. made[n] \in Nat
  BY BoundsAssumption DEF Inv, TypeOK
<1>3. commands[n] \in Seq(Command) /\ events[n] \in Seq(Event)
  BY DEF Inv, TypeOK
<1>4. \A i \in 1 .. Len(commands[n]) : commands[n][i] \in Command
  BY <1>3
<1>5. \A i \in 1 .. Len(events[n]) : events[n][i] \in Event
  BY <1>3
<1>6. \A i \in 1 .. Len(commands[n]) : commands[n][i].id \in Nat
  BY <1>1, <1>4 DEF Command
<1>7. \A i \in 1 .. Len(events[n]) : events[n][i].id \in Nat
  BY <1>1, <1>5 DEF Event
<1>8. \A j \in Nodes : connections[n][j] # None => connections[n][j].id \in Nat
  BY <1>1 DEF Inv, TypeOK, Connection
<1>9. Agrees(peers[n], commands[n], connections[n], events[n], made[n])
  BY DEF AgreementInv
<1>10. Agrees(peers'[n], commands'[n], connections[n], events[n], made'[n])
  BY <1>2, <1>6, <1>7, <1>8, <1>9, SignalAgrees
<1> QED
  BY <1>10, OneNodeActs

\* Hellos, offers and answers keep the agreement.
LEMMA SignalKeepsAgreement ==
    ASSUME Inv, AgreementInv, NEW n \in Nodes,
           \/ \E m \in Nodes : handleHello(n, m)
           \/ \E s \in signals : handleOffer(n, s) \/ handleAnswer(n, s)
    PROVE  AgreementInv'
<1>1. /\ commands[n] \in Seq(Command) /\ signals \in SUBSET Signal
      /\ Len(commands[n]) \in Nat
  BY DEF Inv, TypeOK
<1>2. ASSUME NEW c \in Command, c.type \in {"setRemoteOffer", "setRemoteAnswer"},
             NEW m \in Nodes, commands' = [commands EXCEPT ![n] = Append(commands[n], c)],
             UNCHANGED <<peers, made, connections, events>>
      PROVE  AgreementInv'
  <2> DEFINE D == Append(commands[n], c)
  <2>1. /\ Len(D) = Len(commands[n]) + 1
        /\ \A i \in 1 .. Len(commands[n]) : D[i] = commands[n][i]
        /\ D[Len(commands[n]) + 1] = c
    BY <1>1, AppendProperties
  <2>2. commands'[n] = D /\ \A k \in Nodes \ {n} : commands'[k] = commands[k]
    BY <1>2 DEF Inv, TypeOK
  <2> HIDE DEF D
  <2>3. Len(D) \in Nat /\ Len(commands[n]) <= Len(D)
        /\ \A i \in 1 .. Len(D) : Len(commands[n]) < i => i = Len(commands[n]) + 1
    BY <1>1, <2>1
  <2>4. Extends(commands[n], D)
    BY <1>1, <2>1, <2>3 DEF Extends
  <2>5. Signaled(peers[n], peers'[n], commands[n], D, made[n], made'[n], m)
    BY <1>2, <2>1, <2>3, <2>4 DEF Signaled
  <2> QED
    BY <1>2, <2>2, <2>5, SignaledAgrees
<1>3. ASSUME NEW m \in Nodes, NEW direction, NEW follow \in Seq(Command), MayConnect(n, m),
             createPeer(n, m, direction, follow),
             follow = <<>> \/ \E c \in Command : follow = <<c>> /\ c.type = "setRemoteOffer",
             UNCHANGED <<connections, events>>
      PROVE  AgreementInv'
  <2> DEFINE id == made[n] + 1
             new == [direction |-> direction, state |-> "connecting",
                     dataChannelReady |-> FALSE, answerCreated |-> FALSE, id |-> id]
             order == [type |-> "createPeer", peer |-> m, id |-> id]
             D == (commands[n] \o <<order>>) \o follow
  <2>0. id \in Ids
    BY DEF Inv, TypeOK, Ids
  <2>1. /\ made' = [made EXCEPT ![n] = id]
        /\ peers' = [peers EXCEPT ![n][m] = new]
        /\ commands' = [commands EXCEPT ![n] = D]
    BY <1>3 DEF createPeer
  <2>2. order \in Command /\ order.type = "createPeer" /\ order.peer = m /\ order.id = id
    BY <2>0 DEF Command
  <2>3. ~new.dataChannelReady
    OBVIOUS
  <2> HIDE DEF order, new
  <2>4. <<order>> \in Seq(Command) /\ Len(<<order>>) = 1 /\ <<order>>[1] = order
    BY <2>2
  <2> DEFINE Q == commands[n] \o <<order>>
  <2>5. /\ Q \in Seq(Command) /\ Len(Q) = Len(commands[n]) + 1
        /\ \A i \in 1 .. Len(commands[n]) + 1 : Q[i] = IF i <= Len(commands[n]) THEN commands[n][i]
                                                       ELSE <<order>>[i - Len(commands[n])]
    BY <1>1, <2>4, ConcatProperties
  <2>6. \A i \in 1 .. Len(commands[n]) : Q[i] = commands[n][i]
    BY <1>1, <2>5
  <2>7. Q[Len(commands[n]) + 1] = order
    <3>1. /\ Len(commands[n]) + 1 \in 1 .. Len(commands[n]) + 1
          /\ ~(Len(commands[n]) + 1 <= Len(commands[n]))
          /\ (Len(commands[n]) + 1) - Len(commands[n]) = 1
      BY <1>1
    <3> QED
      BY <2>4, <2>5, <3>1
  <2> HIDE DEF Q
  <2>8. /\ Len(Q \o follow) = Len(Q) + Len(follow) /\ Len(follow) \in Nat /\ Len(Q) \in Nat
        /\ \A i \in 1 .. Len(Q) + Len(follow) : (Q \o follow)[i] = IF i <= Len(Q) THEN Q[i] ELSE follow[i - Len(Q)]
    <3>1. Q \in Seq(Command)
      BY <2>5
    <3>2. Len(follow) \in Nat /\ Len(Q) \in Nat
      BY <3>1
    <3>3. /\ Len(Q \o follow) = Len(Q) + Len(follow)
          /\ \A i \in 1 .. Len(Q) + Len(follow) : (Q \o follow)[i] = IF i <= Len(Q) THEN Q[i] ELSE follow[i - Len(Q)]
      BY <3>1, ConcatProperties
    <3> QED
      BY <3>2, <3>3
  <2>9. \A i \in 1 .. Len(follow) : follow[i].type = "setRemoteOffer"
    <3>1. CASE follow = <<>>
      BY <3>1
    <3>2. ASSUME NEW c \in Command, follow = <<c>>, c.type = "setRemoteOffer"
          PROVE  \A i \in 1 .. Len(follow) : follow[i].type = "setRemoteOffer"
      <4>1. Len(follow) = 1 /\ follow[1] = c
        BY <3>2
      <4>2. \A i \in 1 .. 1 : i = 1
        OBVIOUS
      <4> QED
        BY <3>2, <4>1, <4>2
    <3> QED
      BY <1>3, <3>1, <3>2
  <2>10. D = Q \o follow
    BY DEF Q
  <2> HIDE DEF D
  <2>11. /\ Len(D) \in Nat /\ Len(commands[n]) <= Len(D)
         /\ \A i \in 1 .. Len(commands[n]) : i \in 1 .. Len(Q) + Len(follow) /\ i <= Len(Q)
    BY <1>1, <2>5, <2>8, <2>10
  <2>12. \A i \in 1 .. Len(commands[n]) : D[i] = commands[n][i]
    BY <2>6, <2>8, <2>10, <2>11
  <2>13. ASSUME NEW i \in 1 .. Len(D), Len(commands[n]) < i
         PROVE  \/ i = Len(commands[n]) + 1 /\ D[i] = order
                \/ D[i].type = "setRemoteOffer"
    <3>1. CASE i = Len(commands[n]) + 1
      <4>1. i \in 1 .. Len(Q) + Len(follow) /\ i <= Len(Q)
        BY <1>1, <2>5, <2>8, <3>1
      <4> QED
        BY <2>7, <2>8, <2>10, <3>1, <4>1
    <3>2. CASE i # Len(commands[n]) + 1
      <4>1. i \in 1 .. Len(Q) + Len(follow) /\ ~(i <= Len(Q)) /\ i - Len(Q) \in 1 .. Len(follow)
        BY <1>1, <2>5, <2>8, <2>10, <2>13, <3>2
      <4> QED
        BY <2>8, <2>9, <2>10, <4>1
    <3> QED
      BY <3>1, <3>2
  <2>14. Extends(commands[n], D)
    BY <1>1, <2>11, <2>12 DEF Extends
  <2>15. /\ commands'[n] = D /\ made'[n] = id /\ peers'[n][m] = new
         /\ \A j \in Nodes \ {m} : peers'[n][j] = peers[n][j]
         /\ \A k \in Nodes \ {n} : peers'[k] = peers[k] /\ commands'[k] = commands[k] /\ made'[k] = made[k]
    BY <2>1 DEF Inv, TypeOK
  <2>16. peers[n][m] = None
    BY <1>3 DEF MayConnect
  <2>17. ~IsReady(peers'[n], m)
    BY <2>3, <2>15 DEF IsReady
  <2>18. Signaled(peers[n], peers'[n], commands[n], commands'[n], made[n], made'[n], m)
    BY <2>2, <2>13, <2>14, <2>15, <2>16, <2>17 DEF Signaled
  <2> QED
    BY <1>3, <2>15, <2>18, SignaledAgrees
<1>4. ASSUME UNCHANGED <<peers, commands, made, connections, events>>
      PROVE  AgreementInv'
  BY <1>4 DEF AgreementInv
<1>5. ASSUME NEW m \in Nodes, handleHello(n, m)
      PROVE  AgreementInv'
  <2>1. <<>> \in Seq(Command)
    OBVIOUS
  <2> QED
    BY <1>3, <1>5, <2>1 DEF handleHello
<1>6. ASSUME NEW s \in signals, handleOffer(n, s)
      PROVE  AgreementInv'
  <2> DEFINE m == s.from
             set == [type |-> "setRemoteOffer", peer |-> m, id |-> s.id]
  <2>1. s \in Signal
    BY <1>1
  <2>2. m \in Nodes /\ set \in Command /\ set.type = "setRemoteOffer"
    BY <2>1 DEF Signal, Command
  <2>3. connections' = connections /\ events' = events
    BY <1>6 DEF handleOffer
  <2>4. CASE commands' = [commands EXCEPT ![n] = Append(commands[n], set)] /\ peers' = peers /\ made' = made
    BY <1>2, <2>2, <2>3, <2>4
  <2>5. CASE MayConnect(n, m) /\ createPeer(n, m, "inbound", <<set>>)
    <3> HIDE DEF set, m
    <3>1. <<set>> \in Seq(Command)
      BY <2>2
    <3> QED
      BY <1>3, <2>2, <2>3, <2>5, <3>1
  <2>6. CASE UNCHANGED <<peers, commands, made>>
    BY <1>4, <2>3, <2>6
  <2> QED
    BY <1>6, <2>4, <2>5, <2>6 DEF handleOffer
<1>7. ASSUME NEW s \in signals, handleAnswer(n, s)
      PROVE  AgreementInv'
  <2> DEFINE set == [type |-> "setRemoteAnswer", peer |-> s.from, id |-> s.id]
  <2>1. s \in Signal
    BY <1>1
  <2>2. set \in Command /\ set.type = "setRemoteAnswer" /\ s.from \in Nodes
    BY <2>1 DEF Signal, Command
  <2>3. connections' = connections /\ events' = events /\ peers' = peers /\ made' = made
    BY <1>7 DEF handleAnswer
  <2>4. commands' = commands \/ commands' = [commands EXCEPT ![n] = Append(commands[n], set)]
    BY <1>7 DEF handleAnswer
  <2> HIDE DEF set
  <2> QED
    BY <1>2, <1>4, <2>2, <2>3, <2>4
<1> QED
  BY <1>5, <1>6, <1>7

\* Once the two threads of a node have handled each other's messages they agree
\* on which channels are usable (webrtcController.ts:610-624), whatever was
\* closed, replaced, failed or reordered before.
THEOREM ThreadsAgree == Spec => []QuietAgreement
<1>1. Init => AgreementInv
  <2> SUFFICES ASSUME Init, NEW n \in Nodes
               PROVE  Agrees(peers[n], commands[n], connections[n], events[n], made[n])
    BY DEF AgreementInv
  <2>1. /\ \A m \in Nodes : peers[n][m] = None /\ connections[n][m] = None
        /\ Len(commands[n]) = 0 /\ Len(events[n]) = 0
    BY DEF Init
  <2>2. 1 .. 0 = {}
    OBVIOUS
  <2> QED
    BY <2>1, <2>2 DEF Agrees, ReadyIsOpen, Together, OpenIsReady, Ordered, Newer, IsReady, IsLive, IsOpen
<1>2. Inv /\ AgreementInv /\ [Next]_vars => AgreementInv'
  <2> SUFFICES ASSUME Inv, AgreementInv, [Next]_vars PROVE AgreementInv'
    OBVIOUS
  <2>1. CASE UNCHANGED vars
    BY <2>1 DEF vars, AgreementInv
  <2>2. CASE \E n \in Nodes : handleProxyEvent(n) \/ handleCommand(n)
    BY <2>2, EventKeepsAgreement, CommandKeepsAgreement
  <2>3. CASE \E n \in Nodes : \/ \E m \in Nodes : handleHello(n, m)
                              \/ \E s \in signals : handleOffer(n, s) \/ handleAnswer(n, s)
    BY <2>3, SignalKeepsAgreement
  <2>4. CASE \/ \E n, m \in Nodes : comesUp(n, m) \/ channelCloses(n, m) \/ timesOut(n, m) \/ breaks(n, m)
             \/ \E s \in signals : loseSignal(s)
    BY <2>4, NetworkKeepsAgreement
  <2>5. CASE \E n \in Nodes : setPoolConfig(n)
    BY <2>5 DEF setPoolConfig, AgreementInv
  <2> QED
    BY <2>1, <2>2, <2>3, <2>4, <2>5 DEF Next
<1>3. Inv /\ [Next]_vars => Inv'
  BY StepKeepsInv
<1>4. AgreementInv => QuietAgreement
  <2> SUFFICES ASSUME AgreementInv, NEW n \in Nodes, NEW m \in Nodes,
                      commands[n] = <<>>, events[n] = <<>>
               PROVE  IsReady(peers[n], m) <=> IsOpen(connections[n], m)
    BY DEF QuietAgreement, IsReady, IsOpen
  <2>1. 1 .. Len(events[n]) = {}
    OBVIOUS
  <2>2. ReadyIsOpen(peers[n], connections[n], events[n]) /\ OpenIsReady(peers[n], connections[n], events[n])
    BY DEF AgreementInv, Agrees
  <2> QED
    BY <2>1, <2>2 DEF ReadyIsOpen, OpenIsReady
<1> QED
  BY InitInv, <1>1, <1>2, <1>3, <1>4, PTL DEF Spec
===============================================================================

--------------------------- MODULE MCPeerLifecycle ---------------------------
(* The instance of PeerLifecycle for TLC: two devices of one account and a   *)
(* node of another.                                                         *)
EXTENDS PeerLifecycle

TwoAccounts == [n \in Nodes |-> IF n < 3 THEN 1 ELSE 3]
\* Only node 3 has room for both of the others, which share an account.
Pools == [n \in Nodes |-> [pool \in PoolNames |-> IF n < 3 THEN 1 ELSE 2]]
\* Its user may switch strangers off, also while some are connected.
NoStrangers == [n \in Nodes |-> IF n < 3 THEN {} ELSE {[follows |-> 2, other |-> 0]}]
\* All but node 1 may connect a second time.
Reconnects == [n \in Nodes |-> IF n = 1 THEN 1 ELSE 2]
NoFollows == [n \in Nodes |-> {}]
===============================================================================

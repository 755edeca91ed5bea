----------------------------- MODULE MCPeerGossip -----------------------------
(* Instances of PeerGossip for TLC. *)
EXTENDS PeerGossip, TLC

CONSTANTS m1, d1, j1, j2

\* The nodes of the constitution have one another for bootnodes; the others join through m1.
MCBoot == [n \in Nodes |-> IF n \in Constitution THEN Constitution \ {n} ELSE {m1}]
===============================================================================

----------------------------- MODULE MCPeerTests -----------------------------
(***************************************************************************)
(* Two boot nodes; the two nodes of the same-cert configuration have each  *)
(* an ID of its own, as the configuration makes them, or one ID, as the    *)
(* test wants them.                                                        *)
(***************************************************************************)
EXTENDS PeerTests

BootServiceIDs == {"boot-node-0", "boot-node-1"}

OwnIDs == [s \in Services |-> s]
SharedID == [s \in Services |-> IF s = Bad2 THEN Bad1 ELSE s]
Maps == {OwnIDs, SharedID}
=============================================================================

----------------------- MODULE MCNetworkStateVerifier -----------------------
(***************************************************************************)
(* Two bootstrappers that stake and two services that do not: each with a  *)
(* node ID of its own, the two that do not stake sharing one, or one of    *)
(* them having the node ID of a bootstrapper.                              *)
(***************************************************************************)
EXTENDS NetworkStateVerifier

Bootstrappers == {"boot-1", "boot-2"}
Services == Bootstrappers \cup {"node-1", "node-2"}

OwnIDs == [s \in Services |-> s]
NonStakersShare == [s \in Services |-> IF s = "node-2" THEN "node-1" ELSE s]
StakerShares == [s \in Services |-> IF s = "node-2" THEN "boot-1" ELSE s]
Maps == {OwnIDs, NonStakersShare, StakerShares}
=============================================================================

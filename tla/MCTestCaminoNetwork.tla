------------------------ MODULE MCTestCaminoNetwork ------------------------
(***************************************************************************)
(* The suite's tests on the first three of the five boot nodes, and        *)
(* arguments the loader or Kurtosis refuses.                               *)
(***************************************************************************)
EXTENDS CaminoTestSuite

ThreeStakers == SubSeq(defaultStakers, 1, 3)

\* Arguments that are refused, sooner or later.
bootConfig == <<"boot-node-config-", 1>>
Desire(t, s, c) == [t EXCEPT !.desired = [d \in {s} |-> c]]

NoStaking == [DuplicateNodeIDTest EXCEPT !.isStaking = FALSE]
ReservedConfig == [BombardTest EXCEPT !.serviceConfigs = [c \in {bootConfig} |-> TRUE]]
ReservedService == Desire(BombardTest, <<"boot-node-", 1>>, normal)
ConfigLikeService == Desire(BombardTest, bootConfig, normal)
UnknownConfig == Desire(DuplicateNodeIDTest, <<"vanilla-node">>, <<"other">>)
BootNodeConfigUsed == Desire(DuplicateNodeIDTest, <<"vanilla-node">>, bootConfig)

\* The workflow test's network is the fully connected test's but for its names.
SuiteTests ==
  {GetTests("byzantine")[name] :
     name \in DOMAIN GetTests("byzantine") \ {"StakingNetworkRPCWorkflowTest"}}
AllTests ==
  SuiteTests \cup {NoStaking, ReservedConfig, ReservedService, ConfigLikeService,
                   UnknownConfig, BootNodeConfigUsed}
SameCertTest == {DuplicateNodeIDTest}

NoneOrAllFaults == { {}, {"start", "stop", "call", "timeout"} }
NoFaults == { {} }
=============================================================================

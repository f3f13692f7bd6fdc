--------------------------- MODULE CaminoTestSuite ---------------------------
(***************************************************************************)
(* The tests that GetTests registers, as the networks they ask their       *)
(* loaders for and the services they add later.                            *)
(***************************************************************************)
EXTENDS TestCaminoNetwork, TLC

CONSTANT numberOfByzantineNodes  \* 4 in the chit spammer test

ASSUME ByzantineAssumption == numberOfByzantineNodes \in Nat

\* DefaultLocalNetGenesisConfig.Stakers, whose node IDs are Staker1NodeID to
\* Staker5NodeID.
defaultStakers ==
  << <<"NodeID", 1>>, <<"NodeID", 2>>, <<"NodeID", 3>>, <<"NodeID", 4>>,
     <<"NodeID", 5>> >>

normal == <<"normal-config">>
sameCert == <<"same-cert-config">>
byzantine == <<"byzantine-config">>

NoServices == [s \in {} |-> normal]
NormalConfig == [c \in {normal} |-> TRUE]
ByzantineConfigs == [c \in {normal, byzantine} |-> TRUE]

DuplicateNodeIDTest ==
  [isStaking |-> TRUE,
   serviceConfigs |-> [c \in {normal, sameCert} |-> c = normal],
   desired |-> [s \in {<<"vanilla-node">>} |-> normal],
   additional |-> [s \in {<<"bad-service-1">>, <<"bad-service-2">>} |-> sameCert]]

\* The nodes it adds are to bootstrap what it has issued.
BombardTest ==
  [isStaking |-> TRUE, serviceConfigs |-> NormalConfig,
   desired |-> NoServices,
   additional |->
     [s \in {<<"additional-node-1">>, <<"additional-node-2">>} |-> normal]]

FullyConnectedTest ==
  [isStaking |-> TRUE, serviceConfigs |-> NormalConfig,
   desired |->
     [s \in {<<"validator-service">>, <<"non-validator-service">>} |-> normal],
   additional |-> NoServices]

RPCWorkflowNetworkTest ==
  [isStaking |-> TRUE, serviceConfigs |-> NormalConfig,
   desired |-> [s \in {<<"validator-node">>, <<"delegator-node">>} |-> normal],
   additional |-> NoServices]

ConflictingTxsVertexTest ==
  [isStaking |-> TRUE, serviceConfigs |-> ByzantineConfigs,
   desired |-> (<<"byzantine-node">> :> byzantine) @@ (<<"virtuous-node">> :> normal),
   additional |-> NoServices]

ChitSpammerTest ==
  [isStaking |-> TRUE, serviceConfigs |-> ByzantineConfigs,
   desired |->
     [s \in {<<"byzantine-node-", i>> : i \in 0..numberOfByzantineNodes - 1} |->
        byzantine],
   additional |-> [s \in {<<"normal-node">>} |-> normal]]

GetTests(ByzantineImageName) ==
  [stakingNetworkBombardXChainTest  |-> BombardTest,
   stakingNetworkFullyConnectedTest |-> FullyConnectedTest,
   stakingNetworkDuplicateNodeIDTest |-> DuplicateNodeIDTest,
   StakingNetworkRPCWorkflowTest    |-> RPCWorkflowNetworkTest]
  @@ IF ByzantineImageName = "" THEN << >>
     ELSE [stakingNetworkChitSpammerTest |-> ChitSpammerTest,
           conflictingTxsVertexTest      |-> ConflictingTxsVertexTest]
=============================================================================

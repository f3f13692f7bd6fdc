--------------------- MODULE UnrequestedChitSpammerTest ---------------------
(***************************************************************************)
(* The StakingNetworkUnrequestedChitSpammerTest as calls on its nodes:     *)
(* every byzantine node, then a normal one, takes its stake from the       *)
(* genesis funds and becomes a validator, and the normal node's validators *)
(* are counted.  The byzantine nodes answer the API like any node.         *)
(***************************************************************************)
EXTENDS RunnerOperations, SequencesExt

\* byzantine-node-0 and so on, in the order of the loop.
ByzantineNodes == << "byzantine-node-0", "byzantine-node-1" >>
NormalNode == "normal-node"

\* The amounts, in units of 10^13.
spammerSeedAmount == 5
spammerStakeAmount == 3

AddByzantineNodes ==
  FlattenSeq([i \in DOMAIN ByzantineNodes |->
    ImportGenesisFundsAndStartValidating(ByzantineNodes[i], "byzantine_camino",
                                         spammerSeedAmount, spammerStakeAmount)
    \o << ListValidators("background", ByzantineNodes[i], "nilFatal") >>])

AddNormalNode ==
  ImportGenesisFundsAndStartValidating(NormalNode, "staker_camino",
                                       spammerSeedAmount, spammerStakeAmount)

\* The genesis validators, the byzantine nodes and the normal node.
Run(genesisValidators) ==
  AddByzantineNodes
  \o AddNormalNode
  \o << VerifyValidators("background", NormalNode,
                         genesisValidators + Len(ByzantineNodes) + 1, 0,
                         "nilFatal") >>
=============================================================================

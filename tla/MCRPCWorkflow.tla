---------------------------- MODULE MCRPCWorkflow ----------------------------
(***************************************************************************)
(* The workflow test on its two nodes, with and without a context, and     *)
(* the chit spammer test on two byzantine nodes and a normal one, with the *)
(* genesis of DefaultLocalNetGenesisConfig: five stakers, one funded       *)
(* address.                                                                *)
(***************************************************************************)
EXTENDS RPCWorkflowTest, UnrequestedChitSpammerTest

TestPrograms == WorkflowTests \cup {Run(GenesisValidators)}
JustTheWorkflow == {ExecuteTest(NewRPCWorkflowTestExecutor)}
NoneOrAllFaults == { {}, {"call", "timeout", "reject"} }
NoFaults == { {} }
=============================================================================

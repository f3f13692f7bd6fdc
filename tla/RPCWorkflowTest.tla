-------------------------- MODULE RPCWorkflowTest --------------------------
(***************************************************************************)
(* The StakingNetworkRPCWorkflowTest: the program of its ExecuteTest,      *)
(* which funds a staker and a delegator on two nodes, makes the staker a   *)
(* validator, delegates to it, and moves what is left back to the X chain. *)
(*                                                                         *)
(* The executor makes three calls with a context of its own, which its     *)
(* constructor leaves nil: as it stands the test ends at the first of      *)
(* them.  What the rest of it does is shown with an executor that has a    *)
(* context, as those of the other tests have.                              *)
(***************************************************************************)
EXTENDS RunnerLedger

\* The services the two clients talk to.
StakerNode == "validator-node"
DelegatorNode == "delegator-node"

\* The amounts, in KiloAvax.
seedAmount == 5
stakeAmount == 3
delegatorAmountOther == 2   \* faulty: the two stakes are assumed to be equal
delegatorAmount == 3

ExpectedStakerBalance == seedAmount - stakeAmount
ExpectedDelegatorBalance == seedAmount - delegatorAmount

NewRPCWorkflowTestExecutor == [ctx |-> "nil"]
\* As NewBombardExecutor makes one.
ExecutorWithContext == [ctx |-> "background"]

\* "staker" and "delegator" are users, and the owners of their addresses.
CreateFundedAccounts(e) ==
  ImportGenesisFunds(StakerNode, "genesis")
  \o << GetNodeID(e.ctx, StakerNode), GetNodeID(e.ctx, DelegatorNode) >>
  \o CreateDefaultAddresses(StakerNode, "staker")
  \o CreateDefaultAddresses(DelegatorNode, "delegator")
  \o FundXChainAddresses(StakerNode, "genesis", X("genesis"),
                         << X("staker"), X("delegator") >>, seedAmount)
  \o VerifyXChainAVABalance(StakerNode, "staker", seedAmount)
  \o VerifyXChainAVABalance(DelegatorNode, "delegator", seedAmount)

AddValidator ==
  TransferAvaXChainToPChain(StakerNode, "staker", X("staker"), P("staker"),
                            seedAmount)
  \o VerifyPChainBalance(StakerNode, "staker", seedAmount)
  \o VerifyXChainAVABalance(StakerNode, "staker", 0)
  \o AddValidatorToPrimaryNetwork(StakerNode, "staker", "stakerNodeID",
                                  P("staker"), stakeAmount)

VerifyNetworkState(e) ==
  << VerifyValidators(e.ctx, StakerNode, 6, 0, "passed") >>
  \o VerifyPChainBalance(StakerNode, "staker", ExpectedStakerBalance)

AddDelegator ==
  TransferAvaXChainToPChain(DelegatorNode, "delegator", X("delegator"),
                            P("delegator"), seedAmount)
  \o VerifyPChainBalance(DelegatorNode, "delegator", seedAmount)
  \o VerifyXChainAVABalance(DelegatorNode, "delegator", 0)
  \o AddDelegatorToPrimaryNetwork(DelegatorNode, "delegator", "stakerNodeID",
                                  P("delegator"), delegatorAmount)
  \o VerifyPChainBalance(DelegatorNode, "delegator", ExpectedDelegatorBalance)

\* Faulty: forgets the delegator.
TransferToXChainStakerOnly ==
  TransferAvaPChainToXChain(StakerNode, "staker", ExpectedStakerBalance)
  \o VerifyPChainBalance(StakerNode, "staker", 0)
  \o VerifyXChainAVABalance(StakerNode, "staker", ExpectedStakerBalance)

\* The delegator's transfer moves the staker's expected balance.
TransferToXChain ==
  TransferAvaPChainToXChain(StakerNode, "staker", ExpectedStakerBalance)
  \o VerifyPChainBalance(StakerNode, "staker", 0)
  \o VerifyXChainAVABalance(StakerNode, "staker", ExpectedStakerBalance)
  \o TransferAvaPChainToXChain(DelegatorNode, "delegator",
                               ExpectedStakerBalance)
  \o VerifyPChainBalance(DelegatorNode, "delegator", 0)
  \o VerifyXChainAVABalance(DelegatorNode, "delegator",
                            ExpectedDelegatorBalance)

ExecuteTest(e) ==
  CreateFundedAccounts(e)
  \o AddValidator
  \o VerifyNetworkState(e)
  \o AddDelegator
  \o TransferToXChain

\* The test as it is constructed, and as it would be with a context.
WorkflowTests ==
  {ExecuteTest(e) : e \in {NewRPCWorkflowTestExecutor, ExecutorWithContext}}

\* Every account of these programs is spent on the node of its own user.
ASSUME WorkflowSpendsLocally == \A Q \in WorkflowTests : SpendsLocally(Q)

\* Where the test says the funds are at the end: the stakes locked, the rest
\* back on the X chain, nothing on the P chain or on its way.
Left(node, account, holds) == [node |-> node, account |-> account, holds |-> holds]

FinalBalances ==
  { Left(StakerNode, X("staker"), ExpectedStakerBalance),
    Left(StakerNode, P("staker"), 0),
    Left(StakerNode, Exported(X("staker")), 0),
    Left(StakerNode, Staked("stakerNodeID"), stakeAmount),
    Left(DelegatorNode, X("delegator"), ExpectedDelegatorBalance),
    Left(DelegatorNode, P("delegator"), 0),
    Left(DelegatorNode, Exported(X("delegator")), 0),
    Left(DelegatorNode, Delegated("stakerNodeID"), delegatorAmount) }

\* A workflow that gets to its end has left every KiloAvax where the test
\* says, as each user's own node sees it (workflow/executor.go:181-204).
\* Without a context it does not get there.
FundsAreBack ==
  pc = Len(program) + 1 /\ program \in WorkflowTests =>
    \A b \in FinalBalances : bal[b.node][b.account] = b.holds

\* The workflow test is careful and its ledger ends with those balances.
WorkflowIsCareful(Q) ==
  /\ Careful(Q)
  /\ \A b \in FinalBalances : LeavesBehind(Q, b.node, b.account, b.holds)

\* Every test makes sure of what it relies on before it relies on it: that
\* its users and keys are there, and that the funds another node has sent
\* have arrived where it spends them; without its check of a balance on the
\* delegator's node the workflow test would not
\* (workflow/executor.go:56-207, unrequested_chit_spammer.go:74-131).
TestIsCareful ==
  pc = 1 => IF program \in WorkflowTests THEN WorkflowIsCareful(program)
                                         ELSE Careful(program)

\* No test of a healthy network ends because a call is not answered.  The
\* workflow test, which is to end with its funds "back to X Chain and
\* verified" (workflow/executor.go:204), ends with "Could not get staker node
\* ID." (line 70) on every network: its executor has no context.
HealthyNetworkAnswers == faults = {} => result # "callFailed"
=============================================================================

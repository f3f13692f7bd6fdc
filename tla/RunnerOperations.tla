-------------------------- MODULE RunnerOperations --------------------------
(***************************************************************************)
(* The methods of RPCWorkFlowRunner as straight-line programs: sequences   *)
(* of the calls they make on a node, in the order they make them.  Every   *)
(* method stops at the first call that fails, so a program is all there is *)
(* to a method; WorkflowRunner says what running one call does.            *)
(*                                                                         *)
(* An account is where funds can be.  Besides the two chains' addresses    *)
(* there are the funds exported to an address and not yet imported, and    *)
(* the stake locked in a validator or in a delegation to it.               *)
(***************************************************************************)
EXTENDS Integers, Sequences

X(owner) == <<"X", owner>>
P(owner) == <<"P", owner>>
Exported(address) == <<"exported", address>>
Staked(nodeID) == <<"staked", nodeID>>
Delegated(nodeID) == <<"delegated", nodeID>>

\* The amount of an import: whatever has been exported to the address.
Everything == -1

-----------------------------------------------------------------------------
(* One call on a node's API.  [masked] says that the method loses the      *)
(* error of the call and goes on to wait for a transaction.  [ctx] is the  *)
(* context.Context of a call that a test may make without a runner: a      *)
(* runner's is always the background context.                              *)

CreateUser(node, user) == [op |-> "createUser", node |-> node, user |-> user]

AddKey(node, user, account) ==
  [op |-> "addKey", node |-> node, user |-> user, account |-> account]

GetNodeID(ctx, node) == [op |-> "getNodeID", node |-> node, ctx |-> ctx]

Tx(node, user, from, to, amount) ==
  [op |-> "tx", node |-> node, user |-> user, from |-> from, to |-> to,
   amount |-> amount, masked |-> FALSE]

VerifyBalance(node, account, expected) ==
  [op |-> "verifyBalance", node |-> node, account |-> account,
   expected |-> expected]

\* A GetCurrentValidators call whose reply is counted.  [unconverted] is how
\* the test ends when a validator in it is not of the expected type.
VerifyValidators(ctx, node, validators, delegators, unconverted) ==
  [op |-> "verifyValidators", node |-> node, ctx |-> ctx,
   validators |-> validators, delegators |-> delegators,
   unconverted |-> unconverted]

\* A GetCurrentValidators call whose reply is converted and only logged.
ListValidators(ctx, node, unconverted) ==
  [op |-> "listValidators", node |-> node, ctx |-> ctx,
   unconverted |-> unconverted]

-----------------------------------------------------------------------------
(* Faulty variants of the methods below.                                   *)

\* Does not look at the balance.
VerifyXChainAVABalanceSkipped(node, user, expected) == << >>

\* Imports before it exports.
TransferAvaPChainToXChainSwapped(node, user, amount) ==
  << [Tx(node, user, Exported(X(user)), X(user), Everything)
        EXCEPT !.masked = TRUE],
     Tx(node, user, P(user), Exported(X(user)), amount) >>

-----------------------------------------------------------------------------
(* The methods.                                                            *)

\* The key of DefaultLocalNetGenesisConfig controls X("genesis").
ImportGenesisFunds(node, user) ==
  << CreateUser(node, user),
     AddKey(node, user, X("genesis")) >>

CreateDefaultAddresses(node, user) ==
  << CreateUser(node, user),
     AddKey(node, user, X(user)),
     AddKey(node, user, P(user)) >>

FundXChainAddresses(node, user, from, addresses, amount) ==
  [i \in 1..Len(addresses) |-> Tx(node, user, from, addresses[i], amount)]

\* The user's X chain funds are at [from].
TransferAvaXChainToPChain(node, user, from, pAddress, amount) ==
  << Tx(node, user, from, Exported(pAddress), amount),
     Tx(node, user, Exported(pAddress), pAddress, Everything) >>

\* The import's error is overwritten by the result of the wait.
TransferAvaPChainToXChain(node, user, amount) ==
  << Tx(node, user, P(user), Exported(X(user)), amount),
     [Tx(node, user, Exported(X(user)), X(user), Everything)
        EXCEPT !.masked = TRUE] >>

AddValidatorToPrimaryNetwork(node, user, nodeID, pAddress, amount) ==
  << Tx(node, user, pAddress, Staked(nodeID), amount) >>

AddDelegatorToPrimaryNetwork(node, user, nodeID, pAddress, amount) ==
  << Tx(node, user, pAddress, Delegated(nodeID), amount) >>

\* The node makes itself a validator; the address it creates on the P chain
\* is its own whatever the user is called.
ImportGenesisFundsAndStartValidating(node, user, seedAmount, stakeAmount) ==
  << GetNodeID("background", node) >>
  \o ImportGenesisFunds(node, user)
  \o << AddKey(node, user, P(node)) >>
  \o TransferAvaXChainToPChain(node, user, X("genesis"), P(node), seedAmount)
  \o AddValidatorToPrimaryNetwork(node, user, node, P(node), stakeAmount)

VerifyXChainAVABalance(node, user, expected) ==
  << VerifyBalance(node, X(user), expected) >>

VerifyPChainBalance(node, user, expected) ==
  << VerifyBalance(node, P(user), expected) >>
=============================================================================

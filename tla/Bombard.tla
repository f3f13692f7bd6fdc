------------------------------ MODULE Bombard ------------------------------
(***************************************************************************)
(* The bombard test's ExecuteTest: one node funds an address on each of    *)
(* the others, a chain of transactions is made from each funding output    *)
(* without asking any node, each chain is issued on its own node, and all  *)
(* are awaited on the first.                                               *)
(*                                                                         *)
(* Client 0 talks to the genesis node, clients 1..N to the others.         *)
(* Transaction <<i, 0>> funds the address of client i, and <<i, k>> is the *)
(* k-th of its chain.  A node's view is the set of what it has accepted.   *)
(***************************************************************************)
EXTENDS Integers, Sequences, FiniteSets

CONSTANTS
  N,         \* the number of secondary clients
  numTxs,    \* the length of each chain
  txFee,     \* the network's fee
  Modulus,   \* amounts are unsigned integers below this
  FaultSets  \* which of "call", "timeout" and "reject" may happen

\* The registered test has 1000 transactions of a fee of 1000000
\* (kurtosis_test_suite.go:56-60): far from the largest uint64.
ASSUME BombardAssumption ==
  /\ N \in Nat \ {0}
  /\ numTxs \in Nat
  /\ txFee \in Nat \ {0}
  /\ Modulus \in Nat
  /\ (numTxs + 1) * txFee < Modulus
  /\ FaultSets \subseteq SUBSET {"call", "timeout", "reject"}

Secondary == 1..N
Clients == 0..N
Txs == Secondary \X (0..numTxs)
Amounts == [in : 0..Modulus - 1, out : 0..Modulus - 1]

VARIABLES
  step,     \* where ExecuteTest is, or how it ended
  i,        \* the secondary client it is at
  k,        \* the transaction of that client it is at
  utxos,    \* the clients whose list of UTXOs was not empty
  made,     \* the amounts of each chain's transactions, so far
  issued,   \* the transactions that exist
  rejected, \* those the network has given up
  view,     \* for each node, those it has accepted
  faults    \* what may happen in this behaviour, one of FaultSets

testVars == <<step, i, k, utxos, made>>
networkVars == <<issued, rejected, view>>
vars == <<testVars, networkVars, faults>>

Init ==
  /\ step = "addresses"
  /\ i = 1
  /\ k = 0
  /\ utxos = {}
  /\ made = [c \in Secondary |-> << >>]
  /\ issued = {}
  /\ rejected = {}
  /\ view = [n \in Clients |-> {}]
  /\ faults \in FaultSets

\* A faulty variant: nothing remains once the fees are paid.
seedAmountShort == (numTxs * txFee) % Modulus

\* What each address is funded with.
seedAmount == ((numTxs + 1) * txFee) % Modulus

-----------------------------------------------------------------------------
(* Faulty variants of the steps below.                                     *)

\* Goes on without waiting for the funding.
FundingAcceptedUnchecked ==
  /\ step = "awaitFunding"
  /\ IF i < N THEN step' = "fund" /\ i' = i + 1
              ELSE step' = "verify" /\ i' = 1
  /\ UNCHANGED <<k, utxos, made, networkVars, faults>>

\* Does not look at the balance on the secondary node.
BalanceNotVerified ==
  /\ step = "verify"
  /\ step' = "utxos"
  /\ UNCHANGED <<i, k, utxos, made, networkVars, faults>>

\* Leaves out the last transaction of each list.
ListConfirmedShort ==
  /\ step = "await"
  /\ k >= numTxs
  /\ IF i < N THEN step' = "await" /\ i' = i + 1
              ELSE step' = "passed" /\ i' = 1
  /\ k' = 1
  /\ UNCHANGED <<utxos, made, networkVars, faults>>

\* Goes on to a client that there is not.
NextClientTooFar(again, then) ==
  IF i <= N THEN step' = again /\ i' = i + 1 ELSE step' = then /\ i' = 1

-----------------------------------------------------------------------------
(* The test.                                                               *)

End(result) ==
  /\ step' = result
  /\ UNCHANGED <<i, k, utxos, made, networkVars, faults>>

\* From the last client on to the first of the next step, else to the next
\* client.
NextClient(again, then) ==
  IF i < N THEN step' = again /\ i' = i + 1 ELSE step' = then /\ i' = 1

\* CreateDefaultAddresses on client i.
CreateAddresses ==
  /\ step = "addresses"
  /\ NextClient("addresses", "import")
  /\ UNCHANGED <<k, utxos, made, networkVars, faults>>

\* Client 0 imports the genesis key and lists its one address.
ImportGenesisFunds ==
  /\ step = "import"
  /\ step' = "fund"
  /\ UNCHANGED <<i, k, utxos, made, networkVars, faults>>

\* FundXChainAddresses sends to one address and waits on the genesis node.
Fund ==
  /\ step = "fund"
  /\ issued' = issued \cup {<<i, 0>>}
  /\ step' = "awaitFunding"
  /\ UNCHANGED <<i, k, utxos, made, rejected, view, faults>>

FundingAccepted ==
  /\ step = "awaitFunding"
  /\ <<i, 0>> \in view[0]
  /\ NextClient("fund", "verify")
  /\ UNCHANGED <<k, utxos, made, networkVars, faults>>

FundingFails ==
  /\ step = "awaitFunding"
  /\ "timeout" \in faults \/ <<i, 0>> \in rejected
  /\ End("failed")

\* The balance is that of the secondary node.
BalanceVerified ==
  /\ step = "verify"
  /\ <<i, 0>> \in view[i]
  /\ step' = "utxos"
  /\ UNCHANGED <<i, k, utxos, made, networkVars, faults>>

BalanceMismatch ==
  /\ step = "verify"
  /\ <<i, 0>> \notin view[i]
  /\ End("mismatch")

\* The UTXOs are those of the genesis node.
GetUTXOs ==
  /\ step = "utxos"
  /\ utxos' = IF <<i, 0>> \in view[0] THEN utxos \cup {i} ELSE utxos
  /\ NextClient("verify", "create")
  /\ UNCHANGED <<k, made, networkVars, faults>>

\* utxoLists[i][0] panics when there is none; CreateConsecutiveTransactions
\* refuses to start when the amount does not cover the fees.
CreateTransactions ==
  /\ step = "create"
  /\ step' = IF i \notin utxos THEN "panicked"
             ELSE IF (numTxs * txFee) % Modulus > seedAmount THEN "failed"
             ELSE "creating"
  /\ UNCHANGED <<i, k, utxos, made, networkVars, faults>>

\* The amounts of the next transaction of a chain.
NextAmounts(c) ==
  LET last == made[c][Len(made[c])] IN
  IF made[c] = << >>
    THEN [in |-> seedAmount, out |-> (seedAmount - txFee) % Modulus]
    ELSE [in |-> (last.in - txFee) % Modulus,
          out |-> (last.out - txFee) % Modulus]

CreateSingleUTXOTx ==
  /\ step = "creating"
  /\ Len(made[i]) < numTxs
  /\ made' = [made EXCEPT ![i] = Append(@, NextAmounts(i))]
  /\ UNCHANGED <<step, i, k, utxos, networkVars, faults>>

TransactionsCreated ==
  /\ step = "creating"
  /\ Len(made[i]) = numTxs
  /\ NextClient("create", "issue")
  /\ k' = 1
  /\ UNCHANGED <<utxos, made, networkVars, faults>>

\* The node of client c knows what transaction <<c, n>> spends, which is
\* what it says it is, and the fee is paid.
Input(c, n) == IF n = 1 THEN seedAmount ELSE made[c][n - 1].out

Admissible(c, n) ==
  /\ IF n = 1 THEN <<c, 0>> \in view[c] ELSE <<c, n - 1>> \in issued
  /\ made[c][n].in = Input(c, n)
  /\ made[c][n].out > 0
  /\ made[c][n].out + txFee <= made[c][n].in

\* issueTxsAsync runs on the caller's own goroutine, list after list.
IssueTx ==
  /\ step = "issue"
  /\ k <= numTxs
  /\ Admissible(i, k)
  /\ issued' = issued \cup {<<i, k>>}
  /\ k' = k + 1
  /\ UNCHANGED <<step, i, utxos, made, rejected, view, faults>>

IssueTxPanics ==
  /\ step = "issue"
  /\ k <= numTxs
  /\ "call" \in faults \/ ~Admissible(i, k)
  /\ End("panicked")

ListIssued ==
  /\ step = "issue"
  /\ k = numTxs + 1
  /\ NextClient("issue", "await")
  /\ k' = 1
  /\ UNCHANGED <<utxos, made, networkVars, faults>>

\* AwaitXChainTxs of the list of client i, on the genesis node.
TxConfirmed ==
  /\ step = "await"
  /\ k <= numTxs
  /\ <<i, k>> \in view[0]
  /\ k' = k + 1
  /\ UNCHANGED <<step, i, utxos, made, networkVars, faults>>

\* Its error is made into another error, and that one is dropped.
AwaitFails ==
  /\ step = "await"
  /\ k <= numTxs
  /\ \/ faults \cap {"call", "timeout"} # {}
     \/ <<i, k>> \in rejected
  /\ NextClient("await", "passed")
  /\ k' = 1
  /\ UNCHANGED <<utxos, made, networkVars, faults>>

ListConfirmed ==
  /\ step = "await"
  /\ k = numTxs + 1
  /\ NextClient("await", "passed")
  /\ k' = 1
  /\ UNCHANGED <<utxos, made, networkVars, faults>>

\* An API call fails, and its error is returned.
CallFails ==
  /\ "call" \in faults
  /\ step \in {"addresses", "import", "fund", "awaitFunding", "verify",
               "utxos", "create"}
  /\ End("failed")

Test ==
  \/ CreateAddresses
  \/ ImportGenesisFunds
  \/ Fund
  \/ FundingAccepted
  \/ FundingFails
  \/ BalanceVerified
  \/ BalanceMismatch
  \/ GetUTXOs
  \/ CreateTransactions
  \/ CreateSingleUTXOTx
  \/ TransactionsCreated
  \/ IssueTx
  \/ IssueTxPanics
  \/ ListIssued
  \/ TxConfirmed
  \/ AwaitFails
  \/ ListConfirmed
  \/ CallFails

-----------------------------------------------------------------------------
(* The nodes, which this repository only talks to.                         *)

\* What a transaction spends an output of: a funding the change of the one
\* before it.
Parents(tx) ==
  IF tx[2] > 0 THEN {<<tx[1], tx[2] - 1>>}
  ELSE IF tx[1] > 1 THEN {<<tx[1] - 1, 0>>} ELSE {}

Accept(n, tx) ==
  /\ tx \in issued \ (view[n] \cup rejected)
  /\ Parents(tx) \subseteq view[n]
  /\ view' = [view EXCEPT ![n] = @ \cup {tx}]
  /\ UNCHANGED <<testVars, issued, rejected, faults>>

\* The network gives up a transaction no node has accepted.
Reject(tx) ==
  /\ "reject" \in faults
  /\ tx \in issued \ rejected
  /\ \A n \in Clients : tx \notin view[n]
  /\ rejected' = rejected \cup {tx}
  /\ UNCHANGED <<testVars, issued, view, faults>>

Network == \/ \E n \in Clients, tx \in Txs : Accept(n, tx)
           \/ \E tx \in Txs : Reject(tx)

Next == Test \/ Network

\* The test runs whenever it can; a node accepts what it can accept.
Spec ==
  /\ Init
  /\ [][Next]_vars
  /\ WF_vars(Test)
  /\ WF_vars(\E n \in Clients, tx \in Txs : Accept(n, tx))

-----------------------------------------------------------------------------
(* Properties.                                                             *)

Steps == {"addresses", "import", "fund", "awaitFunding", "verify", "utxos",
          "create", "creating", "issue", "await"}
Results == {"passed", "failed", "mismatch", "panicked"}

\* The test's variables keep their shape, and only what was issued is
\* accepted or given up (bombard_executor.go:57-191).
TypeOK ==
  /\ step \in Steps \cup Results
  /\ i \in 1..N
  /\ k \in 0..numTxs + 1
  /\ utxos \subseteq Secondary
  /\ made \in [Secondary -> Seq(Amounts)]
  /\ issued \subseteq Txs
  /\ rejected \subseteq issued
  /\ view \in [Clients -> SUBSET issued]
  /\ faults \in FaultSets

\* The chains are made without a node to check them: each transaction spends
\* exactly what the one before it left, pays exactly one fee, and no amount
\* wraps around; at the end "[e.txFee]" remains (tx_helper.go:96-132,
\* bombard_executor.go:107).
ChainsAreFunded ==
  \A c \in Secondary : \A n \in 1..Len(made[c]) :
    /\ made[c][n].in = Input(c, n)
    /\ made[c][n].in = made[c][n].out + txFee
    /\ made[c][n].out >= txFee

\* Without faults no step panics: the funding is accepted on the genesis node
\* when its UTXO is taken there, and on the client's own node when the chain
\* is issued there, however far either is behind (bombard_executor.go:94-178).
NeverPanics == faults = {} => step # "panicked"

\* Without faults a test that passes has seen every transaction accepted on
\* the genesis node (bombard_executor.go:182-188).
HealthyPassMeansConfirmed ==
  faults = {} /\ step = "passed" =>
    \A c \in Secondary, n \in 1..numTxs : <<c, n>> \in view[0]

\* Without faults the test ends, and only a node that is behind can make it
\* fail.
HealthyBombardEnds == faults = {} => <>(step \in {"passed", "mismatch"})

\* "Confirmed all issued transactions." (bombard_executor.go:188): when the
\* test passes, the genesis node has accepted every one of them.
PassMeansConfirmed ==
  step = "passed" =>
    \A c \in Secondary, n \in 1..numTxs : <<c, n>> \in view[0]
=============================================================================

--------------------------- MODULE WorkflowRunner ---------------------------
(***************************************************************************)
(* A test that drives RPCWorkFlowRunners, run call by call against a       *)
(* network whose nodes accept transactions at times of their own.  A       *)
(* behaviour runs one of the tests the constant Programs describes.        *)
(*                                                                         *)
(* The test is sequential: it issues a transaction on one node, waits      *)
(* until that node has accepted it, and goes on, often on another node     *)
(* that may not have accepted it yet.  What each node has accepted is its  *)
(* view; the balances a node reports, and the funds it lets a user spend,  *)
(* are those of its view.  Transactions are named by their place in the    *)
(* program.  There are no fees: the networks of these tests set none.      *)
(***************************************************************************)
EXTENDS RunnerOperations, FiniteSets

CONSTANTS
  Programs,          \* the tests: sequences of calls, from RunnerOperations
  GenesisFunds,      \* what X("genesis") holds at the start
  GenesisValidators, \* the number of validators in the genesis
  FaultSets,         \* which of "call", "timeout", "reject" may happen
  ConvertibleReplies \* whether a validator in a reply may be converted

ASSUME NetworkAssumption ==
  /\ GenesisFunds \in Nat
  /\ GenesisValidators \in Nat
  /\ FaultSets \subseteq SUBSET {"call", "timeout", "reject"}
  /\ ConvertibleReplies \subseteq BOOLEAN

CallsOf(Q) == 1..Len(Q)
TxsOf(Q) == {k \in CallsOf(Q) : Q[k].op = "tx"}

\* A program is a sequence of well-formed calls.
ASSUME ProgramAssumption ==
  \A Q \in Programs :
    /\ Len(Q) \in Nat
    /\ \A k \in TxsOf(Q) : /\ Q[k].amount \in Nat \cup {Everything}
                           /\ Q[k].masked \in BOOLEAN
    /\ \A k \in CallsOf(Q) :
         Q[k].op \in {"verifyValidators", "listValidators"} =>
           Q[k].unconverted \in {"passed", "nilFatal"}

Results == {"running", "passed", "callFailed", "refused", "abandoned",
            "timedOut", "mismatch", "validators", "nilFatal"}

VARIABLES
  program,   \* the test that runs, one of Programs
  pc,        \* the call it is at
  awaiting,  \* it has issued the transaction and waits for its acceptance
  result,    \* "running", or how the program ended
  users,     \* the keystore users of each node
  keys,      \* for each node, <<user, account>>: the user's keys
  issued,    \* the transactions that exist
  amount,    \* what each of them moves
  base,      \* the transactions each of them was built on
  view,      \* for each node, the transactions it has accepted
  bal,       \* for each node, the balances in its view
  rejected,  \* the transactions the network has given up
  faults     \* what may happen in this behaviour, one of FaultSets

runnerVars == <<pc, awaiting, result, users, keys>>
networkVars == <<program, issued, amount, base, view, bal, rejected, faults>>
vars == <<runnerVars, networkVars>>

Calls == CallsOf(program)
Txs == TxsOf(program)
CallsTo(ops) == {k \in Calls : program[k].op \in ops}

Nodes == {program[k].node : k \in Calls}
Users == {program[k].user : k \in CallsTo({"createUser", "addKey"})}
Accounts ==
  {program[k].from : k \in Txs} \cup {program[k].to : k \in Txs}
    \cup {program[k].account : k \in CallsTo({"addKey", "verifyBalance"})}

Init ==
  /\ program \in Programs
  /\ pc = 1
  /\ awaiting = FALSE
  /\ result = "running"
  /\ users = [n \in Nodes |-> {}]
  /\ keys = [n \in Nodes |-> {}]
  /\ issued = {}
  /\ amount = [k \in Calls |-> 0]
  /\ base = [k \in Calls |-> {}]
  /\ view = [n \in Nodes |-> {}]
  /\ bal = [n \in Nodes |->
             [a \in Accounts |-> IF a = X("genesis") THEN GenesisFunds ELSE 0]]
  /\ rejected = {}
  /\ faults \in FaultSets

-----------------------------------------------------------------------------
(* The nodes, which this repository only talks to.                         *)

Call == program[pc]

Touches(k, a) == a \in {program[k].from, program[k].to}

\* Two transactions spend the same funds when they spend from one account
\* and neither was built on the other.
Conflict(j, k) ==
  /\ j # k
  /\ program[j].from = program[k].from
  /\ j \notin base[k]
  /\ k \notin base[j]

Validators(n) ==
  {a \in Accounts : a[1] = "staked" /\ bal[n][a] > 0}
Delegations(n) ==
  {a \in Accounts : a[1] = "delegated" /\ bal[n][a] > 0}

\* Faulty: applies a transaction before the ones it was built on.
AcceptUnordered(n, k) ==
  /\ k \in issued \ (view[n] \cup rejected)
  /\ view' = [view EXCEPT ![n] = @ \cup {k}]
  /\ bal' = [bal EXCEPT ![n][program[k].from] = @ - amount[k],
                        ![n][program[k].to] = @ + amount[k]]
  /\ UNCHANGED <<program, runnerVars, issued, amount, base, rejected, faults>>

\* Node n accepts transaction k: what it was built on is there, nothing that
\* conflicts with it has been accepted, and a delegation has its validator.
Accept(n, k) ==
  /\ k \in issued \ (view[n] \cup rejected)
  /\ base[k] \subseteq view[n]
  /\ bal[n][program[k].from] >= amount[k]
  /\ \A m \in Nodes, j \in issued : j \in view[m] => ~Conflict(j, k)
  /\ program[k].to[1] = "delegated" => Staked(program[k].to[2]) \in Validators(n)
  /\ view' = [view EXCEPT ![n] = @ \cup {k}]
  /\ bal' = [bal EXCEPT ![n][program[k].from] = @ - amount[k],
                        ![n][program[k].to] = @ + amount[k]]
  /\ UNCHANGED <<program, runnerVars, issued, amount, base, rejected, faults>>

\* Transaction k lost its funds to one that some node has accepted.
DoubleSpent(k) == \E m \in Nodes : \E j \in view[m] : Conflict(j, k)

\* The network gives up a transaction no node has accepted: one whose funds
\* are spent, or, if it may, any.
Reject(k) ==
  /\ "reject" \in faults \/ DoubleSpent(k)
  /\ k \in issued \ rejected
  /\ \A n \in Nodes : k \notin view[n]
  /\ rejected' = rejected \cup {k}
  /\ UNCHANGED <<program, runnerVars, issued, amount, base, view, bal, faults>>

Network == \/ \E n \in Nodes, k \in Txs : Accept(n, k)
           \/ \E k \in Txs : Reject(k)

-----------------------------------------------------------------------------
(* Faulty variants of the runner's steps.                                  *)

\* Goes on as soon as any node has accepted the transaction.
TxAcceptedAnywhere ==
  /\ result = "running"
  /\ awaiting
  /\ \E n \in Nodes : pc \in view[n]
  /\ pc' = pc + 1
  /\ awaiting' = FALSE
  /\ UNCHANGED <<result, users, keys, networkVars>>

\* Goes on without waiting.
TxAcceptedUnchecked ==
  /\ result = "running"
  /\ awaiting
  /\ pc' = pc + 1
  /\ awaiting' = FALSE
  /\ UNCHANGED <<result, users, keys, networkVars>>

-----------------------------------------------------------------------------
(* The runner.                                                             *)

At(op) ==
  /\ result = "running"
  /\ ~awaiting
  /\ pc \in Calls
  /\ Call.op = op

Proceed == pc' = pc + 1 /\ UNCHANGED <<awaiting, result>>

Stop(r) == result' = r /\ UNCHANGED <<pc, awaiting, users, keys, networkVars>>

\* The key that spends from an account.
Spender(a) == IF a[1] = "exported" THEN a[2] ELSE a

\* What the transaction at pc moves.
Wanted ==
  IF Call.amount = Everything THEN bal[Call.node][Call.from] ELSE Call.amount

\* The node can carry out the call at pc.
Admissible ==
  /\ Call.op = "createUser" => Call.user \notin users[Call.node]
  /\ Call.op = "addKey" => Call.user \in users[Call.node]
  /\ Call.op = "tx" =>
       /\ <<Call.user, Spender(Call.from)>> \in keys[Call.node]
       /\ Wanted > 0
       /\ Wanted <= bal[Call.node][Call.from]

DoCreateUser ==
  /\ At("createUser")
  /\ Admissible
  /\ users' = [users EXCEPT ![Call.node] = @ \cup {Call.user}]
  /\ Proceed
  /\ UNCHANGED <<keys, networkVars>>

DoAddKey ==
  /\ At("addKey")
  /\ Admissible
  /\ keys' = [keys EXCEPT ![Call.node] = @ \cup {<<Call.user, Call.account>>}]
  /\ Proceed
  /\ UNCHANGED <<users, networkVars>>

\* A request is not even built with a nil context.
NilContext ==
  /\ pc \in Calls
  /\ Call.op \in {"getNodeID", "verifyValidators", "listValidators"}
  /\ Call.ctx = "nil"

DoGetNodeID ==
  /\ At("getNodeID")
  /\ ~NilContext
  /\ Proceed
  /\ UNCHANGED <<users, keys, networkVars>>

\* The node builds a transaction on what it has accepted and issues it.
IssueTx ==
  /\ At("tx")
  /\ Admissible
  /\ issued' = issued \cup {pc}
  /\ amount' = [amount EXCEPT ![pc] = Wanted]
  /\ base' = [base EXCEPT ![pc] = {j \in view[Call.node] : Touches(j, Call.from)}]
  /\ awaiting' = TRUE
  /\ UNCHANGED <<program, pc, result, users, keys, view, bal, rejected, faults>>

\* The call returns an error, for a nil context without having reached the
\* node, and the program returns it, except where the
\* method overwrites it with the result of waiting for the transaction.
CallFails ==
  /\ result = "running"
  /\ ~awaiting
  /\ pc \in Calls
  /\ "call" \in faults \/ ~Admissible \/ NilContext
  /\ IF Call.op = "tx" /\ Call.masked
       THEN awaiting' = TRUE /\ UNCHANGED <<pc, result, users, keys, networkVars>>
       ELSE Stop(IF Admissible THEN "callFailed" ELSE "refused")

\* The wait for acceptance, as AcceptancePromise describes it.
TxAccepted ==
  /\ result = "running"
  /\ awaiting
  /\ pc \in view[Call.node]
  /\ pc' = pc + 1
  /\ awaiting' = FALSE
  /\ UNCHANGED <<result, users, keys, networkVars>>

TxAbandoned ==
  /\ result = "running"
  /\ awaiting
  /\ pc \in rejected
  /\ Stop("abandoned")

WaitTimesOut ==
  /\ result = "running"
  /\ awaiting
  /\ "timeout" \in faults \/ pc \notin issued
  /\ Stop("timedOut")

WaitFails ==
  /\ result = "running"
  /\ awaiting
  /\ "call" \in faults
  /\ Stop("callFailed")

BalanceAsExpected ==
  /\ At("verifyBalance")
  /\ bal[Call.node][Call.account] = Call.expected
  /\ Proceed
  /\ UNCHANGED <<users, keys, networkVars>>

BalanceMismatch ==
  /\ At("verifyBalance")
  /\ bal[Call.node][Call.account] # Call.expected
  /\ Stop("mismatch")

\* GetCurrentValidators: a validator or delegation the node has accepted is
\* listed once its period has begun and a block has moved the chain's time.
\* The test counts the validators, converts them, and counts the delegators.
Listed(n) == [validators : SUBSET Validators(n), delegations : SUBSET Delegations(n)]

ValidatorCountIs(reply) ==
  GenesisValidators + Cardinality(reply.validators) = Call.validators

DelegatorCountIs(reply) == Cardinality(reply.delegations) = Call.delegators

ValidatorsConverted ==
  /\ At("listValidators")
  /\ ~NilContext
  /\ TRUE \in ConvertibleReplies
  /\ Proceed
  /\ UNCHANGED <<users, keys, networkVars>>

ValidatorsAsExpected ==
  /\ At("verifyValidators")
  /\ ~NilContext
  /\ TRUE \in ConvertibleReplies
  /\ \E reply \in Listed(Call.node) :
       ValidatorCountIs(reply) /\ DelegatorCountIs(reply)
  /\ Proceed
  /\ UNCHANGED <<users, keys, networkVars>>

\* A validator that is not of the expected type: the error is built from a
\* nil cause, so it is nil.  The workflow test returns it, which is no error;
\* the chit spammer test calls Fatal with it.
ValidatorNotConverted ==
  /\ FALSE \in ConvertibleReplies
  /\ ~NilContext
  /\ \/ /\ At("verifyValidators")
        /\ Call.validators > 0
        /\ \E reply \in Listed(Call.node) : ValidatorCountIs(reply)
     \/ /\ At("listValidators")
        /\ \E reply \in Listed(Call.node) :
             GenesisValidators + Cardinality(reply.validators) > 0
  /\ Stop(Call.unconverted)

ValidatorsMismatch ==
  /\ At("verifyValidators")
  /\ ~NilContext
  /\ \E reply \in Listed(Call.node) :
       \/ ~ValidatorCountIs(reply)
       \/ TRUE \in ConvertibleReplies /\ ~DelegatorCountIs(reply)
  /\ Stop("validators")

Finish ==
  /\ result = "running"
  /\ pc = Len(program) + 1
  /\ Stop("passed")

Runner ==
  \/ DoCreateUser
  \/ DoAddKey
  \/ DoGetNodeID
  \/ IssueTx
  \/ CallFails
  \/ TxAccepted
  \/ TxAbandoned
  \/ WaitTimesOut
  \/ WaitFails
  \/ BalanceAsExpected
  \/ BalanceMismatch
  \/ ValidatorsConverted
  \/ ValidatorsAsExpected
  \/ ValidatorNotConverted
  \/ ValidatorsMismatch
  \/ Finish

Next == Runner \/ Network

\* The runner runs whenever it can; a node accepts what it can accept, and
\* the network drops a double spend.
Spec ==
  /\ Init
  /\ [][Next]_vars
  /\ WF_vars(Runner)
  /\ WF_vars(\E n \in Nodes, k \in Txs : Accept(n, k))
  /\ WF_vars(\E k \in Txs : DoubleSpent(k) /\ Reject(k))

-----------------------------------------------------------------------------
(* Properties.                                                             *)

\* The runner and the nodes keep their state in shape: no balance is ever
\* negative, and only transactions that were issued are accepted, rejected
\* or built on (rpc_workflow_runner.go:72-345).
TypeOK ==
  /\ program \in Programs
  /\ pc \in 1..Len(program) + 1
  /\ awaiting \in BOOLEAN
  /\ result \in Results
  /\ users \in [Nodes -> SUBSET Users]
  /\ keys \in [Nodes -> SUBSET (Users \X Accounts)]
  /\ issued \subseteq Txs
  /\ amount \in [Calls -> Nat]
  /\ base \in [Calls -> SUBSET issued]
  /\ view \in [Nodes -> SUBSET issued]
  /\ bal \in [Nodes -> [Accounts -> Nat]]
  /\ rejected \subseteq issued
  /\ faults \in FaultSets

\* A program that reports success has had every one of its transactions
\* accepted by the node it was issued on: no early return skips the rest of
\* the test, and no wait returns nil too soon (workflow/executor.go:56-207).
PassMeansComplete ==
  result = "passed" => \A k \in Txs : k \in view[program[k].node]

\* A program that has made its last call has had every one of its
\* transactions accepted by the node it was issued on: no wait returns nil
\* too soon (rpc_workflow_runner.go:193-345).
EndMeansComplete ==
  pc = Len(program) + 1 => \A k \in Txs : k \in view[program[k].node]

\* The test spends from each account on one node only.
SpendsLocally(Q) ==
  \A j, k \in TxsOf(Q) : Q[j].from = Q[k].from => Q[j].node = Q[k].node

\* The transactions a test issues on one node never conflict: each is built
\* on all the earlier ones that spend from the same account, because the
\* runner waits on the node it will spend on (rpc_workflow_runner.go:193-210).
NoSelfConflict ==
  \A j, k \in issued : program[j].node = program[k].node => ~Conflict(j, k)

\* When the network gives up nothing of its own accord, a wait ends in a
\* rejection only because the node had not accepted yet what the test had
\* spent from the same account on another node: lag alone makes the chit
\* spammer test, which spends the genesis funds on every node, fail
\* (unrequested_chit_spammer.go:74-86, rpc_workflow_runner.go:375-377).
RejectionMeansLag ==
  result = "abandoned" /\ "reject" \notin faults =>
    \E j \in issued : /\ j < pc
                      /\ program[j].from = Call.from
                      /\ program[j].node # Call.node
                      /\ j \notin base[pc]

\* No call is refused: when the program spends from an account or uses a
\* key, the node it asks already has the funds and the key.
NeverRefused == result # "refused"

\* A balance is found wrong only at a node that is behind: it has not
\* accepted yet some transaction on that account, which the program has
\* waited for at another node.  The balances the tests expect are otherwise
\* right (rpc_workflow_runner.go:435-462, workflow/executor.go:102-203).
MismatchMeansLag ==
  [][result' = "mismatch" /\ result = "running" =>
       \E k \in Txs : /\ k < pc
                      /\ Touches(k, Call.account)
                      /\ k \notin view[Call.node]]_vars

\* A test's end that no fault explains.
EndsWell ==
  \/ result \in {"passed", "mismatch", "validators", "nilFatal"}
  \/ result = "abandoned" /\ ~SpendsLocally(program)

\* A test's end that its own call, made without a context, explains.
EndsWithoutContext == result = "callFailed" /\ NilContext

\* On a network that loses no call, gives up nothing of its own accord and
\* accepts within the timeout, the test ends, and only a node that is behind
\* or a context it has not got can make it fail: nothing is refused and no
\* wait is in vain.  The network gives up a transaction only for a test that
\* spends from one account on two nodes.
HealthyNetworkSuffices == faults = {} => <>(EndsWell \/ EndsWithoutContext)

-----------------------------------------------------------------------------
(* Each wait of a test, seen as the wait AcceptancePromise describes, on   *)
(* the node the transaction was issued on.                                 *)

StatusOf(k) ==
  IF k \in rejected THEN "Rejected"
  ELSE IF k \in view[program[k].node] THEN "Accepted" ELSE "Processing"

OutcomeOf(k) ==
  IF k < pc THEN "nil"
  ELSE IF k = pc /\ awaiting /\ result # "running" THEN result ELSE "waiting"

TxPromise(k) ==
  INSTANCE AcceptancePromise
    WITH Pending <- {"Processing"}, Accepted <- {"Accepted"},
         Abandoned <- {"Rejected"},
         status <- StatusOf(k), outcome <- OutcomeOf(k)

\* Every wait of every test returns what AcceptanceWait promises to return:
\* the steps that stand here for waitForXchainTransactionAcceptance and
\* waitForPChainTransactionAcceptance are the ones its loops can take
\* (rpc_workflow_runner.go:364-432).
WaitsKeepPromise ==
  /\ \A k \in Txs : TxPromise(k)!Init
  /\ [][\A k \in Txs : TxPromise(k)!Step]_vars
=============================================================================

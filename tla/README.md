# Verification of camino-testing

camino-testing is the end-to-end test suite of the Camino network. It starts
networks of nodes with Kurtosis, drives them through their APIs and decides
whether they behaved. Its own logic is what this project is about: how a test
network is put together, how long and for what the tests wait, in which order
they spend funds on which node, and what a test that *passes* has really
established. The nodes, Kurtosis and Docker are not in the repository; they are
modelled only as far as the suite relies on them, and are marked external.

Paths below are relative to the repository (`testsuite/...`, `camino/...`).

## 1. The system

| Component | Code | State it keeps | Operations | What makes it correct |
|---|---|---|---|---|
| Acceptance polling | `testsuite/helpers/rpc_workflow_runner.go` 364-432 | start of the wait, last answer | poll, sleep, give up | nil only for an accepted transaction, an honest timeout, no delay beyond the call under way, it returns |
| `RPCWorkFlowRunner` | same file | none of its own; acts on users, keys, balances and transactions of the nodes | accounts, funding, X/P transfers, staking, balance checks | never spends the same funds twice, never goes on before its node has accepted, checks are right unless a node lags |
| RPC workflow test | `testsuite/tests/workflow` | place in the test; a context | `ExecuteTest` | it can pass; a pass means that all of it was done; funds end where it says |
| `NetworkStateVerifier` | `testsuite/verifier` | services asked so far | `VerifyNetworkFullyConnected`, `VerifyExpectedPeers` | a pass means a fully connected network of distinct stakers |
| Conflicting vertex test | `testsuite/tests/conflictvtx` | statuses read | `ExecuteTest` | judges only after finality; can pass, and can fail |
| Test network | `camino/networks/camino_network.go` | configurations, boot nodes, services | load, configure, initialise, add, remove | a sound network comes up, an unsound one is refused for the right reason |
| Initializer, availability checker, cert providers | `camino/services` | keys handed out | files, start command, `IsServiceUp`, `GetCertAndKey` | bootstrap IDs match addresses, node IDs differ, "up" means bootstrapped |
| Bombard test | `testsuite/tests/bombard` | UTXO lists, transaction chains | fund, create, issue, await | the amounts add up, nothing panics, a pass means accepted |
| Duplicate ID and fully connected tests | `testsuite/tests/{duplicate,connected}` | place in the test; the maps of services, stakers and node IDs | `Run` | the maps follow the network; a failure is the network's, a pass means that it is connected |
| Unrequested chit spammer test | `testsuite/tests/spamchits` | place in the test | `Run` | five nodes share the genesis funds; only lag can make a healthy network fail |
| Test suite, genesis stakers | `testsuite/kurtosis`, `camino/networks/default_local_net_genesis_config.go` | registry, literals | `GetTests` | each test asks for a network that comes up |
| Certs, API clients, sockets, log levels, main, scripts | rest | none, or literals | formatting, HTTP, flags | not modelled, see section 7 |

### How the parts interact

Kurtosis asks a test for its loader (`GetNetworkLoader`), calls
`ConfigureNetwork` and `InitializeNetwork` on it, and waits with the
availability checkers that the latter returns. Then it calls the test's `Run`,
which wraps each node's client in a `RPCWorkFlowRunner` and executes one
sequential program. There are no goroutines that share memory in the tests
(the one `issueTxsAsync` is called without `go`): **the concurrency is between
the sequential test and nodes that go on by themselves**. Each node has its own
view of what has been accepted, and the test moves between nodes.

### What is hard

* A transaction is awaited on one node and relied on at another (stale state).
* Three or more status calls are read at different times and judged together.
* Every call may fail, and several errors are built from a nil cause,
  overwritten or dropped (partial failure).
* Timeouts race with late decisions; a call itself has no deadline.
* One test makes calls with a context that nobody has set.
* The loader computes node IDs and addresses of boot nodes in different loops.
* Identities come from a provider shared by several services.
* A network's nodes wait for each other while they are being started.
* A thousand transactions are made by unsigned arithmetic with no node asked.

`PROJECT.json` lists the hazards line by line, with the properties that cover
each, or why none does.

## 2. The modules

| Module | Models | Extends / uses |
|---|---|---|
| `AcceptancePromise` | abstract: what a caller of the two waits relies on | |
| `AcceptanceWait` | the two polling loops, in integer time | refines `AcceptancePromise` (`Promise == INSTANCE`) |
| `StakingStart` | the staking methods around that wait: start of the period, sleep, two clocks | `AcceptanceWait` |
| `RunnerOperations` | the methods of the runner as sequences of calls | |
| `WorkflowRunner` | a program of such calls against lagging nodes | `RunnerOperations`; each wait an instance of `AcceptancePromise` |
| `RunnerLedger` | what a test must take care of: keys, funds and checks in place, by the ledger that its own calls define | `WorkflowRunner` |
| `RPCWorkflowTest` | the workflow test's program and its final balances | `RunnerLedger` |
| `UnrequestedChitSpammerTest` | the chit spammer test's program | `RunnerOperations` |
| `NetworkStateVerifier` | the verifier while connections change | |
| `PeerTests` | the duplicate node ID and the fully connected test, on a network they change | each verification an instance of `NetworkStateVerifier` |
| `ConflictingTxsVertex` | the vertex test, a byzantine and a virtuous node | |
| `TestCaminoNetwork` | loader, initializer, checker, certs, and nodes that bootstrap | |
| `CaminoTestSuite` | the networks of the six tests `GetTests` registers | `TestCaminoNetwork` |
| `Bombard` | the bombard test's `ExecuteTest` | |
| `*Proofs` | theorems about the module of that name; `AcceptanceWaitProofs` is also about `StakingStart`, `RunnerLedgerProofs` also about `RPCWorkflowTest` | the module, TLAPS |
| `MC*` | values for TLC | the module |

In each module the section "Faulty variants" holds changed copies of
definitions. They are not used by the specification: each one is a plausible
bug, and the property it is paired with in `PROJECT.json` ("mutants") fails
when the variant takes the definition's place.

### AcceptanceWait

`pc` is the place in the `for` loop, `clock` the time since `pollStartTime`.
A `GetTxStatus` call is three steps (sent, answered by the node, received), so
the status can change before the runner acts on the answer. The X and P loops
differ only in names of statuses, so one module with the three sets of statuses
as constants stands for both. Time passes only inside calls and sleeps. `Latency`
is the longest a call takes on the network in question; the code sets it no
limit, for `NewClient` drops the request timeout it is given
(`camino_client/apis/client.go:39`) and the runner's context is
`context.Background()`. "The time the RPCWorkFlowRunner will wait"
(`rpc_workflow_runner.go:48`) is therefore not bounded by
`networkAcceptanceTimeout`: a call that hangs holds the wait for as long as it
hangs. What the loop itself guarantees is `OverrunBounded`, that it starts no
call after the deadline. The node decides when it likes, or never; a decision is
final.

### RunnerOperations, WorkflowRunner, RunnerLedger, RPCWorkflowTest

Every runner method stops at the first call that fails, so a method *is* the
sequence of calls it makes; a test is the concatenation of its methods, in the
code's order. `WorkflowRunner` chooses one of the tests (`program`) in `Init` and runs it call
by call. `view[n]` is what node n has accepted and `bal[n]` the balances that follow. Transactions are
named by their place in the program. `base[k]` is what the issuing node had
accepted on the account transaction k spends from; two transactions conflict if they spend from one
account and neither was built on the other. The wait for acceptance is one
step here, as `AcceptancePromise` describes it (`TxAccepted`, `TxAbandoned`,
`WaitTimesOut`, `WaitFails`). The two halves meet there: `KeepsPromise` shows
that the loops implement `AcceptancePromise`, `WaitsKeepPromise` that the
runner's step does too, for the node it waits on and every transaction
(`TxPromise(k)`), so the runner takes for granted nothing the loops do not
give. The network gives up a transaction whose funds another one has spent
(`DoubleSpent`); any other only if "reject" is among the faults. The flag `masked` marks the one call whose error the code overwrites
(`TransferAvaPChainToXChain`, line 340). Amounts are KiloAvax; the networks of
the workflow test set no fee. The checks of the number of validators let a
validator's or delegator's period begin late (`Listed`).

The workflow test makes three calls without a runner, `GetNodeID` twice and
`GetCurrentValidators`, with the executor's context (`ctx`), and
`NewRPCWorkflowTestExecutor` leaves it nil. Such a call fails before it is sent
(`NilContext`), so **the test, as it is constructed, always ends at its third
call**, after the genesis user and its key have been made, with "Could not get
staker node ID.". The rest of `ExecuteTest` is out of reach until that is mended.
It is modelled all the same: `ExecuteTest(e)` is the program for an executor `e`,
and `WorkflowTests` has the one the constructor makes and one with the background
context, which `NewBombardExecutor` gives to its executor. What is said of the
sequence of transfers is said of the latter, and is worth knowing when the
constructor is corrected; what becomes of the former, no property hides
(`HealthyNetworkAnswers`, `EndsWithoutContext`).

The order in which a test makes its calls is what protects it from the network,
and `RunnerLedger` says how. It models no code of its own: it reads a test's
program. `LedgerOf` is what each account would hold before each call if there
were one node, `PastOf(Q)[k]` what has been accepted wherever transaction k has
been. A test is `Careful` if each user and key is made before it is used, each
transaction spends funds that have arrived at the node it is issued on
(`HasArrived`: the node is the one that was waited on, or a balance check has
shown it, `CheckShows`), whatever has been paid to its receiver is in its past,
and each balance check expects what the ledger says. The workflow test needs the
check of the delegator's X chain balance for this (`workflow/executor.go:105`):
the transaction that funds the delegator was awaited at the staker's node. Without it the test is not careful, and the mutant of `TestIsCareful`
fails.

`UnrequestedChitSpammerTest` is a second program. Every one of its nodes imports
the same genesis key and spends from it as soon as the node before it has
accepted its own transaction, without waiting until *it* has. The expected ten
validators of the code are the genesis', the byzantine nodes' and the normal
node's. That a validator may be of an unexpected type ends the workflow
test, if it gets there, as passed and makes the chit spammer test call `Fatal`
with nil (`unconverted`).

### StakingStart

Adds to `AcceptanceWait` what surrounds it: the start of the period, fixed
before the transaction is issued and so at most `StakingDelay` after the first
poll; the node's clock, which differs from the runner's by at most `MaxSkew`;
and the sleep until the start and `stakingPeriodSynchronyDelay` more, which is
none at all when acceptance took longer. `AddValidatorToPrimaryNetwork` and
`AddDelegatorToPrimaryNetwork` differ in the delay only.

### PeerTests

A test is a script of rounds of questions and changes of the network
(`Script`), in the code's order. `Connect` lets a node connect to any node it
should (`Wanted`: a validator to all, the others to the validators); after
`RemoveService` some peers still list the removed node until they `Notice`; a
bounded number of connections is lost for no reason (`Lose`). `running` and
`staking` are the network's; `AllServiceIDs` and `StakerIDs` are what the tests
write down about it, and the properties compare the two. Two nodes of one
configuration may share an ID (`NodeIDMaps`): then nobody knows which of them a
node connects to, if any (`AmbiguousIDs`), as the code's comment says. The five
rounds that call `VerifyNetworkFullyConnected` use the verifier's own
definitions, and `RoundsAreVerifications` shows the refinement: whatever test
and network do around them, each is a behaviour of `NetworkStateVerifier` for
the services of that round, all other IDs being strangers. The round of the
originals, which calls `VerifyExpectedPeers` itself, is `OriginalAsExpected`.

### NetworkStateVerifier

`allServiceIDs` in any order (Go map iteration), one call each, then the
comparison of a count and a search for strangers. Peer lists change meanwhile;
`churn` says whether they can also shrink. Node IDs are a parameter, so that
services with one ID are checked too. `Strangers` are the IDs of nodes that are
not among the services; alone the verifier is run without any, in `PeerTests`
with those of all other services. `seen` is a history variable.

### ConflictingTxsVertex

One step per call, in the order of `ExecuteTest`. Three booleans chosen in
`Init` say how the nodes behave: calls may fail, the byzantine node may answer
before it has decided, the virtuous node may issue the bad vertex. That
`stacktrace.Propagate(nil, ...)` is nil is in `ReadNonConflict` and
`ReadVerdict`.

### TestCaminoNetwork

From the loader's arguments (`Reserved`) through the configurations
(`ConfigureNetwork`), boot nodes and desired services (`AddBootNode`,
`AddDesired`, in any order: the services are a Go map) to the availability
checks and the test's own additions and removals. An ID is a pair of a prefix
and the rest; `HasPrefix` knows that the longer reserved prefix begins with the
shorter one. `CanStart` collects the conditions under which adding a service
fails: the ID is taken, the configuration or a dependency is missing, files are
written that are not mounted (staking off), or there are more dependencies than
bootstrap IDs. `Chains` are asked in the code's order, and each call of
`IsServiceUp` begins again with the first, since the flags the code keeps are
set on a copy. The nodes run from the moment they are started: a node
bootstraps a chain when all the nodes it contacts have it and are who the
command line says they are. A random cert is its serial number and its key
(`GetCertAndKey`), a static one the staker's. `CaminoTestSuite` has the networks
of the six tests (`GetTests`), with the configurations, desired and later
services of each.

### Bombard

Client 0 is the genesis node; `<<i, 0>>` funds client i and `<<i, k>>` is the
k-th transaction of its chain. Amounts are unsigned integers modulo `Modulus`.
`Admissible` is what a node checks when a transaction is issued; a failed issue
panics. `AwaitFails` goes on as the code does, because the error is dropped.

## 3. The runs

All runs but the `violation` ones pass with every property, and every action of
every next-state relation fires in one of them. `CHECK_DEADLOCK FALSE` is set
everywhere because a test, a wait or a verification is a call that returns.

| Run | What it asks | What it shows |
|---|---|---|
| `wait` | `TimeoutIsHonest`, `OverrunBounded`, `KeepsPromise`, `PeriodHasBegun` | the loop refines its promise, including that it returns if each call does; a timeout never hides a transaction decided in good time; the loop is late by one call, as long as that takes, and one sleep, and no more; a staking method returns when the period has begun on the node's clock |
| `workflow` | `NoSelfConflict`, `RejectionMeansLag`, `NeverRefused`, `EndMeansComplete`, `FundsAreBack`, `TestIsCareful`, `MismatchMeansLag`, `HealthyNetworkSuffices`, `WaitsKeepPromise` | the tests make sure of what they rely on; whichever node lags and whatever fails, no node double spends with itself, nothing is refused, and a wrong balance or a rejection is the doing of a node that is behind; only such a node or the missing context makes a test fail on a healthy network |
| `workflow_context` (violation of `HealthyNetworkAnswers`) | are all calls of the workflow test answered on a healthy network? | no: its third call has a nil context, so the test fails on every network |
| `verifier` | `PassMeansEachAsExpected`, `PassMeansFullyConnected`, `DuplicateStakerNeverPasses` | the count and the search are an equality; asked one by one they still mean full connection if nothing is lost |
| `peers` | `RoundsAreVerifications`, `FailureMeansUnsettled`, `PassMeansConnected` | the two tests use the verifier as it is meant; they fail only before the network has settled, also right after a removal or the fixed wait for gossip, and pass only when it is connected |
| `duplicate_originals` (violation of `OriginalsStillConnected`) | did each original node have the others? | an added node makes up for a missing original in the count |
| `vertex` | `VertexWasIssued`, `NilMeansJudged`, `VerdictAfterFinality`, `GoodNetworkPasses` | three reads at three times are enough; only a lagging byzantine node opens the early way out; the verdict is not early; good nodes pass |
| `vertex_verdict` (violation of `PassMeansVertexDropped`) | can the test fail? | its last error is built from a nil cause: it cannot |
| `network` | `BootstrapIDsMatch`, `NodeIDsDistinct`, `OnlyArgumentsFail`, `ReadyMeansBootstrapped`, `NetworkComesUp`, `StartedGetsReady` | every node trusts exactly those it contacts; the suite's networks come up and unsound ones fail for their arguments |
| `network_same_cert` (violation of `SameCertMeansSameID`) | does `varyCerts = false` repeat the cert? | no: the key is new each time, so the duplicate node ID test has no duplicates |
| `bombard` | `ChainsAreFunded`, `NeverPanics`, `HealthyPassMeansConfirmed`, `HealthyBombardEnds` | the chains are funded to the last fee; without faults only a lagging node makes it fail |
| `bombard_unconfirmed` (violation of `PassMeansConfirmed`) | does a pass mean confirmed? | the error of the wait is dropped |

The five violations are findings: each is what a comment, a message or a name in
the repository says, refuted by what the code does; `PROJECT.json` quotes both.

### Bounds

* `wait`: timeout 6, interval 2, calls of up to 2. Several polls fit, the deadline can
  fall into a call, into a sleep and between them, and a decision can fall
  before, during and after any of them. Only the order of these events counts;
  the theorems below hold for all values.
  The staking delay is as long as the timeout, so that acceptance may come
  before and after the start; skew and synchrony delay are one unit, since only
  their order counts.
* `workflow`: the workflow test's own program on its two nodes, whole, with and
  without a context; the chit
  spammer's with two byzantine nodes instead of four, the least number for which
  a node spends after another byzantine one and before the normal one. The
  genesis has the code's five validators; only `GenesisFunds` (16, the code has
  far more) is small, and it exceeds the 15 a program spends.
  `workflow_context` runs the workflow test as it is constructed, without faults.
* `peers`: two boot nodes (so that a boot node has a boot node for a peer), every
  ID its own or one shared by the two added nodes, at most one connection lost
  for no reason (`MaxLosses`). One is enough for what it can break: a pass and an
  answer concern one service's list at a time, and the theorems hold for any
  number.
* `verifier`: two stakers and two others, so that each kind has a peer of each
  kind, with every initial peer list; three maps of node IDs (all distinct, two
  non-stakers sharing, a staker sharing).
* `vertex`: no constants.
* `network`: three boot nodes, the least number for which "all before me",
  "the first" and "the last" differ; two services the test adds, because some
  faults need two of one configuration. Eleven sets of arguments: five networks of
  the suite (the workflow test's has the shape of the fully connected test's;
  two byzantine nodes for the chit spammer) and six that are refused early,
  late or never.
* `bombard`: two secondary nodes (a first and a last), chains of three (first,
  middle, last), fee 2, modulus 16: the code's amounts, scaled, with room to
  wrap around when an amount is one fee short.
* `FaultSets`, `churn`, the vertex test's conduct: chosen in `Init` and kept, so
  one run covers a healthy network and one where everything goes wrong.

### Fairness

* The test, the runner and the polling loop are weakly fair: Go runs a
  goroutine that can run.
* Calls end and time passes (`wait`): the node answers or the transport fails,
  sooner or later.
  This is an assumption of `KeepsPromise`'s liveness, and the code does not
  enforce it: `NewClient` ignores its `requestTimeout` and the context is
  `context.Background()`. If a call hangs, so does the wait, whatever
  `networkAcceptanceTimeout` says.
* Nodes accept what they can accept, and bootstrap when they can: this is what the tests assume of a
  working network. A double spend is dropped in the end. Nothing else is
  assumed: other rejections, timeouts, failing
  calls, lost, noticed and new connections are never forced to happen.
* Liveness properties are conditional on no fault (`faults = {}` or the
  like), which is a state chosen in `Init`, so they are not vacuous: the same
  run has behaviours with and without.
* `KeepsPromise` carries `AcceptancePromise`'s weak fairness of `Return`, and so
  says that the wait returns even if the transaction is never decided.

## 4. What is proved

The theorems hold for every value of the constants that satisfies the named
assumptions of the module. TLC evaluates these assumptions in the runs.

**AcceptanceWaitProofs** (from `TimingAssumption`, `StatusAssumption`).
`WaitTypeOK`, `WaitTimeoutIsHonest`, `WaitOverrunIsBounded` (by the longest call,
whatever that is; nothing is assumed of it), `WaitRefinesPromise`. The inductive invariant is
`TypeOK /\ ClockInv /\ AnswerInv /\ OutcomeInv`. `ClockInv` bounds the clock by
the last call, which was sent before the deadline; `AnswerInv` says that an old
answer is still right if it is a decision, and that without one the transaction
was undecided when the last call was sent. Neither `TimeoutIsHonest` nor the
refinement is inductive without it, since both depend on an answer received
some steps later. `WaitRefinesPromise` shows that every step is one of
`AcceptancePromise` or stutters; the fairness part of `KeepsPromise` is checked
by TLC only.

`StakingPeriodHasBegun`, in the same module, is about `StakingStart` (from
`StakingAssumption`: the clocks differ by at most the synchrony delay): the
invariant says that the method only sleeps once the wait has returned nil, which
by the invariant of `AcceptanceWait` means that the node had accepted, and that
time does not run back.

**WorkflowRunnerProofs** (from `NetworkAssumption`, `ProgramAssumption`): for
*every* set of programs. `RunnerTypeOK`, `RunnerEndMeansComplete`,
`RunnerPassMeansComplete` (if replies can be converted: line 142 of
`workflow/executor.go` makes a nil error of one that cannot), `RunnerNoSelfConflict`,
`RunnerRejectionMeansLag` and `RunnerWaitsKeepPromise`. The invariant `TypeOK /\
ProgressInv` says that everything before `pc` has been accepted where it was
issued, and `BuiltOnInv` that each transaction is built on the earlier ones of
the same node that spend from the same account. A rejection then needs a
conflicting transaction of another node, which is the lag
`RunnerRejectionMeansLag` speaks of. `RunnerWaitsKeepPromise` is a refinement: its
initial states map to initial states of `AcceptancePromise`, and every step to one of
its steps or a stutter.

**RunnerLedgerProofs** (from the same assumptions): why a careful test does not
fail by itself. `RunnerNeverRefused` and `RunnerMismatchMeansLag` hold for every
set of careful tests; `Careful` is a condition on the programs only, read off
their calls, and says nothing of the network. The invariant `LInv` has five
parts: `KeysInv` (the users and keys of a node are those of the calls before
`pc`), `IssuedInv` (a transaction moves what the ledger says, built on everything
that has moved the funds it spends), `ViewInv` (a node that has accepted a
transaction has accepted its past), `ChecksInv` (a check that was passed has shown
what `CheckShows` says) and `BalanceInv` (if what a node has accepted on an
account is what precedes call m, its balance is the ledger's before m; a source
may hold more). The last one is what the properties need, and it is not
inductive alone: a node could accept a payment to an account before the
transaction that empties it, and then report a balance the test never made;
`ViewInv`, with "what has been paid to the receiver is in the past", excludes it.
`WorkflowNeverRefused` and `WorkflowFundsAreBack` are
about the workflow test, with and without a context, and assume only that the
genesis covers its two seeds:
that it is careful is proved there too (`WorkflowCareful`), call by call, with
its ledger in closed form (`Held`). `RunnerHealthyNetworkEndsWell` is the safety
half of `HealthyNetworkSuffices`: without faults a careful test is never in a
bad end but that of a call without a context, so that only its termination is
left. The ledger and the past are
recursive functions on the naturals; that they exist (`RecursionExists`) and
have the values computed for them is shown with the least counterexample
(`LeastNatural`), from the library's `WFMin`.

**NetworkStateVerifierProofs** (from `ServiceAssumption`): all the verifier's
properties, for every network. `AskedInv` says of the services already asked
what the properties say of all of them. The key step is that a finite
set of the size of another one that contains it equals it, which needs that no
node is its own peer.

**PeerTestsProofs** (from `BootAssumption`, `LossesAssumption`,
`NodeIDAssumption`), for any number of boot nodes. `NetworkInv` says what the
network is at every step of a script; it is the strengthening that makes
`PeerTestsTypeOK` inductive. From it `RoundNetwork`: in a verification's round
the services and stakers written down are those of the network, and no two have
one ID. `PeerTestsRoundsAreVerifications` is a refinement, one lemma per kind of
step (`NodesVerified`, `AskedVerified`, `EndVerified`, `ProceedVerified`). For
`PeerTestsFailureMeansUnsettled` an answer is as expected exactly if it is the
set the network wants (`AnswersInVerification`, by cardinality), and in the round
of the originals if it has all the unambiguous of them (`AnswersInOriginals`). `LastInv`, that each service asked
in the last round still has its peers, gives `PeerTestsPassMeansConnected`.

**ConflictingTxsVertexProofs** (no constants): `VertexTypeOK`, `VertexIsIssued`,
`VertexNilMeansJudged`, `VertexVerdictAfterFinality`. What has been read is right
for ever because decisions are final.

**BombardProofs** (from `BombardAssumption`: the fees of a chain and one more
fit into the integers used). `ChainInv` gives the amounts of the n-th
transaction in closed form, from which `BombardTypeOK` and
`BombardChainsAreFunded` follow without modular arithmetic. `BombardNeverPanics` needs
`FundingInv` (what is known of each client's funding after each step of
`ExecuteTest`) and `IssueInv` (what has been issued of a chain);
`BombardHealthyPassMeansConfirmed` adds `ConfirmInv` (what has been awaited has
been accepted).

**TestCaminoNetworkProofs** (from `StakersAssumption`, `TestAssumption`).
`IInv` is `TypeOK`, `ConfigInv` (the boot nodes' and user's configurations never
overwrite each other, because reserved prefixes were refused), `BootInv` (the
boot nodes that run are the first ones, each with its staker's identity) and
`BootstrapIDsMatch`. From it follow `NetworkTypeOK`,
`NetworkBootstrapIDsMatch` and `NetworkOnlyArgumentsFail`, which counts
dependencies against IDs; with `ReadyInv` (nobody bootstraps before those it
bootstraps from) `NetworkReadyMeansBootstrapped`; with `IdentityInv` (every other
service has a key of its own) `NetworkNodeIDsDistinct`.

## 5. What is only model-checked

* Liveness and fairness (`KeepsPromise`'s fairness, the termination that
  `HealthyNetworkSuffices` adds to `RunnerHealthyNetworkEndsWell`,
  `GoodNetworkPasses`, `NetworkComesUp`, `StartedGetsReady`,
  `HealthyBombardEnds`): out of the proof system's reach, as is ENABLED.
* That the networks and programs are those of the suite: the theorems hold for
  every network and every program, the runs for these.
* That the chit spammer test is careful: TLC evaluates `TestIsCareful` for two
  byzantine nodes. For the workflow test it is proved.
* The library's induction theorems take an operator as a parameter, which the
  provers cannot instantiate; where a recursive function had to be reasoned
  about, the proof uses the least counterexample instead. RECURSIVE operators
  are out of reach; no module uses them.

## 6. Abstractions to know of

* A node's consensus is "accepts what it can, when it likes". Two nodes never
  accept conflicting transactions; everything else about agreement is the
  network's business.
* Waiting has time only in `AcceptanceWait` and `StakingStart`. Elsewhere a wait may time out
  whenever timeouts are among the faults. Sleeps change no state.
* Strings, encodings, wording of errors and logs are left out; IDs, addresses
  and certs are names that are equal when the code's would be.
* A panic in the bombard test is a result of its own.
* The fixed sleeps of the tests (70 seconds for gossip, 10 for a validator to be
  listed) guarantee nothing about the nodes: whatever follows may find them as far
  as they like.
* In `PeerTests` the calls that make the node a validator are one step: they are
  `ImportGenesisFundsAndStartValidating`, which `WorkflowRunner` runs call by call
  for the chit spammer test.
* The byzantine nodes answer the API as other nodes do; what they do to the
  network is in an image that is not in the repository.
* `rootCert` is the parent of each random cert, which is yet signed with its own
  key; nothing in the suite verifies the chain, and it distinguishes no two IDs.
* Two more errors that the code loses are in the model without a run of their
  own: the vertex test returns nil when the byzantine node has not accepted its
  transaction (`ReadNonConflict`, line 89; out of reach if that node does not lag,
  `NilMeansJudged`), and a validator that cannot be converted ends the workflow
  test as passed (`ValidatorNotConverted`, line 142; behind the nil context).
* The loader offers networks without staking (`camino_network.go:200`), but adding
  the first boot node of one fails, since its cert is written to a file that is
  not mounted (`CanStart`); `OnlyArgumentsFail` counts this among the bad
  arguments.
* A failed import of `TransferAvaPChainToXChain` is reported as a timeout, after
  the whole `networkAcceptanceTimeout`, since its error is overwritten; the model
  has it (`masked`), and `EndMeansComplete` holds all the same.

## 7. Not modelled, and why

* `SendAVAX` and `SendAVAXBackAndForth` of the runner: no test calls them, so
  there is no program to run them in and nothing that reads the error channel.
* Staker certs and keys, the genesis' funded address and key: literals without
  behaviour. The stakers' IDs are in `CaminoTestSuite`, the funds a constant.
* API clients: HTTP requests without state. The JSON-RPC requester has no caller.
* Service sockets, log levels, the rest of the command line: values and
  formatting.
* `main.go`, `camino_tester.go`, scripts and images: flags, configuration, build.
* Kurtosis, Docker, the nodes: not in the repository.

## 8. Running it

    tlc -workers 2 -config MCTestCaminoNetwork.cfg MCTestCaminoNetwork
    tlapm TestCaminoNetworkProofs.tla

`PROJECT.json` names for each run its module, configuration and expected result,
and maps every definition to the lines it models.

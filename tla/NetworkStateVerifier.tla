------------------------ MODULE NetworkStateVerifier ------------------------
(***************************************************************************)
(* VerifyNetworkFullyConnected: the verifier asks the services of a test   *)
(* network for their peers, one after the other in the order of a map      *)
(* iteration, and compares each answer with the node IDs it expects, while *)
(* the nodes go on connecting to each other.                               *)
(***************************************************************************)
EXTENDS Integers, FiniteSets

CONSTANTS
  Service,   \* allServiceIDs
  Stakers,   \* stakerServiceIDs
  NodeIDMaps, \* what allNodeIDs may be; two services may have one node ID
  Strangers  \* node IDs of nodes that are not among allServiceIDs

ASSUME ServiceAssumption == IsFiniteSet(Service)

VARIABLES
  nodeIDOf,   \* allNodeIDs
  churn,      \* whether a connection can also be lost while the test runs
  peers,      \* for each service, the node IDs in its peer list
  remaining,  \* the services not asked yet
  seen,       \* history: the peers each service had when it was asked
  result      \* "running", "passed", "unexpected" or "callFailed"

vars == <<nodeIDOf, churn, peers, remaining, seen, result>>

NodeIDs == {nodeIDOf[t] : t \in Service} \cup Strangers

\* A node never has itself in its peer list.
Others(s) == NodeIDs \ {nodeIDOf[s]}

arguments == <<nodeIDOf, churn>>

Init ==
  /\ nodeIDOf \in NodeIDMaps
  /\ churn \in BOOLEAN
  /\ peers \in [Service -> SUBSET NodeIDs]
  /\ \A s \in Service : peers[s] \subseteq Others(s)
  /\ remaining = Service
  /\ seen = [s \in Service |-> {}]
  /\ result = "running"

-----------------------------------------------------------------------------
(* Faulty variants of the definitions below.                               *)

\* Any number of the acceptable peers will do.
VerifyExpectedPeersSubset(actual, acceptable, expectedNumPeers, atLeast) ==
  actual \subseteq acceptable

\* The right number of peers will do, whoever they are.
VerifyExpectedPeersCount(actual, acceptable, expectedNumPeers, atLeast) ==
  Cardinality(actual) = expectedNumPeers

\* The service's own node ID is left out with the service.
AcceptableNodeIDsNotOwn(s) ==
  {nodeIDOf[t] : t \in {u \in Service \ {s} : s \in Stakers \/ u \in Stakers}}
    \ {nodeIDOf[s]}

\* A node that lists itself.
ConnectAny(s, id) ==
  /\ id \in NodeIDs \ peers[s]
  /\ peers' = [peers EXCEPT ![s] = @ \cup {id}]
  /\ UNCHANGED <<arguments, remaining, seen, result>>

-----------------------------------------------------------------------------
(* The verifier.                                                           *)

\* The services a service should be connected to: stakers to everyone,
\* the others to the stakers.
Expected(s) == {t \in Service \ {s} : s \in Stakers \/ t \in Stakers}

AcceptableNodeIDs(s) == {nodeIDOf[t] : t \in Expected(s)}

VerifyExpectedPeers(actual, acceptable, expectedNumPeers, atLeast) ==
  /\ IF atLeast THEN Cardinality(actual) >= expectedNumPeers
                ELSE Cardinality(actual) = expectedNumPeers
  /\ actual \subseteq acceptable

AsExpected(s) ==
  VerifyExpectedPeers(peers[s], AcceptableNodeIDs(s),
                      Cardinality(AcceptableNodeIDs(s)), FALSE)

\* The service answers with the peers it is expected to have.
PeersAsExpected(s) ==
  /\ result = "running"
  /\ s \in remaining
  /\ AsExpected(s)
  /\ remaining' = remaining \ {s}
  /\ seen' = [seen EXCEPT ![s] = peers[s]]
  /\ UNCHANGED <<arguments, peers, result>>

\* It does not, and the verification ends.
PeersUnexpected(s) ==
  /\ result = "running"
  /\ s \in remaining
  /\ ~AsExpected(s)
  /\ result' = "unexpected"
  /\ UNCHANGED <<arguments, peers, remaining, seen>>

CallFails(s) ==
  /\ result = "running"
  /\ s \in remaining
  /\ result' = "callFailed"
  /\ UNCHANGED <<arguments, peers, remaining, seen>>

AllAsExpected ==
  /\ result = "running"
  /\ remaining = {}
  /\ result' = "passed"
  /\ UNCHANGED <<arguments, peers, remaining, seen>>

-----------------------------------------------------------------------------
(* The nodes, which this repository only talks to.                         *)

Connect(s, id) ==
  /\ id \in Others(s) \ peers[s]
  /\ peers' = [peers EXCEPT ![s] = @ \cup {id}]
  /\ UNCHANGED <<arguments, remaining, seen, result>>

Disconnect(s, id) ==
  /\ churn
  /\ id \in peers[s]
  /\ peers' = [peers EXCEPT ![s] = @ \ {id}]
  /\ UNCHANGED <<arguments, remaining, seen, result>>

Verifier ==
  \/ \E s \in Service :
       PeersAsExpected(s) \/ PeersUnexpected(s) \/ CallFails(s)
  \/ AllAsExpected

Nodes ==
  \E s \in Service, id \in NodeIDs : Connect(s, id) \/ Disconnect(s, id)

Next == Verifier \/ Nodes

Spec == Init /\ [][Next]_vars

-----------------------------------------------------------------------------
(* Properties.                                                             *)

\* The verifier and the peer lists keep their shape; a node is never its own
\* peer (network_state_verifier.go:44-76).
TypeOK ==
  /\ nodeIDOf \in NodeIDMaps
  /\ churn \in BOOLEAN
  /\ peers \in [Service -> SUBSET NodeIDs]
  /\ \A s \in Service : peers[s] \subseteq Others(s)
  /\ remaining \subseteq Service
  /\ seen \in [Service -> SUBSET NodeIDs]
  /\ result \in {"running", "passed", "unexpected", "callFailed"}

\* The comparison of a length and the search for strangers are together an
\* equality: every service had exactly the expected peers when it was asked,
\* none missing and none too many (network_state_verifier.go:85-125).
PassMeansEachAsExpected ==
  result = "passed" => \A s \in Service : seen[s] = AcceptableNodeIDs(s)

\* "VerifyNetworkFullyConnected asserts that the network is fully connected"
\* (network_state_verifier.go:34-37): when it passes, and no connection is lost
\* meanwhile, every service has every expected peer in its list.
PassMeansFullyConnected ==
  result = "passed" /\ ~churn =>
    \A s \in Service : AcceptableNodeIDs(s) \subseteq peers[s]

\* A staker whose node ID another service has too is always noticed, whatever
\* the peer lists: one of the two is expected to be its own peer.
DuplicateStakerNeverPasses ==
  result = "passed" =>
    \A s \in Stakers \cap Service, t \in Service :
      s # t => nodeIDOf[s] # nodeIDOf[t]
=============================================================================

------------------------------ MODULE PeerTests ------------------------------
(***************************************************************************)
(* The two tests built on NetworkStateVerifier: DuplicateNodeIDTest, which *)
(* adds two nodes of one configuration and removes the first of them, and  *)
(* StakingNetworkFullyConnectedTest, which makes a node a validator.       *)
(*                                                                         *)
(* A test is a sequence of steps.  The verifications in it ask service     *)
(* after service while the nodes connect; the network changes between two  *)
(* verifications, and nothing waits until the nodes have noticed.          *)
(***************************************************************************)
EXTENDS Integers, Sequences, FiniteSets

CONSTANTS
  Boots,       \* the boot nodes, GetAllBootServiceIDs
  NodeIDMaps,  \* what the node IDs of all services may be
  MaxLosses    \* bound: the connections lost for no reason

Vanilla == "vanilla-node"
Bad1 == "bad-service-1"
Bad2 == "bad-service-2"
NonBootValidator == "validator-service"
NonBootNonValidator == "non-validator-service"

Services ==
  Boots \cup {Vanilla, Bad1, Bad2, NonBootValidator, NonBootNonValidator}

ASSUME BootAssumption ==
  /\ IsFiniteSet(Boots)
  /\ Boots \cap {Vanilla, Bad1, Bad2, NonBootValidator, NonBootNonValidator} = {}

ASSUME LossesAssumption == MaxLosses \in Nat

\* Only the two nodes of the same-cert configuration may have one node ID.
ASSUME NodeIDAssumption ==
  \A f \in NodeIDMaps :
    /\ DOMAIN f = Services
    /\ \A s, t \in Services : f[s] = f[t] => s = t \/ {s, t} = {Bad1, Bad2}

OriginalServices == Boots \cup {Vanilla}
ConnectedServices == Boots \cup {NonBootValidator, NonBootNonValidator}

\* Faulty: the last map of the duplicate test is one without the second node.
AllServiceIDsUnsettled ==
  [before   |-> OriginalServices,
   oneAdded |-> OriginalServices \cup {Bad1},
   settled  |-> OriginalServices,
   loaded   |-> ConnectedServices,
   gossiped |-> ConnectedServices]

\* The verifications of a fully connected network, with their allServiceIDs.
AllServiceIDs ==
  [before   |-> OriginalServices,
   oneAdded |-> OriginalServices \cup {Bad1},
   settled  |-> OriginalServices \cup {Bad2},
   loaded   |-> ConnectedServices,
   gossiped |-> ConnectedServices]

Verifications == DOMAIN AllServiceIDs

\* The services asked in each round.
Asked == [r \in Verifications \cup {"originals"} |->
            IF r = "originals" THEN OriginalServices ELSE AllServiceIDs[r]]

Rounds == DOMAIN Asked

\* Faulty: forgets the new validator.
StakerIDsBootsOnly(r) == Boots

\* stakerServiceIDs of each verification.
StakerIDs(r) == IF r = "gossiped" THEN Boots \cup {NonBootValidator} ELSE Boots

\* The steps of a test.
Round(r) == [op |-> "round", of |-> r]
Change(op, s) == [op |-> op, of |-> s]

Script ==
  [duplicate |->
    << Round("before"), Change("add", Bad1),
       Round("oneAdded"), Change("add", Bad2),
       Round("originals"), Change("remove", Bad1),
       Round("settled") >>,
   connected |->
    << Round("loaded"), Change("startValidating", NonBootValidator),
       Round("gossiped") >>]

Tests == DOMAIN Script

VARIABLES
  test,       \* the test that runs
  nodeIDOf,   \* the node ID of each service
  running,    \* the services of the network
  staking,    \* the services that are validators
  removed,    \* the services that were removed
  peers,      \* for each service, the node IDs in its peer list
  stale,      \* the IDs in it whose connection was to a removed service
  losses,     \* connections lost for no reason
  at,         \* the step the test is at
  remaining,  \* the services the current round has not asked yet
  seen,       \* history: the peers each service had in each round
  result      \* "running", "passed", "unexpected" or "callFailed"

networkVars == <<running, staking, removed, peers, stale, losses>>
testVars == <<at, remaining, seen, result>>
arguments == <<test, nodeIDOf>>
vars == <<arguments, networkVars, testVars>>

\* The services step k of the test asks for their peers.
AskedAt(k) ==
  IF k \in DOMAIN Script[test] /\ Script[test][k].op = "round"
    THEN Asked[Script[test][k].of] ELSE {}

Init ==
  /\ test \in Tests
  /\ nodeIDOf \in NodeIDMaps
  /\ running = IF test = "duplicate" THEN OriginalServices ELSE ConnectedServices
  /\ staking = Boots
  /\ removed = {}
  /\ peers = [s \in Services |-> {}]
  /\ stale = [s \in Services |-> {}]
  /\ losses = 0
  /\ at = 1
  /\ remaining = AskedAt(1)
  /\ seen = [r \in Rounds |-> [s \in Asked[r] |-> {}]]
  /\ result = "running"

-----------------------------------------------------------------------------
(* The nodes, which this repository only talks to.                         *)

\* The services a node connects to in the end, and their IDs: "the validators
\* will have ALL other nodes", "the non-validators [...] all the validators".
Wanted(s) == {t \in running \ {s} : s \in staking \/ t \in staking}

WantedIDs(s) == {nodeIDOf[t] : t \in Wanted(s)} \ {nodeIDOf[s]}

\* Of two nodes with one ID it is not known which one a node connects to, if
\* any.
AmbiguousIDs ==
  {nodeIDOf[s] : s \in {u \in running : \E t \in running \ {u} :
                                           nodeIDOf[t] = nodeIDOf[u]}}

Connect(s, id) ==
  /\ s \in running
  /\ id \in WantedIDs(s) \ peers[s]
  /\ peers' = [peers EXCEPT ![s] = @ \cup {id}]
  /\ UNCHANGED <<arguments, running, staking, removed, stale, losses, testVars>>

\* A node notices that the service at the other end was removed.
Notice(s, id) ==
  /\ id \in stale[s]
  /\ peers' = [peers EXCEPT ![s] = @ \ {id}]
  /\ stale' = [stale EXCEPT ![s] = @ \ {id}]
  /\ UNCHANGED <<arguments, running, staking, removed, losses, testVars>>

Lose(s, id) ==
  /\ s \in running
  /\ id \in peers[s] \ stale[s]
  /\ losses < MaxLosses
  /\ losses' = losses + 1
  /\ peers' = [peers EXCEPT ![s] = @ \ {id}]
  /\ UNCHANGED <<arguments, running, staking, removed, stale, testVars>>

Nodes ==
  \E s \in Services : \E id \in {nodeIDOf[t] : t \in Services} :
    Connect(s, id) \/ Notice(s, id) \/ Lose(s, id)

-----------------------------------------------------------------------------
(* Faulty variants of the definitions below.                               *)

\* Asks one service only.
PeersAsExpectedOfOne(s) ==
  /\ s \in remaining
  /\ remaining' = {}
  /\ seen' = [seen EXCEPT ![Script[test][at].of][s] = peers[s]]
  /\ UNCHANGED <<arguments, networkVars, at, result>>

-----------------------------------------------------------------------------
(* The tests.                                                              *)

Step == Script[test][at]

\* The test is at a step of this kind.
At(op) ==
  /\ result = "running"
  /\ at \in DOMAIN Script[test]
  /\ Step.op = op

Proceed ==
  /\ at' = at + 1
  /\ remaining' = AskedAt(at + 1)
  /\ UNCHANGED <<seen, result>>

\* Whether the test has a round at all, is behind it, or is in it.
Holds(r) == \E k \in DOMAIN Script[test] : Script[test][k] = Round(r)
Held(r) == \E k \in DOMAIN Script[test] : k < at /\ Script[test][k] = Round(r)
Holding(r) == at \in DOMAIN Script[test] /\ Script[test][at] = Round(r)

\* What is left to ask in a verification, and what came of it.
RemainingIn(r) ==
  IF Held(r) THEN {} ELSE IF Holding(r) THEN remaining ELSE Asked[r]

ResultIn(r) ==
  IF Held(r) THEN "passed" ELSE IF Holding(r) THEN result ELSE "running"

\* Each is one of NetworkStateVerifier, among nodes that come and go: the
\* services of other rounds are strangers to it.
Verification(r) ==
  INSTANCE NetworkStateVerifier
    WITH Service <- AllServiceIDs[r], Stakers <- StakerIDs(r),
         NodeIDMaps <- {[s \in AllServiceIDs[r] |-> f[s]] : f \in NodeIDMaps},
         Strangers <- {f[s] : f \in NodeIDMaps, s \in Services},
         churn <- TRUE,
         nodeIDOf <- [s \in AllServiceIDs[r] |-> nodeIDOf[s]],
         peers <- [s \in AllServiceIDs[r] |-> peers[s]],
         remaining <- RemainingIn(r),
         seen <- seen[r],
         result <- ResultIn(r)

\* "All original nodes should have the boot nodes (though a boot node won't
\* have itself)"; the boot nodes should also have the vanilla node.
OriginalsFor(s) == (IF s \in Boots THEN OriginalServices ELSE Boots) \ {s}

\* A boot node may have the two added nodes in place of an original.
OriginalAsExpected(s) ==
  IF s \in Boots
    THEN Verification("before")!VerifyExpectedPeers(
           peers[s], {nodeIDOf[t] : t \in OriginalsFor(s) \cup {Bad1, Bad2}},
           Cardinality(OriginalServices) - 1, TRUE)
    ELSE Verification("before")!VerifyExpectedPeers(
           peers[s], {nodeIDOf[t] : t \in OriginalsFor(s)},
           Cardinality(Boots), FALSE)

AsExpected(s) ==
  \/ Step = Round("originals") /\ OriginalAsExpected(s)
  \/ \E r \in Verifications : Step = Round(r) /\ Verification(r)!AsExpected(s)

PeersAsExpected(s) ==
  /\ At("round")
  /\ s \in remaining
  /\ AsExpected(s)
  /\ remaining' = remaining \ {s}
  /\ seen' = [seen EXCEPT ![Step.of][s] = peers[s]]
  /\ UNCHANGED <<arguments, networkVars, at, result>>

PeersUnexpected(s) ==
  /\ At("round")
  /\ s \in remaining
  /\ ~AsExpected(s)
  /\ result' = "unexpected"
  /\ UNCHANGED <<arguments, networkVars, at, remaining, seen>>

AllAsExpected ==
  /\ At("round")
  /\ remaining = {}
  /\ Proceed
  /\ UNCHANGED <<arguments, networkVars>>

AddService ==
  /\ At("add")
  /\ running' = running \cup {Step.of}
  /\ Proceed
  /\ UNCHANGED <<arguments, staking, removed, peers, stale, losses>>

\* Faulty: deletes the service from the network's map and not its container.
RemoveServiceFromMap ==
  /\ At("remove")
  /\ removed' = removed \cup {Step.of}
  /\ Proceed
  /\ UNCHANGED <<arguments, running, staking, peers, stale, losses>>

\* The others do not know yet.  A connection to the ID of the removed service
\* was one to this service, unless another service has the ID too.
RemoveService ==
  /\ At("remove")
  /\ running' = running \ {Step.of}
  /\ removed' = removed \cup {Step.of}
  /\ LET id == nodeIDOf[Step.of]
         have == {s \in running' : id \in peers[s]}
     IN  \E had \in IF id \in AmbiguousIDs THEN SUBSET have ELSE {have} :
           stale' = [s \in Services |-> IF s \in had THEN {id} ELSE {}]
  /\ Proceed
  /\ UNCHANGED <<arguments, staking, peers, losses>>

\* ImportGenesisFundsAndStartValidating, and the sleep after it, which is of a
\* fixed length: the nodes may be as far as they like when it ends.
StartValidating ==
  /\ At("startValidating")
  /\ staking' = staking \cup {Step.of}
  /\ Proceed
  /\ UNCHANGED <<arguments, running, removed, peers, stale, losses>>

\* A service does not answer, or a change fails.
CallFails ==
  /\ \/ At("round") /\ remaining # {}
     \/ At("add") \/ At("remove") \/ At("startValidating")
  /\ result' = "callFailed"
  /\ UNCHANGED <<arguments, networkVars, at, remaining, seen>>

Finish ==
  /\ result = "running"
  /\ at \notin DOMAIN Script[test]
  /\ result' = "passed"
  /\ UNCHANGED <<arguments, networkVars, at, remaining, seen>>

Test ==
  \/ \E s \in Services : PeersAsExpected(s) \/ PeersUnexpected(s)
  \/ AllAsExpected \/ AddService \/ RemoveService \/ StartValidating
  \/ CallFails \/ Finish

Next == Test \/ Nodes

Spec == Init /\ [][Next]_vars

-----------------------------------------------------------------------------
(* Properties.                                                             *)

\* The test and the network keep their shape; a removed service runs no more
\* and only its connections are stale.
TypeOK ==
  /\ test \in Tests
  /\ nodeIDOf \in NodeIDMaps
  /\ running \subseteq Services
  /\ staking \subseteq running
  /\ removed \subseteq Services \ running
  /\ peers \in [Services -> SUBSET {nodeIDOf[s] : s \in Services}]
  /\ stale \in [Services -> SUBSET {nodeIDOf[s] : s \in removed}]
  /\ \A s \in Services : nodeIDOf[s] \notin peers[s] /\ stale[s] \subseteq peers[s]
  /\ losses \in 0..MaxLosses
  /\ at \in 1..Len(Script[test]) + 1
  /\ remaining \subseteq AskedAt(at)
  /\ DOMAIN seen = Rounds
  /\ \A r \in Rounds :
       seen[r] \in [Asked[r] -> SUBSET {nodeIDOf[s] : s \in Services}]
  /\ result \in {"running", "passed", "unexpected", "callFailed"}

\* Every verification in the tests is one of NetworkStateVerifier from its
\* first service to its last, whatever the test did to the network before and
\* whatever the nodes do meanwhile: what is shown there of a pass holds here
\* of each (duplicate_node_id.go:56,96,169; fully_connected.go:65,92).
RoundsAreVerifications ==
  /\ \A r \in Verifications : Holds(r) => Verification(r)!Init
  /\ [][\A r \in Verifications :
           Holds(r) => [Verification(r)!Next]_(Verification(r)!vars)]_vars

\* A test fails for peers only while some service it has still to ask is not
\* connected as the network will have it in the end: the tests keep their maps
\* of services, stakers and node IDs in step with the network
\* (duplicate_node_id.go:49-169, fully_connected.go:54-92).
FailureMeansUnsettled ==
  [][result' = "unexpected" /\ result = "running" =>
       \E s \in remaining :
         \/ ~(peers[s] \subseteq WantedIDs(s))
         \/ ~(WantedIDs(s) \ AmbiguousIDs \subseteq peers[s])]_vars

\* When a test has passed and no connection was lost, every node that runs has
\* in its list every node it should, the added validator or the second node of
\* one configuration among them.  An ID that a removed service had too is not
\* certain: the connection that was seen may have been to that service
\* (duplicate_node_id.go:166-172, fully_connected.go:92-95).
PassMeansConnected ==
  result = "passed" /\ losses = 0 =>
    \A s \in running :
      WantedIDs(s) \ {nodeIDOf[t] : t \in removed} \subseteq peers[s]

\* "Verified that original nodes are still connected to each other": each of
\* them had all the others it should when it was asked
\* (duplicate_node_id.go:125-154).
OriginalsStillConnected ==
  test = "duplicate" /\ result = "passed" =>
    \A s \in OriginalServices :
      {nodeIDOf[t] : t \in OriginalsFor(s)} \subseteq seen["originals"][s]
=============================================================================

--------------------------- MODULE PeerTestsProofs ---------------------------
(***************************************************************************)
(* Proofs about PeerTests, for any boot nodes, any node IDs that only the  *)
(* nodes of one configuration share, and any number of lost connections.   *)
(***************************************************************************)
EXTENDS PeerTests, FiniteSetTheorems, TLAPS

\* The network a test has made when it is at a step.
NetworkAt(t, k) ==
  IF t = "duplicate"
    THEN [running |-> OriginalServices \cup (IF k \in 3..6 THEN {Bad1} ELSE {})
                                       \cup (IF k \in 5..8 THEN {Bad2} ELSE {}),
          staking |-> Boots,
          removed |-> IF k \in 7..8 THEN {Bad1} ELSE {}]
    ELSE [running |-> ConnectedServices,
          staking |-> IF k \in 3..4 THEN Boots \cup {NonBootValidator} ELSE Boots,
          removed |-> {}]

NetworkInv ==
  /\ running = NetworkAt(test, at).running
  /\ staking = NetworkAt(test, at).staking
  /\ removed = NetworkAt(test, at).removed

IInv == TypeOK /\ NetworkInv

-----------------------------------------------------------------------------
(* The scripts.                                                            *)

LEMMA Names ==
  /\ Boots \subseteq Services
  /\ {Vanilla, Bad1, Bad2, NonBootValidator, NonBootNonValidator} \subseteq Services
  /\ \A s \in {Vanilla, Bad1, Bad2, NonBootValidator, NonBootNonValidator} : s \notin Boots
  /\ Bad1 # Bad2 /\ Bad1 # Vanilla /\ Bad2 # Vanilla
  /\ NonBootValidator # NonBootNonValidator
  BY BootAssumption DEF Services, Vanilla, Bad1, Bad2, NonBootValidator,
                        NonBootNonValidator

LEMMA ScriptIs ==
  /\ Tests = {"duplicate", "connected"}
  /\ DOMAIN Script["duplicate"] = 1..7 /\ Len(Script["duplicate"]) = 7
  /\ DOMAIN Script["connected"] = 1..3 /\ Len(Script["connected"]) = 3
  /\ Script["duplicate"][1] = Round("before")
  /\ Script["duplicate"][2] = Change("add", Bad1)
  /\ Script["duplicate"][3] = Round("oneAdded")
  /\ Script["duplicate"][4] = Change("add", Bad2)
  /\ Script["duplicate"][5] = Round("originals")
  /\ Script["duplicate"][6] = Change("remove", Bad1)
  /\ Script["duplicate"][7] = Round("settled")
  /\ Script["connected"][1] = Round("loaded")
  /\ Script["connected"][2] = Change("startValidating", NonBootValidator)
  /\ Script["connected"][3] = Round("gossiped")
  BY DEF Script, Tests

LEMMA RoundsAre ==
  /\ Verifications = {"before", "oneAdded", "settled", "loaded", "gossiped"}
  /\ Rounds = Verifications \cup {"originals"}
  /\ \A r \in Verifications : Asked[r] = AllServiceIDs[r]
  /\ Asked["originals"] = OriginalServices
  /\ AllServiceIDs["before"] = OriginalServices
  /\ AllServiceIDs["oneAdded"] = OriginalServices \cup {Bad1}
  /\ AllServiceIDs["settled"] = OriginalServices \cup {Bad2}
  /\ AllServiceIDs["loaded"] = ConnectedServices
  /\ AllServiceIDs["gossiped"] = ConnectedServices
  BY DEF Verifications, Rounds, Asked, AllServiceIDs

LEMMA AskedServices ==
  /\ \A r \in Rounds : Asked[r] \subseteq Services
  /\ \A r \in Verifications : AllServiceIDs[r] \subseteq Services
  BY Names, RoundsAre DEF OriginalServices, ConnectedServices

\* The length of every script, and the kind of a step.
LEMMA Steps ==
  ASSUME NEW t \in Tests
  PROVE  /\ Len(Script[t]) \in Nat
         /\ DOMAIN Script[t] = 1..Len(Script[t])
         /\ \A k \in DOMAIN Script[t] :
              /\ Script[t][k].op \in {"round", "add", "remove", "startValidating"}
              /\ Script[t][k].op = "round" =>
                   /\ Script[t][k].of \in Rounds
                   /\ Script[t][k] = Round(Script[t][k].of)
              /\ Script[t][k].op # "round" => \A r \in Rounds : Script[t][k] # Round(r)
<1>1. t = "duplicate" \/ t = "connected"
  BY ScriptIs
<1>2. CASE t = "duplicate"
  <2>1. \A k \in DOMAIN Script[t] : k \in {1, 2, 3, 4, 5, 6, 7}
    BY <1>2, ScriptIs
  <2> QED
    BY <1>2, <2>1, ScriptIs, RoundsAre DEF Round, Change
<1>3. CASE t = "connected"
  <2>1. \A k \in DOMAIN Script[t] : k \in {1, 2, 3}
    BY <1>3, ScriptIs
  <2> QED
    BY <1>3, <2>1, ScriptIs, RoundsAre DEF Round, Change
<1> QED
  BY <1>1, <1>2, <1>3

\* No test has a round twice.
LEMMA RoundsDiffer ==
  ASSUME NEW t \in Tests, NEW k \in DOMAIN Script[t], NEW l \in DOMAIN Script[t],
         NEW r \in Rounds, Script[t][k] = Round(r), Script[t][l] = Round(r)
  PROVE  k = l
<1>1. CASE t = "duplicate"
  <2>1. k \in {1, 2, 3, 4, 5, 6, 7} /\ l \in {1, 2, 3, 4, 5, 6, 7}
    BY <1>1, ScriptIs
  <2> QED
    BY <1>1, <2>1, ScriptIs DEF Round, Change
<1>2. CASE t = "connected"
  <2>1. k \in {1, 2, 3} /\ l \in {1, 2, 3}
    BY <1>2, ScriptIs
  <2> QED
    BY <1>2, <2>1, ScriptIs DEF Round, Change
<1> QED
  BY <1>1, <1>2, ScriptIs

\* The changes, and what they make of the network.
LEMMA Changes ==
  ASSUME NEW t \in Tests, NEW k \in DOMAIN Script[t]
  PROVE  /\ Script[t][k].op = "round" => NetworkAt(t, k + 1) = NetworkAt(t, k)
         /\ Script[t][k].op = "add" =>
              /\ Script[t][k].of \in {Bad1, Bad2}
              /\ NetworkAt(t, k).removed = {}
              /\ NetworkAt(t, k + 1).running =
                   NetworkAt(t, k).running \cup {Script[t][k].of}
              /\ NetworkAt(t, k + 1).staking = NetworkAt(t, k).staking
              /\ NetworkAt(t, k + 1).removed = {}
         /\ Script[t][k].op = "remove" =>
              /\ Script[t][k].of = Bad1
              /\ NetworkAt(t, k + 1).running = NetworkAt(t, k).running \ {Bad1}
              /\ NetworkAt(t, k + 1).staking = NetworkAt(t, k).staking
              /\ NetworkAt(t, k).staking = Boots
              /\ NetworkAt(t, k).removed = {}
              /\ NetworkAt(t, k + 1).removed = {Bad1}
         /\ Script[t][k].op = "startValidating" =>
              /\ Script[t][k].of = NonBootValidator
              /\ NetworkAt(t, k + 1).running = NetworkAt(t, k).running
              /\ NonBootValidator \in NetworkAt(t, k).running
              /\ NetworkAt(t, k + 1).staking =
                   NetworkAt(t, k).staking \cup {NonBootValidator}
              /\ NetworkAt(t, k + 1).removed = NetworkAt(t, k).removed
<1>1. CASE t = "duplicate"
  <2>1. k \in {1, 2, 3, 4, 5, 6, 7}
    BY <1>1, ScriptIs
  <2>2. Bad1 \notin OriginalServices /\ Bad1 # Bad2
    BY Names DEF OriginalServices
  <2> QED
    BY <1>1, <2>1, <2>2, ScriptIs DEF Round, Change, NetworkAt
<1>2. CASE t = "connected"
  <2>1. k = 1 \/ k = 2 \/ k = 3
    BY <1>2, ScriptIs
  <2>2. CASE k = 2
    <3>1. Script[t][k] = Change("startValidating", NonBootValidator)
      BY <1>2, <2>2, ScriptIs
    <3>2. /\ NetworkAt(t, k + 1).running = ConnectedServices
          /\ NetworkAt(t, k).running = ConnectedServices
          /\ NetworkAt(t, k + 1).staking = Boots \cup {NonBootValidator}
          /\ NetworkAt(t, k).staking = Boots
          /\ NetworkAt(t, k + 1).removed = NetworkAt(t, k).removed
      BY <1>2, <2>2 DEF NetworkAt
    <3> QED
      BY <3>1, <3>2 DEF Change, ConnectedServices
  <2>3. CASE k = 1 \/ k = 3
    <3>1. Script[t][k].op = "round"
      BY <1>2, <2>3, ScriptIs DEF Round
    <3>2. NetworkAt(t, k + 1) = NetworkAt(t, k)
      BY <1>2, <2>3 DEF NetworkAt
    <3> QED
      BY <3>1, <3>2
  <2> QED
    BY <2>1, <2>2, <2>3
<1> QED
  BY <1>1, <1>2, ScriptIs

\* The services asked at a step are those of its round.
LEMMA AskedAtRound ==
  ASSUME TypeOK, NEW r \in Rounds, at \in DOMAIN Script[test],
         Script[test][at] = Round(r)
  PROVE  /\ AskedAt(at) = Asked[r]
         /\ remaining \subseteq Asked[r]
         /\ Step.of = r /\ Step.op = "round"
  BY DEF TypeOK, AskedAt, Round, Step

-----------------------------------------------------------------------------
(* Types, and the network at every step.                                   *)

LEMMA InitIInv == Init => IInv
<1> SUFFICES ASSUME Init PROVE IInv
  OBVIOUS
<1>1. Len(Script[test]) \in Nat
  BY Steps DEF Init
<1>2. NetworkInv
  BY ScriptIs DEF Init, NetworkInv, NetworkAt
<1>3. staking \subseteq running /\ running \subseteq Services
  BY Names DEF Init, OriginalServices, ConnectedServices
<1>4. TypeOK
  BY <1>1, <1>3, LossesAssumption DEF Init, TypeOK
<1> QED
  BY <1>2, <1>4 DEF IInv

LEMMA NodesIInv == IInv /\ Nodes => IInv'
<1> SUFFICES ASSUME IInv, Nodes PROVE IInv'
  OBVIOUS
<1> USE DEF IInv, arguments, testVars, NetworkInv
<1>1. PICK s \in Services, id \in {nodeIDOf[t] : t \in Services} :
        Connect(s, id) \/ Notice(s, id) \/ Lose(s, id)
  BY DEF Nodes
<1>2. CASE Connect(s, id)
  BY <1>2 DEF Connect, WantedIDs, TypeOK, AskedAt
<1>3. CASE Notice(s, id)
  BY <1>3 DEF Notice, TypeOK, AskedAt
<1>4. CASE Lose(s, id)
  BY <1>4, LossesAssumption DEF Lose, TypeOK, AskedAt
<1> QED
  BY <1>1, <1>2, <1>3, <1>4

\* The shape of the test's own variables after a step that goes on.
LEMMA ProceedType ==
  ASSUME TypeOK, Proceed, UNCHANGED arguments, at \in DOMAIN Script[test]
  PROVE  /\ at' \in 1..Len(Script[test]) + 1
         /\ remaining' = AskedAt(at)'
<1>1. Len(Script[test]) \in Nat /\ DOMAIN Script[test] = 1..Len(Script[test])
  BY Steps DEF TypeOK
<1> QED
  BY <1>1 DEF Proceed, AskedAt, arguments

LEMMA TestIInv == IInv /\ Test => IInv'
<1> SUFFICES ASSUME IInv, Test PROVE IInv'
  OBVIOUS
<1>0. TypeOK /\ NetworkInv /\ test \in Tests
  BY DEF IInv, TypeOK
<1> USE DEF arguments, networkVars
<1>1. ASSUME NEW s \in Services, PeersAsExpected(s) PROVE IInv'
  <2>1. /\ Step.of \in Rounds
        /\ s \in Asked[Step.of]
    BY <1>0, <1>1, Steps, AskedAtRound DEF PeersAsExpected, At, Step
  <2> QED
    BY <1>0, <1>1, <2>1 DEF PeersAsExpected, IInv, TypeOK, NetworkInv, AskedAt
<1>2. ASSUME NEW s \in Services, PeersUnexpected(s) PROVE IInv'
  BY <1>0, <1>2 DEF PeersUnexpected, IInv, TypeOK, NetworkInv, AskedAt
<1>3. CASE AllAsExpected
  <2>1. NetworkAt(test, at') = NetworkAt(test, at)
    BY <1>0, <1>3, Changes DEF AllAsExpected, At, Proceed, Step
  <2> QED
    BY <1>0, <1>3, <2>1, ProceedType
       DEF AllAsExpected, At, Proceed, IInv, TypeOK, NetworkInv
<1>4. CASE AddService
  <2>1. /\ Step.of \in {Bad1, Bad2} /\ removed = {}
        /\ running' = NetworkAt(test, at').running
        /\ staking' = NetworkAt(test, at').staking
        /\ removed' = NetworkAt(test, at').removed
    BY <1>0, <1>4, Changes DEF AddService, At, Proceed, Step, NetworkInv
  <2>2. running' \subseteq Services
    BY <1>0, <1>4, <2>1, Names DEF AddService, TypeOK
  <2> QED
    BY <1>0, <1>4, <2>1, <2>2, ProceedType
       DEF AddService, At, Proceed, IInv, TypeOK, NetworkInv
<1>5. CASE RemoveService
  <2>1. /\ Step.of = Bad1 /\ removed = {} /\ staking = Boots
        /\ running' = NetworkAt(test, at').running
        /\ staking' = NetworkAt(test, at').staking
        /\ removed' = NetworkAt(test, at').removed
        /\ removed' = {Bad1}
    BY <1>0, <1>5, Changes DEF RemoveService, At, Proceed, Step, NetworkInv
  <2>2. Bad1 \in Services /\ Bad1 \notin Boots
    BY Names
  <2>3. PICK had \in SUBSET Services :
          /\ stale' = [s \in Services |-> IF s \in had THEN {nodeIDOf[Bad1]} ELSE {}]
          /\ \A s \in had : nodeIDOf[Bad1] \in peers[s]
    <3>1. running' \subseteq Services
      BY <1>0, <1>5 DEF RemoveService, TypeOK
    <3> QED
      BY <1>5, <2>1, <3>1 DEF RemoveService
  <2>4. /\ stale' \in [Services -> SUBSET {nodeIDOf'[s] : s \in removed'}]
        /\ \A s \in Services : stale'[s] \subseteq peers'[s]
    BY <1>5, <2>1, <2>3 DEF RemoveService
  <2> QED
    BY <1>0, <1>5, <2>1, <2>2, <2>4, ProceedType
       DEF RemoveService, At, Proceed, IInv, TypeOK, NetworkInv
<1>6. CASE StartValidating
  <2>1. /\ staking' \subseteq running
        /\ running' = NetworkAt(test, at').running
        /\ staking' = NetworkAt(test, at').staking
        /\ removed' = NetworkAt(test, at').removed
    BY <1>0, <1>6, Changes DEF StartValidating, At, Proceed, Step, NetworkInv, TypeOK
  <2> QED
    BY <1>0, <1>6, <2>1, ProceedType
       DEF StartValidating, At, Proceed, IInv, TypeOK, NetworkInv
<1>7. CASE CallFails
  BY <1>0, <1>7 DEF CallFails, IInv, TypeOK, NetworkInv, AskedAt
<1>8. CASE Finish
  BY <1>0, <1>8 DEF Finish, IInv, TypeOK, NetworkInv, AskedAt
<1> QED
  BY <1>1, <1>2, <1>3, <1>4, <1>5, <1>6, <1>7, <1>8 DEF Test

LEMMA NextIInv == IInv /\ [Next]_vars => IInv'
<1>1. IInv /\ UNCHANGED vars => IInv'
  BY DEF vars, arguments, networkVars, testVars, IInv, TypeOK, NetworkInv, AskedAt
<1> QED
  BY <1>1, NodesIInv, TestIInv DEF Next

LEMMA PeerTestsInvariant == Spec => []IInv
<1> QED
  BY InitIInv, NextIInv, PTL DEF Spec

\* The tests and the network keep their shape, whatever the boot nodes
\* (duplicate_node_id.go:44-173, fully_connected.go:50-96).
THEOREM PeerTestsTypeOK == Spec => []TypeOK
<1>1. IInv => TypeOK
  BY DEF IInv
<1> QED
  BY <1>1, PeerTestsInvariant, PTL

-----------------------------------------------------------------------------
(* The rounds as verifications.                                            *)

\* A round is not held twice, so one that is being held is not behind.
LEMMA HoldingNotHeld ==
  ASSUME TypeOK, NEW r \in Rounds, Holding(r)
  PROVE  ~Held(r)
<1>1. at \in Int /\ test \in Tests
  BY Steps DEF TypeOK
<1> QED
  BY <1>1, RoundsDiffer DEF Holding, Held

\* A verification looks the same as long as the test is at the same step.
LEMMA SameStep ==
  ASSUME UNCHANGED <<test, at>>, NEW r \in Rounds
  PROVE  /\ Held(r)' = Held(r)
         /\ Holding(r)' = Holding(r)
  BY DEF Held, Holding

\* When the test goes on, the round it was in is over and the others are as
\* they were.
LEMMA NextStep ==
  ASSUME TypeOK, At(Step.op), Proceed, UNCHANGED arguments, NEW r \in Verifications
  PROVE  /\ Holding(r) => RemainingIn(r)' = {} /\ ResultIn(r)' = "passed"
         /\ ~Holding(r) => /\ RemainingIn(r)' = RemainingIn(r)
                           /\ ResultIn(r)' = ResultIn(r)
<1> USE DEF arguments
<1>0. /\ test \in Tests /\ test' = test /\ at' = at + 1 /\ r \in Rounds
      /\ at \in DOMAIN Script[test] /\ result = "running" /\ result' = "running"
  BY RoundsAre DEF TypeOK, At, Proceed
<1>1. /\ Len(Script[test]) \in Nat /\ DOMAIN Script[test] = 1..Len(Script[test])
      /\ at \in 1..Len(Script[test])
  BY <1>0, Steps
<1>2. Held(r)' <=> Held(r) \/ Holding(r)
  BY <1>0, <1>1 DEF Held, Holding
<1>3. CASE Holding(r)
  BY <1>2, <1>3 DEF RemainingIn, ResultIn
<1>4. CASE ~Holding(r) /\ Held(r)
  BY <1>2, <1>4 DEF RemainingIn, ResultIn
<1>5. CASE ~Holding(r) /\ ~Held(r)
  <2>1. ~Held(r)'
    BY <1>2, <1>5
  <2>2. Holding(r)' => remaining' = Asked[r]
    <3> SUFFICES ASSUME Holding(r)' PROVE remaining' = Asked[r]
      OBVIOUS
    <3>1. at + 1 \in DOMAIN Script[test] /\ Script[test][at + 1] = Round(r)
      BY <1>0 DEF Holding
    <3> QED
      BY <3>1, <1>0 DEF Proceed, AskedAt, Round
  <2> QED
    BY <1>0, <1>5, <2>1, <2>2 DEF RemainingIn, ResultIn
<1> QED
  BY <1>3, <1>4, <1>5

LEMMA InitVerified ==
  ASSUME Init, NEW r \in Verifications
  PROVE  Verification(r)!Init
<1>1. r \in Rounds /\ Asked[r] = AllServiceIDs[r] /\ AllServiceIDs[r] \subseteq Services
  BY RoundsAre, AskedServices
<1>2. ~Held(r)
  BY Steps DEF Init, Held
<1>3. RemainingIn(r) = AllServiceIDs[r] /\ ResultIn(r) = "running"
  <2>1. Holding(r) => remaining = Asked[r]
    BY DEF Init, Holding, AskedAt, Round
  <2> QED
    BY <1>1, <1>2, <2>1 DEF RemainingIn, ResultIn, Init
<1>4. seen[r] = [s \in AllServiceIDs[r] |-> {}]
  BY <1>1 DEF Init
<1>5. [s \in AllServiceIDs[r] |-> peers[s]] = [s \in AllServiceIDs[r] |-> {}]
  BY <1>1 DEF Init
<1>6. [s \in AllServiceIDs[r] |-> nodeIDOf[s]]
        \in {[s \in AllServiceIDs[r] |-> f[s]] : f \in NodeIDMaps}
  BY DEF Init
<1> QED
  BY <1>3, <1>4, <1>5, <1>6
     DEF Verification!Init, Verification!NodeIDs, Verification!Others

\* What the nodes do is what nodes may do in a verification.
LEMMA NodesVerified ==
  ASSUME IInv, Nodes, NEW r \in Verifications
  PROVE  [Verification(r)!Next]_(Verification(r)!vars)
<1>0. /\ TypeOK /\ r \in Rounds /\ AllServiceIDs[r] \subseteq Services
  BY RoundsAre, AskedServices DEF IInv
<1>1. PICK s \in Services, id \in {nodeIDOf[t] : t \in Services} :
        Connect(s, id) \/ Notice(s, id) \/ Lose(s, id)
  BY DEF Nodes
<1>2. /\ UNCHANGED <<test, at, nodeIDOf, remaining, seen, result>>
      /\ RemainingIn(r)' = RemainingIn(r) /\ ResultIn(r)' = ResultIn(r)
  <2>1. UNCHANGED <<test, at, nodeIDOf, remaining, seen, result>>
    BY <1>1 DEF Connect, Notice, Lose, arguments, testVars
  <2> QED
    BY <1>0, <2>1, SameStep DEF RemainingIn, ResultIn
<1>3. /\ [t \in AllServiceIDs[r] |-> nodeIDOf[t]]' = [t \in AllServiceIDs[r] |-> nodeIDOf[t]]
      /\ seen'[r] = seen[r]
  BY <1>2
<1>4. CASE s \notin AllServiceIDs[r]
  <2>1. [t \in AllServiceIDs[r] |-> peers[t]]' = [t \in AllServiceIDs[r] |-> peers[t]]
    BY <1>0, <1>1, <1>4 DEF Connect, Notice, Lose, TypeOK
  <2> QED
    BY <1>2, <1>3, <2>1 DEF Verification!vars
<1>5. CASE s \in AllServiceIDs[r]
  <2>1. id \in Verification(r)!NodeIDs
    BY <1>0, <1>1 DEF Verification!NodeIDs, TypeOK
  <2>2. CASE Connect(s, id)
    <3>1. /\ id \notin peers[s] /\ id # nodeIDOf[s]
          /\ [t \in AllServiceIDs[r] |-> peers[t]]' =
               [[t \in AllServiceIDs[r] |-> peers[t]] EXCEPT ![s] = @ \cup {id}]
      BY <1>0, <2>2 DEF Connect, WantedIDs, TypeOK
    <3>2. Verification(r)!Connect(s, id)
      BY <1>2, <1>3, <1>5, <2>1, <3>1
         DEF Verification!Connect, Verification!Others, Verification!arguments
    <3> QED
      BY <1>5, <2>1, <3>2 DEF Verification!Next, Verification!Nodes
  <2>3. CASE Notice(s, id) \/ Lose(s, id)
    <3>1. /\ id \in peers[s]
          /\ [t \in AllServiceIDs[r] |-> peers[t]]' =
               [[t \in AllServiceIDs[r] |-> peers[t]] EXCEPT ![s] = @ \ {id}]
      BY <1>0, <2>3 DEF Notice, Lose, TypeOK
    <3>2. Verification(r)!Disconnect(s, id)
      BY <1>2, <1>3, <1>5, <3>1
         DEF Verification!Disconnect, Verification!arguments
    <3> QED
      BY <1>5, <2>1, <3>2 DEF Verification!Next, Verification!Nodes
  <2> QED
    BY <1>1, <2>2, <2>3
<1> QED
  BY <1>4, <1>5

\* When a verification of this kind asks a service, the test does.
LEMMA AskedVerified ==
  ASSUME IInv, NEW s \in Services, PeersAsExpected(s), NEW r \in Verifications
  PROVE  [Verification(r)!Next]_(Verification(r)!vars)
<1>0. /\ TypeOK /\ r \in Rounds /\ AllServiceIDs[r] = Asked[r]
      /\ UNCHANGED <<test, at, nodeIDOf, peers, result>> /\ result = "running"
  BY RoundsAre DEF IInv, PeersAsExpected, At, arguments, networkVars
<1>1. Held(r)' = Held(r) /\ Holding(r)' = Holding(r)
  BY <1>0, SameStep
<1>2. CASE Step # Round(r)
  <2>1. ~Holding(r)
    BY <1>2 DEF Holding, Step
  <2>2. Step.of # r
    <3>1. test \in Tests /\ at \in DOMAIN Script[test] /\ Step.op = "round"
      BY <1>0 DEF PeersAsExpected, At, TypeOK
    <3>2. Step = Round(Step.of)
      BY <3>1, Steps DEF Step
    <3> QED
      BY <1>2, <3>2
  <2>3. seen'[r] = seen[r]
    BY <1>0, <2>2 DEF PeersAsExpected, TypeOK, Step
  <2>4. RemainingIn(r)' = RemainingIn(r) /\ ResultIn(r)' = ResultIn(r)
    BY <1>0, <1>1, <2>1 DEF RemainingIn, ResultIn
  <2> QED
    BY <1>0, <2>3, <2>4 DEF Verification!vars
<1>3. CASE Step = Round(r)
  <2>1. Holding(r) /\ at \in DOMAIN Script[test] /\ Step.of = r
    BY <1>3 DEF PeersAsExpected, At, Holding, Step, Round
  <2>2. ~Held(r)
    BY <1>0, <2>1, HoldingNotHeld
  <2>3. /\ RemainingIn(r) = remaining /\ RemainingIn(r)' = remaining'
        /\ ResultIn(r) = "running" /\ ResultIn(r)' = "running"
    BY <1>0, <1>1, <2>1, <2>2 DEF RemainingIn, ResultIn
  <2>4. s \in AllServiceIDs[r]
    BY <1>0, <1>3, <2>1, AskedAtRound DEF PeersAsExpected, Step
  <2>5. seen'[r] = [seen[r] EXCEPT ![s] = peers[s]]
    BY <1>0, <2>1, <2>4 DEF PeersAsExpected, TypeOK, Step
  <2>6. Verification(r)!AsExpected(s)
    <3>1. Step # Round("originals")
      BY <1>3, RoundsAre DEF Round
    <3>2. \A q \in Verifications : Step = Round(q) => q = r
      BY <1>3 DEF Round
    <3> QED
      BY <3>1, <3>2 DEF PeersAsExpected, AsExpected
  <2>7. Verification(r)!PeersAsExpected(s)
    BY <1>0, <2>3, <2>4, <2>5, <2>6
       DEF PeersAsExpected, Verification!PeersAsExpected, Verification!arguments
  <2> QED
    BY <2>4, <2>7 DEF Verification!Next, Verification!Verifier
<1> QED
  BY <1>2, <1>3

\* When a service answers otherwise or not at all, the verification that is
\* held ends and the others are as they were.
LEMMA EndVerified ==
  ASSUME IInv, NEW r \in Verifications,
         \/ \E s \in Services : PeersUnexpected(s)
         \/ CallFails
         \/ Finish
  PROVE  [Verification(r)!Next]_(Verification(r)!vars)
<1>0. /\ TypeOK /\ r \in Rounds /\ AllServiceIDs[r] = Asked[r]
      /\ UNCHANGED <<test, at, nodeIDOf, peers, remaining, seen>> /\ result = "running"
  BY RoundsAre DEF IInv, PeersUnexpected, CallFails, Finish, At, arguments, networkVars
<1>1. Held(r)' = Held(r) /\ Holding(r)' = Holding(r) /\ RemainingIn(r)' = RemainingIn(r)
  BY <1>0, SameStep DEF RemainingIn
<1>2. CASE ~Holding(r)
  <2>1. ResultIn(r)' = ResultIn(r)
    BY <1>1, <1>2 DEF ResultIn
  <2> QED
    BY <1>0, <1>1, <2>1 DEF Verification!vars
<1>3. CASE Holding(r)
  <2>1. /\ at \in DOMAIN Script[test] /\ Step = Round(r)
        /\ Step.op = "round" /\ Step.of = r
    BY <1>3 DEF Holding, Step, Round
  <2>2. ~Held(r)
    BY <1>0, <1>3, HoldingNotHeld
  <2>3. /\ RemainingIn(r) = remaining /\ remaining \subseteq AllServiceIDs[r]
        /\ ResultIn(r) = "running" /\ ResultIn(r)' = result'
    BY <1>0, <1>1, <1>3, <2>1, <2>2, AskedAtRound DEF RemainingIn, ResultIn, Step
  <2>4. ASSUME NEW s \in Services, PeersUnexpected(s)
        PROVE  [Verification(r)!Next]_(Verification(r)!vars)
    <3>1. ~Verification(r)!AsExpected(s)
      BY <2>1, <2>4 DEF PeersUnexpected, AsExpected
    <3>2. Verification(r)!PeersUnexpected(s) /\ s \in AllServiceIDs[r]
      BY <1>0, <1>1, <2>3, <2>4, <3>1
         DEF PeersUnexpected, Verification!PeersUnexpected, Verification!arguments
    <3> QED
      BY <3>2 DEF Verification!Next, Verification!Verifier
  <2>5. CASE CallFails
    <3>1. PICK s \in remaining : TRUE
      BY <2>1, <2>5 DEF CallFails, At
    <3>2. Verification(r)!CallFails(s) /\ s \in AllServiceIDs[r]
      BY <1>0, <1>1, <2>3, <2>5, <3>1
         DEF CallFails, Verification!CallFails, Verification!arguments
    <3> QED
      BY <3>2 DEF Verification!Next, Verification!Verifier
  <2>6. CASE Finish
    BY <2>1, <2>6 DEF Finish
  <2> QED
    BY <2>4, <2>5, <2>6
<1> QED
  BY <1>2, <1>3

LEMMA ProceedVerified ==
  ASSUME IInv, NEW r \in Verifications,
         AllAsExpected \/ AddService \/ RemoveService \/ StartValidating
  PROVE  [Verification(r)!Next]_(Verification(r)!vars)
<1>0. /\ TypeOK /\ r \in Rounds /\ AllServiceIDs[r] = Asked[r]
      /\ UNCHANGED <<test, nodeIDOf, peers, seen>> /\ result = "running"
      /\ At(Step.op) /\ Proceed
  BY RoundsAre DEF IInv, AllAsExpected, AddService, RemoveService, StartValidating,
                   At, arguments, networkVars, Proceed
<1>1. CASE ~Holding(r)
  <2>1. RemainingIn(r)' = RemainingIn(r) /\ ResultIn(r)' = ResultIn(r)
    BY <1>0, <1>1, NextStep DEF arguments
  <2> QED
    BY <1>0, <2>1 DEF Verification!vars
<1>2. CASE Holding(r)
  <2>1. RemainingIn(r)' = {} /\ ResultIn(r)' = "passed"
    BY <1>0, <1>2, NextStep DEF arguments
  <2>2. Step.op = "round"
    BY <1>2 DEF Holding, Step, Round
  <2>3. AllAsExpected
    BY <2>2 DEF AddService, RemoveService, StartValidating, At
  <2>4. RemainingIn(r) = {} /\ ResultIn(r) = "running"
    BY <1>0, <1>2, <2>3, HoldingNotHeld DEF RemainingIn, ResultIn, AllAsExpected
  <2>5. Verification(r)!AllAsExpected
    BY <1>0, <2>1, <2>4 DEF Verification!AllAsExpected, Verification!arguments
  <2> QED
    BY <2>5 DEF Verification!Next, Verification!Verifier
<1> QED
  BY <1>1, <1>2

LEMMA NextVerified ==
  ASSUME IInv, [Next]_vars, NEW r \in Verifications
  PROVE  [Verification(r)!Next]_(Verification(r)!vars)
<1>1. CASE UNCHANGED vars
  <2>1. UNCHANGED <<test, at, nodeIDOf, peers, remaining, seen, result>> /\ r \in Rounds
    BY <1>1, RoundsAre DEF vars, arguments, networkVars, testVars
  <2>2. RemainingIn(r)' = RemainingIn(r) /\ ResultIn(r)' = ResultIn(r)
    BY <2>1, SameStep DEF RemainingIn, ResultIn
  <2> QED
    BY <2>1, <2>2 DEF Verification!vars
<1> QED
  BY <1>1, NodesVerified, AskedVerified, EndVerified, ProceedVerified DEF Next, Test

\* Every verification in the tests is one of NetworkStateVerifier, whatever
\* the boot nodes, the node IDs and the connections lost
\* (duplicate_node_id.go:56,96,169; fully_connected.go:65,92).
THEOREM PeerTestsRoundsAreVerifications == Spec => RoundsAreVerifications
<1>1. Init => \A r \in Verifications : Holds(r) => Verification(r)!Init
  BY InitVerified
<1>2. IInv /\ [Next]_vars =>
        [\A r \in Verifications : Holds(r) => [Verification(r)!Next]_(Verification(r)!vars)]_vars
  BY NextVerified
<1> QED
  BY <1>1, <1>2, PeerTestsInvariant, PTL DEF Spec, RoundsAreVerifications

-----------------------------------------------------------------------------
(* What an answer as expected, or not as expected, says of the network.    *)

LEMMA ImageSize ==
  ASSUME NEW S, IsFiniteSet(S), NEW f
  PROVE  /\ IsFiniteSet({f[x] : x \in S})
         /\ (\A x, y \in S : f[x] = f[y] => x = y) =>
              Cardinality({f[x] : x \in S}) = Cardinality(S)
<1> DEFINE T == {f[x] : x \in S}
           g == [x \in S |-> f[x]]
<1>1. g \in Surjection(S, T)
  BY DEF Surjection
<1>2. IsFiniteSet(T) /\ (Cardinality(T) = Cardinality(S) <=> g \in Injection(S, T))
  BY <1>1, FS_Surjection
<1>3. (\A x, y \in S : f[x] = f[y] => x = y) => g \in Injection(S, T)
  BY DEF Injection, IsInjective
<1> QED
  BY <1>2, <1>3

LEMMA ServicesFinite ==
  /\ IsFiniteSet(OriginalServices)
  /\ IsFiniteSet(ConnectedServices)
  /\ \A r \in Verifications : IsFiniteSet(AllServiceIDs[r])
<1>1. IsFiniteSet(OriginalServices)
  BY BootAssumption, FS_AddElement DEF OriginalServices
<1>2. IsFiniteSet(ConnectedServices)
  <2>1. ConnectedServices = (Boots \cup {NonBootValidator}) \cup {NonBootNonValidator}
    BY DEF ConnectedServices
  <2> QED
    BY <2>1, BootAssumption, FS_AddElement
<1>3. IsFiniteSet(OriginalServices \cup {Bad1}) /\ IsFiniteSet(OriginalServices \cup {Bad2})
  BY <1>1, FS_AddElement
<1> QED
  BY <1>1, <1>2, <1>3, RoundsAre

\* Two services share an ID only if they are the two of one configuration.
LEMMA SharedIDs ==
  ASSUME TypeOK, NEW s \in Services, NEW t \in Services,
         nodeIDOf[s] = nodeIDOf[t], s # t
  PROVE  Bad1 \in {s, t} /\ Bad2 \in {s, t}
<1>1. nodeIDOf \in NodeIDMaps
  BY DEF TypeOK
<1>2. {s, t} = {Bad1, Bad2}
  BY <1>1, NodeIDAssumption
<1> QED
  BY <1>2

\* In a verification's round the network is the one it is about, and no two of
\* its nodes have one ID.
LEMMA RoundNetwork ==
  ASSUME IInv, NEW r \in Verifications, at \in DOMAIN Script[test], Step = Round(r)
  PROVE  /\ running = AllServiceIDs[r]
         /\ staking = StakerIDs(r)
         /\ \A s, t \in running : nodeIDOf[s] = nodeIDOf[t] => s = t
         /\ AmbiguousIDs = {}
<1>0. TypeOK /\ NetworkInv /\ test \in Tests /\ nodeIDOf \in NodeIDMaps
  BY DEF IInv, TypeOK
<1>1. CASE test = "duplicate"
  <2>1. at \in {1, 2, 3, 4, 5, 6, 7}
    BY <1>1, ScriptIs
  <2>2. \/ at = 1 /\ r = "before"
        \/ at = 3 /\ r = "oneAdded"
        \/ at = 7 /\ r = "settled"
    BY <1>1, <2>1, ScriptIs, RoundsAre DEF Step, Round, Change
  <2>3. staking = Boots /\ StakerIDs(r) = Boots
    BY <1>0, <1>1, <2>2 DEF NetworkInv, NetworkAt, StakerIDs
  <2>4. running = AllServiceIDs[r]
    BY <1>0, <1>1, <2>2, RoundsAre DEF NetworkInv, NetworkAt
  <2>5. Bad1 \notin running \/ Bad2 \notin running
    BY <2>2, <2>4, RoundsAre, Names DEF OriginalServices
  <2>6. \A s, t \in running : nodeIDOf[s] = nodeIDOf[t] => s = t
    BY <1>0, <2>5, SharedIDs DEF TypeOK
  <2> QED
    BY <2>3, <2>4, <2>6 DEF AmbiguousIDs
<1>2. CASE test = "connected"
  <2>1. at \in {1, 2, 3}
    BY <1>2, ScriptIs
  <2>2. \/ at = 1 /\ r = "loaded"
        \/ at = 3 /\ r = "gossiped"
    BY <1>2, <2>1, ScriptIs, RoundsAre DEF Step, Round, Change
  <2>3. running = ConnectedServices /\ staking = StakerIDs(r)
    BY <1>0, <1>2, <2>2 DEF NetworkInv, NetworkAt, StakerIDs
  <2>4. Bad1 \notin running
    BY <2>3, Names DEF ConnectedServices, Bad1, NonBootValidator, NonBootNonValidator
  <2>5. \A s, t \in running : nodeIDOf[s] = nodeIDOf[t] => s = t
    BY <1>0, <2>4, SharedIDs DEF TypeOK
  <2> QED
    BY <2>2, <2>3, <2>5, RoundsAre DEF AmbiguousIDs
<1> QED
  BY <1>0, <1>1, <1>2, ScriptIs

\* The verifier expects of a service what it will have in the end, and takes
\* nothing else.
LEMMA AnswersInVerification ==
  ASSUME IInv, NEW r \in Verifications, at \in DOMAIN Script[test], Step = Round(r),
         NEW s \in running
  PROVE  AsExpected(s) <=> peers[s] = WantedIDs(s)
<1>1. /\ running = AllServiceIDs[r] /\ staking = StakerIDs(r)
      /\ \A t, u \in running : nodeIDOf[t] = nodeIDOf[u] => t = u
  BY RoundNetwork
<1>2. AsExpected(s) <=> Verification(r)!AsExpected(s)
  BY RoundsAre DEF AsExpected, Round
<1>3. Verification(r)!AcceptableNodeIDs(s) = WantedIDs(s)
  BY <1>1 DEF Verification!AcceptableNodeIDs, Verification!Expected, WantedIDs, Wanted
<1>4. IsFiniteSet(WantedIDs(s)) /\ Cardinality(WantedIDs(s)) \in Nat
  <2>1. IsFiniteSet(Wanted(s))
    BY <1>1, ServicesFinite, FS_Subset DEF Wanted
  <2>2. IsFiniteSet({nodeIDOf[t] : t \in Wanted(s)})
    BY <2>1, ImageSize
  <2> QED
    BY <2>2, FS_Subset, FS_CardinalityType DEF WantedIDs
<1>5. Verification(r)!AsExpected(s) <=>
        /\ Cardinality(peers[s]) = Cardinality(WantedIDs(s))
        /\ peers[s] \subseteq WantedIDs(s)
  BY <1>1, <1>3 DEF Verification!AsExpected, Verification!VerifyExpectedPeers,
                    Verification!Cardinality, Cardinality
<1> QED
  BY <1>2, <1>4, <1>5, FS_Subset

\* In the round of the originals the two added nodes run too.
LEMMA AnswersInOriginals ==
  ASSUME IInv, at \in DOMAIN Script[test], Step = Round("originals"),
         NEW s \in OriginalServices,
         peers[s] \subseteq WantedIDs(s), WantedIDs(s) \ AmbiguousIDs \subseteq peers[s]
  PROVE  OriginalAsExpected(s)
<1>0. TypeOK /\ NetworkInv /\ test \in Tests
  BY DEF IInv, TypeOK
<1>1. test = "duplicate" /\ at = 5
  <2>1. CASE test = "connected"
    <3>1. at \in {1, 2, 3}
      BY <2>1, ScriptIs
    <3> QED
      BY <2>1, <3>1, ScriptIs DEF Step, Round, Change
  <2>2. CASE test = "duplicate"
    <3>1. at \in {1, 2, 3, 4, 5, 6, 7}
      BY <2>2, ScriptIs
    <3> QED
      BY <2>2, <3>1, ScriptIs DEF Step, Round, Change
  <2> QED
    BY <1>0, <2>1, <2>2, ScriptIs
<1>2. running = OriginalServices \cup {Bad1, Bad2} /\ staking = Boots
  BY <1>0, <1>1 DEF NetworkInv, NetworkAt
<1>3. /\ running \subseteq Services
      /\ Bad1 \notin OriginalServices /\ Bad2 \notin OriginalServices
  BY <1>0, Names DEF TypeOK, OriginalServices
<1>4. \A t \in OriginalServices, u \in running :
        nodeIDOf[t] = nodeIDOf[u] => t = u
  <2>1. Bad1 # Bad2
    BY Names
  <2>2. ASSUME NEW t \in OriginalServices, NEW u \in running,
               nodeIDOf[t] = nodeIDOf[u], t # u
        PROVE  FALSE
    <3>1. Bad1 \in {t, u} /\ Bad2 \in {t, u}
      BY <1>0, <1>2, <1>3, <2>2, SharedIDs
    <3> QED
      BY <3>1, <1>3, <2>1
  <2> QED
    BY <2>2
<1>5. \A t \in OriginalServices : nodeIDOf[t] \notin AmbiguousIDs
  BY <1>2, <1>4 DEF AmbiguousIDs
<1>6. OriginalsFor(s) \subseteq OriginalServices /\ OriginalsFor(s) \subseteq Wanted(s)
  BY <1>2 DEF OriginalsFor, Wanted, OriginalServices
<1>7. {nodeIDOf[t] : t \in OriginalsFor(s)} \subseteq peers[s]
  BY <1>2, <1>4, <1>5, <1>6 DEF WantedIDs, OriginalsFor
<1>8. /\ IsFiniteSet(OriginalsFor(s))
      /\ Cardinality({nodeIDOf[t] : t \in OriginalsFor(s)}) = Cardinality(OriginalsFor(s))
  <2>1. IsFiniteSet(OriginalsFor(s))
    BY <1>6, ServicesFinite, FS_Subset
  <2>2. \A t, u \in OriginalsFor(s) : nodeIDOf[t] = nodeIDOf[u] => t = u
    BY <1>2, <1>4, <1>6
  <2> QED
    BY <2>1, <2>2, ImageSize
<1>9. CASE s \in Boots
  <2>1. OriginalsFor(s) = OriginalServices \ {s}
    BY <1>9 DEF OriginalsFor
  <2>2. Wanted(s) \subseteq OriginalsFor(s) \cup {Bad1, Bad2}
    BY <1>2, <2>1 DEF Wanted
  <2>3. peers[s] \subseteq {nodeIDOf[t] : t \in OriginalsFor(s) \cup {Bad1, Bad2}}
    BY <2>2 DEF WantedIDs
  <2>4. IsFiniteSet(peers[s])
    <3>1. IsFiniteSet(OriginalsFor(s) \cup {Bad1, Bad2})
      <4>1. OriginalsFor(s) \cup {Bad1, Bad2} = (OriginalsFor(s) \cup {Bad1}) \cup {Bad2}
        OBVIOUS
      <4> QED
        BY <4>1, <1>8, FS_AddElement
    <3>2. IsFiniteSet({nodeIDOf[t] : t \in OriginalsFor(s) \cup {Bad1, Bad2}})
      BY <3>1, ImageSize
    <3> QED
      BY <2>3, <3>2, FS_Subset
  <2>5. Cardinality({nodeIDOf[t] : t \in OriginalsFor(s)}) <= Cardinality(peers[s])
    BY <1>7, <2>4, FS_Subset
  <2>6. Cardinality(OriginalsFor(s)) = Cardinality(OriginalServices) - 1
    BY <2>1, ServicesFinite, FS_RemoveElement
  <2>7. Cardinality(OriginalServices) - 1 <= Cardinality(peers[s])
    BY <1>8, <2>5, <2>6
  <2>8. /\ Cardinality(peers[s]) \in Nat /\ Cardinality(OriginalServices) \in Nat
    BY <2>4, ServicesFinite, FS_CardinalityType
  <2>9. Cardinality(peers[s]) >= Cardinality(OriginalServices) - 1
    BY <2>7, <2>8
  <2> QED
    BY <1>9, <2>3, <2>9 DEF OriginalAsExpected, Verification!VerifyExpectedPeers,
                            Verification!Cardinality, Cardinality
<1>10. CASE s \notin Boots
  <2>1. OriginalsFor(s) = Boots /\ Wanted(s) = Boots
    BY <1>2, <1>10 DEF OriginalsFor, Wanted, OriginalServices
  <2>2. peers[s] = {nodeIDOf[t] : t \in OriginalsFor(s)}
    BY <1>7, <2>1 DEF WantedIDs
  <2> QED
    BY <1>8, <1>10, <2>1, <2>2
       DEF OriginalAsExpected, Verification!VerifyExpectedPeers,
           Verification!Cardinality, Cardinality
<1> QED
  BY <1>9, <1>10

LEMMA UnexpectedUnsettled ==
  ASSUME IInv, NEW s \in Services, PeersUnexpected(s)
  PROVE  \/ ~(peers[s] \subseteq WantedIDs(s))
         \/ ~(WantedIDs(s) \ AmbiguousIDs \subseteq peers[s])
<1> SUFFICES ASSUME peers[s] \subseteq WantedIDs(s),
                    WantedIDs(s) \ AmbiguousIDs \subseteq peers[s]
             PROVE  FALSE
  OBVIOUS
<1>1. /\ TypeOK /\ test \in Tests /\ at \in DOMAIN Script[test] /\ Step.op = "round"
      /\ s \in remaining /\ ~AsExpected(s)
  BY DEF IInv, TypeOK, PeersUnexpected, At
<1>2. Step.of \in Rounds /\ Step = Round(Step.of)
  BY <1>1, Steps DEF Step
<1>3. s \in Asked[Step.of]
  BY <1>1, <1>2, AskedAtRound DEF Step
<1>4. CASE Step.of \in Verifications
  <2>1. s \in running /\ AmbiguousIDs = {}
    BY <1>1, <1>2, <1>3, <1>4, RoundNetwork, RoundsAre
  <2> QED
    BY <1>1, <1>2, <1>4, <2>1, AnswersInVerification
<1>5. CASE Step.of = "originals"
  BY <1>1, <1>2, <1>3, <1>5, AnswersInOriginals, RoundsAre DEF AsExpected
<1> QED
  BY <1>2, <1>4, <1>5, RoundsAre

\* A test fails for peers only while the network is not yet as it will be,
\* whatever the boot nodes, the node IDs and the connections lost
\* (duplicate_node_id.go:49-169, fully_connected.go:54-92).
THEOREM PeerTestsFailureMeansUnsettled == Spec => FailureMeansUnsettled
<1>1. ASSUME IInv, [Next]_vars, result' = "unexpected", result = "running"
      PROVE  \E s \in remaining :
               \/ ~(peers[s] \subseteq WantedIDs(s))
               \/ ~(WantedIDs(s) \ AmbiguousIDs \subseteq peers[s])
  <2>1. \E s \in Services : PeersUnexpected(s)
    BY <1>1 DEF Next, Test, Nodes, PeersAsExpected, AllAsExpected, AddService,
                RemoveService, StartValidating, CallFails, Finish, Proceed, Connect,
                Notice, Lose, vars, testVars
  <2> QED
    BY <1>1, <2>1, UnexpectedUnsettled DEF PeersUnexpected
<1>2. IInv /\ [Next]_vars =>
        [result' = "unexpected" /\ result = "running" =>
           \E s \in remaining :
             \/ ~(peers[s] \subseteq WantedIDs(s))
             \/ ~(WantedIDs(s) \ AmbiguousIDs \subseteq peers[s])]_vars
  BY <1>1
<1> QED
  BY <1>2, PeerTestsInvariant, PTL DEF Spec, FailureMeansUnsettled

-----------------------------------------------------------------------------
(* What the last round of a test leaves.                                   *)

\* The service has all its peers but those that only a removed one may be.
HasPeers(s) == WantedIDs(s) \ {nodeIDOf[t] : t \in removed} \subseteq peers[s]

\* Once the last round has begun, every service it has asked has its peers.
LastInv ==
  /\ result = "passed" => at = Len(Script[test]) + 1
  /\ losses = 0 /\ at >= Len(Script[test]) =>
       \A s \in running \ remaining : HasPeers(s)

\* The last round is a verification of all that runs.
LEMMA LastRound ==
  ASSUME NEW t \in Tests
  PROVE  /\ Len(Script[t]) \in DOMAIN Script[t]
         /\ \E r \in Verifications : Script[t][Len(Script[t])] = Round(r)
         /\ Script[t][Len(Script[t])].op = "round"
         /\ Asked[Script[t][Len(Script[t])].of] = NetworkAt(t, Len(Script[t])).running
<1>1. CASE t = "duplicate"
  <2>1. NetworkAt("duplicate", 7).running = (OriginalServices \cup {}) \cup {Bad2}
    BY DEF NetworkAt
  <2> QED
    BY <1>1, <2>1, ScriptIs, RoundsAre DEF Round
<1>2. CASE t = "connected"
  <2>1. NetworkAt("connected", 3).running = ConnectedServices
    BY DEF NetworkAt
  <2> QED
    BY <1>2, <2>1, ScriptIs, RoundsAre DEF Round
<1> QED
  BY <1>1, <1>2, ScriptIs

LEMMA InitLastInv == Init => LastInv
<1> SUFFICES ASSUME Init PROVE LastInv
  OBVIOUS
<1>1. Len(Script[test]) > 1 /\ at = 1
  BY ScriptIs DEF Init
<1> QED
  BY <1>1, Steps DEF Init, LastInv

\* A test is at one of its steps or behind the last.
LEMMA Lengths ==
  ASSUME TypeOK
  PROVE  /\ test \in Tests /\ Len(Script[test]) \in Nat
         /\ DOMAIN Script[test] = 1..Len(Script[test])
         /\ at \in 1..Len(Script[test]) + 1
  BY Steps DEF TypeOK

LEMMA NodesLastInv == IInv /\ LastInv /\ Nodes => LastInv'
<1> SUFFICES ASSUME IInv, LastInv, Nodes PROVE LastInv'
  OBVIOUS
<1>0. TypeOK
  BY DEF IInv
<1>1. PICK s \in Services, id \in {nodeIDOf[t] : t \in Services} :
        Connect(s, id) \/ Notice(s, id) \/ Lose(s, id)
  BY DEF Nodes
<1>2. UNCHANGED <<test, at, nodeIDOf, remaining, running, staking, removed, result>>
  BY <1>1 DEF Connect, Notice, Lose, arguments, testVars
<1>3. CASE losses' = 0
  <2>1. losses = 0
    BY <1>0, <1>1, <1>3, LossesAssumption DEF TypeOK, Connect, Notice, Lose
  <2>2. ASSUME NEW t \in Services, HasPeers(t) PROVE HasPeers(t)'
    <3>1. WantedIDs(t)' = WantedIDs(t)
      BY <1>2 DEF WantedIDs, Wanted
    <3>2. CASE Connect(s, id)
      BY <1>0, <1>2, <2>2, <3>1, <3>2 DEF Connect, HasPeers, TypeOK
    <3>3. CASE Notice(s, id)
      <4>1. id \in {nodeIDOf[u] : u \in removed}
        BY <1>0, <3>3 DEF Notice, TypeOK
      <4>2. peers[t] \ {id} \subseteq peers'[t]
        BY <1>0, <3>3 DEF Notice, TypeOK
      <4> QED
        BY <1>2, <2>2, <3>1, <4>1, <4>2 DEF HasPeers
    <3>4. CASE Lose(s, id)
      BY <1>0, <1>3, <2>1, <3>4 DEF Lose
    <3> QED
      BY <1>1, <3>2, <3>3, <3>4
  <2> QED
    BY <1>0, <1>2, <2>1, <2>2 DEF LastInv, TypeOK
<1> QED
  BY <1>2, <1>3 DEF LastInv

LEMMA TestLastInv == IInv /\ LastInv /\ Test => LastInv'
<1> SUFFICES ASSUME IInv, LastInv, Test PROVE LastInv'
  OBVIOUS
<1>0. /\ TypeOK /\ NetworkInv /\ TypeOK' /\ NetworkInv'
      /\ UNCHANGED arguments /\ result = "running"
  BY TestIInv DEF IInv, Test, PeersAsExpected, PeersUnexpected, AllAsExpected, AddService,
       RemoveService, StartValidating, CallFails, Finish, At
<1> USE DEF arguments, networkVars
<1>1. ASSUME NEW s \in Services, PeersAsExpected(s) PROVE LastInv'
  <2>1. \A t \in Services : HasPeers(t)' = HasPeers(t)
    BY <1>1 DEF PeersAsExpected, HasPeers, WantedIDs, Wanted
  <2>2. at = Len(Script[test]) => HasPeers(s)
    <3> SUFFICES ASSUME at = Len(Script[test]) PROVE HasPeers(s)
      OBVIOUS
    <3>1. s \in running /\ at \in DOMAIN Script[test]
      BY <1>0, <1>1, LastRound DEF PeersAsExpected, TypeOK, AskedAt, NetworkInv
    <3>2. peers[s] = WantedIDs(s)
      BY <1>0, <1>1, <3>1, LastRound, AnswersInVerification
         DEF PeersAsExpected, Step, TypeOK
    <3> QED
      BY <3>2 DEF HasPeers
  <2>3. at >= Len(Script[test]) => at = Len(Script[test])
    BY <1>0, <1>1, Lengths DEF PeersAsExpected, At
  <2> QED
    BY <1>0, <1>1, <2>1, <2>2, <2>3 DEF PeersAsExpected, LastInv, TypeOK
<1>2. ASSUME AllAsExpected \/ AddService \/ RemoveService \/ StartValidating
      PROVE  LastInv'
  <2>1. Proceed /\ at \in DOMAIN Script[test]
    BY <1>2 DEF AllAsExpected, AddService, RemoveService, StartValidating, At
  <2>2. remaining' = AskedAt(at)' /\ at' = at + 1 /\ result' = "running"
    BY <1>0, <2>1, ProceedType DEF Proceed
  <2>3. CASE at = Len(Script[test])
    <3>1. AllAsExpected
      BY <1>0, <1>2, <2>3, LastRound
         DEF AddService, RemoveService, StartValidating, At, Step, TypeOK
    <3>2. remaining = {} /\ \A s \in Services : HasPeers(s)' = HasPeers(s)
      BY <3>1 DEF AllAsExpected, HasPeers, WantedIDs, Wanted
    <3> QED
      BY <1>0, <2>2, <2>3, <3>1, <3>2, Lengths DEF LastInv, AllAsExpected, TypeOK
  <2>4. CASE at' = Len(Script[test])
    <3>1. AskedAt(at)' = running'
      BY <1>0, <2>4, LastRound DEF AskedAt, NetworkInv, TypeOK
    <3> QED
      BY <2>2, <3>1 DEF LastInv
  <2>5. CASE at' < Len(Script[test])
    BY <1>0, <2>2, <2>5, Lengths DEF LastInv
  <2> QED
    BY <1>0, <2>1, <2>2, <2>3, <2>4, <2>5, Lengths
<1>3. ASSUME \/ \E s \in Services : PeersUnexpected(s)
             \/ CallFails
             \/ Finish
      PROVE  LastInv'
  <2>1. UNCHANGED <<at, remaining, losses, networkVars>>
    BY <1>3 DEF PeersUnexpected, CallFails, Finish
  <2>2. \A s \in Services : HasPeers(s)' = HasPeers(s)
    BY <1>0, <2>1 DEF HasPeers, WantedIDs, Wanted
  <2>3. result' = "passed" => at = Len(Script[test]) + 1
    BY <1>0, <1>3, Lengths DEF PeersUnexpected, CallFails, Finish
  <2> QED
    BY <1>0, <2>1, <2>2, <2>3 DEF LastInv, TypeOK
<1> QED
  BY <1>1, <1>2, <1>3 DEF Test

LEMMA NextLastInv == IInv /\ LastInv /\ [Next]_vars => LastInv'
<1>1. LastInv /\ UNCHANGED vars => LastInv'
  BY DEF vars, arguments, networkVars, testVars, LastInv, HasPeers, WantedIDs, Wanted
<1> QED
  BY <1>1, NodesLastInv, TestLastInv DEF Next

\* A test that has passed without a lost connection leaves every node with
\* every node it should have, whatever the boot nodes and the node IDs
\* (duplicate_node_id.go:166-172, fully_connected.go:92-95).
THEOREM PeerTestsPassMeansConnected == Spec => []PassMeansConnected
<1>1. Spec => []LastInv
  BY InitLastInv, NextLastInv, PeerTestsInvariant, PTL DEF Spec
<1>2. IInv /\ LastInv => PassMeansConnected
  <2> SUFFICES ASSUME IInv, LastInv, result = "passed", losses = 0
               PROVE  \A s \in running : HasPeers(s)
    BY DEF PassMeansConnected, HasPeers
  <2>1. TypeOK /\ at = Len(Script[test]) + 1
    BY DEF IInv, LastInv
  <2>2. remaining = {} /\ at >= Len(Script[test])
    BY <2>1, Lengths DEF TypeOK, AskedAt
  <2> QED
    BY <2>2 DEF LastInv
<1> QED
  BY <1>1, <1>2, PeerTestsInvariant, PTL
=============================================================================

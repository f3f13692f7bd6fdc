--------------------- MODULE NetworkStateVerifierProofs ---------------------
(***************************************************************************)
(* Proofs about NetworkStateVerifier for every network, every assignment   *)
(* of node IDs and every way the connections change.                       *)
(***************************************************************************)
EXTENDS NetworkStateVerifier, FiniteSetTheorems, TLAPS

\* Every service that has been asked had exactly the expected peers then;
\* without churn it has them still.
AskedInv ==
  /\ \A s \in Service \ remaining :
       /\ seen[s] = AcceptableNodeIDs(s)
       /\ seen[s] \subseteq Others(s)
       /\ ~churn => seen[s] \subseteq peers[s]
  /\ result = "passed" => remaining = {}

IInv == TypeOK /\ AskedInv

-----------------------------------------------------------------------------
\* The node IDs a service is expected to list are finitely many.
LEMMA AcceptableFinite ==
  ASSUME NEW s \in Service
  PROVE  IsFiniteSet(AcceptableNodeIDs(s))
<1>1. IsFiniteSet(Expected(s))
  <2>1. Expected(s) \subseteq Service
    BY DEF Expected
  <2> QED
    BY <2>1, ServiceAssumption, FS_Subset
<1> DEFINE f == [t \in Expected(s) |-> nodeIDOf[t]]
<1>2. f \in Surjection(Expected(s), AcceptableNodeIDs(s))
  BY DEF Surjection, AcceptableNodeIDs
<1> QED
  BY <1>1, <1>2, FS_Surjection

\* As many as expected and no stranger: just the expected ones.
LEMMA AsExpectedIsEquality ==
  ASSUME NEW s \in Service, AsExpected(s)
  PROVE  peers[s] = AcceptableNodeIDs(s)
<1>1. /\ peers[s] \subseteq AcceptableNodeIDs(s)
      /\ Cardinality(peers[s]) = Cardinality(AcceptableNodeIDs(s))
  BY DEF AsExpected, VerifyExpectedPeers
<1> QED
  BY <1>1, AcceptableFinite, FS_Subset

-----------------------------------------------------------------------------
\* The invariant holds before the first service is asked.
LEMMA InitIInv == Init => IInv
  BY DEF Init, IInv, TypeOK, AskedInv

\* Every step of the verifier and of the nodes preserves it.
LEMMA NextIInv == IInv /\ [Next]_vars => IInv'
<1> SUFFICES ASSUME IInv, [Next]_vars PROVE IInv'
  OBVIOUS
<1> USE DEF IInv, TypeOK, AskedInv, arguments, AcceptableNodeIDs, Expected, NodeIDs, Others
<1>1. ASSUME NEW s \in Service, PeersAsExpected(s)
      PROVE  IInv'
  <2>1. peers[s] = AcceptableNodeIDs(s)
    BY <1>1, AsExpectedIsEquality DEF PeersAsExpected
  <2> QED
    BY <1>1, <2>1 DEF PeersAsExpected
<1>2. ASSUME NEW s \in Service, PeersUnexpected(s) \/ CallFails(s)
      PROVE  IInv'
  BY <1>2 DEF PeersUnexpected, CallFails
<1>3. CASE AllAsExpected
  BY <1>3 DEF AllAsExpected
<1>4. ASSUME NEW s \in Service, NEW id \in NodeIDs, Connect(s, id)
      PROVE  IInv'
  BY <1>4 DEF Connect
<1>5. ASSUME NEW s \in Service, NEW id \in NodeIDs, Disconnect(s, id)
      PROVE  IInv'
  BY <1>5 DEF Disconnect
<1>6. CASE UNCHANGED vars
  BY <1>6 DEF vars
<1> QED
  BY <1>1, <1>2, <1>3, <1>4, <1>5, <1>6 DEF Next, Verifier, Nodes

LEMMA SpecIInv == Spec => []IInv
  BY InitIInv, NextIInv, PTL DEF Spec

-----------------------------------------------------------------------------
\* The verifier keeps its shape in every network.
THEOREM VerifierTypeOK == Spec => []TypeOK
<1>1. IInv => TypeOK
  BY DEF IInv
<1> QED
  BY <1>1, SpecIInv, PTL

\* Comparing the number of peers and looking for strangers is comparing the
\* two sets (network_state_verifier.go:96-123), for every network.
THEOREM VerifierPassMeansEachAsExpected == Spec => []PassMeansEachAsExpected
<1>1. IInv => PassMeansEachAsExpected
  BY DEF IInv, AskedInv, PassMeansEachAsExpected
<1> QED
  BY <1>1, SpecIInv, PTL

\* If no connection is lost meanwhile, asking one service after the other is
\* as good as asking all at once: a pass means a fully connected network.
THEOREM VerifierPassMeansFullyConnected == Spec => []PassMeansFullyConnected
<1>1. IInv => PassMeansFullyConnected
  BY DEF IInv, AskedInv, PassMeansFullyConnected
<1> QED
  BY <1>1, SpecIInv, PTL

\* No network in which a staker shares its node ID ever passes.
THEOREM VerifierDuplicateStakerNeverPasses ==
  Spec => []DuplicateStakerNeverPasses
<1>1. IInv => DuplicateStakerNeverPasses
  <2> SUFFICES ASSUME IInv, result = "passed",
                      NEW s \in Stakers \cap Service, NEW t \in Service,
                      s # t, nodeIDOf[s] = nodeIDOf[t]
               PROVE  FALSE
    BY DEF DuplicateStakerNeverPasses
  <2>1. nodeIDOf[s] \in AcceptableNodeIDs(s)
    BY DEF AcceptableNodeIDs, Expected
  <2> QED
    BY <2>1 DEF IInv, AskedInv, Others
<1> QED
  BY <1>1, SpecIInv, PTL
=============================================================================

--------------------- MODULE ConflictingTxsVertexProofs ---------------------
(***************************************************************************)
(* Proofs about ConflictingTxsVertex, for nodes of every conduct.          *)
(***************************************************************************)
EXTENDS ConflictingTxsVertex, TLAPS

Issuing == {"issueNonConflict", "issueConflict1", "issueConflict2"}
Judging == {"readConflict1", "readConflict2", "judge"}
Judged == {"issueVirtuous", "await", "readVerdict"}

\* Nothing is accepted or read before the last of the batch is issued.
BatchInv ==
  pc \in Issuing =>
    /\ byzantine["conflictID2"] = "Unknown"
    /\ \A t \in TxIDs : byzantine[t] # "Accepted"
    /\ \A t \in Conflicting : read[t] = "none"

\* A conflicting transaction is accepted after the one it spends from, and
\* what was read as accepted is.
ByzantineInv ==
  /\ BatchDecided => byzantine["nonConflictID"] = "Accepted"
  /\ pc \in Judging => byzantine["nonConflictID"] = "Accepted"
  /\ \A t \in Conflicting : read[t] = "Accepted" => byzantine[t] = "Accepted"

FinalInv ==
  pc = "readVerdict" =>
    /\ read["virtuousTxID"] = "Accepted"
    /\ virtuous["virtuousTxID"] = "Accepted"

IInv ==
  /\ TypeOK
  /\ pc = "returned" <=> result # "running"
  /\ BatchInv
  /\ ByzantineInv
  /\ VertexWasIssued
  /\ FinalInv
  /\ NilMeansJudged

-----------------------------------------------------------------------------
LEMMA InitIInv == Init => IInv
  BY DEF Init, IInv, TypeOK, BatchInv, ByzantineInv, VertexWasIssued, FinalInv,
         NilMeansJudged, BatchDecided, Steps, Statuses, TxIDs, Batch,
         Conflicting, Issuing, Judging

\* Every name the steps use.
LEMMA Names ==
  /\ TxIDs = {"nonConflictID", "conflictID1", "conflictID2", "virtuousTxID"}
  /\ Conflicting = {"conflictID1", "conflictID2"}
  BY DEF TxIDs, Batch, Conflicting

\* A step of the test leaves the nodes' conduct and, but for what it issues,
\* their statuses alone.
LEMMA IssueIInv ==
  ASSUME IInv, IssueBatch
  PROVE  IInv'
<1> USE Names DEF IInv, TypeOK, BatchInv, ByzantineInv, VertexWasIssued, FinalInv,
                  NilMeansJudged, BatchDecided, Issuing, Judging, Steps,
                  Statuses, conduct, Issue, Go
<1>1. CASE Issue("issueNonConflict", "issueConflict1", "nonConflictID")
  BY <1>1
<1>2. CASE Issue("issueConflict1", "issueConflict2", "conflictID1")
  BY <1>2
<1>3. CASE Issue("issueConflict2", "readNonConflict", "conflictID2")
  BY <1>3
<1> QED
  BY <1>1, <1>2, <1>3 DEF IssueBatch

LEMMA TestIInv ==
  ASSUME IInv, Test
  PROVE  IInv'
<1> USE Names DEF IInv, TypeOK, BatchInv, ByzantineInv, VertexWasIssued, FinalInv,
                  NilMeansJudged, BatchDecided, Issuing, Judging, Steps,
                  Statuses, conduct, Go, Return
<1>1. CASE IssueBatch
  BY <1>1, IssueIInv
<1>2. CASE ReadNonConflict
  BY <1>2 DEF ReadNonConflict, ByzantineAnswers
<1>3. CASE ReadConflicts
  <2>1. CASE ReadConflict("readConflict1", "readConflict2", "conflictID1")
    BY <2>1 DEF ReadConflict
  <2>2. CASE ReadConflict("readConflict2", "judge", "conflictID2")
    BY <2>2 DEF ReadConflict
  <2> QED
    BY <1>3, <2>1, <2>2 DEF ReadConflicts
<1>4. CASE Judge
  BY <1>4 DEF Judge
<1>5. CASE IssueVirtuous
  BY <1>5 DEF IssueVirtuous
<1>6. CASE AwaitVirtuous
  BY <1>6 DEF AwaitVirtuous
<1>7. CASE ReadVerdict
  BY <1>7 DEF ReadVerdict
<1>8. CASE CallFails
  BY <1>8 DEF CallFails
<1> QED
  BY <1>1, <1>2, <1>3, <1>4, <1>5, <1>6, <1>7, <1>8 DEF Test

\* A node's step changes one node's statuses, and takes no acceptance back.
LEMMA NodesIInv ==
  ASSUME IInv, Nodes
  PROVE  IInv'
<1> USE Names DEF IInv, TypeOK, BatchInv, ByzantineInv, VertexWasIssued, FinalInv,
                  NilMeansJudged, BatchDecided, Issuing, Judging, Steps,
                  Statuses, conduct, Acceptable, Hopeless
<1>1. ASSUME NEW t \in TxIDs, ByzantineAccepts(t) PROVE IInv'
  BY <1>1 DEF ByzantineAccepts
<1>2. ASSUME NEW t \in TxIDs, ByzantineRejects(t) PROVE IInv'
  BY <1>2 DEF ByzantineRejects
<1>3. ASSUME NEW t \in TxIDs, VirtuousAccepts(t) PROVE IInv'
  BY <1>3 DEF VirtuousAccepts
<1>4. ASSUME NEW t \in TxIDs, VirtuousRejects(t) PROVE IInv'
  BY <1>4 DEF VirtuousRejects
<1>5. CASE VertexPushed
  BY <1>5 DEF VertexPushed, Batch
<1> QED
  BY <1>1, <1>2, <1>3, <1>4, <1>5 DEF Nodes

LEMMA NextIInv == IInv /\ [Next]_vars => IInv'
<1> SUFFICES ASSUME IInv, [Next]_vars PROVE IInv'
  OBVIOUS
<1>1. CASE UNCHANGED vars
  BY <1>1 DEF vars, conduct, IInv, TypeOK, BatchInv, ByzantineInv,
              VertexWasIssued, FinalInv, NilMeansJudged, BatchDecided
<1> QED
  BY <1>1, TestIInv, NodesIInv DEF Next

LEMMA VertexInvariant == Spec => []IInv
<1> QED
  BY InitIInv, NextIInv, PTL DEF Spec

-----------------------------------------------------------------------------
\* The test and the nodes keep their shape (conflictvtx/executor.go:41-161).
THEOREM VertexTypeOK == Spec => []TypeOK
<1>1. IInv => TypeOK
  BY DEF IInv
<1> QED
  BY <1>1, VertexInvariant, PTL

\* However the three statuses change between their readings, the test goes on
\* to the virtuous node only with a conflicting transaction accepted, and what
\* it spends (conflictvtx/executor.go:84-112).
THEOREM VertexIsIssued == Spec => []VertexWasIssued
<1>1. IInv => VertexWasIssued
  BY DEF IInv
<1> QED
  BY <1>1, VertexInvariant, PTL

\* The nil error of the early return is out of reach for a byzantine node that
\* does not lag (conflictvtx/executor.go:88-90).
THEOREM VertexNilMeansJudged == Spec => []NilMeansJudged
<1>1. IInv => NilMeansJudged
  BY DEF IInv
<1> QED
  BY <1>1, VertexInvariant, PTL

\* The verdict is read after the virtuous transaction is final
\* (conflictvtx/executor.go:118-120).
THEOREM VertexVerdictAfterFinality == Spec => VerdictAfterFinality
<1>1. IInv => (pc = "readVerdict" /\ result' = "nil" =>
                 virtuous["virtuousTxID"] = "Accepted")
  BY DEF IInv, FinalInv
<1> QED
  BY <1>1, VertexInvariant, PTL DEF VerdictAfterFinality
=============================================================================

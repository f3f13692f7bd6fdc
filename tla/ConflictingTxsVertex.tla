------------------------ MODULE ConflictingTxsVertex ------------------------
(***************************************************************************)
(* The ExecuteTest of the conflicting-transactions-vertex test: it makes a *)
(* byzantine node issue a vertex with two conflicting transactions, waits  *)
(* on a virtuous node for a transaction of its own as a measure of time,   *)
(* and then looks whether the virtuous node dropped the vertex.            *)
(*                                                                         *)
(* Every status is read by a call of its own, and may change before the    *)
(* test acts on it.                                                        *)
(***************************************************************************)
Conflicting == {"conflictID1", "conflictID2"}
Batch == {"nonConflictID"} \cup Conflicting
TxIDs == Batch \cup {"virtuousTxID"}
Statuses == {"Unknown", "Processing", "Accepted", "Rejected"}

Steps == {"issueNonConflict", "issueConflict1", "issueConflict2",
          "readNonConflict", "readConflict1", "readConflict2", "judge",
          "issueVirtuous", "await", "readVerdict", "returned"}

VARIABLES
  callsFail,        \* a call on a node may fail
  byzantineLags,    \* the byzantine node may answer before it has decided
  virtuousIssues,   \* the virtuous node may issue the bad vertex
  pc,         \* the next step of ExecuteTest
  byzantine,  \* the status of each transaction on the byzantine node
  virtuous,   \* and on the virtuous node
  read,       \* the status the test has read for each, "none" if it has not
  result      \* "running", "nil", "noConflictAccepted" or "callFailed"

\* How the nodes behave, in one behaviour of the specification.
conduct == <<callsFail, byzantineLags, virtuousIssues>>

vars == <<conduct, pc, byzantine, virtuous, read, result>>

Init ==
  /\ callsFail \in BOOLEAN
  /\ byzantineLags \in BOOLEAN
  /\ virtuousIssues \in BOOLEAN
  /\ pc = "issueNonConflict"
  /\ byzantine = [t \in TxIDs |-> "Unknown"]
  /\ virtuous = [t \in TxIDs |-> "Unknown"]
  /\ read = [t \in TxIDs |-> "none"]
  /\ result = "running"

-----------------------------------------------------------------------------
(* Faulty variants of the steps below.                                     *)

\* Wants both conflicting transactions to be accepted.
JudgeBoth ==
  /\ pc = "judge"
  /\ IF \E t \in Conflicting : read[t] # "Accepted"
       THEN pc' = "returned" /\ result' = "noConflictAccepted"
       ELSE pc' = "issueVirtuous" /\ UNCHANGED result
  /\ UNCHANGED <<conduct, byzantine, virtuous, read>>

\* Is content with a conflicting transaction that is not rejected.
JudgeNotRejected ==
  /\ pc = "judge"
  /\ IF \A t \in Conflicting : read[t] = "Rejected"
       THEN pc' = "returned" /\ result' = "noConflictAccepted"
       ELSE pc' = "issueVirtuous" /\ UNCHANGED result
  /\ UNCHANGED <<conduct, byzantine, virtuous, read>>

\* Reads the verdict before the virtuous transaction is final.
AwaitVirtuousOnce ==
  /\ pc = "await"
  /\ pc' = "readVerdict"
  /\ read' = [read EXCEPT !["virtuousTxID"] = virtuous["virtuousTxID"]]
  /\ UNCHANGED <<conduct, byzantine, virtuous, result>>

\* Records a status the node does not have.
IssueSetsNone(from, to, t) ==
  /\ pc = from
  /\ pc' = to
  /\ byzantine' = [byzantine EXCEPT ![t] = "none"]
  /\ UNCHANGED <<conduct, virtuous, read, result>>

-----------------------------------------------------------------------------
(* The test.                                                               *)

Go(from, to) == pc = from /\ pc' = to

Return(r) == pc' = "returned" /\ result' = r

\* IssueTx on the byzantine node.
Issue(from, to, t) ==
  /\ Go(from, to)
  /\ byzantine' = [byzantine EXCEPT ![t] = "Processing"]
  /\ UNCHANGED <<conduct, virtuous, read, result>>

IssueBatch ==
  \/ Issue("issueNonConflict", "issueConflict1", "nonConflictID")
  \/ Issue("issueConflict1", "issueConflict2", "conflictID1")
  \/ Issue("issueConflict2", "readNonConflict", "conflictID2")

\* The byzantine node has accepted what it can of the batch.
BatchDecided == \E t \in Conflicting : byzantine[t] = "Accepted"

\* A byzantine node that does not lag decides before it answers.
ByzantineAnswers == byzantineLags \/ BatchDecided

\* If it is not accepted the test returns an error built from a nil cause,
\* which is nil.
ReadNonConflict ==
  /\ pc = "readNonConflict"
  /\ ByzantineAnswers
  /\ read' = [read EXCEPT !["nonConflictID"] = byzantine["nonConflictID"]]
  /\ IF byzantine["nonConflictID"] # "Accepted"
       THEN Return("nil")
       ELSE pc' = "readConflict1" /\ UNCHANGED result
  /\ UNCHANGED <<conduct, byzantine, virtuous>>

ReadConflict(from, to, t) ==
  /\ Go(from, to)
  /\ ByzantineAnswers
  /\ read' = [read EXCEPT ![t] = byzantine[t]]
  /\ UNCHANGED <<conduct, byzantine, virtuous, result>>

ReadConflicts ==
  \/ ReadConflict("readConflict1", "readConflict2", "conflictID1")
  \/ ReadConflict("readConflict2", "judge", "conflictID2")

Judge ==
  /\ pc = "judge"
  /\ IF \A t \in Conflicting : read[t] # "Accepted"
       THEN Return("noConflictAccepted")
       ELSE pc' = "issueVirtuous" /\ UNCHANGED result
  /\ UNCHANGED <<conduct, byzantine, virtuous, read>>

IssueVirtuous ==
  /\ Go("issueVirtuous", "await")
  /\ virtuous' = [virtuous EXCEPT !["virtuousTxID"] = "Processing"]
  /\ UNCHANGED <<conduct, byzantine, read, result>>

\* One turn of the loop, which has no deadline.
AwaitVirtuous ==
  /\ pc = "await"
  /\ read' = [read EXCEPT !["virtuousTxID"] = virtuous["virtuousTxID"]]
  /\ pc' = IF virtuous["virtuousTxID"] = "Accepted" THEN "readVerdict" ELSE pc
  /\ UNCHANGED <<conduct, byzantine, virtuous, result>>

\* If the virtuous node has accepted the transaction of the bad vertex, the
\* test returns an error built from a nil cause; otherwise it returns nil.
ReadVerdict ==
  /\ pc = "readVerdict"
  /\ read' = [read EXCEPT !["nonConflictID"] = virtuous["nonConflictID"]]
  /\ Return("nil")
  /\ UNCHANGED <<conduct, byzantine, virtuous>>

CallFails ==
  /\ callsFail
  /\ pc \notin {"judge", "returned"}
  /\ Return("callFailed")
  /\ UNCHANGED <<conduct, byzantine, virtuous, read>>

Test ==
  \/ IssueBatch
  \/ ReadNonConflict
  \/ ReadConflicts
  \/ Judge
  \/ IssueVirtuous
  \/ AwaitVirtuous
  \/ ReadVerdict
  \/ CallFails

-----------------------------------------------------------------------------
(* The nodes, which this repository only talks to.                         *)

\* A transaction can be accepted after the one it spends from, and instead
\* of the one it conflicts with.
Acceptable(status, t) ==
  /\ status[t] = "Processing"
  /\ t \in Conflicting =>
       /\ status["nonConflictID"] = "Accepted"
       /\ \A u \in Conflicting : status[u] # "Accepted"

\* "The byzantine behavior is to batch the pending transactions into a
\* vertex as soon as it detects a conflict", and to accept each.
ByzantineAccepts(t) ==
  /\ byzantine["conflictID2"] # "Unknown"
  /\ Acceptable(byzantine, t)
  /\ byzantine' = [byzantine EXCEPT ![t] = "Accepted"]
  /\ UNCHANGED <<conduct, pc, virtuous, read, result>>

\* "It will fail to accept one due to the missing UTXO."
Hopeless(status, t) ==
  /\ t \in Conflicting
  /\ status[t] = "Processing"
  /\ \E u \in Conflicting : status[u] = "Accepted"

ByzantineRejects(t) ==
  /\ Hopeless(byzantine, t)
  /\ byzantine' = [byzantine EXCEPT ![t] = "Rejected"]
  /\ UNCHANGED <<conduct, pc, virtuous, read, result>>

\* The vertex reaches the virtuous node, which parses its transactions.
VertexPushed ==
  /\ BatchDecided
  /\ virtuous["nonConflictID"] = "Unknown"
  /\ virtuous' = [t \in TxIDs |->
                    IF t \in Batch THEN "Processing" ELSE virtuous[t]]
  /\ UNCHANGED <<conduct, pc, byzantine, read, result>>

VirtuousAccepts(t) ==
  /\ t \in Batch => virtuousIssues
  /\ Acceptable(virtuous, t)
  /\ virtuous' = [virtuous EXCEPT ![t] = "Accepted"]
  /\ UNCHANGED <<conduct, pc, byzantine, read, result>>

VirtuousRejects(t) ==
  /\ Hopeless(virtuous, t)
  /\ virtuous' = [virtuous EXCEPT ![t] = "Rejected"]
  /\ UNCHANGED <<conduct, pc, byzantine, read, result>>

Nodes ==
  \/ \E t \in TxIDs : ByzantineAccepts(t) \/ VirtuousAccepts(t)
  \/ \E t \in TxIDs : ByzantineRejects(t) \/ VirtuousRejects(t)
  \/ VertexPushed

Next == Test \/ Nodes

\* The test runs, and each node accepts what it can.
Spec ==
  /\ Init
  /\ [][Next]_vars
  /\ WF_vars(Test)
  /\ \A t \in TxIDs : WF_vars(ByzantineAccepts(t))
  /\ \A t \in TxIDs : WF_vars(VirtuousAccepts(t))

-----------------------------------------------------------------------------
(* Properties.                                                             *)

\* The statuses and what the test has read of them are well formed
\* (conflictvtx/executor.go:41-161).
TypeOK ==
  /\ {callsFail, byzantineLags, virtuousIssues} \subseteq BOOLEAN
  /\ pc \in Steps
  /\ byzantine \in [TxIDs -> Statuses]
  /\ virtuous \in [TxIDs -> Statuses]
  /\ read \in [TxIDs -> Statuses \cup {"none"}]
  /\ result \in {"running", "nil", "noConflictAccepted", "callFailed"}

\* The test goes on to the virtuous node only when the byzantine node has
\* accepted one of the conflicting transactions and what it spends,
\* although it has read the three statuses at three different times
\* (conflictvtx/executor.go:84-112).
VertexWasIssued ==
  pc \in {"issueVirtuous", "await", "readVerdict"} =>
    /\ byzantine["nonConflictID"] = "Accepted"
    /\ \E t \in Conflicting : byzantine[t] = "Accepted"

\* The verdict is read after the virtuous transaction is final: "confirm the
\* valid transaction as a measure of the time to finality before checking"
\* (conflictvtx/executor.go:118-120).
VerdictAfterFinality ==
  [][pc = "readVerdict" /\ result' = "nil" =>
       virtuous["virtuousTxID"] = "Accepted"]_vars

\* A byzantine node that does not lag leaves the test no way to return nil
\* before the virtuous transaction is accepted: the early return for a
\* transaction that is not accepted, whose error is nil, is then out of reach
\* (conflictvtx/executor.go:88-90, 134-144).
NilMeansJudged ==
  result = "nil" /\ ~byzantineLags => read["virtuousTxID"] = "Accepted"

\* If the nodes behave as the comments say and no call fails, the test ends
\* and returns nil: a byzantine node that accepts one of the two conflicting
\* transactions is enough (conflictvtx/executor.go:108-112, 134-160).
GoodNetworkPasses ==
  ~callsFail /\ ~byzantineLags /\ ~virtuousIssues => <>(result = "nil")

\* "If the transaction was Accepted, the test should fail"
\* (conflictvtx/executor.go:155): the test does not pass when the virtuous
\* node tells it that it has accepted the transaction of the bad vertex.
PassMeansVertexDropped ==
  pc = "returned" /\ read["virtuousTxID"] = "Accepted" /\ result = "nil" =>
    read["nonConflictID"] # "Accepted"
=============================================================================

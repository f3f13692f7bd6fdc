------------------------ MODULE WorkflowRunnerProofs ------------------------
(***************************************************************************)
(* Proofs about WorkflowRunner for every program, every set of nodes and   *)
(* every way the network may fail.                                         *)
(***************************************************************************)
EXTENDS WorkflowRunner, TLAPS

\* The runner has waited, on the node it issued it on, for every transaction
\* behind it; nothing ahead of it has been issued.
ProgressInv ==
  /\ \A k \in Txs : k < pc => k \in view[program[k].node]
  /\ \A k \in issued : k <= pc
  /\ pc \in issued /\ result = "running" => awaiting
  /\ awaiting => pc \in Txs

IInv == TypeOK /\ ProgressInv

-----------------------------------------------------------------------------
(* Facts about the state functions of the model.                           *)

\* A test runs one program from beginning to end.
LEMMA SameProgram ==
  [Next]_vars =>
    /\ program' = program
    /\ Calls' = Calls
    /\ Txs' = Txs
    /\ Nodes' = Nodes
    /\ Users' = Users
    /\ Accounts' = Accounts
<1> SUFFICES ASSUME [Next]_vars PROVE program' = program
  BY DEF Calls, Txs, Nodes, Users, Accounts, CallsTo
<1> USE DEF vars, runnerVars, networkVars, Stop
<1>1. CASE UNCHANGED vars
  BY <1>1
<1>2. CASE Network
  BY <1>2 DEF Network, Accept, Reject
<1>3. CASE DoCreateUser \/ DoAddKey \/ DoGetNodeID \/ IssueTx \/ CallFails
  BY <1>3 DEF DoCreateUser, DoAddKey, DoGetNodeID, IssueTx, CallFails
<1>4. CASE TxAccepted \/ TxAbandoned \/ WaitTimesOut \/ WaitFails
  BY <1>4 DEF TxAccepted, TxAbandoned, WaitTimesOut, WaitFails
<1>5. CASE BalanceAsExpected \/ BalanceMismatch \/ Finish
  BY <1>5 DEF BalanceAsExpected, BalanceMismatch, Finish
<1>6. CASE \/ ValidatorsConverted \/ ValidatorsAsExpected
           \/ ValidatorNotConverted \/ ValidatorsMismatch
  BY <1>6 DEF ValidatorsConverted, ValidatorsAsExpected,
              ValidatorNotConverted, ValidatorsMismatch
<1> QED
  BY <1>1, <1>2, <1>3, <1>4, <1>5, <1>6 DEF Next, Runner

\* A transaction is a call of the program, between accounts of the program.
LEMMA TxFacts ==
  ASSUME TypeOK, NEW k \in Txs
  PROVE  /\ k \in Calls
         /\ k \in Nat /\ k >= 1
         /\ program[k].from \in Accounts
         /\ program[k].to \in Accounts
         /\ program[k].node \in Nodes
  BY ProgramAssumption DEF TypeOK, Txs, Calls, TxsOf, CallsOf, Accounts, Nodes

\* Moving funds an account has from it to another keeps balances natural.
LEMMA MoveType ==
  ASSUME NEW S, NEW b \in [S -> Nat], NEW from \in S, NEW to \in S,
         NEW x \in Nat, x <= b[from]
  PROVE  [b EXCEPT ![from] = @ - x, ![to] = @ + x] \in [S -> Nat]
<1> DEFINE c == [b EXCEPT ![from] = @ - x]
<1>1. b[from] - x \in Nat
  OBVIOUS
<1>2. c \in [S -> Nat]
  BY <1>1
<1>3. [c EXCEPT ![to] = @ + x] \in [S -> Nat]
  BY <1>2
<1> QED
  BY <1>3

\* What a transaction moves is a natural number.
LEMMA WantedType ==
  ASSUME TypeOK, pc \in Txs
  PROVE  Wanted \in Nat
<1>1. Call.amount \in Nat \cup {Everything}
  BY ProgramAssumption DEF Call, TypeOK, Txs
<1>2. bal[Call.node][Call.from] \in Nat
  BY TxFacts DEF TypeOK, Call
<1> QED
  BY <1>1, <1>2 DEF Wanted, Everything

-----------------------------------------------------------------------------
\* The invariant holds before the first call.
LEMMA InitIInv == Init => IInv
<1> SUFFICES ASSUME Init PROVE IInv
  OBVIOUS
<1> USE NetworkAssumption, ProgramAssumption DEF Init
<1>1. TypeOK
  <2>1. bal \in [Nodes -> [Accounts -> Nat]]
    OBVIOUS
  <2>2. pc \in 1..Len(program) + 1
    OBVIOUS
  <2> QED
    BY <2>1, <2>2 DEF TypeOK, Results
<1>2. ProgressInv
  BY DEF ProgressInv, Txs, TxsOf, CallsOf
<1> QED
  BY <1>1, <1>2 DEF IInv

\* A node that accepts a transaction, or the network that gives one up,
\* leaves the runner alone and only adds to the views.
LEMMA NetworkIInv == IInv /\ Network => IInv'
<1> SUFFICES ASSUME IInv, Network PROVE IInv'
  OBVIOUS
<1>s. /\ program' = program /\ Calls' = Calls /\ Txs' = Txs
      /\ Nodes' = Nodes /\ Users' = Users /\ Accounts' = Accounts
  BY SameProgram DEF Next
<1> USE <1>s
<1> USE DEF IInv
<1>1. ASSUME NEW n \in Nodes, NEW k \in Txs, Accept(n, k)
      PROVE  IInv'
  <2> USE <1>1 DEF Accept
  <2>1. bal' \in [Nodes -> [Accounts -> Nat]]
    <3>1. amount[k] \in Nat /\ amount[k] <= bal[n][program[k].from]
      BY TxFacts DEF TypeOK
    <3>2. [bal[n] EXCEPT ![program[k].from] = @ - amount[k],
                         ![program[k].to] = @ + amount[k]] \in [Accounts -> Nat]
      BY <3>1, TxFacts, MoveType DEF TypeOK
    <3>3. bal' = [bal EXCEPT ![n] =
                    [bal[n] EXCEPT ![program[k].from] = @ - amount[k],
                                   ![program[k].to] = @ + amount[k]]]
      BY TxFacts DEF TypeOK
    <3> QED
      BY <3>2, <3>3 DEF TypeOK
  <2>2. TypeOK'
    BY <2>1 DEF TypeOK, runnerVars
  <2>3. ProgressInv'
    BY TxFacts DEF TypeOK, ProgressInv, runnerVars, Call
  <2> QED
    BY <2>2, <2>3
<1>2. ASSUME NEW k \in Txs, Reject(k)
      PROVE  IInv'
  BY <1>2 DEF Reject, TypeOK, ProgressInv, runnerVars
<1> QED
  BY <1>1, <1>2 DEF Network

\* After a call comes the next one, or the end.
LEMMA NextCall ==
  ASSUME IInv, pc \in Calls
  PROVE  /\ pc \in Nat
         /\ \A k \in issued : k <= pc + 1 /\ k # pc + 1
         /\ pc + 1 \in 1..Len(program) + 1
         /\ \A k \in Txs : k < pc + 1 => k < pc \/ k = pc
         /\ pc \in Txs <=> Call.op = "tx"
<1> USE ProgramAssumption
    DEF IInv, ProgressInv, TypeOK, Calls, Txs, TxsOf, CallsOf, Call
<1>1. pc \in Nat /\ Len(program) \in Nat /\ 1 <= pc /\ pc <= Len(program)
  OBVIOUS
<1>2. pc + 1 \in 1..Len(program) + 1
  BY <1>1
<1>3. \A k \in Txs : k \in Nat
  OBVIOUS
<1>4. \A k \in Txs : k < pc + 1 => k < pc \/ k = pc
  BY <1>1, <1>3
<1>5. pc \in Txs <=> Call.op = "tx"
  OBVIOUS
<1>6. \A k \in issued : k <= pc + 1 /\ k # pc + 1
  BY <1>1, <1>3
<1> QED
  BY <1>1, <1>2, <1>4, <1>5, <1>6

\* Every step of the runner preserves it.
LEMMA RunnerIInv == IInv /\ Runner => IInv'
<1> SUFFICES ASSUME IInv, Runner PROVE IInv'
  OBVIOUS
<1>s. /\ program' = program /\ Calls' = Calls /\ Txs' = Txs
      /\ Nodes' = Nodes /\ Users' = Users /\ Accounts' = Accounts
  BY SameProgram DEF Next
<1> USE <1>s
<1> USE NextCall
    DEF IInv, TypeOK, ProgressInv, Call, At, Proceed, Stop, networkVars,
        Results
<1>1. CASE DoCreateUser
  <2>1. program[pc].user \in Users
    BY <1>1 DEF DoCreateUser, Users, CallsTo
  <2>2. users' \in [Nodes -> SUBSET Users]
    BY <1>1, <2>1 DEF DoCreateUser
  <2> QED
    BY <1>1, <2>2 DEF DoCreateUser
<1>2. CASE DoAddKey
  <2>1. program[pc].user \in Users /\ program[pc].account \in Accounts
    BY <1>2 DEF DoAddKey, Users, Accounts, CallsTo
  <2>2. keys' \in [Nodes -> SUBSET (Users \X Accounts)]
    <3> DEFINE new == <<program[pc].user, program[pc].account>>
    <3>1. new \in Users \X Accounts
      BY <2>1
    <3>2. keys' = [keys EXCEPT ![program[pc].node] = @ \cup {new}]
      BY <1>2 DEF DoAddKey
    <3>3. keys \in [Nodes -> SUBSET (Users \X Accounts)]
      OBVIOUS
    <3> HIDE DEF new
    <3> QED
      BY ONLY <3>1, <3>2, <3>3, <1>s
  <2>3. UNCHANGED <<users, issued, amount, base, view, bal, rejected, faults>>
    BY <1>2 DEF DoAddKey
  <2>4. pc' = pc + 1 /\ awaiting' = awaiting /\ result' = result
    BY <1>2 DEF DoAddKey
  <2>5. pc \in Calls /\ pc \notin Txs /\ ~awaiting
    BY <1>2 DEF DoAddKey
  <2>6. TypeOK'
    BY <2>2, <2>3, <2>4, <2>5
  <2>7. ProgressInv'
    BY <2>3, <2>4, <2>5
  <2> QED
    BY <2>6, <2>7
<1>3. CASE DoGetNodeID
  BY <1>3 DEF DoGetNodeID
<1>4. CASE IssueTx
  <2>1. pc \in Txs /\ Txs \subseteq Calls
    BY <1>4 DEF IssueTx, Txs, TxsOf, Calls
  <2>2. amount' \in [Calls -> Nat]
    BY <1>4, <2>1, WantedType DEF IssueTx
  <2>3. base' \in [Calls -> SUBSET issued']
    <3>1. {j \in view[Call.node] : Touches(j, Call.from)} \subseteq issued'
      BY <1>4, <2>1, TxFacts DEF IssueTx
    <3> QED
      BY <1>4, <2>1, <3>1 DEF IssueTx
  <2>4. view' \in [Nodes -> SUBSET issued'] /\ issued' \subseteq Txs
    BY <1>4, <2>1 DEF IssueTx
  <2> QED
    BY <1>4, <2>1, <2>2, <2>3, <2>4 DEF IssueTx
<1>5. CASE CallFails
  <2>1. CASE Call.op = "tx" /\ Call.masked
    BY <1>5, <2>1 DEF CallFails
  <2>2. CASE ~(Call.op = "tx" /\ Call.masked)
    BY <1>5, <2>2 DEF CallFails
  <2> QED
    BY <2>1, <2>2
<1>6. CASE TxAccepted
  <2>1. pc \in Calls
    BY <1>6, TxFacts DEF TxAccepted
  <2> QED
    BY <1>6, <2>1 DEF TxAccepted
<1>7. CASE TxAbandoned \/ WaitTimesOut \/ WaitFails
  BY <1>7 DEF TxAbandoned, WaitTimesOut, WaitFails
<1>8. CASE BalanceAsExpected
  BY <1>8 DEF BalanceAsExpected
<1>9. CASE BalanceMismatch
  BY <1>9 DEF BalanceMismatch
<1>10. CASE ValidatorsConverted \/ ValidatorsAsExpected
  <2>1. /\ pc \in Calls /\ pc \notin Txs /\ ~awaiting
        /\ pc' = pc + 1 /\ UNCHANGED <<awaiting, result, users, keys>>
        /\ UNCHANGED <<issued, amount, base, view, bal, rejected, faults>>
    BY <1>10 DEF ValidatorsConverted, ValidatorsAsExpected
  <2>2. TypeOK'
    BY <2>1
  <2>3. ProgressInv'
    BY <2>1
  <2> QED
    BY <2>2, <2>3
<1>11. CASE ValidatorNotConverted
  <2>1. Call.unconverted \in {"passed", "nilFatal"}
    BY <1>11, ProgramAssumption DEF ValidatorNotConverted, Calls
  <2> QED
    BY <1>11, <2>1 DEF ValidatorNotConverted
<1>12. CASE ValidatorsMismatch
  BY <1>12 DEF ValidatorsMismatch
<1>13. CASE Finish
  BY <1>13 DEF Finish
<1> QED
  BY <1>1, <1>2, <1>3, <1>4, <1>5, <1>6, <1>7, <1>8, <1>9, <1>10, <1>11,
     <1>12, <1>13
  DEF Runner

LEMMA SpecIInv == Spec => []IInv
<1>1. IInv /\ [Next]_vars => IInv'
  <2>1. IInv /\ UNCHANGED vars => IInv'
    BY SameProgram
    DEF IInv, TypeOK, ProgressInv, vars, runnerVars, networkVars, Call
  <2> QED
    BY <2>1, NetworkIInv, RunnerIInv DEF Next
<1> QED
  BY <1>1, InitIInv, PTL DEF Spec

-----------------------------------------------------------------------------
\* Whatever the program and the faults, no balance becomes negative and only
\* issued transactions are accepted, rejected or built on.
THEOREM RunnerTypeOK == Spec => []TypeOK
<1>1. IInv => TypeOK
  BY DEF IInv
<1> QED
  BY <1>1, SpecIInv, PTL

\* A program that gets to its end has had all its transactions accepted by
\* the nodes it issued them on, for every program and every fault.
THEOREM RunnerEndMeansComplete == Spec => []EndMeansComplete
<1>1. IInv => EndMeansComplete
  BY ProgramAssumption DEF IInv, ProgressInv, EndMeansComplete, TypeOK,
      Txs, Calls, TxsOf, CallsOf
<1> QED
  BY <1>1, SpecIInv, PTL

-----------------------------------------------------------------------------
\* If every reply can be converted, a program ends in success only when it
\* has made its last call.
PassedInv == result = "passed" => pc = Len(program) + 1

LEMMA PassedStep ==
  ASSUME ConvertibleReplies = {TRUE}
  PROVE  IInv /\ PassedInv /\ [Next]_vars => PassedInv'
<1> SUFFICES ASSUME IInv, PassedInv, [Next]_vars PROVE PassedInv'
  OBVIOUS
<1>s. program' = program
  BY SameProgram
<1> USE <1>s DEF PassedInv, At, Proceed, Stop, networkVars, runnerVars
<1>1. CASE UNCHANGED vars
  BY <1>1 DEF vars
<1>2. CASE Network
  BY <1>2 DEF Network, Accept, Reject
<1>3. CASE DoCreateUser \/ DoAddKey \/ DoGetNodeID \/ IssueTx \/ TxAccepted
  BY <1>3 DEF DoCreateUser, DoAddKey, DoGetNodeID, IssueTx, TxAccepted
<1>4. CASE CallFails
  BY <1>4 DEF CallFails
<1>5. CASE TxAbandoned \/ WaitTimesOut \/ WaitFails
  BY <1>5 DEF TxAbandoned, WaitTimesOut, WaitFails
<1>6. CASE BalanceAsExpected \/ BalanceMismatch
  BY <1>6 DEF BalanceAsExpected, BalanceMismatch
<1>7. CASE \/ ValidatorsConverted \/ ValidatorsAsExpected
           \/ ValidatorNotConverted \/ ValidatorsMismatch
  BY <1>7
  DEF ValidatorsConverted, ValidatorsAsExpected, ValidatorNotConverted,
      ValidatorsMismatch
<1>8. CASE Finish
  BY <1>8 DEF Finish
<1> QED
  BY <1>1, <1>2, <1>3, <1>4, <1>5, <1>6, <1>7, <1>8 DEF Next, Runner

\* Every program that reports success has had all its transactions accepted
\* by the nodes it issued them on, whatever the network does, provided the
\* replies to GetCurrentValidators can be converted: the one early "return
\* nil" of the tests is the conversion (workflow/executor.go:141-142).
THEOREM RunnerPassMeansComplete ==
  ASSUME ConvertibleReplies = {TRUE}
  PROVE  Spec => []PassMeansComplete
<1>1. Init => PassedInv
  BY DEF Init, PassedInv
<1>2. IInv /\ PassedInv => PassMeansComplete
  BY ProgramAssumption
  DEF IInv, ProgressInv, PassedInv, PassMeansComplete, TypeOK,
      Txs, Calls, TxsOf, CallsOf
<1>3. IInv /\ PassedInv /\ [Next]_vars => PassedInv'
  BY PassedStep
<1> QED
  BY <1>1, <1>2, <1>3, SpecIInv, PTL DEF Spec

-----------------------------------------------------------------------------
\* Every transaction is built on the earlier ones that were issued on the
\* same node and spend from the same account.
BuiltOnInv ==
  \A j, k \in issued :
    /\ j < k
    /\ program[j].from = program[k].from
    /\ program[j].node = program[k].node
    => j \in base[k]

\* Only IssueTx makes a transaction or changes what it is built on.
LEMMA OnlyIssueBuilds ==
  ASSUME [Next]_vars, ~IssueTx
  PROVE  UNCHANGED <<issued, base>>
<1> USE DEF networkVars, Stop
<1>1. CASE UNCHANGED vars
  BY <1>1 DEF vars
<1>2. CASE Network
  BY <1>2 DEF Network, Accept, Reject
<1>3. CASE DoCreateUser \/ DoAddKey \/ DoGetNodeID \/ TxAccepted
  BY <1>3 DEF DoCreateUser, DoAddKey, DoGetNodeID, TxAccepted
<1>4. CASE CallFails
  BY <1>4 DEF CallFails
<1>5. CASE TxAbandoned \/ WaitTimesOut \/ WaitFails \/ Finish
  BY <1>5 DEF TxAbandoned, WaitTimesOut, WaitFails, Finish
<1>6. CASE BalanceAsExpected \/ BalanceMismatch
  BY <1>6 DEF BalanceAsExpected, BalanceMismatch
<1>7. CASE \/ ValidatorsConverted \/ ValidatorsAsExpected
           \/ ValidatorNotConverted \/ ValidatorsMismatch
  BY <1>7 DEF ValidatorsConverted, ValidatorsAsExpected,
              ValidatorNotConverted, ValidatorsMismatch
<1> QED
  BY <1>1, <1>2, <1>3, <1>4, <1>5, <1>6, <1>7 DEF Next, Runner

LEMMA IssueFacts ==
  ASSUME IInv, IssueTx
  PROVE  /\ pc \in Txs /\ pc \notin issued
         /\ issued' = issued \cup {pc}
         /\ base' = [base EXCEPT ![pc] = {i \in view[Call.node] :
                                            Touches(i, Call.from)}]
         /\ base \in [Calls -> SUBSET issued]
         /\ issued \subseteq Txs
         /\ Txs \subseteq Calls
         /\ program' = program
  BY DEF IssueTx, At, Call, IInv, ProgressInv, TypeOK, Calls, Txs, TxsOf

LEMMA BuiltOnStep == IInv /\ BuiltOnInv /\ [Next]_vars => BuiltOnInv'
<1> SUFFICES ASSUME IInv, BuiltOnInv, [Next]_vars PROVE BuiltOnInv'
  OBVIOUS
<1>1. CASE IssueTx
  <2> USE <1>1
  <2> SUFFICES ASSUME NEW j \in issued', NEW k \in issued', j < k,
                      program[j].from = program[k].from,
                      program[j].node = program[k].node
               PROVE  j \in base'[k]
    BY IssueFacts DEF BuiltOnInv
  <2>1. CASE k = pc
    <3>1. j \in issued /\ j \in Txs /\ j < pc
      BY <2>1, IssueFacts, TxFacts DEF IInv
    <3>2. j \in view[program[j].node]
      BY <3>1 DEF IInv, ProgressInv
    <3> QED
      BY <2>1, <3>2, IssueFacts DEF Call, Touches
  <2>2. CASE k # pc
    <3>1. k \in issued /\ k \in Txs /\ k <= pc
      BY <2>2, IssueFacts DEF IInv, ProgressInv
    <3>2. j \in issued
      BY <3>1, IssueFacts, TxFacts DEF IInv
    <3> QED
      BY <2>2, <3>1, <3>2, IssueFacts DEF BuiltOnInv
  <2> QED
    BY <2>1, <2>2
<1>2. CASE ~IssueTx
  BY <1>2, OnlyIssueBuilds, SameProgram DEF BuiltOnInv
<1> QED
  BY <1>1, <1>2

LEMMA SpecBuiltOn == Spec => [](IInv /\ BuiltOnInv)
<1>1. Init => BuiltOnInv
  BY DEF Init, BuiltOnInv
<1> QED
  BY <1>1, BuiltOnStep, SpecIInv, PTL DEF Spec

\* No test double spends on one node, whatever the other nodes have seen:
\* waiting on the node it will spend on is enough
\* (rpc_workflow_runner.go:193-210, 275-310).
THEOREM RunnerNoSelfConflict == Spec => []NoSelfConflict
<1>1. IInv /\ BuiltOnInv => NoSelfConflict
  <2> SUFFICES ASSUME IInv, BuiltOnInv, NEW j \in issued, NEW k \in issued,
                      program[j].node = program[k].node
               PROVE  ~Conflict(j, k)
    BY DEF NoSelfConflict
  <2>1. j \in Nat /\ k \in Nat
    BY TxFacts DEF IInv, TypeOK
  <2> QED
    BY <2>1 DEF BuiltOnInv, Conflict
<1> QED
  BY <1>1, SpecBuiltOn, PTL

-----------------------------------------------------------------------------
\* Without a fault, what is rejected conflicts with another transaction; and
\* a test that ends in a rejection was waiting for what was rejected.
RejectedInv ==
  /\ "reject" \notin faults =>
       \A k \in rejected : \E j \in issued : Conflict(j, k)
  /\ result = "abandoned" => pc \in rejected

LEMMA RejectedStep == IInv /\ RejectedInv /\ [Next]_vars => RejectedInv'
<1> SUFFICES ASSUME IInv, RejectedInv, [Next]_vars PROVE RejectedInv'
  OBVIOUS
<1>s. program' = program
  BY SameProgram
<1>1. CASE IssueTx
  <2>1. \A j, k \in issued : Conflict(j, k) => Conflict(j, k)'
    BY <1>1, <1>s, IssueFacts DEF Conflict
  <2>2. rejected \subseteq issued
    BY DEF IInv, TypeOK
  <2> QED
    BY <1>1, <2>1, <2>2, IssueFacts DEF RejectedInv, IssueTx, At
<1>2. CASE ~IssueTx
  <2>1. \A j, k \in issued : Conflict(j, k)' = Conflict(j, k)
    BY <1>2, <1>s, OnlyIssueBuilds DEF Conflict
  <2>2. issued' = issued /\ rejected \subseteq issued
    BY <1>2, OnlyIssueBuilds DEF IInv, TypeOK
  <2>3. ASSUME NEW k \in Txs, Reject(k) PROVE RejectedInv'
    <3>1. "reject" \notin faults => \E j \in issued : Conflict(j, k)
      BY <2>3 DEF Reject, DoubleSpent, IInv, TypeOK
    <3>2. /\ rejected' = rejected \cup {k}
          /\ UNCHANGED <<faults, result, pc>>
          /\ k \in issued
      BY <2>3 DEF Reject, runnerVars
    <3> QED
      BY <2>1, <2>2, <3>1, <3>2 DEF RejectedInv
  <2>4. ASSUME UNCHANGED <<rejected, faults>>,
               result' = "abandoned" => pc' \in rejected
        PROVE  RejectedInv'
    BY <2>1, <2>2, <2>4 DEF RejectedInv
  <2> USE <2>4 DEF RejectedInv, networkVars, Stop, At, Proceed
  <2>5. CASE UNCHANGED vars
    BY <2>5 DEF vars, runnerVars
  <2>6. CASE Network
    BY <2>3, <2>6 DEF Network, Accept, runnerVars
  <2>7. CASE DoCreateUser \/ DoAddKey \/ DoGetNodeID \/ TxAccepted
    BY <2>7 DEF DoCreateUser, DoAddKey, DoGetNodeID, TxAccepted
  <2>8. CASE CallFails
    BY <2>8 DEF CallFails
  <2>9. CASE TxAbandoned \/ WaitTimesOut \/ WaitFails \/ Finish
    BY <2>9 DEF TxAbandoned, WaitTimesOut, WaitFails, Finish
  <2>10. CASE \/ BalanceAsExpected \/ BalanceMismatch
              \/ ValidatorsConverted \/ ValidatorsAsExpected
              \/ ValidatorsMismatch
    BY <2>10 DEF BalanceAsExpected, BalanceMismatch, ValidatorsConverted,
                 ValidatorsAsExpected, ValidatorsMismatch
  <2>11. CASE ValidatorNotConverted
    <3>1. Call.unconverted \in {"passed", "nilFatal"}
      BY <2>11, ProgramAssumption
      DEF ValidatorNotConverted, At, Call, IInv, TypeOK, Calls
    <3> QED
      BY <2>11, <3>1 DEF ValidatorNotConverted
  <2> QED
    BY <1>2, <2>5, <2>6, <2>7, <2>8, <2>9, <2>10, <2>11 DEF Next, Runner
<1> QED
  BY <1>1, <1>2

\* Every test that a network without faults makes fail by a rejection has
\* spent from one account on two nodes, the second of which was behind:
\* the chit spammer test can, the workflow test cannot
\* (unrequested_chit_spammer.go:74-86).
THEOREM RunnerRejectionMeansLag == Spec => []RejectionMeansLag
<1>1. Init => RejectedInv
  BY DEF Init, RejectedInv
<1>2. IInv /\ BuiltOnInv /\ RejectedInv => RejectionMeansLag
  <2> SUFFICES ASSUME IInv, BuiltOnInv, RejectedInv,
                      result = "abandoned", "reject" \notin faults
               PROVE  \E j \in issued : /\ j < pc
                                        /\ program[j].from = Call.from
                                        /\ program[j].node # Call.node
                                        /\ j \notin base[pc]
    BY DEF RejectionMeansLag
  <2>1. PICK j \in issued : Conflict(j, pc)
    BY DEF RejectedInv
  <2>2. j < pc /\ pc \in issued
    <3>1. j <= pc /\ j # pc
      BY <2>1 DEF IInv, ProgressInv, Conflict
    <3>2. j \in Nat /\ pc \in issued /\ pc \in Nat
      BY TxFacts DEF IInv, TypeOK, RejectedInv
    <3> QED
      BY <3>1, <3>2
  <2> QED
    BY <2>1, <2>2 DEF BuiltOnInv, Conflict, Call
<1> QED
  BY <1>1, <1>2, RejectedStep, SpecBuiltOn, PTL DEF Spec
-----------------------------------------------------------------------------
\* What no node has accepted when it is rejected is never accepted later, and
\* the program ends in the middle of a wait only as a wait can end.
WaitInv ==
  /\ \A n \in Nodes : view[n] \cap rejected = {}
  /\ awaiting => result \in {"running", "abandoned", "timedOut", "callFailed"}

\* What a step of the runner does to the wait it is in, if it is in one.
LEMMA RunnerShape ==
  ASSUME IInv, Runner
  PROVE  /\ UNCHANGED <<view, rejected>>
         /\ \/ /\ ~awaiting /\ ~awaiting'
               /\ pc \in Calls \ Txs
               /\ pc' = pc + 1
            \/ /\ ~awaiting
               /\ pc' = pc
               /\ awaiting' => result' = "running"
            \/ TxAccepted
            \/ TxAbandoned \/ WaitTimesOut \/ WaitFails
<1> USE DEF At, Proceed, Stop, networkVars
<1>1. CASE DoCreateUser \/ DoAddKey \/ DoGetNodeID
  BY <1>1, NextCall DEF DoCreateUser, DoAddKey, DoGetNodeID
<1>2. CASE IssueTx
  BY <1>2 DEF IssueTx
<1>3. CASE CallFails
  BY <1>3 DEF CallFails
<1>4. CASE TxAccepted
  BY <1>4 DEF TxAccepted
<1>5. CASE TxAbandoned \/ WaitTimesOut \/ WaitFails
  BY <1>5 DEF TxAbandoned, WaitTimesOut, WaitFails
<1>6. CASE BalanceAsExpected \/ ValidatorsConverted \/ ValidatorsAsExpected
  <2>1. /\ ~awaiting /\ pc \in Calls /\ Call.op # "tx"
        /\ pc' = pc + 1 /\ UNCHANGED <<awaiting, view, rejected>>
    BY <1>6
    DEF BalanceAsExpected, ValidatorsConverted, ValidatorsAsExpected
  <2> QED
    BY <2>1, NextCall
<1>7. CASE BalanceMismatch \/ ValidatorNotConverted \/ ValidatorsMismatch
  <2>1. ~awaiting /\ UNCHANGED <<pc, awaiting, view, rejected>>
    BY <1>7 DEF BalanceMismatch, ValidatorNotConverted, ValidatorsMismatch
  <2> QED
    BY <2>1
<1>8. CASE Finish
  <2>1. ~awaiting
    BY <1>8, TxFacts, ProgramAssumption
    DEF Finish, IInv, TypeOK, ProgressInv, Calls, CallsOf
  <2> QED
    BY <1>8, <2>1 DEF Finish
<1> QED
  BY <1>1, <1>2, <1>3, <1>4, <1>5, <1>6, <1>7, <1>8 DEF Runner

LEMMA WaitStep == IInv /\ WaitInv /\ [Next]_vars => WaitInv'
<1> SUFFICES ASSUME IInv, WaitInv, [Next]_vars PROVE WaitInv'
  OBVIOUS
<1>s. program' = program /\ Nodes' = Nodes
  BY SameProgram
<1> USE <1>s DEF WaitInv, At, Proceed, Stop, networkVars
<1>1. CASE UNCHANGED vars
  BY <1>1 DEF vars, runnerVars
<1>2. CASE Network
  <2>1. ASSUME NEW n \in Nodes, NEW k \in Txs, Accept(n, k) PROVE WaitInv'
    <3>1. view' = [view EXCEPT ![n] = @ \cup {k}] /\ k \notin rejected
      BY <2>1 DEF Accept
    <3>2. UNCHANGED <<awaiting, result, rejected>>
      BY <2>1 DEF Accept, runnerVars
    <3>3. view \in [Nodes -> SUBSET issued]
      BY DEF IInv, TypeOK
    <3> QED
      BY <3>1, <3>2, <3>3
  <2>2. ASSUME NEW k \in Txs, Reject(k) PROVE WaitInv'
    BY <2>2 DEF Reject, runnerVars
  <2> QED
    BY <1>2, <2>1, <2>2 DEF Network
<1>3. CASE Runner
  <2>1. UNCHANGED <<view, rejected>>
    BY <1>3, RunnerShape
  <2>2. awaiting' =>
          result' \in {"running", "abandoned", "timedOut", "callFailed"}
    BY <1>3, RunnerShape
    DEF TxAccepted, TxAbandoned, WaitTimesOut, WaitFails
  <2> QED
    BY <2>1, <2>2
<1> QED
  BY <1>1, <1>2, <1>3 DEF Next

LEMMA TxPromiseStep ==
  ASSUME IInv, WaitInv, IInv', WaitInv', [Next]_vars, NEW k \in Txs
  PROVE  TxPromise(k)!Step
<1> DEFINE Node == program[k].node
<1>s. program' = program /\ k \in Nat /\ Node \in Nodes
  BY SameProgram, TxFacts DEF IInv
<1> USE DEF TxPromise!Step, TxPromise!Next, TxPromise!Decide,
            TxPromise!Return, TxPromise!promiseVars
<1>1. pc \in Nat /\ pc' \in Nat
  BY ProgramAssumption DEF IInv, TypeOK
<1>2. StatusOf(k)' \in {"Processing", "Accepted", "Rejected"}
  BY DEF StatusOf
<1>3. CASE Network
  <2>1. UNCHANGED <<pc, awaiting, result>>
    BY <1>3 DEF Network, Accept, Reject, runnerVars
  <2>2. OutcomeOf(k)' = OutcomeOf(k)
    BY <2>1 DEF OutcomeOf
  <2>3. rejected \subseteq rejected' /\ view[Node] \subseteq view'[Node]
    <3>1. ASSUME NEW n \in Nodes, NEW j \in Txs, Accept(n, j)
          PROVE  rejected' = rejected /\ view[Node] \subseteq view'[Node]
      BY <1>s, <3>1 DEF Accept, IInv, TypeOK
    <3>2. ASSUME NEW j \in Txs, Reject(j)
          PROVE  rejected \subseteq rejected' /\ view' = view
      BY <3>2 DEF Reject
    <3> QED
      BY <1>3, <3>1, <3>2 DEF Network
  <2>4. StatusOf(k)' # StatusOf(k) => StatusOf(k) = "Processing"
    <3>1. k \in rejected => StatusOf(k) = "Rejected" /\ StatusOf(k)' = "Rejected"
      BY <2>3 DEF StatusOf
    <3>2. k \in view[Node] => k \notin rejected /\ k \notin rejected'
      BY <1>s, <2>3, SameProgram DEF WaitInv
    <3>3. k \in view[Node] => StatusOf(k) = "Accepted" /\ StatusOf(k)' = "Accepted"
      BY <1>s, <2>3, <3>2 DEF StatusOf
    <3>4. k \notin rejected /\ k \notin view[Node] => StatusOf(k) = "Processing"
      BY DEF StatusOf
    <3> QED
      BY <3>1, <3>3, <3>4
  <2> QED
    BY <1>2, <2>2, <2>4
<1>4. CASE Runner
  <2>1. StatusOf(k)' = StatusOf(k)
    BY <1>4, <1>s, RunnerShape DEF StatusOf
  <2>2. CASE TxAccepted
    <3>1. pc' = pc + 1 /\ ~awaiting' /\ result = "running"
      BY <2>2 DEF TxAccepted
    <3>2. CASE k = pc
      <4>1. OutcomeOf(k) = "waiting" /\ OutcomeOf(k)' = "nil"
        BY <1>1, <3>1, <3>2 DEF OutcomeOf
      <4>2. StatusOf(k) = "Accepted"
        BY <1>s, <2>2, <3>2 DEF TxAccepted, StatusOf, WaitInv, Call
      <4> QED
        BY <2>1, <4>1, <4>2
    <3>3. CASE k # pc
      <4>1. OutcomeOf(k)' = OutcomeOf(k)
        BY <1>s, <1>1, <3>1, <3>3 DEF OutcomeOf
      <4> QED
        BY <2>1, <4>1
    <3> QED
      BY <3>2, <3>3
  <2>3. CASE TxAbandoned \/ WaitTimesOut \/ WaitFails
    <3>1. /\ UNCHANGED <<pc, awaiting>> /\ awaiting /\ result = "running"
          /\ result' \in {"abandoned", "timedOut", "callFailed"}
          /\ result' = "abandoned" => pc \in rejected
      BY <2>3 DEF TxAbandoned, WaitTimesOut, WaitFails, Stop
    <3>2. CASE k = pc
      <4>1. OutcomeOf(k) = "waiting" /\ OutcomeOf(k)' = result'
        BY <1>1, <3>1, <3>2 DEF OutcomeOf
      <4>2. result' = "abandoned" => StatusOf(k) = "Rejected"
        BY <3>1, <3>2 DEF StatusOf
      <4> QED
        BY <2>1, <3>1, <4>1, <4>2
    <3>3. CASE k # pc
      <4>1. OutcomeOf(k)' = OutcomeOf(k)
        BY <3>1, <3>3 DEF OutcomeOf
      <4> QED
        BY <2>1, <4>1
    <3> QED
      BY <3>2, <3>3
  <2>4. CASE ~awaiting /\ ~awaiting' /\ pc \in Calls \ Txs /\ pc' = pc + 1
    <3>1. OutcomeOf(k)' = OutcomeOf(k)
      BY <1>s, <1>1, <2>4 DEF OutcomeOf
    <3> QED
      BY <2>1, <3>1
  <2>5. CASE ~awaiting /\ pc' = pc /\ (awaiting' => result' = "running")
    <3>1. OutcomeOf(k)' = OutcomeOf(k)
      BY <2>5 DEF OutcomeOf
    <3> QED
      BY <2>1, <3>1
  <2> QED
    BY <1>4, RunnerShape, <2>2, <2>3, <2>4, <2>5
<1>5. CASE UNCHANGED vars
  BY <1>5, <1>s DEF vars, runnerVars, networkVars, StatusOf, OutcomeOf
<1> QED
  BY <1>3, <1>4, <1>5 DEF Next

\* Every wait of every test, whatever the network does, is a behaviour of
\* AcceptancePromise, to which the polling loops are reduced by
\* AcceptanceWaitProofs (rpc_workflow_runner.go:364-432).
THEOREM RunnerWaitsKeepPromise == Spec => WaitsKeepPromise
<1>1. Init => WaitInv /\ \A k \in Txs : TxPromise(k)!Init
  <2> SUFFICES ASSUME Init
               PROVE  WaitInv /\ \A k \in Txs : TxPromise(k)!Init
    OBVIOUS
  <2>1. WaitInv
    BY DEF Init, WaitInv
  <2>2. ASSUME NEW k \in Txs PROVE TxPromise(k)!Init
    BY <2>2, InitIInv, TxFacts
    DEF Init, TxPromise!Init, StatusOf, OutcomeOf, IInv, TypeOK
  <2> QED
    BY <2>1, <2>2
<1>2. IInv /\ IInv' /\ WaitInv /\ WaitInv' /\ [Next]_vars
        => [\A k \in Txs : TxPromise(k)!Step]_vars
  BY TxPromiseStep
<1> QED
  BY <1>1, <1>2, SpecIInv, WaitStep, PTL DEF Spec, WaitsKeepPromise
=============================================================================

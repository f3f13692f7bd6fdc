--------------------------- MODULE AcceptanceWait ---------------------------
(***************************************************************************)
(* The polling loops waitForXchainTransactionAcceptance and                *)
(* waitForPChainTransactionAcceptance of RPCWorkFlowRunner, run against a  *)
(* node that decides the transaction at a time of its own choosing.        *)
(*                                                                         *)
(* The two loops differ only in the names of the statuses, so one module   *)
(* models both: the X chain decides Accepted or Rejected, the P chain      *)
(* Committed, Aborted or Dropped.  Time is an integer clock that starts    *)
(* when the loop takes pollStartTime.  A GetTxStatus call is three steps:  *)
(* the runner sends it, the node reads the status and answers, the runner  *)
(* receives the answer.  The status may change between any two of them.    *)
(***************************************************************************)
EXTENDS Integers

CONSTANTS
  Timeout,         \* networkAcceptanceTimeout
  PollInterval,    \* the sleep between two calls (time.Second in the code)
  Latency,         \* the longest a GetTxStatus call takes on this network:
                   \* the code sets no limit, since NewClient drops its
                   \* requestTimeout
  Pending,         \* statuses for which the loop goes on polling
  Accepted,        \* choices.Accepted, or platformStatus.Committed
  Abandoned        \* choices.Rejected, or platformStatus.Dropped and Aborted

Statuses == Pending \cup Accepted \cup Abandoned

ASSUME TimingAssumption ==
  /\ Timeout \in Nat
  /\ PollInterval \in Nat \ {0}
  /\ Latency \in Nat

ASSUME StatusAssumption ==
  /\ Pending \cap Accepted = {}
  /\ Pending \cap Abandoned = {}
  /\ Accepted \cap Abandoned = {}
  /\ {"none", "failed"} \cap Statuses = {}

VARIABLES
  pc,         \* where the loop is: "poll", "call", "sleep" or "returned"
  clock,      \* time since pollStartTime
  callAt,     \* when the last GetTxStatus call was sent
  answer,     \* the node's answer to it: a status, "failed", or "none" yet
  wake,       \* when the current sleep ends
  status,     \* the status of the transaction on the node
  decidedAt,  \* history: when the node decided it, -1 if it has not
  outcome     \* "waiting", or what the wait has returned

vars == <<pc, clock, callAt, answer, wake, status, decidedAt, outcome>>

Init ==
  /\ pc = "poll"
  /\ clock = 0
  /\ callAt = 0
  /\ answer = "none"
  /\ wake = 0
  /\ status \in Statuses
  /\ decidedAt = IF status \in Pending THEN -1 ELSE 0
  /\ outcome = "waiting"

-----------------------------------------------------------------------------
(* Faulty variants of the definitions below, which the properties must     *)
(* tell from the code.                                                     *)

\* Polls once more after the deadline, and again.
GetTxStatusNoDeadline ==
  /\ pc = "poll"
  /\ pc' = "call"
  /\ callAt' = clock
  /\ answer' = "none"
  /\ UNCHANGED <<clock, wake, status, decidedAt, outcome>>

\* Returns nil for whatever is not an error or a rejection.
ReceiveAcceptedAny ==
  /\ pc = "call"
  /\ answer \in Accepted \cup Pending
  /\ pc' = "returned"
  /\ outcome' = "nil"
  /\ UNCHANGED <<clock, callAt, answer, wake, status, decidedAt>>

\* Sleeps the whole acceptance timeout between two calls.
ReceivePendingLongSleep ==
  /\ pc = "call"
  /\ answer \in Pending
  /\ pc' = "sleep"
  /\ wake' = clock + Timeout
  /\ UNCHANGED <<clock, callAt, answer, status, decidedAt, outcome>>

\* Sleeps until a time before it was told to.
ReceivePendingBackwards ==
  /\ pc = "call"
  /\ answer \in Pending
  /\ pc' = "sleep"
  /\ wake' = clock - PollInterval
  /\ UNCHANGED <<clock, callAt, answer, status, decidedAt, outcome>>

-----------------------------------------------------------------------------
(* The runner.                                                             *)

\* The loop condition holds: send another GetTxStatus.
GetTxStatus ==
  /\ pc = "poll"
  /\ clock < Timeout
  /\ pc' = "call"
  /\ callAt' = clock
  /\ answer' = "none"
  /\ UNCHANGED <<clock, wake, status, decidedAt, outcome>>

\* The loop condition fails: "Timed out waiting for transaction".
GiveUp ==
  /\ pc = "poll"
  /\ clock >= Timeout
  /\ pc' = "returned"
  /\ outcome' = "timedOut"
  /\ UNCHANGED <<clock, callAt, answer, wake, status, decidedAt>>

Return(answers, result) ==
  /\ pc = "call"
  /\ answer \in answers
  /\ pc' = "returned"
  /\ outcome' = result
  /\ UNCHANGED <<clock, callAt, answer, wake, status, decidedAt>>

ReceiveError == Return({"failed"}, "callFailed")

ReceiveAccepted == Return(Accepted, "nil")

ReceiveAbandoned == Return(Abandoned, "abandoned")

\* Any other status: sleep, then test the loop condition again.
ReceivePending ==
  /\ pc = "call"
  /\ answer \in Pending
  /\ pc' = "sleep"
  /\ wake' = clock + PollInterval
  /\ UNCHANGED <<clock, callAt, answer, status, decidedAt, outcome>>

WakeUp ==
  /\ pc = "sleep"
  /\ clock >= wake
  /\ pc' = "poll"
  /\ UNCHANGED <<clock, callAt, answer, wake, status, decidedAt, outcome>>

Runner ==
  \/ GetTxStatus
  \/ GiveUp
  \/ ReceiveError
  \/ ReceiveAccepted
  \/ ReceiveAbandoned
  \/ ReceivePending
  \/ WakeUp

-----------------------------------------------------------------------------
(* The node and the clock.                                                 *)

\* The node answers the outstanding call with the status it has now, or the
\* call fails.
NodeAnswers ==
  /\ pc = "call"
  /\ answer = "none"
  /\ answer' \in {status, "failed"}
  /\ UNCHANGED <<pc, clock, callAt, wake, status, decidedAt, outcome>>

\* Consensus on the node moves on; a decided transaction stays decided.
Decide ==
  /\ status \in Pending
  /\ status' \in Statuses \ {status}
  /\ decidedAt' = IF status' \in Pending THEN -1 ELSE clock
  /\ UNCHANGED <<pc, clock, callAt, answer, wake, outcome>>

\* Time passes only in a call, which ends when the node answers, and in a
\* sleep, which ends when it is due; the loop's own instructions take no time.
Tick ==
  /\ \/ pc = "call" /\ clock < callAt + Latency
     \/ pc = "sleep" /\ clock < wake
  /\ clock' = clock + 1
  /\ UNCHANGED <<pc, callAt, answer, wake, status, decidedAt, outcome>>

Next == Runner \/ NodeAnswers \/ Decide \/ Tick

Spec ==
  /\ Init
  /\ [][Next]_vars
  /\ WF_vars(Runner)
  /\ WF_vars(NodeAnswers)
  /\ WF_vars(Tick)

-----------------------------------------------------------------------------
(* Properties.                                                             *)

\* The loop's state (rpc_workflow_runner.go:367-383 and 412-431) is well
\* formed: no wake-up time or call time before the start of the wait.
TypeOK ==
  /\ pc \in {"poll", "call", "sleep", "returned"}
  /\ clock \in Nat
  /\ callAt \in Nat
  /\ answer \in Statuses \cup {"none", "failed"}
  /\ wake \in Nat
  /\ status \in Statuses
  /\ decidedAt \in Nat \cup {-1}
  /\ outcome \in {"waiting", "nil", "abandoned", "timedOut", "callFailed"}

\* The loop keeps the promise of AcceptancePromise although it acts on an
\* answer that may be old by the time it is received, and it always returns
\* (rpc_workflow_runner.go:364-384 and 410-432).
Promise ==
  INSTANCE AcceptancePromise
    WITH Pending <- Pending, Accepted <- Accepted, Abandoned <- Abandoned,
         status <- status, outcome <- outcome

KeepsPromise == Promise!Spec

\* A timeout never hides a transaction that was decided in good time: when
\* the wait says "timed out", the transaction was still undecided when the
\* last call was sent, at most one call and one sleep before the deadline.
TimeoutIsHonest ==
  outcome = "timedOut" =>
    decidedAt = -1 \/ decidedAt >= Timeout - PollInterval - Latency

\* The deadline is looked at before every call: the wait outlives its timeout
\* by less than the one call and the one sleep that were under way when it ran
\* out (rpc_workflow_runner.go:368-380 and 414-429).  This is no bound in
\* seconds: nothing cuts a call off (apis/client.go:39), so the time the runner
\* "will wait" (rpc_workflow_runner.go:48) is the network's to decide.
OverrunBounded == clock < Timeout + Latency + PollInterval
=============================================================================

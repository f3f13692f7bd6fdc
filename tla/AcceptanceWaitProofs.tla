------------------------ MODULE AcceptanceWaitProofs ------------------------
(***************************************************************************)
(* Proofs about AcceptanceWait, for every timeout, poll interval, latency  *)
(* and set of statuses.  Everything rests on one inductive invariant that  *)
(* bounds the clock by the last call and ages the last answer.             *)
(*                                                                         *)
(* Then about StakingStart, which waits that way, for every delay and      *)
(* every difference of the clocks that the synchrony delay covers.         *)
(***************************************************************************)
EXTENDS StakingStart, TLAPS

\* The clock is never more than one call and one sleep past the last call,
\* and the last call was sent before the deadline.
ClockInv ==
  /\ callAt <= clock
  /\ pc \in {"poll", "returned"} =>
       clock <= Timeout - 1 + Latency + PollInterval
  /\ pc = "poll" => clock <= callAt + Latency + PollInterval
  /\ pc = "call" => callAt < Timeout /\ clock <= callAt + Latency
  /\ pc = "sleep" =>
       /\ callAt < Timeout
       /\ clock <= wake
       /\ wake <= callAt + Latency + PollInterval

\* A decision is final, so an answer that says "decided" stays true; one
\* that says "undecided" was true when the call was sent.
AnswerInv ==
  /\ status \in Pending <=> decidedAt = -1
  /\ answer \in Accepted => status \in Accepted
  /\ answer \in Abandoned => status \in Abandoned
  /\ \/ pc = "call" /\ answer \notin Pending
     \/ pc = "returned"
     \/ decidedAt = -1
     \/ decidedAt >= callAt

OutcomeInv ==
  /\ outcome = "waiting" <=> pc # "returned"
  /\ outcome = "timedOut" => clock >= Timeout
  /\ TimeoutIsHonest

IInv == TypeOK /\ ClockInv /\ AnswerInv /\ OutcomeInv

-----------------------------------------------------------------------------
\* The invariant holds before the first call.
LEMMA InitIInv == Init => IInv
<1> SUFFICES ASSUME Init PROVE IInv
  OBVIOUS
<1> USE TimingAssumption, StatusAssumption DEF Init
<1>1. TypeOK
  BY DEF TypeOK, Statuses
<1>2. ClockInv
  BY DEF ClockInv
<1>3. AnswerInv
  BY DEF AnswerInv, Statuses
<1>4. OutcomeInv
  BY DEF OutcomeInv, TimeoutIsHonest
<1> QED
  BY <1>1, <1>2, <1>3, <1>4 DEF IInv

\* Every step of the runner, of the node and of the clock preserves it.
LEMMA NextIInv == IInv /\ [Next]_vars => IInv'
<1> SUFFICES ASSUME IInv, [Next]_vars PROVE IInv'
  OBVIOUS
<1> USE TimingAssumption, StatusAssumption
    DEF IInv, TypeOK, ClockInv, AnswerInv, OutcomeInv, TimeoutIsHonest
<1>1. CASE GetTxStatus
  BY <1>1 DEF GetTxStatus, Statuses
<1>2. CASE GiveUp
  BY <1>2 DEF GiveUp, Statuses
<1>3. CASE ReceiveError
  BY <1>3 DEF ReceiveError, Return, Statuses
<1>4. CASE ReceiveAccepted
  BY <1>4 DEF ReceiveAccepted, Return, Statuses
<1>5. CASE ReceiveAbandoned
  BY <1>5 DEF ReceiveAbandoned, Return, Statuses
<1>6. CASE ReceivePending
  BY <1>6 DEF ReceivePending, Statuses
<1>7. CASE WakeUp
  BY <1>7 DEF WakeUp, Statuses
<1>8. CASE NodeAnswers
  BY <1>8 DEF NodeAnswers, Statuses
<1>9. CASE Decide
  BY <1>9 DEF Decide, Statuses
<1>10. CASE Tick
  BY <1>10 DEF Tick, Statuses
<1>11. CASE UNCHANGED vars
  BY <1>11 DEF vars
<1> QED
  BY <1>1, <1>2, <1>3, <1>4, <1>5, <1>6, <1>7, <1>8, <1>9, <1>10, <1>11
  DEF Next, Runner

LEMMA SpecIInv == Spec => []IInv
  BY InitIInv, NextIInv, PTL DEF Spec

-----------------------------------------------------------------------------
\* The loop's state is well formed in every reachable state, whatever the
\* timeout and the latency (rpc_workflow_runner.go:364-384, 410-432).
THEOREM WaitTypeOK == Spec => []TypeOK
<1>1. IInv => TypeOK
  BY DEF IInv
<1> QED
  BY <1>1, SpecIInv, PTL

\* A timeout never hides a transaction decided more than one call and one
\* sleep before the deadline, for every Timeout, PollInterval and Latency.
THEOREM WaitTimeoutIsHonest == Spec => []TimeoutIsHonest
<1>1. IInv => TimeoutIsHonest
  BY DEF IInv, OutcomeInv
<1> QED
  BY <1>1, SpecIInv, PTL

\* Whatever the timeout and however long calls take, the wait outlives its
\* timeout by less than one call and one sleep (the loop's condition,
\* rpc_workflow_runner.go:368 and 414).
THEOREM WaitOverrunIsBounded == Spec => []OverrunBounded
<1>1. IInv => OverrunBounded
  BY TimingAssumption DEF IInv, TypeOK, ClockInv, OverrunBounded
<1> QED
  BY <1>1, SpecIInv, PTL

\* Every step of the polling loop is a step of the abstract promise or leaves
\* it unchanged: nil only for an accepted transaction, "abandoned" only for
\* an abandoned one, and one return (the safety part of KeepsPromise).
THEOREM WaitRefinesPromise ==
  Spec => Promise!Init /\ [][Promise!Next]_(Promise!promiseVars)
<1>1. Init => Promise!Init
  BY DEF Init, Statuses, Promise!Init
<1>2. IInv /\ [Next]_vars => [Promise!Next]_(Promise!promiseVars)
  <2> SUFFICES ASSUME IInv, [Next]_vars
               PROVE  [Promise!Next]_(Promise!promiseVars)
    OBVIOUS
  <2> USE DEF Promise!Next, Promise!promiseVars
  <2>1. CASE GetTxStatus \/ ReceivePending \/ WakeUp \/ NodeAnswers \/ Tick
    BY <2>1 DEF GetTxStatus, ReceivePending, WakeUp, NodeAnswers, Tick
  <2>2. CASE GiveUp
    BY <2>2 DEF GiveUp, Promise!Return, IInv, OutcomeInv
  <2>3. CASE ReceiveError
    BY <2>3 DEF ReceiveError, Return, Promise!Return, IInv, OutcomeInv
  <2>4. CASE ReceiveAccepted
    BY <2>4 DEF ReceiveAccepted, Return, Promise!Return, IInv, OutcomeInv,
                AnswerInv
  <2>5. CASE ReceiveAbandoned
    BY <2>5 DEF ReceiveAbandoned, Return, Promise!Return, IInv, OutcomeInv,
                AnswerInv
  <2>6. CASE Decide
    BY <2>6 DEF Decide, Statuses, Promise!Decide
  <2>7. CASE UNCHANGED vars
    BY <2>7 DEF vars
  <2> QED
    BY <2>1, <2>2, <2>3, <2>4, <2>5, <2>6, <2>7 DEF Next, Runner
<1> QED
  BY <1>1, <1>2, SpecIInv, PTL DEF Spec

-----------------------------------------------------------------------------
(* The staking methods around the wait.                                    *)

\* The method sleeps or returns without an error only after the wait has
\* returned nil, which it does only for an accepted transaction; from then
\* on only the sleep lets time pass.
StakingInv ==
  /\ start \in Int
  /\ skew \in (0 - MaxSkew)..MaxSkew
  /\ slept \in Nat
  /\ outcome = "nil" => status \in Accepted
  /\ method \in {"sleeping", "returned"} => outcome = "nil"
  /\ method = "returned" => Now >= start + SynchronyDelay

\* The steps of the wait leave the rest of the method alone.
LEMMA WaitStakingInv == IInv /\ StakingInv /\ Wait => StakingInv'
<1> SUFFICES ASSUME IInv, StakingInv, Wait PROVE StakingInv'
  OBVIOUS
<1> USE StatusAssumption
    DEF Wait, stakingVars, StakingInv, Now, IInv, OutcomeInv, AnswerInv
<1>1. CASE outcome = "waiting"
  <2>1. method \notin {"sleeping", "returned"}
    BY <1>1
  <2>2. outcome' = "nil" => status' \in Accepted
    <3>1. CASE Runner
      BY <1>1, <3>1
      DEF Runner, GetTxStatus, GiveUp, ReceiveError, ReceiveAccepted,
          ReceiveAbandoned, ReceivePending, WakeUp, Return
    <3>2. CASE NodeAnswers \/ Decide \/ Tick
      BY <1>1, <3>2 DEF NodeAnswers, Decide, Tick
    <3> QED
      BY <3>1, <3>2 DEF Next
  <2> QED
    BY <2>1, <2>2
<1>2. CASE outcome # "waiting"
  <2>1. pc = "returned"
    BY <1>2
  <2>2. UNCHANGED <<outcome, clock>>
    BY <2>1
    DEF Next, Runner, GetTxStatus, GiveUp, ReceiveError, ReceiveAccepted,
        ReceiveAbandoned, ReceivePending, WakeUp, Return, NodeAnswers,
        Decide, Tick
  <2>3. status \in Accepted => status' = status
    BY <2>1
    DEF Next, Runner, GetTxStatus, GiveUp, ReceiveError, ReceiveAccepted,
        ReceiveAbandoned, ReceivePending, WakeUp, Return, NodeAnswers,
        Decide, Tick
  <2> QED
    BY <2>2, <2>3
<1> QED
  BY <1>1, <1>2

LEMMA StakingStep ==
  IInv /\ StakingInv /\ [StakingNext]_<<vars, stakingVars>>
    => IInv' /\ StakingInv'
<1> SUFFICES ASSUME IInv, StakingInv, [StakingNext]_<<vars, stakingVars>>
             PROVE  IInv' /\ StakingInv'
  OBVIOUS
<1>1. CASE Wait
  BY <1>1, NextIInv, WaitStakingInv DEF Wait
<1>2. CASE UNCHANGED vars /\ ~Wait
  <2>1. IInv'
    BY <1>2, NextIInv
  <2>2. StakingInv'
    <3> USE <1>2 DEF StakingInv, Now, vars, IInv, TypeOK, OutcomeInv
    <3>1. CASE WaitReturns
      BY <3>1 DEF WaitReturns
    <3>2. CASE Sleep
      BY <3>2 DEF Sleep
    <3>3. CASE MethodReturns
      BY <3>3 DEF MethodReturns, SleepIsOver
    <3>4. CASE UNCHANGED <<vars, stakingVars>>
      BY <3>4 DEF stakingVars
    <3> QED
      BY <3>1, <3>2, <3>3, <3>4 DEF StakingNext
  <2> QED
    BY <2>1, <2>2
<1> QED
  BY <1>1, <1>2 DEF StakingNext, WaitReturns, Sleep, MethodReturns

\* Whatever the delays, and however far the clocks are apart within the
\* synchrony delay, a method that returns no error returns after the period
\* has begun on the node (rpc_workflow_runner.go:147-149, 185).
THEOREM StakingPeriodHasBegun == StakingSpec => []PeriodHasBegun
<1>1. StakingInit => IInv /\ StakingInv
  <2> SUFFICES ASSUME StakingInit PROVE IInv /\ StakingInv
    OBVIOUS
  <2>1. IInv
    BY InitIInv DEF StakingInit
  <2>2. start \in Int
    BY StakingAssumption, TimingAssumption DEF StakingInit
  <2>3. outcome = "waiting" /\ method = "waiting" /\ slept = 0
    BY DEF StakingInit, Init
  <2> QED
    BY <2>1, <2>2, <2>3 DEF StakingInv, StakingInit
<1>2. IInv /\ StakingInv => PeriodHasBegun
  BY StakingAssumption
  DEF IInv, StakingInv, PeriodHasBegun, Now, TypeOK
<1> QED
  BY <1>1, <1>2, StakingStep, PTL DEF StakingSpec
=============================================================================

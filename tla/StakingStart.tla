---------------------------- MODULE StakingStart ----------------------------
(***************************************************************************)
(* AddValidatorToPrimaryNetwork and AddDelegatorToPrimaryNetwork around    *)
(* the wait of AcceptanceWait: the start of the period is fixed before the *)
(* transaction is issued, the wait for its acceptance may end before or    *)
(* after it, and the method then sleeps until the node must have begun it. *)
(*                                                                         *)
(* Time is still counted from pollStartTime, so the period starts at most  *)
(* StakingDelay later, less what issuing the transaction took.  The node   *)
(* reads its own clock.                                                    *)
(***************************************************************************)
EXTENDS AcceptanceWait

CONSTANTS
  StakingDelay,    \* DefaultStakingDelay, or DefaultDelegationDelay
  SynchronyDelay,  \* stakingPeriodSynchronyDelay
  MaxSkew          \* how far the node's clock may be from the runner's

ASSUME StakingAssumption ==
  /\ StakingDelay \in Nat
  /\ SynchronyDelay \in Nat
  /\ MaxSkew \in Nat
  /\ MaxSkew <= SynchronyDelay

VARIABLES
  start,   \* stakingStartTime
  skew,    \* what the node's clock shows, less what the runner's does
  slept,   \* the time spent in the last sleep
  method   \* where the method is: "waiting", "sleeping", "returned", "failed"

stakingVars == <<start, skew, slept, method>>

StakingInit ==
  /\ Init
  /\ start \in (StakingDelay - Latency)..StakingDelay
  /\ skew \in (0 - MaxSkew)..MaxSkew
  /\ slept = 0
  /\ method = "waiting"

\* Now, on the runner's clock.
Now == clock + slept

\* Faulty: sleeps only until the start on the runner's own clock.
WakesAtStart == method = "sleeping" /\ Now >= start

\* The sleep is over; it never began if it was not positive.
SleepIsOver == method = "sleeping" /\ Now >= start + SynchronyDelay

Wait == Next /\ UNCHANGED stakingVars

\* The wait has returned: its error is returned, or the sleep begins.
WaitReturns ==
  /\ method = "waiting"
  /\ outcome # "waiting"
  /\ method' = IF outcome = "nil" THEN "sleeping" ELSE "failed"
  /\ UNCHANGED <<vars, start, skew, slept>>

Sleep ==
  /\ method = "sleeping"
  /\ ~SleepIsOver
  /\ slept' = slept + 1
  /\ UNCHANGED <<vars, start, skew, method>>

MethodReturns ==
  /\ SleepIsOver
  /\ method' = "returned"
  /\ UNCHANGED <<vars, start, skew, slept>>

StakingNext == Wait \/ WaitReturns \/ Sleep \/ MethodReturns

StakingSpec ==
  /\ StakingInit
  /\ [][StakingNext]_<<vars, stakingVars>>
  /\ WF_vars(Runner)
  /\ WF_vars(NodeAnswers)
  /\ WF_vars(Tick)
  /\ WF_stakingVars(WaitReturns \/ Sleep \/ MethodReturns)

-----------------------------------------------------------------------------
\* "blocks until the transaction is confirmed and the validation period
\* begins" (rpc_workflow_runner.go:153-154): a method that returns no error
\* does so when the node has accepted the transaction and its clock shows the
\* start, however long issuing, polling and accepting have taken, and
\* whichever of the two clocks is ahead.
PeriodHasBegun ==
  method = "returned" => status \in Accepted /\ Now + skew >= start
=============================================================================

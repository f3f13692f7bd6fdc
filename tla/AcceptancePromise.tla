------------------------- MODULE AcceptancePromise -------------------------
(***************************************************************************)
(* What a caller of waitForXchainTransactionAcceptance or of               *)
(* waitForPChainTransactionAcceptance relies on, without the polling loop: *)
(* the call returns exactly once, it returns nil only for a transaction    *)
(* the node has accepted, it says "abandoned" only for one the node has    *)
(* given up, and it always returns.                                        *)
(***************************************************************************)
CONSTANTS
  Pending,    \* statuses of a transaction the node has not decided
  Accepted,   \* statuses the wait returns nil for
  Abandoned   \* statuses the wait reports as a rejection

VARIABLES
  status,     \* the status of the transaction on the node
  outcome     \* "waiting", or what the wait has returned

promiseVars == <<status, outcome>>

Init ==
  /\ status \in Pending \cup Accepted \cup Abandoned
  /\ outcome = "waiting"

\* The node learns more about the transaction; a decision is final.
Decide ==
  /\ status \in Pending
  /\ status' \in Pending \cup Accepted \cup Abandoned
  /\ UNCHANGED outcome

Return ==
  /\ outcome = "waiting"
  /\ \/ status \in Accepted /\ outcome' = "nil"
     \/ status \in Abandoned /\ outcome' = "abandoned"
     \/ outcome' \in {"timedOut", "callFailed"}
  /\ UNCHANGED status

Next == Decide \/ Return

\* All that one step of the node, of the call or of something else may do.
Step == [Next]_promiseVars

Spec == Init /\ [][Next]_promiseVars /\ WF_promiseVars(Return)
=============================================================================

---------------------------- MODULE RunnerLedger ----------------------------
(***************************************************************************)
(* What a test of RPCWorkFlowRunner calls must take care of, so that       *)
(* nothing but the network can make it fail: the user and the key of each  *)
(* call are there, the funds it spends have arrived at the node that       *)
(* spends them, and the balances it expects are the ones it has made.      *)
(*                                                                         *)
(* All of this can be read off the test.  Its ledger says what each        *)
(* account holds before each call when the calls are carried out one       *)
(* after the other on a single node; what a node that lags behind reports  *)
(* is then compared with it.                                               *)
(***************************************************************************)
EXTENDS WorkflowRunner

AccountsOf(Q) ==
  {Q[k].from : k \in TxsOf(Q)} \cup {Q[k].to : k \in TxsOf(Q)}
    \cup {Q[k].account :
            k \in {c \in CallsOf(Q) : Q[c].op \in {"addKey", "verifyBalance"}}}

-----------------------------------------------------------------------------
(* The ledger.                                                             *)

\* What transaction k moves when the accounts hold [funds].
AmountOf(Q, k, funds) ==
  IF Q[k].amount = Everything THEN funds[Q[k].from] ELSE Q[k].amount

After(Q, k, funds) ==
  IF k \in TxsOf(Q)
    THEN [a \in AccountsOf(Q) |->
           funds[a] - (IF a = Q[k].from THEN AmountOf(Q, k, funds) ELSE 0)
                    + (IF a = Q[k].to THEN AmountOf(Q, k, funds) ELSE 0)]
    ELSE funds

\* LedgerOf(Q)[k][a] is what account a holds before call k.
LedgerOf(Q) ==
  LET ledger[k \in Nat] ==
        IF k <= 1
          THEN [a \in AccountsOf(Q) |->
                 IF a = X("genesis") THEN GenesisFunds ELSE 0]
          ELSE LET before == ledger[k - 1] IN After(Q, k - 1, before)
  IN [k \in 1..Len(Q) + 1 |-> ledger[k]]

\* The transactions before call k that move funds of account a.
Before(Q, k, a) == {j \in TxsOf(Q) : j < k /\ a \in {Q[j].from, Q[j].to}}

\* Nothing in the test pays into a source; it holds what the genesis says.
Sources(Q) == {a \in AccountsOf(Q) : \A k \in TxsOf(Q) : Q[k].to # a}

\* PastOf(Q)[k]: what has been accepted wherever transaction k has been,
\* because it was built on it, directly or not.
PastOf(Q) ==
  LET past[k \in Nat] ==
        IF k \in TxsOf(Q) /\ Q[k].from \notin Sources(Q)
          THEN LET earlier == Before(Q, k, Q[k].from)
               IN  earlier \cup UNION {past[j] : j \in earlier}
          ELSE {}
  IN [k \in TxsOf(Q) |-> past[k]]

-----------------------------------------------------------------------------
(* What the test takes care of.                                            *)

\* A test that passes check v knows that transaction j has arrived at the
\* node it asked: without j the account never held what v expects.
CheckShows(Q, v, j) ==
  /\ Q[v].op = "verifyBalance"
  /\ j < v
  /\ \A m \in 1..j : LedgerOf(Q)[m][Q[v].account] # Q[v].expected

\* Before call k, node n has accepted everything that moved funds of account
\* a: the test has waited for it on that node, or has looked.
HasArrived(Q, n, a, k) ==
  \A j \in Before(Q, k, a) :
    \/ Q[j].node = n
    \/ \E v \in CallsOf(Q) : /\ v < k
                             /\ CheckShows(Q, v, j)
                             /\ Q[v].node = n /\ Q[v].account = a

KeysInPlace(Q) ==
  \A k \in CallsOf(Q) :
    /\ Q[k].op = "createUser" =>
         \A j \in CallsOf(Q) : j < k /\ Q[j].op = "createUser" =>
           <<Q[j].node, Q[j].user>> # <<Q[k].node, Q[k].user>>
    /\ Q[k].op = "addKey" =>
         \E j \in CallsOf(Q) : /\ j < k /\ Q[j].op = "createUser"
                               /\ Q[j].node = Q[k].node /\ Q[j].user = Q[k].user
    /\ Q[k].op = "tx" =>
         \E j \in CallsOf(Q) : /\ j < k /\ Q[j].op = "addKey"
                               /\ Q[j].node = Q[k].node /\ Q[j].user = Q[k].user
                               /\ Q[j].account = Spender(Q[k].from)

FundsInPlace(Q) ==
  \A k \in TxsOf(Q) :
    /\ Q[k].from # Q[k].to
    /\ AmountOf(Q, k, LedgerOf(Q)[k]) > 0
    /\ AmountOf(Q, k, LedgerOf(Q)[k]) <= LedgerOf(Q)[k][Q[k].from]
    /\ IF Q[k].from \in Sources(Q)
         THEN Q[k].amount # Everything
         ELSE HasArrived(Q, Q[k].node, Q[k].from, k)
    /\ Before(Q, k, Q[k].to) \subseteq PastOf(Q)[k]

ChecksInPlace(Q) ==
  \A v \in CallsOf(Q) :
    Q[v].op = "verifyBalance" =>
      /\ Q[v].account \notin Sources(Q)
      /\ Q[v].expected = LedgerOf(Q)[v][Q[v].account]

\* The test relies on nothing that it has not made sure of.
Careful(Q) == KeysInPlace(Q) /\ FundsInPlace(Q) /\ ChecksInPlace(Q)

\* After its last call, node n holds x on account a.
LeavesBehind(Q, n, a, x) ==
  /\ \E k \in CallsOf(Q) : Q[k].node = n
  /\ a \in AccountsOf(Q) \ Sources(Q)
  /\ HasArrived(Q, n, a, Len(Q) + 1)
  /\ LedgerOf(Q)[Len(Q) + 1][a] = x
=============================================================================

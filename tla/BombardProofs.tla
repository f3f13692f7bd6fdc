--------------------------- MODULE BombardProofs ---------------------------
(***************************************************************************)
(* Proofs about Bombard for every number of clients, every chain length    *)
(* and every fee whose sum does not overflow.                              *)
(***************************************************************************)
EXTENDS Bombard, TLAPS

\* The n-th transaction of a chain leaves what the others will pay, and the
\* fee that is to remain.
ChainInv ==
  \A c \in Secondary :
    /\ Len(made[c]) <= numTxs
    /\ \A n \in 1..Len(made[c]) :
         /\ made[c][n].in = (numTxs + 2 - n) * txFee
         /\ made[c][n].out = (numTxs + 1 - n) * txFee

IInv == TypeOK /\ ChainInv

-----------------------------------------------------------------------------
(* Arithmetic.                                                             *)

LEMMA SmallMod ==
  ASSUME NEW a \in Nat, a < Modulus
  PROVE  a % Modulus = a
  BY BombardAssumption

\* A multiple of the fee, one fee less.
LEMMA OneFeeLess ==
  ASSUME NEW n \in Nat, n > 0
  PROVE  /\ n * txFee - txFee = (n - 1) * txFee
         /\ n * txFee \in Nat
         /\ n * txFee >= txFee
<1>1. n * txFee = (n - 1) * txFee + txFee
  BY BombardAssumption
<1>2. (n - 1) * txFee \in Nat
  BY BombardAssumption
<1> QED
  BY <1>1, <1>2, BombardAssumption

\* Any number of fees up to all of them and one more is below the modulus.
LEMMA FeesFit ==
  ASSUME NEW n \in Nat, n <= numTxs + 1
  PROVE  /\ n * txFee \in Nat
         /\ n * txFee < Modulus
         /\ (n * txFee) % Modulus = n * txFee
<1>1. n * txFee \in Nat
  BY BombardAssumption
<1>2. n * txFee <= (numTxs + 1) * txFee
  BY BombardAssumption
<1>3. n * txFee < Modulus
  BY <1>1, <1>2, BombardAssumption
<1> QED
  BY <1>1, <1>3, SmallMod

LEMMA SeedAmount == seedAmount = (numTxs + 1) * txFee
  BY FeesFit, BombardAssumption DEF seedAmount

\* One step along the chain: b is one fee more than a.
LEMMA FeeStep ==
  ASSUME NEW n \in Nat, n > 0, n <= numTxs,
         NEW a, NEW b, a = n * txFee, b = (n + 1) * txFee
  PROVE  /\ a \in 0..Modulus - 1 /\ b \in 0..Modulus - 1
         /\ b - txFee = a
         /\ (b - txFee) % Modulus = a
<1>1. a \in Nat /\ a < Modulus /\ a % Modulus = a
  BY FeesFit, BombardAssumption
<1>2. n + 1 \in Nat /\ n + 1 <= numTxs + 1 /\ n + 1 > 0 /\ (n + 1) - 1 = n
  BY BombardAssumption
<1>3. b \in Nat /\ b < Modulus
  BY <1>2, FeesFit
<1>4. b - txFee = a
  BY <1>2, OneFeeLess
<1>5. a \in 0..Modulus - 1 /\ b \in 0..Modulus - 1
  BY <1>1, <1>3, BombardAssumption
<1> QED
  BY <1>1, <1>4, <1>5

\* The amounts of the next transaction continue the chain.
LEMMA NextAmountsContinue ==
  ASSUME IInv, NEW c \in Secondary, NEW n \in Nat,
         n = Len(made[c]) + 1, n <= numTxs
  PROVE  /\ NextAmounts(c) \in Amounts
         /\ NextAmounts(c).in = (numTxs + 2 - n) * txFee
         /\ NextAmounts(c).out = (numTxs + 1 - n) * txFee
<1> DEFINE last == made[c][Len(made[c])]
<1>1. made[c] \in Seq(Amounts) /\ Len(made[c]) \in Nat
  BY DEF IInv, TypeOK
<1>2. PICK left \in Nat : left = numTxs + 1 - n /\ left > 0 /\ left <= numTxs
  BY <1>1, BombardAssumption
<1>3. left + 1 = numTxs + 2 - n
  BY <1>2, BombardAssumption
<1>4. PICK out, in : out = left * txFee /\ in = (left + 1) * txFee
  OBVIOUS
<1>5. /\ out \in 0..Modulus - 1 /\ in \in 0..Modulus - 1
      /\ (in - txFee) % Modulus = out
  BY <1>2, <1>4, FeeStep
<1>6. NextAmounts(c).in = in /\ NextAmounts(c).out = out
      /\ NextAmounts(c) = [in |-> in, out |-> out]
  <2>1. CASE made[c] = << >>
    <3>1. n = 1 /\ left = numTxs
      BY <2>1, <1>2, BombardAssumption
    <3>2. in = seedAmount
      BY <3>1, <1>4, SeedAmount
    <3> QED
      BY <2>1, <3>2, <1>5 DEF NextAmounts
  <2>2. CASE made[c] # << >>
    <3>1. Len(made[c]) \in 1..Len(made[c])
      BY <1>1, <2>2
    <3>2. /\ last.in = (numTxs + 2 - Len(made[c])) * txFee
          /\ last.out = (numTxs + 1 - Len(made[c])) * txFee
      BY <3>1 DEF IInv, ChainInv
    <3>3. /\ numTxs + 2 - Len(made[c]) = left + 2
          /\ numTxs + 1 - Len(made[c]) = left + 1
      BY <1>1, <1>2, BombardAssumption
    <3>4. last.in = (left + 2) * txFee /\ last.out = in
      BY <3>2, <3>3, <1>4
    <3>5. left + 2 \in Nat /\ left + 2 > 0 /\ (left + 2) - 1 = left + 1
      BY <1>2
    <3>6. last.in - txFee = in
      BY <3>4, <3>5, <1>4, OneFeeLess
    <3>7. in % Modulus = in
      BY <1>5, SmallMod, BombardAssumption
    <3> QED
      BY <2>2, <3>4, <3>6, <3>7, <1>5 DEF NextAmounts
  <2> QED
    BY <2>1, <2>2
<1>7. NextAmounts(c) \in Amounts
  BY <1>5, <1>6 DEF Amounts
<1> QED
  BY <1>2, <1>3, <1>4, <1>6, <1>7

-----------------------------------------------------------------------------
\* The invariant holds before the test begins.
LEMMA InitIInv == Init => IInv
<1> SUFFICES ASSUME Init PROVE IInv
  OBVIOUS
<1>1. made \in [Secondary -> Seq(Amounts)]
  BY DEF Init
<1>2. TypeOK
  BY <1>1, BombardAssumption DEF Init, TypeOK, Steps, Results
<1>3. ChainInv
  BY BombardAssumption DEF Init, ChainInv
<1> QED
  BY <1>2, <1>3 DEF IInv

\* A step that makes no transaction keeps the chains as they are.
LEMMA ChainKept == ChainInv /\ UNCHANGED made => ChainInv'
  BY DEF ChainInv

\* Going on to another client keeps i within the clients.
LEMMA NextClientType ==
  ASSUME TypeOK, NEW again \in Steps \cup Results, NEW then \in Steps \cup Results,
         NextClient(again, then)
  PROVE  step' \in Steps \cup Results /\ i' \in 1..N
  BY BombardAssumption DEF TypeOK, NextClient

LEMMA TestIInv == IInv /\ Test => IInv'
<1> SUFFICES ASSUME IInv, Test PROVE IInv'
  OBVIOUS
<1> USE BombardAssumption DEF IInv, networkVars, Steps, Results
<1>1. CASE CreateAddresses
  BY <1>1, NextClientType, ChainKept DEF CreateAddresses, TypeOK
<1>2. CASE ImportGenesisFunds
  BY <1>2, ChainKept DEF ImportGenesisFunds, TypeOK
<1>3. CASE Fund
  <2>1. <<i, 0>> \in Txs
    BY DEF TypeOK, Txs, Secondary
  <2> QED
    BY <1>3, <2>1, ChainKept DEF Fund, TypeOK
<1>4. CASE FundingAccepted
  BY <1>4, NextClientType, ChainKept DEF FundingAccepted, TypeOK
<1>5. CASE FundingFails
  BY <1>5, ChainKept DEF FundingFails, End, TypeOK
<1>6. CASE BalanceVerified
  BY <1>6, ChainKept DEF BalanceVerified, TypeOK
<1>7. CASE BalanceMismatch
  BY <1>7, ChainKept DEF BalanceMismatch, End, TypeOK
<1>8. CASE GetUTXOs
  <2>1. utxos' \subseteq Secondary
    BY <1>8 DEF GetUTXOs, TypeOK, Secondary
  <2> QED
    BY <1>8, <2>1, NextClientType, ChainKept DEF GetUTXOs, TypeOK
<1>9. CASE CreateTransactions
  BY <1>9, ChainKept DEF CreateTransactions, TypeOK
<1>10. CASE CreateSingleUTXOTx
  <2> DEFINE n == Len(made[i]) + 1
             next == NextAmounts(i)
  <2>1. i \in Secondary /\ made[i] \in Seq(Amounts) /\ n \in Nat /\ n <= numTxs
    BY <1>10 DEF CreateSingleUTXOTx, TypeOK, Secondary
  <2>2. /\ next \in Amounts
        /\ next.in = (numTxs + 2 - n) * txFee
        /\ next.out = (numTxs + 1 - n) * txFee
    BY <2>1, NextAmountsContinue
  <2> HIDE DEF next
  <2>3. Append(made[i], next) \in Seq(Amounts)
    BY <2>1, <2>2
  <2>4. made' = [made EXCEPT ![i] = Append(made[i], next)]
    BY <1>10 DEF CreateSingleUTXOTx, next
  <2>5. made' \in [Secondary -> Seq(Amounts)]
    BY <2>3, <2>4 DEF TypeOK
  <2>6. TypeOK'
    BY <1>10, <2>5 DEF CreateSingleUTXOTx, TypeOK
  <2>7. ChainInv'
    <3> SUFFICES ASSUME NEW c \in Secondary
                 PROVE  /\ Len(made'[c]) <= numTxs
                        /\ \A m \in 1..Len(made'[c]) :
                             /\ made'[c][m].in = (numTxs + 2 - m) * txFee
                             /\ made'[c][m].out = (numTxs + 1 - m) * txFee
      BY DEF ChainInv
    <3>1. CASE c # i
      <4>1. made'[c] = made[c]
        BY <2>4, <3>1 DEF TypeOK
      <4> QED
        BY <4>1 DEF ChainInv
    <3>2. CASE c = i
      <4>1. made'[c] = Append(made[i], next)
        BY <2>1, <2>4, <3>2 DEF TypeOK
      <4>2. /\ Len(made'[c]) = n
            /\ made'[c][n] = next
            /\ \A m \in 1..Len(made[i]) : made'[c][m] = made[i][m]
        BY <2>1, <2>2, <4>1
      <4>3. \A m \in 1..n : m = n \/ m \in 1..Len(made[i])
        BY <2>1
      <4>4. \A m \in 1..Len(made[i]) :
              /\ made[i][m].in = (numTxs + 2 - m) * txFee
              /\ made[i][m].out = (numTxs + 1 - m) * txFee
        BY <2>1 DEF ChainInv
      <4>5. ASSUME NEW m \in 1..n
            PROVE  /\ made'[c][m].in = (numTxs + 2 - m) * txFee
                   /\ made'[c][m].out = (numTxs + 1 - m) * txFee
        <5>1. CASE m = n
          BY <5>1, <2>2, <4>2
        <5>2. CASE m \in 1..Len(made[i])
          BY <5>2, <4>2, <4>4
        <5> QED
          BY <4>3, <5>1, <5>2
      <4> QED
        BY <2>1, <4>2, <4>5
    <3> QED
      BY <3>1, <3>2
  <2> QED
    BY <2>6, <2>7
<1>11. CASE TransactionsCreated
  BY <1>11, NextClientType, ChainKept DEF TransactionsCreated, TypeOK
<1>12. CASE IssueTx
  <2>1. <<i, k>> \in Txs /\ k + 1 \in 0..numTxs + 1
    BY <1>12 DEF IssueTx, TypeOK, Txs, Secondary
  <2> QED
    BY <1>12, <2>1, ChainKept DEF IssueTx, TypeOK
<1>13. CASE IssueTxPanics
  BY <1>13, ChainKept DEF IssueTxPanics, End, TypeOK
<1>14. CASE ListIssued
  BY <1>14, NextClientType, ChainKept DEF ListIssued, TypeOK
<1>15. CASE TxConfirmed
  BY <1>15, ChainKept DEF TxConfirmed, TypeOK
<1>16. CASE AwaitFails
  BY <1>16, NextClientType, ChainKept DEF AwaitFails, TypeOK
<1>17. CASE ListConfirmed
  BY <1>17, NextClientType, ChainKept DEF ListConfirmed, TypeOK
<1>18. CASE CallFails
  BY <1>18, ChainKept DEF CallFails, End, TypeOK
<1> QED
  BY <1>1, <1>2, <1>3, <1>4, <1>5, <1>6, <1>7, <1>8, <1>9, <1>10, <1>11,
     <1>12, <1>13, <1>14, <1>15, <1>16, <1>17, <1>18 DEF Test

\* The nodes leave the test alone and only add to the views.
LEMMA NetworkIInv == IInv /\ Network => IInv'
<1> SUFFICES ASSUME IInv, Network PROVE IInv'
  OBVIOUS
<1>1. ASSUME NEW n \in Clients, NEW tx \in Txs, Accept(n, tx)
      PROVE  IInv'
  BY <1>1, ChainKept DEF IInv, Accept, TypeOK, testVars
<1>2. ASSUME NEW tx \in Txs, Reject(tx)
      PROVE  IInv'
  BY <1>2, ChainKept DEF IInv, Reject, TypeOK, testVars
<1> QED
  BY <1>1, <1>2 DEF Network

LEMMA NextIInv == IInv /\ [Next]_vars => IInv'
<1>1. IInv /\ UNCHANGED vars => IInv'
  BY ChainKept DEF IInv, TypeOK, vars, testVars, networkVars
<1> QED
  BY <1>1, TestIInv, NetworkIInv DEF Next

\* The whole invariant holds in every reachable state.
LEMMA BombardInvariant == Spec => []IInv
  BY InitIInv, NextIInv, PTL DEF Spec

\* The invariant says what the chains look like, in closed form.
LEMMA ChainsFunded == IInv => ChainsAreFunded
<1> SUFFICES ASSUME IInv, NEW c \in Secondary, NEW n \in 1..Len(made[c])
             PROVE  /\ made[c][n].in = Input(c, n)
                    /\ made[c][n].in = made[c][n].out + txFee
                    /\ made[c][n].out >= txFee
  BY DEF ChainsAreFunded
<1>1. Len(made[c]) \in Nat /\ Len(made[c]) <= numTxs
  BY DEF IInv, TypeOK, ChainInv
<1>2. /\ made[c][n].in = (numTxs + 2 - n) * txFee
      /\ made[c][n].out = (numTxs + 1 - n) * txFee
  BY DEF IInv, ChainInv
<1>3. PICK left \in Nat : left = numTxs + 1 - n /\ left > 0
  BY <1>1, BombardAssumption
<1>4. left + 1 = numTxs + 2 - n /\ (left + 1) - 1 = left
  BY <1>1, <1>3, BombardAssumption
<1>5. (left + 1) * txFee - txFee = left * txFee
  BY <1>3, <1>4, OneFeeLess
<1>6. left * txFee >= txFee /\ left * txFee \in Nat
  BY <1>3, OneFeeLess
<1>7. (left + 1) * txFee \in Nat
  BY <1>3, OneFeeLess
<1>8. made[c][n].in = (left + 1) * txFee /\ made[c][n].out = left * txFee
  BY <1>2, <1>3, <1>4
<1>9. made[c][n].in = made[c][n].out + txFee
  BY <1>5, <1>6, <1>7, <1>8, BombardAssumption
<1>10. made[c][n].in = Input(c, n)
  <2>1. CASE n = 1
    <3>1. numTxs + 2 - n = numTxs + 1
      BY <2>1, BombardAssumption
    <3> QED
      BY <1>2, <2>1, <3>1, SeedAmount DEF Input
  <2>2. CASE n # 1
    <3>1. n - 1 \in 1..Len(made[c]) /\ numTxs + 1 - (n - 1) = numTxs + 2 - n
      BY <1>1, <2>2, BombardAssumption
    <3>2. made[c][n - 1].out = (numTxs + 1 - (n - 1)) * txFee
      BY <3>1 DEF IInv, ChainInv
    <3> QED
      BY <1>2, <2>2, <3>1, <3>2 DEF Input
  <2> QED
    BY <2>1, <2>2
<1> QED
  BY <1>6, <1>8, <1>9, <1>10

-----------------------------------------------------------------------------
\* The test's state is well formed, however many clients and transactions
\* there are (bombard_executor.go:57-191).
THEOREM BombardTypeOK == Spec => []TypeOK
<1>1. IInv => TypeOK
  BY DEF IInv
<1> QED
  BY <1>1, BombardInvariant, PTL

\* However long the chains and whatever the fee, if the fees of one chain and
\* one more fit the integer type: every transaction spends what the one before
\* it left, pays one fee, and leaves at least one (tx_helper.go:96-132).
THEOREM BombardChainsAreFunded == Spec => []ChainsAreFunded
  BY ChainsFunded, BombardInvariant, PTL

-----------------------------------------------------------------------------
(* No panic.                                                               *)

\* What the earlier steps leave behind for the later ones, client by client.
FundingInv ==
  /\ step \in {"fund", "awaitFunding"} =>
       \A j \in 1..i - 1 : <<j, 0>> \in view[0]
  /\ step \in {"verify", "utxos"} =>
       /\ \A j \in Secondary : <<j, 0>> \in view[0]
       /\ \A j \in 1..i - 1 : j \in utxos /\ <<j, 0>> \in view[j]
  /\ step = "utxos" => <<i, 0>> \in view[i]
  /\ step \in {"create", "creating", "issue"} =>
       \A j \in Secondary : j \in utxos /\ <<j, 0>> \in view[j]
  /\ step = "import" => i = 1

IssueInv ==
  /\ step \in {"create", "creating"} =>
       \A j \in 1..i - 1 : Len(made[j]) = numTxs
  /\ step = "issue" =>
       /\ \A j \in Secondary : Len(made[j]) = numTxs
       /\ k >= 1
       /\ \A n \in 1..k - 1 : <<i, n>> \in issued

PanicInv == IInv /\ FundingInv /\ IssueInv /\ NeverPanics

LEMMA InitPanicInv == Init => PanicInv
  BY InitIInv DEF Init, PanicInv, FundingInv, IssueInv, NeverPanics

\* While a chain is issued its next transaction is admissible.
LEMMA NextAdmissible ==
  ASSUME PanicInv, step = "issue", k <= numTxs
  PROVE  Admissible(i, k)
<1>1. i \in Secondary /\ k \in 1..Len(made[i]) /\ Len(made[i]) = numTxs
  BY BombardAssumption
     DEF PanicInv, IInv, TypeOK, IssueInv, Secondary
<1>2. made[i] \in Seq(Amounts)
  BY <1>1 DEF PanicInv, IInv, TypeOK
<1>3. made[i][k].out \in Nat /\ made[i][k].in \in Nat
  <2>1. made[i][k] \in Amounts
    BY <1>1, <1>2
  <2> QED
    BY <2>1, BombardAssumption DEF Amounts
<1>4. /\ made[i][k].in = Input(i, k)
      /\ made[i][k].in = made[i][k].out + txFee
      /\ made[i][k].out >= txFee
  BY <1>1, ChainsFunded DEF PanicInv, ChainsAreFunded
<1>5. IF k = 1 THEN <<i, 0>> \in view[i] ELSE <<i, k - 1>> \in issued
  BY <1>1 DEF PanicInv, FundingInv, IssueInv
<1> QED
  BY <1>3, <1>4, <1>5, BombardAssumption DEF Admissible

LEMMA TestPanicInv == PanicInv /\ Test => PanicInv'
<1> SUFFICES ASSUME PanicInv, Test PROVE PanicInv'
  OBVIOUS
<1>0. IInv' /\ TypeOK
  BY TestIInv DEF PanicInv, IInv
<1>a. N \in Nat /\ i \in 1..N /\ (i < N \/ i = N)
  BY <1>0, BombardAssumption DEF TypeOK
<1>b. \A j \in 1..(i + 1) - 1 : j = i \/ j \in 1..i - 1
  BY <1>a
<1>c. i = N => \A j \in 1..N : j = i \/ j \in 1..i - 1
  BY <1>a
<1>d. \A j \in 1..1 - 1 : FALSE
  OBVIOUS
<1> USE <1>0 DEF PanicInv, FundingInv, IssueInv, NeverPanics, networkVars, Secondary,
        NextClient, End
<1>1. CASE CreateAddresses
  BY <1>1 DEF CreateAddresses, TypeOK
<1>2. CASE ImportGenesisFunds
  BY <1>2 DEF ImportGenesisFunds, TypeOK
<1>3. CASE Fund
  BY <1>3 DEF Fund, TypeOK
<1>4. CASE FundingAccepted
  <2>1. /\ step = "awaitFunding" /\ UNCHANGED <<k, utxos, made, view, issued, faults>>
        /\ \A j \in 1..i - 1 : <<j, 0>> \in view[0]
        /\ <<i, 0>> \in view[0]
    BY <1>4 DEF FundingAccepted
  <2>2. CASE i < N
    BY <1>4, <1>b, <2>1, <2>2 DEF FundingAccepted
  <2>3. CASE i = N
    <3>1. i' = 1 /\ step' = "verify"
      BY <1>4, <1>a, <2>3 DEF FundingAccepted
    <3>2. ASSUME NEW j \in 1..N PROVE <<j, 0>> \in view[0]
      BY <1>c, <2>1, <2>3
    <3> QED
      BY <1>d, <2>1, <3>1, <3>2
  <2> QED
    BY <1>a, <2>2, <2>3
<1>5. CASE FundingFails
  BY <1>5 DEF FundingFails
<1>6. CASE BalanceVerified
  BY <1>6 DEF BalanceVerified, TypeOK
<1>7. CASE BalanceMismatch
  BY <1>7 DEF BalanceMismatch
<1>8. CASE GetUTXOs
  <2>1. /\ step = "utxos" /\ UNCHANGED <<k, made, view, issued, faults>>
        /\ \A j \in 1..N : <<j, 0>> \in view[0]
        /\ utxos' = utxos \cup {i}
    BY <1>8, <1>a DEF GetUTXOs
  <2>2. /\ \A j \in 1..i - 1 : j \in utxos' /\ <<j, 0>> \in view[j]
        /\ i \in utxos' /\ <<i, 0>> \in view[i]
    BY <2>1
  <2>3. CASE i < N
    <3>1. i' = i + 1 /\ step' = "verify"
      BY <1>8, <2>3 DEF GetUTXOs
    <3>2. \A j \in 1..i' - 1 : j \in 1..(i + 1) - 1
      BY <3>1
    <3>3. ASSUME NEW j \in 1..i' - 1
          PROVE  j \in utxos' /\ <<j, 0>> \in view[j]
      BY <1>b, <2>2, <3>2
    <3> QED
      BY <2>1, <3>1, <3>3
  <2>4. CASE i = N
    <3>1. i' = 1 /\ step' = "create"
      BY <1>8, <1>a, <2>4 DEF GetUTXOs
    <3>2. ASSUME NEW j \in 1..N PROVE j \in utxos' /\ <<j, 0>> \in view[j]
      BY <1>c, <2>2, <2>4
    <3> QED
      BY <1>d, <2>1, <3>1, <3>2
  <2> QED
    BY <1>a, <2>3, <2>4
<1>9. CASE CreateTransactions
  BY <1>9 DEF CreateTransactions, TypeOK
<1>10. CASE CreateSingleUTXOTx
  <2>1. \A j \in 1..i - 1 : made'[j] = made[j]
    BY <1>10 DEF CreateSingleUTXOTx, TypeOK
  <2> QED
    BY <1>10, <2>1 DEF CreateSingleUTXOTx
<1>11. CASE TransactionsCreated
  <2>1. /\ step = "creating" /\ k' = 1
        /\ UNCHANGED <<utxos, made, view, issued, faults>>
        /\ \A j \in 1..i - 1 : Len(made[j]) = numTxs
        /\ Len(made[i]) = numTxs
    BY <1>11 DEF TransactionsCreated
  <2>2. CASE i < N
    BY <1>11, <1>b, <2>1, <2>2 DEF TransactionsCreated
  <2>3. CASE i = N
    <3>1. i' = 1 /\ step' = "issue"
      BY <1>11, <1>a, <2>3 DEF TransactionsCreated
    <3>2. \A j \in 1..N : Len(made[j]) = numTxs
      BY <1>c, <2>1, <2>3
    <3> QED
      BY <1>d, <2>1, <3>1, <3>2
  <2> QED
    BY <1>a, <2>2, <2>3
<1>12. CASE IssueTx
  <2>1. \A n \in 1..k' - 1 : n = k \/ n \in 1..k - 1
    BY <1>12 DEF IssueTx, TypeOK
  <2> QED
    BY <1>12, <2>1 DEF IssueTx, TypeOK
<1>13. CASE IssueTxPanics
  <2>1. faults # {}
    BY <1>13, NextAdmissible DEF IssueTxPanics
  <2> QED
    BY <1>13, <2>1 DEF IssueTxPanics
<1>14. CASE ListIssued
  <2>1. CASE i < N
    BY <1>14, <1>b, <2>1 DEF ListIssued
  <2>2. CASE i = N
    BY <1>14, <1>c, <1>d, <2>2 DEF ListIssued
  <2> QED
    BY <1>a, <2>1, <2>2
<1>15. CASE TxConfirmed
  BY <1>15 DEF TxConfirmed
<1>16. CASE AwaitFails
  BY <1>16 DEF AwaitFails
<1>17. CASE ListConfirmed
  BY <1>17 DEF ListConfirmed
<1>18. CASE CallFails
  BY <1>18 DEF CallFails
<1> HIDE DEF PanicInv
<1> QED
  BY <1>1, <1>2, <1>3, <1>4, <1>5, <1>6, <1>7, <1>8, <1>9, <1>10, <1>11,
     <1>12, <1>13, <1>14, <1>15, <1>16, <1>17, <1>18 DEF Test

LEMMA NetworkPanicInv == PanicInv /\ Network => PanicInv'
<1> SUFFICES ASSUME PanicInv, Network PROVE PanicInv'
  OBVIOUS
<1>0. IInv' /\ TypeOK
  BY NetworkIInv DEF PanicInv, IInv
<1>1. UNCHANGED <<step, i, k, utxos, made, issued, faults>>
  BY DEF Network, Accept, Reject, testVars
<1>2. \A n \in Clients : view[n] \subseteq view'[n]
  BY <1>0 DEF Network, Accept, Reject, TypeOK
<1>3. 0 \in Clients /\ Secondary \subseteq Clients /\ i \in Secondary
  BY <1>0, BombardAssumption DEF Clients, Secondary, TypeOK
<1>4. \A j \in 1..i - 1 : j \in Secondary
  BY <1>3, BombardAssumption DEF Secondary
<1> QED
  BY <1>0, <1>1, <1>2, <1>3, <1>4
     DEF PanicInv, FundingInv, IssueInv, NeverPanics

\* Without faults no bombard test panics, however many clients and
\* transactions there are and however far each node is behind: what was
\* waited for on one node and checked on the other is enough for the calls
\* that come later (bombard_executor.go:94-178).
THEOREM BombardNeverPanics == Spec => []NeverPanics
<1>1. PanicInv /\ UNCHANGED vars => PanicInv'
  BY NextIInv DEF PanicInv, FundingInv, IssueInv, NeverPanics, vars, testVars,
                  networkVars
<1>2. PanicInv /\ [Next]_vars => PanicInv'
  BY <1>1, TestPanicInv, NetworkPanicInv DEF Next
<1>3. PanicInv => NeverPanics
  BY DEF PanicInv
<1> QED
  BY <1>2, <1>3, InitPanicInv, PTL DEF Spec

-----------------------------------------------------------------------------
(* A healthy pass.                                                         *)

\* Without faults nothing is given up, and what the test has gone past it has
\* seen on the genesis node: the lists before that of client i, and of that
\* the transactions before the k-th.
Confirmed(c, n) == <<c, n>> \in view[0]

ConfirmInv ==
  /\ IInv
  /\ faults = {} =>
       /\ rejected = {}
       /\ step = "await" =>
            /\ k >= 1
            /\ \A c \in 1..i - 1 : \A n \in 1..numTxs : Confirmed(c, n)
            /\ \A n \in 1..k - 1 : Confirmed(i, n)
  /\ HealthyPassMeansConfirmed

LEMMA InitConfirmInv == Init => ConfirmInv
  BY InitIInv DEF Init, ConfirmInv, HealthyPassMeansConfirmed

\* A list that is through, and the next client.
LEMMA ListThrough ==
  ASSUME ConfirmInv, ListConfirmed
  PROVE  ConfirmInv'
<1>0. IInv' /\ TypeOK
  BY TestIInv DEF ConfirmInv, IInv, Test
<1>1. SUFFICES ASSUME faults = {} PROVE ConfirmInv'
  BY <1>0 DEF ConfirmInv, ListConfirmed, HealthyPassMeansConfirmed
<1>2. N \in Nat /\ i \in 1..N /\ numTxs \in Nat /\ k = numTxs + 1 /\ k' = 1
  BY <1>0, BombardAssumption DEF TypeOK, ListConfirmed
<1>3. rejected' = {} /\ view' = view /\ faults' = {}
  BY <1>1 DEF ConfirmInv, ListConfirmed, networkVars
<1>4. ASSUME NEW c \in 1..i, NEW n \in 1..numTxs PROVE Confirmed(c, n)
  <2>1. c = i \/ c \in 1..i - 1
    BY <1>2
  <2>2. n \in 1..k - 1
    BY <1>2
  <2> QED
    BY <1>1, <2>1, <2>2 DEF ConfirmInv, ListConfirmed
<1>5. CASE i < N
  <2>1. i' = i + 1 /\ step' = "await"
    BY <1>5 DEF ListConfirmed, NextClient
  <2>2. \A c \in 1..i' - 1 : c \in 1..i
    BY <1>2, <2>1
  <2>3. \A n \in 1..k' - 1 : FALSE
    BY <1>2
  <2> QED
    BY <1>0, <1>2, <1>3, <1>4, <2>1, <2>2, <2>3
       DEF ConfirmInv, Confirmed, HealthyPassMeansConfirmed
<1>6. CASE i = N
  <2>1. step' = "passed"
    BY <1>2, <1>6 DEF ListConfirmed, NextClient
  <2> QED
    BY <1>0, <1>3, <1>4, <1>6, <2>1
       DEF ConfirmInv, Confirmed, HealthyPassMeansConfirmed, Secondary
<1> QED
  BY <1>2, <1>5, <1>6

LEMMA TestConfirmInv == ConfirmInv /\ Test => ConfirmInv'
<1> SUFFICES ASSUME ConfirmInv, Test PROVE ConfirmInv'
  OBVIOUS
<1>0. IInv' /\ TypeOK
  BY TestIInv DEF ConfirmInv, IInv
<1>1. CASE ListConfirmed
  BY <1>1, ListThrough
<1>2. CASE TxConfirmed
  <2>1. \A n \in 1..k' - 1 : n = k \/ n \in 1..k - 1
    BY <1>0, <1>2 DEF TypeOK, TxConfirmed
  <2> QED
    BY <1>0, <1>2, <2>1
       DEF ConfirmInv, Confirmed, TxConfirmed, HealthyPassMeansConfirmed,
           TypeOK, networkVars
<1>3. CASE AwaitFails
  <2>1. faults # {}
    BY <1>3 DEF AwaitFails, ConfirmInv
  <2> QED
    BY <1>0, <1>3, <2>1
       DEF ConfirmInv, AwaitFails, HealthyPassMeansConfirmed
<1>4. CASE ListIssued
  <2>1. /\ k' = 1 /\ step' \in {"issue", "await"}
        /\ step' = "await" => i' = 1
        /\ UNCHANGED <<rejected, view, faults>>
    BY <1>4 DEF ListIssued, NextClient, networkVars
  <2>2. /\ \A n \in 1..1 - 1 : FALSE
        /\ 1 >= 1
    OBVIOUS
  <2> QED
    BY <1>0, <2>1, <2>2 DEF ConfirmInv, HealthyPassMeansConfirmed
<1>5. CASE /\ step \notin {"await", "issue"}
           /\ Test
  <2>1. step' \notin {"await", "passed"} /\ UNCHANGED <<rejected, faults>>
    BY <1>5 DEF Test, CreateAddresses, ImportGenesisFunds, Fund, FundingAccepted,
                FundingFails, BalanceVerified, BalanceMismatch, GetUTXOs,
                CreateTransactions, CreateSingleUTXOTx, TransactionsCreated,
                IssueTx, IssueTxPanics, ListIssued, TxConfirmed, AwaitFails,
                ListConfirmed, CallFails, NextClient, End, networkVars
  <2> QED
    BY <1>0, <2>1 DEF ConfirmInv, HealthyPassMeansConfirmed
<1>6. CASE IssueTx \/ IssueTxPanics
  <2>1. step' \notin {"await", "passed"} /\ UNCHANGED <<rejected, faults>>
    BY <1>6 DEF IssueTx, IssueTxPanics, End, networkVars
  <2> QED
    BY <1>0, <2>1 DEF ConfirmInv, HealthyPassMeansConfirmed
<1> QED
  <2>1. step \in {"await", "issue"} =>
          \/ ListConfirmed \/ TxConfirmed \/ AwaitFails \/ ListIssued
          \/ IssueTx \/ IssueTxPanics
    BY DEF Test, CreateAddresses, ImportGenesisFunds, Fund, FundingAccepted,
           FundingFails, BalanceVerified, BalanceMismatch, GetUTXOs,
           CreateTransactions, CreateSingleUTXOTx, TransactionsCreated, CallFails
  <2> QED
    BY <1>1, <1>2, <1>3, <1>4, <1>5, <1>6, <2>1

LEMMA NetworkConfirmInv == ConfirmInv /\ Network => ConfirmInv'
<1> SUFFICES ASSUME ConfirmInv, Network PROVE ConfirmInv'
  OBVIOUS
<1>0. IInv' /\ TypeOK
  BY NetworkIInv DEF ConfirmInv, IInv
<1>1. UNCHANGED <<step, i, k, faults>>
  BY DEF Network, Accept, Reject, testVars
<1>2. view[0] \subseteq view'[0]
  BY <1>0, BombardAssumption DEF Network, Accept, Reject, TypeOK, Clients
<1>3. faults = {} => rejected' = rejected
  BY DEF Network, Accept, Reject
<1> QED
  BY <1>0, <1>1, <1>2, <1>3 DEF ConfirmInv, Confirmed, HealthyPassMeansConfirmed

\* Without faults a bombard test of any size that passes has seen every
\* transaction accepted on the genesis node: the error that is dropped after
\* the awaits is then the only way past one (bombard_executor.go:182-188).
THEOREM BombardHealthyPassMeansConfirmed == Spec => []HealthyPassMeansConfirmed
<1>1. ConfirmInv /\ UNCHANGED vars => ConfirmInv'
  BY NextIInv DEF ConfirmInv, Confirmed, HealthyPassMeansConfirmed, vars, testVars,
                  networkVars
<1>2. ConfirmInv /\ [Next]_vars => ConfirmInv'
  BY <1>1, TestConfirmInv, NetworkConfirmInv DEF Next
<1>3. ConfirmInv => HealthyPassMeansConfirmed
  BY DEF ConfirmInv
<1> QED
  BY <1>2, <1>3, InitConfirmInv, PTL DEF Spec
=============================================================================

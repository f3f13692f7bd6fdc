------------------------- MODULE RunnerLedgerProofs -------------------------
(***************************************************************************)
(* Proofs about RunnerLedger: a careful test is never refused a call, and  *)
(* what it finds wrong is the doing of a node that lags behind; for every  *)
(* careful test, whatever the network does.                                *)
(***************************************************************************)
EXTENDS RPCWorkflowTest, WorkflowRunnerProofs, WellFoundedInduction

-----------------------------------------------------------------------------
(* Recursion over the natural numbers.                                     *)

\* Every set of natural numbers has a least element.
LEMMA LeastNatural ==
  ASSUME NEW T, T \subseteq Nat, T # {}
  PROVE  \E x \in T : \A y \in T : x <= y
<1> DEFINE R == {s \in Nat \X Nat : s[1] < s[2]}
<1>1. IsWellFoundedOn(R, Nat)
  BY NatLessThanWellFounded DEF OpToRel
<1> HIDE DEF R
<1>2. \E x \in T : \A y \in T : ~(<<y, x>> \in R)
  BY <1>1, WFMin
<1>3. \A x, y \in T : ~(<<y, x>> \in R) => x <= y
  <2> SUFFICES ASSUME NEW x \in T, NEW y \in T, y < x PROVE <<y, x>> \in R
    OBVIOUS
  <2> QED
    BY DEF R
<1> QED
  BY <1>2, <1>3

-----------------------------------------------------------------------------
(* Facts about the ledger.                                                 *)

LEMMA ProgramFacts ==
  ASSUME NEW Q \in Programs
  PROVE  /\ Len(Q) \in Nat
         /\ CallsOf(Q) = 1..Len(Q)
         /\ TxsOf(Q) \subseteq CallsOf(Q)
         /\ \A k \in TxsOf(Q) : /\ Q[k].amount \in Int
                                /\ Q[k].from \in AccountsOf(Q)
                                /\ Q[k].to \in AccountsOf(Q)
  BY ProgramAssumption DEF CallsOf, TxsOf, AccountsOf, Everything

\* What moving an amount from one account to another does to each account.
LEMMA MoveFacts ==
  ASSUME NEW S, NEW b \in [S -> Int], NEW from \in S, NEW to \in S, from # to,
         NEW x \in Int, NEW a \in S
  PROVE  [b EXCEPT ![from] = @ - x, ![to] = @ + x][a]
           = b[a] - (IF a = from THEN x ELSE 0) + (IF a = to THEN x ELSE 0)
  OBVIOUS

\* What an account holds after a call follows from what it held before.
LEMMA AfterFacts ==
  ASSUME NEW Q \in Programs, NEW k,
         NEW funds \in [AccountsOf(Q) -> Int]
  PROVE  /\ After(Q, k, funds) \in [AccountsOf(Q) -> Int]
         /\ k \in TxsOf(Q) => AmountOf(Q, k, funds) \in Int
<1>1. k \in TxsOf(Q) => AmountOf(Q, k, funds) \in Int
  BY ProgramFacts DEF AmountOf
<1>2. CASE k \in TxsOf(Q)
  <2> DEFINE x == AmountOf(Q, k, funds)
  <2>1. x \in Int
    BY <1>1, <1>2
  <2>2. After(Q, k, funds) = [a \in AccountsOf(Q) |->
          funds[a] - (IF a = Q[k].from THEN x ELSE 0)
                   + (IF a = Q[k].to THEN x ELSE 0)]
    BY <1>2 DEF After
  <2> HIDE DEF x
  <2>3. After(Q, k, funds) \in [AccountsOf(Q) -> Int]
    BY <2>1, <2>2
  <2> QED
    BY <1>1, <2>3
<1>3. CASE k \notin TxsOf(Q)
  BY <1>1, <1>3 DEF After
<1> QED
  BY <1>2, <1>3

-----------------------------------------------------------------------------
(* The recursive definitions define what they say.                         *)

\* The step F of a recursion uses smaller numbers only.
LooksBack(F, V) ==
  \A g, h \in [Nat -> V], n \in Nat :
    (\A i \in 0..n - 1 : g[i] = h[i]) => F[g][n] = F[h][n]

\* Such a recursion defines a function.  Its step is a function, and not an
\* operator, so that the lemma can be cited.
LEMMA RecursionExists ==
  ASSUME NEW V, NEW F \in [[Nat -> V] -> [Nat -> V]], V # {}, LooksBack(F, V)
  PROVE  \E f \in [Nat -> V] : f = F[f]
<1> USE DEF LooksBack
<1> DEFINE Upto(g, n) == \A i \in 0..n : g[i] = F[g][i]
           Good == {n \in Nat : \E g \in [Nat -> V] : Upto(g, n)}
           Bad == Nat \ Good
<1>a. \A g \in [Nat -> V], i \in Nat : F[g][i] \in V
  OBVIOUS
<1>1. \A g, h \in [Nat -> V], n \in Nat :
        Upto(g, n) /\ Upto(h, n) => \A i \in 0..n : g[i] = h[i]
  <2> SUFFICES ASSUME NEW g \in [Nat -> V], NEW h \in [Nat -> V],
                      NEW n \in Nat, Upto(g, n), Upto(h, n),
                      NEW i \in 0..n, g[i] # h[i]
               PROVE  FALSE
    OBVIOUS
  <2> DEFINE D == {j \in 0..n : g[j] # h[j]}
  <2>1. D \subseteq Nat /\ D # {}
    OBVIOUS
  <2>2. PICK j \in D : \A m \in D : j <= m
    BY <2>1, LeastNatural
  <2>3. \A m \in 0..j - 1 : g[m] = h[m]
    BY <2>2
  <2>4. j \in Nat /\ j \in 0..n
    BY <2>2
  <2>5. F[g][j] = F[h][j]
    BY <2>3, <2>4
  <2>6. g[j] = F[g][j] /\ h[j] = F[h][j]
    BY <2>4
  <2> QED
    BY <2>2, <2>5, <2>6
<1>2. Good = Nat
  <2> SUFFICES ASSUME Bad # {} PROVE FALSE
    OBVIOUS
  <2>1. PICK n \in Bad : \A m \in Bad : n <= m
    BY LeastNatural
  <2>2. n \in Nat /\ n \notin Good
    BY <2>1
  <2>3. \E g \in [Nat -> V] : \A i \in 0..n - 1 : g[i] = F[g][i]
    <3>1. CASE n = 0
      <4>1. PICK v \in V : TRUE
        OBVIOUS
      <4>2. [i \in Nat |-> v] \in [Nat -> V]
        BY <4>1
      <4>3. 0..n - 1 = {}
        BY <3>1
      <4> QED
        BY <4>2, <4>3
    <3>2. CASE n # 0
      <4>1. n - 1 \in Nat
        BY <2>2, <3>2
      <4>2. n - 1 \notin Bad
        <5>1. \A m \in Bad : m # n - 1
          <6> SUFFICES ASSUME NEW m \in Bad, m = n - 1 PROVE FALSE
            OBVIOUS
          <6>1. n <= m
            BY <2>1
          <6> HIDE DEF Bad
          <6> QED
            BY <2>2, <6>1
        <5> QED
          BY <5>1
      <4>3. \E g \in [Nat -> V] : Upto(g, n - 1)
        BY <4>1, <4>2
      <4> QED
        BY <4>3
    <3> QED
      BY <3>1, <3>2
  <2>4. PICK g \in [Nat -> V] : \A i \in 0..n - 1 : g[i] = F[g][i]
    BY <2>3
  <2> DEFINE h == [g EXCEPT ![n] = F[g][n]]
  <2>5. h \in [Nat -> V]
    BY <1>a, <2>2
  <2>6. \A i \in 0..n - 1 : h[i] = g[i]
    BY <2>2
  <2>7. h[n] = F[g][n]
    BY <2>2
  <2> HIDE DEF h
  <2>8. \A i \in 0..n : F[h][i] = F[g][i]
    BY <2>2, <2>5, <2>6
  <2>9. Upto(h, n)
    BY <2>2, <2>4, <2>6, <2>7, <2>8
  <2> QED
    BY <2>2, <2>5, <2>9
<1> DEFINE G == [n \in Nat |-> CHOOSE g \in [Nat -> V] : Upto(g, n)]
           f == [n \in Nat |-> G[n][n]]
<1>3. \A n \in Nat : G[n] \in [Nat -> V] /\ Upto(G[n], n)
  <2> SUFFICES ASSUME NEW n \in Nat
               PROVE  G[n] \in [Nat -> V] /\ Upto(G[n], n)
    OBVIOUS
  <2>1. \E g \in [Nat -> V] : Upto(g, n)
    BY <1>2
  <2>2. G[n] = CHOOSE g \in [Nat -> V] : Upto(g, n)
    OBVIOUS
  <2> HIDE DEF G, Upto
  <2> QED
    BY <2>1, <2>2, Zenon
<1>4. f \in [Nat -> V]
  BY <1>3
<1>5. \A n \in Nat : \A i \in 0..n : f[i] = G[n][i]
  <2> SUFFICES ASSUME NEW n \in Nat, NEW i \in 0..n
               PROVE  f[i] = G[n][i]
    OBVIOUS
  <2>0. i \in Nat /\ n \in Nat
    OBVIOUS
  <2>1. f[i] = G[i][i]
    BY <2>0
  <2> HIDE DEF f, G
  <2>2. /\ Upto(G[i], i) /\ G[i] \in [Nat -> V]
        /\ Upto(G[n], n) /\ G[n] \in [Nat -> V]
    BY <1>3, <2>0
  <2>3. Upto(G[n], i)
    BY <2>2
  <2>4. \A j \in 0..i : G[i][j] = G[n][j]
    <3> HIDE DEF Upto
    <3> QED
      BY <1>1, <2>0, <2>2, <2>3
  <2> QED
    BY <2>0, <2>1, <2>4
<1> HIDE DEF f, G
<1>6. \A n \in Nat : f[n] = F[f][n]
  <2> SUFFICES ASSUME NEW n \in Nat PROVE f[n] = F[f][n]
    OBVIOUS
  <2>1. \A i \in 0..n : f[i] = G[n][i]
    BY <1>5
  <2>2. G[n][n] = F[G[n]][n] /\ G[n] \in [Nat -> V]
    BY <1>3
  <2>3. F[f][n] = F[G[n]][n]
    BY <1>4, <2>1, <2>2
  <2> QED
    BY <2>1, <2>2, <2>3
<1>7. f = F[f]
  BY <1>4, <1>6
<1> QED
  BY <1>4, <1>7

InitialFunds(Q) ==
  [a \in AccountsOf(Q) |-> IF a = X("genesis") THEN GenesisFunds ELSE 0]

\* The ledger begins with what the genesis says and changes by the test's
\* calls.
LEMMA LedgerFacts ==
  ASSUME NEW Q \in Programs
  PROVE  /\ LedgerOf(Q) \in [1..Len(Q) + 1 -> [AccountsOf(Q) -> Int]]
         /\ LedgerOf(Q)[1] = InitialFunds(Q)
         /\ \A k \in CallsOf(Q) :
              LedgerOf(Q)[k + 1] = After(Q, k, LedgerOf(Q)[k])
<1> DEFINE V == [AccountsOf(Q) -> Int]
           F == [g \in [Nat -> V] |->
                  [k \in Nat |-> IF k <= 1 THEN InitialFunds(Q)
                                 ELSE After(Q, k - 1, g[k - 1])]]
           ledger[k \in Nat] ==
             IF k <= 1
               THEN [a \in AccountsOf(Q) |->
                      IF a = X("genesis") THEN GenesisFunds ELSE 0]
               ELSE LET before == ledger[k - 1] IN After(Q, k - 1, before)
<1>1. InitialFunds(Q) \in V
  BY NetworkAssumption DEF InitialFunds
<1>2. \A k, x : x \in V => After(Q, k, x) \in V
  BY AfterFacts
<1>3. F \in [[Nat -> V] -> [Nat -> V]]
  <2> HIDE DEF V
  <2>1. ASSUME NEW g \in [Nat -> V], NEW k \in Nat
        PROVE  (IF k <= 1 THEN InitialFunds(Q)
                ELSE After(Q, k - 1, g[k - 1])) \in V
    BY <1>1, <1>2
  <2> QED
    BY <2>1
<1>4. LooksBack(F, V)
  <2> USE DEF LooksBack
  <2> HIDE DEF V
  <2> SUFFICES ASSUME NEW g \in [Nat -> V], NEW h \in [Nat -> V],
                      NEW n \in Nat, \A i \in 0..n - 1 : g[i] = h[i]
               PROVE  F[g][n] = F[h][n]
    OBVIOUS
  <2>1. n > 1 => g[n - 1] = h[n - 1]
    OBVIOUS
  <2> QED
    BY <2>1
<1>5. \E f \in [Nat -> V] : f = F[f]
  <2>1. V # {}
    BY <1>1
  <2> HIDE DEF V, F
  <2> QED
    BY <2>1, <1>3, <1>4, RecursionExists
<1>6. \E f : f = [k \in Nat |-> IF k <= 1 THEN InitialFunds(Q)
                                ELSE After(Q, k - 1, f[k - 1])]
  <2> HIDE DEF V
  <2>1. PICK f \in [Nat -> V] : f = F[f]
    BY <1>5
  <2>2. f = [k \in Nat |-> IF k <= 1 THEN InitialFunds(Q)
                           ELSE After(Q, k - 1, f[k - 1])]
    BY <2>1
  <2> QED
    BY <2>2
<1>7. ledger = CHOOSE f : f = [k \in Nat |->
                 IF k <= 1 THEN InitialFunds(Q) ELSE After(Q, k - 1, f[k - 1])]
  BY DEF InitialFunds
<1>8. LedgerOf(Q) = [k \in 1..Len(Q) + 1 |-> ledger[k]]
  BY DEF LedgerOf
<1> HIDE DEF ledger
<1>9. ledger = [k \in Nat |-> IF k <= 1 THEN InitialFunds(Q)
                              ELSE After(Q, k - 1, ledger[k - 1])]
  BY <1>6, <1>7, Zenon
<1>10. \A k \in Nat : ledger[k] \in V
  <2> DEFINE Bad == {k \in Nat : ledger[k] \notin V}
  <2> HIDE DEF V
  <2> SUFFICES ASSUME Bad # {} PROVE FALSE
    OBVIOUS
  <2>1. Bad \subseteq Nat
    OBVIOUS
  <2>2. PICK k \in Bad : \A m \in Bad : k <= m
    BY <2>1, LeastNatural
  <2>3. k \in Nat /\ ledger[k] \notin V
    OBVIOUS
  <2>4. k > 1
    BY <1>1, <1>9, <2>3
  <2>5. k - 1 \in Nat /\ k - 1 \notin Bad
    BY <2>2, <2>3, <2>4
  <2> QED
    BY <1>2, <1>9, <2>3, <2>4, <2>5
<1>11. /\ Len(Q) \in Nat /\ CallsOf(Q) = 1..Len(Q)
  BY ProgramFacts
<1> HIDE DEF V
<1>12. LedgerOf(Q) \in [1..Len(Q) + 1 -> V]
  BY <1>8, <1>10, <1>11
<1>13. LedgerOf(Q)[1] = InitialFunds(Q)
  BY <1>8, <1>9, <1>11
<1>14. ASSUME NEW k \in CallsOf(Q)
       PROVE  LedgerOf(Q)[k + 1] = After(Q, k, LedgerOf(Q)[k])
  <2>1. k \in 1..Len(Q) /\ k + 1 \in 1..Len(Q) + 1 /\ k \in 1..Len(Q) + 1
        /\ k + 1 \in Nat /\ ~(k + 1 <= 1) /\ (k + 1) - 1 = k
    BY <1>11
  <2>2. ledger[k + 1] = After(Q, (k + 1) - 1, ledger[(k + 1) - 1])
    BY <1>9, <2>1
  <2> QED
    BY <1>8, <2>1, <2>2
<1> QED
  BY <1>12, <1>13, <1>14 DEF V

\* What is in a transaction's past is something it was built on, or in the
\* past of that; and all of that is, unless it spends from a source.
LEMMA PastFacts ==
  ASSUME NEW Q \in Programs, NEW k \in TxsOf(Q)
  PROVE  /\ PastOf(Q)[k] \subseteq TxsOf(Q)
         /\ \A i \in PastOf(Q)[k] :
              /\ Q[k].from \notin Sources(Q)
              /\ \/ i \in Before(Q, k, Q[k].from)
                 \/ \E j \in Before(Q, k, Q[k].from) : i \in PastOf(Q)[j]
         /\ Q[k].from \notin Sources(Q) =>
              \A j \in Before(Q, k, Q[k].from) :
                {j} \cup PastOf(Q)[j] \subseteq PastOf(Q)[k]
<1> DEFINE V == SUBSET TxsOf(Q)
           Built(n) == n \in TxsOf(Q) /\ Q[n].from \notin Sources(Q)
           E(n) == Before(Q, n, Q[n].from)
           F == [g \in [Nat -> V] |->
                  [n \in Nat |-> IF Built(n) THEN E(n) \cup UNION {g[j] : j \in E(n)}
                                 ELSE {}]]
           past[n \in Nat] ==
             IF n \in TxsOf(Q) /\ Q[n].from \notin Sources(Q)
               THEN LET earlier == Before(Q, n, Q[n].from)
                    IN  earlier \cup UNION {past[j] : j \in earlier}
               ELSE {}
<1>1. /\ TxsOf(Q) \subseteq Nat
      /\ \A n : E(n) \subseteq TxsOf(Q)
      /\ \A n \in Nat : \A j \in E(n) : j \in 0..n - 1
  BY ProgramFacts DEF Before
<1> HIDE DEF Built, E
<1>2. F \in [[Nat -> V] -> [Nat -> V]]
  <2>1. ASSUME NEW g \in [Nat -> V], NEW n \in Nat
        PROVE  (IF Built(n) THEN E(n) \cup UNION {g[j] : j \in E(n)}
                ELSE {}) \in V
    BY <1>1
  <2> HIDE DEF V
  <2> QED
    BY <2>1
<1>3. LooksBack(F, V)
  <2> HIDE DEF V
  <2> SUFFICES ASSUME NEW g \in [Nat -> V], NEW h \in [Nat -> V],
                      NEW n \in Nat, \A i \in 0..n - 1 : g[i] = h[i]
               PROVE  F[g][n] = F[h][n]
    BY DEF LooksBack
  <2>1. {g[j] : j \in E(n)} = {h[j] : j \in E(n)}
    BY <1>1
  <2> QED
    BY <2>1
<1>4. \E f \in [Nat -> V] : f = F[f]
  <2>1. V # {}
    OBVIOUS
  <2> HIDE DEF V, F
  <2> QED
    BY <1>2, <1>3, <2>1, RecursionExists
<1>5. \E f : f = [n \in Nat |->
                    IF Built(n) THEN E(n) \cup UNION {f[j] : j \in E(n)} ELSE {}]
  <2> HIDE DEF V
  <2> QED
    BY <1>4
<1>6. past = CHOOSE f : f = [n \in Nat |->
                    IF Built(n) THEN E(n) \cup UNION {f[j] : j \in E(n)} ELSE {}]
  BY DEF Built, E
<1>7. PastOf(Q) = [n \in TxsOf(Q) |-> past[n]]
  BY DEF PastOf
<1> HIDE DEF past
<1>8. past = [n \in Nat |->
                IF Built(n) THEN E(n) \cup UNION {past[j] : j \in E(n)} ELSE {}]
  BY <1>5, <1>6, Zenon
<1>s. ASSUME NEW n \in Nat, NEW i \in past[n]
      PROVE  Built(n) /\ (i \in E(n) \/ \E j \in E(n) : i \in past[j])
  <2>1. past[n] =
          IF Built(n) THEN E(n) \cup UNION {past[j] : j \in E(n)} ELSE {}
    BY <1>8
  <2>2. Built(n) /\ i \in E(n) \cup UNION {past[j] : j \in E(n)}
    BY <2>1
  <2>3. i \in UNION {past[j] : j \in E(n)} => \E j \in E(n) : i \in past[j]
    OBVIOUS
  <2> QED
    BY <2>2, <2>3
<1>9. \A n \in Nat : past[n] \subseteq TxsOf(Q)
  <2> DEFINE Bad == {n \in Nat : ~(past[n] \subseteq TxsOf(Q))}
  <2> SUFFICES ASSUME Bad # {} PROVE FALSE
    OBVIOUS
  <2>1. PICK n \in Bad : \A m \in Bad : n <= m
    <3>1. Bad \subseteq Nat
      OBVIOUS
    <3> HIDE DEF Bad
    <3> QED
      BY <3>1, LeastNatural
  <2>2. n \in Nat /\ ~(past[n] \subseteq TxsOf(Q))
    OBVIOUS
  <2>3. \A j \in 0..n - 1 : j \in Nat /\ j \notin Bad
    BY <2>1, <2>2
  <2>4. \A j \in E(n) : past[j] \subseteq TxsOf(Q)
    BY <1>1, <2>2, <2>3
  <2> QED
    BY <1>1, <1>s, <2>2, <2>4
<1>10. k \in Nat /\ Before(Q, k, Q[k].from) = E(k)
  BY <1>1 DEF E
<1>11. PastOf(Q)[k] = past[k] /\ \A j \in E(k) : PastOf(Q)[j] = past[j]
  BY <1>1, <1>7
<1>12. ASSUME NEW i \in past[k]
       PROVE  Built(k) /\ (i \in E(k) \/ \E j \in E(k) : i \in past[j])
  BY <1>s, <1>10
<1>13. Built(k) => \A j \in E(k) : {j} \cup past[j] \subseteq past[k]
  <2>1. past[k] =
          IF Built(k) THEN E(k) \cup UNION {past[j] : j \in E(k)} ELSE {}
    BY <1>8, <1>10
  <2> QED
    BY <2>1
<1> QED
  BY <1>9, <1>10, <1>11, <1>12,
     <1>13 DEF Built

-----------------------------------------------------------------------------
(* How the ledger changes.                                                 *)

Touched(Q, k, a) == k \in TxsOf(Q) /\ a \in {Q[k].from, Q[k].to}

LEMMA BeforeFacts ==
  ASSUME NEW Q \in Programs, NEW a
  PROVE  /\ \A k \in Nat : \A j : j \in Before(Q, k, a) <=>
              j \in Nat /\ j >= 1 /\ j < k /\ Touched(Q, j, a)
         /\ \A k \in Nat : Before(Q, k, a) \subseteq TxsOf(Q)
  BY ProgramFacts DEF Before, Touched

\* A call that does not touch an account leaves it alone.
LEMMA LedgerStep ==
  ASSUME NEW Q \in Programs, NEW k \in CallsOf(Q), NEW a \in AccountsOf(Q)
  PROVE  /\ LedgerOf(Q)[k][a] \in Int /\ LedgerOf(Q)[k + 1][a] \in Int
         /\ ~Touched(Q, k, a) => LedgerOf(Q)[k + 1][a] = LedgerOf(Q)[k][a]
         /\ Touched(Q, k, a) =>
              /\ AmountOf(Q, k, LedgerOf(Q)[k]) \in Int
              /\ LedgerOf(Q)[k + 1][a] = LedgerOf(Q)[k][a]
                   - (IF a = Q[k].from THEN AmountOf(Q, k, LedgerOf(Q)[k]) ELSE 0)
                   + (IF a = Q[k].to THEN AmountOf(Q, k, LedgerOf(Q)[k]) ELSE 0)
<1> DEFINE f == LedgerOf(Q)[k]
           g == LedgerOf(Q)[k + 1]
<1>1. k \in 1..Len(Q) + 1 /\ k + 1 \in 1..Len(Q) + 1
  BY ProgramFacts
<1>2. f \in [AccountsOf(Q) -> Int] /\ g \in [AccountsOf(Q) -> Int]
  BY <1>1, LedgerFacts
<1>3. g = After(Q, k, f)
  BY LedgerFacts
<1>4. k \in TxsOf(Q) => AmountOf(Q, k, f) \in Int
  BY <1>2, AfterFacts
<1> HIDE DEF f, g
<1>5. ~Touched(Q, k, a) => g[a] = f[a]
  <2>1. CASE k \in TxsOf(Q)
    BY <1>2, <1>3, <1>4, <2>1 DEF After, Touched
  <2>2. CASE k \notin TxsOf(Q)
    BY <1>3, <2>2 DEF After
  <2> QED
    BY <2>1, <2>2
<1>6. Touched(Q, k, a) =>
        g[a] = f[a] - (IF a = Q[k].from THEN AmountOf(Q, k, f) ELSE 0)
                    + (IF a = Q[k].to THEN AmountOf(Q, k, f) ELSE 0)
  BY <1>3 DEF After, Touched
<1> QED
  BY <1>2, <1>4, <1>5, <1>6 DEF f, g, Touched

\* An account holds the same before two calls if nothing between them has
\* touched it.
LEMMA LedgerUntouched ==
  ASSUME NEW Q \in Programs, NEW a \in AccountsOf(Q),
         NEW m \in 1..Len(Q) + 1, NEW k \in 1..Len(Q) + 1,
         Before(Q, m, a) = Before(Q, k, a)
  PROVE  LedgerOf(Q)[m][a] = LedgerOf(Q)[k][a]
<1>1. ASSUME NEW i \in 1..Len(Q) + 1, NEW j \in 1..Len(Q) + 1, i <= j,
             Before(Q, i, a) = Before(Q, j, a)
      PROVE  LedgerOf(Q)[i][a] = LedgerOf(Q)[j][a]
  <2> DEFINE Bad == {n \in i..j : LedgerOf(Q)[n][a] # LedgerOf(Q)[i][a]}
  <2>0. Len(Q) \in Nat /\ CallsOf(Q) = 1..Len(Q)
    BY ProgramFacts
  <2> SUFFICES ASSUME Bad # {} PROVE FALSE
    BY <1>1, <2>0
  <2>1. PICK n \in Bad : \A x \in Bad : n <= x
    <3>1. Bad \subseteq Nat
      BY <2>0
    <3> HIDE DEF Bad
    <3> QED
      BY <3>1, LeastNatural
  <2>2. n \in i..j /\ LedgerOf(Q)[n][a] # LedgerOf(Q)[i][a]
    OBVIOUS
  <2>3. n # i /\ n - 1 \in i..j /\ n - 1 \in CallsOf(Q) /\ (n - 1) + 1 = n
    BY <2>0, <2>2
  <2>4. n - 1 \notin Bad
    BY <2>1, <2>2, <2>3
  <2>5. LedgerOf(Q)[n - 1][a] = LedgerOf(Q)[i][a]
    BY <2>3, <2>4
  <2>6. Touched(Q, n - 1, a)
    BY <2>2, <2>3, <2>5, LedgerStep
  <2>7. n - 1 \in Before(Q, j, a) /\ n - 1 \notin Before(Q, i, a)
    BY <2>0, <2>2, <2>3, <2>6, BeforeFacts
  <2> QED
    BY <1>1, <2>7
<1>2. Len(Q) \in Nat
  BY ProgramFacts
<1>3. m <= k \/ k <= m
  BY <1>2
<1> QED
  BY <1>1, <1>3

\* A source never holds more later than before.
LEMMA SourceLedger ==
  ASSUME NEW Q \in Programs, FundsInPlace(Q), NEW a \in Sources(Q),
         NEW m \in 1..Len(Q) + 1, NEW k \in 1..Len(Q) + 1, m <= k
  PROVE  LedgerOf(Q)[k][a] <= LedgerOf(Q)[m][a]
<1> DEFINE Bad == {n \in m..k : ~(LedgerOf(Q)[n][a] <= LedgerOf(Q)[m][a])}
<1>0. /\ Len(Q) \in Nat /\ CallsOf(Q) = 1..Len(Q)
      /\ a \in AccountsOf(Q)
  BY ProgramFacts DEF Sources
<1>a. \A i \in 1..Len(Q) + 1 : LedgerOf(Q)[i][a] \in Int
  BY <1>0, LedgerFacts
<1> SUFFICES ASSUME Bad # {} PROVE FALSE
  BY <1>0
<1>1. PICK n \in Bad : \A x \in Bad : n <= x
  <2>1. Bad \subseteq Nat
    BY <1>0
  <2> HIDE DEF Bad
  <2> QED
    BY <2>1, LeastNatural
<1>2. n \in m..k /\ ~(LedgerOf(Q)[n][a] <= LedgerOf(Q)[m][a])
  OBVIOUS
<1>3. n # m /\ n - 1 \in m..k /\ n - 1 \in CallsOf(Q) /\ (n - 1) + 1 = n
  BY <1>0, <1>2, <1>a
<1>4. LedgerOf(Q)[n - 1][a] <= LedgerOf(Q)[m][a]
  BY <1>1, <1>2, <1>3
<1>5. LedgerOf(Q)[n][a] <= LedgerOf(Q)[n - 1][a]
  <2>1. CASE Touched(Q, n - 1, a)
    <3> DEFINE x == AmountOf(Q, n - 1, LedgerOf(Q)[n - 1])
    <3>1. n - 1 \in TxsOf(Q) /\ a = Q[n - 1].from /\ a # Q[n - 1].to
      BY <2>1 DEF Touched, Sources
    <3>2. x > 0
      BY <3>1 DEF FundsInPlace
    <3>3. /\ x \in Int /\ LedgerOf(Q)[n - 1][a] \in Int
          /\ LedgerOf(Q)[(n - 1) + 1][a] = LedgerOf(Q)[n - 1][a]
               - (IF a = Q[n - 1].from THEN x ELSE 0)
               + (IF a = Q[n - 1].to THEN x ELSE 0)
      BY <1>0, <1>3, <2>1, LedgerStep
    <3> HIDE DEF x
    <3>4. LedgerOf(Q)[n][a] = LedgerOf(Q)[n - 1][a] - x + 0
      BY <1>3, <3>1, <3>3
    <3> QED
      BY <3>2, <3>3, <3>4
  <2>2. CASE ~Touched(Q, n - 1, a)
    <3>1. /\ LedgerOf(Q)[(n - 1) + 1][a] = LedgerOf(Q)[n - 1][a]
          /\ LedgerOf(Q)[n - 1][a] \in Int
      BY <1>0, <1>3, <2>2, LedgerStep
    <3> QED
      BY <1>3, <3>1
  <2> QED
    BY <2>1, <2>2
<1>6. LedgerOf(Q)[n][a] \in Int /\ LedgerOf(Q)[n - 1][a] \in Int
      /\ LedgerOf(Q)[m][a] \in Int
  BY <1>0, <1>2, <1>3, <1>a
<1> QED
  BY <1>2, <1>4, <1>5, <1>6
-----------------------------------------------------------------------------
(* The invariant.                                                          *)

Ledger == LedgerOf(program)
Earlier(k, a) == Before(program, k, a)

\* The users and keys of a node are those of the calls the program has made.
KeysInv ==
  /\ \A n \in Nodes : \A u \in users[n] :
       \E j \in Calls : /\ j < pc /\ program[j].op = "createUser"
                        /\ program[j].node = n /\ program[j].user = u
  /\ \A j \in Calls : j < pc =>
       /\ program[j].op = "createUser" =>
            program[j].user \in users[program[j].node]
       /\ program[j].op = "addKey" =>
            <<program[j].user, program[j].account>> \in keys[program[j].node]

\* A transaction moves what the ledger says, and is built on everything that
\* has moved the funds it spends, unless these come from a source.
IssuedInv ==
  \A k \in issued :
    /\ amount[k] = AmountOf(program, k, Ledger[k])
    /\ \A j \in base[k] : j < k
    /\ program[k].from \notin Sources(program) =>
         Earlier(k, program[k].from) \subseteq base[k]

\* A node has what a transaction it has accepted was built on, and its past.
ViewInv ==
  \A n \in Nodes : \A k \in view[n] :
    /\ base[k] \subseteq view[n]
    /\ PastOf(program)[k] \subseteq view[n]

\* A check that has passed has shown what it can show.
ChecksInv ==
  \A v \in CallsTo({"verifyBalance"}) : v < pc =>
    \A j \in Earlier(v, program[v].account) :
      CheckShows(program, v, j) => j \in view[program[v].node]

\* The transactions on account a that node n has accepted.
Accepted(n, a) == {j \in view[n] : Touches(j, a)}

\* The balance of an account is the one the ledger had when it was as the
\* node has it; a source may hold more, since its transactions may come late.
BalanceInv ==
  \A n \in Nodes, a \in Accounts, m \in 1..Len(program) + 1 :
    IF a \in Sources(program)
      THEN Accepted(n, a) \subseteq Earlier(m, a) => bal[n][a] >= Ledger[m][a]
      ELSE Accepted(n, a) = Earlier(m, a) => bal[n][a] = Ledger[m][a]

-----------------------------------------------------------------------------
(* Facts the steps below share.                                            *)

LInv == KeysInv /\ IssuedInv /\ ViewInv /\ ChecksInv /\ BalanceInv

LEMMA StateFacts ==
  ASSUME IInv
  PROVE  /\ program \in Programs /\ Len(program) \in Nat
         /\ pc \in Nat /\ 1 <= pc /\ pc <= Len(program) + 1
         /\ Calls = 1..Len(program) /\ Calls = CallsOf(program)
         /\ Txs = TxsOf(program) /\ Txs \subseteq Calls
         /\ Accounts = AccountsOf(program)
         /\ issued \subseteq Txs /\ \A k \in issued : k <= pc
         /\ view \in [Nodes -> SUBSET issued]
         /\ base \in [Calls -> SUBSET issued]
         /\ bal \in [Nodes -> [Accounts -> Nat]]
         /\ \A k \in Calls : program[k].node \in Nodes
<1>1. program \in Programs
  BY DEF IInv, TypeOK
<1>2. /\ Len(program) \in Nat
      /\ CallsOf(program) = 1..Len(program)
      /\ TxsOf(program) \subseteq CallsOf(program)
  BY <1>1, ProgramFacts
<1>3. Accounts = AccountsOf(program)
  BY DEF Accounts, AccountsOf, Txs, CallsTo, Calls
<1>4. pc \in Nat /\ 1 <= pc /\ pc <= Len(program) + 1
  BY <1>2 DEF IInv, TypeOK
<1> QED
  BY <1>1, <1>2, <1>3, <1>4 DEF IInv, TypeOK, ProgressInv, Calls, Txs, Nodes

LEMMA EarlierFacts ==
  ASSUME IInv, NEW a
  PROVE  /\ \A k \in Nat : \A j : j \in Earlier(k, a) <=>
              j \in Txs /\ j < k /\ Touches(j, a)
         /\ \A j \in Txs : j \in Nat /\ j >= 1 /\ j <= Len(program)
         /\ \A j : j \in Txs => (Touched(program, j, a) <=> Touches(j, a))
  BY StateFacts DEF Earlier, Before, Touches, Touched

\* A node that has what a transaction was built on, and its past, has all
\* that moved the funds of either of its accounts.
LEMMA InOrder ==
  ASSUME IInv, Careful(program), IssuedInv,
         NEW k \in issued, NEW V, base[k] \subseteq V,
         PastOf(program)[k] \subseteq V,
         NEW a \in Accounts, a \notin Sources(program), Touches(k, a)
  PROVE  Earlier(k, a) \subseteq V
<1>1. k \in TxsOf(program)
  BY StateFacts
<1>2. CASE a = program[k].from
  BY <1>2 DEF IssuedInv
<1>3. CASE a = program[k].to
  BY <1>1, <1>3 DEF Careful, FundsInPlace, Earlier
<1> QED
  BY <1>2, <1>3 DEF Touches

\* A node that accepts a transaction has its past.
LEMMA PastIsThere ==
  ASSUME IInv, IssuedInv, ViewInv, NEW n \in Nodes, NEW k \in issued,
         base[k] \subseteq view[n]
  PROVE  PastOf(program)[k] \subseteq view[n]
<1> SUFFICES ASSUME NEW i \in PastOf(program)[k] PROVE i \in view[n]
  OBVIOUS
<1>1. program \in Programs /\ k \in TxsOf(program)
  BY StateFacts
<1>2. /\ program[k].from \notin Sources(program)
      /\ \/ i \in Before(program, k, program[k].from)
         \/ \E j \in Before(program, k, program[k].from) :
              i \in PastOf(program)[j]
  BY <1>1, PastFacts
<1>3. Before(program, k, program[k].from) \subseteq base[k]
  BY <1>2 DEF IssuedInv, Earlier
<1> QED
  BY <1>2, <1>3 DEF ViewInv

\* Of an account that is no source, a node has accepted the transactions
\* before the first one it lacks.
LEMMA FirstMissing ==
  ASSUME IInv, Careful(program), IssuedInv, ViewInv,
         NEW n \in Nodes, NEW a \in Accounts, a \notin Sources(program),
         NEW i \in Txs, i \notin view[n], Touches(i, a),
         Earlier(i, a) \subseteq view[n]
  PROVE  Accepted(n, a) = Earlier(i, a)
<1>1. i \in Nat
  BY EarlierFacts
<1>2. ASSUME NEW j \in Accepted(n, a) PROVE j \in Earlier(i, a)
  <2>1. j \in view[n] /\ Touches(j, a) /\ j \in issued /\ j \in Txs /\ j \in Nat
    BY <1>2, StateFacts, EarlierFacts DEF Accepted
  <2>2. Earlier(j, a) \subseteq view[n]
    BY <2>1, InOrder DEF ViewInv
  <2>3. ~(i < j)
    BY <1>1, <2>1, <2>2, EarlierFacts
  <2>4. i # j
    BY <2>1
  <2> QED
    BY <1>1, <2>1, <2>3, <2>4, EarlierFacts
<1>3. ASSUME NEW j \in Earlier(i, a) PROVE j \in Accepted(n, a)
  BY <1>1, <1>3, EarlierFacts DEF Accepted
<1> QED
  BY <1>2, <1>3

\* What has arrived has been accepted, and what has been accepted has been
\* issued before.
LEMMA ArrivedIsAccepted ==
  ASSUME IInv, ChecksInv, NEW n \in Nodes, NEW a \in Accounts,
         HasArrived(program, n, a, pc)
  PROVE  Earlier(pc, a) \subseteq Accepted(n, a)
<1> SUFFICES ASSUME NEW j \in Earlier(pc, a) PROVE j \in Accepted(n, a)
  OBVIOUS
<1>1. j \in Txs /\ j < pc /\ Touches(j, a) /\ j \in Nat
  BY StateFacts, EarlierFacts
<1>2. CASE program[j].node = n
  BY <1>1, <1>2 DEF IInv, ProgressInv, Accepted
<1>3. ASSUME NEW v \in CallsOf(program), v < pc, CheckShows(program, v, j),
             program[v].node = n, program[v].account = a
      PROVE  j \in view[n]
  <2>1. v \in CallsTo({"verifyBalance"}) /\ v \in Nat /\ j < v
    BY <1>3, StateFacts DEF CheckShows, CallsTo
  <2>2. j \in Earlier(v, program[v].account)
    BY <1>1, <1>3, <2>1, EarlierFacts
  <2> QED
    BY <1>3, <2>1, <2>2 DEF ChecksInv
<1> QED
  BY <1>1, <1>2, <1>3 DEF HasArrived, Earlier, Accepted

LEMMA AcceptedIsEarlier ==
  ASSUME IInv, pc \notin issued, NEW n \in Nodes, NEW a
  PROVE  Accepted(n, a) \subseteq Earlier(pc, a)
<1> SUFFICES ASSUME NEW j \in Accepted(n, a) PROVE j \in Earlier(pc, a)
  OBVIOUS
<1>1. j \in issued /\ j \in Txs /\ Touches(j, a) /\ j <= pc /\ j # pc
  BY StateFacts DEF Accepted
<1>2. j \in Nat /\ pc \in Nat
  BY <1>1, StateFacts, EarlierFacts
<1> QED
  BY <1>1, <1>2, EarlierFacts

\* Where all has arrived, a node reports what the ledger says.
LEMMA ArrivedBalance ==
  ASSUME IInv, LInv, pc \notin issued, NEW n \in Nodes, NEW a \in Accounts,
         a \notin Sources(program), Earlier(pc, a) \subseteq Accepted(n, a)
  PROVE  bal[n][a] = Ledger[pc][a]
<1>1. Accepted(n, a) = Earlier(pc, a)
  BY AcceptedIsEarlier
<1>2. pc \in 1..Len(program) + 1
  BY StateFacts
<1> QED
  BY <1>1, <1>2 DEF LInv, BalanceInv

LEMMA SourceBalance ==
  ASSUME IInv, LInv, pc \notin issued, NEW n \in Nodes,
         NEW a \in Accounts, a \in Sources(program)
  PROVE  bal[n][a] >= Ledger[pc][a]
<1>1. pc \in 1..Len(program) + 1
  BY StateFacts
<1> QED
  BY <1>1, AcceptedIsEarlier DEF LInv, BalanceInv

-----------------------------------------------------------------------------
(* The steps.                                                              *)

\* Only IssueTx makes a transaction, and only Accept moves funds.
LEMMA QuietSteps ==
  ASSUME [Next]_vars, ~IssueTx, ~\E n \in Nodes, k \in Txs : Accept(n, k)
  PROVE  UNCHANGED <<issued, amount, base, view, bal>>
<1> USE DEF networkVars, Stop
<1>1. CASE UNCHANGED vars
  BY <1>1 DEF vars
<1>2. CASE \E k \in Txs : Reject(k)
  BY <1>2 DEF Reject
<1>3. CASE DoCreateUser \/ DoAddKey \/ DoGetNodeID \/ TxAccepted
  BY <1>3 DEF DoCreateUser, DoAddKey, DoGetNodeID, TxAccepted
<1>4. CASE CallFails
  BY <1>4 DEF CallFails
<1>5. CASE TxAbandoned \/ WaitTimesOut \/ WaitFails \/ Finish
  BY <1>5 DEF TxAbandoned, WaitTimesOut, WaitFails, Finish
<1>6. CASE BalanceAsExpected \/ BalanceMismatch
  BY <1>6 DEF BalanceAsExpected, BalanceMismatch
<1>7. CASE \/ ValidatorsConverted \/ ValidatorsAsExpected
           \/ ValidatorNotConverted \/ ValidatorsMismatch
  BY <1>7 DEF ValidatorsConverted, ValidatorsAsExpected,
              ValidatorNotConverted, ValidatorsMismatch
<1> QED
  BY <1>1, <1>2, <1>3, <1>4, <1>5, <1>6, <1>7 DEF Next, Runner, Network

\* The test, and all that can be read off it, stays the same.
LEMMA SameTest ==
  ASSUME [Next]_vars
  PROVE  /\ program' = program /\ Calls' = Calls /\ Txs' = Txs
         /\ Nodes' = Nodes /\ Accounts' = Accounts
         /\ Ledger' = Ledger
         /\ Sources(program)' = Sources(program)
         /\ PastOf(program)' = PastOf(program)
         /\ Careful(program)' = Careful(program)
         /\ \A k, a : Earlier(k, a)' = Earlier(k, a)
         /\ \A k, a : Touches(k, a)' = Touches(k, a)
         /\ \A k, f : AmountOf(program, k, f)' = AmountOf(program, k, f)
         /\ \A v, j : CheckShows(program, v, j)' = CheckShows(program, v, j)
         /\ \A s : CallsTo(s)' = CallsTo(s)
<1>1. program' = program /\ Calls' = Calls /\ Txs' = Txs
      /\ Nodes' = Nodes /\ Accounts' = Accounts
  BY SameProgram
<1> QED
  BY <1>1 DEF Ledger, Earlier, Touches, CallsTo

\* What IssueTx does, without the function updates.
LEMMA IssueShape ==
  ASSUME IInv, IssueTx
  PROVE  /\ pc \in Txs /\ pc \notin issued
         /\ issued' = issued \cup {pc}
         /\ Call.node \in Nodes /\ Call.from \in Accounts
         /\ amount'[pc] = Wanted
         /\ base'[pc] = Accepted(Call.node, Call.from)
         /\ \A k \in issued : amount'[k] = amount[k] /\ base'[k] = base[k]
         /\ UNCHANGED <<program, pc, users, keys, view, bal>>
         /\ Admissible
<1>1. /\ pc \in Txs /\ pc \notin issued
      /\ issued' = issued \cup {pc} /\ issued \subseteq Calls /\ pc \in Calls
  BY IssueFacts
<1>2. /\ amount' = [amount EXCEPT ![pc] = Wanted]
      /\ base' = [base EXCEPT ![pc] = Accepted(Call.node, Call.from)]
      /\ UNCHANGED <<program, pc, users, keys, view, bal>>
      /\ Admissible
  BY DEF IssueTx, Accepted
<1>3. amount \in [Calls -> Nat] /\ base \in [Calls -> SUBSET issued]
  BY DEF IInv, TypeOK
<1>4. Call.node \in Nodes /\ Call.from \in Accounts
  BY <1>1, TxFacts DEF Call, IInv
<1> QED
  BY <1>1, <1>2, <1>3, <1>4

\* A transaction the test issues spends what the ledger says, on everything
\* that has moved it.
LEMMA IssueIssuedInv ==
  ASSUME IInv, LInv, Careful(program), IssueTx, [Next]_vars
  PROVE  IssuedInv'
<1> DEFINE n == Call.node
           a == Call.from
<1>1. /\ pc \in TxsOf(program) /\ pc \in Txs /\ n \in Nodes /\ a \in Accounts
      /\ n = program[pc].node /\ a = program[pc].from
  BY IssueShape, StateFacts DEF Call
<1>2. a \notin Sources(program) =>
        /\ Earlier(pc, a) \subseteq Accepted(n, a)
        /\ bal[n][a] = Ledger[pc][a]
  <2> SUFFICES ASSUME a \notin Sources(program)
               PROVE  /\ Earlier(pc, a) \subseteq Accepted(n, a)
                      /\ bal[n][a] = Ledger[pc][a]
    OBVIOUS
  <2>1. HasArrived(program, n, a, pc)
    BY <1>1 DEF Careful, FundsInPlace
  <2> HIDE DEF n, a
  <2>2. Earlier(pc, a) \subseteq Accepted(n, a)
    BY <1>1, <2>1, ArrivedIsAccepted DEF LInv
  <2> QED
    BY <1>1, <2>2, ArrivedBalance, IssueShape
<1>3. Wanted = AmountOf(program, pc, Ledger[pc])
  <2>1. CASE Call.amount = Everything
    <3>1. a \notin Sources(program)
      BY <1>1, <2>1 DEF Careful, FundsInPlace, Call
    <3> QED
      BY <1>1, <1>2, <2>1, <3>1 DEF Wanted, AmountOf, Call
  <2>2. CASE Call.amount # Everything
    BY <2>2 DEF Wanted, AmountOf, Call
  <2> QED
    BY <2>1, <2>2
<1>4. \A j \in Accepted(n, a) : j < pc
  <2> HIDE DEF n, a
  <2> QED
    BY <1>1, IssueShape, AcceptedIsEarlier, EarlierFacts, StateFacts
<1>5. ASSUME NEW k \in issued'
      PROVE  /\ amount'[k] = AmountOf(program, k, Ledger[k])
             /\ \A j \in base'[k] : j < k
             /\ program[k].from \notin Sources(program) =>
                  Earlier(k, program[k].from) \subseteq base'[k]
  <2>1. CASE k = pc
    BY <1>1, <1>2, <1>3, <1>4, <2>1, IssueShape
  <2>2. CASE k \in issued
    BY <2>2, IssueShape DEF LInv, IssuedInv
  <2> QED
    BY <1>5, <2>1, <2>2, IssueShape
<1>6. program' = program /\ Ledger' = Ledger
  BY SameTest
<1> QED
  BY <1>5, <1>6 DEF IssuedInv, Earlier

\* No node has accepted a transaction before it is issued.
LEMMA IssueViewInv ==
  ASSUME IInv, LInv, IssueTx, [Next]_vars
  PROVE  ViewInv'
<1> SUFFICES ASSUME NEW n \in Nodes, NEW k \in view[n]
             PROVE  base'[k] \subseteq view[n] /\ PastOf(program)[k] \subseteq view[n]
  BY SameTest, IssueShape DEF ViewInv
<1>1. k \in issued
  BY StateFacts
<1> QED
  BY <1>1, IssueShape DEF LInv, ViewInv

\* A transaction of a careful test, and its place in the test.
LEMMA TxPlace ==
  ASSUME IInv, Careful(program), NEW k \in Txs
  PROVE  /\ program[k].from # program[k].to /\ program \in Programs
         /\ k \in CallsOf(program)
         /\ k \in Nat /\ k \in 1..Len(program) + 1
         /\ k + 1 \in 1..Len(program) + 1 /\ Len(program) \in Nat
         /\ \A a : Touches(k, a) <=> Touched(program, k, a)
<1>1. /\ program \in Programs /\ k \in TxsOf(program)
      /\ k \in 1..Len(program) /\ Len(program) \in Nat
      /\ k \in CallsOf(program)
  BY StateFacts
<1>2. program[k].from # program[k].to
  BY <1>1 DEF Careful, FundsInPlace
<1>3. /\ k \in Nat /\ k \in 1..Len(program) + 1
      /\ k + 1 \in 1..Len(program) + 1
  BY <1>1
<1>4. \A a : Touches(k, a) <=> Touched(program, k, a)
  BY <1>1 DEF Touches, Touched
<1> QED
  BY <1>1, <1>2, <1>3, <1>4

\* What Accept does, without the function updates.
LEMMA AcceptShape ==
  ASSUME IInv, NEW n \in Nodes, NEW k \in Txs, Accept(n, k),
         program[k].from # program[k].to
  PROVE  /\ k \in issued /\ k \notin view[n] /\ base[k] \subseteq view[n]
         /\ \A j \in view[n] : ~Conflict(j, k)
         /\ view'[n] = view[n] \cup {k}
         /\ \A m \in Nodes : m # n => view'[m] = view[m] /\ bal'[m] = bal[m]
         /\ amount[k] \in Int
         /\ \A a \in Accounts :
              bal'[n][a] = bal[n][a]
                - (IF a = program[k].from THEN amount[k] ELSE 0)
                + (IF a = program[k].to THEN amount[k] ELSE 0)
         /\ UNCHANGED <<program, pc, users, keys, issued, amount, base>>
<1> DEFINE from == program[k].from
           to == program[k].to
<1>1. /\ k \in issued /\ k \notin view[n] /\ base[k] \subseteq view[n]
      /\ view' = [view EXCEPT ![n] = @ \cup {k}]
      /\ UNCHANGED <<program, pc, users, keys, issued, amount, base>>
  BY DEF Accept, runnerVars
<1>2. \A j \in view[n] : ~Conflict(j, k)
  BY StateFacts DEF Accept
<1>3. /\ view \in [Nodes -> SUBSET issued]
      /\ bal[n] \in [Accounts -> Int] /\ bal \in [Nodes -> [Accounts -> Nat]]
      /\ amount[k] \in Int
      /\ from \in Accounts /\ to \in Accounts
  BY TxFacts DEF IInv, TypeOK
<1>4. bal' = [bal EXCEPT ![n] = [bal[n] EXCEPT ![from] = @ - amount[k],
                                               ![to] = @ + amount[k]]]
  BY <1>3 DEF Accept
<1> HIDE DEF from, to
<1>5. bal'[n] = [bal[n] EXCEPT ![from] = @ - amount[k], ![to] = @ + amount[k]]
  BY <1>3, <1>4
<1>6. \A a \in Accounts :
        bal'[n][a] = bal[n][a] - (IF a = from THEN amount[k] ELSE 0)
                               + (IF a = to THEN amount[k] ELSE 0)
  <2>1. from # to
    BY DEF from, to
  <2> QED
    BY <1>3, <1>5, <2>1, MoveFacts
<1>7. \A m \in Nodes : m # n => view'[m] = view[m] /\ bal'[m] = bal[m]
  BY <1>1, <1>3, <1>4
<1>8. view'[n] = view[n] \cup {k}
  BY <1>1, <1>3
<1> QED
  BY <1>1, <1>2, <1>3, <1>6, <1>7, <1>8 DEF from, to

\* A node that accepts a transaction has accepted what it was built on.
LEMMA AcceptViewInv ==
  ASSUME IInv, LInv, Careful(program), NEW n \in Nodes, NEW k \in Txs,
         Accept(n, k), [Next]_vars
  PROVE  ViewInv'
<1>1. program[k].from # program[k].to
  BY StateFacts DEF Careful, FundsInPlace
<1>2. PastOf(program)[k] \subseteq view[n]
  BY <1>1, AcceptShape, PastIsThere DEF LInv
<1>3. ASSUME NEW m \in Nodes, NEW j \in view'[m]
      PROVE  base[j] \subseteq view'[m] /\ PastOf(program)[j] \subseteq view'[m]
  BY <1>1, <1>2, <1>3, AcceptShape DEF LInv, ViewInv
<1>4. UNCHANGED <<base, program>>
  BY <1>1, AcceptShape
<1> QED
  BY <1>3, <1>4, SameTest DEF ViewInv

\* It has the balance the ledger says it has then.
LEMMA AcceptBalance ==
  ASSUME IInv, LInv, Careful(program), NEW n \in Nodes, NEW k \in Txs,
         Accept(n, k), NEW a \in Accounts, a \notin Sources(program),
         Touches(k, a), NEW m \in 1..Len(program) + 1,
         Accepted(n, a) \cup {k} = Earlier(m, a)
  PROVE  bal'[n][a] = Ledger[m][a]
<1>0. /\ program[k].from # program[k].to /\ program \in Programs
      /\ k \in CallsOf(program) /\ a \in AccountsOf(program)
      /\ k \in Nat /\ k \in 1..Len(program) + 1 /\ k + 1 \in 1..Len(program) + 1
      /\ Touched(program, k, a)
  BY TxPlace, StateFacts
<1>1. Accepted(n, a) = Earlier(k, a)
  <2>1. PastOf(program)[k] \subseteq view[n]
    BY <1>0, AcceptShape, PastIsThere DEF LInv
  <2>2. Earlier(k, a) \subseteq view[n]
    BY <1>0, <2>1, AcceptShape, InOrder DEF LInv
  <2> QED
    BY <1>0, <2>2, AcceptShape, FirstMissing DEF LInv
<1>2. bal[n][a] = Ledger[k][a]
  BY <1>0, <1>1 DEF LInv, BalanceInv
<1>3. amount[k] = AmountOf(program, k, Ledger[k])
  BY <1>0, AcceptShape DEF LInv, IssuedInv
<1>4. bal'[n][a] = Ledger[k + 1][a]
  BY <1>0, <1>2, <1>3, AcceptShape, LedgerStep DEF Ledger
<1>5. Earlier(k + 1, a) = Earlier(m, a)
  <2>1. \A j : j \in Earlier(k + 1, a) <=> j \in Earlier(k, a) \/ j = k
    <3>1. k + 1 \in Nat /\ \A j \in Txs : j < k + 1 <=> j < k \/ j = k
      BY <1>0, EarlierFacts
    <3> QED
      BY <1>0, <3>1, EarlierFacts
  <2> QED
    BY <1>1, <2>1
<1> QED
  BY <1>0, <1>4, <1>5, LedgerUntouched DEF Ledger, Earlier

\* Of a source, a node accepts the transactions in the order of the test; it
\* has at least what the ledger says.
LEMMA AcceptSource ==
  ASSUME IInv, LInv, Careful(program), NEW n \in Nodes, NEW k \in Txs,
         Accept(n, k), NEW a \in Accounts, a \in Sources(program),
         Touches(k, a), NEW m \in 1..Len(program) + 1, k \in Earlier(m, a)
  PROVE  bal'[n][a] >= Ledger[m][a]
<1>0. /\ program[k].from # program[k].to /\ program \in Programs
      /\ k \in CallsOf(program) /\ a \in AccountsOf(program)
      /\ k \in Nat /\ k \in 1..Len(program) + 1 /\ k + 1 \in 1..Len(program) + 1
      /\ Touched(program, k, a) /\ m \in Nat /\ k < m /\ k + 1 <= m
  BY StateFacts, EarlierFacts DEF Careful, FundsInPlace
<1>1. Accepted(n, a) \subseteq Earlier(k, a)
  <2> SUFFICES ASSUME NEW j \in Accepted(n, a) PROVE j \in Earlier(k, a)
    OBVIOUS
  <2>1. /\ j \in view[n] /\ Touches(j, a) /\ j \in Txs /\ j \in issued
        /\ j \in Nat
    BY StateFacts, EarlierFacts DEF Accepted
  <2>2. program[j].from = a /\ program[k].from = a
    BY <2>1, StateFacts DEF Touches, Sources
  <2>3. j # k /\ ~Conflict(j, k)
    BY <1>0, <2>1, AcceptShape
  <2>4. k \notin base[j]
    BY <1>0, <2>1, AcceptShape DEF LInv, ViewInv
  <2>5. j \in base[k]
    BY <2>2, <2>3, <2>4 DEF Conflict
  <2>6. j < k
    BY <1>0, <2>5, AcceptShape DEF LInv, IssuedInv
  <2> QED
    BY <1>0, <2>1, <2>6, EarlierFacts
<1>2. bal[n][a] >= Ledger[k][a]
  BY <1>0, <1>1 DEF LInv, BalanceInv
<1>3. amount[k] = AmountOf(program, k, Ledger[k])
  BY <1>0, AcceptShape DEF LInv, IssuedInv
<1>4. bal'[n][a] >= Ledger[k + 1][a]
  <2>1. a = program[k].from /\ a # program[k].to
    BY <1>0, StateFacts DEF Touches, Sources
  <2>2. bal'[n][a] = bal[n][a] - amount[k] + 0
    BY <1>0, <2>1, AcceptShape
  <2>3. /\ Ledger[k + 1][a] = Ledger[k][a] - amount[k] + 0
        /\ Ledger[k][a] \in Int
    BY <1>0, <1>3, <2>1, LedgerStep DEF Ledger
  <2>4. bal[n][a] \in Int /\ amount[k] \in Int
    BY <1>0, StateFacts, AcceptShape
  <2> QED
    BY <1>2, <2>2, <2>3, <2>4
<1>5. Ledger[m][a] <= Ledger[k + 1][a]
  BY <1>0, SourceLedger DEF Ledger, Careful
<1>6. /\ Ledger[m][a] \in Int /\ Ledger[k + 1][a] \in Int
  BY <1>0, LedgerFacts DEF Ledger
<1>7. bal'[n][a] \in Int
  <2>1. bal[n][a] \in Int
    BY StateFacts
  <2> QED
    BY <1>0, <2>1, AcceptShape
<1> QED
  BY <1>4, <1>5, <1>6, <1>7

LEMMA AcceptBalanceInv ==
  ASSUME IInv, LInv, Careful(program), NEW n \in Nodes, NEW k \in Txs,
         Accept(n, k), [Next]_vars
  PROVE  BalanceInv'
<1>0. program[k].from # program[k].to
  BY TxPlace
<1>a. \A m \in Nodes : \A a : Accepted(m, a)' = {j \in view'[m] : Touches(j, a)}
  BY SameTest DEF Accepted
<1>b. ASSUME NEW m \in Nodes, NEW a \in Accounts, m # n \/ ~Touches(k, a)
      PROVE  Accepted(m, a)' = Accepted(m, a) /\ bal'[m][a] = bal[m][a]
  <2>1. {j \in view'[m] : Touches(j, a)} = {j \in view[m] : Touches(j, a)}
    BY <1>0, <1>b, AcceptShape
  <2>2. CASE m # n
    BY <1>0, <1>a, <2>1, <2>2, AcceptShape DEF Accepted
  <2>3. CASE m = n
    <3>1. a # program[k].from /\ a # program[k].to
      BY <1>b, <2>3 DEF Touches
    <3>2. bal[n][a] \in Int
      BY StateFacts
    <3>3. bal'[n][a] = bal[n][a] - 0 + 0
      BY <1>0, <3>1, AcceptShape
    <3> QED
      BY <1>a, <2>1, <2>3, <3>2, <3>3 DEF Accepted
  <2> QED
    BY <2>2, <2>3
<1>c. ASSUME NEW a \in Accounts, Touches(k, a)
      PROVE  Accepted(n, a)' = Accepted(n, a) \cup {k}
  <2>1. view'[n] = view[n] \cup {k}
    BY <1>0, AcceptShape
  <2>2. {j \in view'[n] : Touches(j, a)}
          = {j \in view[n] : Touches(j, a)} \cup {k}
    BY <1>c, <2>1
  <2> QED
    BY <1>a, <2>2 DEF Accepted
<1>1. ASSUME NEW m \in Nodes, NEW a \in Accounts, NEW i \in 1..Len(program) + 1,
             a \in Sources(program), Accepted(m, a)' \subseteq Earlier(i, a)
      PROVE  bal'[m][a] >= Ledger[i][a]
  <2>1. CASE m # n \/ ~Touches(k, a)
    BY <1>1, <1>b, <2>1 DEF LInv, BalanceInv
  <2>2. CASE m = n /\ Touches(k, a)
    BY <1>1, <1>c, <2>2, AcceptSource
  <2> QED
    BY <2>1, <2>2
<1>2. ASSUME NEW m \in Nodes, NEW a \in Accounts, NEW i \in 1..Len(program) + 1,
             a \notin Sources(program), Accepted(m, a)' = Earlier(i, a)
      PROVE  bal'[m][a] = Ledger[i][a]
  <2>1. CASE m # n \/ ~Touches(k, a)
    BY <1>2, <1>b, <2>1 DEF LInv, BalanceInv
  <2>2. CASE m = n /\ Touches(k, a)
    BY <1>2, <1>c, <2>2, AcceptBalance
  <2> QED
    BY <2>1, <2>2
<1>3. /\ Nodes' = Nodes /\ Accounts' = Accounts /\ program' = program
      /\ Sources(program)' = Sources(program) /\ Ledger' = Ledger
      /\ \A i, a : Earlier(i, a)' = Earlier(i, a)
  BY SameTest
<1> QED
  BY <1>1, <1>2, <1>3 DEF BalanceInv

\* The runner goes past a call only by making it.
LEMMA CallDone ==
  ASSUME IInv, [Next]_vars
  PROVE  /\ pc' = pc \/ (pc' = pc + 1 /\ pc \in Calls)
         /\ pc' = pc + 1 =>
              /\ Call.op = "createUser" => DoCreateUser
              /\ Call.op = "addKey" => DoAddKey
              /\ Call.op = "verifyBalance" => BalanceAsExpected
         /\ DoCreateUser \/ users' = users
         /\ DoAddKey \/ keys' = keys
<1> USE DEF At, Proceed, Stop, networkVars, runnerVars
<1>0. pc \in Nat
  BY StateFacts
<1>1. CASE UNCHANGED vars
  BY <1>0, <1>1 DEF vars
<1>2. CASE Network
  <2>1. UNCHANGED <<pc, users, keys>>
    BY <1>2 DEF Network, Accept, Reject
  <2> QED
    BY <1>0, <2>1
<1>3. CASE DoCreateUser \/ DoAddKey \/ DoGetNodeID
  BY <1>3 DEF DoCreateUser, DoAddKey, DoGetNodeID
<1>4. CASE IssueTx
  BY <1>0, <1>4 DEF IssueTx
<1>5. CASE CallFails
  BY <1>0, <1>5 DEF CallFails
<1>6. CASE TxAccepted
  <2>1. pc \in Txs /\ Call.op = "tx" /\ pc \in Calls
    BY <1>6, StateFacts DEF TxAccepted, IInv, ProgressInv, Call, Txs, TxsOf
  <2> QED
    BY <1>6, <2>1 DEF TxAccepted
<1>7. CASE TxAbandoned \/ WaitTimesOut \/ WaitFails \/ Finish
  BY <1>0, <1>7 DEF TxAbandoned, WaitTimesOut, WaitFails, Finish
<1>8. CASE BalanceAsExpected \/ ValidatorsConverted \/ ValidatorsAsExpected
  BY <1>8 DEF BalanceAsExpected, ValidatorsConverted, ValidatorsAsExpected
<1>9. CASE BalanceMismatch \/ ValidatorNotConverted \/ ValidatorsMismatch
  <2>1. UNCHANGED <<pc, users, keys>>
    BY <1>9 DEF BalanceMismatch, ValidatorNotConverted, ValidatorsMismatch
  <2> QED
    BY <1>0, <2>1
<1> QED
  BY <1>1, <1>2, <1>3, <1>4, <1>5, <1>6, <1>7, <1>8, <1>9 DEF Next, Runner

\* What a node has accepted it keeps.
LEMMA ViewsGrow ==
  ASSUME IInv, Careful(program), [Next]_vars, NEW n \in Nodes
  PROVE  view[n] \subseteq view'[n]
<1>1. CASE IssueTx
  BY <1>1, IssueShape
<1>2. ASSUME NEW m \in Nodes, NEW k \in Txs, Accept(m, k)
      PROVE  view[n] \subseteq view'[n]
  BY <1>2, TxPlace, AcceptShape
<1> QED
  BY <1>1, <1>2, QuietSteps

\* A check passes only at a node that has accepted what the check shows:
\* with the first missing transaction the balance would have been another.
LEMMA PassedCheckShows ==
  ASSUME IInv, LInv, Careful(program), BalanceAsExpected,
         NEW j \in Earlier(pc, Call.account), CheckShows(program, pc, j)
  PROVE  j \in view[Call.node]
<1> DEFINE n == Call.node
           a == Call.account
           Missing == {i \in Earlier(pc, a) : i \notin view[n]}
<1>1. /\ pc \in CallsOf(program) /\ program[pc].op = "verifyBalance"
      /\ n \in Nodes /\ a = program[pc].account
      /\ bal[n][a] = program[pc].expected
  BY StateFacts DEF BalanceAsExpected, At, Call
<1>2. a \in Accounts /\ a \notin Sources(program)
  BY <1>1, StateFacts DEF Careful, ChecksInPlace, AccountsOf
<1> HIDE DEF n, a
<1>3. \A i \in Earlier(pc, a) : i \in Txs /\ i < pc /\ Touches(i, a) /\ i \in Nat
                                /\ i \in 1..Len(program) + 1
  <2> SUFFICES ASSUME NEW i \in Earlier(pc, a)
               PROVE  /\ i \in Txs /\ i < pc /\ Touches(i, a) /\ i \in Nat
                      /\ i \in 1..Len(program) + 1
    OBVIOUS
  <2>1. pc \in Nat /\ Len(program) \in Nat
    BY StateFacts
  <2>2. i \in Txs /\ i < pc /\ Touches(i, a)
    BY <2>1, EarlierFacts
  <2>3. i \in Nat /\ i >= 1 /\ i <= Len(program)
    BY <2>2, EarlierFacts
  <2> QED
    BY <2>1, <2>2, <2>3
<1> SUFFICES ASSUME j \notin view[n] PROVE FALSE
  BY DEF n
<1>4. j \in Earlier(pc, a)
  BY DEF a
<1>5. PICK i \in Missing : \A x \in Missing : i <= x
  <2>1. Missing \subseteq Nat /\ Missing # {}
    BY <1>3, <1>4
  <2> HIDE DEF Missing
  <2> QED
    BY <2>1, LeastNatural
<1>6. /\ i \in Earlier(pc, a) /\ i \notin view[n] /\ i <= j
      /\ i \in Txs /\ Touches(i, a) /\ i \in Nat
  BY <1>3, <1>4, <1>5
<1>7. Earlier(i, a) \subseteq view[n]
  <2> SUFFICES ASSUME NEW x \in Earlier(i, a), x \notin view[n] PROVE FALSE
    OBVIOUS
  <2>1. x \in Txs /\ x < i /\ Touches(x, a) /\ x \in Nat
    BY <1>6, EarlierFacts
  <2>2. x \in Earlier(pc, a)
    BY <1>3, <1>6, <2>1, EarlierFacts, StateFacts
  <2> QED
    BY <1>5, <1>6, <2>1, <2>2
<1>8. Accepted(n, a) = Earlier(i, a)
  BY <1>1, <1>2, <1>6, <1>7, FirstMissing DEF LInv
<1>9. bal[n][a] = Ledger[i][a]
  BY <1>1, <1>2, <1>3, <1>6, <1>8 DEF LInv, BalanceInv
<1>10. i \in 1..j
  BY <1>3, <1>4, <1>6, EarlierFacts
<1>11. Ledger[i][a] # program[pc].expected
  BY <1>1, <1>10 DEF CheckShows, Ledger
<1> QED
  BY <1>1, <1>9, <1>11

LEMMA ChecksStep ==
  ASSUME IInv, LInv, Careful(program), [Next]_vars
  PROVE  ChecksInv'
<1>1. ASSUME NEW v \in CallsTo({"verifyBalance"}), v < pc',
             NEW j \in Earlier(v, program[v].account),
             CheckShows(program, v, j)
      PROVE  j \in view'[program[v].node]
  <2>1. v \in Calls /\ program[v].op = "verifyBalance" /\ v \in Nat
        /\ program[v].node \in Nodes
    BY StateFacts DEF CallsTo
  <2>2. j \in view[program[v].node]
    <3>1. CASE v < pc
      BY <1>1, <3>1 DEF LInv, ChecksInv
    <3>2. CASE ~(v < pc)
      <4>1. v = pc /\ pc' = pc + 1
        BY <1>1, <2>1, <3>2, CallDone, StateFacts
      <4>2. BalanceAsExpected
        BY <2>1, <4>1, CallDone DEF Call
      <4> QED
        BY <1>1, <4>1, <4>2, PassedCheckShows DEF Call
    <3> QED
      BY <3>1, <3>2
  <2> QED
    BY <2>1, <2>2, ViewsGrow
<1>2. /\ program' = program
      /\ \A v, a : Earlier(v, a)' = Earlier(v, a)
      /\ \A v, j : CheckShows(program, v, j)' = CheckShows(program, v, j)
      /\ CallsTo({"verifyBalance"})' = CallsTo({"verifyBalance"})
  BY SameTest
<1> QED
  BY <1>1, <1>2 DEF ChecksInv

LEMMA KeysStep ==
  ASSUME IInv, LInv, [Next]_vars
  PROVE  KeysInv'
<1>0. /\ program' = program /\ Calls' = Calls /\ Nodes' = Nodes
      /\ pc \in Nat /\ \A j \in Calls : j \in Nat /\ program[j].node \in Nodes
  BY SameTest, StateFacts
<1>1. pc' = pc \/ (pc' = pc + 1 /\ pc \in Calls)
  BY CallDone
<1>2. \A j \in Calls : j < pc' => j < pc \/ (j = pc /\ pc' = pc + 1)
  BY <1>0, <1>1
<1>3. \A j \in Calls : j < pc => j < pc'
  BY <1>0, <1>1
<1>4. /\ DoCreateUser =>
           /\ pc \in Calls /\ Call.op = "createUser" /\ pc' = pc + 1
           /\ users' = [users EXCEPT ![Call.node] = @ \cup {Call.user}]
      /\ DoAddKey =>
           keys' = [keys EXCEPT ![Call.node]
                                  = @ \cup {<<Call.user, Call.account>>}]
  BY DEF DoCreateUser, DoAddKey, At, Proceed
<1>5. /\ users \in [Nodes -> SUBSET Users]
      /\ keys \in [Nodes -> SUBSET (Users \X Accounts)]
  BY DEF IInv, TypeOK
<1>6. \A n \in Nodes : users[n] \subseteq users'[n] /\ keys[n] \subseteq keys'[n]
  <2>1. CASE DoCreateUser
    <3>1. keys' = keys
      BY <2>1 DEF DoCreateUser
    <3> QED
      BY <1>4, <1>5, <2>1, <3>1
  <2>2. CASE DoAddKey
    <3>1. users' = users
      BY <2>2 DEF DoAddKey
    <3> QED
      BY <1>4, <1>5, <2>2, <3>1
  <2> QED
    BY <2>1, <2>2, CallDone
<1>7. ASSUME NEW n \in Nodes, NEW u \in users'[n]
      PROVE  \E j \in Calls : /\ j < pc' /\ program[j].op = "createUser"
                              /\ program[j].node = n /\ program[j].user = u
  <2>1. CASE u \in users[n]
    BY <1>3, <2>1 DEF LInv, KeysInv
  <2>2. CASE u \notin users[n]
    <3>1. DoCreateUser
      BY <1>7, <2>2, CallDone
    <3>2. n = Call.node /\ u = Call.user
      BY <1>4, <1>5, <1>7, <2>2, <3>1
    <3> QED
      BY <1>0, <1>4, <3>1, <3>2 DEF Call
  <2> QED
    BY <2>1, <2>2
<1>8. ASSUME NEW j \in Calls, j < pc'
      PROVE  /\ program[j].op = "createUser" =>
                  program[j].user \in users'[program[j].node]
             /\ program[j].op = "addKey" =>
                  <<program[j].user, program[j].account>>
                    \in keys'[program[j].node]
  <2>1. CASE j < pc
    BY <1>0, <1>6, <2>1 DEF LInv, KeysInv
  <2>2. CASE j = pc /\ pc' = pc + 1
    <3>1. program[j].op = "createUser" =>
            program[j].user \in users'[program[j].node]
      BY <1>0, <1>4, <1>5, <2>2, CallDone DEF Call
    <3>2. program[j].op = "addKey" =>
            <<program[j].user, program[j].account>> \in keys'[program[j].node]
      BY <1>0, <1>4, <1>5, <2>2, CallDone DEF Call
    <3> QED
      BY <3>1, <3>2
  <2> QED
    BY <1>2, <1>8, <2>1, <2>2
<1> QED
  BY <1>0, <1>7, <1>8 DEF KeysInv

-----------------------------------------------------------------------------
(* The invariant holds of every careful test.                              *)

LEMMA LInvInit == Init /\ Careful(program) => LInv
<1> SUFFICES ASSUME Init, Careful(program) PROVE LInv
  OBVIOUS
<1>0. IInv
  BY InitIInv
<1>1. /\ pc = 1 /\ issued = {} /\ \A n \in Nodes : view[n] = {} /\ users[n] = {}
      /\ \A n \in Nodes, a \in Accounts : bal[n][a] = InitialFunds(program)[a]
  BY <1>0, StateFacts DEF Init, InitialFunds
<1>2. /\ program \in Programs /\ 1 \in 1..Len(program) + 1
      /\ Calls = 1..Len(program) /\ Accounts = AccountsOf(program)
  BY <1>0, StateFacts
<1>3. KeysInv
  BY <1>1, <1>2 DEF KeysInv
<1>4. IssuedInv /\ ViewInv
  BY <1>1 DEF IssuedInv, ViewInv
<1>5. ChecksInv
  <2>1. \A v \in CallsTo({"verifyBalance"}) : ~(v < pc)
    BY <1>1, <1>2 DEF CallsTo
  <2> QED
    BY <2>1 DEF ChecksInv
<1>6. BalanceInv
  <2> SUFFICES ASSUME NEW n \in Nodes, NEW a \in Accounts,
                      NEW m \in 1..Len(program) + 1
               PROVE  IF a \in Sources(program)
                        THEN bal[n][a] >= Ledger[m][a]
                        ELSE Accepted(n, a) = Earlier(m, a)
                               => bal[n][a] = Ledger[m][a]
    BY DEF BalanceInv
  <2>1. bal[n][a] = Ledger[1][a] /\ bal[n][a] \in Int
    BY <1>0, <1>1, <1>2, StateFacts, LedgerFacts DEF Ledger
  <2>2. CASE a \in Sources(program)
    <3>1. Ledger[m][a] <= Ledger[1][a]
      <4>1. 1 <= m
        OBVIOUS
      <4> QED
        BY <1>2, <2>2, <4>1, SourceLedger DEF Careful, Ledger
    <3>2. Ledger[m][a] \in Int
      BY <1>2, LedgerFacts DEF Ledger
    <3> QED
      BY <2>1, <2>2, <3>1, <3>2
  <2>3. CASE a \notin Sources(program)
    <3> SUFFICES ASSUME Accepted(n, a) = Earlier(m, a)
                 PROVE  bal[n][a] = Ledger[m][a]
      BY <2>3
    <3>1. Earlier(m, a) = {}
      BY <1>1 DEF Accepted
    <3>2. Earlier(1, a) = {}
      <4> SUFFICES ASSUME NEW j \in Earlier(1, a) PROVE FALSE
        OBVIOUS
      <4>1. j \in Txs /\ j < 1
        BY <1>0, EarlierFacts
      <4>2. j \in Nat /\ j >= 1
        BY <1>0, <4>1, EarlierFacts
      <4> QED
        BY <4>1, <4>2
    <3>3. Ledger[m][a] = Ledger[1][a]
      <4>1. Before(program, m, a) = Before(program, 1, a)
        BY <3>1, <3>2 DEF Earlier
      <4>2. a \in AccountsOf(program)
        BY <1>2
      <4> QED
        BY <1>2, <4>1, <4>2, LedgerUntouched DEF Ledger
    <3> QED
      BY <2>1, <3>3
  <2> QED
    BY <2>2, <2>3
<1> QED
  BY <1>3, <1>4, <1>5, <1>6 DEF LInv

LEMMA LInvStep ==
  ASSUME IInv, LInv, Careful(program), [Next]_vars
  PROVE  LInv'
<1>1. KeysInv' /\ ChecksInv'
  BY KeysStep, ChecksStep
<1>s. /\ program' = program /\ Nodes' = Nodes /\ Accounts' = Accounts
      /\ Ledger' = Ledger /\ Sources(program)' = Sources(program)
      /\ PastOf(program)' = PastOf(program)
      /\ \A k, a : Earlier(k, a)' = Earlier(k, a)
      /\ \A k, a : Touches(k, a)' = Touches(k, a)
      /\ \A k, f : AmountOf(program, k, f)' = AmountOf(program, k, f)
  BY SameTest
<1>2. UNCHANGED <<issued, amount, base>> => IssuedInv'
  BY <1>s DEF LInv, IssuedInv
<1>3. UNCHANGED <<view, bal>> => BalanceInv'
  <2> SUFFICES ASSUME UNCHANGED <<view, bal>> PROVE BalanceInv'
    OBVIOUS
  <2>1. \A n \in Nodes : \A a : Accepted(n, a)' = Accepted(n, a)
    BY <1>s DEF Accepted
  <2> QED
    BY <1>s, <2>1 DEF LInv, BalanceInv
<1>4. CASE IssueTx
  BY <1>1, <1>3, <1>4, IssueIssuedInv, IssueViewInv, IssueShape DEF LInv
<1>5. ASSUME NEW n \in Nodes, NEW k \in Txs, Accept(n, k)
      PROVE  LInv'
  <2>1. UNCHANGED <<issued, amount, base>>
    BY <1>5, TxPlace, AcceptShape
  <2> QED
    BY <1>1, <1>2, <1>5, <2>1, AcceptViewInv, AcceptBalanceInv DEF LInv
<1>6. CASE UNCHANGED <<issued, amount, base, view, bal>>
  <2>1. ViewInv'
    BY <1>s, <1>6 DEF LInv, ViewInv
  <2> QED
    BY <1>1, <1>2, <1>3, <1>6, <2>1 DEF LInv
<1> QED
  BY <1>4, <1>5, <1>6, QuietSteps

\* The ledger tells the state of every careful test on every network.
LEMMA SpecLInv == Spec => [](Careful(program) => LInv)
<1>1. Init => (Careful(program) => LInv)
  BY LInvInit
<1>2. IInv /\ (Careful(program) => LInv) /\ [Next]_vars
        => (Careful(program) => LInv)'
  BY LInvStep, SameTest
<1> QED
  BY <1>1, <1>2, SpecIInv, PTL DEF Spec

-----------------------------------------------------------------------------
(* What follows from it.                                                   *)

\* The node can carry out every call a careful test makes.
LEMMA CarefulIsAdmissible ==
  ASSUME IInv, LInv, Careful(program), pc \in Calls,
         ~awaiting, result = "running"
  PROVE  Admissible
<1>1. /\ pc \notin issued /\ pc \in CallsOf(program) /\ pc \in Nat
      /\ Call = program[pc] /\ Call.node \in Nodes
  BY StateFacts DEF IInv, ProgressInv, Call
<1>2. Call.op = "createUser" => Call.user \notin users[Call.node]
  <2> SUFFICES ASSUME Call.op = "createUser",
                      Call.user \in users[Call.node]
               PROVE  FALSE
    OBVIOUS
  <2>1. PICK j \in Calls : /\ j < pc /\ program[j].op = "createUser"
                           /\ program[j].node = Call.node
                           /\ program[j].user = Call.user
    BY <1>1 DEF LInv, KeysInv
  <2>2. j \in CallsOf(program)
    BY StateFacts
  <2>3. <<program[j].node, program[j].user>>
          # <<program[pc].node, program[pc].user>>
    BY <1>1, <2>1, <2>2 DEF Careful, KeysInPlace
  <2> QED
    BY <1>1, <2>1, <2>3
<1>3. Call.op = "addKey" => Call.user \in users[Call.node]
  <2> SUFFICES ASSUME Call.op = "addKey" PROVE Call.user \in users[Call.node]
    OBVIOUS
  <2>1. PICK j \in CallsOf(program) :
          /\ j < pc /\ program[j].op = "createUser"
          /\ program[j].node = Call.node /\ program[j].user = Call.user
    BY <1>1 DEF Careful, KeysInPlace
  <2> QED
    BY <2>1, StateFacts DEF LInv, KeysInv
<1>4. ASSUME Call.op = "tx"
      PROVE  /\ <<Call.user, Spender(Call.from)>> \in keys[Call.node]
             /\ Wanted > 0
             /\ Wanted <= bal[Call.node][Call.from]
  <2> DEFINE n == Call.node
             a == Call.from
  <2>0. /\ pc \in TxsOf(program) /\ pc \in Txs
        /\ a = program[pc].from /\ n = program[pc].node
    BY <1>1, <1>4, StateFacts DEF TxsOf
  <2>1. <<Call.user, Spender(a)>> \in keys[n]
    <3>1. PICK j \in CallsOf(program) :
            /\ j < pc /\ program[j].op = "addKey"
            /\ program[j].node = Call.node /\ program[j].user = Call.user
            /\ program[j].account = Spender(Call.from)
      BY <1>1, <1>4 DEF Careful, KeysInPlace
    <3> QED
      BY <3>1, StateFacts DEF LInv, KeysInv
  <2>2. a \in Accounts /\ n \in Nodes /\ a \in AccountsOf(program)
    BY <1>1, <2>0, TxFacts, StateFacts DEF IInv
  <2>3. /\ AmountOf(program, pc, Ledger[pc]) > 0
        /\ AmountOf(program, pc, Ledger[pc]) <= Ledger[pc][a]
        /\ a \in Sources(program) => Call.amount # Everything
        /\ a \notin Sources(program) => HasArrived(program, n, a, pc)
    BY <1>1, <2>0 DEF Careful, FundsInPlace, Ledger
  <2>4. bal[n][a] \in Int /\ Ledger[pc][a] \in Int
    BY <1>1, <2>2, StateFacts, LedgerStep DEF Ledger
  <2> HIDE DEF n, a
  <2>5. CASE a \in Sources(program)
    <3>1. bal[n][a] >= Ledger[pc][a]
      BY <1>1, <2>2, <2>5, SourceBalance
    <3>2. Wanted = AmountOf(program, pc, Ledger[pc])
      BY <1>1, <2>3, <2>5 DEF Wanted, AmountOf
    <3>3. AmountOf(program, pc, Ledger[pc]) \in Int
      BY <2>0, <2>3, <2>5, <1>1, StateFacts, ProgramFacts DEF AmountOf
    <3> QED
      BY <2>1, <2>3, <2>4, <3>1, <3>2, <3>3 DEF n, a
  <2>6. CASE a \notin Sources(program)
    <3>1. Earlier(pc, a) \subseteq Accepted(n, a)
      BY <2>2, <2>3, <2>6, ArrivedIsAccepted DEF LInv
    <3>2. bal[n][a] = Ledger[pc][a]
      BY <1>1, <2>2, <2>6, <3>1, ArrivedBalance
    <3>3. Wanted = AmountOf(program, pc, Ledger[pc])
      BY <1>1, <2>0, <3>2 DEF Wanted, AmountOf, n, a
    <3> QED
      BY <2>1, <2>3, <3>2, <3>3 DEF n, a
  <2> QED
    BY <2>5, <2>6
<1> QED
  BY <1>2, <1>3, <1>4 DEF Admissible

\* How a test can end, and by which step.
LEMMA EndOfTest ==
  ASSUME IInv, [Next]_vars
  PROVE  \/ result' = result
         \/ result = "running" /\ result' \in {"passed", "validators", "nilFatal"}
         \/ CallFails /\ result' \in {"callFailed", "refused"}
         \/ TxAbandoned /\ result' = "abandoned"
         \/ WaitTimesOut /\ result' = "timedOut"
         \/ WaitFails /\ result' = "callFailed"
         \/ BalanceMismatch /\ result' = "mismatch"
<1> USE DEF At, Proceed, Stop, networkVars, runnerVars
<1>1. CASE UNCHANGED vars
  BY <1>1 DEF vars
<1>2. CASE Network
  BY <1>2 DEF Network, Accept, Reject
<1>3. CASE DoCreateUser \/ DoAddKey \/ DoGetNodeID \/ IssueTx \/ TxAccepted
  BY <1>3 DEF DoCreateUser, DoAddKey, DoGetNodeID, IssueTx, TxAccepted
<1>4. CASE CallFails
  BY <1>4 DEF CallFails
<1>5. CASE TxAbandoned \/ WaitTimesOut \/ WaitFails
  BY <1>5 DEF TxAbandoned, WaitTimesOut, WaitFails
<1>6. CASE BalanceAsExpected \/ ValidatorsConverted \/ ValidatorsAsExpected
  BY <1>6 DEF BalanceAsExpected, ValidatorsConverted, ValidatorsAsExpected
<1>7. CASE BalanceMismatch
  BY <1>7 DEF BalanceMismatch
<1>8. CASE ValidatorNotConverted
  <2>1. Call.unconverted \in {"passed", "nilFatal"}
    BY <1>8, ProgramAssumption
    DEF ValidatorNotConverted, Call, IInv, TypeOK, Calls
  <2> QED
    BY <1>8, <2>1 DEF ValidatorNotConverted
<1>9. CASE ValidatorsMismatch \/ Finish
  BY <1>9 DEF ValidatorsMismatch, Finish
<1> QED
  BY <1>1, <1>2, <1>3, <1>4, <1>5, <1>6, <1>7, <1>8, <1>9 DEF Next, Runner

\* Only a transaction that was sent, or thought to be, is waited for; what
\* may happen is settled at the start.
LEMMA WaitBegins ==
  ASSUME [Next]_vars
  PROVE  /\ faults' = faults
         /\ IssueTx \/ CallFails \/ (awaiting' => awaiting /\ pc' = pc)
<1> USE DEF At, Proceed, Stop, networkVars, runnerVars
<1>1. CASE UNCHANGED vars
  BY <1>1 DEF vars
<1>2. CASE Network
  <2>1. UNCHANGED <<faults, awaiting, pc>>
    BY <1>2 DEF Network, Accept, Reject
  <2> QED
    BY <2>1
<1>3. CASE DoCreateUser \/ DoAddKey \/ DoGetNodeID \/ TxAccepted
  BY <1>3 DEF DoCreateUser, DoAddKey, DoGetNodeID, TxAccepted
<1>4. CASE IssueTx \/ CallFails
  BY <1>4 DEF IssueTx, CallFails
<1>5. CASE TxAbandoned \/ WaitTimesOut \/ WaitFails \/ Finish
  <2>1. UNCHANGED <<faults, awaiting, pc>>
    BY <1>5 DEF TxAbandoned, WaitTimesOut, WaitFails, Finish
  <2> QED
    BY <2>1
<1>6. CASE BalanceAsExpected \/ ValidatorsConverted \/ ValidatorsAsExpected
  <2>1. faults' = faults /\ awaiting' = awaiting /\ ~awaiting
    BY <1>6
    DEF BalanceAsExpected, ValidatorsConverted, ValidatorsAsExpected
  <2> QED
    BY <2>1
<1>7. CASE BalanceMismatch \/ ValidatorNotConverted \/ ValidatorsMismatch
  <2>1. UNCHANGED <<faults, awaiting, pc>>
    BY <1>7 DEF BalanceMismatch, ValidatorNotConverted, ValidatorsMismatch
  <2> QED
    BY <2>1
<1> QED
  BY <1>1, <1>2, <1>3, <1>4, <1>5, <1>6, <1>7 DEF Next, Runner

\* Whatever the network does, no call of a careful test is refused.
LEMMA CarefulNeverRefused == Spec => [](Careful(program) => NeverRefused)
<1> DEFINE J == Careful(program) => NeverRefused
<1>1. Init => J
  BY DEF Init, NeverRefused
<1>2. IInv /\ (Careful(program) => LInv) /\ J /\ [Next]_vars => J'
  <2> SUFFICES ASSUME IInv, LInv, Careful(program), NeverRefused, [Next]_vars,
                      result' = "refused"
               PROVE  FALSE
    BY SameTest DEF NeverRefused
  <2>1. CallFails
    BY EndOfTest DEF NeverRefused
  <2>2. ~Admissible
    BY <2>1 DEF CallFails, Stop, NeverRefused
  <2> QED
    BY <2>1, <2>2, CarefulIsAdmissible DEF CallFails
<1> QED
  BY <1>1, <1>2, SpecIInv, SpecLInv, PTL DEF Spec

\* If every test is careful, no call is ever refused: when a test spends
\* from an account or uses a key, the node it asks has the funds and the key,
\* although the nodes accept transactions at times of their own
\* (rpc_workflow_runner.go:193-345).
THEOREM RunnerNeverRefused ==
  ASSUME \A Q \in Programs : Careful(Q)
  PROVE  Spec => []NeverRefused
<1>1. IInv => Careful(program)
  BY DEF IInv, TypeOK
<1> QED
  BY <1>1, CarefulNeverRefused, SpecIInv, PTL

\* If every test is careful, a balance is found wrong only at a node that
\* lacks a transaction on the account which the test has waited for at
\* another node (rpc_workflow_runner.go:435-462).
THEOREM RunnerMismatchMeansLag ==
  ASSUME \A Q \in Programs : Careful(Q)
  PROVE  Spec => MismatchMeansLag
<1>1. ASSUME IInv, LInv, [Next]_vars, result = "running", result' = "mismatch"
      PROVE  \E k \in Txs : /\ k < pc
                            /\ Touches(k, Call.account)
                            /\ k \notin view[Call.node]
  <2> SUFFICES ASSUME \A k \in Txs : k < pc /\ Touches(k, Call.account)
                                       => k \in view[Call.node]
               PROVE  FALSE
    OBVIOUS
  <2> DEFINE n == Call.node
             a == Call.account
  <2>1. BalanceMismatch
    BY <1>1, EndOfTest
  <2>2. /\ pc \in CallsOf(program) /\ pc \in Calls /\ pc \in Nat
        /\ program[pc].op = "verifyBalance"
        /\ n = program[pc].node /\ a = program[pc].account
        /\ bal[n][a] # program[pc].expected
    BY <1>1, <2>1, StateFacts DEF BalanceMismatch, At, Call
  <2>3. Careful(program) /\ program \in Programs
    BY <1>1, StateFacts
  <2>4. /\ a \notin Sources(program)
        /\ program[pc].expected = Ledger[pc][a]
    BY <2>2, <2>3 DEF Careful, ChecksInPlace, Ledger
  <2>5. n \in Nodes /\ a \in Accounts /\ pc \notin issued
    <3>1. a \in AccountsOf(program)
      BY <2>2 DEF AccountsOf
    <3>2. pc \notin Txs
      BY <1>1, <2>2, StateFacts DEF TxsOf
    <3> QED
      BY <1>1, <2>2, <3>1, <3>2, StateFacts
  <2>6. Earlier(pc, a) \subseteq Accepted(n, a)
    BY <1>1, <2>2, EarlierFacts DEF Accepted
  <2> HIDE DEF n, a
  <2>7. bal[n][a] = Ledger[pc][a]
    BY <1>1, <2>4, <2>5, <2>6, ArrivedBalance
  <2> QED
    BY <2>2, <2>4, <2>7
<1>2. IInv => Careful(program)
  BY DEF IInv, TypeOK
<1>3. IInv /\ (Careful(program) => LInv) /\ [Next]_vars =>
        [result' = "mismatch" /\ result = "running" =>
           \E k \in Txs : /\ k < pc
                          /\ Touches(k, Call.account)
                          /\ k \notin view[Call.node]]_vars
  BY <1>1, <1>2
<1> QED
  BY <1>3, SpecIInv, SpecLInv, PTL DEF Spec, MismatchMeansLag

\* The runner takes no step once the test has ended.
LEMMA Stopped ==
  ASSUME [Next]_vars, result # "running"
  PROVE  UNCHANGED <<pc, program>>
<1>1. CASE UNCHANGED vars
  BY <1>1 DEF vars, runnerVars, networkVars
<1>2. CASE Network
  BY <1>2 DEF Network, Accept, Reject, runnerVars
<1>3. ~Runner
  BY DEF Runner, At, DoCreateUser, DoAddKey, DoGetNodeID, IssueTx, CallFails,
         TxAccepted, TxAbandoned, WaitTimesOut, WaitFails, BalanceAsExpected,
         BalanceMismatch, ValidatorsConverted, ValidatorsAsExpected,
         ValidatorNotConverted, ValidatorsMismatch, Finish
<1> QED
  BY <1>1, <1>2, <1>3 DEF Next

\* A network without faults makes a careful test wait only for what exists,
\* and end only as it can end by lagging behind.
HealthyInv ==
  faults = {} =>
    /\ awaiting => pc \in issued
    /\ result \in {"running", "abandoned"} \/ EndsWell \/ EndsWithoutContext

LEMMA HealthyStep ==
  ASSUME IInv, LInv, Careful(program), HealthyInv, [Next]_vars
  PROVE  HealthyInv'
<1> SUFFICES ASSUME faults' = {} PROVE
      /\ awaiting' => pc' \in issued'
      /\ \/ result' \in {"running", "abandoned"}
         \/ EndsWell'
         \/ EndsWithoutContext'
  BY DEF HealthyInv
<1>1. faults = {}
  BY WaitBegins
<1>2. CASE CallFails
  <2>1. Admissible /\ NilContext
    BY <1>1, <1>2, CarefulIsAdmissible DEF CallFails
  <2>2. Call.op # "tx"
    BY <2>1 DEF NilContext
  <2>3. Stop("callFailed") /\ ~awaiting
    BY <1>2, <2>1, <2>2 DEF CallFails
  <2>4. UNCHANGED <<pc, program>> /\ result' = "callFailed" /\ ~awaiting'
    BY <2>3 DEF Stop, networkVars
  <2> QED
    BY <2>1, <2>4 DEF EndsWithoutContext, NilContext, Call, Calls
<1>3. CASE ~CallFails
  <2>1. ~WaitFails /\ ~WaitTimesOut
    BY <1>1 DEF WaitFails, WaitTimesOut, HealthyInv
  <2>2. \/ result' \in {"running", "abandoned"}
        \/ EndsWell'
        \/ EndsWithoutContext'
    <3>1. CASE result' = result
      <4>1. result # "running" => UNCHANGED <<pc, program>>
        BY Stopped
      <4> QED
        BY <1>1, <3>1, <4>1
        DEF HealthyInv, EndsWell, EndsWithoutContext, NilContext, Call, Calls
    <3>2. CASE result' \in {"passed", "validators", "nilFatal", "abandoned",
                            "mismatch"}
      BY <3>2 DEF EndsWell
    <3> QED
      BY <1>3, <2>1, <3>1, <3>2, EndOfTest
  <2>3. awaiting' => pc' \in issued'
    <3>1. CASE IssueTx
      BY <3>1, IssueShape
    <3>2. CASE ~IssueTx
      <4>1. issued' = issued
        BY <3>2, OnlyIssueBuilds
      <4>2. awaiting' => awaiting /\ pc' = pc
        BY <1>3, <3>2, WaitBegins
      <4> QED
        BY <1>1, <4>1, <4>2 DEF HealthyInv
    <3> QED
      BY <3>1, <3>2
  <2> QED
    BY <2>2, <2>3
<1> QED
  BY <1>2, <1>3

\* A careful test on a network that loses no call, gives up nothing of its
\* own accord and accepts in time ends only well, because a node lags, or
\* because it makes a call without a context: it passes, or finds a balance
\* or the validators wrong, or has spent from one account on two nodes, or
\* is the workflow test at a call of its executor's.  That it does end is
\* checked by TLC (HealthyNetworkSuffices).
THEOREM RunnerHealthyNetworkEndsWell ==
  ASSUME \A Q \in Programs : Careful(Q)
  PROVE  Spec => [](faults = {} /\ result # "running" =>
                      EndsWell \/ EndsWithoutContext)
<1>1. Init => HealthyInv /\ RejectedInv
  BY DEF Init, HealthyInv, RejectedInv
<1>2. IInv => Careful(program)
  BY DEF IInv, TypeOK
<1>3. IInv /\ (Careful(program) => LInv) /\ HealthyInv /\ [Next]_vars
        => HealthyInv'
  BY <1>2, HealthyStep
<1>4. IInv /\ HealthyInv /\ RejectedInv /\ RejectionMeansLag
        => (faults = {} /\ result # "running" =>
              EndsWell \/ EndsWithoutContext)
  <2> SUFFICES ASSUME IInv, RejectedInv, RejectionMeansLag,
                      faults = {}, result = "abandoned"
               PROVE  ~SpendsLocally(program)
    BY DEF HealthyInv, EndsWell
  <2>1. PICK j \in issued : /\ j < pc /\ program[j].from = Call.from
                            /\ program[j].node # Call.node
    BY DEF RejectionMeansLag
  <2>2. pc \in Txs
    BY DEF RejectedInv, IInv, TypeOK
  <2> QED
    BY <2>1, <2>2, StateFacts DEF SpendsLocally, Call
<1> QED
  BY <1>1, <1>3, <1>4, SpecIInv, SpecLInv, RejectedStep,
     RunnerRejectionMeansLag, PTL DEF Spec

-----------------------------------------------------------------------------
(* The workflow test is careful.                                           *)

\* Its accounts: on the X chain and the P chain, on the way to them, staked.
xg == X("genesis")
xs == X("staker")
xd == X("delegator")
ps == P("staker")
pd == P("delegator")
toXs == Exported(xs)
toXd == Exported(xd)
toPs == Exported(ps)
toPd == Exported(pd)
stake == Staked("stakerNodeID")
delegation == Delegated("stakerNodeID")

WorkflowAccounts ==
  {xg, xs, xd, ps, pd, toXs, toXd, toPs, toPd, stake, delegation}

\* The transactions of the workflow test, by their place in it.
WorkflowTxs == {11, 12, 15, 16, 19, 22, 23, 26, 28, 29, 32, 33}

\* Transaction k of the workflow test.
IsTx(Q, k, node, user, from, to, amt) ==
  /\ Q[k].op = "tx"
  /\ Q[k].node = node /\ Q[k].user = user
  /\ Q[k].from = from /\ Q[k].to = to /\ Q[k].amount = amt

IsCheck(Q, k, node, account, expected) ==
  /\ Q[k].op = "verifyBalance" /\ Q[k].node = node
  /\ Q[k].account = account /\ Q[k].expected = expected

IsUser(Q, k, node, user) ==
  /\ Q[k].op = "createUser"
  /\ Q[k].node = node /\ Q[k].user = user

IsKey(Q, k, node, user, account) ==
  /\ Q[k].op = "addKey" /\ Q[k].node = node
  /\ Q[k].user = user /\ Q[k].account = account

LEMMA WorkflowCalls ==
  ASSUME NEW Q \in WorkflowTests
  PROVE
  /\ Len(Q) = 35
  /\ IsUser(Q, 1, StakerNode, "genesis")
  /\ IsKey(Q, 2, StakerNode, "genesis", xg)
  /\ Q[3].op = "getNodeID" /\ Q[4].op = "getNodeID"
  /\ IsUser(Q, 5, StakerNode, "staker")
  /\ IsKey(Q, 6, StakerNode, "staker", xs)
  /\ IsKey(Q, 7, StakerNode, "staker", ps)
  /\ IsUser(Q, 8, DelegatorNode, "delegator")
  /\ IsKey(Q, 9, DelegatorNode, "delegator", xd)
  /\ IsKey(Q, 10, DelegatorNode, "delegator", pd)
  /\ IsTx(Q, 11, StakerNode, "genesis", xg, xs, 5)
  /\ IsTx(Q, 12, StakerNode, "genesis", xg, xd, 5)
  /\ IsCheck(Q, 13, StakerNode, xs, 5)
  /\ IsCheck(Q, 14, DelegatorNode, xd, 5)
  /\ IsTx(Q, 15, StakerNode, "staker", xs, toPs, 5)
  /\ IsTx(Q, 16, StakerNode, "staker", toPs, ps, Everything)
  /\ IsCheck(Q, 17, StakerNode, ps, 5)
  /\ IsCheck(Q, 18, StakerNode, xs, 0)
  /\ IsTx(Q, 19, StakerNode, "staker", ps, stake, 3)
  /\ Q[20].op = "verifyValidators"
  /\ IsCheck(Q, 21, StakerNode, ps, 2)
  /\ IsTx(Q, 22, DelegatorNode, "delegator", xd, toPd, 5)
  /\ IsTx(Q, 23, DelegatorNode, "delegator", toPd, pd, Everything)
  /\ IsCheck(Q, 24, DelegatorNode, pd, 5)
  /\ IsCheck(Q, 25, DelegatorNode, xd, 0)
  /\ IsTx(Q, 26, DelegatorNode, "delegator", pd, delegation, 3)
  /\ IsCheck(Q, 27, DelegatorNode, pd, 2)
  /\ IsTx(Q, 28, StakerNode, "staker", ps, toXs, 2)
  /\ IsTx(Q, 29, StakerNode, "staker", toXs, xs, Everything)
  /\ IsCheck(Q, 30, StakerNode, ps, 0)
  /\ IsCheck(Q, 31, StakerNode, xs, 2)
  /\ IsTx(Q, 32, DelegatorNode, "delegator", pd, toXd, 2)
  /\ IsTx(Q, 33, DelegatorNode, "delegator", toXd, xd, Everything)
  /\ IsCheck(Q, 34, DelegatorNode, pd, 0)
  /\ IsCheck(Q, 35, DelegatorNode, xd, 2)
<1>0. PICK e : Q = ExecuteTest(e)
  BY DEF WorkflowTests
<1> DEFINE W == ExecuteTest(e)
<1> USE DEF xg, xs, xd, ps, pd, toXs, toXd, toPs, toPd, stake, delegation,
            IsUser, IsKey, IsTx, IsCheck, CreateUser, AddKey, GetNodeID, Tx,
            VerifyBalance, VerifyValidators, ExecuteTest, AddValidator, VerifyNetworkState,
            AddDelegator, AddDelegatorToPrimaryNetwork, TransferToXChain,
            TransferAvaPChainToXChain, CreateFundedAccounts, ImportGenesisFunds,
            CreateDefaultAddresses, FundXChainAddresses,
            TransferAvaXChainToPChain, VerifyPChainBalance,
            VerifyXChainAVABalance, AddValidatorToPrimaryNetwork,
            seedAmount, stakeAmount, delegatorAmount, ExpectedStakerBalance,
            ExpectedDelegatorBalance
<1>1. Len(W) = 35
  OBVIOUS
<1>2. /\ IsUser(W, 1, StakerNode, "genesis")
      /\ IsKey(W, 2, StakerNode, "genesis", xg)
      /\ W[3].op = "getNodeID" /\ W[4].op = "getNodeID"
      /\ IsUser(W, 5, StakerNode, "staker")
      /\ IsKey(W, 6, StakerNode, "staker", xs)
      /\ IsKey(W, 7, StakerNode, "staker", ps)
      /\ IsUser(W, 8, DelegatorNode, "delegator")
  OBVIOUS
<1>3. /\ IsKey(W, 9, DelegatorNode, "delegator", xd)
      /\ IsKey(W, 10, DelegatorNode, "delegator", pd)
  OBVIOUS
<1>4. /\ IsTx(W, 11, StakerNode, "genesis", xg, xs, 5)
      /\ IsTx(W, 12, StakerNode, "genesis", xg, xd, 5)
      /\ IsCheck(W, 13, StakerNode, xs, 5)
      /\ IsCheck(W, 14, DelegatorNode, xd, 5)
  OBVIOUS
<1>5. /\ IsTx(W, 15, StakerNode, "staker", xs, toPs, 5)
      /\ IsTx(W, 16, StakerNode, "staker", toPs, ps, Everything)
      /\ IsCheck(W, 17, StakerNode, ps, 5)
  OBVIOUS
<1>6. /\ IsCheck(W, 18, StakerNode, xs, 0)
      /\ IsTx(W, 19, StakerNode, "staker", ps, stake, 3)
  OBVIOUS
<1>7. /\ W[20].op = "verifyValidators"
      /\ IsCheck(W, 21, StakerNode, ps, 2)
      /\ IsTx(W, 22, DelegatorNode, "delegator", xd, toPd, 5)
  OBVIOUS
<1>8. /\ IsTx(W, 23, DelegatorNode, "delegator", toPd, pd, Everything)
      /\ IsCheck(W, 24, DelegatorNode, pd, 5)
      /\ IsCheck(W, 25, DelegatorNode, xd, 0)
  OBVIOUS
<1>9. /\ IsTx(W, 26, DelegatorNode, "delegator", pd, delegation, 3)
      /\ IsCheck(W, 27, DelegatorNode, pd, 2)
  OBVIOUS
<1>10. /\ IsTx(W, 28, StakerNode, "staker", ps, toXs, 2)
      /\ IsTx(W, 29, StakerNode, "staker", toXs, xs, Everything)
      /\ IsCheck(W, 30, StakerNode, ps, 0)
  OBVIOUS
<1>11. /\ IsCheck(W, 31, StakerNode, xs, 2)
      /\ IsTx(W, 32, DelegatorNode, "delegator", pd, toXd, 2)
      /\ IsTx(W, 33, DelegatorNode, "delegator", toXd, xd, Everything)
      /\ IsCheck(W, 34, DelegatorNode, pd, 0)
      /\ IsCheck(W, 35, DelegatorNode, xd, 2)
  OBVIOUS
<1>12. Q = W
  BY <1>0
<1> HIDE DEF W, IsUser, IsKey, IsTx, IsCheck
<1> QED
  BY ONLY <1>1, <1>2, <1>3, <1>4, <1>5, <1>6, <1>7, <1>8, <1>9, <1>10,
          <1>11, <1>12

LEMMA AccountsDiffer ==
  /\ xg \notin {xs, xd, ps, pd, toXs, toXd, toPs, toPd, stake, delegation}
  /\ xs \notin {xd, ps, pd, toXs, toXd, toPs, toPd, stake, delegation}
  /\ xd \notin {ps, pd, toXs, toXd, toPs, toPd, stake, delegation}
  /\ ps \notin {pd, toXs, toXd, toPs, toPd, stake, delegation}
  /\ pd \notin {toXs, toXd, toPs, toPd, stake, delegation}
  /\ toXs \notin {toXd, toPs, toPd, stake, delegation}
  /\ toXd \notin {toPs, toPd, stake, delegation}
  /\ toPs \notin {toPd, stake, delegation}
  /\ toPd \notin {stake, delegation}
  /\ stake # delegation
  BY DEF xg, xs, xd, ps, pd, toXs, toXd, toPs, toPd, stake, delegation,
         X, P, Exported, Staked, Delegated

\* Whose key spends from an account.
LEMMA SpendersFacts ==
  /\ Spender(xg) = xg /\ Spender(xs) = xs /\ Spender(xd) = xd
  /\ Spender(ps) = ps /\ Spender(pd) = pd
  /\ Spender(toXs) = xs /\ Spender(toXd) = xd
  /\ Spender(toPs) = ps /\ Spender(toPd) = pd
  BY DEF Spender, xg, xs, xd, ps, pd, toXs, toXd, toPs, toPd, X, P, Exported

LEMMA WorkflowShape ==
  ASSUME NEW Q \in WorkflowTests
  PROVE  /\ CallsOf(Q) = 1..35
         /\ TxsOf(Q) = WorkflowTxs
         /\ AccountsOf(Q) = WorkflowAccounts
         /\ Sources(Q) = {xg}
<1>0. Len(Q) = 35
  BY WorkflowCalls
<1>1. CallsOf(Q) = 1..35
  BY <1>0 DEF CallsOf
<1> USE WorkflowCalls DEF IsUser, IsKey, IsTx, IsCheck
<1>2. TxsOf(Q) = WorkflowTxs
  BY <1>1 DEF TxsOf, WorkflowTxs
<1>3. AccountsOf(Q) = WorkflowAccounts
  BY <1>1, <1>2 DEF AccountsOf, WorkflowAccounts, WorkflowTxs
<1>4. Sources(Q) = {xg}
  BY <1>2, <1>3, AccountsDiffer DEF Sources, WorkflowAccounts, WorkflowTxs
<1> QED
  BY <1>1, <1>2, <1>3, <1>4

\* What there is before call m if x has come with call i and gone with call j.
Between(i, m, j, x) == IF i < m /\ m <= j THEN x ELSE 0

\* The ledger of the workflow test.
Held(m, a) ==
  CASE a = xg -> GenesisFunds - Between(11, m, 36, 5) - Between(12, m, 36, 5)
    [] a = xs -> Between(11, m, 15, 5) + Between(29, m, 36, 2)
    [] a = toPs -> Between(15, m, 16, 5)
    [] a = ps -> Between(16, m, 19, 5) + Between(19, m, 28, 2)
    [] a = stake -> Between(19, m, 36, 3)
    [] a = toXs -> Between(28, m, 29, 2)
    [] a = xd -> Between(12, m, 22, 5) + Between(33, m, 36, 2)
    [] a = toPd -> Between(22, m, 23, 5)
    [] a = pd -> Between(23, m, 26, 5) + Between(26, m, 32, 2)
    [] a = delegation -> Between(26, m, 36, 3)
    [] a = toXd -> Between(32, m, 33, 2)

LEMMA HeldFacts ==
  ASSUME NEW m
  PROVE  /\ Held(m, xg) = GenesisFunds - Between(11, m, 36, 5) - Between(12, m, 36, 5)
         /\ Held(m, xs) = Between(11, m, 15, 5) + Between(29, m, 36, 2)
         /\ Held(m, toPs) = Between(15, m, 16, 5)
         /\ Held(m, ps) = Between(16, m, 19, 5) + Between(19, m, 28, 2)
         /\ Held(m, stake) = Between(19, m, 36, 3)
         /\ Held(m, toXs) = Between(28, m, 29, 2)
         /\ Held(m, xd) = Between(12, m, 22, 5) + Between(33, m, 36, 2)
         /\ Held(m, toPd) = Between(22, m, 23, 5)
         /\ Held(m, pd) = Between(23, m, 26, 5) + Between(26, m, 32, 2)
         /\ Held(m, delegation) = Between(26, m, 36, 3)
         /\ Held(m, toXd) = Between(32, m, 33, 2)
  BY AccountsDiffer DEF Held

\* With call m the ledger moves x from one account to another.
Moves(m, from, to, x) ==
  \A a \in WorkflowAccounts :
    Held(m + 1, a) = Held(m, a) - (IF a = from THEN x ELSE 0)
                                + (IF a = to THEN x ELSE 0)

\* A transaction of the test does so when the amount is right.
LEMMA SomeMoves ==
  ASSUME NEW Q \in WorkflowTests, NEW m \in WorkflowTxs, NEW node, NEW user, NEW from, NEW to,
         NEW x \in Nat, IsTx(Q, m, node, user, from, to, x), Moves(m, from, to, x)
  PROVE  After(Q, m, [a \in WorkflowAccounts |-> Held(m, a)])
           = [a \in WorkflowAccounts |-> Held(m + 1, a)]
<1> DEFINE f == [a \in WorkflowAccounts |-> Held(m, a)]
<1>1. from \in WorkflowAccounts
  BY WorkflowShape DEF IsTx, AccountsOf
<1>2. AmountOf(Q, m, f) = x
  BY <1>1 DEF AmountOf, IsTx, Everything
<1>3. After(Q, m, f)
        = [a \in WorkflowAccounts |-> f[a] - (IF a = from THEN x ELSE 0)
                                           + (IF a = to THEN x ELSE 0)]
  BY <1>2, WorkflowShape DEF After, IsTx
<1> QED
  BY <1>3 DEF Moves

LEMMA AllMoves ==
  ASSUME NEW Q \in WorkflowTests, NEW m \in WorkflowTxs, NEW node, NEW user, NEW from, NEW to,
         IsTx(Q, m, node, user, from, to, Everything), Moves(m, from, to, Held(m, from))
  PROVE  After(Q, m, [a \in WorkflowAccounts |-> Held(m, a)])
           = [a \in WorkflowAccounts |-> Held(m + 1, a)]
<1> DEFINE f == [a \in WorkflowAccounts |-> Held(m, a)]
<1>1. from \in WorkflowAccounts
  BY WorkflowShape DEF IsTx, AccountsOf
<1>2. AmountOf(Q, m, f) = Held(m, from)
  BY <1>1 DEF AmountOf, IsTx, Everything
<1>3. After(Q, m, f)
        = [a \in WorkflowAccounts |-> f[a] - (IF a = from THEN Held(m, from) ELSE 0)
                                           + (IF a = to THEN Held(m, from) ELSE 0)]
  BY <1>2, WorkflowShape DEF After, IsTx
<1> QED
  BY <1>3 DEF Moves

\* From one call to the next.
LEMMA HeldStep ==
  ASSUME NEW Q \in WorkflowTests, NEW m \in 1..35
  PROVE  After(Q, m, [a \in WorkflowAccounts |-> Held(m, a)])
           = [a \in WorkflowAccounts |-> Held(m + 1, a)]
<1>0. GenesisFunds \in Nat
  BY NetworkAssumption
<1>1. CASE m \notin WorkflowTxs
  <2>1. \A a \in WorkflowAccounts : Held(m + 1, a) = Held(m, a)
    BY <1>0, <1>1, HeldFacts DEF WorkflowAccounts, WorkflowTxs, Between
  <2> QED
    BY <1>1, <2>1, WorkflowShape DEF After
<1>2. CASE m = 11
  <2>1. Moves(m, xg, xs, 5)
    BY <1>0, <1>2, HeldFacts, AccountsDiffer DEF Moves, WorkflowAccounts, Between
  <2>2. IsTx(Q, m, StakerNode, "genesis", xg, xs, 5)
    BY <1>2, WorkflowCalls
  <2>3. m \in WorkflowTxs
    BY <1>2 DEF WorkflowTxs
  <2> QED
    BY <2>1, <2>2, <2>3, SomeMoves
<1>3. CASE m = 12
  <2>1. Moves(m, xg, xd, 5)
    BY <1>0, <1>3, HeldFacts, AccountsDiffer DEF Moves, WorkflowAccounts, Between
  <2>2. IsTx(Q, m, StakerNode, "genesis", xg, xd, 5)
    BY <1>3, WorkflowCalls
  <2>3. m \in WorkflowTxs
    BY <1>3 DEF WorkflowTxs
  <2> QED
    BY <2>1, <2>2, <2>3, SomeMoves
<1>4. CASE m = 15
  <2>1. Moves(m, xs, toPs, 5)
    BY <1>0, <1>4, HeldFacts, AccountsDiffer DEF Moves, WorkflowAccounts, Between
  <2>2. IsTx(Q, m, StakerNode, "staker", xs, toPs, 5)
    BY <1>4, WorkflowCalls
  <2>3. m \in WorkflowTxs
    BY <1>4 DEF WorkflowTxs
  <2> QED
    BY <2>1, <2>2, <2>3, SomeMoves
<1>5. CASE m = 16
  <2>1. Held(m, toPs) = 5
    BY <1>5, HeldFacts DEF Between
  <2>2. Moves(m, toPs, ps, Held(m, toPs))
    BY <2>1, <1>0, <1>5, HeldFacts, AccountsDiffer DEF Moves, WorkflowAccounts, Between
  <2>3. IsTx(Q, m, StakerNode, "staker", toPs, ps, Everything)
    BY <1>5, WorkflowCalls
  <2>4. m \in WorkflowTxs
    BY <1>5 DEF WorkflowTxs
  <2> QED
    BY <2>2, <2>3, <2>4, AllMoves
<1>6. CASE m = 19
  <2>1. Moves(m, ps, stake, 3)
    BY <1>0, <1>6, HeldFacts, AccountsDiffer DEF Moves, WorkflowAccounts, Between
  <2>2. IsTx(Q, m, StakerNode, "staker", ps, stake, 3)
    BY <1>6, WorkflowCalls
  <2>3. m \in WorkflowTxs
    BY <1>6 DEF WorkflowTxs
  <2> QED
    BY <2>1, <2>2, <2>3, SomeMoves
<1>7. CASE m = 22
  <2>1. Moves(m, xd, toPd, 5)
    BY <1>0, <1>7, HeldFacts, AccountsDiffer DEF Moves, WorkflowAccounts, Between
  <2>2. IsTx(Q, m, DelegatorNode, "delegator", xd, toPd, 5)
    BY <1>7, WorkflowCalls
  <2>3. m \in WorkflowTxs
    BY <1>7 DEF WorkflowTxs
  <2> QED
    BY <2>1, <2>2, <2>3, SomeMoves
<1>8. CASE m = 23
  <2>1. Held(m, toPd) = 5
    BY <1>8, HeldFacts DEF Between
  <2>2. Moves(m, toPd, pd, Held(m, toPd))
    BY <2>1, <1>0, <1>8, HeldFacts, AccountsDiffer DEF Moves, WorkflowAccounts, Between
  <2>3. IsTx(Q, m, DelegatorNode, "delegator", toPd, pd, Everything)
    BY <1>8, WorkflowCalls
  <2>4. m \in WorkflowTxs
    BY <1>8 DEF WorkflowTxs
  <2> QED
    BY <2>2, <2>3, <2>4, AllMoves
<1>9. CASE m = 26
  <2>1. Moves(m, pd, delegation, 3)
    BY <1>0, <1>9, HeldFacts, AccountsDiffer DEF Moves, WorkflowAccounts, Between
  <2>2. IsTx(Q, m, DelegatorNode, "delegator", pd, delegation, 3)
    BY <1>9, WorkflowCalls
  <2>3. m \in WorkflowTxs
    BY <1>9 DEF WorkflowTxs
  <2> QED
    BY <2>1, <2>2, <2>3, SomeMoves
<1>10. CASE m = 28
  <2>1. Moves(m, ps, toXs, 2)
    BY <1>0, <1>10, HeldFacts, AccountsDiffer DEF Moves, WorkflowAccounts, Between
  <2>2. IsTx(Q, m, StakerNode, "staker", ps, toXs, 2)
    BY <1>10, WorkflowCalls
  <2>3. m \in WorkflowTxs
    BY <1>10 DEF WorkflowTxs
  <2> QED
    BY <2>1, <2>2, <2>3, SomeMoves
<1>11. CASE m = 29
  <2>1. Held(m, toXs) = 2
    BY <1>11, HeldFacts DEF Between
  <2>2. Moves(m, toXs, xs, Held(m, toXs))
    BY <2>1, <1>0, <1>11, HeldFacts, AccountsDiffer DEF Moves, WorkflowAccounts, Between
  <2>3. IsTx(Q, m, StakerNode, "staker", toXs, xs, Everything)
    BY <1>11, WorkflowCalls
  <2>4. m \in WorkflowTxs
    BY <1>11 DEF WorkflowTxs
  <2> QED
    BY <2>2, <2>3, <2>4, AllMoves
<1>12. CASE m = 32
  <2>1. Moves(m, pd, toXd, 2)
    BY <1>0, <1>12, HeldFacts, AccountsDiffer DEF Moves, WorkflowAccounts, Between
  <2>2. IsTx(Q, m, DelegatorNode, "delegator", pd, toXd, 2)
    BY <1>12, WorkflowCalls
  <2>3. m \in WorkflowTxs
    BY <1>12 DEF WorkflowTxs
  <2> QED
    BY <2>1, <2>2, <2>3, SomeMoves
<1>13. CASE m = 33
  <2>1. Held(m, toXd) = 2
    BY <1>13, HeldFacts DEF Between
  <2>2. Moves(m, toXd, xd, Held(m, toXd))
    BY <2>1, <1>0, <1>13, HeldFacts, AccountsDiffer DEF Moves, WorkflowAccounts, Between
  <2>3. IsTx(Q, m, DelegatorNode, "delegator", toXd, xd, Everything)
    BY <1>13, WorkflowCalls
  <2>4. m \in WorkflowTxs
    BY <1>13 DEF WorkflowTxs
  <2> QED
    BY <2>2, <2>3, <2>4, AllMoves
<1> QED
  BY <1>1, <1>2, <1>3, <1>4, <1>5, <1>6, <1>7, <1>8, <1>9, <1>10, <1>11, <1>12,
     <1>13 DEF WorkflowTxs

LEMMA WorkflowLedger ==
  ASSUME NEW Q \in WorkflowTests, Q \in Programs
  PROVE  \A m \in 1..36 :
           LedgerOf(Q)[m] = [a \in WorkflowAccounts |-> Held(m, a)]
<1> DEFINE L == LedgerOf(Q)
           H(m) == [a \in WorkflowAccounts |-> Held(m, a)]
           T == {m \in 1..36 : L[m] # H(m)}
<1>0. T \subseteq Nat
  OBVIOUS
<1>1. L[1] = H(1)
  <2>1. \A a \in WorkflowAccounts :
          Held(1, a) = IF a = X("genesis") THEN GenesisFunds ELSE 0
    BY HeldFacts, AccountsDiffer, NetworkAssumption
       DEF WorkflowAccounts, Between, xg
  <2> QED
    BY <2>1, LedgerFacts, WorkflowShape DEF InitialFunds
<1>2. \A m \in 1..35 : L[m + 1] = After(Q, m, L[m])
  BY LedgerFacts, WorkflowShape
<1>3. \A m \in 1..35 : After(Q, m, H(m)) = H(m + 1)
  BY HeldStep
<1> HIDE DEF L, H
<1>4. T = {}
  <2> SUFFICES ASSUME T # {} PROVE FALSE
    OBVIOUS
  <2>1. PICK x \in T : \A y \in T : x <= y
    BY <1>0, LeastNatural
  <2>2. x # 1 /\ x - 1 \in 1..35 /\ x - 1 \notin T /\ (x - 1) + 1 = x
    BY <1>1, <2>1
  <2>3. L[x - 1] = H(x - 1)
    BY <2>2
  <2> QED
    BY <1>2, <1>3, <2>1, <2>2, <2>3
<1> QED
  BY <1>4 DEF L, H

\* Every transaction of the test moves something, and no more than there is.
LEMMA WorkflowAmounts ==
  ASSUME NEW Q \in WorkflowTests, Q \in Programs, GenesisFunds >= 2 * seedAmount,
         NEW k \in WorkflowTxs
  PROVE  LET x == AmountOf(Q, k, LedgerOf(Q)[k])
         IN  x > 0 /\ x <= LedgerOf(Q)[k][Q[k].from]
<1> DEFINE f == LedgerOf(Q)[k]
<1>0. GenesisFunds \in Nat /\ GenesisFunds >= 10
  BY NetworkAssumption DEF seedAmount
<1>1. f = [a \in WorkflowAccounts |-> Held(k, a)]
  <2>1. \A m \in 1..36 : LedgerOf(Q)[m] = [a \in WorkflowAccounts |-> Held(m, a)]
    BY WorkflowLedger
  <2> QED
    BY ONLY <2>1, k \in WorkflowTxs DEF WorkflowTxs
<1> HIDE DEF f
<1> SUFFICES /\ AmountOf(Q, k, f) > 0
             /\ AmountOf(Q, k, f) <= f[Q[k].from]
  BY DEF f
<1>2. CASE k = 11
  BY <1>0, <1>1, <1>2, WorkflowCalls, HeldFacts
     DEF AmountOf, IsTx, Everything, Between, WorkflowAccounts
<1>3. CASE k = 12
  BY <1>0, <1>1, <1>3, WorkflowCalls, HeldFacts
     DEF AmountOf, IsTx, Everything, Between, WorkflowAccounts
<1>4. CASE k = 15
  BY <1>0, <1>1, <1>4, WorkflowCalls, HeldFacts
     DEF AmountOf, IsTx, Everything, Between, WorkflowAccounts
<1>5. CASE k = 16
  BY <1>0, <1>1, <1>5, WorkflowCalls, HeldFacts
     DEF AmountOf, IsTx, Everything, Between, WorkflowAccounts
<1>6. CASE k = 19
  BY <1>0, <1>1, <1>6, WorkflowCalls, HeldFacts
     DEF AmountOf, IsTx, Everything, Between, WorkflowAccounts
<1>7. CASE k = 22
  BY <1>0, <1>1, <1>7, WorkflowCalls, HeldFacts
     DEF AmountOf, IsTx, Everything, Between, WorkflowAccounts
<1>8. CASE k = 23
  BY <1>0, <1>1, <1>8, WorkflowCalls, HeldFacts
     DEF AmountOf, IsTx, Everything, Between, WorkflowAccounts
<1>9. CASE k = 26
  BY <1>0, <1>1, <1>9, WorkflowCalls, HeldFacts
     DEF AmountOf, IsTx, Everything, Between, WorkflowAccounts
<1>10. CASE k = 28
  BY <1>0, <1>1, <1>10, WorkflowCalls, HeldFacts
     DEF AmountOf, IsTx, Everything, Between, WorkflowAccounts
<1>11. CASE k = 29
  BY <1>0, <1>1, <1>11, WorkflowCalls, HeldFacts
     DEF AmountOf, IsTx, Everything, Between, WorkflowAccounts
<1>12. CASE k = 32
  BY <1>0, <1>1, <1>12, WorkflowCalls, HeldFacts
     DEF AmountOf, IsTx, Everything, Between, WorkflowAccounts
<1>13. CASE k = 33
  BY <1>0, <1>1, <1>13, WorkflowCalls, HeldFacts
     DEF AmountOf, IsTx, Everything, Between, WorkflowAccounts
<1> QED
  BY <1>2, <1>3, <1>4, <1>5, <1>6, <1>7, <1>8, <1>9, <1>10, <1>11, <1>12,
     <1>13 DEF WorkflowTxs

\* The transactions that move funds of each account.
LEMMA WorkflowMovers ==
  ASSUME NEW Q \in WorkflowTests
  PROVE  /\ \A k : Before(Q, k, xs) = {j \in {11, 15, 29} : j < k}
         /\ \A k : Before(Q, k, toPs) = {j \in {15, 16} : j < k}
         /\ \A k : Before(Q, k, ps) = {j \in {16, 19, 28} : j < k}
         /\ \A k : Before(Q, k, stake) = {j \in {19} : j < k}
         /\ \A k : Before(Q, k, toXs) = {j \in {28, 29} : j < k}
         /\ \A k : Before(Q, k, xd) = {j \in {12, 22, 33} : j < k}
         /\ \A k : Before(Q, k, toPd) = {j \in {22, 23} : j < k}
         /\ \A k : Before(Q, k, pd) = {j \in {23, 26, 32} : j < k}
         /\ \A k : Before(Q, k, delegation) = {j \in {26} : j < k}
         /\ \A k : Before(Q, k, toXd) = {j \in {32, 33} : j < k}
<1> DEFINE movers(a) ==
             {j \in WorkflowTxs : a \in {Q[j].from, Q[j].to}}
<1>1. \A k, a : Before(Q, k, a) = {j \in movers(a) : j < k}
  BY WorkflowShape DEF Before
<1> USE AccountsDiffer, WorkflowCalls DEF IsTx, WorkflowTxs
<1>2. movers(xs) = {11, 15, 29} /\ movers(toPs) = {15, 16}
  OBVIOUS
<1>3. movers(ps) = {16, 19, 28} /\ movers(stake) = {19} /\ movers(toXs) = {28, 29}
  OBVIOUS
<1>4. movers(xd) = {12, 22, 33} /\ movers(toPd) = {22, 23}
  OBVIOUS
<1>5. movers(pd) = {23, 26, 32} /\ movers(delegation) = {26} /\ movers(toXd) = {32, 33}
  OBVIOUS
<1> HIDE DEF movers
<1> QED
  BY ONLY <1>1, <1>2, <1>3, <1>4, <1>5

\* The other calls of the test, by their place in it.
WorkflowUsers == {1, 5, 8}
WorkflowKeys == {2, 6, 7, 9, 10}
WorkflowChecks == {13, 14, 17, 18, 21, 24, 25, 27, 30, 31, 34, 35}

LEMMA WorkflowKinds ==
  ASSUME NEW Q \in WorkflowTests, NEW k \in 1..35
  PROVE  /\ Q[k].op = "createUser" <=> k \in WorkflowUsers
         /\ Q[k].op = "addKey" <=> k \in WorkflowKeys
         /\ Q[k].op = "tx" <=> k \in WorkflowTxs
         /\ Q[k].op = "verifyBalance" <=> k \in WorkflowChecks
  BY WorkflowCalls DEF IsUser, IsKey, IsTx, IsCheck,
     WorkflowUsers, WorkflowKeys, WorkflowTxs, WorkflowChecks

LEMMA WorkflowKeysInPlace ==
  ASSUME NEW Q \in WorkflowTests
  PROVE  KeysInPlace(Q)
<1> USE WorkflowShape, WorkflowKinds
<1>1. ASSUME NEW k \in WorkflowUsers, NEW j \in WorkflowUsers, j < k
      PROVE  <<Q[j].node, Q[j].user>>
               # <<Q[k].node, Q[k].user>>
  <2>1. Q[j].user # Q[k].user
    BY <1>1, WorkflowCalls DEF WorkflowUsers, IsUser
  <2> QED
    BY <2>1
<1>2. ASSUME NEW k \in WorkflowKeys
      PROVE  \E j \in WorkflowUsers : /\ j < k
                                      /\ Q[j].node = Q[k].node
                                      /\ Q[j].user = Q[k].user
  BY WorkflowCalls DEF WorkflowUsers, WorkflowKeys, IsUser, IsKey
<1>3. ASSUME NEW k \in WorkflowTxs
      PROVE  \E j \in WorkflowKeys : /\ j < k
                                     /\ Q[j].node = Q[k].node
                                     /\ Q[j].user = Q[k].user
                                     /\ Q[j].account = Spender(Q[k].from)
  BY WorkflowCalls, SpendersFacts DEF WorkflowTxs, WorkflowKeys, IsTx, IsKey
<1>4. WorkflowUsers \cup WorkflowKeys \cup WorkflowTxs \subseteq 1..35
  BY DEF WorkflowUsers, WorkflowKeys, WorkflowTxs
<1>5. CallsOf(Q) = 1..35
  OBVIOUS
<1>6. \A k \in 1..35 :
        /\ Q[k].op = "createUser" <=> k \in WorkflowUsers
        /\ Q[k].op = "addKey" <=> k \in WorkflowKeys
        /\ Q[k].op = "tx" <=> k \in WorkflowTxs
  OBVIOUS
<1>7. ASSUME NEW k \in 1..35, NEW j \in 1..35, j < k,
             Q[k].op = "createUser", Q[j].op = "createUser"
      PROVE  <<Q[j].node, Q[j].user>>
               # <<Q[k].node, Q[k].user>>
  BY ONLY <1>1, <1>6, <1>7
<1>8. ASSUME NEW k \in 1..35, Q[k].op = "addKey"
      PROVE  \E j \in 1..35 : /\ j < k /\ Q[j].op = "createUser"
                              /\ Q[j].node = Q[k].node
                              /\ Q[j].user = Q[k].user
  BY ONLY <1>2, <1>4, <1>6, <1>8
<1>9. ASSUME NEW k \in 1..35, Q[k].op = "tx"
      PROVE  \E j \in 1..35 : /\ j < k /\ Q[j].op = "addKey"
                              /\ Q[j].node = Q[k].node
                              /\ Q[j].user = Q[k].user
                              /\ Q[j].account = Spender(Q[k].from)
  BY ONLY <1>3, <1>4, <1>6, <1>9
<1> QED
  BY ONLY <1>5, <1>7, <1>8, <1>9, Zenon DEF KeysInPlace

\* Every account but two is moved on one node only, and what the other node
\* has sent to the delegator is looked for.
OnStakerNode == {xs, toPs, ps, stake, toXs}
OnDelegatorNode == {toPd, pd, delegation, toXd}

LEMMA WorkflowHasArrived ==
  ASSUME NEW Q \in WorkflowTests, Q \in Programs
  PROVE  /\ \A a \in OnStakerNode : \A k : HasArrived(Q, StakerNode, a, k)
         /\ \A a \in OnDelegatorNode : \A k : HasArrived(Q, DelegatorNode, a, k)
         /\ \A k \in 15..36 : HasArrived(Q, DelegatorNode, xd, k)
<1>1. \A a \in OnStakerNode : \A k : \A j \in Before(Q, k, a) :
        Q[j].node = StakerNode
  <2>1. \A a \in OnStakerNode : \A k :
          Before(Q, k, a) \subseteq {11, 15, 16, 19, 28, 29}
    BY WorkflowMovers DEF OnStakerNode
  <2>2. \A j \in {11, 15, 16, 19, 28, 29} : Q[j].node = StakerNode
    BY WorkflowCalls DEF IsTx
  <2> QED
    BY ONLY <2>1, <2>2
<1>2. \A a \in OnDelegatorNode : \A k : \A j \in Before(Q, k, a) :
        Q[j].node = DelegatorNode
  <2>1. \A a \in OnDelegatorNode : \A k :
          Before(Q, k, a) \subseteq {22, 23, 26, 32, 33}
    BY WorkflowMovers DEF OnDelegatorNode
  <2>2. \A j \in {22, 23, 26, 32, 33} : Q[j].node = DelegatorNode
    BY WorkflowCalls DEF IsTx
  <2> QED
    BY ONLY <2>1, <2>2
<1>3. CheckShows(Q, 14, 12)
  <2>1. \A m \in 1..12 : LedgerOf(Q)[m][xd] = 0
    <3>1. \A m \in 1..12 : LedgerOf(Q)[m][xd] = Held(m, xd)
      <4>1. \A m \in 1..36 : LedgerOf(Q)[m] = [a \in WorkflowAccounts |-> Held(m, a)]
        BY WorkflowLedger
      <4> QED
        BY ONLY <4>1 DEF WorkflowAccounts
    <3>2. \A m \in 1..12 : Held(m, xd) = 0
      BY HeldFacts DEF Between
    <3> QED
      BY <3>1, <3>2
  <2>2. IsCheck(Q, 14, DelegatorNode, xd, 5)
    BY WorkflowCalls
  <2> QED
    BY ONLY <2>1, <2>2 DEF CheckShows, IsCheck
<1>4. \A k \in 15..36 : \A j \in Before(Q, k, xd) :
        \/ Q[j].node = DelegatorNode
        \/ j = 12
  <2>1. \A k : Before(Q, k, xd) \subseteq {12, 22, 33}
    BY WorkflowMovers
  <2>2. \A j \in {22, 33} : Q[j].node = DelegatorNode
    BY WorkflowCalls DEF IsTx
  <2> QED
    BY ONLY <2>1, <2>2
<1>5. 14 \in CallsOf(Q) /\ Q[14].node = DelegatorNode
        /\ Q[14].account = xd
  BY WorkflowShape, WorkflowCalls DEF IsCheck
<1> QED
  BY ONLY <1>1, <1>2, <1>3, <1>4, <1>5 DEF HasArrived

\* The way back to the X chain is built on the way there.
LEMMA WorkflowPast ==
  ASSUME NEW Q \in WorkflowTests, Q \in Programs
  PROVE  /\ {11, 15} \subseteq PastOf(Q)[29]
         /\ {12, 22} \subseteq PastOf(Q)[33]
<1> DEFINE past(k) == PastOf(Q)[k]
<1>1. \A k \in WorkflowTxs : Q[k].from # xg =>
        \A j \in Before(Q, k, Q[k].from) :
          {j} \cup past(j) \subseteq past(k)
  BY PastFacts, WorkflowShape
<1> HIDE DEF past
<1>2. ASSUME NEW k \in WorkflowTxs, NEW a, a # xg, Q[k].from = a
      PROVE  \A j \in Before(Q, k, a) : {j} \cup past(j) \subseteq past(k)
  BY <1>1, <1>2
<1>3. {11} \subseteq past(15) /\ {12} \subseteq past(22)
  <2>1. Q[15].from = xs /\ Q[22].from = xd /\ xs # xg /\ xd # xg
    BY WorkflowCalls, AccountsDiffer DEF IsTx
  <2>2. 11 \in Before(Q, 15, xs) /\ 12 \in Before(Q, 22, xd)
    BY WorkflowMovers
  <2> QED
    BY <1>2, <2>1, <2>2 DEF WorkflowTxs
<1>4. {15} \cup past(15) \subseteq past(16) /\ {22} \cup past(22) \subseteq past(23)
  <2>1. /\ Q[16].from = toPs /\ Q[23].from = toPd
        /\ toPs # xg /\ toPd # xg
    BY WorkflowCalls, AccountsDiffer DEF IsTx
  <2>2. 15 \in Before(Q, 16, toPs) /\ 22 \in Before(Q, 23, toPd)
    BY WorkflowMovers
  <2> QED
    BY <1>2, <2>1, <2>2 DEF WorkflowTxs
<1>5. past(16) \subseteq past(28) /\ past(23) \subseteq past(32)
  BY <1>2, WorkflowCalls, WorkflowMovers, AccountsDiffer DEF IsTx, WorkflowTxs
<1>6. past(28) \subseteq past(29) /\ past(32) \subseteq past(33)
  BY <1>2, WorkflowCalls, WorkflowMovers, AccountsDiffer DEF IsTx, WorkflowTxs
<1> QED
  BY ONLY <1>3, <1>4, <1>5, <1>6 DEF past

\* A transaction finds its funds where it spends them, and was built on what
\* has been paid to its receiver before.
LEMMA WorkflowTxInPlace ==
  ASSUME NEW Q \in WorkflowTests, Q \in Programs, NEW k \in WorkflowTxs
  PROVE  /\ Q[k].from # Q[k].to
         /\ IF Q[k].from = xg
              THEN Q[k].amount # Everything
              ELSE HasArrived(Q, Q[k].node, Q[k].from, k)
         /\ Before(Q, k, Q[k].to) \subseteq PastOf(Q)[k]
<1> DEFINE place(node, from, to) ==
             /\ Q[k].node = node
             /\ Q[k].from = from
             /\ Q[k].to = to
<1>1. CASE k = 11
  <2>1. place(StakerNode, xg, xs) /\ Q[k].amount # Everything
    BY <1>1, WorkflowCalls DEF IsTx, Everything
  <2>3. Before(Q, k, xs) = {}
    BY <1>1, WorkflowMovers
  <2> QED
    BY <2>1, <2>3, AccountsDiffer
<1>2. CASE k = 12
  <2>1. place(StakerNode, xg, xd) /\ Q[k].amount # Everything
    BY <1>2, WorkflowCalls DEF IsTx, Everything
  <2>3. Before(Q, k, xd) = {}
    BY <1>2, WorkflowMovers
  <2> QED
    BY <2>1, <2>3, AccountsDiffer
<1>3. CASE k = 15
  <2>1. place(StakerNode, xs, toPs)
    BY <1>3, WorkflowCalls DEF IsTx, Everything
  <2>2. HasArrived(Q, StakerNode, xs, k)
    BY <1>3, WorkflowHasArrived DEF OnStakerNode
  <2>3. Before(Q, k, toPs) = {}
    BY <1>3, WorkflowMovers
  <2> QED
    BY <2>1, <2>2, <2>3, AccountsDiffer
<1>4. CASE k = 16
  <2>1. place(StakerNode, toPs, ps)
    BY <1>4, WorkflowCalls DEF IsTx, Everything
  <2>2. HasArrived(Q, StakerNode, toPs, k)
    BY <1>4, WorkflowHasArrived DEF OnStakerNode
  <2>3. Before(Q, k, ps) = {}
    BY <1>4, WorkflowMovers
  <2> QED
    BY <2>1, <2>2, <2>3, AccountsDiffer
<1>5. CASE k = 19
  <2>1. place(StakerNode, ps, stake)
    BY <1>5, WorkflowCalls DEF IsTx, Everything
  <2>2. HasArrived(Q, StakerNode, ps, k)
    BY <1>5, WorkflowHasArrived DEF OnStakerNode
  <2>3. Before(Q, k, stake) = {}
    BY <1>5, WorkflowMovers
  <2> QED
    BY <2>1, <2>2, <2>3, AccountsDiffer
<1>6. CASE k = 22
  <2>1. place(DelegatorNode, xd, toPd)
    BY <1>6, WorkflowCalls DEF IsTx, Everything
  <2>2. HasArrived(Q, DelegatorNode, xd, k)
    BY <1>6, WorkflowHasArrived DEF OnDelegatorNode
  <2>3. Before(Q, k, toPd) = {}
    BY <1>6, WorkflowMovers
  <2> QED
    BY <2>1, <2>2, <2>3, AccountsDiffer
<1>7. CASE k = 23
  <2>1. place(DelegatorNode, toPd, pd)
    BY <1>7, WorkflowCalls DEF IsTx, Everything
  <2>2. HasArrived(Q, DelegatorNode, toPd, k)
    BY <1>7, WorkflowHasArrived DEF OnDelegatorNode
  <2>3. Before(Q, k, pd) = {}
    BY <1>7, WorkflowMovers
  <2> QED
    BY <2>1, <2>2, <2>3, AccountsDiffer
<1>8. CASE k = 26
  <2>1. place(DelegatorNode, pd, delegation)
    BY <1>8, WorkflowCalls DEF IsTx, Everything
  <2>2. HasArrived(Q, DelegatorNode, pd, k)
    BY <1>8, WorkflowHasArrived DEF OnDelegatorNode
  <2>3. Before(Q, k, delegation) = {}
    BY <1>8, WorkflowMovers
  <2> QED
    BY <2>1, <2>2, <2>3, AccountsDiffer
<1>9. CASE k = 28
  <2>1. place(StakerNode, ps, toXs)
    BY <1>9, WorkflowCalls DEF IsTx, Everything
  <2>2. HasArrived(Q, StakerNode, ps, k)
    BY <1>9, WorkflowHasArrived DEF OnStakerNode
  <2>3. Before(Q, k, toXs) = {}
    BY <1>9, WorkflowMovers
  <2> QED
    BY <2>1, <2>2, <2>3, AccountsDiffer
<1>10. CASE k = 29
  <2>1. place(StakerNode, toXs, xs)
    BY <1>10, WorkflowCalls DEF IsTx, Everything
  <2>2. HasArrived(Q, StakerNode, toXs, k)
    BY <1>10, WorkflowHasArrived DEF OnStakerNode
  <2>3. Before(Q, k, xs) = {11, 15}
    BY <1>10, WorkflowMovers
  <2> QED
    BY <1>10, <2>1, <2>2, <2>3, AccountsDiffer, WorkflowPast
<1>11. CASE k = 32
  <2>1. place(DelegatorNode, pd, toXd)
    BY <1>11, WorkflowCalls DEF IsTx, Everything
  <2>2. HasArrived(Q, DelegatorNode, pd, k)
    BY <1>11, WorkflowHasArrived DEF OnDelegatorNode
  <2>3. Before(Q, k, toXd) = {}
    BY <1>11, WorkflowMovers
  <2> QED
    BY <2>1, <2>2, <2>3, AccountsDiffer
<1>12. CASE k = 33
  <2>1. place(DelegatorNode, toXd, xd)
    BY <1>12, WorkflowCalls DEF IsTx, Everything
  <2>2. HasArrived(Q, DelegatorNode, toXd, k)
    BY <1>12, WorkflowHasArrived DEF OnDelegatorNode
  <2>3. Before(Q, k, xd) = {12, 22}
    BY <1>12, WorkflowMovers
  <2> QED
    BY <1>12, <2>1, <2>2, <2>3, AccountsDiffer, WorkflowPast
<1> QED
  BY <1>1, <1>2, <1>3, <1>4, <1>5, <1>6, <1>7, <1>8, <1>9, <1>10, <1>11,
     <1>12 DEF WorkflowTxs

LEMMA WorkflowFundsInPlace ==
  ASSUME NEW Q \in WorkflowTests, Q \in Programs, GenesisFunds >= 2 * seedAmount
  PROVE  FundsInPlace(Q)
  BY WorkflowTxInPlace, WorkflowAmounts, WorkflowShape DEF FundsInPlace

\* What the test expects is what its calls have made.
LEMMA WorkflowChecksInPlace ==
  ASSUME NEW Q \in WorkflowTests, Q \in Programs
  PROVE  ChecksInPlace(Q)
<1>1. \A v \in WorkflowChecks : \A a \in WorkflowAccounts :
        LedgerOf(Q)[v][a] = Held(v, a)
  <2>1. \A m \in 1..36 : LedgerOf(Q)[m] = [a \in WorkflowAccounts |-> Held(m, a)]
    BY WorkflowLedger
  <2> QED
    BY ONLY <2>1 DEF WorkflowChecks
<1>2. \A v \in WorkflowChecks :
        /\ Q[v].account \in WorkflowAccounts \ {xg}
        /\ Q[v].expected = Held(v, Q[v].account)
  <2>1. /\ Held(13, xs) = 5
        /\ Held(14, xd) = 5
        /\ Held(17, ps) = 5
        /\ Held(18, xs) = 0
        /\ Held(21, ps) = 2
        /\ Held(24, pd) = 5
        /\ Held(25, xd) = 0
        /\ Held(27, pd) = 2
        /\ Held(30, ps) = 0
        /\ Held(31, xs) = 2
        /\ Held(34, pd) = 0
        /\ Held(35, xd) = 2
    BY HeldFacts DEF Between
  <2> QED
    BY <2>1, WorkflowCalls, AccountsDiffer DEF IsCheck, WorkflowChecks, WorkflowAccounts
<1> QED
  BY <1>1, <1>2, WorkflowShape, WorkflowKinds DEF ChecksInPlace

\* What the test leaves behind.
LEMMA WorkflowLeavesBehind ==
  ASSUME NEW Q \in WorkflowTests, Q \in Programs, NEW b \in FinalBalances
  PROVE  LeavesBehind(Q, b.node, b.account, b.holds)
<1>1. ASSUME NEW n \in {StakerNode, DelegatorNode}
      PROVE  \E k \in CallsOf(Q) : Q[k].node = n
  BY WorkflowShape, WorkflowCalls DEF IsUser
<1>2. /\ Held(36, xs) = 2 /\ Held(36, ps) = 0
      /\ Held(36, toXs) = 0 /\ Held(36, stake) = 3
      /\ Held(36, xd) = 2 /\ Held(36, pd) = 0
      /\ Held(36, toXd) = 0 /\ Held(36, delegation) = 3
  BY HeldFacts DEF Between
<1>3. ASSUME NEW a \in WorkflowAccounts
      PROVE  LedgerOf(Q)[36][a] = Held(36, a)
  <2>1. \A m \in 1..36 : LedgerOf(Q)[m] = [acc \in WorkflowAccounts |-> Held(m, acc)]
    BY WorkflowLedger
  <2> QED
    BY ONLY <2>1, a \in WorkflowAccounts
<1>4. Len(Q) + 1 = 36
  <2>1. Len(Q) = 35
    BY WorkflowCalls
  <2> QED
    BY ONLY <2>1
<1>5. FinalBalances =
        { Left(StakerNode, xs, 2), Left(StakerNode, ps, 0),
          Left(StakerNode, toXs, 0), Left(StakerNode, stake, 3),
          Left(DelegatorNode, xd, 2), Left(DelegatorNode, pd, 0),
          Left(DelegatorNode, toXd, 0), Left(DelegatorNode, delegation, 3) }
  BY DEF FinalBalances, xs, ps, toXs, stake, xd, pd, toXd, delegation, stakeAmount,
         delegatorAmount, seedAmount, ExpectedStakerBalance, ExpectedDelegatorBalance
<1>6. b.account \in WorkflowAccounts \ {xg} /\ Held(36, b.account) = b.holds
  BY <1>2, <1>5, AccountsDiffer DEF Left, WorkflowAccounts
<1>7. /\ b.node \in {StakerNode, DelegatorNode}
      /\ HasArrived(Q, b.node, b.account, 36)
  BY <1>5, WorkflowHasArrived DEF Left, OnStakerNode, OnDelegatorNode
<1> QED
  BY <1>1, <1>3, <1>4, <1>6, <1>7, WorkflowShape DEF LeavesBehind

LEMMA WorkflowCareful ==
  ASSUME NEW Q \in WorkflowTests, Q \in Programs, GenesisFunds >= 2 * seedAmount
  PROVE  WorkflowIsCareful(Q)
  BY WorkflowKeysInPlace, WorkflowFundsInPlace, WorkflowChecksInPlace,
     WorkflowLeavesBehind DEF WorkflowIsCareful, Careful

\* The workflow test, with a context or without, makes sure of what it relies
\* on, and is never refused a call, when the genesis funds cover the two seeds
\* (workflow/executor.go:56-207).
THEOREM WorkflowNeverRefused ==
  ASSUME GenesisFunds >= 2 * seedAmount
  PROVE  Spec => [](program \in WorkflowTests => TestIsCareful /\ NeverRefused)
<1>1. IInv /\ program \in WorkflowTests => WorkflowIsCareful(program) /\ Careful(program)
  BY WorkflowCareful, StateFacts DEF WorkflowIsCareful
<1>2. IInv /\ (Careful(program) => NeverRefused) =>
        (program \in WorkflowTests => TestIsCareful /\ NeverRefused)
  BY <1>1 DEF TestIsCareful
<1> QED
  BY <1>2, SpecIInv, CarefulNeverRefused, PTL

\* If the genesis funds cover the two seeds, a workflow that gets to its end
\* has left every KiloAvax where the test says, whatever the network has done;
\* it needs a context to get there (workflow/executor.go:56-207).
THEOREM WorkflowFundsAreBack ==
  ASSUME GenesisFunds >= 2 * seedAmount
  PROVE  Spec => []FundsAreBack
<1>1. ASSUME IInv, Careful(program) => LInv,
             pc = Len(program) + 1, program \in WorkflowTests,
             NEW b \in FinalBalances
      PROVE  bal[b.node][b.account] = b.holds
  <2> DEFINE n == b.node
             a == b.account
  <2>0. WorkflowIsCareful(program)
    BY <1>1, WorkflowCareful, StateFacts
  <2>1. LInv
    BY <1>1, <2>0 DEF WorkflowIsCareful
  <2>2. LeavesBehind(program, n, a, b.holds)
    BY <1>1, <2>0 DEF WorkflowIsCareful
  <2> HIDE DEF n, a
  <2>3. n \in Nodes /\ a \in Accounts /\ a \notin Sources(program)
    BY <1>1, <2>2, StateFacts DEF LeavesBehind
  <2>4. pc \notin issued
    BY <1>1, StateFacts
  <2>5. HasArrived(program, n, a, pc) /\ Ledger[pc][a] = b.holds
    BY <1>1, <2>2 DEF LeavesBehind, Ledger
  <2>6. Earlier(pc, a) \subseteq Accepted(n, a)
    BY <1>1, <2>1, <2>3, <2>5, ArrivedIsAccepted DEF LInv
  <2>7. bal[n][a] = Ledger[pc][a]
    BY <1>1, <2>1, <2>3, <2>4, <2>6, ArrivedBalance
  <2> QED
    BY <2>5, <2>7 DEF n, a
<1>2. IInv /\ (Careful(program) => LInv) => FundsAreBack
  BY <1>1 DEF FundsAreBack
<1> QED
  BY <1>2, SpecIInv, SpecLInv, PTL
=============================================================================

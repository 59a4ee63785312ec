----------------------- MODULE EcoTokenRegistryProofs -----------------------
(* Proofs about the contract of the EcoToken: every entry point, invoked by *)
(* whom the contract lets in, keeps the supply, the records of the batches  *)
(* and the signatures consistent.                                           *)
EXTENDS EcoTokenRegistry, FiniteSums, SequenceTheorems

Payments == Seq([to: Addresses, amount: Int])

-----------------------------------------------------------------------------
(* The inductive invariant.                                                 *)

LedgerTyped ==
    /\ worker \in Addresses /\ supply \in Int
    /\ balance \in [Addresses -> Int]
    /\ allowance \in [Addresses -> [Addresses -> Int]]
    /\ nonce \in [Addresses -> Nat]
    /\ record \in [BatchIds -> [processed: BOOLEAN, reward: Int, recipients: Nat]]
    /\ rate \in [Codes -> Int \cup {None}]
    /\ doubled \in Int /\ minted \in [BatchIds -> Int] /\ receipts \in [BatchIds -> Nat]
    /\ relayed \in [Addresses -> Seq(Nat)]

\* What a batch was given is on its record, unless it is negative, and a batch without a
\* record was given nothing.
RecordOK(b) ==
    /\ minted[b] = record[b].reward \/ (record[b].reward < 0 /\ minted[b] = 0)
    /\ receipts[b] <= (IF record[b].processed THEN 1 ELSE 0)
    /\ Unregistered(b) => minted[b] = 0
RecordsOK == \A b \in BatchIds : RecordOK(b)

\* The signatures that were used have the nonces before the next one, each once.
UsedOnce(a) ==
    /\ \A i \in DOMAIN relayed[a] : relayed[a][i] < nonce[a]
    /\ \A i, j \in DOMAIN relayed[a] : relayed[a][i] = relayed[a][j] => i = j
SignaturesOK == \A a \in Addresses : UsedOnce(a)

LedgerInv == LedgerTyped /\ SupplyIsBalances /\ RecordsOK /\ SignaturesOK

LEMMA InvIsTyped ==
    LedgerInv /\ invocations \in 0..MaxInvocations => RegistryTypeOK
  BY DEF LedgerInv, LedgerTyped, RegistryTypeOK

LEMMA InvMeansMinted == LedgerInv => RewardIsMinted
  BY DEF LedgerInv, LedgerTyped, RecordsOK, RecordOK, RewardIsMinted

LEMMA InvMeansOnce == LedgerInv => SignatureOnce
  BY DEF LedgerInv, SignaturesOK, UsedOnce, SignatureOnce

LEMMA SupplyBySum == SupplyIsBalances <=> Sum(balance, Addresses) = supply + doubled
  BY DEF SupplyIsBalances, Sum
LEMMA SupplyBySumAfter == SupplyIsBalances' <=> Sum(balance', Addresses) = supply' + doubled'
  BY DEF SupplyIsBalances, Sum, MapThenSumSet, MapThenFoldSet

LEMMA InitLedger == RegistryInit => LedgerInv /\ invocations \in 0..MaxInvocations
  <1> SUFFICES ASSUME RegistryInit PROVE LedgerInv /\ invocations \in 0..MaxInvocations
    OBVIOUS
  <1> USE RegistryOK DEF RegistryOK, RegistryInit
  <1>1. LedgerTyped
    BY DEF LedgerTyped, NoRecord
  <1>2. SupplyIsBalances
    <2>1. Sum(balance, Addresses) = Cardinality(Addresses) * 0
      BY SumConstant
    <2>2. Cardinality(Addresses) \in Nat
      BY FS_CardinalityType
    <2> QED BY <2>1, <2>2, SupplyBySum
  <1>3. RecordsOK
    BY DEF RecordsOK, RecordOK, NoRecord
  <1>4. SignaturesOK
    BY DEF SignaturesOK, UsedOnce
  <1> QED
    BY <1>1, <1>2, <1>3, <1>4 DEF LedgerInv

-----------------------------------------------------------------------------
(* Payments.                                                                *)

AmountOf(p) == [i \in DOMAIN p |-> p[i].amount]
PayeeOf(p) == [i \in DOMAIN p |-> p[i].to]
AmountsIn(p, I) == MapThenSumSet(LAMBDA i : p[i].amount, I)

LEMMA AmountsBySum ==
    ASSUME NEW p, NEW I, I \subseteq DOMAIN p
    PROVE  AmountsIn(p, I) = Sum(AmountOf(p), I)
  <1> DEFINE ByPayment(it) == it = [s \in SUBSET I |->
               IF s = {} THEN 0 ELSE p[Pick(s)].amount + it[s \ {Pick(s)}]]
             BySum(it) == it = [s \in SUBSET I |->
               IF s = {} THEN 0 ELSE AmountOf(p)[Pick(s)] + it[s \ {Pick(s)}]]
  <1>1. AmountsIn(p, I) = (CHOOSE it : ByPayment(it))[I]
    BY DEF AmountsIn, MapThenSumSet, MapThenFoldSet, Pick
  <1>2. Sum(AmountOf(p), I) = (CHOOSE it : BySum(it))[I]
    BY DEF Sum, MapThenSumSet, MapThenFoldSet, Pick
  <1>3. \A it : ByPayment(it) <=> BySum(it)
    <2>1. \A s \in SUBSET I : s # {} => AmountOf(p)[Pick(s)] = p[Pick(s)].amount
      BY PickIn DEF AmountOf
    <2> QED BY <2>1
  <1> HIDE DEF ByPayment, BySum
  <1>4. (CHOOSE it : ByPayment(it)) = (CHOOSE it : BySum(it))
    BY <1>3
  <1> QED
    BY <1>1, <1>2, <1>4

LEMMA PaymentsTyped ==
    ASSUME NEW p \in Payments
    PROVE  /\ IsFiniteSet(DOMAIN p) /\ DOMAIN p = 1..Len(p) /\ Len(p) \in Nat
           /\ \A i \in DOMAIN p : AmountOf(p)[i] \in Int /\ PayeeOf(p)[i] \in Addresses
  <1>1. DOMAIN p = 1..Len(p) /\ Len(p) \in Nat
    BY DEF Payments
  <1>2. IsFiniteSet(1..Len(p))
    BY <1>1, FS_Interval
  <1>3. \A i \in DOMAIN p : p[i] \in [to: Addresses, amount: Int]
    BY <1>1, ElementOfSeq DEF Payments
  <1> QED
    BY <1>1, <1>2, <1>3 DEF AmountOf, PayeeOf

LEMMA TotalBySum ==
    ASSUME NEW p \in Payments
    PROVE  Total(p) = Sum(AmountOf(p), DOMAIN p) /\ Total(p) \in Int
  <1>1. Total(p) = AmountsIn(p, DOMAIN p)
    BY DEF Total, AmountsIn
  <1> QED
    BY <1>1, AmountsBySum, PaymentsTyped, SumInt

LEMMA PaidToBySum ==
    ASSUME NEW p \in Payments, NEW a \in Addresses
    PROVE  PaidTo(a, p) = Sum(AmountOf(p), OfKey(PayeeOf(p), a, DOMAIN p)) /\ PaidTo(a, p) \in Int
  <1> DEFINE I == {i \in DOMAIN p : p[i].to = a}
  <1>1. PaidTo(a, p) = AmountsIn(p, I)
    BY DEF PaidTo, AmountsIn
  <1>2. I = OfKey(PayeeOf(p), a, DOMAIN p)
    BY DEF OfKey, PayeeOf
  <1>3. I \subseteq DOMAIN p /\ IsFiniteSet(I)
    BY PaymentsTyped, FS_Subset
  <1>4. AmountsIn(p, I) = Sum(AmountOf(p), I)
    BY <1>3, AmountsBySum
  <1>5. Sum(AmountOf(p), I) \in Int
    <2> HIDE DEF I
    <2> QED BY <1>3, PaymentsTyped, SumInt
  <1> QED
    BY <1>1, <1>2, <1>4, <1>5

\* What is paid to all the addresses is all that is paid.
LEMMA PaidToAll ==
    ASSUME NEW p \in Payments
    PROVE  Sum([a \in Addresses |-> PaidTo(a, p)], Addresses) = Total(p)
  <1>1. [a \in Addresses |-> PaidTo(a, p)]
          = [a \in Addresses |-> Sum(AmountOf(p), OfKey(PayeeOf(p), a, DOMAIN p))]
    BY PaidToBySum
  <1>2. Sum([a \in Addresses |-> Sum(AmountOf(p), OfKey(PayeeOf(p), a, DOMAIN p))], Addresses)
          = Sum(AmountOf(p), DOMAIN p)
    <2> DEFINE w == AmountOf(p)
               key == PayeeOf(p)
               S == DOMAIN p
    <2>1. IsFiniteSet(Addresses)
      BY RegistryOK DEF RegistryOK
    <2>2. IsFiniteSet(S) /\ \A x \in S : w[x] \in Int /\ key[x] \in Addresses
      BY PaymentsTyped
    <2> HIDE DEF w, key, S
    <2>3. Sum([a \in Addresses |-> Sum(w, OfKey(key, a, S))], Addresses) = Sum(w, S)
      BY <2>1, <2>2, SumByKey
    <2> QED BY <2>3 DEF w, key, S
  <1> QED
    BY <1>1, <1>2, TotalBySum

\* internal_mint adds to the balances what it adds to the supply.
LEMMA MintKeepsSupply ==
    ASSUME LedgerInv, NEW p \in Payments, MintAll(p), UNCHANGED doubled
    PROVE  SupplyIsBalances' /\ balance' \in [Addresses -> Int] /\ supply' \in Int
  <1> DEFINE paid == [a \in Addresses |-> PaidTo(a, p)]
  <1>1. balance \in [Addresses -> Int] /\ supply \in Int /\ doubled \in Int
    BY DEF LedgerInv, LedgerTyped
  <1>2. \A a \in Addresses : PaidTo(a, p) \in Int
    BY PaidToBySum
  <1>3. balance' = [a \in Addresses |-> balance[a] + PaidTo(a, p)] /\ supply' = supply + Total(p)
    BY DEF MintAll
  <1>4. balance' \in [Addresses -> Int]
    BY <1>1, <1>2, <1>3
  <1>5. \A a \in Addresses : /\ balance[a] \in Int /\ paid[a] \in Int
                             /\ balance'[a] = balance[a] + paid[a]
    BY <1>1, <1>2, <1>3
  <1>6. Sum(paid, Addresses) = Total(p)
    BY PaidToAll
  <1>7. Sum(balance', Addresses) = Sum(balance, Addresses) + Sum(paid, Addresses)
    <2> HIDE DEF paid
    <2> QED BY <1>5, SumOfSums, RegistryOK DEF RegistryOK
  <1>8. Sum(balance, Addresses) = supply + doubled
    BY SupplyBySum DEF LedgerInv
  <1>9. Total(p) \in Int
    BY TotalBySum
  <1>10. Sum(balance', Addresses) = supply' + doubled'
    BY <1>1, <1>3, <1>6, <1>7, <1>8, <1>9
  <1> QED
    BY <1>1, <1>3, <1>4, <1>9, <1>10, SupplyBySumAfter

\* internal_transfer moves what it takes, or doubles what comes back to its sender.
LEMMA MoveKeepsSupply ==
    ASSUME LedgerInv, NEW from \in Addresses, NEW to \in Addresses, NEW n \in Int,
           Move(from, to, n), UNCHANGED supply
    PROVE  SupplyIsBalances' /\ balance' \in [Addresses -> Int] /\ doubled' \in Int
  <1>1. balance \in [Addresses -> Int] /\ supply \in Int /\ doubled \in Int
    BY DEF LedgerInv, LedgerTyped
  <1> DEFINE taken == [balance EXCEPT ![from] = @ - n]
  <1>2. taken \in [Addresses -> Int] /\ taken[from] = balance[from] - n
        /\ \A a \in Addresses \ {from} : taken[a] = balance[a]
    BY <1>1
  <1>3. balance' = [taken EXCEPT ![to] = balance[to] + n]
    BY DEF Move, Moved
  <1>4. balance[to] + n \in Int /\ balance[from] \in Int /\ balance[to] \in Int
    BY <1>1
  <1> HIDE DEF taken
  <1>5. balance' \in [Addresses -> Int] /\ balance'[to] = balance[to] + n
        /\ \A a \in Addresses \ {to} : balance'[a] = taken[a]
    BY <1>2, <1>3, <1>4
  <1>6. Sum(taken, Addresses) = Sum(balance, Addresses) + taken[from] - balance[from]
    <2>1. \A a \in Addresses : balance[a] \in Int /\ taken[a] \in Int
      BY <1>1, <1>2
    <2>2. \A a \in Addresses \ {from} : balance[a] = taken[a]
      BY <1>2
    <2> QED BY <2>1, <2>2, SumChanges, RegistryOK DEF RegistryOK
  <1>7. Sum(balance', Addresses) = Sum(taken, Addresses) + balance'[to] - taken[to]
    <2>1. \A a \in Addresses : balance'[a] \in Int /\ taken[a] \in Int
      BY <1>2, <1>5
    <2>2. \A a \in Addresses \ {to} : taken[a] = balance'[a]
      BY <1>5
    <2> QED BY <2>1, <2>2, SumChanges, RegistryOK DEF RegistryOK
  <1>8. Sum(balance, Addresses) = supply + doubled
    BY SupplyBySum DEF LedgerInv
  <1>9. doubled' = (IF from = to THEN doubled + n ELSE doubled) /\ supply' = supply
    BY DEF Move
  <1>10. Sum(balance', Addresses) = supply' + doubled'
    <2>1. CASE from = to
      BY <1>1, <1>2, <1>4, <1>5, <1>6, <1>7, <1>8, <1>9, <2>1
    <2>2. CASE from # to
      <3>1. taken[to] = balance[to]
        BY <1>2, <2>2
      <3> QED BY <1>1, <1>2, <1>4, <1>5, <1>6, <1>7, <1>8, <1>9, <2>2, <3>1
    <2> QED BY <2>1, <2>2
  <1> QED
    BY <1>1, <1>5, <1>9, <1>10, SupplyBySumAfter

-----------------------------------------------------------------------------
(* The split of a reward.                                                   *)

LEMMA QuotTyped ==
    ASSUME NEW a \in Int, NEW b \in Nat \ {0}
    PROVE  /\ Quot(a, b) \in Int
           /\ a >= 0 => Quot(a, b) >= 0 /\ b * Quot(a, b) <= a
           /\ a <= 0 => Quot(a, b) <= 0 /\ b * Quot(a, b) >= a
  <1>1. ASSUME NEW c \in Nat
        PROVE  c \div b \in Nat /\ b * (c \div b) <= c
    <2>1. c = b * (c \div b) + (c % b) /\ c % b \in Nat /\ c \div b \in Int
      BY <1>1
    <2>2. c \div b >= 0
      BY <1>1
    <2> QED BY <2>1, <2>2
  <1>2. CASE a >= 0
    <2>1. a \in Nat /\ Quot(a, b) = a \div b
      BY <1>2 DEF Quot
    <2>2. a \div b \in Nat /\ b * (a \div b) <= a
      BY <1>1, <2>1
    <2>3. a <= 0 => a \div b = 0
      <3>1. ASSUME a = 0 PROVE a \div b = 0
        BY <3>1
      <3> QED BY <1>2, <3>1
    <2> DEFINE q == a \div b
    <2> HIDE DEF q
    <2>4. q \in Nat /\ b * q <= a /\ (a <= 0 => q = 0) /\ Quot(a, b) = q
      BY <2>1, <2>2, <2>3 DEF q
    <2>5. a <= 0 => b * q = 0
      <3>1. b * 0 = 0
        OBVIOUS
      <3> QED BY <2>4, <3>1
    <2> QED BY <1>2, <2>4, <2>5
  <1>3. CASE a < 0
    <2>1. -a \in Nat /\ Quot(a, b) = -((-a) \div b)
      BY <1>3 DEF Quot
    <2>2. (-a) \div b \in Nat /\ b * ((-a) \div b) <= -a
      BY <1>1, <2>1
    <2> DEFINE q == (-a) \div b
    <2> HIDE DEF q
    <2>3. q \in Nat /\ b * q <= -a /\ Quot(a, b) = -q
      BY <2>1, <2>2 DEF q
    <2>4. b * (-q) = -(b * q) /\ b * q \in Int
      BY <2>3
    <2> QED BY <1>3, <2>3, <2>4
  <1> QED
    BY <1>2, <1>3

\* Nothing of a reward is lost in the divisions, and no share has the other sign.
LEMMA ShareTyped ==
    ASSUME NEW total \in Int, NEW n \in Nat
    PROVE  /\ Share(total, n).each \in Int /\ Share(total, n).collector \in Int
           /\ n * Share(total, n).each + Share(total, n).collector = total
           /\ total >= 0 => Share(total, n).each >= 0 /\ Share(total, n).collector >= 0
           /\ total <= 0 => Share(total, n).each <= 0 /\ Share(total, n).collector <= 0
  <1> DEFINE cut == Quot(total * ShareBps, 10000)
             each == Quot(total - cut, n)
  <1>1. CASE n = 0
    <2>1. Share(total, n) = [each |-> 0, collector |-> total]
      BY <1>1 DEF Share
    <2>2. n * 0 + total = total
      OBVIOUS
    <2> QED BY <2>1, <2>2
  <1>2. CASE n # 0
    <2>1. ShareBps \in 0..10000
      BY RegistryOK DEF RegistryOK
    <2>2. PICK k \in 0..10000 : k = ShareBps
      BY <2>1
    <2>3. /\ total * k \in Int
          /\ total >= 0 => 0 <= total * k /\ total * k <= 10000 * total
          /\ total <= 0 => total * k <= 0 /\ 10000 * total <= total * k
      OBVIOUS
    <2>4. /\ cut \in Int
          /\ total >= 0 => cut >= 0 /\ cut <= total
          /\ total <= 0 => cut <= 0 /\ total <= cut
      <3> DEFINE m == total * k
      <3>1. cut = Quot(m, 10000)
        BY <2>2
      <3> HIDE DEF m, cut
      <3>2. /\ m \in Int
            /\ total >= 0 => 0 <= m /\ m <= 10000 * total
            /\ total <= 0 => m <= 0 /\ 10000 * total <= m
        BY <2>3 DEF m
      <3>3. /\ cut \in Int
            /\ m >= 0 => cut >= 0 /\ 10000 * cut <= m
            /\ m <= 0 => cut <= 0 /\ 10000 * cut >= m
        BY <3>1, <3>2, QuotTyped
      <3> QED BY <3>2, <3>3
    <2> HIDE DEF cut
    <2>5. /\ each \in Int
          /\ total >= 0 => each >= 0 /\ n * each <= total - cut
          /\ total <= 0 => each <= 0 /\ n * each >= total - cut
      BY <1>2, <2>4, QuotTyped
    <2>6. Share(total, n) = [each |-> each, collector |-> total - each * n]
      BY <1>2 DEF Share, cut
    <2> HIDE DEF each
    <2>7. n * each = each * n /\ n * each \in Int
      BY <2>5
    <2>8. n * each + (total - each * n) = total /\ total - each * n \in Int
      BY <2>7
    <2>9. /\ total >= 0 => total - each * n >= 0
          /\ total <= 0 => total - each * n <= 0
      BY <2>4, <2>5, <2>7
    <2> QED BY <2>5, <2>6, <2>8, <2>9
  <1> QED
    BY <1>1, <1>2

\* A payment more.
LEMMA TotalGrows ==
    ASSUME NEW p \in Payments, NEW to \in Addresses, NEW amount \in Int
    PROVE  /\ Append(p, [to |-> to, amount |-> amount]) \in Payments
           /\ Total(Append(p, [to |-> to, amount |-> amount])) = Total(p) + amount
  <1> DEFINE x == [to |-> to, amount |-> amount]
             q == Append(p, x)
             n == Len(p)
             A == AmountOf(p)
             B == AmountOf(q)
  <1>1. x \in [to: Addresses, amount: Int] /\ x.amount = amount
    OBVIOUS
  <1> HIDE DEF x
  <1>2. q \in Payments /\ Len(q) = n + 1 /\ q[n + 1] = x /\ \A i \in 1..n : q[i] = p[i]
    BY <1>1, AppendProperties DEF Payments
  <1> HIDE DEF q
  <1>3. n \in Nat /\ DOMAIN p = 1..n /\ DOMAIN q = 1..(n + 1)
    BY <1>2, PaymentsTyped
  <1> HIDE DEF n
  <1>4. n + 1 \in 1..(n + 1) /\ (1..(n + 1)) \ {n + 1} = 1..n
    BY <1>3
  <1>5. IsFiniteSet(1..(n + 1)) /\ IsFiniteSet(1..n)
    BY <1>3, FS_Interval
  <1>6. B[n + 1] = amount /\ \A i \in 1..n : B[i] = A[i]
    <2>1. \A i \in 1..n : i \in 1..(n + 1)
      BY <1>3
    <2> QED BY <1>1, <1>2, <1>3, <1>4, <2>1 DEF AmountOf
  <1>7. \A i \in 1..(n + 1) : B[i] \in Int
    BY <1>2, <1>3, PaymentsTyped
  <1>8. Total(p) = Sum(A, 1..n) /\ Total(q) = Sum(B, 1..(n + 1)) /\ Total(p) \in Int
    BY <1>2, <1>3, TotalBySum
  <1> HIDE DEF A, B
  <1>9. Sum(B, 1..(n + 1)) = B[n + 1] + Sum(B, (1..(n + 1)) \ {n + 1})
    BY <1>4, <1>5, <1>7, SumRemove
  <1>10. Sum(B, 1..n) = Sum(A, 1..n)
    BY <1>5, <1>6, SumAgrees
  <1>11. Sum(B, (1..(n + 1)) \ {n + 1}) = Sum(A, 1..n)
    BY <1>4, <1>10
  <1>12. Total(q) = Total(p) + amount
    BY <1>6, <1>8, <1>9, <1>11
  <1> QED
    BY <1>2, <1>12 DEF q, x

\* The same payment to everyone.
LEMMA TotalOfEqual ==
    ASSUME NEW households \in Seq(Addresses), NEW each \in Int
    PROVE  LET first == [i \in 1..Len(households) |-> [to |-> households[i], amount |-> each]]
           IN  first \in Payments /\ Total(first) = Len(households) * each
  <1> DEFINE n == Len(households)
             first == [i \in 1..n |-> [to |-> households[i], amount |-> each]]
             A == AmountOf(first)
  <1>1. n \in Nat /\ \A i \in 1..n : households[i] \in Addresses
    OBVIOUS
  <1> HIDE DEF n
  <1>2. first \in Payments /\ DOMAIN first = 1..n
    BY <1>1 DEF Payments
  <1>3. \A i \in 1..n : A[i] = each
    BY <1>2 DEF AmountOf
  <1>4. IsFiniteSet(1..n) /\ Cardinality(1..n) = n
    BY <1>1, FS_Interval
  <1>5. Total(first) = Sum(A, 1..n)
    BY <1>2, TotalBySum
  <1> HIDE DEF A, first
  <1>6. Sum(A, 1..n) = n * each
    BY <1>3, <1>4, SumConstant
  <1> QED
    BY <1>2, <1>5, <1>6 DEF n, first

\* What is minted of a reward: all of it, or nothing of a negative one.
LEMMA SplitIsReward ==
    ASSUME NEW collector \in Addresses, NEW households \in Seq(Addresses), NEW reward \in Int
    PROVE  LET p == Split(collector, households, Share(reward, Len(households)))
           IN  p \in Payments /\ Total(p) = (IF reward > 0 THEN reward ELSE 0)
  <1> DEFINE n == Len(households)
             each == Share(reward, n).each
             rest == Share(reward, n).collector
             first == [i \in 1..n |-> [to |-> households[i], amount |-> each]]
             shares == IF each > 0 THEN first ELSE <<>>
             p == Split(collector, households, Share(reward, n))
  <1>1. n \in Nat
    OBVIOUS
  <1>2. /\ each \in Int /\ rest \in Int /\ n * each + rest = reward
        /\ reward >= 0 => each >= 0 /\ rest >= 0
        /\ reward <= 0 => each <= 0 /\ rest <= 0
    BY <1>1, ShareTyped
  <1>3. p = IF rest > 0 THEN Append(shares, [to |-> collector, amount |-> rest]) ELSE shares
    BY DEF Split
  <1> HIDE DEF p, each, rest
  <1>4. first \in Payments /\ Total(first) = n * each
    BY <1>2, TotalOfEqual
  <1>5. <<>> \in Payments /\ Total(<<>>) = 0
    <2>1. <<>> \in Payments /\ DOMAIN <<>> = {}
      BY DEF Payments
    <2> QED BY <2>1, TotalBySum, SumEmpty
  <1> HIDE DEF first, n
  <1>6. shares \in Payments
    BY <1>4, <1>5
  <1>7. reward > 0 => Total(shares) = n * each
    <2>1. each = 0 => n * each = 0
      BY <1>1
    <2> QED BY <1>2, <1>4, <1>5, <2>1
  <1>8. reward <= 0 => Total(shares) = 0
    BY <1>2, <1>5
  <1>9. n * each \in Int
    BY <1>1, <1>2
  <1> HIDE DEF shares
  <1>10. rest > 0 => p \in Payments /\ Total(p) = Total(shares) + rest
    BY <1>2, <1>3, <1>6, TotalGrows
  <1>11. ~(rest > 0) => p \in Payments /\ Total(p) = Total(shares)
    BY <1>3, <1>6
  <1>12. p \in Payments /\ Total(p) = (IF reward > 0 THEN reward ELSE 0)
    <2>1. CASE reward > 0
      BY <1>2, <1>7, <1>9, <1>10, <1>11, <2>1
    <2>2. CASE ~(reward > 0)
      BY <1>2, <1>8, <1>10, <1>11, <2>2
    <2> QED BY <2>1, <2>2
  <1> QED
    BY <1>12 DEF p, n

-----------------------------------------------------------------------------
(* The reward of a batch is a number.                                       *)

ValueOf(loads) ==
    [i \in DOMAIN loads |-> Quot(loads[i].grams * EffectiveRate(loads[i].code), 1000)]

LEMMA RewardBySum ==
    ASSUME NEW loads
    PROVE  Reward(loads) = Sum(ValueOf(loads), DOMAIN loads)
  <1> DEFINE I == DOMAIN loads
             value(i) == Quot(loads[i].grams * EffectiveRate(loads[i].code), 1000)
             ByLoad(it) == it = [s \in SUBSET I |->
               IF s = {} THEN 0 ELSE value(Pick(s)) + it[s \ {Pick(s)}]]
             BySum(it) == it = [s \in SUBSET I |->
               IF s = {} THEN 0 ELSE ValueOf(loads)[Pick(s)] + it[s \ {Pick(s)}]]
  <1>1. Reward(loads) = (CHOOSE it : ByLoad(it))[I]
    BY DEF Reward, MapThenSumSet, MapThenFoldSet, Pick
  <1>2. Sum(ValueOf(loads), I) = (CHOOSE it : BySum(it))[I]
    BY DEF Sum, MapThenSumSet, MapThenFoldSet, Pick
  <1>3. \A it : ByLoad(it) <=> BySum(it)
    <2>1. \A s \in SUBSET I : s # {} => ValueOf(loads)[Pick(s)] = value(Pick(s))
      BY PickIn DEF ValueOf
    <2> HIDE DEF value
    <2> QED BY <2>1
  <1> HIDE DEF ByLoad, BySum
  <1>4. (CHOOSE it : ByLoad(it)) = (CHOOSE it : BySum(it))
    BY <1>3
  <1> QED
    BY <1>1, <1>2, <1>4

LEMMA RewardInt ==
    ASSUME LedgerTyped, NEW loads \in Deliveries
    PROVE  Reward(loads) \in Int
  <1>1. DOMAIN loads = 1..Len(loads) /\ Len(loads) \in Nat
    BY DEF Deliveries
  <1>2. IsFiniteSet(DOMAIN loads)
    BY <1>1, FS_Interval
  <1>3. ASSUME NEW i \in DOMAIN loads PROVE ValueOf(loads)[i] \in Int
    <2>1. loads[i] \in [code: Codes, grams: Int]
      BY <1>1, ElementOfSeq DEF Deliveries
    <2>2. EffectiveRate(loads[i].code) \in Int
      BY <2>1, RegistryOK DEF RegistryOK, EffectiveRate, LedgerTyped
    <2> DEFINE m == loads[i].grams
               r == EffectiveRate(loads[i].code)
    <2>3. m \in Int /\ r \in Int
      BY <2>1, <2>2
    <2>4. ValueOf(loads)[i] = Quot(m * r, 1000)
      BY DEF ValueOf
    <2> HIDE DEF m, r
    <2>5. m * r \in Int
      BY <2>3
    <2> QED BY <2>4, <2>5, QuotTyped
  <1> QED
    BY <1>2, <1>3, RewardBySum, SumInt

-----------------------------------------------------------------------------
(* Every entry point keeps the invariant.                                   *)

LEMMA RecordsKept ==
    ASSUME RecordsOK, UNCHANGED <<record, minted, receipts>>
    PROVE  RecordsOK'
  BY DEF RecordsOK, RecordOK, Unregistered

LEMMA SignaturesKept ==
    ASSUME SignaturesOK, UNCHANGED <<nonce, relayed>>
    PROVE  SignaturesOK'
  BY DEF SignaturesOK, UsedOnce

\* A batch gets its record, once.
LEMMA RegisterKeepsRecords ==
    ASSUME LedgerInv, NEW b \in BatchIds, NEW reward \in Int, NEW given \in Int, NEW n \in Nat,
           Unregistered(b), Register(b, reward, n),
           given = reward \/ (reward < 0 /\ given = 0),
           minted' = [minted EXCEPT ![b] = @ + given],
           \/ UNCHANGED receipts
           \/ receipts' = [receipts EXCEPT ![b] = @ + 1]
    PROVE  /\ RecordsOK'
           /\ record' \in [BatchIds -> [processed: BOOLEAN, reward: Int, recipients: Nat]]
           /\ minted' \in [BatchIds -> Int] /\ receipts' \in [BatchIds -> Nat]
  <1>1. /\ record \in [BatchIds -> [processed: BOOLEAN, reward: Int, recipients: Nat]]
        /\ minted \in [BatchIds -> Int] /\ receipts \in [BatchIds -> Nat]
    BY DEF LedgerInv, LedgerTyped
  <1>2. record' = [record EXCEPT ![b] = [processed |-> TRUE, reward |-> reward, recipients |-> n]]
    BY DEF Register
  <1>3. minted[b] = 0 /\ receipts[b] = 0
    BY <1>1 DEF LedgerInv, RecordsOK, RecordOK, Unregistered
  <1>4. record'[b] = [processed |-> TRUE, reward |-> reward, recipients |-> n]
        /\ minted'[b] = given /\ receipts'[b] \in {0, 1}
    BY <1>1, <1>2, <1>3
  <1>5. RecordOK(b)'
    BY <1>4 DEF RecordOK, Unregistered
  <1>6. ASSUME NEW d \in BatchIds, d # b PROVE RecordOK(d)'
    <2>1. record'[d] = record[d] /\ minted'[d] = minted[d] /\ receipts'[d] = receipts[d]
      BY <1>1, <1>2, <1>6
    <2>2. RecordOK(d)
      BY DEF LedgerInv, RecordsOK
    <2> QED BY <2>1, <2>2 DEF RecordOK, Unregistered
  <1>7. RecordsOK'
    BY <1>5, <1>6 DEF RecordsOK
  <1> QED
    BY <1>1, <1>2, <1>7

\* The worker, the tariffs and the allowances are no part of the books.
LEMMA SettingsKeepLedger ==
    ASSUME LedgerInv, LedgerTyped', UNCHANGED <<supply, balance, nonce, record, historyVars>>
    PROVE  LedgerInv'
  <1>1. SupplyIsBalances'
    BY SupplyBySum, SupplyBySumAfter DEF LedgerInv, historyVars
  <1> QED
    BY <1>1, RecordsKept, SignaturesKept DEF LedgerInv, historyVars

LEMMA TransferKeepsLedger ==
    ASSUME LedgerInv, NEW from \in Addresses, NEW to \in Addresses, NEW n \in Int,
           Transfer(from, to, n)
    PROVE  LedgerInv'
  <1>1. Move(from, to, n)
        /\ UNCHANGED <<worker, supply, allowance, nonce, record, rate, minted, receipts, relayed>>
    BY DEF Transfer
  <1>2. SupplyIsBalances' /\ balance' \in [Addresses -> Int] /\ doubled' \in Int
    BY <1>1, MoveKeepsSupply
  <1>3. LedgerTyped'
    BY <1>1, <1>2 DEF LedgerInv, LedgerTyped
  <1> QED
    BY <1>1, <1>2, <1>3, RecordsKept, SignaturesKept DEF LedgerInv

LEMMA TransferFromKeepsLedger ==
    ASSUME LedgerInv, NEW spender \in Addresses, NEW from \in Addresses, NEW to \in Addresses,
           NEW n \in Int, TransferFrom(spender, from, to, n)
    PROVE  LedgerInv'
  <1>1. Move(from, to, n)
        /\ UNCHANGED <<worker, supply, nonce, record, rate, minted, receipts, relayed>>
    BY DEF TransferFrom
  <1>2. SupplyIsBalances' /\ balance' \in [Addresses -> Int] /\ doubled' \in Int
    BY <1>1, MoveKeepsSupply
  <1>3. allowance' \in [Addresses -> [Addresses -> Int]]
    <2>1. allowance \in [Addresses -> [Addresses -> Int]]
      BY DEF LedgerInv, LedgerTyped
    <2>2. allowance' = [allowance EXCEPT ![from] = [allowance[from] EXCEPT ![spender] = @ - n]]
      BY DEF TransferFrom
    <2>3. [allowance[from] EXCEPT ![spender] = @ - n] \in [Addresses -> Int]
      BY <2>1
    <2> QED BY <2>1, <2>2, <2>3
  <1>4. LedgerTyped'
    BY <1>1, <1>2, <1>3 DEF LedgerInv, LedgerTyped
  <1> QED
    BY <1>1, <1>2, <1>4, RecordsKept, SignaturesKept DEF LedgerInv

LEMMA MintKeepsLedger ==
    ASSUME LedgerInv, NEW caller, NEW to \in Addresses, NEW n \in Int, Mint(caller, to, n)
    PROVE  LedgerInv'
  <1> DEFINE p == <<[to |-> to, amount |-> n]>>
  <1>1. p \in Payments
    BY DEF Payments
  <1>2. MintAll(p) /\ UNCHANGED <<worker, allowance, nonce, record, rate, historyVars>>
    BY DEF Mint
  <1> HIDE DEF p
  <1>3. SupplyIsBalances' /\ balance' \in [Addresses -> Int] /\ supply' \in Int
    BY <1>1, <1>2, MintKeepsSupply DEF historyVars
  <1>4. LedgerTyped'
    BY <1>2, <1>3 DEF LedgerInv, LedgerTyped, historyVars
  <1> QED
    BY <1>2, <1>3, <1>4, RecordsKept, SignaturesKept DEF LedgerInv, historyVars

LEMMA RegistrationKeepsLedger ==
    ASSUME LedgerInv, NEW b \in BatchIds, NEW p \in Payments, NEW reward \in Int, NEW n \in Nat,
           Unregistered(b), MintForBatch(b, p), Register(b, reward, n),
           Total(p) = reward \/ (reward < 0 /\ Total(p) = 0),
           UNCHANGED <<worker, allowance, nonce, rate, doubled, receipts, relayed>>
    PROVE  LedgerInv'
  <1>1. MintAll(p) /\ minted' = [minted EXCEPT ![b] = @ + Total(p)]
    BY DEF MintForBatch
  <1>2. SupplyIsBalances' /\ balance' \in [Addresses -> Int] /\ supply' \in Int
    BY <1>1, MintKeepsSupply
  <1>3. Total(p) \in Int
    BY TotalBySum
  <1>4. /\ RecordsOK'
        /\ record' \in [BatchIds -> [processed: BOOLEAN, reward: Int, recipients: Nat]]
        /\ minted' \in [BatchIds -> Int] /\ receipts' \in [BatchIds -> Nat]
    BY <1>1, <1>3, RegisterKeepsRecords
  <1>5. LedgerTyped'
    BY <1>2, <1>4 DEF LedgerInv, LedgerTyped
  <1> QED
    BY <1>2, <1>4, <1>5, SignaturesKept DEF LedgerInv

LEMMA RegisterBatchKeepsLedger ==
    ASSUME LedgerInv, NEW caller, NEW b \in BatchIds, NEW p \in Payments, RegisterBatch(caller, b, p)
    PROVE  LedgerInv'
  BY PaymentsTyped, TotalBySum, RegistrationKeepsLedger DEF RegisterBatch

LEMMA RegisterWeighedKeepsLedger ==
    ASSUME LedgerInv, NEW caller, NEW b \in BatchIds, NEW collector \in Addresses,
           NEW households \in Seq(Addresses), NEW loads \in Deliveries,
           RegisterBatchWeighed(caller, b, collector, households, loads)
    PROVE  LedgerInv'
  <1> DEFINE reward == Reward(loads)
             n == Len(households)
             p == Split(collector, households, Share(reward, n))
  <1>1. reward \in Int /\ reward # 0
    BY RewardInt DEF LedgerInv, RegisterBatchWeighed, CanRegisterWeighed
  <1>2. p \in Payments /\ Total(p) = (IF reward > 0 THEN reward ELSE 0)
    BY <1>1, SplitIsReward
  <1>3. /\ Unregistered(b) /\ MintForBatch(b, p) /\ Register(b, reward, n + 1)
        /\ UNCHANGED <<worker, allowance, nonce, rate, doubled, receipts, relayed>>
    BY DEF RegisterBatchWeighed, CanRegisterWeighed
  <1>4. n + 1 \in Nat
    OBVIOUS
  <1> HIDE DEF p, n, reward
  <1>5. Total(p) = reward \/ (reward < 0 /\ Total(p) = 0)
    BY <1>1, <1>2
  <1> QED
    BY <1>1, <1>2, <1>3, <1>4, <1>5, RegistrationKeepsLedger

LEMMA NotarizeKeepsLedger ==
    ASSUME LedgerInv, NEW caller, NEW b \in BatchIds, NotarizeBatchReceipt(caller, b)
    PROVE  LedgerInv'
  <1>1. /\ Unregistered(b) /\ Register(b, 0, 1) /\ receipts' = [receipts EXCEPT ![b] = @ + 1]
        /\ UNCHANGED <<worker, supply, balance, allowance, nonce, rate, doubled, minted, relayed>>
    BY DEF NotarizeBatchReceipt, CanNotarize
  <1>2. minted' = [minted EXCEPT ![b] = @ + 0]
    BY <1>1 DEF LedgerInv, LedgerTyped
  <1>3. /\ RecordsOK'
        /\ record' \in [BatchIds -> [processed: BOOLEAN, reward: Int, recipients: Nat]]
        /\ minted' \in [BatchIds -> Int] /\ receipts' \in [BatchIds -> Nat]
    <2>1. 0 \in Int /\ 1 \in Nat
      OBVIOUS
    <2> QED BY <1>1, <1>2, <2>1, RegisterKeepsRecords
  <1>4. LedgerTyped'
    BY <1>1, <1>3 DEF LedgerInv, LedgerTyped
  <1>5. SupplyIsBalances'
    BY <1>1, SupplyBySum, SupplyBySumAfter DEF LedgerInv
  <1> QED
    BY <1>1, <1>3, <1>4, <1>5, SignaturesKept DEF LedgerInv

LEMMA DelegatedKeepsLedger ==
    ASSUME LedgerInv, NEW caller, NEW from \in Addresses, NEW to \in Addresses, NEW n \in Int,
           NEW k, TransferDelegated(caller, from, to, n, k)
    PROVE  LedgerInv'
  <1>1. /\ Move(from, to, n) /\ k = nonce[from]
        /\ nonce' = [nonce EXCEPT ![from] = @ + 1]
        /\ relayed' = [relayed EXCEPT ![from] = Append(@, k)]
        /\ UNCHANGED <<worker, supply, allowance, record, rate, minted, receipts>>
    BY DEF TransferDelegated, CanTransferDelegated, FreshNonce
  <1>2. SupplyIsBalances' /\ balance' \in [Addresses -> Int] /\ doubled' \in Int
    BY <1>1, MoveKeepsSupply
  <1>3. nonce \in [Addresses -> Nat] /\ relayed \in [Addresses -> Seq(Nat)]
    BY DEF LedgerInv, LedgerTyped
  <1>4. LedgerTyped'
    <2>1. nonce' \in [Addresses -> Nat] /\ relayed' \in [Addresses -> Seq(Nat)]
      BY <1>1, <1>3
    <2> QED BY <1>1, <1>2, <2>1 DEF LedgerInv, LedgerTyped
  <1>5. UsedOnce(from)'
    <2> DEFINE old == relayed[from]
               new == Append(old, k)
               m == Len(old)
    <2>1. old \in Seq(Nat) /\ m \in Nat /\ k \in Nat /\ DOMAIN old = 1..m
      BY <1>1, <1>3
    <2>2. relayed'[from] = new /\ nonce'[from] = k + 1
      BY <1>1, <1>3
    <2>3. UsedOnce(from)
      BY DEF LedgerInv, SignaturesOK
    <2>4. \A i \in 1..m : old[i] < k /\ old[i] \in Nat
      <3> HIDE DEF m
      <3>1. \A i \in 1..m : old[i] < k
        BY <1>1, <2>1, <2>3 DEF UsedOnce
      <3>2. \A i \in 1..m : old[i] \in Nat
        <4> HIDE DEF old
        <4> QED BY <2>1, ElementOfSeq DEF m
      <3> QED BY <3>1, <3>2
    <2>5. \A i, j \in 1..m : old[i] = old[j] => i = j
      BY <2>1, <2>3 DEF UsedOnce
    <2>6. DOMAIN new = 1..(m + 1) /\ new[m + 1] = k /\ \A i \in 1..m : new[i] = old[i]
      <3> HIDE DEF old
      <3> QED BY <2>1, AppendProperties
    <2> HIDE DEF old, new, m
    <2>7. \A i \in 1..(m + 1) : i \in 1..m \/ i = m + 1
      BY <2>1
    <2>8. \A i \in 1..(m + 1) : new[i] < k + 1
      BY <2>1, <2>4, <2>6, <2>7
    <2>9. \A i, j \in 1..(m + 1) : new[i] = new[j] => i = j
      BY <2>1, <2>4, <2>5, <2>6, <2>7
    <2> QED BY <2>2, <2>6, <2>8, <2>9 DEF UsedOnce
  <1>6. ASSUME NEW a \in Addresses, a # from PROVE UsedOnce(a)'
    <2>1. nonce'[a] = nonce[a] /\ relayed'[a] = relayed[a]
      BY <1>1, <1>3, <1>6
    <2> QED BY <2>1 DEF LedgerInv, SignaturesOK, UsedOnce
  <1>7. SignaturesOK'
    BY <1>5, <1>6 DEF SignaturesOK
  <1> QED
    BY <1>1, <1>2, <1>4, <1>7, RecordsKept DEF LedgerInv

\* Whoever invokes the contract, with whatever arguments.
LEMMA AnyoneKeepsLedger ==
    ASSUME LedgerInv, invocations \in 0..MaxInvocations, AnyoneInvokes
    PROVE  LedgerInv' /\ invocations' \in 0..MaxInvocations
  <1>1. invocations' \in 0..MaxInvocations
    BY RegistryOK DEF AnyoneInvokes, RegistryOK
  <1>2. PICK caller \in Addresses, a \in Addresses, b \in Addresses, n \in Amounts :
          \/ SetWorker(caller, a) \/ Mint(caller, a, n)
          \/ Approve(caller, a, n) \/ Transfer(caller, a, n) \/ TransferFrom(caller, a, b, n)
          \/ \E k \in 0..MaxInvocations : TransferDelegated(caller, a, b, n, k)
          \/ \E id \in BatchIds :
                \/ NotarizeBatchReceipt(caller, id)
                \/ \E payments \in {<<>>, <<[to |-> a, amount |-> n], [to |-> b, amount |-> 1]>>} :
                      RegisterBatch(caller, id, payments)
                \/ \E loads \in Loads, households \in {<<>>, <<b>>, <<a, b>>, <<b, b>>} :
                      RegisterBatchWeighed(caller, id, a, households, loads)
          \/ \E code \in Codes : SetMaterialRate(caller, code, n)
    BY DEF AnyoneInvokes
  <1>3. n \in Int
    BY RegistryOK DEF RegistryOK
  <1>4. CASE SetWorker(caller, a)
    <2>1. LedgerTyped'
      BY <1>4 DEF SetWorker, LedgerInv, LedgerTyped, historyVars
    <2> QED BY <1>1, <1>4, <2>1, SettingsKeepLedger DEF SetWorker
  <1>5. CASE Approve(caller, a, n)
    <2>1. LedgerTyped'
      BY <1>3, <1>5 DEF Approve, LedgerInv, LedgerTyped, historyVars
    <2> QED BY <1>1, <1>5, <2>1, SettingsKeepLedger DEF Approve
  <1>6. ASSUME NEW code \in Codes, SetMaterialRate(caller, code, n) PROVE LedgerInv'
    <2>1. LedgerTyped'
      BY <1>3, <1>6 DEF SetMaterialRate, LedgerInv, LedgerTyped, historyVars
    <2> QED BY <1>6, <2>1, SettingsKeepLedger DEF SetMaterialRate
  <1>7. CASE Mint(caller, a, n) \/ Transfer(caller, a, n) \/ TransferFrom(caller, a, b, n)
    BY <1>1, <1>3, <1>7, MintKeepsLedger, TransferKeepsLedger, TransferFromKeepsLedger
  <1>8. ASSUME NEW k, TransferDelegated(caller, a, b, n, k) PROVE LedgerInv'
    BY <1>3, <1>8, DelegatedKeepsLedger
  <1>9. ASSUME NEW id \in BatchIds,
               NEW p \in {<<>>, <<[to |-> a, amount |-> n], [to |-> b, amount |-> 1]>>},
               RegisterBatch(caller, id, p)
        PROVE  LedgerInv'
    <2>1. <<>> \in Payments /\ <<[to |-> a, amount |-> n], [to |-> b, amount |-> 1]>> \in Payments
      <3> DEFINE x == [to |-> a, amount |-> n]
                 y == [to |-> b, amount |-> 1]
                 Payment == [to: Addresses, amount: Int]
      <3>1. x \in Payment /\ y \in Payment
        BY <1>3
      <3> HIDE DEF x, y, Payment
      <3>2. <<>> \in Seq(Payment) /\ <<x, y>> \in Seq(Payment)
        BY <3>1
      <3> QED BY <3>2 DEF Payments, x, y, Payment
    <2> QED BY <1>9, <2>1, RegisterBatchKeepsLedger
  <1>10. ASSUME NEW id \in BatchIds, NEW loads \in Loads,
                NEW households \in {<<>>, <<b>>, <<a, b>>, <<b, b>>},
                RegisterBatchWeighed(caller, id, a, households, loads)
         PROVE  LedgerInv'
    <2>1. /\ <<>> \in Seq(Addresses) /\ <<b>> \in Seq(Addresses)
          /\ <<a, b>> \in Seq(Addresses) /\ <<b, b>> \in Seq(Addresses)
      OBVIOUS
    <2>2. households \in Seq(Addresses)
      BY <2>1
    <2>3. loads \in Deliveries
      BY RegistryOK DEF RegistryOK
    <2> QED BY <1>10, <2>2, <2>3, RegisterWeighedKeepsLedger
  <1> QED
    BY <1>1, <1>2, <1>4, <1>5, <1>6, <1>7, <1>8, <1>9, <1>10, NotarizeKeepsLedger
=============================================================================

------------------------ MODULE RecordExchange_proofs ------------------------
(***************************************************************************)
(* Proofs about RecordExchange: for every width, bound, record, checkpoint *)
(* and fault.                                                              *)
(***************************************************************************)
EXTENDS RecordExchange, RecordCodec_proofs

---------------------------------------------------------------------------
(* The numbers of variable length of the compact codec.                    *)

LEMMA Pow128Facts ==
    /\ Pow128[0] = 1
    /\ \A k \in Nat : Pow128[k] \in Nat \ {0} /\ Pow128[k + 1] = 128 * Pow128[k]
<1>1. PICK step : Steps(Nat, Nat, step) /\ \A i \in Nat, s \in Nat : step[<<i, s>>] = 128 * s
  <2> DEFINE onward == [x \in Nat \X Nat |-> 128 * x[2]]
  <2>1. Steps(Nat, Nat, onward) /\ \A i \in Nat, s \in Nat : onward[<<i, s>>] = 128 * s
    BY DEF Steps
  <2> HIDE DEF onward
  <2> QED
    BY <2>1
<1>2. PICK f \in [Nat -> Nat] :
         f[0] = 1 /\ \A i \in Nat : f[i + 1] = step[<<i, f[i]>>]
  <2> DEFINE S == Nat
  <2>1. 1 \in S /\ Steps(Nat, S, step)
    BY <1>1
  <2>2. \E f \in [Nat -> S] : f[0] = 1 /\ \A i \in Nat : f[i + 1] = step[<<i, f[i]>>]
    <3> HIDE DEF S
    <3> QED
      BY <2>1, RecursionExists
  <2> QED
    BY <2>2
<1>3. ASSUME NEW i \in Nat
      PROVE  f[i + 1] = 128 * f[i]
  <2>1. f[i] \in Nat
    OBVIOUS
  <2> QED
    BY <1>1, <1>2, <2>1
<1>4. f = [k \in Nat |-> IF k = 0 THEN 1 ELSE 128 * f[k - 1]]
  <2>1. ASSUME NEW k \in Nat
        PROVE  f[k] = IF k = 0 THEN 1 ELSE 128 * f[k - 1]
    <3>1. CASE k = 0
      BY <1>2, <3>1
    <3>2. CASE k # 0
      <4>1. k - 1 \in Nat /\ (k - 1) + 1 = k
        BY <3>2
      <4> QED
        BY <1>3, <3>2, <4>1
    <3> QED
      BY <3>1, <3>2
  <2> QED
    BY <1>2, <2>1
<1>5. Pow128 = [k \in Nat |-> IF k = 0 THEN 1 ELSE 128 * Pow128[k - 1]]
  BY <1>4 DEF Pow128
<1>6. Pow128[0] = 1 /\ \A k \in Nat : Pow128[k + 1] = 128 * Pow128[k]
  <2>1. \A k \in Nat : (k + 1) - 1 = k /\ k + 1 # 0 /\ k + 1 \in Nat
    OBVIOUS
  <2> QED
    BY <1>5, <2>1
<1> DEFINE P == {k \in Nat : Pow128[k] \in Nat \ {0}}
<1>7. 0 \in P /\ \A k \in P : k + 1 \in P
  BY <1>6
<1>8. \A k \in Nat : k \in P
  <2> HIDE DEF P
  <2> QED
    BY <1>7, Induction
<1> QED
  BY <1>6, <1>8


LEMMA SeptetStep ==
    ASSUME NEW k \in Nat
    PROVE  k + 1 \in Nat /\ Pow128[k] \in Nat /\ Pow128[k] > 0 /\ Pow128[k + 1] \in Nat
           /\ Pow128[k + 1] = 128 * Pow128[k]
<1>1. k + 1 \in Nat
  OBVIOUS
<1>2. Pow128[k] \in Nat \ {0} /\ Pow128[k + 1] \in Nat \ {0}
  BY <1>1, Pow128Facts
<1> QED
  BY <1>1, <1>2, Pow128Facts

LEMMA Pow128Grows ==
    /\ \A n \in Nat : n < Pow128[n]
    /\ \A i \in Nat, j \in Nat : i <= j => Pow128[i] <= Pow128[j]
<1> DEFINE P == {n \in Nat : n < Pow128[n] /\ \A i \in 0 .. n : Pow128[i] <= Pow128[n]}
<1>1. 0 \in P
  <2>1. Pow128[0] = 1
    BY Pow128Facts
  <2> QED
    BY <2>1
<1>2. ASSUME NEW n \in P, n \in Nat
      PROVE  n + 1 \in P
  <2>1. PICK p \in Nat : p = Pow128[n] /\ Pow128[n + 1] = 128 * p
    BY <1>2, SeptetStep
  <2>2. n < p /\ \A i \in 0 .. n : Pow128[i] <= p
    BY <2>1
  <2>3. n + 1 < 128 * p /\ p <= 128 * p
    BY <1>2, <2>2
  <2>4. ASSUME NEW i \in 0 .. (n + 1)
        PROVE  Pow128[i] <= Pow128[n + 1]
    <3>1. CASE i = n + 1
      <4>1. Pow128[n + 1] \in Nat
        BY <1>2, SeptetStep
      <4> QED
        BY <3>1, <4>1
    <3>2. CASE i # n + 1
      <4>1. i \in 0 .. n /\ i \in Nat
        BY <1>2, <3>2
      <4>2. Pow128[i] \in Nat /\ Pow128[i] <= p
        BY <2>2, <4>1, SeptetStep
      <4> QED
        BY <2>1, <2>3, <4>2
    <3> QED
      BY <3>1, <3>2
  <2> QED
    BY <1>2, <2>1, <2>3, <2>4
<1>3. \A n \in Nat : n \in P
  <2> HIDE DEF P
  <2> QED
    BY <1>1, <1>2, Induction
<1> QED
  BY <1>3

\* The number of septets a number takes.
Septets(n, k) == k \in Nat \ {0} /\ n < Pow128[k] /\ (k = 1 \/ Pow128[k - 1] <= n)

LEMMA FewerSeptets ==
    ASSUME NEW m \in Nat, NEW n \in Nat, m <= n, NEW j, NEW k, Septets(m, j), Septets(n, k)
    PROVE  j <= k
<1>1. j \in Nat /\ k \in Nat /\ j > 0 /\ k > 0
  BY DEF Septets
<1>2. SUFFICES ASSUME k < j PROVE FALSE
  BY <1>1
<1>3. j - 1 \in Nat /\ k <= j - 1 /\ j # 1
  BY <1>1, <1>2
<1>4. Pow128[j - 1] <= m /\ n < Pow128[k]
  BY <1>3 DEF Septets
<1>5. Pow128[k] <= Pow128[j - 1] /\ Pow128[k] \in Nat /\ Pow128[j - 1] \in Nat
  BY <1>1, <1>3, Pow128Grows, SeptetStep
<1> QED
  BY <1>4, <1>5

LEMMA VarintSizes ==
    /\ \A n \in Nat : /\ Septets(n, VarintSize(n)) /\ VarintSize(n) \in Nat \ {0}
                      /\ \A k : Septets(n, k) => VarintSize(n) = k
    /\ \A m \in Nat, n \in Nat : m <= n => VarintSize(m) <= VarintSize(n)
<1>1. ASSUME NEW n \in Nat
      PROVE  Septets(n, VarintSize(n)) /\ VarintSize(n) \in Nat \ {0}
  <2> DEFINE S == {k \in Nat \ {0} : n < Pow128[k]}
  <2>1. n + 1 \in S
    <3>1. n + 1 < Pow128[n + 1] /\ Pow128[n + 1] \in Nat
      BY SeptetStep, Pow128Grows
    <3> QED
      BY <3>1
  <2>2. PICK k \in S : \A l \in S : k <= l
    <3>1. S \in SUBSET Nat /\ S # {}
      BY <2>1
    <3> HIDE DEF S
    <3> QED
      BY <3>1, LeastExists
  <2>3. k \in 1 .. (n + 1) /\ n < Pow128[k]
    BY <2>1, <2>2
  <2>4. k = 1 \/ Pow128[k - 1] <= n
    <3>1. SUFFICES ASSUME k # 1 PROVE Pow128[k - 1] <= n
      OBVIOUS
    <3>2. k - 1 \in Nat \ {0} /\ ~(k <= k - 1)
      BY <2>3, <3>1
    <3>3. k - 1 \notin S
      BY <2>2, <3>2
    <3>4. Pow128[k - 1] \in Nat
      BY <3>2, SeptetStep
    <3> QED
      BY <3>2, <3>3, <3>4
  <2>5. \E l \in 1 .. (n + 1) : n < Pow128[l] /\ (l = 1 \/ Pow128[l - 1] <= n)
    BY <2>3, <2>4
  <2>6. /\ VarintSize(n) \in 1 .. (n + 1) /\ n < Pow128[VarintSize(n)]
        /\ VarintSize(n) = 1 \/ Pow128[VarintSize(n) - 1] <= n
    BY <2>5 DEF VarintSize
  <2> QED
    BY <2>6 DEF Septets
<1>2. ASSUME NEW n \in Nat, NEW k, Septets(n, k)
      PROVE  VarintSize(n) = k
  <2>1. k \in Nat /\ n <= n
    BY <1>2 DEF Septets
  <2>2. VarintSize(n) <= k /\ k <= VarintSize(n)
    BY <1>1, <1>2, <2>1, FewerSeptets
  <2> QED
    BY <1>1, <2>1, <2>2
<1>3. ASSUME NEW m \in Nat, NEW n \in Nat, m <= n
      PROVE  VarintSize(m) <= VarintSize(n)
  BY <1>1, <1>3, FewerSeptets
<1> QED
  BY <1>1, <1>2, <1>3

\* Arithmetic on septets.
LEMMA SeptetOf ==
    ASSUME NEW x \in Octet
    PROVE  x % 128 \in 0 .. 127 /\ (x < 128 => x % 128 = x) /\ (x >= 128 => x = (x % 128) + 128)
BY DEF Octet

LEMMA LastSeptet ==
    ASSUME NEW q \in Nat
    PROVE  q % 128 \in 0 .. 127 /\ q \div 128 \in Nat /\ q = 128 * (q \div 128) + (q % 128)
OBVIOUS

LEMMA SeptetDivide ==
    ASSUME NEW n \in Nat
    PROVE  \A a, b \in Nat : a > 0 /\ b = 128 * a =>
              n \div a \in Nat /\ (n \div a) \div 128 = n \div b
OBVIOUS

LEMMA QuotientOf ==
    ASSUME NEW a \in Nat, a > 0, NEW t \in Nat, t < a, NEW q \in Nat, NEW n \in Nat,
           n = t + a * q
    PROVE  n \div a = q
<1>1. a * q \in Nat /\ n >= a * q /\ n < a * q + a
  OBVIOUS
<1>2. a * (q + 1) = a * q + a
  OBVIOUS
<1>3. PICK d \in Nat, r \in Nat : d = n \div a /\ r = n % a /\ n = a * d + r /\ r < a
  OBVIOUS
<1>4. CASE d < q
  <2>1. d + 1 \in Nat /\ d + 1 <= q
    BY <1>4
  <2>2. (d + 1) * a <= q * a /\ (d + 1) * a = a * d + a /\ q * a = a * q
    BY <2>1, TimesMonotone
  <2>3. a * d \in Nat
    OBVIOUS
  <2>4. PICK ad \in Nat, aq \in Nat : ad = a * d /\ aq = a * q
    BY <1>1, <2>3
  <2>5. ad + a <= aq /\ n = ad + r /\ n >= aq
    BY <1>1, <1>3, <2>2, <2>4
  <2> QED
    BY <1>3, <2>5
<1>5. CASE d > q
  <2>1. q + 1 \in Nat /\ q + 1 <= d
    BY <1>5
  <2>2. (q + 1) * a <= d * a /\ (q + 1) * a = a * q + a /\ d * a = a * d
    BY <2>1, TimesMonotone
  <2>3. a * d \in Nat
    OBVIOUS
  <2>4. PICK ad \in Nat, aq \in Nat : ad = a * d /\ aq = a * q
    BY <1>1, <2>3
  <2>5. aq + a <= ad /\ n = ad + r /\ n < aq + a
    BY <1>1, <1>3, <2>2, <2>4
  <2> QED
    BY <1>3, <2>5
<1> QED
  BY <1>3, <1>4, <1>5

\* What the prefixes of so many octets stand for.
Totals(octets, k, total) ==
    /\ total[0] = 0 /\ VarintValue(octets) = total[k]
    /\ \A i \in 1 .. k : total[i] = total[i - 1] + (octets[i] % 128) * Pow128[i - 1]
    /\ \A i \in 0 .. k : total[i] \in Nat /\ total[i] < Pow128[i]

LEMMA VarintTotals ==
    ASSUME NEW k \in Nat, NEW octets \in Seq(Octet), Len(octets) = k
    PROVE  \E total : Totals(octets, k, total)
<1> DEFINE numbers == [i \in DOMAIN octets |-> (octets[i] % 128) * Pow128[i - 1]]
<1>1. ASSUME NEW i \in 1 .. k
      PROVE  /\ i - 1 \in Nat /\ octets[i] % 128 \in 0 .. 127 /\ Pow128[i - 1] \in Nat
             /\ (octets[i] % 128) * Pow128[i - 1] \in Nat
  <2>1. i - 1 \in Nat /\ octets[i] \in Octet
    OBVIOUS
  <2>2. octets[i] % 128 \in 0 .. 127 /\ Pow128[i - 1] \in Nat
    BY <2>1, SeptetOf, SeptetStep
  <2>3. PICK a \in Nat, b \in Nat : a = octets[i] % 128 /\ b = Pow128[i - 1]
    <3>1. \A x \in 0 .. 127 : x \in Nat
      OBVIOUS
    <3>2. octets[i] % 128 \in Nat
      BY <2>2, <3>1, Zenon
    <3> QED
      BY <2>2, <3>2, Zenon
  <2>4. a * b \in Nat
    OBVIOUS
  <2> QED
    BY <2>1, <2>2, <2>3, <2>4
<1>2. DOMAIN octets = 1 .. k
  OBVIOUS
<1>3. /\ numbers \in [1 .. k -> Nat]
      /\ \A i \in 1 .. k : numbers[i] = (octets[i] % 128) * Pow128[i - 1]
  BY <1>1, <1>2
<1>4. VarintValue(octets) = SumOf(numbers)
  BY DEF VarintValue
<1> HIDE DEF numbers
<1>5. PICK total \in [0 .. k -> Nat] :
         /\ total[0] = 0
         /\ \A i \in 1 .. k : total[i] = total[i - 1] + numbers[i]
         /\ SumOf(numbers) = total[k]
  BY <1>3, SumOfFacts
<1>6. \A i \in 1 .. k : total[i] = total[i - 1] + (octets[i] % 128) * Pow128[i - 1]
  BY <1>3, <1>5
<1> DEFINE P == {i \in 0 .. k : total[i] < Pow128[i]}
<1>7. 0 \in P
  <2>1. total[0] = 0 /\ Pow128[0] = 1
    BY <1>5, Pow128Facts
  <2> QED
    BY <2>1
<1>8. ASSUME NEW i \in P, i \in 0 .. (k - 1)
      PROVE  i + 1 \in P
  <2>1. i + 1 \in 1 .. k /\ i \in Nat /\ (i + 1) - 1 = i /\ i + 1 \in 0 .. k
    BY <1>8
  <2>2. PICK p \in Nat : p = Pow128[i] /\ Pow128[i + 1] = 128 * p
    BY <2>1, SeptetStep
  <2>3. PICK d \in 0 .. 127 : d = octets[i + 1] % 128
    BY <1>1, <2>1
  <2>4. total[i + 1] = total[i] + d * p
    BY <1>6, <2>1, <2>2, <2>3
  <2>5. PICK t \in Nat : t = total[i] /\ t < p
    BY <2>1, <2>2
  <2>6. d * p \in Nat /\ 127 * p \in Nat /\ d * p <= 127 * p
    BY TimesMonotone
  <2>7. PICK z \in Nat : z = d * p /\ z <= 127 * p
    BY <2>6
  <2>8. t + z < 128 * p
    BY <2>5, <2>7
  <2> QED
    BY <2>1, <2>2, <2>4, <2>5, <2>7, <2>8
<1>9. \A i \in 0 .. k : i \in P
  <2> HIDE DEF P
  <2> QED
    BY <1>7, <1>8, InductionUpTo
<1>10. \A i \in 0 .. k : total[i] \in Nat /\ total[i] < Pow128[i]
  BY <1>9
<1> QED
  BY <1>4, <1>5, <1>6, <1>10 DEF Totals

\* A number comes back from its septets.
LEMMA NumberThenVarint ==
    ASSUME NEW n \in Nat
    PROVE  /\ PutVarint(n) \in Seq(Octet) /\ Len(PutVarint(n)) = VarintSize(n)
           /\ VarintValue(PutVarint(n)) = n
           /\ \A i \in 1 .. VarintSize(n) : PutVarint(n)[i] < 128 <=> i = VarintSize(n)
<1>1. PICK k \in Nat : k = VarintSize(n) /\ k > 0 /\ n < Pow128[k]
  BY VarintSizes DEF Septets
<1> DEFINE octets == PutVarint(n)
<1>2. ASSUME NEW i \in 1 .. k
      PROVE  /\ octets[i] = ((n \div Pow128[i - 1]) % 128) + IF i < k THEN 128 ELSE 0
             /\ octets[i] \in Octet
             /\ octets[i] % 128 = (n \div Pow128[i - 1]) % 128
             /\ octets[i] < 128 <=> i = k
  <2>1. i - 1 \in Nat
    OBVIOUS
  <2>2. octets[i] = ((n \div Pow128[i - 1]) % 128) + IF i < k THEN 128 ELSE 0
    BY <1>1 DEF PutVarint
  <2>3. Pow128[i - 1] \in Nat /\ Pow128[i - 1] > 0 /\ Pow128[(i - 1) + 1] \in Nat
        /\ Pow128[(i - 1) + 1] = 128 * Pow128[i - 1]
    BY <2>1, SeptetStep
  <2>4. n \div Pow128[i - 1] \in Nat
    BY <2>3, SeptetDivide
  <2>5. PICK d \in 0 .. 127 : d = (n \div Pow128[i - 1]) % 128
    BY <2>4, LastSeptet
  <2>6. octets[i] = d + IF i < k THEN 128 ELSE 0
    BY <2>2, <2>5
  <2>7. CASE i < k
    <3>1. octets[i] = d + 128 /\ (d + 128) % 128 = d
      BY <2>6, <2>7
    <3> QED
      BY <2>2, <2>5, <2>7, <3>1 DEF Octet
  <2>8. CASE i = k
    <3>1. octets[i] = d /\ d % 128 = d
      BY <2>6, <2>8
    <3> QED
      BY <2>2, <2>5, <2>8, <3>1 DEF Octet
  <2> QED
    BY <2>7, <2>8
<1>3. octets \in Seq(Octet) /\ Len(octets) = k
  <2>1. octets = [i \in 1 .. k |-> octets[i]]
    BY <1>1 DEF PutVarint
  <2> HIDE DEF octets
  <2> QED
    BY <1>2, <2>1
<1> HIDE DEF octets
<1>4. PICK total : Totals(octets, k, total)
  BY <1>3, VarintTotals
<1> DEFINE P == {i \in 0 .. k : n = total[i] + Pow128[i] * (n \div Pow128[i])}
<1>5. 0 \in P
  <2>1. total[0] = 0 /\ Pow128[0] = 1 /\ n \div 1 = n
    BY <1>4, Pow128Facts, DivideByOne DEF Totals
  <2> QED
    BY <2>1
<1>6. ASSUME NEW i \in P, i \in 0 .. (k - 1)
      PROVE  i + 1 \in P
  <2>1. i + 1 \in 1 .. k /\ i \in Nat /\ (i + 1) - 1 = i /\ i + 1 \in 0 .. k /\ i \in 0 .. k
    BY <1>6
  <2>2. Pow128[i] \in Nat /\ Pow128[i] > 0 /\ Pow128[i + 1] \in Nat
        /\ Pow128[i + 1] = 128 * Pow128[i]
    BY <2>1, SeptetStep
  <2>3. n \div Pow128[i] \in Nat /\ (n \div Pow128[i]) \div 128 = n \div Pow128[i + 1]
    BY <2>2, SeptetDivide
  <2>4. PICK p \in Nat, q \in Nat, t \in Nat :
           /\ p = Pow128[i] /\ q = n \div Pow128[i] /\ t = total[i]
    BY <1>4, <2>1, <2>2, <2>3 DEF Totals
  <2>5. PICK r \in Nat, d \in Nat : r = q \div 128 /\ d = q % 128 /\ q = 128 * r + d
    BY LastSeptet
  <2>6. n = t + p * q
    BY <2>4
  <2>7. total[i + 1] = t + d * p
    <3>1. total[i + 1] = total[i] + (octets[i + 1] % 128) * Pow128[i]
      BY <1>4, <2>1 DEF Totals
    <3>2. octets[i + 1] % 128 = d
      BY <1>2, <2>1, <2>4, <2>5
    <3> QED
      BY <2>4, <3>1, <3>2
  <2>8. Pow128[i + 1] = 128 * p /\ n \div Pow128[i + 1] = r
    BY <2>2, <2>3, <2>4, <2>5
  <2>9. p * q = d * p + (128 * p) * r
    <3>1. p * (128 * r + d) = p * (128 * r) + p * d
      OBVIOUS
    <3>2. p * (128 * r) = (128 * p) * r /\ p * d = d * p
      OBVIOUS
    <3> QED
      BY <2>5, <3>1, <3>2
  <2>10. n = (t + d * p) + (128 * p) * r
    <3>1. d * p \in Nat /\ (128 * p) * r \in Nat
      OBVIOUS
    <3>2. PICK x \in Nat, y \in Nat : x = d * p /\ y = (128 * p) * r
      BY <3>1
    <3>3. n = t + (x + y)
      BY <2>6, <2>9, <3>2
    <3>4. t + (x + y) = (t + x) + y
      OBVIOUS
    <3> QED
      BY <3>2, <3>3, <3>4
  <2> QED
    BY <2>1, <2>7, <2>8, <2>10
<1>7. k \in P
  <2>1. \A i \in 0 .. k : i \in P
    <3> HIDE DEF P
    <3> QED
      BY <1>5, <1>6, InductionUpTo
  <2> HIDE DEF P
  <2> QED
    BY <1>1, <2>1
<1>8. VarintValue(octets) = n
  <2>1. Pow128[k] \in Nat /\ Pow128[k] > 0
    BY SeptetStep
  <2>2. n \div Pow128[k] = 0
    BY <1>1, <2>1, DivideSmall
  <2>3. n = total[k] + Pow128[k] * 0 /\ total[k] \in Nat
    BY <1>1, <1>4, <1>7, <2>2 DEF Totals
  <2>4. Pow128[k] * 0 = 0
    BY <2>1
  <2>5. n = total[k]
    BY <2>3, <2>4
  <2> QED
    BY <1>4, <2>5 DEF Totals
<1> QED
  BY <1>1, <1>2, <1>3, <1>8 DEF octets

\* Septets come back from the number they stand for, if none is superfluous.
LEMMA VarintThenNumber ==
    ASSUME NEW octets \in Seq(Octet), NEW k \in Nat, Len(octets) = k,
           \A i \in 1 .. k : octets[i] < 128 <=> i = k
    PROVE  /\ VarintValue(octets) \in Nat
           /\ VarintSize(VarintValue(octets)) = k => PutVarint(VarintValue(octets)) = octets
<1>1. PICK total : Totals(octets, k, total)
  BY VarintTotals
<1>2. PICK n \in Nat : n = VarintValue(octets) /\ n = total[k]
  BY <1>1 DEF Totals
<1>3. \A i \in 1 .. k : octets[i] \in Octet /\ octets[i] % 128 \in 0 .. 127
  BY SeptetOf
<1> DEFINE P == {j \in 0 .. k : \E q \in Nat : n = total[k - j] + Pow128[k - j] * q}
<1>4. 0 \in P
  <2>1. k - 0 = k /\ Pow128[k] \in Nat
    BY SeptetStep
  <2>2. Pow128[k] * 0 = 0
    BY <2>1
  <2>3. n = total[k - 0] + Pow128[k - 0] * 0
    BY <1>2, <2>1, <2>2
  <2> QED
    BY <2>3
\* One septet further to the front.
<1>5. ASSUME NEW i \in 1 .. k, NEW q \in Nat, n = total[i] + Pow128[i] * q
      PROVE  /\ n = total[i - 1] + Pow128[i - 1] * (128 * q + (octets[i] % 128))
             /\ n \div Pow128[i - 1] = 128 * q + (octets[i] % 128)
             /\ 128 * q + (octets[i] % 128) \in Nat
  <2>1. i - 1 \in Nat /\ (i - 1) + 1 = i /\ i - 1 \in 0 .. k
    OBVIOUS
  <2>2. PICK p \in Nat : p = Pow128[i - 1] /\ p > 0 /\ Pow128[i] = 128 * p
    BY <2>1, SeptetStep
  <2>3. PICK d \in Nat : d = octets[i] % 128
    BY <1>3
  <2>4. PICK t \in Nat : t = total[i - 1] /\ t < p
    BY <1>1, <2>1, <2>2 DEF Totals
  <2>5. total[i] = t + d * p
    <3>1. total[i] = total[i - 1] + (octets[i] % 128) * Pow128[i - 1]
      BY <1>1 DEF Totals
    <3> QED
      BY <2>2, <2>3, <2>4, <3>1
  <2>6. n = (t + d * p) + (128 * p) * q
    BY <1>5, <2>2, <2>5
  <2>7. p * (128 * q + d) = d * p + (128 * p) * q
    <3>1. p * (128 * q + d) = p * (128 * q) + p * d
      OBVIOUS
    <3>2. p * (128 * q) = (128 * p) * q /\ p * d = d * p
      OBVIOUS
    <3>3. d * p \in Nat /\ (128 * p) * q \in Nat
      OBVIOUS
    <3>4. PICK x \in Nat, y \in Nat : x = d * p /\ y = (128 * p) * q
      BY <3>3
    <3>5. p * (128 * q + d) = y + x /\ y + x = x + y
      BY <3>1, <3>2, <3>4
    <3> QED
      BY <3>4, <3>5
  <2>8. n = t + p * (128 * q + d)
    <3>1. d * p \in Nat /\ (128 * p) * q \in Nat
      OBVIOUS
    <3>2. PICK x \in Nat, y \in Nat : x = d * p /\ y = (128 * p) * q
      BY <3>1
    <3>3. n = (t + x) + y /\ (t + x) + y = t + (x + y)
      BY <2>6, <3>2
    <3> QED
      BY <2>7, <3>2, <3>3
  <2>9. 128 * q + d \in Nat
    OBVIOUS
  <2>10. n \div p = 128 * q + d
    <3> DEFINE z == 128 * q + d
    <3>1. z \in Nat /\ n = t + p * z
      BY <2>8, <2>9
    <3> HIDE DEF z
    <3>2. p \in Nat /\ p > 0 /\ t \in Nat /\ t < p /\ n \in Nat
      BY <2>2, <2>4
    <3>3. n \div p = z
      BY <3>1, <3>2, QuotientOf
    <3> QED
      BY <3>3 DEF z
  <2> QED
    BY <2>2, <2>3, <2>4, <2>8, <2>9, <2>10
<1>6. ASSUME NEW j \in P, j \in 0 .. (k - 1)
      PROVE  j + 1 \in P
  <2>1. PICK q \in Nat : n = total[k - j] + Pow128[k - j] * q
    OBVIOUS
  <2>2. k - j \in 1 .. k /\ (k - j) - 1 = k - (j + 1) /\ j + 1 \in 0 .. k
    BY <1>6
  <2>3. \E r \in Nat : n = total[(k - j) - 1] + Pow128[(k - j) - 1] * r
    BY <1>5, <2>1, <2>2
  <2> QED
    BY <2>2, <2>3
<1>7. \A j \in 0 .. k : j \in P
  <2> HIDE DEF P
  <2> QED
    BY <1>4, <1>6, InductionUpTo
<1>8. ASSUME NEW i \in 1 .. k
      PROVE  (n \div Pow128[i - 1]) % 128 = octets[i] % 128
  <2>0. k - i \in 0 .. k /\ k - (k - i) = i
    OBVIOUS
  <2>1. k - i \in P /\ k - (k - i) = i
    <3> HIDE DEF P
    <3> QED
      BY <1>7, <2>0
  <2>2. PICK q \in Nat : n = total[i] + Pow128[i] * q
    BY <2>1
  <2>3. n \div Pow128[i - 1] = 128 * q + (octets[i] % 128)
    BY <1>5, <2>2
  <2>4. PICK d \in 0 .. 127 : d = octets[i] % 128
    BY <1>3
  <2>5. (128 * q + d) % 128 = d
    OBVIOUS
  <2> QED
    BY <2>3, <2>4, <2>5
<1> HIDE DEF P
<1>9. ASSUME VarintSize(n) = k
      PROVE  PutVarint(n) = octets
  <2>1. ASSUME NEW i \in 1 .. k
        PROVE  octets[i] = (octets[i] % 128) + IF i < k THEN 128 ELSE 0
    <3>1. octets[i] \in Octet /\ (octets[i] < 128 <=> i = k)
      BY <1>3
    <3>2. octets[i] \in Nat
      <4>1. \A x \in Octet : x \in Nat
        BY DEF Octet
      <4> QED
        BY <3>1, <4>1, Zenon
    <3>3. CASE i = k
      BY <3>1, <3>2, <3>3, SeptetOf
    <3>4. CASE i # k
      <4>1. octets[i] >= 128 /\ i < k
        BY <3>1, <3>2, <3>4
      <4> QED
        BY <3>1, <4>1, SeptetOf
    <3> QED
      BY <3>3, <3>4
  <2>2. PutVarint(n) = [i \in 1 .. k |-> ((n \div Pow128[i - 1]) % 128) + IF i < k THEN 128 ELSE 0]
    BY <1>9 DEF PutVarint
  <2>3. octets = [i \in 1 .. k |-> octets[i]]
    OBVIOUS
  <2> QED
    BY <1>8, <2>1, <2>2, <2>3
<1> QED
  BY <1>2, <1>9

VarintImage == [n \in U64 |-> PutVarint(n)]

LEMMA VarintWrites ==
    /\ DOMAIN VarintImage = U64
    /\ \A n \in U64 : Writes(VarintImage, n, PutVarint(n), VarintSize(n))
<1>1. U64 \subseteq Nat
  BY WidthFacts, NumbersAreNaturals DEF U64
<1>2. \A n \in U64 : PutVarint(n) \in Seq(Octet) /\ Len(PutVarint(n)) = VarintSize(n)
  BY <1>1, NumberThenVarint
<1> QED
  BY <1>2 DEF VarintImage, Writes

\* The octets from a place to another.
LEMMA Between ==
    ASSUME NEW w \in Seq(Octet), NEW at \in Places(w), NEW last \in at .. Len(w)
    PROVE  \E o \in Seq(Octet) :
              /\ o = SubSeq(w, at, last) /\ Len(o) = last + 1 - at
              /\ last + 1 - at \in Nat \ {0} /\ at + Len(o) = last + 1
              /\ \A i \in 1 .. Len(o) : o[i] = w[at + i - 1]
              /\ Holds(w, at, o)
<1>1. Len(w) \in Nat /\ at \in Nat \ {0} /\ last \in Nat /\ at <= last /\ last <= Len(w)
  BY DEF Places
<1>2. \A i \in at .. last : i \in 1 .. Len(w) /\ w[i] \in Octet
  BY <1>1
<1> DEFINE o == SubSeq(w, at, last)
<1>3. o \in Seq(Octet)
  BY <1>1, <1>2, SubSeqProperties
<1>4. Len(o) = last + 1 - at
  BY <1>1, <1>2, SubSeqProperties
<1>5. \A i \in 1 .. (last + 1 - at) : o[i] = w[at + i - 1]
  BY <1>1, <1>2, SubSeqProperties
<1>6. last + 1 - at \in Nat \ {0} /\ at + (last + 1 - at) = last + 1 /\ last + 1 <= Len(w) + 1
  BY <1>1
<1> HIDE DEF o
<1>7. Holds(w, at, o)
  BY <1>4, <1>5, <1>6 DEF Holds
<1> QED
  BY <1>3, <1>4, <1>5, <1>6, <1>7 DEF o

\* No varint of a u64 is longer than that of the largest.
LEMMA LongestVarint ==
    /\ VarintSize(Pow256[Width.u64] - 1) \in Nat
    /\ \A n \in U64 : VarintSize(n) \in Nat /\ VarintSize(n) <= VarintSize(Pow256[Width.u64] - 1)
<1>1. Pow256[Width.u64] \in Nat \ {0}
  BY WidthFacts, Pow256Facts
<1>2. PICK p \in Nat : p = Pow256[Width.u64] /\ p > 0
  BY <1>1
<1>3. p - 1 \in Nat
  BY <1>2
<1>4. U64 = 0 .. (p - 1)
  BY <1>2 DEF U64, Numbers
<1>5. \A n \in U64 : n \in Nat /\ n <= p - 1
  BY <1>3, <1>4
<1> DEFINE top == p - 1
<1>6. top \in Nat /\ \A n \in U64 : n \in Nat /\ n <= top
  BY <1>3, <1>5
<1> HIDE DEF top
<1>7. VarintSize(top) \in Nat /\ \A n \in U64 : VarintSize(n) \in Nat /\ VarintSize(n) <= VarintSize(top)
  BY <1>6, VarintSizes
<1> QED
  BY <1>2, <1>7 DEF top

\* take_varint.
LEMMA ReadsVarint ==
    ASSUME NEW w \in Seq(Octet)
    PROVE  Reads(w, TakeVarint(w), VarintImage)
<1>1. /\ DOMAIN VarintImage = U64 /\ U64 \subseteq Nat
      /\ \A n \in U64 : /\ VarintImage[n] = PutVarint(n) /\ PutVarint(n) \in Seq(Octet)
                        /\ Len(PutVarint(n)) = VarintSize(n)
  BY VarintWrites, WidthFacts, NumbersAreNaturals DEF Writes, U64
<1>2. Images(VarintImage)
  BY <1>1 DEF Images
<1>3. PICK m \in Nat : m = VarintSize(Pow256[Width.u64] - 1) /\ \A n \in U64 : VarintSize(n) <= m
  BY LongestVarint
<1>4. ASSUME NEW at \in Places(w)
      PROVE  /\ Sound(w, TakeVarint(w)[at], at, VarintImage)
             /\ Complete(w, TakeVarint(w)[at], at, VarintImage)
  <2> DEFINE ends == {i \in at .. Len(w) : w[i] < 128}
             last == CHOOSE i \in ends : \A j \in ends : i <= j
             value == VarintValue(SubSeq(w, at, last))
             got == TakeAnyVarint(w)[at]
             taken == TakeVarint(w)[at]
  <2>1. at \in Positions /\ at \in Nat \ {0} /\ Len(w) \in Nat
    BY DEF Places, Positions
  <2>2. got = IF ends = {} \/ last - at >= m \/ value \notin U64 THEN << >>
              ELSE Got(value, last + 1)
    BY <1>3, <2>1 DEF TakeAnyVarint
  <2>3. taken = IF got = << >> THEN << >>
                ELSE IF got[1].next - at = VarintSize(got[1].value)
                THEN Got(got[1].value, got[1].next) ELSE << >>
    BY <2>1 DEF TakeVarint, Then
  <2>4. ends # {} => last \in ends /\ \A j \in ends : last <= j
    <3>1. ends \in SUBSET Nat
      BY <2>1
    <3> HIDE DEF ends
    <3>2. ends # {} => \E i \in ends : \A j \in ends : i <= j
      BY <3>1, LeastExists
    <3> QED
      BY <3>2
  <2>5. /\ \A i \in at .. Len(w) : i \in ends <=> w[i] < 128
        /\ \A i \in ends : i \in at .. Len(w)
    OBVIOUS
  <2> HIDE DEF ends, last, got, taken
  <2>6. taken = IF ends = {} \/ last - at >= m \/ value \notin U64
                     \/ (last + 1) - at # VarintSize(value)
                THEN << >> ELSE Got(value, last + 1)
    <3>1. CASE ends = {} \/ last - at >= m \/ value \notin U64
      <4>1. got = << >>
        BY <2>2, <3>1
      <4> QED
        BY <2>3, <3>1, <4>1
    <3>2. CASE ~(ends = {} \/ last - at >= m \/ value \notin U64)
      <4> HIDE DEF value
      <4>1. got = Got(value, last + 1)
        BY <2>2, <3>2
      <4>2. got # << >> /\ got[1].value = value /\ got[1].next = last + 1
        BY <4>1, GotFacts
      <4> QED
        BY <2>3, <3>2, <4>2
    <3> QED
      BY <3>1, <3>2
  <2>7. Sound(w, taken, at, VarintImage)
    <3>1. SUFFICES ASSUME taken # << >>
                   PROVE  \E n \in U64 : taken = Got(n, at + Len(VarintImage[n]))
                                         /\ Holds(w, at, VarintImage[n])
      BY <1>1 DEF Sound
    <3>2. /\ ends # {} /\ value \in U64 /\ (last + 1) - at = VarintSize(value)
          /\ taken = Got(value, last + 1)
      BY <2>6, <3>1
    <3>3. last \in at .. Len(w) /\ w[last] < 128 /\ \A j \in ends : last <= j
      BY <2>4, <2>5, <3>2
    <3>4. PICK o \in Seq(Octet) :
             /\ o = SubSeq(w, at, last) /\ Len(o) = last + 1 - at
             /\ last + 1 - at \in Nat \ {0} /\ at + Len(o) = last + 1
             /\ \A i \in 1 .. Len(o) : o[i] = w[at + i - 1]
             /\ Holds(w, at, o)
      BY <3>3, Between
    <3>5. PICK k \in Nat : k = Len(o) /\ k = (last + 1) - at
      BY <3>4
    <3>6. ASSUME NEW i \in 1 .. k
          PROVE  o[i] < 128 <=> i = k
      <4>1. at + i - 1 \in at .. Len(w) /\ o[i] = w[at + i - 1]
        BY <2>1, <3>3, <3>4, <3>5
      <4>2. CASE i = k
        <5>1. at + i - 1 = last
          BY <2>1, <3>3, <3>5, <4>2
        <5> QED
          BY <3>3, <4>1, <4>2, <5>1
      <4>3. CASE i # k
        <5>1. ~(last <= at + i - 1)
          BY <2>1, <3>3, <3>5, <4>3
        <5>2. at + i - 1 \notin ends
          BY <3>3, <5>1
        <5> QED
          BY <2>5, <4>1, <4>3, <5>2
      <4> QED
        BY <4>2, <4>3
    <3>7. value = VarintValue(o)
      BY <3>4
    <3>8. PutVarint(value) = o
      <4> HIDE DEF value
      <4>1. VarintSize(VarintValue(o)) = k
        BY <3>2, <3>5, <3>7
      <4>2. PutVarint(VarintValue(o)) = o
        BY <3>5, <3>6, <4>1, VarintThenNumber
      <4> QED
        BY <3>7, <4>2
    <3> HIDE DEF value
    <3> QED
      BY <1>1, <3>2, <3>4, <3>8
  <2>8. Complete(w, taken, at, VarintImage)
    <3>1. SUFFICES ASSUME NEW n \in U64, Holds(w, at, PutVarint(n))
                   PROVE  taken = Got(n, at + Len(PutVarint(n)))
      BY <1>1 DEF Complete
    <3> DEFINE o == PutVarint(n)
    <3>2. PICK k \in Nat : k = VarintSize(n) /\ k > 0 /\ k <= m
      BY <1>1, <1>3, VarintSizes
    <3>3. /\ n \in Nat /\ o \in Seq(Octet) /\ Len(o) = k /\ VarintValue(o) = n
          /\ \A i \in 1 .. k : o[i] < 128 <=> i = k
      BY <1>1, <3>2, NumberThenVarint
    <3> HIDE DEF o
    <3>4. at + k <= Len(w) + 1 /\ \A i \in 1 .. k : w[at + i - 1] = o[i]
      BY <3>1, <3>3 DEF Holds, o
    <3>5. PICK l \in Nat : l = at + k - 1 /\ l \in at .. Len(w) /\ (l + 1) - at = k /\ l + 1 = at + k
      BY <2>1, <3>2, <3>4
    <3>6. l \in ends
      <4>1. k \in 1 .. k /\ at + k - 1 = l
        BY <3>2, <3>5
      <4> QED
        BY <2>5, <3>3, <3>4, <3>5, <4>1
    <3>7. \A j \in ends : l <= j
      <4> SUFFICES ASSUME NEW j \in ends, ~(l <= j) PROVE FALSE
        OBVIOUS
      <4>1. j \in at .. Len(w)
        BY <2>5
      <4>2. (j - at) + 1 \in 1 .. k /\ (j - at) + 1 # k /\ at + ((j - at) + 1) - 1 = j
        BY <2>1, <3>5, <4>1
      <4> QED
        BY <2>5, <3>3, <3>4, <4>1, <4>2
    <3>8. last = l
      <4>1. last \in ends /\ last <= l /\ l <= last
        BY <2>4, <3>6, <3>7
      <4>2. last \in at .. Len(w)
        BY <2>5, <4>1
      <4> QED
        BY <2>1, <4>1, <4>2
    <3>9. value = n
      <4>1. PICK part \in Seq(Octet) :
               /\ part = SubSeq(w, at, l) /\ Len(part) = l + 1 - at
               /\ \A i \in 1 .. Len(part) : part[i] = w[at + i - 1]
        BY <3>5, Between
      <4>2. Len(part) = k
        BY <3>5, <4>1
      <4>3. \A i \in 1 .. k : part[i] = o[i]
        BY <3>4, <4>1, <4>2, Zenon
      <4>4. part = o
        BY <3>3, <4>1, <4>2, <4>3, SameOctets
      <4> QED
        BY <3>3, <3>8, <4>1, <4>4
    <3> HIDE DEF value
    <3>10. ends # {} /\ ~(last - at >= m) /\ value \in U64 /\ (last + 1) - at = VarintSize(value)
      <4>1. ~(l - at >= m)
        BY <2>1, <3>2, <3>5
      <4> QED
        BY <3>2, <3>5, <3>6, <3>8, <3>9, <4>1
    <3>11. taken = Got(n, l + 1)
      BY <2>6, <3>8, <3>9, <3>10
    <3> QED
      BY <3>3, <3>5, <3>11 DEF o
  <2> QED
    BY <2>7, <2>8 DEF taken
<1> QED
  BY <1>2, <1>4, ReadsBy
---------------------------------------------------------------------------
(* The compact codec.                                                      *)

\* A SUMMARY whose counts are varints.
FullSummaryNames == << "collection_id", "generation", "item_count", "collection_digest" >>
FullSummaryPuts ==
    << IdImage, VarintImage, VarintImage, IdImage >>
FullSummaryImage == [v \in Summary |-> PutFullSummary(v)]

LEMMA FullSummaryFields ==
    /\ Assembles(4, FullSummaryNames, FullSummaryPuts, FullSummaryImage)
    /\ \A v \in Summary :
          /\ PutFullSummary(v) \in Seq(Octet)
          /\ Len(PutFullSummary(v)) =
                Width.id +
                VarintSize(v.generation) + VarintSize(v.item_count) + Width.id
<1>1. \A i \in 1 .. 4 : \A j \in 1 .. 4 : FullSummaryNames[i] = FullSummaryNames[j] => i = j
  BY DEF FullSummaryNames
<1>2. Fields(FullSummaryNames, 4) =
         {"collection_id", "generation",
          "item_count", "collection_digest"}
  BY DEF FullSummaryNames, Fields
<1>3. /\ DOMAIN FullSummaryPuts[1] = Id
      /\ DOMAIN FullSummaryPuts[2] = U64
      /\ DOMAIN FullSummaryPuts[3] = U64
      /\ DOMAIN FullSummaryPuts[4] = Id
  BY WidthWrites, VarintWrites DEF FullSummaryPuts
<1>4. ASSUME NEW v \in Summary
      PROVE  /\ Writes(FullSummaryPuts[1], v.collection_id,
                       PutId(v.collection_id), Width.id)
             /\ Writes(FullSummaryPuts[2], v.generation,
                       PutVarint(v.generation), VarintSize(v.generation))
             /\ Writes(FullSummaryPuts[3], v.item_count,
                       PutVarint(v.item_count), VarintSize(v.item_count))
             /\ Writes(FullSummaryPuts[4], v.collection_digest,
                       PutId(v.collection_digest), Width.id)
  BY WidthWrites, VarintWrites DEF FullSummaryPuts, Summary
<1>5. ASSUME NEW v \in Summary
      PROVE  /\ v = [name \in Fields(FullSummaryNames, 4) |-> v[name]]
             /\ \A i \in 1 .. 4 : v[FullSummaryNames[i]] \in DOMAIN FullSummaryPuts[i]
             /\ PutFullSummary(v) =
                   FlattenSeq([i \in 1 .. 4 |-> FullSummaryPuts[i][v[FullSummaryNames[i]]]])
             /\ PutFullSummary(v) \in Seq(Octet)
             /\ Len(PutFullSummary(v)) =
                   Width.id +
                   VarintSize(v.generation) + VarintSize(v.item_count) + Width.id
  <2> DEFINE image ==
             << PutId(v.collection_id), PutVarint(v.generation),
                PutVarint(v.item_count), PutId(v.collection_digest) >>
             size ==
             << Width.id, VarintSize(v.generation),
                VarintSize(v.item_count), Width.id >>
  <2>1. v = [name \in {"collection_id", "generation", "item_count", "collection_digest"} |-> v[name]]
    BY DEF Summary
  <2>2. \A i \in 1 .. 4 : Writes(FullSummaryPuts[i], v[FullSummaryNames[i]], image[i], size[i])
    <3>1. Writes(FullSummaryPuts[1], v[FullSummaryNames[1]], image[1], size[1])
      BY <1>4 DEF FullSummaryNames
    <3>2. Writes(FullSummaryPuts[2], v[FullSummaryNames[2]], image[2], size[2])
      BY <1>4 DEF FullSummaryNames
    <3>3. Writes(FullSummaryPuts[3], v[FullSummaryNames[3]], image[3], size[3])
      BY <1>4 DEF FullSummaryNames
    <3>4. Writes(FullSummaryPuts[4], v[FullSummaryNames[4]], image[4], size[4])
      BY <1>4 DEF FullSummaryNames
    <3> HIDE DEF image, size
    <3> QED
      BY <3>1, <3>2, <3>3, <3>4
  <2>3. PutFullSummary(v) = image[1] \o image[2] \o image[3] \o image[4]
    BY DEF PutFullSummary
  <2>4. size[1] + size[2] + size[3] + size[4] =
          Width.id + VarintSize(v.generation) + VarintSize(v.item_count) + Width.id
    OBVIOUS
  <2>5. image = [i \in 1 .. 4 |-> image[i]]
    OBVIOUS
  <2> HIDE DEF image, size
  <2>6. /\ \A i \in 1 .. 4 : v[FullSummaryNames[i]] \in DOMAIN FullSummaryPuts[i]
        /\ [i \in 1 .. 4 |-> FullSummaryPuts[i][v[FullSummaryNames[i]]]] = image
        /\ image \in [1 .. 4 -> Seq(Octet)]
        /\ \A i \in 1 .. 4 : Len(image[i]) = size[i]
    <3>1. \A i \in 1 .. 4 :
             /\ v[FullSummaryNames[i]] \in DOMAIN FullSummaryPuts[i]
             /\ FullSummaryPuts[i][v[FullSummaryNames[i]]] = image[i]
             /\ image[i] \in Seq(Octet) /\ Len(image[i]) = size[i]
      BY <2>2 DEF Writes
    <3>2. [i \in 1 .. 4 |-> FullSummaryPuts[i][v[FullSummaryNames[i]]]] = [i \in 1 .. 4 |-> image[i]]
      BY <3>1
    <3>3. [i \in 1 .. 4 |-> image[i]] \in [1 .. 4 -> Seq(Octet)]
      BY <3>1
    <3> QED
      BY <2>5, <3>1, <3>2, <3>3
  <2>7. /\ FlattenSeq(image) \in Seq(Octet)
        /\ FlattenSeq(image) = image[1] \o image[2] \o image[3] \o image[4]
        /\ Len(FlattenSeq(image)) = Len(image[1]) + Len(image[2]) + Len(image[3]) +
                                    Len(image[4])
    BY <2>6, Parts4
  <2>8. /\ Len(image[1]) = size[1]
        /\ Len(image[2]) = size[2]
        /\ Len(image[3]) = size[3]
        /\ Len(image[4]) = size[4]
    BY <2>6
  <2>9. Len(FlattenSeq(image)) = size[1] + size[2] + size[3] + size[4]
    BY <2>7, <2>8
  <2> QED
    BY <1>2, <2>1, <2>3, <2>4, <2>6, <2>7, <2>9
<1>6. ASSUME NEW values \in Tuples(FullSummaryPuts, 4)
      PROVE  \E v \in Summary : \A i \in 1 .. 4 : v[FullSummaryNames[i]] = values[i]
  <2>1. /\ values[1] \in Id
        /\ values[2] \in U64
        /\ values[3] \in U64
        /\ values[4] \in Id
    BY <1>3 DEF Tuples
  <2> DEFINE v == [ collection_id |-> values[1], generation |-> values[2],
                    item_count |-> values[3], collection_digest |-> values[4] ]
  <2>2. v \in Summary
    BY <2>1 DEF Summary
  <2>3. \A i \in 1 .. 4 : v[FullSummaryNames[i]] = values[i]
    BY DEF FullSummaryNames
  <2> HIDE DEF v
  <2> QED
    BY <2>2, <2>3
<1>7. DOMAIN FullSummaryImage = Summary /\ \A v \in Summary : FullSummaryImage[v] = PutFullSummary(v)
  BY DEF FullSummaryImage
<1> QED
  BY <1>1, <1>5, <1>6, <1>7 DEF Assembles

LEMMA ReadsFullSummary ==
    ASSUME NEW w \in Seq(Octet)
    PROVE  Reads(w, TakeFullSummary(w), FullSummaryImage)
<1> DEFINE fields ==
         << <<"collection_id", TakeId(w)>>,
            <<"generation", TakeVarint(w)>>, <<"item_count", TakeVarint(w)>>,
            <<"collection_digest", TakeId(w)>> >>
<1>1. fields[1][1] = FullSummaryNames[1] /\ Reads(w, fields[1][2], FullSummaryPuts[1])
  <2>1. Reads(w, TakeId(w), IdImage)
    BY ReadsWidths
  <2>2. fields[1] = <<"collection_id", TakeId(w)>>
    OBVIOUS
  <2> HIDE DEF fields
  <2> QED
    BY <2>1, <2>2 DEF FullSummaryNames, FullSummaryPuts
<1>2. fields[2][1] = FullSummaryNames[2] /\ Reads(w, fields[2][2], FullSummaryPuts[2])
  <2>1. Reads(w, TakeVarint(w), VarintImage)
    BY ReadsVarint
  <2>2. fields[2] = <<"generation", TakeVarint(w)>>
    OBVIOUS
  <2> HIDE DEF fields
  <2> QED
    BY <2>1, <2>2 DEF FullSummaryNames, FullSummaryPuts
<1>3. fields[3][1] = FullSummaryNames[3] /\ Reads(w, fields[3][2], FullSummaryPuts[3])
  <2>1. Reads(w, TakeVarint(w), VarintImage)
    BY ReadsVarint
  <2>2. fields[3] = <<"item_count", TakeVarint(w)>>
    OBVIOUS
  <2> HIDE DEF fields
  <2> QED
    BY <2>1, <2>2 DEF FullSummaryNames, FullSummaryPuts
<1>4. fields[4][1] = FullSummaryNames[4] /\ Reads(w, fields[4][2], FullSummaryPuts[4])
  <2>1. Reads(w, TakeId(w), IdImage)
    BY ReadsWidths
  <2>2. fields[4] = <<"collection_digest", TakeId(w)>>
    OBVIOUS
  <2> HIDE DEF fields
  <2> QED
    BY <2>1, <2>2 DEF FullSummaryNames, FullSummaryPuts
<1>5. DOMAIN fields = 1 .. 4 /\ 4 \in Nat
  OBVIOUS
<1>6. TakeFullSummary(w) = TakeFields(fields)
  BY DEF TakeFullSummary
<1> HIDE DEF fields
<1>7. FieldsRead(w, 4, fields, FullSummaryNames, FullSummaryPuts)
  BY <1>1, <1>2, <1>3, <1>4 DEF FieldsRead
<1>8. Assembles(4, FullSummaryNames, FullSummaryPuts, FullSummaryImage)
  BY FullSummaryFields
<1>9. Reads(w, TakeFields(fields), FullSummaryImage)
  BY <1>5, <1>7, <1>8, ReadsFields
<1> QED
  BY <1>6, <1>9

LEMMA AfterFront ==
    ASSUME NEW a \in Seq(Octet), NEW b \in Seq(Octet)
    PROVE  SubSeq(a \o b, Len(a) + 1, Len(a \o b)) = b
<1> DEFINE w == a \o b
           c == SubSeq(w, Len(a) + 1, Len(w))
<1>1. /\ w \in Seq(Octet) /\ Len(w) = Len(a) + Len(b)
      /\ \A i \in 1 .. (Len(a) + Len(b)) : w[i] = IF i <= Len(a) THEN a[i] ELSE b[i - Len(a)]
  BY ConcatProperties
<1>2. Len(a) \in Nat /\ Len(b) \in Nat /\ Len(w) \in Nat
  BY <1>1
<1> HIDE DEF w
<1>3. \A i \in (Len(a) + 1) .. Len(w) : w[i] \in Octet
  BY <1>1, <1>2
<1>4. /\ c \in Seq(Octet)
      /\ Len(c) = IF Len(a) + 1 <= Len(w) THEN Len(w) - (Len(a) + 1) + 1 ELSE 0
      /\ \A i \in 1 .. (Len(w) - (Len(a) + 1) + 1) : c[i] = w[Len(a) + 1 + i - 1]
  BY <1>2, <1>3, SubSeqProperties
<1> HIDE DEF c
<1>5. Len(c) = Len(b)
  BY <1>1, <1>2, <1>4
<1>6. ASSUME NEW i \in 1 .. Len(b)
      PROVE  c[i] = b[i]
  <2>1. i \in 1 .. (Len(w) - (Len(a) + 1) + 1)
    BY <1>1, <1>2
  <2>2. Len(a) + 1 + i - 1 = Len(a) + i /\ Len(a) + i \in 1 .. (Len(a) + Len(b))
        /\ ~(Len(a) + i <= Len(a)) /\ Len(a) + i - Len(a) = i
    BY <1>2
  <2> QED
    BY <1>1, <1>4, <2>1, <2>2
<1>7. c = b
  BY <1>4, <1>5, <1>6
<1> QED
  BY <1>7 DEF c, w

\* The digest of a checkpoint stands for one checkpoint.
LEMMA SummaryBindings ==
    /\ \A s \in Summary :
          SummaryBinding(s) \in Seq(Octet) /\ Len(SummaryBinding(s)) = BindingOctets
    /\ \A s \in Summary, t \in Summary : SummaryBinding(s) = SummaryBinding(t) => s = t
<1>1. \A s : SummaryBinding(s) = Payload("SUMMARY", s)
  BY DEF SummaryBinding, Payload, EncodePayload
<1>2. \A s \in Summary :
         SummaryBinding(s) \in Seq(Octet) /\ Len(SummaryBinding(s)) = BindingOctets
  <2>1. \A s \in Summary :
           /\ SummaryBinding(s) \in Seq(Octet)
           /\ Len(SummaryBinding(s)) = Width.id + Width.u64 + Width.u64 + Width.id
    BY <1>1, SummaryFields
  <2>2. Width.id + Width.u64 + Width.u64 + Width.id = BindingOctets
    BY WidthFacts DEF BindingOctets
  <2> QED
    BY <2>1, <2>2
<1>3. ASSUME NEW s \in Summary, NEW t \in Summary, SummaryBinding(s) = SummaryBinding(t)
      PROVE  s = t
  <2> DEFINE w == SummaryBinding(s)
  <2>1. w \in Seq(Octet) /\ 1 \in Places(w)
    BY <1>2 DEF Places
  <2>2. /\ s \in DOMAIN SummaryImage /\ SummaryImage[s] = w
        /\ t \in DOMAIN SummaryImage /\ SummaryImage[t] = w
    BY <1>1, <1>3 DEF SummaryImage
  <2> HIDE DEF w
  <2>3. Holds(w, 1, w)
    BY <2>1, HoldsWhole
  <2>4. Reads(w, TakeSummary(w), SummaryImage)
    BY <2>1, ReadsSummary
  <2>5. Complete(w, TakeSummary(w)[1], 1, SummaryImage)
    BY <2>1, <2>4 DEF Reads
  <2>6. Got(s, 1 + Len(w)) = Got(t, 1 + Len(w))
    BY <2>2, <2>3, <2>5 DEF Complete
  <2> QED
    BY <2>6, GotFacts
<1> QED
  BY <1>2, <1>3

\* What the generic form has of a record's B1 image.
GenericContent(r) == SubSeq(Encode(r), EnvelopeOctets + 1, Len(Encode(r)))

LEMMA GenericContents ==
    ASSUME NEW r, IsRecord(r), Encodable(r)
    PROVE  \E tag \in Tags :
              /\ r.operation.kind = Kinds[tag] /\ Tag(r.operation.kind) = tag
              /\ GenericContent(r) \in Seq(Octet)
              /\ Len(GenericContent(r)) = ExactEncodedSize(r) - EnvelopeOctets
              /\ Len(GenericContent(r)) \in U32
              /\ Frame(tag, Len(GenericContent(r))) \in Seq(Octet)
              /\ Len(Frame(tag, Len(GenericContent(r)))) = EnvelopeOctets
              /\ Encode(r) = Frame(tag, Len(GenericContent(r))) \o GenericContent(r)
<1>1. PICK tag \in Tags : \E v \in FitBodies[tag] : \E x \in FitExtensions :
         r = RecordOf(tag, v, x) /\ SizeOf(tag, v, x) <= MaxRecordOctets
  BY EncodableFits
<1>2. PICK v \in FitBodies[tag], x \in FitExtensions :
         r = RecordOf(tag, v, x) /\ SizeOf(tag, v, x) <= MaxRecordOctets
  BY <1>1
<1> DEFINE body == BodyImages[tag][v]
           ext == ExtensionList[x]
           size == SizeOf(tag, v, x)
           front == Frame(tag, size - EnvelopeOctets)
           rest == body \o ext
<1>3. /\ body \in Seq(Octet) /\ ext \in Seq(Octet) /\ Encode(r) = (front \o body) \o ext
      /\ front \in Seq(Octet) /\ Len(front) = EnvelopeOctets
      /\ size - EnvelopeOctets \in U32 /\ ExactEncodedSize(r) = size
  BY <1>2, EncodeFacts
<1>4. size = EnvelopeOctets + Len(body) + Len(ext)
  BY DEF SizeOf
<1>5. Tag(Kinds[tag]) = tag /\ r.operation.kind = Kinds[tag]
  BY <1>2, TagFacts DEF RecordOf
<1> HIDE DEF body, ext, size, front
<1>6. rest \in Seq(Octet) /\ Len(rest) = Len(body) + Len(ext)
  BY <1>3, Concat
<1>7. Encode(r) = front \o rest
  BY <1>3
<1>8. Len(rest) = size - EnvelopeOctets
  <2>1. PICK u \in Nat, b \in Nat, e \in Nat :
           u = EnvelopeOctets /\ b = Len(body) /\ e = Len(ext)
    BY <1>3, Sizes
  <2>2. (u + b + e) - u = b + e
    OBVIOUS
  <2> QED
    BY <1>4, <1>6, <2>1, <2>2
<1> HIDE DEF rest
<1>9. GenericContent(r) = rest
  BY <1>3, <1>6, <1>7, AfterFront DEF GenericContent
<1>10. front = Frame(tag, Len(rest))
  BY <1>8 DEF front
<1> QED
  BY <1>3, <1>5, <1>6, <1>7, <1>8, <1>9, <1>10

\* w is the octets of a and then those of b.
Joins(w, a, b) ==
    /\ w \in Seq(Octet) /\ Len(w) = Len(a) + Len(b)
    /\ \A i \in 1 .. Len(a) : w[i] = a[i]
    /\ \A i \in 1 .. Len(b) : w[Len(a) + i] = b[i]

LEMMA Joined ==
    ASSUME NEW a \in Seq(Octet), NEW b \in Seq(Octet)
    PROVE  Joins(a \o b, a, b)
<1> DEFINE w == a \o b
<1>1. PICK p \in Nat, q \in Nat : p = Len(a) /\ q = Len(b)
  OBVIOUS
<1>2. /\ w \in Seq(Octet) /\ Len(w) = p + q
      /\ \A i \in 1 .. (p + q) : w[i] = IF i <= p THEN a[i] ELSE b[i - p]
  BY <1>1, ConcatProperties
<1> HIDE DEF w
<1>3. ASSUME NEW i \in 1 .. p
      PROVE  w[i] = a[i]
  BY <1>2
<1>4. ASSUME NEW i \in 1 .. q
      PROVE  w[p + i] = b[i]
  <2>1. p + i \in 1 .. (p + q) /\ ~(p + i <= p) /\ p + i - p = i
    OBVIOUS
  <2>2. w[p + i] = b[p + i - p]
    BY <1>2, <2>1
  <2> QED
    BY <2>1, <2>2
<1>5. Joins(w, a, b)
  BY <1>1, <1>2, <1>3, <1>4 DEF Joins
<1> QED
  BY <1>5 DEF w

LEMMA FrameFacts ==
    ASSUME NEW tag \in Tags, NEW n \in U32
    PROVE  /\ Frame(tag, n) \in Seq(Octet) /\ Len(Frame(tag, n)) = EnvelopeOctets
           /\ \A rest \in Seq(Octet) : (Frame(tag, n) \o rest)[3] = tag
<1> DEFINE head == <<66, 49>>
           kind == <<tag>>
           length == PutU32(n)
           front == (head \o kind) \o length
<1>1. head \in Seq(Octet) /\ Len(head) = 2 /\ kind \in Seq(Octet) /\ Len(kind) = 1 /\ kind[1] = tag
  BY DEF Octet, Tags
<1>2. length \in Seq(Octet) /\ Len(length) = Width.u32
  BY PutWidths
<1> HIDE DEF head, kind, length
<1>3. Frame(tag, n) = front
  BY DEF Frame, MAGIC, head, kind, length
<1>4. head \o kind \in Seq(Octet) /\ Len(head \o kind) = 3 /\ (head \o kind)[3] = tag
  <2> DEFINE a == head \o kind
  <2>1. a = head \o kind
    OBVIOUS
  <2> HIDE DEF a
  <2>2. /\ a \in Seq(Octet) /\ Len(a) = Len(head) + Len(kind)
        /\ \A i \in 1 .. Len(kind) : a[Len(head) + i] = kind[i]
    <3>1. Joins(a, head, kind)
      BY <1>1, <2>1, Joined
    <3> QED
      BY <3>1 DEF Joins
  <2>3. a[2 + 1] = kind[1]
    BY <1>1, <2>2
  <2> QED
    BY <1>1, <2>2, <2>3 DEF a
<1>5. front \in Seq(Octet) /\ Len(front) = 3 + Width.u32 /\ front[3] = tag
  <2>1. Width.u32 \in Nat
    BY WidthFacts
  <2> DEFINE a == head \o kind
  <2>2. a \in Seq(Octet) /\ Len(a) = 3 /\ a[3] = tag
    BY <1>4
  <2> HIDE DEF a
  <2>3. front = a \o length
    BY DEF a
  <2> HIDE DEF front
  <2>4. /\ front \in Seq(Octet) /\ Len(front) = Len(a) + Len(length)
        /\ \A i \in 1 .. Len(a) : front[i] = a[i]
    <3>1. Joins(front, a, length)
      BY <1>2, <2>2, <2>3, Joined
    <3> QED
      BY <3>1 DEF Joins
  <2>5. 3 \in 1 .. Len(a)
    BY <2>2
  <2> QED
    BY <1>2, <2>2, <2>4, <2>5
<1> HIDE DEF front
<1>6. 3 + Width.u32 = EnvelopeOctets /\ 3 <= 3 + Width.u32
  BY WidthFacts DEF EnvelopeOctets
<1>7. ASSUME NEW rest \in Seq(Octet)
      PROVE  (front \o rest)[3] = tag
  <2>1. Len(front) \in Nat /\ 3 <= Len(front)
    BY <1>5, <1>6
  <2> DEFINE w == front \o rest
  <2>2. w = front \o rest
    OBVIOUS
  <2> HIDE DEF w
  <2>3. \A i \in 1 .. Len(front) : w[i] = front[i]
    <3>1. Joins(w, front, rest)
      BY <1>5, <2>2, Joined
    <3> QED
      BY <3>1 DEF Joins
  <2>4. 3 \in 1 .. Len(front)
    BY <2>1
  <2> QED
    BY <1>5, <2>3, <2>4 DEF w
<1> QED
  BY <1>3, <1>5, <1>6, <1>7

LEMMA GenericDecoded ==
    ASSUME NEW tag \in Tags, NEW content \in Seq(Octet), Len(content) \in U32, NEW supported,
           Decode(Frame(tag, Len(content)) \o content, supported) # << >>
    PROVE  \E r : /\ IsRecord(r) /\ Encodable(r) /\ r.operation.kind = Kinds[tag]
                  /\ content = GenericContent(r)
                  /\ Decode(Frame(tag, Len(content)) \o content, supported) =
                        <<Received(r, supported)>>
<1> DEFINE front == Frame(tag, Len(content))
           w == front \o content
<1>1. /\ front \in Seq(Octet) /\ Len(front) = EnvelopeOctets /\ w[3] = tag
  BY FrameFacts
<1> HIDE DEF front
<1>2. w \in Seq(Octet)
  BY <1>1
<1>3. content = SubSeq(w, EnvelopeOctets + 1, Len(w))
  BY <1>1, AfterFront
<1> HIDE DEF w
<1>4. Decode(w, supported) # << >>
  BY DEF w, front
<1>5. PICK r : /\ IsRecord(r) /\ Encodable(r) /\ w = Encode(r)
               /\ Decode(w, supported) = <<Received(r, supported)>>
  BY <1>2, <1>4, B1Decoded
<1>6. PICK other \in Tags :
         /\ r.operation.kind = Kinds[other]
         /\ GenericContent(r) \in Seq(Octet) /\ Len(GenericContent(r)) \in U32
         /\ Encode(r) = Frame(other, Len(GenericContent(r))) \o GenericContent(r)
  BY <1>5, GenericContents
<1>7. w[3] = other
  <2> DEFINE m == Len(GenericContent(r))
             rest == GenericContent(r)
  <2>1. m \in U32 /\ rest \in Seq(Octet) /\ w = Frame(other, m) \o rest
    BY <1>5, <1>6
  <2> HIDE DEF m, rest
  <2> QED
    BY <2>1, FrameFacts
<1> QED
  BY <1>1, <1>3, <1>5, <1>6, <1>7 DEF GenericContent, w, front

\* The image of a record: its tag, the length, the form and the content.
Framed(tag, form, content) ==
    <<HeaderPrefix + tag>> \o PutVarint(1 + Len(content)) \o <<form>> \o content

LEMMA FramedFacts ==
    ASSUME NEW tag \in Tags, NEW form \in Octet, NEW content \in Seq(Octet)
    PROVE  LET w == Framed(tag, form, content)
               n == 1 + Len(content)
           IN  /\ n \in Nat /\ n > 0 /\ VarintSize(n) \in Nat /\ VarintSize(n) > 0
               /\ PutVarint(n) \in Seq(Octet) /\ Len(PutVarint(n)) = VarintSize(n)
               /\ w \in Seq(Octet) /\ Len(w) = 1 + VarintSize(n) + n /\ Len(w) >= 3
               /\ w[1] = HeaderPrefix + tag
               /\ Holds(w, 2, PutVarint(n))
               /\ w[2 + VarintSize(n)] = form
               /\ SubSeq(w, 2 + VarintSize(n) + 1, Len(w)) = content
<1> DEFINE n == 1 + Len(content)
           head == <<HeaderPrefix + tag>>
           length == PutVarint(n)
           last == <<form>>
           w == ((head \o length) \o last) \o content
<1>1. head \in Seq(Octet) /\ Len(head) = 1 /\ head[1] = HeaderPrefix + tag
  BY DEF Octet, Tags, HeaderPrefix
<1>2. last \in Seq(Octet) /\ Len(last) = 1 /\ last[1] = form
  OBVIOUS
<1>3. PICK c \in Nat : c = Len(content)
  OBVIOUS
<1>4. n \in Nat /\ n > 0 /\ n = 1 + c
  BY <1>3
<1> HIDE DEF n
<1>5. VarintSize(n) \in Nat /\ VarintSize(n) > 0
  BY <1>4, VarintSizes
<1>6. length \in Seq(Octet) /\ Len(length) = VarintSize(n)
  BY <1>4, NumberThenVarint
<1> HIDE DEF head, length, last
<1>7. PICK k \in Nat : k = VarintSize(n) /\ k > 0
  BY <1>5
<1> DEFINE a == head \o length
           b == a \o last
<1>8. /\ a \in Seq(Octet) /\ Len(a) = 1 + k /\ a[1] = HeaderPrefix + tag
      /\ \A i \in 1 .. k : a[1 + i] = length[i]
  <2>1. a = head \o length
    OBVIOUS
  <2> HIDE DEF a
  <2>2. /\ a \in Seq(Octet) /\ Len(a) = Len(head) + Len(length)
        /\ \A i \in 1 .. Len(head) : a[i] = head[i]
        /\ \A i \in 1 .. Len(length) : a[Len(head) + i] = length[i]
    <3>1. Joins(a, head, length)
      BY <1>1, <1>6, <2>1, Joined
    <3> QED
      BY <3>1 DEF Joins
  <2>3. 1 \in 1 .. Len(head)
    BY <1>1
  <2> QED
    BY <1>1, <1>6, <1>7, <2>2, <2>3
<1> HIDE DEF a
<1>9. /\ b \in Seq(Octet) /\ Len(b) = (1 + k) + 1
      /\ \A i \in 1 .. (1 + k) : b[i] = a[i]
      /\ \A i \in 1 .. 1 : b[(1 + k) + i] = last[i]
  <2>1. b = a \o last
    OBVIOUS
  <2> HIDE DEF b
  <2>2. /\ b \in Seq(Octet) /\ Len(b) = Len(a) + Len(last)
        /\ \A i \in 1 .. Len(a) : b[i] = a[i]
        /\ \A i \in 1 .. Len(last) : b[Len(a) + i] = last[i]
    <3>1. Joins(b, a, last)
      BY <1>2, <1>8, <2>1, Joined
    <3> QED
      BY <3>1 DEF Joins
  <2> QED
    BY <1>2, <1>8, <2>2
<1>10. b \in Seq(Octet) /\ Len(b) = 2 + k /\ b[1] = HeaderPrefix + tag /\ b[2 + k] = form
  <2>1. (1 + k) + 1 = 2 + k /\ 1 \in 1 .. (1 + k)
    BY <1>7
  <2>2. b[(1 + k) + 1] = last[1]
    BY <1>9
  <2> QED
    BY <1>2, <1>8, <1>9, <2>1, <2>2
<1>11. \A i \in 1 .. k : b[1 + i] = length[i]
  <2> TAKE i \in 1 .. k
  <2>1. 1 + i \in 1 .. (1 + k)
    BY <1>7
  <2> QED
    BY <1>8, <1>9, <2>1
<1> HIDE DEF b
<1>12. w = b \o content
  BY DEF a, b
<1>13. /\ w \in Seq(Octet) /\ Len(w) = (2 + k) + c
       /\ \A i \in 1 .. (2 + k) : w[i] = b[i]
  <2> HIDE DEF w
  <2>1. /\ w \in Seq(Octet) /\ Len(w) = Len(b) + Len(content)
        /\ \A i \in 1 .. Len(b) : w[i] = b[i]
    <3>1. Joins(w, b, content)
      BY <1>10, <1>12, Joined
    <3> QED
      BY <3>1 DEF Joins
  <2> QED
    BY <1>3, <1>10, <2>1
<1>14. SubSeq(w, Len(b) + 1, Len(w)) = content
  BY <1>10, <1>12, AfterFront
<1> HIDE DEF w
<1>15. Holds(w, 2, length)
  <2>1. \A i \in 1 .. Len(length) : w[2 + i - 1] = length[i]
    <3> TAKE i \in 1 .. Len(length)
    <3>1. i \in 1 .. k /\ 2 + i - 1 = 1 + i /\ 1 + i \in 1 .. (2 + k)
      BY <1>6, <1>7
    <3> QED
      BY <1>11, <1>13, <3>1
  <2>2. 2 + Len(length) <= Len(w) + 1
    BY <1>3, <1>6, <1>7, <1>13
  <2> QED
    BY <2>1, <2>2 DEF Holds
<1>16. Len(w) = 1 + k + n /\ Len(w) >= 3 /\ Len(b) + 1 = 2 + k + 1
  <2>1. /\ (2 + k) + c = 1 + k + (1 + c) /\ (2 + k) + c >= 3
        /\ (2 + k) + 1 = 2 + k + 1
    BY <1>7
  <2> QED
    BY <1>4, <1>10, <1>13, <2>1
<1>17. w[1] = HeaderPrefix + tag /\ w[2 + k] = form
  <2>1. 1 \in 1 .. (2 + k) /\ 2 + k \in 1 .. (2 + k)
    BY <1>7
  <2> QED
    BY <1>10, <1>13, <2>1
<1>18. w = Framed(tag, form, content)
  BY DEF w, head, length, last, n, Framed
<1> QED
  BY <1>4, <1>5, <1>6, <1>7, <1>13, <1>14, <1>15, <1>16, <1>17, <1>18 DEF n, length

\* What CompactDecode makes of the length it reads.
Unframed(w, supported, cache, got) ==
    IF got = << >> THEN << >>
    ELSE IF got[1].value # Len(w) - got[1].next + 1 \/ got[1].value = 0 THEN << >>
    ELSE DecodeForm(w[1] - HeaderPrefix, w[got[1].next],
                    SubSeq(w, got[1].next + 1, Len(w)), supported, cache)

LEMMA CompactOutcome ==
    ASSUME NEW w, NEW supported, NEW cache
    PROVE  CompactDecode(w, supported, cache) =
              IF \/ Len(w) \notin 3 .. MaxRecordOctets
                 \/ w[1] - HeaderPrefix \notin Tags
              THEN << >>
              ELSE Unframed(w, supported, cache, TakeVarint(w)[2])
BY TagFacts DEF CompactDecode, Unframed, Then

LEMMA DecodesFramed ==
    ASSUME NEW tag \in Tags, NEW form \in Octet, NEW content \in Seq(Octet),
           NEW supported, NEW cache,
           Len(Framed(tag, form, content)) <= MaxRecordOctets
    PROVE  CompactDecode(Framed(tag, form, content), supported, cache) =
              DecodeForm(tag, form, content, supported, cache)
<1> DEFINE w == Framed(tag, form, content)
           n == 1 + Len(content)
           k == VarintSize(n)
<1>1. /\ n \in Nat /\ n > 0 /\ k \in Nat /\ k > 0
      /\ PutVarint(n) \in Seq(Octet) /\ Len(PutVarint(n)) = k
      /\ w \in Seq(Octet) /\ Len(w) = 1 + k + n /\ Len(w) >= 3
      /\ w[1] = HeaderPrefix + tag
      /\ Holds(w, 2, PutVarint(n))
      /\ w[2 + k] = form
      /\ SubSeq(w, 2 + k + 1, Len(w)) = content
  BY FramedFacts
<1>2. Len(w) <= MaxRecordOctets
  OBVIOUS
<1> HIDE DEF w, n, k
<1>3. Len(w) \in 3 .. MaxRecordOctets
  BY <1>1, <1>2, Sizes
<1>4. w[1] - HeaderPrefix = tag
  BY <1>1 DEF HeaderPrefix, Tags
<1>5. n \in U64
  <2>1. n <= MaxRecordOctets /\ MaxRecordOctets \in U64
    <3>1. n <= Len(w)
      BY <1>1
    <3> QED
      BY <1>1, <1>2, <3>1, VarintAssumption, Sizes
  <2>2. Width.u64 \in Nat
    BY WidthFacts
  <2> QED
    BY <1>1, <2>1, <2>2, NumbersAreNaturals DEF U64
<1>6. TakeVarint(w)[2] = Got(n, 2 + k)
  <2>1. Reads(w, TakeVarint(w), VarintImage)
    BY <1>1, ReadsVarint
  <2>2. 2 \in Places(w)
    BY <1>1 DEF Places
  <2>3. n \in DOMAIN VarintImage /\ VarintImage[n] = PutVarint(n)
    BY <1>5 DEF VarintImage
  <2>4. Complete(w, TakeVarint(w)[2], 2, VarintImage)
    BY <2>1, <2>2 DEF Reads
  <2> QED
    BY <1>1, <2>3, <2>4 DEF Complete
<1>7. n = Len(w) - (2 + k) + 1 /\ n # 0
  BY <1>1
<1>8. Unframed(w, supported, cache, Got(n, 2 + k)) =
         DecodeForm(tag, form, content, supported, cache)
  <2> DEFINE got == Got(n, 2 + k)
  <2>1. got # << >> /\ got[1].value = n /\ got[1].next = 2 + k
    BY GotFacts
  <2> HIDE DEF got
  <2>2. Unframed(w, supported, cache, got) =
           DecodeForm(w[1] - HeaderPrefix, w[2 + k], SubSeq(w, 2 + k + 1, Len(w)),
                      supported, cache)
    BY <1>7, <2>1 DEF Unframed
  <2>3. Unframed(w, supported, cache, got) = DecodeForm(tag, form, content, supported, cache)
    BY <1>1, <1>4, <2>2
  <2> QED
    BY <2>3 DEF got
<1>9. tag \in Tags
  OBVIOUS
<1>10. CompactDecode(w, supported, cache) =
         DecodeForm(tag, form, content, supported, cache)
  BY <1>3, <1>4, <1>6, <1>8, <1>9, CompactOutcome
<1> QED
  BY <1>10 DEF w

LEMMA DecodedIsFramed ==
    ASSUME NEW w \in Seq(Octet), NEW supported, NEW cache,
           CompactDecode(w, supported, cache) # << >>
    PROVE  \E tag \in Tags : \E form \in Octet : \E content \in Seq(Octet) :
              /\ w = Framed(tag, form, content) /\ Len(w) <= MaxRecordOctets
              /\ CompactDecode(w, supported, cache) =
                    DecodeForm(tag, form, content, supported, cache)
<1>1. /\ Len(w) \in 3 .. MaxRecordOctets
      /\ w[1] - HeaderPrefix \in Tags
      /\ CompactDecode(w, supported, cache) = Unframed(w, supported, cache, TakeVarint(w)[2])
  BY CompactOutcome
<1>2. 2 \in Places(w) /\ Len(w) \in Nat /\ Len(w) >= 3 /\ Len(w) <= MaxRecordOctets
  BY <1>1, Sizes DEF Places
<1>3. TakeVarint(w)[2] # << >>
  BY <1>1 DEF Unframed
<1>4. Reads(w, TakeVarint(w), VarintImage)
  BY ReadsVarint
<1>5. Sound(w, TakeVarint(w)[2], 2, VarintImage)
  BY <1>2, <1>4 DEF Reads
<1>6. PICK n \in U64 : /\ TakeVarint(w)[2] = Got(n, 2 + Len(PutVarint(n)))
                       /\ Holds(w, 2, PutVarint(n))
  BY <1>3, <1>5 DEF Sound, VarintImage
<1>7. n \in Nat
  <2>1. Width.u64 \in Nat
    BY WidthFacts
  <2> QED
    BY <2>1, NumbersAreNaturals DEF U64
<1>8. PICK k \in Nat : k > 0 /\ k = VarintSize(n)
  BY <1>7, VarintSizes
<1>9. PutVarint(n) \in Seq(Octet) /\ Len(PutVarint(n)) = k
  BY <1>7, <1>8, NumberThenVarint
<1> DEFINE tag == w[1] - HeaderPrefix
           at == 2 + k
           form == w[at]
           content == SubSeq(w, at + 1, Len(w))
           length == PutVarint(n)
<1>10. /\ n = Len(w) - at + 1 /\ n # 0
       /\ CompactDecode(w, supported, cache) = DecodeForm(tag, form, content, supported, cache)
  <2> DEFINE got == TakeVarint(w)[2]
  <2>1. got = Got(n, at)
    BY <1>6, <1>9
  <2>2. CompactDecode(w, supported, cache) = Unframed(w, supported, cache, got)
    BY <1>1
  <2>3. CompactDecode(w, supported, cache) # << >>
    OBVIOUS
  <2> HIDE DEF got, at
  <2>4. got # << >> /\ got[1].value = n /\ got[1].next = at
    BY <2>1, GotFacts
  <2>5. Unframed(w, supported, cache, got) =
           IF n # Len(w) - at + 1 \/ n = 0 THEN << >>
           ELSE DecodeForm(w[1] - HeaderPrefix, w[at], SubSeq(w, at + 1, Len(w)),
                           supported, cache)
    BY <2>4, Zenon DEF Unframed
  <2>6. /\ n = Len(w) - at + 1 /\ n # 0
        /\ CompactDecode(w, supported, cache) =
              DecodeForm(w[1] - HeaderPrefix, w[at], SubSeq(w, at + 1, Len(w)), supported, cache)
    BY <2>2, <2>3, <2>5, Zenon
  <2> QED
    BY <2>6, Zenon DEF at
<1>11. PICK l \in Nat : l = Len(w)
  BY <1>2
<1>12. /\ at \in Nat /\ at <= l /\ at >= 3 /\ l + 1 - at = n
       /\ at \in 1 .. Len(w) /\ 1 \in 1 .. Len(w)
  BY <1>2, <1>7, <1>8, <1>10, <1>11
<1>13. form \in Octet /\ w[1] \in Octet
  BY <1>12
<1>14. content \in Seq(Octet) /\ 1 + Len(content) = n
  <2>1. \A i \in (at + 1) .. Len(w) : w[i] \in Octet
    BY <1>12
  <2>2. /\ content \in Seq(Octet)
        /\ Len(content) = IF at + 1 <= Len(w) THEN Len(w) - (at + 1) + 1 ELSE 0
    <3>1. at + 1 \in Int /\ Len(w) \in Int
      BY <1>2, <1>12
    <3> QED
      BY <2>1, <3>1, SubSeqProperties
  <2> HIDE DEF content, at
  <2> QED
    BY <1>11, <1>12, <2>2
<1>15. \A i \in 1 .. Len(content) : content[i] = w[at + i]
  <2>1. \A i \in (at + 1) .. Len(w) : w[i] \in Octet
    BY <1>12
  <2>2. \A i \in 1 .. (Len(w) - (at + 1) + 1) : content[i] = w[at + 1 + i - 1]
    <3>1. at + 1 \in Int /\ Len(w) \in Int
      BY <1>2, <1>12
    <3> QED
      BY <2>1, <3>1, SubSeqProperties
  <2> HIDE DEF content, at
  <2>3. \A i \in 1 .. Len(content) :
           i \in 1 .. (Len(w) - (at + 1) + 1) /\ at + 1 + i - 1 = at + i
    BY <1>11, <1>12, <1>14
  <2> QED
    BY <2>2, <2>3
<1>16. tag \in Tags /\ w[1] = HeaderPrefix + tag
  <2>1. PICK x \in 0 .. 255 : x = w[1]
    BY <1>13 DEF Octet
  <2>2. tag = x - 176
    BY <2>1 DEF HeaderPrefix
  <2> HIDE DEF tag
  <2>3. x = 176 + (x - 176)
    BY <2>1
  <2>4. w[1] = HeaderPrefix + tag
    BY <2>1, <2>2, <2>3 DEF HeaderPrefix
  <2> QED
    BY <1>1, <2>4 DEF tag
<1> HIDE DEF tag, at, form, content, length
<1>17. w = Framed(tag, form, content)
  <2> DEFINE image == Framed(tag, form, content)
  <2>1. /\ image \in Seq(Octet) /\ Len(image) = 1 + k + n
        /\ image[1] = HeaderPrefix + tag /\ Holds(image, 2, length)
        /\ image[2 + k] = form
        /\ SubSeq(image, 2 + k + 1, Len(image)) = content
    <3> DEFINE m == 1 + Len(content)
    <3>1. /\ image \in Seq(Octet) /\ Len(image) = 1 + VarintSize(m) + m
          /\ image[1] = HeaderPrefix + tag /\ Holds(image, 2, PutVarint(m))
          /\ image[2 + VarintSize(m)] = form
          /\ SubSeq(image, 2 + VarintSize(m) + 1, Len(image)) = content
      <4>1. tag \in Tags /\ form \in Octet /\ content \in Seq(Octet)
        BY <1>13, <1>14, <1>16
      <4> QED
        BY <4>1, FramedFacts
    <3>2. m = n
      BY <1>14
    <3> HIDE DEF image, m
    <3> QED
      BY <1>8, <3>1, <3>2 DEF length
  <2> HIDE DEF image
  <2>2. Len(image) = l
    BY <1>8, <1>11, <1>12, <2>1 DEF at
  <2>3. \A i \in 1 .. k : image[1 + i] = w[1 + i]
    <3> TAKE i \in 1 .. k
    <3>1. 2 + i - 1 = 1 + i
      OBVIOUS
    <3>2. \A j \in 1 .. k : image[2 + j - 1] = length[j] /\ w[2 + j - 1] = length[j]
      BY <1>6, <1>9, <2>1 DEF Holds, length
    <3> QED
      BY <3>1, <3>2
  <2>4. \A i \in 1 .. Len(content) : content[i] = image[2 + k + i]
    <3>1. \A i \in (2 + k + 1) .. Len(image) : image[i] \in Octet
      BY <2>1
    <3>2. \A i \in 1 .. (Len(image) - (2 + k + 1) + 1) : content[i] = image[2 + k + 1 + i - 1]
      <4>1. 2 + k + 1 \in Int /\ Len(image) \in Int
        BY <2>1
      <4> QED
        BY <2>1, <3>1, <4>1, SubSeqProperties
    <3>3. \A i \in 1 .. Len(content) :
             i \in 1 .. (Len(image) - (2 + k + 1) + 1) /\ 2 + k + 1 + i - 1 = 2 + k + i
      BY <1>12, <1>14, <2>2 DEF at
    <3> QED
      BY <3>2, <3>3
  <2>5. ASSUME NEW i \in 1 .. l
        PROVE  image[i] = w[i]
    <3>1. CASE i = 1
      BY <1>16, <2>1, <3>1
    <3>2. CASE i \in 2 .. (1 + k)
      <4>1. i - 1 \in 1 .. k /\ 1 + (i - 1) = i
        BY <3>2
      <4> QED
        BY <2>3, <4>1
    <3>3. CASE i = 2 + k
      BY <2>1, <3>3 DEF form, at
    <3>4. CASE i > 2 + k
      <4> DEFINE j == i - (2 + k)
      <4>1. j \in 1 .. Len(content) /\ (2 + k) + j = i
        BY <1>12, <1>14, <3>4 DEF at
      <4> HIDE DEF j
      <4> QED
        BY <1>15, <2>4, <4>1 DEF at
    <3> QED
      BY <3>1, <3>2, <3>3, <3>4
  <2>6. image = w
    <3>1. Len(image) = Len(w) /\ \A i \in 1 .. Len(w) : image[i] = w[i]
      BY <1>11, <2>2, <2>5
    <3> HIDE DEF image
    <3> QED
      BY <2>1, <3>1, SameOctets
  <2> QED
    BY <2>6 DEF image
<1>18. CompactDecode(w, supported, cache) = DecodeForm(tag, form, content, supported, cache)
  BY <1>10 DEF tag, form, content
<1> QED
  BY <1>2, <1>13, <1>14, <1>16, <1>17, <1>18

\* What a caller may hold.
IsCache(cache) ==
    cache = << >> \/ \E s \in Summary : cache = <<s>> /\ Encodable(Plain("SUMMARY", s))

LEMMA FormCases ==
    ASSUME NEW r, NEW cache
    PROVE  \/ ~Aliased(r) /\ CanonicalForm(r, cache) = "Generic"
           \/ /\ Aliased(r) /\ CanonicalForm(r, cache) = "ProfileCapabilities"
              /\ r.extensions = << >>
              /\ r.operation.kind = "CAPABILITIES" /\ r.operation.body = ProfileCapabilities
           \/ /\ Aliased(r) /\ CanonicalForm(r, cache) = "CachedSummary"
              /\ r.extensions = << >>
              /\ r.operation.kind = "SUMMARY" /\ cache = <<r.operation.body>>
           \/ /\ Aliased(r) /\ CanonicalForm(r, cache) = "FullSummary"
              /\ r.extensions = << >>
              /\ r.operation.kind = "SUMMARY" /\ cache # <<r.operation.body>>
<1>1. "CAPABILITIES" # "SUMMARY"
  OBVIOUS
<1> QED
  BY <1>1 DEF CanonicalForm, Aliased

LEMMA ContentOf ==
    ASSUME NEW r, NEW cache
    PROVE  /\ CanonicalForm(r, cache) = "Generic" =>
                 /\ CompactContent(r, cache) = GenericContent(r)
                 /\ CompactBodySize(r, cache) = 1 + (ExactEncodedSize(r) - EnvelopeOctets)
           /\ CanonicalForm(r, cache) = "ProfileCapabilities" =>
                 CompactContent(r, cache) = << >> /\ CompactBodySize(r, cache) = 1
           /\ CanonicalForm(r, cache) = "CachedSummary" =>
                 /\ CompactContent(r, cache) = SummaryBinding(r.operation.body)
                 /\ CompactBodySize(r, cache) = 1 + BindingOctets
           /\ CanonicalForm(r, cache) = "FullSummary" =>
                 /\ CompactContent(r, cache) = PutFullSummary(r.operation.body)
                 /\ CompactBodySize(r, cache) =
                       1 + Width.id + VarintSize(r.operation.body.generation)
                         + VarintSize(r.operation.body.item_count) + Width.id
BY DEF CompactContent, CompactBodySize, GenericContent

LEMMA FormNumbers ==
    /\ Forms["Generic"] = 0 /\ Forms["ProfileCapabilities"] = 1
    /\ Forms["FullSummary"] = 1 /\ Forms["CachedSummary"] = 2
BY DEF Forms

LEMMA Summaries ==
    ASSUME NEW r, IsRecord(r), r.operation.kind = "SUMMARY"
    PROVE  /\ r.operation.body \in Summary
           /\ r.extensions = << >> => r = Plain("SUMMARY", r.operation.body)
<1>1. \E tag \in DOMAIN Kinds : r.operation.kind = Kinds[tag] /\ r.operation.body \in Bodies[tag]
  BY DEF IsRecord
<1>2. PICK tag \in Tags : r.operation.kind = Kinds[tag] /\ r.operation.body \in Bodies[tag]
  BY <1>1, TagFacts
<1>3. Kinds[2] = "SUMMARY" /\ Bodies[2] = Summary /\ 2 \in Tags
  BY DEF Kinds, Bodies, Tags
<1>4. tag = 2
  BY <1>2, <1>3, TagFacts
<1>5. r = [operation |-> [kind |-> r.operation.kind, body |-> r.operation.body],
           extensions |-> r.extensions]
  BY DEF IsRecord
<1> QED
  BY <1>2, <1>3, <1>4, <1>5 DEF Plain

LEMMA Profiles ==
    ASSUME NEW r, IsRecord(r), r.operation.kind = "CAPABILITIES", r.extensions = << >>
    PROVE  r = Plain("CAPABILITIES", r.operation.body)
BY DEF IsRecord, Plain

LEMMA PlainRecords ==
    /\ \A s \in Summary : IsRecord(Plain("SUMMARY", s))
    /\ IsRecord(Plain("CAPABILITIES", ProfileCapabilities))
    /\ \A kind, v : /\ Plain(kind, v).operation.kind = kind
                    /\ Plain(kind, v).operation.body = v
                    /\ Plain(kind, v).extensions = << >>
<1>1. \A kind, v : /\ Plain(kind, v).operation.kind = kind
                   /\ Plain(kind, v).operation.body = v
                   /\ Plain(kind, v).extensions = << >>
                   /\ Plain(kind, v) = [operation |-> [kind |-> kind, body |-> v],
                                        extensions |-> << >>]
  BY DEF Plain
<1>2. << >> \in Seq(Extension)
  OBVIOUS
<1>3. ASSUME NEW tag \in Tags, NEW v \in Bodies[tag]
      PROVE  IsRecord(Plain(Kinds[tag], v))
  <2>1. tag \in DOMAIN Kinds
    BY TagFacts
  <2> QED
    BY <1>1, <1>2, <2>1 DEF IsRecord
<1>4. /\ 1 \in Tags /\ Kinds[1] = "CAPABILITIES" /\ Bodies[1] = WireCapabilities
      /\ 2 \in Tags /\ Kinds[2] = "SUMMARY" /\ Bodies[2] = Summary
  BY DEF Tags, Kinds, Bodies
<1>5. \A s \in Summary : IsRecord(Plain("SUMMARY", s))
  BY <1>3, <1>4
<1>6. IsRecord(Plain("CAPABILITIES", ProfileCapabilities))
  BY <1>3, <1>4, ProfileAssumption
<1> QED
  BY <1>1, <1>5, <1>6

LEMMA ContentFacts ==
    ASSUME NEW r, IsRecord(r), Encodable(r), NEW cache
    PROVE  /\ CompactContent(r, cache) \in Seq(Octet)
           /\ CompactBodySize(r, cache) = 1 + Len(CompactContent(r, cache))
           /\ Tag(r.operation.kind) \in Tags /\ Kinds[Tag(r.operation.kind)] = r.operation.kind
           /\ Forms[CanonicalForm(r, cache)] \in Octet
           /\ CompactEncode(r, cache) =
                 Framed(Tag(r.operation.kind), Forms[CanonicalForm(r, cache)],
                        CompactContent(r, cache))
<1> DEFINE content == CompactContent(r, cache)
<1>1. content \in Seq(Octet) /\ CompactBodySize(r, cache) = 1 + Len(content)
      /\ Forms[CanonicalForm(r, cache)] \in Octet
  <2>1. CASE CanonicalForm(r, cache) = "Generic"
    BY <2>1, ContentOf, GenericContents, FormNumbers DEF Octet
  <2>2. CASE CanonicalForm(r, cache) = "ProfileCapabilities"
    <3>1. content = << >> /\ CompactBodySize(r, cache) = 1 /\ Forms[CanonicalForm(r, cache)] \in Octet
      BY <2>2, ContentOf, FormNumbers DEF Octet
    <3>2. << >> \in Seq(Octet) /\ 1 = 1 + Len(<< >>)
      OBVIOUS
    <3> QED
      BY <3>1, <3>2
  <2>3. CASE CanonicalForm(r, cache) = "CachedSummary"
    <3>1. r.operation.body \in Summary
      BY <2>3, FormCases, Summaries
    <3> QED
      BY <2>3, <3>1, ContentOf, SummaryBindings, FormNumbers DEF Octet
  <2>4. CASE CanonicalForm(r, cache) = "FullSummary"
    <3>1. r.operation.body \in Summary
      BY <2>4, FormCases, Summaries
    <3> DEFINE v == r.operation.body
               g == VarintSize(v.generation)
               c == VarintSize(v.item_count)
    <3>2. content \in Seq(Octet) /\ Len(content) = Width.id + g + c + Width.id
      BY <2>4, <3>1, ContentOf, FullSummaryFields
    <3>3. CompactBodySize(r, cache) = 1 + Width.id + g + c + Width.id
      BY <2>4, ContentOf
    <3>4. g \in Nat /\ c \in Nat /\ Width.id \in Nat
      <4>1. v.generation \in U64 /\ v.item_count \in U64
        BY <3>1 DEF Summary
      <4>2. v.generation \in Nat /\ v.item_count \in Nat
        BY <4>1, WidthFacts, NumbersAreNaturals DEF U64
      <4> QED
        BY <4>2, VarintSizes, WidthFacts
    <3> HIDE DEF g, c, content
    <3>5. 1 + Width.id + g + c + Width.id = 1 + (Width.id + g + c + Width.id)
      BY <3>4
    <3> QED
      BY <2>4, <3>2, <3>3, <3>5, FormNumbers DEF Octet
  <2> QED
    BY <2>1, <2>2, <2>3, <2>4, FormCases
<1>2. Tag(r.operation.kind) \in Tags /\ Kinds[Tag(r.operation.kind)] = r.operation.kind
  BY GenericContents
<1>3. CompactEncode(r, cache) =
         <<HeaderPrefix + Tag(r.operation.kind)>> \o PutVarint(CompactBodySize(r, cache))
           \o <<Forms[CanonicalForm(r, cache)]>> \o CompactContent(r, cache)
  BY DEF CompactEncode
<1> QED
  BY <1>1, <1>2, <1>3 DEF Framed

\* The compact size is exact.
LEMMA CompactEncodes ==
    ASSUME NEW r, IsRecord(r), Encodable(r), NEW cache
    PROVE  /\ CompactEncode(r, cache) \in Seq(Octet)
           /\ Len(CompactEncode(r, cache)) = CompactSize(r, cache)
           /\ Len(CompactEncode(r, cache)) >= 3
<1> DEFINE tag == Tag(r.operation.kind)
           form == Forms[CanonicalForm(r, cache)]
           content == CompactContent(r, cache)
           w == CompactEncode(r, cache)
           n == 1 + Len(content)
<1>1. tag \in Tags /\ form \in Octet /\ content \in Seq(Octet)
      /\ w = Framed(tag, form, content) /\ CompactBodySize(r, cache) = n
  BY ContentFacts
<1> HIDE DEF tag, form, content, w
<1>2. w \in Seq(Octet) /\ Len(w) = 1 + VarintSize(n) + n /\ Len(w) >= 3
  BY <1>1, FramedFacts
<1>3. CompactSize(r, cache) = 1 + VarintSize(n) + n
  BY <1>1 DEF CompactSize
<1> QED
  BY <1>2, <1>3 DEF w

LEMMA FormOutcome ==
    ASSUME NEW tag, NEW form, NEW content, NEW supported, NEW cache
    PROVE  LET got == DecodeForm(tag, form, content, supported, cache)
           IN  /\ form = 0 => got = DecodeGeneric(tag, content, supported)
               /\ Kinds[tag] = "CAPABILITIES" /\ form = 1 /\ content = << >> =>
                     got = <<Plain("CAPABILITIES", ProfileCapabilities)>>
               /\ Kinds[tag] = "SUMMARY" /\ form = 2 => got = DecodeCachedSummary(content, cache)
               /\ Kinds[tag] = "SUMMARY" /\ form = 1 => got = DecodeFullSummary(content, cache)
               /\ \/ got = << >>
                  \/ form = 0
                  \/ Kinds[tag] = "CAPABILITIES" /\ form = 1 /\ content = << >>
                  \/ Kinds[tag] = "SUMMARY" /\ form \in {1, 2}
<1>1. "CAPABILITIES" # "SUMMARY"
  OBVIOUS
<1> QED
  BY <1>1 DEF DecodeForm, Forms

LEMMA GenericOutcome ==
    ASSUME NEW tag, NEW content, NEW supported
    PROVE  LET got == Decode(Frame(tag, Len(content)) \o content, supported)
           IN  /\ got = << >> => DecodeGeneric(tag, content, supported) = << >>
               /\ got # << >> /\ Aliased(got[1]) => DecodeGeneric(tag, content, supported) = << >>
               /\ got # << >> /\ ~Aliased(got[1]) => DecodeGeneric(tag, content, supported) = got
BY DEF DecodeGeneric, Frame

LEMMA CachedOutcome ==
    ASSUME NEW content, NEW cache, IsCache(cache)
    PROVE  /\ DecodeCachedSummary(content, cache) # << >> =>
                 \E s \in Summary :
                    /\ cache = <<s>> /\ Encodable(Plain("SUMMARY", s))
                    /\ content = SummaryBinding(s)
                    /\ DecodeCachedSummary(content, cache) = <<Plain("SUMMARY", s)>>
           /\ \A s \in Summary : content = SummaryBinding(s) =>
                 DecodeCachedSummary(content, cache) =
                    IF cache = <<s>> THEN <<Plain("SUMMARY", s)>> ELSE << >>
<1>1. CASE cache = << >>
  <2>1. DecodeCachedSummary(content, cache) = << >> /\ \A s : cache # <<s>>
    BY <1>1 DEF DecodeCachedSummary
  <2> QED
    BY <2>1
<1>2. CASE cache # << >>
  <2>1. PICK t \in Summary : cache = <<t>> /\ Encodable(Plain("SUMMARY", t))
    BY <1>2 DEF IsCache
  <2>2. cache[1] = t /\ cache # << >> /\ \A s : cache = <<s>> <=> s = t
    BY <2>1
  <2>3. DecodeCachedSummary(content, cache) =
           IF content # SummaryBinding(t) THEN << >> ELSE <<Plain("SUMMARY", t)>>
    BY <2>2 DEF DecodeCachedSummary
  <2>4. <<Plain("SUMMARY", t)>> # << >>
    OBVIOUS
  <2>5. \A s \in Summary : SummaryBinding(s) = SummaryBinding(t) => s = t
    BY SummaryBindings
  <2> QED
    BY <2>1, <2>2, <2>3, <2>4, <2>5
<1> QED
  BY <1>1, <1>2

\* What DecodeFullSummary makes of the fields it reads.
FullOutcome(content, cache, got) ==
    IF got = << >> THEN << >>
    ELSE IF \/ got[1].next # Len(content) + 1
            \/ ~Encodable(Plain("SUMMARY", got[1].value))
            \/ cache = <<got[1].value>>
    THEN << >>
    ELSE <<Plain("SUMMARY", got[1].value)>>

LEMMA FullSummaryOutcome ==
    ASSUME NEW content \in Seq(Octet), NEW cache
    PROVE  /\ DecodeFullSummary(content, cache) # << >> =>
                 \E s \in Summary :
                    /\ cache # <<s>> /\ Encodable(Plain("SUMMARY", s))
                    /\ content = PutFullSummary(s)
                    /\ DecodeFullSummary(content, cache) = <<Plain("SUMMARY", s)>>
           /\ \A s \in Summary :
                 content = PutFullSummary(s) /\ Encodable(Plain("SUMMARY", s)) =>
                    DecodeFullSummary(content, cache) =
                       IF cache = <<s>> THEN << >> ELSE <<Plain("SUMMARY", s)>>
<1> DEFINE got == TakeFullSummary(content)[1]
<1>1. DecodeFullSummary(content, cache) = FullOutcome(content, cache, got)
  BY DEF DecodeFullSummary, FullOutcome, Then
<1>2. Reads(content, TakeFullSummary(content), FullSummaryImage)
  BY ReadsFullSummary
<1>3. 1 \in Places(content)
  BY DEF Places
<1>4. /\ Sound(content, got, 1, FullSummaryImage)
      /\ Complete(content, got, 1, FullSummaryImage)
  BY <1>2, <1>3 DEF Reads
<1>5. /\ DOMAIN FullSummaryImage = Summary
      /\ \A s \in Summary : FullSummaryImage[s] = PutFullSummary(s)
      /\ \A s \in Summary : PutFullSummary(s) \in Seq(Octet)
  BY FullSummaryFields DEF FullSummaryImage
<1> HIDE DEF got
<1>6. ASSUME FullOutcome(content, cache, got) # << >>
      PROVE  \E s \in Summary :
                /\ cache # <<s>> /\ Encodable(Plain("SUMMARY", s))
                /\ content = PutFullSummary(s)
                /\ FullOutcome(content, cache, got) = <<Plain("SUMMARY", s)>>
  <2>1. got # << >> /\ got[1].next = Len(content) + 1
    BY <1>6 DEF FullOutcome
  <2>2. PICK s \in Summary : /\ got = Got(s, 1 + Len(PutFullSummary(s)))
                             /\ Holds(content, 1, PutFullSummary(s))
    BY <1>4, <1>5, <2>1 DEF Sound
  <2>3. got[1].value = s /\ got[1].next = 1 + Len(PutFullSummary(s))
    BY <2>2, GotFacts
  <2>4. PutFullSummary(s) \in Seq(Octet)
    BY <1>5
  <2>5. Len(PutFullSummary(s)) = Len(content)
    <3>1. Len(PutFullSummary(s)) \in Nat /\ Len(content) \in Nat
      BY <2>4
    <3> QED
      BY <2>1, <2>3, <3>1
  <2>6. content = PutFullSummary(s)
    BY <2>2, <2>4, <2>5, HoldsWhole
  <2> QED
    BY <1>6, <2>3, <2>6 DEF FullOutcome
<1>7. ASSUME NEW s \in Summary, content = PutFullSummary(s), Encodable(Plain("SUMMARY", s))
      PROVE  FullOutcome(content, cache, got) =
                IF cache = <<s>> THEN << >> ELSE <<Plain("SUMMARY", s)>>
  <2>1. Holds(content, 1, PutFullSummary(s)) /\ Len(content) = Len(PutFullSummary(s))
    BY <1>7, HoldsWhole
  <2>2. got = Got(s, 1 + Len(PutFullSummary(s)))
    BY <1>4, <1>5, <2>1 DEF Complete
  <2>3. got # << >> /\ got[1].value = s /\ got[1].next = 1 + Len(content)
    BY <2>1, <2>2, GotFacts
  <2>4. 1 + Len(content) = Len(content) + 1
    OBVIOUS
  <2> QED
    BY <1>7, <2>3, <2>4 DEF FullOutcome
<1> QED
  BY <1>1, <1>6, <1>7

LEMMA ReceivedFacts ==
    ASSUME NEW r, IsRecord(r), Encodable(r), NEW supported
    PROVE  /\ Received(r, supported).operation = r.operation
           /\ r.extensions = << >> => Received(r, supported) = r
           /\ ExactEncodedSize(Received(r, supported)) \in Nat
           /\ ExactEncodedSize(Received(r, supported)) <= ExactEncodedSize(r)
<1>1. PICK tag \in Tags : \E v \in FitBodies[tag] : \E x \in FitExtensions : r = RecordOf(tag, v, x)
  BY EncodableFits
<1>2. PICK v \in FitBodies[tag], x \in FitExtensions : r = RecordOf(tag, v, x)
  BY <1>1
<1>3. /\ r.operation = [kind |-> Kinds[tag], body |-> v] /\ r.extensions = x
      /\ Received(r, supported) = RecordOf(tag, v, Kept(x, supported))
      /\ Received(r, supported).operation = r.operation
      /\ Received(r, supported).extensions = Kept(x, supported)
  BY <1>2 DEF Received, RecordOf
<1>4. x \in Seq(FitExtension)
  BY DEF FitExtensions, Lists
<1>5. PICK p \in Nat : p = PayloadSize(r.operation)
  <2>1. BodyWritten(tag)
    BY BodyWrites
  <2>2. PayloadSize([kind |-> Kinds[tag], body |-> v]) \in Nat
    BY <2>1 DEF BodyWritten, Writes
  <2> QED
    BY <1>3, <2>2
<1>6. /\ ExtensionsSize(Kept(x, supported)) <= ExtensionsSize(x)
      /\ ExtensionsSize(x) \in Nat /\ ExtensionsSize(Kept(x, supported)) \in Nat
  BY <1>4, KeptFacts
<1>7. PICK a \in Nat, b \in Nat :
         a = ExtensionsSize(x) /\ b = ExtensionsSize(Kept(x, supported)) /\ b <= a
  BY <1>6
<1>8. PICK u \in Nat : u = EnvelopeOctets
  BY Sizes
<1>9. /\ ExactEncodedSize(r) = u + p + a
      /\ ExactEncodedSize(Received(r, supported)) = u + p + b
  BY <1>3, <1>5, <1>7, <1>8 DEF ExactEncodedSize
<1>10. u + p + b <= u + p + a /\ u + p + b \in Nat
  BY <1>7
<1>11. r.extensions = << >> => Received(r, supported) = r
  <2>1. << >> \in Seq(FitExtension) /\ DOMAIN << >> = {}
    OBVIOUS
  <2>2. \A i \in DOMAIN << >> : << >>[i].id \in supported
    BY <2>1
  <2>3. Kept(<< >>, supported) = << >>
    BY <2>1, <2>2, KeptFacts
  <2> QED
    BY <1>2, <1>3, <2>3
<1> QED
  BY <1>3, <1>9, <1>10, <1>11

\* What the receiver of a compact record makes of it.
LEMMA CompactReceives ==
    ASSUME NEW r, IsRecord(r), NEW sender, CompactEncodable(r, sender),
           NEW supported, NEW receiver, IsCache(receiver)
    PROVE  LET got == CompactDecode(CompactEncode(r, sender), supported, receiver)
           IN  /\ got = << >> \/ got = <<Received(r, supported)>>
               /\ sender = receiver
                    /\ (\A i \in DOMAIN r.extensions : r.extensions[i].id \in supported) =>
                       got # << >>
<1> DEFINE got == CompactDecode(CompactEncode(r, sender), supported, receiver)
           tag == Tag(r.operation.kind)
           form == Forms[CanonicalForm(r, sender)]
           content == CompactContent(r, sender)
           AllKnown(x) == \A i \in DOMAIN x : x[i].id \in supported
<1>1. Encodable(r) /\ CompactSize(r, sender) <= MaxRecordOctets
  BY DEF CompactEncodable
<1>2. /\ content \in Seq(Octet) /\ tag \in Tags /\ Kinds[tag] = r.operation.kind
      /\ form \in Octet /\ CompactEncode(r, sender) = Framed(tag, form, content)
  BY <1>1, ContentFacts
<1>3. Len(Framed(tag, form, content)) <= MaxRecordOctets
  BY <1>1, <1>2, CompactEncodes
<1> HIDE DEF tag, form, content
<1>4. got = DecodeForm(tag, form, content, supported, receiver)
  BY <1>2, <1>3, DecodesFramed
<1>5. r.extensions = << >> => Received(r, supported) = r
  BY <1>1, ReceivedFacts
<1> HIDE DEF got
<1>6. CASE CanonicalForm(r, sender) = "Generic"
  <2>1. form = 0 /\ content = GenericContent(r) /\ ~Aliased(r)
    BY <1>6, FormNumbers, ContentOf, FormCases DEF form, content
  <2>2. got = DecodeGeneric(tag, content, supported)
    BY <1>4, <2>1, FormOutcome
  <2>3. Encode(r) = Frame(tag, Len(content)) \o content
    BY <1>1, <2>1, GenericContents DEF tag
  <2>4. Decode(Frame(tag, Len(content)) \o content, supported) =
           IF Admissible(r.extensions, supported) THEN <<Received(r, supported)>> ELSE << >>
    BY <1>1, <2>3, B1Receives
  <2>5. AllKnown(r.extensions) => Received(r, supported) = r /\ Admissible(r.extensions, supported)
    BY <1>1, B1Receives
  <2> DEFINE read == Decode(Frame(tag, Len(content)) \o content, supported)
  <2>6. /\ read = << >> => DecodeGeneric(tag, content, supported) = << >>
        /\ read # << >> /\ Aliased(read[1]) => DecodeGeneric(tag, content, supported) = << >>
        /\ read # << >> /\ ~Aliased(read[1]) => DecodeGeneric(tag, content, supported) = read
    BY GenericOutcome
  <2>7. read = << >> \/ (read = <<Received(r, supported)>> /\ read # << >>
                            /\ read[1] = Received(r, supported))
    BY <2>4
  <2>8. AllKnown(r.extensions) => read # << >> /\ read[1] = r
    BY <2>4, <2>5
  <2> HIDE DEF read, AllKnown
  <2> QED
    BY <2>1, <2>2, <2>6, <2>7, <2>8 DEF AllKnown, got
<1>7. CASE CanonicalForm(r, sender) = "ProfileCapabilities"
  <2>1. /\ form = 1 /\ content = << >> /\ Kinds[tag] = "CAPABILITIES"
        /\ r.extensions = << >> /\ r = Plain("CAPABILITIES", ProfileCapabilities)
    BY <1>2, <1>7, FormNumbers, ContentOf, FormCases, Profiles DEF form, content
  <2>2. got = <<Plain("CAPABILITIES", ProfileCapabilities)>>
    BY <1>4, <2>1, FormOutcome
  <2>3. got = <<Received(r, supported)>> /\ got # << >>
    BY <1>5, <2>1, <2>2
  <2> QED
    BY <2>3 DEF got
<1>8. CASE CanonicalForm(r, sender) = "CachedSummary"
  <2> DEFINE s == r.operation.body
  <2>1. /\ form = 2 /\ content = SummaryBinding(s) /\ Kinds[tag] = "SUMMARY"
        /\ r.extensions = << >> /\ s \in Summary /\ r = Plain("SUMMARY", s) /\ sender = <<s>>
    BY <1>2, <1>8, FormNumbers, ContentOf, FormCases, Summaries DEF form, content
  <2>2. got = DecodeCachedSummary(content, receiver)
    BY <1>4, <2>1, FormOutcome
  <2> HIDE DEF s
  <2>3. got = IF receiver = <<s>> THEN <<Plain("SUMMARY", s)>> ELSE << >>
    BY <2>1, <2>2, CachedOutcome
  <2>4. got = << >> \/ got = <<Received(r, supported)>>
    BY <1>5, <2>1, <2>3
  <2>5. sender = receiver => got # << >>
    BY <2>1, <2>3
  <2> QED
    BY <2>4, <2>5 DEF got
<1>9. CASE CanonicalForm(r, sender) = "FullSummary"
  <2> DEFINE s == r.operation.body
  <2>1. /\ form = 1 /\ content = PutFullSummary(s) /\ Kinds[tag] = "SUMMARY"
        /\ r.extensions = << >> /\ s \in Summary /\ r = Plain("SUMMARY", s) /\ sender # <<s>>
    BY <1>2, <1>9, FormNumbers, ContentOf, FormCases, Summaries DEF form, content
  <2>2. got = DecodeFullSummary(content, receiver)
    BY <1>4, <2>1, FormOutcome
  <2> HIDE DEF s
  <2>3. got = IF receiver = <<s>> THEN << >> ELSE <<Plain("SUMMARY", s)>>
    BY <1>1, <1>2, <2>1, <2>2, FullSummaryOutcome
  <2>4. got = << >> \/ got = <<Received(r, supported)>>
    BY <1>5, <2>1, <2>3
  <2>5. sender = receiver => got # << >>
    BY <2>1, <2>3
  <2> QED
    BY <2>4, <2>5 DEF got
<1> QED
  BY <1>6, <1>7, <1>8, <1>9, FormCases

\* What a compact image decodes to is a record the codec encodes, and when
\* every extension is supported to these same octets.
LEMMA CompactDecoded ==
    ASSUME NEW w \in Seq(Octet), NEW supported, NEW cache, IsCache(cache),
           CompactDecode(w, supported, cache) # << >>
    PROVE  \E d : /\ IsRecord(d) /\ CompactEncodable(d, cache)
                  /\ CompactDecode(w, supported, cache) = <<d>>
                  /\ supported = U32 => CompactEncode(d, cache) = w
<1> DEFINE got == CompactDecode(w, supported, cache)
           Good(d) == /\ IsRecord(d) /\ CompactEncodable(d, cache) /\ got = <<d>>
                      /\ supported = U32 => CompactEncode(d, cache) = w
<1>1. PICK tag \in Tags, form \in Octet, content \in Seq(Octet) :
         /\ w = Framed(tag, form, content) /\ Len(w) <= MaxRecordOctets
         /\ got = DecodeForm(tag, form, content, supported, cache)
  BY DecodedIsFramed
<1>2. got # << >>
  OBVIOUS
<1>3. Tag(Kinds[tag]) = tag
  BY TagFacts
<1> HIDE DEF got
\* A record that is written to these octets again.
<1>4. ASSUME NEW d, IsRecord(d), Encodable(d), CompactEncode(d, cache) = w, got = <<d>>
      PROVE  Good(d)
  <2>1. Len(w) = CompactSize(d, cache)
    BY <1>4, CompactEncodes
  <2> QED
    BY <1>1, <1>4, <2>1 DEF CompactEncodable
<1> HIDE DEF Good
<1>5. ASSUME NEW d, IsRecord(d), Encodable(d), got = <<d>>, Kinds[tag] = d.operation.kind,
             form = Forms[CanonicalForm(d, cache)], content = CompactContent(d, cache)
      PROVE  \E e : Good(e)
  <2>1. CompactEncode(d, cache) = w
    BY <1>1, <1>3, <1>5, ContentFacts
  <2> QED
    BY <1>4, <1>5, <2>1
<1>6. CASE form = 0
  <2>1. got = DecodeGeneric(tag, content, supported)
    BY <1>1, <1>6, FormOutcome
  <2> DEFINE read == Decode(Frame(tag, Len(content)) \o content, supported)
  <2>2. /\ read = << >> => DecodeGeneric(tag, content, supported) = << >>
        /\ read # << >> /\ Aliased(read[1]) => DecodeGeneric(tag, content, supported) = << >>
        /\ read # << >> /\ ~Aliased(read[1]) => DecodeGeneric(tag, content, supported) = read
    BY GenericOutcome
  <2>3. read # << >> /\ ~Aliased(read[1]) /\ got = read
    BY <1>2, <2>1, <2>2
  <2>4. /\ 1 + Len(content) \in Nat /\ VarintSize(1 + Len(content)) \in Nat
        /\ Len(w) = 1 + VarintSize(1 + Len(content)) + (1 + Len(content))
    BY <1>1, FramedFacts
  <2>5. PICK c \in Nat, k \in Nat :
           c = Len(content) /\ k = VarintSize(1 + c) /\ Len(w) = 1 + k + (1 + c)
    BY <2>4
  <2>6. Len(content) \in U32
    <3>1. c <= MaxRecordOctets
      <4>1. c <= 1 + k + (1 + c)
        OBVIOUS
      <4> QED
        BY <1>1, <2>5, <4>1, Sizes
    <3>2. Width.u32 \in Nat
      BY WidthFacts
    <3> QED
      BY <2>5, <3>1, <3>2, Sizes, NumbersAreNaturals DEF U32
  <2>7. PICK r : /\ IsRecord(r) /\ Encodable(r) /\ r.operation.kind = Kinds[tag]
                 /\ content = GenericContent(r) /\ read = <<Received(r, supported)>>
    BY <2>3, <2>6, GenericDecoded
  <2> HIDE DEF read
  <2> DEFINE d == Received(r, supported)
  <2>8. /\ IsRecord(d) /\ Encodable(d) /\ got = <<d>> /\ ~Aliased(d)
        /\ d.operation.kind = Kinds[tag]
    <3>1. IsRecord(d) /\ Encodable(d)
      BY <2>7, B1Receives
    <3>2. d.operation = r.operation
      BY <2>7, ReceivedFacts
    <3>3. read[1] = d
      BY <2>7
    <3> QED
      BY <2>3, <2>7, <3>1, <3>2, <3>3
  <2>9. CompactSize(d, cache) <= MaxRecordOctets
    <3>1. PICK a \in Nat, b \in Nat, u \in Nat :
             /\ a = ExactEncodedSize(d) /\ b = ExactEncodedSize(r) /\ a <= b
             /\ u = EnvelopeOctets /\ u <= a /\ c = b - u
      <4>1. ExactEncodedSize(d) \in Nat /\ ExactEncodedSize(d) <= ExactEncodedSize(r)
        BY <2>7, ReceivedFacts
      <4>2. ExactEncodedSize(r) \in Nat
        BY <2>7, B1Encodes
      <4>3. ExactEncodedSize(d) >= EnvelopeOctets
        BY <2>8, B1Encodes
      <4>4. c = ExactEncodedSize(r) - EnvelopeOctets
        BY <2>5, <2>7, GenericContents
      <4> QED
        BY <4>1, <4>2, <4>3, <4>4, Sizes
    <3> HIDE DEF d
    <3>2. CompactBodySize(d, cache) = 1 + (a - u)
      BY <2>8, <3>1, FormCases, ContentOf
    <3>3. /\ 1 + (a - u) \in Nat /\ 1 + c \in Nat /\ 1 + (a - u) <= 1 + c
      BY <3>1
    <3>4. PICK body \in Nat : body = 1 + (a - u) /\ body <= 1 + c
      BY <3>3
    <3>5. VarintSize(body) \in Nat /\ VarintSize(body) <= k
      BY <2>5, <3>3, <3>4, VarintSizes
    <3>6. CompactSize(d, cache) = 1 + VarintSize(body) + body
      BY <3>2, <3>4 DEF CompactSize
    <3>7. PICK m \in Nat : m = VarintSize(body) /\ m <= k
      BY <3>5
    <3>8. 1 + m + body <= 1 + k + (1 + c)
      BY <3>4, <3>7
    <3>9. MaxRecordOctets \in Nat /\ 1 + k + (1 + c) <= MaxRecordOctets
      BY <1>1, <2>5, Sizes
    <3>10. 1 + m + body <= MaxRecordOctets
      BY <3>8, <3>9
    <3> QED
      BY <3>6, <3>7, <3>10
  <2>10. supported = U32 => CompactEncode(d, cache) = w
    <3> SUFFICES ASSUME supported = U32
                 PROVE  CompactEncode(d, cache) = w
      OBVIOUS
    <3>1. r.extensions \in Seq(Extension)
      BY <2>7 DEF IsRecord
    <3>2. \A i \in DOMAIN r.extensions : r.extensions[i].id \in supported
      <4>1. \A e \in Extension : e.id \in U32
        BY DEF Extension
      <4>2. \A i \in DOMAIN r.extensions : r.extensions[i] \in Extension
        BY <3>1
      <4> QED
        BY <4>1, <4>2
    <3>3. d = r
      BY <2>7, <3>2, B1Receives
    <3> HIDE DEF d
    <3>4. CanonicalForm(d, cache) = "Generic"
      BY <2>8, FormCases
    <3>5. form = Forms[CanonicalForm(d, cache)] /\ content = CompactContent(d, cache)
      BY <1>6, <2>7, <3>3, <3>4, FormNumbers, ContentOf
    <3> QED
      BY <1>1, <1>3, <2>8, <3>5, ContentFacts
  <2> QED
    BY <2>8, <2>9, <2>10 DEF CompactEncodable, got, Good
<1>7. CASE Kinds[tag] = "CAPABILITIES" /\ form = 1 /\ content = << >>
  <2> DEFINE d == Plain("CAPABILITIES", ProfileCapabilities)
  <2>1. got = <<d>>
    BY <1>1, <1>7, FormOutcome
  <2>2. IsRecord(d) /\ Encodable(d) /\ d.operation.kind = "CAPABILITIES"
        /\ d.operation.body = ProfileCapabilities /\ d.extensions = << >>
    BY PlainRecords, ProfileAssumption
  <2> HIDE DEF d
  <2>3. Aliased(d)
    BY <2>2 DEF Aliased
  <2>4. CanonicalForm(d, cache) = "ProfileCapabilities"
    <3>1. "CAPABILITIES" # "SUMMARY"
      OBVIOUS
    <3> QED
      BY <2>2, <2>3, <3>1, FormCases
  <2>5. form = Forms[CanonicalForm(d, cache)] /\ content = CompactContent(d, cache)
    BY <1>7, <2>4, FormNumbers, ContentOf
  <2>6. \E e : Good(e)
    BY <1>5, <1>7, <2>1, <2>2, <2>5
  <2> QED
    BY <2>6 DEF got, Good
<1>8. CASE Kinds[tag] = "SUMMARY" /\ form \in {1, 2}
  <2>1. PICK s \in Summary :
           /\ got = <<Plain("SUMMARY", s)>> /\ Encodable(Plain("SUMMARY", s))
           /\ \/ form = 2 /\ cache = <<s>> /\ content = SummaryBinding(s)
              \/ form = 1 /\ cache # <<s>> /\ content = PutFullSummary(s)
    <3>1. CASE form = 2
      <4>1. got = DecodeCachedSummary(content, cache)
        BY <1>1, <1>8, <3>1, FormOutcome
      <4> QED
        BY <1>2, <3>1, <4>1, CachedOutcome
    <3>2. CASE form = 1
      <4>1. got = DecodeFullSummary(content, cache)
        BY <1>1, <1>8, <3>2, FormOutcome
      <4> QED
        BY <1>2, <3>2, <4>1, FullSummaryOutcome
    <3> QED
      BY <1>8, <3>1, <3>2
  <2> DEFINE d == Plain("SUMMARY", s)
  <2>2. /\ IsRecord(d) /\ Encodable(d) /\ d.operation.kind = "SUMMARY"
        /\ d.operation.body = s /\ d.extensions = << >> /\ got = <<d>>
    BY <2>1, PlainRecords
  <2> HIDE DEF d
  <2>3. Aliased(d)
    BY <2>2 DEF Aliased
  <2>4. "CAPABILITIES" # "SUMMARY"
    OBVIOUS
  <2>5. ASSUME form = 2
        PROVE  \E e : Good(e)
    <3>1. cache = <<s>> /\ content = SummaryBinding(s)
      BY <2>1, <2>5
    <3>2. CanonicalForm(d, cache) = "CachedSummary"
      BY <2>2, <2>3, <2>4, <3>1, FormCases
    <3>3. form = Forms[CanonicalForm(d, cache)] /\ content = CompactContent(d, cache)
      BY <2>2, <2>5, <3>1, <3>2, FormNumbers, ContentOf
    <3> QED
      BY <1>5, <1>8, <2>2, <3>3
  <2>6. ASSUME form = 1
        PROVE  \E e : Good(e)
    <3>1. cache # <<s>> /\ content = PutFullSummary(s)
      BY <2>1, <2>6
    <3>2. CanonicalForm(d, cache) = "FullSummary"
      BY <2>2, <2>3, <2>4, <3>1, FormCases
    <3>3. form = Forms[CanonicalForm(d, cache)] /\ content = CompactContent(d, cache)
      BY <2>2, <2>6, <3>1, <3>2, FormNumbers, ContentOf
    <3> QED
      BY <1>5, <1>8, <2>2, <3>3
  <2>7. \E e : Good(e)
    BY <1>8, <2>5, <2>6
  <2> QED
    BY <2>7 DEF got, Good
<1> QED
  BY <1>1, <1>2, <1>6, <1>7, <1>8, FormOutcome

\* The compact codec's declared maximum bounds what it encodes.
LEMMA CompactMaximum ==
    ASSUME NEW r, IsRecord(r), Encodable(r), NEW cache
    PROVE  CompactSize(r, cache) <= CompactDeclaredMaximum(r.operation.kind)
<1> DEFINE body == CompactBodySize(r, cache)
           most == 1 + DeclaredMaximum(r.operation.kind) - EnvelopeOctets
<1>1. PICK u \in Nat, e \in Nat, m \in Nat :
         /\ u = EnvelopeOctets /\ e = ExactEncodedSize(r)
         /\ m = DeclaredMaximum(r.operation.kind) /\ u <= e /\ e <= m
  <2>1. ExactEncodedSize(r) \in Nat /\ ExactEncodedSize(r) >= EnvelopeOctets
    BY B1Encodes
  <2>2. /\ ExactEncodedSize(r) <= DeclaredMaximum(r.operation.kind)
        /\ DeclaredMaximum(r.operation.kind) \in Nat
    BY B1Maximum
  <2> QED
    BY <2>1, <2>2, Sizes
<1>2. most \in Nat /\ most = 1 + m - u /\ 1 + (e - u) <= most /\ most > 0
  BY <1>1
<1>3. body \in Nat /\ body = 1 + Len(CompactContent(r, cache))
  BY ContentFacts
<1> HIDE DEF body, most
<1>4. ASSUME r.operation.kind = "SUMMARY"
      PROVE  /\ most = 1 + 2 * Width.id + 2 * Width.u64 + MaximumExtensions
             /\ MaximumExtensions \in Nat /\ MaximumExtensions > 0
             /\ Width.id \in Nat /\ Width.u64 \in Nat
  <2>1. DeclaredMaximum("SUMMARY") = EnvelopeOctets + MaximumPayload("SUMMARY") + MaximumExtensions
    <3>1. "SUMMARY" # "DATA"
      OBVIOUS
    <3> QED
      BY <3>1 DEF DeclaredMaximum
  <2>2. MaximumPayload("SUMMARY") = 2 * Width.id + 2 * Width.u64
    BY DEF MaximumPayload
  <2>3. << >> \in FitExtensions
    BY LimitsAssumption DEF FitExtensions, Lists
  <2>4. ExtensionsSize(<< >>) = 1
    BY ExtensionSizes DEF ExtensionsSize
  <2>5. PICK x \in Nat : x = MaximumExtensions /\ 1 <= x
    BY <2>3, <2>4, ExtensionsMaximum
  <2>6. PICK i \in Nat, n \in Nat : i = Width.id /\ n = Width.u64
    BY WidthFacts
  <2>7. m = u + (2 * i + 2 * n) + x
    BY <1>1, <1>4, <2>1, <2>2, <2>5, <2>6
  <2>8. most = 1 + 2 * i + 2 * n + x
    BY <1>2, <2>7
  <2> QED
    BY <2>5, <2>6, <2>8
<1>5. body <= most
  <2>1. CASE CanonicalForm(r, cache) = "Generic"
    BY <1>1, <1>2, <2>1, ContentOf DEF body
  <2>2. CASE CanonicalForm(r, cache) = "ProfileCapabilities"
    <3>1. body = 1
      BY <2>2, ContentOf DEF body
    <3> QED
      BY <1>2, <3>1
  <2>3. CASE CanonicalForm(r, cache) = "CachedSummary"
    <3>1. body = 1 + BindingOctets /\ r.operation.kind = "SUMMARY"
      BY <2>3, ContentOf, FormCases DEF body
    <3>2. PICK i \in Nat, n \in Nat, x \in Nat :
             /\ i = Width.id /\ n = Width.u64 /\ x = MaximumExtensions
             /\ most = 1 + 2 * i + 2 * n + x
      BY <1>4, <3>1
    <3>3. body = 1 + (2 * i + 2 * n)
      BY <3>1, <3>2 DEF BindingOctets
    <3> QED
      BY <3>2, <3>3
  <2>4. CASE CanonicalForm(r, cache) = "FullSummary"
    <3> DEFINE v == r.operation.body
               longest == VarintSize(Pow256[Width.u64] - 1)
    <3>1. /\ body = 1 + Width.id + VarintSize(v.generation) + VarintSize(v.item_count) + Width.id
          /\ r.operation.kind = "SUMMARY" /\ v \in Summary
      BY <2>4, ContentOf, FormCases, Summaries DEF body
    <3>2. v.generation \in U64 /\ v.item_count \in U64
      BY <3>1 DEF Summary
    <3>3. PICK g \in Nat, c \in Nat, l \in Nat :
             /\ g = VarintSize(v.generation) /\ c = VarintSize(v.item_count)
             /\ l = longest /\ g <= l /\ c <= l
      BY <3>2, LongestVarint
    <3>4. PICK i \in Nat, n \in Nat, x \in Nat :
             /\ i = Width.id /\ n = Width.u64 /\ x = MaximumExtensions
             /\ most = 1 + 2 * i + 2 * n + x
      BY <1>4, <3>1
    <3>5. 2 * l <= 2 * n + x
      BY <3>3, <3>4, VarintAssumption
    <3> HIDE DEF v, longest
    <3>6. body = 1 + i + g + c + i
      BY <3>1, <3>3, <3>4
    <3>7. 1 + i + g + c + i <= 1 + 2 * i + 2 * n + x
      BY <3>3, <3>5
    <3> QED
      BY <3>4, <3>6, <3>7
  <2> QED
    BY <2>1, <2>2, <2>3, <2>4, FormCases
<1>6. VarintSize(body) \in Nat /\ VarintSize(most) \in Nat /\ VarintSize(body) <= VarintSize(most)
  BY <1>2, <1>3, <1>5, VarintSizes
<1>7. 1 + VarintSize(body) + body <= 1 + VarintSize(most) + most
  <2>1. PICK a \in Nat, b \in Nat, c \in Nat, d \in Nat :
           a = VarintSize(body) /\ b = VarintSize(most) /\ a <= b /\ c = body /\ d = most /\ c <= d
    BY <1>2, <1>3, <1>5, <1>6
  <2>2. 1 + a + c <= 1 + b + d
    BY <2>1
  <2> QED
    BY <2>1, <2>2
<1> QED
  BY <1>7 DEF CompactSize, CompactDeclaredMaximum, body, most

---------------------------------------------------------------------------
(* The codec of generation 0, B0.                                          *)

Selected(S) == Accepted(OctetImage, S)

LEMMA SelectedWrites ==
    ASSUME NEW S \in {RepresentationKinds, ReceiptStages}
    PROVE  /\ DOMAIN Selected(S) = S
           /\ \A x \in S : Writes(Selected(S), x, <<x>>, 1)
<1>1. \A x \in S : x \in Octet
  BY DEF RepresentationKinds, ReceiptStages, Octet
<1>2. DOMAIN Selected(S) = {x \in DOMAIN OctetImage : x \in S}
  BY DEF Selected, Accepted
<1>3. DOMAIN Selected(S) = S
  BY <1>1, <1>2, OctetWrites
<1>4. \A x \in S : Selected(S)[x] = OctetImage[x]
  BY <1>1, OctetWrites DEF Selected, Accepted
<1> QED
  BY <1>1, <1>3, <1>4, OctetWrites DEF Writes

LEMMA KindWrites ==
    /\ DOMAIN Selected(RepresentationKinds) = RepresentationKinds
    /\ \A x \in RepresentationKinds : Writes(Selected(RepresentationKinds), x, <<x>>, 1)
BY SelectedWrites

LEMMA StageWrites ==
    /\ DOMAIN Selected(ReceiptStages) = ReceiptStages
    /\ \A x \in ReceiptStages : Writes(Selected(ReceiptStages), x, <<x>>, 1)
BY SelectedWrites

LEMMA BlockWrites ==
    ASSUME NEW n \in Nat
    PROVE  /\ DOMAIN BlockImage(n) = Blocks(n)
           /\ \A x \in Blocks(n) : Writes(BlockImage(n), x, x, Len(x))
BY DEF BlockImage, Blocks, Writes

ExperimentalBody(kind, v) == ExperimentalPayload([kind |-> kind, body |-> v])

V0CapabilitiesNames == << "encoding_generation", "max_record_size", "features" >>
V0CapabilitiesPuts ==
    << OctetImage, U16Image, OctetImage >>
V0Capabilities ==
    [ encoding_generation : Octet, max_record_size : U16,
      features : Octet ]
V0CapabilitiesImage == [v \in V0Capabilities |-> ExperimentalBody("CAPABILITIES", v)]

LEMMA V0CapabilitiesFields ==
    /\ Assembles(3, V0CapabilitiesNames, V0CapabilitiesPuts, V0CapabilitiesImage)
    /\ \A v \in V0Capabilities :
          /\ ExperimentalBody("CAPABILITIES", v) \in Seq(Octet)
          /\ Len(ExperimentalBody("CAPABILITIES", v)) =
                1 + Width.u16 +
                1
<1>1. \A i \in 1 .. 3 : \A j \in 1 .. 3 : V0CapabilitiesNames[i] = V0CapabilitiesNames[j] => i = j
  BY DEF V0CapabilitiesNames
<1>2. Fields(V0CapabilitiesNames, 3) =
         {"encoding_generation",
          "max_record_size", "features"}
  BY DEF V0CapabilitiesNames, Fields
<1>3. /\ DOMAIN V0CapabilitiesPuts[1] = Octet
      /\ DOMAIN V0CapabilitiesPuts[2] = U16
      /\ DOMAIN V0CapabilitiesPuts[3] = Octet
  BY OctetWrites, WidthWrites DEF V0CapabilitiesPuts
<1>4. ASSUME NEW v \in V0Capabilities
      PROVE  /\ Writes(V0CapabilitiesPuts[1], v.encoding_generation,
                       <<v.encoding_generation>>, 1)
             /\ Writes(V0CapabilitiesPuts[2], v.max_record_size,
                       PutU16(v.max_record_size), Width.u16)
             /\ Writes(V0CapabilitiesPuts[3], v.features,
                       <<v.features>>, 1)
  BY OctetWrites, WidthWrites DEF V0CapabilitiesPuts, V0Capabilities
<1>5. ASSUME NEW v \in V0Capabilities
      PROVE  /\ v = [name \in Fields(V0CapabilitiesNames, 3) |-> v[name]]
             /\ \A i \in 1 .. 3 : v[V0CapabilitiesNames[i]] \in DOMAIN V0CapabilitiesPuts[i]
             /\ ExperimentalBody("CAPABILITIES", v) =
                   FlattenSeq([i \in 1 .. 3 |-> V0CapabilitiesPuts[i][v[V0CapabilitiesNames[i]]]])
             /\ ExperimentalBody("CAPABILITIES", v) \in Seq(Octet)
             /\ Len(ExperimentalBody("CAPABILITIES", v)) =
                   1 +
                   Width.u16 + 1
  <2> DEFINE image ==
             << <<v.encoding_generation>>,
                PutU16(v.max_record_size), <<v.features>> >>
             size ==
             << 1, Width.u16, 1 >>
  <2>1. v = [name \in {"encoding_generation", "max_record_size", "features"} |-> v[name]]
    BY DEF V0Capabilities
  <2>2. \A i \in 1 .. 3 : Writes(V0CapabilitiesPuts[i], v[V0CapabilitiesNames[i]], image[i], size[i])
    <3>1. Writes(V0CapabilitiesPuts[1], v[V0CapabilitiesNames[1]], image[1], size[1])
      BY <1>4 DEF V0CapabilitiesNames
    <3>2. Writes(V0CapabilitiesPuts[2], v[V0CapabilitiesNames[2]], image[2], size[2])
      BY <1>4 DEF V0CapabilitiesNames
    <3>3. Writes(V0CapabilitiesPuts[3], v[V0CapabilitiesNames[3]], image[3], size[3])
      BY <1>4 DEF V0CapabilitiesNames
    <3> HIDE DEF image, size
    <3> QED
      BY <3>1, <3>2, <3>3
  <2>3. ExperimentalBody("CAPABILITIES", v) = image[1] \o image[2] \o image[3]
    BY DEF ExperimentalBody, ExperimentalPayload
  <2>4. size[1] + size[2] + size[3] =
          1 + Width.u16 + 1
    OBVIOUS
  <2>5. image = [i \in 1 .. 3 |-> image[i]]
    OBVIOUS
  <2> HIDE DEF image, size
  <2>6. /\ \A i \in 1 .. 3 : v[V0CapabilitiesNames[i]] \in DOMAIN V0CapabilitiesPuts[i]
        /\ [i \in 1 .. 3 |-> V0CapabilitiesPuts[i][v[V0CapabilitiesNames[i]]]] = image
        /\ image \in [1 .. 3 -> Seq(Octet)]
        /\ \A i \in 1 .. 3 : Len(image[i]) = size[i]
    <3>1. \A i \in 1 .. 3 :
             /\ v[V0CapabilitiesNames[i]] \in DOMAIN V0CapabilitiesPuts[i]
             /\ V0CapabilitiesPuts[i][v[V0CapabilitiesNames[i]]] = image[i]
             /\ image[i] \in Seq(Octet) /\ Len(image[i]) = size[i]
      BY <2>2 DEF Writes
    <3>2. [i \in 1 .. 3 |-> V0CapabilitiesPuts[i][v[V0CapabilitiesNames[i]]]] = [i \in 1 .. 3 |-> image[i]]
      BY <3>1
    <3>3. [i \in 1 .. 3 |-> image[i]] \in [1 .. 3 -> Seq(Octet)]
      BY <3>1
    <3> QED
      BY <2>5, <3>1, <3>2, <3>3
  <2>7. /\ FlattenSeq(image) \in Seq(Octet)
        /\ FlattenSeq(image) = image[1] \o image[2] \o image[3]
        /\ Len(FlattenSeq(image)) = Len(image[1]) + Len(image[2]) + Len(image[3])
    BY <2>6, Parts3
  <2>8. /\ Len(image[1]) = size[1]
        /\ Len(image[2]) = size[2]
        /\ Len(image[3]) = size[3]
    BY <2>6
  <2>9. Len(FlattenSeq(image)) = size[1] + size[2] + size[3]
    BY <2>7, <2>8
  <2> QED
    BY <1>2, <2>1, <2>3, <2>4, <2>6, <2>7, <2>9
<1>6. ASSUME NEW values \in Tuples(V0CapabilitiesPuts, 3)
      PROVE  \E v \in V0Capabilities : \A i \in 1 .. 3 : v[V0CapabilitiesNames[i]] = values[i]
  <2>1. /\ values[1] \in Octet
        /\ values[2] \in U16
        /\ values[3] \in Octet
    BY <1>3 DEF Tuples
  <2> DEFINE v == [ encoding_generation |-> values[1], max_record_size |-> values[2],
                    features |-> values[3] ]
  <2>2. v \in V0Capabilities
    BY <2>1 DEF V0Capabilities
  <2>3. \A i \in 1 .. 3 : v[V0CapabilitiesNames[i]] = values[i]
    BY DEF V0CapabilitiesNames
  <2> HIDE DEF v
  <2> QED
    BY <2>2, <2>3
<1>7. DOMAIN V0CapabilitiesImage = V0Capabilities /\ \A v \in V0Capabilities : V0CapabilitiesImage[v] = ExperimentalBody("CAPABILITIES", v)
  BY DEF V0CapabilitiesImage
<1> QED
  BY <1>1, <1>5, <1>6, <1>7 DEF Assembles

LEMMA ReadsV0Capabilities ==
    ASSUME NEW w \in Seq(Octet)
    PROVE  Reads(w, TakeFields(<< <<"encoding_generation", TakeU8(w)>>, <<"max_record_size", TakeU16(w)>>,
              <<"features", TakeU8(w)>> >>), V0CapabilitiesImage)
<1> DEFINE fields ==
         << <<"encoding_generation", TakeU8(w)>>,
            <<"max_record_size", TakeU16(w)>>, <<"features", TakeU8(w)>> >>
<1>1. fields[1][1] = V0CapabilitiesNames[1] /\ Reads(w, fields[1][2], V0CapabilitiesPuts[1])
  <2>1. Reads(w, TakeU8(w), OctetImage)
    BY ReadsU8
  <2>2. fields[1] = <<"encoding_generation", TakeU8(w)>>
    OBVIOUS
  <2> HIDE DEF fields
  <2> QED
    BY <2>1, <2>2 DEF V0CapabilitiesNames, V0CapabilitiesPuts
<1>2. fields[2][1] = V0CapabilitiesNames[2] /\ Reads(w, fields[2][2], V0CapabilitiesPuts[2])
  <2>1. Reads(w, TakeU16(w), U16Image)
    BY ReadsWidths
  <2>2. fields[2] = <<"max_record_size", TakeU16(w)>>
    OBVIOUS
  <2> HIDE DEF fields
  <2> QED
    BY <2>1, <2>2 DEF V0CapabilitiesNames, V0CapabilitiesPuts
<1>3. fields[3][1] = V0CapabilitiesNames[3] /\ Reads(w, fields[3][2], V0CapabilitiesPuts[3])
  <2>1. Reads(w, TakeU8(w), OctetImage)
    BY ReadsU8
  <2>2. fields[3] = <<"features", TakeU8(w)>>
    OBVIOUS
  <2> HIDE DEF fields
  <2> QED
    BY <2>1, <2>2 DEF V0CapabilitiesNames, V0CapabilitiesPuts
<1>4. DOMAIN fields = 1 .. 3 /\ 3 \in Nat
  OBVIOUS
<1>5. TakeFields(<< <<"encoding_generation", TakeU8(w)>>, <<"max_record_size", TakeU16(w)>>,
              <<"features", TakeU8(w)>> >>) = TakeFields(fields)
  OBVIOUS
<1> HIDE DEF fields
<1>6. FieldsRead(w, 3, fields, V0CapabilitiesNames, V0CapabilitiesPuts)
  BY <1>1, <1>2, <1>3 DEF FieldsRead
<1>7. Assembles(3, V0CapabilitiesNames, V0CapabilitiesPuts, V0CapabilitiesImage)
  BY V0CapabilitiesFields
<1>8. Reads(w, TakeFields(fields), V0CapabilitiesImage)
  BY <1>4, <1>6, <1>7, ReadsFields
<1> QED
  BY <1>5, <1>8

V0SummaryNames == << "item_count", "digest" >>
V0SummaryPuts ==
    << U64Image, Id16Image >>
V0Summary ==
    [ item_count : U64, digest : Id16 ]
V0SummaryImage == [v \in V0Summary |-> ExperimentalBody("SUMMARY", v)]

LEMMA V0SummaryFields ==
    /\ Assembles(2, V0SummaryNames, V0SummaryPuts, V0SummaryImage)
    /\ \A v \in V0Summary :
          /\ ExperimentalBody("SUMMARY", v) \in Seq(Octet)
          /\ Len(ExperimentalBody("SUMMARY", v)) =
                Width.u64 +
                Width.id16
<1>1. \A i \in 1 .. 2 : \A j \in 1 .. 2 : V0SummaryNames[i] = V0SummaryNames[j] => i = j
  BY DEF V0SummaryNames
<1>2. Fields(V0SummaryNames, 2) =
         {"item_count", "digest"}
  BY DEF V0SummaryNames, Fields
<1>3. /\ DOMAIN V0SummaryPuts[1] = U64
      /\ DOMAIN V0SummaryPuts[2] = Id16
  BY WidthWrites DEF V0SummaryPuts
<1>4. ASSUME NEW v \in V0Summary
      PROVE  /\ Writes(V0SummaryPuts[1], v.item_count,
                       PutU64(v.item_count), Width.u64)
             /\ Writes(V0SummaryPuts[2], v.digest,
                       PutId16(v.digest), Width.id16)
  BY WidthWrites DEF V0SummaryPuts, V0Summary
<1>5. ASSUME NEW v \in V0Summary
      PROVE  /\ v = [name \in Fields(V0SummaryNames, 2) |-> v[name]]
             /\ \A i \in 1 .. 2 : v[V0SummaryNames[i]] \in DOMAIN V0SummaryPuts[i]
             /\ ExperimentalBody("SUMMARY", v) =
                   FlattenSeq([i \in 1 .. 2 |-> V0SummaryPuts[i][v[V0SummaryNames[i]]]])
             /\ ExperimentalBody("SUMMARY", v) \in Seq(Octet)
             /\ Len(ExperimentalBody("SUMMARY", v)) =
                   Width.u64 +
                   Width.id16
  <2> DEFINE image ==
             << PutU64(v.item_count), PutId16(v.digest) >>
             size ==
             << Width.u64, Width.id16 >>
  <2>1. v = [name \in {"item_count", "digest"} |-> v[name]]
    BY DEF V0Summary
  <2>2. \A i \in 1 .. 2 : Writes(V0SummaryPuts[i], v[V0SummaryNames[i]], image[i], size[i])
    <3>1. Writes(V0SummaryPuts[1], v[V0SummaryNames[1]], image[1], size[1])
      BY <1>4 DEF V0SummaryNames
    <3>2. Writes(V0SummaryPuts[2], v[V0SummaryNames[2]], image[2], size[2])
      BY <1>4 DEF V0SummaryNames
    <3> HIDE DEF image, size
    <3> QED
      BY <3>1, <3>2
  <2>3. ExperimentalBody("SUMMARY", v) = image[1] \o image[2]
    BY DEF ExperimentalBody, ExperimentalPayload
  <2>4. size[1] + size[2] =
          Width.u64 + Width.id16
    OBVIOUS
  <2>5. image = [i \in 1 .. 2 |-> image[i]]
    OBVIOUS
  <2> HIDE DEF image, size
  <2>6. /\ \A i \in 1 .. 2 : v[V0SummaryNames[i]] \in DOMAIN V0SummaryPuts[i]
        /\ [i \in 1 .. 2 |-> V0SummaryPuts[i][v[V0SummaryNames[i]]]] = image
        /\ image \in [1 .. 2 -> Seq(Octet)]
        /\ \A i \in 1 .. 2 : Len(image[i]) = size[i]
    <3>1. \A i \in 1 .. 2 :
             /\ v[V0SummaryNames[i]] \in DOMAIN V0SummaryPuts[i]
             /\ V0SummaryPuts[i][v[V0SummaryNames[i]]] = image[i]
             /\ image[i] \in Seq(Octet) /\ Len(image[i]) = size[i]
      BY <2>2 DEF Writes
    <3>2. [i \in 1 .. 2 |-> V0SummaryPuts[i][v[V0SummaryNames[i]]]] = [i \in 1 .. 2 |-> image[i]]
      BY <3>1
    <3>3. [i \in 1 .. 2 |-> image[i]] \in [1 .. 2 -> Seq(Octet)]
      BY <3>1
    <3> QED
      BY <2>5, <3>1, <3>2, <3>3
  <2>7. /\ FlattenSeq(image) \in Seq(Octet)
        /\ FlattenSeq(image) = image[1] \o image[2]
        /\ Len(FlattenSeq(image)) = Len(image[1]) + Len(image[2])
    BY <2>6, Parts2
  <2>8. /\ Len(image[1]) = size[1]
        /\ Len(image[2]) = size[2]
    BY <2>6
  <2>9. Len(FlattenSeq(image)) = size[1] + size[2]
    BY <2>7, <2>8
  <2> QED
    BY <1>2, <2>1, <2>3, <2>4, <2>6, <2>7, <2>9
<1>6. ASSUME NEW values \in Tuples(V0SummaryPuts, 2)
      PROVE  \E v \in V0Summary : \A i \in 1 .. 2 : v[V0SummaryNames[i]] = values[i]
  <2>1. /\ values[1] \in U64
        /\ values[2] \in Id16
    BY <1>3 DEF Tuples
  <2> DEFINE v == [ item_count |-> values[1], digest |-> values[2] ]
  <2>2. v \in V0Summary
    BY <2>1 DEF V0Summary
  <2>3. \A i \in 1 .. 2 : v[V0SummaryNames[i]] = values[i]
    BY DEF V0SummaryNames
  <2> HIDE DEF v
  <2> QED
    BY <2>2, <2>3
<1>7. DOMAIN V0SummaryImage = V0Summary /\ \A v \in V0Summary : V0SummaryImage[v] = ExperimentalBody("SUMMARY", v)
  BY DEF V0SummaryImage
<1> QED
  BY <1>1, <1>5, <1>6, <1>7 DEF Assembles

LEMMA ReadsV0Summary ==
    ASSUME NEW w \in Seq(Octet)
    PROVE  Reads(w, TakeFields(<< <<"item_count", TakeU64(w)>>, <<"digest", TakeId16(w)>> >>), V0SummaryImage)
<1> DEFINE fields ==
         << <<"item_count", TakeU64(w)>>, <<"digest", TakeId16(w)>> >>
<1>1. fields[1][1] = V0SummaryNames[1] /\ Reads(w, fields[1][2], V0SummaryPuts[1])
  <2>1. Reads(w, TakeU64(w), U64Image)
    BY ReadsWidths
  <2>2. fields[1] = <<"item_count", TakeU64(w)>>
    OBVIOUS
  <2> HIDE DEF fields
  <2> QED
    BY <2>1, <2>2 DEF V0SummaryNames, V0SummaryPuts
<1>2. fields[2][1] = V0SummaryNames[2] /\ Reads(w, fields[2][2], V0SummaryPuts[2])
  <2>1. Reads(w, TakeId16(w), Id16Image)
    BY ReadsWidths
  <2>2. fields[2] = <<"digest", TakeId16(w)>>
    OBVIOUS
  <2> HIDE DEF fields
  <2> QED
    BY <2>1, <2>2 DEF V0SummaryNames, V0SummaryPuts
<1>3. DOMAIN fields = 1 .. 2 /\ 2 \in Nat
  OBVIOUS
<1>4. TakeFields(<< <<"item_count", TakeU64(w)>>, <<"digest", TakeId16(w)>> >>) = TakeFields(fields)
  OBVIOUS
<1> HIDE DEF fields
<1>5. FieldsRead(w, 2, fields, V0SummaryNames, V0SummaryPuts)
  BY <1>1, <1>2 DEF FieldsRead
<1>6. Assembles(2, V0SummaryNames, V0SummaryPuts, V0SummaryImage)
  BY V0SummaryFields
<1>7. Reads(w, TakeFields(fields), V0SummaryImage)
  BY <1>3, <1>5, <1>6, ReadsFields
<1> QED
  BY <1>4, <1>7

V0OfferNames == << "representation_id", "kind", "size", "digest", "schema_fingerprint" >>
V0OfferPuts ==
    << Id16Image, Selected(RepresentationKinds), U64Image, IdImage,
       Id16Image >>
V0Offer ==
    [ representation_id : Id16, kind : RepresentationKinds, size : U64,
      digest : Id, schema_fingerprint : Id16 ]
V0OfferImage == [v \in V0Offer |-> ExperimentalBody("OFFER", v)]

LEMMA V0OfferFields ==
    /\ Assembles(5, V0OfferNames, V0OfferPuts, V0OfferImage)
    /\ \A v \in V0Offer :
          /\ ExperimentalBody("OFFER", v) \in Seq(Octet)
          /\ Len(ExperimentalBody("OFFER", v)) =
                Width.id16 + 1 +
                Width.u64 + Width.id + Width.id16
<1>1. \A i \in 1 .. 5 : \A j \in 1 .. 5 : V0OfferNames[i] = V0OfferNames[j] => i = j
  BY DEF V0OfferNames
<1>2. Fields(V0OfferNames, 5) =
         {"representation_id", "kind", "size", "digest",
          "schema_fingerprint"}
  BY DEF V0OfferNames, Fields
<1>3. /\ DOMAIN V0OfferPuts[1] = Id16
      /\ DOMAIN V0OfferPuts[2] = RepresentationKinds
      /\ DOMAIN V0OfferPuts[3] = U64
      /\ DOMAIN V0OfferPuts[4] = Id
      /\ DOMAIN V0OfferPuts[5] = Id16
  BY WidthWrites, KindWrites DEF V0OfferPuts
<1>4. ASSUME NEW v \in V0Offer
      PROVE  /\ Writes(V0OfferPuts[1], v.representation_id,
                       PutId16(v.representation_id), Width.id16)
             /\ Writes(V0OfferPuts[2], v.kind,
                       <<v.kind>>, 1)
             /\ Writes(V0OfferPuts[3], v.size,
                       PutU64(v.size), Width.u64)
             /\ Writes(V0OfferPuts[4], v.digest,
                       PutId(v.digest), Width.id)
             /\ Writes(V0OfferPuts[5], v.schema_fingerprint,
                       PutId16(v.schema_fingerprint), Width.id16)
  BY WidthWrites, KindWrites DEF V0OfferPuts, V0Offer
<1>5. ASSUME NEW v \in V0Offer
      PROVE  /\ v = [name \in Fields(V0OfferNames, 5) |-> v[name]]
             /\ \A i \in 1 .. 5 : v[V0OfferNames[i]] \in DOMAIN V0OfferPuts[i]
             /\ ExperimentalBody("OFFER", v) =
                   FlattenSeq([i \in 1 .. 5 |-> V0OfferPuts[i][v[V0OfferNames[i]]]])
             /\ ExperimentalBody("OFFER", v) \in Seq(Octet)
             /\ Len(ExperimentalBody("OFFER", v)) =
                   Width.id16 + 1 +
                   Width.u64 + Width.id + Width.id16
  <2> DEFINE image ==
             << PutId16(v.representation_id), <<v.kind>>,
                PutU64(v.size), PutId(v.digest), PutId16(v.schema_fingerprint) >>
             size ==
             << Width.id16, 1, Width.u64, Width.id, Width.id16 >>
  <2>1. v = [name \in {"representation_id", "kind", "size", "digest",
                  "schema_fingerprint"} |-> v[name]]
    BY DEF V0Offer
  <2>2. \A i \in 1 .. 5 : Writes(V0OfferPuts[i], v[V0OfferNames[i]], image[i], size[i])
    <3>1. Writes(V0OfferPuts[1], v[V0OfferNames[1]], image[1], size[1])
      BY <1>4 DEF V0OfferNames
    <3>2. Writes(V0OfferPuts[2], v[V0OfferNames[2]], image[2], size[2])
      BY <1>4 DEF V0OfferNames
    <3>3. Writes(V0OfferPuts[3], v[V0OfferNames[3]], image[3], size[3])
      BY <1>4 DEF V0OfferNames
    <3>4. Writes(V0OfferPuts[4], v[V0OfferNames[4]], image[4], size[4])
      BY <1>4 DEF V0OfferNames
    <3>5. Writes(V0OfferPuts[5], v[V0OfferNames[5]], image[5], size[5])
      BY <1>4 DEF V0OfferNames
    <3> HIDE DEF image, size
    <3> QED
      BY <3>1, <3>2, <3>3, <3>4, <3>5
  <2>3. ExperimentalBody("OFFER", v) = image[1] \o image[2] \o image[3] \o image[4] \o
            image[5]
    BY DEF ExperimentalBody, ExperimentalPayload
  <2>4. size[1] + size[2] + size[3] + size[4] + size[5] =
          Width.id16 + 1 + Width.u64 + Width.id + Width.id16
    OBVIOUS
  <2>5. image = [i \in 1 .. 5 |-> image[i]]
    OBVIOUS
  <2> HIDE DEF image, size
  <2>6. /\ \A i \in 1 .. 5 : v[V0OfferNames[i]] \in DOMAIN V0OfferPuts[i]
        /\ [i \in 1 .. 5 |-> V0OfferPuts[i][v[V0OfferNames[i]]]] = image
        /\ image \in [1 .. 5 -> Seq(Octet)]
        /\ \A i \in 1 .. 5 : Len(image[i]) = size[i]
    <3>1. \A i \in 1 .. 5 :
             /\ v[V0OfferNames[i]] \in DOMAIN V0OfferPuts[i]
             /\ V0OfferPuts[i][v[V0OfferNames[i]]] = image[i]
             /\ image[i] \in Seq(Octet) /\ Len(image[i]) = size[i]
      BY <2>2 DEF Writes
    <3>2. [i \in 1 .. 5 |-> V0OfferPuts[i][v[V0OfferNames[i]]]] = [i \in 1 .. 5 |-> image[i]]
      BY <3>1
    <3>3. [i \in 1 .. 5 |-> image[i]] \in [1 .. 5 -> Seq(Octet)]
      BY <3>1
    <3> QED
      BY <2>5, <3>1, <3>2, <3>3
  <2>7. /\ FlattenSeq(image) \in Seq(Octet)
        /\ FlattenSeq(image) = image[1] \o image[2] \o image[3] \o image[4] \o image[5]
        /\ Len(FlattenSeq(image)) = Len(image[1]) + Len(image[2]) + Len(image[3]) +
                                    Len(image[4]) + Len(image[5])
    BY <2>6, Parts5
  <2>8. /\ Len(image[1]) = size[1]
        /\ Len(image[2]) = size[2]
        /\ Len(image[3]) = size[3]
        /\ Len(image[4]) = size[4]
        /\ Len(image[5]) = size[5]
    BY <2>6
  <2>9. Len(FlattenSeq(image)) = size[1] + size[2] + size[3] + size[4] + size[5]
    BY <2>7, <2>8
  <2> QED
    BY <1>2, <2>1, <2>3, <2>4, <2>6, <2>7, <2>9
<1>6. ASSUME NEW values \in Tuples(V0OfferPuts, 5)
      PROVE  \E v \in V0Offer : \A i \in 1 .. 5 : v[V0OfferNames[i]] = values[i]
  <2>1. /\ values[1] \in Id16
        /\ values[2] \in RepresentationKinds
        /\ values[3] \in U64
        /\ values[4] \in Id
        /\ values[5] \in Id16
    BY <1>3 DEF Tuples
  <2> DEFINE v == [ representation_id |-> values[1], kind |-> values[2],
                    size |-> values[3], digest |-> values[4],
                    schema_fingerprint |-> values[5] ]
  <2>2. v \in V0Offer
    BY <2>1 DEF V0Offer
  <2>3. \A i \in 1 .. 5 : v[V0OfferNames[i]] = values[i]
    BY DEF V0OfferNames
  <2> HIDE DEF v
  <2> QED
    BY <2>2, <2>3
<1>7. DOMAIN V0OfferImage = V0Offer /\ \A v \in V0Offer : V0OfferImage[v] = ExperimentalBody("OFFER", v)
  BY DEF V0OfferImage
<1> QED
  BY <1>1, <1>5, <1>6, <1>7 DEF Assembles

LEMMA ReadsV0Offer ==
    ASSUME NEW w \in Seq(Octet)
    PROVE  Reads(w, TakeFields(<< <<"representation_id", TakeId16(w)>>,
              <<"kind", Checked(TakeU8(w), RepresentationKinds)>>,
              <<"size", TakeU64(w)>>, <<"digest", TakeId(w)>>,
              <<"schema_fingerprint", TakeId16(w)>> >>), V0OfferImage)
<1> DEFINE fields ==
         << <<"representation_id", TakeId16(w)>>,
            <<"kind", Checked(TakeU8(w), RepresentationKinds)>>, <<"size", TakeU64(w)>>,
            <<"digest", TakeId(w)>>, <<"schema_fingerprint", TakeId16(w)>> >>
<1>1. fields[1][1] = V0OfferNames[1] /\ Reads(w, fields[1][2], V0OfferPuts[1])
  <2>1. Reads(w, TakeId16(w), Id16Image)
    BY ReadsWidths
  <2>2. fields[1] = <<"representation_id", TakeId16(w)>>
    OBVIOUS
  <2> HIDE DEF fields
  <2> QED
    BY <2>1, <2>2 DEF V0OfferNames, V0OfferPuts
<1>2. fields[2][1] = V0OfferNames[2] /\ Reads(w, fields[2][2], V0OfferPuts[2])
  <2>1. Reads(w, Checked(TakeU8(w), RepresentationKinds), Selected(RepresentationKinds))
    BY ReadsU8, ReadsChecked DEF Selected
  <2>2. fields[2] = <<"kind", Checked(TakeU8(w), RepresentationKinds)>>
    OBVIOUS
  <2> HIDE DEF fields
  <2> QED
    BY <2>1, <2>2 DEF V0OfferNames, V0OfferPuts
<1>3. fields[3][1] = V0OfferNames[3] /\ Reads(w, fields[3][2], V0OfferPuts[3])
  <2>1. Reads(w, TakeU64(w), U64Image)
    BY ReadsWidths
  <2>2. fields[3] = <<"size", TakeU64(w)>>
    OBVIOUS
  <2> HIDE DEF fields
  <2> QED
    BY <2>1, <2>2 DEF V0OfferNames, V0OfferPuts
<1>4. fields[4][1] = V0OfferNames[4] /\ Reads(w, fields[4][2], V0OfferPuts[4])
  <2>1. Reads(w, TakeId(w), IdImage)
    BY ReadsWidths
  <2>2. fields[4] = <<"digest", TakeId(w)>>
    OBVIOUS
  <2> HIDE DEF fields
  <2> QED
    BY <2>1, <2>2 DEF V0OfferNames, V0OfferPuts
<1>5. fields[5][1] = V0OfferNames[5] /\ Reads(w, fields[5][2], V0OfferPuts[5])
  <2>1. Reads(w, TakeId16(w), Id16Image)
    BY ReadsWidths
  <2>2. fields[5] = <<"schema_fingerprint", TakeId16(w)>>
    OBVIOUS
  <2> HIDE DEF fields
  <2> QED
    BY <2>1, <2>2 DEF V0OfferNames, V0OfferPuts
<1>6. DOMAIN fields = 1 .. 5 /\ 5 \in Nat
  OBVIOUS
<1>7. TakeFields(<< <<"representation_id", TakeId16(w)>>,
              <<"kind", Checked(TakeU8(w), RepresentationKinds)>>,
              <<"size", TakeU64(w)>>, <<"digest", TakeId(w)>>,
              <<"schema_fingerprint", TakeId16(w)>> >>) = TakeFields(fields)
  OBVIOUS
<1> HIDE DEF fields
<1>8. FieldsRead(w, 5, fields, V0OfferNames, V0OfferPuts)
  BY <1>1, <1>2, <1>3, <1>4, <1>5 DEF FieldsRead
<1>9. Assembles(5, V0OfferNames, V0OfferPuts, V0OfferImage)
  BY V0OfferFields
<1>10. Reads(w, TakeFields(fields), V0OfferImage)
  BY <1>6, <1>8, <1>9, ReadsFields
<1> QED
  BY <1>7, <1>10

V0RequestNames == << "representation_id", "offset", "max_payload_bytes" >>
V0RequestPuts ==
    << Id16Image, U64Image, U32Image >>
V0Request ==
    [ representation_id : Id16, offset : U64, max_payload_bytes : U32 ]
V0RequestImage == [v \in V0Request |-> ExperimentalBody("REQUEST", v)]

LEMMA V0RequestFields ==
    /\ Assembles(3, V0RequestNames, V0RequestPuts, V0RequestImage)
    /\ \A v \in V0Request :
          /\ ExperimentalBody("REQUEST", v) \in Seq(Octet)
          /\ Len(ExperimentalBody("REQUEST", v)) =
                Width.id16 +
                Width.u64 + Width.u32
<1>1. \A i \in 1 .. 3 : \A j \in 1 .. 3 : V0RequestNames[i] = V0RequestNames[j] => i = j
  BY DEF V0RequestNames
<1>2. Fields(V0RequestNames, 3) =
         {"representation_id", "offset",
          "max_payload_bytes"}
  BY DEF V0RequestNames, Fields
<1>3. /\ DOMAIN V0RequestPuts[1] = Id16
      /\ DOMAIN V0RequestPuts[2] = U64
      /\ DOMAIN V0RequestPuts[3] = U32
  BY WidthWrites DEF V0RequestPuts
<1>4. ASSUME NEW v \in V0Request
      PROVE  /\ Writes(V0RequestPuts[1], v.representation_id,
                       PutId16(v.representation_id), Width.id16)
             /\ Writes(V0RequestPuts[2], v.offset,
                       PutU64(v.offset), Width.u64)
             /\ Writes(V0RequestPuts[3], v.max_payload_bytes,
                       PutU32(v.max_payload_bytes), Width.u32)
  BY WidthWrites DEF V0RequestPuts, V0Request
<1>5. ASSUME NEW v \in V0Request
      PROVE  /\ v = [name \in Fields(V0RequestNames, 3) |-> v[name]]
             /\ \A i \in 1 .. 3 : v[V0RequestNames[i]] \in DOMAIN V0RequestPuts[i]
             /\ ExperimentalBody("REQUEST", v) =
                   FlattenSeq([i \in 1 .. 3 |-> V0RequestPuts[i][v[V0RequestNames[i]]]])
             /\ ExperimentalBody("REQUEST", v) \in Seq(Octet)
             /\ Len(ExperimentalBody("REQUEST", v)) =
                   Width.id16 +
                   Width.u64 + Width.u32
  <2> DEFINE image ==
             << PutId16(v.representation_id), PutU64(v.offset),
                PutU32(v.max_payload_bytes) >>
             size ==
             << Width.id16, Width.u64, Width.u32 >>
  <2>1. v = [name \in {"representation_id", "offset", "max_payload_bytes"} |-> v[name]]
    BY DEF V0Request
  <2>2. \A i \in 1 .. 3 : Writes(V0RequestPuts[i], v[V0RequestNames[i]], image[i], size[i])
    <3>1. Writes(V0RequestPuts[1], v[V0RequestNames[1]], image[1], size[1])
      BY <1>4 DEF V0RequestNames
    <3>2. Writes(V0RequestPuts[2], v[V0RequestNames[2]], image[2], size[2])
      BY <1>4 DEF V0RequestNames
    <3>3. Writes(V0RequestPuts[3], v[V0RequestNames[3]], image[3], size[3])
      BY <1>4 DEF V0RequestNames
    <3> HIDE DEF image, size
    <3> QED
      BY <3>1, <3>2, <3>3
  <2>3. ExperimentalBody("REQUEST", v) = image[1] \o image[2] \o image[3]
    BY DEF ExperimentalBody, ExperimentalPayload
  <2>4. size[1] + size[2] + size[3] =
          Width.id16 + Width.u64 + Width.u32
    OBVIOUS
  <2>5. image = [i \in 1 .. 3 |-> image[i]]
    OBVIOUS
  <2> HIDE DEF image, size
  <2>6. /\ \A i \in 1 .. 3 : v[V0RequestNames[i]] \in DOMAIN V0RequestPuts[i]
        /\ [i \in 1 .. 3 |-> V0RequestPuts[i][v[V0RequestNames[i]]]] = image
        /\ image \in [1 .. 3 -> Seq(Octet)]
        /\ \A i \in 1 .. 3 : Len(image[i]) = size[i]
    <3>1. \A i \in 1 .. 3 :
             /\ v[V0RequestNames[i]] \in DOMAIN V0RequestPuts[i]
             /\ V0RequestPuts[i][v[V0RequestNames[i]]] = image[i]
             /\ image[i] \in Seq(Octet) /\ Len(image[i]) = size[i]
      BY <2>2 DEF Writes
    <3>2. [i \in 1 .. 3 |-> V0RequestPuts[i][v[V0RequestNames[i]]]] = [i \in 1 .. 3 |-> image[i]]
      BY <3>1
    <3>3. [i \in 1 .. 3 |-> image[i]] \in [1 .. 3 -> Seq(Octet)]
      BY <3>1
    <3> QED
      BY <2>5, <3>1, <3>2, <3>3
  <2>7. /\ FlattenSeq(image) \in Seq(Octet)
        /\ FlattenSeq(image) = image[1] \o image[2] \o image[3]
        /\ Len(FlattenSeq(image)) = Len(image[1]) + Len(image[2]) + Len(image[3])
    BY <2>6, Parts3
  <2>8. /\ Len(image[1]) = size[1]
        /\ Len(image[2]) = size[2]
        /\ Len(image[3]) = size[3]
    BY <2>6
  <2>9. Len(FlattenSeq(image)) = size[1] + size[2] + size[3]
    BY <2>7, <2>8
  <2> QED
    BY <1>2, <2>1, <2>3, <2>4, <2>6, <2>7, <2>9
<1>6. ASSUME NEW values \in Tuples(V0RequestPuts, 3)
      PROVE  \E v \in V0Request : \A i \in 1 .. 3 : v[V0RequestNames[i]] = values[i]
  <2>1. /\ values[1] \in Id16
        /\ values[2] \in U64
        /\ values[3] \in U32
    BY <1>3 DEF Tuples
  <2> DEFINE v == [ representation_id |-> values[1], offset |-> values[2],
                    max_payload_bytes |-> values[3] ]
  <2>2. v \in V0Request
    BY <2>1 DEF V0Request
  <2>3. \A i \in 1 .. 3 : v[V0RequestNames[i]] = values[i]
    BY DEF V0RequestNames
  <2> HIDE DEF v
  <2> QED
    BY <2>2, <2>3
<1>7. DOMAIN V0RequestImage = V0Request /\ \A v \in V0Request : V0RequestImage[v] = ExperimentalBody("REQUEST", v)
  BY DEF V0RequestImage
<1> QED
  BY <1>1, <1>5, <1>6, <1>7 DEF Assembles

LEMMA ReadsV0Request ==
    ASSUME NEW w \in Seq(Octet)
    PROVE  Reads(w, TakeFields(<< <<"representation_id", TakeId16(w)>>, <<"offset", TakeU64(w)>>,
              <<"max_payload_bytes", TakeU32(w)>> >>), V0RequestImage)
<1> DEFINE fields ==
         << <<"representation_id", TakeId16(w)>>,
            <<"offset", TakeU64(w)>>, <<"max_payload_bytes", TakeU32(w)>> >>
<1>1. fields[1][1] = V0RequestNames[1] /\ Reads(w, fields[1][2], V0RequestPuts[1])
  <2>1. Reads(w, TakeId16(w), Id16Image)
    BY ReadsWidths
  <2>2. fields[1] = <<"representation_id", TakeId16(w)>>
    OBVIOUS
  <2> HIDE DEF fields
  <2> QED
    BY <2>1, <2>2 DEF V0RequestNames, V0RequestPuts
<1>2. fields[2][1] = V0RequestNames[2] /\ Reads(w, fields[2][2], V0RequestPuts[2])
  <2>1. Reads(w, TakeU64(w), U64Image)
    BY ReadsWidths
  <2>2. fields[2] = <<"offset", TakeU64(w)>>
    OBVIOUS
  <2> HIDE DEF fields
  <2> QED
    BY <2>1, <2>2 DEF V0RequestNames, V0RequestPuts
<1>3. fields[3][1] = V0RequestNames[3] /\ Reads(w, fields[3][2], V0RequestPuts[3])
  <2>1. Reads(w, TakeU32(w), U32Image)
    BY ReadsWidths
  <2>2. fields[3] = <<"max_payload_bytes", TakeU32(w)>>
    OBVIOUS
  <2> HIDE DEF fields
  <2> QED
    BY <2>1, <2>2 DEF V0RequestNames, V0RequestPuts
<1>4. DOMAIN fields = 1 .. 3 /\ 3 \in Nat
  OBVIOUS
<1>5. TakeFields(<< <<"representation_id", TakeId16(w)>>, <<"offset", TakeU64(w)>>,
              <<"max_payload_bytes", TakeU32(w)>> >>) = TakeFields(fields)
  OBVIOUS
<1> HIDE DEF fields
<1>6. FieldsRead(w, 3, fields, V0RequestNames, V0RequestPuts)
  BY <1>1, <1>2, <1>3 DEF FieldsRead
<1>7. Assembles(3, V0RequestNames, V0RequestPuts, V0RequestImage)
  BY V0RequestFields
<1>8. Reads(w, TakeFields(fields), V0RequestImage)
  BY <1>4, <1>6, <1>7, ReadsFields
<1> QED
  BY <1>5, <1>8

V0ReceiptNames == << "representation_id", "stage", "digest" >>
V0ReceiptPuts ==
    << Id16Image, Selected(ReceiptStages), IdImage >>
V0Receipt ==
    [ representation_id : Id16, stage : ReceiptStages, digest : Id ]
V0ReceiptImage == [v \in V0Receipt |-> ExperimentalBody("RECEIPT", v)]

LEMMA V0ReceiptFields ==
    /\ Assembles(3, V0ReceiptNames, V0ReceiptPuts, V0ReceiptImage)
    /\ \A v \in V0Receipt :
          /\ ExperimentalBody("RECEIPT", v) \in Seq(Octet)
          /\ Len(ExperimentalBody("RECEIPT", v)) =
                Width.id16 + 1 +
                Width.id
<1>1. \A i \in 1 .. 3 : \A j \in 1 .. 3 : V0ReceiptNames[i] = V0ReceiptNames[j] => i = j
  BY DEF V0ReceiptNames
<1>2. Fields(V0ReceiptNames, 3) =
         {"representation_id", "stage", "digest"}
  BY DEF V0ReceiptNames, Fields
<1>3. /\ DOMAIN V0ReceiptPuts[1] = Id16
      /\ DOMAIN V0ReceiptPuts[2] = ReceiptStages
      /\ DOMAIN V0ReceiptPuts[3] = Id
  BY WidthWrites, StageWrites DEF V0ReceiptPuts
<1>4. ASSUME NEW v \in V0Receipt
      PROVE  /\ Writes(V0ReceiptPuts[1], v.representation_id,
                       PutId16(v.representation_id), Width.id16)
             /\ Writes(V0ReceiptPuts[2], v.stage,
                       <<v.stage>>, 1)
             /\ Writes(V0ReceiptPuts[3], v.digest,
                       PutId(v.digest), Width.id)
  BY WidthWrites, StageWrites DEF V0ReceiptPuts, V0Receipt
<1>5. ASSUME NEW v \in V0Receipt
      PROVE  /\ v = [name \in Fields(V0ReceiptNames, 3) |-> v[name]]
             /\ \A i \in 1 .. 3 : v[V0ReceiptNames[i]] \in DOMAIN V0ReceiptPuts[i]
             /\ ExperimentalBody("RECEIPT", v) =
                   FlattenSeq([i \in 1 .. 3 |-> V0ReceiptPuts[i][v[V0ReceiptNames[i]]]])
             /\ ExperimentalBody("RECEIPT", v) \in Seq(Octet)
             /\ Len(ExperimentalBody("RECEIPT", v)) =
                   Width.id16 +
                   1 + Width.id
  <2> DEFINE image ==
             << PutId16(v.representation_id), <<v.stage>>,
                PutId(v.digest) >>
             size ==
             << Width.id16, 1, Width.id >>
  <2>1. v = [name \in {"representation_id", "stage", "digest"} |-> v[name]]
    BY DEF V0Receipt
  <2>2. \A i \in 1 .. 3 : Writes(V0ReceiptPuts[i], v[V0ReceiptNames[i]], image[i], size[i])
    <3>1. Writes(V0ReceiptPuts[1], v[V0ReceiptNames[1]], image[1], size[1])
      BY <1>4 DEF V0ReceiptNames
    <3>2. Writes(V0ReceiptPuts[2], v[V0ReceiptNames[2]], image[2], size[2])
      BY <1>4 DEF V0ReceiptNames
    <3>3. Writes(V0ReceiptPuts[3], v[V0ReceiptNames[3]], image[3], size[3])
      BY <1>4 DEF V0ReceiptNames
    <3> HIDE DEF image, size
    <3> QED
      BY <3>1, <3>2, <3>3
  <2>3. ExperimentalBody("RECEIPT", v) = image[1] \o image[2] \o image[3]
    BY DEF ExperimentalBody, ExperimentalPayload
  <2>4. size[1] + size[2] + size[3] =
          Width.id16 + 1 + Width.id
    OBVIOUS
  <2>5. image = [i \in 1 .. 3 |-> image[i]]
    OBVIOUS
  <2> HIDE DEF image, size
  <2>6. /\ \A i \in 1 .. 3 : v[V0ReceiptNames[i]] \in DOMAIN V0ReceiptPuts[i]
        /\ [i \in 1 .. 3 |-> V0ReceiptPuts[i][v[V0ReceiptNames[i]]]] = image
        /\ image \in [1 .. 3 -> Seq(Octet)]
        /\ \A i \in 1 .. 3 : Len(image[i]) = size[i]
    <3>1. \A i \in 1 .. 3 :
             /\ v[V0ReceiptNames[i]] \in DOMAIN V0ReceiptPuts[i]
             /\ V0ReceiptPuts[i][v[V0ReceiptNames[i]]] = image[i]
             /\ image[i] \in Seq(Octet) /\ Len(image[i]) = size[i]
      BY <2>2 DEF Writes
    <3>2. [i \in 1 .. 3 |-> V0ReceiptPuts[i][v[V0ReceiptNames[i]]]] = [i \in 1 .. 3 |-> image[i]]
      BY <3>1
    <3>3. [i \in 1 .. 3 |-> image[i]] \in [1 .. 3 -> Seq(Octet)]
      BY <3>1
    <3> QED
      BY <2>5, <3>1, <3>2, <3>3
  <2>7. /\ FlattenSeq(image) \in Seq(Octet)
        /\ FlattenSeq(image) = image[1] \o image[2] \o image[3]
        /\ Len(FlattenSeq(image)) = Len(image[1]) + Len(image[2]) + Len(image[3])
    BY <2>6, Parts3
  <2>8. /\ Len(image[1]) = size[1]
        /\ Len(image[2]) = size[2]
        /\ Len(image[3]) = size[3]
    BY <2>6
  <2>9. Len(FlattenSeq(image)) = size[1] + size[2] + size[3]
    BY <2>7, <2>8
  <2> QED
    BY <1>2, <2>1, <2>3, <2>4, <2>6, <2>7, <2>9
<1>6. ASSUME NEW values \in Tuples(V0ReceiptPuts, 3)
      PROVE  \E v \in V0Receipt : \A i \in 1 .. 3 : v[V0ReceiptNames[i]] = values[i]
  <2>1. /\ values[1] \in Id16
        /\ values[2] \in ReceiptStages
        /\ values[3] \in Id
    BY <1>3 DEF Tuples
  <2> DEFINE v == [ representation_id |-> values[1], stage |-> values[2],
                    digest |-> values[3] ]
  <2>2. v \in V0Receipt
    BY <2>1 DEF V0Receipt
  <2>3. \A i \in 1 .. 3 : v[V0ReceiptNames[i]] = values[i]
    BY DEF V0ReceiptNames
  <2> HIDE DEF v
  <2> QED
    BY <2>2, <2>3
<1>7. DOMAIN V0ReceiptImage = V0Receipt /\ \A v \in V0Receipt : V0ReceiptImage[v] = ExperimentalBody("RECEIPT", v)
  BY DEF V0ReceiptImage
<1> QED
  BY <1>1, <1>5, <1>6, <1>7 DEF Assembles

LEMMA ReadsV0Receipt ==
    ASSUME NEW w \in Seq(Octet)
    PROVE  Reads(w, TakeFields(<< <<"representation_id", TakeId16(w)>>,
              <<"stage", Checked(TakeU8(w), ReceiptStages)>>, <<"digest", TakeId(w)>> >>), V0ReceiptImage)
<1> DEFINE fields ==
         << <<"representation_id", TakeId16(w)>>,
            <<"stage", Checked(TakeU8(w), ReceiptStages)>>, <<"digest", TakeId(w)>> >>
<1>1. fields[1][1] = V0ReceiptNames[1] /\ Reads(w, fields[1][2], V0ReceiptPuts[1])
  <2>1. Reads(w, TakeId16(w), Id16Image)
    BY ReadsWidths
  <2>2. fields[1] = <<"representation_id", TakeId16(w)>>
    OBVIOUS
  <2> HIDE DEF fields
  <2> QED
    BY <2>1, <2>2 DEF V0ReceiptNames, V0ReceiptPuts
<1>2. fields[2][1] = V0ReceiptNames[2] /\ Reads(w, fields[2][2], V0ReceiptPuts[2])
  <2>1. Reads(w, Checked(TakeU8(w), ReceiptStages), Selected(ReceiptStages))
    BY ReadsU8, ReadsChecked DEF Selected
  <2>2. fields[2] = <<"stage", Checked(TakeU8(w), ReceiptStages)>>
    OBVIOUS
  <2> HIDE DEF fields
  <2> QED
    BY <2>1, <2>2 DEF V0ReceiptNames, V0ReceiptPuts
<1>3. fields[3][1] = V0ReceiptNames[3] /\ Reads(w, fields[3][2], V0ReceiptPuts[3])
  <2>1. Reads(w, TakeId(w), IdImage)
    BY ReadsWidths
  <2>2. fields[3] = <<"digest", TakeId(w)>>
    OBVIOUS
  <2> HIDE DEF fields
  <2> QED
    BY <2>1, <2>2 DEF V0ReceiptNames, V0ReceiptPuts
<1>4. DOMAIN fields = 1 .. 3 /\ 3 \in Nat
  OBVIOUS
<1>5. TakeFields(<< <<"representation_id", TakeId16(w)>>,
              <<"stage", Checked(TakeU8(w), ReceiptStages)>>, <<"digest", TakeId(w)>> >>) = TakeFields(fields)
  OBVIOUS
<1> HIDE DEF fields
<1>6. FieldsRead(w, 3, fields, V0ReceiptNames, V0ReceiptPuts)
  BY <1>1, <1>2, <1>3 DEF FieldsRead
<1>7. Assembles(3, V0ReceiptNames, V0ReceiptPuts, V0ReceiptImage)
  BY V0ReceiptFields
<1>8. Reads(w, TakeFields(fields), V0ReceiptImage)
  BY <1>4, <1>6, <1>7, ReadsFields
<1> QED
  BY <1>5, <1>8

V0DataNames == << "representation_id", "offset", "payload" >>
V0DataPuts(n) ==
    << Id16Image, U64Image, BlockImage(n) >>
V0Data(n) ==
    [ representation_id : Id16, offset : U64, payload : Blocks(n) ]
V0DataImage(n) == [v \in V0Data(n) |-> ExperimentalBody("DATA", v)]

LEMMA V0DataFields ==
    ASSUME NEW n \in Nat
    PROVE
    /\ Assembles(3, V0DataNames, V0DataPuts(n), V0DataImage(n))
    /\ \A v \in V0Data(n) :
          /\ ExperimentalBody("DATA", v) \in Seq(Octet)
          /\ Len(ExperimentalBody("DATA", v)) =
                Width.id16 + Width.u64 +
                Len(v.payload)
<1>1. \A i \in 1 .. 3 : \A j \in 1 .. 3 : V0DataNames[i] = V0DataNames[j] => i = j
  BY DEF V0DataNames
<1>2. Fields(V0DataNames, 3) =
         {"representation_id", "offset", "payload"}
  BY DEF V0DataNames, Fields
<1>3. /\ DOMAIN V0DataPuts(n)[1] = Id16
      /\ DOMAIN V0DataPuts(n)[2] = U64
      /\ DOMAIN V0DataPuts(n)[3] = Blocks(n)
  BY WidthWrites, BlockWrites DEF V0DataPuts
<1>4. ASSUME NEW v \in V0Data(n)
      PROVE  /\ Writes(V0DataPuts(n)[1], v.representation_id,
                       PutId16(v.representation_id), Width.id16)
             /\ Writes(V0DataPuts(n)[2], v.offset,
                       PutU64(v.offset), Width.u64)
             /\ Writes(V0DataPuts(n)[3], v.payload,
                       v.payload, Len(v.payload))
  BY WidthWrites, BlockWrites DEF V0DataPuts, V0Data
<1>5. ASSUME NEW v \in V0Data(n)
      PROVE  /\ v = [name \in Fields(V0DataNames, 3) |-> v[name]]
             /\ \A i \in 1 .. 3 : v[V0DataNames[i]] \in DOMAIN V0DataPuts(n)[i]
             /\ ExperimentalBody("DATA", v) =
                   FlattenSeq([i \in 1 .. 3 |-> V0DataPuts(n)[i][v[V0DataNames[i]]]])
             /\ ExperimentalBody("DATA", v) \in Seq(Octet)
             /\ Len(ExperimentalBody("DATA", v)) =
                   Width.id16 +
                   Width.u64 + Len(v.payload)
  <2> DEFINE image ==
             << PutId16(v.representation_id), PutU64(v.offset),
                v.payload >>
             size ==
             << Width.id16, Width.u64, Len(v.payload) >>
  <2>1. v = [name \in {"representation_id", "offset", "payload"} |-> v[name]]
    BY DEF V0Data
  <2>2. \A i \in 1 .. 3 : Writes(V0DataPuts(n)[i], v[V0DataNames[i]], image[i], size[i])
    <3>1. Writes(V0DataPuts(n)[1], v[V0DataNames[1]], image[1], size[1])
      BY <1>4 DEF V0DataNames
    <3>2. Writes(V0DataPuts(n)[2], v[V0DataNames[2]], image[2], size[2])
      BY <1>4 DEF V0DataNames
    <3>3. Writes(V0DataPuts(n)[3], v[V0DataNames[3]], image[3], size[3])
      BY <1>4 DEF V0DataNames
    <3> HIDE DEF image, size
    <3> QED
      BY <3>1, <3>2, <3>3
  <2>3. ExperimentalBody("DATA", v) = image[1] \o image[2] \o image[3]
    BY DEF ExperimentalBody, ExperimentalPayload
  <2>4. size[1] + size[2] + size[3] =
          Width.id16 + Width.u64 + Len(v.payload)
    OBVIOUS
  <2>5. image = [i \in 1 .. 3 |-> image[i]]
    OBVIOUS
  <2> HIDE DEF image, size
  <2>6. /\ \A i \in 1 .. 3 : v[V0DataNames[i]] \in DOMAIN V0DataPuts(n)[i]
        /\ [i \in 1 .. 3 |-> V0DataPuts(n)[i][v[V0DataNames[i]]]] = image
        /\ image \in [1 .. 3 -> Seq(Octet)]
        /\ \A i \in 1 .. 3 : Len(image[i]) = size[i]
    <3>1. \A i \in 1 .. 3 :
             /\ v[V0DataNames[i]] \in DOMAIN V0DataPuts(n)[i]
             /\ V0DataPuts(n)[i][v[V0DataNames[i]]] = image[i]
             /\ image[i] \in Seq(Octet) /\ Len(image[i]) = size[i]
      BY <2>2 DEF Writes
    <3>2. [i \in 1 .. 3 |-> V0DataPuts(n)[i][v[V0DataNames[i]]]] = [i \in 1 .. 3 |-> image[i]]
      BY <3>1
    <3>3. [i \in 1 .. 3 |-> image[i]] \in [1 .. 3 -> Seq(Octet)]
      BY <3>1
    <3> QED
      BY <2>5, <3>1, <3>2, <3>3
  <2>7. /\ FlattenSeq(image) \in Seq(Octet)
        /\ FlattenSeq(image) = image[1] \o image[2] \o image[3]
        /\ Len(FlattenSeq(image)) = Len(image[1]) + Len(image[2]) + Len(image[3])
    BY <2>6, Parts3
  <2>8. /\ Len(image[1]) = size[1]
        /\ Len(image[2]) = size[2]
        /\ Len(image[3]) = size[3]
    BY <2>6
  <2>9. Len(FlattenSeq(image)) = size[1] + size[2] + size[3]
    BY <2>7, <2>8
  <2> QED
    BY <1>2, <2>1, <2>3, <2>4, <2>6, <2>7, <2>9
<1>6. ASSUME NEW values \in Tuples(V0DataPuts(n), 3)
      PROVE  \E v \in V0Data(n) : \A i \in 1 .. 3 : v[V0DataNames[i]] = values[i]
  <2>1. /\ values[1] \in Id16
        /\ values[2] \in U64
        /\ values[3] \in Blocks(n)
    BY <1>3 DEF Tuples
  <2> DEFINE v == [ representation_id |-> values[1], offset |-> values[2],
                    payload |-> values[3] ]
  <2>2. v \in V0Data(n)
    BY <2>1 DEF V0Data
  <2>3. \A i \in 1 .. 3 : v[V0DataNames[i]] = values[i]
    BY DEF V0DataNames
  <2> HIDE DEF v
  <2> QED
    BY <2>2, <2>3
<1>7. DOMAIN V0DataImage(n) = V0Data(n) /\ \A v \in V0Data(n) : V0DataImage(n)[v] = ExperimentalBody("DATA", v)
  BY DEF V0DataImage
<1> DEFINE puts == V0DataPuts(n)
           put == V0DataImage(n)
<1>8. Assembles(3, V0DataNames, puts, put)
  <2>1. DOMAIN put = V0Data(n)
    BY <1>7
  <2>2. ASSUME NEW v \in DOMAIN put
        PROVE  /\ v = [name \in Fields(V0DataNames, 3) |-> v[name]]
               /\ \A i \in 1 .. 3 : v[V0DataNames[i]] \in DOMAIN puts[i]
               /\ put[v] = FlattenSeq([i \in 1 .. 3 |-> puts[i][v[V0DataNames[i]]]])
    BY <1>5, <1>7
  <2>3. ASSUME NEW values \in Tuples(puts, 3)
        PROVE  \E v \in DOMAIN put : \A i \in 1 .. 3 : v[V0DataNames[i]] = values[i]
    BY <1>6, <2>1
  <2> HIDE DEF puts, put
  <2> QED
    BY <1>1, <2>2, <2>3, Zenon DEF Assembles
<1> QED
  BY <1>5, <1>8

LEMMA ReadsV0Data ==
    ASSUME NEW w \in Seq(Octet), NEW n \in Nat
    PROVE  Reads(w, TakeFields(<< <<"representation_id", TakeId16(w)>>, <<"offset", TakeU64(w)>>,
              <<"payload", TakeExactly(w, n)>> >>), V0DataImage(n))
<1> DEFINE fields ==
         << <<"representation_id", TakeId16(w)>>,
            <<"offset", TakeU64(w)>>, <<"payload", TakeExactly(w, n)>> >>
<1>1. fields[1][1] = V0DataNames[1] /\ Reads(w, fields[1][2], V0DataPuts(n)[1])
  <2>1. Reads(w, TakeId16(w), Id16Image)
    BY ReadsWidths
  <2>2. fields[1] = <<"representation_id", TakeId16(w)>>
    OBVIOUS
  <2> HIDE DEF fields
  <2> QED
    BY <2>1, <2>2 DEF V0DataNames, V0DataPuts
<1>2. fields[2][1] = V0DataNames[2] /\ Reads(w, fields[2][2], V0DataPuts(n)[2])
  <2>1. Reads(w, TakeU64(w), U64Image)
    BY ReadsWidths
  <2>2. fields[2] = <<"offset", TakeU64(w)>>
    OBVIOUS
  <2> HIDE DEF fields
  <2> QED
    BY <2>1, <2>2 DEF V0DataNames, V0DataPuts
<1>3. fields[3][1] = V0DataNames[3] /\ Reads(w, fields[3][2], V0DataPuts(n)[3])
  <2>1. Reads(w, TakeExactly(w, n), BlockImage(n))
    BY ReadsExactly
  <2>2. fields[3] = <<"payload", TakeExactly(w, n)>>
    OBVIOUS
  <2> HIDE DEF fields
  <2> QED
    BY <2>1, <2>2 DEF V0DataNames, V0DataPuts
<1>4. DOMAIN fields = 1 .. 3 /\ 3 \in Nat
  OBVIOUS
<1>5. TakeFields(<< <<"representation_id", TakeId16(w)>>, <<"offset", TakeU64(w)>>,
              <<"payload", TakeExactly(w, n)>> >>) = TakeFields(fields)
  OBVIOUS
<1> HIDE DEF fields
<1>6. FieldsRead(w, 3, fields, V0DataNames, V0DataPuts(n))
  BY <1>1, <1>2, <1>3 DEF FieldsRead
<1>7. Assembles(3, V0DataNames, V0DataPuts(n), V0DataImage(n))
  BY V0DataFields
<1>8. Reads(w, TakeFields(fields), V0DataImage(n))
  BY <1>4, <1>6, <1>7, ReadsFields
<1> QED
  BY <1>5, <1>8


---------------------------------------------------------------------------
(* An operation of B0 by its tag; n is the length of the payload of DATA.  *)

OpTags == 1 .. 6

OpBodies(n) == <<V0Capabilities, V0Summary, V0Offer, V0Request, V0Data(n), V0Receipt>>

OpImages(n) ==
    << V0CapabilitiesImage, V0SummaryImage, V0OfferImage, V0RequestImage, V0DataImage(n),
       V0ReceiptImage >>

OpOf(tag, v) == [kind |-> ExperimentalKinds[tag], body |-> v]
OpSize(tag, n) == FixedPayload[tag] + IF tag = 5 THEN n ELSE 0
OpFrame(tag, size) == ExperimentalMagic \o <<tag>> \o PutU16(size)

LEMMA OpTagFacts ==
    /\ DOMAIN ExperimentalKinds = OpTags
    /\ \A tag \in OpTags : ExperimentalTag(ExperimentalKinds[tag]) = tag
    /\ \A tag \in OpTags : ExperimentalKinds[tag] = "DATA" <=> tag = 5
<1>1. DOMAIN ExperimentalKinds = OpTags
  BY DEF ExperimentalKinds, OpTags
<1>2. ASSUME NEW i \in OpTags, NEW j \in OpTags, ExperimentalKinds[i] = ExperimentalKinds[j]
      PROVE  i = j
  <2>1. /\ i = 1 \/ i = 2 \/ i = 3 \/ i = 4 \/ i = 5 \/ i = 6
        /\ j = 1 \/ j = 2 \/ j = 3 \/ j = 4 \/ j = 5 \/ j = 6
    BY DEF OpTags
  <2> QED
    BY <1>2, <2>1 DEF ExperimentalKinds
<1>3. ASSUME NEW tag \in OpTags
      PROVE  ExperimentalTag(ExperimentalKinds[tag]) = tag
  BY <1>1, <1>2 DEF ExperimentalTag
<1>4. 5 \in OpTags /\ ExperimentalKinds[5] = "DATA"
  BY DEF OpTags, ExperimentalKinds
<1> QED
  BY <1>1, <1>2, <1>3, <1>4

LEMMA FixedSizes ==
    /\ FixedPayload[1] = 1 + Width.u16 + 1
    /\ FixedPayload[2] = Width.u64 + Width.id16
    /\ FixedPayload[3] = Width.id16 + 1 + Width.u64 + Width.id + Width.id16
    /\ FixedPayload[4] = Width.id16 + Width.u64 + Width.u32
    /\ FixedPayload[5] = Width.id16 + Width.u64
    /\ FixedPayload[6] = Width.id16 + 1 + Width.id
    /\ \A tag \in OpTags : FixedPayload[tag] \in Nat
    /\ ExperimentalEnvelope = 3 + Width.u16 /\ ExperimentalEnvelope \in Nat
<1>1. /\ FixedPayload[1] = 1 + Width.u16 + 1
      /\ FixedPayload[2] = Width.u64 + Width.id16
      /\ FixedPayload[3] = Width.id16 + 1 + Width.u64 + Width.id + Width.id16
      /\ FixedPayload[4] = Width.id16 + Width.u64 + Width.u32
      /\ FixedPayload[5] = Width.id16 + Width.u64
      /\ FixedPayload[6] = Width.id16 + 1 + Width.id
  BY DEF FixedPayload
<1>2. ASSUME NEW tag \in OpTags
      PROVE  FixedPayload[tag] \in Nat
  <2>1. tag = 1 \/ tag = 2 \/ tag = 3 \/ tag = 4 \/ tag = 5 \/ tag = 6
    BY DEF OpTags
  <2> QED
    BY <1>1, <2>1, WidthFacts
<1>3. ExperimentalEnvelope = 3 + Width.u16 /\ ExperimentalEnvelope \in Nat
  BY WidthFacts DEF ExperimentalEnvelope
<1> QED
  BY <1>1, <1>2, <1>3

LEMMA OpSizes ==
    ASSUME NEW tag \in OpTags, NEW n \in Nat
    PROVE  /\ OpSize(tag, n) \in Nat
           /\ tag # 5 => OpSize(tag, n) = FixedPayload[tag]
           /\ tag = 5 => OpSize(tag, n) = FixedPayload[5] + n
<1>1. PICK fixed \in Nat : fixed = FixedPayload[tag]
  BY FixedSizes
<1>2. OpSize(tag, n) = fixed + IF tag = 5 THEN n ELSE 0
  BY <1>1 DEF OpSize
<1>3. /\ tag # 5 => OpSize(tag, n) = fixed
      /\ tag = 5 => OpSize(tag, n) = fixed + n
  BY <1>2
<1> QED
  BY <1>1, <1>3

LEMMA OpPayloads ==
    ASSUME NEW tag \in OpTags, NEW v
    PROVE  ExperimentalPayloadSize(OpOf(tag, v)) =
              FixedPayload[tag] + IF tag = 5 THEN Len(v.payload) ELSE 0
<1>1. OpOf(tag, v).kind = ExperimentalKinds[tag] /\ OpOf(tag, v).body = v
  BY DEF OpOf
<1> QED
  BY <1>1, OpTagFacts DEF ExperimentalPayloadSize

\* What holds of the image of the body v of an operation.
OpWritten(tag, n, v) ==
    /\ v \in ExperimentalBodies[tag]
    /\ Writes(OpImages(n)[tag], v, ExperimentalPayload(OpOf(tag, v)), OpSize(tag, n))
    /\ ExperimentalPayloadSize(OpOf(tag, v)) = OpSize(tag, n)

LEMMA OpWrites ==
    ASSUME NEW tag \in OpTags, NEW n \in Nat
    PROVE  /\ DOMAIN OpImages(n)[tag] = OpBodies(n)[tag]
           /\ \A v \in OpBodies(n)[tag] : OpWritten(tag, n, v)
<1> DEFINE Correct(t) == /\ DOMAIN OpImages(n)[t] = OpBodies(n)[t]
                         /\ \A v \in OpBodies(n)[t] : OpWritten(t, n, v)
<1>1. Correct(1)
  <2>1. /\ 1 \in OpTags /\ ExperimentalKinds[1] = "CAPABILITIES"
        /\ OpImages(n)[1] = V0CapabilitiesImage /\ OpBodies(n)[1] = V0Capabilities
    BY DEF OpTags, ExperimentalKinds, OpImages, OpBodies
  <2>2. DOMAIN V0CapabilitiesImage = V0Capabilities /\ \A v \in V0Capabilities : V0CapabilitiesImage[v] = ExperimentalBody("CAPABILITIES", v)
    BY DEF V0CapabilitiesImage
  <2>3. ASSUME NEW v \in V0Capabilities
        PROVE  OpWritten(1, n, v)
    <3>1. OpOf(1, v) = [kind |-> "CAPABILITIES", body |-> v]
      BY <2>1 DEF OpOf
    <3>2. ExperimentalPayload(OpOf(1, v)) = ExperimentalBody("CAPABILITIES", v)
      BY <3>1 DEF ExperimentalBody
    <3>3. v \in ExperimentalBodies[1]
      BY DEF ExperimentalBodies, V0Capabilities
    <3>5. ExperimentalBody("CAPABILITIES", v) \in Seq(Octet)
          /\ Len(ExperimentalBody("CAPABILITIES", v)) = OpSize(1, n)
      <4>1. OpSize(1, n) = FixedPayload[1]
        BY <2>1, OpSizes
      <4> QED
        BY <4>1, V0CapabilitiesFields, FixedSizes, WidthFacts
    <3>6. ExperimentalPayloadSize(OpOf(1, v)) = OpSize(1, n)
      BY <2>1, OpPayloads DEF OpSize
    <3> QED
      BY <2>1, <2>2, <3>2, <3>3, <3>5, <3>6 DEF OpWritten, Writes
  <2> QED
    BY <2>1, <2>2, <2>3
<1>2. Correct(2)
  <2>1. /\ 2 \in OpTags /\ ExperimentalKinds[2] = "SUMMARY"
        /\ OpImages(n)[2] = V0SummaryImage /\ OpBodies(n)[2] = V0Summary
    BY DEF OpTags, ExperimentalKinds, OpImages, OpBodies
  <2>2. DOMAIN V0SummaryImage = V0Summary /\ \A v \in V0Summary : V0SummaryImage[v] = ExperimentalBody("SUMMARY", v)
    BY DEF V0SummaryImage
  <2>3. ASSUME NEW v \in V0Summary
        PROVE  OpWritten(2, n, v)
    <3>1. OpOf(2, v) = [kind |-> "SUMMARY", body |-> v]
      BY <2>1 DEF OpOf
    <3>2. ExperimentalPayload(OpOf(2, v)) = ExperimentalBody("SUMMARY", v)
      BY <3>1 DEF ExperimentalBody
    <3>3. v \in ExperimentalBodies[2]
      BY DEF ExperimentalBodies, V0Summary
    <3>5. ExperimentalBody("SUMMARY", v) \in Seq(Octet)
          /\ Len(ExperimentalBody("SUMMARY", v)) = OpSize(2, n)
      <4>1. OpSize(2, n) = FixedPayload[2]
        BY <2>1, OpSizes
      <4> QED
        BY <4>1, V0SummaryFields, FixedSizes, WidthFacts
    <3>6. ExperimentalPayloadSize(OpOf(2, v)) = OpSize(2, n)
      BY <2>1, OpPayloads DEF OpSize
    <3> QED
      BY <2>1, <2>2, <3>2, <3>3, <3>5, <3>6 DEF OpWritten, Writes
  <2> QED
    BY <2>1, <2>2, <2>3
<1>3. Correct(3)
  <2>1. /\ 3 \in OpTags /\ ExperimentalKinds[3] = "OFFER"
        /\ OpImages(n)[3] = V0OfferImage /\ OpBodies(n)[3] = V0Offer
    BY DEF OpTags, ExperimentalKinds, OpImages, OpBodies
  <2>2. DOMAIN V0OfferImage = V0Offer /\ \A v \in V0Offer : V0OfferImage[v] = ExperimentalBody("OFFER", v)
    BY DEF V0OfferImage
  <2>3. ASSUME NEW v \in V0Offer
        PROVE  OpWritten(3, n, v)
    <3>1. OpOf(3, v) = [kind |-> "OFFER", body |-> v]
      BY <2>1 DEF OpOf
    <3>2. ExperimentalPayload(OpOf(3, v)) = ExperimentalBody("OFFER", v)
      BY <3>1 DEF ExperimentalBody
    <3>3. v \in ExperimentalBodies[3]
      BY DEF ExperimentalBodies, V0Offer
    <3>5. ExperimentalBody("OFFER", v) \in Seq(Octet)
          /\ Len(ExperimentalBody("OFFER", v)) = OpSize(3, n)
      <4>1. OpSize(3, n) = FixedPayload[3]
        BY <2>1, OpSizes
      <4> QED
        BY <4>1, V0OfferFields, FixedSizes, WidthFacts
    <3>6. ExperimentalPayloadSize(OpOf(3, v)) = OpSize(3, n)
      BY <2>1, OpPayloads DEF OpSize
    <3> QED
      BY <2>1, <2>2, <3>2, <3>3, <3>5, <3>6 DEF OpWritten, Writes
  <2> QED
    BY <2>1, <2>2, <2>3
<1>4. Correct(4)
  <2>1. /\ 4 \in OpTags /\ ExperimentalKinds[4] = "REQUEST"
        /\ OpImages(n)[4] = V0RequestImage /\ OpBodies(n)[4] = V0Request
    BY DEF OpTags, ExperimentalKinds, OpImages, OpBodies
  <2>2. DOMAIN V0RequestImage = V0Request /\ \A v \in V0Request : V0RequestImage[v] = ExperimentalBody("REQUEST", v)
    BY DEF V0RequestImage
  <2>3. ASSUME NEW v \in V0Request
        PROVE  OpWritten(4, n, v)
    <3>1. OpOf(4, v) = [kind |-> "REQUEST", body |-> v]
      BY <2>1 DEF OpOf
    <3>2. ExperimentalPayload(OpOf(4, v)) = ExperimentalBody("REQUEST", v)
      BY <3>1 DEF ExperimentalBody
    <3>3. v \in ExperimentalBodies[4]
      BY DEF ExperimentalBodies, V0Request
    <3>5. ExperimentalBody("REQUEST", v) \in Seq(Octet)
          /\ Len(ExperimentalBody("REQUEST", v)) = OpSize(4, n)
      <4>1. OpSize(4, n) = FixedPayload[4]
        BY <2>1, OpSizes
      <4> QED
        BY <4>1, V0RequestFields, FixedSizes, WidthFacts
    <3>6. ExperimentalPayloadSize(OpOf(4, v)) = OpSize(4, n)
      BY <2>1, OpPayloads DEF OpSize
    <3> QED
      BY <2>1, <2>2, <3>2, <3>3, <3>5, <3>6 DEF OpWritten, Writes
  <2> QED
    BY <2>1, <2>2, <2>3
<1>5. Correct(5)
  <2>1. /\ 5 \in OpTags /\ ExperimentalKinds[5] = "DATA"
        /\ OpImages(n)[5] = V0DataImage(n) /\ OpBodies(n)[5] = V0Data(n)
    BY DEF OpTags, ExperimentalKinds, OpImages, OpBodies
  <2>2. DOMAIN V0DataImage(n) = V0Data(n) /\ \A v \in V0Data(n) : V0DataImage(n)[v] = ExperimentalBody("DATA", v)
    BY DEF V0DataImage
  <2>3. ASSUME NEW v \in V0Data(n)
        PROVE  OpWritten(5, n, v)
    <3>1. OpOf(5, v) = [kind |-> "DATA", body |-> v]
      BY <2>1 DEF OpOf
    <3>2. ExperimentalPayload(OpOf(5, v)) = ExperimentalBody("DATA", v)
      BY <3>1 DEF ExperimentalBody
    <3>3. v \in ExperimentalBodies[5]
      BY DEF ExperimentalBodies, V0Data, Blocks
    <3>4. Len(v.payload) = n
      BY DEF V0Data, Blocks
    <3>5. ExperimentalBody("DATA", v) \in Seq(Octet)
          /\ Len(ExperimentalBody("DATA", v)) = OpSize(5, n)
      BY <3>4, V0DataFields, FixedSizes DEF OpSize
    <3>6. ExperimentalPayloadSize(OpOf(5, v)) = OpSize(5, n)
      BY <2>1, <3>4, OpPayloads DEF OpSize
    <3> QED
      BY <2>1, <2>2, <3>2, <3>3, <3>5, <3>6 DEF OpWritten, Writes
  <2> QED
    BY <2>1, <2>2, <2>3
<1>6. Correct(6)
  <2>1. /\ 6 \in OpTags /\ ExperimentalKinds[6] = "RECEIPT"
        /\ OpImages(n)[6] = V0ReceiptImage /\ OpBodies(n)[6] = V0Receipt
    BY DEF OpTags, ExperimentalKinds, OpImages, OpBodies
  <2>2. DOMAIN V0ReceiptImage = V0Receipt /\ \A v \in V0Receipt : V0ReceiptImage[v] = ExperimentalBody("RECEIPT", v)
    BY DEF V0ReceiptImage
  <2>3. ASSUME NEW v \in V0Receipt
        PROVE  OpWritten(6, n, v)
    <3>1. OpOf(6, v) = [kind |-> "RECEIPT", body |-> v]
      BY <2>1 DEF OpOf
    <3>2. ExperimentalPayload(OpOf(6, v)) = ExperimentalBody("RECEIPT", v)
      BY <3>1 DEF ExperimentalBody
    <3>3. v \in ExperimentalBodies[6]
      BY DEF ExperimentalBodies, V0Receipt
    <3>5. ExperimentalBody("RECEIPT", v) \in Seq(Octet)
          /\ Len(ExperimentalBody("RECEIPT", v)) = OpSize(6, n)
      <4>1. OpSize(6, n) = FixedPayload[6]
        BY <2>1, OpSizes
      <4> QED
        BY <4>1, V0ReceiptFields, FixedSizes, WidthFacts
    <3>6. ExperimentalPayloadSize(OpOf(6, v)) = OpSize(6, n)
      BY <2>1, OpPayloads DEF OpSize
    <3> QED
      BY <2>1, <2>2, <3>2, <3>3, <3>5, <3>6 DEF OpWritten, Writes
  <2> QED
    BY <2>1, <2>2, <2>3
<1>7. tag = 1 \/ tag = 2 \/ tag = 3 \/ tag = 4 \/ tag = 5 \/ tag = 6
  BY DEF OpTags
<1>8. Correct(tag)
  <2> HIDE DEF Correct
  <2> QED
    BY <1>1, <1>2, <1>3, <1>4, <1>5, <1>6, <1>7
<1> QED
  BY <1>8

LEMMA ReadsOp ==
    ASSUME NEW w \in Seq(Octet), NEW tag \in OpTags, NEW n \in Nat,
           tag = 5 => n = Len(w) - ExperimentalEnvelope - FixedPayload[5]
    PROVE  Reads(w, TakeExperimental(w)[tag], OpImages(n)[tag])
<1>1. Reads(w, TakeExperimental(w)[1], OpImages(n)[1])
  BY ReadsV0Capabilities DEF TakeExperimental, OpImages
<1>2. Reads(w, TakeExperimental(w)[2], OpImages(n)[2])
  BY ReadsV0Summary DEF TakeExperimental, OpImages
<1>3. Reads(w, TakeExperimental(w)[3], OpImages(n)[3])
  BY ReadsV0Offer DEF TakeExperimental, OpImages
<1>4. Reads(w, TakeExperimental(w)[4], OpImages(n)[4])
  BY ReadsV0Request DEF TakeExperimental, OpImages
<1>5. ASSUME tag = 5
      PROVE  Reads(w, TakeExperimental(w)[5], OpImages(n)[5])
  <2>1. n = Len(w) - ExperimentalEnvelope - FixedPayload[5]
    BY <1>5
  <2> QED
    BY <2>1, ReadsV0Data DEF TakeExperimental, OpImages
<1>6. Reads(w, TakeExperimental(w)[6], OpImages(n)[6])
  BY ReadsV0Receipt DEF TakeExperimental, OpImages
<1>7. tag = 1 \/ tag = 2 \/ tag = 3 \/ tag = 4 \/ tag = 5 \/ tag = 6
  BY DEF OpTags
<1> QED
  BY <1>1, <1>2, <1>3, <1>4, <1>5, <1>6, <1>7

\* Every operation is one by its tag.
LEMMA OpByTag ==
    ASSUME NEW op, IsExperimental(op)
    PROVE  \E tag \in OpTags : \E n \in Nat : \E v \in OpBodies(n)[tag] : op = OpOf(tag, v)
<1> DEFINE v == op.body
           n == Len(v.payload)
<1>1. PICK tag \in OpTags :
         op.kind = ExperimentalKinds[tag] /\ op.body \in ExperimentalBodies[tag]
  BY OpTagFacts DEF IsExperimental
<1>2. op = OpOf(tag, v)
  BY <1>1 DEF IsExperimental, OpOf
<1>3. CASE tag = 5
  <2>1. v \in [representation_id : Id16, offset : U64, payload : Seq(Octet)]
    BY <1>1, <1>3 DEF ExperimentalBodies
  <2>2. n \in Nat /\ v \in V0Data(n)
    BY <2>1 DEF V0Data, Blocks
  <2>3. OpBodies(n)[5] = V0Data(n)
    BY DEF OpBodies
  <2> QED
    BY <1>2, <1>3, <2>2, <2>3
<1>4. CASE tag # 5
  <2>1. tag = 1 \/ tag = 2 \/ tag = 3 \/ tag = 4 \/ tag = 6
    BY <1>4 DEF OpTags
  <2>2. OpBodies(0)[tag] = ExperimentalBodies[tag]
    <3>1. /\ OpBodies(0)[1] = ExperimentalBodies[1] /\ OpBodies(0)[2] = ExperimentalBodies[2]
          /\ OpBodies(0)[3] = ExperimentalBodies[3] /\ OpBodies(0)[4] = ExperimentalBodies[4]
          /\ OpBodies(0)[6] = ExperimentalBodies[6]
      BY DEF ExperimentalBodies, OpBodies, V0Capabilities, V0Summary, V0Offer, V0Request, V0Receipt
    <3> QED
      BY <2>1, <3>1
  <2> QED
    BY <1>1, <1>2, <2>2
<1> QED
  BY <1>3, <1>4

\* The octets of an operation that fits: its frame, then its image.
LEMMA OpFrames ==
    ASSUME NEW tag \in OpTags, NEW size \in U16
    PROVE  OpFrame(tag, size) \in Seq(Octet) /\ Len(OpFrame(tag, size)) = ExperimentalEnvelope
<1> DEFINE magic == ExperimentalMagic
           t == <<tag>>
           number == PutU16(size)
           front == magic \o t
<1>1. magic \in Seq(Octet) /\ Len(magic) = 2
  BY DEF ExperimentalMagic, Octet
<1>2. t \in Seq(Octet) /\ Len(t) = 1
  BY DEF Octet, OpTags
<1>3. number \in Seq(Octet) /\ Len(number) = Width.u16
  BY PutWidths
<1>4. OpFrame(tag, size) = front \o number
  BY DEF OpFrame
<1> HIDE DEF magic, t, number
<1>5. front \in Seq(Octet) /\ Len(front) = 3
  <2>1. front \in Seq(Octet) /\ Len(front) = Len(magic) + Len(t)
    BY <1>1, <1>2, Concat
  <2> HIDE DEF front
  <2> QED
    BY <1>1, <1>2, <2>1
<1> HIDE DEF front
<1>6. front \o number \in Seq(Octet) /\ Len(front \o number) = Len(front) + Len(number)
  BY <1>3, <1>5, Concat
<1> QED
  BY <1>3, <1>4, <1>5, <1>6, FixedSizes

LEMMA OpEncodes ==
    ASSUME NEW tag \in OpTags, NEW n \in Nat, NEW v \in OpBodies(n)[tag],
           OpSize(tag, n) < Pow256[Width.u16]
    PROVE  LET size == OpSize(tag, n)
               w == ExperimentalEncode(OpOf(tag, v))
           IN  /\ size \in U16
               /\ v \in DOMAIN OpImages(n)[tag] /\ OpImages(n)[tag][v] \in Seq(Octet)
               /\ Len(OpImages(n)[tag][v]) = size
               /\ w = OpFrame(tag, size) \o OpImages(n)[tag][v]
               /\ w \in Seq(Octet) /\ Len(w) = ExperimentalEnvelope + size
<1> DEFINE size == OpSize(tag, n)
           w == ExperimentalEncode(OpOf(tag, v))
           image == OpImages(n)[tag][v]
           front == OpFrame(tag, size)
<1>1. size \in U16
  BY OpSizes, WidthFacts, NumbersAreNaturals DEF U16
<1>2. OpWritten(tag, n, v)
  BY OpWrites
<1>3. /\ v \in DOMAIN OpImages(n)[tag] /\ image \in Seq(Octet) /\ Len(image) = size
      /\ image = ExperimentalPayload(OpOf(tag, v))
  BY <1>2 DEF OpWritten, Writes
<1>4. ExperimentalTag(OpOf(tag, v).kind) = tag
  BY OpTagFacts DEF OpOf
<1>5. w = front \o image
  BY <1>3, <1>4 DEF ExperimentalEncode, OpFrame
<1>6. front \in Seq(Octet) /\ Len(front) = ExperimentalEnvelope
  BY <1>1, OpFrames
<1> HIDE DEF size, w, image, front
<1>7. front \o image \in Seq(Octet) /\ Len(front \o image) = Len(front) + Len(image)
  BY <1>3, <1>6, Concat
<1>8. w \in Seq(Octet) /\ Len(w) = ExperimentalEnvelope + size
  BY <1>3, <1>5, <1>6, <1>7
<1> QED
  BY <1>1, <1>3, <1>5, <1>8 DEF size, w, image, front

\* The first octets of w say that an operation of that kind and size follows.
LEMMA OpEnvelopes ==
    ASSUME NEW w \in Seq(Octet), NEW tag \in OpTags, NEW n \in U16,
           Len(w) = ExperimentalEnvelope + n
    PROVE  ExperimentalEnvelopeHolds(w) /\ w[3] = tag
             <=> /\ Holds(w, 1, OpFrame(tag, n))
                 /\ tag = 5 => n >= FixedPayload[5]
                 /\ tag # 5 => n = FixedPayload[tag]
<1>1. PICK width \in Nat : width = Width.u16 /\ width >= 1
  BY WidthFacts
<1>2. ExperimentalEnvelope = 3 + width
  BY <1>1 DEF ExperimentalEnvelope
<1>3. PICK size \in Nat : size = Len(w)
  OBVIOUS
<1>4. n \in Nat
  BY WidthFacts, NumbersAreNaturals DEF U16
<1>5. /\ size = 3 + width + n /\ size >= 4 /\ Len(w) - ExperimentalEnvelope = n
      /\ ExperimentalEnvelope + 1 = 4 + width /\ Len(w) >= ExperimentalEnvelope
  BY <1>1, <1>2, <1>3, <1>4
<1>6. w[3] \in DOMAIN ExperimentalKinds <=> w[3] \in OpTags
  BY OpTagFacts
<1> DEFINE magic == ExperimentalMagic
           t == <<tag>>
           number == PutU16(n)
           front == magic \o t
<1>9. magic \in Seq(Octet) /\ Len(magic) = 2 /\ magic = <<66, 48>>
      /\ magic[1] = 66 /\ magic[2] = 48
  BY DEF ExperimentalMagic, Octet
<1>10. t \in Seq(Octet) /\ Len(t) = 1 /\ t[1] = tag
  BY DEF Octet, OpTags
<1>11. number \in Seq(Octet) /\ Len(number) = width /\ number = U16Image[n] /\ n \in DOMAIN U16Image
  BY <1>1, PutWidths, WidthImages
<1>12. OpFrame(tag, n) = front \o number
  BY DEF OpFrame
<1> HIDE DEF magic, t, number
<1>13. front \in Seq(Octet) /\ Len(front) = 3
  <2>1. front \in Seq(Octet) /\ Len(front) = Len(magic) + Len(t)
    BY <1>9, <1>10, Concat
  <2> HIDE DEF front
  <2> QED
    BY <1>9, <1>10, <2>1
<1>14. 1 \in Places(w) /\ 4 \in Places(w) /\ 1 + 2 = 3 /\ 1 + 3 = 4
  BY <1>3, <1>5 DEF Places
<1>15. Holds(w, 1, front) <=> Holds(w, 1, magic) /\ Holds(w, 3, t)
  <2>1. Holds(w, 1, magic \o t) <=> Holds(w, 1, magic) /\ Holds(w, 1 + Len(magic), t)
    <3>1. magic \in Seq(Octet) /\ t \in Seq(Octet) /\ 1 \in Places(w)
      BY <1>9, <1>10, <1>14
    <3> QED
      BY <3>1, HoldsConcat
  <2>2. 1 + Len(magic) = 3
    BY <1>9
  <2> QED
    BY <2>1, <2>2
<1>16. Holds(w, 1, OpFrame(tag, n)) <=> Holds(w, 1, front) /\ Holds(w, 4, number)
  <2> HIDE DEF front
  <2>1. Holds(w, 1, front \o number) <=> Holds(w, 1, front) /\ Holds(w, 1 + Len(front), number)
    BY <1>11, <1>13, <1>14, HoldsConcat
  <2> QED
    BY <1>12, <1>13, <1>14, <2>1
<1>17. Holds(w, 1, magic) <=> w[1] = 66 /\ w[2] = 48
  <2>1. Holds(w, 1, magic) <=> \A i \in {1, 2} : w[1 + i - 1] = magic[i]
    <3>1. 1 + 2 <= Len(w) + 1 /\ 1 .. 2 = {1, 2}
      BY <1>3, <1>5
    <3> QED
      BY <1>9, <3>1 DEF Holds
  <2>2. 1 + 1 - 1 = 1 /\ 1 + 2 - 1 = 2
    OBVIOUS
  <2> QED
    BY <1>9, <2>1, <2>2
<1>18. Holds(w, 3, t) <=> w[3] = tag
  <2>1. 3 + 1 <= Len(w) + 1 /\ 1 .. 1 = {1} /\ 3 + 1 - 1 = 3
    BY <1>3, <1>5
  <2> QED
    BY <1>10, <2>1 DEF Holds
<1>19. <<w[1], w[2]>> = ExperimentalMagic <=> w[1] = 66 /\ w[2] = 48
  BY <1>9 DEF magic
<1>20. Holds(w, 4, number) <=> TakeU16(w)[4] = Got(n, 4 + width)
  <2> DEFINE got == TakeU16(w)[4]
  <2>1. Reads(w, TakeU16(w), U16Image)
    BY ReadsWidths
  <2>2. Sound(w, got, 4, U16Image) /\ Complete(w, got, 4, U16Image)
    BY <1>14, <2>1 DEF Reads
  <2> HIDE DEF got
  <2>3. Holds(w, 4, number) => got = Got(n, 4 + width)
    BY <1>11, <2>2 DEF Complete
  <2>4. ASSUME got = Got(n, 4 + width)
        PROVE  Holds(w, 4, number)
    <3>1. PICK v \in DOMAIN U16Image :
             got = Got(v, 4 + Len(U16Image[v])) /\ Holds(w, 4, U16Image[v])
      BY <2>2, <2>4, GotFacts DEF Sound
    <3>2. v = n
      <4>1. got[1].value = v
        BY <3>1, GotFacts
      <4>2. got[1].value = n
        BY <2>4, GotFacts
      <4> QED
        BY <4>1, <4>2
    <3> QED
      BY <1>11, <3>1, <3>2
  <2> QED
    BY <2>3, <2>4 DEF got
<1>21. TakeU16(w)[4] = Got(Len(w) - ExperimentalEnvelope, ExperimentalEnvelope + 1)
          <=> TakeU16(w)[4] = Got(n, 4 + width)
  BY <1>5
<1>22. Holds(w, 1, OpFrame(tag, n)) <=>
          (w[1] = 66 /\ w[2] = 48) /\ w[3] = tag /\ TakeU16(w)[4] = Got(n, 4 + width)
  BY <1>15, <1>16, <1>17, <1>18, <1>20
<1>23. w[3] = tag =>
          (ExperimentalEnvelopeHolds(w) <=>
             /\ w[1] = 66 /\ w[2] = 48
             /\ TakeU16(w)[4] = Got(n, 4 + width)
             /\ IF tag = 5 THEN n >= FixedPayload[tag] ELSE n = FixedPayload[tag])
  BY <1>5, <1>6, <1>19, <1>21, OpTagFacts DEF ExperimentalEnvelopeHolds
<1> QED
  BY <1>22, <1>23

LEMMA OpEncodedAs ==
    ASSUME NEW w \in Seq(Octet),
           NEW tag \in OpTags, NEW n \in Nat, NEW v \in OpBodies(n)[tag],
           OpSize(tag, n) < Pow256[Width.u16]
    PROVE  w = ExperimentalEncode(OpOf(tag, v))
             <=> /\ Len(w) = ExperimentalEnvelope + OpSize(tag, n)
                 /\ Holds(w, 1, OpFrame(tag, OpSize(tag, n)))
                 /\ Holds(w, ExperimentalEnvelope + 1, OpImages(n)[tag][v])
<1> DEFINE size == OpSize(tag, n)
           image == OpImages(n)[tag][v]
           front == OpFrame(tag, size)
           whole == ExperimentalEncode(OpOf(tag, v))
<1>1. /\ size \in U16 /\ image \in Seq(Octet)
      /\ whole = front \o image
      /\ whole \in Seq(Octet) /\ Len(whole) = ExperimentalEnvelope + size
  BY OpEncodes
<1>2. front \in Seq(Octet) /\ Len(front) = ExperimentalEnvelope
  BY <1>1, OpFrames
<1> HIDE DEF size, image, front, whole
<1>3. w = whole <=> Holds(w, 1, whole) /\ Len(w) = Len(whole)
  BY <1>1, HoldsWhole
<1>4. 1 \in Places(w)
  BY DEF Places
<1>5. Holds(w, 1, front \o image) <=> Holds(w, 1, front) /\ Holds(w, 1 + Len(front), image)
  BY <1>1, <1>2, <1>4, HoldsConcat
<1>6. 1 + Len(front) = ExperimentalEnvelope + 1
  BY <1>2, FixedSizes
<1> QED
  BY <1>1, <1>3, <1>5, <1>6 DEF size, image, front, whole

\* What the decoder makes of the fields.
OpOutcome(tag, got) == IF got = << >> THEN << >> ELSE <<OpOf(tag, got[1].value)>>

LEMMA OpDecodes ==
    ASSUME NEW w
    PROVE  ExperimentalDecode(w) =
              IF ExperimentalEnvelopeHolds(w)
              THEN OpOutcome(w[3], TakeExperimental(w)[w[3]][ExperimentalEnvelope + 1])
              ELSE << >>
BY DEF ExperimentalDecode, OpOutcome, OpOf, Then

\* B0 encodes what it accepts to octets of the size it computed ...
LEMMA B0Fits ==
    ASSUME NEW op, IsExperimental(op), ExperimentalEncodable(op)
    PROVE  \E tag \in OpTags : \E n \in Nat : \E v \in OpBodies(n)[tag] :
              /\ op = OpOf(tag, v) /\ OpSize(tag, n) < Pow256[Width.u16]
              /\ ExperimentalPayloadSize(op) = OpSize(tag, n)
<1>1. PICK tag \in OpTags, n \in Nat : \E v \in OpBodies(n)[tag] : op = OpOf(tag, v)
  BY OpByTag
<1>2. PICK v \in OpBodies(n)[tag] : op = OpOf(tag, v)
  BY <1>1
<1>3. ExperimentalPayloadSize(op) = OpSize(tag, n)
  BY <1>2, OpWrites DEF OpWritten
<1> QED
  BY <1>2, <1>3 DEF ExperimentalEncodable

LEMMA B0Encodes ==
    ASSUME NEW op, IsExperimental(op), ExperimentalEncodable(op)
    PROVE  /\ ExperimentalEncode(op) \in Seq(Octet)
           /\ Len(ExperimentalEncode(op)) = ExperimentalSize(op)
           /\ ExperimentalSize(op) >= ExperimentalEnvelope
           /\ ExperimentalSize(op) <= ExperimentalEnvelope + Pow256[Width.u16] - 1
<1>1. PICK tag \in OpTags, n \in Nat : \E v \in OpBodies(n)[tag] :
         /\ op = OpOf(tag, v) /\ OpSize(tag, n) < Pow256[Width.u16]
         /\ ExperimentalPayloadSize(op) = OpSize(tag, n)
  BY B0Fits
<1>2. PICK v \in OpBodies(n)[tag] :
         /\ op = OpOf(tag, v) /\ OpSize(tag, n) < Pow256[Width.u16]
         /\ ExperimentalPayloadSize(op) = OpSize(tag, n)
  BY <1>1
<1>3. /\ ExperimentalEncode(op) \in Seq(Octet)
      /\ Len(ExperimentalEncode(op)) = ExperimentalEnvelope + OpSize(tag, n)
  BY <1>2, OpEncodes
<1>4. PICK size \in Nat, e \in Nat, p \in Nat :
         size = OpSize(tag, n) /\ e = ExperimentalEnvelope /\ p = Pow256[Width.u16]
  BY OpSizes, FixedSizes, WidthFacts, Pow256Facts
<1>5. ExperimentalSize(op) = e + size /\ size < p
  BY <1>2, <1>4 DEF ExperimentalSize
<1> QED
  BY <1>3, <1>4, <1>5

\* ... which it decodes to what it encoded.
LEMMA B0Receives ==
    ASSUME NEW op, IsExperimental(op), ExperimentalEncodable(op)
    PROVE  ExperimentalDecode(ExperimentalEncode(op)) = <<op>>
<1>1. PICK tag \in OpTags, n \in Nat : \E v \in OpBodies(n)[tag] :
         /\ op = OpOf(tag, v) /\ OpSize(tag, n) < Pow256[Width.u16]
         /\ ExperimentalPayloadSize(op) = OpSize(tag, n)
  BY B0Fits
<1>2. PICK v \in OpBodies(n)[tag] :
         /\ op = OpOf(tag, v) /\ OpSize(tag, n) < Pow256[Width.u16]
         /\ ExperimentalPayloadSize(op) = OpSize(tag, n)
  BY <1>1
<1> DEFINE w == ExperimentalEncode(op)
           size == OpSize(tag, n)
           image == OpImages(n)[tag][v]
           at == ExperimentalEnvelope + 1
           got == TakeExperimental(w)[tag][at]
<1>3. /\ w \in Seq(Octet) /\ size \in U16 /\ v \in DOMAIN OpImages(n)[tag]
      /\ image \in Seq(Octet) /\ Len(image) = size
  BY <1>2, OpEncodes
<1>4. Len(w) = ExperimentalEnvelope + size /\ Holds(w, 1, OpFrame(tag, size)) /\ Holds(w, at, image)
  BY <1>2, <1>3, OpEncodedAs
<1>5. PICK e \in Nat, z \in Nat, f \in Nat, l \in Nat :
         /\ e = ExperimentalEnvelope /\ z = size /\ f = FixedPayload[tag] /\ l = Len(w)
  BY <1>3, FixedSizes, OpSizes
<1>6. /\ l = e + z
      /\ tag = 5 => z = f + n
      /\ tag # 5 => z = f
  BY <1>4, <1>5, OpSizes
<1>7. tag = 5 => n = Len(w) - ExperimentalEnvelope - FixedPayload[5]
  BY <1>5, <1>6
<1>8. at \in Places(w)
  BY <1>5, <1>6 DEF Places
<1> HIDE DEF w, size, image, at
<1>9. ExperimentalEnvelopeHolds(w) /\ w[3] = tag
  <2>1. /\ tag = 5 => size >= FixedPayload[5]
        /\ tag # 5 => size = FixedPayload[tag]
    BY <1>5, <1>6
  <2> QED
    BY <1>3, <1>4, <2>1, OpEnvelopes
<1>10. Reads(w, TakeExperimental(w)[tag], OpImages(n)[tag])
  BY <1>3, <1>7, ReadsOp
<1>11. Complete(w, got, at, OpImages(n)[tag])
  BY <1>8, <1>10 DEF Reads
<1> HIDE DEF got
<1>12. got = Got(v, at + Len(image))
  BY <1>3, <1>4, <1>11 DEF Complete, image
<1>13. got # << >> /\ got[1].value = v
  BY <1>12, GotFacts
<1>14. OpOutcome(tag, got) = <<op>>
  BY <1>2, <1>13 DEF OpOutcome
<1>15. ExperimentalDecode(w) = OpOutcome(tag, got)
  BY <1>9, OpDecodes DEF got, at
<1> QED
  BY <1>14, <1>15 DEF w

\* What decodes is the image of what it decodes to.
LEMMA B0Decoded ==
    ASSUME NEW w \in Seq(Octet), ExperimentalDecode(w) # << >>
    PROVE  \E op : /\ IsExperimental(op) /\ ExperimentalEncodable(op)
                   /\ ExperimentalDecode(w) = <<op>> /\ ExperimentalEncode(op) = w
<1> DEFINE tag == w[3]
           at == ExperimentalEnvelope + 1
           size == Len(w) - ExperimentalEnvelope
           n == IF tag = 5 THEN size - FixedPayload[5] ELSE 0
           got == TakeExperimental(w)[tag][at]
<1>1. ExperimentalEnvelopeHolds(w) /\ ExperimentalDecode(w) = OpOutcome(tag, got)
  BY OpDecodes
<1>2. got # << >>
  <2> HIDE DEF got
  <2> QED
    BY <1>1 DEF OpOutcome
<1>3. /\ tag \in OpTags /\ Len(w) >= ExperimentalEnvelope
      /\ TakeU16(w)[4] = Got(size, at)
      /\ IF tag = 5 THEN size >= FixedPayload[tag] ELSE size = FixedPayload[tag]
  BY <1>1, OpTagFacts DEF ExperimentalEnvelopeHolds
<1>4. PICK e \in Nat, f \in Nat, l \in Nat :
         /\ e = ExperimentalEnvelope /\ f = FixedPayload[tag] /\ l = Len(w)
  BY <1>3, FixedSizes
<1>5. /\ size = l - e /\ l >= e
      /\ tag = 5 => size >= f
      /\ tag # 5 => size = f
  BY <1>3, <1>4
<1>6. n \in Nat /\ size \in Nat /\ OpSize(tag, n) = size /\ Len(w) = ExperimentalEnvelope + size
  <2>1. size \in Nat /\ Len(w) = ExperimentalEnvelope + size
    BY <1>4, <1>5
  <2>2. CASE tag = 5
    <3>1. n = size - f /\ n \in Nat
      BY <1>4, <1>5, <2>1, <2>2
    <3> HIDE DEF n, size
    <3>2. OpSize(tag, n) = f + n
      BY <1>3, <1>4, <2>2, <3>1, OpSizes
    <3> QED
      BY <1>5, <2>1, <3>1, <3>2
  <2>3. CASE tag # 5
    <3>1. n = 0
      BY <2>3
    <3> HIDE DEF n, size
    <3>2. OpSize(tag, n) = f
      BY <1>3, <1>4, <2>3, <3>1, OpSizes
    <3> QED
      BY <1>5, <2>1, <2>3, <3>1, <3>2
  <2> QED
    BY <2>2, <2>3
<1>7. 4 \in Places(w) /\ at \in Places(w)
  <2>1. e >= 4
    <3>1. PICK u \in Nat : u = Width.u16 /\ u >= 1
      BY WidthFacts
    <3>2. ExperimentalEnvelope = 3 + Width.u16
      BY FixedSizes
    <3> QED
      BY <1>4, <3>1, <3>2
  <2>2. at = e + 1 /\ e <= l
    BY <1>4, <1>5
  <2> HIDE DEF at
  <2> QED
    BY <1>4, <2>1, <2>2 DEF Places
<1>8. size \in U16
  <2>1. Sound(w, TakeU16(w)[4], 4, U16Image)
    BY <1>7, ReadsWidths DEF Reads
  <2>2. PICK k \in DOMAIN U16Image : TakeU16(w)[4] = Got(k, 4 + Len(U16Image[k]))
    BY <1>3, <2>1, GotFacts DEF Sound
  <2> HIDE DEF size, at
  <2>3. TakeU16(w)[4][1].value = size
    BY <1>3, GotFacts
  <2>4. TakeU16(w)[4][1].value = k
    BY <2>2, GotFacts
  <2> QED
    BY <2>2, <2>3, <2>4, WidthImages
<1>9. OpSize(tag, n) < Pow256[Width.u16]
  BY <1>6, <1>8, WidthFacts, NumbersAreNaturals DEF U16
<1>10. tag = 5 => n = Len(w) - ExperimentalEnvelope - FixedPayload[5]
  OBVIOUS
<1> HIDE DEF size, n
<1>11. Reads(w, TakeExperimental(w)[tag], OpImages(n)[tag])
  <2> HIDE DEF tag
  <2> QED
    BY <1>3, <1>6, <1>10, ReadsOp
<1>12. Sound(w, got, at, OpImages(n)[tag])
  BY <1>7, <1>11 DEF Reads
<1>13. PICK v \in DOMAIN OpImages(n)[tag] :
          got = Got(v, at + Len(OpImages(n)[tag][v])) /\ Holds(w, at, OpImages(n)[tag][v])
  <2> HIDE DEF got
  <2> QED
    BY <1>2, <1>12 DEF Sound
<1>14. v \in OpBodies(n)[tag]
  BY <1>3, <1>6, OpWrites
<1>15. Holds(w, 1, OpFrame(tag, size))
  <2>1. tag \in OpTags /\ size \in U16 /\ Len(w) = ExperimentalEnvelope + size
        /\ ExperimentalEnvelopeHolds(w) /\ w[3] = tag
    BY <1>1, <1>3, <1>6, <1>8
  <2> HIDE DEF tag
  <2> QED
    BY <2>1, OpEnvelopes
<1>16. w = ExperimentalEncode(OpOf(tag, v))
  <2>1. tag \in OpTags /\ n \in Nat /\ v \in OpBodies(n)[tag] /\ OpSize(tag, n) < Pow256[Width.u16]
        /\ Len(w) = ExperimentalEnvelope + OpSize(tag, n)
        /\ Holds(w, 1, OpFrame(tag, OpSize(tag, n)))
        /\ Holds(w, ExperimentalEnvelope + 1, OpImages(n)[tag][v])
    BY <1>3, <1>6, <1>9, <1>13, <1>14, <1>15
  <2> HIDE DEF tag
  <2> QED
    BY <2>1, OpEncodedAs
<1>17. OpOutcome(tag, got) = <<OpOf(tag, v)>>
  <2>1. got[1].value = v
    BY <1>13, GotFacts
  <2> HIDE DEF got
  <2> QED
    BY <1>2, <2>1 DEF OpOutcome
<1>18. IsExperimental(OpOf(tag, v)) /\ ExperimentalEncodable(OpOf(tag, v))
  <2>1. OpWritten(tag, n, v)
    BY <1>3, <1>6, <1>14, OpWrites
  <2>2. /\ v \in ExperimentalBodies[tag]
        /\ ExperimentalPayloadSize(OpOf(tag, v)) = OpSize(tag, n)
    BY <2>1 DEF OpWritten
  <2>3. OpOf(tag, v).kind = ExperimentalKinds[tag] /\ OpOf(tag, v).body = v
        /\ OpOf(tag, v) = [kind |-> OpOf(tag, v).kind, body |-> OpOf(tag, v).body]
    BY DEF OpOf
  <2> HIDE DEF tag
  <2>4. IsExperimental(OpOf(tag, v))
    BY <1>3, <2>2, <2>3, OpTagFacts DEF IsExperimental
  <2>5. OpOf(tag, v).kind = "OFFER" => v.kind \in RepresentationKinds
    <3>1. ASSUME ExperimentalKinds[tag] = "OFFER"
          PROVE  v.kind \in RepresentationKinds
      <4>1. tag = 3
        BY <1>3, <3>1 DEF ExperimentalKinds, OpTags
      <4>2. v \in [representation_id : Id16, kind : RepresentationKinds, size : U64, digest : Id,
                   schema_fingerprint : Id16]
        BY <2>2, <4>1 DEF ExperimentalBodies
      <4> QED
        BY <4>2
    <3> QED
      BY <2>3, <3>1
  <2>6. OpOf(tag, v).kind = "RECEIPT" => v.stage \in ReceiptStages
    <3>1. ASSUME ExperimentalKinds[tag] = "RECEIPT"
          PROVE  v.stage \in ReceiptStages
      <4>1. tag = 6
        BY <1>3, <3>1 DEF ExperimentalKinds, OpTags
      <4>2. v \in [representation_id : Id16, stage : ReceiptStages, digest : Id]
        BY <2>2, <4>1 DEF ExperimentalBodies
      <4> QED
        BY <4>2
    <3> QED
      BY <2>3, <3>1
  <2> QED
    BY <1>9, <2>2, <2>3, <2>4, <2>5, <2>6 DEF ExperimentalEncodable
<1> QED
  BY <1>1, <1>16, <1>17, <1>18

---------------------------------------------------------------------------
(* The message representation.                                             *)

\* A text that may be written: the longest length stands for an absent one.
ShortTexts == {text \in Seq(Ascii) : Len(text) \in U16 /\ Len(text) # NullLength}

ShortImage == [text \in ShortTexts |-> PutShort(text)]
NullableImage == [text \in Option(ShortTexts) |-> PutNullable(text)]

LEMMA AsciiTexts == \A text \in Seq(Ascii) : text \in Seq(Octet)
<1>1. Ascii \subseteq Octet
  BY DEF Ascii, Octet
<1> QED
  BY <1>1

LEMMA NullLengths ==
    /\ NullLength \in U16 /\ NullLength \in Nat /\ U16 \subseteq Nat
    /\ \A n \in Nat : n < NullLength => n \in U16
<1>1. PICK p \in Nat : p = Pow256[Width.u16] /\ p >= 1
  BY WidthFacts, Pow256Facts
<1>2. NullLength = p - 1
  BY <1>1 DEF NullLength
<1>3. U16 = 0 .. (p - 1)
  BY <1>1 DEF U16, Numbers
<1> QED
  BY <1>1, <1>2, <1>3

LEMMA ShortWrites ==
    /\ DOMAIN ShortImage = ShortTexts
    /\ \A text \in ShortTexts : Writes(ShortImage, text, PutShort(text), ShortSize(text))
<1>1. ASSUME NEW text \in ShortTexts
      PROVE  /\ PutShort(text) \in Seq(Octet) /\ Len(PutShort(text)) = ShortSize(text)
  <2> DEFINE number == PutU16(Len(text))
  <2>1. number \in Seq(Octet) /\ Len(number) = Width.u16
    BY PutWidths DEF ShortTexts
  <2>2. text \in Seq(Octet)
    BY AsciiTexts DEF ShortTexts
  <2>3. PutShort(text) = number \o text
    BY DEF PutShort, PutOctets
  <2> HIDE DEF number
  <2> QED
    BY <2>1, <2>2, <2>3, Concat DEF ShortSize
<1> QED
  BY <1>1 DEF ShortImage, Writes

LEMMA NullableWrites ==
    /\ DOMAIN NullableImage = Option(ShortTexts)
    /\ \A text \in Option(ShortTexts) :
          Writes(NullableImage, text, PutNullable(text), NullableSize(text))
    /\ \A text \in Option(ShortTexts) :
          text = << >> \/ \E t \in ShortTexts : text = <<t>>
    /\ \A t \in ShortTexts : <<t>> \in Option(ShortTexts)
    /\ << >> \in Option(ShortTexts)
<1>1. ASSUME NEW text \in Option(ShortTexts)
      PROVE  text = << >> \/ \E t \in ShortTexts : text = <<t>>
  <2>1. text \in Seq(ShortTexts) /\ Len(text) <= 1
    BY DEF Option, Lists
  <2>2. Len(text) = 0 \/ Len(text) = 1
    <3>1. PICK k \in Nat : k = Len(text)
      BY <2>1
    <3> QED
      BY <2>1, <3>1
  <2>3. Len(text) = 0 => text = << >>
    BY <2>1
  <2>4. Len(text) = 1 => text = <<text[1]>> /\ text[1] \in ShortTexts
    BY <2>1
  <2> QED
    BY <2>2, <2>3, <2>4
<1>2. ASSUME NEW t \in ShortTexts
      PROVE  <<t>> \in Option(ShortTexts)
  BY DEF Option, Lists
<1>3. << >> \in Option(ShortTexts)
  BY DEF Option, Lists
<1>4. ASSUME NEW text \in Option(ShortTexts)
      PROVE  PutNullable(text) \in Seq(Octet) /\ Len(PutNullable(text)) = NullableSize(text)
  <2>1. CASE text = << >>
    <3>1. PutNullable(text) = PutU16(NullLength)
      BY <2>1 DEF PutNullable
    <3>2. NullableSize(text) = Width.u16
      BY <2>1, WidthFacts DEF NullableSize
    <3> QED
      BY <3>1, <3>2, NullLengths, PutWidths
  <2>2. CASE text # << >>
    <3>1. PICK t \in ShortTexts : text = <<t>>
      BY <1>1, <2>2
    <3>2. text[1] = t
      BY <3>1
    <3>3. PutNullable(text) = PutShort(t) /\ NullableSize(text) = ShortSize(t)
      BY <2>2, <3>2 DEF PutNullable, NullableSize, ShortSize
    <3> QED
      BY <3>3, ShortWrites DEF Writes
  <2> QED
    BY <2>1, <2>2
<1> QED
  BY <1>1, <1>2, <1>3, <1>4 DEF NullableImage, Writes

\* After the length: nothing, or the text.
AfterLength(w, length) ==
    [at \in Positions |->
        IF length = NullLength THEN Got(<< >>, at)
        ELSE Then(Take(w, at, length), LAMBDA text, next :
                IF text \in Seq(Ascii) THEN Got(<<text>>, next) ELSE << >>)]

TextBlocks(length) == {octets \in Blocks(length) : octets \in Seq(Ascii)}

AfterLengthImage(length) ==
    IF length = NullLength THEN [text \in {<< >>} |-> << >>]
    ELSE [text \in {<<t>> : t \in TextBlocks(length)} |-> text[1]]

LEMMA ReadsAfterLength ==
    ASSUME NEW w \in Seq(Octet), NEW length \in U16
    PROVE  Reads(w, AfterLength(w, length), AfterLengthImage(length))
<1> DEFINE Reader == AfterLength(w, length)
           put == AfterLengthImage(length)
<1>1. CASE length = NullLength
  <2>1. DOMAIN put = {<< >>} /\ put[<< >>] = << >>
    BY <1>1 DEF AfterLengthImage
  <2>2. ASSUME NEW at \in Places(w)
        PROVE  Reader[at] = Got(<< >>, at) /\ Holds(w, at, << >>) /\ at + Len(<< >>) = at
    <3>1. Reader[at] = Got(<< >>, at)
      BY <1>1, ThenPlace DEF AfterLength
    <3>2. at + Len(<< >>) = at /\ at <= Len(w) + 1
      BY DEF Places
    <3>3. Holds(w, at, << >>)
      BY <3>2 DEF Holds
    <3> QED
      BY <3>1, <3>2, <3>3
  <2> HIDE DEF Reader, put
  <2>3. Images(put)
    <3>1. << >> \in Seq(Octet)
      OBVIOUS
    <3> QED
      BY <2>1, <3>1 DEF Images
  <2>4. ASSUME NEW at \in Places(w)
        PROVE  Sound(w, Reader[at], at, put) /\ Complete(w, Reader[at], at, put)
    BY <2>1, <2>2 DEF Sound, Complete
  <2>5. Reads(w, Reader, put)
    BY <2>3, <2>4, ReadsBy
  <2> QED
    BY <2>5 DEF Reader, put
<1>2. CASE length # NullLength
  <2> DEFINE convert == [octets \in TextBlocks(length) |-> <<octets>>]
             Raw == TakeExactly(w, length)
             raw == BlockImage(length)
  <2>1. length \in Nat
    BY NullLengths
  <2>2. Reads(w, Raw, raw)
    BY <2>1, ReadsExactly
  <2>3. DOMAIN raw = Blocks(length) /\ \A octets \in Blocks(length) : raw[octets] = octets
    BY DEF BlockImage
  <2>4. /\ DOMAIN put = {<<t>> : t \in TextBlocks(length)}
        /\ \A t \in TextBlocks(length) : put[<<t>>] = t
    BY <1>2 DEF AfterLengthImage
  <2>5. /\ DOMAIN convert = TextBlocks(length)
        /\ \A t \in TextBlocks(length) : convert[t] = <<t>>
    OBVIOUS
  <2>6. ASSUME NEW at \in Places(w)
        PROVE  Raw[at] = Take(w, at, length)
    BY ThenPlace DEF TakeExactly
  <2>7. ASSUME NEW at \in Places(w)
        PROVE  Reader[at] = IF Take(w, at, length) = << >> THEN << >>
                            ELSE IF Take(w, at, length)[1].value \in Seq(Ascii)
                            THEN Got(<<Take(w, at, length)[1].value>>, Take(w, at, length)[1].next)
                            ELSE << >>
    BY <1>2, ThenPlace DEF AfterLength, Then
  <2> HIDE DEF Reader, put, convert, Raw, raw
  <2>8. Converts(w, Reader, Raw, convert)
    <3> SUFFICES ASSUME NEW at \in Places(w)
                 PROVE  Reader[at] = IF Raw[at] = << >> THEN << >>
                                     ELSE IF Raw[at][1].value \in DOMAIN convert
                                     THEN Got(convert[Raw[at][1].value], Raw[at][1].next)
                                     ELSE << >>
      BY DEF Converts
    <3>1. Raw[at] # << >> => Raw[at][1].value \in Blocks(length)
      BY <2>2, <2>3, ThenFacts
    <3>2. Raw[at] # << >> =>
             (Raw[at][1].value \in DOMAIN convert <=> Raw[at][1].value \in Seq(Ascii))
      BY <2>5, <3>1 DEF TextBlocks
    <3>3. Raw[at] # << >> /\ Raw[at][1].value \in Seq(Ascii) =>
             convert[Raw[at][1].value] = <<Raw[at][1].value>>
      BY <2>5, <3>2
    <3>4. Raw[at] = Take(w, at, length)
      BY <2>6
    <3>5. Reader[at] = IF Raw[at] = << >> THEN << >>
                       ELSE IF Raw[at][1].value \in Seq(Ascii)
                       THEN Got(<<Raw[at][1].value>>, Raw[at][1].next)
                       ELSE << >>
      BY <2>7, <3>4
    <3> QED
      BY <3>2, <3>3, <3>5
  <2>9. SameImages(convert, raw, put)
    <3>1. ASSUME NEW x \in DOMAIN convert
          PROVE  x \in DOMAIN raw /\ convert[x] \in DOMAIN put /\ put[convert[x]] = raw[x]
      <4>1. x \in TextBlocks(length) /\ x \in Blocks(length) /\ convert[x] = <<x>>
        BY <2>5 DEF TextBlocks
      <4> QED
        BY <2>3, <2>4, <4>1
    <3>2. ASSUME NEW v \in DOMAIN put
          PROVE  \E x \in DOMAIN convert : convert[x] = v
      <4>1. PICK t \in TextBlocks(length) : v = <<t>>
        BY <2>4
      <4> QED
        BY <2>5, <4>1
    <3> QED
      BY <3>1, <3>2 DEF SameImages
  <2>10. Reads(w, Reader, put)
    BY <2>2, <2>8, <2>9, ReadsConverted
  <2> QED
    BY <2>10 DEF Reader, put
<1> QED
  BY <1>1, <1>2

LEMMA ReadsNullable ==
    ASSUME NEW w \in Seq(Octet)
    PROVE  Reads(w, TakeNullable(w), NullableImage)
<1> DEFINE Rest == [length \in U16 |-> AfterLength(w, length)]
           rest == [length \in U16 |-> AfterLengthImage(length)]
           Reader == TakeNullable(w)
           First == TakeU16(w)
<1>1. \A length \in U16 : Rest[length] = AfterLength(w, length) /\ rest[length] = AfterLengthImage(length)
  OBVIOUS
<1>2. ASSUME NEW length \in U16
      PROVE  Reads(w, Rest[length], rest[length])
  BY <1>1, ReadsAfterLength
<1>3. Reads(w, First, U16Image)
  BY ReadsWidths
<1>4. ASSUME NEW at \in Places(w)
      PROVE  Reader[at] =
                IF First[at] = << >> THEN << >>
                ELSE IF First[at][1].value = NullLength THEN Got(<< >>, First[at][1].next)
                ELSE Then(Take(w, First[at][1].next, First[at][1].value), LAMBDA text, next :
                        IF text \in Seq(Ascii) THEN Got(<<text>>, next) ELSE << >>)
  BY ThenPlace DEF TakeNullable, Then
<1>5. ASSUME NEW length \in U16, NEW from \in Places(w)
      PROVE  Rest[length][from] =
                IF length = NullLength THEN Got(<< >>, from)
                ELSE Then(Take(w, from, length), LAMBDA text, next :
                        IF text \in Seq(Ascii) THEN Got(<<text>>, next) ELSE << >>)
  BY <1>1, ThenPlace DEF AfterLength
<1> HIDE DEF Rest, rest, Reader, First
<1>6. Continues(w, Reader, First, U16, Rest)
  <2> SUFFICES ASSUME NEW at \in Places(w)
               PROVE  Reader[at] = IF First[at] = << >> THEN << >>
                                   ELSE IF First[at][1].value \in U16
                                   THEN Rest[First[at][1].value][First[at][1].next]
                                   ELSE << >>
    BY DEF Continues
  <2>1. First[at] # << >> => First[at][1].value \in U16 /\ First[at][1].next \in Places(w)
    BY <1>3, ThenFacts, WidthImages
  <2> QED
    BY <1>4, <1>5, <2>1
<1>7. JoinedImages(U16, U16Image, rest, NullableImage)
  <2>1. \A length \in U16 : length \in DOMAIN U16Image
    BY WidthImages
  <2>2. ASSUME NEW length \in U16, NEW v \in DOMAIN rest[length]
        PROVE  v \in DOMAIN NullableImage /\ NullableImage[v] = U16Image[length] \o rest[length][v]
    <3>1. rest[length] = AfterLengthImage(length) /\ U16Image[length] = PutU16(length)
      BY <1>1, WidthImages
    <3>2. CASE length = NullLength
      <4>1. v = << >> /\ rest[length][v] = << >>
        BY <3>1, <3>2 DEF AfterLengthImage
      <4>2. v \in DOMAIN NullableImage /\ NullableImage[v] = PutU16(NullLength)
        BY <4>1, NullableWrites DEF Writes, PutNullable
      <4> DEFINE number == PutU16(NullLength)
      <4>3. number \in Seq(Octet) /\ U16Image[length] = number
        BY <3>1, <3>2, NullLengths, PutWidths
      <4> HIDE DEF number
      <4>4. number \o << >> = number
        BY <4>3
      <4> QED
        BY <4>1, <4>2, <4>3, <4>4 DEF number
    <3>3. CASE length # NullLength
      <4>1. PICK t \in TextBlocks(length) : v = <<t>>
        BY <3>1, <3>3 DEF AfterLengthImage
      <4>2. rest[length][v] = t
        BY <3>1, <3>3, <4>1 DEF AfterLengthImage
      <4>3. t \in Seq(Ascii) /\ Len(t) = length
        BY DEF TextBlocks, Blocks
      <4>4. t \in ShortTexts
        BY <3>3, <4>3 DEF ShortTexts
      <4>5. v # << >> /\ v[1] = t
        BY <4>1
      <4>6. NullableImage[v] = PutU16(Len(t)) \o t /\ v \in DOMAIN NullableImage
        BY <4>1, <4>4, <4>5, NullableWrites DEF Writes, PutNullable, PutShort, PutOctets
      <4> QED
        BY <3>1, <4>2, <4>3, <4>6
    <3> QED
      BY <3>2, <3>3
  <2>3. ASSUME NEW v \in DOMAIN NullableImage
        PROVE  \E length \in U16 : v \in DOMAIN rest[length]
    <3>1. v = << >> \/ \E t \in ShortTexts : v = <<t>>
      BY NullableWrites
    <3>2. ASSUME v = << >>
          PROVE  v \in DOMAIN rest[NullLength]
      BY <1>1, <3>2, NullLengths DEF AfterLengthImage
    <3>3. ASSUME NEW t \in ShortTexts, v = <<t>>
          PROVE  Len(t) \in U16 /\ v \in DOMAIN rest[Len(t)]
      <4>1. t \in Seq(Ascii) /\ Len(t) \in U16 /\ Len(t) # NullLength
        BY DEF ShortTexts
      <4>2. t \in TextBlocks(Len(t))
        BY <4>1, AsciiTexts DEF TextBlocks, Blocks
      <4>3. rest[Len(t)] = AfterLengthImage(Len(t))
        BY <1>1, <4>1
      <4> QED
        BY <3>3, <4>1, <4>2, <4>3 DEF AfterLengthImage
    <3> QED
      BY <3>1, <3>2, <3>3, NullLengths
  <2> QED
    BY <2>1, <2>2, <2>3, Zenon DEF JoinedImages
<1>8. Reads(w, Reader, NullableImage)
  BY <1>2, <1>3, <1>6, <1>7, ReadsJoined
<1> QED
  BY <1>8 DEF Reader

LEMMA ReadsShort ==
    ASSUME NEW w \in Seq(Octet)
    PROVE  Reads(w, TakeShort(w), ShortImage)
<1> DEFINE Given == {<<t>> : t \in ShortTexts}
           convert == [text \in Given |-> text[1]]
           Reader == TakeShort(w)
           Raw == TakeNullable(w)
<1>1. \A t \in ShortTexts : <<t>> \in Given /\ convert[<<t>>] = t
  OBVIOUS
<1>2. DOMAIN convert = Given /\ \A x \in Given : \E t \in ShortTexts : x = <<t>>
  OBVIOUS
<1>3. Reads(w, Raw, NullableImage)
  BY ReadsNullable
<1>4. ASSUME NEW at \in Places(w)
      PROVE  Reader[at] = IF Raw[at] = << >> THEN << >>
                          ELSE IF Raw[at][1].value = << >> THEN << >>
                          ELSE Got(Raw[at][1].value[1], Raw[at][1].next)
  BY ThenPlace DEF TakeShort, Then
<1>5. \A x \in Option(ShortTexts) : x \in Given <=> x # << >>
  <2>1. \A t \in ShortTexts : <<t>> # << >>
    OBVIOUS
  <2> QED
    BY <1>1, <1>2, <2>1, NullableWrites
<1>6. \A x \in Given : convert[x] = x[1]
  OBVIOUS
<1> HIDE DEF Given, convert, Reader, Raw
<1>7. Converts(w, Reader, Raw, convert)
  <2> SUFFICES ASSUME NEW at \in Places(w)
               PROVE  Reader[at] = IF Raw[at] = << >> THEN << >>
                                   ELSE IF Raw[at][1].value \in DOMAIN convert
                                   THEN Got(convert[Raw[at][1].value], Raw[at][1].next)
                                   ELSE << >>
    BY DEF Converts
  <2>1. Raw[at] # << >> => Raw[at][1].value \in Option(ShortTexts)
    BY <1>3, ThenFacts, NullableWrites
  <2> QED
    BY <1>2, <1>4, <1>5, <1>6, <2>1
<1>8. SameImages(convert, NullableImage, ShortImage)
  <2>1. ASSUME NEW x \in DOMAIN convert
        PROVE  /\ x \in DOMAIN NullableImage /\ convert[x] \in DOMAIN ShortImage
               /\ ShortImage[convert[x]] = NullableImage[x]
    <3>1. PICK t \in ShortTexts : x = <<t>>
      BY <1>2
    <3>2. convert[x] = t /\ x # << >> /\ x[1] = t /\ x \in Option(ShortTexts)
      BY <1>1, <3>1, NullableWrites
    <3> QED
      BY <3>2, NullableWrites, ShortWrites DEF Writes, PutNullable
  <2>2. \A v \in DOMAIN ShortImage : \E x \in DOMAIN convert : convert[x] = v
    BY <1>1, <1>2, ShortWrites
  <2> QED
    BY <2>1, <2>2 DEF SameImages
<1>9. Reads(w, Reader, ShortImage)
  BY <1>3, <1>7, <1>8, ReadsConverted
<1> QED
  BY <1>9 DEF Reader

AttachmentNames == << "part_id", "filename", "media_type", "representation_id", "size",
                      "digest" >>
AttachmentPuts ==
    << Id16Image, ShortImage, ShortImage, Id16Image, U64Image, IdImage >>
FitAttachment ==
    [ part_id : Id16, filename : ShortTexts, media_type : ShortTexts,
      representation_id : Id16, size : U64, digest : Id ]
AttachmentImage == [a \in FitAttachment |-> PutAttachment(a)]

LEMMA AttachmentFields ==
    /\ Assembles(6, AttachmentNames, AttachmentPuts, AttachmentImage)
    /\ \A a \in FitAttachment :
          /\ PutAttachment(a) \in Seq(Octet)
          /\ Len(PutAttachment(a)) =
                Width.id16 +
                ShortSize(a.filename) + ShortSize(a.media_type) + Width.id16 +
                Width.u64 + Width.id
<1>1. \A i \in 1 .. 6 : \A j \in 1 .. 6 : AttachmentNames[i] = AttachmentNames[j] => i = j
  BY DEF AttachmentNames
<1>2. Fields(AttachmentNames, 6) =
         {"part_id", "filename", "media_type",
          "representation_id", "size", "digest"}
  BY DEF AttachmentNames, Fields
<1>3. /\ DOMAIN AttachmentPuts[1] = Id16
      /\ DOMAIN AttachmentPuts[2] = ShortTexts
      /\ DOMAIN AttachmentPuts[3] = ShortTexts
      /\ DOMAIN AttachmentPuts[4] = Id16
      /\ DOMAIN AttachmentPuts[5] = U64
      /\ DOMAIN AttachmentPuts[6] = Id
  BY WidthWrites, ShortWrites DEF AttachmentPuts
<1>4. ASSUME NEW a \in FitAttachment
      PROVE  /\ Writes(AttachmentPuts[1], a.part_id,
                       PutId16(a.part_id), Width.id16)
             /\ Writes(AttachmentPuts[2], a.filename,
                       PutShort(a.filename), ShortSize(a.filename))
             /\ Writes(AttachmentPuts[3], a.media_type,
                       PutShort(a.media_type), ShortSize(a.media_type))
             /\ Writes(AttachmentPuts[4], a.representation_id,
                       PutId16(a.representation_id), Width.id16)
             /\ Writes(AttachmentPuts[5], a.size,
                       PutU64(a.size), Width.u64)
             /\ Writes(AttachmentPuts[6], a.digest,
                       PutId(a.digest), Width.id)
  BY WidthWrites, ShortWrites DEF AttachmentPuts, FitAttachment
<1>5. ASSUME NEW a \in FitAttachment
      PROVE  /\ a = [name \in Fields(AttachmentNames, 6) |-> a[name]]
             /\ \A i \in 1 .. 6 : a[AttachmentNames[i]] \in DOMAIN AttachmentPuts[i]
             /\ PutAttachment(a) =
                   FlattenSeq([i \in 1 .. 6 |-> AttachmentPuts[i][a[AttachmentNames[i]]]])
             /\ PutAttachment(a) \in Seq(Octet)
             /\ Len(PutAttachment(a)) =
                   Width.id16 +
                   ShortSize(a.filename) + ShortSize(a.media_type) + Width.id16 +
                   Width.u64 + Width.id
  <2> DEFINE image ==
             << PutId16(a.part_id), PutShort(a.filename),
                PutShort(a.media_type), PutId16(a.representation_id), PutU64(a.size),
                PutId(a.digest) >>
             size ==
             << Width.id16, ShortSize(a.filename),
                ShortSize(a.media_type), Width.id16, Width.u64, Width.id >>
  <2>1. a = [name \in {"part_id", "filename", "media_type", "representation_id", "size",
                  "digest"} |-> a[name]]
    BY DEF FitAttachment
  <2>2. \A i \in 1 .. 6 : Writes(AttachmentPuts[i], a[AttachmentNames[i]], image[i], size[i])
    <3>1. Writes(AttachmentPuts[1], a[AttachmentNames[1]], image[1], size[1])
      BY <1>4 DEF AttachmentNames
    <3>2. Writes(AttachmentPuts[2], a[AttachmentNames[2]], image[2], size[2])
      BY <1>4 DEF AttachmentNames
    <3>3. Writes(AttachmentPuts[3], a[AttachmentNames[3]], image[3], size[3])
      BY <1>4 DEF AttachmentNames
    <3>4. Writes(AttachmentPuts[4], a[AttachmentNames[4]], image[4], size[4])
      BY <1>4 DEF AttachmentNames
    <3>5. Writes(AttachmentPuts[5], a[AttachmentNames[5]], image[5], size[5])
      BY <1>4 DEF AttachmentNames
    <3>6. Writes(AttachmentPuts[6], a[AttachmentNames[6]], image[6], size[6])
      BY <1>4 DEF AttachmentNames
    <3> HIDE DEF image, size
    <3> QED
      BY <3>1, <3>2, <3>3, <3>4, <3>5, <3>6
  <2>3. PutAttachment(a) = image[1] \o image[2] \o image[3] \o image[4] \o image[5] \o
            image[6]
    BY DEF PutAttachment
  <2>4. size[1] + size[2] + size[3] + size[4] + size[5] + size[6] =
          Width.id16 + ShortSize(a.filename) + ShortSize(a.media_type) + Width.id16 +
          Width.u64 + Width.id
    OBVIOUS
  <2>5. image = [i \in 1 .. 6 |-> image[i]]
    OBVIOUS
  <2> HIDE DEF image, size
  <2>6. /\ \A i \in 1 .. 6 : a[AttachmentNames[i]] \in DOMAIN AttachmentPuts[i]
        /\ [i \in 1 .. 6 |-> AttachmentPuts[i][a[AttachmentNames[i]]]] = image
        /\ image \in [1 .. 6 -> Seq(Octet)]
        /\ \A i \in 1 .. 6 : Len(image[i]) = size[i]
    <3>1. \A i \in 1 .. 6 :
             /\ a[AttachmentNames[i]] \in DOMAIN AttachmentPuts[i]
             /\ AttachmentPuts[i][a[AttachmentNames[i]]] = image[i]
             /\ image[i] \in Seq(Octet) /\ Len(image[i]) = size[i]
      BY <2>2 DEF Writes
    <3>2. [i \in 1 .. 6 |-> AttachmentPuts[i][a[AttachmentNames[i]]]] = [i \in 1 .. 6 |-> image[i]]
      BY <3>1
    <3>3. [i \in 1 .. 6 |-> image[i]] \in [1 .. 6 -> Seq(Octet)]
      BY <3>1
    <3> QED
      BY <2>5, <3>1, <3>2, <3>3
  <2>7. /\ FlattenSeq(image) \in Seq(Octet)
        /\ FlattenSeq(image) = image[1] \o image[2] \o image[3] \o image[4] \o
                              image[5] \o image[6]
        /\ Len(FlattenSeq(image)) = Len(image[1]) + Len(image[2]) + Len(image[3]) +
                                    Len(image[4]) + Len(image[5]) + Len(image[6])
    BY <2>6, Parts6
  <2>8. /\ Len(image[1]) = size[1]
        /\ Len(image[2]) = size[2]
        /\ Len(image[3]) = size[3]
        /\ Len(image[4]) = size[4]
        /\ Len(image[5]) = size[5]
        /\ Len(image[6]) = size[6]
    BY <2>6
  <2>9. Len(FlattenSeq(image)) = size[1] + size[2] + size[3] + size[4] + size[5] +
                                 size[6]
    BY <2>7, <2>8
  <2> QED
    BY <1>2, <2>1, <2>3, <2>4, <2>6, <2>7, <2>9
<1>6. ASSUME NEW values \in Tuples(AttachmentPuts, 6)
      PROVE  \E a \in FitAttachment : \A i \in 1 .. 6 : a[AttachmentNames[i]] = values[i]
  <2>1. /\ values[1] \in Id16
        /\ values[2] \in ShortTexts
        /\ values[3] \in ShortTexts
        /\ values[4] \in Id16
        /\ values[5] \in U64
        /\ values[6] \in Id
    BY <1>3 DEF Tuples
  <2> DEFINE a == [ part_id |-> values[1], filename |-> values[2],
                    media_type |-> values[3], representation_id |-> values[4],
                    size |-> values[5], digest |-> values[6] ]
  <2>2. a \in FitAttachment
    BY <2>1 DEF FitAttachment
  <2>3. \A i \in 1 .. 6 : a[AttachmentNames[i]] = values[i]
    BY DEF AttachmentNames
  <2> HIDE DEF a
  <2> QED
    BY <2>2, <2>3
<1>7. DOMAIN AttachmentImage = FitAttachment /\ \A a \in FitAttachment : AttachmentImage[a] = PutAttachment(a)
  BY DEF AttachmentImage
<1> QED
  BY <1>1, <1>5, <1>6, <1>7 DEF Assembles

LEMMA ReadsAttachment ==
    ASSUME NEW w \in Seq(Octet)
    PROVE  Reads(w, TakeAttachment(w), AttachmentImage)
<1> DEFINE fields ==
         << <<"part_id", TakeId16(w)>>,
            <<"filename", TakeShort(w)>>, <<"media_type", TakeShort(w)>>,
            <<"representation_id", TakeId16(w)>>, <<"size", TakeU64(w)>>,
            <<"digest", TakeId(w)>> >>
<1>1. fields[1][1] = AttachmentNames[1] /\ Reads(w, fields[1][2], AttachmentPuts[1])
  <2>1. Reads(w, TakeId16(w), Id16Image)
    BY ReadsWidths
  <2>2. fields[1] = <<"part_id", TakeId16(w)>>
    OBVIOUS
  <2> HIDE DEF fields
  <2> QED
    BY <2>1, <2>2 DEF AttachmentNames, AttachmentPuts
<1>2. fields[2][1] = AttachmentNames[2] /\ Reads(w, fields[2][2], AttachmentPuts[2])
  <2>1. Reads(w, TakeShort(w), ShortImage)
    BY ReadsShort
  <2>2. fields[2] = <<"filename", TakeShort(w)>>
    OBVIOUS
  <2> HIDE DEF fields
  <2> QED
    BY <2>1, <2>2 DEF AttachmentNames, AttachmentPuts
<1>3. fields[3][1] = AttachmentNames[3] /\ Reads(w, fields[3][2], AttachmentPuts[3])
  <2>1. Reads(w, TakeShort(w), ShortImage)
    BY ReadsShort
  <2>2. fields[3] = <<"media_type", TakeShort(w)>>
    OBVIOUS
  <2> HIDE DEF fields
  <2> QED
    BY <2>1, <2>2 DEF AttachmentNames, AttachmentPuts
<1>4. fields[4][1] = AttachmentNames[4] /\ Reads(w, fields[4][2], AttachmentPuts[4])
  <2>1. Reads(w, TakeId16(w), Id16Image)
    BY ReadsWidths
  <2>2. fields[4] = <<"representation_id", TakeId16(w)>>
    OBVIOUS
  <2> HIDE DEF fields
  <2> QED
    BY <2>1, <2>2 DEF AttachmentNames, AttachmentPuts
<1>5. fields[5][1] = AttachmentNames[5] /\ Reads(w, fields[5][2], AttachmentPuts[5])
  <2>1. Reads(w, TakeU64(w), U64Image)
    BY ReadsWidths
  <2>2. fields[5] = <<"size", TakeU64(w)>>
    OBVIOUS
  <2> HIDE DEF fields
  <2> QED
    BY <2>1, <2>2 DEF AttachmentNames, AttachmentPuts
<1>6. fields[6][1] = AttachmentNames[6] /\ Reads(w, fields[6][2], AttachmentPuts[6])
  <2>1. Reads(w, TakeId(w), IdImage)
    BY ReadsWidths
  <2>2. fields[6] = <<"digest", TakeId(w)>>
    OBVIOUS
  <2> HIDE DEF fields
  <2> QED
    BY <2>1, <2>2 DEF AttachmentNames, AttachmentPuts
<1>7. DOMAIN fields = 1 .. 6 /\ 6 \in Nat
  OBVIOUS
<1>8. TakeAttachment(w) = TakeFields(fields)
  BY DEF TakeAttachment
<1> HIDE DEF fields
<1>9. FieldsRead(w, 6, fields, AttachmentNames, AttachmentPuts)
  BY <1>1, <1>2, <1>3, <1>4, <1>5, <1>6 DEF FieldsRead
<1>10. Assembles(6, AttachmentNames, AttachmentPuts, AttachmentImage)
  BY AttachmentFields
<1>11. Reads(w, TakeFields(fields), AttachmentImage)
  BY <1>7, <1>9, <1>10, ReadsFields
<1> QED
  BY <1>8, <1>11

\* The body, and the two lists.
BodyTexts == Accepted(OctetsImage(U32Image, MaxBodyOctets), Seq(Ascii))
RecipientList == ListImage(ShortImage, 1 .. MaxRecipients)
RecipientLists == {list \in Seq(ShortTexts) : Len(list) \in 1 .. MaxRecipients}
AttachmentList == ListImage(AttachmentImage, 0 .. MaxAttachments)

LEMMA MessageBounds ==
    /\ MaxShortTextOctets \in Nat /\ MaxShortTextOctets >= 1 /\ MaxShortTextOctets < NullLength
    /\ MaxBodyOctets \in Nat /\ MaxBodyOctets \in U32
    /\ MaxRecipients \in Nat /\ MaxRecipients >= 1 /\ MaxAttachments \in Nat
    /\ 1 .. MaxRecipients \in SUBSET Octet /\ 0 .. MaxAttachments \in SUBSET Octet
<1>1. PICK p \in Nat : p = Pow256[Width.u16] /\ p >= 1
  BY WidthFacts, Pow256Facts
<1>2. NullLength = p - 1 /\ MaxShortTextOctets \in 1 .. (p - 2)
  BY <1>1, MessageAssumption DEF NullLength
<1>3. /\ MaxShortTextOctets \in Nat /\ MaxShortTextOctets >= 1 /\ MaxShortTextOctets < NullLength
  BY <1>1, <1>2
<1>4. MaxBodyOctets \in Nat /\ MaxBodyOctets \in U32
  BY MessageAssumption, WidthFacts, NumbersAreNaturals DEF U32
<1>5. MaxRecipients \in 1 .. 255 /\ MaxAttachments \in 1 .. 255
  BY MessageAssumption, Zenon
<1>6. 1 .. MaxRecipients \in SUBSET Octet /\ 0 .. MaxAttachments \in SUBSET Octet
  <2>1. PICK r \in 1 .. 255, a \in 1 .. 255 : r = MaxRecipients /\ a = MaxAttachments
    BY <1>5, Zenon
  <2>2. ASSUME NEW x \in 1 .. r
        PROVE  x \in Octet
    BY DEF Octet
  <2>3. ASSUME NEW x \in 0 .. a
        PROVE  x \in Octet
    BY DEF Octet
  <2> QED
    BY <2>1, <2>2, <2>3
<1> QED
  BY <1>3, <1>4, <1>5, <1>6

LEMMA BodyTextWrites ==
    /\ DOMAIN BodyTexts = Lists(Ascii, MaxBodyOctets)
    /\ \A x \in Lists(Ascii, MaxBodyOctets) :
          Writes(BodyTexts, x, (PutU32(Len(x)) \o x), (Width.u32 + Len(x)))
<1> DEFINE put == OctetsImage(U32Image, MaxBodyOctets)
<1>1. /\ DOMAIN put = OctetsOf(U32Image, MaxBodyOctets)
      /\ \A x \in OctetsOf(U32Image, MaxBodyOctets) : put[x] = U32Image[Len(x)] \o x
  BY DEF OctetsImage
<1>2. \A n \in Nat : n <= MaxBodyOctets => n \in U32
  BY MessageBounds, WidthFacts, NumbersAreNaturals DEF U32
<1>3. ASSUME NEW x \in Lists(Ascii, MaxBodyOctets)
      PROVE  x \in OctetsOf(U32Image, MaxBodyOctets) /\ Len(x) \in U32 /\ x \in Seq(Octet)
  <2>1. x \in Seq(Ascii) /\ x \in Seq(Octet) /\ Len(x) \in Nat /\ Len(x) <= MaxBodyOctets
    BY AsciiTexts DEF Lists
  <2>2. Len(x) \in U32
    BY <1>2, <2>1
  <2> QED
    BY <2>1, <2>2, WidthImages DEF OctetsOf
<1>4. \A x \in OctetsOf(U32Image, MaxBodyOctets) : x \in Seq(Ascii) => x \in Lists(Ascii, MaxBodyOctets)
  BY DEF OctetsOf, Lists
<1> HIDE DEF put
<1>5. /\ DOMAIN BodyTexts = {x \in DOMAIN put : x \in Seq(Ascii)}
      /\ \A x \in DOMAIN put : x \in Seq(Ascii) => BodyTexts[x] = put[x]
  BY DEF BodyTexts, Accepted, put
<1>6. DOMAIN BodyTexts = Lists(Ascii, MaxBodyOctets)
  <2>1. \A x \in Lists(Ascii, MaxBodyOctets) : x \in Seq(Ascii)
    BY DEF Lists
  <2> QED
    BY <1>1, <1>3, <1>4, <1>5, <2>1
<1>7. ASSUME NEW x \in Lists(Ascii, MaxBodyOctets)
      PROVE  Writes(BodyTexts, x, (PutU32(Len(x)) \o x), (Width.u32 + Len(x)))
  <2> DEFINE number == PutU32(Len(x))
  <2>1. x \in Seq(Octet) /\ number \in Seq(Octet) /\ Len(number) = Width.u32
        /\ U32Image[Len(x)] = number
    BY <1>3, PutWidths, WidthImages
  <2>2. BodyTexts[x] = U32Image[Len(x)] \o x
    BY <1>1, <1>3, <1>5 DEF Lists
  <2> HIDE DEF number
  <2>3. number \o x \in Seq(Octet) /\ Len(number \o x) = Width.u32 + Len(x)
    BY <2>1, Concat
  <2> QED
    BY <1>6, <2>1, <2>2, <2>3 DEF Writes, number
<1> QED
  BY <1>6, <1>7

LEMMA RecipientWrites ==
    /\ DOMAIN RecipientList = RecipientLists
    /\ \A list \in RecipientLists :
          Writes(RecipientList, list, PutList(PutShort, list), (1 + SumOver(ShortSize, list)))
<1>1. /\ DOMAIN ShortImage = ShortTexts
      /\ \A x \in ShortTexts : ShortImage[x] = PutShort(x) /\ PutShort(x) \in Seq(Octet)
      /\ \A x \in ShortTexts : Len(PutShort(x)) = ShortSize(x)
  BY ShortWrites DEF Writes
<1>2. Images(ShortImage) /\ ListsOf(ShortImage, 1 .. MaxRecipients) = RecipientLists
  BY <1>1 DEF Images, ListsOf, RecipientLists
<1>3. DOMAIN RecipientList = RecipientLists
  BY <1>2 DEF ListImage, RecipientList
<1>4. ASSUME NEW list \in RecipientLists
      PROVE  Writes(RecipientList, list, PutList(PutShort, list), (1 + SumOver(ShortSize, list)))
  <2>1. \A i \in DOMAIN list : list[i] \in ShortTexts
    BY DEF RecipientLists
  <2>2. [i \in DOMAIN list |-> ShortImage[list[i]]] = [i \in DOMAIN list |-> PutShort(list[i])]
    BY <1>1, <2>1
  <2>3. PutList(PutShort, list) = <<Len(list)>> \o FlattenSeq([i \in DOMAIN list |-> PutShort(list[i])])
    BY DEF PutList, PutAll
  <2>4. [i \in DOMAIN list |-> Len(ShortImage[list[i]])] = [i \in DOMAIN list |-> ShortSize(list[i])]
    BY <1>1, <2>1
  <2>5. Writes(RecipientList, list,
               <<Len(list)>> \o FlattenSeq([i \in DOMAIN list |-> ShortImage[list[i]]]),
               1 + SumOf([i \in DOMAIN list |-> Len(ShortImage[list[i]])]))
    BY <1>2, MessageBounds, ListWrites DEF RecipientList
  <2>6. SumOver(ShortSize, list) = SumOf([i \in DOMAIN list |-> ShortSize(list[i])])
    BY DEF SumOver
  <2> QED
    BY <2>2, <2>3, <2>4, <2>5, <2>6
<1> QED
  BY <1>3, <1>4

LEMMA AttachmentWrites ==
    /\ DOMAIN AttachmentList = Lists(FitAttachment, MaxAttachments)
    /\ \A list \in Lists(FitAttachment, MaxAttachments) :
          Writes(AttachmentList, list, PutList(PutAttachment, list),
                 (1 + SumOver(AttachmentSize, list)))
<1>1. /\ DOMAIN AttachmentImage = FitAttachment
      /\ \A x \in FitAttachment :
            AttachmentImage[x] = PutAttachment(x) /\ PutAttachment(x) \in Seq(Octet)
      /\ \A x \in FitAttachment : Len(PutAttachment(x)) = AttachmentSize(x)
  BY AttachmentFields DEF AttachmentImage, AttachmentSize
<1>2. Images(AttachmentImage)
      /\ ListsOf(AttachmentImage, 0 .. MaxAttachments) = Lists(FitAttachment, MaxAttachments)
  BY <1>1, MessageBounds, ListsFacts DEF Images
<1>3. DOMAIN AttachmentList = Lists(FitAttachment, MaxAttachments)
  BY <1>2 DEF ListImage, AttachmentList
<1>4. ASSUME NEW list \in Lists(FitAttachment, MaxAttachments)
      PROVE  Writes(AttachmentList, list, PutList(PutAttachment, list),
                    (1 + SumOver(AttachmentSize, list)))
  <2>1. \A i \in DOMAIN list : list[i] \in FitAttachment
    BY DEF Lists
  <2>2. [i \in DOMAIN list |-> AttachmentImage[list[i]]] = [i \in DOMAIN list |-> PutAttachment(list[i])]
    BY <1>1, <2>1
  <2>3. PutList(PutAttachment, list) =
           <<Len(list)>> \o FlattenSeq([i \in DOMAIN list |-> PutAttachment(list[i])])
    BY DEF PutList, PutAll
  <2>4. [i \in DOMAIN list |-> Len(AttachmentImage[list[i]])] =
           [i \in DOMAIN list |-> AttachmentSize(list[i])]
    BY <1>1, <2>1
  <2>5. Writes(AttachmentList, list,
               <<Len(list)>> \o FlattenSeq([i \in DOMAIN list |-> AttachmentImage[list[i]]]),
               1 + SumOf([i \in DOMAIN list |-> Len(AttachmentImage[list[i]])]))
    BY <1>2, MessageBounds, ListWrites DEF AttachmentList
  <2>6. SumOver(AttachmentSize, list) = SumOf([i \in DOMAIN list |-> AttachmentSize(list[i])])
    BY DEF SumOver
  <2> QED
    BY <2>2, <2>3, <2>4, <2>5, <2>6
<1> QED
  BY <1>3, <1>4

LEMMA ReadsMessageParts ==
    ASSUME NEW w \in Seq(Octet)
    PROVE  /\ Reads(w, TakeList(w, TakeShort(w), 1 .. MaxRecipients), RecipientList)
           /\ Reads(w, Checked(TakeOctets(w, TakeU32(w), MaxBodyOctets), Seq(Ascii)), BodyTexts)
           /\ Reads(w, TakeList(w, TakeAttachment(w), 0 .. MaxAttachments), AttachmentList)
<1>1. Reads(w, TakeList(w, TakeShort(w), 1 .. MaxRecipients), RecipientList)
  BY MessageBounds, ReadsShort, ReadsList DEF RecipientList
<1>2. Reads(w, TakeList(w, TakeAttachment(w), 0 .. MaxAttachments), AttachmentList)
  BY MessageBounds, ReadsAttachment, ReadsList DEF AttachmentList
<1>3. Reads(w, TakeOctets(w, TakeU32(w), MaxBodyOctets), OctetsImage(U32Image, MaxBodyOctets))
  <2>1. DOMAIN U32Image \subseteq Nat /\ MaxBodyOctets \in Nat
    BY MessageBounds, WidthImages, WidthFacts, NumbersAreNaturals DEF U32
  <2> QED
    BY <2>1, ReadsWidths, ReadsOctets
<1>4. Reads(w, Checked(TakeOctets(w, TakeU32(w), MaxBodyOctets), Seq(Ascii)), BodyTexts)
  BY <1>3, ReadsChecked DEF BodyTexts
<1> QED
  BY <1>1, <1>2, <1>4

MessageNames == << "logical_id", "created_at", "sender", "recipients", "subject",
                   "body", "attachments" >>
MessagePuts ==
    << Id16Image, U64Image, ShortImage, RecipientList, NullableImage,
       BodyTexts, AttachmentList >>
FitMessage ==
    [ logical_id : Id16, created_at : U64, sender : ShortTexts,
      recipients : RecipientLists, subject : Option(ShortTexts),
      body : Lists(Ascii, MaxBodyOctets),
      attachments : Lists(FitAttachment, MaxAttachments) ]
MessageImage == [m \in FitMessage |-> PutMessage(m)]

LEMMA MessageFields ==
    /\ Assembles(7, MessageNames, MessagePuts, MessageImage)
    /\ \A m \in FitMessage :
          /\ PutMessage(m) \in Seq(Octet)
          /\ Len(PutMessage(m)) =
                Width.id16 + Width.u64 +
                ShortSize(m.sender) + (1 + SumOver(ShortSize, m.recipients)) +
                NullableSize(m.subject) + (Width.u32 + Len(m.body)) +
                (1 + SumOver(AttachmentSize, m.attachments))
<1>1. \A i \in 1 .. 7 : \A j \in 1 .. 7 : MessageNames[i] = MessageNames[j] => i = j
  BY DEF MessageNames
<1>2. Fields(MessageNames, 7) =
         {"logical_id", "created_at", "sender",
          "recipients", "subject", "body", "attachments"}
  BY DEF MessageNames, Fields
<1>3. /\ DOMAIN MessagePuts[1] = Id16
      /\ DOMAIN MessagePuts[2] = U64
      /\ DOMAIN MessagePuts[3] = ShortTexts
      /\ DOMAIN MessagePuts[4] = RecipientLists
      /\ DOMAIN MessagePuts[5] = Option(ShortTexts)
      /\ DOMAIN MessagePuts[6] = Lists(Ascii, MaxBodyOctets)
      /\ DOMAIN MessagePuts[7] = Lists(FitAttachment, MaxAttachments)
  BY WidthWrites, ShortWrites, RecipientWrites, NullableWrites, BodyTextWrites,
     AttachmentWrites DEF MessagePuts
<1>4. ASSUME NEW m \in FitMessage
      PROVE  /\ Writes(MessagePuts[1], m.logical_id,
                       PutId16(m.logical_id), Width.id16)
             /\ Writes(MessagePuts[2], m.created_at,
                       PutU64(m.created_at), Width.u64)
             /\ Writes(MessagePuts[3], m.sender,
                       PutShort(m.sender), ShortSize(m.sender))
             /\ Writes(MessagePuts[4], m.recipients,
                       PutList(PutShort, m.recipients), (1 + SumOver(ShortSize, m.recipients)))
             /\ Writes(MessagePuts[5], m.subject,
                       PutNullable(m.subject), NullableSize(m.subject))
             /\ Writes(MessagePuts[6], m.body,
                       (PutU32(Len(m.body)) \o m.body), (Width.u32 + Len(m.body)))
             /\ Writes(MessagePuts[7], m.attachments,
                       PutList(PutAttachment, m.attachments), (1 + SumOver(AttachmentSize, m.attachments)))
  BY WidthWrites, ShortWrites, RecipientWrites, NullableWrites, BodyTextWrites,
     AttachmentWrites DEF MessagePuts, FitMessage
<1>5. ASSUME NEW m \in FitMessage
      PROVE  /\ m = [name \in Fields(MessageNames, 7) |-> m[name]]
             /\ \A i \in 1 .. 7 : m[MessageNames[i]] \in DOMAIN MessagePuts[i]
             /\ PutMessage(m) =
                   FlattenSeq([i \in 1 .. 7 |-> MessagePuts[i][m[MessageNames[i]]]])
             /\ PutMessage(m) \in Seq(Octet)
             /\ Len(PutMessage(m)) =
                   Width.id16 + Width.u64 +
                   ShortSize(m.sender) + (1 + SumOver(ShortSize, m.recipients)) +
                   NullableSize(m.subject) + (Width.u32 + Len(m.body)) +
                   (1 + SumOver(AttachmentSize, m.attachments))
  <2> DEFINE image ==
             << PutId16(m.logical_id), PutU64(m.created_at),
                PutShort(m.sender), PutList(PutShort, m.recipients),
                PutNullable(m.subject), (PutU32(Len(m.body)) \o m.body),
                PutList(PutAttachment, m.attachments) >>
             size ==
             << Width.id16, Width.u64, ShortSize(m.sender),
                (1 + SumOver(ShortSize, m.recipients)), NullableSize(m.subject),
                (Width.u32 + Len(m.body)), (1 + SumOver(AttachmentSize, m.attachments)) >>
  <2>1. m = [name \in {"logical_id", "created_at", "sender", "recipients", "subject",
                  "body", "attachments"} |-> m[name]]
    BY DEF FitMessage
  <2>2. \A i \in 1 .. 7 : Writes(MessagePuts[i], m[MessageNames[i]], image[i], size[i])
    <3>1. Writes(MessagePuts[1], m[MessageNames[1]], image[1], size[1])
      BY <1>4 DEF MessageNames
    <3>2. Writes(MessagePuts[2], m[MessageNames[2]], image[2], size[2])
      BY <1>4 DEF MessageNames
    <3>3. Writes(MessagePuts[3], m[MessageNames[3]], image[3], size[3])
      BY <1>4 DEF MessageNames
    <3>4. Writes(MessagePuts[4], m[MessageNames[4]], image[4], size[4])
      BY <1>4 DEF MessageNames
    <3>5. Writes(MessagePuts[5], m[MessageNames[5]], image[5], size[5])
      BY <1>4 DEF MessageNames
    <3>6. Writes(MessagePuts[6], m[MessageNames[6]], image[6], size[6])
      BY <1>4 DEF MessageNames
    <3>7. Writes(MessagePuts[7], m[MessageNames[7]], image[7], size[7])
      BY <1>4 DEF MessageNames
    <3> HIDE DEF image, size
    <3> QED
      BY <3>1, <3>2, <3>3, <3>4, <3>5, <3>6, <3>7
  <2>3. PutMessage(m) = image[1] \o image[2] \o image[3] \o image[4] \o image[5] \o
            image[6] \o image[7]
    BY DEF PutMessage
  <2>4. size[1] + size[2] + size[3] + size[4] + size[5] + size[6] + size[7] =
          Width.id16 + Width.u64 + ShortSize(m.sender) +
          (1 + SumOver(ShortSize, m.recipients)) + NullableSize(m.subject) +
          (Width.u32 + Len(m.body)) + (1 + SumOver(AttachmentSize, m.attachments))
    OBVIOUS
  <2>5. image = [i \in 1 .. 7 |-> image[i]]
    OBVIOUS
  <2> HIDE DEF image, size
  <2>6. /\ \A i \in 1 .. 7 : m[MessageNames[i]] \in DOMAIN MessagePuts[i]
        /\ [i \in 1 .. 7 |-> MessagePuts[i][m[MessageNames[i]]]] = image
        /\ image \in [1 .. 7 -> Seq(Octet)]
        /\ \A i \in 1 .. 7 : Len(image[i]) = size[i]
    <3>1. \A i \in 1 .. 7 :
             /\ m[MessageNames[i]] \in DOMAIN MessagePuts[i]
             /\ MessagePuts[i][m[MessageNames[i]]] = image[i]
             /\ image[i] \in Seq(Octet) /\ Len(image[i]) = size[i]
      BY <2>2 DEF Writes
    <3>2. [i \in 1 .. 7 |-> MessagePuts[i][m[MessageNames[i]]]] = [i \in 1 .. 7 |-> image[i]]
      BY <3>1
    <3>3. [i \in 1 .. 7 |-> image[i]] \in [1 .. 7 -> Seq(Octet)]
      BY <3>1
    <3> QED
      BY <2>5, <3>1, <3>2, <3>3
  <2>7. /\ FlattenSeq(image) \in Seq(Octet)
        /\ FlattenSeq(image) = image[1] \o image[2] \o image[3] \o image[4] \o
                              image[5] \o image[6] \o image[7]
        /\ Len(FlattenSeq(image)) = Len(image[1]) + Len(image[2]) + Len(image[3]) +
                                    Len(image[4]) + Len(image[5]) + Len(image[6]) +
                                    Len(image[7])
    BY <2>6, Parts7
  <2>8. /\ Len(image[1]) = size[1]
        /\ Len(image[2]) = size[2]
        /\ Len(image[3]) = size[3]
        /\ Len(image[4]) = size[4]
        /\ Len(image[5]) = size[5]
        /\ Len(image[6]) = size[6]
        /\ Len(image[7]) = size[7]
    BY <2>6
  <2>9. Len(FlattenSeq(image)) = size[1] + size[2] + size[3] + size[4] + size[5] +
                                 size[6] + size[7]
    BY <2>7, <2>8
  <2> QED
    BY <1>2, <2>1, <2>3, <2>4, <2>6, <2>7, <2>9
<1>6. ASSUME NEW values \in Tuples(MessagePuts, 7)
      PROVE  \E m \in FitMessage : \A i \in 1 .. 7 : m[MessageNames[i]] = values[i]
  <2>1. /\ values[1] \in Id16
        /\ values[2] \in U64
        /\ values[3] \in ShortTexts
        /\ values[4] \in RecipientLists
        /\ values[5] \in Option(ShortTexts)
        /\ values[6] \in Lists(Ascii, MaxBodyOctets)
        /\ values[7] \in Lists(FitAttachment, MaxAttachments)
    BY <1>3 DEF Tuples
  <2> DEFINE m == [ logical_id |-> values[1], created_at |-> values[2],
                    sender |-> values[3], recipients |-> values[4],
                    subject |-> values[5], body |-> values[6], attachments |-> values[7] ]
  <2>2. m \in FitMessage
    BY <2>1 DEF FitMessage
  <2>3. \A i \in 1 .. 7 : m[MessageNames[i]] = values[i]
    BY DEF MessageNames
  <2> HIDE DEF m
  <2> QED
    BY <2>2, <2>3
<1>7. DOMAIN MessageImage = FitMessage /\ \A m \in FitMessage : MessageImage[m] = PutMessage(m)
  BY DEF MessageImage
<1> QED
  BY <1>1, <1>5, <1>6, <1>7 DEF Assembles

LEMMA ReadsMessage ==
    ASSUME NEW w \in Seq(Octet)
    PROVE  Reads(w, TakeMessage(w), MessageImage)
<1> DEFINE fields ==
         << <<"logical_id", TakeId16(w)>>,
            <<"created_at", TakeU64(w)>>, <<"sender", TakeShort(w)>>,
            <<"recipients", TakeList(w, TakeShort(w), 1 .. MaxRecipients)>>,
            <<"subject", TakeNullable(w)>>,
            <<"body", Checked(TakeOctets(w, TakeU32(w), MaxBodyOctets), Seq(Ascii))>>,
            <<"attachments", TakeList(w, TakeAttachment(w), 0 .. MaxAttachments)>> >>
<1>1. fields[1][1] = MessageNames[1] /\ Reads(w, fields[1][2], MessagePuts[1])
  <2>1. Reads(w, TakeId16(w), Id16Image)
    BY ReadsWidths
  <2>2. fields[1] = <<"logical_id", TakeId16(w)>>
    OBVIOUS
  <2> HIDE DEF fields
  <2> QED
    BY <2>1, <2>2 DEF MessageNames, MessagePuts
<1>2. fields[2][1] = MessageNames[2] /\ Reads(w, fields[2][2], MessagePuts[2])
  <2>1. Reads(w, TakeU64(w), U64Image)
    BY ReadsWidths
  <2>2. fields[2] = <<"created_at", TakeU64(w)>>
    OBVIOUS
  <2> HIDE DEF fields
  <2> QED
    BY <2>1, <2>2 DEF MessageNames, MessagePuts
<1>3. fields[3][1] = MessageNames[3] /\ Reads(w, fields[3][2], MessagePuts[3])
  <2>1. Reads(w, TakeShort(w), ShortImage)
    BY ReadsShort
  <2>2. fields[3] = <<"sender", TakeShort(w)>>
    OBVIOUS
  <2> HIDE DEF fields
  <2> QED
    BY <2>1, <2>2 DEF MessageNames, MessagePuts
<1>4. fields[4][1] = MessageNames[4] /\ Reads(w, fields[4][2], MessagePuts[4])
  <2>1. Reads(w, TakeList(w, TakeShort(w), 1 .. MaxRecipients), RecipientList)
    BY ReadsMessageParts
  <2>2. fields[4] = <<"recipients", TakeList(w, TakeShort(w), 1 .. MaxRecipients)>>
    OBVIOUS
  <2> HIDE DEF fields
  <2> QED
    BY <2>1, <2>2 DEF MessageNames, MessagePuts
<1>5. fields[5][1] = MessageNames[5] /\ Reads(w, fields[5][2], MessagePuts[5])
  <2>1. Reads(w, TakeNullable(w), NullableImage)
    BY ReadsNullable
  <2>2. fields[5] = <<"subject", TakeNullable(w)>>
    OBVIOUS
  <2> HIDE DEF fields
  <2> QED
    BY <2>1, <2>2 DEF MessageNames, MessagePuts
<1>6. fields[6][1] = MessageNames[6] /\ Reads(w, fields[6][2], MessagePuts[6])
  <2>1. Reads(w, Checked(TakeOctets(w, TakeU32(w), MaxBodyOctets), Seq(Ascii)), BodyTexts)
    BY ReadsMessageParts
  <2>2. fields[6] = <<"body", Checked(TakeOctets(w, TakeU32(w), MaxBodyOctets), Seq(Ascii))>>
    OBVIOUS
  <2> HIDE DEF fields
  <2> QED
    BY <2>1, <2>2 DEF MessageNames, MessagePuts
<1>7. fields[7][1] = MessageNames[7] /\ Reads(w, fields[7][2], MessagePuts[7])
  <2>1. Reads(w, TakeList(w, TakeAttachment(w), 0 .. MaxAttachments), AttachmentList)
    BY ReadsMessageParts
  <2>2. fields[7] = <<"attachments", TakeList(w, TakeAttachment(w), 0 .. MaxAttachments)>>
    OBVIOUS
  <2> HIDE DEF fields
  <2> QED
    BY <2>1, <2>2 DEF MessageNames, MessagePuts
<1>8. DOMAIN fields = 1 .. 7 /\ 7 \in Nat
  OBVIOUS
<1>9. TakeMessage(w) = TakeFields(fields)
  BY DEF TakeMessage
<1> HIDE DEF fields
<1>10. FieldsRead(w, 7, fields, MessageNames, MessagePuts)
  BY <1>1, <1>2, <1>3, <1>4, <1>5, <1>6, <1>7 DEF FieldsRead
<1>11. Assembles(7, MessageNames, MessagePuts, MessageImage)
  BY MessageFields
<1>12. Reads(w, TakeFields(fields), MessageImage)
  BY <1>8, <1>10, <1>11, ReadsFields
<1> QED
  BY <1>9, <1>12


\* A valid message is one the representation can hold.
LEMMA ShortFits ==
    ASSUME NEW text \in Seq(Ascii), ValidShort(text)
    PROVE  text \in ShortTexts
<1>1. PICK n \in Nat, m \in Nat, l \in Nat :
         n = Len(text) /\ m = MaxShortTextOctets /\ l = NullLength /\ m < l
  BY MessageBounds, NullLengths
<1>2. n <= m
  BY <1>1 DEF ValidShort
<1>3. n < l
  BY <1>1, <1>2
<1>4. Len(text) \in U16
  BY <1>1, <1>3, NullLengths
<1>5. Len(text) # NullLength
  BY <1>1, <1>3
<1> QED
  BY <1>4, <1>5 DEF ShortTexts

LEMMA SubjectFits ==
    ASSUME NEW subject \in Option(Seq(Ascii)), \A text \in ToSet(subject) : ValidShort(text)
    PROVE  subject \in Option(ShortTexts)
<1>1. subject \in Seq(Seq(Ascii)) /\ Len(subject) <= 1
  BY DEF Option, Lists
<1>2. \A i \in 1 .. Len(subject) : subject[i] \in ShortTexts
  <2>1. ASSUME NEW i \in 1 .. Len(subject)
        PROVE  subject[i] \in ShortTexts
    <3>1. subject[i] \in ToSet(subject) /\ subject[i] \in Seq(Ascii)
      BY <1>1 DEF ToSet
    <3> QED
      BY <3>1, ShortFits
  <2> QED
    BY <2>1
<1>3. subject \in Seq(ShortTexts)
  BY <1>1, <1>2
<1> QED
  BY <1>1, <1>3 DEF Option, Lists

LEMMA AttachmentFits ==
    ASSUME NEW a \in AttachmentDescriptor, ValidAttachment(a)
    PROVE  a \in FitAttachment
<1>1. a.filename \in ShortTexts /\ a.media_type \in ShortTexts
  BY ShortFits DEF AttachmentDescriptor, ValidAttachment, ValidRequiredShort
<1> QED
  BY <1>1 DEF AttachmentDescriptor, FitAttachment

LEMMA MessageFits ==
    ASSUME NEW m \in Message, ValidMessage(m)
    PROVE  m \in FitMessage
<1>1. m.sender \in ShortTexts
  BY ShortFits DEF Message, ValidMessage, ValidRequiredShort
<1>2. m.recipients \in RecipientLists
  <2> DEFINE list == m.recipients
  <2>1. /\ list \in Seq(Seq(Ascii)) /\ Len(list) \in 1 .. MaxRecipients
        /\ \A i \in DOMAIN list : ValidShort(list[i])
    BY DEF Message, ValidMessage, ValidRequiredShort
  <2> HIDE DEF list
  <2>2. \A i \in 1 .. Len(list) : list[i] \in Seq(Ascii) /\ ValidShort(list[i])
    BY <2>1
  <2>3. \A i \in 1 .. Len(list) : list[i] \in ShortTexts
    BY <2>2, ShortFits
  <2>4. list \in Seq(ShortTexts)
    BY <2>1, <2>3
  <2> QED
    BY <2>1, <2>4 DEF RecipientLists, list
<1>3. m.subject \in Option(ShortTexts)
  BY SubjectFits DEF Message, ValidMessage
<1>4. m.body \in Lists(Ascii, MaxBodyOctets)
  BY DEF Message, ValidMessage, Lists
<1>5. m.attachments \in Lists(FitAttachment, MaxAttachments)
  <2> DEFINE list == m.attachments
  <2>1. /\ list \in Seq(AttachmentDescriptor) /\ Len(list) <= MaxAttachments
        /\ \A i \in DOMAIN list : ValidAttachment(list[i])
    BY DEF Message, ValidMessage
  <2> HIDE DEF list
  <2>2. \A i \in 1 .. Len(list) : list[i] \in AttachmentDescriptor /\ ValidAttachment(list[i])
    BY <2>1
  <2>3. \A i \in 1 .. Len(list) : list[i] \in FitAttachment
    BY <2>2, AttachmentFits
  <2>4. list \in Seq(FitAttachment)
    BY <2>1, <2>3
  <2> QED
    BY <2>1, <2>4 DEF Lists, list
<1> QED
  BY <1>1, <1>2, <1>3, <1>4, <1>5 DEF Message, FitMessage

LEMMA FitIsMessage == FitMessage \subseteq Message
<1>1. ShortTexts \subseteq Seq(Ascii)
  BY DEF ShortTexts
<1>2. ASSUME NEW list \in RecipientLists
      PROVE  list \in Seq(Seq(Ascii))
  BY <1>1 DEF RecipientLists
<1>3. ASSUME NEW list \in Option(ShortTexts)
      PROVE  list \in Option(Seq(Ascii))
  <2>1. list \in Seq(ShortTexts) /\ Len(list) <= 1
    BY DEF Option, Lists
  <2>2. list \in Seq(Seq(Ascii))
    BY <1>1, <2>1
  <2> QED
    BY <2>1, <2>2 DEF Option, Lists
<1>4. FitAttachment \subseteq AttachmentDescriptor
  BY <1>1 DEF FitAttachment, AttachmentDescriptor
<1>5. ASSUME NEW list \in Lists(FitAttachment, MaxAttachments)
      PROVE  list \in Seq(AttachmentDescriptor)
  <2>1. list \in Seq(FitAttachment)
    BY DEF Lists
  <2> QED
    BY <1>4, <2>1
<1>6. ASSUME NEW text \in Lists(Ascii, MaxBodyOctets)
      PROVE  text \in Seq(Ascii)
  BY DEF Lists
<1> HIDE DEF FitAttachment, AttachmentDescriptor
<1> QED
  BY <1>1, <1>2, <1>3, <1>5, <1>6 DEF FitMessage, Message

\* The octets of a message: the magic, then its image.
LEMMA MessageFraming ==
    ASSUME NEW m \in FitMessage
    PROVE  /\ MessageEncode(m) \in Seq(Octet) /\ Len(MessageEncode(m)) = MessageSize(m)
           /\ \A w \in Seq(Octet) :
                 w = MessageEncode(m)
                   <=> /\ Len(w) = 5 + Len(PutMessage(m))
                       /\ Holds(w, 1, MessageMagic) /\ Holds(w, 6, PutMessage(m))
<1> DEFINE magic == MessageMagic
           image == PutMessage(m)
           whole == MessageEncode(m)
<1>1. magic \in Seq(Octet) /\ Len(magic) = 5
  BY DEF MessageMagic, Octet
<1>2. image \in Seq(Octet)
  BY MessageFields
<1>3. whole = magic \o image
  BY DEF MessageEncode
<1>4. PICK r \in Nat, t \in Nat, b \in Nat, s \in Nat, n \in Nat, i \in Nat, d \in Nat,
           z \in Nat :
         /\ r = SumOver(ShortSize, m.recipients) /\ t = SumOver(AttachmentSize, m.attachments)
         /\ b = Width.u32 + Len(m.body) /\ s = ShortSize(m.sender)
         /\ n = NullableSize(m.subject) /\ i = Width.id16 /\ d = Width.u64
         /\ z = Len(MessageMagic) /\ z = 5
  <2>1. /\ m.sender \in ShortTexts /\ m.recipients \in RecipientLists
        /\ m.subject \in Option(ShortTexts) /\ m.body \in Lists(Ascii, MaxBodyOctets)
        /\ m.attachments \in Lists(FitAttachment, MaxAttachments)
    BY DEF FitMessage
  <2>2. ShortSize(m.sender) \in Nat
    BY <2>1, WidthFacts DEF ShortSize, ShortTexts
  <2>3. NullableSize(m.subject) \in Nat
    <3>1. CASE m.subject = << >>
      BY <3>1, WidthFacts DEF NullableSize
    <3>2. CASE m.subject # << >>
      <4>1. PICK text \in ShortTexts : m.subject = <<text>>
        BY <2>1, <3>2, NullableWrites
      <4>2. m.subject[1] = text /\ Len(text) \in Nat
        BY <4>1 DEF ShortTexts
      <4> QED
        BY <3>2, <4>2, WidthFacts DEF NullableSize
    <3> QED
      BY <3>1, <3>2
  <2>4. Width.u32 + Len(m.body) \in Nat
    BY <2>1, WidthFacts DEF Lists
  <2>5. SumOver(ShortSize, m.recipients) \in Nat
    <3> DEFINE list == m.recipients
               sizes == [k \in DOMAIN list |-> ShortSize(list[k])]
    <3>1. list \in Seq(ShortTexts)
      BY <2>1 DEF RecipientLists
    <3> HIDE DEF list
    <3>2. PICK l \in Nat : l = Len(list) /\ DOMAIN list = 1 .. l
      BY <3>1
    <3>3. \A k \in 1 .. l : list[k] \in ShortTexts
      BY <3>1, <3>2
    <3>4. \A k \in 1 .. l : ShortSize(list[k]) \in Nat
      BY <3>3, WidthFacts DEF ShortSize, ShortTexts
    <3>5. sizes \in [1 .. l -> Nat]
      BY <3>2, <3>4
    <3>6. SumOf(sizes) \in Nat
      <4> HIDE DEF sizes
      <4> QED
        BY <3>5, SumOfBound
    <3>7. SumOver(ShortSize, m.recipients) = SumOf(sizes)
      BY DEF SumOver, list
    <3> QED
      BY <3>6, <3>7
  <2>6. SumOver(AttachmentSize, m.attachments) \in Nat
    <3> DEFINE list == m.attachments
               sizes == [k \in DOMAIN list |-> AttachmentSize(list[k])]
    <3>1. list \in Seq(FitAttachment)
      BY <2>1 DEF Lists
    <3> HIDE DEF list
    <3>2. PICK l \in Nat : l = Len(list) /\ DOMAIN list = 1 .. l
      BY <3>1
    <3>3. \A k \in 1 .. l : list[k] \in FitAttachment
      BY <3>1, <3>2
    <3>4. ASSUME NEW a \in FitAttachment
          PROVE  AttachmentSize(a) \in Nat
      <4>1. PICK x \in Nat, y \in Nat : x = Len(a.filename) /\ y = Len(a.media_type)
        BY DEF FitAttachment, ShortTexts
      <4>2. PICK u \in Nat, h \in Nat, d \in Nat, i \in Nat :
               u = Width.u16 /\ h = Width.id16 /\ d = Width.u64 /\ i = Width.id
        BY WidthFacts
      <4>3. ShortSize(a.filename) = u + x /\ ShortSize(a.media_type) = u + y
        BY <4>1, <4>2 DEF ShortSize
      <4>4. AttachmentSize(a) = h + (u + x) + (u + y) + h + d + i
        BY <4>2, <4>3 DEF AttachmentSize
      <4> QED
        BY <4>4
    <3>5. \A k \in 1 .. l : AttachmentSize(list[k]) \in Nat
      BY <3>3, <3>4
    <3>6. sizes \in [1 .. l -> Nat]
      BY <3>2, <3>5
    <3>7. SumOf(sizes) \in Nat
      <4> HIDE DEF sizes
      <4> QED
        BY <3>6, SumOfBound
    <3>8. SumOver(AttachmentSize, m.attachments) = SumOf(sizes)
      BY DEF SumOver, list
    <3> QED
      BY <3>7, <3>8
  <2> QED
    BY <1>1, <2>2, <2>3, <2>4, <2>5, <2>6, WidthFacts
<1>5. MessageSize(m) = z + i + d + s + (1 + r) + n + b + (1 + t)
  BY <1>4 DEF MessageSize
<1>6. Len(PutMessage(m)) = i + d + s + (1 + r) + n + b + (1 + t)
  <2>1. Len(PutMessage(m)) =
           Width.id16 + Width.u64 +
           ShortSize(m.sender) + (1 + SumOver(ShortSize, m.recipients)) +
           NullableSize(m.subject) + (Width.u32 + Len(m.body)) +
           (1 + SumOver(AttachmentSize, m.attachments))
    BY MessageFields
  <2> QED
    BY <1>4, <2>1
<1>7. MessageSize(m) = 5 + Len(image)
  <2>1. z = 5
    BY <1>4
  <2>2. z + i + d + s + (1 + r) + n + b + (1 + t) = 5 + (i + d + s + (1 + r) + n + b + (1 + t))
    BY <2>1
  <2> QED
    BY <1>5, <1>6, <2>2
<1> HIDE DEF magic, image, whole
<1>8. magic \o image \in Seq(Octet) /\ Len(magic \o image) = Len(magic) + Len(image)
  BY <1>1, <1>2, Concat
<1>9. whole \in Seq(Octet) /\ Len(whole) = 5 + Len(image)
  BY <1>1, <1>3, <1>8
<1>10. ASSUME NEW w \in Seq(Octet)
       PROVE  w = whole <=> Len(w) = 5 + Len(image) /\ Holds(w, 1, magic) /\ Holds(w, 6, image)
  <2>1. w = whole <=> Holds(w, 1, whole) /\ Len(w) = Len(whole)
    BY <1>9, HoldsWhole
  <2>2. 1 \in Places(w)
    BY DEF Places
  <2>3. Holds(w, 1, magic \o image) <=> Holds(w, 1, magic) /\ Holds(w, 1 + Len(magic), image)
    BY <1>1, <1>2, <2>2, HoldsConcat
  <2>4. 1 + Len(magic) = 6
    BY <1>1
  <2> QED
    BY <1>3, <1>9, <2>1, <2>3, <2>4
<1> QED
  BY <1>7, <1>9, <1>10 DEF magic, image, whole

LEMMA MagicHolds ==
    ASSUME NEW w \in Seq(Octet)
    PROVE  /\ ~(Len(w) < Len(MessageMagic)) /\ SubSeq(w, 1, Len(MessageMagic)) = MessageMagic
                <=> Holds(w, 1, MessageMagic)
           /\ Holds(w, 1, MessageMagic) => Len(w) \in Nat /\ Len(w) >= 5 /\ 6 \in Places(w)
           /\ Len(MessageMagic) + 1 = 6
<1> DEFINE magic == MessageMagic
<1>1. magic \in Seq(Octet) /\ Len(magic) = 5
  BY DEF MessageMagic, Octet
<1> HIDE DEF magic
<1>2. PICK n \in Nat : n = Len(w)
  OBVIOUS
<1>3. 1 \in Places(w)
  BY DEF Places
<1>4. Holds(w, 1, magic) => n >= 5
  <2>1. Holds(w, 1, magic) => 1 + Len(magic) <= Len(w) + 1
    BY DEF Holds
  <2> QED
    BY <1>1, <1>2, <2>1
<1>5. ASSUME n >= 5
      PROVE  SubSeq(w, 1, 5) = magic <=> Holds(w, 1, magic)
  <2>1. 5 \in 1 .. Len(w)
    BY <1>2, <1>5
  <2>2. PICK o \in Seq(Octet) :
           /\ o = SubSeq(w, 1, 5) /\ Len(o) = 5 + 1 - 1
           /\ \A i \in 1 .. Len(o) : o[i] = w[1 + i - 1]
           /\ Holds(w, 1, o)
    BY <1>3, <2>1, Between
  <2>3. Len(o) = 5
    BY <2>2
  <2>4. ASSUME Holds(w, 1, magic)
        PROVE  o = magic
    <3>1. \A i \in 1 .. 5 : w[1 + i - 1] = magic[i]
      BY <1>1, <2>4 DEF Holds
    <3>2. \A i \in 1 .. 5 : o[i] = magic[i]
      BY <2>2, <2>3, <3>1
    <3> QED
      BY <1>1, <2>3, <3>2
  <2> QED
    BY <2>2, <2>4
<1>6. n >= 5 => 6 \in Places(w)
  BY <1>2 DEF Places
<1>7. ~(Len(w) < 5) <=> n >= 5
  BY <1>2
<1> QED
  BY <1>1, <1>2, <1>4, <1>5, <1>6, <1>7 DEF magic

\* What the decoder makes of the fields.
MessageOutcome(w, got) ==
    IF got = << >> THEN << >>
    ELSE IF got[1].next = Len(w) + 1 /\ ValidMessage(got[1].value) THEN <<got[1].value>>
    ELSE << >>

LEMMA MessageDecodes ==
    ASSUME NEW w \in Seq(Octet)
    PROVE  MessageDecode(w) =
              IF ~(Len(w) > MaxMessageSize) /\ Holds(w, 1, MessageMagic)
              THEN MessageOutcome(w, TakeMessage(w)[6])
              ELSE << >>
<1>1. Len(w) < Len(MessageMagic) \/ SubSeq(w, 1, Len(MessageMagic)) # MessageMagic
        <=> ~Holds(w, 1, MessageMagic)
  BY MagicHolds
<1>2. Len(MessageMagic) + 1 = 6
  BY MagicHolds
<1>3. MessageDecode(w) =
         IF Len(w) > MaxMessageSize \/ Len(w) < Len(MessageMagic)
              \/ SubSeq(w, 1, Len(MessageMagic)) # MessageMagic
         THEN << >> ELSE MessageOutcome(w, TakeMessage(w)[Len(MessageMagic) + 1])
  BY DEF MessageDecode, MessageOutcome, Then
<1> QED
  BY <1>1, <1>2, <1>3

\* The declared maximum of a message.
LEMMA ShortMaximum ==
    ASSUME NEW text \in ShortTexts, ValidShort(text)
    PROVE  /\ ShortSize(text) \in Nat
           /\ ShortSize(text) <= Width.u16 + MaxShortTextOctets
           /\ Width.u16 + MaxShortTextOctets \in Nat
<1>1. PICK n \in Nat, m \in Nat, u \in Nat :
         n = Len(text) /\ m = MaxShortTextOctets /\ u = Width.u16
  <2>1. Len(text) \in Nat
    BY DEF ShortTexts
  <2> QED
    BY <2>1, MessageBounds, WidthFacts
<1>2. n <= m
  BY <1>1 DEF ValidShort
<1>3. ShortSize(text) = u + n
  BY <1>1 DEF ShortSize
<1> QED
  BY <1>1, <1>2, <1>3

LEMMA AttachmentMaximum ==
    ASSUME NEW a \in FitAttachment, ValidAttachment(a)
    PROVE  /\ AttachmentSize(a) \in Nat
           /\ AttachmentSize(a) <=
                 Width.id16 + 2 * (Width.u16 + MaxShortTextOctets) + Width.id16 + Width.u64
                   + Width.id
<1>1. PICK h \in Nat, d \in Nat, i \in Nat, q \in Nat :
         /\ h = Width.id16 /\ d = Width.u64 /\ i = Width.id
         /\ q = Width.u16 + MaxShortTextOctets
  BY MessageBounds, WidthFacts
<1>2. a.filename \in ShortTexts /\ ValidShort(a.filename)
      /\ a.media_type \in ShortTexts /\ ValidShort(a.media_type)
  BY DEF FitAttachment, ValidAttachment, ValidRequiredShort
<1>3. PICK x \in Nat, y \in Nat :
         /\ x = ShortSize(a.filename) /\ y = ShortSize(a.media_type)
         /\ x <= q /\ y <= q
  BY <1>1, <1>2, ShortMaximum
<1>4. AttachmentSize(a) = h + x + y + h + d + i
  BY <1>1, <1>3 DEF AttachmentSize
<1>5. h + x + y + h + d + i <= h + 2 * q + h + d + i
  BY <1>3
<1> QED
  BY <1>1, <1>4, <1>5

LEMMA MessageMaximum ==
    ASSUME NEW m \in Message, ValidMessage(m)
    PROVE  /\ MessageSize(m) \in Nat /\ MaxMessageSize \in Nat
           /\ MessageSize(m) <= MaxMessageSize
<1>1. m \in FitMessage
  BY MessageFits
<1>2. PICK h \in Nat, d \in Nat, i \in Nat, u \in Nat, l \in Nat, k \in Nat, c \in Nat,
           p \in Nat, e \in Nat :
         /\ h = Width.id16 /\ d = Width.u64 /\ i = Width.id /\ u = Width.u16
         /\ c = Width.u32 /\ l = MaxShortTextOctets /\ k = MaxBodyOctets
         /\ p = MaxRecipients /\ e = MaxAttachments
  BY MessageBounds, WidthFacts
<1>3. PICK z \in Nat : z = Len(MessageMagic)
  BY DEF MessageMagic
<1>4. PICK s \in Nat : s = ShortSize(m.sender) /\ s <= u + l
  BY <1>1, <1>2, ShortMaximum DEF FitMessage, ValidMessage, ValidRequiredShort
<1>5. PICK r \in Nat, rx \in Nat :
         r = SumOver(ShortSize, m.recipients) /\ rx = p * (u + l) /\ r <= rx
  <2> DEFINE list == m.recipients
             sizes == [j \in DOMAIN list |-> ShortSize(list[j])]
  <2>1. list \in Seq(ShortTexts) /\ Len(list) <= p
        /\ \A j \in DOMAIN list : ValidShort(list[j])
    BY <1>1, <1>2 DEF FitMessage, RecipientLists, ValidMessage, ValidRequiredShort
  <2> HIDE DEF list
  <2>2. PICK n \in Nat : n = Len(list) /\ n <= p /\ DOMAIN list = 1 .. n
    BY <2>1
  <2>3. \A j \in 1 .. n : list[j] \in ShortTexts /\ ValidShort(list[j])
    BY <2>1, <2>2
  <2>4. PICK q \in Nat : q = u + l
    OBVIOUS
  <2>5. \A j \in 1 .. n : ShortSize(list[j]) \in Nat /\ ShortSize(list[j]) <= q
    BY <1>2, <2>3, <2>4, ShortMaximum
  <2>6. sizes \in [1 .. n -> Nat] /\ \A j \in 1 .. n : sizes[j] <= q
    BY <2>2, <2>5
  <2>7. SumOver(ShortSize, m.recipients) = SumOf(sizes)
    BY DEF SumOver, list
  <2> HIDE DEF sizes
  <2>8. SumOf(sizes) \in Nat /\ SumOf(sizes) <= n * q
    BY <2>6, SumOfBound
  <2>9. n * q \in Nat /\ p * q \in Nat /\ n * q <= p * q
    BY <2>2, TimesMonotone
  <2>10. PICK a \in Nat, x \in Nat, y \in Nat : a = SumOf(sizes) /\ x = n * q /\ y = p * q
    BY <2>8, <2>9
  <2>11. a <= y
    <3>1. a <= x /\ x <= y
      BY <2>8, <2>9, <2>10
    <3> QED
      BY <3>1
  <2>12. y = p * (u + l)
    BY <2>4, <2>10
  <2> QED
    BY <2>7, <2>10, <2>11, <2>12
<1>6. PICK n \in Nat : n = NullableSize(m.subject) /\ n <= u + l
  <2>1. m.subject \in Option(ShortTexts) /\ \A text \in ToSet(m.subject) : ValidShort(text)
    BY <1>1 DEF FitMessage, ValidMessage
  <2>2. CASE m.subject = << >>
    <3>1. NullableSize(m.subject) = u
      BY <1>2, <2>2 DEF NullableSize
    <3> QED
      BY <3>1
  <2>3. CASE m.subject # << >>
    <3>1. PICK text \in ShortTexts : m.subject = <<text>>
      BY <2>1, <2>3, NullableWrites
    <3>2. m.subject[1] = text /\ text \in ToSet(m.subject)
      BY <3>1 DEF ToSet
    <3>3. ValidShort(text)
      BY <2>1, <3>2
    <3>4. NullableSize(m.subject) = ShortSize(text)
      BY <2>3, <3>2 DEF NullableSize, ShortSize
    <3> QED
      BY <1>2, <3>3, <3>4, ShortMaximum
  <2> QED
    BY <2>2, <2>3
<1>7. PICK b \in Nat : b = Len(m.body) /\ b <= k
  BY <1>1, <1>2 DEF FitMessage, Lists
<1>8. PICK t \in Nat, tx \in Nat :
         /\ t = SumOver(AttachmentSize, m.attachments)
         /\ tx = e * (h + 2 * (u + l) + h + d + i) /\ t <= tx
  <2> DEFINE list == m.attachments
             sizes == [j \in DOMAIN list |-> AttachmentSize(list[j])]
  <2>1. list \in Seq(FitAttachment) /\ Len(list) <= e
        /\ \A j \in DOMAIN list : ValidAttachment(list[j])
    BY <1>1, <1>2 DEF FitMessage, Lists, ValidMessage
  <2> HIDE DEF list
  <2>2. PICK o \in Nat : o = Len(list) /\ o <= e /\ DOMAIN list = 1 .. o
    BY <2>1
  <2>3. \A j \in 1 .. o : list[j] \in FitAttachment /\ ValidAttachment(list[j])
    BY <2>1, <2>2
  <2>4. PICK q \in Nat : q = h + 2 * (u + l) + h + d + i
    OBVIOUS
  <2>5. \A j \in 1 .. o : AttachmentSize(list[j]) \in Nat /\ AttachmentSize(list[j]) <= q
    BY <1>2, <2>3, <2>4, AttachmentMaximum
  <2>6. sizes \in [1 .. o -> Nat] /\ \A j \in 1 .. o : sizes[j] <= q
    BY <2>2, <2>5
  <2>7. SumOver(AttachmentSize, m.attachments) = SumOf(sizes)
    BY DEF SumOver, list
  <2> HIDE DEF sizes
  <2>8. SumOf(sizes) \in Nat /\ SumOf(sizes) <= o * q
    BY <2>6, SumOfBound
  <2>9. o * q \in Nat /\ e * q \in Nat /\ o * q <= e * q
    BY <2>2, TimesMonotone
  <2>10. PICK a \in Nat, x \in Nat, y \in Nat : a = SumOf(sizes) /\ x = o * q /\ y = e * q
    BY <2>8, <2>9
  <2>11. a <= y
    <3>1. a <= x /\ x <= y
      BY <2>8, <2>9, <2>10
    <3> QED
      BY <3>1
  <2>12. y = e * (h + 2 * (u + l) + h + d + i)
    BY <2>4, <2>10
  <2> QED
    BY <2>7, <2>10, <2>11, <2>12
<1>9. MessageSize(m) = z + h + d + s + (1 + r) + n + (c + b) + (1 + t)
  BY <1>2, <1>3, <1>4, <1>5, <1>6, <1>7, <1>8 DEF MessageSize
<1>10. MaxMessageSize = (z + h + d + u + 1 + u + c + 1) + 2 * l + rx + k + tx
  BY <1>2, <1>3, <1>5, <1>8 DEF MaxMessageSize
<1>11. z + h + d + s + (1 + r) + n + (c + b) + (1 + t)
          <= (z + h + d + u + 1 + u + c + 1) + 2 * l + rx + k + tx
  <2>1. s <= u + l /\ r <= rx /\ n <= u + l /\ b <= k /\ t <= tx
    BY <1>4, <1>5, <1>6, <1>7, <1>8
  <2> QED
    BY <2>1
<1> QED
  BY <1>9, <1>10, <1>11

\* The message codec encodes what it accepts to octets of the size it computed ...
LEMMA MessageEncodes ==
    ASSUME NEW m \in Message, ValidMessage(m)
    PROVE  /\ MessageEncode(m) \in Seq(Octet) /\ Len(MessageEncode(m)) = MessageSize(m)
           /\ MessageSize(m) \in Nat /\ MaxMessageSize \in Nat /\ MessageSize(m) <= MaxMessageSize
BY MessageFits, MessageFraming, MessageMaximum

\* ... which it decodes to what it encoded.
LEMMA MessageReceives ==
    ASSUME NEW m \in Message, ValidMessage(m)
    PROVE  MessageDecode(MessageEncode(m)) = <<m>>
<1> DEFINE w == MessageEncode(m)
           image == PutMessage(m)
           got == TakeMessage(w)[6]
<1>1. m \in FitMessage /\ DOMAIN MessageImage = FitMessage /\ MessageImage[m] = image
      /\ image \in Seq(Octet)
  BY MessageFits, MessageFields DEF MessageImage
<1>2. w \in Seq(Octet) /\ Len(w) = MessageSize(m) /\ MessageSize(m) <= MaxMessageSize
      /\ MessageSize(m) \in Nat /\ MaxMessageSize \in Nat
  BY MessageEncodes
<1>3. Len(w) = 5 + Len(image) /\ Holds(w, 1, MessageMagic) /\ Holds(w, 6, image)
  BY <1>1, <1>2, MessageFraming
<1> HIDE DEF w, image
<1>4. 6 \in Places(w)
  BY <1>2, <1>3, MagicHolds
<1>5. Complete(w, got, 6, MessageImage)
  BY <1>2, <1>4, ReadsMessage DEF Reads
<1> HIDE DEF got
<1>6. got = Got(m, 6 + Len(image))
  BY <1>1, <1>3, <1>5 DEF Complete
<1>7. got # << >> /\ got[1].value = m /\ got[1].next = 6 + Len(image)
  BY <1>6, GotFacts
<1>8. 6 + Len(image) = Len(w) + 1
  BY <1>1, <1>3
<1>9. MessageOutcome(w, got) = <<m>>
  BY <1>7, <1>8 DEF MessageOutcome
<1>10. ~(Len(w) > MaxMessageSize)
  BY <1>2
<1>11. MessageDecode(w) = MessageOutcome(w, got)
  BY <1>2, <1>3, <1>10, MessageDecodes DEF got
<1> QED
  BY <1>9, <1>11 DEF w

\* What decodes is the image of what it decodes to.
LEMMA MessageDecoded ==
    ASSUME NEW w \in Seq(Octet), MessageDecode(w) # << >>
    PROVE  \E m \in Message : /\ ValidMessage(m) /\ MessageDecode(w) = <<m>>
                              /\ MessageEncode(m) = w
<1> DEFINE got == TakeMessage(w)[6]
<1>1. Holds(w, 1, MessageMagic) /\ MessageDecode(w) = MessageOutcome(w, got)
  BY MessageDecodes
<1>2. 6 \in Places(w) /\ Len(w) \in Nat
  BY <1>1, MagicHolds
<1>3. Sound(w, got, 6, MessageImage)
  BY <1>2, ReadsMessage DEF Reads
<1> HIDE DEF got
<1>4. /\ got # << >> /\ got[1].next = Len(w) + 1 /\ ValidMessage(got[1].value)
      /\ MessageDecode(w) = <<got[1].value>>
  BY <1>1 DEF MessageOutcome
<1>5. PICK m \in DOMAIN MessageImage :
         got = Got(m, 6 + Len(MessageImage[m])) /\ Holds(w, 6, MessageImage[m])
  BY <1>3, <1>4 DEF Sound
<1>6. got[1].value = m /\ got[1].next = 6 + Len(MessageImage[m])
  BY <1>5, GotFacts
<1>7. m \in FitMessage /\ MessageImage[m] = PutMessage(m) /\ PutMessage(m) \in Seq(Octet)
  BY <1>5, MessageFields DEF MessageImage
<1>8. Len(w) = 5 + Len(PutMessage(m))
  <2>1. PICK n \in Nat, l \in Nat : n = Len(PutMessage(m)) /\ l = Len(w)
    BY <1>2, <1>7
  <2>2. l + 1 = 6 + n
    BY <1>4, <1>6, <1>7, <2>1
  <2>3. l = 5 + n
    BY <2>2
  <2> QED
    BY <2>1, <2>3
<1>9. w = MessageEncode(m)
  BY <1>1, <1>5, <1>7, <1>8, MessageFraming
<1>10. m \in Message
  BY <1>7, FitIsMessage
<1> QED
  BY <1>4, <1>6, <1>9, <1>10

---------------------------------------------------------------------------
(* The four codecs as the peers use them.                                  *)

EveryCodec == {"B1", "compact", "B0", "message"}

\* What the caller of a codec holds: a value of the types it encodes.
Typed(codec, r) ==
    CASE codec \in {"B1", "compact"} -> IsRecord(r)
      [] codec = "B0" -> /\ r = Plain(r.operation.kind, r.operation.body)
                         /\ IsExperimental(r.operation)
      [] codec = "message" -> /\ r = Plain("MESSAGE", r.operation.body)
                              /\ r.operation.body \in Message

AllKnown(r, supported) == \A i \in DOMAIN r.extensions : r.extensions[i].id \in supported

LEMMA TypedFacts ==
    /\ \A r : Typed("B1", r) <=> IsRecord(r)
    /\ \A r : Typed("compact", r) <=> IsRecord(r)
    /\ \A r : Typed("B0", r) <=> /\ r = Plain(r.operation.kind, r.operation.body)
                                 /\ IsExperimental(r.operation)
    /\ \A r : Typed("message", r) <=> /\ r = Plain("MESSAGE", r.operation.body)
                                      /\ r.operation.body \in Message
BY DEF Typed

LEMMA AcceptsBy ==
    ASSUME NEW r, NEW cache
    PROVE  /\ EncodableBy("B1", r, cache) <=> Encodable(r)
           /\ EncodableBy("compact", r, cache) <=> CompactEncodable(r, cache)
           /\ EncodableBy("B0", r, cache) <=> ExperimentalEncodable(r.operation)
           /\ EncodableBy("message", r, cache) <=> ValidMessage(r.operation.body)
BY DEF EncodableBy

LEMMA EncodesBy ==
    ASSUME NEW r, NEW cache
    PROVE  /\ EncodeBy("B1", r, cache) = Encode(r)
           /\ EncodeBy("compact", r, cache) = CompactEncode(r, cache)
           /\ EncodeBy("B0", r, cache) = ExperimentalEncode(r.operation)
           /\ EncodeBy("message", r, cache) = MessageEncode(r.operation.body)
           /\ SizeBy("B1", r, cache) = ExactEncodedSize(r)
           /\ SizeBy("compact", r, cache) = CompactSize(r, cache)
           /\ SizeBy("B0", r, cache) = ExperimentalSize(r.operation)
           /\ SizeBy("message", r, cache) = MessageSize(r.operation.body)
BY DEF EncodeBy, SizeBy

LEMMA MaximaBy ==
    ASSUME NEW kind
    PROVE  /\ MaximumBy("B1", kind) = DeclaredMaximum(kind)
           /\ MaximumBy("compact", kind) = CompactDeclaredMaximum(kind)
           /\ MaximumBy("B0", kind) = ExperimentalEnvelope + Pow256[Width.u16] - 1
           /\ MaximumBy("message", kind) = MaxMessageSize
BY DEF MaximumBy


LEMMA DecodesBy ==
    ASSUME NEW w, NEW supported, NEW cache
    PROVE  /\ DecodeBy("B1", w, supported, cache) = Decode(w, supported)
           /\ DecodeBy("compact", w, supported, cache) = CompactDecode(w, supported, cache)
           /\ \A op : ExperimentalDecode(w) = <<op>> =>
                 DecodeBy("B0", w, supported, cache) = <<Plain(op.kind, op.body)>>
           /\ ExperimentalDecode(w) = << >> => DecodeBy("B0", w, supported, cache) = << >>
           /\ \A m : MessageDecode(w) = <<m>> =>
                 DecodeBy("message", w, supported, cache) = <<Plain("MESSAGE", m)>>
           /\ MessageDecode(w) = << >> => DecodeBy("message", w, supported, cache) = << >>
<1>1. ASSUME NEW got, got = << >>
      PROVE  /\ [i \in DOMAIN got |-> Plain(got[i].kind, got[i].body)] = << >>
             /\ [i \in DOMAIN got |-> Plain("MESSAGE", got[i])] = << >>
  BY <1>1
<1>2. ASSUME NEW got, NEW x, got = <<x>>
      PROVE  /\ [i \in DOMAIN got |-> Plain(got[i].kind, got[i].body)] = <<Plain(x.kind, x.body)>>
             /\ [i \in DOMAIN got |-> Plain("MESSAGE", got[i])] = <<Plain("MESSAGE", x)>>
  <2>1. DOMAIN got = {1} /\ got[1] = x
    BY <1>2
  <2> QED
    BY <2>1
<1>3. DecodeBy("B0", w, supported, cache) =
         [i \in DOMAIN ExperimentalDecode(w) |->
             Plain(ExperimentalDecode(w)[i].kind, ExperimentalDecode(w)[i].body)]
  BY DEF DecodeBy
<1>4. DecodeBy("message", w, supported, cache) =
         [i \in DOMAIN MessageDecode(w) |-> Plain("MESSAGE", MessageDecode(w)[i])]
  BY DEF DecodeBy
<1>5. DecodeBy("B1", w, supported, cache) = Decode(w, supported)
      /\ DecodeBy("compact", w, supported, cache) = CompactDecode(w, supported, cache)
  BY DEF DecodeBy
<1> QED
  BY <1>1, <1>2, <1>3, <1>4, <1>5

\* What a codec accepts it encodes, to octets of the size it computed, below
\* the maximum it declared.
LEMMA ByEncodes ==
    ASSUME NEW codec \in EveryCodec, NEW r, NEW cache, Typed(codec, r), EncodableBy(codec, r, cache)
    PROVE  /\ EncodeBy(codec, r, cache) \in Seq(Octet)
           /\ Len(EncodeBy(codec, r, cache)) = SizeBy(codec, r, cache)
           /\ SizeBy(codec, r, cache) <= MaximumBy(codec, r.operation.kind)
           /\ codec = "compact" => Len(EncodeBy(codec, r, cache)) >= 3
<1>1. CASE codec = "B1"
  <2>1. IsRecord(r) /\ Encodable(r)
    BY <1>1, TypedFacts, AcceptsBy
  <2>2. /\ Encode(r) \in Seq(Octet) /\ Len(Encode(r)) = ExactEncodedSize(r)
        /\ ExactEncodedSize(r) <= DeclaredMaximum(r.operation.kind)
    BY <2>1, B1Encodes, B1Maximum
  <2> QED
    BY <1>1, <2>2, EncodesBy, MaximaBy
<1>2. CASE codec = "compact"
  <2>1. IsRecord(r) /\ CompactEncodable(r, cache)
    BY <1>2, TypedFacts, AcceptsBy
  <2>2. Encodable(r)
    BY <2>1 DEF CompactEncodable
  <2>3. /\ CompactEncode(r, cache) \in Seq(Octet)
        /\ Len(CompactEncode(r, cache)) = CompactSize(r, cache)
        /\ Len(CompactEncode(r, cache)) >= 3
        /\ CompactSize(r, cache) <= CompactDeclaredMaximum(r.operation.kind)
    BY <2>1, <2>2, CompactEncodes, CompactMaximum
  <2> QED
    BY <1>2, <2>3, EncodesBy, MaximaBy
<1>3. CASE codec = "B0"
  <2> DEFINE op == r.operation
  <2>1. IsExperimental(op) /\ ExperimentalEncodable(op)
    BY <1>3, TypedFacts, AcceptsBy
  <2>2. /\ ExperimentalEncode(op) \in Seq(Octet)
        /\ Len(ExperimentalEncode(op)) = ExperimentalSize(op)
        /\ ExperimentalSize(op) <= ExperimentalEnvelope + Pow256[Width.u16] - 1
    <3> HIDE DEF op
    <3> QED
      BY <2>1, B0Encodes
  <2> QED
    BY <1>3, <2>2, EncodesBy, MaximaBy
<1>4. CASE codec = "message"
  <2> DEFINE m == r.operation.body
  <2>1. m \in Message /\ ValidMessage(m)
    BY <1>4, TypedFacts, AcceptsBy
  <2>2. /\ MessageEncode(m) \in Seq(Octet) /\ Len(MessageEncode(m)) = MessageSize(m)
        /\ MessageSize(m) <= MaxMessageSize
    <3> HIDE DEF m
    <3> QED
      BY <2>1, MessageEncodes
  <2> QED
    BY <1>4, <2>2, EncodesBy, MaximaBy
<1> QED
  BY <1>1, <1>2, <1>3, <1>4 DEF EveryCodec

\* Without extensions a receiver has the record itself.
LEMMA PlainReceived ==
    ASSUME NEW kind, NEW v, NEW supported
    PROVE  Received(Plain(kind, v), supported) = Plain(kind, v)
<1>1. << >> \in Seq(FitExtension) /\ DOMAIN << >> = {}
  OBVIOUS
<1>2. \A i \in DOMAIN << >> : << >>[i].id \in supported
  BY <1>1
<1>3. Kept(<< >>, supported) = << >>
  BY <1>1, <1>2, KeptFacts
<1> QED
  BY <1>3 DEF Received, Plain

\* What is decoded from the octets of a record is that record without the
\* extensions that are not supported, or nothing; with the same checkpoint and
\* every extension supported it is not nothing.
LEMMA ByReceives ==
    ASSUME NEW codec \in EveryCodec, NEW r, NEW sender, Typed(codec, r),
           EncodableBy(codec, r, sender), NEW supported, NEW receiver, IsCache(receiver)
    PROVE  /\ \/ DecodeBy(codec, EncodeBy(codec, r, sender), supported, receiver) = << >>
              \/ DecodeBy(codec, EncodeBy(codec, r, sender), supported, receiver) =
                    <<Received(r, supported)>>
           /\ sender = receiver /\ AllKnown(r, supported) =>
                 DecodeBy(codec, EncodeBy(codec, r, sender), supported, receiver) # << >>
<1>1. CASE codec = "B1"
  <2>1. IsRecord(r) /\ Encodable(r)
    BY <1>1, TypedFacts, AcceptsBy
  <2>2. /\ Decode(Encode(r), supported) =
              IF Admissible(r.extensions, supported) THEN <<Received(r, supported)>> ELSE << >>
        /\ AllKnown(r, supported) => Admissible(r.extensions, supported)
    BY <2>1, B1Receives DEF AllKnown
  <2>3. DecodeBy(codec, EncodeBy(codec, r, sender), supported, receiver) = Decode(Encode(r), supported)
    BY <1>1, EncodesBy, DecodesBy
  <2>4. <<Received(r, supported)>> # << >>
    OBVIOUS
  <2> QED
    BY <2>2, <2>3, <2>4
<1>2. CASE codec = "compact"
  <2>1. IsRecord(r) /\ CompactEncodable(r, sender)
    BY <1>2, TypedFacts, AcceptsBy
  <2> DEFINE got == CompactDecode(CompactEncode(r, sender), supported, receiver)
  <2>2. /\ got = << >> \/ got = <<Received(r, supported)>>
        /\ sender = receiver /\ AllKnown(r, supported) => got # << >>
    BY <2>1, CompactReceives DEF AllKnown
  <2>3. DecodeBy(codec, EncodeBy(codec, r, sender), supported, receiver) = got
    BY <1>2, EncodesBy, DecodesBy
  <2> HIDE DEF got
  <2> QED
    BY <2>2, <2>3
<1>3. CASE codec = "B0"
  <2> DEFINE op == r.operation
  <2>1. IsExperimental(op) /\ ExperimentalEncodable(op) /\ r = Plain(op.kind, op.body)
    BY <1>3, TypedFacts, AcceptsBy
  <2>2. ExperimentalDecode(ExperimentalEncode(op)) = <<op>>
    <3> HIDE DEF op
    <3> QED
      BY <2>1, B0Receives
  <2>3. EncodeBy(codec, r, sender) = ExperimentalEncode(op)
    BY <1>3, EncodesBy
  <2> HIDE DEF op
  <2>4. DecodeBy(codec, EncodeBy(codec, r, sender), supported, receiver) = <<Plain(op.kind, op.body)>>
    BY <1>3, <2>2, <2>3, DecodesBy
  <2>5. Received(r, supported) = Plain(op.kind, op.body)
    BY <2>1, PlainReceived
  <2>6. <<Plain(op.kind, op.body)>> # << >>
    OBVIOUS
  <2> QED
    BY <2>4, <2>5, <2>6
<1>4. CASE codec = "message"
  <2> DEFINE m == r.operation.body
  <2>1. m \in Message /\ ValidMessage(m) /\ r = Plain("MESSAGE", m)
    BY <1>4, TypedFacts, AcceptsBy
  <2>2. MessageDecode(MessageEncode(m)) = <<m>>
    <3> HIDE DEF m
    <3> QED
      BY <2>1, MessageReceives
  <2>3. EncodeBy(codec, r, sender) = MessageEncode(m)
    BY <1>4, EncodesBy
  <2> HIDE DEF m
  <2>4. DecodeBy(codec, EncodeBy(codec, r, sender), supported, receiver) = <<Plain("MESSAGE", m)>>
    BY <1>4, <2>2, <2>3, DecodesBy
  <2>5. Received(r, supported) = Plain("MESSAGE", m)
    BY <2>1, PlainReceived
  <2>6. <<Plain("MESSAGE", m)>> # << >>
    OBVIOUS
  <2> QED
    BY <2>4, <2>5, <2>6
<1> QED
  BY <1>1, <1>2, <1>3, <1>4 DEF EveryCodec

\* What octets decode to is a record the codec encodes, and when every
\* extension is supported to these same octets.
LEMMA ByDecoded ==
    ASSUME NEW codec \in EveryCodec, NEW w \in Seq(Octet), NEW supported,
           NEW cache, IsCache(cache), DecodeBy(codec, w, supported, cache) # << >>
    PROVE  \E d : /\ Typed(codec, d) /\ EncodableBy(codec, d, cache)
                  /\ DecodeBy(codec, w, supported, cache) = <<d>>
                  /\ supported = U32 => EncodeBy(codec, d, cache) = w
<1> DEFINE Good(d) == /\ Typed(codec, d) /\ EncodableBy(codec, d, cache)
                      /\ DecodeBy(codec, w, supported, cache) = <<d>>
                      /\ supported = U32 => EncodeBy(codec, d, cache) = w
<1>1. ASSUME codec = "B1"
      PROVE  \E d : Good(d)
  <2>1. Decode(w, supported) # << >> /\ DecodeBy(codec, w, supported, cache) = Decode(w, supported)
    BY <1>1, DecodesBy
  <2>2. PICK r : /\ IsRecord(r) /\ Encodable(r) /\ w = Encode(r)
                 /\ Decode(w, supported) = <<Received(r, supported)>>
    BY <2>1, B1Decoded
  <2> DEFINE d == Received(r, supported)
  <2>3. IsRecord(d) /\ Encodable(d)
    BY <2>2, B1Receives
  <2>4. ASSUME supported = U32
        PROVE  d = r
    <3>1. r.extensions \in Seq(Extension)
      BY <2>2 DEF IsRecord
    <3>2. \A i \in DOMAIN r.extensions : r.extensions[i].id \in U32
      <4> DEFINE x == r.extensions
      <4>1. \A i \in DOMAIN x : x[i] \in Extension
        <5> HIDE DEF x
        <5> QED
          BY <3>1 DEF x
      <4> HIDE DEF x
      <4>2. \A i \in DOMAIN x : x[i].id \in U32
        BY <4>1 DEF Extension
      <4> QED
        BY <4>2 DEF x
    <3> QED
      BY <2>2, <2>4, <3>2, B1Receives
  <2>5. Typed(codec, d) /\ EncodableBy(codec, d, cache) /\ EncodeBy(codec, d, cache) = Encode(d)
    BY <1>1, <2>3, TypedFacts, AcceptsBy, EncodesBy
  <2> HIDE DEF d
  <2>6. Good(d)
    BY <2>1, <2>2, <2>4, <2>5 DEF d
  <2> HIDE DEF Good
  <2> QED
    BY <2>6
<1>2. ASSUME codec = "compact"
      PROVE  \E d : Good(d)
  <2>1. /\ CompactDecode(w, supported, cache) # << >>
        /\ DecodeBy(codec, w, supported, cache) = CompactDecode(w, supported, cache)
    BY <1>2, DecodesBy
  <2>2. PICK d : /\ IsRecord(d) /\ CompactEncodable(d, cache)
                 /\ CompactDecode(w, supported, cache) = <<d>>
                 /\ supported = U32 => CompactEncode(d, cache) = w
    BY <2>1, CompactDecoded
  <2>3. Typed(codec, d) /\ EncodableBy(codec, d, cache)
        /\ EncodeBy(codec, d, cache) = CompactEncode(d, cache)
    BY <1>2, <2>2, TypedFacts, AcceptsBy, EncodesBy
  <2>4. Good(d)
    BY <2>1, <2>2, <2>3
  <2> HIDE DEF Good
  <2> QED
    BY <2>4
<1>3. ASSUME codec = "B0"
      PROVE  \E d : Good(d)
  <2>1. ExperimentalDecode(w) # << >>
    BY <1>3, DecodesBy
  <2>2. PICK op : /\ IsExperimental(op) /\ ExperimentalEncodable(op)
                  /\ ExperimentalDecode(w) = <<op>> /\ ExperimentalEncode(op) = w
    BY <2>1, B0Decoded
  <2> DEFINE d == Plain(op.kind, op.body)
  <2>3. d.operation = op /\ d = Plain(d.operation.kind, d.operation.body)
    BY <2>2 DEF Plain, IsExperimental
  <2>4. DecodeBy(codec, w, supported, cache) = <<d>>
    BY <1>3, <2>2, DecodesBy
  <2> HIDE DEF d
  <2>5. Typed(codec, d) /\ EncodableBy(codec, d, cache) /\ EncodeBy(codec, d, cache) = w
    BY <1>3, <2>2, <2>3, TypedFacts, AcceptsBy, EncodesBy
  <2>6. Good(d)
    BY <2>4, <2>5
  <2> HIDE DEF Good
  <2> QED
    BY <2>6
<1>4. ASSUME codec = "message"
      PROVE  \E d : Good(d)
  <2>1. MessageDecode(w) # << >>
    BY <1>4, DecodesBy
  <2>2. PICK m \in Message : ValidMessage(m) /\ MessageDecode(w) = <<m>> /\ MessageEncode(m) = w
    BY <2>1, MessageDecoded
  <2> DEFINE d == Plain("MESSAGE", m)
  <2>3. d.operation.body = m
    BY DEF Plain
  <2>4. DecodeBy(codec, w, supported, cache) = <<d>> /\ d = Plain("MESSAGE", d.operation.body)
    BY <1>4, <2>2, <2>3, DecodesBy
  <2> HIDE DEF d
  <2>5. Typed(codec, d) /\ EncodableBy(codec, d, cache) /\ EncodeBy(codec, d, cache) = w
    BY <1>4, <2>2, <2>3, <2>4, TypedFacts, AcceptsBy, EncodesBy
  <2>6. Good(d)
    BY <2>4, <2>5
  <2> HIDE DEF Good
  <2> QED
    BY <2>6
<1> HIDE DEF Good
<1>5. \E d : Good(d)
  BY <1>1, <1>2, <1>3, <1>4 DEF EveryCodec
<1> QED
  BY <1>5 DEF Good

---------------------------------------------------------------------------
(* The exchange.                                                           *)

\* The wire carries octets; what was sent is typed and was accepted for
\* encoding, and while nothing happened to the wire it carries its image; a
\* result is what the wire decodes to.
ExchangeInv ==
    /\ call \in Calls
    /\ wire \in Seq(Octet)
    /\ sent # << >> =>
          /\ sent = <<sent[1]>>
          /\ Typed(call.codec, sent[1])
          /\ EncodableBy(call.codec, sent[1], call.sender)
          /\ intact => wire = EncodeBy(call.codec, sent[1], call.sender)
    /\ result.done =>
          /\ sent # << >>
          /\ result.record = DecodeBy(call.codec, wire, result.supported, call.receiver)
    /\ ~result.done => result = Waiting

LEMMA CallFacts ==
    ASSUME NEW c \in Calls
    PROVE  c.codec \in EveryCodec /\ IsCache(c.sender) /\ IsCache(c.receiver)
<1>1. c.codec \in Codecs /\ c.sender \in Caches /\ c.receiver \in Caches
  BY DEF Calls
<1>2. ASSUME NEW cache \in Caches
      PROVE  IsCache(cache)
  <2>1. cache = << >> \/ \E s \in Checkpoints : cache = <<s>>
    BY DEF Caches
  <2> QED
    BY <2>1, CallersAssumption DEF IsCache
<1> QED
  BY <1>1, <1>2, CallersAssumption DEF EveryCodec

LEMMA RepertoireTyped ==
    ASSUME NEW codec \in EveryCodec, NEW r \in Repertoire(codec)
    PROVE  Typed(codec, r)
<1>1. CASE codec \in {"B1", "compact"}
  <2>1. r \in Records
    BY <1>1 DEF Repertoire
  <2> QED
    BY <1>1, <2>1, CallersAssumption, TypedFacts
<1>2. CASE codec = "B0"
  <2>1. PICK op \in Operations : r = Plain(op.kind, op.body)
    BY <1>2 DEF Repertoire
  <2>2. IsExperimental(op) /\ op = [kind |-> op.kind, body |-> op.body]
    BY CallersAssumption DEF IsExperimental
  <2>3. r.operation = op
    BY <2>1, <2>2 DEF Plain
  <2> QED
    BY <1>2, <2>1, <2>2, <2>3, TypedFacts
<1>3. CASE codec = "message"
  <2>1. PICK m \in Messages : r = Plain("MESSAGE", m)
    BY <1>3 DEF Repertoire
  <2>2. m \in Message /\ r.operation.body = m
    BY <2>1, CallersAssumption DEF Plain
  <2> QED
    BY <1>3, <2>1, <2>2, TypedFacts
<1> QED
  BY <1>1, <1>2, <1>3 DEF EveryCodec

LEMMA ExchangeInit == Init => ExchangeInv
<1> SUFFICES ASSUME Init PROVE ExchangeInv
  OBVIOUS
<1>1. sent = << >> /\ wire = << >> /\ call \in Calls /\ result = Waiting /\ ~result.done
  BY DEF Init, Waiting
<1>2. << >> \in Seq(Octet)
  OBVIOUS
<1> QED
  BY <1>1, <1>2 DEF ExchangeInv

LEMMA ExchangeSend ==
    ASSUME ExchangeInv, NEW r \in Repertoire(call.codec), Send(r)
    PROVE  ExchangeInv'
<1>1. /\ sent = << >> /\ EncodableBy(call.codec, r, call.sender)
      /\ sent' = <<r>> /\ wire' = EncodeBy(call.codec, r, call.sender)
      /\ intact' = intact /\ call' = call /\ result' = result
  BY DEF Send
<1>2. call \in Calls /\ ~result.done /\ result = Waiting
  BY <1>1 DEF ExchangeInv
<1>3. call.codec \in EveryCodec
  BY <1>2, CallFacts
<1>4. Typed(call.codec, r)
  BY <1>3, RepertoireTyped
<1>5. wire' \in Seq(Octet)
  BY <1>1, <1>3, <1>4, ByEncodes
<1>6. sent'[1] = r /\ sent' = <<sent'[1]>>
  BY <1>1
<1> QED
  BY <1>1, <1>2, <1>4, <1>5, <1>6 DEF ExchangeInv

\* A fault leaves octets on the wire, and no longer says which.
LEMMA ExchangeFault ==
    ASSUME ExchangeInv, InFlight, wire' \in Seq(Octet), intact' = FALSE,
           UNCHANGED <<sent, call, result>>
    PROVE  ExchangeInv'
<1>1. sent' = sent /\ call' = call /\ result' = result /\ ~result.done
  BY DEF InFlight
<1> QED
  BY <1>1 DEF ExchangeInv

LEMMA SetOctet ==
    ASSUME NEW w \in Seq(Octet), NEW i, NEW octet \in Octet
    PROVE  [w EXCEPT ![i] = octet] \in Seq(Octet)
<1> DEFINE v == [w EXCEPT ![i] = octet]
<1>1. PICK n \in Nat : n = Len(w) /\ DOMAIN w = 1 .. n
  OBVIOUS
<1>2. v \in [1 .. n -> Octet]
  <2>1. w \in [1 .. n -> Octet]
    BY <1>1
  <2> QED
    BY <2>1
<1> HIDE DEF v
<1>3. v \in Seq(Octet)
  BY <1>2
<1> QED
  BY <1>3 DEF v

LEMMA ExchangeAlter ==
    ASSUME ExchangeInv, Alter
    PROVE  ExchangeInv'
<1>1. InFlight /\ intact' = FALSE /\ UNCHANGED <<sent, call, result>>
  BY DEF Alter
<1>2. PICK i \in DOMAIN wire, octet \in 0 .. 255 : wire' = [wire EXCEPT ![i] = octet]
  BY Zenon DEF Alter
<1>3. wire \in Seq(Octet) /\ octet \in Octet
  BY DEF ExchangeInv, Octet
<1>4. wire' \in Seq(Octet)
  BY <1>2, <1>3, SetOctet
<1> QED
  BY <1>1, <1>4, ExchangeFault

LEMMA ExchangeTruncate ==
    ASSUME ExchangeInv, Truncate
    PROVE  ExchangeInv'
<1>1. InFlight /\ intact' = FALSE /\ UNCHANGED <<sent, call, result>>
  BY DEF Truncate
<1>2. PICK n \in 0 .. (Len(wire) - 1) : wire' = SubSeq(wire, 1, n)
  BY DEF Truncate
<1>3. wire \in Seq(Octet) /\ Len(wire) \in Nat
  BY DEF ExchangeInv
<1>4. \A i \in 1 .. n : wire[i] \in Octet
  BY <1>3
<1>5. wire' \in Seq(Octet)
  BY <1>2, <1>3, <1>4, SubSeqProperties
<1> QED
  BY <1>1, <1>5, ExchangeFault

LEMMA ExchangeLengthen ==
    ASSUME ExchangeInv, Lengthen
    PROVE  ExchangeInv'
<1>1. InFlight /\ intact' = FALSE /\ UNCHANGED <<sent, call, result>> /\ intact
  BY DEF Lengthen, InFlight
<1>2. wire \in Seq(Octet) /\ call \in Calls
  BY DEF ExchangeInv
<1>3. PICK octet \in {0, 1, 255} :
         \/ wire' = Append(wire, octet)
         \/ /\ call.codec = "B1"
            /\ wire' = [Append(wire, octet) EXCEPT ![EnvelopeOctets] = (@ + 1) % 256]
         \/ /\ call.codec = "B0"
            /\ wire' = [Append(wire, octet) EXCEPT ![ExperimentalEnvelope] = (@ + 1) % 256]
         \/ /\ call.codec = "compact"
            /\ wire' = [Append(wire, octet) EXCEPT ![2] = (@ + 1) % 256]
         \/ /\ call.codec = "compact"
            /\ wire' = <<wire[1], 128 + (wire[2] % 128), 0>> \o SubSeq(wire, 3, Len(wire))
  BY Zenon DEF Lengthen
<1>4. octet \in Octet
  BY DEF Octet
<1> DEFINE longer == Append(wire, octet)
           Declared(k) == [longer EXCEPT ![k] = (@ + 1) % 256]
           stretched == <<wire[1], 128 + (wire[2] % 128), 0>> \o SubSeq(wire, 3, Len(wire))
<1>5. longer \in Seq(Octet)
  BY <1>2, <1>4
<1>6. \/ wire' = longer \/ wire' = Declared(EnvelopeOctets)
      \/ wire' = Declared(ExperimentalEnvelope) \/ wire' = Declared(2)
      \/ call.codec = "compact" /\ wire' = stretched
  BY <1>3, Zenon
<1> HIDE DEF longer
<1>7. CASE wire' = longer
  BY <1>1, <1>5, <1>7, ExchangeFault
<1>8. ASSUME NEW k, wire' = Declared(k)
      PROVE  ExchangeInv'
  <2>1. wire' = [longer EXCEPT ![k] = (longer[k] + 1) % 256]
    BY <1>8
  <2>2. CASE k \in 1 .. Len(longer)
    <3>1. longer[k] \in Octet
      BY <1>5, <2>2
    <3>2. PICK o \in 0 .. 255 : o = longer[k]
      BY <3>1 DEF Octet
    <3>3. (o + 1) % 256 \in 0 .. 255
      OBVIOUS
    <3>4. (longer[k] + 1) % 256 \in Octet
      BY <3>2, <3>3 DEF Octet
    <3>5. wire' \in Seq(Octet)
      BY <1>5, <2>1, <3>4, SetOctet
    <3> QED
      BY <1>1, <3>5, ExchangeFault
  <2>3. CASE k \notin 1 .. Len(longer)
    <3>1. DOMAIN longer = 1 .. Len(longer) /\ longer = [i \in DOMAIN longer |-> longer[i]]
      BY <1>5
    <3>2. [longer EXCEPT ![k] = (longer[k] + 1) % 256] = longer
      BY <2>3, <3>1
    <3> QED
      BY <1>1, <1>5, <2>1, <3>2, ExchangeFault
  <2> QED
    BY <2>2, <2>3
<1>9. CASE call.codec = "compact" /\ wire' = stretched
  <2>1. /\ sent # << >> /\ Typed(call.codec, sent[1])
        /\ EncodableBy(call.codec, sent[1], call.sender)
        /\ wire = EncodeBy(call.codec, sent[1], call.sender)
    BY <1>1 DEF InFlight, ExchangeInv
  <2>2. call.codec \in EveryCodec
    BY <1>2, CallFacts
  <2>3. PICK l \in Nat : l = Len(wire) /\ l >= 3
    BY <1>2, <1>9, <2>1, <2>2, ByEncodes
  <2>4. wire[1] \in Octet /\ wire[2] \in Octet
    BY <1>2, <2>3
  <2>5. 128 + (wire[2] % 128) \in Octet
    <3>1. PICK o \in 0 .. 255 : o = wire[2]
      BY <2>4 DEF Octet
    <3>2. o % 128 \in 0 .. 127
      OBVIOUS
    <3>3. PICK q \in 0 .. 127 : q = o % 128
      BY <3>2
    <3>4. 128 + q \in 0 .. 255
      OBVIOUS
    <3> QED
      BY <3>1, <3>3, <3>4 DEF Octet
  <2> DEFINE head == <<wire[1], 128 + (wire[2] % 128), 0>>
             tail == SubSeq(wire, 3, Len(wire))
  <2>6. head \in Seq(Octet)
    <3>1. 0 \in Octet
      BY DEF Octet
    <3> QED
      BY <2>4, <2>5, <3>1
  <2>7. tail \in Seq(Octet)
    <3>1. \A i \in 3 .. l : wire[i] \in Octet
      BY <1>2, <2>3
    <3> QED
      BY <1>2, <2>3, <3>1, SubSeqProperties
  <2> HIDE DEF head, tail
  <2>8. head \o tail \in Seq(Octet)
    BY <2>6, <2>7, Concat
  <2>9. wire' = head \o tail
    BY <1>9 DEF head, tail
  <2>10. wire' \in Seq(Octet)
    BY <2>8, <2>9
  <2> QED
    BY <1>1, <2>10, ExchangeFault
<1> HIDE DEF Declared, stretched
<1> QED
  BY <1>6, <1>7, <1>8, <1>9

LEMMA ExchangeDeliver ==
    ASSUME ExchangeInv, NEW supported, Deliver(supported)
    PROVE  ExchangeInv'
<1>1. /\ sent # << >> /\ sent' = sent /\ wire' = wire /\ intact' = intact /\ call' = call
      /\ result' = [done |-> TRUE, supported |-> supported,
                    record |-> DecodeBy(call.codec, wire, supported, call.receiver)]
  BY DEF Deliver
<1>2. /\ result'.done /\ result'.supported = supported
      /\ result'.record = DecodeBy(call.codec, wire, supported, call.receiver)
  BY <1>1
<1> QED
  BY <1>1, <1>2 DEF ExchangeInv

LEMMA ExchangeFinish ==
    ASSUME ExchangeInv, Finish
    PROVE  ExchangeInv'
<1>1. sent' = << >> /\ wire' = << >> /\ result' = Waiting /\ call' = call
  BY DEF Finish
<1>2. ~result'.done /\ wire' \in Seq(Octet)
  BY <1>1 DEF Waiting
<1> QED
  BY <1>1, <1>2 DEF ExchangeInv

LEMMA ExchangeNext ==
    ASSUME ExchangeInv, [Next]_vars
    PROVE  ExchangeInv'
<1>1. CASE \E r \in Repertoire(call.codec) : Send(r)
  BY <1>1, ExchangeSend
<1>2. CASE Alter
  BY <1>2, ExchangeAlter
<1>3. CASE Truncate
  BY <1>3, ExchangeTruncate
<1>4. CASE Lengthen
  BY <1>4, ExchangeLengthen
<1>5. CASE \E supported \in Supports(call.codec) : Deliver(supported)
  BY <1>5, ExchangeDeliver
<1>6. CASE Finish
  BY <1>6, ExchangeFinish
<1>7. CASE UNCHANGED vars
  <2>1. sent' = sent /\ wire' = wire /\ intact' = intact /\ call' = call /\ result' = result
    BY <1>7 DEF vars
  <2> QED
    BY <2>1 DEF ExchangeInv
<1> QED
  BY <1>1, <1>2, <1>3, <1>4, <1>5, <1>6, <1>7 DEF Next

\* The invariant of the exchange holds whatever happens to the octets.
THEOREM ExchangeInvariant == Spec => []ExchangeInv
<1>1. Init => ExchangeInv
  BY ExchangeInit
<1>2. ExchangeInv /\ [Next]_vars => ExchangeInv'
  BY ExchangeNext
<1> QED
  BY <1>1, <1>2, PTL DEF Spec

\* A result is typed, and accepted for encoding by its receiver.
LEMMA ResultTyped ==
    ASSUME ExchangeInv, NEW r \in ToSet(result.record)
    PROVE  Typed(call.codec, r) /\ EncodableBy(call.codec, r, call.receiver)
<1>1. result.record # << >>
  BY DEF ToSet
<1>2. result.done
  BY <1>1 DEF ExchangeInv, Waiting
<1>3. /\ call \in Calls /\ wire \in Seq(Octet)
      /\ result.record = DecodeBy(call.codec, wire, result.supported, call.receiver)
  BY <1>2 DEF ExchangeInv
<1>4. call.codec \in EveryCodec /\ IsCache(call.receiver)
  BY <1>3, CallFacts
<1>5. PICK d : /\ Typed(call.codec, d) /\ EncodableBy(call.codec, d, call.receiver)
               /\ result.record = <<d>>
  BY <1>1, <1>3, <1>4, ByDecoded
<1>6. r = d
  BY <1>5 DEF ToSet
<1> QED
  BY <1>5, <1>6

\* What is made of octets nothing happened to.
LEMMA IntactResult ==
    ASSUME ExchangeInv, result.done, intact
    PROVE  /\ \/ result.record = << >>
              \/ result.record = <<Received(sent[1], result.supported)>>
           /\ call.sender = call.receiver /\ AllKnown(sent[1], result.supported) =>
                 result.record # << >>
<1>1. /\ call \in Calls
      /\ result.record = DecodeBy(call.codec, wire, result.supported, call.receiver)
      /\ Typed(call.codec, sent[1]) /\ EncodableBy(call.codec, sent[1], call.sender)
      /\ wire = EncodeBy(call.codec, sent[1], call.sender)
  BY DEF ExchangeInv
<1>2. call.codec \in EveryCodec /\ IsCache(call.receiver)
  BY <1>1, CallFacts
<1> DEFINE codec == call.codec
           r == sent[1]
           sender == call.sender
           receiver == call.receiver
           supported == result.supported
<1>3. /\ result.record = DecodeBy(codec, EncodeBy(codec, r, sender), supported, receiver)
      /\ codec \in EveryCodec /\ Typed(codec, r) /\ EncodableBy(codec, r, sender)
      /\ IsCache(receiver)
  BY <1>1, <1>2
<1> HIDE DEF codec, r, sender, receiver, supported
<1>4. /\ result.record = << >> \/ result.record = <<Received(r, supported)>>
      /\ sender = receiver /\ AllKnown(r, supported) => result.record # << >>
  BY <1>3, ByReceives
<1> QED
  BY <1>4 DEF codec, r, sender, receiver, supported

\* Every record a decoder lets through is one the codec accepts for encoding,
\* whatever octets it was given (decode of every codec, and the validation each
\* ends in).
THEOREM DecodedIsEncodable == Spec => []TypeOK
<1>1. ASSUME ExchangeInv
      PROVE  TypeOK
  <2>1. call \in Calls /\ wire \in Seq(Octet)
    BY <1>1 DEF ExchangeInv
  <2>2. \A i \in DOMAIN wire : wire[i] \in 0 .. 255
    <3>1. \A i \in DOMAIN wire : wire[i] \in Octet
      BY <2>1
    <3> QED
      BY <3>1 DEF Octet
  <2>3. ASSUME NEW r \in ToSet(result.record)
        PROVE  EncodableBy(call.codec, r, call.receiver)
    BY <1>1, <2>3, ResultTyped
  <2> QED
    BY <2>1, <2>2, <2>3 DEF TypeOK
<1> QED
  BY <1>1, ExchangeInvariant, PTL

\* exact_encoded_size, of each codec, is the length of what encode writes.
THEOREM EncodedSizeIsExact == Spec => []SizeIsExact
<1>1. ASSUME ExchangeInv
      PROVE  SizeIsExact
  <2> SUFFICES ASSUME sent # << >>, intact
               PROVE  Len(wire) = SizeBy(call.codec, sent[1], call.sender)
    BY DEF SizeIsExact
  <2>1. call \in Calls /\ Typed(call.codec, sent[1])
        /\ EncodableBy(call.codec, sent[1], call.sender)
        /\ wire = EncodeBy(call.codec, sent[1], call.sender)
    BY <1>1 DEF ExchangeInv
  <2>2. call.codec \in EveryCodec
    BY <2>1, CallFacts
  <2> QED
    BY <2>1, <2>2, ByEncodes
<1> QED
  BY <1>1, ExchangeInvariant, PTL

\* No record that passes, in either direction, is longer than the maximum the
\* codec declares for its kind (declared_max_encoded_size).
THEOREM RecordsWithinMaximum == Spec => []DeclaredMaximumHolds
<1>1. ASSUME ExchangeInv
      PROVE  DeclaredMaximumHolds
  <2>1. ASSUME NEW r \in ToSet(sent) \cup ToSet(result.record)
        PROVE  Typed(call.codec, r)
    <3>1. CASE r \in ToSet(result.record)
      BY <1>1, <3>1, ResultTyped
    <3>2. CASE r \in ToSet(sent)
      <4>1. sent # << >>
        BY <3>2 DEF ToSet
      <4>2. sent = <<sent[1]>> /\ Typed(call.codec, sent[1])
        BY <1>1, <4>1 DEF ExchangeInv
      <4>3. r = sent[1]
        BY <3>2, <4>2 DEF ToSet
      <4> QED
        BY <4>2, <4>3
    <3> QED
      BY <2>1, <3>1, <3>2
  <2>2. call.codec \in EveryCodec
    BY <1>1, CallFacts DEF ExchangeInv
  <2> QED
    BY <2>1, <2>2, ByEncodes DEF DeclaredMaximumHolds
<1> QED
  BY <1>1, ExchangeInvariant, PTL

\* Untouched octets decode to the record that was sent, without the extensions
\* the receiver does not know, or not at all: a checkpoint that differs is an
\* error of the compact codec, never another SUMMARY.
THEOREM NeverSubstituted == Spec => []NeverAnotherRecord
<1>1. ASSUME ExchangeInv
      PROVE  NeverAnotherRecord
  <2> SUFFICES ASSUME result.done, intact, NEW r \in ToSet(result.record)
               PROVE  r = Received(sent[1], result.supported)
    BY DEF NeverAnotherRecord, Received
  <2>1. /\ result.record = << >> \/ result.record = <<Received(sent[1], result.supported)>>
    BY <1>1, IntactResult
  <2> QED
    BY <2>1 DEF ToSet
<1> QED
  BY <1>1, ExchangeInvariant, PTL

\* What an encoder writes its own decoder accepts, when the two callers hold
\* the same checkpoint and the receiver knows every extension.
THEOREM OwnImageAccepted == Spec => []SameContextAccepts
<1>1. ASSUME ExchangeInv
      PROVE  SameContextAccepts
  <2> SUFFICES ASSUME result.done, intact, call.sender = call.receiver, Known(result.supported)
               PROVE  result.record # << >>
    BY DEF SameContextAccepts
  <2>1. AllKnown(sent[1], result.supported)
    BY DEF Known, AllKnown, ToSet
  <2> QED
    BY <1>1, <2>1, IntactResult
<1> QED
  BY <1>1, ExchangeInvariant, PTL

\* Whatever happened to the octets, if they decode they are the only image of
\* the record they decode to.
THEOREM ImageIsUnique == Spec => []OneImagePerRecord
<1>1. ASSUME ExchangeInv
      PROVE  OneImagePerRecord
  <2> DEFINE got == DecodeBy(call.codec, wire, U32, call.receiver)
  <2> SUFFICES ASSUME NEW r \in ToSet(got)
               PROVE  EncodeBy(call.codec, r, call.receiver) = wire
    BY DEF OneImagePerRecord
  <2> HIDE DEF got
  <2>1. got # << >>
    BY DEF ToSet
  <2>2. call \in Calls /\ wire \in Seq(Octet)
    BY <1>1 DEF ExchangeInv
  <2>3. call.codec \in EveryCodec /\ IsCache(call.receiver)
    BY <2>2, CallFacts
  <2>4. PICK d : got = <<d>> /\ EncodeBy(call.codec, d, call.receiver) = wire
    BY <2>1, <2>2, <2>3, ByDecoded DEF got
  <2>5. r = d
    BY <2>4 DEF ToSet
  <2> QED
    BY <2>4, <2>5
<1> QED
  BY <1>1, ExchangeInvariant, PTL
=============================================================================

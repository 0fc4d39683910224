---------------------------- MODULE CheckProofs ----------------------------
(* Machine-checked theorems about what is decided on files alone: the keys  *)
(* of Chain's names, and the directories Check merges and deploys.          *)
EXTENDS Check, LedgerProofs, SequenceTheorems

-----------------------------------------------------------------------------
(* What digits are worth *)

(* The values of the prefixes of digits up to the n-th.                     *)
Values(v, digits, n) ==
  /\ v \in [0..n -> Nat]
  /\ v[0] = 0
  /\ \A i \in 1..n : v[i] = 10 * v[i - 1] + digits[i]

LEMMA ValuesExist ==
  ASSUME NEW digits \in Seq(Nat) PROVE \E v : Values(v, digits, Len(digits))
<1> DEFINE Bad == {n \in 0..Len(digits) : ~\E v : Values(v, digits, n)}
<1>1. ASSUME Bad # {} PROVE FALSE
  <2>1. PICK n \in Bad : \A k \in Bad : n <= k
    <3>1. Bad \in SUBSET Nat
      OBVIOUS
    <3> HIDE DEF Bad
    <3> QED BY <1>1, <3>1, LeastNumber
  <2>2. n \in 0..Len(digits) /\ n \in Int /\ ~\E v : Values(v, digits, n)
    BY <2>1
  <2>3. n # 0
    <3> DEFINE zero == [i \in 0..0 |-> 0]
    <3>1. Values(zero, digits, 0)
      BY DEF Values
    <3> QED BY <2>2, <3>1
  <2>4. n - 1 \in 0..Len(digits) /\ n - 1 \notin Bad /\ n \in 1..Len(digits)
    BY <2>1, <2>2, <2>3
  <2>5. PICK v : Values(v, digits, n - 1)
    BY <2>4
  <2> DEFINE w == [i \in 0..n |-> IF i = n THEN 10 * v[n - 1] + digits[n] ELSE v[i]]
  <2>6. v[n - 1] \in Nat /\ digits[n] \in Nat /\ v \in [0..(n - 1) -> Nat] /\ v[0] = 0
    BY <2>4, <2>5 DEF Values
  <2>7. 10 * v[n - 1] + digits[n] \in Nat
    BY <2>6
  <2>8. \A i \in 0..n : i # n => i \in 0..(n - 1) /\ v[i] \in Nat
    BY <2>2, <2>6
  <2>9. w \in [0..n -> Nat] /\ w[0] = 0
    BY <2>2, <2>3, <2>6, <2>7, <2>8
  <2>10. ASSUME NEW i \in 1..n PROVE w[i] = 10 * w[i - 1] + digits[i]
    <3>1. i - 1 \in 0..n /\ i - 1 # n /\ i \in 0..n
      BY <2>2
    <3>2. w[i - 1] = v[i - 1]
      BY <3>1
    <3>3. CASE i = n
      BY <3>1, <3>2, <3>3
    <3>4. CASE i # n
      <4>1. i \in 1..(n - 1) /\ w[i] = v[i]
        BY <2>2, <3>1, <3>4
      <4> HIDE DEF w
      <4> QED BY <2>5, <3>2, <4>1 DEF Values
    <3> QED BY <3>3, <3>4
  <2>11. Values(w, digits, n)
    <3> HIDE DEF w
    <3> QED BY <2>9, <2>10 DEF Values
  <2> QED BY <2>2, <2>11
<1>2. Len(digits) \notin Bad
  BY <1>1
<1>3. Len(digits) \in 0..Len(digits)
  OBVIOUS
<1> QED BY <1>2, <1>3

(* Value is the last of them.                                               *)
LEMMA ValueUnfolds ==
  ASSUME NEW digits \in Seq(Nat)
  PROVE  \E v : Values(v, digits, Len(digits)) /\ Value(digits) = v[Len(digits)]
<1> DEFINE value == CHOOSE value : value = [i \in 0..Len(digits) |-> IF i = 0 THEN 0 ELSE 10 * value[i - 1] + digits[i]]
<1>1. Value(digits) = value[Len(digits)]
  BY DEF Value
<1>2. PICK v : Values(v, digits, Len(digits))
  BY ValuesExist
<1>3. v = [i \in 0..Len(digits) |-> IF i = 0 THEN 0 ELSE 10 * v[i - 1] + digits[i]]
  BY <1>2 DEF Values
<1>4. value = [i \in 0..Len(digits) |-> IF i = 0 THEN 0 ELSE 10 * value[i - 1] + digits[i]]
  <2> DEFINE Fixed(f) == f = [i \in 0..Len(digits) |-> IF i = 0 THEN 0 ELSE 10 * f[i - 1] + digits[i]]
  <2>1. Fixed(v)
    BY <1>3
  <2>2. value = CHOOSE f : Fixed(f)
    OBVIOUS
  <2>3. Fixed(CHOOSE f : Fixed(f))
    <3> HIDE DEF Fixed
    <3> QED BY <2>1
  <2> QED BY <2>2, <2>3
<1> HIDE DEF value
<1>5. \A i \in 0..Len(digits) : value[i] \in Nat
  <2> DEFINE Bad == {n \in 0..Len(digits) : value[n] \notin Nat}
  <2>1. ASSUME Bad # {} PROVE FALSE
    <3>1. PICK n \in Bad : \A k \in Bad : n <= k
      <4>1. Bad \in SUBSET Nat
        OBVIOUS
      <4> HIDE DEF Bad
      <4> QED BY <2>1, <4>1, LeastNumber
    <3>2. CASE n = 0
      BY <1>4, <3>1, <3>2
    <3>3. CASE n # 0
      <4>1. n \in 1..Len(digits) /\ n - 1 \in 0..Len(digits) /\ n - 1 \notin Bad
        BY <3>1, <3>3
      <4>2. value[n - 1] \in Nat /\ digits[n] \in Nat
        BY <4>1
      <4>3. value[n] = 10 * value[n - 1] + digits[n]
        BY <1>4, <3>3, <4>1
      <4> QED BY <3>1, <4>2, <4>3
    <3> QED BY <3>2, <3>3
  <2> QED BY <2>1
<1>6. value \in [0..Len(digits) -> Nat]
  BY <1>4, <1>5
<1>7. Values(value, digits, Len(digits))
  <2>1. Len(digits) \in Nat
    OBVIOUS
  <2>2. value[0] = 0
    BY <1>4, <2>1
  <2>3. \A i \in 1..Len(digits) : value[i] = 10 * value[i - 1] + digits[i]
    BY <1>4, <2>1
  <2> QED BY <1>6, <2>2, <2>3 DEF Values
<1> QED BY <1>1, <1>7

-----------------------------------------------------------------------------
(* The decimal form of a number *)

(* A decimal form of every number up to n.                                  *)
Decimals(f, n) ==
  /\ f \in [0..n -> Seq(Nat)]
  /\ \A k \in 0..n : f[k] = IF k < 10 THEN <<k>> ELSE Append(f[k \div 10], k % 10)

LEMMA Tenth == ASSUME NEW k \in Nat, k >= 10 PROVE k \div 10 \in 0..(k - 1) /\ k % 10 \in 0..9
OBVIOUS

LEMMA Tens ==
  ASSUME NEW a \in Nat, NEW d \in 0..9
  PROVE  /\ (10 * a + d) \div 10 = a /\ (10 * a + d) % 10 = d
         /\ a > 0 => 10 * a + d > 0 /\ ~(10 * a + d < 10)
OBVIOUS

LEMMA DecimalsExist ==
  ASSUME NEW n \in Nat PROVE \E f : Decimals(f, n)
<1> DEFINE Bad == {k \in Nat : ~\E f : Decimals(f, k)}
<1>1. ASSUME Bad # {} PROVE FALSE
  <2>1. PICK k \in Bad : \A j \in Bad : k <= j
    <3>1. Bad \in SUBSET Nat
      OBVIOUS
    <3> HIDE DEF Bad
    <3> QED BY <1>1, <3>1, LeastNumber
  <2>2. k \in Nat /\ ~\E f : Decimals(f, k)
    BY <2>1
  <2>3. k # 0
    <3> DEFINE zero == [i \in 0..0 |-> <<0>>]
    <3>1. Decimals(zero, 0)
      BY DEF Decimals
    <3> QED BY <2>2, <3>1
  <2>4. k - 1 \in Nat /\ k - 1 \notin Bad
    BY <2>1, <2>2, <2>3
  <2>5. PICK f : Decimals(f, k - 1)
    BY <2>4
  <2> DEFINE last == IF k < 10 THEN <<k>> ELSE Append(f[k \div 10], k % 10)
             g == [i \in 0..k |-> IF i = k THEN last ELSE f[i]]
  <2>6. f \in [0..(k - 1) -> Seq(Nat)]
    BY <2>5 DEF Decimals
  <2>7. last \in Seq(Nat)
    <3>1. CASE k < 10
      BY <2>2, <3>1
    <3>2. CASE k >= 10
      <4>1. k \div 10 \in 0..(k - 1) /\ k % 10 \in 0..9
        BY <2>2, <3>2, Tenth
      <4>2. f[k \div 10] \in Seq(Nat) /\ k % 10 \in Nat
        BY <2>6, <4>1
      <4>3. last = Append(f[k \div 10], k % 10)
        BY <2>2, <3>2
      <4> QED BY <4>2, <4>3
    <3> QED BY <2>2, <3>1, <3>2
  <2> HIDE DEF last
  <2>8. \A i \in 0..k : i # k => i \in 0..(k - 1)
    BY <2>2
  <2>9. g \in [0..k -> Seq(Nat)]
    BY <2>6, <2>7, <2>8
  <2>10. ASSUME NEW i \in 0..k PROVE g[i] = IF i < 10 THEN <<i>> ELSE Append(g[i \div 10], i % 10)
    <3>1. ASSUME i >= 10 PROVE i \div 10 \in 0..(i - 1) /\ g[i \div 10] = f[i \div 10]
      <4>1. i \div 10 \in 0..(i - 1)
        BY <3>1, Tenth
      <4>2. i \div 10 \in 0..k /\ i \div 10 # k
        BY <2>2, <4>1
      <4> QED BY <4>1, <4>2
    <3>2. CASE i = k
      <4>1. g[i] = last
        BY <3>2
      <4> HIDE DEF g
      <4> QED BY <2>2, <3>1, <3>2, <4>1 DEF last
    <3>3. CASE i # k
      <4>1. i \in 0..(k - 1) /\ g[i] = f[i]
        BY <2>8, <3>3
      <4>2. f[i] = IF i < 10 THEN <<i>> ELSE Append(f[i \div 10], i % 10)
        BY <2>5, <4>1 DEF Decimals
      <4> HIDE DEF g
      <4> QED BY <3>1, <4>1, <4>2
    <3> QED BY <3>2, <3>3
  <2>11. Decimals(g, k)
    <3> HIDE DEF g
    <3> QED BY <2>9, <2>10 DEF Decimals
  <2> QED BY <2>2, <2>11
<1>2. n \notin Bad
  BY <1>1
<1> QED BY <1>2

LEMMA DecimalUnfolds ==
  \A k \in 0..MaxInt64 : Decimal[k] = IF k < 10 THEN <<k>> ELSE Append(Decimal[k \div 10], k % 10)
<1> DEFINE Fixed(f) == f = [k \in 0..MaxInt64 |-> IF k < 10 THEN <<k>> ELSE Append(f[k \div 10], k % 10)]
<1>1. PICK f : Decimals(f, MaxInt64)
  BY DecimalsExist, NamesAssumption DEF NamesAssumption
<1>2. Fixed(f)
  BY <1>1 DEF Decimals
<1>3. Decimal = CHOOSE g : Fixed(g)
  BY DEF Decimal
<1>4. Fixed(Decimal)
  <2> HIDE DEF Fixed
  <2> QED BY <1>2, <1>3
<1> QED BY <1>4

(* A number that is parsed is in range, and its digits are digits.          *)
LEMMA Parsed ==
  ASSUME NEW m \in Migrations, Sequence(m.name) # NoSequence
  PROVE  /\ m.name.digits \in Seq(0..9)
         /\ Len(m.name.digits) \in Nat \ {0}
         /\ Sequence(m.name) = Value(m.name.digits)
         /\ Value(m.name.digits) \in 0..MaxInt64
<1> DEFINE digits == m.name.digits
<1>1. digits \in Seq(0..NotADigit) /\ MaxInt64 \in Nat
  BY NamesAssumption DEF NamesAssumption
<1>2. /\ digits # <<>> /\ (\A i \in DOMAIN digits : digits[i] # NotADigit)
      /\ Value(digits) <= MaxInt64
      /\ Sequence(m.name) = Value(digits)
  BY DEF Sequence
<1> HIDE DEF digits
<1>3. digits \in Seq(0..9)
  <2>1. \A i \in 1..Len(digits) : digits[i] \in 0..9
    BY <1>1, <1>2 DEF NotADigit
  <2> QED BY <1>1, <2>1
<1>4. Len(digits) \in Nat \ {0}
  BY <1>2, <1>3
<1>5. Value(digits) \in Nat
  <2>1. digits \in Seq(Nat)
    BY <1>3
  <2>2. PICK v : Values(v, digits, Len(digits)) /\ Value(digits) = v[Len(digits)]
    BY <2>1, ValueUnfolds
  <2>3. v \in [0..Len(digits) -> Nat]
    BY <2>2 DEF Values
  <2> QED BY <1>4, <2>2, <2>3
<1> QED BY <1>1, <1>2, <1>3, <1>4, <1>5 DEF digits

(* A piece of a sequence grows by its last element.                         *)
LEMMA LastOfSubSeq ==
  ASSUME NEW seq \in Seq(Nat), NEW first \in 1..Len(seq), NEW last \in first..Len(seq)
  PROVE  SubSeq(seq, first, last) = IF last = first THEN <<seq[last]>>
                                    ELSE Append(SubSeq(seq, first, last - 1), seq[last])
<1>1. seq[last] \in Nat /\ Len(seq) \in Nat
  OBVIOUS
<1>2. SubSeq(seq, first, last) = SubSeq(seq, first, last - 1) \o <<seq[last]>>
  BY SubSeqRecursiveSecond
<1>3. SubSeq(seq, first, last - 1) \in Seq(Nat)
  BY SubSeqProperties
<1>4. Append(SubSeq(seq, first, last - 1), seq[last]) = SubSeq(seq, first, last - 1) \o <<seq[last]>>
  BY <1>1, <1>3, AppendIsConcat
<1>5. ASSUME last = first PROVE SubSeq(seq, first, last) = <<seq[last]>>
  <2>1. SubSeq(seq, first, last - 1) = <<>>
    BY <1>5, SubSeqEmpty
  <2>2. <<>> \o <<seq[last]>> = <<seq[last]>>
    BY <1>1
  <2> QED BY <1>2, <2>1, <2>2
<1> QED BY <1>2, <1>4, <1>5

(* A longer prefix is worth no less.                                        *)
LEMMA ValuesGrow ==
  ASSUME NEW digits \in Seq(Nat), NEW v, Values(v, digits, Len(digits))
  PROVE  \A k \in 0..Len(digits) : v[k] <= v[Len(digits)]
<1> DEFINE n == Len(digits)
           Bad == {d \in 0..n : ~(v[n - d] <= v[n])}
<1>1. n \in Nat /\ v \in [0..n -> Nat]
  BY DEF Values
<1>2. ASSUME Bad # {} PROVE FALSE
  <2>1. PICK d \in Bad : \A e \in Bad : d <= e
    <3>1. Bad \in SUBSET Nat
      BY <1>1
    <3> HIDE DEF Bad
    <3> QED BY <1>2, <3>1, LeastNumber
  <2>2. d \in 0..n /\ ~(v[n - d] <= v[n])
    BY <2>1
  <2>3. d # 0
    BY <1>1, <2>2
  <2>4. d - 1 \in 0..n /\ d - 1 \notin Bad /\ n - d + 1 \in 1..n
    <3>1. d - 1 \in 0..n /\ n - d + 1 \in 1..n /\ ~(d <= d - 1)
      BY <1>1, <2>2, <2>3
    <3> HIDE DEF Bad
    <3> QED BY <2>1, <3>1
  <2>5. n - (d - 1) = n - d + 1 /\ (n - d + 1) - 1 = n - d /\ n - d \in 0..n
    BY <1>1, <2>2
  <2>6. v[n - d + 1] <= v[n]
    BY <2>4, <2>5
  <2>7. v[n - d + 1] = 10 * v[n - d] + digits[n - d + 1]
    BY <2>4, <2>5 DEF Values
  <2>8. v[n - d] \in Nat /\ v[n - d + 1] \in Nat /\ v[n] \in Nat /\ digits[n - d + 1] \in Nat
    <3>1. n - d + 1 \in 0..n /\ n \in 0..n /\ n - d + 1 \in 1..Len(digits)
      BY <1>1, <2>4
    <3>2. digits[n - d + 1] \in Nat
      BY <3>1
    <3> HIDE DEF n
    <3> QED BY <1>1, <2>5, <3>1, <3>2
  <2> QED BY <2>2, <2>6, <2>7, <2>8
<1>3. ASSUME NEW k \in 0..n PROVE v[k] <= v[n]
  <2>1. n - k \in 0..n /\ n - (n - k) = k /\ n - k \notin Bad
    BY <1>1, <1>2
  <2> QED BY <2>1
<1> QED BY <1>3

(* Digits up to the k-th, without the zeros they start with, are the        *)
(* decimal form of what they are worth.                                     *)
LEMMA DigitsAreDecimal ==
  ASSUME NEW digits \in Seq(0..9), NEW v, Values(v, digits, Len(digits)), v[Len(digits)] <= MaxInt64,
         NEW s \in DOMAIN digits, digits[s] # 0, \A i \in DOMAIN digits : digits[i] # 0 => s <= i
  PROVE  \A k \in s..Len(digits) : v[k] > 0 /\ Decimal[v[k]] = SubSeq(digits, s, k)
<1> DEFINE n == Len(digits)
<1>1. n \in Nat /\ v \in [0..n -> Nat] /\ s \in 1..n /\ digits \in Seq(Nat) /\ MaxInt64 \in Nat
  <2>1. v \in [0..n -> Nat]
    BY DEF Values
  <2>2. MaxInt64 \in Nat
    BY NamesAssumption DEF NamesAssumption
  <2> QED BY <2>1, <2>2
<1>2. \A k \in 0..n : v[k] \in 0..MaxInt64
  <2>1. \A k \in 0..n : v[k] <= v[n]
    BY <1>1, ValuesGrow
  <2>2. v[n] \in Nat
    BY <1>1
  <2> QED BY <1>1, <2>1, <2>2
<1>3. v[s - 1] = 0
  <2> DEFINE Bad == {k \in 0..(s - 1) : v[k] # 0}
  <2>1. ASSUME Bad # {} PROVE FALSE
    <3>1. PICK k \in Bad : \A j \in Bad : k <= j
      <4>1. Bad \in SUBSET Nat
        OBVIOUS
      <4> HIDE DEF Bad
      <4> QED BY <2>1, <4>1, LeastNumber
    <3>2. k \in 0..(s - 1) /\ v[k] # 0
      BY <3>1
    <3>3. k # 0
      BY <3>2 DEF Values
    <3>4. k \in 1..n /\ k < s /\ k - 1 \in 0..(s - 1) /\ k - 1 \notin Bad
      BY <1>1, <3>1, <3>2, <3>3
    <3>5. v[k - 1] = 0 /\ digits[k] = 0
      BY <1>1, <3>4
    <3>6. v[k] = 10 * v[k - 1] + digits[k]
      BY <3>4 DEF Values
    <3> QED BY <3>2, <3>5, <3>6
  <2>2. s - 1 \in 0..(s - 1) /\ s - 1 \notin Bad
    BY <1>1, <2>1
  <2> QED BY <2>2
<1> DEFINE Bad == {k \in s..n : ~(v[k] > 0 /\ Decimal[v[k]] = SubSeq(digits, s, k))}
<1>4. ASSUME Bad # {} PROVE FALSE
  <2>1. PICK k \in Bad : \A j \in Bad : k <= j
    <3>1. Bad \in SUBSET Nat
      BY <1>1
    <3> HIDE DEF Bad
    <3> QED BY <1>4, <3>1, LeastNumber
  <2>2. k \in s..n /\ k \in 1..n /\ k - 1 \in 0..n /\ k \in 0..n
    BY <1>1, <2>1
  <2>3. ~(v[k] > 0 /\ Decimal[v[k]] = SubSeq(digits, s, k))
    BY <2>1
  <2>4. k # s => k - 1 \in s..n /\ v[k - 1] > 0 /\ Decimal[v[k - 1]] = SubSeq(digits, s, k - 1)
    <3>1. ASSUME k # s PROVE k - 1 \in s..n /\ ~(k <= k - 1)
      BY <1>1, <2>2, <3>1
    <3>2. ASSUME k # s PROVE k - 1 \notin Bad
      <4> HIDE DEF Bad
      <4> QED BY <2>1, <3>1, <3>2
    <3> QED BY <3>1, <3>2
  <2>5. v[k] = 10 * v[k - 1] + digits[k] /\ digits[k] \in 0..9
    BY <2>2 DEF Values
  <2> HIDE DEF Bad, n
  <2>6. v[k] \in 0..MaxInt64 /\ v[k] \in Nat /\ v[k - 1] \in Nat
    BY <1>1, <1>2, <2>2
  <2>7. SubSeq(digits, s, k) = IF k = s THEN <<digits[k]>> ELSE Append(SubSeq(digits, s, k - 1), digits[k])
    BY <1>1, <2>2, LastOfSubSeq DEF n
  <2>8. Decimal[v[k]] = IF v[k] < 10 THEN <<v[k]>> ELSE Append(Decimal[v[k] \div 10], v[k] % 10)
    BY <2>6, DecimalUnfolds
  <2>9. CASE k = s
    <3>1. v[k] = digits[k] /\ v[k] > 0 /\ v[k] < 10
      BY <1>3, <2>5, <2>6, <2>9
    <3> QED BY <2>3, <2>7, <2>8, <2>9, <3>1
  <2>10. CASE k # s
    <3>1. v[k] \div 10 = v[k - 1] /\ v[k] % 10 = digits[k]
      <4>1. (10 * v[k - 1] + digits[k]) \div 10 = v[k - 1] /\ (10 * v[k - 1] + digits[k]) % 10 = digits[k]
        BY <2>5, <2>6, Tens, Zenon
      <4> QED BY <2>5, <4>1, Zenon
    <3>2. v[k] > 0 /\ ~(v[k] < 10)
      <4>1. v[k - 1] > 0
        BY <2>4, <2>10
      <4>2. v[k - 1] > 0 => 10 * v[k - 1] + digits[k] > 0 /\ ~(10 * v[k - 1] + digits[k] < 10)
        BY <2>5, <2>6, Tens, Zenon
      <4> QED BY <2>5, <4>1, <4>2, Zenon
    <3> QED BY <2>3, <2>4, <2>7, <2>8, <2>10, <3>1, <3>2
  <2> QED BY <2>9, <2>10
<1> QED BY <1>4

(* Digits that are all zeros are worth nothing.                             *)
LEMMA ZerosAreZero ==
  ASSUME NEW digits \in Seq(0..9), NEW v, Values(v, digits, Len(digits)), \A i \in DOMAIN digits : digits[i] = 0
  PROVE  v[Len(digits)] = 0
<1> DEFINE Bad == {k \in 0..Len(digits) : v[k] # 0}
<1>1. ASSUME Bad # {} PROVE FALSE
  <2>1. PICK k \in Bad : \A j \in Bad : k <= j
    <3>1. Bad \in SUBSET Nat
      OBVIOUS
    <3> HIDE DEF Bad
    <3> QED BY <1>1, <3>1, LeastNumber
  <2>2. k # 0 /\ k \in 0..Len(digits) /\ v[k] # 0
    BY <2>1 DEF Values
  <2>3. k \in 1..Len(digits) /\ k - 1 \in 0..Len(digits) /\ k - 1 \notin Bad
    BY <2>1, <2>2
  <2>4. v[k] = 10 * v[k - 1] + digits[k] /\ v[k - 1] = 0 /\ digits[k] = 0
    BY <2>3 DEF Values
  <2> QED BY <2>2, <2>4
<1>2. Len(digits) \in 0..Len(digits) /\ Len(digits) \notin Bad
  BY <1>1
<1> QED BY <1>2

(* The key a file is looked up by is the decimal form of its number.        *)
LEMMA PrefixIsDecimal ==
  ASSUME NEW m \in Migrations, Sequence(m.name) # NoSequence
  PROVE  Prefix(m.name) = Decimal[Sequence(m.name)]
<1> DEFINE digits == m.name.digits
           solid == {i \in DOMAIN digits : digits[i] # 0}
<1>1. /\ digits \in Seq(0..9) /\ Len(digits) \in Nat \ {0}
      /\ Sequence(m.name) = Value(digits) /\ Value(digits) \in 0..MaxInt64
  BY Parsed
<1>2. Prefix(m.name) = IF solid = {} THEN <<0>>
                       ELSE SubSeq(digits, CHOOSE i \in solid : \A j \in solid : i <= j, Len(digits))
  BY DEF Prefix
<1> HIDE DEF digits
<1>3. digits \in Seq(Nat)
  BY <1>1
<1>4. PICK v : Values(v, digits, Len(digits)) /\ Value(digits) = v[Len(digits)]
  BY <1>3, ValueUnfolds
<1>5. CASE solid = {}
  <2>1. v[Len(digits)] = 0
    BY <1>1, <1>4, <1>5, ZerosAreZero
  <2>2. Decimal[0] = <<0>>
    <3>1. 0 \in 0..MaxInt64 /\ 0 < 10
      BY NamesAssumption DEF NamesAssumption
    <3>2. Decimal[0] = IF 0 < 10 THEN <<0>> ELSE Append(Decimal[0 \div 10], 0 % 10)
      BY <3>1, DecimalUnfolds, Zenon
    <3> QED BY <3>1, <3>2
  <2> QED BY <1>1, <1>2, <1>4, <1>5, <2>1, <2>2
<1>6. CASE solid # {}
  <2> DEFINE s == CHOOSE i \in solid : \A j \in solid : i <= j
  <2>1. solid \in SUBSET Nat
    BY <1>1
  <2>2. \E i \in solid : \A j \in solid : i <= j
    <3> HIDE DEF solid
    <3> QED BY <1>6, <2>1, LeastNumber
  <2>3. s \in solid /\ \A j \in solid : s <= j
    <3> HIDE DEF solid
    <3> QED BY <2>2
  <2> HIDE DEF s
  <2>4. s \in DOMAIN digits /\ digits[s] # 0 /\ \A i \in DOMAIN digits : digits[i] # 0 => s <= i
    BY <2>3
  <2>5. v[Len(digits)] <= MaxInt64
    BY <1>1, <1>4, NamesAssumption DEF NamesAssumption
  <2>6. \A k \in s..Len(digits) : Decimal[v[k]] = SubSeq(digits, s, k)
    BY <1>1, <1>4, <2>4, <2>5, DigitsAreDecimal
  <2>7. Len(digits) \in s..Len(digits)
    BY <1>1, <2>4
  <2>8. Prefix(m.name) = SubSeq(digits, s, Len(digits))
    BY <1>2, <1>6 DEF s
  <2> QED BY <1>1, <1>4, <2>6, <2>7, <2>8
<1> QED BY <1>5, <1>6

-----------------------------------------------------------------------------
(* What Load makes of a directory *)

LEMMA FileNumbers ==
  ASSUME NEW files \in SUBSET Migrations, NoSequence \notin Numbers(files)
  PROVE  /\ Numbers(files) = {m.seq : m \in files}
         /\ \A m \in files : m.seq = Sequence(m.name) /\ m.seq \in Seqs /\ m.seq \in Nat
         /\ Numbers(files) \in SUBSET Seqs
<1>1. \A m \in files : m.seq = Sequence(m.name)
  BY NamesAssumption DEF NamesAssumption
<1>2. \A m \in files : m.seq # NoSequence
  BY <1>1 DEF Numbers
<1>3. \A m \in files : m.seq \in Seqs /\ m.seq \in Nat
  BY <1>2, FilesAssumption DEF Seqs, FilesAssumption
<1> QED BY <1>1, <1>3 DEF Numbers

(* Where no two keys are the same no two numbers are.                       *)
LEMMA KeysTellFiles ==
  ASSUME NEW files \in SUBSET Migrations, NoSequence \notin Numbers(files), \A m, n \in files : ~SameKey(m, n)
  PROVE  \A m, n \in files : m.seq = n.seq => m = n
<1>1. \A m \in files : Sequence(m.name) = m.seq /\ m.seq # NoSequence
  BY FileNumbers DEF Numbers
<1>2. \A m \in files : Prefix(m.name) = Decimal[m.seq]
  BY <1>1, PrefixIsDecimal
<1> QED BY <1>2 DEF SameKey

LEMMA UpFilesAreMigrations ==
  ASSUME NEW directory \in SUBSET Migrations PROVE UpFiles(directory) \in SUBSET Migrations
BY DEF UpFiles

LEMMA AcceptedNumbers ==
  ASSUME NEW directory, LoadAccepts(directory) PROVE NoSequence \notin Numbers(UpFiles(directory))
BY DEF LoadAccepts, Numbers

(* Files with different numbers are as many as their numbers.               *)
LEMMA AsManyNumbers ==
  ASSUME NEW files \in SUBSET Migrations, NoSequence \notin Numbers(files),
         \A m, n \in files : m.seq = n.seq => m = n
  PROVE  /\ IsFiniteSet(files) /\ Cardinality(files) \in Nat
         /\ Cardinality(Numbers(files)) = Cardinality(files)
<1> DEFINE K == Numbers(files)
           f == [m \in files |-> m.seq]
<1>1. IsFiniteSet(files)
  BY FinitelyManyFiles, FS_Subset DEF FinitelyManyFiles
<1>2. K = {m.seq : m \in files}
  BY FileNumbers
<1> HIDE DEF K
<1>3. f \in Bijection(files, K)
  <2>1. f \in [files -> K] /\ \A q \in K : \E m \in files : f[m] = q
    BY <1>2
  <2>2. IsInjective(f)
    BY DEF IsInjective
  <2> HIDE DEF f
  <2> QED BY <2>1, <2>2 DEF Bijection, Injection, Surjection
<1>4. ExistsBijection(files, K)
  <2> HIDE DEF f
  <2> QED BY <1>3 DEF ExistsBijection
<1>5. Cardinality(K) = Cardinality(files)
  BY <1>1, <1>4, FS_Bijection
<1>6. Cardinality(files) \in Nat
  BY <1>1, FS_CardinalityType
<1> QED BY <1>1, <1>5, <1>6 DEF K

(* Load lists the files of a directory it accepts, each once and by number. *)
LEMMA LoadOrders ==
  ASSUME NEW directory \in SUBSET Migrations, LoadAccepts(directory)
  PROVE  /\ Load(directory) \in Seq(Migrations)
         /\ Files(Load(directory)) = UpFiles(directory)
         /\ ValidateSequences(Load(directory))
<1> DEFINE files == UpFiles(directory)
           n == Cardinality(files)
           K == Numbers(files)
           Listed(tree) == /\ \A m \in files : \E i \in DOMAIN tree : tree[i] = m
                           /\ \A i, j \in DOMAIN tree : i < j => Sequence(tree[i].name) <= Sequence(tree[j].name)
<1>1. files \in SUBSET Migrations /\ NoSequence \notin K /\ \A p, q \in files : ~SameKey(p, q)
  BY UpFilesAreMigrations, AcceptedNumbers DEF LoadAccepts
<1>2. \A p, q \in files : p.seq = q.seq => p = q
  BY <1>1, KeysTellFiles
<1>3. \A m \in files : m.seq = Sequence(m.name) /\ m.seq \in Seqs /\ m.seq \in Nat
  BY <1>1, FileNumbers
<1>4. IsFiniteSet(files) /\ n \in Nat /\ Cardinality(K) = n
  BY <1>1, <1>2, AsManyNumbers
<1>5. K = {m.seq : m \in files} /\ K \in SUBSET Seqs
  BY <1>1, FileNumbers
<1>6. Load(directory) = CHOOSE tree \in [1..n -> files] : Listed(tree)
  BY DEF Load
<1> HIDE DEF files, n, K
<1>7. \E tree \in [1..n -> files] : Listed(tree)
  <2>1. K \in SUBSET Nat /\ IsFiniteSet(K)
    BY <1>5, KeysAreFinite
  <2> DEFINE f == InOrder(K)
             g == [i \in 1..n |-> FileOf(f[i], files)]
  <2>2. /\ f \in [1..n -> K]
        /\ \A q \in K : \E i \in 1..n : f[i] = q
        /\ \A i, j \in 1..n : i < j => f[i] < f[j]
    BY <1>4, <2>1, InOrderEnumerates DEF Enumerates
  <2> HIDE DEF f
  <2>3. \A i \in 1..n : FileOf(f[i], files) \in files /\ FileOf(f[i], files).seq = f[i]
    BY <1>5, <2>2, FileOfKey
  <2>4. g \in [1..n -> files] /\ \A i \in 1..n : g[i].seq = f[i]
    BY <2>3
  <2> HIDE DEF g
  <2>5. ASSUME NEW m \in files PROVE \E i \in 1..n : g[i] = m
    <3>1. m.seq \in K
      BY <1>5
    <3>2. PICK i \in 1..n : f[i] = m.seq
      BY <2>2, <3>1
    <3> QED BY <1>2, <2>4, <3>2
  <2>6. ASSUME NEW i \in 1..n, NEW j \in 1..n, i < j PROVE Sequence(g[i].name) <= Sequence(g[j].name)
    <3>1. g[i] \in files /\ g[j] \in files /\ g[i].seq = f[i] /\ g[j].seq = f[j]
      BY <2>4
    <3>2. f[i] < f[j] /\ f[i] \in Nat /\ f[j] \in Nat
      BY <2>1, <2>2, <2>6
    <3> QED BY <1>3, <3>1, <3>2
  <2>7. Listed(g)
    BY <2>4, <2>5, <2>6
  <2> QED BY <2>4, <2>7
<1> DEFINE tree == Load(directory)
<1>8. tree \in [1..n -> files] /\ Listed(tree)
  <2> HIDE DEF Listed
  <2> QED BY <1>6, <1>7
<1> HIDE DEF tree
<1>9. DOMAIN tree = 1..n /\ tree \in Seq(Migrations) /\ \A i \in 1..n : tree[i] \in files
  BY <1>1, <1>4, <1>8
<1>10. Files(tree) = files
  BY <1>8, <1>9 DEF Files
<1>11. tree \in Injection(1..n, files)
  <2>1. tree \in Surjection(1..n, files)
    BY <1>8, <1>9 DEF Surjection
  <2>2. IsFiniteSet(1..n) /\ Cardinality(1..n) = n
    BY <1>4, FS_Interval
  <2>3. Cardinality(1..n) = Cardinality(files)
    BY <2>2 DEF n
  <2> QED BY <2>1, <2>2, <2>3, FS_SurjSameCardinalityImpliesInj
<1>12. ASSUME NEW i \in 1..n, NEW j \in 1..n, i < j PROVE tree[i].seq < tree[j].seq
  <2>1. i # j
    BY <1>4, <1>12
  <2>2. tree[i] # tree[j]
    BY <1>11, <2>1 DEF Injection, IsInjective
  <2>3. tree[i].seq # tree[j].seq /\ tree[i].seq \in Nat /\ tree[j].seq \in Nat
    BY <1>2, <1>3, <1>9, <2>2
  <2>4. tree[i].seq <= tree[j].seq
    BY <1>3, <1>8, <1>9, <1>12
  <2> QED BY <2>3, <2>4
<1>13. NoSequence \notin InTree(tree)
  BY <1>1, <1>5, <1>10 DEF InTree
<1>14. ValidateSequences(tree)
  BY <1>9, <1>12, <1>13 DEF ValidateSequences
<1> QED BY <1>9, <1>10, <1>14 DEF tree, files

-----------------------------------------------------------------------------
(* The chain of a mainline *)

LEMMA ChainType == Spec => [](chain \in SUBSET Migrations)
<1>1. Init => chain \in SUBSET Migrations
  BY DEF Init
<1>2. chain \in SUBSET Migrations /\ [Next]_checkVars => (chain \in SUBSET Migrations)'
  BY DEF Next, Write, Discard, Merge, Deploy, checkVars
<1> QED BY <1>1, <1>2, PTL DEF Spec

(* The text a file is looked up by is the decimal form of its number, and   *)
(* what Load accepts is a chain (common.go:30-68, loader.go:31-79): whatever*)
(* digits the names carry and however many zeros they start with.           *)
THEOREM KeysAreNumbersAlways == Spec => []KeysAreNumbers
<1>1. chain \in SUBSET Migrations => KeysAreNumbers
  <2> SUFFICES ASSUME chain \in SUBSET Migrations, NEW m \in Migrations, LoadAccepts(chain \cup {m})
               PROVE  /\ ValidateSequences(Load(chain \cup {m}))
                      /\ \A f \in UpFiles(chain \cup {m}) : Prefix(f.name) = Decimal[Sequence(f.name)]
    BY DEF KeysAreNumbers
  <2> DEFINE directory == chain \cup {m}
  <2>1. directory \in SUBSET Migrations /\ LoadAccepts(directory)
    OBVIOUS
  <2> HIDE DEF directory
  <2>2. ValidateSequences(Load(directory))
    BY <2>1, LoadOrders
  <2>3. ASSUME NEW f \in UpFiles(directory) PROVE Prefix(f.name) = Decimal[Sequence(f.name)]
    <3>1. f \in Migrations /\ Sequence(f.name) # NoSequence
      BY <2>1, UpFilesAreMigrations DEF LoadAccepts
    <3> QED BY <3>1, PrefixIsDecimal
  <2> QED BY <2>2, <2>3 DEF directory
<1> QED BY <1>1, ChainType, PTL

(* A mainline whose merges were all checked: its numbers are 1, 2, 3, ...,  *)
(* what is deployed has the row its apply wrote, what is not is the last.   *)
ChainInv ==
  /\ chain \in SUBSET Migrations
  /\ CheckChain(UpFiles(chain))
  /\ DOMAIN records = Seqs
  /\ \A v, w \in waiting : v = w
  /\ \A w \in waiting : w.file \in UpFiles(chain) /\ \A m \in UpFiles(chain) : m.seq <= w.file.seq
  /\ \A q \in Seqs : Recorded(records[q]) =>
       \E m \in UpFiles(chain) : m.seq = q /\ records[q] = RowOf(m, StatusApplied)
  /\ \A m \in UpFiles(chain) : (\A w \in waiting : w.file # m) => Recorded(records[m.seq])

LEMMA ChainInit == Init => ChainInv
<1> SUFFICES ASSUME Init PROVE ChainInv
  OBVIOUS
<1> USE DEF Init
<1>1. chain \in SUBSET Migrations /\ UpFiles(chain) = {}
  BY DEF UpFiles
<1>2. Numbers({}) = {} /\ Cardinality({}) = 0 /\ 1..0 = {}
  BY FS_EmptySet DEF Numbers
<1>3. CheckChain(UpFiles(chain))
  BY <1>1, <1>2 DEF CheckChain
<1>4. \A q \in Seqs : records[q] = NoRow
  OBVIOUS
<1> QED BY <1>1, <1>3, <1>4 DEF ChainInv, Recorded

LEMMA ChainFiles ==
  ASSUME NEW files \in SUBSET Migrations, CheckChain(files)
  PROVE  /\ \A m \in files : m.seq \in Seqs /\ m.seq \in 1..Cardinality(files)
         /\ \A m, n \in files : m.seq = n.seq => m = n
         /\ \A q \in 1..Cardinality(files) : \E m \in files : m.seq = q
         /\ IsFiniteSet(files) /\ Cardinality(files) \in Nat
<1>1. NoSequence \notin Numbers(files) /\ (\A m, n \in files : ~SameKey(m, n))
      /\ Numbers(files) = 1..Cardinality(files)
  BY DEF CheckChain
<1>2. \A m, n \in files : m.seq = n.seq => m = n
  BY <1>1, KeysTellFiles
<1>3. Numbers(files) = {m.seq : m \in files} /\ \A m \in files : m.seq \in Seqs
  BY <1>1, FileNumbers
<1>4. IsFiniteSet(files) /\ Cardinality(files) \in Nat
  BY <1>1, <1>2, AsManyNumbers
<1> QED BY <1>1, <1>2, <1>3, <1>4

(* A file that joins a chain and leaves one has the next number.            *)
LEMMA NextNumber ==
  ASSUME NEW files \in SUBSET Migrations, NEW m \in Migrations, m \notin files,
         CheckChain(files), CheckChain(files \cup {m})
  PROVE  m.seq = Cardinality(files) + 1 /\ \A n \in files : n.seq <= m.seq
<1>1. files \cup {m} \in SUBSET Migrations
  OBVIOUS
<1>2. IsFiniteSet(files) /\ Cardinality(files) \in Nat
  BY ChainFiles
<1>3. Cardinality(files \cup {m}) = Cardinality(files) + 1
  BY <1>2, FS_AddElement
<1>4. m.seq \in 1..(Cardinality(files) + 1)
  BY <1>1, <1>3, ChainFiles
<1>5. \A n, p \in files \cup {m} : n.seq = p.seq => n = p
  BY <1>1, ChainFiles
<1>6. m.seq \notin 1..Cardinality(files)
  <2>1. \A q \in 1..Cardinality(files) : \E n \in files : n.seq = q
    BY ChainFiles
  <2> QED BY <1>5, <2>1
<1>7. \A n \in files : n.seq \in 1..Cardinality(files)
  BY ChainFiles
<1> QED BY <1>2, <1>4, <1>6, <1>7

LEMMA MergeKeepsChain ==
  ASSUME ChainInv, NEW m \in Migrations, Merge(m) PROVE ChainInv'
<1> DEFINE files == UpFiles(chain)
<1>1. /\ waiting = {} /\ m \in Migrations /\ m \notin chain /\ m.name.up
      /\ CheckChain(UpFiles(chain \cup {m}))
      /\ chain' = chain \cup {m} /\ waiting' = {[file |-> m, body |-> draft]}
      /\ records' = records
  BY DEF Merge, RunCheck, UpFiles
<1>2. UpFiles(chain') = files \cup {m} /\ m \notin files /\ files \in SUBSET Migrations
  BY <1>1 DEF UpFiles, ChainInv
<1>3. CheckChain(files) /\ CheckChain(files \cup {m})
  BY <1>1, <1>2 DEF ChainInv
<1> HIDE DEF files
<1>4. \A n \in files : n.seq <= m.seq
  BY <1>2, <1>3, NextNumber
<1>5. m.seq <= m.seq
  <2>1. m.seq \in Int
    BY FilesAssumption DEF FilesAssumption, NoSequence
  <2> QED BY <2>1
<1>6. \A n \in files : Recorded(records[n.seq])
  BY <1>1 DEF ChainInv, files
<1>7. chain' \in SUBSET Migrations /\ CheckChain(UpFiles(chain')) /\ DOMAIN records' = Seqs
  BY <1>1, <1>2, <1>3 DEF ChainInv
<1>8. \A v, w \in waiting' : v = w
  BY <1>1
<1>9. \A w \in waiting' : w.file \in UpFiles(chain') /\ \A n \in UpFiles(chain') : n.seq <= w.file.seq
  BY <1>1, <1>2, <1>4, <1>5
<1>10. \A q \in Seqs : Recorded(records'[q]) =>
         \E n \in UpFiles(chain') : n.seq = q /\ records'[q] = RowOf(n, StatusApplied)
  BY <1>1, <1>2 DEF ChainInv, files
<1>11. \A n \in UpFiles(chain') : (\A w \in waiting' : w.file # n) => Recorded(records'[n.seq])
  BY <1>1, <1>2, <1>6
<1> QED BY <1>7, <1>8, <1>9, <1>10, <1>11 DEF ChainInv

LEMMA DeployKeepsChain ==
  ASSUME ChainInv, Deploy PROVE ChainInv'
<1>1. PICK w \in waiting : records' = [records EXCEPT ![w.file.seq] = RowOf(w.file, StatusApplied)]
  BY DEF Deploy
<1>2. waiting' = {} /\ chain' = chain
  BY DEF Deploy
<1>3. w.file \in UpFiles(chain) /\ UpFiles(chain) \in SUBSET Migrations /\ CheckChain(UpFiles(chain))
  BY UpFilesAreMigrations DEF ChainInv
<1>4. w.file.seq \in Seqs
  BY <1>3, ChainFiles
<1>5. /\ DOMAIN records = Seqs /\ DOMAIN records' = Seqs
      /\ records'[w.file.seq] = RowOf(w.file, StatusApplied)
      /\ \A q \in Seqs : q # w.file.seq => records'[q] = records[q]
  BY <1>1, <1>4 DEF ChainInv
<1>6. Recorded(RowOf(w.file, StatusApplied))
  <2>1. RowOf(w.file, StatusApplied) \in Rows
    BY <1>3, RowOfType
  <2> QED BY <2>1, NoRowAssumption DEF Recorded, NoRowAssumption
<1>7. \A q \in Seqs : Recorded(records'[q]) =>
        \E m \in UpFiles(chain) : m.seq = q /\ records'[q] = RowOf(m, StatusApplied)
  BY <1>3, <1>5 DEF ChainInv
<1>8. ASSUME NEW m \in UpFiles(chain) PROVE Recorded(records'[m.seq])
  <2>1. m.seq \in Seqs
    BY <1>3, ChainFiles
  <2>2. CASE m.seq = w.file.seq
    BY <1>5, <1>6, <2>2
  <2>3. CASE m.seq # w.file.seq
    <3>1. \A v \in waiting : v.file # m
      BY <2>3 DEF ChainInv
    <3>2. Recorded(records[m.seq])
      BY <3>1 DEF ChainInv
    <3> QED BY <1>5, <2>1, <2>3, <3>2
  <2> QED BY <2>2, <2>3
<1> QED BY <1>2, <1>5, <1>7, <1>8 DEF ChainInv

LEMMA ChainStays == Spec => []ChainInv
<1>1. ASSUME ChainInv, [Next]_checkVars PROVE ChainInv'
  <2>1. CASE Write
    BY <1>1, <2>1 DEF Write, ChainInv
  <2>2. CASE Discard
    BY <1>1, <2>2 DEF Discard, ChainInv
  <2>3. CASE \E m \in Migrations : Merge(m)
    BY <1>1, <2>3, MergeKeepsChain
  <2>4. CASE Deploy
    BY <1>1, <2>4, DeployKeepsChain
  <2>5. CASE UNCHANGED checkVars
    BY <1>1, <2>5 DEF ChainInv, checkVars
  <2> QED BY <1>1, <2>1, <2>2, <2>3, <2>4, <2>5 DEF Next
<1> QED BY <1>1, ChainInit, PTL DEF Spec

(* A mainline whose every merge passed CheckChain (strict.go:375-411) never *)
(* needs an ordering exception, and no row of it disagrees with a file.     *)
THEOREM CheckedChainsDeployAlways == Spec => []CheckedChainsDeploy
<1>1. ASSUME ChainInv PROVE CheckedChainsDeploy
  <2> DEFINE files == UpFiles(chain)
             tree == Load(chain)
  <2>1. chain \in SUBSET Migrations /\ files \in SUBSET Migrations /\ CheckChain(files) /\ DOMAIN records = Seqs
    BY <1>1, UpFilesAreMigrations DEF ChainInv
  <2>2. LoadAccepts(chain)
    BY <2>1 DEF CheckChain, LoadAccepts, Numbers
  <2>3. tree \in Seq(Migrations) /\ Files(tree) = files /\ ValidateSequences(tree)
    BY <2>1, <2>2, LoadOrders
  <2>4. /\ \A m \in files : m.seq \in Seqs /\ m.seq \in Nat
        /\ \A m, n \in files : m.seq = n.seq => m = n
    BY <2>1, ChainFiles, SeqsAreNat
  <2> HIDE DEF files, tree
  <2>5. \A q \in Seqs : Recorded(records[q]) =>
          \E m \in files : m.seq = q /\ records[q] = RowOf(m, StatusApplied)
    BY <1>1 DEF ChainInv, files
  <2>6. \A m : RowOf(m, StatusApplied).status = StatusApplied /\ RowOf(m, StatusApplied).filename = m.name
    BY DEF RowOf
  <2>7. \A q \in Seqs : ~IsDirty(records[q])
    <3>1. \A q \in Seqs : Recorded(records[q]) => records[q].status = StatusApplied
      BY <2>5, <2>6
    <3> QED BY <3>1 DEF IsDirty
  <2>8. ASSUME NEW m \in files PROVE ~IsMismatch(m, records[m.seq])
    <3>1. ASSUME Recorded(records[m.seq]) PROVE records[m.seq].filename = m.name
      <4>1. PICK n \in files : n.seq = m.seq /\ records[m.seq] = RowOf(n, StatusApplied)
        BY <2>4, <2>5, <3>1
      <4> QED BY <2>4, <2>6, <4>1
    <3> QED BY <3>1 DEF IsMismatch, IsApplied
  <2>9. ASSUME NEW m \in files, IsBelowApplied(m, tree, records) PROVE FALSE
    <3>1. PICK i \in DOMAIN tree : ~Recorded(records[m.seq]) /\ m.seq < tree[i].seq
      BY <2>9 DEF IsBelowApplied
    <3>2. tree[i] \in files
      BY <2>3 DEF Files
    <3>3. PICK w \in waiting : w.file = m
      BY <1>1, <3>1 DEF ChainInv, files
    <3>4. tree[i].seq <= m.seq
      BY <1>1, <3>2, <3>3 DEF ChainInv, files
    <3> QED BY <2>4, <3>1, <3>2, <3>4
  <2>10. DirtyInTree(tree, records) = {} /\ DirtyOrphans(tree, records) = {}
    BY <2>1, <2>3, <2>4, <2>7 DEF DirtyInTree, DirtyOrphans
  <2>11. \A d \in Analyze(tree, records, TRUE, {}) : d.severity = "warning"
    <3>1. {m \in Files(tree) : IsMismatch(m, records[m.seq])} = {}
      BY <2>3, <2>8
    <3>2. {m \in Files(tree) : TRUE /\ IsBelowApplied(m, tree, records) /\ m.seq \notin {}} = {}
      BY <2>3, <2>9
    <3> QED BY <2>10, <3>1, <3>2 DEF Analyze, Finding
  <2>12. ~FirstError(Analyze(tree, records, TRUE, {}))
    BY <2>11 DEF FirstError
  <2> QED BY <2>3, <2>12 DEF CheckedChainsDeploy, tree
<1> QED BY <1>1, ChainStays, PTL

-----------------------------------------------------------------------------
(* What the lint let through *)

(* A file waits with the body it was linted with.                           *)
LintInv ==
  /\ draft \in Seq(Lines)
  /\ \A w \in waiting : w.body \in Seq(Lines) /\ RepairTotalityFindings(w.body) = {}

(* The scan reads a legible constraint as it is meant, or not at all.       *)
LEMMA LegibleReading ==
  ASSUME NEW line \in Lines, Refuses(line), Legible(line)
  PROVE  /\ Seen(line)
         /\ Reading(line) # Unread => Reading(line).table = line.table
<1>1. line.quoted = "" \/ (line.quoted = "all" /\ line.guard = "")
  BY DEF Legible
<1>2. line.plain /\ (line.kind = "add" => line.notvalid = "") /\ (line.kind = "index" => line.quoted = "")
  BY DEF Legible
<1>3. Seen(line)
  BY <1>2 DEF Seen, Refuses
<1> QED BY <1>1, <1>3 DEF Reading, Unread

(* Only a table's own name is read as its name.                             *)
LEMMA ReadAsNamed ==
  ASSUME NEW line \in Lines, NEW other \in Lines, line.kind # "waiver", Reading(other).table = line.table
  PROVE  other.table = line.table
<1>1. line.table \notin {"", "if", "only"} /\ other.guard \in {"", "if", "only"}
  BY LinesAssumption DEF LinesAssumption
<1>2. other.quoted = ""
  BY <1>1 DEF Reading
<1> QED BY <1>2 DEF Reading

(* A file the lint let through without a waiver (repairtotality.go:241-303):*)
(* no legible constraint meets a table that was there and that the file has *)
(* not repaired by then, whatever lines it is made of and however the other *)
(* ones are written.                                                       *)
THEOREM LintedFilesDeployAlways == Spec => []LintedFilesDeploy
<1>1. Init => LintInv
  BY DEF Init, LintInv
<1>2. LintInv /\ [Next]_checkVars => LintInv'
  <2> SUFFICES ASSUME LintInv, [Next]_checkVars PROVE LintInv'
    OBVIOUS
  <2>1. CASE Write
    <3>1. draft' \in Seq(Lines) /\ waiting' = waiting
      BY <2>1 DEF Write, LintInv
    <3> QED BY <3>1 DEF LintInv
  <2>2. CASE Discard
    <3>1. draft' = <<>> /\ waiting' = waiting
      BY <2>2 DEF Discard
    <3>2. draft' \in Seq(Lines)
      BY <3>1
    <3> QED BY <3>1, <3>2 DEF LintInv
  <2>3. CASE \E m \in Migrations : Merge(m)
    <3>1. PICK m \in Migrations : Merge(m)
      BY <2>3
    <3>2. /\ draft \in Seq(Lines) /\ draft' = <<>>
          /\ waiting' = {[file |-> m, body |-> draft]} /\ RepairTotalityFindings(draft) = {}
      BY <3>1 DEF Merge, RunCheck, LintInv
    <3>3. draft' \in Seq(Lines)
      BY <3>2
    <3> QED BY <3>2, <3>3 DEF LintInv
  <2>4. CASE Deploy
    BY <2>4 DEF Deploy, LintInv
  <2>5. CASE UNCHANGED checkVars
    BY <2>5 DEF LintInv, checkVars
  <2> QED BY <2>1, <2>2, <2>3, <2>4, <2>5 DEF Next
<1>3. LintInv => LintedFilesDeploy
  <2> SUFFICES ASSUME LintInv, NEW w \in waiting,
                      \A i \in DOMAIN w.body : w.body[i].kind # "waiver",
                      Made(w.body) \cap tables = {},
                      NEW i \in DOMAIN w.body,
                      Refuses(w.body[i]), Legible(w.body[i]),
                      w.body[i].table \in tables
               PROVE  \E j \in 1..(i - 1) : w.body[j].kind = "repair" /\ w.body[j].table = w.body[i].table
    BY DEF LintedFilesDeploy
  <2> DEFINE line == w.body[i]
  <2>1. w.body \in Seq(Lines) /\ RepairTotalityFindings(w.body) = {}
    BY DEF LintInv
  <2>2. (\A j \in DOMAIN w.body : w.body[j] \in Lines) /\ \A j \in 1..(i - 1) : j \in DOMAIN w.body
    BY <2>1
  <2>3. line \in Lines /\ line.kind # "waiver"
    BY <2>2
  <2>4. Seen(line) /\ (Reading(line) # Unread => Reading(line).table = line.table)
    BY <2>3, LegibleReading
  <2>5. ~Creates(w.body, Reading(line))
    <3> SUFFICES ASSUME Reading(line) # Unread,
                        NEW j \in DOMAIN w.body, w.body[j].kind = "create", Reading(w.body[j]) = Reading(line)
                 PROVE  FALSE
      BY DEF Creates
    <3>1. w.body[j].table = line.table
      BY <2>2, <2>3, <2>4, ReadAsNamed
    <3> QED BY <3>1 DEF Made
  <2>6. i \in Constraints(w.body)
    BY <2>4, <2>5 DEF Constraints
  <2>7. Waived(w.body, i) \/ Repaired(w.body, i)
    BY <2>1, <2>6 DEF RepairTotalityFindings
  <2>8. ~Waived(w.body, i)
    BY <2>2 DEF Waived
  <2>9. PICK j \in 1..(i - 1) : IsRepairOf(w.body[j], Reading(line)) /\ Reading(line) # Unread
    BY <2>7, <2>8 DEF Repaired
  <2>10. w.body[j].kind = "repair" /\ Reading(w.body[j]).table = line.table
    BY <2>4, <2>9 DEF IsRepairOf, SameTable
  <2>11. w.body[j].table = line.table
    BY <2>2, <2>3, <2>10, ReadAsNamed
  <2> QED BY <2>10, <2>11
<1> QED BY <1>1, <1>2, <1>3, PTL DEF Spec
=============================================================================

-------------------------- MODULE DidOutputsProofs --------------------------
(* Amounts and data on their way from text to text, for doubles and integers  *)
(* of any number of bits, any fee and any reference: first powers of two and  *)
(* the rounding of a quotient, then what each conversion does to an amount,   *)
(* then the data, then the invariants.                                        *)
EXTENDS DidOutputs, FiniteSetTheorems, SequenceTheorems, WellFoundedInduction, TLAPS

-----------------------------------------------------------------------------
(* Induction on numbers, with the set of those that have the property.        *)
LEMMA Smallest ==
    ASSUME NEW S \in SUBSET Nat, S # {}
    PROVE  \E m \in S : \A n \in S : m <= n
<1> DEFINE Less == {d \in Nat \X Nat : d[1] < d[2]}
<1>1. IsWellFoundedOn(Less, Nat)
  BY NatLessThanWellFounded DEF OpToRel
<1>2. PICK m \in S : \A n \in S : <<n, m>> \notin Less
  <2> HIDE DEF Less
  <2> QED
    BY <1>1, WFMin
<1>3. ASSUME NEW n \in S
      PROVE  m <= n
  <2>1. n \in Nat /\ m \in Nat /\ ~(n < m)
    BY <1>2
  <2> QED
    BY <2>1
<1> QED
  BY <1>3

LEMMA Steps ==
    ASSUME NEW n \in Nat, NEW G, 0 \in G, \A i \in 1..n : i - 1 \in G => i \in G
    PROVE  0..n \subseteq G
<1> DEFINE T == 0..n \ G
<1>1. SUFFICES ASSUME T # {} PROVE FALSE
  OBVIOUS
<1>2. PICK i \in T : \A j \in T : i <= j
  <2>1. T \in SUBSET Nat
    OBVIOUS
  <2> HIDE DEF T
  <2> QED
    BY <1>1, <2>1, Smallest
<1>3. i \in 1..n /\ i - 1 \in 0..n /\ ~(i <= i - 1)
  BY <1>2
<1>4. i - 1 \in G
  BY <1>2, <1>3
<1> QED
  BY <1>2, <1>3, <1>4

-----------------------------------------------------------------------------
(* Powers of two.                                                             *)
LEMMA Constants ==
    /\ Precision \in Nat \ {0} /\ Scale \in Nat \ {0} /\ IntBits \in Nat \ {0}
    /\ SATOSHIS_PER_BTC \in Nat \ {0} /\ Precision < IntBits
    /\ MaxBits \in Nat /\ MaxBits = Scale + IntBits + 1
BY OutputsAssumption DEF OutputsAssumption, MaxBits

Powers(f, n) == f = [k \in 0..n |-> IF k = 0 THEN 1 ELSE 2 * f[k - 1]]

LEMMA PowersExist ==
    ASSUME NEW n \in Nat
    PROVE  \E f : Powers(f, n)
<1> DEFINE G == {m \in 0..n : \E f : Powers(f, m)}
<1>1. 0 \in G
  <2>1. Powers([k \in 0..0 |-> 1], 0)
    BY DEF Powers
  <2> QED
    BY <2>1
<1>2. ASSUME NEW i \in 1..n, i - 1 \in G PROVE i \in G
  <2>1. PICK f : Powers(f, i - 1)
    BY <1>2
  <2> DEFINE h == [k \in 0..i |-> IF k = i THEN 2 * f[i - 1] ELSE f[k]]
  <2>2. \A k \in 0..i : h[k] = IF k = 0 THEN 1 ELSE 2 * h[k - 1]
    BY <2>1 DEF Powers
  <2>3. h = [k \in 0..i |-> h[k]]
    OBVIOUS
  <2>4. h = [k \in 0..i |-> IF k = 0 THEN 1 ELSE 2 * h[k - 1]]
    <3> HIDE DEF h
    <3> QED
      BY <2>2, <2>3
  <2>5. Powers(h, i)
    BY <2>4 DEF Powers
  <2> QED
    BY <2>5
<1>3. 0..n \subseteq G
  BY <1>1, <1>2, Steps
<1> QED
  BY <1>3

LEMMA TwoToDef ==
    /\ TwoTo[0] = 1
    /\ \A n \in 1..MaxBits : TwoTo[n] = 2 * TwoTo[n - 1]
<1>1. PICK f : Powers(f, MaxBits)
  BY PowersExist, Constants
<1>2. Powers(TwoTo, MaxBits)
  BY <1>1 DEF Powers, TwoTo
<1> QED
  BY <1>2, Constants DEF Powers

LEMMA TwoToPositive == \A n \in 0..MaxBits : TwoTo[n] \in Nat \ {0}
<1> DEFINE G == {n \in 0..MaxBits : TwoTo[n] \in Nat \ {0}}
<1>1. 0 \in G
  BY TwoToDef, Constants
<1>2. ASSUME NEW i \in 1..MaxBits, i - 1 \in G PROVE i \in G
  BY <1>2, TwoToDef, Constants
<1>3. 0..MaxBits \subseteq G
  <2> HIDE DEF G
  <2> QED
    BY <1>1, <1>2, Steps, Constants
<1> QED
  BY <1>3

LEMMA TwoToSum ==
    ASSUME NEW a \in Nat, NEW b \in Nat, a + b <= MaxBits
    PROVE  TwoTo[a + b] = TwoTo[a] * TwoTo[b]
<1> DEFINE G == {n \in 0..b : TwoTo[a + n] = TwoTo[a] * TwoTo[n]}
<1> a \in 0..MaxBits
  BY Constants
<1>1. 0 \in G
  BY TwoToDef, TwoToPositive
<1>2. ASSUME NEW i \in 1..b, i - 1 \in G PROVE i \in G
  <2>1. /\ a + i \in 1..MaxBits /\ i \in 1..MaxBits
        /\ (a + i) - 1 = a + (i - 1)
        /\ i - 1 \in 0..MaxBits /\ a + (i - 1) \in 0..MaxBits
    BY Constants
  <2>2. TwoTo[a + i] = 2 * TwoTo[a + (i - 1)] /\ TwoTo[i] = 2 * TwoTo[i - 1]
    BY <2>1, TwoToDef
  <2>3. TwoTo[a + (i - 1)] = TwoTo[a] * TwoTo[i - 1]
    BY <1>2
  <2>4. TwoTo[a] \in Nat /\ TwoTo[i - 1] \in Nat
    BY <2>1, TwoToPositive
  <2>5. 2 * (TwoTo[a] * TwoTo[i - 1]) = TwoTo[a] * (2 * TwoTo[i - 1])
    BY <2>4
  <2> QED
    BY <2>2, <2>3, <2>5
<1>3. 0..b \subseteq G
  <2> HIDE DEF G
  <2> QED
    BY <1>1, <1>2, Steps
<1> QED
  BY <1>3

LEMMA TwoToGrows ==
    ASSUME NEW a \in 0..MaxBits, NEW b \in 0..MaxBits, a <= b
    PROVE  TwoTo[a] <= TwoTo[b]
<1>1. b - a \in Nat /\ b - a \in 0..MaxBits /\ a + (b - a) = b /\ a \in Nat /\ b <= MaxBits
  BY Constants
<1>2. TwoTo[b] = TwoTo[a] * TwoTo[b - a]
  <2>1. TwoTo[a + (b - a)] = TwoTo[a] * TwoTo[b - a]
    BY <1>1, TwoToSum
  <2> QED
    BY <1>1, <2>1
<1>3. TwoTo[a] \in Nat \ {0} /\ TwoTo[b - a] \in Nat \ {0}
  BY <1>1, TwoToPositive
<1>4. \A x, y \in Nat \ {0} : x <= x * y
  OBVIOUS
<1> QED
  BY <1>2, <1>3, <1>4

-----------------------------------------------------------------------------
(* Rounding a quotient, and how far off the result is.                        *)
LEMMA QuotientFacts ==
    ASSUME NEW num \in Nat, NEW den \in Nat \ {0}
    PROVE  /\ num \div den \in Nat /\ num % den \in 0..(den - 1)
           /\ num = (num \div den) * den + (num % den)
OBVIOUS

LEMMA QuotientBelow ==
    ASSUME NEW num \in Nat, NEW den \in Nat \ {0}, NEW n \in Nat
    PROVE  num \div den < n <=> num < n * den
<1> DEFINE q == num \div den
           r == num % den
<1>1. q \in Nat /\ r \in Nat /\ r < den /\ num = q * den + r
  BY QuotientFacts
<1> HIDE DEF q, r
<1>2. ASSUME q < n PROVE num < n * den
  <2>1. (q + 1) * den <= n * den
    BY <1>1, <1>2
  <2>2. (q + 1) * den = q * den + den
    BY <1>1
  <2> QED
    BY <1>1, <2>1, <2>2
<1>3. ASSUME n <= q PROVE n * den <= num
  <2>1. n * den <= q * den
    BY <1>1, <1>3
  <2> QED
    BY <1>1, <2>1
<1>4. n * den \in Nat
  OBVIOUS
<1>5. q < n <=> num < n * den
  BY <1>1, <1>2, <1>3, <1>4
<1> QED
  BY <1>5 DEF q

LEMMA NearestFacts ==
    ASSUME NEW num \in Nat, NEW den \in Nat \ {0}
    PROVE  /\ Nearest(num, den) \in Nat
           /\ 2 * (Nearest(num, den) * den) <= 2 * num + den
           /\ 2 * num <= 2 * (Nearest(num, den) * den) + den
<1> DEFINE q == num \div den
           r == num % den
<1>1. q \in Nat /\ r \in Nat /\ r < den /\ num = q * den + r
  BY QuotientFacts
<1>2. \/ Nearest(num, den) = q /\ 2 * r <= den
      \/ Nearest(num, den) = q + 1 /\ 2 * r >= den
  <2> HIDE DEF q, r
  <2>1. Nearest(num, den) = IF 2 * r < den \/ (2 * r = den /\ q % 2 = 0) THEN q ELSE q + 1
    BY DEF Nearest, q, r
  <2> QED
    BY <1>1, <2>1
<1>3. (q + 1) * den = q * den + den /\ q * den \in Nat
  BY <1>1
<1> HIDE DEF q, r
<1> QED
  BY <1>1, <1>2, <1>3

(* The last bit of the double nearest to a quotient.                          *)
IsUlp(k, num, den) ==
    /\ k \in 0..(MaxBits - Precision)
    /\ NearestDouble(num, den) = TwoTo[k] * Nearest(num, den * TwoTo[k])
    /\ num < TwoTo[Precision + k] * den
    /\ \A j \in 0..(MaxBits - Precision) : num < TwoTo[Precision + j] * den => k <= j

LEMMA UlpExists ==
    ASSUME NEW num \in Nat, NEW den \in Nat \ {0}, num < TwoTo[MaxBits] * den
    PROVE  \E k : IsUlp(k, num, den)
<1> DEFINE Exponents == 0..(MaxBits - Precision)
           S == {k \in Exponents : num \div den < TwoTo[Precision + k]}
<1>1. MaxBits - Precision \in Exponents /\ Precision + (MaxBits - Precision) = MaxBits
  BY Constants
<1>2. \A k \in Exponents : Precision + k \in 0..MaxBits /\ TwoTo[Precision + k] \in Nat
  BY Constants, TwoToPositive
<1>3. \A k \in Exponents : k \in S <=> num < TwoTo[Precision + k] * den
  BY <1>2, QuotientBelow
<1>4. S \in SUBSET Nat /\ S # {}
  BY <1>1, <1>3
<1>5. Min(S) \in S /\ \A j \in S : Min(S) <= j
  <2>1. \E m \in S : \A n \in S : m <= n
    <3> HIDE DEF S
    <3> QED
      BY <1>4, Smallest
  <2> HIDE DEF S
  <2> QED
    BY <2>1 DEF Min
<1>6. NearestDouble(num, den) = TwoTo[Min(S)] * Nearest(num, den * TwoTo[Min(S)])
  BY DEF NearestDouble
<1> HIDE DEF S
<1> QED
  <2>1. Min(S) \in Exponents
    BY <1>5 DEF S
  <2> QED
    BY <1>3, <1>5, <1>6, <2>1 DEF IsUlp

LEMMA UlpError ==
    ASSUME NEW num \in Nat, NEW den \in Nat \ {0}, NEW k, IsUlp(k, num, den)
    PROVE  /\ TwoTo[k] \in Nat \ {0}
           /\ NearestDouble(num, den) \in Nat
           /\ 2 * (NearestDouble(num, den) * den) <= 2 * num + den * TwoTo[k]
           /\ 2 * num <= 2 * (NearestDouble(num, den) * den) + den * TwoTo[k]
<1> DEFINE u == TwoTo[k]
           n == Nearest(num, den * u)
<1>1. u \in Nat \ {0}
  BY Constants, TwoToPositive DEF IsUlp
<1>2. den * u \in Nat \ {0}
  BY <1>1
<1>3. /\ n \in Nat
      /\ 2 * (n * (den * u)) <= 2 * num + den * u
      /\ 2 * num <= 2 * (n * (den * u)) + den * u
  BY <1>2, NearestFacts
<1>4. NearestDouble(num, den) = u * n
  BY DEF IsUlp
<1> HIDE DEF u, n
<1>5. (u * n) * den = n * (den * u) /\ u * n \in Nat
  BY <1>1, <1>3
<1> QED
  BY <1>1, <1>3, <1>4, <1>5 DEF u

(* How many significant bits there are, and how fine the numbers are that     *)
(* doubles are counted in.                                                    *)
Significant == TwoTo[Precision]

LEMMA Sizes ==
    /\ One \in Nat \ {0} /\ 8 * SATOSHIS_PER_BTC <= One /\ Scale >= 3
    /\ One \div 2 \in Nat /\ 2 * (One \div 2) = One
    /\ Significant \in Nat \ {0} /\ Significant >= 16
    /\ Precision \in 0..MaxBits /\ Scale \in 0..MaxBits
<1>1. One \in Nat \ {0} /\ 8 * SATOSHIS_PER_BTC <= One /\ Significant \in Nat \ {0}
  BY Constants, TwoToPositive, OutputsAssumption DEF OutputsAssumption, One, Significant
<1>2. Scale >= 3
  <2>1. TwoTo[0] = 1 /\ TwoTo[1] = 2 /\ TwoTo[2] = 4
    <3>1. 1 \in 1..MaxBits /\ 2 \in 1..MaxBits /\ 1 - 1 = 0 /\ 2 - 1 = 1
      BY Constants
    <3>2. TwoTo[1] = 2 * TwoTo[0] /\ TwoTo[2] = 2 * TwoTo[1]
      BY <3>1, TwoToDef
    <3> QED
      BY <3>2, TwoToDef
  <2>2. One >= 8
    BY <1>1, Constants
  <2>3. Scale # 0 /\ Scale # 1 /\ Scale # 2
    BY <2>1, <2>2 DEF One
  <2> QED
    BY <2>3, Constants
<1>3. One = 2 * TwoTo[Scale - 1] /\ TwoTo[Scale - 1] \in Nat
  BY Constants, TwoToDef, TwoToPositive DEF One
<1>4. Significant >= 16
  <2>1. PICK v \in Values : 4 * (v + 4) <= TwoTo[Precision]
    BY OutputsAssumption DEF OutputsAssumption
  <2>2. v \in Nat
    BY OutputsAssumption DEF OutputsAssumption
  <2> QED
    BY <1>1, <2>1, <2>2 DEF Significant
<1>5. One \div 2 = TwoTo[Scale - 1]
  BY <1>3
<1> QED
  BY <1>1, <1>2, <1>3, <1>4, <1>5, Constants

(* A double is off by half of the last of its bits.                           *)
LEMMA RoundingError ==
    ASSUME NEW num \in Nat, NEW den \in Nat \ {0}, num < TwoTo[MaxBits] * den,
           NEW d, d = NearestDouble(num, den) * den
    PROVE  /\ NearestDouble(num, den) \in Nat /\ d \in Nat
           /\ \/ 2 * d <= 2 * num + den /\ 2 * num <= 2 * d + den
              \/ /\ Significant * d <= Significant * num + num
                 /\ Significant * num <= Significant * d + num
<1>1. PICK k : IsUlp(k, num, den)
  BY UlpExists
<1> DEFINE u == TwoTo[k]
           K == Significant
<1>2. /\ u \in Nat \ {0} /\ NearestDouble(num, den) \in Nat
      /\ 2 * d <= 2 * num + den * u /\ 2 * num <= 2 * d + den * u
  BY <1>1, UlpError
<1>3. d \in Nat
  BY <1>2
<1>4. CASE k = 0
  BY <1>2, <1>3, <1>4, TwoToDef
<1>5. CASE k # 0
  <2>1. k - 1 \in 0..(MaxBits - Precision) /\ k \in Nat /\ ~(k <= k - 1)
    BY <1>1, <1>5, Constants DEF IsUlp
  <2>2. TwoTo[Precision + (k - 1)] * den <= num
    <3>1. ~(num < TwoTo[Precision + (k - 1)] * den)
      BY <1>1, <2>1 DEF IsUlp
    <3>2. TwoTo[Precision + (k - 1)] \in Nat
      BY <2>1, Constants, TwoToPositive
    <3> QED
      BY <3>1, <3>2
  <2>3. K * u = 2 * TwoTo[Precision + (k - 1)] /\ TwoTo[Precision + (k - 1)] \in Nat
    <3>1. /\ Precision + k \in 1..MaxBits /\ (Precision + k) - 1 = Precision + (k - 1)
          /\ Precision + (k - 1) \in 0..MaxBits
      BY <1>1, <2>1, Constants DEF IsUlp
    <3>2. TwoTo[Precision + k] = K * u
      BY <2>1, <3>1, TwoToSum, Constants DEF Significant
    <3> QED
      BY <3>1, <3>2, TwoToDef, TwoToPositive
  <2> HIDE DEF u, K
  <2>4. K \in Nat \ {0}
    BY Sizes DEF K
  <2>5. K * (den * u) <= 2 * num
    <3>1. K * (den * u) = (K * u) * den
      BY <1>2, <2>4
    <3>2. (2 * TwoTo[Precision + (k - 1)]) * den = 2 * (TwoTo[Precision + (k - 1)] * den)
      BY <2>3
    <3> QED
      BY <2>2, <2>3, <3>1, <3>2
  <2>6. K * (2 * d) <= K * (2 * num + den * u) /\ K * (2 * num) <= K * (2 * d + den * u)
    BY <1>2, <1>3, <2>4
  <2>7. /\ K * (2 * num + den * u) = 2 * (K * num) + K * (den * u)
        /\ K * (2 * d + den * u) = 2 * (K * d) + K * (den * u)
        /\ K * (2 * d) = 2 * (K * d) /\ K * (2 * num) = 2 * (K * num)
        /\ K * d \in Nat /\ K * num \in Nat /\ K * (den * u) \in Nat
    BY <1>2, <1>3, <2>4
  <2>8. K * d <= K * num + num /\ K * num <= K * d + num
    BY <2>5, <2>6, <2>7
  <2> QED
    BY <1>2, <1>3, <2>8 DEF K
<1> QED
  BY <1>4, <1>5

(* One that is less than a share of Significant is off by half that share.    *)
LEMMA FineRoundingError ==
    ASSUME NEW num \in Nat, NEW den \in Nat \ {0}, NEW share \in {4, 8},
           share * num < (Significant * One) * den,
           NEW d, d = NearestDouble(num, den) * den
    PROVE  /\ NearestDouble(num, den) \in Nat /\ d \in Nat
           /\ share * (2 * d) <= share * (2 * num) + One * den
           /\ share * (2 * num) <= share * (2 * d) + One * den
<1>1. PICK b \in {2, 3} : share = TwoTo[b]
  <2>1. 1 \in 1..MaxBits /\ 2 \in 1..MaxBits /\ 3 \in 1..MaxBits
    BY Sizes, Constants
  <2>2. TwoTo[1] = 2 * TwoTo[0] /\ TwoTo[2] = 2 * TwoTo[1] /\ TwoTo[3] = 2 * TwoTo[2]
    <3>1. 1 - 1 = 0 /\ 2 - 1 = 1 /\ 3 - 1 = 2
      OBVIOUS
    <3> QED
      BY <2>1, <3>1, TwoToDef
  <2> QED
    BY <2>2, TwoToDef
<1> DEFINE w == TwoTo[Scale - b]
           K == Significant
<1>2. /\ Scale - b \in Nat /\ Scale - b \in 0..(MaxBits - Precision)
      /\ Scale - b \in 0..MaxBits
      /\ Precision + (Scale - b) \in 0..MaxBits /\ (Scale - b) + b = Scale
  BY Constants, Sizes
<1>3. w \in Nat \ {0} /\ One = share * w
  <2>1. TwoTo[(Scale - b) + b] = w * TwoTo[b]
    BY <1>2, TwoToSum, Constants
  <2>2. w \in Nat \ {0}
    BY <1>2, TwoToPositive
  <2>3. w * TwoTo[b] = TwoTo[b] * w
    BY <1>1, <2>2
  <2> QED
    BY <1>1, <1>2, <2>1, <2>2, <2>3 DEF One
<1>4. TwoTo[Precision + (Scale - b)] = K * w
  BY <1>2, TwoToSum, Constants DEF Significant
<1>5. num < (K * w) * den
  <2> HIDE DEF K, w
  <2>1. K \in Nat \ {0}
    BY Sizes DEF K
  <2>2. (K * (share * w)) * den = share * ((K * w) * den) /\ (K * w) * den \in Nat
    BY <1>3, <2>1
  <2>3. share * num < share * ((K * w) * den)
    BY <1>3, <2>2 DEF K
  <2> QED
    BY <2>2, <2>3
<1>6. num < TwoTo[MaxBits] * den
  <2>1. K * w <= TwoTo[MaxBits]
    BY <1>2, <1>4, TwoToGrows, Constants
  <2>2. TwoTo[MaxBits] \in Nat /\ K * w \in Nat
    BY <1>2, <1>4, Constants, TwoToPositive
  <2> HIDE DEF K, w
  <2>3. (K * w) * den <= TwoTo[MaxBits] * den
    BY <2>1, <2>2
  <2> QED
    BY <1>5, <2>2, <2>3
<1>7. PICK k : IsUlp(k, num, den)
  BY <1>6, UlpExists
<1> DEFINE u == TwoTo[k]
<1>8. /\ u \in Nat \ {0} /\ NearestDouble(num, den) \in Nat
      /\ 2 * d <= 2 * num + den * u /\ 2 * num <= 2 * d + den * u
  BY <1>7, UlpError
<1>9. u <= w
  <2>1. k <= Scale - b /\ k \in 0..MaxBits
    BY <1>2, <1>4, <1>5, <1>7, Constants DEF IsUlp
  <2> QED
    BY <1>2, <2>1, TwoToGrows
<1>10. d \in Nat
  BY <1>8
<1> HIDE DEF u, w
<1>11. den * u <= den * w /\ den * w \in Nat /\ den * u \in Nat
  BY <1>3, <1>8, <1>9
<1>12. One * den = share * (den * w)
  BY <1>3
<1> QED
  BY <1>8, <1>10, <1>11, <1>12

(* The same for a product or a sum of doubles.                                *)
LEMMA SumError ==
    ASSUME NEW x \in Nat, x < TwoTo[MaxBits]
    PROVE  /\ NearestDouble(x, 1) \in Nat
           /\ Significant * NearestDouble(x, 1) <= Significant * x + x
           /\ Significant * x <= Significant * NearestDouble(x, 1) + x
<1> DEFINE d == NearestDouble(x, 1) * 1
<1>1. TwoTo[MaxBits] \in Nat /\ Significant \in Nat
  BY Constants, Sizes, TwoToPositive
<1>2. x < TwoTo[MaxBits] * 1 /\ 1 \in Nat \ {0} /\ d = NearestDouble(x, 1) * 1
  BY <1>1
<1> HIDE DEF d
<1>3. /\ NearestDouble(x, 1) \in Nat /\ d \in Nat
      /\ \/ 2 * d <= 2 * x + 1 /\ 2 * x <= 2 * d + 1
         \/ Significant * d <= Significant * x + x /\ Significant * x <= Significant * d + x
  BY <1>2, RoundingError
<1>4. d = NearestDouble(x, 1)
  BY <1>3 DEF d
<1>5. CASE 2 * d <= 2 * x + 1 /\ 2 * x <= 2 * d + 1
  <2>1. d = x
    BY <1>3, <1>5
  <2>2. Significant * x \in Nat
    BY <1>1
  <2> QED
    BY <1>3, <1>4, <2>1, <2>2
<1> QED
  BY <1>3, <1>4, <1>5

LEMMA FineSum ==
    ASSUME NEW x \in Nat, NEW share \in {4, 8}, share * x < Significant * One
    PROVE  /\ NearestDouble(x, 1) \in Nat
           /\ share * (2 * NearestDouble(x, 1)) <= share * (2 * x) + One
           /\ share * (2 * x) <= share * (2 * NearestDouble(x, 1)) + One
<1> DEFINE d == NearestDouble(x, 1) * 1
<1>1. One \in Nat /\ Significant * One \in Nat
  BY Sizes
<1>2. share * x < (Significant * One) * 1 /\ 1 \in Nat \ {0} /\ d = NearestDouble(x, 1) * 1
  BY <1>1
<1> HIDE DEF d
<1>3. /\ NearestDouble(x, 1) \in Nat /\ d \in Nat
      /\ share * (2 * d) <= share * (2 * x) + One * 1
      /\ share * (2 * x) <= share * (2 * d) + One * 1
  BY <1>2, FineRoundingError
<1>4. d = NearestDouble(x, 1)
  BY <1>3 DEF d
<1> QED
  BY <1>1, <1>3, <1>4

(* A whole number of bitcoins, or of satoshis counted like them, is a double. *)
LEMMA WholeIsDouble ==
    ASSUME NEW n \in Nat, n < Significant
    PROVE  NearestDouble(n * One, 1) = n * One
<1> DEFINE K == Significant
           O == One
<1>1. K \in Nat \ {0} /\ O \in Nat \ {0} /\ n * O \in Nat /\ n * O < K * O
  <2>1. K \in Nat \ {0} /\ O \in Nat \ {0}
    BY Sizes
  <2> HIDE DEF K, O
  <2> QED
    <3>1. n < K
      BY DEF K
    <3>2. (n + 1) * O <= K * O /\ (n + 1) * O = n * O + O /\ n * O \in Nat /\ K * O \in Nat
      BY <2>1, <3>1
    <3> QED
      BY <2>1, <3>2
<1>2. /\ Scale \in 0..(MaxBits - Precision) /\ Precision + Scale \in 0..MaxBits
      /\ TwoTo[Precision + Scale] = K * O /\ TwoTo[Precision + Scale] <= TwoTo[MaxBits]
      /\ TwoTo[MaxBits] \in Nat
  <2>1. Scale \in 0..(MaxBits - Precision) /\ Precision + Scale \in 0..MaxBits
    BY Constants
  <2>2. TwoTo[Precision + Scale] = K * O
    BY <2>1, TwoToSum, Constants DEF Significant, One
  <2> QED
    BY <2>1, <2>2, TwoToGrows, TwoToPositive, Constants
<1>3. PICK k : IsUlp(k, n * O, 1)
  <2>1. n * O < TwoTo[MaxBits] * 1
    <3> HIDE DEF O, K
    <3> QED
      BY <1>1, <1>2
  <2> QED
    BY <1>1, <2>1, UlpExists
<1>4. k \in 0..Scale
  <2>1. n * O < TwoTo[Precision + Scale] * 1
    <3> HIDE DEF O, K
    <3> QED
      BY <1>1, <1>2
  <2> QED
    BY <1>2, <1>3, <2>1 DEF IsUlp
<1> DEFINE u == TwoTo[k]
           w == TwoTo[Scale - k]
<1>5. u \in Nat \ {0} /\ w \in Nat \ {0} /\ O = u * w
  <2>1. /\ k \in Nat /\ Scale - k \in Nat /\ k + (Scale - k) = Scale /\ Scale <= MaxBits
        /\ k \in 0..MaxBits /\ Scale - k \in 0..MaxBits
    BY <1>4, Constants
  <2>2. TwoTo[k + (Scale - k)] = u * w
    BY <2>1, TwoToSum
  <2> QED
    BY <2>1, <2>2, TwoToPositive DEF One
<1> DEFINE N == Nearest(n * O, 1 * u)
<1>6. NearestDouble(n * O, 1) = u * N
  BY <1>3 DEF IsUlp
<1>7. N \in Nat /\ 2 * (N * u) <= 2 * (n * O) + u /\ 2 * (n * O) <= 2 * (N * u) + u
  <2>1. 1 * u = u
    BY <1>5
  <2> QED
    BY <1>1, <1>5, <2>1, NearestFacts
<1> HIDE DEF u, w, N, O, K
<1>8. n * O = (n * w) * u /\ n * w \in Nat
  BY <1>5
<1>9. N = n * w
  <2>1. ASSUME NEW a \in Nat, NEW b \in Nat, a < b
        PROVE  2 * (a * u) + 2 * u <= 2 * (b * u) /\ a * u \in Nat /\ b * u \in Nat
    <3>1. (a + 1) * u <= b * u /\ (a + 1) * u = a * u + u /\ a * u \in Nat /\ b * u \in Nat
      BY <1>5, <2>1
    <3> QED
      BY <1>5, <3>1
  <2>2. ~(N < n * w)
    BY <1>5, <1>7, <1>8, <2>1
  <2>3. ~(n * w < N)
    BY <1>5, <1>7, <1>8, <2>1
  <2> QED
    BY <1>7, <1>8, <2>2, <2>3
<1>10. u * N = n * O
  BY <1>5, <1>7, <1>8, <1>9
<1> QED
  BY <1>6, <1>10 DEF O

(* The integers of int64_t, and what fits into the doubles in play.           *)
HalfRange == TwoTo[IntBits - 1]

LEMMA Ranges ==
    /\ HalfRange \in Nat \ {0} /\ IntMin = -HalfRange /\ IntMax = HalfRange - 1
    /\ TwoTo[IntBits] = 2 * HalfRange /\ TwoTo[IntBits + 2] = 8 * HalfRange
    /\ TwoTo[MaxBits] = One * (4 * HalfRange)
    /\ Significant <= HalfRange
<1>1. /\ IntBits - 1 \in 0..MaxBits /\ Precision \in 0..MaxBits /\ Precision <= IntBits - 1
      /\ IntBits \in 1..MaxBits /\ IntBits + 1 \in 1..MaxBits /\ IntBits + 2 \in 1..MaxBits
      /\ (IntBits + 1) - 1 = IntBits /\ (IntBits + 2) - 1 = IntBits + 1
      /\ MaxBits = Scale + (IntBits + 1) /\ IntBits + 1 \in Nat /\ Scale \in Nat
  BY Constants
<1>2. /\ TwoTo[IntBits] = 2 * HalfRange /\ TwoTo[IntBits + 1] = 2 * TwoTo[IntBits]
      /\ TwoTo[IntBits + 2] = 2 * TwoTo[IntBits + 1]
  BY <1>1, TwoToDef DEF HalfRange
<1>3. HalfRange \in Nat \ {0} /\ Significant <= HalfRange
  BY <1>1, TwoToPositive, TwoToGrows DEF HalfRange, Significant
<1>4. TwoTo[MaxBits] = One * TwoTo[IntBits + 1]
  <2>1. TwoTo[Scale + (IntBits + 1)] = TwoTo[Scale] * TwoTo[IntBits + 1]
    <3>1. Scale + (IntBits + 1) <= MaxBits
      BY <1>1, Constants
    <3> QED
      BY <1>1, <3>1, TwoToSum
  <2> QED
    BY <1>1, <2>1 DEF One
<1>5. TwoTo[IntBits + 1] = 4 * HalfRange
  BY <1>2, <1>3
<1>6. TwoTo[IntBits + 2] = 8 * HalfRange
  BY <1>2, <1>3
<1> QED
  BY <1>2, <1>3, <1>4, <1>5, <1>6 DEF IntMin, IntMax, HalfRange

-----------------------------------------------------------------------------
(* From a text to satoshis: the double next to f parts of a satoshi, m parts  *)
(* each; its product with the satoshis of a bitcoin; that and a half; and the *)
(* whole of it.                                                               *)
TextDouble(f, m) == NearestDouble(f * One, m * SATOSHIS_PER_BTC)
Product(f, m) == NearestDouble(TextDouble(f, m) * SATOSHIS_PER_BTC, 1)
AndAHalf(f, m) == NearestDouble(Product(f, m) + One \div 2, 1)
Satoshis(f, m) == AndAHalf(f, m) \div One

LEMMA LessThan ==
    ASSUME NEW c \in Nat \ {0}, NEW a \in Int, NEW b \in Int, c * a < c * b
    PROVE  a < b
<1>1. SUFFICES ASSUME b <= a PROVE FALSE
  OBVIOUS
<1>2. c * (a - b) >= 0 /\ c * (a - b) = c * a - c * b
  BY <1>1
<1> QED
  BY <1>2

LEMMA TextError ==
    ASSUME NEW f \in Nat, NEW m \in {1, 4}, f <= m * (2 * HalfRange),
           NEW x, x = TextDouble(f, m) * SATOSHIS_PER_BTC
    PROVE  /\ TextDouble(f, m) \in Nat /\ x \in Nat
           /\ \/ 16 * (m * x) <= 16 * (f * One) + m * One /\ 16 * (f * One) <= 16 * (m * x) + m * One
              \/ /\ Significant * (m * x) <= Significant * (f * One) + f * One
                 /\ Significant * (f * One) <= Significant * (m * x) + f * One
<1> DEFINE den == m * SATOSHIS_PER_BTC
           num == f * One
           O == One
           S == SATOSHIS_PER_BTC
           R == HalfRange
<1>1. den \in Nat \ {0} /\ num \in Nat /\ 8 * den <= m * O /\ m <= den
  BY Constants, Sizes
<1>2. num < TwoTo[MaxBits] * den
  <2>1. TwoTo[MaxBits] = O * (4 * R) /\ R \in Nat \ {0} /\ O \in Nat \ {0}
    BY Ranges, Sizes
  <2> HIDE DEF den, O, R
  <2>2. f * O <= (m * (2 * R)) * O
    BY <2>1 DEF R
  <2>3. (m * (2 * R)) * O = 2 * (m * (R * O)) /\ R * O \in Nat \ {0}
    BY <2>1
  <2>4. (O * (4 * R)) * den = 4 * ((R * O) * den)
    BY <1>1, <2>1
  <2>5. (R * O) * m <= (R * O) * den /\ (R * O) * m = m * (R * O)
    BY <1>1, <2>3
  <2>6. (R * O) * den \in Nat /\ m * (R * O) \in Nat \ {0}
    BY <1>1, <2>3
  <2> QED
    BY <2>1, <2>2, <2>3, <2>4, <2>5, <2>6 DEF O
<1> DEFINE d == TextDouble(f, m) * den
<1>3. /\ TextDouble(f, m) \in Nat
      /\ \/ 2 * d <= 2 * num + den /\ 2 * num <= 2 * d + den
         \/ Significant * d <= Significant * num + num /\ Significant * num <= Significant * d + num
  <2> HIDE DEF num, den
  <2>1. NearestDouble(num, den) = TextDouble(f, m)
    BY DEF TextDouble, num, den
  <2> QED
    BY <1>1, <1>2, <2>1, RoundingError
<1>4. d = m * x /\ x \in Nat
  BY <1>3, Constants
<1> HIDE DEF d, den
<1> QED
  BY <1>1, <1>3, <1>4, Sizes

(* In a share of what a double counts, all the rounding of a text is off by   *)
(* less than twice that share of a satoshi.                                   *)
LEMMA NearSatoshi ==
    ASSUME NEW f \in Nat, NEW m \in {1, 4}, NEW share \in {4, 8},
           share * (f + 2 * m) <= m * Significant,
           NEW y, y = m * (2 * AndAHalf(f, m))
    PROVE  /\ AndAHalf(f, m) \in Nat
           /\ share * y < share * (2 * (f * One) + m * One) + 4 * (m * One)
           /\ share * (2 * (f * One) + m * One) < share * y + 4 * (m * One)
<1> DEFINE K == Significant
           O == One
           S == SATOSHIS_PER_BTC
           H == One \div 2
           x == TextDouble(f, m) * S
           p == Product(f, m)
           z == AndAHalf(f, m)
           FO == f * One
           KO == Significant * One
<1>1. K \in Nat \ {0} /\ O \in Nat \ {0} /\ H \in Nat /\ O = 2 * H /\ FO \in Nat /\ KO \in Nat
  BY Sizes
<1>2. share * FO + 2 * (share * (m * O)) <= m * KO
  <2> HIDE DEF K, O
  <2>1. (share * (f + 2 * m)) * O <= (m * K) * O
    BY <1>1 DEF K
  <2>2. (share * (f + 2 * m)) * O = share * (f * O) + 2 * (share * (m * O))
    BY <1>1
  <2>3. (m * K) * O = m * (K * O)
    BY <1>1
  <2> QED
    BY <2>1, <2>2, <2>3 DEF K, O
<1>3. /\ TextDouble(f, m) \in Nat /\ x \in Nat
      /\ \/ 16 * (m * x) <= 16 * FO + m * O /\ 16 * FO <= 16 * (m * x) + m * O
         \/ K * (m * x) <= K * FO + FO /\ K * FO <= K * (m * x) + FO
  <2>1. f <= m * (2 * HalfRange)
    <3>1. 4 * f <= m * HalfRange /\ HalfRange \in Nat
      BY Ranges, Sizes
    <3> QED
      BY <3>1
  <2> QED
    BY <2>1, TextError
<1> HIDE DEF K, O, S, H, x, p, z, FO, KO
<1>4. share * (m * x) < share * FO + m * O /\ share * FO < share * (m * x) + m * O
  <2>1. CASE 16 * (m * x) <= 16 * FO + m * O /\ 16 * FO <= 16 * (m * x) + m * O
    BY <1>1, <1>3, <2>1
  <2>2. CASE K * (m * x) <= K * FO + FO /\ K * FO <= K * (m * x) + FO
    <3>1. share * FO < m * KO /\ m * KO = K * (m * O)
      <4>1. m * KO = K * (m * O)
        BY <1>1 DEF KO, K, O
      <4> QED
        BY <1>1, <1>2, <4>1
    <3>2. /\ K * (share * (m * x)) = share * (K * (m * x))
          /\ K * (share * FO + m * O) = share * (K * FO) + K * (m * O)
          /\ K * (share * (m * x) + m * O) = share * (K * (m * x)) + K * (m * O)
          /\ K * (share * FO) = share * (K * FO)
          /\ K * (m * x) \in Nat /\ K * FO \in Nat /\ K * (m * O) \in Nat
      BY <1>1, <1>3
    <3>3. /\ K * (share * (m * x)) < K * (share * FO + m * O)
          /\ K * (share * FO) < K * (share * (m * x) + m * O)
      BY <1>1, <2>2, <3>1, <3>2
    <3>4. /\ share * (m * x) \in Int /\ share * FO + m * O \in Int
          /\ share * FO \in Int /\ share * (m * x) + m * O \in Int
      BY <1>1, <1>3
    <3> QED
      BY <1>1, <3>3, <3>4, LessThan
  <2> QED
    BY <1>3, <2>1, <2>2
<1>5. /\ p \in Nat /\ share * (2 * p) <= share * (2 * x) + O
      /\ share * (2 * x) <= share * (2 * p) + O
  <2>1. share * x < KO
    BY <1>1, <1>2, <1>3, <1>4
  <2>2. p = NearestDouble(x, 1)
    BY DEF p, Product, x, S
  <2> QED
    BY <1>3, <2>1, <2>2, FineSum DEF KO, O
<1>6. /\ z \in Nat /\ share * (2 * z) <= share * (2 * (p + H)) + O
      /\ share * (2 * (p + H)) <= share * (2 * z) + O
  <2>1. share * (p + H) < KO /\ p + H \in Nat
    BY <1>1, <1>2, <1>3, <1>4, <1>5
  <2>2. z = NearestDouble(p + H, 1)
    BY DEF z, AndAHalf, p, H
  <2> QED
    BY <2>1, <2>2, FineSum DEF KO, O
<1>7. y = m * (2 * z)
  BY DEF z
<1>8. /\ share * y < share * (2 * FO + m * O) + 4 * (m * O)
      /\ share * (2 * FO + m * O) < share * y + 4 * (m * O)
  BY <1>1, <1>3, <1>4, <1>5, <1>6, <1>7
<1> QED
  BY <1>6, <1>8 DEF z, FO, O

(* A fee of f quarters of a satoshi becomes a number of satoshis less than    *)
(* one away, the nearest or the one before or after it.                       *)
LEMMA FeeNear ==
    ASSUME NEW f \in Nat, f + 8 <= Significant
    PROVE  /\ Satoshis(f, 4) \in Nat
           /\ 4 * Satoshis(f, 4) <= f + 3 /\ f <= 4 * Satoshis(f, 4) + 3
           /\ 2 * f + 16 <= Significant =>
                 4 * Satoshis(f, 4) <= f + 2 /\ f <= 4 * Satoshis(f, 4) + 2
<1> DEFINE z == AndAHalf(f, 4)
           y == 4 * (2 * z)
           n == Satoshis(f, 4)
           O == One
<1>1. O \in Nat \ {0} /\ Significant \in Nat
  BY Sizes
<1>2. /\ z \in Nat
      /\ 4 * y < 4 * (2 * (f * O) + 4 * O) + 4 * (4 * O)
      /\ 4 * (2 * (f * O) + 4 * O) < 4 * y + 4 * (4 * O)
  <2>1. 4 * (f + 2 * 4) <= 4 * Significant /\ 4 \in {1, 4} /\ 4 \in {4, 8}
    BY <1>1
  <2> HIDE DEF z
  <2>2. y = 4 * (2 * AndAHalf(f, 4))
    BY DEF z
  <2> HIDE DEF y
  <2> QED
    BY <2>1, <2>2, NearSatoshi DEF z
<1>3. 2 * f + 16 <= Significant =>
         /\ 8 * y < 8 * (2 * (f * O) + 4 * O) + 4 * (4 * O)
         /\ 8 * (2 * (f * O) + 4 * O) < 8 * y + 4 * (4 * O)
  <2>1. 2 * f + 16 <= Significant => 8 * (f + 2 * 4) <= 4 * Significant
    BY <1>1
  <2>2. 4 \in {1, 4} /\ 8 \in {4, 8}
    OBVIOUS
  <2> HIDE DEF z
  <2>3. y = 4 * (2 * AndAHalf(f, 4))
    BY DEF z
  <2> HIDE DEF y
  <2> QED
    BY <2>1, <2>2, <2>3, NearSatoshi DEF z
<1>4. n \in Nat /\ n * O <= z /\ z < n * O + O
  <2>1. n = z \div O
    BY DEF Satoshis
  <2> HIDE DEF z, O, n
  <2> QED
    BY <1>1, <1>2, <2>1
<1> HIDE DEF z, n, O
<1>5. /\ n * O \in Nat /\ f * O \in Nat
      /\ (4 * n) * O = 4 * (n * O) /\ (4 * n + 4) * O = 4 * (n * O) + 4 * O
      /\ (f + 4) * O = f * O + 4 * O /\ (f + 1) * O = f * O + O /\ (f + 3) * O = f * O + 3 * O
  BY <1>1, <1>4
<1>6. O * (4 * n) < O * (f + 4) /\ O * f < O * (4 * n + 4)
  BY <1>1, <1>2, <1>4, <1>5
<1>7. 4 * n < f + 4 /\ f < 4 * n + 4
  BY <1>1, <1>4, <1>6, LessThan
<1>8. ASSUME 2 * f + 16 <= Significant
      PROVE  4 * n < f + 3 /\ f + 1 < 4 * n + 4
  <2>1. O * (4 * n) < O * (f + 3) /\ O * (f + 1) < O * (4 * n + 4)
    BY <1>1, <1>2, <1>3, <1>4, <1>5, <1>8
  <2> QED
    BY <1>1, <1>4, <2>1, LessThan
<1> QED
  BY <1>4, <1>7, <1>8 DEF n

(* An amount is read to the satoshi.                                          *)
LEMMA AmountExact ==
    ASSUME NEW v \in Nat, 4 * (v + 4) <= Significant
    PROVE  Satoshis(v, 1) = v
<1> DEFINE z == AndAHalf(v, 1)
           y == 1 * (2 * z)
           n == Satoshis(v, 1)
           O == One
<1>1. O \in Nat \ {0} /\ Significant \in Nat
  BY Sizes
<1>2. /\ z \in Nat
      /\ 4 * y < 4 * (2 * (v * O) + 1 * O) + 4 * (1 * O)
      /\ 4 * (2 * (v * O) + 1 * O) < 4 * y + 4 * (1 * O)
  <2>1. 4 * (v + 2 * 1) <= 1 * Significant /\ 1 \in {1, 4} /\ 4 \in {4, 8}
    BY <1>1
  <2> HIDE DEF z
  <2>2. y = 1 * (2 * AndAHalf(v, 1))
    BY DEF z
  <2> HIDE DEF y
  <2> QED
    BY <2>1, <2>2, NearSatoshi DEF z
<1>3. n \in Nat /\ n * O <= z /\ z < n * O + O
  <2>1. n = z \div O
    BY DEF Satoshis
  <2> HIDE DEF z, O, n
  <2> QED
    BY <1>1, <1>2, <2>1
<1> HIDE DEF z, n, O
<1>4. /\ n * O \in Nat /\ v * O \in Nat
      /\ (n + 1) * O = n * O + O /\ (v + 1) * O = v * O + O
  BY <1>1, <1>3
<1>5. O * n < O * (v + 1) /\ O * v < O * (n + 1)
  BY <1>1, <1>2, <1>3, <1>4
<1>6. n < v + 1 /\ v < n + 1
  BY <1>1, <1>3, <1>5, LessThan
<1> QED
  BY <1>3, <1>6 DEF n

(* One rounding takes no more than one part of Significant away, and adds no  *)
(* more than a 16th.                                                          *)
LEMMA Shrinks ==
    ASSUME NEW x \in Nat, NEW d \in Nat, NEW a \in 1..16, NEW O \in Nat,
           Significant * x <= Significant * d + x,
           (Significant - a) * O <= x
    PROVE  (Significant - (a + 1)) * O <= d
<1> DEFINE K == Significant
<1>1. K \in Nat \ {0} /\ K - a \in Int /\ K - 1 \in Nat
  BY Sizes
<1> HIDE DEF K
<1>2. (K - 1) * ((K - a) * O) <= (K - 1) * x
  <2>1. (K - a) * O \in Int /\ (K - a) * O <= x
    BY <1>1 DEF K
  <2>2. (K - 1) * (x - (K - a) * O) >= 0
    BY <1>1, <2>1
  <2>3. (K - 1) * (x - (K - a) * O) = (K - 1) * x - (K - 1) * ((K - a) * O)
    BY <1>1, <2>1
  <2>4. (K - 1) * x \in Int /\ (K - 1) * ((K - a) * O) \in Int
    BY <1>1, <2>1
  <2> QED
    BY <2>2, <2>3, <2>4
<1>3. (K - 1) * x <= K * d
  <2>1. (K - 1) * x = K * x - x
    BY <1>1
  <2>2. K * x \in Nat /\ K * d \in Nat /\ K * x <= K * d + x
    BY <1>1 DEF K
  <2> QED
    BY <2>1, <2>2
<1>4. (K - 1) * ((K - a) * O) = K * ((K - (a + 1)) * O) + a * O
  BY <1>1
<1>5. K * ((K - (a + 1)) * O) <= K * d
  <2>1. a * O \in Nat /\ K * ((K - (a + 1)) * O) \in Int /\ K * d \in Int
    BY <1>1
  <2>2. (K - 1) * ((K - a) * O) \in Int /\ (K - 1) * x \in Int
    BY <1>1
  <2> QED
    BY <1>2, <1>3, <1>4, <2>1, <2>2
<1>6. ASSUME d < (K - (a + 1)) * O PROVE FALSE
  <2>1. d + 1 <= (K - (a + 1)) * O /\ (K - (a + 1)) * O \in Int
    BY <1>1, <1>6
  <2>2. K * (d + 1) <= K * ((K - (a + 1)) * O)
    BY <1>1, <2>1
  <2>3. K * (d + 1) = K * d + K /\ K * d \in Int
    BY <1>1
  <2>4. K * ((K - (a + 1)) * O) \in Int
    BY <1>1
  <2> QED
    BY <1>1, <1>5, <2>2, <2>3, <2>4
<1>7. (K - (a + 1)) * O \in Int
  BY <1>1
<1> QED
  BY <1>6, <1>7 DEF K

LEMMA Grows ==
    ASSUME NEW x \in Nat, NEW d \in Nat, Significant * d <= Significant * x + x
    PROVE  16 * d <= 17 * x
<1> DEFINE K == Significant
<1>1. K \in Nat /\ K >= 16
  BY Sizes
<1> HIDE DEF K
<1>2. CASE d <= x
  BY <1>2
<1>3. CASE d > x
  <2>1. 16 * (d - x) <= K * (d - x)
    BY <1>1, <1>3
  <2>2. K * (d - x) = K * d - K * x /\ K * d \in Nat /\ K * x \in Nat
    BY <1>1
  <2>3. K * d <= K * x + x
    BY DEF K
  <2> QED
    BY <1>3, <2>1, <2>2, <2>3
<1> QED
  BY <1>2, <1>3

(* How far off every rounding of a text is, however many satoshis it says.    *)
LEMMA SatoshiErrors ==
    ASSUME NEW f \in Nat, NEW m \in {1, 4}, f <= m * (2 * HalfRange),
           NEW x, x = TextDouble(f, m) * SATOSHIS_PER_BTC,
           NEW half, half = One \div 2
    PROVE  /\ TextDouble(f, m) \in Nat /\ x \in Nat /\ half \in Nat \ {0}
           /\ f > 0 => TextDouble(f, m) > 0
           /\ \/ 16 * (f * One) <= 16 * (m * x) + m * One
              \/ Significant * (f * One) <= Significant * (m * x) + f * One
           /\ Product(f, m) \in Nat
           /\ Significant * x <= Significant * Product(f, m) + x
           /\ AndAHalf(f, m) \in Nat
           /\ Significant * (Product(f, m) + half) <=
                 Significant * AndAHalf(f, m) + (Product(f, m) + half)
           /\ Satoshis(f, m) \in Nat
           /\ AndAHalf(f, m) < Satoshis(f, m) * One + One
<1> DEFINE K == Significant
           O == One
           RO == HalfRange * One
           FO == f * One
           p == Product(f, m)
           z == AndAHalf(f, m)
           n == Satoshis(f, m)
<1>1. /\ K \in Nat \ {0} /\ K >= 16 /\ O \in Nat \ {0} /\ half \in Nat \ {0} /\ O = 2 * half
      /\ FO \in Nat /\ RO \in Nat /\ O <= RO /\ HalfRange \in Nat \ {0}
  <2>1. HalfRange \in Nat \ {0} /\ O \in Nat \ {0}
    BY Ranges, Sizes
  <2>2. O <= HalfRange * O
    BY <2>1
  <2> QED
    BY <2>1, <2>2, Sizes
<1>2. FO <= 2 * (m * RO)
  <2>1. f * One <= (m * (2 * HalfRange)) * One
    BY <1>1
  <2>2. (m * (2 * HalfRange)) * One = 2 * (m * (HalfRange * One))
    BY <1>1
  <2> QED
    BY <2>1, <2>2
<1>3. TwoTo[MaxBits] = 4 * RO
  BY <1>1, Ranges
<1>4. /\ TextDouble(f, m) \in Nat /\ x \in Nat
      /\ \/ 16 * (m * x) <= 16 * FO + m * O /\ 16 * FO <= 16 * (m * x) + m * O
         \/ K * (m * x) <= K * FO + FO /\ K * FO <= K * (m * x) + FO
  BY TextError
<1>5. f > 0 => O <= FO
  BY <1>1
<1> HIDE DEF K, O, RO, FO, p, z, n
<1>6. 16 * (m * x) <= 17 * FO + m * O
  <2>1. CASE 16 * (m * x) <= 16 * FO + m * O
    BY <1>1, <1>4, <2>1
  <2>2. CASE K * (m * x) <= K * FO + FO
    <3>1. m * x \in Nat
      BY <1>4
    <3>2. 16 * (m * x) <= 17 * FO
      BY <1>1, <2>2, <3>1, Grows DEF K
    <3> QED
      BY <1>1, <3>1, <3>2
  <2> QED
    BY <1>4, <2>1, <2>2
<1>7. f > 0 => TextDouble(f, m) > 0
  <2>1. SUFFICES ASSUME f > 0, TextDouble(f, m) = 0 PROVE FALSE
    BY <1>4
  <2>2. x = 0 /\ m * x = 0
    BY <2>1, Constants
  <2>3. K * FO >= 16 * FO
    BY <1>1
  <2> QED
    BY <1>1, <1>4, <1>5, <2>1, <2>2, <2>3
<1>8. p \in Nat /\ K * p <= K * x + x /\ K * x <= K * p + x
  <2>1. x < TwoTo[MaxBits]
    BY <1>1, <1>2, <1>3, <1>4, <1>6
  <2>2. p = NearestDouble(x, 1)
    BY DEF p, Product
  <2> QED
    BY <1>4, <2>1, <2>2, SumError DEF K
<1>9. 16 * p <= 17 * x
  BY <1>4, <1>8, Grows DEF K
<1>10. z \in Nat /\ K * (p + half) <= K * z + (p + half)
  <2>1. p + half < TwoTo[MaxBits] /\ p + half \in Nat
    BY <1>1, <1>2, <1>3, <1>4, <1>6, <1>8, <1>9
  <2>2. z = NearestDouble(p + half, 1)
    BY DEF z, p, AndAHalf
  <2> QED
    BY <2>1, <2>2, SumError DEF K
<1>11. n \in Nat /\ z < n * O + O
  <2>1. n = z \div O
    BY DEF n, z, O, Satoshis
  <2>2. n \in Nat /\ z % O \in 0..(O - 1) /\ z = n * O + (z % O)
    BY <1>1, <1>10, <2>1, QuotientFacts
  <2>3. n \in Nat /\ O \in Nat
    BY <1>1, <2>2
  <2>4. n * O \in Nat
    BY <2>3
  <2> QED
    BY <1>1, <2>2, <2>4
<1> QED
  BY <1>1, <1>4, <1>7, <1>8, <1>10, <1>11 DEF K, O, FO, p, z, n

(* A fee of more than a quarter of what a double counts stays more than any   *)
(* output holds.                                                              *)
LEMMA FeeMuch ==
    ASSUME NEW f \in Nat, f <= 8 * HalfRange, f + 8 > Significant
    PROVE  Significant < 4 * Satoshis(f, 4) + 12
<1> DEFINE K == Significant
           O == One
           H == One \div 2
           FO == f * One
           x == TextDouble(f, 4) * SATOSHIS_PER_BTC
           p == Product(f, 4)
           z == AndAHalf(f, 4)
           n == Satoshis(f, 4)
<1>1. K \in Nat \ {0} /\ O \in Nat \ {0} /\ O = 2 * H /\ FO \in Nat
  BY Sizes
<1>2. (K - 7) * O <= FO
  <2>1. K - 7 <= f /\ K - 7 \in Nat
    BY Sizes
  <2> HIDE DEF K, O
  <2>2. (K - 7) * O <= f * O
    BY <1>1, <2>1
  <2> QED
    BY <2>2 DEF O
<1>3. /\ x \in Nat /\ H \in Nat
      /\ \/ 16 * FO <= 16 * (4 * x) + 4 * O
         \/ K * FO <= K * (4 * x) + FO
      /\ p \in Nat /\ K * x <= K * p + x
      /\ z \in Nat /\ K * (p + H) <= K * z + (p + H)
      /\ n \in Nat /\ z < n * O + O
  <2>1. f <= 4 * (2 * HalfRange) /\ 4 \in {1, 4}
    BY Ranges
  <2> QED
    BY <2>1, SatoshiErrors
<1> HIDE DEF K, O, H, FO, x, p, z, n
<1>4. (K - 8) * O <= 4 * x
  <2>1. CASE 16 * FO <= 16 * (4 * x) + 4 * O
    <3>1. (K - 8) * O = (K - 7) * O - O /\ (K - 7) * O \in Int
      BY <1>1
    <3> QED
      BY <1>1, <1>2, <1>3, <2>1, <3>1
  <2>2. CASE K * FO <= K * (4 * x) + FO
    <3>1. 4 * x \in Nat /\ 7 \in 1..16 /\ 7 + 1 = 8
      BY <1>3
    <3> QED
      BY <1>1, <1>2, <2>2, <3>1, Shrinks DEF K
  <2> QED
    BY <1>3, <2>1, <2>2
<1>5. (K - 9) * O <= 4 * p
  <2>1. K * (4 * x) <= K * (4 * p) + 4 * x
    <3>1. K * (4 * x) = 4 * (K * x) /\ K * (4 * p) = 4 * (K * p) /\ K * x \in Nat /\ K * p \in Nat
      BY <1>1, <1>3
    <3> QED
      BY <1>3, <3>1
  <2>2. 4 * x \in Nat /\ 4 * p \in Nat /\ 8 \in 1..16 /\ 8 + 1 = 9
    BY <1>3
  <2> QED
    BY <1>1, <1>4, <2>1, <2>2, Shrinks DEF K
<1>6. (K - 8) * O <= 4 * z
  <2>1. (K - 7) * O <= 4 * (p + H)
    <3>1. (K - 7) * O = (K - 9) * O + 2 * O /\ (K - 9) * O \in Int
      BY <1>1
    <3> QED
      BY <1>1, <1>3, <1>5, <3>1
  <2>2. K * (4 * (p + H)) <= K * (4 * z) + 4 * (p + H)
    <3>1. /\ K * (4 * (p + H)) = 4 * (K * (p + H)) /\ K * (4 * z) = 4 * (K * z)
          /\ K * (p + H) \in Nat /\ K * z \in Nat
      BY <1>1, <1>3
    <3> QED
      BY <1>1, <1>3, <3>1
  <2>3. 4 * (p + H) \in Nat /\ 4 * z \in Nat /\ 7 \in 1..16 /\ 7 + 1 = 8
    BY <1>1, <1>3
  <2> QED
    BY <1>1, <2>1, <2>2, <2>3, Shrinks DEF K
<1>7. O * (K - 8) < O * (4 * n + 4)
  <2>1. O * (K - 8) = (K - 8) * O /\ O * (4 * n + 4) = 4 * (n * O) + 4 * O /\ n * O \in Nat
    BY <1>1, <1>3
  <2>2. (K - 8) * O \in Int
    BY <1>1
  <2> QED
    BY <1>1, <1>3, <1>6, <2>1, <2>2
<1>8. K - 8 < 4 * n + 4
  <2>1. K - 8 \in Int /\ 4 * n + 4 \in Int
    BY <1>1, <1>3
  <2> QED
    BY <1>1, <1>7, <2>1, LessThan
<1> QED
  BY <1>1, <1>3, <1>8 DEF K, n

-----------------------------------------------------------------------------
(* From satoshis to a text: the double of the number, its quotient by the     *)
(* satoshis of a bitcoin, and that in decimals.                               *)
WholeDouble(c) == NearestDouble(c * One, 1)
CoinDouble(c) == NearestDouble(WholeDouble(c), SATOSHIS_PER_BTC)
Printed(c) == Nearest(CoinDouble(c) * SATOSHIS_PER_BTC, One)

(* What the quotient and the decimals do to the double of a number.           *)
LEMMA CoinError ==
    ASSUME NEW c \in Nat, WholeDouble(c) \in Nat, WholeDouble(c) < TwoTo[MaxBits],
           NEW d, d = CoinDouble(c) * SATOSHIS_PER_BTC
    PROVE  /\ CoinDouble(c) \in Nat /\ d \in Nat /\ (d > 0 => CoinDouble(c) > 0)
           /\ \/ 16 * d <= 16 * WholeDouble(c) + One /\ 16 * WholeDouble(c) <= 16 * d + One
              \/ /\ Significant * d <= Significant * WholeDouble(c) + WholeDouble(c)
                 /\ Significant * WholeDouble(c) <= Significant * d + WholeDouble(c)
           /\ Printed(c) \in Nat
           /\ 2 * (Printed(c) * One) <= 2 * d + One /\ 2 * d <= 2 * (Printed(c) * One) + One
<1> DEFINE w == WholeDouble(c)
           S == SATOSHIS_PER_BTC
<1>1. S \in Nat \ {0} /\ One \in Nat \ {0} /\ 8 * S <= One /\ TwoTo[MaxBits] \in Nat
  BY Constants, Sizes, TwoToPositive
<1>2. w < TwoTo[MaxBits] * S
  <2>1. TwoTo[MaxBits] <= TwoTo[MaxBits] * S /\ TwoTo[MaxBits] * S \in Nat
    BY <1>1
  <2> QED
    BY <1>1, <2>1
<1>3. CoinDouble(c) = NearestDouble(w, S) /\ w \in Nat
  BY DEF CoinDouble
<1> HIDE DEF w
<1>4. /\ CoinDouble(c) \in Nat /\ d \in Nat
      /\ \/ 2 * d <= 2 * w + S /\ 2 * w <= 2 * d + S
         \/ Significant * d <= Significant * w + w /\ Significant * w <= Significant * d + w
  BY <1>1, <1>2, <1>3, RoundingError
<1>5. d > 0 => CoinDouble(c) > 0
  BY <1>1, <1>4
<1>6. Printed(c) = Nearest(d, One)
  BY DEF Printed
<1>7. /\ Printed(c) \in Nat
      /\ 2 * (Printed(c) * One) <= 2 * d + One /\ 2 * d <= 2 * (Printed(c) * One) + One
  BY <1>1, <1>4, <1>6, NearestFacts
<1>8. 2 * d <= 2 * w + S /\ 2 * w <= 2 * d + S => 16 * d <= 16 * w + One /\ 16 * w <= 16 * d + One
  BY <1>1, <1>3, <1>4
<1> QED
  BY <1>4, <1>5, <1>7, <1>8 DEF w

(* A number in a quarter of what a double counts is printed as it is.         *)
LEMMA PrintedExact ==
    ASSUME NEW c \in Nat, 4 * (c + 1) <= Significant
    PROVE  /\ Printed(c) = c
           /\ WholeDouble(c) \in Nat /\ CoinDouble(c) \in Nat
           /\ c > 0 => WholeDouble(c) > 0 /\ CoinDouble(c) > 0
<1> DEFINE K == Significant
           O == One
           W == c * One
           d == CoinDouble(c) * SATOSHIS_PER_BTC
           n == Printed(c)
<1>1. K \in Nat \ {0} /\ O \in Nat \ {0} /\ W \in Nat /\ c < K /\ 4 * W + 4 * O <= K * O
  <2>1. K \in Nat \ {0} /\ O \in Nat \ {0} /\ W \in Nat /\ c < K
    BY Sizes
  <2> HIDE DEF K
  <2>2. (4 * (c + 1)) * O <= K * O
    BY <2>1 DEF K
  <2>3. (4 * (c + 1)) * O = 4 * (c * O) + 4 * O
    BY <2>1
  <2> QED
    BY <2>1, <2>2, <2>3
<1>2. WholeDouble(c) = W
  BY <1>1, WholeIsDouble DEF WholeDouble
<1>3. W < TwoTo[MaxBits]
  <2>1. TwoTo[MaxBits] = One * (4 * HalfRange) /\ K <= HalfRange /\ HalfRange \in Nat
    BY Ranges
  <2> HIDE DEF K, O, W
  <2>2. O * K <= O * (4 * HalfRange) /\ O * K = K * O
    BY <1>1, <2>1 DEF O
  <2> QED
    BY <1>1, <2>1, <2>2 DEF O
<1>4. /\ CoinDouble(c) \in Nat /\ d \in Nat /\ (d > 0 => CoinDouble(c) > 0)
      /\ \/ 16 * d <= 16 * W + O /\ 16 * W <= 16 * d + O
         \/ K * d <= K * W + W /\ K * W <= K * d + W
      /\ n \in Nat /\ 2 * (n * O) <= 2 * d + O /\ 2 * d <= 2 * (n * O) + O
  BY <1>1, <1>2, <1>3, CoinError
<1> HIDE DEF K, O, W, d, n
<1>5. 4 * d < 4 * W + O /\ 4 * W < 4 * d + O
  <2>1. CASE 16 * d <= 16 * W + O /\ 16 * W <= 16 * d + O
    BY <1>1, <1>4, <2>1
  <2>2. CASE K * d <= K * W + W /\ K * W <= K * d + W
    <3>1. /\ K * (4 * d) = 4 * (K * d) /\ K * (4 * W) = 4 * (K * W)
          /\ K * (4 * W + O) = 4 * (K * W) + K * O /\ K * (4 * d + O) = 4 * (K * d) + K * O
          /\ K * d \in Nat /\ K * W \in Nat /\ K * O \in Nat
      BY <1>1, <1>4
    <3>2. K * (4 * d) < K * (4 * W + O) /\ K * (4 * W) < K * (4 * d + O)
      BY <1>1, <2>2, <3>1
    <3>3. 4 * d \in Int /\ 4 * W \in Int /\ 4 * d + O \in Int /\ 4 * W + O \in Int
      BY <1>1, <1>4
    <3> QED
      BY <1>1, <3>2, <3>3, LessThan
  <2> QED
    BY <1>4, <2>1, <2>2
<1>6. n = c
  <2>1. /\ O * n = n * O /\ O * c = W /\ O * (n + 1) = n * O + O /\ O * (c + 1) = W + O
        /\ n * O \in Nat
    BY <1>1, <1>4 DEF W, O
  <2>2. O * n < O * (c + 1) /\ O * c < O * (n + 1)
    BY <1>1, <1>4, <1>5, <2>1
  <2>3. n < c + 1 /\ c < n + 1
    BY <1>1, <1>4, <2>2, LessThan
  <2> QED
    BY <1>4, <2>3
<1>7. c > 0 => W > 0 /\ d > 0
  <2>1. c > 0 => O <= W
    BY <1>1 DEF W, O
  <2> QED
    BY <1>1, <1>4, <1>5, <2>1
<1> QED
  BY <1>1, <1>2, <1>4, <1>6, <1>7 DEF n

(* A greater one stays greater than any output holds.                         *)
LEMMA PrintedMuch ==
    ASSUME NEW c \in Nat, c <= HalfRange, 4 * (c + 1) > Significant
    PROVE  /\ Printed(c) \in Nat /\ Significant <= 4 * Printed(c) + 7
           /\ WholeDouble(c) \in Nat \ {0} /\ CoinDouble(c) \in Nat \ {0}
<1> DEFINE K == Significant
           O == One
           W == c * One
           w == WholeDouble(c)
           d == CoinDouble(c) * SATOSHIS_PER_BTC
           n == Printed(c)
           RO == HalfRange * One
<1>1. /\ K \in Nat \ {0} /\ K >= 16 /\ O \in Nat \ {0} /\ W \in Nat /\ RO \in Nat \ {0}
      /\ TwoTo[MaxBits] = 4 * RO /\ W <= RO
  <2>1. HalfRange \in Nat \ {0} /\ O \in Nat \ {0} /\ TwoTo[MaxBits] = O * (4 * HalfRange)
    BY Ranges, Sizes
  <2>2. W <= RO
    BY <2>1
  <2> QED
    BY <2>1, <2>2, Sizes
<1>2. (K - 3) * O <= 4 * W
  <2>1. K - 3 <= 4 * c /\ K - 3 \in Nat
    BY <1>1
  <2> HIDE DEF K, O
  <2>2. (K - 3) * O <= (4 * c) * O /\ (4 * c) * O = 4 * (c * O)
    BY <1>1, <2>1
  <2> QED
    BY <2>2 DEF O
<1>3. w \in Nat /\ K * w <= K * W + W /\ K * W <= K * w + W
  <2>1. W < TwoTo[MaxBits]
    BY <1>1
  <2> QED
    BY <1>1, <2>1, SumError DEF WholeDouble
<1> HIDE DEF K, O, W, w, d, n, RO
<1>4. 16 * w <= 17 * W
  BY <1>1, <1>3, Grows DEF K
<1>5. (K - 4) * O <= 4 * w
  <2>1. K * (4 * W) <= K * (4 * w) + 4 * W
    <3>1. K * (4 * W) = 4 * (K * W) /\ K * (4 * w) = 4 * (K * w) /\ K * W \in Nat /\ K * w \in Nat
      BY <1>1, <1>3
    <3> QED
      BY <1>1, <1>3, <3>1
  <2>2. 4 * W \in Nat /\ 4 * w \in Nat /\ 3 \in 1..16 /\ 3 + 1 = 4
    BY <1>1, <1>3
  <2> QED
    BY <1>1, <1>2, <2>1, <2>2, Shrinks DEF K
<1>6. /\ CoinDouble(c) \in Nat /\ d \in Nat /\ (d > 0 => CoinDouble(c) > 0)
      /\ \/ 16 * d <= 16 * w + O /\ 16 * w <= 16 * d + O
         \/ K * d <= K * w + w /\ K * w <= K * d + w
      /\ n \in Nat /\ 2 * (n * O) <= 2 * d + O /\ 2 * d <= 2 * (n * O) + O
  <2>1. w < TwoTo[MaxBits]
    BY <1>1, <1>3, <1>4
  <2> QED
    BY <1>3, <2>1, CoinError DEF w, d, n, K, O
<1>7. (K - 5) * O <= 4 * d
  <2>1. CASE 16 * d <= 16 * w + O /\ 16 * w <= 16 * d + O
    <3>1. (K - 5) * O = (K - 4) * O - O /\ (K - 4) * O \in Int
      BY <1>1
    <3> QED
      BY <1>1, <1>3, <1>5, <1>6, <2>1, <3>1
  <2>2. CASE K * d <= K * w + w /\ K * w <= K * d + w
    <3>1. K * (4 * w) <= K * (4 * d) + 4 * w
      <4>1. K * (4 * w) = 4 * (K * w) /\ K * (4 * d) = 4 * (K * d) /\ K * w \in Nat /\ K * d \in Nat
        BY <1>1, <1>3, <1>6
      <4> QED
        BY <1>1, <1>3, <1>6, <2>2, <4>1
    <3>2. 4 * w \in Nat /\ 4 * d \in Nat /\ 4 \in 1..16 /\ 4 + 1 = 5
      BY <1>3, <1>6
    <3> QED
      BY <1>1, <1>5, <3>1, <3>2, Shrinks DEF K
  <2> QED
    BY <1>6, <2>1, <2>2
<1>8. K <= 4 * n + 7
  <2>1. /\ O * (K - 8) = (K - 5) * O - 3 * O /\ O * (4 * n) = 4 * (n * O)
        /\ n * O \in Nat /\ (K - 5) * O \in Int
    BY <1>1, <1>6
  <2>2. O * (K - 8) < O * (4 * n)
    BY <1>1, <1>6, <1>7, <2>1
  <2>3. K - 8 < 4 * n
    BY <1>1, <1>6, <2>2, LessThan
  <2> QED
    BY <1>1, <1>6, <2>3
<1>9. w > 0 /\ d > 0
  <2>1. (K - 5) * O >= O /\ (K - 4) * O >= O
    BY <1>1
  <2> QED
    BY <1>1, <1>3, <1>5, <1>6, <1>7, <2>1
<1> QED
  BY <1>3, <1>6, <1>8, <1>9 DEF n, w, K

-----------------------------------------------------------------------------
(* The conversions of the program, of either sign.                            *)
LEMMA Signs ==
    ASSUME NEW num \in Int, NEW den
    PROVE  Double(num, den) = IF num < 0 THEN -NearestDouble(-num, den) ELSE NearestDouble(num, den)
BY DEF Double, Signed

LEMMA TruncatedFacts ==
    ASSUME NEW z \in Nat
    PROVE  Truncated(z) = z \div One /\ Truncated(-z) = -(z \div One)
<1>1. One \in Nat \ {0} /\ 0 \div One = 0
  BY Sizes
<1>2. CASE z = 0
  <2>1. \A k \in Int : k <= 0 /\ 0 <= k => -k = k
    OBVIOUS
  <2>2. z \in Int /\ z \div One \in Int /\ z <= 0 /\ z \div One <= 0 /\ 0 <= z \div One
    BY <1>1, <1>2
  <2>3. -z = z /\ ~(z < 0) /\ -(z \div One) = z \div One
    BY <2>1, <2>2
  <2> QED
    BY <2>3 DEF Truncated
<1>3. CASE z > 0
  <2>1. -z < 0 /\ ~(z < 0) /\ -(-z) = z
    BY <1>3
  <2> QED
    BY <2>1 DEF Truncated
<1> QED
  BY <1>2, <1>3

(* The fee, or the amount, of g parts of a satoshi in satoshis.               *)
LEMMA Btc2Satoshi ==
    ASSUME NEW g \in Int, NEW m \in {1, 4},
           NEW f \in Nat, f = (IF g < 0 THEN -g ELSE g), f <= m * (2 * HalfRange),
           NEW s \in Int, s = (IF g < 0 THEN -Satoshis(f, m) ELSE Satoshis(f, m))
    PROVE  btc2satoshi(Double(g * One, m * SATOSHIS_PER_BTC)) =
              IF s \in IntMin..IntMax THEN {s}
              ELSE {IntMin, IF s < 0 THEN IntMin ELSE IntMax}
<1> DEFINE S == SATOSHIS_PER_BTC
           T == TextDouble(f, m)
           H == One \div 2
           p == Product(f, m)
           z == AndAHalf(f, m)
           n == Satoshis(f, m)
           v == Double(g * One, m * S)
           half == IF v < 0 THEN -H ELSE H
           sum == Double(v * S, 1) + half
<1>1. /\ T \in Nat /\ T * S \in Nat /\ H \in Nat \ {0} /\ (f > 0 => T > 0)
      /\ p \in Nat /\ z \in Nat /\ n \in Nat
  BY SatoshiErrors
<1>2. S \in Nat \ {0} /\ One \in Nat \ {0}
  BY Constants, Sizes
<1>3. /\ T = NearestDouble(f * One, m * S) /\ p = NearestDouble(T * S, 1)
      /\ z = NearestDouble(p + H, 1) /\ n = z \div One
  BY DEF TextDouble, Product, AndAHalf, Satoshis
<1>4. btc2satoshi(v) = Int64(Double(sum, 1))
  BY DEF btc2satoshi
<1>5. Truncated(Double(sum, 1)) = s
  <2> HIDE DEF S, T, H, p, z, n, v
  <2>1. CASE g < 0
    <3>1. v = -T
      <4>1. g * One \in Int /\ g * One < 0 /\ -(g * One) = f * One
        BY <1>2, <2>1
      <4> QED
        BY <1>3, <4>1, Signs DEF v
    <3>2. v < 0 /\ v * S \in Int /\ v * S < 0 /\ -(v * S) = T * S
      BY <1>1, <1>2, <2>1, <3>1
    <3>3. Double(v * S, 1) = -p
      BY <1>3, <3>2, Signs
    <3>4. sum = -(p + H) /\ sum \in Int /\ sum < 0 /\ -sum = p + H
      BY <1>1, <3>2, <3>3
    <3>5. Double(sum, 1) = -z
      <4> HIDE DEF sum
      <4> QED
        BY <1>3, <3>4, Signs
    <3>6. Truncated(-z) = -n
      BY <1>1, <1>3, TruncatedFacts
    <3> QED
      BY <2>1, <3>5, <3>6 DEF n
  <2>2. CASE ~(g < 0)
    <3>1. v = T
      <4>1. g * One \in Int /\ ~(g * One < 0) /\ g = f
        BY <1>2, <2>2
      <4> QED
        BY <1>3, <4>1, Signs DEF v
    <3>2. ~(v < 0) /\ v * S \in Int /\ ~(v * S < 0) /\ v * S = T * S
      BY <1>1, <1>2, <3>1
    <3>3. Double(v * S, 1) = p
      BY <1>3, <3>2, Signs
    <3>4. sum = p + H /\ sum \in Int /\ ~(sum < 0)
      BY <1>1, <3>2, <3>3
    <3>5. Double(sum, 1) = z
      <4> HIDE DEF sum
      <4> QED
        BY <1>3, <3>4, Signs
    <3>6. Truncated(z) = n
      BY <1>1, <1>3, TruncatedFacts
    <3> QED
      BY <2>2, <3>5, <3>6 DEF n
  <2> QED
    BY <2>1, <2>2
<1>6. Int64(Double(sum, 1)) =
         IF s \in IntMin..IntMax THEN {s} ELSE {IntMin, IF s < 0 THEN IntMin ELSE IntMax}
  <2> HIDE DEF sum
  <2> QED
    BY <1>5 DEF Int64
<1> QED
  BY <1>4, <1>6

(* The text of a number of satoshis.                                          *)
TextOf(c) == btc_to_string(satoshi2btc(c))

LEMMA TextOfNumber ==
    ASSUME NEW c \in Int, NEW a \in Nat, a = (IF c < 0 THEN -c ELSE c),
           WholeDouble(a) \in Nat, CoinDouble(a) \in Nat,
           a > 0 => WholeDouble(a) > 0 /\ CoinDouble(a) > 0
    PROVE  TextOf(c) = IF c < 0 THEN -Printed(a) ELSE Printed(a)
<1> DEFINE S == SATOSHIS_PER_BTC
           W == WholeDouble(a)
           C == CoinDouble(a)
<1>1. S \in Nat \ {0} /\ One \in Nat \ {0}
  BY Constants, Sizes
<1>2. W = NearestDouble(a * One, 1) /\ C = NearestDouble(W, S) /\ Printed(a) = Nearest(C * S, One)
  BY DEF WholeDouble, CoinDouble, Printed
<1>3. /\ satoshi2btc(c) = Double(Double(c * One, 1), S)
      /\ \A d : btc_to_string(d) = IF d * S < 0 THEN -Nearest(-(d * S), One) ELSE Nearest(d * S, One)
  BY DEF satoshi2btc, btc_to_string, Signed
<1> HIDE DEF S, W, C
<1>4. W \in Nat /\ C \in Nat /\ (a > 0 => W > 0 /\ C > 0)
  BY DEF W, C
<1>5. CASE c < 0
  <2>1. c * One \in Int /\ c * One < 0 /\ -(c * One) = a * One /\ a > 0
    BY <1>1, <1>5
  <2>2. Double(c * One, 1) = -W
    BY <1>2, <2>1, Signs
  <2>3. -W \in Int /\ -W < 0 /\ -(-W) = W
    BY <1>4, <2>1
  <2>4. satoshi2btc(c) = -C
    BY <1>2, <1>3, <2>2, <2>3, Signs
  <2>5. (-C) * S < 0 /\ -((-C) * S) = C * S
    BY <1>1, <1>4, <2>1
  <2> QED
    BY <1>2, <1>3, <1>5, <2>4, <2>5 DEF TextOf
<1>6. CASE ~(c < 0)
  <2>1. c * One \in Int /\ ~(c * One < 0) /\ c = a
    BY <1>1, <1>6
  <2>2. Double(c * One, 1) = W
    BY <1>2, <2>1, Signs
  <2>3. W \in Int /\ ~(W < 0)
    BY <1>4
  <2>4. satoshi2btc(c) = C
    BY <1>2, <1>3, <2>2, <2>3, Signs
  <2>5. ~(C * S < 0)
    BY <1>1, <1>4
  <2> QED
    BY <1>2, <1>3, <1>6, <2>4, <2>5 DEF TextOf
<1> QED
  BY <1>5, <1>6

-----------------------------------------------------------------------------
(* What becomes of an output's value and a fee.                               *)
LEMMA ValueFacts ==
    ASSUME NEW v \in Values
    PROVE  v \in Nat /\ 4 * (v + 4) <= Significant
BY OutputsAssumption DEF OutputsAssumption, Significant

LEMMA FeeFacts ==
    ASSUME NEW g \in Fees \cup {0}
    PROVE  g \in (-(8 * HalfRange))..(8 * HalfRange)
BY OutputsAssumption, Ranges DEF OutputsAssumption

(* The value is read to the satoshi.                                          *)
LEMMA ValueIsRead ==
    ASSUME NEW v \in Values
    PROVE  btc2satoshi(Double(v * One, SATOSHIS_PER_BTC)) = {v}
<1>1. v \in Nat /\ 4 * (v + 4) <= Significant
  BY ValueFacts
<1>2. v <= 1 * (2 * HalfRange) /\ v \in IntMin..IntMax
  <2>1. /\ HalfRange \in Nat /\ Significant \in Nat /\ Significant <= HalfRange
        /\ IntMin = -HalfRange /\ IntMax = HalfRange - 1
    BY Ranges, Sizes
  <2>2. v < HalfRange /\ v \in -HalfRange..(HalfRange - 1)
    BY <1>1, <2>1
  <2> QED
    BY <1>1, <2>1, <2>2
<1>3. Satoshis(v, 1) = v
  BY <1>1, AmountExact
<1>4. v \in Int /\ v = (IF v < 0 THEN -v ELSE v)
      /\ v = (IF v < 0 THEN -Satoshis(v, 1) ELSE Satoshis(v, 1))
  BY <1>1, <1>3
<1>5. 1 * SATOSHIS_PER_BTC = SATOSHIS_PER_BTC
  BY Constants
<1>6. btc2satoshi(Double(v * One, 1 * SATOSHIS_PER_BTC)) =
         IF v \in IntMin..IntMax THEN {v} ELSE {IntMin, IF v < 0 THEN IntMin ELSE IntMax}
  <2>1. 1 \in {1, 4}
    OBVIOUS
  <2> QED
    BY <1>1, <1>2, <1>4, <2>1, Btc2Satoshi
<1> QED
  BY <1>2, <1>5, <1>6

LEMMA WrappedFacts ==
    ASSUME NEW x \in Int, -HalfRange <= x, x < 2 * HalfRange
    PROVE  Wrapped(x) = IF x < HalfRange THEN x ELSE x - 2 * HalfRange
<1> DEFINE R == HalfRange
           y == x + R
           q == y \div (2 * R)
           r == y % (2 * R)
<1>1. R \in Nat \ {0} /\ TwoTo[IntBits] = 2 * R /\ IntMin = -R
  BY Ranges
<1> HIDE DEF R
<1>2. y \in Nat /\ 2 * R \in Nat \ {0} /\ y < 3 * R
  BY <1>1 DEF R
<1>3. q \in Nat /\ r \in 0..(2 * R - 1) /\ y = q * (2 * R) + r
  BY <1>2, QuotientFacts
<1>4. Wrapped(x) = r - R
  <2>1. x - IntMin = y
    BY <1>1
  <2>2. Wrapped(x) = (y % (2 * R)) + IntMin
    BY <1>1, <2>1 DEF Wrapped
  <2> HIDE DEF y
  <2> QED
    BY <1>1, <1>3, <2>2
<1> HIDE DEF q, r
<1>5. q = 0 \/ q = 1
  <2>1. SUFFICES ASSUME q >= 2 PROVE FALSE
    BY <1>3
  <2>2. q * (2 * R) >= 2 * (2 * R) /\ q * (2 * R) \in Nat
    BY <1>1, <1>3, <2>1
  <2> QED
    BY <1>1, <1>2, <1>3, <2>2
<1>6. CASE q = 0
  BY <1>1, <1>3, <1>4, <1>6 DEF R
<1>7. CASE q = 1
  BY <1>1, <1>2, <1>3, <1>4, <1>7 DEF R
<1> QED
  BY <1>5, <1>6, <1>7

(* What is printed is an amount the output can give out just when the number  *)
(* of satoshis is, and is that number then.                                   *)
LEMMA Texts ==
    ASSUME NEW v \in Values, NEW c \in IntMin..IntMax
    PROVE  /\ TextOf(c) \in Int
           /\ TextOf(c) \in 0..v <=> c \in 0..v
           /\ c \in 0..v => TextOf(c) = c
<1> DEFINE a == IF c < 0 THEN -c ELSE c
           K == Significant
           t == Printed(a)
<1>1. c \in Int /\ a \in Nat /\ a <= HalfRange
  <2>1. c \in (-HalfRange)..(HalfRange - 1) /\ HalfRange \in Nat
    BY Ranges
  <2> QED
    BY <2>1
<1>2. v \in Nat /\ 4 * (v + 4) <= K /\ K \in Nat
  BY ValueFacts, Sizes
<1> HIDE DEF K, t
<1>3. CASE 4 * (a + 1) <= K
  <2> HIDE DEF a
  <2>1. /\ t = a /\ WholeDouble(a) \in Nat /\ CoinDouble(a) \in Nat
        /\ a > 0 => WholeDouble(a) > 0 /\ CoinDouble(a) > 0
    BY <1>1, <1>3, PrintedExact DEF K, t
  <2>2. TextOf(c) = IF c < 0 THEN -t ELSE t
    BY <1>1, <2>1, TextOfNumber DEF a, t
  <2>3. TextOf(c) = c
    BY <1>1, <2>1, <2>2 DEF a
  <2> QED
    BY <1>1, <2>3
<1>4. CASE 4 * (a + 1) > K
  <2> HIDE DEF a
  <2>1. /\ t \in Nat /\ K <= 4 * t + 7
        /\ WholeDouble(a) \in Nat \ {0} /\ CoinDouble(a) \in Nat \ {0}
    BY <1>1, <1>4, PrintedMuch DEF K, t
  <2>2. TextOf(c) = IF c < 0 THEN -t ELSE t
    <3>1. /\ WholeDouble(a) \in Nat /\ CoinDouble(a) \in Nat
          /\ WholeDouble(a) > 0 /\ CoinDouble(a) > 0
      BY <2>1
    <3> QED
      BY <1>1, <3>1, TextOfNumber DEF a, t
  <2>3. v < t /\ v < a
    BY <1>1, <1>2, <1>4, <2>1
  <2> QED
    BY <1>1, <1>2, <2>1, <2>2, <2>3 DEF a
<1>5. 4 * (a + 1) <= K \/ 4 * (a + 1) > K
  BY <1>1, <1>2
<1> QED
  BY <1>3, <1>4, <1>5

(* What a fee is in satoshis: near the one asked, or more than any output     *)
(* holds.                                                                     *)
LEMMA FeeInSatoshis ==
    ASSUME NEW v \in Values, NEW f \in Nat, f <= 8 * HalfRange
    PROVE  /\ Satoshis(f, 4) \in Nat
           /\ \/ /\ 4 * Satoshis(f, 4) <= f + 3 /\ f <= 4 * Satoshis(f, 4) + 3
                 /\ 2 * f + 16 <= Significant =>
                       4 * Satoshis(f, 4) <= f + 2 /\ f <= 4 * Satoshis(f, 4) + 2
              \/ v < Satoshis(f, 4) /\ 4 * v < f
<1> DEFINE n == Satoshis(f, 4)
           K == Significant
<1>1. v \in Nat /\ 4 * (v + 4) <= K /\ K \in Nat /\ HalfRange \in Nat
  BY ValueFacts, Sizes, Ranges
<1>2. n \in Nat
  BY <1>1, SatoshiErrors
<1>3. CASE f + 8 <= K
  BY <1>3, FeeNear
<1>4. CASE f + 8 > K
  <2>1. K < 4 * n + 12
    BY <1>4, FeeMuch
  <2> HIDE DEF n, K
  <2>2. v < n /\ 4 * v < f
    BY <1>1, <1>2, <1>4, <2>1
  <2> QED
    BY <1>2, <2>2 DEF n
<1> QED
  BY <1>1, <1>3, <1>4

(* What makes a change fit the fee g: whatever becomes of the fee, a change   *)
(* the output can give out pays it, and a fee it can pay leaves one.          *)
Fits(c, v, g) ==
    /\ c \in IntMin..IntMax
    /\ c \in 0..v => /\ 4 * (v - c) - g \in -3..3
                     /\ 8 * (v + 3) <= Significant => 4 * (v - c) - g \in -2..2
    /\ g \in 0..(4 * v) => c \in 0..v

LEMMA ChangeFits ==
    ASSUME NEW v \in Values, NEW g \in Fees \cup {0},
           NEW n \in btc2satoshi(Double(g * One, 4 * SATOSHIS_PER_BTC))
    PROVE  Fits(Wrapped(v - n), v, g)
<1> DEFINE R == HalfRange
           K == Significant
           f == IF g < 0 THEN -g ELSE g
           N == Satoshis(f, 4)
           s == IF g < 0 THEN -N ELSE N
           x == v - n
           c == Wrapped(x)
<1>1. g \in Int /\ f \in Nat /\ f <= 8 * R /\ f <= 4 * (2 * R)
  <2>1. g \in (-(8 * R))..(8 * R) /\ R \in Nat
    BY FeeFacts, Ranges
  <2> QED
    BY <2>1
<1>2. /\ R \in Nat \ {0} /\ IntMin = -R /\ IntMax = R - 1
      /\ v \in Nat /\ 4 * (v + 4) <= K /\ K \in Nat /\ K <= R /\ v < R - 1
  <2>1. /\ R \in Nat \ {0} /\ IntMin = -R /\ IntMax = R - 1
        /\ v \in Nat /\ 4 * (v + 4) <= K /\ K \in Nat /\ K <= R
    BY ValueFacts, Sizes, Ranges
  <2> HIDE DEF R, K
  <2> QED
    BY <2>1
<1>3. /\ N \in Nat
      /\ \/ /\ 4 * N <= f + 3 /\ f <= 4 * N + 3
            /\ 2 * f + 16 <= K => 4 * N <= f + 2 /\ f <= 4 * N + 2
         \/ v < N /\ 4 * v < f
  <2> HIDE DEF f
  <2> QED
    BY <1>1, FeeInSatoshis
<1> HIDE DEF N
<1>4. s \in Int /\ n \in IF s \in IntMin..IntMax THEN {s}
                         ELSE {IntMin, IF s < 0 THEN IntMin ELSE IntMax}
  <2>1. s \in Int
    BY <1>3
  <2>2. 4 \in {1, 4}
    OBVIOUS
  <2> HIDE DEF f, s
  <2>3. s = (IF g < 0 THEN -Satoshis(f, 4) ELSE Satoshis(f, 4))
    BY DEF s, N
  <2>4. f = (IF g < 0 THEN -g ELSE g)
    BY DEF f
  <2>5. btc2satoshi(Double(g * One, 4 * SATOSHIS_PER_BTC)) =
              IF s \in IntMin..IntMax THEN {s} ELSE {IntMin, IF s < 0 THEN IntMin ELSE IntMax}
    BY <1>1, <2>1, <2>2, <2>3, <2>4, Btc2Satoshi
  <2> QED
    BY <2>1, <2>5
<1> HIDE DEF R, K
<1>5. n \in (-R)..(R - 1)
  <2> HIDE DEF s
  <2> QED
    BY <1>2, <1>4
<1>6. x \in Int /\ -R <= x /\ x < 2 * R /\ c = IF x < R THEN x ELSE x - 2 * R
  <2>1. x \in Int /\ -R <= x /\ x < 2 * R
    BY <1>2, <1>5
  <2> HIDE DEF x
  <2>2. c = IF x < R THEN x ELSE x - 2 * R
    BY <2>1, WrappedFacts DEF R
  <2> QED
    BY <2>1, <2>2
<1> HIDE DEF c
<1>7. c \in (-R)..(R - 1)
  BY <1>2, <1>6
(* A fee that an int64_t holds is the one subtracted.                         *)
<1>8. CASE n = s
  <2>1. CASE ~(g < 0)
    <3>1. g = f /\ c = v - N
      BY <1>1, <1>2, <1>3, <1>5, <1>6, <1>8, <2>1
    <3> HIDE DEF f, s, x
    <3>2. 4 * (v - c) - g = 4 * N - f
      BY <1>1, <1>2, <1>3, <3>1
    <3>3. g \in 0..(4 * v) => c \in 0..v
      BY <1>1, <1>2, <1>3, <3>1
    <3>4. ASSUME c \in 0..v
          PROVE  /\ 4 * N - f \in -3..3
                 /\ 8 * (v + 3) <= K => 4 * N - f \in -2..2
      <4>1. N <= v
        BY <1>2, <1>3, <3>1, <3>4
      <4>2. /\ 4 * N <= f + 3 /\ f <= 4 * N + 3
            /\ 2 * f + 16 <= K => 4 * N <= f + 2 /\ f <= 4 * N + 2
        BY <1>2, <1>3, <4>1
      <4>3. 8 * (v + 3) <= K => 2 * f + 16 <= K
        BY <1>1, <1>2, <1>3, <4>1, <4>2
      <4> QED
        BY <1>1, <1>3, <4>2, <4>3
    <3> QED
      BY <1>2, <1>7, <3>2, <3>3, <3>4 DEF Fits, K, c, x
  <2>2. CASE g < 0
    <3>1. g = -f /\ f > 0 /\ c = (IF v + N < R THEN v + N ELSE v + N - 2 * R) /\ N <= R
      BY <1>1, <1>2, <1>3, <1>5, <1>6, <1>8, <2>2
    <3> HIDE DEF f, s, x
    <3>2. ASSUME c \in 0..v
          PROVE  N = 0 /\ c = v
      BY <1>2, <1>3, <3>1, <3>2
    <3>3. ASSUME c \in 0..v
          PROVE  /\ 4 * (v - c) - g = f /\ f \in -3..3
                 /\ 8 * (v + 3) <= K => f \in -2..2
      <4>1. N = 0 /\ c = v
        BY <3>2, <3>3
      <4>2. f <= 3 /\ (2 * f + 16 <= K => f <= 2)
        BY <1>1, <1>2, <1>3, <4>1
      <4>3. 8 * (v + 3) <= K => 2 * f + 16 <= K
        BY <1>1, <1>2, <4>2
      <4>4. 4 * (v - c) - g = f
        BY <1>1, <1>2, <3>1, <4>1
      <4> QED
        BY <1>1, <4>2, <4>3, <4>4
    <3>4. g \notin 0..(4 * v)
      BY <1>1, <1>2, <2>2
    <3> QED
      BY <1>2, <1>7, <3>3, <3>4 DEF Fits, K, c, x
  <2> QED
    BY <2>1, <2>2
(* One that does not leaves a change below 0.                                 *)
<1>9. CASE n # s
  <2>1. s \notin IntMin..IntMax /\ n \in {-R, R - 1}
    <3> HIDE DEF s
    <3> QED
      BY <1>2, <1>4, <1>9
  <2>2. c \notin 0..v
    BY <1>2, <1>6, <2>1
  <2>3. g \notin 0..(4 * v)
    BY <1>1, <1>2, <1>3, <2>1
  <2> QED
    BY <1>2, <1>7, <2>2, <2>3 DEF Fits, c, x
<1> QED
  BY <1>8, <1>9

-----------------------------------------------------------------------------
(* The hex of the first n of the data's bytes, two digits to each.            *)
Digits(s, n) ==
    [j \in 1..(2 * n) |-> IF j % 2 = 1 THEN s[(j + 1) \div 2] \div 16 ELSE s[j \div 2] % 16]

LEMMA Byte ==
    ASSUME NEW s \in Seq(1..255), NEW i \in 1..Len(s)
    PROVE  /\ s[i] \in 1..255 /\ s[i] \div 16 \in 0..15 /\ s[i] % 16 \in 0..15
           /\ 16 * (s[i] \div 16) + (s[i] % 16) = s[i]
<1> DEFINE c == s[i]
<1>1. c \in 1..255
  BY ElementOfSeq
<1> HIDE DEF c
<1>2. c \div 16 \in Nat /\ c % 16 \in 0..15 /\ c = 16 * (c \div 16) + (c % 16)
  BY <1>1
<1>3. c \div 16 \in 0..15
  BY <1>1, <1>2
<1> QED
  BY <1>1, <1>2, <1>3 DEF c

LEMMA DigitsFacts ==
    ASSUME NEW s \in Seq(1..255), NEW n \in 0..Len(s)
    PROVE  /\ Digits(s, n) \in Seq(Int) /\ Len(Digits(s, n)) = 2 * n
           /\ \A i \in 1..n : /\ Digits(s, n)[2 * i - 1] = s[i] \div 16
                             /\ Digits(s, n)[2 * i] = s[i] % 16
<1>1. ASSUME NEW j \in 1..(2 * n)
      PROVE  (IF j % 2 = 1 THEN s[(j + 1) \div 2] \div 16 ELSE s[j \div 2] % 16) \in Int
  <2>1. CASE j % 2 = 1
    <3>1. (j + 1) \div 2 \in 1..Len(s)
      BY <1>1, <2>1
    <3> QED
      BY <2>1, <3>1, Byte
  <2>2. CASE j % 2 # 1
    <3>1. j \div 2 \in 1..Len(s)
      BY <1>1, <2>2
    <3> QED
      BY <2>2, <3>1, Byte
  <2> QED
    BY <2>1, <2>2
<1>2. Digits(s, n) \in [1..(2 * n) -> Int]
  BY <1>1 DEF Digits
<1>3. Digits(s, n) \in Seq(Int) /\ Len(Digits(s, n)) = 2 * n
  BY <1>2
<1>4. ASSUME NEW i \in 1..n
      PROVE  Digits(s, n)[2 * i - 1] = s[i] \div 16 /\ Digits(s, n)[2 * i] = s[i] % 16
  <2>1. /\ 2 * i - 1 \in 1..(2 * n) /\ (2 * i - 1) % 2 = 1 /\ ((2 * i - 1) + 1) \div 2 = i
        /\ 2 * i \in 1..(2 * n) /\ (2 * i) % 2 = 0 /\ (2 * i) \div 2 = i
    BY <1>4
  <2> QED
    BY <2>1 DEF Digits
<1> QED
  BY <1>3, <1>4

LEMMA DigitsGrow ==
    ASSUME NEW s \in Seq(1..255), NEW n \in 1..Len(s)
    PROVE  Digits(s, n) = Digits(s, n - 1) \o <<s[n] \div 16, s[n] % 16>>
<1> DEFINE D == Digits(s, n)
           P == Digits(s, n - 1)
           e == <<s[n] \div 16, s[n] % 16>>
           m == 2 * n - 2
<1>1. m \in Nat /\ m + 2 = 2 * n /\ 2 * (n - 1) = m /\ n - 1 \in 0..Len(s) /\ n \in 0..Len(s)
  OBVIOUS
<1>2. D \in Seq(Int) /\ Len(D) = m + 2 /\ P \in Seq(Int) /\ Len(P) = m
  BY <1>1, DigitsFacts
<1>3. e \in Seq(Int) /\ Len(e) = 2 /\ e[1] = s[n] \div 16 /\ e[2] = s[n] % 16
  <2>1. s[n] \div 16 \in Int /\ s[n] % 16 \in Int
    BY Byte
  <2> QED
    BY <2>1
<1>4. \A j \in 1..m : P[j] = D[j]
  <2>1. 1..(2 * (n - 1)) = 1..m /\ 1..m \subseteq 1..(2 * n)
    BY <1>1
  <2> QED
    BY <2>1 DEF Digits
<1>5. D[m + 1] = e[1] /\ D[m + 2] = e[2]
  <2>1. m + 1 = 2 * n - 1 /\ m + 2 = 2 * n /\ n \in 1..n
    BY <1>1
  <2>2. D[2 * n - 1] = s[n] \div 16 /\ D[2 * n] = s[n] % 16
    BY <1>1, <2>1, DigitsFacts
  <2> QED
    BY <1>3, <2>1, <2>2
<1> HIDE DEF D, P, e, m
<1>6. /\ P \o e \in Seq(Int) /\ Len(P \o e) = m + 2
      /\ \A j \in 1..(m + 2) : (P \o e)[j] = IF j <= m THEN P[j] ELSE e[j - m]
  <2>1. /\ P \o e \in Seq(Int) /\ Len(P \o e) = Len(P) + Len(e)
        /\ \A j \in 1..(Len(P) + Len(e)) : (P \o e)[j] =
              IF j <= Len(P) THEN P[j] ELSE e[j - Len(P)]
    BY <1>2, <1>3, ConcatProperties
  <2>2. Len(P) = m /\ Len(e) = 2
    BY <1>2, <1>3
  <2> QED
    BY <2>1, <2>2
<1>7. ASSUME NEW j \in 1..(m + 2) PROVE (P \o e)[j] = D[j]
  <2>1. CASE j <= m
    BY <1>1, <1>4, <1>6, <2>1
  <2>2. CASE j = m + 1
    <3>1. ~(j <= m) /\ j - m = 1
      BY <1>1, <2>2
    <3> QED
      BY <1>5, <1>6, <1>7, <2>2, <3>1
  <2>3. CASE j = m + 2
    <3>1. ~(j <= m) /\ j - m = 2
      BY <1>1, <2>3
    <3> QED
      BY <1>5, <1>6, <1>7, <2>3, <3>1
  <2>4. j <= m \/ j = m + 1 \/ j = m + 2
    BY <1>1, <1>7
  <2> QED
    BY <2>1, <2>2, <2>3, <2>4
<1> QED
  BY <1>2, <1>6, <1>7, SeqEqual DEF D, P, e

(* Flattening, as the community module defines it.                            *)
Flat(f, seqs, n) == f = [i \in 1..n |-> IF i = 1 THEN seqs[i] ELSE f[i - 1] \o seqs[i]]

LEMMA FlattenDigits ==
    ASSUME NEW s \in Seq(1..255), Len(s) > 0,
           NEW seqs, seqs = [i \in 1..Len(s) |-> <<s[i] \div 16, s[i] % 16>>]
    PROVE  FlattenSeq(seqs) = Digits(s, Len(s))
<1> DEFINE n == Len(s)
<1>1. n \in Nat \ {0}
  OBVIOUS
<1>2. Len(seqs) = n
  BY <1>1
<1>3. Digits(s, 1) = seqs[1]
  <2>1. Digits(s, 1) = Digits(s, 0) \o <<s[1] \div 16, s[1] % 16>>
    <3>1. 1 \in 1..n /\ 1 - 1 = 0
      BY <1>1
    <3> QED
      BY <3>1, DigitsGrow
  <2>2. Digits(s, 0) = << >>
    BY DEF Digits
  <2>3. s[1] \div 16 \in Int /\ s[1] % 16 \in Int
    BY <1>1, Byte
  <2>4. <<s[1] \div 16, s[1] % 16>> \in Seq(Int)
    BY <2>3
  <2>5. << >> \o <<s[1] \div 16, s[1] % 16>> = <<s[1] \div 16, s[1] % 16>>
    BY <2>4, ConcatEmptySeq
  <2>6. 1 \in 1..Len(s)
    BY <1>1
  <2> QED
    BY <2>1, <2>2, <2>5, <2>6
<1>4. ASSUME NEW i \in 1..n PROVE Digits(s, i) = Digits(s, i - 1) \o seqs[i]
  BY DigitsGrow
<1>5. \E f : Flat(f, seqs, n)
  <2> DEFINE h == [i \in 1..n |-> Digits(s, i)]
  <2>1. \A i \in 1..n : h[i] = IF i = 1 THEN seqs[i] ELSE h[i - 1] \o seqs[i]
    <3> TAKE i \in 1..n
    <3>1. CASE i = 1
      BY <1>3, <3>1
    <3>2. CASE i # 1
      <4>1. i - 1 \in 1..n
        BY <1>1, <3>2
      <4> QED
        BY <1>4, <3>2, <4>1
    <3> QED
      BY <3>1, <3>2
  <2>2. h = [i \in 1..n |-> h[i]]
    OBVIOUS
  <2> HIDE DEF h
  <2>3. h = [i \in 1..n |-> IF i = 1 THEN seqs[i] ELSE h[i - 1] \o seqs[i]]
    BY <2>1, <2>2
  <2> QED
    BY <2>3 DEF Flat
<1> DEFINE g == CHOOSE f : f = [i \in 1..n |-> IF i = 1 THEN seqs[i] ELSE f[i - 1] \o seqs[i]]
<1>6. Flat(g, seqs, n)
  BY <1>5 DEF Flat
<1>7. FlattenSeq(seqs) = g[n]
  BY <1>1, <1>2 DEF FlattenSeq
<1> HIDE DEF g
<1>8. 0..(n - 1) \subseteq {i \in 0..(n - 1) : g[i + 1] = Digits(s, i + 1)}
  <2> DEFINE G == {i \in 0..(n - 1) : g[i + 1] = Digits(s, i + 1)}
  <2>1. 0 \in G
    BY <1>1, <1>3, <1>6 DEF Flat
  <2>2. ASSUME NEW i \in 1..(n - 1), i - 1 \in G PROVE i \in G
    <3>1. i + 1 \in 1..n /\ i + 1 # 1 /\ (i + 1) - 1 = i /\ (i - 1) + 1 = i /\ i + 1 > 1
      BY <1>1
    <3>2. g[i] = Digits(s, i)
      BY <2>2, <3>1
    <3>3. g[i + 1] = g[i] \o seqs[i + 1]
      BY <1>6, <3>1 DEF Flat
    <3>4. Digits(s, i + 1) = Digits(s, i) \o seqs[i + 1]
      <4>1. Digits(s, i + 1) = Digits(s, (i + 1) - 1) \o seqs[i + 1]
        BY <1>4, <3>1
      <4> QED
        BY <3>1, <4>1
    <3>5. i \in 0..(n - 1)
      BY <1>1
    <3> QED
      BY <3>2, <3>3, <3>4, <3>5
  <2>3. n - 1 \in Nat
    BY <1>1
  <2> HIDE DEF G
  <2>4. 0..(n - 1) \subseteq G
    BY <2>1, <2>2, <2>3, Steps
  <2> QED
    BY <2>4 DEF G
<1> QED
  <2>1. n - 1 \in 0..(n - 1) /\ (n - 1) + 1 = n
    BY <1>1
  <2> QED
    BY <1>7, <1>8, <2>1

(* What arrives as the data s: hex that is relayed and that says s, or        *)
(* nothing for one that is too long.                                          *)
Says(hex, s) ==
    /\ Len(hex) % 2 = 0 /\ Len(hex) <= 2 * MAX_OP_RETURN_LENGTH
    /\ Bytes(hex) = IF Len(s) > MAX_OP_RETURN_LENGTH THEN << >> ELSE s

(* Two digits to a byte say what was encoded.                                 *)
LEMMA BytesOfDigits ==
    ASSUME NEW s \in Seq(1..255)
    PROVE  Bytes(Digits(s, Len(s))) = s
<1> DEFINE n == Len(s)
           h == Digits(s, n)
<1>1. n \in Nat /\ n \in 0..n
  BY LenProperties
<1>2. /\ Len(h) = 2 * n
      /\ \A i \in 1..n : h[2 * i - 1] = s[i] \div 16 /\ h[2 * i] = s[i] % 16
  BY <1>1, DigitsFacts
<1> HIDE DEF h
<1>3. \A i \in 1..n : 16 * h[2 * i - 1] + h[2 * i] = s[i]
  BY <1>2, Byte
<1>4. (2 * n) \div 2 = n
  BY <1>1
<1>5. Bytes(h) = [i \in 1..n |-> 16 * h[2 * i - 1] + h[2 * i]]
  BY <1>2, <1>4 DEF Bytes
<1>6. Bytes(h) = [i \in 1..n |-> s[i]]
  BY <1>3, <1>5
<1>7. s = [i \in 1..n |-> s[i]]
  BY LenProperties
<1> QED
  BY <1>6, <1>7 DEF h

(* A reference arrives, or nothing of one that is too long.                   *)
LEMMA EncodeSays ==
    ASSUME NEW s \in Seq(1..255), Ascii(s) \/ ~charIsSigned
    PROVE  Says(encodeOpReturnData(s), s)
<1> DEFINE n == Len(s)
           M == MAX_OP_RETURN_LENGTH
           seqs == [i \in DOMAIN s |-> Hex(s[i])]
<1>1. n \in Nat /\ M \in Nat /\ DOMAIN s = 1..n /\ s \in [1..n -> 1..255]
  BY LenProperties, OutputsAssumption DEF OutputsAssumption
<1>2. Bytes(<< >>) = << >> /\ Len(<< >>) = 0 /\ 0 % 2 = 0
  BY DEF Bytes
<1>3. CASE n > M
  <2>1. encodeOpReturnData(s) = << >>
    BY <1>3 DEF encodeOpReturnData
  <2> QED
    BY <1>1, <1>2, <1>3, <2>1 DEF Says
<1>4. CASE n = 0
  <2>1. s = << >>
    BY <1>4, EmptySeq
  <2>2. seqs = << >>
    BY <1>1, <1>4
  <2>3. encodeOpReturnData(s) = << >>
    BY <1>1, <1>4, <2>2 DEF encodeOpReturnData, FlattenSeq
  <2> QED
    BY <1>1, <1>2, <2>1, <2>3 DEF Says
<1>5. CASE n > 0 /\ ~(n > M)
  <2>1. ASSUME NEW i \in 1..n
        PROVE  Hex(s[i]) = <<s[i] \div 16, s[i] % 16>>
    <3> DEFINE e == <<s[i] \div 16, s[i] % 16>>
    <3>1. ~(charIsSigned /\ s[i] > 127)
      <4>1. CASE Ascii(s)
        <5>1. s[i] \in ToSet(s)
          <6>1. i \in DOMAIN s
            BY <1>1, <2>1
          <6> QED
            BY <6>1 DEF ToSet
        <5>2. s[i] \in 0..127
          BY <4>1, <5>1 DEF Ascii
        <5>3. \A c \in 0..127 : ~(c > 127)
          OBVIOUS
        <5> QED
          BY <5>2, <5>3, Zenon
      <4>2. CASE ~charIsSigned
        BY <4>2
      <4> QED
        BY <4>1, <4>2
    <3>2. s[i] \div 16 \in Int /\ s[i] % 16 \in Int
      BY Byte
    <3>3. e \in Seq(Int)
      BY <3>2
    <3> HIDE DEF e
    <3>4. << >> \o e = e
      BY <3>3, ConcatEmptySeq
    <3>5. Hex(s[i]) = << >> \o e
      BY <3>1 DEF Hex, e
    <3> QED
      BY <3>4, <3>5 DEF e
  <2>2. seqs = [i \in 1..n |-> <<s[i] \div 16, s[i] % 16>>]
    BY <1>1, <2>1
  <2> HIDE DEF seqs
  <2>3. FlattenSeq(seqs) = Digits(s, n)
    BY <1>5, <2>2, FlattenDigits
  <2>4. encodeOpReturnData(s) = Digits(s, n)
    BY <1>5, <2>3 DEF encodeOpReturnData, seqs
  <2>5. Len(Digits(s, n)) = 2 * n
    <3>1. n \in 0..n
      BY <1>1
    <3> QED
      BY <3>1, DigitsFacts
  <2>6. Bytes(Digits(s, n)) = s
    BY BytesOfDigits
  <2>7. (2 * n) % 2 = 0 /\ 2 * n <= 2 * M
    BY <1>1, <1>5
  <2> QED
    BY <1>5, <2>4, <2>5, <2>6, <2>7 DEF Says
<1> QED
  BY <1>1, <1>3, <1>4, <1>5

LEMMA GreatestValue == Max(Values) \in Values
<1> DEFINE K == Significant
           Left == {K - v : v \in Values}
<1>1. K \in Nat /\ Values # {} /\ \A v \in Values : v \in Nat /\ v <= K
  BY Sizes, ValueFacts, OutputsAssumption DEF OutputsAssumption
<1> HIDE DEF K
<1>2. Left \in SUBSET Nat /\ Left # {}
  BY <1>1
<1>3. PICK m \in Left : \A k \in Left : m <= k
  BY <1>2, Smallest
<1>4. PICK v \in Values : m = K - v
  BY <1>3
<1>5. \A w \in Values : v >= w
  <2> TAKE w \in Values
  <2>1. K - v <= K - w
    BY <1>3, <1>4
  <2> QED
    BY <1>1, <2>1
<1> QED
  BY <1>4, <1>5 DEF Max

-----------------------------------------------------------------------------
(* The amounts and the data given to bitcoind are those that were computed.   *)
Faithful(a) ==
    /\ a.change \in 0..value <=> change \in 0..value
    /\ change \in 0..value => a.change = change
    /\ a.spent = value
    /\ Ascii(ddoRef) \/ ~charIsSigned => Says(a.data, ddoRef)

(* The inductive invariant: the value is read as it is, the change fits the   *)
(* fee, the amounts say both, and what is sent is what bitcoind accepts.      *)
Inv ==
    /\ value \in Values /\ fee \in Fees \cup {0} /\ ddoRef \in DdoRefs \cup {<< >>}
    /\ ddoRef # << >> => fee = 0
    /\ pc \in {"txOut", "change", "build", "send", "sent", "refused"}
    /\ amountSatoshis = IF pc = "txOut" THEN 0 ELSE value
    /\ IF pc \in {"txOut", "change"} THEN change = 0 ELSE Fits(change, value, fee)
    /\ IF pc \in {"txOut", "change", "build"} THEN amounts = {}
       ELSE \E a : amounts = {a} /\ Faithful(a)
    /\ pc = "sent" => \A a \in amounts : Accepts(a)
    /\ pc = "refused" => \A a \in amounts : ~Accepts(a)

LEMMA InvInitially == Init => Inv
BY GreatestValue DEF Init, Inv

LEMMA InvReadAmount == Inv /\ ReadAmount => Inv'
<1> SUFFICES ASSUME Inv, ReadAmount PROVE Inv'
  OBVIOUS
<1>1. amountSatoshis' = value
  BY ValueIsRead DEF Inv, ReadAmount
<1> QED
  BY <1>1 DEF Inv, ReadAmount, inputVars

LEMMA InvComputeChange == Inv /\ ComputeChange => Inv'
<1> SUFFICES ASSUME Inv, ComputeChange PROVE Inv'
  OBVIOUS
<1>1. value \in Values /\ fee \in Fees \cup {0} /\ amountSatoshis = value
  BY DEF Inv, ComputeChange
<1>2. Fits(change', value, fee)
  <2>1. PICK n \in btc2satoshi(Double(fee * One, 4 * SATOSHIS_PER_BTC)) :
           change' = Wrapped(amountSatoshis - n)
    BY DEF ComputeChange
  <2> QED
    BY <1>1, <2>1, ChangeFits
<1> QED
  BY <1>1, <1>2 DEF Inv, ComputeChange, inputVars

LEMMA InvAddOutputs == Inv /\ AddOutputs => Inv'
<1> SUFFICES ASSUME Inv, AddOutputs PROVE Inv'
  OBVIOUS
<1>1. /\ value \in Values /\ value \in Nat /\ change \in IntMin..IntMax
      /\ amountSatoshis = value /\ value \in IntMin..IntMax
  <2>1. value \in Values /\ change \in IntMin..IntMax /\ amountSatoshis = value
    BY DEF Inv, AddOutputs, Fits
  <2>2. value \in Nat /\ value \in IntMin..IntMax
    <3>1. /\ value \in Nat /\ 4 * (value + 4) <= Significant /\ Significant <= HalfRange
          /\ HalfRange \in Nat /\ Significant \in Nat /\ IntMin = -HalfRange /\ IntMax = HalfRange - 1
      BY <2>1, ValueFacts, Ranges, Sizes
    <3> QED
      BY <3>1
  <2> QED
    BY <2>1, <2>2
<1>2. PICK a : /\ a = [change |-> TextOf(change), data |-> encodeOpReturnData(ddoRef),
                      spent |-> TextOf(amountSatoshis)]
               /\ amounts' = {a}
  BY DEF AddOutputs, TextOf
<1>3. Faithful(a)
  <2>1. TextOf(amountSatoshis) = value
    <3>1. value \in 0..value
      BY <1>1
    <3> QED
      BY <1>1, <3>1, Texts
  <2>2. /\ TextOf(change) \in 0..value <=> change \in 0..value
        /\ change \in 0..value => TextOf(change) = change
    BY <1>1, Texts
  <2>3. Ascii(ddoRef) \/ ~charIsSigned => Says(encodeOpReturnData(ddoRef), ddoRef)
    <3>1. ddoRef \in Seq(1..255)
      <4>1. << >> \in Seq(1..255)
        OBVIOUS
      <4> QED
        BY <4>1, OutputsAssumption DEF OutputsAssumption, Inv
    <3> QED
      BY <3>1, EncodeSays
  <2> QED
    BY <1>2, <2>1, <2>2, <2>3 DEF Faithful
<1>4. Faithful(a)'
  BY <1>3 DEF Faithful, AddOutputs, inputVars
<1> QED
  BY <1>2, <1>4 DEF Inv, AddOutputs, inputVars

LEMMA InvSend == Inv /\ Send => Inv'
<1> SUFFICES ASSUME Inv, Send PROVE Inv'
  OBVIOUS
<1>1. PICK a : amounts = {a} /\ Faithful(a)
  BY DEF Inv, Send
<1>2. amounts' = {a} /\ pc' = IF Accepts(a) THEN "sent" ELSE "refused"
  BY <1>1 DEF Send
<1>3. Faithful(a)' /\ (Accepts(a)' <=> Accepts(a))
  BY <1>1 DEF Faithful, Accepts, Send, inputVars
<1>4. pc' \in {"sent", "refused"} /\ (pc' = "sent" => Accepts(a)) /\ (pc' = "refused" => ~Accepts(a))
  BY <1>2
<1>5. /\ pc' = "sent" => \A b \in amounts' : Accepts(b)'
      /\ pc' = "refused" => \A b \in amounts' : ~Accepts(b)'
  BY <1>2, <1>3, <1>4
<1>6. \E b : amounts' = {b} /\ Faithful(b)'
  BY <1>2, <1>3
<1> QED
  BY <1>4, <1>5, <1>6 DEF Inv, Send, inputVars

LEMMA Invariance == Spec => []Inv
<1>1. Inv /\ UNCHANGED vars => Inv'
  <2> SUFFICES ASSUME Inv, UNCHANGED vars PROVE Inv'
    OBVIOUS
  <2>1. ASSUME NEW a PROVE (Faithful(a)' <=> Faithful(a)) /\ (Accepts(a)' <=> Accepts(a))
    BY DEF vars, inputVars, Faithful, Accepts
  <2> QED
    BY <2>1 DEF Inv, vars, inputVars
<1>2. Inv /\ [Next]_vars => Inv'
  BY <1>1, InvReadAmount, InvComputeChange, InvAddOutputs, InvSend DEF Next
<1> QED
  BY <1>2, InvInitially, PTL DEF Spec

(* The change is an int64_t whatever becomes of the fee (createBtcrDid.cpp),  *)
(* for doubles and integers of any number of bits.                            *)
THEOREM TypeIsCorrect == Spec => []TypeOK
<1>1. ASSUME Inv PROVE TypeOK
  <2>1. {amountSatoshis, change} \subseteq IntMin..IntMax
    <3>1. /\ value \in Nat /\ 4 * (value + 4) <= Significant /\ Significant <= HalfRange
          /\ HalfRange \in Nat \ {0} /\ Significant \in Nat
          /\ IntMin = -HalfRange /\ IntMax = HalfRange - 1
      BY <1>1, ValueFacts, Ranges, Sizes DEF Inv
    <3>2. value \in IntMin..IntMax /\ 0 \in IntMin..IntMax
      BY <3>1
    <3>3. change \in IntMin..IntMax
      BY <1>1, <3>2 DEF Inv, Fits
    <3> QED
      BY <1>1, <3>2, <3>3 DEF Inv
  <2>2. Cardinality(amounts) <= 1
    <3>1. CASE amounts = {}
      BY <3>1, FS_EmptySet
    <3>2. CASE \E a : amounts = {a}
      BY <3>2, FS_Singleton
    <3> QED
      BY <1>1, <3>1, <3>2 DEF Inv
  <2> QED
    BY <1>1, <2>1, <2>2 DEF Inv, TypeOK
<1> QED
  BY <1>1, Invariance, PTL

(* What is sent pays the fee asked for: the two roundings and the sum of      *)
(* btc2satoshi, the wrapped difference, and the quotient and the decimals of  *)
(* satoshi2btc and btc_to_string (src/src/satoshis.h) leave it less than a    *)
(* satoshi off, and the nearest one within an eighth of what a double counts. *)
THEOREM FeeIsPaid == Spec => []FeeIsTheOneAsked
<1>1. ASSUME Inv PROVE FeeIsTheOneAsked
  <2> SUFFICES ASSUME pc = "sent", NEW a \in amounts
               PROVE  LET more == 4 * (value - a.change) - fee IN
                      /\ more \in -3..3
                      /\ 8 * (value + 3) <= TwoTo[Precision] => more \in -2..2
    BY DEF FeeIsTheOneAsked
  <2>1. Faithful(a) /\ Accepts(a) /\ Fits(change, value, fee)
    BY <1>1 DEF Inv
  <2>2. a.change = change /\ change \in 0..value
    BY <2>1 DEF Faithful, Accepts
  <2> QED
    BY <2>1, <2>2 DEF Fits, Significant
<1> QED
  BY <1>1, Invariance, PTL

(* A fee the output can pay leaves a change that is printed as it is and an   *)
(* amount to sign that is the output's (src/src/createBtcrDid.cpp): bitcoind  *)
(* has no reason to refuse, if an empty string is data to it.                 *)
THEOREM AffordableIsSent == Spec => []AffordableIsAccepted
<1>1. ASSUME Inv PROVE AffordableIsAccepted
  <2> SUFFICES ASSUME pc = "refused", fee \in 0..(4 * value), ddoRef = << >>, emptyIsHex
               PROVE  FALSE
    BY DEF AffordableIsAccepted
  <2>1. PICK a : amounts = {a} /\ Faithful(a)
    BY <1>1 DEF Inv
  <2>2. ~Accepts(a) /\ Fits(change, value, fee)
    BY <1>1, <2>1 DEF Inv
  <2>3. a.change \in 0..value /\ a.spent = value
    BY <2>1, <2>2 DEF Fits, Faithful
  <2>4. Says(a.data, ddoRef)
    <3>1. Ascii(ddoRef)
      BY DEF Ascii, ToSet
    <3> QED
      BY <2>1, <3>1 DEF Faithful
  <2> QED
    BY <2>2, <2>3, <2>4 DEF Accepts, Says
<1> QED
  BY <1>1, Invariance, PTL

(* The hex of encodeOpReturnData (src/src/encodeOpReturnData.cpp) says the    *)
(* reference byte for byte, for references of any length, and bitcoind does   *)
(* not refuse the transaction, unless it wants data and there are none.       *)
THEOREM ReferenceIsWhole == Spec => []ReferenceArrives
<1>1. ASSUME Inv PROVE ReferenceArrives
  <2> SUFFICES ASSUME Ascii(ddoRef) \/ ~charIsSigned
               PROVE  /\ pc = "refused" =>
                            \/ ddoRef = << >>
                            \/ Len(ddoRef) > MAX_OP_RETURN_LENGTH /\ ~emptyIsHex
                      /\ \A a \in amounts : Bytes(a.data) =
                            IF Len(ddoRef) > MAX_OP_RETURN_LENGTH THEN << >> ELSE ddoRef
    BY DEF ReferenceArrives
  <2>1. \A a \in amounts : Faithful(a) /\ Says(a.data, ddoRef)
    BY <1>1 DEF Inv, Faithful
  <2>2. ASSUME pc = "refused", ddoRef # << >>,
               ~(Len(ddoRef) > MAX_OP_RETURN_LENGTH /\ ~emptyIsHex)
        PROVE  FALSE
    <3>1. PICK a : amounts = {a} /\ ~Accepts(a) /\ Fits(change, value, fee)
      BY <1>1, <2>2 DEF Inv
    <3>2. fee = 0 /\ fee \in 0..(4 * value)
      <4>1. fee = 0 /\ value \in Nat
        BY <1>1, <2>2, ValueFacts DEF Inv
      <4> QED
        BY <4>1
    <3>3. a.change \in 0..value /\ a.spent = value
      BY <2>1, <3>1, <3>2 DEF Fits, Faithful
    <3>4. a.data = << >> => emptyIsHex
      <4> SUFFICES ASSUME a.data = << >>, Len(ddoRef) <= MAX_OP_RETURN_LENGTH
                   PROVE  FALSE
        <5>1. Len(ddoRef) \in Nat /\ MAX_OP_RETURN_LENGTH \in Nat
          <6>1. ddoRef \in Seq(1..255)
            BY <1>1, <2>2, OutputsAssumption DEF OutputsAssumption, Inv
          <6> QED
            BY <6>1, OutputsAssumption DEF OutputsAssumption
        <5> QED
          BY <2>2, <5>1
      <4>1. Len(a.data) = 0 /\ 1..(0 \div 2) = {}
        OBVIOUS
      <4>2. Bytes(a.data) = << >>
        BY <4>1 DEF Bytes
      <4>3. Bytes(a.data) = ddoRef
        <5>1. ~(Len(ddoRef) > MAX_OP_RETURN_LENGTH)
          <6>1. ddoRef \in Seq(1..255) /\ MAX_OP_RETURN_LENGTH \in Nat
            BY <1>1, <2>2, OutputsAssumption DEF OutputsAssumption, Inv
          <6> QED
            BY <6>1
        <5> QED
          BY <2>1, <3>1, <5>1 DEF Says
      <4> QED
        BY <2>2, <4>2, <4>3
    <3> QED
      BY <2>1, <3>1, <3>3, <3>4 DEF Accepts, Says
  <2> QED
    BY <2>1, <2>2 DEF Says
<1> QED
  BY <1>1, Invariance, PTL
=============================================================================

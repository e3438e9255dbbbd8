-------------------------- MODULE ArithmeticProofs --------------------------
(***************************************************************************)
(* Whole numbers, sequences and folds; what BASIC reals are for every word *)
(* of 2^32 values; the CRC-32 of every sequence of bytes.                  *)
(***************************************************************************)
EXTENDS BasicReal, Crc32, FiniteSetTheorems, WellFoundedInduction, SequenceTheorems, TLAPS

\* A set of natural numbers that is not empty has a least one.
LEMMA LeastNumber ==
  ASSUME NEW T \in SUBSET Nat, T # {}
  PROVE  \E n \in T : \A m \in T : n <= m
<1> DEFINE F == {0 .. n : n \in T}
<1>1. IsWellFoundedOn(StrictSubsetOrdering(Nat), FiniteSubsetsOf(Nat))
  BY FS_StrictSubsetOrderingWellFounded
<1>2. F \subseteq FiniteSubsetsOf(Nat) /\ F # {}
  <2>1. \A n \in T : 0 .. n \in SUBSET Nat /\ IsFiniteSet(0 .. n)
    BY FS_Interval
  <2> QED BY <2>1 DEF FiniteSubsetsOf
<1>3. PICK x \in F : \A y \in F : ~ (<<y, x>> \in StrictSubsetOrdering(Nat))
  <2> HIDE DEF F
  <2> QED BY <1>1, <1>2, WFMin
<1>4. PICK n \in T : x = 0 .. n
  OBVIOUS
<1>5. ASSUME NEW m \in T, m < n PROVE FALSE
  <2>1. 0 .. m \in F /\ 0 .. m \subseteq Nat /\ 0 .. n \subseteq Nat
    OBVIOUS
  <2>2. 0 .. m \subseteq 0 .. n /\ n \in 0 .. n /\ n \notin 0 .. m
    BY <1>5
  <2> QED BY <1>3, <1>4, <2>1, <2>2 DEF StrictSubsetOrdering
<1> QED BY <1>5

\* Induction over the natural numbers, for a set of those that have a property.
LEMMA NatInduct ==
  ASSUME NEW S, 0 \in S, \A n \in Nat : n \in S => n + 1 \in S
  PROVE  Nat \subseteq S
<1> SUFFICES ASSUME Nat \ S # {} PROVE FALSE
  OBVIOUS
<1>1. PICK n \in Nat \ S : \A m \in Nat \ S : n <= m
  BY LeastNumber
<1>2. n - 1 \in Nat /\ n - 1 \notin Nat \ S
  BY <1>1
<1> QED BY <1>1, <1>2
-----------------------------------------------------------------------------
\* Powers of two, from the number of subsets of a set.
LEMMA PowerType == ASSUME NEW n \in Nat PROVE 2 ^ n \in Nat
<1>1. IsFiniteSet(1 .. n) /\ Cardinality(1 .. n) = n
  BY FS_Interval
<1>2. IsFiniteSet(SUBSET (1 .. n)) /\ Cardinality(SUBSET (1 .. n)) = 2 ^ n
  BY <1>1, FS_SUBSET
<1> QED BY <1>2, FS_CardinalityType

\* One more bit doubles a power of two.
LEMMA PowerStep == ASSUME NEW n \in Nat PROVE 2 ^ (n + 1) = 2 * 2 ^ n
<1> DEFINE A == SUBSET (1 .. n)
           Ax == {B \cup {n + 1} : B \in A}
           f == [B \in A |-> B \cup {n + 1}]
<1>1. /\ IsFiniteSet(1 .. n) /\ Cardinality(1 .. n) = n
      /\ IsFiniteSet(1 .. n + 1) /\ Cardinality(1 .. n + 1) = n + 1
  BY FS_Interval
<1>2. /\ IsFiniteSet(A) /\ Cardinality(A) = 2 ^ n
      /\ Cardinality(SUBSET (1 .. n + 1)) = 2 ^ (n + 1)
  BY <1>1, FS_SUBSET
<1>3. f \in Bijection(A, Ax)
  <2>1. f \in [A -> Ax] /\ \A y \in Ax : \E B \in A : f[B] = y
    OBVIOUS
  <2>2. ASSUME NEW B \in A, NEW C \in A, f[B] = f[C] PROVE B = C
    <3>1. n + 1 \notin B /\ n + 1 \notin C
      OBVIOUS
    <3> QED BY <2>2, <3>1
  <2> QED BY <2>1, <2>2 DEF Bijection, Injection, Surjection, IsInjective
<1>4. IsFiniteSet(Ax) /\ Cardinality(Ax) = Cardinality(A)
  BY <1>2, <1>3, FS_Bijection DEF ExistsBijection
<1>5. SUBSET (1 .. n + 1) = A \cup Ax
  <2>1. ASSUME NEW S \in SUBSET (1 .. n + 1) PROVE S \in A \cup Ax
    <3>1. CASE n + 1 \in S
      <4>1. S \ {n + 1} \in A /\ S = (S \ {n + 1}) \cup {n + 1}
        BY <3>1
      <4> QED BY <4>1
    <3> QED BY <3>1
  <2>2. A \subseteq SUBSET (1 .. n + 1) /\ Ax \subseteq SUBSET (1 .. n + 1)
    <3>1. 1 .. n \subseteq 1 .. n + 1 /\ {n + 1} \subseteq 1 .. n + 1
      OBVIOUS
    <3> QED BY <3>1
  <2> HIDE DEF A, Ax
  <2> QED BY <2>1, <2>2
<1>6. A \cap Ax = {}
  OBVIOUS
<1> HIDE DEF A, Ax
<1>7. Cardinality(A \cup Ax) = Cardinality(A) + Cardinality(Ax) - Cardinality(A \cap Ax)
  BY <1>2, <1>4, FS_Union
<1>8. Cardinality(A \cap Ax) = 0
  BY <1>6, FS_EmptySet
<1>9. 2 ^ (n + 1) = Cardinality(A) + Cardinality(Ax) - 0
  BY <1>2, <1>5, <1>7, <1>8
<1>10. Cardinality(A) \in Nat
  BY <1>2, FS_CardinalityType
<1> QED BY <1>2, <1>4, <1>9, <1>10

\* Powers of two are positive whole numbers.
LEMMA PowerPositive == ASSUME NEW n \in Nat PROVE 2 ^ n \in Nat \ {0}
<1> DEFINE S == {k \in Nat : 2 ^ k \in Nat \ {0}}
<1>1. 0 \in S
  OBVIOUS
<1>2. \A k \in Nat : k \in S => k + 1 \in S
  BY PowerStep
<1> HIDE DEF S
<1>3. n \in S
  BY <1>1, <1>2, NatInduct
<1> QED BY <1>3 DEF S

\* Powers of two multiply by adding their exponents.
LEMMA PowerSum ==
  ASSUME NEW m \in Nat, NEW n \in Nat PROVE 2 ^ (m + n) = 2 ^ m * 2 ^ n
<1> DEFINE S == {k \in Nat : 2 ^ (m + k) = 2 ^ m * 2 ^ k}
<1>1. 0 \in S
  <2>1. 2 ^ 0 = 1 /\ m + 0 = m /\ 2 ^ m \in Nat
    BY PowerType
  <2> QED BY <2>1
<1>2. ASSUME NEW k \in S PROVE k + 1 \in S
  <2>1. 2 ^ (m + (k + 1)) = 2 * 2 ^ (m + k) /\ 2 ^ (k + 1) = 2 * 2 ^ k
    <3>1. m + (k + 1) = (m + k) + 1 /\ m + k \in Nat
      OBVIOUS
    <3> QED BY <3>1, PowerStep
  <2>2. 2 ^ m \in Nat /\ 2 ^ k \in Nat
    BY PowerType
  <2> QED BY <2>1, <2>2
<1> HIDE DEF S
<1>3. n \in S
  <2>1. \A k \in Nat : k \in S => k + 1 \in S
    BY <1>2
  <2> QED BY <1>1, <2>1, NatInduct
<1> QED BY <1>3 DEF S
-----------------------------------------------------------------------------
\* What the definitions come to, with H for the leading bit's place value.
LEMMA Sizes32 ==
  /\ Hidden \in Nat \ {0} /\ Hidden >= 2 /\ MantBits \in Nat \ {0}
  /\ 2 ^ (MantBits + 1) = 2 * Hidden
  /\ 2 ^ Width = 512 * Hidden
  /\ 2 ^ (Width - 1) = 256 * Hidden
<1>1. MantBits \in Nat /\ MantBits # 0 /\ MantBits - 1 \in Nat
  BY MantBitsAssumption
<1>2. Hidden \in Nat \ {0} /\ 2 ^ (MantBits - 1) \in Nat \ {0}
  BY <1>1, PowerPositive DEF Hidden
<1>3. 2 ^ MantBits = 2 * 2 ^ (MantBits - 1)
  <2>1. (MantBits - 1) + 1 = MantBits
    BY <1>1
  <2> QED BY <1>1, <2>1, PowerStep
<1>4. ASSUME NEW m \in Nat, NEW n \in Nat, n = m + 1 PROVE 2 ^ n = 2 * 2 ^ m
  BY <1>4, PowerStep
<1>5. /\ 2 ^ (MantBits + 1) = 2 * 2 ^ MantBits
      /\ 2 ^ (MantBits + 2) = 2 * 2 ^ (MantBits + 1)
      /\ 2 ^ (MantBits + 3) = 2 * 2 ^ (MantBits + 2)
      /\ 2 ^ (MantBits + 4) = 2 * 2 ^ (MantBits + 3)
      /\ 2 ^ (MantBits + 5) = 2 * 2 ^ (MantBits + 4)
      /\ 2 ^ (MantBits + 6) = 2 * 2 ^ (MantBits + 5)
      /\ 2 ^ (MantBits + 7) = 2 * 2 ^ (MantBits + 6)
      /\ 2 ^ (MantBits + 8) = 2 * 2 ^ (MantBits + 7)
      /\ 2 ^ (MantBits + 9) = 2 * 2 ^ (MantBits + 8)
  BY <1>1, <1>4
<1>6. /\ 2 ^ (MantBits + 1) = 2 * 2 ^ MantBits
      /\ 2 ^ (MantBits + 8) = 256 * 2 ^ MantBits
      /\ 2 ^ (MantBits + 9) = 512 * 2 ^ MantBits
  BY <1>1, <1>2, <1>5 DEF Hidden
<1>7. Width = MantBits + 9 /\ Width - 1 = MantBits + 8
  BY <1>1 DEF Width
<1> QED BY <1>1, <1>2, <1>3, <1>6, <1>7 DEF Hidden

\* What division gives back of a product and a remainder.
LEMMA Quotient ==
  ASSUME NEW q \in Nat, NEW r \in Nat, NEW p \in Nat, r < p
  PROVE  (p * q + r) \div p = q /\ (p * q + r) % p = r
  OBVIOUS

\* A word put together of a sign, a mantissa and an exponent has these.
LEMMA WordOf ==
  ASSUME NEW m \in Nat, m < Hidden, NEW s \in {0, 1}, NEW e \in Nat
  PROVE  LET w == m + (IF s = 1 THEN Hidden ELSE 0) + e * 2 ^ (MantBits + 1)
         IN /\ w \in Nat
            /\ Exponent(w) = e
            /\ IsNegative(w) <=> s = 1
            /\ Value(w) = m + Hidden
<1> DEFINE w == m + (IF s = 1 THEN Hidden ELSE 0) + e * 2 ^ (MantBits + 1)
           H == Hidden
<1>1. H \in Nat \ {0} /\ 2 ^ (MantBits + 1) = 2 * H
  BY Sizes32
<1>2. w = (2 * H) * e + (m + H * s) /\ m + H * s \in Nat /\ m + H * s < 2 * H
  BY <1>1
<1>3. w = H * (2 * e + s) + m /\ 2 * e + s \in Nat
  BY <1>1
<1> HIDE DEF w
<1>4. w \div (2 * H) = e
  <2>1. 2 * H \in Nat
    BY <1>1
  <2> DEFINE r == m + H * s
             p == 2 * H
  <2>2. w = p * e + r /\ r \in Nat /\ p \in Nat /\ r < p
    BY <1>2, <2>1
  <2> HIDE DEF r, p
  <2>3. w \div p = e
    BY <2>2, Quotient
  <2> QED BY <2>3 DEF p
<1>5. w \div H = 2 * e + s /\ w % H = m
  BY <1>1, <1>3, Quotient
<1>6. (w \div H) % 2 = s
  BY <1>5
<1>7. w \in Nat
  BY <1>1, <1>3
<1>8. Exponent(w) = e
  BY <1>1, <1>4 DEF Exponent
<1>9. (IsNegative(w) <=> s = 1) /\ Value(w) = m + Hidden
  BY <1>5, <1>6 DEF IsNegative, Value
<1> QED BY <1>7, <1>8, <1>9 DEF w
-----------------------------------------------------------------------------
\* A quotient compared with a whole number, without dividing.
LEMMA DivBound ==
  ASSUME NEW a \in Nat, NEW b \in Nat, b > 0, NEW c \in Nat
  PROVE  /\ a \div b \in Nat
         /\ a \div b >= c <=> a >= c * b
         /\ (a \div b) * b <= a
  <1> DEFINE q == a \div b
             r == a % b
  <1>1. q \in Nat /\ r \in Nat /\ r < b /\ a = b * q + r
    OBVIOUS
  <1> HIDE DEF q, r
  <1>2. q >= c => a >= c * b
    BY <1>1
  <1>3. q < c => a < c * b
    <2>1. ASSUME q < c PROVE a < c * b
      <3>1. b * (q + 1) <= b * c
        BY <1>1, <2>1
      <3> QED BY <1>1, <3>1
    <2> QED BY <2>1
  <1> QED BY <1>1, <1>2, <1>3 DEF q

\* Shifts by less than the width that lose no bit on the left.
LEMMA Shl ==
  ASSUME NEW v \in Nat, NEW k \in 0 .. MantBits + 8, v * 2 ^ k < 256 * Hidden
  PROVE  WrappingShl(v, k) = v * 2 ^ k
<1>1. MantBits \in Nat /\ Width \in Nat /\ k < Width /\ k \in Nat
  BY Sizes32 DEF Width
<1>2. k % Width = k
  BY <1>1
<1> DEFINE s == v * 2 ^ k
           p == 512 * Hidden
<1>3. s \in Nat /\ p \in Nat /\ s < p
  BY <1>1, PowerType, Sizes32
<1>4. s % p = s
  <2> HIDE DEF s, p
  <2> QED BY <1>3
<1>5. WrappingShl(v, k) = Signed(s)
  BY <1>2, <1>4, Sizes32 DEF WrappingShl
<1>6. Signed(s) = s
  BY <1>3, Sizes32 DEF Signed
<1> QED BY <1>5, <1>6

\* A right shift by fewer bits than the word has is a division.
LEMMA Shr ==
  ASSUME NEW v \in Nat, NEW k \in 0 .. MantBits + 8
  PROVE  WrappingShr(v, k) = v \div 2 ^ k
<1>1. MantBits \in Nat /\ Width \in Nat /\ k < Width /\ k \in Nat
  BY Sizes32 DEF Width
<1>2. k % Width = k
  BY <1>1
<1> QED BY <1>2 DEF WrappingShr

\* A number that the word leaves room for is found again in the two's complement.
LEMMA SignedAgain ==
  ASSUME NEW v \in Nat, v < 256 * Hidden
  PROVE  Unsigned(v) = v /\ Signed(v) = v /\ Signed(Unsigned(-v)) = -v
<1>1. Hidden \in Nat /\ Hidden > 0
  BY Sizes32
<1>2. Unsigned(v) = v
  BY <1>1, Sizes32 DEF Unsigned
<1>3. CASE v = 0
  BY <1>1, <1>2, <1>3, Sizes32 DEF Signed
<1>4. CASE v # 0
  <2>1. (-v) % (512 * Hidden) = 512 * Hidden - v
    <3> DEFINE p == 512 * Hidden
               r == (-v) % p
               q == (-v) \div p
    <3>1. p \in Nat /\ v < p /\ v > 0
      BY <1>1, <1>4
    <3> HIDE DEF p
    <3>2. r \in Nat /\ r < p /\ q \in Int /\ -v = p * q + r
      BY <3>1
    <3> HIDE DEF r, q
    <3>3. q = -1
      <4>1. CASE q >= 0
        <5>1. p * q >= 0
          BY <3>1, <3>2, <4>1
        <5> QED BY <3>1, <3>2, <5>1
      <4>2. CASE q <= -2
        <5>1. p * q <= p * (-2)
          BY <3>1, <3>2, <4>2
        <5> QED BY <3>1, <3>2, <5>1
      <4> QED BY <3>2, <4>1, <4>2
    <3> QED BY <3>1, <3>2, <3>3 DEF p, r
  <2>2. Unsigned(-v) = 512 * Hidden - v
    BY <2>1, Sizes32 DEF Unsigned
  <2> QED BY <1>1, <1>2, <2>2, Sizes32 DEF Signed
<1> QED BY <1>3, <1>4
-----------------------------------------------------------------------------
\* A number with more bits than the mantissa loses the Excess on the right;
\* the second loop of u32_to_basicreal stops there.
IsExcess(v, k) == /\ v \div 2 ^ k < 2 * Hidden
                  /\ \A j \in 0 .. k - 1 : v \div 2 ^ j >= 2 * Hidden

\* A number of at most eight bits too many has a count of those bits.
LEMMA ExcessExists ==
  ASSUME NEW v \in Nat, v < 256 * Hidden
  PROVE  \E k \in 0 .. 7 : IsExcess(v, k) /\ (k > 0 => v \div 2 ^ k >= Hidden)
<1> DEFINE S == {k \in Nat : v \div 2 ^ k < 2 * Hidden}
<1>1. Hidden \in Nat \ {0}
  BY Sizes32
<1>2. 7 \in S
  <2>1. 2 ^ 7 = 128
    OBVIOUS
  <2>2. v \div 128 < 2 * Hidden
    BY <1>1
  <2> QED BY <2>1, <2>2
<1>3. PICK k \in S : \A m \in S : k <= m
  <2>1. S # {} /\ S \in SUBSET Nat
    BY <1>2
  <2> HIDE DEF S
  <2> QED BY <2>1, LeastNumber
<1>4. k \in 0 .. 7 /\ v \div 2 ^ k < 2 * Hidden
  <2>1. k \in Nat /\ v \div 2 ^ k < 2 * Hidden
    OBVIOUS
  <2> HIDE DEF S
  <2> QED BY <1>2, <1>3, <2>1
<1>5. ASSUME NEW j \in 0 .. k - 1 PROVE v \div 2 ^ j >= 2 * Hidden
  <2>1. j \in Nat /\ j \notin S
    BY <1>3
  <2>2. 2 ^ j \in Nat \ {0}
    BY <2>1, PowerPositive
  <2>3. v \div 2 ^ j \in Nat
    BY <2>2, DivBound
  <2> QED BY <1>1, <2>1, <2>3
<1>6. ASSUME k > 0 PROVE v \div 2 ^ k >= Hidden
  <2>1. k - 1 \in Nat /\ k - 1 \in 0 .. k - 1 /\ (k - 1) + 1 = k
    BY <1>4, <1>6
  <2> DEFINE p == 2 ^ (k - 1)
  <2>2. 2 ^ k = 2 * p /\ p \in Nat \ {0}
    BY <2>1, PowerStep, PowerPositive
  <2>3. v \div p >= 2 * Hidden
    BY <1>5, <2>1
  <2> HIDE DEF p
  <2>4. v >= (2 * Hidden) * p
    BY <1>1, <2>2, <2>3, DivBound
  <2>5. v >= Hidden * (2 * p) /\ 2 * p \in Nat /\ 2 * p > 0
    BY <1>1, <2>2, <2>4
  <2> QED BY <1>1, <2>2, <2>5, DivBound
<1>7. IsExcess(v, k)
  BY <1>4, <1>5 DEF IsExcess
<1> QED BY <1>4, <1>6, <1>7

\* It has only one.
LEMMA ExcessUnique ==
  ASSUME NEW v \in Nat, NEW j \in Nat, NEW k \in Nat, IsExcess(v, j), IsExcess(v, k)
  PROVE  j = k
<1>1. Hidden \in Nat /\ 2 ^ j \in Nat \ {0} /\ 2 ^ k \in Nat \ {0}
  BY Sizes32, PowerPositive
<1>2. v \div 2 ^ j \in Nat /\ v \div 2 ^ k \in Nat
  BY <1>1, DivBound
<1>3. ~(j < k)
  BY <1>1, <1>2 DEF IsExcess
<1>4. ~(k < j)
  BY <1>1, <1>2 DEF IsExcess
<1> QED BY <1>3, <1>4

\* So the bits that u32_to_basicreal shifts out are those.
LEMMA ExcessChosen ==
  ASSUME NEW v \in Nat, NEW k \in 0 .. 7, IsExcess(v, k)
  PROVE  /\ Excess(v) = k
         /\ v >= Hidden - 1 => Normal(v) = <<v \div 2 ^ k, k>>
<1>1. Excess(v) = CHOOSE j \in 0 .. 9 : IsExcess(v, j)
  BY DEF Excess, IsExcess
<1>2. k \in 0 .. 9 /\ \A j \in 0 .. 9 : IsExcess(v, j) => j = k
  BY ExcessUnique
<1>3. Excess(v) = k
  BY <1>1, <1>2
<1>4. k \in 0 .. 8 /\ \A j \in 0 .. 8 : IsExcess(v, j) => j = k
  BY ExcessUnique
<1> DEFINE n == CHOOSE j \in 0 .. 8 : IsExcess(v, j)
<1>5. n = k
  BY <1>4
<1>6. v >= Hidden - 1 => Normal(v) = <<v \div 2 ^ n, n>>
  BY DEF Normal, IsExcess
<1> HIDE DEF n
<1> QED BY <1>3, <1>5, <1>6

\* A number with fewer bits is shifted to the left until its first bit stands
\* where the mantissa has its own.
IsRoom(v, k) == Hidden <= v * 2 ^ k /\ v * 2 ^ k < 2 * Hidden

\* A number that leaves room is shifted up by the one count that fills it.
LEMMA RoomChosen ==
  ASSUME NEW v \in Nat, v > 0, v < Hidden - 1
  PROVE  \E k \in 1 .. MantBits : IsRoom(v, k) /\ Normal(v) = <<v * 2 ^ k, -k>>
<1> DEFINE S == {k \in Nat : v * 2 ^ k >= Hidden}
<1>1. Hidden \in Nat \ {0} /\ MantBits \in Nat /\ Hidden = 2 ^ MantBits
  BY Sizes32 DEF Hidden
<1>2. MantBits \in S
  <2>1. v * Hidden >= Hidden
    BY <1>1
  <2> QED BY <1>1, <2>1
<1>3. PICK k \in S : \A m \in S : k <= m
  <2>1. S # {} /\ S \in SUBSET Nat
    BY <1>2
  <2> HIDE DEF S
  <2> QED BY <2>1, LeastNumber
<1>4. k \in Nat /\ k <= MantBits /\ v * 2 ^ k >= Hidden
  BY <1>2, <1>3
<1>5. ASSUME k = 0 PROVE FALSE
  <2>1. 2 ^ 0 = 1
    OBVIOUS
  <2>2. v * 1 >= Hidden
    BY <1>4, <1>5, <2>1, Zenon
  <2> QED BY <1>1, <2>2
<1>6. v * 2 ^ k < 2 * Hidden
  <2>1. k - 1 \in Nat /\ (k - 1) + 1 = k /\ k - 1 \notin S
    BY <1>3, <1>4, <1>5
  <2> DEFINE p == 2 ^ (k - 1)
  <2>2. 2 ^ k = 2 * p /\ p \in Nat
    BY <2>1, PowerStep, PowerType
  <2>3. v * p < Hidden
    BY <1>1, <2>1, <2>2
  <2> HIDE DEF p
  <2> QED BY <1>1, <2>2, <2>3
<1>7. k \in 1 .. MantBits /\ IsRoom(v, k)
  BY <1>1, <1>4, <1>5, <1>6 DEF IsRoom
<1> DEFINE n == CHOOSE j \in 1 .. MantBits : IsRoom(v, j)
<1>8. n \in 1 .. MantBits /\ IsRoom(v, n)
  BY <1>7
<1>9. Normal(v) = <<v * 2 ^ n, -n>>
  BY <1>1 DEF Normal, IsRoom
<1> HIDE DEF n
<1> QED BY <1>8, <1>9
-----------------------------------------------------------------------------
\* The word that u32_to_basicreal makes of a number's magnitude, of its sign,
\* and what basicreal_to_u32 makes of such a word.
LEMMA Encoded ==
  ASSUME NEW n \in Words, n # 0, NEW m \in Nat, NEW e \in Int, e >= -MantBits,
         Normal(Magnitude(n)) = <<m, e>>, Hidden <= m, m < 2 * Hidden
  PROVE  /\ U32ToBasicreal(n) \in Nat
         /\ Exponent(U32ToBasicreal(n)) = ExpOfOne + e
         /\ IsNegative(U32ToBasicreal(n)) <=> Signed(n) < 0
         /\ Value(U32ToBasicreal(n)) = m
<1>1. MantBits \in Nat \ {0} /\ Hidden \in Nat \ {0}
  BY Sizes32
<1>2. ExpOfOne + e \in Nat
  BY <1>1 DEF ExpOfOne
<1>3. m % Hidden = m - Hidden /\ m - Hidden \in Nat /\ m - Hidden < Hidden
  BY <1>1
<1> DEFINE s == IF Signed(n) < 0 THEN 1 ELSE 0
<1>4. U32ToBasicreal(n) = (m - Hidden) + (IF s = 1 THEN Hidden ELSE 0)
                            + (ExpOfOne + e) * 2 ^ (MantBits + 1)
  BY <1>3 DEF U32ToBasicreal
<1>5. s \in {0, 1} /\ (s = 1 <=> Signed(n) < 0)
  OBVIOUS
<1> HIDE DEF s
<1>6. /\ U32ToBasicreal(n) \in Nat
      /\ Exponent(U32ToBasicreal(n)) = ExpOfOne + e
      /\ IsNegative(U32ToBasicreal(n)) <=> s = 1
      /\ Value(U32ToBasicreal(n)) = (m - Hidden) + Hidden
  BY <1>2, <1>3, <1>4, <1>5, WordOf
<1> QED BY <1>1, <1>5, <1>6

\* From the mantissa, once shifted, to the number: the sign is put back.
LEMMA Decoded ==
  ASSUME NEW w, NEW v \in Nat, v < 256 * Hidden,
         Exponent(w) \notin {0, 128}, Shifted(w) = v
  PROVE  /\ Signed(BasicrealToU32(w)) = IF IsNegative(w) THEN -v ELSE v
         /\ ~IsNegative(w) => BasicrealToU32(w) = v
<1>1. 2 ^ (Width - 1) = 256 * Hidden /\ Hidden \in Nat \ {0}
  BY Sizes32
<1>2. Shifted(w) # -(2 ^ (Width - 1))
  BY <1>1
<1> QED BY <1>2, SignedAgain DEF BasicrealToU32

\* The magnitude of a word, for either sign.
LEMMA Magnitudes ==
  ASSUME NEW n \in Words, Magnitude(n) < 256 * Hidden
  PROVE  /\ Magnitude(n) \in Nat
         /\ Magnitude(n) = 0 <=> n = 0
         /\ Signed(n) = IF Signed(n) < 0 THEN -Magnitude(n) ELSE Magnitude(n)
<1>1. Hidden \in Nat \ {0} /\ n \in Nat /\ n < 512 * Hidden
  BY Sizes32 DEF Words
<1> QED BY <1>1, Sizes32 DEF Magnitude, Signed

\* A number with fewer bits than the mantissa is shifted there and back.
LEMMA Narrow ==
  ASSUME NEW n \in Words, Magnitude(n) > 0, Magnitude(n) < Hidden - 1
  PROVE  LET w == U32ToBasicreal(n)
         IN /\ w \in Nat
            /\ Shifted(w) = Magnitude(n)
            /\ IsNegative(w) <=> Signed(n) < 0
            /\ Exponent(w) \notin {0, 128}
<1> DEFINE v == Magnitude(n)
           w == U32ToBasicreal(n)
<1>1. Hidden \in Nat \ {0} /\ MantBits \in Nat \ {0}
  BY Sizes32
<1>2. v \in Nat /\ v > 0 /\ v < Hidden - 1 /\ n # 0
  <2>1. v \in Int
    BY <1>1, Sizes32 DEF Magnitude, Signed, Words
  <2>2. v < 256 * Hidden
    BY <1>1, <2>1
  <2> QED BY <1>1, <2>2, Magnitudes
<1> HIDE DEF v
<1>3. PICK j \in 1 .. MantBits : IsRoom(v, j) /\ Normal(v) = <<v * 2 ^ j, -j>>
  BY <1>2, RoomChosen
<1> DEFINE r == v * 2 ^ j
<1>4. 2 ^ j \in Nat \ {0} /\ r \in Nat /\ Hidden <= r /\ r < 2 * Hidden
  BY <1>2, <1>3, PowerPositive DEF IsRoom
<1>5. n # 0 /\ -j \in Int /\ -j >= -MantBits
  BY <1>1, <1>2
<1>6. /\ w \in Nat
      /\ Exponent(w) = ExpOfOne + -j
      /\ IsNegative(w) <=> Signed(n) < 0
      /\ Value(w) = r
  BY <1>3, <1>4, <1>5, Encoded DEF v
<1>7. Shifted(w) = v
  <2>1. Exponent(w) - ExpOfOne = -j /\ -j < 0 /\ -(-j) = j
    BY <1>1, <1>6 DEF ExpOfOne
  <2>2. j \in 0 .. MantBits + 8
    BY <1>1
  <2>3. r \div 2 ^ j = v
    <3> DEFINE p == 2 ^ j
    <3>1. p \in Nat /\ p > 0
      BY <1>4
    <3> HIDE DEF p
    <3>2. (p * v + 0) \div p = v
      BY <1>2, <3>1, Quotient
    <3>3. v * p = p * v + 0
      BY <1>2, <3>1
    <3> QED BY <3>2, <3>3 DEF p
  <2>4. Shifted(w) = WrappingShr(r, j)
    BY <1>6, <2>1 DEF Shifted
  <2> HIDE DEF r
  <2> QED BY <1>4, <2>2, <2>3, <2>4, Shr
<1>8. Exponent(w) \notin {0, 128}
  BY <1>1, <1>6 DEF ExpOfOne
<1> QED BY <1>6, <1>7, <1>8 DEF v

\* A number that is small enough is exact.
LEMMA SmallExact ==
  ASSUME NEW n \in Nat, n < Hidden - 1
  PROVE  U32ToBasicreal(n) \in Nat /\ BasicrealToU32(U32ToBasicreal(n)) = n
<1>1. Hidden \in Nat \ {0} /\ n \in Words /\ Signed(n) = n /\ Magnitude(n) = n
  BY Sizes32 DEF Words, Signed, Magnitude
<1>2. CASE n = 0
  BY <1>1, <1>2, Sizes32 DEF Exponent, BasicrealToU32, U32ToBasicreal
<1>3. CASE n > 0
  <2> DEFINE w == U32ToBasicreal(n)
  <2>1. w \in Nat /\ Shifted(w) = n /\ ~IsNegative(w) /\ Exponent(w) \notin {0, 128}
    BY <1>1, <1>3, Narrow
  <2> QED BY <1>1, <2>1, Decoded
<1> QED BY <1>2, <1>3

\* Every word is read as some word.
LEMMA DecodedType == ASSUME NEW w \in Nat PROVE BasicrealToU32(w) \in Nat
<1>1. Hidden \in Nat \ {0} /\ MantBits \in Nat \ {0} /\ Width \in Nat \ {0}
  BY Sizes32 DEF Width
<1>2. Value(w) \in Nat /\ Exponent(w) \in Int /\ Exponent(w) - ExpOfOne \in Int
  BY <1>1, Sizes32 DEF Value, Exponent, ExpOfOne
<1>3. ASSUME NEW k \in Int
      PROVE  WrappingShr(Value(w), k) \in Int /\ WrappingShl(Value(w), k) \in Int
  <2> DEFINE p == 2 ^ (k % Width)
             v == Value(w)
             s == 512 * Hidden
  <2>1. p \in Nat \ {0}
    <3>1. k % Width \in Nat
      BY <1>1
    <3> QED BY <3>1, PowerPositive
  <2>2. WrappingShr(v, k) = v \div p /\ WrappingShl(v, k) = Signed((v * p) % s)
    BY Sizes32 DEF WrappingShr, WrappingShl
  <2>3. v \in Nat /\ s \in Nat \ {0}
    BY <1>1, <1>2
  <2> HIDE DEF p, v, s
  <2>4. v \div p \in Int /\ (v * p) % s \in Int
    BY <2>1, <2>3
  <2> QED BY <1>1, <2>2, <2>4, Sizes32 DEF Signed, v
<1>4. Shifted(w) \in Int
  <2> DEFINE e == Exponent(w) - ExpOfOne
  <2>1. Shifted(w) = IF e < 0 THEN WrappingShr(Value(w), -e) ELSE WrappingShl(Value(w), e)
    BY DEF Shifted
  <2> HIDE DEF e
  <2>2. e \in Int /\ -e \in Int
    BY <1>2 DEF e
  <2> QED BY <1>3, <2>1, <2>2
<1>5. ASSUME NEW i \in Int PROVE Unsigned(i) \in Nat
  BY <1>1, Sizes32 DEF Unsigned
<1> QED BY <1>1, <1>4, <1>5 DEF BasicrealToU32

\* A small number that is taken for a BASIC real, as it is stored by lock and
\* unlock of a PCBoard base, is read as 0.
LEMMA SmallIsNoReal ==
  ASSUME NEW n \in Nat, n < 2 * Hidden
  PROVE  BasicrealToU32(n) = 0
<1>1. Exponent(n) = 0
  BY Sizes32 DEF Exponent
<1> QED BY <1>1 DEF BasicrealToU32

\* A number that goes through u32_to_basicreal and basicreal_to_u32 keeps its
\* sign and as many leading bits as a BASIC real has, whatever their number.
THEOREM NumbersKeepLeading == \A n \in Words : KeepsLeading(n)
<1> SUFFICES ASSUME NEW n \in Words, Magnitude(n) # Hidden - 1, Magnitude(n) < 256 * Hidden
             PROVE  LET v == Magnitude(n)
                        kept == (v \div 2 ^ Excess(v)) * 2 ^ Excess(v)
                    IN Signed(BasicrealToU32(U32ToBasicreal(n)))
                         = IF Signed(n) < 0 THEN -kept ELSE kept
  BY Sizes32 DEF KeepsLeading
<1> DEFINE v == Magnitude(n)
           w == U32ToBasicreal(n)
<1>1. Hidden \in Nat \ {0} /\ Hidden >= 2 /\ MantBits \in Nat \ {0}
  BY Sizes32
<1>2. v \in Nat /\ v < 256 * Hidden /\ v # Hidden - 1 /\ (v = 0 <=> n = 0)
  BY Magnitudes
<1> HIDE DEF v
<1>3. PICK k \in 0 .. 7 : IsExcess(v, k) /\ (k > 0 => v \div 2 ^ k >= Hidden)
  BY <1>2, ExcessExists
<1>4. Excess(v) = k /\ (v >= Hidden - 1 => Normal(v) = <<v \div 2 ^ k, k>>)
  BY <1>2, <1>3, ExcessChosen
<1> DEFINE m == v \div 2 ^ k
           kept == m * 2 ^ k
<1>5. m \in Nat /\ kept \in Nat /\ kept <= v /\ 2 ^ k \in Nat \ {0}
  BY <1>2, DivBound, PowerPositive
<1>6. m < 2 * Hidden
  BY <1>3 DEF IsExcess
<1>7. CASE n = 0
  <2>1. Exponent(0) = 0
    BY <1>1, Sizes32 DEF Exponent
  <2>2. BasicrealToU32(U32ToBasicreal(n)) = 0 /\ Signed(n) = 0 /\ Signed(0) = 0
    BY <1>1, <1>7, <2>1, Sizes32 DEF BasicrealToU32, U32ToBasicreal, Signed
  <2>3. kept = 0
    BY <1>2, <1>5, <1>7
  <2> HIDE DEF kept
  <2> QED BY <1>4, <2>2, <2>3 DEF v, kept
<1>8. CASE v >= Hidden
  <2>1. 2 ^ 0 = 1
    OBVIOUS
  <2>2. k = 0 => v \div 2 ^ k = v
    <3>1. v \div 1 = v
      BY <1>2
    <3> QED BY <2>1, <3>1, Zenon
  <2>3. Normal(v) = <<m, k>> /\ m >= Hidden
    BY <1>1, <1>2, <1>3, <1>4, <1>8, <2>2
  <2>4. n # 0 /\ k >= -MantBits /\ k \in Int
    BY <1>1, <1>2, <1>8
  <2>5. /\ Exponent(w) = ExpOfOne + k
        /\ IsNegative(w) <=> Signed(n) < 0
        /\ Value(w) = m
    BY <1>5, <1>6, <2>3, <2>4, Encoded DEF v
  <2>6. Shifted(w) = kept
    <3>1. Exponent(w) - ExpOfOne = k /\ k >= 0
      BY <1>1, <2>5 DEF ExpOfOne
    <3>2. k \in 0 .. MantBits + 8 /\ m * 2 ^ k < 256 * Hidden
      BY <1>1, <1>2, <1>5
    <3> QED BY <1>5, <2>5, <3>1, <3>2, Shl DEF Shifted
  <2>7. Exponent(w) \notin {0, 128} /\ kept < 256 * Hidden
    BY <1>1, <1>2, <1>5, <2>5 DEF ExpOfOne
  <2>8. Signed(BasicrealToU32(w)) = IF IsNegative(w) THEN -kept ELSE kept
    BY <1>5, <2>6, <2>7, Decoded
  <2> QED BY <1>4, <2>5, <2>8 DEF v
<1>9. CASE v > 0 /\ v < Hidden - 1
  <2>1. Shifted(w) = v /\ Exponent(w) \notin {0, 128} /\ (IsNegative(w) <=> Signed(n) < 0)
    BY <1>2, <1>9, Narrow DEF v
  <2>2. Signed(BasicrealToU32(w)) = IF IsNegative(w) THEN -v ELSE v
    BY <1>2, <2>1, Decoded
  <2>3. kept = v
    <3>1. k = 0
      BY <1>1, <1>2, <1>3, <1>5, <1>9, DivBound
    <3>2. 2 ^ 0 = 1 /\ (v \div 1) * 1 = v
      BY <1>2
    <3> QED BY <3>1, <3>2, Zenon
  <2> QED BY <1>4, <2>1, <2>2, <2>3 DEF v
<1> QED BY <1>1, <1>2, <1>7, <1>8, <1>9

\* basicreal_to_u32 gives the whole part of what any word stands for.
THEOREM WordsDecodeWhole == \A w \in Words : DecodesWhole(w)
<1> SUFFICES ASSUME NEW w \in Words, Whole(w)
             PROVE  Signed(BasicrealToU32(w)) = IF IsNegative(w) THEN -Meant(w) ELSE Meant(w)
  BY DEF DecodesWhole
<1> DEFINE v == Value(w)
           x == Exponent(w) - 129
           e == Exponent(w) - ExpOfOne
<1>1. Hidden \in Nat \ {0} /\ MantBits \in Nat \ {0} /\ Hidden = 2 ^ MantBits
  BY Sizes32 DEF Hidden
<1>2. v \in Nat /\ v < 2 * Hidden
  BY <1>1 DEF Value, Words
<1>3. Exponent(w) \in Int /\ Exponent(w) > 128 /\ Exponent(w) < 137 + MantBits
  BY <1>1, Sizes32 DEF Whole, Width, Exponent, Words
<1>4. x \in Nat /\ x < MantBits + 8 /\ e = x - MantBits
  BY <1>1, <1>3 DEF ExpOfOne
<1>5. Meant(w) = (v * 2 ^ x) \div Hidden
  BY DEF Meant
<1>6. ASSUME e >= 0 PROVE Shifted(w) = Meant(w) /\ Meant(w) \in Nat /\ Meant(w) < 256 * Hidden
  <2>1. e \in 0 .. 7 /\ x = MantBits + e
    BY <1>1, <1>4, <1>6
  <2> DEFINE p == 2 ^ e
  <2> HIDE DEF e, x
  <2>2. p \in Nat \ {0} /\ 2 ^ x = Hidden * p
    <3>1. 2 ^ (MantBits + e) = 2 ^ MantBits * 2 ^ e
      BY <1>1, <2>1, PowerSum
    <3>2. 2 ^ x = Hidden * p
      BY <1>1, <2>1, <3>1, Zenon
    <3> QED BY <2>1, <3>2, PowerPositive
  <2>3. p * 2 ^ (7 - e) = 128 /\ 2 ^ (7 - e) \in Nat \ {0}
    <3>1. e \in Nat /\ 7 - e \in Nat /\ e + (7 - e) = 7
      BY <2>1
    <3>2. 2 ^ (e + (7 - e)) = 2 ^ e * 2 ^ (7 - e)
      BY <3>1, PowerSum
    <3>3. 2 ^ 7 = 128
      OBVIOUS
    <3>4. 2 ^ 7 = 2 ^ e * 2 ^ (7 - e)
      BY <3>1, <3>2, Zenon
    <3>5. 2 ^ (7 - e) \in Nat \ {0}
      BY <3>1, PowerPositive
    <3> QED BY <3>3, <3>4, <3>5
  <2>4. p <= 128
    <3> DEFINE q == 2 ^ (7 - e)
    <3>1. q \in Nat /\ q >= 1 /\ p * q = 128
      BY <2>3
    <3> HIDE DEF q, p
    <3>2. p * q >= p * 1
      BY <2>2, <3>1
    <3> QED BY <2>2, <3>1, <3>2
  <2> HIDE DEF p, v
  <2>5. v * p \in Nat /\ v * p < 256 * Hidden
    <3>1. v * p <= v * 128
      BY <1>2, <2>2, <2>4
    <3> QED BY <1>1, <1>2, <2>2, <3>1
  <2>6. Meant(w) = v * p
    <3>1. v * (Hidden * p) = Hidden * (v * p) + 0
      BY <1>1, <1>2, <2>2
    <3>2. (Hidden * (v * p) + 0) \div Hidden = v * p
      BY <1>1, <2>5, Quotient
    <3> QED BY <1>5, <2>2, <3>1, <3>2
  <2>7. Shifted(w) = WrappingShl(v, e)
    <3>1. Shifted(w) = IF e < 0 THEN WrappingShr(v, -e) ELSE WrappingShl(v, e)
      BY DEF Shifted, v, e
    <3>2. ~(e < 0)
      BY <2>1
    <3> QED BY <3>1, <3>2
  <2>8. e \in 0 .. MantBits + 8 /\ v * 2 ^ e < 256 * Hidden
    BY <1>1, <2>1, <2>5 DEF p
  <2>9. WrappingShl(v, e) = v * p
    BY <1>2, <2>8, Shl DEF p
  <2> QED BY <2>5, <2>6, <2>7, <2>9
<1>7. ASSUME e < 0 PROVE Shifted(w) = Meant(w) /\ Meant(w) \in Nat /\ Meant(w) < 256 * Hidden
  <2>1. -e \in Nat /\ -e \in 0 .. MantBits + 8 /\ x + -e = MantBits
    BY <1>1, <1>4, <1>7
  <2> DEFINE p == 2 ^ (-e)
             q == 2 ^ x
  <2>2. p \in Nat \ {0} /\ q \in Nat \ {0} /\ Hidden = q * p
    <3>1. 2 ^ (x + -e) = q * p
      BY <1>4, <2>1, PowerSum
    <3>2. 2 ^ (x + -e) = Hidden
      BY <1>1, <2>1, Zenon
    <3> QED BY <1>4, <2>1, <3>1, <3>2, PowerPositive
  <2>3. Shifted(w) = v \div p
    <3>1. Shifted(w) = WrappingShr(v, -e)
      BY <1>7 DEF Shifted
    <3> HIDE DEF v, e
    <3>2. WrappingShr(v, -e) = v \div 2 ^ (-e)
      BY <1>2, <2>1, Shr
    <3> QED BY <3>1, <3>2
  <2> HIDE DEF p, q, v
  <2>4. (v * q) \div (q * p) = v \div p
    <3> DEFINE d == v \div p
               r == v % p
    <3>1. d \in Nat /\ r \in Nat /\ r < p /\ v = p * d + r
      BY <1>2, <2>2
    <3> HIDE DEF d, r
    <3>2. v * q = (q * p) * d + q * r /\ q * r \in Nat /\ q * p \in Nat
      BY <2>2, <3>1
    <3>3. q * r < q * p
      BY <2>2, <3>1
    <3>4. ((q * p) * d + q * r) \div (q * p) = d
      <4> DEFINE a == q * p
                 b == q * r
      <4>1. a \in Nat /\ b \in Nat /\ b < a
        BY <3>2, <3>3
      <4> HIDE DEF a, b
      <4>2. (a * d + b) \div a = d
        BY <3>1, <4>1, Quotient
      <4> QED BY <4>2 DEF a, b
    <3> QED BY <3>2, <3>4 DEF d
  <2>5. Meant(w) = v \div p
    BY <1>5, <2>2, <2>4 DEF q
  <2>6. v \div p \in Nat /\ v \div p <= v
    <3> DEFINE d == v \div p
    <3>1. d \in Nat /\ d * p <= v
      BY <1>2, <2>2, DivBound
    <3> HIDE DEF d
    <3>2. d * p >= d * 1
      BY <2>2, <3>1
    <3> QED BY <1>2, <2>2, <3>1, <3>2 DEF d
  <2> QED BY <1>1, <1>2, <2>3, <2>5, <2>6
<1>8. Shifted(w) = Meant(w) /\ Meant(w) \in Nat /\ Meant(w) < 256 * Hidden
  BY <1>1, <1>4, <1>6, <1>7
<1> QED BY <1>3, <1>8, Decoded

-----------------------------------------------------------------------------
(***************************************************************************)
(* Sequences: two joined, the bounded ones, and those that are given by a  *)
(* function.                                                               *)
(***************************************************************************)

\* The elements of two sequences that are joined.
LEMMA Joined ==
  ASSUME NEW S, NEW s \in Seq(S), NEW t \in Seq(S)
  PROVE  /\ s \o t \in Seq(S) /\ Len(s \o t) = Len(s) + Len(t)
         /\ \A i \in 1 .. Len(s) : (s \o t)[i] = s[i]
         /\ \A i \in 1 .. Len(t) : (s \o t)[Len(s) + i] = t[i]
<1> DEFINE st == s \o t
<1>1. /\ st \in Seq(S) /\ Len(st) = Len(s) + Len(t)
      /\ \A i \in 1 .. Len(s) + Len(t) : st[i] = IF i <= Len(s) THEN s[i] ELSE t[i - Len(s)]
  BY ConcatProperties
<1>2. Len(s) \in Nat /\ Len(t) \in Nat
  OBVIOUS
<1> HIDE DEF st
<1>3. \A i \in 1 .. Len(s) : st[i] = s[i]
  BY <1>1, <1>2
<1>4. ASSUME NEW i \in 1 .. Len(t) PROVE st[Len(s) + i] = t[i]
  <2> DEFINE j == Len(s) + i
  <2>1. j \in 1 .. Len(s) + Len(t) /\ ~(j <= Len(s)) /\ j - Len(s) = i
    BY <1>2
  <2> HIDE DEF j
  <2>2. st[j] = t[i]
    BY <1>1, <2>1
  <2> QED BY <2>2 DEF j
<1> QED BY <1>1, <1>3, <1>4 DEF st

\* A sequence of bounded length is a sequence.
LEMMA BoundedIsSeq ==
  ASSUME NEW S, NEW n \in Nat, NEW s \in BoundedSeq(S, n) PROVE s \in Seq(S)
<1>1. PICK m \in 0 .. n : s \in [1 .. m -> S]
  BY Zenon DEF BoundedSeq, SeqOf
<1>2. m \in Nat
  OBVIOUS
<1> QED BY <1>1, <1>2, SeqDef

\* A row of lines is a sequence of them.
LEMMA RowIsSeq ==
  ASSUME NEW S, NEW n \in Nat, NEW f, f \in [1 .. n -> S]
  PROVE  f \in Seq(S) /\ Len(f) = n
<1>1. f \in Seq(S)
  BY SeqDef
<1> QED BY <1>1, LenProperties

-----------------------------------------------------------------------------
(***************************************************************************)
(* Recursion. A function that is defined by itself, from a smaller         *)
(* argument, exists; so do the folds of the community modules, which are   *)
(* such functions of sets of indices. A fold has an operator for a         *)
(* parameter, so its steps are derived anew for each: from Steps,          *)
(* FoldsLeft and FoldsBy.                                                  *)
(***************************************************************************)

\* From each i of D outside of stop a step leads to next[i], where mu is less.
GoesDown(D, S, base, g, stop, next, mu, M) ==
  /\ base \in [D -> S] /\ g \in [D \X S -> S]
  /\ stop \in SUBSET D /\ next \in [D -> D] /\ mu \in [D -> Nat] /\ M \in Nat
  /\ \A i \in D : mu[i] <= M
  /\ \A i \in D \ stop : mu[next[i]] < mu[i]

\* A function may be defined by recursion over steps that go down.
LEMMA Recursion ==
  ASSUME NEW D, NEW S, NEW base, NEW g, NEW stop, NEW next, NEW mu, NEW M,
         GoesDown(D, S, base, g, stop, next, mu, M)
  PROVE  \E f \in [D -> S] :
           \A i \in D : f[i] = IF i \in stop THEN base[i] ELSE g[<<i, f[next[i]]>>]
<1> DEFINE Made(f, i) == f[i] = IF i \in stop THEN base[i] ELSE g[<<i, f[next[i]]>>]
           P == {m \in Nat : \E f \in [D -> S] : \A i \in D : mu[i] < m => Made(f, i)}
<1> USE DEF GoesDown
<1>1. 0 \in P
  <2>1. \A i \in D : ~(mu[i] < 0)
    OBVIOUS
  <2> QED BY <2>1
<1>2. ASSUME NEW m \in Nat, m \in P PROVE m + 1 \in P
  <2>1. PICK f \in [D -> S] : \A i \in D : mu[i] < m => Made(f, i)
    BY <1>2
  <2> DEFINE h == [i \in D |-> IF i \in stop THEN base[i] ELSE g[<<i, f[next[i]]>>]]
  <2>2. h \in [D -> S]
    <3>1. \A i \in D : base[i] \in S /\ g[<<i, f[next[i]]>>] \in S
      OBVIOUS
    <3> QED BY <3>1
  <2>3. ASSUME NEW i \in D, mu[i] < m + 1 PROVE Made(h, i)
    <3>1. CASE i \in stop
      BY <3>1
    <3>2. CASE i \notin stop
      <4>1. next[i] \in D /\ mu[next[i]] < m
        BY <2>3, <3>2
      <4>2. f[next[i]] = h[next[i]]
        BY <2>1, <4>1
      <4> QED BY <3>2, <4>2
    <3> QED BY <3>1, <3>2
  <2> HIDE DEF h, Made
  <2> QED BY <2>2, <2>3
<1> HIDE DEF P
<1>3. M + 1 \in P
  <2>1. M + 1 \in Nat
    OBVIOUS
  <2> QED BY <1>1, <1>2, <2>1, NatInduct
<1>4. PICK f \in [D -> S] : \A i \in D : mu[i] < M + 1 => Made(f, i)
  BY <1>3 DEF P
<1>5. \A i \in D : mu[i] < M + 1
  OBVIOUS
<1> QED BY <1>4, <1>5

\* What a step function must be: it goes from S to S, n times, from b.
Steps(n, S, b, g) == n \in Nat /\ b \in S /\ g \in [(0 .. n) \X S -> S]

\* In particular over the numbers from 0 to n.
LEMMA Iterate ==
  ASSUME NEW n, NEW S, NEW b, NEW g, Steps(n, S, b, g)
  PROVE  \E f \in [0 .. n -> S] : f[0] = b /\ \A i \in 1 .. n : f[i] = g[<<i, f[i - 1]>>]
<1> DEFINE D == 0 .. n
           base == [i \in D |-> b]
           stop == {0}
           next == [i \in D |-> IF i = 0 THEN 0 ELSE i - 1]
           mu == [i \in D |-> i]
<1> USE DEF Steps
<1>1. /\ base \in [D -> S] /\ stop \in SUBSET D /\ next \in [D -> D] /\ mu \in [D -> Nat]
      /\ \A i \in D : mu[i] <= n
      /\ \A i \in D \ stop : mu[next[i]] < mu[i]
  OBVIOUS
<1>2. \A i \in 1 .. n : i \in D /\ i \notin stop /\ next[i] = i - 1
  OBVIOUS
<1>3. 0 \in stop /\ 0 \in D /\ base[0] = b
  OBVIOUS
<1>4. g \in [D \X S -> S]
  OBVIOUS
<1> HIDE DEF D, base, stop, next, mu
<1>5. PICK f \in [D -> S] :
        \A i \in D : f[i] = IF i \in stop THEN base[i] ELSE g[<<i, f[next[i]]>>]
  <2>1. GoesDown(D, S, base, g, stop, next, mu, n)
    BY <1>1, <1>4 DEF GoesDown
  <2> QED BY <2>1, Recursion
<1>6. f[0] = b /\ \A i \in 1 .. n : f[i] = g[<<i, f[i - 1]>>]
  BY <1>2, <1>3, <1>5
<1> QED BY <1>5, <1>6 DEF D

\* The largest of some numbers up to n.
LEMMA MaxOf ==
  ASSUME NEW n \in Nat, NEW s \in SUBSET (1 .. n), s # {}
  PROVE  Max(s) \in s /\ \A x \in s : x <= Max(s)
<1> DEFINE T == {n - x : x \in s}
<1>1. T \in SUBSET Nat /\ T # {}
  <2>1. \A x \in s : n - x \in Nat
    OBVIOUS
  <2> QED BY <2>1
<1>2. PICK k \in T : \A m \in T : k <= m
  <2> HIDE DEF T
  <2> QED BY <1>1, LeastNumber
<1>3. PICK x \in s : k = n - x
  OBVIOUS
<1>4. \A y \in s : y <= x
  <2> TAKE y \in s
  <2>1. n - y \in T
    OBVIOUS
  <2>2. n - x <= n - y
    BY <1>2, <1>3, <2>1
  <2> QED BY <2>2
<1> QED BY <1>3, <1>4 DEF Max

\* The smallest.
LEMMA MinOf ==
  ASSUME NEW n \in Nat, NEW s \in SUBSET (1 .. n), s # {}
  PROVE  Min(s) \in s /\ \A x \in s : Min(s) <= x
<1>1. s \in SUBSET Nat
  OBVIOUS
<1>2. PICK k \in s : \A m \in s : k <= m
  BY <1>1, LeastNumber
<1> QED BY <1>2 DEF Min

\* The largest of 1 to i.
LEMMA MaxOfPrefix ==
  ASSUME NEW n \in Nat, NEW i \in 1 .. n
  PROVE  Max(1 .. i) = i /\ (1 .. i) \ {i} = 1 .. i - 1
<1>1. 1 .. i \in SUBSET (1 .. n) /\ 1 .. i # {} /\ i \in 1 .. i
  OBVIOUS
<1>2. Max(1 .. i) \in 1 .. i /\ \A x \in 1 .. i : x <= Max(1 .. i)
  BY <1>1, MaxOf
<1> QED BY <1>1, <1>2

\* A fold combines the elements of D one by one, in the order of pick.
Folds(D, S, b, g, pick) ==
  /\ IsFiniteSet(D) /\ b \in S /\ g \in [D \X S -> S]
  /\ \A s \in SUBSET D : s # {} => pick[s] \in s

\* What h is, when it is the fold of every set of elements of D.
IsFold(h, D, S, b, g, pick) ==
  /\ h \in [SUBSET D -> S] /\ h[{}] = b
  /\ \A s \in SUBSET D : s # {} => h[s] = g[<<pick[s], h[s \ {pick[s]}]>>]

\* A fold of finitely many elements exists.
LEMMA FoldExists ==
  ASSUME NEW D, NEW S, NEW b, NEW g, NEW pick, Folds(D, S, b, g, pick)
  PROVE  \E h : IsFold(h, D, S, b, g, pick)
<1> DEFINE E == SUBSET D
           base == [s \in E |-> b]
           stop == {{}}
           next == [s \in E |-> IF s = {} THEN {} ELSE s \ {pick[s]}]
           mu == [s \in E |-> Cardinality(s)]
           G == [p \in E \X S |-> IF p[1] = {} THEN b ELSE g[<<pick[p[1]], p[2]>>]]
<1>1. /\ IsFiniteSet(D) /\ b \in S /\ g \in [D \X S -> S]
      /\ \A s \in E : s # {} => pick[s] \in s /\ pick[s] \in D
  BY DEF Folds
<1>2. base \in [E -> S] /\ stop \in SUBSET E /\ next \in [E -> E]
  BY <1>1
<1>3. \A s \in E : IsFiniteSet(s) /\ Cardinality(s) \in Nat /\ Cardinality(s) <= Cardinality(D)
  BY <1>1, FS_Subset, FS_CardinalityType
<1>4. mu \in [E -> Nat] /\ (\A s \in E : mu[s] <= Cardinality(D)) /\ Cardinality(D) \in Nat
  BY <1>1, <1>3, FS_CardinalityType
<1>5. G \in [E \X S -> S]
  <2>1. \A s \in E, v \in S : s # {} => g[<<pick[s], v>>] \in S
    BY <1>1
  <2> HIDE DEF E
  <2> QED BY <1>1, <2>1
<1>6. \A s \in E : s # {} => mu[next[s]] < mu[s]
  <2> SUFFICES ASSUME NEW s \in E, s # {} PROVE mu[next[s]] < mu[s]
    OBVIOUS
  <2>1. pick[s] \in s /\ s \ {pick[s]} \in E /\ next[s] = s \ {pick[s]}
    BY <1>1
  <2>2. Cardinality(s \ {pick[s]}) = Cardinality(s) - 1
    BY <1>3, <2>1, FS_RemoveElement
  <2>3. mu[next[s]] = Cardinality(s) - 1 /\ mu[s] = Cardinality(s) /\ Cardinality(s) \in Nat
    BY <1>3, <2>1, <2>2
  <2> HIDE DEF mu, next
  <2> QED BY <2>3
<1>7. \A s \in E, v \in S : s # {} => next[s] = s \ {pick[s]} /\ G[<<s, v>>] = g[<<pick[s], v>>]
  OBVIOUS
<1>8. {} \in E /\ base[{}] = b /\ \A s \in E \ stop : s # {}
  OBVIOUS
<1>9. stop = {{}}
  OBVIOUS
<1> HIDE DEF E, base, stop, next, mu, G
<1>10. PICK h \in [E -> S] :
         \A s \in E : h[s] = IF s \in stop THEN base[s] ELSE G[<<s, h[next[s]]>>]
  <2>1. GoesDown(E, S, base, G, stop, next, mu, Cardinality(D))
    BY <1>2, <1>4, <1>5, <1>6, <1>8 DEF GoesDown
  <2> QED BY <2>1, Recursion
<1>11. h[{}] = b
  BY <1>8, <1>9, <1>10
<1>12. ASSUME NEW s \in E, s # {} PROVE h[s] = g[<<pick[s], h[s \ {pick[s]}]>>]
  <2>1. s \notin stop /\ next[s] \in E
    BY <1>2, <1>9, <1>12
  <2>2. h[next[s]] \in S
    BY <2>1
  <2>3. h[s] = G[<<s, h[next[s]]>>]
    BY <1>10, <2>1
  <2> QED BY <1>7, <1>12, <2>2, <2>3
<1> QED BY <1>10, <1>11, <1>12 DEF E, IsFold

\* The fold of a sequence from the left: the largest index is taken last.
IsLeftFold(h, n, S, b, g) ==
  /\ h \in [SUBSET (1 .. n) -> S] /\ h[{}] = b
  /\ \A s \in SUBSET (1 .. n) : s # {} =>
       Max(s) \in 1 .. n /\ h[s] = g[<<Max(s), h[s \ {Max(s)}]>>]

\* A fold from the left.
LEMMA FoldsLeft ==
  ASSUME NEW n, NEW S, NEW b, NEW g, Steps(n, S, b, g)
  PROVE  \E h : IsLeftFold(h, n, S, b, g)
<1> DEFINE D == 1 .. n
           pick == [s \in SUBSET D |-> Max(s)]
           G == [p \in D \X S |-> g[p]]
<1>1. n \in Nat /\ b \in S /\ G \in [D \X S -> S]
  BY DEF Steps
<1>2. \A s \in SUBSET D : s # {} => Max(s) \in s /\ pick[s] = Max(s)
  BY <1>1, MaxOf
<1>3. IsFiniteSet(D)
  BY <1>1, FS_Interval
<1>4. \A i \in D, v \in S : G[<<i, v>>] = g[<<i, v>>]
  OBVIOUS
<1> HIDE DEF D, pick, G
<1>5. PICK h \in [SUBSET D -> S] :
        h[{}] = b /\ \A s \in SUBSET D : s # {} => h[s] = G[<<pick[s], h[s \ {pick[s]}]>>]
  <2>1. Folds(D, S, b, G, pick)
    BY <1>1, <1>2, <1>3 DEF Folds
  <2>2. PICK h : IsFold(h, D, S, b, G, pick)
    BY <2>1, FoldExists
  <2> QED BY <2>2 DEF IsFold
<1>6. ASSUME NEW s \in SUBSET D, s # {}
      PROVE  Max(s) \in D /\ h[s] = g[<<Max(s), h[s \ {Max(s)}]>>]
  <2>1. Max(s) \in D /\ pick[s] = Max(s) /\ s \ {Max(s)} \in SUBSET D
    BY <1>2, <1>6
  <2>2. h[s \ {Max(s)}] \in S
    BY <2>1
  <2> QED BY <1>4, <1>5, <1>6, <2>1, <2>2
<1> QED BY <1>5, <1>6 DEF D, IsLeftFold

\* The fold of a sequence from the right: the smallest index is taken last.
IsRightFold(h, n, S, b, g) ==
  /\ h \in [SUBSET (1 .. n) -> S] /\ h[{}] = b
  /\ \A s \in SUBSET (1 .. n) : s # {} =>
       Min(s) \in 1 .. n /\ h[s] = g[<<Min(s), h[s \ {Min(s)}]>>]

\* A fold from the right.
LEMMA FoldsRight ==
  ASSUME NEW n, NEW S, NEW b, NEW g, Steps(n, S, b, g)
  PROVE  \E h : IsRightFold(h, n, S, b, g)
<1> DEFINE D == 1 .. n
           pick == [s \in SUBSET D |-> Min(s)]
           G == [p \in D \X S |-> g[p]]
<1>1. n \in Nat /\ b \in S /\ G \in [D \X S -> S]
  BY DEF Steps
<1>2. \A s \in SUBSET D : s # {} => Min(s) \in s /\ pick[s] = Min(s)
  BY <1>1, MinOf
<1>3. IsFiniteSet(D)
  BY <1>1, FS_Interval
<1>4. \A i \in D, v \in S : G[<<i, v>>] = g[<<i, v>>]
  OBVIOUS
<1> HIDE DEF D, pick, G
<1>5. PICK h \in [SUBSET D -> S] :
        h[{}] = b /\ \A s \in SUBSET D : s # {} => h[s] = G[<<pick[s], h[s \ {pick[s]}]>>]
  <2>1. Folds(D, S, b, G, pick)
    BY <1>1, <1>2, <1>3 DEF Folds
  <2>2. PICK h : IsFold(h, D, S, b, G, pick)
    BY <2>1, FoldExists
  <2> QED BY <2>2 DEF IsFold
<1>6. ASSUME NEW s \in SUBSET D, s # {}
      PROVE  Min(s) \in D /\ h[s] = g[<<Min(s), h[s \ {Min(s)}]>>]
  <2>1. Min(s) \in D /\ pick[s] = Min(s) /\ s \ {Min(s)} \in SUBSET D
    BY <1>2, <1>6
  <2>2. h[s \ {Min(s)}] \in S
    BY <2>1
  <2> QED BY <1>4, <1>5, <1>6, <2>1, <2>2
<1> QED BY <1>5, <1>6 DEF D, IsRightFold

\* The smallest of i to n.
LEMMA MinOfSuffix ==
  ASSUME NEW n \in Nat, NEW i \in 1 .. n
  PROVE  Min(i .. n) = i /\ (i .. n) \ {i} = i + 1 .. n
<1>1. i .. n \in SUBSET (1 .. n) /\ i .. n # {} /\ i \in i .. n
  OBVIOUS
<1>2. Min(i .. n) \in i .. n /\ \A x \in i .. n : Min(i .. n) <= x
  BY <1>1, MinOf
<1> QED BY <1>1, <1>2

\* A row of sequences is joined one by one.
LEMMA Flattened ==
  ASSUME NEW S, NEW ss \in Seq(Seq(S))
  PROVE  \E F \in [0 .. Len(ss) -> Seq(S)] :
           /\ F[0] = << >>
           /\ \A i \in 1 .. Len(ss) : F[i] = F[i - 1] \o ss[i]
           /\ FlattenSeq(ss) = F[Len(ss)]
<1> DEFINE n == Len(ss)
           g == [p \in (0 .. n) \X Seq(S) |-> IF p[1] = 0 THEN p[2] ELSE p[2] \o ss[p[1]]]
<1>1. n \in Nat /\ \A i \in 1 .. n : ss[i] \in Seq(S)
  BY LenProperties, ElementOfSeq
<1>2. << >> \in Seq(S)
  BY EmptySeq
<1> HIDE DEF n
<1>3. g \in [(0 .. n) \X Seq(S) -> Seq(S)]
  <2>1. \A i \in 1 .. n, s \in Seq(S) : s \o ss[i] \in Seq(S)
    BY <1>1, ConcatProperties
  <2> QED BY <2>1
<1>4. \A i \in 1 .. n, s \in Seq(S) : g[<<i, s>>] = s \o ss[i]
  <2> TAKE i \in 1 .. n, s \in Seq(S)
  <2>1. i \in 0 .. n /\ i # 0
    BY <1>1
  <2> QED BY <2>1
<1> HIDE DEF g
<1>5. PICK F \in [0 .. n -> Seq(S)] : F[0] = << >> /\ \A i \in 1 .. n : F[i] = g[<<i, F[i - 1]>>]
  <2>1. Steps(n, Seq(S), << >>, g)
    BY <1>1, <1>2, <1>3 DEF Steps
  <2> QED BY <2>1, Iterate
<1>6. \A i \in 1 .. n : F[i] = F[i - 1] \o ss[i]
  <2> TAKE i \in 1 .. n
  <2>1. i - 1 \in 0 .. n
    BY <1>1
  <2>2. F[i - 1] \in Seq(S)
    BY <1>5, <2>1
  <2> QED BY <1>4, <1>5, <2>2
<1>7. FlattenSeq(ss) = F[n]
  <2>1. CASE n = 0
    <3>1. ss = << >> /\ FlattenSeq(ss) = ss
      BY <2>1 DEF FlattenSeq, n
    <3> QED BY <1>5, <2>1, <3>1
  <2>2. CASE n # 0
    <3> DEFINE Rhs(f) == [i \in 1 .. n |-> IF i = 1 THEN ss[i] ELSE f[i - 1] \o ss[i]]
               ff == CHOOSE f : f = Rhs(f)
               Fr == [i \in 1 .. n |-> F[i]]
    <3>1. FlattenSeq(ss) = ff[n]
      BY <2>2 DEF FlattenSeq, n
    <3>2. F[1] = ss[1]
      <4>1. 1 \in 1 .. n /\ F[1] = << >> \o ss[1] /\ ss[1] \in Seq(S)
        <5>1. 1 \in 1 .. n /\ 1 - 1 = 0
          BY <1>1, <2>2
        <5> QED BY <1>1, <1>5, <1>6, <5>1
      <4> QED BY <4>1, ConcatEmptySeq
    <3>3. Fr = Rhs(Fr)
      <4>1. ASSUME NEW i \in 1 .. n PROVE F[i] = IF i = 1 THEN ss[i] ELSE Fr[i - 1] \o ss[i]
        <5>1. CASE i = 1
          BY <3>2, <5>1
        <5>2. CASE i # 1
          <6>1. i - 1 \in 1 .. n
            BY <1>1, <5>2
          <6> QED BY <1>6, <5>2, <6>1
        <5> QED BY <5>1, <5>2
      <4> QED BY <4>1
    <3> HIDE DEF Rhs, Fr
    <3>4. ff = Rhs(ff)
      BY <3>3
    <3> DEFINE P == {i \in Nat : i < n => ff[i + 1] = F[i + 1]}
    <3> HIDE DEF ff
    <3>5. 0 \in P
      <4>1. 1 \in 1 .. n
        BY <1>1, <2>2
      <4>2. ff[1] = ss[1]
        BY <3>4, <4>1 DEF Rhs
      <4> QED BY <3>2, <4>2
    <3>6. ASSUME NEW k \in Nat, k \in P PROVE k + 1 \in P
      <4> SUFFICES ASSUME k + 1 < n PROVE ff[(k + 1) + 1] = F[(k + 1) + 1]
        OBVIOUS
      <4> DEFINE i == (k + 1) + 1
      <4>1. i \in 1 .. n /\ i # 1 /\ i - 1 = k + 1 /\ k < n
        BY <1>1
      <4> HIDE DEF i
      <4>2. ff[i] = ff[i - 1] \o ss[i] /\ F[i] = F[i - 1] \o ss[i]
        BY <1>6, <3>4, <4>1 DEF Rhs
      <4>3. ff[k + 1] = F[k + 1]
        BY <3>6, <4>1
      <4> QED BY <4>1, <4>2, <4>3 DEF i
    <3> HIDE DEF P
    <3>7. n - 1 \in P
      <4>1. n - 1 \in Nat
        BY <1>1, <2>2
      <4> QED BY <3>5, <3>6, <4>1, NatInduct
    <3>8. ff[n] = F[n]
      <4>1. n - 1 < n /\ (n - 1) + 1 = n
        BY <1>1
      <4> QED BY <3>7, <4>1 DEF P
    <3> QED BY <3>1, <3>8
  <2> QED BY <2>1, <2>2
<1> QED BY <1>5, <1>6, <1>7 DEF n

\* So each of them stands behind those before it.
LEMMA Pieces ==
  ASSUME NEW S, NEW ss \in Seq(Seq(S))
  PROVE  /\ FlattenSeq(ss) \in Seq(S)
         /\ \E at \in [0 .. Len(ss) -> Nat] :
              /\ at[0] = 0 /\ at[Len(ss)] = Len(FlattenSeq(ss))
              /\ \A i \in 1 .. Len(ss) :
                   /\ at[i] = at[i - 1] + Len(ss[i])
                   /\ at[i] <= Len(FlattenSeq(ss))
                   /\ \A j \in 1 .. Len(ss[i]) : FlattenSeq(ss)[at[i - 1] + j] = ss[i][j]
<1> DEFINE n == Len(ss)
           flat == FlattenSeq(ss)
<1>1. n \in Nat /\ \A i \in 1 .. n : ss[i] \in Seq(S) /\ Len(ss[i]) \in Nat
  BY LenProperties, ElementOfSeq
<1>2. PICK F \in [0 .. n -> Seq(S)] :
        /\ F[0] = << >>
        /\ \A i \in 1 .. n : F[i] = F[i - 1] \o ss[i]
        /\ flat = F[n]
  BY Flattened
<1> HIDE DEF n, flat
<1> DEFINE at == [i \in 0 .. n |-> Len(F[i])]
<1>3. at \in [0 .. n -> Nat]
  BY <1>2, LenProperties
<1>4. at[0] = 0 /\ at[n] = Len(flat)
  BY <1>1, <1>2
<1>5. ASSUME NEW i \in 1 .. n
      PROVE  /\ at[i] = at[i - 1] + Len(ss[i])
             /\ \A j \in 1 .. at[i - 1] : F[i][j] = F[i - 1][j]
             /\ \A j \in 1 .. Len(ss[i]) : F[i][at[i - 1] + j] = ss[i][j]
  <2>1. i - 1 \in 0 .. n /\ i \in 0 .. n
    BY <1>1
  <2>2. F[i - 1] \in Seq(S) /\ ss[i] \in Seq(S) /\ F[i] = F[i - 1] \o ss[i]
    BY <1>1, <1>2, <2>1
  <2>3. at[i] = Len(F[i]) /\ at[i - 1] = Len(F[i - 1])
    BY <2>1
  <2> HIDE DEF at
  <2>4. /\ Len(F[i - 1] \o ss[i]) = Len(F[i - 1]) + Len(ss[i])
        /\ \A j \in 1 .. Len(F[i - 1]) : (F[i - 1] \o ss[i])[j] = F[i - 1][j]
        /\ \A j \in 1 .. Len(ss[i]) : (F[i - 1] \o ss[i])[Len(F[i - 1]) + j] = ss[i][j]
    <3> DEFINE s == F[i - 1]
               t == ss[i]
    <3>1. s \in Seq(S) /\ t \in Seq(S)
      BY <2>2
    <3> HIDE DEF s, t
    <3>2. /\ Len(s \o t) = Len(s) + Len(t)
          /\ \A j \in 1 .. Len(s) : (s \o t)[j] = s[j]
          /\ \A j \in 1 .. Len(t) : (s \o t)[Len(s) + j] = t[j]
      BY <3>1, Joined
    <3> QED BY <3>2 DEF s, t
  <2> QED BY <2>2, <2>3, <2>4
<1> HIDE DEF at
\* What stands somewhere stays there.
<1> DEFINE Stays(k, i) == at[i] <= at[k] /\ \A j \in 1 .. at[i] : F[k][j] = F[i][j]
           P == {k \in Nat : k <= n => \A i \in 0 .. k : Stays(k, i)}
<1>6. 0 \in P
  <2>1. Stays(0, 0)
    BY <1>1, <1>3
  <2> QED BY <2>1
<1>7. ASSUME NEW k \in Nat, k \in P PROVE k + 1 \in P
  <2> SUFFICES ASSUME k + 1 <= n, NEW i \in 0 .. k + 1 PROVE Stays(k + 1, i)
    OBVIOUS
  <2>1. k + 1 \in 1 .. n /\ (k + 1) - 1 = k /\ k <= n /\ k \in 0 .. n /\ k + 1 \in 0 .. n
    BY <1>1
  <2>2. CASE i = k + 1
    <3>1. at[k + 1] \in Nat
      BY <1>3, <2>1
    <3> QED BY <2>2, <3>1
  <2>3. CASE i \in 0 .. k
    <3>1. Stays(k, i)
      BY <1>7, <2>1, <2>3
    <3>2. /\ at[k + 1] = at[k] + Len(ss[k + 1])
          /\ \A j \in 1 .. at[k] : F[k + 1][j] = F[k][j]
          /\ Len(ss[k + 1]) \in Nat
      BY <1>1, <1>5, <2>1
    <3>3. at[k] \in Nat /\ at[i] \in Nat
      BY <1>1, <1>3, <2>1, <2>3
    <3> QED BY <3>1, <3>2, <3>3
  <2> QED BY <2>2, <2>3
<1> HIDE DEF P, Stays
<1>8. \A i \in 0 .. n : Stays(n, i)
  <2>1. n \in P
    BY <1>1, <1>6, <1>7, NatInduct
  <2> QED BY <1>1, <2>1 DEF P
<1>9. ASSUME NEW i \in 1 .. n
      PROVE  /\ at[i] = at[i - 1] + Len(ss[i])
             /\ at[i] <= Len(flat)
             /\ \A j \in 1 .. Len(ss[i]) : flat[at[i - 1] + j] = ss[i][j]
  <2>1. i \in 0 .. n /\ i - 1 \in 0 .. n
    BY <1>1
  <2>2. Stays(n, i) /\ at[i] = at[i - 1] + Len(ss[i]) /\ at[i - 1] \in Nat /\ Len(ss[i]) \in Nat
    BY <1>1, <1>3, <1>5, <1>8, <2>1
  <2>3. ASSUME NEW j \in 1 .. Len(ss[i]) PROVE flat[at[i - 1] + j] = ss[i][j]
    <3>1. at[i - 1] + j \in 1 .. at[i]
      BY <2>2
    <3>2. flat[at[i - 1] + j] = F[i][at[i - 1] + j]
      BY <1>2, <2>2, <3>1 DEF Stays
    <3> QED BY <1>5, <3>2
  <2> QED BY <1>4, <2>2, <2>3 DEF Stays
<1>10. flat \in Seq(S)
  BY <1>1, <1>2
<1> QED BY <1>3, <1>4, <1>9, <1>10 DEF n, flat

\* What f is, when f is a fold from the left, and its n + 1 steps.
FoldsBy(f, n, S, b, g) ==
  /\ Steps(n, S, b, g) /\ f[{}] = b
  /\ \A i \in 1 .. n : f[1 .. i - 1] \in S => f[1 .. i] = g[<<i, f[1 .. i - 1]>>]
IsSteps(w, n, S, b, g) ==
  /\ w \in [0 .. n -> S] /\ w[0] = b
  /\ \A i \in 1 .. n : w[i] = g[<<i, w[i - 1]>>]

\* A fold from the left takes one step after the other.
LEMMA FoldSteps ==
  ASSUME NEW f, NEW n, NEW S, NEW b, NEW g, FoldsBy(f, n, S, b, g)
  PROVE  \E w : IsSteps(w, n, S, b, g) /\ f[1 .. n] = w[n]
<1>1. n \in Nat /\ b \in S /\ g \in [(0 .. n) \X S -> S] /\ f[{}] = b
  BY DEF FoldsBy, Steps
<1>2. \A i \in 1 .. n : f[1 .. i - 1] \in S => f[1 .. i] = g[<<i, f[1 .. i - 1]>>]
  BY DEF FoldsBy
<1> DEFINE P == {i \in Nat : i <= n => f[1 .. i] \in S}
<1>3. 0 \in P
  <2>1. 1 .. 0 = {}
    OBVIOUS
  <2> QED BY <1>1, <2>1
<1>4. ASSUME NEW i \in Nat, i \in P PROVE i + 1 \in P
  <2> SUFFICES ASSUME i + 1 <= n PROVE f[1 .. i + 1] \in S
    OBVIOUS
  <2>1. i + 1 \in 1 .. n /\ (i + 1) - 1 = i /\ f[1 .. i] \in S
    BY <1>1, <1>4
  <2>2. f[1 .. i + 1] = g[<<i + 1, f[1 .. i]>>]
    BY <1>2, <2>1
  <2>3. <<i + 1, f[1 .. i]>> \in (0 .. n) \X S
    BY <2>1
  <2> QED BY <1>1, <2>2, <2>3
<1> HIDE DEF P
<1>5. \A i \in 0 .. n : f[1 .. i] \in S
  <2>1. Nat \subseteq P
    BY <1>3, <1>4, NatInduct
  <2> QED BY <2>1 DEF P
<1> DEFINE w == [i \in 0 .. n |-> f[1 .. i]]
<1>6. w \in [0 .. n -> S]
  BY <1>5
<1>7. w[0] = b /\ w[n] = f[1 .. n]
  <2>1. 1 .. 0 = {} /\ 0 \in 0 .. n /\ n \in 0 .. n
    BY <1>1
  <2> QED BY <1>1, <2>1
<1>8. \A i \in 1 .. n : w[i] = g[<<i, w[i - 1]>>]
  <2> TAKE i \in 1 .. n
  <2>1. i \in 0 .. n /\ i - 1 \in 0 .. n
    BY <1>1
  <2>2. w[i] = f[1 .. i] /\ w[i - 1] = f[1 .. i - 1] /\ f[1 .. i - 1] \in S
    BY <1>5, <2>1
  <2> QED BY <1>2, <2>2
<1> HIDE DEF w
<1>9. IsSteps(w, n, S, b, g)
  BY <1>6, <1>7, <1>8 DEF IsSteps
<1> QED BY <1>7, <1>9

\* The indices up to one, and what is left without it.
LEMMA FoldOfPrefix ==
  ASSUME NEW n \in Nat, NEW i \in 1 .. n
  PROVE  /\ 1 .. i \in SUBSET (1 .. n) /\ 1 .. i # {}
         /\ Max(1 .. i) = i /\ (1 .. i) \ {i} = 1 .. i - 1
<1>1. 1 \in 1 .. i
  OBVIOUS
<1>2. \A j \in 1 .. i : j \in 1 .. n
  OBVIOUS
<1> QED BY <1>1, <1>2, MaxOfPrefix

-----------------------------------------------------------------------------
(***************************************************************************)
(* The register of the CRC. Shifting goes through exclusive or, so the     *)
(* tables of the code, which shift a byte through the register ahead of    *)
(* time, can be put together in any order.                                 *)
(***************************************************************************)

\* The values of the register: sets of the bits that are 1.
Regs == SUBSET (0 .. 31)

\* Exclusive or, of sets of bits.
LEMMA XorLaws ==
  /\ \A a, b : SymDiff(a, b) = SymDiff(b, a)
  /\ \A a, b, c : SymDiff(SymDiff(a, b), c) = SymDiff(a, SymDiff(b, c))
  /\ \A a : SymDiff(a, {}) = a /\ SymDiff({}, a) = a /\ SymDiff(a, a) = {}
<1>1. \A a, b : \A x : x \in SymDiff(a, b) <=> (x \in a /\ x \notin b) \/ (x \in b /\ x \notin a)
  BY DEF SymDiff
<1>2. \A a, b : SymDiff(a, b) = SymDiff(b, a)
  BY DEF SymDiff
<1>3. \A a, b, c : SymDiff(SymDiff(a, b), c) = SymDiff(a, SymDiff(b, c))
  <2> TAKE a, b, c
  <2>1. \A x : x \in SymDiff(SymDiff(a, b), c) <=> x \in SymDiff(a, SymDiff(b, c))
    BY <1>1
  <2> QED BY <2>1
<1>4. \A a : SymDiff(a, {}) = a /\ SymDiff({}, a) = a /\ SymDiff(a, a) = {}
  BY DEF SymDiff
<1> QED BY <1>2, <1>3, <1>4

\* In it a bit of either counts, but not of both.
LEMMA XorMember ==
  \A a, b : \A x : x \in SymDiff(a, b) <=> (x \in a /\ x \notin b) \/ (x \in b /\ x \notin a)
BY DEF SymDiff

\* Two that are combined with two others.
LEMMA XorSwap ==
  \A a, b, c, d : SymDiff(SymDiff(a, b), SymDiff(c, d)) = SymDiff(SymDiff(a, c), SymDiff(b, d))
<1> TAKE a, b, c, d
<1>1. \A x : x \in SymDiff(SymDiff(a, b), SymDiff(c, d)) <=> x \in SymDiff(SymDiff(a, c), SymDiff(b, d))
  BY XorMember
<1> QED BY <1>1

\* It gives a register.
LEMMA XorType == \A a \in Regs : \A b \in Regs : SymDiff(a, b) \in Regs
  BY DEF Regs, SymDiff

\* A register shifted down by k bits.
Down(r, k) == {i \in 0 .. 31 : i + k \in r}

\* It is a register, whatever was shifted.
LEMMA DownType == \A r, k : Down(r, k) \in Regs
  BY DEF Down, Regs

\* Shifting goes through exclusive or.
LEMMA DownXor == \A r, s, k : Down(SymDiff(r, s), k) = SymDiff(Down(r, k), Down(s, k))
<1> TAKE r, s, k
<1>1. \A x : x \in Down(SymDiff(r, s), k) <=> x \in SymDiff(Down(r, k), Down(s, k))
  BY XorMember DEF Down
<1> QED BY <1>1

\* Two shifts are one by as many bits.
LEMMA DownDown ==
  ASSUME NEW r \in Regs, NEW j \in Nat, NEW k \in Nat
  PROVE  Down(Down(r, j), k) = Down(r, j + k)
<1>1. ASSUME NEW i \in 0 .. 31 PROVE i + k \in Down(r, j) <=> i + (j + k) \in r
  <2>1. i + k \in Down(r, j) <=> i + k \in 0 .. 31 /\ (i + k) + j \in r
    BY DEF Down
  <2>2. (i + k) + j = i + (j + k)
    OBVIOUS
  <2>3. i + (j + k) \in r => i + k \in 0 .. 31
    <3> SUFFICES ASSUME i + (j + k) \in r PROVE i + k \in 0 .. 31
      OBVIOUS
    <3>1. i + (j + k) \in 0 .. 31
      BY DEF Regs
    <3> QED BY <3>1
  <2> QED BY <2>1, <2>2, <2>3
<1> QED BY <1>1 DEF Down

\* The bytes of a register are what is shifted out of it.
LEMMA BytesOfReg ==
  ASSUME NEW r \in Regs
  PROVE  /\ ShiftByte(r) = Down(r, 8) /\ RegByte(r, 0) = r \cap (0 .. 7)
         /\ \A j \in Nat : RegByte(r, j) = Down(r, 8 * j) \cap (0 .. 7)
<1>1. r \subseteq 0 .. 31
  BY DEF Regs
<1>2. ShiftByte(r) = Down(r, 8)
  <2>1. ASSUME NEW x \in ShiftByte(r) PROVE x \in Down(r, 8)
    <3> PICK i \in r \ (0 .. 7) : x = i - 8
      BY DEF ShiftByte
    <3>1. i \in 0 .. 31
      BY <1>1
    <3>2. x \in 0 .. 31 /\ x + 8 = i
      BY <3>1
    <3> QED BY <3>2 DEF Down
  <2>2. ASSUME NEW x \in Down(r, 8) PROVE x \in ShiftByte(r)
    <3>1. x \in 0 .. 31 /\ x + 8 \in r
      BY DEF Down
    <3>2. x + 8 \in r \ (0 .. 7) /\ (x + 8) - 8 = x
      BY <3>1
    <3> QED BY <3>2 DEF ShiftByte
  <2> QED BY <2>1, <2>2
<1>3. ASSUME NEW j \in Nat PROVE RegByte(r, j) = Down(r, 8 * j) \cap (0 .. 7)
  <2> DEFINE k == 8 * j
  <2>0. k \in Nat
    OBVIOUS
  <2>1. ASSUME NEW x \in RegByte(r, j) PROVE x \in Down(r, k) \cap (0 .. 7)
    <3> PICK i \in r \cap (k .. k + 7) : x = i - k
      BY DEF RegByte
    <3> HIDE DEF k
    <3>1. i \in 0 .. 31
      BY <1>1
    <3>2. x \in 0 .. 31 /\ x + k = i /\ x \in 0 .. 7
      BY <2>0, <3>1
    <3> QED BY <3>2 DEF Down
  <2>2. ASSUME NEW x \in Down(r, k) \cap (0 .. 7) PROVE x \in RegByte(r, j)
    <3> HIDE DEF k
    <3>1. x \in 0 .. 7 /\ x + k \in r
      BY DEF Down
    <3>2. x + k \in r \cap (k .. k + 7) /\ (x + k) - k = x
      BY <2>0, <3>1
    <3>3. x \in {i - k : i \in r \cap (k .. k + 7)}
      BY <3>2
    <3> QED BY <3>3 DEF RegByte, k
  <2> QED BY <2>1, <2>2
<1>4. RegByte(r, 0) = r \cap (0 .. 7)
  <2>1. 8 * 0 = 0
    OBVIOUS
  <2>2. \A i \in 0 .. 31 : i + 0 = i
    OBVIOUS
  <2>3. Down(r, 0) = r
    BY <1>1, <2>2 DEF Down
  <2> QED BY <1>3, <2>1, <2>3
<1> QED BY <1>2, <1>3, <1>4

\* One bit that leaves the register.
LEMMA ShiftBitIs ==
  ASSUME NEW r \in Regs
  PROVE  ShiftBit(r) = SymDiff(Down(r, 1), IF 0 \in r THEN Poly ELSE {})
<1>1. r \subseteq 0 .. 31
  BY DEF Regs
<1>2. {i - 1 : i \in r \ {0}} = Down(r, 1)
  <2>1. ASSUME NEW x \in {i - 1 : i \in r \ {0}} PROVE x \in Down(r, 1)
    <3> PICK i \in r \ {0} : x = i - 1
      OBVIOUS
    <3>1. i \in 0 .. 31
      BY <1>1
    <3>2. x \in 0 .. 31 /\ x + 1 = i
      BY <3>1
    <3> QED BY <3>2 DEF Down
  <2>2. ASSUME NEW x \in Down(r, 1) PROVE x \in {i - 1 : i \in r \ {0}}
    <3>1. x \in 0 .. 31 /\ x + 1 \in r
      BY DEF Down
    <3>2. x + 1 \in r \ {0} /\ (x + 1) - 1 = x
      BY <3>1
    <3> QED BY <3>2
  <2> QED BY <2>1, <2>2
<1> QED BY <1>2 DEF ShiftBit

\* A register shifted by a bit is a register.
LEMMA ShiftBitType == \A r \in Regs : ShiftBit(r) \in Regs
<1> TAKE r \in Regs
<1>1. Poly \in Regs /\ {} \in Regs
  <2>1. \A i \in {0, 1, 2, 4, 5, 7, 8, 10, 11, 12, 16, 22, 23, 26} : 31 - i \in 0 .. 31
    OBVIOUS
  <2>2. Poly \subseteq 0 .. 31
    BY <2>1 DEF Poly
  <2> QED BY <2>2 DEF Regs
<1>2. Down(r, 1) \in Regs
  BY DownType
<1> QED BY <1>1, <1>2, ShiftBitIs, XorType

\* The bits of two registers that are combined leave it as those of each do.
LEMMA ShiftBitXor ==
  \A r \in Regs : \A s \in Regs :
    ShiftBit(SymDiff(r, s)) = SymDiff(ShiftBit(r), ShiftBit(s))
<1> TAKE r \in Regs
<1> TAKE s \in Regs
<1> DEFINE P(x) == IF 0 \in x THEN Poly ELSE {}
<1>1. P(SymDiff(r, s)) = SymDiff(P(r), P(s))
  <2>1. 0 \in SymDiff(r, s) <=> (0 \in r /\ 0 \notin s) \/ (0 \in s /\ 0 \notin r)
    BY XorMember
  <2>2. CASE 0 \in r
    BY <2>1, <2>2, XorLaws
  <2>3. CASE 0 \notin r
    BY <2>1, <2>3, XorLaws
  <2> QED BY <2>2, <2>3
<1>2. \A x \in Regs : ShiftBit(x) = SymDiff(Down(x, 1), P(x))
  BY ShiftBitIs
<1>3. SymDiff(r, s) \in Regs
  BY XorType
<1> HIDE DEF P
<1>4. ShiftBit(SymDiff(r, s)) = SymDiff(SymDiff(Down(r, 1), Down(s, 1)), SymDiff(P(r), P(s)))
  BY <1>1, <1>2, <1>3, DownXor
<1> QED BY <1>2, <1>4, XorSwap

\* A byte that leaves the register.
LEMMA EightShiftsLinear ==
  /\ \A r \in Regs : EightShifts(r) \in Regs
  /\ \A r \in Regs : \A s \in Regs :
       EightShifts(SymDiff(r, s)) = SymDiff(EightShifts(r), EightShifts(s))
<1> DEFINE f1(r) == ShiftBit(ShiftBit(r))
           f2(r) == f1(f1(r))
           f3(r) == f2(f2(r))
<1>1. \A r : EightShifts(r) = f3(r)
  BY DEF EightShifts
<1>2. /\ \A r \in Regs : f1(r) \in Regs
      /\ \A r \in Regs : \A s \in Regs : f1(SymDiff(r, s)) = SymDiff(f1(r), f1(s))
  BY ShiftBitType, ShiftBitXor
<1> HIDE DEF f1
<1>3. /\ \A r \in Regs : f2(r) \in Regs
      /\ \A r \in Regs : \A s \in Regs : f2(SymDiff(r, s)) = SymDiff(f2(r), f2(s))
  BY <1>2
<1> HIDE DEF f2
<1>4. /\ \A r \in Regs : f3(r) \in Regs
      /\ \A r \in Regs : \A s \in Regs : f3(SymDiff(r, s)) = SymDiff(f3(r), f3(s))
  BY <1>3
<1> HIDE DEF f3
<1> QED BY <1>1, <1>4

\* What lies above the byte that leaves only moves down.
LEMMA HighMoves ==
  ASSUME NEW r \in Regs, r \cap (0 .. 7) = {}
  PROVE  EightShifts(r) = Down(r, 8)
<1>1. \A k \in 0 .. 7 : k \notin r
  OBVIOUS
<1>2. ASSUME NEW k \in 0 .. 7 PROVE ShiftBit(Down(r, k)) = Down(r, k + 1)
  <2>1. Down(r, k) \in Regs /\ Down(Down(r, k), 1) = Down(r, k + 1)
    BY DownType, DownDown
  <2>2. 0 \notin Down(r, k)
    <3>1. 0 + k = k
      OBVIOUS
    <3> QED BY <1>1, <3>1 DEF Down
  <2> QED BY <2>1, <2>2, ShiftBitIs, XorLaws
<1>3. Down(r, 0) = r
  <2>1. r \subseteq 0 .. 31 /\ \A i \in 0 .. 31 : i + 0 = i
    BY DEF Regs
  <2> QED BY <2>1 DEF Down
<1>4. ShiftBit(Down(r, 0)) = Down(r, 1)
  <2>1. 0 \in 0 .. 7 /\ 0 + 1 = 1
    OBVIOUS
  <2> QED BY <1>2, <2>1
<1>5. ShiftBit(Down(r, 1)) = Down(r, 2)
  <2>1. 1 \in 0 .. 7 /\ 1 + 1 = 2
    OBVIOUS
  <2> QED BY <1>2, <2>1
<1>6. ShiftBit(Down(r, 2)) = Down(r, 3)
  <2>1. 2 \in 0 .. 7 /\ 2 + 1 = 3
    OBVIOUS
  <2> QED BY <1>2, <2>1
<1>7. ShiftBit(Down(r, 3)) = Down(r, 4)
  <2>1. 3 \in 0 .. 7 /\ 3 + 1 = 4
    OBVIOUS
  <2> QED BY <1>2, <2>1
<1>8. ShiftBit(Down(r, 4)) = Down(r, 5)
  <2>1. 4 \in 0 .. 7 /\ 4 + 1 = 5
    OBVIOUS
  <2> QED BY <1>2, <2>1
<1>9. ShiftBit(Down(r, 5)) = Down(r, 6)
  <2>1. 5 \in 0 .. 7 /\ 5 + 1 = 6
    OBVIOUS
  <2> QED BY <1>2, <2>1
<1>10. ShiftBit(Down(r, 6)) = Down(r, 7)
  <2>1. 6 \in 0 .. 7 /\ 6 + 1 = 7
    OBVIOUS
  <2> QED BY <1>2, <2>1
<1>11. ShiftBit(Down(r, 7)) = Down(r, 8)
  <2>1. 7 \in 0 .. 7 /\ 7 + 1 = 8
    OBVIOUS
  <2> QED BY <1>2, <2>1
<1> QED BY <1>3, <1>4, <1>5, <1>6, <1>7, <1>8, <1>9, <1>10, <1>11 DEF EightShifts

\* So a byte goes through the register as the table of its values says.
LEMMA ByteLeaves ==
  ASSUME NEW r \in Regs
  PROVE  /\ r \cap (0 .. 7) \in Regs
         /\ EightShifts(r) = SymDiff(EightShifts(r \cap (0 .. 7)), Down(r, 8))
<1> DEFINE low == r \cap (0 .. 7)
           high == r \ (0 .. 7)
<1>1. low \in Regs /\ high \in Regs /\ high \cap (0 .. 7) = {}
  BY DEF Regs
<1>2. r = SymDiff(low, high)
  BY DEF SymDiff
<1>3. Down(high, 8) = Down(r, 8)
  <2>1. \A i \in 0 .. 31 : i + 8 \notin 0 .. 7
    OBVIOUS
  <2> QED BY <2>1 DEF Down
<1> HIDE DEF low, high
<1>4. EightShifts(r) = SymDiff(EightShifts(low), EightShifts(high))
  BY <1>1, <1>2, EightShiftsLinear
<1>5. EightShifts(high) = Down(r, 8)
  BY <1>1, <1>3, HighMoves
<1>6. EightShifts(r) = SymDiff(EightShifts(low), Down(r, 8))
  BY <1>4, <1>5
<1> QED BY <1>1, <1>6 DEF low

\* The bits of a byte.
LEMMA BitsType == \A b : Bits(b) \in Regs /\ Bits(b) \in ByteSets /\ Bits(b) \subseteq 0 .. 7
<1>1. \A i \in 0 .. 7 : i \in 0 .. 31
  OBVIOUS
<1>2. \A b : Bits(b) \subseteq 0 .. 7
  BY DEF Bits
<1> QED BY <1>1, <1>2 DEF Regs, ByteSets

\* What one byte of a buffer makes of the register.
Through(r, b) == EightShifts(SymDiff(r, Bits(b)))

\* A register a byte went through is a register.
LEMMA ThroughType == \A r \in Regs : \A b : Through(r, b) \in Regs
  BY BitsType, XorType, EightShiftsLinear DEF Through

\* A byte that is looked up in the first table goes through the register.
LEMMA SlowByte ==
  ASSUME NEW r \in Regs, NEW b
  PROVE  SymDiff(FirstTable[SymDiff(RegByte(r, 0), Bits(b))], ShiftByte(r)) = Through(r, b)
<1> DEFINE x == SymDiff(r, Bits(b))
           low == SymDiff(RegByte(r, 0), Bits(b))
<1>1. x \in Regs
  BY BitsType, XorType
<1>2. low = x \cap (0 .. 7)
  <2>1. RegByte(r, 0) = r \cap (0 .. 7)
    BY BytesOfReg
  <2>2. \A i : i \in low <=> i \in x \cap (0 .. 7)
    BY <2>1, BitsType, XorMember
  <2> QED BY <2>2
<1>3. Down(x, 8) = ShiftByte(r)
  <2>1. \A i \in 0 .. 31 : i + 8 \notin 0 .. 7
    OBVIOUS
  <2>2. \A i \in 0 .. 31 : i + 8 \notin Bits(b)
    BY <2>1, BitsType
  <2>3. \A i \in 0 .. 31 : i + 8 \in x <=> i + 8 \in r
    BY <2>2, XorMember
  <2>4. Down(x, 8) = Down(r, 8)
    BY <2>3 DEF Down
  <2> QED BY <2>4, BytesOfReg
<1>4. FirstTable[low] = EightShifts(low)
  <2>1. low \in ByteSets
    BY <1>2 DEF ByteSets
  <2> HIDE DEF low
  <2> QED BY <2>1 DEF FirstTable
<1> HIDE DEF x, low
<1>5. EightShifts(x) = SymDiff(EightShifts(x \cap (0 .. 7)), Down(x, 8))
  BY <1>1, ByteLeaves
<1>6. EightShifts(x) = SymDiff(FirstTable[low], ShiftByte(r))
  BY <1>2, <1>3, <1>4, <1>5
<1> QED BY <1>6 DEF x, low, Through

\* A bit of the byte after the other.
LEMMA BitByBit ==
  ASSUME NEW D, D \subseteq 0 .. 7, NEW base \in Regs
  PROVE  FoldSet(LAMBDA i, acc : SymDiff(acc, EightShifts({i})), base, D)
           = SymDiff(base, EightShifts(D))
<1> DEFINE Rhs(f) == [s \in SUBSET D |->
             IF s = {} THEN base
             ELSE SymDiff(f[s \ {CHOOSE x \in s : TRUE}], EightShifts({CHOOSE x \in s : TRUE}))]
           ff == CHOOSE f : f = Rhs(f)
           h == [s \in SUBSET D |-> SymDiff(base, EightShifts(s))]
<1>1. \A s \in SUBSET D : s \in Regs
  <2>1. \A i \in 0 .. 7 : i \in 0 .. 31
    OBVIOUS
  <2> QED BY <2>1 DEF Regs
<1>2. FoldSet(LAMBDA i, acc : SymDiff(acc, EightShifts({i})), base, D) = ff[D]
  BY DEF FoldSet, MapThenFoldSet
<1>3. EightShifts({}) = {}
  <2>1. {} \in Regs
    BY DEF Regs
  <2>2. EightShifts(SymDiff({}, {})) = SymDiff(EightShifts({}), EightShifts({}))
    BY <2>1, EightShiftsLinear
  <2> QED BY <2>2, XorLaws
<1>4. ASSUME NEW s \in SUBSET D, s # {}
      PROVE  LET c == CHOOSE x \in s : TRUE IN
             /\ c \in s /\ s \ {c} \in SUBSET D
             /\ SymDiff(SymDiff(base, EightShifts(s \ {c})), EightShifts({c}))
                  = SymDiff(base, EightShifts(s))
  <2> DEFINE c == CHOOSE x \in s : TRUE
  <2>1. c \in s
    BY <1>4
  <2> HIDE DEF c
  <2>2. s = SymDiff(s \ {c}, {c})
    BY <2>1 DEF SymDiff
  <2>3. s \ {c} \in Regs /\ {c} \in Regs
    BY <1>1, <2>1
  <2>4. EightShifts(s) = SymDiff(EightShifts(s \ {c}), EightShifts({c}))
    BY <2>2, <2>3, EightShiftsLinear
  <2>5. SymDiff(SymDiff(base, EightShifts(s \ {c})), EightShifts({c})) = SymDiff(base, EightShifts(s))
    BY <2>4, XorLaws
  <2> QED BY <2>1, <2>5 DEF c
<1>5. h = Rhs(h)
  <2>1. h[{}] = base
    BY <1>3, XorLaws
  <2>2. ASSUME NEW s \in SUBSET D, s # {}
        PROVE h[s] = SymDiff(h[s \ {CHOOSE x \in s : TRUE}], EightShifts({CHOOSE x \in s : TRUE}))
    <3> DEFINE c == CHOOSE x \in s : TRUE
    <3>1. s \ {c} \in SUBSET D
      OBVIOUS
    <3>2. h[s \ {c}] = SymDiff(base, EightShifts(s \ {c})) /\ h[s] = SymDiff(base, EightShifts(s))
      BY <3>1
    <3>3. SymDiff(SymDiff(base, EightShifts(s \ {c})), EightShifts({c})) = SymDiff(base, EightShifts(s))
      BY <1>4, <2>2
    <3> HIDE DEF h
    <3> QED BY <3>2, <3>3
  <2>3. h = [s \in SUBSET D |-> h[s]]
    OBVIOUS
  <2> HIDE DEF h
  <2> QED BY <2>1, <2>2, <2>3
<1> HIDE DEF h
<1>6. ff = Rhs(ff)
  <2> HIDE DEF Rhs
  <2> QED BY <1>5
<1> HIDE DEF ff
<1> DEFINE P == {n \in Nat : \A s \in SUBSET D : Cardinality(s) = n => ff[s] = SymDiff(base, EightShifts(s))}
<1>7. \A s \in SUBSET D : IsFiniteSet(s) /\ Cardinality(s) \in Nat
  <2>1. IsFiniteSet(0 .. 7)
    <3>1. \A a \in Int : \A b \in Int : IsFiniteSet(a .. b)
      BY FS_Interval
    <3>2. 0 \in Int /\ 7 \in Int
      OBVIOUS
    <3> QED BY <3>1, <3>2, Zenon
  <2> QED BY <2>1, FS_Subset, FS_CardinalityType
<1>8. ff[{}] = SymDiff(base, EightShifts({}))
  BY <1>3, <1>6, XorLaws
<1>9. 0 \in P
  <2>1. ASSUME NEW s \in SUBSET D, Cardinality(s) = 0 PROVE ff[s] = SymDiff(base, EightShifts(s))
    <3>1. s = {}
      BY <1>7, <2>1, FS_EmptySet
    <3> QED BY <1>8, <3>1
  <2> QED BY <2>1
<1>10. ASSUME NEW n \in Nat, n \in P PROVE n + 1 \in P
  <2>1. ASSUME NEW s \in SUBSET D, Cardinality(s) = n + 1 PROVE ff[s] = SymDiff(base, EightShifts(s))
    <3> DEFINE c == CHOOSE x \in s : TRUE
               m == Cardinality(s)
    <3>1. s # {}
      BY <2>1, FS_EmptySet
    <3>2. c \in s /\ s \ {c} \in SUBSET D
      BY <3>1
    <3>3. ff[s] = SymDiff(ff[s \ {c}], EightShifts({c}))
      BY <1>6, <3>1
    <3>4. SymDiff(SymDiff(base, EightShifts(s \ {c})), EightShifts({c})) = SymDiff(base, EightShifts(s))
      BY <1>4, <3>1
    <3> HIDE DEF c
    <3>5. Cardinality(s \ {c}) = m - 1
      BY <1>7, <3>2, FS_RemoveElement
    <3>6. m - 1 = n
      BY <2>1
    <3>7. ff[s \ {c}] = SymDiff(base, EightShifts(s \ {c}))
      BY <1>10, <3>2, <3>5, <3>6
    <3> QED BY <3>3, <3>4, <3>7
  <2> QED BY <2>1
<1> HIDE DEF P
<1>11. \A n \in Nat : n \in P
  BY <1>9, <1>10, NatInduct
<1>12. ff[D] = SymDiff(base, EightShifts(D))
  <2>1. Cardinality(D) \in Nat
    BY <1>7
  <2> QED BY <1>11, <2>1 DEF P
<1> QED BY <1>2, <1>12

\* The polynomial's own definition puts a byte through the register alike.
LEMMA BitwiseByte == \A r \in Regs : \A b : ByteThrough(r, b) = Through(r, b)
<1> TAKE r \in Regs
<1> TAKE b
<1> DEFINE x == SymDiff(r, Bits(b))
<1>1. x \in Regs
  BY BitsType, XorType
<1>2. ByteThrough(r, b) = FoldSet(LAMBDA i, acc : SymDiff(acc, EightShifts({i})), ShiftByte(x), RegByte(x, 0))
  BY DEF ByteThrough
<1> HIDE DEF x
<1>3. RegByte(x, 0) = x \cap (0 .. 7) /\ ShiftByte(x) = Down(x, 8)
  BY <1>1, BytesOfReg
<1>4. RegByte(x, 0) \subseteq 0 .. 7 /\ ShiftByte(x) \in Regs
  BY <1>3, DownType
<1>5. ByteThrough(r, b) = SymDiff(ShiftByte(x), EightShifts(RegByte(x, 0)))
  BY <1>2, <1>4, BitByBit
<1>6. EightShifts(x) = SymDiff(EightShifts(x \cap (0 .. 7)), Down(x, 8))
  BY <1>1, ByteLeaves
<1>7. ByteThrough(r, b) = EightShifts(x)
  BY <1>3, <1>5, <1>6, XorLaws
<1> QED BY <1>7 DEF x, Through

\* What k bytes of zeros make of a register.
IsPower(pw) ==
  /\ pw \in [0 .. 16 -> [Regs -> Regs]]
  /\ \A r \in Regs : pw[0][r] = r
  /\ \A k \in 1 .. 16 : \A r \in Regs : pw[k][r] = EightShifts(pw[k - 1][r])

\* There are such functions.
LEMMA PowerExists == \E pw : IsPower(pw)
<1> DEFINE n == 16
           S == [Regs -> Regs]
           b == [r \in Regs |-> r]
           g == [p \in (0 .. n) \X S |-> [r \in Regs |-> EightShifts(p[2][r])]]
<1>1. n \in Nat /\ n = 16
  OBVIOUS
<1> HIDE DEF n
<1>2. b \in S
  OBVIOUS
<1>3. g \in [(0 .. n) \X S -> S]
  BY EightShiftsLinear
<1>4. \A i \in 1 .. n, v \in S : g[<<i, v>>] = [r \in Regs |-> EightShifts(v[r])]
  <2> TAKE i \in 1 .. n, v \in S
  <2>1. <<i, v>> \in (0 .. n) \X S
    BY <1>1
  <2> HIDE DEF S
  <2> QED BY <2>1
<1> HIDE DEF g
<1>5. Steps(n, S, b, g)
  BY <1>1, <1>2, <1>3 DEF Steps
<1>6. PICK f \in [0 .. n -> S] : f[0] = b /\ \A i \in 1 .. n : f[i] = g[<<i, f[i - 1]>>]
  <2> HIDE DEF S, b
  <2> QED BY <1>5, Iterate
<1>7. \A k \in 1 .. n : \A r \in Regs : f[k][r] = EightShifts(f[k - 1][r])
  <2> TAKE k \in 1 .. n
  <2>1. f[k - 1] \in S
    BY <1>1, <1>6
  <2>2. f[k] = [r \in Regs |-> EightShifts(f[k - 1][r])]
    BY <1>4, <1>6, <2>1
  <2> QED BY <2>2
<1>8. \A r \in Regs : f[0][r] = r
  BY <1>6
<1>9. IsPower(f)
  BY <1>1, <1>6, <1>7, <1>8 DEF IsPower
<1> QED BY <1>9

\* They go through exclusive or.
LEMMA PowerLinear ==
  ASSUME NEW pw, IsPower(pw)
  PROVE  \A k \in 0 .. 16 :
           /\ \A r \in Regs : pw[k][r] \in Regs
           /\ \A r \in Regs : \A s \in Regs : pw[k][SymDiff(r, s)] = SymDiff(pw[k][r], pw[k][s])
<1> DEFINE Q(k) == \A r \in Regs : \A s \in Regs : pw[k][SymDiff(r, s)] = SymDiff(pw[k][r], pw[k][s])
           P == {k \in Nat : k <= 16 => Q(k)}
<1>1. \A k \in 0 .. 16 : \A r \in Regs : pw[k][r] \in Regs
  BY DEF IsPower
<1>2. 0 \in P
  <2>1. \A r \in Regs : pw[0][r] = r
    BY DEF IsPower
  <2>2. Q(0)
    BY <2>1, XorType
  <2> QED BY <2>2
<1>3. ASSUME NEW k \in Nat, k \in P PROVE k + 1 \in P
  <2> SUFFICES ASSUME k + 1 <= 16 PROVE Q(k + 1)
    OBVIOUS
  <2>1. k + 1 \in 1 .. 16 /\ (k + 1) - 1 = k /\ k \in 0 .. 16
    OBVIOUS
  <2>2. \A r \in Regs : pw[k + 1][r] = EightShifts(pw[k][r])
    BY <2>1 DEF IsPower
  <2>3. \A r \in Regs : \A s \in Regs : pw[k][SymDiff(r, s)] = SymDiff(pw[k][r], pw[k][s])
    BY <1>3, <2>1
  <2>4. \A r \in Regs : pw[k][r] \in Regs
    BY <1>1, <2>1
  <2> TAKE r \in Regs
  <2> TAKE s \in Regs
  <2>5. SymDiff(r, s) \in Regs
    BY XorType
  <2>6. pw[k + 1][SymDiff(r, s)] = EightShifts(SymDiff(pw[k][r], pw[k][s]))
    BY <2>2, <2>3, <2>5
  <2>7. EightShifts(SymDiff(pw[k][r], pw[k][s])) = SymDiff(EightShifts(pw[k][r]), EightShifts(pw[k][s]))
    BY <2>4, EightShiftsLinear
  <2> QED BY <2>2, <2>6, <2>7
<1> HIDE DEF P
<1>4. \A k \in Nat : k \in P
  BY <1>2, <1>3, NatInduct
<1>5. \A k \in 0 .. 16 : Q(k)
  BY <1>4 DEF P
<1> QED BY <1>1, <1>5

\* It does not matter which of the bytes goes first.
LEMMA PowerFirst ==
  ASSUME NEW pw, IsPower(pw)
  PROVE  \A k \in 1 .. 16 : \A r \in Regs : pw[k][r] = pw[k - 1][EightShifts(r)]
<1> DEFINE Q(k) == \A r \in Regs : pw[k + 1][r] = pw[k][EightShifts(r)]
           P == {k \in Nat : k + 1 <= 16 => Q(k)}
<1>0. \A k \in 1 .. 16 : \A r \in Regs : pw[k][r] = EightShifts(pw[k - 1][r])
  BY DEF IsPower
<1>1. \A r \in Regs : pw[0][r] = r
  BY DEF IsPower
<1>2. 0 \in P
  <2>1. 0 + 1 = 1 /\ 1 - 1 = 0 /\ 1 \in 1 .. 16
    OBVIOUS
  <2>2. \A r \in Regs : pw[1][r] = EightShifts(r)
    BY <1>0, <1>1, <2>1
  <2>3. Q(0)
    BY <1>1, <2>1, <2>2, EightShiftsLinear
  <2> QED BY <2>3
<1>3. ASSUME NEW k \in Nat, k \in P PROVE k + 1 \in P
  <2> SUFFICES ASSUME (k + 1) + 1 <= 16 PROVE Q(k + 1)
    OBVIOUS
  <2> DEFINE m == k + 1
             l == m + 1
  <2>1. m \in 1 .. 16 /\ m - 1 = k /\ l \in 1 .. 16 /\ l - 1 = m /\ k + 1 <= 16
    OBVIOUS
  <2>2. \A r \in Regs : pw[m][r] = pw[k][EightShifts(r)]
    BY <1>3, <2>1
  <2> HIDE DEF m, l
  <2>3. \A r \in Regs : pw[l][r] = EightShifts(pw[m][r])
    BY <1>0, <2>1
  <2>4. \A r \in Regs : pw[m][r] = EightShifts(pw[k][r])
    BY <1>0, <2>1
  <2>5. \A r \in Regs : pw[l][r] = pw[m][EightShifts(r)]
    BY <2>2, <2>3, <2>4, EightShiftsLinear
  <2> QED BY <2>5 DEF m, l
<1> HIDE DEF P
<1>4. \A k \in Nat : k \in P
  BY <1>2, <1>3, NatInduct
<1>5. ASSUME NEW k \in 1 .. 16, NEW r \in Regs PROVE pw[k][r] = pw[k - 1][EightShifts(r)]
  <2>1. k - 1 \in Nat /\ (k - 1) + 1 = k /\ k <= 16
    OBVIOUS
  <2>2. Q(k - 1)
    BY <1>4, <2>1 DEF P
  <2> QED BY <2>1, <2>2
<1> QED BY <1>5

\* Each table is one more power.
LEMMA TableOfPowers ==
  ASSUME NEW pw, IsPower(pw)
  PROVE  \A k \in 1 .. 16 : \A b \in ByteSets : CRC32_TABLE[k][b] = pw[k][b]
<1> DEFINE Rhs(t) == [k \in 1 .. 16 |-> IF k = 1 THEN FirstTable ELSE NextTable(t[k - 1])]
           ff == CHOOSE t : t = Rhs(t)
           row(k) == [b \in ByteSets |-> pw[k][b]]
           h == [k \in 1 .. 16 |-> row(k)]
<1>1. CRC32_TABLE = ff
  BY DEF CRC32_TABLE
<1>2. \A b \in ByteSets : b \in Regs
  <2>1. \A i \in 0 .. 7 : i \in 0 .. 31
    OBVIOUS
  <2> QED BY <2>1 DEF ByteSets, Regs
<1>3. FirstTable = row(1)
  <2>1. 1 \in 1 .. 16 /\ 1 - 1 = 0
    OBVIOUS
  <2>2. \A r \in Regs : pw[1][r] = EightShifts(r)
    BY <2>1 DEF IsPower
  <2> QED BY <1>2, <2>2 DEF FirstTable
<1>4. ASSUME NEW k \in 1 .. 16, k # 1 PROVE NextTable(row(k - 1)) = row(k)
  <2>1. \A r \in Regs : pw[k][r] = EightShifts(pw[k - 1][r])
    BY DEF IsPower
  <2>2. \A r \in Regs : pw[k - 1][r] \in Regs
    <3>1. k - 1 \in 0 .. 16
      OBVIOUS
    <3> QED BY <3>1, PowerLinear
  <2>3. ASSUME NEW e \in Regs
        PROVE SymDiff(ShiftByte(e), FirstTable[RegByte(e, 0)]) = EightShifts(e)
    <3>1. ShiftByte(e) = Down(e, 8) /\ RegByte(e, 0) = e \cap (0 .. 7)
      BY BytesOfReg
    <3>2. FirstTable[e \cap (0 .. 7)] = EightShifts(e \cap (0 .. 7))
      <4>1. e \cap (0 .. 7) \in ByteSets
        BY DEF ByteSets
      <4> QED BY <4>1 DEF FirstTable
    <3>3. EightShifts(e) = SymDiff(EightShifts(e \cap (0 .. 7)), Down(e, 8))
      BY ByteLeaves
    <3>4. \A a, b : SymDiff(a, b) = SymDiff(b, a)
      BY XorLaws
    <3>5. SymDiff(ShiftByte(e), FirstTable[RegByte(e, 0)]) = SymDiff(Down(e, 8), EightShifts(e \cap (0 .. 7)))
      BY <3>1, <3>2
    <3> QED BY <3>3, <3>4, <3>5
  <2>4. \A b \in ByteSets : row(k - 1)[b] = pw[k - 1][b]
    OBVIOUS
  <2>5. NextTable(row(k - 1)) =
          [b \in ByteSets |-> SymDiff(ShiftByte(row(k - 1)[b]), FirstTable[RegByte(row(k - 1)[b], 0)])]
    BY DEF NextTable
  <2> HIDE DEF row
  <2>6. \A b \in ByteSets :
          SymDiff(ShiftByte(row(k - 1)[b]), FirstTable[RegByte(row(k - 1)[b], 0)]) = pw[k][b]
    BY <1>2, <2>1, <2>2, <2>3, <2>4
  <2> QED BY <2>5, <2>6 DEF row
<1>5. h = Rhs(h)
  <2>1. \A k \in 1 .. 16 : h[k] = row(k)
    OBVIOUS
  <2>2. \A k \in 1 .. 16 : k # 1 => k - 1 \in 1 .. 16
    OBVIOUS
  <2> HIDE DEF row
  <2>3. \A k \in 1 .. 16 : h[k] = IF k = 1 THEN FirstTable ELSE NextTable(h[k - 1])
    BY <1>3, <1>4, <2>1, <2>2
  <2> QED BY <2>3
<1> HIDE DEF h
<1>6. ff = Rhs(ff)
  <2> HIDE DEF Rhs
  <2> QED BY <1>5
<1> HIDE DEF ff
<1> DEFINE P == {k \in Nat : k + 1 <= 16 => ff[k + 1] = row(k + 1)}
<1>7. 0 \in P
  <2>1. 0 + 1 = 1 /\ 1 \in 1 .. 16
    OBVIOUS
  <2>2. ff[1] = FirstTable
    BY <1>6, <2>1
  <2> HIDE DEF row
  <2> QED BY <1>3, <2>1, <2>2
<1>8. ASSUME NEW k \in Nat, k \in P PROVE k + 1 \in P
  <2> SUFFICES ASSUME (k + 1) + 1 <= 16 PROVE ff[(k + 1) + 1] = row((k + 1) + 1)
    OBVIOUS
  <2> DEFINE m == k + 1
             l == m + 1
  <2>1. l \in 1 .. 16 /\ l # 1 /\ l - 1 = m /\ k + 1 <= 16
    OBVIOUS
  <2>2. ff[m] = row(m)
    BY <1>8, <2>1
  <2> HIDE DEF l, m, row
  <2>3. ff[l] = NextTable(ff[l - 1])
    BY <1>6, <2>1
  <2>4. ff[l] = row(l)
    BY <1>4, <2>1, <2>2, <2>3
  <2> QED BY <2>4 DEF l, m
<1> HIDE DEF P
<1>9. \A k \in Nat : k \in P
  BY <1>7, <1>8, NatInduct
<1>10. ASSUME NEW k \in 1 .. 16 PROVE ff[k] = row(k)
  <2>1. k - 1 \in Nat /\ (k - 1) + 1 = k /\ k <= 16
    OBVIOUS
  <2> HIDE DEF row
  <2> QED BY <1>9, <2>1 DEF P
<1> QED BY <1>1, <1>10

\* What update_slow makes of the register with one byte.
SlowStep(r, b) == SymDiff(FirstTable[SymDiff(RegByte(r, 0), Bits(b))], ShiftByte(r))

\* update_slow, byte by byte.
LEMMA SlowSteps ==
  ASSUME NEW X, NEW buf \in Seq(X), NEW r \in Regs
  PROVE  \E w : /\ w \in [0 .. Len(buf) -> Regs] /\ w[0] = r
                /\ \A i \in 1 .. Len(buf) : w[i] = SlowStep(w[i - 1], buf[i])
                /\ UpdateSlow(r, buf) = w[Len(buf)]
<1> DEFINE n == Len(buf)
           g == [p \in (0 .. n) \X Regs |-> IF p[1] = 0 THEN r ELSE SlowStep(p[2], buf[p[1]])]
           Rhs(f) == [s \in SUBSET (1 .. n) |->
             IF s = {} THEN r ELSE SlowStep(f[s \ {Max(s)}], buf[Max(s)])]
           ff == CHOOSE f : f = Rhs(f)
<1>1. n \in Nat /\ r \in Regs
  OBVIOUS
<1>2. \A i \in 1 .. n : \A v \in Regs : SlowStep(v, buf[i]) \in Regs
  BY SlowByte, ThroughType DEF SlowStep
<1>3. UpdateSlow(r, buf) = ff[1 .. n]
  <2>1. DOMAIN buf = 1 .. n
    OBVIOUS
  <2> QED BY <1>1, <2>1 DEF UpdateSlow, SlowStep, FoldLeft, MapThenFoldSet
<1> HIDE DEF n
<1>4. Steps(n, Regs, r, g)
  <2>1. g \in [(0 .. n) \X Regs -> Regs]
    <3>1. \A p \in (0 .. n) \X Regs : p[1] # 0 => p[1] \in 1 .. n /\ p[2] \in Regs
      BY <1>1
    <3>2. \A p \in (0 .. n) \X Regs :
            (IF p[1] = 0 THEN r ELSE SlowStep(p[2], buf[p[1]])) \in Regs
      BY <1>1, <1>2, <3>1
    <3> QED BY <3>2
  <2> HIDE DEF g
  <2> QED BY <1>1, <2>1 DEF Steps
<1>5. \A i \in 1 .. n : \A v \in Regs : g[<<i, v>>] = SlowStep(v, buf[i])
  <2> TAKE i \in 1 .. n
  <2> TAKE v \in Regs
  <2>1. i \in 0 .. n /\ i # 0
    BY <1>1
  <2>2. <<i, v>> \in (0 .. n) \X Regs
    BY <2>1
  <2> QED BY <2>1, <2>2
<1> HIDE DEF g
<1>6. PICK h : IsLeftFold(h, n, Regs, r, g)
  BY <1>4, FoldsLeft
<1>7. h = Rhs(h)
  <2>1. h \in [SUBSET (1 .. n) -> Regs] /\ h[{}] = r
    BY <1>6 DEF IsLeftFold
  <2>2. ASSUME NEW s \in SUBSET (1 .. n), s # {}
        PROVE h[s] = SlowStep(h[s \ {Max(s)}], buf[Max(s)])
    <3>1. Max(s) \in 1 .. n /\ h[s] = g[<<Max(s), h[s \ {Max(s)}]>>]
      BY <1>6, <2>2 DEF IsLeftFold
    <3>2. h[s \ {Max(s)}] \in Regs
      BY <2>1
    <3> QED BY <1>5, <3>1, <3>2
  <2>3. h = [s \in SUBSET (1 .. n) |->
               IF s = {} THEN r ELSE SlowStep(h[s \ {Max(s)}], buf[Max(s)])]
    BY <2>1, <2>2
  <2> QED BY <2>3
<1>8. ff = Rhs(ff)
  <2> HIDE DEF Rhs
  <2> QED BY <1>7
<1> HIDE DEF ff
<1>9. FoldsBy(ff, n, Regs, r, g)
  <2>1. ff[{}] = r
    BY <1>8
  <2>2. ASSUME NEW i \in 1 .. n, ff[1 .. i - 1] \in Regs PROVE ff[1 .. i] = g[<<i, ff[1 .. i - 1]>>]
    <3>1. /\ 1 .. i \in SUBSET (1 .. n) /\ 1 .. i # {}
          /\ Max(1 .. i) = i /\ (1 .. i) \ {i} = 1 .. i - 1
      BY <1>1, FoldOfPrefix
    <3>2. ff[1 .. i] = SlowStep(ff[(1 .. i) \ {Max(1 .. i)}], buf[Max(1 .. i)])
      BY <1>8, <3>1
    <3> QED BY <1>5, <2>2, <3>1, <3>2
  <2> QED BY <1>4, <2>1, <2>2 DEF FoldsBy
<1>10. PICK w : IsSteps(w, n, Regs, r, g) /\ ff[1 .. n] = w[n]
  BY <1>9, FoldSteps
<1>11. w \in [0 .. n -> Regs] /\ w[0] = r
  BY <1>10 DEF IsSteps
<1>12. \A i \in 1 .. n : w[i] = SlowStep(w[i - 1], buf[i])
  <2> TAKE i \in 1 .. n
  <2>1. w[i - 1] \in Regs
    BY <1>1, <1>11
  <2> QED BY <1>5, <1>10, <2>1 DEF IsSteps
<1> QED BY <1>3, <1>10, <1>11, <1>12 DEF n

\* n bytes of a buffer that go through the register.
IsThrough(w, r, buf, n) ==
  /\ w \in [0 .. n -> Regs] /\ w[0] = r
  /\ \A i \in 1 .. n : w[i] = Through(w[i - 1], buf[i])

\* They do so in one way.
LEMMA ThroughOnce ==
  ASSUME NEW r, NEW buf, NEW n \in Nat, NEW w, NEW v, IsThrough(w, r, buf, n), IsThrough(v, r, buf, n)
  PROVE  w = v
<1> DEFINE P == {i \in Nat : i <= n => w[i] = v[i]}
<1>1. 0 \in P
  BY DEF IsThrough
<1>2. ASSUME NEW i \in Nat, i \in P PROVE i + 1 \in P
  <2> SUFFICES ASSUME i + 1 <= n PROVE w[i + 1] = v[i + 1]
    OBVIOUS
  <2>1. i + 1 \in 1 .. n /\ (i + 1) - 1 = i /\ w[i] = v[i]
    BY <1>2
  <2> QED BY <2>1 DEF IsThrough
<1> HIDE DEF P
<1>3. \A i \in Nat : i \in P
  BY <1>1, <1>2, NatInduct
<1>4. \A i \in 0 .. n : w[i] = v[i]
  BY <1>3 DEF P
<1>5. w \in [0 .. n -> Regs] /\ v \in [0 .. n -> Regs]
  BY DEF IsThrough
<1> QED BY <1>4, <1>5

\* The loop over single bytes sends each through the register.
LEMMA SlowThrough ==
  ASSUME NEW X, NEW buf \in Seq(X), NEW r \in Regs
  PROVE  \E w : IsThrough(w, r, buf, Len(buf)) /\ UpdateSlow(r, buf) = w[Len(buf)]
<1>1. PICK w : /\ w \in [0 .. Len(buf) -> Regs] /\ w[0] = r
               /\ \A i \in 1 .. Len(buf) : w[i] = SlowStep(w[i - 1], buf[i])
               /\ UpdateSlow(r, buf) = w[Len(buf)]
  BY SlowSteps
<1>2. ASSUME NEW i \in 1 .. Len(buf) PROVE w[i] = Through(w[i - 1], buf[i])
  <2>1. w[i - 1] \in Regs
    BY <1>1
  <2> QED BY <1>1, <2>1, SlowByte DEF SlowStep
<1> QED BY <1>1, <1>2 DEF IsThrough

\* The register of the definition, before its bits are inverted.
BitwiseRegister(buf) == FoldLeft(ByteThrough, CRC_SEED, buf)

\* The definition, byte by byte.
LEMMA BitwiseSteps ==
  ASSUME NEW X, NEW buf \in Seq(X)
  PROVE  \E w : /\ w \in [0 .. Len(buf) -> Regs] /\ w[0] = CRC_SEED
                /\ \A i \in 1 .. Len(buf) : w[i] = ByteThrough(w[i - 1], buf[i])
                /\ BitwiseRegister(buf) = w[Len(buf)]
<1> DEFINE n == Len(buf)
           g == [p \in (0 .. n) \X Regs |-> IF p[1] = 0 THEN CRC_SEED ELSE ByteThrough(p[2], buf[p[1]])]
           Rhs(f) == [s \in SUBSET (1 .. n) |->
             IF s = {} THEN CRC_SEED ELSE ByteThrough(f[s \ {Max(s)}], buf[Max(s)])]
           ff == CHOOSE f : f = Rhs(f)
<1>1. n \in Nat /\ CRC_SEED \in Regs
  BY DEF Regs, CRC_SEED
<1>2. \A i \in 1 .. n : \A v \in Regs : ByteThrough(v, buf[i]) \in Regs
  BY BitwiseByte, ThroughType
<1>3. BitwiseRegister(buf) = ff[1 .. n]
  <2>1. DOMAIN buf = 1 .. n
    OBVIOUS
  <2> QED BY <1>1, <2>1 DEF BitwiseRegister, FoldLeft, MapThenFoldSet
<1> HIDE DEF n
<1>4. Steps(n, Regs, CRC_SEED, g)
  <2>1. g \in [(0 .. n) \X Regs -> Regs]
    <3>1. \A p \in (0 .. n) \X Regs : p[1] # 0 => p[1] \in 1 .. n /\ p[2] \in Regs
      BY <1>1
    <3>2. \A p \in (0 .. n) \X Regs :
            (IF p[1] = 0 THEN CRC_SEED ELSE ByteThrough(p[2], buf[p[1]])) \in Regs
      BY <1>1, <1>2, <3>1
    <3> QED BY <3>2
  <2> HIDE DEF g
  <2> QED BY <1>1, <2>1 DEF Steps
<1>5. \A i \in 1 .. n : \A v \in Regs : g[<<i, v>>] = ByteThrough(v, buf[i])
  <2> TAKE i \in 1 .. n
  <2> TAKE v \in Regs
  <2>1. i \in 0 .. n /\ i # 0
    BY <1>1
  <2>2. <<i, v>> \in (0 .. n) \X Regs
    BY <2>1
  <2> QED BY <2>1, <2>2
<1> HIDE DEF g
<1>6. PICK h : IsLeftFold(h, n, Regs, CRC_SEED, g)
  BY <1>4, FoldsLeft
<1>7. h = Rhs(h)
  <2>1. h \in [SUBSET (1 .. n) -> Regs] /\ h[{}] = CRC_SEED
    BY <1>6 DEF IsLeftFold
  <2>2. ASSUME NEW s \in SUBSET (1 .. n), s # {}
        PROVE h[s] = ByteThrough(h[s \ {Max(s)}], buf[Max(s)])
    <3>1. Max(s) \in 1 .. n /\ h[s] = g[<<Max(s), h[s \ {Max(s)}]>>]
      BY <1>6, <2>2 DEF IsLeftFold
    <3>2. h[s \ {Max(s)}] \in Regs
      BY <2>1
    <3> QED BY <1>5, <3>1, <3>2
  <2>3. h = [s \in SUBSET (1 .. n) |->
               IF s = {} THEN CRC_SEED ELSE ByteThrough(h[s \ {Max(s)}], buf[Max(s)])]
    BY <2>1, <2>2
  <2> QED BY <2>3
<1>8. ff = Rhs(ff)
  <2> HIDE DEF Rhs
  <2> QED BY <1>7
<1> HIDE DEF ff
<1>9. FoldsBy(ff, n, Regs, CRC_SEED, g)
  <2>1. ff[{}] = CRC_SEED
    BY <1>8
  <2>2. ASSUME NEW i \in 1 .. n, ff[1 .. i - 1] \in Regs PROVE ff[1 .. i] = g[<<i, ff[1 .. i - 1]>>]
    <3>1. /\ 1 .. i \in SUBSET (1 .. n) /\ 1 .. i # {}
          /\ Max(1 .. i) = i /\ (1 .. i) \ {i} = 1 .. i - 1
      BY <1>1, FoldOfPrefix
    <3>2. ff[1 .. i] = ByteThrough(ff[(1 .. i) \ {Max(1 .. i)}], buf[Max(1 .. i)])
      BY <1>8, <3>1
    <3> QED BY <1>5, <2>2, <3>1, <3>2
  <2> QED BY <1>4, <2>1, <2>2 DEF FoldsBy
<1>10. PICK w : IsSteps(w, n, Regs, CRC_SEED, g) /\ ff[1 .. n] = w[n]
  BY <1>9, FoldSteps
<1>11. w \in [0 .. n -> Regs] /\ w[0] = CRC_SEED
  BY <1>10 DEF IsSteps
<1>12. \A i \in 1 .. n : w[i] = ByteThrough(w[i - 1], buf[i])
  <2> TAKE i \in 1 .. n
  <2>1. w[i - 1] \in Regs
    BY <1>1, <1>11
  <2> QED BY <1>5, <1>10, <2>1 DEF IsSteps
<1> QED BY <1>3, <1>10, <1>11, <1>12 DEF n

\* So does the definition.
LEMMA BitwiseThrough ==
  ASSUME NEW X, NEW buf \in Seq(X)
  PROVE  \E w : IsThrough(w, CRC_SEED, buf, Len(buf)) /\ BitwiseCrc(buf) = CRC_SEED \ w[Len(buf)]
<1>1. PICK w : /\ w \in [0 .. Len(buf) -> Regs] /\ w[0] = CRC_SEED
               /\ \A i \in 1 .. Len(buf) : w[i] = ByteThrough(w[i - 1], buf[i])
               /\ BitwiseRegister(buf) = w[Len(buf)]
  BY BitwiseSteps
<1>3. BitwiseCrc(buf) = CRC_SEED \ BitwiseRegister(buf)
  BY DEF BitwiseCrc, BitwiseRegister
<1>2. ASSUME NEW i \in 1 .. Len(buf) PROVE w[i] = Through(w[i - 1], buf[i])
  <2>1. w[i - 1] \in Regs
    BY <1>1
  <2> QED BY <1>1, <2>1, BitwiseByte
<1> QED BY <1>1, <1>2, <1>3 DEF IsThrough

\* One byte of a round.
UnrolledStep(acc, j, r, buf) ==
  SymDiff(acc, CRC32_TABLE[17 - j][IF j <= 4 THEN SymDiff(Bits(buf[j]), RegByte(r, j - 1)) ELSE Bits(buf[j])])

\* It adds what the bytes behind it leave of the byte and of the register's.
LEMMA UnrolledByte ==
  ASSUME NEW pw, IsPower(pw), NEW r \in Regs, NEW buf, NEW acc, NEW j \in 1 .. 16
  PROVE  UnrolledStep(acc, j, r, buf) = SymDiff(acc, pw[17 - j][SymDiff(Bits(buf[j]), RegByte(r, j - 1))])
<1> DEFINE x == SymDiff(Bits(buf[j]), RegByte(r, j - 1))
<1>1. 17 - j \in 1 .. 16 /\ j - 1 \in Nat
  OBVIOUS
<1>2. RegByte(r, j - 1) = Down(r, 8 * (j - 1)) \cap (0 .. 7)
  BY <1>1, BytesOfReg
<1>3. x \in ByteSets
  <2>1. RegByte(r, j - 1) \in ByteSets
    BY <1>2 DEF ByteSets
  <2>2. \A a \in ByteSets : \A b \in ByteSets : SymDiff(a, b) \in ByteSets
    BY DEF ByteSets, SymDiff
  <2> QED BY <2>1, <2>2, BitsType
<1>4. CASE j <= 4
  BY <1>1, <1>3, <1>4, TableOfPowers DEF UnrolledStep
<1>5. CASE ~(j <= 4)
  <2>1. RegByte(r, j - 1) = {}
    <3>1. \A i \in 0 .. 7 : i + 8 * (j - 1) \notin 0 .. 31
      BY <1>5
    <3>2. r \subseteq 0 .. 31
      BY DEF Regs
    <3> QED BY <1>2, <3>1, <3>2 DEF Down
  <2>2. x = Bits(buf[j])
    BY <2>1, XorLaws
  <2> QED BY <1>1, <1>3, <1>5, <2>2, TableOfPowers DEF UnrolledStep
<1> QED BY <1>4, <1>5

\* A byte of a round leaves a register.
LEMMA UnrolledType ==
  ASSUME NEW r \in Regs, NEW buf, NEW acc \in Regs, NEW j \in 1 .. 16
  PROVE  UnrolledStep(acc, j, r, buf) \in Regs
<1> DEFINE x == SymDiff(Bits(buf[j]), RegByte(r, j - 1))
<1>1. PICK pw : IsPower(pw)
  BY PowerExists
<1>2. UnrolledStep(acc, j, r, buf) = SymDiff(acc, pw[17 - j][x])
  BY <1>1, UnrolledByte
<1>3. x \in Regs
  <2>1. j - 1 \in Nat
    OBVIOUS
  <2>2. RegByte(r, j - 1) = Down(r, 8 * (j - 1)) \cap (0 .. 7)
    BY <2>1, BytesOfReg
  <2>3. Down(r, 8 * (j - 1)) \in Regs
    BY DownType
  <2>4. RegByte(r, j - 1) \in Regs
    BY <2>2, <2>3 DEF Regs
  <2> QED BY <2>4, BitsType, XorType
<1> HIDE DEF x
<1>4. 17 - j \in 0 .. 16
  OBVIOUS
<1>5. pw[17 - j][x] \in Regs
  BY <1>1, <1>3, <1>4, PowerLinear
<1> QED BY <1>2, <1>5, XorType

\* The numbers from 1 to n in a row.
Indices(n) == [j \in 1 .. n |-> j]

\* The sixteen bytes of a round.
LEMMA UnrolledSteps ==
  ASSUME NEW buf, NEW r \in Regs
  PROVE  \E w : /\ w \in [0 .. 16 -> Regs] /\ w[0] = {}
                /\ \A i \in 1 .. 16 : w[i] = UnrolledStep(w[i - 1], Indices(16)[i], r, buf)
                /\ UnrolledRound(r, buf) = w[16]
<1> DEFINE n == 16
           g == [p \in (0 .. n) \X Regs |-> IF p[1] = 0 THEN {} ELSE UnrolledStep(p[2], Indices(16)[p[1]], r, buf)]
           Rhs(f) == [s \in SUBSET (1 .. n) |->
             IF s = {} THEN {} ELSE UnrolledStep(f[s \ {Max(s)}], Indices(16)[Max(s)], r, buf)]
           ff == CHOOSE f : f = Rhs(f)
<1>1. n \in Nat /\ {} \in Regs
  BY DEF Regs
<1>2. \A i \in 1 .. n : \A v \in Regs : UnrolledStep(v, Indices(16)[i], r, buf) \in Regs
  BY UnrolledType DEF Indices
<1>3. UnrolledRound(r, buf) = ff[1 .. n]
  <2>1. DOMAIN Indices(16) = 1 .. n
    BY DEF Indices
  <2> QED BY <1>1, <2>1 DEF UnrolledRound, UnrolledStep, Indices, FoldLeft, MapThenFoldSet
<1> HIDE DEF n
<1>4. Steps(n, Regs, {}, g)
  <2>1. g \in [(0 .. n) \X Regs -> Regs]
    <3>1. \A p \in (0 .. n) \X Regs : p[1] # 0 => p[1] \in 1 .. n /\ p[2] \in Regs
      BY <1>1
    <3>2. \A p \in (0 .. n) \X Regs :
            (IF p[1] = 0 THEN {} ELSE UnrolledStep(p[2], Indices(16)[p[1]], r, buf)) \in Regs
      BY <1>1, <1>2, <3>1
    <3> QED BY <3>2
  <2> HIDE DEF g
  <2> QED BY <1>1, <2>1 DEF Steps
<1>5. \A i \in 1 .. n : \A v \in Regs : g[<<i, v>>] = UnrolledStep(v, Indices(16)[i], r, buf)
  <2> TAKE i \in 1 .. n
  <2> TAKE v \in Regs
  <2>1. i \in 0 .. n /\ i # 0
    BY <1>1
  <2>2. <<i, v>> \in (0 .. n) \X Regs
    BY <2>1
  <2> QED BY <2>1, <2>2
<1> HIDE DEF g
<1>6. PICK h : IsLeftFold(h, n, Regs, {}, g)
  BY <1>4, FoldsLeft
<1>7. h = Rhs(h)
  <2>1. h \in [SUBSET (1 .. n) -> Regs] /\ h[{}] = {}
    BY <1>6 DEF IsLeftFold
  <2>2. ASSUME NEW s \in SUBSET (1 .. n), s # {}
        PROVE h[s] = UnrolledStep(h[s \ {Max(s)}], Indices(16)[Max(s)], r, buf)
    <3>1. Max(s) \in 1 .. n /\ h[s] = g[<<Max(s), h[s \ {Max(s)}]>>]
      BY <1>6, <2>2 DEF IsLeftFold
    <3>2. h[s \ {Max(s)}] \in Regs
      BY <2>1
    <3> QED BY <1>5, <3>1, <3>2
  <2>3. h = [s \in SUBSET (1 .. n) |->
               IF s = {} THEN {} ELSE UnrolledStep(h[s \ {Max(s)}], Indices(16)[Max(s)], r, buf)]
    BY <2>1, <2>2
  <2> QED BY <2>3
<1>8. ff = Rhs(ff)
  <2> HIDE DEF Rhs
  <2> QED BY <1>7
<1> HIDE DEF ff
<1>9. FoldsBy(ff, n, Regs, {}, g)
  <2>1. ff[{}] = {}
    BY <1>8
  <2>2. ASSUME NEW i \in 1 .. n, ff[1 .. i - 1] \in Regs PROVE ff[1 .. i] = g[<<i, ff[1 .. i - 1]>>]
    <3>1. /\ 1 .. i \in SUBSET (1 .. n) /\ 1 .. i # {}
          /\ Max(1 .. i) = i /\ (1 .. i) \ {i} = 1 .. i - 1
      BY <1>1, FoldOfPrefix
    <3>2. ff[1 .. i] = UnrolledStep(ff[(1 .. i) \ {Max(1 .. i)}], Indices(16)[Max(1 .. i)], r, buf)
      BY <1>8, <3>1
    <3> QED BY <1>5, <2>2, <3>1, <3>2
  <2> QED BY <1>4, <2>1, <2>2 DEF FoldsBy
<1>10. PICK w : IsSteps(w, n, Regs, {}, g) /\ ff[1 .. n] = w[n]
  BY <1>9, FoldSteps
<1>11. w \in [0 .. n -> Regs] /\ w[0] = {}
  BY <1>10 DEF IsSteps
<1>12. \A i \in 1 .. n : w[i] = UnrolledStep(w[i - 1], Indices(16)[i], r, buf)
  <2> TAKE i \in 1 .. n
  <2>1. w[i - 1] \in Regs
    BY <1>1, <1>11
  <2> QED BY <1>5, <1>10, <2>1 DEF IsSteps
<1> QED BY <1>3, <1>10, <1>11, <1>12 DEF n

\* After i bytes of a round what it has added is what those bytes make of the
\* register, but for the part of the register that has not been added yet.
RoundKept(pw, w, u, r, i) ==
  pw[16 - i][w[i]] = SymDiff(u[i], pw[16 - i][Down(r, 8 * i)])

\* Byte by byte, this goes on.
LEMMA RoundGoesOn ==
  ASSUME NEW pw, IsPower(pw), NEW r \in Regs, NEW buf, NEW w, IsThrough(w, r, buf, 16),
         NEW u \in [0 .. 16 -> Regs],
         \A i \in 1 .. 16 : u[i] = UnrolledStep(u[i - 1], i, r, buf),
         NEW j \in 1 .. 16, RoundKept(pw, w, u, r, j - 1)
  PROVE  RoundKept(pw, w, u, r, j)
<1> DEFINE k == 17 - j
           i == j - 1
           b == Bits(buf[j])
           d == Down(r, 8 * i)
           low == RegByte(r, i)
           rest == Down(r, 8 * j)
<1>1. /\ k \in 1 .. 16 /\ k \in 0 .. 16 /\ k - 1 \in 0 .. 16 /\ 16 - i = k /\ 16 - j = k - 1
      /\ i \in Nat /\ i \in 0 .. 16 /\ 8 * i \in Nat /\ 8 * i + 8 = 8 * j
  OBVIOUS
<1>2. w[i] \in Regs /\ w[j] = EightShifts(SymDiff(w[i], b))
  BY <1>1 DEF IsThrough, Through
<1>3. b \in Regs /\ d \in Regs /\ rest \in Regs
  BY BitsType, DownType
<1>4. low = d \cap (0 .. 7)
  BY <1>1, BytesOfReg
<1>5. rest = Down(d, 8)
  BY <1>1, DownDown
<1>6. low \in Regs /\ EightShifts(d) = SymDiff(EightShifts(low), rest)
  BY <1>3, <1>4, <1>5, ByteLeaves
<1>7. pw[k][w[i]] = SymDiff(u[i], pw[k][d])
  BY <1>1 DEF RoundKept
<1>8. u[j] = SymDiff(u[i], pw[k][SymDiff(b, low)])
  BY UnrolledByte
<1> HIDE DEF k, i, b, d, low, rest
<1>9. \A x \in Regs : pw[k][x] = pw[k - 1][EightShifts(x)]
  BY <1>1, PowerFirst
<1>10. \A x \in Regs : \A y \in Regs : pw[k][SymDiff(x, y)] = SymDiff(pw[k][x], pw[k][y])
  BY <1>1, PowerLinear
<1>11. \A x \in Regs : \A y \in Regs : pw[k - 1][SymDiff(x, y)] = SymDiff(pw[k - 1][x], pw[k - 1][y])
  BY <1>1, PowerLinear
<1>12. pw[k - 1][w[j]] = SymDiff(SymDiff(u[i], pw[k][d]), pw[k][b])
  <2>1. SymDiff(w[i], b) \in Regs
    BY <1>2, <1>3, XorType
  <2>2. pw[k - 1][w[j]] = pw[k][SymDiff(w[i], b)]
    BY <1>2, <1>9, <2>1
  <2>3. pw[k][SymDiff(w[i], b)] = SymDiff(pw[k][w[i]], pw[k][b])
    BY <1>2, <1>3, <1>10
  <2> QED BY <1>7, <2>2, <2>3
<1>13. pw[k][d] = SymDiff(pw[k][low], pw[k - 1][rest])
  <2>1. EightShifts(low) \in Regs
    BY <1>6, EightShiftsLinear
  <2>2. pw[k][d] = pw[k - 1][SymDiff(EightShifts(low), rest)]
    BY <1>3, <1>6, <1>9
  <2>3. pw[k - 1][SymDiff(EightShifts(low), rest)] = SymDiff(pw[k - 1][EightShifts(low)], pw[k - 1][rest])
    BY <1>3, <1>11, <2>1
  <2>4. pw[k][low] = pw[k - 1][EightShifts(low)]
    BY <1>6, <1>9
  <2> QED BY <2>2, <2>3, <2>4
<1>14. u[j] = SymDiff(u[i], SymDiff(pw[k][b], pw[k][low]))
  BY <1>3, <1>6, <1>8, <1>10
<1>15. \A a, x, y, z : SymDiff(SymDiff(a, SymDiff(x, y)), z) = SymDiff(SymDiff(a, SymDiff(z, x)), y)
  <2> TAKE a, x, y, z
  <2>1. \A e : e \in SymDiff(SymDiff(a, SymDiff(x, y)), z) <=> e \in SymDiff(SymDiff(a, SymDiff(z, x)), y)
    BY XorMember
  <2> QED BY <2>1
<1>16. pw[k - 1][w[j]] = SymDiff(u[j], pw[k - 1][rest])
  BY <1>12, <1>13, <1>14, <1>15
<1> QED BY <1>1, <1>16 DEF RoundKept, rest

\* A round puts its sixteen bytes through the register.
LEMMA RoundIs ==
  ASSUME NEW r \in Regs, NEW buf, NEW w, IsThrough(w, r, buf, 16)
  PROVE  UnrolledRound(r, buf) = w[16]
<1>1. PICK pw : IsPower(pw)
  BY PowerExists
<1>2. PICK u : /\ u \in [0 .. 16 -> Regs] /\ u[0] = {}
               /\ \A i \in 1 .. 16 : u[i] = UnrolledStep(u[i - 1], Indices(16)[i], r, buf)
               /\ UnrolledRound(r, buf) = u[16]
  BY UnrolledSteps, Zenon
<1>3. \A i \in 1 .. 16 : u[i] = UnrolledStep(u[i - 1], i, r, buf)
  <2>1. \A i \in 1 .. 16 : Indices(16)[i] = i
    BY DEF Indices
  <2> QED BY <1>2, <2>1
<1> DEFINE P == {i \in Nat : i <= 16 => RoundKept(pw, w, u, r, i)}
<1>4. 0 \in P
  <2>1. Down(r, 8 * 0) = r
    <3>1. 8 * 0 = 0 /\ r \subseteq 0 .. 31 /\ \A i \in 0 .. 31 : i + 0 = i
      BY DEF Regs
    <3> QED BY <3>1 DEF Down
  <2>2. w[0] = r
    BY DEF IsThrough
  <2>3. RoundKept(pw, w, u, r, 0)
    BY <1>2, <2>1, <2>2, XorLaws DEF RoundKept
  <2> QED BY <2>3
<1>5. ASSUME NEW i \in Nat, i \in P PROVE i + 1 \in P
  <2> SUFFICES ASSUME i + 1 <= 16 PROVE RoundKept(pw, w, u, r, i + 1)
    OBVIOUS
  <2> DEFINE j == i + 1
  <2>1. j \in 1 .. 16 /\ j - 1 = i /\ i <= 16
    OBVIOUS
  <2>2. RoundKept(pw, w, u, r, i)
    BY <1>5, <2>1
  <2> HIDE DEF j
  <2>3. RoundKept(pw, w, u, r, j)
    BY <1>1, <1>2, <1>3, <2>1, <2>2, RoundGoesOn
  <2> QED BY <2>3 DEF j
<1> HIDE DEF P
<1>6. \A i \in Nat : i \in P
  BY <1>4, <1>5, NatInduct
<1>7. RoundKept(pw, w, u, r, 16)
  <2>1. 16 \in Nat /\ 16 <= 16
    OBVIOUS
  <2> QED BY <1>6, <2>1 DEF P
<1>8. Down(r, 8 * 16) = {}
  <2>1. r \subseteq 0 .. 31 /\ \A i \in 0 .. 31 : i + 8 * 16 \notin 0 .. 31
    BY DEF Regs
  <2> QED BY <2>1 DEF Down
<1>9. {} \in Regs /\ w[16] \in Regs /\ 16 - 16 = 0 /\ \A x \in Regs : pw[0][x] = x
  BY <1>1 DEF Regs, IsThrough, IsPower
<1>10. pw[16 - 16][w[16]] = SymDiff(u[16], pw[16 - 16][Down(r, 8 * 16)])
  BY <1>7 DEF RoundKept
<1>11. w[16] = SymDiff(u[16], {})
  BY <1>8, <1>9, <1>10
<1> QED BY <1>2, <1>11, XorLaws

\* A round makes a register of a register, whatever its bytes.
LEMMA RoundType == ASSUME NEW r \in Regs, NEW buf PROVE UnrolledRound(r, buf) \in Regs
<1>1. PICK u : /\ u \in [0 .. 16 -> Regs] /\ u[0] = {}
               /\ \A i \in 1 .. 16 : u[i] = UnrolledStep(u[i - 1], Indices(16)[i], r, buf)
               /\ UnrolledRound(r, buf) = u[16]
  BY UnrolledSteps, Zenon
<1>2. 16 \in 0 .. 16
  OBVIOUS
<1> QED BY <1>1, <1>2

\* The k-th round of a buffer.
RoundStep(r, k, buf) == UnrolledRound(r, SubSeq(buf, 16 * k - 15, 16 * k))

\* The rounds of a buffer.
LEMMA RoundSteps ==
  ASSUME NEW X, NEW buf \in Seq(X)
  PROVE  \E w : /\ w \in [0 .. (Len(buf) \div 16) -> Regs] /\ w[0] = CRC_SEED
                /\ \A i \in 1 .. (Len(buf) \div 16) : w[i] = RoundStep(w[i - 1], Indices(Len(buf) \div 16)[i], buf)
                /\ Rounds(buf) = w[(Len(buf) \div 16)]
<1> DEFINE n == (Len(buf) \div 16)
           g == [p \in (0 .. n) \X Regs |-> IF p[1] = 0 THEN CRC_SEED ELSE RoundStep(p[2], Indices(Len(buf) \div 16)[p[1]], buf)]
           Rhs(f) == [s \in SUBSET (1 .. n) |->
             IF s = {} THEN CRC_SEED ELSE RoundStep(f[s \ {Max(s)}], Indices(Len(buf) \div 16)[Max(s)], buf)]
           ff == CHOOSE f : f = Rhs(f)
<1>1. n \in Nat /\ CRC_SEED \in Regs
  BY DEF Regs, CRC_SEED
<1>2. \A i \in 1 .. n : \A v \in Regs : RoundStep(v, Indices(Len(buf) \div 16)[i], buf) \in Regs
  BY RoundType DEF RoundStep
<1>3. Rounds(buf) = ff[1 .. n]
  <2>1. DOMAIN Indices(Len(buf) \div 16) = 1 .. n
    BY DEF Indices
  <2> QED BY <1>1, <2>1 DEF Rounds, RoundStep, Indices, FoldLeft, MapThenFoldSet
<1> HIDE DEF n
<1>4. Steps(n, Regs, CRC_SEED, g)
  <2>1. g \in [(0 .. n) \X Regs -> Regs]
    <3>1. \A p \in (0 .. n) \X Regs : p[1] # 0 => p[1] \in 1 .. n /\ p[2] \in Regs
      BY <1>1
    <3>2. \A p \in (0 .. n) \X Regs :
            (IF p[1] = 0 THEN CRC_SEED ELSE RoundStep(p[2], Indices(Len(buf) \div 16)[p[1]], buf)) \in Regs
      BY <1>1, <1>2, <3>1
    <3> QED BY <3>2
  <2> HIDE DEF g
  <2> QED BY <1>1, <2>1 DEF Steps
<1>5. \A i \in 1 .. n : \A v \in Regs : g[<<i, v>>] = RoundStep(v, Indices(Len(buf) \div 16)[i], buf)
  <2> TAKE i \in 1 .. n
  <2> TAKE v \in Regs
  <2>1. i \in 0 .. n /\ i # 0
    BY <1>1
  <2>2. <<i, v>> \in (0 .. n) \X Regs
    BY <2>1
  <2> QED BY <2>1, <2>2
<1> HIDE DEF g
<1>6. PICK h : IsLeftFold(h, n, Regs, CRC_SEED, g)
  BY <1>4, FoldsLeft
<1>7. h = Rhs(h)
  <2>1. h \in [SUBSET (1 .. n) -> Regs] /\ h[{}] = CRC_SEED
    BY <1>6 DEF IsLeftFold
  <2>2. ASSUME NEW s \in SUBSET (1 .. n), s # {}
        PROVE h[s] = RoundStep(h[s \ {Max(s)}], Indices(Len(buf) \div 16)[Max(s)], buf)
    <3>1. Max(s) \in 1 .. n /\ h[s] = g[<<Max(s), h[s \ {Max(s)}]>>]
      BY <1>6, <2>2 DEF IsLeftFold
    <3>2. h[s \ {Max(s)}] \in Regs
      BY <2>1
    <3> QED BY <1>5, <3>1, <3>2
  <2>3. h = [s \in SUBSET (1 .. n) |->
               IF s = {} THEN CRC_SEED ELSE RoundStep(h[s \ {Max(s)}], Indices(Len(buf) \div 16)[Max(s)], buf)]
    BY <2>1, <2>2
  <2> QED BY <2>3
<1>8. ff = Rhs(ff)
  <2> HIDE DEF Rhs
  <2> QED BY <1>7
<1> HIDE DEF ff
<1>9. FoldsBy(ff, n, Regs, CRC_SEED, g)
  <2>1. ff[{}] = CRC_SEED
    BY <1>8
  <2>2. ASSUME NEW i \in 1 .. n, ff[1 .. i - 1] \in Regs PROVE ff[1 .. i] = g[<<i, ff[1 .. i - 1]>>]
    <3>1. /\ 1 .. i \in SUBSET (1 .. n) /\ 1 .. i # {}
          /\ Max(1 .. i) = i /\ (1 .. i) \ {i} = 1 .. i - 1
      BY <1>1, FoldOfPrefix
    <3>2. ff[1 .. i] = RoundStep(ff[(1 .. i) \ {Max(1 .. i)}], Indices(Len(buf) \div 16)[Max(1 .. i)], buf)
      BY <1>8, <3>1
    <3> QED BY <1>5, <2>2, <3>1, <3>2
  <2> QED BY <1>4, <2>1, <2>2 DEF FoldsBy
<1>10. PICK w : IsSteps(w, n, Regs, CRC_SEED, g) /\ ff[1 .. n] = w[n]
  BY <1>9, FoldSteps
<1>11. w \in [0 .. n -> Regs] /\ w[0] = CRC_SEED
  BY <1>10 DEF IsSteps
<1>12. \A i \in 1 .. n : w[i] = RoundStep(w[i - 1], Indices(Len(buf) \div 16)[i], buf)
  <2> TAKE i \in 1 .. n
  <2>1. w[i - 1] \in Regs
    BY <1>1, <1>11
  <2> QED BY <1>5, <1>10, <2>1 DEF IsSteps
<1> QED BY <1>3, <1>10, <1>11, <1>12 DEF n

\* Bytes from the middle of a buffer go through the register as the buffer does.
LEMMA ThroughMiddle ==
  ASSUME NEW w, NEW r, NEW buf, NEW n \in Nat, IsThrough(w, r, buf, n),
         NEW a \in Nat, NEW m \in Nat, a + m <= n, NEW c, \A i \in 1 .. m : c[i] = buf[a + i]
  PROVE  IsThrough([i \in 0 .. m |-> w[a + i]], w[a], c, m)
<1> DEFINE v == [i \in 0 .. m |-> w[a + i]]
<1>1. \A i \in 0 .. m : a + i \in 0 .. n
  OBVIOUS
<1>2. v \in [0 .. m -> Regs]
  BY <1>1 DEF IsThrough
<1>3. v[0] = w[a]
  <2>1. 0 \in 0 .. m /\ a + 0 = a
    OBVIOUS
  <2> QED BY <2>1
<1>4. ASSUME NEW i \in 1 .. m PROVE v[i] = Through(v[i - 1], c[i])
  <2>1. a + i \in 1 .. n /\ (a + i) - 1 = a + (i - 1) /\ i \in 0 .. m /\ i - 1 \in 0 .. m
    OBVIOUS
  <2>2. w[a + i] = Through(w[(a + i) - 1], buf[a + i])
    BY <2>1 DEF IsThrough
  <2>3. v[i] = w[a + i] /\ v[i - 1] = w[a + (i - 1)]
    BY <2>1
  <2> QED BY <2>1, <2>2, <2>3
<1> HIDE DEF v
<1>5. IsThrough(v, w[a], c, m)
  BY <1>2, <1>3, <1>4 DEF IsThrough
<1> QED BY <1>5 DEF v

\* The rounds of the unrolled loop put sixteen bytes each through the register.
LEMMA RoundsAreThrough ==
  ASSUME NEW X, NEW buf \in Seq(X), NEW w, IsThrough(w, CRC_SEED, buf, Len(buf))
  PROVE  Rounds(buf) = w[16 * (Len(buf) \div 16)]
<1> DEFINE n == Len(buf)
           m == n \div 16
<1>1. n \in Nat /\ m \in Nat /\ 16 * m <= n
  <2>1. n \in Nat
    OBVIOUS
  <2> HIDE DEF n
  <2> QED BY <2>1
<1>2. PICK rs : /\ rs \in [0 .. m -> Regs] /\ rs[0] = CRC_SEED
                /\ \A k \in 1 .. m : rs[k] = RoundStep(rs[k - 1], Indices(m)[k], buf)
                /\ Rounds(buf) = rs[m]
  BY RoundSteps, Zenon
<1>3. w \in [0 .. n -> Regs] /\ w[0] = CRC_SEED /\ IsThrough(w, CRC_SEED, buf, n)
  BY DEF IsThrough
<1>4. \A a \in Nat : \A z \in Nat : a + z <= n =>
        /\ Len(SubSeq(buf, a + 1, a + z)) = z
        /\ \A i \in 1 .. z : SubSeq(buf, a + 1, a + z)[i] = buf[a + i]
  <2> TAKE a \in Nat
  <2> TAKE z \in Nat
  <2> HAVE a + z <= n
  <2>1. a + 1 \in 1 .. n + 1 /\ a + z \in (a + 1) - 1 .. n /\ (a + z) - (a + 1) + 1 = z
    BY <1>1
  <2>2. /\ Len(SubSeq(buf, a + 1, a + z)) = (a + z) - (a + 1) + 1
        /\ \A i \in 1 .. (a + z) - (a + 1) + 1 : SubSeq(buf, a + 1, a + z)[i] = buf[(a + 1) + i - 1]
    BY <2>1, SubSeqProperties
  <2>3. \A i \in 1 .. z : (a + 1) + i - 1 = a + i
    OBVIOUS
  <2> QED BY <2>1, <2>2, <2>3
<1> HIDE DEF n, m
<1> DEFINE P == {k \in Nat : k <= m => rs[k] = w[16 * k]}
<1>5. 0 \in P
  <2>1. 16 * 0 = 0
    OBVIOUS
  <2> QED BY <1>2, <1>3, <2>1
<1>6. ASSUME NEW k \in Nat, k \in P PROVE k + 1 \in P
  <2> SUFFICES ASSUME k + 1 <= m PROVE rs[k + 1] = w[16 * (k + 1)]
    OBVIOUS
  <2> DEFINE j == k + 1
             a == 16 * k
             c == SubSeq(buf, a + 1, a + 16)
             v == [i \in 0 .. 16 |-> w[a + i]]
  <2>1. /\ j \in 1 .. m /\ j - 1 = k /\ k <= m /\ a \in Nat /\ a + 16 <= n /\ a \in 0 .. n
        /\ 16 * j - 15 = a + 1 /\ 16 * j = a + 16 /\ 16 \in 0 .. 16 /\ 16 \in Nat
    BY <1>1
  <2>2. rs[k] = w[a]
    BY <1>6, <2>1
  <2> HIDE DEF j, a
  <2>3. \A i \in 1 .. 16 : c[i] = buf[a + i]
    BY <1>4, <2>1
  <2> HIDE DEF c
  <2>4. IsThrough(v, w[a], c, 16)
    <3> DEFINE q == 16
               x == [i \in 0 .. q |-> w[a + i]]
    <3>1. q \in Nat /\ a + q <= n /\ \A i \in 1 .. q : c[i] = buf[a + i]
      BY <2>1, <2>3
    <3>2. a \in Nat /\ n \in Nat /\ IsThrough(w, CRC_SEED, buf, n)
      BY <1>1, <1>3, <2>1
    <3> HIDE DEF q
    <3>3. IsThrough(x, w[a], c, q)
      BY <3>1, <3>2, ThroughMiddle
    <3> QED BY <3>3 DEF q
  <2>5. w[a] \in Regs
    BY <1>3, <2>1
  <2>6. v[16] = w[a + 16]
    BY <2>1
  <2> HIDE DEF v
  <2>7. UnrolledRound(w[a], c) = v[16]
    BY <2>4, <2>5, RoundIs
  <2>8. Indices(m)[j] = j
    BY <2>1 DEF Indices
  <2>9. RoundStep(w[a], j, buf) = UnrolledRound(w[a], c)
    BY <2>1 DEF RoundStep, c
  <2>10. rs[j] = RoundStep(rs[k], j, buf)
    BY <1>2, <2>1, <2>8
  <2> QED BY <2>1, <2>2, <2>6, <2>7, <2>9, <2>10 DEF j
<1> HIDE DEF P
<1>7. \A k \in Nat : k \in P
  BY <1>5, <1>6, NatInduct
<1>8. rs[m] = w[16 * m]
  BY <1>1, <1>7 DEF P
<1> QED BY <1>2, <1>8 DEF m, n

\* The unrolled loop of get_crc32, which takes sixteen bytes at a time through
\* sixteen tables, and update_slow for what is left of a buffer compute the
\* CRC-32 that the polynomial defines, for every buffer of every length.
THEOREM CrcIsThatOfPolynomial ==
  ASSUME NEW X, NEW buf \in Seq(X)
  PROVE  CrcSlices(buf)
<1>1. PICK w : IsThrough(w, CRC_SEED, buf, Len(buf)) /\ BitwiseCrc(buf) = CRC_SEED \ w[Len(buf)]
  BY BitwiseThrough
<1>2. Rounds(buf) = w[16 * (Len(buf) \div 16)]
  BY <1>1, RoundsAreThrough
<1> DEFINE n == Len(buf)
           a == 16 * (n \div 16)
           z == n - a
           t == SubSeq(buf, a + 1, n)
           u == [i \in 0 .. z |-> w[a + i]]
<1>3. n \in Nat /\ a \in Nat /\ z \in Nat /\ a + z = n /\ a + z <= n /\ a \in 0 .. n
  <2>1. n \in Nat
    OBVIOUS
  <2> HIDE DEF n
  <2>2. n \div 16 \in Nat /\ 16 * (n \div 16) <= n
    BY <2>1
  <2> QED BY <2>1, <2>2
<1>4. t \in Seq(X) /\ Len(t) = z /\ \A i \in 1 .. z : t[i] = buf[a + i]
  <2>1. a + 1 \in 1 .. n + 1 /\ n \in (a + 1) - 1 .. n /\ n - (a + 1) + 1 = z
    BY <1>3
  <2> HIDE DEF a, z
  <2>2. /\ SubSeq(buf, a + 1, n) \in Seq(X)
        /\ Len(SubSeq(buf, a + 1, n)) = n - (a + 1) + 1
        /\ \A i \in 1 .. n - (a + 1) + 1 : SubSeq(buf, a + 1, n)[i] = buf[(a + 1) + i - 1]
    BY <2>1, SubSeqProperties
  <2>3. \A i \in 1 .. z : (a + 1) + i - 1 = a + i
    BY <1>3
  <2> QED BY <2>1, <2>2, <2>3 DEF t
<1>5. GetCrc32(buf) = CRC_SEED \ UpdateSlow(w[a], t)
  BY <1>2 DEF GetCrc32
<1>6. IsThrough(w, CRC_SEED, buf, n) /\ BitwiseCrc(buf) = CRC_SEED \ w[n]
  BY <1>1
<1> HIDE DEF n, a, z, t
<1>7. w[a] \in Regs
  BY <1>3, <1>6 DEF IsThrough
<1>8. PICK v : IsThrough(v, w[a], t, z) /\ UpdateSlow(w[a], t) = v[z]
  <2>1. \E v : IsThrough(v, w[a], t, Len(t)) /\ UpdateSlow(w[a], t) = v[Len(t)]
    BY <1>4, <1>7, SlowThrough
  <2> QED BY <1>4, <2>1, Zenon
<1>9. IsThrough(u, w[a], t, z)
  BY <1>3, <1>4, <1>6, ThroughMiddle
<1>10. u[z] = w[n]
  BY <1>3
<1> HIDE DEF u
<1>11. u = v
  BY <1>3, <1>8, <1>9, ThroughOnce
<1>12. UpdateSlow(w[a], t) = w[n]
  BY <1>8, <1>10, <1>11
<1> QED BY <1>5, <1>6, <1>12 DEF CrcSlices

=============================================================================

----------------------------- MODULE BasicReal -----------------------------
(***************************************************************************)
(* basicreal_to_u32 and u32_to_basicreal, src/util/basic_real.rs, for any  *)
(* width of the mantissa; 23 bits in the code.  A word and an integer have *)
(* Width bits, 32 in the code: a sign, a mantissa and 8 bits of exponent.  *)
(* A negative u32 is the two's complement of its value, as in the code's   *)
(* casts between u32 and i32.                                              *)
(***************************************************************************)
EXTENDS Integers

CONSTANT MantBits

ASSUME MantBitsAssumption == MantBits \in Nat \ {0}

Width == MantBits + 9
Hidden == 2 ^ MantBits       \* the mantissa's leading bit, not stored: 0x80_0000
Words == 0 .. 2 ^ Width - 1
ExpOfOne == 129 + MantBits   \* the exponent of values not shifted: 152

Signed(n) == IF n >= 2 ^ (Width - 1) THEN n - 2 ^ Width ELSE n
Unsigned(i) == i % 2 ^ Width

Exponent(w) == w \div 2 ^ (MantBits + 1)
IsNegative(w) == (w \div Hidden) % 2 = 1
Value(w) == (w % Hidden) + Hidden

\* wrapping_shl and wrapping_shr take the distance modulo the width; the
\* value shifted is not negative.
WrappingShl(v, k) == Signed((v * 2 ^ (k % Width)) % 2 ^ Width)
WrappingShr(v, k) == v \div 2 ^ (k % Width)

\* Mutant: the exponent is taken for that of the bit after the leading one.
Shifted_Late(w) ==
  LET e == Exponent(w) - ExpOfOne + 1
  IN IF e < 0 THEN WrappingShr(Value(w), -e) ELSE WrappingShl(Value(w), e)

Shifted(w) ==
  LET e == Exponent(w) - ExpOfOne
  IN IF e < 0 THEN WrappingShr(Value(w), -e) ELSE WrappingShl(Value(w), e)

BasicrealToU32(w) ==
  IF Exponent(w) \in {0, 128} THEN 0
  ELSE IF ~IsNegative(w) THEN Unsigned(Shifted(w))
  ELSE IF Shifted(w) = -(2 ^ (Width - 1)) THEN 1
  ELSE Unsigned(-Shifted(w))

\* Mutant: no loop for values that are too wide for the mantissa.
Normal_Narrow(v) ==
  IF v >= Hidden - 1 THEN <<v, 0>>
  ELSE LET k == CHOOSE j \in 1 .. MantBits : Hidden <= v * 2 ^ j /\ v * 2 ^ j < 2 * Hidden
       IN <<v * 2 ^ k, -k>>

\* The two loops: a value below Hidden - 1 is doubled until its leading bit
\* stands at Hidden, any other halved until nothing stands above Hidden.
\* Hidden - 1 itself is left as it is.
Normal(v) ==
  IF v >= Hidden - 1
  THEN LET k == CHOOSE j \in 0 .. 8 : /\ v \div 2 ^ j < 2 * Hidden
                                      /\ \A i \in 0 .. j - 1 : v \div 2 ^ i >= 2 * Hidden
       IN <<v \div 2 ^ k, k>>
  ELSE LET k == CHOOSE j \in 1 .. MantBits : Hidden <= v * 2 ^ j /\ v * 2 ^ j < 2 * Hidden
       IN <<v * 2 ^ k, -k>>

Magnitude(n) == IF Signed(n) < 0 THEN -Signed(n) ELSE n

U32ToBasicreal(n) ==
  IF n = 0 THEN 0
  ELSE LET m == Normal(Magnitude(n))
       IN (m[1] % Hidden) + (IF Signed(n) < 0 THEN Hidden ELSE 0)
            + (ExpOfOne + m[2]) * 2 ^ (MantBits + 1)
-----------------------------------------------------------------------------
\* The bits that a number has beyond the mantissa's.
Excess(v) == CHOOSE k \in 0 .. 9 : /\ v \div 2 ^ k < 2 * Hidden
                                   /\ \A j \in 0 .. k - 1 : v \div 2 ^ j >= 2 * Hidden

\* A number that is written and read back keeps its sign and its leading
\* MantBits + 1 bits, which are all of it if it has no more.  The number at
\* which the two loops meet is not kept, and i32::MIN has no magnitude.
KeepsLeading(n) ==
  LET v == Magnitude(n)
      kept == (v \div 2 ^ Excess(v)) * 2 ^ Excess(v)
  IN v # Hidden - 1 /\ v < 2 ^ (Width - 1) =>
       Signed(BasicrealToU32(U32ToBasicreal(n))) = IF Signed(n) < 0 THEN -kept ELSE kept

\* The value a word of MKS$ format stands for, without its fraction, as long
\* as the value is at least 1 and fits an i32.
Whole(w) == Exponent(w) > 128 /\ Exponent(w) < 128 + Width
Meant(w) == (Value(w) * 2 ^ (Exponent(w) - 129)) \div Hidden

DecodesWhole(w) ==
  Whole(w) => Signed(BasicrealToU32(w)) = (IF IsNegative(w) THEN -Meant(w) ELSE Meant(w))
=============================================================================

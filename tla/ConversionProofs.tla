-------------------------- MODULE ConversionProofs --------------------------
(***************************************************************************)
(* The text of a sample, for every set of samples the converter may        *)
(* deliver: what the run of Conversion finds by evaluating all of them,    *)
(* as a matter of arithmetic.                                              *)
(***************************************************************************)
EXTENDS Conversion, TLAPS

(* a \div 32767, the division by the full scale of the converter.          *)
LEMMA Division ==
  ASSUME NEW a \in Nat
  PROVE  /\ a \div 32767 \in Nat
         /\ (a \div 32767) * 32767 <= a
         /\ a < (a \div 32767) * 32767 + 32767
OBVIOUS

(* A division by ten splits a number into its last digit and the rest; the *)
(* digits of a code are such divisions, repeated.                          *)
LEMMA Decimal ==
  ASSUME NEW c \in Nat
  PROVE  /\ c % 10 \in 0 .. 9 /\ c \div 10 \in Nat
         /\ c = 10 * (c \div 10) + (c % 10)
OBVIOUS

LEMMA Decades ==
  ASSUME NEW c \in Nat
  PROVE  c \div 100 = (c \div 10) \div 10 /\ c \div 1000 = (c \div 100) \div 10
OBVIOUS

(* The conversion to uint16_t of what fits and of what is negative.        *)
LEMMA Kept ==
  ASSUME NEW a \in Int, a >= 0, a < 65536
  PROVE  a % 65536 = a
BY Z3

LEMMA Wrapped ==
  ASSUME NEW a \in Int, a >= -65536, a < 0
  PROVE  a % 65536 = a + 65536
BY Z3

(* The division of C truncates: the quotient is less than one away, on the *)
(* side of zero.                                                           *)
LEMMA Truncates ==
  ASSUME NEW a \in Int
  PROVE  /\ Quotient(a, 32767) \in Int
         /\ a < 0 => a <= Quotient(a, 32767) * 32767
         /\ a - Quotient(a, 32767) * 32767 > -32767
         /\ a - Quotient(a, 32767) * 32767 < 32767
<1>1. CASE a >= 0
  BY <1>1, Division DEF Quotient
<1>2. CASE a < 0
  <2>1. -a \in Nat
    BY <1>2
  <2>2. /\ (-a) \div 32767 \in Nat
        /\ ((-a) \div 32767) * 32767 <= -a
        /\ -a < ((-a) \div 32767) * 32767 + 32767
    BY <2>1, Division
  <2>3. Quotient(a, 32767) = -((-a) \div 32767)
    BY <1>2 DEF Quotient
  <2>4. QED
    BY <2>2, <2>3
<1>3. QED
  BY <1>1, <1>2

(* What Code computes before the conversion to uint16_t.                   *)
LEMMA Scaled ==
  ASSUME NEW x \in Int
  PROVE  \E q \in Int : /\ Code(x) = (q + 3276) % 65536
                        /\ x < 0 => x * 5560 <= q * 32767
                        /\ x * 5560 - q * 32767 > -32767
                        /\ x * 5560 - q * 32767 < 32767
<1>1. x * 1112 * 5 = x * 5560 /\ x * 5560 \in Int /\ (x < 0 => x * 5560 < 0)
  OBVIOUS
<1>2. Code(x) = (Quotient(x * 5560, 32767) + 3276) % 65536
  BY <1>1 DEF Code
<1>3. /\ Quotient(x * 5560, 32767) \in Int
      /\ x * 5560 < 0 => x * 5560 <= Quotient(x * 5560, 32767) * 32767
      /\ x * 5560 - Quotient(x * 5560, 32767) * 32767 > -32767
      /\ x * 5560 - Quotient(x * 5560, 32767) * 32767 < 32767
  BY <1>1, Truncates
<1>4. QED
  BY <1>1, <1>2, <1>3

(* A sample that fits has a code of four digits, near its millivolts.      *)
LEMMA FitsCode ==
  ASSUME NEW x \in Int, -32768 <= x, x <= 32767, Fits(x)
  PROVE  /\ Code(x) \in Int /\ Code(x) >= 0 /\ Code(x) <= 9999
         /\ x * 5560 - (Code(x) - 3276) * 32767 > -32767
         /\ x * 5560 - (Code(x) - 3276) * 32767 < 32767
<1>1. PICK q \in Int : /\ Code(x) = (q + 3276) % 65536
                       /\ x < 0 => x * 5560 <= q * 32767
                       /\ x * 5560 - q * 32767 > -32767
                       /\ x * 5560 - q * 32767 < 32767
  BY Scaled
<1>2. q + 3276 >= 0 /\ q + 3276 <= 9999
  BY <1>1 DEF Fits
<1>3. Code(x) = q + 3276
  BY <1>1, <1>2, Kept
<1>4. QED
  BY <1>1, <1>2, <1>3

(* One that does not fit wraps to a code of five digits.                   *)
LEMMA WrappedCode ==
  ASSUME NEW x \in Int, -32768 <= x, x <= 32767, ~Fits(x)
  PROVE  Code(x) \in Int /\ Code(x) >= 10000
<1>1. PICK q \in Int : /\ Code(x) = (q + 3276) % 65536
                       /\ x * 5560 - q * 32767 > -32767
                       /\ x * 5560 - q * 32767 < 32767
  BY Scaled
<1>2. q + 3276 < 0 /\ q + 3276 >= -6000
  BY <1>1 DEF Fits
<1>3. Code(x) = q + 3276 + 65536
  BY <1>1, <1>2, Wrapped
<1>4. QED
  BY <1>2, <1>3

(* Digits writes a code of four digits in full, and a longer one with a     *)
(* first character that is no digit.                                       *)
LEMMA DigitsRead ==
  ASSUME NEW c \in Int, c >= 0, c <= 9999
  PROVE  Legible(Digits(c)) /\ Value(Digits(c)) = c
<1>1. /\ c \in Nat /\ c \div 10 \in Nat /\ c \div 100 \in Nat /\ c \div 1000 \in Nat
      /\ c % 10 \in 0 .. 9 /\ (c \div 10) % 10 \in 0 .. 9
      /\ (c \div 100) % 10 \in 0 .. 9
      /\ c = 10 * (c \div 10) + (c % 10)
      /\ c \div 10 = 10 * (c \div 100) + ((c \div 10) % 10)
      /\ c \div 100 = 10 * (c \div 1000) + ((c \div 100) % 10)
  BY Decimal, Decades
<1>2. c \div 1000 \in 0 .. 9
  BY <1>1
<1>3. Legible(Digits(c))
  BY <1>1, <1>2 DEF Legible, Digits, Zero
<1>4. Value(Digits(c)) = c
  BY <1>1 DEF Value, Digits, Zero
<1>5. QED
  BY <1>3, <1>4

(* A code of five digits leaves a character past '9' in the first place.   *)
LEMMA DigitsWrong ==
  ASSUME NEW c \in Int, c >= 10000
  PROVE  ~Legible(Digits(c))
<1>1. c \div 1000 >= 10 /\ c \div 1000 \in Int
  BY Z3
<1>2. Digits(c)[1] = (c \div 1000) + Zero
  BY DEF Digits
<1>3. QED
  BY <1>1, <1>2 DEF Legible, Zero

(* What stands in FsWriteBuf is blank or the text of the sample.           *)
TextInv ==
  /\ sample \in Int /\ -32768 <= sample /\ sample <= 32767
  /\ text = Blank \/ text = Digits(Code(sample))

(* The buffer holds the text of the sample that was converted into it.     *)
LEMMA TextInvariance == Spec => []TextInv
<1>1. Init => TextInv
  BY SampleAssumption DEF SampleAssumption, Init, TextInv
<1>2. TextInv /\ [Next]_vars => TextInv'
  BY DEF TextInv, Next, Convert, vars
<1>3. QED
  BY <1>1, <1>2, PTL DEF Spec

(* The text of a sample that fits reads as its millivolts plus 3276, less   *)
(* than one millivolt away.                                                *)
THEOREM FittingReadsBack == Spec => []ReadsBack
<1>1. ASSUME TextInv PROVE ReadsBack
  <2> SUFFICES ASSUME text # Blank, Fits(sample)
               PROVE  LET error == sample * 5560 - (Value(text) - 3276) * 32767 IN
                      Legible(text) /\ error > -32767 /\ error < 32767
    BY DEF ReadsBack
  <2>1. /\ sample \in Int /\ -32768 <= sample /\ sample <= 32767
        /\ text = Digits(Code(sample))
    BY <1>1 DEF TextInv
  <2>2. /\ Code(sample) \in Int /\ Code(sample) >= 0 /\ Code(sample) <= 9999
        /\ sample * 5560 - (Code(sample) - 3276) * 32767 > -32767
        /\ sample * 5560 - (Code(sample) - 3276) * 32767 < 32767
    BY <2>1, FitsCode
  <2>3. Legible(text) /\ Value(text) = Code(sample)
    BY <2>1, <2>2, DigitsRead
  <2>4. QED
    BY <2>2, <2>3
<1>2. QED
  BY TextInvariance, <1>1, PTL

(* A sample that wraps never reads as four digits.                         *)
THEOREM WrappingIsVisible == Spec => []NeverMisread
<1>1. ASSUME TextInv PROVE NeverMisread
  BY <1>1, WrappedCode, DigitsWrong DEF TextInv, NeverMisread
<1>2. QED
  BY TextInvariance, <1>1, PTL
=============================================================================

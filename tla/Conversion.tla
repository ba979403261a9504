----------------------------- MODULE Conversion -----------------------------
(***************************************************************************)
(* What sprintf_data_to_buf makes of one sample: four characters, of the    *)
(* volts at the input times 1000 plus 3276, computed as an int and stored   *)
(* as a uint16_t.  The order of rows and halves is in Acquisition; here one *)
(* position of g_sAd7606Buf takes every value an int16_t can have.          *)
(***************************************************************************)
EXTENDS Integers

CONSTANT Sample     \* what the AD7606 may deliver: all of an int16_t

ASSUME SampleAssumption ==
    \A x \in Sample : x \in Int /\ -32768 <= x /\ x <= 32767

VARIABLES sample,   \* g_sAd7606Buf[i*8+j]
          text      \* its four characters in FsWriteBuf[i]

vars == <<sample, text>>

Zero == 48                      \* 0x30
Blank == <<0, 0, 0, 0>>         \* FsWriteBuf is zero before the first pass

\* a / b of C, which truncates, for b > 0.
Quotient(a, b) == IF a >= 0 THEN a \div b ELSE -((-a) \div b)

(* Mutated form of Code: the product is kept in 16 bits.                    *)
CodeShort(x) == (Quotient((x * 1112 * 5) % 65536, 32767) + 3276) % 65536

\* ch[j]; the conversion to uint16_t is modulo 2^16.
Code(x) == (Quotient(x * 1112 * 5, 32767) + 3276) % 65536

(* Mutated form of Digits: the thousands are reduced like the other digits. *)
DigitsReduced(ch) ==
    <<((ch \div 1000) % 10) + Zero, ((ch \div 100) % 10) + Zero,
      ((ch \div 10) % 10) + Zero, (ch % 10) + Zero>>

\* FsWriteBuf[i][0..3]; the thousands are not reduced modulo 10.
Digits(ch) ==
    <<(ch \div 1000) + Zero, ((ch \div 100) % 10) + Zero,
      ((ch \div 10) % 10) + Zero, (ch % 10) + Zero>>

Init == sample \in Sample /\ text = Blank

Convert == text' = Digits(Code(sample)) /\ UNCHANGED sample

Next == Convert

Spec == Init /\ [][Next]_vars

-----------------------------------------------------------------------------
Legible(t) == \A i \in 1 .. 4 : t[i] \in Zero .. Zero + 9

Value(t) == 1000 * (t[1] - Zero) + 100 * (t[2] - Zero)
            + 10 * (t[3] - Zero) + (t[4] - Zero)

\* x / 32767 * 5 * 1.112 volts is above -3.277 V, the least that four digits
\* can hold with the offset.
Fits(x) == x * 5560 > -3277 * 32767

\* The four characters of a sample that fits are digits, and read as the
\* input in millivolts plus 3276, less than one millivolt away
\* (sdmmc_fatfs.c:154 and 259).
ReadsBack ==
    text # Blank /\ Fits(sample) =>
        LET error == sample * 5560 - (Value(text) - 3276) * 32767 IN
        Legible(text) /\ error > -32767 /\ error < 32767

\* A sample below what fits wraps in uint16_t, and is never written as four
\* digits that a reader would take for another voltage (sdmmc_fatfs.c:264).
NeverMisread ==
    text # Blank /\ ~Fits(sample) => ~Legible(text)
=============================================================================

------------------------------ MODULE Numerals ------------------------------
(***************************************************************************)
(* Positional notation, most significant digit first, as recursive         *)
(* functions: what the codecs and the byte layouts convert between.        *)
(***************************************************************************)
EXTENDS Integers, Sequences

(* The numbers that the prefixes of a sequence of digits stand for, by     *)
(* their lengths, and the number of the whole sequence.                    *)
Prefixes(digits, base) ==
  LET number[i \in 0 .. Len(digits)] ==
        IF i = 0 THEN 0 ELSE number[i - 1] * base + digits[i]
  IN  number

Value(digits, base) == Prefixes(digits, base)[Len(digits)]

(* The powers of a base up to the k-th, and the k-th: how many numerals    *)
(* with k digits there are.                                                *)
Powers(base, k) ==
  LET power[i \in 0 .. k] == IF i = 0 THEN 1 ELSE power[i - 1] * base
  IN  power

Power(base, k) == Powers(base, k)[k]
=============================================================================

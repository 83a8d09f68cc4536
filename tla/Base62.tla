------------------------------- MODULE Base62 -------------------------------
(***************************************************************************)
(* The KSUID string codec (chronoid/ksuid/base62.c and the AVX2 encoder    *)
(* chronoid/ksuid/encode_avx2.c): conversion between Limbs digits in base  *)
(* LimbBase and Digits digits in base Radix by repeated long division, and *)
(* chronoid_ksuid_parse around the decoder.  One action is one round of    *)
(* the outer loop; the division inside it is a recursion over the digits.  *)
(*                                                                         *)
(* A character is its value in the alphabet, or Radix if it is in none     *)
(* (module Base62Alphabet is about the characters themselves).             *)
(***************************************************************************)
EXTENDS Integers, Sequences, Numerals

CONSTANTS
  LimbBase,   \* 2^32
  Limbs,      \* 5
  Radix,      \* 62
  Digits,     \* 27
  ByteSpan    \* 2^8, what a cell of the decoder's digit arrays can hold

(* What the code takes for granted of its widths. *)
ConstantsFit ==
  /\ Limbs \in Nat \ {0} /\ Digits \in Nat \ {0}
  /\ Radix \in Nat \ {0, 1} /\ LimbBase \in Nat /\ LimbBase > Radix
  /\ ByteSpan \in Nat /\ ByteSpan > Radix
  /\ Power(Radix, Digits) >= Power(LimbBase, Limbs)    \* every KSUID has a string

VARIABLES
  op,     \* "encode", "columns" (the AVX2 encoder), "decode"; "idle"
  input,  \* what is being converted
  bp,     \* the number still to be converted, most significant digit first
  n,      \* cells of the result still to be written, counted from the left
  buf,    \* the result so far: a function on 1 .. Digits or 1 .. Limbs
  id,     \* the caller's KSUID, which chronoid_ksuid_parse may replace
  ret     \* status of the last conversion

vars == <<op, input, bp, n, buf, id, ret>>

Limb   == 0 .. (LimbBase - 1)
Ids    == [1 .. Limbs -> Limb]
Chars  == 0 .. Radix
Texts  == [1 .. Digits -> Chars]
Blank  == -1        \* a cell that has not been written
Kept   == << >>     \* the caller's KSUID as it was before the call

Init ==
  /\ op = "idle"
  /\ input = << >> /\ bp = << >> /\ buf = << >>
  /\ n = 0
  /\ id = Kept
  /\ ret = "OK"

-----------------------------------------------------------------------------
(* One digit of a long division: the digit of the quotient is cut to the   *)
(* width of its cell and dropped while all before it are zero.             *)
NextTrimmed(acc, d, base, divisor, cell) ==
  LET value == d + acc.rem * base
      digit == value \div divisor
  IN  [quo |-> IF acc.quo # << >> \/ digit # 0
               THEN Append(acc.quo, digit % cell) ELSE acc.quo,
       rem |-> value % divisor]

(* What the first i digits in base `base` leave, for every i, and one pass *)
(* over all of them: the quotient without leading zeros and the remainder. *)
TrimmedPasses(digits, base, divisor, cell) ==
  LET pass[i \in 0 .. Len(digits)] ==
        IF i = 0 THEN [quo |-> << >>, rem |-> 0]
        ELSE NextTrimmed(pass[i - 1], digits[i], base, divisor, cell)
  IN  pass

DivideTrimmed(digits, base, divisor, cell) ==
  TrimmedPasses(digits, base, divisor, cell)[Len(digits)]

(* CHRONOID_KSUID_DIV62_M: the reciprocal of Radix in a double-width word. *)
Word  == LimbBase * LimbBase
Magic == Word \div Radix

(* chronoid_ksuid_mulhi64_avx2: the high word of a product, from the four  *)
(* half-word products, each sum cut to a word.                             *)
MulHi(a, b) ==
  LET ah  == a \div LimbBase
      al  == a % LimbBase
      bh  == b \div LimbBase
      bl  == b % LimbBase
      ll  == al * bl
      lh  == al * bh
      hl  == ah * bl
      hh  == ah * bh
      mid == ((lh % LimbBase) + (hl % LimbBase) + (ll \div LimbBase)) % Word
  IN  (hh + (lh \div LimbBase) + (hl \div LimbBase) + (mid \div LimbBase)) % Word

(* Mutant: the estimate of the quotient is not corrected. *)
DivModUncorrected(value) ==
  LET q == MulHi(value, Magic) IN [quo |-> q, rem |-> (value - q * Radix) % Word]

(* chronoid_ksuid_divmod62_avx2: estimate by multiplying, then correct. *)
DivMod(value) ==
  LET q == MulHi(value, Magic)
      r == (value - q * Radix) % Word
  IN  IF r >= Radix THEN [quo |-> q + 1, rem |-> r - Radix]
                    ELSE [quo |-> q, rem |-> r]

(* The same in one lane of the AVX2 encoder: no digit is dropped. *)
NextInColumn(acc, d) ==
  LET qr == DivMod(d + acc.rem * LimbBase)
  IN  [quo |-> Append(acc.quo, qr.quo), rem |-> qr.rem]

ColumnPasses(digits) ==
  LET pass[i \in 0 .. Len(digits)] ==
        IF i = 0 THEN [quo |-> << >>, rem |-> 0]
        ELSE NextInColumn(pass[i - 1], digits[i])
  IN  pass

DivideColumn(digits) == ColumnPasses(digits)[Len(digits)]

-----------------------------------------------------------------------------
(* chronoid_base62_encode, and one lane of                                 *)
(* chronoid_ksuid_string_batch_avx2.                                       *)
EncodeBegins(x, how) ==
  /\ op' = how
  /\ input' = x
  /\ bp' = x
  /\ n' = Digits
  /\ buf' = [i \in 1 .. Digits |-> Blank]
  /\ UNCHANGED <<id, ret>>

EncodeRound ==
  /\ op = "encode" /\ bp # << >>
  /\ LET pass == DivideTrimmed(bp, LimbBase, Radix, LimbBase) IN
       /\ buf' = [buf EXCEPT ![n] = pass.rem]
       /\ bp' = pass.quo
  /\ n' = n - 1
  /\ UNCHANGED <<op, input, id, ret>>

(* Mutant: the head of the string is left as it was. *)
PaddedForgotten == buf

(* The head that no round has written is filled with zeros. *)
Padded == [i \in DOMAIN buf |-> IF i <= n THEN 0 ELSE buf[i]]

EncodeEnds ==
  /\ op = "encode" /\ bp = << >>
  /\ buf' = Padded
  /\ op' = "encoded"
  /\ ret' = "OK"
  /\ UNCHANGED <<input, bp, n, id>>

ColumnRound ==
  /\ op = "columns" /\ n > 0
  /\ LET pass == DivideColumn(bp) IN
       /\ buf' = [buf EXCEPT ![n] = pass.rem]
       /\ bp' = pass.quo
  /\ n' = n - 1
  /\ UNCHANGED <<op, input, id, ret>>

ColumnsEnd ==
  /\ op = "columns" /\ n = 0
  /\ op' = "encoded"
  /\ ret' = "OK"
  /\ UNCHANGED <<input, bp, n, buf, id>>

-----------------------------------------------------------------------------
(* chronoid_ksuid_parse and chronoid_base62_decode.                        *)
DecodeBegins(text) ==
  /\ input' = text
  /\ bp' = text
  /\ n' = Limbs
  /\ buf' = [i \in 1 .. Limbs |-> Blank]
  /\ IF \E i \in 1 .. Digits : text[i] = Radix
     THEN op' = "rejected" /\ ret' = "ERR_STR_VALUE"
     ELSE op' = "decode" /\ UNCHANGED ret
  /\ UNCHANGED id

(* chronoid_ksuid_parse looks at the length before anything else. *)
ParseWrongLength ==
  /\ op' = "rejected"
  /\ ret' = "ERR_STR_SIZE"
  /\ UNCHANGED <<input, bp, n, buf, id>>

(* The destination cannot hold another limb. *)
NoRoom == n < 1

(* The division is done before the room is checked. *)
DecodeRound ==
  /\ op = "decode" /\ bp # << >> /\ ~NoRoom
  /\ LET pass == DivideTrimmed(bp, Radix, LimbBase, ByteSpan) IN
       /\ buf' = [i \in DOMAIN buf |-> IF i = n THEN pass.rem ELSE buf[i]]
       /\ bp' = pass.quo
  /\ n' = n - 1
  /\ UNCHANGED <<op, input, id, ret>>

DecodeOverflows ==
  /\ op = "decode" /\ bp # << >> /\ NoRoom
  /\ op' = "rejected"
  /\ ret' = "ERR_STR_VALUE"
  /\ UNCHANGED <<input, bp, n, buf, id>>

(* The zero padding, and the copy to the caller's KSUID. *)
DecodeEnds ==
  /\ op = "decode" /\ bp = << >>
  /\ buf' = Padded
  /\ id' = Padded
  /\ op' = "decoded"
  /\ ret' = "OK"
  /\ UNCHANGED <<input, bp, n>>

(* The caller uses the result and starts another conversion. *)
Again ==
  /\ op \in {"encoded", "decoded", "rejected"}
  /\ op' = "idle"
  /\ input' = << >> /\ bp' = << >> /\ buf' = << >> /\ n' = 0
  /\ id' = Kept
  /\ UNCHANGED ret

Next ==
  \/ /\ op = "idle"
     /\ \/ \E x \in Ids, how \in {"encode", "columns"} : EncodeBegins(x, how)
        \/ \E text \in Texts : DecodeBegins(text)
        \/ ParseWrongLength
  \/ EncodeRound \/ EncodeEnds
  \/ ColumnRound \/ ColumnsEnd
  \/ DecodeRound \/ DecodeOverflows \/ DecodeEnds
  \/ Again

Spec == Init /\ [][Next]_vars

-----------------------------------------------------------------------------
(* Types of every variable; the encoder never runs off the left end of the *)
(* string, so 27 characters are always enough.                             *)
TypeOK ==
  /\ op \in {"idle", "encode", "columns", "encoded", "decode", "decoded", "rejected"}
  /\ input \in Ids \cup Texts \cup {<< >>}
  /\ bp \in Seq(Nat)
  /\ n \in {0} \cup DOMAIN buf
  /\ DOMAIN buf \in {1 .. Digits, 1 .. Limbs, {}}
  /\ id \in Ids \cup {Kept}
  /\ ret \in {"OK", "ERR_STR_VALUE", "ERR_STR_SIZE"}

(* Both encoders compute the string of the same number, in full: the       *)
(* scalar one that drops leading zeros and pads them back, and the AVX2    *)
(* one with its multiplied reciprocal.                                     *)
EncodeExact ==
  op = "encoded" =>
    /\ \A i \in 1 .. Digits : buf[i] \in 0 .. (Radix - 1)
    /\ Value(buf, Radix) = Value(input, LimbBase)

(* chronoid_ksuid_parse accepts exactly the strings of characters of the   *)
(* alphabet whose number fits 160 bits, and returns that number; the       *)
(* scalar decoder drops leading zeros on the way and pads them back.  It   *)
(* has already written part of its destination when it meets an overflow,  *)
(* the caller's KSUID shows none of that.                                  *)
DecodeExact ==
  /\ op = "decoded"  => /\ \A i \in DOMAIN input : input[i] # Radix
                        /\ id \in Ids /\ Value(id, LimbBase) = Value(input, Radix)
  /\ op = "rejected" /\ ret = "ERR_STR_VALUE" =>
                        \/ \E i \in 1 .. Digits : input[i] = Radix
                        \/ Value(input, Radix) >= Power(LimbBase, Limbs)
  /\ op \in {"decode", "rejected"} => id = Kept

-----------------------------------------------------------------------------
(* Why they are exact.  In every round the number still to be converted,   *)
(* shifted by the cells already written, and the cells' number, with the   *)
(* padding that is to come, add up to the input.                           *)
Converting(from, to, width) ==
  /\ input \in Seq(0 .. (from - 1)) /\ bp \in Seq(0 .. (from - 1))
  /\ n \in 0 .. width
  /\ buf \in [1 .. width -> {Blank} \cup 0 .. (to - 1)]
  /\ \A i \in (n + 1) .. width : buf[i] # Blank
  /\ Value(input, from) = Value(bp, from) * Power(to, width - n) + Value(Padded, to)

(* The encoders also keep the rest small enough for the cells that are     *)
(* left.  The scalar loops drop leading zeros after the first round, so    *)
(* that digits left over there mean a number that is not zero.             *)
ConversionInv ==
  /\ TypeOK /\ EncodeExact /\ DecodeExact
  /\ op \in {"encode", "columns"} =>
       Converting(LimbBase, Radix, Digits) /\ Value(bp, LimbBase) < Power(Radix, n)
  /\ op = "decode" => Converting(Radix, LimbBase, Limbs)
  /\ (op = "encode" /\ n < Digits) \/ (op = "decode" /\ n < Limbs) =>
       bp = << >> \/ bp[1] # 0
  /\ op = "idle" => id = Kept
=============================================================================

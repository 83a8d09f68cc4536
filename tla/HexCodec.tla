------------------------------ MODULE HexCodec ------------------------------
(***************************************************************************)
(* The UUIDv7 string codec at its real width (chronoid/uuidv7/hex.c,       *)
(* hex_ssse3.c, hex_avx2.c): sixteen bytes as 32 hexadecimal digits in the *)
(* 8-4-4-4-12 layout, by table lookup or by byte shuffles, and             *)
(* chronoid_uuidv7_parse, which is scalar in every build.  Positions are   *)
(* counted from 0 as in the code.                                          *)
(***************************************************************************)
EXTENDS Bytes, Sequences

CONSTANTS
  Uuids,     \* identifiers to encode one by one, as functions on 0 .. 15
  Quads,     \* groups of four to encode at once
  Strings    \* strings to parse: records of a length and 36 characters

(* The types of the code's arguments. *)
ConstantsFit ==
  /\ Uuids \subseteq [0 .. 15 -> 0 .. 255]
  /\ Quads \subseteq [1 .. 4 -> [0 .. 15 -> 0 .. 255]]
  /\ Strings \subseteq [len : Nat, chars : [0 .. 35 -> 0 .. 255]]

VARIABLES
  op,        \* the kernel that runs, "parse", "done" or "idle"
  input,     \* the identifier, the group of identifiers, or the string
  out,       \* the strings written, one per identifier
  id,        \* the caller's chronoid_uuidv7_t; Kept before a parse succeeds
  ret        \* status of chronoid_uuidv7_parse

vars == <<op, input, out, id, ret>>

Kept == << >>
Dash == 45
Dashes == {8, 13, 18, 23}

(* kCharOff: where the two digits of byte i stand. *)
kCharOff == << 0, 2, 4, 6, 9, 11, 14, 16, 19, 21, 24, 26, 28, 30, 32, 34 >>
Off(i) == kCharOff[i + 1]

kHexLower(v) == IF v < 10 THEN 48 + v ELSE 97 + (v - 10)

kHexValue(c) ==
  CASE c \in 48 .. 57  -> c - 48
    [] c \in 65 .. 70  -> c - 65 + 10
    [] c \in 97 .. 102 -> c - 97 + 10
    [] OTHER           -> 255

Init ==
  /\ op = "idle"
  /\ input = << >> /\ out = << >>
  /\ id = Kept
  /\ ret = "none"

(* A caller enters one of the encoders, or chronoid_uuidv7_parse. *)
Call(how, x) ==
  /\ op' = how
  /\ input' = x
  /\ UNCHANGED <<out, id, ret>>

-----------------------------------------------------------------------------
(* The byte one of whose digits stands at position p. *)
ByteAt(p) == CHOOSE i \in 0 .. 15 : p \in {Off(i), Off(i) + 1}

(* chronoid_hex_encode_lower_scalar *)
ScalarText(u) ==
  [p \in 0 .. 35 |->
     IF p \in Dashes THEN Dash
     ELSE LET x == u[ByteAt(p)]
          IN  kHexLower(IF p = Off(ByteAt(p)) THEN x \div 16 ELSE x % 16)]

(* Mutant: the bits shifted in from the neighbouring byte stay. *)
HighNibblesUnmasked(r) ==
  [i \in DOMAIN r |->
     LET even == i - (i % 2)
         word == (r[even] + 256 * r[even + 1]) \div 16
     IN  IF i = even THEN word % 256 ELSE word \div 256]

(* A shift of 16-bit lanes by four, masked to the low nibble of each byte. *)
HighNibbles(r) ==
  [i \in DOMAIN r |->
     LET even == i - (i % 2)
         word == (r[even] + 256 * r[even + 1]) \div 16
     IN  (IF i = even THEN word % 256 ELSE word \div 256) % 16]

LowNibbles(r) == [i \in DOMAIN r |-> r[i] % 16]

(* pshufb on the alphabet: an index with its top bit set selects zero. *)
Shuffle(r) == [i \in DOMAIN r |-> IF r[i] >= 128 THEN 0 ELSE kHexLower(r[i] % 16)]

(* punpcklbw and punpckhbw, in the 128-bit lane that starts at byte `lane`. *)
Unpack(hi, lo, lane, half) ==
  [k \in 0 .. 15 |->
     LET i == lane + 8 * half + (k \div 2)
     IN  IF k % 2 = 0 THEN hi[i] ELSE lo[i]]

(* The register stores: 32 digits per identifier, low half before high. *)
Digits32(r, lane) ==
  LET hi == Shuffle(HighNibbles(r))
      lo == Shuffle(LowNibbles(r))
  IN  [k \in 0 .. 31 |-> Unpack(hi, lo, lane, k \div 16)[k % 16]]

(* The five copies and four hyphens (chronoid_uuidv7_dash_splice, and the  *)
(* same in chronoid_hex_encode_lower_ssse3).                               *)
Splice(hex) ==
  [p \in 0 .. 35 |->
     CASE p \in Dashes   -> Dash
       [] p \in 0 .. 7   -> hex[p]
       [] p \in 9 .. 12  -> hex[8 + (p - 9)]
       [] p \in 14 .. 17 -> hex[12 + (p - 14)]
       [] p \in 19 .. 22 -> hex[16 + (p - 19)]
       [] p \in 24 .. 35 -> hex[20 + (p - 24)]]

EncodeScalar ==
  /\ op = "scalar"
  /\ out' = << ScalarText(input[1]) >>
  /\ op' = "done"
  /\ UNCHANGED <<input, id, ret>>

EncodeSsse3 ==
  /\ op = "ssse3"
  /\ out' = << Splice(Digits32(input[1], 0)) >>
  /\ op' = "done"
  /\ UNCHANGED <<input, id, ret>>

(* chronoid_uuidv7_hex32_avx2: two identifiers in one register, each in a  *)
(* lane of its own, and the digits of both one after the other.            *)
Hex32(u, v) ==
  LET both == [i \in 0 .. 31 |-> IF i < 16 THEN u[i] ELSE v[i - 16]]
  IN  [k \in 0 .. 63 |->
         IF k < 32 THEN Digits32(both, 0)[k] ELSE Digits32(both, 16)[k - 32]]

(* hex + at *)
From(hex, at) == [k \in 0 .. 31 |-> hex[at + k]]

(* One group of chronoid_uuidv7_string_batch_avx2: two passes, the second  *)
(* into the upper half of the buffer, and four splices.                    *)
EncodeAvx2 ==
  /\ op = "avx2"
  /\ LET low  == Hex32(input[1], input[2])
         high == Hex32(input[3], input[4])
         hex  == [k \in 0 .. 127 |-> IF k < 64 THEN low[k] ELSE high[k - 64]]
     IN  out' = << Splice(From(hex, 0)),  Splice(From(hex, 32)),
                   Splice(From(hex, 64)), Splice(From(hex, 96)) >>
  /\ op' = "done"
  /\ UNCHANGED <<input, id, ret>>

-----------------------------------------------------------------------------
(* The nibbles of byte i of a string, 255 for what is no digit. *)
Hi(s, i) == kHexValue(s.chars[Off(i)])
Lo(s, i) == kHexValue(s.chars[Off(i) + 1])

(* Mutant: the low nibbles are not accumulated. *)
GatheredHigh(s) ==
  LET bad[i \in 0 .. 16] == IF i = 0 THEN 0 ELSE Or8(bad[i - 1], Hi(s, i - 1))
  IN  bad

(* The accumulator after each round: every lookup of it is or-ed in. No    *)
(* entry of the table is wider than a byte, and neither is `bad`.          *)
Gathered(s) ==
  LET bad[i \in 0 .. 16] ==
        IF i = 0 THEN 0 ELSE Or8(Or8(bad[i - 1], Hi(s, i - 1)), Lo(s, i - 1))
  IN  bad

(* `bad & 0xF0`, once, after the last round. *)
Bad(s) == And8(Gathered(s)[16], 240) # 0

(* tmp[i]: the high nibble shifted and cut to a byte, or-ed with the low. *)
Decoded(s) == [i \in 0 .. 15 |-> Or8((Hi(s, i) * 16) % 256, Lo(s, i))]

Reject(status) == ret' = status /\ UNCHANGED <<input, out, id>> /\ op' = "done"

(* chronoid_uuidv7_parse and chronoid_hex_decode *)
Parse ==
  /\ op = "parse"
  /\ IF input.len # 36 THEN Reject("ERR_STR_SIZE")
     ELSE IF \E p \in Dashes : input.chars[p] # Dash THEN Reject("ERR_STR_VALUE")
     ELSE IF Bad(input) THEN Reject("ERR_STR_VALUE")
     ELSE /\ id' = Decoded(input)
          /\ ret' = "OK"
          /\ op' = "done"
          /\ UNCHANGED <<input, out>>

(* The caller uses the result and makes another call. *)
Again ==
  /\ op = "done"
  /\ op' = "idle"
  /\ input' = << >> /\ out' = << >>
  /\ id' = Kept
  /\ ret' = "none"

Next ==
  \/ /\ op = "idle"
     /\ \/ \E u \in Uuids, how \in {"scalar", "ssse3"} : Call(how, << u >>)
        \/ \E q \in Quads : Call("avx2", q)
        \/ \E s \in Strings : Call("parse", s)
  \/ EncodeScalar \/ EncodeSsse3 \/ EncodeAvx2 \/ Parse
  \/ Again

Spec == Init /\ [][Next]_vars

-----------------------------------------------------------------------------
(* The text of an identifier as the RFC draws it: the digits of the bytes  *)
(* in order, hyphens after the fourth, sixth, eighth and tenth byte.       *)
HexDigits == << 48, 49, 50, 51, 52, 53, 54, 55, 56, 57, 97, 98, 99, 100, 101, 102 >>
ByteText(b) == << HexDigits[(b \div 16) + 1], HexDigits[(b % 16) + 1] >>
Group(u, from, to) ==
  [k \in 1 .. (2 * (to - from + 1)) |->
     ByteText(u[from + ((k - 1) \div 2)])[1 + ((k - 1) % 2)]]
Canonical(u) ==
  Group(u, 0, 3) \o <<Dash>> \o Group(u, 4, 5) \o <<Dash>> \o Group(u, 6, 7)
    \o <<Dash>> \o Group(u, 8, 9) \o <<Dash>> \o Group(u, 10, 15)

(* All three encoders write as many strings as they were given identifiers *)
(* and each one is the canonical string of the identifier in its place, no *)
(* digit leaking from a neighbouring byte, lane or pass.                   *)
EncodersAgree ==
  /\ op = "done" /\ ret = "none" => Len(out) = Len(input)
  /\ \A k \in DOMAIN out : \A p \in 0 .. 35 : out[k][p] = Canonical(input[k])[p + 1]

Lower(c) == IF c \in 65 .. 70 THEN c + 32 ELSE c

(* chronoid_uuidv7_parse accepts a string only if it has 36 characters     *)
(* and, up to the case of its digits, is the canonical string of the       *)
(* identifier it returns, and refuses nothing else: the size is blamed     *)
(* exactly when the length is not 36, the value only if a hyphen is        *)
(* missing or some digit is none; a refusal leaves the caller's identifier *)
(* as it was.                                                              *)
ParseExact ==
  /\ ret = "OK" =>
       /\ input.len = 36
       /\ \A p \in 0 .. 35 : Lower(input.chars[p]) = Canonical(id)[p + 1]
  /\ ret = "ERR_STR_SIZE" => input.len # 36
  /\ ret = "ERR_STR_VALUE" =>
       /\ input.len = 36
       /\ \E p \in 0 .. 35 : IF p \in Dashes THEN input.chars[p] # Dash
                             ELSE \A v \in 0 .. 15 : Lower(input.chars[p]) # HexDigits[v + 1]
  /\ ret # "OK" => id = Kept

-----------------------------------------------------------------------------
(* What the calls rely on: their arguments, and results not yet written. *)
CallInv ==
  /\ EncodersAgree /\ ParseExact
  /\ op \in {"idle", "scalar", "ssse3", "avx2", "parse", "done"}
  /\ op # "done" => out = << >> /\ id = Kept /\ ret = "none"
  /\ op \in {"scalar", "ssse3"} => \E u \in Uuids : input = << u >>
  /\ op = "avx2" => input \in Quads
  /\ op = "parse" => input \in Strings
=============================================================================

--------------------------- MODULE Base62Alphabet ---------------------------
(***************************************************************************)
(* Characters of a KSUID string, at their real width: the alphabet and the *)
(* 256-entry table of chronoid/ksuid/base62.c, and the three kernels that  *)
(* translate and validate the head of a string (chronoid_base62_           *)
(* translate16_scalar, _sse2 and _neon) before the table takes over for    *)
(* its tail.                                                               *)
(***************************************************************************)
EXTENDS Bytes, Sequences, FiniteSetsExt

CONSTANTS
  Texts,     \* strings, as functions from positions to bytes
  Vector     \* characters translated by the kernel (16); the table does the rest

(* What the code takes for granted of a string: bytes, the head and more. *)
ConstantsFit ==
  /\ Vector \in Nat \ {0}
  /\ \A t \in Texts : t \in Seq(0 .. 255) /\ Len(t) >= Vector

VARIABLES
  text,      \* the string being parsed
  kernel,    \* the kernel the build selected
  bp,        \* the digits found, Unset where none was written
  status     \* "idle", "new", "headed" (the kernel has run), "valid", "invalid"

vars == <<text, kernel, bp, status>>

Unset    == -1
Invalid  == 255      \* the table's sentinel 0xff
Alphabet == 0 .. 61
HeadOf(t)  == {i \in DOMAIN t : i <= Vector}

Init ==
  /\ text = << >> /\ bp = << >>
  /\ kernel = "scalar"
  /\ status = "idle"

(* chronoid_base62_decode is called, in a build with kernel k. *)
Decode(t, k) ==
  /\ text' = t
  /\ kernel' = k
  /\ bp' = [i \in DOMAIN t |-> Unset]
  /\ status' = "new"

-----------------------------------------------------------------------------
(* The digits '0' .. '9', 'A' .. 'Z' and 'a' .. 'z' as ASCII codes. *)
kB62Alphabet(v) ==
  IF v < 10 THEN 48 + v ELSE IF v < 36 THEN 65 + (v - 10) ELSE 97 + (v - 36)

kB62Value(c) ==
  CASE c \in 48 .. 57  -> c - 48
    [] c \in 65 .. 90  -> c - 65 + 10
    [] c \in 97 .. 122 -> c - 97 + 36
    [] OTHER           -> Invalid

(* Eight-bit lanes: subtraction wraps, comparison yields a mask. *)
Sub8(x, y) == (x - y) % 256
Mask(holds) == IF holds THEN 255 ELSE 0

(* Mutant: the comparison of a signed lane. *)
AtMostSigned(x, bound) == Mask((IF x >= 128 THEN x - 256 ELSE x) <= bound)

(* Unsigned x <= bound: _mm_min_epu8 and equality, or vcleq_u8. *)
AtMost(x, bound) == Mask((IF x < bound THEN x ELSE bound) = x)

(* One lane of the vector kernels: the three range tests, the mask of the  *)
(* union, and the value with the sentinel filled in.                       *)
Lane(v) ==
  LET d == Sub8(v, 48)
      u == Sub8(v, 65)
      l == Sub8(v, 97)
      dm == AtMost(d, 9)
      um == AtMost(u, 25)
      lm == AtMost(l, 25)
      any == Or8(Or8(dm, um), lm)
      values == Or8(Or8(And8(dm, d), And8(um, (u + 10) % 256)),
                    And8(lm, (l + 36) % 256))
  IN  [any |-> any, value |-> Or8(values, Not8(any))]

(* What the kernel makes of the head: the digits, and whether it accepts.  *)
(* SSE2 collects the high bits of the masks, NEON takes their minimum.     *)
Accepts ==
  CASE kernel = "scalar" -> \A i \in HeadOf(text) : kB62Value(text[i]) # Invalid
    [] kernel = "sse2"   -> \A i \in HeadOf(text) : Lane(text[i]).any \div 128 = 1
    [] kernel = "neon"   -> Min({Lane(text[i]).any : i \in HeadOf(text)}) = 255

Translated(i) == IF kernel = "scalar" THEN kB62Value(text[i]) ELSE Lane(text[i]).value

Translate16 ==
  /\ status = "new"
  /\ bp' = [i \in DOMAIN text |-> IF i \in HeadOf(text) THEN Translated(i) ELSE bp[i]]
  /\ status' = IF Accepts THEN "headed" ELSE "invalid"
  /\ UNCHANGED <<text, kernel>>

(* The scalar loop of chronoid_base62_decode over the remaining characters, *)
(* which stops at the first one that is in no range.                        *)
DecodeTail ==
  /\ status = "headed"
  /\ LET rest == DOMAIN text \ HeadOf(text)
         bad  == {i \in rest : kB62Value(text[i]) = Invalid}
     IN  /\ bp' = [i \in DOMAIN text |->
                     IF i \in rest /\ \A j \in bad : i < j THEN kB62Value(text[i])
                     ELSE bp[i]]
         /\ status' = IF bad = {} THEN "valid" ELSE "invalid"
  /\ UNCHANGED <<text, kernel>>

(* The caller uses the result; another build may be looked at next. *)
Again ==
  /\ status \in {"valid", "invalid"}
  /\ text' = << >> /\ bp' = << >>
  /\ kernel' = "scalar"
  /\ status' = "idle"

Next ==
  \/ /\ status = "idle"
     /\ \E t \in Texts, k \in {"scalar", "sse2", "neon"} : Decode(t, k)
  \/ Translate16
  \/ DecodeTail
  \/ Again

Spec == Init /\ [][Next]_vars

-----------------------------------------------------------------------------
(* Whichever kernel translates the head: a string is accepted exactly when *)
(* every character is in the alphabet, its digits are then the ones the    *)
(* encoder would write those characters for, and characters that cannot be *)
(* translated carry the sentinel, so that the kernels are interchangeable  *)
(* to the byte.                                                            *)
TranslatesExactly ==
  LET InAlphabet(c) == \E v \in Alphabet : c = kB62Alphabet(v)
      ok == \A i \in DOMAIN text : InAlphabet(text[i])
  IN
  /\ status = "invalid" => ~ok
  /\ status = "valid" =>
       /\ ok
       /\ \A i \in DOMAIN text : bp[i] \in Alphabet /\ kB62Alphabet(bp[i]) = text[i]
  /\ status \in {"headed", "valid", "invalid"} =>
       \A i \in HeadOf(text) : ~InAlphabet(text[i]) <=> bp[i] = Invalid

-----------------------------------------------------------------------------
(* Why they do.  Every kernel computes the table on the head of the string *)
(* and says whether it met the sentinel.                                   *)
TranslationInv ==
  /\ TranslatesExactly
  /\ status \in {"idle", "new", "headed", "valid", "invalid"}
  /\ kernel \in {"scalar", "sse2", "neon"}
  /\ status # "idle" => text \in Texts /\ DOMAIN bp = DOMAIN text
  /\ status = "headed" => \A i \in HeadOf(text) :
                            bp[i] = kB62Value(text[i]) /\ bp[i] # Invalid
=============================================================================

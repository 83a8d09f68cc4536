------------------------------ MODULE MCFormats ------------------------------
EXTENDS Formats, FiniteSets

(* Every byte in one place, next to the bytes on both sides of each range. *)
Edges == {0, 47, 48, 57, 58, 64, 65, 90, 91, 96, 97, 122, 123, 128, 255}

MCSamples ==
  {<< x, y, z >> : x \in Edges, y \in 0 .. 255, z \in {48}}
    \cup {<< x, y, z >> : x \in {48}, y \in Edges, z \in 0 .. 255}

(* An identifier with sixteen different bytes, and every one-byte variant. *)
Pattern == [i \in 0 .. 15 |-> 16 * i + (15 - i)]
OneByteOff(values) ==
  {[Pattern EXCEPT ![i] = v] : i \in 0 .. 15, v \in values}

MCUuids == OneByteOff({0, 128, 154, 255})

(* Groups of four different identifiers, one of them with a byte changed. *)
Fixed ==
  << Pattern, [i \in 0 .. 15 |-> Pattern[15 - i]],
     [i \in 0 .. 15 |-> 255 - Pattern[i]], [i \in 0 .. 15 |-> (7 * i + 100) % 256] >>
MCQuads == {[Fixed EXCEPT ![k] = u] : k \in 1 .. 4, u \in MCUuids} \cup {Fixed}

(* The canonical string of Pattern: 0f1e2d3c-4b5a-6978-8796-a5b4c3d2e1f0. *)
PatternText ==
  LET Digit(v)  == IF v < 10 THEN 48 + v ELSE 87 + v
      Before(p) == Cardinality({h \in {8, 13, 18, 23} : h < p})
  IN  [p \in 0 .. 35 |->
         IF p \in {8, 13, 18, 23} THEN 45
         ELSE LET k == p - Before(p)
              IN  Digit(IF k % 2 = 0 THEN k \div 2 ELSE 15 - (k \div 2))]

(* That string with any byte in any one place, with two characters that   *)
(* are no digits, and with a length that is not 36.                        *)
NoDigits == {47, 71, 103, 255}
MCStrings ==
  {[len |-> 36, chars |-> [PatternText EXCEPT ![p] = c]] :
     p \in 0 .. 35, c \in 0 .. 255}
    \cup {[len |-> 36, chars |-> [PatternText EXCEPT ![p] = c, ![q] = d]] :
            p \in {0, 1}, q \in {2, 22, 35}, c \in NoDigits, d \in NoDigits}
    \cup {[len |-> size, chars |-> [PatternText EXCEPT ![35] = c]] :
            size \in {0, 35, 37}, c \in {48, 255}}

(* Bytes of three bits: version and variant one bit each. *)
MCTimes == {-1, 0, 7, 8, 63, 64}
MCWords == {0, 7, 8, 31, 63}
MCTails == {<< hi, lo >> : hi \in {0, 3, 4, 7}, lo \in {0, 7}}
MCImages == { << 0, 7, 0, 7, 0, 7 >>, << 7, 7, 7, 7, 7, 7 >>, << 7 >> }
=============================================================================

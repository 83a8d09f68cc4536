---------------------------- MODULE Uuidv7Layout ----------------------------
(***************************************************************************)
(* The UUIDv7 constructors and accessors (chronoid/uuidv7/uuidv7.c) and    *)
(* the byte composer of the sequence (chronoid_uuidv7_sequence_emit): how  *)
(* a timestamp, rand_a and rand_b become bytes, and what the caller's      *)
(* chronoid_uuidv7_t holds after a call that failed.                       *)
(*                                                                         *)
(* Widths are parameters: a byte has Byte values, the version is its high  *)
(* part of VerSpan values and the variant its high part of VarSpan values. *)
(***************************************************************************)
EXTENDS Integers, Sequences, FiniteSetsExt, Numerals

CONSTANTS
  Byte, VerSpan, VarSpan,  \* 2^8, 2^4, 2^2
  TsBytes,                 \* 6
  RandBytes,               \* 8
  Version, Variant,        \* 7, 2
  Times,                   \* int64_t arguments and clock readings
  Words,                   \* uint16_t arguments and draws
  Tails,                   \* rand_b arguments and draws
  Images                   \* byte strings handed to from_bytes

(* What the code takes for granted of its widths. *)
ConstantsFit ==
  /\ {Byte, VerSpan, VarSpan, TsBytes, RandBytes} \subseteq Nat \ {0}
  /\ Byte > 1 /\ Byte % VerSpan = 0 /\ Byte % VarSpan = 0
  /\ Version \in 0 .. (VerSpan - 1)
  /\ Variant \in 0 .. (VarSpan - 1)
  /\ Times \subseteq Int
  /\ Words \subseteq 0 .. (Byte * Byte - 1)
  /\ Tails \subseteq [1 .. RandBytes -> 0 .. (Byte - 1)]
  /\ Images \subseteq Seq(0 .. (Byte - 1))

VARIABLES
  id,      \* the caller's chronoid_uuidv7_t
  ret,     \* status of the last call
  parts    \* history: what the identifier was asked to hold, NoParts if it
           \* was taken from bytes

vars == <<id, ret, parts>>

Size    == TsBytes + 2 + RandBytes
MaxMs   == Power(Byte, TsBytes) - 1 \* UUIDV7_MAX_UNIX_MS
NoParts == << >>

VerLow == Byte \div VerSpan         \* values of the part below the version
VarLow == Byte \div VarSpan

Init == id = [i \in 1 .. Size |-> 0] /\ ret = "OK" /\ parts = NoParts

-----------------------------------------------------------------------------
(* `ms` as TsBytes big-endian bytes, each shift cut to a byte. *)
TimeBytes(ms) == [i \in 1 .. TsBytes |-> (ms \div Power(Byte, TsBytes - i)) % Byte]

(* Mutants: rand_a is not cut to its field; it is split at the wrong bit. *)
RandAUncut(w) == << (Version * VerLow + (w \div Byte)) % Byte, w % Byte >>
RandAMisplaced(w) == << Version * VerLow + (w % VerLow), (w \div VerLow) % Byte >>

(* Bytes 6 and 7: the version over the cut rand_a. *)
RandA(w) == << Version * VerLow + ((w \div Byte) % VerLow), w % Byte >>

(* Bytes 8 .. 15: the variant over the first byte of rand_b. *)
RandB(tail) == << Variant * VarLow + (tail[1] % VarLow) >> \o Tail(tail)

(* The composer shared by chronoid_uuidv7_from_parts and                   *)
(* chronoid_uuidv7_sequence_emit.                                          *)
Compose(ms, w, tail) == TimeBytes(ms) \o RandA(w) \o RandB(tail)

(* The accessors. *)
UnixMs(u)  == Value(SubSeq(u, 1, TsBytes), Byte)
VersionOf(u) == u[TsBytes + 1] \div VerLow
VariantOf(u) == u[TsBytes + 3] \div VarLow

(* The sign of memcmp over all bytes, for chronoid_uuidv7_compare. *)
Compare(u, v) ==
  LET differ == {i \in 1 .. Size : u[i] # v[i]} IN
  IF differ = {} THEN 0
  ELSE LET i == Min(differ) IN IF u[i] < v[i] THEN -1 ELSE 1

-----------------------------------------------------------------------------
InRange(ms) == 0 <= ms /\ ms <= MaxMs

Make(ms, w, tail) ==
  /\ id' = Compose(ms, w, tail)
  /\ ret' = "OK"
  /\ parts' = << ms, w, tail >>

Refuse(status) == ret' = status /\ UNCHANGED <<id, parts>>

(* chronoid_uuidv7_from_parts *)
FromParts(ms, w, tail) ==
  IF InRange(ms) THEN Make(ms, w, tail) ELSE Refuse("ERR_TIME_RANGE")

(* chronoid_uuidv7_new_with_time, and chronoid_uuidv7_new with a clock     *)
(* that reads ms: one draw for all random bits.                            *)
NewWithTime(ms) ==
  IF InRange(ms)
  THEN \E w \in Words, tail \in Tails : Make(ms, w, tail)
  ELSE Refuse("ERR_TIME_RANGE")

NewWithTimeRngFails(ms) == InRange(ms) /\ Refuse("ERR_RNG")

(* chronoid_uuidv7_sequence_emit: the caller has checked the range. *)
SequenceEmit(ms, w, tail) == InRange(ms) /\ Make(ms, w, tail)

(* chronoid_uuidv7_from_bytes *)
FromBytes(image) ==
  IF Len(image) # Size THEN Refuse("ERR_SIZE")
  ELSE id' = image /\ ret' = "OK" /\ parts' = NoParts

Next ==
  \/ \E ms \in Times, w \in Words, tail \in Tails :
       FromParts(ms, w, tail) \/ SequenceEmit(ms, w, tail)
  \/ \E ms \in Times : NewWithTime(ms) \/ NewWithTimeRngFails(ms)
  \/ \E image \in Images : FromBytes(image)

Spec == Init /\ [][Next]_vars

-----------------------------------------------------------------------------
(* Types of every variable. *)
TypeOK ==
  /\ id \in [1 .. Size -> 0 .. (Byte - 1)]
  /\ ret \in {"OK", "ERR_TIME_RANGE", "ERR_RNG", "ERR_SIZE"}
  /\ parts \in {NoParts} \cup (Times \X Words \X Tails)

(* Every identifier the library composes is exactly Size bytes long and    *)
(* carries the timestamp it was asked for and the right version and        *)
(* variant, whatever surplus bits rand_a and rand_b came with; a call that *)
(* fails later, also for want of entropy, leaves it so.                    *)
ReadsBack ==
  parts # NoParts =>
    /\ DOMAIN id = 1 .. Size
    /\ UnixMs(id) = parts[1] /\ VersionOf(id) = Version /\ VariantOf(id) = Variant

(* The number that orders identifiers in module Uuidv7Sequence: timestamp, *)
(* then rand_a, then rand_b, each cut to its field.                        *)
Key(p) ==
  LET spanA == VerLow * Byte IN
  Value(<< p[1] * spanA + (p[2] % spanA), p[3][1] % VarLow >> \o Tail(p[3]), Byte)

(* Two composed identifiers compare, byte by byte, as their timestamps,    *)
(* counters and tails do: the order that the sequence's strict             *)
(* monotonicity is stated in is the order of chronoid_uuidv7_compare.      *)
ComparesByParts ==
  [][parts # NoParts /\ parts' # NoParts =>
       LET before == Key(parts)
           after  == Key(parts')
       IN  /\ Compare(id, id') = -1 <=> before < after
           /\ Compare(id, id') = 1 <=> before > after]_vars

-----------------------------------------------------------------------------
(* Why it does: the caller's identifier stays the composition of what it   *)
(* was last asked to hold.                                                 *)
LayoutInv ==
  /\ TypeOK
  /\ parts # NoParts =>
       InRange(parts[1]) /\ id = Compose(parts[1], parts[2], parts[3])
=============================================================================

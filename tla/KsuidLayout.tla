----------------------------- MODULE KsuidLayout -----------------------------
(***************************************************************************)
(* KSUIDs as bytes (chronoid/ksuid/ksuid.c): the constructors with the     *)
(* correction of Unix time by the KSUID epoch in 64-bit arithmetic, the    *)
(* 32-bit big-endian timestamp before the payload, what the caller's       *)
(* chronoid_ksuid_t holds after a call that failed, and the three kernels  *)
(* of chronoid_ksuid_compare (compare_scalar.c, compare_sse2.c,            *)
(* compare_neon.c).  Bytes are counted from 0 as in the code.              *)
(***************************************************************************)
EXTENDS Integers, FiniteSetsExt, Numerals

CONSTANTS
  Byte,          \* 2^8
  TsBytes,       \* 4
  PayloadBytes,  \* 16
  Vector,        \* bytes that one vector comparison covers (16)
  Epoch,         \* CHRONOID_KSUID_EPOCH_SECONDS
  IntMax         \* INT64_MAX

VARIABLES
  id,     \* the caller's chronoid_ksuid_t
  ret,    \* status of the last call
  arg,    \* history: the time the last call was given; IntMin if the clock failed
  asked   \* history: the time and payload that id was last asked to hold

vars == <<id, ret, arg, asked>>

Size     == TsBytes + PayloadBytes
Images   == [0 .. (Size - 1) -> 0 .. (Byte - 1)]
Payloads == [0 .. (PayloadBytes - 1) -> 0 .. (Byte - 1)]
TsMax    == Power(Byte, TsBytes) - 1 \* UINT32_MAX
IntMin   == -IntMax - 1
Seconds  == IntMin .. IntMax

(* What the code takes for granted of its widths. *)
ConstantsFit ==
  /\ Byte \in Nat \ {0, 1} /\ TsBytes \in Nat \ {0} /\ PayloadBytes \in Nat
  /\ Vector \in 1 .. (Size - 1)
  /\ Epoch \in Nat /\ IntMax \in Nat /\ Epoch + TsMax < IntMax

Init ==
  /\ id = [i \in 0 .. (Size - 1) |-> 0]
  /\ ret = "OK"
  /\ arg = Epoch
  /\ asked = << Epoch, [i \in 0 .. (PayloadBytes - 1) |-> 0] >>

-----------------------------------------------------------------------------
(* chronoid_be32_store and chronoid_be32_load *)
Store(v) == [i \in 0 .. (TsBytes - 1) |-> (v \div Power(Byte, TsBytes - 1 - i)) % Byte]
Load(k) == Value([i \in 1 .. TsBytes |-> k[i - 1]], Byte)

(* chronoid_ksuid_time_unix and chronoid_ksuid_payload *)
TimeUnix(k) == Load(k) + Epoch
Payload(k) == [i \in 0 .. (PayloadBytes - 1) |-> k[TsBytes + i]]

(* unix_seconds - CHRONOID_KSUID_EPOCH_SECONDS.  Below INT64_MIN + epoch   *)
(* it overflows, which C leaves undefined: the build may wrap, or reason   *)
(* as if the difference were exact.                                        *)
Corrected(t) ==
  LET exact == t - Epoch IN
  IF exact >= IntMin THEN {exact} ELSE {exact, exact + 2 * (IntMax + 1)}

(* Mutant: the last second is lost. *)
InRangeEarly(corrected) == 0 <= corrected /\ corrected < TsMax

InRange(corrected) == 0 <= corrected /\ corrected <= TsMax

Make(t, corrected, payload) ==
  /\ id' = [i \in 0 .. (Size - 1) |->
              IF i < TsBytes THEN Store(corrected)[i] ELSE payload[i - TsBytes]]
  /\ ret' = "OK"
  /\ arg' = t
  /\ asked' = << t, payload >>

Refuse(t, status) == ret' = status /\ arg' = t /\ UNCHANGED <<id, asked>>

(* chronoid_ksuid_from_parts: the length is checked first. *)
FromParts(t, payload, right_len) ==
  IF ~right_len THEN Refuse(t, "ERR_PAYLOAD_SIZE")
  ELSE \E corrected \in Corrected(t) :
         IF InRange(corrected) THEN Make(t, corrected, payload)
         ELSE Refuse(t, "ERR_TIME_RANGE")

(* chronoid_ksuid_new_with_time and chronoid_ksuid_new: the payload is     *)
(* drawn into a temporary before anything is stored.                       *)
NewWithTime(t) ==
  \E corrected \in Corrected(t) :
    IF InRange(corrected) THEN \E payload \in Payloads : Make(t, corrected, payload)
    ELSE Refuse(t, "ERR_TIME_RANGE")

NewWithTimeRngFails(t) ==
  \E corrected \in Corrected(t) : InRange(corrected) /\ Refuse(t, "ERR_RNG")

(* chronoid_ksuid_new when timespec_get fails. *)
NewWithoutClock == Refuse(IntMin, "ERR_TIME_RANGE")

(* chronoid_ksuid_from_bytes: the bytes say which time and payload it is. *)
FromBytes(image, right_len) ==
  IF ~right_len THEN Refuse(arg, "ERR_SIZE")
  ELSE /\ id' = image
       /\ ret' = "OK"
       /\ arg' = TimeUnix(image)
       /\ asked' = << TimeUnix(image), Payload(image) >>

Next ==
  \/ \E image \in Images, right_len \in BOOLEAN : FromBytes(image, right_len)
  \/ \E t \in Seconds, payload \in Payloads, right_len \in BOOLEAN :
       FromParts(t, payload, right_len)
  \/ \E t \in Seconds : NewWithTime(t) \/ NewWithTimeRngFails(t)
  \/ NewWithoutClock

Spec == Init /\ [][Next]_vars

-----------------------------------------------------------------------------
(* chronoid_ksuid_compare in its three builds.                             *)

Differ(a, b, from) == {i \in from .. (Size - 1) : a[i] # b[i]}

(* memcmp of the C library, reduced to its sign, and the normalisation of  *)
(* whatever it returns in chronoid_ksuid_compare20_scalar.                 *)
Memcmp(a, b) ==
  IF Differ(a, b, 0) = {} THEN 0
  ELSE LET i == Min(Differ(a, b, 0)) IN a[i] - b[i]

CompareScalar(a, b) ==
  LET r == Memcmp(a, b) IN (IF r > 0 THEN 1 ELSE 0) - (IF r < 0 THEN 1 ELSE 0)

(* _mm_movemask_epi8 of the byte-wise comparison: bit i, counted from the  *)
(* least significant one, is byte i.                                       *)
EqMask(a, b) ==
  Value([k \in 1 .. Vector |-> IF a[Vector - k] = b[Vector - k] THEN 1 ELSE 0], 2)

(* Mutant: the position of the highest set bit is used instead. *)
CtzOfHighest(x) == CHOOSE i \in 0 .. (Vector - 1) : x \div Power(2, i) = 1

(* chronoid_ksuid_ctz32: how many zero bits end the word. *)
Ctz(x) ==
  CHOOSE i \in 0 .. (Vector - 1) : x % Power(2, i) = 0 /\ (x \div Power(2, i)) % 2 = 1

(* chronoid_ksuid_first_diff_sse2 *)
FirstDiff(mask) ==
  LET diff == Power(2, Vector) - 1 - mask IN IF diff = 0 THEN Vector ELSE Ctz(diff)

(* The result of a difference at byte i.  The operands are uint8_t, which  *)
(* C promotes to the integers they hold.                                   *)
OrderAt(a, b, i) == IF a[i] < b[i] THEN -1 ELSE 1

(* The scalar loop from a byte on, which both vector kernels end in and    *)
(* the NEON kernel also uses to find the byte in its head.                 *)
ScanFrom(a, b, from) ==
  IF Differ(a, b, from) = {} THEN 0 ELSE OrderAt(a, b, Min(Differ(a, b, from)))

CompareSse2(a, b) ==
  LET idx == FirstDiff(EqMask(a, b)) IN
  IF idx < Vector THEN OrderAt(a, b, idx) ELSE ScanFrom(a, b, Vector)

(* vminvq_u8 over the lanes: 0xff only if every lane is. *)
CompareNeon(a, b) ==
  LET lanes == {IF a[i] = b[i] THEN 255 ELSE 0 : i \in 0 .. (Vector - 1)} IN
  ScanFrom(a, b, IF Min(lanes) # 255 THEN 0 ELSE Vector)

-----------------------------------------------------------------------------
(* Types of every variable. *)
TypeOK ==
  /\ id \in Images
  /\ ret \in {"OK", "ERR_TIME_RANGE", "ERR_PAYLOAD_SIZE", "ERR_RNG", "ERR_SIZE"}
  /\ arg \in Seconds
  /\ asked \in Seconds \X Payloads

(* An identifier reads back the very second and payload that the last      *)
(* accepted call gave, so nothing outside the 32-bit range is accepted,    *)
(* not even where the 64-bit correction overflows, and a call that fails,  *)
(* also for want of entropy, leaves no trace.  A refusal for the time's    *)
(* sake is justified: the first and the last second are constructible.     *)
ConstructsExactly ==
  /\ TimeUnix(id) = asked[1]
  /\ Payload(id) = asked[2]
  /\ ret = "ERR_TIME_RANGE" => arg \notin Epoch .. (Epoch + TsMax)

(* One identifier was made for an earlier second than another, or for the  *)
(* same second and a lexicographically smaller payload.                    *)
Earlier(p, q) ==
  \/ p[1] < q[1]
  \/ /\ p[1] = q[1]
     /\ \E i \in DOMAIN p[2] :
          p[2][i] < q[2][i] /\ \A j \in 0 .. (i - 1) : p[2][j] = q[2][j]

(* KSUIDs sort by the time they were made for and then by payload: each    *)
(* kernel of chronoid_ksuid_compare says so of any two identifiers,        *)
(* wherever in its head or tail they first differ.                         *)
ComparesByTime ==
  [][LET order == IF Earlier(asked, asked') THEN -1
                  ELSE IF Earlier(asked', asked) THEN 1 ELSE 0
     IN  /\ CompareScalar(id, id') = order
         /\ CompareSse2(id, id') = order
         /\ CompareNeon(id, id') = order]_vars
=============================================================================

---------------------------- MODULE KsuidSequence ----------------------------
(***************************************************************************)
(* The KSUID sequence (chronoid/ksuid/sequence.c): a seed whose last two   *)
(* bytes are replaced by a counter.  The counter lives in a wider integer  *)
(* than the field it is written to, so that the call after the last value  *)
(* can be refused.  The owner may take an envelope or start again from     *)
(* another seed at any time.                                               *)
(***************************************************************************)
EXTENDS Integers

CONSTANTS
  CountSpan,   \* UINT16_MAX + 1
  Prefixes     \* the leading 18 bytes a seed may have, as numbers

ASSUME SpanAssumption ==
  /\ CountSpan \in Nat \ {0}
  /\ Prefixes \subseteq Nat
  /\ Prefixes # {}

VARIABLES
  s,       \* the caller's chronoid_ksuid_sequence_t
  out,     \* the last identifier issued since init, NoId before the first
  ret,     \* the status of the last call to next
  turn,    \* history: flips at every issue (see MonotonicSource)
  issued,  \* history: every identifier issued since init
  band     \* history: the last envelope asked for, and whether an identifier
           \*          was issued since

vars == <<s, out, ret, turn, issued, band>>

CountMax == CountSpan - 1
Tails    == 0 .. CountMax
Ksuid    == [prefix : Prefixes, tail : Tails]
NoId     == [prefix |-> -1, tail |-> 0]
NoBand   == [lo |-> NoId, hi |-> NoId, used |-> FALSE]

(* The 160-bit number whose order is chronoid_ksuid_compare's. *)
Key(id) == id.prefix * CountSpan + id.tail

-----------------------------------------------------------------------------
(* chronoid_ksuid_sequence_apply_count on a copy of the seed: the argument *)
(* is cut to the two bytes it is stored in.                                *)
ApplyCount(id, n) == [id EXCEPT !.tail = n % CountSpan]

(* chronoid_ksuid_sequence_init *)
Seeded(seed) == [seed |-> seed, count |-> 0]

Init ==
  /\ \E seed \in Ksuid : s = Seeded(seed)
  /\ out = NoId
  /\ ret = "OK"
  /\ turn = 0
  /\ issued = {}
  /\ band = NoBand

SequenceInit ==
  /\ \E seed \in Ksuid : s' = Seeded(seed)
  /\ out' = NoId
  /\ ret' = "OK"
  /\ turn' = 0
  /\ issued' = {}
  /\ band' = NoBand

(* Mutant: the last counter value is never handed out. *)
ExhaustedEarly == s.count >= CountMax

(* The guard of chronoid_ksuid_sequence_next. *)
Exhausted == s.count > CountMax

(* Mutant: the counter is written to the caller's copy but not kept. *)
SequenceNextRepeats ==
  /\ ~Exhausted
  /\ out' = ApplyCount(s.seed, s.count)
  /\ s' = s
  /\ ret' = "OK"
  /\ turn' = 1 - turn
  /\ issued' = issued \cup {out'}
  /\ band' = [band EXCEPT !.used = TRUE]

(* chronoid_ksuid_sequence_next *)
SequenceNextOk ==
  /\ ~Exhausted
  /\ out' = ApplyCount(s.seed, s.count)
  /\ s' = [s EXCEPT !.count = @ + 1]
  /\ ret' = "OK"
  /\ turn' = 1 - turn
  /\ issued' = issued \cup {out'}
  /\ band' = [band EXCEPT !.used = TRUE]

SequenceNextExhausted ==
  /\ Exhausted
  /\ ret' = "ERR_EXHAUSTED"
  /\ UNCHANGED <<s, out, turn, issued, band>>

(* Mutant: the clamp is missing, so a spent counter wraps to zero. *)
LowCountWraps == s.count

(* chronoid_ksuid_sequence_bounds *)
LowCount == IF s.count > CountMax THEN CountMax ELSE s.count

SequenceBounds ==
  /\ band' = [lo   |-> ApplyCount(s.seed, LowCount),
              hi   |-> ApplyCount(s.seed, CountMax),
              used |-> FALSE]
  /\ UNCHANGED <<s, out, ret, turn, issued>>

Next == SequenceInit \/ SequenceNextOk \/ SequenceNextExhausted \/ SequenceBounds

Spec == Init /\ [][Next]_vars

-----------------------------------------------------------------------------
(* Types of every variable; the counter stops one past its field. *)
TypeOK ==
  /\ s \in [seed : Ksuid, count : 0 .. CountSpan]
  /\ out \in Ksuid \cup {NoId}
  /\ ret \in {"OK", "ERR_EXHAUSTED"}
  /\ turn \in {0, 1}
  /\ issued \in SUBSET Ksuid
  /\ band \in [lo : Ksuid \cup {NoId}, hi : Ksuid \cup {NoId}, used : BOOLEAN]

(* The first n identifiers that share a prefix. *)
Leading(prefix, n) == {[prefix |-> prefix, tail |-> k] : k \in 0 .. (n - 1)}

(* chronoid_ksuid_sequence_next gives up only once every one of the        *)
(* identifiers that share the seed's prefix has been handed out: none is   *)
(* skipped and the last one (0xFFFF) is not lost.                          *)
ExhaustedIsComplete ==
  ret = "ERR_EXHAUSTED" => issued = Leading(s.seed.prefix, CountSpan)

(* chronoid_ksuid_sequence_bounds: its lower end is exactly the next       *)
(* identifier, and once the sequence is spent it names the last one, so    *)
(* the envelope holds everything issued from then on.                      *)
BandBrackets ==
  band.lo # NoId =>
    /\ Key(band.lo) <= Key(band.hi)
    /\ band.used => Key(band.lo) <= Key(out) /\ Key(out) <= Key(band.hi)
    /\ ~band.used /\ ret = "ERR_EXHAUSTED" => band.lo = out

(* What has been issued is determined by the counter, and so is the        *)
(* identifier issued last.                                                 *)
IssuedSoFar ==
  /\ issued = Leading(s.seed.prefix, s.count)
  /\ out = IF s.count = 0 THEN NoId
           ELSE [prefix |-> s.seed.prefix, tail |-> s.count - 1]
  /\ ret = "ERR_EXHAUSTED" => s.count = CountSpan

(* Where an envelope stands relative to the sequence it was taken from. *)
BandPlaced ==
  band.lo # NoId =>
    /\ band.lo \in Ksuid
    /\ band.hi = [prefix |-> s.seed.prefix, tail |-> CountMax]
    /\ band.lo.prefix = s.seed.prefix
    /\ IF band.used THEN s.count > 0 /\ band.lo.tail <= s.count - 1
                    ELSE band.lo.tail = LowCount

(* The inductive invariant behind the safety theorems. *)
SequenceInv == TypeOK /\ IssuedSoFar /\ BandPlaced

(* The sequence keeps MonotonicSource's promise. *)
Promise == INSTANCE MonotonicSource
             WITH high <- IF out = NoId THEN -1 ELSE Key(out)

PromiseKept == Promise!Spec
=============================================================================

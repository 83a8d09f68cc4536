------------------------ MODULE Uuidv7SequenceProofs ------------------------
(***************************************************************************)
(* Proofs about Uuidv7Sequence for every width of the three fields and     *)
(* every set of clock readings.                                            *)
(***************************************************************************)
EXTENDS Uuidv7Sequence, TLAPS

(* Truncating a value that already fits its field changes nothing. *)
LEMMA ModFits ==
  ASSUME NEW n \in Nat, NEW m \in Nat, n < m
  PROVE  n % m = n
  BY SMT

(* Truncation to a field yields a value of the field. *)
LEMMA ModRange ==
  ASSUME NEW n \in Int, NEW m \in Nat \ {0}
  PROVE  n % m \in 0 .. (m - 1)
  BY SMT

(* The byte layout orders identifiers by timestamp first. *)
LEMMA KeyByMs ==
  ASSUME NEW a \in Uuid, NEW b \in Uuid, a.ms < b.ms
  PROVE  Key(a) < Key(b)
  BY ConstantsAssumption, SMT DEF Uuid, Millis, Counters, Key

(* Within one millisecond it orders them by counter. *)
LEMMA KeyByCounter ==
  ASSUME NEW a \in Uuid, NEW b \in Uuid, a.ms = b.ms, a.rand_a < b.rand_a
  PROVE  Key(a) < Key(b)
  BY ConstantsAssumption, SMT DEF Uuid, Millis, Counters, Key

(* The widest raw tail is the greatest tail after the variant bits. *)
LEMMA TopTail ==
  ASSUME NEW m \in Nat \ {0}
  PROVE  (4 * m - 1) % m = m - 1
  BY SMT

(* A drawn counter is a counter. *)
LEMMA DrawnFits == DrawnCounters \subseteq Counters
  BY ConstantsAssumption, ModRange DEF DrawnCounters, MaskWord, Counters

(* What a successful call emits, given that the state is well typed. *)
LEMMA EmitFits ==
  ASSUME NEW ms \in Millis, NEW counter \in Counters, NEW rand_b \in RawTails
  PROVE  /\ Emit(ms, counter, rand_b) \in Uuid
         /\ Emit(ms, counter, rand_b) =
              [ms |-> ms, rand_a |-> counter, rand_b |-> rand_b % TailSpan]
         /\ Emit(ms, counter, rand_b) # NoId
<1>1. ms % (MaxMs + 1) = ms
  BY ConstantsAssumption, ModFits DEF Millis
<1>2. counter % (CounterMask + 1) = counter
  BY ConstantsAssumption, ModFits DEF Counters
<1>3. rand_b % TailSpan \in 0 .. (TailSpan - 1)
  BY ConstantsAssumption, ModRange DEF RawTails
<1> QED
  BY <1>1, <1>2, <1>3 DEF Emit, Uuid, NoId, Millis

-----------------------------------------------------------------------------
(* The three ways a call succeeds, reduced to what they have in common: a  *)
(* well-typed new state that lies after the old one.                       *)
Advances ==
  /\ s' \in Sequence
  /\ \/ s'.last_ms > s.last_ms
     \/ s'.last_ms = s.last_ms /\ s'.counter = s.counter + 1
  /\ bumps' \in Nat
  /\ seenWall' \in Millis
  /\ seenWall' <= s'.last_ms
  /\ s'.last_ms <= seenWall' + bumps'
  /\ EmitAndReturn

LEMMA OkAdvances ==
  ASSUME SequenceInv, SequenceNextOk
  PROVE  Advances
<1> USE ConstantsAssumption DEF SequenceInv, TypeOK, TracksClock, Millis
<1>0. DrawnCounters \subseteq Counters
  BY DrawnFits
<1>4. WallMs \in Int
  BY DEF WallMs, Calls, CallPlaced
<1>5. ASSUME SequenceNextRedrawn
      PROVE  NeedsRedraw /\ call.drawn \in RawTails
  BY <1>5 DEF SequenceNextRedrawn, SequenceNextTick, SequenceNextRollover, CallPlaced
<1>1. CASE SequenceNextTick
  <2>1. EffectiveMs = WallMs /\ WallMs \in Millis /\ WallMs > s.last_ms
    BY <1>1, <1>4, <1>5 DEF SequenceNextTick, SequenceNextRedrawn, NeedsRedraw,
       RangeExhausted, TickObserved, EffectiveMs, Sequence
  <2>2. /\ s' \in Sequence
        /\ s'.last_ms = WallMs
    BY <1>0, <1>1, <1>5, <2>1 DEF SequenceNextTick, SequenceNextRedrawn, Sequence
  <2>3. seenWall' = WallMs /\ bumps' = 0
    BY <1>1, <2>1 DEF SequenceNextTick, EmitAndReturn, WallUsed, Sequence
  <2> QED
    BY <1>1, <2>1, <2>2, <2>3 DEF Advances, SequenceNextTick, Sequence
<1>2. CASE SequenceNextIncrement
  <2>1. /\ s' \in Sequence
        /\ s'.last_ms = s.last_ms
        /\ s'.counter = s.counter + 1
    BY <1>2 DEF SequenceNextIncrement, Bumped, Sequence, Counters
  <2>2. seenWall' \in Millis /\ seenWall <= seenWall' /\ seenWall' <= s.last_ms
    BY <1>2, <1>4 DEF SequenceNextIncrement, EmitAndReturn, WallUsed,
                      TickObserved, EffectiveMs, Sequence
  <2> QED
    BY <1>2, <2>1, <2>2 DEF Advances, SequenceNextIncrement, Sequence
<1>3. CASE SequenceNextRollover
  <2>1. s.last_ms < MaxMs
    BY <1>3, <1>5 DEF SequenceNextRollover, SequenceNextRedrawn, NeedsRedraw,
                      RangeExhausted, Sequence
  <2>2. /\ s' \in Sequence
        /\ s'.last_ms = s.last_ms + 1
    BY <1>0, <1>3, <1>5, <2>1 DEF SequenceNextRollover, SequenceNextRedrawn, Sequence
  <2>3. seenWall' \in Millis /\ seenWall <= seenWall' /\ seenWall' <= s.last_ms
    BY <1>3, <1>4 DEF SequenceNextRollover, EmitAndReturn, WallUsed,
                      TickObserved, EffectiveMs, Sequence
  <2> QED
    BY <1>3, <2>2, <2>3 DEF Advances, SequenceNextRollover, Sequence
<1> QED
  BY <1>1, <1>2, <1>3 DEF SequenceNextOk, SequenceNextRedrawn

(* Whether a call needs entropy depends on its reading and the sequence. *)
LEMMA RedrawStays ==
  ASSUME s' = s, WallMs' = WallMs
  PROVE  NeedsRedraw' = NeedsRedraw
  BY DEF NeedsRedraw, RangeExhausted, TickObserved, EffectiveMs, Bumped

(* A step of the sequence either changes none of its fields, starts it     *)
(* afresh, takes an envelope, or ends a successful call.                   *)
Idle ==
  /\ UNCHANGED <<s, out, turn, seenWall, bumps, band>>
  /\ ret' \in Statuses
  /\ clock' \in Readings
  /\ call' \in Calls
  /\ before' \in (Sequence \X (Uuid \cup {NoId})) \cup {NoCopy}
  /\ CallPlaced'

LEMMA StepKinds ==
  ASSUME SequenceInv, [Next]_vars
  PROVE  Idle \/ SequenceInit \/ SequenceBounds \/ SequenceNextOk
<1> USE DEF SequenceInv, TypeOK, Statuses, history
<1>1. CASE UNCHANGED vars
  BY <1>1 DEF vars, Idle, CallPlaced, NeedsRedraw, RangeExhausted, TickObserved,
              EffectiveMs, Bumped, WallMs
<1>2. CASE ClockMoves
  <2>1. call.op = "next" => WallMs' = WallMs
    BY <1>2 DEF ClockMoves, WallMs
  <2>2. CallPlaced'
    BY <1>2, <2>1, RedrawStays DEF ClockMoves, CallPlaced
  <2> QED
    BY <1>2, <2>2 DEF ClockMoves, Idle
<1>3. CASE SequenceInitBegins \/ SequenceNextBegins
  <2>1. PICK op \in {"init", "next"}, w \in Readings \cup {-1} :
          /\ Entered(op, w)
          /\ op = "next" => NeedsRedraw /\ w = clock
    BY <1>3 DEF SequenceInitBegins, SequenceNextBegins
  <2>2. /\ UNCHANGED <<s, out, turn, seenWall, bumps, band, clock>>
        /\ call' = [op |-> op, wall_ms |-> w, drawn |-> Undrawn]
        /\ call.op = "none"
        /\ ret' = "none"
        /\ before' = <<s, out>>
    BY <2>1 DEF Entered, Between
  <2>3. op = "next" => WallMs' = WallMs
    BY <2>1, <2>2 DEF WallMs
  <2>4. CallPlaced'
    BY <2>1, <2>2, <2>3, RedrawStays DEF CallPlaced
  <2>5. call' \in Calls
    BY <2>2 DEF Calls
  <2> QED
    BY <2>2, <2>4, <2>5 DEF Idle
<1>4. CASE SequenceInitDrawsCounter \/ SequenceNextDrawsTail
  <2>1. PICK d \in Counters \cup RawTails :
          /\ call' = [call EXCEPT !.drawn = d]
          /\ call.op = "init" => d \in Counters
          /\ call.op = "next" => d \in RawTails
    BY <1>4, DrawnFits DEF SequenceInitDrawsCounter, SequenceNextDrawsTail
  <2>2. UNCHANGED <<s, out, ret, turn, clock, before, seenWall, bumps, band>>
    BY <1>4 DEF SequenceInitDrawsCounter, SequenceNextDrawsTail
  <2>3. /\ call' \in Calls
        /\ call'.op = call.op
        /\ call'.wall_ms = call.wall_ms
        /\ call'.drawn = d
    BY <2>1 DEF Calls
  <2>4. WallMs' = WallMs
    BY <2>2, <2>3 DEF WallMs
  <2>5. CallPlaced'
    BY <2>1, <2>2, <2>3, <2>4, RedrawStays DEF CallPlaced
  <2> QED
    BY <2>2, <2>3, <2>5 DEF Idle
<1>5. CASE SequenceInitFails \/ SequenceNextRngFails \/ SequenceNextRangeExhausted
  <2>1. /\ call' = NoCall
        /\ ret' \in {"ERR_RNG", "ERR_TIME_RANGE"}
        /\ UNCHANGED <<s, out, turn, clock, seenWall, bumps, band>>
    BY <1>5 DEF SequenceInitFails, SequenceNextRngFails,
                SequenceNextRangeExhausted, ReturnsError
  <2>2. before' = <<s, out>>
    BY <1>5 DEF SequenceInitFails, SequenceNextRngFails,
                SequenceNextRangeExhausted, CallPlaced
  <2>3. CallPlaced' /\ call' \in Calls
    BY <2>1, <2>2 DEF CallPlaced, NoCall, Calls
  <2> QED
    BY <2>1, <2>2, <2>3 DEF Idle
<1> QED
  BY <1>1, <1>2, <1>3, <1>4, <1>5 DEF Next, SequenceNext

(* Ending a call well leaves no call and no copy behind. *)
LEMMA ReturnsOkFits ==
  ASSUME SequenceInv, ReturnsOk
  PROVE  /\ CallPlaced'
         /\ ret' \in Statuses
         /\ clock' \in Readings
         /\ call' \in Calls
         /\ before' \in (Sequence \X (Uuid \cup {NoId})) \cup {NoCopy}
  BY DEF ReturnsOk, CallPlaced, NoCall, Calls, Statuses, SequenceInv, TypeOK

(* A freshly initialised sequence is well typed. *)
LEMMA FreshFits ==
  FreshSequences \subseteq {q \in Sequence : q.last_ms = 0}
  BY ConstantsAssumption, DrawnFits DEF FreshSequences, Sequence, Millis

(* The two ends of an envelope. *)
LEMMA BandEnds ==
  ASSUME s \in Sequence
  PROVE  /\ LowCounter \in Counters
         /\ Emit(s.last_ms, LowCounter, 0) \in Uuid
         /\ Emit(s.last_ms, LowCounter, 0) =
              [ms |-> s.last_ms, rand_a |-> LowCounter, rand_b |-> 0]
         /\ Emit(s.last_ms, CounterMask, 4 * TailSpan - 1) \in Uuid
         /\ Emit(s.last_ms, CounterMask, 4 * TailSpan - 1) =
              [ms |-> s.last_ms, rand_a |-> CounterMask, rand_b |-> TailSpan - 1]
<1> USE ConstantsAssumption
<1>1. LowCounter \in Counters /\ CounterMask \in Counters
  BY DEF LowCounter, Bumped, Counters, Sequence
<1>2. 0 \in RawTails /\ 4 * TailSpan - 1 \in RawTails
  BY DEF RawTails
<1>3. 0 % TailSpan = 0
  BY ModFits
<1>4. (4 * TailSpan - 1) % TailSpan = TailSpan - 1
  BY TopTail
<1>5. s.last_ms \in Millis
  BY DEF Sequence
<1>6. Emit(s.last_ms, LowCounter, 0) \in Uuid
      /\ Emit(s.last_ms, LowCounter, 0) =
           [ms |-> s.last_ms, rand_a |-> LowCounter, rand_b |-> 0 % TailSpan]
  BY <1>1, <1>2, <1>5, EmitFits
<1>7. Emit(s.last_ms, CounterMask, 4 * TailSpan - 1) \in Uuid
      /\ Emit(s.last_ms, CounterMask, 4 * TailSpan - 1) =
           [ms |-> s.last_ms, rand_a |-> CounterMask,
            rand_b |-> (4 * TailSpan - 1) % TailSpan]
  BY <1>1, <1>2, <1>5, EmitFits
<1> QED
  BY <1>1, <1>3, <1>4, <1>6, <1>7

-----------------------------------------------------------------------------
(* The inductive invariant holds of every behaviour. *)
LEMMA InitInv == Init => SequenceInv
<1> SUFFICES ASSUME Init PROVE SequenceInv
  OBVIOUS
<1>1. s \in Sequence /\ s.last_ms = 0
  BY FreshFits DEF Init
<1> QED
  BY <1>1, ConstantsAssumption
  DEF Init, SequenceInv, TypeOK, OutSpellsState, TracksClock, BandPlaced,
      NoBand, Statuses, Millis, CallPlaced, NoCall, Calls

LEMMA StepInv == SequenceInv /\ [Next]_vars => SequenceInv'
<1> SUFFICES ASSUME SequenceInv, [Next]_vars PROVE SequenceInv'
  OBVIOUS
<1> USE ConstantsAssumption
<1>1. CASE Idle
  BY <1>1 DEF Idle, SequenceInv, TypeOK, OutSpellsState, TracksClock, BandPlaced,
              LowCounter, Bumped
<1>2. CASE SequenceInit
  <2>0. call.drawn \in Counters
    BY <1>2 DEF SequenceInit, SequenceInv, CallPlaced
  <2>1. s' \in Sequence /\ s'.last_ms = 0
    BY <1>2, <2>0 DEF SequenceInit, Sequence, Millis
  <2>2. ReturnsOk
    BY <1>2 DEF SequenceInit
  <2> QED
    BY <1>2, <2>1, <2>2, ReturnsOkFits
    DEF SequenceInit, SequenceInv, TypeOK, OutSpellsState, TracksClock,
        BandPlaced, NoBand, Statuses, Millis
<1>3. CASE SequenceBounds
  <2>0. s \in Sequence /\ LowCounter' = LowCounter
    BY <1>3 DEF SequenceBounds, SequenceInv, TypeOK, LowCounter, Bumped
  <2>1. TypeOK'
    BY <1>3, <2>0, BandEnds DEF SequenceBounds, SequenceInv, TypeOK
  <2>2. OutSpellsState' /\ TracksClock'
    BY <1>3 DEF SequenceBounds, SequenceInv, OutSpellsState, TracksClock
  <2>3. BandPlaced'
    BY <1>3, <2>0, BandEnds DEF SequenceBounds, BandPlaced, Sequence, Millis
  <2>4. CallPlaced'
    <3>1. WallMs' = WallMs
      BY <1>3 DEF SequenceBounds, WallMs
    <3> QED
      BY <1>3, <3>1, RedrawStays DEF SequenceBounds, SequenceInv, CallPlaced
  <2> QED
    BY <2>1, <2>2, <2>3, <2>4 DEF SequenceInv
<1>4. CASE SequenceNextOk
  <2>1. Advances
    BY <1>4, OkAdvances
  <2>2. /\ out' \in Uuid
        /\ out' # NoId
        /\ out' = Emit(s'.last_ms, s'.counter, s'.rand_b)
    BY <2>1, EmitFits DEF Advances, EmitAndReturn, Sequence
  <2>6. ReturnsOk
    BY <2>1 DEF Advances, EmitAndReturn
  <2>3. TypeOK'
    <3>1. turn' \in {0, 1}
      BY <2>1 DEF Advances, EmitAndReturn, SequenceInv, TypeOK
    <3>2. band' \in [lo : Uuid \cup {NoId}, hi : Uuid \cup {NoId}, used : BOOLEAN]
      BY <2>1 DEF Advances, EmitAndReturn, SequenceInv, TypeOK
    <3> QED
      BY <2>1, <2>2, <2>6, <3>1, <3>2, ReturnsOkFits DEF Advances, TypeOK
  <2>4. OutSpellsState' /\ TracksClock'
    BY <2>1, <2>2 DEF Advances, OutSpellsState, TracksClock
  <2>5. BandPlaced'
    <3>1. band'.lo = band.lo /\ band'.hi = band.hi /\ band'.used
      BY <2>1 DEF Advances, EmitAndReturn, SequenceInv, TypeOK
    <3>2. SUFFICES ASSUME band.lo # NoId
                   PROVE  /\ band.lo.ms <= s'.last_ms
                          /\ band.lo.ms = s'.last_ms => band.lo.rand_a <= s'.counter
      BY <2>2, <3>1 DEF SequenceInv, BandPlaced
    <3>3. band.lo \in Uuid
      BY <3>2 DEF SequenceInv, TypeOK
    <3> QED
      BY <2>1, <3>2, <3>3
      DEF Advances, SequenceInv, TypeOK, BandPlaced, LowCounter, Bumped,
          Sequence, Uuid, Millis, Counters
  <2> QED
    BY <2>3, <2>4, <2>5, <2>6, ReturnsOkFits DEF SequenceInv
<1> QED
  BY <1>1, <1>2, <1>3, <1>4, StepKinds

LEMMA Invariance == Spec => []SequenceInv
  BY InitInv, StepInv, PTL DEF Spec

(* Every variable keeps its type; in particular the embedded timestamp     *)
(* never leaves the 48-bit range.                                          *)
THEOREM TypeCorrect == Spec => []TypeOK
  BY Invariance, PTL DEF SequenceInv

(* The embedded timestamp never lags a clock reading that was used and     *)
(* leads the clock by at most the rollovers since the last tick.           *)
THEOREM ClockTracked == Spec => []TracksClock
  BY Invariance, PTL DEF SequenceInv

(* Everything emitted after chronoid_uuidv7_sequence_bounds lies in the    *)
(* envelope, or above it once the millisecond is over.                     *)
THEOREM BandsBracket == Spec => []BandBrackets
<1>1. SequenceInv => BandBrackets
  <2> SUFFICES ASSUME SequenceInv, band.lo # NoId, band.used
               PROVE  IF out.ms = band.lo.ms
                      THEN Key(band.lo) <= Key(out) /\ Key(out) <= Key(band.hi)
                      ELSE Key(band.hi) < Key(out)
    BY DEF BandBrackets
  <2> USE ConstantsAssumption
  <2>1. band.lo \in Uuid /\ s \in Sequence
    BY DEF SequenceInv, TypeOK
  <2>2. out \in Uuid /\ out = Emit(s.last_ms, s.counter, s.rand_b)
    BY DEF SequenceInv, TypeOK, OutSpellsState, BandPlaced
  <2>3. out.ms = s.last_ms /\ out.rand_a = s.counter
    BY <2>1, <2>2, EmitFits DEF Sequence
  <2>4. /\ band.hi \in Uuid
        /\ band.hi = [ms |-> band.lo.ms, rand_a |-> CounterMask, rand_b |-> TailSpan - 1]
    BY <2>1 DEF SequenceInv, BandPlaced, Uuid, Counters
  <2>5. CASE out.ms = band.lo.ms
    <3>1. band.lo.rand_a <= out.rand_a /\ band.lo.rand_b = 0
      BY <2>3, <2>5 DEF SequenceInv, BandPlaced
    <3>2. Key(band.lo) <= Key(out)
      <4>1. CASE band.lo.rand_a < out.rand_a
        BY <2>1, <2>2, <2>5, <4>1, KeyByCounter DEF Key, Uuid, Millis, Counters
      <4>2. CASE band.lo.rand_a = out.rand_a
        BY <2>1, <2>2, <2>5, <3>1, <4>2 DEF Key, Uuid, Millis, Counters
      <4> QED
        BY <2>1, <2>2, <3>1, <4>1, <4>2 DEF Uuid, Counters
    <3>3. Key(out) <= Key(band.hi)
      <4>1. CASE out.rand_a < band.hi.rand_a
        BY <2>1, <2>2, <2>4, <2>5, <4>1, KeyByCounter DEF Key, Uuid, Millis, Counters
      <4>2. CASE out.rand_a = band.hi.rand_a
        BY <2>1, <2>2, <2>4, <2>5, <4>2 DEF Key, Uuid, Millis, Counters
      <4> QED
        BY <2>2, <2>4, <4>1, <4>2 DEF Uuid, Counters
    <3> QED
      BY <2>5, <3>2, <3>3
  <2>6. CASE out.ms # band.lo.ms
    <3>1. band.hi.ms < out.ms
      BY <2>1, <2>2, <2>3, <2>4, <2>6 DEF SequenceInv, BandPlaced, Uuid, Millis
    <3> QED
      BY <2>2, <2>4, <2>6, <3>1, KeyByMs
  <2> QED
    BY <2>5, <2>6
<1> QED
  BY <1>1, Invariance, PTL

-----------------------------------------------------------------------------
(* A successful call emits something greater than the call before it. *)
LEMMA EmissionGrows ==
  ASSUME SequenceInv, SequenceNextOk
  PROVE  /\ out' \in Uuid
         /\ out' # NoId
         /\ turn' = 1 - turn
         /\ Key(out') \in Nat
         /\ out # NoId => Key(out) < Key(out')
<1> USE ConstantsAssumption
<1>1. Advances
  BY OkAdvances
<1>2. /\ out' \in Uuid
      /\ out' # NoId
      /\ out'.ms = s'.last_ms
      /\ out'.rand_a = s'.counter
  BY <1>1, EmitFits DEF Advances, EmitAndReturn, Sequence
<1>3. turn' = 1 - turn
  BY <1>1 DEF Advances, EmitAndReturn
<1>4. Key(out') \in Nat
  BY <1>2 DEF Key, Uuid, Millis, Counters
<1>5. ASSUME out # NoId PROVE Key(out) < Key(out')
  <2>1. /\ out \in Uuid
        /\ out.ms = s.last_ms
        /\ out.rand_a = s.counter
    BY <1>5, EmitFits DEF SequenceInv, TypeOK, OutSpellsState, Sequence
  <2>2. CASE s'.last_ms > s.last_ms
    <3>1. out.ms < out'.ms
      BY <1>2, <2>1, <2>2 DEF Uuid, Millis
    <3> QED
      BY <1>2, <2>1, <3>1, KeyByMs
  <2>3. CASE s'.last_ms = s.last_ms /\ s'.counter = s.counter + 1
    <3>1. out.ms = out'.ms /\ out.rand_a < out'.rand_a
      BY <1>2, <2>1, <2>3 DEF Uuid, Counters
    <3> QED
      BY <1>2, <2>1, <3>1, KeyByCounter
  <2> QED
    BY <1>1, <2>2, <2>3 DEF Advances
<1> QED
  BY <1>2, <1>3, <1>4, <1>5

(* Identifiers are emitted in strictly increasing order, whatever the      *)
(* clock and the entropy source do.                                        *)
THEOREM Monotonic == Spec => StrictlyMonotonic
<1>1. SequenceInv /\ [Next]_vars =>
        [turn' # turn /\ out # NoId /\ out' # NoId => Key(out') > Key(out)]_vars
  <2> SUFFICES ASSUME SequenceInv, [Next]_vars,
                      turn' # turn, out # NoId, out' # NoId
               PROVE  Key(out') > Key(out)
    OBVIOUS
  <2>1. SequenceNextOk
    BY StepKinds DEF Idle, SequenceInit, SequenceBounds
  <2>2. Key(out) < Key(out') /\ Key(out') \in Nat /\ out \in Uuid
    BY <2>1, EmissionGrows DEF SequenceInv, TypeOK
  <2>3. Key(out) \in Int
    BY <2>2, ConstantsAssumption DEF Key, Uuid, Millis, Counters
  <2> QED
    BY <2>2, <2>3
<1> QED
  BY <1>1, Invariance, PTL DEF Spec, StrictlyMonotonic

(* A call that reports an error has changed nothing the caller can see,    *)
(* whichever of its draws failed and however many succeeded before.        *)
THEOREM FailuresUntouched == Spec => []FailureUntouched
<1>1. SequenceInv => FailureUntouched
  BY DEF SequenceInv, CallPlaced, FailureUntouched
<1> QED
  BY <1>1, Invariance, PTL

(* The sequence implements MonotonicSource. *)
THEOREM PromiseHolds == Spec => PromiseKept
<1> USE DEF Promise!vars, Promise!None
<1>1. Init => Promise!Init
  BY DEF Init, Promise!Init
<1>2. SequenceInv /\ [Next]_vars => [Promise!Next]_(Promise!vars)
  <2> SUFFICES ASSUME SequenceInv, [Next]_vars
               PROVE  [Promise!Next]_(Promise!vars)
    OBVIOUS
  <2>1. CASE Idle
    BY <2>1 DEF Idle
  <2>2. CASE SequenceInit
    BY <2>2 DEF SequenceInit, Promise!Next, Promise!Restart
  <2>3. CASE SequenceBounds
    BY <2>3 DEF SequenceBounds
  <2>4. CASE SequenceNextOk
    BY <2>4, EmissionGrows DEF Promise!Next, Promise!Issue
  <2> QED
    BY <2>1, <2>2, <2>3, <2>4, StepKinds
<1> QED
  BY <1>1, <1>2, Invariance, PTL DEF Spec, PromiseKept, Promise!Spec
=============================================================================

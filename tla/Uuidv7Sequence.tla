--------------------------- MODULE Uuidv7Sequence ---------------------------
(***************************************************************************)
(* The monotonic UUIDv7 sequence (chronoid/uuidv7/uuidv7_sequence.c): one  *)
(* chronoid_uuidv7_sequence_t driven by the one thread that owns it, a     *)
(* wall clock that the environment moves at will (forwards, backwards, out *)
(* of range, unreadable) and an entropy source that may fail any draw.     *)
(*                                                                         *)
(* A call that draws entropy does so twice and then commits, so it takes   *)
(* several steps here: it is entered (and reads the clock), makes its      *)
(* first draw, and makes its second draw and commits.  The clock may move  *)
(* and either draw may fail in between.                                    *)
(*                                                                         *)
(* The three fields of an identifier keep their wraparound: MaxMs + 1      *)
(* stands for 2^48, CounterMask + 1 for 2^12 and TailSpan for 2^62.        *)
(***************************************************************************)
EXTENDS Integers

CONSTANTS
  MaxMs,        \* UUIDV7_MAX_UNIX_MS_INTERNAL
  CounterMask,  \* UUIDV7_COUNTER_MASK
  TailSpan,     \* number of rand_b values that survive the variant bits
  Readings      \* what chronoid_now_ms may return, -1 (failure) included

ASSUME ConstantsAssumption ==
  /\ MaxMs \in Nat
  /\ CounterMask \in Nat
  /\ TailSpan \in Nat \ {0}
  /\ Readings \subseteq Int

VARIABLES
  s,         \* the caller's chronoid_uuidv7_sequence_t
  out,       \* the last identifier emitted since init, NoId before the first
  ret,       \* the status of the last call, "none" while one is in progress
  turn,      \* history: flips at every emission (see MonotonicSource)
  clock,     \* what chronoid_now_ms returns at this moment
  call,      \* the stack of the call in progress, NoCall between calls
  before,    \* history: the caller's sequence and identifier when that call,
             \*          or the failed one before it, was entered
  seenWall,  \* history: greatest clock reading a successful call has used
  bumps,     \* history: rollovers since the last real millisecond tick
  band       \* history: the last envelope asked for, and whether an
             \*          identifier was emitted since

history == <<seenWall, bumps, band>>
vars == <<s, out, ret, turn, clock, call, before, seenWall, bumps, band>>

Millis   == 0 .. MaxMs
Counters == 0 .. CounterMask
RawTails == 0 .. (4 * TailSpan - 1)     \* rand_b[8], variant bits not yet cut

Sequence == [last_ms : Millis, counter : Counters, rand_b : RawTails]
Uuid     == [ms : Millis, rand_a : Counters, rand_b : 0 .. (TailSpan - 1)]

NoId   == [ms |-> -1, rand_a |-> 0, rand_b |-> 0]
NoBand == [lo |-> NoId, hi |-> NoId, used |-> FALSE]

(* wall_ms and the outcome of the first draw live in locals: the counter   *)
(* in chronoid_uuidv7_sequence_init, rand_b in ..._next.                   *)
Undrawn == -1
NoCall  == [op |-> "none", wall_ms |-> -1, drawn |-> Undrawn]
Calls   == [op : {"none", "init", "next"}, wall_ms : Readings \cup {-1},
            drawn : Counters \cup RawTails \cup {Undrawn}]
Between == call.op = "none"

NoCopy == << >>

Statuses == {"none", "OK", "ERR_RNG", "ERR_TIME_RANGE"}

(* The identifier as the 128-bit number whose order is memcmp's order. The *)
(* version and variant bits are the same in every one and are left out.    *)
Key(id) == (id.ms * (CounterMask + 1) + id.rand_a) * TailSpan + id.rand_b

-----------------------------------------------------------------------------
(* chronoid_uuidv7_sequence_draw_counter: two bytes, masked. *)
MaskWord(w) == w % (CounterMask + 1)
DrawnCounters == {MaskWord(w) : w \in 0 .. (2 * CounterMask + 1)}

(* chronoid_uuidv7_sequence_emit: each field truncated to its width. *)
Emit(ms, counter, rand_b) ==
  [ms     |-> ms % (MaxMs + 1),
   rand_a |-> counter % (CounterMask + 1),
   rand_b |-> rand_b % TailSpan]

(* The reading a call works with: the clock is read once, on entry. *)
WallMs == IF call.op = "next" THEN call.wall_ms ELSE clock

(* Mutant: the upper end of the range is treated as out of range. *)
EffectiveMsLosesMaxMs ==
  IF WallMs < s.last_ms \/ WallMs >= MaxMs THEN s.last_ms ELSE WallMs

(* The clamp at the head of chronoid_uuidv7_sequence_next. *)
EffectiveMs ==
  IF WallMs < s.last_ms \/ WallMs > MaxMs THEN s.last_ms ELSE WallMs

TickObserved == EffectiveMs > s.last_ms

Bumped == s.counter + 1

(* Mutant: the last millisecond is given up too early. *)
RangeExhaustedEarly ==
  ~TickObserved /\ Bumped > CounterMask /\ s.last_ms >= MaxMs - 1

(* The two places where chronoid_uuidv7_sequence_next gives up. *)
RangeExhausted ==
  \/ EffectiveMs \notin Millis
  \/ ~TickObserved /\ Bumped > CounterMask /\ s.last_ms >= MaxMs

(* The two places where it needs fresh entropy. *)
NeedsRedraw ==
  /\ ~RangeExhausted
  /\ TickObserved \/ Bumped > CounterMask

WallUsed ==
  IF WallMs \in Millis /\ WallMs > seenWall THEN WallMs ELSE seenWall

-----------------------------------------------------------------------------
(* A freshly initialised sequence: last_ms = 0, counter and tail random. *)
FreshSequences ==
  [last_ms : {0}, counter : DrawnCounters, rand_b : RawTails]

Init ==
  /\ s \in FreshSequences
  /\ out = NoId
  /\ ret = "OK"
  /\ turn = 0
  /\ clock \in Readings
  /\ call = NoCall
  /\ before = NoCopy
  /\ seenWall = 0
  /\ bumps = 0
  /\ band = NoBand

(* The wall clock is stepped, resumes, fails or recovers, also between two *)
(* steps of a call.                                                        *)
ClockMoves ==
  /\ clock' \in Readings
  /\ UNCHANGED <<s, out, ret, turn, call, before, history>>

(* A call is entered that will draw, and the two ways a call ends. *)
Entered(op, wall_ms) ==
  /\ Between
  /\ ret' = "none"
  /\ call' = [op |-> op, wall_ms |-> wall_ms, drawn |-> Undrawn]
  /\ before' = <<s, out>>
  /\ UNCHANGED <<s, out, turn, clock, history>>

ReturnsOk ==
  /\ ret' = "OK"
  /\ call' = NoCall
  /\ before' = NoCopy
  /\ UNCHANGED clock

ReturnsError(e) ==
  /\ ret' = e
  /\ call' = NoCall
  /\ UNCHANGED <<s, out, turn, clock, history>>

(* chronoid_uuidv7_sequence_init is called on a sequence already in use. *)
SequenceInitBegins == Entered("init", -1)

(* Its first draw, into the stack. *)
SequenceInitDrawsCounter ==
  /\ call.op = "init" /\ call.drawn = Undrawn
  /\ \E counter \in DrawnCounters : call' = [call EXCEPT !.drawn = counter]
  /\ UNCHANGED <<s, out, ret, turn, clock, before, history>>

(* Its second draw, and the copy of the finished structure. *)
SequenceInit ==
  /\ call.op = "init" /\ call.drawn # Undrawn
  /\ \E rand_b \in RawTails :
       s' = [last_ms |-> 0, counter |-> call.drawn, rand_b |-> rand_b]
  /\ out' = NoId
  /\ turn' = 0
  /\ seenWall' = 0
  /\ bumps' = 0
  /\ band' = NoBand
  /\ ReturnsOk

(* Either draw of chronoid_uuidv7_sequence_init fails. *)
SequenceInitFails ==
  /\ call.op = "init"
  /\ ReturnsError("ERR_RNG")
  /\ UNCHANGED before

-----------------------------------------------------------------------------
(* The common tail of a successful chronoid_uuidv7_sequence_next. *)
EmitAndReturn ==
  /\ out' = Emit(s'.last_ms, s'.counter, s'.rand_b)
  /\ turn' = 1 - turn
  /\ seenWall' = WallUsed
  /\ band' = [band EXCEPT !.used = TRUE]
  /\ ReturnsOk

(* Same (or clamped) millisecond, room in the counter: no draw is needed   *)
(* and the call is over at once.                                           *)
SequenceNextIncrement ==
  /\ Between
  /\ ~RangeExhausted
  /\ ~TickObserved
  /\ Bumped <= CounterMask
  /\ s' = [s EXCEPT !.counter = Bumped]
  /\ UNCHANGED bumps
  /\ EmitAndReturn

SequenceNextRangeExhausted ==
  /\ Between
  /\ RangeExhausted
  /\ before' = <<s, out>>
  /\ ReturnsError("ERR_TIME_RANGE")

(* A tick or a full counter: the reading is kept, entropy is needed. *)
SequenceNextBegins == NeedsRedraw /\ Entered("next", clock)

(* Mutant: the new tail is drawn straight into the sequence. *)
SequenceNextDrawsTailInPlace ==
  /\ call.op = "next" /\ call.drawn = Undrawn
  /\ \E rand_b \in RawTails :
       /\ call' = [call EXCEPT !.drawn = rand_b]
       /\ s' = [s EXCEPT !.rand_b = rand_b]
  /\ UNCHANGED <<out, ret, turn, clock, before, history>>

(* The first draw, into the stack. *)
SequenceNextDrawsTail ==
  /\ call.op = "next" /\ call.drawn = Undrawn
  /\ \E rand_b \in RawTails : call' = [call EXCEPT !.drawn = rand_b]
  /\ UNCHANGED <<s, out, ret, turn, clock, before, history>>

(* The second draw of a real millisecond tick: timestamp, counter and tail *)
(* are all renewed.                                                        *)
SequenceNextTick ==
  /\ call.op = "next" /\ call.drawn # Undrawn
  /\ TickObserved
  /\ \E counter \in DrawnCounters :
       s' = [last_ms |-> EffectiveMs, counter |-> counter, rand_b |-> call.drawn]
  /\ bumps' = 0
  /\ EmitAndReturn

(* Mutant: the counter wraps but the timestamp is not bumped. *)
SequenceNextRolloverInPlace ==
  /\ call.op = "next" /\ call.drawn # Undrawn
  /\ ~TickObserved
  /\ \E counter \in DrawnCounters :
       s' = [s EXCEPT !.counter = counter, !.rand_b = call.drawn]
  /\ bumps' = bumps + 1
  /\ EmitAndReturn

(* The second draw of a rollover: the timestamp runs ahead of the clock. *)
SequenceNextRollover ==
  /\ call.op = "next" /\ call.drawn # Undrawn
  /\ ~TickObserved
  /\ \E counter \in DrawnCounters :
       s' = [last_ms |-> s.last_ms + 1, counter |-> counter, rand_b |-> call.drawn]
  /\ bumps' = bumps + 1
  /\ EmitAndReturn

(* The first or the second draw fails. *)
SequenceNextRngFails ==
  /\ call.op = "next"
  /\ ReturnsError("ERR_RNG")
  /\ UNCHANGED before

(* Mutant: the lower bound skips the very next counter value. *)
LowCounterSkips == IF Bumped >= CounterMask THEN CounterMask ELSE Bumped + 1

(* chronoid_uuidv7_sequence_bounds. *)
LowCounter == IF Bumped > CounterMask THEN CounterMask ELSE Bumped

SequenceBounds ==
  /\ Between
  /\ band' = [lo   |-> Emit(s.last_ms, LowCounter, 0),
              hi   |-> Emit(s.last_ms, CounterMask, 4 * TailSpan - 1),
              used |-> FALSE]
  /\ UNCHANGED <<s, out, ret, turn, clock, call, before, seenWall, bumps>>

SequenceNextRedrawn == SequenceNextTick \/ SequenceNextRollover

SequenceNextOk == SequenceNextRedrawn \/ SequenceNextIncrement

SequenceNext ==
  \/ SequenceNextBegins
  \/ SequenceNextDrawsTail
  \/ SequenceNextOk
  \/ SequenceNextRngFails
  \/ SequenceNextRangeExhausted

Next ==
  \/ ClockMoves
  \/ SequenceInitBegins
  \/ SequenceInitDrawsCounter
  \/ SequenceInit
  \/ SequenceInitFails
  \/ SequenceNext
  \/ SequenceBounds

Spec == Init /\ [][Next]_vars

(* A call that was entered does not hang: its draws succeed or fail. *)
CallGoesOn ==
  \/ SequenceInitDrawsCounter \/ SequenceInit \/ SequenceInitFails
  \/ SequenceNextDrawsTail \/ SequenceNextRedrawn \/ SequenceNextRngFails

(* The caller keeps asking for identifiers, calls do not hang, and neither *)
(* draw of chronoid_uuidv7_sequence_next fails for ever.                   *)
FairSpec ==
  /\ Spec
  /\ SF_vars(SequenceNextBegins \/ SequenceNextIncrement)
  /\ WF_vars(CallGoesOn)
  /\ SF_vars(SequenceNextDrawsTail)
  /\ SF_vars(SequenceNextRedrawn)

-----------------------------------------------------------------------------
(* Types of every variable; the embedded timestamp always fits 48 bits. *)
TypeOK ==
  /\ s \in Sequence
  /\ out \in Uuid \cup {NoId}
  /\ ret \in Statuses
  /\ turn \in {0, 1}
  /\ clock \in Readings
  /\ call \in Calls
  /\ before \in (Sequence \X (Uuid \cup {NoId})) \cup {NoCopy}
  /\ seenWall \in Millis
  /\ bumps \in Nat
  /\ band \in [lo : Uuid \cup {NoId}, hi : Uuid \cup {NoId}, used : BOOLEAN]

(* What is true of a sequence that has emitted: the identifier handed out  *)
(* last is the one the sequence's own fields spell.                        *)
OutSpellsState ==
  out # NoId => out = Emit(s.last_ms, s.counter, s.rand_b)

(* What a call in progress knows: the caller's structures are still as it  *)
(* found them, and a redraw still has a millisecond to go to.              *)
CallPlaced ==
  /\ ret = "none" <=> call.op # "none"
  /\ call.op = "init" => call.drawn \in Counters \cup {Undrawn}
  /\ call.op = "next" => /\ call.drawn \in RawTails \cup {Undrawn}
                         /\ call.wall_ms \in Readings
                         /\ NeedsRedraw
  /\ ret # "OK" => before = <<s, out>>

(* Where an envelope stands relative to the sequence it was taken from: it *)
(* starts at the next counter value until that value is emitted, and never *)
(* lies in the sequence's future.                                          *)
BandPlaced ==
  band.lo # NoId =>
    /\ band.lo.rand_b = 0
    /\ band.hi = [ms |-> band.lo.ms, rand_a |-> CounterMask, rand_b |-> TailSpan - 1]
    /\ band.lo.ms <= s.last_ms
    /\ band.used => out # NoId
    /\ band.lo.ms = s.last_ms =>
         IF band.used THEN band.lo.rand_a <= s.counter
         ELSE band.lo.rand_a = LowCounter

(* An emitted identifier is strictly greater than the one before it,       *)
(* whatever the clock did in between and across ticks, increments and      *)
(* rollovers (RFC 9562 6.2, "R4.2" in chronoid_uuidv7_sequence_next).      *)
StrictlyMonotonic ==
  [][turn' # turn /\ out # NoId /\ out' # NoId => Key(out') > Key(out)]_vars

(* "Untouched on failure": when a call has reported an error the sequence  *)
(* and the caller's identifier are what they were when the call was        *)
(* entered, however far it got: also when its first draw succeeded and its *)
(* second one failed, on a tick, on a rollover and in init.                *)
FailureUntouched == ret \notin {"OK", "none"} => before = <<s, out>>

(* The embedded timestamp is never behind a clock reading that an emission *)
(* has used, and runs ahead of the clock by at most one millisecond per    *)
(* counter rollover since the last real tick.                              *)
TracksClock == seenWall <= s.last_ms /\ s.last_ms <= seenWall + bumps

(* chronoid_uuidv7_sequence_bounds: until the sequence is initialised      *)
(* again, everything emitted after the call lies inside the envelope while *)
(* the millisecond lasts and above it afterwards.                          *)
BandBrackets ==
  band.lo # NoId /\ band.used =>
    IF out.ms = band.lo.ms
    THEN Key(band.lo) <= Key(out) /\ Key(out) <= Key(band.hi)
    ELSE Key(band.hi) < Key(out)

(* The inductive invariant behind the safety theorems. *)
SequenceInv ==
  TypeOK /\ OutSpellsState /\ TracksClock /\ BandPlaced /\ CallPlaced

(* The sequence keeps MonotonicSource's promise. *)
Promise == INSTANCE MonotonicSource
             WITH high <- IF out = NoId THEN -1 ELSE Key(out)

PromiseKept == Promise!Spec

(* "The sequence will eventually re-track real wall-clock time": if the    *)
(* clock settles on a valid reading, the embedded timestamp reaches it,    *)
(* again and again even if the caller keeps re-initialising.               *)
Retracks ==
  \A w \in Readings \cap Millis :
    <>[](clock = w) => []<>(s.last_ms >= w)

(* "It never stalls": whatever the clock does, identifiers keep coming,    *)
(* unless the last counter value of the last 48-bit millisecond is spent.  *)
NeverStalls ==
  []<><<turn' # turn>>_vars \/ <>[](s.last_ms = MaxMs /\ s.counter = CounterMask)

(* uuidv7_sequence.c on "brand-new sequence + clock failure": the call     *)
(* bails instead of emitting, so the first identifier of a sequence is     *)
(* never made from a failed reading.                                       *)
ClockFailureBails == [][out = NoId /\ out' # NoId => WallMs # -1]_vars
=============================================================================

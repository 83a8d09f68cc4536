# libchronoid: a TLA+ verification project

libchronoid is a C library that makes, formats, parses and orders two kinds of
time-ordered identifiers: KSUIDs (20 bytes, 27 base62 characters) and UUIDv7
(16 bytes, 36 characters). This directory holds TLA+ models of its parts, the
TLC configurations that check them on small instances, and TLAPS proofs of the
results that hold for every size. Paths such as `rand_tls.c:343` are relative
to `chronoid/`, `chronoid/ksuid/` or `chronoid/uuidv7/` of the repository.

## Inventory

| Part | State | Operations | What is hard |
|---|---|---|---|
| UUIDv7 sequence (`uuidv7_sequence.c`) | `last_ms`, 12-bit `counter`, `rand_b` | init, next, bounds | clock steps back or fails; counter rollover runs ahead of the clock; the second of two draws fails; end of 48 bits |
| KSUID sequence (`sequence.c`) | `seed`, 17-bit `count` | init, next, bounds | exhaustion at exactly 2^16 |
| Per-thread CSPRNG (`rand_tls.c`) | TLS slot: key, counter, 64-byte window, byte budget, seed time and pid, two flags; one FLS index per process | draw, force reseed, wipe at thread exit | fork, pid reuse, failing clock, failing hook registration, draws from other destructors during thread exit and after the wipe, window boundaries |
| ChaCha20 (`chacha20.c`) | block counter in `state[12]` | block | counter advance |
| OS entropy (`rand_os.c`) | offset, descriptor | one call over a chain of sources | short reads, EINTR, failure half way, fallback |
| Random-source override (`ksuid.c`) | two atomic pointers | set_rand, fill_random | torn pairs, context lifetime |
| Constructors and accessors (`ksuid.c`, `uuidv7.c`) | the caller's identifier | from_parts, from_bytes, new, new_with_time | untouched on failure, range ends, signed overflow, surplus bits |
| base62 codec (`base62.c`, `encode_avx2.c`) | digit arrays of a conversion | encode, decode, parse | division by a reciprocal, overflow found late |
| base62 characters (`base62.c`, `base62_sse2.c`, `base62_neon.c`) | none | translate | wrapping lane arithmetic |
| Hex codec (`hex.c`, `hex_ssse3.c`, `hex_avx2.c`) | none | format, parse | lane leakage, dash splice, accumulated validity |
| Batch dispatch (`encode_batch.c`, `hex_batch.c`) | one atomic function pointer each | string_batch | racing first calls, tail of a batch, a CPU that has AVX2 under an OS that does not save its registers |
| Comparison (`compare_*.c`) | none | compare | where the vector ends and the scalar tail begins, which of several different lanes decides |
| Wipe (`wipe.h`) | none | explicit_bzero | the compiler |
| Command-line generator (`examples/chronoid-gen.c`) | options, position in argv, what is on stdout | parse options, generate, print, parse identifiers | option interplay, an option's value that looks like an option, giving up when part of the output is out, a projection that one format lacks |

How they interact: the constructors and the UUIDv7 sequence draw through
`chronoid_internal_fill_random`, which calls the override if one is set and
otherwise the calling thread's CSPRNG; that seeds itself from the OS entropy
source. The UUIDv7 sequence and `chronoid_uuidv7_new` read the wall clock
through `chronoid_now_ms`, the CSPRNG through `chronoid_now_seconds`. Formatting
and comparison pick a SIMD kernel at compile time, batch formatting at run time.
The only state shared between threads is the two override pointers, the two
batch pointers and the FLS index; everything else belongs to one thread or to
the caller. The command-line generator is a client of all of this: one thread
that calls `chronoid_ksuid_new` or `chronoid_uuidv7_new`, no override installed.

What makes each part correct, in a sentence: a sequence never goes back and
never changes on failure; no byte of keystream is handed out twice, by any
thread of any descendant process, and none outlives its use; the entropy source
fills everything or fails; an override is called with its own context; a codec
is the inverse of its partner on exactly the strings it accepts; a batch is
written cell by cell as the scalar function would, by a kernel that the machine
can run; and the generator's exit status tells the truth about its output.

## Modules

| Module | Models | Proofs | Instances |
|---|---|---|---|
| `MonotonicSource` | what either sequence promises: each identifier is greater than the last, or the source starts over | | (refined by both sequences) |
| `Uuidv7Sequence` | `uuidv7_sequence.c` | `Uuidv7SequenceProofs` | `MCUuidv7Sequence` |
| `KsuidSequence` | `sequence.c` | `KsuidSequenceProofs` | itself |
| `RandTls` | `rand_tls.c` with fork and thread life cycle | `RandTlsProofs` | `MCRandTls` |
| `RandOs` | `rand_os.c` | `RandOsProofs` | `MCRandOs` |
| `SetRand` | the override slots of `ksuid.c` | `SetRandProofs` | `MCSetRand` |
| `BatchDispatch` | `encode_batch.c`, `hex_batch.c`, the CPU and environment checks, the loops of the AVX2 kernels | `BatchDispatchProofs` | `MCBatchDispatch` |
| `Cli` | `main` of `examples/chronoid-gen.c` and its printing functions; a library call succeeds or fails | in `ChronoidGenProofs` | in `ChronoidGen` |
| `ChronoidGen` | `Cli`, the seeding of the thread's CSPRNG and `RandOs` composed | `ChronoidGenProofs` | `MCChronoidGen` |
| `Base62` | `base62.c`, the arithmetic of `encode_avx2.c`, `chronoid_ksuid_parse` | in `FormatsProofs` | in `Formats` |
| `Base62Alphabet` | the character kernels | in `FormatsProofs` | in `Formats` |
| `KsuidLayout` | the constructors and accessors of `ksuid.c`, `byteorder.h`, `compare_*.c` | in `FormatsProofs` | in `Formats` |
| `HexCodec` | `hex.c`, `hex_ssse3.c`, `hex_avx2.c`, `chronoid_uuidv7_parse` | in `FormatsProofs` | in `Formats` |
| `Uuidv7Layout` | `uuidv7.c` and the sequence's composer | in `FormatsProofs` | in `Formats` |
| `Bytes` | C's bitwise operators on `uint8_t`, for the character kernels and the hexadecimal parser | in `FormatsProofs` | in `Formats` |
| `Numerals` | positional notation: the number that digits stand for, and powers of a base | in `FormatsProofs` | in `Formats` |
| `Formats` | the five codecs and layouts, one caller of one of them at a time | `FormatsProofs` | `MCFormats` |

`Formats` only puts components side by side that share no state and are pure
functions of their arguments: `part` says which one a behaviour exercises, and
the others rest in their initial state. Its properties are the components' own.
`ChronoidGen` is a real composition: `Cli` decides when the library is called,
the slot decides whether that needs a seed, `RandOs` runs the seeding, and its
outcome decides how `Cli` goes on.

Definitions keep the names of the C functions without the `chronoid_` prefix
(`SequenceNextTick` is the tick branch of `chronoid_uuidv7_sequence_next`). A
definition called "Mutant" in its comment is a plausible bug in the definition
that follows it and is used by nothing else: each shows that some property
would notice that bug. Variables marked "history" are not in the program; they
remember what a property compares the present with.

### How state and steps correspond to the code

- **Uuidv7Sequence.** `s` is the caller's struct. A call of `init` or `next`
  that draws entropy takes three steps, in the code's order: it is entered, and
  reads the clock once (`SequenceNextBegins`); the first draw goes into a local
  (`SequenceNextDrawsTail`); the second draw, the commit to `s` and the
  emission are the last step (`SequenceNextTick`, `SequenceNextRollover`).
  Either draw may fail instead (`SequenceNextRngFails`). `call` holds the
  locals. A call that needs no entropy (`SequenceNextIncrement`) or has no
  millisecond left (`SequenceNextRangeExhausted`) is one step. The clock is a
  variable that moves at any time to any reading, failure included, also
  between two steps of a call. `before` remembers what the caller's structures
  held when a call was entered: `FailureUntouched` compares with it once the
  call has reported an error, however far it had come.
  The identifier is its three fields; `Key` is the 128-bit number they spell.
  That byte order agrees with `Key` is checked in `Uuidv7Layout`.
- **RandTls.** `slot[t]` is `chronoid_tls_rng_` of one thread of one process.
  Keys are numbered in the order in which the OS delivered them: two deliveries
  are never equal, which is what the entropy source is for. `buf` is the set of
  stream positions still in the window. A request is one step for the reseed
  decision and one for each round of the copy loop, so other threads act in
  between. Fork copies slot and pending callback. `Hook` selects the build.
  A thread ends in three phases: its exit callbacks run, along with other
  destructors that may draw (`"exiting"`); then come the destructors that the
  C runtime runs after the callbacks, pthread keys in glibc, which may draw as
  well (`"late"`); then it is gone. A callback registered in the last phase is
  accepted and never run, so that a draw there leaves residue.
  `NoResidueAtExit` excepts that case and a failed registration, both through
  `unhooked`: the code does not handle either.
- **RandOs.** `chain` is the build's list of sources, any member of `Builds`.
  One step is one system call's outcome. getrandom and read deliver
  at least one byte or fail (end of file on `/dev/urandom` is a failure).
- **SetRand.** The n-th `chronoid_set_rand` call's arguments are named n. Each
  atomic access is one step. One owner makes all the calls; `quiesced` says
  whether it honours the contract of `ksuid.h` and stops all draws before it
  replaces an override. The accesses are
  taken to be sequentially consistent: the writer stores context then function
  with release, the reader loads function then context with acquire, so a
  reader that sees a function also sees its context or a newer one, which is
  what the interleaving gives. (Weaker orders could only delay when a store is
  seen; `TakesEffect` is about draws ordered after the call by the program.)
- **BatchDispatch.** The pointer load, the resolution, the store and each loop
  iteration are steps. KSUID and UUID batches differ in `Lanes` only. `host` is
  the build and the machine: compiler, whether the AVX2 kernel was compiled, what
  the compiler's builtin, CPUID and XGETBV say. The GNU branch
  (`encode_batch.c:79-86`) does not execute XGETBV; its comment relies on
  `__builtin_cpu_supports` for that, and so does the model, by an assumption
  (`builtin => saves_ymm`): on that branch the OS half of `KernelRunsHere` is
  as good as the builtin. On the MSVC branch it is the code's own check. `env` is the value of
  `CHRONOID_FORCE_SCALAR`. Both stay as they are during a behaviour: a program
  that calls `setenv` while another thread makes its first batch call has a
  data race outside the library.
- **Cli.** `argv` holds what `main` can tell about each argument: which flag it
  is and the text behind `--format=`, or a plain word. What `strtol` and the two
  parse functions make of a word is given by constants (the parsers themselves
  are `Base62` and `HexCodec`). One round of the option loop, one call of the
  library, one printed identifier is one step. `out` is stdout, a record per
  identifier with the fields it shows; the calendar functions may refuse a time,
  which is a choice. Write errors on stdout are ignored by the program and are
  not in the model.
- **ChronoidGen.** A call of the library either fails on the clock, or draws from
  the slot, or seeds it first: `SeedBegins` calls `RandOs`, and
  `SeedSucceeds` or `SeedFails` passes its result on. A slot that is already
  seeded may seed again at any call, which covers age and clock steps
  (`RandTls` has their exact conditions). A failed seeding leaves the
  slot's key as it was, as `rand_tls.c` reads into a local buffer. The program
  is one thread and does not fork.
- **Base62.** One step is one round of the outer loop; the division in it is a
  recursive function over the digits (`TrimmedPasses`, `ColumnPasses`). Limb base
  and radix are parameters.
- **Base62Alphabet, HexCodec, and the comparison kernels in KsuidLayout.**
  Functions on bytes, with the lane arithmetic (8-bit wrap, 16-bit shifts,
  masks) as the instructions do it. The AVX2 formatter takes four identifiers
  in two passes through a 128-character buffer. The parser accumulates every
  table lookup in `Gathered` and looks at its high nibble once, after the last
  round, as `hex.c` does. The comparisons are between `uint8_t` operands, which
  C promotes to non-negative integers; there is no signedness to get wrong.
- **Uuidv7Layout, KsuidLayout.** One step is one constructor call. The epoch
  correction of `ksuid.c:64` overflows `int64_t` near its lower end, which C
  leaves undefined; the model allows the wrapped and the exact difference.

## Runs

| Run | Bounds | Shows |
|---|---|---|
| `uuidv7_sequence` | 3 ms, 3 counter values, 2 tails, clock -1 .. 3 | `TracksClock`, `BandBrackets`, `FailureUntouched`, refinement of `MonotonicSource`, `Retracks`, `NeverStalls` |
| `ksuid_sequence` | 6 suffixes, 3 prefixes | `ExhaustedIsComplete`, `BandBrackets`, refinement |
| `rand_tls_stream` | 1 thread, FLS build, window 3, budget 5, requests to 5, clock -1 .. 2, reseed age 2 | `FreshKeystream`, `BytesBounded`, `ConsumedWiped`, `DrawsFinish` |
| `rand_tls_fork` | 3 threads, 3 pids, `__cxa_thread_atexit_impl` build, window 2, 2 seedings | `SelfSeeded`, `NoResidueAtExit` |
| `set_rand` | 2 drawers, 3 calls, an owner that quiesces and one that does not | `PairMatched`, `TakesEffect`, `NoUseAfterFree` |
| `rand_os` | Linux, bare POSIX and Windows chains, requests to 8, caps 3 | `SuccessIsComplete`, `NoDescriptorLeak`, `CallReturns` |
| `batch_dispatch` | 2 threads, groups of 4, batches to 9, 7 builds and machines, 6 settings of the environment variable | `BatchExact`, `KernelRunsHere`, `ResolvedOnceAndForAll`, `CallReturns` |
| `formats` | base62: 512 identifiers (3 limbs in base 8) and all texts of 4 characters in base 5; characters: 256 byte values in head and tail next to the edges of every range; KSUID layout: bytes of one bit, 2 + 2 of them, vector of 3, all seconds of a 5-bit signed word; hex at full width: one-byte variants of a pattern one by one and in groups of four, every byte at every place of a string, two wrong characters in one string, lengths other than 36; UUID layout: 3-bit bytes, field edges | `EncodeExact`, `DecodeExact`; `TranslatesExactly`; `ConstructsExactly`, `ComparesByTime`; `EncodersAgree`, `ParseExact`; `ReadsBack`, `ComparesByParts` |
| `chronoid_gen` | all command lines of up to 4 arguments out of 17, and of up to 5 out of 8 that work together; `-n 2`; seed of 2 bytes from getrandom with `/dev/urandom` behind it | `SuccessIsExact`, `FailureTellsHowFar`, `NoEmptyRecord`, `KeyedOrRefused`, `Terminates` |

The bounds are enough because each makes its edge reachable several times over:
a request that spans three windows, a
second draw that fails on a tick, on a rollover and in init, two rollovers and the end of the range
within a sequence's life, a fork of a fork, a batch of two groups and a tail,
an option given twice in front of an identifier, a second identifier whose
seeding fails after the first was printed.
Nothing in the models depends on the real sizes except through the named
constants, and the proofs hold for all of them. The type invariants are proved;
in a run too are that of `RandTls`, which bounds the window position, and those
of the codecs and layouts, as parts of `EncodeExact`, `ConstructsExactly` and
`ReadsBack`: an encoder never runs off the left end of its string, say.

CHECK_DEADLOCK is off only where the system may stop: when all threads of
`RandTls` have exited, and when the generator has.

What the properties of the generator say: `SuccessIsExact`, that exit status 0
means that stdout holds exactly what the command line, read as a whole, asks
for: as many records, of that format, in that projection; `FailureTellsHowFar`,
that status 1 always has a wrong argument behind it, the one that follows what was
printed, and that status 2 leaves a proper head of what was asked for; `NoEmptyRecord`, that no
combination of options reaches a projection that its format lacks, for which the
printing function would print nothing; `KeyedOrRefused`, that every new
identifier was drawn from a key that the OS filled to the last byte.

### Disagreements between text and code

Three runs are expected to find a violation. Each checks a sentence of the
repository against the code:

| Run | Property | Text | Code |
|---|---|---|---|
| `uuidv7_sequence_clock` | `ClockFailureBails` | `uuidv7_sequence.c:142` "brand-new sequence + clock failure), bail with TIME_RANGE" | -1 is clamped to 0 and an identifier is emitted |
| `rand_tls_force` | `ForcedSlotIsClean` | `rand_tls.c:57` force_reseed gives stronger guarantees about residue | only the flag is cleared |
| `rand_tls_recycle` | `SelfSeeded` | `rand.h:21` "reseeded ... after fork()" | not if the child has the recycled pid of the seeding process |

Smaller ones met on the way, visible in the models but without a run:

- `uuidv7.h:281` says that `next` returns OK or ERR_RNG; a rollover in the last
  millisecond returns TIME_RANGE (`uuidv7_sequence.c:187`,
  `SequenceNextRangeExhausted`).
- `rand_tls.c:325` excludes a "half-wired state where the TLS slot looks seeded
  but the destructor never fires"; the result of the registration is ignored
  (`RegisterCxa`, `RegisterFls`), so a seeded slot may have no hook, and one
  registered from a destructor that runs after the callbacks never fires.
- `rand_tls.c:346` says "now == -1 (clock failure) makes this branch fire"; not
  when `seed_time` is -1 too (`ShouldReseed`).
- `encode_batch.c:113` says the environment is "consulted exactly once"; each
  racing first caller reads it (`Resolve`), and all get the same answer.

## Fairness

- `Uuidv7Sequence`: strong fairness of entering `next`, since the caller keeps
  calling, also if it calls `init` and `bounds` in between; weak fairness of the
  steps inside a call, since a draw that was begun succeeds or fails; strong
  fairness of the success of each of the two draws of `next`, since an entropy
  source that works again and again lets one of them through. A caller that
  stops, or a source that fails for ever, promises nothing.
- `RandTls`: weak fairness of the copy loop's round: a running thread runs.
- `RandOs`: weak fairness of the system calls other than an interruption: the
  kernel does not interrupt the same call for ever.
- `BatchDispatch`: weak fairness of each thread inside a call.
- `ChronoidGen`: weak fairness of every step but an interruption: the program
  runs, and the kernel does not interrupt it for ever. Nothing is assumed of the
  success of clock or entropy.

## Proofs

All theorems hold for every value of the constants that satisfies the module's
`ConstantsAssumption`, or in `Formats` its five assumptions `CodecFits` ..
`Uuidv7Fits`. These say what the code takes for granted of its widths and
arguments: that 27 digits in base 62 hold every KSUID, that a cell of the
decoder's arrays holds a base62 digit, that the epoch plus 32 bits of seconds is
within `int64_t`, that version and variant are the high part of a byte, that a
string of the SIMD kernels is at least one vector long. The sizes of the code
satisfy them (`2^32`, 5, 62, 27 and so on), as do those of `MCFormats`, which TLC
evaluates.

Every safety invariant and every action property that a run expects to hold is
also a theorem. Each inductive invariant named below that is not itself checked
by a run was checked by TLC on the run's instance before it was proved
(`TranslationInv` on a part of its strings).

- **Uuidv7SequenceProofs.** Invariant `SequenceInv`: types, `OutSpellsState`
  (the last identifier is what the fields spell, without which nothing relates
  the next one to it), `TracksClock`, `BandPlaced` (where an envelope stands
  before and after its first use; `BandBrackets` alone is not inductive since it
  says nothing of an unused envelope), `CallPlaced` (while a call is in progress,
  the caller's structures are still those it was entered with, and the branch it
  took on entry is still the one its locals say; `FailureUntouched` alone says
  nothing of a call that has not failed yet). Monotonicity rests on a lemma that `Key`
  is lexicographic. The refinement of `MonotonicSource` follows from it; `StrictlyMonotonic` is
  the same promise said of the sequence's own fields, and is proved only.
- **KsuidSequenceProofs.** `SequenceInv` adds that the identifier issued last is
  the one before `count`.
- **RandTlsProofs.** `RandInv`: the window holds exactly the unread part of the
  newest block and the byte counter is the stream position (`WindowExact`); keys
  above `seeds` are unused; a slot whose key was fetched by another thread
  carries a pid other than its holder's (`SlotAccounted`), which is what makes
  the pid test a fork test; a thread inside a request passed that test
  (`DrawAccounted`). Every theorem assumes `~PidRecycling`: `rand_tls_recycle`
  shows that it is needed. `ExitIsClean` needs one more invariant,
  `NoLateCallback`: once the runtime has run a thread's callbacks, none that it
  will run is pending again.
- **SetRandProofs.** `OverrideInv`: function and context in force are those of
  the last completed and the last begun call, and each draw's copies lie between
  the call it began after and the present. `PairMatched` is about an owner
  with `quiesced`, the contract of `ksuid.h`; the other results hold for both.
- **RandOsProofs.** `OsInv`: what the current source has delivered is a filled
  head of the buffer, whatever earlier sources left there.
- **BatchDispatchProofs.** `BatchInv`: a caller that runs a kernel has written
  each cell below `done` once and none above (`CallAccounted`), `done` is at most
  `n`, and whatever pointer a caller holds or the global one shows is either the
  trampoline or `Resolved`. The last part is what makes a race of first calls
  harmless: all of them store the same value.
- **ChronoidGenProofs.** `ImplementsMain` and `ImplementsOs` say that the
  composition does nothing to either part that the part's own specification does
  not allow. The first gives the results about `Cli` (`MainInv`: a
  projection that is about to be printed exists for its format); the second lets
  the proof use the theorems of `RandOsProofs`, through an instance of that
  module, instead of repeating them. `KeyInv` then ties them together: the entropy
  source is only at work on a seed, a seeded slot has a complete key, and as many
  identifiers were printed as drawn.
  `AnswerInv` is the invariant of `main` behind the exit status: the option
  variables are what the part of the command line read so far says (`OptionsRead`),
  and behind the options stdout is the head of the answer of which the loop
  counter says how long it is. The reading of a command line as a whole (`Starts`:
  at which positions options and words begin) is a recursive function; its
  equation is proved by induction over positions.
- **FormatsProofs.** The functions on single identifiers, at any width.
  - *Induction.* The library's induction theorems take a predicate, which the
    installed provers cannot instantiate; `SetInduction` states induction for a
    set of numbers, which they can, and is proved from the well-foundedness of
    `<` (`WFMin`). `RecursionExists` and `IteratesTyped` then show that a
    recursive function obeys its equations. The arithmetic of `Numerals` follows:
    appending a digit, bounds by length, setting a digit (`ValueAppend`,
    `ValueBound`, `ValueSet`).
  - *base62.* `ConversionInv` is the loop invariant of all three conversions:
    what is left, shifted by the cells written, plus the cells with the padding
    to come is the input (`Converting`). Two more parts are needed: what is left
    fits the cells that are left, so that an encoder never runs out of them; and
    a rest that is not empty is not zero, so that the decoder's overflow is a real
    one. The AVX2 encoder adds `DivModExact`: the high word of the product with
    the reciprocal, put together from four half products, is the quotient or one
    less, and the correction makes it exact, for every radix below the limb base.
    `EncodersExact`, `DecoderExact`.
  - *Characters.* `TranslationInv`: every kernel computes the table on the head.
    The lane arithmetic is the same function as the table for each of the 256
    bytes, from the three range tests. `TranslationExact`.
  - *hex.* `CallInv`: arguments of the calls in progress. The three formatters
    equal the text as the RFC draws it, from lemmas on nibbles, shuffle and
    unpack, for all UUIDs and groups of four. For the parser, `BadMeans`: the high
    nibble of the accumulated mask is zero exactly if that of every lookup is,
    by induction over the rounds, from the bitwise `Or8` and `And8`.
    `HexEncodersAgree`, `HexParseExact`.
  - *KSUID.* `ConstructsExactly` is inductive as it stands; `Load` inverts
    `Store`. For the order, each kernel is shown to find the first byte that
    differs, wherever the vector ends, and numerals of equal length to compare as
    their first different digits do. `KsuidConstructsExactly`,
    `KsuidComparesByTime`.
  - *UUIDv7.* `LayoutInv`: the identifier is the composition of what it was asked
    to hold, which is what both results follow from. `Uuidv7ReadsBack`,
    `Uuidv7ComparesByParts`; the second says that the order in which
    `Uuidv7SequenceProofs` states strict monotonicity is that of
    `chronoid_uuidv7_compare`.

Only model-checked: liveness (`Retracks`, `NeverStalls`, `DrawsFinish`, both
`CallReturns`, `Terminates`), since it needs fairness and ENABLED, which are out
of the prover's reach. The three expected violations are counterexamples and have
no theorem; that `SelfSeeded` holds without recycled pids is one (`OwnStreams`).

## Not modelled

- The rounds of ChaCha20: checked against the RFC vectors by the tests. RandTls
  uses only that each (key, counter) names one block. The counter wraps after
  2^32 blocks; `BytesBounded` keeps it far from that for any request a caller of
  the library can cause (at most 16 bytes).
- `chronoid_explicit_bzero` against the optimiser; helpers that exist for tests
  (`rand_tls.c:113-133`, the time-source setter apart from its effect on the
  clock); the re-entry guard `rand_tls.c:368`, which nothing can trigger since
  the wipe calls nothing back; requests of zero bytes, which the library never
  makes.
- The failure of the only draw of `new_with_time` part-way: the draw goes into a
  local buffer before the caller's identifier is touched, and is one step of the
  layouts with two outcomes; what the draw does inside is `RandTls` and `RandOs`.
- Draws from another FLS callback after the wipe on Windows: the order of FLS
  callbacks and what a callback may still call is outside the repository.
- The public headers: declarations, constants and the version macro. What their
  comments promise is what the properties state.
- Two copies of one sequence struct (a fork, an assignment) go on with the same
  identifiers; no document of the repository promises otherwise, and the random
  tails of the UUIDv7 sequence come from the CSPRNG, which does tell
  processes apart.

## Plan

1. (done) The sequences and their common abstract specification; the CSPRNG;
   the override; the entropy source; proofs of all of these.
2. (done) Codecs, alphabets, comparison, layouts, batch dispatch, with TLC.
3. (done) `Cli`, and its composition with seeding and entropy in `ChronoidGen`;
   the choice of the batch kernel by build, machine and environment; proofs of
   both.
4. (done) Proofs of the codecs, the character kernels, the layouts, the
   comparison kernels, and of the generator's exit status.
5. The safety part of the liveness properties: a bound on the steps that a call
   of `RandOs` or a round of the codecs can still take.
6. A composition of the generators with `SetRand` and `RandTls` for several
   threads: two threads of a forked process never emit equal random parts while
   an override comes and goes.
7. The 32-bit block counter of ChaCha20 with wraparound, as an instance of
   `BytesBounded`.

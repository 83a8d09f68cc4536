------------------------------- MODULE RandTls -------------------------------
(***************************************************************************)
(* The per-thread CSPRNG (chronoid/rand_tls.c): every thread of every      *)
(* process owns one TLS slot with a ChaCha20 key, a block counter and a    *)
(* window of buffered keystream.  Threads start, fork, draw, force a       *)
(* reseed and exit; the OS entropy source may fail, the clock may read     *)
(* anything, and registering the thread-exit hook may fail.                *)
(*                                                                         *)
(* A task is one thread of one process incarnation and is never reused.    *)
(* A keystream byte is named by the key it comes from and its position     *)
(* (block number times BufLen plus offset); keys are numbered in the order *)
(* in which the OS handed them out, so two seedings never share one.       *)
(***************************************************************************)
EXTENDS Integers

CONSTANTS
  Tasks,          \* threads that may ever exist
  Nobody,         \* no task at all
  Main,           \* the thread the program starts with
  Pids,           \* process identifiers
  BufLen,         \* bytes of one ChaCha20 block (64)
  ReseedBytes,    \* CHRONOID_RNG_RESEED_BYTES
  ReseedSeconds,  \* CHRONOID_RNG_RESEED_SECONDS
  MaxDraw,        \* largest single request; bounds the model
  MaxSeeds,       \* seedings that may succeed; bounds the model
  Times,          \* what chronoid_now_seconds may return, -1 on failure
  Hook,           \* the build's thread-exit hook: "cxa", "fls" or "none"
  PidRecycling    \* may the OS give a dead process's pid to a new one?

ASSUME ConstantsAssumption ==
  /\ Main \in Tasks
  /\ Nobody \notin Tasks
  /\ 0 \notin Pids /\ Pids # {}
  /\ BufLen \in Nat \ {0}
  /\ ReseedBytes \in Nat \ {0}
  /\ ReseedSeconds \in Nat
  /\ MaxDraw \in Nat
  /\ MaxSeeds \in Nat
  /\ Times \subseteq Int
  /\ Hook \in {"cxa", "fls", "none"}
  /\ PidRecycling \in BOOLEAN

VARIABLES
  slot,       \* chronoid_tls_rng_ of every task
  want,       \* bytes the task's current chronoid_random_bytes still owes
  life,       \* "unborn", "running", "exiting", "late" or "gone"
  pid,        \* getpid() of the task's process
  hook,       \* is a thread-exit callback pending in the C runtime?
  fls_index,  \* chronoid_fls_index_: "unset", "ok" or "failed"
  seeds,      \* number of seedings so far; the last one made key number seeds
  seeder,     \* history: the task that drew each key from the OS
  used,       \* history: keystream positions handed out under each key
  unhooked    \* history: no exit callback will run, because registering one
              \* failed or came after the runtime had run the last of them

vars == <<slot, want, life, pid, hook, fls_index, seeds, seeder, used, unhooked>>

NoKey  == 0
Keys   == 1 .. MaxSeeds

(* A slot as static TLS storage or chronoid_random_thread_state_wipe leaves it. *)
ZeroSlot ==
  [key |-> NoKey, ctr |-> 0, buf |-> {}, buf_pos |-> 0, bytes_emitted |-> 0,
   seed_time |-> 0, seed_pid |-> 0, seeded |-> FALSE,
   destructor_registered |-> FALSE]

Init ==
  /\ slot = [t \in Tasks |-> ZeroSlot]
  /\ want = [t \in Tasks |-> 0]
  /\ life = [t \in Tasks |-> IF t = Main THEN "running" ELSE "unborn"]
  /\ pid \in {[t \in Tasks |-> p] : p \in Pids}
  /\ hook = [t \in Tasks |-> FALSE]
  /\ fls_index = "unset"
  /\ seeds = 0
  /\ seeder = [k \in Keys |-> Nobody]
  /\ used = [k \in {NoKey} \cup Keys |-> {}]
  /\ unhooked = [t \in Tasks |-> FALSE]

-----------------------------------------------------------------------------
(* The keystream window.                                                   *)

Block(c) == (c * BufLen) .. (c * BufLen + BufLen - 1)

(* Mutant: a window that has just been used up does not count as empty. *)
RefilledLate(r) ==
  IF r.buf_pos > BufLen
  THEN [r EXCEPT !.buf = Block(r.ctr), !.ctr = @ + 1, !.buf_pos = 0]
  ELSE r

(* The head of the loop: chronoid_chacha20_block when the window is empty. *)
Refilled(r) ==
  IF r.buf_pos = BufLen
  THEN [r EXCEPT !.buf = Block(r.ctr), !.ctr = @ + 1, !.buf_pos = 0]
  ELSE r

(* Mutant: the request is not cut at the end of the window. *)
ChunkLenUncut(r, n) == n

ChunkLen(r, n) == IF n < BufLen - r.buf_pos THEN n ELSE BufLen - r.buf_pos

(* Next keystream position of a slot: all blocks made, less what is left. *)
Position(r) == r.ctr * BufLen - (BufLen - r.buf_pos)

(* The positions that the next memcpy of an n-byte request reads. *)
Chunk(r, n) == Position(r) .. (Position(r) + ChunkLen(r, n) - 1)

(* Mutant: consumed keystream stays in the window. *)
ConsumedNotWiped(r, n) ==
  [r EXCEPT !.buf_pos = @ + ChunkLen(r, n),
            !.bytes_emitted = @ + ChunkLen(r, n)]

(* Copy, wipe what was copied, advance. *)
Consumed(r, n) ==
  [r EXCEPT !.buf = @ \ Chunk(r, n),
            !.buf_pos = @ + ChunkLen(r, n),
            !.bytes_emitted = @ + ChunkLen(r, n)]

-----------------------------------------------------------------------------
(* Seeding.                                                                *)

(* What chronoid_tls_register_thread_exit may leave behind: the slot's     *)
(* flag, whether the runtime holds a callback that it will run, whether    *)
(* the thread is without one, and the FLS index.                           *)
AlreadyRegistered(t) ==
  {[flag |-> TRUE, pending |-> hook[t], failed |-> unhooked[t], index |-> fls_index]}

(* The flag goes up before the call, whose result is ignored.  A callback  *)
(* registered by one of the last destructors of a thread, which run after  *)
(* the callbacks (pthread keys do), is accepted and never run.             *)
RegisterCxa(t) ==
  {[flag |-> TRUE, pending |-> ok /\ life[t] # "late",
    failed |-> ~(ok /\ life[t] # "late"), index |-> fls_index] : ok \in BOOLEAN}

(* FlsAlloc is tried once per process; the flag goes up after FlsSetValue. *)
FlsIndexes == IF fls_index = "unset" THEN {"ok", "failed"} ELSE {fls_index}

RegisterFls ==
  {[flag |-> i = "ok" /\ ok, pending |-> i = "ok" /\ ok,
    failed |-> ~(i = "ok" /\ ok), index |-> i] : i \in FlsIndexes, ok \in BOOLEAN}

RegisterNone ==
  {[flag |-> FALSE, pending |-> FALSE, failed |-> TRUE, index |-> fls_index]}

Registrations(t) ==
  IF slot[t].destructor_registered THEN AlreadyRegistered(t)
  ELSE CASE Hook = "cxa"  -> RegisterCxa(t)
         [] Hook = "fls"  -> RegisterFls
         [] Hook = "none" -> RegisterNone

(* Mutant: the window of the previous key is not marked empty. *)
SeededSlotKeepsWindow(t, key, now, reg) ==
  [key |-> key, ctr |-> 0, buf |-> {}, buf_pos |-> slot[t].buf_pos,
   bytes_emitted |-> 0, seed_time |-> now, seed_pid |-> pid[t], seeded |-> TRUE,
   destructor_registered |-> reg.flag]

(* chronoid_tls_rng_seed, given the key the OS delivered, the clock reading *)
(* and the outcome of the registration.                                     *)
SeededSlot(t, key, now, reg) ==
  [key |-> key, ctr |-> 0, buf |-> {}, buf_pos |-> BufLen, bytes_emitted |-> 0,
   seed_time |-> now, seed_pid |-> pid[t], seeded |-> TRUE,
   destructor_registered |-> reg.flag]

(* Mutant: a forked child does not notice that it is one. *)
ShouldReseedIgnoresPid(t, now) ==
  LET r == slot[t] IN
  \/ ~r.seeded
  \/ r.bytes_emitted >= ReseedBytes
  \/ now < r.seed_time
  \/ now - r.seed_time >= ReseedSeconds

(* Mutant: the byte budget is checked one byte late. *)
ShouldReseedLate(t, now) ==
  LET r == slot[t] IN
  \/ ~r.seeded
  \/ r.bytes_emitted > ReseedBytes
  \/ pid[t] # r.seed_pid
  \/ now < r.seed_time
  \/ now - r.seed_time >= ReseedSeconds

(* chronoid_tls_rng_should_reseed *)
ShouldReseed(t, now) ==
  LET r == slot[t] IN
  \/ ~r.seeded
  \/ r.bytes_emitted >= ReseedBytes
  \/ pid[t] # r.seed_pid
  \/ now < r.seed_time
  \/ now - r.seed_time >= ReseedSeconds

-----------------------------------------------------------------------------
(* chronoid_random_bytes.  A task calls it while it runs, or from another  *)
(* destructor while it exits.                                              *)

Callable(t) ==
  /\ want[t] = 0
  /\ \/ life[t] = "running"
     \/ life[t] \in {"exiting", "late"} /\ Hook = "cxa"

(* The slot is still good: go straight to the copy loop. *)
DrawContinues(t, n, now) ==
  /\ Callable(t)
  /\ ~ShouldReseed(t, now)
  /\ want' = [want EXCEPT ![t] = n]
  /\ UNCHANGED <<slot, life, pid, hook, fls_index, seeds, seeder, used, unhooked>>

(* The slot is reseeded first. *)
DrawReseeds(t, n, now) ==
  /\ Callable(t)
  /\ ShouldReseed(t, now)
  /\ seeds < MaxSeeds
  /\ seeds' = seeds + 1
  /\ seeder' = [seeder EXCEPT ![seeds + 1] = t]
  /\ \E time \in Times, reg \in Registrations(t) :
       /\ slot' = [slot EXCEPT ![t] = SeededSlot(t, seeds + 1, time, reg)]
       /\ hook' = [hook EXCEPT ![t] = reg.pending]
       /\ fls_index' = reg.index
       /\ unhooked' = [unhooked EXCEPT ![t] = reg.failed]
  /\ want' = [want EXCEPT ![t] = n]
  /\ UNCHANGED <<life, pid, used>>

(* chronoid_os_random_bytes fails: the call returns -1, nothing is copied. *)
DrawFails(t, now) ==
  /\ Callable(t)
  /\ ShouldReseed(t, now)
  /\ UNCHANGED vars

(* One round of the copy loop. *)
DrawChunk(t) ==
  /\ want[t] > 0
  /\ LET r == Refilled(slot[t]) IN
       /\ slot' = [slot EXCEPT ![t] = Consumed(r, want[t])]
       /\ used' = [used EXCEPT ![r.key] = @ \cup Chunk(r, want[t])]
       /\ want' = [want EXCEPT ![t] = @ - ChunkLen(r, want[t])]
  /\ UNCHANGED <<life, pid, hook, fls_index, seeds, seeder, unhooked>>

(* chronoid_random_force_reseed *)
ForceReseed(t) ==
  /\ Callable(t)
  /\ slot' = [slot EXCEPT ![t].seeded = FALSE]
  /\ UNCHANGED <<want, life, pid, hook, fls_index, seeds, seeder, used, unhooked>>

-----------------------------------------------------------------------------
(* The life of threads and processes (the C runtime and the kernel).       *)

StartThread(t, u) ==
  /\ life[t] = "running" /\ life[u] = "unborn"
  /\ life' = [life EXCEPT ![u] = "running"]
  /\ pid' = [pid EXCEPT ![u] = pid[t]]
  /\ UNCHANGED <<slot, want, hook, fls_index, seeds, seeder, used, unhooked>>

FreePids ==
  {p \in Pids : \A x \in Tasks :
     \/ life[x] = "unborn"
     \/ pid[x] # p
     \/ PidRecycling /\ life[x] = "gone"}

(* fork() copies the calling thread's TLS slot and its pending callbacks. *)
Fork(t, u, p) ==
  /\ Hook # "fls"
  /\ life[t] = "running" /\ want[t] = 0 /\ life[u] = "unborn"
  /\ p \in FreePids
  /\ life' = [life EXCEPT ![u] = "running"]
  /\ pid' = [pid EXCEPT ![u] = p]
  /\ slot' = [slot EXCEPT ![u] = slot[t]]
  /\ hook' = [hook EXCEPT ![u] = hook[t]]
  /\ unhooked' = [unhooked EXCEPT ![u] = unhooked[t]]
  /\ UNCHANGED <<want, fls_index, seeds, seeder, used>>

BeginExit(t) ==
  /\ life[t] = "running" /\ want[t] = 0
  /\ life' = [life EXCEPT ![t] = "exiting"]
  /\ UNCHANGED <<slot, want, pid, hook, fls_index, seeds, seeder, used, unhooked>>

(* Mutant: the wipe spares the registered flag, so a slot seeded again by a *)
(* later destructor is not registered again.                                *)
WipeAtExitSparesFlag(t) ==
  /\ life[t] = "exiting" /\ want[t] = 0 /\ hook[t]
  /\ hook' = [hook EXCEPT ![t] = FALSE]
  /\ slot' = [slot EXCEPT ![t] = [ZeroSlot EXCEPT !.destructor_registered = TRUE]]
  /\ UNCHANGED <<want, life, pid, fls_index, seeds, seeder, used, unhooked>>

(* The pending callback runs chronoid_random_thread_state_wipe. *)
WipeAtExit(t) ==
  /\ life[t] = "exiting" /\ want[t] = 0 /\ hook[t]
  /\ hook' = [hook EXCEPT ![t] = FALSE]
  /\ slot' = [slot EXCEPT ![t] = ZeroSlot]
  /\ UNCHANGED <<want, life, pid, fls_index, seeds, seeder, used, unhooked>>

(* No callback is pending any more: the runtime goes on to the destructors *)
(* that run after them, and what is registered from there never runs.      *)
CallbacksDone(t) ==
  /\ life[t] = "exiting" /\ want[t] = 0 /\ ~hook[t]
  /\ life' = [life EXCEPT ![t] = "late"]
  /\ UNCHANGED <<slot, want, pid, hook, fls_index, seeds, seeder, used, unhooked>>

FinishExit(t) ==
  /\ life[t] = "late" /\ want[t] = 0
  /\ life' = [life EXCEPT ![t] = "gone"]
  /\ UNCHANGED <<slot, want, pid, hook, fls_index, seeds, seeder, used, unhooked>>

Draw(t) ==
  \E now \in Times :
    \/ \E n \in 1 .. MaxDraw : DrawContinues(t, n, now) \/ DrawReseeds(t, n, now)
    \/ DrawFails(t, now)

Next ==
  \E t \in Tasks :
    \/ Draw(t)
    \/ DrawChunk(t)
    \/ ForceReseed(t)
    \/ BeginExit(t)
    \/ WipeAtExit(t)
    \/ CallbacksDone(t)
    \/ FinishExit(t)
    \/ \E u \in Tasks : StartThread(t, u)
    \/ \E u \in Tasks, p \in Pids : Fork(t, u, p)

Spec == Init /\ [][Next]_vars

(* A thread inside the copy loop keeps running. *)
FairSpec == Spec /\ \A t \in Tasks : WF_vars(DrawChunk(t))

-----------------------------------------------------------------------------
Slot ==
  [key : {NoKey} \cup Keys, ctr : Nat, buf : SUBSET Nat, buf_pos : 0 .. BufLen,
   bytes_emitted : Nat, seed_time : Times \cup {0}, seed_pid : Pids \cup {0},
   seeded : BOOLEAN, destructor_registered : BOOLEAN]

(* Types of every variable; the window position never passes its end. *)
TypeOK ==
  /\ slot \in [Tasks -> Slot]
  /\ want \in [Tasks -> 0 .. MaxDraw]
  /\ life \in [Tasks -> {"unborn", "running", "exiting", "late", "gone"}]
  /\ pid \in [Tasks -> Pids]
  /\ hook \in [Tasks -> BOOLEAN]
  /\ fls_index \in {"unset", "ok", "failed"}
  /\ seeds \in 0 .. MaxSeeds
  /\ seeder \in [Keys -> Tasks \cup {Nobody}]
  /\ used \in [{NoKey} \cup Keys -> SUBSET Nat]
  /\ unhooked \in [Tasks -> BOOLEAN]

(* Whatever chronoid_random_bytes is about to copy out is real keystream   *)
(* (never a zeroed or already wiped byte) and was never handed out before, *)
(* by this thread or by any other, in this process or in another.          *)
FreshKeystream ==
  \A t \in Tasks : want[t] > 0 =>
    LET r == Refilled(slot[t]) IN
      /\ Chunk(r, want[t]) \subseteq r.buf
      /\ Chunk(r, want[t]) \cap used[r.key] = {}

(* A thread only ever draws from a key that it fetched from the OS itself: *)
(* no thread and no forked child continues somebody else's stream.         *)
SelfSeeded ==
  \A t \in Tasks : want[t] > 0 =>
    slot[t].key # NoKey /\ seeder[slot[t].key] = t

(* The 1 MiB budget is checked at the head of a call only, so one key      *)
(* yields at most the budget less one byte plus one whole request: the     *)
(* 32-bit block counter stays far from its end.                            *)
BytesBounded ==
  \A t \in Tasks : slot[t].bytes_emitted + want[t] <= ReseedBytes - 1 + MaxDraw

(* In the slot of the thread that owns the key, no byte that was handed    *)
(* out is still in memory, even in the middle of a request.                *)
ConsumedWiped ==
  \A t \in Tasks : slot[t].key # NoKey /\ seeder[slot[t].key] = t =>
    slot[t].buf \cap used[slot[t].key] = {}

(* A thread leaves nothing behind, even when another destructor draws      *)
(* again after the wipe, unless its callback could not be registered or    *)
(* was registered when the runtime had run the last of them.               *)
NoResidueAtExit ==
  \A t \in Tasks : life[t] = "gone" /\ ~unhooked[t] => slot[t] = ZeroSlot

(* The window of a keyed slot holds exactly the part of the newest block   *)
(* that has not been copied out, and the byte counter is the position in   *)
(* the stream.                                                             *)
WindowExact(r) ==
  r.key # NoKey =>
    /\ Position(r) = r.bytes_emitted
    /\ r.buf = Position(r) .. (r.ctr * BufLen - 1)

(* What relates the slots to the history of keys: which keys exist, which  *)
(* positions their owners have handed out, and why a copy of a slot in a   *)
(* forked child cannot pass for the child's own.                           *)
KeysAccounted ==
  /\ \A k \in Keys : k > seeds => used[k] = {}
  /\ \A k \in Keys : seeder[k] # Nobody => life[seeder[k]] # "unborn"
  /\ \A t \in Tasks : slot[t].key <= seeds

SlotAccounted(t) ==
  LET r == slot[t] IN
  /\ life[t] = "unborn" => r = ZeroSlot
  /\ r.seeded => r.key # NoKey
  /\ r.key # NoKey /\ seeder[r.key] = t => used[r.key] = 0 .. (Position(r) - 1)
  /\ r.seeded /\ seeder[r.key] # t => r.seed_pid # pid[t]
  /\ r.seeded => \E x \in Tasks : life[x] # "unborn" /\ pid[x] = r.seed_pid
  /\ r # ZeroSlot => hook[t] \/ unhooked[t]

DrawAccounted(t) ==
  want[t] > 0 =>
    /\ life[t] \in {"running", "exiting", "late"}
    /\ slot[t].seeded /\ slot[t].seed_pid = pid[t]

(* The inductive invariant behind the safety theorems. *)
RandInv ==
  /\ TypeOK
  /\ KeysAccounted
  /\ \A t \in Tasks : WindowExact(slot[t]) /\ SlotAccounted(t) /\ DrawAccounted(t)
  /\ BytesBounded

(* The copy loop ends. *)
DrawsFinish == \A t \in Tasks : want[t] > 0 ~> want[t] = 0

(* rand_tls.c on platforms without a hook: chronoid_random_force_reseed    *)
(* before joining gives the stronger guarantee that no residue persists.   *)
ForcedSlotIsClean ==
  \A t \in Tasks : life[t] = "gone" /\ ~slot[t].seeded => slot[t] = ZeroSlot
=============================================================================

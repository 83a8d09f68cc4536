---------------------------- MODULE RandTlsProofs ----------------------------
(***************************************************************************)
(* Proofs about RandTls for any number of threads and processes, any block *)
(* length and any budget, as long as a pid is not given out twice.         *)
(***************************************************************************)
EXTENDS RandTls, TLAPS

(* Block arithmetic. *)
LEMMA Blocks ==
  ASSUME NEW c \in Nat
  PROVE  /\ c * BufLen \in Nat
         /\ (c + 1) * BufLen = c * BufLen + BufLen
  BY ConstantsAssumption

(* Taking the first c elements off an interval. *)
LEMMA IntervalSplit ==
  ASSUME NEW p \in Nat, NEW e \in Nat, NEW c \in Nat, p + c <= e
  PROVE  (p .. (e - 1)) \ (p .. (p + c - 1)) = (p + c) .. (e - 1)
  OBVIOUS

(* Refilling an empty window moves no position; afterwards at least one    *)
(* byte is available.                                                      *)
LEMMA RefilledExact ==
  ASSUME NEW r \in Slot, r.key # NoKey, WindowExact(r)
  PROVE  /\ Refilled(r) \in Slot
         /\ Refilled(r).key = r.key
         /\ Refilled(r).seeded = r.seeded
         /\ Refilled(r).seed_pid = r.seed_pid
         /\ Refilled(r).bytes_emitted = r.bytes_emitted
         /\ Refilled(r).buf_pos < BufLen
         /\ WindowExact(Refilled(r))
         /\ Position(Refilled(r)) = Position(r)
<1> USE ConstantsAssumption
<1>0. /\ r.ctr \in Nat
      /\ r.buf_pos \in 0 .. BufLen
      /\ r.bytes_emitted \in Nat
      /\ Position(r) = r.bytes_emitted
  BY DEF Slot, WindowExact
<1>1. CASE r.buf_pos # BufLen
  BY <1>0, <1>1 DEF Refilled
<1>2. CASE r.buf_pos = BufLen
  <2> DEFINE q == Refilled(r)
  <2>1. q = [r EXCEPT !.buf = Block(r.ctr), !.ctr = r.ctr + 1, !.buf_pos = 0]
    BY <1>2 DEF Refilled
  <2>2. Block(r.ctr) \in SUBSET Nat
    BY <1>0, Blocks DEF Block
  <2>3. /\ q \in Slot
        /\ q.key = r.key
        /\ q.seeded = r.seeded
        /\ q.seed_pid = r.seed_pid
        /\ q.bytes_emitted = r.bytes_emitted
        /\ q.buf_pos = 0
        /\ q.ctr = r.ctr + 1
        /\ q.buf = Block(r.ctr)
    <3> HIDE DEF q
    <3>1. r.ctr + 1 \in Nat /\ 0 \in 0 .. BufLen
      BY <1>0
    <3> QED
      BY <2>1, <2>2, <3>1 DEF Slot
  <2> HIDE DEF q
  <2>4. Position(r) = r.ctr * BufLen
    BY <1>0, <1>2, Blocks DEF Position
  <2>5. Position(q) = r.ctr * BufLen
    BY <1>0, <2>3, Blocks DEF Position
  <2>6. Block(r.ctr) = Position(q) .. (q.ctr * BufLen - 1)
    BY <1>0, <2>3, <2>5, Blocks DEF Block
  <2>7. WindowExact(q)
    BY <1>0, <2>3, <2>4, <2>5, <2>6 DEF WindowExact
  <2> QED
    BY <2>3, <2>4, <2>5, <2>7 DEF q
<1> QED
  BY <1>1, <1>2

(* One round of the copy loop reads bytes that are in the window, and      *)
(* leaves the window exact.                                                *)
LEMMA ConsumedExact ==
  ASSUME NEW r \in Slot, NEW n \in Nat, n > 0, r.key # NoKey, WindowExact(r),
         r.buf_pos < BufLen
  PROVE  /\ ChunkLen(r, n) \in 1 .. n
         /\ Chunk(r, n) \subseteq r.buf
         /\ Chunk(r, n) = Position(r) .. (Position(r) + ChunkLen(r, n) - 1)
         /\ Consumed(r, n) \in Slot
         /\ Consumed(r, n).key = r.key
         /\ Consumed(r, n).seeded = r.seeded
         /\ Consumed(r, n).seed_pid = r.seed_pid
         /\ Consumed(r, n).bytes_emitted = r.bytes_emitted + ChunkLen(r, n)
         /\ Position(Consumed(r, n)) = Position(r) + ChunkLen(r, n)
         /\ WindowExact(Consumed(r, n))
<1> USE ConstantsAssumption
<1> DEFINE c == ChunkLen(r, n)
           q == Consumed(r, n)
<1>0. /\ r.ctr \in Nat
      /\ r.buf_pos \in 0 .. BufLen
      /\ r.bytes_emitted \in Nat
      /\ Position(r) = r.bytes_emitted
      /\ r.buf = Position(r) .. (r.ctr * BufLen - 1)
      /\ r.ctr * BufLen \in Nat
      /\ r.buf \in SUBSET Nat
  BY Blocks DEF Slot, WindowExact
<1>1. c \in 1 .. n /\ c <= BufLen - r.buf_pos
  BY <1>0 DEF ChunkLen
<1>2. Chunk(r, n) = Position(r) .. (Position(r) + c - 1)
  BY DEF Chunk
<1>3. q = [r EXCEPT !.buf = r.buf \ Chunk(r, n),
                    !.buf_pos = r.buf_pos + c,
                    !.bytes_emitted = r.bytes_emitted + c]
  BY DEF Consumed
<1>4. /\ q \in Slot
      /\ q.key = r.key
      /\ q.seeded = r.seeded
      /\ q.seed_pid = r.seed_pid
      /\ q.bytes_emitted = r.bytes_emitted + c
      /\ q.buf_pos = r.buf_pos + c
      /\ q.ctr = r.ctr
      /\ q.buf = r.buf \ Chunk(r, n)
  <2> HIDE DEF c, q
  <2>1. r.buf \ Chunk(r, n) \in SUBSET Nat
    BY <1>0
  <2>2. r.buf_pos + c \in 0 .. BufLen /\ r.bytes_emitted + c \in Nat
    BY <1>0, <1>1
  <2> QED
    BY <1>3, <2>1, <2>2 DEF Slot
<1> HIDE DEF c, q
<1>5. Position(r) = r.ctr * BufLen - (BufLen - r.buf_pos)
  BY DEF Position
<1>6. Position(q) = Position(r) + c
  BY <1>0, <1>1, <1>4 DEF Position
<1> DEFINE end == r.ctr * BufLen
           pos == Position(r)
<1>71. /\ pos \in Nat /\ end \in Nat /\ c \in Nat
       /\ pos = end - (BufLen - r.buf_pos)
       /\ r.buf = pos .. (end - 1)
       /\ Chunk(r, n) = pos .. (pos + c - 1)
  BY <1>0, <1>1, <1>2, <1>5
<1>72. pos + c <= end
  <2> HIDE DEF pos, end
  <2> QED
    BY <1>0, <1>1, <1>71
<1>7. Chunk(r, n) \subseteq r.buf
  <2> HIDE DEF pos, end
  <2> QED
    BY <1>71, <1>72
<1>8. q.buf = Position(q) .. (q.ctr * BufLen - 1)
  <2>1. q.buf = (pos .. (end - 1)) \ (pos .. (pos + c - 1))
    BY <1>4, <1>71
  <2>2. Position(q) = pos + c /\ q.ctr * BufLen = end
    BY <1>4, <1>6
  <2> HIDE DEF pos, end
  <2> QED
    BY <1>71, <1>72, <2>1, <2>2, IntervalSplit
<1>9. WindowExact(q)
  BY <1>0, <1>1, <1>4, <1>6, <1>8 DEF WindowExact
<1> QED
  BY <1>1, <1>2, <1>4, <1>6, <1>7, <1>9 DEF c, q

-----------------------------------------------------------------------------
LEMMA ZeroFits == ZeroSlot \in Slot /\ ZeroSlot.key = NoKey /\ ~ZeroSlot.seeded
                  /\ ZeroSlot.bytes_emitted = 0 /\ WindowExact(ZeroSlot)
  BY ConstantsAssumption DEF ZeroSlot, Slot, NoKey, WindowExact

LEMMA InitInv == Init => RandInv
<1> SUFFICES ASSUME Init PROVE RandInv
  OBVIOUS
<1> USE ConstantsAssumption, ZeroFits
<1>1. TypeOK
  BY DEF Init, TypeOK, Keys, NoKey
<1>2. KeysAccounted
  BY DEF Init, KeysAccounted, Keys, NoKey
<1>3. ASSUME NEW t \in Tasks
      PROVE  WindowExact(slot[t]) /\ SlotAccounted(t) /\ DrawAccounted(t)
  BY DEF Init, SlotAccounted, DrawAccounted
<1>4. ASSUME NEW t \in Tasks
      PROVE  slot[t].bytes_emitted + want[t] <= ReseedBytes - 1 + MaxDraw
  <2>1. slot[t] = ZeroSlot /\ want[t] = 0
    BY DEF Init
  <2>2. slot[t].bytes_emitted = 0
    BY <2>1
  <2> QED
    BY <2>1, <2>2
<1>5. BytesBounded
  BY <1>4 DEF BytesBounded
<1> QED
  BY <1>1, <1>2, <1>3, <1>5 DEF RandInv

(* Everything the invariant says of one task. *)
TaskInv(t) ==
  /\ WindowExact(slot[t])
  /\ SlotAccounted(t)
  /\ DrawAccounted(t)
  /\ slot[t].bytes_emitted + want[t] <= ReseedBytes - 1 + MaxDraw

LEMMA ByTask == RandInv <=> TypeOK /\ KeysAccounted /\ \A t \in Tasks : TaskInv(t)
  BY DEF RandInv, TaskInv, BytesBounded

LEMMA ByTaskNext ==
  ASSUME TypeOK', KeysAccounted', \A t \in Tasks : TaskInv(t)'
  PROVE  RandInv'
  BY DEF RandInv, TaskInv, BytesBounded

-----------------------------------------------------------------------------
(* One lemma per action of Next. *)

LEMMA BeginExitInv ==
  ASSUME RandInv, NEW t \in Tasks, BeginExit(t)
  PROVE  RandInv'
<1> USE DEF BeginExit
<1>0. TypeOK /\ KeysAccounted /\ \A u \in Tasks : TaskInv(u)
  BY ByTask
<1>1. TypeOK'
  BY <1>0 DEF TypeOK
<1>2. \A x \in Tasks : life[x] # "unborn" => life'[x] # "unborn"
  BY <1>0 DEF TypeOK
<1>3. KeysAccounted'
  BY <1>0, <1>2 DEF TypeOK, KeysAccounted
<1>4. ASSUME NEW u \in Tasks PROVE TaskInv(u)'
  <2>1. TaskInv(u)
    BY <1>0
  <2>2. life'[u] = "unborn" => life[u] = "unborn"
    BY <1>0 DEF TypeOK
  <2>3. WindowExact(slot'[u])
    BY <2>1 DEF TaskInv, WindowExact
  <2>4. SlotAccounted(u)'
    BY <1>2, <2>1, <2>2 DEF TaskInv, SlotAccounted, Position
  <2>5. DrawAccounted(u)'
    BY <1>0, <2>1 DEF TypeOK, TaskInv, DrawAccounted
  <2> QED
    BY <2>1, <2>3, <2>4, <2>5 DEF TaskInv
<1> QED
  BY <1>1, <1>3, <1>4, ByTaskNext

LEMMA CallbacksDoneInv ==
  ASSUME RandInv, NEW t \in Tasks, CallbacksDone(t)
  PROVE  RandInv'
<1> USE DEF CallbacksDone
<1>0. TypeOK /\ KeysAccounted /\ \A u \in Tasks : TaskInv(u)
  BY ByTask
<1>1. TypeOK'
  BY <1>0 DEF TypeOK
<1>2. \A x \in Tasks : life[x] # "unborn" => life'[x] # "unborn"
  BY <1>0 DEF TypeOK
<1>3. KeysAccounted'
  BY <1>0, <1>2 DEF TypeOK, KeysAccounted
<1>4. ASSUME NEW u \in Tasks PROVE TaskInv(u)'
  <2>1. TaskInv(u)
    BY <1>0
  <2>2. life'[u] = "unborn" => life[u] = "unborn"
    BY <1>0 DEF TypeOK
  <2>3. WindowExact(slot'[u])
    BY <2>1 DEF TaskInv, WindowExact
  <2>4. SlotAccounted(u)'
    BY <1>2, <2>1, <2>2 DEF TaskInv, SlotAccounted, Position
  <2>5. DrawAccounted(u)'
    BY <1>0, <2>1 DEF TypeOK, TaskInv, DrawAccounted
  <2> QED
    BY <2>1, <2>3, <2>4, <2>5 DEF TaskInv
<1> QED
  BY <1>1, <1>3, <1>4, ByTaskNext

LEMMA FinishExitInv ==
  ASSUME RandInv, NEW t \in Tasks, FinishExit(t)
  PROVE  RandInv'
<1> USE DEF FinishExit
<1>0. TypeOK /\ KeysAccounted /\ \A u \in Tasks : TaskInv(u)
  BY ByTask
<1>1. TypeOK'
  BY <1>0 DEF TypeOK
<1>2. \A x \in Tasks : life[x] # "unborn" => life'[x] # "unborn"
  BY <1>0 DEF TypeOK
<1>3. KeysAccounted'
  BY <1>0, <1>2 DEF TypeOK, KeysAccounted
<1>4. ASSUME NEW u \in Tasks PROVE TaskInv(u)'
  <2>1. TaskInv(u)
    BY <1>0
  <2>2. life'[u] = "unborn" => life[u] = "unborn"
    BY <1>0 DEF TypeOK
  <2>3. WindowExact(slot'[u])
    BY <2>1 DEF TaskInv, WindowExact
  <2>4. SlotAccounted(u)'
    BY <1>2, <2>1, <2>2 DEF TaskInv, SlotAccounted, Position
  <2>5. DrawAccounted(u)'
    BY <1>0, <2>1 DEF TypeOK, TaskInv, DrawAccounted
  <2> QED
    BY <2>1, <2>3, <2>4, <2>5 DEF TaskInv
<1> QED
  BY <1>1, <1>3, <1>4, ByTaskNext

LEMMA WipeAtExitInv ==
  ASSUME RandInv, NEW t \in Tasks, WipeAtExit(t)
  PROVE  RandInv'
<1> USE DEF WipeAtExit
<1>0. TypeOK /\ KeysAccounted /\ \A u \in Tasks : TaskInv(u)
  BY ByTask
<1>1. TypeOK'
  BY <1>0, ZeroFits DEF TypeOK
<1>2. KeysAccounted'
  BY <1>0, ZeroFits DEF TypeOK, KeysAccounted, NoKey
<1>3. ASSUME NEW u \in Tasks PROVE TaskInv(u)'
  <2>1. TaskInv(u)
    BY <1>0
  <2>2. CASE u = t
    <3>1. slot'[u] = ZeroSlot /\ want'[u] = 0
      BY <1>0, <2>2 DEF TypeOK
    <3>2. SlotAccounted(u)'
      BY <3>1, ZeroFits DEF SlotAccounted
    <3>3. WindowExact(slot'[u]) /\ DrawAccounted(u)'
      BY <3>1, ZeroFits DEF DrawAccounted
    <3>4. slot'[u].bytes_emitted + want'[u] <= ReseedBytes - 1 + MaxDraw
      BY <3>1, ZeroFits, ConstantsAssumption
    <3> QED
      BY <3>2, <3>3, <3>4 DEF TaskInv
  <2>3. CASE u # t
    <3>1. slot'[u] = slot[u] /\ hook'[u] = hook[u]
      BY <1>0, <2>3 DEF TypeOK
    <3> QED
      BY <2>1, <3>1 DEF TaskInv, SlotAccounted, DrawAccounted, WindowExact, Position
  <2> QED
    BY <2>2, <2>3
<1> QED
  BY <1>1, <1>2, <1>3, ByTaskNext

(* What chronoid_random_force_reseed does to a slot. *)
LEMMA Unseeded ==
  ASSUME NEW r \in Slot
  PROVE  LET q == [r EXCEPT !.seeded = FALSE] IN
         /\ q \in Slot
         /\ q.seeded = FALSE
         /\ q.key = r.key
         /\ q.ctr = r.ctr
         /\ q.buf = r.buf
         /\ q.buf_pos = r.buf_pos
         /\ q.bytes_emitted = r.bytes_emitted
         /\ r = ZeroSlot => q = ZeroSlot
<1> DEFINE q == [r EXCEPT !.seeded = FALSE]
<1>1. /\ q \in Slot
      /\ q.seeded = FALSE
      /\ q.key = r.key
      /\ q.ctr = r.ctr
      /\ q.buf = r.buf
      /\ q.buf_pos = r.buf_pos
      /\ q.bytes_emitted = r.bytes_emitted
  BY DEF Slot
<1>2. ASSUME r = ZeroSlot PROVE q = ZeroSlot
  <2>1. q = [r EXCEPT !.seeded = r.seeded]
    BY <1>2 DEF ZeroSlot
  <2>2. [r EXCEPT !.seeded = r.seeded] = r
    BY DEF Slot
  <2> QED
    BY <1>2, <2>1, <2>2
<1> QED
  BY <1>1, <1>2

LEMMA ForceReseedInv ==
  ASSUME RandInv, NEW t \in Tasks, ForceReseed(t)
  PROVE  RandInv'
<1> USE DEF ForceReseed, Callable
<1>0. TypeOK /\ KeysAccounted /\ \A u \in Tasks : TaskInv(u)
  BY ByTask
<1>1. /\ slot'[t] \in Slot
      /\ ~slot'[t].seeded
      /\ slot'[t].key = slot[t].key
      /\ slot'[t].ctr = slot[t].ctr
      /\ slot'[t].buf = slot[t].buf
      /\ slot'[t].buf_pos = slot[t].buf_pos
      /\ slot'[t].bytes_emitted = slot[t].bytes_emitted
      /\ slot[t] = ZeroSlot => slot'[t] = ZeroSlot
  <2>1. slot[t] \in Slot
    BY <1>0 DEF TypeOK
  <2>2. slot'[t] = [slot[t] EXCEPT !.seeded = FALSE]
    BY <1>0 DEF TypeOK
  <2> QED
    BY <2>1, <2>2, Unseeded
<1>2. \A u \in Tasks : u # t => slot'[u] = slot[u]
  BY <1>0 DEF TypeOK
<1>3. TypeOK'
  BY <1>0, <1>1 DEF TypeOK
<1>4. KeysAccounted'
  BY <1>0, <1>1, <1>2 DEF KeysAccounted
<1>5. ASSUME NEW u \in Tasks PROVE TaskInv(u)'
  <2>1. TaskInv(u)
    BY <1>0
  <2>2. CASE u = t
    <3>1. WindowExact(slot'[u])
      BY <1>1, <2>1, <2>2 DEF TaskInv, WindowExact, Position
    <3>2. SlotAccounted(u)'
      BY <1>1, <2>1, <2>2 DEF TaskInv, SlotAccounted, Position
    <3>3. DrawAccounted(u)'
      BY <2>2 DEF DrawAccounted
    <3> QED
      BY <1>1, <2>1, <2>2, <3>1, <3>2, <3>3 DEF TaskInv
  <2>3. CASE u # t
    BY <1>2, <2>1, <2>3 DEF TaskInv, SlotAccounted, DrawAccounted, WindowExact, Position
  <2> QED
    BY <2>2, <2>3
<1> QED
  BY <1>3, <1>4, <1>5, ByTaskNext

LEMMA StartThreadInv ==
  ASSUME RandInv, NEW t \in Tasks, NEW u \in Tasks, StartThread(t, u)
  PROVE  RandInv'
<1> USE DEF StartThread
<1>0. TypeOK /\ KeysAccounted /\ \A x \in Tasks : TaskInv(x)
  BY ByTask
<1>1. TypeOK'
  BY <1>0 DEF TypeOK
<1>2. \A x \in Tasks : life[x] # "unborn" => life'[x] # "unborn" /\ pid'[x] = pid[x]
  BY <1>0 DEF TypeOK
<1>3. KeysAccounted'
  BY <1>0, <1>2 DEF TypeOK, KeysAccounted
<1>4. ASSUME NEW x \in Tasks PROVE TaskInv(x)'
  <2>1. TaskInv(x)
    BY <1>0
  <2>2. CASE x = u
    <3>1. slot'[x] = ZeroSlot /\ want'[x] = 0
      BY <1>0, <2>1, <2>2 DEF TypeOK, TaskInv, SlotAccounted, DrawAccounted
    <3>2. SlotAccounted(x)'
      BY <3>1, ZeroFits DEF SlotAccounted
    <3>3. WindowExact(slot'[x]) /\ DrawAccounted(x)'
      BY <3>1, ZeroFits DEF DrawAccounted
    <3> QED
      BY <2>1, <3>2, <3>3 DEF TaskInv
  <2>3. CASE x # u
    <3>1. life'[x] = life[x] /\ pid'[x] = pid[x]
      BY <1>0, <2>3 DEF TypeOK
    <3>2. SlotAccounted(x)'
      BY <1>2, <2>1, <3>1 DEF TaskInv, SlotAccounted, Position
    <3> QED
      BY <2>1, <3>1, <3>2 DEF TaskInv, DrawAccounted, WindowExact
  <2> QED
    BY <2>2, <2>3
<1> QED
  BY <1>1, <1>3, <1>4, ByTaskNext

LEMMA DrawContinuesInv ==
  ASSUME RandInv, NEW t \in Tasks, NEW n \in 1 .. MaxDraw, NEW now \in Times,
         DrawContinues(t, n, now)
  PROVE  RandInv'
<1> USE DEF DrawContinues
<1>0. TypeOK /\ KeysAccounted /\ \A u \in Tasks : TaskInv(u)
  BY ByTask
<1>1. n \in Nat /\ n <= MaxDraw /\ n \in 0 .. MaxDraw
  BY ConstantsAssumption
<1>2. TypeOK'
  BY <1>0, <1>1 DEF TypeOK
<1>3. KeysAccounted'
  BY <1>0 DEF KeysAccounted
<1>4. ASSUME NEW u \in Tasks PROVE TaskInv(u)'
  <2>1. TaskInv(u)
    BY <1>0
  <2>2. WindowExact(slot'[u]) /\ SlotAccounted(u)'
    BY <2>1 DEF TaskInv, WindowExact, SlotAccounted, Position
  <2>3. CASE u = t
    <3>1. want'[u] = n /\ life[u] \in {"running", "exiting", "late"}
      BY <1>0, <2>3 DEF TypeOK, Callable
    <3>2. /\ slot[u].seeded
          /\ slot[u].bytes_emitted < ReseedBytes
          /\ slot[u].seed_pid = pid[u]
      <4>1. slot[u].bytes_emitted \in Nat
        BY <1>0 DEF TypeOK, Slot
      <4> QED
        BY <2>3, <4>1, ConstantsAssumption DEF ShouldReseed
    <3>3. DrawAccounted(u)'
      BY <3>1, <3>2 DEF DrawAccounted
    <3>4. slot'[u].bytes_emitted + want'[u] <= ReseedBytes - 1 + MaxDraw
      <4>1. slot[u].bytes_emitted \in Nat
        BY <1>0 DEF TypeOK, Slot
      <4> QED
        BY <1>1, <3>1, <3>2, <4>1, ConstantsAssumption
    <3> QED
      BY <2>2, <3>3, <3>4 DEF TaskInv
  <2>4. CASE u # t
    <3>1. want'[u] = want[u]
      BY <1>0, <2>4 DEF TypeOK
    <3> QED
      BY <2>1, <2>2, <3>1 DEF TaskInv, DrawAccounted
  <2> QED
    BY <2>3, <2>4
<1> QED
  BY <1>2, <1>3, <1>4, ByTaskNext

(* A registration leaves a callback behind, or the note that there is none. *)
LEMMA RegistrationResult ==
  ASSUME TypeOK, NEW t \in Tasks, slot[t].destructor_registered => hook[t] \/ unhooked[t],
         NEW reg \in Registrations(t)
  PROVE  /\ reg.flag \in BOOLEAN
         /\ reg.pending \in BOOLEAN
         /\ reg.failed \in BOOLEAN
         /\ reg.index \in {"unset", "ok", "failed"}
         /\ reg.pending \/ reg.failed
<1>0. /\ hook[t] \in BOOLEAN
      /\ unhooked[t] \in BOOLEAN
      /\ fls_index \in {"unset", "ok", "failed"}
  BY DEF TypeOK
<1>1. CASE slot[t].destructor_registered
  <2>1. reg = [flag |-> TRUE, pending |-> hook[t], failed |-> unhooked[t],
               index |-> fls_index]
    BY <1>1 DEF Registrations, AlreadyRegistered
  <2> QED
    BY <1>0, <1>1, <2>1
<1>2. CASE ~slot[t].destructor_registered /\ Hook = "cxa"
  <2>1. reg \in RegisterCxa(t)
    BY <1>2 DEF Registrations
  <2>2. PICK ok \in BOOLEAN :
          reg = [flag |-> TRUE, pending |-> ok /\ life[t] # "late",
                 failed |-> ~(ok /\ life[t] # "late"), index |-> fls_index]
    BY <2>1, Zenon DEF RegisterCxa
  <2>3. PICK runs \in BOOLEAN :
          reg = [flag |-> TRUE, pending |-> runs, failed |-> ~runs, index |-> fls_index]
    BY <2>2, Zenon
  <2> QED
    BY <1>0, <2>3
<1>3. CASE ~slot[t].destructor_registered /\ Hook = "fls"
  <2>1. reg \in RegisterFls
    BY <1>3 DEF Registrations
  <2>2. PICK i \in FlsIndexes, ok \in BOOLEAN :
          reg = [flag |-> i = "ok" /\ ok, pending |-> i = "ok" /\ ok,
                 failed |-> ~(i = "ok" /\ ok), index |-> i]
    BY <2>1 DEF RegisterFls
  <2>3. i \in {"unset", "ok", "failed"}
    BY <1>0 DEF FlsIndexes
  <2> QED
    BY <2>2, <2>3
<1>4. CASE ~slot[t].destructor_registered /\ Hook = "none"
  <2>1. reg \in RegisterNone
    BY <1>4 DEF Registrations
  <2>2. reg = [flag |-> FALSE, pending |-> FALSE, failed |-> TRUE, index |-> fls_index]
    BY <2>1 DEF RegisterNone
  <2> QED
    BY <1>0, <2>2
<1> QED
  BY <1>1, <1>2, <1>3, <1>4, ConstantsAssumption

(* What chronoid_tls_rng_seed leaves in the slot. *)
LEMMA SeededFits ==
  ASSUME TypeOK, NEW t \in Tasks, NEW k \in Keys, NEW time \in Times,
         NEW reg, reg.flag \in BOOLEAN
  PROVE  LET q == SeededSlot(t, k, time, reg) IN
         /\ q \in Slot
         /\ q.key = k
         /\ q.seeded
         /\ q.seed_pid = pid[t]
         /\ q.bytes_emitted = 0
         /\ Position(q) = 0
         /\ WindowExact(q)
<1> USE ConstantsAssumption
<1> DEFINE q == SeededSlot(t, k, time, reg)
<1>1. pid[t] \in Pids
  BY DEF TypeOK
<1>2. /\ q \in Slot
      /\ q.key = k
      /\ q.seeded
      /\ q.seed_pid = pid[t]
      /\ q.bytes_emitted = 0
      /\ q.ctr = 0
      /\ q.buf = {}
      /\ q.buf_pos = BufLen
  BY <1>1 DEF SeededSlot, Slot
<1> HIDE DEF q
<1>3. q.ctr * BufLen = 0
  BY <1>2
<1>4. Position(q) = 0
  BY <1>2, <1>3 DEF Position
<1>5. WindowExact(q)
  BY <1>2, <1>3, <1>4 DEF WindowExact
<1> QED
  BY <1>2, <1>4, <1>5 DEF q

LEMMA DrawReseedsInv ==
  ASSUME RandInv, NEW t \in Tasks, NEW n \in 1 .. MaxDraw, NEW now \in Times,
         DrawReseeds(t, n, now)
  PROVE  RandInv'
<1> DEFINE key == seeds + 1
<1>0. TypeOK /\ KeysAccounted /\ \A u \in Tasks : TaskInv(u)
  BY ByTask
<1>1. PICK time \in Times, reg \in Registrations(t) :
        /\ slot' = [slot EXCEPT ![t] = SeededSlot(t, key, time, reg)]
        /\ hook' = [hook EXCEPT ![t] = reg.pending]
        /\ fls_index' = reg.index
        /\ unhooked' = [unhooked EXCEPT ![t] = reg.failed]
  BY DEF DrawReseeds
<1>2. /\ Callable(t)
      /\ seeds < MaxSeeds
      /\ seeds' = key
      /\ seeder' = [seeder EXCEPT ![key] = t]
      /\ want' = [want EXCEPT ![t] = n]
      /\ life' = life /\ pid' = pid /\ used' = used
  BY DEF DrawReseeds
<1>3. /\ seeds \in Nat /\ key \in Keys /\ key # NoKey /\ key \in 0 .. MaxSeeds
      /\ n \in Nat /\ n <= MaxDraw /\ n \in 0 .. MaxDraw
  BY <1>0, <1>2, ConstantsAssumption DEF TypeOK, Keys, NoKey
<1>4. slot[t].destructor_registered => hook[t] \/ unhooked[t]
  <2>1. slot[t] = ZeroSlot => ~slot[t].destructor_registered
    BY DEF ZeroSlot
  <2> QED
    BY <1>0, <2>1 DEF TaskInv, SlotAccounted
<1>5. /\ reg.flag \in BOOLEAN
      /\ reg.pending \in BOOLEAN
      /\ reg.failed \in BOOLEAN
      /\ reg.index \in {"unset", "ok", "failed"}
      /\ reg.pending \/ reg.failed
  BY <1>0, <1>1, <1>4, RegistrationResult
<1> DEFINE q == SeededSlot(t, key, time, reg)
<1>6. /\ q \in Slot
      /\ q.key = key
      /\ q.seeded
      /\ q.seed_pid = pid[t]
      /\ q.bytes_emitted = 0
      /\ Position(q) = 0
      /\ WindowExact(q)
  BY <1>0, <1>1, <1>3, <1>5, SeededFits
<1> HIDE DEF q
<1>7. slot' = [slot EXCEPT ![t] = q]
  BY <1>1 DEF q
<1>8. TypeOK'
  <2> HIDE DEF key
  <2>1. slot' \in [Tasks -> Slot] /\ want' \in [Tasks -> 0 .. MaxDraw]
    BY <1>0, <1>2, <1>3, <1>6, <1>7 DEF TypeOK
  <2>2. /\ hook' \in [Tasks -> BOOLEAN]
        /\ unhooked' \in [Tasks -> BOOLEAN]
        /\ fls_index' \in {"unset", "ok", "failed"}
    BY <1>0, <1>1, <1>5 DEF TypeOK
  <2>3. seeder' \in [Keys -> Tasks \cup {Nobody}] /\ seeds' \in 0 .. MaxSeeds
    BY <1>0, <1>2, <1>3 DEF TypeOK
  <2> QED
    BY <1>0, <1>2, <2>1, <2>2, <2>3 DEF TypeOK
<1>9. /\ slot'[t] = q /\ want'[t] = n
      /\ hook'[t] = reg.pending /\ unhooked'[t] = reg.failed
      /\ seeder'[key] = t
      /\ \A k \in Keys : k # key => seeder'[k] = seeder[k]
      /\ \A u \in Tasks : u # t =>
           /\ slot'[u] = slot[u] /\ want'[u] = want[u]
           /\ hook'[u] = hook[u] /\ unhooked'[u] = unhooked[u]
  <2> HIDE DEF key
  <2> QED
    BY <1>0, <1>1, <1>2, <1>3, <1>7 DEF TypeOK
<1>10. life[t] \in {"running", "exiting", "late"}
  BY <1>2 DEF Callable
<1>11. \A u \in Tasks : slot[u].key \in {NoKey} \cup Keys /\ slot[u].key # key
  <2> SUFFICES ASSUME NEW u \in Tasks
               PROVE  slot[u].key \in {NoKey} \cup Keys /\ slot[u].key # key
    OBVIOUS
  <2>1. slot[u].key <= seeds /\ slot[u].key \in {NoKey} \cup Keys
    BY <1>0 DEF KeysAccounted, TypeOK, Slot
  <2>2. slot[u].key \in Int
    BY <2>1, ConstantsAssumption DEF Keys, NoKey
  <2> QED
    BY <1>3, <2>1, <2>2
<1>12. used[key] = {}
  BY <1>0, <1>3 DEF KeysAccounted
<1>13. KeysAccounted'
  <2>1. \A k \in Keys : k > seeds' => used'[k] = {}
    BY <1>0, <1>2, <1>3 DEF KeysAccounted, Keys
  <2>2. \A k \in Keys : seeder'[k] # Nobody => life'[seeder'[k]] # "unborn"
    <3> HIDE DEF key
    <3> QED
      BY <1>0, <1>2, <1>9, <1>10 DEF KeysAccounted
  <2>3. ASSUME NEW u \in Tasks PROVE slot'[u].key <= seeds'
    <3>1. CASE u = t
      BY <1>2, <1>3, <1>6, <1>9, <3>1
    <3>2. CASE u # t
      <4>1. slot'[u].key = slot[u].key /\ slot[u].key <= seeds
        BY <1>0, <1>9, <3>2 DEF KeysAccounted
      <4> QED
        BY <1>2, <1>3, <1>11, <4>1 DEF Keys, NoKey
    <3> QED
      BY <3>1, <3>2
  <2> QED
    BY <2>1, <2>2, <2>3 DEF KeysAccounted
<1>14. ASSUME NEW u \in Tasks PROVE TaskInv(u)'
  <2> HIDE DEF key
  <2>1. TaskInv(u)
    BY <1>0
  <2>2. CASE u = t
    <3>1. used'[key] = 0 .. (Position(slot'[u]) - 1)
      BY <1>2, <1>6, <1>9, <1>12, <2>2
    <3>2. SlotAccounted(u)'
      BY <1>2, <1>3, <1>5, <1>6, <1>9, <1>10, <2>2, <3>1 DEF SlotAccounted
    <3>3. DrawAccounted(u)'
      BY <1>2, <1>6, <1>9, <1>10, <2>2 DEF DrawAccounted
    <3>4. slot'[u].bytes_emitted + want'[u] <= ReseedBytes - 1 + MaxDraw
      BY <1>3, <1>6, <1>9, <2>2, ConstantsAssumption
    <3> QED
      BY <1>6, <1>9, <2>2, <3>2, <3>3, <3>4 DEF TaskInv
  <2>3. CASE u # t
    <3>1. /\ slot'[u] = slot[u] /\ want'[u] = want[u]
          /\ hook'[u] = hook[u] /\ unhooked'[u] = unhooked[u]
          /\ slot[u].key # NoKey => seeder'[slot[u].key] = seeder[slot[u].key]
      BY <1>9, <1>11, <2>3
    <3>2. WindowExact(slot'[u])
      BY <2>1, <3>1 DEF TaskInv
    <3>3. SlotAccounted(u)'
      BY <1>2, <2>1, <3>1 DEF TaskInv, SlotAccounted
    <3>4. DrawAccounted(u)'
      BY <1>2, <2>1, <3>1 DEF TaskInv, DrawAccounted
    <3> QED
      BY <2>1, <3>1, <3>2, <3>3, <3>4 DEF TaskInv
  <2> QED
    BY <2>2, <2>3
<1> QED
  BY <1>8, <1>13, <1>14, ByTaskNext

(* A thread in the copy loop owns the key it copies from. *)
LEMMA DrawerOwnsKey ==
  ASSUME RandInv, NEW t \in Tasks, want[t] > 0
  PROVE  /\ slot[t].key # NoKey
         /\ slot[t].key \in Keys
         /\ seeder[slot[t].key] = t
<1>1. slot[t].key \in {NoKey} \cup Keys
  BY DEF RandInv, TypeOK, Slot
<1> QED
  BY <1>1 DEF RandInv, SlotAccounted, DrawAccounted

LEMMA DrawChunkInv ==
  ASSUME RandInv, NEW t \in Tasks, DrawChunk(t)
  PROVE  RandInv'
<1> DEFINE r == slot[t]
           f == Refilled(r)
           c == ChunkLen(f, want[t])
           q == Consumed(f, want[t])
<1>0. TypeOK /\ KeysAccounted /\ \A u \in Tasks : TaskInv(u)
  BY ByTask
<1>1. /\ want[t] > 0
      /\ slot' = [slot EXCEPT ![t] = q]
      /\ used' = [used EXCEPT ![f.key] = used[f.key] \cup Chunk(f, want[t])]
      /\ want' = [want EXCEPT ![t] = want[t] - c]
      /\ life' = life /\ pid' = pid /\ hook' = hook /\ fls_index' = fls_index
      /\ seeds' = seeds /\ seeder' = seeder /\ unhooked' = unhooked
  BY <1>0 DEF DrawChunk, TypeOK
<1>2. r.key # NoKey /\ r.key \in Keys /\ seeder[r.key] = t
  BY <1>1, DrawerOwnsKey
<1>3. r \in Slot /\ WindowExact(r) /\ want[t] \in Nat /\ want[t] \in 0 .. MaxDraw
  BY <1>0, ConstantsAssumption DEF TypeOK, TaskInv
<1>4. /\ f \in Slot /\ f.key = r.key /\ f.seeded = r.seeded /\ f.seed_pid = r.seed_pid
      /\ f.bytes_emitted = r.bytes_emitted /\ f.buf_pos < BufLen
      /\ WindowExact(f) /\ Position(f) = Position(r)
  BY <1>2, <1>3, RefilledExact
<1> HIDE DEF f
<1>5. /\ c \in 1 .. want[t]
      /\ Chunk(f, want[t]) = Position(f) .. (Position(f) + c - 1)
      /\ q \in Slot /\ q.key = f.key /\ q.seeded = f.seeded /\ q.seed_pid = f.seed_pid
      /\ q.bytes_emitted = f.bytes_emitted + c
      /\ Position(q) = Position(f) + c
      /\ WindowExact(q)
  BY <1>1, <1>2, <1>3, <1>4, ConsumedExact
<1> HIDE DEF c, q
<1>6. /\ slot'[t] = q /\ want'[t] = want[t] - c
      /\ \A u \in Tasks : u # t => slot'[u] = slot[u] /\ want'[u] = want[u]
      /\ used'[r.key] = used[r.key] \cup Chunk(f, want[t])
      /\ \A k \in Keys : k # r.key => used'[k] = used[k]
  BY <1>0, <1>1, <1>2, <1>4 DEF TypeOK
<1>7. /\ Position(r) \in Nat /\ r.bytes_emitted \in Nat
      /\ Position(r) = r.bytes_emitted
  BY <1>2, <1>3 DEF WindowExact, Slot
<1>8. used'[r.key] = 0 .. (Position(q) - 1)
  <2> DEFINE pos == Position(r)
  <2>1. used[r.key] = 0 .. (pos - 1)
    BY <1>0, <1>2 DEF TaskInv, SlotAccounted
  <2>2. Chunk(f, want[t]) = pos .. (pos + c - 1) /\ Position(q) = pos + c
    BY <1>4, <1>5
  <2>3. pos \in Nat /\ c \in Nat
    BY <1>3, <1>5, <1>7
  <2> HIDE DEF pos
  <2>4. (0 .. (pos - 1)) \cup (pos .. (pos + c - 1)) = 0 .. (pos + c - 1)
    BY <2>3
  <2>5. used'[r.key] = used[r.key] \cup Chunk(f, want[t])
    BY <1>6
  <2>6. used'[r.key] = 0 .. (pos + c - 1)
    BY <2>1, <2>2, <2>4, <2>5, Zenon
  <2>7. pos + c - 1 = Position(q) - 1
    BY <2>2, <2>3
  <2> QED
    BY <2>6, <2>7
<1>9. TypeOK'
  <2>1. want[t] - c \in 0 .. MaxDraw
    BY <1>3, <1>5, ConstantsAssumption
  <2>2. slot' \in [Tasks -> Slot] /\ want' \in [Tasks -> 0 .. MaxDraw]
    BY <1>0, <1>1, <1>5, <2>1 DEF TypeOK
  <2>3. Chunk(f, want[t]) \in SUBSET Nat
    BY <1>3, <1>4, <1>5, <1>7
  <2>4. used' \in [{NoKey} \cup Keys -> SUBSET Nat]
    <3>1. used[f.key] \cup Chunk(f, want[t]) \in SUBSET Nat
      BY <1>0, <1>2, <1>4, <2>3 DEF TypeOK
    <3> QED
      BY <1>0, <1>1, <3>1 DEF TypeOK
  <2> QED
    BY <1>0, <1>1, <2>2, <2>4 DEF TypeOK
<1>10. KeysAccounted'
  <2>1. r.key <= seeds /\ seeds \in Int /\ r.key \in Int
    BY <1>0, <1>2, ConstantsAssumption DEF KeysAccounted, TypeOK, Keys
  <2>2. \A k \in Keys : k > seeds' => used'[k] = {}
    BY <1>0, <1>1, <1>6, <2>1 DEF KeysAccounted, Keys
  <2>3. \A u \in Tasks : slot'[u].key = slot[u].key
    BY <1>4, <1>5, <1>6
  <2> QED
    BY <1>0, <1>1, <2>2, <2>3 DEF KeysAccounted
<1>11. ASSUME NEW u \in Tasks PROVE TaskInv(u)'
  <2>1. TaskInv(u)
    BY <1>0
  <2>2. CASE u = t
    <3>1. r.seeded /\ r.seed_pid = pid[t] /\ life[t] \in {"running", "exiting", "late"}
      BY <1>1, <2>1, <2>2 DEF TaskInv, DrawAccounted
    <3>2. hook[t] \/ unhooked[t]
      <4>1. r # ZeroSlot
        BY <3>1 DEF ZeroSlot
      <4> QED
        BY <2>1, <2>2, <4>1 DEF TaskInv, SlotAccounted
    <3>3. SlotAccounted(u)'
      <4>1. q.key = r.key /\ q.seeded = r.seeded /\ q.seed_pid = r.seed_pid
        BY <1>4, <1>5
      <4>2. life'[u] # "unborn" /\ pid'[u] = q.seed_pid /\ seeder'[q.key] = u
        BY <1>1, <1>2, <2>2, <3>1, <4>1
      <4>3. used'[q.key] = 0 .. (Position(q) - 1)
        BY <1>8, <4>1
      <4>4. slot'[u] = q /\ (hook'[u] \/ unhooked'[u]) /\ q.key # NoKey
        BY <1>1, <1>2, <1>6, <2>2, <3>2, <4>1
      <4> QED
        BY <4>2, <4>3, <4>4 DEF SlotAccounted
    <3>4. DrawAccounted(u)'
      BY <1>1, <1>4, <1>5, <1>6, <2>2, <3>1 DEF DrawAccounted
    <3>5. slot'[u].bytes_emitted + want'[u] = r.bytes_emitted + want[t]
      <4>1. slot'[u].bytes_emitted = r.bytes_emitted + c /\ want'[u] = want[t] - c
        BY <1>4, <1>5, <1>6, <2>2
      <4>2. c \in Int
        BY <1>3, <1>5
      <4> HIDE DEF r
      <4> QED
        BY <1>3, <1>7, <4>1, <4>2
    <3> QED
      BY <1>5, <1>6, <2>1, <2>2, <3>3, <3>4, <3>5 DEF TaskInv
  <2>3. CASE u # t
    <3>1. slot'[u] = slot[u] /\ want'[u] = want[u]
      BY <1>6, <2>3
    <3>2. slot[u].key # NoKey /\ seeder[slot[u].key] = u =>
            used'[slot[u].key] = used[slot[u].key]
      <4>1. slot[u].key \in {NoKey} \cup Keys
        BY <1>0 DEF TypeOK, Slot
      <4> QED
        BY <1>2, <1>6, <2>3, <4>1
    <3>3. SlotAccounted(u)'
      BY <1>1, <2>1, <3>1, <3>2 DEF TaskInv, SlotAccounted
    <3> QED
      BY <1>1, <2>1, <3>1, <3>3 DEF TaskInv, DrawAccounted
  <2> QED
    BY <2>2, <2>3
<1> QED
  BY <1>9, <1>10, <1>11, ByTaskNext

(* A child's copy of its parent's slot names the parent's pid, which the   *)
(* kernel does not give out a second time.                                 *)
LEMMA ForkInv ==
  ASSUME RandInv, ~PidRecycling,
         NEW t \in Tasks, NEW u \in Tasks, NEW p \in Pids, Fork(t, u, p)
  PROVE  RandInv'
<1>0. TypeOK /\ KeysAccounted /\ \A x \in Tasks : TaskInv(x)
  BY ByTask
<1>1. /\ life[t] = "running" /\ want[t] = 0 /\ life[u] = "unborn"
      /\ life' = [life EXCEPT ![u] = "running"]
      /\ pid' = [pid EXCEPT ![u] = p]
      /\ slot' = [slot EXCEPT ![u] = slot[t]]
      /\ hook' = [hook EXCEPT ![u] = hook[t]]
      /\ unhooked' = [unhooked EXCEPT ![u] = unhooked[t]]
      /\ want' = want /\ fls_index' = fls_index /\ seeds' = seeds
      /\ seeder' = seeder /\ used' = used
  BY DEF Fork
<1>2. \A x \in Tasks : life[x] # "unborn" => pid[x] # p
  BY DEF Fork, FreePids
<1>3. TypeOK'
  BY <1>0, <1>1 DEF TypeOK
<1>4. /\ slot'[u] = slot[t] /\ hook'[u] = hook[t] /\ unhooked'[u] = unhooked[t]
      /\ life'[u] = "running" /\ pid'[u] = p
      /\ \A x \in Tasks : x # u =>
           /\ slot'[x] = slot[x] /\ hook'[x] = hook[x] /\ unhooked'[x] = unhooked[x]
           /\ life'[x] = life[x] /\ pid'[x] = pid[x]
  BY <1>0, <1>1 DEF TypeOK
<1>5. \A x \in Tasks : life[x] # "unborn" => life'[x] # "unborn" /\ pid'[x] = pid[x]
  BY <1>1, <1>4
<1>6. KeysAccounted'
  <2>1. \A k \in Keys : seeder'[k] # Nobody => life'[seeder'[k]] # "unborn"
    BY <1>0, <1>1, <1>5 DEF KeysAccounted, TypeOK
  <2>2. \A x \in Tasks : slot'[x].key <= seeds'
    BY <1>0, <1>1, <1>4 DEF KeysAccounted
  <2> QED
    BY <1>0, <1>1, <2>1, <2>2 DEF KeysAccounted
<1>7. ASSUME NEW x \in Tasks PROVE TaskInv(x)'
  <2>1. CASE x = u
    <3>1. TaskInv(t) /\ TaskInv(u)
      BY <1>0
    <3>2. want[u] = 0
      <4>1. want[u] \in Nat
        BY <1>0, ConstantsAssumption DEF TypeOK
      <4> QED
        BY <1>1, <3>1, <4>1 DEF TaskInv, DrawAccounted
    <3>3. slot[t].key # NoKey => seeder[slot[t].key] # u
      <4>1. slot[t].key \in {NoKey} \cup Keys
        BY <1>0 DEF TypeOK, Slot
      <4> QED
        BY <1>0, <1>1, <4>1, ConstantsAssumption DEF KeysAccounted
    <3>4. slot[t].seeded => slot[t].seed_pid # p
      BY <1>2, <3>1 DEF TaskInv, SlotAccounted
    <3>5. slot[t].seeded =>
            \E y \in Tasks : life'[y] # "unborn" /\ pid'[y] = slot[t].seed_pid
      BY <1>5, <3>1 DEF TaskInv, SlotAccounted
    <3>6. SlotAccounted(x)'
      BY <1>1, <1>4, <2>1, <3>1, <3>3, <3>4, <3>5 DEF TaskInv, SlotAccounted
    <3>7. DrawAccounted(x)'
      BY <1>1, <2>1, <3>2 DEF DrawAccounted
    <3>8. WindowExact(slot'[x])
      BY <1>4, <2>1, <3>1 DEF TaskInv
    <3>9. slot'[x].bytes_emitted + want'[x] = slot[t].bytes_emitted + want[t]
      BY <1>1, <1>4, <2>1, <3>2
    <3> QED
      BY <3>1, <3>6, <3>7, <3>8, <3>9 DEF TaskInv
  <2>2. CASE x # u
    <3>1. TaskInv(x)
      BY <1>0
    <3>2. SlotAccounted(x)'
      BY <1>1, <1>4, <1>5, <2>2, <3>1 DEF TaskInv, SlotAccounted
    <3> QED
      BY <1>1, <1>4, <2>2, <3>1, <3>2 DEF TaskInv, DrawAccounted
  <2> QED
    BY <2>1, <2>2
<1> QED
  BY <1>3, <1>6, <1>7, ByTaskNext

LEMMA StepInv ==
  ASSUME RandInv, ~PidRecycling, [Next]_vars
  PROVE  RandInv'
<1>1. CASE Next
  <2> PICK t \in Tasks :
        \/ Draw(t) \/ DrawChunk(t) \/ ForceReseed(t)
        \/ BeginExit(t) \/ WipeAtExit(t) \/ CallbacksDone(t) \/ FinishExit(t)
        \/ \E u \in Tasks : StartThread(t, u)
        \/ \E u \in Tasks, p \in Pids : Fork(t, u, p)
    BY <1>1 DEF Next
  <2>1. CASE Draw(t)
    <3>1. PICK now \in Times :
            \/ \E n \in 1 .. MaxDraw : DrawContinues(t, n, now) \/ DrawReseeds(t, n, now)
            \/ DrawFails(t, now)
      BY <2>1 DEF Draw
    <3>2. CASE DrawFails(t, now)
      BY <3>2 DEF DrawFails, vars, RandInv, TypeOK, KeysAccounted, WindowExact,
                  SlotAccounted, DrawAccounted, BytesBounded, Position
    <3> QED
      BY <3>1, <3>2, DrawContinuesInv, DrawReseedsInv
  <2>2. CASE DrawChunk(t)
    BY <2>2, DrawChunkInv
  <2>3. CASE ForceReseed(t)
    BY <2>3, ForceReseedInv
  <2>4. CASE BeginExit(t)
    BY <2>4, BeginExitInv
  <2>5. CASE WipeAtExit(t)
    BY <2>5, WipeAtExitInv
  <2>6. CASE FinishExit(t)
    BY <2>6, FinishExitInv
  <2>9. CASE CallbacksDone(t)
    BY <2>9, CallbacksDoneInv
  <2>7. CASE \E u \in Tasks : StartThread(t, u)
    BY <2>7, StartThreadInv
  <2>8. CASE \E u \in Tasks, p \in Pids : Fork(t, u, p)
    BY <2>8, ForkInv
  <2> QED
    BY <2>1, <2>2, <2>3, <2>4, <2>5, <2>6, <2>7, <2>8, <2>9
<1>2. CASE UNCHANGED vars
  BY <1>2 DEF vars, RandInv, TypeOK, KeysAccounted, WindowExact,
              SlotAccounted, DrawAccounted, BytesBounded, Position
<1> QED
  BY <1>1, <1>2

(* RandInv is an invariant of the specification when pids are not recycled. *)
THEOREM Invariance ==
  ASSUME ~PidRecycling
  PROVE  Spec => []RandInv
<1>1. RandInv /\ [Next]_vars => RandInv'
  BY StepInv
<1> QED
  BY <1>1, InitInv, PTL DEF Spec

-----------------------------------------------------------------------------
(* The invariant implies each property. *)

LEMMA OwnKey == ASSUME RandInv PROVE SelfSeeded
  BY DrawerOwnsKey DEF SelfSeeded

LEMMA FreshBytes == ASSUME RandInv PROVE FreshKeystream
<1> SUFFICES ASSUME NEW t \in Tasks, want[t] > 0
             PROVE  LET r == Refilled(slot[t]) IN
                      /\ Chunk(r, want[t]) \subseteq r.buf
                      /\ Chunk(r, want[t]) \cap used[r.key] = {}
  BY DEF FreshKeystream
<1> DEFINE r == slot[t]
           f == Refilled(r)
           c == ChunkLen(f, want[t])
<1>1. r.key # NoKey /\ r.key \in Keys /\ seeder[r.key] = t
  BY DrawerOwnsKey
<1>2. r \in Slot /\ WindowExact(r) /\ want[t] \in Nat /\ SlotAccounted(t)
  BY ConstantsAssumption DEF RandInv, TypeOK
<1>3. /\ f \in Slot /\ f.key = r.key /\ f.buf_pos < BufLen
      /\ WindowExact(f) /\ Position(f) = Position(r)
  BY <1>1, <1>2, RefilledExact
<1> HIDE DEF f
<1>4. /\ Chunk(f, want[t]) \subseteq f.buf
      /\ Chunk(f, want[t]) = Position(f) .. (Position(f) + c - 1)
      /\ c \in 1 .. want[t]
  BY <1>1, <1>2, <1>3, ConsumedExact
<1> HIDE DEF c
<1>5. used[f.key] = 0 .. (Position(f) - 1)
  BY <1>1, <1>2, <1>3 DEF SlotAccounted
<1>6. Position(f) \in Nat
  BY <1>1, <1>3 DEF WindowExact, Slot
<1>7. Chunk(f, want[t]) \cap used[f.key] = {}
  <2> DEFINE pos == Position(f)
  <2> HIDE DEF pos
  <2>1. pos \in Nat /\ c \in Int
    BY <1>2, <1>4, <1>6 DEF pos
  <2>2. (pos .. (pos + c - 1)) \cap (0 .. (pos - 1)) = {}
    BY <2>1
  <2> QED
    BY <1>4, <1>5, <2>2 DEF pos
<1> QED
  BY <1>4, <1>7 DEF f

LEMMA WipedBytes == ASSUME RandInv PROVE ConsumedWiped
<1> SUFFICES ASSUME NEW t \in Tasks, slot[t].key # NoKey, seeder[slot[t].key] = t
             PROVE  slot[t].buf \cap used[slot[t].key] = {}
  BY DEF ConsumedWiped
<1> DEFINE pos == Position(slot[t])
           end == slot[t].ctr * BufLen
<1>1. slot[t] \in Slot /\ WindowExact(slot[t]) /\ SlotAccounted(t)
  BY DEF RandInv, TypeOK
<1>2. used[slot[t].key] = 0 .. (pos - 1)
  BY <1>1 DEF SlotAccounted
<1>3. slot[t].buf = pos .. (end - 1) /\ pos \in Nat
  BY <1>1 DEF WindowExact, Slot
<1>4. end \in Nat
  BY <1>1, Blocks DEF Slot
<1> HIDE DEF pos, end
<1>5. (pos .. (end - 1)) \cap (0 .. (pos - 1)) = {}
  BY <1>3, <1>4
<1> QED
  BY <1>2, <1>3, <1>5

-----------------------------------------------------------------------------
(* Types, and a window position that never passes the end of the window,   *)
(* for chronoid_random_bytes in any number of threads and processes.       *)
THEOREM TypeCorrect ==
  ASSUME ~PidRecycling
  PROVE  Spec => []TypeOK
<1>1. RandInv => TypeOK
  BY DEF RandInv
<1> QED
  BY <1>1, Invariance, PTL

(* chronoid_random_bytes never hands out a byte twice, nor a wiped one. *)
THEOREM NeverReused ==
  ASSUME ~PidRecycling
  PROVE  Spec => []FreshKeystream
<1>1. RandInv => FreshKeystream
  BY FreshBytes
<1> QED
  BY <1>1, Invariance, PTL

(* The pid check of chronoid_tls_rng_should_reseed keeps every thread and  *)
(* every forked child on a key of its own.                                 *)
THEOREM OwnStreams ==
  ASSUME ~PidRecycling
  PROVE  Spec => []SelfSeeded
<1>1. RandInv => SelfSeeded
  BY OwnKey
<1> QED
  BY <1>1, Invariance, PTL

(* The byte budget of chronoid_tls_rng_should_reseed, up to one request. *)
THEOREM BudgetHolds ==
  ASSUME ~PidRecycling
  PROVE  Spec => []BytesBounded
<1>1. RandInv => BytesBounded
  BY DEF RandInv
<1> QED
  BY <1>1, Invariance, PTL

(* The wipe inside the copy loop of chronoid_random_bytes is complete. *)
THEOREM NothingConsumedStays ==
  ASSUME ~PidRecycling
  PROVE  Spec => []ConsumedWiped
<1>1. RandInv => ConsumedWiped
  BY WipedBytes
<1> QED
  BY <1>1, Invariance, PTL

(* Once the runtime has run the callbacks of a thread, none that it will   *)
(* run is ever pending again: what NoResidueAtExit needs beyond RandInv.   *)
NoLateCallback == \A t \in Tasks : life[t] \in {"late", "gone"} => ~hook[t]

(* chronoid_tls_register_thread_exit called that late registers nothing    *)
(* that will run.                                                          *)
LEMMA LateRegistration ==
  ASSUME NEW t \in Tasks, life[t] = "late", ~hook[t], Hook = "cxa",
         NEW reg \in Registrations(t)
  PROVE  ~reg.pending
<1>1. CASE slot[t].destructor_registered
  <2>1. reg = [flag |-> TRUE, pending |-> hook[t], failed |-> unhooked[t],
               index |-> fls_index]
    BY <1>1 DEF Registrations, AlreadyRegistered
  <2> QED
    BY <2>1
<1>2. CASE ~slot[t].destructor_registered
  <2>1. reg \in RegisterCxa(t)
    BY <1>2 DEF Registrations
  <2>2. PICK ok \in BOOLEAN :
          reg = [flag |-> TRUE, pending |-> ok /\ life[t] # "late",
                 failed |-> ~(ok /\ life[t] # "late"), index |-> fls_index]
    BY <2>1, Zenon DEF RegisterCxa
  <2>3. (ok /\ life[t] # "late") = FALSE
    OBVIOUS
  <2>4. reg = [flag |-> TRUE, pending |-> FALSE, failed |-> ~FALSE, index |-> fls_index]
    BY <2>2, <2>3, Zenon
  <2> QED
    BY <2>4
<1> QED
  BY <1>1, <1>2

LEMMA CallbackStep ==
  ASSUME TypeOK, NoLateCallback, [Next]_vars
  PROVE  NoLateCallback'
<1> SUFFICES ASSUME NEW x \in Tasks, life'[x] \in {"late", "gone"} PROVE ~hook'[x]
  BY DEF NoLateCallback
<1>0. life[x] \in {"late", "gone"} => ~hook[x]
  BY DEF NoLateCallback
<1> USE DEF TypeOK
<1>1. CASE Next
  <2> PICK t \in Tasks :
        \/ Draw(t) \/ DrawChunk(t) \/ ForceReseed(t)
        \/ BeginExit(t) \/ WipeAtExit(t) \/ CallbacksDone(t) \/ FinishExit(t)
        \/ \E u \in Tasks : StartThread(t, u)
        \/ \E u \in Tasks, p \in Pids : Fork(t, u, p)
    BY <1>1 DEF Next
  <2>1. CASE Draw(t)
    <3>1. life' = life
      BY <2>1 DEF Draw, DrawContinues, DrawReseeds, DrawFails, vars
    <3>2. life[t] = "running" \/ life[t] = "exiting" \/ (life[t] = "late" /\ Hook = "cxa")
      BY <2>1 DEF Draw, DrawContinues, DrawReseeds, DrawFails, Callable
    <3>3. \/ hook' = hook
          \/ \E reg \in Registrations(t) : hook' = [hook EXCEPT ![t] = reg.pending]
      BY <2>1 DEF Draw, DrawContinues, DrawReseeds, DrawFails, vars
    <3>4. CASE x # t
      BY <1>0, <3>1, <3>3, <3>4
    <3>5. CASE x = t /\ hook' = hook
      BY <1>0, <3>1, <3>5
    <3>6. CASE x = t /\ \E reg \in Registrations(t) : hook' = [hook EXCEPT ![t] = reg.pending]
      <4>1. life[t] = "late" /\ Hook = "cxa" /\ ~hook[t]
        BY <1>0, <3>1, <3>2, <3>6
      <4>2. PICK reg \in Registrations(t) : hook' = [hook EXCEPT ![t] = reg.pending]
        BY <3>6
      <4>3. ~reg.pending
        BY <4>1, LateRegistration
      <4>4. hook'[x] = reg.pending
        BY <3>6, <4>2
      <4> QED
        BY <4>3, <4>4
    <3> QED
      BY <3>3, <3>4, <3>5, <3>6
  <2>2. CASE DrawChunk(t)
    BY <1>0, <2>2 DEF DrawChunk
  <2>3. CASE ForceReseed(t)
    BY <1>0, <2>3 DEF ForceReseed
  <2>4. CASE BeginExit(t)
    BY <1>0, <2>4 DEF BeginExit
  <2>5. CASE WipeAtExit(t)
    BY <1>0, <2>5 DEF WipeAtExit
  <2>6. CASE FinishExit(t)
    BY <1>0, <2>6 DEF FinishExit
  <2>9. CASE CallbacksDone(t)
    BY <1>0, <2>9 DEF CallbacksDone
  <2>7. CASE \E u \in Tasks : StartThread(t, u)
    BY <1>0, <2>7 DEF StartThread
  <2>8. CASE \E u \in Tasks, p \in Pids : Fork(t, u, p)
    BY <1>0, <2>8 DEF Fork
  <2> QED
    BY <2>1, <2>2, <2>3, <2>4, <2>5, <2>6, <2>7, <2>8, <2>9
<1>2. CASE UNCHANGED vars
  BY <1>0, <1>2 DEF vars
<1> QED
  BY <1>1, <1>2

(* Whenever chronoid_tls_register_thread_exit registered a callback that   *)
(* the runtime runs, the thread leaves a zeroed slot behind, even if       *)
(* another destructor drew again after the wipe.                           *)
THEOREM ExitIsClean ==
  ASSUME ~PidRecycling
  PROVE  Spec => []NoResidueAtExit
<1>1. Init => NoLateCallback
  BY DEF Init, NoLateCallback
<1>2. RandInv /\ NoLateCallback /\ [Next]_vars => NoLateCallback'
  BY CallbackStep DEF RandInv
<1>3. RandInv /\ NoLateCallback => NoResidueAtExit
  BY DEF RandInv, SlotAccounted, NoLateCallback, NoResidueAtExit
<1> QED
  BY <1>1, <1>2, <1>3, Invariance, PTL DEF Spec
=============================================================================

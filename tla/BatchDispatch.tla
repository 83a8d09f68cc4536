---------------------------- MODULE BatchDispatch ----------------------------
(***************************************************************************)
(* The run-time dispatch of the batch formatters                           *)
(* (chronoid/ksuid/encode_batch.c and, with the same structure,            *)
(* chronoid/uuidv7/hex_batch.c): an atomic function pointer that starts at *)
(* a trampoline and is replaced by the kernel that the first call chooses, *)
(* while other threads may be making their own first call; then the loop   *)
(* of the chosen kernel, whole groups of Lanes identifiers at a time with  *)
(* a scalar tail.                                                          *)
(***************************************************************************)
EXTENDS Integers

CONSTANTS
  Callers,       \* threads that format batches
  Lanes,         \* identifiers per AVX2 iteration (8 KSUIDs, 4 UUIDs)
  MaxIds,        \* largest batch; bounds the model
  Hosts          \* the builds and machines to look at

(* A build and the machine it runs on: was the AVX2 kernel built, and by   *)
(* which compiler; what __builtin_cpu_supports("avx2") says, whether CPUID *)
(* has leaf 7 and shows AVX2 there, and whether the kernel saves the YMM   *)
(* registers (XGETBV).                                                     *)
Host ==
  [built : BOOLEAN, compiler : {"gnu", "msvc", "other"},
   builtin : BOOLEAN, leaf7 : BOOLEAN, avx2 : BOOLEAN, saves_ymm : BOOLEAN]

(* Values of the environment variable CHRONOID_FORCE_SCALAR. *)
Settings == {"unset", "", "0", "false", "FALSE", "1"}

(* The last conjunct is about the compiler's run-time library, not about   *)
(* this code: the GNU branch of chronoid_ksuid_cpu_supports_avx2 has no    *)
(* XGETBV of its own and relies on the builtin ("already checks            *)
(* XGETBV/OS-saves-YMM on recent glibc").  The MSVC branch looks itself.   *)
ASSUME ConstantsAssumption ==
  /\ Lanes \in Nat \ {0}
  /\ MaxIds \in Nat
  /\ Hosts \subseteq Host
  /\ \A h \in Hosts : h.builtin => h.saves_ymm

VARIABLES
  impl,      \* g_batch_impl
  host,      \* where the program runs
  env,       \* CHRONOID_FORCE_SCALAR
  pc,        \* where each caller is
  f,         \* the function pointer each caller holds
  n,         \* the size of its batch
  done,      \* identifiers its kernel has passed
  written    \* history: how often each cell of its output was written

vars == <<impl, host, env, pc, f, n, done, written>>

Kernels == {"scalar", "avx2"}
Cells   == 0 .. (MaxIds + Lanes - 1)    \* the output and what lies behind it

Init ==
  /\ impl = "trampoline"
  /\ host \in Hosts
  /\ env \in Settings
  /\ pc = [c \in Callers |-> "idle"]
  /\ f = [c \in Callers |-> "trampoline"]
  /\ n = [c \in Callers |-> 0]
  /\ done = [c \in Callers |-> 0]
  /\ written = [c \in Callers |-> [i \in Cells |-> 0]]

-----------------------------------------------------------------------------
(* chronoid_ksuid_string_batch: nothing to do for an empty batch; otherwise *)
(* load the pointer and call it.                                            *)
CallEmpty(c) ==
  /\ pc[c] = "idle"
  /\ n' = [n EXCEPT ![c] = 0]
  /\ done' = [done EXCEPT ![c] = 0]
  /\ written' = [written EXCEPT ![c] = [i \in Cells |-> 0]]
  /\ UNCHANGED <<impl, host, env, pc, f>>

Call(c, k) ==
  /\ pc[c] = "idle" /\ k > 0
  /\ n' = [n EXCEPT ![c] = k]
  /\ done' = [done EXCEPT ![c] = 0]
  /\ written' = [written EXCEPT ![c] = [i \in Cells |-> 0]]
  /\ f' = [f EXCEPT ![c] = impl]
  /\ pc' = [pc EXCEPT ![c] = IF impl = "trampoline" THEN "resolve" ELSE "run"]
  /\ UNCHANGED <<impl, host, env>>

(* Mutant: CPUID alone decides on MSVC. *)
CpuSupportsAvx2Alone ==
  CASE host.compiler = "gnu"   -> host.builtin /\ host.leaf7 /\ host.avx2
    [] host.compiler = "msvc"  -> host.avx2
    [] host.compiler = "other" -> FALSE

(* chronoid_ksuid_cpu_supports_avx2 *)
CpuSupportsAvx2 ==
  CASE host.compiler = "gnu"   -> host.builtin /\ host.leaf7 /\ host.avx2
    [] host.compiler = "msvc"  -> host.avx2 /\ host.saves_ymm
    [] host.compiler = "other" -> FALSE

(* chronoid_force_scalar_env *)
ForceScalarEnv == env \notin {"unset", "", "0", "false", "FALSE"}

(* The kernel that the trampoline chooses. *)
Resolved ==
  IF host.built /\ ~ForceScalarEnv /\ CpuSupportsAvx2 THEN "avx2" ELSE "scalar"

(* Mutant: while one thread sets up the CPU table, another reads it too    *)
(* early and finds no AVX2 there.                                          *)
ResolveSecondScalar(c) ==
  /\ pc[c] = "resolve"
  /\ f' = [f EXCEPT ![c] = IF \E d \in Callers : pc[d] = "publish" THEN "scalar"
                            ELSE Resolved]
  /\ pc' = [pc EXCEPT ![c] = "publish"]
  /\ UNCHANGED <<impl, host, env, n, done, written>>

(* The trampoline up to its store: getenv and the CPU check, which a build *)
(* without the AVX2 kernel leaves out.                                     *)
Resolve(c) ==
  /\ pc[c] = "resolve"
  /\ f' = [f EXCEPT ![c] = Resolved]
  /\ pc' = [pc EXCEPT ![c] = "publish"]
  /\ UNCHANGED <<impl, host, env, n, done, written>>

(* Mutant: the batch is dispatched again through the unchanged pointer. *)
PublishRecurses(c) ==
  /\ pc[c] = "publish"
  /\ pc' = [pc EXCEPT ![c] = "resolve"]
  /\ UNCHANGED <<impl, host, env, f, n, done, written>>

(* Its store; then it calls the kernel itself. *)
Publish(c) ==
  /\ pc[c] = "publish"
  /\ impl' = f[c]
  /\ pc' = [pc EXCEPT ![c] = "run"]
  /\ UNCHANGED <<host, env, f, n, done, written>>

-----------------------------------------------------------------------------
(* The kernels' loops over the batch.                                      *)

(* Mutant: the last group is rounded up. *)
BulkRoundedUp(k) == ((k + Lanes - 1) \div Lanes) * Lanes

(* How many identifiers the AVX2 kernel handles in whole groups. *)
Bulk(k) == (k \div Lanes) * Lanes

(* Cells written by one iteration: a whole group, or one identifier. *)
Group(c) == done[c] .. (done[c] + Lanes - 1)

InBulk(c) == f[c] = "avx2" /\ done[c] < Bulk(n[c])

Advance(c, cells, count) ==
  /\ written' = [written EXCEPT ![c] =
       [i \in Cells |-> IF i \in cells THEN @[i] + 1 ELSE @[i]]]
  /\ done' = [done EXCEPT ![c] = @ + count]
  /\ pc' = [pc EXCEPT ![c] = IF done[c] + count >= n[c] THEN "idle" ELSE "run"]
  /\ UNCHANGED <<impl, host, env, f, n>>

(* One iteration of chronoid_ksuid_string_batch_avx2. *)
RunGroup(c) == pc[c] = "run" /\ InBulk(c) /\ Advance(c, Group(c), Lanes)

(* One iteration of chronoid_ksuid_string_batch_scalar, called as such or  *)
(* for the AVX2 kernel's tail.                                             *)
RunOne(c) == pc[c] = "run" /\ ~InBulk(c) /\ Advance(c, {done[c]}, 1)

Step(c) == Resolve(c) \/ Publish(c) \/ RunGroup(c) \/ RunOne(c)

Next ==
  \E c \in Callers :
    \/ CallEmpty(c)
    \/ \E k \in 1 .. MaxIds : Call(c, k)
    \/ Step(c)

Spec == Init /\ [][Next]_vars

(* A thread inside a call keeps running. *)
FairSpec == Spec /\ \A c \in Callers : WF_vars(Step(c))

-----------------------------------------------------------------------------
(* Types of every variable. *)
TypeOK ==
  /\ impl \in Kernels \cup {"trampoline"}
  /\ host \in Hosts
  /\ env \in Settings
  /\ pc \in [Callers -> {"idle", "resolve", "publish", "run"}]
  /\ f \in [Callers -> Kernels \cup {"trampoline"}]
  /\ n \in [Callers -> 0 .. MaxIds]
  /\ done \in [Callers -> 0 .. MaxIds]
  /\ written \in [Callers -> [Cells -> {0, 1}]]

(* When a batch call returns, every cell of the caller's buffer has been   *)
(* written exactly once and nothing behind it was, for every batch size    *)
(* around the group size and whichever kernel ran.  That the text of each  *)
(* identifier of a group goes to its own cell is EncodersAgree in HexCodec *)
(* for UUIDs.                                                              *)
BatchExact ==
  \A c \in Callers : pc[c] = "idle" =>
    \A i \in Cells : written[c][i] = IF i < n[c] THEN 1 ELSE 0

(* "Without the XGETBV check, an AVX2-supporting CPU running on a kernel   *)
(* that doesn't preserve YMM state [...] would corrupt registers": no      *)
(* thread ever runs the AVX2 kernel where it was not built, where CPU or   *)
(* OS do not support it, or against CHRONOID_FORCE_SCALAR, whichever       *)
(* thread chose it.  Where the GNU branch decided, what is known of the OS *)
(* is what the builtin said of it (ConstantsAssumption).                   *)
KernelRunsHere ==
  \A c \in Callers : pc[c] = "run" /\ f[c] = "avx2" =>
    /\ host.built /\ host.avx2 /\ host.saves_ymm
    /\ env # "1"

(* What a call in progress has done: the cells below done are written, the *)
(* kernel is the resolved one, and inside the bulk done is a whole number  *)
(* of groups, so that the last group ends at the bulk's end.               *)
CallAccounted(c) ==
  /\ pc[c] = "idle" =>
       \A i \in Cells : written[c][i] = IF i < n[c] THEN 1 ELSE 0
  /\ pc[c] # "idle" =>
       /\ done[c] < n[c]
       /\ \A i \in Cells : written[c][i] = IF i < done[c] THEN 1 ELSE 0
  /\ pc[c] \in {"resolve", "publish"} => done[c] = 0
  /\ pc[c] \in {"publish", "run"} => f[c] = Resolved
  /\ pc[c] = "run" /\ InBulk(c) => \E q \in 0 .. MaxIds : done[c] = q * Lanes

(* The inductive invariant behind the safety theorems. *)
BatchInv ==
  /\ TypeOK
  /\ impl \in {"trampoline", Resolved}
  /\ \A c \in Callers : CallAccounted(c)

(* "The resolved pointer is cached for the lifetime of the process": even  *)
(* when several threads make the first call at once, the pointer leaves    *)
(* the trampoline once and never changes again.                            *)
ResolvedOnceAndForAll == [][impl # "trampoline" => impl' = impl]_vars

(* Every batch call returns. *)
CallReturns == \A c \in Callers : pc[c] # "idle" ~> pc[c] = "idle"
=============================================================================

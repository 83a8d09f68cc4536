------------------------------- MODULE SetRand -------------------------------
(***************************************************************************)
(* The process-wide random-source override (chronoid_set_rand and          *)
(* chronoid_internal_fill_random in chronoid/ksuid/ksuid.c): two atomic    *)
(* pointers, written context first and read function first, by one owner   *)
(* and any number of generator threads.                                    *)
(*                                                                         *)
(* The arguments of the n-th chronoid_set_rand call are named by n, so     *)
(* that the two halves of one call are equal and those of different calls  *)
(* are not; 0 names the initial NULL pointers.  The acquire/release pairs  *)
(* make every interleaving of the four accesses one of sequential ones.    *)
(***************************************************************************)
EXTENDS Integers

CONSTANTS
  Drawers,    \* generator threads
  MaxCalls    \* chronoid_set_rand calls; bounds the model

ASSUME ConstantsAssumption == MaxCalls \in Nat

VARIABLES
  quiesced,   \* does the owner stop the generators to replace an override?
  g_rng_fn,   \* the function pointer in force
  g_rng_ctx,  \* the context pointer in force
  calls,      \* number of chronoid_set_rand calls so far
  setting,    \* is the last one between its two stores?
  hooks,      \* the calls that passed a non-NULL function
  pc,         \* where each generator thread is in its draw
  fn,         \* chronoid_internal_fill_random's local copies
  ctx,
  since,      \* history: the last call that had returned when the draw began
  freed       \* contexts the owner has released

vars == <<quiesced, g_rng_fn, g_rng_ctx, calls, setting, hooks, pc, fn, ctx, since, freed>>

Calls     == 0 .. MaxCalls
Completed == IF setting THEN calls - 1 ELSE calls
InFlight(d) == pc[d] # "idle"

Init ==
  /\ quiesced \in BOOLEAN
  /\ g_rng_fn = 0 /\ g_rng_ctx = 0
  /\ calls = 0 /\ setting = FALSE /\ hooks = {}
  /\ pc = [d \in Drawers |-> "idle"]
  /\ fn = [d \in Drawers |-> 0] /\ ctx = [d \in Drawers |-> 0]
  /\ since = [d \in Drawers |-> 0]
  /\ freed = {}

-----------------------------------------------------------------------------
(* chronoid_set_rand, called by the owner.  ksuid.h asks it to stop all    *)
(* draws before it replaces an override; putting one in place of the       *)
(* default source is allowed at any time.                                  *)

MayReplace == quiesced /\ g_rng_fn \in hooks => \A d \in Drawers : ~InFlight(d)

(* The store to g_rng_ctx. *)
SetRandStoreCtx(is_hook) ==
  /\ ~setting /\ calls < MaxCalls
  /\ MayReplace
  /\ calls' = calls + 1
  /\ g_rng_ctx' = calls + 1
  /\ hooks' = IF is_hook THEN hooks \cup {calls + 1} ELSE hooks
  /\ setting' = TRUE
  /\ UNCHANGED <<quiesced, g_rng_fn, pc, fn, ctx, since, freed>>

(* The store to g_rng_fn. *)
SetRandStoreFn ==
  /\ setting
  /\ g_rng_fn' = calls
  /\ setting' = FALSE
  /\ UNCHANGED <<quiesced, g_rng_ctx, calls, hooks, pc, fn, ctx, since, freed>>

(* The owner releases a context by the recipe of ksuid.h: its override has *)
(* been replaced, and every draw that began before has returned.           *)
Release(n) ==
  /\ n \in hooks \ freed
  /\ n < Completed
  /\ \A d \in Drawers : InFlight(d) => since[d] > n
  /\ freed' = freed \cup {n}
  /\ UNCHANGED <<quiesced, g_rng_fn, g_rng_ctx, calls, setting, hooks, pc, fn, ctx, since>>

-----------------------------------------------------------------------------
(* chronoid_internal_fill_random, called by every generator: the KSUID and *)
(* UUIDv7 constructors and the draws of the UUIDv7 sequence.               *)

(* A quiescing owner lets no draw begin while it replaces an override. *)
DrawBegins(d) ==
  /\ pc[d] = "idle"
  /\ ~(quiesced /\ setting /\ g_rng_fn \in hooks)
  /\ pc' = [pc EXCEPT ![d] = "load_fn"]
  /\ since' = [since EXCEPT ![d] = Completed]
  /\ UNCHANGED <<quiesced, g_rng_fn, g_rng_ctx, calls, setting, hooks, fn, ctx, freed>>

(* Mutant: the thread keeps using the override it saw first. *)
LoadFnCached(d) ==
  /\ pc[d] = "load_fn"
  /\ fn' = [fn EXCEPT ![d] = IF fn[d] \in hooks THEN fn[d] ELSE g_rng_fn]
  /\ pc' = [pc EXCEPT ![d] = IF fn'[d] \in hooks THEN "load_ctx" ELSE "default"]
  /\ UNCHANGED <<quiesced, g_rng_fn, g_rng_ctx, calls, setting, hooks, ctx, since, freed>>

LoadFn(d) ==
  /\ pc[d] = "load_fn"
  /\ fn' = [fn EXCEPT ![d] = g_rng_fn]
  /\ pc' = [pc EXCEPT ![d] = IF g_rng_fn \in hooks THEN "load_ctx" ELSE "default"]
  /\ UNCHANGED <<quiesced, g_rng_fn, g_rng_ctx, calls, setting, hooks, ctx, since, freed>>

(* Mutant: the context is remembered from the thread's previous draw. *)
LoadCtxCached(d) ==
  /\ pc[d] = "load_ctx"
  /\ ctx' = [ctx EXCEPT ![d] = IF ctx[d] \in hooks THEN ctx[d] ELSE g_rng_ctx]
  /\ pc' = [pc EXCEPT ![d] = "hook"]
  /\ UNCHANGED <<quiesced, g_rng_fn, g_rng_ctx, calls, setting, hooks, fn, since, freed>>

LoadCtx(d) ==
  /\ pc[d] = "load_ctx"
  /\ ctx' = [ctx EXCEPT ![d] = g_rng_ctx]
  /\ pc' = [pc EXCEPT ![d] = "hook"]
  /\ UNCHANGED <<quiesced, g_rng_fn, g_rng_ctx, calls, setting, hooks, fn, since, freed>>

(* The hook, or chronoid_random_bytes, returns to the generator. *)
DrawEnds(d) ==
  /\ pc[d] \in {"hook", "default"}
  /\ pc' = [pc EXCEPT ![d] = "idle"]
  /\ UNCHANGED <<quiesced, g_rng_fn, g_rng_ctx, calls, setting, hooks, fn, ctx, since, freed>>

Next ==
  \/ \E is_hook \in BOOLEAN : SetRandStoreCtx(is_hook)
  \/ SetRandStoreFn
  \/ \E n \in 1 .. MaxCalls : Release(n)
  \/ \E d \in Drawers : DrawBegins(d) \/ LoadFn(d) \/ LoadCtx(d) \/ DrawEnds(d)

Spec == Init /\ [][Next]_vars

-----------------------------------------------------------------------------
(* Types of every variable. *)
TypeOK ==
  /\ quiesced \in BOOLEAN
  /\ g_rng_fn \in Calls /\ g_rng_ctx \in Calls /\ calls \in Calls
  /\ setting \in BOOLEAN
  /\ hooks \subseteq 1 .. MaxCalls
  /\ pc \in [Drawers -> {"idle", "load_fn", "load_ctx", "hook", "default"}]
  /\ fn \in [Drawers -> Calls]
  /\ ctx \in [Drawers -> Calls]
  /\ since \in [Drawers -> Calls]
  /\ freed \subseteq hooks

(* An owner that honours the contract of ksuid.h (overrides are replaced   *)
(* only while no draw runs) never has a hook called with a context that    *)
(* was not passed along with it, even if the first one is installed while  *)
(* draws are running.  Without quiescing, the crossing that ksuid.h warns  *)
(* of goes one way: an old hook may meet a newer context, a new hook never *)
(* an older one.                                                           *)
PairMatched ==
  \A d \in Drawers : pc[d] = "hook" =>
    fn[d] <= ctx[d] /\ (quiesced => fn[d] = ctx[d])

(* A draw that begins after chronoid_set_rand has returned uses what that  *)
(* call installed, or something newer; after chronoid_set_rand (NULL, ...) *)
(* the old hook is not entered again.                                      *)
TakesEffect ==
  \A d \in Drawers : pc[d] \in {"load_ctx", "hook", "default"} => fn[d] >= since[d]

(* The recipe of ksuid.h for releasing a context is enough: no hook runs   *)
(* against a released one.                                                 *)
NoUseAfterFree == \A d \in Drawers : pc[d] = "hook" => ctx[d] \notin freed

(* How the slots and the history of calls are related. *)
SlotsPlaced ==
  /\ Completed >= 0
  /\ g_rng_fn = Completed
  /\ g_rng_ctx = calls
  /\ hooks \subseteq 1 .. calls
  /\ \A n \in freed : n < Completed

DrawPlaced(d) ==
  InFlight(d) =>
    /\ since[d] <= Completed
    /\ \A n \in freed : since[d] > n
    /\ pc[d] # "load_fn" => since[d] <= fn[d] /\ fn[d] <= Completed
    /\ pc[d] \in {"load_ctx", "hook"} => fn[d] \in hooks
    /\ pc[d] = "hook" => fn[d] <= ctx[d] /\ ctx[d] <= calls

(* A quiescing owner replaces an override only while no draw runs, so an   *)
(* override stays in force until the last draw that uses it has returned.  *)
QuiescedPlaced(d) ==
  quiesced =>
    /\ setting /\ g_rng_fn \in hooks => ~InFlight(d)
    /\ pc[d] \in {"load_ctx", "hook"} => fn[d] = g_rng_fn /\ ~setting
    /\ pc[d] = "hook" => ctx[d] = fn[d]

(* The inductive invariant behind the safety theorems. *)
OverrideInv ==
  /\ TypeOK
  /\ SlotsPlaced
  /\ \A d \in Drawers : DrawPlaced(d) /\ QuiescedPlaced(d)
=============================================================================

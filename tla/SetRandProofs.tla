---------------------------- MODULE SetRandProofs ----------------------------
(***************************************************************************)
(* Proofs about SetRand for any number of generator threads and of         *)
(* chronoid_set_rand calls.                                                *)
(***************************************************************************)
EXTENDS SetRand, TLAPS

LEMMA InitInv == Init => OverrideInv
<1> SUFFICES ASSUME Init PROVE OverrideInv
  OBVIOUS
<1> USE ConstantsAssumption DEF Init
<1>0. 0 \in Calls
  BY DEF Calls
<1>1. TypeOK
  BY <1>0 DEF TypeOK
<1>2. SlotsPlaced
  BY DEF SlotsPlaced, Completed
<1>3. ASSUME NEW d \in Drawers PROVE DrawPlaced(d) /\ QuiescedPlaced(d)
  BY DEF DrawPlaced, QuiescedPlaced, InFlight
<1> QED
  BY <1>1, <1>2, <1>3 DEF OverrideInv

(* The owner's steps: the slots move to the new call, nothing else does. *)
LEMMA StoreCtxInv ==
  ASSUME OverrideInv, NEW is_hook \in BOOLEAN, SetRandStoreCtx(is_hook)
  PROVE  OverrideInv'
<1> USE ConstantsAssumption DEF SetRandStoreCtx, OverrideInv
<1>1. TypeOK'
  BY DEF TypeOK, Calls
<1>2. Completed' = Completed /\ Completed = calls /\ calls \in Nat /\ calls' = calls + 1
  BY DEF Completed, TypeOK, Calls
<1>3. SlotsPlaced'
  BY <1>2 DEF SlotsPlaced, TypeOK, Calls
<1>4. ASSUME NEW d \in Drawers PROVE DrawPlaced(d)'
  BY <1>2 DEF DrawPlaced, InFlight, TypeOK, Calls
<1>5. ASSUME NEW d \in Drawers PROVE QuiescedPlaced(d)'
  <2>1. g_rng_fn \in hooks' => g_rng_fn \in hooks
    BY <1>2 DEF SlotsPlaced
  <2>2. quiesced /\ g_rng_fn \in hooks => ~InFlight(d)
    BY DEF MayReplace
  <2>3. pc[d] \in {"load_ctx", "hook"} => fn[d] \in hooks /\ InFlight(d)
    BY DEF DrawPlaced, InFlight
  <2> QED
    BY <2>1, <2>2, <2>3 DEF QuiescedPlaced, InFlight
<1> QED
  BY <1>1, <1>3, <1>4, <1>5

LEMMA StoreFnInv ==
  ASSUME OverrideInv, SetRandStoreFn
  PROVE  OverrideInv'
<1> USE ConstantsAssumption DEF SetRandStoreFn, OverrideInv
<1>1. TypeOK'
  BY DEF TypeOK
<1>2. calls \in Nat /\ Completed' = calls /\ Completed = calls - 1
  BY DEF Completed, TypeOK, Calls
<1>3. SlotsPlaced'
  BY <1>2 DEF SlotsPlaced, TypeOK, Calls
<1>4. ASSUME NEW d \in Drawers PROVE DrawPlaced(d)'
  BY <1>2 DEF DrawPlaced, InFlight, TypeOK, Calls
<1>5. ASSUME NEW d \in Drawers PROVE QuiescedPlaced(d)'
  BY DEF QuiescedPlaced
<1> QED
  BY <1>1, <1>3, <1>4, <1>5

LEMMA ReleaseInv ==
  ASSUME OverrideInv, NEW n \in 1 .. MaxCalls, Release(n)
  PROVE  OverrideInv'
<1> USE ConstantsAssumption DEF Release, OverrideInv
<1>1. TypeOK'
  BY DEF TypeOK
<1>2. SlotsPlaced'
  BY DEF SlotsPlaced, Completed
<1>3. ASSUME NEW d \in Drawers PROVE DrawPlaced(d)'
  BY DEF DrawPlaced, InFlight, Completed
<1>4. ASSUME NEW d \in Drawers PROVE QuiescedPlaced(d)'
  BY DEF QuiescedPlaced, InFlight
<1> QED
  BY <1>1, <1>2, <1>3, <1>4

(* The generators' steps. *)
LEMMA DrawBeginsInv ==
  ASSUME OverrideInv, NEW d \in Drawers, DrawBegins(d)
  PROVE  OverrideInv'
<1> USE ConstantsAssumption DEF DrawBegins, OverrideInv
<1>1. Completed \in Calls /\ Completed' = Completed
  BY DEF TypeOK, SlotsPlaced, Completed, Calls
<1>2. TypeOK'
  BY <1>1 DEF TypeOK
<1>3. SlotsPlaced'
  BY <1>1 DEF SlotsPlaced
<1>4. ASSUME NEW e \in Drawers PROVE DrawPlaced(e)'
  <2>1. CASE e = d
    <3>1. since'[e] = Completed /\ pc'[e] = "load_fn"
      BY <2>1 DEF TypeOK
    <3>2. \A n \in freed : Completed > n
      BY <1>1 DEF SlotsPlaced, TypeOK, Calls
    <3> QED
      BY <1>1, <3>1, <3>2 DEF DrawPlaced, Calls
  <2>2. CASE e # d
    <3>1. since'[e] = since[e] /\ pc'[e] = pc[e]
      BY <2>2 DEF TypeOK
    <3> QED
      BY <1>1, <3>1 DEF DrawPlaced, InFlight
  <2> QED
    BY <2>1, <2>2
<1>5. ASSUME NEW e \in Drawers PROVE QuiescedPlaced(e)'
  BY DEF QuiescedPlaced, TypeOK, InFlight
<1> QED
  BY <1>2, <1>3, <1>4, <1>5

LEMMA LoadFnInv ==
  ASSUME OverrideInv, NEW d \in Drawers, LoadFn(d)
  PROVE  OverrideInv'
<1> USE ConstantsAssumption DEF LoadFn, OverrideInv
<1>1. Completed \in Calls /\ Completed' = Completed
  BY DEF TypeOK, SlotsPlaced, Completed, Calls
<1>2. TypeOK'
  BY DEF TypeOK
<1>3. SlotsPlaced'
  BY <1>1 DEF SlotsPlaced
<1>4. fn'[d] = g_rng_fn /\ pc'[d] = IF g_rng_fn \in hooks THEN "load_ctx" ELSE "default"
  BY DEF TypeOK
<1>5. ASSUME NEW e \in Drawers, e # d
      PROVE  fn'[e] = fn[e] /\ pc'[e] = pc[e]
  BY <1>5 DEF TypeOK
<1>6. ASSUME NEW e \in Drawers PROVE DrawPlaced(e)'
  <2>1. CASE e = d
    BY <1>1, <1>4, <2>1 DEF DrawPlaced, InFlight, SlotsPlaced, Calls
  <2>2. CASE e # d
    BY <1>1, <1>5, <2>2 DEF DrawPlaced, InFlight
  <2> QED
    BY <2>1, <2>2
<1>7. ASSUME NEW e \in Drawers PROVE QuiescedPlaced(e)'
  <2>1. CASE e = d
    BY <1>4, <2>1 DEF QuiescedPlaced, InFlight
  <2>2. CASE e # d
    BY <1>5, <2>2 DEF QuiescedPlaced, InFlight
  <2> QED
    BY <2>1, <2>2
<1> QED
  BY <1>2, <1>3, <1>6, <1>7

LEMMA LoadCtxInv ==
  ASSUME OverrideInv, NEW d \in Drawers, LoadCtx(d)
  PROVE  OverrideInv'
<1> USE ConstantsAssumption DEF LoadCtx, OverrideInv
<1>1. Completed \in Calls /\ Completed' = Completed /\ Completed <= calls
  BY DEF TypeOK, SlotsPlaced, Completed, Calls
<1>2. TypeOK'
  BY DEF TypeOK
<1>3. SlotsPlaced'
  BY <1>1 DEF SlotsPlaced
<1>4. ctx'[d] = calls /\ pc'[d] = "hook"
  BY DEF TypeOK, SlotsPlaced
<1>5. ASSUME NEW e \in Drawers, e # d
      PROVE  ctx'[e] = ctx[e] /\ pc'[e] = pc[e]
  BY <1>5 DEF TypeOK
<1>6. ASSUME NEW e \in Drawers PROVE DrawPlaced(e)'
  <2>1. CASE e = d
    BY <1>1, <1>4, <2>1 DEF DrawPlaced, InFlight, TypeOK, Calls
  <2>2. CASE e # d
    BY <1>1, <1>5, <2>2 DEF DrawPlaced, InFlight
  <2> QED
    BY <2>1, <2>2
<1>7. ASSUME NEW e \in Drawers PROVE QuiescedPlaced(e)'
  <2>1. CASE e = d
    <3>1. quiesced => fn[d] = g_rng_fn /\ ~setting
      BY DEF QuiescedPlaced
    <3>2. ~setting => g_rng_fn = calls
      BY DEF SlotsPlaced, Completed
    <3> QED
      BY <1>4, <2>1, <3>1, <3>2 DEF QuiescedPlaced, InFlight
  <2>2. CASE e # d
    BY <1>5, <2>2 DEF QuiescedPlaced, InFlight
  <2> QED
    BY <2>1, <2>2
<1> QED
  BY <1>2, <1>3, <1>6, <1>7

LEMMA DrawEndsInv ==
  ASSUME OverrideInv, NEW d \in Drawers, DrawEnds(d)
  PROVE  OverrideInv'
<1> USE DEF DrawEnds, OverrideInv
<1>1. TypeOK'
  BY DEF TypeOK
<1>2. SlotsPlaced'
  BY DEF SlotsPlaced, Completed
<1>3. ASSUME NEW e \in Drawers
      PROVE  pc'[e] = pc[e] \/ pc'[e] = "idle"
  BY DEF TypeOK
<1>4. ASSUME NEW e \in Drawers PROVE DrawPlaced(e)' /\ QuiescedPlaced(e)'
  BY <1>3 DEF DrawPlaced, QuiescedPlaced, InFlight, Completed
<1> QED
  BY <1>1, <1>2, <1>4

(* OverrideInv is an invariant, for an owner that quiesces and for one     *)
(* that does not.                                                          *)
THEOREM Invariance == Spec => []OverrideInv
<1>1. OverrideInv /\ [Next]_vars => OverrideInv'
  <2> SUFFICES ASSUME OverrideInv, [Next]_vars PROVE OverrideInv'
    OBVIOUS
  <2>1. CASE UNCHANGED vars
    BY <2>1 DEF vars, OverrideInv, TypeOK, SlotsPlaced, DrawPlaced, QuiescedPlaced,
                Completed, InFlight
  <2>2. CASE Next
    BY <2>2, StoreCtxInv, StoreFnInv, ReleaseInv, DrawBeginsInv, LoadFnInv,
       LoadCtxInv, DrawEndsInv DEF Next
  <2> QED
    BY <2>1, <2>2
<1> QED
  BY <1>1, InitInv, PTL DEF Spec

-----------------------------------------------------------------------------
(* Types of the override slots and of the draws. *)
THEOREM TypeCorrect == Spec => []TypeOK
<1>1. OverrideInv => TypeOK
  BY DEF OverrideInv
<1> QED
  BY <1>1, Invariance, PTL

(* chronoid_internal_fill_random calls each hook with the context it was   *)
(* installed with under the contract of ksuid.h, and never with an older   *)
(* one without it.                                                         *)
THEOREM PairsMatch == Spec => []PairMatched
<1>1. OverrideInv => PairMatched
  BY DEF OverrideInv, DrawPlaced, InFlight, QuiescedPlaced, PairMatched
<1> QED
  BY <1>1, Invariance, PTL

(* Once chronoid_set_rand has returned, its effect is complete. *)
THEOREM EffectIsComplete == Spec => []TakesEffect
<1>1. OverrideInv => TakesEffect
  BY DEF OverrideInv, DrawPlaced, InFlight, TakesEffect, TypeOK, Calls
<1> QED
  BY <1>1, Invariance, PTL

(* The release recipe of ksuid.h is safe, quiesced or not: what a draw in  *)
(* flight may hold is at least as new as the draw.                         *)
THEOREM ReleaseIsSafe == Spec => []NoUseAfterFree
<1>1. ASSUME OverrideInv, NEW d \in Drawers, pc[d] = "hook"
      PROVE  ctx[d] \notin freed
  <2>1. since[d] <= ctx[d] /\ \A n \in freed : since[d] > n
    BY <1>1, ConstantsAssumption
       DEF OverrideInv, DrawPlaced, InFlight, TypeOK, Calls
  <2> QED
    BY <1>1, <2>1, ConstantsAssumption DEF OverrideInv, TypeOK, Calls
<1>2. OverrideInv => NoUseAfterFree
  BY <1>1 DEF NoUseAfterFree
<1> QED
  BY <1>2, Invariance, PTL
=============================================================================

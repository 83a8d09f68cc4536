------------------------- MODULE BatchDispatchProofs -------------------------
(***************************************************************************)
(* Proofs about BatchDispatch for any number of threads, any group size,   *)
(* any batch sizes and any set of hosts.                                   *)
(***************************************************************************)
EXTENDS BatchDispatch, TLAPS

(* The choice of the kernel depends on host and environment only. *)
LEMMA ResolvedStays ==
  ASSUME host' = host, env' = env PROVE Resolved' = Resolved
  BY DEF Resolved, CpuSupportsAvx2, ForceScalarEnv

LEMMA ResolvedIsKernel == Resolved \in Kernels
  BY DEF Resolved, Kernels

(* Multiplication by the group size keeps the order of numbers of groups. *)
LEMMA GroupsOrdered ==
  ASSUME NEW a \in Nat, NEW b \in Nat
  PROVE  a * Lanes < b * Lanes => (a + 1) * Lanes <= b * Lanes
<1>1. Lanes \in Nat /\ Lanes > 0
  BY ConstantsAssumption
<1>2. CASE a < b
  <2>1. PICK e \in Nat : b = (a + 1) + e
    <3>1. b - (a + 1) \in Nat /\ b = (a + 1) + (b - (a + 1))
      BY <1>2
    <3> QED
      BY <3>1
  <2>2. b * Lanes = (a + 1) * Lanes + e * Lanes
    BY <1>1, <2>1
  <2>3. e * Lanes >= 0 /\ e * Lanes \in Nat /\ (a + 1) * Lanes \in Nat
    BY <1>1, <2>1
  <2> QED
    BY <2>2, <2>3
<1>3. CASE ~(a < b)
  <2>1. PICK e \in Nat : a = b + e
    <3>1. a - b \in Nat /\ a = b + (a - b)
      BY <1>3
    <3> QED
      BY <3>1
  <2>2. a * Lanes = b * Lanes + e * Lanes
    BY <1>1, <2>1
  <2>3. e * Lanes \in Nat /\ b * Lanes \in Nat
    BY <1>1, <2>1
  <2> QED
    BY <2>2, <2>3
<1> QED
  BY <1>2, <1>3

(* A group that begins inside the bulk ends inside it, and the next one    *)
(* begins at a whole number of groups.                                     *)
LEMMA GroupFits ==
  ASSUME NEW k \in 0 .. MaxIds, NEW q \in 0 .. MaxIds, q * Lanes < Bulk(k)
  PROVE  /\ q * Lanes + Lanes <= Bulk(k)
         /\ Bulk(k) <= k
         /\ q * Lanes + Lanes = (q + 1) * Lanes
         /\ q + 1 \in 0 .. MaxIds
<1>1. Lanes \in Nat /\ Lanes > 0 /\ MaxIds \in Nat
  BY ConstantsAssumption
<1> DEFINE m == k \div Lanes
<1>2. m \in Nat /\ m * Lanes <= k
  BY <1>1
<1>3. Bulk(k) = m * Lanes
  BY DEF Bulk
<1> HIDE DEF m
<1>4. q * Lanes + Lanes = (q + 1) * Lanes /\ q * Lanes \in Nat
  BY <1>1
<1>5. (q + 1) * Lanes <= m * Lanes
  BY <1>2, <1>3, GroupsOrdered
<1>6. q + 1 <= (q + 1) * Lanes
  <2>1. PICK e \in Nat : Lanes = 1 + e
    <3>1. Lanes - 1 \in Nat /\ Lanes = 1 + (Lanes - 1)
      BY <1>1
    <3> QED
      BY <3>1
  <2>2. (q + 1) * Lanes = (q + 1) + (q + 1) * e
    BY <2>1
  <2>3. (q + 1) * e \in Nat
    BY <2>1
  <2> QED
    BY <2>2, <2>3
<1>7. m * Lanes \in Nat /\ (q + 1) * Lanes \in Nat
  BY <1>1, <1>2
<1> QED
  BY <1>1, <1>2, <1>3, <1>4, <1>5, <1>6, <1>7

-----------------------------------------------------------------------------
(* A step of one caller leaves what is known of the others alone. *)
LEMMA OthersKeep ==
  ASSUME NEW d \in Callers, CallAccounted(d), host' = host, env' = env,
         pc'[d] = pc[d], f'[d] = f[d], n'[d] = n[d], done'[d] = done[d],
         written'[d] = written[d]
  PROVE  CallAccounted(d)'
<1>1. Resolved' = Resolved
  BY ResolvedStays
<1>2. InBulk(d)' <=> InBulk(d)
  BY DEF InBulk, Bulk
<1> QED
  BY <1>1, <1>2 DEF CallAccounted, Cells

LEMMA InitInv == Init => BatchInv
<1> SUFFICES ASSUME Init PROVE BatchInv
  OBVIOUS
<1>1. TypeOK
  BY ConstantsAssumption DEF Init, TypeOK, Kernels, Cells
<1>2. \A c \in Callers : CallAccounted(c)
  <2>1. \A i \in Cells : ~(i < 0)
    BY ConstantsAssumption DEF Cells
  <2>2. \A c \in Callers :
          /\ pc[c] = "idle" /\ n[c] = 0
          /\ \A i \in Cells : written[c][i] = 0
    BY DEF Init
  <2> QED
    BY <2>1, <2>2 DEF CallAccounted
<1> QED
  BY <1>1, <1>2 DEF Init, BatchInv

(* The two ways into chronoid_ksuid_string_batch. *)
LEMMA CallEmptyInv ==
  ASSUME BatchInv, NEW c \in Callers, CallEmpty(c) PROVE BatchInv'
<1> USE DEF BatchInv
<1>1. TypeOK'
  BY ConstantsAssumption DEF CallEmpty, TypeOK
<1>2. impl' \in {"trampoline", Resolved'}
  BY ResolvedStays DEF CallEmpty
<1>3. CallAccounted(c)'
  <2>1. /\ pc'[c] = "idle" /\ n'[c] = 0
        /\ written'[c] = [i \in Cells |-> 0]
    BY DEF CallEmpty, TypeOK
  <2> QED
    BY <2>1, ConstantsAssumption DEF CallAccounted, Cells
<1>4. ASSUME NEW d \in Callers, d # c PROVE CallAccounted(d)'
  BY <1>4, OthersKeep DEF CallEmpty, TypeOK
<1> QED
  BY <1>1, <1>2, <1>3, <1>4

LEMMA CallInv ==
  ASSUME BatchInv, NEW c \in Callers, NEW k \in 1 .. MaxIds, Call(c, k)
  PROVE  BatchInv'
<1> USE DEF BatchInv
<1>1. TypeOK'
  BY ConstantsAssumption DEF Call, TypeOK
<1>2. impl' \in {"trampoline", Resolved'}
  BY ResolvedStays DEF Call
<1>3. CallAccounted(c)'
  <2>1. /\ pc'[c] = IF impl = "trampoline" THEN "resolve" ELSE "run"
        /\ n'[c] = k /\ done'[c] = 0 /\ f'[c] = impl
        /\ written'[c] = [i \in Cells |-> 0]
    BY DEF Call, TypeOK
  <2>2. pc'[c] = "run" => f'[c] = Resolved'
    BY <2>1, ResolvedStays DEF Call
  <2>3. 0 \in 0 .. MaxIds /\ done'[c] = 0 * Lanes
    BY <2>1, ConstantsAssumption
  <2>4. /\ done'[c] < n'[c]
        /\ \A i \in Cells : written'[c][i] = IF i < done'[c] THEN 1 ELSE 0
    BY <2>1, ConstantsAssumption DEF Cells
  <2>5. \E q \in 0 .. MaxIds : done'[c] = q * Lanes
    BY <2>3
  <2>6. pc'[c] \in {"resolve", "run"}
    BY <2>1
  <2> QED
    BY <2>1, <2>2, <2>4, <2>5, <2>6 DEF CallAccounted, Cells
<1>4. ASSUME NEW d \in Callers, d # c PROVE CallAccounted(d)'
  BY <1>4, OthersKeep DEF Call, TypeOK
<1> QED
  BY <1>1, <1>2, <1>3, <1>4

(* The trampoline. *)
LEMMA ResolveInv ==
  ASSUME BatchInv, NEW c \in Callers, Resolve(c) PROVE BatchInv'
<1> USE DEF BatchInv
<1>1. TypeOK'
  BY ResolvedIsKernel DEF Resolve, TypeOK
<1>2. impl' \in {"trampoline", Resolved'}
  BY ResolvedStays DEF Resolve
<1>3. CallAccounted(c)'
  <2>1. /\ pc'[c] = "publish" /\ f'[c] = Resolved'
        /\ n'[c] = n[c] /\ done'[c] = done[c] /\ written'[c] = written[c]
    BY ResolvedStays DEF Resolve, TypeOK
  <2>2. /\ done[c] = 0 /\ done[c] < n[c]
        /\ \A i \in Cells : written[c][i] = IF i < done[c] THEN 1 ELSE 0
    BY DEF Resolve, CallAccounted
  <2> QED
    BY <2>1, <2>2 DEF CallAccounted, Cells
<1>4. ASSUME NEW d \in Callers, d # c PROVE CallAccounted(d)'
  BY <1>4, OthersKeep DEF Resolve, TypeOK
<1> QED
  BY <1>1, <1>2, <1>3, <1>4

LEMMA PublishInv ==
  ASSUME BatchInv, NEW c \in Callers, Publish(c) PROVE BatchInv'
<1> USE DEF BatchInv
<1>0. f[c] = Resolved /\ Resolved' = Resolved
  BY ResolvedStays DEF Publish, CallAccounted
<1>1. TypeOK'
  BY DEF Publish, TypeOK
<1>2. impl' \in {"trampoline", Resolved'}
  BY <1>0 DEF Publish
<1>3. CallAccounted(c)'
  <2>1. /\ pc'[c] = "run" /\ f'[c] = f[c]
        /\ n'[c] = n[c] /\ done'[c] = done[c] /\ written'[c] = written[c]
    BY DEF Publish, TypeOK
  <2>2. /\ done[c] = 0 /\ done[c] < n[c]
        /\ \A i \in Cells : written[c][i] = IF i < done[c] THEN 1 ELSE 0
    BY DEF Publish, CallAccounted
  <2>3. 0 \in 0 .. MaxIds /\ done'[c] = 0 * Lanes
    BY <2>1, <2>2, ConstantsAssumption
  <2>4. \E q \in 0 .. MaxIds : done'[c] = q * Lanes
    BY <2>3
  <2> QED
    BY <1>0, <2>1, <2>2, <2>4 DEF CallAccounted, Cells
<1>4. ASSUME NEW d \in Callers, d # c PROVE CallAccounted(d)'
  BY <1>4, OthersKeep DEF Publish, TypeOK
<1> QED
  BY <1>1, <1>2, <1>3, <1>4

-----------------------------------------------------------------------------
(* One iteration of a kernel, given that it stays inside the batch. *)
LEMMA AdvanceInv ==
  ASSUME BatchInv, NEW c \in Callers, pc[c] = "run",
         NEW m \in Nat, m > 0, done[c] + m <= n[c],
         NEW cells, \A i \in Cells : i \in cells <=> done[c] <= i /\ i < done[c] + m,
         Advance(c, cells, m),
         InBulk(c)' => \E q \in 0 .. MaxIds : done[c] + m = q * Lanes
  PROVE  BatchInv'
<1> USE DEF BatchInv
<1>1. /\ n[c] \in 0 .. MaxIds /\ done[c] \in 0 .. MaxIds
      /\ f[c] = Resolved
      /\ \A i \in Cells : written[c][i] = IF i < done[c] THEN 1 ELSE 0
  BY DEF TypeOK, CallAccounted
<1>2. /\ pc'[c] = IF done[c] + m >= n[c] THEN "idle" ELSE "run"
      /\ f'[c] = f[c] /\ n'[c] = n[c] /\ done'[c] = done[c] + m
      /\ host' = host /\ env' = env /\ impl' = impl
  BY DEF Advance, TypeOK
<1>3. written'[c] =
        [i \in Cells |-> IF i \in cells THEN written[c][i] + 1 ELSE written[c][i]]
  BY DEF Advance, TypeOK
<1>4. ASSUME NEW i \in Cells
      PROVE  written'[c][i] = IF i < done[c] + m THEN 1 ELSE 0
  <2>1. i \in Nat /\ written[c][i] = IF i < done[c] THEN 1 ELSE 0
    BY <1>1, ConstantsAssumption DEF Cells
  <2>2. i \in cells <=> done[c] <= i /\ i < done[c] + m
    OBVIOUS
  <2>3. written'[c][i] = IF i \in cells THEN written[c][i] + 1 ELSE written[c][i]
    BY <1>3
  <2>4. done[c] \in Nat
    BY <1>1, ConstantsAssumption
  <2> QED
    BY <2>1, <2>2, <2>3, <2>4
<1>5. TypeOK'
  <2>1. written' \in [Callers -> [Cells -> {0, 1}]]
    <3>1. written'[c] \in [Cells -> {0, 1}]
      BY <1>3, <1>4
    <3>2. written' = [written EXCEPT ![c] = written'[c]]
      BY DEF Advance, TypeOK
    <3> QED
      BY <3>1, <3>2 DEF TypeOK
  <2>2. done' \in [Callers -> 0 .. MaxIds]
    BY <1>1, ConstantsAssumption DEF Advance, TypeOK
  <2> QED
    BY <2>1, <2>2 DEF Advance, TypeOK
<1>6. impl' \in {"trampoline", Resolved'}
  BY <1>2, ResolvedStays
<1>7. CallAccounted(c)'
  <2>1. CASE done[c] + m >= n[c]
    <3>1. pc'[c] = "idle" /\ n'[c] = done[c] + m
      BY <1>1, <1>2, <2>1, ConstantsAssumption
    <3> QED
      BY <1>4, <3>1 DEF CallAccounted, Cells
  <2>2. CASE ~(done[c] + m >= n[c])
    <3>1. pc'[c] = "run" /\ done'[c] < n'[c]
      BY <1>1, <1>2, <2>2, ConstantsAssumption
    <3>2. f'[c] = Resolved'
      BY <1>1, <1>2, ResolvedStays
    <3>3. InBulk(c)' => \E q \in 0 .. MaxIds : done'[c] = q * Lanes
      BY <1>2
    <3> QED
      BY <1>2, <1>4, <3>1, <3>2, <3>3 DEF CallAccounted, Cells
  <2> QED
    BY <2>1, <2>2
<1>8. ASSUME NEW d \in Callers, d # c PROVE CallAccounted(d)'
  BY <1>8, OthersKeep DEF Advance, TypeOK
<1> QED
  BY <1>5, <1>6, <1>7, <1>8

LEMMA RunGroupInv ==
  ASSUME BatchInv, NEW c \in Callers, RunGroup(c) PROVE BatchInv'
<1>1. /\ n[c] \in 0 .. MaxIds /\ done[c] \in 0 .. MaxIds
      /\ Lanes \in Nat /\ Lanes > 0 /\ MaxIds \in Nat
  BY ConstantsAssumption DEF BatchInv, TypeOK
<1>2. PICK q \in 0 .. MaxIds : done[c] = q * Lanes
  BY DEF BatchInv, CallAccounted, RunGroup
<1>3. q * Lanes < Bulk(n[c])
  BY <1>2 DEF RunGroup, InBulk
<1>4. /\ done[c] + Lanes <= n[c]
      /\ done[c] + Lanes = (q + 1) * Lanes /\ q + 1 \in 0 .. MaxIds
  <2>1. /\ q * Lanes + Lanes <= Bulk(n[c]) /\ Bulk(n[c]) <= n[c]
        /\ q * Lanes + Lanes = (q + 1) * Lanes /\ q + 1 \in 0 .. MaxIds
    BY <1>1, <1>3, GroupFits
  <2>2. Bulk(n[c]) \in Int
    BY <1>1 DEF Bulk
  <2> QED
    BY <1>1, <1>2, <2>1, <2>2
<1>5. \E r \in 0 .. MaxIds : done[c] + Lanes = r * Lanes
  BY <1>4
<1>6. \A i \in Cells : i \in Group(c) <=> done[c] <= i /\ i < done[c] + Lanes
  BY <1>1 DEF Group, Cells
<1>7. pc[c] = "run" /\ Advance(c, Group(c), Lanes)
  BY DEF RunGroup
<1> QED
  BY <1>1, <1>4, <1>5, <1>6, <1>7, AdvanceInv

LEMMA RunOneInv ==
  ASSUME BatchInv, NEW c \in Callers, RunOne(c) PROVE BatchInv'
<1>1. /\ n[c] \in 0 .. MaxIds /\ done[c] \in 0 .. MaxIds
      /\ Lanes \in Nat /\ Lanes > 0 /\ MaxIds \in Nat
  BY ConstantsAssumption DEF BatchInv, TypeOK
<1>2. done[c] < n[c] /\ done[c] + 1 <= n[c]
  BY <1>1 DEF BatchInv, CallAccounted, RunOne
<1>3. pc[c] = "run" /\ Advance(c, {done[c]}, 1) /\ ~InBulk(c)
  BY DEF RunOne
<1>4. ~InBulk(c)'
  <2>1. f'[c] = f[c] /\ n'[c] = n[c] /\ done'[c] = done[c] + 1
    BY <1>3 DEF Advance, BatchInv, TypeOK
  <2>2. Bulk(n[c]) \in Int
    BY <1>1 DEF Bulk
  <2>3. Bulk(n[c])' = Bulk(n[c])
    BY <2>1 DEF Bulk
  <2>4. done[c] \in Int
    BY <1>1
  <2> QED
    BY <1>3, <2>1, <2>2, <2>3, <2>4 DEF InBulk
<1>5. \A i \in Cells : i \in {done[c]} <=> done[c] <= i /\ i < done[c] + 1
  BY <1>1 DEF Cells
<1> QED
  BY <1>2, <1>3, <1>4, <1>5, AdvanceInv

LEMMA NextInv == BatchInv /\ [Next]_vars => BatchInv'
<1> SUFFICES ASSUME BatchInv, [Next]_vars PROVE BatchInv'
  OBVIOUS
<1>1. ASSUME NEW c \in Callers, CallEmpty(c) PROVE BatchInv'
  BY <1>1, CallEmptyInv
<1>2. ASSUME NEW c \in Callers, NEW k \in 1 .. MaxIds, Call(c, k) PROVE BatchInv'
  BY <1>2, CallInv
<1>3. ASSUME NEW c \in Callers, Step(c) PROVE BatchInv'
  BY <1>3, ResolveInv, PublishInv, RunGroupInv, RunOneInv DEF Step
<1>4. CASE UNCHANGED vars
  <2>1. \A d \in Callers : CallAccounted(d)'
    BY <1>4, OthersKeep DEF vars, BatchInv
  <2>2. TypeOK' /\ impl' \in {"trampoline", Resolved'}
    BY <1>4, ResolvedStays DEF vars, BatchInv, TypeOK, Cells
  <2> QED
    BY <2>1, <2>2 DEF BatchInv
<1> QED
  BY <1>1, <1>2, <1>3, <1>4 DEF Next

THEOREM Invariance == Spec => []BatchInv
  BY InitInv, NextInv, PTL DEF Spec

-----------------------------------------------------------------------------
(* For any group size, no kernel runs past the end of its batch and every  *)
(* variable keeps its type.                                                *)
THEOREM TypeCorrect == Spec => []TypeOK
<1>1. BatchInv => TypeOK
  BY DEF BatchInv
<1> QED
  BY <1>1, Invariance, PTL

(* When a batch call has returned, every cell of its output was written    *)
(* once and nothing behind it, whichever kernel ran.                       *)
THEOREM BatchesExact == Spec => []BatchExact
<1>1. BatchInv => BatchExact
  BY DEF BatchInv, CallAccounted, BatchExact
<1> QED
  BY <1>1, Invariance, PTL

(* The AVX2 kernel runs only where CPU, OS, build and operator allow it. *)
THEOREM KernelAllowed == Spec => []KernelRunsHere
<1>1. BatchInv => KernelRunsHere
  <2> SUFFICES ASSUME BatchInv, NEW c \in Callers, pc[c] = "run", f[c] = "avx2"
               PROVE  /\ host.built /\ host.avx2 /\ host.saves_ymm
                      /\ env # "1"
    BY DEF KernelRunsHere
  <2>1. Resolved = "avx2"
    BY DEF BatchInv, CallAccounted
  <2>2. host.built /\ ~ForceScalarEnv /\ CpuSupportsAvx2
    BY <2>1 DEF Resolved
  <2>3. host \in Host /\ (host.builtin => host.saves_ymm)
    BY ConstantsAssumption DEF BatchInv, TypeOK
  <2>4. host.avx2 /\ host.saves_ymm
    BY <2>2, <2>3 DEF CpuSupportsAvx2, Host
  <2>5. env # "1"
    BY <2>2 DEF ForceScalarEnv
  <2> QED
    BY <2>2, <2>4, <2>5
<1> QED
  BY <1>1, Invariance, PTL

(* The pointer leaves the trampoline once, however many threads make the   *)
(* first call at the same time.                                            *)
THEOREM ResolvedForGood == Spec => ResolvedOnceAndForAll
<1>1. ASSUME BatchInv, [Next]_vars, impl # "trampoline" PROVE impl' = impl
  <2>1. CASE \E c \in Callers : Publish(c)
    BY <1>1, <2>1 DEF Publish, BatchInv, CallAccounted
  <2>2. CASE ~\E c \in Callers : Publish(c)
    BY <1>1, <2>2
       DEF Next, Step, vars, CallEmpty, Call, Resolve, RunGroup, RunOne, Advance
  <2> QED
    BY <2>1, <2>2
<1> QED
  BY <1>1, Invariance, PTL DEF Spec, ResolvedOnceAndForAll
=============================================================================

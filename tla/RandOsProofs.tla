---------------------------- MODULE RandOsProofs ----------------------------
(***************************************************************************)
(* Proofs about RandOs for any chain of sources, any request and any caps. *)
(***************************************************************************)
EXTENDS RandOs, TLAPS

(* What a source may deliver is some, and no more than is missing. *)
LEMMA DeliveryFits ==
  ASSUME n \in Nat, off \in Nat, off < n, NEW m \in Delivered
  PROVE  m \in Nat /\ 1 <= m /\ off + m <= n
<1>1. Ask \in Nat /\ 1 <= Ask /\ off + Ask <= n
  BY ConstantsAssumption DEF Ask
<1> QED
  BY <1>1 DEF Delivered

LEMMA InitInv == Init => OsInv
  BY ConstantsAssumption
     DEF Init, OsInv, TypeOK, HeadFilled, SuccessIsComplete, NoDescriptorLeak

LEMMA CallInv == ASSUME OsInv, Call PROVE OsInv'
<1> USE ConstantsAssumption DEF Call, OsInv
<1>1. Len(chain) \in Nat /\ 1 <= Len(chain)
  BY DEF TypeOK
<1>2. n' \in Nat
  OBVIOUS
<1>3. CASE n' = 0
  BY <1>1, <1>3 DEF TypeOK, HeadFilled, SuccessIsComplete, NoDescriptorLeak
<1>4. CASE n' # 0
  BY <1>1, <1>2, <1>4 DEF TypeOK, HeadFilled, SuccessIsComplete, NoDescriptorLeak
<1> QED
  BY <1>3, <1>4

LEMMA DeliverInv == ASSUME OsInv, Deliver PROVE OsInv'
<1> USE ConstantsAssumption DEF OsInv
<1>1. /\ at # 0 /\ n \in Nat /\ off \in Nat /\ off < n
      /\ (1 .. off) \subseteq filled /\ filled \in SUBSET (1 .. n)
  BY DEF Deliver, Ready, HeadFilled, TypeOK
<1>2. PICK m \in Delivered :
        /\ filled' = filled \cup (off + 1) .. (off + m)
        /\ IF Finished(off + m)
           THEN Return("ok") /\ Close
           ELSE off' = off + m /\ UNCHANGED <<chain, at, n, fd, ret>>
  BY DEF Deliver
<1>3. m \in Nat /\ 1 <= m /\ off + m <= n
  BY <1>1, DeliveryFits
<1>4. filled' \in SUBSET (1 .. n) /\ (1 .. (off + m)) \subseteq filled'
  BY <1>1, <1>2, <1>3
<1>5. CASE Finished(off + m)
  <2>1. off + m = n
    BY <1>1, <1>3, <1>5 DEF Finished
  <2>2. chain' = chain /\ at' = 0 /\ off' = 0 /\ ret' = "ok" /\ n' = n /\ fd' = 0
    BY <1>2, <1>5 DEF Return, Close
  <2>3. filled' = 1 .. n
    BY <1>4, <2>1
  <2> QED
    BY <1>1, <1>4, <2>2, <2>3
       DEF TypeOK, HeadFilled, SuccessIsComplete, NoDescriptorLeak
<1>6. CASE ~Finished(off + m)
  <2>1. off + m < n
    BY <1>1, <1>3, <1>6 DEF Finished
  <2>2. chain' = chain /\ off' = off + m /\ at' = at /\ n' = n /\ fd' = fd /\ ret' = ret
    BY <1>2, <1>6
  <2> QED
    BY <1>1, <1>3, <1>4, <2>1, <2>2
       DEF TypeOK, HeadFilled, SuccessIsComplete, NoDescriptorLeak
<1> QED
  BY <1>5, <1>6

LEMMA FailInv == ASSUME OsInv, Fail PROVE OsInv'
<1> USE ConstantsAssumption DEF Fail, OsInv, Close
<1>1. Len(chain) \in Nat /\ at \in 0 .. Len(chain) /\ n \in Nat /\ off < n /\ off \in Nat
  BY DEF TypeOK, HeadFilled
<1>2. CASE at < Len(chain)
  BY <1>1, <1>2 DEF FallBack, TypeOK, HeadFilled, SuccessIsComplete, NoDescriptorLeak
<1>3. CASE ~(at < Len(chain))
  BY <1>1, <1>3 DEF Return, TypeOK, HeadFilled, SuccessIsComplete, NoDescriptorLeak
<1> QED
  BY <1>2, <1>3

(* OsInv is an invariant of the specification. *)
THEOREM Invariance == Spec => []OsInv
<1>1. OsInv /\ [Next]_vars => OsInv'
  <2> SUFFICES ASSUME OsInv, [Next]_vars PROVE OsInv'
    OBVIOUS
  <2>1. CASE Open
    BY <2>1 DEF Open, OsInv, TypeOK, HeadFilled, SuccessIsComplete, NoDescriptorLeak
  <2>2. CASE UNCHANGED vars
    BY <2>2 DEF vars, OsInv, TypeOK, HeadFilled, SuccessIsComplete, NoDescriptorLeak
  <2> QED
    BY <2>1, <2>2, CallInv, DeliverInv, FailInv DEF Next, Interrupted
<1> QED
  BY <1>1, InitInv, PTL DEF Spec

(* Types, and no source writes past the end of the caller's buffer. *)
THEOREM TypeCorrect == Spec => []TypeOK
<1>1. OsInv => TypeOK
  BY DEF OsInv
<1> QED
  BY <1>1, Invariance, PTL

(* chronoid_os_random_bytes returns 0 only when every byte is filled. *)
THEOREM CompleteOnSuccess == Spec => []SuccessIsComplete
<1>1. OsInv => SuccessIsComplete
  BY DEF OsInv
<1> QED
  BY <1>1, Invariance, PTL

(* chronoid_random_via_urandom closes what it opens on every path. *)
THEOREM DescriptorClosed == Spec => []NoDescriptorLeak
<1>1. OsInv => NoDescriptorLeak
  BY DEF OsInv
<1> QED
  BY <1>1, Invariance, PTL
=============================================================================

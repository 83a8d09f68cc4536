------------------------- MODULE KsuidSequenceProofs -------------------------
(***************************************************************************)
(* Proofs about KsuidSequence for every counter width and every seed.      *)
(***************************************************************************)
EXTENDS KsuidSequence, TLAPS

(* Writing a counter value that fits its field stores that value. *)
LEMMA ApplyFits ==
  ASSUME NEW id \in Ksuid, NEW n \in Tails
  PROVE  /\ ApplyCount(id, n) = [prefix |-> id.prefix, tail |-> n]
         /\ ApplyCount(id, n) \in Ksuid
<1>1. n % CountSpan = n
  BY SpanAssumption DEF Tails, CountMax
<1>2. ApplyCount(id, n) = [prefix |-> id.prefix, tail |-> n]
  BY <1>1 DEF ApplyCount, Ksuid
<1> QED
  BY <1>2 DEF Ksuid

(* Two identifiers of one prefix are ordered by their counters. *)
LEMMA KeyByTail ==
  ASSUME NEW a \in Ksuid, NEW b \in Ksuid, a.prefix = b.prefix
  PROVE  /\ Key(a) \in Nat
         /\ a.tail <= b.tail <=> Key(a) <= Key(b)
<1>0. a.prefix \in Prefixes /\ a.tail \in Tails /\ b.tail \in Tails
  BY DEF Ksuid
<1>1. /\ a.prefix \in Nat /\ a.tail \in Nat /\ b.tail \in Nat
      /\ CountSpan \in Nat
  <2>1. a.prefix \in Nat
    BY <1>0, SpanAssumption, Zenon
  <2>2. ASSUME NEW n \in Tails PROVE n \in Nat
    BY SpanAssumption DEF Tails, CountMax
  <2> QED
    BY <1>0, <2>1, <2>2, SpanAssumption
<1>2. a.prefix * CountSpan \in Nat
  BY <1>1
<1> QED
  BY <1>1, <1>2 DEF Key

(* Issuing the next identifier extends the leading ones by one. *)
LEMMA LeadingGrows ==
  ASSUME NEW p, NEW n \in Nat
  PROVE  Leading(p, n + 1) = Leading(p, n) \cup {[prefix |-> p, tail |-> n]}
<1> DEFINE R(k) == [prefix |-> p, tail |-> k]
           A == 0 .. (n - 1)
<1>1. 0 .. (n + 1 - 1) = A \cup {n}
  OBVIOUS
<1>2. /\ Leading(p, n + 1) = {R(k) : k \in A \cup {n}}
      /\ Leading(p, n) = {R(k) : k \in A}
  BY <1>1 DEF Leading
<1> HIDE DEF R, A
<1>3. {R(k) : k \in A \cup {n}} = {R(k) : k \in A} \cup {R(n)}
  OBVIOUS
<1> QED
  BY <1>2, <1>3 DEF R

-----------------------------------------------------------------------------
LEMMA InitInv == Init => SequenceInv
<1> SUFFICES ASSUME Init PROVE SequenceInv
  OBVIOUS
<1>1. PICK seed \in Ksuid : s = Seeded(seed)
  BY DEF Init
<1>2. s \in [seed : Ksuid, count : 0 .. CountSpan] /\ s.count = 0
  BY <1>1, SpanAssumption DEF Seeded
<1>3. Leading(s.seed.prefix, s.count) = {}
  <2>1. 0 .. (s.count - 1) = {}
    BY <1>2
  <2> QED
    BY <2>1 DEF Leading
<1> QED
  BY <1>2, <1>3 DEF Init, SequenceInv, TypeOK, IssuedSoFar, BandPlaced, NoBand

LEMMA StepInv == SequenceInv /\ [Next]_vars => SequenceInv'
<1> SUFFICES ASSUME SequenceInv, [Next]_vars PROVE SequenceInv'
  OBVIOUS
<1> USE SpanAssumption
<1>1. CASE SequenceInit
  <2>1. PICK seed \in Ksuid : s' = Seeded(seed)
    BY <1>1 DEF SequenceInit
  <2>2. s' \in [seed : Ksuid, count : 0 .. CountSpan] /\ s'.count = 0
    BY <2>1 DEF Seeded
  <2>3. Leading(s'.seed.prefix, s'.count) = {}
    <3>1. 0 .. (s'.count - 1) = {}
      BY <2>2
    <3> QED
      BY <3>1 DEF Leading
  <2> QED
    BY <1>1, <2>2, <2>3
    DEF SequenceInit, SequenceInv, TypeOK, IssuedSoFar, BandPlaced, NoBand
<1>2. CASE SequenceNextOk
  <2>1. s.count \in Tails /\ s.seed \in Ksuid /\ s.count \in Nat
    BY <1>2 DEF SequenceNextOk, Exhausted, SequenceInv, TypeOK, Tails, CountMax
  <2>2. /\ out' = [prefix |-> s.seed.prefix, tail |-> s.count]
        /\ out' \in Ksuid
    BY <1>2, <2>1, ApplyFits DEF SequenceNextOk
  <2>3. /\ s' \in [seed : Ksuid, count : 0 .. CountSpan]
        /\ s'.seed = s.seed
        /\ s'.count = s.count + 1
    BY <1>2, <2>1 DEF SequenceNextOk, SequenceInv, TypeOK, Tails, CountMax
  <2>4. issued' = Leading(s.seed.prefix, s.count + 1)
    BY <1>2, <2>1, <2>2, LeadingGrows DEF SequenceNextOk, SequenceInv, IssuedSoFar
  <2>5. turn' \in {0, 1}
    BY <1>2 DEF SequenceNextOk, SequenceInv, TypeOK
  <2>6. /\ band' \in [lo : Ksuid \cup {NoId}, hi : Ksuid \cup {NoId}, used : BOOLEAN]
        /\ band'.lo = band.lo /\ band'.hi = band.hi /\ band'.used
    BY <1>2 DEF SequenceNextOk, SequenceInv, TypeOK
  <2>7. issued' \in SUBSET Ksuid
    BY <1>2, <2>2 DEF SequenceNextOk, SequenceInv, TypeOK
  <2>8. ret' = "OK"
    BY <1>2 DEF SequenceNextOk
  <2>9. TypeOK'
    BY <2>2, <2>3, <2>5, <2>6, <2>7, <2>8 DEF TypeOK
  <2>10. IssuedSoFar'
    BY <2>1, <2>2, <2>3, <2>4, <2>8 DEF IssuedSoFar
  <2>11. BandPlaced'
    BY <2>1, <2>3, <2>6
    DEF SequenceInv, BandPlaced, LowCount, CountMax, Ksuid, Tails
  <2> QED
    BY <2>9, <2>10, <2>11 DEF SequenceInv
<1>3. CASE SequenceNextExhausted
  BY <1>3
  DEF SequenceNextExhausted, Exhausted, SequenceInv, TypeOK, IssuedSoFar,
      BandPlaced, LowCount, CountMax
<1>4. CASE SequenceBounds
  <2>1. /\ LowCount \in Tails
        /\ CountMax \in Tails
        /\ s.seed \in Ksuid
        /\ s' = s
        /\ LowCount' = LowCount
    BY <1>4 DEF SequenceBounds, SequenceInv, TypeOK, LowCount, Tails, CountMax
  <2>2. /\ band'.lo = [prefix |-> s.seed.prefix, tail |-> LowCount]
        /\ band'.lo \in Ksuid
        /\ band'.hi = [prefix |-> s.seed.prefix, tail |-> CountMax]
        /\ band'.hi \in Ksuid
        /\ band'.used = FALSE
        /\ band' = [lo |-> band'.lo, hi |-> band'.hi, used |-> FALSE]
    BY <1>4, <2>1, ApplyFits DEF SequenceBounds
  <2>3. TypeOK'
    BY <1>4, <2>2 DEF SequenceBounds, SequenceInv, TypeOK
  <2>4. IssuedSoFar'
    BY <1>4 DEF SequenceBounds, SequenceInv, IssuedSoFar
  <2>5. BandPlaced'
    BY <2>1, <2>2 DEF BandPlaced
  <2> QED
    BY <2>3, <2>4, <2>5 DEF SequenceInv
<1>5. CASE UNCHANGED vars
  BY <1>5 DEF vars, SequenceInv, TypeOK, IssuedSoFar, BandPlaced, LowCount
<1> QED
  BY <1>1, <1>2, <1>3, <1>4, <1>5 DEF Next

LEMMA Invariance == Spec => []SequenceInv
  BY InitInv, StepInv, PTL DEF Spec

-----------------------------------------------------------------------------
(* Every variable keeps its type; the counter never passes one beyond the  *)
(* field it is written to.                                                 *)
THEOREM TypeCorrect == Spec => []TypeOK
  BY Invariance, PTL DEF SequenceInv

(* The sequence reports exhaustion only after handing out every identifier *)
(* of its prefix.                                                          *)
THEOREM CompleteWhenExhausted == Spec => []ExhaustedIsComplete
<1>1. SequenceInv => ExhaustedIsComplete
  BY SpanAssumption DEF SequenceInv, IssuedSoFar, ExhaustedIsComplete, Tails, CountMax
<1> QED
  BY <1>1, Invariance, PTL

(* An envelope brackets everything issued after it was taken. *)
THEOREM BandsBracket == Spec => []BandBrackets
<1>1. SequenceInv => BandBrackets
  <2> SUFFICES ASSUME SequenceInv, band.lo # NoId
               PROVE  /\ Key(band.lo) <= Key(band.hi)
                      /\ band.used => Key(band.lo) <= Key(out) /\ Key(out) <= Key(band.hi)
                      /\ ~band.used /\ ret = "ERR_EXHAUSTED" => band.lo = out
    BY DEF BandBrackets
  <2> USE SpanAssumption
  <2>1. /\ band.lo \in Ksuid
        /\ band.hi = [prefix |-> s.seed.prefix, tail |-> CountMax]
        /\ band.hi \in Ksuid
        /\ band.lo.prefix = s.seed.prefix
        /\ band.lo.tail <= CountMax
    BY DEF SequenceInv, TypeOK, BandPlaced, Ksuid, Tails, CountMax
  <2>2. Key(band.lo) <= Key(band.hi)
    BY <2>1, KeyByTail
  <2>3. ASSUME band.used
        PROVE  Key(band.lo) <= Key(out) /\ Key(out) <= Key(band.hi)
    <3>1. /\ out \in Ksuid
          /\ out = [prefix |-> s.seed.prefix, tail |-> s.count - 1]
          /\ band.lo.tail <= out.tail
          /\ out.tail <= CountMax
      BY <2>1, <2>3
      DEF SequenceInv, TypeOK, IssuedSoFar, BandPlaced, Ksuid, Tails, CountMax
    <3> QED
      BY <2>1, <3>1, KeyByTail
  <2>4. ASSUME ~band.used, ret = "ERR_EXHAUSTED"
        PROVE  band.lo = out
    <3>1. out = [prefix |-> s.seed.prefix, tail |-> CountMax]
      BY <2>4 DEF SequenceInv, IssuedSoFar, CountMax
    <3>2. band.lo.tail = CountMax
      BY <2>4 DEF SequenceInv, IssuedSoFar, BandPlaced, LowCount, CountMax
    <3>3. band.lo = [prefix |-> band.lo.prefix, tail |-> band.lo.tail]
      BY <2>1 DEF Ksuid
    <3> QED
      BY <2>1, <3>1, <3>2, <3>3
  <2> QED
    BY <2>2, <2>3, <2>4
<1> QED
  BY <1>1, Invariance, PTL

(* The sequence implements MonotonicSource. *)
THEOREM PromiseHolds == Spec => PromiseKept
<1> USE DEF Promise!vars, Promise!None
<1>1. Init => Promise!Init
  BY DEF Init, Promise!Init
<1>2. SequenceInv /\ [Next]_vars => [Promise!Next]_(Promise!vars)
  <2> SUFFICES ASSUME SequenceInv, [Next]_vars
               PROVE  [Promise!Next]_(Promise!vars)
    OBVIOUS
  <2>1. CASE SequenceInit
    BY <2>1 DEF SequenceInit, Promise!Next, Promise!Restart
  <2>2. CASE SequenceNextOk
    <3> USE SpanAssumption
    <3>1. s.count \in Tails /\ s.seed \in Ksuid /\ s.count \in Nat
      BY <2>2 DEF SequenceNextOk, Exhausted, SequenceInv, TypeOK, Tails, CountMax
    <3>2. /\ out' = [prefix |-> s.seed.prefix, tail |-> s.count]
          /\ out' \in Ksuid
          /\ out' # NoId
      BY <2>2, <3>1, ApplyFits DEF SequenceNextOk, Ksuid, NoId
    <3>3. Key(out') \in Nat
      BY <3>2, KeyByTail
    <3>4. out # NoId => Key(out) < Key(out')
      <4>1. SUFFICES ASSUME out # NoId PROVE Key(out) < Key(out')
        OBVIOUS
      <4>2. /\ out = [prefix |-> s.seed.prefix, tail |-> s.count - 1]
            /\ out \in Ksuid
        BY <4>1 DEF SequenceInv, TypeOK, IssuedSoFar
      <4>3. out.prefix = out'.prefix /\ ~(out'.tail <= out.tail)
        BY <3>1, <3>2, <4>2
      <4> QED
        BY <3>2, <4>2, <4>3, KeyByTail
    <3>5. turn' = 1 - turn
      BY <2>2 DEF SequenceNextOk
    <3> QED
      BY <3>2, <3>3, <3>4, <3>5 DEF Promise!Next, Promise!Issue
  <2>3. CASE SequenceNextExhausted
    BY <2>3 DEF SequenceNextExhausted
  <2>4. CASE SequenceBounds
    BY <2>4 DEF SequenceBounds
  <2>5. CASE UNCHANGED vars
    BY <2>5 DEF vars
  <2> QED
    BY <2>1, <2>2, <2>3, <2>4, <2>5 DEF Next
<1> QED
  BY <1>1, <1>2, Invariance, PTL DEF Spec, PromiseKept, Promise!Spec
=============================================================================

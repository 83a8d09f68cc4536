---------------------------- MODULE FormatsProofs ----------------------------
(***************************************************************************)
(* Every property of module Formats, for all widths, alphabets' strings    *)
(* and samples that its assumptions admit: each is an invariant of the     *)
(* component's own loop (ConversionInv, TranslationInv, CallInv,           *)
(* ConstructsExactly, LayoutInv), and the rest is arithmetic of numerals.  *)
(***************************************************************************)
EXTENDS Formats, Numerals, TLAPS, WellFoundedInduction

-----------------------------------------------------------------------------
(* Induction and recursion: the library's induction theorems take an       *)
(* operator as a parameter, so induction is done here with sets.           *)

(* Induction over the natural numbers, for a set of them: the form of it   *)
(* that a set, unlike an operator, can be put into.                        *)
LEMMA SetInduction ==
  ASSUME NEW S \in SUBSET Nat, 0 \in S, \A k \in S : k + 1 \in S
  PROVE  S = Nat
<1> SUFFICES ASSUME S # Nat PROVE FALSE
  OBVIOUS
<1> DEFINE R == OpToRel(<, Nat)
           T == Nat \ S
<1>1. T \subseteq Nat /\ T # {}
  OBVIOUS
<1>2. \A a, b \in Nat : a < b => <<a, b>> \in R
  BY DEF OpToRel
<1>3. IsWellFoundedOn(R, Nat)
  BY NatLessThanWellFounded
<1> HIDE DEF R
<1>4. PICK x \in T : \A y \in T : ~(<<y, x>> \in R)
  <2> HIDE DEF T
  <2> QED
    BY <1>1, <1>3, WFMin
<1>5. x \in Nat /\ x # 0 /\ x \notin S
  OBVIOUS
<1>6. x - 1 \in Nat /\ x - 1 < x /\ x - 1 + 1 = x
  BY <1>5
<1>7. x - 1 \in S
  BY <1>2, <1>4, <1>5, <1>6
<1> QED
  BY <1>5, <1>6, <1>7

(* g is the step of a recursion with values in A: from k and the value before. *)
StepOn(g, A) == g \in [Nat \X A -> A]
(* h is what a recursion over 0 .. m computes from a with the step g. *)
Iterates(h, m, A, a, g) ==
  /\ h \in [0 .. m -> A]
  /\ h[0] = a
  /\ \A k \in 1 .. m : h[k] = g[<< k, h[k - 1] >>]

(* There is a function with the values of m steps: why the recursive       *)
(* functions of the model (TrimmedPasses, ColumnPasses, Prefixes, Powers)  *)
(* are defined by their equations.                                         *)
LEMMA RecursionExists ==
  ASSUME NEW A, NEW a \in A, NEW g, StepOn(g, A), NEW m \in Nat
  PROVE  \E h : Iterates(h, m, A, a, g)
<1> DEFINE S == {l \in Nat : \E h : Iterates(h, l, A, a, g)}
<1>1. 0 \in S
  <2>1. Iterates([k \in 0 .. 0 |-> a], 0, A, a, g)
    BY DEF Iterates
  <2> QED
    BY <2>1
<1>2. ASSUME NEW l \in S PROVE l + 1 \in S
  <2>1. l \in Nat
    OBVIOUS
  <2>2. PICK h : Iterates(h, l, A, a, g)
    OBVIOUS
  <2> DEFINE h2 == [k \in 0 .. (l + 1) |-> IF k <= l THEN h[k] ELSE g[<< l + 1, h[l] >>]]
  <2>3. g[<< l + 1, h[l] >>] \in A
    <3>1. << l + 1, h[l] >> \in Nat \X A
      BY <2>1, <2>2 DEF Iterates
    <3> QED
      BY <3>1 DEF StepOn
  <2>4. h2 \in [0 .. (l + 1) -> A] /\ h2[0] = a
    BY <2>1, <2>2, <2>3 DEF Iterates
  <2>5. ASSUME NEW k \in 1 .. (l + 1) PROVE h2[k] = g[<< k, h2[k - 1] >>]
    <3>1. k \in Int /\ 1 <= k /\ k <= l + 1 /\ k - 1 \in 0 .. l
      BY <2>1
    <3>2. h2[k - 1] = h[k - 1]
      BY <2>1, <3>1
    <3>3. CASE k <= l
      <4>1. k \in 1 .. l /\ h2[k] = h[k]
        BY <2>1, <3>1, <3>3
      <4> QED
        BY <2>2, <3>2, <4>1 DEF Iterates
    <3>4. CASE k = l + 1
      <4>1. h2[k] = g[<< l + 1, h[l] >>] /\ k - 1 = l
        BY <2>1, <3>1, <3>4
      <4> QED
        BY <3>2, <3>4, <4>1
    <3> QED
      BY <2>1, <3>1, <3>3, <3>4
  <2> HIDE DEF h2
  <2>6. Iterates(h2, l + 1, A, a, g)
    BY <2>4, <2>5 DEF Iterates
  <2> QED
    BY <2>1, <2>6
<1>3. S = Nat
  <2>1. S \in SUBSET Nat
    OBVIOUS
  <2> HIDE DEF S
  <2> QED
    BY <1>1, <1>2, <2>1, SetInduction
<1> QED
  BY <1>3

(* A function that obeys the equations of g as long as its values are in A *)
(* has all its values there.                                               *)
LEMMA IteratesTyped ==
  ASSUME NEW m \in Nat, NEW A, NEW a \in A, NEW g, StepOn(g, A), NEW s,
         s = [k \in 0 .. m |-> s[k]], s[0] = a,
         \A k \in 1 .. m : s[k - 1] \in A => s[k] = g[<< k, s[k - 1] >>]
  PROVE  Iterates(s, m, A, a, g)
<1> DEFINE S == {k \in Nat : k <= m => s[k] \in A}
<1>1. 0 \in S
  OBVIOUS
<1>2. ASSUME NEW k \in S PROVE k + 1 \in S
  <2>1. k \in Nat /\ k + 1 \in Nat /\ (k + 1) - 1 = k
    OBVIOUS
  <2>2. CASE k + 1 <= m
    <3>1. k + 1 \in 1 .. m /\ k <= m
      BY <2>1, <2>2
    <3>2. s[k] \in A
      BY <3>1
    <3>3. s[k + 1] = g[<< k + 1, s[k] >>]
      BY <2>1, <3>1, <3>2
    <3>4. << k + 1, s[k] >> \in Nat \X A
      BY <2>1, <3>2
    <3>5. s[k + 1] \in A
      BY <3>3, <3>4 DEF StepOn
    <3> QED
      BY <2>1, <3>5
  <2> QED
    BY <2>1, <2>2
<1>3. S = Nat
  <2>1. S \in SUBSET Nat
    OBVIOUS
  <2> HIDE DEF S
  <2> QED
    BY <1>1, <1>2, <2>1, SetInduction
<1>4. ASSUME NEW k \in 0 .. m PROVE s[k] \in A
  <2>1. k \in S /\ k <= m
    <3> HIDE DEF S
    <3> QED
      BY <1>3
  <2> QED
    BY <2>1
<1>5. \A k \in 1 .. m : s[k] = g[<< k, s[k - 1] >>]
  <2>1. \A k \in 1 .. m : k - 1 \in 0 .. m
    OBVIOUS
  <2> HIDE DEF S
  <2> QED
    BY <1>4, <2>1
<1>6. s \in [0 .. m -> A]
  <2>1. PICK f : f = [k \in 0 .. m |-> s[k]]
    OBVIOUS
  <2>2. f \in [0 .. m -> A]
    BY <1>4, <2>1
  <2> QED
    BY <2>1, <2>2
<1> QED
  BY <1>5, <1>6 DEF Iterates

-----------------------------------------------------------------------------
(* The equations of Prefixes: what each digit adds to the number read so   *)
(* far.                                                                    *)
LEMMA PrefixesUnfold ==
  ASSUME NEW b \in Nat, NEW s \in Seq(Nat)
  PROVE  /\ Prefixes(s, b) \in [0 .. Len(s) -> Nat]
         /\ Prefixes(s, b)[0] = 0
         /\ \A k \in 1 .. Len(s) : Prefixes(s, b)[k] = Prefixes(s, b)[k - 1] * b + s[k]
<1>0. Len(s) \in Nat
  OBVIOUS
<1> DEFINE m == Len(s)
           g == [x \in Nat \X Nat |-> x[2] * b + (IF x[1] \in 1 .. m THEN s[x[1]] ELSE 0)]
           Def(h) == [k \in 0 .. m |-> IF k = 0 THEN 0 ELSE h[k - 1] * b + s[k]]
           v == Prefixes(s, b)
<1>1. \A k \in 1 .. m : s[k] \in Nat
  OBVIOUS
<1> HIDE DEF m
<1>2. StepOn(g, Nat)
  <2>1. ASSUME NEW x \in Nat \X Nat
        PROVE  x[2] * b + (IF x[1] \in 1 .. m THEN s[x[1]] ELSE 0) \in Nat
    <3>1. x[2] \in Nat /\ (IF x[1] \in 1 .. m THEN s[x[1]] ELSE 0) \in Nat
      BY <1>1
    <3>2. \A p, q, r \in Nat : p * q + r \in Nat
      OBVIOUS
    <3> QED
      BY <3>1, <3>2
  <2> QED
    BY <2>1 DEF StepOn
<1>3. \A k \in 1 .. m, p \in Nat : g[<< k, p >>] = p * b + s[k]
  <2>1. ASSUME NEW k \in 1 .. m, NEW p \in Nat PROVE g[<< k, p >>] = p * b + s[k]
    <3>1. << k, p >> \in Nat \X Nat
      BY <1>0 DEF m
    <3> QED
      BY <3>1
  <2> QED
    BY <2>1
<1> HIDE DEF g
<1>4. PICK h : Iterates(h, m, Nat, 0, g)
  BY <1>0, <1>2, RecursionExists DEF m
<1>5. h = Def(h)
  <2>1. ASSUME NEW k \in 0 .. m
        PROVE  h[k] = IF k = 0 THEN 0 ELSE h[k - 1] * b + s[k]
    <3>1. CASE k = 0
      BY <1>4, <3>1 DEF Iterates
    <3>2. CASE k # 0
      <4>1. k \in 1 .. m /\ k - 1 \in 0 .. m
        BY <1>0, <3>2 DEF m
      <4>2. h[k - 1] \in Nat /\ h[k] = g[<< k, h[k - 1] >>]
        BY <1>4, <4>1 DEF Iterates
      <4> QED
        BY <1>3, <3>2, <4>1, <4>2
    <3> QED
      BY <3>1, <3>2
  <2>2. h = [k \in 0 .. m |-> h[k]]
    BY <1>4 DEF Iterates
  <2> QED
    BY <2>1, <2>2
<1>6. v = Def(v)
  <2>1. v = CHOOSE f : f = Def(f)
    BY DEF Prefixes, m
  <2> HIDE DEF Def, v
  <2> QED
    BY <1>5, <2>1
<1> HIDE DEF v
<1>7. v[0] = 0 /\ \A k \in 1 .. m : v[k] = v[k - 1] * b + s[k]
  <2>1. \A k \in 0 .. m : v[k] = IF k = 0 THEN 0 ELSE v[k - 1] * b + s[k]
    BY <1>6
  <2> QED
    BY <1>0, <2>1 DEF m
<1>8. v = [k \in 0 .. m |-> v[k]]
  BY <1>6
<1>9. Iterates(v, m, Nat, 0, g)
  <2>1. \A k \in 1 .. m : v[k - 1] \in Nat => v[k] = g[<< k, v[k - 1] >>]
    BY <1>3, <1>7
  <2>2. m \in Nat /\ 0 \in Nat /\ v[0] = 0
    BY <1>0, <1>7 DEF m
  <2> HIDE DEF Def
  <2> QED
    BY <1>2, <1>8, <2>1, <2>2, IteratesTyped
<1> QED
  BY <1>7, <1>9 DEF Iterates, m, v

(* The equations of Powers. *)
LEMMA PowersUnfold ==
  ASSUME NEW b \in Nat, NEW m \in Nat
  PROVE  /\ Powers(b, m) \in [0 .. m -> Nat]
         /\ Powers(b, m)[0] = 1
         /\ \A k \in 1 .. m : Powers(b, m)[k] = Powers(b, m)[k - 1] * b
<1> DEFINE g == [x \in Nat \X Nat |-> x[2] * b]
           Def(h) == [k \in 0 .. m |-> IF k = 0 THEN 1 ELSE h[k - 1] * b]
           v == Powers(b, m)
<1>2. StepOn(g, Nat)
  BY DEF StepOn
<1>3. \A k \in 1 .. m, p \in Nat : g[<< k, p >>] = p * b
  <2>1. ASSUME NEW k \in 1 .. m, NEW p \in Nat PROVE g[<< k, p >>] = p * b
    <3>1. << k, p >> \in Nat \X Nat
      OBVIOUS
    <3> QED
      BY <3>1
  <2> QED
    BY <2>1
<1> HIDE DEF g
<1>4. PICK h : Iterates(h, m, Nat, 1, g)
  BY <1>2, RecursionExists
<1>5. h = Def(h)
  <2>1. ASSUME NEW k \in 0 .. m
        PROVE  h[k] = IF k = 0 THEN 1 ELSE h[k - 1] * b
    <3>1. CASE k = 0
      BY <1>4, <3>1 DEF Iterates
    <3>2. CASE k # 0
      <4>1. k \in 1 .. m /\ k - 1 \in 0 .. m
        BY <3>2
      <4>2. h[k - 1] \in Nat /\ h[k] = g[<< k, h[k - 1] >>]
        BY <1>4, <4>1 DEF Iterates
      <4> QED
        BY <1>3, <3>2, <4>1, <4>2
    <3> QED
      BY <3>1, <3>2
  <2>2. h = [k \in 0 .. m |-> h[k]]
    BY <1>4 DEF Iterates
  <2> QED
    BY <2>1, <2>2
<1>6. v = Def(v)
  <2>1. v = CHOOSE f : f = Def(f)
    BY DEF Powers
  <2> HIDE DEF Def, v
  <2> QED
    BY <1>5, <2>1
<1> HIDE DEF v
<1>7. v[0] = 1 /\ \A k \in 1 .. m : v[k] = v[k - 1] * b
  <2>1. \A k \in 0 .. m : v[k] = IF k = 0 THEN 1 ELSE v[k - 1] * b
    BY <1>6
  <2> QED
    BY <2>1
<1>8. v = [k \in 0 .. m |-> v[k]]
  BY <1>6
<1>9. Iterates(v, m, Nat, 1, g)
  <2>1. \A k \in 1 .. m : v[k - 1] \in Nat => v[k] = g[<< k, v[k - 1] >>]
    BY <1>3, <1>7
  <2>2. m \in Nat /\ 1 \in Nat /\ v[0] = 1
    BY <1>7
  <2> HIDE DEF Def
  <2> QED
    BY <1>2, <1>8, <2>1, <2>2, IteratesTyped
<1> QED
  BY <1>7, <1>9 DEF Iterates, v

-----------------------------------------------------------------------------
(* Numerals: what Value, Prefixes and Power of module Numerals compute. *)

(* A power does not depend on how many more are tabulated. *)
LEMMA PowersSame ==
  ASSUME NEW b \in Nat, NEW m \in Nat, NEW j \in 0 .. m
  PROVE  Powers(b, m)[j] = Power(b, j)
<1> DEFINE S == {k \in Nat : k <= j => Powers(b, m)[k] = Powers(b, j)[k]}
<1>0. /\ \A k \in 1 .. m : Powers(b, m)[k] = Powers(b, m)[k - 1] * b
      /\ \A k \in 1 .. j : Powers(b, j)[k] = Powers(b, j)[k - 1] * b
      /\ Powers(b, m)[0] = 1 /\ Powers(b, j)[0] = 1
  <2>1. j \in Nat
    OBVIOUS
  <2> QED
    BY <2>1, PowersUnfold
<1>1. 0 \in S
  BY <1>0
<1>2. ASSUME NEW k \in S PROVE k + 1 \in S
  <2>1. k \in Nat /\ k + 1 \in Nat /\ (k + 1) - 1 = k
    OBVIOUS
  <2>2. CASE k + 1 <= j
    <3>1. k + 1 \in 1 .. m /\ k + 1 \in 1 .. j /\ k <= j
      BY <2>1, <2>2
    <3>2. Powers(b, m)[k] = Powers(b, j)[k]
      BY <3>1
    <3>3. Powers(b, m)[k + 1] = Powers(b, m)[k] * b /\ Powers(b, j)[k + 1] = Powers(b, j)[k] * b
      BY <1>0, <2>1, <3>1
    <3> QED
      BY <2>1, <3>2, <3>3
  <2> QED
    BY <2>1, <2>2
<1>3. S = Nat
  <2>1. S \in SUBSET Nat
    OBVIOUS
  <2> HIDE DEF S
  <2> QED
    BY <1>1, <1>2, <2>1, SetInduction
<1> QED
  BY <1>3 DEF Power

(* One more digit multiplies the number of numerals by the base. *)
LEMMA PowerStep ==
  ASSUME NEW b \in Nat
  PROVE  /\ Power(b, 0) = 1
         /\ \A m \in Nat : Power(b, m) \in Nat /\ Power(b, m + 1) = Power(b, m) * b
<1>1. Power(b, 0) = 1
  BY PowersUnfold DEF Power
<1>2. ASSUME NEW m \in Nat PROVE Power(b, m) \in Nat /\ Power(b, m + 1) = Power(b, m) * b
  <2>1. Power(b, m) \in Nat
    BY PowersUnfold DEF Power
  <2>2. m + 1 \in Nat /\ m + 1 \in 1 .. (m + 1) /\ (m + 1) - 1 = m /\ m \in 0 .. (m + 1)
    OBVIOUS
  <2>3. Powers(b, m + 1)[m + 1] = Powers(b, m + 1)[m] * b
    BY <2>2, PowersUnfold
  <2>4. Powers(b, m + 1)[m] = Power(b, m)
    BY <2>2, PowersSame
  <2> QED
    BY <2>1, <2>3, <2>4 DEF Power
<1> QED
  BY <1>1, <1>2

(* No power of a positive base is zero: nothing is divided by zero. *)
LEMMA PowerPositive ==
  ASSUME NEW b \in Nat \ {0}
  PROVE  \A m \in Nat : Power(b, m) \in Nat \ {0}
<1> DEFINE S == {k \in Nat : Power(b, k) \in Nat \ {0}}
<1>1. 0 \in S
  BY PowerStep
<1>2. ASSUME NEW k \in S PROVE k + 1 \in S
  <2>1. Power(b, k) \in Nat \ {0} /\ Power(b, k + 1) = Power(b, k) * b
    BY PowerStep
  <2>2. \A p, q \in Nat \ {0} : p * q \in Nat \ {0}
    OBVIOUS
  <2>3. Power(b, k + 1) \in Nat \ {0}
    BY <2>1, <2>2
  <2> QED
    BY <2>3
<1>3. S = Nat
  <2>1. S \in SUBSET Nat
    OBVIOUS
  <2> HIDE DEF S
  <2> QED
    BY <1>1, <1>2, <2>1, SetInduction
<1> QED
  BY <1>3

(* The next prefix of a numeral. *)
LEMMA PrefixStep ==
  ASSUME NEW b \in Nat, NEW s \in Seq(Nat), NEW k \in Nat, k + 1 <= Len(s)
  PROVE  /\ Prefixes(s, b)[k] \in Nat /\ s[k + 1] \in Nat
         /\ Prefixes(s, b)[k + 1] = Prefixes(s, b)[k] * b + s[k + 1]
<1>1. Len(s) \in Nat /\ k \in 0 .. Len(s) /\ k + 1 \in 1 .. Len(s) /\ (k + 1) - 1 = k
  OBVIOUS
<1>2. /\ Prefixes(s, b) \in [0 .. Len(s) -> Nat]
      /\ \A j \in 1 .. Len(s) : Prefixes(s, b)[j] = Prefixes(s, b)[j - 1] * b + s[j]
  BY PrefixesUnfold
<1>3. Prefixes(s, b)[k + 1] = Prefixes(s, b)[(k + 1) - 1] * b + s[k + 1]
  BY <1>1, <1>2
<1>4. Prefixes(s, b)[k + 1] = Prefixes(s, b)[k] * b + s[k + 1]
  BY <1>1, <1>3
<1>5. Prefixes(s, b)[k] \in Nat
  BY <1>1, <1>2
<1>6. s[k + 1] \in Nat
  BY <1>1
<1> QED
  BY <1>4, <1>5, <1>6

(* The empty prefix stands for zero. *)
LEMMA PrefixZero == \A b \in Nat, s \in Seq(Nat) : Prefixes(s, b)[0] = 0
  BY PrefixesUnfold

(* Numerals with the same first j digits have the same j-th prefix. *)
LEMMA PrefixesAgree ==
  ASSUME NEW b \in Nat, NEW s \in Seq(Nat), NEW t \in Seq(Nat), NEW j \in Nat,
         j <= Len(s), j <= Len(t), \A i \in 1 .. j : s[i] = t[i]
  PROVE  Prefixes(s, b)[j] = Prefixes(t, b)[j]
<1> DEFINE S == {k \in Nat : k <= j => Prefixes(s, b)[k] = Prefixes(t, b)[k]}
<1>0. /\ \A k \in 1 .. Len(s) : Prefixes(s, b)[k] = Prefixes(s, b)[k - 1] * b + s[k]
      /\ \A k \in 1 .. Len(t) : Prefixes(t, b)[k] = Prefixes(t, b)[k - 1] * b + t[k]
      /\ Prefixes(s, b)[0] = 0 /\ Prefixes(t, b)[0] = 0
      /\ Len(s) \in Nat /\ Len(t) \in Nat
  BY PrefixesUnfold
<1>1. 0 \in S
  BY <1>0
<1>2. ASSUME NEW k \in S PROVE k + 1 \in S
  <2>1. k \in Nat /\ k + 1 \in Nat /\ (k + 1) - 1 = k
    OBVIOUS
  <2>2. CASE k + 1 <= j
    <3>1. k + 1 \in 1 .. Len(s) /\ k + 1 \in 1 .. Len(t) /\ k + 1 \in 1 .. j /\ k <= j
      BY <1>0, <2>1, <2>2
    <3>2. Prefixes(s, b)[k] = Prefixes(t, b)[k] /\ s[k + 1] = t[k + 1]
      BY <3>1
    <3>3. /\ Prefixes(s, b)[k + 1] = Prefixes(s, b)[k] * b + s[k + 1]
          /\ Prefixes(t, b)[k + 1] = Prefixes(t, b)[k] * b + t[k + 1]
      BY <1>0, <2>1, <3>1
    <3> QED
      BY <2>1, <3>2, <3>3
  <2> QED
    BY <2>1, <2>2
<1>3. S = Nat
  <2>1. S \in SUBSET Nat
    OBVIOUS
  <2> HIDE DEF S
  <2> QED
    BY <1>1, <1>2, <2>1, SetInduction
<1>4. j \in S
  <2> HIDE DEF S
  <2> QED
    BY <1>3
<1> QED
  BY <1>4

(* The empty numeral, which the divisions end with, stands for zero. *)
LEMMA ValueEmpty == \A b \in Nat : Value(<< >>, b) = 0
<1>1. << >> \in Seq(Nat) /\ Len(<< >>) = 0
  OBVIOUS
<1> QED
  BY <1>1, PrefixesUnfold DEF Value

(* A numeral stands for a natural number. *)
LEMMA ValueTyped ==
  ASSUME NEW b \in Nat, NEW s \in Seq(Nat) PROVE Value(s, b) \in Nat
  BY PrefixesUnfold DEF Value

(* A digit appended to a numeral, as the quotients of the divisions grow. *)
LEMMA ValueAppend ==
  ASSUME NEW b \in Nat, NEW s \in Seq(Nat), NEW d \in Nat
  PROVE  Value(Append(s, d), b) = Value(s, b) * b + d
<1>1. PICK t : t = Append(s, d)
  OBVIOUS
<1>2. /\ t \in Seq(Nat) /\ Len(s) \in Nat /\ Len(t) = Len(s) + 1 /\ t[Len(t)] = d
      /\ \A i \in 1 .. Len(s) : t[i] = s[i]
  BY <1>1
<1>3. Len(t) \in 1 .. Len(t) /\ Len(t) - 1 = Len(s)
  BY <1>2
<1>4. Prefixes(t, b)[Len(t)] = Prefixes(t, b)[Len(s)] * b + d
  <2>1. Len(s) + 1 <= Len(t) /\ t[Len(s) + 1] = d
    BY <1>2
  <2>2. Prefixes(t, b)[Len(s) + 1] = Prefixes(t, b)[Len(s)] * b + t[Len(s) + 1]
    BY <1>2, <2>1, PrefixStep
  <2> QED
    BY <1>2, <2>1, <2>2
<1>5. Prefixes(t, b)[Len(s)] = Prefixes(s, b)[Len(s)]
  <2>1. Len(s) <= Len(t) /\ Len(s) <= Len(s) /\ \A i \in 1 .. Len(s) : s[i] = t[i]
    BY <1>2
  <2> QED
    BY <1>2, <2>1, PrefixesAgree
<1> QED
  BY <1>1, <1>4, <1>5 DEF Value

(* A smaller prefix stays smaller whatever digits follow it. *)
LEMMA NextDigit ==
  ASSUME NEW p \in Nat, NEW q \in Nat, NEW d \in Nat, NEW b \in Nat, p < q, d <= b - 1
  PROVE  p * b + d < q * b
<1>1. PICK e \in Nat : q = p + 1 + e
  <2>1. q - p - 1 \in Nat /\ q = p + 1 + (q - p - 1)
    OBVIOUS
  <2> QED
    BY <2>1
<1>2. q * b = p * b + b + e * b /\ e * b \in Nat /\ p * b \in Nat
  BY <1>1
<1> QED
  BY <1>2

(* A prefix of j digits is below the j-th power of the base. *)
LEMMA PrefixBound ==
  ASSUME NEW b \in Nat \ {0}, NEW s \in Seq(0 .. (b - 1))
  PROVE  \A j \in 0 .. Len(s) : Prefixes(s, b)[j] < Power(b, j)
<1> DEFINE S == {k \in Nat : k <= Len(s) => Prefixes(s, b)[k] < Power(b, k)}
<1>0. s \in Seq(Nat) /\ Len(s) \in Nat /\ b \in Nat
  OBVIOUS
<1>1. 0 \in S
  <2>1. Prefixes(s, b)[0] = 0 /\ Power(b, 0) = 1
    BY <1>0, PrefixZero, PowerStep
  <2> QED
    BY <2>1
<1>2. ASSUME NEW k \in S PROVE k + 1 \in S
  <2>1. k \in Nat /\ k + 1 \in Nat /\ (k + 1) - 1 = k
    OBVIOUS
  <2>2. CASE k + 1 <= Len(s)
    <3>1. k + 1 \in 1 .. Len(s) /\ k <= Len(s) /\ k \in 0 .. Len(s)
      BY <1>0, <2>1, <2>2
    <3>2. Prefixes(s, b)[k] < Power(b, k)
      BY <3>1
    <3>3. PICK p, q, d : p = Prefixes(s, b)[k] /\ q = Power(b, k) /\ d = s[k + 1]
      OBVIOUS
    <3>4. p \in Nat /\ Prefixes(s, b)[k + 1] = p * b + d
      BY <1>0, <2>1, <2>2, <3>3, PrefixStep
    <3>5. q \in Nat /\ Power(b, k + 1) = q * b
      BY <1>0, <2>1, <3>3, PowerStep
    <3>6. d \in Nat /\ d <= b - 1
      BY <3>1, <3>3
    <3>7. p * b + d < q * b
      BY <3>2, <3>3, <3>4, <3>5, <3>6, NextDigit
    <3>8. Prefixes(s, b)[k + 1] < Power(b, k + 1)
      BY <3>4, <3>5, <3>7
    <3> QED
      BY <2>1, <3>8
  <2> QED
    BY <2>1, <2>2
<1>3. S = Nat
  <2>1. S \in SUBSET Nat
    OBVIOUS
  <2> HIDE DEF S
  <2> QED
    BY <1>1, <1>2, <2>1, SetInduction
<1> QED
  BY <1>0, <1>3

(* A numeral is below the power of the base that its length says: an       *)
(* identifier fits its limbs, a string its digits.                         *)
LEMMA ValueBound ==
  ASSUME NEW b \in Nat \ {0}, NEW s \in Seq(0 .. (b - 1))
  PROVE  Value(s, b) < Power(b, Len(s))
<1>1. Len(s) \in 0 .. Len(s)
  OBVIOUS
<1> QED
  BY <1>1, PrefixBound DEF Value

(* A numeral without leading zeros that is not empty is not zero: the      *)
(* encoder's loop, which ends on the empty numeral, does not end early.    *)
LEMMA ValuePositive ==
  ASSUME NEW b \in Nat \ {0}, NEW s \in Seq(Nat), s # << >>, s[1] # 0
  PROVE  Value(s, b) >= 1
<1> DEFINE S == {k \in Nat : 1 <= k /\ k <= Len(s) => Prefixes(s, b)[k] >= 1}
<1>0. Len(s) \in Nat \ {0} /\ b \in Nat
  OBVIOUS
<1>1. 0 \in S
  OBVIOUS
<1>2. ASSUME NEW k \in S PROVE k + 1 \in S
  <2>1. k \in Nat /\ k + 1 \in Nat /\ (k + 1) - 1 = k
    OBVIOUS
  <2>2. CASE k + 1 <= Len(s)
    <3>1. k + 1 \in 1 .. Len(s) /\ k <= Len(s) /\ k \in 0 .. Len(s)
      BY <1>0, <2>1, <2>2
    <3>2. PICK p, d : p = Prefixes(s, b)[k] /\ d = s[k + 1]
      OBVIOUS
    <3>3. p \in Nat /\ d \in Nat /\ Prefixes(s, b)[k + 1] = p * b + d
      BY <1>0, <2>1, <2>2, <3>2, PrefixStep
    <3>4. CASE k = 0
      <4>1. p = 0 /\ d # 0
        BY <1>0, <3>2, <3>4, PrefixZero
      <4>2. Prefixes(s, b)[k + 1] >= 1
        BY <1>0, <3>3, <4>1
      <4> QED
        BY <2>1, <4>2
    <3>5. CASE k # 0
      <4>1. p >= 1
        BY <2>1, <3>1, <3>2, <3>5
      <4>2. p * b >= 1 /\ p * b \in Nat
        BY <1>0, <3>3, <4>1
      <4>3. Prefixes(s, b)[k + 1] >= 1
        BY <3>3, <4>2
      <4> QED
        BY <2>1, <4>3
    <3> QED
      BY <3>4, <3>5
  <2> QED
    BY <2>1, <2>2
<1>3. S = Nat
  <2>1. S \in SUBSET Nat
    OBVIOUS
  <2> HIDE DEF S
  <2> QED
    BY <1>1, <1>2, <2>1, SetInduction
<1> QED
  BY <1>0, <1>3 DEF Value

(* t is s with the digit d in cell c, where s has zero. *)
Filled(s, t, c, d) ==
  /\ s \in Seq(Nat) /\ t \in Seq(Nat) /\ Len(t) = Len(s)
  /\ c \in 1 .. Len(s) /\ s[c] = 0 /\ t[c] = d
  /\ \A i \in 1 .. Len(s) : i # c => s[i] = t[i]

(* Writing a digit where there was a zero adds it at its place: what       *)
(* storing one remainder into the buffer does.                             *)
LEMMA ValueSet ==
  ASSUME NEW b \in Nat, NEW s, NEW t, NEW c, NEW d, Filled(s, t, c, d)
  PROVE  Value(t, b) = Value(s, b) + d * Power(b, Len(s) - c)
<1> DEFINE S == {k \in Nat : c + k <= Len(s) =>
                   Prefixes(t, b)[c + k] = Prefixes(s, b)[c + k] + d * Power(b, k)}
<1>0. /\ Len(s) \in Nat /\ c \in Nat /\ c <= Len(s) /\ 1 <= c /\ t[c] \in Nat
      /\ s \in Seq(Nat) /\ t \in Seq(Nat) /\ c \in 1 .. Len(s) /\ s[c] = 0 /\ t[c] = d
      /\ Len(t) = Len(s) /\ \A i \in 1 .. Len(s) : i # c => s[i] = t[i]
  BY DEF Filled
<1>1. 0 \in S
  <2>1. c - 1 \in Nat /\ (c - 1) + 1 = c /\ c + 0 = c
    BY <1>0
  <2>2. Prefixes(s, b)[c - 1] = Prefixes(t, b)[c - 1]
    <3>1. c - 1 <= Len(s) /\ c - 1 <= Len(t) /\ \A i \in 1 .. (c - 1) : s[i] = t[i]
      BY <1>0
    <3>2. s \in Seq(Nat) /\ t \in Seq(Nat)
      BY <1>0
    <3> QED
      BY <2>1, <3>1, <3>2, PrefixesAgree
  <2>3. PICK p : p = Prefixes(s, b)[c - 1]
    OBVIOUS
  <2>4. p \in Nat /\ Prefixes(s, b)[c] = p * b + s[c]
    BY <1>0, <2>1, <2>3, PrefixStep
  <2>5. Prefixes(t, b)[c] = p * b + t[c]
    BY <1>0, <2>1, <2>2, <2>3, PrefixStep
  <2>6. Prefixes(t, b)[c] = Prefixes(s, b)[c] + d * 1
    BY <1>0, <2>4, <2>5
  <2> QED
    BY <2>1, <2>6, PowerStep
<1>2. ASSUME NEW k \in S PROVE k + 1 \in S
  <2>1. k \in Nat /\ k + 1 \in Nat /\ c + (k + 1) = (c + k) + 1 /\ c + k \in Nat
    BY <1>0
  <2>2. CASE c + (k + 1) <= Len(s)
    <3>1. (c + k) + 1 <= Len(s) /\ (c + k) + 1 <= Len(t) /\ c + k <= Len(s)
          /\ (c + k) + 1 \in 1 .. Len(s) /\ (c + k) + 1 # c
      BY <1>0, <2>1, <2>2
    <3>2. PICK p, q, x, w, a : /\ p = Prefixes(s, b)[c + k] /\ q = Prefixes(t, b)[c + k]
                               /\ x = d /\ w = Power(b, k) /\ a = s[(c + k) + 1]
      OBVIOUS
    <3>3. p \in Nat /\ a \in Nat /\ Prefixes(s, b)[(c + k) + 1] = p * b + a
      BY <1>0, <2>1, <3>1, <3>2, PrefixStep
    <3>4. q \in Nat /\ Prefixes(t, b)[(c + k) + 1] = q * b + a
      <4>1. t[(c + k) + 1] = a
        BY <1>0, <3>1, <3>2
      <4> QED
        BY <1>0, <2>1, <3>1, <3>2, <4>1, PrefixStep
    <3>5. w \in Nat /\ Power(b, k + 1) = w * b
      BY <2>1, <3>2, PowerStep
    <3>6. q = p + x * w /\ x \in Nat
      BY <1>0, <2>1, <3>1, <3>2
    <3>7. q * b + a = (p * b + a) + x * (w * b)
      BY <3>3, <3>4, <3>5, <3>6
    <3>8. Prefixes(t, b)[(c + k) + 1] = Prefixes(s, b)[(c + k) + 1] + x * Power(b, k + 1)
      BY <3>3, <3>4, <3>5, <3>7
    <3> QED
      BY <2>1, <3>2, <3>8
  <2> QED
    BY <2>1, <2>2
<1>3. S = Nat
  <2>1. S \in SUBSET Nat
    OBVIOUS
  <2> HIDE DEF S
  <2> QED
    BY <1>1, <1>2, <2>1, SetInduction
<1>4. Len(s) - c \in S /\ Len(s) - c \in Nat /\ c + (Len(s) - c) = Len(s)
  <2> HIDE DEF S
  <2> QED
    BY <1>0, <1>3
<1> QED
  BY <1>0, <1>4 DEF Value

(* Dividing twice. *)
LEMMA DivStep ==
  ASSUME NEW x \in Nat, NEW q \in Nat, NEW r \in Nat, NEW w \in Nat \ {0},
         x = q * w + r, r < w
  PROVE  x \div w = q /\ x % w = r
<1>1. PICK y, z : y = x \div w /\ z = x % w
  OBVIOUS
<1>2. y \in Nat /\ z \in Nat /\ z < w /\ x = y * w + z
  BY <1>1
<1>3. ~(y < q)
  <2>1. SUFFICES ASSUME y < q PROVE FALSE
    OBVIOUS
  <2>2. y * w + z < q * w
    BY <1>2, <2>1, NextDigit
  <2>3. q * w \in Nat
    OBVIOUS
  <2> QED
    BY <1>2, <2>2, <2>3
<1>4. ~(q < y)
  <2>1. SUFFICES ASSUME q < y PROVE FALSE
    OBVIOUS
  <2>2. q * w + r < y * w
    BY <1>2, <2>1, NextDigit
  <2>3. y * w \in Nat
    BY <1>2
  <2> QED
    BY <1>2, <2>2, <2>3
<1>5. y = q
  BY <1>2, <1>3, <1>4
<1> QED
  BY <1>1, <1>2, <1>5

(* Quotient and remainder. *)
LEMMA DivisionFacts ==
  ASSUME NEW x \in Nat, NEW w \in Nat \ {0}
  PROVE  /\ x \div w \in Nat /\ x % w \in Nat /\ x % w < w
         /\ x = (x \div w) * w + (x % w)
  OBVIOUS

(* Dividing by a product is dividing twice. *)
LEMMA DivTwice ==
  ASSUME NEW x \in Nat, NEW w \in Nat \ {0}, NEW b \in Nat \ {0}
  PROVE  /\ w * b \in Nat \ {0}
         /\ x \div w = (x \div (w * b)) * b + ((x \div w) % b)
<1>1. PICK y, z : y = x \div w /\ z = x % w
  OBVIOUS
<1>2. y \in Nat /\ z \in Nat /\ z < w /\ x = y * w + z
  BY <1>1, DivisionFacts
<1>3. PICK u, v : u = y \div b /\ v = y % b
  OBVIOUS
<1>4. u \in Nat /\ v \in Nat /\ v < b /\ y = u * b + v
  BY <1>2, <1>3, DivisionFacts
<1>5. w * b \in Nat \ {0} /\ w * b = b * w
  OBVIOUS
<1>6. v * w + z \in Nat /\ v * w + z < b * w
  BY <1>2, <1>4, NextDigit
<1>7. x = u * (w * b) + (v * w + z)
  BY <1>2, <1>4
<1>8. x \div (w * b) = u
  BY <1>4, <1>5, <1>6, <1>7, DivStep
<1> QED
  BY <1>1, <1>3, <1>4, <1>5, <1>8

(* A number below b^m is the value of its m digits in base b. *)
LEMMA ValueOfDigits ==
  ASSUME NEW b \in Nat \ {0}, NEW m \in Nat, NEW x \in Nat, x < Power(b, m), NEW s \in Seq(Nat),
         Len(s) = m, \A i \in 1 .. m : s[i] = (x \div Power(b, m - i)) % b
  PROVE  Value(s, b) = x
<1> DEFINE S == {k \in Nat : k <= m => Prefixes(s, b)[k] = x \div Power(b, m - k)}
<1>1. 0 \in S
  <2>1. Power(b, m) \in Nat \ {0} /\ m - 0 = m /\ b \in Nat
    BY PowerPositive
  <2>2. x = 0 * Power(b, m) + x
    BY <2>1
  <2>3. x \div Power(b, m) = 0
    BY <2>1, <2>2, DivStep
  <2>4. Prefixes(s, b)[0] = 0
    BY <2>1, PrefixZero
  <2> QED
    BY <2>1, <2>3, <2>4
<1>2. ASSUME NEW k \in S PROVE k + 1 \in S
  <2>1. k \in Nat /\ k + 1 \in Nat /\ b \in Nat
    OBVIOUS
  <2>2. CASE k + 1 <= m
    <3>1. m - (k + 1) \in Nat /\ (m - (k + 1)) + 1 = m - k /\ k <= m /\ k + 1 \in 1 .. m
      BY <2>1, <2>2
    <3>2. PICK w : w = Power(b, m - (k + 1))
      OBVIOUS
    <3>3. w \in Nat \ {0} /\ Power(b, m - k) = w * b
      BY <2>1, <3>1, <3>2, PowerPositive, PowerStep
    <3>4. PICK p : p = Prefixes(s, b)[k]
      OBVIOUS
    <3>5. p = x \div (w * b)
      BY <3>1, <3>3, <3>4
    <3>6. Prefixes(s, b)[k + 1] = p * b + s[k + 1]
      BY <2>1, <2>2, <3>4, PrefixStep
    <3>7. s[k + 1] = (x \div w) % b
      BY <3>1, <3>2
    <3>8. x \div w = p * b + ((x \div w) % b)
      <4>1. x \div w = (x \div (w * b)) * b + ((x \div w) % b)
        BY <3>3, DivTwice
      <4> QED
        BY <3>5, <4>1
    <3>9. Prefixes(s, b)[k + 1] = x \div Power(b, m - (k + 1))
      BY <3>2, <3>6, <3>7, <3>8
    <3> QED
      BY <2>1, <3>9
  <2> QED
    BY <2>1, <2>2
<1>3. S = Nat
  <2>1. S \in SUBSET Nat
    OBVIOUS
  <2> HIDE DEF S
  <2> QED
    BY <1>1, <1>2, <2>1, SetInduction
<1>4. m \in S /\ m - m = 0 /\ b \in Nat
  <2> HIDE DEF S
  <2> QED
    BY <1>3
<1>5. Value(s, b) = x \div Power(b, 0)
  BY <1>4 DEF Value
<1>6. x = x * 1 + 0
  OBVIOUS
<1> QED
  BY <1>4, <1>5, PowerStep

(* Of two numerals of the same length the one with the smaller digit in    *)
(* the first place where they differ is the smaller number.                *)
LEMMA LowerDigit ==
  ASSUME NEW b \in Nat \ {0}, NEW s \in Seq(Nat), NEW t \in Seq(Nat), Len(t) = Len(s),
         NEW c \in 1 .. Len(s), \A i \in 1 .. (c - 1) : s[i] = t[i], s[c] < t[c],
         \A i \in (c + 1) .. Len(s) : s[i] <= b - 1
  PROVE  Value(s, b) < Value(t, b)
<1> DEFINE S == {k \in Nat : c + k <= Len(s) =>
                   Prefixes(s, b)[c + k] < Prefixes(t, b)[c + k]}
<1>0. Len(s) \in Nat /\ c \in Nat /\ c <= Len(s) /\ 1 <= c /\ s[c] \in Nat /\ t[c] \in Nat
      /\ b \in Nat
  OBVIOUS
<1>1. 0 \in S
  <2>1. c - 1 \in Nat /\ (c - 1) + 1 = c /\ c + 0 = c
    BY <1>0
  <2>2. Prefixes(s, b)[c - 1] = Prefixes(t, b)[c - 1]
    <3>1. c - 1 <= Len(s) /\ c - 1 <= Len(t) /\ \A i \in 1 .. (c - 1) : s[i] = t[i]
      BY <1>0
    <3>2. PICK j : j = c - 1
      OBVIOUS
    <3>3. j \in Nat /\ j <= Len(s) /\ j <= Len(t) /\ \A i \in 1 .. j : s[i] = t[i]
      BY <2>1, <3>1, <3>2
    <3>4. Prefixes(s, b)[j] = Prefixes(t, b)[j]
      BY <1>0, <3>3, PrefixesAgree
    <3> QED
      BY <3>2, <3>4
  <2>3. PICK p : p = Prefixes(s, b)[c - 1]
    OBVIOUS
  <2>4. p \in Nat /\ Prefixes(s, b)[c] = p * b + s[c]
    BY <1>0, <2>1, <2>3, PrefixStep
  <2>5. Prefixes(t, b)[c] = p * b + t[c]
    BY <1>0, <2>1, <2>2, <2>3, PrefixStep
  <2>6. Prefixes(s, b)[c] < Prefixes(t, b)[c]
    BY <1>0, <2>4, <2>5
  <2> QED
    BY <2>1, <2>6
<1>2. ASSUME NEW k \in S PROVE k + 1 \in S
  <2>1. k \in Nat /\ k + 1 \in Nat /\ c + (k + 1) = (c + k) + 1 /\ c + k \in Nat
    BY <1>0
  <2>2. CASE c + (k + 1) <= Len(s)
    <3>1. (c + k) + 1 <= Len(s) /\ (c + k) + 1 <= Len(t) /\ c + k <= Len(s)
          /\ (c + k) + 1 \in (c + 1) .. Len(s)
      BY <1>0, <2>1, <2>2
    <3>2. PICK p, q, d, e : /\ p = Prefixes(s, b)[c + k] /\ q = Prefixes(t, b)[c + k]
                            /\ d = s[(c + k) + 1] /\ e = t[(c + k) + 1]
      OBVIOUS
    <3>3. p \in Nat /\ d \in Nat /\ Prefixes(s, b)[(c + k) + 1] = p * b + d
      BY <1>0, <2>1, <3>1, <3>2, PrefixStep
    <3>4. q \in Nat /\ e \in Nat /\ Prefixes(t, b)[(c + k) + 1] = q * b + e
      BY <1>0, <2>1, <3>1, <3>2, PrefixStep
    <3>5. p < q /\ d <= b - 1
      BY <2>1, <3>1, <3>2
    <3>6. p * b + d < q * b
      BY <1>0, <3>3, <3>4, <3>5, NextDigit
    <3>7. p * b \in Nat /\ q * b \in Nat
      BY <1>0, <3>3, <3>4
    <3>8. Prefixes(s, b)[(c + k) + 1] < Prefixes(t, b)[(c + k) + 1]
      BY <3>3, <3>4, <3>6, <3>7
    <3> QED
      BY <2>1, <3>8
  <2> QED
    BY <2>1, <2>2
<1>3. S = Nat
  <2>1. S \in SUBSET Nat
    OBVIOUS
  <2> HIDE DEF S
  <2> QED
    BY <1>1, <1>2, <2>1, SetInduction
<1>4. Len(s) - c \in S /\ c + (Len(s) - c) = Len(s)
  <2> HIDE DEF S
  <2> QED
    BY <1>0, <1>3
<1> QED
  BY <1>4 DEF Value

-----------------------------------------------------------------------------
(* The base62 codec of KSUIDs (Base62). *)

(* Base62's instance of Numerals is the module itself. *)
LEMMA CodecNumerals ==
  /\ \A s, b : Codec!Value(s, b) = Value(s, b)
  /\ \A b, k : Codec!Power(b, k) = Power(b, k)
  BY DEF Codec!Value, Codec!Prefixes, Codec!Power, Codec!Powers,
         Value, Prefixes, Power, Powers

(* The widths of the codec, from its assumption. *)
LEMMA CodecWidths ==
  /\ Limbs \in Nat \ {0} /\ Digits \in Nat \ {0}
  /\ Radix \in Nat \ {0, 1} /\ LimbBase \in Nat /\ LimbBase > Radix /\ LimbBase >= 3
  /\ ByteSpan \in Nat /\ ByteSpan > Radix
  /\ Codec!Word = LimbBase * LimbBase
  /\ LimbBase * LimbBase >= 3 * LimbBase
  /\ LimbBase * LimbBase >= 9
<1>1. /\ Limbs \in Nat \ {0} /\ Digits \in Nat \ {0}
      /\ Radix \in Nat \ {0, 1} /\ LimbBase \in Nat /\ LimbBase > Radix
      /\ ByteSpan \in Nat /\ ByteSpan > Radix
  BY CodecFits DEF Codec!ConstantsFit
<1>2. LimbBase >= 3
  BY <1>1
<1>3. ASSUME NEW l \in Nat, l >= 3 PROVE l * l >= 3 * l
  <2>1. PICK e \in Nat : l = 3 + e
    <3>1. l - 3 \in Nat /\ l = 3 + (l - 3)
      BY <1>3
    <3> QED
      BY <3>1
  <2>2. l * l = 3 * l + e * l /\ e * l \in Nat
    BY <2>1
  <2> QED
    BY <2>2
<1>4. LimbBase * LimbBase >= 3 * LimbBase
  BY <1>1, <1>2, <1>3
<1> QED
  BY <1>1, <1>2, <1>4 DEF Codec!Word

(* A product of words from the products of their halves. *)
LEMMA ProductOfHalves ==
  ASSUME NEW l \in Nat, NEW ah \in Nat, NEW al \in Nat, NEW bh \in Nat, NEW bl \in Nat
  PROVE  (ah * l + al) * (bh * l + bl)
           = (ah * bh) * (l * l) + (al * bh + ah * bl) * l + al * bl
  OBVIOUS

(* chronoid_ksuid_mulhi64_avx2 computes the high word of a product. *)
LEMMA MulHiExact ==
  ASSUME NEW a \in Nat, NEW b \in Nat, a < Codec!Word, b < Codec!Word
  PROVE  Codec!MulHi(a, b) = (a * b) \div Codec!Word
<1>1. PICK l, w : l = LimbBase /\ w = l * l
  OBVIOUS
<1>2. l \in Nat \ {0} /\ w \in Nat \ {0} /\ Codec!Word = w /\ w >= 3 * l /\ a < w /\ b < w
  BY <1>1, CodecWidths
<1>3. PICK ah, al, bh, bl : ah = a \div l /\ al = a % l /\ bh = b \div l /\ bl = b % l
  OBVIOUS
<1>4. /\ ah \in Nat /\ al \in Nat /\ al < l /\ a = ah * l + al
      /\ bh \in Nat /\ bl \in Nat /\ bl < l /\ b = bh * l + bl
  BY <1>2, <1>3, DivisionFacts
<1>5. PICK ll, lh, hl, hh : ll = al * bl /\ lh = al * bh /\ hl = ah * bl /\ hh = ah * bh
  OBVIOUS
<1>6. ll \in Nat /\ lh \in Nat /\ hl \in Nat /\ hh \in Nat
  BY <1>4, <1>5
<1>7. PICK lh1, lh0, hl1, hl0, ll1, ll0 :
        /\ lh1 = lh \div l /\ lh0 = lh % l /\ hl1 = hl \div l /\ hl0 = hl % l
        /\ ll1 = ll \div l /\ ll0 = ll % l
  OBVIOUS
<1>8. /\ lh1 \in Nat /\ lh0 \in Nat /\ lh0 < l /\ lh = lh1 * l + lh0
      /\ hl1 \in Nat /\ hl0 \in Nat /\ hl0 < l /\ hl = hl1 * l + hl0
      /\ ll1 \in Nat /\ ll0 \in Nat /\ ll0 < l /\ ll = ll1 * l + ll0
  BY <1>2, <1>6, <1>7, DivisionFacts
<1>9. ll1 < l
  <2>1. ll < l * l
    <3>1. al * bl + 0 < l * bl + 0 \/ bl = 0
      BY <1>2, <1>4
    <3>2. l * bl < l * l
      BY <1>2, <1>4
    <3> QED
      BY <1>2, <1>4, <1>5, <3>1, <3>2
  <2>2. ~(ll1 >= l)
    <3>1. SUFFICES ASSUME ll1 >= l PROVE FALSE
      OBVIOUS
    <3>2. ll1 * l >= l * l
      BY <1>2, <1>8, <3>1
    <3>3. ll1 * l \in Nat /\ l * l \in Nat
      BY <1>2, <1>8
    <3> QED
      BY <1>6, <1>8, <2>1, <3>2, <3>3
  <2> QED
    BY <1>2, <1>8, <2>2
<1>10. PICK mid : mid = lh0 + hl0 + ll1
  OBVIOUS
<1>11. mid \in Nat /\ mid < w /\ (lh0 + hl0 + ll1) % w = mid
  <2>1. mid \in Nat /\ mid < w
    BY <1>2, <1>8, <1>9, <1>10
  <2>2. mid = 0 * w + mid
    BY <1>2, <2>1
  <2>3. mid % w = mid
    BY <1>2, <2>1, <2>2, DivStep
  <2> QED
    BY <1>10, <2>1, <2>3
<1>12. PICK mh, ml : mh = mid \div l /\ ml = mid % l
  OBVIOUS
<1>13. mh \in Nat /\ ml \in Nat /\ ml < l /\ mid = mh * l + ml
  BY <1>2, <1>11, <1>12, DivisionFacts
<1>14. PICK q, r : q = hh + lh1 + hl1 + mh /\ r = ml * l + ll0
  OBVIOUS
<1>15. q \in Nat /\ r \in Nat /\ r < w
  <2>1. q \in Nat /\ r \in Nat
    BY <1>2, <1>6, <1>8, <1>13, <1>14
  <2>2. ml * l + ll0 < l * l
    <3>1. ll0 <= l - 1
      BY <1>2, <1>8
    <3> QED
      BY <1>2, <1>8, <1>13, <3>1, NextDigit
  <2> QED
    BY <1>1, <1>14, <2>1, <2>2
<1>16. a * b = q * w + r
  <2>1. a * b = hh * w + (lh + hl) * l + ll
    <3>1. (ah * l + al) * (bh * l + bl)
            = (ah * bh) * (l * l) + (al * bh + ah * bl) * l + al * bl
      BY <1>2, <1>4, ProductOfHalves
    <3> QED
      BY <1>1, <1>4, <1>5, <3>1
  <2>2. (lh + hl) * l = (lh1 + hl1) * w + (lh0 + hl0) * l
    BY <1>1, <1>2, <1>8
  <2>3. ll = ll1 * l + ll0
    BY <1>8
  <2>4. (lh0 + hl0) * l + ll1 * l = mid * l
    BY <1>2, <1>8, <1>10
  <2>5. mid * l = mh * w + ml * l
    BY <1>1, <1>2, <1>13
  <2>6. q * w = hh * w + (lh1 + hl1) * w + mh * w
    BY <1>2, <1>6, <1>8, <1>13, <1>14
  <2>7. /\ hh * w \in Nat /\ (lh + hl) * l \in Nat /\ (lh1 + hl1) * w \in Nat
        /\ (lh0 + hl0) * l \in Nat /\ ll1 * l \in Nat /\ mid * l \in Nat
        /\ mh * w \in Nat /\ ml * l \in Nat /\ q * w \in Nat
    BY <1>2, <1>6, <1>8, <1>11, <1>13, <1>15
  <2> QED
    BY <1>8, <1>14, <2>1, <2>2, <2>3, <2>4, <2>5, <2>6, <2>7
<1>17. a * b \in Nat /\ (a * b) \div w = q
  <2>1. a * b \in Nat
    OBVIOUS
  <2> QED
    BY <1>2, <1>15, <1>16, <2>1, DivStep
<1>18. q < w
  <2>1. a * b < w * w
    <3>1. a * b <= w * b
      BY <1>2
    <3>2. w * b < w * w
      BY <1>2
    <3>3. a * b \in Nat /\ w * b \in Nat /\ w * w \in Nat
      BY <1>2
    <3> QED
      BY <3>1, <3>2, <3>3
  <2>2. SUFFICES ASSUME q >= w PROVE FALSE
    BY <1>2, <1>15
  <2>3. q * w >= w * w
    BY <1>2, <1>15, <2>2
  <2>4. q * w \in Nat /\ w * w \in Nat
    BY <1>2, <1>15
  <2> QED
    BY <1>15, <1>16, <1>17, <2>1, <2>3, <2>4
<1>19. q % w = q
  <2>1. q = 0 * w + q
    BY <1>2, <1>15
  <2> QED
    BY <1>2, <1>15, <1>18, <2>1, DivStep
<1>20. Codec!MulHi(a, b) = (hh + lh1 + hl1 + (((lh0 + hl0 + ll1) % w) \div l)) % w
  BY <1>1, <1>2, <1>3, <1>5, <1>7 DEF Codec!MulHi
<1> QED
  BY <1>2, <1>11, <1>12, <1>14, <1>17, <1>19, <1>20

(* Products keep the order. *)
LEMMA ProductOrder ==
  ASSUME NEW x \in Nat, NEW y \in Nat, NEW z \in Nat, x <= y
  PROVE  x * z <= y * z /\ x * z \in Nat /\ y * z \in Nat
<1>1. PICK e \in Nat : y = x + e
  <2>1. y - x \in Nat /\ y = x + (y - x)
    OBVIOUS
  <2> QED
    BY <2>1
<1>2. y * z = x * z + e * z /\ e * z \in Nat /\ x * z \in Nat /\ y * z \in Nat
  BY <1>1
<1> QED
  BY <1>2

(* chronoid_ksuid_divmod62_avx2 divides: the estimate is at most one too   *)
(* small, which the correction finds out.                                  *)
LEMMA DivModExact ==
  ASSUME NEW x \in Nat, x < Codec!Word
  PROVE  Codec!DivMod(x) = [quo |-> x \div Radix, rem |-> x % Radix]
<1>1. PICK w, m, R : w = Codec!Word /\ R = Radix /\ m = w \div R
  OBVIOUS
<1>2. w \in Nat \ {0} /\ R \in Nat \ {0, 1} /\ w > 2 * R
  BY <1>1, CodecWidths
<1>3. PICK s : s = w % R
  OBVIOUS
<1>4. m \in Nat /\ s \in Nat /\ s < R /\ w = m * R + s
  BY <1>1, <1>2, <1>3, DivisionFacts
<1>5. m < w
  BY <1>2, <1>4
<1>6. PICK q, t : q = (x * m) \div w /\ t = (x * m) % w
  OBVIOUS
<1>7. q \in Nat /\ t \in Nat /\ t < w /\ x * m = q * w + t
  <2>1. x * m \in Nat
    BY <1>4
  <2> QED
    BY <1>2, <1>6, <2>1, DivisionFacts
<1>8. Codec!MulHi(x, Codec!Magic) = q
  <2>1. Codec!Magic = m
    BY <1>1 DEF Codec!Magic
  <2> QED
    BY <1>1, <1>4, <1>5, <1>6, <2>1, MulHiExact
\* w * x = (q * R) * w + t * R + x * s
<1>9. x * w = (q * R) * w + t * R + x * s
  <2>1. x * w = (x * m) * R + x * s
    BY <1>2, <1>4
  <2>2. (x * m) * R = (q * R) * w + t * R
    BY <1>2, <1>7
  <2> QED
    BY <2>1, <2>2
<1>10. t * R \in Nat /\ x * s \in Nat /\ q * R \in Nat /\ (q * R) * w \in Nat /\ x * w \in Nat
  BY <1>2, <1>4, <1>7
<1>11. q * R <= x
  <2>1. SUFFICES ASSUME x < q * R PROVE FALSE
    BY <1>10
  <2>2. x * w + 0 < (q * R) * w
    BY <1>2, <1>10, <2>1, NextDigit
  <2> QED
    BY <1>9, <1>10, <2>2
<1>12. PICK r : r = x - q * R
  OBVIOUS
<1>13. r \in Nat /\ x = q * R + r
  BY <1>10, <1>11, <1>12
<1>14. r * w = t * R + x * s
  <2>1. x * w = (q * R) * w + r * w
    BY <1>2, <1>10, <1>13
  <2>2. r * w \in Nat
    BY <1>2, <1>13
  <2> QED
    BY <1>9, <1>10, <2>1, <2>2
<1>15. r < 2 * R
  <2>1. t * R < w * R
    BY <1>2, <1>7
  <2>2. x * s <= w * R
    <3>1. x * s <= w * s
      BY <1>1, <1>2, <1>4, ProductOrder
    <3>2. s * w <= R * w
      BY <1>2, <1>4, ProductOrder
    <3> QED
      BY <1>2, <1>4, <3>1, <3>2
  <2>3. w * R \in Nat /\ r * w < w * R + w * R
    BY <1>2, <1>10, <1>14, <2>1, <2>2
  <2>4. SUFFICES ASSUME r >= 2 * R PROVE FALSE
    BY <1>2, <1>13
  <2>5. (2 * R) * w <= r * w
    BY <1>2, <1>13, <2>4, ProductOrder
  <2>6. (2 * R) * w = w * R + w * R /\ r * w \in Nat
    BY <1>2, <1>13
  <2> QED
    BY <2>3, <2>5, <2>6
<1>16. (x - q * Radix) % Codec!Word = r
  <2>1. r < w /\ r = 0 * w + r
    BY <1>2, <1>13, <1>15
  <2>2. r % w = r
    BY <1>2, <1>13, <2>1, DivStep
  <2> QED
    BY <1>1, <1>12, <2>2
<1>17. Codec!DivMod(x) = IF r >= Radix THEN [quo |-> q + 1, rem |-> r - Radix]
                                       ELSE [quo |-> q, rem |-> r]
  BY <1>8, <1>16 DEF Codec!DivMod
<1>18. CASE r >= R
  <2>1. r - R \in Nat /\ r - R < R /\ x = (q + 1) * R + (r - R) /\ q + 1 \in Nat
    BY <1>2, <1>7, <1>13, <1>15, <1>18
  <2>2. PICK y, z : y = q + 1 /\ z = r - R
    OBVIOUS
  <2>3. x \div R = y /\ x % R = z
    BY <1>2, <2>1, <2>2, DivStep
  <2> QED
    BY <1>1, <1>17, <1>18, <2>2, <2>3
<1>19. CASE r < R
  <2>1. x \div R = q /\ x % R = r
    BY <1>2, <1>7, <1>13, <1>19, DivStep
  <2>2. ~(r >= R)
    BY <1>2, <1>13, <1>19
  <2> QED
    BY <1>1, <1>17, <2>1, <2>2
<1> QED
  BY <1>2, <1>13, <1>18, <1>19

(* What a pass has computed after some digits: the digits of a quotient    *)
(* and a remainder.                                                        *)
Quotients == [quo : Seq(Nat), rem : Nat]

(* One step of the trimming division is of its type. *)
LEMMA NextTrimmedTyped ==
  ASSUME NEW acc \in Quotients, NEW d \in Nat, NEW b \in Nat, NEW v \in Nat \ {0},
         NEW c \in Nat \ {0}
  PROVE  Codec!NextTrimmed(acc, d, b, v, c) \in Quotients
<1>1. PICK x : x = d + acc.rem * b
  OBVIOUS
<1>2. acc.quo \in Seq(Nat) /\ acc.rem \in Nat
  BY DEF Quotients
<1>3. x \in Nat
  BY <1>1, <1>2
<1>4. PICK y : y = x \div v
  OBVIOUS
<1>5. y \in Nat /\ x % v \in Nat
  BY <1>3, <1>4, DivisionFacts
<1>6. y % c \in Nat
  BY <1>5, DivisionFacts
<1>7. Codec!NextTrimmed(acc, d, b, v, c)
        = [quo |-> IF acc.quo # << >> \/ y # 0 THEN Append(acc.quo, y % c) ELSE acc.quo,
           rem |-> x % v]
  BY <1>1, <1>4 DEF Codec!NextTrimmed
<1> QED
  BY <1>2, <1>5, <1>6, <1>7 DEF Quotients

(* The equations of the trimming division's passes (base62.c, the inner    *)
(* loops).                                                                 *)
LEMMA TrimmedUnfold ==
  ASSUME NEW s \in Seq(Nat), NEW b \in Nat, NEW v \in Nat \ {0}, NEW c \in Nat \ {0}
  PROVE  /\ Codec!TrimmedPasses(s, b, v, c) \in [0 .. Len(s) -> Quotients]
         /\ Codec!TrimmedPasses(s, b, v, c)[0] = [quo |-> << >>, rem |-> 0]
         /\ \A k \in 1 .. Len(s) :
              Codec!TrimmedPasses(s, b, v, c)[k]
                = Codec!NextTrimmed(Codec!TrimmedPasses(s, b, v, c)[k - 1], s[k], b, v, c)
<1>0. Len(s) \in Nat
  OBVIOUS
<1> DEFINE m == Len(s)
           none == [quo |-> << >>, rem |-> 0]
           d(k) == IF k \in 1 .. m THEN s[k] ELSE 0
           g == [x \in Nat \X Quotients |-> Codec!NextTrimmed(x[2], d(x[1]), b, v, c)]
           Def(h) == [k \in 0 .. m |-> IF k = 0 THEN none
                                       ELSE Codec!NextTrimmed(h[k - 1], s[k], b, v, c)]
           f == Codec!TrimmedPasses(s, b, v, c)
<1>1. (\A k \in Nat : d(k) \in Nat) /\ none \in Quotients
  BY DEF Quotients
<1> HIDE DEF m
<1>2. StepOn(g, Quotients)
  <2>1. ASSUME NEW x \in Nat \X Quotients
        PROVE  Codec!NextTrimmed(x[2], d(x[1]), b, v, c) \in Quotients
    <3>1. x[2] \in Quotients /\ d(x[1]) \in Nat
      BY <1>1
    <3> HIDE DEF d
    <3> QED
      BY <3>1, NextTrimmedTyped
  <2> HIDE DEF d
  <2> QED
    BY <2>1 DEF StepOn
<1>3. \A k \in 1 .. m, p \in Quotients :
        g[<< k, p >>] = Codec!NextTrimmed(p, s[k], b, v, c)
  <2>1. ASSUME NEW k \in 1 .. m, NEW p \in Quotients
        PROVE  g[<< k, p >>] = Codec!NextTrimmed(p, s[k], b, v, c)
    <3>1. << k, p >> \in Nat \X Quotients
      BY <1>0 DEF m
    <3> QED
      BY <3>1
  <2> QED
    BY <2>1
<1> HIDE DEF g
<1>4. PICK h : Iterates(h, m, Quotients, none, g)
  <2> HIDE DEF none
  <2> QED
    BY <1>0, <1>1, <1>2, RecursionExists DEF m
<1>5. h = Def(h)
  <2>1. ASSUME NEW k \in 0 .. m
        PROVE  h[k] = IF k = 0 THEN none ELSE Codec!NextTrimmed(h[k - 1], s[k], b, v, c)
    <3>1. CASE k = 0
      BY <1>4, <3>1 DEF Iterates
    <3>2. CASE k # 0
      <4>1. k \in 1 .. m /\ k - 1 \in 0 .. m
        BY <1>0, <3>2 DEF m
      <4>2. h[k - 1] \in Quotients /\ h[k] = g[<< k, h[k - 1] >>]
        BY <1>4, <4>1 DEF Iterates
      <4> QED
        BY <1>3, <3>2, <4>1, <4>2
    <3> QED
      BY <3>1, <3>2
  <2>2. h = [k \in 0 .. m |-> h[k]]
    BY <1>4 DEF Iterates
  <2> QED
    BY <2>1, <2>2
<1>6. f = Def(f)
  <2>1. f = CHOOSE e : e = Def(e)
    BY DEF Codec!TrimmedPasses, m
  <2> HIDE DEF Def, f
  <2> QED
    BY <1>5, <2>1
<1> HIDE DEF f
<1>7. f[0] = none /\ \A k \in 1 .. m : f[k] = Codec!NextTrimmed(f[k - 1], s[k], b, v, c)
  <2>1. \A k \in 0 .. m : f[k] = IF k = 0 THEN none
                                 ELSE Codec!NextTrimmed(f[k - 1], s[k], b, v, c)
    BY <1>6
  <2> QED
    BY <1>0, <2>1 DEF m
<1>8. f = [k \in 0 .. m |-> f[k]]
  BY <1>6
<1>9. Iterates(f, m, Quotients, none, g)
  <2>1. \A k \in 1 .. m : f[k - 1] \in Quotients => f[k] = g[<< k, f[k - 1] >>]
    BY <1>3, <1>7
  <2>2. m \in Nat /\ none \in Quotients /\ f[0] = none
    BY <1>0, <1>1, <1>7 DEF m
  <2> HIDE DEF Def, none
  <2> QED
    BY <1>2, <1>8, <2>1, <2>2, IteratesTyped
<1> QED
  BY <1>7, <1>9 DEF Iterates, m, f

(* The digit that a division brings down is a digit. *)
LEMMA QuotientDigit ==
  ASSUME NEW b \in Nat \ {0}, NEW v \in Nat \ {0}, NEW r \in Nat, r < v,
         NEW d \in Nat, d < b
  PROVE  /\ d + r * b \in Nat /\ d + r * b < v * b
         /\ (d + r * b) \div v \in 0 .. (b - 1)
         /\ (d + r * b) % v \in Nat /\ (d + r * b) % v < v
         /\ d + r * b = ((d + r * b) \div v) * v + ((d + r * b) % v)
<1>1. PICK x : x = d + r * b
  OBVIOUS
<1>2. r * b + d < v * b /\ r * b \in Nat /\ v * b \in Nat
  <2>1. d <= b - 1
    OBVIOUS
  <2>2. r * b \in Nat /\ v * b \in Nat
    OBVIOUS
  <2> QED
    BY <2>1, <2>2, NextDigit
<1>3. x \in Nat /\ x < v * b
  BY <1>1, <1>2
<1>4. PICK y, z : y = x \div v /\ z = x % v
  OBVIOUS
<1>5. y \in Nat /\ z \in Nat /\ z < v /\ x = y * v + z
  BY <1>3, <1>4, DivisionFacts
<1>6. ~(y >= b)
  <2>1. SUFFICES ASSUME b <= y PROVE FALSE
    BY <1>5
  <2>2. b * v <= y * v /\ y * v \in Nat
    BY <1>5, <2>1, ProductOrder
  <2>3. b * v = v * b
    OBVIOUS
  <2> QED
    BY <1>2, <1>3, <1>5, <2>2, <2>3
<1> QED
  BY <1>1, <1>3, <1>4, <1>5, <1>6

(* acc is the quotient and the remainder of p divided by v, in base b. *)
Divided(acc, p, b, v) ==
  /\ acc.quo \in Seq(0 .. (b - 1))
  /\ acc.rem \in 0 .. (v - 1)
  /\ p = Value(acc.quo, b) * v + acc.rem

(* No leading zeros. *)
Trim(s) == s # << >> => s[1] # 0

(* Long division brings down one digit: dividend = quotient * divisor +    *)
(* remainder stays true.                                                   *)
LEMMA BringDown ==
  ASSUME NEW b \in Nat \ {0}, NEW v \in Nat \ {0}, NEW p \in Nat, NEW acc,
         Divided(acc, p, b, v), NEW d \in 0 .. (b - 1), NEW y, NEW z,
         y = (d + acc.rem * b) \div v, z = (d + acc.rem * b) % v
  PROVE  /\ y \in 0 .. (b - 1) /\ z \in 0 .. (v - 1)
         /\ Append(acc.quo, y) \in Seq(0 .. (b - 1))
         /\ p * b + d = Value(Append(acc.quo, y), b) * v + z
         /\ acc.quo = << >> /\ y = 0 => p * b + d = Value(acc.quo, b) * v + z
<1>1. PICK r, w, q : r = acc.rem /\ q = acc.quo /\ w = Value(q, b)
  OBVIOUS
<1>2. r \in Nat /\ r < v /\ q \in Seq(0 .. (b - 1)) /\ q \in Seq(Nat) /\ p = w * v + r
      /\ d \in Nat /\ d < b /\ b \in Nat
  <2>1. r \in 0 .. (v - 1) /\ q \in Seq(0 .. (b - 1)) /\ p = w * v + r
    BY <1>1 DEF Divided
  <2>2. r \in Nat /\ r < v /\ d \in Nat /\ d < b /\ b \in Nat
    BY <2>1
  <2>3. q \in Seq(Nat)
    BY <2>1, <2>2
  <2> QED
    BY <2>1, <2>2, <2>3
<1>3. w \in Nat
  BY <1>1, <1>2, ValueTyped
<1>4. y \in 0 .. (b - 1) /\ y \in Nat /\ z \in Nat /\ z < v /\ d + r * b = y * v + z
  <2>1. /\ (d + r * b) \div v \in 0 .. (b - 1)
        /\ (d + r * b) % v \in Nat /\ (d + r * b) % v < v
        /\ d + r * b = ((d + r * b) \div v) * v + ((d + r * b) % v)
    BY <1>2, QuotientDigit
  <2>2. y = (d + r * b) \div v /\ z = (d + r * b) % v
    BY <1>1
  <2> QED
    BY <2>1, <2>2
<1>5. p * b + d = (w * b + y) * v + z
  <2>1. PICK k1, k2, k3 : k1 = (w * b) * v /\ k2 = r * b /\ k3 = y * v
    OBVIOUS
  <2>2. p * b = k1 + k2
    BY <1>2, <1>3, <2>1
  <2>3. (w * b + y) * v = k1 + k3
    BY <1>2, <1>3, <1>4, <2>1
  <2>4. k1 \in Nat /\ k2 \in Nat /\ k3 \in Nat
    <3>1. w * b \in Nat
      BY <1>2, <1>3
    <3>2. v \in Nat /\ b \in Nat /\ r \in Nat /\ y \in Nat
      BY <1>2, <1>4
    <3>3. \A i, j \in Nat : i * j \in Nat
      OBVIOUS
    <3>4. (w * b) * v \in Nat
      BY <3>1, <3>2, <3>3
    <3>5. r * b \in Nat /\ y * v \in Nat
      BY <3>2, <3>3
    <3> QED
      BY <2>1, <3>4, <3>5
  <2>5. d + k2 = k3 + z /\ d \in Nat /\ z \in Nat
    BY <1>2, <1>4, <2>1
  <2>6. (k1 + k2) + d = (k1 + k3) + z
    BY <2>4, <2>5
  <2> QED
    BY <2>2, <2>3, <2>6
<1>6. Value(Append(q, y), b) = w * b + y
  <2>1. q \in Seq(Nat) /\ y \in Nat /\ b \in Nat
    BY <1>2, <1>4
  <2>2. Value(Append(q, y), b) = Value(q, b) * b + y
    BY <2>1, ValueAppend
  <2> QED
    BY <1>1, <2>2
<1>7. Append(q, y) \in Seq(0 .. (b - 1))
  BY <1>2, <1>4
<1>8. q = << >> /\ y = 0 => w * b + y = w
  BY <1>1, <1>2, ValueEmpty
<1>9. Value(q, b) = w
  BY <1>1
<1>10. p * b + d = Value(Append(q, y), b) * v + z
  BY <1>5, <1>6
<1>11. q = << >> /\ y = 0 => p * b + d = Value(q, b) * v + z
  <2>1. ASSUME q = << >>, y = 0 PROVE p * b + d = w * v + z
    <3>1. w * b + y = w
      BY <1>8, <2>1
    <3> QED
      BY <1>5, <3>1
  <2> QED
    BY <1>9, <2>1
<1>12. z \in 0 .. (v - 1)
  BY <1>4
<1> QED
  BY <1>1, <1>4, <1>7, <1>10, <1>11, <1>12

(* ... and also when leading zeros of the quotient are not stored. *)
LEMMA TrimmedStep ==
  ASSUME NEW b \in Nat \ {0}, NEW v \in Nat \ {0}, NEW c \in Nat, c >= b, NEW p \in Nat,
         NEW acc, Divided(acc, p, b, v), Trim(acc.quo), NEW d \in 0 .. (b - 1)
  PROVE  /\ Divided(Codec!NextTrimmed(acc, d, b, v, c), p * b + d, b, v)
         /\ Trim(Codec!NextTrimmed(acc, d, b, v, c).quo)
<1>1. PICK y, z : y = (d + acc.rem * b) \div v /\ z = (d + acc.rem * b) % v
  OBVIOUS
<1>2. /\ y \in 0 .. (b - 1) /\ z \in 0 .. (v - 1)
      /\ Append(acc.quo, y) \in Seq(0 .. (b - 1))
      /\ p * b + d = Value(Append(acc.quo, y), b) * v + z
      /\ acc.quo = << >> /\ y = 0 => p * b + d = Value(acc.quo, b) * v + z
  BY <1>1, BringDown
<1>3. y % c = y
  <2>1. y \in Nat /\ y < c /\ y = 0 * c + y /\ c \in Nat \ {0}
    BY <1>2
  <2> QED
    BY <2>1, DivStep
<1>4. PICK e : e = Codec!NextTrimmed(acc, d, b, v, c)
  OBVIOUS
<1>5. e = [quo |-> IF acc.quo # << >> \/ y # 0 THEN Append(acc.quo, y) ELSE acc.quo,
           rem |-> z]
  BY <1>1, <1>3, <1>4 DEF Codec!NextTrimmed
<1>6. e.rem = z /\ e.quo = IF acc.quo # << >> \/ y # 0 THEN Append(acc.quo, y) ELSE acc.quo
  BY <1>5
<1>7. acc.quo \in Seq(0 .. (b - 1))
  BY DEF Divided
<1>8. CASE acc.quo # << >> \/ y # 0
  <2>1. e.quo = Append(acc.quo, y)
    BY <1>6, <1>8
  <2>2. Divided(e, p * b + d, b, v)
    BY <1>2, <1>6, <2>1 DEF Divided
  <2>3. Trim(e.quo)
    BY <1>2, <1>7, <1>8, <2>1 DEF Trim
  <2> QED
    BY <1>4, <2>2, <2>3
<1>9. CASE acc.quo = << >> /\ y = 0
  <2>1. e.quo = acc.quo
    BY <1>6, <1>9
  <2>2. Divided(e, p * b + d, b, v)
    BY <1>2, <1>6, <1>7, <1>9, <2>1 DEF Divided
  <2>3. Trim(e.quo)
    BY <1>9, <2>1 DEF Trim
  <2> QED
    BY <1>4, <2>2, <2>3
<1> QED
  BY <1>8, <1>9

(* One pass of the scalar loops divides the number by the divisor. *)
LEMMA TrimmedExact ==
  ASSUME NEW b \in Nat \ {0}, NEW v \in Nat \ {0}, NEW c \in Nat, c >= b,
         NEW s \in Seq(0 .. (b - 1))
  PROVE  /\ Divided(Codec!DivideTrimmed(s, b, v, c), Value(s, b), b, v)
         /\ Trim(Codec!DivideTrimmed(s, b, v, c).quo)
<1> DEFINE f == Codec!TrimmedPasses(s, b, v, c)
           S == {k \in Nat : k <= Len(s) =>
                   Divided(f[k], Prefixes(s, b)[k], b, v) /\ Trim(f[k].quo)}
<1>0. s \in Seq(Nat) /\ Len(s) \in Nat /\ b \in Nat /\ c \in Nat \ {0}
  OBVIOUS
<1>u. /\ f[0] = [quo |-> << >>, rem |-> 0]
      /\ \A k \in 1 .. Len(s) : f[k] = Codec!NextTrimmed(f[k - 1], s[k], b, v, c)
  <2>1. /\ Codec!TrimmedPasses(s, b, v, c)[0] = [quo |-> << >>, rem |-> 0]
        /\ \A k \in 1 .. Len(s) :
             Codec!TrimmedPasses(s, b, v, c)[k]
               = Codec!NextTrimmed(Codec!TrimmedPasses(s, b, v, c)[k - 1], s[k], b, v, c)
    <3>1. s \in Seq(Nat) /\ b \in Nat /\ c \in Nat \ {0}
      BY <1>0
    <3> QED
      BY <3>1, TrimmedUnfold
  <2> QED
    BY <2>1
<1> HIDE DEF f
<1>1. 0 \in S
  <2>1. f[0].quo = << >> /\ f[0].rem = 0 /\ Prefixes(s, b)[0] = 0 /\ Value(<< >>, b) = 0
    BY <1>0, <1>u, PrefixZero, ValueEmpty
  <2>2. << >> \in Seq(0 .. (b - 1)) /\ 0 \in 0 .. (v - 1) /\ 0 = 0 * v + 0
    OBVIOUS
  <2> QED
    BY <2>1, <2>2 DEF Divided, Trim
<1>2. ASSUME NEW k \in S PROVE k + 1 \in S
  <2>1. k \in Nat /\ k + 1 \in Nat /\ (k + 1) - 1 = k
    OBVIOUS
  <2>2. CASE k + 1 <= Len(s)
    <3>1. k + 1 \in 1 .. Len(s) /\ k <= Len(s)
      BY <1>0, <2>1, <2>2
    <3>2. Divided(f[k], Prefixes(s, b)[k], b, v) /\ Trim(f[k].quo)
      BY <3>1
    <3>3. PICK p, d, acc : p = Prefixes(s, b)[k] /\ d = s[k + 1] /\ acc = f[k]
      OBVIOUS
    <3>4. p \in Nat /\ Prefixes(s, b)[k + 1] = p * b + d
      BY <1>0, <2>1, <2>2, <3>3, PrefixStep
    <3>5. d \in 0 .. (b - 1)
      BY <3>1, <3>3
    <3>6. f[k + 1] = Codec!NextTrimmed(acc, d, b, v, c)
      BY <1>u, <2>1, <3>1, <3>3
    <3>7. /\ Divided(Codec!NextTrimmed(acc, d, b, v, c), p * b + d, b, v)
          /\ Trim(Codec!NextTrimmed(acc, d, b, v, c).quo)
      BY <3>2, <3>3, <3>4, <3>5, TrimmedStep
    <3> QED
      BY <2>1, <3>4, <3>6, <3>7
  <2> QED
    BY <2>1, <2>2
<1>3. S = Nat
  <2>1. S \in SUBSET Nat
    OBVIOUS
  <2> HIDE DEF S
  <2> QED
    BY <1>1, <1>2, <2>1, SetInduction
<1>4. Len(s) \in S
  <2> HIDE DEF S
  <2> QED
    BY <1>0, <1>3
<1>5. Divided(f[Len(s)], Prefixes(s, b)[Len(s)], b, v) /\ Trim(f[Len(s)].quo)
  BY <1>0, <1>4
<1> QED
  BY <1>5 DEF f, Value, Codec!DivideTrimmed

(* One cell of the AVX2 kernel's column divides exactly, by DivModExact. *)
LEMMA ColumnStep ==
  ASSUME NEW p \in Nat, NEW acc, Divided(acc, p, LimbBase, Radix), NEW d \in 0 .. (LimbBase - 1)
  PROVE  /\ Divided(Codec!NextInColumn(acc, d), p * LimbBase + d, LimbBase, Radix)
         /\ DOMAIN Codec!NextInColumn(acc, d) = {"quo", "rem"}
<1>0. LimbBase \in Nat \ {0} /\ Radix \in Nat \ {0} /\ LimbBase > Radix
      /\ Codec!Word = LimbBase * LimbBase
  BY CodecWidths
<1>r. PICK r : r = acc.rem
  OBVIOUS
<1>2. r \in Nat /\ r < Radix /\ d \in Nat /\ d < LimbBase /\ r < LimbBase
  BY <1>0, <1>r DEF Divided
<1>x. PICK x : x = d + r * LimbBase
  OBVIOUS
<1>1. PICK y, z : y = x \div Radix /\ z = x % Radix
  OBVIOUS
<1>3. x \in Nat /\ x < Codec!Word
  <2>1. d + r * LimbBase \in Nat /\ d + r * LimbBase < LimbBase * LimbBase
    BY <1>0, <1>2, QuotientDigit
  <2> QED
    BY <1>0, <1>x, <2>1
<1>4. Codec!DivMod(x) = [quo |-> y, rem |-> z]
  BY <1>1, <1>3, DivModExact
<1>5. Codec!NextInColumn(acc, d) = [quo |-> Append(acc.quo, y), rem |-> z]
  <2>1. x = d + acc.rem * LimbBase
    BY <1>r, <1>x
  <2>2. Codec!NextInColumn(acc, d) = [quo |-> Append(acc.quo, Codec!DivMod(x).quo),
                                      rem |-> Codec!DivMod(x).rem]
    BY <2>1 DEF Codec!NextInColumn
  <2>3. Codec!DivMod(x).quo = y /\ Codec!DivMod(x).rem = z
    BY <1>4
  <2> QED
    BY <2>2, <2>3
<1>6. /\ z \in 0 .. (Radix - 1)
      /\ Append(acc.quo, y) \in Seq(0 .. (LimbBase - 1))
      /\ p * LimbBase + d = Value(Append(acc.quo, y), LimbBase) * Radix + z
  <2>1. y = (d + acc.rem * LimbBase) \div Radix /\ z = (d + acc.rem * LimbBase) % Radix
    BY <1>r, <1>x, <1>1
  <2>2. PICK b, v : b = LimbBase /\ v = Radix
    OBVIOUS
  <2>3. /\ b \in Nat \ {0} /\ v \in Nat \ {0} /\ Divided(acc, p, b, v) /\ d \in 0 .. (b - 1)
        /\ y = (d + acc.rem * b) \div v /\ z = (d + acc.rem * b) % v
    BY <1>0, <2>1, <2>2
  <2>4. /\ z \in 0 .. (v - 1)
        /\ Append(acc.quo, y) \in Seq(0 .. (b - 1))
        /\ p * b + d = Value(Append(acc.quo, y), b) * v + z
    BY <2>3, BringDown
  <2> QED
    BY <2>2, <2>4
<1>7. PICK e : e = Codec!NextInColumn(acc, d)
  OBVIOUS
<1>8. e.quo = Append(acc.quo, y) /\ e.rem = z /\ DOMAIN e = {"quo", "rem"}
  BY <1>5, <1>7
<1> QED
  BY <1>6, <1>7, <1>8 DEF Divided

(* What the columns hold is what their digits so far stand for. *)
Columns == [quo : Seq(0 .. (LimbBase - 1)), rem : 0 .. (Radix - 1)]

(* One step of the column division is of its type. *)
LEMMA NextInColumnTyped ==
  ASSUME NEW acc \in Columns, NEW d \in 0 .. (LimbBase - 1)
  PROVE  Codec!NextInColumn(acc, d) \in Columns
<1>0. LimbBase \in Nat \ {0} /\ Radix \in Nat \ {0}
  BY CodecWidths
<1>1. acc.quo \in Seq(0 .. (LimbBase - 1)) /\ acc.quo \in Seq(Nat) /\ acc.rem \in 0 .. (Radix - 1)
  BY <1>0 DEF Columns
<1>2. PICK p : p = Value(acc.quo, LimbBase) * Radix + acc.rem
  OBVIOUS
<1>3. p \in Nat
  <2>1. Value(acc.quo, LimbBase) \in Nat
    BY <1>0, <1>1, ValueTyped
  <2> QED
    BY <1>0, <1>1, <1>2, <2>1
<1>4. Divided(acc, p, LimbBase, Radix)
  BY <1>1, <1>2 DEF Divided
<1>5. PICK e : e = Codec!NextInColumn(acc, d)
  OBVIOUS
<1>6. e.quo \in Seq(0 .. (LimbBase - 1)) /\ e.rem \in 0 .. (Radix - 1)
  BY <1>3, <1>4, <1>5, ColumnStep DEF Divided
<1>7. e = [quo |-> e.quo, rem |-> e.rem]
  BY <1>5 DEF Codec!NextInColumn
<1> QED
  BY <1>5, <1>6, <1>7 DEF Columns

(* The equations of the column division (encode_avx2.c, the limb loop). *)
LEMMA ColumnUnfold ==
  ASSUME NEW s \in Seq(0 .. (LimbBase - 1))
  PROVE  /\ Codec!ColumnPasses(s)[0] = [quo |-> << >>, rem |-> 0]
         /\ \A k \in 1 .. Len(s) :
              Codec!ColumnPasses(s)[k] = Codec!NextInColumn(Codec!ColumnPasses(s)[k - 1], s[k])
<1>0. Len(s) \in Nat /\ LimbBase \in Nat \ {0} /\ Radix \in Nat \ {0}
  BY CodecWidths
<1> DEFINE m == Len(s)
           none == [quo |-> << >>, rem |-> 0]
           d(k) == IF k \in 1 .. m THEN s[k] ELSE 0
           g == [x \in Nat \X Columns |-> Codec!NextInColumn(x[2], d(x[1]))]
           Def(h) == [k \in 0 .. m |-> IF k = 0 THEN none
                                       ELSE Codec!NextInColumn(h[k - 1], s[k])]
           f == Codec!ColumnPasses(s)
<1>1. (\A k \in Nat : d(k) \in 0 .. (LimbBase - 1)) /\ none \in Columns
  BY <1>0 DEF Columns
<1> HIDE DEF m
<1>2. StepOn(g, Columns)
  <2>1. ASSUME NEW x \in Nat \X Columns
        PROVE  Codec!NextInColumn(x[2], d(x[1])) \in Columns
    <3>1. x[2] \in Columns /\ d(x[1]) \in 0 .. (LimbBase - 1)
      BY <1>1
    <3> HIDE DEF d
    <3> QED
      BY <3>1, NextInColumnTyped
  <2> HIDE DEF d
  <2> QED
    BY <2>1 DEF StepOn
<1>3. \A k \in 1 .. m, p \in Columns : g[<< k, p >>] = Codec!NextInColumn(p, s[k])
  <2>1. ASSUME NEW k \in 1 .. m, NEW p \in Columns
        PROVE  g[<< k, p >>] = Codec!NextInColumn(p, s[k])
    <3>1. << k, p >> \in Nat \X Columns
      BY <1>0 DEF m
    <3> QED
      BY <3>1
  <2> QED
    BY <2>1
<1> HIDE DEF g
<1>4. PICK h : Iterates(h, m, Columns, none, g)
  <2> HIDE DEF none
  <2> QED
    BY <1>0, <1>1, <1>2, RecursionExists DEF m
<1>5. h = Def(h)
  <2>1. ASSUME NEW k \in 0 .. m
        PROVE  h[k] = IF k = 0 THEN none ELSE Codec!NextInColumn(h[k - 1], s[k])
    <3>1. CASE k = 0
      BY <1>4, <3>1 DEF Iterates
    <3>2. CASE k # 0
      <4>1. k \in 1 .. m /\ k - 1 \in 0 .. m
        BY <1>0, <3>2 DEF m
      <4>2. h[k - 1] \in Columns /\ h[k] = g[<< k, h[k - 1] >>]
        BY <1>4, <4>1 DEF Iterates
      <4> QED
        BY <1>3, <3>2, <4>1, <4>2
    <3> QED
      BY <3>1, <3>2
  <2>2. h = [k \in 0 .. m |-> h[k]]
    BY <1>4 DEF Iterates
  <2> QED
    BY <2>1, <2>2
<1>6. f = Def(f)
  <2>1. f = CHOOSE e : e = Def(e)
    BY DEF Codec!ColumnPasses, m
  <2> HIDE DEF Def, f
  <2> QED
    BY <1>5, <2>1
<1> HIDE DEF f
<1>7. \A k \in 0 .. m : f[k] = IF k = 0 THEN none ELSE Codec!NextInColumn(f[k - 1], s[k])
  BY <1>6
<1>8. f[0] = none /\ \A k \in 1 .. m : f[k] = Codec!NextInColumn(f[k - 1], s[k])
  BY <1>0, <1>7 DEF m
<1> QED
  BY <1>8 DEF m, f

(* One pass of the AVX2 encoder's columns divides the number by the radix. *)
LEMMA ColumnExact ==
  ASSUME NEW s \in Seq(0 .. (LimbBase - 1))
  PROVE  Divided(Codec!DivideColumn(s), Value(s, LimbBase), LimbBase, Radix)
<1> DEFINE f == Codec!ColumnPasses(s)
           S == {k \in Nat : k <= Len(s) =>
                   Divided(f[k], Prefixes(s, LimbBase)[k], LimbBase, Radix)}
<1>0. s \in Seq(Nat) /\ Len(s) \in Nat /\ LimbBase \in Nat /\ LimbBase \in Nat \ {0}
      /\ Radix \in Nat \ {0}
  BY CodecWidths
<1>u. /\ f[0] = [quo |-> << >>, rem |-> 0]
      /\ \A k \in 1 .. Len(s) : f[k] = Codec!NextInColumn(f[k - 1], s[k])
  BY ColumnUnfold
<1> HIDE DEF f
<1>1. 0 \in S
  <2>1. f[0].quo = << >> /\ f[0].rem = 0 /\ Prefixes(s, LimbBase)[0] = 0
        /\ Value(<< >>, LimbBase) = 0
    BY <1>0, <1>u, PrefixZero, ValueEmpty
  <2>2. << >> \in Seq(0 .. (LimbBase - 1)) /\ 0 \in 0 .. (Radix - 1) /\ 0 = 0 * Radix + 0
    BY <1>0
  <2> QED
    BY <2>1, <2>2 DEF Divided
<1>2. ASSUME NEW k \in S PROVE k + 1 \in S
  <2>1. k \in Nat /\ k + 1 \in Nat /\ (k + 1) - 1 = k
    OBVIOUS
  <2>2. CASE k + 1 <= Len(s)
    <3>1. k + 1 \in 1 .. Len(s) /\ k <= Len(s)
      BY <1>0, <2>1, <2>2
    <3>2. Divided(f[k], Prefixes(s, LimbBase)[k], LimbBase, Radix)
      BY <3>1
    <3>3. PICK p, d, acc : p = Prefixes(s, LimbBase)[k] /\ d = s[k + 1] /\ acc = f[k]
      OBVIOUS
    <3>4. p \in Nat /\ Prefixes(s, LimbBase)[k + 1] = p * LimbBase + d
      BY <1>0, <2>1, <2>2, <3>3, PrefixStep
    <3>5. d \in 0 .. (LimbBase - 1)
      BY <1>0, <3>1, <3>3
    <3>6. f[k + 1] = Codec!NextInColumn(acc, d)
      BY <1>u, <2>1, <3>1, <3>3
    <3>7. Divided(Codec!NextInColumn(acc, d), p * LimbBase + d, LimbBase, Radix)
      BY <3>2, <3>3, <3>4, <3>5, ColumnStep
    <3> QED
      BY <2>1, <3>4, <3>6, <3>7
  <2> QED
    BY <2>1, <2>2
<1>3. S = Nat
  <2>1. S \in SUBSET Nat
    OBVIOUS
  <2> HIDE DEF S
  <2> QED
    BY <1>1, <1>2, <2>1, SetInduction
<1>4. Len(s) \in S
  <2> HIDE DEF S
  <2> QED
    BY <1>0, <1>3
<1>5. Divided(f[Len(s)], Prefixes(s, LimbBase)[Len(s)], LimbBase, Radix)
  BY <1>0, <1>4
<1> QED
  BY <1>5 DEF f, Value, Codec!DivideColumn

(* A function on 1 .. m is a sequence of length m. *)
LEMMA AsSequence ==
  ASSUME NEW A, NEW m \in Nat, NEW f \in [1 .. m -> A]
  PROVE  f \in Seq(A) /\ Len(f) = m
  OBVIOUS

(* One round of a conversion: a digit of the result is split off the       *)
(* number that is left.                                                    *)
LEMMA RoundKeeps ==
  ASSUME NEW b \in Nat \ {0}, NEW v \in Nat \ {0}, NEW m \in Nat, NEW k \in 1 .. m,
         NEW p \in Nat, NEW acc, Divided(acc, p, b, v),
         NEW s, NEW t, Len(s) = m, Filled(s, t, k, acc.rem)
  PROVE  p * Power(v, m - k) + Value(s, v)
           = Value(acc.quo, b) * Power(v, m - (k - 1)) + Value(t, v)
<1>0. v \in Nat /\ b \in Nat /\ m - k \in Nat /\ (m - k) + 1 = m - (k - 1)
  OBVIOUS
<1>1. PICK w, y, z, e : w = Power(v, m - k) /\ y = Value(acc.quo, b) /\ z = Value(s, v) /\ e = acc.rem
  OBVIOUS
<1>2. w \in Nat /\ Power(v, m - (k - 1)) = w * v
  BY <1>0, <1>1, PowerStep
<1>3. y \in Nat /\ e \in Nat /\ p = y * v + e
  <2>1. acc.quo \in Seq(Nat) /\ acc.rem \in Nat
    BY DEF Divided
  <2>2. y \in Nat /\ e \in Nat
    BY <1>0, <1>1, <2>1, ValueTyped
  <2>3. p = y * v + e
    BY <1>1 DEF Divided
  <2> QED
    BY <2>2, <2>3
<1>4. z \in Nat
  <2>1. s \in Seq(Nat)
    BY DEF Filled
  <2> QED
    BY <1>0, <1>1, <2>1, ValueTyped
<1>5. Value(t, v) = z + e * w
  <2>1. Value(t, v) = Value(s, v) + acc.rem * Power(v, Len(s) - k)
    BY <1>0, ValueSet
  <2> QED
    BY <1>1, <2>1
<1>6. p * w + z = (y * v + e) * w + z
  BY <1>3
<1>7. (y * v + e) * w + z = y * (w * v) + (z + e * w)
  <2>1. PICK k1, k2 : k1 = y * (w * v) /\ k2 = e * w
    OBVIOUS
  <2>2. (y * v + e) * w = k1 + k2 /\ k1 \in Nat /\ k2 \in Nat
    BY <1>0, <1>2, <1>3, <2>1
  <2>3. (k1 + k2) + z = k1 + (z + k2)
    BY <1>4, <2>2
  <2> QED
    BY <2>1, <2>2, <2>3
<1> QED
  BY <1>1, <1>2, <1>5, <1>6, <1>7

(* What is left to convert after a round fits one digit less. *)
LEMMA RoundShrinks ==
  ASSUME NEW b \in Nat \ {0}, NEW v \in Nat \ {0}, NEW k \in Nat \ {0}, NEW p \in Nat, NEW acc,
         Divided(acc, p, b, v), p < Power(v, k)
  PROVE  Value(acc.quo, b) < Power(v, k - 1)
<1>1. PICK w, y, e : w = Power(v, k - 1) /\ y = Value(acc.quo, b) /\ e = acc.rem
  OBVIOUS
<1>2. w \in Nat /\ Power(v, k) = w * v
  <2>1. k - 1 \in Nat /\ (k - 1) + 1 = k
    OBVIOUS
  <2> QED
    BY <1>1, <2>1, PowerStep
<1>3. y \in Nat /\ e \in Nat /\ p = y * v + e
  <2>1. acc.quo \in Seq(Nat) /\ acc.rem \in Nat
    BY DEF Divided
  <2> QED
    BY <1>1, <2>1, ValueTyped DEF Divided
<1>4. ~(w <= y)
  <2>1. SUFFICES ASSUME w <= y PROVE FALSE
    OBVIOUS
  <2>2. w * v <= y * v /\ w * v \in Nat /\ y * v \in Nat
    BY <1>2, <1>3, <2>1, ProductOrder
  <2> QED
    BY <1>2, <1>3, <2>2
<1> QED
  BY <1>1, <1>2, <1>3, <1>4

-----------------------------------------------------------------------------
(* One round of any of the three loops. *)
LEMMA ConvertingRound ==
  ASSUME NEW b \in Nat \ {0}, NEW v \in Nat \ {0}, NEW m \in Nat, Codec!Converting(b, v, m),
         n \in 1 .. m, NEW acc, Divided(acc, Value(bp, b), b, v),
         bp' = acc.quo, buf' = [buf EXCEPT ![n] = acc.rem], n' = n - 1, input' = input
  PROVE  Codec!Converting(b, v, m)'
<1>0. /\ input \in Seq(0 .. (b - 1)) /\ bp \in Seq(0 .. (b - 1)) /\ n \in 0 .. m
      /\ buf \in [1 .. m -> {-1} \cup 0 .. (v - 1)]
      /\ \A i \in (n + 1) .. m : buf[i] # -1
      /\ Value(input, b) = Value(bp, b) * Power(v, m - n) + Value(Codec!Padded, v)
  BY CodecNumerals DEF Codec!Converting, Codec!Blank
<1>1. acc.quo \in Seq(0 .. (b - 1)) /\ acc.rem \in 0 .. (v - 1)
  BY DEF Divided
<1>2. PICK s, t : s = Codec!Padded /\ t = Codec!Padded'
  OBVIOUS
<1>3. /\ buf' \in [1 .. m -> {-1} \cup 0 .. (v - 1)] /\ buf'[n] = acc.rem
      /\ \A i \in 1 .. m : i # n => buf'[i] = buf[i]
      /\ \A i \in (n' + 1) .. m : buf'[i] # -1
  BY <1>0, <1>1
<1>4. s = [i \in 1 .. m |-> IF i <= n THEN 0 ELSE buf[i]]
  BY <1>0, <1>2 DEF Codec!Padded
<1>5. t = [i \in 1 .. m |-> IF i <= n' THEN 0 ELSE buf'[i]]
  BY <1>2, <1>3 DEF Codec!Padded
<1>6. s \in [1 .. m -> Nat]
  BY <1>0, <1>4
<1>7. t \in [1 .. m -> Nat]
  BY <1>3, <1>5
<1>8. s[n] = 0 /\ t[n] = acc.rem /\ \A i \in 1 .. m : i # n => s[i] = t[i]
  BY <1>0, <1>3, <1>4, <1>5
<1>9. Value(bp, b) \in Nat
  <2>1. bp \in Seq(Nat) /\ b \in Nat
    BY <1>0
  <2> QED
    BY <2>1, ValueTyped
<1>10. PICK p, k : p = Value(bp, b) /\ k = n
  OBVIOUS
<1>11. p * Power(v, m - k) + Value(s, v)
         = Value(acc.quo, b) * Power(v, m - (k - 1)) + Value(t, v)
  <2>1. /\ k \in 1 .. m /\ p \in Nat /\ Divided(acc, p, b, v)
    BY <1>9, <1>10
  <2>2. Len(s) = m /\ Len(t) = m /\ s \in Seq(Nat) /\ t \in Seq(Nat)
    BY <1>6, <1>7, AsSequence
  <2>3. Filled(s, t, k, acc.rem)
    BY <1>8, <1>10, <2>2 DEF Filled
  <2> QED
    BY <2>1, <2>2, <2>3, RoundKeeps
<1>12. Value(input', b) = Value(bp', b) * Power(v, m - n') + Value(Codec!Padded', v)
  <2>1. Value(input, b) = p * Power(v, m - k) + Value(s, v)
    BY <1>0, <1>2, <1>10
  <2>2. Value(bp', b) = Value(acc.quo, b) /\ m - n' = m - (k - 1) /\ Codec!Padded' = t
    BY <1>2, <1>10
  <2> QED
    BY <1>11, <2>1, <2>2
<1>13. n' \in 0 .. m
  BY <1>0
<1> QED
  BY <1>0, <1>1, <1>3, <1>12, <1>13, CodecNumerals DEF Codec!Converting, Codec!Blank

(* A numeral of zeros is zero. *)
LEMMA ValueOfZeros ==
  ASSUME NEW b \in Nat, NEW m \in Nat, NEW s, s = [i \in 1 .. m |-> 0]
  PROVE  Value(s, b) = 0
<1>0. s \in Seq(Nat) /\ Len(s) = m /\ \A i \in 1 .. m : s[i] = 0
  OBVIOUS
<1> DEFINE S == {k \in Nat : k <= m => Prefixes(s, b)[k] = 0}
<1>1. 0 \in S
  BY <1>0, PrefixZero
<1>2. ASSUME NEW k \in S PROVE k + 1 \in S
  <2>1. k \in Nat /\ k + 1 \in Nat
    OBVIOUS
  <2>2. CASE k + 1 <= m
    <3>1. k + 1 <= Len(s) /\ k <= m /\ k + 1 \in 1 .. m
      BY <1>0, <2>1, <2>2
    <3>2. Prefixes(s, b)[k] = 0 /\ s[k + 1] = 0
      BY <1>0, <3>1
    <3>3. Prefixes(s, b)[k + 1] = Prefixes(s, b)[k] * b + s[k + 1]
      BY <1>0, <2>1, <3>1, PrefixStep
    <3>4. Prefixes(s, b)[k + 1] = 0
      BY <3>2, <3>3
    <3> QED
      BY <2>1, <3>4
  <2> QED
    BY <2>1, <2>2
<1>3. S = Nat
  <2>1. S \in SUBSET Nat
    OBVIOUS
  <2> HIDE DEF S
  <2> QED
    BY <1>1, <1>2, <2>1, SetInduction
<1>4. m \in S
  <2> HIDE DEF S
  <2> QED
    BY <1>3
<1> QED
  BY <1>0, <1>4 DEF Value

(* A conversion begins with everything still to be converted. *)
LEMMA ConvertingBegins ==
  ASSUME NEW b \in Nat \ {0}, NEW v \in Nat \ {0}, NEW m \in Nat,
         input' \in Seq(0 .. (b - 1)), bp' = input', n' = m,
         buf' = [i \in 1 .. m |-> -1]
  PROVE  Codec!Converting(b, v, m)'
<1>1. PICK s, x : s = Codec!Padded' /\ x = input'
  OBVIOUS
<1>2. s = [i \in 1 .. m |-> 0]
  BY <1>1 DEF Codec!Padded
<1>3. Value(s, v) = 0
  BY <1>2, ValueOfZeros
<1>4. Value(x, b) \in Nat
  <2>1. x \in Seq(Nat)
    BY <1>1
  <2> QED
    BY <2>1, ValueTyped
<1>5. Power(v, m - n') = 1
  BY PowerStep
<1>6. Value(input', b) = Value(bp', b) * Power(v, m - n') + Value(Codec!Padded', v)
  BY <1>1, <1>3, <1>4, <1>5
<1>7. /\ buf' \in [1 .. m -> {-1} \cup 0 .. (v - 1)] /\ n' \in 0 .. m
      /\ \A i \in (n' + 1) .. m : buf'[i] # -1
  OBVIOUS
<1> QED
  BY <1>6, <1>7, CodecNumerals DEF Codec!Converting, Codec!Blank

(* When nothing is left, the padded cells are the whole result. *)
LEMMA ConvertingEnds ==
  ASSUME NEW b \in Nat \ {0}, NEW v \in Nat \ {0}, NEW m \in Nat, Codec!Converting(b, v, m),
         Value(bp, b) = 0
  PROVE  /\ Codec!Padded \in [1 .. m -> 0 .. (v - 1)]
         /\ Value(input, b) = Value(Codec!Padded, v)
         /\ n = 0 => Codec!Padded = buf
<1>0. /\ n \in 0 .. m
      /\ buf \in [1 .. m -> {-1} \cup 0 .. (v - 1)]
      /\ \A i \in (n + 1) .. m : buf[i] # -1
      /\ Value(input, b) = Value(bp, b) * Power(v, m - n) + Value(Codec!Padded, v)
  BY CodecNumerals DEF Codec!Converting, Codec!Blank
<1>1. PICK s : s = Codec!Padded
  OBVIOUS
<1>2. s = [i \in 1 .. m |-> IF i <= n THEN 0 ELSE buf[i]]
  BY <1>0, <1>1 DEF Codec!Padded
<1>3. s \in [1 .. m -> 0 .. (v - 1)]
  <2>1. ASSUME NEW i \in 1 .. m PROVE (IF i <= n THEN 0 ELSE buf[i]) \in 0 .. (v - 1)
    <3>1. CASE i <= n
      BY <3>1
    <3>2. CASE ~(i <= n)
      <4>1. i \in (n + 1) .. m
        BY <1>0, <3>2
      <4> QED
        BY <1>0, <3>2, <4>1
    <3> QED
      BY <3>1, <3>2
  <2> QED
    BY <1>2, <2>1
<1>4. Value(s, v) \in Nat
  <2>1. s \in [1 .. m -> Nat]
    BY <1>3
  <2>2. s \in Seq(Nat)
    BY <2>1, AsSequence
  <2> QED
    BY <2>2, ValueTyped
<1>5. Power(v, m - n) \in Nat
  <2>1. m - n \in Nat /\ v \in Nat
    BY <1>0
  <2> QED
    BY <2>1, PowerStep
<1>6. Value(input, b) = Value(s, v)
  BY <1>0, <1>1, <1>4, <1>5
<1>7. n = 0 => s = buf
  BY <1>0, <1>2
<1> QED
  BY <1>1, <1>3, <1>6, <1>7

-----------------------------------------------------------------------------
(* EncodeExact and DecodeExact in terms of the numerals. *)
LEMMA CodecInit == Codec!Init => Codec!ConversionInv
<1> SUFFICES ASSUME Codec!Init PROVE Codec!ConversionInv
  OBVIOUS
<1>1. /\ op = "idle" /\ input = << >> /\ bp = << >> /\ buf = << >> /\ n = 0
      /\ parsed = << >> /\ parse_ret = "OK"
  BY DEF Codec!Init, Codec!Kept
<1>2. Codec!TypeOK
  BY <1>1, CodecWidths DEF Codec!TypeOK, Codec!Kept
<1> QED
  BY <1>1, <1>2 DEF Codec!ConversionInv, Codec!EncodeExact, Codec!DecodeExact, Codec!Kept

(* The strings of a KSUID's length cover its numbers. *)
LEMMA IdFits ==
  ASSUME NEW x \in Codec!Ids
  PROVE  /\ x \in Seq(0 .. (LimbBase - 1))
         /\ Value(x, LimbBase) < Power(Radix, Digits)
<1>1. /\ LimbBase \in Nat \ {0} /\ Limbs \in Nat
  BY CodecWidths
<1>2. x \in [1 .. Limbs -> 0 .. (LimbBase - 1)]
  BY DEF Codec!Ids, Codec!Limb
<1>3. x \in Seq(0 .. (LimbBase - 1)) /\ Len(x) = Limbs
  BY <1>1, <1>2, AsSequence
<1>4. Value(x, LimbBase) < Power(LimbBase, Limbs)
  BY <1>1, <1>3, ValueBound
<1>5. Power(LimbBase, Limbs) \in Nat /\ Power(Radix, Digits) \in Nat
  BY <1>1, CodecWidths, PowerStep
<1>6. Power(LimbBase, Limbs) <= Power(Radix, Digits)
  BY <1>5, CodecFits, CodecNumerals DEF Codec!ConstantsFit
<1>7. Value(x, LimbBase) \in Nat
  <2>1. x \in Seq(Nat)
    BY <1>1, <1>3
  <2> QED
    BY <1>1, <2>1, ValueTyped
<1> QED
  BY <1>3, <1>4, <1>5, <1>6, <1>7

(* Both encoders start with the whole identifier before them. *)
LEMMA EncodeBeginsKeeps ==
  ASSUME Codec!ConversionInv, op = "idle", NEW x \in Codec!Ids, NEW how \in {"encode", "columns"},
         Codec!EncodeBegins(x, how)
  PROVE  Codec!ConversionInv'
<1>0. /\ op' = how /\ input' = x /\ bp' = x /\ n' = Digits
      /\ buf' = [i \in 1 .. Digits |-> -1] /\ parsed' = parsed /\ parse_ret' = parse_ret
  BY DEF Codec!EncodeBegins, Codec!Blank
<1>1. x \in Seq(0 .. (LimbBase - 1)) /\ Value(x, LimbBase) < Power(Radix, Digits)
  BY IdFits
<1>2. Codec!Converting(LimbBase, Radix, Digits)'
  BY <1>0, <1>1, CodecWidths, ConvertingBegins
<1>3. Codec!TypeOK'
  <2>1. bp' \in Seq(Nat) /\ DOMAIN buf' = 1 .. Digits /\ n' \in DOMAIN buf'
    BY <1>0, <1>1, CodecWidths
  <2> QED
    BY <1>0, <2>1 DEF Codec!ConversionInv, Codec!TypeOK
<1>4. Codec!Value(bp', LimbBase) < Codec!Power(Radix, n')
  BY <1>0, <1>1, CodecNumerals
<1> QED
  BY <1>0, <1>2, <1>3, <1>4, CodecWidths
     DEF Codec!ConversionInv, Codec!EncodeExact, Codec!DecodeExact

(* So does the decoder with the translated string. *)
LEMMA DecodeBeginsKeeps ==
  ASSUME Codec!ConversionInv, op = "idle", NEW x \in Codec!Texts, Codec!DecodeBegins(x)
  PROVE  Codec!ConversionInv'
<1>0. /\ input' = x /\ bp' = x /\ n' = Limbs
      /\ buf' = [i \in 1 .. Limbs |-> -1] /\ parsed' = parsed /\ parsed = << >>
      /\ x \in [1 .. Digits -> 0 .. Radix]
  BY DEF Codec!DecodeBegins, Codec!Blank, Codec!ConversionInv, Codec!Kept, Codec!Texts, Codec!Chars
<1>1. \/ op' = "rejected" /\ parse_ret' = "ERR_STR_VALUE" /\ \E i \in 1 .. Digits : x[i] = Radix
      \/ op' = "decode" /\ parse_ret' = parse_ret /\ \A i \in 1 .. Digits : x[i] # Radix
  BY DEF Codec!DecodeBegins
<1>2. Codec!TypeOK'
  <2>1. bp' \in Seq(Nat) /\ DOMAIN buf' = 1 .. Limbs /\ n' \in DOMAIN buf'
    <3>1. x \in [1 .. Digits -> Nat]
      BY <1>0, CodecWidths
    <3>2. x \in Seq(Nat)
      BY <3>1, CodecWidths, AsSequence
    <3> QED
      BY <1>0, <3>2, CodecWidths
  <2> QED
    BY <1>0, <1>1, <2>1 DEF Codec!ConversionInv, Codec!TypeOK
<1>3. ASSUME op' = "decode" PROVE Codec!Converting(Radix, LimbBase, Limbs)'
  <2>1. x \in [1 .. Digits -> 0 .. (Radix - 1)]
    BY <1>0, <1>1, <1>3, CodecWidths
  <2>2. x \in Seq(0 .. (Radix - 1))
    BY <2>1, CodecWidths, AsSequence
  <2> QED
    BY <1>0, <2>2, CodecWidths, ConvertingBegins
<1> QED
  BY <1>0, <1>1, <1>2, <1>3, CodecWidths
     DEF Codec!ConversionInv, Codec!EncodeExact, Codec!DecodeExact, Codec!Kept

(* A string of the wrong length is refused before any conversion. *)
LEMMA ParseWrongLengthKeeps ==
  ASSUME Codec!ConversionInv, op = "idle", Codec!ParseWrongLength
  PROVE  Codec!ConversionInv'
<1>0. /\ op' = "rejected" /\ parse_ret' = "ERR_STR_SIZE"
      /\ input' = input /\ bp' = bp /\ n' = n /\ buf' = buf /\ parsed' = parsed /\ parsed = << >>
  BY DEF Codec!ParseWrongLength, Codec!ConversionInv, Codec!Kept
<1>1. Codec!TypeOK'
  BY <1>0 DEF Codec!ConversionInv, Codec!TypeOK
<1> QED
  BY <1>0, <1>1 DEF Codec!ConversionInv, Codec!EncodeExact, Codec!DecodeExact, Codec!Kept

(* The next call starts over. *)
LEMMA CodecAgainKeeps ==
  ASSUME Codec!ConversionInv, Codec!Again
  PROVE  Codec!ConversionInv'
<1>0. /\ op' = "idle" /\ parse_ret' = parse_ret /\ parsed' = << >>
      /\ input' = << >> /\ bp' = << >> /\ n' = 0 /\ buf' = << >>
  BY DEF Codec!Again, Codec!Kept
<1>1. Codec!TypeOK'
  BY <1>0, CodecWidths DEF Codec!ConversionInv, Codec!TypeOK, Codec!Kept
<1> QED
  BY <1>0, <1>1 DEF Codec!ConversionInv, Codec!EncodeExact, Codec!DecodeExact, Codec!Kept

(* What a conversion under way makes of the types. *)
LEMMA ConvertingTyped ==
  ASSUME NEW b \in Nat \ {0}, NEW v \in Nat \ {0}, NEW m \in Nat, Codec!Converting(b, v, m)
  PROVE  /\ bp \in Seq(0 .. (b - 1)) /\ bp \in Seq(Nat) /\ Value(bp, b) \in Nat
         /\ DOMAIN buf = 1 .. m /\ n \in 0 .. m /\ n \in {0} \cup DOMAIN buf
         /\ buf \in [1 .. m -> {-1} \cup 0 .. (v - 1)]
<1>1. /\ bp \in Seq(0 .. (b - 1)) /\ n \in 0 .. m
      /\ buf \in [1 .. m -> {-1} \cup 0 .. (v - 1)]
  BY DEF Codec!Converting, Codec!Blank
<1>2. bp \in Seq(Nat) /\ b \in Nat
  BY <1>1
<1>3. Value(bp, b) \in Nat
  BY <1>2, ValueTyped
<1>4. DOMAIN buf = 1 .. m /\ n \in {0} \cup 1 .. m
  BY <1>1
<1> QED
  BY <1>1, <1>2, <1>3, <1>4

(* An encoder still has room for a digit that is not zero. *)
LEMMA EncodeHasRoom ==
  ASSUME Codec!ConversionInv, op = "encode", bp # << >>
  PROVE  n \in 1 .. Digits
<1>0. /\ Codec!Converting(LimbBase, Radix, Digits) /\ Value(bp, LimbBase) < Power(Radix, n)
      /\ n < Digits => bp[1] # 0
  BY CodecNumerals DEF Codec!ConversionInv
<1>1. LimbBase \in Nat \ {0} /\ Radix \in Nat \ {0} /\ Digits \in Nat \ {0} /\ Radix \in Nat
  BY CodecWidths
<1>2. bp \in Seq(Nat) /\ Value(bp, LimbBase) \in Nat /\ n \in 0 .. Digits
  BY <1>0, <1>1, ConvertingTyped
<1>3. ASSUME n = 0 PROVE FALSE
  <2>1. Value(bp, LimbBase) >= 1
    BY <1>0, <1>1, <1>2, <1>3, ValuePositive
  <2>2. Power(Radix, n) = 1
    BY <1>1, <1>3, PowerStep
  <2> QED
    BY <1>0, <1>2, <2>1, <2>2
<1> QED
  BY <1>1, <1>2, <1>3

(* One round of an encoder, whose division is exact. *)
LEMMA EncoderRoundKeeps ==
  ASSUME Codec!ConversionInv, op \in {"encode", "columns"}, n \in 1 .. Digits,
         NEW acc, Divided(acc, Value(bp, LimbBase), LimbBase, Radix),
         op = "encode" => Trim(acc.quo),
         bp' = acc.quo, buf' = [buf EXCEPT ![n] = acc.rem], n' = n - 1,
         UNCHANGED <<op, input, parsed, parse_ret>>
  PROVE  Codec!ConversionInv'
<1>0. Codec!Converting(LimbBase, Radix, Digits) /\ Value(bp, LimbBase) < Power(Radix, n)
  BY CodecNumerals DEF Codec!ConversionInv
<1>1. LimbBase \in Nat \ {0} /\ Radix \in Nat \ {0} /\ Digits \in Nat
  BY CodecWidths
<1>2. Codec!Converting(LimbBase, Radix, Digits)'
  BY <1>0, <1>1, ConvertingRound
<1>3. Value(bp', LimbBase) < Power(Radix, n')
  <2>1. PICK p, k : p = Value(bp, LimbBase) /\ k = n
    OBVIOUS
  <2>2. p \in Nat /\ k \in Nat \ {0}
    BY <1>0, <1>1, <2>1, ConvertingTyped
  <2>3. Value(acc.quo, LimbBase) < Power(Radix, k - 1)
    BY <1>0, <1>1, <2>1, <2>2, RoundShrinks
  <2> QED
    BY <2>1, <2>3
<1>4. Codec!TypeOK'
  <2>1. acc.quo \in Seq(Nat)
    BY <1>1 DEF Divided
  <2>2. n' \in {0} \cup DOMAIN buf' /\ DOMAIN buf' = DOMAIN buf
    BY <1>0, <1>1, ConvertingTyped
  <2> QED
    BY <2>1, <2>2 DEF Codec!ConversionInv, Codec!TypeOK
<1>5. op = "encode" => bp' = << >> \/ bp'[1] # 0
  BY DEF Trim
<1> QED
  BY <1>2, <1>3, <1>4, <1>5, CodecNumerals
     DEF Codec!ConversionInv, Codec!EncodeExact, Codec!DecodeExact

(* A round of the scalar encoder. *)
LEMMA EncodeRoundKeeps ==
  ASSUME Codec!ConversionInv, Codec!EncodeRound
  PROVE  Codec!ConversionInv'
<1>0. op = "encode" /\ bp # << >>
  BY DEF Codec!EncodeRound
<1>1. LimbBase \in Nat \ {0} /\ Radix \in Nat \ {0} /\ Digits \in Nat /\ LimbBase \in Nat
      /\ LimbBase >= LimbBase
  BY CodecWidths
<1>2. n \in 1 .. Digits
  BY <1>0, EncodeHasRoom
<1>3. bp \in Seq(0 .. (LimbBase - 1))
  BY <1>0, <1>1, ConvertingTyped DEF Codec!ConversionInv
<1>4. PICK acc : acc = Codec!DivideTrimmed(bp, LimbBase, Radix, LimbBase)
  OBVIOUS
<1>5. Divided(acc, Value(bp, LimbBase), LimbBase, Radix) /\ Trim(acc.quo)
  BY <1>1, <1>3, <1>4, TrimmedExact
<1>6. /\ bp' = acc.quo /\ buf' = [buf EXCEPT ![n] = acc.rem] /\ n' = n - 1
      /\ UNCHANGED <<op, input, parsed, parse_ret>>
  BY <1>4 DEF Codec!EncodeRound
<1> QED
  BY <1>0, <1>2, <1>5, <1>6, EncoderRoundKeeps

(* A round of the AVX2 encoder. *)
LEMMA ColumnRoundKeeps ==
  ASSUME Codec!ConversionInv, Codec!ColumnRound
  PROVE  Codec!ConversionInv'
<1>0. op = "columns" /\ n > 0
  BY DEF Codec!ColumnRound
<1>1. LimbBase \in Nat \ {0} /\ Radix \in Nat \ {0} /\ Digits \in Nat
  BY CodecWidths
<1>2. bp \in Seq(0 .. (LimbBase - 1)) /\ n \in 1 .. Digits
  BY <1>0, <1>1, ConvertingTyped DEF Codec!ConversionInv
<1>4. PICK acc : acc = Codec!DivideColumn(bp)
  OBVIOUS
<1>5. Divided(acc, Value(bp, LimbBase), LimbBase, Radix)
  BY <1>1, <1>2, <1>4, ColumnExact
<1>6. /\ bp' = acc.quo /\ buf' = [buf EXCEPT ![n] = acc.rem] /\ n' = n - 1
      /\ UNCHANGED <<op, input, parsed, parse_ret>>
  BY <1>4 DEF Codec!ColumnRound
<1> QED
  BY <1>0, <1>2, <1>5, <1>6, EncoderRoundKeeps

(* An encoder ends with the padded cells when nothing is left. *)
LEMMA EncoderEndKeeps ==
  ASSUME Codec!ConversionInv, op \in {"encode", "columns"}, Value(bp, LimbBase) = 0,
         buf' = Codec!Padded, op' = "encoded", parse_ret' = "OK",
         UNCHANGED <<input, bp, n, parsed>>
  PROVE  Codec!ConversionInv'
<1>0. Codec!Converting(LimbBase, Radix, Digits)
  BY DEF Codec!ConversionInv
<1>1. LimbBase \in Nat \ {0} /\ Radix \in Nat \ {0} /\ Digits \in Nat
  BY CodecWidths
<1>2. buf' \in [1 .. Digits -> 0 .. (Radix - 1)] /\ Value(input, LimbBase) = Value(buf', Radix)
  BY <1>0, <1>1, ConvertingEnds
<1>3. DOMAIN buf' = 1 .. Digits /\ \A i \in 1 .. Digits : buf'[i] \in 0 .. (Radix - 1)
  BY <1>2
<1>4. Codec!TypeOK'
  <2>1. DOMAIN buf = 1 .. Digits
    BY <1>0, <1>1, ConvertingTyped
  <2> QED
    BY <1>3, <2>1 DEF Codec!ConversionInv, Codec!TypeOK
<1>5. Codec!EncodeExact'
  BY <1>2, <1>3, CodecNumerals DEF Codec!EncodeExact
<1> QED
  BY <1>4, <1>5 DEF Codec!ConversionInv, Codec!DecodeExact

(* The scalar encoder ends when the quotient is empty. *)
LEMMA EncodeEndsKeeps ==
  ASSUME Codec!ConversionInv, Codec!EncodeEnds
  PROVE  Codec!ConversionInv'
<1>1. Value(bp, LimbBase) = 0
  BY ValueEmpty, CodecWidths DEF Codec!EncodeEnds
<1> QED
  BY <1>1, EncoderEndKeeps DEF Codec!EncodeEnds

(* The AVX2 encoder ends after all its digits: nothing is left then. *)
LEMMA ColumnsEndKeeps ==
  ASSUME Codec!ConversionInv, Codec!ColumnsEnd
  PROVE  Codec!ConversionInv'
<1>0. op = "columns" /\ n = 0
  BY DEF Codec!ColumnsEnd
<1>1. /\ LimbBase \in Nat \ {0} /\ Radix \in Nat \ {0} /\ Digits \in Nat /\ Radix \in Nat
      /\ Codec!Converting(LimbBase, Radix, Digits) /\ Value(bp, LimbBase) < Power(Radix, n)
  BY <1>0, CodecWidths, CodecNumerals DEF Codec!ConversionInv
<1>2. Power(Radix, n) = 1
  BY <1>0, <1>1, PowerStep
<1>3. Value(bp, LimbBase) = 0
  <2>1. Value(bp, LimbBase) \in Nat
    BY <1>1, ConvertingTyped
  <2> QED
    BY <1>1, <1>2, <2>1
<1>4. Codec!Padded = buf
  BY <1>0, <1>1, <1>3, ConvertingEnds
<1> QED
  BY <1>0, <1>3, <1>4, EncoderEndKeeps DEF Codec!ColumnsEnd

(* A round of the decoder. *)
LEMMA DecodeRoundKeeps ==
  ASSUME Codec!ConversionInv, Codec!DecodeRound
  PROVE  Codec!ConversionInv'
<1>0. /\ op = "decode" /\ Codec!Converting(Radix, LimbBase, Limbs) /\ ~(n < 1)
      /\ UNCHANGED <<op, input, parsed, parse_ret>>
  BY DEF Codec!DecodeRound, Codec!ConversionInv, Codec!NoRoom
<1>1. /\ LimbBase \in Nat \ {0} /\ Radix \in Nat \ {0} /\ Limbs \in Nat
      /\ ByteSpan \in Nat /\ ByteSpan >= Radix
  BY CodecWidths
<1>2. /\ bp \in Seq(0 .. (Radix - 1)) /\ n \in 1 .. Limbs /\ DOMAIN buf = 1 .. Limbs
  BY <1>0, <1>1, ConvertingTyped
<1>3. buf \in [1 .. Limbs -> {-1} \cup 0 .. (LimbBase - 1)]
  BY <1>0, <1>1, ConvertingTyped
<1>4. PICK acc : acc = Codec!DivideTrimmed(bp, Radix, LimbBase, ByteSpan)
  OBVIOUS
<1>5. Divided(acc, Value(bp, Radix), Radix, LimbBase) /\ Trim(acc.quo)
  BY <1>1, <1>2, <1>4, TrimmedExact
<1>6. /\ bp' = acc.quo /\ n' = n - 1
      /\ buf' = [i \in DOMAIN buf |-> IF i = n THEN acc.rem ELSE buf[i]]
  BY <1>4 DEF Codec!DecodeRound
<1>7. buf' = [buf EXCEPT ![n] = acc.rem]
  BY <1>3, <1>6
<1>8. Codec!Converting(Radix, LimbBase, Limbs)'
  BY <1>0, <1>1, <1>2, <1>5, <1>6, <1>7, ConvertingRound
<1>9. Codec!TypeOK'
  <2>1. acc.quo \in Seq(Nat)
    BY <1>1, <1>5 DEF Divided
  <2>2. n' \in {0} \cup DOMAIN buf' /\ DOMAIN buf' = DOMAIN buf
    BY <1>1, <1>2, <1>6
  <2> QED
    BY <1>0, <1>6, <2>1, <2>2 DEF Codec!ConversionInv, Codec!TypeOK
<1>10. bp' = << >> \/ bp'[1] # 0
  BY <1>5, <1>6 DEF Trim
<1> QED
  BY <1>0, <1>8, <1>9, <1>10 DEF Codec!ConversionInv, Codec!EncodeExact, Codec!DecodeExact

(* The decoder reports an overflow only when the number needs more limbs. *)
LEMMA DecodeOverflowsKeeps ==
  ASSUME Codec!ConversionInv, Codec!DecodeOverflows
  PROVE  Codec!ConversionInv'
<1>0. /\ op = "decode" /\ Codec!Converting(Radix, LimbBase, Limbs) /\ n < 1 /\ bp # << >>
      /\ op' = "rejected" /\ parse_ret' = "ERR_STR_VALUE"
      /\ UNCHANGED <<input, bp, n, buf, parsed>>
  BY DEF Codec!DecodeOverflows, Codec!ConversionInv, Codec!NoRoom
<1>1. /\ LimbBase \in Nat \ {0} /\ Radix \in Nat \ {0} /\ Limbs \in Nat \ {0}
      /\ LimbBase \in Nat /\ Limbs \in Nat
  BY CodecWidths
<1>2. n = 0 /\ bp \in Seq(Nat) /\ Value(bp, Radix) \in Nat
  BY <1>0, <1>1, ConvertingTyped
<1>3. bp[1] # 0
  BY <1>0, <1>1, <1>2 DEF Codec!ConversionInv
<1>4. Value(bp, Radix) >= 1
  BY <1>0, <1>1, <1>2, <1>3, ValuePositive
<1>5. Value(input, Radix) = Value(bp, Radix) * Power(LimbBase, Limbs) + Value(Codec!Padded, LimbBase)
  BY <1>0, <1>1, <1>2, CodecNumerals DEF Codec!Converting
<1>6. Value(Codec!Padded, LimbBase) \in Nat
  <2>1. PICK s : s = Codec!Padded
    OBVIOUS
  <2>2. /\ buf \in [1 .. Limbs -> {-1} \cup 0 .. (LimbBase - 1)] /\ DOMAIN buf = 1 .. Limbs
        /\ \A i \in 1 .. Limbs : buf[i] # -1
    <3>1. /\ buf \in [1 .. Limbs -> {-1} \cup 0 .. (LimbBase - 1)]
          /\ \A i \in (n + 1) .. Limbs : buf[i] # -1
      BY <1>0 DEF Codec!Converting, Codec!Blank
    <3> QED
      BY <1>2, <3>1
  <2>3. s = [i \in 1 .. Limbs |-> IF i <= n THEN 0 ELSE buf[i]]
    BY <2>1, <2>2 DEF Codec!Padded
  <2>4. s \in [1 .. Limbs -> Nat]
    BY <1>1, <1>2, <2>2, <2>3
  <2>5. s \in Seq(Nat)
    BY <1>1, <2>4, AsSequence
  <2> QED
    BY <1>1, <2>1, <2>5, ValueTyped
<1>7. Value(input, Radix) >= Power(LimbBase, Limbs)
  <2>1. PICK p, w, z : p = Value(bp, Radix) /\ w = Power(LimbBase, Limbs)
                       /\ z = Value(Codec!Padded, LimbBase)
    OBVIOUS
  <2>2. p \in Nat /\ w \in Nat /\ z \in Nat /\ 1 <= p
    BY <1>1, <1>2, <1>4, <1>6, <2>1, PowerStep
  <2>3. 1 * w <= p * w /\ p * w \in Nat
    BY <2>2, ProductOrder
  <2>4. w <= p * w + z
    BY <2>2, <2>3
  <2> QED
    BY <1>5, <2>1, <2>4
<1>8. Codec!TypeOK'
  BY <1>0 DEF Codec!ConversionInv, Codec!TypeOK
<1> QED
  BY <1>0, <1>7, <1>8, CodecNumerals DEF Codec!ConversionInv, Codec!EncodeExact, Codec!DecodeExact

(* The decoder stores the limbs when nothing is left. *)
LEMMA DecodeEndsKeeps ==
  ASSUME Codec!ConversionInv, Codec!DecodeEnds
  PROVE  Codec!ConversionInv'
<1>0. /\ op = "decode" /\ Codec!Converting(Radix, LimbBase, Limbs) /\ bp = << >>
      /\ buf' = Codec!Padded /\ parsed' = Codec!Padded /\ op' = "decoded" /\ parse_ret' = "OK"
      /\ UNCHANGED <<input, bp, n>>
  BY DEF Codec!DecodeEnds, Codec!ConversionInv
<1>1. LimbBase \in Nat \ {0} /\ Radix \in Nat \ {0} /\ Radix \in Nat /\ Limbs \in Nat
  BY CodecWidths
<1>2. Value(bp, Radix) = 0
  BY <1>0, <1>1, ValueEmpty
<1>3. /\ parsed' \in [1 .. Limbs -> 0 .. (LimbBase - 1)]
      /\ Value(input, Radix) = Value(parsed', LimbBase)
  BY <1>0, <1>1, <1>2, ConvertingEnds
<1>4. parsed' \in Codec!Ids
  BY <1>3 DEF Codec!Ids, Codec!Limb
<1>5. \A i \in DOMAIN input' : input'[i] # Radix
  <2>1. input' = input /\ input \in Seq(0 .. (Radix - 1))
    BY <1>0 DEF Codec!Converting
  <2>2. ASSUME NEW A, NEW t \in Seq(A), NEW k \in DOMAIN t PROVE t[k] \in A
    OBVIOUS
  <2>3. \A i \in DOMAIN input : input[i] \in 0 .. (Radix - 1)
    BY <2>1, <2>2
  <2> QED
    BY <1>1, <2>1, <2>3
<1>6. Codec!TypeOK'
  <2>1. DOMAIN buf = 1 .. Limbs
    BY <1>0, <1>1, ConvertingTyped
  <2>2. DOMAIN buf' = 1 .. Limbs
    BY <1>0, <1>3
  <2> QED
    BY <1>0, <1>4, <2>1, <2>2 DEF Codec!ConversionInv, Codec!TypeOK
<1> QED
  BY <1>0, <1>3, <1>4, <1>5, <1>6, CodecNumerals DEF Codec!ConversionInv, Codec!EncodeExact, Codec!DecodeExact

(* Every operation of the codec keeps the invariant. *)
LEMMA CodecStepKeeps == Codec!ConversionInv /\ Codec!Next => Codec!ConversionInv'
<1> SUFFICES ASSUME Codec!ConversionInv, Codec!Next PROVE Codec!ConversionInv'
  OBVIOUS
<1>1. ASSUME op = "idle", NEW x \in Codec!Ids, NEW how \in {"encode", "columns"},
             Codec!EncodeBegins(x, how) PROVE Codec!ConversionInv'
  BY <1>1, EncodeBeginsKeeps
<1>2. ASSUME op = "idle", NEW x \in Codec!Texts, Codec!DecodeBegins(x) PROVE Codec!ConversionInv'
  BY <1>2, DecodeBeginsKeeps
<1>3. ASSUME op = "idle", Codec!ParseWrongLength PROVE Codec!ConversionInv'
  BY <1>3, ParseWrongLengthKeeps
<1> QED
  BY <1>1, <1>2, <1>3, EncodeRoundKeeps, EncodeEndsKeeps, ColumnRoundKeeps, ColumnsEndKeeps,
     DecodeRoundKeeps, DecodeOverflowsKeeps, DecodeEndsKeeps, CodecAgainKeeps DEF Codec!Next

(* So does a step of another component. *)
LEMMA CodecStutterKeeps == Codec!ConversionInv /\ UNCHANGED base62_vars => Codec!ConversionInv'
<1> SUFFICES ASSUME Codec!ConversionInv, UNCHANGED base62_vars PROVE Codec!ConversionInv'
  OBVIOUS
<1>1. /\ op' = op /\ input' = input /\ bp' = bp /\ n' = n /\ buf' = buf
      /\ parsed' = parsed /\ parse_ret' = parse_ret
  BY DEF base62_vars
<1> QED
  BY <1>1 DEF Codec!ConversionInv, Codec!TypeOK, Codec!EncodeExact, Codec!DecodeExact,
              Codec!Converting, Codec!Padded

(* A step of the formats moves one component or none. *)
LEMMA CodecMoves == [Next]_vars => Codec!Next \/ UNCHANGED base62_vars
  BY DEF Next, vars, Base62Step, CharsStep, KsuidStep, HexStep, Uuidv7Step

(* What a conversion still has to convert and what it has stored always    *)
(* make up its input (Base62, Converting): the loops of base62.c and       *)
(* encode_avx2.c keep the number they were given.                          *)
THEOREM CodecInvariance == Spec => []Codec!ConversionInv
<1>1. Init => Codec!ConversionInv
  BY CodecInit DEF Init
<1>2. Codec!ConversionInv /\ [Next]_vars => Codec!ConversionInv'
  BY CodecStepKeeps, CodecStutterKeeps, CodecMoves
<1> QED
  BY <1>1, <1>2, PTL DEF Spec

(* The scalar and the AVX2 encoder of KSUIDs write the same string, the    *)
(* full expansion of the identifier, for every width of limbs and every    *)
(* radix the code's assumptions admit, and no digit is written left of the *)
(* string.                                                                 *)
THEOREM EncodersExact == Spec => []EncodeExact
<1>1. Codec!ConversionInv => EncodeExact
  BY DEF Codec!ConversionInv, EncodeExact
<1> QED
  BY <1>1, CodecInvariance, PTL

(* chronoid_ksuid_parse returns the number of the string, refuses exactly  *)
(* the strings that are none or do not fit, and then leaves the caller's   *)
(* identifier alone.                                                       *)
THEOREM DecoderExact == Spec => []DecodeExact
<1>1. Codec!ConversionInv => DecodeExact
  BY DEF Codec!ConversionInv, DecodeExact
<1> QED
  BY <1>1, CodecInvariance, PTL

-----------------------------------------------------------------------------
(* The translation of base62 characters (Base62Alphabet). *)

(* The three ranges of characters, and the sentinel outside them. *)
LEMMA TableInverts ==
  ASSUME NEW c \in 0 .. 255
  PROVE  /\ Chars!kB62Value(c) \in 0 .. 61 \/ Chars!kB62Value(c) = 255
         /\ Chars!kB62Value(c) # 255 => Chars!kB62Alphabet(Chars!kB62Value(c)) = c
         /\ Chars!kB62Value(c) = 255 => \A v \in 0 .. 61 : c # Chars!kB62Alphabet(v)
<1>1. c \in 48 .. 57 => Chars!kB62Value(c) = c - 48
  BY DEF Chars!kB62Value
<1>2. c \in 65 .. 90 => Chars!kB62Value(c) = c - 65 + 10
  BY DEF Chars!kB62Value
<1>3. c \in 97 .. 122 => Chars!kB62Value(c) = c - 97 + 36
  BY DEF Chars!kB62Value
<1>4. c \notin 48 .. 57 /\ c \notin 65 .. 90 /\ c \notin 97 .. 122 => Chars!kB62Value(c) = 255
  BY DEF Chars!kB62Value, Chars!Invalid
<1> QED
  BY <1>1, <1>2, <1>3, <1>4 DEF Chars!kB62Alphabet

(* Masking with ones, with zeros, and merging into zeros. *)
LEMMA BitsOfByte ==
  ASSUME NEW x \in 0 .. 255
  PROVE  /\ Chars!And8(255, x) = x /\ Chars!And8(0, x) = 0
         /\ Chars!Or8(0, x) = x /\ Chars!Or8(x, 0) = x
<1>1. /\ \A w \in {1, 2, 4, 8, 16, 32, 64, 128} : Chars!Bit(0, w) = 0 /\ Chars!Bit(255, w) = 1
  BY DEF Chars!Bit
<1>2. \A w \in {1, 2, 4, 8, 16, 32, 64, 128} : Chars!Bit(x, w) = 0 \/ Chars!Bit(x, w) = 1
  BY DEF Chars!Bit
<1>3. x = 128 * Chars!Bit(x, 128) + 64 * Chars!Bit(x, 64) + 32 * Chars!Bit(x, 32)
          + 16 * Chars!Bit(x, 16) + 8 * Chars!Bit(x, 8) + 4 * Chars!Bit(x, 4)
          + 2 * Chars!Bit(x, 2) + Chars!Bit(x, 1)
  BY DEF Chars!Bit
<1>4. Chars!And8(255, x) = x
  BY <1>1, <1>2, <1>3 DEF Chars!And8, Chars!ByteOf
<1>5. Chars!And8(0, x) = 0
  BY <1>1, <1>2, <1>3 DEF Chars!And8, Chars!ByteOf
<1>6. Chars!Or8(0, x) = x
  BY <1>1, <1>2, <1>3 DEF Chars!Or8, Chars!ByteOf
<1>7. Chars!Or8(x, 0) = x
  BY <1>1, <1>2, <1>3 DEF Chars!Or8, Chars!ByteOf
<1> QED
  BY <1>4, <1>5, <1>6, <1>7

(* One lane computes the table, and the mask of its three ranges. *)
LEMMA LaneExact ==
  ASSUME NEW c \in 0 .. 255
  PROVE  /\ Chars!Lane(c).value = Chars!kB62Value(c)
         /\ Chars!Lane(c).any = IF Chars!kB62Value(c) = 255 THEN 0 ELSE 255
<1>0. PICK d, u, l : d = Chars!Sub8(c, 48) /\ u = Chars!Sub8(c, 65) /\ l = Chars!Sub8(c, 97)
  OBVIOUS
<1>1. /\ d \in 0 .. 255 /\ u \in 0 .. 255 /\ l \in 0 .. 255
      /\ d = IF c >= 48 THEN c - 48 ELSE c + 208
      /\ u = IF c >= 65 THEN c - 65 ELSE c + 191
      /\ l = IF c >= 97 THEN c - 97 ELSE c + 159
  <2>1. \A x \in Int : x >= 0 /\ x < 256 => x % 256 = x
    OBVIOUS
  <2>2. \A x \in Int : x >= -256 /\ x < 0 => x % 256 = x + 256
    OBVIOUS
  <2>3. d = IF c >= 48 THEN c - 48 ELSE c + 208
    BY <1>0, <2>1, <2>2 DEF Chars!Sub8
  <2>4. u = IF c >= 65 THEN c - 65 ELSE c + 191
    BY <1>0, <2>1, <2>2 DEF Chars!Sub8
  <2>5. l = IF c >= 97 THEN c - 97 ELSE c + 159
    BY <1>0, <2>1, <2>2 DEF Chars!Sub8
  <2> QED
    BY <2>3, <2>4, <2>5
<1>2. PICK dm, um, lm : dm = Chars!AtMost(d, 9) /\ um = Chars!AtMost(u, 25) /\ lm = Chars!AtMost(l, 25)
  OBVIOUS
<1>3. /\ dm = IF c \in 48 .. 57 THEN 255 ELSE 0
      /\ um = IF c \in 65 .. 90 THEN 255 ELSE 0
      /\ lm = IF c \in 97 .. 122 THEN 255 ELSE 0
  BY <1>1, <1>2 DEF Chars!AtMost, Chars!Mask
<1>4. PICK u1, l1 : u1 = (u + 10) % 256 /\ l1 = (l + 36) % 256
  OBVIOUS
<1>5. /\ u1 \in 0 .. 255 /\ l1 \in 0 .. 255
      /\ c \in 65 .. 90 => u1 = c - 65 + 10
      /\ c \in 97 .. 122 => l1 = c - 97 + 36
  <2>1. u1 \in 0 .. 255 /\ l1 \in 0 .. 255
    BY <1>1, <1>4
  <2>2. c \in 65 .. 90 => u = c - 65 /\ u + 10 \in 0 .. 255
    BY <1>1
  <2>3. c \in 97 .. 122 => l = c - 97 /\ l + 36 \in 0 .. 255
    BY <1>1
  <2>4. \A x \in 0 .. 255 : x % 256 = x
    OBVIOUS
  <2> QED
    BY <1>4, <2>1, <2>2, <2>3, <2>4
<1>6. PICK any, values :
        /\ any = Chars!Or8(Chars!Or8(dm, um), lm)
        /\ values = Chars!Or8(Chars!Or8(Chars!And8(dm, d), Chars!And8(um, u1)), Chars!And8(lm, l1))
  OBVIOUS
<1>7. Chars!Lane(c) = [any |-> any, value |-> Chars!Or8(values, 255 - any)]
  BY <1>0, <1>2, <1>4, <1>6 DEF Chars!Lane, Chars!Not8
<1>8. CASE c \in 48 .. 57
  <2>1. dm = 255 /\ um = 0 /\ lm = 0 /\ Chars!kB62Value(c) = d /\ d \in 0 .. 61
    BY <1>1, <1>3, <1>8 DEF Chars!kB62Value
  <2>2. any = 255 /\ values = d
    BY <1>1, <1>5, <1>6, <2>1, BitsOfByte
  <2> QED
    BY <1>1, <1>7, <2>1, <2>2, BitsOfByte
<1>9. CASE c \in 65 .. 90
  <2>1. dm = 0 /\ um = 255 /\ lm = 0 /\ Chars!kB62Value(c) = u1 /\ u1 \in 0 .. 61
    BY <1>1, <1>3, <1>5, <1>9 DEF Chars!kB62Value
  <2>2. any = 255 /\ values = u1
    BY <1>1, <1>5, <1>6, <2>1, BitsOfByte
  <2> QED
    BY <1>1, <1>7, <2>1, <2>2, BitsOfByte
<1>10. CASE c \in 97 .. 122
  <2>1. dm = 0 /\ um = 0 /\ lm = 255 /\ Chars!kB62Value(c) = l1 /\ l1 \in 0 .. 61
    BY <1>1, <1>3, <1>5, <1>10 DEF Chars!kB62Value
  <2>2. any = 255 /\ values = l1
    BY <1>1, <1>5, <1>6, <2>1, BitsOfByte
  <2> QED
    BY <1>1, <1>7, <2>1, <2>2, BitsOfByte
<1>11. CASE c \notin 48 .. 57 /\ c \notin 65 .. 90 /\ c \notin 97 .. 122
  <2>1. dm = 0 /\ um = 0 /\ lm = 0 /\ Chars!kB62Value(c) = 255
    BY <1>3, <1>11 DEF Chars!kB62Value, Chars!Invalid
  <2>2. any = 0 /\ values = 0
    BY <1>1, <1>5, <1>6, <2>1, BitsOfByte
  <2> QED
    BY <1>7, <2>1, <2>2, BitsOfByte
<1> QED
  BY <1>8, <1>9, <1>10, <1>11

(* The characters of a string are bytes, and a vector load reads inside    *)
(* it.                                                                     *)
LEMMA SampleTyped ==
  ASSUME NEW t \in Samples
  PROVE  /\ \A i \in DOMAIN t : t[i] \in 0 .. 255
         /\ Chars!HeadOf(t) \subseteq DOMAIN t /\ 1 \in Chars!HeadOf(t)
<1>1. t \in Seq(0 .. 255) /\ Len(t) >= HeadChars /\ HeadChars \in Nat \ {0}
  BY CharsFit DEF Chars!ConstantsFit
<1>2. DOMAIN t = 1 .. Len(t) /\ Len(t) \in Nat
  BY <1>1
<1>3. ASSUME NEW i \in DOMAIN t PROVE t[i] \in 0 .. 255
  <2>1. ASSUME NEW A, NEW s \in Seq(A), NEW j \in 1 .. Len(s) PROVE s[j] \in A
    OBVIOUS
  <2> QED
    BY <1>1, <1>2, <2>1
<1> QED
  BY <1>1, <1>2, <1>3 DEF Chars!HeadOf

(* A character is in the alphabet unless the table has the sentinel for it. *)
LEMMA AlphabetIsTable ==
  ASSUME NEW c \in 0 .. 255
  PROVE  (\E v \in Chars!Alphabet : c = Chars!kB62Alphabet(v)) <=> Chars!kB62Value(c) # 255
  BY TableInverts DEF Chars!Alphabet

(* Whatever the kernel, the head is translated by the table, and accepted  *)
(* when there is no sentinel in it.                                        *)
LEMMA KernelsAgree ==
  ASSUME text \in Samples, kernel \in {"scalar", "sse2", "neon"}
  PROVE  /\ \A i \in Chars!HeadOf(text) : Chars!Translated(i) = Chars!kB62Value(text[i])
         /\ Chars!Accepts <=> \A i \in Chars!HeadOf(text) : Chars!kB62Value(text[i]) # 255
<1>1. PICK t, H : t = text /\ H = Chars!HeadOf(text)
  OBVIOUS
<1>2. /\ \A i \in H : t[i] \in 0 .. 255
      /\ H # {}
  BY <1>1, SampleTyped
<1>3. \A i \in H : /\ Chars!Lane(t[i]).value = Chars!kB62Value(t[i])
                   /\ Chars!Lane(t[i]).any = IF Chars!kB62Value(t[i]) = 255 THEN 0 ELSE 255
  <2> SUFFICES ASSUME NEW i \in H
               PROVE  /\ Chars!Lane(t[i]).value = Chars!kB62Value(t[i])
                      /\ Chars!Lane(t[i]).any = IF Chars!kB62Value(t[i]) = 255 THEN 0 ELSE 255
    OBVIOUS
  <2>1. PICK c : c = t[i]
    OBVIOUS
  <2>2. c \in 0 .. 255
    BY <1>2, <2>1
  <2> QED
    BY <2>1, <2>2, LaneExact
<1>4. \A i \in H : Chars!Translated(i) = Chars!kB62Value(t[i])
  BY <1>1, <1>3 DEF Chars!Translated
<1>5. CASE kernel = "scalar"
  BY <1>1, <1>4, <1>5 DEF Chars!Accepts, Chars!Invalid
<1>6. CASE kernel = "sse2"
  <2>1. Chars!Accepts <=> \A i \in H : Chars!Lane(t[i]).any \div 128 = 1
    BY <1>1, <1>6 DEF Chars!Accepts
  <2>2. 0 \div 128 = 0 /\ 255 \div 128 = 1
    OBVIOUS
  <2>3. \A i \in H : Chars!Lane(t[i]).any \div 128 = 1 <=> Chars!kB62Value(t[i]) # 255
    BY <1>3, <2>2
  <2> QED
    BY <1>1, <1>4, <2>1, <2>3
<1>7. CASE kernel = "neon"
  <2>1. PICK M : M = {Chars!Lane(t[i]).any : i \in H}
    OBVIOUS
  <2>2. Chars!Accepts <=> Chars!Min(M) = 255
    BY <1>1, <1>7, <2>1 DEF Chars!Accepts
  <2>3. M # {} /\ M \subseteq {0, 255}
    BY <1>2, <1>3, <2>1
  <2>4. Chars!Min(M) \in M /\ \A y \in M : Chars!Min(M) <= y
    <3>1. \E x \in M : \A y \in M : x <= y
      <4>1. CASE 0 \in M
        BY <2>3, <4>1
      <4>2. CASE 0 \notin M
        <5>1. M = {255}
          BY <2>3, <4>2
        <5> QED
          BY <5>1
      <4> QED
        BY <4>1, <4>2
    <3> QED
      BY <3>1 DEF Chars!Min
  <2>5. Chars!Min(M) = 255 <=> 0 \notin M
    <3>1. Chars!Min(M) \in {0, 255}
      BY <2>3, <2>4
    <3>2. 0 \in M => Chars!Min(M) <= 0
      BY <2>4
    <3> QED
      BY <2>4, <3>1, <3>2
  <2>6. 0 \notin M <=> \A i \in H : Chars!kB62Value(t[i]) # 255
    BY <1>3, <2>1
  <2> QED
    BY <1>1, <1>4, <2>2, <2>5, <2>6
<1> QED
  BY <1>5, <1>6, <1>7

(* No call yet. *)
LEMMA CharsInit == Chars!Init => Chars!TranslationInv
  BY DEF Chars!Init, Chars!TranslationInv, Chars!TranslatesExactly

(* A call begins. *)
LEMMA CharsDecodeKeeps ==
  ASSUME NEW t \in Samples, NEW k \in {"scalar", "sse2", "neon"}, Chars!Decode(t, k)
  PROVE  Chars!TranslationInv'
<1>1. text' = t /\ kernel' = k /\ status' = "new" /\ DOMAIN digits' = DOMAIN t
  BY DEF Chars!Decode
<1> QED
  BY <1>1 DEF Chars!TranslationInv, Chars!TranslatesExactly

(* The vector kernel translates the head. *)
LEMMA TranslateKeeps ==
  ASSUME Chars!TranslationInv, Chars!Translate16
  PROVE  Chars!TranslationInv'
<1>1. PICK t, H : t = text /\ H = Chars!HeadOf(text)
  OBVIOUS
<1>2. /\ status = "new" /\ t \in Samples /\ kernel \in {"scalar", "sse2", "neon"}
      /\ text' = t /\ kernel' = kernel
      /\ digits' = [i \in DOMAIN t |-> IF i \in H THEN Chars!Translated(i) ELSE digits[i]]
      /\ status' = IF Chars!Accepts THEN "headed" ELSE "invalid"
  BY <1>1 DEF Chars!Translate16, Chars!TranslationInv
<1>3. H \subseteq DOMAIN t /\ \A i \in DOMAIN t : t[i] \in 0 .. 255
  BY <1>1, <1>2, SampleTyped
<1>4. /\ \A i \in H : digits'[i] = Chars!kB62Value(t[i])
      /\ Chars!Accepts <=> \A i \in H : Chars!kB62Value(t[i]) # 255
  BY <1>1, <1>2, <1>3, KernelsAgree
<1>5. Chars!HeadOf(text') = H
  BY <1>1, <1>2
<1>6. \A i \in DOMAIN t : (\E v \in Chars!Alphabet : t[i] = Chars!kB62Alphabet(v))
                            <=> Chars!kB62Value(t[i]) # 255
  BY <1>3, AlphabetIsTable
<1>7. Chars!TranslatesExactly'
  <2>1. ASSUME status' = "invalid"
        PROVE  ~\A i \in DOMAIN text' : \E v \in Chars!Alphabet : text'[i] = Chars!kB62Alphabet(v)
    BY <1>2, <1>3, <1>4, <1>6, <2>1
  <2>2. \A i \in Chars!HeadOf(text') :
          ~(\E v \in Chars!Alphabet : text'[i] = Chars!kB62Alphabet(v)) <=> digits'[i] = 255
    BY <1>2, <1>3, <1>4, <1>5, <1>6
  <2>3. status' # "valid"
    BY <1>2
  <2> QED
    BY <2>1, <2>2, <2>3 DEF Chars!TranslatesExactly, Chars!Invalid
<1>8. status' = "headed" => \A i \in Chars!HeadOf(text') :
                              digits'[i] = Chars!kB62Value(text'[i]) /\ digits'[i] # 255
  BY <1>2, <1>4, <1>5
<1>9. DOMAIN digits' = DOMAIN text' /\ text' \in Samples /\ status' \in {"headed", "invalid"}
  BY <1>2
<1> QED
  BY <1>2, <1>7, <1>8, <1>9 DEF Chars!TranslationInv, Chars!Invalid

(* The scalar loop translates the rest. *)
LEMMA DecodeTailKeeps ==
  ASSUME Chars!TranslationInv, Chars!DecodeTail
  PROVE  Chars!TranslationInv'
<1>1. PICK t, H : t = text /\ H = Chars!HeadOf(text)
  OBVIOUS
<1>2. PICK rest, bad : rest = DOMAIN t \ H /\ bad = {i \in rest : Chars!kB62Value(t[i]) = 255}
  OBVIOUS
<1>3. /\ status = "headed" /\ t \in Samples /\ kernel \in {"scalar", "sse2", "neon"}
      /\ text' = t /\ kernel' = kernel
      /\ digits' = [i \in DOMAIN t |-> IF i \in rest /\ \A j \in bad : i < j
                                       THEN Chars!kB62Value(t[i]) ELSE digits[i]]
      /\ status' = IF bad = {} THEN "valid" ELSE "invalid"
      /\ \A i \in H : digits[i] = Chars!kB62Value(t[i]) /\ digits[i] # 255
  BY <1>1, <1>2 DEF Chars!DecodeTail, Chars!TranslationInv, Chars!Invalid
<1>4. H \subseteq DOMAIN t /\ \A i \in DOMAIN t : t[i] \in 0 .. 255
  BY <1>1, <1>3, SampleTyped
<1>5. \A i \in DOMAIN t : (\E v \in Chars!Alphabet : t[i] = Chars!kB62Alphabet(v))
                            <=> Chars!kB62Value(t[i]) # 255
  BY <1>4, AlphabetIsTable
<1>6. \A i \in H : digits'[i] = Chars!kB62Value(t[i]) /\ Chars!kB62Value(t[i]) # 255
  BY <1>2, <1>3, <1>4
<1>7. Chars!HeadOf(text') = H
  BY <1>1, <1>3
<1>8. ASSUME status' = "valid"
      PROVE  \A i \in DOMAIN t : digits'[i] = Chars!kB62Value(t[i]) /\ Chars!kB62Value(t[i]) # 255
  <2>1. bad = {}
    BY <1>3, <1>8
  <2>2. \A i \in rest : digits'[i] = Chars!kB62Value(t[i]) /\ Chars!kB62Value(t[i]) # 255
    BY <1>2, <1>3, <2>1
  <2> QED
    BY <1>2, <1>6, <2>2
<1>9. \A i \in DOMAIN t : Chars!kB62Value(t[i]) # 255 =>
         Chars!kB62Value(t[i]) \in Chars!Alphabet /\ Chars!kB62Alphabet(Chars!kB62Value(t[i])) = t[i]
  <2> SUFFICES ASSUME NEW i \in DOMAIN t, Chars!kB62Value(t[i]) # 255
               PROVE  /\ Chars!kB62Value(t[i]) \in 0 .. 61
                      /\ Chars!kB62Alphabet(Chars!kB62Value(t[i])) = t[i]
    BY DEF Chars!Alphabet
  <2>1. PICK c : c = t[i]
    OBVIOUS
  <2>2. c \in 0 .. 255
    BY <1>4, <2>1
  <2>3. /\ Chars!kB62Value(c) \in 0 .. 61 \/ Chars!kB62Value(c) = 255
        /\ Chars!kB62Value(c) # 255 => Chars!kB62Alphabet(Chars!kB62Value(c)) = c
    BY <2>2, TableInverts
  <2> QED
    BY <2>1, <2>3
<1>10. status' = "invalid" =>
         ~\A i \in DOMAIN text' : \E v \in Chars!Alphabet : text'[i] = Chars!kB62Alphabet(v)
  BY <1>2, <1>3, <1>5
<1>11. status' = "valid" =>
         /\ \A i \in DOMAIN text' : \E v \in Chars!Alphabet : text'[i] = Chars!kB62Alphabet(v)
         /\ \A i \in DOMAIN text' : digits'[i] \in Chars!Alphabet
                                    /\ Chars!kB62Alphabet(digits'[i]) = text'[i]
  BY <1>3, <1>5, <1>8, <1>9
<1>12. \A i \in Chars!HeadOf(text') :
          ~(\E v \in Chars!Alphabet : text'[i] = Chars!kB62Alphabet(v)) <=> digits'[i] = 255
  BY <1>3, <1>4, <1>5, <1>6, <1>7
<1>13. Chars!TranslatesExactly'
  BY <1>10, <1>11, <1>12 DEF Chars!TranslatesExactly, Chars!Invalid
<1>14. DOMAIN digits' = DOMAIN text' /\ text' \in Samples /\ status' \in {"valid", "invalid"}
  BY <1>3
<1> QED
  BY <1>3, <1>13, <1>14 DEF Chars!TranslationInv

(* The next call starts over. *)
LEMMA CharsAgainKeeps ==
  ASSUME Chars!Again
  PROVE  Chars!TranslationInv'
  BY DEF Chars!Again, Chars!TranslationInv, Chars!TranslatesExactly

(* A step is one of the translation's or leaves its state alone. *)
LEMMA CharsMove == [Next]_vars => Chars!Next \/ UNCHANGED chars_vars
  BY DEF Next, vars, Base62Step, CharsStep, KsuidStep, HexStep, Uuidv7Step

(* What has been translated so far agrees with the table, and a rejection  *)
(* has a character outside the alphabet to show.                           *)
THEOREM CharsInvariance == Spec => []Chars!TranslationInv
<1>1. Init => Chars!TranslationInv
  BY CharsInit DEF Init
<1>2. Chars!TranslationInv /\ Chars!Next => Chars!TranslationInv'
  BY CharsDecodeKeeps, TranslateKeeps, DecodeTailKeeps, CharsAgainKeeps DEF Chars!Next
<1>3. Chars!TranslationInv /\ UNCHANGED chars_vars => Chars!TranslationInv'
  BY DEF chars_vars, Chars!TranslationInv, Chars!TranslatesExactly
<1>4. Chars!TranslationInv /\ [Next]_vars => Chars!TranslationInv'
  BY <1>2, <1>3, CharsMove
<1> QED
  BY <1>1, <1>4, PTL DEF Spec

(* The scalar, SSE2 and NEON kernels of chronoid_base62_translate accept   *)
(* exactly the strings over the alphabet and invert the encoder's alphabet *)
(* on them, for every set of strings and every split between vector and    *)
(* scalar part.                                                            *)
THEOREM TranslationExact == Spec => []TranslatesExactly
<1>1. Chars!TranslationInv => TranslatesExactly
  BY DEF Chars!TranslationInv, TranslatesExactly
<1> QED
  BY <1>1, CharsInvariance, PTL

-----------------------------------------------------------------------------
(* The hex codec of UUIDv7 identifiers (HexCodec). *)

(* The byte whose digit stands at position p of a string, and which of its *)
(* two digits.                                                             *)
Place(p) ==
  IF p < 8 THEN p \div 2
  ELSE IF p < 13 THEN 4 + ((p - 9) \div 2)
  ELSE IF p < 18 THEN 6 + ((p - 14) \div 2)
  ELSE IF p < 23 THEN 8 + ((p - 19) \div 2)
  ELSE 10 + ((p - 24) \div 2)
OddAt(p) ==
  IF p < 8 THEN p % 2
  ELSE IF p < 13 THEN (p - 9) % 2
  ELSE IF p < 18 THEN (p - 14) % 2
  ELSE IF p < 23 THEN (p - 19) % 2
  ELSE (p - 24) % 2
Nibble(x, odd) == IF odd = 0 THEN x \div 16 ELSE x % 16
Written(u, p) == IF p \in Hex!Dashes THEN 45 ELSE Hex!kHexLower(Nibble(u[Place(p)], OddAt(p)))

(* A byte is the sum of its bits. *)
LEMMA SumOfBits ==
  ASSUME NEW x \in 0 .. 255
  PROVE  \E a, b, c, d, e, f, g, h \in 0 .. 1 :
           /\ x = 128 * a + 64 * b + 32 * c + 16 * d + 8 * e + 4 * f + 2 * g + h
           /\ a = Hex!Bit(x, 128) /\ b = Hex!Bit(x, 64) /\ c = Hex!Bit(x, 32)
           /\ d = Hex!Bit(x, 16) /\ e = Hex!Bit(x, 8) /\ f = Hex!Bit(x, 4)
           /\ g = Hex!Bit(x, 2) /\ h = Hex!Bit(x, 1)
<1>1. \A w \in {1, 2, 4, 8, 16, 32, 64, 128} : Hex!Bit(x, w) \in 0 .. 1
  BY DEF Hex!Bit
<1>2. x = 128 * Hex!Bit(x, 128) + 64 * Hex!Bit(x, 64) + 32 * Hex!Bit(x, 32)
          + 16 * Hex!Bit(x, 16) + 8 * Hex!Bit(x, 8) + 4 * Hex!Bit(x, 4)
          + 2 * Hex!Bit(x, 2) + Hex!Bit(x, 1)
  BY DEF Hex!Bit
<1> QED
  BY <1>1, <1>2

(* An or has a bit above the low nibble exactly if one of its operands     *)
(* has.                                                                    *)
LEMMA OrKeepsHigh ==
  ASSUME NEW x \in 0 .. 255, NEW y \in 0 .. 255
  PROVE  /\ Hex!Or8(x, y) \in 0 .. 255
         /\ Hex!Or8(x, y) >= 16 <=> x >= 16 \/ y >= 16
<1>1. PICK a, b, c, d, e, f, g, h \in 0 .. 1 :
        /\ x = 128 * a + 64 * b + 32 * c + 16 * d + 8 * e + 4 * f + 2 * g + h
        /\ a = Hex!Bit(x, 128) /\ b = Hex!Bit(x, 64) /\ c = Hex!Bit(x, 32)
        /\ d = Hex!Bit(x, 16) /\ e = Hex!Bit(x, 8) /\ f = Hex!Bit(x, 4)
        /\ g = Hex!Bit(x, 2) /\ h = Hex!Bit(x, 1)
  BY SumOfBits
<1>2. PICK a2, b2, c2, d2, e2, f2, g2, h2 \in 0 .. 1 :
        /\ y = 128 * a2 + 64 * b2 + 32 * c2 + 16 * d2 + 8 * e2 + 4 * f2 + 2 * g2 + h2
        /\ a2 = Hex!Bit(y, 128) /\ b2 = Hex!Bit(y, 64) /\ c2 = Hex!Bit(y, 32)
        /\ d2 = Hex!Bit(y, 16) /\ e2 = Hex!Bit(y, 8) /\ f2 = Hex!Bit(y, 4)
        /\ g2 = Hex!Bit(y, 2) /\ h2 = Hex!Bit(y, 1)
  BY SumOfBits
<1> DEFINE O(w) == IF Hex!Bit(x, w) = 1 \/ Hex!Bit(y, w) = 1 THEN 1 ELSE 0
<1>3. Hex!Or8(x, y) = 128 * O(128) + 64 * O(64) + 32 * O(32) + 16 * O(16)
                      + 8 * O(8) + 4 * O(4) + 2 * O(2) + O(1)
  BY DEF Hex!Or8, Hex!ByteOf
<1>4. ASSUME NEW w, NEW m \in 0 .. 1, NEW l \in 0 .. 1, m = Hex!Bit(x, w), l = Hex!Bit(y, w)
      PROVE  O(w) \in 0 .. 1 /\ O(w) >= m /\ O(w) >= l /\ O(w) <= m + l
  BY <1>4
<1>5. PICK oa, ob, oc, od, oe, of, og, oh \in 0 .. 1 :
        /\ Hex!Or8(x, y) = 128 * oa + 64 * ob + 32 * oc + 16 * od + 8 * oe + 4 * of + 2 * og + oh
        /\ oa >= a /\ oa >= a2 /\ oa <= a + a2 /\ ob >= b /\ ob >= b2 /\ ob <= b + b2
        /\ oc >= c /\ oc >= c2 /\ oc <= c + c2 /\ od >= d /\ od >= d2 /\ od <= d + d2
  <2>1. /\ O(128) \in 0 .. 1 /\ O(64) \in 0 .. 1 /\ O(32) \in 0 .. 1 /\ O(16) \in 0 .. 1
        /\ O(8) \in 0 .. 1 /\ O(4) \in 0 .. 1 /\ O(2) \in 0 .. 1 /\ O(1) \in 0 .. 1
    OBVIOUS
  <2>2. /\ O(128) >= a /\ O(128) >= a2 /\ O(128) <= a + a2
        /\ O(64) >= b /\ O(64) >= b2 /\ O(64) <= b + b2
        /\ O(32) >= c /\ O(32) >= c2 /\ O(32) <= c + c2
        /\ O(16) >= d /\ O(16) >= d2 /\ O(16) <= d + d2
    <3>1. /\ a = Hex!Bit(x, 128) /\ b = Hex!Bit(x, 64) /\ c = Hex!Bit(x, 32)
          /\ d = Hex!Bit(x, 16) /\ a2 = Hex!Bit(y, 128) /\ b2 = Hex!Bit(y, 64)
          /\ c2 = Hex!Bit(y, 32) /\ d2 = Hex!Bit(y, 16)
      BY <1>1, <1>2
    <3> HIDE DEF O
    <3>2. O(128) >= a /\ O(128) >= a2 /\ O(128) <= a + a2
      BY <1>4, <3>1
    <3>3. O(64) >= b /\ O(64) >= b2 /\ O(64) <= b + b2
      BY <1>4, <3>1
    <3>4. O(32) >= c /\ O(32) >= c2 /\ O(32) <= c + c2
      BY <1>4, <3>1
    <3>5. O(16) >= d /\ O(16) >= d2 /\ O(16) <= d + d2
      BY <1>4, <3>1
    <3> QED
      BY <3>2, <3>3, <3>4, <3>5
  <2> HIDE DEF O
  <2> QED
    BY <1>3, <2>1, <2>2
<1>6. PICK o : o = Hex!Or8(x, y)
  OBVIOUS
<1>7. o \in 0 .. 255
  BY <1>5, <1>6
<1>8. x >= 16 <=> a + b + c + d > 0
  <2>1. x = 128 * a + 64 * b + 32 * c + 16 * d + 8 * e + 4 * f + 2 * g + h
    BY <1>1
  <2> QED
    BY <2>1
<1>9. y >= 16 <=> a2 + b2 + c2 + d2 > 0
  <2>1. y = 128 * a2 + 64 * b2 + 32 * c2 + 16 * d2 + 8 * e2 + 4 * f2 + 2 * g2 + h2
    BY <1>2
  <2> QED
    BY <2>1
<1>10. o >= 16 <=> oa + ob + oc + od > 0
  BY <1>5, <1>6
<1>11. oa + ob + oc + od > 0 <=> a + b + c + d > 0 \/ a2 + b2 + c2 + d2 > 0
  BY <1>5
<1> QED
  BY <1>6, <1>7, <1>8, <1>9, <1>10, <1>11

(* `x & 0xF0` asks for a bit above the low nibble. *)
LEMMA AndAsksHigh ==
  ASSUME NEW x \in 0 .. 255
  PROVE  Hex!And8(x, 240) # 0 <=> x >= 16
<1>1. PICK a, b, c, d, e, f, g, h \in 0 .. 1 :
        /\ x = 128 * a + 64 * b + 32 * c + 16 * d + 8 * e + 4 * f + 2 * g + h
        /\ a = Hex!Bit(x, 128) /\ b = Hex!Bit(x, 64) /\ c = Hex!Bit(x, 32)
        /\ d = Hex!Bit(x, 16) /\ e = Hex!Bit(x, 8) /\ f = Hex!Bit(x, 4)
        /\ g = Hex!Bit(x, 2) /\ h = Hex!Bit(x, 1)
  BY SumOfBits
<1>2. /\ Hex!Bit(240, 128) = 1 /\ Hex!Bit(240, 64) = 1 /\ Hex!Bit(240, 32) = 1
      /\ Hex!Bit(240, 16) = 1 /\ Hex!Bit(240, 8) = 0 /\ Hex!Bit(240, 4) = 0
      /\ Hex!Bit(240, 2) = 0 /\ Hex!Bit(240, 1) = 0
  BY DEF Hex!Bit
<1>3. Hex!And8(x, 240) = 128 * a + 64 * b + 32 * c + 16 * d
  <2>1. /\ a = Hex!Bit(x, 128) /\ b = Hex!Bit(x, 64) /\ c = Hex!Bit(x, 32)
        /\ d = Hex!Bit(x, 16)
        /\ a \in 0 .. 1 /\ b \in 0 .. 1 /\ c \in 0 .. 1 /\ d \in 0 .. 1
    BY <1>1
  <2> DEFINE A(w) == IF Hex!Bit(x, w) = 1 /\ Hex!Bit(240, w) = 1 THEN 1 ELSE 0
  <2>2. Hex!And8(x, 240) = 128 * A(128) + 64 * A(64) + 32 * A(32) + 16 * A(16)
                           + 8 * A(8) + 4 * A(4) + 2 * A(2) + A(1)
    BY DEF Hex!And8, Hex!ByteOf
  <2>3. /\ A(128) = a /\ A(64) = b /\ A(32) = c /\ A(16) = d
        /\ A(8) = 0 /\ A(4) = 0 /\ A(2) = 0 /\ A(1) = 0
    BY <1>2, <2>1
  <2> HIDE DEF A
  <2> QED
    BY <2>1, <2>2, <2>3
<1>4. x = 128 * a + 64 * b + 32 * c + 16 * d + 8 * e + 4 * f + 2 * g + h
  BY <1>1
<1>5. x >= 16 <=> 128 * a + 64 * b + 32 * c + 16 * d # 0
  BY <1>4
<1> QED
  BY <1>3, <1>5

(* A high nibble or-ed with a low one is their sum. *)
LEMMA OrOfNibbles ==
  ASSUME NEW h \in 0 .. 15, NEW l \in 0 .. 15
  PROVE  Hex!Or8((h * 16) % 256, l) = h * 16 + l
<1>1. PICK x : x = h * 16
  OBVIOUS
<1>2. x \in 0 .. 255 /\ x % 256 = x
  BY <1>1
<1>3. /\ Hex!Bit(x, 8) = 0 /\ Hex!Bit(x, 4) = 0 /\ Hex!Bit(x, 2) = 0 /\ Hex!Bit(x, 1) = 0
  BY <1>1 DEF Hex!Bit
<1>4. /\ Hex!Bit(l, 128) = 0 /\ Hex!Bit(l, 64) = 0 /\ Hex!Bit(l, 32) = 0 /\ Hex!Bit(l, 16) = 0
  BY DEF Hex!Bit
<1>5. PICK a, b, c, d \in 0 .. 1 :
        /\ x = 128 * a + 64 * b + 32 * c + 16 * d
        /\ a = Hex!Bit(x, 128) /\ b = Hex!Bit(x, 64) /\ c = Hex!Bit(x, 32) /\ d = Hex!Bit(x, 16)
  BY <1>2, <1>3, SumOfBits
<1>6. l \in 0 .. 255
  OBVIOUS
<1>7. PICK e, f, g, k \in 0 .. 1 :
        /\ l = 8 * e + 4 * f + 2 * g + k
        /\ e = Hex!Bit(l, 8) /\ f = Hex!Bit(l, 4) /\ g = Hex!Bit(l, 2) /\ k = Hex!Bit(l, 1)
  BY <1>4, <1>6, SumOfBits
<1>8. Hex!Or8(x, l) = 128 * a + 64 * b + 32 * c + 16 * d + 8 * e + 4 * f + 2 * g + k
  BY <1>3, <1>4, <1>5, <1>7 DEF Hex!Or8, Hex!ByteOf
<1>9. Hex!Or8(x, l) = x + l
  BY <1>5, <1>7, <1>8
<1> QED
  BY <1>1, <1>2, <1>9

(* The position of a byte's digits, counting the hyphens before it. *)
LEMMA OffClosed ==
  ASSUME NEW i \in 0 .. 15
  PROVE  Hex!Off(i) = 2 * i + IF i < 4 THEN 0 ELSE IF i < 6 THEN 1
                              ELSE IF i < 8 THEN 2 ELSE IF i < 10 THEN 3 ELSE 4
<1>1. \/ i = 0 \/ i = 1 \/ i = 2 \/ i = 3 \/ i = 4 \/ i = 5 \/ i = 6 \/ i = 7
      \/ i = 8 \/ i = 9 \/ i = 10 \/ i = 11 \/ i = 12 \/ i = 13 \/ i = 14 \/ i = 15
  OBVIOUS
<1> QED
  BY <1>1 DEF Hex!Off, Hex!kCharOff

(* The digits of the reference are those of the encoders' table. *)
LEMMA HexDigitsAre ==
  ASSUME NEW v \in 0 .. 15
  PROVE  Hex!HexDigits[v + 1] = Hex!kHexLower(v)
<1>1. \/ v = 0 \/ v = 1 \/ v = 2 \/ v = 3 \/ v = 4 \/ v = 5 \/ v = 6 \/ v = 7
      \/ v = 8 \/ v = 9 \/ v = 10 \/ v = 11 \/ v = 12 \/ v = 13 \/ v = 14 \/ v = 15
  OBVIOUS
<1> QED
  BY <1>1 DEF Hex!HexDigits, Hex!kHexLower

(* A position that is no hyphen has one digit of exactly one byte. *)
LEMMA PositionOfDigit ==
  ASSUME NEW p \in 0 .. 35, p \notin Hex!Dashes
  PROVE  /\ Place(p) \in 0 .. 15 /\ OddAt(p) \in 0 .. 1
         /\ p = Hex!Off(Place(p)) + OddAt(p)
         /\ \A i \in 0 .. 15 : p \in {Hex!Off(i), Hex!Off(i) + 1} => i = Place(p)
<1>0. p # 8 /\ p # 13 /\ p # 18 /\ p # 23
  BY DEF Hex!Dashes
<1>1. PICK q, r : q = Place(p) /\ r = OddAt(p)
  OBVIOUS
<1>2. CASE p < 8
  <2>1. q = p \div 2 /\ r = p % 2
    BY <1>1, <1>2 DEF Place, OddAt
  <2>2. q \in 0 .. 3 /\ r \in 0 .. 1 /\ p = 2 * q + r
    BY <1>2, <2>1
  <2>3. \A i \in 0 .. 15 : p \in {Hex!Off(i), Hex!Off(i) + 1} => i = q
    BY <1>2, <2>2, OffClosed
  <2> QED
    BY <1>1, <2>2, <2>3, OffClosed
<1>3. CASE p > 8 /\ p < 13
  <2>1. q = 4 + ((p - 9) \div 2) /\ r = (p - 9) % 2
    BY <1>1, <1>3 DEF Place, OddAt
  <2>2. q \in 4 .. 5 /\ r \in 0 .. 1 /\ p = 2 * q + 1 + r
    BY <1>3, <2>1
  <2>3. \A i \in 0 .. 15 : p \in {Hex!Off(i), Hex!Off(i) + 1} => i = q
    BY <1>3, <2>2, OffClosed
  <2> QED
    BY <1>1, <2>2, <2>3, OffClosed
<1>4. CASE p > 13 /\ p < 18
  <2>1. q = 6 + ((p - 14) \div 2) /\ r = (p - 14) % 2
    BY <1>1, <1>4 DEF Place, OddAt
  <2>2. q \in 6 .. 7 /\ r \in 0 .. 1 /\ p = 2 * q + 2 + r
    BY <1>4, <2>1
  <2>3. \A i \in 0 .. 15 : p \in {Hex!Off(i), Hex!Off(i) + 1} => i = q
    BY <1>4, <2>2, OffClosed
  <2> QED
    BY <1>1, <2>2, <2>3, OffClosed
<1>5. CASE p > 18 /\ p < 23
  <2>1. q = 8 + ((p - 19) \div 2) /\ r = (p - 19) % 2
    BY <1>1, <1>5 DEF Place, OddAt
  <2>2. q \in 8 .. 9 /\ r \in 0 .. 1 /\ p = 2 * q + 3 + r
    BY <1>5, <2>1
  <2>3. \A i \in 0 .. 15 : p \in {Hex!Off(i), Hex!Off(i) + 1} => i = q
    BY <1>5, <2>2, OffClosed
  <2> QED
    BY <1>1, <2>2, <2>3, OffClosed
<1>6. CASE p > 23
  <2>1. q = 10 + ((p - 24) \div 2) /\ r = (p - 24) % 2
    BY <1>1, <1>6 DEF Place, OddAt
  <2>2. q \in 10 .. 15 /\ r \in 0 .. 1 /\ p = 2 * q + 4 + r
    BY <1>6, <2>1
  <2>3. \A i \in 0 .. 15 : p \in {Hex!Off(i), Hex!Off(i) + 1} => i = q
    BY <1>6, <2>2, OffClosed
  <2> QED
    BY <1>1, <2>2, <2>3, OffClosed
<1> QED
  BY <1>0, <1>2, <1>3, <1>4, <1>5, <1>6

(* No digit is written on a hyphen, or outside the string. *)
LEMMA DigitPositions ==
  ASSUME NEW i \in 0 .. 15
  PROVE  /\ Hex!Off(i) \in 0 .. 35 /\ Hex!Off(i) \notin Hex!Dashes
         /\ Hex!Off(i) + 1 \in 0 .. 35 /\ Hex!Off(i) + 1 \notin Hex!Dashes
  BY OffClosed DEF Hex!Dashes

(* A byte has two nibbles, and masking the high one changes nothing. *)
LEMMA NibblesOfByte ==
  ASSUME NEW x \in 0 .. 255
  PROVE  /\ x \div 16 \in 0 .. 15 /\ x % 16 \in 0 .. 15 /\ (x \div 16) % 16 = x \div 16
         /\ \A odd : Nibble(x, odd) \in 0 .. 15
  BY DEF Nibble

(* chronoid_hex_encode_lower_scalar writes every digit at its position. *)
LEMMA ScalarWrites ==
  ASSUME NEW u \in [0 .. 15 -> 0 .. 255], NEW p \in 0 .. 35
  PROVE  Hex!ScalarText(u)[p] = Written(u, p)
<1>1. CASE p \in Hex!Dashes
  BY <1>1 DEF Hex!ScalarText, Written, Hex!Dash
<1>2. CASE p \notin Hex!Dashes
  <2>1. /\ Place(p) \in 0 .. 15 /\ OddAt(p) \in 0 .. 1
        /\ p = Hex!Off(Place(p)) + OddAt(p)
        /\ \A j \in 0 .. 15 : p \in {Hex!Off(j), Hex!Off(j) + 1} => j = Place(p)
    BY <1>2, PositionOfDigit
  <2>2. Hex!Off(Place(p)) \in 0 .. 35
    BY <2>1, DigitPositions
  <2>3. p \in {Hex!Off(Place(p)), Hex!Off(Place(p)) + 1}
    BY <2>1, <2>2
  <2>4. Hex!ByteAt(p) = Place(p)
    BY <2>1, <2>3 DEF Hex!ByteAt
  <2>5. p = Hex!Off(Place(p)) <=> OddAt(p) = 0
    BY <2>1, <2>2
  <2> QED
    BY <1>2, <2>4, <2>5 DEF Written, Nibble, Hex!ScalarText
<1> QED
  BY <1>1, <1>2

(* The shift of a 16-bit lane brings the neighbour's bits; the mask takes  *)
(* them away.                                                              *)
LEMMA LaneShift ==
  ASSUME NEW a \in 0 .. 255, NEW b \in 0 .. 255
  PROVE  /\ (((a + 256 * b) \div 16) % 256) % 16 = a \div 16
         /\ (((a + 256 * b) \div 16) \div 256) % 16 = b \div 16
<1>1. (a + 256 * b) \div 16 = (a \div 16) + 16 * b
  OBVIOUS
<1>2. PICK h \in 0 .. 15 : h = a \div 16
  OBVIOUS
<1>3. ((h + 16 * b) % 256) % 16 = h
  OBVIOUS
<1>4. ((h + 16 * b) \div 256) % 16 = b \div 16
  OBVIOUS
<1> QED
  BY <1>1, <1>2, <1>3, <1>4

(* Both halves of the registers hold the digits of their byte. *)
LEMMA ShuffledNibbles ==
  ASSUME NEW m \in {16, 32}, NEW r \in [0 .. (m - 1) -> 0 .. 255], NEW i \in 0 .. (m - 1)
  PROVE  /\ Hex!Shuffle(Hex!HighNibbles(r))[i] = Hex!kHexLower(r[i] \div 16)
         /\ Hex!Shuffle(Hex!LowNibbles(r))[i] = Hex!kHexLower(r[i] % 16)
<1>1. DOMAIN r = 0 .. (m - 1) /\ r[i] \in 0 .. 255
  OBVIOUS
<1>2. PICK e : e = i - (i % 2)
  OBVIOUS
<1>3. /\ e \in 0 .. (m - 1) /\ e + 1 \in 0 .. (m - 1)
      /\ i = e \/ i = e + 1
  BY <1>2
<1>4. PICK a, b : a = r[e] /\ b = r[e + 1]
  OBVIOUS
<1>5. a \in 0 .. 255 /\ b \in 0 .. 255
  BY <1>3, <1>4
<1>6. Hex!HighNibbles(r)[i] = (IF i = e THEN ((a + 256 * b) \div 16) % 256
                                        ELSE ((a + 256 * b) \div 16) \div 256) % 16
  BY <1>1, <1>2, <1>4 DEF Hex!HighNibbles
<1>7. Hex!HighNibbles(r)[i] = r[i] \div 16
  <2>0. /\ (((a + 256 * b) \div 16) % 256) % 16 = a \div 16
        /\ (((a + 256 * b) \div 16) \div 256) % 16 = b \div 16
    BY <1>5, LaneShift
  <2>1. CASE i = e
    BY <1>4, <1>6, <2>0, <2>1
  <2>2. CASE i # e /\ i = e + 1
    BY <1>4, <1>6, <2>0, <2>2
  <2> QED
    BY <1>3, <2>1, <2>2
<1>8. Hex!LowNibbles(r)[i] = r[i] % 16
  BY <1>1 DEF Hex!LowNibbles
<1>9. i \in DOMAIN Hex!HighNibbles(r) /\ i \in DOMAIN Hex!LowNibbles(r)
  BY <1>1 DEF Hex!HighNibbles, Hex!LowNibbles
<1>10. /\ r[i] \div 16 \in 0 .. 15 /\ r[i] % 16 \in 0 .. 15
  BY <1>1, NibblesOfByte
<1>11. \A x \in 0 .. 15 : x % 16 = x /\ ~(x >= 128)
  OBVIOUS
<1>12. PICK hi, lo : hi = Hex!HighNibbles(r) /\ lo = Hex!LowNibbles(r)
  OBVIOUS
<1>13. Hex!Shuffle(hi)[i] = Hex!kHexLower(r[i] \div 16)
  BY <1>7, <1>9, <1>10, <1>11, <1>12 DEF Hex!Shuffle
<1>14. Hex!Shuffle(lo)[i] = Hex!kHexLower(r[i] % 16)
  BY <1>8, <1>9, <1>10, <1>11, <1>12 DEF Hex!Shuffle
<1> QED
  BY <1>12, <1>13, <1>14

(* The k-th of the 32 digits is one of byte k / 2 of its lane. *)
LEMMA Digits32At ==
  ASSUME NEW m \in {16, 32}, NEW r \in [0 .. (m - 1) -> 0 .. 255],
         NEW lane \in {0, 16}, lane + 16 <= m, NEW k \in 0 .. 31
  PROVE  Hex!Digits32(r, lane)[k] = Hex!kHexLower(Nibble(r[lane + (k \div 2)], k % 2))
<1>1. PICK hi, lo : hi = Hex!Shuffle(Hex!HighNibbles(r)) /\ lo = Hex!Shuffle(Hex!LowNibbles(r))
  OBVIOUS
<1>2. PICK h, j, i : h = k \div 16 /\ j = k % 16 /\ i = lane + 8 * h + (j \div 2)
  OBVIOUS
<1>3. /\ j \in 0 .. 15 /\ h \in 0 .. 1 /\ k = 16 * h + j
  BY <1>2
<1>4. /\ i = lane + (k \div 2) /\ j % 2 = k % 2
  BY <1>2, <1>3
<1>5. i \in 0 .. (m - 1)
  BY <1>4
<1>6. Hex!Digits32(r, lane)[k] = Hex!Unpack(hi, lo, lane, h)[j]
  BY <1>1, <1>2 DEF Hex!Digits32
<1>7. Hex!Unpack(hi, lo, lane, h)[j] = IF j % 2 = 0 THEN hi[i] ELSE lo[i]
  BY <1>2, <1>3 DEF Hex!Unpack
<1>8. hi[i] = Hex!kHexLower(r[i] \div 16) /\ lo[i] = Hex!kHexLower(r[i] % 16)
  BY <1>1, <1>5, ShuffledNibbles
<1> QED
  BY <1>4, <1>6, <1>7, <1>8 DEF Nibble

(* d are the 32 digits of the bytes of u. *)
InDigits(d, u) == \A k \in 0 .. 31 : d[k] = Hex!kHexLower(Nibble(u[k \div 2], k % 2))

(* The splices put every digit at its position. *)
LEMMA SpliceWrites ==
  ASSUME NEW u, NEW d, NEW p \in 0 .. 35, InDigits(d, u)
  PROVE  Hex!Splice(d)[p] = Written(u, p)
<1>0. \A k \in 0 .. 31 : d[k] = Hex!kHexLower(Nibble(u[k \div 2], k % 2))
  BY DEF InDigits
<1>1. Hex!Dashes = {8, 13, 18, 23}
  BY DEF Hex!Dashes
<1>2. CASE p \in Hex!Dashes
  <2>1. Hex!Splice(d)[p] = 45
    BY <1>1, <1>2 DEF Hex!Splice, Hex!Dash
  <2> QED
    BY <1>2, <2>1 DEF Written
<1>3. CASE p \in 0 .. 7
  <2>1. Hex!Splice(d)[p] = d[p]
    BY <1>1, <1>3 DEF Hex!Splice
  <2>2. p \in 0 .. 31 /\ Place(p) = p \div 2 /\ OddAt(p) = p % 2 /\ p \notin Hex!Dashes
    BY <1>1, <1>3 DEF Place, OddAt
  <2> QED
    BY <1>0, <2>1, <2>2 DEF Written
<1>4. CASE p \in 9 .. 12
  <2>1. PICK k \in 0 .. 31 : k = 8 + (p - 9)
    BY <1>4
  <2>2. Hex!Splice(d)[p] = d[k]
    BY <1>1, <1>4, <2>1 DEF Hex!Splice
  <2>3. Place(p) = k \div 2 /\ OddAt(p) = k % 2 /\ p \notin Hex!Dashes
    BY <1>1, <1>4, <2>1 DEF Place, OddAt
  <2> QED
    BY <1>0, <2>2, <2>3 DEF Written
<1>5. CASE p \in 14 .. 17
  <2>1. PICK k \in 0 .. 31 : k = 12 + (p - 14)
    BY <1>5
  <2>2. Hex!Splice(d)[p] = d[k]
    BY <1>1, <1>5, <2>1 DEF Hex!Splice
  <2>3. Place(p) = k \div 2 /\ OddAt(p) = k % 2 /\ p \notin Hex!Dashes
    BY <1>1, <1>5, <2>1 DEF Place, OddAt
  <2> QED
    BY <1>0, <2>2, <2>3 DEF Written
<1>6. CASE p \in 19 .. 22
  <2>1. PICK k \in 0 .. 31 : k = 16 + (p - 19)
    BY <1>6
  <2>2. Hex!Splice(d)[p] = d[k]
    BY <1>1, <1>6, <2>1 DEF Hex!Splice
  <2>3. Place(p) = k \div 2 /\ OddAt(p) = k % 2 /\ p \notin Hex!Dashes
    BY <1>1, <1>6, <2>1 DEF Place, OddAt
  <2> QED
    BY <1>0, <2>2, <2>3 DEF Written
<1>7. CASE p \in 24 .. 35
  <2>1. PICK k \in 0 .. 31 : k = 20 + (p - 24)
    BY <1>7
  <2>2. Hex!Splice(d)[p] = d[k]
    BY <1>1, <1>7, <2>1 DEF Hex!Splice
  <2>3. Place(p) = k \div 2 /\ OddAt(p) = k % 2 /\ p \notin Hex!Dashes
    BY <1>1, <1>7, <2>1 DEF Place, OddAt
  <2> QED
    BY <1>0, <2>2, <2>3 DEF Written
<1> QED
  BY <1>1, <1>2, <1>3, <1>4, <1>5, <1>6, <1>7

(* The bytes from .. to fill the positions after l, and their text does. *)
Fits(from, to, l) ==
  \A k \in 1 .. (2 * (to - from + 1)) :
    /\ l + k \notin Hex!Dashes
    /\ Place(l + k) = from + ((k - 1) \div 2) /\ OddAt(l + k) = (k - 1) % 2
Follows(g, m, l, u) == g \in Seq(Nat) /\ Len(g) = m /\ \A k \in 1 .. m : g[k] = Written(u, l + k)

(* The first m characters of the canonical string. *)
Begun(s, m, u) == s \in Seq(Nat) /\ Len(s) = m /\ \A p \in 0 .. (m - 1) : s[p + 1] = Written(u, p)

(* A group of the canonical string, position by position. *)
LEMMA GroupFollows ==
  ASSUME NEW u \in [0 .. 15 -> 0 .. 255], NEW from \in 0 .. 15, NEW to \in from .. 15,
         NEW l \in Int, Fits(from, to, l)
  PROVE  Follows(Hex!Group(u, from, to), 2 * (to - from + 1), l, u)
<1>0. PICK g, m : g = Hex!Group(u, from, to) /\ m = 2 * (to - from + 1)
  OBVIOUS
<1>1. m \in Nat
  BY <1>0
<1>3. g = [k \in 1 .. m |-> Hex!ByteText(u[from + ((k - 1) \div 2)])[1 + ((k - 1) % 2)]]
  BY <1>0 DEF Hex!Group
<1>4. ASSUME NEW x \in 0 .. 255, NEW odd \in 0 .. 1
      PROVE  Hex!ByteText(x)[1 + odd] = Hex!kHexLower(Nibble(x, odd))
  <2>1. x \div 16 \in 0 .. 15 /\ x % 16 \in 0 .. 15
    BY NibblesOfByte
  <2>2. /\ Hex!HexDigits[(x \div 16) + 1] = Hex!kHexLower(x \div 16)
        /\ Hex!HexDigits[(x % 16) + 1] = Hex!kHexLower(x % 16)
    BY <2>1, HexDigitsAre
  <2>3. odd = 0 \/ odd = 1
    OBVIOUS
  <2> QED
    BY <2>2, <2>3 DEF Hex!ByteText, Nibble
<1>5. ASSUME NEW k \in 1 .. m
      PROVE  g[k] = Written(u, l + k) /\ g[k] \in Nat
  <2>1. PICK i, odd : i = from + ((k - 1) \div 2) /\ odd = (k - 1) % 2
    OBVIOUS
  <2>2. i \in 0 .. 15 /\ odd \in 0 .. 1
    BY <1>0, <2>1
  <2>3. u[i] \in 0 .. 255
    BY <2>2
  <2>4. g[k] = Hex!ByteText(u[i])[1 + odd]
    BY <1>3, <2>1
  <2>5. g[k] = Hex!kHexLower(Nibble(u[i], odd))
    BY <1>4, <2>2, <2>3, <2>4
  <2>6. Nibble(u[i], odd) \in 0 .. 15
    BY <2>3, NibblesOfByte
  <2>7. Hex!kHexLower(Nibble(u[i], odd)) \in Nat
    BY <2>6 DEF Hex!kHexLower
  <2>8. l + k \notin Hex!Dashes /\ Place(l + k) = i /\ OddAt(l + k) = odd
    BY <1>0, <2>1 DEF Fits
  <2> QED
    BY <2>5, <2>7, <2>8 DEF Written
<1>6. g \in [1 .. m -> Nat]
  BY <1>3, <1>5
<1>7. g \in Seq(Nat) /\ Len(g) = m
  BY <1>1, <1>6, AsSequence
<1> QED
  BY <1>0, <1>5, <1>7 DEF Follows

(* Two texts put one after the other. *)
LEMMA Joined ==
  ASSUME NEW s \in Seq(Nat), NEW t \in Seq(Nat)
  PROVE  /\ s \o t \in Seq(Nat) /\ Len(s \o t) = Len(s) + Len(t)
         /\ \A k \in 1 .. Len(s) : (s \o t)[k] = s[k]
         /\ \A k \in 1 .. Len(t) : (s \o t)[Len(s) + k] = t[k]
  OBVIOUS

(* A hyphen and the next group of digits. *)
LEMMA BegunGrows ==
  ASSUME NEW u, NEW l \in Nat, NEW s, Begun(s, l, u), l \in Hex!Dashes,
         NEW m \in Nat, NEW g, Follows(g, m, l, u)
  PROVE  Begun(s \o <<45>> \o g, l + m + 1, u)
<1>1. <<45>> \in Seq(Nat) /\ Len(<<45>>) = 1 /\ <<45>>[1] = 45
  OBVIOUS
<1>2. PICK t : t = s \o <<45>>
  OBVIOUS
<1>3. s \in Seq(Nat) /\ Len(s) = l
  BY DEF Begun
<1>4. /\ t \in Seq(Nat) /\ Len(t) = l + 1 /\ \A k \in 1 .. l : t[k] = s[k]
  BY <1>1, <1>2, <1>3, Joined
<1>5. t[l + 1] = 45
  BY <1>1, <1>2, <1>3, Joined
<1>6. g \in Seq(Nat) /\ Len(g) = m
  BY DEF Follows
<1>7. PICK r : r = t \o g
  OBVIOUS
<1>8. r \in Seq(Nat) /\ Len(r) = l + 1 + m
  <2>1. t \in Seq(Nat) /\ Len(t) = l + 1
    BY <1>4
  <2>2. r \in Seq(Nat) /\ Len(r) = Len(t) + Len(g)
    BY <1>6, <1>7, <2>1, Joined
  <2> QED
    BY <1>6, <2>1, <2>2
<1>9. \A k \in 1 .. (l + 1) : r[k] = t[k]
  BY <1>4, <1>6, <1>7, Joined
<1>10. \A k \in 1 .. m : r[l + 1 + k] = g[k]
  <2>1. t \in Seq(Nat) /\ Len(t) = l + 1
    BY <1>4
  <2>2. \A k \in 1 .. Len(g) : r[Len(t) + k] = g[k]
    BY <1>6, <1>7, <2>1, Joined
  <2> QED
    BY <1>6, <2>1, <2>2
<1>11. ASSUME NEW p \in 0 .. (l + m) PROVE r[p + 1] = Written(u, p)
  <2>1. CASE p < l
    <3>1. p + 1 \in 1 .. l /\ p + 1 \in 1 .. (l + 1) /\ p \in 0 .. (l - 1)
      BY <2>1
    <3>2. r[p + 1] = s[p + 1]
      BY <1>4, <1>9, <3>1
    <3> QED
      BY <3>1, <3>2 DEF Begun
  <2>2. CASE p = l
    <3>1. r[l + 1] = t[l + 1]
      BY <1>9
    <3>2. Written(u, l) = 45
      BY DEF Written
    <3> QED
      BY <1>5, <2>2, <3>1, <3>2
  <2>3. CASE p > l
    <3>1. PICK k \in 1 .. m : p = l + k
      <4>1. p - l \in 1 .. m /\ p = l + (p - l)
        BY <2>3
      <4> QED
        BY <4>1
    <3>2. r[l + 1 + k] = g[k] /\ l + 1 + k = p + 1
      BY <1>10, <3>1
    <3>3. g[k] = Written(u, l + k)
      BY DEF Follows
    <3> QED
      BY <3>1, <3>2, <3>3
  <2> QED
    BY <2>1, <2>2, <2>3
<1>12. (l + m + 1) - 1 = l + m /\ Len(r) = l + m + 1
  BY <1>8
<1> QED
  BY <1>2, <1>7, <1>8, <1>11, <1>12 DEF Begun

(* The groups 8-4-4-4-12 are where the hyphens leave room for them. *)
LEMMA Layout ==
  /\ Fits(0, 3, 0 - 1) /\ Fits(4, 5, 8) /\ Fits(6, 7, 13) /\ Fits(8, 9, 18) /\ Fits(10, 15, 23)
  /\ 8 \in Hex!Dashes /\ 13 \in Hex!Dashes /\ 18 \in Hex!Dashes /\ 23 \in Hex!Dashes
<1>0. Hex!Dashes = {8, 13, 18, 23}
  BY DEF Hex!Dashes
<1>1. Fits(0, 3, 0 - 1)
  BY <1>0 DEF Fits, Place, OddAt
<1>2. Fits(4, 5, 8)
  BY <1>0 DEF Fits, Place, OddAt
<1>3. Fits(6, 7, 13)
  BY <1>0 DEF Fits, Place, OddAt
<1>4. Fits(8, 9, 18)
  BY <1>0 DEF Fits, Place, OddAt
<1>5. Fits(10, 15, 23)
  BY <1>0 DEF Fits, Place, OddAt
<1> QED
  BY <1>0, <1>1, <1>2, <1>3, <1>4, <1>5

(* The canonical string, position by position. *)
LEMMA CanonicalWrites ==
  ASSUME NEW u \in [0 .. 15 -> 0 .. 255], NEW p \in 0 .. 35
  PROVE  Hex!Canonical(u)[p + 1] = Written(u, p)
<1>1. PICK g1, g2, g3, g4, g5 :
        /\ g1 = Hex!Group(u, 0, 3) /\ g2 = Hex!Group(u, 4, 5) /\ g3 = Hex!Group(u, 6, 7)
        /\ g4 = Hex!Group(u, 8, 9) /\ g5 = Hex!Group(u, 10, 15)
  OBVIOUS
<1>2. /\ Follows(g1, 2 * (3 - 0 + 1), 0 - 1, u) /\ Follows(g2, 2 * (5 - 4 + 1), 8, u)
      /\ Follows(g3, 2 * (7 - 6 + 1), 13, u) /\ Follows(g4, 2 * (9 - 8 + 1), 18, u)
      /\ Follows(g5, 2 * (15 - 10 + 1), 23, u)
  BY <1>1, Layout, GroupFollows
<1>3. /\ 2 * (3 - 0 + 1) = 8 /\ 2 * (5 - 4 + 1) = 4 /\ 2 * (7 - 6 + 1) = 4
      /\ 2 * (9 - 8 + 1) = 4 /\ 2 * (15 - 10 + 1) = 12
  OBVIOUS
<1>4. /\ Follows(g1, 8, 0 - 1, u) /\ Follows(g2, 4, 8, u) /\ Follows(g3, 4, 13, u)
      /\ Follows(g4, 4, 18, u) /\ Follows(g5, 12, 23, u)
  BY <1>2, <1>3
<1>5. Begun(g1, 8, u)
  <2>1. g1 \in Seq(Nat) /\ Len(g1) = 8
    BY <1>4 DEF Follows
  <2>2. ASSUME NEW q \in 0 .. 7 PROVE g1[q + 1] = Written(u, q)
    <3>1. q + 1 \in 1 .. 8 /\ (0 - 1) + (q + 1) = q
      OBVIOUS
    <3>2. g1[q + 1] = Written(u, (0 - 1) + (q + 1))
      BY <1>4, <3>1 DEF Follows
    <3> QED
      BY <3>1, <3>2
  <2>3. 8 - 1 = 7
    OBVIOUS
  <2> QED
    BY <2>1, <2>2, <2>3 DEF Begun
<1>6. Begun(g1 \o <<45>> \o g2, 13, u)
  <2>1. Begun(g1 \o <<45>> \o g2, 8 + 4 + 1, u)
    BY <1>4, <1>5, Layout, BegunGrows
  <2>2. 8 + 4 + 1 = 13
    OBVIOUS
  <2> QED
    BY <2>1, <2>2
<1>7. Begun(g1 \o <<45>> \o g2 \o <<45>> \o g3, 18, u)
  <2>1. Begun(g1 \o <<45>> \o g2 \o <<45>> \o g3, 13 + 4 + 1, u)
    BY <1>4, <1>6, Layout, BegunGrows
  <2>2. 13 + 4 + 1 = 18
    OBVIOUS
  <2> QED
    BY <2>1, <2>2
<1>8. Begun(g1 \o <<45>> \o g2 \o <<45>> \o g3 \o <<45>> \o g4, 23, u)
  <2>1. Begun(g1 \o <<45>> \o g2 \o <<45>> \o g3 \o <<45>> \o g4, 18 + 4 + 1, u)
    BY <1>4, <1>7, Layout, BegunGrows
  <2>2. 18 + 4 + 1 = 23
    OBVIOUS
  <2> QED
    BY <2>1, <2>2
<1>9. Begun(Hex!Canonical(u), 36, u)
  <2>1. Begun(g1 \o <<45>> \o g2 \o <<45>> \o g3 \o <<45>> \o g4 \o <<45>> \o g5, 23 + 12 + 1, u)
    BY <1>4, <1>8, Layout, BegunGrows
  <2>2. 23 + 12 + 1 = 36
    OBVIOUS
  <2> QED
    BY <1>1, <2>1, <2>2 DEF Hex!Canonical, Hex!Dash
<1>10. 36 - 1 = 35
  OBVIOUS
<1> QED
  BY <1>9, <1>10 DEF Begun

(* A call of the hex codec begins. *)
LEMMA HexCallKeeps ==
  ASSUME NEW how, NEW x, Hex!CallInv, hex_op = "idle", Hex!Call(how, x),
         \/ how \in {"scalar", "ssse3"} /\ \E u \in Uuids : x = << u >>
         \/ how = "avx2" /\ x \in Quads
         \/ how = "parse" /\ x \in Strings
  PROVE  Hex!CallInv'
<1>1. /\ hex_op' = how /\ hex_input' = x
      /\ hex_out' = << >> /\ hex_id' = << >> /\ hex_ret' = "none"
  BY DEF Hex!Call, Hex!CallInv, Hex!Kept
<1>2. Hex!EncodersAgree'
  <2>1. DOMAIN hex_out' = {} /\ hex_op' # "done"
    BY <1>1
  <2> QED
    BY <2>1 DEF Hex!EncodersAgree
<1>3. Hex!ParseExact'
  BY <1>1 DEF Hex!ParseExact, Hex!Kept
<1> QED
  BY <1>1, <1>2, <1>3 DEF Hex!CallInv, Hex!Kept

(* A call that writes canonical strings for what it was given. *)
LEMMA EncodingKeeps ==
  ASSUME Hex!CallInv, hex_op \in {"scalar", "ssse3", "avx2"},
         hex_op' = "done", UNCHANGED <<hex_input, hex_id, hex_ret>>,
         Len(hex_out') = Len(hex_input),
         \A k \in DOMAIN hex_out' : \A p \in 0 .. 35 :
            hex_out'[k][p] = Hex!Canonical(hex_input[k])[p + 1]
  PROVE  Hex!CallInv'
<1>1. hex_id = << >> /\ hex_ret = "none"
  BY DEF Hex!CallInv, Hex!Kept
<1>2. Hex!EncodersAgree'
  BY DEF Hex!EncodersAgree
<1>3. Hex!ParseExact'
  BY <1>1 DEF Hex!ParseExact, Hex!Kept
<1> QED
  BY <1>2, <1>3 DEF Hex!CallInv

(* An identifier is 16 bytes. *)
LEMMA UuidTyped ==
  /\ Uuids \subseteq [0 .. 15 -> 0 .. 255]
  /\ Quads \subseteq [1 .. 4 -> [0 .. 15 -> 0 .. 255]]
  BY HexFits DEF Hex!ConstantsFit

(* The scalar encoder writes the canonical string. *)
LEMMA EncodeScalarKeeps ==
  ASSUME Hex!CallInv, Hex!EncodeScalar
  PROVE  Hex!CallInv'
<1>1. PICK u \in Uuids : hex_input = << u >>
  BY DEF Hex!CallInv, Hex!EncodeScalar
<1>2. hex_out' = << Hex!ScalarText(u) >> /\ hex_input[1] = u
  BY <1>1 DEF Hex!EncodeScalar
<1>3. \A p \in 0 .. 35 : Hex!ScalarText(u)[p] = Hex!Canonical(u)[p + 1]
  BY UuidTyped, ScalarWrites, CanonicalWrites
<1>4. DOMAIN hex_out' = {1} /\ hex_out'[1] = Hex!ScalarText(u)
  BY <1>2
<1>5. \A k \in DOMAIN hex_out' : \A p \in 0 .. 35 :
         hex_out'[k][p] = Hex!Canonical(hex_input[k])[p + 1]
  BY <1>2, <1>3, <1>4
<1>6. Len(hex_out') = Len(hex_input)
  BY <1>1, <1>2
<1> QED
  BY <1>5, <1>6, EncodingKeeps DEF Hex!EncodeScalar

(* The lane of a register that holds u. *)
Holds(r, lane, u) == \A i \in 0 .. 15 : r[lane + i] = u[i]

(* d are 32 digits, those of a lane or those that h has from `at` on. *)
LaneDigits(d, r, lane) == \A k \in 0 .. 31 : d[k] = Hex!Digits32(r, lane)[k]
CopyOf(d, h, at) == \A k \in 0 .. 31 : d[k] = h[at + k]

(* The digits of a lane, wherever they were stored, spliced, are the       *)
(* canonical string of the identifier in it.                               *)
LEMMA LaneWrites ==
  ASSUME NEW m \in {16, 32}, NEW r \in [0 .. (m - 1) -> 0 .. 255],
         NEW lane \in {0, 16}, lane + 16 <= m, NEW u \in [0 .. 15 -> 0 .. 255],
         Holds(r, lane, u), NEW p \in 0 .. 35,
         NEW d, LaneDigits(d, r, lane)
  PROVE  Hex!Splice(d)[p] = Hex!Canonical(u)[p + 1]
<1>2. ASSUME NEW k \in 0 .. 31 PROVE d[k] = Hex!kHexLower(Nibble(u[k \div 2], k % 2))
  <2>1. d[k] = Hex!kHexLower(Nibble(r[lane + (k \div 2)], k % 2))
    BY Digits32At DEF LaneDigits
  <2>2. k \div 2 \in 0 .. 15
    OBVIOUS
  <2>3. r[lane + (k \div 2)] = u[k \div 2]
    BY <2>2 DEF Holds
  <2> QED
    BY <2>1, <2>3
<1>3. Hex!Splice(d)[p] = Written(u, p)
  <2>1. InDigits(d, u)
    BY <1>2 DEF InDigits
  <2> QED
    BY <2>1, SpliceWrites
<1>4. Hex!Canonical(u)[p + 1] = Written(u, p)
  BY CanonicalWrites
<1> QED
  BY <1>3, <1>4

(* The SSSE3 encoder writes the canonical string. *)
LEMMA EncodeSsse3Keeps ==
  ASSUME Hex!CallInv, Hex!EncodeSsse3
  PROVE  Hex!CallInv'
<1>1. PICK u \in Uuids : hex_input = << u >>
  BY DEF Hex!CallInv, Hex!EncodeSsse3
<1>2. PICK s : s = Hex!Splice(Hex!Digits32(u, 0))
  OBVIOUS
<1>3. hex_out' = << s >> /\ hex_input[1] = u
  BY <1>1, <1>2 DEF Hex!EncodeSsse3
<1>4. ASSUME NEW p \in 0 .. 35 PROVE s[p] = Hex!Canonical(u)[p + 1]
  <2>1. u \in [0 .. 15 -> 0 .. 255] /\ u \in [0 .. (16 - 1) -> 0 .. 255]
    BY UuidTyped
  <2>2. Holds(u, 0, u) /\ 0 + 16 <= 16
    BY DEF Holds
  <2>3. LaneDigits(Hex!Digits32(u, 0), u, 0)
    BY DEF LaneDigits
  <2> QED
    BY <1>2, <2>1, <2>2, <2>3, LaneWrites
<1>5. DOMAIN hex_out' = {1} /\ hex_out'[1] = s
  BY <1>3
<1>6. \A k \in DOMAIN hex_out' : \A p \in 0 .. 35 :
         hex_out'[k][p] = Hex!Canonical(hex_input[k])[p + 1]
  BY <1>3, <1>4, <1>5
<1>7. Len(hex_out') = Len(hex_input)
  BY <1>1, <1>3
<1> QED
  BY <1>6, <1>7, EncodingKeeps DEF Hex!EncodeSsse3

Identifier(u) == u \in [0 .. 15 -> 0 .. 255]

(* d are the digits of the first, of the second identifier of a pass. *)
LowerHalf(d, u, v) == CopyOf(d, Hex!Hex32(u, v), 0)
UpperHalf(d, u, v) == CopyOf(d, Hex!Hex32(u, v), 32)

(* d, spliced, is the canonical string of x. *)
Spells(d, x) == \A p \in 0 .. 35 : Hex!Splice(d)[p] = Hex!Canonical(x)[p + 1]

(* d are the digits of x, one of the two identifiers of a pass. *)
HalfOf(x, d, u, v) ==
  \/ x = u /\ LowerHalf(d, u, v)
  \/ x = v /\ UpperHalf(d, u, v)

(* One pass of the AVX2 encoder leaves the digits of both identifiers, and *)
(* either half, spliced, is a canonical string.                            *)
LEMMA PassWrites ==
  ASSUME NEW u, NEW v, NEW d, NEW x,
         Identifier(u), Identifier(v), HalfOf(x, d, u, v)
  PROVE  Spells(d, x)
<1> SUFFICES ASSUME NEW p \in 0 .. 35
             PROVE  Hex!Splice(d)[p] = Hex!Canonical(x)[p + 1]
  BY DEF Spells
<1>0. u \in [0 .. 15 -> 0 .. 255] /\ v \in [0 .. 15 -> 0 .. 255]
  BY DEF Identifier
<1>1. PICK both : both = [i \in 0 .. 31 |-> IF i < 16 THEN u[i] ELSE v[i - 16]]
  OBVIOUS
<1>2. Hex!Hex32(u, v) = [k \in 0 .. 63 |-> IF k < 32 THEN Hex!Digits32(both, 0)[k]
                                           ELSE Hex!Digits32(both, 16)[k - 32]]
  BY <1>1 DEF Hex!Hex32
<1>3. both \in [0 .. (32 - 1) -> 0 .. 255]
  <2>1. ASSUME NEW i \in 0 .. 31 PROVE (IF i < 16 THEN u[i] ELSE v[i - 16]) \in 0 .. 255
    <3>1. CASE i < 16
      BY <1>0, <3>1
    <3>2. CASE ~(i < 16)
      <4>1. i - 16 \in 0 .. 15
        BY <3>2
      <4> QED
        BY <1>0, <3>2, <4>1
    <3> QED
      BY <3>1, <3>2
  <2>2. 32 - 1 = 31
    OBVIOUS
  <2> QED
    BY <1>1, <2>1, <2>2
<1>4. Holds(both, 0, u) /\ Holds(both, 16, v) /\ 0 + 16 <= 32 /\ 16 + 16 <= 32
  BY <1>1 DEF Holds
<1>7. 32 \in {16, 32} /\ 0 \in {0, 16} /\ 16 \in {0, 16}
  OBVIOUS
<1>5. ASSUME LowerHalf(d, u, v)
      PROVE  Hex!Splice(d)[p] = Hex!Canonical(u)[p + 1]
  <2>1. ASSUME NEW k \in 0 .. 31 PROVE d[k] = Hex!Digits32(both, 0)[k]
    <3>1. k \in 0 .. 63 /\ k < 32 /\ 0 + k = k
      OBVIOUS
    <3>2. Hex!Hex32(u, v)[k] = Hex!Digits32(both, 0)[k]
      BY <1>2, <3>1
    <3> QED
      BY <1>5, <3>1, <3>2 DEF LowerHalf, CopyOf
  <2>2. LaneDigits(d, both, 0)
    BY <2>1 DEF LaneDigits
  <2> QED
    BY <1>0, <1>3, <1>4, <1>7, <2>2, LaneWrites, ZenonT(30)
<1>6. ASSUME UpperHalf(d, u, v)
      PROVE  Hex!Splice(d)[p] = Hex!Canonical(v)[p + 1]
  <2>1. ASSUME NEW k \in 0 .. 31 PROVE d[k] = Hex!Digits32(both, 16)[k]
    <3>1. 32 + k \in 0 .. 63 /\ ~(32 + k < 32) /\ (32 + k) - 32 = k
      OBVIOUS
    <3>2. Hex!Hex32(u, v)[32 + k] = Hex!Digits32(both, 16)[(32 + k) - 32]
      BY <1>2, <3>1
    <3> QED
      BY <1>6, <3>1, <3>2 DEF UpperHalf, CopyOf
  <2>2. LaneDigits(d, both, 16)
    BY <2>1 DEF LaneDigits
  <2> QED
    BY <1>0, <1>3, <1>4, <1>7, <2>2, LaneWrites, ZenonT(30)
<1> QED
  BY <1>5, <1>6 DEF HalfOf

(* The AVX2 encoder writes the canonical strings of all four identifiers,  *)
(* from both passes.                                                       *)
LEMMA EncodeAvx2Keeps ==
  ASSUME Hex!CallInv, Hex!EncodeAvx2
  PROVE  Hex!CallInv'
<1>1. hex_input \in Quads /\ hex_op = "avx2"
  BY DEF Hex!CallInv, Hex!EncodeAvx2
<1>2. PICK q : q = hex_input
  OBVIOUS
<1>3. /\ q \in [1 .. 4 -> [0 .. 15 -> 0 .. 255]]
      /\ q[1] \in [0 .. 15 -> 0 .. 255] /\ q[2] \in [0 .. 15 -> 0 .. 255]
      /\ q[3] \in [0 .. 15 -> 0 .. 255] /\ q[4] \in [0 .. 15 -> 0 .. 255]
  <2>1. q \in [1 .. 4 -> [0 .. 15 -> 0 .. 255]]
    BY <1>1, <1>2, UuidTyped
  <2>2. 1 \in 1 .. 4 /\ 2 \in 1 .. 4 /\ 3 \in 1 .. 4 /\ 4 \in 1 .. 4
    OBVIOUS
  <2>3. ASSUME NEW A, NEW f \in [1 .. 4 -> A], NEW k \in 1 .. 4 PROVE f[k] \in A
    OBVIOUS
  <2> QED
    BY <2>1, <2>2, <2>3
<1>4. PICK low, high, hex :
        /\ low = Hex!Hex32(q[1], q[2]) /\ high = Hex!Hex32(q[3], q[4])
        /\ hex = [k \in 0 .. 127 |-> IF k < 64 THEN low[k] ELSE high[k - 64]]
  OBVIOUS
<1>5. PICK d1, d2, d3, d4 :
        /\ d1 = Hex!From(hex, 0) /\ d2 = Hex!From(hex, 32)
        /\ d3 = Hex!From(hex, 64) /\ d4 = Hex!From(hex, 96)
  OBVIOUS
<1>6. PICK s1, s2, s3, s4 :
        /\ s1 = Hex!Splice(d1) /\ s2 = Hex!Splice(d2)
        /\ s3 = Hex!Splice(d3) /\ s4 = Hex!Splice(d4)
  OBVIOUS
<1>7. hex_out' = << s1, s2, s3, s4 >>
  BY <1>2, <1>4, <1>5, <1>6 DEF Hex!EncodeAvx2
<1>8. CopyOf(d1, low, 0) /\ CopyOf(d2, low, 32) /\ CopyOf(d3, high, 0) /\ CopyOf(d4, high, 32)
  <2> SUFFICES ASSUME NEW k \in 0 .. 31
               PROVE  /\ d1[k] = low[0 + k] /\ d2[k] = low[32 + k]
                      /\ d3[k] = high[0 + k] /\ d4[k] = high[32 + k]
    BY DEF CopyOf
  <2>1. d1[k] = hex[0 + k] /\ d2[k] = hex[32 + k] /\ d3[k] = hex[64 + k] /\ d4[k] = hex[96 + k]
    BY <1>5 DEF Hex!From
  <2>2. /\ 0 + k = k /\ k \in 0 .. 127 /\ k < 64
        /\ 32 + k \in 0 .. 127 /\ 32 + k < 64
        /\ 64 + k \in 0 .. 127 /\ ~(64 + k < 64) /\ (64 + k) - 64 = k
        /\ 96 + k \in 0 .. 127 /\ ~(96 + k < 64) /\ (96 + k) - 64 = 32 + k
    OBVIOUS
  <2>3. /\ hex[k] = low[k] /\ hex[32 + k] = low[32 + k]
        /\ hex[64 + k] = high[(64 + k) - 64] /\ hex[96 + k] = high[(96 + k) - 64]
    BY <1>4, <2>2
  <2> QED
    BY <2>1, <2>2, <2>3
<1>9. ASSUME NEW p \in 0 .. 35
      PROVE  /\ s1[p] = Hex!Canonical(q[1])[p + 1] /\ s2[p] = Hex!Canonical(q[2])[p + 1]
             /\ s3[p] = Hex!Canonical(q[3])[p + 1] /\ s4[p] = Hex!Canonical(q[4])[p + 1]
  <2>0. PICK u1, u2, u3, u4 \in [0 .. 15 -> 0 .. 255] :
          u1 = q[1] /\ u2 = q[2] /\ u3 = q[3] /\ u4 = q[4]
    BY <1>3
  <2>5. low = Hex!Hex32(u1, u2) /\ high = Hex!Hex32(u3, u4)
    BY <1>4, <2>0
  <2>1. Spells(d1, u1)
    <3>1. HalfOf(u1, d1, u1, u2)
      BY <1>8, <2>5 DEF HalfOf, LowerHalf
    <3>2. Identifier(u1) /\ Identifier(u2)
      BY DEF Identifier
    <3> QED
      BY <3>1, <3>2, PassWrites, Zenon
  <2>2. Spells(d2, u2)
    <3>1. HalfOf(u2, d2, u1, u2)
      BY <1>8, <2>5 DEF HalfOf, UpperHalf
    <3>2. Identifier(u1) /\ Identifier(u2)
      BY DEF Identifier
    <3> QED
      BY <3>1, <3>2, PassWrites, Zenon
  <2>3. Spells(d3, u3)
    <3>1. HalfOf(u3, d3, u3, u4)
      BY <1>8, <2>5 DEF HalfOf, LowerHalf
    <3>2. Identifier(u3) /\ Identifier(u4)
      BY DEF Identifier
    <3> QED
      BY <3>1, <3>2, PassWrites, Zenon
  <2>4. Spells(d4, u4)
    <3>1. HalfOf(u4, d4, u3, u4)
      BY <1>8, <2>5 DEF HalfOf, UpperHalf
    <3>2. Identifier(u3) /\ Identifier(u4)
      BY DEF Identifier
    <3> QED
      BY <3>1, <3>2, PassWrites, Zenon
  <2> QED
    BY <1>6, <2>0, <2>1, <2>2, <2>3, <2>4 DEF Spells
<1>10. /\ DOMAIN hex_out' = {1, 2, 3, 4} /\ Len(hex_out') = 4
       /\ hex_out'[1] = s1 /\ hex_out'[2] = s2 /\ hex_out'[3] = s3 /\ hex_out'[4] = s4
  BY <1>7
<1>11. ASSUME NEW k \in DOMAIN hex_out', NEW p \in 0 .. 35
       PROVE  hex_out'[k][p] = Hex!Canonical(hex_input[k])[p + 1]
  <2>1. k = 1 \/ k = 2 \/ k = 3 \/ k = 4
    BY <1>10
  <2> QED
    BY <1>2, <1>9, <1>10, <2>1
<1>12. Len(hex_input) = 4
  <2>1. PICK A : A = [0 .. 15 -> 0 .. 255]
    OBVIOUS
  <2>2. q \in [1 .. 4 -> A] /\ 4 \in Nat
    BY <1>3, <2>1
  <2>3. Len(q) = 4
    BY <2>2, AsSequence
  <2> QED
    BY <1>2, <2>3
<1> QED
  BY <1>1, <1>10, <1>11, <1>12, EncodingKeeps DEF Hex!EncodeAvx2

(* The table of the parser inverts the encoders' alphabet, up to case. *)
LEMMA HexTableInverts ==
  ASSUME NEW c \in 0 .. 255
  PROVE  /\ Hex!kHexValue(c) \in 0 .. 15 \/ Hex!kHexValue(c) = 255
         /\ Hex!kHexValue(c) \in 0 .. 15 => Hex!kHexLower(Hex!kHexValue(c)) = Hex!Lower(c)
         /\ Hex!kHexValue(c) = 255 => \A v \in 0 .. 15 : Hex!Lower(c) # Hex!kHexLower(v)
<1>1. c \in 48 .. 57 => Hex!kHexValue(c) = c - 48 /\ Hex!Lower(c) = c
  BY DEF Hex!kHexValue, Hex!Lower
<1>2. c \in 65 .. 70 => Hex!kHexValue(c) = c - 65 + 10 /\ Hex!Lower(c) = c + 32
  BY DEF Hex!kHexValue, Hex!Lower
<1>3. c \in 97 .. 102 => Hex!kHexValue(c) = c - 97 + 10 /\ Hex!Lower(c) = c
  BY DEF Hex!kHexValue, Hex!Lower
<1>4. c \notin 48 .. 57 /\ c \notin 65 .. 70 /\ c \notin 97 .. 102 =>
        Hex!kHexValue(c) = 255 /\ Hex!Lower(c) = c
  BY DEF Hex!kHexValue, Hex!Lower
<1> QED
  BY <1>1, <1>2, <1>3, <1>4 DEF Hex!kHexLower

(* The characters of a string to parse are bytes. *)
LEMMA StringTyped ==
  ASSUME NEW s \in Strings
  PROVE  \A p \in 0 .. 35 : s.chars[p] \in 0 .. 255
<1>1. s \in [len : Nat, chars : [0 .. 35 -> 0 .. 255]]
  BY HexFits DEF Hex!ConstantsFit
<1> QED
  BY <1>1

(* Two nibbles make the byte they are the nibbles of. *)
LEMMA ByteOfNibbles ==
  ASSUME NEW h \in 0 .. 15, NEW l \in 0 .. 15
  PROVE  /\ Hex!Or8((h * 16) % 256, l) \in 0 .. 255
         /\ Hex!Or8((h * 16) % 256, l) \div 16 = h /\ Hex!Or8((h * 16) % 256, l) % 16 = l
<1>1. PICK x : x = Hex!Or8((h * 16) % 256, l)
  OBVIOUS
<1>2. x = h * 16 + l
  BY <1>1, OrOfNibbles
<1>3. x \in 0 .. 255 /\ x \div 16 = h /\ x % 16 = l
  BY <1>2
<1> QED
  BY <1>1, <1>3

(* The lookups for byte i, whatever the string. *)
LEMMA LookupsTyped ==
  ASSUME NEW s \in Strings, NEW i \in 0 .. 15
  PROVE  Hex!Hi(s, i) \in 0 .. 255 /\ Hex!Lo(s, i) \in 0 .. 255
<1>1. PICK c, d : c = s.chars[Hex!Off(i)] /\ d = s.chars[Hex!Off(i) + 1]
  OBVIOUS
<1>2. c \in 0 .. 255 /\ d \in 0 .. 255
  BY <1>1, StringTyped, DigitPositions
<1>3. /\ Hex!kHexValue(c) \in 0 .. 15 \/ Hex!kHexValue(c) = 255
      /\ Hex!kHexValue(d) \in 0 .. 15 \/ Hex!kHexValue(d) = 255
  BY <1>2, HexTableInverts
<1>4. Hex!kHexValue(c) \in 0 .. 255 /\ Hex!kHexValue(d) \in 0 .. 255
  BY <1>3
<1> QED
  BY <1>1, <1>4 DEF Hex!Hi, Hex!Lo

(* The equations of the accumulator. *)
LEMMA GatheredUnfold ==
  ASSUME NEW s \in Strings
  PROVE  /\ Hex!Gathered(s)[0] = 0
         /\ \A k \in 1 .. 16 :
              Hex!Gathered(s)[k] =
                Hex!Or8(Hex!Or8(Hex!Gathered(s)[k - 1], Hex!Hi(s, k - 1)), Hex!Lo(s, k - 1))
<1> DEFINE A == 0 .. 255
           F(k, b) == Hex!Or8(Hex!Or8(b, Hex!Hi(s, k - 1)), Hex!Lo(s, k - 1))
           g == [x \in Nat \X A |-> IF x[1] \in 1 .. 16 THEN F(x[1], x[2]) ELSE 0]
           Def(h) == [k \in 0 .. 16 |-> IF k = 0 THEN 0 ELSE F(k, h[k - 1])]
           v == Hex!Gathered(s)
<1>1. ASSUME NEW k \in 1 .. 16, NEW b \in 0 .. 255 PROVE F(k, b) \in 0 .. 255
  <2>1. k - 1 \in 0 .. 15
    OBVIOUS
  <2>2. Hex!Hi(s, k - 1) \in 0 .. 255 /\ Hex!Lo(s, k - 1) \in 0 .. 255
    BY <2>1, LookupsTyped
  <2>3. Hex!Or8(b, Hex!Hi(s, k - 1)) \in 0 .. 255
    BY <2>2, OrKeepsHigh
  <2> QED
    BY <2>2, <2>3, OrKeepsHigh
<1>6. v = CHOOSE f : f = Def(f)
  BY DEF Hex!Gathered
<1> HIDE DEF F, v
<1>2. StepOn(g, A)
  <2>1. ASSUME NEW x \in Nat \X A
        PROVE  (IF x[1] \in 1 .. 16 THEN F(x[1], x[2]) ELSE 0) \in A
    <3>1. PICK k, b : k = x[1] /\ b = x[2]
      OBVIOUS
    <3>2. b \in 0 .. 255
      BY <3>1
    <3>3. k \in 1 .. 16 => F(k, b) \in 0 .. 255
      BY <1>1, <3>2
    <3> QED
      BY <3>1, <3>3
  <2> QED
    BY <2>1 DEF StepOn
<1>3. \A k \in 1 .. 16, b \in A : g[<< k, b >>] = F(k, b)
  <2>1. ASSUME NEW k \in 1 .. 16, NEW b \in A PROVE g[<< k, b >>] = F(k, b)
    <3>1. << k, b >> \in Nat \X A
      OBVIOUS
    <3> QED
      BY <3>1
  <2> QED
    BY <2>1
<1>7. 0 \in A /\ 16 \in Nat
  OBVIOUS
<1> HIDE DEF g, A
<1>4. PICK h : Iterates(h, 16, A, 0, g)
  BY <1>2, <1>7, RecursionExists
<1>5. h = Def(h)
  <2>1. ASSUME NEW k \in 0 .. 16
        PROVE  h[k] = IF k = 0 THEN 0 ELSE F(k, h[k - 1])
    <3>1. CASE k = 0
      BY <1>4, <3>1 DEF Iterates
    <3>2. CASE k # 0
      <4>1. k \in 1 .. 16 /\ k - 1 \in 0 .. 16
        BY <3>2
      <4>2. h[k - 1] \in A /\ h[k] = g[<< k, h[k - 1] >>]
        BY <1>4, <4>1 DEF Iterates
      <4> QED
        BY <1>3, <3>2, <4>1, <4>2
    <3> QED
      BY <3>1, <3>2
  <2>2. h = [k \in 0 .. 16 |-> h[k]]
    BY <1>4 DEF Iterates
  <2> QED
    BY <2>1, <2>2
<1>8. v = Def(v)
  <2> HIDE DEF Def
  <2> QED
    BY <1>5, <1>6
<1>9. v[0] = 0 /\ \A k \in 1 .. 16 : v[k] = F(k, v[k - 1])
  <2>1. \A k \in 0 .. 16 : v[k] = IF k = 0 THEN 0 ELSE F(k, v[k - 1])
    BY <1>8
  <2> QED
    BY <2>1
<1> QED
  BY <1>9 DEF F, v

(* No lookup is lost on the way: the mask after the last round asks        *)
(* whether there was one that is no nibble.                                *)
LEMMA BadMeans ==
  ASSUME NEW s \in Strings
  PROVE  Hex!Bad(s) <=> \E i \in 0 .. 15 : Hex!Hi(s, i) >= 16 \/ Hex!Lo(s, i) >= 16
<1>1. PICK v : v = Hex!Gathered(s)
  OBVIOUS
<1>2. /\ v[0] = 0
      /\ \A k \in 1 .. 16 : v[k] = Hex!Or8(Hex!Or8(v[k - 1], Hex!Hi(s, k - 1)), Hex!Lo(s, k - 1))
  BY <1>1, GatheredUnfold
<1> DEFINE Above(i) == Hex!Hi(s, i) >= 16 \/ Hex!Lo(s, i) >= 16
           Right(k) == v[k] \in 0 .. 255 /\ (v[k] >= 16 <=> \E i \in 0 .. (k - 1) : Above(i))
           S == {k \in Nat : k <= 16 => Right(k)}
<1>3. 0 \in S
  BY <1>2
<1>4. ASSUME NEW k \in S PROVE k + 1 \in S
  <2>1. k \in Nat /\ k + 1 \in Nat /\ (k + 1) - 1 = k
    OBVIOUS
  <2>2. CASE k + 1 <= 16
    <3>1. k + 1 \in 1 .. 16 /\ k \in 0 .. 15 /\ k <= 16
      BY <2>1, <2>2
    <3>2. PICK b, x, y : b = v[k] /\ x = Hex!Hi(s, k) /\ y = Hex!Lo(s, k)
      OBVIOUS
    <3>3. b \in 0 .. 255 /\ (b >= 16 <=> \E i \in 0 .. (k - 1) : Above(i))
      BY <3>1, <3>2
    <3>4. x \in 0 .. 255 /\ y \in 0 .. 255
      BY <3>1, <3>2, LookupsTyped
    <3>5. v[k + 1] = Hex!Or8(Hex!Or8(b, x), y)
      BY <1>2, <2>1, <3>1, <3>2
    <3>11. PICK z : z = Hex!Or8(b, x)
      OBVIOUS
    <3>12. b \in 0 .. 255
      BY <3>3
    <3>6. z \in 0 .. 255 /\ (z >= 16 <=> b >= 16 \/ x >= 16)
      BY <3>4, <3>11, <3>12, OrKeepsHigh
    <3>13. Hex!Or8(z, y) \in 0 .. 255 /\ (Hex!Or8(z, y) >= 16 <=> z >= 16 \/ y >= 16)
      BY <3>4, <3>6, OrKeepsHigh
    <3>7. v[k + 1] \in 0 .. 255 /\ (v[k + 1] >= 16 <=> (b >= 16 \/ x >= 16) \/ y >= 16)
      BY <3>5, <3>6, <3>11, <3>13
    <3>8. Above(k) <=> x >= 16 \/ y >= 16
      BY <3>2
    <3> HIDE DEF Above
    <3>9. (\E i \in 0 .. k : Above(i)) <=> (\E i \in 0 .. (k - 1) : Above(i)) \/ Above(k)
      <4>1. \A i : i \in 0 .. k <=> i \in 0 .. (k - 1) \/ i = k
        BY <2>1
      <4> QED
        BY <4>1
    <3>10. Right(k + 1)
      BY <2>1, <3>3, <3>7, <3>8, <3>9
    <3> HIDE DEF Right
    <3> QED
      BY <2>1, <3>10
  <2> QED
    BY <2>1, <2>2
<1>5. S = Nat
  <2>1. S \in SUBSET Nat
    OBVIOUS
  <2> HIDE DEF S
  <2> QED
    BY <1>3, <1>4, <2>1, SetInduction
<1>6. Right(16)
  <2>1. 16 \in S
    <3> HIDE DEF S
    <3> QED
      BY <1>5
  <2> QED
    BY <2>1
<1>7. Hex!Bad(s) <=> Hex!And8(v[16], 240) # 0
  BY <1>1 DEF Hex!Bad
<1>8. Hex!And8(v[16], 240) # 0 <=> v[16] >= 16
  BY <1>6, AndAsksHigh
<1>9. 16 - 1 = 15
  OBVIOUS
<1> QED
  BY <1>6, <1>7, <1>8, <1>9

(* What chronoid_hex_decode accepts is the canonical string of its result. *)
LEMMA AcceptedIsCanonical ==
  ASSUME NEW s \in Strings, \A p \in Hex!Dashes : s.chars[p] = Hex!Dash, ~Hex!Bad(s),
         NEW p \in 0 .. 35
  PROVE  Hex!Lower(s.chars[p]) = Hex!Canonical(Hex!Decoded(s))[p + 1]
<1>1. PICK u : u = Hex!Decoded(s)
  OBVIOUS
<1>2. ASSUME NEW i \in 0 .. 15
      PROVE  /\ u[i] \in 0 .. 255
             /\ \A odd \in 0 .. 1 : Hex!kHexLower(Nibble(u[i], odd)) = Hex!Lower(s.chars[Hex!Off(i) + odd])
  <2>1. PICK c, d : c = s.chars[Hex!Off(i)] /\ d = s.chars[Hex!Off(i) + 1]
    OBVIOUS
  <2>2. c \in 0 .. 255 /\ d \in 0 .. 255
    BY <2>1, StringTyped, DigitPositions
  <2>3. PICK h, l : h = Hex!kHexValue(c) /\ l = Hex!kHexValue(d)
    OBVIOUS
  <2>4. /\ h \in 0 .. 15 \/ h = 255
        /\ l \in 0 .. 15 \/ l = 255
    BY <2>2, <2>3, HexTableInverts
  <2>5. ~(h >= 16) /\ ~(l >= 16)
    <3>1. ~(Hex!Hi(s, i) >= 16) /\ ~(Hex!Lo(s, i) >= 16)
      BY BadMeans
    <3> QED
      BY <2>1, <2>3, <3>1 DEF Hex!Hi, Hex!Lo
  <2>6. h \in 0 .. 15 /\ l \in 0 .. 15
    BY <2>4, <2>5
  <2>7. Hex!kHexLower(h) = Hex!Lower(c) /\ Hex!kHexLower(l) = Hex!Lower(d)
    BY <2>2, <2>3, <2>6, HexTableInverts
  <2>8. u[i] = Hex!Or8((h * 16) % 256, l)
    BY <1>1, <2>1, <2>3 DEF Hex!Decoded, Hex!Hi, Hex!Lo
  <2>9. u[i] \in 0 .. 255 /\ u[i] \div 16 = h /\ u[i] % 16 = l
    <3>1. PICK x : x = Hex!Or8((h * 16) % 256, l)
      OBVIOUS
    <3>2. x \in 0 .. 255 /\ x \div 16 = h /\ x % 16 = l
      <4>1. /\ Hex!Or8((h * 16) % 256, l) \in 0 .. 255
            /\ Hex!Or8((h * 16) % 256, l) \div 16 = h
            /\ Hex!Or8((h * 16) % 256, l) % 16 = l
        BY <2>6, ByteOfNibbles, Zenon
      <4> QED
        BY <3>1, <4>1, Zenon
    <3> QED
      BY <2>8, <3>1, <3>2
  <2>10. Nibble(u[i], 0) = h /\ Nibble(u[i], 1) = l
    BY <2>9 DEF Nibble
  <2>11. Hex!Off(i) + 0 = Hex!Off(i)
    BY DigitPositions
  <2>12. ASSUME NEW odd \in 0 .. 1
         PROVE  Hex!kHexLower(Nibble(u[i], odd)) = Hex!Lower(s.chars[Hex!Off(i) + odd])
    <3>1. odd = 0 \/ odd = 1
      OBVIOUS
    <3> QED
      BY <2>1, <2>7, <2>10, <2>11, <3>1
  <2> QED
    BY <2>9, <2>12
<1>3. u \in [0 .. 15 -> 0 .. 255]
  <2>1. u = [i \in 0 .. 15 |-> Hex!Or8((Hex!Hi(s, i) * 16) % 256, Hex!Lo(s, i))]
    BY <1>1 DEF Hex!Decoded
  <2> QED
    BY <1>2, <2>1
<1>4. Hex!Canonical(u)[p + 1] = Written(u, p)
  BY <1>3, CanonicalWrites
<1>5. CASE p \in Hex!Dashes
  <2>1. s.chars[p] = 45
    BY <1>5 DEF Hex!Dash
  <2>2. Hex!Lower(45) = 45
    BY DEF Hex!Lower
  <2> QED
    BY <1>1, <1>4, <1>5, <2>1, <2>2 DEF Written
<1>6. CASE p \notin Hex!Dashes
  <2>1. Place(p) \in 0 .. 15 /\ OddAt(p) \in 0 .. 1 /\ p = Hex!Off(Place(p)) + OddAt(p)
    BY <1>6, PositionOfDigit
  <2>2. Hex!kHexLower(Nibble(u[Place(p)], OddAt(p))) = Hex!Lower(s.chars[p])
    <3>1. PICK i, odd : i = Place(p) /\ odd = OddAt(p)
      OBVIOUS
    <3>2. i \in 0 .. 15 /\ odd \in 0 .. 1 /\ p = Hex!Off(i) + odd
      BY <2>1, <3>1
    <3>3. Hex!kHexLower(Nibble(u[i], odd)) = Hex!Lower(s.chars[Hex!Off(i) + odd])
      BY <1>2, <3>2
    <3> QED
      BY <3>1, <3>2, <3>3
  <2> QED
    BY <1>1, <1>4, <1>6, <2>2 DEF Written
<1> QED
  BY <1>5, <1>6

(* What it refuses for a digit has a character that is none. *)
LEMMA BadHasNoDigit ==
  ASSUME NEW s \in Strings, Hex!Bad(s)
  PROVE  \E p \in 0 .. 35 : p \notin Hex!Dashes
                            /\ \A v \in 0 .. 15 : Hex!Lower(s.chars[p]) # Hex!HexDigits[v + 1]
<1>1. ASSUME NEW p \in 0 .. 35, Hex!kHexValue(s.chars[p]) >= 16
      PROVE  \A v \in 0 .. 15 : Hex!Lower(s.chars[p]) # Hex!HexDigits[v + 1]
  <2>1. PICK c : c = s.chars[p]
    OBVIOUS
  <2>2. c \in 0 .. 255
    BY <2>1, StringTyped
  <2>3. Hex!kHexValue(c) = 255
    <3>1. Hex!kHexValue(c) \in 0 .. 15 \/ Hex!kHexValue(c) = 255
      BY <2>2, HexTableInverts
    <3> QED
      BY <1>1, <2>1, <3>1
  <2>4. \A v \in 0 .. 15 : Hex!Lower(c) # Hex!kHexLower(v)
    BY <2>2, <2>3, HexTableInverts
  <2> QED
    BY <2>1, <2>4, HexDigitsAre
<1>2. PICK i \in 0 .. 15 : Hex!Hi(s, i) >= 16 \/ Hex!Lo(s, i) >= 16
  BY BadMeans
<1>3. CASE Hex!Hi(s, i) >= 16
  <2>1. Hex!kHexValue(s.chars[Hex!Off(i)]) >= 16
    BY <1>3 DEF Hex!Hi
  <2>2. Hex!Off(i) \in 0 .. 35 /\ Hex!Off(i) \notin Hex!Dashes
    BY DigitPositions
  <2> QED
    BY <1>1, <2>1, <2>2
<1>4. CASE Hex!Lo(s, i) >= 16
  <2>1. Hex!kHexValue(s.chars[Hex!Off(i) + 1]) >= 16
    BY <1>4 DEF Hex!Lo
  <2>2. Hex!Off(i) + 1 \in 0 .. 35 /\ Hex!Off(i) + 1 \notin Hex!Dashes
    BY DigitPositions
  <2> QED
    BY <1>1, <2>1, <2>2
<1> QED
  BY <1>2, <1>3, <1>4

(* chronoid_hex_decode checks the hyphens, gathers the digits and refuses  *)
(* afterwards if one of them was none.                                     *)
LEMMA ParseKeeps ==
  ASSUME Hex!CallInv, Hex!Parse
  PROVE  Hex!CallInv'
<1>1. /\ hex_op = "parse" /\ hex_input \in Strings
      /\ hex_out = << >> /\ hex_id = << >> /\ hex_ret = "none"
  BY DEF Hex!CallInv, Hex!Kept, Hex!Parse
<1>2. hex_op' = "done" /\ hex_input' = hex_input /\ hex_out' = hex_out
  BY DEF Hex!Parse, Hex!Reject
<1>3. Hex!EncodersAgree'
  <2>1. DOMAIN hex_out' = {} /\ hex_ret' # "none"
    BY <1>1, <1>2 DEF Hex!Parse, Hex!Reject
  <2> QED
    BY <2>1 DEF Hex!EncodersAgree
<1>4. \/ hex_ret' = "ERR_STR_SIZE" /\ hex_id' = hex_id /\ hex_input.len # 36
      \/ hex_ret' = "ERR_STR_VALUE" /\ hex_id' = hex_id /\ hex_input.len = 36
         /\ \E p \in Hex!Dashes : hex_input.chars[p] # Hex!Dash
      \/ hex_ret' = "ERR_STR_VALUE" /\ hex_id' = hex_id /\ hex_input.len = 36
         /\ Hex!Bad(hex_input)
      \/ /\ hex_ret' = "OK" /\ hex_id' = Hex!Decoded(hex_input) /\ hex_input.len = 36
         /\ ~Hex!Bad(hex_input) /\ \A p \in Hex!Dashes : hex_input.chars[p] = Hex!Dash
  BY DEF Hex!Parse, Hex!Reject
<1>5. Hex!ParseExact'
  <2>1. CASE hex_ret' = "ERR_STR_SIZE" /\ hex_id' = hex_id /\ hex_input.len # 36
    BY <1>1, <1>2, <2>1 DEF Hex!ParseExact, Hex!Kept
  <2>2. CASE hex_ret' = "ERR_STR_VALUE" /\ hex_id' = hex_id /\ hex_input.len = 36
             /\ \E p \in Hex!Dashes : hex_input.chars[p] # Hex!Dash
    <3>1. Hex!Dashes \subseteq 0 .. 35
      BY DEF Hex!Dashes
    <3>2. \E p \in 0 .. 35 :
            IF p \in Hex!Dashes THEN hex_input'.chars[p] # Hex!Dash
            ELSE \A v \in 0 .. 15 : Hex!Lower(hex_input'.chars[p]) # Hex!HexDigits[v + 1]
      BY <1>2, <2>2, <3>1
    <3> QED
      BY <1>1, <1>2, <2>2, <3>2 DEF Hex!ParseExact, Hex!Kept
  <2>3. CASE hex_ret' = "ERR_STR_VALUE" /\ hex_id' = hex_id /\ hex_input.len = 36
             /\ Hex!Bad(hex_input)
    <3>1. \E p \in 0 .. 35 :
            IF p \in Hex!Dashes THEN hex_input'.chars[p] # Hex!Dash
            ELSE \A v \in 0 .. 15 : Hex!Lower(hex_input'.chars[p]) # Hex!HexDigits[v + 1]
      BY <1>1, <1>2, <2>3, BadHasNoDigit
    <3> QED
      BY <1>1, <1>2, <2>3, <3>1 DEF Hex!ParseExact, Hex!Kept
  <2>4. CASE /\ hex_ret' = "OK" /\ hex_id' = Hex!Decoded(hex_input) /\ hex_input.len = 36
             /\ ~Hex!Bad(hex_input) /\ \A p \in Hex!Dashes : hex_input.chars[p] = Hex!Dash
    <3>1. \A p \in 0 .. 35 :
            Hex!Lower(hex_input.chars[p]) = Hex!Canonical(Hex!Decoded(hex_input))[p + 1]
      BY <1>1, <2>4, AcceptedIsCanonical
    <3>2. \A p \in 0 .. 35 : Hex!Lower(hex_input'.chars[p]) = Hex!Canonical(hex_id')[p + 1]
      BY <1>2, <2>4, <3>1
    <3> QED
      BY <1>2, <2>4, <3>2 DEF Hex!ParseExact
  <2> QED
    BY <1>4, <2>1, <2>2, <2>3, <2>4
<1> QED
  BY <1>2, <1>3, <1>5 DEF Hex!CallInv

(* The next call starts over. *)
LEMMA HexAgainKeeps ==
  ASSUME Hex!Again
  PROVE  Hex!CallInv'
<1>1. /\ hex_op' = "idle" /\ hex_out' = << >> /\ hex_id' = << >> /\ hex_ret' = "none"
  BY DEF Hex!Again, Hex!Kept
<1>2. DOMAIN hex_out' = {}
  BY <1>1
<1> QED
  BY <1>1, <1>2 DEF Hex!CallInv, Hex!EncodersAgree, Hex!ParseExact, Hex!Kept

(* No call yet. *)
LEMMA HexInit == Hex!Init => Hex!CallInv
<1> SUFFICES ASSUME Hex!Init PROVE Hex!CallInv
  OBVIOUS
<1>1. /\ hex_op = "idle" /\ hex_out = << >> /\ hex_id = << >> /\ hex_ret = "none"
  BY DEF Hex!Init, Hex!Kept
<1>2. DOMAIN hex_out = {}
  BY <1>1
<1> QED
  BY <1>1, <1>2 DEF Hex!CallInv, Hex!EncodersAgree, Hex!ParseExact, Hex!Kept

(* Every operation of the hex codec keeps the invariant. *)
LEMMA HexStepKeeps == Hex!CallInv /\ Hex!Next => Hex!CallInv'
<1> SUFFICES ASSUME Hex!CallInv, Hex!Next PROVE Hex!CallInv'
  OBVIOUS
<1>1. ASSUME hex_op = "idle", NEW u \in Uuids, NEW how \in {"scalar", "ssse3"},
             Hex!Call(how, << u >>) PROVE Hex!CallInv'
  BY <1>1, HexCallKeeps
<1>2. ASSUME hex_op = "idle", NEW q \in Quads, Hex!Call("avx2", q) PROVE Hex!CallInv'
  BY <1>2, HexCallKeeps
<1>3. ASSUME hex_op = "idle", NEW s \in Strings, Hex!Call("parse", s) PROVE Hex!CallInv'
  BY <1>3, HexCallKeeps
<1> QED
  BY <1>1, <1>2, <1>3, EncodeScalarKeeps, EncodeSsse3Keeps, EncodeAvx2Keeps, ParseKeeps,
     HexAgainKeeps DEF Hex!Next

(* A step is one of the hex codec's or leaves its state alone. *)
LEMMA HexMoves == [Next]_vars => Hex!Next \/ UNCHANGED hex_vars
  BY DEF Next, vars, Base62Step, CharsStep, KsuidStep, HexStep, Uuidv7Step

(* A finished call of the hex codec has the canonical strings of what it   *)
(* was given, or the identifier that its string is canonical for.          *)
THEOREM HexInvariance == Spec => []Hex!CallInv
<1>1. Init => Hex!CallInv
  BY HexInit DEF Init
<1>2. Hex!CallInv /\ UNCHANGED hex_vars => Hex!CallInv'
  BY DEF hex_vars, Hex!CallInv, Hex!EncodersAgree, Hex!ParseExact
<1>3. Hex!CallInv /\ [Next]_vars => Hex!CallInv'
  BY <1>2, HexStepKeeps, HexMoves
<1> QED
  BY <1>1, <1>3, PTL DEF Spec

(* The scalar, SSSE3 and AVX2 encoders of UUIDs write one string per       *)
(* identifier, the canonical one, in both lanes and both passes.           *)
THEOREM HexEncodersAgree == Spec => []EncodersAgree
<1>1. Hex!CallInv => EncodersAgree
  BY DEF Hex!CallInv, EncodersAgree
<1> QED
  BY <1>1, HexInvariance, PTL

(* chronoid_uuidv7_parse accepts exactly the strings of 36 characters that *)
(* are canonical up to case and returns their identifier; otherwise it     *)
(* blames the length exactly when that is wrong, the value only when it    *)
(* is, and the caller's identifier is what it was.                         *)
THEOREM HexParseExact == Spec => []ParseExact
<1>1. Hex!CallInv => ParseExact
  BY DEF Hex!CallInv, ParseExact
<1> QED
  BY <1>1, HexInvariance, PTL

-----------------------------------------------------------------------------
(* The constructors of KSUIDs (KsuidLayout). *)

(* KsuidLayout's instance of Numerals is the module itself. *)
LEMMA KsuidNumerals ==
  /\ \A s, b : Ksuid!Value(s, b) = Value(s, b)
  /\ \A b, k : Ksuid!Power(b, k) = Power(b, k)
  BY DEF Ksuid!Value, Ksuid!Prefixes, Ksuid!Power, Ksuid!Powers,
         Value, Prefixes, Power, Powers

(* The widths of a KSUID, from its assumption. *)
LEMMA KsuidWidths ==
  /\ Byte \in Nat \ {0, 1} /\ Byte \in Nat \ {0} /\ Byte \in Nat
  /\ TsBytes \in Nat \ {0} /\ TsBytes \in Nat /\ PayloadBytes \in Nat
  /\ Ksuid!Size = TsBytes + PayloadBytes /\ HeadBytes \in 1 .. (Ksuid!Size - 1)
  /\ Epoch \in Nat /\ IntMax \in Nat
  /\ Power(Byte, TsBytes) \in Nat \ {0} /\ Ksuid!TsMax = Power(Byte, TsBytes) - 1
  /\ Ksuid!TsMax \in Nat /\ Epoch + Ksuid!TsMax < IntMax
<1>1. /\ Byte \in Nat \ {0, 1} /\ TsBytes \in Nat \ {0} /\ PayloadBytes \in Nat
      /\ HeadBytes \in 1 .. (Ksuid!Size - 1)
      /\ Epoch \in Nat /\ IntMax \in Nat /\ Epoch + Ksuid!TsMax < IntMax
  BY KsuidFits DEF Ksuid!ConstantsFit
<1>2. Byte \in Nat \ {0} /\ TsBytes \in Nat
  BY <1>1
<1>3. Power(Byte, TsBytes) \in Nat \ {0}
  BY <1>2, PowerPositive
<1>4. Ksuid!TsMax = Power(Byte, TsBytes) - 1
  BY KsuidNumerals DEF Ksuid!TsMax
<1>5. Ksuid!Size = TsBytes + PayloadBytes
  BY DEF Ksuid!Size
<1> QED
  BY <1>1, <1>2, <1>3, <1>4, <1>5

(* chronoid_be32_load reads what chronoid_be32_store wrote. *)
LEMMA LoadStored ==
  ASSUME NEW c \in 0 .. Ksuid!TsMax, NEW k, \A i \in 0 .. (TsBytes - 1) : k[i] = Ksuid!Store(c)[i]
  PROVE  Ksuid!Load(k) = c
<1>1. PICK s : s = [i \in 1 .. TsBytes |-> k[i - 1]]
  OBVIOUS
<1>2. ASSUME NEW i \in 1 .. TsBytes
      PROVE  s[i] = (c \div Power(Byte, TsBytes - i)) % Byte /\ s[i] \in Nat
  <2>1. i - 1 \in 0 .. (TsBytes - 1) /\ TsBytes - 1 - (i - 1) = TsBytes - i /\ TsBytes - i \in Nat
    BY KsuidWidths
  <2>2. s[i] = k[i - 1]
    BY <1>1
  <2>3. k[i - 1] = Ksuid!Store(c)[i - 1]
    BY <2>1
  <2>4. Ksuid!Store(c)[i - 1] = (c \div Power(Byte, TsBytes - 1 - (i - 1))) % Byte
    BY <2>1, KsuidNumerals DEF Ksuid!Store
  <2>5. s[i] = (c \div Power(Byte, TsBytes - i)) % Byte
    BY <2>1, <2>2, <2>3, <2>4
  <2>6. PICK w : w = Power(Byte, TsBytes - i)
    OBVIOUS
  <2>7. w \in Nat \ {0}
    BY <2>1, <2>6, KsuidWidths, PowerPositive
  <2>8. c \in Nat
    BY KsuidWidths
  <2>9. c \div w \in Nat
    BY <2>7, <2>8, DivisionFacts
  <2>10. (c \div w) % Byte \in Nat
    BY <2>9, KsuidWidths, DivisionFacts
  <2> QED
    BY <2>5, <2>6, <2>10
<1>3. s \in [1 .. TsBytes -> Nat]
  BY <1>1, <1>2
<1>4. s \in Seq(Nat) /\ Len(s) = TsBytes
  BY <1>3, KsuidWidths, AsSequence
<1>5. c \in Nat /\ c < Power(Byte, TsBytes)
  BY KsuidWidths
<1>6. \A i \in 1 .. TsBytes : s[i] = (c \div Power(Byte, TsBytes - i)) % Byte
  BY <1>2
<1>7. Value(s, Byte) = c
  <2>1. Byte \in Nat \ {0} /\ TsBytes \in Nat
    BY KsuidWidths
  <2> QED
    BY <1>4, <1>5, <1>6, <2>1, ValueOfDigits
<1> QED
  BY <1>1, <1>7, KsuidNumerals DEF Ksuid!Load

(* The head of an identifier as a numeral. *)
TimePart(k) == [i \in 1 .. TsBytes |-> k[i - 1]]

(* The timestamp of any 20 bytes is a number of 32 bits. *)
LEMMA HeadTyped ==
  ASSUME NEW k \in Ksuid!Images
  PROVE  /\ TimePart(k) \in Seq(0 .. (Byte - 1)) /\ TimePart(k) \in Seq(Nat) /\ Len(TimePart(k)) = TsBytes
         /\ Ksuid!Load(k) = Value(TimePart(k), Byte) /\ Ksuid!Load(k) \in 0 .. Ksuid!TsMax
<1>0. k \in [0 .. (Ksuid!Size - 1) -> 0 .. (Byte - 1)]
  BY DEF Ksuid!Images
<1>1. TimePart(k) \in [1 .. TsBytes -> 0 .. (Byte - 1)]
  BY <1>0, KsuidWidths DEF TimePart
<1>2. TimePart(k) \in Seq(0 .. (Byte - 1)) /\ Len(TimePart(k)) = TsBytes
  BY <1>1, KsuidWidths, AsSequence
<1>3. TimePart(k) \in Seq(Nat)
  BY <1>2, KsuidWidths
<1>4. Ksuid!Load(k) = Value(TimePart(k), Byte)
  BY KsuidNumerals DEF Ksuid!Load, TimePart
<1>5. PICK s : s = TimePart(k)
  OBVIOUS
<1>6. Value(s, Byte) \in Nat /\ Value(s, Byte) < Power(Byte, TsBytes)
  BY <1>2, <1>3, <1>5, KsuidWidths, ValueTyped, ValueBound
<1> QED
  BY <1>2, <1>3, <1>4, <1>5, <1>6, KsuidWidths

(* Wrapping does not bring a second into the range it is not in. *)
LEMMA CorrectedInRange ==
  ASSUME NEW t \in Ksuid!Seconds, NEW c \in Ksuid!Corrected(t)
  PROVE  /\ c \in Int
         /\ Ksuid!InRange(c) => c \in 0 .. Ksuid!TsMax /\ t = c + Epoch
         /\ ~Ksuid!InRange(c) => t \notin Epoch .. (Epoch + Ksuid!TsMax)
<1>1. t \in (0 - IntMax) - 1 .. IntMax /\ t \in Int
  BY KsuidWidths DEF Ksuid!Seconds, Ksuid!IntMin
<1>2. IF t - Epoch >= (0 - IntMax) - 1 THEN c = t - Epoch
      ELSE c = t - Epoch \/ c = (t - Epoch) + 2 * (IntMax + 1)
  BY KsuidWidths DEF Ksuid!Corrected, Ksuid!IntMin
<1> QED
  BY <1>1, <1>2, KsuidWidths DEF Ksuid!InRange


(* A KSUID made from a second in range reads it back. *)
LEMMA KsuidMakeKeeps ==
  ASSUME NEW t \in Ksuid!Seconds, NEW c \in 0 .. Ksuid!TsMax, t = c + Epoch,
         NEW payload \in Ksuid!Payloads, Ksuid!Make(t, c, payload)
  PROVE  ConstructsExactly'
<1>1. PICK k : k = id'
  OBVIOUS
<1>2. /\ k = [i \in 0 .. (Ksuid!Size - 1) |->
                IF i < TsBytes THEN Ksuid!Store(c)[i] ELSE payload[i - TsBytes]]
      /\ ret' = "OK" /\ arg' = t /\ asked' = << t, payload >>
  BY <1>1 DEF Ksuid!Make
<1>3. payload \in [0 .. (PayloadBytes - 1) -> 0 .. (Byte - 1)]
  BY DEF Ksuid!Payloads
<1>4. ASSUME NEW i \in 0 .. (TsBytes - 1) PROVE Ksuid!Store(c)[i] \in 0 .. (Byte - 1)
  <2>1. Ksuid!Store(c)[i] = (c \div Power(Byte, TsBytes - 1 - i)) % Byte
    BY KsuidNumerals DEF Ksuid!Store
  <2>2. TsBytes - 1 - i \in Nat
    BY KsuidWidths
  <2>3. PICK w : w = Power(Byte, TsBytes - 1 - i)
    OBVIOUS
  <2>4. w \in Nat \ {0}
    BY <2>2, <2>3, KsuidWidths, PowerPositive
  <2>5. c \in Nat
    BY KsuidWidths
  <2>6. c \div w \in Nat
    BY <2>4, <2>5, DivisionFacts
  <2>7. (c \div w) % Byte \in Nat /\ (c \div w) % Byte < Byte
    BY <2>6, KsuidWidths, DivisionFacts
  <2> QED
    BY <2>1, <2>3, <2>7, KsuidWidths
<1>5. ASSUME NEW i \in 0 .. (TsBytes - 1) PROVE k[i] = Ksuid!Store(c)[i]
  <2>1. i \in 0 .. (Ksuid!Size - 1) /\ i < TsBytes
    BY KsuidWidths
  <2> QED
    BY <1>2, <2>1
<1>6. ASSUME NEW i \in 0 .. (PayloadBytes - 1) PROVE k[TsBytes + i] = payload[i]
  <2>1. /\ TsBytes + i \in 0 .. (Ksuid!Size - 1) /\ ~(TsBytes + i < TsBytes)
        /\ (TsBytes + i) - TsBytes = i
    BY KsuidWidths
  <2> QED
    BY <1>2, <2>1
<1>7. k \in Ksuid!Images
  <2>1. ASSUME NEW i \in 0 .. (Ksuid!Size - 1)
        PROVE  (IF i < TsBytes THEN Ksuid!Store(c)[i] ELSE payload[i - TsBytes]) \in 0 .. (Byte - 1)
    <3>1. CASE i < TsBytes
      <4>1. i \in 0 .. (TsBytes - 1)
        BY <3>1, KsuidWidths
      <4> QED
        BY <1>4, <3>1, <4>1
    <3>2. CASE ~(i < TsBytes)
      <4>1. i - TsBytes \in 0 .. (PayloadBytes - 1)
        BY <3>2, KsuidWidths
      <4> QED
        BY <1>3, <3>2, <4>1
    <3> QED
      BY <3>1, <3>2
  <2> QED
    BY <1>2, <2>1 DEF Ksuid!Images
<1>8. Ksuid!Load(k) = c
  BY <1>5, LoadStored
<1>9. Ksuid!Payload(k) = payload
  <2>1. Ksuid!Payload(k) = [i \in 0 .. (PayloadBytes - 1) |-> k[TsBytes + i]]
    BY DEF Ksuid!Payload
  <2>2. payload = [i \in 0 .. (PayloadBytes - 1) |-> payload[i]]
    BY <1>3
  <2> QED
    BY <1>6, <2>1, <2>2
<1>10. Ksuid!TypeOK'
  BY <1>1, <1>2, <1>7 DEF Ksuid!TypeOK
<1>11. Ksuid!TimeUnix(id') = t /\ asked'[1] = t /\ asked'[2] = payload
  BY <1>1, <1>2, <1>8 DEF Ksuid!TimeUnix
<1>12. Ksuid!ConstructsExactly'
  BY <1>1, <1>2, <1>9, <1>11 DEF Ksuid!ConstructsExactly
<1> QED
  BY <1>10, <1>12 DEF ConstructsExactly

(* A refused call leaves the caller's identifier alone. *)
LEMMA KsuidRefuseKeeps ==
  ASSUME ConstructsExactly, NEW t \in Ksuid!Seconds,
         NEW s \in {"ERR_TIME_RANGE", "ERR_PAYLOAD_SIZE", "ERR_RNG", "ERR_SIZE"},
         s = "ERR_TIME_RANGE" => t \notin Epoch .. (Epoch + Ksuid!TsMax), Ksuid!Refuse(t, s)
  PROVE  ConstructsExactly'
<1>1. ret' = s /\ arg' = t /\ id' = id /\ asked' = asked
  BY DEF Ksuid!Refuse
<1> QED
  BY <1>1 DEF ConstructsExactly, Ksuid!TypeOK, Ksuid!ConstructsExactly

(* chronoid_ksuid_from_bytes. *)
LEMMA KsuidFromBytesKeeps ==
  ASSUME ConstructsExactly, NEW image \in Ksuid!Images, NEW right_len \in BOOLEAN,
         Ksuid!FromBytes(image, right_len)
  PROVE  ConstructsExactly'
<1>1. CASE ~right_len
  <2>1. arg \in Ksuid!Seconds
    BY DEF ConstructsExactly, Ksuid!TypeOK
  <2> QED
    BY <1>1, <2>1, KsuidRefuseKeeps DEF Ksuid!FromBytes
<1>2. CASE right_len
  <2>1. /\ id' = image /\ ret' = "OK" /\ arg' = Ksuid!TimeUnix(image)
        /\ asked' = << Ksuid!TimeUnix(image), Ksuid!Payload(image) >>
    BY <1>2 DEF Ksuid!FromBytes
  <2>2. Ksuid!Load(image) \in 0 .. Ksuid!TsMax
    BY HeadTyped
  <2>3. Ksuid!TimeUnix(image) \in Ksuid!Seconds
    BY <2>2, KsuidWidths DEF Ksuid!TimeUnix, Ksuid!Seconds, Ksuid!IntMin
  <2>4. Ksuid!Payload(image) \in Ksuid!Payloads
    <3>1. image \in [0 .. (Ksuid!Size - 1) -> 0 .. (Byte - 1)]
      BY DEF Ksuid!Images
    <3>2. ASSUME NEW i \in 0 .. (PayloadBytes - 1) PROVE image[TsBytes + i] \in 0 .. (Byte - 1)
      <4>1. TsBytes + i \in 0 .. (Ksuid!Size - 1)
        BY KsuidWidths
      <4> QED
        BY <3>1, <4>1
    <3> QED
      BY <3>2 DEF Ksuid!Payload, Ksuid!Payloads
  <2> QED
    BY <2>1, <2>3, <2>4 DEF ConstructsExactly, Ksuid!TypeOK, Ksuid!ConstructsExactly
<1> QED
  BY <1>1, <1>2

(* chronoid_ksuid_from_parts. *)
LEMMA KsuidFromPartsKeeps ==
  ASSUME ConstructsExactly, NEW t \in Ksuid!Seconds, NEW payload \in Ksuid!Payloads,
         NEW right_len \in BOOLEAN, Ksuid!FromParts(t, payload, right_len)
  PROVE  ConstructsExactly'
<1>1. CASE ~right_len
  BY <1>1, KsuidRefuseKeeps DEF Ksuid!FromParts
<1>2. CASE right_len
  <2>1. PICK c \in Ksuid!Corrected(t) : IF Ksuid!InRange(c) THEN Ksuid!Make(t, c, payload)
                                        ELSE Ksuid!Refuse(t, "ERR_TIME_RANGE")
    BY <1>2 DEF Ksuid!FromParts
  <2>2. CASE Ksuid!InRange(c)
    BY <2>1, <2>2, CorrectedInRange, KsuidMakeKeeps
  <2>3. CASE ~Ksuid!InRange(c)
    BY <2>1, <2>3, CorrectedInRange, KsuidRefuseKeeps
  <2> QED
    BY <2>2, <2>3
<1> QED
  BY <1>1, <1>2

(* chronoid_ksuid_new_with_time, with and without entropy. *)
LEMMA KsuidNewKeeps ==
  ASSUME ConstructsExactly, NEW t \in Ksuid!Seconds, Ksuid!NewWithTime(t) \/ Ksuid!NewWithTimeRngFails(t)
  PROVE  ConstructsExactly'
<1>1. CASE Ksuid!NewWithTime(t)
  <2>1. PICK c \in Ksuid!Corrected(t) :
          IF Ksuid!InRange(c) THEN \E payload \in Ksuid!Payloads : Ksuid!Make(t, c, payload)
          ELSE Ksuid!Refuse(t, "ERR_TIME_RANGE")
    BY <1>1 DEF Ksuid!NewWithTime
  <2>2. CASE Ksuid!InRange(c)
    BY <2>1, <2>2, CorrectedInRange, KsuidMakeKeeps
  <2>3. CASE ~Ksuid!InRange(c)
    BY <2>1, <2>3, CorrectedInRange, KsuidRefuseKeeps
  <2> QED
    BY <2>2, <2>3
<1>2. CASE Ksuid!NewWithTimeRngFails(t)
  BY <1>2, KsuidRefuseKeeps DEF Ksuid!NewWithTimeRngFails
<1> QED
  BY <1>1, <1>2

(* chronoid_ksuid_new when the clock fails: INT64_MIN is refused. *)
LEMMA KsuidWithoutClockKeeps ==
  ASSUME ConstructsExactly, Ksuid!NewWithoutClock
  PROVE  ConstructsExactly'
<1>1. Ksuid!IntMin \in Ksuid!Seconds /\ Ksuid!IntMin \notin Epoch .. (Epoch + Ksuid!TsMax)
  BY KsuidWidths DEF Ksuid!IntMin, Ksuid!Seconds
<1> QED
  BY <1>1, KsuidRefuseKeeps DEF Ksuid!NewWithoutClock

(* Every constructor keeps what the identifier was asked to hold. *)
LEMMA KsuidStepKeeps == ConstructsExactly /\ Ksuid!Next => ConstructsExactly'
  BY KsuidFromBytesKeeps, KsuidFromPartsKeeps, KsuidNewKeeps, KsuidWithoutClockKeeps DEF Ksuid!Next

(* The zero identifier is the epoch's. *)
LEMMA KsuidInit == Ksuid!Init => ConstructsExactly
<1> SUFFICES ASSUME Ksuid!Init PROVE ConstructsExactly
  OBVIOUS
<1>1. /\ id = [i \in 0 .. (Ksuid!Size - 1) |-> 0] /\ ret = "OK" /\ arg = Epoch
      /\ asked = << Epoch, [i \in 0 .. (PayloadBytes - 1) |-> 0] >>
  BY DEF Ksuid!Init
<1>2. id \in Ksuid!Images
  BY <1>1, KsuidWidths DEF Ksuid!Images
<1>3. Epoch \in Ksuid!Seconds
  BY KsuidWidths DEF Ksuid!Seconds, Ksuid!IntMin
<1>4. [i \in 0 .. (PayloadBytes - 1) |-> 0] \in Ksuid!Payloads
  BY KsuidWidths DEF Ksuid!Payloads
<1>5. Ksuid!Load(id) = 0
  <2>1. PICK s : s = TimePart(id)
    OBVIOUS
  <2>2. s = [i \in 1 .. TsBytes |-> 0]
    BY <1>1, <2>1, KsuidWidths DEF TimePart
  <2>3. Value(s, Byte) = 0
    BY <2>2, KsuidWidths, ValueOfZeros
  <2> QED
    BY <1>2, <2>1, <2>3, HeadTyped
<1>6. Ksuid!Payload(id) = [i \in 0 .. (PayloadBytes - 1) |-> 0]
  <2>1. ASSUME NEW i \in 0 .. (PayloadBytes - 1) PROVE id[TsBytes + i] = 0
    <3>1. TsBytes + i \in 0 .. (Ksuid!Size - 1)
      BY KsuidWidths
    <3> QED
      BY <1>1, <3>1
  <2> QED
    BY <2>1 DEF Ksuid!Payload
<1>7. Ksuid!TimeUnix(id) = Epoch
  BY <1>5, KsuidWidths DEF Ksuid!TimeUnix
<1> QED
  BY <1>1, <1>2, <1>3, <1>4, <1>6, <1>7 DEF ConstructsExactly, Ksuid!TypeOK, Ksuid!ConstructsExactly

(* A step is one of the constructors' or leaves their state alone. *)
LEMMA KsuidMoves == [Next]_vars => Ksuid!Next \/ UNCHANGED ksuid_vars
  BY DEF Next, vars, Base62Step, CharsStep, KsuidStep, HexStep, Uuidv7Step

(* Every KSUID reads back the second and payload of the last call that     *)
(* succeeded, and exactly the 2^32 seconds from the epoch on are accepted, *)
(* wrapping in the subtraction included. The invariant is inductive as it  *)
(* stands.                                                                 *)
THEOREM KsuidConstructsExactly == Spec => []ConstructsExactly
<1>1. Init => ConstructsExactly
  BY KsuidInit DEF Init
<1>2. ConstructsExactly /\ UNCHANGED ksuid_vars => ConstructsExactly'
  BY DEF ksuid_vars, ConstructsExactly, Ksuid!TypeOK, Ksuid!ConstructsExactly
<1>3. ConstructsExactly /\ [Next]_vars => ConstructsExactly'
  BY <1>2, KsuidStepKeeps, KsuidMoves
<1> QED
  BY <1>1, <1>3, PTL DEF Spec

-----------------------------------------------------------------------------
(* The comparison kernels of KSUIDs (KsuidLayout). *)

(* A set of natural numbers has a least element. *)
LEMMA LeastExists ==
  ASSUME NEW D \in SUBSET Nat, D # {}
  PROVE  \E x \in D : \A y \in D : x <= y
<1> SUFFICES ASSUME \A x \in D : \E y \in D : ~(x <= y) PROVE FALSE
  OBVIOUS
<1> DEFINE S == {k \in Nat : \A y \in D : k < y}
<1>1. 0 \in S
  <2>1. ASSUME NEW y \in D PROVE 0 < y
    <3>1. CASE y = 0
      <4>1. PICK z \in D : ~(y <= z)
        OBVIOUS
      <4> QED
        BY <3>1, <4>1
    <3> QED
      BY <3>1
  <2> QED
    BY <2>1
<1>2. ASSUME NEW k \in S PROVE k + 1 \in S
  <2>1. ASSUME NEW y \in D PROVE k + 1 < y
    <3>1. k \in Nat /\ k < y /\ y \in Nat /\ \A z \in D : k < z
      OBVIOUS
    <3>2. PICK z \in D : ~(y <= z)
      OBVIOUS
    <3>3. z \in Nat /\ k < z
      BY <3>1
    <3> QED
      BY <3>1, <3>2, <3>3
  <2> QED
    BY <2>1
<1>3. S = Nat
  <2>1. S \in SUBSET Nat
    OBVIOUS
  <2> HIDE DEF S
  <2> QED
    BY <1>1, <1>2, <2>1, SetInduction
<1>4. PICK y : y \in D
  OBVIOUS
<1>5. y \in S
  <2>1. y \in Nat
    BY <1>4
  <2> HIDE DEF S
  <2> QED
    BY <1>3, <2>1
<1> QED
  BY <1>4, <1>5

(* A numeral split at its j-th digit from the right. *)
SplitAt(s, b, j, r) ==
  /\ r \in Nat /\ r < Power(b, j)
  /\ Value(s, b) = Prefixes(s, b)[Len(s) - j] * Power(b, j) + r
  /\ r = 0 <=> \A k \in (Len(s) - j + 1) .. Len(s) : s[k] = 0

(* A numeral can be split at any digit. *)
LEMMA NumeralSplits ==
  ASSUME NEW b \in Nat \ {0}, NEW s \in Seq(0 .. (b - 1))
  PROVE  \A j \in 0 .. Len(s) : \E r : SplitAt(s, b, j, r)
<1>0. s \in Seq(Nat) /\ Len(s) \in Nat /\ b \in Nat
  OBVIOUS
<1> DEFINE S == {j \in Nat : j <= Len(s) => \E r : SplitAt(s, b, j, r)}
<1>1. 0 \in S
  <2>1. PICK x : x = Value(s, b)
    OBVIOUS
  <2>2. x \in Nat /\ x = Prefixes(s, b)[Len(s)]
    BY <1>0, <2>1, ValueTyped DEF Value
  <2>3. Power(b, 0) = 1
    BY <1>0, PowerStep
  <2>4. Len(s) - 0 = Len(s) /\ (Len(s) - 0) + 1 = Len(s) + 1
    BY <1>0
  <2>5. SplitAt(s, b, 0, 0)
    BY <1>0, <2>1, <2>2, <2>3, <2>4 DEF SplitAt
  <2> QED
    BY <2>5
<1>2. ASSUME NEW j \in S PROVE j + 1 \in S
  <2>0. j \in Nat /\ j + 1 \in Nat /\ (j <= Len(s) => \E r : SplitAt(s, b, j, r))
    OBVIOUS
  <2> HIDE DEF S
  <2>1. SUFFICES ASSUME j + 1 <= Len(s) PROVE \E r : SplitAt(s, b, j + 1, r)
    BY <2>0 DEF S
  <2>2. PICK r : SplitAt(s, b, j, r)
    BY <1>0, <2>0, <2>1
  <2>3. PICK c, p, d, w, m : /\ c = Len(s) - (j + 1) /\ p = Prefixes(s, b)[c] /\ d = s[c + 1]
                             /\ w = Power(b, j) /\ m = Len(s)
    OBVIOUS
  <2>4. c \in Nat /\ c + 1 = m - j /\ c + 1 <= Len(s) /\ c + 1 \in 1 .. m /\ m \in Nat
    BY <1>0, <2>0, <2>1, <2>3
  <2>5. p \in Nat /\ d \in Nat /\ Prefixes(s, b)[m - j] = p * b + d
    <3>1. /\ Prefixes(s, b)[c] \in Nat /\ s[c + 1] \in Nat
          /\ Prefixes(s, b)[c + 1] = Prefixes(s, b)[c] * b + s[c + 1]
      BY <1>0, <2>4, PrefixStep
    <3>2. Prefixes(s, b)[m - j] = Prefixes(s, b)[c + 1]
      BY <2>4
    <3> QED
      BY <2>3, <3>1, <3>2
  <2>6. d <= b - 1
    <3>1. ASSUME NEW A, NEW t \in Seq(A), NEW k \in 1 .. Len(t) PROVE t[k] \in A
      OBVIOUS
    <3>2. d \in 0 .. (b - 1)
      BY <2>3, <2>4, <3>1
    <3> QED
      BY <3>2
  <2>7. w \in Nat /\ Power(b, j + 1) = w * b /\ w # 0
    BY <1>0, <2>0, <2>3, PowerStep, PowerPositive
  <2>8. r \in Nat /\ r < w /\ Value(s, b) = (p * b + d) * w + r
    BY <2>2, <2>3, <2>5 DEF SplitAt
  <2>9. PICK e : e = d * w + r
    OBVIOUS
  <2>10. e \in Nat /\ e < w * b
    <3>1. PICK f : f = d * w
      OBVIOUS
    <3>2. d + 1 <= b /\ d + 1 \in Nat
      BY <2>5, <2>6
    <3>3. (d + 1) * w <= b * w /\ b * w \in Nat
      BY <1>0, <2>7, <3>2, ProductOrder
    <3>4. (d + 1) * w = f + w /\ f \in Nat
      BY <2>5, <2>7, <3>1
    <3>5. w * b = b * w
      BY <1>0, <2>7
    <3> QED
      BY <2>7, <2>8, <2>9, <3>1, <3>3, <3>4, <3>5
  <2>11. Value(s, b) = p * (w * b) + e
    <3>1. (p * b + d) * w = p * (w * b) + d * w
      BY <1>0, <2>5, <2>7
    <3>2. PICK x, y : x = p * (w * b) /\ y = d * w
      OBVIOUS
    <3>3. x \in Nat /\ y \in Nat
      BY <1>0, <2>5, <2>7, <3>2
    <3>4. (x + y) + r = x + (y + r)
      BY <2>8, <3>3
    <3> QED
      BY <2>8, <2>9, <3>1, <3>2, <3>4
  <2>12. e = 0 <=> r = 0 /\ d = 0
    <3>1. d # 0 => d * w # 0 /\ d * w \in Nat
      BY <2>5, <2>7
    <3>2. d = 0 => d * w = 0
      BY <2>7
    <3> QED
      BY <2>5, <2>8, <2>9, <3>1, <3>2
  <2>13. r = 0 <=> \A k \in (m - j + 1) .. m : s[k] = 0
    BY <2>2, <2>3 DEF SplitAt
  <2>14. e = 0 <=> \A k \in (m - (j + 1) + 1) .. m : s[k] = 0
    <3>1. m - (j + 1) + 1 = c + 1 /\ m - j + 1 = c + 2
      BY <2>0, <2>3, <2>4
    <3>2. (\A k \in (c + 1) .. m : s[k] = 0) <=> s[c + 1] = 0 /\ \A k \in (c + 2) .. m : s[k] = 0
      BY <2>4
    <3> QED
      BY <2>3, <2>12, <2>13, <3>1, <3>2
  <2>15. SplitAt(s, b, j + 1, e)
    BY <2>3, <2>7, <2>10, <2>11, <2>14 DEF SplitAt
  <2> QED
    BY <2>15
<1>3. S = Nat
  <2>1. S \in SUBSET Nat
    OBVIOUS
  <2> HIDE DEF S
  <2> QED
    BY <1>1, <1>2, <2>1, SetInduction
<1>4. ASSUME NEW j \in 0 .. Len(s) PROVE \E r : SplitAt(s, b, j, r)
  <2>1. j \in Nat /\ j <= Len(s)
    BY <1>0
  <2>2. j \in S
    <3> HIDE DEF S
    <3> QED
      BY <1>3, <2>1
  <2> QED
    BY <2>1, <2>2
<1> QED
  BY <1>4

(* Two words of bits with one of each pair set add up to all ones. *)
Opposite(s, t) ==
  /\ s \in Seq(0 .. 1) /\ t \in Seq(0 .. 1) /\ Len(t) = Len(s)
  /\ \A k \in 1 .. Len(s) : s[k] + t[k] = 1

(* Complementing every bit complements the word, as the SSE2 kernel does   *)
(* with the mask of equal bytes.                                           *)
LEMMA Complement ==
  ASSUME NEW s, NEW t, Opposite(s, t)
  PROVE  Value(s, 2) + Value(t, 2) + 1 = Power(2, Len(s))
<1>0. /\ s \in Seq(Nat) /\ t \in Seq(Nat) /\ Len(t) = Len(s) /\ Len(s) \in Nat
      /\ \A k \in 1 .. Len(s) : s[k] + t[k] = 1
  BY DEF Opposite
<1>01. 2 \in Nat
  OBVIOUS
<1> DEFINE S == {j \in Nat : j <= Len(s) => Prefixes(s, 2)[j] + Prefixes(t, 2)[j] + 1 = Power(2, j)}
<1>1. 0 \in S
  <2>1. Prefixes(s, 2)[0] = 0 /\ Prefixes(t, 2)[0] = 0 /\ Power(2, 0) = 1
    BY <1>0, <1>01, PrefixZero, PowerStep
  <2> QED
    BY <2>1
<1>2. ASSUME NEW j \in S PROVE j + 1 \in S
  <2>0. j \in Nat /\ j + 1 \in Nat
        /\ (j <= Len(s) => Prefixes(s, 2)[j] + Prefixes(t, 2)[j] + 1 = Power(2, j))
    OBVIOUS
  <2> HIDE DEF S
  <2>1. SUFFICES ASSUME j + 1 <= Len(s)
                 PROVE  Prefixes(s, 2)[j + 1] + Prefixes(t, 2)[j + 1] + 1 = Power(2, j + 1)
    BY <2>0 DEF S
  <2>2. PICK p, q, w, c, d : /\ p = Prefixes(s, 2)[j] /\ q = Prefixes(t, 2)[j] /\ w = Power(2, j)
                             /\ c = s[j + 1] /\ d = t[j + 1]
    OBVIOUS
  <2>3. p + q + 1 = w
    BY <1>0, <2>0, <2>1, <2>2
  <2>4. p \in Nat /\ c \in Nat /\ Prefixes(s, 2)[j + 1] = p * 2 + c
    BY <1>0, <1>01, <2>0, <2>1, <2>2, PrefixStep
  <2>5. q \in Nat /\ d \in Nat /\ Prefixes(t, 2)[j + 1] = q * 2 + d
    BY <1>0, <1>01, <2>0, <2>1, <2>2, PrefixStep
  <2>6. w \in Nat /\ Power(2, j + 1) = w * 2
    BY <1>01, <2>0, <2>2, PowerStep
  <2>7. c + d = 1
    BY <1>0, <2>0, <2>1, <2>2
  <2> QED
    BY <2>3, <2>4, <2>5, <2>6, <2>7
<1>3. S = Nat
  <2>1. S \in SUBSET Nat
    OBVIOUS
  <2> HIDE DEF S
  <2> QED
    BY <1>1, <1>2, <2>1, SetInduction
<1>4. Len(s) \in S
  <2> HIDE DEF S
  <2> QED
    BY <1>0, <1>3
<1> QED
  BY <1>0, <1>4 DEF Value

(* The bits of a word: the i lowest ones are zero, the next one is set. *)
LEMMA BitsOfWord ==
  ASSUME NEW s \in Seq(0 .. 1), NEW i \in 0 .. (Len(s) - 1)
  PROVE  /\ Value(s, 2) % Power(2, i) = 0 <=> \A k \in (Len(s) - i + 1) .. Len(s) : s[k] = 0
         /\ (Value(s, 2) \div Power(2, i)) % 2 = 1 <=> s[Len(s) - i] = 1
<1>0. s \in Seq(Nat) /\ Len(s) \in Nat /\ 2 \in Nat \ {0} /\ 2 \in Nat /\ 2 - 1 = 1
  OBVIOUS
<1>1. i \in 0 .. Len(s) /\ i \in Nat
  BY <1>0
<1>2. PICK r : SplitAt(s, 2, i, r)
  BY <1>0, <1>1, NumeralSplits
<1>3. PICK x, p, w : x = Value(s, 2) /\ p = Prefixes(s, 2)[Len(s) - i] /\ w = Power(2, i)
  OBVIOUS
<1>4. PICK c : c = Len(s) - i - 1
  OBVIOUS
<1>5. c \in Nat /\ c + 1 = Len(s) - i /\ c + 1 <= Len(s)
  BY <1>0, <1>1, <1>4
<1>6. PICK y, d : y = Prefixes(s, 2)[c] /\ d = s[c + 1]
  OBVIOUS
<1>7. y \in Nat /\ d \in Nat /\ p = y * 2 + d
  <2>1. /\ Prefixes(s, 2)[c] \in Nat /\ s[c + 1] \in Nat
        /\ Prefixes(s, 2)[c + 1] = Prefixes(s, 2)[c] * 2 + s[c + 1]
    BY <1>0, <1>5, PrefixStep
  <2> QED
    BY <1>3, <1>5, <1>6, <2>1
<1>8. d \in 0 .. 1
  <2>1. ASSUME NEW A, NEW t \in Seq(A), NEW k \in 1 .. Len(t) PROVE t[k] \in A
    OBVIOUS
  <2>2. c + 1 \in 1 .. Len(s)
    BY <1>0, <1>5
  <2> QED
    BY <1>6, <2>1, <2>2
<1>9. w \in Nat \ {0}
  BY <1>0, <1>1, <1>3, PowerPositive
<1>10. r \in Nat /\ r < w /\ x = p * w + r
  BY <1>2, <1>3 DEF SplitAt
<1>11. x \in Nat /\ p \in Nat
  <2>1. x \in Nat
    BY <1>0, <1>3, ValueTyped
  <2>2. p \in Nat
    BY <1>7
  <2> QED
    BY <2>1, <2>2
<1>12. x \div w = p /\ x % w = r
  BY <1>9, <1>10, <1>11, DivStep
<1>13. p % 2 = d
  BY <1>7, <1>8
<1>14. r = 0 <=> \A k \in (Len(s) - i + 1) .. Len(s) : s[k] = 0
  BY <1>2 DEF SplitAt
<1>15. (x \div w) % 2 = 1 <=> s[Len(s) - i] = 1
  BY <1>5, <1>6, <1>12, <1>13
<1> QED
  BY <1>3, <1>12, <1>14, <1>15

(* A word of zeros is zero, one with a bit set is not. *)
LEMMA WordIsZero ==
  ASSUME NEW s \in Seq(0 .. 1)
  PROVE  Value(s, 2) = 0 <=> \A k \in 1 .. Len(s) : s[k] = 0
<1>0. s \in Seq(Nat) /\ Len(s) \in Nat /\ 2 \in Nat \ {0} /\ 2 \in Nat /\ 2 - 1 = 1
  OBVIOUS
<1>1. PICK m : m = Len(s)
  OBVIOUS
<1>2. m \in 0 .. Len(s) /\ Len(s) - m = 0 /\ Len(s) - m + 1 = 1 /\ m \in Nat
  BY <1>0, <1>1
<1>3. PICK r : SplitAt(s, 2, m, r)
  BY <1>0, <1>2, NumeralSplits
<1>4. Prefixes(s, 2)[0] = 0
  BY <1>0, PrefixZero
<1>5. Power(2, m) \in Nat
  BY <1>0, <1>2, PowerStep
<1>6. r \in Nat /\ Value(s, 2) = Prefixes(s, 2)[Len(s) - m] * Power(2, m) + r
      /\ (r = 0 <=> \A k \in (Len(s) - m + 1) .. Len(s) : s[k] = 0)
  BY <1>3 DEF SplitAt
<1>7. Value(s, 2) = r
  BY <1>2, <1>4, <1>5, <1>6
<1> QED
  BY <1>2, <1>6, <1>7

(* The word of the bytes of the head that differ, highest byte first. *)
NeBits(a, b) == [k \in 1 .. HeadBytes |-> IF a[HeadBytes - k] = b[HeadBytes - k] THEN 0 ELSE 1]

(* The complement of the mask of equal bytes is the word of the bytes that *)
(* differ.                                                                 *)
LEMMA NeMask ==
  ASSUME NEW a, NEW b
  PROVE  /\ NeBits(a, b) \in Seq(0 .. 1) /\ Len(NeBits(a, b)) = HeadBytes
         /\ Power(2, HeadBytes) - 1 - Ksuid!EqMask(a, b) = Value(NeBits(a, b), 2)
<1>0. HeadBytes \in Nat
  BY KsuidWidths
<1>1. PICK s, t : s = NeBits(a, b)
               /\ t = [k \in 1 .. HeadBytes |-> IF a[HeadBytes - k] = b[HeadBytes - k] THEN 1 ELSE 0]
  OBVIOUS
<1>2. /\ s \in [1 .. HeadBytes -> 0 .. 1]
  BY <1>1 DEF NeBits
<1>3. t \in [1 .. HeadBytes -> 0 .. 1]
  BY <1>1
<1>4. \A k \in 1 .. HeadBytes : s[k] + t[k] = 1
  BY <1>1 DEF NeBits
<1>5. s \in Seq(0 .. 1) /\ Len(s) = HeadBytes
  BY <1>0, <1>2, AsSequence
<1>6. t \in Seq(0 .. 1) /\ Len(t) = HeadBytes
  BY <1>0, <1>3, AsSequence
<1>7. Opposite(s, t)
  BY <1>4, <1>5, <1>6 DEF Opposite
<1>8. Value(s, 2) + Value(t, 2) + 1 = Power(2, HeadBytes)
  BY <1>5, <1>7, Complement
<1>9. Value(s, 2) \in Nat /\ Value(t, 2) \in Nat
  <2>1. s \in Seq(Nat) /\ t \in Seq(Nat) /\ 2 \in Nat
    BY <1>5, <1>6
  <2> QED
    BY <2>1, ValueTyped
<1>10. Ksuid!EqMask(a, b) = Value(t, 2)
  BY <1>1, KsuidNumerals DEF Ksuid!EqMask
<1>11. Power(2, HeadBytes) - 1 - Value(t, 2) = Value(s, 2)
  <2>1. PICK x, y, w : x = Value(s, 2) /\ y = Value(t, 2) /\ w = Power(2, HeadBytes)
    OBVIOUS
  <2>2. x \in Nat /\ y \in Nat /\ x + y + 1 = w
    BY <1>8, <1>9, <2>1
  <2>3. w - 1 - y = x
    BY <2>2
  <2> QED
    BY <2>1, <2>3
<1> QED
  BY <1>1, <1>5, <1>10, <1>11

(* a and b agree before byte m and differ there. *)
FirstAt(a, b, m) == m \in Nat /\ a[m] # b[m] /\ \A j \in 0 .. (m - 1) : a[j] = b[j]

(* chronoid_ksuid_first_diff_sse2 finds the first byte of the head that    *)
(* differs.                                                                *)
LEMMA FirstDiffExact ==
  ASSUME NEW a, NEW b
  PROVE  /\ (\A j \in 0 .. (HeadBytes - 1) : a[j] = b[j]) =>
              Ksuid!FirstDiff(Ksuid!EqMask(a, b)) = HeadBytes
         /\ \A m \in 0 .. (HeadBytes - 1) :
              FirstAt(a, b, m) => Ksuid!FirstDiff(Ksuid!EqMask(a, b)) = m
<1>0. HeadBytes \in Nat /\ HeadBytes >= 1
  BY KsuidWidths
<1>1. PICK s, x : s = NeBits(a, b) /\ x = Value(s, 2)
  OBVIOUS
<1>2. /\ s \in Seq(0 .. 1) /\ Len(s) = HeadBytes
      /\ Power(2, HeadBytes) - 1 - Ksuid!EqMask(a, b) = x
  BY <1>1, NeMask
<1>3. \A k \in 1 .. HeadBytes : s[k] = IF a[HeadBytes - k] = b[HeadBytes - k] THEN 0 ELSE 1
  BY <1>1 DEF NeBits
<1>4. \A j \in 0 .. (HeadBytes - 1) : s[HeadBytes - j] = IF a[j] = b[j] THEN 0 ELSE 1
  <2> SUFFICES ASSUME NEW j \in 0 .. (HeadBytes - 1)
               PROVE  s[HeadBytes - j] = IF a[j] = b[j] THEN 0 ELSE 1
    OBVIOUS
  <2>1. HeadBytes - j \in 1 .. HeadBytes /\ HeadBytes - (HeadBytes - j) = j
    BY <1>0
  <2> QED
    BY <1>3, <2>1
<1>5. Ksuid!FirstDiff(Ksuid!EqMask(a, b)) = IF x = 0 THEN HeadBytes ELSE Ksuid!Ctz(x)
  BY <1>2, KsuidNumerals DEF Ksuid!FirstDiff
<1>6. x = 0 <=> \A k \in 1 .. HeadBytes : s[k] = 0
  BY <1>1, <1>2, WordIsZero
<1>7. ASSUME \A j \in 0 .. (HeadBytes - 1) : a[j] = b[j]
      PROVE  Ksuid!FirstDiff(Ksuid!EqMask(a, b)) = HeadBytes
  <2>1. ASSUME NEW k \in 1 .. HeadBytes PROVE s[k] = 0
    <3>1. HeadBytes - k \in 0 .. (HeadBytes - 1)
      BY <1>0
    <3> QED
      BY <1>3, <1>7, <3>1
  <2> QED
    BY <1>5, <1>6, <2>1
<1>8. ASSUME NEW m \in 0 .. (HeadBytes - 1), FirstAt(a, b, m)
      PROVE  Ksuid!FirstDiff(Ksuid!EqMask(a, b)) = m
  <2>0. a[m] # b[m] /\ \A j \in 0 .. (m - 1) : a[j] = b[j]
    BY <1>8 DEF FirstAt
  <2>1. s[HeadBytes - m] = 1 /\ HeadBytes - m \in 1 .. HeadBytes
    BY <1>0, <1>4, <2>0
  <2>2. x # 0
    BY <1>6, <2>1
  <2>3. ASSUME NEW i \in 0 .. (HeadBytes - 1)
        PROVE  /\ x % Power(2, i) = 0 <=> \A k \in (HeadBytes - i + 1) .. HeadBytes : s[k] = 0
               /\ (x \div Power(2, i)) % 2 = 1 <=> s[HeadBytes - i] = 1
    <3>1. s \in Seq(0 .. 1) /\ i \in 0 .. (Len(s) - 1)
      BY <1>2
    <3>2. /\ Value(s, 2) % Power(2, i) = 0 <=> \A k \in (Len(s) - i + 1) .. Len(s) : s[k] = 0
          /\ (Value(s, 2) \div Power(2, i)) % 2 = 1 <=> s[Len(s) - i] = 1
      BY <3>1, BitsOfWord
    <3> QED
      BY <1>1, <1>2, <3>2
  <2>4. x % Power(2, m) = 0
    <3>1. ASSUME NEW k \in (HeadBytes - m + 1) .. HeadBytes PROVE s[k] = 0
      <4>1. k \in 1 .. HeadBytes /\ HeadBytes - k \in 0 .. (m - 1)
        BY <1>0
      <4> QED
        BY <1>3, <2>0, <4>1
    <3> QED
      BY <2>3, <3>1
  <2>5. (x \div Power(2, m)) % 2 = 1
    BY <2>1, <2>3
  <2>6. ASSUME NEW i \in 0 .. (HeadBytes - 1), x % Power(2, i) = 0, (x \div Power(2, i)) % 2 = 1
        PROVE  i = m
    <3>1. s[HeadBytes - i] = 1 /\ \A k \in (HeadBytes - i + 1) .. HeadBytes : s[k] = 0
      BY <2>3, <2>6
    <3>2. a[i] # b[i]
      BY <1>4, <3>1
    <3>3. ~(i < m)
      <4>1. i < m => i \in 0 .. (m - 1)
        BY <1>0
      <4> QED
        BY <2>0, <3>2, <4>1
    <3>4. ~(m < i)
      <4>1. m < i => HeadBytes - m \in (HeadBytes - i + 1) .. HeadBytes
        BY <1>0
      <4> QED
        BY <2>1, <3>1, <4>1
    <3> QED
      BY <1>0, <3>3, <3>4
  <2>7. Ksuid!Ctz(x) = m
    <3>1. Ksuid!Ctz(x) = CHOOSE i \in 0 .. (HeadBytes - 1) :
                           x % Power(2, i) = 0 /\ (x \div Power(2, i)) % 2 = 1
      BY KsuidNumerals DEF Ksuid!Ctz
    <3>2. \E i \in 0 .. (HeadBytes - 1) : x % Power(2, i) = 0 /\ (x \div Power(2, i)) % 2 = 1
      BY <2>4, <2>5
    <3>3. PICK i : i = Ksuid!Ctz(x)
      OBVIOUS
    <3>4. i \in 0 .. (HeadBytes - 1) /\ x % Power(2, i) = 0 /\ (x \div Power(2, i)) % 2 = 1
      BY <3>1, <3>2, <3>3
    <3> QED
      BY <2>6, <3>3, <3>4
  <2> QED
    BY <1>5, <2>2, <2>7
<1> QED
  BY <1>7, <1>8

(* Two identifiers are the same, or differ first at some byte. *)
LEMMA FirstDifference ==
  ASSUME NEW a, NEW b
  PROVE  \/ \A i \in 0 .. (Ksuid!Size - 1) : a[i] = b[i]
         \/ \E m \in 0 .. (Ksuid!Size - 1) : FirstAt(a, b, m)
<1>0. Ksuid!Size \in Nat
  BY KsuidWidths
<1>1. SUFFICES ASSUME NEW i \in 0 .. (Ksuid!Size - 1), a[i] # b[i]
               PROVE  \E m \in 0 .. (Ksuid!Size - 1) : FirstAt(a, b, m)
  OBVIOUS
<1>2. PICK D : D = {j \in 0 .. (Ksuid!Size - 1) : a[j] # b[j]}
  OBVIOUS
<1>3. D \in SUBSET Nat /\ D # {}
  BY <1>0, <1>1, <1>2
<1>4. PICK m \in D : \A y \in D : m <= y
  BY <1>3, LeastExists
<1>5. m \in 0 .. (Ksuid!Size - 1) /\ m \in Nat /\ a[m] # b[m]
  BY <1>0, <1>2, <1>4
<1>6. ASSUME NEW j \in 0 .. (m - 1) PROVE a[j] = b[j]
  <2>1. j \in 0 .. (Ksuid!Size - 1) /\ ~(m <= j)
    BY <1>0, <1>5
  <2> QED
    BY <1>2, <1>4, <2>1
<1> QED
  BY <1>5, <1>6 DEF FirstAt

(* The scan finds it from any byte before it. *)
LEMMA FirstOfRest ==
  ASSUME NEW a, NEW b, NEW m \in 0 .. (Ksuid!Size - 1), FirstAt(a, b, m), NEW c \in 0 .. m
  PROVE  Ksuid!Differ(a, b, c) # {} /\ Ksuid!Min(Ksuid!Differ(a, b, c)) = m
<1>0. Ksuid!Size \in Nat /\ m \in Nat /\ c \in Nat
  BY KsuidWidths
<1>1. PICK D : D = Ksuid!Differ(a, b, c)
  OBVIOUS
<1>2. D = {j \in c .. (Ksuid!Size - 1) : a[j] # b[j]}
  BY <1>1 DEF Ksuid!Differ
<1>3. m \in D
  BY <1>0, <1>2 DEF FirstAt
<1>4. ASSUME NEW j \in D PROVE m <= j /\ j \in Nat
  <2>1. j \in c .. (Ksuid!Size - 1) /\ a[j] # b[j]
    BY <1>2
  <2>2. j \in Nat
    BY <1>0, <2>1
  <2>3. j < m => j \in 0 .. (m - 1)
    BY <1>0, <2>2
  <2> QED
    BY <1>0, <2>1, <2>2, <2>3 DEF FirstAt
<1>5. PICK x : x = Ksuid!Min(D)
  OBVIOUS
<1>6. x \in D /\ \A y \in D : x <= y
  <2>1. \E z \in D : \A y \in D : z <= y
    BY <1>3, <1>4
  <2> QED
    BY <1>5, <2>1 DEF Ksuid!Min
<1>7. x <= m /\ m <= x /\ x \in Nat
  BY <1>3, <1>4, <1>6
<1>8. x = m
  BY <1>0, <1>7
<1> QED
  BY <1>1, <1>3, <1>5, <1>8

(* The order of two bytes, as the kernels report it. *)
Sign(a, b, m) == IF a[m] < b[m] THEN -1 ELSE 1

(* A byte of an identifier. *)
LEMMA ImageTyped ==
  ASSUME NEW a \in Ksuid!Images, NEW i \in 0 .. (Ksuid!Size - 1)
  PROVE  a[i] \in 0 .. (Byte - 1) /\ a[i] \in Nat
<1>1. a[i] \in 0 .. (Byte - 1)
  BY DEF Ksuid!Images
<1> QED
  BY <1>1, KsuidWidths

(* Each kernel answers by the first difference. *)
LEMMA KernelsOrder ==
  ASSUME NEW a \in Ksuid!Images, NEW b \in Ksuid!Images,
         NEW m \in 0 .. (Ksuid!Size - 1), FirstAt(a, b, m)
  PROVE  /\ Ksuid!CompareScalar(a, b) = Sign(a, b, m)
         /\ Ksuid!CompareSse2(a, b) = Sign(a, b, m)
         /\ Ksuid!CompareNeon(a, b) = Sign(a, b, m)
<1>0. /\ Ksuid!Size \in Nat /\ m \in Nat /\ HeadBytes \in Nat /\ HeadBytes >= 1
      /\ HeadBytes <= Ksuid!Size - 1
  BY KsuidWidths
<1>1. a[m] \in Nat /\ b[m] \in Nat /\ a[m] # b[m]
  BY ImageTyped DEF FirstAt
<1>2. Ksuid!CompareScalar(a, b) = Sign(a, b, m)
  <2>1. Ksuid!Differ(a, b, 0) # {} /\ Ksuid!Min(Ksuid!Differ(a, b, 0)) = m
    BY <1>0, FirstOfRest
  <2>2. Ksuid!Memcmp(a, b) = a[m] - b[m]
    BY <2>1 DEF Ksuid!Memcmp
  <2>3. Ksuid!CompareScalar(a, b) = (IF a[m] - b[m] > 0 THEN 1 ELSE 0) - (IF a[m] - b[m] < 0 THEN 1 ELSE 0)
    BY <2>2 DEF Ksuid!CompareScalar
  <2>4. PICK y, z : y = a[m] /\ z = b[m]
    OBVIOUS
  <2>5. y \in Nat /\ z \in Nat /\ y # z
    BY <1>1, <2>4
  <2>6. (IF y - z > 0 THEN 1 ELSE 0) - (IF y - z < 0 THEN 1 ELSE 0) = IF y < z THEN -1 ELSE 1
    BY <2>5
  <2> QED
    BY <2>3, <2>4, <2>6 DEF Sign
<1>3. ASSUME NEW c \in 0 .. m PROVE Ksuid!ScanFrom(a, b, c) = Sign(a, b, m)
  <2>1. Ksuid!Differ(a, b, c) # {} /\ Ksuid!Min(Ksuid!Differ(a, b, c)) = m
    BY FirstOfRest
  <2> QED
    BY <2>1 DEF Ksuid!ScanFrom, Ksuid!OrderAt, Sign
<1>4. Ksuid!CompareSse2(a, b) = Sign(a, b, m)
  <2>1. PICK idx : idx = Ksuid!FirstDiff(Ksuid!EqMask(a, b))
    OBVIOUS
  <2>2. Ksuid!CompareSse2(a, b) = IF idx < HeadBytes THEN Ksuid!OrderAt(a, b, idx)
                                  ELSE Ksuid!ScanFrom(a, b, HeadBytes)
    BY <2>1 DEF Ksuid!CompareSse2
  <2>3. CASE m < HeadBytes
    <3>1. m \in 0 .. (HeadBytes - 1)
      BY <1>0, <2>3
    <3>2. idx = m
      BY <2>1, <3>1, FirstDiffExact
    <3> QED
      BY <2>2, <2>3, <3>2 DEF Ksuid!OrderAt, Sign
  <2>4. CASE ~(m < HeadBytes)
    <3>1. \A j \in 0 .. (HeadBytes - 1) : a[j] = b[j]
      BY <1>0, <2>4 DEF FirstAt
    <3>2. idx = HeadBytes
      BY <2>1, <3>1, FirstDiffExact
    <3>3. HeadBytes \in 0 .. m /\ ~(HeadBytes < HeadBytes)
      BY <1>0, <2>4
    <3> QED
      BY <1>3, <2>2, <3>2, <3>3
  <2> QED
    BY <2>3, <2>4
<1>5. Ksuid!CompareNeon(a, b) = Sign(a, b, m)
  <2>1. PICK L : L = {IF a[i] = b[i] THEN 255 ELSE 0 : i \in 0 .. (HeadBytes - 1)}
    OBVIOUS
  <2>2. Ksuid!CompareNeon(a, b) = Ksuid!ScanFrom(a, b, IF Ksuid!Min(L) # 255 THEN 0 ELSE HeadBytes)
    BY <2>1 DEF Ksuid!CompareNeon
  <2>3. CASE m < HeadBytes
    <3>1. 0 \in L /\ L \subseteq {0, 255}
      BY <1>0, <1>1, <2>1, <2>3
    <3>2. Ksuid!Min(L) \in L /\ \A y \in L : Ksuid!Min(L) <= y
      <4>1. \E z \in L : \A y \in L : z <= y
        BY <3>1
      <4> QED
        BY <4>1 DEF Ksuid!Min
    <3>3. Ksuid!Min(L) # 255
      BY <3>1, <3>2
    <3>4. 0 \in 0 .. m
      BY <1>0
    <3> QED
      BY <1>3, <2>2, <3>3, <3>4
  <2>4. CASE ~(m < HeadBytes)
    <3>1. \A j \in 0 .. (HeadBytes - 1) : a[j] = b[j]
      BY <1>0, <2>4 DEF FirstAt
    <3>2. HeadBytes \in 0 .. m /\ 0 \in 0 .. m
      BY <1>0, <2>4
    <3> QED
      BY <1>3, <2>2, <3>2
  <2> QED
    BY <2>3, <2>4
<1> QED
  BY <1>2, <1>4, <1>5

(* All kernels find equal identifiers equal. *)
LEMMA KernelsEqual ==
  ASSUME NEW a, NEW b, \A i \in 0 .. (Ksuid!Size - 1) : a[i] = b[i]
  PROVE  /\ Ksuid!CompareScalar(a, b) = 0 /\ Ksuid!CompareSse2(a, b) = 0
         /\ Ksuid!CompareNeon(a, b) = 0
<1>0. /\ Ksuid!Size \in Nat /\ HeadBytes \in Nat /\ HeadBytes <= Ksuid!Size - 1
  BY KsuidWidths
<1>1. ASSUME NEW c \in Nat PROVE Ksuid!Differ(a, b, c) = {}
  <2>1. ASSUME NEW j \in c .. (Ksuid!Size - 1) PROVE a[j] = b[j]
    <3>1. j \in 0 .. (Ksuid!Size - 1)
      BY <1>0
    <3> QED
      BY <3>1
  <2> QED
    BY <2>1 DEF Ksuid!Differ
<1>2. Ksuid!CompareScalar(a, b) = 0
  BY <1>1 DEF Ksuid!CompareScalar, Ksuid!Memcmp
<1>3. ASSUME NEW c \in Nat PROVE Ksuid!ScanFrom(a, b, c) = 0
  BY <1>1 DEF Ksuid!ScanFrom
<1>4. Ksuid!CompareSse2(a, b) = 0
  <2>1. \A j \in 0 .. (HeadBytes - 1) : a[j] = b[j]
    BY <1>0
  <2>2. Ksuid!FirstDiff(Ksuid!EqMask(a, b)) = HeadBytes
    BY <2>1, FirstDiffExact
  <2>3. ~(HeadBytes < HeadBytes)
    BY <1>0
  <2> QED
    BY <1>0, <1>3, <2>2, <2>3 DEF Ksuid!CompareSse2
<1>5. Ksuid!CompareNeon(a, b) = 0
  <2>1. PICK c : c = IF Ksuid!Min({IF a[i] = b[i] THEN 255 ELSE 0 : i \in 0 .. (HeadBytes - 1)}) # 255
                     THEN 0 ELSE HeadBytes
    OBVIOUS
  <2>2. c \in Nat
    BY <1>0, <2>1
  <2>3. Ksuid!CompareNeon(a, b) = Ksuid!ScanFrom(a, b, c)
    BY <2>1 DEF Ksuid!CompareNeon
  <2> QED
    BY <1>3, <2>2, <2>3
<1> QED
  BY <1>2, <1>4, <1>5

(* The bytes of an identifier and what it was made for. *)
Made(a, p) == /\ a \in Ksuid!Images /\ Ksuid!TimeUnix(a) = p[1] /\ Ksuid!Payload(a) = p[2]

(* The timestamp and the payload of an identifier, byte by byte. *)
LEMMA MadeTyped ==
  ASSUME NEW a, NEW p, Made(a, p)
  PROVE  /\ p[1] = Value(TimePart(a), Byte) + Epoch /\ Value(TimePart(a), Byte) \in Nat
         /\ TimePart(a) \in Seq(Nat) /\ Len(TimePart(a)) = TsBytes
         /\ TimePart(a) \in Seq(0 .. (Byte - 1))
         /\ DOMAIN p[2] = 0 .. (PayloadBytes - 1)
         /\ \A i \in 0 .. (PayloadBytes - 1) : p[2][i] = a[TsBytes + i]
<1>1. /\ TimePart(a) \in Seq(0 .. (Byte - 1)) /\ TimePart(a) \in Seq(Nat) /\ Len(TimePart(a)) = TsBytes
      /\ Ksuid!Load(a) = Value(TimePart(a), Byte) /\ Ksuid!Load(a) \in 0 .. Ksuid!TsMax
  BY HeadTyped DEF Made
<1>2. p[1] = Ksuid!Load(a) + Epoch
  BY DEF Made, Ksuid!TimeUnix
<1>3. p[2] = [i \in 0 .. (PayloadBytes - 1) |-> a[TsBytes + i]]
  BY DEF Made, Ksuid!Payload
<1> QED
  BY <1>1, <1>2, <1>3, KsuidWidths

(* A smaller byte at the first difference means an earlier identifier. *)
LEMMA SmallerIsEarlier ==
  ASSUME NEW a, NEW b, NEW p, NEW q, Made(a, p), Made(b, q),
         NEW m \in 0 .. (Ksuid!Size - 1), FirstAt(a, b, m), a[m] < b[m]
  PROVE  Ksuid!Earlier(p, q) /\ ~Ksuid!Earlier(q, p)
<1>0. /\ Ksuid!Size = TsBytes + PayloadBytes /\ TsBytes \in Nat /\ PayloadBytes \in Nat /\ Epoch \in Nat
      /\ m \in Nat /\ a \in Ksuid!Images /\ b \in Ksuid!Images /\ Byte \in Nat \ {0}
      /\ Byte \in Nat
  BY KsuidWidths DEF Made
<1>01. m \in 0 .. (Ksuid!Size - 1) /\ \A j \in 0 .. (m - 1) : a[j] = b[j]
  BY DEF FirstAt
<1>1. PICK s, t : s = TimePart(a) /\ t = TimePart(b)
  OBVIOUS
<1>2. /\ p[1] = Value(s, Byte) + Epoch /\ Value(s, Byte) \in Nat
      /\ s \in Seq(Nat) /\ Len(s) = TsBytes /\ s \in Seq(0 .. (Byte - 1))
  BY <1>1, MadeTyped
<1>3. /\ q[1] = Value(t, Byte) + Epoch /\ Value(t, Byte) \in Nat
      /\ t \in Seq(Nat) /\ Len(t) = TsBytes
  BY <1>1, MadeTyped
<1>4. /\ \A i \in 1 .. TsBytes : s[i] = a[i - 1]
      /\ \A i \in 1 .. TsBytes : t[i] = b[i - 1]
  BY <1>1 DEF TimePart
<1>5. CASE m < TsBytes
  <2>1. PICK c : c = m + 1
    OBVIOUS
  <2>2. c \in 1 .. Len(s) /\ c - 1 = m /\ c \in 1 .. TsBytes
    BY <1>0, <1>2, <1>5, <2>1
  <2>3. s[c] < t[c]
    BY <1>4, <2>2
  <2>4. \A i \in 1 .. (c - 1) : s[i] = t[i]
    <3>1. ASSUME NEW i \in 1 .. (c - 1) PROVE s[i] = t[i]
      <4>1. i \in 1 .. TsBytes /\ i - 1 \in 0 .. (m - 1)
        BY <1>0, <2>1, <2>2
      <4> QED
        BY <1>01, <1>4, <4>1
    <3> QED
      BY <3>1
  <2>5. \A i \in (c + 1) .. Len(s) : s[i] <= Byte - 1
    <3>1. ASSUME NEW A, NEW r \in Seq(A), NEW k \in 1 .. Len(r) PROVE r[k] \in A
      OBVIOUS
    <3>2. ASSUME NEW i \in (c + 1) .. Len(s) PROVE s[i] <= Byte - 1
      <4>1. i \in 1 .. Len(s)
        BY <1>0, <1>2, <2>2
      <4>2. s[i] \in 0 .. (Byte - 1)
        BY <1>2, <3>1, <4>1
      <4> QED
        BY <4>2
    <3> QED
      BY <3>2
  <2>6. Value(s, Byte) < Value(t, Byte)
    BY <1>0, <1>2, <1>3, <2>2, <2>3, <2>4, <2>5, LowerDigit
  <2>7. p[1] < q[1] /\ ~(q[1] < p[1]) /\ p[1] # q[1]
    BY <1>0, <1>2, <1>3, <2>6
  <2> QED
    BY <2>7 DEF Ksuid!Earlier
<1>6. CASE ~(m < TsBytes)
  <2>1. \A i \in 1 .. TsBytes : s[i] = t[i]
    <3>1. ASSUME NEW i \in 1 .. TsBytes PROVE s[i] = t[i]
      <4>1. i - 1 \in 0 .. (m - 1)
        BY <1>0, <1>6
      <4> QED
        BY <1>01, <1>4, <4>1
    <3> QED
      BY <3>1
  <2>2. Value(s, Byte) = Value(t, Byte)
    <3>1. Prefixes(s, Byte)[TsBytes] = Prefixes(t, Byte)[TsBytes]
      <4>1. PICK j : j = TsBytes
        OBVIOUS
      <4>2. j \in Nat /\ j <= Len(s) /\ j <= Len(t) /\ \A i \in 1 .. j : s[i] = t[i]
        BY <1>0, <1>2, <1>3, <2>1, <4>1
      <4>3. Byte \in Nat /\ s \in Seq(Nat) /\ t \in Seq(Nat)
        BY <1>0, <1>2, <1>3
      <4>4. Prefixes(s, Byte)[j] = Prefixes(t, Byte)[j]
        BY <4>2, <4>3, PrefixesAgree
      <4> QED
        BY <4>1, <4>4
    <3> QED
      BY <1>2, <1>3, <3>1 DEF Value
  <2>3. p[1] = q[1] /\ ~(p[1] < q[1]) /\ ~(q[1] < p[1])
    BY <1>0, <1>2, <1>3, <2>2
  <2>4. PICK c : c = m - TsBytes
    OBVIOUS
  <2>5. c \in 0 .. (PayloadBytes - 1) /\ TsBytes + c = m
    BY <1>0, <1>01, <1>6, <2>4
  <2>6. /\ DOMAIN p[2] = 0 .. (PayloadBytes - 1) /\ DOMAIN q[2] = 0 .. (PayloadBytes - 1)
        /\ \A i \in 0 .. (PayloadBytes - 1) : p[2][i] = a[TsBytes + i]
        /\ \A i \in 0 .. (PayloadBytes - 1) : q[2][i] = b[TsBytes + i]
    BY MadeTyped
  <2>7. p[2][c] < q[2][c]
    BY <2>5, <2>6
  <2>8. ASSUME NEW j \in 0 .. (c - 1) PROVE p[2][j] = q[2][j]
    <3>1. j \in 0 .. (PayloadBytes - 1) /\ TsBytes + j \in 0 .. (m - 1)
      BY <1>0, <2>5
    <3> QED
      BY <1>01, <2>6, <3>1
  <2>9. Ksuid!Earlier(p, q)
    BY <2>3, <2>5, <2>6, <2>7, <2>8 DEF Ksuid!Earlier
  <2>10. ASSUME NEW i \in 0 .. (PayloadBytes - 1), q[2][i] < p[2][i],
                \A j \in 0 .. (i - 1) : q[2][j] = p[2][j]
         PROVE  FALSE
    <3>1. a[m] \in Nat /\ b[m] \in Nat /\ a[m] # b[m]
      BY <1>0, <1>01, ImageTyped DEF FirstAt
    <3>2. i # c
      <4>1. p[2][c] = a[m] /\ q[2][c] = b[m]
        BY <2>5, <2>6
      <4> QED
        BY <2>10, <3>1, <4>1
    <3>3. ~(i < c)
      <4>1. SUFFICES ASSUME i < c PROVE FALSE
        OBVIOUS
      <4>2. i \in 0 .. (c - 1)
        BY <1>0, <2>5, <4>1
      <4>3. p[2][i] = q[2][i]
        BY <2>8, <4>2
      <4>4. TsBytes + i \in 0 .. (Ksuid!Size - 1)
        BY <1>0
      <4>5. p[2][i] \in Nat
        BY <1>0, <2>6, <4>4, ImageTyped
      <4> QED
        BY <2>10, <4>3, <4>5
    <3>4. ~(c < i)
      <4>1. SUFFICES ASSUME c < i PROVE FALSE
        OBVIOUS
      <4>2. c \in 0 .. (i - 1)
        BY <1>0, <2>5, <4>1
      <4>3. p[2][c] = q[2][c]
        BY <2>10, <4>2
      <4>4. p[2][c] = a[m] /\ q[2][c] = b[m]
        BY <2>5, <2>6
      <4> QED
        BY <3>1, <4>3, <4>4
    <3> QED
      BY <1>0, <2>5, <3>2, <3>3, <3>4
  <2>11. ~Ksuid!Earlier(q, p)
    BY <2>3, <2>6, <2>10 DEF Ksuid!Earlier
  <2> QED
    BY <2>9, <2>11
<1> QED
  BY <1>5, <1>6

(* Equal bytes were made for the same. *)
LEMMA SameIsNotEarlier ==
  ASSUME NEW a, NEW b, NEW p, NEW q, Made(a, p), Made(b, q), a = b
  PROVE  ~Ksuid!Earlier(p, q) /\ ~Ksuid!Earlier(q, p)
<1>1. p[1] = q[1] /\ p[2] = q[2]
  BY DEF Made
<1>2. p[1] \in Nat
  <2>1. p[1] = Value(TimePart(a), Byte) + Epoch /\ Value(TimePart(a), Byte) \in Nat
    BY MadeTyped
  <2> QED
    BY <2>1, KsuidWidths
<1>3. DOMAIN p[2] = 0 .. (PayloadBytes - 1) /\ a \in Ksuid!Images
      /\ \A i \in 0 .. (PayloadBytes - 1) : p[2][i] = a[TsBytes + i]
  BY MadeTyped DEF Made
<1>4. ASSUME NEW i \in DOMAIN p[2] PROVE ~(p[2][i] < p[2][i])
  <2>1. TsBytes + i \in 0 .. (Ksuid!Size - 1) /\ i \in 0 .. (PayloadBytes - 1)
    <3>1. /\ Ksuid!Size = TsBytes + PayloadBytes /\ TsBytes \in Nat /\ PayloadBytes \in Nat
      BY KsuidWidths
    <3>2. i \in 0 .. (PayloadBytes - 1)
      BY <1>3
    <3> QED
      BY <3>1, <3>2
  <2>2. p[2][i] \in Nat
    BY <1>3, <2>1, ImageTyped
  <2> QED
    BY <2>2
<1>5. ~(p[1] < p[1])
  BY <1>2
<1> QED
  BY <1>1, <1>4, <1>5 DEF Ksuid!Earlier

(* All three kernels report the order of time and payload. *)
LEMMA ComparisonIsOrder ==
  ASSUME NEW a, NEW b, NEW p, NEW q, Made(a, p), Made(b, q),
         NEW v, v = IF Ksuid!Earlier(p, q) THEN -1 ELSE IF Ksuid!Earlier(q, p) THEN 1 ELSE 0
  PROVE  /\ Ksuid!CompareScalar(a, b) = v /\ Ksuid!CompareSse2(a, b) = v /\ Ksuid!CompareNeon(a, b) = v
<1>0. a \in Ksuid!Images /\ b \in Ksuid!Images
  BY DEF Made
<1>1. CASE \A i \in 0 .. (Ksuid!Size - 1) : a[i] = b[i]
  <2>1. a = b
    <3>1. /\ a = [i \in 0 .. (Ksuid!Size - 1) |-> a[i]]
          /\ b = [i \in 0 .. (Ksuid!Size - 1) |-> b[i]]
      BY <1>0 DEF Ksuid!Images
    <3> QED
      BY <1>1, <3>1
  <2>2. v = 0
    BY <2>1, SameIsNotEarlier
  <2> QED
    BY <1>1, <2>2, KernelsEqual
<1>2. CASE \E m \in 0 .. (Ksuid!Size - 1) : FirstAt(a, b, m)
  <2>1. PICK m \in 0 .. (Ksuid!Size - 1) : FirstAt(a, b, m)
    BY <1>2
  <2>2. /\ Ksuid!CompareScalar(a, b) = Sign(a, b, m) /\ Ksuid!CompareSse2(a, b) = Sign(a, b, m)
        /\ Ksuid!CompareNeon(a, b) = Sign(a, b, m)
    BY <1>0, <2>1, KernelsOrder
  <2>3. a[m] \in Nat /\ b[m] \in Nat /\ a[m] # b[m]
    BY <1>0, <2>1, ImageTyped DEF FirstAt
  <2>4. CASE a[m] < b[m]
    <3>1. Ksuid!Earlier(p, q)
      BY <2>1, <2>4, SmallerIsEarlier
    <3> QED
      BY <2>2, <2>4, <3>1 DEF Sign
  <2>5. CASE b[m] < a[m]
    <3>1. FirstAt(b, a, m)
      BY <2>1 DEF FirstAt
    <3>2. Ksuid!Earlier(q, p) /\ ~Ksuid!Earlier(p, q)
      BY <2>1, <2>5, <3>1, SmallerIsEarlier
    <3>3. ~(a[m] < b[m])
      BY <2>3, <2>5
    <3> QED
      BY <2>2, <3>2, <3>3 DEF Sign
  <2> QED
    BY <2>3, <2>4, <2>5
<1> QED
  BY <1>1, <1>2, FirstDifference

(* The scalar, SSE2 and NEON kernels of chronoid_ksuid_compare order any   *)
(* two identifiers by the time they were made for and then by payload, for *)
(* every width and every split between vector and scalar part.             *)
THEOREM KsuidComparesByTime == Spec => ComparesByTime
<1> DEFINE Order == IF Ksuid!Earlier(asked, asked') THEN -1
                    ELSE IF Ksuid!Earlier(asked', asked) THEN 1 ELSE 0
<1>1. ConstructsExactly => Made(id, asked)
  BY DEF ConstructsExactly, Made, Ksuid!TypeOK, Ksuid!ConstructsExactly
<1>2. ConstructsExactly' => Made(id', asked')
  BY DEF ConstructsExactly, Made, Ksuid!TypeOK, Ksuid!ConstructsExactly
<1>3. ConstructsExactly /\ ConstructsExactly' => /\ Ksuid!CompareScalar(id, id') = Order
                               /\ Ksuid!CompareSse2(id, id') = Order
                               /\ Ksuid!CompareNeon(id, id') = Order
  BY <1>1, <1>2, ComparisonIsOrder
<1>4. ConstructsExactly /\ ConstructsExactly' =>
        [LET order == IF Ksuid!Earlier(asked, asked') THEN -1
                      ELSE IF Ksuid!Earlier(asked', asked) THEN 1 ELSE 0
         IN  /\ Ksuid!CompareScalar(id, id') = order
             /\ Ksuid!CompareSse2(id, id') = order
             /\ Ksuid!CompareNeon(id, id') = order]_(Ksuid!vars)
  BY <1>3
<1> QED
  BY <1>4, KsuidConstructsExactly, PTL DEF ComparesByTime, Ksuid!ComparesByTime

-----------------------------------------------------------------------------
(* The constructors of UUIDv7 identifiers (Uuidv7Layout). *)

(* Uuidv7Layout's instance of Numerals is the module itself. *)
LEMMA Uuidv7Numerals ==
  /\ \A s, b : Uuidv7!Value(s, b) = Value(s, b)
  /\ \A b, k : Uuidv7!Power(b, k) = Power(b, k)
  BY DEF Uuidv7!Value, Uuidv7!Prefixes, Uuidv7!Power, Uuidv7!Powers,
         Value, Prefixes, Power, Powers

(* A field above another one fits the byte and is read back from it. *)
LEMMA SpanDivides ==
  ASSUME NEW b \in Nat \ {0}, NEW span \in Nat \ {0}, b % span = 0
  PROVE  b \div span \in Nat \ {0} /\ b = (b \div span) * span
<1>1. PICK low : low = b \div span
  OBVIOUS
<1>2. low \in Nat /\ b = low * span + (b % span) /\ b \in Nat /\ span \in Nat
  BY <1>1, DivisionFacts
<1>3. low * span \in Nat /\ b = low * span
  BY <1>2
<1>4. low # 0
  BY <1>2, <1>3
<1> QED
  BY <1>1, <1>2, <1>3, <1>4

(* A field of a byte of b values: f is one of span values above a part of  *)
(* low values.                                                             *)
Field(b, span, low, f) ==
  b \in Nat \ {0} /\ span \in Nat \ {0} /\ low \in Nat \ {0} /\ b = low * span /\ f \in 0 .. (span - 1)

(* A field above another part fits the byte and is read back from it. *)
LEMMA FieldFits ==
  ASSUME NEW b, NEW span, NEW low, NEW f, Field(b, span, low, f), NEW x \in Nat, x < low,
         NEW y, y = f * low + x
  PROVE  y \in 0 .. (b - 1) /\ y \div low = f
<1>0. /\ b \in Nat \ {0} /\ span \in Nat \ {0} /\ low \in Nat \ {0} /\ b = low * span
      /\ f \in 0 .. (span - 1)
  BY DEF Field
<1>1. PICK g \in Nat : f + 1 + g = span
  <2>1. span - (f + 1) \in Nat /\ f + 1 + (span - (f + 1)) = span
    BY <1>0
  <2> QED
    BY <2>1
<1>2. f \in Nat /\ low \in Nat
  BY <1>0
<1>3. PICK u, v : u = f * low /\ v = g * low
  OBVIOUS
<1>4. u \in Nat /\ v \in Nat
  BY <1>2, <1>3
<1>5. b = u + low + v
  <2>1. low * (f + 1 + g) = f * low + low + g * low
    BY <1>2
  <2> QED
    BY <1>0, <1>1, <1>3, <2>1
<1>6. y \in Nat /\ y < b
  BY <1>2, <1>3, <1>4, <1>5
<1>7. y \div low = f
  BY <1>0, <1>2, <1>6, DivStep
<1> QED
  BY <1>0, <1>6, <1>7

(* The widths of a UUIDv7, from its assumption. *)
LEMMA Uuidv7Widths ==
  /\ UuidByte \in Nat \ {0} /\ UuidByte \in Nat /\ UuidByte > 1
  /\ VerSpan \in Nat \ {0} /\ VarSpan \in Nat \ {0} /\ MsBytes \in Nat \ {0} /\ MsBytes \in Nat
  /\ RandBytes \in Nat \ {0} /\ RandBytes \in Nat
  /\ UuidByte % VerSpan = 0 /\ UuidByte % VarSpan = 0
  /\ Version \in 0 .. (VerSpan - 1) /\ Variant \in 0 .. (VarSpan - 1)
  /\ Uuidv7!VerLow = UuidByte \div VerSpan /\ Uuidv7!VarLow = UuidByte \div VarSpan
  /\ Uuidv7!VerLow \in Nat \ {0} /\ Uuidv7!VarLow \in Nat \ {0}
  /\ Field(UuidByte, VerSpan, Uuidv7!VerLow, Version)
  /\ Field(UuidByte, VarSpan, Uuidv7!VarLow, Variant)
  /\ Uuidv7!Size = MsBytes + 2 + RandBytes
  /\ Times \subseteq Int /\ Words \subseteq 0 .. (UuidByte * UuidByte - 1)
  /\ Tails \subseteq [1 .. RandBytes -> 0 .. (UuidByte - 1)]
  /\ UuidImages \subseteq Seq(0 .. (UuidByte - 1))
<1>1. /\ {UuidByte, VerSpan, VarSpan, MsBytes, RandBytes} \subseteq Nat \ {0}
      /\ UuidByte > 1 /\ UuidByte % VerSpan = 0 /\ UuidByte % VarSpan = 0
      /\ Version \in 0 .. (VerSpan - 1) /\ Variant \in 0 .. (VarSpan - 1)
      /\ Times \subseteq Int /\ Words \subseteq 0 .. (UuidByte * UuidByte - 1)
      /\ Tails \subseteq [1 .. RandBytes -> 0 .. (UuidByte - 1)]
      /\ UuidImages \subseteq Seq(0 .. (UuidByte - 1))
  BY Uuidv7Fits DEF Uuidv7!ConstantsFit
<1>2. /\ UuidByte \in Nat \ {0} /\ VerSpan \in Nat \ {0} /\ VarSpan \in Nat \ {0}
      /\ MsBytes \in Nat \ {0} /\ RandBytes \in Nat \ {0}
  BY <1>1
<1>3. Uuidv7!VerLow = UuidByte \div VerSpan /\ Uuidv7!VarLow = UuidByte \div VarSpan
  BY DEF Uuidv7!VerLow, Uuidv7!VarLow
<1>4. Uuidv7!VerLow \in Nat \ {0} /\ UuidByte = Uuidv7!VerLow * VerSpan
  BY <1>1, <1>2, <1>3, SpanDivides
<1>5. Uuidv7!VarLow \in Nat \ {0} /\ UuidByte = Uuidv7!VarLow * VarSpan
  BY <1>1, <1>2, <1>3, SpanDivides
<1>6. Uuidv7!Size = MsBytes + 2 + RandBytes
  BY DEF Uuidv7!Size
<1>7. UuidByte \in Nat /\ MsBytes \in Nat /\ RandBytes \in Nat
  BY <1>2
<1>8. Field(UuidByte, VerSpan, Uuidv7!VerLow, Version)
  BY <1>1, <1>2, <1>4 DEF Field
<1>9. Field(UuidByte, VarSpan, Uuidv7!VarLow, Variant)
  BY <1>1, <1>2, <1>5 DEF Field
<1> QED
  BY <1>1, <1>2, <1>3, <1>4, <1>5, <1>6, <1>7, <1>8, <1>9

(* The bytes of a composed identifier, from their positions. *)
VerByte(w) == Version * Uuidv7!VerLow + ((w \div UuidByte) % Uuidv7!VerLow)
VarByte(tail) == Variant * Uuidv7!VarLow + (tail[1] % Uuidv7!VarLow)

(* u, byte by byte: timestamp, version over rand_a, variant over rand_b. *)
Composed(u, ms, w, tail) ==
  /\ u \in Seq(0 .. (UuidByte - 1)) /\ Len(u) = Uuidv7!Size
  /\ \A i \in 1 .. MsBytes : u[i] = (ms \div Power(UuidByte, MsBytes - i)) % UuidByte
  /\ u[MsBytes + 1] = VerByte(w) /\ u[MsBytes + 2] = w % UuidByte
  /\ u[MsBytes + 3] = VarByte(tail)
  /\ \A k \in 2 .. RandBytes : u[MsBytes + 2 + k] = tail[k]

(* The arguments of the composer. *)
Given(ms, w, tail) ==
  /\ ms \in Nat /\ ms < Power(UuidByte, MsBytes)
  /\ w \in Nat /\ tail \in [1 .. RandBytes -> 0 .. (UuidByte - 1)]

(* The bytes with the version and the variant are bytes, and give them     *)
(* back.                                                                   *)
LEMMA FieldBytes ==
  ASSUME NEW w \in Nat, NEW tail \in [1 .. RandBytes -> 0 .. (UuidByte - 1)]
  PROVE  /\ VerByte(w) \in 0 .. (UuidByte - 1) /\ VerByte(w) \div Uuidv7!VerLow = Version
         /\ VarByte(tail) \in 0 .. (UuidByte - 1) /\ VarByte(tail) \div Uuidv7!VarLow = Variant
         /\ (w \div UuidByte) % Uuidv7!VerLow \in Nat
         /\ (w \div UuidByte) % Uuidv7!VerLow < Uuidv7!VerLow
         /\ tail[1] % Uuidv7!VarLow \in Nat /\ tail[1] % Uuidv7!VarLow < Uuidv7!VarLow
         /\ w % UuidByte \in 0 .. (UuidByte - 1)
<1>1. PICK x : x = (w \div UuidByte) % Uuidv7!VerLow
  OBVIOUS
<1>2. x \in 0 .. (Uuidv7!VerLow - 1) /\ x \in Nat /\ x < Uuidv7!VerLow
  <2>1. w \div UuidByte \in Nat
    BY Uuidv7Widths, DivisionFacts
  <2>2. x \in Nat /\ x < Uuidv7!VerLow
    BY <1>1, <2>1, Uuidv7Widths, DivisionFacts
  <2> QED
    BY <2>2, Uuidv7Widths
<1>3. VerByte(w) \in 0 .. (UuidByte - 1) /\ VerByte(w) \div Uuidv7!VerLow = Version
  <2>1. PICK z : z = Version * Uuidv7!VerLow + x
    OBVIOUS
  <2>2. z \in 0 .. (UuidByte - 1) /\ z \div Uuidv7!VerLow = Version
    <3>1. Field(UuidByte, VerSpan, Uuidv7!VerLow, Version)
      BY Uuidv7Widths
    <3> QED
      BY <1>2, <2>1, <3>1, FieldFits
  <2> QED
    BY <1>1, <2>1, <2>2 DEF VerByte
<1>4. tail[1] \in Nat
  BY Uuidv7Widths
<1>5. PICK y : y = tail[1] % Uuidv7!VarLow
  OBVIOUS
<1>6. y \in Nat /\ y < Uuidv7!VarLow /\ y \in 0 .. (Uuidv7!VarLow - 1)
  <2>1. y \in Nat /\ y < Uuidv7!VarLow
    BY <1>4, <1>5, Uuidv7Widths, DivisionFacts
  <2> QED
    BY <2>1, Uuidv7Widths
<1>7. VarByte(tail) \in 0 .. (UuidByte - 1) /\ VarByte(tail) \div Uuidv7!VarLow = Variant
  <2>1. PICK z : z = Variant * Uuidv7!VarLow + y
    OBVIOUS
  <2>2. z \in 0 .. (UuidByte - 1) /\ z \div Uuidv7!VarLow = Variant
    <3>1. Field(UuidByte, VarSpan, Uuidv7!VarLow, Variant)
      BY Uuidv7Widths
    <3> QED
      BY <1>6, <2>1, <3>1, FieldFits
  <2> QED
    BY <1>5, <2>1, <2>2 DEF VarByte
<1>8. w % UuidByte \in 0 .. (UuidByte - 1)
  <2>1. w % UuidByte \in Nat /\ w % UuidByte < UuidByte
    BY Uuidv7Widths, DivisionFacts
  <2> QED
    BY <2>1, Uuidv7Widths
<1>9. (w \div UuidByte) % Uuidv7!VerLow \in Nat /\ (w \div UuidByte) % Uuidv7!VerLow < Uuidv7!VerLow
  BY <1>1, <1>2
<1>10. tail[1] % Uuidv7!VarLow \in Nat /\ tail[1] % Uuidv7!VarLow < Uuidv7!VarLow
  BY <1>5, <1>6
<1> QED
  BY <1>3, <1>7, <1>8, <1>9, <1>10

(* Two sequences put one after the other. *)
LEMMA Concatenated ==
  ASSUME NEW A, NEW s \in Seq(A), NEW t \in Seq(A)
  PROVE  /\ s \o t \in Seq(A) /\ Len(s \o t) = Len(s) + Len(t)
         /\ \A k \in 1 .. Len(s) : (s \o t)[k] = s[k]
         /\ \A k \in 1 .. Len(t) : (s \o t)[Len(s) + k] = t[k]
  OBVIOUS

(* A first element put before the rest of a sequence. *)
LEMMA Replaced ==
  ASSUME NEW A, NEW t \in Seq(A), Len(t) >= 1, NEW x \in A
  PROVE  /\ <<x>> \o Tail(t) \in Seq(A) /\ Len(<<x>> \o Tail(t)) = Len(t)
         /\ (<<x>> \o Tail(t))[1] = x
         /\ \A k \in 2 .. Len(t) : (<<x>> \o Tail(t))[k] = t[k]
<1>1. /\ <<x>> \in Seq(A) /\ Len(<<x>>) = 1 /\ <<x>>[1] = x
  OBVIOUS
<1>2. PICK r : r = Tail(t)
  OBVIOUS
<1>3. r \in Seq(A) /\ Len(r) = Len(t) - 1 /\ \A k \in 1 .. (Len(t) - 1) : r[k] = t[k + 1]
  BY <1>2
<1>4. /\ <<x>> \o r \in Seq(A) /\ Len(<<x>> \o r) = 1 + (Len(t) - 1)
      /\ (<<x>> \o r)[1] = x
      /\ \A k \in 1 .. Len(r) : (<<x>> \o r)[1 + k] = r[k]
  BY <1>1, <1>3, Concatenated
<1>5. 1 + (Len(t) - 1) = Len(t)
  OBVIOUS
<1>6. ASSUME NEW k \in 2 .. Len(t) PROVE (<<x>> \o r)[k] = t[k]
  <2>1. PICK j : j = k - 1
    OBVIOUS
  <2>2. j \in 1 .. (Len(t) - 1) /\ 1 + j = k /\ j + 1 = k /\ j \in 1 .. Len(r)
    BY <1>3, <2>1
  <2>3. (<<x>> \o r)[1 + j] = r[j] /\ r[j] = t[j + 1]
    BY <1>3, <1>4, <2>2
  <2> QED
    BY <2>2, <2>3
<1> QED
  BY <1>2, <1>4, <1>5, <1>6

(* What the composer of chronoid_uuidv7_from_parts and of the sequence     *)
(* writes into each byte.                                                  *)
LEMMA ComposeIs ==
  ASSUME NEW ms, NEW w, NEW tail, Given(ms, w, tail)
  PROVE  Composed(Uuidv7!Compose(ms, w, tail), ms, w, tail)
<1> DEFINE A == 0 .. (UuidByte - 1)
<1>0. /\ ms \in Nat /\ w \in Nat /\ tail \in [1 .. RandBytes -> A]
      /\ UuidByte \in Nat \ {0} /\ UuidByte \in Nat /\ MsBytes \in Nat /\ RandBytes \in Nat
      /\ RandBytes >= 1 /\ Uuidv7!Size = MsBytes + 2 + RandBytes
  BY Uuidv7Widths DEF Given
<1>1. PICK a, b, c : a = Uuidv7!TimeBytes(ms) /\ b = Uuidv7!RandA(w) /\ c = Uuidv7!RandB(tail)
  OBVIOUS
<1>2. a = [i \in 1 .. MsBytes |-> (ms \div Power(UuidByte, MsBytes - i)) % UuidByte]
  BY <1>1, Uuidv7Numerals DEF Uuidv7!TimeBytes
<1>3. a \in Seq(A) /\ Len(a) = MsBytes
      /\ \A i \in 1 .. MsBytes : a[i] = (ms \div Power(UuidByte, MsBytes - i)) % UuidByte
  <2>1. ASSUME NEW i \in 1 .. MsBytes PROVE (ms \div Power(UuidByte, MsBytes - i)) % UuidByte \in A
    <3>1. MsBytes - i \in Nat
      BY <1>0
    <3>2. PICK p : p = Power(UuidByte, MsBytes - i)
      OBVIOUS
    <3>3. p \in Nat \ {0}
      BY <1>0, <3>1, <3>2, PowerPositive
    <3>4. PICK q : q = ms \div p
      OBVIOUS
    <3>5. q \in Nat
      BY <1>0, <3>3, <3>4, DivisionFacts
    <3>6. q % UuidByte \in A
      <4>1. q % UuidByte \in Nat /\ q % UuidByte < UuidByte
        BY <1>0, <3>5, DivisionFacts
      <4> QED
        BY <1>0, <4>1
    <3> QED
      BY <3>2, <3>4, <3>6
  <2> HIDE DEF A
  <2>2. a \in [1 .. MsBytes -> A]
    BY <1>2, <2>1
  <2> QED
    BY <1>0, <1>2, <2>2, AsSequence
<1>4. VerByte(w) \in A /\ w % UuidByte \in A /\ VarByte(tail) \in A
  BY <1>0, FieldBytes
<1>5. b \in Seq(A) /\ Len(b) = 2 /\ b[1] = VerByte(w) /\ b[2] = w % UuidByte
  <2>1. b = <<VerByte(w), w % UuidByte>>
    BY <1>1 DEF Uuidv7!RandA, VerByte
  <2> HIDE DEF A
  <2> QED
    BY <1>4, <2>1
<1>6. /\ c \in Seq(A) /\ Len(c) = RandBytes /\ c[1] = VarByte(tail)
      /\ \A k \in 2 .. RandBytes : c[k] = tail[k]
  <2>1. c = <<VarByte(tail)>> \o Tail(tail)
    BY <1>1 DEF Uuidv7!RandB, VarByte
  <2> HIDE DEF A
  <2>2. tail \in Seq(A) /\ Len(tail) = RandBytes
    BY <1>0, AsSequence
  <2> QED
    BY <1>0, <1>4, <2>1, <2>2, Replaced
<1> HIDE DEF A
<1>7. PICK h, u : h = a \o b /\ u = h \o c
  OBVIOUS
<1>8. /\ h \in Seq(A) /\ Len(h) = Len(a) + Len(b) /\ \A k \in 1 .. Len(a) : h[k] = a[k]
      /\ \A k \in 1 .. Len(b) : h[Len(a) + k] = b[k]
  <2>1. a \in Seq(A) /\ b \in Seq(A)
    BY <1>3, <1>5
  <2> QED
    BY <1>7, <2>1, Concatenated
<1>81. Len(h) = MsBytes + 2 /\ \A k \in 1 .. MsBytes : h[k] = a[k]
  BY <1>3, <1>5, <1>8
<1>9. h[MsBytes + 1] = b[1] /\ h[MsBytes + 2] = b[2]
  <2>1. 1 \in 1 .. Len(b) /\ 2 \in 1 .. Len(b)
    BY <1>5
  <2>2. h[Len(a) + 1] = b[1] /\ h[Len(a) + 2] = b[2]
    BY <1>8, <2>1
  <2> QED
    BY <1>3, <2>2
<1>10. /\ u \in Seq(A) /\ Len(u) = MsBytes + 2 + RandBytes
       /\ \A k \in 1 .. (MsBytes + 2) : u[k] = h[k]
       /\ \A k \in 1 .. RandBytes : u[(MsBytes + 2) + k] = c[k]
  <2>1. h \in Seq(A) /\ c \in Seq(A)
    BY <1>6, <1>8
  <2>2. /\ u \in Seq(A) /\ Len(u) = Len(h) + Len(c) /\ \A k \in 1 .. Len(h) : u[k] = h[k]
        /\ \A k \in 1 .. Len(c) : u[Len(h) + k] = c[k]
    BY <1>7, <2>1, Concatenated
  <2>3. Len(h) = MsBytes + 2 /\ Len(c) = RandBytes
    BY <1>6, <1>81
  <2> QED
    BY <2>2, <2>3
<1>11. \A i \in 1 .. MsBytes : u[i] = (ms \div Power(UuidByte, MsBytes - i)) % UuidByte
  <2>1. \A i \in 1 .. MsBytes : i \in 1 .. (MsBytes + 2)
    BY <1>0
  <2> QED
    BY <1>3, <1>81, <1>10, <2>1
<1>12. u[MsBytes + 1] = VerByte(w) /\ u[MsBytes + 2] = w % UuidByte
  <2>1. MsBytes + 1 \in 1 .. (MsBytes + 2) /\ MsBytes + 2 \in 1 .. (MsBytes + 2)
    BY <1>0
  <2> QED
    BY <1>5, <1>9, <1>10, <2>1
<1>13. u[MsBytes + 3] = VarByte(tail)
  <2>1. 1 \in 1 .. RandBytes /\ (MsBytes + 2) + 1 = MsBytes + 3
    BY <1>0
  <2>2. u[(MsBytes + 2) + 1] = c[1]
    BY <1>10, <2>1
  <2> QED
    BY <1>6, <2>1, <2>2
<1>14. \A k \in 2 .. RandBytes : u[MsBytes + 2 + k] = tail[k]
  <2>1. ASSUME NEW k \in 2 .. RandBytes PROVE u[MsBytes + 2 + k] = tail[k]
    <3>1. k \in 1 .. RandBytes /\ (MsBytes + 2) + k = MsBytes + 2 + k
      BY <1>0
    <3>2. u[(MsBytes + 2) + k] = c[k]
      BY <1>10, <3>1
    <3> QED
      BY <1>6, <3>1, <3>2
  <2> QED
    BY <2>1
<1>15. u = Uuidv7!Compose(ms, w, tail)
  BY <1>1, <1>7 DEF Uuidv7!Compose
<1>16. Len(u) = Uuidv7!Size /\ u \in Seq(0 .. (UuidByte - 1))
  BY <1>0, <1>10 DEF A
<1>17. Composed(u, ms, w, tail)
  BY <1>11, <1>12, <1>13, <1>14, <1>16 DEF Composed
<1> QED
  BY <1>15, <1>17

(* What the accessors read from a composed identifier. *)
LEMMA AccessorsRead ==
  ASSUME NEW ms, NEW w, NEW tail, Given(ms, w, tail), NEW u, Composed(u, ms, w, tail)
  PROVE  /\ DOMAIN u = 1 .. Uuidv7!Size /\ Uuidv7!UnixMs(u) = ms
         /\ Uuidv7!VersionOf(u) = Version /\ Uuidv7!VariantOf(u) = Variant
<1>0. /\ ms \in Nat /\ w \in Nat /\ tail \in [1 .. RandBytes -> 0 .. (UuidByte - 1)]
      /\ ms < Power(UuidByte, MsBytes)
      /\ UuidByte \in Nat \ {0} /\ UuidByte \in Nat /\ MsBytes \in Nat /\ RandBytes \in Nat
      /\ RandBytes >= 1 /\ Uuidv7!Size = MsBytes + 2 + RandBytes
  BY Uuidv7Widths DEF Given
<1>1. u \in Seq(0 .. (UuidByte - 1)) /\ Len(u) = Uuidv7!Size
  BY DEF Composed
<1>2. DOMAIN u = 1 .. Uuidv7!Size
  BY <1>1
<1>3. PICK s : s = SubSeq(u, 1, MsBytes)
  OBVIOUS
<1>4. s \in Seq(Nat) /\ Len(s) = MsBytes /\ \A i \in 1 .. MsBytes : s[i] = u[i]
  <2>1. u \in Seq(Nat) /\ MsBytes <= Len(u)
    BY <1>0, <1>1
  <2>2. ASSUME NEW t \in Seq(Nat), NEW m \in Nat, m <= Len(t)
        PROVE  /\ SubSeq(t, 1, m) \in Seq(Nat) /\ Len(SubSeq(t, 1, m)) = m
               /\ \A i \in 1 .. m : SubSeq(t, 1, m)[i] = t[i]
    BY <2>2
  <2> QED
    BY <1>0, <1>3, <2>1, <2>2
<1>5. \A i \in 1 .. MsBytes : s[i] = (ms \div Power(UuidByte, MsBytes - i)) % UuidByte
  BY <1>4 DEF Composed
<1>6. Value(s, UuidByte) = ms
  BY <1>0, <1>4, <1>5, ValueOfDigits
<1>7. Uuidv7!UnixMs(u) = ms
  BY <1>3, <1>6, Uuidv7Numerals DEF Uuidv7!UnixMs
<1>8. u[MsBytes + 1] = VerByte(w) /\ u[MsBytes + 3] = VarByte(tail)
  BY DEF Composed
<1>9. VerByte(w) \div Uuidv7!VerLow = Version /\ VarByte(tail) \div Uuidv7!VarLow = Variant
  BY <1>0, FieldBytes
<1>10. Uuidv7!VersionOf(u) = Version /\ Uuidv7!VariantOf(u) = Variant
  BY <1>8, <1>9 DEF Uuidv7!VersionOf, Uuidv7!VariantOf
<1> QED
  BY <1>2, <1>7, <1>10

(* A sequence of length m is a function on 1 .. m. *)
LEMMA SequenceAs ==
  ASSUME NEW A, NEW m, NEW s \in Seq(A), Len(s) = m
  PROVE  s \in [1 .. m -> A]
  OBVIOUS

(* The arguments of a call that is not refused. *)
LEMMA CallGiven ==
  ASSUME NEW ms \in Times, NEW w \in Words, NEW tail \in Tails, Uuidv7!InRange(ms)
  PROVE  Given(ms, w, tail)
<1>1. ms \in Int /\ w \in 0 .. (UuidByte * UuidByte - 1) /\ tail \in [1 .. RandBytes -> 0 .. (UuidByte - 1)]
  BY Uuidv7Widths
<1>2. w \in Nat
  BY <1>1
<1>3. PICK p : p = Power(UuidByte, MsBytes)
  OBVIOUS
<1>4. p \in Nat
  BY <1>3, Uuidv7Widths, PowerStep
<1>5. 0 <= ms /\ ms <= p - 1
  BY <1>3, Uuidv7Numerals DEF Uuidv7!InRange, Uuidv7!MaxMs
<1>6. ms \in Nat /\ ms < p
  BY <1>1, <1>4, <1>5
<1> QED
  BY <1>1, <1>2, <1>3, <1>6 DEF Given

(* A call that succeeds composes what it was asked for. *)
LEMMA Uuidv7MakeKeeps ==
  ASSUME NEW ms \in Times, NEW w \in Words, NEW tail \in Tails, Uuidv7!InRange(ms),
         Uuidv7!Make(ms, w, tail)
  PROVE  Uuidv7!LayoutInv'
<1>1. uuid' = Uuidv7!Compose(ms, w, tail) /\ uuid_ret' = "OK" /\ parts' = <<ms, w, tail>>
  BY DEF Uuidv7!Make
<1>2. PICK u : u = Uuidv7!Compose(ms, w, tail)
  OBVIOUS
<1>3. Composed(u, ms, w, tail)
  BY <1>2, CallGiven, ComposeIs
<1>4. u \in [1 .. Uuidv7!Size -> 0 .. (UuidByte - 1)]
  BY <1>3, SequenceAs DEF Composed
<1>5. parts'[1] = ms /\ parts'[2] = w /\ parts'[3] = tail /\ parts' \in Times \X Words \X Tails
  BY <1>1
<1>6. Uuidv7!TypeOK'
  BY <1>1, <1>2, <1>4, <1>5 DEF Uuidv7!TypeOK
<1> QED
  BY <1>1, <1>5, <1>6 DEF Uuidv7!LayoutInv

(* A refused call leaves the caller's identifier alone. *)
LEMMA Uuidv7RefuseKeeps ==
  ASSUME Uuidv7!LayoutInv, NEW s \in {"ERR_TIME_RANGE", "ERR_RNG", "ERR_SIZE"}, Uuidv7!Refuse(s)
  PROVE  Uuidv7!LayoutInv'
<1>1. uuid_ret' = s /\ uuid' = uuid /\ parts' = parts
  BY DEF Uuidv7!Refuse
<1> QED
  BY <1>1 DEF Uuidv7!LayoutInv, Uuidv7!TypeOK

(* chronoid_uuidv7_from_bytes. *)
LEMMA Uuidv7FromBytesKeeps ==
  ASSUME Uuidv7!LayoutInv, NEW image \in UuidImages, Uuidv7!FromBytes(image)
  PROVE  Uuidv7!LayoutInv'
<1>1. CASE Len(image) # Uuidv7!Size
  BY <1>1, Uuidv7RefuseKeeps DEF Uuidv7!FromBytes
<1>2. CASE Len(image) = Uuidv7!Size
  <2>1. uuid' = image /\ uuid_ret' = "OK" /\ parts' = Uuidv7!NoParts
    BY <1>2 DEF Uuidv7!FromBytes
  <2>2. image \in Seq(0 .. (UuidByte - 1))
    BY Uuidv7Widths
  <2>3. image \in [1 .. Uuidv7!Size -> 0 .. (UuidByte - 1)]
    BY <1>2, <2>2, SequenceAs
  <2> QED
    BY <2>1, <2>3 DEF Uuidv7!LayoutInv, Uuidv7!TypeOK
<1> QED
  BY <1>1, <1>2

(* Every constructor keeps what the identifier was asked to hold. *)
LEMMA Uuidv7StepKeeps == Uuidv7!LayoutInv /\ Uuidv7!Next => Uuidv7!LayoutInv'
<1> SUFFICES ASSUME Uuidv7!LayoutInv, Uuidv7!Next PROVE Uuidv7!LayoutInv'
  OBVIOUS
<1>1. ASSUME NEW ms \in Times, NEW w \in Words, NEW tail \in Tails, Uuidv7!FromParts(ms, w, tail)
      PROVE  Uuidv7!LayoutInv'
  BY <1>1, Uuidv7MakeKeeps, Uuidv7RefuseKeeps DEF Uuidv7!FromParts
<1>2. ASSUME NEW ms \in Times, NEW w \in Words, NEW tail \in Tails, Uuidv7!SequenceEmit(ms, w, tail)
      PROVE  Uuidv7!LayoutInv'
  BY <1>2, Uuidv7MakeKeeps DEF Uuidv7!SequenceEmit
<1>3. ASSUME NEW ms \in Times, Uuidv7!NewWithTime(ms) PROVE Uuidv7!LayoutInv'
  BY <1>3, Uuidv7MakeKeeps, Uuidv7RefuseKeeps DEF Uuidv7!NewWithTime
<1>4. ASSUME NEW ms \in Times, Uuidv7!NewWithTimeRngFails(ms) PROVE Uuidv7!LayoutInv'
  BY <1>4, Uuidv7RefuseKeeps DEF Uuidv7!NewWithTimeRngFails
<1>5. ASSUME NEW image \in UuidImages, Uuidv7!FromBytes(image) PROVE Uuidv7!LayoutInv'
  BY <1>5, Uuidv7FromBytesKeeps
<1> QED
  BY <1>1, <1>2, <1>3, <1>4, <1>5 DEF Uuidv7!Next

(* The zero identifier was taken from no parts. *)
LEMMA Uuidv7Init == Uuidv7!Init => Uuidv7!LayoutInv
<1>1. Uuidv7!Size \in Nat /\ 0 \in 0 .. (UuidByte - 1)
  BY Uuidv7Widths
<1> QED
  BY <1>1 DEF Uuidv7!Init, Uuidv7!LayoutInv, Uuidv7!TypeOK, Uuidv7!NoParts

(* A step is one of the constructors' or leaves their state alone. *)
LEMMA Uuidv7Moves == [Next]_vars => Uuidv7!Next \/ UNCHANGED uuid_vars
  BY DEF Next, vars, Base62Step, CharsStep, KsuidStep, HexStep, Uuidv7Step

(* A composed UUIDv7 stays the composition of what it was last asked to    *)
(* hold, refused calls and calls without entropy in between included.      *)
THEOREM Uuidv7Invariance == Spec => []Uuidv7!LayoutInv
<1>1. Init => Uuidv7!LayoutInv
  BY Uuidv7Init DEF Init
<1>2. Uuidv7!LayoutInv /\ UNCHANGED uuid_vars => Uuidv7!LayoutInv'
  BY DEF uuid_vars, Uuidv7!LayoutInv, Uuidv7!TypeOK
<1>3. Uuidv7!LayoutInv /\ [Next]_vars => Uuidv7!LayoutInv'
  BY <1>2, Uuidv7StepKeeps, Uuidv7Moves
<1> QED
  BY <1>1, <1>3, PTL DEF Spec

(* What an identifier was composed of. *)
LEMMA LayoutGives ==
  ASSUME NEW u, NEW p \in Times \X Words \X Tails, Uuidv7!InRange(p[1]),
         u = Uuidv7!Compose(p[1], p[2], p[3])
  PROVE  Given(p[1], p[2], p[3]) /\ Composed(u, p[1], p[2], p[3])
<1>1. p[1] \in Times /\ p[2] \in Words /\ p[3] \in Tails
  OBVIOUS
<1> QED
  BY <1>1, CallGiven, ComposeIs

(* Every composed UUIDv7 has its exact length, reads back its timestamp    *)
(* and carries version and variant, whatever surplus bits rand_a and       *)
(* rand_b came with, for all widths.                                       *)
THEOREM Uuidv7ReadsBack == Spec => []ReadsBack
<1>1. Uuidv7!LayoutInv => ReadsBack
  <2> SUFFICES ASSUME Uuidv7!LayoutInv, parts # Uuidv7!NoParts
               PROVE  /\ DOMAIN uuid = 1 .. Uuidv7!Size /\ Uuidv7!UnixMs(uuid) = parts[1]
                      /\ Uuidv7!VersionOf(uuid) = Version /\ Uuidv7!VariantOf(uuid) = Variant
    BY DEF ReadsBack, Uuidv7!ReadsBack, Uuidv7!LayoutInv
  <2>1. parts \in Times \X Words \X Tails
    BY DEF Uuidv7!LayoutInv, Uuidv7!TypeOK
  <2>2. Given(parts[1], parts[2], parts[3]) /\ Composed(uuid, parts[1], parts[2], parts[3])
    BY <2>1, LayoutGives DEF Uuidv7!LayoutInv
  <2> QED
    BY <2>2, AccessorsRead
<1> QED
  BY <1>1, Uuidv7Invariance, PTL

-----------------------------------------------------------------------------
(* The order of UUIDv7 identifiers (Uuidv7Layout). *)

(* The part of a word below l * b, digit by digit. *)
LEMMA LowPart ==
  ASSUME NEW w \in Nat, NEW l \in Nat \ {0}, NEW b \in Nat \ {0}
  PROVE  /\ l * b \in Nat \ {0}
         /\ w % (l * b) = ((w \div b) % l) * b + (w % b)
<1>1. PICK y, z : y = w \div b /\ z = w % b
  OBVIOUS
<1>2. y \in Nat /\ z \in Nat /\ z < b /\ w = y * b + z
  BY <1>1, DivisionFacts
<1>3. PICK u, v : u = y \div l /\ v = y % l
  OBVIOUS
<1>4. u \in Nat /\ v \in Nat /\ v < l /\ y = u * l + v
  BY <1>2, <1>3, DivisionFacts
<1>5. l * b \in Nat \ {0}
  OBVIOUS
<1>6. v * b + z \in Nat /\ v * b + z < l * b
  BY <1>2, <1>4, NextDigit
<1>7. w = u * (l * b) + (v * b + z)
  BY <1>2, <1>4
<1>8. w % (l * b) = v * b + z
  <2>1. PICK m, e : m = l * b /\ e = v * b + z
    OBVIOUS
  <2>2. m \in Nat \ {0} /\ e \in Nat /\ e < m /\ w = u * m + e /\ u \in Nat
    BY <1>4, <1>5, <1>6, <1>7, <2>1
  <2>3. w % m = e
    BY <2>2, DivStep
  <2> QED
    BY <2>1, <2>3
<1> QED
  BY <1>1, <1>3, <1>5, <1>8

(* The first digit of the key: timestamp and rand_a. *)
SpanA == Uuidv7!VerLow * UuidByte
HighOf(w) == (w \div UuidByte) % Uuidv7!VerLow
LowOf(w) == w % UuidByte
HeadOf(ms, w) == ms * SpanA + (w % SpanA)

(* The first digit of the key, byte by byte. *)
LEMMA HeadIs ==
  ASSUME NEW ms \in Nat, NEW w \in Nat
  PROVE  /\ HeadOf(ms, w) = ms * SpanA + (HighOf(w) * UuidByte + LowOf(w))
         /\ HighOf(w) \in Nat /\ LowOf(w) \in Nat /\ LowOf(w) <= UuidByte - 1
         /\ HighOf(w) * UuidByte + LowOf(w) \in Nat
         /\ HighOf(w) * UuidByte + LowOf(w) <= SpanA - 1
         /\ SpanA \in Nat /\ HeadOf(ms, w) \in Nat
<1>0. UuidByte \in Nat \ {0} /\ UuidByte \in Nat /\ Uuidv7!VerLow \in Nat \ {0}
  BY Uuidv7Widths
<1>1. SpanA \in Nat \ {0} /\ w % SpanA = HighOf(w) * UuidByte + LowOf(w)
  BY <1>0, LowPart DEF SpanA, HighOf, LowOf
<1>2. PICK x, h, l : x = w % SpanA /\ h = HighOf(w) /\ l = LowOf(w)
  OBVIOUS
<1>3. x \in Nat /\ x < SpanA
  BY <1>1, <1>2, DivisionFacts
<1>4. l \in Nat /\ l < UuidByte
  BY <1>0, <1>2, DivisionFacts DEF LowOf
<1>5. h \in Nat
  <2>1. w \div UuidByte \in Nat
    BY <1>0, DivisionFacts
  <2> QED
    BY <1>0, <1>2, <2>1, DivisionFacts DEF HighOf
<1>6. SpanA \in Nat /\ x <= SpanA - 1 /\ l <= UuidByte - 1
  BY <1>0, <1>1, <1>3, <1>4
<1>7. HeadOf(ms, w) = ms * SpanA + x /\ x = h * UuidByte + l
  BY <1>1, <1>2 DEF HeadOf
<1>8. ms * SpanA + x \in Nat
  BY <1>3, <1>6
<1> QED
  BY <1>2, <1>3, <1>4, <1>5, <1>6, <1>7, <1>8

(* It is ordered by the timestamp, then by the two bytes of rand_a. *)
LEMMA HeadOrder ==
  ASSUME NEW i \in Nat, NEW j \in Nat, NEW w \in Nat, NEW z \in Nat,
         \/ i < j
         \/ i = j /\ HighOf(w) < HighOf(z)
         \/ i = j /\ HighOf(w) = HighOf(z) /\ LowOf(w) < LowOf(z)
  PROVE  HeadOf(i, w) < HeadOf(j, z)
<1>0. UuidByte \in Nat
  BY Uuidv7Widths
<1>1. PICK h, l, g, k, s : /\ h = HighOf(w) /\ l = LowOf(w) /\ g = HighOf(z) /\ k = LowOf(z)
                           /\ s = SpanA
  OBVIOUS
<1>2. PICK x, y : x = h * UuidByte + l /\ y = g * UuidByte + k
  OBVIOUS
<1>3. /\ HeadOf(i, w) = i * s + x /\ h \in Nat /\ l \in Nat /\ l <= UuidByte - 1 /\ x \in Nat
      /\ x <= s - 1 /\ s \in Nat
  BY <1>1, <1>2, HeadIs
<1>4. HeadOf(j, z) = j * s + y /\ g \in Nat /\ k \in Nat /\ y \in Nat
  BY <1>1, <1>2, HeadIs
<1>5. CASE i < j
  <2>1. i * s + x < j * s
    BY <1>3, <1>5, NextDigit
  <2>2. j * s \in Nat /\ i * s \in Nat
    BY <1>3
  <2> QED
    BY <1>3, <1>4, <2>1, <2>2
<1>6. CASE i = j /\ x < y
  <2>1. i * s \in Nat
    BY <1>3
  <2> QED
    BY <1>3, <1>4, <1>6, <2>1
<1>7. CASE i = j /\ h < g
  <2>1. h * UuidByte + l < g * UuidByte
    BY <1>0, <1>3, <1>4, <1>7, NextDigit
  <2>2. g * UuidByte \in Nat /\ h * UuidByte \in Nat
    BY <1>0, <1>3, <1>4
  <2>3. x < y
    BY <1>2, <1>3, <1>4, <2>1, <2>2
  <2> QED
    BY <1>6, <1>7, <2>3
<1>8. CASE i = j /\ h = g /\ l < k
  <2>1. h * UuidByte \in Nat
    BY <1>0, <1>3
  <2>2. x < y
    BY <1>2, <1>3, <1>4, <1>8, <2>1
  <2> QED
    BY <1>6, <1>8, <2>2
<1> QED
  BY <1>1, <1>5, <1>7, <1>8

(* The digits of the key. *)
KeyDigits(ms, w, tail) == << HeadOf(ms, w), tail[1] % Uuidv7!VarLow >> \o Tail(tail)

(* s are the digits of the key, place by place. *)
KeyOf(s, ms, w, tail) ==
  /\ s \in Seq(Nat) /\ Len(s) = RandBytes + 1
  /\ s[1] = HeadOf(ms, w) /\ s[2] = tail[1] % Uuidv7!VarLow
  /\ \A k \in 2 .. RandBytes : s[1 + k] = tail[k]
  /\ \A i \in 2 .. (RandBytes + 1) : s[i] <= UuidByte - 1

(* They are. *)
LEMMA KeyDigitsAre ==
  ASSUME NEW ms, NEW w, NEW tail, Given(ms, w, tail)
  PROVE  KeyOf(KeyDigits(ms, w, tail), ms, w, tail)
<1>0. /\ ms \in Nat /\ w \in Nat /\ tail \in [1 .. RandBytes -> 0 .. (UuidByte - 1)]
      /\ UuidByte \in Nat \ {0} /\ UuidByte \in Nat /\ RandBytes \in Nat /\ RandBytes >= 1
      /\ Uuidv7!VarLow \in Nat \ {0}
  BY Uuidv7Widths DEF Given
<1>1. tail \in Seq(0 .. (UuidByte - 1)) /\ Len(tail) = RandBytes
  BY <1>0, AsSequence
<1>2. tail \in Seq(Nat)
  BY <1>0, <1>1
<1>3. PICK h, x, r, s : /\ h = HeadOf(ms, w) /\ x = tail[1] % Uuidv7!VarLow /\ r = Tail(tail)
                        /\ s = <<h, x>> \o r
  OBVIOUS
<1>4. h \in Nat
  BY <1>0, <1>3, HeadIs
<1>5. x \in Nat /\ x <= UuidByte - 1
  <2>1. x \in Nat /\ x < Uuidv7!VarLow
    BY <1>0, <1>3, FieldBytes
  <2>2. PICK l, v : l = Uuidv7!VarLow /\ v = VarSpan
    OBVIOUS
  <2>3. l \in Nat /\ UuidByte = l * v /\ v \in Nat \ {0}
    BY <2>2, Uuidv7Widths DEF Field
  <2>4. l <= l * v
    <3>1. 1 <= v /\ v \in Nat
      BY <2>3
    <3>2. 1 * l <= v * l
      BY <2>3, <3>1, ProductOrder
    <3>3. 1 * l = l /\ v * l = l * v
      BY <2>3
    <3> QED
      BY <3>2, <3>3
  <2> QED
    BY <1>0, <2>1, <2>2, <2>3, <2>4
<1>6. /\ r \in Seq(Nat) /\ Len(r) = RandBytes - 1
      /\ \A k \in 1 .. (RandBytes - 1) : r[k] = tail[k + 1]
  <2>1. ASSUME NEW A, NEW t \in Seq(A), Len(t) >= 1
        PROVE  /\ Tail(t) \in Seq(A) /\ Len(Tail(t)) = Len(t) - 1
               /\ \A k \in 1 .. (Len(t) - 1) : Tail(t)[k] = t[k + 1]
    BY <2>1
  <2>2. tail \in Seq(Nat) /\ Len(tail) >= 1 /\ Len(tail) - 1 = RandBytes - 1
    BY <1>0, <1>1, <1>2
  <2> QED
    BY <1>3, <2>1, <2>2
<1>7. /\ <<h, x>> \in Seq(Nat) /\ Len(<<h, x>>) = 2 /\ <<h, x>>[1] = h /\ <<h, x>>[2] = x
  BY <1>4, <1>5
<1>8. PICK y : y = <<h, x>>
  OBVIOUS
<1>9. /\ s \in Seq(Nat) /\ Len(s) = Len(y) + Len(r) /\ \A k \in 1 .. Len(y) : s[k] = y[k]
      /\ \A k \in 1 .. Len(r) : s[Len(y) + k] = r[k]
  <2>1. y \in Seq(Nat) /\ r \in Seq(Nat)
    BY <1>6, <1>7, <1>8
  <2>2. s = y \o r
    BY <1>3, <1>8
  <2> QED
    BY <2>1, <2>2, Concatenated
<1>10. Len(y) = 2 /\ y[1] = h /\ y[2] = x
  BY <1>7, <1>8
<1>11. s[1] = h /\ s[2] = x /\ Len(s) = RandBytes + 1
  BY <1>0, <1>6, <1>9, <1>10
<1>12. ASSUME NEW k \in 2 .. RandBytes PROVE s[1 + k] = tail[k]
  <2>1. PICK i : i = k - 1
    OBVIOUS
  <2>2. i \in 1 .. (RandBytes - 1) /\ i + 1 = k /\ 2 + i = 1 + k
    BY <1>0, <2>1
  <2>3. s[2 + i] = r[i] /\ r[i] = tail[i + 1]
    BY <1>6, <1>9, <1>10, <2>2
  <2> QED
    BY <2>2, <2>3
<1>13. ASSUME NEW i \in 2 .. (RandBytes + 1) PROVE s[i] <= UuidByte - 1
  <2>1. CASE i = 2
    BY <1>5, <1>11, <2>1
  <2>2. CASE i # 2
    <3>1. PICK k : k = i - 1
      OBVIOUS
    <3>2. k \in 2 .. RandBytes /\ 1 + k = i /\ k \in 1 .. RandBytes
      BY <1>0, <2>2, <3>1
    <3>3. s[1 + k] = tail[k] /\ tail[k] \in 0 .. (UuidByte - 1)
      BY <1>0, <1>12, <3>2
    <3> QED
      BY <1>0, <3>2, <3>3
  <2> QED
    BY <2>1, <2>2
<1>14. KeyOf(s, ms, w, tail)
  BY <1>3, <1>9, <1>11, <1>12, <1>13 DEF KeyOf
<1> QED
  BY <1>3, <1>14 DEF KeyDigits

(* The first place where two identifiers differ. *)
FirstApart(u, v, m) ==
  m \in 1 .. Uuidv7!Size /\ u[m] # v[m] /\ \A j \in 1 .. (m - 1) : u[j] = v[j]

(* Two identifiers are the same, or differ first at some byte. *)
LEMMA ApartOrSame ==
  ASSUME NEW u, NEW v
  PROVE  \/ \A i \in 1 .. Uuidv7!Size : u[i] = v[i]
         \/ \E m : FirstApart(u, v, m)
<1>0. Uuidv7!Size \in Nat
  BY Uuidv7Widths
<1>1. SUFFICES ASSUME NEW i \in 1 .. Uuidv7!Size, u[i] # v[i] PROVE \E m : FirstApart(u, v, m)
  OBVIOUS
<1>2. PICK D : D = {j \in 1 .. Uuidv7!Size : u[j] # v[j]}
  OBVIOUS
<1>3. D \in SUBSET Nat /\ D # {}
  BY <1>0, <1>1, <1>2
<1>4. PICK m \in D : \A y \in D : m <= y
  BY <1>3, LeastExists
<1>5. m \in 1 .. Uuidv7!Size /\ m \in Nat /\ u[m] # v[m]
  BY <1>0, <1>2, <1>4
<1>6. ASSUME NEW j \in 1 .. (m - 1) PROVE u[j] = v[j]
  <2>1. j \in 1 .. Uuidv7!Size /\ ~(m <= j)
    BY <1>0, <1>5
  <2> QED
    BY <1>2, <1>4, <2>1
<1> QED
  BY <1>5, <1>6 DEF FirstApart

(* memcmp decides at the first difference. *)
LEMMA CompareAt ==
  ASSUME NEW u, NEW v, NEW m, FirstApart(u, v, m)
  PROVE  Uuidv7!Compare(u, v) = IF u[m] < v[m] THEN -1 ELSE 1
<1>0. Uuidv7!Size \in Nat /\ m \in Nat /\ m \in 1 .. Uuidv7!Size /\ u[m] # v[m]
      /\ \A j \in 1 .. (m - 1) : u[j] = v[j]
  BY Uuidv7Widths DEF FirstApart
<1>1. PICK D : D = {i \in 1 .. Uuidv7!Size : u[i] # v[i]}
  OBVIOUS
<1>2. m \in D
  BY <1>0, <1>1
<1>3. ASSUME NEW j \in D PROVE m <= j /\ j \in Nat
  <2>1. j \in 1 .. Uuidv7!Size /\ u[j] # v[j]
    BY <1>1
  <2>2. j \in Nat
    BY <1>0, <2>1
  <2>3. j < m => j \in 1 .. (m - 1)
    BY <1>0, <2>1, <2>2
  <2> QED
    BY <1>0, <2>1, <2>2, <2>3
<1>4. PICK x : x = Uuidv7!Min(D)
  OBVIOUS
<1>5. x \in D /\ \A y \in D : x <= y
  <2>1. \E z \in D : \A y \in D : z <= y
    BY <1>2, <1>3
  <2> QED
    BY <1>4, <2>1 DEF Uuidv7!Min
<1>6. x <= m /\ m <= x /\ x \in Nat
  BY <1>2, <1>3, <1>5
<1>7. x = m
  BY <1>0, <1>6
<1> QED
  BY <1>1, <1>2, <1>4, <1>7 DEF Uuidv7!Compare

(* memcmp finds equal bytes equal. *)
LEMMA CompareSame ==
  ASSUME NEW u, NEW v, \A i \in 1 .. Uuidv7!Size : u[i] = v[i]
  PROVE  Uuidv7!Compare(u, v) = 0
<1>1. {i \in 1 .. Uuidv7!Size : u[i] # v[i]} = {}
  OBVIOUS
<1> QED
  BY <1>1 DEF Uuidv7!Compare

(* The timestamp's bytes as a numeral. *)
LEMMA TimeNumeral ==
  ASSUME NEW ms, NEW w, NEW tail, Given(ms, w, tail), NEW u, Composed(u, ms, w, tail)
  PROVE  \E s \in Seq(Nat) : /\ Len(s) = MsBytes /\ Value(s, UuidByte) = ms
                             /\ \A i \in 1 .. MsBytes : s[i] = u[i] /\ s[i] <= UuidByte - 1
<1>0. /\ ms \in Nat /\ ms < Power(UuidByte, MsBytes)
      /\ UuidByte \in Nat \ {0} /\ UuidByte \in Nat /\ MsBytes \in Nat /\ RandBytes \in Nat
      /\ Uuidv7!Size = MsBytes + 2 + RandBytes
  BY Uuidv7Widths DEF Given
<1>1. u \in Seq(0 .. (UuidByte - 1)) /\ Len(u) = Uuidv7!Size
  BY DEF Composed
<1>2. PICK s : s = SubSeq(u, 1, MsBytes)
  OBVIOUS
<1>3. ASSUME NEW A, NEW t \in Seq(A), NEW m \in Nat, m <= Len(t)
      PROVE  /\ SubSeq(t, 1, m) \in Seq(A) /\ Len(SubSeq(t, 1, m)) = m
             /\ \A i \in 1 .. m : SubSeq(t, 1, m)[i] = t[i]
  BY <1>3
<1>4. MsBytes <= Len(u)
  BY <1>0, <1>1
<1>5. s \in Seq(0 .. (UuidByte - 1)) /\ Len(s) = MsBytes /\ \A i \in 1 .. MsBytes : s[i] = u[i]
  BY <1>0, <1>1, <1>2, <1>3, <1>4
<1>6. s \in Seq(Nat)
  BY <1>0, <1>5
<1>7. \A i \in 1 .. MsBytes : s[i] = (ms \div Power(UuidByte, MsBytes - i)) % UuidByte
  BY <1>5 DEF Composed
<1>8. Value(s, UuidByte) = ms
  BY <1>0, <1>5, <1>6, <1>7, ValueOfDigits
<1>9. \A i \in 1 .. MsBytes : s[i] <= UuidByte - 1
  <2>1. ASSUME NEW A, NEW t \in Seq(A), NEW k \in 1 .. Len(t) PROVE t[k] \in A
    OBVIOUS
  <2>2. ASSUME NEW i \in 1 .. MsBytes PROVE s[i] \in 0 .. (UuidByte - 1)
    BY <1>5, <2>1
  <2> QED
    BY <1>0, <2>2
<1> QED
  BY <1>5, <1>6, <1>8, <1>9

(* The bytes of the timestamp order identifiers as the timestamp does. *)
LEMMA TimeOrder ==
  ASSUME NEW i1, NEW w1, NEW t1, Given(i1, w1, t1), NEW u, Composed(u, i1, w1, t1),
         NEW i2, NEW w2, NEW t2, Given(i2, w2, t2), NEW v, Composed(v, i2, w2, t2)
  PROVE  /\ (\A i \in 1 .. MsBytes : u[i] = v[i]) => i1 = i2
         /\ \A m \in 1 .. MsBytes : FirstApart(u, v, m) /\ u[m] < v[m] => i1 < i2
<1>0. MsBytes \in Nat /\ UuidByte \in Nat \ {0} /\ UuidByte \in Nat
  BY Uuidv7Widths
<1>1. PICK s \in Seq(Nat) : /\ Len(s) = MsBytes /\ Value(s, UuidByte) = i1
                            /\ \A i \in 1 .. MsBytes : s[i] = u[i] /\ s[i] <= UuidByte - 1
  BY TimeNumeral
<1>2. PICK t \in Seq(Nat) : /\ Len(t) = MsBytes /\ Value(t, UuidByte) = i2
                            /\ \A i \in 1 .. MsBytes : t[i] = v[i] /\ t[i] <= UuidByte - 1
  BY TimeNumeral
<1>3. ASSUME \A i \in 1 .. MsBytes : u[i] = v[i] PROVE i1 = i2
  <2>1. \A i \in 1 .. MsBytes : s[i] = t[i]
    BY <1>1, <1>2, <1>3
  <2>2. Prefixes(s, UuidByte)[MsBytes] = Prefixes(t, UuidByte)[MsBytes]
    BY <1>0, <1>1, <1>2, <2>1, PrefixesAgree
  <2> QED
    BY <1>1, <1>2, <2>2 DEF Value
<1>4. ASSUME NEW m \in 1 .. MsBytes, FirstApart(u, v, m), u[m] < v[m] PROVE i1 < i2
  <2>1. \A i \in 1 .. (m - 1) : u[i] = v[i]
    BY <1>4 DEF FirstApart
  <2>2. \A i \in 1 .. (m - 1) : s[i] = t[i]
    <3>1. ASSUME NEW i \in 1 .. (m - 1) PROVE s[i] = t[i]
      <4>1. i \in 1 .. MsBytes
        BY <1>0
      <4> QED
        BY <1>1, <1>2, <2>1, <4>1
    <3> QED
      BY <3>1
  <2>3. s[m] < t[m] /\ m \in 1 .. Len(s)
    BY <1>1, <1>2, <1>4
  <2>4. \A i \in (m + 1) .. Len(s) : s[i] <= UuidByte - 1
    <3>1. ASSUME NEW i \in (m + 1) .. Len(s) PROVE s[i] <= UuidByte - 1
      <4>1. i \in 1 .. MsBytes
        BY <1>0, <1>1
      <4> QED
        BY <1>1, <4>1
    <3> QED
      BY <3>1
  <2>5. Value(s, UuidByte) < Value(t, UuidByte)
    BY <1>0, <1>1, <1>2, <2>2, <2>3, <2>4, LowerDigit
  <2> QED
    BY <1>1, <1>2, <2>5
<1> QED
  BY <1>3, <1>4

(* What the bytes after the timestamp tell. *)
LEMMA FieldsOrder ==
  ASSUME NEW i1, NEW w1, NEW t1, Given(i1, w1, t1), NEW u, Composed(u, i1, w1, t1),
         NEW i2, NEW w2, NEW t2, Given(i2, w2, t2), NEW v, Composed(v, i2, w2, t2)
  PROVE  /\ u[MsBytes + 1] = v[MsBytes + 1] => HighOf(w1) = HighOf(w2)
         /\ u[MsBytes + 1] < v[MsBytes + 1] => HighOf(w1) < HighOf(w2)
         /\ u[MsBytes + 2] = LowOf(w1) /\ v[MsBytes + 2] = LowOf(w2)
         /\ u[MsBytes + 3] = v[MsBytes + 3] => t1[1] % Uuidv7!VarLow = t2[1] % Uuidv7!VarLow
         /\ u[MsBytes + 3] < v[MsBytes + 3] => t1[1] % Uuidv7!VarLow < t2[1] % Uuidv7!VarLow
<1>0. /\ w1 \in Nat /\ t1 \in [1 .. RandBytes -> 0 .. (UuidByte - 1)]
      /\ w2 \in Nat /\ t2 \in [1 .. RandBytes -> 0 .. (UuidByte - 1)]
  BY DEF Given
<1>1. /\ u[MsBytes + 1] = VerByte(w1) /\ u[MsBytes + 2] = w1 % UuidByte /\ u[MsBytes + 3] = VarByte(t1)
      /\ v[MsBytes + 1] = VerByte(w2) /\ v[MsBytes + 2] = w2 % UuidByte /\ v[MsBytes + 3] = VarByte(t2)
  BY DEF Composed
<1>2. PICK a, b, h, g, x, y :
        /\ a = Version * Uuidv7!VerLow /\ b = Variant * Uuidv7!VarLow
        /\ h = HighOf(w1) /\ g = HighOf(w2)
        /\ x = t1[1] % Uuidv7!VarLow /\ y = t2[1] % Uuidv7!VarLow
  OBVIOUS
<1>3. a \in Nat /\ b \in Nat
  <2>1. Version \in Nat /\ Variant \in Nat /\ Uuidv7!VerLow \in Nat /\ Uuidv7!VarLow \in Nat
    BY Uuidv7Widths
  <2> QED
    BY <1>2, <2>1
<1>4. h \in Nat /\ x \in Nat
  BY <1>0, <1>2, FieldBytes DEF HighOf
<1>5. g \in Nat /\ y \in Nat
  BY <1>0, <1>2, FieldBytes DEF HighOf
<1>6. VerByte(w1) = a + h /\ VerByte(w2) = a + g /\ VarByte(t1) = b + x /\ VarByte(t2) = b + y
  BY <1>2 DEF VerByte, VarByte, HighOf
<1>7. /\ u[MsBytes + 1] = v[MsBytes + 1] => h = g
      /\ u[MsBytes + 1] < v[MsBytes + 1] => h < g
      /\ u[MsBytes + 3] = v[MsBytes + 3] => x = y
      /\ u[MsBytes + 3] < v[MsBytes + 3] => x < y
  <2>1. /\ u[MsBytes + 1] = a + h /\ v[MsBytes + 1] = a + g
        /\ u[MsBytes + 3] = b + x /\ v[MsBytes + 3] = b + y
    BY <1>1, <1>6
  <2> QED
    BY <1>3, <1>4, <1>5, <2>1
<1>8. u[MsBytes + 2] = LowOf(w1) /\ v[MsBytes + 2] = LowOf(w2)
  BY <1>1 DEF LowOf
<1> QED
  BY <1>2, <1>7, <1>8

(* The smaller byte at the first difference means the smaller key. *)
LEMMA SmallerKey ==
  ASSUME NEW i1, NEW w1, NEW t1, Given(i1, w1, t1), NEW u, Composed(u, i1, w1, t1),
         NEW i2, NEW w2, NEW t2, Given(i2, w2, t2), NEW v, Composed(v, i2, w2, t2),
         NEW s, KeyOf(s, i1, w1, t1), NEW t, KeyOf(t, i2, w2, t2),
         NEW m, FirstApart(u, v, m), u[m] < v[m]
  PROVE  Value(s, UuidByte) < Value(t, UuidByte)
<1>0. /\ MsBytes \in Nat /\ RandBytes \in Nat /\ UuidByte \in Nat \ {0} /\ UuidByte \in Nat
      /\ RandBytes >= 1 /\ Uuidv7!Size = MsBytes + 2 + RandBytes
      /\ m \in 1 .. Uuidv7!Size /\ \A j \in 1 .. (m - 1) : u[j] = v[j]
      /\ i1 \in Nat /\ i2 \in Nat /\ w1 \in Nat /\ w2 \in Nat
  BY Uuidv7Widths DEF FirstApart, Given
<1>1. /\ s \in Seq(Nat) /\ Len(s) = RandBytes + 1 /\ t \in Seq(Nat) /\ Len(t) = RandBytes + 1
      /\ s[1] = HeadOf(i1, w1) /\ t[1] = HeadOf(i2, w2)
      /\ s[2] = t1[1] % Uuidv7!VarLow /\ t[2] = t2[1] % Uuidv7!VarLow
      /\ \A i \in 2 .. (RandBytes + 1) : s[i] <= UuidByte - 1
  BY DEF KeyOf
<1>2. ASSUME NEW c \in 1 .. (RandBytes + 1), \A i \in 1 .. (c - 1) : s[i] = t[i], s[c] < t[c]
      PROVE  Value(s, UuidByte) < Value(t, UuidByte)
  <2>1. ASSUME NEW i \in (c + 1) .. Len(s) PROVE s[i] <= UuidByte - 1
    <3>1. i \in 2 .. (RandBytes + 1)
      BY <1>0, <1>1
    <3> QED
      BY <1>1, <3>1
  <2>2. c \in 1 .. Len(s) /\ Len(t) = Len(s)
    BY <1>1
  <2> QED
    BY <1>0, <1>1, <1>2, <2>1, <2>2, LowerDigit
<1>3. ASSUME HeadOf(i1, w1) < HeadOf(i2, w2) PROVE Value(s, UuidByte) < Value(t, UuidByte)
  <2>1. 1 \in 1 .. (RandBytes + 1) /\ \A i \in 1 .. (1 - 1) : s[i] = t[i]
    BY <1>0
  <2>2. s[1] < t[1]
    BY <1>1, <1>3
  <2> QED
    BY <1>2, <2>1, <2>2
<1>4. CASE m <= MsBytes
  <2>1. m \in 1 .. MsBytes
    BY <1>0, <1>4
  <2>2. i1 < i2
    BY <2>1, TimeOrder
  <2> QED
    BY <1>0, <1>3, <2>2, HeadOrder
<1>5. ASSUME m > MsBytes PROVE i1 = i2
  <2>1. \A i \in 1 .. MsBytes : u[i] = v[i]
    <3>1. ASSUME NEW i \in 1 .. MsBytes PROVE u[i] = v[i]
      <4>1. i \in 1 .. (m - 1)
        BY <1>0, <1>5
      <4> QED
        BY <1>0, <4>1
    <3> QED
      BY <3>1
  <2> QED
    BY <2>1, TimeOrder
<1>6. CASE m = MsBytes + 1
  <2>1. HighOf(w1) < HighOf(w2)
    BY <1>6, FieldsOrder
  <2>2. i1 = i2
    BY <1>0, <1>5, <1>6
  <2> QED
    BY <1>0, <1>3, <2>1, <2>2, HeadOrder
<1>7. ASSUME m > MsBytes + 1 PROVE HighOf(w1) = HighOf(w2)
  <2>1. MsBytes + 1 \in 1 .. (m - 1)
    BY <1>0, <1>7
  <2>2. u[MsBytes + 1] = v[MsBytes + 1]
    BY <1>0, <2>1
  <2> QED
    BY <2>2, FieldsOrder
<1>8. CASE m = MsBytes + 2
  <2>1. LowOf(w1) < LowOf(w2)
    <3>1. u[MsBytes + 2] = LowOf(w1) /\ v[MsBytes + 2] = LowOf(w2)
      BY FieldsOrder
    <3> QED
      BY <1>8, <3>1
  <2>2. i1 = i2 /\ HighOf(w1) = HighOf(w2)
    BY <1>0, <1>5, <1>7, <1>8
  <2> QED
    BY <1>0, <1>3, <2>1, <2>2, HeadOrder
<1>9. CASE m > MsBytes + 2
  <2>1. i1 = i2 /\ HighOf(w1) = HighOf(w2)
    BY <1>0, <1>5, <1>7, <1>9
  <2>2. LowOf(w1) = LowOf(w2)
    <3>1. MsBytes + 2 \in 1 .. (m - 1)
      BY <1>0, <1>9
    <3>2. u[MsBytes + 2] = v[MsBytes + 2]
      BY <1>0, <3>1
    <3> QED
      BY <3>2, FieldsOrder
  <2>3. s[1] = t[1]
    <3>1. /\ HeadOf(i1, w1) = i1 * SpanA + (HighOf(w1) * UuidByte + LowOf(w1))
          /\ HeadOf(i2, w2) = i2 * SpanA + (HighOf(w2) * UuidByte + LowOf(w2))
      BY <1>0, HeadIs
    <3> QED
      BY <1>1, <2>1, <2>2, <3>1
  <2>4. PICK k : k = m - (MsBytes + 2)
    OBVIOUS
  <2>5. k \in 1 .. RandBytes /\ m = MsBytes + 2 + k
    BY <1>0, <1>9, <2>4
  <2>6. CASE k = 1
    <3>1. m = MsBytes + 3
      BY <1>0, <2>5, <2>6
    <3>2. s[2] < t[2]
      BY <1>1, <3>1, FieldsOrder
    <3>3. 2 \in 1 .. (RandBytes + 1) /\ \A i \in 1 .. (2 - 1) : i = 1
      BY <1>0
    <3>4. \A i \in 1 .. (2 - 1) : s[i] = t[i]
      BY <2>3, <3>3
    <3> QED
      BY <1>2, <3>2, <3>3, <3>4
  <2>7. CASE k # 1
    <3>1. k \in 2 .. RandBytes /\ k + 1 \in 1 .. (RandBytes + 1) /\ 1 + k = k + 1 /\ (k + 1) - 1 = k
      BY <1>0, <2>5, <2>7
    <3>2. \A j \in 2 .. RandBytes : /\ s[1 + j] = t1[j] /\ t[1 + j] = t2[j]
                                    /\ u[MsBytes + 2 + j] = t1[j] /\ v[MsBytes + 2 + j] = t2[j]
      BY DEF KeyOf, Composed
    <3>3. s[k + 1] < t[k + 1]
      BY <2>5, <3>1, <3>2
    <3>4. s[2] = t[2]
      <4>1. MsBytes + 3 \in 1 .. (m - 1)
        BY <1>0, <2>5, <3>1
      <4>2. u[MsBytes + 3] = v[MsBytes + 3]
        BY <1>0, <4>1
      <4> QED
        BY <1>1, <4>2, FieldsOrder
    <3>5. ASSUME NEW i \in 1 .. k PROVE s[i] = t[i]
      <4>1. CASE i = 1 \/ i = 2
        BY <2>3, <3>4, <4>1
      <4>2. CASE i # 1 /\ i # 2
        <5>1. PICK j : j = i - 1
          OBVIOUS
        <5>2. j \in 2 .. RandBytes /\ 1 + j = i /\ MsBytes + 2 + j \in 1 .. (m - 1)
          BY <1>0, <2>5, <3>1, <4>2, <5>1
        <5>3. u[MsBytes + 2 + j] = v[MsBytes + 2 + j]
          BY <1>0, <5>2
        <5>4. s[1 + j] = t[1 + j]
          BY <3>2, <5>2, <5>3
        <5> QED
          BY <5>2, <5>4
      <4> QED
        BY <4>1, <4>2
    <3>6. \A i \in 1 .. ((k + 1) - 1) : s[i] = t[i]
      BY <3>1, <3>5
    <3> QED
      BY <1>2, <3>1, <3>3, <3>6
  <2> QED
    BY <2>6, <2>7
<1>10. m <= MsBytes \/ m = MsBytes + 1 \/ m = MsBytes + 2 \/ m > MsBytes + 2
  BY <1>0
<1> QED
  BY <1>4, <1>6, <1>8, <1>9, <1>10

(* Equal bytes have equal keys: what is cut off orders nothing. *)
LEMMA SameKey ==
  ASSUME NEW i1, NEW w1, NEW t1, Given(i1, w1, t1), NEW u, Composed(u, i1, w1, t1),
         NEW i2, NEW w2, NEW t2, Given(i2, w2, t2), NEW v, Composed(v, i2, w2, t2),
         NEW s, KeyOf(s, i1, w1, t1), NEW t, KeyOf(t, i2, w2, t2),
         \A i \in 1 .. Uuidv7!Size : u[i] = v[i]
  PROVE  Value(s, UuidByte) = Value(t, UuidByte)
<1>0. /\ MsBytes \in Nat /\ RandBytes \in Nat /\ UuidByte \in Nat \ {0} /\ UuidByte \in Nat
      /\ RandBytes >= 1 /\ Uuidv7!Size = MsBytes + 2 + RandBytes
      /\ i1 \in Nat /\ i2 \in Nat /\ w1 \in Nat /\ w2 \in Nat
  BY Uuidv7Widths DEF Given
<1>1. /\ s \in Seq(Nat) /\ Len(s) = RandBytes + 1 /\ t \in Seq(Nat) /\ Len(t) = RandBytes + 1
      /\ s[1] = HeadOf(i1, w1) /\ t[1] = HeadOf(i2, w2)
      /\ s[2] = t1[1] % Uuidv7!VarLow /\ t[2] = t2[1] % Uuidv7!VarLow
  BY DEF KeyOf
<1>2. /\ MsBytes + 1 \in 1 .. Uuidv7!Size /\ MsBytes + 2 \in 1 .. Uuidv7!Size
      /\ MsBytes + 3 \in 1 .. Uuidv7!Size /\ \A i \in 1 .. MsBytes : i \in 1 .. Uuidv7!Size
      /\ \A j \in 2 .. RandBytes : MsBytes + 2 + j \in 1 .. Uuidv7!Size
  BY <1>0
<1>3. i1 = i2
  <2>1. \A i \in 1 .. MsBytes : u[i] = v[i]
    BY <1>2
  <2> QED
    BY <2>1, TimeOrder
<1>4. /\ u[MsBytes + 1] = v[MsBytes + 1] /\ u[MsBytes + 2] = v[MsBytes + 2]
      /\ u[MsBytes + 3] = v[MsBytes + 3]
  BY <1>2
<1>5. HighOf(w1) = HighOf(w2)
  BY <1>4, FieldsOrder
<1>6. LowOf(w1) = LowOf(w2)
  BY <1>4, FieldsOrder
<1>7. s[2] = t[2]
  BY <1>1, <1>4, FieldsOrder
<1>8. s[1] = t[1]
  <2>1. /\ HeadOf(i1, w1) = i1 * SpanA + (HighOf(w1) * UuidByte + LowOf(w1))
        /\ HeadOf(i2, w2) = i2 * SpanA + (HighOf(w2) * UuidByte + LowOf(w2))
    BY <1>0, HeadIs
  <2> QED
    BY <1>1, <1>3, <1>5, <1>6, <2>1
<1>9. \A j \in 2 .. RandBytes : s[1 + j] = t[1 + j]
  <2>1. \A j \in 2 .. RandBytes : /\ s[1 + j] = t1[j] /\ t[1 + j] = t2[j]
                                  /\ u[MsBytes + 2 + j] = t1[j] /\ v[MsBytes + 2 + j] = t2[j]
    BY DEF KeyOf, Composed
  <2> QED
    BY <1>2, <2>1
<1>10. \A i \in 1 .. (RandBytes + 1) : s[i] = t[i]
  <2>1. ASSUME NEW i \in 1 .. (RandBytes + 1) PROVE s[i] = t[i]
    <3>1. CASE i = 1 \/ i = 2
      BY <1>7, <1>8, <3>1
    <3>2. CASE i # 1 /\ i # 2
      <4>1. PICK j : j = i - 1
        OBVIOUS
      <4>2. j \in 2 .. RandBytes /\ 1 + j = i
        BY <1>0, <3>2, <4>1
      <4> QED
        BY <1>9, <4>2
    <3> QED
      BY <3>1, <3>2
  <2> QED
    BY <2>1
<1>11. RandBytes + 1 \in Nat /\ RandBytes + 1 <= Len(s) /\ RandBytes + 1 <= Len(t)
  BY <1>0, <1>1
<1>12. Prefixes(s, UuidByte)[RandBytes + 1] = Prefixes(t, UuidByte)[RandBytes + 1]
  BY <1>0, <1>1, <1>10, <1>11, PrefixesAgree
<1> QED
  BY <1>1, <1>12 DEF Value

(* An identifier and what it was composed of. *)
Holding(u, p) == Given(p[1], p[2], p[3]) /\ Composed(u, p[1], p[2], p[3])

(* The key of an identifier is the number of these digits. *)
LEMMA KeyIs ==
  ASSUME NEW p, NEW u, Holding(u, p)
  PROVE  /\ KeyOf(KeyDigits(p[1], p[2], p[3]), p[1], p[2], p[3])
         /\ Uuidv7!Key(p) = Value(KeyDigits(p[1], p[2], p[3]), UuidByte)
         /\ Uuidv7!Key(p) \in Nat
<1>1. KeyOf(KeyDigits(p[1], p[2], p[3]), p[1], p[2], p[3])
  BY KeyDigitsAre DEF Holding
<1>2. Uuidv7!Key(p) = Value(KeyDigits(p[1], p[2], p[3]), UuidByte)
  BY Uuidv7Numerals DEF Uuidv7!Key, KeyDigits, HeadOf, SpanA
<1>3. PICK s : s = KeyDigits(p[1], p[2], p[3])
  OBVIOUS
<1>4. Value(s, UuidByte) \in Nat
  <2>1. s \in Seq(Nat)
    BY <1>1, <1>3 DEF KeyOf
  <2> QED
    BY <2>1, Uuidv7Widths, ValueTyped
<1> QED
  BY <1>1, <1>2, <1>3, <1>4

(* chronoid_uuidv7_compare reports the order of the keys. *)
LEMMA ComparisonIsKeyOrder ==
  ASSUME NEW u, NEW v, NEW p, NEW q, Holding(u, p), Holding(v, q)
  PROVE  /\ Uuidv7!Compare(u, v) = -1 <=> Uuidv7!Key(p) < Uuidv7!Key(q)
         /\ Uuidv7!Compare(u, v) = 1 <=> Uuidv7!Key(p) > Uuidv7!Key(q)
<1>0. Uuidv7!Size \in Nat /\ UuidByte \in Nat
  BY Uuidv7Widths
<1>1. PICK s, t : s = KeyDigits(p[1], p[2], p[3]) /\ t = KeyDigits(q[1], q[2], q[3])
  OBVIOUS
<1>2. /\ KeyOf(s, p[1], p[2], p[3]) /\ KeyOf(t, q[1], q[2], q[3])
      /\ Uuidv7!Key(p) = Value(s, UuidByte) /\ Uuidv7!Key(q) = Value(t, UuidByte)
      /\ Uuidv7!Key(p) \in Nat /\ Uuidv7!Key(q) \in Nat
  BY <1>1, KeyIs
<1>3. /\ Given(p[1], p[2], p[3]) /\ Composed(u, p[1], p[2], p[3])
      /\ Given(q[1], q[2], q[3]) /\ Composed(v, q[1], q[2], q[3])
  BY DEF Holding
<1>4. CASE \A i \in 1 .. Uuidv7!Size : u[i] = v[i]
  <2>1. Value(s, UuidByte) = Value(t, UuidByte)
    BY <1>2, <1>3, <1>4, SameKey
  <2>2. Uuidv7!Compare(u, v) = 0
    BY <1>4, CompareSame
  <2> QED
    BY <1>2, <2>1, <2>2
<1>5. ASSUME NEW m, FirstApart(u, v, m)
      PROVE  /\ Uuidv7!Compare(u, v) = -1 <=> Uuidv7!Key(p) < Uuidv7!Key(q)
             /\ Uuidv7!Compare(u, v) = 1 <=> Uuidv7!Key(p) > Uuidv7!Key(q)
  <2>1. Uuidv7!Compare(u, v) = IF u[m] < v[m] THEN -1 ELSE 1
    BY <1>5, CompareAt
  <2>2. u[m] \in Nat /\ v[m] \in Nat /\ u[m] # v[m]
    <3>1. ASSUME NEW A, NEW r \in Seq(A), NEW k \in 1 .. Len(r) PROVE r[k] \in A
      OBVIOUS
    <3>2. /\ u \in Seq(0 .. (UuidByte - 1)) /\ v \in Seq(0 .. (UuidByte - 1))
          /\ m \in 1 .. Len(u) /\ m \in 1 .. Len(v) /\ u[m] # v[m]
      BY <1>3, <1>5 DEF Composed, FirstApart
    <3>3. u[m] \in 0 .. (UuidByte - 1) /\ v[m] \in 0 .. (UuidByte - 1)
      BY <3>1, <3>2
    <3> QED
      BY <1>0, <3>2, <3>3
  <2>3. CASE u[m] < v[m]
    <3>1. Uuidv7!Key(p) < Uuidv7!Key(q)
      BY <1>2, <1>3, <1>5, <2>3, SmallerKey
    <3>2. Uuidv7!Compare(u, v) = -1
      BY <2>1, <2>3
    <3> QED
      BY <1>2, <3>1, <3>2
  <2>4. CASE v[m] < u[m]
    <3>1. FirstApart(v, u, m)
      BY <1>5 DEF FirstApart
    <3>2. Uuidv7!Key(q) < Uuidv7!Key(p)
      BY <1>2, <1>3, <2>4, <3>1, SmallerKey
    <3>3. ~(u[m] < v[m])
      BY <2>2, <2>4
    <3>4. Uuidv7!Compare(u, v) = 1
      BY <2>1, <3>3
    <3> QED
      BY <1>2, <3>2, <3>4
  <2> QED
    BY <2>2, <2>3, <2>4
<1> QED
  BY <1>4, <1>5, ApartOrSame

(* chronoid_uuidv7_compare orders any two composed identifiers by          *)
(* timestamp, then rand_a, then rand_b, each cut to its field: the order   *)
(* that the sequence's strict monotonicity is about is the order of the    *)
(* bytes.                                                                  *)
THEOREM Uuidv7ComparesByParts == Spec => ComparesByParts
<1>1. ASSUME Uuidv7!LayoutInv, parts # Uuidv7!NoParts PROVE Holding(uuid, parts)
  <2>1. parts \in Times \X Words \X Tails
    BY <1>1 DEF Uuidv7!LayoutInv, Uuidv7!TypeOK
  <2> QED
    BY <1>1, <2>1, LayoutGives DEF Uuidv7!LayoutInv, Holding
<1>2. ASSUME Uuidv7!LayoutInv', parts' # Uuidv7!NoParts PROVE Holding(uuid', parts')
  <2>1. /\ parts' \in Times \X Words \X Tails /\ Uuidv7!InRange(parts'[1])
        /\ uuid' = Uuidv7!Compose(parts'[1], parts'[2], parts'[3])
    BY <1>2 DEF Uuidv7!LayoutInv, Uuidv7!TypeOK
  <2>2. PICK u, p : u = uuid' /\ p = parts'
    OBVIOUS
  <2>3. /\ p \in Times \X Words \X Tails /\ Uuidv7!InRange(p[1])
        /\ u = Uuidv7!Compose(p[1], p[2], p[3])
    BY <2>1, <2>2
  <2>4. Holding(u, p)
    BY <2>3, LayoutGives DEF Holding
  <2> QED
    BY <2>2, <2>4
<1>3. ASSUME Uuidv7!LayoutInv, Uuidv7!LayoutInv', parts # Uuidv7!NoParts, parts' # Uuidv7!NoParts
      PROVE  /\ Uuidv7!Compare(uuid, uuid') = -1 <=> Uuidv7!Key(parts) < Uuidv7!Key(parts')
             /\ Uuidv7!Compare(uuid, uuid') = 1 <=> Uuidv7!Key(parts) > Uuidv7!Key(parts')
  BY <1>1, <1>2, <1>3, ComparisonIsKeyOrder
<1>4. Uuidv7!LayoutInv /\ Uuidv7!LayoutInv' =>
        [parts # Uuidv7!NoParts /\ parts' # Uuidv7!NoParts =>
           LET before == Uuidv7!Key(parts)
               after  == Uuidv7!Key(parts')
           IN  /\ Uuidv7!Compare(uuid, uuid') = -1 <=> before < after
               /\ Uuidv7!Compare(uuid, uuid') = 1 <=> before > after]_(Uuidv7!vars)
  BY <1>3
<1> QED
  BY <1>4, Uuidv7Invariance, PTL DEF ComparesByParts, Uuidv7!ComparesByParts
=============================================================================

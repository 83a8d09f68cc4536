-------------------------- MODULE ChronoidGenProofs --------------------------
(***************************************************************************)
(* Proofs about the command-line generator, for every command line, every  *)
(* interpretation of its words and every chain of entropy sources.  What   *)
(* is known of chronoid_os_random_bytes is not proved again: the composed  *)
(* program is shown to run RandOs, whose theorems then apply to it.        *)
(***************************************************************************)
EXTENDS ChronoidGen, TLAPS, WellFoundedInduction

OsP == INSTANCE RandOsProofs WITH MaxBytes <- SeedBytes

-----------------------------------------------------------------------------
(* main.                                                                   *)

LEMMA ArgcTyped == ASSUME argv \in Argvs PROVE argc \in Nat
<1>1. argv \in Seq(Argument)
  BY ConstantsAssumption
<1> QED
  BY <1>1 DEF argc

LEMMA NumberTyped ==
  \A w : CountAccepted(w) => NumberOf[w] \in Nat \ {0}
<1>1. \A w \in DOMAIN NumberOf : NumberOf[w] \in Int
  BY ConstantsAssumption
<1> QED
  BY <1>1 DEF CountAccepted

LEMMA ArgumentTyped ==
  ASSUME argv \in Argvs, NEW p \in 1 .. argc
  PROVE  /\ argv[p] \in Argument
         /\ Word(argv[p]) \in Texts
<1>1. argv \in Seq(Argument)
  BY ConstantsAssumption
<1>2. argv[p] \in Argument
  BY <1>1 DEF argc
<1> QED
  BY <1>2 DEF Argument, Word, Texts

(* Sequences of fields, as the print functions write them. *)
LEMMA OneField == \A x \in Fields : << x >> \in Seq(Fields) /\ << x >> # << >>
  OBVIOUS

LEMMA FiveOf ==
  ASSUME NEW S, NEW a \in S, NEW b \in S, NEW c \in S, NEW d \in S, NEW e \in S
  PROVE  << a, b, c, d, e >> \in Seq(S) /\ << a, b, c, d, e >> # << >>
  OBVIOUS

LEMMA EightOf ==
  ASSUME NEW S, NEW a \in S, NEW b \in S, NEW c \in S, NEW d \in S,
         NEW e \in S, NEW f \in S, NEW g \in S, NEW h \in S
  PROVE  << a, b, c, d, e, f, g, h >> \in Seq(S) /\ << a, b, c, d, e, f, g, h >> # << >>
  OBVIOUS

LEMMA ManyFields ==
  ASSUME NEW x \in Fields
  PROVE  /\ << "string", "hex", x, "timestamp", "payload hex" >> \in Seq(Fields)
         /\ << "string", "hex", x, "timestamp", "payload hex" >> # << >>
         /\ << "string", "hex", x, "timestamp", "version", "variant",
               "rand_a", "rand_b" >> \in Seq(Fields)
         /\ << "string", "hex", x, "timestamp", "version", "variant",
               "rand_a", "rand_b" >> # << >>
<1>1. /\ "string" \in Fields /\ "hex" \in Fields /\ "timestamp" \in Fields
      /\ "payload hex" \in Fields /\ "version" \in Fields /\ "variant" \in Fields
      /\ "rand_a" \in Fields /\ "rand_b" \in Fields
  BY DEF Fields
<1> QED
  BY <1>1, FiveOf, EightOf, Zenon

(* Both print functions show something for what main lets through. *)
LEMMA ShownTyped ==
  ASSUME NEW kind \in IdFormats, NEW projection \in Projections, NEW ok \in BOOLEAN,
         ~(projection = "payload" /\ kind = "uuidv7")
  PROVE  Shown(kind, projection, ok) \in Seq(Fields) /\ Shown(kind, projection, ok) # << >>
<1>1. fputs_time_local(ok) \in Fields /\ fputs_time_utc_ms(ok) \in Fields
  BY DEF Fields, fputs_time_local, fputs_time_utc_ms
<1>2. CASE kind = "ksuid"
  <2>1. Shown(kind, projection, ok) = print_one_ksuid(projection, ok)
    BY <1>2 DEF Shown
  <2>2. \/ \E x \in Fields : print_one_ksuid(projection, ok) =
             << "string", "hex", x, "timestamp", "payload hex" >>
        \/ \E x \in Fields : print_one_ksuid(projection, ok) = << x >>
    BY <1>1 DEF print_one_ksuid, Projections, Fields
  <2> QED
    BY <2>1, <2>2, OneField, ManyFields
<1>3. CASE kind = "uuidv7"
  <2>1. Shown(kind, projection, ok) = print_one_uuidv7(projection, ok)
    BY <1>3 DEF Shown
  <2>2. \/ \E x \in Fields : print_one_uuidv7(projection, ok) =
             << "string", "hex", x, "timestamp", "version", "variant",
                "rand_a", "rand_b" >>
        \/ \E x \in Fields : print_one_uuidv7(projection, ok) = << x >>
    BY <1>1, <1>3 DEF print_one_uuidv7, Projections, Fields
  <2> QED
    BY <2>1, <2>2, OneField, ManyFields
<1> QED
  BY <1>2, <1>3 DEF IdFormats

(* Printing a record that shows something keeps stdout in order. *)
LEMMA PrintKeeps ==
  ASSUME TypeOK, NoEmptyRecord, format \in Projections,
         NEW kind \in IdFormats, NEW text \in Texts,
         ~(format = "payload" /\ kind = "uuidv7"), PrintOne(kind, text)
  PROVE  /\ out' \in Seq(Records)
         /\ Len(out') = Len(out) + 1
         /\ \A k \in 1 .. Len(out') : out'[k].shows # << >>
         /\ \A k \in 1 .. Len(out) : out'[k] = out[k]
         /\ out'[Len(out) + 1].text = text
<1>1. PICK ok \in BOOLEAN : out' = Append(out, Record(kind, text, ok))
  BY DEF PrintOne
<1> DEFINE r == Record(kind, text, ok)
<1>2. r \in Records /\ r.shows # << >> /\ r.text = text
  <2>1. Shown(kind, format, ok) \in Seq(Fields) /\ Shown(kind, format, ok) # << >>
    BY ShownTyped
  <2> QED
    BY <2>1 DEF Record, Records, TypeOK
<1> HIDE DEF r
<1>3. out \in Seq(Records) /\ out' = Append(out, r)
  BY <1>1 DEF TypeOK, r
<1>4. /\ out' \in Seq(Records)
      /\ Len(out') = Len(out) + 1
      /\ \A k \in 1 .. Len(out) : out'[k] = out[k]
      /\ out'[Len(out) + 1] = r
  BY <1>2, <1>3
<1> QED
  BY <1>2, <1>3, <1>4 DEF NoEmptyRecord

LEMMA MainInit == Init => MainInv
<1> SUFFICES ASSUME Init PROVE MainInv
  OBVIOUS
<1>1. argc \in Nat
  BY ArgcTyped DEF Init
<1>2. out \in Seq(Records) /\ NoEmptyRecord
  BY DEF Init, NoEmptyRecord
<1>3. TypeOK
  <2>1. idx \in 1 .. (argc + 1) /\ count \in Nat \ {0} /\ i \in Nat
    BY <1>1 DEF Init
  <2>2. argv \in Argvs /\ idformat_explicit \in BOOLEAN /\ verbose \in BOOLEAN
        /\ helped \in BOOLEAN
    BY DEF Init
  <2>3. /\ format \in Projections \cup {"unknown"} /\ idformat \in IdFormats \cup {"unknown"}
        /\ pc \in {"options", "generate", "new", "parse", "exited"}
        /\ status \in {-1, 0, 1, 2}
    BY DEF Init, Projections, IdFormats
  <2> QED
    BY <1>2, <2>1, <2>2, <2>3 DEF TypeOK
<1> QED
  BY <1>2, <1>3 DEF Init, MainInv, Projections, IdFormats

LEMMA OptionsInv == ASSUME MainInv, Options PROVE MainInv'
<1> USE DEF MainInv
<1>0. argc \in Nat /\ argc' = argc /\ argv' = argv /\ out' = out /\ helped' \in BOOLEAN
  BY ArgcTyped
     DEF Options, OptionIdFormat, OptionVerbose, OptionHelp, OptionUnknown,
         OptionValueMissing, OptionCount, OptionProjection, OptionsEnd, argc, TypeOK
<1>1. pc = "options" /\ status = -1
  BY DEF Options, OptionIdFormat, OptionVerbose, OptionHelp, OptionUnknown,
         OptionValueMissing, OptionCount, OptionProjection, OptionsEnd, AtOption,
         TypeOK
<1>2. NoEmptyRecord'
  BY <1>0 DEF NoEmptyRecord
<1>3. CASE OptionIdFormat
  <2>1. idformat' \in IdFormats \cup {"unknown"}
    BY <1>3 DEF OptionIdFormat, parse_idformat
  <2>2. idx \in 1 .. argc
    BY <1>0, <1>3 DEF OptionIdFormat, AtOption, TypeOK
  <2>3. \/ /\ idformat' = "unknown" /\ pc' = "exited" /\ status' = 1
           /\ UNCHANGED <<idx, idformat_explicit>>
        \/ /\ idformat' # "unknown" /\ idformat_explicit' = TRUE /\ idx' = idx + 1
           /\ UNCHANGED <<pc, status>>
    BY <1>3 DEF OptionIdFormat, Exit
  <2>4. UNCHANGED <<argv, count, format, verbose, i, out, helped>>
    BY <1>3 DEF OptionIdFormat
  <2>5. idx' \in 1 .. (argc + 1)
    BY <1>0, <2>2, <2>3
  <2>6. TypeOK'
    BY <1>0, <1>1, <2>1, <2>3, <2>4, <2>5 DEF TypeOK
  <2> QED
    BY <1>1, <1>2, <2>1, <2>3, <2>4, <2>6
<1>4. CASE OptionVerbose
  BY <1>0, <1>1, <1>2, <1>4 DEF OptionVerbose, AtOption, TypeOK
<1>5. CASE OptionHelp \/ OptionUnknown \/ OptionValueMissing
  BY <1>0, <1>1, <1>2, <1>5
     DEF OptionHelp, OptionUnknown, OptionValueMissing, Exit, TypeOK, settings
<1>6. CASE OptionCount
  <2>1. PICK w : /\ w = Word(argv[idx + 1])
                 /\ IF CountAccepted(w)
                    THEN /\ count' = NumberOf[w]
                         /\ idx' = idx + 2
                         /\ UNCHANGED <<pc, status>>
                    ELSE Exit(1) /\ UNCHANGED <<count, idx>>
    BY <1>6 DEF OptionCount
  <2>2. CountAccepted(w) => NumberOf[w] \in Nat \ {0}
    BY NumberTyped
  <2>3. count' \in Nat \ {0} /\ idx' \in 1 .. (argc + 1)
    BY <1>0, <1>6, <2>1, <2>2 DEF OptionCount, TypeOK
  <2>4. \/ pc' = pc /\ status' = status
        \/ pc' = "exited" /\ status' = 1
    BY <2>1 DEF Exit
  <2> QED
    BY <1>0, <1>1, <1>2, <1>6, <2>3, <2>4 DEF OptionCount, TypeOK
<1>7. CASE OptionProjection
  <2>1. format' \in Projections \cup {"unknown"}
    BY <1>7 DEF OptionProjection, parse_format
  <2> QED
    BY <1>0, <1>1, <1>2, <1>7, <2>1 DEF OptionProjection, AtOption, Exit, TypeOK
<1>8. CASE OptionsEnd
  BY <1>0, <1>1, <1>2, <1>8
     DEF OptionsEnd, PayloadRefused, Exit, TypeOK, settings
<1> QED
  BY <1>3, <1>4, <1>5, <1>6, <1>7, <1>8 DEF Options

LEMMA GenerateInv == ASSUME MainInv, Generate PROVE MainInv'
<1> USE DEF MainInv
<1>1. CASE CallNew
  BY <1>1 DEF CallNew, TypeOK, NoEmptyRecord, argc, settings
<1>2. CASE NewFails
  BY <1>2 DEF NewFails, Exit, TypeOK, NoEmptyRecord, argc, settings
<1>3. CASE GenerateDone
  BY <1>3 DEF GenerateDone, Exit, TypeOK, NoEmptyRecord, argc, settings
<1>4. CASE NewPrinted
  <2>1. /\ out' \in Seq(Records)
        /\ \A k \in 1 .. Len(out') : out'[k].shows # << >>
    <3>1. "" \in Texts /\ idformat \in IdFormats /\ format \in Projections
      BY <1>4 DEF NewPrinted, Texts
    <3>2. ~(format = "payload" /\ idformat = "uuidv7") /\ PrintOne(idformat, "")
      BY <1>4 DEF NewPrinted
    <3> QED
      BY <3>1, <3>2, PrintKeeps
  <2>2. i' \in Nat /\ argc' = argc
    <3>1. i \in Nat
      BY DEF TypeOK
    <3>2. i' = i + 1 /\ argv' = argv
      BY <1>4 DEF NewPrinted
    <3> QED
      BY <3>1, <3>2 DEF argc
  <2> QED
    BY <1>4, <2>1, <2>2 DEF NewPrinted, TypeOK, NoEmptyRecord, settings
<1> QED
  BY <1>1, <1>2, <1>3, <1>4 DEF Generate

(* What parse mode prints is an identifier of a known kind. *)
LEMMA AcceptedTyped ==
  ASSUME MainInv, pc = "parse", i <= argc, ArgumentAccepted(Word(argv[i]))
  PROVE  /\ Word(argv[i]) \in Texts
         /\ Word(argv[i]) # ""
         /\ Detected(Word(argv[i])) \in IdFormats
         /\ ~(format = "payload" /\ Detected(Word(argv[i])) = "uuidv7")
<1>1. argv \in Argvs /\ i \in 1 .. argc
  BY ArgcTyped DEF MainInv, TypeOK
<1>2. Word(argv[i]) \in Texts
  BY <1>1, ArgumentTyped
<1>3. ASSUME NEW w, ArgumentAccepted(w)
      PROVE  /\ w # "" /\ Detected(w) \in IdFormats
             /\ ~(format = "payload" /\ Detected(w) = "uuidv7")
  BY <1>3, ConstantsAssumption DEF ArgumentAccepted, Detected, IdFormats
<1> QED
  BY <1>2, <1>3

LEMMA ParseInv == ASSUME MainInv, Parse PROVE MainInv'
<1> USE DEF MainInv
<1>1. CASE ArgumentRefused
  BY <1>1 DEF ArgumentRefused, Exit, TypeOK, NoEmptyRecord, argc, settings
<1>2. CASE ParseDone
  BY <1>2 DEF ParseDone, Exit, TypeOK, NoEmptyRecord, argc, settings
<1>3. CASE ArgumentPrinted
  <2>1. /\ out' \in Seq(Records)
        /\ \A k \in 1 .. Len(out') : out'[k].shows # << >>
    BY <1>3, PrintKeeps, AcceptedTyped DEF ArgumentPrinted
  <2> QED
    BY <1>3, <2>1 DEF ArgumentPrinted, TypeOK, NoEmptyRecord, argc, settings
<1> QED
  BY <1>1, <1>2, <1>3 DEF Parse

LEMMA MainNext == MainInv /\ [Next]_vars => MainInv'
<1> SUFFICES ASSUME MainInv, [Next]_vars PROVE MainInv'
  OBVIOUS
<1>1. CASE UNCHANGED vars
  BY <1>1 DEF MainInv, TypeOK, NoEmptyRecord, vars, settings, argc
<1> QED
  BY <1>1, OptionsInv, GenerateInv, ParseInv DEF Next

(* MainInv is an invariant of main, whatever the library answers. *)
THEOREM MainInvariance == Spec => []MainInv
  BY MainInit, MainNext, PTL DEF Spec

-----------------------------------------------------------------------------
(* Induction over sets of naturals: the schemes with an operator parameter *)
(* are out of the provers' reach, a set of naturals is not.                *)

(* A set that holds 0 and every successor holds every natural. *)
LEMMA SetInduction ==
  ASSUME NEW S \in SUBSET Nat, 0 \in S, \A k \in S : k + 1 \in S
  PROVE  S = Nat
<1> SUFFICES ASSUME S # Nat PROVE FALSE
  OBVIOUS
<1> DEFINE R == OpToRel(<, Nat)
           T == Nat \ S
<1>1. T \subseteq Nat /\ T # {}
  OBVIOUS
<1>2. \A a, b \in Nat : a < b => <<a, b>> \in R
  BY DEF OpToRel
<1>3. IsWellFoundedOn(R, Nat)
  BY NatLessThanWellFounded
<1> HIDE DEF R
<1>4. PICK x \in T : \A y \in T : ~(<<y, x>> \in R)
  <2> HIDE DEF T
  <2> QED
    BY <1>1, <1>3, WFMin
<1>5. x \in Nat /\ x # 0 /\ x \notin S
  OBVIOUS
<1>6. x - 1 \in Nat /\ x - 1 < x /\ x - 1 + 1 = x
  BY <1>5
<1>7. x - 1 \in S
  BY <1>2, <1>4, <1>5, <1>6
<1> QED
  BY <1>5, <1>6, <1>7

(* h is what a recursion over 0 .. m computes from a with the step g. *)
StepOn(g, A) == g \in [Nat \X A -> A]
Iterates(h, m, A, a, g) ==
  /\ h \in [0 .. m -> A]
  /\ h[0] = a
  /\ \A k \in 1 .. m : h[k] = g[<< k, h[k - 1] >>]

(* Every recursion over an interval has a result. *)
LEMMA RecursionExists ==
  ASSUME NEW A, NEW a \in A, NEW g, StepOn(g, A), NEW m \in Nat
  PROVE  \E h : Iterates(h, m, A, a, g)
<1> DEFINE S == {l \in Nat : \E h : Iterates(h, l, A, a, g)}
<1>1. 0 \in S
  <2>1. Iterates([k \in 0 .. 0 |-> a], 0, A, a, g)
    BY DEF Iterates
  <2> QED
    BY <2>1
<1>2. ASSUME NEW l \in S PROVE l + 1 \in S
  <2>1. l \in Nat
    OBVIOUS
  <2>2. PICK h : Iterates(h, l, A, a, g)
    OBVIOUS
  <2> DEFINE h2 == [k \in 0 .. (l + 1) |-> IF k <= l THEN h[k] ELSE g[<< l + 1, h[l] >>]]
  <2>3. g[<< l + 1, h[l] >>] \in A
    <3>1. << l + 1, h[l] >> \in Nat \X A
      BY <2>1, <2>2 DEF Iterates
    <3> QED
      BY <3>1 DEF StepOn
  <2>4. h2 \in [0 .. (l + 1) -> A] /\ h2[0] = a
    BY <2>1, <2>2, <2>3 DEF Iterates
  <2>5. ASSUME NEW k \in 1 .. (l + 1) PROVE h2[k] = g[<< k, h2[k - 1] >>]
    <3>1. k \in Int /\ 1 <= k /\ k <= l + 1 /\ k - 1 \in 0 .. l
      BY <2>1
    <3>2. h2[k - 1] = h[k - 1]
      BY <2>1, <3>1
    <3>3. CASE k <= l
      <4>1. k \in 1 .. l /\ h2[k] = h[k]
        BY <2>1, <3>1, <3>3
      <4> QED
        BY <2>2, <3>2, <4>1 DEF Iterates
    <3>4. CASE k = l + 1
      <4>1. h2[k] = g[<< l + 1, h[l] >>] /\ k - 1 = l
        BY <2>1, <3>1, <3>4
      <4> QED
        BY <3>2, <3>4, <4>1
    <3> QED
      BY <2>1, <3>1, <3>3, <3>4
  <2> HIDE DEF h2
  <2>6. Iterates(h2, l + 1, A, a, g)
    BY <2>4, <2>5 DEF Iterates
  <2> QED
    BY <2>1, <2>6
<1>3. S = Nat
  <2>1. S \in SUBSET Nat
    OBVIOUS
  <2> HIDE DEF S
  <2> QED
    BY <1>1, <1>2, <2>1, SetInduction
<1> QED
  BY <1>3

-----------------------------------------------------------------------------
(* The answer of main to its command line.                                 *)

(* A command line is a finite sequence of arguments. *)
LEMMA LengthTyped == \A av \in Argvs : av \in Seq(Argument) /\ Len(av) \in Nat
<1>1. Argvs \subseteq Seq(Argument)
  BY ConstantsAssumption
<1> QED
  BY <1>1

(* An option is one or two arguments long. *)
LEMMA BehindTyped ==
  ASSUME NEW av \in Argvs, NEW p \in Nat \ {0}
  PROVE  Behind(av, p) \in Nat \ {0} /\ p <= Behind(av, p) /\ Behind(av, p) <= p + 2
<1>1. av \in Seq(Argument)
  BY ConstantsAssumption
<1> QED
  BY <1>1 DEF Behind

(* The recursion of Starts, unfolded. *)
LEMMA StartsUnfold ==
  ASSUME NEW av \in Argvs
  PROVE  /\ Starts(av) \in [0 .. Len(av) -> Nat \ {0}]
         /\ Starts(av)[0] = 1
         /\ \A k \in 1 .. Len(av) : Starts(av)[k] = Behind(av, Starts(av)[k - 1])
<1>0. Len(av) \in Nat
  BY LengthTyped
<1> DEFINE m == Len(av)
           A == Nat \ {0}
           g == [x \in Nat \X A |-> Behind(av, x[2])]
           Def(h) == [k \in 0 .. m |-> IF k = 0 THEN 1 ELSE Behind(av, h[k - 1])]
           s == Starts(av)
<1> HIDE DEF m
<1>1. \A k \in Nat, p \in A : Behind(av, p) \in A /\ g[<< k, p >>] = Behind(av, p)
  <2>1. \A p \in A : Behind(av, p) \in A
    BY BehindTyped
  <2> HIDE DEF A
  <2>2. ASSUME NEW k \in Nat, NEW p \in A PROVE g[<< k, p >>] = Behind(av, p)
    <3>1. << k, p >> \in Nat \X A
      OBVIOUS
    <3> QED
      BY <3>1
  <2> QED
    BY <2>1, <2>2
<1>2. StepOn(g, A)
  <2> HIDE DEF A
  <2>1. ASSUME NEW x \in Nat \X A PROVE Behind(av, x[2]) \in A
    BY <1>1
  <2> QED
    BY <2>1 DEF StepOn
<1> HIDE DEF g
<1>3. PICK h : Iterates(h, m, A, 1, g)
  <2>1. m \in Nat /\ 1 \in A
    BY <1>0 DEF m
  <2> HIDE DEF A
  <2> QED
    BY <1>2, <2>1, RecursionExists
<1>4. h = Def(h)
  <2>1. ASSUME NEW k \in 0 .. m
        PROVE  h[k] = IF k = 0 THEN 1 ELSE Behind(av, h[k - 1])
    <3>1. CASE k = 0
      BY <1>3, <3>1 DEF Iterates
    <3>2. CASE k # 0
      <4>1. k \in 1 .. m /\ k - 1 \in 0 .. m /\ k \in Nat
        BY <1>0, <3>2 DEF m
      <4>2. h[k - 1] \in A /\ h[k] = g[<< k, h[k - 1] >>]
        BY <1>3, <4>1 DEF Iterates
      <4> HIDE DEF A
      <4> QED
        BY <1>1, <3>2, <4>1, <4>2
    <3> QED
      BY <3>1, <3>2
  <2>2. h = [k \in 0 .. m |-> h[k]]
    BY <1>3 DEF Iterates
  <2> QED
    BY <2>1, <2>2
<1>5. s = Def(s)
  <2>1. s = CHOOSE f : f = Def(f)
    BY DEF Starts, m
  <2> HIDE DEF Def, s
  <2> QED
    BY <1>4, <2>1
<1> HIDE DEF s
<1>6. s[0] = 1 /\ \A k \in 1 .. m : s[k] = Behind(av, s[k - 1])
  <2>1. \A k \in 0 .. m : s[k] = IF k = 0 THEN 1 ELSE Behind(av, s[k - 1])
    BY <1>5
  <2> QED
    BY <1>0, <2>1 DEF m
<1>7. \A k \in 0 .. m : s[k] \in A
  <2> DEFINE S == {k \in Nat : k <= m => s[k] \in A}
  <2>1. 0 \in S
    BY <1>6
  <2>2. ASSUME NEW k \in S PROVE k + 1 \in S
    <3>1. k \in Nat /\ k + 1 \in Nat /\ (k + 1) - 1 = k
      OBVIOUS
    <3>2. CASE k + 1 <= m
      <4>1. k + 1 \in 1 .. m /\ k <= m
        BY <1>0, <3>1, <3>2 DEF m
      <4>2. s[k + 1] = Behind(av, s[k]) /\ s[k] \in A
        BY <1>6, <3>1, <4>1
      <4>3. s[k + 1] \in A
        BY <1>1, <3>1, <4>2
      <4> QED
        BY <3>1, <4>3
    <3> QED
      BY <3>1, <3>2
  <2>3. S = Nat
    <3>1. S \in SUBSET Nat
      OBVIOUS
    <3> HIDE DEF S
    <3> QED
      BY <2>1, <2>2, <3>1, SetInduction
  <2> QED
    BY <1>0, <2>3 DEF m
<1>8. s \in [0 .. m -> A]
  <2>1. s = [k \in 0 .. m |-> s[k]]
    BY <1>5
  <2> HIDE DEF A
  <2> QED
    BY <1>7, <2>1
<1> QED
  BY <1>6, <1>8 DEF s, m

(* No option begins behind the place where main stopped to read options. *)
LEMMA NoneBehind ==
  ASSUME TypeOK, OptionsRead, idx <= argc => argv[idx].flag = "none",
         NEW p, Begins(p)
  PROVE  p \in Nat \ {0} /\ p <= idx
<1> DEFINE s == Starts(argv)
           S == {k \in Nat : k <= argc => s[k] <= idx}
<1>0. argv \in Argvs /\ argc \in Nat /\ idx \in 1 .. (argc + 1) /\ Len(argv) = argc
  BY ArgcTyped DEF TypeOK, argc
<1>1. /\ s \in [0 .. argc -> Nat \ {0}] /\ s[0] = 1
      /\ \A k \in 1 .. argc : s[k] = Behind(argv, s[k - 1])
  BY <1>0, StartsUnfold
<1> HIDE DEF s
<1>2. 0 \in S
  BY <1>0, <1>1
<1>3. ASSUME NEW k \in S PROVE k + 1 \in S
  <2>1. k \in Nat /\ k + 1 \in Nat /\ (k + 1) - 1 = k
    OBVIOUS
  <2>2. CASE k + 1 <= argc
    <3>1. k + 1 \in 1 .. argc /\ k \in 0 .. argc /\ k <= argc
      BY <1>0, <2>1, <2>2
    <3>2. s[k] \in Nat \ {0} /\ s[k] <= idx /\ s[k + 1] = Behind(argv, s[k])
      BY <1>1, <2>1, <3>1
    <3>3. CASE s[k] = idx
      <4>1. Behind(argv, idx) = idx
        BY <1>0, <3>3 DEF Behind
      <4> QED
        BY <1>0, <2>1, <3>2, <3>3, <4>1
    <3>4. CASE s[k] = idx - 1
      <4>1. argv[idx - 1].flag \notin {"-n", "-f"}
        BY <1>0, <3>2, <3>4 DEF OptionsRead
      <4>2. Behind(argv, idx - 1) <= idx
        BY <1>0, <3>2, <3>4, <4>1 DEF Behind
      <4> QED
        BY <2>1, <3>2, <3>4, <4>2
    <3>5. CASE s[k] + 2 <= idx
      <4>1. Behind(argv, s[k]) \in Nat /\ Behind(argv, s[k]) <= s[k] + 2
        BY <1>0, <3>2, BehindTyped
      <4>2. s[k + 1] <= idx
        BY <1>0, <3>2, <3>5, <4>1
      <4> QED
        BY <2>1, <4>2
    <3> QED
      BY <1>0, <3>2, <3>3, <3>4, <3>5
  <2> QED
    BY <1>0, <2>1, <2>2
<1>4. S = Nat
  <2>1. S \in SUBSET Nat
    OBVIOUS
  <2> HIDE DEF S
  <2> QED
    BY <1>2, <1>3, <2>1, SetInduction
<1>5. PICK k \in 0 .. argc : s[k] = p
  BY DEF Begins, s
<1>6. k \in S /\ k <= argc
  BY <1>0, <1>4, <1>5
<1> QED
  BY <1>1, <1>5, <1>6

(* Behind the options, main's settings are what the command line asks for. *)
LEMMA Settled ==
  ASSUME TypeOK, OptionsRead, idx <= argc => argv[idx].flag = "none"
  PROVE  /\ WordsBegin(idx)
         /\ AskedCount = count /\ AskedProjection = format /\ AskedFormat = idformat
         /\ AskedPrefix <=> verbose
         /\ OptionsWith("--format=") # {} <=> idformat_explicit
<1>0. argv \in Argvs /\ argc \in Nat /\ idx \in 1 .. (argc + 1)
  BY ArgcTyped DEF TypeOK
<1>1. ASSUME NEW flag, flag # "none" PROVE OptionsWith(flag) = ReadSoFar(flag)
  <2>1. ASSUME NEW p \in OptionsWith(flag) PROVE p \in ReadSoFar(flag)
    <3>1. p \in 1 .. argc /\ Begins(p) /\ argv[p].flag = flag
      BY DEF OptionsWith
    <3>2. p <= idx
      BY <3>1, NoneBehind
    <3>3. p # idx
      BY <1>0, <1>1, <3>1
    <3>4. p \in 1 .. (idx - 1)
      BY <1>0, <3>1, <3>2, <3>3
    <3> QED
      BY <3>1, <3>4 DEF ReadSoFar
  <2>2. ASSUME NEW p \in ReadSoFar(flag) PROVE p \in OptionsWith(flag)
    <3>1. p \in 1 .. (idx - 1) /\ argv[p].flag = flag
      BY DEF ReadSoFar
    <3>2. Begins(p)
      BY <1>1, <3>1 DEF OptionsRead
    <3>3. p \in 1 .. argc
      BY <1>0, <3>1
    <3> QED
      BY <3>1, <3>2, <3>3 DEF OptionsWith
  <2> QED
    BY <2>1, <2>2
<1>2. Begins(idx)
  <2>1. PICK k \in 0 .. (idx - 1) : Starts(argv)[k] = idx
    BY DEF OptionsRead
  <2>2. k \in 0 .. argc
    BY <1>0, <2>1
  <2> QED
    BY <2>1, <2>2 DEF Begins
<1>3. /\ OptionsWith("-n") = ReadSoFar("-n") /\ OptionsWith("-f") = ReadSoFar("-f")
      /\ OptionsWith("-v") = ReadSoFar("-v")
      /\ OptionsWith("--format=") = ReadSoFar("--format=")
  BY <1>1
<1> QED
  BY <1>2, <1>3 DEF OptionsRead, WordsBegin, AskedCount, AskedProjection, AskedFormat,
                    AskedPrefix

(* main moves on behind an option that it accepts. *)
LEMMA ReadOn ==
  ASSUME TypeOK, OptionsRead, idx <= argc, argv' = argv,
         argv[idx].flag \in {"-v", "--format=", "-n", "-f"},
         idx' = Behind(argv, idx), idx' <= argc + 1,
         idx' = idx + 2 => argv[idx + 1].flag = "none"
  PROVE  /\ \E k \in 0 .. (idx' - 1) : Starts(argv')[k] = idx'
         /\ \A p \in 1 .. (idx' - 1) : argv'[p].flag # "none" => Begins(p)'
         /\ idx' > 1 => argv'[idx' - 1].flag \notin {"-n", "-f"}
         /\ \A flag : flag # "none" =>
              ReadSoFar(flag)' = IF flag = argv[idx].flag THEN ReadSoFar(flag) \cup {idx}
                                 ELSE ReadSoFar(flag)
<1>0. /\ argv \in Argvs /\ argc \in Nat /\ idx \in 1 .. argc /\ Len(argv) = argc
      /\ argc' = argc
  BY ArgcTyped DEF TypeOK, argc
<1>1. \/ idx' = idx + 1 /\ argv[idx].flag \notin {"-n", "-f"}
      \/ idx' = idx + 2 /\ argv[idx + 1].flag = "none" /\ idx + 1 <= argc
  BY <1>0 DEF Behind
<1>2. PICK k \in 0 .. (idx - 1) : Starts(argv)[k] = idx
  BY DEF OptionsRead
<1>3. k + 1 \in 0 .. (idx' - 1) /\ Starts(argv)[k + 1] = idx' /\ k \in 0 .. argc
  <2>1. k + 1 \in 1 .. argc /\ (k + 1) - 1 = k
    BY <1>0
  <2>2. Starts(argv)[k + 1] = Behind(argv, Starts(argv)[k])
    <3>1. \A l \in 1 .. argc : Starts(argv)[l] = Behind(argv, Starts(argv)[l - 1])
      BY <1>0, StartsUnfold
    <3> QED
      BY <2>1, <3>1
  <2> QED
    BY <1>0, <1>1, <1>2, <2>1, <2>2
<1>4. \A p : Begins(p)' <=> Begins(p)
  BY <1>0 DEF Begins
<1>5. Begins(idx)
  BY <1>2, <1>3 DEF Begins
<1>6. ASSUME NEW p \in 1 .. (idx' - 1)
      PROVE  p \in 1 .. (idx - 1) \/ p = idx \/ argv[p].flag = "none"
  BY <1>0, <1>1
<1>7. \A p \in 1 .. (idx' - 1) : argv'[p].flag # "none" => Begins(p)'
  BY <1>4, <1>5, <1>6 DEF OptionsRead
<1>8. argv'[idx' - 1].flag \notin {"-n", "-f"}
  <2>1. CASE idx' = idx + 1 /\ argv[idx].flag \notin {"-n", "-f"}
    <3>1. idx' - 1 = idx
      BY <1>0, <2>1
    <3> QED
      BY <2>1, <3>1
  <2>2. CASE idx' = idx + 2 /\ argv[idx + 1].flag = "none"
    <3>1. idx' - 1 = idx + 1
      BY <1>0, <2>2
    <3> QED
      BY <2>2, <3>1
  <2> QED
    BY <1>1, <2>1, <2>2
<1>9. ASSUME NEW flag, flag # "none"
      PROVE  ReadSoFar(flag)' = IF flag = argv[idx].flag THEN ReadSoFar(flag) \cup {idx}
                                ELSE ReadSoFar(flag)
  <2>1. ReadSoFar(flag)' = {p \in 1 .. (idx' - 1) : argv[p].flag = flag}
    BY DEF ReadSoFar
  <2>2. ReadSoFar(flag) = {p \in 1 .. (idx - 1) : argv[p].flag = flag}
    BY DEF ReadSoFar
  <2>3. \A p \in 1 .. (idx - 1) : p \in 1 .. (idx' - 1)
    BY <1>0, <1>1
  <2>4. idx \in 1 .. (idx' - 1)
    BY <1>0, <1>1
  <2> QED
    BY <1>6, <1>9, <2>1, <2>2, <2>3, <2>4
<1> QED
  BY <1>2, <1>3, <1>7, <1>8, <1>9

(* The last of some places and a later one. *)
LEMMA LastAdded ==
  ASSUME NEW m \in Nat, NEW S, S \subseteq 1 .. (m - 1)
  PROVE  LastOf(S \cup {m}) = m
<1>1. \A q \in S \cup {m} : q <= m
  OBVIOUS
<1>2. \A p \in S : ~(m <= p)
  OBVIOUS
<1> QED
  BY <1>1, <1>2 DEF LastOf

(* What a command line asks for is a matter of the command line alone. *)
LEMMA AskedSame ==
  ASSUME argv' = argv
  PROVE  /\ argc' = argc
         /\ AskedCount' = AskedCount /\ AskedProjection' = AskedProjection
         /\ AskedFormat' = AskedFormat /\ (AskedPrefix' <=> AskedPrefix)
         /\ OptionsWith("--format=")' = OptionsWith("--format=")
         /\ \A p : Begins(p)' <=> Begins(p)
         /\ \A p : WordsBegin(p)' <=> WordsBegin(p)
         /\ \A p : WrongValue(p)' <=> WrongValue(p)
         /\ \A w : WrongWord(w)' <=> WrongWord(w)
         /\ \A r, k, p : Answers(r, k, p)' <=> Answers(r, k, p)
<1>1. argc' = argc
  BY DEF argc
<1>2. \A p : Begins(p)' <=> Begins(p)
  BY <1>1 DEF Begins
<1>3. \A flag : OptionsWith(flag)' = OptionsWith(flag)
  BY <1>1, <1>2 DEF OptionsWith
<1>4. \A p : WordsBegin(p)' <=> WordsBegin(p)
  BY <1>1, <1>2 DEF WordsBegin
<1>5. AskedCount' = AskedCount
  BY <1>3 DEF AskedCount, CountAt
<1>6. AskedProjection' = AskedProjection
  BY <1>3 DEF AskedProjection, ProjectionAt
<1>7. AskedFormat' = AskedFormat
  BY <1>3 DEF AskedFormat, FormatAt
<1>8. AskedPrefix' <=> AskedPrefix
  BY <1>3 DEF AskedPrefix
<1>9. \A p : WrongValue(p)' <=> WrongValue(p)
  BY <1>1 DEF WrongValue
<1>10. \A w : WrongWord(w)' <=> WrongWord(w)
  BY <1>3, <1>6, <1>7 DEF WrongWord
<1>11. \A r, k, p : Answers(r, k, p)' <=> Answers(r, k, p)
  BY <1>1, <1>6, <1>7, <1>8 DEF Answers
<1> QED
  BY <1>1, <1>2, <1>3, <1>4, <1>5, <1>6, <1>7, <1>8, <1>9, <1>10, <1>11

(* A step that prints nothing keeps the order of what is printed. *)
LEMMA InOrderSame ==
  ASSUME argv' = argv, out' = out PROVE \A p : InOrder(p)' <=> InOrder(p)
  BY AskedSame DEF InOrder

(* AnswerInv holds before main reads anything. *)
LEMMA AnswerInit == Init => AnswerInv
<1> SUFFICES ASSUME Init PROVE AnswerInv
  OBVIOUS
<1>1. argv \in Argvs /\ argc \in Nat /\ idx = 1
  BY ArgcTyped DEF Init
<1>2. Starts(argv)[0] = 1
  BY <1>1, StartsUnfold
<1>3. \A flag : ReadSoFar(flag) = {}
  BY <1>1 DEF ReadSoFar
<1>4. OptionsRead
  <2>1. 0 \in 0 .. (idx - 1) /\ 1 .. (idx - 1) = {} /\ ~(idx > 1)
    BY <1>1
  <2> QED
    BY <1>1, <1>2, <1>3, <2>1 DEF Init, OptionsRead, CountAt, ProjectionAt, FormatAt
<1> QED
  BY <1>4 DEF Init, AnswerInv, SuccessIsExact, FailureTellsHowFar

(* main goes on with its options. *)
LEMMA AnswerReads ==
  ASSUME AnswerInv, pc = "options", pc' = "options", status' = -1, out' = out, OptionsRead'
  PROVE  AnswerInv'
  BY DEF AnswerInv, SuccessIsExact, FailureTellsHowFar

(* main stops at a wrong option. *)
LEMMA AnswerWrongOption ==
  ASSUME TypeOK, AnswerInv, pc = "options", idx <= argc, WrongValue(idx),
         argv' = argv, out' = out, pc' = "exited", status' = 1
  PROVE  AnswerInv'
<1>0. argv \in Argvs /\ argc \in Nat /\ idx \in 1 .. argc
  BY ArgcTyped DEF TypeOK
<1>1. out' = << >>
  BY DEF AnswerInv
<1>2. Begins(idx)
  <2>1. PICK k \in 0 .. (idx - 1) : Starts(argv)[k] = idx
    BY DEF AnswerInv, OptionsRead
  <2>2. k \in 0 .. argc
    BY <1>0, <2>1
  <2> QED
    BY <2>1, <2>2 DEF Begins
<1>3. PICK p : p = idx
  OBVIOUS
<1>4. FailureTellsHowFar'
  <2>1. p \in 1 .. argc /\ Begins(p) /\ WrongValue(p)
    BY <1>0, <1>2, <1>3
  <2>2. argc' = argc /\ Begins(p)' /\ WrongValue(p)'
    BY <2>1, AskedSame
  <2> QED
    BY <1>1, <2>1, <2>2 DEF FailureTellsHowFar
<1> QED
  BY <1>4 DEF AnswerInv, SuccessIsExact

(* Reading the options keeps AnswerInv. *)
LEMMA AnswerOptions ==
  ASSUME MainInv, MainInv', AnswerInv, Options PROVE AnswerInv'
<1>0. /\ TypeOK /\ argv \in Argvs /\ argc \in Nat /\ idx \in 1 .. (argc + 1)
      /\ status = -1 /\ pc = "options" /\ argv' = argv /\ out' = out
      /\ OptionsRead /\ out = << >>
  <2>1. TypeOK /\ argv \in Argvs /\ idx \in 1 .. (argc + 1)
    BY DEF MainInv, TypeOK
  <2>2. pc = "options" /\ argv' = argv /\ out' = out
    BY DEF Options, OptionIdFormat, OptionVerbose, OptionHelp, OptionUnknown,
           OptionValueMissing, OptionCount, OptionProjection, OptionsEnd, AtOption
  <2> QED
    BY <2>1, <2>2, ArgcTyped DEF MainInv, AnswerInv
<1>1. CASE OptionVerbose
  <2>1. /\ idx <= argc /\ argv[idx].flag = "-v" /\ verbose' = TRUE /\ idx' = idx + 1
        /\ UNCHANGED <<argv, count, format, idformat, idformat_explicit, pc, status>>
    BY <1>1 DEF OptionVerbose, AtOption
  <2>2. idx' = Behind(argv, idx) /\ idx' <= argc + 1 /\ idx' # idx + 2
    BY <1>0, <2>1 DEF Behind, argc
  <2>3. /\ \E k \in 0 .. (idx' - 1) : Starts(argv')[k] = idx'
        /\ \A p \in 1 .. (idx' - 1) : argv'[p].flag # "none" => Begins(p)'
        /\ idx' > 1 => argv'[idx' - 1].flag \notin {"-n", "-f"}
        /\ ReadSoFar("-n")' = ReadSoFar("-n") /\ ReadSoFar("-f")' = ReadSoFar("-f")
        /\ ReadSoFar("--format=")' = ReadSoFar("--format=")
        /\ ReadSoFar("-v")' # {}
    BY <1>0, <2>1, <2>2, ReadOn
  <2>4. OptionsRead'
    BY <1>0, <2>1, <2>3 DEF OptionsRead, CountAt, ProjectionAt, FormatAt
  <2> QED
    BY <1>0, <2>1, <2>4, AnswerReads
<1>2. CASE OptionIdFormat
  <2>1. /\ idx <= argc /\ argv[idx].flag = "--format="
        /\ idformat' = parse_idformat(argv[idx].text)
        /\ IF idformat' = "unknown"
           THEN Exit(1) /\ UNCHANGED <<idx, idformat_explicit>>
           ELSE idformat_explicit' = TRUE /\ idx' = idx + 1 /\ UNCHANGED <<pc, status>>
        /\ UNCHANGED <<argv, count, format, verbose, i, out, helped>>
    BY <1>2 DEF OptionIdFormat, AtOption
  <2>2. CASE idformat' = "unknown"
    <3>1. argv[idx].text \notin IdFormats
      BY <2>1, <2>2 DEF parse_idformat, IdFormats
    <3>2. WrongValue(idx)
      BY <2>1, <3>1 DEF WrongValue
    <3> QED
      BY <1>0, <2>1, <2>2, <3>2, AnswerWrongOption DEF Exit
  <2>3. CASE idformat' # "unknown"
    <3>1. idformat' = argv[idx].text
      BY <2>1, <2>3 DEF parse_idformat
    <3>2. idx' = Behind(argv, idx) /\ idx' <= argc + 1 /\ idx' # idx + 2
      BY <1>0, <2>1, <2>3 DEF Behind, argc
    <3>3. /\ \E k \in 0 .. (idx' - 1) : Starts(argv')[k] = idx'
          /\ \A p \in 1 .. (idx' - 1) : argv'[p].flag # "none" => Begins(p)'
          /\ idx' > 1 => argv'[idx' - 1].flag \notin {"-n", "-f"}
          /\ ReadSoFar("-n")' = ReadSoFar("-n") /\ ReadSoFar("-f")' = ReadSoFar("-f")
          /\ ReadSoFar("--format=")' = ReadSoFar("--format=") \cup {idx}
          /\ ReadSoFar("-v")' = ReadSoFar("-v")
      BY <1>0, <2>1, <3>2, ReadOn
    <3>4. LastOf(ReadSoFar("--format=")') = idx /\ ReadSoFar("--format=")' # {}
      <4>1. ReadSoFar("--format=") \subseteq 1 .. (idx - 1) /\ idx \in Nat
        BY <1>0 DEF ReadSoFar
      <4> QED
        BY <3>3, <4>1, LastAdded
    <3>5. FormatAt(ReadSoFar("--format="))' = argv[idx].text
      BY <1>0, <3>4 DEF FormatAt
    <3>6. OptionsRead'
      BY <1>0, <2>1, <2>3, <3>1, <3>3, <3>4, <3>5 DEF OptionsRead, CountAt, ProjectionAt
    <3> QED
      BY <1>0, <2>1, <2>3, <3>6, AnswerReads
  <2> QED
    BY <2>2, <2>3
<1>3. CASE OptionHelp
  BY <1>0, <1>3 DEF OptionHelp, Exit, AnswerInv, SuccessIsExact, FailureTellsHowFar
<1>4. CASE OptionUnknown \/ OptionValueMissing
  <2>1. idx <= argc /\ WrongValue(idx) /\ pc' = "exited" /\ status' = 1
    BY <1>0, <1>4 DEF OptionUnknown, OptionValueMissing, AtOption, Exit, WrongValue
  <2> QED
    BY <1>0, <2>1, AnswerWrongOption
<1>5. CASE OptionCount
  <2> DEFINE w == Word(argv[idx + 1])
  <2>1. /\ idx <= argc /\ argv[idx].flag = "-n" /\ idx + 1 <= argc
        /\ IF CountAccepted(w)
           THEN /\ count' = NumberOf[w]
                /\ idx' = idx + 2
                /\ UNCHANGED <<pc, status>>
           ELSE Exit(1) /\ UNCHANGED <<count, idx>>
        /\ UNCHANGED <<argv, format, idformat, idformat_explicit, verbose, i, out, helped>>
    BY <1>5 DEF OptionCount, AtOption
  <2>2. CASE ~CountAccepted(w)
    <3>1. WrongValue(idx)
      BY <1>0, <2>1, <2>2 DEF WrongValue
    <3> QED
      BY <1>0, <2>1, <2>2, <3>1, AnswerWrongOption DEF Exit
  <2>3. CASE CountAccepted(w)
    <3>1. argv[idx + 1].flag = "none"
      <4>1. w # "flag"
        BY <2>3, ConstantsAssumption DEF CountAccepted
      <4> QED
        BY <4>1 DEF Word
    <3>2. idx' = Behind(argv, idx) /\ idx' <= argc + 1
      BY <1>0, <2>1, <2>3 DEF Behind, argc
    <3>3. /\ \E k \in 0 .. (idx' - 1) : Starts(argv')[k] = idx'
          /\ \A p \in 1 .. (idx' - 1) : argv'[p].flag # "none" => Begins(p)'
          /\ idx' > 1 => argv'[idx' - 1].flag \notin {"-n", "-f"}
          /\ ReadSoFar("-n")' = ReadSoFar("-n") \cup {idx}
          /\ ReadSoFar("-f")' = ReadSoFar("-f")
          /\ ReadSoFar("--format=")' = ReadSoFar("--format=")
          /\ ReadSoFar("-v")' = ReadSoFar("-v")
      BY <1>0, <2>1, <3>1, <3>2, ReadOn
    <3>4. LastOf(ReadSoFar("-n")') = idx /\ ReadSoFar("-n")' # {}
      <4>1. ReadSoFar("-n") \subseteq 1 .. (idx - 1) /\ idx \in Nat
        BY <1>0 DEF ReadSoFar
      <4> QED
        BY <3>3, <4>1, LastAdded
    <3>5. CountAt(ReadSoFar("-n"))' = NumberOf[w]
      BY <1>0, <3>4 DEF CountAt
    <3>6. OptionsRead'
      BY <1>0, <2>1, <2>3, <3>3, <3>5 DEF OptionsRead, FormatAt, ProjectionAt
    <3> QED
      BY <1>0, <2>1, <2>3, <3>6, AnswerReads
  <2> QED
    BY <2>2, <2>3
<1>6. CASE OptionProjection
  <2> DEFINE w == Word(argv[idx + 1])
  <2>1. /\ idx <= argc /\ argv[idx].flag = "-f" /\ idx + 1 <= argc
        /\ format' = parse_format(w)
        /\ IF format' = "unknown"
           THEN Exit(1) /\ UNCHANGED idx
           ELSE idx' = idx + 2 /\ UNCHANGED <<pc, status>>
        /\ UNCHANGED <<argv, count, idformat, idformat_explicit, verbose, i, out, helped>>
    BY <1>6 DEF OptionProjection, AtOption
  <2>2. CASE format' = "unknown"
    <3>1. w \notin Projections
      BY <2>1, <2>2 DEF parse_format, Projections
    <3>2. WrongValue(idx)
      BY <1>0, <2>1, <3>1 DEF WrongValue
    <3> QED
      BY <1>0, <2>1, <2>2, <3>2, AnswerWrongOption DEF Exit
  <2>3. CASE format' # "unknown"
    <3>0. w \in Projections /\ format' = w
      BY <2>1, <2>3 DEF parse_format
    <3>1. argv[idx + 1].flag = "none"
      <4>1. w # "flag"
        BY <3>0 DEF Projections
      <4> QED
        BY <4>1 DEF Word
    <3>2. idx' = Behind(argv, idx) /\ idx' <= argc + 1
      BY <1>0, <2>1, <2>3 DEF Behind, argc
    <3>3. /\ \E k \in 0 .. (idx' - 1) : Starts(argv')[k] = idx'
          /\ \A p \in 1 .. (idx' - 1) : argv'[p].flag # "none" => Begins(p)'
          /\ idx' > 1 => argv'[idx' - 1].flag \notin {"-n", "-f"}
          /\ ReadSoFar("-f")' = ReadSoFar("-f") \cup {idx}
          /\ ReadSoFar("-n")' = ReadSoFar("-n")
          /\ ReadSoFar("--format=")' = ReadSoFar("--format=")
          /\ ReadSoFar("-v")' = ReadSoFar("-v")
      BY <1>0, <2>1, <3>1, <3>2, ReadOn
    <3>4. LastOf(ReadSoFar("-f")') = idx /\ ReadSoFar("-f")' # {}
      <4>1. ReadSoFar("-f") \subseteq 1 .. (idx - 1) /\ idx \in Nat
        BY <1>0 DEF ReadSoFar
      <4> QED
        BY <3>3, <4>1, LastAdded
    <3>5. ProjectionAt(ReadSoFar("-f"))' = w
      BY <1>0, <3>4 DEF ProjectionAt
    <3>6. OptionsRead'
      BY <1>0, <2>1, <2>3, <3>0, <3>3, <3>5 DEF OptionsRead, FormatAt, CountAt
    <3> QED
      BY <1>0, <2>1, <2>3, <3>6, AnswerReads
  <2> QED
    BY <2>2, <2>3
<1>7. CASE OptionsEnd
  <2>1. /\ idx <= argc => argv[idx].flag = "none"
        /\ IF PayloadRefused
           THEN Exit(1) /\ UNCHANGED i
           ELSE /\ pc' = IF idx > argc THEN "generate" ELSE "parse"
                /\ i' = IF idx > argc THEN 0 ELSE idx
                /\ UNCHANGED status
        /\ UNCHANGED <<argv, idx, settings, out, helped>>
    BY <1>7 DEF OptionsEnd
  <2>2. argc' = argc /\ OptionsRead'
    BY <1>0, <2>1, AskedSame
       DEF OptionsRead, ReadSoFar, CountAt, ProjectionAt, FormatAt, settings
  <2>3. CASE PayloadRefused
    <3>1. idx = argc + 1 /\ format = "payload" /\ idformat = "uuidv7"
      BY <1>0, <2>3 DEF PayloadRefused
    <3>2. /\ WordsBegin(argc + 1) /\ AskedProjection = "payload"
          /\ AskedFormat = "uuidv7"
      BY <1>0, <2>1, <3>1, Settled
    <3>3. (WordsBegin(argc + 1) /\ AskedProjection = "payload" /\ AskedFormat = "uuidv7")'
      BY <1>0, <2>1, <3>2, AskedSame DEF WordsBegin
    <3>4. out' = << >> /\ status' = 1 /\ pc' = "exited"
      BY <1>0, <2>1, <2>3 DEF Exit
    <3> QED
      BY <3>3, <3>4 DEF AnswerInv, SuccessIsExact, FailureTellsHowFar
  <2>4. CASE ~PayloadRefused
    <3>1. out' = << >> /\ Len(out') = 0 /\ status' = -1 /\ idx' = idx /\ count' = count
      BY <1>0, <2>1, <2>4 DEF settings
    <3>2. \A p : InOrder(p)'
      BY <3>1 DEF InOrder
    <3>3. InOrder(idx)'
      BY <3>1 DEF InOrder
    <3>4. CASE idx > argc
      <4>1. /\ pc' = "generate" /\ i' = 0 /\ idx' = argc' + 1 /\ count' \in Nat \ {0}
        BY <1>0, <2>1, <2>2, <2>4, <3>1, <3>4 DEF TypeOK
      <4> QED
        BY <2>2, <3>1, <3>3, <4>1 DEF AnswerInv, SuccessIsExact, FailureTellsHowFar
    <3>5. CASE idx <= argc
      <4>1. /\ pc' = "parse" /\ i' = idx /\ idx' + Len(out') = idx
            /\ idx' <= argc' /\ idx <= argc' + 1 /\ argv'[idx'].flag = "none"
        BY <1>0, <2>1, <2>2, <2>4, <3>1, <3>5
      <4> QED
        BY <2>2, <3>1, <3>3, <4>1 DEF AnswerInv, SuccessIsExact, FailureTellsHowFar
    <3> QED
      BY <1>0, <3>4, <3>5
  <2> QED
    BY <2>3, <2>4
<1> QED
  BY <1>1, <1>2, <1>3, <1>4, <1>5, <1>6, <1>7 DEF Options

(* Behind its options main holds the same settings to the end. *)
LEMMA OptionsKept ==
  ASSUME OptionsRead, UNCHANGED <<argv, idx, settings>>
  PROVE  OptionsRead' /\ argc' = argc
  BY AskedSame DEF OptionsRead, ReadSoFar, CountAt, ProjectionAt, FormatAt, settings

(* One more record, the one that is asked for in the next place. *)
LEMMA InOrderPrinted ==
  ASSUME TypeOK, NEW p, InOrder(p), argv' = argv, NEW kind, NEW text,
         PrintOne(kind, text),
         \A r, ok : r = Record(kind, text, ok) /\ ok \in BOOLEAN => Answers(r, Len(out) + 1, p)
  PROVE  InOrder(p)' /\ Len(out') = Len(out) + 1
<1>1. PICK ok \in BOOLEAN : out' = Append(out, Record(kind, text, ok))
  BY DEF PrintOne
<1>2. PICK r : r = Record(kind, text, ok)
  OBVIOUS
<1>3. Answers(r, Len(out) + 1, p)
  BY <1>2
<1>4. out \in Seq(Records) /\ out' = Append(out, r)
  BY <1>1, <1>2 DEF TypeOK
<1>5. /\ Len(out) \in Nat /\ Len(out') = Len(out) + 1
      /\ \A k \in 1 .. Len(out) : out'[k] = out[k]
      /\ out'[Len(out) + 1] = r
  BY <1>4
<1>6. PICK m : m = Len(out)
  OBVIOUS
<1>7. ASSUME NEW k \in 1 .. Len(out') PROVE Answers(out'[k], k, p)
  <2>1. k \in 1 .. Len(out) \/ k = Len(out) + 1
    BY <1>5
  <2> QED
    BY <1>3, <1>5, <2>1 DEF InOrder
<1>8. \A k \in 1 .. Len(out') : Answers(out[k], k, p)'
  <2>1. ASSUME NEW q, NEW k PROVE Answers(q, k, p)' <=> Answers(q, k, p)
    BY AskedSame
  <2>2. ASSUME NEW k \in 1 .. Len(out') PROVE Answers(out[k], k, p)'
    <3>1. PICK q : q = out'[k]
      OBVIOUS
    <3>2. Answers(q, k, p)'
      BY <1>7, <2>1, <3>1
    <3> QED
      BY <3>1, <3>2 DEF Answers
  <2> QED
    BY <2>2
<1> QED
  BY <1>5, <1>8 DEF InOrder

(* Generating identifiers keeps AnswerInv. *)
LEMMA AnswerGenerate ==
  ASSUME MainInv, MainInv', AnswerInv, Generate PROVE AnswerInv'
<1>0. /\ TypeOK /\ argv \in Argvs /\ argc \in Nat /\ idx = argc + 1 /\ OptionsRead
      /\ pc \in {"generate", "new"} /\ InOrder(idx) /\ Len(out) \in Nat
      /\ i = Len(out) /\ i <= count /\ count \in Nat /\ i \in Nat
  <2>1. pc \in {"generate", "new"}
    BY DEF Generate, CallNew, NewPrinted, NewFails, GenerateDone
  <2>2. TypeOK /\ argv \in Argvs /\ count \in Nat /\ i \in Nat /\ out \in Seq(Records)
    BY DEF MainInv, TypeOK
  <2> QED
    BY <2>1, <2>2, ArgcTyped DEF AnswerInv
<1>1. /\ UNCHANGED <<argv, idx, settings>> /\ helped' = helped
      /\ OptionsRead' /\ argc' = argc /\ idx' = idx /\ count' = count /\ argv' = argv
  BY <1>0, OptionsKept DEF Generate, CallNew, NewPrinted, NewFails, GenerateDone, settings
<1>2. /\ WordsBegin(argc + 1)
      /\ AskedCount = count /\ AskedProjection = format /\ AskedFormat = idformat
      /\ AskedPrefix <=> verbose
  BY <1>0, Settled
<1>3. PICK p : p = argc + 1
  OBVIOUS
<1>4. WordsBegin(p)' /\ AskedCount' = count /\ p = argc' + 1
  BY <1>1, <1>2, <1>3, AskedSame
<1>5. CASE CallNew
  <2>1. pc' = "new" /\ out' = out /\ i' = i /\ status' = status /\ i < count /\ status = -1
    BY <1>5 DEF CallNew, MoreToGenerate, MainInv
  <2>2. InOrder(idx)'
    BY <1>0, <1>1, <2>1, InOrderSame DEF InOrder
  <2> QED
    BY <1>0, <1>1, <2>1, <2>2 DEF AnswerInv, SuccessIsExact, FailureTellsHowFar
<1>6. CASE NewPrinted
  <2>1. /\ pc = "new" /\ PrintOne(idformat, "") /\ i' = i + 1 /\ pc' = "generate"
        /\ status' = -1 /\ i < count
    BY <1>6 DEF NewPrinted, MainInv, AnswerInv
  <2>2. ASSUME NEW r, NEW ok, r = Record(idformat, "", ok), ok \in BOOLEAN
        PROVE  Answers(r, Len(out) + 1, p)
    <3>1. /\ r.kind = idformat /\ r.text = "" /\ r.prefixed = verbose
          /\ r.shows = Shown(idformat, format, ok)
      BY <2>2 DEF Record
    <3>2. AskedPrefix \in BOOLEAN /\ verbose \in BOOLEAN
      BY <1>0 DEF AskedPrefix, TypeOK
    <3>3. r.prefixed = AskedPrefix
      BY <1>2, <3>1, <3>2
    <3>4. p > argc /\ ~(p <= argc)
      BY <1>0, <1>3
    <3>5. r.kind = AskedFormat /\ r.text = ""
      BY <1>2, <3>1
    <3>6. r.shows = Shown(r.kind, AskedProjection, ok)
      BY <1>2, <3>1
    <3> QED
      BY <2>2, <3>3, <3>4, <3>5, <3>6 DEF Answers
  <2>3. InOrder(p)' /\ Len(out') = Len(out) + 1
    <3>1. InOrder(p)
      BY <1>0, <1>3
    <3>2. PICK kind, text : kind = idformat /\ text = ""
      OBVIOUS
    <3>3. PrintOne(kind, text)
      BY <2>1, <3>2
    <3>4. \A r, ok : r = Record(kind, text, ok) /\ ok \in BOOLEAN => Answers(r, Len(out) + 1, p)
      BY <2>2, <3>2
    <3> QED
      BY <1>0, <1>1, <3>1, <3>3, <3>4, InOrderPrinted
  <2>4. InOrder(idx)'
    BY <1>0, <1>1, <1>3, <2>3 DEF InOrder
  <2>5. i' = Len(out') /\ i' <= count'
    <3>1. i' = i + 1 /\ i < count /\ i = Len(out) /\ i \in Nat /\ count \in Nat /\ count' = count
      BY <1>0, <1>1, <2>1
    <3> QED
      BY <2>3, <3>1
  <2>6. pc' = "generate" /\ status' = -1
    BY <2>1
  <2> QED
    BY <1>0, <1>1, <2>4, <2>5, <2>6 DEF AnswerInv, SuccessIsExact, FailureTellsHowFar
<1>7. CASE NewFails \/ GenerateDone
  <2>1. /\ pc' = "exited" /\ out' = out
        /\ \/ status' = 2 /\ i < count
           \/ status' = 0 /\ i = count
    BY <1>0, <1>7 DEF NewFails, GenerateDone, MoreToGenerate, Exit, AnswerInv
  <2>2. InOrder(p)'
    BY <1>0, <1>1, <1>3, <2>1, InOrderSame
  <2>3. p \in 1 .. (argc' + 1) /\ p > argc'
    BY <1>0, <1>1, <1>3
  <2>4. InOrder(argc + 1)' /\ WordsBegin(argc + 1)'
    BY <1>4, <2>2 DEF InOrder, WordsBegin
  <2>5. status' = 0 => SuccessIsExact'
    BY <1>0, <1>4, <2>1, <2>2, <2>3 DEF SuccessIsExact
  <2>6. status' = 2 => FailureTellsHowFar'
    BY <1>0, <1>4, <2>1, <2>4 DEF FailureTellsHowFar
  <2> QED
    BY <2>1, <2>5, <2>6 DEF AnswerInv, SuccessIsExact, FailureTellsHowFar
<1> QED
  BY <1>5, <1>6, <1>7 DEF Generate

(* Printing what is parsed keeps AnswerInv. *)
LEMMA AnswerParse ==
  ASSUME MainInv, MainInv', AnswerInv, Parse PROVE AnswerInv'
<1>0. /\ TypeOK /\ argv \in Argvs /\ argc \in Nat /\ idx \in 1 .. argc /\ OptionsRead
      /\ pc = "parse" /\ InOrder(idx) /\ Len(out) \in Nat /\ argv[idx].flag = "none"
      /\ i = idx + Len(out) /\ i <= argc + 1
  <2>1. pc = "parse"
    BY DEF Parse, ArgumentRefused, ArgumentPrinted, ParseDone
  <2>2. TypeOK /\ argv \in Argvs /\ idx \in 1 .. (argc + 1) /\ out \in Seq(Records)
    BY DEF MainInv, TypeOK
  <2>3. argc \in Nat
    BY <2>2, ArgcTyped
  <2> QED
    BY <2>1, <2>2, <2>3 DEF AnswerInv
<1>1. /\ UNCHANGED <<argv, idx, settings>> /\ helped' = helped
      /\ OptionsRead' /\ argc' = argc /\ idx' = idx /\ argv' = argv
  BY <1>0, OptionsKept DEF Parse, ArgumentRefused, ArgumentPrinted, ParseDone
<1>2. /\ WordsBegin(idx)
      /\ AskedProjection = format /\ AskedFormat = idformat
      /\ AskedPrefix <=> verbose
      /\ OptionsWith("--format=") # {} <=> idformat_explicit
  BY <1>0, Settled
<1>3. PICK p : p = idx
  OBVIOUS
<1>4. WordsBegin(p)' /\ p \in 1 .. argc'
  BY <1>0, <1>1, <1>2, <1>3, AskedSame
<1>5. CASE ArgumentPrinted
  <2> DEFINE w == Word(argv[i])
  <2>1. /\ PrintOne(Detected(w), w) /\ i' = i + 1 /\ pc' = "parse" /\ i <= argc
        /\ status' = -1
    BY <1>0, <1>5 DEF ArgumentPrinted, MainInv
  <2>2. ASSUME NEW r, NEW ok, r = Record(Detected(w), w, ok), ok \in BOOLEAN
        PROVE  Answers(r, Len(out) + 1, p)
    <3>1. /\ r.kind = Detected(w) /\ r.text = w /\ r.prefixed = verbose
          /\ r.shows = Shown(Detected(w), format, ok)
      BY <2>2 DEF Record
    <3>2. AskedPrefix \in BOOLEAN /\ verbose \in BOOLEAN
      BY <1>0 DEF AskedPrefix, TypeOK
    <3>3. r.prefixed = AskedPrefix
      BY <1>2, <3>1, <3>2
    <3>4. p <= argc /\ ~(p > argc) /\ p + (Len(out) + 1) - 1 = i
      BY <1>0, <1>3
    <3>5. r.kind = Detected(r.text) /\ r.text = Word(argv[p + (Len(out) + 1) - 1])
      BY <3>1, <3>4
    <3>6. \E fine \in BOOLEAN : r.shows = Shown(r.kind, AskedProjection, fine)
      BY <1>2, <2>2, <3>1
    <3> QED
      BY <3>3, <3>4, <3>5, <3>6 DEF Answers
  <2>3. InOrder(p)' /\ Len(out') = Len(out) + 1
    <3>1. InOrder(p)
      BY <1>0, <1>3
    <3>2. PICK kind, text : kind = Detected(w) /\ text = w
      OBVIOUS
    <3>3. PrintOne(kind, text)
      BY <2>1, <3>2
    <3>4. \A r, ok : r = Record(kind, text, ok) /\ ok \in BOOLEAN => Answers(r, Len(out) + 1, p)
      BY <2>2, <3>2
    <3> HIDE DEF w
    <3> QED
      BY <1>0, <1>1, <3>1, <3>3, <3>4, InOrderPrinted
  <2>4. InOrder(idx)'
    BY <1>0, <1>1, <1>3, <2>3 DEF InOrder
  <2>5. i' = idx' + Len(out') /\ i' <= argc' + 1
    BY <1>0, <1>1, <2>1, <2>3
  <2>6. idx' <= argc' /\ argv'[idx'].flag = "none"
    BY <1>0, <1>1
  <2> HIDE DEF w
  <2> QED
    BY <1>1, <2>1, <2>4, <2>5, <2>6 DEF AnswerInv, SuccessIsExact, FailureTellsHowFar
<1>6. CASE ArgumentRefused
  <2> DEFINE w == Word(argv[i])
  <2>1. pc' = "exited" /\ status' = 1 /\ out' = out /\ i <= argc /\ ~ArgumentAccepted(w)
    BY <1>6 DEF ArgumentRefused, Exit
  <2>2. WrongWord(w)
    BY <1>2, <2>1 DEF ArgumentAccepted, WrongWord
  <2>3. InOrder(p)'
    BY <1>0, <1>1, <1>3, <2>1, InOrderSame
  <2>4. /\ p + Len(out') <= argc'
        /\ WrongWord(Word(argv[p + Len(out)]))'
    <3>1. p + Len(out') = i /\ i <= argc'
      BY <1>0, <1>1, <1>3, <2>1
    <3>2. PICK x : x = w
      OBVIOUS
    <3>3. WrongWord(x)'
      BY <1>1, <2>2, <3>2, AskedSame
    <3>4. Word(argv'[p + Len(out')]) = x
      BY <1>1, <3>1, <3>2
    <3> QED
      BY <3>1, <3>3, <3>4 DEF WrongWord
  <2>5. FailureTellsHowFar'
    BY <1>4, <2>1, <2>3, <2>4 DEF FailureTellsHowFar
  <2> QED
    BY <2>1, <2>5 DEF AnswerInv, SuccessIsExact
<1>7. CASE ParseDone
  <2>1. pc' = "exited" /\ status' = 0 /\ out' = out /\ i > argc
    BY <1>7 DEF ParseDone, Exit
  <2>2. InOrder(p)'
    BY <1>0, <1>1, <1>3, <2>1, InOrderSame
  <2>3. /\ p \in 1 .. (argc' + 1) /\ ~(p > argc')
        /\ Len(out') = argc' - p + 1
    BY <1>0, <1>1, <1>3, <2>1
  <2>4. SuccessIsExact'
    BY <1>4, <2>2, <2>3 DEF SuccessIsExact
  <2> QED
    BY <2>1, <2>4 DEF AnswerInv, FailureTellsHowFar
<1> QED
  BY <1>5, <1>6, <1>7 DEF Parse

(* Every step of main keeps AnswerInv. *)
LEMMA AnswerNext == MainInv /\ MainInv' /\ AnswerInv /\ [Next]_vars => AnswerInv'
<1> SUFFICES ASSUME MainInv, MainInv', AnswerInv, [Next]_vars PROVE AnswerInv'
  OBVIOUS
<1>1. CASE UNCHANGED vars
  <2>1. /\ UNCHANGED <<argv, idx, settings>> /\ argv' = argv /\ out' = out /\ idx' = idx
        /\ pc' = pc /\ i' = i /\ status' = status /\ helped' = helped /\ count' = count
    BY <1>1 DEF vars, settings
  <2>2. argc' = argc /\ (OptionsRead => OptionsRead')
    BY <2>1, OptionsKept DEF argc
  <2>3. InOrder(idx)' <=> InOrder(idx)
    BY <2>1, InOrderSame DEF InOrder
  <2>4. SuccessIsExact'
    BY <2>1, <2>2, AskedSame, InOrderSame DEF AnswerInv, SuccessIsExact
  <2>5. FailureTellsHowFar'
    <3>1. FailureTellsHowFar
      BY DEF AnswerInv
    <3>2. WordsBegin(argc + 1)' <=> WordsBegin(argc + 1)
      BY <2>1, <2>2, AskedSame DEF WordsBegin
    <3>3. InOrder(argc + 1)' <=> InOrder(argc + 1)
      BY <2>1, <2>2, InOrderSame DEF InOrder
    <3>4. \A p : WrongWord(Word(argv[p + Len(out)]))' <=> WrongWord(Word(argv[p + Len(out)]))
      BY <2>1, AskedSame DEF WrongWord
    <3> QED
      BY <2>1, <2>2, <3>1, <3>2, <3>3, <3>4, AskedSame, InOrderSame DEF FailureTellsHowFar
  <2> QED
    BY <2>1, <2>2, <2>3, <2>4, <2>5 DEF AnswerInv
<1> QED
  BY <1>1, AnswerOptions, AnswerGenerate, AnswerParse DEF Next

(* AnswerInv is an invariant of main, whatever the library answers: the    *)
(* settings are what the options read so far ask for, and the output is    *)
(* what they and the words behind them ask for, in that order.             *)
THEOREM AnswerInvariance == Spec => []AnswerInv
  BY AnswerInit, AnswerNext, MainInvariance, PTL DEF Spec

-----------------------------------------------------------------------------
(* The composition.                                                        *)

(* A step of the program is a step of main, or main waits. *)
LEMMA StepIsMain == [GenNext]_gen_vars => [Next]_vars
  BY DEF GenNext, Progress, MainStep, ClockFails, DrawContinues, SeedBegins,
         OsProgress, OsInterrupted, SeedSucceeds, SeedFails, Next, Generate,
         gen_vars

(* A step of the program is a step of chronoid_os_random_bytes, or that    *)
(* waits.                                                                  *)
LEMMA StepIsOs == [GenNext]_gen_vars => [OsP!Next]_(OsP!vars)
<1> SUFFICES ASSUME [GenNext]_gen_vars PROVE OsP!Next \/ UNCHANGED os_vars
  BY DEF os_vars, OsP!vars
<1>1. CASE MainStep \/ ClockFails \/ DrawContinues \/ SeedSucceeds \/ SeedFails
  BY <1>1 DEF MainStep, ClockFails, DrawContinues, SeedSucceeds, SeedFails
<1>2. CASE SeedBegins
  BY <1>2 DEF SeedBegins, Os!Call, OsP!Call, OsP!Next
<1>3. CASE OsProgress
  <2>1. Os!Open => OsP!Open
    BY DEF Os!Open, OsP!Open, Os!Source, OsP!Source
  <2>2. Os!Deliver => OsP!Deliver
    <3>1. Os!Ready <=> OsP!Ready
      BY DEF Os!Ready, OsP!Ready, Os!Source, OsP!Source
    <3>2. Os!Delivered = OsP!Delivered
      BY DEF Os!Delivered, OsP!Delivered, Os!Ask, OsP!Ask, Os!Source, OsP!Source
    <3> QED
      BY <3>1, <3>2
         DEF Os!Deliver, OsP!Deliver, Os!Finished, OsP!Finished,
             Os!Return, OsP!Return, Os!Close, OsP!Close
  <2>3. Os!Fail => OsP!Fail
    BY DEF Os!Fail, OsP!Fail, Os!Close, OsP!Close, Os!FallBack, OsP!FallBack,
           Os!Return, OsP!Return
  <2> QED
    BY <1>3, <2>1, <2>2, <2>3 DEF OsProgress, OsP!Next
<1>4. CASE OsInterrupted
  BY <1>4 DEF OsInterrupted, Os!Interrupted, Os!vars, os_vars
<1>5. CASE UNCHANGED gen_vars
  BY <1>5 DEF gen_vars
<1> QED
  BY <1>1, <1>2, <1>3, <1>4, <1>5 DEF GenNext, Progress

(* The composed program implements main: nothing that the library does     *)
(* behind chronoid_ksuid_new shows in what main prints or returns.         *)
THEOREM ImplementsMain == GenSpec => Spec
<1>1. GenInit => Init
  BY DEF GenInit
<1> QED
  BY <1>1, StepIsMain, PTL DEF GenSpec, Spec

(* The composed program implements chronoid_os_random_bytes as RandOs      *)
(* specifies it.                                                           *)
THEOREM ImplementsOs == GenSpec => OsP!Spec
<1>1. GenInit => OsP!Init
  BY DEF GenInit, Os!Init, OsP!Init
<1> QED
  BY <1>1, StepIsOs, PTL DEF GenSpec, OsP!Spec

-----------------------------------------------------------------------------
(* What follows for the program from its two parts.                        *)

(* Types of main's variables, in the composed program. *)
THEOREM TypeCorrect == GenSpec => []TypeOK
<1>1. MainInv => TypeOK
  BY DEF MainInv
<1> QED
  BY <1>1, ImplementsMain, MainInvariance, PTL

(* For every command line, no record that the program prints is empty.     *)
THEOREM RecordsShowSomething == GenSpec => []NoEmptyRecord
<1>1. MainInv => NoEmptyRecord
  BY DEF MainInv
<1> QED
  BY <1>1, ImplementsMain, MainInvariance, PTL

(* Without --help, an exit status of 0 means that the program printed one  *)
(* record for each identifier that was asked for, in order, as the options *)
(* want it.                                                                *)
THEOREM SuccessMeansAll == GenSpec => []SuccessIsExact
<1>1. AnswerInv => SuccessIsExact
  BY DEF AnswerInv
<1> QED
  BY <1>1, ImplementsMain, AnswerInvariance, PTL

(* Any other exit status tells how far the program came: which option or   *)
(* word stopped it, and that everything before was printed.                *)
THEOREM FailureTells == GenSpec => []FailureTellsHowFar
<1>1. AnswerInv => FailureTellsHowFar
  BY DEF AnswerInv
<1> QED
  BY <1>1, ImplementsMain, AnswerInvariance, PTL

(* Every seed comes from a call that RandOsProofs speaks about. *)
LEMMA OsInvariance == GenSpec => []Os!OsInv
<1>1. OsP!ConstantsAssumption
  BY OsAssumption DEF Os!ConstantsAssumption, OsP!ConstantsAssumption
<1>2. OsP!Spec => []OsP!OsInv
  BY <1>1, OsP!Invariance
<1>3. OsP!OsInv => Os!OsInv
  BY DEF OsP!OsInv, Os!OsInv, OsP!TypeOK, Os!TypeOK, OsP!HeadFilled, Os!HeadFilled,
         OsP!SuccessIsComplete, Os!SuccessIsComplete,
         OsP!NoDescriptorLeak, Os!NoDescriptorLeak
<1> QED
  BY <1>2, <1>3, ImplementsOs, PTL

LEMMA KeyInit == ASSUME GenInit, Os!OsInv PROVE KeyInv
<1>1. /\ out = << >> /\ drawn = << >> /\ seeding = FALSE /\ seeded = FALSE
      /\ at = 0 /\ pc = "options" /\ status = -1
  BY DEF GenInit, Init, Os!Init
<1>2. Len(out) = 0 /\ Len(drawn) = 0 /\ drawn \in Seq({1 .. SeedBytes})
  BY <1>1
<1>3. KeyedOrRefused
  BY <1>1, <1>2 DEF KeyedOrRefused
<1> QED
  BY <1>1, <1>2, <1>3 DEF KeyInv

LEMMA AppendedSame ==
  ASSUME NEW e, NEW q \in Seq({e})
  PROVE  /\ Append(q, e) \in Seq({e})
         /\ Len(Append(q, e)) = Len(q) + 1
         /\ \A k \in 1 .. Len(Append(q, e)) : Append(q, e)[k] = e
<1>1. e \in {e}
  OBVIOUS
<1>2. Append(q, e) \in Seq({e}) /\ Len(Append(q, e)) = Len(q) + 1
  BY <1>1
<1> DEFINE r == Append(q, e)
<1>3. r \in Seq({e})
  BY <1>2
<1> HIDE DEF r
<1>4. \A k \in 1 .. Len(r) : r[k] \in {e}
  BY <1>3
<1> QED
  BY <1>2, <1>4 DEF r

(* A new identifier is printed and its key noted. *)
LEMMA KeyNewPrinted ==
  ASSUME MainInv, KeyInv, Os!OsInv', NewPrinted, drawn' = Append(drawn, 1 .. SeedBytes),
         ~seeding', at' = 0, seeded' => key' = 1 .. SeedBytes
  PROVE  KeyInv'
<1>0. drawn \in Seq({1 .. SeedBytes})
  BY DEF KeyInv
<1>1. drawn' \in Seq({1 .. SeedBytes}) /\ Len(drawn') = Len(drawn) + 1
  BY <1>0, AppendedSame
<1>2. \A k \in 1 .. Len(drawn') : drawn'[k] = 1 .. SeedBytes
  BY <1>0, AppendedSame
<1>3. Len(out') = Len(out) + 1 /\ Len(out') \in Nat
  <2>1. "" \in Texts /\ idformat \in IdFormats /\ format \in Projections
    BY DEF NewPrinted, Texts, MainInv
  <2>2. /\ ~(format = "payload" /\ idformat = "uuidv7") /\ PrintOne(idformat, "")
        /\ TypeOK /\ NoEmptyRecord
    BY DEF NewPrinted, MainInv
  <2>3. out' \in Seq(Records) /\ Len(out') = Len(out) + 1
    BY <2>1, <2>2, PrintKeeps
  <2> QED
    BY <2>3
<1>4. Len(out) = Len(drawn) /\ status' = -1 /\ pc' = "generate"
  BY DEF NewPrinted, KeyInv, MainInv
<1>5. Len(out') = Len(drawn')
  BY <1>1, <1>3, <1>4
<1>6. KeyedOrRefused'
  <2>1. \A k \in 1 .. Len(out') : k <= Len(drawn')
    BY <1>3, <1>5
  <2>2. status' # 2
    BY <1>4
  <2> QED
    BY <1>2, <2>1, <2>2 DEF KeyedOrRefused
<1> QED
  BY <1>1, <1>4, <1>5, <1>6 DEF KeyInv

(* main goes on without the library. *)
LEMMA KeyMain == ASSUME MainInv, MainInv', KeyInv, Os!OsInv', MainStep PROVE KeyInv'
<1>1. /\ drawn' = drawn /\ at' = at /\ n' = n /\ seeding' = seeding
      /\ seeded' = seeded /\ key' = key
  BY DEF MainStep, os_vars, slot_vars
<1>2. /\ drawn \in Seq({1 .. SeedBytes})
      /\ \A k \in 1 .. Len(drawn) : drawn[k] = 1 .. SeedBytes
      /\ seeded => key = 1 .. SeedBytes
      /\ at # 0 => seeding
      /\ seeding => pc = "new"
  BY DEF KeyInv, KeyedOrRefused
<1>3. CASE Options
  <2>1. /\ pc = "options" /\ out' = out
        /\ pc' \in {"options", "generate", "parse", "exited"} /\ status' # 2
    BY <1>3
       DEF Options, OptionIdFormat, OptionVerbose, OptionHelp, OptionUnknown,
           OptionValueMissing, OptionCount, OptionProjection, OptionsEnd, AtOption,
           Exit, MainInv
  <2>2. out' = << >> /\ drawn' = << >> /\ Len(out') = 0 /\ Len(drawn') = 0
    BY <1>1, <2>1 DEF KeyInv
  <2>3. KeyedOrRefused'
    BY <2>1, <2>2 DEF KeyedOrRefused
  <2> QED
    BY <1>1, <1>2, <2>1, <2>2, <2>3 DEF KeyInv
<1>4. CASE CallNew \/ GenerateDone
  <2>1. /\ pc = "generate" /\ out' = out /\ status' # 2
        /\ pc' \in {"new", "exited"} /\ ~seeding
    BY <1>2, <1>4 DEF CallNew, GenerateDone, Exit, MainInv
  <2>2. Len(out) = Len(drawn)
    BY <2>1 DEF KeyInv
  <2>3. KeyedOrRefused'
    <3>1. KeyedOrRefused
      BY DEF KeyInv
    <3> QED
      BY <1>1, <2>1, <3>1 DEF KeyedOrRefused
  <2> QED
    BY <1>1, <1>2, <2>1, <2>2, <2>3 DEF KeyInv
<1>5. CASE Parse
  <2>1. /\ pc = "parse" /\ pc' \in {"parse", "exited"} /\ status' # 2 /\ ~seeding
    BY <1>2, <1>5
       DEF Parse, ArgumentRefused, ArgumentPrinted, ParseDone, Exit, MainInv
  <2>2. \A k \in 1 .. Len(out) : out[k].text # ""
    BY <2>1 DEF KeyInv
  <2>3. \A k \in 1 .. Len(out') : out'[k].text # ""
    <3>1. CASE ArgumentRefused \/ ParseDone
      BY <2>2, <3>1 DEF ArgumentRefused, ParseDone
    <3>2. CASE ArgumentPrinted
      <4> DEFINE w == Word(argv[i])
      <4>1. /\ w \in Texts /\ w # "" /\ Detected(w) \in IdFormats
            /\ ~(format = "payload" /\ Detected(w) = "uuidv7")
        BY <3>2, AcceptedTyped DEF ArgumentPrinted
      <4>2. /\ TypeOK /\ NoEmptyRecord /\ format \in Projections
            /\ PrintOne(Detected(w), w)
        BY <2>1, <3>2 DEF ArgumentPrinted, MainInv
      <4> HIDE DEF w
      <4>3. /\ Len(out') = Len(out) + 1
            /\ \A k \in 1 .. Len(out) : out'[k] = out[k]
            /\ out'[Len(out) + 1].text = w
        BY <4>1, <4>2, PrintKeeps
      <4>4. Len(out) \in Nat
        BY <4>2 DEF TypeOK
      <4>5. ASSUME NEW k \in 1 .. Len(out') PROVE out'[k].text # ""
        <5>1. k \in 1 .. Len(out) \/ k = Len(out) + 1
          BY <4>3, <4>4
        <5> QED
          BY <2>2, <4>1, <4>3, <5>1
      <4> QED
        BY <4>5
    <3> QED
      BY <1>5, <3>1, <3>2 DEF Parse
  <2>4. KeyedOrRefused'
    BY <1>1, <1>2, <2>1, <2>3 DEF KeyedOrRefused
  <2> QED
    BY <1>1, <1>2, <2>1, <2>3, <2>4 DEF KeyInv
<1> QED
  BY <1>3, <1>4, <1>5 DEF MainStep

(* The library works while main waits. *)
LEMMA KeyWaits ==
  ASSUME MainInv, KeyInv, Os!OsInv', UNCHANGED vars, UNCHANGED <<slot_vars, drawn>>,
         pc = "new", seeding', n' = SeedBytes
  PROVE  KeyInv'
<1>1. /\ pc' = pc /\ out' = out /\ status' = -1 /\ drawn' = drawn
      /\ seeded' = seeded /\ key' = key
  BY DEF vars, slot_vars, MainInv
<1>2. KeyedOrRefused'
  <2>1. KeyedOrRefused
    BY DEF KeyInv
  <2>2. status' # 2
    BY <1>1
  <2> QED
    BY <1>1, <2>1, <2>2 DEF KeyedOrRefused
<1> QED
  BY <1>1, <1>2 DEF KeyInv

LEMMA KeyNext ==
  ASSUME MainInv, MainInv', Os!OsInv, Os!OsInv', KeyInv, [GenNext]_gen_vars
  PROVE  KeyInv'
<1>1. CASE MainStep
  BY <1>1, KeyMain
<1>2. CASE ClockFails
  <2>1. /\ pc = "new" /\ pc' = "exited" /\ out' = out /\ drawn' = drawn
        /\ clock_failed' = TRUE /\ at' = at /\ seeding' = seeding /\ ~seeding
        /\ seeded' = seeded /\ key' = key
    BY <1>2 DEF ClockFails, NewFails, Exit, os_vars, slot_vars
  <2>2. KeyedOrRefused'
    BY <2>1 DEF KeyInv, KeyedOrRefused
  <2> QED
    BY <2>1, <2>2 DEF KeyInv
<1>3. CASE DrawContinues
  <2>1. key = 1 .. SeedBytes /\ at = 0
    BY <1>3 DEF DrawContinues, KeyInv
  <2> QED
    BY <1>3, <2>1, KeyNewPrinted DEF DrawContinues, os_vars, slot_vars
<1>4. CASE SeedBegins
  BY <1>4, KeyWaits DEF SeedBegins
<1>5. CASE OsProgress \/ OsInterrupted
  <2>1. pc = "new" /\ n = SeedBytes
    BY <1>5 DEF OsProgress, OsInterrupted, KeyInv
  <2>2. n' = n
    BY <1>5 DEF OsProgress, OsInterrupted, Os!Open, Os!Deliver, Os!Fail, Os!Return,
                Os!FallBack, Os!Interrupted, Os!vars
  <2> QED
    BY <1>5, <2>1, <2>2, KeyWaits DEF OsProgress, OsInterrupted
<1>6. CASE SeedSucceeds
  <2>1. filled = 1 .. SeedBytes
    BY <1>6 DEF SeedSucceeds, KeyInv, Os!OsInv, Os!SuccessIsComplete
  <2> QED
    BY <1>6, <2>1, KeyNewPrinted DEF SeedSucceeds, os_vars
<1>7. CASE SeedFails
  <2>1. /\ pc' = "exited" /\ out' = out /\ drawn' = drawn /\ seeding' = FALSE
        /\ at' = at /\ at = 0 /\ ret' = "failed" /\ seeded' = seeded /\ key' = key
    BY <1>7 DEF SeedFails, NewFails, Exit, os_vars, slot_vars
  <2>2. KeyedOrRefused'
    BY <2>1 DEF KeyInv, KeyedOrRefused
  <2> QED
    BY <2>1, <2>2 DEF KeyInv
<1>8. CASE UNCHANGED gen_vars
  BY <1>8 DEF gen_vars, vars, os_vars, slot_vars, KeyInv, KeyedOrRefused
<1> QED
  BY <1>1, <1>2, <1>3, <1>4, <1>5, <1>6, <1>7, <1>8 DEF GenNext, Progress

(* Every identifier that the program prints as new was drawn from a key    *)
(* that the OS filled completely, and exit status 2 has one of its two     *)
(* causes.                                                                 *)
THEOREM KeyedOrRefusedAlways == GenSpec => []KeyedOrRefused
<1>1. GenInit /\ Os!OsInv => KeyInv
  BY KeyInit
<1>2. /\ MainInv /\ MainInv' /\ Os!OsInv /\ Os!OsInv' /\ KeyInv
      /\ [GenNext]_gen_vars
      => KeyInv'
  BY KeyNext
<1>3. KeyInv => KeyedOrRefused
  BY DEF KeyInv
<1> QED
  BY <1>1, <1>2, <1>3, ImplementsMain, MainInvariance, OsInvariance, PTL DEF GenSpec
=============================================================================

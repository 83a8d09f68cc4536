--------------------------------- MODULE Cli ---------------------------------
(***************************************************************************)
(* The command-line generator (examples/chronoid-gen.c): main walks over   *)
(* its arguments once, first the options and then either the generation    *)
(* loop or the positional identifiers, and prints as it goes, so that what *)
(* is already on stdout when it gives up is part of its behaviour.         *)
(*                                                                         *)
(* An argument is what main can tell about it: a flag with the text behind *)
(* "--format=", or a plain word.  A word may serve as the value of -n or   *)
(* -f or as an identifier; what strtol and the two parse functions make of *)
(* it is given by constants.  argv[0] is left out: argv[1] is the first    *)
(* argument.                                                               *)
(***************************************************************************)
EXTENDS Integers, Sequences

CONSTANTS
  Words,       \* the words and the values of --format= in them
  Argvs,       \* command lines
  NumberOf,    \* the words that strtol reads to their end, with their value
  KsuidWords,  \* words of CHRONOID_KSUID_STRING_LEN characters
  UuidWords,   \* words of CHRONOID_UUIDV7_STRING_LEN characters
  ValidWords   \* words that the parse function for their length accepts

IdFormats   == {"ksuid", "uuidv7"}
Projections == {"string", "inspect", "time", "timestamp", "payload", "raw"}
Flags       == {"none", "--format=", "--other", "-v", "-h", "-n", "-f", "-other"}
Texts       == Words \cup {"", "flag"}    \* "": none, "flag": a flag as a value
Argument    == [flag : Flags, text : Texts]

ASSUME ConstantsAssumption ==
  /\ Argvs \subseteq Seq(Argument)
  /\ \A w \in DOMAIN NumberOf : NumberOf[w] \in Int
  /\ KsuidWords \cap UuidWords = {}
  /\ "" \notin KsuidWords \cup UuidWords
  /\ "flag" \notin DOMAIN NumberOf    \* what begins with "-" is not positive

VARIABLES
  argv,
  idx,                \* the argument that the option loop looks at
  count, format, idformat, idformat_explicit, verbose,    \* main's locals
  pc,                 \* "options", "generate", "new", "parse" or "exited"
  i,                  \* identifiers generated, or the positional looked at
  out,                \* what is on stdout, one record per identifier
  helped,             \* has the usage text been printed on stdout?
  status              \* exit status, -1 while main runs

settings == <<count, format, idformat, idformat_explicit, verbose>>
vars == <<argv, idx, settings, pc, i, out, helped, status>>

argc == Len(argv)

Init ==
  /\ argv \in Argvs
  /\ idx = 1
  /\ count = 1
  /\ format = "string"
  /\ idformat = "ksuid"
  /\ idformat_explicit = FALSE
  /\ verbose = FALSE
  /\ pc = "options"
  /\ i = 0
  /\ out = << >>
  /\ helped = FALSE
  /\ status = -1

Exit(code) ==
  /\ pc' = "exited"
  /\ status' = code

-----------------------------------------------------------------------------
(* The option loop: one action per kind of argument.                       *)

parse_format(s)   == IF s \in Projections THEN s ELSE "unknown"
parse_idformat(s) == IF s \in IdFormats THEN s ELSE "unknown"

(* The text of an argument that is used as a value: no flag is one. *)
Word(a) == IF a.flag = "none" THEN a.text ELSE "flag"

AtOption(flags) == pc = "options" /\ idx <= argc /\ argv[idx].flag \in flags

OptionIdFormat ==
  /\ AtOption({"--format="})
  /\ idformat' = parse_idformat(argv[idx].text)
  /\ IF idformat' = "unknown"
     THEN Exit(1) /\ UNCHANGED <<idx, idformat_explicit>>
     ELSE idformat_explicit' = TRUE /\ idx' = idx + 1 /\ UNCHANGED <<pc, status>>
  /\ UNCHANGED <<argv, count, format, verbose, i, out, helped>>

(* Mutant: the loop does not move on behind the switch. *)
OptionVerboseStays ==
  /\ AtOption({"-v"})
  /\ verbose' = TRUE
  /\ UNCHANGED <<argv, idx, count, format, idformat, idformat_explicit, pc, i,
                 out, helped, status>>

OptionVerbose ==
  /\ AtOption({"-v"})
  /\ verbose' = TRUE
  /\ idx' = idx + 1
  /\ UNCHANGED <<argv, count, format, idformat, idformat_explicit, pc, i, out,
                 helped, status>>

OptionHelp ==
  /\ AtOption({"-h"})
  /\ helped' = TRUE
  /\ Exit(0)
  /\ UNCHANGED <<argv, idx, settings, i, out>>

OptionUnknown ==
  /\ AtOption({"--other", "-other"})
  /\ Exit(1)
  /\ UNCHANGED <<argv, idx, settings, i, out, helped>>

OptionValueMissing ==
  /\ AtOption({"-n", "-f"})
  /\ idx + 1 > argc
  /\ Exit(1)
  /\ UNCHANGED <<argv, idx, settings, i, out, helped>>

(* strtol must read the whole value and find a positive number. *)
CountAccepted(w) == w \in DOMAIN NumberOf /\ NumberOf[w] > 0

OptionCount ==
  /\ AtOption({"-n"})
  /\ idx + 1 <= argc
  /\ LET w == Word(argv[idx + 1]) IN
     IF CountAccepted(w)
     THEN /\ count' = NumberOf[w]
          /\ idx' = idx + 2
          /\ UNCHANGED <<pc, status>>
     ELSE Exit(1) /\ UNCHANGED <<count, idx>>
  /\ UNCHANGED <<argv, format, idformat, idformat_explicit, verbose, i, out, helped>>

OptionProjection ==
  /\ AtOption({"-f"})
  /\ idx + 1 <= argc
  /\ format' = parse_format(Word(argv[idx + 1]))
  /\ IF format' = "unknown"
     THEN Exit(1) /\ UNCHANGED idx
     ELSE idx' = idx + 2 /\ UNCHANGED <<pc, status>>
  /\ UNCHANGED <<argv, count, idformat, idformat_explicit, verbose, i, out, helped>>

(* Mutant: only the check for positional arguments is made. *)
PayloadRefusedLater == FALSE

(* -f payload has no meaning for generated UUIDv7 identifiers. *)
PayloadRefused == idx > argc /\ format = "payload" /\ idformat = "uuidv7"

(* The first argument that is no option, or the end, ends the loop. *)
OptionsEnd ==
  /\ pc = "options"
  /\ idx <= argc => argv[idx].flag = "none"
  /\ IF PayloadRefused
     THEN Exit(1) /\ UNCHANGED i
     ELSE /\ pc' = IF idx > argc THEN "generate" ELSE "parse"
          /\ i' = IF idx > argc THEN 0 ELSE idx
          /\ UNCHANGED status
  /\ UNCHANGED <<argv, idx, settings, out, helped>>

-----------------------------------------------------------------------------
(* Printing.  A record shows the fields of its projection, in order, and   *)
(* behind the identifier itself when -v was given.                         *)

Fields ==
  {"string", "hex", "bytes", "timestamp", "local time", "seconds", "utc time",
   "milliseconds", "payload hex", "payload bytes", "version", "variant",
   "rand_a", "rand_b"}

(* The calendar functions may refuse a time: then the bare number is shown. *)
fputs_time_local(ok)  == IF ok THEN "local time" ELSE "seconds"
fputs_time_utc_ms(ok) == IF ok THEN "utc time" ELSE "milliseconds"

print_one_ksuid(projection, ok) ==
  CASE projection = "string"    -> << "string" >>
    [] projection = "inspect"   -> << "string", "hex", fputs_time_local(ok),
                                      "timestamp", "payload hex" >>
    [] projection = "time"      -> << fputs_time_local(ok) >>
    [] projection = "timestamp" -> << "timestamp" >>
    [] projection = "payload"   -> << "payload bytes" >>
    [] projection = "raw"       -> << "bytes" >>
    [] OTHER                    -> << >>

print_one_uuidv7(projection, ok) ==
  CASE projection = "string"    -> << "string" >>
    [] projection = "inspect"   -> << "string", "hex", fputs_time_utc_ms(ok),
                                      "timestamp", "version", "variant",
                                      "rand_a", "rand_b" >>
    [] projection = "time"      -> << fputs_time_utc_ms(ok) >>
    [] projection = "timestamp" -> << "timestamp" >>
    [] projection = "raw"       -> << "bytes" >>
    [] OTHER                    -> << >>

Shown(kind, projection, ok) ==
  IF kind = "uuidv7" THEN print_one_uuidv7(projection, ok)
  ELSE print_one_ksuid(projection, ok)

(* A line of output: kind and text of the identifier, "" for a new one. *)
Record(kind, text, ok) ==
  [kind |-> kind, text |-> text, prefixed |-> verbose,
   shows |-> Shown(kind, format, ok)]

PrintOne(kind, text) ==
  \E ok \in BOOLEAN : out' = Append(out, Record(kind, text, ok))

-----------------------------------------------------------------------------
(* Generation mode.                                                        *)

MoreToGenerate == i < count

(* chronoid_ksuid_new or chronoid_uuidv7_new is called. *)
CallNew ==
  /\ pc = "generate" /\ MoreToGenerate
  /\ pc' = "new"
  /\ UNCHANGED <<argv, idx, settings, i, out, helped, status>>

(* It succeeds. *)
NewPrinted ==
  /\ pc = "new"
  /\ PrintOne(idformat, "")
  /\ i' = i + 1
  /\ pc' = "generate"
  /\ UNCHANGED <<argv, idx, settings, helped, status>>

(* It fails, for want of entropy or of a clock. *)
NewFails ==
  /\ pc = "new"
  /\ Exit(2)
  /\ UNCHANGED <<argv, idx, settings, i, out, helped>>

GenerateDone ==
  /\ pc = "generate" /\ ~MoreToGenerate
  /\ Exit(0)
  /\ UNCHANGED <<argv, idx, settings, i, out, helped>>

-----------------------------------------------------------------------------
(* Parse mode.                                                             *)

Detected(w) ==
  CASE w \in KsuidWords -> "ksuid"
    [] w \in UuidWords  -> "uuidv7"
    [] OTHER            -> "unknown"

(* Mutant: the default format counts as if --format had been given. *)
ArgumentAcceptedByDefault(w) ==
  /\ Detected(w) # "unknown"
  /\ Detected(w) = idformat
  /\ ~(format = "payload" /\ Detected(w) = "uuidv7")
  /\ w \in ValidWords

(* Length, agreement with --format, projection, and the parse function. *)
ArgumentAccepted(w) ==
  /\ Detected(w) # "unknown"
  /\ idformat_explicit => Detected(w) = idformat
  /\ ~(format = "payload" /\ Detected(w) = "uuidv7")
  /\ w \in ValidWords

(* Mutant: an argument that is refused does not stop the program. *)
ArgumentSkipped ==
  /\ pc = "parse" /\ i <= argc
  /\ ~ArgumentAccepted(Word(argv[i]))
  /\ i' = i + 1
  /\ UNCHANGED <<argv, idx, settings, pc, out, helped, status>>

ArgumentRefused ==
  /\ pc = "parse" /\ i <= argc
  /\ ~ArgumentAccepted(Word(argv[i]))
  /\ Exit(1)
  /\ UNCHANGED <<argv, idx, settings, i, out, helped>>

ArgumentPrinted ==
  /\ pc = "parse" /\ i <= argc
  /\ ArgumentAccepted(Word(argv[i]))
  /\ PrintOne(Detected(Word(argv[i])), Word(argv[i]))
  /\ i' = i + 1
  /\ UNCHANGED <<argv, idx, settings, pc, helped, status>>

ParseDone ==
  /\ pc = "parse" /\ i > argc
  /\ Exit(0)
  /\ UNCHANGED <<argv, idx, settings, i, out, helped>>

-----------------------------------------------------------------------------
Options ==
  \/ OptionIdFormat \/ OptionVerbose \/ OptionHelp \/ OptionUnknown
  \/ OptionValueMissing \/ OptionCount \/ OptionProjection \/ OptionsEnd

Generate == CallNew \/ NewPrinted \/ NewFails \/ GenerateDone

Parse == ArgumentRefused \/ ArgumentPrinted \/ ParseDone

Next == Options \/ Generate \/ Parse

Spec == Init /\ [][Next]_vars

-----------------------------------------------------------------------------
(* What a command line asks for, read as a whole.                          *)

(* The position behind the option at p, with its value; p itself if there  *)
(* is no option.                                                           *)
Behind(av, p) ==
  IF p > Len(av) THEN p
  ELSE CASE av[p].flag \in {"-v", "--format="} -> p + 1
         [] av[p].flag \in {"-n", "-f"}        -> p + 2
         [] OTHER                              -> p

(* Where the k-th option begins, or, if there are fewer, where they end. *)
Starts(av) ==
  LET start[k \in 0 .. Len(av)] == IF k = 0 THEN 1 ELSE Behind(av, start[k - 1])
  IN  start

Begins(p) == \E k \in 0 .. argc : Starts(argv)[k] = p

OptionsWith(flag) == {p \in 1 .. argc : Begins(p) /\ argv[p].flag = flag}

(* Of an option that is given several times the last one counts. *)
LastOf(options) == CHOOSE p \in options : \A q \in options : q <= p

CountAt(options) ==
  IF options = {} THEN 1 ELSE NumberOf[Word(argv[LastOf(options) + 1])]
ProjectionAt(options) ==
  IF options = {} THEN "string" ELSE Word(argv[LastOf(options) + 1])
FormatAt(options) ==
  IF options = {} THEN "ksuid" ELSE argv[LastOf(options)].text

AskedCount      == CountAt(OptionsWith("-n"))
AskedProjection == ProjectionAt(OptionsWith("-f"))
AskedFormat     == FormatAt(OptionsWith("--format="))
AskedPrefix     == OptionsWith("-v") # {}

(* Words begin at p; at argc + 1 there are none, and identifiers are       *)
(* generated.                                                              *)
WordsBegin(p) == Begins(p) /\ (p <= argc => argv[p].flag = "none")

(* The record asked for in the k-th place when words begin at p. *)
Answers(r, k, p) ==
  /\ p > argc  => r.kind = AskedFormat /\ r.text = ""
  /\ p <= argc => r.kind = Detected(r.text) /\ r.text = Word(argv[p + k - 1])
  /\ r.prefixed = AskedPrefix
  /\ \E ok \in BOOLEAN : r.shows = Shown(r.kind, AskedProjection, ok)

(* Everything printed so far was asked for, in this order. *)
InOrder(p) == \A k \in 1 .. Len(out) : Answers(out[k], k, p)

WrongValue(p) ==
  \/ argv[p].flag \in {"--other", "-other"}
  \/ argv[p].flag = "--format=" /\ argv[p].text \notin IdFormats
  \/ argv[p].flag \in {"-n", "-f"} /\ p = argc
  \/ argv[p].flag = "-n" /\ p < argc /\ ~CountAccepted(Word(argv[p + 1]))
  \/ argv[p].flag = "-f" /\ p < argc /\ Word(argv[p + 1]) \notin Projections

WrongWord(w) ==
  \/ w \notin ValidWords
  \/ Detected(w) = "unknown"
  \/ OptionsWith("--format=") # {} /\ Detected(w) # AskedFormat
  \/ Detected(w) = "uuidv7" /\ AskedProjection = "payload"

-----------------------------------------------------------------------------
Records ==
  [kind : IdFormats, text : Texts, prefixed : BOOLEAN, shows : Seq(Fields)]

(* Types of every variable. *)
TypeOK ==
  /\ argv \in Argvs
  /\ idx \in 1 .. (argc + 1)
  /\ count \in Nat \ {0}
  /\ format \in Projections \cup {"unknown"}
  /\ idformat \in IdFormats \cup {"unknown"}
  /\ idformat_explicit \in BOOLEAN
  /\ verbose \in BOOLEAN
  /\ pc \in {"options", "generate", "new", "parse", "exited"}
  /\ i \in Nat
  /\ out \in Seq(Records)
  /\ helped \in BOOLEAN
  /\ status \in {-1, 0, 1, 2}

(* Exit status 0 means that everything that was asked for is on stdout:    *)
(* one record per identifier, in order, each in the projection of the last *)
(* -f, prefixed if -v was among the options, of the format of the last     *)
(* --format or of the length of the word.  Values of options are never     *)
(* taken for options, nor options behind the first word.                   *)
SuccessIsExact ==
  status = 0 /\ ~helped =>
    \E p \in 1 .. (argc + 1) :
      /\ WordsBegin(p)
      /\ InOrder(p)
      /\ Len(out) = IF p > argc THEN AskedCount ELSE argc - p + 1

(* A failing exit status says how far the program came.  Status 1 without  *)
(* output: an option is wrong, or payloads of new UUIDv7s were asked for.  *)
(* Status 1 otherwise: the word behind the last record is the wrong one.   *)
(* Status 2: identifiers were being generated and some are missing.        *)
FailureTellsHowFar ==
  /\ status = 1 =>
       \/ out = << >> /\ \E p \in 1 .. argc : Begins(p) /\ WrongValue(p)
       \/ /\ out = << >> /\ WordsBegin(argc + 1)
          /\ AskedProjection = "payload" /\ AskedFormat = "uuidv7"
       \/ \E p \in 1 .. argc :
            /\ WordsBegin(p) /\ InOrder(p)
            /\ p + Len(out) <= argc /\ WrongWord(Word(argv[p + Len(out)]))
  /\ status = 2 =>
       WordsBegin(argc + 1) /\ InOrder(argc + 1) /\ Len(out) < AskedCount

(* No record is empty: the combination that print_one_uuidv7 has no case   *)
(* for is refused by main before it gets there, in both modes.             *)
NoEmptyRecord == \A k \in 1 .. Len(out) : out[k].shows # << >>

(* The inductive invariant behind the theorems about main: while it runs   *)
(* both settings are known ones, and it generates only what it can print.  *)
MainInv ==
  /\ TypeOK
  /\ NoEmptyRecord
  /\ pc = "exited" <=> status # -1
  /\ pc # "exited" => format \in Projections /\ idformat \in IdFormats
  /\ pc \in {"generate", "new"} => ~(format = "payload" /\ idformat = "uuidv7")
  /\ pc = "parse" => i >= 1

(* The options with this flag that main has read. *)
ReadSoFar(flag) == {p \in 1 .. (idx - 1) : argv[p].flag = flag}

(* What main holds while it runs: it has read every option before idx, no  *)
(* value of an option was one itself, and its settings are those that the  *)
(* options read so far ask for.                                            *)
OptionsRead ==
  /\ \E k \in 0 .. (idx - 1) : Starts(argv)[k] = idx
  /\ \A p \in 1 .. (idx - 1) : argv[p].flag # "none" => Begins(p)
  /\ idx > 1 => argv[idx - 1].flag \notin {"-n", "-f"}
  /\ count = CountAt(ReadSoFar("-n"))
  /\ format = ProjectionAt(ReadSoFar("-f"))
  /\ idformat = FormatAt(ReadSoFar("--format="))
  /\ idformat_explicit <=> ReadSoFar("--format=") # {}
  /\ verbose <=> ReadSoFar("-v") # {}

(* The inductive invariant behind the theorems about exit status and       *)
(* output: behind the options, what is on stdout is the head of the answer *)
(* that i says.                                                            *)
AnswerInv ==
  /\ pc # "exited" => OptionsRead
  /\ pc = "options" => out = << >>
  /\ pc \in {"generate", "new"} =>
       /\ idx = argc + 1 /\ InOrder(idx)
       /\ i = Len(out) /\ i <= count
       /\ pc = "new" => i < count
  /\ pc = "parse" =>
       /\ idx <= argc /\ argv[idx].flag = "none" /\ InOrder(idx)
       /\ i = idx + Len(out) /\ i <= argc + 1
  /\ SuccessIsExact
  /\ FailureTellsHowFar
=============================================================================

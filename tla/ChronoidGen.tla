----------------------------- MODULE ChronoidGen -----------------------------
(***************************************************************************)
(* The command-line generator on top of the library: main of Cli calls     *)
(* chronoid_ksuid_new or chronoid_uuidv7_new, which read the clock and     *)
(* draw from the one thread's CSPRNG, which seeds itself with SeedBytes    *)
(* from chronoid_os_random_bytes (RandOs).  No override is installed, so   *)
(* chronoid_internal_fill_random always takes the default source.          *)
(***************************************************************************)
EXTENDS Cli

CONSTANTS
  Builds, EntropyCap, BcryptCap,   \* of RandOs
  SeedBytes                        \* key and nonce (44)

ASSUME SeedAssumption == SeedBytes \in Nat \ {0}

VARIABLES
  chain, at, n, off, filled, fd, ret,   \* of RandOs
  seeding,     \* is chronoid_tls_rng_seed waiting for the OS?
  seeded,      \* seeded of the thread's slot
  key,         \* bytes of the slot's key and nonce that are entropy
  drawn,       \* history: the key that each new identifier was drawn from
  clock_failed \* history: did the clock show no usable time?

Os == INSTANCE RandOs WITH MaxBytes <- SeedBytes

ASSUME OsAssumption == Os!ConstantsAssumption

os_vars   == <<chain, at, n, off, filled, fd, ret>>
slot_vars == <<seeded, key>>
gen_vars  == <<vars, os_vars, slot_vars, seeding, drawn, clock_failed>>

GenInit ==
  /\ Init
  /\ Os!Init
  /\ seeding = FALSE
  /\ seeded = FALSE
  /\ key = {}
  /\ drawn = << >>
  /\ clock_failed = FALSE

(* main works on its arguments and its output. *)
MainStep ==
  /\ Options \/ CallNew \/ GenerateDone \/ Parse
  /\ UNCHANGED <<os_vars, slot_vars, seeding, drawn, clock_failed>>

(* The clock cannot be read, or shows a time that the format cannot hold:  *)
(* chronoid_ksuid_new and chronoid_uuidv7_new return before they draw.     *)
ClockFails ==
  /\ ~seeding
  /\ NewFails
  /\ clock_failed' = TRUE
  /\ UNCHANGED <<os_vars, slot_vars, seeding, drawn>>

(* A seeded slot that is not due for a new key serves the draw. *)
DrawContinues ==
  /\ ~seeding /\ seeded
  /\ NewPrinted
  /\ drawn' = Append(drawn, key)
  /\ UNCHANGED <<os_vars, slot_vars, seeding, clock_failed>>

(* The slot is new, or its age or a clock that went back asks for a key. *)
SeedBegins ==
  /\ pc = "new" /\ ~seeding
  /\ Os!Call /\ n' = SeedBytes
  /\ seeding' = TRUE
  /\ UNCHANGED <<vars, slot_vars, drawn, clock_failed>>

OsProgress ==
  /\ seeding
  /\ Os!Open \/ Os!Deliver \/ Os!Fail
  /\ UNCHANGED <<vars, slot_vars, seeding, drawn, clock_failed>>

OsInterrupted ==
  /\ seeding
  /\ Os!Interrupted
  /\ UNCHANGED <<vars, slot_vars, seeding, drawn, clock_failed>>

(* The OS delivered: the slot is keyed and the draw succeeds. *)
SeedSucceeds ==
  /\ seeding /\ at = 0 /\ ret = "ok"
  /\ seeded' = TRUE /\ key' = filled
  /\ NewPrinted
  /\ drawn' = Append(drawn, filled)
  /\ seeding' = FALSE
  /\ UNCHANGED <<os_vars, clock_failed>>

(* Mutant: the result of chronoid_os_random_bytes is not looked at. *)
SeedFailureIgnored ==
  /\ seeding /\ at = 0 /\ ret = "failed"
  /\ seeded' = TRUE /\ key' = filled
  /\ NewPrinted
  /\ drawn' = Append(drawn, filled)
  /\ seeding' = FALSE
  /\ UNCHANGED <<os_vars, clock_failed>>

(* It did not: -1 becomes CHRONOID_*_ERR_RNG and exit status 2, and the    *)
(* slot keeps the key it had.                                              *)
SeedFails ==
  /\ seeding /\ at = 0 /\ ret = "failed"
  /\ NewFails
  /\ seeding' = FALSE
  /\ UNCHANGED <<os_vars, slot_vars, drawn, clock_failed>>

Progress ==
  \/ MainStep \/ ClockFails \/ DrawContinues
  \/ SeedBegins \/ OsProgress \/ SeedSucceeds \/ SeedFails

GenNext == Progress \/ OsInterrupted

GenSpec == GenInit /\ [][GenNext]_gen_vars

(* The program runs, and the kernel does not interrupt it for ever. *)
GenFairSpec == GenSpec /\ WF_gen_vars(Progress)

-----------------------------------------------------------------------------
(* "Silently producing zero or low-entropy bytes from an ID library would  *)
(* be a worst-case correctness bug": every identifier that the program has *)
(* printed as new was drawn from a key that the OS filled to the last      *)
(* byte, and the program gives up with status 2 only when the clock showed *)
(* no usable time or every source of entropy has failed.                   *)
KeyedOrRefused ==
  /\ \A k \in 1 .. Len(drawn) : drawn[k] = 1 .. SeedBytes
  /\ \A k \in 1 .. Len(out) : out[k].text = "" => k <= Len(drawn)
  /\ status = 2 => clock_failed \/ ret = "failed"

(* The inductive invariant behind the theorem about KeyedOrRefused: the    *)
(* entropy source is only at work on a seed, a seeded slot has a complete  *)
(* key, and output and draws go together.                                  *)
KeyInv ==
  /\ Os!OsInv
  /\ drawn \in Seq({1 .. SeedBytes})
  /\ at # 0 => seeding
  /\ seeding => pc = "new" /\ n = SeedBytes
  /\ seeded => key = 1 .. SeedBytes
  /\ pc = "options" => out = << >> /\ drawn = << >>
  /\ pc \in {"generate", "new"} => Len(out) = Len(drawn)
  /\ pc = "parse" => \A k \in 1 .. Len(out) : out[k].text # ""
  /\ KeyedOrRefused

(* The program ends, whatever its arguments and its sources of entropy do. *)
Terminates == <>(pc = "exited")
=============================================================================

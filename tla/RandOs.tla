------------------------------- MODULE RandOs -------------------------------
(***************************************************************************)
(* chronoid_os_random_bytes (chronoid/rand_os.c): one request for n bytes  *)
(* tried on the sources that the build has, in order.  A source may be     *)
(* interrupted, deliver fewer bytes than asked, or fail after it delivered *)
(* some; the next one starts again from the first byte.  On Windows the    *)
(* chain is BCryptGenRandom alone.                                         *)
(***************************************************************************)
EXTENDS Integers, Sequences

CONSTANTS
  Builds,       \* chains of sources, e.g. <<"getrandom", "getentropy", "urandom">>
  MaxBytes,     \* largest request; bounds the model
  EntropyCap,   \* most bytes one getentropy call may ask for (256)
  BcryptCap     \* most bytes one BCryptGenRandom call may ask for (2^32 - 1)

ASSUME ConstantsAssumption ==
  /\ Builds \subseteq Seq({"getrandom", "getentropy", "urandom", "bcrypt"})
  /\ << >> \notin Builds
  /\ MaxBytes \in Nat
  /\ EntropyCap \in Nat \ {0}
  /\ BcryptCap \in Nat \ {0}

VARIABLES
  chain,   \* the sources of this build; never changes
  at,      \* index of the source being tried; 0 outside a call
  n,       \* bytes requested
  off,     \* bytes the current source has delivered
  filled,  \* history: bytes of buf that hold entropy from this call
  fd,      \* descriptors of /dev/urandom this call has open
  ret      \* result of the last call: "ok" (0), "failed" (-1) or "none"

vars == <<chain, at, n, off, filled, fd, ret>>

Source == chain[at]

Init ==
  /\ chain \in Builds
  /\ at = 0 /\ n = 0 /\ off = 0
  /\ filled = {}
  /\ fd = 0
  /\ ret = "none"

Return(status) ==
  /\ at' = 0
  /\ off' = 0
  /\ ret' = status
  /\ UNCHANGED <<chain, n>>

(* chronoid_os_random_bytes with n = 0 returns before any source is tried. *)
Call ==
  /\ at = 0
  /\ n' \in 0 .. MaxBytes
  /\ off' = 0
  /\ filled' = {}
  /\ at' = IF n' = 0 THEN 0 ELSE 1
  /\ ret' = IF n' = 0 THEN "ok" ELSE "none"
  /\ UNCHANGED <<chain, fd>>

(* Most bytes the current source is asked for at once. *)
Ask ==
  LET left == n - off IN
  CASE Source = "getentropy" -> IF left > EntropyCap THEN EntropyCap ELSE left
    [] Source = "bcrypt"     -> IF left > BcryptCap THEN BcryptCap ELSE left
    [] OTHER                 -> left

(* getrandom and read may deliver less than asked; the others may not. *)
Delivered ==
  IF Source \in {"getrandom", "urandom"} THEN 1 .. Ask ELSE {Ask}

(* open() of /dev/urandom succeeds. *)
Open ==
  /\ at # 0 /\ Source = "urandom" /\ fd = 0
  /\ fd' = 1
  /\ UNCHANGED <<chain, at, n, off, filled, ret>>

(* Mutant: chronoid_random_via_urandom returns without closing. *)
CloseForgotten == UNCHANGED fd

Close == fd' = 0

Ready == at # 0 /\ (Source = "urandom" => fd = 1)

(* Mutant: a short delivery counts as the whole request. *)
FinishedAnyway(m) == TRUE

(* Is the request complete after m bytes from the current source? *)
Finished(m) == m >= n

(* Bytes arrive; the loop goes on, or the call returns 0. *)
Deliver ==
  /\ Ready
  /\ \E m \in Delivered :
       /\ filled' = filled \cup (off + 1) .. (off + m)
       /\ IF Finished(off + m)
          THEN Return("ok") /\ Close
          ELSE off' = off + m /\ UNCHANGED <<chain, at, n, fd, ret>>

(* EINTR: getrandom, open and read are repeated. *)
Interrupted ==
  /\ at # 0
  /\ Source \in {"getrandom", "urandom"}
  /\ UNCHANGED vars

(* Mutant: the fallback tries the source that has just failed. *)
FallBackStays ==
  /\ off' = 0
  /\ UNCHANGED <<chain, at, n, ret>>

(* The next source of the chain starts over. *)
FallBack ==
  /\ at' = at + 1
  /\ off' = 0
  /\ UNCHANGED <<chain, n, ret>>

(* A source gives up: a hard error, a failed open, or end of file on       *)
(* /dev/urandom.  The last one's failure is the call's.                    *)
Fail ==
  /\ at # 0
  /\ UNCHANGED filled
  /\ Close
  /\ IF at < Len(chain) THEN FallBack ELSE Return("failed")

Next == Call \/ Open \/ Deliver \/ Interrupted \/ Fail

Spec == Init /\ [][Next]_vars

(* No source is interrupted for ever: the kernel answers in the end. *)
FairSpec == Spec /\ WF_vars(Open \/ Deliver \/ Fail)

-----------------------------------------------------------------------------
(* Types of every variable; no source runs past the end of the buffer. *)
TypeOK ==
  /\ chain \in Builds
  /\ at \in 0 .. Len(chain)
  /\ n \in 0 .. MaxBytes
  /\ off \in 0 .. n
  /\ filled \in SUBSET (1 .. n)
  /\ fd \in {0, 1}
  /\ ret \in {"ok", "failed", "none"}

(* A successful chronoid_os_random_bytes has filled every byte of the      *)
(* caller's buffer, whatever mixture of short deliveries, interruptions    *)
(* and fallbacks led to it: a key never contains stale stack bytes.        *)
SuccessIsComplete == ret = "ok" => filled = 1 .. n

(* However the call ends, /dev/urandom is closed again. *)
NoDescriptorLeak == at = 0 => fd = 0

(* What the current source has delivered is at the head of the buffer. *)
HeadFilled == at # 0 => off < n /\ (1 .. off) \subseteq filled /\ ret = "none"

(* The inductive invariant behind the safety theorems. *)
OsInv == TypeOK /\ HeadFilled /\ SuccessIsComplete /\ NoDescriptorLeak

(* A call returns. *)
CallReturns == at # 0 ~> at = 0
=============================================================================

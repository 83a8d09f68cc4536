--------------------------- MODULE MonotonicSource ---------------------------
(***************************************************************************)
(* What the two sequence types of libchronoid promise their callers,       *)
(* stated without any of their machinery: a source hands out identifiers   *)
(* one at a time, each one strictly greater (as an unsigned big-endian     *)
(* number, the order of memcmp) than every identifier it handed out since  *)
(* it was last initialised.  A call may also fail; a failure hands out     *)
(* nothing and is a stuttering step here.                                  *)
(***************************************************************************)
EXTENDS Integers

VARIABLES
  high,   \* the greatest identifier handed out, None before the first
  turn    \* flips whenever an identifier is handed out, so that handing out
          \* the same one twice is a step and not a stutter

vars == <<high, turn>>

None == -1

Init == high = None /\ turn = 0

(* A successful call. *)
Issue ==
  /\ high' \in Nat
  /\ high' > high
  /\ turn' = 1 - turn

(* The caller initialises the source again: its promise starts afresh. *)
Restart == high' = None /\ turn' = 0

Next == Issue \/ Restart

Spec == Init /\ [][Next]_vars
=============================================================================

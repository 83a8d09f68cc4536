-------------------------- MODULE MCUuidv7Sequence --------------------------
(***************************************************************************)
(* Three milliseconds, three counter values and two tails: ticks,          *)
(* rollovers and the end of the range are a few calls apart.  The clock    *)
(* reads anything from failure to one past the range.                      *)
(***************************************************************************)
EXTENDS Uuidv7Sequence

MCReadings == -1 .. (MaxMs + 1)
=============================================================================

------------------------------ MODULE MCRandTls ------------------------------
(***************************************************************************)
(* Clock readings for the instances of RandTls: the clock works, fails,    *)
(* steps back and runs past the reseed age (ReseedSeconds is 2).           *)
(***************************************************************************)
EXTENDS RandTls, TLC

UnsteadyClock == {-1, 0, 1, 2}
SteadyClock   == {0}

(* Threads other than the first one are alike, and so are pids. *)
Alike == Permutations(Tasks \ {Main}) \cup Permutations(Pids)
=============================================================================

---------------------------- MODULE MCChronoidGen ----------------------------
EXTENDS ChronoidGen, SequencesExt

Flag(f)   == [flag |-> f, text |-> ""]
Plain(w)  == [flag |-> "none", text |-> w]
Format(f) == [flag |-> "--format=", text |-> f]

MCWords ==
  {"ksuid", "uuidv7", "wat", "2", "0", "payload", "inspect", "K", "Kx", "U", "Ux"}

(* Every kind of argument, and for each constant a word in it and one that *)
(* is not: "0" is a number that -n refuses, K and U are identifiers, Kx    *)
(* and Ux have their length but do not parse.                              *)
MCArguments ==
  {Flag(f) : f \in {"-v", "-h", "-n", "-f", "-other", "--other"}}
    \cup {Format(f) : f \in {"ksuid", "uuidv7", "wat"}}
    \cup {Plain(w) : w \in {"2", "0", "payload", "inspect", "K", "Kx", "U", "Ux"}}

(* The ones that work together, for longer command lines. *)
MCWorking ==
  {Flag(f) : f \in {"-n", "-f"}} \cup {Format(f) : f \in {"ksuid", "uuidv7"}}
    \cup {Plain(w) : w \in {"2", "payload", "K", "U"}}

MCArgvs == SeqOf(MCArguments, 4) \cup SeqOf(MCWorking, 5)

MCNumberOf == [w \in {"2", "0"} |-> IF w = "2" THEN 2 ELSE 0]

MCBuilds == { << "getrandom", "urandom" >> }
=============================================================================

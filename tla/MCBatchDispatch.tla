--------------------------- MODULE MCBatchDispatch ---------------------------
EXTENDS BatchDispatch

(* A good machine under each compiler; the same without the kernel, on an  *)
(* OS that does not save YMM registers, and on a CPU without leaf 7.       *)
Good(compiler) ==
  [built |-> TRUE, compiler |-> compiler, builtin |-> compiler = "gnu",
   leaf7 |-> TRUE, avx2 |-> TRUE, saves_ymm |-> TRUE]

MCHosts ==
  {Good(compiler) : compiler \in {"gnu", "msvc", "other"}}
    \cup {[Good("gnu") EXCEPT !.built = FALSE],
          [Good("gnu") EXCEPT !.leaf7 = FALSE, !.avx2 = FALSE],
          [Good("gnu") EXCEPT !.builtin = FALSE, !.saves_ymm = FALSE],
          [Good("msvc") EXCEPT !.saves_ymm = FALSE]}
=============================================================================

------------------------------ MODULE MCRandOs ------------------------------
EXTENDS RandOs

(* Linux with both system calls, a POSIX system with neither, Windows. *)
MCBuilds ==
  { << "getrandom", "getentropy", "urandom" >>, << "urandom" >>, << "bcrypt" >> }
=============================================================================

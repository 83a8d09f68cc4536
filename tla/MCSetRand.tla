------------------------------ MODULE MCSetRand ------------------------------
EXTENDS SetRand, TLC

Alike == Permutations(Drawers)
=============================================================================

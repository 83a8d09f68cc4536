CONSTANTS
  Drawers = {d1, d2}
  MaxCalls = 3
SPECIFICATION Spec
SYMMETRY Alike
INVARIANTS PairMatched TakesEffect NoUseAfterFree

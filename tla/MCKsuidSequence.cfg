CONSTANTS
  CountSpan = 6
  Prefixes = {0, 1, 2}
SPECIFICATION Spec
INVARIANTS
  ExhaustedIsComplete
  BandBrackets
PROPERTIES
  PromiseKept

CONSTANTS
  MaxMs = 2
  CounterMask = 2
  TailSpan = 2
  Readings <- MCReadings
SPECIFICATION FairSpec
INVARIANTS
  TracksClock
  BandBrackets
  FailureUntouched
PROPERTIES
  PromiseKept
  Retracks
  NeverStalls

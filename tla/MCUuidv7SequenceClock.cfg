CONSTANTS
  MaxMs = 2
  CounterMask = 1
  TailSpan = 1
  Readings <- MCReadings
SPECIFICATION Spec
PROPERTIES ClockFailureBails

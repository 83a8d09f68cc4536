CONSTANTS
  Tasks = {a, b, c}
  a = a
  b = b
  c = c
  Nobody = Nobody
  Main = a
  Pids = {p1, p2, p3}
  p1 = p1
  p2 = p2
  p3 = p3
  BufLen = 2
  ReseedBytes = 2
  ReseedSeconds = 2
  MaxDraw = 2
  MaxSeeds = 2
  Times <- SteadyClock
  Hook = "cxa"
  PidRecycling = FALSE
SYMMETRY Alike
SPECIFICATION Spec
INVARIANTS
  SelfSeeded
  NoResidueAtExit
CHECK_DEADLOCK FALSE

CONSTANTS
  Tasks = {a, b, c}
  a = a
  b = b
  c = c
  Nobody = Nobody
  Main = a
  Pids = {p1, p2, p3}
  p1 = p1
  p2 = p2
  p3 = p3
  BufLen = 2
  ReseedBytes = 2
  ReseedSeconds = 2
  MaxDraw = 1
  MaxSeeds = 3
  Times <- SteadyClock
  Hook = "cxa"
  PidRecycling = TRUE
SPECIFICATION Spec
INVARIANTS
  SelfSeeded
CHECK_DEADLOCK FALSE

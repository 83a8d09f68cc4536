CONSTANTS
  Tasks = {a, b}
  a = a
  b = b
  Nobody = Nobody
  Main = a
  Pids = {p1}
  p1 = p1
  BufLen = 2
  ReseedBytes = 2
  ReseedSeconds = 2
  MaxDraw = 1
  MaxSeeds = 3
  Times <- SteadyClock
  Hook = "none"
  PidRecycling = FALSE
SPECIFICATION Spec
INVARIANTS
  ForcedSlotIsClean
CHECK_DEADLOCK FALSE

CONSTANTS
  Tasks = {a}
  a = a
  Nobody = Nobody
  Main = a
  Pids = {p1}
  p1 = p1
  BufLen = 3
  ReseedBytes = 5
  ReseedSeconds = 2
  MaxDraw = 5
  MaxSeeds = 3
  Times <- UnsteadyClock
  Hook = "fls"
  PidRecycling = FALSE
SPECIFICATION FairSpec
INVARIANTS
  TypeOK
  FreshKeystream
  BytesBounded
  ConsumedWiped
PROPERTIES
  DrawsFinish
CHECK_DEADLOCK FALSE

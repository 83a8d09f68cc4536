CONSTANTS
  Callers = {c1, c2}
  Lanes = 4
  MaxIds = 9
  Hosts <- MCHosts
SPECIFICATION FairSpec
INVARIANTS BatchExact KernelRunsHere
PROPERTIES ResolvedOnceAndForAll CallReturns

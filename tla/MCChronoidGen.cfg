CONSTANTS
  Words <- MCWords
  Argvs <- MCArgvs
  NumberOf <- MCNumberOf
  KsuidWords = {"K", "Kx"}
  UuidWords = {"U", "Ux"}
  ValidWords = {"K", "U"}
  Builds <- MCBuilds
  EntropyCap = 2
  BcryptCap = 2
  SeedBytes = 2
SPECIFICATION GenFairSpec
INVARIANTS
  SuccessIsExact
  FailureTellsHowFar
  NoEmptyRecord
  KeyedOrRefused
PROPERTY
  Terminates
CHECK_DEADLOCK FALSE

CONSTANTS
  Builds <- MCBuilds
  MaxBytes = 8
  EntropyCap = 3
  BcryptCap = 3
SPECIFICATION FairSpec
INVARIANTS SuccessIsComplete NoDescriptorLeak
PROPERTY CallReturns

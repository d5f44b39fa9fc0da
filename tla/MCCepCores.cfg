CONSTANTS
  NumCores = 3
  NumLocks = 2
  GetTries = 2
  Loops = 2
  MaxTests = 2
  FindTries = 2
  Watched <- MCWatched
  MaxPolls = 2
  MaxBlocks = 2
  PartnerTries = 2
  Faulty <- MCFaulty
  Mask <- MCMask
SPECIFICATION Spec
INVARIANTS TypeOK NoOrphanLock NoFalseMismatch NoSharedTest NoFalsePass
PROPERTIES ImplementsLockService EveryCoreEnds

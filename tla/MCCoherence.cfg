CONSTANTS
  NumCores = 3
  NumLocks = 1
  GetTries = 1
  Loops = 2
  MaxTests = 1
  FindTries = 1
  Watched <- MCWatched
  MaxPolls = 2
  MaxBlocks = 1
  PartnerTries = 2
  Faulty <- MCNone
  Mask <- MCMask
SPECIFICATION Spec
PROPERTY PartnerNotMissed

SPECIFICATION Spec
CONSTANTS
  FIFO_DEPTH = 2
  SROT_WAIT_STATE_COUNTER_INIT = 10
  SROT_KEYINDEXRAM_ADDR = 10
  SROT_KEYINDEXRAM_SIZE = 2
  SROT_KEYRAM_ADDR = 20
  SROT_KEYRAM_SIZE = 4
  PointerSpan = 8
  RegisteredRam = TRUE
  Setup <- MCTwoKeysSetup
  StrayWrites <- MCNoWrites
  Requests <- MCTwoKeysRequests
  Window = 1
  MOCKTSS_WAIT_STATE_COUNTER_INIT = 10
  StableGrant = TRUE
  Keys <- MCTwoKeys
INVARIANTS
  LoadAckMeansLoaded

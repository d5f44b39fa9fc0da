SPECIFICATION FairSpec
CONSTANTS
  FIFO_DEPTH = 2
  SROT_WAIT_STATE_COUNTER_INIT = 10
  SROT_KEYINDEXRAM_ADDR = 10
  SROT_KEYINDEXRAM_SIZE = 2
  SROT_KEYRAM_ADDR = 20
  SROT_KEYRAM_SIZE = 4
  PointerSpan = 8
  RegisteredRam = TRUE
  Setup <- MCSetup
  StrayWrites <- MCNoWrites
  Requests <- MCFaultyRequests
  Window = 1
  MOCKTSS_WAIT_STATE_COUNTER_INIT = 10
  StableGrant = TRUE
  Keys <- MCKeys
PROPERTIES
  EveryRequestAnswered

SPECIFICATION Spec
CONSTANTS
  FIFO_DEPTH = 2
  SROT_WAIT_STATE_COUNTER_INIT = 1
  SROT_KEYINDEXRAM_ADDR = 32
  SROT_KEYINDEXRAM_SIZE = 32
  SROT_KEYRAM_ADDR = 36
  SROT_KEYRAM_SIZE = 256
  PointerSpan = 65536
  RegisteredRam = FALSE
  Setup <- MCIndexSetup
  StrayWrites <- MCNoWrites
  Requests <- MCRequests
  Window = 1
  BusResponses <- MCBusResponses
INVARIANTS
  EntriesProgrammed

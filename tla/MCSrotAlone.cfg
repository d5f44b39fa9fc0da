SPECIFICATION Spec
CONSTANTS
  FIFO_DEPTH = 2
  SROT_WAIT_STATE_COUNTER_INIT = 1
  SROT_KEYINDEXRAM_ADDR = 10
  SROT_KEYINDEXRAM_SIZE = 2
  SROT_KEYRAM_ADDR = 20
  SROT_KEYRAM_SIZE = 2
  PointerSpan = 4
  RegisteredRam = FALSE
  Setup <- MCNoSetup
  StrayWrites <- MCStrayWrites
  Requests <- MCRequests
  Window = 2
  BusResponses <- MCBusResponses
INVARIANTS
  TypeOK
  RequestsConserved
  PolledMeansThere
PROPERTIES
  KeyRamFrozen
  LoadStaysInside

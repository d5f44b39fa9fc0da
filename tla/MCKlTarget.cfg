SPECIFICATION Spec
CONSTANTS
  MOCKTSS_WAIT_STATE_COUNTER_INIT = 10
  BusWords <- MCBusWords
INVARIANTS
  TypeOK
  ClearAckMeansCleared
  PresentMeansLoaded
  NoStaleResponseBit
PROPERTIES
  ResponseStable
  ClearIsAnswered

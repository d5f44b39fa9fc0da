CONSTANTS
  NumCores = 2
  Values = {0, 1}
  MaxClocks = 1
  Captures <- MCCaptures
SPECIFICATION Spec
INVARIANTS TypeOK VerdictExact NoErrorLost NoneLeftBehind FinishIsLast
PROPERTIES ImplementsRemoteCall Terminates
CHECK_DEADLOCK FALSE

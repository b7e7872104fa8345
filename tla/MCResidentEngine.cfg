SPECIFICATION ResidentSpec
CONSTANTS
  Inferences = {q1, q2}
  Warmups = {w1}
  CloseFails = TRUE
  MaxUnloads = 1
CHECK_DEADLOCK FALSE
INVARIANTS
  ResidentTypeOK
  WaitingStateIsTrue
  OneVoice
  NoCallIsForgotten
PROPERTIES
  CallsEnd
  UsedEngineIsReleased

SPECIFICATION ResidentSpec
CONSTANTS
  Inferences = {q1}
  Warmups = {w1}
  CloseFails = TRUE
  MaxUnloads = 1
CHECK_DEADLOCK FALSE
PROPERTY
  IdleEngineIsUnloaded

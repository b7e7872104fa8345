SPECIFICATION MissionSpec
CONSTANTS
  Tasks = {t1, t2}
  Paths = {app}
  PyPaths = {app}
  Requests = {r1, r2}
  Contents = {c1, c2}
  Absent = Absent
  NoTask = NoTask
  NoPath = NoPath
  NoRequest = NoRequest
  NoSignature = NoSignature
  Evidence <- MCEvidence
  Batches = {}
  MaxSeq <- MCMaxSeq
  Tools = {"write_file", "read_file", "run_python", "delete_file", "task_completed"}
  MaxEpochs = 2
  MaxActions = 2
  Overlap = TRUE
  MaxInputs = 2
  MaxCrashes = 0
SYMMETRY MCSymmetry
CHECK_DEADLOCK FALSE
INVARIANT MissionTypeOK
PROPERTIES
  AgentWorkIsTested
  BlockedNeverCompletes
  ReviewsGateCompletion

SPECIFICATION MissionSpec
CONSTANTS
  Tasks = {t1}
  Paths = {app}
  PyPaths = {app}
  Requests = {r1}
  Contents = {c1}
  Absent = Absent
  NoTask = NoTask
  NoPath = NoPath
  NoRequest = NoRequest
  NoSignature = NoSignature
  Evidence <- MCEvidence
  Batches = {}
  MaxSeq <- MCMaxSeq
  Tools = {"write_file", "run_python", "delete_file", "task_completed"}
  MaxEpochs = 1
  MaxActions = 2
  Overlap = FALSE
  MaxInputs = 3
  MaxCrashes = 0
CHECK_DEADLOCK FALSE
INVARIANT RefusalIsTrue

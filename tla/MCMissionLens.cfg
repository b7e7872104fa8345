SPECIFICATION MissionSpec
CONSTANTS
  Tasks = {t1}
  Paths = {app}
  PyPaths = {app}
  Requests = {r1}
  Contents = {c1, c2}
  Absent = Absent
  NoTask = NoTask
  NoPath = NoPath
  NoRequest = NoRequest
  NoSignature = NoSignature
  Evidence <- MCEvidence
  Batches = {}
  MaxSeq <- MCMaxSeq
  Tools = {"write_file", "run_python", "task_completed"}
  MaxEpochs = 1
  MaxActions = 2
  Overlap = FALSE
  MaxInputs = 5
  MaxCrashes = 0
CHECK_DEADLOCK FALSE
PROPERTY CompletedFilesAreTested

SPECIFICATION MissionSpec
CONSTANTS
  Tasks = {t1}
  Paths = {app}
  PyPaths = {app}
  Requests = {r1}
  Contents = {c1, c2}
  Absent = Absent
  NoTask = NoTask
  NoPath = NoPath
  NoRequest = NoRequest
  NoSignature = NoSignature
  Evidence <- MCEvidence
  Batches = {}
  MaxSeq <- MCMaxSeq
  Tools = {"write_file", "delete_file", "task_completed"}
  MaxEpochs = 2
  MaxActions = 1
  Overlap = TRUE
  MaxInputs = 3
  MaxCrashes = 1
CHECK_DEADLOCK FALSE
PROPERTIES
  ConsentedDeletion
  NothingLost
  TurnEnds

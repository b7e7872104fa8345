SPECIFICATION HistorySpec
CONSTANTS
  t1 = t1
  t2 = t2
  app = app
  r1 = r1
  e1 = e1
  e2 = e2
  NoTask = NoTask
  NoPath = NoPath
  NoRequest = NoRequest
  NoSignature = NoSignature
  Tasks = {t1, t2}
  Paths = {app}
  PyPaths = {app}
  Requests = {r1}
  Evidence = {e1, e2}
  Batches <- MCBatches
  MaxSeq <- MCMaxSeq
INVARIANTS
  HistoryTypeOK
  ActiveIsResumable
  BlockedAfterRepeat
PROPERTY
  CompletionGate

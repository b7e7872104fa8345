SPECIFICATION AudioSpec
CONSTANTS
  Recordings = {r1, r2}
  NoRecording = NoRecording
  Pinned = {r1}
  ArchiveLimit = 1
  MaxLines = 2
  MaxOutages = 1
  MaxDeaths = 1
CHECK_DEADLOCK FALSE

PROPERTIES InterruptedIsRecovered

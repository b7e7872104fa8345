SPECIFICATION ImportSpec
CONSTANTS
  LegacyMessages <- MCCandidates
  Long = {"A", "B", "C"}
  Talk = {"C"}
  Window = 2
  MaxImports = 2
  MaxTalk = 2
CHECK_DEADLOCK FALSE
PROPERTY ImportIsIdempotent

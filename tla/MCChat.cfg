SPECIFICATION ChatSpec
CONSTANTS
  preference = preference
  worldFact = worldFact
  v1 = v1
  v2 = v2
  Keys = {preference, worldFact}
  HardKeys = {worldFact}
  PersonalKeys = {preference}
  Values = {v1, v2}
  Queries <- MCQueries
  Drafts <- MCDrafts
  MaxTurns = 2
  MaxCommands = 3
INVARIANTS
  ChatTypeOK
  OneActivePerKey
  ShownIsVerified
  ShownIsStored
  OnlyShownIsRemembered
PROPERTIES
  HistoryIsKept
  LearnedIsRecalled
CHECK_DEADLOCK FALSE

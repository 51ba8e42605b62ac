SPECIFICATION Spec
CONSTANTS
  p1 = p1
  Paper = {p1}
  MaxVersion = 2
  Instance <- OnePerGroup
  MaxAttempts = 2
  MaxMessages = 2
  MaxFaults = 1
  Faults = {"crash", "commitFails", "ambiguous", "poison"}
  Unservable = {}
  Summarizing = {TRUE}
INVARIANTS
  TypeOK
  NoSilentLoss
  SettledOnLatest
  RowMatchesChunks
  SettledOnOwnSummary
PROPERTIES
  FastPathNeverDowngrades
CHECK_DEADLOCK FALSE

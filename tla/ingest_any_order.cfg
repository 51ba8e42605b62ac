SPECIFICATION Spec
CONSTANTS
  p1 = p1
  Paper = {p1}
  MaxVersion = 2
  Instance <- OnePerGroup
  MaxAttempts = 1
  MaxMessages = 2
  MaxFaults = 0
  Faults = {"anyOrder"}
  Unservable = {}
  Summarizing = {TRUE}
INVARIANTS
  SettledOnLatest
CHECK_DEADLOCK FALSE

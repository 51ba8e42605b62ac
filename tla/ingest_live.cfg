SPECIFICATION FairSpec
CONSTANTS
  p1 = p1
  p2 = p2
  Paper = {p1, p2}
  MaxVersion = 1
  Instance <- OnePerGroup
  MaxAttempts = 1
  MaxMessages = 2
  MaxFaults = 1
  Faults = {"crash", "dlqLost"}
  Unservable = {p2}
  Summarizing = {TRUE}
PROPERTIES
  OnlyUnservableBlocks
CHECK_DEADLOCK FALSE

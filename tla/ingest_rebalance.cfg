SPECIFICATION Spec
CONSTANTS
  p1 = p1
  p2 = p2
  Paper = {p1, p2}
  MaxVersion = 1
  Instance <- TwoFast
  MaxAttempts = 1
  MaxMessages = 2
  MaxFaults = 1
  Faults = {"crash", "commitFails", "rebalance"}
  Unservable = {p2}
  Summarizing = {TRUE, FALSE}
PROPERTIES
  ConsumersAtLeastOnce
CHECK_DEADLOCK FALSE

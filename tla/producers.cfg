SPECIFICATION ProducersSpec
CONSTANTS
  NumCategories = 2
  PageSize = 2
  MaxPages = 2
  MaxFetches = 2
  Invalid = {2}
  Unparseable = {3}
  MaxMembers = 4
  MaxBurst = 2
  MaxFaults = 2
  Faults = {"requestFails", "emptyPage", "crash", "redisFails", "sendFails", "sendAmbiguous"}
  OaiPages <- List
  Wanted = {1, 3}
  MaxRequests = 4
  p1 = p1
  Paper = {p1}
  ThePaper = p1
  MaxVersion = 2
  MaxFailures = 3
  MaxReplays = 2
INVARIANTS
  ProducerTypesOK
  SeenIsProduced
  DuplicatesBounded
  BackfillLosesNothingElse
  ReplaySettles

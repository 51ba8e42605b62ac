SPECIFICATION FairSpec
CONSTANTS
  w1 = w1
  w2 = w2
  p1 = p1
  p2 = p2
  Writer = {w1, w2}
  Paper = {p1, p2}
  MaxVersion = 2
  NumAuthors = 2
  Byline <- Bylines
  MaxUpserts = 3
INVARIANTS
  TypeOK
  NoDeadlock
PROPERTIES
  UpsertIsAtomic
  EveryUpsertEnds
CHECK_DEADLOCK FALSE

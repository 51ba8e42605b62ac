SPECIFICATION ApiSpec
CONSTANTS
  p1 = p1
  p2 = p2
  Request = {r1, r2}
  Threads = 1
  MaxVersion = 2
  MaxQueue = 3
  MaxFaults = 1
  Paper = {p1, p2}
  NoPaper = NoPaper
  Reader = {r1, r2}
  Near <- Nearest
  MaxWebs = 2
  PathPaper = {p1, p2}
  Cited = {w1}
  Citing = {w2}
  S2Batch = 1
  MaxWaiting = 1
  Publication = {w1, w2}
  OtherKey = {"title"}
  MaxDismissed = 1
  Preprint = {p1, p2}
  Old = {p2}
  Visitor = {r1, r2}
  Limit = 1
  MaxTime = 4
  Entry = {p1, p2}
  Scope = {"all", "one"}
  InScope <- Filters
  Searcher = {r1, r2}
  NumPapers = 3
  MaxChunks = 4
  MaxKeyword = 3
  Reason <- Reasons
  NumWorks = 3
  PerSource = 1
  SearchLimits = {1, 2, 3}
  PickLimits = {1, 2, 3}
INVARIANTS
  TypeOK
  ApiTypesOK
  OneGeneration
  SettledDesign
  FiguresMatch
  EmptyWebExplained
  RingsNeedDeletion
  FetchedOnce
  EdgesFromOneAnswer
  SuggestionsAreNew
  NewIsShown
  FreshSinceClear
  FusedRanking
  SuggestionsWithinCaps
PROPERTIES
  DesignsSettle
  RowsLeaveOnlyWhenAsked

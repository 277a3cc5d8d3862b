SPECIFICATION Spec
CONSTANTS
  NULL = NULL
  StringResult <- mcStringResult
  Files = {"people", "scores", "out"}
  Contents <- mcContents
  Queries <- mcQueries
  Sinks = {"people", "out"}
  CsvPaths = {"people"}
  CutShort <- ReadCut
  MaxCalls = 2
  Unread <- NoSchema
  Opened <- WithSchemas
  Rewritten <- RecurseChildren
  Failure <- Thrown
  Shows <- ShownInPass
  Run <- mcRun
  Ordered <- mcOrdered
INVARIANTS AnswersAsEager SinksStoreTheAnswer FailedQueriesTouchNothing SessionInv
PROPERTIES CachesOnlyFill EachStepIsSound
CHECK_DEADLOCK FALSE

SPECIFICATION Spec
CONSTANTS
  NULL = NULL
  Sources <- mcSources
  StringResult <- mcStringResult
  FileSchema <- SchemaIn
  Rewritten <- RecurseChildren
  Run <- Execute
  Ordered <- OrderIsPromised
  MaxSteps = 1
  Menus <- FoldMenus
INVARIANTS ConstantsAreFolded
CHECK_DEADLOCK FALSE

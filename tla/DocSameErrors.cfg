SPECIFICATION Spec
CONSTANTS
  NULL = NULL
  Sources <- mcSources
  StringResult <- mcStringResult
  FileSchema <- SchemaIn
  Rewritten <- RecurseChildren
  Run <- Execute
  Ordered <- OrderIsPromised
  MaxSteps = 2
  Menus <- DropMenus
INVARIANTS LazyRejectsWhatEagerRejects
CHECK_DEADLOCK FALSE

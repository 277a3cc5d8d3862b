SPECIFICATION Spec
CONSTANTS
  NULL = NULL
  Sources <- mcSources
  StringResult <- mcStringResult
  FileSchema <- SchemaIn
  Rewritten <- RecurseChildren
  Run <- Execute
  Ordered <- OrderIsPromised
  MaxSteps = 3
  Menus <- BothMenus
INVARIANTS TypeOK CellsHaveTheirTypes LazyMatchesEager SchemaIsPredicted NothingStacked OnlySwapsExhaustThePasses ExplainShowsBothPlans
PROPERTIES EachRuleIsSound
CHECK_DEADLOCK FALSE

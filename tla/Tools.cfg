SPECIFICATION ToolsSpec
CONSTANTS
  Precision = 3
  IntBits = 5
  MaxCatalogLimit = 3
  DefaultCatalogLimit = 2
  Envs <- FewEnvs
  Calls <- FewCalls
  OtherTools <- StaffTools
  InitialDb <- SmallDb
  MaxWrites = 2
  TrimSpace <- Trims
  ToLower <- Lowers
  Faults = {"db"}
INVARIANTS
  HandlersSeeWellShapedInput
  SchemaIsEnforced
  OrdersStayPrivate
  AnswersAreCurrent
  SearchIsComplete

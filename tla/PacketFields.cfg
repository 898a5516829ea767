CONSTANTS
  Funcs = {f1, f2, f3}
  Modules <- OneModule
  None = None
  Objects <- OneObject
  PolicyTexts <- FluviaPolicies
  IrrelevanceTexts <- AllIrrelevances
  Harnesses <- FluviaHarness
  JsonValues <- MCJsonValues
  ReadSpec <- loadRoot
  BridgeModules <- OneBridgeModule
  OnlyTagged = TRUE
SPECIFICATION PassesSpec
INVARIANT PolicyBytesStaySymbolic
CHECK_DEADLOCK FALSE

CONSTANTS
  Funcs = {f1, f2, f3}
  Modules <- PruneModules
  None = None
  Objects <- MCObjects
  PolicyTexts <- AllTexts
  IrrelevanceTexts <- AllIrrelevances
  Harnesses <- MCHarnesses
  JsonValues <- MCJsonValues
  ReadSpec <- loadRoot
  BridgeModules <- MCBridgeModules
  OnlyTagged = TRUE
SPECIFICATION PassesSpec
INVARIANTS TypeOK KeepsWhatRuns KeepsDirectCallers OrderIndependent BoundToOwnMap RewrittenModuleLinks PolicyBytesStaySymbolic ParserReadsJson AssumesWhatClamProved
PROPERTY PruneEnds
CHECK_DEADLOCK FALSE

SPECIFICATION Spec
CONSTANTS
  Usage = {}
  Bits = 4
  Scale = 2
  Home = 2
  Slot <- MCSlot
  ScopeConstants <- MCScopeConstants
  LibraryConstants <- MCLibraryConstants
  BuiltinClass <- MCBuiltinClass
  Literal <- MCLiteral
  Sources <- MCSources
  Memory <- MCMemory
  InitialStrings <- MCInitialStrings
  Locals <- MCLocals
  OtherFunction <- MCOtherFunction
  Tokens <- MCTokens
INVARIANTS AcceptsWhatIsAllowed EvaluatesRight ReadsWhatWasWritten ConstantsUsed
CHECK_DEADLOCK FALSE

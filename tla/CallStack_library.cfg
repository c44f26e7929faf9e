SPECIFICATION Spec
CONSTANTS
  main = main
  opt = opt
  cmp = cmp
  bound = bound
  NativeFunction = NativeFunction
  NotCallable = NotCallable
  Functions = {main, opt, cmp}
  Arity <- MCArity
  MinArity <- MCMinArity
  BoundMethods = {bound}
  Method <- MCMethod
  NumBound <- MCNumBound
  MaxArgs = 2
  StackMax = 7
  FramesMax = 3
  HostMax = 3
  VMDebug = TRUE
  Imports = FALSE
  Embedding <- LibraryEmbedding
  RuntimeResponses = {"terminate", "return"}
  FatalResponses = {"terminate"}
INVARIANTS RunsOwnFrames Defined
PROPERTIES ImplementsNestedLoops
CHECK_DEADLOCK FALSE

SPECIFICATION Spec
CONSTANTS
  main = main
  opt = opt
  cmp = cmp
  bound = bound
  NativeFunction = NativeFunction
  NotCallable = NotCallable
  Functions = {main, opt, cmp}
  Arity <- MCArity
  MinArity <- MCMinArity
  BoundMethods = {bound}
  Method <- MCMethod
  NumBound <- MCNumBound
  MaxArgs = 2
  StackMax = 7
  FramesMax = 3
  HostMax = 4
  VMDebug = FALSE
  Imports = FALSE
  Embedding <- StandaloneEmbedding
  RuntimeResponses = {"terminate"}
  FatalResponses = {"terminate"}
INVARIANTS TypeOK FrameOrder SlotsAtCallee
PROPERTIES ImplementsNestedLoops
CHECK_DEADLOCK FALSE

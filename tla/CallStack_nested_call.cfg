SPECIFICATION Spec
CONSTANTS
  main = main
  opt = opt
  cmp = cmp
  bound = bound
  NativeFunction = NativeFunction
  NotCallable = NotCallable
  Functions = {main, opt, cmp}
  Arity <- MCArity
  MinArity <- MCMinArity
  BoundMethods = {bound}
  Method <- MCMethod
  NumBound <- MCNumBound
  MaxArgs = 2
  StackMax = 6
  FramesMax = 3
  HostMax = 3
  VMDebug = FALSE
  Imports = FALSE
  Embedding <- NestedCallEmbedding
  RuntimeResponses = {"return"}
  FatalResponses = {"terminate"}
INVARIANT RunsOwnFrames
CHECK_DEADLOCK FALSE

SPECIFICATION Spec
CONSTANTS
  main = main
  opt = opt
  cmp = cmp
  bound = bound
  NativeFunction = NativeFunction
  NotCallable = NotCallable
  Functions = {main, opt, cmp}
  Arity <- MCArity
  MinArity <- MCMinArity
  BoundMethods = {bound}
  Method <- MCMethod
  NumBound <- MCNumBound
  MaxArgs = 2
  StackMax = 5
  FramesMax = 3
  HostMax = 4
  VMDebug = TRUE
  Imports = TRUE
  Embedding <- ImportEmbedding
  RuntimeResponses = {"terminate"}
  FatalResponses = {"terminate"}
INVARIANTS IdleHasNoFrames
CHECK_DEADLOCK FALSE

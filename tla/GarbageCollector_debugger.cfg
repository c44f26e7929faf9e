SPECIFICATION Spec
CONSTANTS
  cF = cF
  c1 = c1
  i1 = i1
  b1 = b1
  m1 = m1
  f1 = f1
  g1 = g1
  c2 = c2
  a1 = a1
  Objects <- DebugObjects
  kind <- DebugKind
  Hash <- OwnName
  ImplClass <- DebugImplClass
  BuiltinList <- DebugBuiltins
  Script <- DebugScript
  Typed <- DebugTyped
  Size <- OneEach
  FirstGC = 2
  GCStep = 1
  Debugger = TRUE
  Natives = FALSE
  MaxRefs = 1
  MaxRoots = 1
INVARIANTS NothingUsableIsFreed
SYMMETRY DebugSymmetry
PROPERTIES CollectsAllGarbage ModuleBeforeFunctions
CHECK_DEADLOCK FALSE

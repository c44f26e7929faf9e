SPECIFICATION FairSpec
CONSTANTS
  cF = cF
  c1 = c1
  i1 = i1
  b1 = b1
  m1 = m1
  f1 = f1
  g1 = g1
  c2 = c2
  a1 = a1
  Objects <- LineObjects
  kind <- LineKind
  Hash <- OwnName
  ImplClass <- LineImplClass
  BuiltinList <- LineBuiltins
  Script <- LineScript
  Typed <- LineTyped
  Size <- OneEach
  FirstGC = 2
  GCStep = 1
  Debugger = FALSE
  Natives = TRUE
  MaxRefs = 1
  MaxRoots = 1
INVARIANTS CodeIsThere NoMarkSurvives SizeOfHeap
PROPERTIES CollectionEnds
CHECK_DEADLOCK FALSE

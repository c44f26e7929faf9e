SPECIFICATION Spec
CONSTANTS
  main = main
  f = f
  call = call
  a1 = a1
  a2 = a2
  Free = Free
  Functions = {main, f}
  Typed = {call}
  Addresses = {a1, a2}
  Body <- MCBody
  Column <- MCColumn
  Statements <- MCStatements
  Marks <- NoMarks
  MaxFrames = 4
  MaxBreakpoints = 3
  MaxHost = 4
  Starts = {"program", "debugged", "debugger"}
  Registrations = 2
  Usage = {}
SYMMETRY MCSymmetry
INVARIANTS BreakpointsAgree DebuggersCounted RunningIsLoaded
PROPERTIES StopsWhereListed RunsUndebugged
CHECK_DEADLOCK FALSE

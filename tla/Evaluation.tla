------------------------------ MODULE Evaluation ------------------------------
(* One expression on its way: ScriptManager::CompileAndLoad compiles it into a  *)
(* chunk, writes the chunk with the rest of the module into a stream and reads  *)
(* it back; then the thread runs the chunk that was read, instruction by        *)
(* instruction.                                                                 *)
EXTENDS Meaning, BytecodeFile

CONSTANTS
  Sources,         \* [tree, kind, optimise, debug, filename, breakpoints]
  Memory,          \* the memory before the run
  InitialStrings,  \* the pool before the compiler starts
  Locals,          \* what the compiler says of the function's locals
  OtherFunction,   \* the module's second function
  Tokens           \* the names that the compiler met

VARIABLES
  source,      \* the member of Sources
  stage,
  functions,   \* what the compiler wrote: the function of the expression, the second
  file,        \* the stream
  loaded       \* the reader after it has read the stream

pipeline == <<source, stage, functions, file, loaded>>
allvars == <<pipeline, chunk, vm, pool>>

NotRunning == [ip |-> 1, stack |-> <<>>, register |-> Null, m |-> Memory, result |-> "idle"]

Init ==
  /\ source \in Sources
  /\ stage = "source"
  /\ functions = <<>> /\ file = <<>> /\ loaded = <<>>
  /\ chunk = NewFunction
  /\ vm = NotRunning
  /\ pool = InitialStrings

\* The flags of a new compiler.
Statics == [ShouldEmitValue |-> FALSE, isSuper |-> FALSE]

Finish(c) ==
  LET main == [NewFunction EXCEPT !.name = "main", !.code = c.code, !.constants = c.constants,
                                  !.opcodes = Len(c.code),
                                  !.lines = [i \in DOMAIN c.code |-> i],
                                  !.locals = Locals]
      other == [OtherFunction EXCEPT !.breakpoints = source.breakpoints]
  IN /\ IF c.error THEN stage' = "refused" /\ functions' = <<>>
        ELSE stage' = "compiled" /\ functions' = <<main, other>>
     /\ pool' = c.pool

CompileText ==
  /\ stage = "source"
  /\ Finish(Compile(Text(source.tree, 1) \o T(";"), source.kind, source.optimise, Statics, pool))
  /\ UNCHANGED <<source, file, loaded, chunk, vm>>

WriteBytecode ==
  /\ stage = "compiled"
  /\ file' = Write(functions, source.debug, source.filename, Tokens, pool)
  /\ stage' = "written"
  /\ UNCHANGED <<source, functions, loaded, chunk, vm, pool>>

LoadBytecode ==
  /\ stage = "written"
  /\ loaded' = Read(file, pool)
  /\ pool' = loaded'.pool
  /\ chunk' = loaded'.functions[1]
  /\ vm' = [vm EXCEPT !.result = "running"]
  /\ file' = <<>>
  /\ stage' = "running"
  /\ UNCHANGED <<source, functions>>

Run ==
  /\ stage = "running"
  /\ RunInstruction
  /\ UNCHANGED pipeline

Returned ==
  /\ stage = "running"
  /\ vm.ip > Len(chunk.code)
  /\ stage' = "returned"
  /\ UNCHANGED <<source, functions, file, loaded, chunk, vm, pool>>

Next == CompileText \/ WriteBytecode \/ LoadBytecode \/ Run \/ Returned
Spec == Init /\ [][Next]_allvars

-------------------------------------------------------------------------------
(* Properties.                                                                  *)

\* What the tree means, in the memory before the run.
Meant == Evaluate(source.tree, [ok |-> TRUE, v |-> Null, m |-> View(Memory, InitialStrings)])

\* The compiler takes an expression when each of its assignments has a location on its
\* left, and an initialiser when it assigns nothing; it refuses all others
\* (Compiler.cpp:2120, 1942: "Not an lvalue.").
AcceptsWhatIsAllowed ==
  /\ stage = "refused" => ~Allowed(source.tree, source.kind)
  /\ stage = "compiled" => Allowed(source.tree, source.kind)

\* Whatever the compiler folded, turned into direct loads or left to the run, the
\* instructions that were written and read back do what the expression means: the same
\* value is alone on the stack, the same memory is left behind, and a run ends with an
\* error exactly when the expression has no value.
EvaluatesRight ==
  /\ stage = "returned" =>
       /\ Meant.ok
       /\ Len(vm.stack) = 1
       /\ ViewValue(vm.stack[1], pool) = Meant.v
       /\ View(vm.m, pool) = Meant.m
  /\ vm.result = "error" => ~Meant.ok /\ View(vm.m, pool) = Meant.m

\* What Write put into the stream is what Read finds there, to the last field: code and
\* constants always, lines, locals, names and breakpoints with debug information.
\* Equal strings come back as one.
ReadsWhatWasWritten ==
  LET Same(f, g) ==
        /\ g.code = f.code /\ g.opcodes = f.opcodes
        /\ g.arity = f.arity /\ g.minArity = f.minArity
        /\ ViewAll(g.constants, pool) = ViewAll(f.constants, pool)
        /\ source.debug => /\ g.name = f.name /\ g.lines = f.lines
                           /\ g.locals = f.locals /\ g.moduleLocals = f.moduleLocals
                           /\ g.breakpoints = f.breakpoints
  IN stage = "running" =>
       /\ loaded.ok /\ loaded.rest = <<>>
       /\ loaded.sourceFilename = source.filename
       /\ Len(loaded.functions) = Len(functions)
       /\ \A i \in DOMAIN functions : Same(functions[i], loaded.functions[i])

\* Folding leaves no constant in the table that no instruction uses.
ConstantsUsed ==
  stage = "compiled" =>
    \A n \in DOMAIN functions[1].constants :
      \E i \in DOMAIN functions[1].code :
        functions[1].code[i].op = "CONSTANT" /\ functions[1].code[i].arg = n
===============================================================================

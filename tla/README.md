# A formal model of HSL

HSL is a scripting language: a compiler to bytecode, a stack-based virtual
machine with closures over modules and classes, a mark-and-sweep collector, and a C
interface (libhsl) through which a program embeds it.  This directory holds TLA+
modules translated from the C++ sources, TLC configurations that check them on
small instances, and TLAPS proofs of the results that hold for every instance.

## 1. The system

| Part | Source (under `source/`) | State it keeps | Operations | Talks to |
|---|---|---|---|---|
| Call stack, nested loops | `HSL/VMThread.cpp`, `HSL/API/Call.cpp`, `Callable.cpp`, `Script.cpp`, `Stack.cpp` | `Stack`, `StackTop`, `Frames`, `FrameCount`, `ReturnFrame` | `Push`, `Pop`, `Call`, `CallValue`, `CallBoundMethod`, `OP_CALL`, `OP_RETURN`, `RunInstructionSet`, `RunFunction`, `RunEntityFunction`, `InvokeForEntity`, `hsl_call`, ... | calls native functions, which call back |
| Garbage collector | `HSL/GarbageCollector.cpp` | `GrayList`, `GarbageSize`, `NextGC`, `IsDark` of each object | `Collect`, `GrayObject`, `BlackenObject` | reads every table of the manager and every thread's stack |
| Objects and their disposal | `HSL/Types.cpp`, `HSL/ScriptManager.cpp` | list from `RootObject`, interned `Strings` | `Alloc`, `New*`, `DestroyObject`, `FreeModule` | the collector frees, everybody allocates |
| Globals, constants, namespaces, imports | `HSL/VMThread.cpp`, `HSL/ScriptManager.cpp`, `HSL/API/Global.cpp` | `Globals`, `Constants`, `AllNamespaces`, `ModuleList` | `OP_DEFINE_GLOBAL`, `OP_DEFINE_CONSTANT`, `GetGlobal`, `SetGlobal`, `OP_USE_NAMESPACE`, `Import` | classes are extended instead of replaced |
| Classes, instances, lookup | `HSL/VMThread.cpp`, `HSL/ScriptManager.cpp`, `HSL/API/{Class,Instance,Object,Native}.cpp` | `Methods`, `Fields`, `Parent`, `Initializer` | `OP_CLASS`, `OP_INHERIT`, `DoClassExtension`, `Invoke`, `SuperInvoke`, `GetProperty` | calls through the call stack |
| With iterators | `HSL/VMThread.cpp` (`OP_WITH`) | two stacks of 16 entries in each frame | init, iterate, finish | handler of the host |
| Lock | `HSL/ScriptManager.cpp` (`Lock`, `Unlock`) | a mutex, or two callbacks of the host | taken around most instructions | everything |
| Threads, life cycle | `HSL/ScriptManager.cpp`, `HSL/API/{API,Thread,Context}.cpp` | `Threads[]`, `ThreadCount`, `TempModuleList` | `NewThread`, `DisposeThread`, `RemoveTemporaryModules`, `Dispose` | the collector, the debugger |
| Compiler | `HSL/Compiler.cpp` | scanner position, scopes, locals, break/continue lists | one function per grammar rule | emits into a `Chunk` |
| Bytecode | `HSL/Bytecode.cpp`, `HSL/Types.cpp` | chunk, constants, locals, lines | `Read`, `Write` | compiler writes, manager loads |
| Values, built-in types | `HSL/Value.cpp`, `HSL/TypeImpl/*.cpp`, `HSL/StandardLibrary/*.cpp` | arrays, maps, strings | arithmetic, comparison, `Array.Sort`, `Function.Bind`, ... | `Array.Sort` calls back into the interpreter |
| Hash maps | `HSL/HashMap.h`, `HSL/OrderedHashMap.h` | table, insertion order | `Put`, `Get`, `Remove`, `WithAll` | every table above |
| Debugger, REPL | `HSL/VMThreadDebugger.cpp`, `HSL/ScriptREPL.cpp` | breakpoints, stepping state, temporary modules | `Breakpoint`, `ExecuteCode` | run code on top of a suspended frame |
| Streams, printing, hashes, logging | `IO/`, `Utilities/`, `Hashing/`, `HSL/ValuePrinter.cpp` | buffers | read, write, print | |

What is hard here.  The program keeps nothing across runs, and starts no threads; a host that has
several gives each a VM thread and relies on the manager's lock.  The difficulties are re-entrancy (a script
calls a native function that runs a script that ...), also of the lock and of the debugger, errors that *return* (the
handler of a host, the REPL) into code that was half-way through something, limits
(stack, frames, with iterators), a collector that must know every place a value
can hide in, tables that must agree (breakpoints and their flags, a compiler's locals and the stack they lie on),
and long sequences of legal calls through the C interface.
`PROJECT.json` lists these hazards with their lines.

What makes each part correct:

* call stack: indices stay inside the arrays; a frame's slots start at its callee;
  frames do not overlap; a loop executes only the frames made since it was entered and
  ends when the last of them returns.
* collector: what is reachable from a place the program still reads is not freed,
  everything else is; no mark survives a collection.
* globals and constants: a constant keeps its value; a name is not both.
* classes: lookup terminates and finds the nearest definition; an extension is all or nothing.
* with: `this` after a with is what it was before; both stacks stay balanced.
* lock: every path releases what it took, no more and no less, whatever code runs in between; no two host threads get one VM thread.
* expressions: folded, turned into direct loads or left to the run, they compute what the text means.
* debugger: the list of breakpoints and the flags in the chunks agree; the program stops where a breakpoint is listed, and nowhere
  executes something else because it is debugged; what is being executed stays loaded.
* compiler: the slot a local is compiled to is the slot it has at run time; control goes where the
  text says, and leaves nothing behind on the stack or among the with iterators; breakpoints stay with their statements.
* bytecode: what is written is what a reader gets; a jump's offset fits its operand.

## 2. Modules

| Module | Content |
|---|---|
| `CallStack` | value stack, frames, nested loops of one thread; every entry point |
| `NestedLoops` | the contract: every level of the C++ stack counts its own frames |
| `MCCallStack` | instances for TLC: functions, a bound method, five embedding programs |
| `CallStackProofs` | theorems about `CallStack`: types, slots of callees |
| `NestedLoopsProofs` | theorems about `CallStack`: frames and loops of every disciplined thread, the refinement of `NestedLoops` |
| `GarbageCollector` | the object graph, what a program does to it, mark and sweep |
| `MCGarbageCollector` | heaps for TLC: the REPL, a debugged program with classes |
| `GarbageCollectorProofs` | the collector is safe and complete, for every heap |
| `Classes` | globals, constants, class declarations and extension, lookup of members |
| `MCClasses` | instances for TLC: two scripts' classes, or a script's and a library's |
| `ClassesProofs` | theorems about `Classes` |
| `Compiler` | statements and declarations: scopes, slots of locals, jumps, their lists, nested functions |
| `CompiledCode` | `Compiler` composed with a frame of the interpreter that executes what it emitted |
| `SourceOrder` | the reference: in which order the text of a script says its parts are evaluated |
| `MCCompiler` | instances for TLC: eight mixes of statements |
| `CompilerProofs` | theorems about `Compiler`: breakpoints, for every script |
| `Values` | values of scripts, casts, the operators, interned strings |
| `Expressions` | from the tokens of an expression to instructions: precedences, locations, constant folding |
| `Interpreter` | the instructions for expressions, and the memory they work on |
| `BytecodeFile` | what is written to a file of bytecode, and what is read from it |
| `Meaning` | the reference: trees, their text, which are allowed, what they evaluate to |
| `Evaluation` | all of these composed: compile, write, read, run |
| `MCEvaluation` | instances for TLC: a memory, and 15 996 sources |
| `Debugger` | breakpoints, the debugger's commands, code typed at its prompt |
| `Execution` | the contract: a program that nobody debugs |
| `MCDebugger` | instances for TLC: a program of two functions, and a typed script |
| `DebuggerProofs` | theorems about `Debugger`: breakpoints; loops and debuggers nest, what runs is loaded, debuggers are counted |
| `UndebuggedProofs` | theorems about `Debugger`: the refinement of `Execution` |
| `ManagerLock` | the manager's lock, what every operation does with it, VM threads of host threads |
| `ManagerLockProofs` | theorems about `ManagerLock` |

### CallStack and the code

`StackTop`, `Frames`, `ReturnFrame` are the members of `VMThread` of these names;
positions count from `Stack`.  The values in the stack are abstracted away: which value is
called is a choice of the action.  `Host` is the C++ stack: one record for each
running `RunInstructionSet` or `hsl_run_call_frame` and one for each native function, with the
local variables (`lastReturnFrame`, `lastStackTop`) its function restores from.
`base` and `callee` are auxiliary: nothing reads them but the properties.

An action is one instruction of the interpreter, or one call that a native function or
the embedding program makes.  `CallFunction`, `CallBoundMethod` and `CallValue` are the C++
functions `Call`, `CallBoundMethod` and `CallValue`/`CallForObject` as sets of outcomes: a call
can throw a runtime error, push missing optional arguments, overflow the stack while it
does, or reach the frame limit, and each caller does with the result what its C++
counterpart does (`OP_CALL` throws a second error, `RunFunction` ignores it, `hsl_call`
returns a code).  `RuntimeResponses` and `FatalResponses` say how an error ends: the
standalone program exits; a host's handler may throw or exit ("terminate") or answer
`HSL_ERROR_RES_EXIT` or `HSL_ERROR_RES_CONTINUE`, which both come back.  Only `Push`
distinguishes the two.

`Embedding` says which entry points are called where: on an idle thread, while frames are
set up but not run, inside native functions.  It is the *usage* of the interface; the properties are
about a usage, and the violations about another.

`status = "undefined"` stands for C++ undefined behaviour: an instruction fetched from
`Frames[-1]`, a value read or written before or behind `Stack[]`.  Nothing follows it.

`NestedLoops` states what the callers are promised.  `Contract` in `CallStack` maps the one
register `ReturnFrame`, which each entry point saves, sets and restores (or not), to a
frame counter for each level: `ImplementsNestedLoops` is the refinement.

`hsl_run_call_frame_instruction` needs no activation of its own: `SingleStep` lets the instructions execute for the host
on top of its `pending` frames.  A native function that a stepped instruction calls is an activation like any other, and when it returns
the host has control again.  The host is not told that its frame finished (`Finish`).

### GarbageCollector and the code

An object is its identity and its `kind` (`Obj::Type`).  Its members that point to other objects are edges
`<<object, member, object>>` in `refs`: `Members` are the fields of the structs in `Types.h`, `Visited` those that
`BlackenObject` follows (all but `ObjFunction::Module`).  What values and keys are otherwise is left out.  `kept \o rest` is the
list from `RootObject`; `kept` is empty but in a sweep, where `rest` begins at the sweep's pointer.
`roots` are the places `Collect` grays: stack and frames of the active threads, `Globals`, `Constants`,
`ModuleList`, `ImplClasses`.  `native` holds what only a native function's C++ variables hold: an element that
`std::stable_sort` has taken out of the array while `Array.Sort`'s comparison runs.
`destroyed` are functions that are still allocated but whose name and chunk `FreeModule` has freed.

The program's actions do to any *usable* object what instructions and native functions can: allocate with `New*`,
load a module with its functions, call, return, push, pop, assign a member.  They allow more than the compiler emits (a
parent may be replaced); what is proved and checked holds for the program all the more.  `Usable` is the closure of the roots, the
native variables and the built-in classes (`ImplArray->Class`, ...) under *all* members.

A collection is a sequence of `StartCollect` (request and gray the roots), `BlackenObject`s in any order, `StartSweep`, one
`Keep` or `DestroyObject` for each object, `EndCollect`.  Nothing else happens in between: `Collect` is one call.
`AtPrompt` is when a collection is requested: at the REPL's prompt, where no frame is left, and
at a debugger's prompt, where anything may be suspended.

### Classes and the code

`globals` and `constants` are the manager's two tables; a value that is not a class is a `Datum`, and those in `Linked`
stand for a variable of the host (`VAL_LINKED_*`).  Classes are numbered in the order in which `NewClass` makes them, so
"older" is "less".  `methods`, `fields`, `parent`, `initializer` and `hash` are the members of `ObjClass`; of a static field only its
presence matters.  `home` is `ObjFunction::Class`, which `super` starts from.

Each instruction of a declaration is an action.  Between them the class is on the stack (`operand`), and `stage` and `declaring` say which
instruction the compiler has put next: `OP_CLASS`, `OP_INHERIT` or not, `OP_DEFINE_GLOBAL`, then methods and static
fields, each of which looks the class up by its name again.  Statements are `PushValue` (or `PushGlobalClass`) and one of
`OpDefineGlobal`, `OpDefineConstant`, `SetGlobal`.  A runtime error either ends the program (`Exit`: `StandaloneExit`, or a
handler that does not return) or comes back (`ErrorsReturn`), and then the rest of the instruction is executed.
The host acts between statements; a libhsl program calls nothing else on the tables.

`Usage` says what a program does beyond declaring classes and assigning: giving a class a second name with `var`
("alias"), declaring a class again with a parent that is younger than the class ("late_parent"), running modules
again ("rerun"), or being a host that defines its own ("host").  Members of instances are not state of the model: the
lookups are those of an instance without a field of the name.

`GetProperty`, `HasProperty`, `Invoke`, `SuperInvoke` and `FieldOrMethod` are the five lookups as the code
orders them; `Nearest` is the reference they are compared with.

### Compiler, CompiledCode and the code

A `Compiler` object is a record of `compilers`: one for each function being compiled, the innermost last.  `locals`, `depth` and `code` are
`Locals`, `ScopeDepth` and the chunk; `open` is the C++ stack of the grammar's functions (`GetWhileStatement` in `GetBlockStatement` in ...) with the
positions they keep in C++ variables (`loopStart`, `exitJump`).  A grammar function that reads a statement in its middle is an `Open...` and a
`Close...` action.  `breaks`, `continues`, `switches` and `marks` are the stacks of lists that are static in
`Compiler.cpp`, so that all compilers at work share them; `chunks` are the finished functions.

The script is not an input.  Each action reads one more statement, so that the behaviours of the compiler are all scripts of at most
`MaxStatements` statements; `tree` records the script that was read, as a function from places to statements.  `Refused` are the compiler's
errors, after which `Cleanup` and `DeleteFunctions` leave everything empty.

Positions count instructions, not bytes.  An expression is one instruction that leaves its value, `NamedVariable` finds the slot of the
local it is given (all names differ), and operands other than slots, jump offsets and counts of `OP_POPN` are left out.  A `for` has
a condition, an increment or both.

`CompiledCode` runs one frame of any function of the compiled script.  The stack from `Slots` on holds, for each value, the variable whose
declaration left it there; conditions, and what the host's handler answers to `OP_WITH`, are chosen.  The auxiliary fields `place`, `vars` and `marks` of an
instruction say which part of the script it begins, which locals the compiler had then, and which breakpoint statements stand before it.

`SourceOrder` defines, from `tree` alone and with no reference to jumps, the places whose evaluation may follow that of a place:
`EvaluatesInOrder` says every step of the frame that begins a place begins one of these.

### Values, Expressions, Interpreter, BytecodeFile, Meaning, Evaluation and the code

`Values` is used by both sides, as `Value.cpp` and the `Values_*` functions are: the compiler folds with the operators it has written out in
`CheckInfixOptimize`, the interpreter executes its own.  An integer has `Bits` bits and wraps; a decimal counts `Scale`-ths of one.  Strings are objects in a table
by content (`GetInternedString`), because equality of strings is identity.

`Expressions` takes a compiler record `c` through the grammar's functions, one operator for each: `ParsePrecedence` calls a prefix handler, then infix handlers while their
precedence allows.  `Tree`s go in as tokens (`Text` writes brackets only where the language needs them), so that precedence is part of what is checked.
A location is emitted as `OP_LOCATION_...` and turned, where it is read, into a direct load by going back over the code already emitted
(`MakeIndirectPropertyChainDirect`); this and `CheckPrefixOptimize`, `CheckInfixOptimize`, which cut emitted instructions and constants off again, are what could go wrong.
Positions count instructions.

`Interpreter` has an action for each instruction.  `vm.stack` holds values and locations; what a location refers to is looked up when it is loaded or stored.  A call
reaches native functions only, which return their last argument; calls of script functions are `CallStack`'s.

`BytecodeFile` is a sequence of fields with their width.  A reader that expects another width than was written is out of step: `ok` is FALSE from then on.

`Evaluation` is `CompileAndLoad` and a run: `CompileText`, `WriteBytecode`, `LoadBytecode`, then `Run`, one instruction at a time.  `Meaning` evaluates the tree from left to right over a memory
in which strings are what they hold, and knows nothing of instructions.

### Debugger, Execution and the code

`Breakpoints`, `BreakpointsPerFunction`, `CurrentBreakpointIndex`, `AttachedDebuggerCount`, `Frames`, `FrameCount` and `ReturnFrame` are the members of these names.  `host` is the C++ stack: the loop of the program, debuggers (one opens in the middle of `RunInstruction`, with its own stepping state), and
typed scripts on top of them.  `Frames` is an array, in which a frame that returned stays behind, since a debugger may go on executing instructions of one.  A function is its
instructions (an operation, a call, a call through a native function, a return); which position comes from which column decides where `step` stops.

A typed script is a module of one function, compiled (`ExecuteCode`), put on `ModuleList` and `TempModuleList`, and run in a frame above the suspended one.  When any debugger is left, the modules of all typed
scripts are dropped; a collection may then free their functions (`Collect`), and their address may be used again.

`Execution` is the program alone.  `RunsUndebugged` maps to it the frames below the first typed script.

### ManagerLock and the code

A host thread is a stack of operations (`acts`).  An operation waits for the lock ("lock"), has it ("in"), lets other code run under it ("code": the native function of `CallValue`, a getter, a `NewFn`, a script that
is imported, the comparison of `Array.Sort`, the host between `hsl_context_lock` and `hsl_context_unlock`), does the rest ("after"), and releases it.  `GoOn` is an operation that
unlocks and calls the next one, which locks again.  The mutex is recursive and lets only its owner release it.  `Refuse` is a host's lock function that gives up, after which most callers unlock all the same.

Operations without foreign code are one form, `Section`.  `slot` and `Active` are the VM threads; `scanned` is the moment of `NewThread` between
finding one that is not active and `InitThread`, which marks it.

`Usage` names what breaks the pairing: `Array.Reverse` of a range that is out of bounds (returns without unlocking, `ArrayImpl.cpp`), `has` on a value without
properties and `super` of a class without a parent (unlock what they did not lock), an import that is not found in the library (unlocks twice), VM threads made without
the context locked.

## 3. Runs

Each run is exhaustive within its bounds.  `CHECK_DEADLOCK FALSE` is set where the program may
stop at any point (it exits, ends, or the host calls nothing more); `locks` has no such point and is checked for deadlock.

| Run | Usage | Checks | Result |
|---|---|---|---|
| `standalone` | the `hsl` program and C++ hosts of the same classes: `RunMain`, `RunBytecode`, and native functions that call `RunFunction`, `RunEntityFunction`, `InvokeForEntity` to depth 4; errors exit | `TypeOK`, `FrameOrder`, `SlotsAtCallee`, `ImplementsNestedLoops` | holds |
| `library` | a libhsl host that sets up one frame at a time, single-steps it or runs it to its end, or both, in a debug build; errors may come back; native functions call back with `InvokeForEntity` | `RunsOwnFrames`, `Defined`, `ImplementsNestedLoops` | holds |
| `import` | scripts that import scripts, in a debug build | `IdleHasNoFrames` | holds |
| `nested_call` | native functions call script functions with `hsl_call` | `RunsOwnFrames` | violated |
| `repl` | lines that define a function or fill an array, `Array.Sort`, collections between lines | `CodeIsThere`, `NoMarkSurvives`, `SizeOfHeap`, `CollectionEnds` | holds |
| `debugger` | collections at a breakpoint of a program with classes, typed lines that define no function | `NothingUsableIsFreed`, `CollectsAllGarbage`, `ModuleBeforeFunctions` | holds |
| `scripts` | two classes declared again and again, modules run again, errors come back | `NameOnce`, `NoOwnAncestor`, `LookupsAgree`, `MembersKept` | holds |
| `host` | a host defines globals, constants and classes between statements; errors exit | `HomeIsHolder`, `SuperGoesUp`, `ParentOlder`, `Defined`, `ConstantsKept` | holds |
| `statements` | scripts of up to four statements are compiled, and each of their functions executed along every choice of conditions | `SlotsMatch`, `WithsMatch`, `BreakpointsPlaced`, `EvaluatesInOrder` | holds |
| `expressions` | 15 996 sources, with and without optimisation, with every form of file | `AcceptsWhatIsAllowed`, `EvaluatesRight`, `ReadsWhatWasWritten`, `ConstantsUsed` | holds |
| `breakpoints` | a source script started with or without the debugger, whose breakpoints are registered twice, every command at every stop, typed scripts that call the program, debuggers in debuggers | `BreakpointsAgree`, `DebuggersCounted`, `RunningIsLoaded`, `StopsWhereListed`, `RunsUndebugged` | holds |
| `locks` | two host threads of a libhsl program, every operation nested in every other, a lock function that may give up | `Exclusive`, `OwnThread`, `NobodyWaitsForever`, deadlock | holds |

Bounds of the call stack.  The stack has 5 to 7 values instead of 16384, 3 frames instead of 64, 3 or 4
nested C++ activations, calls with up to 2 arguments.  Seven values hold three frames with
two parameters, an optional argument that is not passed, a bound argument, and the
stack limit in the middle of a call; three frames and four activations hold a loop in a native function
in a loop with a call in each, and the frame limit inside a nested loop.  Every property's
violation by its mutant shows that the bounds reach the case.

Bounds of the collector.  Heaps of 4 to 7 objects, of which one or two are built-in classes; at most `MaxRefs` assigned edges and
`MaxRoots` values on the stack and in the tables at a time; collections are due after one to four allocations of size 1 instead of
after a megabyte.  An object freed by one collection can be allocated again and freed by the next; the
number of collections is not bounded.  The two classes of `debugger` are interchangeable (symmetry); that run checks no liveness.  An instance whose
class has a parent, and a class that is replaced, fit into one assigned edge and the class's own.

Bounds of the classes.  Two names, one or two members of which one is built in, three functions, two or three classes.
Three classes are a class, a child, and a second declaration of either, which is the shortest way to a circle of parents and to
every order of members in an extension; two names let one be a constant while the other is a class.  A function has one class and one
name, as the compiler gives them.

Bounds of the compiler.  Scripts of four statements and two labels, two functions with up to one parameter, six
locals instead of 255, two with iterators in a frame instead of 16.  A mix is a set of statements that occur together in a script; the eight mixes of `MCCompiler`
put each way out (break, continue, return, falling through) into each loop that keeps something on the stack, under a
declaration, and each declaration and breakpoint into a switch.  Four statements are a loop in a loop with a variable and a way out, or a switch
in a loop with two statements in its body.  Six locals let the limit be reached by a `foreach` with its three hidden ones.  The body of an `if` is a single
statement, all others are blocks.

Bounds of the expressions.  Integers of 4 bits, so that every operator overflows; decimals in halves.  The sources are every operator on every pair of eleven kinds of operand (constants of
each type and their variables), operators in operators on either side, every kind of location read, stored, stepped and changed in place with every kind of value, branches in branches, calls
and members of every kind of object.  Two levels of operators are what constant folding and direct loads look at.  Every source is an expression statement, where assignments are allowed, and an
initialiser, where they are not.  Memory has a class with two ancestors, so that `super` and own fields can differ.

Bounds of the debugger.  Four frames and four activations: the program, a typed script above it that calls the program, which stops again, in a debugger of its own.  Three breakpoints are ever made: the two entries of a statement
that is registered twice, and one by a command, so that each may be removed while the others stay, before it or behind it.  `Registrations = 1` (a bytecode file) is left to the theorems, which hold for both.  A program of two functions contains a call, a call through a native function, two columns in a function and one column
in two functions.  Two addresses let a dropped script's function be replaced by another one.  The addresses are interchangeable (symmetry); all these properties are safety properties.

Bounds of the lock.  Two threads, two VM threads, two operations nested in each other and one parent for the lookup.  The lock's count then reaches 3, and an operation that releases once too often does so
under one that still needs the lock.  Three threads were run too, for the safety properties.

What the violation shows.  `hsl_call` (`API/Call.cpp:88`) and `hsl_run_module` via
`hsl_setup_call_frame` (`API/Call.cpp:34`) do not save and set `ReturnFrame` as
`RunFunction` and `InvokeForEntity` do.  On an idle thread that is harmless.  In a native function it is
not: after `hsl_call` the loop does not stop when the called function returns, and executes the
rest of the script that called the native function, inside it; after a nested `hsl_run_module`,
the outer loop stops when the *next* function returns into its frame and reports that the frame has
returned.

Imports.  `LoadScriptFromStream` calls the module's main function without a callee on the
stack and without setting `ReturnFrame`.  So the module's return does not end the loop of the
import, writes its result to the importing script's top value (before `Stack[]` if there is none:
`status = "undefined"` in `DoReturn`), and the loop goes on with the importing script;
when that returns, the outer loop finds no frame.  A debug build checks for this, a
release build does not.  No text in the repository says what an import promises, so this is
recorded here and as a hazard, and the `import` run checks what remains true: that no frame is left
behind.

Typed lines (`CodeIsThere` with the heap of `repl` and `Debugger = TRUE`).  A line typed in the debugger becomes a module without file name, which `RemoveTemporaryModules` drops from `ModuleList`
when the debugger is left (`VMThreadDebugger.cpp:226`).  If the line defined a function that a global or an object still
holds, the next collection reaches the function but not its module (`BlackenObject` does not follow `Module`), frees
the module, and `FreeModule` frees the name and bytecode of the function with it (`ScriptManager.cpp:281`).  The comments of
`Collect` say that an object that was reached is unmarked and stays.  The list of temporary modules is the manager's, so
the same happens to functions defined by lines of the REPL when a breakpoint is hit between them.

This and the following disagreements are in the models, behind a constant that the runs do not set, and each was seen to violate the property it is named
with.  So was the nested `hsl_run_module` above: `ImplementsNestedLoops` with `Embedding <- NestedModuleEmbedding`.

Constants (`ConstantsKept` with `ErrorsReturn = TRUE`).  In `OP_DEFINE_CONSTANT` the test for an existing constant is not the first branch of the one that stores
(`VMThread.cpp:904` begins a new `if`).  The error is thrown and the value stored; also an equal constant is stored again, and an extended
class constant would be replaced by the emptied class if the compiler emitted the instruction for classes.

Parents (`NoOwnAncestor` with "late_parent").  `OP_INHERIT` compares names.  The class it works on is always a new one, and only the extension that follows
gives the parent to the class that is in use, which may be an ancestor of that parent.  Nothing checks.

Extension by assignment (`SuperGoesUp` with "alias").  `OP_DEFINE_GLOBAL` cannot tell `class A {}` from `var A = B`: the second moves the members of
`B` into `A`, empties `B`, and leaves `ObjFunction::Class` of the moved methods at `B`.  The same statement executed twice with a new name,
`var x = B`, extends `B` with itself, and the class is empty afterwards.

Two more losses are in the model but contradict no text, so no run checks them.  With `Debugger` and `Natives` both true, a
collection at a breakpoint inside a comparison function of `Array.Sort` frees the element the sort holds.  With
`Hash` equal for a script's class and a built-in one, freeing the former takes the latter out of
`ImplClasses` (`FreeClass` removes by name), and the next collection may free it.  The theorems on the collector exclude just these (`HeldElsewhere`, `OwnNames`).

Compiled code.  The compiler accepts scripts that it does not compile to what they say.  `Sensible` names them, `Usage` lets scripts do them, and each
was seen to violate a property of `statements` when `Usage` contains it:

* `break` in an event inside a loop or switch of another function ("Break", `SlotsMatch`): the list is that of the outer function, so the position is patched in
  the outer function's chunk (`Compiler.cpp:2189`).  For the same reason a `var` in a function inside a `switch` can be refused with
  "Cannot initialize variable inside switch statement." though its scope is another function's; `Refused` has it.
* `continue` in a `switch` ("Continue", `ContinueInLoop`): a switch starts a list of its own (line 2374), so `continue` goes to the end of the switch, also
  where no loop is around it; line 2220 says "Can't continue outside of loop.".
* `case` or `default` in a block or loop inside a switch ("Case", "Default", `SlotsMatch`): declarations around the label are jumped over.
* `breakpoint` in a switch inside a switch ("Breakpoint", `BreakpointsPlaced`): the inner switch moves it and forgets it; the outer one moves only its own (line 3854).
* `enum` or `class` directly in a switch ("Enum", "Class", `SlotsMatch`): only `var` and `const` are refused there.
* an `enum` without name in a block or function ("UnnamedEnum", `SlotsMatch`): its last value stays on the stack (line 3304).
* a static member of a class in a block or function ("Property", `SlotsMatch`): `ParseVariable` declares a local for it (line 3231) that has no
  value, and whose depth of -1 keeps the end of the scope from popping the locals below it.

Expressions.  `Excluded` of `MCEvaluation` has, for each member of `Usage`, an expression that does not do what it says:

* `!0.5` ("NotDecimal", `EvaluatesRight`): folded, it is the integer 0; executed, it is a decimal.  `!` of a constant hitbox ("NotHitbox", `EvaluatesRight`) is folded to nothing at all
  (`Compiler.cpp:3925`).
* a literal with an escape, twice ("Escapes", `EvaluatesRight`): a literal is interned before its escapes are replaced in place (line 1753), so that the two are not the same object.
* `a[a = 0]` ("AssigningIndex", `EvaluatesRight`): the location of a variable is loaded only after the index was evaluated (`VMThread.cpp:2009`), and the new value is indexed.
* `typeof new C()` ("OperatorOnNew", `AcceptsWhatIsAllowed`): `new` refuses to be the operand of a prefix operator (`Compiler.cpp:1965`).
* `super.name` in a method inherited from further up (`Home = 3`, `EvaluatesRight`): it starts at the parent of the *instance's* class, a `super` call at the parent of the method's class (`VMThread.cpp:1569`).
* `super.missing(1)` ("NoSuperMethod", `EvaluatesRight`): when no ancestor has the method, `SuperInvoke` returns without an error (`VMThread.cpp:2276`), and the receiver and the arguments stay on the stack in place of a result.

Debugger.  With these members of `Usage` the properties in brackets are violated:

* "AfterClear" (`RunningIsLoaded`): clearing all breakpoints deletes the functions' arrays of flags, and setting one afterwards writes through a null pointer (`VMThread.cpp:409`).
* "StepOff" (`RunningIsLoaded`): `step` compares columns behind the last instruction of a function, and may execute what lies there.
* "StepOut" (`RunsUndebugged`): the debugger executes the return that should end a nested loop, and the loop goes on with its caller's instructions.
* "StepOver" (`RunsUndebugged`): `step` goes on in the frame it began with although a call or a return has changed the top one, where the next instruction comes from the same column.
* "BreakTyped" (`BreakpointsAgree`): a breakpoint in a typed script outlives it, and is found again under the address of another function.
* A full frame stack (`RunningIsLoaded`, `RunsUndebugged`): a native function that calls back with `FRAMES_MAX` frames while a debugger is open.  The error of `Call` comes back (`VMThread.cpp:2161`), `RunFunction`
  ignores that and runs its loop (line 3208), and the loop executes the frames of its callers up to its own end.  `NativeHasRoom` in `DebuggerProofs` excludes this; it holds in the run's instance, whose only
  native call is in the program's first frame.  With a `MaxFrames` of 3 and a typed script that has `f` called by a native function, which does the same again, TLC finds both violations.

Breakpoints registered twice.  When `hsl` runs a source script, `CompileAndLoad` registers its breakpoint statements (`ScriptManager.cpp:882`), and the runner registers them again
(`Main.cpp:260`); a bytecode file is registered once.  Every statement of a source script has two entries in the list then, but one flag.  Removing one of the two clears the flag, and the program runs past the other,
though it is listed and enabled; so it may when one of the two is disabled.  No text says how often a breakpoint is listed, so this is no finding.  The run has `Registrations = 2`, and
`BreakpointsAgree` and `StopsWhereListed` state the loss as their only exception (`Twinned`, `Complete`): an entry whose twin was removed need not be flagged, and one whose twin was removed or disabled need not stop.  They still say
that a flag has an entry, that a place has no third entry, and that both entries together are flagged and stop.

Lock.  "range" violates `NobodyWaitsForever`, "no object" and "import" violate `Exclusive`, "new thread" violates `OwnThread`.

Fairness.  `NobodyWaitsForever` assumes that the mutex is fair to who tries again and again (`SF_vars(Acquire)`, which `std::recursive_mutex` does not promise but every system's does in practice), that an
operation that has the lock goes on (`WF_vars(Operation)`, `WF_vars(InitThread)`: no step of it waits for anything), and that code which runs under the lock ends (`SF_vars(CodeEnds)` at each depth: native functions, imported
scripts, and what a host does between `hsl_context_lock` and `hsl_context_unlock`).  The last is a promise of scripts and hosts, not of the code: one that loops in a getter keeps everybody out.  A host that brings
its own lock functions must make them recursive and know the owner; with only one of the two functions set nothing is locked.

`CollectionEnds` assumes `WF_vars(Collector)`: `Collect` is one call on one thread that is not
interrupted, so it takes its next step as long as there is one.  All other properties are safety properties and assume
none: a script may loop forever and a host may stop calling.

## 4. Proofs

### Call stack

`CallStackProofs` proves, for every value of the constants that satisfies the assumptions of
`CallStack`, every embedding and both kinds of build, with and without imports:

* `TypeCorrect`: `Spec => []TypeOK`.  `StackTop` stays in `0 .. StackMax`, `FrameCount` in
  `0 .. FramesMax`.
* `CalleeSlots`: `Spec => []SlotsAtCallee`.

Both assume `NoDroppedValues`: no handler answers `HSL_ERROR_RES_CONTINUE` to a stack
overflow.  With that answer `Push` drops the value, the padding of a call falls short, and
slots move below the callee: the assumption is necessary for both.

`TypeOK` is not inductive: returning a frame sets `StackTop` from `Slots`, leaving a loop sets it from
the saved `top`, and a native function that returns subtracts its arguments.  `TypeInv` adds what
bounds these: every `Slots` is the callee's slot and lies in `-1 .. StackMax - 1`; every
saved `top` is at most `StackMax`; a native function's arguments lie below its `top`.
`CallOutcomes` and `CallValueOutcomes` say what any call leaves behind and are the
only place where the arithmetic of arities, optional and bound arguments is done; the steps of
`InstructionTypes` and `HostTypes` cite them, one step for each action.

`NestedLoopsProofs` proves for every `Disciplined` embedding, again for every value of the constants:

* `FramesDoNotOverlap`: `Spec => []FrameOrder`;
* `LoopsRunOwnFrames`: `Spec => []RunsOwnFrames`;
* `LoopsNest`: `Spec => ImplementsNestedLoops`, the refinement;
* `NoWildAccess`: `Spec => []Defined`, with two conditions more (`NoWildCalls`): no handler comes back from a full stack, and
  `CallFunction` is not called on an idle thread, whose stack may not hold the callee;

and, for threads that import, which are not disciplined,

* `NoFramesLeft`: `Spec => []IdleHasNoFrames`, if the embedding program only starts loops on an idle thread (`IdleStartsLoops`).  Native
  functions may call anything but `hsl_setup_call_frame` and `hsl_run_module`.

`Disciplined` is what the embeddings of the runs "standalone" and "library" have in common; it covers both.  Each of its
rules is necessary, which the runs with other usages show (section 3): `hsl_call`, `hsl_run_module` and imports do not put `ReturnFrame`
back; a frame that is set up must be run before anything else is called; `RunFunction` and `RunEntityFunction` ignore what
`Call` returned, so that an error must not come back where they are used.

None of the properties is inductive, since nothing in them constrains what an activation has saved.  `Nested` does: it relates each
record of `Host` to the frames and to what the activation above it has saved (`NextBase`, `Register`, `NextTop`: the saved values, or the
current ones for the top).  A loop has frames of its own, and the register holds the count it began with until the next one sets
it; a native function has made no frame that still exists, and has put back the register.  The proof
goes over nine *moves* rather than over the actions: a step raises or lowers the stack, makes a frame, returns from one, finishes a
pending one, leaves a loop, enters or leaves a native function, enters a loop, or enters one for pending frames.  `NextMoves` shows that every action
is a move, `MoveKeeps` that every move keeps `Nested`, and `LoopsNest` that every move is a step of `NestedLoops` or changes nothing
there: `Levels`, the sequence of frame counters, grows, shrinks or changes at its top just as the move says.
For `NoFramesLeft` less is needed: `BottomLoop` says that under the first loop the register is 0, whatever the loops above it do.

Nothing about `CallStack` is only model-checked.

### Collector

`GarbageCollectorProofs` proves, for every set of objects, every program and every number of collections:

* `Safety`: `[]NothingUsableIsFreed`;
* `Completeness`: `CollectsAllGarbage`, after a collection the list is exactly what is usable;
* `TypeCorrect` (no object is on the list twice), `MarksCleared`, `CodeSafety`.

They assume `NoneDropped` (no debugger, or no module that is typed at its prompt) and `OwnNames` (no class has a
built-in class's name), and that `HeldElsewhere` holds throughout: what a suspended native function holds while the collector marks can be reached from a table too.  Each is
`Spec /\ []HeldElsewhere => ...`.  All three are necessary: typed lines and the two losses of section 3 violate `Safety` without them.

`HeldElsewhere` is about the one place where a collection meets a native function, a breakpoint's prompt inside a comparison function of `Array.Sort`.  It names what is missing there: the collector does not
look at what native functions hold, so an element that the sort has taken out of its array survives only if the stack or a global leads to it.  Where it does, `Safety` says that
everything below what the sort holds survives as well.  `NothingHeld` proves `Spec => []HeldElsewhere` for a program that nobody debugs, whose native functions may hold what they like between collections, and for one whose native functions hold nothing.

`NothingUsableIsFreed` is not inductive.  The invariant `Inv` names what a collection is going to leave, `Live`: the whole list
until the sweep, then what was kept and what is still dark.  `Live` holds the roots and is closed under all edges
(`LiveInv`), so it contains `Usable`; and during a sweep it is contained in `Usable`.  To get there, while marking, everything
below a black object is dark and every dark object is usable (`MarkInv`).  The member that is not visited, a
function's module, needs `GraphInv`: it leads to a module in `ModuleList`.  `DestroyObjectStep` is the
heart: removing a white object's edges does not change what is reached from the roots (`ClosureWithoutOutside`).
Reachability is the least closed set, not a recursion, so that no induction is needed.

Two theorems need neither condition, and hold whatever hides and whatever classes are called:

* `ModulesGoFirst`: `Spec => ModuleBeforeFunctions`.  `OrderInv` says that a module is on the list before its functions (`LoadBytecode` makes it
  last, and the list grows at its head), and that the marks say of its functions what they say of the module.  So the sweep, which unlinks the
  head of what is left, comes to the module first, and what it unlinks between is never a function of a module it kept.
* `SizeCounted`: `Spec => []SizeOfHeap`.  `SumFunctionOnSet` picks the objects in some order; that it does not matter which (`SizeWithout`) and
  that the sizes of disjoint sets add up (`SizeUnion`) is proved with smallest counterexamples among the finite sets (`SmallestSet`), since an
  induction theorem cannot be cited.  Each operation then changes the sum by what it adds to `GarbageSize`.

Only model-checked: `CollectionEnds` (liveness).  With lines typed in the debugger `Safety`, `Completeness` and
`CodeSafety` say nothing; the run has such lines if they define no functions.

### Classes

`ClassesProofs` proves, for every set of names, members, functions and values, and any number of classes:

* `TypeCorrect`, and `NamesOnce`: `Spec => []NameOnce`, with errors that come back and with every usage;
* `ConstantsStay`: `ConstantsKept` if errors end the program (necessary: see Constants above);
* `MembersStay`: `MembersKept` without "alias";
* `HomesHold`: `Spec => []HomeIsHolder` without "alias" and "rerun";
* `ParentsAreOlder`: `Spec => []ParentOlder`, and `NoCircles`: `Spec => []NoOwnAncestor`, without "alias" and "late_parent";
* `LookupsConsistent`: `Spec => []LookupsAgree`, under the same conditions;
* `SuperEnds`: `Spec => []SuperGoesUp` without "alias", "late_parent" and "rerun";
* `MethodsFindClass`: `Spec => []Defined` if errors end the program, with every usage.

`HomesHold`, `MembersStay` and what concerns parents rest on `Fresh`: between `OP_CLASS` and `OP_DEFINE_GLOBAL` the class on the stack is the last one
made, has no members but the built-in ones, and is in no table.  It makes an extension harmless (`NewExtends`): what it moves is built
in, so the extended class keeps what it has.  `AlwaysOlder` adds what the extension hands over: the new class's
parent is older than the class that is going to get it.  It needs `NameOnce`, since `OP_DEFINE_GLOBAL` looks for the class
among the globals first and `GetGlobal` among the constants.

The lookups walk up the parents, `Ancestor(c)`, a recursive function.  That it exists and unfolds (`AncestorUp`) is proved with a least
counterexample instead of an induction.  As parents are older, it has ended before `MaxClasses` steps (`AncestorOlder`), so the bound of the
walk never shows, and `Nearest` unfolds as the loops of the code do: the class itself, or the nearest from its parent
(`NearestUp`).  The four lookups, each with its own order of fields and methods, are then compared step by step (`Agree`).
For `SuperEnds` the method found is in a class above `ObjFunction::Class`, and no method is in two classes (`HomeIsHolder`).
`MethodsFindClass` keeps `ClassDeclared`: behind `OP_DEFINE_GLOBAL` the declaration's name holds a class.  It fails
if errors come back, since the definition of a global that is a constant is then skipped and the methods of the class follow.

### Compiler

`CompilerProofs` proves, for every mix of statements and every limit (length of the script, labels, functions, parameters, locals), with or without braces:

* `BreakpointsStay`: `Spec => []BreakpointsPlaced`, if `Usage` has no "Breakpoint", that is, if no breakpoint stands in a switch inside a switch.  The condition is necessary (section 3);
  all other usages are allowed.

`BreakpointsPlaced` speaks of finished chunks only.  What makes it inductive, `BreakpointsKept`, says where a breakpoint is while its function is compiled:

* `Workers`: each compiler is in the middle of statements nested as the grammar nests them: the outermost is the function, and a block of labels is directly inside its switch.
* `Marks`: the lists in `BreakpointListStack`, which all compilers share, belong to the functions and switches under way, one each and in the order in which these were opened (`Belong`), so that the last is that of the innermost.
* For each position in a list, and for those that were handed to a function by a switch already (`Begun`): its instruction has it, or it is the next to be emitted (`Stopped`); it lies in front of the
  blocks of the switches opened later, and not in front of those around it (`Kept`).  A list that is not empty is that of a function or of its only switch (`Alone`): here the condition is used.
* `Switches`: the lists of labels belong to the switches under way and hold positions.

Most steps only grow the innermost compiler (`Grows`): nothing is taken from its code, jumps are patched, statements other than functions and switches open and close.  `OnwardSteps` says so of each of the
compiler's operators, one `Step...` lemma of each grammar function, `GrownStack` that the invariant is kept.  Four steps are left: a function is opened or closed (`FunctionOpened`, `FunctionClosed`), a switch is opened or
closed (`SwitchOpened`, `SwitchClosed`).  The last is the only one that moves code: it puts the tests of the labels in front of the block.  `TextOfTests` and `CodeMoved` say by how much the block moves, `KeptBefore` that what was
marked before the switch is not moved, `KeptWithin` that what was marked in the block is moved as far as the block.

Only model-checked: `EvaluatesInOrder`, since `SourceOrder` is recursive over the script; `WithsMatch` and `SlotsMatch`, which relate what is compiled to the
run-time stack along every path through a chunk that is still being patched, and need an invariant over all its instructions and pending jumps.

### Expressions

No theorems: expressions are trees, `Text` and `Evaluate` are recursive, and `Values` uses the bitwise operators, which the provers do not know.

### Debugger

`DebuggerProofs` proves, for every program, every set of typed scripts, any number of frames, breakpoints and debuggers:

* `Agreement`: `Spec => []BreakpointsAgree`;
* `Stopping`: `Spec => StopsWhereListed`.

They hold whether the program is registered once or twice, and assume `PlainTyped`: typed scripts have no breakpoints (necessary: see "BreakTyped").  What the properties except for a program that is registered twice is in section 3.  The inductive invariant `PointsInv` adds to the
agreement that listed indices are below `CurrentBreakpointIndex`, so that a new breakpoint replaces none, and that nothing is listed before the program is registered.  `AddKeeps`, `RemoveKeeps`, `ChangeKeeps`
and `LoadKeeps` say what each operation on list and flags preserves; all commands and hits are compositions of these.  `Stopping` needs `HostInv` besides: a loop's and a debugger's notion of where the program stands.

`DebuggerProofs` (second half) and `UndebuggedProofs` prove, again for every program, every set of typed scripts and every sequence of commands:

* `Counting`: `Spec => []DebuggersCounted`, whatever users do;
* `Loadedness`: `Spec /\ []NativeHasRoom => []RunningIsLoaded`;
* `Transparency`: `Spec /\ []NativeHasRoom => RunsUndebugged`, the refinement of `Execution`.

The last two assume `CarefulUse`: none of "AfterClear", "StepOff", "StepOut", "StepOver".  Each of these and `NativeHasRoom` is necessary for one of the two (section 3).  "BreakTyped" and both registrations are allowed.

Neither property is inductive: that what a frame executes is loaded depends on who makes and leaves frames, and a debugger does so behind the back of the loop below it.  `Debugged` says what holds the parts together.

* `Shape`: a typed script is entered from a prompt only, a debugger above a loop only, a native function's loop above a stepping debugger only in the middle of its step.
* `Nest`: for each activation the frame count and the register it is going to see again (`Base` and `Register`: what the loop above it has saved, or the current ones).  A loop sees its own end in the register, and there are frames above that end.
* `Steps`: a debugger that is going to execute an instruction looks at the top frame, and at an instruction that is not the return its loop waits for; one that is going to compare columns looks at an instruction that exists,
  and, if the column is the same, may execute it.  This is where the guards of `Step` and `NextInstruction` and the instructions in a row from one column come in.
* `Loaded`: every frame's code is there and its position inside.  The collection after a typed script keeps what a frame holds, and only frames below the end of its loop are left.
* `ProgramOnly`: below the first typed script all frames are the program's.

For the refinement, every action is a step of `Execution` if no typed script is on the C++ stack and the frames move (`ProgramMoves`), or leaves the frames below the first typed script alone (`Stays`): these are at or below the
register, and nothing reaches below the register.  When the first typed script's loop ends, the program's frames are what the loop puts back.

Nothing about `Debugger` is only model-checked.

### Lock

`ManagerLockProofs` proves, for any number of threads and VM threads, any depth of nesting and any number of parents:

* `LockExcludes`: `Spec => []Exclusive`, if no operation releases what it has not taken (`Paired`: none of "range", "no object", "import");
* `OneThreadEach`: `Spec => []OwnThread`, if moreover VM threads are made with the context locked.

`Exclusive` says nothing about the count, on which the release depends.  `LockInv` does: all operations of a thread below the innermost hold the lock once, the innermost does if it is past
`Lock()`, the owner's count is that number (`HeldIn`), and no other thread holds any.  `SlotInv` adds that a VM thread which was found free and is not yet marked is inactive, and
that who found it is inside.  `NobodyWaitsForever` is liveness and stays with TLC.

## 5. Not modelled

* Namespaces: `NewNamespace` has no caller, so `OP_USE_NAMESPACE` can only report that the namespace does not exist.
* Of the compiler: `for` with neither condition nor increment, and with an expression in place of its declaration; the named variable of `repeat` that counts what remains; the refusal to
  assign to a local constant (`Compiler.cpp:2119`); the limit of 65535 breakpoints in a chunk (`Compiler.cpp:4356`).
* The scanner, and the parsing of debugger commands: text.
* What the compiler keeps static between sources (functions, module variables, standard constants); the lists of the compiler that are static are in `Compiler`.
* Commands of the debugger that only print, and local variables that typed code shares with the suspended frame.
* Bytecode of older versions; the 16-bit width of jump offsets and the 8-bit indices of switch tables (hazards without a property).
* What the methods of arrays, maps and strings compute; floating point rounding.
* `HashMap`, `OrderedHashMap`: wrappers of the vendored map; the models use functions.
* `FileStream`, `TerminalInput`, `Log`, `ValuePrinter`, `PrintBuffer`, `Clock`: I/O and wording.
* `Hashing/`: MD5, CRC-32 and Murmur are standard algorithms; names are modelled as distinct hashes.
* `third_party/`: vendored.

## 6. Plan

1. (done) `CallStack`, `GarbageCollector`, `Classes` and their proofs.
2. (done) `Compiler`, `CompiledCode`, `SourceOrder`: locals, scopes, lists of jumps, with iterators; the compiled slot is the run-time slot.
3. (done) `Values`, `Expressions`, `Interpreter`, `BytecodeFile`, `Meaning`, `Evaluation`: expressions from text to value.
4. (done) `Debugger`, `Execution` and their proofs.
5. (done) `ManagerLock` and its proofs.
6. (done) `NestedLoopsProofs`: `FrameOrder`, `RunsOwnFrames`, `Defined` and the refinement of `NestedLoops`.
7. (done) `DebuggerProofs`, second half, and `UndebuggedProofs`: `DebuggersCounted`, `RunningIsLoaded` and the refinement of `Execution`.
8. (done) `CompilerProofs`: `BreakpointsPlaced`.
9. `WithsMatch` and `SlotsMatch` for every script: for each instruction the with statements and the locals a frame has there, kept along jumps and through patching and moving.
10. Widths: jump offsets, switch tables, counts of constants and locals, against the instructions' operands.
11. What is static in the compiler, across sources and errors.

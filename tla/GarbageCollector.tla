---------------------------- MODULE GarbageCollector ----------------------------
(***************************************************************************)
(* The mark-and-sweep collector (HSL/GarbageCollector.cpp), the allocation *)
(* and destruction of objects (HSL/ScriptManager.cpp) and what a program   *)
(* does to the object graph between collections.                           *)
(*                                                                         *)
(* The collector does not run by itself: the prompt of the REPL and the    *)
(* prompt of the debugger request it, the latter while scripts and native  *)
(* functions are suspended.  The program does not run while it does.       *)
(*                                                                         *)
(* An object is its identity and its kind; the members that point to other *)
(* objects are edges of a graph.  Members(k) are those that code follows,  *)
(* Visited(k) those that BlackenObject follows.                            *)
(***************************************************************************)
EXTENDS Integers, Sequences, FiniteSets, SequencesExt, Functions

CONSTANTS
  Objects,       \* memory: every object that may be allocated
  kind,          \* Obj::Type
  Hash,          \* the name of a class
  ImplClass,     \* kinds of built-in types -> their class (ImplArray->Class, ...)
  BuiltinList,   \* the classes made by the constructor, newest first
  Script,        \* module -> its functions, the main function first
  Typed,         \* modules of what is typed at a prompt: they have no file name
  Size,          \* sizeof of the object
  FirstGC,       \* 0x100000
  GCStep,        \* 1024 * 1024
  Debugger,      \* breakpoints are hit; what is typed there may request collections
  Natives,       \* native functions hold values that are nowhere else
  MaxRefs,       \* bound: edges the program has assigned
  MaxRoots       \* bound: entries of the stack, the globals and the constants

Kinds == {"string", "array", "map", "instance", "bound method", "class", "enum",
          "namespace", "function", "module"}

\* What Collect grays: the stack and the modules of the frames of the active
\* threads, and four tables of the manager.
Tables == {"Stack", "Frames", "Globals", "Constants", "ModuleList", "ImplClasses"}

MemberNames == {"Object.Class", "Arguments", "Method", "Methods", "Fields",
                "Initializer", "Parent", "Class", "Constants", "Module", "Locals",
                "Functions", "Values", "Keys"}

Builtins == Range(BuiltinList)
Modules == {o \in Objects : kind[o] = "module"}

ASSUME ObjectsAssumption ==
  /\ kind \in [Objects -> Kinds]
  /\ BuiltinList \in Seq(Objects) /\ IsInjective(BuiltinList)
  /\ \A c \in Builtins : kind[c] = "class"
  /\ DOMAIN ImplClass \subseteq {"string", "array", "map", "function"}
  /\ Range(ImplClass) \subseteq Builtins
  /\ Modules # {} => "function" \in DOMAIN ImplClass

ASSUME ScriptAssumption ==
  /\ Typed \subseteq Modules
  /\ Script \in [Modules -> Seq(Objects) \ {<<>>}]
  /\ \A m \in Modules : IsInjective(Script[m])
  /\ \A m \in Modules : \A f \in Range(Script[m]) : kind[f] = "function"
  /\ \A m, n \in Modules : m # n => Range(Script[m]) \cap Range(Script[n]) = {}

ASSUME NumbersAssumption ==
  /\ Size \in [Objects -> Nat \ {0}]
  /\ FirstGC \in Nat /\ GCStep \in Nat /\ MaxRefs \in Nat /\ MaxRoots \in Nat
  /\ Debugger \in BOOLEAN /\ Natives \in BOOLEAN

VARIABLES
  kept,            \* the list from RootObject up to where the sweep is,
  rest,            \*   and from there on
  refs,            \* the edges: <<object, member, object>>
  roots,           \* table -> the objects in it
  TempModuleList,
  native,          \* values in variables of a suspended native function only
  destroyed,       \* functions on the list whose name and chunk are freed
  phase,           \* "run", "mark", "sweep"
  IsDark,          \* the objects with IsDark set
  GrayList,        \* the part of GrayList not yet visited
  GarbageSize, NextGC

vars == <<kept, rest, refs, roots, TempModuleList, native, destroyed, phase, IsDark,
          GrayList, GarbageSize, NextGC>>

Heap == Range(kept) \cup Range(rest)

\* No object is on the list twice; the sizes are a matter of SizeOfHeap.
TypeOK ==
  /\ kept \in Seq(Objects) /\ rest \in Seq(Objects) /\ IsInjective(kept \o rest)
  /\ refs \subseteq Objects \X MemberNames \X Objects
  /\ roots \in [Tables -> SUBSET Objects]
  /\ TempModuleList \subseteq Objects /\ native \subseteq Objects
  /\ destroyed \subseteq Objects
  /\ phase \in {"run", "mark", "sweep"}
  /\ IsDark \subseteq Objects /\ GrayList \subseteq Objects

Init ==
  /\ kept = <<>> /\ rest = BuiltinList
  /\ refs = {}
  /\ roots = [t \in Tables |-> IF t = "ImplClasses" THEN Builtins ELSE {}]
  /\ TempModuleList = {} /\ native = {} /\ destroyed = {}
  /\ phase = "run" /\ IsDark = {} /\ GrayList = {}
  /\ GarbageSize = SumFunctionOnSet(Size, Builtins) /\ NextGC = FirstGC

-----------------------------------------------------------------------------
(* The graph. *)

\* The members of an object that point to objects.
Members(k) ==
  {"Object.Class"} \cup
  CASE k = "bound method" -> {"Arguments", "Method"}
    [] k = "class"        -> {"Methods", "Fields", "Initializer", "Parent"}
    [] k = "function"     -> {"Class", "Constants", "Module"}
    [] k = "module"       -> {"Locals", "Functions"}
    [] k = "array"        -> {"Values"}
    [] k = "map"          -> {"Keys", "Values"}
    [] k \in {"instance", "enum", "namespace"} -> {"Fields"}
    [] OTHER              -> {}

\* Mutant: the parent of a class is not visited.
VisitedNoParent(k) == Members(k) \ {"Module", "Parent"}

\* The members BlackenObject follows: all but ObjFunction::Module.
Visited(k) == Members(k) \ {"Module"}

\* What can be reached from the objects in from along the edges E.
Closure(E, from) ==
  LET Closed == {S \in SUBSET Objects :
                   from \subseteq S /\ \A e \in E : e[1] \in S => e[3] \in S}
  IN  {o \in Objects : \A S \in Closed : o \in S}

Rooted == UNION {roots[t] : t \in Tables}

VisitedRefs == {e \in refs : e[2] \in Visited(kind[e[1]])}

\* What the program may still use: it starts at what the collector knows, at the
\* variables of native functions and at ImplArray->Class, ImplMap->Class, ...
Usable == Closure(refs, Rooted \cup native \cup Builtins)

-----------------------------------------------------------------------------
(* The program, between collections. *)

Running == phase = "run" /\ UNCHANGED <<kept, phase, IsDark, GrayList, NextGC>>

ModulesOf(f) == {e[3] : e \in {d \in refs : d[1] = f /\ d[2] = "Module"}}

\* A main function is called by its loader and is never a value of the program.
IsMain(f) == \E m \in Modules : Script[m][1] = f

CanBeValue(o) == kind[o] # "module" /\ ~ IsMain(o)

\* A member that holds one object.
Single == {"Initializer", "Parent", "Class"}

\* The members the program assigns, ...
Assigned == MemberNames \ {"Object.Class", "Arguments", "Method", "Constants", "Module",
                           "Functions"}

\* ... and the kinds of what it puts there.
Assignable(o, m, p) ==
  /\ m \in Assigned /\ m \in Members(kind[o])
  /\ m \in {"Class", "Parent"} => kind[p] = "class" /\ p # o
  /\ m \in {"Methods", "Initializer"} => kind[p] = "function"
  /\ m = "Keys" => kind[p] = "string"
  /\ CanBeValue(p)

\* The edges of a new object are set.
SetNewRefs(o) ==
  \/ /\ kind[o] \in DOMAIN ImplClass
     /\ refs' = refs \cup {<<o, "Object.Class", ImplClass[kind[o]]>>}
  \/ /\ kind[o] = "instance"
     /\ \E c \in Usable :
          kind[c] = "class" /\ refs' = refs \cup {<<o, "Object.Class", c>>}
  \/ /\ kind[o] = "bound method"
     /\ \E f, a \in {p \in Usable : CanBeValue(p)} :
          kind[f] = "function" /\ refs' = refs \cup {<<o, "Method", f>>, <<o, "Arguments", a>>}
  \/ /\ kind[o] \notin DOMAIN ImplClass \cup {"instance", "bound method"}
     /\ UNCHANGED refs

\* AllocateObject by a New function; the object is then pushed.
AllocateObject(o) ==
  /\ Running
  /\ o \notin Heap /\ kind[o] \notin {"function", "module"}
  /\ rest' = <<o>> \o rest
  /\ GarbageSize' = GarbageSize + Size[o]
  /\ SetNewRefs(o)
  /\ roots' = [roots EXCEPT !["Stack"] = @ \cup {o}]
  /\ UNCHANGED <<TempModuleList, native, destroyed>>

\* Mutant: the module object is made before its functions are read.
LoadBytecodeModuleFirst(m) ==
  LET fs == Script[m]
  IN  /\ Running
      /\ m \notin Heap /\ Range(fs) \cap Heap = {}
      /\ rest' = Reverse(fs) \o <<m>> \o rest
      /\ GarbageSize' = GarbageSize + SumFunctionOnSet(Size, {m} \cup Range(fs))
      /\ refs' = refs
           \cup {<<m, "Functions", f>> : f \in Range(fs)}
           \cup {<<f, "Module", m>> : f \in Range(fs)}
           \cup {<<f, "Object.Class", ImplClass["function"]>> : f \in Range(fs)}
      /\ roots' = [roots EXCEPT !["ModuleList"] = @ \cup {m}, !["Frames"] = @ \cup {m}]
      /\ TempModuleList' = TempModuleList \cup ({m} \cap Typed)
      /\ UNCHANGED <<native, destroyed>>

\* ReadBytecode makes the functions, LoadBytecode the module; a frame is made for the
\* main function.
LoadBytecode(m) ==
  LET fs == Script[m]
  IN  /\ Running
      /\ m \notin Heap /\ Range(fs) \cap Heap = {}
      /\ rest' = <<m>> \o Reverse(fs) \o rest
      /\ GarbageSize' = GarbageSize + SumFunctionOnSet(Size, {m} \cup Range(fs))
      /\ refs' = refs
           \cup {<<m, "Functions", f>> : f \in Range(fs)}
           \cup {<<f, "Module", m>> : f \in Range(fs)}
           \cup {<<f, "Object.Class", ImplClass["function"]>> : f \in Range(fs)}
      /\ roots' = [roots EXCEPT !["ModuleList"] = @ \cup {m}, !["Frames"] = @ \cup {m}]
      /\ TempModuleList' = TempModuleList \cup ({m} \cap Typed)
      /\ UNCHANGED <<native, destroyed>>

\* A function is called, or the last frame of a module returns.
Call(f) ==
  /\ Running
  /\ kind[f] = "function" /\ CanBeValue(f)
  /\ roots' = [roots EXCEPT !["Frames"] = @ \cup ModulesOf(f)]
  /\ UNCHANGED <<rest, refs, TempModuleList, native, destroyed, GarbageSize>>

Return(m) ==
  /\ Running
  /\ m \in roots["Frames"] /\ native = {}
  /\ roots' = [roots EXCEPT !["Frames"] = @ \ {m}]
  /\ UNCHANGED <<rest, refs, TempModuleList, native, destroyed, GarbageSize>>

\* An instruction makes a usable value a value of the stack, a global or a constant.
Put(t, o) ==
  /\ Running
  /\ CanBeValue(o)
  /\ roots' = [roots EXCEPT ![t] = @ \cup {o}]
  /\ UNCHANGED <<rest, refs, TempModuleList, native, destroyed, GarbageSize>>

\* A value is popped; a global is given another value.
Take(t, o) ==
  /\ Running
  /\ o \in roots[t]
  /\ roots' = [roots EXCEPT ![t] = @ \ {o}]
  /\ UNCHANGED <<rest, refs, TempModuleList, native, destroyed, GarbageSize>>

\* A member of a usable object is assigned.
Store(o, m, p) ==
  /\ Running
  /\ Assignable(o, m, p)
  /\ refs' = {e \in refs : ~ (e[1] = o /\ e[2] = m /\ m \in Single)} \cup {<<o, m, p>>}
  /\ UNCHANGED <<rest, roots, TempModuleList, native, destroyed, GarbageSize>>

Drop(o, m, p) ==
  /\ Running
  /\ <<o, m, p>> \in refs /\ Assignable(o, m, p)
  /\ refs' = refs \ {<<o, m, p>>}
  /\ UNCHANGED <<rest, roots, TempModuleList, native, destroyed, GarbageSize>>

\* std::stable_sort in Array.Sort moves an element out of the array and calls the
\* comparison; it puts the element back before it returns.
TakeOut(a, o) ==
  /\ Running /\ Natives
  /\ <<a, "Values", o>> \in refs /\ roots["Frames"] # {}
  /\ refs' = refs \ {<<a, "Values", o>>}
  /\ native' = native \cup {o}
  /\ UNCHANGED <<rest, roots, TempModuleList, destroyed, GarbageSize>>

PutBack(a, o) ==
  /\ Running
  /\ kind[a] = "array" /\ o \in native
  /\ refs' = refs \cup {<<a, "Values", o>>}
  /\ native' = native \ {o}
  /\ UNCHANGED <<rest, roots, TempModuleList, destroyed, GarbageSize>>

\* The debugger is left: Exit.
RemoveTemporaryModules ==
  /\ Running /\ Debugger /\ roots["Frames"] # {}
  /\ roots' = [roots EXCEPT !["ModuleList"] = @ \ TempModuleList]
  /\ TempModuleList' = {}
  /\ UNCHANGED <<rest, refs, native, destroyed, GarbageSize>>

-----------------------------------------------------------------------------
(* The collector. *)

AtPrompt == Debugger \/ (roots["Frames"] = {} /\ native = {})

\* Mutant: the modules are not roots.
StartCollectNoModules ==
  /\ phase = "run" /\ AtPrompt /\ GarbageSize > NextGC /\ Heap # {}
  /\ phase' = "mark"
  /\ IsDark' = UNION {roots[t] : t \in Tables \ {"ModuleList"}} /\ GrayList' = IsDark'
  /\ UNCHANGED <<kept, rest, refs, roots, TempModuleList, native, destroyed,
                 GarbageSize, NextGC>>

\* RequestGarbageCollection and the first part of Collect: the roots are grayed.
StartCollect ==
  /\ phase = "run" /\ AtPrompt /\ GarbageSize > NextGC /\ Heap # {}
  /\ phase' = "mark"
  /\ IsDark' = Rooted /\ GrayList' = Rooted
  /\ UNCHANGED <<kept, rest, refs, roots, TempModuleList, native, destroyed,
                 GarbageSize, NextGC>>

\* Mutant: a dark child is grayed again.
BlackenObjectAgain(o) ==
  LET children == {e[3] : e \in {d \in VisitedRefs : d[1] = o}}
  IN  /\ phase = "mark" /\ o \in GrayList
      /\ IsDark' = IsDark \cup children
      /\ GrayList' = (GrayList \ {o}) \cup children
      /\ UNCHANGED <<kept, rest, refs, roots, TempModuleList, native, destroyed, phase,
                     GarbageSize, NextGC>>

\* BlackenObject, and GrayObject for each child: a dark object is not grayed again.
BlackenObject(o) ==
  LET white == {e[3] : e \in {d \in VisitedRefs : d[1] = o}} \ IsDark
  IN  /\ phase = "mark" /\ o \in GrayList
      /\ IsDark' = IsDark \cup white
      /\ GrayList' = (GrayList \ {o}) \cup white
      /\ UNCHANGED <<kept, rest, refs, roots, TempModuleList, native, destroyed, phase,
                     GarbageSize, NextGC>>

StartSweep ==
  /\ phase = "mark" /\ GrayList = {}
  /\ phase' = "sweep"
  /\ UNCHANGED <<kept, rest, refs, roots, TempModuleList, native, destroyed, IsDark,
                 GrayList, GarbageSize, NextGC>>

\* Mutant: the mark stays.
KeepMarked ==
  /\ phase = "sweep" /\ rest # <<>> /\ Head(rest) \in IsDark
  /\ kept' = Append(kept, Head(rest)) /\ rest' = Tail(rest)
  /\ UNCHANGED <<refs, roots, TempModuleList, native, destroyed, phase, IsDark, GrayList,
                 GarbageSize, NextGC>>

\* A dark object is unmarked and stays on the list.
Keep ==
  /\ phase = "sweep" /\ rest # <<>> /\ Head(rest) \in IsDark
  /\ kept' = Append(kept, Head(rest)) /\ rest' = Tail(rest)
  /\ IsDark' = IsDark \ {Head(rest)}
  /\ UNCHANGED <<refs, roots, TempModuleList, native, destroyed, phase, GrayList,
                 GarbageSize, NextGC>>

\* FreeModule frees the names and chunks of the module's functions, ...
FunctionsOf(o) == {e[3] : e \in {d \in refs : d[1] = o /\ d[2] = "Functions"}}

\* ... FreeClass takes the name of the class out of ImplClasses.
WithoutClass(o) ==
  IF kind[o] = "class" THEN {c \in roots["ImplClasses"] : Hash[c] # Hash[o]}
  ELSE roots["ImplClasses"]

\* Mutant: the size is not subtracted.
DestroyObjectKeepSize ==
  LET o == Head(rest)
  IN  /\ phase = "sweep" /\ rest # <<>> /\ o \notin IsDark
      /\ rest' = Tail(rest)
      /\ refs' = {e \in refs : e[1] # o}
      /\ destroyed' = (destroyed \ {o}) \cup FunctionsOf(o)
      /\ roots' = [roots EXCEPT !["ImplClasses"] = WithoutClass(o)]
      /\ UNCHANGED <<kept, TempModuleList, native, phase, IsDark, GrayList, GarbageSize, NextGC>>

\* Mutant: the sweep moves on after it has unlinked an object.
DestroyObjectSkip ==
  LET o == Head(rest)
  IN  /\ phase = "sweep" /\ rest # <<>> /\ o \notin IsDark
      /\ rest' = SubSeq(rest, 3, Len(rest)) /\ kept' = kept \o SubSeq(rest, 2, 2)
      /\ refs' = {e \in refs : e[1] # o}
      /\ destroyed' = (destroyed \ {o}) \cup FunctionsOf(o)
      /\ roots' = [roots EXCEPT !["ImplClasses"] = WithoutClass(o)]
      /\ GarbageSize' = GarbageSize - Size[o]
      /\ UNCHANGED <<TempModuleList, native, phase, IsDark, GrayList, NextGC>>

\* A white object is unlinked and freed: DestroyObject.
DestroyObject ==
  LET o == Head(rest)
  IN  /\ phase = "sweep" /\ rest # <<>> /\ o \notin IsDark
      /\ rest' = Tail(rest)
      /\ refs' = {e \in refs : e[1] # o}
      /\ destroyed' = (destroyed \ {o}) \cup FunctionsOf(o)
      /\ roots' = [roots EXCEPT !["ImplClasses"] = WithoutClass(o)]
      /\ GarbageSize' = GarbageSize - Size[o]
      /\ UNCHANGED <<kept, TempModuleList, native, phase, IsDark, GrayList, NextGC>>

EndCollect ==
  /\ phase = "sweep" /\ rest = <<>>
  /\ phase' = "run"
  /\ kept' = <<>> /\ rest' = kept
  /\ NextGC' = GarbageSize + GCStep /\ GrayList' = {}
  /\ UNCHANGED <<refs, roots, TempModuleList, native, destroyed, IsDark, GarbageSize>>

-----------------------------------------------------------------------------
\* What scripts and native functions do, they do to objects they can use.
Program ==
  /\ phase = "run"
  /\ \/ \E o \in Objects : AllocateObject(o)
     \/ \E m \in Modules : LoadBytecode(m)
     \/ \E m \in Modules : Return(m)
     \/ \E t \in {"Stack", "Globals"}, o \in Objects : Take(t, o)
     \/ \E o \in Usable : Call(o) \/ \E t \in {"Stack", "Globals", "Constants"} : Put(t, o)
     \/ \E o, p \in Usable :
          \/ \E m \in MemberNames : Store(o, m, p) \/ Drop(o, m, p)
          \/ TakeOut(o, p) \/ PutBack(o, p)
     \/ RemoveTemporaryModules

Collector ==
  \/ \E o \in Objects : BlackenObject(o)
  \/ StartSweep \/ Keep \/ DestroyObject \/ EndCollect

WithinBounds ==
  /\ Cardinality({e \in refs : e[2] \in Assigned}) <= MaxRefs
  /\ Cardinality(roots["Stack"]) + Cardinality(roots["Globals"])
       + Cardinality(roots["Constants"]) <= MaxRoots

Next == (Program /\ WithinBounds') \/ StartCollect \/ Collector

Spec == Init /\ [][Next]_vars

\* Collect is one call that runs to its end.
FairSpec == Spec /\ WF_vars(Collector)

-----------------------------------------------------------------------------
(* Properties. *)

\* Nothing the program can still use is ever freed: neither what the tables of the
\* collector lead to, nor a class a built-in type still has a pointer to, nor the
\* module of a function.
NothingUsableIsFreed == Usable \subseteq Heap

\* A function that can be called has its name and its bytecode, whatever became of
\* the module it was read with.
CodeIsThere == Usable \cap destroyed = {}

\* A collection leaves exactly what is reachable: all garbage goes at once.
CollectsAllGarbage ==
  [][phase = "sweep" /\ phase' = "run" => Heap' = Usable']_vars

\* A mark that survived would make the next collection skip the object and free
\* what it points to.
NoMarkSurvives == phase = "run" => IsDark = {} /\ GrayList = {}

\* GarbageSize is the size of what is on the list.
SizeOfHeap == GarbageSize = SumFunctionOnSet(Size, Heap)

\* FreeModule reaches into the functions of the module: they are freed after it.
ModuleBeforeFunctions ==
  [][Len(rest') < Len(rest) /\ Len(kept') = Len(kept)
       => FunctionsOf(Head(rest)) \subseteq Range(rest)]_vars

\* A collection ends.
CollectionEnds == phase # "run" ~> phase = "run"

=============================================================================

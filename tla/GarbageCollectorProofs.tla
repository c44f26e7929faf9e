------------------------- MODULE GarbageCollectorProofs -------------------------
(***************************************************************************)
(* A collection frees what the program cannot use any more, and nothing    *)
(* else: for every heap, provided no module is dropped while a function of *)
(* it may live on, no class has the name of a built-in one, and what a     *)
(* suspended native function holds is held elsewhere too when a debugger's *)
(* prompt collects.  Without these conditions: a module is freed before    *)
(* its functions, and GarbageSize is the size of the heap.                 *)
(***************************************************************************)
EXTENDS GarbageCollector, TLAPS, WellFoundedInduction, FiniteSetTheorems

\* No module is dropped: there is no debugger, or no line is typed in it.
NoneDropped == ~ Debugger \/ Typed = {}

\* While the collector marks, what a suspended native function holds can be reached from
\* a table too, as the operands of a comparison in Array.Sort can from the stack.
HeldElsewhere == phase = "mark" => native \subseteq Closure(refs, Rooted)

\* No class of a script has the name of a built-in class.
OwnNames == \A c \in Builtins, o \in Objects : kind[o] = "class" /\ Hash[o] = Hash[c] => o = c

-----------------------------------------------------------------------------
(* The inductive invariant. *)

\* The sweep's two halves of the list, each object once.
ListInv ==
  /\ kept \in Seq(Objects) /\ rest \in Seq(Objects)
  /\ IsInjective(kept) /\ IsInjective(rest)
  /\ Range(kept) \cap Range(rest) = {}
  /\ phase # "sweep" => kept = <<>>

\* The edges start at objects of the list; the modules of functions stay listed.
GraphInv ==
  /\ refs \subseteq Objects \X MemberNames \X Objects
  /\ \A e \in refs : /\ e[1] \in Heap
                     /\ e[2] \in Members(kind[e[1]])
                     /\ e[2] = "Module" => e[3] \in roots["ModuleList"]
                     /\ e[2] = "Functions" => e[1] \in roots["ModuleList"]

TableInv ==
  /\ roots \in [Tables -> SUBSET Objects]
  /\ roots["ImplClasses"] = Builtins
  /\ TempModuleList \subseteq Typed
  /\ native \subseteq Objects
  /\ destroyed = {}

\* What the collector is going to leave.
Live == IF phase = "sweep" THEN Range(kept) \cup IsDark ELSE Heap

\* It holds every root and is closed under all edges.
LiveInv ==
  /\ Rooted \cup native \subseteq Live
  /\ \A e \in refs : e[1] \in Live => e[3] \in Live

\* The marks: everything below the gray objects is dark, and nothing is that cannot
\* be reached.
MarkInv ==
  /\ phase \in {"run", "mark", "sweep"}
  /\ GrayList \subseteq IsDark /\ IsDark \subseteq Range(rest)
  /\ phase = "run" => IsDark = {}
  /\ phase # "mark" => GrayList = {}
  /\ phase = "mark" =>
       /\ Rooted \subseteq IsDark
       /\ IsDark \subseteq Usable
       /\ \A e \in VisitedRefs : e[1] \in IsDark \ GrayList => e[3] \in IsDark
  /\ phase = "sweep" => Live \subseteq Usable

Inv == ListInv /\ GraphInv /\ TableInv /\ LiveInv /\ MarkInv

-----------------------------------------------------------------------------
(* Sequences without repetition. *)

\* The first element of a list without repetitions is not in the rest of it.
LEMMA HeadTail ==
  ASSUME NEW S, NEW s \in Seq(S), s # <<>>, IsInjective(s)
  PROVE  /\ Head(s) \in S /\ Tail(s) \in Seq(S) /\ IsInjective(Tail(s))
         /\ Range(s) = {Head(s)} \cup Range(Tail(s))
         /\ Head(s) \notin Range(Tail(s))
<1>1. Len(s) \in Nat /\ Len(s) >= 1 /\ DOMAIN s = 1 .. Len(s)
  OBVIOUS
<1>2. /\ Head(s) = s[1] /\ Head(s) \in S
      /\ Tail(s) \in Seq(S)
      /\ DOMAIN Tail(s) = 1 .. Len(s) - 1
      /\ \A i \in 1 .. Len(s) - 1 : Tail(s)[i] = s[i + 1]
  BY <1>1
<1>3. IsInjective(Tail(s))
  <2> SUFFICES ASSUME NEW i \in 1 .. Len(s) - 1, NEW j \in 1 .. Len(s) - 1,
                      Tail(s)[i] = Tail(s)[j]
               PROVE  i = j
    BY <1>2 DEF IsInjective
  <2>1. i + 1 \in DOMAIN s /\ j + 1 \in DOMAIN s /\ s[i + 1] = s[j + 1]
    BY <1>1, <1>2
  <2>2. i + 1 = j + 1
    BY <2>1 DEF IsInjective
  <2> QED
    BY <2>2, <1>1
<1>4. Range(s) = {Head(s)} \cup Range(Tail(s))
  <2>1. ASSUME NEW i \in 1 .. Len(s), i # 1
        PROVE  i - 1 \in 1 .. Len(s) - 1 /\ Tail(s)[i - 1] = s[i]
    <3>1. i - 1 \in 1 .. Len(s) - 1 /\ (i - 1) + 1 = i
      BY <1>1, <2>1
    <3> QED
      BY <3>1, <1>2
  <2>2. ASSUME NEW i \in 1 .. Len(s) - 1
        PROVE  i + 1 \in 1 .. Len(s)
    BY <1>1
  <2>3. ASSUME NEW x \in Range(s)
        PROVE  x \in {Head(s)} \cup Range(Tail(s))
    <3>1. PICK i \in 1 .. Len(s) : x = s[i]
      BY <1>1 DEF Range
    <3>2. CASE i = 1
      BY <3>1, <3>2, <1>2
    <3>3. CASE i # 1
      BY <3>1, <3>3, <2>1, <1>2 DEF Range
    <3> QED
      BY <3>2, <3>3
  <2>4. ASSUME NEW x \in {Head(s)} \cup Range(Tail(s))
        PROVE  x \in Range(s)
    <3>1. 1 \in 1 .. Len(s)
      BY <1>1
    <3> QED
      BY <3>1, <1>1, <1>2, <2>2 DEF Range
  <2> QED
    BY <2>3, <2>4
<1>5. Head(s) \notin Range(Tail(s))
  <2> SUFFICES ASSUME NEW i \in 1 .. Len(s) - 1, Tail(s)[i] = Head(s)
               PROVE  FALSE
    BY <1>2 DEF Range
  <2>1. i + 1 \in DOMAIN s /\ 1 \in DOMAIN s /\ s[i + 1] = s[1] /\ i + 1 # 1
    BY <1>1, <1>2
  <2> QED
    BY <2>1 DEF IsInjective
<1> QED
  BY <1>2, <1>3, <1>4, <1>5

\* An element can be added at the end.
LEMMA AppendOnce ==
  ASSUME NEW S, NEW s \in Seq(S), NEW x \in S, IsInjective(s), x \notin Range(s)
  PROVE  /\ Append(s, x) \in Seq(S) /\ IsInjective(Append(s, x))
         /\ Range(Append(s, x)) = Range(s) \cup {x}
<1>1. Len(s) \in Nat /\ DOMAIN s = 1 .. Len(s)
  OBVIOUS
<1>2. /\ Append(s, x) \in Seq(S)
      /\ DOMAIN Append(s, x) = 1 .. Len(s) + 1
      /\ \A i \in 1 .. Len(s) : Append(s, x)[i] = s[i]
      /\ Append(s, x)[Len(s) + 1] = x
  BY <1>1
<1>3. \A i \in 1 .. Len(s) + 1 : i \in 1 .. Len(s) \/ i = Len(s) + 1
  BY <1>1
<1>4. Range(Append(s, x)) = Range(s) \cup {x}
  BY <1>1, <1>2, <1>3 DEF Range
<1>5. IsInjective(Append(s, x))
  BY <1>1, <1>2, <1>3 DEF IsInjective, Range
<1> QED
  BY <1>2, <1>4, <1>5

\* Two lists without a common element.
LEMMA ConcatOnce ==
  ASSUME NEW S, NEW s \in Seq(S), NEW t \in Seq(S), IsInjective(s), IsInjective(t),
         Range(s) \cap Range(t) = {}
  PROVE  s \o t \in Seq(S) /\ IsInjective(s \o t) /\ Range(s \o t) = Range(s) \cup Range(t)
<1>1. Len(s) \in Nat /\ DOMAIN s = 1 .. Len(s) /\ Len(t) \in Nat /\ DOMAIN t = 1 .. Len(t)
  OBVIOUS
<1>2. /\ s \o t \in Seq(S)
      /\ DOMAIN (s \o t) = 1 .. Len(s) + Len(t)
      /\ \A i \in 1 .. Len(s) : (s \o t)[i] = s[i]
      /\ \A i \in 1 .. Len(t) : (s \o t)[Len(s) + i] = t[i]
  BY <1>1
<1>3. \A i \in 1 .. Len(s) + Len(t) :
         i \in 1 .. Len(s) \/ (i - Len(s) \in 1 .. Len(t) /\ i = Len(s) + (i - Len(s)))
  BY <1>1
<1>4. \A i \in 1 .. Len(s) : i \in 1 .. Len(s) + Len(t)
  BY <1>1
<1>5. \A i \in 1 .. Len(t) : Len(s) + i \in 1 .. Len(s) + Len(t)
  BY <1>1
<1>6. Range(s \o t) = Range(s) \cup Range(t)
  BY <1>1, <1>2, <1>3, <1>4, <1>5 DEF Range
<1>7. IsInjective(s \o t)
  <2> SUFFICES ASSUME NEW i \in 1 .. Len(s) + Len(t), NEW j \in 1 .. Len(s) + Len(t),
                      (s \o t)[i] = (s \o t)[j]
               PROVE  i = j
    BY <1>2 DEF IsInjective
  <2>1. CASE i \in 1 .. Len(s) /\ j \in 1 .. Len(s)
    BY <2>1, <1>1, <1>2 DEF IsInjective
  <2>2. CASE i - Len(s) \in 1 .. Len(t) /\ j - Len(s) \in 1 .. Len(t)
    <3>1. t[i - Len(s)] = t[j - Len(s)]
      BY <2>2, <1>2, <1>3
    <3>2. i - Len(s) = j - Len(s)
      BY <3>1, <2>2, <1>1 DEF IsInjective
    <3> QED
      BY <3>2, <1>1
  <2>3. CASE i \in 1 .. Len(s) /\ j - Len(s) \in 1 .. Len(t)
    <3>1. s[i] \in Range(s) /\ t[j - Len(s)] \in Range(t)
      BY <2>3, <1>1 DEF Range
    <3>2. s[i] = t[j - Len(s)]
      BY <2>3, <1>2, <1>3
    <3> QED
      BY <3>1, <3>2
  <2>4. CASE i - Len(s) \in 1 .. Len(t) /\ j \in 1 .. Len(s)
    <3>1. s[j] \in Range(s) /\ t[i - Len(s)] \in Range(t)
      BY <2>4, <1>1 DEF Range
    <3>2. s[j] = t[i - Len(s)]
      BY <2>4, <1>2, <1>3
    <3> QED
      BY <3>1, <3>2
  <2> QED
    BY <2>1, <2>2, <2>3, <2>4, <1>3
<1> QED
  BY <1>2, <1>6, <1>7

\* The same list the other way round.
LEMMA ReverseOnce ==
  ASSUME NEW S, NEW s \in Seq(S), IsInjective(s)
  PROVE  Reverse(s) \in Seq(S) /\ IsInjective(Reverse(s)) /\ Range(Reverse(s)) = Range(s)
<1>1. Len(s) \in Nat /\ DOMAIN s = 1 .. Len(s) /\ \A i \in 1 .. Len(s) : s[i] \in S
  OBVIOUS
<1>2. \A i \in 1 .. Len(s) : /\ (Len(s) - i) + 1 \in 1 .. Len(s)
                             /\ (Len(s) - ((Len(s) - i) + 1)) + 1 = i
  BY <1>1
<1>3. /\ Reverse(s) = [i \in 1 .. Len(s) |-> s[(Len(s) - i) + 1]]
      /\ Reverse(s) \in Seq(S)
  BY <1>1, <1>2 DEF Reverse
<1>4. /\ DOMAIN Reverse(s) = 1 .. Len(s)
      /\ \A i \in 1 .. Len(s) : Reverse(s)[i] = s[(Len(s) - i) + 1]
  BY <1>3
<1>5. Range(Reverse(s)) = Range(s)
  BY <1>1, <1>2, <1>4 DEF Range
<1>6. IsInjective(Reverse(s))
  BY <1>1, <1>2, <1>4 DEF IsInjective
<1> QED
  BY <1>3, <1>5, <1>6

\* A list of one.
LEMMA SingletonOnce ==
  ASSUME NEW S, NEW x \in S
  PROVE  <<x>> \in Seq(S) /\ IsInjective(<<x>>) /\ Range(<<x>>) = {x}
  BY DEF IsInjective, Range

LEMMA EmptyOnce ==
  ASSUME NEW S
  PROVE  <<>> \in Seq(S) /\ IsInjective(<<>>) /\ Range(<<>>) = {}
  BY DEF IsInjective, Range

-----------------------------------------------------------------------------
(* Reachability. *)

\* Nothing outside a closed set that holds the roots can be reached.
LEMMA ClosureBelow ==
  ASSUME NEW E, NEW from, NEW S \in SUBSET Objects, from \subseteq S,
         \A e \in E : e[1] \in S => e[3] \in S
  PROVE  Closure(E, from) \subseteq S
  BY DEF Closure

\* The roots can be reached, and what an edge from something reached leads to.
LEMMA ClosureIsClosed ==
  ASSUME NEW E, NEW from \in SUBSET Objects,
         \A e \in E : e[3] \in Objects
  PROVE  /\ from \subseteq Closure(E, from)
         /\ \A e \in E : e[1] \in Closure(E, from) => e[3] \in Closure(E, from)
  BY DEF Closure

\* A closed set that is all reached is still reached without the edges that start
\* outside it.
LEMMA ClosureWithoutOutside ==
  ASSUME NEW E, NEW F \in SUBSET E, NEW from, NEW S \in SUBSET Objects,
         from \subseteq S,
         \A e \in E : e[1] \in S => e[3] \in S /\ e \in F,
         S \subseteq Closure(E, from)
  PROVE  S \subseteq Closure(F, from)
<1> SUFFICES ASSUME NEW T \in SUBSET Objects, from \subseteq T,
                    \A e \in F : e[1] \in T => e[3] \in T
             PROVE  S \subseteq T
  BY DEF Closure
<1>1. S \cap T \in SUBSET Objects /\ from \subseteq S \cap T
  OBVIOUS
<1>2. \A e \in E : e[1] \in S \cap T => e[3] \in S \cap T
  OBVIOUS
<1>3. Closure(E, from) \subseteq S \cap T
  BY <1>1, <1>2, ClosureBelow
<1> QED
  BY <1>3

-----------------------------------------------------------------------------
(* What the invariant says. *)

LEMMA BuiltinObjects == Builtins \subseteq Objects /\ \A k \in DOMAIN ImplClass : ImplClass[k] \in Builtins
<1>1. Builtins \subseteq Objects
  BY ObjectsAssumption DEF Builtins, Range
<1>2. \A k \in DOMAIN ImplClass : ImplClass[k] \in Range(ImplClass)
  BY DEF Range
<1> QED
  BY <1>1, <1>2, ObjectsAssumption

\* What is usable is what will be left, and that is on the list.
LEMMA UsableIsLive ==
  ASSUME Inv
  PROVE  /\ Heap \subseteq Objects /\ Live \subseteq Heap /\ Usable \subseteq Live
         /\ Rooted \subseteq Objects /\ Builtins \subseteq Rooted
<1>1. Heap \subseteq Objects
  BY DEF Inv, ListInv, Heap, Range
<1>2. Live \subseteq Heap
  BY DEF Inv, MarkInv, Live, Heap
<1>3. Rooted \subseteq Objects /\ Builtins \subseteq Rooted
  BY DEF Inv, TableInv, Rooted, Tables
<1>4. Live \in SUBSET Objects
  BY <1>1, <1>2
<1>5. Rooted \cup native \cup Builtins \subseteq Live
  BY <1>3 DEF Inv, LiveInv
<1>6. \A e \in refs : e[1] \in Live => e[3] \in Live
  BY DEF Inv, LiveInv
<1>7. Closure(refs, Rooted \cup native \cup Builtins) \subseteq Live
  BY <1>4, <1>5, <1>6, ClosureBelow
<1> QED
  BY <1>1, <1>2, <1>3, <1>7 DEF Usable

\* Between collections.
LEMMA InRun ==
  ASSUME Inv, phase = "run"
  PROVE  /\ kept = <<>> /\ Heap = Range(rest) /\ Live = Range(rest)
         /\ Range(rest) \subseteq Objects /\ Usable \subseteq Range(rest)
         /\ Builtins \subseteq Range(rest)
         /\ \A t \in Tables : roots[t] \subseteq Range(rest)
         /\ native \subseteq Range(rest)
         /\ \A e \in refs : e[1] \in Range(rest) /\ e[3] \in Range(rest)
<1>1. kept = <<>> /\ Range(kept) = {}
  BY EmptyOnce DEF Inv, ListInv
<1>2. Heap = Range(rest) /\ Live = Range(rest)
  BY <1>1 DEF Heap, Live
<1>3. /\ Range(rest) \subseteq Objects /\ Usable \subseteq Range(rest)
      /\ Builtins \subseteq Rooted
  BY <1>2, UsableIsLive
<1>4. Rooted \cup native \subseteq Range(rest)
  BY <1>2 DEF Inv, LiveInv
<1>5. \A t \in Tables : roots[t] \subseteq Rooted
  BY DEF Rooted
<1>6. \A e \in refs : e[1] \in Range(rest) /\ e[3] \in Range(rest)
  BY <1>2 DEF Inv, LiveInv, GraphInv
<1> QED
  BY <1>1, <1>2, <1>3, <1>4, <1>5, <1>6

-----------------------------------------------------------------------------
(* The program. *)

\* A step of the program keeps the invariant if it points to nothing but the list.
LEMMA RunStep ==
  ASSUME Inv, Running,
         rest' \in Seq(Objects), IsInjective(rest'),
         GraphInv', TableInv', native' \subseteq Range(rest'),
         \A t \in Tables : roots'[t] \subseteq Range(rest'),
         \A e \in refs' : e[3] \in Range(rest')
  PROVE  Inv'
<1>1. /\ phase = "run" /\ phase' = "run" /\ kept' = <<>> /\ Range(kept') = {}
      /\ IsDark' = {} /\ GrayList' = {}
  BY EmptyOnce, InRun DEF Running, Inv, MarkInv
<1>2. ListInv'
  BY <1>1, EmptyOnce DEF ListInv
<1>3. Heap' = Range(rest') /\ Live' = Range(rest')
  BY <1>1 DEF Heap, Live
<1>4. LiveInv'
  BY <1>3 DEF LiveInv, Rooted
<1>5. MarkInv'
  BY <1>1 DEF MarkInv
<1> QED
  BY <1>2, <1>4, <1>5 DEF Inv

\* A step that allocates nothing.
LEMMA SameListStep ==
  ASSUME Inv, Running, rest' = rest,
         roots' \in [Tables -> SUBSET Objects],
         roots'["ImplClasses"] = roots["ImplClasses"],
         roots["ModuleList"] \subseteq roots'["ModuleList"],
         \A t \in Tables : roots'[t] \subseteq Range(rest),
         native' \subseteq Range(rest),
         TempModuleList' \subseteq Typed, destroyed' = destroyed,
         \A e \in refs' :
           \/ e \in refs
           \/ /\ e \in Objects \X MemberNames \X Objects
              /\ e[1] \in Range(rest) /\ e[3] \in Range(rest)
              /\ e[2] \in Members(kind[e[1]]) \ {"Module", "Functions"}
  PROVE  Inv'
<1>1. /\ phase = "run" /\ phase' = "run" /\ Heap = Range(rest) /\ Heap' = Range(rest)
      /\ Range(rest) \subseteq Objects
      /\ \A e \in refs : e[1] \in Range(rest) /\ e[3] \in Range(rest)
  BY InRun DEF Running, Heap
<1>2. GraphInv'
  BY <1>1 DEF Inv, GraphInv
<1>3. TableInv'
  BY <1>1 DEF Inv, TableInv
<1>4. \A e \in refs' : e[3] \in Range(rest')
  BY <1>1
<1>5. rest' \in Seq(Objects) /\ IsInjective(rest')
  BY DEF Inv, ListInv
<1> QED
  BY <1>2, <1>3, <1>4, <1>5, RunStep

\* A step that changes at most one table, and no edge but for those it assigns.
LEMMA TableStep ==
  ASSUME Inv, Running, rest' = rest,
         NEW t \in Tables \ {"ImplClasses"}, NEW X \in SUBSET Range(rest),
         roots' = [roots EXCEPT ![t] = X],
         t = "ModuleList" => roots["ModuleList"] \subseteq X,
         native' = native, TempModuleList' \subseteq Typed, destroyed' = destroyed,
         refs' = refs
  PROVE  Inv'
<1>1. /\ phase = "run" /\ Range(rest) \subseteq Objects
      /\ \A u \in Tables : roots[u] \subseteq Range(rest)
      /\ native \subseteq Range(rest)
  BY InRun DEF Running
<1>2. roots \in [Tables -> SUBSET Objects]
  BY DEF Inv, TableInv
<1>3. /\ roots' \in [Tables -> SUBSET Objects]
      /\ roots'[t] = X
      /\ \A u \in Tables : u # t => roots'[u] = roots[u]
  BY <1>1, <1>2
<1>4. "ImplClasses" \in Tables /\ "ModuleList" \in Tables
  BY DEF Tables
<1>5. /\ roots'["ImplClasses"] = roots["ImplClasses"]
      /\ roots["ModuleList"] \subseteq roots'["ModuleList"]
      /\ \A u \in Tables : roots'[u] \subseteq Range(rest)
  BY <1>1, <1>3, <1>4
<1> QED
  BY <1>1, <1>2, <1>3, <1>5, SameListStep

LEMMA CallStep ==
  ASSUME Inv, NEW f \in Usable, Call(f)
  PROVE  Inv'
<1>1. /\ Running /\ phase = "run" /\ rest' = rest /\ refs' = refs /\ native' = native
      /\ roots' = [roots EXCEPT !["Frames"] = roots["Frames"] \cup ModulesOf(f)]
      /\ TempModuleList' = TempModuleList /\ destroyed' = destroyed
  BY DEF Call, Running
<1>2. /\ ModulesOf(f) \subseteq Range(rest) /\ roots["Frames"] \subseteq Range(rest)
      /\ TempModuleList \subseteq Typed
  BY <1>1, InRun DEF ModulesOf, Tables, Inv, TableInv
<1>3. roots["Frames"] \cup ModulesOf(f) \in SUBSET Range(rest)
  BY <1>2
<1>4. "Frames" \in Tables \ {"ImplClasses"} /\ "Frames" # "ModuleList"
  BY DEF Tables
<1> QED
  BY <1>1, <1>2, <1>3, <1>4, TableStep

LEMMA ReturnStep ==
  ASSUME Inv, NEW m \in Modules, Return(m)
  PROVE  Inv'
<1>1. /\ Running /\ phase = "run" /\ rest' = rest /\ refs' = refs /\ native' = native
      /\ roots' = [roots EXCEPT !["Frames"] = roots["Frames"] \ {m}]
      /\ TempModuleList' = TempModuleList /\ destroyed' = destroyed
  BY DEF Return, Running
<1>2. /\ roots["Frames"] \ {m} \in SUBSET Range(rest)
      /\ TempModuleList \subseteq Typed
  BY <1>1, InRun DEF Tables, Inv, TableInv
<1>3. "Frames" \in Tables \ {"ImplClasses"} /\ "Frames" # "ModuleList"
  BY DEF Tables
<1> QED
  BY <1>1, <1>2, <1>3, TableStep

LEMMA PutStep ==
  ASSUME Inv, NEW t \in {"Stack", "Globals", "Constants"}, NEW o \in Usable, Put(t, o)
  PROVE  Inv'
<1>1. /\ Running /\ phase = "run" /\ rest' = rest /\ refs' = refs /\ native' = native
      /\ roots' = [roots EXCEPT ![t] = roots[t] \cup {o}]
      /\ TempModuleList' = TempModuleList /\ destroyed' = destroyed
  BY DEF Put, Running
<1>2. t \in Tables \ {"ImplClasses"} /\ t # "ModuleList"
  BY DEF Tables
<1>3. /\ roots[t] \cup {o} \in SUBSET Range(rest)
      /\ TempModuleList \subseteq Typed
  BY <1>1, <1>2, InRun DEF Inv, TableInv
<1> QED
  BY <1>1, <1>2, <1>3, TableStep

LEMMA TakeStep ==
  ASSUME Inv, NEW t \in {"Stack", "Globals"}, NEW o \in Objects, Take(t, o)
  PROVE  Inv'
<1>1. /\ Running /\ phase = "run" /\ rest' = rest /\ refs' = refs /\ native' = native
      /\ roots' = [roots EXCEPT ![t] = roots[t] \ {o}]
      /\ TempModuleList' = TempModuleList /\ destroyed' = destroyed
  BY DEF Take, Running
<1>2. t \in Tables \ {"ImplClasses"} /\ t # "ModuleList"
  BY DEF Tables
<1>3. /\ roots[t] \ {o} \in SUBSET Range(rest)
      /\ TempModuleList \subseteq Typed
  BY <1>1, <1>2, InRun DEF Inv, TableInv
<1> QED
  BY <1>1, <1>2, <1>3, TableStep

\* Leaving the debugger drops no module, since none is temporary.
LEMMA RemoveTemporaryModulesStep ==
  ASSUME NoneDropped, Inv, RemoveTemporaryModules
  PROVE  Inv'
<1>1. TempModuleList = {}
  BY DEF NoneDropped, RemoveTemporaryModules, Inv, TableInv
<1>2. /\ Running /\ phase = "run" /\ rest' = rest /\ refs' = refs /\ native' = native
      /\ roots' = [roots EXCEPT !["ModuleList"] = roots["ModuleList"] \ {}]
      /\ TempModuleList' = {} /\ destroyed' = destroyed
  BY <1>1 DEF RemoveTemporaryModules, Running
<1>3. roots["ModuleList"] \ {} \in SUBSET Range(rest)
  BY <1>2, InRun DEF Tables
<1>4. "ModuleList" \in Tables \ {"ImplClasses"}
  BY DEF Tables
<1> QED
  BY <1>2, <1>3, <1>4, TableStep

\* A step that changes edges and native variables only.
LEMMA EdgeStep ==
  ASSUME Inv, Running, rest' = rest, roots' = roots,
         TempModuleList' = TempModuleList, destroyed' = destroyed,
         native' \subseteq Range(rest),
         \A e \in refs' :
           \/ e \in refs
           \/ /\ e \in Objects \X MemberNames \X Objects
              /\ e[1] \in Range(rest) /\ e[3] \in Range(rest)
              /\ e[2] \in Members(kind[e[1]]) \ {"Module", "Functions"}
  PROVE  Inv'
<1>1. /\ phase = "run"
      /\ \A t \in Tables : roots[t] \subseteq Range(rest)
  BY InRun DEF Running
<1>2. roots \in [Tables -> SUBSET Objects] /\ TempModuleList \subseteq Typed
  BY DEF Inv, TableInv
<1> QED
  BY <1>1, <1>2, SameListStep

LEMMA StoreStep ==
  ASSUME Inv, NEW o \in Usable, NEW p \in Usable, NEW m \in MemberNames, Store(o, m, p)
  PROVE  Inv'
<1>1. /\ Running /\ phase = "run" /\ rest' = rest /\ roots' = roots /\ native' = native
      /\ TempModuleList' = TempModuleList /\ destroyed' = destroyed
      /\ Assignable(o, m, p)
      /\ \A e \in refs' : e \in refs \/ e = <<o, m, p>>
  BY DEF Store, Running
<1>2. /\ o \in Range(rest) /\ p \in Range(rest) /\ Range(rest) \subseteq Objects
      /\ native \subseteq Range(rest)
  BY <1>1, InRun
<1>3. m \in Members(kind[o]) \ {"Module", "Functions"}
  BY <1>1 DEF Assignable, Assigned
<1> QED
  BY <1>1, <1>2, <1>3, EdgeStep

LEMMA DropStep ==
  ASSUME Inv, NEW o \in Usable, NEW p \in Usable, NEW m \in MemberNames, Drop(o, m, p)
  PROVE  Inv'
<1>1. /\ Running /\ phase = "run" /\ rest' = rest /\ roots' = roots /\ native' = native
      /\ TempModuleList' = TempModuleList /\ destroyed' = destroyed
      /\ \A e \in refs' : e \in refs
  BY DEF Drop, Running
<1>2. native \subseteq Range(rest)
  BY <1>1, InRun
<1> QED
  BY <1>1, <1>2, EdgeStep

LEMMA TakeOutStep ==
  ASSUME Inv, NEW a \in Usable, NEW o \in Usable, TakeOut(a, o)
  PROVE  Inv'
<1>1. /\ Running /\ phase = "run" /\ rest' = rest /\ roots' = roots
      /\ native' = native \cup {o}
      /\ TempModuleList' = TempModuleList /\ destroyed' = destroyed
      /\ \A e \in refs' : e \in refs
  BY DEF TakeOut, Running
<1>2. native' \subseteq Range(rest)
  BY <1>1, InRun
<1> QED
  BY <1>1, <1>2, EdgeStep

LEMMA PutBackStep ==
  ASSUME Inv, NEW a \in Usable, NEW o \in Usable, PutBack(a, o)
  PROVE  Inv'
<1>1. /\ Running /\ phase = "run" /\ rest' = rest /\ roots' = roots
      /\ native' = native \ {o} /\ o \in native /\ kind[a] = "array"
      /\ TempModuleList' = TempModuleList /\ destroyed' = destroyed
      /\ \A e \in refs' : e \in refs \/ e = <<a, "Values", o>>
  BY DEF PutBack, Running
<1>2. /\ a \in Range(rest) /\ o \in Range(rest) /\ Range(rest) \subseteq Objects
      /\ native' \subseteq Range(rest)
  BY <1>1, InRun
<1>3. "Values" \in Members(kind[a]) \ {"Module", "Functions"} /\ "Values" \in MemberNames
  BY <1>1 DEF Members, MemberNames
<1> QED
  BY <1>1, <1>2, <1>3, EdgeStep

\* The edges a new object is made with.
LEMMA NewRefsPoint ==
  ASSUME Inv, phase = "run", NEW o \in Objects, SetNewRefs(o)
  PROVE  \A e \in refs' : \/ e \in refs
                          \/ /\ e \in Objects \X MemberNames \X Objects
                             /\ e[1] = o /\ e[3] \in Range(rest)
                             /\ e[2] \in Members(kind[o]) \ {"Module", "Functions"}
<1>1. /\ Usable \subseteq Range(rest) /\ Range(rest) \subseteq Objects
      /\ \A k \in DOMAIN ImplClass : ImplClass[k] \in Range(rest)
  BY InRun, BuiltinObjects
<1>2. "Object.Class" \in Members(kind[o]) /\ "Object.Class" \in MemberNames
  BY DEF Members, MemberNames
<1>3. CASE /\ kind[o] \in DOMAIN ImplClass
           /\ refs' = refs \cup {<<o, "Object.Class", ImplClass[kind[o]]>>}
  BY <1>1, <1>2, <1>3
<1>4. CASE \E c \in Usable : refs' = refs \cup {<<o, "Object.Class", c>>}
  BY <1>1, <1>2, <1>4
<1>5. CASE /\ kind[o] = "bound method"
           /\ \E f, a \in Usable : refs' = refs \cup {<<o, "Method", f>>, <<o, "Arguments", a>>}
  <2>1. /\ {"Method", "Arguments"} \subseteq Members(kind[o])
        /\ {"Method", "Arguments"} \subseteq MemberNames
    BY <1>5 DEF Members, MemberNames
  <2>2. PICK f \in Usable, a \in Usable :
          refs' = refs \cup {<<o, "Method", f>>, <<o, "Arguments", a>>}
    BY <1>5
  <2>3. \A e \in refs' : e \in refs \/ e = <<o, "Method", f>> \/ e = <<o, "Arguments", a>>
    BY <2>2
  <2>4. f \in Range(rest) /\ a \in Range(rest) /\ f \in Objects /\ a \in Objects
    BY <1>1
  <2> QED
    BY <2>1, <2>3, <2>4
<1>6. CASE UNCHANGED refs
  BY <1>6
<1> QED
  BY <1>3, <1>4, <1>5, <1>6 DEF SetNewRefs

LEMMA AllocateObjectStep ==
  ASSUME Inv, NEW o \in Objects, AllocateObject(o)
  PROVE  Inv'
<1> DEFINE new == <<o>>
<1>1. /\ Running /\ phase = "run" /\ phase' = "run" /\ SetNewRefs(o)
      /\ o \notin Heap
      /\ rest' = new \o rest
      /\ roots' = [roots EXCEPT !["Stack"] = roots["Stack"] \cup {o}]
      /\ TempModuleList' = TempModuleList /\ native' = native /\ destroyed' = destroyed
      /\ kept' = kept
  BY DEF AllocateObject, Running
<1>2. /\ Heap = Range(rest) /\ Range(rest) \subseteq Objects
      /\ \A t \in Tables : roots[t] \subseteq Range(rest)
      /\ native \subseteq Range(rest) /\ kept = <<>>
      /\ \A e \in refs : e[1] \in Range(rest) /\ e[3] \in Range(rest)
  BY <1>1, InRun
<1>3. /\ rest' \in Seq(Objects) /\ IsInjective(rest')
      /\ Range(rest') = Range(rest) \cup {o}
  <2>1. rest \in Seq(Objects) /\ IsInjective(rest)
    BY DEF Inv, ListInv
  <2>2. new \in Seq(Objects) /\ IsInjective(new) /\ Range(new) = {o}
    BY SingletonOnce
  <2> HIDE DEF new
  <2>3. Range(new) \cap Range(rest) = {}
    BY <2>2, <1>1, <1>2
  <2>4. /\ new \o rest \in Seq(Objects) /\ IsInjective(new \o rest)
        /\ Range(new \o rest) = Range(new) \cup Range(rest)
    BY <2>1, <2>2, <2>3, ConcatOnce
  <2> QED
    BY <2>2, <2>4, <1>1
<1>4. Heap' = Range(rest')
  BY <1>1, <1>2, EmptyOnce DEF Heap
<1>5. \A e \in refs' : \/ e \in refs
                       \/ /\ e \in Objects \X MemberNames \X Objects
                          /\ e[1] = o /\ e[3] \in Range(rest)
                          /\ e[2] \in Members(kind[o]) \ {"Module", "Functions"}
  BY <1>1, NewRefsPoint
<1>6. /\ "Stack" \in Tables /\ "ImplClasses" \in Tables /\ "ModuleList" \in Tables
      /\ roots \in [Tables -> SUBSET Objects]
  BY DEF Tables, Inv, TableInv
<1>7. /\ roots' \in [Tables -> SUBSET Objects]
      /\ roots'["ImplClasses"] = roots["ImplClasses"]
      /\ roots'["ModuleList"] = roots["ModuleList"]
      /\ \A t \in Tables : roots'[t] \subseteq Range(rest')
  BY <1>1, <1>2, <1>3, <1>6
<1>8. GraphInv'
  BY <1>2, <1>3, <1>4, <1>5, <1>7 DEF Inv, GraphInv
<1>9. TableInv'
  BY <1>1, <1>7 DEF Inv, TableInv
<1>10. native' \subseteq Range(rest') /\ \A e \in refs' : e[3] \in Range(rest')
  BY <1>1, <1>2, <1>3, <1>5
<1> QED
  BY <1>1, <1>3, <1>7, <1>8, <1>9, <1>10, RunStep

LEMMA LoadBytecodeStep ==
  ASSUME Inv, NEW m \in Modules, LoadBytecode(m)
  PROVE  Inv'
<1> DEFINE fs == Script[m]
           F  == Range(fs)
           cF == ImplClass["function"]
           one == <<m>>
           back == Reverse(fs)
<1>1. /\ Running /\ phase = "run" /\ phase' = "run" /\ kept' = kept
      /\ m \notin Heap /\ F \cap Heap = {}
      /\ rest' = <<m>> \o Reverse(fs) \o rest
      /\ refs' = refs \cup {<<m, "Functions", f>> : f \in F}
                   \cup {<<f, "Module", m>> : f \in F}
                   \cup {<<f, "Object.Class", cF>> : f \in F}
      /\ roots' = [roots EXCEPT !["ModuleList"] = roots["ModuleList"] \cup {m},
                                !["Frames"] = roots["Frames"] \cup {m}]
      /\ TempModuleList' = TempModuleList \cup ({m} \cap Typed)
      /\ native' = native /\ destroyed' = destroyed
  BY DEF LoadBytecode, Running
<1>2. /\ Heap = Range(rest) /\ Range(rest) \subseteq Objects
      /\ \A t \in Tables : roots[t] \subseteq Range(rest)
      /\ native \subseteq Range(rest) /\ kept = <<>>
      /\ Builtins \subseteq Range(rest)
      /\ \A e \in refs : e[1] \in Range(rest) /\ e[3] \in Range(rest)
  BY <1>1, InRun
<1>3. /\ m \in Objects /\ kind[m] = "module"
      /\ fs \in Seq(Objects) /\ IsInjective(fs) /\ F \subseteq Objects
      /\ \A f \in F : kind[f] = "function" /\ f # m
  BY ScriptAssumption DEF Modules, Range
<1>4. cF \in Range(rest) /\ cF \in Objects
  BY <1>2, BuiltinObjects, ObjectsAssumption
<1>5. /\ rest' \in Seq(Objects) /\ IsInjective(rest')
      /\ Range(rest') = Range(rest) \cup {m} \cup F
  <2>1. rest \in Seq(Objects) /\ IsInjective(rest)
    BY DEF Inv, ListInv
  <2>2. one \in Seq(Objects) /\ IsInjective(one) /\ Range(one) = {m}
    BY <1>3, SingletonOnce
  <2>3. back \in Seq(Objects) /\ IsInjective(back) /\ Range(back) = F
    BY <1>3, ReverseOnce
  <2>4. rest' = (one \o back) \o rest
    BY <1>1
  <2> HIDE DEF one, back, fs, F
  <2>5. Range(one) \cap Range(back) = {}
    BY <2>2, <2>3, <1>3
  <2>6. /\ one \o back \in Seq(Objects) /\ IsInjective(one \o back)
        /\ Range(one \o back) = Range(one) \cup Range(back)
    BY <2>2, <2>3, <2>5, ConcatOnce
  <2>7. Range(one \o back) \cap Range(rest) = {}
    BY <2>2, <2>3, <2>6, <1>1, <1>2
  <2> DEFINE new == one \o back
  <2>8. /\ new \in Seq(Objects) /\ IsInjective(new)
        /\ Range(new) \cap Range(rest) = {} /\ rest' = new \o rest
    BY <2>4, <2>6, <2>7
  <2>9. Range(new) = {m} \cup F
    BY <2>2, <2>3, <2>6
  <2> HIDE DEF new
  <2>10. /\ new \o rest \in Seq(Objects) /\ IsInjective(new \o rest)
         /\ Range(new \o rest) = Range(new) \cup Range(rest)
    BY <2>1, <2>8, ConcatOnce
  <2> QED
    BY <2>8, <2>9, <2>10
<1>6. Heap' = Range(rest')
  BY <1>1, <1>2, EmptyOnce DEF Heap
<1>7. /\ {"Frames", "ImplClasses", "ModuleList"} \subseteq Tables
      /\ roots \in [Tables -> SUBSET Objects]
  BY DEF Tables, Inv, TableInv
<1>8. /\ roots' \in [Tables -> SUBSET Objects]
      /\ roots'["ImplClasses"] = roots["ImplClasses"]
      /\ roots'["ModuleList"] = roots["ModuleList"] \cup {m}
      /\ \A t \in Tables : roots'[t] \subseteq Range(rest')
  BY <1>1, <1>2, <1>3, <1>5, <1>7
<1>9. /\ "Functions" \in Members("module") /\ "Module" \in Members("function")
      /\ "Object.Class" \in Members("function")
      /\ {"Functions", "Module", "Object.Class"} \subseteq MemberNames
  BY DEF Members, MemberNames
<1>10. \A e \in refs' : /\ e \in Objects \X MemberNames \X Objects
                        /\ e[1] \in Range(rest') /\ e[3] \in Range(rest')
                        /\ e[2] \in Members(kind[e[1]])
                        /\ e[2] = "Module" => e[3] \in roots'["ModuleList"]
                        /\ e[2] = "Functions" => e[1] \in roots'["ModuleList"]
  <2> SUFFICES ASSUME NEW e \in refs'
               PROVE  /\ e \in Objects \X MemberNames \X Objects
                      /\ e[1] \in Range(rest') /\ e[3] \in Range(rest')
                      /\ e[2] \in Members(kind[e[1]])
                      /\ e[2] = "Module" => e[3] \in roots'["ModuleList"]
                      /\ e[2] = "Functions" => e[1] \in roots'["ModuleList"]
    OBVIOUS
  <2> HIDE DEF fs, F, cF
  <2>1. CASE e \in refs
    BY <2>1, <1>2, <1>5, <1>8 DEF Inv, GraphInv
  <2>2. CASE \E f \in F : e = <<m, "Functions", f>>
    BY <2>2, <1>3, <1>5, <1>8, <1>9
  <2>3. CASE \E f \in F : e = <<f, "Module", m>>
    BY <2>3, <1>3, <1>5, <1>8, <1>9
  <2>4. CASE \E f \in F : e = <<f, "Object.Class", cF>>
    BY <2>4, <1>3, <1>4, <1>5, <1>9
  <2> QED
    BY <2>1, <2>2, <2>3, <2>4, <1>1
<1>11. GraphInv'
  BY <1>6, <1>10 DEF GraphInv
<1>12. TableInv'
  BY <1>1, <1>8 DEF Inv, TableInv
<1>13. native' \subseteq Range(rest')
  BY <1>1, <1>2, <1>5
<1> QED
  BY <1>1, <1>5, <1>8, <1>10, <1>11, <1>12, <1>13, RunStep

LEMMA ProgramStep ==
  ASSUME NoneDropped, Inv, Program
  PROVE  Inv'
<1>1. CASE \E o \in Objects : AllocateObject(o)
  BY <1>1, AllocateObjectStep
<1>2. CASE \E m \in Modules : LoadBytecode(m)
  BY <1>2, LoadBytecodeStep
<1>3. CASE \E m \in Modules : Return(m)
  BY <1>3, ReturnStep
<1>4. CASE \E t \in {"Stack", "Globals"}, o \in Objects : Take(t, o)
  BY <1>4, TakeStep
<1>5. CASE \E o \in Usable : Call(o)
  BY <1>5, CallStep
<1>6. CASE \E o \in Usable, t \in {"Stack", "Globals", "Constants"} : Put(t, o)
  BY <1>6, PutStep
<1>7. CASE \E o \in Usable, p \in Usable, m \in MemberNames : Store(o, m, p)
  BY <1>7, StoreStep
<1>8. CASE \E o \in Usable, p \in Usable, m \in MemberNames : Drop(o, m, p)
  BY <1>8, DropStep
<1>9. CASE \E o \in Usable, p \in Usable : TakeOut(o, p)
  BY <1>9, TakeOutStep
<1>10. CASE \E o \in Usable, p \in Usable : PutBack(o, p)
  BY <1>10, PutBackStep
<1>11. CASE RemoveTemporaryModules
  BY <1>11, RemoveTemporaryModulesStep
<1> QED
  BY <1>1, <1>2, <1>3, <1>4, <1>5, <1>6, <1>7, <1>8, <1>9, <1>10, <1>11 DEF Program

-----------------------------------------------------------------------------
(* The collector. *)

\* What is usable holds the roots and is closed under all edges.
LEMMA UsableFromRoots ==
  ASSUME Inv
  PROVE  /\ Rooted \subseteq Usable
         /\ \A e \in refs : e[1] \in Usable => e[3] \in Usable
         /\ roots["ModuleList"] \subseteq Rooted
<1> DEFINE F == Rooted \cup native \cup Builtins
<1>1. F \in SUBSET Objects
  BY UsableIsLive DEF Inv, TableInv
<1>2. \A e \in refs : e[3] \in Objects
  BY DEF Inv, GraphInv
<1>3. /\ F \subseteq Closure(refs, F)
      /\ \A e \in refs : e[1] \in Closure(refs, F) => e[3] \in Closure(refs, F)
  BY <1>1, <1>2, ClosureIsClosed
<1>4. roots["ModuleList"] \subseteq Rooted
  BY DEF Rooted, Tables
<1> QED
  BY <1>3, <1>4 DEF Usable

LEMMA StartCollectStep ==
  ASSUME Inv, StartCollect
  PROVE  Inv'
<1>1. /\ phase = "run" /\ phase' = "mark" /\ IsDark' = Rooted /\ GrayList' = Rooted
      /\ kept' = kept /\ rest' = rest /\ refs' = refs /\ roots' = roots
      /\ TempModuleList' = TempModuleList /\ native' = native /\ destroyed' = destroyed
  BY DEF StartCollect
<1>2. /\ Usable' = Usable /\ Rooted' = Rooted /\ Heap' = Heap
      /\ Live' = Live
  BY <1>1 DEF Usable, Rooted, Heap, Live
<1>3. Rooted \subseteq Range(rest) /\ Rooted \subseteq Usable
  BY <1>1, InRun, UsableFromRoots DEF Rooted
<1>4. MarkInv'
  BY <1>1, <1>2, <1>3 DEF MarkInv
<1>5. ListInv' /\ GraphInv' /\ TableInv' /\ LiveInv'
  BY <1>1, <1>2 DEF Inv, ListInv, GraphInv, TableInv, LiveInv
<1> QED
  BY <1>4, <1>5 DEF Inv

LEMMA BlackenObjectStep ==
  ASSUME Inv, NEW o \in Objects, BlackenObject(o)
  PROVE  Inv'
<1> DEFINE children == {e[3] : e \in {d \in VisitedRefs : d[1] = o}}
           white == children \ IsDark
<1>1. /\ phase = "mark" /\ phase' = "mark" /\ o \in GrayList
      /\ IsDark' = IsDark \cup white /\ GrayList' = (GrayList \ {o}) \cup white
      /\ kept' = kept /\ rest' = rest /\ refs' = refs /\ roots' = roots
      /\ TempModuleList' = TempModuleList /\ native' = native /\ destroyed' = destroyed
  BY DEF BlackenObject
<1>2. /\ Usable' = Usable /\ Rooted' = Rooted /\ Heap' = Heap
      /\ Live' = Live /\ VisitedRefs' = VisitedRefs
  BY <1>1 DEF Usable, Rooted, Heap, Live, VisitedRefs
<1>3. /\ GrayList \subseteq IsDark /\ IsDark \subseteq Range(rest)
      /\ IsDark \subseteq Usable /\ Rooted \subseteq IsDark
      /\ \A e \in VisitedRefs : e[1] \in IsDark \ GrayList => e[3] \in IsDark
  BY <1>1 DEF Inv, MarkInv
<1>4. children \subseteq Usable
  BY <1>1, <1>3, UsableFromRoots DEF VisitedRefs
<1>5. Usable \subseteq Range(rest)
  <2>1. kept = <<>> /\ Live = Heap
    BY <1>1 DEF Inv, ListInv, Live
  <2> QED
    BY <2>1, UsableIsLive, EmptyOnce DEF Heap
<1>6. \A e \in VisitedRefs : e[1] \in IsDark' \ GrayList' => e[3] \in IsDark'
  <2> SUFFICES ASSUME NEW e \in VisitedRefs, e[1] \in IsDark' \ GrayList'
               PROVE  e[3] \in IsDark'
    OBVIOUS
  <2>1. CASE e[1] = o
    BY <2>1, <1>1
  <2>2. CASE e[1] # o
    BY <2>2, <1>1, <1>3
  <2> QED
    BY <2>1, <2>2
<1>7. MarkInv'
  <2> HIDE DEF children
  <2> QED
    BY <1>1, <1>2, <1>3, <1>4, <1>5, <1>6 DEF MarkInv
<1>8. ListInv' /\ GraphInv' /\ TableInv' /\ LiveInv'
  BY <1>1, <1>2, <1>3 DEF Inv, ListInv, GraphInv, TableInv, LiveInv
<1> QED
  BY <1>7, <1>8 DEF Inv

\* When nothing is gray any more, the dark objects are closed under all edges: the one
\* member that is not visited leads to a root.  What native functions hold is among them.
LEMMA StartSweepStep ==
  ASSUME Inv, HeldElsewhere, StartSweep
  PROVE  Inv'
<1>1. /\ phase = "mark" /\ phase' = "sweep" /\ GrayList = {}
      /\ kept' = kept /\ rest' = rest /\ refs' = refs /\ roots' = roots
      /\ TempModuleList' = TempModuleList /\ native' = native /\ destroyed' = destroyed
      /\ IsDark' = IsDark /\ GrayList' = GrayList
  BY DEF StartSweep
<1>2. Usable' = Usable /\ Rooted' = Rooted /\ Heap' = Heap
  BY <1>1 DEF Usable, Rooted, Heap
<1>3. /\ IsDark \subseteq Range(rest) /\ kept = <<>>
      /\ IsDark \subseteq Usable /\ Rooted \subseteq IsDark
      /\ \A e \in VisitedRefs : e[1] \in IsDark => e[3] \in IsDark
  BY <1>1 DEF Inv, ListInv, MarkInv
<1>4. Live' = IsDark
  BY <1>1, <1>3, EmptyOnce DEF Live
<1>5. \A e \in refs : e[1] \in IsDark => e[3] \in IsDark
  <2> SUFFICES ASSUME NEW e \in refs, e[1] \in IsDark
               PROVE  e[3] \in IsDark
    OBVIOUS
  <2>1. CASE e[2] = "Module"
    BY <2>1, <1>3, UsableFromRoots DEF Inv, GraphInv
  <2>2. CASE e[2] # "Module"
    BY <2>2, <1>3 DEF Inv, GraphInv, VisitedRefs, Visited
  <2> QED
    BY <2>1, <2>2
<1>6. native \subseteq IsDark
  <2>1. IsDark \in SUBSET Objects
    BY <1>3 DEF Inv, ListInv, Range
  <2>2. Closure(refs, Rooted) \subseteq IsDark
    BY <2>1, <1>3, <1>5, ClosureBelow
  <2> QED
    BY <2>2, <1>1 DEF HeldElsewhere
<1>7. LiveInv'
  BY <1>1, <1>2, <1>3, <1>4, <1>5, <1>6 DEF LiveInv
<1>8. MarkInv'
  BY <1>1, <1>2, <1>3, <1>4 DEF MarkInv
<1>9. ListInv' /\ GraphInv' /\ TableInv'
  BY <1>1, <1>2, <1>3 DEF Inv, ListInv, GraphInv, TableInv
<1> QED
  BY <1>7, <1>8, <1>9 DEF Inv

LEMMA KeepStep ==
  ASSUME Inv, Keep
  PROVE  Inv'
<1> DEFINE h == Head(rest)
<1>1. /\ phase = "sweep" /\ phase' = "sweep" /\ rest # <<>> /\ h \in IsDark
      /\ kept' = Append(kept, h) /\ rest' = Tail(rest) /\ IsDark' = IsDark \ {h}
      /\ refs' = refs /\ roots' = roots
      /\ TempModuleList' = TempModuleList /\ native' = native /\ destroyed' = destroyed
      /\ GrayList' = GrayList
  BY DEF Keep
<1>2. /\ kept \in Seq(Objects) /\ rest \in Seq(Objects)
      /\ IsInjective(kept) /\ IsInjective(rest) /\ Range(kept) \cap Range(rest) = {}
  BY DEF Inv, ListInv
<1>3. /\ h \in Objects /\ rest' \in Seq(Objects) /\ IsInjective(rest')
      /\ Range(rest) = {h} \cup Range(rest') /\ h \notin Range(rest')
  BY <1>1, <1>2, HeadTail
<1>4. h \notin Range(kept)
  BY <1>2, <1>3
<1>5. /\ kept' \in Seq(Objects) /\ IsInjective(kept')
      /\ Range(kept') = Range(kept) \cup {h}
  <2> HIDE DEF h
  <2> QED
    BY <1>1, <1>2, <1>3, <1>4, AppendOnce
<1>6. ListInv'
  BY <1>1, <1>2, <1>3, <1>4, <1>5 DEF ListInv
<1>7. Usable' = Usable /\ Rooted' = Rooted /\ Heap' = Heap /\ Live' = Live
  <2>1. Usable' = Usable /\ Rooted' = Rooted
    BY <1>1 DEF Usable, Rooted
  <2>2. Heap' = Heap
    BY <1>3, <1>5 DEF Heap
  <2>3. Live' = Live
    BY <1>1, <1>5 DEF Live
  <2> QED
    BY <2>1, <2>2, <2>3
<1>8. MarkInv'
  BY <1>1, <1>3, <1>7 DEF Inv, MarkInv
<1>9. GraphInv' /\ TableInv' /\ LiveInv'
  BY <1>1, <1>7 DEF Inv, GraphInv, TableInv, LiveInv
<1> QED
  BY <1>6, <1>8, <1>9 DEF Inv

\* Freeing a white object frees nothing else: it is no module, and no built-in class.
LEMMA DestroyObjectStep ==
  ASSUME OwnNames, Inv, DestroyObject
  PROVE  Inv'
<1> DEFINE o == Head(rest)
<1>1. /\ phase = "sweep" /\ phase' = "sweep" /\ rest # <<>> /\ o \notin IsDark
      /\ rest' = Tail(rest) /\ refs' = {e \in refs : e[1] # o}
      /\ destroyed' = (destroyed \ {o}) \cup FunctionsOf(o)
      /\ roots' = [roots EXCEPT !["ImplClasses"] = WithoutClass(o)]
      /\ kept' = kept /\ TempModuleList' = TempModuleList /\ native' = native
      /\ IsDark' = IsDark /\ GrayList' = GrayList
  BY DEF DestroyObject
<1>2. /\ kept \in Seq(Objects) /\ rest \in Seq(Objects)
      /\ IsInjective(kept) /\ IsInjective(rest) /\ Range(kept) \cap Range(rest) = {}
  BY DEF Inv, ListInv
<1>3. /\ o \in Objects /\ rest' \in Seq(Objects) /\ IsInjective(rest')
      /\ Range(rest) = {o} \cup Range(rest') /\ o \notin Range(rest')
  BY <1>1, <1>2, HeadTail
<1> HIDE DEF o
<1>4. ListInv'
  BY <1>1, <1>2, <1>3 DEF ListInv
<1>5. Live = Range(kept) \cup IsDark /\ Live' = Live /\ o \notin Live
  BY <1>1, <1>2, <1>3 DEF Live
<1>6. Heap = Range(kept) \cup {o} \cup Range(rest') /\ Heap' = Range(kept) \cup Range(rest')
  BY <1>1, <1>3 DEF Heap
<1>7. roots["ModuleList"] \subseteq Live /\ Builtins \subseteq Live
  BY UsableFromRoots, UsableIsLive DEF Inv, LiveInv
<1>8. FunctionsOf(o) = {}
  BY <1>5, <1>7 DEF FunctionsOf, Inv, GraphInv
<1>9. WithoutClass(o) = roots["ImplClasses"] /\ roots' = roots
  <2>1. roots["ImplClasses"] = Builtins /\ roots \in [Tables -> SUBSET Objects]
    BY DEF Inv, TableInv
  <2>2. kind[o] = "class" => \A c \in Builtins : Hash[c] # Hash[o]
    BY <1>3, <1>5, <1>7 DEF OwnNames
  <2>3. WithoutClass(o) = roots["ImplClasses"]
    BY <2>1, <2>2 DEF WithoutClass
  <2> QED
    BY <2>1, <2>3, <1>1
<1>10. Rooted' = Rooted
  BY <1>9 DEF Rooted
<1>11. TableInv'
  BY <1>1, <1>8, <1>9 DEF Inv, TableInv
<1>12. GraphInv'
  BY <1>1, <1>6, <1>9 DEF Inv, GraphInv
<1>13. LiveInv'
  BY <1>1, <1>5, <1>10 DEF Inv, LiveInv
<1>14. Live \subseteq Usable'
  <2> DEFINE F == Rooted \cup native \cup Builtins
  <2>1. /\ Live \in SUBSET Objects /\ F \subseteq Live
        /\ Live \subseteq Closure(refs, F)
    BY <1>1, <1>7, UsableIsLive DEF Inv, MarkInv, LiveInv, Usable
  <2>2. refs' \in SUBSET refs
    BY <1>1
  <2>3. \A e \in refs : e[1] \in Live => e[3] \in Live /\ e \in refs'
    BY <1>1, <1>5 DEF Inv, LiveInv
  <2>4. Live \subseteq Closure(refs', F)
    BY <2>1, <2>2, <2>3, ClosureWithoutOutside
  <2>5. Rooted' \cup native' \cup Builtins = F
    BY <1>1, <1>10
  <2> QED
    BY <2>4, <2>5 DEF Usable
<1>15. MarkInv'
  BY <1>1, <1>3, <1>5, <1>14 DEF Inv, MarkInv
<1> QED
  BY <1>4, <1>11, <1>12, <1>13, <1>15 DEF Inv

\* At the end of the list no mark is left.
LEMMA EndCollectStep ==
  ASSUME Inv, EndCollect
  PROVE  Inv' /\ Heap' = Usable'
<1>1. /\ phase = "sweep" /\ phase' = "run" /\ rest = <<>> /\ kept' = <<>> /\ rest' = kept
      /\ refs' = refs /\ roots' = roots
      /\ TempModuleList' = TempModuleList /\ native' = native /\ destroyed' = destroyed
      /\ IsDark' = IsDark /\ GrayList' = {}
  BY DEF EndCollect
<1>2. IsDark = {} /\ Range(rest) = {}
  BY <1>1, EmptyOnce DEF Inv, MarkInv
<1>3. Live = Range(kept) /\ Heap = Range(kept) /\ Heap' = Range(kept) /\ Live' = Range(kept)
  BY <1>1, <1>2, EmptyOnce DEF Live, Heap
<1>4. Usable' = Usable /\ Rooted' = Rooted
  BY <1>1 DEF Usable, Rooted
<1>5. ListInv'
  BY <1>1, EmptyOnce DEF Inv, ListInv
<1>6. GraphInv' /\ TableInv' /\ LiveInv'
  BY <1>1, <1>3, <1>4 DEF Inv, GraphInv, TableInv, LiveInv
<1>7. MarkInv'
  BY <1>1, <1>2 DEF MarkInv
<1>8. Heap' = Usable'
  BY <1>1, <1>3, <1>4, UsableIsLive DEF Inv, MarkInv
<1> QED
  BY <1>5, <1>6, <1>7, <1>8 DEF Inv

LEMMA StutterStep ==
  ASSUME Inv, UNCHANGED vars
  PROVE  Inv'
  BY DEF vars, Inv, ListInv, GraphInv, TableInv, LiveInv, MarkInv, Live, Heap, Rooted,
         Usable, VisitedRefs

-----------------------------------------------------------------------------
(* The theorems. *)

LEMMA InitInv == Init => Inv
<1> SUFFICES ASSUME Init
             PROVE  Inv
  OBVIOUS
<1>1. /\ kept = <<>> /\ rest = BuiltinList /\ refs = {} /\ TempModuleList = {}
      /\ native = {} /\ destroyed = {} /\ phase = "run" /\ IsDark = {} /\ GrayList = {}
      /\ roots = [t \in Tables |-> IF t = "ImplClasses" THEN Builtins ELSE {}]
  BY DEF Init
<1>2. Range(kept) = {} /\ Range(rest) = Builtins /\ Builtins \subseteq Objects
  BY <1>1, EmptyOnce, BuiltinObjects DEF Builtins
<1>3. ListInv
  BY <1>1, <1>2, EmptyOnce, ObjectsAssumption DEF ListInv
<1>4. "ImplClasses" \in Tables
  BY DEF Tables
<1>5. TableInv
  BY <1>1, <1>2, <1>4 DEF TableInv
<1>6. GraphInv
  BY <1>1 DEF GraphInv
<1>7. Live = Builtins
  BY <1>1, <1>2 DEF Live, Heap
<1>8. LiveInv
  BY <1>1, <1>7 DEF LiveInv, Rooted
<1>9. MarkInv
  BY <1>1 DEF MarkInv
<1> QED
  BY <1>3, <1>5, <1>6, <1>8, <1>9 DEF Inv

LEMMA NextInv ==
  ASSUME NoneDropped, OwnNames, HeldElsewhere, Inv, [Next]_vars
  PROVE  Inv'
<1>1. CASE Program
  BY <1>1, ProgramStep
<1>2. CASE StartCollect
  BY <1>2, StartCollectStep
<1>3. CASE \E o \in Objects : BlackenObject(o)
  BY <1>3, BlackenObjectStep
<1>4. CASE StartSweep
  BY <1>4, StartSweepStep
<1>5. CASE Keep
  BY <1>5, KeepStep
<1>6. CASE DestroyObject
  BY <1>6, DestroyObjectStep
<1>7. CASE EndCollect
  BY <1>7, EndCollectStep
<1>8. CASE UNCHANGED vars
  BY <1>8, StutterStep
<1> QED
  BY <1>1, <1>2, <1>3, <1>4, <1>5, <1>6, <1>7, <1>8 DEF Next, Collector

LEMMA Invariance ==
  ASSUME NoneDropped, OwnNames
  PROVE  Spec /\ []HeldElsewhere => []Inv
<1>1. HeldElsewhere /\ Inv /\ [Next]_vars => Inv'
  BY NextInv
<1> QED
  BY <1>1, InitInv, PTL DEF Spec

\* The hypothesis about native functions holds of every program that nobody debugs, since
\* a prompt that collects then has no function below it, and of every program whose
\* native functions hold nothing.
THEOREM NothingHeld ==
  ASSUME ~ Debugger \/ ~ Natives
  PROVE  Spec => []HeldElsewhere
<1> DEFINE None == ~ Natives \/ (~ Debugger /\ phase # "run") => native = {}
<1>1. Init => None
  BY DEF Init
<1>2. None /\ [Next]_vars => None'
  <2> SUFFICES ASSUME None, [Next]_vars
               PROVE  None'
    OBVIOUS
  <2>1. CASE StartCollect
    BY <2>1 DEF StartCollect, AtPrompt
  <2>2. CASE Collector
    BY <2>2 DEF Collector, BlackenObject, StartSweep, Keep, DestroyObject, EndCollect
  <2>3. CASE Program
    <3>1. phase' = "run" /\ (Natives \/ native' \subseteq native)
      BY <2>3 DEF Program, AllocateObject, LoadBytecode, Return, Take, Call, Put, Store, Drop,
           TakeOut, PutBack, RemoveTemporaryModules, Running
    <3> QED
      BY <3>1
  <2>4. CASE UNCHANGED vars
    BY <2>4 DEF vars
  <2> QED
    BY <2>1, <2>2, <2>3, <2>4 DEF Next
<1>3. None => HeldElsewhere
  BY DEF HeldElsewhere
<1> QED
  BY <1>1, <1>2, <1>3, PTL DEF Spec

\* The list of objects is a list of objects of the program, each once, through every
\* allocation, load and sweep.
THEOREM TypeCorrect ==
  ASSUME NoneDropped, OwnNames
  PROVE  Spec /\ []HeldElsewhere => []TypeOK
<1>1. Inv => TypeOK
  <2> SUFFICES ASSUME Inv
               PROVE  TypeOK
    OBVIOUS
  <2>1. IsInjective(kept \o rest)
    BY ConcatOnce DEF Inv, ListInv
  <2>2. IsDark \subseteq Objects /\ GrayList \subseteq Objects
    BY UsableIsLive DEF Inv, MarkInv, Heap
  <2>3. TempModuleList \subseteq Objects
    BY ScriptAssumption DEF Inv, TableInv, Modules
  <2> QED
    BY <2>1, <2>2, <2>3 DEF TypeOK, Inv, ListInv, GraphInv, TableInv, MarkInv
<1> QED
  BY <1>1, Invariance, PTL

\* Nothing the program can still use is ever freed, in no order of marking and at no
\* point of a sweep: a collection at a breakpoint in a comparison function of Array.Sort
\* frees what the native function holds only if no table leads to it.
THEOREM Safety ==
  ASSUME NoneDropped, OwnNames
  PROVE  Spec /\ []HeldElsewhere => []NothingUsableIsFreed
<1>1. Inv => NothingUsableIsFreed
  BY UsableIsLive DEF NothingUsableIsFreed
<1> QED
  BY <1>1, Invariance, PTL

\* No function that can be called has lost its bytecode.
THEOREM CodeSafety ==
  ASSUME NoneDropped, OwnNames
  PROVE  Spec /\ []HeldElsewhere => []CodeIsThere
<1>1. Inv => CodeIsThere
  BY DEF Inv, TableInv, CodeIsThere
<1> QED
  BY <1>1, Invariance, PTL

\* Marks do not outlive a collection.
THEOREM MarksCleared ==
  ASSUME NoneDropped, OwnNames
  PROVE  Spec /\ []HeldElsewhere => []NoMarkSurvives
<1>1. Inv => NoMarkSurvives
  BY DEF Inv, MarkInv, NoMarkSurvives
<1> QED
  BY <1>1, Invariance, PTL

\* A collection leaves nothing behind that cannot be used, cycles of garbage included.
THEOREM Completeness ==
  ASSUME NoneDropped, OwnNames
  PROVE  Spec /\ []HeldElsewhere => CollectsAllGarbage
<1>1. Inv /\ [Next]_vars => [phase = "sweep" /\ phase' = "run" => Heap' = Usable']_vars
  <2> SUFFICES ASSUME Inv, Next, phase = "sweep", phase' = "run"
               PROVE  Heap' = Usable'
    OBVIOUS
  <2>1. ~ Program /\ ~ StartCollect
    BY DEF Program, AllocateObject, LoadBytecode, Return, Take, Call, Put, Store, Drop,
           TakeOut, PutBack, RemoveTemporaryModules, Running, StartCollect
  <2>2. EndCollect
    BY <2>1 DEF Next, Collector, BlackenObject, StartSweep, Keep, DestroyObject
  <2> QED
    BY <2>2, EndCollectStep
<1> QED
  BY <1>1, Invariance, PTL DEF Spec, CollectsAllGarbage

-----------------------------------------------------------------------------
(* A module is freed before its functions. *)

\* On the list s, object a comes before object b.
Before(s, a, b) == \E i, j \in DOMAIN s : i < j /\ s[i] = a /\ s[j] = b

\* On the list, a module is before its functions; what the marks say about a module
\* they say about its functions.
OrderInv ==
  /\ ListInv
  /\ \A e \in refs : e[2] = "Functions" =>
       /\ e[1] \in Modules /\ Before(kept \o rest, e[1], e[3])
       /\ phase = "mark" /\ e[1] \in IsDark \ GrayList => e[3] \in IsDark
       /\ phase = "sweep" /\ e[1] \in Range(kept) \cup IsDark
            => e[3] \in Range(kept) \cup IsDark

LEMMA BeforePrepended ==
  ASSUME NEW s \in Seq(Objects), NEW t \in Seq(Objects), NEW a, NEW b, Before(t, a, b)
  PROVE  Before(s \o t, a, b)
<1>1. PICK i, j \in DOMAIN t : i < j /\ t[i] = a /\ t[j] = b
  BY DEF Before
<1>2. /\ Len(s) \in Nat /\ i \in 1 .. Len(t) /\ j \in 1 .. Len(t)
      /\ DOMAIN (s \o t) = 1 .. Len(s) + Len(t)
  BY <1>1
<1>3. /\ Len(s) + i \in DOMAIN (s \o t) /\ Len(s) + j \in DOMAIN (s \o t)
      /\ (s \o t)[Len(s) + i] = a /\ (s \o t)[Len(s) + j] = b
      /\ Len(s) + i < Len(s) + j
  BY <1>1, <1>2
<1> QED
  BY <1>3 DEF Before

LEMMA BeforeUnlinked ==
  ASSUME NEW s \in Seq(Objects), NEW t \in Seq(Objects), t # <<>>, NEW a, NEW b,
         Before(s \o t, a, b), a # Head(t), b # Head(t)
  PROVE  Before(s \o Tail(t), a, b)
<1> DEFINE k == Len(s)
           Left(i) == IF i <= k THEN i ELSE i - 1
           u == s \o Tail(t)
<1>1. /\ k \in Nat /\ Len(t) \in Nat /\ Len(t) >= 1 /\ Tail(t) \in Seq(Objects)
      /\ Len(Tail(t)) = Len(t) - 1 /\ \A n \in 1 .. Len(t) - 1 : Tail(t)[n] = t[n + 1]
      /\ DOMAIN (s \o t) = 1 .. k + Len(t) /\ Head(t) = t[1]
  OBVIOUS
<1>2. DOMAIN u = 1 .. k + Len(t) - 1
  BY <1>1
<1>3. ASSUME NEW i \in DOMAIN (s \o t), (s \o t)[i] # Head(t)
      PROVE  Left(i) \in DOMAIN u /\ u[Left(i)] = (s \o t)[i] /\ i # k + 1
  <2>1. i \in 1 .. k + Len(t) /\ i # k + 1
    BY <1>1, <1>3
  <2>2. CASE i <= k
    BY <1>1, <1>2, <2>1, <2>2
  <2>3. CASE i > k + 1
    <3>1. Left(i) = i - 1 /\ i - k \in 1 .. Len(t) /\ i - 1 - k \in 1 .. Len(t) - 1
      BY <1>1, <2>1, <2>3
    <3>2. (s \o t)[i] = t[i - k]
      BY <1>1, <2>1, <2>3
    <3>3. u[i - 1] = Tail(t)[i - 1 - k]
      BY <1>1, <2>1, <2>3
    <3>4. Tail(t)[i - 1 - k] = t[i - k]
      BY <1>1, <3>1
    <3> QED
      BY <1>1, <1>2, <2>1, <2>3, <3>1, <3>2, <3>3, <3>4
  <2> QED
    BY <1>1, <2>1, <2>2, <2>3
<1>4. PICK i, j \in DOMAIN (s \o t) : i < j /\ (s \o t)[i] = a /\ (s \o t)[j] = b
  BY DEF Before
<1>5. /\ Left(i) \in DOMAIN u /\ u[Left(i)] = a /\ i # k + 1
      /\ Left(j) \in DOMAIN u /\ u[Left(j)] = b /\ j # k + 1
  BY <1>3, <1>4
<1>6. Left(i) < Left(j)
  BY <1>1, <1>4, <1>5
<1> QED
  BY <1>5, <1>6 DEF Before

\* What comes behind the first object of the second list is in the second list.
LEMMA BehindHead ==
  ASSUME NEW s \in Seq(Objects), NEW t \in Seq(Objects), t # <<>>, NEW b,
         IsInjective(s \o t), Before(s \o t, Head(t), b)
  PROVE  b \in Range(t)
<1>1. PICK i, j \in DOMAIN (s \o t) : i < j /\ (s \o t)[i] = Head(t) /\ (s \o t)[j] = b
  BY DEF Before
<1>2. /\ Len(s) \in Nat /\ Len(t) \in Nat /\ Len(t) >= 1
      /\ DOMAIN (s \o t) = 1 .. Len(s) + Len(t) /\ Head(t) = t[1]
  OBVIOUS
<1>3. Len(s) + 1 \in DOMAIN (s \o t) /\ (s \o t)[Len(s) + 1] = Head(t)
  BY <1>2
<1>4. i = Len(s) + 1
  BY <1>1, <1>3 DEF IsInjective
<1>5. j - Len(s) \in DOMAIN t /\ t[j - Len(s)] = b
  BY <1>1, <1>2, <1>4
<1> QED
  BY <1>5 DEF Range

\* The first object comes before those of the list it is put in front of.
LEMMA BeforeAll ==
  ASSUME NEW x \in Objects, NEW s \in Seq(Objects), NEW t \in Seq(Objects), NEW b \in Range(s)
  PROVE  Before((<<x>> \o s) \o t, x, b)
<1>1. PICK n \in DOMAIN s : s[n] = b
  BY DEF Range
<1> DEFINE u == <<x>> \o s
<1>2. /\ u \in Seq(Objects) /\ Len(u) = 1 + Len(s) /\ Len(s) \in Nat /\ n \in 1 .. Len(s)
      /\ u[1] = x /\ u[1 + n] = s[n]
  BY <1>1
<1> HIDE DEF u
<1>3. /\ DOMAIN (u \o t) = 1 .. Len(u) + Len(t) /\ Len(t) \in Nat
      /\ (u \o t)[1] = u[1] /\ (u \o t)[1 + n] = u[1 + n]
  BY <1>2, SMTT(30)
<1>4. 1 \in DOMAIN (u \o t) /\ 1 + n \in DOMAIN (u \o t) /\ 1 < 1 + n
  BY <1>2, <1>3
<1> QED
  BY <1>1, <1>2, <1>3, <1>4 DEF Before, u

LEMMA EmptyConcat ==
  ASSUME NEW s \in Seq(Objects)
  PROVE  <<>> \o s = s /\ s \o <<>> = s
  OBVIOUS

\* An action that leaves the list and adds no function to a module.
LEMMA OrderSame ==
  ASSUME OrderInv, phase # "sweep", phase' # "mark", phase' = phase,
         kept' = kept, rest' = rest,
         \A e \in refs' : e[2] = "Functions" => e \in refs
  PROVE  OrderInv'
<1>1. phase # "mark"
  OBVIOUS
<1>2. ListInv'
  BY DEF OrderInv, ListInv
<1>3. ASSUME NEW e \in refs', e[2] = "Functions"
      PROVE  e[1] \in Modules /\ Before(kept' \o rest', e[1], e[3])
  BY <1>3 DEF OrderInv
<1> QED
  BY <1>1, <1>2, <1>3 DEF OrderInv

LEMMA OrderAllocate ==
  ASSUME OrderInv, NEW o \in Objects, AllocateObject(o)
  PROVE  OrderInv'
<1>1. /\ phase = "run" /\ phase' = "run" /\ kept' = kept /\ rest' = <<o>> \o rest
      /\ o \notin Heap /\ SetNewRefs(o)
  BY DEF AllocateObject, Running
<1>2. kept = <<>> /\ rest \in Seq(Objects) /\ IsInjective(rest) /\ o \notin Range(rest)
  BY <1>1 DEF OrderInv, ListInv, Heap
<1>3. rest' \in Seq(Objects) /\ IsInjective(rest')
  <2>1. <<o>> \in Seq(Objects) /\ IsInjective(<<o>>) /\ Range(<<o>>) = {o}
    BY SingletonOnce
  <2> QED
    BY <1>1, <1>2, <2>1, ConcatOnce, ZenonT(30)
<1>4. ListInv'
  BY <1>1, <1>2, <1>3, EmptyOnce DEF ListInv
<1>5. ASSUME NEW e \in refs', e[2] = "Functions"
      PROVE  e \in refs
  <2>1. \/ refs' = refs
        \/ \E c : refs' = refs \cup {<<o, "Object.Class", c>>}
        \/ \E f, a : refs' = refs \cup {<<o, "Method", f>>, <<o, "Arguments", a>>}
    BY <1>1, Zenon DEF SetNewRefs
  <2>2. ASSUME NEW c, refs' = refs \cup {<<o, "Object.Class", c>>}
        PROVE  e \in refs
    BY <1>5, <2>2
  <2>3. ASSUME NEW f, NEW a, refs' = refs \cup {<<o, "Method", f>>, <<o, "Arguments", a>>}
        PROVE  e \in refs
    BY <1>5, <2>3
  <2> QED
    BY <1>5, <2>1, <2>2, <2>3
<1>6. ASSUME NEW e \in refs', e[2] = "Functions"
      PROVE  e[1] \in Modules /\ Before(kept' \o rest', e[1], e[3])
  <2>1. e[1] \in Modules /\ Before(kept \o rest, e[1], e[3])
    BY <1>5, <1>6 DEF OrderInv
  <2>2. <<o>> \in Seq(Objects)
    OBVIOUS
  <2>3. kept \o rest = rest /\ kept' \o rest' = <<o>> \o rest
    BY <1>1, <1>2, <1>3, EmptyConcat
  <2> QED
    BY <1>2, <2>1, <2>2, <2>3, BeforePrepended
<1> QED
  BY <1>1, <1>4, <1>6 DEF OrderInv

LEMMA OrderLoad ==
  ASSUME OrderInv, NEW m \in Modules, LoadBytecode(m)
  PROVE  OrderInv'
<1> DEFINE fs == Script[m]
           F  == Range(fs)
           one == <<m>>
           back == Reverse(fs)
           front == one \o back
<1>1. /\ phase = "run" /\ phase' = "run" /\ kept' = kept
      /\ m \notin Heap /\ F \cap Heap = {}
      /\ rest' = front \o rest
      /\ refs' = refs \cup {<<m, "Functions", f>> : f \in F}
                   \cup {<<f, "Module", m>> : f \in F}
                   \cup {<<f, "Object.Class", ImplClass["function"]>> : f \in F}
  <2>1. rest' = <<m>> \o Reverse(fs) \o rest
    BY DEF LoadBytecode
  <2> QED
    BY <2>1 DEF LoadBytecode, Running
<1>2. kept = <<>> /\ rest \in Seq(Objects) /\ IsInjective(rest)
      /\ ({m} \cup F) \cap Range(rest) = {}
  BY <1>1 DEF OrderInv, ListInv, Heap
<1>3. /\ m \in Objects /\ fs \in Seq(Objects) /\ IsInjective(fs) /\ m \notin F
  BY ScriptAssumption DEF Modules, Range
<1>4. back \in Seq(Objects) /\ IsInjective(back) /\ Range(back) = F
  BY <1>3, ReverseOnce
<1>5. one \in Seq(Objects) /\ IsInjective(one) /\ Range(one) = {m}
  BY <1>3, SingletonOnce
<1> HIDE DEF back, one, fs, F
<1>6. front \in Seq(Objects) /\ IsInjective(front) /\ Range(front) = {m} \cup F
  BY <1>3, <1>4, <1>5, ConcatOnce
<1>7. rest' \in Seq(Objects) /\ IsInjective(rest')
  BY <1>1, <1>2, <1>6, ConcatOnce
<1>8. ListInv'
  BY <1>1, <1>2, <1>7, EmptyOnce DEF ListInv
<1>9. kept \o rest = rest /\ kept' \o rest' = front \o rest
  BY <1>1, <1>2, <1>7, EmptyConcat
<1>10. ASSUME NEW f \in F
       PROVE  Before(front \o rest, m, f)
  BY <1>2, <1>3, <1>4, BeforeAll DEF one
<1> HIDE DEF front
<1>11. ASSUME NEW e \in refs', e[2] = "Functions"
       PROVE  e[1] \in Modules /\ Before(kept' \o rest', e[1], e[3])
  <2>1. CASE e \in refs
    <3>1. e[1] \in Modules /\ Before(kept \o rest, e[1], e[3])
      BY <1>11, <2>1 DEF OrderInv
    <3> QED
      BY <1>2, <1>6, <1>9, <3>1, BeforePrepended
  <2>2. CASE \E f \in F : e = <<m, "Functions", f>>
    BY <1>9, <1>10, <2>2
  <2> QED
    BY <1>1, <1>11, <2>1, <2>2
<1> QED
  BY <1>1, <1>8, <1>11 DEF OrderInv

LEMMA OrderProgram ==
  ASSUME OrderInv, Program
  PROVE  OrderInv'
<1>1. CASE \E o \in Objects : AllocateObject(o)
  BY <1>1, OrderAllocate
<1>2. CASE \E m \in Modules : LoadBytecode(m)
  BY <1>2, OrderLoad
<1>3. ASSUME phase' = phase, kept' = kept, rest' = rest,
             \A e \in refs' : e[2] = "Functions" => e \in refs
      PROVE  OrderInv'
  BY <1>3, OrderSame DEF Program
<1>4. CASE \/ \E m \in Modules : Return(m)
           \/ \E t \in {"Stack", "Globals"}, o \in Objects : Take(t, o)
           \/ \E o \in Usable : \/ Call(o)
                                \/ \E t \in {"Stack", "Globals", "Constants"} : Put(t, o)
           \/ RemoveTemporaryModules
  BY <1>3, <1>4 DEF Return, Take, Call, Put, RemoveTemporaryModules, Running
<1>5. ASSUME NEW o, NEW p, NEW m, Store(o, m, p)
      PROVE  OrderInv'
  <2>1. m # "Functions"
    BY <1>5 DEF Store, Assignable, Assigned
  <2> QED
    BY <1>3, <1>5, <2>1 DEF Store, Running
<1>6. ASSUME NEW o, NEW p, NEW m, Drop(o, m, p) \/ TakeOut(o, p) \/ PutBack(o, p)
      PROVE  OrderInv'
  BY <1>3, <1>6 DEF Drop, TakeOut, PutBack, Running
<1>7. CASE \E o, p \in Usable :
             \/ \E m \in MemberNames : Store(o, m, p) \/ Drop(o, m, p)
             \/ TakeOut(o, p) \/ PutBack(o, p)
  BY <1>5, <1>6, <1>7
<1> QED
  BY <1>1, <1>2, <1>4, <1>7 DEF Program

LEMMA OrderCollector ==
  ASSUME OrderInv, StartCollect \/ Collector
  PROVE  OrderInv'
<1>0. /\ kept \in Seq(Objects) /\ rest \in Seq(Objects)
      /\ IsInjective(kept) /\ IsInjective(rest) /\ Range(kept) \cap Range(rest) = {}
      /\ phase # "sweep" => kept = <<>>
      /\ IsInjective(kept \o rest)
  BY ConcatOnce DEF OrderInv, ListInv
<1>1. CASE StartCollect
  BY <1>1 DEF StartCollect, OrderInv, ListInv
<1>2. CASE \E o \in Objects : BlackenObject(o)
  <2>1. PICK o \in Objects : BlackenObject(o)
    BY <1>2
  <2> DEFINE children == {e[3] : e \in {d \in VisitedRefs : d[1] = o}}
  <2>2. /\ phase = "mark" /\ phase' = "mark" /\ UNCHANGED <<kept, rest, refs>>
        /\ IsDark' = IsDark \cup (children \ IsDark)
        /\ GrayList' = (GrayList \ {o}) \cup (children \ IsDark)
    BY <2>1 DEF BlackenObject
  <2>3. \A e \in refs : e[2] = "Functions" /\ e[1] = o /\ e[1] \in Modules => e[3] \in children
    <3>1. \A n \in Modules : "Functions" \in Visited(kind[n])
      BY DEF Modules, Visited, Members
    <3> QED
      BY <3>1 DEF VisitedRefs
  <2> HIDE DEF children
  <2>4. ListInv'
    BY <2>2 DEF OrderInv, ListInv
  <2>5. ASSUME NEW e \in refs, e[2] = "Functions", e[1] \in IsDark' \ GrayList'
        PROVE  e[3] \in IsDark'
    <3>1. CASE e[1] = o
      BY <2>2, <2>3, <2>5, <3>1 DEF OrderInv
    <3>2. CASE e[1] # o
      <4>1. e[1] \in IsDark \ GrayList
        BY <2>2, <2>5, <3>2
      <4> QED
        BY <2>2, <2>5, <4>1 DEF OrderInv
    <3> QED
      BY <3>1, <3>2
  <2> QED
    BY <2>2, <2>4, <2>5 DEF OrderInv
<1>3. CASE StartSweep
  <2>1. /\ phase = "mark" /\ phase' = "sweep" /\ GrayList = {}
        /\ UNCHANGED <<kept, rest, refs, IsDark>> /\ kept = <<>>
    BY <1>0, <1>3 DEF StartSweep
  <2>2. Range(kept) = {}
    BY <2>1, EmptyOnce
  <2> QED
    BY <2>1, <2>2 DEF OrderInv, ListInv
<1>4. CASE Keep
  <2> DEFINE o == Head(rest)
  <2>1. /\ phase = "sweep" /\ phase' = "sweep" /\ rest # <<>> /\ o \in IsDark
        /\ kept' = Append(kept, o) /\ rest' = Tail(rest) /\ IsDark' = IsDark \ {o}
        /\ refs' = refs
    BY <1>4 DEF Keep
  <2>2. /\ o \in Objects /\ Tail(rest) \in Seq(Objects) /\ IsInjective(Tail(rest))
        /\ Range(rest) = {o} \cup Range(Tail(rest)) /\ o \notin Range(Tail(rest))
    BY <1>0, <2>1, HeadTail
  <2>3. kept' \o rest' = kept \o rest
    BY <1>0, <2>1
  <2> HIDE DEF o
  <2>4. kept' \in Seq(Objects) /\ IsInjective(kept') /\ Range(kept') = Range(kept) \cup {o}
    BY <1>0, <2>1, <2>2, AppendOnce
  <2>5. ListInv'
    BY <1>0, <2>1, <2>2, <2>4 DEF ListInv
  <2>6. Range(kept') \cup IsDark' = Range(kept) \cup IsDark
    BY <2>1, <2>4
  <2> QED
    BY <2>1, <2>3, <2>5, <2>6 DEF OrderInv
<1>5. CASE DestroyObject
  <2> DEFINE o == Head(rest)
  <2>1. /\ phase = "sweep" /\ phase' = "sweep" /\ rest # <<>> /\ o \notin IsDark
        /\ rest' = Tail(rest) /\ refs' = {e \in refs : e[1] # o}
        /\ kept' = kept /\ IsDark' = IsDark
    BY <1>5 DEF DestroyObject
  <2>2. /\ o \in Objects /\ Tail(rest) \in Seq(Objects) /\ IsInjective(Tail(rest))
        /\ Range(rest) = {o} \cup Range(Tail(rest))
    BY <1>0, <2>1, HeadTail
  <2>3. ListInv'
    BY <1>0, <2>1, <2>2 DEF ListInv
  <2>4. ASSUME NEW e \in refs', e[2] = "Functions"
        PROVE  /\ e[1] \in Modules /\ Before(kept' \o rest', e[1], e[3])
               /\ e[1] \in Range(kept) \cup IsDark => e[3] \in Range(kept) \cup IsDark
    <3>1. /\ e \in refs /\ e[1] # o /\ e[1] \in Modules /\ Before(kept \o rest, e[1], e[3])
          /\ e[1] \in Range(kept) \cup IsDark => e[3] \in Range(kept) \cup IsDark
      BY <2>1, <2>4 DEF OrderInv
    <3>2. e[3] # o
      <4>1. SUFFICES ASSUME e[3] = o PROVE FALSE
        OBVIOUS
      <4>2. o \notin Range(kept) \cup IsDark
        BY <1>0, <2>1, <2>2
      <4>3. e[1] \notin Range(kept)
        BY <3>1, <4>1, <4>2
      <4>4. PICK i, j \in DOMAIN (kept \o rest) :
              i < j /\ (kept \o rest)[i] = e[1] /\ (kept \o rest)[j] = o
        BY <3>1, <4>1 DEF Before
      <4>5. /\ Len(kept) \in Nat /\ Len(rest) \in Nat /\ Len(rest) >= 1
            /\ DOMAIN (kept \o rest) = 1 .. Len(kept) + Len(rest)
            /\ (kept \o rest)[Len(kept) + 1] = o
        BY <1>0, <2>1
      <4>6. j = Len(kept) + 1
        BY <1>0, <4>4, <4>5 DEF IsInjective
      <4>7. i \in DOMAIN kept /\ kept[i] = e[1]
        BY <1>0, <4>4, <4>5, <4>6
      <4> QED
        BY <4>3, <4>7 DEF Range
    <3> HIDE DEF o
    <3>3. Before(kept \o Tail(rest), e[1], e[3])
      BY <1>0, <2>1, <3>1, <3>2, BeforeUnlinked DEF o
    <3> QED
      BY <2>1, <3>1, <3>3
  <2> QED
    BY <2>1, <2>3, <2>4 DEF OrderInv
<1>6. CASE EndCollect
  <2>1. /\ phase = "sweep" /\ phase' = "run" /\ rest = <<>> /\ kept' = <<>> /\ rest' = kept
        /\ refs' = refs
    BY <1>6 DEF EndCollect
  <2>2. ListInv'
    BY <1>0, <2>1, EmptyOnce DEF ListInv
  <2>3. kept' \o rest' = kept /\ kept \o rest = kept
    BY <1>0, <2>1, EmptyConcat
  <2> QED
    BY <2>1, <2>2, <2>3 DEF OrderInv
<1> QED
  BY <1>1, <1>2, <1>3, <1>4, <1>5, <1>6 DEF Collector

LEMMA AlwaysOrdered == Spec => []OrderInv
<1>1. Init => OrderInv
  BY ObjectsAssumption, EmptyOnce DEF Init, OrderInv, ListInv
<1>2. OrderInv /\ [Next]_vars => OrderInv'
  <2> SUFFICES ASSUME OrderInv, [Next]_vars
               PROVE  OrderInv'
    OBVIOUS
  <2>1. CASE UNCHANGED vars
    BY <2>1 DEF OrderInv, ListInv, vars
  <2> QED
    BY <2>1, OrderProgram, OrderCollector DEF Next
<1> QED
  BY <1>1, <1>2, PTL DEF Spec

\* A module is freed while all its functions are still on the list behind it, so that
\* FreeModule may reach into them: for every heap and every program, typed modules that
\* were dropped, hidden values and classes of a built-in one's name included.
THEOREM ModulesGoFirst == Spec => ModuleBeforeFunctions
<1>1. OrderInv /\ [Next]_vars =>
        [Len(rest') < Len(rest) /\ Len(kept') = Len(kept)
           => FunctionsOf(Head(rest)) \subseteq Range(rest)]_vars
  <2> SUFFICES ASSUME OrderInv, Next, Len(rest') < Len(rest), Len(kept') = Len(kept)
               PROVE  FunctionsOf(Head(rest)) \subseteq Range(rest)
    OBVIOUS
  <2>0. kept \in Seq(Objects) /\ rest \in Seq(Objects) /\ IsInjective(kept \o rest)
    BY ConcatOnce DEF OrderInv, ListInv
  <2>1. rest # <<>>
    <3>1. rest' \in Seq(Objects)
      BY OrderProgram, OrderCollector DEF Next, OrderInv, ListInv
    <3>2. Len(rest') \in Nat
      BY <3>1
    <3> QED
      BY <2>0, <3>2
  <2>2. \A f \in FunctionsOf(Head(rest)) : Before(kept \o rest, Head(rest), f)
    BY DEF OrderInv, FunctionsOf
  <2> QED
    BY <2>0, <2>1, <2>2, BehindHead
<1> QED
  BY <1>1, AlwaysOrdered, PTL DEF Spec, ModuleBeforeFunctions

-----------------------------------------------------------------------------
(* Sums over finite sets of objects. *)

\* A non-empty collection of finite sets has one that contains no other.
LEMMA SmallestSet ==
  ASSUME NEW C \in SUBSET SUBSET Objects, C # {}, \A T \in C : IsFiniteSet(T)
  PROVE  \E T \in C : \A U \in SUBSET T : U # T => U \notin C
<1>1. C \subseteq FiniteSubsetsOf(Objects)
  BY DEF FiniteSubsetsOf
<1>2. PICK T \in C : \A U \in C : <<U, T>> \notin StrictSubsetOrdering(Objects)
  BY <1>1, FS_StrictSubsetOrderingWellFounded, WFMin, Zenon
<1>3. ASSUME NEW U \in SUBSET T, U # T, U \in C
      PROVE  FALSE
  <2>1. <<U, T>> \in StrictSubsetOrdering(Objects)
    BY <1>3 DEF StrictSubsetOrdering
  <2> QED
    BY <1>2, <1>3, <2>1
<1> QED
  BY <1>2, <1>3

Some(s) == CHOOSE x \in s : TRUE

\* The sums of the sizes of the subsets of S, as SumFunctionOnSet computes them.
Sums(S, g) ==
  g = [s \in SUBSET S |-> IF s = {} THEN 0 ELSE Size[Some(s)] + g[s \ {Some(s)}]]

SumsOf(S) == CHOOSE g : Sums(S, g)

SizeOf(S) == SumFunctionOnSet(Size, S)

LEMMA SizeIs ==
  ASSUME NEW S
  PROVE  SizeOf(S) = SumsOf(S)[S]
  BY Zenon DEF SizeOf, SumFunctionOnSet, FoldFunctionOnSet, MapThenFoldSet, Sums, SumsOf, Some

LEMMA SomeIn ==
  ASSUME NEW s, s # {}
  PROVE  Some(s) \in s /\ s \ {Some(s)} # s
<1>1. Some(s) \in s
  BY DEF Some
<1> QED
  BY <1>1

LEMMA SumsUnfold ==
  ASSUME NEW S, NEW g, Sums(S, g), NEW s \in SUBSET S
  PROVE  g[s] = IF s = {} THEN 0 ELSE Size[Some(s)] + g[s \ {Some(s)}]
  BY Zenon DEF Sums

LEMMA SumsUnique ==
  ASSUME NEW S, NEW g, Sums(S, g), NEW T, NEW h, Sums(T, h),
         NEW s \in SUBSET Objects, s \subseteq S, s \subseteq T, IsFiniteSet(s)
  PROVE  g[s] = h[s]
<1>a. /\ \A u \in SUBSET S : g[u] = IF u = {} THEN 0 ELSE Size[Some(u)] + g[u \ {Some(u)}]
      /\ \A u \in SUBSET T : h[u] = IF u = {} THEN 0 ELSE Size[Some(u)] + h[u \ {Some(u)}]
  BY SumsUnfold
<1> DEFINE C == {u \in SUBSET s : g[u] # h[u]}
<1> SUFFICES ASSUME C # {} PROVE FALSE
  OBVIOUS
<1>1. PICK u \in C : \A v \in SUBSET u : v # u => v \notin C
  <2>1. C \in SUBSET SUBSET Objects /\ \A u \in C : IsFiniteSet(u)
    BY FS_Subset
  <2> QED
    BY <2>1, SmallestSet, Zenon
<1>2. u \in SUBSET S /\ u \in SUBSET T /\ u \in SUBSET s /\ g[u] # h[u]
  BY <1>1
<1>3. /\ g[u] = IF u = {} THEN 0 ELSE Size[Some(u)] + g[u \ {Some(u)}]
      /\ h[u] = IF u = {} THEN 0 ELSE Size[Some(u)] + h[u \ {Some(u)}]
  <2>1. g[u] = IF u = {} THEN 0 ELSE Size[Some(u)] + g[u \ {Some(u)}]
    BY <1>2, <1>a
  <2>2. h[u] = IF u = {} THEN 0 ELSE Size[Some(u)] + h[u \ {Some(u)}]
    BY <1>2, <1>a
  <2> QED
    BY <2>1, <2>2
<1>4. u # {} /\ g[u \ {Some(u)}] # h[u \ {Some(u)}]
  BY <1>2, <1>3
<1>5. u \ {Some(u)} \in C /\ u \ {Some(u)} # u
  BY <1>2, <1>4, SomeIn
<1> QED
  BY <1>1, <1>5

LEMMA SumsExist ==
  ASSUME NEW S \in SUBSET Objects, IsFiniteSet(S)
  PROVE  Sums(S, SumsOf(S))
<1> DEFINE C == {u \in SUBSET S : ~ Sums(u, SumsOf(u))}
<1> SUFFICES ASSUME C # {} PROVE FALSE
  OBVIOUS
<1>0. \A u \in SUBSET S : IsFiniteSet(u)
  BY FS_Subset
<1>1. PICK T \in C : \A v \in SUBSET T : v # T => v \notin C
  <2>1. C \in SUBSET SUBSET Objects /\ \A u \in C : IsFiniteSet(u)
    BY <1>0
  <2> QED
    BY <2>1, SmallestSet, Zenon
<1>2. T \in SUBSET S /\ \A v \in SUBSET T : v # T => v \in SUBSET S /\ Sums(v, SumsOf(v))
  BY <1>1
<1> DEFINE Rest(s) == s \ {Some(s)}
           Value(s) == IF s = {} THEN 0 ELSE Size[Some(s)] + SumsOf(Rest(s))[Rest(s)]
           g == [s \in SUBSET T |-> Value(s)]
<1>3. ASSUME NEW s \in SUBSET T, s # {}
      PROVE  g[Rest(s)] = SumsOf(Rest(s))[Rest(s)]
  <2>1. Rest(s) \in SUBSET T /\ Rest(s) # T
    BY <1>3, SomeIn
  <2> DEFINE r == Rest(s)
  <2>2. Sums(r, SumsOf(r)) /\ r \in SUBSET r
    BY <1>2, <2>1
  <2>3. g[r] = Value(r)
    BY <2>1
  <2> HIDE DEF r, g
  <2>4. SumsOf(r)[r] = IF r = {} THEN 0 ELSE Size[Some(r)] + SumsOf(r)[Rest(r)]
    BY <2>2, SumsUnfold
  <2>5. r # {} => SumsOf(r)[Rest(r)] = SumsOf(Rest(r))[Rest(r)]
    <3> SUFFICES ASSUME r # {} PROVE SumsOf(r)[Rest(r)] = SumsOf(Rest(r))[Rest(r)]
      OBVIOUS
    <3>1. r \in SUBSET T
      BY <2>1 DEF r
    <3>2. Rest(r) \in SUBSET T /\ Rest(r) # T /\ Rest(r) \subseteq r
      BY <3>1, SomeIn
    <3>3. Sums(Rest(r), SumsOf(Rest(r))) /\ Rest(r) \in SUBSET S
      BY <1>2, <3>2
    <3>4. IsFiniteSet(Rest(r)) /\ Rest(r) \in SUBSET Objects
      BY <1>0, <3>3
    <3> HIDE DEF Rest
    <3> QED
      BY <2>2, <3>2, <3>3, <3>4, SumsUnique
  <2>6. g[r] = SumsOf(r)[r]
    BY <2>3, <2>4, <2>5
  <2> QED
    BY <2>6 DEF r
<1>4. Sums(T, g)
  <2>1. ASSUME NEW s \in SUBSET T
        PROVE  g[s] = IF s = {} THEN 0 ELSE Size[Some(s)] + g[s \ {Some(s)}]
    <3>1. g[s] = Value(s)
      OBVIOUS
    <3> HIDE DEF g
    <3> QED
      BY <1>3, <3>1
  <2>2. g = [s \in SUBSET T |-> g[s]]
    OBVIOUS
  <2> HIDE DEF g
  <2> QED
    BY <2>1, <2>2, Zenon DEF Sums
<1> HIDE DEF g
<1>5. Sums(T, SumsOf(T))
  BY <1>4, Zenon DEF SumsOf
<1> QED
  BY <1>1, <1>5

\* One object at a time, ...
LEMMA SizeUnfold ==
  ASSUME NEW S \in SUBSET Objects, IsFiniteSet(S)
  PROVE  SizeOf(S) = IF S = {} THEN 0 ELSE Size[Some(S)] + SizeOf(S \ {Some(S)})
<1> DEFINE R == S \ {Some(S)}
<1>1. R \in SUBSET Objects /\ R \subseteq S /\ IsFiniteSet(R)
  BY FS_Subset
<1>2. Sums(S, SumsOf(S)) /\ Sums(R, SumsOf(R))
  BY <1>1, SumsExist
<1>3. SizeOf(S) = SumsOf(S)[S] /\ SizeOf(R) = SumsOf(R)[R]
  BY SizeIs
<1>4. SumsOf(S)[S] = IF S = {} THEN 0 ELSE Size[Some(S)] + SumsOf(S)[R]
  BY <1>2, SumsUnfold
<1> HIDE DEF R
<1>5. SumsOf(S)[R] = SumsOf(R)[R]
  BY <1>1, <1>2, SumsUnique
<1>6. SizeOf(S) = IF S = {} THEN 0 ELSE Size[Some(S)] + SizeOf(R)
  BY <1>3, <1>4, <1>5
<1> QED
  BY <1>6 DEF R

\* ... and it does not matter which.
LEMMA SizeWithout ==
  ASSUME NEW S \in SUBSET Objects, IsFiniteSet(S)
  PROVE  /\ SizeOf(S) \in Nat
         /\ \A x \in S : SizeOf(S) = Size[x] + SizeOf(S \ {x})
<1> DEFINE Good(u) == SizeOf(u) \in Nat /\ \A x \in u : SizeOf(u) = Size[x] + SizeOf(u \ {x})
           C == {u \in SUBSET S : ~ Good(u)}
<1> SUFFICES ASSUME C # {} PROVE FALSE
  OBVIOUS
<1>0. \A u \in SUBSET S : IsFiniteSet(u) /\ u \in SUBSET Objects
  BY FS_Subset
<1>1. PICK T \in C : \A v \in SUBSET T : v # T => v \notin C
  <2>1. C \in SUBSET SUBSET Objects /\ \A u \in C : IsFiniteSet(u)
    BY <1>0
  <2> HIDE DEF C
  <2> QED
    BY <2>1, SmallestSet, Zenon
<1>2. /\ T \in SUBSET S /\ T \in SUBSET Objects /\ IsFiniteSet(T) /\ ~ Good(T)
      /\ \A v \in SUBSET T : v # T => Good(v)
  BY <1>0, <1>1
<1>3. CASE T = {}
  <2>1. SizeOf(T) = 0
    BY <1>2, <1>3, SizeUnfold
  <2> QED
    BY <1>2, <1>3, <2>1
<1>4. CASE T # {}
  <2> DEFINE a == Some(T)
  <2>1. a \in T /\ a \in Objects /\ T \ {a} # T
    BY <1>2, <1>4, SomeIn
  <2>2. SizeOf(T) = Size[a] + SizeOf(T \ {a})
    BY <1>2, <1>4, SizeUnfold
  <2> HIDE DEF a
  <2>3. \A x \in T : Good(T \ {x})
    BY <1>2
  <2>4. \A x \in T : Size[x] \in Nat /\ SizeOf(T \ {x}) \in Nat
    BY <1>2, <2>3, NumbersAssumption
  <2>5. ASSUME NEW x \in T, x # a
        PROVE  SizeOf(T) = Size[x] + SizeOf(T \ {x})
    <3>1. /\ SizeOf(T \ {a}) = Size[x] + SizeOf((T \ {a}) \ {x})
          /\ SizeOf(T \ {x}) = Size[a] + SizeOf((T \ {x}) \ {a})
      BY <2>1, <2>3, <2>5
    <3>2. (T \ {a}) \ {x} = (T \ {x}) \ {a}
      OBVIOUS
    <3> DEFINE R == SizeOf((T \ {x}) \ {a})
    <3>3. R \in Nat
      <4>1. (T \ {x}) \ {a} \in SUBSET T /\ (T \ {x}) \ {a} # T
        BY <2>1
      <4> QED
        BY <1>2, <4>1
    <3>4. /\ SizeOf(T) = Size[a] + SizeOf(T \ {a}) /\ SizeOf(T \ {a}) = Size[x] + R
          /\ SizeOf(T \ {x}) = Size[a] + R
          /\ Size[a] \in Nat /\ Size[x] \in Nat
      BY <2>1, <2>2, <2>4, <3>1, <3>2
    <3> HIDE DEF R
    <3> QED
      BY <3>3, <3>4
  <2>6. SizeOf(T) \in Nat
    BY <2>1, <2>2, <2>4
  <2>7. \A x \in T : SizeOf(T) = Size[x] + SizeOf(T \ {x})
    BY <2>2, <2>5
  <2> QED
    BY <1>2, <2>6, <2>7
<1> QED
  BY <1>3, <1>4

\* Sets that have nothing in common add up.
LEMMA SizeUnion ==
  ASSUME NEW S \in SUBSET Objects, IsFiniteSet(S), NEW U \in SUBSET Objects, IsFiniteSet(U),
         S \cap U = {}
  PROVE  SizeOf(S \cup U) = SizeOf(S) + SizeOf(U)
<1> DEFINE C == {u \in SUBSET U : SizeOf(S \cup u) # SizeOf(S) + SizeOf(u)}
<1> SUFFICES ASSUME C # {} PROVE FALSE
  OBVIOUS
<1>0. \A u \in SUBSET U : /\ IsFiniteSet(u) /\ u \in SUBSET Objects
                          /\ IsFiniteSet(S \cup u) /\ S \cup u \in SUBSET Objects
  BY FS_Subset, FS_Union
<1>1. PICK T \in C : \A v \in SUBSET T : v # T => v \notin C
  <2>1. C \in SUBSET SUBSET Objects /\ \A u \in C : IsFiniteSet(u)
    BY <1>0
  <2> HIDE DEF C
  <2> QED
    BY <2>1, SmallestSet, Zenon
<1>2. /\ T \in SUBSET U /\ SizeOf(S \cup T) # SizeOf(S) + SizeOf(T)
      /\ \A v \in SUBSET T : v # T => SizeOf(S \cup v) = SizeOf(S) + SizeOf(v)
  BY <1>1
<1>3. T # {}
  <2>1. {} \in SUBSET Objects /\ IsFiniteSet({}) /\ SizeOf({}) = 0
    BY SizeUnfold, FS_EmptySet
  <2>2. SizeOf(S) \in Nat /\ S \cup {} = S
    BY SizeWithout
  <2>3. SizeOf(S \cup {}) = SizeOf(S) + SizeOf({})
    BY <2>1, <2>2
  <2> QED
    BY <1>2, <2>3, Zenon
<1>4. PICK x \in T : TRUE
  BY <1>3
<1> DEFINE R == T \ {x}
<1>5. /\ SizeOf(T) = Size[x] + SizeOf(R)
      /\ SizeOf(S \cup T) = Size[x] + SizeOf((S \cup T) \ {x})
  BY <1>0, <1>2, <1>4, SizeWithout
<1>6. (S \cup T) \ {x} = S \cup R
  BY <1>2, <1>4
<1>7. SizeOf(S \cup R) = SizeOf(S) + SizeOf(R)
  <2>1. R \in SUBSET T /\ R # T
    BY <1>4
  <2> HIDE DEF R
  <2> QED
    BY <1>2, <2>1
<1>8. SizeOf(S) \in Nat /\ SizeOf(R) \in Nat /\ Size[x] \in Nat
  <2>1. R \in SUBSET U /\ x \in Objects
    BY <1>2, <1>4
  <2>2. IsFiniteSet(R) /\ R \in SUBSET Objects
    BY <1>0, <2>1
  <2> HIDE DEF R
  <2> QED
    BY <2>1, <2>2, SizeWithout, NumbersAssumption
<1> HIDE DEF R
<1>9. SizeOf(S \cup T) = Size[x] + SizeOf(S \cup R)
  BY <1>5, <1>6, Zenon
<1>10. SizeOf(S \cup T) = SizeOf(S) + SizeOf(T)
  BY <1>5, <1>7, <1>8, <1>9
<1> QED
  BY <1>2, <1>10, Zenon

LEMMA FiniteRange ==
  ASSUME NEW s \in Seq(Objects)
  PROVE  IsFiniteSet(Range(s)) /\ Range(s) \in SUBSET Objects
<1>1. Len(s) \in Nat /\ DOMAIN s = 1 .. Len(s) /\ s \in [1 .. Len(s) -> Objects]
  OBVIOUS
<1>2. s \in Surjection(1 .. Len(s), Range(s))
  BY <1>1 DEF Surjection, Range
<1>3. IsFiniteSet(1 .. Len(s))
  BY <1>1, FS_Interval
<1> QED
  BY <1>1, <1>2, <1>3, FS_Surjection DEF Range

-----------------------------------------------------------------------------
(* GarbageSize is the size of the heap. *)

LEMMA ListSets ==
  ASSUME OrderInv
  PROVE  /\ IsFiniteSet(Heap) /\ Heap \in SUBSET Objects
         /\ kept \in Seq(Objects) /\ rest \in Seq(Objects)
         /\ IsInjective(kept) /\ IsInjective(rest) /\ Range(kept) \cap Range(rest) = {}
<1>1. kept \in Seq(Objects) /\ rest \in Seq(Objects)
  BY DEF OrderInv, ListInv
<1>2. /\ IsFiniteSet(Range(kept)) /\ Range(kept) \in SUBSET Objects
      /\ IsFiniteSet(Range(rest)) /\ Range(rest) \in SUBSET Objects
  BY <1>1, FiniteRange
<1>3. IsFiniteSet(Heap) /\ Heap \in SUBSET Objects
  BY <1>2, FS_Union DEF Heap
<1> QED
  BY <1>1, <1>3 DEF OrderInv, ListInv

LEMMA SizeProgram ==
  ASSUME OrderInv, GarbageSize = SizeOf(Heap), Program
  PROVE  GarbageSize' = SizeOf(Heap')
<1>0. /\ IsFiniteSet(Heap) /\ Heap \in SUBSET Objects /\ rest \in Seq(Objects)
      /\ SizeOf(Heap) \in Nat
  BY ListSets, SizeWithout
<1>1. ASSUME NEW o \in Objects, AllocateObject(o)
      PROVE  GarbageSize' = SizeOf(Heap')
  <2>1. /\ kept' = kept /\ rest' = <<o>> \o rest /\ o \notin Heap
        /\ GarbageSize' = GarbageSize + Size[o]
    BY <1>1 DEF AllocateObject, Running
  <2>2. Range(rest') = {o} \cup Range(rest)
    <3>1. <<o>> \in Seq(Objects) /\ IsInjective(<<o>>) /\ Range(<<o>>) = {o}
      BY SingletonOnce
    <3>2. IsInjective(rest) /\ Range(<<o>>) \cap Range(rest) = {}
      BY <2>1, <3>1, ListSets DEF Heap
    <3> DEFINE one == <<o>>
    <3>3. /\ one \in Seq(Objects) /\ IsInjective(one) /\ Range(one) = {o}
          /\ Range(one) \cap Range(rest) = {} /\ rest' = one \o rest
      BY <2>1, <3>1, <3>2
    <3> HIDE DEF one
    <3> QED
      BY <1>0, <3>2, <3>3, ConcatOnce
  <2>3. Heap' = Heap \cup {o}
    BY <2>1, <2>2 DEF Heap
  <2> DEFINE H == Heap \cup {o}
  <2>4. H \in SUBSET Objects /\ IsFiniteSet(H) /\ o \in H /\ H \ {o} = Heap
    BY <1>0, <2>1, FS_AddElement
  <2> HIDE DEF H
  <2>5. SizeOf(H) = Size[o] + SizeOf(Heap)
    BY <2>4, SizeWithout
  <2>6. Size[o] \in Nat
    BY NumbersAssumption
  <2>7. Heap' = H
    BY <2>3 DEF H
  <2> QED
    BY <1>0, <2>1, <2>5, <2>6, <2>7
<1>2. ASSUME NEW m \in Modules, LoadBytecode(m)
      PROVE  GarbageSize' = SizeOf(Heap')
  <2> DEFINE fs == Script[m]
             N == {m} \cup Range(fs)
             back == Reverse(fs)
             one == <<m>>
  <2>1. /\ kept' = kept /\ rest' = (one \o back) \o rest /\ N \cap Heap = {}
        /\ GarbageSize' = GarbageSize + SizeOf(N)
    <3>1. rest' = <<m>> \o Reverse(fs) \o rest
      BY <1>2 DEF LoadBytecode
    <3> QED
      BY <1>2, <3>1 DEF LoadBytecode, Running, SizeOf
  <2>2. m \in Objects /\ fs \in Seq(Objects) /\ IsInjective(fs) /\ m \notin Range(fs)
    BY ScriptAssumption DEF Modules, Range
  <2>3. N \in SUBSET Objects /\ IsFiniteSet(N)
    <3>1. IsFiniteSet(Range(fs)) /\ Range(fs) \in SUBSET Objects
      BY <2>2, FiniteRange
    <3> HIDE DEF fs
    <3>2. IsFiniteSet(Range(fs) \cup {m})
      BY <3>1, FS_AddElement
    <3>3. N = Range(fs) \cup {m}
      OBVIOUS
    <3> QED
      BY <2>2, <3>1, <3>2, <3>3
  <2>4. Range(rest') = N \cup Range(rest)
    <3>1. back \in Seq(Objects) /\ IsInjective(back) /\ Range(back) = Range(fs)
      BY <2>2, ReverseOnce
    <3>2. one \in Seq(Objects) /\ IsInjective(one) /\ Range(one) = {m}
      BY <2>2, SingletonOnce
    <3> HIDE DEF one, back, fs
    <3>3. one \o back \in Seq(Objects) /\ IsInjective(one \o back) /\ Range(one \o back) = N
      BY <2>2, <3>1, <3>2, ConcatOnce
    <3> DEFINE front == one \o back
    <3>4. rest' = front \o rest /\ Range(front) \cap Range(rest) = {}
      BY <2>1, <3>3 DEF Heap
    <3>5. front \in Seq(Objects) /\ IsInjective(front) /\ Range(front) = N
      BY <3>3
    <3>6. IsInjective(rest)
      BY ListSets
    <3> HIDE DEF front, N
    <3> QED
      BY <1>0, <3>4, <3>5, <3>6, ConcatOnce
  <2> HIDE DEF N, one, back
  <2>5. Heap' = Heap \cup N
    BY <2>1, <2>4 DEF Heap
  <2>6. SizeOf(Heap \cup N) = SizeOf(Heap) + SizeOf(N)
    BY <1>0, <2>1, <2>3, SizeUnion
  <2> QED
    BY <2>1, <2>5, <2>6
<1>3. ASSUME kept' = kept, rest' = rest, GarbageSize' = GarbageSize
      PROVE  GarbageSize' = SizeOf(Heap')
  <2>1. Heap' = Heap
    BY <1>3 DEF Heap
  <2> QED
    BY <1>3, <2>1
<1>4. CASE \/ \E m \in Modules : Return(m)
           \/ \E t \in {"Stack", "Globals"}, o \in Objects : Take(t, o)
           \/ \E o \in Usable : \/ Call(o)
                                \/ \E t \in {"Stack", "Globals", "Constants"} : Put(t, o)
           \/ RemoveTemporaryModules
  BY <1>3, <1>4 DEF Return, Take, Call, Put, RemoveTemporaryModules, Running
<1>5. ASSUME NEW o, NEW p, NEW m,
             Store(o, m, p) \/ Drop(o, m, p) \/ TakeOut(o, p) \/ PutBack(o, p)
      PROVE  GarbageSize' = SizeOf(Heap')
  BY <1>3, <1>5 DEF Store, Drop, TakeOut, PutBack, Running
<1>6. CASE \E o, p \in Usable :
             \/ \E m \in MemberNames : Store(o, m, p) \/ Drop(o, m, p)
             \/ TakeOut(o, p) \/ PutBack(o, p)
  BY <1>5, <1>6
<1> QED
  BY <1>1, <1>2, <1>4, <1>6 DEF Program

LEMMA SizeCollector ==
  ASSUME OrderInv, GarbageSize = SizeOf(Heap), StartCollect \/ Collector
  PROVE  GarbageSize' = SizeOf(Heap')
<1>0. /\ IsFiniteSet(Heap) /\ Heap \in SUBSET Objects
      /\ kept \in Seq(Objects) /\ rest \in Seq(Objects)
      /\ IsInjective(kept) /\ IsInjective(rest) /\ Range(kept) \cap Range(rest) = {}
  BY ListSets
<1>1. ASSUME Heap' = Heap, GarbageSize' = GarbageSize
      PROVE  GarbageSize' = SizeOf(Heap')
  BY <1>1
<1>2. CASE StartCollect \/ StartSweep \/ \E o \in Objects : BlackenObject(o)
  <2>1. kept' = kept /\ rest' = rest /\ GarbageSize' = GarbageSize
    BY <1>2 DEF StartCollect, StartSweep, BlackenObject
  <2> QED
    BY <1>1, <2>1 DEF Heap
<1>3. CASE Keep
  <2> DEFINE o == Head(rest)
  <2>1. /\ rest # <<>> /\ kept' = Append(kept, o) /\ rest' = Tail(rest)
        /\ GarbageSize' = GarbageSize
    BY <1>3 DEF Keep
  <2>2. o \in Objects /\ Range(rest) = {o} \cup Range(Tail(rest))
    BY <1>0, <2>1, HeadTail
  <2> HIDE DEF o
  <2>3. Range(kept') = Range(kept) \cup {o}
    BY <1>0, <2>1, <2>2, AppendOnce
  <2>4. Heap' = Heap
    BY <2>1, <2>2, <2>3 DEF Heap
  <2> QED
    BY <1>1, <2>1, <2>4
<1>4. CASE DestroyObject
  <2> DEFINE o == Head(rest)
             R == Range(kept) \cup Range(Tail(rest))
  <2>1. /\ rest # <<>> /\ kept' = kept /\ rest' = Tail(rest)
        /\ GarbageSize' = GarbageSize - Size[o]
    BY <1>4 DEF DestroyObject
  <2>2. /\ o \in Objects /\ Range(rest) = {o} \cup Range(Tail(rest))
        /\ o \notin Range(Tail(rest))
    BY <1>0, <2>1, HeadTail
  <2> HIDE DEF o
  <2>3. o \in Heap /\ Heap \ {o} = R /\ Heap' = R
    BY <1>0, <2>1, <2>2 DEF Heap
  <2>4. SizeOf(Heap) = Size[o] + SizeOf(Heap \ {o})
    BY <1>0, <2>3, SizeWithout
  <2>5. Size[o] \in Nat /\ SizeOf(R) \in Nat
    <3>1. IsFiniteSet(R) /\ R \in SUBSET Objects
      BY <1>0, <2>3, FS_Subset
    <3> HIDE DEF R
    <3> QED
      BY <2>2, <3>1, SizeWithout, NumbersAssumption
  <2> HIDE DEF R
  <2>6. SizeOf(Heap) = Size[o] + SizeOf(R)
    BY <2>3, <2>4, Zenon
  <2> QED
    BY <2>1, <2>3, <2>5, <2>6
<1>5. CASE EndCollect
  <2>1. kept' = <<>> /\ rest' = kept /\ rest = <<>> /\ GarbageSize' = GarbageSize
    BY <1>5 DEF EndCollect
  <2>2. Range(kept') = {} /\ Range(rest) = {}
    BY <2>1, EmptyOnce
  <2>3. Heap' = Heap
    BY <2>1, <2>2 DEF Heap
  <2> QED
    BY <1>1, <2>1, <2>3
<1> QED
  BY <1>2, <1>3, <1>4, <1>5 DEF Collector

\* Through every allocation, load and sweep GarbageSize is the sum of the sizes of the
\* objects on the list: for every heap and program, with no further assumption.
THEOREM SizeCounted == Spec => []SizeOfHeap
<1>1. Init => SizeOfHeap
  <2> SUFFICES ASSUME Init
               PROVE  SizeOfHeap
    OBVIOUS
  <2>1. kept = <<>> /\ rest = BuiltinList /\ GarbageSize = SumFunctionOnSet(Size, Builtins)
    BY DEF Init
  <2>2. Heap = Builtins
    BY <2>1, EmptyOnce DEF Heap, Builtins
  <2> QED
    BY <2>1, <2>2 DEF SizeOfHeap
<1>2. OrderInv /\ SizeOfHeap /\ [Next]_vars => SizeOfHeap'
  <2> SUFFICES ASSUME OrderInv, SizeOfHeap, [Next]_vars
               PROVE  SizeOfHeap'
    OBVIOUS
  <2>1. GarbageSize = SizeOf(Heap)
    BY DEF SizeOfHeap, SizeOf
  <2>2. CASE UNCHANGED vars
    BY <2>2 DEF SizeOfHeap, Heap, vars
  <2>3. CASE Next
    <3>1. GarbageSize' = SizeOf(Heap')
      BY <2>1, <2>3, SizeProgram, SizeCollector DEF Next
    <3> QED
      BY <3>1 DEF SizeOfHeap, SizeOf
  <2> QED
    BY <2>2, <2>3
<1> QED
  BY <1>1, <1>2, AlwaysOrdered, PTL DEF Spec

=============================================================================

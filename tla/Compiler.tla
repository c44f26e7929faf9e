------------------------------- MODULE Compiler -------------------------------
(***************************************************************************)
(* The statement and declaration half of HSL/Compiler.cpp: scopes and the  *)
(* slots of local variables, jumps and their patching, the lists that      *)
(* collect break, continue, case and breakpoint positions, and nested      *)
(* functions.                                                              *)
(*                                                                         *)
(* The compiler is one pass of recursive descent that emits while it       *)
(* reads.  A function of the compiler that reads a statement inside        *)
(* another is two actions here, before and after it, and what it keeps in  *)
(* C++ locals in between is an entry of open.  The script is not an input: *)
(* each action reads one more statement of it, so that the behaviours are  *)
(* the scripts of at most MaxStatements statements.                        *)
(*                                                                         *)
(* Positions count instructions, not bytes; an expression is the one       *)
(* instruction that leaves its value on the stack; all names differ.       *)
(***************************************************************************)
EXTENDS Integers, Sequences, SequencesExt, FiniteSets

CONSTANTS
  Mixes,          \* bound: which statements and declarations one script uses together
  Bare,           \* the statements whose body is one statement without braces
  Usage,          \* doubtful things that scripts do (Sensible)
  LocalsMax,      \* the 0xFF of AddLocal
  MaxStatements,  \* bound: statements of a script, without labels
  MaxLabels,      \* bound: case and default labels of a script
  MaxFunctions,   \* bound: functions of a script, its top level included
  MaxParameters   \* bound: parameters of a function

Kinds == UNION Mixes
Loops == {"While", "DoWhile", "For", "ForVar", "ForEach", "Repeat", "RepeatVar", "With"}
Labels == {"Case", "Default"}
Members == {"Method", "Constructor", "Property"}
Declarations == {"Var", "Enum", "UnnamedEnum", "Event", "Class"}
Simple == {"Expression", "Break", "Continue", "Return", "Breakpoint"}

ASSUME KindsAssumption ==
  /\ Kinds \subseteq Loops \cup Labels \cup Members \cup Declarations \cup Simple
                       \cup {"Block", "If", "Switch"}
  /\ Bare \subseteq Kinds /\ Usage \subseteq Kinds
  /\ \A n \in {LocalsMax, MaxStatements, MaxLabels, MaxFunctions, MaxParameters} : n \in Nat
  /\ LocalsMax > MaxParameters

VARIABLES
  compilers,   \* the Compiler objects at work, the innermost function last
  breaks,      \* BreakJumpListStack with BreakScopeStack
  continues,   \* ContinueJumpListStack with ContinueScopeStack
  switches,    \* SwitchJumpListStack with SwitchScopeStack
  marks,       \* BreakpointListStack
  chunks,      \* Compiler::Functions: the chunks of the finished functions
  tree         \* auxiliary: what stands at each place of the script

cvars == <<compilers, breaks, continues, switches, marks, chunks, tree>>

(***************************************************************************)
(* Places and instructions.  A place is a path into the script: <<f>> is   *)
(* the f-th function, and a path is extended by the number of a statement  *)
(* in a list or of a part of a statement.                                  *)
(***************************************************************************)
Initializer == 0
Condition == 1
Body == 2
Else == 3
Again == 3     \* a for's increment, or what a loop without condition does between rounds

Part(p, i) == Append(p, i)

\* of is the variable an instruction leaves on the stack or reaches in a slot,
\* or the with statement it belongs to; place and vars (auxiliary) the place
\* whose evaluation starts with it and the locals the compiler has there; marks
\* (auxiliary) the breakpoint statements it follows.
Temp == <<>>
I(op) == [op |-> op, arg |-> 0, slot |-> 0, of |-> Temp, place |-> <<>>, vars |-> <<>>,
          marks |-> {}]
Value == I("Value")
Jump == I("Jump")
JumpIfFalse == I("JumpIfFalse")
Pop(n) == [I("Pop") EXCEPT !.arg = n]
Making(i, v) == [i EXCEPT !.of = v]
Placed(i, p) == [i EXCEPT !.place = p]
At(p) == Placed(Value, p)
Local(op, c, v) ==
  [I(op) EXCEPT !.of = v, !.slot = CHOOSE s \in 0 .. Len(c.locals) - 1 : c.locals[s + 1].id = v]

(***************************************************************************)
(* One Compiler object.                                                    *)
(***************************************************************************)
Top == Last(compilers)
Entry == Last(Top.open)
Here == Part(Entry.at, Entry.next)
Ids(c) == [i \in DOMAIN c.locals |-> c.locals[i].id]
Size(c) == Len(c.code)

NewCompiler(f, type, depth, params) ==
  [fn |-> f, type |-> type, depth |-> depth, params |-> params, code |-> <<>>,
   locals |-> [i \in 1 .. params + 1 |->
                 [id |-> IF i = 1 THEN <<f>> ELSE <<f, 0, i>>, depth |-> depth]],
   open |-> <<[kind |-> "Function", at |-> <<f>>, next |-> 1, full |-> FALSE,
               start |-> 0, exit |-> 0]>>,
   breakpoints |-> <<>>, pending |-> {}]

HasThis(c) == c.type \in {"Method", "Constructor"}

Emit(c, s) ==
  IF s = <<>> THEN c
  ELSE [c EXCEPT !.pending = {},
                 !.code = @ \o [i \in DOMAIN s |->
                   [s[i] EXCEPT !.vars = IF s[i].place = <<>> THEN <<>> ELSE Ids(c),
                                !.marks = IF i = 1 THEN c.pending ELSE {}]]]

PatchJumps(c, jumps) ==
  [c EXCEPT !.code = [i \in DOMAIN @ |->
     IF i \in jumps THEN [@[i] EXCEPT !.arg = Size(c) - i] ELSE @[i]]]
PatchJump(c, jump) == PatchJumps(c, {jump})

EmitLoop(c, start) == Emit(c, <<[I("JumpBack") EXCEPT !.arg = Size(c) + 1 - start]>>)

AddLocal(c, v, depth) == [c EXCEPT !.locals = Append(@, [id |-> v, depth |-> depth])]
AddHiddenLocal(c, v) == AddLocal(c, v, c.depth)
DeclareVariable(c, v, depth) == IF c.depth = 0 THEN c ELSE AddLocal(c, v, depth)

\* The locals that ClearToScope and PopToScope count from the end; one that was
\* declared and never initialized has depth -1 and ends the count.
Above(c, depth) ==
  CHOOSE n \in 0 .. Len(c.locals) :
    /\ \A i \in Len(c.locals) - n + 1 .. Len(c.locals) : c.locals[i].depth > depth
    /\ n = Len(c.locals) \/ c.locals[Len(c.locals) - n].depth <= depth
PopMultiple(n) == IF n = 0 THEN <<>> ELSE <<Pop(n)>>
PopToScopeNot(c, depth) == <<>>
PopToScope(c, depth) == PopMultiple(Above(c, depth))

ScopeBegin(c) == [c EXCEPT !.depth = @ + 1]
ScopeEnd(c) ==
  LET n == Above(c, c.depth - 1)
  IN  Emit([c EXCEPT !.depth = @ - 1, !.locals = SubSeq(@, 1, Len(@) - n)], PopMultiple(n))

DefineVariable(c) == IF c.depth = 0 THEN Emit(c, <<I("Define")>>) ELSE c
EmitReturn(c) == <<IF c.type = "Constructor" THEN Local("GetLocal", c, <<c.fn>>) ELSE Value,
                   I("Return")>>

(***************************************************************************)
(* What may stand where.                                                   *)
(***************************************************************************)
Lists == {"Function", "Block", "Body", "Cases"}
Breakable == {i \in DOMAIN Top.open : Top.open[i].kind \in Loops \cup {"Cases"}}
Count(kinds) == Cardinality({p \in DOMAIN tree : tree[p] \in kinds})

\* GetStatement, or GetDeclaration in a list, or a member of a class.
Awaited(kind) ==
  /\ compilers # <<>>
  /\ \E mix \in Mixes : kind \in mix /\ \A p \in DOMAIN tree : tree[p] \in Kinds => tree[p] \in mix
  /\ IF kind \in Members THEN Entry.kind = "Class"
     ELSE IF Entry.kind \in Lists THEN TRUE
     ELSE Entry.kind # "Class" /\ ~Entry.full /\ kind \notin Declarations \cup {"Block"}
  /\ IF kind \in Labels THEN Count(Labels) < MaxLabels
     ELSE Count(Kinds \ Labels) < MaxStatements
  /\ kind \in {"Event", "Method", "Constructor"} => Count({"Function"}) < MaxFunctions

NewLocals(kind) ==
  CASE kind \in {"Var", "Enum", "Class", "Property"} -> IF Top.depth = 0 THEN 0 ELSE 1
    [] kind \in {"ForVar", "Repeat", "With"} -> 1
    [] kind = "RepeatVar" -> 2
    [] kind = "ForEach" -> 3
    [] OTHER -> 0

NoDefault == -1

\* The calls of Error.
Refused(kind) ==
  \/ kind = "Break" /\ breaks = <<>>
  \/ kind = "Continue" /\ continues = <<>>
  \/ kind \in Labels /\ switches = <<>>
  \/ kind = "Default" /\ switches # <<>> /\ Last(switches).default # NoDefault
  \/ kind = "Return" /\ Top.type = "Main"
  \/ kind = "Var" /\ switches # <<>> /\ Last(switches).scope = Top.depth
  \/ kind = "ForVar" /\ switches # <<>> /\ Last(switches).scope = Top.depth + 1
  \/ Len(Top.locals) + NewLocals(kind) > LocalsMax

\* What the compiler accepts and does not compile to what it says.
Sensible(kind) ==
  CASE kind = "Break" -> Breakable # {}
    [] kind = "Continue" ->
         \E i \in Breakable : Top.open[i].kind \in Loops /\ \A j \in Breakable : j <= i
    [] kind \in Labels -> Entry.kind = "Cases"
    [] kind = "Breakpoint" -> Cardinality({i \in Breakable : Top.open[i].kind = "Cases"}) <= 1
    [] kind \in {"Enum", "Class"} -> Entry.kind # "Cases"
    [] kind \in {"UnnamedEnum", "Property"} -> Top.depth = 0
    [] OTHER -> TRUE

Expected(kind) == Awaited(kind) /\ ~Refused(kind) /\ (Sensible(kind) \/ kind \in Usage)

(***************************************************************************)
(* Reading a statement: p is its place, c the compiler after what was      *)
(* emitted.                                                                *)
(***************************************************************************)
Put(c) == compilers' = Append(Front(compilers), c)
Each(keys, x) == [k \in keys |-> x]
Over(new, old) ==
  [x \in DOMAIN new \cup DOMAIN old |-> IF x \in DOMAIN new THEN new[x] ELSE old[x]]
Note(places) == tree' = Over(places, tree)

\* The statement under way is read to its end.
Advance(c) == LET n == Len(c.open)
              IN  [c EXCEPT !.open[n].next = @ + 1, !.open[n].full = TRUE]
Leave(c) == Advance([c EXCEPT !.open = Front(@)])

Enter(c, kind, p, next, start, exit) ==
  [c EXCEPT !.open = Append(@, [kind |-> kind, at |-> p, next |-> next, full |-> FALSE,
                                start |-> start, exit |-> exit])]

\* GetStatement for the part of a statement that has a body: a block, or what
\* comes next.
EnterPart(c, kind, p) ==
  IF kind \in Bare THEN c ELSE Enter(ScopeBegin(c), "Body", p, 1, 0, 0)
PartNote(kind, p) == Each(IF kind \in Bare THEN {} ELSE {p}, "Body")

EnterBody(c, kind, p, start, exit) ==
  EnterPart(Enter(c, kind, p, Body, start, exit), kind, Part(p, Body))
BodyNote(kind, p, parts) ==
  Over(Each({p}, kind), Over(PartNote(kind, Part(p, Body)), Each(parts, "Part")))

StartBreakJumpList(depth) == breaks' = Append(breaks, [scope |-> depth, jumps |-> {}])
StartContinueJumpList(depth) == continues' = Append(continues, [scope |-> depth, jumps |-> {}])
StartLists(depth) == StartBreakJumpList(depth) /\ StartContinueJumpList(depth)
EndContinueJumpList(c) == PatchJumps(c, Last(continues).jumps)
EndBreakJumpList(c) == PatchJumps(c, Last(breaks).jumps)
DropLists == breaks' = Front(breaks) /\ continues' = Front(continues)

(***************************************************************************)
(* Statements without a body.                                              *)
(***************************************************************************)
GetExpressionStatement ==
  /\ Expected("Expression")
  /\ Put(Advance(Emit(Top, <<At(Here), Pop(1)>>)))
  /\ Note(Each({Here}, "Expression"))
  /\ UNCHANGED <<breaks, continues, switches, marks, chunks>>

GetBreakStatement ==
  /\ Expected("Break")
  /\ LET s == PopToScope(Top, Last(breaks).scope) \o <<Jump>>
     IN  /\ Put(Advance(Emit(Top, <<Placed(Head(s), Here)>> \o Tail(s))))
         /\ breaks' = [breaks EXCEPT ![Len(breaks)].jumps = @ \cup {Size(Top) + Len(s)}]
  /\ Note(Each({Here}, "Break"))
  /\ UNCHANGED <<continues, switches, marks, chunks>>

GetContinueStatement ==
  /\ Expected("Continue")
  /\ LET s == PopToScope(Top, Last(continues).scope) \o <<Jump>>
     IN  /\ Put(Advance(Emit(Top, <<Placed(Head(s), Here)>> \o Tail(s))))
         /\ continues' = [continues EXCEPT ![Len(continues)].jumps = @ \cup {Size(Top) + Len(s)}]
  /\ Note(Each({Here}, "Continue"))
  /\ UNCHANGED <<breaks, switches, marks, chunks>>

GetReturnStatement ==
  /\ Expected("Return")
  /\ LET s == EmitReturn(Top)
     IN  Put(Advance(Emit(Top, <<Placed(s[1], Here), s[2]>>)))
  /\ Note(Each({Here}, "Return"))
  /\ UNCHANGED <<breaks, continues, switches, marks, chunks>>

GetBreakpointStatementPast ==
  /\ Expected("Breakpoint")
  /\ Put(Advance([Top EXCEPT !.pending = @ \cup {Here}]))
  /\ marks' = [marks EXCEPT ![Len(marks)] = Append(@, [at |-> Size(Top) + 1, of |-> Here])]
  /\ Note(Each({Here}, "Breakpoint"))
  /\ UNCHANGED <<breaks, continues, switches, chunks>>

\* AddBreakpoint: the position of what will be emitted next.
GetBreakpointStatement ==
  /\ Expected("Breakpoint")
  /\ Put(Advance([Top EXCEPT !.pending = @ \cup {Here}]))
  /\ marks' = [marks EXCEPT ![Len(marks)] = Append(@, [at |-> Size(Top), of |-> Here])]
  /\ Note(Each({Here}, "Breakpoint"))
  /\ UNCHANGED <<breaks, continues, switches, chunks>>

\* The code of the label's expression is taken out of the chunk again.
GetCaseStatement ==
  /\ Expected("Case")
  /\ Put(Advance(Top))
  /\ switches' = [switches EXCEPT ![Len(switches)].cases =
       Append(@, [at |-> Size(Top), code |-> [At(Here) EXCEPT !.vars = Ids(Top)]])]
  /\ Note(Each({Here}, "Case"))
  /\ UNCHANGED <<breaks, continues, marks, chunks>>

GetDefaultStatement ==
  /\ Expected("Default")
  /\ Put(Advance(Top))
  /\ switches' = [switches EXCEPT ![Len(switches)].default = Size(Top)]
  /\ Note(Each({Here}, "Default"))
  /\ UNCHANGED <<breaks, continues, marks, chunks>>

(***************************************************************************)
(* Declarations without a body.                                            *)
(***************************************************************************)
Variable(c, p) ==
  DefineVariable(DeclareVariable(Emit(c, <<Making(At(p), p)>>), p, c.depth))

GetVariableDeclaration ==
  /\ Expected("Var")
  /\ Put(Advance(Variable(Top, Here)))
  /\ Note(Each({Here}, "Var"))
  /\ UNCHANGED <<breaks, continues, switches, marks, chunks>>

\* An enumeration of one constant.  In a scope, only that of a named one is
\* taken off the stack.
GetEnumDeclaration(kind) ==
  LET first == Emit(Top, <<Making(Placed(I("NewEnum"), Here), Here)>>)
      named == DefineVariable(DeclareVariable(first, Here, Top.depth))
      saved == <<Value, I("Copy"), I("SaveValue")>>
  IN  /\ Expected(kind)
      /\ Put(Advance(
           CASE kind = "Enum" /\ Top.depth = 0 ->
                  Emit(named, <<Value>> \o saved \o <<I("AddEnum"), Pop(1)>>)
             [] kind = "Enum" /\ Top.depth # 0 -> Emit(named, saved \o <<I("AddEnum")>>)
             [] kind = "UnnamedEnum" ->
                  DefineVariable(Emit(Top, <<At(Here)>> \o Tail(saved)))))
      /\ Note(Each({Here}, kind))
      /\ UNCHANGED <<breaks, continues, switches, marks, chunks>>

\* A static member is declared as if it were a variable.
GetPropertyDeclaration ==
  /\ Expected("Property")
  /\ Put(Advance(Emit(DeclareVariable(Top, Here, -1),
                      <<At(Here), Value, I("SetProperty"), Pop(1)>>)))
  /\ Note(Each({Here}, "Property"))
  /\ UNCHANGED <<breaks, continues, switches, marks, chunks>>

(***************************************************************************)
(* Blocks and conditional statements.                                      *)
(***************************************************************************)
OpenBlock ==
  /\ Expected("Block")
  /\ Put(Enter(ScopeBegin(Top), "Block", Here, 1, 0, 0))
  /\ Note(Each({Here}, "Block"))
  /\ UNCHANGED <<breaks, continues, switches, marks, chunks>>

CloseBlock ==
  /\ compilers # <<>> /\ Entry.kind \in {"Block", "Body"}
  /\ Put(Leave(ScopeEnd(Top)))
  /\ UNCHANGED <<breaks, continues, switches, marks, chunks, tree>>

Closing(kind) == compilers # <<>> /\ Entry.kind = kind /\ Entry.full

OpenIf ==
  /\ Expected("If")
  /\ LET c == Emit(Top, <<At(Part(Here, Condition)), JumpIfFalse, Pop(1)>>)
     IN  Put(EnterBody(c, "If", Here, 0, Size(c) - 1))
  /\ Note(BodyNote("If", Here, {Part(Here, Condition)}))
  /\ UNCHANGED <<breaks, continues, switches, marks, chunks>>

CloseThen(else) ==
  /\ Closing("If")
  /\ LET c == Emit(PatchJump(Emit(Top, <<Jump>>), Entry.exit), <<Pop(1)>>)
         p == Part(Entry.at, Else)
         rest == [c EXCEPT !.open = Append(Front(@),
                    [Entry EXCEPT !.kind = "Else", !.full = FALSE, !.exit = Size(c) - 1])]
     IN  IF else THEN /\ Put(EnterPart(rest, "If", p))
                      /\ Note(PartNote("If", p))
         ELSE /\ Put(Leave(PatchJump(c, Size(c) - 1)))
              /\ tree' = tree
  /\ UNCHANGED <<breaks, continues, switches, marks, chunks>>

CloseElse ==
  /\ Closing("Else")
  /\ Put(Leave(PatchJump(Top, Entry.exit)))
  /\ UNCHANGED <<breaks, continues, switches, marks, chunks, tree>>

(***************************************************************************)
(* Loops.                                                                  *)
(***************************************************************************)
OpenWhile ==
  /\ Expected("While")
  /\ LET c == Emit(Top, <<At(Part(Here, Condition)), JumpIfFalse, Pop(1)>>)
     IN  Put(EnterBody(c, "While", Here, Size(Top), Size(c) - 1))
  /\ StartLists(Top.depth)
  /\ Note(BodyNote("While", Here, {Part(Here, Condition)}))
  /\ UNCHANGED <<switches, marks, chunks>>

CloseWhileLateContinue ==
  /\ Closing("While")
  /\ LET out == Emit(PatchJump(EmitLoop(Top, Entry.start), Entry.exit), <<Pop(1)>>)
     IN  Put(Leave(EndBreakJumpList(EndContinueJumpList(out))))
  /\ DropLists
  /\ UNCHANGED <<switches, marks, chunks, tree>>

CloseWhile ==
  /\ Closing("While")
  /\ LET looped == EmitLoop(EndContinueJumpList(Top), Entry.start)
         out == Emit(PatchJump(looped, Entry.exit), <<Pop(1)>>)
     IN  Put(Leave(EndBreakJumpList(out)))
  /\ DropLists
  /\ UNCHANGED <<switches, marks, chunks, tree>>

OpenDoWhile ==
  /\ Expected("DoWhile")
  /\ Put(EnterBody(Top, "DoWhile", Here, Size(Top), 0))
  /\ StartLists(Top.depth)
  /\ Note(BodyNote("DoWhile", Here, {}))
  /\ UNCHANGED <<switches, marks, chunks>>

CloseDoWhile ==
  /\ Closing("DoWhile")
  /\ LET p == Part(Entry.at, Condition)
         test == Emit(EndContinueJumpList(Top), <<At(p), JumpIfFalse, Pop(1)>>)
         out == Emit(PatchJump(EmitLoop(test, Entry.start), Size(test) - 1), <<Pop(1)>>)
     IN  Put(Leave(EndBreakJumpList(out))) /\ Note(Each({p}, "Part"))
  /\ DropLists
  /\ UNCHANGED <<switches, marks, chunks>>

\* for (initializer; condition; increment), one of the last two present.
OpenFor(kind, condition, increment) ==
  LET p == Here
      begun == ScopeBegin(Top)
      first == IF kind = "ForVar" THEN Variable(begun, Part(p, Initializer)) ELSE begun
      test == IF condition
              THEN Emit(first, <<At(Part(p, Condition)), JumpIfFalse, Pop(1)>>) ELSE first
      n == Size(test)
      step == PatchJump(EmitLoop(Emit(test, <<Jump, At(Part(p, Again)), Pop(1)>>), Size(first)),
                        n + 1)
  IN  /\ Expected(kind) /\ (condition \/ increment)
      /\ Put(IF increment THEN EnterBody(step, kind, p, n + 1, IF condition THEN n - 1 ELSE 0)
                          ELSE EnterBody(test, kind, p, Size(first), n - 1))
      /\ StartLists(begun.depth)
      /\ Note(BodyNote(kind, p, (IF kind = "ForVar" THEN {Part(p, Initializer)} ELSE {})
                                  \cup (IF condition THEN {Part(p, Condition)} ELSE {})
                                  \cup (IF increment THEN {Part(p, Again)} ELSE {})))
      /\ UNCHANGED <<switches, marks, chunks>>

CloseFor ==
  /\ Closing("For") \/ Closing("ForVar")
  /\ LET looped == EmitLoop(EndContinueJumpList(Top), Entry.start)
         out == IF Entry.exit = 0 THEN looped
                ELSE Emit(PatchJump(looped, Entry.exit), <<Pop(1)>>)
     IN  Put(Leave(ScopeEnd(EndBreakJumpList(out))))
  /\ DropLists
  /\ UNCHANGED <<switches, marks, chunks, tree>>

\* Two hidden locals hold what is iterated and how far; the variable lives in a
\* scope of its own.
OpenForEach ==
  LET p == Here
      object == Part(p, Condition)
      state == Part(p, Again)
      begun == ScopeBegin(Top)
      c1 == AddHiddenLocal(Emit(begun, <<Making(At(object), object)>>), object)
      c2 == AddHiddenLocal(Emit(c1, <<Making(Value, state)>>), state)
      get == <<Local("GetLocal", c2, object), Local("GetLocal", c2, state)>>
      c3 == Emit(c2, <<Placed(get[1], state), get[2], I("Call"), Local("SetLocal", c2, state),
                       Value, I("Equal"), JumpIfFalse, Pop(1)>>
                     \o get \o <<Making(I("Call"), p)>>)
      c4 == AddHiddenLocal(ScopeBegin(c3), p)
  IN  /\ Expected("ForEach")
      /\ Put(EnterBody(c4, "ForEach", p, Size(c2), Size(c2) + 7))
      /\ StartLists(begun.depth)
      /\ Note(BodyNote("ForEach", p, {object, state}))
      /\ UNCHANGED <<switches, marks, chunks>>

CloseForEach ==
  /\ Closing("ForEach")
  /\ LET looped == EmitLoop(EndContinueJumpList(ScopeEnd(Top)), Entry.start)
         out == Emit(PatchJump(looped, Entry.exit), <<Pop(1)>>)
     IN  Put(Leave(ScopeEnd(EndBreakJumpList(out))))
  /\ DropLists
  /\ UNCHANGED <<switches, marks, chunks, tree>>

\* The count is a hidden local that each round decrements; with a variable, that
\* variable lies above it and the round works on a copy.
OpenRepeat(kind) ==
  LET p == Here
      count == Part(p, Condition)
      begun == ScopeBegin(Top)
      c1 == Emit(AddHiddenLocal(Emit(begun, <<Making(At(count), count)>>), count),
                 <<I("Change")>>)
      c2 == AddHiddenLocal(Emit(c1, <<Making(Value, p)>>), p)
      plain == Emit(c1, <<Placed(I("Change"), Part(p, Again)), JumpIfFalse>>)
      named == Emit(c2, <<Placed(Local("GetLocal", c2, count), Part(p, Again)), I("Change"),
                          JumpIfFalse, Local("SetLocal", c2, count), Pop(1), I("Change")>>)
  IN  /\ Expected(kind)
      /\ Put(IF kind = "Repeat" THEN EnterBody(plain, kind, p, Size(c1), Size(plain))
                                ELSE EnterBody(named, kind, p, Size(c2), Size(c2) + 3))
      /\ StartLists(begun.depth)
      /\ Note(BodyNote(kind, p, {count, Part(p, Again)}))
      /\ UNCHANGED <<switches, marks, chunks>>

CloseRepeat ==
  /\ Closing("Repeat") \/ Closing("RepeatVar")
  /\ LET looped == EmitLoop(EndContinueJumpList(Top), Entry.start)
         out == Emit(PatchJump(looped, Entry.exit),
                     IF Entry.kind = "RepeatVar" THEN <<Pop(1)>> ELSE <<>>)
     IN  Put(Leave(ScopeEnd(EndBreakJumpList(out))))
  /\ DropLists
  /\ UNCHANGED <<switches, marks, chunks, tree>>

\* The slot of "other" (or of the name after "as") receives the objects one
\* after the other; in a method without "as" it keeps "this", whose slot does.
OpenWith(as) ==
  LET p == Here
      begun == ScopeBegin(Top)
      c1 == AddHiddenLocal(Emit(begun, <<Making(Value, p)>>), p)
      c2 == IF HasThis(Top)
            THEN Emit(c1, <<Local("GetLocal", c1, <<Top.fn>>), Local("SetLocal", c1, p), Pop(1)>>)
            ELSE c1
      owner == IF as \/ ~HasThis(Top) THEN p ELSE <<Top.fn>>
      c3 == Emit(c2, <<At(Part(p, Condition)),
                       [Local("WithInit", c2, owner) EXCEPT !.of = p]>>)
  IN  /\ Expected("With")
      /\ Put(EnterBody(c3, "With", p, Size(c3), Size(c3)))
      /\ StartLists(begun.depth)
      /\ Note(BodyNote("With", p, {Part(p, Condition), Part(p, Again)}))
      /\ UNCHANGED <<switches, marks, chunks>>

CloseWith ==
  /\ Closing("With")
  /\ LET p == Entry.at
         c1 == EndContinueJumpList(Top)
         c2 == Emit(c1, <<[Placed(I("WithIterate"), Part(p, Again)) EXCEPT
                             !.of = p, !.arg = Size(c1) + 1 - Entry.start]>>)
         c3 == Emit(EndBreakJumpList(c2), <<[I("WithFinish") EXCEPT !.of = p]>>)
     IN  Put(Leave(ScopeEnd(PatchJump(c3, Entry.exit))))
  /\ DropLists
  /\ UNCHANGED <<switches, marks, chunks, tree>>

(***************************************************************************)
(* Switch.  The body is compiled first, then taken out of the chunk, and   *)
(* put back behind the tests of its labels; every position in the body     *)
(* that is still waiting moves with it.                                    *)
(***************************************************************************)
OpenSwitch ==
  LET p == Here
      c == Emit(Top, <<At(Part(p, Condition))>>)
  IN  /\ Expected("Switch")
      /\ Put(Enter(ScopeBegin(Enter(c, "Switch", p, Body, 0, 0)), "Cases", Part(p, Body), 1, Size(c), 0))
      /\ StartLists(Top.depth)
      /\ switches' = Append(switches, [scope |-> Top.depth + 1, cases |-> <<>>, default |-> NoDefault])
      /\ marks' = Append(marks, <<>>)
      /\ Note(Over(Each({p}, "Switch"), Over(Each({Part(p, Condition)}, "Part"),
                                             Each({Part(p, Body)}, "Cases"))))
      /\ UNCHANGED chunks

\* What tests one label: the value is popped when it matches.
Test(case) == <<I("Copy"), case.code, I("Equal"), [JumpIfFalse EXCEPT !.arg = 2], Pop(2), Jump, Pop(1)>>
TestLength == 7
TestJump == 6

\* The tests, from start on, of labels whose code moves on by offset.
Tests(cases, start, offset) ==
  LET jumpOf(i) == start + TestLength * (i - 1) + TestJump
      test(i) == [Test(cases[i]) EXCEPT ![TestJump].arg = cases[i].at + offset - jumpOf(i)]
  IN  [n \in 1 .. TestLength * Len(cases) |->
         test(((n - 1) \div TestLength) + 1)[((n - 1) % TestLength) + 1]]

CloseSwitch ==
  LET c == ScopeEnd(Top)
      start == Entry.start
      cases == Last(switches).cases
      default == Last(switches).default
      offset == TestLength * Len(cases) + 2
      block == SubSeq(c.code, start + 1, Size(c))
      exit == [Jump EXCEPT !.arg = (IF default = NoDefault THEN Size(c) ELSE default) - start]
      moved == [c EXCEPT !.code = SubSeq(@, 1, start) \o Tests(cases, start, offset)
                                    \o <<Pop(1), exit>> \o block]
      shift(jumps) == {j + offset : j \in jumps}
      patched == PatchJumps(moved, shift(Last(continues).jumps) \cup shift(Last(breaks).jumps))
      found == [i \in DOMAIN Last(marks) |-> [Last(marks)[i] EXCEPT !.at = @ + offset]]
      outer == [patched EXCEPT !.open = Front(@), !.breakpoints = @ \o found]
  IN  /\ compilers # <<>> /\ Entry.kind = "Cases"
      /\ Put(Leave(outer))
      /\ DropLists
      /\ switches' = Front(switches)
      /\ marks' = Front(marks)
      /\ UNCHANGED <<chunks, tree>>

(***************************************************************************)
(* Functions and classes.                                                  *)
(***************************************************************************)
NextFunction == Count({"Function"}) + 1
FunctionNote(f) == Over(Each({<<f>>}, "Function"), Each({<<f, 0>>}, "End"))

\* GetFunction up to the body.  The lists of the functions around stay in place.
OpenFunction(c, type, params) ==
  /\ compilers' = Append(Append(Front(compilers), c), NewCompiler(NextFunction, type, 1, params))
  /\ marks' = Append(marks, <<>>)
  /\ Note(Over(Each({Here}, type), FunctionNote(NextFunction)))
  /\ UNCHANGED <<breaks, continues, switches, chunks>>

GetEventDeclaration(params) ==
  Expected("Event") /\ OpenFunction(Top, "Event", params)

GetMethod(type, params) ==
  /\ type \in {"Method", "Constructor"} /\ Expected(type)
  /\ OpenFunction(Emit(Top, <<At(Here)>>), type, params)

Finish(c) ==
  LET s == EmitReturn(c)
      done == Emit(c, <<Placed(s[1], <<c.fn, 0>>), s[2]>>)
  IN  [code |-> done.code, breakpoints |-> c.breakpoints \o Last(marks),
       locals |-> SubSeq(Ids(c), 1, c.params + 1)]

\* The end of a function's body, or of the file, whose functions are then complete.
CloseFunction ==
  /\ compilers # <<>> /\ Entry.kind = "Function"
  /\ chunks' = Over(Each({Top.fn}, Finish(Top)), chunks)
  /\ marks' = Front(marks)
  /\ IF Len(compilers) = 1 THEN compilers' = <<>>
     ELSE LET outer == compilers[Len(compilers) - 1]
              after == IF Top.type = "Event"
                       THEN <<At(Part(Last(outer.open).at, Last(outer.open).next)), I("Define")>>
                       ELSE <<I("DefineMethod")>>
          IN  compilers' = Append(SubSeq(compilers, 1, Len(compilers) - 2),
                                  Advance(Emit(outer, after)))
  /\ UNCHANGED <<breaks, continues, switches, tree>>

OpenClass ==
  /\ Expected("Class")
  /\ LET c == DefineVariable(DeclareVariable(Emit(Top, <<Making(At(Here), Here)>>), Here, Top.depth))
     IN  Put(Enter(c, "Class", Here, 1, 0, 0))
  /\ Note(Each({Here}, "Class"))
  /\ UNCHANGED <<breaks, continues, switches, marks, chunks>>

CloseClass ==
  /\ compilers # <<>> /\ Entry.kind = "Class"
  /\ Put(Leave(Top))
  /\ UNCHANGED <<breaks, continues, switches, marks, chunks, tree>>

(***************************************************************************)
(* An error ends the compilation: each Compiler on the way out runs        *)
(* Cleanup, the functions are deleted, and the next script begins.         *)
(***************************************************************************)
File == <<NewCompiler(1, "Main", 0, 0)>>
EmptyFile == FunctionNote(1)

Init ==
  /\ compilers = File /\ marks = <<<<>>>> /\ chunks = <<>> /\ tree = EmptyFile
  /\ breaks = <<>> /\ continues = <<>> /\ switches = <<>>

Error(kind) ==
  /\ Awaited(kind) /\ Refused(kind)
  /\ compilers' = File /\ marks' = <<<<>>>> /\ chunks' = <<>> /\ tree' = EmptyFile
  /\ breaks' = <<>> /\ continues' = <<>> /\ switches' = <<>>

Read ==
  \/ GetExpressionStatement \/ GetBreakStatement \/ GetContinueStatement
  \/ GetReturnStatement \/ GetBreakpointStatement \/ GetCaseStatement \/ GetDefaultStatement
  \/ GetVariableDeclaration \/ GetPropertyDeclaration
  \/ \E kind \in {"Enum", "UnnamedEnum"} : GetEnumDeclaration(kind)
  \/ OpenBlock \/ CloseBlock
  \/ OpenIf \/ (\E else \in BOOLEAN : CloseThen(else)) \/ CloseElse
  \/ OpenWhile \/ CloseWhile \/ OpenDoWhile \/ CloseDoWhile
  \/ \E kind \in {"For", "ForVar"}, condition, increment \in BOOLEAN :
       OpenFor(kind, condition, increment)
  \/ CloseFor
  \/ OpenForEach \/ CloseForEach
  \/ (\E kind \in {"Repeat", "RepeatVar"} : OpenRepeat(kind)) \/ CloseRepeat
  \/ (\E as \in BOOLEAN : OpenWith(as)) \/ CloseWith
  \/ OpenSwitch \/ CloseSwitch
  \/ \E params \in 0 .. MaxParameters :
       GetEventDeclaration(params) \/ \E type \in {"Method", "Constructor"} : GetMethod(type, params)
  \/ CloseFunction \/ OpenClass \/ CloseClass
  \/ \E kind \in Kinds : Error(kind)
=============================================================================

------------------------------- MODULE Debugger -------------------------------
(***************************************************************************)
(* Breakpoints, the debugger's prompt and code typed at it                 *)
(* (HSL/VMThreadDebugger.cpp, HSL/ScriptREPL.cpp, the debugging part of    *)
(* HSL/VMThread.cpp, Main.cpp).                                            *)
(*                                                                         *)
(* A debugger is a C++ activation in the middle of RunInstruction.  Its    *)
(* commands change the breakpoints, execute instructions of the suspended  *)
(* program themselves, or run a new script in a frame on top of it; that   *)
(* script may hit a breakpoint and open a debugger of its own.  All of     *)
(* them share FrameCount, ReturnFrame and the lists of modules.            *)
(*                                                                         *)
(* Values are left out.  A function is its instructions, a position in it  *)
(* the number of instructions before it.  The list of breakpoints is in    *)
(* the order of their indices, since an index is never used twice: here it *)
(* is a function on the indices.                                           *)
(***************************************************************************)
EXTENDS Integers, Sequences, SequencesExt, FiniteSets

CONSTANTS
  main,            \* the main function of the program
  Functions,       \* the functions of the program's module, main among them
  Typed,           \* the scripts that may be typed, one function each
  Addresses,       \* where functions of typed scripts may be allocated
  Free,            \* an address that holds no function
  Body,            \* the instructions of a function: [op, to]
  Column,          \* the column an instruction comes from
  Statements,      \* the program's breakpoint statements [fn, offset], in order
  Marks,           \* positions of the breakpoint statements of a typed script
  MaxFrames,       \* FRAMES_MAX
  MaxBreakpoints,  \* bound: breakpoints ever made
  MaxHost,         \* bound: loops and debuggers below typed code
  Starts,          \* how the hsl program may be started
  Registrations,   \* how often the program's module is registered
  Usage            \* what users do that goes wrong, see below

\* "AfterClear": set a breakpoint after clearing all of them.
\* "BreakTyped": set breakpoints in typed code, or type breakpoint statements.
\* "StepOff":    step over the last instruction of a function.
\* "StepOut":    step over the return that ends a nested loop.
\* "StepOver":   step where a call or a return and what follows it come from one column.
Usages == {"AfterClear", "BreakTyped", "StepOff", "StepOut", "StepOver"}

Texts == Functions \cup Typed

Count(t) == Len(Body[t])

ASSUME ProgramAssumption ==
  /\ main \in Functions
  /\ Functions \cap Typed = {} /\ Functions \cap Addresses = {}
  /\ Free \notin Texts /\ Free \notin Addresses
  /\ \A t \in Texts :
       /\ Body[t] \in Seq([op : {"op", "call", "native", "return"}, to : Functions])
       /\ Count(t) > 0 /\ Body[t][Count(t)].op = "return"
       /\ Column[t] \in [1 .. Count(t) -> Nat]
  /\ \A t \in Typed :
       /\ Marks[t] \in Seq(0 .. Count(t) - 1) /\ IsInjective(Marks[t])
       /\ "BreakTyped" \notin Usage => Marks[t] = <<>>
  /\ Statements \in Seq([fn : Functions, offset : Nat]) /\ IsInjective(Statements)

ASSUME BoundsAssumption ==
  /\ MaxFrames \in Nat \ {0} /\ MaxBreakpoints \in Nat /\ MaxHost \in Nat
  /\ Registrations \in {1, 2}
  /\ Starts \subseteq {"program", "debugged", "debugger"}
  /\ Usage \subseteq Usages

VARIABLES
  code,                    \* what an address of Addresses holds
  ModuleList,              \* typed scripts whose module is on ModuleList
  TempModuleList,          \* typed scripts whose module is on TempModuleList
  Breakpoints,             \* the listed breakpoints, by index
  BreakpointsPerFunction,  \* the positions flagged in a registered function
  CurrentBreakpointIndex,
  Frames,                  \* the array: a frame that returned stays behind
  FrameCount, ReturnFrame,
  AttachedDebuggerCount,
  host,                    \* loops and debuggers on the C++ stack, oldest first
  status                   \* "ready", "running", "exited", "undefined"

modules == <<code, ModuleList, TempModuleList>>
points == <<Breakpoints, BreakpointsPerFunction, CurrentBreakpointIndex>>
thread == <<Frames, FrameCount, ReturnFrame>>
vars == <<modules, points, thread, AttachedDebuggerCount, host, status>>

Places == Functions \cup Addresses
None == [fn |-> main, ip |-> 0]

\* How a frame is suspended below a debugger or a nested loop.  A loop that comes
\* back from a debugger executes the instruction without looking at it again.
Loop == [kind : {"main", "native", "typed"}, ret : Nat, frames : Nat, resumed : BOOLEAN]
AtPrompt == [kind : {"debugger"}, DebugFrame : Int, step : {"no", "run", "check"}, column : Int]
NoColumn == -1

TypeOK ==
  /\ code \in [Addresses -> Typed \cup {Free}]
  /\ ModuleList \subseteq Addresses /\ TempModuleList \subseteq ModuleList
  /\ CurrentBreakpointIndex \in 0 .. MaxBreakpoints
  /\ DOMAIN Breakpoints \subseteq 0 .. CurrentBreakpointIndex - 1
  /\ \A i \in DOMAIN Breakpoints :
       Breakpoints[i] \in [Function : Places, CodeOffset : Nat, Enabled : BOOLEAN,
                           OnHit : {"KEEP", "REMOVE"}]
  /\ DOMAIN BreakpointsPerFunction \subseteq Places
  /\ \A f \in DOMAIN BreakpointsPerFunction : BreakpointsPerFunction[f] \subseteq Nat
  /\ Frames \in [0 .. MaxFrames - 1 -> [fn : Places, ip : Nat]]
  /\ FrameCount \in 0 .. MaxFrames /\ ReturnFrame \in 0 .. MaxFrames
  /\ AttachedDebuggerCount \in Nat
  /\ host \in Seq(Loop \cup AtPrompt)
  /\ status \in {"ready", "running", "exited", "undefined"}

Init ==
  /\ code = [a \in Addresses |-> Free] /\ ModuleList = {} /\ TempModuleList = {}
  /\ Breakpoints = <<>> /\ BreakpointsPerFunction = <<>> /\ CurrentBreakpointIndex = 0
  /\ Frames = [i \in 0 .. MaxFrames - 1 |-> None] /\ FrameCount = 0 /\ ReturnFrame = 0
  /\ AttachedDebuggerCount = 0 /\ host = <<>> /\ status = "ready"

-----------------------------------------------------------------------------
(* Breakpoints *)

NewBreakpoint(f, offset, type) ==
  [Function |-> f, CodeOffset |-> offset, Enabled |-> TRUE, OnHit |-> type]

At(f, offset) ==
  {i \in DOMAIN Breakpoints : Breakpoints[i].Function = f /\ Breakpoints[i].CodeOffset = offset}

\* The first entry of the list is found.
FindBreakpoint(f, offset) == {i \in At(f, offset) : \A j \in At(f, offset) : i <= j}

\* The functions of a module get new flags, which are clear, whatever they had: each
\* of the module's statements sets one and gets an entry in the list.
AddModuleBreakpoints(b, functions, statements) ==
  LET n == Len(statements)
  IN [list |-> [i \in DOMAIN b.list \cup b.next .. b.next + n - 1 |->
                  IF i < b.next THEN b.list[i]
                  ELSE NewBreakpoint(statements[i - b.next + 1].fn,
                                     statements[i - b.next + 1].offset, "KEEP")],
      flags |-> [f \in DOMAIN b.flags \cup functions |->
                   IF f \in functions
                   THEN {s.offset : s \in {s \in Range(statements) : s.fn = f}}
                   ELSE b.flags[f]],
      next |-> b.next + n]

SetPoints(b) ==
  /\ b.next <= MaxBreakpoints
  /\ Breakpoints' = b.list /\ BreakpointsPerFunction' = b.flags
  /\ CurrentBreakpointIndex' = b.next

Points == [list |-> Breakpoints, flags |-> BreakpointsPerFunction,
           next |-> CurrentBreakpointIndex]

\* The runner registers a module that CompileAndLoad has registered already.
MainPoints(b) ==
  LET once == AddModuleBreakpoints(b, Functions, Statements)
  IN IF Registrations = 1 THEN once ELSE AddModuleBreakpoints(once, Functions, Statements)

AddBreakpoint(f, offset, type) ==
  /\ CurrentBreakpointIndex < MaxBreakpoints
  /\ Breakpoints' = [i \in DOMAIN Breakpoints \cup {CurrentBreakpointIndex} |->
                       IF i = CurrentBreakpointIndex THEN NewBreakpoint(f, offset, type)
                       ELSE Breakpoints[i]]
  /\ BreakpointsPerFunction' = [BreakpointsPerFunction EXCEPT ![f] = @ \cup {offset}]
  /\ CurrentBreakpointIndex' = CurrentBreakpointIndex + 1

\* Mutant: the flag stays.
RemoveBreakpointKeepFlag(i) ==
  /\ Breakpoints' = Restrict(Breakpoints, DOMAIN Breakpoints \ {i})
  /\ UNCHANGED <<BreakpointsPerFunction, CurrentBreakpointIndex>>

\* Mutant: the flags of the function are thrown away with it.
RemoveBreakpointWithFlags(i) ==
  /\ Breakpoints' = Restrict(Breakpoints, DOMAIN Breakpoints \ {i})
  /\ BreakpointsPerFunction' = [BreakpointsPerFunction EXCEPT ![Breakpoints[i].Function] = {}]
  /\ UNCHANGED CurrentBreakpointIndex

RemoveBreakpoint(i) ==
  /\ Breakpoints' = Restrict(Breakpoints, DOMAIN Breakpoints \ {i})
  /\ BreakpointsPerFunction' =
       [BreakpointsPerFunction EXCEPT ![Breakpoints[i].Function] = @ \ {Breakpoints[i].CodeOffset}]
  /\ UNCHANGED CurrentBreakpointIndex

DisposeBreakpoints == Breakpoints' = <<>> /\ BreakpointsPerFunction' = <<>>

-----------------------------------------------------------------------------
(* Loops and debuggers on the C++ stack *)

Top == Last(host)
WithTop(activation) == Append(Front(host), activation)

Looping == status = "running" /\ host # <<>> /\ Top.kind # "debugger"
InDebugger(step) == status = "running" /\ host # <<>> /\ Top.kind = "debugger" /\ Top.step = step

NewLoop(kind, frames) == [kind |-> kind, ret |-> ReturnFrame, frames |-> frames, resumed |-> FALSE]

\* Enter: the debugger looks at the top frame.
NewDebugger(frames) ==
  [kind |-> "debugger", DebugFrame |-> frames - 1, step |-> "no", column |-> NoColumn]

\* Mutant: the frames are no roots.
CollectedUnlisted(count) ==
  [a \in Addresses |-> IF a \in ModuleList THEN code[a] ELSE Free]

\* The collection after a typed script frees what neither a listed module nor a frame
\* holds; whether one is due is not modelled.
Collected(count) ==
  [a \in Addresses |->
     IF a \in ModuleList \/ \E i \in 0 .. count - 1 : Frames[i].fn = a THEN code[a] ELSE Free]

\* Mutant: ReturnFrame is not put back.
LeaveLoopKeepReturn(count) ==
  /\ host' = Front(host)
  /\ FrameCount' = IF Top.kind = "typed" THEN Top.frames ELSE count
  /\ code' \in {code} \cup IF Top.kind = "typed" THEN {Collected(Top.frames)} ELSE {}
  /\ UNCHANGED <<ReturnFrame, ModuleList, TempModuleList, points, AttachedDebuggerCount, status>>

\* RunInstructionSet returns; what its caller puts back.
LeaveLoop(count) ==
  /\ host' = Front(host)
  /\ ReturnFrame' = IF Top.kind = "main" THEN ReturnFrame ELSE Top.ret
  /\ FrameCount' = IF Top.kind = "typed" THEN Top.frames ELSE count
  /\ code' \in {code} \cup IF Top.kind = "typed" THEN {Collected(Top.frames)} ELSE {}
  /\ UNCHANGED <<ModuleList, TempModuleList, points, AttachedDebuggerCount, status>>

-----------------------------------------------------------------------------
(* One instruction of a frame.  A debugger may execute one of a frame that is *)
(* no longer on top.                                                          *)

Text(f) == IF f \in Addresses THEN code[f] ELSE f

Current(i) == Body[Text(Frames[i].fn)][Frames[i].ip + 1]

\* The frame's function was freed, or the end of its code was passed.
Runaway(i) == Text(Frames[i].fn) = Free \/ Frames[i].ip >= Count(Text(Frames[i].fn))

Advance(i) == [Frames EXCEPT ![i].ip = @ + 1]
NewFrame(i, f) == [Advance(i) EXCEPT ![FrameCount] = [fn |-> f, ip |-> 0]]

Undefined == status' = "undefined" /\ UNCHANGED <<modules, points, thread, AttachedDebuggerCount, host>>

Op(i, rest) ==
  /\ Current(i).op = "op"
  /\ Frames' = Advance(i) /\ host' = rest
  /\ UNCHANGED <<modules, points, FrameCount, ReturnFrame, AttachedDebuggerCount, status>>

\* The error of a call that finds no frame ends the program, unless a debugger is open.
Call(i, rest) ==
  /\ Current(i).op = "call"
  /\ host' = rest
  /\ IF FrameCount < MaxFrames
     THEN /\ Frames' = NewFrame(i, Current(i).to) /\ FrameCount' = FrameCount + 1
          /\ UNCHANGED status
     ELSE /\ Frames' = Advance(i) /\ UNCHANGED FrameCount
          /\ status' = IF AttachedDebuggerCount > 0 THEN status ELSE "exited"
  /\ UNCHANGED <<modules, points, ReturnFrame, AttachedDebuggerCount>>

\* A native function calls RunFunction, which runs a loop even when its Call failed.
CallNative(i, rest) ==
  /\ Current(i).op = "native"
  /\ host' = Append(rest, NewLoop("native", FrameCount))
  /\ ReturnFrame' = FrameCount
  /\ IF FrameCount < MaxFrames
     THEN /\ Frames' = NewFrame(i, Current(i).to) /\ FrameCount' = FrameCount + 1
          /\ UNCHANGED status
     ELSE /\ Frames' = Advance(i) /\ UNCHANGED FrameCount
          /\ status' = IF AttachedDebuggerCount > 0 THEN status ELSE "exited"
  /\ UNCHANGED <<modules, points, AttachedDebuggerCount>>

\* An instruction that leaves the loop or the debugger where it is.
Execute(i, rest) == Op(i, rest) \/ Call(i, rest) \/ CallNative(i, rest)

-----------------------------------------------------------------------------
(* The hsl program *)

\* RunnerMain: the program is loaded and called, and the debugger opened before it runs
\* or instead of running it.
RunnerMain(start) ==
  /\ status = "ready" /\ status' = "running"
  /\ SetPoints(MainPoints(Points))
  /\ IF start = "debugger" THEN UNCHANGED <<Frames, FrameCount>>
     ELSE Frames' = [Frames EXCEPT ![0] = None] /\ FrameCount' = 1
  /\ host' = CASE start = "program"  -> <<NewLoop("main", 1)>>
               [] start = "debugged" -> <<NewLoop("main", 1), NewDebugger(1)>>
               [] start = "debugger" -> <<NewDebugger(0)>>
  /\ AttachedDebuggerCount' = IF start = "program" THEN 0 ELSE 1
  /\ UNCHANGED <<modules, ReturnFrame>>

TopFn == Frames[FrameCount - 1].fn
TopIp == Frames[FrameCount - 1].ip

\* The breakpoint the loop stops at before it executes the top frame's instruction.
StopsAt ==
  IF TopFn \in DOMAIN BreakpointsPerFunction /\ TopIp \in BreakpointsPerFunction[TopFn]
  THEN {i \in FindBreakpoint(TopFn, TopIp) : Breakpoints[i].Enabled} ELSE {}

Hit ==
  /\ Looping /\ FrameCount > 0 /\ ~Top.resumed
  /\ \E i \in StopsAt :
       IF Breakpoints[i].OnHit = "REMOVE" THEN RemoveBreakpoint(i) ELSE UNCHANGED points
  /\ host' = Append(WithTop([Top EXCEPT !.resumed = TRUE]), NewDebugger(FrameCount))
  /\ AttachedDebuggerCount' = AttachedDebuggerCount + 1
  /\ UNCHANGED <<modules, thread, status>>

\* The loop executes an instruction; the return that brings the frame count down to
\* ReturnFrame ends it.
RunInstruction ==
  /\ Looping /\ FrameCount > 0 /\ (Top.resumed \/ StopsAt = {})
  /\ LET rest == WithTop([Top EXCEPT !.resumed = FALSE])
         i == FrameCount - 1
     IN IF Runaway(i) THEN Undefined
        ELSE \/ Execute(i, rest)
             \/ /\ Current(i).op = "return"
                /\ Frames' = Advance(i)
                /\ IF i = ReturnFrame THEN LeaveLoop(i)
                   ELSE /\ FrameCount' = i /\ host' = rest
                        /\ UNCHANGED <<modules, points, ReturnFrame, AttachedDebuggerCount, status>>

\* The debugger has executed the return of the last frame.
NothingToRun ==
  /\ Looping /\ FrameCount = 0
  /\ LeaveLoop(0) /\ UNCHANGED Frames

-----------------------------------------------------------------------------
(* Commands *)

Command == InDebugger("no")
Frame == Top.DebugFrame
InTopFrame == FrameCount > 0 /\ Frame = FrameCount - 1

\* The breakpoints of these modules stay: only those of counted threads would go, and
\* no thread is counted.
RemoveTemporaryModules ==
  ModuleList' = ModuleList \ TempModuleList /\ TempModuleList' = {}

\* Mutant: the destructor's Exit counts again.
ContinueTwice ==
  /\ Command /\ RemoveTemporaryModules
  /\ AttachedDebuggerCount' = AttachedDebuggerCount - 2
  /\ host' = Front(host)
  /\ UNCHANGED <<code, points, thread, status>>

\* Exit is called again by the destructor, and then does nothing.
Continue ==
  /\ Command /\ RemoveTemporaryModules
  /\ AttachedDebuggerCount' = AttachedDebuggerCount - 1
  /\ host' = Front(host)
  /\ UNCHANGED <<code, points, thread, status>>

SelectFrame ==
  /\ Command
  /\ \E i \in 0 .. FrameCount - 1 : host' = WithTop([Top EXCEPT !.DebugFrame = i])
  /\ UNCHANGED <<modules, points, thread, AttachedDebuggerCount, status>>

\* The position behind the instruction the selected frame is at.
NextPosition == Frames[Frame].ip + 1
CanBreak ==
  /\ Command /\ FrameCount > 0 /\ Text(Frames[Frame].fn) # Free
  /\ NextPosition \in 0 .. Count(Text(Frames[Frame].fn)) - 1
  /\ "BreakTyped" \in Usage \/ Frames[Frame].fn \in Functions
  /\ "AfterClear" \in Usage \/ Frames[Frame].fn \in DOMAIN BreakpointsPerFunction

Listed == FindBreakpoint(Frames[Frame].fn, NextPosition)
Flagged == NextPosition \in BreakpointsPerFunction[Frames[Frame].fn]

\* A function without flags, which is one whose breakpoints were cleared, has none to set.
SetBreakpoint ==
  /\ CanBreak
  /\ IF Frames[Frame].fn \notin DOMAIN BreakpointsPerFunction THEN Undefined
     ELSE /\ ~Flagged /\ AddBreakpoint(Frames[Frame].fn, NextPosition, "KEEP")
          /\ UNCHANGED <<modules, thread, AttachedDebuggerCount, host, status>>

SetTempBreakpoint ==
  /\ CanBreak
  /\ IF Frames[Frame].fn \notin DOMAIN BreakpointsPerFunction THEN Undefined
     ELSE /\ IF Flagged
             THEN /\ \E i \in Listed : Breakpoints' = [Breakpoints EXCEPT ![i].OnHit = "REMOVE"]
                  /\ UNCHANGED <<BreakpointsPerFunction, CurrentBreakpointIndex>>
             ELSE AddBreakpoint(Frames[Frame].fn, NextPosition, "REMOVE")
          /\ UNCHANGED <<modules, thread, AttachedDebuggerCount, host, status>>

SwitchBreakpoint ==
  /\ Command
  /\ \E i \in DOMAIN Breakpoints, on \in BOOLEAN :
       Breakpoints' = [Breakpoints EXCEPT ![i].Enabled = on]
  /\ UNCHANGED <<modules, BreakpointsPerFunction, CurrentBreakpointIndex, thread,
                 AttachedDebuggerCount, host, status>>

DropBreakpoint ==
  /\ Command
  /\ \E i \in DOMAIN Breakpoints : RemoveBreakpoint(i)
  /\ UNCHANGED <<modules, thread, AttachedDebuggerCount, host, status>>

ClearBreakpoints ==
  /\ Command
  /\ DisposeBreakpoints
  /\ UNCHANGED <<modules, CurrentBreakpointIndex, thread, AttachedDebuggerCount, host, status>>

-----------------------------------------------------------------------------
(* Stepping: the debugger executes instructions of the frame it looked at when the *)
(* command was given, until the column changes.                                    *)

ColumnAt(i) == Column[Text(Frames[i].fn)][Frames[i].ip + 1]

\* The instructions a step over this one executes, as far as they are in a row.
SameColumn(t, ip) ==
  {p \in ip .. Count(t) - 1 : \A q \in ip .. p : Column[t][q + 1] = Column[t][ip + 1]}

StepIsHarmless(t, ip, offsets) ==
  /\ \/ "StepOut" \in Usage \/ ReturnFrame = 0 \/ FrameCount - 1 # ReturnFrame
     \/ \A p \in offsets : Body[t][p + 1].op # "return"
  /\ \/ "StepOver" \in Usage
     \/ \A p \in offsets : Body[t][p + 1].op \in {"call", "return"} => p + 1 \notin offsets

CanStep(t) == Command /\ InTopFrame /\ t # Free /\ Frames[Frame].ip < Count(t)

Step ==
  LET t == Text(Frames[Frame].fn)
      offsets == SameColumn(t, Frames[Frame].ip)
  IN /\ CanStep(t)
     /\ StepIsHarmless(t, Frames[Frame].ip, offsets)
     /\ "StepOff" \in Usage \/ Count(t) - 1 \notin offsets
     /\ host' = WithTop([Top EXCEPT !.step = "run", !.column = ColumnAt(Frame)])
     /\ UNCHANGED <<modules, points, thread, AttachedDebuggerCount, status>>

NextInstruction ==
  LET t == Text(Frames[Frame].fn)
  IN /\ CanStep(t)
     /\ StepIsHarmless(t, Frames[Frame].ip, {Frames[Frame].ip})
     /\ host' = WithTop([Top EXCEPT !.step = "run", !.column = NoColumn])
     /\ UNCHANGED <<modules, points, thread, AttachedDebuggerCount, status>>

\* RunOpcodeFunc: breakpoints are not looked at, and nobody asks whether a return has
\* ended the loop below.
RunOpcodeFunc ==
  /\ InDebugger("run")
  /\ LET rest == WithTop([Top EXCEPT !.step = "check"])
     IN IF Runaway(Frame) THEN Undefined
        ELSE \/ Execute(Frame, rest)
             \/ /\ Current(Frame).op = "return"
                /\ Frames' = Advance(Frame) /\ FrameCount' = FrameCount - 1
                /\ host' = rest
                /\ UNCHANGED <<modules, points, ReturnFrame, AttachedDebuggerCount, status>>

\* The columns are compared at a position that, after the last instruction of a
\* function, lies behind the table.
CheckColumn ==
  /\ InDebugger("check")
  /\ IF Top.column # NoColumn /\ Runaway(Frame) THEN Undefined
     ELSE /\ host' = WithTop(IF Top.column # NoColumn /\ ColumnAt(Frame) = Top.column
                             THEN [Top EXCEPT !.step = "run"]
                             ELSE [Top EXCEPT !.step = "no", !.column = NoColumn,
                                              !.DebugFrame = IF FrameCount > 0 THEN FrameCount - 1 ELSE @])
          /\ UNCHANGED <<modules, points, thread, AttachedDebuggerCount, status>>

-----------------------------------------------------------------------------
(* Typed code *)

CanExecute ==
  /\ Command /\ (FrameCount = 0 \/ InTopFrame) /\ FrameCount < MaxFrames
  /\ Len(host) <= MaxHost

\* A module of one function is loaded without a name and registered.
CompileAndLoad(t, a) ==
  /\ code[a] = Free
  /\ code' = [code EXCEPT ![a] = t]
  /\ ModuleList' = ModuleList \cup {a} /\ TempModuleList' = TempModuleList \cup {a}
  /\ SetPoints(AddModuleBreakpoints(Points, {a},
                 [k \in DOMAIN Marks[t] |-> [fn |-> a, offset |-> Marks[t][k]]]))

\* It is called in a loop of its own; the suspended frames are below it.
ExecuteCode ==
  /\ CanExecute
  /\ \E t \in Typed, a \in Addresses :
       CompileAndLoad(t, a) /\ Frames' = [Frames EXCEPT ![FrameCount] = [fn |-> a, ip |-> 0]]
  /\ FrameCount' = FrameCount + 1 /\ ReturnFrame' = FrameCount
  /\ host' = Append(host, NewLoop("typed", FrameCount))
  /\ UNCHANGED <<AttachedDebuggerCount, status>>

-----------------------------------------------------------------------------
Next ==
  \/ \E start \in Starts : RunnerMain(start)
  \/ Hit \/ RunInstruction \/ NothingToRun
  \/ Continue \/ SelectFrame
  \/ SetBreakpoint \/ SetTempBreakpoint \/ SwitchBreakpoint \/ DropBreakpoint
  \/ ClearBreakpoints
  \/ Step \/ NextInstruction \/ RunOpcodeFunc \/ CheckColumn
  \/ ExecuteCode

Spec == Init /\ [][Next]_vars

-----------------------------------------------------------------------------
(* Properties *)

\* The place of a statement that is registered twice can have two entries, any other
\* place one.  Every entry that a place can have is in S:
Twinned(f, offset) == Registrations = 2 /\ [fn |-> f, offset |-> offset] \in Range(Statements)
Complete(S, f, offset) == IF Twinned(f, offset) THEN \E i, j \in S : i # j ELSE S # {}

\* The flags and the list are two records of the same thing, through hits, commands of
\* any debugger, removals on hit and the loading of scripts.  What is flagged is listed,
\* and a place is flagged when all of its entries are listed: only one whose twin was
\* removed stands where no flag is.  No place has more entries than it can have.
BreakpointsAgree ==
  /\ \A f \in DOMAIN BreakpointsPerFunction :
       \A offset \in BreakpointsPerFunction[f] : At(f, offset) # {}
  /\ \A i \in DOMAIN Breakpoints :
       LET fn == Breakpoints[i].Function
           offset == Breakpoints[i].CodeOffset
       IN /\ fn \in DOMAIN BreakpointsPerFunction
          /\ Complete(At(fn, offset), fn, offset) => offset \in BreakpointsPerFunction[fn]
          /\ \A j, k \in At(fn, offset) : i = j \/ (Twinned(fn, offset) /\ k \in {i, j})

\* A loop never executes an instruction at which a breakpoint is listed and enabled, with
\* its twin if it is one of two, without having stopped there: not after nested debuggers,
\* and not because the flag or another entry of the list says otherwise.
StopsWhereListed ==
  [][ Looping /\ FrameCount > 0 /\ ~Top.resumed
      /\ Complete({i \in At(TopFn, TopIp) : Breakpoints[i].Enabled}, TopFn, TopIp)
        => Len(host') > Len(host) /\ Last(host').kind = "debugger" ]_vars

\* Every debugger that is open, and no other, is counted: the count decides whether an
\* error ends the program.
DebuggersCounted ==
  AttachedDebuggerCount = Cardinality({k \in DOMAIN host : host[k].kind = "debugger"})

\* What a frame executes is loaded, although a debugger opened by typed code drops the
\* modules of all typed code, its own among them, and a collection may follow.
RunningIsLoaded ==
  /\ status # "undefined"
  /\ \A i \in 0 .. FrameCount - 1 : Text(Frames[i].fn) # Free

\* The frames of the program: those below the first typed script.
ProgramFrames ==
  LET typed == {k \in DOMAIN host : host[k].kind = "typed"}
  IN IF typed = {} THEN FrameCount ELSE host[CHOOSE k \in typed : \A j \in typed : k <= j].frames

\* A debugged program executes the same instructions in the same order as one that
\* nobody debugs, however it is stopped, stepped and mixed with typed code.
Undebugged == INSTANCE Execution WITH
  calls <- [k \in 1 .. ProgramFrames |-> Frames[k - 1]], started <- status # "ready"
RunsUndebugged == Undebugged!Spec

=============================================================================

----------------------------- MODULE CompiledCode -----------------------------
(***************************************************************************)
(* What the compiled code of Compiler does when the interpreter            *)
(* (HSL/VMThread.cpp, RunInstruction) executes it, against the order in    *)
(* which the script's own text says its parts are evaluated.               *)
(*                                                                         *)
(* One frame is run, of any function of a compiled script; a value is the  *)
(* variable whose declaration left it on the stack, or Temp.  Conditions,  *)
(* counts and the objects of a with statement are chosen.                  *)
(***************************************************************************)
EXTENDS Compiler

CONSTANTS WithMax   \* MAX_WITH_ITERATION

ASSUME WithAssumption == WithMax \in Nat

VARIABLES
  frame,   \* the frame: function, next instruction, stack from Slots on, with iterators
  place    \* auxiliary: the last place whose evaluation began

vars == <<cvars, frame, place>>

NoFrame == [fn |-> 0, pc |-> 0, stack |-> <<>>, withs |-> <<>>]
Code == chunks[frame.fn].code
Running == frame.fn # 0
Instruction == Code[frame.pc]

\* What an instruction takes off the stack and whether it leaves a value.
Takes(i) ==
  CASE i.op = "Pop" -> i.arg
    [] i.op \in {"Equal", "Call", "SetProperty"} -> 2
    [] i.op \in {"Define", "SaveValue", "AddEnum", "DefineMethod", "Return"} -> 1
    [] OTHER -> 0
Leaves(i) == i.op \in {"Value", "Copy", "Equal", "Call", "SetProperty", "GetLocal", "NewEnum"}

Jumping == {"Jump", "JumpBack", "JumpIfFalse"}
Withing == {"WithInit", "WithIterate", "WithFinish"}

Under(n) == SubSeq(frame.stack, 1, Len(frame.stack) - n)
\* A call from outside: any function of the script.
Call ==
  /\ compilers = <<>> /\ ~Running
  /\ \E f \in DOMAIN chunks :
       /\ frame' = [fn |-> f, pc |-> 1, stack |-> chunks[f].locals, withs |-> <<>>]
       /\ place' = <<f>>

Plain ==
  /\ Instruction.op \notin Jumping \cup Withing \cup {"Return"}
  /\ frame' = [frame EXCEPT
       !.pc = @ + 1,
       !.stack = Under(Takes(Instruction)) \o IF Leaves(Instruction) THEN <<Instruction.of>> ELSE <<>>]

Jumps ==
  /\ Instruction.op \in Jumping
  /\ \E pc \in CASE Instruction.op = "Jump" -> {frame.pc + 1 + Instruction.arg}
                 [] Instruction.op = "JumpBack" -> {frame.pc + 1 - Instruction.arg}
                 [] OTHER -> {frame.pc + 1, frame.pc + 1 + Instruction.arg} :
       frame' = [frame EXCEPT !.pc = pc]

\* The receiver is popped, and the iterator starts; or there is nothing to iterate,
\* or no room for one more iterator, and the statement is jumped over.
WithInit ==
  /\ Instruction.op = "WithInit"
  /\ \/ frame' = [frame EXCEPT !.pc = @ + 1 + Instruction.arg, !.stack = Under(1)]
     \/ /\ Len(frame.withs) < WithMax
        /\ frame' = [frame EXCEPT !.pc = @ + 1, !.stack = Under(1),
                                  !.withs = Append(@, Instruction.of)]

WithIterate ==
  /\ Instruction.op = "WithIterate"
  /\ \E pc \in {frame.pc + 1, frame.pc + 1 - Instruction.arg} : frame' = [frame EXCEPT !.pc = pc]

WithFinishKeeps ==
  /\ Instruction.op = "WithFinish"
  /\ frame' = [frame EXCEPT !.pc = @ + 1]

WithFinish ==
  /\ Instruction.op = "WithFinish"
  /\ frame' = [frame EXCEPT !.pc = @ + 1, !.withs = Front(@)]

Return ==
  /\ Instruction.op = "Return"
  /\ frame' = NoFrame
  /\ place' = <<>>

Execute ==
  /\ Running
  /\ \/ /\ Plain \/ Jumps \/ WithInit \/ WithIterate \/ WithFinish
        /\ place' = IF Instruction.place = <<>> THEN place ELSE Instruction.place
     \/ Return

CodeInit == Init /\ frame = NoFrame /\ place = <<>>
Next ==
  \/ Read /\ UNCHANGED <<frame, place>>
  \/ (Call \/ Execute) /\ UNCHANGED cvars
Spec == CodeInit /\ [][Next]_vars

Compiling(kinds) ==
  UNION {{<<i, j>> : j \in {j \in DOMAIN compilers[i].open : compilers[i].open[j].kind \in kinds}} :
           i \in DOMAIN compilers}

\* The types, and one list for each loop, switch and function being compiled:
\* none is left of what was finished or given up.
TypeOK ==
  /\ \A i \in DOMAIN compilers :
       /\ compilers[i].fn \in 1 .. MaxFunctions /\ compilers[i].depth \in Nat
       /\ Len(compilers[i].locals) \in 1 .. LocalsMax
       /\ compilers[i].open # <<>>
  /\ Len(marks) = Len(compilers) + Len(switches)
  /\ Len(breaks) = Cardinality(Compiling(Loops \cup {"Cases"}))
  /\ Len(continues) = Len(breaks) /\ Len(switches) = Cardinality(Compiling({"Cases"}))
  /\ DOMAIN chunks \subseteq 1 .. MaxFunctions
  /\ \/ frame = NoFrame /\ place = <<>>
     \/ /\ frame.fn \in DOMAIN chunks /\ frame.pc \in DOMAIN Code
        /\ Takes(Instruction) <= Len(frame.stack)
        /\ Len(frame.withs) <= WithMax

\* When the evaluation of a part of the script begins, the stack holds the
\* variables the compiler counted there, each in its slot, and nothing else but
\* the value and its copy while a switch tests its labels; an instruction that
\* names a slot finds the variable there that it was emitted for.
SlotsMatch ==
  Running =>
    /\ Instruction.place # <<>> =>
         frame.stack = Instruction.vars
                       \o IF tree[Instruction.place] = "Case" THEN <<Temp, Temp>> ELSE <<>>
    /\ Instruction.op \in {"GetLocal", "SetLocal"} =>
         frame.stack[Instruction.slot + 1] = Instruction.of

\* The with statements around a place.
WithsAround(p) ==
  {a \in {SubSeq(p, 1, i) : i \in 1 .. Len(p) - 1} :
     a \in DOMAIN tree /\ tree[a] = "With" /\ p[Len(a) + 1] # Condition}

\* The outermost first.
Nested(withs) == \A i, j \in DOMAIN withs : i < j => Len(withs[i]) < Len(withs[j])

\* At every place the frame has one iterator for each with statement around it:
\* no way out of a body forgets one, and none is taken off twice.
WithsMatch ==
  Running =>
    /\ Instruction.place # <<>> =>
         Range(frame.withs) = WithsAround(Instruction.place) /\ Nested(frame.withs)
    /\ Instruction.op \in {"WithIterate", "WithFinish"} =>
         frame.withs # <<>> /\ Last(frame.withs) = Instruction.of

\* A breakpoint statement stops before the instruction that was emitted next,
\* however often the code around it was moved.
BreakpointsPlaced ==
  \A f \in DOMAIN chunks : \A i \in DOMAIN chunks[f].breakpoints :
    LET b == chunks[f].breakpoints[i]
    IN  b.of \in chunks[f].code[b.at + 1].marks

\* "Can't continue outside of loop.": a continue that was accepted has a loop of
\* its own function around it.
ContinueInLoop ==
  \A p \in DOMAIN tree : tree[p] = "Continue" =>
    \E i \in 1 .. Len(p) - 1 : tree[SubSeq(p, 1, i)] \in Loops
=============================================================================

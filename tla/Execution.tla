------------------------------ MODULE Execution ------------------------------
(***************************************************************************)
(* A program that nobody debugs: its call stack, one instruction at a      *)
(* time.  Whether a function is called by a script or by a native function *)
(* makes no difference here: it is pushed, runs to its end and is popped.  *)
(***************************************************************************)
EXTENDS Integers, Sequences, SequencesExt

CONSTANTS
  main,        \* the main function of the program
  Body,        \* the instructions of every function
  MaxFrames    \* FRAMES_MAX

VARIABLES
  calls,    \* the functions being executed, with the offset each is at
  started   \* the program runs once

evars == <<calls, started>>

Init == calls = <<>> /\ started = FALSE

Start ==
  /\ ~started /\ started' = TRUE
  /\ calls' = <<[fn |-> main, ip |-> 0]>>

Instruction == Body[Last(calls).fn][Last(calls).ip + 1]

Advanced == [calls EXCEPT ![Len(calls)].ip = @ + 1]

\* The frame that returns is forgotten; its caller goes on behind the call.
Next ==
  \/ Start
  \/ /\ calls # <<>> /\ UNCHANGED started
     /\ calls' = CASE Instruction.op = "op" -> Advanced
                   [] Instruction.op = "return" -> Front(calls)
                   [] OTHER -> IF Len(calls) = MaxFrames THEN Advanced
                               ELSE Append(Advanced, [fn |-> Instruction.to, ip |-> 0])
  \* The debugger may be started and no program run.
  \/ ~started /\ started' = TRUE /\ UNCHANGED calls

Spec == Init /\ [][Next]_evars

=============================================================================

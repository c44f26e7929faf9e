----------------------------- MODULE NestedLoops -----------------------------
(***************************************************************************)
(* What the callers of RunFunction, InvokeForEntity, hsl_call and the like *)
(* are promised: a loop executes the frames made since it was entered and  *)
(* is left when the last of them has returned.  Every level of the C++     *)
(* stack counts its own frames; there is no register that levels share.    *)
(***************************************************************************)
EXTENDS Naturals, Sequences, SequencesExt

VARIABLES
  levels,   \* loops and native functions on the C++ stack, with their frames
  pending   \* frames of the host: set up, or called while it single-steps

lvars == <<levels, pending>>

Level(kind, frames) == [kind |-> kind, frames |-> frames]

Init == levels = <<>> /\ pending = 0

TopIs(kind) == levels # <<>> /\ Last(levels).kind = kind

\* Code outside the interpreter has control.
Outside == levels = <<>> \/ TopIs("native")

SetUp ==
  levels = <<>> /\ pending = 0 /\ pending' = 1 /\ UNCHANGED levels

\* The host executes one instruction: a call, a return.
StepCall == levels = <<>> /\ pending > 0 /\ pending' = pending + 1 /\ UNCHANGED levels
StepReturn == levels = <<>> /\ pending > 0 /\ pending' = pending - 1 /\ UNCHANGED levels

\* The loop executes all of the host's frames.
RunPending ==
  /\ levels = <<>> /\ pending > 0
  /\ pending' = 0 /\ levels' = <<Level("run", pending)>>

EnterLoop ==
  /\ Outside /\ (levels = <<>> => pending = 0)
  /\ levels' = Append(levels, Level("run", 1)) /\ UNCHANGED pending

\* A script calls a native function, or the embedding program does.
EnterNative ==
  levels' = Append(levels, Level("native", 0)) /\ UNCHANGED pending

LeaveNative ==
  TopIs("native") /\ levels' = Front(levels) /\ UNCHANGED pending

Call ==
  /\ TopIs("run")
  /\ levels' = [levels EXCEPT ![Len(levels)].frames = @ + 1]
  /\ UNCHANGED pending

\* A frame returns to its caller in the same loop; the last one ends the loop.
Return ==
  /\ TopIs("run")
  /\ levels' = IF Last(levels).frames = 1 THEN Front(levels)
               ELSE [levels EXCEPT ![Len(levels)].frames = @ - 1]
  /\ UNCHANGED pending

Next ==
  \/ SetUp \/ StepCall \/ StepReturn \/ RunPending \/ EnterLoop \/ EnterNative \/ LeaveNative
  \/ Call \/ Return

Spec == Init /\ [][Next]_lvars

=============================================================================

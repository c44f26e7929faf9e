------------------------------ MODULE CallStack ------------------------------
(***************************************************************************)
(* The value stack, the call frames and the nested interpreter loops of    *)
(* one VMThread (HSL/VMThread.cpp, HSL/API/Call.cpp, HSL/API/Stack.cpp).   *)
(*                                                                         *)
(* The interpreter is re-entrant.  RunInstructionSet executes the top call *)
(* frame; an instruction may call a native function; a native function may *)
(* start another RunInstructionSet on the same thread.  The only thing     *)
(* that tells an inner loop where to stop is ReturnFrame: DO_RETURN leaves *)
(* the loop when the frame count falls to ReturnFrame.                     *)
(*                                                                         *)
(* Values are abstracted away: a stack slot is its index, and the callee   *)
(* of a call is chosen nondeterministically.  What is kept is every        *)
(* position (StackTop, Slots), every frame and every C++ activation that   *)
(* holds saved positions (Host).                                           *)
(***************************************************************************)
EXTENDS Integers, Sequences, SequencesExt

CONSTANTS
  Functions,         \* the script functions
  Arity, MinArity,   \* ObjFunction::Arity, ObjFunction::MinArity
  BoundMethods,      \* the bound methods
  Method, NumBound,  \* ObjBoundMethod::Method, arguments inserted in front
  NativeFunction,    \* a native callee
  NotCallable,       \* a value that is not callable
  MaxArgs,           \* bound: arguments an OP_CALL or hsl_call passes
  StackMax,          \* STACK_SIZE_MAX
  FramesMax,         \* FRAMES_MAX
  HostMax,           \* bound: C++ activations (native recursion depth)
  VMDebug,           \* built with VM_DEBUG
  Imports,           \* whether scripts execute "import from"
  Embedding,         \* what the embedding program calls, and when
  RuntimeResponses,  \* how ThrowRuntimeError may end
  FatalResponses     \* how FatalError may end

\* The entry points of the embedding program and of native functions.
HostOps == {"push", "pop", "RunFunction", "RunEntityFunction", "InvokeForEntity",
            "RunMain", "hsl_setup_call_frame", "hsl_run_call_frame",
            "hsl_run_call_frame_instruction", "hsl_run_module", "hsl_call",
            "hsl_invoke", "hsl_invoke_callable", "hsl_instance_new_from_stack"}

\* When it calls them: nothing runs; frames are set up but nothing runs; in a
\* native function.
Places == {"idle", "pending", "native"}

ASSUME FunctionsAssumption ==
  /\ Functions # {}
  /\ Arity \in [Functions -> Nat] /\ MinArity \in [Functions -> Nat]
  /\ \A f \in Functions : MinArity[f] <= Arity[f]
  /\ Method \in [BoundMethods -> Functions] /\ NumBound \in [BoundMethods -> Nat]
  /\ NativeFunction \notin Functions \cup BoundMethods
  /\ NotCallable \notin Functions \cup BoundMethods \cup {NativeFunction}

ASSUME BoundsAssumption ==
  /\ StackMax \in Nat \ {0} /\ FramesMax \in Nat \ {0}
  /\ HostMax \in Nat /\ MaxArgs \in Nat

\* "terminate": the standalone program exits, or a handler does not come back.
\* Otherwise Error returns to its caller, which goes on.
ASSUME EnvironmentAssumption ==
  /\ VMDebug \in BOOLEAN /\ Imports \in BOOLEAN
  /\ Embedding \in [Places -> SUBSET HostOps]
  /\ RuntimeResponses \subseteq {"terminate", "return"}
  /\ FatalResponses \subseteq {"terminate", "EXIT", "CONTINUE"}

VARIABLES
  StackTop,     \* StackTop - Stack
  Frames,       \* Frames[0 .. FrameCount - 1]
  ReturnFrame,  \* frame count at which DO_RETURN leaves the loop
  Host,         \* the C++ activations above the embedding program, oldest first
  status        \* "running"; "exited"; "undefined" after a wild access

vars == <<StackTop, Frames, ReturnFrame, Host, status>>

FrameCount == Len(Frames)

\* A script's Slots may start one below the stack: code that is run without a
\* callee on the stack uses the slot under its arguments as slot 0.  callee is
\* auxiliary: the index of the slot that held the callee.
Frame == [Slots : Int, Arity : Nat, callee : Int]

\* ret and top are what the C++ function saved on entry, base (auxiliary) the
\* frame count when it was entered.  after says whether the loop's function puts
\* ret and top back, or what the caller of a native function does when it returns.
Loop == [kind : {"run"}, base : Nat, ret : Nat, top : Nat, after : {"restore", "keep"}]
Native == [kind : {"native"}, base : Nat, ret : Nat, top : Nat, argc : Nat,
           after : {"push", "pop", "restore"}]

TypeOK ==
  /\ StackTop \in 0 .. StackMax
  /\ Frames \in Seq(Frame) /\ FrameCount <= FramesMax
  /\ ReturnFrame \in Nat
  /\ Host \in Seq(Loop \cup Native) /\ Len(Host) <= HostMax
  /\ status \in {"running", "exited", "undefined"}

Init ==
  /\ StackTop = 0 /\ Frames = <<>> /\ ReturnFrame = 0
  /\ Host = <<>> /\ status = "running"

-----------------------------------------------------------------------------
(* Whose turn it is. *)

InLoop == status = "running" /\ Host # <<>> /\ Last(Host).kind = "run"
InNative == status = "running" /\ Host # <<>> /\ Last(Host).kind = "native"


\* Values of the top frame above its parameters: locals and temporaries.
Operands == StackTop - (Last(Frames).Slots + Last(Frames).Arity + 1)

\* Code outside the interpreter calls op.
HostCalls(op) ==
  /\ \/ status = "running" /\ Host = <<>> /\ Frames = <<>> /\ op \in Embedding["idle"]
     \/ status = "running" /\ Host = <<>> /\ Frames # <<>> /\ op \in Embedding["pending"]
     \/ InNative /\ op \in Embedding["native"]

\* hsl_run_call_frame_instruction: one instruction of the top frame, without a loop.
SingleStep == HostCalls("hsl_run_call_frame_instruction")

\* An instruction of the top frame executes.
InScript == Frames # <<>> /\ (InLoop \/ SingleStep)

-----------------------------------------------------------------------------
(* Errors and calls, as sets of outcomes. *)

Outcome(result, top, frames, s) ==
  [result |-> result, top |-> top, frames |-> frames, status |-> s]

Ok(o) == o.result = "ok"

\* ThrowRuntimeError, in a caller that then returns false.
Throw(top) ==
  {Outcome("failed", top, Frames, IF r = "terminate" THEN "exited" ELSE "running")
     : r \in RuntimeResponses}

\* FatalError in Call: the response is not looked at.
Fatal(top) ==
  {Outcome("failed", top, Frames, IF r = "terminate" THEN "exited" ELSE "running")
     : r \in FatalResponses}

\* n calls of Push.  At the limit CONTINUE drops the value and any other
\* response that comes back writes behind the array.
PushN(top, n) ==
  IF n = 0 \/ top + n <= StackMax THEN {Outcome("ok", top + n, Frames, "running")}
  ELSE {Outcome(IF r = "CONTINUE" THEN "ok" ELSE "failed", StackMax, Frames,
                CASE r = "terminate" -> "exited"
                  [] r = "EXIT"      -> "undefined"
                  [] r = "CONTINUE"  -> "running") : r \in FatalResponses}

\* Mutant: the frame starts above the callee.
NewFrameAboveCallee(f, top, callee) ==
  [Slots |-> top - Arity[f], Arity |-> Arity[f], callee |-> callee]

\* Call: arity check, missing optional arguments, frame limit, new frame.
\* callee is where the caller left the callee.
NewFrame(f, top, callee) ==
  [Slots |-> top - (Arity[f] + 1), Arity |-> Arity[f], callee |-> callee]

\* Mutant: missing optional arguments are not pushed.
CallFunctionUnpadded(f, argc, top, callee) ==
  IF argc < MinArity[f] \/ argc > Arity[f] THEN Throw(top)
  ELSE IF FrameCount = FramesMax THEN Fatal(top)
  ELSE {Outcome("ok", top, Append(Frames, NewFrame(f, top, callee)), "running")}

CallFunction(f, argc, top, callee) ==
  IF argc < MinArity[f] \/ argc > Arity[f] THEN Throw(top)
  ELSE UNION {IF ~ Ok(p) THEN {p}
              ELSE IF FrameCount = FramesMax THEN Fatal(p.top)
              ELSE {Outcome("ok", p.top,
                            Append(Frames, NewFrame(f, p.top, callee)), "running")}
                : p \in PushN(top, Arity[f] - argc)}

\* Mutant: room for the bound arguments is not checked.
CallBoundMethodUnchecked(b, argc, top, callee) ==
  CallFunction(Method[b], NumBound[b] + argc, top + NumBound[b], callee)

\* CallBoundMethod: the bound arguments go under the passed ones.
CallBoundMethod(b, argc, top, callee) ==
  IF top + NumBound[b] + argc >= StackMax THEN Throw(top)
  ELSE CallFunction(Method[b], NumBound[b] + argc, top + NumBound[b], callee)

Callables == Functions \cup BoundMethods
Callees == Callables \cup {NativeFunction, NotCallable}

\* CallValue and CallForObject of anything but a native function.
CallValue(c, argc) ==
  LET callee == StackTop - argc - 1
  IN  IF c \in Functions THEN CallFunction(c, argc, StackTop, callee)
      ELSE IF c \in BoundMethods THEN CallBoundMethod(c, argc, StackTop, callee)
      ELSE Throw(StackTop)

LoopRecord(base, after) ==
  [kind |-> "run", base |-> base, ret |-> ReturnFrame, top |-> StackTop,
   after |-> after]

NativeRecord(argc, after) ==
  [kind |-> "native", base |-> FrameCount, ret |-> ReturnFrame, top |-> StackTop,
   argc |-> argc, after |-> after]

CanEnter == Len(Host) < HostMax

-----------------------------------------------------------------------------
(* Instructions of the top frame. *)

\* Opcodes that leave one more value (OP_NULL, OP_CONSTANT, OP_GET_LOCAL, ...).
OpPush ==
  /\ InScript
  /\ \E p \in PushN(StackTop, 1) : StackTop' = p.top /\ status' = p.status
  /\ UNCHANGED <<Frames, ReturnFrame, Host>>

\* Opcodes that leave one less; the compiler emits none that reaches under the
\* parameters.
OpPop ==
  /\ InScript /\ Operands > 0
  /\ StackTop' = StackTop - 1
  /\ UNCHANGED <<Frames, ReturnFrame, Host, status>>

\* OP_CALL of a native function: CallValue calls it with its arguments in place.
OpCallNative(argc) ==
  /\ InScript /\ Operands >= argc + 1 /\ CanEnter
  /\ Host' = Append(Host, NativeRecord(argc, "push"))
  /\ UNCHANGED <<StackTop, Frames, ReturnFrame, status>>

\* The caller of CallValue adds an error of its own: "Could not call value!",
\* "Could not call %s in %s!".
CallOrThrow(c, argc) ==
  \E o \in CallValue(c, argc) :
    /\ StackTop' = o.top /\ Frames' = o.frames
    /\ IF Ok(o) \/ o.status # "running"
       THEN status' = o.status
       ELSE \E e \in Throw(o.top) : status' = e.status

\* OP_CALL of anything else.  OP_INVOKE, OP_SUPER_INVOKE and OP_NEW do the same with
\* the method or initializer they find, or leave the stack as it is.
OpCall(c, argc) ==
  /\ InScript /\ Operands >= argc + 1
  /\ CallOrThrow(c, argc)
  /\ UNCHANGED <<ReturnFrame, Host>>

\* Mutant: ReturnFrame is not put back.
LeaveLoopForgetful(top, frames) ==
  LET loop == Last(Host)
  IN  /\ Host' = Front(Host) /\ Frames' = frames
      /\ StackTop' = IF loop.after = "restore" THEN loop.top ELSE top
      /\ UNCHANGED ReturnFrame

\* The loop on top of Host is left with INTERPRET_FINISHED; what its function
\* does after RunInstructionSet.
LeaveLoop(top, frames) ==
  LET loop == Last(Host)
  IN  /\ Host' = Front(Host) /\ Frames' = frames
      /\ StackTop' = IF loop.after = "restore" THEN loop.top ELSE top
      /\ ReturnFrame' = IF loop.after = "restore" THEN loop.ret ELSE ReturnFrame

\* INTERPRET_FINISHED: a host that single-steps is not told.
Finish(top, frames) ==
  IF InLoop THEN LeaveLoop(top, frames)
  ELSE StackTop' = top /\ Frames' = frames /\ UNCHANGED <<ReturnFrame, Host>>

\* DO_RETURN with StackTop at top.  The result goes to slot 0 of the frame.
DoReturn(top) ==
  IF FrameCount - 1 = ReturnFrame
  THEN Finish(top, Front(Frames)) /\ UNCHANGED status
  ELSE /\ StackTop' = Last(Frames).Slots + 1
       /\ Frames' = Front(Frames)
       /\ status' = IF Last(Frames).Slots < 0 THEN "undefined" ELSE status
       /\ UNCHANGED <<ReturnFrame, Host>>

OpReturn ==
  /\ InScript /\ Operands > 0
  /\ DoReturn(StackTop - 1)

\* A jump that hits the branch limit is an error; if the answer comes back, it
\* returns NULL_VAL from the function.
BranchLimit ==
  /\ InScript /\ VMDebug
  /\ \/ /\ "terminate" \in RuntimeResponses /\ status' = "exited"
        /\ UNCHANGED <<StackTop, Frames, ReturnFrame, Host>>
     \/ "return" \in RuntimeResponses /\ DoReturn(StackTop)

\* OP_IMPORT_MODULE: LoadScriptFromStream calls the module's main function with
\* nothing pushed for it and runs a loop under the current ReturnFrame.
OpImport(f) ==
  /\ InScript /\ Imports /\ Arity[f] = 0 /\ CanEnter
  /\ \E o \in CallFunction(f, 0, StackTop, StackTop - 1) :
       /\ StackTop' = o.top /\ Frames' = o.frames
       /\ Host' = IF Ok(o) THEN Append(Host, LoopRecord(FrameCount, "keep")) ELSE Host
       /\ IF Ok(o) \/ o.status # "running"
          THEN status' = o.status
          ELSE \E e \in Throw(o.top) : status' = e.status
  /\ UNCHANGED ReturnFrame

\* The loop finds no frame left after an instruction: a debug build leaves it,
\* any other goes on to Frames[-1].
LoopWithoutFrame ==
  /\ InLoop /\ Frames = <<>>
  /\ IF VMDebug
     THEN LeaveLoop(StackTop, Frames) /\ UNCHANGED status
     ELSE status' = "undefined" /\ UNCHANGED <<StackTop, Frames, ReturnFrame, Host>>

-----------------------------------------------------------------------------
(* Native functions and the embedding program. *)

\* The n topmost values were pushed by the code whose turn it is.
Owns(n) ==
  StackTop - n >= IF InNative THEN Last(Host).top
                  ELSE IF Frames # <<>> THEN Last(Frames).Slots + Last(Frames).Arity + 1
                  ELSE 0

\* A native function returns with the stack as it found it.  CallValue then
\* pops the arguments and the callee and pushes the result; hsl_call pops it
\* again; InvokeForEntity puts back what it saved.
NativeReturn ==
  LET native == Last(Host)
  IN  /\ InNative /\ StackTop = native.top
      /\ Host' = Front(Host)
      /\ StackTop' = CASE native.after = "push"    -> StackTop - native.argc
                       [] native.after = "pop"     -> StackTop - native.argc - 1
                       [] native.after = "restore" -> native.top
      /\ ReturnFrame' = IF native.after = "restore" THEN native.ret ELSE ReturnFrame
      /\ UNCHANGED <<Frames, status>>

\* hsl_push_*: refuses at the limit.
HostPush ==
  /\ HostCalls("push") /\ StackTop < StackMax
  /\ StackTop' = StackTop + 1
  /\ UNCHANGED <<Frames, ReturnFrame, Host, status>>

HostPop ==
  /\ HostCalls("pop") /\ Owns(1)
  /\ StackTop' = StackTop - 1
  /\ UNCHANGED <<Frames, ReturnFrame, Host, status>>

\* RunFunction and RunEntityFunction do not look at what Call returned: their
\* loop runs whatever frame is on top.
RunAnyway(f, argc) ==
  /\ CanEnter
  /\ \E o \in CallFunction(f, argc, StackTop, StackTop - argc - 1) :
       /\ StackTop' = o.top /\ Frames' = o.frames
       /\ status' = IF o.status = "running" /\ o.frames = <<>> THEN "undefined"
                    ELSE o.status
       /\ IF o.status = "running"
          THEN /\ Host' = Append(Host, LoopRecord(FrameCount, "restore"))
               /\ ReturnFrame' = FrameCount
          ELSE UNCHANGED <<Host, ReturnFrame>>

\* RunBytecode: the main function of a module, nothing pushed for it.
RunFunction(f) ==
  HostCalls("RunFunction") /\ Arity[f] = 0 /\ RunAnyway(f, 0)

\* The comparison of Array.Sort: two arguments pushed, no callee.
RunEntityFunction(f) ==
  HostCalls("RunEntityFunction") /\ Owns(2) /\ RunAnyway(f, 2)

\* Mutant: the loop runs even if the call failed.
InvokeForEntityAnyway(c) ==
  /\ HostCalls("InvokeForEntity") /\ CanEnter /\ c # NativeFunction
  /\ \E o \in CallValue(c, 0) :
       StackTop' = o.top /\ Frames' = o.frames /\ status' = o.status
  /\ Host' = Append(Host, LoopRecord(FrameCount, "restore"))
  /\ ReturnFrame' = FrameCount

\* CallFunction of the script manager: a callable without arguments.  The loop
\* runs only if CallForObject made a frame.  A native function is passed the slot
\* under its arguments and gets its result there.
InvokeForEntity(c) ==
  /\ HostCalls("InvokeForEntity") /\ CanEnter
  /\ IF c = NativeFunction
     THEN /\ Host' = Append(Host, NativeRecord(0, "restore"))
          /\ ReturnFrame' = FrameCount
          /\ status' = IF StackTop = 0 THEN "undefined" ELSE status
          /\ UNCHANGED <<StackTop, Frames>>
     ELSE \E o \in CallValue(c, 0) :
            /\ status' = o.status /\ Frames' = o.frames
            /\ IF Ok(o)
               THEN /\ Host' = Append(Host, LoopRecord(FrameCount, "restore"))
                    /\ ReturnFrame' = FrameCount /\ StackTop' = o.top
               ELSE UNCHANGED <<StackTop, ReturnFrame, Host>>

\* The standalone program runs its input: Call, then a loop, under the current
\* ReturnFrame.
RunMain(f) ==
  /\ HostCalls("RunMain") /\ Arity[f] = 0 /\ CanEnter
  /\ \E o \in CallFunction(f, 0, StackTop, StackTop - 1) :
       /\ StackTop' = o.top /\ Frames' = o.frames /\ status' = o.status
       /\ Host' = IF Ok(o) THEN Append(Host, LoopRecord(FrameCount, "keep")) ELSE Host
  /\ UNCHANGED ReturnFrame

\* The frame hsl_setup_call_frame makes; it puts ReturnFrame under that frame and
\* nothing ever puts the old one back.
SetupCallFrame(f, argc) ==
  /\ Owns(argc) /\ FrameCount < FramesMax
  /\ argc \in MinArity[f] .. Arity[f]
  /\ \E o \in CallFunction(f, argc, StackTop, StackTop - argc - 1) :
       /\ StackTop' = o.top /\ Frames' = o.frames /\ status' = o.status
       /\ ReturnFrame' = IF Ok(o) THEN Len(o.frames) - 1 ELSE ReturnFrame

hsl_setup_call_frame(f, argc) ==
  HostCalls("hsl_setup_call_frame") /\ SetupCallFrame(f, argc) /\ UNCHANGED Host

\* On an idle thread every frame belongs to the loop: the one that was set up and
\* those it has called while it was single-stepped.
hsl_run_call_frame ==
  /\ HostCalls("hsl_run_call_frame") /\ Frames # <<>> /\ CanEnter
  /\ Host' = Append(Host, LoopRecord(IF Host = <<>> THEN 0 ELSE FrameCount - 1, "keep"))
  /\ UNCHANGED <<StackTop, Frames, ReturnFrame, status>>

\* hsl_setup_call_frame of the main function, then hsl_run_call_frame.
hsl_run_module(f) ==
  /\ HostCalls("hsl_run_module") /\ Arity[f] = 0 /\ CanEnter
  /\ SetupCallFrame(f, 0)
  /\ Host' = IF Len(Frames') > FrameCount
             THEN Append(Host, LoopRecord(FrameCount, "keep")) ELSE Host

\* Callee and arguments are on the stack.  ReturnFrame is left as it is.
hsl_call(c, argc) ==
  /\ HostCalls("hsl_call") /\ Owns(argc + 1) /\ c # NotCallable /\ CanEnter
  /\ IF c = NativeFunction
     THEN /\ Host' = Append(Host, NativeRecord(argc, "pop"))
          /\ UNCHANGED <<StackTop, Frames, status>>
     ELSE \E o \in CallValue(c, argc) :
            /\ StackTop' = o.top /\ Frames' = o.frames /\ status' = o.status
            /\ Host' = IF Ok(o) THEN Append(Host, LoopRecord(FrameCount, "keep")) ELSE Host
  /\ UNCHANGED ReturnFrame

\* The functions below call a native function and leave a script function's frame
\* to hsl_run_call_frame.
InvokeNative(argc) ==
  /\ CanEnter
  /\ Host' = Append(Host, NativeRecord(argc, "push"))
  /\ UNCHANGED <<StackTop, Frames, status>>

InvokeCallable(c, argc) ==
  /\ Owns(argc + 1) /\ c # NotCallable
  /\ IF c = NativeFunction THEN InvokeNative(argc)
     ELSE /\ \E o \in CallValue(c, argc) :
               StackTop' = o.top /\ Frames' = o.frames /\ status' = o.status
          /\ UNCHANGED Host
  /\ UNCHANGED ReturnFrame

hsl_invoke_callable(c, argc) ==
  HostCalls("hsl_invoke_callable") /\ InvokeCallable(c, argc)

\* The initializer of the new instance; without one the stack keeps its height.
hsl_instance_new_from_stack(c, argc) ==
  HostCalls("hsl_instance_new_from_stack") /\ InvokeCallable(c, argc)

\* The receiver's method: Invoke looks it up and reports every failure.
hsl_invoke(c, argc) ==
  /\ HostCalls("hsl_invoke") /\ Owns(argc + 1)
  /\ IF c = NativeFunction THEN InvokeNative(argc)
     ELSE CallOrThrow(c, argc) /\ UNCHANGED Host
  /\ UNCHANGED ReturnFrame

-----------------------------------------------------------------------------
Instruction ==
  \/ OpPush \/ OpPop \/ OpReturn \/ BranchLimit
  \/ \E argc \in 0 .. MaxArgs :
       OpCallNative(argc) \/ \E c \in Callables \cup {NotCallable} : OpCall(c, argc)
  \/ \E f \in Functions : OpImport(f)

HostStep ==
  \/ HostPush \/ HostPop \/ NativeReturn \/ hsl_run_call_frame
  \/ \E f \in Functions : RunFunction(f) \/ RunEntityFunction(f) \/ RunMain(f)
  \/ \E f \in Functions : hsl_run_module(f)
  \/ \E f \in Functions, argc \in 0 .. MaxArgs : hsl_setup_call_frame(f, argc)
  \/ \E c \in Callees : InvokeForEntity(c)
  \/ \E c \in Callees, argc \in 0 .. MaxArgs : hsl_call(c, argc)
  \/ \E c \in Callees, argc \in 0 .. MaxArgs : hsl_invoke_callable(c, argc)
  \/ \E c \in Callees, argc \in 0 .. MaxArgs : hsl_instance_new_from_stack(c, argc)
  \/ \E c \in Callees, argc \in 0 .. MaxArgs : hsl_invoke(c, argc)

Next == Instruction \/ LoopWithoutFrame \/ HostStep

Spec == Init /\ [][Next]_vars

-----------------------------------------------------------------------------
(* The contract: loops that count their own frames (NestedLoops). *)

\* Frames made while the k-th activation was the youngest.
FramesOf(k) ==
  (IF k = Len(Host) THEN FrameCount ELSE Host[k + 1].base) - Host[k].base

Contract == INSTANCE NestedLoops WITH
  levels  <- [k \in 1 .. Len(Host) |-> [kind |-> Host[k].kind, frames |-> FramesOf(k)]],
  pending <- IF Host = <<>> THEN FrameCount ELSE Host[1].base

\* One register, ReturnFrame, saved and restored by each C++ function that starts a
\* loop, does what a frame counter in every loop would do.
ImplementsNestedLoops == Contract!Spec

-----------------------------------------------------------------------------
(* Properties. *)

\* Frames do not overlap: a frame's slot 0 and parameters end below the next
\* frame's slots, and the top frame's below StackTop.  DO_RETURN cuts the stack
\* at Slots: an overlap would return a value into the caller's variables.
FrameOrder ==
  \A i \in 1 .. FrameCount :
    Frames[i].Slots + Frames[i].Arity + 1
      <= IF i < FrameCount THEN Frames[i + 1].Slots ELSE StackTop

\* Slots is the callee's slot, whatever optional and bound arguments were put
\* above it: so the result of a call replaces exactly callee and arguments.
SlotsAtCallee == \A i \in 1 .. FrameCount : Frames[i].Slots = Frames[i].callee

\* A loop executes only frames made since it was entered, never a frame of the
\* code that called the native function it was started from.
RunsOwnFrames == InLoop => FrameCount > Last(Host).base

\* The thread is left without a frame when no code runs on it.
IdleHasNoFrames == status = "running" /\ Host = <<>> => Frames = <<>>

\* No instruction is fetched from Frames[-1], no value is read or written before or
\* behind the stack.
Defined == status # "undefined"

=============================================================================

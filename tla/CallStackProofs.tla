--------------------------- MODULE CallStackProofs ---------------------------
(***************************************************************************)
(* Theorems about CallStack, for every stack size, frame limit, recursion  *)
(* depth and set of functions.                                             *)
(***************************************************************************)
EXTENDS CallStack, SequenceTheorems, TLAPS

\* No handler answers HSL_ERROR_RES_CONTINUE to a fatal error, so that Push never
\* drops a value.
NoDroppedValues == "CONTINUE" \notin FatalResponses

\* What TypeOK needs to be inductive: every Slots is the callee's slot, at most one
\* below the stack, and every saved StackTop is inside the stack, above the
\* arguments of the native function it belongs to.
FramesOK(fs) ==
  /\ fs \in Seq(Frame) /\ Len(fs) <= FramesMax
  /\ \A i \in 1 .. Len(fs) :
       fs[i].Slots = fs[i].callee /\ fs[i].Slots \in -1 .. StackMax - 1

RecordOK(r) ==
  /\ r \in Loop \cup Native /\ r.top <= StackMax
  /\ r.kind = "native" /\ r.after # "restore" => r.argc < r.top

HostOK(h) ==
  /\ h \in Seq(Loop \cup Native) /\ Len(h) <= HostMax
  /\ \A k \in 1 .. Len(h) : RecordOK(h[k])

TypeInv ==
  /\ StackTop \in 0 .. StackMax
  /\ FramesOK(Frames) /\ HostOK(Host)
  /\ ReturnFrame \in Nat
  /\ status \in {"running", "exited", "undefined"}

-----------------------------------------------------------------------------
(* The outcomes of a call. *)

\* Pushing n values where the stack has room, or a fatal error: if the pushes
\* return and values are not dropped, StackTop is n higher.
LEMMA PushOutcomes ==
  ASSUME NoDroppedValues, TypeOK, NEW top \in 0 .. StackMax, NEW n \in Nat,
         NEW p \in PushN(top, n)
  PROVE  /\ p.frames = Frames
         /\ p.status \in {"running", "exited", "undefined"}
         /\ p.top \in top .. StackMax
         /\ Ok(p) <=> p.status = "running"
         /\ Ok(p) => p.top = top + n
<1>1. CASE n = 0 \/ top + n <= StackMax
  BY <1>1, BoundsAssumption DEF PushN, Outcome, Ok
<1>2. CASE ~ (n = 0 \/ top + n <= StackMax)
  <2>1. PICK r \in FatalResponses :
          p = Outcome(IF r = "CONTINUE" THEN "ok" ELSE "failed", StackMax, Frames,
                      CASE r = "terminate" -> "exited"
                        [] r = "EXIT"      -> "undefined"
                        [] r = "CONTINUE"  -> "running")
    BY <1>2 DEF PushN
  <2>2. r = "terminate" \/ r = "EXIT"
    BY EnvironmentAssumption DEF NoDroppedValues
  <2> QED BY <2>1, <2>2, BoundsAssumption DEF Outcome, Ok
<1> QED BY <1>1, <1>2

\* What Call leaves behind.  A call that succeeds has made one frame whose slot 0
\* is the callee's slot and whose parameters end at StackTop; a call that fails
\* has made none.
CallResult(o, f, top, callee) ==
  /\ o.status \in {"running", "exited", "undefined"}
  /\ o.top \in top .. StackMax
  /\ Ok(o) => /\ o.status = "running" /\ FrameCount < FramesMax
             /\ o.frames = Append(Frames, [Slots |-> callee, Arity |-> Arity[f],
                                           callee |-> callee])
             /\ o.top = callee + Arity[f] + 1
  /\ ~ Ok(o) => o.frames = Frames

LEMMA CallOutcomes ==
  ASSUME NoDroppedValues, TypeOK, NEW f \in Functions, NEW argc \in Nat,
         NEW top \in 0 .. StackMax, NEW callee \in Int, callee = top - argc - 1,
         NEW o \in CallFunction(f, argc, top, callee)
  PROVE  CallResult(o, f, top, callee)
<1> Arity[f] \in Nat /\ MinArity[f] \in Nat
  BY FunctionsAssumption
<1>1. CASE argc < MinArity[f] \/ argc > Arity[f]
  BY <1>1, BoundsAssumption DEF CallFunction, Throw, Outcome, CallResult, Ok
<1>2. CASE ~ (argc < MinArity[f] \/ argc > Arity[f])
  <2>1. PICK p \in PushN(top, Arity[f] - argc) :
          o \in IF ~ Ok(p) THEN {p}
                ELSE IF FrameCount = FramesMax THEN Fatal(p.top)
                ELSE {Outcome("ok", p.top,
                              Append(Frames, NewFrame(f, p.top, callee)), "running")}
    BY <1>2 DEF CallFunction
  <2> Arity[f] - argc \in Nat
    BY <1>2
  <2>2. /\ p.frames = Frames
        /\ p.status \in {"running", "exited", "undefined"}
        /\ p.top \in top .. StackMax
        /\ Ok(p) <=> p.status = "running"
        /\ Ok(p) => p.top = top + (Arity[f] - argc)
    BY PushOutcomes
  <2>3. CASE ~ Ok(p)
    BY <2>1, <2>2, <2>3 DEF CallResult, Ok
  <2>4. CASE Ok(p) /\ FrameCount = FramesMax
    BY <2>1, <2>2, <2>4, BoundsAssumption, SMTT(30) DEF Fatal, Outcome, CallResult, Ok
  <2>5. CASE Ok(p) /\ FrameCount # FramesMax
    <3>1. FrameCount < FramesMax
      BY <2>5, BoundsAssumption DEF TypeOK, FrameCount
    <3>2. p.top - (Arity[f] + 1) = callee /\ p.top = callee + Arity[f] + 1
      BY <2>2, <2>5
    <3>3. o = Outcome("ok", p.top, Append(Frames, NewFrame(f, p.top, callee)), "running")
      BY <2>1, <2>5
    <3> QED BY <2>2, <3>1, <3>2, <3>3 DEF Outcome, NewFrame, CallResult, Ok
  <2> QED BY <2>2, <2>3, <2>4, <2>5
<1> QED BY <1>1, <1>2

\* The same of CallValue, whatever the callee: a bound method's arguments are
\* counted like passed ones.
LEMMA CallValueOutcomes ==
  ASSUME NoDroppedValues, TypeOK, NEW c \in Callables \cup {NotCallable},
         NEW argc \in Nat, NEW o \in CallValue(c, argc)
  PROVE  \E f \in Functions : CallResult(o, f, StackTop, StackTop - argc - 1)
<1>0. StackTop \in Nat /\ StackTop \in 0 .. StackMax /\ StackMax \in Nat
  BY BoundsAssumption DEF TypeOK, FrameCount
<1>1. CASE c \in Functions
  <2>1. o \in CallFunction(c, argc, StackTop, StackTop - argc - 1)
    BY <1>1 DEF CallValue
  <2> QED BY <1>0, <1>1, <2>1, CallOutcomes
<1>2. CASE c \in BoundMethods /\ c \notin Functions
  <2>1. o \in CallBoundMethod(c, argc, StackTop, StackTop - argc - 1)
    BY <1>2 DEF CallValue
  <2>2. Method[c] \in Functions /\ NumBound[c] \in Nat
    BY <1>2, FunctionsAssumption
  <2>3. CASE StackTop + NumBound[c] + argc >= StackMax
    BY <1>0, <2>1, <2>2, <2>3 DEF CallBoundMethod, Throw, Outcome, CallResult, Ok
  <2>4. CASE ~ (StackTop + NumBound[c] + argc >= StackMax)
    <3>1. o \in CallFunction(Method[c], NumBound[c] + argc, StackTop + NumBound[c],
                             StackTop - argc - 1)
      BY <2>1, <2>4 DEF CallBoundMethod
    <3>2. /\ StackTop + NumBound[c] \in 0 .. StackMax
          /\ NumBound[c] + argc \in Nat
          /\ StackTop - argc - 1 = (StackTop + NumBound[c]) - (NumBound[c] + argc) - 1
      BY <1>0, <2>2, <2>4
    <3>3. CallResult(o, Method[c], StackTop + NumBound[c], StackTop - argc - 1)
      BY <1>0, <2>2, <3>1, <3>2, CallOutcomes
    <3>4. CallResult(o, Method[c], StackTop, StackTop - argc - 1)
      BY <1>0, <2>2, <3>3 DEF CallResult, Ok
    <3> QED BY <2>2, <3>4
  <2> QED BY <2>3, <2>4
<1>3. CASE c = NotCallable
  <2>1. o \in Throw(StackTop)
    BY <1>3, FunctionsAssumption DEF CallValue
  <2>2. PICK f \in Functions : TRUE
    BY FunctionsAssumption
  <2>3. CallResult(o, f, StackTop, StackTop - argc - 1)
    BY <1>0, <2>1 DEF Throw, Outcome, CallResult, Ok
  <2> QED BY <2>2, <2>3
<1> QED BY <1>1, <1>2, <1>3 DEF Callables

-----------------------------------------------------------------------------
(* The stacks of frames and of C++ activations. *)

LEMMA TypeInvTypeOK == TypeInv => TypeOK
BY DEF TypeInv, TypeOK, FramesOK, HostOK, FrameCount

LEMMA PrefixLen ==
  ASSUME NEW S, NEW s \in Seq(S), NEW n \in Nat, n <= Len(s)
  PROVE  Len(SubSeq(s, 1, n)) = n
<1> DEFINE m == Len(SubSeq(s, 1, n))
<1>1. \A i \in 1 .. n : s[i] \in S
  BY LenProperties
<1>2. Len(SubSeq(s, 1, n)) = IF 1 <= n THEN n - 1 + 1 ELSE 0
  BY <1>1, SubSeqProperties
<1>3. m = IF 1 <= n THEN n - 1 + 1 ELSE 0
  BY <1>2, Zenon
<1> HIDE DEF m
<1>4. m = n
  BY <1>3
<1> QED BY <1>4, Zenon DEF m

LEMMA FrontLast ==
  ASSUME NEW S, NEW s \in Seq(S), s # <<>>
  PROVE  /\ Front(s) \in Seq(S) /\ Len(Front(s)) = Len(s) - 1
         /\ \A i \in 1 .. Len(s) - 1 : Front(s)[i] = s[i]
         /\ Len(s) \in Nat \ {0} /\ Last(s) = s[Len(s)] /\ Last(s) \in S
<1>1. Len(s) \in Nat \ {0}
  BY EmptySeq
<1>2. Len(s) - 1 \in Nat /\ Len(s) - 1 <= Len(s)
  BY <1>1
<1>3. Len(SubSeq(s, 1, Len(s) - 1)) = Len(s) - 1
  BY <1>2, PrefixLen, Zenon
<1>4. Len(Front(s)) = Len(s) - 1
  BY <1>3, Zenon DEF Front
<1>5. Front(s) \in Seq(S) /\ \A i \in 1 .. Len(s) - 1 : Front(s)[i] = s[i]
  BY DEF Front
<1>6. Last(s) = s[Len(s)] /\ Last(s) \in S
  BY <1>1 DEF Last
<1> QED BY <1>1, <1>4, <1>5, <1>6

LEMMA FramesFront ==
  ASSUME NEW fs, FramesOK(fs), fs # <<>>
  PROVE  /\ FramesOK(Front(fs)) /\ Len(Front(fs)) = Len(fs) - 1
         /\ \A i \in 1 .. Len(fs) - 1 : Front(fs)[i] = fs[i]
         /\ Last(fs) = fs[Len(fs)] /\ Len(fs) \in Nat \ {0} /\ Last(fs) \in Frame
         /\ Last(fs).Slots \in -1 .. StackMax - 1
<1>1. /\ Front(fs) \in Seq(Frame) /\ Len(Front(fs)) = Len(fs) - 1
      /\ \A i \in 1 .. Len(fs) - 1 : Front(fs)[i] = fs[i]
      /\ Len(fs) \in Nat \ {0} /\ Last(fs) = fs[Len(fs)] /\ Last(fs) \in Frame
  BY FrontLast DEF FramesOK
<1>2. FramesOK(Front(fs))
  BY <1>1, BoundsAssumption DEF FramesOK
<1>3. Last(fs).Slots \in -1 .. StackMax - 1
  BY <1>1 DEF FramesOK
<1> QED BY <1>1, <1>2, <1>3

LEMMA FramesAfterCall ==
  ASSUME TypeInv, NEW f \in Functions, NEW callee \in Int, callee >= -1,
         NEW top \in 0 .. StackMax, NEW o, CallResult(o, f, top, callee)
  PROVE  FramesOK(o.frames)
<1> Arity[f] \in Nat
  BY FunctionsAssumption
<1>1. CASE ~ Ok(o)
  BY <1>1 DEF CallResult, TypeInv
<1>2. CASE Ok(o)
  <2> DEFINE new == [Slots |-> callee, Arity |-> Arity[f], callee |-> callee]
  <2>1. new \in Frame /\ callee \in -1 .. StackMax - 1
    BY <1>2, BoundsAssumption DEF CallResult, Frame
  <2>2. o.frames = Append(Frames, new) /\ Len(Frames) < FramesMax
    BY <1>2 DEF CallResult, FrameCount
  <2> QED BY <2>1, <2>2, BoundsAssumption DEF TypeInv, FramesOK
<1> QED BY <1>1, <1>2

LEMMA HostFront ==
  ASSUME NEW h, HostOK(h), h # <<>>
  PROVE  /\ HostOK(Front(h)) /\ Len(Front(h)) = Len(h) - 1
         /\ \A i \in 1 .. Len(h) - 1 : Front(h)[i] = h[i]
         /\ Last(h) = h[Len(h)] /\ Len(h) \in Nat \ {0} /\ RecordOK(Last(h))
<1>1. /\ Front(h) \in Seq(Loop \cup Native) /\ Len(Front(h)) = Len(h) - 1
      /\ \A i \in 1 .. Len(h) - 1 : Front(h)[i] = h[i]
      /\ Len(h) \in Nat \ {0} /\ Last(h) = h[Len(h)]
  BY FrontLast DEF HostOK
<1>2. HostOK(Front(h)) /\ RecordOK(Last(h))
  BY <1>1, BoundsAssumption DEF HostOK
<1> QED BY <1>1, <1>2

LEMMA HostAppend ==
  ASSUME NEW h, HostOK(h), NEW r, RecordOK(r), Len(h) < HostMax
  PROVE  HostOK(Append(h, r))
BY BoundsAssumption DEF HostOK, RecordOK

LEMMA RecordsOK ==
  ASSUME TypeInv, NEW base \in Nat, NEW after \in {"restore", "keep"}
  PROVE  RecordOK(LoopRecord(base, after))
BY BoundsAssumption DEF TypeInv, LoopRecord, RecordOK, Loop, Native

LEMMA NativeRecordsOK ==
  ASSUME TypeInv, NEW argc \in Nat, NEW after \in {"push", "pop", "restore"},
         after # "restore" => argc < StackTop
  PROVE  RecordOK(NativeRecord(argc, after))
BY BoundsAssumption DEF TypeInv, NativeRecord, RecordOK, Loop, Native, FramesOK, FrameCount

-----------------------------------------------------------------------------
(* Type correctness: every index stays inside the stack. *)

\* What every step has to show of the next state.
TypeInvOf(top, frames, host, ret, s) ==
  /\ top \in 0 .. StackMax /\ FramesOK(frames) /\ HostOK(host)
  /\ ret \in Nat /\ s \in {"running", "exited", "undefined"}

LEMMA TypeInvNext ==
  ASSUME TypeInvOf(StackTop', Frames', Host', ReturnFrame', status')
  PROVE  TypeInv'
BY DEF TypeInvOf, TypeInv

\* The top frame's slots end at or above the stack's first slot.
LEMMA OperandsBound ==
  ASSUME TypeInv, Frames # <<>>, NEW n \in Nat,
         StackTop - n >= Last(Frames).Slots + Last(Frames).Arity + 1
  PROVE  StackTop - n \in 0 .. StackMax
<1>1. Last(Frames) \in Frame /\ Last(Frames).Slots \in -1 .. StackMax - 1
  BY FramesFront DEF TypeInv
<1> QED BY <1>1, BoundsAssumption DEF TypeInv, Frame

LEMMA OwnsBound ==
  ASSUME TypeInv, NEW n \in Nat, Owns(n)
  PROVE  StackTop - n \in 0 .. StackMax
<1>1. CASE InNative
  <2>1. Last(Host).top \in Nat
    BY <1>1, HostFront DEF InNative, TypeInv, RecordOK, Loop, Native
  <2> QED BY <1>1, <2>1, BoundsAssumption DEF Owns, TypeInv
<1>2. CASE ~ InNative /\ Frames # <<>>
  BY <1>2, OperandsBound DEF Owns
<1>3. CASE ~ InNative /\ Frames = <<>>
  BY <1>3, BoundsAssumption DEF Owns, TypeInv
<1> QED BY <1>1, <1>2, <1>3

LEMMA LeaveLoopTypes ==
  ASSUME TypeInv, Host # <<>>, NEW top \in 0 .. StackMax, NEW frames, FramesOK(frames),
         LeaveLoop(top, frames), status' \in {"running", "exited", "undefined"}
  PROVE  TypeInvOf(StackTop', Frames', Host', ReturnFrame', status')
<1>1. HostOK(Front(Host)) /\ RecordOK(Last(Host))
  BY HostFront DEF TypeInv
<1>2. Last(Host).top \in 0 .. StackMax /\ Last(Host).ret \in Nat
  BY <1>1, BoundsAssumption DEF RecordOK, Loop, Native
<1> QED BY <1>1, <1>2 DEF LeaveLoop, TypeInvOf, TypeInv

LEMMA FinishTypes ==
  ASSUME TypeInv, NEW top \in 0 .. StackMax, NEW frames, FramesOK(frames),
         Finish(top, frames), status' \in {"running", "exited", "undefined"}
  PROVE  TypeInvOf(StackTop', Frames', Host', ReturnFrame', status')
<1>1. CASE InLoop
  BY <1>1, LeaveLoopTypes DEF Finish, InLoop
<1>2. CASE ~ InLoop
  BY <1>2 DEF Finish, TypeInvOf, TypeInv
<1> QED BY <1>1, <1>2

LEMMA DoReturnTypes ==
  ASSUME TypeInv, InScript, NEW top \in 0 .. StackMax, DoReturn(top)
  PROVE  TypeInvOf(StackTop', Frames', Host', ReturnFrame', status')
<1>1. FramesOK(Front(Frames)) /\ Last(Frames).Slots \in -1 .. StackMax - 1
  BY FramesFront DEF TypeInv, InScript
<1>2. CASE FrameCount - 1 = ReturnFrame
  <2>1. Finish(top, Front(Frames))
    BY <1>2 DEF DoReturn
  <2>2. status' \in {"running", "exited", "undefined"}
    BY <1>2 DEF DoReturn, TypeInv
  <2> QED BY <1>1, <2>1, <2>2, FinishTypes
<1>3. CASE FrameCount - 1 # ReturnFrame
  BY <1>1, <1>3, BoundsAssumption DEF DoReturn, TypeInvOf, TypeInv
<1> QED BY <1>2, <1>3

\* The outcomes of a call, as far as types go.
OutcomeOK(o) ==
  /\ o.top \in 0 .. StackMax /\ FramesOK(o.frames)
  /\ o.status \in {"running", "exited", "undefined"}

LEMMA CallFunctionTypes ==
  ASSUME NoDroppedValues, TypeInv, NEW f \in Functions, NEW argc \in Nat,
         argc <= StackTop, NEW o \in CallFunction(f, argc, StackTop, StackTop - argc - 1)
  PROVE  OutcomeOK(o)
<1>1. StackTop \in 0 .. StackMax /\ StackMax \in Nat
  BY BoundsAssumption DEF TypeInv
<1>2. CallResult(o, f, StackTop, StackTop - argc - 1)
  BY <1>1, TypeInvTypeOK, CallOutcomes
<1>3. FramesOK(o.frames)
  BY <1>1, <1>2, FramesAfterCall
<1> QED BY <1>1, <1>2, <1>3 DEF CallResult, OutcomeOK

LEMMA CallValueTypes ==
  ASSUME NoDroppedValues, TypeInv, NEW c \in Callables \cup {NotCallable},
         NEW argc \in Nat, argc <= StackTop, NEW o \in CallValue(c, argc)
  PROVE  OutcomeOK(o)
<1>1. StackTop \in 0 .. StackMax /\ StackMax \in Nat
  BY BoundsAssumption DEF TypeInv
<1>2. PICK f \in Functions : CallResult(o, f, StackTop, StackTop - argc - 1)
  BY TypeInvTypeOK, CallValueOutcomes
<1>3. FramesOK(o.frames)
  BY <1>1, <1>2, FramesAfterCall
<1> QED BY <1>1, <1>2, <1>3 DEF CallResult, OutcomeOK

LEMMA OperandsInStack ==
  ASSUME TypeInv, InScript, NEW argc \in 0 .. MaxArgs, Operands >= argc + 1
  PROVE  argc \in Nat /\ argc < StackTop
<1>1. Last(Frames) \in Frame /\ Last(Frames).Slots \in -1 .. StackMax - 1
  BY FramesFront DEF TypeInv, InScript
<1> QED BY <1>1, BoundsAssumption DEF TypeInv, Frame, Operands

LEMMA CallOrThrowTypes ==
  ASSUME NoDroppedValues, TypeInv, NEW c \in Callables \cup {NotCallable},
         NEW argc \in Nat, argc <= StackTop, CallOrThrow(c, argc)
  PROVE  /\ StackTop' \in 0 .. StackMax /\ FramesOK(Frames')
         /\ status' \in {"running", "exited", "undefined"}
<1>1. PICK o \in CallValue(c, argc) :
        /\ StackTop' = o.top /\ Frames' = o.frames
        /\ IF Ok(o) \/ o.status # "running"
           THEN status' = o.status
           ELSE \E e \in Throw(o.top) : status' = e.status
  BY DEF CallOrThrow
<1>2. OutcomeOK(o)
  BY <1>1, CallValueTypes
<1>3. status' \in {"running", "exited", "undefined"}
  BY <1>1, <1>2 DEF OutcomeOK, Throw, Outcome
<1> QED BY <1>1, <1>2, <1>3 DEF OutcomeOK

LEMMA InstructionTypes ==
  ASSUME NoDroppedValues, TypeInv, Instruction
  PROVE  TypeInvOf(StackTop', Frames', Host', ReturnFrame', status')
<1> USE TypeInvTypeOK
<1>0. StackTop \in 0 .. StackMax /\ StackMax \in Nat /\ FramesOK(Frames) /\ HostOK(Host)
      /\ ReturnFrame \in Nat /\ status \in {"running", "exited", "undefined"}
  BY BoundsAssumption DEF TypeInv
<1>1. CASE OpPush
  <2>1. PICK p \in PushN(StackTop, 1) : StackTop' = p.top /\ status' = p.status
    BY <1>1 DEF OpPush
  <2>2. p.top \in StackTop .. StackMax /\ p.status \in {"running", "exited", "undefined"}
    BY <1>0, PushOutcomes
  <2> QED BY <1>0, <1>1, <2>1, <2>2 DEF OpPush, TypeInvOf
<1>2. CASE OpPop
  <2>1. StackTop - 1 >= Last(Frames).Slots + Last(Frames).Arity + 1
    <3>1. Last(Frames) \in Frame
      BY <1>0, <1>2, FramesFront DEF OpPop, InScript
    <3> QED BY <1>0, <1>2, <3>1 DEF OpPop, Operands, Frame
  <2>2. StackTop - 1 \in 0 .. StackMax
    BY <1>2, <2>1, OperandsBound DEF OpPop, InScript
  <2> QED BY <1>0, <1>2, <2>2 DEF OpPop, TypeInvOf
<1>3. CASE OpReturn
  <2>1. StackTop - 1 >= Last(Frames).Slots + Last(Frames).Arity + 1
    <3>1. Last(Frames) \in Frame
      BY <1>0, <1>3, FramesFront DEF OpReturn, InScript
    <3> QED BY <1>0, <1>3, <3>1 DEF OpReturn, Operands, Frame
  <2>2. StackTop - 1 \in 0 .. StackMax
    BY <1>3, <2>1, OperandsBound DEF OpReturn, InScript
  <2> QED BY <1>3, <2>2, DoReturnTypes DEF OpReturn
<1>4. CASE BranchLimit
  <2>1. CASE DoReturn(StackTop)
    BY <1>0, <1>4, <2>1, DoReturnTypes DEF BranchLimit
  <2>2. CASE status' = "exited" /\ UNCHANGED <<StackTop, Frames, ReturnFrame, Host>>
    BY <1>0, <2>2 DEF TypeInvOf
  <2> QED BY <1>4, <2>1, <2>2 DEF BranchLimit
<1>5. ASSUME NEW argc \in 0 .. MaxArgs, OpCallNative(argc)
      PROVE  TypeInvOf(StackTop', Frames', Host', ReturnFrame', status')
  <2>1. argc \in Nat /\ argc < StackTop
    BY <1>5, OperandsInStack DEF OpCallNative
  <2>2. RecordOK(NativeRecord(argc, "push"))
    BY <2>1, NativeRecordsOK
  <2>3. HostOK(Host')
    BY <1>0, <1>5, <2>2, HostAppend DEF OpCallNative, CanEnter
  <2> QED BY <1>0, <1>5, <2>3 DEF OpCallNative, TypeInvOf
<1>6. ASSUME NEW argc \in 0 .. MaxArgs, NEW c \in Callables \cup {NotCallable},
             OpCall(c, argc)
      PROVE  TypeInvOf(StackTop', Frames', Host', ReturnFrame', status')
  <2>1. argc \in Nat /\ argc < StackTop
    BY <1>6, OperandsInStack DEF OpCall
  <2> QED BY <1>0, <1>6, <2>1, CallOrThrowTypes DEF OpCall, TypeInvOf
<1>7. ASSUME NEW f \in Functions, OpImport(f)
      PROVE  TypeInvOf(StackTop', Frames', Host', ReturnFrame', status')
  <2>1. PICK o \in CallFunction(f, 0, StackTop, StackTop - 1) :
          /\ StackTop' = o.top /\ Frames' = o.frames
          /\ Host' = IF Ok(o) THEN Append(Host, LoopRecord(FrameCount, "keep")) ELSE Host
          /\ IF Ok(o) \/ o.status # "running"
             THEN status' = o.status
             ELSE \E e \in Throw(o.top) : status' = e.status
    BY <1>7 DEF OpImport
  <2>2. OutcomeOK(o)
    BY <1>0, <2>1, CallFunctionTypes
  <2>3. status' \in {"running", "exited", "undefined"}
    BY <2>1, <2>2 DEF OutcomeOK, Throw, Outcome
  <2>4. FrameCount \in Nat
    BY <1>0 DEF FramesOK, FrameCount
  <2>5. HostOK(Host')
    BY <1>0, <1>7, <2>1, <2>4, RecordsOK, HostAppend DEF OpImport, CanEnter
  <2> QED BY <1>0, <1>7, <2>1, <2>2, <2>3, <2>5 DEF OpImport, OutcomeOK, TypeInvOf
<1> QED BY <1>1, <1>2, <1>3, <1>4, <1>5, <1>6, <1>7 DEF Instruction

\* A function that is entered through Call and then runs a loop, or does not.
LEMMA EnterTypes ==
  ASSUME NoDroppedValues, TypeInv, NEW o, OutcomeOK(o), Len(Host) < HostMax,
         NEW base \in Nat, NEW after \in {"restore", "keep"},
         StackTop' \in {o.top, StackTop}, Frames' = o.frames,
         Host' \in {Host, Append(Host, LoopRecord(base, after))},
         ReturnFrame' \in Nat, status' \in {o.status, "undefined"}
  PROVE  TypeInvOf(StackTop', Frames', Host', ReturnFrame', status')
<1>1. HostOK(Append(Host, LoopRecord(base, after)))
  BY RecordsOK, HostAppend DEF TypeInv
<1> QED BY <1>1 DEF TypeInv, OutcomeOK, TypeInvOf

LEMMA RunAnywayTypes ==
  ASSUME NoDroppedValues, TypeInv, NEW f \in Functions, NEW argc \in Nat,
         argc <= StackTop, RunAnyway(f, argc)
  PROVE  TypeInvOf(StackTop', Frames', Host', ReturnFrame', status')
<1>1. StackTop \in Nat
  BY DEF TypeInv
<1>2. PICK o \in CallFunction(f, argc, StackTop, StackTop - argc - 1) :
        /\ StackTop' = o.top /\ Frames' = o.frames
        /\ status' = IF o.status = "running" /\ o.frames = <<>> THEN "undefined"
                     ELSE o.status
        /\ IF o.status = "running"
           THEN /\ Host' = Append(Host, LoopRecord(FrameCount, "restore"))
                /\ ReturnFrame' = FrameCount
           ELSE UNCHANGED <<Host, ReturnFrame>>
  BY DEF RunAnyway
<1>3. OutcomeOK(o)
  BY <1>1, <1>2, CallFunctionTypes
<1>4. FrameCount \in Nat /\ ReturnFrame' \in Nat
  BY <1>2 DEF TypeInv, FramesOK, FrameCount
<1> QED BY <1>2, <1>3, <1>4, EnterTypes DEF RunAnyway, CanEnter

LEMMA SetupTypes ==
  ASSUME NoDroppedValues, TypeInv, NEW f \in Functions, NEW argc \in Nat,
         SetupCallFrame(f, argc)
  PROVE  \E o : /\ OutcomeOK(o) /\ Frames' = o.frames /\ StackTop' = o.top
                /\ status' = o.status /\ ReturnFrame' \in Nat
<1>1. StackTop \in Nat /\ argc <= StackTop
  BY OwnsBound DEF TypeInv, SetupCallFrame
<1>2. PICK o \in CallFunction(f, argc, StackTop, StackTop - argc - 1) :
        /\ StackTop' = o.top /\ Frames' = o.frames /\ status' = o.status
        /\ ReturnFrame' = IF Ok(o) THEN Len(o.frames) - 1 ELSE ReturnFrame
  BY DEF SetupCallFrame
<1>3. OutcomeOK(o)
  BY <1>1, <1>2, CallFunctionTypes
<1>4. Ok(o) => Len(o.frames) = FrameCount + 1
  <2>1. CallResult(o, f, StackTop, StackTop - argc - 1)
    BY <1>1, <1>2, TypeInvTypeOK, CallOutcomes DEF TypeInv
  <2> DEFINE slot == StackTop - argc - 1
  <2>2. [Slots |-> slot, Arity |-> Arity[f], callee |-> slot] \in Frame
    BY <1>1, FunctionsAssumption DEF Frame
  <2> QED BY <2>1, <2>2 DEF CallResult, TypeInv, FramesOK, FrameCount
<1>5. ReturnFrame' \in Nat
  BY <1>2, <1>4 DEF TypeInv, FramesOK, FrameCount
<1> QED BY <1>2, <1>3, <1>5

LEMMA InvokeNativeTypes ==
  ASSUME TypeInv, NEW argc \in Nat, argc < StackTop, InvokeNative(argc),
         UNCHANGED ReturnFrame
  PROVE  TypeInvOf(StackTop', Frames', Host', ReturnFrame', status')
<1>1. HostOK(Host')
  BY NativeRecordsOK, HostAppend DEF InvokeNative, CanEnter, TypeInv
<1> QED BY <1>1 DEF InvokeNative, TypeInvOf, TypeInv

LEMMA HostTypes ==
  ASSUME NoDroppedValues, TypeInv, HostStep
  PROVE  TypeInvOf(StackTop', Frames', Host', ReturnFrame', status')
<1>0. /\ StackTop \in 0 .. StackMax /\ StackMax \in Nat
      /\ FramesOK(Frames) /\ HostOK(Host) /\ FrameCount \in Nat
      /\ ReturnFrame \in Nat /\ status \in {"running", "exited", "undefined"}
  BY BoundsAssumption DEF TypeInv, FramesOK, FrameCount
<1>1. CASE HostPush
  BY <1>0, <1>1 DEF HostPush, TypeInvOf
<1>2. CASE HostPop
  <2>1. StackTop - 1 \in 0 .. StackMax
    BY <1>2, OwnsBound DEF HostPop
  <2> QED BY <1>0, <1>2, <2>1 DEF HostPop, TypeInvOf
<1>3. CASE NativeReturn
  <2> DEFINE native == Last(Host)
  <2>1. HostOK(Front(Host)) /\ RecordOK(native) /\ native.kind = "native"
    BY <1>0, <1>3, HostFront DEF NativeReturn, InNative
  <2>2. /\ native.argc \in Nat /\ native.top = StackTop /\ native.ret \in Nat
        /\ native.after \in {"push", "pop", "restore"}
        /\ native.after # "restore" => native.argc < native.top
    BY <1>3, <2>1 DEF RecordOK, Loop, Native, NativeReturn
  <2>3. StackTop' \in 0 .. StackMax
    BY <1>0, <1>3, <2>2 DEF NativeReturn
  <2> QED BY <1>0, <1>3, <2>1, <2>2, <2>3 DEF NativeReturn, TypeInvOf
<1>4. CASE hsl_run_call_frame
  <2>1. (IF Host = <<>> THEN 0 ELSE FrameCount - 1) \in Nat
    BY <1>0, <1>4, FramesFront DEF hsl_run_call_frame, FrameCount
  <2>2. HostOK(Host')
    BY <1>0, <1>4, <2>1, RecordsOK, HostAppend DEF hsl_run_call_frame, CanEnter
  <2> QED BY <1>0, <1>4, <2>2 DEF hsl_run_call_frame, TypeInvOf
<1>5. ASSUME NEW f \in Functions, RunFunction(f)
      PROVE  TypeInvOf(StackTop', Frames', Host', ReturnFrame', status')
  BY <1>0, <1>5, RunAnywayTypes DEF RunFunction
<1>6. ASSUME NEW f \in Functions, RunEntityFunction(f)
      PROVE  TypeInvOf(StackTop', Frames', Host', ReturnFrame', status')
  <2>1. 2 <= StackTop
    BY <1>0, <1>6, OwnsBound DEF RunEntityFunction
  <2> QED BY <1>6, <2>1, RunAnywayTypes DEF RunEntityFunction
<1>7. ASSUME NEW f \in Functions, RunMain(f)
      PROVE  TypeInvOf(StackTop', Frames', Host', ReturnFrame', status')
  <2>1. PICK o \in CallFunction(f, 0, StackTop, StackTop - 0 - 1) :
          /\ StackTop' = o.top /\ Frames' = o.frames /\ status' = o.status
          /\ Host' = IF Ok(o) THEN Append(Host, LoopRecord(FrameCount, "keep")) ELSE Host
    BY <1>0, <1>7 DEF RunMain
  <2>2. OutcomeOK(o)
    BY <1>0, <2>1, CallFunctionTypes
  <2> QED BY <1>0, <1>7, <2>1, <2>2, EnterTypes DEF RunMain, CanEnter
<1>8. ASSUME NEW f \in Functions, hsl_run_module(f)
      PROVE  TypeInvOf(StackTop', Frames', Host', ReturnFrame', status')
  <2>1. PICK o : /\ OutcomeOK(o) /\ Frames' = o.frames /\ StackTop' = o.top
                 /\ status' = o.status /\ ReturnFrame' \in Nat
    BY <1>8, SetupTypes DEF hsl_run_module
  <2> QED BY <1>0, <1>8, <2>1, EnterTypes DEF hsl_run_module, CanEnter
<1>9. ASSUME NEW f \in Functions, NEW argc \in 0 .. MaxArgs, hsl_setup_call_frame(f, argc)
      PROVE  TypeInvOf(StackTop', Frames', Host', ReturnFrame', status')
  <2>1. PICK o : /\ OutcomeOK(o) /\ Frames' = o.frames /\ StackTop' = o.top
                 /\ status' = o.status /\ ReturnFrame' \in Nat
    BY <1>9, SetupTypes DEF hsl_setup_call_frame
  <2> QED BY <1>0, <1>9, <2>1 DEF hsl_setup_call_frame, OutcomeOK, TypeInvOf
<1>10. ASSUME NEW c \in Callees, InvokeForEntity(c)
       PROVE  TypeInvOf(StackTop', Frames', Host', ReturnFrame', status')
  <2>1. CASE c = NativeFunction
    <3>1. RecordOK(NativeRecord(0, "restore"))
      BY NativeRecordsOK
    <3>2. HostOK(Host')
      BY <1>0, <1>10, <2>1, <3>1, HostAppend DEF InvokeForEntity, CanEnter
    <3> QED BY <1>0, <1>10, <2>1, <3>2 DEF InvokeForEntity, TypeInvOf
  <2>2. CASE c # NativeFunction
    <3>1. PICK o \in CallValue(c, 0) :
            /\ status' = o.status /\ Frames' = o.frames
            /\ IF Ok(o)
               THEN /\ Host' = Append(Host, LoopRecord(FrameCount, "restore"))
                    /\ ReturnFrame' = FrameCount /\ StackTop' = o.top
               ELSE UNCHANGED <<StackTop, ReturnFrame, Host>>
      BY <1>10, <2>2 DEF InvokeForEntity
    <3>2. OutcomeOK(o)
      BY <1>0, <2>2, <3>1, CallValueTypes DEF Callees, Callables
    <3> QED BY <1>0, <1>10, <3>1, <3>2, EnterTypes DEF InvokeForEntity, CanEnter
  <2> QED BY <2>1, <2>2
<1>11. ASSUME NEW c \in Callees, NEW argc \in 0 .. MaxArgs, hsl_call(c, argc)
       PROVE  TypeInvOf(StackTop', Frames', Host', ReturnFrame', status')
  <2>1. argc \in Nat /\ argc < StackTop
    BY <1>0, <1>11, OwnsBound, BoundsAssumption DEF hsl_call
  <2>2. CASE c = NativeFunction
    <3>1. HostOK(Host')
      BY <1>0, <1>11, <2>1, <2>2, NativeRecordsOK, HostAppend DEF hsl_call, CanEnter
    <3> QED BY <1>0, <1>11, <2>2, <3>1 DEF hsl_call, TypeInvOf
  <2>3. CASE c # NativeFunction
    <3>1. PICK o \in CallValue(c, argc) :
            /\ StackTop' = o.top /\ Frames' = o.frames /\ status' = o.status
            /\ Host' = IF Ok(o) THEN Append(Host, LoopRecord(FrameCount, "keep")) ELSE Host
      BY <1>11, <2>3 DEF hsl_call
    <3>2. OutcomeOK(o)
      BY <1>0, <2>1, <2>3, <3>1, CallValueTypes DEF Callees, Callables
    <3> QED BY <1>0, <1>11, <3>1, <3>2, EnterTypes DEF hsl_call, CanEnter
  <2> QED BY <2>2, <2>3
<1>12. ASSUME NEW c \in Callees, NEW argc \in 0 .. MaxArgs,
              hsl_invoke_callable(c, argc) \/ hsl_instance_new_from_stack(c, argc)
       PROVE  TypeInvOf(StackTop', Frames', Host', ReturnFrame', status')
  <2>1. InvokeCallable(c, argc)
    BY <1>12 DEF hsl_invoke_callable, hsl_instance_new_from_stack
  <2>2. argc \in Nat /\ argc < StackTop
    BY <1>0, <2>1, OwnsBound, BoundsAssumption DEF InvokeCallable
  <2>3. CASE c = NativeFunction
    BY <2>1, <2>2, <2>3, InvokeNativeTypes DEF InvokeCallable
  <2>4. CASE c # NativeFunction
    <3>1. PICK o \in CallValue(c, argc) :
            StackTop' = o.top /\ Frames' = o.frames /\ status' = o.status
      BY <2>1, <2>4 DEF InvokeCallable
    <3>2. OutcomeOK(o)
      BY <1>0, <2>2, <2>4, <3>1, CallValueTypes DEF Callees, Callables
    <3> QED BY <1>0, <2>1, <2>4, <3>1, <3>2 DEF InvokeCallable, OutcomeOK, TypeInvOf
  <2> QED BY <2>3, <2>4
<1>13. ASSUME NEW c \in Callees, NEW argc \in 0 .. MaxArgs, hsl_invoke(c, argc)
       PROVE  TypeInvOf(StackTop', Frames', Host', ReturnFrame', status')
  <2>1. argc \in Nat /\ argc < StackTop
    BY <1>0, <1>13, OwnsBound, BoundsAssumption DEF hsl_invoke
  <2>2. CASE c = NativeFunction
    BY <1>13, <2>1, <2>2, InvokeNativeTypes DEF hsl_invoke
  <2>3. CASE c # NativeFunction
    <3>1. CallOrThrow(c, argc) /\ c \in Callables \cup {NotCallable}
      BY <1>13, <2>3 DEF hsl_invoke, Callees, Callables
    <3>2. /\ StackTop' \in 0 .. StackMax /\ FramesOK(Frames')
          /\ status' \in {"running", "exited", "undefined"}
      BY <1>0, <2>1, <3>1, CallOrThrowTypes
    <3> QED BY <1>0, <1>13, <2>3, <3>2 DEF hsl_invoke, TypeInvOf
  <2> QED BY <2>2, <2>3
<1> QED BY <1>1, <1>2, <1>3, <1>4, <1>5, <1>6, <1>7, <1>8, <1>9, <1>10, <1>11, <1>12,
           <1>13
        DEF HostStep

LEMMA InitTypes == Init => TypeInv
BY BoundsAssumption DEF Init, TypeInv, FramesOK, HostOK

LEMMA StepTypes == NoDroppedValues /\ TypeInv /\ [Next]_vars => TypeInv'
<1> SUFFICES ASSUME NoDroppedValues, TypeInv, [Next]_vars PROVE TypeInv'
  OBVIOUS
<1>1. CASE Instruction
  BY <1>1, InstructionTypes, TypeInvNext
<1>2. CASE HostStep
  BY <1>2, HostTypes, TypeInvNext
<1>3. CASE LoopWithoutFrame
  <2>1. TypeInvOf(StackTop', Frames', Host', ReturnFrame', status')
    BY <1>3, LeaveLoopTypes DEF LoopWithoutFrame, InLoop, TypeInv, TypeInvOf
  <2> QED BY <2>1, TypeInvNext
<1>4. CASE UNCHANGED vars
  BY <1>4 DEF vars, TypeInv
<1> QED BY <1>1, <1>2, <1>3, <1>4 DEF Next

\* Whatever the embedding program calls, whatever it answers to runtime errors and
\* whether or not scripts import: StackTop stays inside Stack[], FrameCount inside
\* Frames[] (VMThread::Push, VMThread::Call, CallBoundMethod).
THEOREM TypeCorrect == ASSUME NoDroppedValues PROVE Spec => []TypeOK
<1>1. Init => TypeInv
  BY InitTypes
<1>2. TypeInv /\ [Next]_vars => TypeInv'
  BY StepTypes
<1>3. TypeInv => TypeOK
  BY TypeInvTypeOK
<1> QED BY <1>1, <1>2, <1>3, PTL DEF Spec

\* A frame's slot 0 is the callee's slot: missing optional arguments and bound
\* arguments (Call, CallBoundMethod) never shift it, so that DO_RETURN replaces
\* exactly the callee and its arguments by the result.
THEOREM CalleeSlots == ASSUME NoDroppedValues PROVE Spec => []SlotsAtCallee
<1>1. Init => TypeInv
  BY InitTypes
<1>2. TypeInv /\ [Next]_vars => TypeInv'
  BY StepTypes
<1>3. TypeInv => SlotsAtCallee
  BY DEF TypeInv, FramesOK, SlotsAtCallee, FrameCount
<1> QED BY <1>1, <1>2, <1>3, PTL DEF Spec

=============================================================================

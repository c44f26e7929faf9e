-------------------------- MODULE NestedLoopsProofs --------------------------
(***************************************************************************)
(* That the register ReturnFrame, which all loops of a thread share, does  *)
(* what a frame counter in every loop would do (NestedLoops), for every    *)
(* embedding that keeps to the rules of Disciplined; and what follows for  *)
(* the frames, the loops and the stack.                                    *)
(***************************************************************************)
EXTENDS CallStackProofs

RunsAnyway == {"RunFunction", "RunEntityFunction"}

\* The rules.  Native functions call back only through functions that put ReturnFrame
\* back (hsl_call, hsl_run_module and imports do not); a frame that was set up is
\* run or stepped through before anything else is called; and where loops are run
\* whatever Call returned, an error does not come back.  Each is necessary.
Disciplined ==
  /\ NoDroppedValues /\ ~ Imports
  /\ Embedding["native"] \subseteq {"push", "pop", "InvokeForEntity"} \cup RunsAnyway
  /\ Embedding["pending"] \subseteq
       {"push", "pop", "hsl_run_call_frame", "hsl_run_call_frame_instruction"}
  /\ \/ (Embedding["native"] \cup Embedding["idle"]) \cap RunsAnyway = {}
     \/ RuntimeResponses \cup FatalResponses \subseteq {"terminate"}

-----------------------------------------------------------------------------
(* The inductive invariant: what every activation has saved, related to the *)
(* frames, the register and the activation above it.                        *)

\* The slot above a frame's parameters.
EndOf(i) == Frames[i].Slots + Frames[i].Arity + 1

\* FrameCount, ReturnFrame and StackTop when the activation above the k-th was entered.
NextBase(k) == IF k = Len(Host) THEN FrameCount ELSE Host[k + 1].base
Register(k) == IF k = Len(Host) THEN ReturnFrame ELSE Host[k + 1].ret
NextTop(k) == IF k = Len(Host) THEN StackTop ELSE Host[k + 1].top

\* A loop: it has frames of its own, and the register holds the count it started from.
LoopNested(k) ==
  /\ NextBase(k) > Host[k].base /\ Register(k) = Host[k].base
  /\ Host[k].base > 0 => EndOf(Host[k].base) <= Host[k].top
  /\ Host[k].after = "keep" => k = 1
  /\ k = 1 => Host[k].base = 0
  /\ k > 1 => Host[k - 1].kind = "native"

\* A native function: it leaves the frames and the arguments of its caller alone.
NativeNested(k) ==
  /\ NextBase(k) = Host[k].base
  /\ Host[k].after # "restore" => Register(k) = Host[k].ret
  /\ NextTop(k) >= Host[k].top
  /\ Host[k].base > 0 => EndOf(Host[k].base) <= Host[k].top - Host[k].argc - 1
  /\ k > 1 /\ Host[k - 1].kind = "native" => Host[k].after = "restore"
  /\ Host[k].after = "restore" => Host[k].argc = 0

Nested ==
  /\ FrameOrder /\ Register(0) = 0
  /\ \A j, k \in 1 .. Len(Host) : j <= k => Host[j].base <= Host[k].base
  /\ \A k \in 1 .. Len(Host) : Host[k].base <= FrameCount
  /\ \A k \in 1 .. Len(Host) : Host[k].kind = "run" => LoopNested(k)
  /\ \A k \in 1 .. Len(Host) : Host[k].kind = "native" => NativeNested(k)

-----------------------------------------------------------------------------
(* What a step of a disciplined thread does to the activations and the frames. *)

TopKind == IF Len(Host) = 0 THEN "none" ELSE Host[Len(Host)].kind

\* top is above what the code whose turn it is may not touch.
Above(top) ==
  /\ FrameCount > 0 => EndOf(FrameCount) <= top
  /\ TopKind = "native" => Host[Len(Host)].top <= top

MakesFrame(fr) ==
  /\ fr \in Frame /\ Frames' = Append(Frames, fr)
  /\ StackTop' = fr.Slots + fr.Arity + 1
  /\ FrameCount > 0 => EndOf(FrameCount) <= fr.Slots

MovesTop == Above(StackTop') /\ UNCHANGED <<Frames, Host, ReturnFrame>>

Calls ==
  /\ TopKind # "native"
  /\ \E fr \in Frame : MakesFrame(fr)
  /\ UNCHANGED <<Host, ReturnFrame>>

Returns ==
  /\ TopKind # "native" /\ FrameCount > 0 /\ FrameCount - 1 # ReturnFrame
  /\ Frames' = Front(Frames) /\ StackTop' = Frames[FrameCount].Slots + 1
  /\ UNCHANGED <<Host, ReturnFrame>>

Finishes ==
  /\ TopKind = "none" /\ FrameCount > 0 /\ FrameCount - 1 = ReturnFrame
  /\ Frames' = Front(Frames)
  /\ UNCHANGED <<Host, ReturnFrame>>

LeavesLoop ==
  /\ TopKind = "run" /\ FrameCount > 0 /\ FrameCount - 1 = ReturnFrame
  /\ Frames' = Front(Frames) /\ Host' = Front(Host)
  /\ IF Host[Len(Host)].after = "restore"
     THEN StackTop' = Host[Len(Host)].top /\ ReturnFrame' = Host[Len(Host)].ret
     ELSE UNCHANGED ReturnFrame

EntersNative ==
  \E argc \in Nat, after \in {"push", "pop", "restore"} :
    /\ Host' = Append(Host, NativeRecord(argc, after))
    /\ ReturnFrame' = IF after = "restore" THEN FrameCount ELSE ReturnFrame
    /\ after = "restore" => argc = 0
    /\ TopKind = "native" => after = "restore"
    /\ after = "restore" => TopKind = "native" \/ "InvokeForEntity" \in Embedding["idle"]
    /\ FrameCount > 0 => EndOf(FrameCount) <= StackTop - argc - 1
    /\ UNCHANGED <<StackTop, Frames>>

LeavesNative ==
  LET native == Host[Len(Host)]
  IN  /\ TopKind = "native" /\ Host' = Front(Host) /\ UNCHANGED Frames
      /\ IF native.after = "restore"
         THEN StackTop' = native.top /\ ReturnFrame' = native.ret
         ELSE StackTop' \in {native.top - native.argc, native.top - native.argc - 1}
              /\ UNCHANGED ReturnFrame

EntersLoop ==
  \E after \in {"restore", "keep"} :
    /\ Host' = Append(Host, LoopRecord(FrameCount, after)) /\ ReturnFrame' = FrameCount
    /\ \E fr \in Frame : MakesFrame(fr)
    /\ IF TopKind = "none" THEN FrameCount = 0 ELSE TopKind = "native" /\ after = "restore"

RunsPending ==
  /\ TopKind = "none" /\ FrameCount > 0
  /\ Host' = Append(Host, LoopRecord(0, "keep"))
  /\ UNCHANGED <<StackTop, Frames, ReturnFrame>>

Move ==
  \/ MovesTop \/ Calls \/ Returns \/ Finishes \/ LeavesLoop
  \/ EntersNative \/ LeavesNative \/ EntersLoop \/ RunsPending


-----------------------------------------------------------------------------
(* Every move keeps the invariant. *)

LEMMA Shapes ==
  ASSUME TypeInv
  PROVE  /\ FrameCount \in Nat /\ Len(Host) \in Nat /\ StackTop \in Nat /\ ReturnFrame \in Nat
         /\ \A i \in 1 .. FrameCount :
              Frames[i] \in Frame /\ Frames[i].Slots \in Int /\ Frames[i].Arity \in Nat
         /\ \A k \in 1 .. Len(Host) :
              /\ Host[k] \in Loop \cup Native
              /\ Host[k].base \in Nat /\ Host[k].ret \in Nat /\ Host[k].top \in Nat
              /\ Host[k].kind \in {"run", "native"}
              /\ Host[k].kind = "native" => Host[k].argc \in Nat
<1>1. FrameCount \in Nat /\ Len(Host) \in Nat /\ StackTop \in Nat /\ ReturnFrame \in Nat
  BY BoundsAssumption DEF TypeInv, FramesOK, HostOK, FrameCount
<1>2. ASSUME NEW i \in 1 .. FrameCount
      PROVE  Frames[i] \in Frame /\ Frames[i].Slots \in Int /\ Frames[i].Arity \in Nat
  <2>1. Frames[i] \in Frame
    BY <1>2 DEF TypeInv, FramesOK, FrameCount
  <2> QED BY <2>1 DEF Frame
<1>3. ASSUME NEW k \in 1 .. Len(Host)
      PROVE  /\ Host[k] \in Loop \cup Native
             /\ Host[k].base \in Nat /\ Host[k].ret \in Nat /\ Host[k].top \in Nat
             /\ Host[k].kind \in {"run", "native"}
             /\ Host[k].kind = "native" => Host[k].argc \in Nat
  <2>1. Host[k] \in Loop \cup Native
    BY <1>3 DEF TypeInv, HostOK
  <2>2. CASE Host[k] \in Loop
    BY <2>2 DEF Loop
  <2>3. CASE Host[k] \in Native
    BY <2>3 DEF Native
  <2> QED BY <2>1, <2>2, <2>3
<1> QED BY <1>1, <1>2, <1>3

\* A record that a step leaves where it is, together with the one below it, the frame
\* it was entered on, and what the record above it has saved.
LEMMA LoopStays ==
  ASSUME Nested, NEW k \in 1 .. Len(Host), Host[k].kind = "run",
         Host'[k] = Host[k], k > 1 => Host'[k - 1] = Host[k - 1],
         Host[k].base > 0 => Frames'[Host[k].base] = Frames[Host[k].base],
         NextBase(k)' > Host[k].base, Register(k)' = Register(k)
  PROVE  LoopNested(k)'
BY DEF Nested, LoopNested, EndOf

LEMMA NativeStays ==
  ASSUME Nested, NEW k \in 1 .. Len(Host), Host[k].kind = "native",
         Host'[k] = Host[k], k > 1 => Host'[k - 1] = Host[k - 1],
         Host[k].base > 0 => Frames'[Host[k].base] = Frames[Host[k].base],
         NextBase(k)' = NextBase(k), Register(k)' = Register(k), NextTop(k)' >= Host[k].top
  PROVE  NativeNested(k)'
BY DEF Nested, NativeNested, EndOf

\* The frames that records were entered on.
LEMMA BasesBelow ==
  ASSUME TypeInv, Nested, NEW k \in 1 .. Len(Host), Host[k].base > 0
  PROVE  Host[k].base \in 1 .. FrameCount
BY Shapes DEF Nested

LEMMA MovesTopKeeps == TypeInv /\ Nested /\ MovesTop => Nested'
<1> SUFFICES ASSUME TypeInv, Nested, MovesTop PROVE Nested'
  OBVIOUS
<1>0. Frames' = Frames /\ Host' = Host /\ ReturnFrame' = ReturnFrame
  BY DEF MovesTop
<1>1. FrameOrder'
  <2>1. FrameCount' = FrameCount
    BY <1>0 DEF FrameCount
  <2>2. ASSUME NEW i \in 1 .. FrameCount
        PROVE  Frames'[i].Slots + Frames'[i].Arity + 1
                 <= IF i < FrameCount THEN Frames'[i + 1].Slots ELSE StackTop'
    <3>1. CASE i < FrameCount
      BY <1>0, <3>1 DEF FrameOrder, Nested
    <3>2. CASE i = FrameCount
      BY <1>0, <3>2, Shapes DEF MovesTop, Above, EndOf
    <3> QED BY <3>1, <3>2, Shapes
  <2> QED BY <2>1, <2>2 DEF FrameOrder
<1>2. Register(0)' = 0
  BY <1>0 DEF Register, Nested
<1>3. \A k \in 1 .. Len(Host) : NextBase(k)' = NextBase(k) /\ Register(k)' = Register(k)
  BY <1>0 DEF NextBase, Register, FrameCount
<1>4. ASSUME NEW k \in 1 .. Len(Host), Host[k].kind = "run" PROVE LoopNested(k)'
  <2>1. NextBase(k)' > Host[k].base
    BY <1>3, <1>4 DEF Nested, LoopNested
  <2> QED BY <1>0, <1>3, <1>4, <2>1, LoopStays
<1>5. ASSUME NEW k \in 1 .. Len(Host), Host[k].kind = "native" PROVE NativeNested(k)'
  <2>1. NextTop(k)' >= Host[k].top
    BY <1>0, <1>5 DEF Nested, MovesTop, Above, TopKind, NativeNested, NextTop
  <2> QED BY <1>0, <1>3, <1>5, <2>1, NativeStays
<1>6. FrameCount' = FrameCount
  BY <1>0 DEF FrameCount
<1> QED BY <1>0, <1>1, <1>2, <1>4, <1>5, <1>6 DEF Nested

LEMMA AppendShape ==
  ASSUME NEW S, NEW s \in Seq(S), NEW e \in S
  PROVE  /\ Len(Append(s, e)) = Len(s) + 1
         /\ \A i \in 1 .. Len(s) : Append(s, e)[i] = s[i]
         /\ Append(s, e)[Len(s) + 1] = e
BY AppendProperties

\* A new frame lies above the old ones.
LEMMA NewFrameOrder ==
  ASSUME TypeInv, FrameOrder, NEW fr \in Frame, MakesFrame(fr)
  PROVE  /\ FrameOrder' /\ FrameCount' = FrameCount + 1
         /\ \A i \in 1 .. FrameCount : Frames'[i] = Frames[i]
<1>1. /\ Len(Frames') = FrameCount + 1 /\ Frames'[FrameCount + 1] = fr
      /\ \A i \in 1 .. FrameCount : Frames'[i] = Frames[i]
  BY AppendShape DEF MakesFrame, TypeInv, FramesOK, FrameCount
<1>2. fr.Slots \in Int /\ fr.Arity \in Nat
  BY DEF Frame
<1>3. ASSUME NEW i \in 1 .. FrameCount + 1
      PROVE  Frames'[i].Slots + Frames'[i].Arity + 1
               <= IF i < FrameCount + 1 THEN Frames'[i + 1].Slots ELSE StackTop'
  <2>1. CASE i = FrameCount + 1
    BY <1>1, <1>2, <2>1, Shapes DEF MakesFrame
  <2>2. CASE i = FrameCount
    BY <1>1, <1>2, <2>2, Shapes DEF MakesFrame, EndOf
  <2>3. CASE i < FrameCount
    <3>1. i \in 1 .. FrameCount /\ i + 1 \in 1 .. FrameCount
      BY <2>3, Shapes
    <3>2. Frames[i].Slots + Frames[i].Arity + 1 <= Frames[i + 1].Slots
      BY <2>3, <3>1 DEF FrameOrder
    <3> QED BY <1>1, <2>3, <3>1, <3>2, Shapes
  <2> QED BY <2>1, <2>2, <2>3, Shapes
<1> QED BY <1>1, <1>3, Shapes DEF FrameOrder, FrameCount

\* What is left when the top frame has returned.
LEMMA OldFrameOrder ==
  ASSUME TypeInv, FrameOrder, FrameCount > 0, Frames' = Front(Frames), StackTop' \in Int,
         FrameCount > 1 => EndOf(FrameCount - 1) <= StackTop'
  PROVE  /\ FrameOrder' /\ FrameCount' = FrameCount - 1
         /\ \A i \in 1 .. FrameCount - 1 : Frames'[i] = Frames[i]
<1>1. /\ Len(Frames') = FrameCount - 1
      /\ \A i \in 1 .. FrameCount - 1 : Frames'[i] = Frames[i]
  BY FramesFront DEF TypeInv, FrameCount
<1>2. ASSUME NEW i \in 1 .. FrameCount - 1
      PROVE  Frames'[i].Slots + Frames'[i].Arity + 1
               <= IF i < FrameCount - 1 THEN Frames'[i + 1].Slots ELSE StackTop'
  <2>1. CASE i = FrameCount - 1
    BY <1>1, <2>1, Shapes DEF EndOf
  <2>2. CASE i < FrameCount - 1
    <3>1. /\ i \in 1 .. FrameCount /\ i < FrameCount
          /\ i \in 1 .. FrameCount - 1 /\ i + 1 \in 1 .. FrameCount - 1
      BY <2>2, Shapes
    <3>2. Frames[i].Slots + Frames[i].Arity + 1 <= Frames[i + 1].Slots
      BY <3>1 DEF FrameOrder
    <3> QED BY <1>1, <2>2, <3>1, <3>2
  <2> QED BY <2>1, <2>2, Shapes
<1> QED BY <1>1, <1>2, Shapes DEF FrameOrder, FrameCount

LEMMA CallsKeeps == TypeInv /\ Nested /\ Calls => Nested'
<1> SUFFICES ASSUME TypeInv, Nested, Calls PROVE Nested'
  OBVIOUS
<1>1. PICK fr \in Frame : MakesFrame(fr)
  BY DEF Calls
<1>2. /\ FrameOrder' /\ FrameCount' = FrameCount + 1
      /\ \A i \in 1 .. FrameCount : Frames'[i] = Frames[i]
  BY <1>1, NewFrameOrder DEF Nested
<1>3. Host' = Host /\ ReturnFrame' = ReturnFrame /\ TopKind # "native"
  BY DEF Calls
<1>4. Register(0)' = 0
  BY <1>3 DEF Register, Nested
<1>5. \A k \in 1 .. Len(Host) : Register(k)' = Register(k)
  BY <1>3 DEF Register
<1>6. ASSUME NEW k \in 1 .. Len(Host), Host[k].kind = "run" PROVE LoopNested(k)'
  <2>1. NextBase(k)' > Host[k].base
    <3>1. NextBase(k) > Host[k].base
      BY <1>6 DEF Nested, LoopNested
    <3> QED BY <1>2, <1>3, <3>1, Shapes DEF NextBase
  <2> QED BY <1>2, <1>3, <1>5, <1>6, <2>1, LoopStays, BasesBelow
<1>7. ASSUME NEW k \in 1 .. Len(Host), Host[k].kind = "native" PROVE NativeNested(k)'
  <2>1. k # Len(Host)
    BY <1>3, <1>7 DEF TopKind
  <2>2. NextBase(k)' = NextBase(k) /\ NextTop(k)' = NextTop(k)
    BY <1>3, <2>1 DEF NextBase, NextTop
  <2>3. NextTop(k) >= Host[k].top
    BY <1>7 DEF Nested, NativeNested
  <2> QED BY <1>2, <1>3, <1>5, <1>7, <2>2, <2>3, NativeStays, BasesBelow
<1>8. \A k \in 1 .. Len(Host) : Host[k].base <= FrameCount'
  BY <1>2, Shapes DEF Nested
<1> QED BY <1>2, <1>3, <1>4, <1>6, <1>7, <1>8 DEF Nested

LEMMA ReturnsKeeps == TypeInv /\ TypeInv' /\ Nested /\ Returns => Nested'
<1> SUFFICES ASSUME TypeInv, TypeInv', Nested, Returns PROVE Nested'
  OBVIOUS
<1>1. StackTop' \in Int /\ (FrameCount > 1 => EndOf(FrameCount - 1) <= StackTop')
  <2>1. StackTop' \in Int
    BY DEF TypeInv
  <2>2. ASSUME FrameCount > 1 PROVE EndOf(FrameCount - 1) <= StackTop'
    <3>1. FrameCount - 1 \in 1 .. FrameCount /\ FrameCount - 1 < FrameCount
          /\ FrameCount \in 1 .. FrameCount /\ (FrameCount - 1) + 1 = FrameCount
      BY <2>2, Shapes
    <3>2. EndOf(FrameCount - 1) <= Frames[FrameCount].Slots
      BY <3>1 DEF Nested, FrameOrder, EndOf
    <3>3. EndOf(FrameCount - 1) \in Int /\ Frames[FrameCount].Slots \in Int
      BY <3>1, Shapes DEF EndOf
    <3> QED BY <3>2, <3>3 DEF Returns
  <2> QED BY <2>1, <2>2
<1>2. /\ FrameOrder' /\ FrameCount' = FrameCount - 1
      /\ \A i \in 1 .. FrameCount - 1 : Frames'[i] = Frames[i]
  BY <1>1, OldFrameOrder DEF Nested, Returns
<1>3. Host' = Host /\ ReturnFrame' = ReturnFrame /\ TopKind # "native"
      /\ FrameCount - 1 # ReturnFrame
  BY DEF Returns
<1>4. Register(0)' = 0
  BY <1>3 DEF Register, Nested
\* Every activation was entered with fewer frames than there are now.
<1>5. \A k \in 1 .. Len(Host) : Host[k].base < FrameCount - 1
  <2>1. CASE Len(Host) > 0
    <3>1. Len(Host) \in 1 .. Len(Host) /\ Host[Len(Host)].kind = "run"
      BY <1>3, <2>1, Shapes DEF TopKind
    <3>2. LoopNested(Len(Host))
      BY <3>1 DEF Nested
    <3>3. Host[Len(Host)].base < FrameCount - 1
      BY <1>3, <3>1, <3>2, Shapes DEF LoopNested, NextBase, Register
    <3>4. \A k \in 1 .. Len(Host) : Host[k].base <= Host[Len(Host)].base
      BY <3>1, Shapes DEF Nested
    <3> QED BY <3>1, <3>3, <3>4, Shapes
  <2> QED BY <2>1, Shapes
<1>6. \A k \in 1 .. Len(Host) :
        /\ Register(k)' = Register(k)
        /\ Host[k].base > 0 => Frames'[Host[k].base] = Frames[Host[k].base]
  <2> SUFFICES ASSUME NEW k \in 1 .. Len(Host)
               PROVE  /\ Register(k)' = Register(k)
                      /\ Host[k].base > 0 => Frames'[Host[k].base] = Frames[Host[k].base]
    OBVIOUS
  <2>1. Register(k)' = Register(k)
    BY <1>3 DEF Register
  <2>2. ASSUME Host[k].base > 0 PROVE Frames'[Host[k].base] = Frames[Host[k].base]
    <3>1. Host[k].base \in 1 .. FrameCount - 1
      BY <1>5, <2>2, Shapes
    <3> QED BY <1>2, <3>1
  <2> QED BY <2>1, <2>2
<1>7. ASSUME NEW k \in 1 .. Len(Host), Host[k].kind = "run" PROVE LoopNested(k)'
  <2>1. NextBase(k)' > Host[k].base
    <3>1. CASE k = Len(Host)
      BY <1>2, <1>3, <1>5, <3>1, Shapes DEF NextBase
    <3>2. CASE k # Len(Host)
      BY <1>3, <1>7, <3>2 DEF NextBase, Nested, LoopNested
    <3> QED BY <3>1, <3>2
  <2> QED BY <1>3, <1>6, <1>7, <2>1, LoopStays
<1>8. ASSUME NEW k \in 1 .. Len(Host), Host[k].kind = "native" PROVE NativeNested(k)'
  <2>1. k # Len(Host)
    BY <1>3, <1>8 DEF TopKind
  <2>2. NextBase(k)' = NextBase(k) /\ NextTop(k)' = NextTop(k)
    BY <1>3, <2>1 DEF NextBase, NextTop
  <2>3. NextTop(k) >= Host[k].top
    BY <1>8 DEF Nested, NativeNested
  <2> QED BY <1>3, <1>6, <1>8, <2>2, <2>3, NativeStays
<1>9. \A k \in 1 .. Len(Host) : Host[k].base <= FrameCount'
  BY <1>2, <1>5, Shapes
<1> QED BY <1>2, <1>3, <1>4, <1>7, <1>8, <1>9 DEF Nested

LEMMA FinishesKeeps == TypeInv /\ TypeInv' /\ Nested /\ Finishes => Nested'
<1> SUFFICES ASSUME TypeInv, TypeInv', Nested, Finishes PROVE Nested'
  OBVIOUS
<1>1. Len(Host) = 0 /\ TopKind = "none"
  BY Shapes DEF Finishes, TopKind
<1>2. ReturnFrame = 0 /\ FrameCount = 1
  BY <1>1, Shapes DEF Nested, Register, Finishes
<1>3. FrameOrder'
  BY <1>2, OldFrameOrder DEF Nested, Finishes, TypeInv
<1>4. Host' = Host /\ ReturnFrame' = ReturnFrame
  BY DEF Finishes
<1>5. Register(0)' = 0
  BY <1>1, <1>2, <1>4 DEF Register
<1> QED BY <1>1, <1>3, <1>4, <1>5 DEF Nested

\* An activation is left: the others find the frames and the register as they left them.
LEMMA PoppedKeeps ==
  ASSUME TypeInv, Nested, FrameOrder', Len(Host) > 0, Host' = Front(Host),
         FrameCount' = Host[Len(Host)].base, ReturnFrame' = Host[Len(Host)].ret,
         \A i \in 1 .. Host[Len(Host)].base : Frames'[i] = Frames[i],
         Len(Host) > 1 /\ Host[Len(Host) - 1].kind = "native"
           => StackTop' = Host[Len(Host)].top
  PROVE  Nested'
<1> DEFINE n == Len(Host)
<1>1. n \in Nat \ {0} /\ n \in 1 .. n
  BY Shapes
<1>2. Len(Host') = n - 1 /\ \A k \in 1 .. n - 1 : Host'[k] = Host[k]
  BY <1>1, HostFront DEF TypeInv
<1>3. Register(0)' = 0
  <2>1. CASE n = 1
    BY <1>2, <2>1 DEF Nested, Register
  <2>2. CASE n > 1
    BY <1>1, <1>2, <2>2 DEF Nested, Register
  <2> QED BY <1>1, <2>1, <2>2, SMTT(30)
<1>4. ASSUME NEW k \in 1 .. n - 1
      PROVE  NextBase(k)' = NextBase(k) /\ Register(k)' = Register(k)
  <2>1. CASE k = n - 1
    BY <1>1, <1>2, <2>1 DEF NextBase, Register
  <2>2. CASE k < n - 1
    <3>1. k # n /\ k # n - 1 /\ k + 1 \in 1 .. n - 1
      BY <1>1, <2>2
    <3> QED BY <1>2, <3>1 DEF NextBase, Register
  <2> QED BY <1>1, <2>1, <2>2
<1>5. ASSUME NEW k \in 1 .. n - 1
      PROVE  /\ k \in 1 .. n /\ Host'[k] = Host[k] /\ (k > 1 => Host'[k - 1] = Host[k - 1])
             /\ Host[k].base \in Nat /\ Host[k].base <= Host[n].base
             /\ Host[k].base > 0 => Frames'[Host[k].base] = Frames[Host[k].base]
  <2>1. k \in 1 .. n /\ k <= n /\ (k > 1 => k - 1 \in 1 .. n - 1)
    BY <1>1
  <2>2. Host[k].base <= Host[n].base
    BY <1>1, <2>1 DEF Nested
  <2>3. Host[k].base \in Nat /\ Host[n].base \in Nat
    BY <1>1, <2>1, Shapes
  <2> QED BY <1>2, <2>1, <2>2, <2>3
<1>6. ASSUME NEW k \in 1 .. n - 1, Host[k].kind = "run" PROVE LoopNested(k)'
  <2>1. NextBase(k)' > Host[k].base
    BY <1>4, <1>5, <1>6 DEF Nested, LoopNested
  <2> QED BY <1>4, <1>5, <1>6, <2>1, LoopStays
<1>7. ASSUME NEW k \in 1 .. n - 1, Host[k].kind = "native" PROVE NativeNested(k)'
  <2>1. NextTop(k) >= Host[k].top
    BY <1>5, <1>7 DEF Nested, NativeNested
  <2>2. NextTop(k)' = NextTop(k)
    <3>1. CASE k = n - 1
      BY <1>1, <1>2, <1>7, <3>1 DEF NextTop
    <3>2. CASE k < n - 1
      <4>1. k # n /\ k # n - 1 /\ k + 1 \in 1 .. n - 1
        BY <1>1, <3>2
      <4> QED BY <1>2, <4>1 DEF NextTop
    <3> QED BY <1>1, <3>1, <3>2
  <2> QED BY <1>4, <1>5, <1>7, <2>1, <2>2, NativeStays
<1>8. \A k \in 1 .. n - 1 : Host'[k].base <= FrameCount' /\ Host'[k].kind = Host[k].kind
  BY <1>5
<1>9. \A j, k \in 1 .. n - 1 : j <= k => Host'[j].base <= Host'[k].base
  BY <1>1, <1>2 DEF Nested
<1> QED BY <1>2, <1>3, <1>6, <1>7, <1>8, <1>9 DEF Nested

LEMMA LeavesLoopKeeps == TypeInv /\ TypeInv' /\ Nested /\ LeavesLoop => Nested'
<1> SUFFICES ASSUME TypeInv, TypeInv', Nested, LeavesLoop PROVE Nested'
  OBVIOUS
<1> DEFINE n == Len(Host)
<1>1. n \in Nat \ {0} /\ n \in 1 .. n /\ Host[n].kind = "run"
  BY Shapes DEF LeavesLoop, TopKind
<1>2. LoopNested(n)
  BY <1>1 DEF Nested
<1>3. Host[n].base = FrameCount - 1 /\ Host[n].base \in Nat /\ FrameCount > 0
  BY <1>1, <1>2, Shapes DEF LoopNested, Register, LeavesLoop
<1>4. /\ Frames' = Front(Frames) /\ Host' = Front(Host)
      /\ IF Host[n].after = "restore"
         THEN StackTop' = Host[n].top /\ ReturnFrame' = Host[n].ret
         ELSE ReturnFrame' = ReturnFrame
  BY DEF LeavesLoop
<1>5. Host[n].after = "restore" \/ Host[n].after = "keep"
  BY <1>1, Shapes DEF Loop, Native
<1>6. CASE Host[n].after = "restore"
  <2>1. FrameCount > 1 => EndOf(FrameCount - 1) <= StackTop'
    <3>1. Host[n].base > 0 => EndOf(Host[n].base) <= Host[n].top
      BY <1>2 DEF LoopNested
    <3>2. FrameCount > 1 => Host[n].base > 0
      BY <1>3, Shapes
    <3>3. StackTop' = Host[n].top
      BY <1>4, <1>6
    <3> QED BY <1>3, <3>1, <3>2, <3>3
  <2>2. /\ FrameOrder' /\ FrameCount' = FrameCount - 1
        /\ \A i \in 1 .. FrameCount - 1 : Frames'[i] = Frames[i]
    BY <1>3, <1>4, <2>1, OldFrameOrder DEF Nested, TypeInv
  <2> QED BY <1>1, <1>3, <1>4, <1>6, <2>2, PoppedKeeps
<1>7. CASE Host[n].after = "keep"
  <2>1. n = 1 /\ FrameCount = 1
    BY <1>2, <1>3, <1>7, Shapes DEF LoopNested
  <2>2. /\ FrameOrder' /\ FrameCount' = FrameCount - 1
        /\ \A i \in 1 .. FrameCount - 1 : Frames'[i] = Frames[i]
    BY <1>3, <1>4, <2>1, OldFrameOrder DEF Nested, TypeInv
  <2>3. ReturnFrame' = Host[1].ret
    <3>1. Register(0) = Host[1].ret /\ Register(1) = ReturnFrame
      BY <2>1 DEF Register
    <3>2. Register(0) = 0 /\ Register(1) = 0
      BY <1>2, <1>3, <2>1 DEF Nested, LoopNested
    <3> QED BY <1>4, <1>7, <3>1, <3>2
  <2> QED BY <1>1, <1>3, <1>4, <2>1, <2>2, <2>3, PoppedKeeps
<1> QED BY <1>5, <1>6, <1>7

LEMMA LeavesNativeKeeps == TypeInv /\ TypeInv' /\ Nested /\ LeavesNative => Nested'
<1> SUFFICES ASSUME TypeInv, TypeInv', Nested, LeavesNative PROVE Nested'
  OBVIOUS
<1> DEFINE n == Len(Host)
<1>1. n \in Nat \ {0} /\ n \in 1 .. n /\ Host[n].kind = "native"
  BY Shapes DEF LeavesNative, TopKind
<1>2. NativeNested(n)
  BY <1>1 DEF Nested
<1>3. Host[n].base = FrameCount /\ Host[n].top \in Nat /\ Host[n].argc \in Nat
  BY <1>1, <1>2, Shapes DEF NativeNested, NextBase
<1>4. /\ Frames' = Frames /\ Host' = Front(Host)
      /\ IF Host[n].after = "restore"
         THEN StackTop' = Host[n].top /\ ReturnFrame' = Host[n].ret
         ELSE /\ StackTop' \in {Host[n].top - Host[n].argc, Host[n].top - Host[n].argc - 1}
              /\ ReturnFrame' = ReturnFrame
  BY DEF LeavesNative
<1>5. ReturnFrame' = Host[n].ret
  BY <1>2, <1>4 DEF NativeNested, Register
<1>6. FrameCount > 0 => EndOf(FrameCount) <= StackTop'
  <2>1. FrameCount > 0 => EndOf(FrameCount) \in Int
    BY Shapes DEF EndOf
  <2> QED BY <1>2, <1>3, <1>4, <2>1 DEF NativeNested
<1>7. FrameCount' = FrameCount
  BY <1>4 DEF FrameCount
<1>8. FrameOrder'
  <2>1. ASSUME NEW i \in 1 .. FrameCount
        PROVE  Frames'[i].Slots + Frames'[i].Arity + 1
                 <= IF i < FrameCount THEN Frames'[i + 1].Slots ELSE StackTop'
    <3>1. CASE i < FrameCount
      BY <1>4, <3>1 DEF FrameOrder, Nested
    <3>2. CASE i = FrameCount
      BY <1>4, <1>6, <3>2, Shapes DEF EndOf
    <3> QED BY <3>1, <3>2, Shapes
  <2> QED BY <1>7, <2>1 DEF FrameOrder
<1>9. ASSUME n > 1, Host[n - 1].kind = "native" PROVE StackTop' = Host[n].top
  BY <1>2, <1>4, <1>9 DEF NativeNested
<1> QED BY <1>1, <1>3, <1>4, <1>5, <1>7, <1>8, <1>9, PoppedKeeps

\* What a new record finds: the records under it are as they were.
LEMMA PushedHost ==
  ASSUME TypeInv, NEW r \in Loop \cup Native, Host' = Append(Host, r)
  PROVE  /\ Len(Host') = Len(Host) + 1 /\ Host'[Len(Host) + 1] = r
         /\ \A k \in 1 .. Len(Host) : Host'[k] = Host[k]
BY AppendShape DEF TypeInv, HostOK

\* An activation is entered that has saved the frame count and the register.
LEMMA PushedKeeps ==
  ASSUME TypeInv, Nested, FrameOrder', NEW r \in Loop \cup Native, Host' = Append(Host, r),
         r.base = FrameCount, r.ret = ReturnFrame, r.top = StackTop,
         FrameCount' \in {FrameCount, FrameCount + 1},
         \A i \in 1 .. FrameCount : Frames'[i] = Frames[i],
         r.kind = "run" => LoopNested(Len(Host))',
         r.kind = "native" => NativeNested(Len(Host))'
  PROVE  Nested'
<1> DEFINE n == Len(Host)
<1>1. n \in Nat /\ FrameCount \in Nat
  BY Shapes
<1>2. Len(Host') = n + 1 /\ Host'[n + 1] = r /\ \A k \in 1 .. n : Host'[k] = Host[k]
  BY PushedHost
<1>3. Register(0)' = 0
  <2>1. CASE n = 0
    BY <1>2, <2>1 DEF Nested, Register
  <2>2. CASE n > 0
    <3>1. 1 \in 1 .. n /\ 0 # n + 1 /\ 0 # n
      BY <1>1, <2>2
    <3> QED BY <1>2, <3>1 DEF Nested, Register
  <2> QED BY <1>1, <2>1, <2>2
<1>4. ASSUME NEW k \in 1 .. n
      PROVE  NextBase(k)' = NextBase(k) /\ Register(k)' = Register(k) /\ NextTop(k)' = NextTop(k)
  <2>1. CASE k = n
    BY <1>1, <1>2, <2>1 DEF NextBase, Register, NextTop
  <2>2. CASE k < n
    <3>1. k # n /\ k # n + 1 /\ k + 1 \in 1 .. n
      BY <1>1, <2>2
    <3> QED BY <1>2, <3>1 DEF NextBase, Register, NextTop
  <2> QED BY <1>1, <2>1, <2>2
<1>5. ASSUME NEW k \in 1 .. n
      PROVE  /\ Host'[k] = Host[k] /\ (k > 1 => Host'[k - 1] = Host[k - 1])
             /\ Host[k].base > 0 => Frames'[Host[k].base] = Frames[Host[k].base]
  <2>1. k > 1 => k - 1 \in 1 .. n
    BY <1>1
  <2> QED BY <1>2, <2>1, BasesBelow
<1>6. ASSUME NEW k \in 1 .. n, Host[k].kind = "run" PROVE LoopNested(k)'
  <2>1. NextBase(k)' > Host[k].base
    BY <1>4, <1>6 DEF Nested, LoopNested
  <2> QED BY <1>4, <1>5, <1>6, <2>1, LoopStays
<1>7. ASSUME NEW k \in 1 .. n, Host[k].kind = "native" PROVE NativeNested(k)'
  <2>1. NextTop(k) >= Host[k].top
    BY <1>7 DEF Nested, NativeNested
  <2> QED BY <1>4, <1>5, <1>7, <2>1, NativeStays
<1>8. \A k \in 1 .. n : Host'[k].base <= FrameCount /\ Host'[k].base \in Nat
  BY <1>5, Shapes DEF Nested
<1>9. \A k \in 1 .. n + 1 : Host'[k].base <= FrameCount /\ Host'[k].base \in Nat
  BY <1>1, <1>2, <1>8
<1>10. \A k \in 1 .. n + 1 : Host'[k].base <= FrameCount'
  BY <1>1, <1>9
<1>11. ASSUME NEW k \in 1 .. n + 1
       PROVE  /\ Host'[k].kind = "run" => LoopNested(k)'
              /\ Host'[k].kind = "native" => NativeNested(k)'
  <2>1. CASE k \in 1 .. n
    BY <1>2, <1>6, <1>7, <2>1
  <2>2. CASE k = Len(Host')
    BY <1>2, <2>2
  <2> QED BY <1>1, <1>2, <2>1, <2>2
<1>12. ASSUME NEW j \in 1 .. n + 1, NEW k \in 1 .. n + 1, j <= k
       PROVE  Host'[j].base <= Host'[k].base
  <2>1. CASE k = n + 1
    BY <1>2, <1>9, <2>1
  <2>2. CASE k # n + 1
    <3>1. j \in 1 .. n /\ k \in 1 .. n
      BY <1>1, <1>12, <2>2
    <3> QED BY <1>2, <1>12, <3>1 DEF Nested
  <2> QED BY <2>1, <2>2
<1> QED BY <1>2, <1>3, <1>10, <1>12, <1>11 DEF Nested

LEMMA EntersNativeKeeps == TypeInv /\ Nested /\ EntersNative => Nested'
<1> SUFFICES ASSUME TypeInv, Nested, EntersNative PROVE Nested'
  OBVIOUS
<1> DEFINE n == Len(Host)
<1>1. PICK argc \in Nat, after \in {"push", "pop", "restore"} :
        /\ Host' = Append(Host, NativeRecord(argc, after))
        /\ ReturnFrame' = IF after = "restore" THEN FrameCount ELSE ReturnFrame
        /\ after = "restore" => argc = 0
        /\ TopKind = "native" => after = "restore"
        /\ FrameCount > 0 => EndOf(FrameCount) <= StackTop - argc - 1
        /\ UNCHANGED <<StackTop, Frames>>
  BY DEF EntersNative
<1> DEFINE r == NativeRecord(argc, after)
<1>2. /\ r \in Loop \cup Native /\ r.kind = "native" /\ r.base = FrameCount
      /\ r.ret = ReturnFrame /\ r.top = StackTop /\ r.argc = argc /\ r.after = after
  BY Shapes DEF NativeRecord, Native
<1>3. /\ Len(Host') = n + 1 /\ Host'[n + 1] = r /\ \A k \in 1 .. n : Host'[k] = Host[k]
      /\ Host' = Append(Host, r)
  BY <1>1, <1>2, PushedHost
<1> HIDE DEF r
<1>4. FrameCount' = FrameCount /\ Frames' = Frames /\ StackTop' = StackTop
  BY <1>1 DEF FrameCount
<1>5. FrameOrder'
  BY <1>4 DEF Nested, FrameOrder
<1>6. NativeNested(Len(Host))'
  <2>1. NextBase(Len(Host))' = FrameCount /\ NextTop(Len(Host))' = StackTop
    BY <1>4 DEF NextBase, NextTop
  <2>2. Register(Len(Host))' = ReturnFrame'
    BY DEF Register
  <2>3. Host'[n + 1].base > 0
          => EndOf(Host[Len(Host)].base)' <= Host'[n + 1].top - Host'[n + 1].argc - 1
    <3>1. Host'[n + 1].base = FrameCount /\ Host'[n + 1].top = StackTop
          /\ Host'[n + 1].argc = argc
      BY <1>2, <1>3
    <3>2. EndOf(Host[Len(Host)].base)' = EndOf(FrameCount)
      BY <1>3, <1>4, <3>1 DEF EndOf
    <3> QED BY <1>1, <3>1, <3>2
  <2>4. n + 1 > 1 /\ Host'[n + 1 - 1].kind = "native" => after = "restore"
    <3>1. ASSUME n + 1 > 1, Host'[n + 1 - 1].kind = "native" PROVE TopKind = "native"
      <4>1. n + 1 - 1 = n /\ n \in 1 .. n /\ n # 0
        BY <3>1, Shapes
      <4> QED BY <1>3, <3>1, <4>1 DEF TopKind
    <3> QED BY <1>1, <3>1
  <2>5. Host'[n + 1].after # "restore" => Register(Len(Host))' = Host'[n + 1].ret
    BY <1>1, <1>2, <1>3, <2>2
  <2>6. NextTop(Len(Host))' >= Host'[n + 1].top
    BY <1>2, <1>3, <2>1, Shapes
  <2> QED BY <1>1, <1>2, <1>3, <2>1, <2>3, <2>4, <2>5, <2>6 DEF NativeNested
<1> QED BY <1>2, <1>3, <1>4, <1>5, <1>6, PushedKeeps

LEMMA EntersLoopKeeps == TypeInv /\ Nested /\ EntersLoop => Nested'
<1> SUFFICES ASSUME TypeInv, Nested, EntersLoop PROVE Nested'
  OBVIOUS
<1> DEFINE n == Len(Host)
<1>1. PICK after \in {"restore", "keep"} :
        /\ Host' = Append(Host, LoopRecord(FrameCount, after)) /\ ReturnFrame' = FrameCount
        /\ \E fr \in Frame : MakesFrame(fr)
        /\ IF TopKind = "none" THEN FrameCount = 0 ELSE TopKind = "native" /\ after = "restore"
  BY DEF EntersLoop
<1>2. PICK fr \in Frame : MakesFrame(fr)
  BY <1>1
<1> DEFINE r == LoopRecord(FrameCount, after)
<1>3. /\ r \in Loop \cup Native /\ r.kind = "run" /\ r.base = FrameCount
      /\ r.ret = ReturnFrame /\ r.top = StackTop /\ r.after = after
  BY Shapes DEF LoopRecord, Loop
<1>4. /\ Len(Host') = n + 1 /\ Host'[n + 1] = r /\ \A k \in 1 .. n : Host'[k] = Host[k]
      /\ Host' = Append(Host, r)
  BY <1>1, <1>3, PushedHost
<1> HIDE DEF r
<1>5. /\ FrameOrder' /\ FrameCount' = FrameCount + 1
      /\ \A i \in 1 .. FrameCount : Frames'[i] = Frames[i]
  BY <1>2, NewFrameOrder DEF Nested
<1>6. n \in Nat /\ FrameCount \in Nat
  BY Shapes
<1>7. TopKind = "none" <=> n = 0
  <2>1. n > 0 => Host[n].kind # "none"
    BY <1>6, Shapes
  <2> QED BY <1>6, <2>1 DEF TopKind
<1>8. LoopNested(Len(Host))'
  <2>1. NextBase(Len(Host))' = FrameCount + 1 /\ Register(Len(Host))' = FrameCount
    BY <1>1, <1>5 DEF NextBase, Register
  <2>2. Host'[n + 1].base > 0 => EndOf(Host[Len(Host)].base)' <= Host'[n + 1].top
    <3>1. ASSUME FrameCount > 0 PROVE EndOf(FrameCount) <= StackTop
      BY <1>6, <3>1 DEF Nested, FrameOrder, EndOf
    <3>2. Host'[n + 1].base = FrameCount /\ Host'[n + 1].top = StackTop
      BY <1>3, <1>4
    <3>3. FrameCount > 0 => EndOf(Host[Len(Host)].base)' = EndOf(FrameCount)
      BY <1>4, <1>5, <1>6, <3>2 DEF EndOf
    <3> QED BY <3>1, <3>2, <3>3
  <2>3. n + 1 = 1 => Host'[n + 1].base = 0
    BY <1>1, <1>3, <1>4, <1>6, <1>7
  <2>4. n + 1 > 1 => Host'[n + 1 - 1].kind = "native"
    <3>1. ASSUME n + 1 > 1 PROVE Host'[n + 1 - 1].kind = "native"
      <4>1. n + 1 - 1 = n /\ n \in 1 .. n /\ n # 0
        BY <1>6, <3>1
      <4> QED BY <1>1, <1>4, <1>7, <4>1 DEF TopKind
    <3> QED BY <3>1
  <2>5. Host'[n + 1].after = "keep" => n + 1 = 1
    BY <1>1, <1>3, <1>4, <1>6, <1>7
  <2>6. Host'[n + 1].base = FrameCount
    BY <1>3, <1>4
  <2> QED BY <1>4, <1>6, <2>1, <2>2, <2>3, <2>4, <2>5, <2>6 DEF LoopNested
<1> QED BY <1>3, <1>4, <1>5, <1>8, PushedKeeps

LEMMA RunsPendingKeeps == TypeInv /\ Nested /\ RunsPending => Nested'
<1> SUFFICES ASSUME TypeInv, Nested, RunsPending PROVE Nested'
  OBVIOUS
<1> DEFINE r == LoopRecord(0, "keep")
<1>1. /\ r \in Loop \cup Native /\ r.kind = "run" /\ r.base = 0
      /\ r.ret = ReturnFrame /\ r.after = "keep"
  BY Shapes DEF LoopRecord, Loop
<1>2. Len(Host) = 0 /\ FrameCount > 0 /\ FrameCount \in Nat
  <2>1. Len(Host) > 0 => Host[Len(Host)].kind # "none"
    BY Shapes
  <2> QED BY <2>1, Shapes DEF RunsPending, TopKind
<1>3. Len(Host') = 1 /\ Host'[1] = r
  BY <1>1, <1>2, PushedHost DEF RunsPending
<1>4. FrameCount' = FrameCount /\ ReturnFrame' = ReturnFrame /\ FrameOrder'
  BY DEF RunsPending, FrameCount, Nested, FrameOrder
<1>5. ReturnFrame = 0
  BY <1>2 DEF Nested, Register
<1>6. LoopNested(1)'
  BY <1>1, <1>2, <1>3, <1>4, <1>5 DEF LoopNested, NextBase, Register
<1>7. Register(0)' = 0
  BY <1>1, <1>3, <1>5 DEF Register
<1> HIDE DEF r
<1>8. \A k \in 1 .. 1 : k = 1
  OBVIOUS
<1> QED BY <1>1, <1>2, <1>3, <1>4, <1>6, <1>7, <1>8 DEF Nested

LEMMA MoveKeeps == TypeInv /\ TypeInv' /\ Nested /\ Move => Nested'
BY MovesTopKeeps, CallsKeeps, ReturnsKeeps, FinishesKeeps, LeavesLoopKeeps,
   EntersNativeKeeps, LeavesNativeKeeps, EntersLoopKeeps, RunsPendingKeeps DEF Move

-----------------------------------------------------------------------------
(* Every step of a disciplined thread is a move. *)

LEMMA KindOfTop ==
  ASSUME TypeInv
  PROVE  /\ Host = <<>> => TopKind = "none" /\ Len(Host) = 0
         /\ Host # <<>> => /\ TopKind = Last(Host).kind /\ Last(Host) = Host[Len(Host)]
                          /\ Len(Host) > 0 /\ Len(Host) \in 1 .. Len(Host)
                          /\ TopKind \in {"run", "native"}
         /\ Frames = <<>> => FrameCount = 0
         /\ Frames # <<>> => FrameCount > 0 /\ Last(Frames) = Frames[FrameCount]
<1>1. CASE Host = <<>>
  BY <1>1, FramesFront DEF TopKind, TypeInv, FrameCount
<1>2. CASE Host # <<>>
  <2>1. Last(Host) = Host[Len(Host)] /\ Len(Host) \in Nat \ {0}
    BY <1>2, HostFront DEF TypeInv
  <2>2. Len(Host) \in 1 .. Len(Host)
    BY <2>1
  <2>3. Host[Len(Host)].kind \in {"run", "native"}
    BY <2>2, Shapes
  <2> QED BY <1>2, <2>1, <2>2, <2>3, FramesFront DEF TopKind, TypeInv, FrameCount
<1> QED BY <1>1, <1>2

\* Where the embedding program may call op.
LEMMA PlaceOf ==
  ASSUME TypeInv, Nested, NEW op, HostCalls(op)
  PROVE  \/ /\ op \in Embedding["idle"] /\ TopKind = "none" /\ Host = <<>>
            /\ FrameCount = 0 /\ Frames = <<>> /\ ReturnFrame = 0 /\ ~ InNative
         \/ /\ op \in Embedding["pending"] /\ TopKind = "none" /\ Host = <<>>
            /\ FrameCount > 0 /\ Frames # <<>> /\ ReturnFrame = 0 /\ ~ InNative
         \/ op \in Embedding["native"] /\ TopKind = "native" /\ InNative
<1>1. Host = <<>> => ReturnFrame = 0 /\ ~ InNative
  BY KindOfTop DEF Nested, Register, InNative
<1> QED BY <1>1, KindOfTop DEF HostCalls, InNative

\* The top of the stack, and all above it, is free to the code whose turn it is.
LEMMA AboveTop ==
  ASSUME TypeInv, Nested, NEW top \in Int, top >= StackTop
  PROVE  Above(top)
<1>1. FrameCount > 0 => EndOf(FrameCount) <= top
  <2>1. ASSUME FrameCount > 0 PROVE EndOf(FrameCount) <= top
    <3>1. FrameCount \in 1 .. FrameCount
      BY <2>1, Shapes
    <3>2. EndOf(FrameCount) <= StackTop /\ EndOf(FrameCount) \in Int
      BY <3>1, Shapes DEF Nested, FrameOrder, EndOf
    <3> QED BY <3>2, Shapes
  <2> QED BY <2>1
<1>2. TopKind = "native" => Host[Len(Host)].top <= top
  <2>1. ASSUME TopKind = "native" PROVE Host[Len(Host)].top <= top
    <3>1. Len(Host) \in 1 .. Len(Host) /\ Host[Len(Host)].kind = "native"
      BY <2>1, Shapes DEF TopKind
    <3>2. Host[Len(Host)].top <= StackTop /\ Host[Len(Host)].top \in Nat
      BY <3>1, Shapes DEF Nested, NativeNested, NextTop
    <3> QED BY <3>2, Shapes
  <2> QED BY <2>1
<1> QED BY <1>1, <1>2 DEF Above

\* A native function's caller ends below the function's arguments.
LEMMA NativeRoom ==
  ASSUME TypeInv, Nested, TopKind = "native"
  PROVE  FrameCount > 0 => EndOf(FrameCount) <= Host[Len(Host)].top - 1
<1>1. Len(Host) \in 1 .. Len(Host) /\ Host[Len(Host)].kind = "native"
  BY Shapes DEF TopKind
<1>2. Host[Len(Host)].base = FrameCount
  BY <1>1 DEF Nested, NativeNested, NextBase
<1>3. ASSUME FrameCount > 0
      PROVE  EndOf(FrameCount) <= Host[Len(Host)].top - Host[Len(Host)].argc - 1
  BY <1>1, <1>2, <1>3 DEF Nested, NativeNested
<1>4. ASSUME FrameCount > 0 PROVE EndOf(FrameCount) \in Int
  BY <1>4, Shapes DEF EndOf
<1> QED BY <1>1, <1>3, <1>4, Shapes

LEMMA CallMakesFrame ==
  ASSUME TypeInv, NEW f \in Functions, NEW callee \in Int, NEW o, Ok(o),
         CallResult(o, f, StackTop, callee), Frames' = o.frames, StackTop' = o.top,
         FrameCount > 0 => EndOf(FrameCount) <= callee
  PROVE  \E fr \in Frame : MakesFrame(fr)
<1> DEFINE fr == [Slots |-> callee, Arity |-> Arity[f], callee |-> callee]
<1>1. fr \in Frame
  BY FunctionsAssumption DEF Frame
<1>2. MakesFrame(fr)
  BY <1>1 DEF CallResult, MakesFrame
<1> QED BY <1>1, <1>2

LEMMA FailedCallMoves ==
  ASSUME TypeInv, Nested, NEW f \in Functions, NEW callee \in Int, NEW o, ~ Ok(o),
         CallResult(o, f, StackTop, callee), Frames' = o.frames,
         StackTop' \in {o.top, StackTop}, UNCHANGED <<Host, ReturnFrame>>
  PROVE  MovesTop
<1>1. o.top \in Int /\ o.top >= StackTop /\ o.frames = Frames /\ StackTop \in Int
  BY BoundsAssumption, Shapes DEF CallResult
<1>2. Above(StackTop')
  BY <1>1, AboveTop
<1> QED BY <1>1, <1>2 DEF MovesTop

LEMMA ScriptTurn ==
  ASSUME Disciplined, TypeInv, Nested, InScript
  PROVE  /\ FrameCount > 0 /\ Last(Frames) = Frames[FrameCount] /\ FrameCount \in 1 .. FrameCount
         /\ IF InLoop THEN TopKind = "run" ELSE TopKind = "none"
         /\ ~ InLoop => Host = <<>>
         /\ ~ InNative
<1>1. Frames # <<>> /\ (InLoop \/ HostCalls("hsl_run_call_frame_instruction"))
  BY DEF InScript, SingleStep
<1>2. FrameCount > 0 /\ Last(Frames) = Frames[FrameCount] /\ FrameCount \in 1 .. FrameCount
  BY <1>1, KindOfTop, Shapes
<1>3. CASE InLoop
  BY <1>2, <1>3, KindOfTop DEF InLoop, InNative
<1>4. CASE ~ InLoop
  <2>1. HostCalls("hsl_run_call_frame_instruction")
    BY <1>1, <1>4
  <2>2. "hsl_run_call_frame_instruction" \notin Embedding["native"]
    BY DEF Disciplined, RunsAnyway
  <2> QED BY <1>2, <1>4, <2>1, <2>2, PlaceOf
<1> QED BY <1>3, <1>4

\* What an instruction leaves above the top frame's parameters.
LEMMA OperandsAbove ==
  ASSUME TypeInv, FrameCount > 0, Last(Frames) = Frames[FrameCount],
         NEW n \in Nat, Operands >= n
  PROVE  EndOf(FrameCount) <= StackTop - n
<1>1. Frames[FrameCount].Slots \in Int /\ Frames[FrameCount].Arity \in Nat
  BY Shapes
<1> QED BY <1>1, Shapes DEF Operands, EndOf

LEMMA ReturnMoves ==
  ASSUME Disciplined, TypeInv, Nested, InScript, NEW top, DoReturn(top)
  PROVE  Move
<1>1. /\ FrameCount > 0 /\ Last(Frames) = Frames[FrameCount]
      /\ IF InLoop THEN TopKind = "run" ELSE TopKind = "none"
  BY ScriptTurn
<1>2. CASE FrameCount - 1 = ReturnFrame
  <2>1. CASE InLoop
    <3>1. LeaveLoop(top, Front(Frames)) /\ Last(Host) = Host[Len(Host)]
      BY <1>2, <2>1, KindOfTop DEF DoReturn, Finish, InLoop
    <3>2. LeavesLoop
      BY <1>1, <1>2, <2>1, <3>1 DEF LeaveLoop, LeavesLoop
    <3> QED BY <3>2 DEF Move
  <2>2. CASE ~ InLoop
    <3>1. Finishes
      BY <1>1, <1>2, <2>2 DEF DoReturn, Finish, Finishes
    <3> QED BY <3>1 DEF Move
  <2> QED BY <2>1, <2>2
<1>3. CASE FrameCount - 1 # ReturnFrame
  <2>1. Returns
    BY <1>1, <1>3 DEF DoReturn, Returns
  <2> QED BY <2>1 DEF Move
<1> QED BY <1>2, <1>3

\* A call, by a script or by the embedding program, that leaves the frame to others.
LEMMA CallMoves ==
  ASSUME NoDroppedValues, TypeInv, Nested, TopKind # "native",
         NEW c \in Callables \cup {NotCallable}, NEW argc \in Nat,
         NEW o \in CallValue(c, argc), Frames' = o.frames, StackTop' = o.top,
         UNCHANGED <<Host, ReturnFrame>>,
         FrameCount > 0 => EndOf(FrameCount) <= StackTop - argc - 1
  PROVE  Move
<1>1. PICK f \in Functions : CallResult(o, f, StackTop, StackTop - argc - 1)
  BY CallValueOutcomes, TypeInvTypeOK
<1>2. StackTop - argc - 1 \in Int
  BY Shapes
<1>3. CASE Ok(o)
  <2>1. \E fr \in Frame : MakesFrame(fr)
    BY <1>1, <1>2, <1>3, CallMakesFrame
  <2> QED BY <2>1 DEF Calls, Move
<1>4. CASE ~ Ok(o)
  BY <1>1, <1>2, <1>4, FailedCallMoves DEF Move
<1> QED BY <1>3, <1>4

LEMMA CallOrThrowMoves ==
  ASSUME NoDroppedValues, TypeInv, Nested, TopKind # "native",
         NEW c \in Callables \cup {NotCallable}, NEW argc \in Nat, CallOrThrow(c, argc),
         UNCHANGED <<Host, ReturnFrame>>,
         FrameCount > 0 => EndOf(FrameCount) <= StackTop - argc - 1
  PROVE  Move
<1>1. PICK o \in CallValue(c, argc) : StackTop' = o.top /\ Frames' = o.frames
  BY DEF CallOrThrow
<1> QED BY <1>1, CallMoves

LEMMA InstructionMoves ==
  ASSUME Disciplined, TypeInv, Nested, Instruction
  PROVE  Move
<1>0. NoDroppedValues /\ ~ Imports /\ StackTop \in Nat
  BY Shapes DEF Disciplined
<1>1. CASE OpPush
  <2>1. PICK p \in PushN(StackTop, 1) : StackTop' = p.top
    BY <1>1 DEF OpPush
  <2>2. StackTop \in 0 .. StackMax /\ TypeOK
    BY TypeInvTypeOK DEF TypeInv
  <2>3. p.top \in StackTop .. StackMax
    BY <1>0, <2>1, <2>2, PushOutcomes
  <2>4. Above(StackTop')
    BY <1>0, <2>1, <2>3, BoundsAssumption, AboveTop
  <2> QED BY <1>1, <2>4 DEF OpPush, MovesTop, Move
<1>2. CASE OpPop
  <2>1. FrameCount > 0 /\ Last(Frames) = Frames[FrameCount] /\ TopKind # "native"
    BY <1>2, ScriptTurn DEF OpPop
  <2>2. Operands \in Int
    <3>1. Frames[FrameCount].Slots \in Int /\ Frames[FrameCount].Arity \in Nat
      BY <2>1, Shapes
    <3> QED BY <1>0, <2>1, <3>1 DEF Operands
  <2>3. EndOf(FrameCount) <= StackTop - 1
    BY <1>2, <2>1, <2>2, OperandsAbove DEF OpPop
  <2> QED BY <1>2, <2>1, <2>3 DEF OpPop, Above, MovesTop, Move
<1>3. CASE OpReturn
  BY <1>3, ReturnMoves DEF OpReturn
<1>4. CASE BranchLimit
  <2>1. CASE DoReturn(StackTop)
    BY <1>4, <2>1, ReturnMoves DEF BranchLimit
  <2>2. CASE UNCHANGED <<StackTop, Frames, ReturnFrame, Host>>
    BY <1>0, <2>2, AboveTop DEF MovesTop, Move
  <2> QED BY <1>4, <2>1, <2>2 DEF BranchLimit
<1>5. ASSUME NEW argc \in 0 .. MaxArgs, OpCallNative(argc) PROVE Move
  <2>1. FrameCount > 0 /\ Last(Frames) = Frames[FrameCount] /\ TopKind # "native"
    BY <1>5, ScriptTurn DEF OpCallNative
  <2>2. argc \in Nat /\ argc + 1 \in Nat
    BY BoundsAssumption
  <2>3. EndOf(FrameCount) <= StackTop - (argc + 1)
    BY <1>5, <2>1, <2>2, OperandsAbove DEF OpCallNative
  <2>4. StackTop - (argc + 1) = StackTop - argc - 1
    BY <1>0, <2>2
  <2>5. EntersNative
    BY <1>5, <2>1, <2>2, <2>3, <2>4 DEF OpCallNative, EntersNative
  <2> QED BY <2>5 DEF Move
<1>6. ASSUME NEW argc \in 0 .. MaxArgs, NEW c \in Callables \cup {NotCallable},
             OpCall(c, argc)
      PROVE  Move
  <2>1. FrameCount > 0 /\ Last(Frames) = Frames[FrameCount] /\ TopKind # "native"
    BY <1>6, ScriptTurn DEF OpCall
  <2>2. argc \in Nat /\ argc + 1 \in Nat
    BY BoundsAssumption
  <2>3. EndOf(FrameCount) <= StackTop - (argc + 1)
    BY <1>6, <2>1, <2>2, OperandsAbove DEF OpCall
  <2>4. StackTop - (argc + 1) = StackTop - argc - 1
    BY <1>0, <2>2
  <2> QED BY <1>0, <1>6, <2>1, <2>2, <2>3, <2>4, CallOrThrowMoves DEF OpCall
<1>7. ASSUME NEW f \in Functions, OpImport(f) PROVE Move
  BY <1>0, <1>7 DEF OpImport
<1> QED BY <1>1, <1>2, <1>3, <1>4, <1>5, <1>6, <1>7 DEF Instruction

\* A loop never finds itself without a frame.
LEMMA LoopHasFrames ==
  ASSUME TypeInv, Nested, InLoop
  PROVE  FrameCount > Last(Host).base /\ Frames # <<>>
<1>1. Len(Host) \in 1 .. Len(Host) /\ Last(Host) = Host[Len(Host)] /\ Host[Len(Host)].kind = "run"
  BY KindOfTop DEF InLoop
<1>2. FrameCount > Host[Len(Host)].base
  BY <1>1 DEF Nested, LoopNested, NextBase
<1>3. FrameCount > 0
  BY <1>1, <1>2, Shapes
<1> QED BY <1>1, <1>2, <1>3, KindOfTop

\* A loop is entered by a call from a native function, or from an idle thread.
LEMMA EntersLoopBy ==
  ASSUME TypeInv, NEW f \in Functions, NEW argc \in Nat, NEW o, Ok(o),
         CallResult(o, f, StackTop, StackTop - argc - 1), Frames' = o.frames,
         StackTop' = o.top, NEW after \in {"restore", "keep"},
         Host' = Append(Host, LoopRecord(FrameCount, after)), ReturnFrame' = FrameCount,
         IF TopKind = "none" THEN FrameCount = 0 ELSE TopKind = "native" /\ after = "restore",
         FrameCount > 0 => EndOf(FrameCount) <= StackTop - argc - 1
  PROVE  Move
<1>1. StackTop - argc - 1 \in Int
  BY Shapes
<1>2. \E fr \in Frame : MakesFrame(fr)
  BY <1>1, CallMakesFrame
<1> QED BY <1>2 DEF EntersLoop, Move

\* Where a loop is run whatever Call returned, Call fails only by ending the program
\* or by an access behind the stack.
LEMMA RunAnywayCalls ==
  ASSUME Disciplined, TypeInv, NEW f \in Functions, NEW argc \in Nat,
         NEW op \in RunsAnyway, HostCalls(op),
         NEW o \in CallFunction(f, argc, StackTop, StackTop - argc - 1)
  PROVE  op \notin Embedding["pending"] /\ (~ Ok(o) => o.status # "running")
<1>0. NoDroppedValues /\ TypeOK /\ StackTop \in 0 .. StackMax
  BY TypeInvTypeOK DEF Disciplined, TypeInv
<1>1. RuntimeResponses \subseteq {"terminate"} /\ FatalResponses \subseteq {"terminate"}
      /\ op \notin Embedding["pending"]
  <2>1. op \in Embedding["idle"] \/ op \in Embedding["native"] \/ op \in Embedding["pending"]
    BY DEF HostCalls
  <2>2. op \notin Embedding["pending"]
    BY DEF Disciplined, RunsAnyway
  <2> QED BY <2>1, <2>2 DEF Disciplined
<1>2. \A top : \A e \in Throw(top) \cup Fatal(top) : e.status # "running"
  BY <1>1 DEF Throw, Fatal, Outcome
<1>3. ASSUME argc < MinArity[f] \/ argc > Arity[f]
      PROVE  ~ Ok(o) => o.status # "running"
  BY <1>2, <1>3 DEF CallFunction
<1>4. ASSUME ~ (argc < MinArity[f] \/ argc > Arity[f])
      PROVE  ~ Ok(o) => o.status # "running"
  <2>1. PICK p \in PushN(StackTop, Arity[f] - argc) :
          o \in IF ~ Ok(p) THEN {p}
                ELSE IF FrameCount = FramesMax THEN Fatal(p.top)
                ELSE {Outcome("ok", p.top,
                              Append(Frames, NewFrame(f, p.top, StackTop - argc - 1)),
                              "running")}
    BY <1>4 DEF CallFunction
  <2>2. Arity[f] \in Nat /\ MinArity[f] \in Nat
    BY FunctionsAssumption
  <2>3. Arity[f] - argc \in Nat
    BY <1>4, <2>2
  <2>4. Ok(p) <=> p.status = "running"
    BY <1>0, <2>1, <2>3, PushOutcomes
  <2>5. CASE ~ Ok(p)
    BY <2>1, <2>4, <2>5
  <2>6. CASE Ok(p) /\ FrameCount = FramesMax
    BY <1>2, <2>1, <2>6
  <2>7. CASE Ok(p) /\ FrameCount # FramesMax
    BY <2>1, <2>7 DEF Outcome, Ok
  <2> QED BY <2>5, <2>6, <2>7
<1> QED BY <1>1, <1>3, <1>4

LEMMA RunAnywayMoves ==
  ASSUME Disciplined, TypeInv, Nested, NEW f \in Functions, NEW argc \in Nat,
         NEW op \in RunsAnyway, HostCalls(op), argc > 0 => Owns(argc), RunAnyway(f, argc)
  PROVE  Move
<1>0. NoDroppedValues /\ TypeOK /\ StackTop \in 0 .. StackMax /\ StackTop \in Nat
  BY TypeInvTypeOK, Shapes DEF Disciplined, TypeInv
<1>1. PICK o \in CallFunction(f, argc, StackTop, StackTop - argc - 1) :
        /\ StackTop' = o.top /\ Frames' = o.frames
        /\ IF o.status = "running"
           THEN /\ Host' = Append(Host, LoopRecord(FrameCount, "restore"))
                /\ ReturnFrame' = FrameCount
           ELSE UNCHANGED <<Host, ReturnFrame>>
  BY DEF RunAnyway
<1>2. StackTop - argc - 1 \in Int
  BY <1>0
<1>3. CallResult(o, f, StackTop, StackTop - argc - 1)
  BY <1>0, <1>1, <1>2, CallOutcomes
<1>4. op \notin Embedding["pending"] /\ (~ Ok(o) => o.status # "running")
  BY <1>1, RunAnywayCalls
<1>5. CASE ~ Ok(o)
  <2>1. UNCHANGED <<Host, ReturnFrame>>
    BY <1>1, <1>4, <1>5
  <2> QED BY <1>1, <1>2, <1>3, <1>5, <2>1, FailedCallMoves DEF Move
<1>6. CASE Ok(o)
  <2>1. o.status = "running"
    BY <1>3, <1>6 DEF CallResult
  <2>2. FrameCount > 0 => EndOf(FrameCount) <= StackTop - argc - 1
    <3>1. ASSUME FrameCount > 0 PROVE EndOf(FrameCount) <= StackTop - argc - 1
      <4>1. TopKind = "native" /\ InNative
        BY <1>4, <3>1, PlaceOf
      <4>2. EndOf(FrameCount) <= Host[Len(Host)].top - 1
        BY <3>1, <4>1, NativeRoom
      <4>3. Host[Len(Host)].top <= StackTop /\ Last(Host) = Host[Len(Host)]
            /\ Host[Len(Host)].top \in Nat
        BY <1>0, <4>1, AboveTop, KindOfTop, Shapes DEF Above, InNative
      <4>4. Host[Len(Host)].top <= StackTop - argc
        BY <1>0, <4>1, <4>3 DEF Owns
      <4>5. EndOf(FrameCount) \in Int
        BY <3>1, Shapes DEF EndOf
      <4> QED BY <1>0, <4>2, <4>3, <4>4, <4>5
    <3> QED BY <3>1
  <2>3. IF TopKind = "none" THEN FrameCount = 0 ELSE TopKind = "native"
    BY <1>4, PlaceOf
  <2> QED BY <1>1, <1>3, <1>6, <2>1, <2>2, <2>3, EntersLoopBy
<1> QED BY <1>5, <1>6

LEMMA InvokeForEntityMoves ==
  ASSUME Disciplined, TypeInv, Nested, NEW c \in Callees, InvokeForEntity(c)
  PROVE  Move
<1>0. NoDroppedValues /\ TypeOK /\ StackTop \in Nat
  BY TypeInvTypeOK, Shapes DEF Disciplined
<1>1. /\ IF TopKind = "none" THEN FrameCount = 0 ELSE TopKind = "native"
      /\ TopKind = "native" \/ "InvokeForEntity" \in Embedding["idle"]
  <2>1. "InvokeForEntity" \notin Embedding["pending"]
    BY DEF Disciplined
  <2> QED BY <2>1, PlaceOf DEF InvokeForEntity
<1>2. FrameCount > 0 => EndOf(FrameCount) <= StackTop - 0 - 1
  <2>1. ASSUME FrameCount > 0 PROVE EndOf(FrameCount) <= StackTop - 0 - 1
    <3>1. TopKind = "native"
      BY <1>1, <2>1
    <3>2. EndOf(FrameCount) <= Host[Len(Host)].top - 1
      BY <2>1, <3>1, NativeRoom
    <3>3. Host[Len(Host)].top <= StackTop /\ Host[Len(Host)].top \in Nat
      BY <1>0, <3>1, AboveTop, Shapes, KindOfTop DEF Above
    <3>4. EndOf(FrameCount) \in Int
      BY <2>1, Shapes DEF EndOf
    <3> QED BY <1>0, <3>2, <3>3, <3>4
  <2> QED BY <2>1
<1>3. CASE c = NativeFunction
  <2>1. EntersNative
    BY <1>1, <1>2, <1>3 DEF InvokeForEntity, EntersNative
  <2> QED BY <2>1 DEF Move
<1>4. CASE c # NativeFunction
  <2>1. PICK o \in CallValue(c, 0) :
          /\ Frames' = o.frames
          /\ IF Ok(o)
             THEN /\ Host' = Append(Host, LoopRecord(FrameCount, "restore"))
                  /\ ReturnFrame' = FrameCount /\ StackTop' = o.top
             ELSE UNCHANGED <<StackTop, ReturnFrame, Host>>
    BY <1>4 DEF InvokeForEntity
  <2>2. c \in Callables \cup {NotCallable} /\ 0 \in Nat
    BY <1>4 DEF Callees
  <2>3. PICK f \in Functions : CallResult(o, f, StackTop, StackTop - 0 - 1)
    BY <1>0, <2>1, <2>2, CallValueOutcomes
  <2>4. CASE Ok(o)
    BY <1>1, <1>2, <2>1, <2>2, <2>3, <2>4, EntersLoopBy
  <2>5. CASE ~ Ok(o)
    <3>1. StackTop - 0 - 1 \in Int
      BY <1>0
    <3> QED BY <2>1, <2>3, <2>5, <3>1, FailedCallMoves DEF Move
  <2> QED BY <2>4, <2>5
<1> QED BY <1>3, <1>4

\* What only an idle thread is asked for.
LEMMA OnlyIdle ==
  ASSUME Disciplined, TypeInv, Nested, NEW op, HostCalls(op),
         op \notin {"push", "pop", "InvokeForEntity", "hsl_run_call_frame",
                    "hsl_run_call_frame_instruction"} \cup RunsAnyway
  PROVE  TopKind = "none" /\ Host = <<>> /\ FrameCount = 0 /\ Frames = <<>> /\ ReturnFrame = 0
<1>1. op \notin Embedding["native"] /\ op \notin Embedding["pending"]
  BY DEF Disciplined
<1> QED BY <1>1, PlaceOf

LEMMA SetupMoves ==
  ASSUME NoDroppedValues, TypeInv, Nested, TopKind = "none", FrameCount = 0, ReturnFrame = 0,
         NEW f \in Functions, NEW argc \in Nat, SetupCallFrame(f, argc)
  PROVE  /\ UNCHANGED Host => Move
         /\ Host' = (IF Len(Frames') > FrameCount
                     THEN Append(Host, LoopRecord(FrameCount, "keep")) ELSE Host) => Move
<1>0. TypeOK /\ StackTop \in 0 .. StackMax /\ StackTop - argc - 1 \in Int
  BY TypeInvTypeOK, Shapes DEF TypeInv
<1>1. PICK o \in CallFunction(f, argc, StackTop, StackTop - argc - 1) :
        /\ StackTop' = o.top /\ Frames' = o.frames
        /\ ReturnFrame' = IF Ok(o) THEN Len(o.frames) - 1 ELSE ReturnFrame
  BY DEF SetupCallFrame
<1>2. CallResult(o, f, StackTop, StackTop - argc - 1)
  BY <1>0, <1>1, CallOutcomes
<1>3. CASE Ok(o)
  <2>1. PICK fr \in Frame : MakesFrame(fr)
    BY <1>0, <1>1, <1>2, <1>3, CallMakesFrame
  <2>2. Len(Frames') = 1
    BY <2>1, NewFrameOrder DEF Nested, FrameCount
  <2>3. ReturnFrame' = 0 /\ ReturnFrame' = ReturnFrame
    BY <1>1, <1>3, <2>2
  <2>4. ASSUME UNCHANGED Host PROVE Move
    BY <2>1, <2>3, <2>4 DEF Calls, Move
  <2>5. ASSUME Host' = (IF Len(Frames') > FrameCount
                        THEN Append(Host, LoopRecord(FrameCount, "keep")) ELSE Host)
        PROVE  Move
    <3>1. Host' = Append(Host, LoopRecord(FrameCount, "keep"))
      BY <2>2, <2>5
    <3>2. EntersLoop
      BY <2>1, <2>3, <3>1 DEF EntersLoop
    <3> QED BY <3>2 DEF Move
  <2> QED BY <2>4, <2>5
<1>4. CASE ~ Ok(o)
  <2>1. Frames' = Frames /\ ReturnFrame' = ReturnFrame
    BY <1>1, <1>2, <1>4 DEF CallResult
  <2>2. (IF Len(Frames') > FrameCount
         THEN Append(Host, LoopRecord(FrameCount, "keep")) ELSE Host) = Host
    BY <2>1, Shapes DEF FrameCount
  <2>3. UNCHANGED Host => MovesTop
    BY <1>0, <1>1, <1>2, <1>4, <2>1, FailedCallMoves
  <2> QED BY <2>2, <2>3 DEF Move
<1> QED BY <1>3, <1>4

\* A call by the embedding program, and the loop that executes it.
LEMMA CallAndLoopMoves ==
  ASSUME TypeInv, Nested, TopKind = "none", FrameCount = 0, ReturnFrame = 0,
         NEW f \in Functions, NEW argc \in Nat, NEW o,
         CallResult(o, f, StackTop, StackTop - argc - 1),
         StackTop' = o.top, Frames' = o.frames,
         Host' = IF Ok(o) THEN Append(Host, LoopRecord(FrameCount, "keep")) ELSE Host,
         UNCHANGED ReturnFrame
  PROVE  Move
<1>1. CASE Ok(o)
  <2>1. Host' = Append(Host, LoopRecord(FrameCount, "keep")) /\ ReturnFrame' = FrameCount
    BY <1>1
  <2> QED BY <1>1, <2>1, EntersLoopBy
<1>2. CASE ~ Ok(o)
  <2>1. StackTop - argc - 1 \in Int
    BY Shapes
  <2> QED BY <1>2, <2>1, FailedCallMoves DEF Move
<1> QED BY <1>1, <1>2

LEMMA InvokeMoves ==
  ASSUME NoDroppedValues, TypeInv, Nested, TopKind = "none", FrameCount = 0,
         NEW c \in Callees, NEW argc \in Nat,
         hsl_invoke(c, argc) \/ hsl_invoke_callable(c, argc)
           \/ hsl_instance_new_from_stack(c, argc)
  PROVE  Move
<1>1. CASE c = NativeFunction
  <2>1. InvokeNative(argc) /\ UNCHANGED ReturnFrame
    BY <1>1 DEF hsl_invoke, hsl_invoke_callable, hsl_instance_new_from_stack, InvokeCallable
  <2>2. EntersNative
    BY <2>1 DEF InvokeNative, EntersNative
  <2> QED BY <2>2 DEF Move
<1>2. CASE c # NativeFunction
  <2>1. c \in Callables \cup {NotCallable}
    BY <1>2 DEF Callees
  <2>2. UNCHANGED <<Host, ReturnFrame>>
        /\ \E o \in CallValue(c, argc) : StackTop' = o.top /\ Frames' = o.frames
    BY <1>2 DEF hsl_invoke, CallOrThrow, hsl_invoke_callable, hsl_instance_new_from_stack,
                InvokeCallable
  <2> QED BY <2>1, <2>2, CallMoves
<1> QED BY <1>1, <1>2

LEMMA HostMoves ==
  ASSUME Disciplined, TypeInv, Nested, HostStep
  PROVE  Move
<1>0. /\ NoDroppedValues /\ TypeOK /\ StackTop \in Nat /\ StackTop \in 0 .. StackMax
      /\ \A argc \in 0 .. MaxArgs : argc \in Nat
  BY TypeInvTypeOK, Shapes, BoundsAssumption DEF Disciplined, TypeInv
<1>1. CASE HostPush
  <2>1. Above(StackTop')
    BY <1>0, <1>1, AboveTop DEF HostPush
  <2> QED BY <1>1, <2>1 DEF HostPush, MovesTop, Move
<1>2. CASE HostPop
  <2>1. Above(StackTop - 1)
    <3>1. CASE InNative
      <4>1. TopKind = "native" /\ Last(Host) = Host[Len(Host)] /\ Len(Host) \in 1 .. Len(Host)
        BY <3>1, KindOfTop DEF InNative
      <4>2. Host[Len(Host)].top <= StackTop - 1 /\ Host[Len(Host)].top \in Nat
        BY <1>2, <3>1, <4>1, Shapes DEF HostPop, Owns
      <4>3. ASSUME FrameCount > 0 PROVE EndOf(FrameCount) <= StackTop - 1
        <5>1. EndOf(FrameCount) <= Host[Len(Host)].top - 1 /\ EndOf(FrameCount) \in Int
          BY <4>1, <4>3, NativeRoom, Shapes DEF EndOf
        <5> QED BY <1>0, <4>2, <5>1
      <4> QED BY <4>2, <4>3 DEF Above
    <3>2. CASE ~ InNative
      <4>1. TopKind = "none"
        BY <1>2, <3>2, PlaceOf DEF HostPop
      <4>2. ASSUME FrameCount > 0 PROVE EndOf(FrameCount) <= StackTop - 1
        <5>1. Frames # <<>> /\ Last(Frames) = Frames[FrameCount]
          BY <4>2, KindOfTop
        <5> QED BY <1>2, <3>2, <5>1 DEF HostPop, Owns, EndOf
      <4> QED BY <4>1, <4>2 DEF Above
    <3> QED BY <3>1, <3>2
  <2> QED BY <1>2, <2>1 DEF HostPop, MovesTop, Move
<1>3. CASE NativeReturn
  <2>1. TopKind = "native" /\ Last(Host) = Host[Len(Host)] /\ Len(Host) \in 1 .. Len(Host)
    BY <1>3, KindOfTop DEF NativeReturn, InNative
  <2>2. Host[Len(Host)] \in Native
    BY <2>1, Shapes DEF TopKind, Loop
  <2>3. Host[Len(Host)].after \in {"push", "pop", "restore"}
    BY <2>2 DEF Native
  <2>4. LeavesNative
    BY <1>3, <2>1, <2>3 DEF NativeReturn, LeavesNative
  <2> QED BY <2>4 DEF Move
<1>4. CASE hsl_run_call_frame
  <2>1. "hsl_run_call_frame" \notin Embedding["native"]
    BY DEF Disciplined, RunsAnyway
  <2>2. TopKind = "none" /\ Host = <<>> /\ FrameCount > 0
    BY <1>4, <2>1, PlaceOf DEF hsl_run_call_frame
  <2>3. RunsPending
    BY <1>4, <2>2 DEF hsl_run_call_frame, RunsPending
  <2> QED BY <2>3 DEF Move
<1>5. ASSUME NEW f \in Functions, RunFunction(f) PROVE Move
  BY <1>5, RunAnywayMoves DEF RunFunction, RunsAnyway
<1>6. ASSUME NEW f \in Functions, RunEntityFunction(f) PROVE Move
  BY <1>6, RunAnywayMoves DEF RunEntityFunction, RunsAnyway
<1>7. ASSUME NEW f \in Functions, RunMain(f) PROVE Move
  <2>1. TopKind = "none" /\ FrameCount = 0 /\ ReturnFrame = 0
    BY <1>7, OnlyIdle DEF RunMain, RunsAnyway
  <2>2. PICK o \in CallFunction(f, 0, StackTop, StackTop - 0 - 1) :
          /\ StackTop' = o.top /\ Frames' = o.frames
          /\ Host' = IF Ok(o) THEN Append(Host, LoopRecord(FrameCount, "keep")) ELSE Host
    BY <1>0, <1>7 DEF RunMain
  <2>3. CallResult(o, f, StackTop, StackTop - 0 - 1)
    BY <1>0, <2>2, CallOutcomes
  <2> QED BY <1>7, <2>1, <2>2, <2>3, CallAndLoopMoves DEF RunMain
<1>8. ASSUME NEW f \in Functions, hsl_run_module(f) PROVE Move
  <2>1. TopKind = "none" /\ FrameCount = 0 /\ ReturnFrame = 0
    BY <1>8, OnlyIdle DEF hsl_run_module, RunsAnyway
  <2> QED BY <1>0, <1>8, <2>1, SetupMoves DEF hsl_run_module
<1>9. ASSUME NEW f \in Functions, NEW argc \in 0 .. MaxArgs, hsl_setup_call_frame(f, argc)
      PROVE  Move
  <2>1. TopKind = "none" /\ FrameCount = 0 /\ ReturnFrame = 0
    BY <1>9, OnlyIdle DEF hsl_setup_call_frame, RunsAnyway
  <2> QED BY <1>0, <1>9, <2>1, SetupMoves DEF hsl_setup_call_frame
<1>10. ASSUME NEW c \in Callees, InvokeForEntity(c) PROVE Move
  BY <1>10, InvokeForEntityMoves
<1>11. ASSUME NEW c \in Callees, NEW argc \in 0 .. MaxArgs, hsl_call(c, argc) PROVE Move
  <2>1. TopKind = "none" /\ FrameCount = 0 /\ ReturnFrame = 0
    BY <1>11, OnlyIdle DEF hsl_call, RunsAnyway
  <2>2. CASE c = NativeFunction
    <3>1. EntersNative
      BY <1>0, <1>11, <2>1, <2>2 DEF hsl_call, EntersNative
    <3> QED BY <3>1 DEF Move
  <2>3. CASE c # NativeFunction
    <3>1. PICK o \in CallValue(c, argc) :
            /\ StackTop' = o.top /\ Frames' = o.frames
            /\ Host' = IF Ok(o) THEN Append(Host, LoopRecord(FrameCount, "keep")) ELSE Host
      BY <1>11, <2>3 DEF hsl_call
    <3>2. c \in Callables \cup {NotCallable} /\ argc \in Nat
      BY <1>0, <2>3 DEF Callees
    <3>3. PICK f \in Functions : CallResult(o, f, StackTop, StackTop - argc - 1)
      BY <1>0, <3>1, <3>2, CallValueOutcomes
    <3> QED BY <1>11, <2>1, <3>1, <3>2, <3>3, CallAndLoopMoves DEF hsl_call
  <2> QED BY <2>2, <2>3
<1>12. ASSUME NEW c \in Callees, NEW argc \in 0 .. MaxArgs,
              hsl_invoke(c, argc) \/ hsl_invoke_callable(c, argc)
                \/ hsl_instance_new_from_stack(c, argc)
       PROVE  Move
  <2>1. TopKind = "none" /\ FrameCount = 0
    BY <1>12, OnlyIdle
    DEF hsl_invoke, hsl_invoke_callable, hsl_instance_new_from_stack, RunsAnyway
  <2> QED BY <1>0, <1>12, <2>1, InvokeMoves
<1> QED BY <1>1, <1>2, <1>3, <1>4, <1>5, <1>6, <1>7, <1>8, <1>9, <1>10, <1>11, <1>12
        DEF HostStep

LEMMA NextMoves ==
  ASSUME Disciplined, TypeInv, Nested, Next
  PROVE  Move
<1>1. ~ LoopWithoutFrame
  BY LoopHasFrames DEF LoopWithoutFrame
<1> QED BY <1>1, InstructionMoves, HostMoves DEF Next

LEMMA InitNested == Init => Nested
BY DEF Init, Nested, FrameOrder, FrameCount, Register

LEMMA StepNested == Disciplined /\ TypeInv /\ Nested /\ [Next]_vars => Nested'
<1> SUFFICES ASSUME Disciplined, TypeInv, Nested, [Next]_vars PROVE Nested'
  OBVIOUS
<1>1. CASE Next
  <2>1. TypeInv'
    BY StepTypes DEF Disciplined
  <2> QED BY <1>1, <2>1, NextMoves, MoveKeeps
<1>2. CASE UNCHANGED vars
  <2>1. StackTop' = StackTop /\ Frames' = Frames /\ Host' = Host /\ ReturnFrame' = ReturnFrame
    BY <1>2 DEF vars
  <2>2. MovesTop
    BY <2>1, Shapes, AboveTop DEF MovesTop
  <2> QED BY <2>2, MovesTopKeeps
<1> QED BY <1>1, <1>2

-----------------------------------------------------------------------------
(* Theorems. *)

\* The slots of two frames never overlap, and a native function's pushes and pops
\* stay above its caller's locals: a return cuts the stack (DO_RETURN, Frame.Slots)
\* where the caller's temporaries end.
THEOREM FramesDoNotOverlap == ASSUME Disciplined PROVE Spec => []FrameOrder
<1>1. Init => TypeInv /\ Nested
  BY InitTypes, InitNested
<1>2. TypeInv /\ Nested /\ [Next]_vars => TypeInv' /\ Nested'
  BY StepTypes, StepNested DEF Disciplined
<1>3. Nested => FrameOrder
  BY DEF Nested
<1> QED BY <1>1, <1>2, <1>3, PTL DEF Spec

\* A loop never executes an instruction of a frame that was there before it was
\* started, however deep native functions and loops are nested (RunInstructionSet,
\* ReturnFrame in RunFunction and InvokeForEntity).
THEOREM LoopsRunOwnFrames == ASSUME Disciplined PROVE Spec => []RunsOwnFrames
<1>1. Init => TypeInv /\ Nested
  BY InitTypes, InitNested
<1>2. TypeInv /\ Nested /\ [Next]_vars => TypeInv' /\ Nested'
  BY StepTypes, StepNested DEF Disciplined
<1>3. TypeInv /\ Nested => RunsOwnFrames
  BY LoopHasFrames DEF RunsOwnFrames
<1> QED BY <1>1, <1>2, <1>3, PTL DEF Spec

-----------------------------------------------------------------------------
(* No wild access. *)

\* No handler answers HSL_ERROR_RES_EXIT to a full stack and comes back, and
\* CallFunction is not called on an idle thread, whose stack may be empty.
NoWildCalls ==
  /\ Disciplined /\ "EXIT" \notin FatalResponses
  /\ "InvokeForEntity" \notin Embedding["idle"]

\* Slot 0 of a native function is in the stack.
NativesHaveSlot == \A k \in 1 .. Len(Host) : Host[k].kind = "native" => Host[k].top > 0

LEMMA SlotKept ==
  ASSUME NoWildCalls, TypeInv, TypeInv', Nested, NativesHaveSlot, Move
  PROVE  NativesHaveSlot'
<1> DEFINE n == Len(Host)
<1>1. n \in Nat
  BY Shapes
<1>2. CASE MovesTop \/ Calls \/ Returns \/ Finishes
  BY <1>2 DEF MovesTop, Calls, Returns, Finishes, NativesHaveSlot
<1>3. CASE LeavesLoop \/ LeavesNative
  <2>1. Host' = Front(Host) /\ Host # <<>>
    BY <1>3, KindOfTop DEF LeavesLoop, LeavesNative
  <2>2. Len(Host') = n - 1 /\ \A k \in 1 .. n - 1 : Host'[k] = Host[k]
    BY <2>1, HostFront DEF TypeInv
  <2> QED BY <1>1, <2>2 DEF NativesHaveSlot
<1>4. ASSUME NEW r \in Loop \cup Native, Host' = Append(Host, r),
             r.kind = "native" => r.top > 0
      PROVE  NativesHaveSlot'
  BY <1>1, <1>4, PushedHost DEF NativesHaveSlot
<1>5. CASE EntersNative
  <2>1. PICK argc \in Nat, after \in {"push", "pop", "restore"} :
          /\ Host' = Append(Host, NativeRecord(argc, after))
          /\ after = "restore" => TopKind = "native"
    BY <1>5 DEF EntersNative, NoWildCalls
  <2> DEFINE r == NativeRecord(argc, after)
  <2>2. r \in Loop \cup Native /\ r.top = StackTop /\ r.after = after /\ r.argc = argc
        /\ r.kind = "native"
    BY Shapes DEF NativeRecord, Native
  <2>3. CASE after = "restore"
    <3>1. Len(Host) \in 1 .. Len(Host) /\ Host[Len(Host)].kind = "native"
      BY <2>1, <2>3, Shapes DEF TopKind
    <3>2. Host[Len(Host)].top > 0 /\ Host[Len(Host)].top \in Nat
      BY <3>1, Shapes DEF NativesHaveSlot
    <3>3. Host[Len(Host)].top <= StackTop
      BY <2>1, <2>3, Shapes, AboveTop DEF Above
    <3> QED BY <1>4, <2>1, <2>2, <3>2, <3>3, Shapes
  <2>4. CASE after # "restore"
    <3>1. Host'[n + 1] = r /\ Len(Host') = n + 1
      BY <2>1, <2>2, PushedHost
    <3>2. RecordOK(r)
      BY <1>1, <3>1 DEF TypeInv, HostOK
    <3>3. r.argc < r.top
      BY <2>2, <2>4, <3>2 DEF RecordOK
    <3> QED BY <1>4, <2>1, <2>2, <3>3, Shapes
  <2> QED BY <2>3, <2>4
<1>6. CASE EntersLoop \/ RunsPending
  <2>1. \E base \in Nat, after \in {"restore", "keep"} :
          Host' = Append(Host, LoopRecord(base, after))
    BY <1>6, Shapes DEF EntersLoop, RunsPending
  <2>2. \A base \in Nat, after \in {"restore", "keep"} :
          LoopRecord(base, after) \in Loop /\ LoopRecord(base, after).kind = "run"
    BY Shapes DEF LoopRecord, Loop
  <2> QED BY <1>4, <2>1, <2>2
<1> QED BY <1>2, <1>3, <1>5, <1>6 DEF Move

LEMMA PushDefined ==
  ASSUME NoWildCalls, NEW top, NEW n, NEW p \in PushN(top, n)
  PROVE  p.status # "undefined"
<1>1. \A r \in FatalResponses : r = "terminate"
  BY EnvironmentAssumption DEF NoWildCalls, Disciplined, NoDroppedValues
<1>2. CASE n = 0 \/ top + n <= StackMax
  BY <1>2 DEF PushN, Outcome
<1>3. CASE ~ (n = 0 \/ top + n <= StackMax)
  <2>1. PICK r \in FatalResponses :
          p = Outcome(IF r = "CONTINUE" THEN "ok" ELSE "failed", StackMax, Frames,
                      CASE r = "terminate" -> "exited"
                        [] r = "EXIT"      -> "undefined"
                        [] r = "CONTINUE"  -> "running")
    BY <1>3 DEF PushN
  <2>2. r = "terminate"
    BY <1>1
  <2> QED BY <2>1, <2>2 DEF Outcome
<1> QED BY <1>2, <1>3

LEMMA CallDefined ==
  ASSUME NoWildCalls, NEW f, NEW argc, NEW top, NEW callee,
         NEW o \in CallFunction(f, argc, top, callee)
  PROVE  o.status # "undefined"
<1>1. \A t : \A e \in Throw(t) \cup Fatal(t) : e.status # "undefined"
  BY DEF Throw, Fatal, Outcome
<1>2. CASE o \in Throw(top)
  BY <1>1, <1>2
<1>3. CASE \E p \in PushN(top, Arity[f] - argc) :
             o \in IF ~ Ok(p) THEN {p}
                   ELSE IF FrameCount = FramesMax THEN Fatal(p.top)
                   ELSE {Outcome("ok", p.top, Append(Frames, NewFrame(f, p.top, callee)),
                                 "running")}
  <2>1. PICK p \in PushN(top, Arity[f] - argc) :
          o \in IF ~ Ok(p) THEN {p}
                ELSE IF FrameCount = FramesMax THEN Fatal(p.top)
                ELSE {Outcome("ok", p.top, Append(Frames, NewFrame(f, p.top, callee)),
                              "running")}
    BY <1>3
  <2>2. CASE o = p
    BY <2>2, PushDefined
  <2>3. CASE o \in Fatal(p.top)
    BY <1>1, <2>3
  <2>4. CASE o = Outcome("ok", p.top, Append(Frames, NewFrame(f, p.top, callee)), "running")
    BY <2>4 DEF Outcome
  <2> QED BY <2>1, <2>2, <2>3, <2>4
<1> QED BY <1>2, <1>3 DEF CallFunction

LEMMA CallValueDefined ==
  ASSUME NoWildCalls, NEW c, NEW argc, NEW o \in CallValue(c, argc)
  PROVE  o.status # "undefined"
<1>1. \A t : \A e \in Throw(t) : e.status # "undefined"
  BY DEF Throw, Outcome
<1> QED BY <1>1, CallDefined DEF CallValue, CallBoundMethod

LEMMA CallOrThrowDefined ==
  ASSUME NoWildCalls, NEW c, NEW argc, CallOrThrow(c, argc)
  PROVE  status' # "undefined"
<1>1. \A t : \A e \in Throw(t) : e.status # "undefined"
  BY DEF Throw, Outcome
<1> QED BY <1>1, CallValueDefined DEF CallOrThrow

LEMMA RunAnywayDefined ==
  ASSUME NoWildCalls, TypeInv, NEW f \in Functions, NEW argc \in Nat,
         NEW op \in RunsAnyway, HostCalls(op), RunAnyway(f, argc)
  PROVE  status' # "undefined"
<1>0. NoDroppedValues /\ Disciplined /\ TypeOK /\ StackTop \in 0 .. StackMax
      /\ StackTop - argc - 1 \in Int
  BY TypeInvTypeOK, Shapes DEF NoWildCalls, Disciplined, TypeInv
<1>1. PICK o \in CallFunction(f, argc, StackTop, StackTop - argc - 1) :
        status' = IF o.status = "running" /\ o.frames = <<>> THEN "undefined" ELSE o.status
  BY DEF RunAnyway
<1>2. o.status # "undefined"
  BY CallDefined
<1>3. ASSUME o.status = "running" PROVE o.frames # <<>>
  <2> DEFINE fr == [Slots |-> StackTop - argc - 1, Arity |-> Arity[f],
                    callee |-> StackTop - argc - 1]
  <2>1. Ok(o)
    BY <1>0, <1>1, <1>3, RunAnywayCalls
  <2>2. o.frames = Append(Frames, fr)
    BY <1>0, <1>1, <2>1, CallOutcomes DEF CallResult
  <2>3. fr \in Frame
    BY <1>0, FunctionsAssumption DEF Frame
  <2> HIDE DEF fr
  <2>4. Len(Append(Frames, fr)) = Len(Frames) + 1 /\ Len(Frames) \in Nat
    BY <2>3, AppendShape DEF TypeInv, FramesOK
  <2>5. Len(o.frames) > 0
    BY <2>2, <2>4
  <2> QED BY <2>5
<1> QED BY <1>1, <1>2, <1>3

\* The frame that a return goes back to lies between slot 0 and the returned one.
LEMMA ReturnDefined ==
  ASSUME NoWildCalls, TypeInv, Nested, InScript, status # "undefined",
         NEW top, DoReturn(top)
  PROVE  status' # "undefined"
<1>1. /\ FrameCount > 0 /\ Last(Frames) = Frames[FrameCount] /\ FrameCount \in 1 .. FrameCount
      /\ ~ InLoop => Host = <<>>
  BY ScriptTurn DEF NoWildCalls
<1>2. ReturnFrame <= FrameCount - 1
  <2>1. CASE InLoop
    <3>1. Len(Host) \in 1 .. Len(Host) /\ Host[Len(Host)].kind = "run"
      BY <2>1, KindOfTop DEF InLoop
    <3>2. FrameCount > ReturnFrame
      BY <3>1 DEF Nested, LoopNested, NextBase, Register
    <3> QED BY <3>2, Shapes
  <2>2. CASE ~ InLoop
    <3>1. ReturnFrame = 0
      BY <1>1, <2>2, KindOfTop DEF Nested, Register
    <3> QED BY <1>1, <3>1, Shapes
  <2> QED BY <2>1, <2>2
<1>3. CASE FrameCount - 1 = ReturnFrame
  BY <1>3 DEF DoReturn
<1>4. CASE FrameCount - 1 # ReturnFrame
  <2>1. FrameCount - 1 \in 1 .. FrameCount /\ FrameCount - 1 < FrameCount
        /\ FrameCount - 1 + 1 = FrameCount
    BY <1>1, <1>2, <1>4, Shapes
  <2>2. Frames[FrameCount - 1].Slots + Frames[FrameCount - 1].Arity + 1
          <= Frames[FrameCount].Slots
    BY <2>1 DEF Nested, FrameOrder
  <2>3. Frames[FrameCount - 1].Slots >= -1 /\ Frames[FrameCount - 1].Slots \in Int
        /\ Frames[FrameCount - 1].Arity \in Nat /\ Frames[FrameCount].Slots \in Int
    BY <1>1, <2>1, Shapes DEF TypeInv, FramesOK, FrameCount
  <2>4. ~ (Last(Frames).Slots < 0)
    BY <1>1, <2>2, <2>3
  <2> QED BY <1>4, <2>4 DEF DoReturn
<1> QED BY <1>3, <1>4

LEMMA InvokeForEntityDefined ==
  ASSUME NoWildCalls, TypeInv, Nested, NativesHaveSlot, status # "undefined",
         NEW c, InvokeForEntity(c)
  PROVE  status' # "undefined"
<1>1. TopKind = "native"
  <2>1. "InvokeForEntity" \notin Embedding["pending"] \cup Embedding["idle"]
    BY DEF NoWildCalls, Disciplined
  <2> QED BY <2>1, PlaceOf DEF InvokeForEntity
<1>2. StackTop # 0
  <2>1. Len(Host) \in 1 .. Len(Host) /\ Host[Len(Host)].kind = "native"
    BY <1>1, Shapes DEF TopKind
  <2>2. Host[Len(Host)].top > 0 /\ Host[Len(Host)].top \in Nat
    BY <2>1, Shapes DEF NativesHaveSlot
  <2>3. Host[Len(Host)].top <= StackTop
    BY <1>1, Shapes, AboveTop DEF Above
  <2> QED BY <2>2, <2>3, Shapes
<1>3. CASE c = NativeFunction
  BY <1>2, <1>3 DEF InvokeForEntity
<1>4. CASE c # NativeFunction
  BY <1>4, CallValueDefined DEF InvokeForEntity
<1> QED BY <1>3, <1>4

LEMMA InstructionDefined ==
  ASSUME NoWildCalls, TypeInv, Nested, status # "undefined", Instruction
  PROVE  status' # "undefined"
<1>1. CASE OpPush
  BY <1>1, PushDefined DEF OpPush
<1>2. CASE OpPop
  BY <1>2 DEF OpPop
<1>3. CASE OpReturn
  BY <1>3, ReturnDefined DEF OpReturn
<1>4. CASE BranchLimit
  BY <1>4, ReturnDefined DEF BranchLimit
<1>5. ASSUME NEW argc \in 0 .. MaxArgs, OpCallNative(argc) PROVE status' # "undefined"
  BY <1>5 DEF OpCallNative
<1>6. ASSUME NEW argc \in 0 .. MaxArgs, NEW c \in Callables \cup {NotCallable},
             OpCall(c, argc)
      PROVE  status' # "undefined"
  BY <1>6, CallOrThrowDefined DEF OpCall
<1>7. ASSUME NEW f \in Functions, OpImport(f) PROVE status' # "undefined"
  BY <1>7 DEF OpImport, NoWildCalls, Disciplined
<1> QED BY <1>1, <1>2, <1>3, <1>4, <1>5, <1>6, <1>7 DEF Instruction

LEMMA HostDefined ==
  ASSUME NoWildCalls, TypeInv, Nested, NativesHaveSlot, status # "undefined", HostStep
  PROVE  status' # "undefined"
<1>1. CASE HostPush \/ HostPop \/ NativeReturn \/ hsl_run_call_frame
  BY <1>1 DEF HostPush, HostPop, NativeReturn, hsl_run_call_frame
<1>2. ASSUME NEW f \in Functions, RunFunction(f) PROVE status' # "undefined"
  BY <1>2, RunAnywayDefined DEF RunFunction, RunsAnyway
<1>3. ASSUME NEW f \in Functions, RunEntityFunction(f) PROVE status' # "undefined"
  BY <1>3, RunAnywayDefined DEF RunEntityFunction, RunsAnyway
<1>4. ASSUME NEW f \in Functions, RunMain(f) PROVE status' # "undefined"
  BY <1>4, CallDefined DEF RunMain
<1>5. ASSUME NEW f, NEW argc, SetupCallFrame(f, argc) PROVE status' # "undefined"
  BY <1>5, CallDefined DEF SetupCallFrame
<1>6. ASSUME NEW f \in Functions, hsl_run_module(f) PROVE status' # "undefined"
  BY <1>5, <1>6 DEF hsl_run_module
<1>7. ASSUME NEW f \in Functions, NEW argc \in 0 .. MaxArgs, hsl_setup_call_frame(f, argc)
      PROVE  status' # "undefined"
  BY <1>5, <1>7 DEF hsl_setup_call_frame
<1>8. ASSUME NEW c \in Callees, InvokeForEntity(c) PROVE status' # "undefined"
  BY <1>8, InvokeForEntityDefined
<1>9. ASSUME NEW c \in Callees, NEW argc \in 0 .. MaxArgs, hsl_call(c, argc)
      PROVE  status' # "undefined"
  BY <1>9, CallValueDefined DEF hsl_call
<1>10. ASSUME NEW c, NEW argc, InvokeCallable(c, argc) PROVE status' # "undefined"
  BY <1>10, CallValueDefined DEF InvokeCallable, InvokeNative
<1>11. ASSUME NEW c \in Callees, NEW argc \in 0 .. MaxArgs,
              hsl_invoke_callable(c, argc) \/ hsl_instance_new_from_stack(c, argc)
       PROVE  status' # "undefined"
  BY <1>10, <1>11 DEF hsl_invoke_callable, hsl_instance_new_from_stack
<1>12. ASSUME NEW c \in Callees, NEW argc \in 0 .. MaxArgs, hsl_invoke(c, argc)
       PROVE  status' # "undefined"
  BY <1>12, CallOrThrowDefined DEF hsl_invoke, InvokeNative
<1> QED BY <1>1, <1>2, <1>3, <1>4, <1>6, <1>7, <1>8, <1>9, <1>11, <1>12 DEF HostStep

\* No instruction is fetched from Frames[-1], no value is read or written before or
\* behind Stack[] (RunInstructionSet, DO_RETURN, Push, InvokeForEntity).
THEOREM NoWildAccess == ASSUME NoWildCalls PROVE Spec => []Defined
<1> DEFINE Inv == TypeInv /\ Nested /\ NativesHaveSlot /\ Defined
<1>1. Init => Inv
  BY InitTypes, InitNested DEF Init, NativesHaveSlot, Defined
<1>2. Inv /\ [Next]_vars => Inv'
  <2> SUFFICES ASSUME Inv, [Next]_vars PROVE Inv'
    OBVIOUS
  <2>1. Disciplined /\ NoDroppedValues
    BY DEF NoWildCalls, Disciplined
  <2>2. TypeInv' /\ Nested'
    BY <2>1, StepTypes, StepNested
  <2>3. CASE Next
    <3>1. Move /\ ~ LoopWithoutFrame
      BY <2>1, <2>3, NextMoves, LoopHasFrames DEF LoopWithoutFrame
    <3>2. NativesHaveSlot'
      BY <2>2, <3>1, SlotKept
    <3>3. status' # "undefined"
      BY <2>3, <3>1, InstructionDefined, HostDefined DEF Next, Defined
    <3> QED BY <2>2, <3>2, <3>3 DEF Defined
  <2>4. CASE UNCHANGED vars
    BY <2>2, <2>4 DEF vars, NativesHaveSlot, Defined
  <2> QED BY <2>3, <2>4
<1>3. Inv => Defined
  OBVIOUS
<1> QED BY <1>1, <1>2, <1>3, PTL DEF Spec

-----------------------------------------------------------------------------
(* The refinement: every move is a step of the contract, or a stutter. *)

\* What the refinement mapping puts for levels and pending.
Levels == [k \in 1 .. Len(Host) |-> [kind |-> Host[k].kind, frames |-> FramesOf(k)]]
Pending == IF Host = <<>> THEN FrameCount ELSE Host[1].base

LevelSet == [kind : {"run", "native"}, frames : Int]

LevelsAre ==
  /\ Levels \in Seq(LevelSet) /\ Len(Levels) = Len(Host)
  /\ \A k \in 1 .. Len(Host) :
       Levels[k] = [kind |-> Host[k].kind, frames |-> NextBase(k) - Host[k].base]
  /\ Levels = <<>> <=> Len(Host) = 0
  /\ Pending = IF Len(Host) = 0 THEN FrameCount ELSE Host[1].base
  /\ FrameCount \in Nat /\ Len(Host) \in Nat

LEMMA LevelsShape == TypeInv => LevelsAre
<1> SUFFICES ASSUME TypeInv PROVE LevelsAre
  OBVIOUS
<1>1. Len(Host) \in Nat /\ FrameCount \in Nat
  BY Shapes
<1>2. ASSUME NEW k \in 1 .. Len(Host)
      PROVE  /\ FramesOf(k) \in Int /\ FramesOf(k) = NextBase(k) - Host[k].base
             /\ Host[k].kind \in {"run", "native"}
  <2>1. k # Len(Host) => k + 1 \in 1 .. Len(Host)
    BY <1>1
  <2>2. Host[k].base \in Nat /\ (k # Len(Host) => Host[k + 1].base \in Nat)
        /\ Host[k].kind \in {"run", "native"}
    BY <2>1, Shapes
  <2> QED BY <1>1, <2>2 DEF FramesOf, NextBase
<1>3. \A k \in 1 .. Len(Host) :
        [kind |-> Host[k].kind, frames |-> FramesOf(k)] \in LevelSet
  BY <1>2 DEF LevelSet
<1>4. Levels \in Seq(LevelSet) /\ Len(Levels) = Len(Host)
  BY <1>1, <1>3 DEF Levels
<1>5. \A k \in 1 .. Len(Host) :
        Levels[k] = [kind |-> Host[k].kind, frames |-> NextBase(k) - Host[k].base]
  BY <1>2 DEF Levels
<1>6. Levels = <<>> <=> Len(Host) = 0
  BY <1>4
<1>7. Host = <<>> <=> Len(Host) = 0
  BY KindOfTop
<1> QED BY <1>1, <1>4, <1>5, <1>6, <1>7 DEF Pending, LevelsAre

LEMMA LevelsNext == TypeInv' => LevelsAre'
BY LevelsShape, PTL

\* An activation is entered.
LEMMA LevelsPushed ==
  ASSUME TypeInv, TypeInv', NEW r \in Loop \cup Native, Host' = Append(Host, r),
         r.base = FrameCount
  PROVE  /\ Levels' = Append(Levels, [kind |-> r.kind, frames |-> FrameCount' - FrameCount])
         /\ Pending' = Pending
<1> DEFINE n == Len(Host)
           new == [kind |-> r.kind, frames |-> FrameCount' - FrameCount]
<1>1. Len(Host') = n + 1 /\ Host'[n + 1] = r /\ \A k \in 1 .. n : Host'[k] = Host[k]
  BY PushedHost
<1>2. LevelsAre /\ LevelsAre'
  BY LevelsShape, LevelsNext
<1>3. n \in Nat /\ FrameCount \in Nat /\ FrameCount' \in Nat
  BY <1>2 DEF LevelsAre
<1>4. new \in LevelSet
  BY <1>3 DEF LevelSet, Loop, Native
<1>5. /\ Append(Levels, new) \in Seq(LevelSet) /\ Len(Append(Levels, new)) = n + 1
      /\ \A k \in 1 .. n : Append(Levels, new)[k] = Levels[k]
      /\ Append(Levels, new)[n + 1] = new
  BY <1>2, <1>4, AppendProperties DEF LevelsAre
<1>6. Levels' \in Seq(LevelSet) /\ Len(Levels') = n + 1
  BY <1>1, <1>2 DEF LevelsAre
<1>7. ASSUME NEW k \in 1 .. n PROVE Levels'[k] = Levels[k]
  <2>1. k \in 1 .. n + 1 /\ k # n + 1
    BY <1>3
  <2>2. NextBase(k)' = NextBase(k)
    <3>1. CASE k = n
      BY <1>1, <1>3, <3>1 DEF NextBase
    <3>2. CASE k # n
      <4>1. k + 1 \in 1 .. n
        BY <1>3, <3>2
      <4> QED BY <1>1, <2>1, <3>2, <4>1 DEF NextBase
    <3> QED BY <3>1, <3>2
  <2> QED BY <1>1, <1>2, <2>1, <2>2 DEF LevelsAre
<1>8. Levels'[n + 1] = new
  <2>1. ASSUME NEW k, k = n + 1 PROVE NextBase(k)' = FrameCount'
    BY <1>1, <2>1 DEF NextBase
  <2> QED BY <1>1, <1>2, <1>3, <2>1 DEF LevelsAre
<1> HIDE DEF new
<1>9. \A k \in 1 .. n + 1 : Levels'[k] = Append(Levels, new)[k]
  BY <1>3, <1>5, <1>7, <1>8
<1>10. Levels' = Append(Levels, new)
  BY <1>5, <1>6, <1>9, SeqEqual
<1>11. Pending' = Pending
  BY <1>1, <1>2, <1>3 DEF LevelsAre
<1> QED BY <1>10, <1>11 DEF new

\* An activation is left, and the frames that were made in it.
LEMMA LevelsPopped ==
  ASSUME TypeInv, TypeInv', Len(Host) > 0, Host' = Front(Host),
         FrameCount' = Host[Len(Host)].base
  PROVE  Levels' = Front(Levels) /\ Pending' = Pending
<1> DEFINE n == Len(Host)
<1>1. Len(Host') = n - 1 /\ \A k \in 1 .. n - 1 : Host'[k] = Host[k]
  BY HostFront DEF TypeInv
<1>2. LevelsAre /\ LevelsAre'
  BY LevelsShape, LevelsNext
<1>3. n \in Nat \ {0} /\ n - 1 \in Nat
  BY <1>2 DEF LevelsAre
<1>4. /\ Front(Levels) \in Seq(LevelSet) /\ Len(Front(Levels)) = n - 1
      /\ \A k \in 1 .. n - 1 : Front(Levels)[k] = Levels[k]
  <2>1. Levels \in Seq(LevelSet) /\ Levels # <<>> /\ Len(Levels) = n
    BY <1>2 DEF LevelsAre
  <2> QED BY <2>1, FrontLast
<1>5. Levels' \in Seq(LevelSet) /\ Len(Levels') = n - 1
  BY <1>1, <1>2 DEF LevelsAre
<1>6. ASSUME NEW k \in 1 .. n - 1 PROVE Levels'[k] = Levels[k]
  <2>1. k \in 1 .. n /\ k # n
    BY <1>3
  <2>2. NextBase(k)' = NextBase(k)
    <3>1. CASE k = n - 1
      BY <1>1, <1>3, <3>1 DEF NextBase
    <3>2. CASE k # n - 1
      <4>1. k + 1 \in 1 .. n - 1
        BY <1>3, <3>2
      <4> QED BY <1>1, <2>1, <3>2, <4>1 DEF NextBase
    <3> QED BY <3>1, <3>2
  <2> QED BY <1>1, <1>2, <2>1, <2>2 DEF LevelsAre
<1>7. Levels' = Front(Levels)
  BY <1>4, <1>5, <1>6, SeqEqual
<1>8. Pending' = Pending
  <2>1. CASE n = 1
    BY <1>1, <1>2, <2>1 DEF LevelsAre
  <2>2. CASE n > 1
    BY <1>1, <1>2, <1>3, <2>2 DEF LevelsAre
  <2> QED BY <1>3, <2>1, <2>2
<1> QED BY <1>7, <1>8

\* Frames are made or returned from while the same activations are there.
LEMMA LevelsGrow ==
  ASSUME TypeInv, TypeInv', Host' = Host, NEW d \in Int, FrameCount' = FrameCount + d
  PROVE  IF Len(Host) = 0 THEN Levels' = Levels /\ Pending' = Pending + d
         ELSE /\ Levels' = [Levels EXCEPT ![Len(Levels)].frames = @ + d]
              /\ Pending' = Pending
<1> DEFINE n == Len(Host)
<1>1. LevelsAre /\ LevelsAre'
  BY LevelsShape, LevelsNext
<1>2. n \in Nat /\ FrameCount \in Nat
  BY <1>1 DEF LevelsAre
<1>3. CASE n = 0
  <2>1. Levels = <<>> /\ Levels' = <<>>
    BY <1>1, <1>3 DEF LevelsAre
  <2>2. Pending' = Pending + d
    BY <1>1, <1>3 DEF LevelsAre
  <2> QED BY <1>3, <2>1, <2>2
<1>4. CASE n # 0
  <2> DEFINE new == [Levels EXCEPT ![Len(Levels)].frames = @ + d]
  <2>1. /\ n \in 1 .. n /\ Levels[n] = [kind |-> Host[n].kind, frames |-> FrameCount - Host[n].base]
        /\ Host[n].base \in Nat /\ Host[n].kind \in {"run", "native"}
    <3>1. n \in 1 .. n
      BY <1>2, <1>4
    <3>2. NextBase(n) = FrameCount
      BY DEF NextBase
    <3> QED BY <1>1, <3>1, <3>2, Shapes DEF LevelsAre
  <2>2. /\ new \in Seq(LevelSet) /\ Len(new) = n
        /\ \A k \in 1 .. n : k # n => new[k] = Levels[k]
        /\ new[n] = [kind |-> Host[n].kind, frames |-> FrameCount - Host[n].base + d]
    <3> DEFINE e == [kind |-> Host[n].kind, frames |-> FrameCount - Host[n].base + d]
    <3>1. e \in LevelSet
      BY <1>2, <2>1 DEF LevelSet
    <3>2. new = [Levels EXCEPT ![n] = e]
      <4>1. Len(Levels) = n
        BY <1>1 DEF LevelsAre
      <4>2. [Levels[n] EXCEPT !.frames = @ + d] = e
        BY <2>1
      <4> QED BY <4>1, <4>2
    <3> HIDE DEF e, new
    <3>3. Levels \in Seq(LevelSet) /\ Len(Levels) = n
      BY <1>1 DEF LevelsAre
    <3> QED BY <2>1, <3>1, <3>2, <3>3, ExceptSeq DEF e
  <2> HIDE DEF new
  <2>3. Levels' \in Seq(LevelSet) /\ Len(Levels') = n
    BY <1>1 DEF LevelsAre
  <2>4. ASSUME NEW k \in 1 .. n PROVE Levels'[k] = new[k]
    <3>1. CASE k = n
      <4>1. NextBase(k)' = FrameCount'
        BY <3>1 DEF NextBase
      <4>2. Levels'[k] = [kind |-> Host'[k].kind, frames |-> NextBase(k)' - Host'[k].base]
        BY <1>1 DEF LevelsAre
      <4>3. FrameCount' - Host[n].base = FrameCount - Host[n].base + d
        BY <1>2, <2>1
      <4>4. Levels'[k] = [kind |-> Host[n].kind, frames |-> FrameCount' - Host[n].base]
        BY <3>1, <4>1, <4>2
      <4> QED BY <2>2, <3>1, <4>3, <4>4
    <3>2. CASE k # n
      <4>1. NextBase(k)' = NextBase(k)
        BY <3>2 DEF NextBase
      <4>2. Levels'[k] = [kind |-> Host'[k].kind, frames |-> NextBase(k)' - Host'[k].base]
        BY <1>1 DEF LevelsAre
      <4>3. Levels[k] = [kind |-> Host[k].kind, frames |-> NextBase(k) - Host[k].base]
        BY <1>1 DEF LevelsAre
      <4> QED BY <2>2, <3>2, <4>1, <4>2, <4>3
    <3> QED BY <3>1, <3>2
  <2>5. Levels' = new
    BY <2>2, <2>3, <2>4, SeqEqual
  <2>6. Pending' = Pending
    BY <1>1, <1>4 DEF LevelsAre
  <2> QED BY <1>4, <2>5, <2>6 DEF new
<1> QED BY <1>3, <1>4

LEMMA LastLevel ==
  ASSUME TypeInv, Host # <<>>
  PROVE  /\ Levels # <<>> /\ Last(Levels).kind = TopKind
         /\ Last(Levels).frames = FrameCount - Host[Len(Host)].base
<1>1. LevelsAre /\ Len(Host) \in 1 .. Len(Host)
  BY LevelsShape, KindOfTop
<1>2. Levels # <<>> /\ Last(Levels) = Levels[Len(Host)]
  <2>1. Levels \in Seq(LevelSet) /\ Levels # <<>> /\ Len(Levels) = Len(Host)
    BY <1>1 DEF LevelsAre
  <2> QED BY <2>1, FrontLast
<1>3. Levels[Len(Host)] = [kind |-> Host[Len(Host)].kind,
                           frames |-> NextBase(Len(Host)) - Host[Len(Host)].base]
  BY <1>1 DEF LevelsAre
<1> QED BY <1>1, <1>2, <1>3 DEF NextBase, TopKind

LEMMA NoLevel ==
  ASSUME TypeInv, TopKind = "none"
  PROVE  Levels = <<>> /\ Pending = FrameCount /\ Len(Host) = 0
<1>1. Len(Host) = 0
  BY KindOfTop
<1> QED BY <1>1, LevelsShape DEF LevelsAre

LEMMA MapMovesTop ==
  ASSUME TypeInv, TypeInv', MovesTop
  PROVE  Levels' = Levels /\ Pending' = Pending
BY DEF MovesTop, Levels, Pending, FramesOf, FrameCount

LEMMA MapCalls ==
  ASSUME TypeInv, TypeInv', Nested, Calls
  PROVE  Contract!Next
<1>1. PICK fr \in Frame : MakesFrame(fr)
  BY DEF Calls
<1>2. FrameCount' = FrameCount + 1 /\ Host' = Host
  BY <1>1, NewFrameOrder DEF Calls, Nested
<1>3. CASE TopKind = "none"
  <2>1. Levels = <<>> /\ Pending = FrameCount /\ Levels' = Levels /\ Pending' = Pending + 1
    BY <1>2, <1>3, NoLevel, LevelsGrow
  <2>2. Contract!SetUp \/ Contract!StepCall
    BY <2>1, Shapes DEF Contract!SetUp, Contract!StepCall, Levels, Pending
  <2> QED BY <2>2 DEF Contract!Next
<1>4. CASE TopKind = "run"
  <2>1. Levels # <<>> /\ Last(Levels).kind = "run"
    BY <1>4, KindOfTop, LastLevel
  <2>2. Levels' = [Levels EXCEPT ![Len(Levels)].frames = @ + 1] /\ Pending' = Pending
    BY <1>2, <1>4, KindOfTop, LevelsGrow
  <2>3. Contract!Call
    BY <2>1, <2>2 DEF Contract!Call, Contract!TopIs, Contract!Last, Last, Levels, Pending
  <2> QED BY <2>3 DEF Contract!Next
<1> QED BY <1>3, <1>4, KindOfTop DEF Calls

LEMMA MapReturns ==
  ASSUME TypeInv, TypeInv', Nested, Returns
  PROVE  Contract!Next
<1>1. FrameCount' = FrameCount - 1 /\ Host' = Host /\ FrameCount \in Nat /\ FrameCount > 0
  <2>1. Frames # <<>> /\ Frames' = Front(Frames) /\ FrameCount > 0
    BY KindOfTop DEF Returns, FrameCount
  <2> QED BY <2>1, FramesFront, Shapes DEF Returns, TypeInv, FrameCount
<1>2. -1 \in Int /\ FrameCount' = FrameCount + (-1)
  BY <1>1
<1>3. CASE TopKind = "none"
  <2>1. Levels = <<>> /\ Pending = FrameCount /\ Levels' = Levels /\ Pending' = Pending - 1
    BY <1>1, <1>2, <1>3, NoLevel, LevelsGrow
  <2>2. Contract!StepReturn
    BY <1>1, <2>1 DEF Contract!StepReturn, Levels, Pending
  <2> QED BY <2>2 DEF Contract!Next
<1>4. CASE TopKind = "run"
  <2>1. Levels # <<>> /\ Last(Levels).kind = "run" /\ Host # <<>>
    BY <1>4, KindOfTop, LastLevel
  <2>2. Last(Levels).frames # 1
    <3>1. Len(Host) \in 1 .. Len(Host) /\ Host[Len(Host)].kind = "run"
      BY <2>1, <1>4, KindOfTop
    <3>2. Host[Len(Host)].base = ReturnFrame
      BY <3>1 DEF Nested, LoopNested, Register
    <3>3. Last(Levels).frames = FrameCount - ReturnFrame
      BY <2>1, <3>2, LastLevel
    <3> QED BY <1>1, <3>3, Shapes DEF Returns
  <2>3. Levels' = [Levels EXCEPT ![Len(Levels)].frames = @ - 1] /\ Pending' = Pending
    <3>1. Levels' = [Levels EXCEPT ![Len(Levels)].frames = @ + (-1)] /\ Pending' = Pending
      BY <1>1, <1>2, <2>1, KindOfTop, LevelsGrow
    <3>2. Levels[Len(Levels)].frames + (-1) = Levels[Len(Levels)].frames - 1
      <4>1. Last(Levels).frames = FrameCount - Host[Len(Host)].base
            /\ Host[Len(Host)].base \in Nat
        BY <2>1, LastLevel, KindOfTop, Shapes
      <4> QED BY <1>1, <4>1 DEF Last
    <3> QED BY <3>1, <3>2
  <2>4. Contract!Return
    BY <2>1, <2>2, <2>3
    DEF Contract!Return, Contract!TopIs, Contract!Last, Last, Levels, Pending
  <2> QED BY <2>4 DEF Contract!Next
<1> QED BY <1>3, <1>4, KindOfTop DEF Returns

LEMMA MapFinishes ==
  ASSUME TypeInv, TypeInv', Nested, Finishes
  PROVE  Contract!Next
<1>1. FrameCount' = FrameCount - 1 /\ Host' = Host /\ FrameCount \in Nat /\ FrameCount > 0
  <2>1. Frames # <<>> /\ Frames' = Front(Frames) /\ FrameCount > 0
    BY KindOfTop DEF Finishes, FrameCount
  <2> QED BY <2>1, FramesFront, Shapes DEF Finishes, TypeInv, FrameCount
<1>2. -1 \in Int /\ FrameCount' = FrameCount + (-1)
  BY <1>1
<1>3. Levels = <<>> /\ Pending = FrameCount /\ Levels' = Levels /\ Pending' = Pending + (-1)
  BY <1>2, NoLevel, LevelsGrow DEF Finishes
<1>4. Contract!StepReturn
  BY <1>1, <1>3 DEF Contract!StepReturn, Levels, Pending
<1> QED BY <1>4 DEF Contract!Next

LEMMA MapLeavesLoop ==
  ASSUME TypeInv, TypeInv', Nested, LeavesLoop
  PROVE  Contract!Next
<1>1. Host # <<>> /\ Len(Host) \in 1 .. Len(Host) /\ Host[Len(Host)].kind = "run" /\ Len(Host) > 0
  BY KindOfTop DEF LeavesLoop
<1>2. Host[Len(Host)].base = FrameCount - 1 /\ FrameCount \in Nat
  BY <1>1, Shapes DEF Nested, LoopNested, Register, LeavesLoop
<1>3. FrameCount' = FrameCount - 1
  <2>1. Frames # <<>> /\ Frames' = Front(Frames)
    BY KindOfTop DEF LeavesLoop, FrameCount
  <2> QED BY <2>1, FramesFront DEF TypeInv, FrameCount
<1>4. Levels' = Front(Levels) /\ Pending' = Pending
  BY <1>1, <1>2, <1>3, LevelsPopped DEF LeavesLoop
<1>5. Levels # <<>> /\ Last(Levels).kind = "run" /\ Last(Levels).frames = 1
  BY <1>1, <1>2, LastLevel DEF LeavesLoop
<1>6. Contract!Return
  BY <1>4, <1>5
  DEF Contract!Return, Contract!TopIs, Contract!Last, Contract!Front, Last, Front, Levels,
      Pending
<1> QED BY <1>6 DEF Contract!Next

LEMMA MapEntersNative ==
  ASSUME TypeInv, TypeInv', EntersNative
  PROVE  Contract!Next
<1>1. PICK argc \in Nat, after \in {"push", "pop", "restore"} :
        Host' = Append(Host, NativeRecord(argc, after)) /\ Frames' = Frames
  BY DEF EntersNative
<1> DEFINE r == NativeRecord(argc, after)
<1>2. r \in Loop \cup Native /\ r.kind = "native" /\ r.base = FrameCount
  BY Shapes DEF NativeRecord, Native
<1>3. FrameCount' - FrameCount = 0
  BY <1>1, Shapes DEF FrameCount
<1>4. Levels' = Append(Levels, [kind |-> "native", frames |-> 0]) /\ Pending' = Pending
  BY <1>1, <1>2, <1>3, LevelsPushed
<1>5. Contract!EnterNative
  BY <1>4 DEF Contract!EnterNative, Contract!Level, Levels, Pending
<1> QED BY <1>5 DEF Contract!Next

LEMMA MapLeavesNative ==
  ASSUME TypeInv, TypeInv', Nested, LeavesNative
  PROVE  Contract!Next
<1>1. Host # <<>> /\ Len(Host) \in 1 .. Len(Host) /\ Host[Len(Host)].kind = "native"
      /\ Len(Host) > 0
  BY KindOfTop DEF LeavesNative
<1>2. FrameCount' = Host[Len(Host)].base
  BY <1>1 DEF Nested, NativeNested, NextBase, LeavesNative, FrameCount
<1>3. Levels' = Front(Levels) /\ Pending' = Pending
  BY <1>1, <1>2, LevelsPopped DEF LeavesNative
<1>4. Levels # <<>> /\ Last(Levels).kind = "native"
  BY <1>1, LastLevel DEF LeavesNative
<1>5. Contract!LeaveNative
  BY <1>3, <1>4
  DEF Contract!LeaveNative, Contract!TopIs, Contract!Last, Contract!Front, Last, Front,
      Levels, Pending
<1> QED BY <1>5 DEF Contract!Next

LEMMA MapEntersLoop ==
  ASSUME TypeInv, TypeInv', Nested, EntersLoop
  PROVE  Contract!Next
<1>1. PICK after \in {"restore", "keep"} :
        /\ Host' = Append(Host, LoopRecord(FrameCount, after))
        /\ \E fr \in Frame : MakesFrame(fr)
        /\ IF TopKind = "none" THEN FrameCount = 0 ELSE TopKind = "native"
  BY DEF EntersLoop
<1> DEFINE r == LoopRecord(FrameCount, after)
<1>2. r \in Loop \cup Native /\ r.kind = "run" /\ r.base = FrameCount
  BY Shapes DEF LoopRecord, Loop
<1>3. FrameCount' = FrameCount + 1
  BY <1>1, NewFrameOrder DEF Nested
<1>4. FrameCount' - FrameCount = 1
  BY <1>3, Shapes
<1>5. Levels' = Append(Levels, [kind |-> "run", frames |-> 1]) /\ Pending' = Pending
  BY <1>1, <1>2, <1>4, LevelsPushed
<1>6. /\ Levels = <<>> \/ (Levels # <<>> /\ Last(Levels).kind = "native")
      /\ Levels = <<>> => Pending = 0
  <2>1. CASE TopKind = "none"
    BY <1>1, <2>1, NoLevel
  <2>2. CASE TopKind = "native"
    BY <2>2, KindOfTop, LastLevel
  <2> QED BY <1>1, <2>1, <2>2
<1>7. Contract!EnterLoop
  BY <1>5, <1>6
  DEF Contract!EnterLoop, Contract!Outside, Contract!TopIs, Contract!Level, Contract!Last,
      Last, Levels, Pending
<1> QED BY <1>7 DEF Contract!Next

LEMMA MapRunsPending ==
  ASSUME TypeInv, TypeInv', Nested, RunsPending
  PROVE  Contract!Next
<1> DEFINE r == LoopRecord(0, "keep")
<1>1. r \in Loop \cup Native /\ r.kind = "run" /\ r.base = 0
  BY Shapes DEF LoopRecord, Loop
<1>2. Levels = <<>> /\ Pending = FrameCount /\ Len(Host) = 0 /\ FrameCount > 0
      /\ FrameCount \in Nat
  BY NoLevel, Shapes DEF RunsPending
<1>3. Len(Host') = 1 /\ Host'[1] = r /\ FrameCount' = FrameCount
  BY <1>1, <1>2, PushedHost DEF RunsPending, FrameCount
<1>4. LevelsAre'
  BY LevelsNext
<1>5. Levels' \in Seq(LevelSet) /\ Len(Levels') = 1 /\ Pending' = 0
      /\ Levels'[1] = [kind |-> "run", frames |-> FrameCount]
  <2>1. NextBase(1)' = FrameCount
    BY <1>3 DEF NextBase
  <2> QED BY <1>1, <1>2, <1>3, <1>4, <2>1 DEF LevelsAre
<1>6. Levels' = <<[kind |-> "run", frames |-> FrameCount]>>
  BY <1>5
<1>7. Contract!RunPending
  BY <1>2, <1>5, <1>6 DEF Contract!RunPending, Contract!Level, Levels, Pending
<1> QED BY <1>7 DEF Contract!Next

\* One register, ReturnFrame, that each function that starts a loop saves and puts
\* back (RunFunction, InvokeForEntity) does what a frame counter in every loop would
\* do: each loop executes the frames made since it was entered, and is left when the
\* last of them has returned (DO_RETURN).
THEOREM LoopsNest == ASSUME Disciplined PROVE Spec => ImplementsNestedLoops
<1> DEFINE Inv == TypeInv /\ Nested
<1>1. Init => Inv /\ Contract!Init
  <2> SUFFICES ASSUME Init PROVE Inv /\ Contract!Init
    OBVIOUS
  <2>1. Inv
    BY InitTypes, InitNested
  <2>2. Levels = <<>> /\ Pending = 0
    <3>1. Len(Host) = 0 /\ FrameCount = 0
      BY DEF Init, FrameCount
    <3> QED BY <2>1, <3>1, LevelsShape DEF LevelsAre
  <2> QED BY <2>1, <2>2 DEF Contract!Init, Levels, Pending
<1>2. Inv /\ [Next]_vars => Inv'
  BY StepTypes, StepNested DEF Disciplined
<1>3. Inv /\ Inv' /\ [Next]_vars => [Contract!Next]_(Contract!lvars)
  <2> SUFFICES ASSUME Inv, Inv', [Next]_vars PROVE [Contract!Next]_(Contract!lvars)
    OBVIOUS
  <2>1. CASE MovesTop
    BY <2>1, MapMovesTop DEF Contract!lvars, Levels, Pending
  <2>2. CASE Move /\ ~ MovesTop
    BY <2>2, MapCalls, MapReturns, MapFinishes, MapLeavesLoop, MapEntersNative,
       MapLeavesNative, MapEntersLoop, MapRunsPending DEF Move
  <2>3. CASE Next
    BY <2>1, <2>2, <2>3, NextMoves
  <2>4. CASE UNCHANGED vars
    BY <2>4 DEF vars, Contract!lvars, FramesOf, FrameCount
  <2> QED BY <2>3, <2>4
<1> QED BY <1>1, <1>2, <1>3, PTL DEF Spec, ImplementsNestedLoops, Contract!Spec

-----------------------------------------------------------------------------
(* Threads that import: the loop of an import may go on with the importing    *)
(* script's frame, so that they are not disciplined; but the loop that the    *)
(* embedding program started executes all frames.                             *)

\* On an idle thread the embedding program only starts loops, and native functions
\* do not call the functions that set ReturnFrame without putting it back.
IdleStartsLoops ==
  /\ NoDroppedValues
  /\ Embedding["idle"] \subseteq {"push", "pop", "RunMain", "hsl_run_module"} \cup RunsAnyway
  /\ {"hsl_setup_call_frame", "hsl_run_module"} \cap Embedding["native"] = {}

\* The inductive invariant: the register holds what the last "restore" has saved, and
\* under the loop of the embedding program it is 0.
BottomLoop ==
  /\ Host = <<>> => Frames = <<>> /\ ReturnFrame = 0
  /\ Host # <<>> => Host[1].kind = "run" /\ Host[1].ret = 0 /\ Register(1) = 0
  /\ \A k \in 1 .. Len(Host) : Host[k].after # "restore" => Register(k) = Host[k].ret

Stays == UNCHANGED <<Host, ReturnFrame>> /\ (Host = <<>> => Frames' = <<>>)

Enters ==
  \E r \in Loop \cup Native :
    /\ Host' = Append(Host, r) /\ r.ret = ReturnFrame
    /\ r.after # "restore" => UNCHANGED ReturnFrame
    /\ Host = <<>> => r.kind = "run" /\ ReturnFrame' = 0

Leaves ==
  /\ Host # <<>> /\ Host' = Front(Host)
  /\ ReturnFrame' = IF Last(Host).after = "restore" THEN Last(Host).ret ELSE ReturnFrame
  /\ Len(Host) = 1 => Frames' = <<>>

LEMMA StaysKeeps == TypeInv /\ BottomLoop /\ Stays => BottomLoop'
<1> SUFFICES ASSUME TypeInv, BottomLoop, Stays PROVE BottomLoop'
  OBVIOUS
<1>1. Host' = Host /\ ReturnFrame' = ReturnFrame
  BY DEF Stays
<1>2. \A k : Register(k)' = Register(k)
  BY <1>1 DEF Register
<1> QED BY <1>1, <1>2 DEF BottomLoop, Stays

LEMMA EntersKeeps == TypeInv /\ TypeInv' /\ BottomLoop /\ Enters => BottomLoop'
<1> SUFFICES ASSUME TypeInv, TypeInv', BottomLoop, Enters PROVE BottomLoop'
  OBVIOUS
<1> DEFINE n == Len(Host)
<1>1. PICK r \in Loop \cup Native :
        /\ Host' = Append(Host, r) /\ r.ret = ReturnFrame
        /\ r.after # "restore" => UNCHANGED ReturnFrame
        /\ Host = <<>> => r.kind = "run" /\ ReturnFrame' = 0
  BY DEF Enters
<1>2. Len(Host') = n + 1 /\ Host'[n + 1] = r /\ \A k \in 1 .. n : Host'[k] = Host[k]
  BY <1>1, PushedHost
<1>3. n \in Nat /\ (Host = <<>> <=> n = 0)
  BY KindOfTop, Shapes
<1>4. ASSUME NEW k \in 1 .. n PROVE Register(k)' = Register(k)
  <2>1. CASE k = n
    BY <1>1, <1>2, <1>3, <2>1 DEF Register
  <2>2. CASE k # n
    <3>1. k + 1 \in 1 .. n /\ k # n + 1
      BY <1>3, <2>2
    <3> QED BY <1>2, <2>2, <3>1 DEF Register
  <2> QED BY <2>1, <2>2
<1>5. ASSUME NEW k, k = n + 1 PROVE Register(k)' = ReturnFrame'
  BY <1>2, <1>5 DEF Register
<1>6. Host' # <<>>
  BY <1>2, <1>3
<1>7. Host'[1].kind = "run" /\ Host'[1].ret = 0 /\ Register(1)' = 0
  <2>1. CASE n = 0
    BY <1>1, <1>2, <1>3, <1>5, <2>1 DEF BottomLoop
  <2>2. CASE n # 0
    <3>1. 1 \in 1 .. n
      BY <1>3, <2>2
    <3> QED BY <1>2, <1>3, <1>4, <2>2, <3>1 DEF BottomLoop
  <2> QED BY <2>1, <2>2
<1>8. ASSUME NEW k \in 1 .. n + 1, Host'[k].after # "restore" PROVE Register(k)' = Host'[k].ret
  <2>1. CASE k = n + 1
    BY <1>1, <1>2, <1>5, <1>8, <2>1
  <2>2. CASE k # n + 1
    <3>1. k \in 1 .. n
      BY <1>3, <2>2
    <3> QED BY <1>2, <1>4, <1>8, <3>1 DEF BottomLoop
  <2> QED BY <2>1, <2>2
<1> QED BY <1>2, <1>6, <1>7, <1>8 DEF BottomLoop

LEMMA LeavesKeeps == TypeInv /\ TypeInv' /\ BottomLoop /\ Leaves => BottomLoop'
<1> SUFFICES ASSUME TypeInv, TypeInv', BottomLoop, Leaves PROVE BottomLoop'
  OBVIOUS
<1> DEFINE n == Len(Host)
<1>1. n \in Nat \ {0} /\ n \in 1 .. n /\ Last(Host) = Host[n]
  BY KindOfTop, Shapes DEF Leaves
<1>2. Len(Host') = n - 1 /\ \A k \in 1 .. n - 1 : Host'[k] = Host[k]
  BY HostFront DEF TypeInv, Leaves
<1>3. ReturnFrame' = Host[n].ret
  <2>1. Register(n) = ReturnFrame
    BY DEF Register
  <2> QED BY <1>1, <2>1 DEF Leaves, BottomLoop
<1>4. ASSUME NEW k \in 1 .. n - 1 PROVE Register(k)' = Register(k)
  <2>1. CASE k = n - 1
    BY <1>1, <1>2, <1>3, <2>1 DEF Register
  <2>2. CASE k # n - 1
    <3>1. k + 1 \in 1 .. n - 1 /\ k # n
      BY <1>1, <2>2
    <3> QED BY <1>2, <2>2, <3>1 DEF Register
  <2> QED BY <2>1, <2>2
<1>5. CASE n = 1
  <2>1. Len(Host') = 0
    BY <1>2, <1>5
  <2>2. Host' = <<>>
    BY <2>1 DEF TypeInv, HostOK
  <2>3. Frames' = <<>> /\ ReturnFrame' = 0
    BY <1>1, <1>3, <1>5 DEF Leaves, BottomLoop
  <2> QED BY <2>1, <2>2, <2>3 DEF BottomLoop
<1>6. CASE n # 1
  <2>1. 1 \in 1 .. n - 1 /\ Host # <<>>
    <3>1. 1 \in 1 .. n - 1
      <4>1. n \in Nat /\ n # 0
        BY <1>1
      <4> HIDE DEF n
      <4> QED BY <1>6, <4>1
    <3> QED BY <3>1 DEF Leaves
  <2>2. Host' # <<>>
    BY <1>1, <1>2, <1>6
  <2>3. Host'[1].kind = "run" /\ Host'[1].ret = 0 /\ Register(1)' = 0
    BY <1>2, <1>4, <2>1 DEF BottomLoop
  <2>4. \A k \in 1 .. n - 1 : k \in 1 .. n
    BY <1>1
  <2>5. \A k \in 1 .. n - 1 : Host'[k].after # "restore" => Register(k)' = Host'[k].ret
    BY <1>2, <1>4, <2>4 DEF BottomLoop
  <2> QED BY <1>2, <2>2, <2>3, <2>5 DEF BottomLoop
<1> QED BY <1>5, <1>6

LEMMA CalledFrom ==
  ASSUME IdleStartsLoops, TypeInv, BottomLoop, NEW op, HostCalls(op)
  PROVE  \/ /\ op \in Embedding["idle"] /\ Host = <<>> /\ Frames = <<>>
            /\ ReturnFrame = 0 /\ FrameCount = 0
         \/ op \in Embedding["native"] /\ Host # <<>>
BY KindOfTop DEF HostCalls, BottomLoop, InNative

LEMMA RecordsEntered ==
  ASSUME TypeInv, NEW base \in Nat, NEW after \in {"restore", "keep"}, NEW argc \in Nat,
         NEW how \in {"push", "pop", "restore"}
  PROVE  LET loop == LoopRecord(base, after)
             native == NativeRecord(argc, how)
         IN  /\ loop \in Loop \cup Native /\ loop.ret = ReturnFrame
             /\ loop.kind = "run" /\ loop.after = after
             /\ native \in Loop \cup Native /\ native.ret = ReturnFrame
             /\ native.after = how
BY Shapes DEF LoopRecord, NativeRecord, Loop, Native

\* A loop that was entered, or a call that failed.
LEMMA EntersLoopOrStays ==
  ASSUME TypeInv, BottomLoop, NEW base \in Nat, NEW after \in {"restore", "keep"},
         \/ /\ Host' = Append(Host, LoopRecord(base, after))
            /\ after = "keep" => UNCHANGED ReturnFrame
            /\ Host = <<>> => ReturnFrame' = 0
         \/ UNCHANGED <<Host, ReturnFrame, Frames>>
  PROVE  Enters \/ Stays
<1>1. CASE UNCHANGED <<Host, ReturnFrame, Frames>>
  BY <1>1 DEF Stays, BottomLoop
<1>2. CASE /\ Host' = Append(Host, LoopRecord(base, after))
           /\ after = "keep" => UNCHANGED ReturnFrame
           /\ Host = <<>> => ReturnFrame' = 0
  <2> DEFINE r == LoopRecord(base, after)
  <2>1. r \in Loop \cup Native /\ r.ret = ReturnFrame /\ r.kind = "run" /\ r.after = after
    BY RecordsEntered
  <2> QED BY <1>2, <2>1 DEF Enters
<1> QED BY <1>1, <1>2

LEMMA EntersNativeBy ==
  ASSUME TypeInv, BottomLoop, NEW argc \in Nat, NEW after \in {"push", "pop", "restore"},
         Host # <<>>, Host' = Append(Host, NativeRecord(argc, after)),
         after # "restore" => UNCHANGED ReturnFrame
  PROVE  Enters
<1> DEFINE r == NativeRecord(argc, after)
<1>1. r \in Loop \cup Native /\ r.ret = ReturnFrame /\ r.after = after
  BY RecordsEntered
<1> QED BY <1>1 DEF Enters

LEMMA ScriptRuns ==
  ASSUME IdleStartsLoops, TypeInv, BottomLoop, InScript
  PROVE  Host # <<>> /\ FrameCount > 0 /\ Frames # <<>>
<1>1. Frames # <<>> /\ (InLoop \/ HostCalls("hsl_run_call_frame_instruction"))
  BY DEF InScript, SingleStep
<1> QED BY <1>1, CalledFrom, KindOfTop DEF InLoop

LEMMA LeaveLoopLeaves ==
  ASSUME InLoop, NEW top, NEW frames, LeaveLoop(top, frames),
         Len(Host) = 1 => frames = <<>>
  PROVE  Leaves
BY DEF InLoop, LeaveLoop, Leaves

LEMMA ReturnStays ==
  ASSUME IdleStartsLoops, TypeInv, BottomLoop, InScript, NEW top, DoReturn(top)
  PROVE  Stays \/ Leaves
<1>1. Host # <<>> /\ FrameCount > 0 /\ Frames # <<>>
  BY ScriptRuns
<1>2. CASE FrameCount - 1 = ReturnFrame /\ InLoop
  <2>1. LeaveLoop(top, Front(Frames))
    BY <1>2 DEF DoReturn, Finish
  <2>2. ASSUME Len(Host) = 1 PROVE Front(Frames) = <<>>
    <3>1. ReturnFrame = 0
      BY <1>1, <2>2 DEF BottomLoop, Register
    <3>2. FrameCount - 1 = 0
      BY <1>2, <3>1
    <3>3. Len(Front(Frames)) = 0 /\ Front(Frames) \in Seq(Frame)
      BY <1>1, <3>2, FramesFront DEF TypeInv, FramesOK, FrameCount
    <3> QED BY <3>3
  <2> QED BY <1>2, <2>1, <2>2, LeaveLoopLeaves
<1>3. CASE ~ (FrameCount - 1 = ReturnFrame /\ InLoop)
  <2>1. UNCHANGED <<Host, ReturnFrame>>
    BY <1>3 DEF DoReturn, Finish
  <2> QED BY <1>1, <2>1 DEF Stays
<1> QED BY <1>2, <1>3

LEMMA InstructionOfLoop ==
  ASSUME IdleStartsLoops, TypeInv, BottomLoop, Instruction
  PROVE  Stays \/ Enters \/ Leaves
<1>0. /\ \A argc \in 0 .. MaxArgs : argc \in Nat
      /\ FrameCount \in Nat
  BY BoundsAssumption, Shapes
<1>1. CASE OpPush
  BY <1>1, ScriptRuns DEF OpPush, Stays
<1>2. CASE OpPop
  BY <1>2, ScriptRuns DEF OpPop, Stays
<1>3. CASE OpReturn
  BY <1>3, ReturnStays DEF OpReturn
<1>4. CASE BranchLimit
  BY <1>4, ReturnStays, ScriptRuns DEF BranchLimit, Stays
<1>5. ASSUME NEW argc \in 0 .. MaxArgs, OpCallNative(argc) PROVE Enters
  BY <1>0, <1>5, ScriptRuns, EntersNativeBy DEF OpCallNative
<1>6. ASSUME NEW argc \in 0 .. MaxArgs, NEW c \in Callables \cup {NotCallable},
             OpCall(c, argc)
      PROVE  Stays
  BY <1>6, ScriptRuns DEF OpCall, Stays
<1>7. ASSUME NEW f \in Functions, OpImport(f) PROVE Stays \/ Enters
  <2>1. UNCHANGED ReturnFrame /\ Host # <<>>
        /\ (Host' = Append(Host, LoopRecord(FrameCount, "keep")) \/ Host' = Host)
    BY <1>7, ScriptRuns DEF OpImport
  <2>2. CASE Host' = Host
    BY <2>1, <2>2 DEF Stays
  <2>3. CASE Host' = Append(Host, LoopRecord(FrameCount, "keep"))
    BY <1>0, <2>1, <2>3, EntersLoopOrStays
  <2> QED BY <2>1, <2>2, <2>3
<1> QED BY <1>1, <1>2, <1>3, <1>4, <1>5, <1>6, <1>7 DEF Instruction

\* What a call by the embedding program leaves: it fails with the frames as they
\* were, or makes the only frame.
LEMMA CallFromHost ==
  ASSUME IdleStartsLoops, TypeInv, NEW f \in Functions, NEW argc \in Nat,
         NEW o \in CallFunction(f, argc, StackTop, StackTop - argc - 1)
  PROVE  ~ Ok(o) => o.frames = Frames
<1>1. NoDroppedValues /\ TypeOK /\ StackTop \in 0 .. StackMax /\ StackTop - argc - 1 \in Int
  BY TypeInvTypeOK, Shapes DEF IdleStartsLoops, TypeInv
<1> QED BY <1>1, CallOutcomes DEF CallResult

LEMMA RunAnywayOfLoop ==
  ASSUME IdleStartsLoops, TypeInv, BottomLoop, NEW f \in Functions, NEW argc \in Nat,
         NEW op, HostCalls(op), RunAnyway(f, argc)
  PROVE  Stays \/ Enters
<1>1. PICK o \in CallFunction(f, argc, StackTop, StackTop - argc - 1) :
        /\ Frames' = o.frames
        /\ IF o.status = "running"
           THEN /\ Host' = Append(Host, LoopRecord(FrameCount, "restore"))
                /\ ReturnFrame' = FrameCount
           ELSE UNCHANGED <<Host, ReturnFrame>>
  BY DEF RunAnyway
<1>2. FrameCount \in Nat /\ (Host = <<>> => FrameCount = 0)
  BY Shapes, CalledFrom
<1>3. CASE o.status = "running"
  BY <1>1, <1>2, <1>3, EntersLoopOrStays
<1>4. CASE o.status # "running"
  <2>1. ~ Ok(o)
    <3>1. NoDroppedValues /\ TypeOK /\ StackTop \in 0 .. StackMax
          /\ StackTop - argc - 1 \in Int
      BY TypeInvTypeOK, Shapes DEF IdleStartsLoops, TypeInv
    <3> QED BY <1>1, <1>4, <3>1, CallOutcomes DEF CallResult
  <2>2. Frames' = Frames
    BY <1>1, <2>1, CallFromHost
  <2> QED BY <1>1, <1>4, <2>2 DEF Stays, BottomLoop
<1> QED BY <1>3, <1>4

LEMMA HostOfLoop ==
  ASSUME IdleStartsLoops, TypeInv, BottomLoop, HostStep
  PROVE  Stays \/ Enters \/ Leaves
<1>0. /\ \A argc \in 0 .. MaxArgs : argc \in Nat
      /\ FrameCount \in Nat /\ StackTop \in Nat /\ 0 \in Nat
  BY BoundsAssumption, Shapes
<1>1. CASE HostPush
  BY <1>1 DEF HostPush, Stays, BottomLoop
<1>2. CASE HostPop
  BY <1>2 DEF HostPop, Stays, BottomLoop
<1>3. CASE NativeReturn
  <2>1. Host # <<>> /\ Last(Host).kind = "native" /\ Last(Host) = Host[Len(Host)]
    BY <1>3, KindOfTop DEF NativeReturn, InNative
  <2>2. Len(Host) # 1
    BY <2>1 DEF BottomLoop
  <2> QED BY <1>3, <2>1, <2>2 DEF NativeReturn, Leaves
<1>4. CASE hsl_run_call_frame
  <2>1. Host # <<>> /\ FrameCount > 0 /\ FrameCount - 1 \in Nat
    BY <1>0, <1>4, CalledFrom, KindOfTop DEF hsl_run_call_frame
  <2>2. Host' = Append(Host, LoopRecord(FrameCount - 1, "keep")) /\ UNCHANGED ReturnFrame
    BY <1>4, <2>1 DEF hsl_run_call_frame
  <2> QED BY <2>1, <2>2, EntersLoopOrStays
<1>5. ASSUME NEW f \in Functions, RunFunction(f) PROVE Stays \/ Enters
  BY <1>0, <1>5, RunAnywayOfLoop DEF RunFunction
<1>6. ASSUME NEW f \in Functions, RunEntityFunction(f) PROVE Stays \/ Enters
  BY <1>6, RunAnywayOfLoop DEF RunEntityFunction
<1>7. ASSUME NEW f \in Functions, RunMain(f) PROVE Stays \/ Enters
  <2>1. Host = <<>> => ReturnFrame = 0
    BY DEF BottomLoop
  <2>2. PICK o \in CallFunction(f, 0, StackTop, StackTop - 0 - 1) :
          /\ Frames' = o.frames
          /\ Host' = IF Ok(o) THEN Append(Host, LoopRecord(FrameCount, "keep")) ELSE Host
    BY <1>0, <1>7 DEF RunMain
  <2>3. UNCHANGED ReturnFrame
    BY <1>7 DEF RunMain
  <2>4. CASE Ok(o)
    BY <1>0, <2>1, <2>2, <2>3, <2>4, EntersLoopOrStays
  <2>5. CASE ~ Ok(o)
    BY <1>0, <2>2, <2>3, <2>5, CallFromHost DEF Stays, BottomLoop
  <2> QED BY <2>4, <2>5
<1>8. ASSUME NEW f \in Functions, hsl_run_module(f) PROVE Stays \/ Enters
  <2>1. Host = <<>> /\ Frames = <<>> /\ ReturnFrame = 0 /\ FrameCount = 0
    BY <1>8, CalledFrom DEF hsl_run_module, IdleStartsLoops
  <2>2. PICK o \in CallFunction(f, 0, StackTop, StackTop - 0 - 1) :
          /\ Frames' = o.frames
          /\ ReturnFrame' = IF Ok(o) THEN Len(o.frames) - 1 ELSE ReturnFrame
    BY <1>8 DEF hsl_run_module, SetupCallFrame
  <2>3. Host' = IF Len(Frames') > FrameCount
                THEN Append(Host, LoopRecord(FrameCount, "keep")) ELSE Host
    BY <1>8 DEF hsl_run_module
  <2>4. CASE Ok(o)
    <3>1. Len(o.frames) = 1
      <4> DEFINE fr == [Slots |-> StackTop - 0 - 1, Arity |-> Arity[f],
                        callee |-> StackTop - 0 - 1]
      <4>1. NoDroppedValues /\ TypeOK /\ StackTop \in 0 .. StackMax
            /\ StackTop - 0 - 1 \in Int
        BY <1>0, TypeInvTypeOK DEF IdleStartsLoops, TypeInv
      <4>2. o.frames = Append(Frames, fr)
        BY <1>0, <2>2, <2>4, <4>1, CallOutcomes DEF CallResult
      <4>3. fr \in Frame
        BY <1>0, FunctionsAssumption DEF Frame
      <4> HIDE DEF fr
      <4>4. Len(Append(Frames, fr)) = Len(Frames) + 1
        BY <4>3, AppendShape DEF TypeInv, FramesOK
      <4> QED BY <2>1, <4>2, <4>4 DEF FrameCount
    <3>2. ReturnFrame' = 0 /\ Host' = Append(Host, LoopRecord(FrameCount, "keep"))
      BY <2>1, <2>2, <2>3, <2>4, <3>1
    <3> QED BY <1>0, <2>1, <3>2, EntersLoopOrStays
  <2>5. CASE ~ Ok(o)
    <3>1. Frames' = Frames
      BY <1>0, <2>2, <2>5, CallFromHost
    <3>2. Host' = Host /\ ReturnFrame' = ReturnFrame
      BY <2>1, <2>2, <2>3, <2>5, <3>1 DEF FrameCount
    <3> QED BY <2>1, <3>1, <3>2 DEF Stays
  <2> QED BY <2>4, <2>5
<1>9. ASSUME NEW f \in Functions, NEW argc \in 0 .. MaxArgs, hsl_setup_call_frame(f, argc)
      PROVE  FALSE
  BY <1>9, CalledFrom DEF hsl_setup_call_frame, IdleStartsLoops, RunsAnyway
<1>10. ASSUME NEW c \in Callees, InvokeForEntity(c) PROVE Stays \/ Enters
  <2>1. Host # <<>>
    BY <1>10, CalledFrom DEF InvokeForEntity, IdleStartsLoops, RunsAnyway
  <2>2. CASE c = NativeFunction
    BY <1>0, <1>10, <2>1, <2>2, EntersNativeBy DEF InvokeForEntity
  <2>3. CASE c # NativeFunction
    <3>1. \/ Host' = Append(Host, LoopRecord(FrameCount, "restore"))
          \/ UNCHANGED <<Host, ReturnFrame>>
      BY <1>10, <2>3 DEF InvokeForEntity
    <3> QED BY <1>0, <2>1, <3>1, EntersLoopOrStays DEF Stays
  <2> QED BY <2>2, <2>3
<1>11. ASSUME NEW c \in Callees, NEW argc \in 0 .. MaxArgs, hsl_call(c, argc)
       PROVE  Stays \/ Enters
  <2>1. Host # <<>> /\ UNCHANGED ReturnFrame
    BY <1>11, CalledFrom DEF hsl_call, IdleStartsLoops, RunsAnyway
  <2>2. CASE c = NativeFunction
    BY <1>0, <1>11, <2>1, <2>2, EntersNativeBy DEF hsl_call
  <2>3. CASE c # NativeFunction
    <3>1. Host' = Append(Host, LoopRecord(FrameCount, "keep")) \/ Host' = Host
      BY <1>11, <2>3 DEF hsl_call
    <3> QED BY <1>0, <2>1, <3>1, EntersLoopOrStays DEF Stays
  <2> QED BY <2>2, <2>3
<1>12. ASSUME NEW c \in Callees, NEW argc \in 0 .. MaxArgs,
              hsl_invoke(c, argc) \/ hsl_invoke_callable(c, argc)
                \/ hsl_instance_new_from_stack(c, argc)
       PROVE  Stays \/ Enters
  <2>1. Host # <<>>
    BY <1>12, CalledFrom DEF hsl_invoke, hsl_invoke_callable, hsl_instance_new_from_stack,
                             IdleStartsLoops, RunsAnyway
  <2>2. UNCHANGED ReturnFrame /\ (InvokeNative(argc) \/ Host' = Host)
    BY <1>12 DEF hsl_invoke, hsl_invoke_callable, hsl_instance_new_from_stack, InvokeCallable
  <2>3. CASE InvokeNative(argc)
    BY <1>0, <2>1, <2>2, <2>3, EntersNativeBy DEF InvokeNative
  <2>4. CASE Host' = Host
    BY <2>1, <2>2, <2>4 DEF Stays
  <2> QED BY <2>2, <2>3, <2>4
<1> QED BY <1>1, <1>2, <1>3, <1>4, <1>5, <1>6, <1>7, <1>8, <1>9, <1>10, <1>11, <1>12
        DEF HostStep

\* When the loop that the embedding program started has been left, no frame of a
\* script is left on the thread, whatever scripts import and native functions call
\* (OP_IMPORT_MODULE, LoadScriptFromStream, hsl_call): the thread can be used again.
THEOREM NoFramesLeft == ASSUME IdleStartsLoops PROVE Spec => []IdleHasNoFrames
<1>1. Init => TypeInv /\ BottomLoop
  BY InitTypes DEF Init, BottomLoop
<1>2. TypeInv /\ BottomLoop /\ [Next]_vars => TypeInv' /\ BottomLoop'
  <2> SUFFICES ASSUME TypeInv, BottomLoop, [Next]_vars PROVE TypeInv' /\ BottomLoop'
    OBVIOUS
  <2>1. TypeInv'
    BY StepTypes DEF IdleStartsLoops
  <2>2. CASE LoopWithoutFrame
    <3>1. Leaves \/ Stays
      BY <2>2, LeaveLoopLeaves DEF LoopWithoutFrame, Stays
    <3> QED BY <2>1, <3>1, LeavesKeeps, StaysKeeps
  <2>3. CASE Instruction \/ HostStep
    BY <2>1, <2>3, InstructionOfLoop, HostOfLoop, StaysKeeps, EntersKeeps, LeavesKeeps
  <2>4. CASE UNCHANGED vars
    <3>1. Stays
      BY <2>4 DEF vars, Stays, BottomLoop
    <3> QED BY <2>1, <3>1, StaysKeeps
  <2> QED BY <2>2, <2>3, <2>4 DEF Next
<1>3. BottomLoop => IdleHasNoFrames
  BY DEF BottomLoop, IdleHasNoFrames
<1> QED BY <1>1, <1>2, <1>3, PTL DEF Spec

==============================================================================

-------------------------- MODULE UndebuggedProofs ---------------------------
(***************************************************************************)
(* A program that is debugged executes the same instructions in the same   *)
(* order as one that nobody debugs: every step of it is a step of          *)
(* Execution, or leaves the program where it is.                           *)
(***************************************************************************)
EXTENDS DebuggerProofs

-----------------------------------------------------------------------------
(* The program is the frames below the first typed script. *)

Less == {p \in Nat \X Nat : p[1] < p[2]}

LEMMA LessWellFounded == IsWellFoundedOn(Less, Nat)
  BY NatLessThanWellFounded, Zenon DEF OpToRel, Less

LEMMA Least ==
  ASSUME NEW T \in SUBSET Nat, T # {}
  PROVE  \E x \in T : \A y \in T : x <= y
<1>1. PICK x \in T : \A y \in T : ~(<<y, x>> \in Less)
  BY LessWellFounded, WFMin, Zenon
<1>2. ASSUME NEW y \in T
      PROVE  x <= y
  <2>1. x \in Nat /\ y \in Nat
    OBVIOUS
  <2>2. y < x => <<y, x>> \in Less
    BY <2>1 DEF Less
  <2> QED BY <1>1, <2>1, <2>2
<1> QED BY <1>2

NoTyped(h) == \A k \in 1 .. Len(h) : h[k].kind # "typed"

FirstTyped(h, p) ==
  \E k \in 1 .. Len(h) : /\ h[k].kind = "typed" /\ p = h[k].frames
                         /\ \A j \in 1 .. Len(h) : h[j].kind = "typed" => k <= j

Ground(h, count, p) == (NoTyped(h) /\ p = count) \/ FirstTyped(h, p)

GroundFrames(h, count) ==
  LET typed == {k \in DOMAIN h : h[k].kind = "typed"}
  IN IF typed = {} THEN count ELSE h[CHOOSE k \in typed : \A j \in typed : k <= j].frames

Calls(fs, p) == [k \in 1 .. p |-> fs[k - 1]]

LEMMA Grounds ==
  ASSUME NEW h \in Seq(Activation), NEW count
  PROVE  NoTyped(h) \/ \E p : FirstTyped(h, p)
<1>1. CASE NoTyped(h)
  BY <1>1
<1>2. CASE ~NoTyped(h)
  <2> DEFINE T == {k \in 1 .. Len(h) : h[k].kind = "typed"}
  <2>1. T \in SUBSET Nat /\ T # {}
    BY <1>2 DEF NoTyped
  <2>2. PICK k \in T : \A j \in T : k <= j
    BY <2>1, Least
  <2>3. FirstTyped(h, h[k].frames)
    BY <2>2 DEF FirstTyped
  <2> QED BY <2>3
<1> QED BY <1>1, <1>2

LEMMA GroundIs ==
  ASSUME NEW h \in Seq(Activation), NEW count, NEW p, Ground(h, count, p)
  PROVE  GroundFrames(h, count) = p
<1> DEFINE T == {k \in DOMAIN h : h[k].kind = "typed"}
<1>1. DOMAIN h = 1 .. Len(h)
  OBVIOUS
<1>2. CASE NoTyped(h) /\ p = count
  <2>1. T = {}
    BY <1>1, <1>2 DEF NoTyped
  <2> QED BY <1>2, <2>1 DEF GroundFrames
<1>3. CASE FirstTyped(h, p)
  <2>1. PICK k \in 1 .. Len(h) : /\ h[k].kind = "typed" /\ p = h[k].frames
                                 /\ \A j \in 1 .. Len(h) : h[j].kind = "typed" => k <= j
    BY <1>3 DEF FirstTyped
  <2>2. k \in T /\ \A j \in T : k <= j
    BY <1>1, <2>1
  <2>3. \A x \in T : (\A j \in T : x <= j) => x = k
    <3>1. \A x \in T : x \in Int /\ k \in Int
      BY <1>1, <2>2
    <3> QED BY <2>2, <3>1
  <2>4. (CHOOSE x \in T : \A j \in T : x <= j) = k
    <3> HIDE DEF T
    <3> QED BY <2>2, <2>3, Zenon
  <2>5. T # {}
    BY <2>2
  <2> QED BY <2>1, <2>4, <2>5 DEF GroundFrames
<1> QED BY <1>2, <1>3 DEF Ground

LEMMA TypedSame ==
  ASSUME NEW g, NEW h, SameLevels(g, h)
  PROVE  /\ NoTyped(h) => NoTyped(g)
         /\ \A p : FirstTyped(h, p) => FirstTyped(g, p)
<1>1. Len(h) \in Nat \ {0} /\ Len(g) = Len(h)
  BY DEF SameLevels
<1>2. \A j \in 1 .. Len(h) : j \in 1 .. Len(h) - 1 \/ j = Len(h)
  BY <1>1
<1>3. \A j \in 1 .. Len(h) : /\ g[j].kind = h[j].kind
                             /\ h[j].kind = "typed" => g[j].frames = h[j].frames
  BY <1>2 DEF SameLevels, IsLoop
<1> QED BY <1>1, <1>3 DEF NoTyped, FirstTyped

LEMMA TypedAbove ==
  ASSUME NEW g, NEW h, Extends(g, h)
  PROVE  /\ NoTyped(h) /\ g[Len(g)].kind # "typed" => NoTyped(g)
         /\ NoTyped(h) /\ g[Len(g)].kind = "typed" => FirstTyped(g, g[Len(g)].frames)
         /\ NoTyped(g) => NoTyped(h)
         /\ \A p : FirstTyped(h, p) => FirstTyped(g, p)
         /\ \A p : FirstTyped(g, p) => \/ FirstTyped(h, p)
                                       \/ NoTyped(h) /\ g[Len(g)].kind = "typed" /\ p = g[Len(g)].frames
<1>1. Len(h) \in Nat /\ Len(g) = Len(h) + 1 /\ \A j \in 1 .. Len(h) : g[j] = h[j]
  BY DEF Extends
<1>2. /\ \A j \in 1 .. Len(g) : j \in 1 .. Len(h) \/ j = Len(g)
      /\ Len(g) \in 1 .. Len(g) /\ \A j \in 1 .. Len(h) : j \in 1 .. Len(g) /\ j <= Len(g)
      /\ Len(g) <= Len(g)
  BY <1>1
<1>3. NoTyped(h) /\ g[Len(g)].kind # "typed" => NoTyped(g)
  BY <1>1, <1>2 DEF NoTyped
<1>4. NoTyped(h) /\ g[Len(g)].kind = "typed" => FirstTyped(g, g[Len(g)].frames)
  BY <1>1, <1>2 DEF NoTyped, FirstTyped
<1>5. NoTyped(g) => NoTyped(h)
  BY <1>1, <1>2 DEF NoTyped
<1>6. ASSUME NEW p, FirstTyped(h, p)
      PROVE  FirstTyped(g, p)
  <2>1. PICK k \in 1 .. Len(h) : /\ h[k].kind = "typed" /\ p = h[k].frames
                                 /\ \A j \in 1 .. Len(h) : h[j].kind = "typed" => k <= j
    BY <1>6 DEF FirstTyped
  <2>2. \A j \in 1 .. Len(g) : g[j].kind = "typed" => k <= j
    BY <1>1, <1>2, <2>1
  <2>3. k \in 1 .. Len(g) /\ g[k] = h[k]
    BY <1>1, <1>2
  <2> QED BY <2>1, <2>2, <2>3 DEF FirstTyped
<1>7. ASSUME NEW p, FirstTyped(g, p), ~FirstTyped(h, p)
      PROVE  NoTyped(h) /\ g[Len(g)].kind = "typed" /\ p = g[Len(g)].frames
  <2>1. PICK k \in 1 .. Len(g) : /\ g[k].kind = "typed" /\ p = g[k].frames
                                 /\ \A j \in 1 .. Len(g) : g[j].kind = "typed" => k <= j
    BY <1>7 DEF FirstTyped
  <2>2. k \notin 1 .. Len(h)
    <3> SUFFICES ASSUME k \in 1 .. Len(h) PROVE FALSE
      OBVIOUS
    <3>1. \A j \in 1 .. Len(h) : h[j].kind = "typed" => k <= j
      BY <1>1, <1>2, <2>1
    <3> QED BY <1>1, <1>7, <2>1, <3>1 DEF FirstTyped
  <2>3. k = Len(g)
    BY <1>2, <2>2
  <2>4. NoTyped(h)
    <3> SUFFICES ASSUME NEW j \in 1 .. Len(h), h[j].kind = "typed" PROVE FALSE
      BY DEF NoTyped
    <3>1. Len(g) <= j
      BY <1>1, <1>2, <2>1, <2>3
    <3> QED BY <1>1, <3>1
  <2> QED BY <2>1, <2>3, <2>4
<1> QED BY <1>3, <1>4, <1>5, <1>6, <1>7

-----------------------------------------------------------------------------
(* Steps of the program. *)

\* The first typed script was entered below the frames that move.
LEMMA FirstTypedBelow ==
  ASSUME Debugged, status = "running", NEW p, FirstTyped(host, p)
  PROVE  /\ p \in Nat /\ p <= ReturnFrame /\ p <= FrameCount
         /\ FrameCount \in Nat /\ ReturnFrame \in Nat
<1>1. /\ host \in Seq(Activation) /\ Shape(host) /\ Nest(host, FrameCount, ReturnFrame)
      /\ FrameCount \in Nat /\ ReturnFrame \in Nat
  BY DEF Debugged, Nested, ThreadOK
<1>2. PICK k \in 1 .. Len(host) : host[k].kind = "typed" /\ p = host[k].frames
  BY DEF FirstTyped
<1>3. IsLoop(host[k]) /\ Start(host[k]) = p
  BY <1>2 DEF IsLoop, Start
<1>4. p \in Nat /\ p <= ReturnFrame
  BY <1>1, <1>3, StartsBelow
<1>5. p <= FrameCount
  BY <1>1, <1>3 DEF Nest
<1> QED BY <1>1, <1>4, <1>5

LEMMA Mapping ==
  ASSUME ThreadOK, NEW p, Ground(host, FrameCount, p)
  PROVE  [k \in 1 .. ProgramFrames |-> Frames[k - 1]] = Calls(Frames, p)
<1>1. GroundFrames(host, FrameCount) = p
  BY GroundIs DEF ThreadOK
<1>2. ProgramFrames = p
  BY <1>1 DEF ProgramFrames, GroundFrames
<1> QED BY <1>2 DEF Calls

LEMMA MappingNext ==
  ASSUME ThreadOK', NEW p, Ground(host', FrameCount', p)
  PROVE  [k \in 1 .. ProgramFrames |-> Frames[k - 1]]' = Calls(Frames', p)
<1>1. GroundFrames(host', FrameCount') = p
  BY GroundIs DEF ThreadOK
<1>2. ProgramFrames' = p
  BY <1>1 DEF ProgramFrames, GroundFrames
<1> QED BY <1>2 DEF Calls

\* A step of the debugger, or of typed code.
LEMMA Stays ==
  ASSUME ThreadOK, ThreadOK', NEW p \in Nat, Ground(host, FrameCount, p), Ground(host', FrameCount', p),
         \A j \in 0 .. p - 1 : Frames'[j] = Frames[j], status # "ready", status' # "ready"
  PROVE  UNCHANGED Undebugged!evars
<1>1. \A k \in 1 .. p : k - 1 \in 0 .. p - 1
  OBVIOUS
<1>2. Calls(Frames', p) = Calls(Frames, p)
  BY <1>1 DEF Calls
<1>3. UNCHANGED [k \in 1 .. ProgramFrames |-> Frames[k - 1]]
  BY <1>2, Mapping, MappingNext
<1> QED BY <1>3 DEF Undebugged!evars

\* A step of the program's top frame.
Moves ==
  /\ status = "running" /\ status' # "ready" /\ FrameCount > 0
  /\ NoTyped(host) /\ NoTyped(host')
  /\ Current(FrameCount - 1).op = "op" =>
       Frames' = Advance(FrameCount - 1) /\ FrameCount' = FrameCount
  /\ Current(FrameCount - 1).op \in {"call", "native"} =>
       IF FrameCount < MaxFrames
       THEN /\ Frames' = NewFrame(FrameCount - 1, Current(FrameCount - 1).to)
            /\ FrameCount' = FrameCount + 1
       ELSE Frames' = Advance(FrameCount - 1) /\ FrameCount' = FrameCount
  /\ Current(FrameCount - 1).op = "return" =>
       Frames' = Advance(FrameCount - 1) /\ FrameCount' = FrameCount - 1

LEMMA CallsShape ==
  ASSUME NEW fs, NEW p \in 0 .. MaxFrames, fs \in [0 .. MaxFrames - 1 -> CallFrame]
  PROVE  /\ Calls(fs, p) \in Seq(CallFrame) /\ Len(Calls(fs, p)) = p
         /\ DOMAIN Calls(fs, p) = 1 .. p
         /\ \A k \in 1 .. p : Calls(fs, p)[k] = fs[k - 1] /\ k - 1 \in 0 .. p - 1
                              /\ k - 1 \in 0 .. MaxFrames - 1 /\ fs[k - 1] \in CallFrame
<1>1. p \in Nat /\ MaxFrames \in Nat
  BY Programs
<1>2. \A k \in 1 .. p : k - 1 \in 0 .. p - 1 /\ k - 1 \in 0 .. MaxFrames - 1
  BY <1>1, Programs
<1>3. Calls(fs, p) \in [1 .. p -> CallFrame]
  BY <1>2 DEF Calls
<1>4. Calls(fs, p) \in Seq(CallFrame) /\ Len(Calls(fs, p)) = p
  BY <1>1, <1>3
<1> QED BY <1>2, <1>3, <1>4 DEF Calls

\* The same instruction is executed, with the same effect.
LEMMA ProgramMoves ==
  ASSUME Debugged, Debugged', Moves
  PROVE  Undebugged!Next
<1> DEFINE i == FrameCount - 1
           n == FrameCount
           s == Calls(Frames, n)
           t == Calls(Frames', FrameCount')
<1>1. /\ ThreadOK /\ Loaded(n, Frames, code) /\ n \in 0 .. MaxFrames /\ n \in Nat /\ n > 0
      /\ host \in Seq(Activation) /\ Frames \in [0 .. MaxFrames - 1 -> CallFrame]
      /\ MaxFrames \in Nat
  BY Programs DEF Debugged, ThreadOK, Moves
<1>2. /\ ThreadOK' /\ FrameCount' \in 0 .. MaxFrames /\ Frames' \in [0 .. MaxFrames - 1 -> CallFrame]
  BY DEF Debugged, ThreadOK
<1>3. [k \in 1 .. ProgramFrames |-> Frames[k - 1]] = s
  BY <1>1, Mapping DEF Ground, Moves
<1>4. [k \in 1 .. ProgramFrames |-> Frames[k - 1]]' = t
  BY <1>2, MappingNext DEF Ground, Moves
<1>5. /\ s \in Seq(CallFrame) /\ Len(s) = n /\ DOMAIN s = 1 .. n
      /\ \A k \in 1 .. n : s[k] = Frames[k - 1] /\ k - 1 \in 0 .. n - 1 /\ k - 1 \in 0 .. MaxFrames - 1
                           /\ Frames[k - 1] \in CallFrame
  BY <1>1, CallsShape
<1>6. /\ t \in Seq(CallFrame) /\ Len(t) = FrameCount' /\ DOMAIN t = 1 .. FrameCount'
      /\ \A k \in 1 .. FrameCount' : t[k] = Frames'[k - 1]
  BY <1>2, CallsShape
<1> HIDE DEF s, t
<1>7. i \in 0 .. n - 1 /\ i \in 0 .. MaxFrames - 1 /\ n \in 1 .. n /\ i + 1 = n
  BY <1>1
<1>8. BelowTyped(host, i)
  BY DEF BelowTyped, NoTyped, Moves
<1>9. Frames[i].fn \in Functions /\ Frames[i].fn \notin Addresses
  BY <1>1, <1>7, <1>8, Programs DEF Debugged, ProgramOnly
<1>10. /\ Current(i) = Body[Frames[i].fn][Frames[i].ip + 1]
       /\ Current(i).op \in {"op", "call", "native", "return"} /\ Current(i).to \in Functions
  BY <1>1, <1>7, <1>9, TopFrame DEF Current, Text
<1> DEFINE I == Body[s[Len(s)].fn][s[Len(s)].ip + 1]
           A == [s EXCEPT ![Len(s)].ip = @ + 1]
<1>11. I = Current(i)
  BY <1>5, <1>7, <1>10
<1>12. /\ A \in Seq(CallFrame) /\ Len(A) = n
       /\ \A k \in 1 .. n : A[k] = Advance(i)[k - 1]
  <2>1. s[n] = Frames[i]
    BY <1>5, <1>7
  <2>2. Frames[i].ip \in Nat /\ Frames[i] \in CallFrame
    BY <1>1, <1>7 DEF CallFrame
  <2>3. [Frames[i] EXCEPT !.ip = @ + 1] \in CallFrame
    BY <2>2 DEF CallFrame
  <2>4. A = [s EXCEPT ![n] = [Frames[i] EXCEPT !.ip = @ + 1]]
    BY <1>5, <2>1
  <2>5. A \in Seq(CallFrame) /\ Len(A) = n
    BY <1>5, <1>7, <2>3, <2>4
  <2>6. A[n] = [Frames[i] EXCEPT !.ip = @ + 1]
    BY <1>5, <1>7, <2>4
  <2>7. Advance(i)[i] = [Frames[i] EXCEPT !.ip = @ + 1]
    BY <1>1, <1>7 DEF Advance
  <2>8. ASSUME NEW k \in 1 .. n, k # n
        PROVE  A[k] = Advance(i)[k - 1]
    <3>1. A[k] = s[k]
      BY <1>5, <2>4, <2>8
    <3>2. k - 1 # i /\ k - 1 \in 0 .. MaxFrames - 1
      BY <1>5, <1>7, <2>8
    <3>3. Advance(i)[k - 1] = Frames[k - 1]
      BY <1>1, <1>7, <3>2, Advanced
    <3> QED BY <1>5, <3>1, <3>3
  <2>9. n - 1 = i
    OBVIOUS
  <2> QED BY <2>5, <2>6, <2>7, <2>8, <2>9
<1>13. Frames' = Advance(i) /\ FrameCount' = n => t = A
  <2> SUFFICES ASSUME Frames' = Advance(i), FrameCount' = n
               PROVE  t = A
    OBVIOUS
  <2> HIDE DEF A
  <2>1. \A k \in 1 .. n : t[k] = A[k]
    BY <1>6, <1>12
  <2> QED BY <1>6, <1>12, <2>1, SeqEqual
<1> HIDE DEF A
<1> DEFINE e == [fn |-> I.to, ip |-> 0]
<1>14. I.op = "op" => t = A
  BY <1>11, <1>13 DEF Moves
<1>15. I.op = "return" => t = SubSeq(s, 1, Len(s) - 1)
  <2> SUFFICES ASSUME Frames' = Advance(i), FrameCount' = i
               PROVE  t = SubSeq(s, 1, Len(s) - 1)
    BY <1>11 DEF Moves
  <2>1. i \in Int /\ i >= 0 /\ i <= n
    BY <1>7
  <2> HIDE DEF i
  <2>2. /\ SubSeq(s, 1, i) \in Seq(CallFrame) /\ Len(SubSeq(s, 1, i)) = i
        /\ \A k \in 1 .. i : SubSeq(s, 1, i)[k] = s[k]
    BY <1>1, <1>5, <2>1
  <2>3. ASSUME NEW k \in 1 .. i
        PROVE  t[k] = s[k]
    <3>0. k \in 1 .. n /\ k - 1 # i
      BY <1>1, <2>1
    <3>1. k \in 1 .. n /\ k - 1 \in 0 .. MaxFrames - 1 /\ k - 1 # i
      BY <1>5, <3>0
    <3>2. Advance(i)[k - 1] = Frames[k - 1]
      BY <1>1, <1>7, <3>1, Advanced
    <3> QED BY <1>5, <1>6, <3>1, <3>2
  <2>4. t = SubSeq(s, 1, i)
    BY <1>6, <2>2, <2>3, SeqEqual
  <2> QED BY <1>5, <2>4 DEF i
<1>16. I.op \in {"call", "native"} /\ n = MaxFrames => t = A
  BY <1>1, <1>11, <1>13 DEF Moves
<1>17. I.op \in {"call", "native"} /\ n # MaxFrames => t = Append(A, e)
  <2> SUFFICES ASSUME Frames' = NewFrame(i, I.to), FrameCount' = n + 1, n < MaxFrames
               PROVE  t = Append(A, e)
    BY <1>1, <1>11 DEF Moves
  <2>1. e \in CallFrame
    BY <1>10, <1>11 DEF CallFrame, Places
  <2>2. Frames'[n] = e
    <3>1. Advance(i) \in [0 .. MaxFrames - 1 -> CallFrame] /\ n \in 0 .. MaxFrames - 1
      BY <1>1, <1>7, Advanced
    <3> QED BY <3>1 DEF NewFrame
  <2> HIDE DEF e
  <2>3. /\ Append(A, e) \in Seq(CallFrame) /\ Len(Append(A, e)) = n + 1
        /\ \A k \in 1 .. n : Append(A, e)[k] = A[k]
        /\ Append(A, e)[n + 1] = e
    BY <1>12, <2>1, AppendShape
  <2>4. \A k \in 0 .. n - 1 : Frames'[k] = Advance(i)[k]
    <3>1. Advance(i) \in [0 .. MaxFrames - 1 -> CallFrame]
      BY <1>1, <1>7, Advanced
    <3>2. \A k \in 0 .. n - 1 : k \in 0 .. MaxFrames - 1 /\ k # n
      BY <1>1
    <3> QED BY <3>1, <3>2 DEF NewFrame
  <2>5. \A k \in 1 .. n + 1 : k \in 1 .. n \/ k = n + 1
    BY <1>1
  <2>6. ASSUME NEW k \in 1 .. n + 1
        PROVE  t[k] = Append(A, e)[k]
    <3>1. CASE k \in 1 .. n
      <4>1. k - 1 \in 0 .. n - 1
        BY <1>5, <3>1
      <4> QED BY <1>6, <1>12, <2>3, <2>4, <3>1, <4>1
    <3>2. CASE k = n + 1
      <4>1. k - 1 = n
        BY <1>1, <3>2
      <4> QED BY <1>6, <2>2, <2>3, <3>2, <4>1
    <3> QED BY <2>5, <3>1, <3>2
  <2> QED BY <1>6, <2>3, <2>6, SeqEqual
<1>18. I.op \in {"op", "call", "native", "return"}
  BY <1>10, <1>11
<1> HIDE DEF e, i
<1>19. t = CASE I.op = "op" -> A
             [] I.op = "return" -> SubSeq(s, 1, Len(s) - 1)
             [] OTHER -> IF Len(s) = MaxFrames THEN A ELSE Append(A, e)
  <2>1. Len(s) = MaxFrames <=> n = MaxFrames
    BY <1>5
  <2> HIDE DEF I
  <2> QED BY <1>14, <1>15, <1>16, <1>17, <1>18, <2>1
<1>20. s # <<>> /\ UNCHANGED (status # "ready")
  BY <1>1, <1>5 DEF Moves
<1> QED
  BY <1>3, <1>4, <1>19, <1>20
  DEF Undebugged!Next, Undebugged!Instruction, Undebugged!Advanced, Undebugged!Last,
      Undebugged!Front, A, e

\* What h says of typed code, g says too.
TypedAs(g, h) == (NoTyped(h) => NoTyped(g)) /\ \A p : FirstTyped(h, p) => FirstTyped(g, p)

\* Only debuggers change.
LEMMA Idle ==
  ASSUME Debugged, Debugged', status = "running", status' # "ready", TypedAs(host', host),
         Frames' = Frames, FrameCount' = FrameCount
  PROVE  UNCHANGED Undebugged!evars
<1>1. ThreadOK /\ ThreadOK' /\ host \in Seq(Activation) /\ FrameCount \in Nat
  BY DEF Debugged, ThreadOK
<1>2. CASE NoTyped(host)
  <2>1. Ground(host, FrameCount, FrameCount) /\ Ground(host', FrameCount', FrameCount)
    BY <1>2 DEF TypedAs, Ground
  <2> QED BY <1>1, <2>1, Stays
<1>3. ASSUME NEW p, FirstTyped(host, p)
      PROVE  UNCHANGED Undebugged!evars
  <2>1. Ground(host, FrameCount, p) /\ Ground(host', FrameCount', p)
    BY <1>3 DEF TypedAs, Ground
  <2>2. p \in Nat
    BY <1>3, FirstTypedBelow
  <2> QED BY <1>1, <2>1, <2>2, Stays
<1> QED BY <1>1, <1>2, <1>3, Grounds

\* The top frame moves: it is the program's, or the program is below it.
LEMMA TopMoves ==
  ASSUME Debugged, Debugged', status = "running", status' # "ready", TypedAs(host', host),
         NoTyped(host) => Moves, \A j \in 0 .. ReturnFrame - 1 : Frames'[j] = Frames[j]
  PROVE  Undebugged!Next \/ UNCHANGED Undebugged!evars
<1>1. ThreadOK /\ ThreadOK' /\ host \in Seq(Activation) /\ FrameCount \in Nat
  BY DEF Debugged, ThreadOK
<1>2. CASE NoTyped(host)
  BY <1>2, ProgramMoves
<1>3. ASSUME NEW p, FirstTyped(host, p)
      PROVE  UNCHANGED Undebugged!evars
  <2>1. Ground(host, FrameCount, p) /\ Ground(host', FrameCount', p)
    BY <1>3 DEF TypedAs, Ground
  <2>2. p \in Nat /\ p <= ReturnFrame /\ ReturnFrame \in Nat
    BY <1>3, FirstTypedBelow
  <2>3. \A j \in 0 .. p - 1 : j \in 0 .. ReturnFrame - 1
    BY <2>2
  <2> QED BY <1>1, <2>1, <2>2, <2>3, Stays
<1> QED BY <1>1, <1>2, <1>3, Grounds

LEMMA WithTopTyped ==
  ASSUME ThreadOK, host # <<>>, NEW x, SameTop(x)
  PROVE  TypedAs(WithTop(x), host)
  BY SameTopLevels, TypedSame DEF TypedAs

LEMMA WithTopAppendTyped ==
  ASSUME ThreadOK, host # <<>>, NEW x, SameTop(x), NEW a \in Activation, a.kind # "typed"
  PROVE  TypedAs(Append(WithTop(x), a), host)
<1> DEFINE h == WithTop(x)
<1>1. TypedAs(h, host) /\ h \in Seq(Activation)
  BY WithTopTyped, SameTopLevels
<1> HIDE DEF h
<1> DEFINE g == Append(h, a)
<1>2. Extends(g, h) /\ g[Len(g)] = a
  BY <1>1, AppendExtends
<1> HIDE DEF g
<1>3. (NoTyped(h) => NoTyped(g)) /\ \A p : FirstTyped(h, p) => FirstTyped(g, p)
  BY <1>2, TypedAbove
<1>4. TypedAs(g, host)
  BY <1>1, <1>3 DEF TypedAs
<1> QED BY <1>4 DEF g, h

LEMMA BelowReturn ==
  ASSUME ThreadOK, FrameCount > ReturnFrame,
         NEW fs, \A j \in 0 .. FrameCount - 2 : fs[j] = Frames[j]
  PROVE  \A j \in 0 .. ReturnFrame - 1 : fs[j] = Frames[j]
<1>1. FrameCount \in Nat /\ ReturnFrame \in Nat
  BY DEF ThreadOK
<1>2. \A j \in 0 .. ReturnFrame - 1 : j \in 0 .. FrameCount - 2
  BY <1>1
<1> QED BY <1>2

\* An instruction of the top frame, executed by its loop or by a debugger.
LEMMA ExecuteMoves ==
  ASSUME Debugged, Debugged', status = "running", host # <<>>, FrameCount > ReturnFrame,
         NEW x, SameTop(x), Execute(FrameCount - 1, WithTop(x))
  PROVE  Undebugged!Next \/ UNCHANGED Undebugged!evars
<1> DEFINE i == FrameCount - 1
<1>1. /\ ThreadOK /\ Loaded(FrameCount, Frames, code)
      /\ FrameCount \in Nat /\ ReturnFrame \in Nat
  BY DEF Debugged, ThreadOK
<1>2. FrameCount > 0 /\ i \in 0 .. FrameCount - 1
  BY <1>1
<1>3. i \in 0 .. MaxFrames - 1
  BY <1>1, <1>2, TopFrame
<1>4. status' # "ready"
  BY DEF Execute, Op, Call, CallNative
<1>5. /\ Current(i).op = "op" => Frames' = Advance(i) /\ FrameCount' = FrameCount
      /\ Current(i).op \in {"call", "native"} =>
           IF FrameCount < MaxFrames
           THEN Frames' = NewFrame(i, Current(i).to) /\ FrameCount' = FrameCount + 1
           ELSE Frames' = Advance(i) /\ FrameCount' = FrameCount
      /\ Current(i).op \in {"op", "call", "native"}
  BY DEF Execute, Op, Call, CallNative
<1>6. TypedAs(host', host)
  <2>1. CASE host' = WithTop(x)
    BY <1>1, <2>1, WithTopTyped
  <2>2. CASE host' = Append(WithTop(x), NewLoop("native", FrameCount))
    <3>1. NewLoop("native", FrameCount) \in Activation /\ NewLoop("native", FrameCount).kind # "typed"
      BY <1>1 DEF NewLoop, Activation, Loop
    <3> QED BY <1>1, <2>2, <3>1, WithTopAppendTyped
  <2> QED BY <2>1, <2>2 DEF Execute, Op, Call, CallNative
<1>7. NoTyped(host) => Moves
  BY <1>2, <1>4, <1>5, <1>6 DEF TypedAs, Moves
<1>8. \A j \in 0 .. FrameCount - 2 : Frames'[j] = Frames[j]
  <2>1. Advance(i) \in [0 .. MaxFrames - 1 -> CallFrame]
    BY <1>1, <1>3, Advanced
  <2>2. \A j \in 0 .. FrameCount - 2 : j \in 0 .. MaxFrames - 1 /\ j # i /\ j # FrameCount
    <3>1. MaxFrames \in Nat /\ FrameCount <= MaxFrames
      BY Programs DEF Debugged, ThreadOK
    <3> QED BY <1>1, <3>1
  <2>3. \A j \in 0 .. FrameCount - 2 : Advance(i)[j] = Frames[j]
    BY <1>1, <1>3, <2>2, Advanced
  <2>4. \A j \in 0 .. FrameCount - 2 : NewFrame(i, Current(i).to)[j] = Frames[j]
    BY <2>1, <2>2, <2>3 DEF NewFrame
  <2>5. Frames' = Advance(i) \/ Frames' = NewFrame(i, Current(i).to)
    BY <1>5
  <2> QED BY <2>3, <2>4, <2>5
<1> QED BY <1>1, <1>4, <1>6, <1>7, <1>8, BelowReturn, TopMoves

\* A return that ends no loop.
LEMMA ReturnMoves ==
  ASSUME Debugged, Debugged', status = "running", host # <<>>, FrameCount > ReturnFrame,
         NEW x, SameTop(x), host' = WithTop(x), Current(FrameCount - 1).op = "return",
         Frames' = Advance(FrameCount - 1), FrameCount' = FrameCount - 1, status' = status
  PROVE  Undebugged!Next \/ UNCHANGED Undebugged!evars
<1>1. /\ ThreadOK /\ Loaded(FrameCount, Frames, code)
      /\ FrameCount \in Nat /\ ReturnFrame \in Nat
  BY DEF Debugged, ThreadOK
<1>2. FrameCount > 0
  BY <1>1
<1>3. TypedAs(host', host)
  BY <1>1, WithTopTyped
<1>4. NoTyped(host) => Moves
  BY <1>2, <1>3 DEF TypedAs, Moves
<1>5. \A j \in 0 .. FrameCount - 2 : Frames'[j] = Frames[j]
  BY <1>1, <1>2, ReturnedFrames
<1> QED BY <1>1, <1>3, <1>4, <1>5, BelowReturn, TopMoves

\* A loop ends: what the first typed script was entered above is the program again.
LEMMA LeavingMoves ==
  ASSUME Debugged, Debugged', status = "running", host # <<>>, IsLoop(Top),
         NEW count, LeaveLoop(count), count = ReturnFrame,
         \A j \in 0 .. ReturnFrame - 1 : Frames'[j] = Frames[j],
         \/ Frames' = Frames /\ FrameCount = count
         \/ /\ FrameCount > 0 /\ count = FrameCount - 1 /\ Frames' = Advance(FrameCount - 1)
            /\ Current(FrameCount - 1).op = "return"
  PROVE  Undebugged!Next \/ UNCHANGED Undebugged!evars
<1>1. /\ ThreadOK /\ ThreadOK' /\ host \in Seq(Activation) /\ FrameCount \in Nat /\ ReturnFrame \in Nat
  BY DEF Debugged, ThreadOK
<1>2. Extends(host, Front(host)) /\ host[Len(host)] = Top
  BY <1>1, HostFront
<1>3. host' = Front(host) /\ status' = status /\ FrameCount' = ReturnFrame
  BY LoopEnds, LeavingLoop
<1> DEFINE h == Front(host)
<1> HIDE DEF h
<1>4. /\ NoTyped(host) => NoTyped(h)
      /\ \A p : FirstTyped(host, p) => \/ FirstTyped(h, p)
                                       \/ NoTyped(h) /\ Top.kind = "typed" /\ p = Top.frames
  BY <1>2, TypedAbove DEF h
<1>5. CASE NoTyped(host)
  <2>1. NoTyped(host')
    BY <1>3, <1>4, <1>5 DEF h
  <2>2. CASE Frames' = Frames /\ FrameCount = count
    <3>1. Ground(host, FrameCount, FrameCount) /\ Ground(host', FrameCount', FrameCount)
      BY <1>3, <1>5, <2>1, <2>2 DEF Ground
    <3> QED BY <1>1, <1>3, <2>2, <3>1, Stays
  <2>3. CASE /\ FrameCount > 0 /\ count = FrameCount - 1 /\ Frames' = Advance(FrameCount - 1)
             /\ Current(FrameCount - 1).op = "return"
    <3>1. Moves
      BY <1>3, <1>5, <2>1, <2>3 DEF Moves
    <3> QED BY <3>1, ProgramMoves
  <2> QED BY <2>2, <2>3
<1>6. ASSUME NEW p, FirstTyped(host, p)
      PROVE  UNCHANGED Undebugged!evars
  <2>1. p \in Nat /\ p <= ReturnFrame
    BY <1>6, FirstTypedBelow
  <2>2. \A j \in 0 .. p - 1 : j \in 0 .. ReturnFrame - 1
    BY <1>1, <2>1
  <2>3. Ground(host, FrameCount, p)
    BY <1>6 DEF Ground
  <2>4. Ground(host', FrameCount', p)
    <3>1. Top.kind = "typed" => Top.frames = ReturnFrame
      BY LoopEnds
    <3> QED BY <1>3, <1>4, <1>6, <3>1 DEF Ground, h
  <2> QED BY <1>1, <1>3, <2>1, <2>2, <2>3, <2>4, Stays
<1> QED BY <1>1, <1>5, <1>6, Grounds

-----------------------------------------------------------------------------
(* One step. *)

LEMMA RunInstructionMoves ==
  ASSUME Debugged, Debugged', RunInstruction
  PROVE  Undebugged!Next \/ UNCHANGED Undebugged!evars
<1> DEFINE i == FrameCount - 1
           x == [Top EXCEPT !.resumed = FALSE]
<1>1. status = "running" /\ host # <<>> /\ IsLoop(Top) /\ FrameCount > 0
  BY DEF RunInstruction, Looping, IsLoop
<1>2. /\ ThreadOK /\ Loaded(FrameCount, Frames, code)
      /\ FrameCount \in Nat /\ ReturnFrame \in Nat
  BY DEF Debugged, ThreadOK
<1>3. i \in 0 .. FrameCount - 1
  BY <1>1, <1>2
<1>4. ~Runaway(i)
  BY <1>2, <1>3, TopFrame
<1>5. Top \in Loop
  BY <1>1, <1>2, HostFront, Kinds
<1>6. SameTop(x)
  BY <1>1, <1>5 DEF SameTop, Activation, Loop, IsLoop
<1>7. FrameCount > ReturnFrame
  <2>1. FrameCount > ReturnFrame \/ ReturnFrame = 0
    BY <1>1, <1>2, StartsBelow DEF Debugged, Nested, ThreadOK
  <2> QED BY <1>1, <1>2, <2>1
<1> HIDE DEF x
<1>8. \/ Execute(i, WithTop(x))
      \/ /\ Frames' = Advance(i) /\ Current(i).op = "return"
         /\ IF i = ReturnFrame THEN LeaveLoop(i)
            ELSE FrameCount' = i /\ host' = WithTop(x) /\ status' = status
  BY <1>4 DEF RunInstruction, x
<1>9. CASE Execute(i, WithTop(x))
  BY <1>1, <1>6, <1>7, <1>9, ExecuteMoves
<1>10. CASE /\ Frames' = Advance(i) /\ Current(i).op = "return"
            /\ i # ReturnFrame /\ FrameCount' = i /\ host' = WithTop(x) /\ status' = status
  BY <1>1, <1>6, <1>7, <1>10, ReturnMoves
<1>11. CASE Frames' = Advance(i) /\ Current(i).op = "return" /\ i = ReturnFrame /\ LeaveLoop(i)
  <2>1. \A j \in 0 .. FrameCount - 2 : Frames'[j] = Frames[j]
    BY <1>1, <1>2, <1>11, ReturnedFrames
  <2>2. \A j \in 0 .. ReturnFrame - 1 : Frames'[j] = Frames[j]
    BY <1>2, <1>7, <2>1, BelowReturn
  <2> QED BY <1>1, <1>11, <2>2, LeavingMoves
<1> QED BY <1>8, <1>9, <1>10, <1>11

LEMMA NothingToRunMoves ==
  ASSUME Debugged, Debugged', NothingToRun
  PROVE  Undebugged!Next \/ UNCHANGED Undebugged!evars
<1>1. /\ status = "running" /\ host # <<>> /\ IsLoop(Top) /\ FrameCount = 0
      /\ LeaveLoop(0) /\ Frames' = Frames
  BY DEF NothingToRun, Looping, IsLoop
<1>2. ReturnFrame = 0
  BY <1>1, LoopEnds DEF Debugged, ThreadOK
<1> QED BY <1>1, <1>2, LeavingMoves

LEMMA RunOpcodeFuncMoves ==
  ASSUME Debugged, Debugged', RunOpcodeFunc
  PROVE  Undebugged!Next \/ UNCHANGED Undebugged!evars
<1> DEFINE i == FrameCount - 1
           x == [Top EXCEPT !.step = "check"]
<1>1. status = "running" /\ host # <<>> /\ ~IsLoop(Top) /\ Top.step = "run"
  BY DEF RunOpcodeFunc, InDebugger, IsLoop
<1>2. /\ ThreadOK /\ Loaded(FrameCount, Frames, code)
      /\ FrameCount \in Nat /\ ReturnFrame \in Nat
      /\ Top \in AtPrompt /\ StepOK(Top, FrameCount, ReturnFrame, Frames, code)
  BY <1>1, AtTop
<1>3. Frame = i /\ FrameCount > ReturnFrame
  BY <1>1, <1>2 DEF StepOK, Frame
<1>4. i \in 0 .. FrameCount - 1
  BY <1>2, <1>3
<1>5. ~Runaway(i)
  BY <1>2, <1>4, TopFrame
<1>6. SameTop(x)
  BY <1>1, <1>2 DEF AtPrompt, IsLoop, SameTop, Activation
<1> HIDE DEF x
<1>7. \/ Execute(i, WithTop(x))
      \/ /\ Current(i).op = "return" /\ Frames' = Advance(i) /\ FrameCount' = i
         /\ host' = WithTop(x) /\ status' = status
  BY <1>3, <1>5 DEF RunOpcodeFunc, x
<1> QED BY <1>1, <1>3, <1>6, <1>7, ExecuteMoves, ReturnMoves

\* The commands that leave the frames alone.
LEMMA PromptIdle ==
  ASSUME CarefulUse, Debugged, Debugged', SelectFrame \/ Step \/ NextInstruction \/ CheckColumn
  PROVE  UNCHANGED Undebugged!evars
<1>1. status = "running" /\ host # <<>> /\ ~IsLoop(Top)
  BY DEF SelectFrame, Step, NextInstruction, CanStep, CheckColumn, Command, InDebugger, IsLoop
<1>2. ThreadOK /\ Top \in AtPrompt /\ FrameCount \in Nat
  BY <1>1, AtTop
<1>3. status' \in {"ready", "running", "exited"}
  BY DEF Debugged
<1>4. ASSUME NEW x, x.kind = "debugger", host' = WithTop(x), x \in AtPrompt,
             Frames' = Frames, FrameCount' = FrameCount, status' = status
      PROVE  UNCHANGED Undebugged!evars
  <2>1. SameTop(x)
    BY <1>1, <1>2, <1>4 DEF SameTop, IsLoop, AtPrompt, Activation
  <2> QED BY <1>1, <1>2, <1>4, <2>1, WithTopTyped, Idle
<1>5. \A x : WithTop(x) \in Seq(Activation) => x \in Activation
  <2> SUFFICES ASSUME NEW x, WithTop(x) \in Seq(Activation) PROVE x \in Activation
    OBVIOUS
  <2> DEFINE f == Front(host)
  <2>1. f \in Seq(Activation) /\ Append(f, x) \in Seq(Activation)
    BY <1>1, <1>2, HostFront DEF WithTop
  <2> HIDE DEF f
  <2>2. Len(Append(f, x)) = Len(f) + 1 /\ Append(f, x)[Len(f) + 1] = x /\ Len(f) \in Nat
    BY <2>1
  <2> QED BY <2>1, <2>2
<1>6. host' \in Seq(Activation)
  BY DEF Debugged, ThreadOK
<1>7. \A x : x \in Activation /\ x.kind = "debugger" => x \in AtPrompt
  BY Kinds DEF IsLoop
<1>8. ASSUME NEW x, x.kind = "debugger", host' = WithTop(x),
             Frames' = Frames, FrameCount' = FrameCount, status' = status
      PROVE  UNCHANGED Undebugged!evars
  <2>1. x \in AtPrompt
    BY <1>5, <1>6, <1>7, <1>8
  <2> QED BY <1>4, <1>8, <2>1
<1>9. Top = [j \in {"kind", "DebugFrame", "step", "column"} |-> Top[j]] /\ Top.kind = "debugger"
  BY <1>2 DEF AtPrompt
<1>10. \A n, s, c : /\ [Top EXCEPT !.DebugFrame = n].kind = "debugger"
                    /\ [Top EXCEPT !.step = s].kind = "debugger"
                    /\ [Top EXCEPT !.step = s, !.column = c].kind = "debugger"
                    /\ [Top EXCEPT !.step = s, !.column = c, !.DebugFrame = n].kind = "debugger"
  BY <1>9
<1>11. CASE SelectFrame
  <2>1. PICK n \in 0 .. FrameCount - 1 : host' = WithTop([Top EXCEPT !.DebugFrame = n])
    BY <1>11 DEF SelectFrame
  <2>2. Frames' = Frames /\ FrameCount' = FrameCount /\ status' = status
    BY <1>11 DEF SelectFrame, thread
  <2> QED BY <1>8, <1>10, <2>1, <2>2
<1>12. CASE Step
  <2>1. host' = WithTop([Top EXCEPT !.step = "run", !.column = ColumnAt(Frame)])
    BY <1>12 DEF Step
  <2>2. Frames' = Frames /\ FrameCount' = FrameCount /\ status' = status
    BY <1>12 DEF Step, thread
  <2> QED BY <1>8, <1>10, <2>1, <2>2
<1>13. CASE NextInstruction
  <2>1. host' = WithTop([Top EXCEPT !.step = "run", !.column = NoColumn])
    BY <1>13 DEF NextInstruction
  <2>2. Frames' = Frames /\ FrameCount' = FrameCount /\ status' = status
    BY <1>13 DEF NextInstruction, thread
  <2> QED BY <1>8, <1>10, <2>1, <2>2
<1>14. CASE CheckColumn
  <2>1. status' # "undefined"
    BY <1>3
  <2> DEFINE u == IF FrameCount > 0 THEN FrameCount - 1 ELSE Top.DebugFrame
             y == [Top EXCEPT !.step = "no", !.column = NoColumn, !.DebugFrame = u]
  <2>2. \/ host' = WithTop([Top EXCEPT !.step = "run"])
        \/ host' = WithTop(y)
    BY <1>14, <2>1 DEF CheckColumn, Undefined
  <2>3. Frames' = Frames /\ FrameCount' = FrameCount /\ status' = status
    BY <1>14, <2>1 DEF CheckColumn, Undefined, thread
  <2>4. y.kind = "debugger" /\ [Top EXCEPT !.step = "run"].kind = "debugger"
    BY <1>10
  <2> HIDE DEF y
  <2> QED BY <1>8, <2>2, <2>3, <2>4
<1> QED BY <1>11, <1>12, <1>13, <1>14

LEMMA BreakpointsIdle ==
  ASSUME CarefulUse, Debugged, Debugged',
         SetBreakpoint \/ SetTempBreakpoint \/ SwitchBreakpoint \/ DropBreakpoint \/ ClearBreakpoints
  PROVE  UNCHANGED Undebugged!evars
<1>1. status = "running"
  BY DEF SetBreakpoint, SetTempBreakpoint, SwitchBreakpoint, DropBreakpoint, ClearBreakpoints,
         CanBreak, Command, InDebugger
<1>2. CanBreak => Frames[Frame].fn \in DOMAIN BreakpointsPerFunction
  BY DEF CanBreak, CarefulUse
<1>3. Frames' = Frames /\ FrameCount' = FrameCount /\ host' = host /\ status' = status
  BY <1>2 DEF SetBreakpoint, SetTempBreakpoint, SwitchBreakpoint, DropBreakpoint,
              ClearBreakpoints, thread
<1> QED BY <1>1, <1>3, Idle DEF TypedAs

LEMMA HitIdle ==
  ASSUME Debugged, Debugged', Hit
  PROVE  UNCHANGED Undebugged!evars
<1> DEFINE x == [Top EXCEPT !.resumed = TRUE]
<1>1. /\ status = "running" /\ host # <<>> /\ IsLoop(Top)
      /\ host' = Append(WithTop(x), NewDebugger(FrameCount))
      /\ Frames' = Frames /\ FrameCount' = FrameCount /\ status' = status
  BY DEF Hit, Looping, IsLoop, thread
<1>2. Top \in Loop /\ ThreadOK /\ FrameCount \in Nat
  BY <1>1, HostFront, Kinds DEF Debugged, ThreadOK
<1>3. SameTop(x)
  BY <1>1, <1>2 DEF SameTop, Activation, Loop, IsLoop
<1> HIDE DEF x
<1>4. NewDebugger(FrameCount) \in Activation /\ NewDebugger(FrameCount).kind # "typed"
  <2>1. FrameCount - 1 \in Int /\ NoColumn \in Int
    BY <1>2 DEF NoColumn
  <2> QED BY <2>1 DEF NewDebugger, Activation, AtPrompt
<1> QED BY <1>1, <1>2, <1>3, <1>4, WithTopAppendTyped, Idle

LEMMA ContinueIdle ==
  ASSUME Debugged, Debugged', Continue
  PROVE  UNCHANGED Undebugged!evars
<1>1. /\ status = "running" /\ host # <<>> /\ Top.kind = "debugger" /\ host' = Front(host)
      /\ Frames' = Frames /\ FrameCount' = FrameCount /\ status' = status
  BY DEF Continue, Command, InDebugger, thread
<1> DEFINE h == Front(host)
<1>2. Extends(host, h) /\ host[Len(host)] = Top
  BY <1>1, HostFront DEF Debugged
<1> HIDE DEF h
<1>3. TypedAs(h, host)
  BY <1>1, <1>2, TypedAbove DEF TypedAs
<1> QED BY <1>1, <1>3, Idle DEF h

\* Typed code runs above all frames of the program.
LEMMA ExecuteCodeIdle ==
  ASSUME Debugged, Debugged', ExecuteCode
  PROVE  UNCHANGED Undebugged!evars
<1>1. /\ status = "running" /\ status' = status
      /\ host' = Append(host, NewLoop("typed", FrameCount))
  BY DEF ExecuteCode, CanExecute, Command, InDebugger
<1>2. PICK e : Frames' = [Frames EXCEPT ![FrameCount] = e]
  BY DEF ExecuteCode
<1>3. /\ ThreadOK /\ ThreadOK' /\ host \in Seq(Activation) /\ FrameCount \in Nat
      /\ Frames \in [0 .. MaxFrames - 1 -> CallFrame] /\ ReturnFrame \in Nat
  BY DEF Debugged, ThreadOK
<1> DEFINE a == NewLoop("typed", FrameCount)
<1>4. a \in Activation /\ a.kind = "typed" /\ a.frames = FrameCount
  BY <1>3 DEF NewLoop, Activation, Loop
<1> HIDE DEF a
<1> DEFINE g == Append(host, a)
<1>5. Extends(g, host) /\ g[Len(g)] = a
  BY <1>3, <1>4, AppendExtends
<1> HIDE DEF g
<1>6. /\ NoTyped(host) => FirstTyped(g, FrameCount)
      /\ \A p : FirstTyped(host, p) => FirstTyped(g, p)
  BY <1>4, <1>5, TypedAbove
<1>7. host' = g
  BY <1>1 DEF g, a
<1>8. \A j \in 0 .. FrameCount - 1 : Frames'[j] = Frames[j]
  <2>1. \A j \in 0 .. FrameCount - 1 : j # FrameCount /\ j \in 0 .. MaxFrames - 1
    <3>1. MaxFrames \in Nat /\ FrameCount <= MaxFrames
      BY Programs DEF Debugged, ThreadOK
    <3> QED BY <1>3, <3>1
  <2> QED BY <1>2, <1>3, <2>1
<1>9. CASE NoTyped(host)
  <2>1. Ground(host, FrameCount, FrameCount) /\ Ground(host', FrameCount', FrameCount)
    BY <1>6, <1>7, <1>9 DEF Ground
  <2> QED BY <1>1, <1>3, <1>8, <2>1, Stays
<1>10. ASSUME NEW p, FirstTyped(host, p)
       PROVE  UNCHANGED Undebugged!evars
  <2>1. p \in Nat /\ p <= FrameCount
    BY <1>1, <1>10, FirstTypedBelow
  <2>2. \A j \in 0 .. p - 1 : j \in 0 .. FrameCount - 1
    BY <1>3, <2>1
  <2>3. Ground(host, FrameCount, p) /\ Ground(host', FrameCount', p)
    BY <1>6, <1>7, <1>10 DEF Ground
  <2> QED BY <1>1, <1>3, <1>8, <2>1, <2>2, <2>3, Stays
<1> QED BY <1>3, <1>9, <1>10, Grounds

LEMMA RunnerMainMoves ==
  ASSUME Debugged, Debugged', NEW start \in Starts, RunnerMain(start)
  PROVE  Undebugged!Next
<1> DEFINE m == NewLoop("main", 1)
           d == NewDebugger(1)
           z == NewDebugger(0)
<1>1. /\ status = "ready" /\ status' = "running" /\ host = <<>> /\ FrameCount = 0
      /\ ThreadOK /\ ThreadOK' /\ Frames \in [0 .. MaxFrames - 1 -> CallFrame]
  BY DEF RunnerMain, Debugged, ThreadOK
<1>2. start \in {"program", "debugged", "debugger"}
  BY BoundsAssumption
<1>3. m.kind # "typed" /\ d.kind # "typed" /\ z.kind # "typed"
  BY DEF NewLoop, NewDebugger
<1>4. host' = CASE start = "program"  -> <<m>>
                [] start = "debugged" -> <<m, d>>
                [] start = "debugger" -> <<z>>
  BY DEF RunnerMain
<1> HIDE DEF m, d, z
<1>5. NoTyped(host')
  <2>1. \A x : x.kind # "typed" => NoTyped(<<x>>)
    BY DEF NoTyped
  <2>2. NoTyped(<<m, d>>)
    BY <1>3 DEF NoTyped
  <2> QED BY <1>2, <1>3, <1>4, <2>1, <2>2
<1>6. [k \in 1 .. ProgramFrames |-> Frames[k - 1]] = Calls(Frames, 0)
  <2>1. NoTyped(host)
    BY <1>1 DEF NoTyped
  <2> QED BY <1>1, <2>1, Mapping DEF Ground
<1>7. [k \in 1 .. ProgramFrames |-> Frames[k - 1]]' = Calls(Frames', FrameCount')
  BY <1>1, <1>5, MappingNext DEF Ground
<1>8. (status # "ready") = FALSE /\ (status' # "ready") = TRUE
  BY <1>1
<1>9. CASE start = "debugger"
  <2>1. FrameCount' = 0
    BY <1>1, <1>9 DEF RunnerMain
  <2>2. Calls(Frames', 0) = Calls(Frames, 0)
    BY DEF Calls
  <2> QED BY <1>6, <1>7, <1>8, <2>1, <2>2 DEF Undebugged!Next
<1>10. CASE start # "debugger"
  <2>1. FrameCount' = 1 /\ Frames' = [Frames EXCEPT ![0] = None]
    BY <1>10 DEF RunnerMain
  <2>2. Frames'[0] = None
    <3>1. 0 \in 0 .. MaxFrames - 1
      BY Programs
    <3> QED BY <1>1, <2>1, <3>1
  <2>3. Calls(Frames', 1) = <<None>>
    <3>1. \A k \in 1 .. 1 : k - 1 = 0
      OBVIOUS
    <3>2. Calls(Frames', 1) = [k \in 1 .. 1 |-> None]
      BY <2>2, <3>1 DEF Calls
    <3> QED BY <3>2
  <2> QED BY <1>6, <1>7, <1>8, <2>1, <2>3 DEF Undebugged!Next, Undebugged!Start, None
<1> QED BY <1>9, <1>10

LEMMA UndebuggedNext ==
  ASSUME CarefulUse, Debugged, Debugged', [Next]_vars
  PROVE  Undebugged!Next \/ UNCHANGED Undebugged!evars
<1>1. CASE UNCHANGED vars
  BY <1>1 DEF vars, thread, Undebugged!evars, ProgramFrames
<1>2. CASE Next
  BY <1>2, RunnerMainMoves, HitIdle, RunInstructionMoves, NothingToRunMoves, ContinueIdle,
     PromptIdle, BreakpointsIdle, RunOpcodeFuncMoves, ExecuteCodeIdle DEF Next
<1> QED BY <1>1, <1>2

LEMMA UndebuggedInit ==
  ASSUME Init
  PROVE  Undebugged!Init
<1>1. Debugged
  BY DebuggedInit
<1>2. host = <<>> /\ FrameCount = 0 /\ status = "ready" /\ ThreadOK
  BY <1>1 DEF Init, Debugged
<1>3. NoTyped(host)
  BY <1>2 DEF NoTyped
<1>4. [k \in 1 .. ProgramFrames |-> Frames[k - 1]] = Calls(Frames, 0)
  BY <1>2, <1>3, Mapping DEF Ground
<1>5. Calls(Frames, 0) = <<>>
  BY DEF Calls
<1> QED BY <1>2, <1>4, <1>5 DEF Undebugged!Init

\* A debugged program executes the same instructions in the same order as one that nobody
\* debugs, whatever breakpoints are set, however it is stepped and whatever is typed.
THEOREM Transparency ==
  ASSUME CarefulUse
  PROVE  Spec /\ []NativeHasRoom => RunsUndebugged
<1>1. Init => Undebugged!Init
  BY UndebuggedInit
<1>2. Debugged /\ Debugged' /\ [Next]_vars => [Undebugged!Next]_(Undebugged!evars)
  BY UndebuggedNext
<1>3. Spec /\ []NativeHasRoom => []Debugged
  BY StaysDebugged
<1> QED BY <1>1, <1>2, <1>3, PTL DEF Spec, RunsUndebugged, Undebugged!Spec

=============================================================================

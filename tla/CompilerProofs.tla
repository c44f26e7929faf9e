---------------------------- MODULE CompilerProofs ----------------------------
(***************************************************************************)
(* Breakpoints stay with their statements, in every script and for every   *)
(* limit of the compiler.                                                  *)
(*                                                                         *)
(* A step of the compiler either grows the innermost compiler (Grows: code *)
(* is added and jumps are patched, what is there keeps its place), or      *)
(* opens or closes a function or a switch.  Only closing a switch moves    *)
(* code.  The lists of breakpoints are static in Compiler.cpp: that the    *)
(* last one belongs to the innermost function or switch is part of the     *)
(* invariant (Belong, Marks).                                              *)
(***************************************************************************)
EXTENDS CompiledCode, TLAPS, SequenceTheorems, FiniteSetTheorems

-----------------------------------------------------------------------------
(* Sequences of whatever there is. *)

\* A sequence, whatever its elements are.
Elems(s) == {s[i] : i \in DOMAIN s}
IsSeq(s) == s \in Seq(Elems(s))

\* Every sequence is one of its own elements.
LEMMA SeqTyped ==
  ASSUME NEW S, NEW s \in Seq(S)
  PROVE  IsSeq(s)
<1>1. Len(s) \in Nat /\ s \in [1 .. Len(s) -> S] /\ DOMAIN s = 1 .. Len(s)
  BY LenProperties
<1>2. s \in [1 .. Len(s) -> Elems(s)]
  BY <1>1 DEF Elems
<1> QED BY <1>1, <1>2, SeqDef DEF IsSeq

LEMMA SeqLen ==
  ASSUME NEW s, IsSeq(s)
  PROVE  Len(s) \in Nat /\ DOMAIN s = 1 .. Len(s) /\ (s = <<>> <=> Len(s) = 0)
BY EmptySeq, LenProperties DEF IsSeq

LEMMA SeqEmpty == IsSeq(<<>>) /\ Len(<<>>) = 0
<1>1. <<>> \in Seq({}) /\ Len(<<>>) = 0
  BY EmptySeq
<1> QED BY <1>1, SeqTyped

LEMMA SeqBoth ==
  ASSUME NEW s, NEW r, IsSeq(s), IsSeq(r)
  PROVE  s \in Seq(Elems(s) \cup Elems(r)) /\ r \in Seq(Elems(s) \cup Elems(r))
BY SeqMonotonic DEF IsSeq

LEMMA SeqAppend ==
  ASSUME NEW s, IsSeq(s), NEW e
  PROVE  /\ IsSeq(Append(s, e)) /\ Len(Append(s, e)) = Len(s) + 1
         /\ \A i \in 1 .. Len(s) : Append(s, e)[i] = s[i]
         /\ Append(s, e)[Len(s) + 1] = e
<1>1. s \in Seq(Elems(s) \cup {e})
  BY SeqMonotonic DEF IsSeq
<1>2. /\ Append(s, e) \in Seq(Elems(s) \cup {e}) /\ Len(Append(s, e)) = Len(s) + 1
      /\ \A i \in 1 .. Len(s) : Append(s, e)[i] = s[i]
      /\ Append(s, e)[Len(s) + 1] = e
  BY <1>1, AppendProperties
<1> QED BY <1>2, SeqTyped

\* What SeqAppend, SeqSub, SeqFront, SeqExcept and SeqMap say too: where the elements go.
LEMMA SeqConcat ==
  ASSUME NEW s, IsSeq(s), NEW r, IsSeq(r)
  PROVE  /\ IsSeq(s \o r) /\ Len(s \o r) = Len(s) + Len(r)
         /\ \A i \in 1 .. Len(s) : (s \o r)[i] = s[i]
         /\ \A i \in 1 .. Len(r) : (s \o r)[Len(s) + i] = r[i]
<1> DEFINE S == Elems(s) \cup Elems(r)
<1>1. s \in Seq(S) /\ r \in Seq(S)
  BY SeqBoth
<1>2. /\ s \o r \in Seq(S) /\ Len(s \o r) = Len(s) + Len(r)
      /\ \A i \in 1 .. Len(s) + Len(r) : (s \o r)[i] = IF i <= Len(s) THEN s[i] ELSE r[i - Len(s)]
  BY <1>1, ConcatProperties, Zenon
<1>3. Len(s) \in Nat /\ Len(r) \in Nat
  BY SeqLen
<1>4. ASSUME NEW i \in 1 .. Len(s)
      PROVE  (s \o r)[i] = s[i]
  BY <1>2, <1>3
<1>5. ASSUME NEW i \in 1 .. Len(r)
      PROVE  (s \o r)[Len(s) + i] = r[i]
  <2>1. Len(s) + i \in 1 .. Len(s) + Len(r) /\ ~(Len(s) + i <= Len(s)) /\ Len(s) + i - Len(s) = i
    BY <1>3
  <2> QED BY <1>2, <2>1
<1> QED BY <1>2, <1>4, <1>5, SeqTyped

LEMMA SeqSub ==
  ASSUME NEW s, IsSeq(s), NEW m \in Int, NEW n \in Int, 1 <= m, m <= n + 1, n <= Len(s)
  PROVE  /\ IsSeq(SubSeq(s, m, n)) /\ Len(SubSeq(s, m, n)) = n - m + 1
         /\ \A i \in 1 .. n - m + 1 : SubSeq(s, m, n)[i] = s[m + i - 1]
<1>1. \A i \in m .. n : s[i] \in Elems(s)
  BY SeqLen DEF Elems
<1>2. /\ SubSeq(s, m, n) \in Seq(Elems(s))
      /\ Len(SubSeq(s, m, n)) = IF m <= n THEN n - m + 1 ELSE 0
      /\ \A i \in 1 .. n - m + 1 : SubSeq(s, m, n)[i] = s[m + i - 1]
  <2> DEFINE S == Elems(s)
  <2>1. \A i \in m .. n : s[i] \in S
    BY <1>1
  <2> HIDE DEF S
  <2>2. /\ SubSeq(s, m, n) \in Seq(S)
        /\ Len(SubSeq(s, m, n)) = IF m <= n THEN n - m + 1 ELSE 0
        /\ \A i \in 1 .. n - m + 1 : SubSeq(s, m, n)[i] = s[m + i - 1]
    BY <2>1, SubSeqProperties
  <2> QED BY <2>2 DEF S
<1>3. Len(SubSeq(s, m, n)) = n - m + 1
  <2>1. CASE m <= n
    BY <2>1, <1>2
  <2>2. CASE m = n + 1
    BY <2>2, <1>2
  <2> QED BY <2>1, <2>2
<1>4. IsSeq(SubSeq(s, m, n))
  BY <1>2, SeqTyped, Zenon
<1> QED BY <1>2, <1>3, <1>4, Zenon

LEMMA SeqFront ==
  ASSUME NEW s, IsSeq(s), s # <<>>
  PROVE  /\ Len(s) \in Nat \ {0} /\ Last(s) = s[Len(s)]
         /\ IsSeq(Front(s)) /\ Len(Front(s)) = Len(s) - 1
         /\ \A i \in 1 .. Len(s) - 1 : Front(s)[i] = s[i]
<1>1. Len(s) \in Nat \ {0}
  BY SeqLen
<1>2. /\ IsSeq(SubSeq(s, 1, Len(s) - 1)) /\ Len(SubSeq(s, 1, Len(s) - 1)) = Len(s) - 1
      /\ \A i \in 1 .. Len(s) - 1 : SubSeq(s, 1, Len(s) - 1)[i] = s[i]
  <2>1. Len(s) - 1 \in Int /\ 1 <= Len(s) - 1 + 1 /\ Len(s) - 1 <= Len(s)
    BY <1>1
  <2> DEFINE n == Len(s) - 1
  <2>2. n \in Int /\ 1 <= n + 1 /\ n <= Len(s)
    BY <2>1
  <2> HIDE DEF n
  <2>3. /\ IsSeq(SubSeq(s, 1, n)) /\ Len(SubSeq(s, 1, n)) = n - 1 + 1
        /\ \A i \in 1 .. n - 1 + 1 : SubSeq(s, 1, n)[i] = s[1 + i - 1]
    BY <2>2, SeqSub
  <2>4. n - 1 + 1 = n /\ \A i \in 1 .. n : 1 + i - 1 = i
    BY <2>2
  <2>5. /\ IsSeq(SubSeq(s, 1, n)) /\ Len(SubSeq(s, 1, n)) = n
        /\ \A i \in 1 .. n : SubSeq(s, 1, n)[i] = s[i]
    BY <2>3, <2>4
  <2> QED BY <2>5 DEF n
<1> QED BY <1>1, <1>2 DEF Front, Last

LEMMA SeqExcept ==
  ASSUME NEW s, IsSeq(s), NEW i \in 1 .. Len(s), NEW e
  PROVE  /\ IsSeq([s EXCEPT ![i] = e]) /\ Len([s EXCEPT ![i] = e]) = Len(s)
         /\ [s EXCEPT ![i] = e][i] = e
         /\ \A j \in 1 .. Len(s) : j # i => [s EXCEPT ![i] = e][j] = s[j]
<1>1. s \in Seq(Elems(s) \cup {e})
  BY SeqMonotonic DEF IsSeq
<1>2. /\ [s EXCEPT ![i] = e] \in Seq(Elems(s) \cup {e}) /\ Len([s EXCEPT ![i] = e]) = Len(s)
      /\ \A j \in 1 .. Len(s) : [s EXCEPT ![i] = e][j] = IF j = i THEN e ELSE s[j]
  <2> DEFINE S == Elems(s) \cup {e}
  <2>1. s \in Seq(S) /\ e \in S
    BY <1>1
  <2> HIDE DEF S
  <2>2. /\ [s EXCEPT ![i] = e] \in Seq(S) /\ Len([s EXCEPT ![i] = e]) = Len(s)
        /\ \A j \in 1 .. Len(s) : [s EXCEPT ![i] = e][j] = IF j = i THEN e ELSE s[j]
    BY <2>1, ExceptSeq
  <2> QED BY <2>2 DEF S
<1>3. IsSeq([s EXCEPT ![i] = e])
  BY <1>2, SeqTyped, Zenon
<1> QED BY <1>2, <1>3, Zenon

LEMMA SeqMap ==
  ASSUME NEW s, NEW n \in Nat, DOMAIN s = 1 .. n, s = [i \in 1 .. n |-> s[i]]
  PROVE  IsSeq(s) /\ Len(s) = n
<1>1. s \in [1 .. n -> Elems(s)]
  <2>1. \A i \in 1 .. n : s[i] \in Elems(s)
    BY DEF Elems
  <2> HIDE DEF Elems
  <2>2. [i \in 1 .. n |-> s[i]] \in [1 .. n -> Elems(s)]
    BY <2>1, Zenon
  <2> QED BY <2>2, Zenon
<1>2. s \in Seq(Elems(s))
  BY <1>1, SeqDef, Zenon
<1>3. DOMAIN s = 1 .. Len(s) /\ Len(s) \in Nat
  BY <1>2, LenProperties
<1>4. Len(s) = n
  BY <1>3
<1> QED BY <1>2, <1>4 DEF IsSeq

-----------------------------------------------------------------------------
(* Instructions.  Like: what an instruction does when it is executed.        *)

Path == Seq(Nat)
Fields == {"op", "arg", "slot", "of", "place", "vars", "marks"}

Targeted == {"Jump", "JumpBack", "JumpIfFalse", "WithInit", "WithIterate"}

IsInstruction(i) ==
  /\ DOMAIN i = Fields /\ i.of \in Path /\ i.place \in Path
  /\ i.op \in Targeted => i.arg \in Int

\* The same instruction, but for the locals and breakpoints noted with it.
Like(i, j) == i.op = j.op /\ i.arg = j.arg /\ i.of = j.of /\ i.place = j.place

IsCode(code) == IsSeq(code) /\ \A i \in 1 .. Len(code) : IsInstruction(code[i])

\* code grown by s, and code with the jumps at js made to lead to its end.
Appended(code, s, grown) ==
  /\ IsCode(grown) /\ Len(grown) = Len(code) + Len(s)
  /\ \A i \in 1 .. Len(code) : grown[i] = code[i]
  /\ \A i \in 1 .. Len(s) : Like(grown[Len(code) + i], s[i])

Patched(code, js, patched) ==
  /\ IsCode(patched) /\ Len(patched) = Len(code)
  /\ \A i \in 1 .. Len(code) :
       /\ patched[i].op = code[i].op /\ patched[i].of = code[i].of
       /\ patched[i].place = code[i].place /\ patched[i].marks = code[i].marks
       /\ patched[i].arg = IF i \in js THEN Len(code) - i ELSE code[i].arg

CodeOf(c) == c.code

CompilerFields == {"fn", "type", "depth", "params", "code", "locals", "open", "breakpoints", "pending"}

StatementKinds == Lists \cup Loops \cup {"If", "Else", "Switch", "Class"}
Statement == [kind : StatementKinds, at : Path, next : Nat, full : BOOLEAN, start : Nat, exit : Nat]
Mark == [at : Nat, of : Path]

IsCompiler(c) ==
  /\ DOMAIN c = CompilerFields /\ c.fn \in Nat /\ IsCode(CodeOf(c))
  /\ c.open \in Seq(Statement) /\ c.open # <<>>
  /\ c.breakpoints \in Seq(Mark)

\* Where code is emitted, everything but the code and the pending breakpoints stays.
SameStatements(c, d) == d.fn = c.fn /\ d.open = c.open /\ d.breakpoints = c.breakpoints
                        /\ d.params = c.params /\ d.type = c.type

\* The instructions of the compiler, and what making them keeps.
LEMMA PlainInstructions ==
  /\ Temp \in Path
  /\ \A op : IsInstruction(I(op)) /\ I(op).op = op /\ I(op).place = <<>> /\ I(op).marks = {}
  /\ \A i, p : IsInstruction(i) /\ p \in Path =>
       /\ IsInstruction(Placed(i, p)) /\ Placed(i, p).op = i.op /\ Placed(i, p).arg = i.arg
       /\ Placed(i, p).of = i.of /\ Placed(i, p).place = p
       /\ IsInstruction(Making(i, p)) /\ Making(i, p).op = i.op /\ Making(i, p).arg = i.arg
       /\ Making(i, p).of = p /\ Making(i, p).place = i.place
<1>1. <<>> \in Path
  BY EmptySeq DEF Path
<1>2. ASSUME NEW op
      PROVE  IsInstruction(I(op)) /\ I(op).op = op /\ I(op).place = <<>> /\ I(op).marks = {}
  BY <1>1 DEF I, IsInstruction, Fields, Temp
<1>3. ASSUME NEW i, NEW p, IsInstruction(i), p \in Path
      PROVE  /\ IsInstruction(Placed(i, p)) /\ Placed(i, p).op = i.op /\ Placed(i, p).arg = i.arg
             /\ Placed(i, p).of = i.of /\ Placed(i, p).place = p
             /\ IsInstruction(Making(i, p)) /\ Making(i, p).op = i.op /\ Making(i, p).arg = i.arg
             /\ Making(i, p).of = p /\ Making(i, p).place = i.place
  BY <1>3 DEF IsInstruction, Placed, Making, Fields
<1> QED BY <1>1, <1>2, <1>3 DEF Temp

LEMMA OtherInstructions ==
  /\ IsInstruction(Value) /\ Value.op = "Value" /\ Value.place = <<>>
  /\ IsInstruction(Jump) /\ Jump.op = "Jump" /\ Jump.place = <<>>
  /\ IsInstruction(JumpIfFalse) /\ JumpIfFalse.op = "JumpIfFalse" /\ JumpIfFalse.place = <<>>
  /\ \A n : IsInstruction(Pop(n)) /\ Pop(n).op = "Pop" /\ Pop(n).place = <<>>
  /\ \A p \in Path : IsInstruction(At(p)) /\ At(p).op = "Value" /\ At(p).place = p
<1>1. <<>> \in Path
  BY EmptySeq DEF Path
<1>2. /\ IsInstruction(Value) /\ Value.op = "Value" /\ Value.place = <<>>
      /\ IsInstruction(Jump) /\ Jump.op = "Jump" /\ Jump.place = <<>>
      /\ IsInstruction(JumpIfFalse) /\ JumpIfFalse.op = "JumpIfFalse" /\ JumpIfFalse.place = <<>>
  BY PlainInstructions, Zenon DEF Value, Jump, JumpIfFalse
<1>3. ASSUME NEW n
      PROVE  IsInstruction(Pop(n)) /\ Pop(n).op = "Pop" /\ Pop(n).place = <<>>
  BY <1>1 DEF Pop, I, IsInstruction, Fields, Temp, Targeted
<1>4. ASSUME NEW p \in Path
      PROVE  IsInstruction(At(p)) /\ At(p).op = "Value" /\ At(p).place = p
  BY <1>2, PlainInstructions DEF At
<1>6. \A n : IsInstruction(Pop(n)) /\ Pop(n).op = "Pop" /\ Pop(n).place = <<>>
  BY <1>3, Zenon
<1>7. \A p \in Path : IsInstruction(At(p)) /\ At(p).op = "Value" /\ At(p).place = p
  BY <1>4, Zenon
<1> QED BY <1>2, <1>6, <1>7, Zenon

LEMMA LocalInstructions ==
  ASSUME NEW op, NEW c, NEW v \in Path
  PROVE  /\ IsInstruction(Local(op, c, v)) /\ Local(op, c, v).op = op
         /\ Local(op, c, v).of = v /\ Local(op, c, v).place = <<>>
<1>1. <<>> \in Path
  BY EmptySeq DEF Path
<1> DEFINE s == CHOOSE s \in 0 .. Len(c.locals) - 1 : c.locals[s + 1].id = v
<1>2. Local(op, c, v) = [I(op) EXCEPT !.of = v, !.slot = s]
  BY DEF Local
<1> HIDE DEF s
<1> QED BY <1>1, <1>2 DEF I, IsInstruction, Fields, Temp

-----------------------------------------------------------------------------
(* What the operators on a compiler do to its code.                          *)

\* d is c with s emitted.
Adds(c, s, d) ==
  /\ IsCompiler(d) /\ SameStatements(c, d) /\ Appended(CodeOf(c), s, CodeOf(d))
  /\ s = <<>> => d.pending = c.pending
  /\ s # <<>> => d.pending = {} /\ CodeOf(d)[Len(CodeOf(c)) + 1].marks = c.pending

\* What a step emits.
IsText(s) == IsSeq(s) /\ \A i \in 1 .. Len(s) : IsInstruction(s[i])

LEMMA AddsNothing ==
  ASSUME NEW c, NEW d, IsCompiler(c), DOMAIN d = CompilerFields, CodeOf(d) = CodeOf(c),
         SameStatements(c, d), d.pending = c.pending
  PROVE  Adds(c, <<>>, d)
<1>1. IsCompiler(d)
  BY DEF IsCompiler, SameStatements
<1>2. Appended(CodeOf(c), <<>>, CodeOf(d))
  BY SeqEmpty, SeqLen DEF Appended, IsCompiler, IsCode
<1> QED BY <1>1, <1>2 DEF Adds

\* Emit appends, and gives the pending breakpoints to the first instruction.
LEMMA AddsEmit ==
  ASSUME NEW c, NEW s, IsCompiler(c), IsText(s)
  PROVE  Adds(c, s, Emit(c, s))
<1>1. CASE s = <<>>
  BY <1>1, AddsNothing DEF Emit, IsCompiler, SameStatements
<1>2. CASE s # <<>>
  <2> DEFINE r == [i \in DOMAIN s |->
                     [s[i] EXCEPT !.vars = IF s[i].place = <<>> THEN <<>> ELSE Ids(c),
                                  !.marks = IF i = 1 THEN c.pending ELSE {}]]
             d == Emit(c, s)
  <2>1. d = [c EXCEPT !.pending = {}, !.code = @ \o r]
    BY <1>2 DEF Emit
  <2>2. DOMAIN s = 1 .. Len(s) /\ Len(s) \in Nat \ {0}
    BY <1>2, SeqLen DEF IsText
  <2>3. IsSeq(r) /\ Len(r) = Len(s)
    <3>1. DOMAIN r = 1 .. Len(s) /\ r = [i \in 1 .. Len(s) |-> r[i]]
      BY <2>2
    <3> HIDE DEF r
    <3> QED BY <2>2, <3>1, SeqMap
  <2>4. ASSUME NEW i \in 1 .. Len(s)
        PROVE  /\ IsInstruction(r[i]) /\ Like(r[i], s[i])
               /\ i = 1 => r[i].marks = c.pending
    <3>1. IsInstruction(s[i])
      BY DEF IsText
    <3>2. r[i] = [s[i] EXCEPT !.vars = IF s[i].place = <<>> THEN <<>> ELSE Ids(c),
                              !.marks = IF i = 1 THEN c.pending ELSE {}]
      BY <2>2
    <3> HIDE DEF r
    <3> QED BY <3>1, <3>2 DEF IsInstruction, Like, Fields
  <2> HIDE DEF r
  <2>5. /\ CodeOf(d) = CodeOf(c) \o r /\ d.pending = {} /\ DOMAIN d = CompilerFields
        /\ SameStatements(c, d)
    BY <2>1 DEF IsCompiler, CompilerFields, SameStatements, CodeOf
  <2>6. IsSeq(CodeOf(c)) /\ Len(CodeOf(c)) \in Nat
    BY SeqLen DEF IsCompiler, IsCode
  <2>7. /\ IsSeq(CodeOf(d)) /\ Len(CodeOf(d)) = Len(CodeOf(c)) + Len(s)
        /\ \A i \in 1 .. Len(CodeOf(c)) : CodeOf(d)[i] = CodeOf(c)[i]
        /\ \A i \in 1 .. Len(s) : CodeOf(d)[Len(CodeOf(c)) + i] = r[i]
    <3> DEFINE k == CodeOf(c)
    <3>1. IsSeq(k) /\ IsSeq(r)
      BY <2>3, <2>6
    <3>4. CodeOf(d) = k \o r /\ Len(r) = Len(s)
      BY <2>3, <2>5
    <3> HIDE DEF k
    <3>2. /\ IsSeq(k \o r) /\ Len(k \o r) = Len(k) + Len(r)
          /\ \A i \in 1 .. Len(k) : (k \o r)[i] = k[i]
          /\ \A i \in 1 .. Len(r) : (k \o r)[Len(k) + i] = r[i]
      BY <3>1, SeqConcat
    <3>3. /\ IsSeq(CodeOf(d)) /\ Len(CodeOf(d)) = Len(k) + Len(s)
          /\ \A i \in 1 .. Len(k) : CodeOf(d)[i] = k[i]
          /\ \A i \in 1 .. Len(s) : CodeOf(d)[Len(k) + i] = r[i]
      BY <3>4, <3>2, Zenon
    <3> QED BY <3>3 DEF k
  <2>8. ASSUME NEW i \in 1 .. Len(CodeOf(d))
        PROVE  IsInstruction(CodeOf(d)[i])
    <3>1. CASE i <= Len(CodeOf(c))
      BY <2>6, <2>7, <3>1 DEF IsCompiler, IsCode
    <3>2. CASE i > Len(CodeOf(c))
      <4>1. i - Len(CodeOf(c)) \in 1 .. Len(s) /\ Len(CodeOf(c)) + (i - Len(CodeOf(c))) = i
        BY <2>2, <2>6, <2>7, <3>2
      <4> QED BY <2>4, <2>7, <4>1
    <3> QED BY <2>6, <3>1, <3>2
  <2>9. Appended(CodeOf(c), s, CodeOf(d))
    BY <2>4, <2>7, <2>8 DEF Appended, IsCode
  <2>10. IsCompiler(d)
    BY <2>5, <2>7, <2>8 DEF IsCompiler, SameStatements, IsCode
  <2>11. CodeOf(d)[Len(CodeOf(c)) + 1].marks = c.pending
    BY <2>2, <2>4, <2>7
  <2> QED BY <1>2, <2>5, <2>9, <2>10, <2>11 DEF Adds
<1> QED BY <1>1, <1>2

\* d is c with the jumps at js led to the end.
Patches(c, js, d) ==
  /\ IsCompiler(d) /\ SameStatements(c, d) /\ Patched(CodeOf(c), js, CodeOf(d))
  /\ d.pending = c.pending

\* PatchJumps changes nothing but the offsets of the jumps.
LEMMA PatchesJumps ==
  ASSUME NEW c, NEW js, IsCompiler(c)
  PROVE  Patches(c, js, PatchJumps(c, js))
<1> DEFINE d == PatchJumps(c, js)
           n == Size(c)
           k == CodeOf(c)
           r == [i \in DOMAIN k |-> IF i \in js THEN [k[i] EXCEPT !.arg = n - i] ELSE k[i]]
<1>1. d = [c EXCEPT !.code = r]
  BY DEF PatchJumps, CodeOf
<1>2. IsCode(k) /\ DOMAIN k = 1 .. n /\ n \in Nat /\ Len(k) = n
  BY SeqLen DEF IsCompiler, IsCode, Size, CodeOf
<1> HIDE DEF n, k
<1>3. DOMAIN r = 1 .. n /\ r = [i \in 1 .. n |-> r[i]]
  BY <1>2
<1>4. ASSUME NEW i \in 1 .. n
      PROVE  r[i] = IF i \in js THEN [k[i] EXCEPT !.arg = n - i] ELSE k[i]
  BY <1>2
<1> HIDE DEF r
<1>5. IsSeq(r) /\ Len(r) = n
  BY <1>2, <1>3, SeqMap
<1>6. ASSUME NEW i \in 1 .. n
      PROVE  /\ IsInstruction(r[i]) /\ r[i].op = k[i].op /\ r[i].of = k[i].of
             /\ r[i].place = k[i].place /\ r[i].marks = k[i].marks
             /\ r[i].arg = IF i \in js THEN n - i ELSE k[i].arg
  <2>1. IsInstruction(k[i]) /\ n - i \in Int
    BY <1>2 DEF IsCode
  <2> QED BY <1>4, <2>1 DEF IsInstruction, Fields
<1>7. CodeOf(d) = r /\ SameStatements(c, d) /\ d.pending = c.pending /\ DOMAIN d = CompilerFields
  BY <1>1 DEF IsCompiler, CompilerFields, SameStatements, CodeOf
<1> HIDE DEF d
<1>8. IsCode(r) /\ Patched(k, js, r)
  BY <1>2, <1>5, <1>6 DEF IsCode, Patched
<1>9. IsCompiler(d)
  BY <1>7, <1>8 DEF IsCompiler, SameStatements
<1> QED BY <1>7, <1>8, <1>9 DEF Patches, d, k

LEMMA TextOfOne ==
  ASSUME NEW a, IsInstruction(a)
  PROVE  IsText(<<a>>) /\ Len(<<a>>) = 1 /\ <<a>>[1] = a /\ <<a>> # <<>>
<1>1. <<a>> \in Seq({a}) /\ Len(<<a>>) = 1 /\ <<a>>[1] = a
  OBVIOUS
<1>2. IsSeq(<<a>>)
  BY <1>1, SeqTyped
<1> QED BY <1>1, <1>2 DEF IsText

LEMMA TextOfTwo ==
  ASSUME NEW a, NEW b, IsInstruction(a), IsInstruction(b)
  PROVE  /\ IsText(<<a, b>>) /\ Len(<<a, b>>) = 2 /\ <<a, b>> # <<>>
         /\ <<a, b>>[1] = a /\ <<a, b>>[2] = b
<1>1. <<a, b>> \in Seq({a, b}) /\ Len(<<a, b>>) = 2 /\ <<a, b>>[1] = a /\ <<a, b>>[2] = b
  OBVIOUS
<1>2. IsSeq(<<a, b>>)
  BY <1>1, SeqTyped
<1>3. \A i \in 1 .. 2 : i = 1 \/ i = 2
  OBVIOUS
<1> QED BY <1>1, <1>2, <1>3 DEF IsText

LEMMA TextOfThree ==
  ASSUME NEW a, NEW b, NEW c, IsInstruction(a), IsInstruction(b), IsInstruction(c)
  PROVE  /\ IsText(<<a, b, c>>) /\ Len(<<a, b, c>>) = 3 /\ <<a, b, c>> # <<>>
         /\ <<a, b, c>>[1] = a /\ <<a, b, c>>[2] = b /\ <<a, b, c>>[3] = c
<1>1. /\ <<a, b, c>> \in Seq({a, b, c}) /\ Len(<<a, b, c>>) = 3
      /\ <<a, b, c>>[1] = a /\ <<a, b, c>>[2] = b /\ <<a, b, c>>[3] = c
  OBVIOUS
<1>2. IsSeq(<<a, b, c>>)
  BY <1>1, SeqTyped
<1>3. \A i \in 1 .. 3 : i = 1 \/ i = 2 \/ i = 3
  OBVIOUS
<1> QED BY <1>1, <1>2, <1>3 DEF IsText

-----------------------------------------------------------------------------
(* Places.                                                                   *)

\* A part of a statement is below the statement.
LEMMA PartOf ==
  ASSUME NEW p \in Path, NEW k \in Nat
  PROVE  /\ Part(p, k) \in Path /\ Len(Part(p, k)) = Len(p) + 1 /\ Part(p, k) # <<>>
         /\ Part(p, k)[Len(p) + 1] = k /\ \A i \in 1 .. Len(p) : Part(p, k)[i] = p[i]
         /\ \A i \in 1 .. Len(p) : SubSeq(Part(p, k), 1, i) = SubSeq(p, 1, i)
         /\ p # <<>> => SubSeq(p, 1, Len(p)) = p
         /\ Len(p) \in Nat /\ (p # <<>> <=> Len(p) # 0)
<1>1. /\ Part(p, k) \in Seq(Nat) /\ Part(p, k) # <<>> /\ Len(Part(p, k)) = Len(p) + 1
      /\ \A i \in 1 .. Len(p) : Part(p, k)[i] = p[i]
      /\ Part(p, k)[Len(p) + 1] = k
  BY AppendProperties DEF Path, Part
<1>2. Len(p) \in Nat /\ (p # <<>> <=> Len(p) # 0)
  BY EmptySeq, LenProperties DEF Path
<1>3. SubSeq(p, 1, Len(p)) = p
  BY SubSeqFull DEF Path
<1>4. ASSUME NEW i \in 1 .. Len(p)
      PROVE  SubSeq(Part(p, k), 1, i) = SubSeq(p, 1, i)
  <2>1. \A j \in 1 .. i : Part(p, k)[j] \in Nat /\ p[j] \in Nat /\ Part(p, k)[j] = p[j]
    <3>1. \A j \in 1 .. i : j \in 1 .. Len(p) /\ j \in 1 .. Len(p) + 1
      BY <1>2
    <3>2. \A j \in 1 .. Len(p) : p[j] \in Nat
      BY ElementOfSeq DEF Path
    <3> QED BY <1>1, <3>1, <3>2
  <2>2. /\ SubSeq(p, 1, i) \in Seq(Nat) /\ SubSeq(Part(p, k), 1, i) \in Seq(Nat)
        /\ Len(SubSeq(p, 1, i)) = i /\ Len(SubSeq(Part(p, k), 1, i)) = i
        /\ \A j \in 1 .. i : SubSeq(p, 1, i)[j] = p[j] /\ SubSeq(Part(p, k), 1, i)[j] = Part(p, k)[j]
    <3> DEFINE q == Part(p, k)
    <3>1. \A j \in 1 .. i : q[j] \in Nat /\ p[j] \in Nat
      BY <2>1
    <3> HIDE DEF q
    <3>2. 1 <= i /\ i \in Int
      OBVIOUS
    <3>3. /\ SubSeq(p, 1, i) \in Seq(Nat) /\ Len(SubSeq(p, 1, i)) = i
          /\ \A j \in 1 .. i - 1 + 1 : SubSeq(p, 1, i)[j] = p[1 + j - 1]
      BY <3>1, <3>2, SubSeqProperties
    <3>4. /\ SubSeq(q, 1, i) \in Seq(Nat) /\ Len(SubSeq(q, 1, i)) = i
          /\ \A j \in 1 .. i - 1 + 1 : SubSeq(q, 1, i)[j] = q[1 + j - 1]
      BY <3>1, <3>2, SubSeqProperties
    <3>5. \A j \in 1 .. i : SubSeq(p, 1, i)[j] = p[j] /\ SubSeq(q, 1, i)[j] = q[j]
      BY <3>2, <3>3, <3>4
    <3> QED BY <3>3, <3>4, <3>5 DEF q
  <2> DEFINE a == SubSeq(p, 1, i)
             b == SubSeq(Part(p, k), 1, i)
  <2>3. \A j \in 1 .. i : a[j] = b[j]
    BY <2>1, <2>2
  <2>4. a \in Seq(Nat) /\ b \in Seq(Nat) /\ Len(a) = i /\ Len(b) = i
    BY <2>2
  <2> HIDE DEF a, b
  <2>5. a = b
    BY <2>3, <2>4, SeqEqual
  <2> QED BY <2>5 DEF a, b
<1> QED BY <1>1, <1>2, <1>3, <1>4 DEF Path

-----------------------------------------------------------------------------
(* The statements that a compiler is in the middle of.                       *)

\* Only the statements under way and the scopes differ.
SameRest(c, d) ==
  /\ d.fn = c.fn /\ d.breakpoints = c.breakpoints /\ d.params = c.params /\ d.type = c.type
  /\ d.pending = c.pending /\ CodeOf(d) = CodeOf(c)

LEMMA OpenIs ==
  ASSUME NEW c, IsCompiler(c)
  PROVE  /\ Len(c.open) \in Nat \ {0} /\ IsSeq(c.open) /\ c.open # <<>>
         /\ \A j \in 1 .. Len(c.open) : c.open[j] \in Statement
         /\ Last(c.open) = c.open[Len(c.open)]
<1> DEFINE s == c.open
<1>1. s \in Seq(Statement) /\ s # <<>>
  BY DEF IsCompiler
<1> HIDE DEF s
<1>2. Len(s) \in Nat \ {0} /\ IsSeq(s) /\ \A j \in 1 .. Len(s) : s[j] \in Statement
  BY <1>1, EmptySeq, ElementOfSeq, SeqTyped
<1>3. Last(s) = s[Len(s)]
  BY DEF Last
<1> QED BY <1>1, <1>2, <1>3 DEF s

LEMMA SetOpen ==
  ASSUME NEW c, IsCompiler(c), NEW s \in Seq(Statement), s # <<>>, NEW d, d = [c EXCEPT !.open = s]
  PROVE  IsCompiler(d) /\ SameRest(c, d) /\ d.open = s
BY DEF IsCompiler, CompilerFields, SameRest, CodeOf

LEMMA ReadOn ==
  ASSUME NEW e \in Statement
  PROVE  LET r == [e EXCEPT !.next = e.next + 1, !.full = TRUE]
         IN  r \in Statement /\ r.kind = e.kind /\ r.start = e.start
<1> DEFINE next == e.next + 1
           q == [e EXCEPT !.next = next]
<1>1. next \in Nat
  BY DEF Statement
<1> HIDE DEF next
<1>2. q \in Statement /\ q.kind = e.kind /\ q.start = e.start
  BY <1>1 DEF Statement
<1> HIDE DEF q
<1>3. [q EXCEPT !.full = TRUE] \in Statement
  BY <1>2 DEF Statement
<1>4. [q EXCEPT !.full = TRUE].kind = q.kind /\ [q EXCEPT !.full = TRUE].start = q.start
  BY <1>2 DEF Statement
<1>5. [e EXCEPT !.next = e.next + 1, !.full = TRUE] = [q EXCEPT !.full = TRUE]
  BY DEF q, next
<1> QED BY <1>2, <1>3, <1>4, <1>5

\* Advance, Leave and Enter change the statements under way and nothing else.
LEMMA AdvanceIs ==
  ASSUME NEW c, IsCompiler(c)
  PROVE  LET d == Advance(c)
             n == Len(c.open)
         IN  /\ IsCompiler(d) /\ SameRest(c, d) /\ Len(d.open) = n
             /\ \A j \in 1 .. n - 1 : d.open[j] = c.open[j]
             /\ d.open[n] = [c.open[n] EXCEPT !.next = c.open[n].next + 1, !.full = TRUE]
<1> DEFINE s == c.open
           n == Len(s)
           e == [s[n] EXCEPT !.next = s[n].next + 1, !.full = TRUE]
           r == [s EXCEPT ![n] = e]
           d == Advance(c)
<1>1. d = [c EXCEPT !.open = r]
  BY DEF Advance, IsCompiler, CompilerFields
<1>2. n \in Nat \ {0} /\ s \in Seq(Statement) /\ s[n] \in Statement
  BY OpenIs DEF IsCompiler
<1> HIDE DEF s
<1>3. e \in Statement
  BY <1>2, ReadOn
<1> HIDE DEF e
<1>4. /\ r \in Seq(Statement) /\ Len(r) = n
      /\ \A j \in 1 .. n : r[j] = IF j = n THEN e ELSE s[j]
  <2>1. n \in 1 .. Len(s)
    BY <1>2
  <2> HIDE DEF n
  <2>2. /\ r \in Seq(Statement) /\ Len(r) = Len(s)
        /\ \A j \in 1 .. Len(s) : r[j] = IF j = n THEN e ELSE s[j]
    BY <1>2, <1>3, <2>1, ExceptSeq
  <2> QED BY <2>2 DEF n
<1> HIDE DEF r
<1>5. r # <<>>
  BY <1>2, <1>4, EmptySeq
<1>6. IsCompiler(d) /\ SameRest(c, d) /\ d.open = r
  BY <1>1, <1>4, <1>5, SetOpen
<1>7. r[n] = e /\ \A j \in 1 .. n - 1 : r[j] = s[j]
  BY <1>2, <1>4
<1> QED BY <1>4, <1>6, <1>7 DEF e, s

LEMMA FrontIs ==
  ASSUME NEW c, IsCompiler(c), Len(c.open) > 1, NEW d, d = [c EXCEPT !.open = Front(@)]
  PROVE  /\ IsCompiler(d) /\ SameRest(c, d) /\ Len(d.open) = Len(c.open) - 1
         /\ \A j \in 1 .. Len(c.open) - 1 : d.open[j] = c.open[j]
<1> DEFINE s == c.open
           r == Front(s)
<1>1. s \in Seq(Statement) /\ s # <<>> /\ IsSeq(s) /\ Len(s) \in Nat /\ Len(s) > 1
  BY OpenIs DEF IsCompiler
<1>2. d = [c EXCEPT !.open = r]
  BY DEF IsCompiler, CompilerFields
<1> HIDE DEF s
<1>3. Len(r) = Len(s) - 1 /\ \A j \in 1 .. Len(s) - 1 : r[j] = s[j]
  BY <1>1, SeqFront
<1>4. r \in Seq(Statement)
  <2>1. \A j \in 1 .. Len(s) - 1 : s[j] \in Statement
    <3>1. \A j \in 1 .. Len(s) - 1 : j \in 1 .. Len(s)
      BY <1>1
    <3> QED BY <1>1, <3>1, ElementOfSeq
  <2>2. Len(s) - 1 \in Int
    BY <1>1
  <2> QED BY <2>1, <2>2, SubSeqProperties DEF Front
<1> HIDE DEF r
<1>5. r # <<>>
  BY <1>1, <1>3, EmptySeq
<1>6. IsCompiler(d) /\ SameRest(c, d) /\ d.open = r
  BY <1>2, <1>4, <1>5, SetOpen
<1> QED BY <1>3, <1>6 DEF s

LEMMA LeaveIs ==
  ASSUME NEW c, IsCompiler(c), Len(c.open) > 1
  PROVE  LET d == Leave(c)
             n == Len(c.open) - 1
         IN  /\ IsCompiler(d) /\ SameRest(c, d) /\ Len(d.open) = n
             /\ \A j \in 1 .. n - 1 : d.open[j] = c.open[j]
             /\ d.open[n] = [c.open[n] EXCEPT !.next = c.open[n].next + 1, !.full = TRUE]
<1> DEFINE b == [c EXCEPT !.open = Front(@)]
           n == Len(c.open) - 1
<1>1. /\ IsCompiler(b) /\ SameRest(c, b) /\ Len(b.open) = n
      /\ \A j \in 1 .. n : b.open[j] = c.open[j]
  BY FrontIs
<1>2. Leave(c) = Advance(b)
  BY DEF Leave
<1> HIDE DEF b
<1>3. /\ IsCompiler(Advance(b)) /\ SameRest(b, Advance(b)) /\ Len(Advance(b).open) = Len(b.open)
      /\ \A j \in 1 .. Len(b.open) - 1 : Advance(b).open[j] = b.open[j]
      /\ Advance(b).open[Len(b.open)] = [b.open[Len(b.open)] EXCEPT !.next = b.open[Len(b.open)].next + 1, !.full = TRUE]
  BY <1>1, AdvanceIs
<1>4. n \in Nat \ {0}
  BY OpenIs
<1>5. SameRest(c, Advance(b))
  BY <1>1, <1>3 DEF SameRest
<1>6. \A j \in 1 .. n - 1 : b.open[j] = c.open[j]
  BY <1>1, <1>4
<1>7. b.open[n] = c.open[n]
  BY <1>1, <1>4
<1> QED BY <1>1, <1>2, <1>3, <1>5, <1>6, <1>7

LEMMA EnterIs ==
  ASSUME NEW c, IsCompiler(c), NEW kind \in StatementKinds, NEW p \in Path, NEW next \in Nat,
         NEW start \in Nat, NEW exit \in Nat
  PROVE  LET d == Enter(c, kind, p, next, start, exit)
             n == Len(c.open)
         IN  /\ IsCompiler(d) /\ SameRest(c, d) /\ Len(d.open) = n + 1
             /\ \A j \in 1 .. n : d.open[j] = c.open[j]
             /\ d.open[n + 1] = [kind |-> kind, at |-> p, next |-> next, full |-> FALSE,
                                 start |-> start, exit |-> exit]
<1> DEFINE e == [kind |-> kind, at |-> p, next |-> next, full |-> FALSE, start |-> start, exit |-> exit]
           s == c.open
           r == Append(s, e)
           d == Enter(c, kind, p, next, start, exit)
<1>1. d = [c EXCEPT !.open = r]
  BY DEF Enter, IsCompiler, CompilerFields
<1>2. e \in Statement /\ s \in Seq(Statement)
  BY DEF Statement, IsCompiler
<1> HIDE DEF e, s
<1>3. /\ r \in Seq(Statement) /\ r # <<>> /\ Len(r) = Len(s) + 1
      /\ \A j \in 1 .. Len(s) : r[j] = s[j]
      /\ r[Len(s) + 1] = e
  BY <1>2, AppendProperties
<1> HIDE DEF r
<1>4. IsCompiler(d) /\ SameRest(c, d) /\ d.open = r
  BY <1>1, <1>3, SetOpen
<1> QED BY <1>3, <1>4 DEF e, s

-----------------------------------------------------------------------------
(* A compiler that goes on: functions and switches under way stay, and every *)
(* breakpoint keeps its place.                                               *)

\* The statements that have lists of their own: functions and switches.
AnchorKinds == {"Function", "Switch", "Cases"}
Anchor(c, j) == j \in 1 .. Len(c.open) /\ c.open[j].kind \in AnchorKinds

SameAnchors(c, d) ==
  \A j \in Nat :
    /\ Anchor(c, j) <=> Anchor(d, j)
    /\ Anchor(c, j) => d.open[j].kind = c.open[j].kind /\ d.open[j].start = c.open[j].start

\* The breakpoint's instruction has it, or is still to come.
Stopped(c, b) ==
  /\ b.at \in 0 .. Len(CodeOf(c))
  /\ b.at < Len(CodeOf(c)) => b.of \in CodeOf(c)[b.at + 1].marks
  /\ b.at = Len(CodeOf(c)) => b.of \in c.pending

\* d is c later on, with the same functions and switches under way: nothing was
\* taken from its code, and each breakpoint stops where it did.
Grows(c, d) ==
  /\ IsCompiler(d) /\ SameAnchors(c, d)
  /\ d.fn = c.fn /\ d.type = c.type /\ d.params = c.params /\ d.breakpoints = c.breakpoints
  /\ Len(CodeOf(c)) <= Len(CodeOf(d))
  /\ \A b \in Mark : Stopped(c, b) => Stopped(d, b)

LEMMA CodeLen ==
  ASSUME NEW c, IsCompiler(c)
  PROVE  IsCode(CodeOf(c)) /\ Len(CodeOf(c)) \in Nat /\ Size(c) = Len(CodeOf(c))
BY SeqLen DEF IsCompiler, IsCode, Size, CodeOf

LEMMA AnchorsOf ==
  ASSUME NEW c, NEW d, d.open = c.open
  PROVE  SameAnchors(c, d)
BY DEF SameAnchors, Anchor

LEMMA GrowsSame ==
  ASSUME NEW c, NEW d, IsCompiler(c), IsCompiler(d), SameRest(c, d), SameAnchors(c, d)
  PROVE  Grows(c, d)
<1>1. Len(CodeOf(c)) \in Nat
  BY CodeLen
<1> QED BY <1>1 DEF Grows, SameRest, Stopped

\* Growing is transitive; each operator of the compiler grows it.
LEMMA GrowsAgain ==
  ASSUME NEW c, NEW d, NEW e, IsCompiler(c), Grows(c, d), Grows(d, e)
  PROVE  Grows(c, e)
<1>1. Len(CodeOf(c)) \in Nat /\ Len(CodeOf(d)) \in Nat /\ Len(CodeOf(e)) \in Nat
  BY CodeLen DEF Grows
<1>2. SameAnchors(c, e)
  BY DEF Grows, SameAnchors
<1>3. \A b \in Mark : Stopped(c, b) => Stopped(e, b)
  BY DEF Grows
<1> QED BY <1>1, <1>2, <1>3 DEF Grows

LEMMA GrowsAdds ==
  ASSUME NEW c, NEW s, NEW d, IsCompiler(c), IsText(s), Adds(c, s, d)
  PROVE  Grows(c, d)
<1>1. /\ Len(CodeOf(c)) \in Nat /\ Len(s) \in Nat /\ (s = <<>> <=> Len(s) = 0)
      /\ Len(CodeOf(d)) = Len(CodeOf(c)) + Len(s)
      /\ \A i \in 1 .. Len(CodeOf(c)) : CodeOf(d)[i] = CodeOf(c)[i]
  BY CodeLen, SeqLen DEF IsText, Adds, Appended
<1>2. ASSUME NEW b \in Mark, Stopped(c, b)
      PROVE  Stopped(d, b)
  <2>1. b.at \in Nat
    BY DEF Mark
  <2>2. CASE b.at < Len(CodeOf(c))
    <3>1. b.at + 1 \in 1 .. Len(CodeOf(c))
      BY <1>1, <2>1, <2>2
    <3>2. CodeOf(d)[b.at + 1] = CodeOf(c)[b.at + 1]
      BY <1>1, <3>1
    <3>3. b.at \in 0 .. Len(CodeOf(d)) /\ b.at < Len(CodeOf(d))
      BY <1>1, <2>1, <2>2
    <3> QED BY <1>2, <2>1, <2>2, <3>2, <3>3 DEF Stopped
  <2>3. CASE b.at = Len(CodeOf(c)) /\ s = <<>>
    <3>1. d.pending = c.pending /\ Len(CodeOf(d)) = Len(CodeOf(c))
      BY <1>1, <2>3 DEF Adds
    <3> QED BY <1>1, <1>2, <2>3, <3>1 DEF Stopped
  <2>4. CASE b.at = Len(CodeOf(c)) /\ s # <<>>
    <3>1. CodeOf(d)[Len(CodeOf(c)) + 1].marks = c.pending
      BY <2>4 DEF Adds
    <3>2. b.of \in c.pending
      BY <1>2, <2>4 DEF Stopped
    <3>3. b.at \in 0 .. Len(CodeOf(d)) /\ b.at < Len(CodeOf(d))
      BY <1>1, <2>4
    <3> QED BY <2>4, <3>1, <3>2, <3>3 DEF Stopped
  <2>5. b.at <= Len(CodeOf(c))
    BY <1>1, <1>2, <2>1 DEF Stopped
  <2> QED BY <1>1, <2>1, <2>2, <2>3, <2>4, <2>5
<1>3. SameAnchors(c, d)
  BY AnchorsOf DEF Adds, SameStatements
<1>4. Len(CodeOf(c)) <= Len(CodeOf(d))
  BY <1>1
<1> QED BY <1>2, <1>3, <1>4 DEF Adds, SameStatements, Grows

LEMMA GrowsEmit ==
  ASSUME NEW c, NEW s, IsCompiler(c), IsText(s)
  PROVE  Grows(c, Emit(c, s)) /\ IsCompiler(Emit(c, s)) /\ Emit(c, s).open = c.open
         /\ Len(CodeOf(Emit(c, s))) = Len(CodeOf(c)) + Len(s)
<1>1. Adds(c, s, Emit(c, s))
  BY AddsEmit
<1> QED BY <1>1, GrowsAdds DEF Adds, SameStatements, Appended

LEMMA GrowsPatch ==
  ASSUME NEW c, NEW js, IsCompiler(c)
  PROVE  Grows(c, PatchJumps(c, js)) /\ IsCompiler(PatchJumps(c, js)) /\ PatchJumps(c, js).open = c.open
         /\ Len(CodeOf(PatchJumps(c, js))) = Len(CodeOf(c))
<1> DEFINE d == PatchJumps(c, js)
<1>1. Patches(c, js, d)
  BY PatchesJumps
<1> HIDE DEF d
<1>2. /\ Len(CodeOf(c)) \in Nat /\ Len(CodeOf(d)) = Len(CodeOf(c)) /\ d.pending = c.pending
      /\ \A i \in 1 .. Len(CodeOf(c)) : CodeOf(d)[i].marks = CodeOf(c)[i].marks
  BY <1>1, CodeLen DEF Patches, Patched
<1>3. ASSUME NEW b \in Mark, Stopped(c, b)
      PROVE  Stopped(d, b)
  <2>1. b.at \in Nat
    BY DEF Mark
  <2>2. b.at < Len(CodeOf(c)) => b.at + 1 \in 1 .. Len(CodeOf(c))
    BY <1>2, <2>1
  <2> QED BY <1>2, <1>3, <2>1, <2>2 DEF Stopped
<1>4. SameAnchors(c, d)
  BY <1>1, AnchorsOf DEF Patches, SameStatements
<1> QED BY <1>1, <1>2, <1>3, <1>4 DEF Patches, SameStatements, Grows, d

LEMMA GrowsScopes ==
  ASSUME NEW c, IsCompiler(c), NEW d, DOMAIN d = CompilerFields, d.open = c.open, SameRest(c, d)
  PROVE  Grows(c, d) /\ IsCompiler(d) /\ d.open = c.open /\ Len(CodeOf(d)) = Len(CodeOf(c))
<1>1. IsCompiler(d)
  BY DEF IsCompiler, SameRest
<1>2. Len(CodeOf(d)) = Len(CodeOf(c))
  BY DEF SameRest
<1> QED BY <1>1, <1>2, AnchorsOf, GrowsSame

LEMMA GrowsBegin ==
  ASSUME NEW c, IsCompiler(c)
  PROVE  Grows(c, ScopeBegin(c)) /\ IsCompiler(ScopeBegin(c)) /\ ScopeBegin(c).open = c.open
         /\ Len(CodeOf(ScopeBegin(c))) = Len(CodeOf(c))
<1> DEFINE d == ScopeBegin(c)
<1>1. DOMAIN d = CompilerFields /\ d.open = c.open /\ SameRest(c, d)
  BY DEF ScopeBegin, IsCompiler, CompilerFields, SameRest, CodeOf
<1> HIDE DEF d
<1>2. Grows(c, d) /\ IsCompiler(d) /\ d.open = c.open /\ Len(CodeOf(d)) = Len(CodeOf(c))
  BY <1>1, GrowsScopes
<1> QED BY <1>2 DEF d

LEMMA TextOfPop ==
  ASSUME NEW n
  PROVE  IsText(PopMultiple(n)) /\ PopMultiple(n) \in {<<>>, <<Pop(n)>>} /\ Len(PopMultiple(n)) \in {0, 1}
<1>1. IsText(<<>>) /\ Len(<<>>) = 0
  BY SeqEmpty DEF IsText
<1>2. IsText(<<Pop(n)>>) /\ Len(<<Pop(n)>>) = 1
  BY OtherInstructions, TextOfOne
<1> QED BY <1>1, <1>2 DEF PopMultiple

LEMMA GrowsEnd ==
  ASSUME NEW c, IsCompiler(c)
  PROVE  Grows(c, ScopeEnd(c)) /\ IsCompiler(ScopeEnd(c)) /\ ScopeEnd(c).open = c.open
<1> DEFINE n == Above(c, c.depth - 1)
           locals == SubSeq(c.locals, 1, Len(c.locals) - n)
           depth == c.depth - 1
           b == [c EXCEPT !.depth = depth, !.locals = locals]
<1>1. ScopeEnd(c) = Emit(b, PopMultiple(n))
  <2>1. b = [c EXCEPT !.depth = @ - 1, !.locals = SubSeq(@, 1, Len(@) - n)]
    BY DEF IsCompiler, CompilerFields
  <2> QED BY <2>1 DEF ScopeEnd
<1> HIDE DEF n, locals, depth
<1>2. DOMAIN b = CompilerFields /\ b.open = c.open /\ SameRest(c, b)
  BY DEF IsCompiler, CompilerFields, SameRest, CodeOf
<1> HIDE DEF b
<1>4. Grows(c, b) /\ IsCompiler(b) /\ b.open = c.open
  BY <1>2, GrowsScopes
<1>3. Grows(b, Emit(b, PopMultiple(n))) /\ IsCompiler(Emit(b, PopMultiple(n)))
      /\ Emit(b, PopMultiple(n)).open = b.open
  BY <1>4, TextOfPop, GrowsEmit
<1> QED BY <1>1, <1>3, <1>4, GrowsAgain

LEMMA GrowsLocal ==
  ASSUME NEW c, IsCompiler(c), NEW v, NEW depth
  PROVE  /\ Grows(c, AddLocal(c, v, depth)) /\ IsCompiler(AddLocal(c, v, depth))
         /\ AddLocal(c, v, depth).open = c.open
         /\ Len(CodeOf(AddLocal(c, v, depth))) = Len(CodeOf(c))
<1> DEFINE d == AddLocal(c, v, depth)
<1>1. DOMAIN d = CompilerFields /\ d.open = c.open /\ SameRest(c, d)
  BY DEF AddLocal, IsCompiler, CompilerFields, SameRest, CodeOf
<1> HIDE DEF d
<1>2. Grows(c, d) /\ IsCompiler(d) /\ d.open = c.open /\ Len(CodeOf(d)) = Len(CodeOf(c))
  BY <1>1, GrowsScopes
<1> QED BY <1>2 DEF d

LEMMA GrowsHidden ==
  ASSUME NEW c, IsCompiler(c), NEW v
  PROVE  /\ Grows(c, AddHiddenLocal(c, v)) /\ IsCompiler(AddHiddenLocal(c, v))
         /\ AddHiddenLocal(c, v).open = c.open
         /\ Len(CodeOf(AddHiddenLocal(c, v))) = Len(CodeOf(c))
BY GrowsLocal DEF AddHiddenLocal

LEMMA GrowsNot ==
  ASSUME NEW c, IsCompiler(c)
  PROVE  Grows(c, c)
BY GrowsSame DEF SameRest, SameAnchors

LEMMA GrowsDeclare ==
  ASSUME NEW c, IsCompiler(c), NEW v, NEW depth
  PROVE  /\ Grows(c, DeclareVariable(c, v, depth)) /\ IsCompiler(DeclareVariable(c, v, depth))
         /\ DeclareVariable(c, v, depth).open = c.open
         /\ Len(CodeOf(DeclareVariable(c, v, depth))) = Len(CodeOf(c))
BY GrowsLocal, GrowsNot DEF DeclareVariable

LEMMA GrowsDefine ==
  ASSUME NEW c, IsCompiler(c)
  PROVE  Grows(c, DefineVariable(c)) /\ IsCompiler(DefineVariable(c)) /\ DefineVariable(c).open = c.open
<1>1. IsText(<<I("Define")>>)
  BY PlainInstructions, TextOfOne
<1> QED BY <1>1, GrowsEmit, GrowsNot DEF DefineVariable

LEMMA GrowsVariable ==
  ASSUME NEW c, IsCompiler(c), NEW p \in Path
  PROVE  Grows(c, Variable(c, p)) /\ IsCompiler(Variable(c, p)) /\ Variable(c, p).open = c.open
<1> DEFINE s == <<Making(At(p), p)>>
           b == Emit(c, s)
           d == DeclareVariable(b, p, c.depth)
<1>1. IsText(s)
  BY OtherInstructions, PlainInstructions, TextOfOne
<1> HIDE DEF s
<1>2. Grows(c, b) /\ IsCompiler(b) /\ b.open = c.open
  BY <1>1, GrowsEmit
<1> HIDE DEF b
<1>3. Grows(b, d) /\ IsCompiler(d) /\ d.open = b.open
  BY <1>2, GrowsDeclare
<1>4. Variable(c, p) = DefineVariable(d)
  BY DEF Variable, b, s
<1> HIDE DEF d
<1>5. Grows(d, DefineVariable(d)) /\ IsCompiler(DefineVariable(d)) /\ DefineVariable(d).open = d.open
  BY <1>3, GrowsDefine
<1>6. Grows(c, d)
  BY <1>2, <1>3, GrowsAgain
<1> QED BY <1>2, <1>3, <1>4, <1>5, <1>6, GrowsAgain

LEMMA GrowsAdvance ==
  ASSUME NEW c, IsCompiler(c)
  PROVE  Grows(c, Advance(c))
<1> DEFINE d == Advance(c)
           n == Len(c.open)
           e == [c.open[n] EXCEPT !.next = c.open[n].next + 1, !.full = TRUE]
<1>1. /\ IsCompiler(d) /\ SameRest(c, d) /\ Len(d.open) = n
      /\ \A j \in 1 .. n - 1 : d.open[j] = c.open[j]
      /\ d.open[n] = e
  BY AdvanceIs
<1>2. n \in Nat \ {0} /\ c.open[n] \in Statement
  BY OpenIs
<1>3. e.kind = c.open[n].kind /\ e.start = c.open[n].start
  BY <1>2, ReadOn
<1> HIDE DEF d, e, n
<1>4. SameAnchors(c, d)
  <2> SUFFICES ASSUME NEW j \in Nat
               PROVE  /\ Anchor(c, j) <=> Anchor(d, j)
                      /\ Anchor(c, j) => d.open[j].kind = c.open[j].kind /\ d.open[j].start = c.open[j].start
    BY DEF SameAnchors
  <2>1. j \in 1 .. n - 1 \/ j = n \/ j \notin 1 .. n
    BY <1>2
  <2>2. n = Len(c.open)
    BY DEF n
  <2> QED BY <1>1, <1>3, <2>1, <2>2 DEF Anchor
<1> QED BY <1>1, <1>4, GrowsSame DEF d

LEMMA GrowsLeave ==
  ASSUME NEW c, IsCompiler(c), Len(c.open) > 1, ~Anchor(c, Len(c.open))
  PROVE  Grows(c, Leave(c))
<1> DEFINE d == Leave(c)
           n == Len(c.open) - 1
           e == [c.open[n] EXCEPT !.next = c.open[n].next + 1, !.full = TRUE]
<1>1. /\ IsCompiler(d) /\ SameRest(c, d) /\ Len(d.open) = n
      /\ \A j \in 1 .. n - 1 : d.open[j] = c.open[j]
      /\ d.open[n] = e
  BY LeaveIs
<1>2. n \in Nat \ {0} /\ c.open[n] \in Statement /\ Len(c.open) = n + 1
  BY OpenIs
<1>3. e.kind = c.open[n].kind /\ e.start = c.open[n].start
  BY <1>2, ReadOn
<1> HIDE DEF d, e, n
<1>4. SameAnchors(c, d)
  <2> SUFFICES ASSUME NEW j \in Nat
               PROVE  /\ Anchor(c, j) <=> Anchor(d, j)
                      /\ Anchor(c, j) => d.open[j].kind = c.open[j].kind /\ d.open[j].start = c.open[j].start
    BY DEF SameAnchors
  <2>1. j \in 1 .. n - 1 \/ j = n \/ j = n + 1 \/ j \notin 1 .. n + 1
    BY <1>2
  <2>2. j \in 1 .. n - 1 => j \in 1 .. n + 1 /\ j \in 1 .. n
    BY <1>2
  <2>3. n \in 1 .. n + 1 /\ n + 1 \notin 1 .. n /\ (j \in 1 .. n => j \in 1 .. n + 1) /\ n \in 1 .. n
    BY <1>2
  <2>4. \A i : Anchor(c, i) <=> i \in 1 .. n + 1 /\ c.open[i].kind \in AnchorKinds
    BY <1>2 DEF Anchor
  <2>5. \A i : Anchor(d, i) <=> i \in 1 .. n /\ d.open[i].kind \in AnchorKinds
    BY <1>1 DEF Anchor
  <2>6. ~Anchor(c, n + 1)
    BY <1>2
  <2>7. CASE j \in 1 .. n - 1
    BY <1>1, <2>2, <2>4, <2>5, <2>7
  <2>8. CASE j = n
    BY <1>1, <1>3, <2>3, <2>4, <2>5, <2>8
  <2> QED BY <2>1, <2>3, <2>4, <2>5, <2>6, <2>7, <2>8
<1> QED BY <1>1, <1>4, GrowsSame DEF d

LEMMA GrowsEnter ==
  ASSUME NEW c, IsCompiler(c), NEW kind \in StatementKinds, kind \notin AnchorKinds,
         NEW p \in Path, NEW next \in Nat, NEW start \in Nat, NEW exit \in Nat
  PROVE  Grows(c, Enter(c, kind, p, next, start, exit)) /\ IsCompiler(Enter(c, kind, p, next, start, exit))
<1> DEFINE d == Enter(c, kind, p, next, start, exit)
           n == Len(c.open)
           e == [kind |-> kind, at |-> p, next |-> next, full |-> FALSE, start |-> start, exit |-> exit]
<1>1. /\ IsCompiler(d) /\ SameRest(c, d) /\ Len(d.open) = n + 1
      /\ \A j \in 1 .. n : d.open[j] = c.open[j]
      /\ d.open[n + 1] = e
  BY EnterIs
<1>3. e.kind = kind
  OBVIOUS
<1>2. n \in Nat \ {0}
  BY OpenIs
<1> HIDE DEF d, n, e
<1>4. SameAnchors(c, d)
  <2> SUFFICES ASSUME NEW j \in Nat
               PROVE  /\ Anchor(c, j) <=> Anchor(d, j)
                      /\ Anchor(c, j) => d.open[j].kind = c.open[j].kind /\ d.open[j].start = c.open[j].start
    BY DEF SameAnchors
  <2>1. (j \in 1 .. n /\ j \in 1 .. n + 1) \/ (j = n + 1 /\ j \notin 1 .. n)
        \/ (j \notin 1 .. n + 1 /\ j \notin 1 .. n)
    BY <1>2
  <2>4. \A i : Anchor(c, i) <=> i \in 1 .. n /\ c.open[i].kind \in AnchorKinds
    BY <1>2 DEF Anchor, n
  <2>5. \A i : Anchor(d, i) <=> i \in 1 .. n + 1 /\ d.open[i].kind \in AnchorKinds
    BY <1>1 DEF Anchor
  <2> QED BY <1>1, <1>3, <2>1, <2>4, <2>5
<1> QED BY <1>1, <1>4, GrowsSame DEF d

LEMMA GrowsPart ==
  ASSUME NEW c, IsCompiler(c), NEW kind, NEW p \in Path
  PROVE  Grows(c, EnterPart(c, kind, p)) /\ IsCompiler(EnterPart(c, kind, p))
<1>1. Grows(c, ScopeBegin(c)) /\ IsCompiler(ScopeBegin(c))
  BY GrowsBegin
<1>2. "Body" \in StatementKinds
  BY DEF StatementKinds, Lists
<1>3. LET d == Enter(ScopeBegin(c), "Body", p, 1, 0, 0) IN Grows(ScopeBegin(c), d) /\ IsCompiler(d)
  BY <1>1, <1>2, GrowsEnter DEF AnchorKinds
<1> QED BY <1>1, <1>3, GrowsAgain, GrowsNot DEF EnterPart

LEMMA GrowsBody ==
  ASSUME NEW c, IsCompiler(c), NEW kind \in StatementKinds, kind \notin AnchorKinds,
         NEW p \in Path, NEW start \in Nat, NEW exit \in Nat
  PROVE  Grows(c, EnterBody(c, kind, p, start, exit))
<1> DEFINE b == Enter(c, kind, p, Body, start, exit)
<1>1. Grows(c, b) /\ IsCompiler(b)
  BY GrowsEnter DEF Body
<1>2. Part(p, Body) \in Path
  BY PartOf DEF Body
<1>3. EnterBody(c, kind, p, start, exit) = EnterPart(b, kind, Part(p, Body))
  BY DEF EnterBody
<1> HIDE DEF b
<1>4. Grows(b, EnterPart(b, kind, Part(p, Body)))
  BY <1>1, <1>2, GrowsPart
<1> QED BY <1>1, <1>3, <1>4, GrowsAgain

-----------------------------------------------------------------------------
(* The lists of a stack of compilers: the n-th belongs to the statement      *)
(* where[n] of the compiler who[n], the later ones to the inner statements.  *)

\* Statement j of compiler i has a list.
Owned(cs, kinds, i, j) ==
  /\ i \in 1 .. Len(cs) /\ j \in 1 .. Len(cs[i].open) /\ cs[i].open[j].kind \in kinds

Inner(i, j, k, l) == i < k \/ (i = k /\ j < l)

\* There are n lists, one for each statement that has one, outer ones first.
Belong(cs, kinds, n, who, where) ==
  /\ n \in Nat
  /\ \A k \in 1 .. n : who[k] \in Nat /\ where[k] \in Nat /\ Owned(cs, kinds, who[k], where[k])
  /\ \A k, l \in 1 .. n : k < l => Inner(who[k], where[k], who[l], where[l])
  /\ \A i, j \in Nat : Owned(cs, kinds, i, j) => \E k \in 1 .. n : who[k] = i /\ where[k] = j

\* Where the same statements have lists, the lists belong as before.
LEMMA ListsStay ==
  ASSUME NEW cs, NEW ds, NEW kinds, NEW n, NEW who, NEW where, Belong(cs, kinds, n, who, where),
         \A i, j \in Nat : Owned(ds, kinds, i, j) <=> Owned(cs, kinds, i, j)
  PROVE  Belong(ds, kinds, n, who, where)
BY DEF Belong

\* The innermost statement with a list has the last one.
LEMMA ListsLast ==
  ASSUME NEW cs, NEW kinds, NEW n, NEW who, NEW where, Belong(cs, kinds, n, who, where),
         NEW i \in Nat, NEW j \in Nat, Owned(cs, kinds, i, j),
         \A k, l \in Nat : Owned(cs, kinds, k, l) => (k = i /\ l = j) \/ Inner(k, l, i, j)
  PROVE  n >= 1 /\ n \in 1 .. n /\ who[n] = i /\ where[n] = j
<1>1. PICK m \in 1 .. n : who[m] = i /\ where[m] = j
  BY DEF Belong
<1>2. n \in Nat /\ m \in Nat /\ 1 <= m /\ m <= n
  BY DEF Belong
<1>3. n \in 1 .. n
  BY <1>2
<1>4. ASSUME m < n PROVE FALSE
  <2>1. /\ who[n] \in Nat /\ where[n] \in Nat /\ Owned(cs, kinds, who[n], where[n])
        /\ Inner(i, j, who[n], where[n])
    BY <1>1, <1>3, <1>4 DEF Belong
  <2> QED BY <2>1 DEF Inner
<1> QED BY <1>1, <1>2, <1>3, <1>4

\* Without the innermost statement, the last list goes.
LEMMA ListsLess ==
  ASSUME NEW cs, NEW ds, NEW kinds, NEW n, NEW who, NEW where, Belong(cs, kinds, n, who, where),
         NEW i \in Nat, NEW j \in Nat, Owned(cs, kinds, i, j),
         \A k, l \in Nat : Owned(cs, kinds, k, l) => (k = i /\ l = j) \/ Inner(k, l, i, j),
         \A k, l \in Nat : Owned(ds, kinds, k, l) <=> Owned(cs, kinds, k, l) /\ ~(k = i /\ l = j)
  PROVE  Belong(ds, kinds, n - 1, who, where)
<1> n \in Nat
  BY DEF Belong
<1>1. n >= 1 /\ n \in Nat /\ who[n] = i /\ where[n] = j
  BY ListsLast
<1>2. \A k \in 1 .. n - 1 : k \in 1 .. n /\ n \in 1 .. n /\ k < n
  BY <1>1
<1>3. \A k \in 1 .. n : k \in 1 .. n - 1 \/ k = n
  BY <1>1
<1>4. n - 1 \in Nat
  BY <1>1
<1>5. ASSUME NEW k \in 1 .. n - 1
      PROVE  who[k] \in Nat /\ where[k] \in Nat /\ Owned(ds, kinds, who[k], where[k])
  <2>1. who[k] \in Nat /\ where[k] \in Nat /\ Owned(cs, kinds, who[k], where[k])
    BY <1>2 DEF Belong
  <2>2. Inner(who[k], where[k], i, j)
    BY <1>1, <1>2 DEF Belong
  <2>3. ~(who[k] = i /\ where[k] = j)
    BY <2>1, <2>2 DEF Inner
  <2> QED BY <2>1, <2>3
<1>6. \A k, l \in 1 .. n - 1 : k < l => Inner(who[k], where[k], who[l], where[l])
  BY <1>2 DEF Belong
<1>7. ASSUME NEW k \in Nat, NEW l \in Nat, Owned(ds, kinds, k, l)
      PROVE  \E m \in 1 .. n - 1 : who[m] = k /\ where[m] = l
  <2>1. Owned(cs, kinds, k, l) /\ ~(k = i /\ l = j)
    BY <1>7
  <2>2. PICK m \in 1 .. n : who[m] = k /\ where[m] = l
    BY <2>1 DEF Belong
  <2>3. m # n
    BY <1>1, <2>1, <2>2
  <2> QED BY <1>3, <2>2, <2>3
<1> QED BY <1>4, <1>5, <1>6, <1>7 DEF Belong

\* With one statement more inside all others, one list more.
LEMMA ListsMore ==
  ASSUME NEW cs, NEW ds, NEW kinds, NEW n, NEW who, NEW where, Belong(cs, kinds, n, who, where),
         NEW i \in Nat, NEW j \in Nat, Owned(ds, kinds, i, j),
         \A k, l \in Nat : Owned(cs, kinds, k, l) => Inner(k, l, i, j),
         \A k, l \in Nat : Owned(ds, kinds, k, l) <=> Owned(cs, kinds, k, l) \/ (k = i /\ l = j)
  PROVE  Belong(ds, kinds, n + 1, [k \in 1 .. n + 1 |-> IF k = n + 1 THEN i ELSE who[k]],
                                 [k \in 1 .. n + 1 |-> IF k = n + 1 THEN j ELSE where[k]])
<1> DEFINE a == [k \in 1 .. n + 1 |-> IF k = n + 1 THEN i ELSE who[k]]
           b == [k \in 1 .. n + 1 |-> IF k = n + 1 THEN j ELSE where[k]]
<1>1. n \in Nat /\ n + 1 \in Nat
  BY DEF Belong
<1>2. \A k \in 1 .. n : k \in 1 .. n + 1 /\ k # n + 1 /\ ~(n + 1 < k)
  BY <1>1
<1>3. n + 1 \in 1 .. n + 1 /\ \A k \in 1 .. n + 1 : k = n + 1 \/ k \in 1 .. n
  BY <1>1
<1>4. a[n + 1] = i /\ b[n + 1] = j
  BY <1>3
<1>5. \A k \in 1 .. n : a[k] = who[k] /\ b[k] = where[k]
  BY <1>2
<1> HIDE DEF a, b
<1>6. ASSUME NEW k \in 1 .. n
      PROVE  who[k] \in Nat /\ where[k] \in Nat /\ Owned(ds, kinds, who[k], where[k])
             /\ Inner(who[k], where[k], i, j)
  BY DEF Belong
<1>7. ASSUME NEW k \in 1 .. n + 1
      PROVE  a[k] \in Nat /\ b[k] \in Nat /\ Owned(ds, kinds, a[k], b[k])
  BY <1>3, <1>4, <1>5, <1>6
<1>8. ASSUME NEW k \in 1 .. n + 1, NEW l \in 1 .. n + 1, k < l
      PROVE  Inner(a[k], b[k], a[l], b[l])
  <2>1. k \in 1 .. n
    BY <1>3, <1>8, <1>1
  <2>2. CASE l = n + 1
    BY <1>4, <1>5, <1>6, <2>1, <2>2
  <2>3. CASE l \in 1 .. n
    BY <1>5, <1>8, <2>1, <2>3 DEF Belong
  <2> QED BY <1>3, <2>2, <2>3
<1>9. ASSUME NEW k \in Nat, NEW l \in Nat, Owned(ds, kinds, k, l)
      PROVE  \E m \in 1 .. n + 1 : a[m] = k /\ b[m] = l
  <2>1. CASE k = i /\ l = j
    BY <1>3, <1>4, <2>1
  <2>2. CASE Owned(cs, kinds, k, l)
    <3>1. PICK m \in 1 .. n : who[m] = k /\ where[m] = l
      BY <2>2 DEF Belong
    <3> QED BY <1>2, <1>5, <3>1
  <2> QED BY <1>9, <2>1, <2>2
<1>10. Belong(ds, kinds, n + 1, a, b)
  BY <1>1, <1>7, <1>8, <1>9 DEF Belong
<1> QED BY <1>10 DEF a, b

-----------------------------------------------------------------------------
(* What holds of the compilers at work and of their lists of breakpoints.    *)

\* Statements are nested as the grammar nests them.
IsWorker(c) ==
  /\ IsCompiler(c)
  /\ \A j \in 1 .. Len(c.open) :
       /\ c.open[j].kind = "Function" <=> j = 1
       /\ c.open[j].kind = "Cases" => j > 1 /\ c.open[j - 1].kind = "Switch"
Workers(cs) == IsSeq(cs) /\ \A i \in 1 .. Len(cs) : IsWorker(cs[i])

\* The list of a switch, and the stack of these lists.
IsSwitch(s) ==
  /\ DOMAIN s = {"scope", "cases", "default"} /\ IsSeq(s.cases) /\ s.default \in Int
  /\ \A n \in 1 .. Len(s.cases) : s.cases[n].at \in Nat /\ IsInstruction(s.cases[n].code)
Switches(cs, ss) ==
  /\ IsSeq(ss) /\ \A n \in 1 .. Len(ss) : IsSwitch(ss[n])
  /\ \E who, where : Belong(cs, {"Cases"}, Len(ss), who, where)

InCases(c, j) == Anchor(c, j) /\ c.open[j].kind = "Cases"

\* A breakpoint that belongs to the list of statement n: what is compiled of the
\* switches up to n is before it, and what is compiled of the inner ones behind it.
Kept(c, b, n) ==
  /\ Stopped(c, b)
  /\ \A j \in Nat : InCases(c, j) => IF j <= n THEN c.open[j].start <= b.at ELSE b.at < c.open[j].start
AllKept(c, s, n) == s \in Seq(Mark) /\ \A e \in 1 .. Len(s) : Kept(c, s[e], n)

\* The breakpoint statements of a switch inside a switch are not in the model.
Alone(c, n) == \A j, k \in Nat : InCases(c, j) /\ InCases(c, k) /\ j <= n /\ k <= n => j = k

\* What a compiler has moved already waits in front of the switches under way.
Begun(c) ==
  /\ \A j \in Nat : InCases(c, j) => c.open[j].start <= Len(CodeOf(c))
  /\ AllKept(c, c.breakpoints, 0)

ListKinds == {"Function", "Cases"}

\* The stack of lists of breakpoints.
Marks(cs, ms, who, where) ==
  /\ IsSeq(ms) /\ Belong(cs, ListKinds, Len(ms), who, where)
  /\ \A i \in 1 .. Len(cs) : Begun(cs[i])
  /\ \A k \in 1 .. Len(ms) :
       /\ AllKept(cs[who[k]], ms[k], where[k])
       /\ ms[k] # <<>> => Alone(cs[who[k]], where[k])

\* What grows keeps its marks on the right side of each switch.
LEMMA GrownKept ==
  ASSUME NEW c, NEW d, IsCompiler(c), Grows(c, d)
  PROVE  /\ \A j \in Nat : InCases(d, j) <=> InCases(c, j)
         /\ \A n, s : AllKept(c, s, n) => AllKept(d, s, n)
         /\ \A n : Alone(c, n) => Alone(d, n)
         /\ Begun(c) => Begun(d)
         /\ IsWorker(c) => IsWorker(d)
         /\ \A kinds : kinds \subseteq ListKinds =>
              \A j \in Nat : (j \in 1 .. Len(d.open) /\ d.open[j].kind \in kinds)
                              <=> (j \in 1 .. Len(c.open) /\ c.open[j].kind \in kinds)
<1>1. \A j \in Nat : /\ InCases(d, j) <=> InCases(c, j)
                     /\ InCases(c, j) => d.open[j].start = c.open[j].start
  BY DEF InCases, Grows, SameAnchors
<1>2. ASSUME NEW n, NEW b \in Mark, Kept(c, b, n)
      PROVE  Kept(d, b, n)
  BY <1>1, <1>2 DEF Kept, Grows
<1>3. ASSUME NEW n, NEW s, AllKept(c, s, n)
      PROVE  AllKept(d, s, n)
  <2>1. \A e \in 1 .. Len(s) : s[e] \in Mark
    BY <1>3, ElementOfSeq DEF AllKept
  <2> QED BY <1>2, <1>3, <2>1 DEF AllKept
<1>4. \A n : Alone(c, n) => Alone(d, n)
  BY <1>1 DEF Alone
<1>5. Len(CodeOf(c)) \in Nat /\ Len(CodeOf(d)) \in Nat /\ Len(CodeOf(c)) <= Len(CodeOf(d))
  BY CodeLen DEF Grows
<1>6. ASSUME NEW j \in Nat, InCases(c, j)
      PROVE  c.open[j].start \in Nat
  <2>1. j \in 1 .. Len(c.open)
    BY <1>6 DEF InCases, Anchor
  <2>2. c.open[j] \in Statement
    BY <2>1, OpenIs
  <2> QED BY <2>2 DEF Statement
<1>7. ASSUME Begun(c)
      PROVE  Begun(d)
  <2>1. \A j \in Nat : InCases(d, j) => d.open[j].start <= Len(CodeOf(d))
    BY <1>1, <1>5, <1>6, <1>7 DEF Begun
  <2>2. AllKept(d, d.breakpoints, 0)
    BY <1>3, <1>7 DEF Begun, Grows
  <2> QED BY <2>1, <2>2 DEF Begun
<1>8. ASSUME NEW kinds, kinds \subseteq ListKinds, NEW j \in Nat
      PROVE  (j \in 1 .. Len(d.open) /\ d.open[j].kind \in kinds)
             <=> (j \in 1 .. Len(c.open) /\ c.open[j].kind \in kinds)
  <2>1. (Anchor(c, j) <=> Anchor(d, j)) /\ (Anchor(c, j) => d.open[j].kind = c.open[j].kind)
    BY DEF Grows, SameAnchors
  <2> QED BY <1>8, <2>1 DEF Anchor, AnchorKinds, ListKinds
<1>9. ASSUME IsWorker(c)
      PROVE  IsWorker(d)
  <2>1. Len(d.open) \in Nat \ {0} /\ IsCompiler(d) /\ Len(c.open) \in Nat \ {0}
    BY OpenIs DEF Grows
  <2>3. ASSUME NEW j \in 1 .. Len(d.open), d.open[j].kind = "Cases"
        PROVE  j > 1 /\ d.open[j - 1].kind = "Switch"
    <3>1. j \in Nat /\ Anchor(d, j)
      BY <2>1, <2>3 DEF Anchor, AnchorKinds
    <3>2. Anchor(c, j) /\ c.open[j].kind = "Cases"
      BY <2>3, <3>1 DEF Grows, SameAnchors
    <3>3. j > 1 /\ c.open[j - 1].kind = "Switch" /\ j \in 1 .. Len(c.open)
      BY <1>9, <3>2 DEF IsWorker, Anchor
    <3>4. j - 1 \in Nat /\ j - 1 \in 1 .. Len(c.open)
      BY <2>1, <3>3
    <3>5. Anchor(c, j - 1)
      BY <3>3, <3>4 DEF Anchor, AnchorKinds
    <3> QED BY <3>3, <3>4, <3>5 DEF Grows, SameAnchors
  <2>2. ASSUME NEW j \in 1 .. Len(d.open)
        PROVE  d.open[j].kind = "Function" <=> j = 1
    <3>1. j \in Nat /\ 1 \in Nat /\ 1 \in 1 .. Len(c.open)
      BY <2>1
    <3>2. c.open[1].kind = "Function"
      BY <1>9, <3>1 DEF IsWorker
    <3>3. Anchor(c, 1)
      BY <3>1, <3>2 DEF Anchor, AnchorKinds
    <3>4. d.open[1].kind = "Function"
      BY <3>1, <3>2, <3>3 DEF Grows, SameAnchors
    <3>5. ASSUME d.open[j].kind = "Function"
          PROVE  j = 1
      <4>1. Anchor(d, j)
        BY <3>5 DEF Anchor, AnchorKinds
      <4>2. Anchor(c, j) /\ c.open[j].kind = "Function"
        BY <3>1, <3>5, <4>1 DEF Grows, SameAnchors
      <4> QED BY <1>9, <4>2 DEF IsWorker, Anchor
    <3> QED BY <3>4, <3>5
  <2> QED BY <2>1, <2>2, <2>3 DEF IsWorker
<1> QED BY <1>1, <1>3, <1>4, <1>7, <1>8, <1>9

\* The innermost compiler goes on.
LEMMA GrownStack ==
  ASSUME NEW cs, Workers(cs), cs # <<>>, NEW d, Grows(Last(cs), d)
  PROVE  LET ds == Append(Front(cs), d)
         IN  /\ Workers(ds)
             /\ \A ms, who, where : Marks(cs, ms, who, where) => Marks(ds, ms, who, where)
             /\ \A ss : Switches(cs, ss) => Switches(ds, ss)
<1> DEFINE ds == Append(Front(cs), d)
           n == Len(cs)
<1>1. /\ n \in Nat \ {0} /\ Last(cs) = cs[n] /\ IsSeq(Front(cs)) /\ Len(Front(cs)) = n - 1
      /\ \A i \in 1 .. n - 1 : Front(cs)[i] = cs[i]
  BY SeqFront DEF Workers
<1>2. /\ IsSeq(ds) /\ Len(ds) = n - 1 + 1 /\ \A i \in 1 .. n - 1 : ds[i] = Front(cs)[i]
      /\ ds[n - 1 + 1] = d
  BY <1>1, SeqAppend
<1> HIDE DEF ds, n
<1>3. /\ Len(ds) = n /\ ds[n] = d /\ (\A i \in 1 .. n - 1 : ds[i] = cs[i]) /\ n = Len(cs) /\ n \in 1 .. n
      /\ \A i \in 1 .. n : i \in 1 .. n - 1 \/ i = n
  BY <1>1, <1>2 DEF n
<1>4. /\ IsCompiler(cs[n]) /\ IsWorker(cs[n]) /\ Grows(cs[n], d)
  BY <1>1, <1>3 DEF Workers, IsWorker
<1>5. ASSUME NEW i \in 1 .. n
      PROVE  /\ \A m, s : AllKept(cs[i], s, m) => AllKept(ds[i], s, m)
             /\ \A m : Alone(cs[i], m) => Alone(ds[i], m)
             /\ Begun(cs[i]) => Begun(ds[i])
             /\ IsWorker(cs[i]) => IsWorker(ds[i])
             /\ \A kinds : kinds \subseteq ListKinds =>
                  \A j \in Nat : (j \in 1 .. Len(ds[i].open) /\ ds[i].open[j].kind \in kinds)
                                  <=> (j \in 1 .. Len(cs[i].open) /\ cs[i].open[j].kind \in kinds)
  <2>1. CASE i = n
    BY <1>3, <1>4, <2>1, GrownKept
  <2>2. CASE ds[i] = cs[i]
    BY <2>2
  <2> QED BY <1>3, <2>1, <2>2
<1>6. Workers(ds)
  BY <1>2, <1>3, <1>5 DEF Workers
<1>7. ASSUME NEW kinds, kinds \subseteq ListKinds, NEW i \in Nat, NEW j \in Nat
      PROVE  Owned(ds, kinds, i, j) <=> Owned(cs, kinds, i, j)
  BY <1>3, <1>5, <1>7 DEF Owned
<1>8. ASSUME NEW m, NEW who, NEW where, NEW kinds, kinds \subseteq ListKinds, Belong(cs, kinds, m, who, where)
      PROVE  Belong(ds, kinds, m, who, where)
  BY <1>7, <1>8, ListsStay
<1>9. ASSUME NEW ms, NEW who, NEW where, Marks(cs, ms, who, where)
      PROVE  Marks(ds, ms, who, where)
  <2>1. Belong(ds, ListKinds, Len(ms), who, where)
    BY <1>8, <1>9 DEF Marks
  <2>2. \A i \in 1 .. Len(ds) : Begun(ds[i])
    BY <1>3, <1>5, <1>9 DEF Marks
  <2>3. ASSUME NEW k \in 1 .. Len(ms)
        PROVE  AllKept(ds[who[k]], ms[k], where[k]) /\ (ms[k] # <<>> => Alone(ds[who[k]], where[k]))
    <3>1. who[k] \in 1 .. n
      BY <1>3, <1>9 DEF Marks, Belong, Owned
    <3> QED BY <1>5, <1>9, <3>1 DEF Marks
  <2> QED BY <1>9, <2>1, <2>2, <2>3 DEF Marks
<1>10. ASSUME NEW ss, Switches(cs, ss)
       PROVE  Switches(ds, ss)
  <2>1. {"Cases"} \subseteq ListKinds
    BY DEF ListKinds
  <2> QED BY <1>8, <1>10, <2>1 DEF Switches
<1> QED BY <1>6, <1>9, <1>10 DEF ds

-----------------------------------------------------------------------------
(* The script is finite, and its functions can be counted.                   *)

\* Reading a statement adds finitely many places.
LEMMA NoteFinite ==
  /\ \A keys, x : IsFiniteSet(keys) => IsFiniteSet(DOMAIN Each(keys, x))
  /\ \A f, g : IsFiniteSet(DOMAIN f) /\ IsFiniteSet(DOMAIN g) => IsFiniteSet(DOMAIN Over(f, g))
<1>1. ASSUME NEW keys, NEW x, IsFiniteSet(keys)
      PROVE  IsFiniteSet(DOMAIN Each(keys, x))
  <2>1. DOMAIN Each(keys, x) = keys
    BY DEF Each
  <2> QED BY <1>1, <2>1
<1>2. ASSUME NEW f, NEW g, IsFiniteSet(DOMAIN f), IsFiniteSet(DOMAIN g)
      PROVE  IsFiniteSet(DOMAIN Over(f, g))
  <2>1. DOMAIN Over(f, g) = DOMAIN f \cup DOMAIN g
    BY DEF Over
  <2>2. IsFiniteSet(DOMAIN f \cup DOMAIN g)
    BY <1>2, FS_Union
  <2> QED BY <2>1, <2>2
<1> QED BY <1>1, <1>2

LEMMA FewFinite ==
  IsFiniteSet({}) /\ \A a, b, c : IsFiniteSet({a}) /\ IsFiniteSet({a, b}) /\ IsFiniteSet({a, b, c})
<1>1. IsFiniteSet({})
  BY FS_EmptySet
<1>2. ASSUME NEW a, NEW b, NEW c
      PROVE  IsFiniteSet({a}) /\ IsFiniteSet({a, b}) /\ IsFiniteSet({a, b, c})
  <2>1. IsFiniteSet({a})
    BY FS_Singleton
  <2>2. {a, b} = {a} \cup {b} /\ {a, b, c} = {a, b} \cup {c}
    OBVIOUS
  <2>3. IsFiniteSet({a, b})
    BY <2>1, <2>2, FS_AddElement
  <2>4. IsFiniteSet({a, b, c})
    BY <2>2, <2>3, FS_AddElement
  <2> QED BY <2>1, <2>3, <2>4
<1> QED BY <1>1, <1>2

LEMMA BodyNoteFinite ==
  ASSUME NEW kind, NEW p, NEW parts, IsFiniteSet(parts)
  PROVE  IsFiniteSet(DOMAIN BodyNote(kind, p, parts)) /\ IsFiniteSet(DOMAIN PartNote(kind, p))
<1>1. \A q : IsFiniteSet(DOMAIN PartNote(kind, q))
  BY NoteFinite, FewFinite DEF PartNote
<1>2. IsFiniteSet(DOMAIN Each({p}, kind)) /\ IsFiniteSet(DOMAIN Each(parts, "Part"))
  BY NoteFinite, FewFinite
<1> QED BY <1>1, <1>2, NoteFinite DEF BodyNote

LEMMA FunctionNoteFinite == \A f : IsFiniteSet(DOMAIN FunctionNote(f))
BY NoteFinite, FewFinite DEF FunctionNote

\* Functions have numbers.
LEMMA NextFunctionIs ==
  ASSUME IsFiniteSet(DOMAIN tree)
  PROVE  NextFunction \in Nat
<1>1. IsFiniteSet({p \in DOMAIN tree : tree[p] \in {"Function"}})
  BY FS_Subset
<1> QED BY <1>1, FS_CardinalityType DEF NextFunction, Count

-----------------------------------------------------------------------------
(* The innermost compiler at a step.                                         *)

LEMMA TopIs ==
  ASSUME Workers(compilers), compilers # <<>>
  PROVE  /\ Top = compilers[Len(compilers)] /\ Len(compilers) \in Nat \ {0}
         /\ IsWorker(Top) /\ IsCompiler(Top) /\ Len(CodeOf(Top)) \in Nat /\ Size(Top) = Len(CodeOf(Top))
         /\ Len(Top.open) \in Nat \ {0} /\ Entry = Top.open[Len(Top.open)]
         /\ Entry \in Statement /\ Here \in Path
         /\ \A k \in Nat : Part(Here, k) \in Path /\ Part(Entry.at, k) \in Path
         /\ Entry.kind # "Function" => Len(Top.open) > 1
         /\ Entry.kind \notin AnchorKinds => ~Anchor(Top, Len(Top.open))
<1>1. Len(compilers) \in Nat \ {0} /\ Top = compilers[Len(compilers)]
  BY SeqFront DEF Workers, Top
<1>2. IsWorker(Top) /\ IsCompiler(Top)
  BY <1>1 DEF Workers, IsWorker
<1>3. /\ Len(Top.open) \in Nat \ {0} /\ Entry = Top.open[Len(Top.open)]
      /\ Entry \in Statement
  <2>1. Entry = Top.open[Len(Top.open)] /\ Len(Top.open) \in Nat \ {0}
    BY <1>2, OpenIs DEF Entry
  <2>2. Len(Top.open) \in 1 .. Len(Top.open)
    BY <2>1
  <2> QED BY <1>2, <2>1, <2>2, OpenIs
<1>4. Entry.at \in Path /\ Entry.next \in Nat
  BY <1>3 DEF Statement
<1>5. Here \in Path
  BY <1>4, PartOf DEF Here
<1>6. \A k \in Nat : Part(Here, k) \in Path /\ Part(Entry.at, k) \in Path
  BY <1>4, <1>5, PartOf
<1>7. Entry.kind # "Function" => Len(Top.open) > 1
  BY <1>2, <1>3 DEF IsWorker
<1>8. Entry.kind \notin AnchorKinds => ~Anchor(Top, Len(Top.open))
  BY <1>3 DEF AnchorKinds, Anchor
<1>9. Len(CodeOf(Top)) \in Nat /\ Size(Top) = Len(CodeOf(Top))
  BY <1>2, CodeLen
<1> QED BY <1>1, <1>2, <1>3, <1>5, <1>6, <1>7, <1>8, <1>9

\* The step only grows the innermost compiler, and the script stays finite.
GoesOn ==
  /\ compilers # <<>>
  /\ \E d : Grows(Top, d) /\ compilers' = Append(Front(compilers), d)
  /\ IsFiniteSet(DOMAIN tree')

LEMMA Reads ==
  ASSUME Workers(compilers), IsFiniteSet(DOMAIN tree), compilers # <<>>,
         NEW d, Grows(Top, d), NEW n, IsFiniteSet(DOMAIN n), Put(Advance(d)), Note(n)
  PROVE  GoesOn
<1>1. IsCompiler(d) /\ IsCompiler(Top)
  BY TopIs DEF Grows
<1>2. Grows(Top, Advance(d))
  BY <1>1, GrowsAdvance, GrowsAgain
<1>3. IsFiniteSet(DOMAIN tree')
  BY NoteFinite DEF Note
<1> QED BY <1>2, <1>3 DEF GoesOn, Put

LEMMA ReadsOne ==
  ASSUME Workers(compilers), IsFiniteSet(DOMAIN tree), compilers # <<>>,
         NEW d, Grows(Top, d), NEW kind, Put(Advance(d)), Note(Each({Here}, kind))
  PROVE  GoesOn
BY NoteFinite, FewFinite, Reads

LEMMA Enters ==
  ASSUME Workers(compilers), IsFiniteSet(DOMAIN tree), compilers # <<>>,
         NEW c, Grows(Top, c), NEW kind \in StatementKinds, kind \notin AnchorKinds, NEW p \in Path,
         NEW start \in Nat, NEW exit \in Nat, Put(EnterBody(c, kind, p, start, exit)),
         NEW parts, IsFiniteSet(parts), Note(BodyNote(kind, p, parts))
  PROVE  GoesOn
<1>1. IsCompiler(c) /\ IsCompiler(Top)
  BY TopIs DEF Grows
<1>2. Grows(c, EnterBody(c, kind, p, start, exit))
  BY <1>1, GrowsBody DEF AnchorKinds
<1>3. Grows(Top, EnterBody(c, kind, p, start, exit))
  BY <1>1, <1>2, GrowsAgain
<1>4. IsFiniteSet(DOMAIN tree')
  BY NoteFinite, BodyNoteFinite DEF Note
<1> QED BY <1>3, <1>4 DEF GoesOn, Put

LEMMA LeavesOne ==
  ASSUME Workers(compilers), compilers # <<>>, Entry.kind \notin AnchorKinds,
         NEW c, Grows(Top, c), c.open = Top.open, Put(Leave(c)), IsFiniteSet(DOMAIN tree')
  PROVE  GoesOn
<1>1. IsCompiler(c) /\ IsCompiler(Top)
  BY TopIs DEF Grows
<1>2. Len(c.open) > 1 /\ ~Anchor(c, Len(c.open))
  BY TopIs DEF Anchor, AnchorKinds
<1>3. Grows(c, Leave(c))
  BY <1>1, <1>2, GrowsLeave
<1>4. Grows(Top, Leave(c))
  BY <1>1, <1>3, GrowsAgain
<1> QED BY <1>4 DEF GoesOn, Put

-----------------------------------------------------------------------------
(* What the steps emit.                                                      *)

LEMMA TextConcat ==
  ASSUME NEW s, NEW r, IsText(s), IsText(r)
  PROVE  IsText(s \o r)
<1>1. IsSeq(s) /\ IsSeq(r) /\ Len(s) \in Nat /\ Len(r) \in Nat
  BY SeqLen DEF IsText
<1>2. /\ IsSeq(s \o r) /\ Len(s \o r) = Len(s) + Len(r)
      /\ \A i \in 1 .. Len(s) : (s \o r)[i] = s[i]
      /\ \A i \in 1 .. Len(r) : (s \o r)[Len(s) + i] = r[i]
  BY <1>1, SeqConcat
<1> DEFINE q == s \o r
           m == Len(s)
           n == Len(r)
<1> HIDE DEF q, m, n
<1>3. ASSUME NEW i \in 1 .. m + n
      PROVE  IsInstruction(q[i])
  <2>1. CASE i \in 1 .. m
    BY <1>2, <2>1 DEF IsText, q, m
  <2>2. CASE i \notin 1 .. m
    <3>1. i - m \in 1 .. n /\ m + (i - m) = i
      BY <1>1, <2>2 DEF m, n
    <3> DEFINE j == i - m
    <3> HIDE DEF j
    <3>2. j \in 1 .. n /\ m + j = i
      BY <3>1 DEF j
    <3>3. q[m + j] = r[j]
      BY <1>2, <3>2 DEF q, m, n
    <3> QED BY <3>2, <3>3 DEF IsText, n
  <2> QED BY <2>1, <2>2
<1>4. IsSeq(q) /\ Len(q) = m + n
  BY <1>2 DEF q, m, n
<1>5. IsText(q)
  BY <1>3, <1>4 DEF IsText
<1> QED BY <1>5 DEF q

LEMMA TextPlaced ==
  ASSUME NEW s, IsText(s), s # <<>>, NEW p \in Path
  PROVE  IsText(<<Placed(Head(s), p)>> \o Tail(s))
<1>1. IsSeq(s) /\ Len(s) \in Nat /\ Len(s) # 0
  BY SeqLen DEF IsText
<1>2. /\ Tail(s) \in Seq(Elems(s)) /\ Len(Tail(s)) = Len(s) - 1 /\ Head(s) = s[1]
      /\ \A i \in 1 .. Len(Tail(s)) : Tail(s)[i] = s[i + 1]
  BY <1>1, HeadTailProperties DEF IsSeq
<1>3. IsText(Tail(s))
  <2>1. IsSeq(Tail(s))
    BY <1>2, SeqTyped
  <2>2. \A i \in 1 .. Len(Tail(s)) : i + 1 \in 1 .. Len(s)
    BY <1>1, <1>2
  <2> QED BY <1>2, <2>1, <2>2 DEF IsText
<1>4. IsInstruction(Head(s))
  <2>1. 1 \in 1 .. Len(s)
    BY <1>1
  <2> QED BY <1>2, <2>1 DEF IsText
<1>5. IsText(<<Placed(Head(s), p)>>)
  BY <1>4, PlainInstructions, TextOfOne
<1> QED BY <1>3, <1>5, TextConcat

\* What takes the locals off and jumps.
LEMMA TextOfExit ==
  ASSUME NEW c, NEW depth, NEW p \in Path
  PROVE  LET s == PopToScope(c, depth) \o <<Jump>>
         IN  IsText(s) /\ s # <<>> /\ IsText(<<Placed(Head(s), p)>> \o Tail(s))
<1> DEFINE s == PopToScope(c, depth) \o <<Jump>>
<1>1. IsText(PopToScope(c, depth)) /\ IsText(<<Jump>>) /\ Len(<<Jump>>) = 1
  BY TextOfPop, OtherInstructions, TextOfOne DEF PopToScope
<1>2. IsText(s)
  BY <1>1, TextConcat
<1>3. Len(s) = Len(PopToScope(c, depth)) + 1 /\ Len(PopToScope(c, depth)) \in Nat
  BY <1>1, SeqConcat, SeqLen DEF IsText
<1> HIDE DEF s
<1>4. s # <<>>
  BY <1>2, <1>3, SeqEmpty
<1>5. IsText(<<Placed(Head(s), p)>> \o Tail(s))
  BY <1>2, <1>4, TextPlaced
<1> QED BY <1>2, <1>4, <1>5 DEF s

LEMMA TextOfReturn ==
  ASSUME NEW c, c.fn \in Nat
  PROVE  /\ Len(EmitReturn(c)) = 2 /\ IsInstruction(EmitReturn(c)[1]) /\ IsInstruction(EmitReturn(c)[2])
         /\ EmitReturn(c)[1].place = <<>> /\ EmitReturn(c)[2].place = <<>>
         /\ EmitReturn(c)[1].op \in {"Value", "GetLocal"} /\ EmitReturn(c)[2].op = "Return"
<1>1. <<c.fn>> \in Path
  BY DEF Path
<1>2. /\ IsInstruction(Local("GetLocal", c, <<c.fn>>)) /\ Local("GetLocal", c, <<c.fn>>).place = <<>>
      /\ Local("GetLocal", c, <<c.fn>>).op = "GetLocal"
  BY <1>1, LocalInstructions
<1>3. IsInstruction(I("Return")) /\ I("Return").place = <<>> /\ I("Return").op = "Return"
  BY PlainInstructions
<1> DEFINE a == IF c.type = "Constructor" THEN Local("GetLocal", c, <<c.fn>>) ELSE Value
           b == I("Return")
<1>4. IsInstruction(a) /\ a.place = <<>> /\ a.op \in {"Value", "GetLocal"}
  BY <1>2, OtherInstructions
<1>5. EmitReturn(c) = <<a, b>>
  BY DEF EmitReturn
<1> HIDE DEF a, b
<1>6. Len(<<a, b>>) = 2 /\ <<a, b>>[1] = a /\ <<a, b>>[2] = b
  OBVIOUS
<1> QED BY <1>3, <1>4, <1>5, <1>6 DEF b

-----------------------------------------------------------------------------
(* Statements and declarations without a body.                               *)

LEMMA StepExpression ==
  ASSUME Workers(compilers), IsFiniteSet(DOMAIN tree), GetExpressionStatement
  PROVE  GoesOn
<1> USE DEF GetExpressionStatement
<1>1. compilers # <<>>
  BY DEF Expected, Awaited
<1>2. IsText(<<At(Here), Pop(1)>>)
  BY <1>1, TopIs, OtherInstructions, TextOfTwo
<1>3. Grows(Top, Emit(Top, <<At(Here), Pop(1)>>))
  BY <1>1, <1>2, TopIs, GrowsEmit
<1> QED BY <1>1, <1>3, ReadsOne

LEMMA StepBreak ==
  ASSUME Workers(compilers), IsFiniteSet(DOMAIN tree), GetBreakStatement
  PROVE  GoesOn
<1> DEFINE s == PopToScope(Top, Last(breaks).scope) \o <<Jump>>
           d == Emit(Top, <<Placed(Head(s), Here)>> \o Tail(s))
<1>1. compilers # <<>>
  BY DEF GetBreakStatement, Expected, Awaited
<1>2. IsText(<<Placed(Head(s), Here)>> \o Tail(s))
  BY <1>1, TopIs, TextOfExit
<1>3. Grows(Top, d)
  BY <1>1, <1>2, TopIs, GrowsEmit
<1>4. Put(Advance(d)) /\ Note(Each({Here}, "Break"))
  BY DEF GetBreakStatement
<1> QED BY <1>1, <1>3, <1>4, ReadsOne

LEMMA StepContinue ==
  ASSUME Workers(compilers), IsFiniteSet(DOMAIN tree), GetContinueStatement
  PROVE  GoesOn
<1> DEFINE s == PopToScope(Top, Last(continues).scope) \o <<Jump>>
           d == Emit(Top, <<Placed(Head(s), Here)>> \o Tail(s))
<1>1. compilers # <<>>
  BY DEF GetContinueStatement, Expected, Awaited
<1>2. IsText(<<Placed(Head(s), Here)>> \o Tail(s))
  BY <1>1, TopIs, TextOfExit
<1>3. Grows(Top, d)
  BY <1>1, <1>2, TopIs, GrowsEmit
<1>4. Put(Advance(d)) /\ Note(Each({Here}, "Continue"))
  BY DEF GetContinueStatement
<1> QED BY <1>1, <1>3, <1>4, ReadsOne

LEMMA StepReturn ==
  ASSUME Workers(compilers), IsFiniteSet(DOMAIN tree), GetReturnStatement
  PROVE  GoesOn
<1> DEFINE s == EmitReturn(Top)
           d == Emit(Top, <<Placed(s[1], Here), s[2]>>)
<1>1. compilers # <<>>
  BY DEF GetReturnStatement, Expected, Awaited
<1>2. IsText(<<Placed(s[1], Here), s[2]>>)
  <2>1. Top.fn \in Nat /\ Here \in Path
    BY <1>1, TopIs DEF IsCompiler
  <2>2. IsInstruction(s[1]) /\ IsInstruction(s[2])
    BY <2>1, TextOfReturn
  <2> HIDE DEF s
  <2> QED BY <2>1, <2>2, PlainInstructions, TextOfTwo
<1>3. Grows(Top, d)
  BY <1>1, <1>2, TopIs, GrowsEmit
<1>4. Put(Advance(d)) /\ Note(Each({Here}, "Return"))
  BY DEF GetReturnStatement
<1> QED BY <1>1, <1>3, <1>4, ReadsOne

LEMMA StepLabel ==
  ASSUME Workers(compilers), IsFiniteSet(DOMAIN tree), GetCaseStatement \/ GetDefaultStatement
  PROVE  GoesOn
<1>1. compilers # <<>>
  BY DEF GetCaseStatement, GetDefaultStatement, Expected, Awaited
<1>2. Grows(Top, Top)
  BY <1>1, TopIs, GrowsNot
<1>3. PICK kind \in {"Case", "Default"} : Put(Advance(Top)) /\ Note(Each({Here}, kind))
  BY DEF GetCaseStatement, GetDefaultStatement
<1> QED BY <1>1, <1>2, <1>3, ReadsOne

LEMMA StepVariable ==
  ASSUME Workers(compilers), IsFiniteSet(DOMAIN tree), GetVariableDeclaration
  PROVE  GoesOn
<1>1. compilers # <<>>
  BY DEF GetVariableDeclaration, Expected, Awaited
<1>2. Grows(Top, Variable(Top, Here))
  BY <1>1, TopIs, GrowsVariable
<1>3. Put(Advance(Variable(Top, Here))) /\ Note(Each({Here}, "Var"))
  BY DEF GetVariableDeclaration
<1> QED BY <1>1, <1>2, <1>3, ReadsOne

LEMMA StepProperty ==
  ASSUME Workers(compilers), IsFiniteSet(DOMAIN tree), GetPropertyDeclaration
  PROVE  GoesOn
<1> DEFINE b == DeclareVariable(Top, Here, -1)
           s == <<At(Here), Value, I("SetProperty"), Pop(1)>>
           d == Emit(b, s)
<1>1. compilers # <<>>
  BY DEF GetPropertyDeclaration, Expected, Awaited
<1>2. Grows(Top, b) /\ IsCompiler(b)
  BY <1>1, TopIs, GrowsDeclare
<1>3. IsText(s)
  <2>1. IsInstruction(At(Here)) /\ IsInstruction(Value) /\ IsInstruction(I("SetProperty")) /\ IsInstruction(Pop(1))
    BY <1>1, TopIs, OtherInstructions, PlainInstructions
  <2>2. s = <<At(Here), Value>> \o <<I("SetProperty"), Pop(1)>>
    OBVIOUS
  <2>3. IsText(<<At(Here), Value>>) /\ IsText(<<I("SetProperty"), Pop(1)>>)
    BY <2>1, TextOfTwo
  <2> QED BY <2>2, <2>3, TextConcat
<1>4. Put(Advance(d)) /\ Note(Each({Here}, "Property"))
  BY DEF GetPropertyDeclaration
<1> HIDE DEF b, s
<1>5. Grows(Top, d)
  BY <1>1, <1>2, <1>3, TopIs, GrowsEmit, GrowsAgain
<1> QED BY <1>1, <1>4, <1>5, ReadsOne

LEMMA StepEnum ==
  ASSUME Workers(compilers), IsFiniteSet(DOMAIN tree), NEW kind \in {"Enum", "UnnamedEnum"},
         GetEnumDeclaration(kind)
  PROVE  GoesOn
<1> DEFINE s == <<Making(Placed(I("NewEnum"), Here), Here)>>
           first == Emit(Top, s)
           declared == DeclareVariable(first, Here, Top.depth)
           named == DefineVariable(declared)
           saved == <<Value, I("Copy"), I("SaveValue")>>
           global == <<Value>> \o saved \o <<I("AddEnum"), Pop(1)>>
           local == saved \o <<I("AddEnum")>>
           unnamed == <<At(Here)>> \o Tail(saved)
           d == CASE kind = "Enum" /\ Top.depth = 0 -> Emit(named, global)
                  [] kind = "Enum" /\ Top.depth # 0 -> Emit(named, local)
                  [] kind = "UnnamedEnum" -> DefineVariable(Emit(Top, unnamed))
<1>1. compilers # <<>>
  BY DEF GetEnumDeclaration, Expected, Awaited
<1>2. /\ IsInstruction(At(Here)) /\ IsInstruction(Value) /\ IsInstruction(I("Copy"))
      /\ IsInstruction(I("SaveValue")) /\ IsInstruction(I("AddEnum")) /\ IsInstruction(Pop(1))
      /\ IsInstruction(Making(Placed(I("NewEnum"), Here), Here))
  BY <1>1, TopIs, OtherInstructions, PlainInstructions
<1>3. IsText(s) /\ IsText(saved)
  BY <1>2, TextOfOne, TextOfThree
<1>4. IsText(global) /\ IsText(local)
  <2>1. IsText(<<Value>>) /\ IsText(<<I("AddEnum"), Pop(1)>>) /\ IsText(<<I("AddEnum")>>)
    BY <1>2, TextOfOne, TextOfTwo
  <2> HIDE DEF saved
  <2>2. IsText(<<Value>> \o saved)
    BY <1>3, <2>1, TextConcat
  <2> QED BY <1>3, <2>1, <2>2, TextConcat
<1>5. IsText(unnamed)
  <2>1. Tail(saved) = <<I("Copy"), I("SaveValue")>>
    OBVIOUS
  <2>2. IsText(<<I("Copy"), I("SaveValue")>>) /\ IsText(<<At(Here)>>)
    BY <1>2, TextOfOne, TextOfTwo
  <2> QED BY <2>1, <2>2, TextConcat
<1>6. Put(Advance(d)) /\ Note(Each({Here}, kind))
  BY DEF GetEnumDeclaration
<1> HIDE DEF s, saved, global, local, unnamed
<1>7. Grows(Top, first) /\ IsCompiler(first)
  BY <1>1, <1>3, TopIs, GrowsEmit
<1> HIDE DEF first
<1>8. Grows(first, declared) /\ IsCompiler(declared)
  BY <1>7, GrowsDeclare
<1> HIDE DEF declared
<1>9. Grows(declared, named) /\ IsCompiler(named)
  BY <1>8, GrowsDefine
<1> HIDE DEF named
<1>10. Grows(named, Emit(named, global)) /\ Grows(named, Emit(named, local))
  BY <1>4, <1>9, GrowsEmit
<1>11. Grows(Top, named)
  BY <1>1, <1>7, <1>8, <1>9, TopIs, GrowsAgain
<1>12. Grows(Top, Emit(named, global)) /\ Grows(Top, Emit(named, local))
  BY <1>1, <1>10, <1>11, TopIs, GrowsAgain
<1>13. Grows(Top, DefineVariable(Emit(Top, unnamed)))
  <2>1. Grows(Top, Emit(Top, unnamed)) /\ IsCompiler(Emit(Top, unnamed))
    BY <1>1, <1>5, TopIs, GrowsEmit
  <2> QED BY <1>1, <2>1, TopIs, GrowsDefine, GrowsAgain
<1>14. Grows(Top, d)
  <2>1. CASE kind = "Enum" /\ Top.depth = 0
    BY <1>12, <2>1
  <2>2. CASE kind = "Enum" /\ Top.depth # 0
    BY <1>12, <2>2
  <2>3. CASE kind = "UnnamedEnum"
    BY <1>13, <2>3
  <2> QED BY <2>1, <2>2, <2>3
<1> HIDE DEF d
<1> QED BY <1>1, <1>6, <1>14, ReadsOne

-----------------------------------------------------------------------------
(* Blocks and conditional statements.                                        *)

LEMMA StepOpenBlock ==
  ASSUME Workers(compilers), IsFiniteSet(DOMAIN tree), OpenBlock
  PROVE  GoesOn
<1> DEFINE b == ScopeBegin(Top)
           d == Enter(b, "Block", Here, 1, 0, 0)
<1>1. compilers # <<>>
  BY DEF OpenBlock, Expected, Awaited
<1>2. Grows(Top, b) /\ IsCompiler(b)
  BY <1>1, TopIs, GrowsBegin
<1>3. Put(d) /\ Note(Each({Here}, "Block"))
  BY DEF OpenBlock
<1> HIDE DEF b
<1>4. Grows(b, d)
  <2>1. "Block" \in StatementKinds
    BY DEF StatementKinds, Lists
  <2> QED BY <1>1, <1>2, <2>1, TopIs, GrowsEnter DEF AnchorKinds
<1>5. Grows(Top, d)
  BY <1>1, <1>2, <1>4, TopIs, GrowsAgain
<1>6. IsFiniteSet(DOMAIN tree')
  BY <1>3, NoteFinite, FewFinite DEF Note
<1> QED BY <1>1, <1>3, <1>5, <1>6 DEF GoesOn, Put

LEMMA StepCloseBlock ==
  ASSUME Workers(compilers), IsFiniteSet(DOMAIN tree), CloseBlock
  PROVE  GoesOn
<1>1. compilers # <<>> /\ Entry.kind \notin AnchorKinds /\ Put(Leave(ScopeEnd(Top))) /\ tree' = tree
  BY DEF CloseBlock, AnchorKinds
<1>2. Grows(Top, ScopeEnd(Top)) /\ ScopeEnd(Top).open = Top.open
  BY <1>1, TopIs, GrowsEnd
<1> QED BY <1>1, <1>2, LeavesOne

\* What tests a condition.
LEMMA TextOfTest ==
  ASSUME NEW p \in Path
  PROVE  LET s == <<At(p), JumpIfFalse, Pop(1)>> IN IsText(s) /\ Len(s) = 3
BY OtherInstructions, TextOfThree

LEMMA GrowsTest ==
  ASSUME NEW c, IsCompiler(c), NEW p \in Path
  PROVE  LET d == Emit(c, <<At(p), JumpIfFalse, Pop(1)>>)
         IN  /\ Grows(c, d) /\ IsCompiler(d) /\ d.open = c.open
             /\ Size(d) = Len(CodeOf(d)) /\ Len(CodeOf(d)) = Len(CodeOf(c)) + 3
             /\ Size(d) \in Nat /\ Size(d) - 1 \in Nat /\ Size(c) \in Nat
<1> DEFINE s == <<At(p), JumpIfFalse, Pop(1)>>
           d == Emit(c, s)
<1>1. IsText(s) /\ Len(s) = 3
  BY TextOfTest
<1> HIDE DEF s
<1>2. Grows(c, d) /\ IsCompiler(d) /\ d.open = c.open /\ Len(CodeOf(d)) = Len(CodeOf(c)) + 3
  BY <1>1, GrowsEmit
<1>3. Size(d) = Len(CodeOf(d)) /\ Len(CodeOf(c)) \in Nat /\ Size(c) = Len(CodeOf(c))
  BY <1>2, CodeLen
<1>4. Size(d) \in Nat /\ Size(d) - 1 \in Nat /\ Size(c) \in Nat
  BY <1>2, <1>3
<1> QED BY <1>2, <1>3, <1>4 DEF s

LEMMA StepOpenIf ==
  ASSUME Workers(compilers), IsFiniteSet(DOMAIN tree), OpenIf
  PROVE  GoesOn
<1> DEFINE q == Part(Here, Condition)
           c == Emit(Top, <<At(q), JumpIfFalse, Pop(1)>>)
<1>1. compilers # <<>> /\ Put(EnterBody(c, "If", Here, 0, Size(c) - 1)) /\ Note(BodyNote("If", Here, {q}))
  BY DEF OpenIf, Expected, Awaited
<1>2. q \in Path
  BY <1>1, TopIs DEF Condition
<1> HIDE DEF q
<1>3. Grows(Top, c) /\ Size(c) - 1 \in Nat
  BY <1>1, <1>2, TopIs, GrowsTest
<1> HIDE DEF c
<1>4. "If" \in StatementKinds /\ "If" \notin AnchorKinds /\ IsFiniteSet({q}) /\ Here \in Path
  BY <1>1, TopIs, FewFinite DEF StatementKinds, AnchorKinds
<1> QED BY <1>1, <1>3, <1>4, Enters

LEMMA GrowsOne ==
  ASSUME NEW c, IsCompiler(c), NEW i, IsInstruction(i)
  PROVE  LET d == Emit(c, <<i>>)
         IN  /\ Grows(c, d) /\ IsCompiler(d) /\ d.open = c.open
             /\ Size(d) = Len(CodeOf(d)) /\ Len(CodeOf(d)) = Len(CodeOf(c)) + 1
             /\ Size(d) \in Nat /\ Size(d) - 1 \in Nat
<1> DEFINE s == <<i>>
           d == Emit(c, s)
<1>1. IsText(s) /\ Len(s) = 1
  BY TextOfOne
<1> HIDE DEF s
<1>2. Grows(c, d) /\ IsCompiler(d) /\ d.open = c.open /\ Len(CodeOf(d)) = Len(CodeOf(c)) + 1
  BY <1>1, GrowsEmit
<1>3. Size(d) = Len(CodeOf(d)) /\ Len(CodeOf(c)) \in Nat
  BY <1>2, CodeLen
<1>4. Size(d) \in Nat /\ Size(d) - 1 \in Nat
  BY <1>2, <1>3
<1> QED BY <1>2, <1>3, <1>4 DEF s

LEMMA GrowsJump ==
  ASSUME NEW c, IsCompiler(c), NEW jump
  PROVE  Grows(c, PatchJump(c, jump)) /\ IsCompiler(PatchJump(c, jump)) /\ PatchJump(c, jump).open = c.open
         /\ Len(CodeOf(PatchJump(c, jump))) = Len(CodeOf(c))
BY GrowsPatch DEF PatchJump

LEMMA StepCloseThen ==
  ASSUME Workers(compilers), IsFiniteSet(DOMAIN tree), NEW else \in BOOLEAN, CloseThen(else)
  PROVE  GoesOn
<1> DEFINE c1 == Emit(Top, <<Jump>>)
           c2 == PatchJump(c1, Entry.exit)
           c == Emit(c2, <<Pop(1)>>)
           p == Part(Entry.at, Else)
           e == [Entry EXCEPT !.kind = "Else", !.full = FALSE, !.exit = Size(c) - 1]
           rest == [c EXCEPT !.open = Append(Front(@), e)]
<1>1. compilers # <<>> /\ Entry.kind = "If" /\ Entry.kind \notin AnchorKinds
  BY DEF CloseThen, Closing, AnchorKinds
<1>2. IF else THEN Put(EnterPart(rest, "If", p)) /\ Note(PartNote("If", p))
              ELSE Put(Leave(PatchJump(c, Size(c) - 1))) /\ tree' = tree
  BY DEF CloseThen
<1>3. Grows(Top, c1) /\ IsCompiler(c1) /\ c1.open = Top.open
  BY <1>1, TopIs, OtherInstructions, GrowsOne
<1> HIDE DEF c1
<1>4. Grows(c1, c2) /\ IsCompiler(c2) /\ c2.open = Top.open
  BY <1>3, GrowsJump
<1> HIDE DEF c2
<1>5. Grows(c2, c) /\ IsCompiler(c) /\ c.open = Top.open /\ Size(c) - 1 \in Nat
  BY <1>4, OtherInstructions, GrowsOne
<1>6. Grows(Top, c)
  BY <1>1, <1>3, <1>4, <1>5, TopIs, GrowsAgain
<1> HIDE DEF c
<1>7. CASE ~else
  <2> DEFINE d == PatchJump(c, Size(c) - 1)
  <2>1. Grows(c, d) /\ d.open = Top.open
    BY <1>5, GrowsJump
  <2>2. Put(Leave(d)) /\ tree' = tree
    BY <1>2, <1>7
  <2> HIDE DEF d
  <2>3. Grows(Top, d)
    BY <1>1, <1>6, <2>1, TopIs, GrowsAgain
  <2> QED BY <1>1, <2>1, <2>2, <2>3, LeavesOne
<1>8. CASE else
  <2> DEFINE n == Len(c.open)
             s == Append(Front(c.open), e)
  <2>1. /\ Entry = Top.open[Len(Top.open)] /\ Entry \in Statement /\ Len(Top.open) \in Nat \ {0}
        /\ p \in Path
    BY <1>1, TopIs DEF Else
  <2>2. e \in Statement /\ e.kind = "Else"
    <3> DEFINE a == [Entry EXCEPT !.kind = "Else"]
               b == [a EXCEPT !.full = FALSE]
               exit == Size(c) - 1
    <3>1. "Else" \in StatementKinds
      BY DEF StatementKinds
    <3>2. a \in Statement /\ a.kind = "Else"
      BY <2>1, <3>1 DEF Statement
    <3> HIDE DEF a
    <3>3. b \in Statement /\ b.kind = "Else"
      BY <3>2 DEF Statement
    <3>4. exit \in Nat
      BY <1>5
    <3> HIDE DEF b, exit
    <3>5. [b EXCEPT !.exit = exit] \in Statement /\ [b EXCEPT !.exit = exit].kind = "Else"
      BY <3>3, <3>4 DEF Statement
    <3>6. e = [b EXCEPT !.exit = exit]
      BY DEF a, b, exit
    <3> QED BY <3>5, <3>6
  <2>3. rest = [c EXCEPT !.open = s]
    BY <1>5 DEF IsCompiler, CompilerFields
  <2> HIDE DEF e, rest
  <2>4. /\ s \in Seq(Statement) /\ s # <<>> /\ Len(s) = n /\ s[n] = e
        /\ \A j \in 1 .. n - 1 : s[j] = c.open[j]
    <3> DEFINE o == c.open
    <3>1. o \in Seq(Statement) /\ o # <<>> /\ IsSeq(o) /\ Len(o) \in Nat \ {0}
      BY <1>5, OpenIs DEF IsCompiler
    <3> HIDE DEF o
    <3>2. Len(Front(o)) = Len(o) - 1 /\ \A j \in 1 .. Len(o) - 1 : Front(o)[j] = o[j]
      BY <3>1, SeqFront
    <3>3. Front(o) \in Seq(Statement)
      <4>1. \A j \in 1 .. Len(o) - 1 : o[j] \in Statement
        <5>1. \A j \in 1 .. Len(o) - 1 : j \in 1 .. Len(o)
          BY <3>1
        <5> QED BY <3>1, <5>1, ElementOfSeq
      <4>2. Len(o) - 1 \in Int
        BY <3>1
      <4> QED BY <4>1, <4>2, SubSeqProperties DEF Front
    <3> DEFINE r == Front(o)
    <3> HIDE DEF r
    <3>4. r \in Seq(Statement) /\ Len(r) = Len(o) - 1 /\ \A j \in 1 .. Len(o) - 1 : r[j] = o[j]
      BY <3>2, <3>3 DEF r
    <3>5. /\ Append(r, e) \in Seq(Statement) /\ Len(Append(r, e)) = Len(r) + 1 /\ Append(r, e) # <<>>
          /\ Append(r, e)[Len(r) + 1] = e /\ \A j \in 1 .. Len(r) : Append(r, e)[j] = r[j]
      BY <2>2, <3>4, AppendProperties
    <3>6. Len(r) + 1 = Len(o)
      BY <3>1, <3>4
    <3>7. \A j \in 1 .. Len(o) - 1 : Append(r, e)[j] = o[j]
      BY <3>4, <3>5
    <3>8. s = Append(r, e)
      BY DEF r, o
    <3> QED BY <3>5, <3>6, <3>7, <3>8 DEF o
  <2> HIDE DEF s
  <2>5. IsCompiler(rest) /\ SameRest(c, rest) /\ rest.open = s
    BY <1>5, <2>3, <2>4, SetOpen
  <2>6. SameAnchors(c, rest)
    <3> SUFFICES ASSUME NEW j \in Nat
                 PROVE  /\ Anchor(c, j) <=> Anchor(rest, j)
                        /\ Anchor(c, j) => rest.open[j].kind = c.open[j].kind /\ rest.open[j].start = c.open[j].start
      BY DEF SameAnchors
    <3>1. j \in 1 .. n - 1 \/ j = n \/ j \notin 1 .. n
      BY <1>5, <2>1
    <3>2. c.open[n].kind = "If"
      BY <1>1, <1>5, <2>1
    <3>3. s[n].kind = "Else"
      BY <2>2, <2>4
    <3>4. ~Anchor(c, n) /\ ~Anchor(rest, n)
      BY <2>5, <3>2, <3>3 DEF Anchor, AnchorKinds
    <3> HIDE DEF n
    <3> QED BY <2>4, <2>5, <3>1, <3>4 DEF Anchor, n
  <2>7. Grows(c, rest)
    BY <1>5, <2>5, <2>6, GrowsSame
  <2>8. Grows(rest, EnterPart(rest, "If", p))
    BY <2>1, <2>5, GrowsPart
  <2>9. Grows(Top, EnterPart(rest, "If", p))
    BY <1>1, <1>6, <2>7, <2>8, TopIs, GrowsAgain
  <2>10. IsFiniteSet(DOMAIN tree')
    <3>1. IsFiniteSet(DOMAIN PartNote("If", p))
      BY BodyNoteFinite, FewFinite
    <3> QED BY <1>2, <1>8, <3>1, NoteFinite DEF Note
  <2>11. Put(EnterPart(rest, "If", p))
    BY <1>2, <1>8
  <2> QED BY <1>1, <2>9, <2>10, <2>11 DEF GoesOn, Put
<1> QED BY <1>7, <1>8

LEMMA StepCloseElse ==
  ASSUME Workers(compilers), IsFiniteSet(DOMAIN tree), CloseElse
  PROVE  GoesOn
<1>1. compilers # <<>> /\ Entry.kind \notin AnchorKinds /\ Put(Leave(PatchJump(Top, Entry.exit))) /\ tree' = tree
  BY DEF CloseElse, Closing, AnchorKinds
<1>2. Grows(Top, PatchJump(Top, Entry.exit)) /\ PatchJump(Top, Entry.exit).open = Top.open
  BY <1>1, TopIs, GrowsJump
<1> QED BY <1>1, <1>2, LeavesOne

-----------------------------------------------------------------------------
(* Loops.                                                                    *)

\* A compiler that goes on within the same statements.
Onward(c, d) == Grows(c, d) /\ IsCompiler(d) /\ d.open = c.open

LEMMA OnwardAgain ==
  ASSUME NEW c, NEW d, NEW e, IsCompiler(c), Onward(c, d), Onward(d, e)
  PROVE  Onward(c, e)
BY GrowsAgain DEF Onward

LEMMA OnwardSteps ==
  ASSUME NEW c, IsCompiler(c)
  PROVE  /\ Onward(c, c)
         /\ \A i : IsInstruction(i) => Onward(c, Emit(c, <<i>>))
         /\ \A s : IsText(s) => Onward(c, Emit(c, s))
         /\ \A js : Onward(c, PatchJumps(c, js)) /\ Onward(c, PatchJump(c, js))
         /\ Onward(c, ScopeBegin(c)) /\ Onward(c, ScopeEnd(c))
         /\ \A v : Onward(c, AddHiddenLocal(c, v))
         /\ \A start \in Nat : Onward(c, EmitLoop(c, start))
         /\ Onward(c, EndContinueJumpList(c)) /\ Onward(c, EndBreakJumpList(c))
<1>1. Onward(c, c)
  BY GrowsNot DEF Onward
<1>2. \A i : IsInstruction(i) => Onward(c, Emit(c, <<i>>))
  BY GrowsOne DEF Onward
<1>3. \A s : IsText(s) => Onward(c, Emit(c, s))
  BY GrowsEmit DEF Onward
<1>4. \A js : Onward(c, PatchJumps(c, js)) /\ Onward(c, PatchJump(c, js))
  BY GrowsPatch, GrowsJump DEF Onward
<1>5. Onward(c, ScopeBegin(c)) /\ Onward(c, ScopeEnd(c))
  BY GrowsBegin, GrowsEnd DEF Onward
<1>6. \A v : Onward(c, AddHiddenLocal(c, v))
  BY GrowsHidden DEF Onward
<1>7. ASSUME NEW start \in Nat
      PROVE  Onward(c, EmitLoop(c, start))
  <2> DEFINE n == Size(c) + 1 - start
             i == [I("JumpBack") EXCEPT !.arg = n]
  <2>1. n \in Int
    <3>1. Size(c) \in Nat
      BY CodeLen
    <3> QED BY <3>1
  <2> HIDE DEF n
  <2>2. IsInstruction(i)
    <3>1. IsInstruction(I("JumpBack"))
      BY PlainInstructions
    <3> QED BY <2>1, <3>1 DEF IsInstruction, Fields
  <2>3. EmitLoop(c, start) = Emit(c, <<i>>)
    BY DEF EmitLoop, n
  <2> QED BY <1>2, <2>2, <2>3
<1>8. Onward(c, EndContinueJumpList(c)) /\ Onward(c, EndBreakJumpList(c))
  BY <1>4 DEF EndContinueJumpList, EndBreakJumpList
<1> QED BY <1>1, <1>2, <1>3, <1>4, <1>5, <1>6, <1>7, <1>8

LEMMA EntersOnward ==
  ASSUME Workers(compilers), IsFiniteSet(DOMAIN tree), compilers # <<>>,
         NEW c, Onward(Top, c), NEW kind \in Loops \cup {"If"},
         NEW start \in Nat, NEW exit \in Nat, Put(EnterBody(c, kind, Here, start, exit)),
         NEW parts, IsFiniteSet(parts), Note(BodyNote(kind, Here, parts))
  PROVE  GoesOn
<1>1. kind \in StatementKinds /\ kind \notin AnchorKinds
  BY DEF StatementKinds, AnchorKinds, Loops
<1> QED BY <1>1, TopIs, Enters DEF Onward

LEMMA LeavesOnward ==
  ASSUME Workers(compilers), compilers # <<>>, Entry.kind \in Loops \cup {"If"},
         NEW c, Onward(Top, c), Put(Leave(c)), IsFiniteSet(DOMAIN tree')
  PROVE  GoesOn
<1>1. Entry.kind \notin AnchorKinds
  BY DEF AnchorKinds, Loops
<1> QED BY <1>1, LeavesOne DEF Onward

LEMMA StepOpenWhile ==
  ASSUME Workers(compilers), IsFiniteSet(DOMAIN tree), OpenWhile
  PROVE  GoesOn
<1> DEFINE q == Part(Here, Condition)
           c == Emit(Top, <<At(q), JumpIfFalse, Pop(1)>>)
<1>1. /\ compilers # <<>> /\ Put(EnterBody(c, "While", Here, Size(Top), Size(c) - 1))
      /\ Note(BodyNote("While", Here, {q}))
  BY DEF OpenWhile, Expected, Awaited
<1>2. q \in Path
  BY <1>1, TopIs DEF Condition
<1> HIDE DEF q
<1>3. Onward(Top, c) /\ Size(c) - 1 \in Nat
  BY <1>1, <1>2, TopIs, GrowsTest DEF Onward
<1> HIDE DEF c
<1>4. "While" \in Loops /\ IsFiniteSet({q}) /\ Size(Top) \in Nat
  BY <1>1, TopIs, FewFinite DEF Loops
<1> QED BY <1>1, <1>3, <1>4, EntersOnward

LEMMA EntryStart ==
  ASSUME Workers(compilers), compilers # <<>>
  PROVE  Entry.start \in Nat /\ Entry.exit \in Nat
BY TopIs DEF Statement

\* The way back to the start of a loop, and the way out of it.
LEMMA OnwardLoop ==
  ASSUME NEW c, IsCompiler(c), NEW start \in Nat, NEW exit
  PROVE  LET d == Emit(PatchJump(EmitLoop(c, start), exit), <<Pop(1)>>)
         IN  Onward(c, d) /\ IsCompiler(d)
<1> DEFINE c1 == EmitLoop(c, start)
           c2 == PatchJump(c1, exit)
           d == Emit(c2, <<Pop(1)>>)
<1>1. Onward(c, c1) /\ IsCompiler(c1)
  BY OnwardSteps DEF Onward
<1> HIDE DEF c1
<1>2. Onward(c1, c2) /\ IsCompiler(c2)
  BY <1>1, OnwardSteps DEF Onward
<1> HIDE DEF c2
<1>3. Onward(c2, d) /\ IsCompiler(d)
  BY <1>2, OtherInstructions, OnwardSteps DEF Onward
<1>4. Onward(c, d)
  BY <1>1, <1>2, <1>3, OnwardAgain
<1> QED BY <1>3, <1>4 DEF c2, c1

LEMMA StepCloseWhile ==
  ASSUME Workers(compilers), IsFiniteSet(DOMAIN tree), CloseWhile
  PROVE  GoesOn
<1> DEFINE c1 == EndContinueJumpList(Top)
           out == Emit(PatchJump(EmitLoop(c1, Entry.start), Entry.exit), <<Pop(1)>>)
           d == EndBreakJumpList(out)
<1>1. compilers # <<>> /\ Entry.kind \in Loops \cup {"If"} /\ Put(Leave(d)) /\ tree' = tree
  BY DEF CloseWhile, Closing, Loops
<1>2. Onward(Top, c1) /\ IsCompiler(c1) /\ IsCompiler(Top)
  BY <1>1, TopIs, OnwardSteps DEF Onward
<1> HIDE DEF c1
<1>3. Onward(c1, out) /\ IsCompiler(out)
  BY <1>1, <1>2, EntryStart, OnwardLoop
<1> HIDE DEF out
<1>4. Onward(out, d)
  BY <1>3, OnwardSteps
<1> HIDE DEF d
<1>5. Onward(Top, d)
  BY <1>2, <1>3, <1>4, OnwardAgain
<1> QED BY <1>1, <1>5, LeavesOnward

LEMMA StepOpenDoWhile ==
  ASSUME Workers(compilers), IsFiniteSet(DOMAIN tree), OpenDoWhile
  PROVE  GoesOn
<1>1. /\ compilers # <<>> /\ Put(EnterBody(Top, "DoWhile", Here, Size(Top), 0))
      /\ Note(BodyNote("DoWhile", Here, {}))
  BY DEF OpenDoWhile, Expected, Awaited
<1>2. "DoWhile" \in Loops /\ IsFiniteSet({}) /\ Size(Top) \in Nat /\ Onward(Top, Top)
  BY <1>1, TopIs, FewFinite, OnwardSteps DEF Loops
<1> QED BY <1>1, <1>2, EntersOnward

LEMMA StepCloseDoWhile ==
  ASSUME Workers(compilers), IsFiniteSet(DOMAIN tree), CloseDoWhile
  PROVE  GoesOn
<1> DEFINE p == Part(Entry.at, Condition)
           c1 == EndContinueJumpList(Top)
           test == Emit(c1, <<At(p), JumpIfFalse, Pop(1)>>)
           out == Emit(PatchJump(EmitLoop(test, Entry.start), Size(test) - 1), <<Pop(1)>>)
           d == EndBreakJumpList(out)
<1>1. /\ compilers # <<>> /\ Entry.kind \in Loops \cup {"If"} /\ Put(Leave(d))
      /\ Note(Each({p}, "Part"))
  BY DEF CloseDoWhile, Closing, Loops
<1>2. Onward(Top, c1) /\ IsCompiler(c1) /\ IsCompiler(Top) /\ p \in Path
  BY <1>1, TopIs, OnwardSteps DEF Onward, Condition
<1> HIDE DEF p, c1
<1>3. Onward(c1, test) /\ IsCompiler(test)
  BY <1>2, GrowsTest DEF Onward
<1> HIDE DEF test
<1>4. Onward(test, out) /\ IsCompiler(out)
  BY <1>1, <1>3, EntryStart, OnwardLoop
<1> HIDE DEF out
<1>5. Onward(out, d)
  BY <1>4, OnwardSteps
<1> HIDE DEF d
<1>6. Onward(Top, d)
  BY <1>2, <1>3, <1>4, <1>5, OnwardAgain
<1>7. IsFiniteSet(DOMAIN tree')
  BY <1>1, NoteFinite, FewFinite DEF Note
<1> QED BY <1>1, <1>6, <1>7, LeavesOnward

LEMMA StepOpenFor ==
  ASSUME Workers(compilers), IsFiniteSet(DOMAIN tree), NEW kind \in {"For", "ForVar"},
         NEW condition \in BOOLEAN, NEW increment \in BOOLEAN, OpenFor(kind, condition, increment)
  PROVE  GoesOn
<1> DEFINE p == Here
           begun == ScopeBegin(Top)
           first == IF kind = "ForVar" THEN Variable(begun, Part(p, Initializer)) ELSE begun
           test == IF condition
                   THEN Emit(first, <<At(Part(p, Condition)), JumpIfFalse, Pop(1)>>) ELSE first
           n == Size(test)
           jump == <<Jump, At(Part(p, Again)), Pop(1)>>
           c1 == Emit(test, jump)
           c2 == EmitLoop(c1, Size(first))
           step == PatchJump(c2, n + 1)
           parts == (IF kind = "ForVar" THEN {Part(p, Initializer)} ELSE {})
                    \cup (IF condition THEN {Part(p, Condition)} ELSE {})
                    \cup (IF increment THEN {Part(p, Again)} ELSE {})
<1>1. /\ compilers # <<>> /\ (condition \/ increment)
      /\ Put(IF increment THEN EnterBody(step, kind, p, n + 1, IF condition THEN n - 1 ELSE 0)
                          ELSE EnterBody(test, kind, p, Size(first), n - 1))
      /\ Note(BodyNote(kind, p, parts))
  BY DEF OpenFor, Expected, Awaited
<1>2. /\ IsCompiler(Top) /\ Part(p, Initializer) \in Path /\ Part(p, Condition) \in Path
      /\ Part(p, Again) \in Path
  BY <1>1, TopIs DEF Initializer, Condition, Again
<1>3. Onward(Top, begun) /\ IsCompiler(begun)
  BY <1>2, OnwardSteps DEF Onward
<1> HIDE DEF begun
<1>4. Onward(begun, first) /\ IsCompiler(first)
  BY <1>2, <1>3, GrowsVariable, GrowsNot DEF Onward
<1> HIDE DEF first
<1>5. /\ Onward(first, test) /\ IsCompiler(test) /\ n \in Nat /\ (condition => n - 1 \in Nat)
      /\ Size(first) \in Nat
  <2>1. CASE condition
    BY <1>2, <1>4, <2>1, GrowsTest DEF Onward
  <2>2. CASE ~condition
    <3>1. Size(first) \in Nat
      BY <1>4, CodeLen
    <3> QED BY <1>4, <2>2, <3>1, OnwardSteps
  <2> QED BY <2>1, <2>2
<1> HIDE DEF test, n
<1>6. IsText(jump)
  BY <1>2, OtherInstructions, TextOfThree
<1> HIDE DEF jump
<1>7. Onward(test, c1) /\ IsCompiler(c1)
  BY <1>5, <1>6, OnwardSteps DEF Onward
<1> HIDE DEF c1
<1>8. Onward(c1, c2) /\ IsCompiler(c2)
  BY <1>5, <1>7, OnwardSteps DEF Onward
<1> HIDE DEF c2
<1>9. Onward(c2, step)
  BY <1>8, OnwardSteps
<1> HIDE DEF step
<1>10. Onward(Top, test)
  BY <1>2, <1>3, <1>4, <1>5, OnwardAgain
<1>11. Onward(Top, step)
  BY <1>2, <1>7, <1>8, <1>9, <1>10, OnwardAgain
<1>12. IsFiniteSet(parts)
  <2> DEFINE a == IF kind = "ForVar" THEN {Part(p, Initializer)} ELSE {}
             b == IF condition THEN {Part(p, Condition)} ELSE {}
             c == IF increment THEN {Part(p, Again)} ELSE {}
  <2>1. IsFiniteSet(a) /\ IsFiniteSet(b) /\ IsFiniteSet(c)
    BY FewFinite
  <2> HIDE DEF a, b, c
  <2>2. IsFiniteSet(a \cup b)
    BY <2>1, FS_Union
  <2>3. IsFiniteSet((a \cup b) \cup c)
    BY <2>1, <2>2, FS_Union
  <2> QED BY <2>3 DEF a, b, c
<1> HIDE DEF parts
<1>13. kind \in Loops \cup {"If"}
  BY DEF Loops
<1>14. CASE increment
  <2> DEFINE exit == IF condition THEN n - 1 ELSE 0
  <2>1. exit \in Nat /\ n + 1 \in Nat
    BY <1>5
  <2>2. Put(EnterBody(step, kind, Here, n + 1, exit))
    BY <1>1, <1>14
  <2> HIDE DEF exit
  <2> QED BY <1>1, <1>11, <1>12, <1>13, <2>1, <2>2, EntersOnward
<1>15. CASE ~increment
  <2>1. n - 1 \in Nat
    BY <1>1, <1>5, <1>15
  <2>2. Put(EnterBody(test, kind, Here, Size(first), n - 1))
    BY <1>1, <1>15
  <2> QED BY <1>1, <1>5, <1>10, <1>12, <1>13, <2>1, <2>2, EntersOnward
<1> QED BY <1>14, <1>15

LEMMA StepCloseFor ==
  ASSUME Workers(compilers), IsFiniteSet(DOMAIN tree), CloseFor
  PROVE  GoesOn
<1> DEFINE c1 == EndContinueJumpList(Top)
           looped == EmitLoop(c1, Entry.start)
           out == IF Entry.exit = 0 THEN looped
                  ELSE Emit(PatchJump(looped, Entry.exit), <<Pop(1)>>)
           c2 == EndBreakJumpList(out)
           d == ScopeEnd(c2)
<1>1. compilers # <<>> /\ Entry.kind \in Loops \cup {"If"} /\ Put(Leave(d)) /\ tree' = tree
  BY DEF CloseFor, Closing, Loops
<1>2. Onward(Top, c1) /\ IsCompiler(c1) /\ IsCompiler(Top)
  BY <1>1, TopIs, OnwardSteps DEF Onward
<1> HIDE DEF c1
<1>3. Onward(c1, out) /\ IsCompiler(out)
  <2>1. Onward(c1, looped) /\ IsCompiler(looped)
    BY <1>1, <1>2, EntryStart, OnwardSteps DEF Onward
  <2>2. Onward(c1, Emit(PatchJump(looped, Entry.exit), <<Pop(1)>>))
    BY <1>1, <1>2, EntryStart, OnwardLoop
  <2> HIDE DEF looped
  <2> QED BY <2>1, <2>2 DEF Onward
<1> HIDE DEF out
<1>4. Onward(out, c2) /\ IsCompiler(c2)
  BY <1>3, OnwardSteps DEF Onward
<1> HIDE DEF c2
<1>5. Onward(c2, d)
  BY <1>4, OnwardSteps
<1> HIDE DEF d
<1>6. Onward(Top, d)
  BY <1>2, <1>3, <1>4, <1>5, OnwardAgain
<1> QED BY <1>1, <1>6, LeavesOnward

LEMMA TextOfEight ==
  ASSUME NEW a, NEW b, NEW c, NEW d, NEW e, NEW f, NEW g, NEW h,
         IsInstruction(a), IsInstruction(b), IsInstruction(c), IsInstruction(d),
         IsInstruction(e), IsInstruction(f), IsInstruction(g), IsInstruction(h)
  PROVE  IsText(<<a, b, c, d, e, f, g, h>>)
<1> DEFINE s == <<a, b, c, d, e, f, g, h>>
<1>1. /\ s \in Seq({a, b, c, d, e, f, g, h}) /\ Len(s) = 8
      /\ s[1] = a /\ s[2] = b /\ s[3] = c /\ s[4] = d
      /\ s[5] = e /\ s[6] = f /\ s[7] = g /\ s[8] = h
  OBVIOUS
<1> HIDE DEF s
<1>2. IsSeq(s)
  BY <1>1, SeqTyped
<1>3. \A i \in 1 .. 8 : i = 1 \/ i = 2 \/ i = 3 \/ i = 4 \/ i = 5 \/ i = 6 \/ i = 7 \/ i = 8
  OBVIOUS
<1>4. IsText(s)
  BY <1>1, <1>2, <1>3 DEF IsText
<1> QED BY <1>4 DEF s

LEMMA TextOfSix ==
  ASSUME NEW a, NEW b, NEW c, NEW d, NEW e, NEW f,
         IsInstruction(a), IsInstruction(b), IsInstruction(c), IsInstruction(d),
         IsInstruction(e), IsInstruction(f)
  PROVE  IsText(<<a, b, c, d, e, f>>)
<1> DEFINE s == <<a, b, c, d, e, f>>
<1>1. /\ s \in Seq({a, b, c, d, e, f}) /\ Len(s) = 6
      /\ s[1] = a /\ s[2] = b /\ s[3] = c /\ s[4] = d /\ s[5] = e /\ s[6] = f
  OBVIOUS
<1> HIDE DEF s
<1>2. IsSeq(s)
  BY <1>1, SeqTyped
<1>3. \A i \in 1 .. 6 : i = 1 \/ i = 2 \/ i = 3 \/ i = 4 \/ i = 5 \/ i = 6
  OBVIOUS
<1>4. IsText(s)
  BY <1>1, <1>2, <1>3 DEF IsText
<1> QED BY <1>4 DEF s

LEMMA StepOpenForEach ==
  ASSUME Workers(compilers), IsFiniteSet(DOMAIN tree), OpenForEach
  PROVE  GoesOn
<1> DEFINE p == Here
           object == Part(p, Condition)
           state == Part(p, Again)
           begun == ScopeBegin(Top)
           b1 == Emit(begun, <<Making(At(object), object)>>)
           c1 == AddHiddenLocal(b1, object)
           b2 == Emit(c1, <<Making(Value, state)>>)
           c2 == AddHiddenLocal(b2, state)
           get == <<Local("GetLocal", c2, object), Local("GetLocal", c2, state)>>
           text == <<Placed(get[1], state), get[2], I("Call"), Local("SetLocal", c2, state),
                     Value, I("Equal"), JumpIfFalse, Pop(1)>> \o get \o <<Making(I("Call"), p)>>
           c3 == Emit(c2, text)
           b4 == ScopeBegin(c3)
           c4 == AddHiddenLocal(b4, p)
<1>1. /\ compilers # <<>> /\ Put(EnterBody(c4, "ForEach", Here, Size(c2), Size(c2) + 7))
      /\ Note(BodyNote("ForEach", Here, {object, state}))
  BY DEF OpenForEach, Expected, Awaited
<1>2. IsCompiler(Top) /\ p \in Path /\ object \in Path /\ state \in Path
  BY <1>1, TopIs DEF Condition, Again
<1> HIDE DEF object, state
<1>3. Onward(Top, begun) /\ IsCompiler(begun)
  BY <1>2, OnwardSteps DEF Onward
<1> HIDE DEF begun
<1>4. Onward(begun, b1) /\ IsCompiler(b1)
  <2>1. IsInstruction(Making(At(object), object))
    BY <1>2, OtherInstructions, PlainInstructions
  <2> QED BY <1>3, <2>1, OnwardSteps DEF Onward
<1> HIDE DEF b1
<1>5. Onward(b1, c1) /\ IsCompiler(c1)
  BY <1>4, OnwardSteps DEF Onward
<1> HIDE DEF c1
<1>6. Onward(c1, b2) /\ IsCompiler(b2)
  <2>1. IsInstruction(Making(Value, state))
    BY <1>2, OtherInstructions, PlainInstructions
  <2> QED BY <1>5, <2>1, OnwardSteps DEF Onward
<1> HIDE DEF b2
<1>7. Onward(b2, c2) /\ IsCompiler(c2) /\ Size(c2) \in Nat
  BY <1>6, CodeLen, OnwardSteps DEF Onward
<1> HIDE DEF c2
<1>8. IsText(text)
  <2> DEFINE g1 == Local("GetLocal", c2, object)
             g2 == Local("GetLocal", c2, state)
             s1 == Local("SetLocal", c2, state)
  <2>1. IsInstruction(g1) /\ IsInstruction(g2) /\ IsInstruction(s1)
    BY <1>2, LocalInstructions
  <2>2. get[1] = g1 /\ get[2] = g2
    OBVIOUS
  <2>3. IsText(get)
    BY <2>1, TextOfTwo
  <2> HIDE DEF g1, g2, s1, get
  <2>4. IsInstruction(Placed(g1, state)) /\ IsInstruction(I("Call")) /\ IsInstruction(Value)
        /\ IsInstruction(I("Equal")) /\ IsInstruction(JumpIfFalse) /\ IsInstruction(Pop(1))
        /\ IsInstruction(Making(I("Call"), p))
    BY <1>2, <2>1, OtherInstructions, PlainInstructions
  <2>5. IsText(<<Placed(get[1], state), get[2], I("Call"), Local("SetLocal", c2, state),
                 Value, I("Equal"), JumpIfFalse, Pop(1)>>)
    <3>1. IsText(<<Placed(g1, state), g2, I("Call"), s1, Value, I("Equal"), JumpIfFalse, Pop(1)>>)
      BY <2>1, <2>4, TextOfEight
    <3> QED BY <2>2, <3>1 DEF s1
  <2>6. IsText(<<Making(I("Call"), p)>>)
    BY <2>4, TextOfOne
  <2> QED BY <2>3, <2>5, <2>6, TextConcat
<1> HIDE DEF text
<1>9. Onward(c2, c3) /\ IsCompiler(c3)
  BY <1>7, <1>8, OnwardSteps DEF Onward
<1> HIDE DEF c3
<1>10. Onward(c3, b4) /\ IsCompiler(b4)
  BY <1>9, OnwardSteps DEF Onward
<1> HIDE DEF b4
<1>11. Onward(b4, c4)
  BY <1>10, OnwardSteps DEF Onward
<1> HIDE DEF c4
<1>12. Onward(Top, c2)
  BY <1>2, <1>3, <1>4, <1>5, <1>6, <1>7, OnwardAgain
<1>13. Onward(Top, c4)
  BY <1>2, <1>9, <1>10, <1>11, <1>12, OnwardAgain
<1>14. "ForEach" \in Loops /\ Size(c2) + 7 \in Nat
  BY <1>7 DEF Loops
<1>15. IsFiniteSet({object, state})
  BY FewFinite, Zenon
<1> QED BY <1>1, <1>7, <1>13, <1>14, <1>15, EntersOnward

LEMMA StepCloseForEach ==
  ASSUME Workers(compilers), IsFiniteSet(DOMAIN tree), CloseForEach
  PROVE  GoesOn
<1> DEFINE c0 == ScopeEnd(Top)
           c1 == EndContinueJumpList(c0)
           out == Emit(PatchJump(EmitLoop(c1, Entry.start), Entry.exit), <<Pop(1)>>)
           c2 == EndBreakJumpList(out)
           d == ScopeEnd(c2)
<1>1. compilers # <<>> /\ Entry.kind \in Loops \cup {"If"} /\ Put(Leave(d)) /\ tree' = tree
  BY DEF CloseForEach, Closing, Loops
<1>2. Onward(Top, c0) /\ IsCompiler(c0) /\ IsCompiler(Top)
  BY <1>1, TopIs, OnwardSteps DEF Onward
<1> HIDE DEF c0
<1>3. Onward(c0, c1) /\ IsCompiler(c1)
  BY <1>2, OnwardSteps DEF Onward
<1> HIDE DEF c1
<1>4. Onward(c1, out) /\ IsCompiler(out)
  BY <1>1, <1>3, EntryStart, OnwardLoop
<1> HIDE DEF out
<1>5. Onward(out, c2) /\ IsCompiler(c2)
  BY <1>4, OnwardSteps DEF Onward
<1> HIDE DEF c2
<1>6. Onward(c2, d)
  BY <1>5, OnwardSteps
<1> HIDE DEF d
<1>7. Onward(Top, d)
  BY <1>2, <1>3, <1>4, <1>5, <1>6, OnwardAgain
<1> QED BY <1>1, <1>7, LeavesOnward

LEMMA StepOpenRepeat ==
  ASSUME Workers(compilers), IsFiniteSet(DOMAIN tree), NEW kind \in {"Repeat", "RepeatVar"},
         OpenRepeat(kind)
  PROVE  GoesOn
<1> DEFINE p == Here
           count == Part(p, Condition)
           again == Part(p, Again)
           begun == ScopeBegin(Top)
           b1 == Emit(begun, <<Making(At(count), count)>>)
           a1 == AddHiddenLocal(b1, count)
           c1 == Emit(a1, <<I("Change")>>)
           b2 == Emit(c1, <<Making(Value, p)>>)
           c2 == AddHiddenLocal(b2, p)
           short == <<Placed(I("Change"), again), JumpIfFalse>>
           plain == Emit(c1, short)
           long == <<Placed(Local("GetLocal", c2, count), again), I("Change"),
                     JumpIfFalse, Local("SetLocal", c2, count), Pop(1), I("Change")>>
           named == Emit(c2, long)
<1>1. /\ compilers # <<>>
      /\ Put(IF kind = "Repeat" THEN EnterBody(plain, kind, p, Size(c1), Size(plain))
                                ELSE EnterBody(named, kind, p, Size(c2), Size(c2) + 3))
      /\ Note(BodyNote(kind, Here, {count, again}))
  BY DEF OpenRepeat, Expected, Awaited
<1>2. IsCompiler(Top) /\ p \in Path /\ count \in Path /\ again \in Path
  BY <1>1, TopIs DEF Condition, Again
<1> HIDE DEF count, again
<1>3. Onward(Top, begun) /\ IsCompiler(begun)
  BY <1>2, OnwardSteps DEF Onward
<1> HIDE DEF begun
<1>4. Onward(begun, b1) /\ IsCompiler(b1)
  <2>1. IsInstruction(Making(At(count), count))
    BY <1>2, OtherInstructions, PlainInstructions
  <2> QED BY <1>3, <2>1, OnwardSteps DEF Onward
<1> HIDE DEF b1
<1>5. Onward(b1, a1) /\ IsCompiler(a1)
  BY <1>4, OnwardSteps DEF Onward
<1> HIDE DEF a1
<1>6. Onward(a1, c1) /\ IsCompiler(c1) /\ Size(c1) \in Nat
  <2>1. IsInstruction(I("Change"))
    BY PlainInstructions
  <2> QED BY <1>5, <2>1, CodeLen, OnwardSteps DEF Onward
<1> HIDE DEF c1
<1>7. Onward(c1, b2) /\ IsCompiler(b2)
  <2>1. IsInstruction(Making(Value, p))
    BY <1>2, OtherInstructions, PlainInstructions
  <2> QED BY <1>6, <2>1, OnwardSteps DEF Onward
<1> HIDE DEF b2
<1>8. Onward(b2, c2) /\ IsCompiler(c2) /\ Size(c2) \in Nat
  BY <1>7, CodeLen, OnwardSteps DEF Onward
<1> HIDE DEF c2
<1>9. IsText(short) /\ IsText(long)
  <2> DEFINE g1 == Local("GetLocal", c2, count)
             s1 == Local("SetLocal", c2, count)
  <2>1. IsInstruction(g1) /\ IsInstruction(s1)
    BY <1>2, LocalInstructions
  <2> HIDE DEF g1, s1
  <2>2. IsInstruction(Placed(I("Change"), again)) /\ IsInstruction(Placed(g1, again))
        /\ IsInstruction(I("Change")) /\ IsInstruction(JumpIfFalse) /\ IsInstruction(Pop(1))
    BY <1>2, <2>1, OtherInstructions, PlainInstructions
  <2>3. IsText(short)
    BY <2>2, TextOfTwo
  <2>4. IsText(<<Placed(g1, again), I("Change"), JumpIfFalse, s1, Pop(1), I("Change")>>)
    BY <2>1, <2>2, TextOfSix
  <2> QED BY <2>3, <2>4 DEF g1, s1
<1> HIDE DEF short, long
<1>10. Onward(c1, plain) /\ Onward(c2, named) /\ Size(plain) \in Nat
  BY <1>6, <1>8, <1>9, CodeLen, OnwardSteps DEF Onward
<1> HIDE DEF plain, named
<1>11. Onward(Top, c1)
  BY <1>2, <1>3, <1>4, <1>5, <1>6, OnwardAgain
<1>12. Onward(Top, plain) /\ Onward(Top, named)
  BY <1>2, <1>7, <1>8, <1>10, <1>11, OnwardAgain
<1>13. kind \in Loops \cup {"If"} /\ IsFiniteSet({count, again})
  BY FewFinite DEF Loops
<1>14. CASE kind = "Repeat"
  <2>1. Put(EnterBody(plain, kind, Here, Size(c1), Size(plain)))
    BY <1>1, <1>14
  <2> QED BY <1>1, <1>6, <1>10, <1>12, <1>13, <2>1, EntersOnward
<1>15. CASE kind = "RepeatVar"
  <2>1. Put(EnterBody(named, kind, Here, Size(c2), Size(c2) + 3)) /\ Size(c2) + 3 \in Nat
    BY <1>1, <1>8, <1>15
  <2> QED BY <1>1, <1>8, <1>12, <1>13, <2>1, EntersOnward
<1> QED BY <1>14, <1>15

LEMMA StepCloseRepeat ==
  ASSUME Workers(compilers), IsFiniteSet(DOMAIN tree), CloseRepeat
  PROVE  GoesOn
<1> DEFINE c1 == EndContinueJumpList(Top)
           looped == EmitLoop(c1, Entry.start)
           c2 == PatchJump(looped, Entry.exit)
           s == IF Entry.kind = "RepeatVar" THEN <<Pop(1)>> ELSE <<>>
           out == Emit(c2, s)
           c3 == EndBreakJumpList(out)
           d == ScopeEnd(c3)
<1>1. compilers # <<>> /\ Entry.kind \in Loops \cup {"If"} /\ Put(Leave(d)) /\ tree' = tree
  BY DEF CloseRepeat, Closing, Loops
<1>2. Onward(Top, c1) /\ IsCompiler(c1) /\ IsCompiler(Top)
  BY <1>1, TopIs, OnwardSteps DEF Onward
<1> HIDE DEF c1
<1>3. Onward(c1, looped) /\ IsCompiler(looped)
  BY <1>1, <1>2, EntryStart, OnwardSteps DEF Onward
<1> HIDE DEF looped
<1>4. Onward(looped, c2) /\ IsCompiler(c2)
  BY <1>3, OnwardSteps DEF Onward
<1> HIDE DEF c2
<1>5. IsText(s)
  BY OtherInstructions, TextOfOne, SeqEmpty DEF IsText
<1> HIDE DEF s
<1>6. Onward(c2, out) /\ IsCompiler(out)
  BY <1>4, <1>5, OnwardSteps DEF Onward
<1> HIDE DEF out
<1>7. Onward(out, c3) /\ IsCompiler(c3)
  BY <1>6, OnwardSteps DEF Onward
<1> HIDE DEF c3
<1>8. Onward(c3, d)
  BY <1>7, OnwardSteps
<1> HIDE DEF d
<1>9. Onward(Top, d)
  BY <1>2, <1>3, <1>4, <1>6, <1>7, <1>8, OnwardAgain
<1> QED BY <1>1, <1>9, LeavesOnward

LEMMA StepOpenWith ==
  ASSUME Workers(compilers), IsFiniteSet(DOMAIN tree), NEW as \in BOOLEAN, OpenWith(as)
  PROVE  GoesOn
<1> DEFINE p == Here
           begun == ScopeBegin(Top)
           b1 == Emit(begun, <<Making(Value, p)>>)
           c1 == AddHiddenLocal(b1, p)
           this == <<Local("GetLocal", c1, <<Top.fn>>), Local("SetLocal", c1, p), Pop(1)>>
           c2 == IF HasThis(Top) THEN Emit(c1, this) ELSE c1
           owner == IF as \/ ~HasThis(Top) THEN p ELSE <<Top.fn>>
           init == [Local("WithInit", c2, owner) EXCEPT !.of = p]
           c3 == Emit(c2, <<At(Part(p, Condition)), init>>)
           parts == {Part(p, Condition), Part(p, Again)}
<1>1. /\ compilers # <<>> /\ Put(EnterBody(c3, "With", Here, Size(c3), Size(c3)))
      /\ Note(BodyNote("With", Here, parts))
  BY DEF OpenWith, Expected, Awaited
<1>2. /\ IsCompiler(Top) /\ p \in Path /\ Part(p, Condition) \in Path /\ <<Top.fn>> \in Path
      /\ IsFiniteSet(parts)
  <2>1. Top.fn \in Nat
    BY <1>1, TopIs DEF IsCompiler
  <2>2. <<Top.fn>> \in Path
    BY <2>1 DEF Path
  <2>3. IsFiniteSet(parts)
    BY FewFinite, Zenon
  <2>4. IsCompiler(Top) /\ p \in Path /\ Part(p, Condition) \in Path
    BY <1>1, TopIs DEF Condition
  <2> QED BY <2>2, <2>3, <2>4
<1> HIDE DEF parts
<1>3. Onward(Top, begun) /\ IsCompiler(begun)
  BY <1>2, OnwardSteps DEF Onward
<1> HIDE DEF begun
<1>4. Onward(begun, b1) /\ IsCompiler(b1)
  <2>1. IsInstruction(Making(Value, p))
    BY <1>2, OtherInstructions, PlainInstructions
  <2> QED BY <1>3, <2>1, OnwardSteps DEF Onward
<1> HIDE DEF b1
<1>5. Onward(b1, c1) /\ IsCompiler(c1)
  BY <1>4, OnwardSteps DEF Onward
<1> HIDE DEF c1
<1>6. IsText(this)
  <2>1. IsInstruction(Local("GetLocal", c1, <<Top.fn>>)) /\ IsInstruction(Local("SetLocal", c1, p))
    BY <1>2, LocalInstructions
  <2> QED BY <2>1, OtherInstructions, TextOfThree
<1> HIDE DEF this
<1>7. Onward(c1, c2) /\ IsCompiler(c2)
  BY <1>5, <1>6, OnwardSteps DEF Onward
<1> HIDE DEF c2
<1>8. IsInstruction(init)
  <2>1. owner \in Path
    BY <1>2
  <2> HIDE DEF owner
  <2>2. IsInstruction(Local("WithInit", c2, owner))
    BY <2>1, LocalInstructions
  <2> QED BY <1>2, <2>2 DEF IsInstruction, Fields
<1> HIDE DEF init
<1>9. IsText(<<At(Part(p, Condition)), init>>)
  BY <1>2, <1>8, OtherInstructions, TextOfTwo
<1>10. Onward(c2, c3) /\ Size(c3) \in Nat
  BY <1>7, <1>9, CodeLen, OnwardSteps DEF Onward
<1> HIDE DEF c3
<1>11. Onward(Top, c3)
  BY <1>2, <1>3, <1>4, <1>5, <1>7, <1>10, OnwardAgain
<1>12. "With" \in Loops
  BY DEF Loops
<1> QED BY <1>1, <1>2, <1>10, <1>11, <1>12, EntersOnward

LEMMA StepCloseWith ==
  ASSUME Workers(compilers), IsFiniteSet(DOMAIN tree), CloseWith
  PROVE  GoesOn
<1> DEFINE p == Entry.at
           c1 == EndContinueJumpList(Top)
           n == Size(c1) + 1 - Entry.start
           iterate == [Placed(I("WithIterate"), Part(p, Again)) EXCEPT !.of = p, !.arg = n]
           c2 == Emit(c1, <<iterate>>)
           b3 == EndBreakJumpList(c2)
           finish == [I("WithFinish") EXCEPT !.of = p]
           c3 == Emit(b3, <<finish>>)
           c4 == PatchJump(c3, Entry.exit)
           d == ScopeEnd(c4)
<1>1. compilers # <<>> /\ Entry.kind \in Loops \cup {"If"} /\ Put(Leave(d)) /\ tree' = tree
  BY DEF CloseWith, Closing, Loops
<1>2. /\ Onward(Top, c1) /\ IsCompiler(c1) /\ IsCompiler(Top) /\ p \in Path /\ Part(p, Again) \in Path
      /\ Entry.start \in Nat
  BY <1>1, TopIs, OnwardSteps DEF Onward, Again, Statement
<1>3. n \in Int
  <2>1. Size(c1) \in Nat
    BY <1>2, CodeLen
  <2> QED BY <1>2, <2>1
<1> HIDE DEF c1, p, n
<1>4. IsInstruction(iterate) /\ IsInstruction(finish)
  <2>1. IsInstruction(Placed(I("WithIterate"), Part(p, Again))) /\ IsInstruction(I("WithFinish"))
    BY <1>2, PlainInstructions
  <2> QED BY <1>2, <1>3, <2>1 DEF IsInstruction, Fields
<1> HIDE DEF iterate, finish
<1>5. Onward(c1, c2) /\ IsCompiler(c2)
  BY <1>2, <1>4, OnwardSteps DEF Onward
<1> HIDE DEF c2
<1>6. Onward(c2, b3) /\ IsCompiler(b3)
  BY <1>5, OnwardSteps DEF Onward
<1> HIDE DEF b3
<1>7. Onward(b3, c3) /\ IsCompiler(c3)
  BY <1>4, <1>6, OnwardSteps DEF Onward
<1> HIDE DEF c3
<1>8. Onward(c3, c4) /\ IsCompiler(c4)
  BY <1>7, OnwardSteps DEF Onward
<1> HIDE DEF c4
<1>9. Onward(c4, d)
  BY <1>8, OnwardSteps
<1> HIDE DEF d
<1>10. Onward(Top, d)
  BY <1>2, <1>5, <1>6, <1>7, <1>8, <1>9, OnwardAgain
<1> QED BY <1>1, <1>10, LeavesOnward

LEMMA StepOpenClass ==
  ASSUME Workers(compilers), IsFiniteSet(DOMAIN tree), OpenClass
  PROVE  GoesOn
<1> DEFINE c1 == Emit(Top, <<Making(At(Here), Here)>>)
           c2 == DeclareVariable(c1, Here, Top.depth)
           c == DefineVariable(c2)
           d == Enter(c, "Class", Here, 1, 0, 0)
<1>1. compilers # <<>> /\ Put(d) /\ Note(Each({Here}, "Class"))
  BY DEF OpenClass, Expected, Awaited
<1>2. IsCompiler(Top) /\ Here \in Path /\ IsInstruction(Making(At(Here), Here))
  BY <1>1, TopIs, OtherInstructions, PlainInstructions
<1>3. Grows(Top, c1) /\ IsCompiler(c1)
  BY <1>2, GrowsOne
<1> HIDE DEF c1
<1>4. Grows(c1, c2) /\ IsCompiler(c2)
  BY <1>3, GrowsDeclare
<1> HIDE DEF c2
<1>5. Grows(c2, c) /\ IsCompiler(c)
  BY <1>4, GrowsDefine
<1> HIDE DEF c
<1>6. Grows(c, d)
  <2>1. "Class" \in StatementKinds
    BY DEF StatementKinds
  <2> QED BY <1>2, <1>5, <2>1, GrowsEnter DEF AnchorKinds
<1>7. Grows(Top, d)
  BY <1>2, <1>3, <1>4, <1>5, <1>6, GrowsAgain
<1>8. IsFiniteSet(DOMAIN tree')
  BY <1>1, NoteFinite, FewFinite DEF Note
<1> QED BY <1>1, <1>7, <1>8 DEF GoesOn, Put

LEMMA StepCloseClass ==
  ASSUME Workers(compilers), IsFiniteSet(DOMAIN tree), CloseClass
  PROVE  GoesOn
<1>1. compilers # <<>> /\ Entry.kind \notin AnchorKinds /\ Put(Leave(Top)) /\ tree' = tree
  BY DEF CloseClass, AnchorKinds
<1>2. Grows(Top, Top)
  BY <1>1, TopIs, GrowsNot
<1> QED BY <1>1, <1>2, LeavesOne

-----------------------------------------------------------------------------
(* Breakpoints.                                                              *)

\* The last list belongs to the innermost compiler, to the last of its
\* statements that have one.
LEMMA LastList ==
  ASSUME NEW cs, NEW kinds, NEW n, NEW who, NEW where, Belong(cs, kinds, n, who, where),
         Len(cs) \in Nat, NEW m \in Nat, Owned(cs, kinds, Len(cs), m)
  PROVE  /\ n \in Nat /\ n \in 1 .. n /\ who[n] = Len(cs) /\ where[n] \in Nat
         /\ Owned(cs, kinds, Len(cs), where[n])
         /\ \A j \in Nat : Owned(cs, kinds, Len(cs), j) => j <= where[n]
<1>1. ASSUME NEW j \in Nat, Owned(cs, kinds, Len(cs), j)
      PROVE  n \in Nat /\ n \in 1 .. n /\ who[n] = Len(cs) /\ where[n] \in Nat /\ j <= where[n]
             /\ Owned(cs, kinds, Len(cs), where[n])
  <2>1. PICK k \in 1 .. n : who[k] = Len(cs) /\ where[k] = j
    BY <1>1 DEF Belong
  <2>2. n \in Nat /\ n \in 1 .. n /\ (k < n \/ k = n)
    <3>1. n \in Nat
      BY DEF Belong
    <3> QED BY <3>1
  <2>3. who[n] \in Nat /\ where[n] \in Nat /\ Owned(cs, kinds, who[n], where[n])
    BY <2>2 DEF Belong
  <2>4. who[n] <= Len(cs)
    BY <2>3 DEF Owned
  <2>5. k < n => Inner(Len(cs), j, who[n], where[n])
    BY <2>1, <2>2 DEF Belong
  <2> QED BY <2>1, <2>2, <2>3, <2>4, <2>5 DEF Inner
<1> QED BY <1>1

\* The innermost function has a list, and each of its switches.
LEMMA OwnedByTop ==
  ASSUME NEW cs, Workers(cs), cs # <<>>
  PROVE  /\ Len(cs) \in Nat \ {0} /\ IsWorker(cs[Len(cs)]) /\ Last(cs) = cs[Len(cs)]
         /\ Owned(cs, ListKinds, Len(cs), 1)
         /\ \A j \in Nat : InCases(cs[Len(cs)], j) <=> Owned(cs, {"Cases"}, Len(cs), j)
         /\ \A j \in Nat : InCases(cs[Len(cs)], j) => Owned(cs, ListKinds, Len(cs), j)
<1>1. Len(cs) \in Nat \ {0} /\ Len(cs) \in 1 .. Len(cs) /\ Last(cs) = cs[Len(cs)]
  BY SeqFront DEF Workers
<1> DEFINE c == cs[Len(cs)]
<1>2. IsWorker(c)
  BY <1>1 DEF Workers
<1>3. 1 \in 1 .. Len(c.open)
  BY <1>2, OpenIs DEF IsWorker
<1>4. c.open[1].kind = "Function"
  BY <1>2, <1>3 DEF IsWorker
<1> QED BY <1>1, <1>2, <1>3, <1>4 DEF Owned, ListKinds, InCases, Anchor, AnchorKinds

\* One more breakpoint in the last list.
LEMMA MarkOne ==
  ASSUME NEW cs, NEW ms, NEW who, NEW where, Workers(cs), cs # <<>>, Marks(cs, ms, who, where),
         NEW b \in Mark, Stopped(Last(cs), b), b.at = Len(CodeOf(Last(cs))),
         \A j, k \in Nat : InCases(Last(cs), j) /\ InCases(Last(cs), k) => j = k
  PROVE  Marks(cs, [ms EXCEPT ![Len(ms)] = Append(@, b)], who, where)
<1> DEFINE n == Len(ms)
           c == Last(cs)
           s == Append(ms[n], b)
           r == [ms EXCEPT ![n] = s]
<1>1. Belong(cs, ListKinds, n, who, where) /\ IsSeq(ms)
  BY DEF Marks
<1>2. Len(cs) \in Nat \ {0} /\ c = cs[Len(cs)] /\ Owned(cs, ListKinds, Len(cs), 1) /\ Len(cs) \in 1 .. Len(cs)
  BY OwnedByTop
<1>3. /\ n \in Nat /\ n \in 1 .. n /\ who[n] = Len(cs) /\ where[n] \in Nat
      /\ \A j \in Nat : Owned(cs, ListKinds, Len(cs), j) => j <= where[n]
  BY <1>1, <1>2, LastList
<1>4. \A j \in Nat : InCases(c, j) => j <= where[n]
  BY <1>2, <1>3, OwnedByTop
<1>5. Begun(c)
  BY <1>2 DEF Marks
<1>6. Kept(c, b, where[n])
  BY <1>4, <1>5 DEF Kept, Begun
<1>7. AllKept(c, ms[n], where[n])
  BY <1>2, <1>3 DEF Marks
<1> HIDE DEF c
<1>8. AllKept(c, s, where[n])
  <2> DEFINE q == ms[n]
  <2>1. q \in Seq(Mark) /\ \A e \in 1 .. Len(q) : Kept(c, q[e], where[n])
    BY <1>7 DEF AllKept
  <2> HIDE DEF q
  <2>2. /\ Append(q, b) \in Seq(Mark) /\ Len(Append(q, b)) = Len(q) + 1 /\ Len(q) \in Nat
        /\ \A e \in 1 .. Len(q) : Append(q, b)[e] = q[e]
        /\ Append(q, b)[Len(q) + 1] = b
    BY <2>1, AppendProperties, LenProperties
  <2>3. \A e \in 1 .. Len(q) + 1 : e \in 1 .. Len(q) \/ e = Len(q) + 1
    BY <2>2
  <2>4. \A e \in 1 .. Len(Append(q, b)) : Kept(c, Append(q, b)[e], where[n])
    BY <1>6, <2>1, <2>2, <2>3
  <2> QED BY <2>2, <2>4 DEF AllKept, q
<1> HIDE DEF s, n
<1>9. n = Len(ms)
  BY DEF n
<1>10. /\ IsSeq(r) /\ Len(r) = Len(ms) /\ r[n] = s
       /\ \A k \in 1 .. Len(ms) : k # n => r[k] = ms[k]
  <2>1. n \in 1 .. Len(ms)
    BY <1>3, <1>9
  <2>2. IsSeq(ms)
    BY <1>1
  <2>3. /\ IsSeq([ms EXCEPT ![n] = s]) /\ Len([ms EXCEPT ![n] = s]) = Len(ms)
        /\ [ms EXCEPT ![n] = s][n] = s
        /\ \A k \in 1 .. Len(ms) : k # n => [ms EXCEPT ![n] = s][k] = ms[k]
    BY <2>1, <2>2, SeqExcept
  <2> QED BY <2>3 DEF r
<1> HIDE DEF r
<1>11. ASSUME NEW k \in 1 .. Len(r)
       PROVE  AllKept(cs[who[k]], r[k], where[k]) /\ (r[k] # <<>> => Alone(cs[who[k]], where[k]))
  <2>1. CASE k = n
    <3>1. Alone(c, where[n])
      BY DEF Alone, c
    <3> QED BY <1>2, <1>3, <1>8, <1>10, <2>1, <3>1
  <2>2. CASE k # n
    BY <1>10, <2>2 DEF Marks
  <2> QED BY <2>1, <2>2
<1>12. Belong(cs, ListKinds, Len(r), who, where)
  BY <1>1, <1>9, <1>10
<1>13. Marks(cs, r, who, where)
  BY <1>10, <1>11, <1>12 DEF Marks
<1> QED BY <1>13 DEF r, s, n

\* A breakpoint statement that is accepted has at most one switch around it.
LEMMA OneSwitch ==
  ASSUME Workers(compilers), compilers # <<>>,
         Cardinality({i \in Breakable : Top.open[i].kind = "Cases"}) <= 1,
         NEW j \in Nat, NEW k \in Nat, InCases(Top, j), InCases(Top, k)
  PROVE  j = k
<1> DEFINE s == {i \in Breakable : Top.open[i].kind = "Cases"}
<1>1. IsSeq(Top.open) /\ Len(Top.open) \in Nat
  BY TopIs, OpenIs
<1>2. DOMAIN Top.open = 1 .. Len(Top.open)
  BY <1>1, SeqLen
<1>3. IsFiniteSet(1 .. Len(Top.open))
  BY <1>1, FS_Interval
<1>4. s \subseteq 1 .. Len(Top.open)
  BY <1>2 DEF Breakable
<1>5. j \in s /\ k \in s
  BY <1>2 DEF InCases, Anchor, Breakable
<1>6. Cardinality(s) <= 1
  OBVIOUS
<1> HIDE DEF s
<1>7. IsFiniteSet(s) /\ Cardinality(s) \in Nat
  BY <1>3, <1>4, FS_Subset, FS_CardinalityType
<1>8. {j, k} \subseteq s
  BY <1>5
<1>9. ASSUME j # k PROVE FALSE
  <2>1. IsFiniteSet({j}) /\ Cardinality({j}) = 1
    BY FS_Singleton
  <2>2. {j, k} = {j} \cup {k} /\ k \notin {j}
    BY <1>9
  <2> DEFINE one == {j}
  <2> HIDE DEF one
  <2>5. IsFiniteSet(one) /\ Cardinality(one) = 1 /\ {j, k} = one \cup {k} /\ k \notin one
    BY <2>1, <2>2 DEF one
  <2>6. Cardinality(one \cup {k}) = Cardinality(one) + 1
    BY <2>5, FS_AddElement, Zenon
  <2>3. Cardinality({j, k}) = 2
    BY <2>5, <2>6
  <2>4. Cardinality({j, k}) <= Cardinality(s)
    BY <1>7, <1>8, FS_Subset
  <2> QED BY <1>6, <1>7, <2>3, <2>4
<1> QED BY <1>9

\* AddBreakpoint notes the position of what is emitted next, in the last list.
LEMMA StepBreakpoint ==
  ASSUME "Breakpoint" \notin Usage, NEW who, NEW where, Workers(compilers),
         Marks(compilers, marks, who, where), Switches(compilers, switches),
         IsFiniteSet(DOMAIN tree), GetBreakpointStatement
  PROVE  /\ Workers(compilers') /\ Marks(compilers', marks', who, where)
         /\ Switches(compilers', switches) /\ IsFiniteSet(DOMAIN tree')
<1> DEFINE pending == Top.pending \cup {Here}
           d0 == [Top EXCEPT !.pending = pending]
           d == Advance(d0)
           ds == Append(Front(compilers), d)
           b == [at |-> Size(Top), of |-> Here]
<1>1. /\ compilers # <<>> /\ compilers' = ds /\ marks' = [marks EXCEPT ![Len(marks)] = Append(@, b)]
      /\ Note(Each({Here}, "Breakpoint"))
  <2>1. d0 = [Top EXCEPT !.pending = @ \cup {Here}]
    OBVIOUS
  <2>2. compilers # <<>>
    BY DEF GetBreakpointStatement, Expected, Awaited
  <2> QED BY <2>1, <2>2 DEF GetBreakpointStatement, Put
<1>2. Cardinality({i \in Breakable : Top.open[i].kind = "Cases"}) <= 1
  <2>1. Sensible("Breakpoint")
    BY DEF GetBreakpointStatement, Expected
  <2> QED BY <2>1 DEF Sensible, Labels
<1>3. /\ IsCompiler(Top) /\ Here \in Path /\ Size(Top) \in Nat /\ Size(Top) = Len(CodeOf(Top))
      /\ Last(compilers) = Top
  BY <1>1, TopIs DEF Top
<1>4. b \in Mark /\ b.at = Len(CodeOf(Top)) /\ b.of = Here
  BY <1>3 DEF Mark
<1>5. /\ IsCompiler(d0) /\ d0.open = Top.open /\ CodeOf(d0) = CodeOf(Top) /\ d0.fn = Top.fn
      /\ d0.breakpoints = Top.breakpoints /\ d0.params = Top.params /\ d0.type = Top.type
      /\ d0.pending = pending
  BY <1>3 DEF IsCompiler, CompilerFields, CodeOf
<1>6. Here \in pending /\ Top.pending \subseteq pending
  OBVIOUS
<1> HIDE DEF d0, pending, b
<1>7. Grows(Top, d0)
  <2>1. SameAnchors(Top, d0)
    BY <1>5, AnchorsOf
  <2>2. \A e \in Mark : Stopped(Top, e) => Stopped(d0, e)
    BY <1>5, <1>6 DEF Stopped
  <2>3. Len(CodeOf(Top)) <= Len(CodeOf(d0))
    BY <1>3, <1>5
  <2> QED BY <1>5, <2>1, <2>2, <2>3 DEF Grows
<1>8. Stopped(d0, b)
  BY <1>3, <1>4, <1>5, <1>6 DEF Stopped
<1>9. Grows(d0, d)
  BY <1>5, GrowsAdvance
<1>10. Grows(Top, d) /\ IsCompiler(d)
  BY <1>3, <1>7, <1>9, GrowsAgain DEF Grows
<1>11. Stopped(d, b) /\ Len(CodeOf(d)) = Len(CodeOf(Top))
  <2>1. CodeOf(d) = CodeOf(d0)
    BY <1>5, AdvanceIs DEF SameRest
  <2> QED BY <1>4, <1>5, <1>8, <1>9, <2>1 DEF Grows
<1>12. \A j \in Nat : InCases(d, j) <=> InCases(Top, j)
  BY <1>3, <1>10, GrownKept
<1> HIDE DEF d
<1>13. Workers(ds) /\ Marks(ds, marks, who, where) /\ Switches(ds, switches)
  BY <1>1, <1>3, <1>10, GrownStack
<1>14. ds # <<>> /\ Last(ds) = d
  <2>1. IsSeq(Front(compilers)) /\ Len(Front(compilers)) \in Nat
    BY <1>1, SeqFront, SeqLen DEF Workers
  <2>2. IsSeq(ds) /\ Len(ds) = Len(Front(compilers)) + 1 /\ ds[Len(Front(compilers)) + 1] = d
    BY <2>1, SeqAppend
  <2>3. Len(ds) # 0
    BY <2>1, <2>2
  <2> QED BY <2>2, <2>3, SeqEmpty DEF Last
<1> HIDE DEF ds
<1>15. \A j, k \in Nat : InCases(d, j) /\ InCases(d, k) => j = k
  BY <1>1, <1>2, <1>12, OneSwitch
<1>16. Marks(ds, [marks EXCEPT ![Len(marks)] = Append(@, b)], who, where)
  BY <1>4, <1>11, <1>13, <1>14, <1>15, MarkOne
<1>17. IsFiniteSet(DOMAIN tree')
  BY <1>1, NoteFinite, FewFinite DEF Note
<1> QED BY <1>1, <1>13, <1>16, <1>17

-----------------------------------------------------------------------------
(* Switches.                                                                 *)

\* The stack cs with d in the place of the innermost compiler.
Instead(cs, d, ds) ==
  /\ IsSeq(ds) /\ Len(ds) = Len(cs) /\ ds[Len(cs)] = d
  /\ \A i \in 1 .. Len(cs) - 1 : ds[i] = cs[i]

LEMMA InsteadIs ==
  ASSUME NEW cs, IsSeq(cs), cs # <<>>, NEW d
  PROVE  /\ Instead(cs, d, Append(Front(cs), d)) /\ Last(Append(Front(cs), d)) = d
         /\ Append(Front(cs), d) # <<>>
<1>1. /\ Len(cs) \in Nat \ {0} /\ IsSeq(Front(cs)) /\ Len(Front(cs)) = Len(cs) - 1
      /\ \A i \in 1 .. Len(cs) - 1 : Front(cs)[i] = cs[i]
  BY SeqFront
<1> DEFINE f == Front(cs)
           ds == Append(f, d)
<1> HIDE DEF f
<1>2. /\ IsSeq(ds) /\ Len(ds) = Len(f) + 1 /\ \A i \in 1 .. Len(f) : ds[i] = f[i]
      /\ ds[Len(f) + 1] = d
  BY <1>1, SeqAppend DEF f
<1> HIDE DEF ds
<1>3. Len(f) + 1 = Len(cs) /\ Len(ds) = Len(cs) /\ ds[Len(cs)] = d /\ Len(ds) # 0
  BY <1>1, <1>2 DEF f
<1>4. \A i \in 1 .. Len(cs) - 1 : ds[i] = cs[i]
  BY <1>1, <1>2 DEF f
<1>5. ds # <<>> /\ Last(ds) = d
  BY <1>2, <1>3, SeqEmpty DEF Last
<1> QED BY <1>2, <1>3, <1>4, <1>5 DEF Instead, ds, f

\* The innermost compiler enters a switch: the block is compiled behind the value.
EntersSwitch(c, d) ==
  /\ IsCompiler(d) /\ SameRest(c, d) /\ Len(d.open) = Len(c.open) + 2
  /\ \A j \in 1 .. Len(c.open) : d.open[j] = c.open[j]
  /\ d.open[Len(c.open) + 1].kind = "Switch"
  /\ d.open[Len(c.open) + 2].kind = "Cases" /\ d.open[Len(c.open) + 2].start = Len(CodeOf(c))

\* A switch adds one statement with a list, behind all others.
LEMMA SwitchEntered ==
  ASSUME NEW c, NEW d, IsWorker(c), EntersSwitch(c, d)
  PROVE  /\ IsWorker(d) /\ Len(c.open) + 2 \in Nat /\ InCases(d, Len(c.open) + 2)
         /\ \A j \in Nat : InCases(c, j) => j <= Len(c.open) /\ d.open[j].start = c.open[j].start
         /\ \A j \in Nat : InCases(d, j) <=> InCases(c, j) \/ j = Len(c.open) + 2
         /\ \A j \in Nat : (j \in 1 .. Len(d.open) /\ d.open[j].kind \in ListKinds)
                            <=> \/ j \in 1 .. Len(c.open) /\ c.open[j].kind \in ListKinds
                                \/ j = Len(c.open) + 2
<1> DEFINE n == Len(c.open)
<1>1. n \in Nat \ {0} /\ n + 2 \in Nat /\ 1 \in 1 .. n
  BY OpenIs DEF IsWorker
<1>2. /\ Len(d.open) = n + 2 /\ IsCompiler(d)
      /\ \A j \in 1 .. n : d.open[j] = c.open[j]
      /\ d.open[n + 1].kind = "Switch" /\ d.open[n + 2].kind = "Cases"
  BY DEF EntersSwitch
<1>3. /\ \A j \in 1 .. n : c.open[j].kind = "Function" <=> j = 1
      /\ \A j \in 1 .. n : c.open[j].kind = "Cases" => j > 1 /\ c.open[j - 1].kind = "Switch"
  BY DEF IsWorker
<1> HIDE DEF n
<1>4. \A j \in 1 .. n + 2 : j \in 1 .. n \/ j = n + 1 \/ j = n + 2
  BY <1>1
<1>5. ASSUME NEW j \in 1 .. n + 2
      PROVE  (d.open[j].kind = "Function" <=> j = 1)
             /\ (d.open[j].kind = "Cases" => j > 1 /\ d.open[j - 1].kind = "Switch")
  <2>1. CASE j \in 1 .. n
    <3>1. j > 1 => j - 1 \in 1 .. n
      BY <1>1, <2>1
    <3> QED BY <1>2, <1>3, <2>1, <3>1
  <2>2. CASE j = n + 1
    <3>1. j # 1
      BY <1>1, <2>2
    <3> QED BY <1>2, <2>2, <3>1
  <2>3. CASE j = n + 2
    <3>1. j > 1 /\ j - 1 = n + 1
      BY <1>1, <2>3
    <3> QED BY <1>2, <2>3, <3>1
  <2> QED BY <1>4, <2>1, <2>2, <2>3
<1>6. IsWorker(d)
  BY <1>2, <1>5 DEF IsWorker
<1>7. ASSUME NEW j \in Nat, NEW kinds, "Switch" \notin kinds, "Cases" \in kinds
      PROVE  (j \in 1 .. n + 2 /\ d.open[j].kind \in kinds)
              <=> (j \in 1 .. n /\ c.open[j].kind \in kinds) \/ j = n + 2
  <2>1. j \in 1 .. n => j \in 1 .. n + 2
    BY <1>1
  <2>2. n + 2 \in 1 .. n + 2
    BY <1>1
  <2> QED BY <1>2, <1>4, <1>7, <2>1, <2>2
<1>8. \A j \in Nat : InCases(d, j) <=> InCases(c, j) \/ j = n + 2
  <2>1. \A j \in Nat : (j \in 1 .. n + 2 /\ d.open[j].kind \in {"Cases"})
              <=> (j \in 1 .. n /\ c.open[j].kind \in {"Cases"}) \/ j = n + 2
    BY <1>7
  <2> QED BY <1>2, <2>1 DEF InCases, Anchor, AnchorKinds, n
<1>9. \A j \in Nat : (j \in 1 .. n + 2 /\ d.open[j].kind \in ListKinds)
              <=> (j \in 1 .. n /\ c.open[j].kind \in ListKinds) \/ j = n + 2
  BY <1>7 DEF ListKinds
<1>10. \A j \in Nat : InCases(c, j) => j <= n /\ d.open[j].start = c.open[j].start
  <2>1. \A j \in Nat : InCases(c, j) => j \in 1 .. n
    BY DEF InCases, Anchor, n
  <2> QED BY <1>1, <1>2, <2>1
<1> QED BY <1>1, <1>2, <1>6, <1>8, <1>9, <1>10 DEF n

\* What was marked before the switch is before its block.
LEMMA KeptEntering ==
  ASSUME NEW c, NEW d, IsWorker(c), EntersSwitch(c, d), c.pending = {}
  PROVE  /\ \A n, s : n \in Nat /\ n <= Len(c.open) /\ AllKept(c, s, n) => AllKept(d, s, n)
         /\ \A n : n \in Nat /\ n <= Len(c.open) /\ Alone(c, n) => Alone(d, n)
         /\ Begun(c) => Begun(d)
<1> DEFINE m == Len(c.open)
<1>1. m \in Nat \ {0} /\ IsCompiler(c)
  BY OpenIs DEF IsWorker
<1>2. /\ \A j \in Nat : InCases(c, j) => j <= m /\ d.open[j].start = c.open[j].start
      /\ \A j \in Nat : InCases(d, j) <=> InCases(c, j) \/ j = m + 2
      /\ d.open[m + 2].start = Len(CodeOf(c))
  BY SwitchEntered DEF EntersSwitch
<1>3. CodeOf(d) = CodeOf(c) /\ d.pending = c.pending /\ d.breakpoints = c.breakpoints
  BY DEF EntersSwitch, SameRest
<1> HIDE DEF m
<1>4. Len(CodeOf(c)) \in Nat
  BY <1>1, CodeLen
<1>5. ASSUME NEW b \in Mark, Stopped(c, b)
      PROVE  Stopped(d, b) /\ b.at < Len(CodeOf(c))
  <2>1. b.at \in Nat
    BY DEF Mark
  <2> QED BY <1>3, <1>4, <1>5, <2>1 DEF Stopped
<1>6. ASSUME NEW n \in Nat, n <= m, NEW b \in Mark, Kept(c, b, n)
      PROVE  Kept(d, b, n)
  <2>1. Stopped(d, b) /\ b.at < Len(CodeOf(c))
    BY <1>5, <1>6 DEF Kept
  <2>2. ASSUME NEW j \in Nat, InCases(d, j)
        PROVE  IF j <= n THEN d.open[j].start <= b.at ELSE b.at < d.open[j].start
    <3>1. CASE InCases(c, j)
      BY <1>2, <1>6, <3>1 DEF Kept
    <3>2. CASE j = m + 2
      <4>1. ~(j <= n)
        BY <1>1, <1>6, <3>2
      <4> QED BY <1>2, <2>1, <3>2, <4>1
    <3> QED BY <1>2, <2>2, <3>1, <3>2
  <2> QED BY <2>1, <2>2 DEF Kept
<1>7. ASSUME NEW n \in Nat, n <= m, NEW s, AllKept(c, s, n)
      PROVE  AllKept(d, s, n)
  <2>1. \A e \in 1 .. Len(s) : s[e] \in Mark
    BY <1>7, ElementOfSeq DEF AllKept
  <2> QED BY <1>6, <1>7, <2>1 DEF AllKept
<1>8. ASSUME NEW n \in Nat, n <= m, Alone(c, n)
      PROVE  Alone(d, n)
  <2>1. \A j \in Nat : InCases(d, j) /\ j <= n => InCases(c, j)
    BY <1>1, <1>2, <1>8
  <2> QED BY <1>8, <2>1 DEF Alone
<1>9. ASSUME Begun(c)
      PROVE  Begun(d)
  <2>1. AllKept(d, d.breakpoints, 0)
    <3>1. 0 \in Nat /\ 0 <= m
      BY <1>1
    <3> QED BY <1>3, <1>7, <1>9, <3>1 DEF Begun
  <2>2. \A j \in Nat : InCases(d, j) => d.open[j].start <= Len(CodeOf(d))
    <3>1. Len(CodeOf(c)) <= Len(CodeOf(c))
      BY <1>4
    <3> QED BY <1>2, <1>3, <1>9, <3>1 DEF Begun
  <2> QED BY <2>1, <2>2 DEF Begun
<1> QED BY <1>7, <1>8, <1>9 DEF m

\* With the lists of the new switch.
LEMMA SwitchOpened ==
  ASSUME NEW cs, Workers(cs), cs # <<>>, NEW d, EntersSwitch(Last(cs), d), Last(cs).pending = {},
         NEW ds, Instead(cs, d, ds), NEW ms, NEW who, NEW where, Marks(cs, ms, who, where),
         NEW ss, Switches(cs, ss), NEW s, IsSwitch(s)
  PROVE  /\ Workers(ds) /\ \E a, b : Marks(ds, Append(ms, <<>>), a, b)
         /\ Switches(ds, Append(ss, s))
<1> DEFINE n == Len(cs)
           c == cs[n]
           j == Len(c.open) + 2
           rs == Append(ms, <<>>)
           m == Len(ms)
<1>1. n \in Nat \ {0} /\ IsWorker(c) /\ Last(cs) = c
  BY OwnedByTop
<1>2. /\ Len(ds) = n /\ ds[n] = d /\ IsSeq(ds) /\ \A i \in 1 .. n - 1 : ds[i] = cs[i]
  BY DEF Instead
<1>3. EntersSwitch(c, d) /\ c.pending = {}
  BY <1>1
<1>4. /\ IsWorker(d) /\ j \in Nat /\ InCases(d, j)
      /\ \A k \in Nat : InCases(c, k) => k <= Len(c.open)
      /\ \A k \in Nat : InCases(d, k) <=> InCases(c, k) \/ k = j
      /\ \A k \in Nat : (k \in 1 .. Len(d.open) /\ d.open[k].kind \in ListKinds)
                            <=> (k \in 1 .. Len(c.open) /\ c.open[k].kind \in ListKinds) \/ k = j
  BY <1>1, <1>3, SwitchEntered
<1>5. Len(c.open) \in Nat /\ \A k \in 1 .. Len(c.open) : k < j
  BY <1>1, OpenIs DEF IsWorker
<1>6. n = Len(cs) /\ n \in 1 .. n /\ (\A i \in 1 .. n : i = n \/ i \in 1 .. n - 1) /\ ~(n \in 1 .. n - 1)
  BY <1>1
<1>7. Workers(ds)
  BY <1>2, <1>4, <1>6 DEF Workers
<1>8. /\ \A q, r : q \in Nat /\ q <= Len(c.open) /\ AllKept(c, r, q) => AllKept(d, r, q)
      /\ \A q : q \in Nat /\ q <= Len(c.open) /\ Alone(c, q) => Alone(d, q)
      /\ Begun(c) => Begun(d)
  BY <1>1, <1>3, KeptEntering
<1>9. \A k \in Nat : (k \in 1 .. Len(d.open) /\ d.open[k].kind \in {"Cases"})
                            <=> (k \in 1 .. Len(c.open) /\ c.open[k].kind \in {"Cases"}) \/ k = j
  BY <1>4 DEF InCases, Anchor, AnchorKinds
<1>10. c = cs[n]
  OBVIOUS
<1> HIDE DEF j, c, n
<1>11. ASSUME NEW kinds,
              \A k \in Nat : (k \in 1 .. Len(d.open) /\ d.open[k].kind \in kinds)
                              <=> (k \in 1 .. Len(c.open) /\ c.open[k].kind \in kinds) \/ k = j,
              NEW l, NEW p, NEW q, Belong(cs, kinds, l, p, q)
       PROVE  Belong(ds, kinds, l + 1, [k \in 1 .. l + 1 |-> IF k = l + 1 THEN n ELSE p[k]],
                                       [k \in 1 .. l + 1 |-> IF k = l + 1 THEN j ELSE q[k]])
  <2>1. Owned(ds, kinds, n, j)
    BY <1>2, <1>4, <1>6, <1>11 DEF Owned
  <2>2. ASSUME NEW i \in Nat, NEW k \in Nat
        PROVE  /\ Owned(cs, kinds, i, k) => Inner(i, k, n, j)
               /\ Owned(ds, kinds, i, k) <=> Owned(cs, kinds, i, k) \/ (i = n /\ k = j)
    <3>1. CASE i = n
      BY <1>2, <1>5, <1>6, <1>10, <1>11, <3>1 DEF Owned, Inner
    <3>2. CASE i \in 1 .. n - 1
      <4>1. i < n /\ i # n /\ i \in 1 .. n
        BY <1>1, <3>2
      <4> QED BY <1>2, <1>6, <3>2, <4>1 DEF Owned, Inner
    <3>3. CASE ~(i \in 1 .. n)
      BY <1>2, <1>6, <3>3 DEF Owned
    <3> QED BY <1>6, <3>1, <3>2, <3>3
  <2>3. n \in Nat /\ j \in Nat
    BY <1>1, <1>4
  <2> QED BY <1>11, <2>1, <2>2, <2>3, ListsMore
<1>12. Switches(ds, Append(ss, s))
  <2>1. IsSeq(ss) /\ \A k \in 1 .. Len(ss) : IsSwitch(ss[k])
    BY DEF Switches
  <2>2. Len(ss) \in Nat
    BY <2>1, SeqLen
  <2>3. /\ IsSeq(Append(ss, s)) /\ Len(Append(ss, s)) = Len(ss) + 1
        /\ \A k \in 1 .. Len(ss) : Append(ss, s)[k] = ss[k]
        /\ Append(ss, s)[Len(ss) + 1] = s
    BY <2>1, SeqAppend
  <2>4. \A k \in 1 .. Len(ss) + 1 : k \in 1 .. Len(ss) \/ k = Len(ss) + 1
    BY <2>2
  <2>5. PICK p, q : Belong(cs, {"Cases"}, Len(ss), p, q)
    BY DEF Switches
  <2>6. \E a, b : Belong(ds, {"Cases"}, Len(ss) + 1, a, b)
    BY <1>9, <1>11, <2>5
  <2> QED BY <2>1, <2>3, <2>4, <2>6 DEF Switches
<1>13. IsSeq(ms) /\ m \in Nat /\ Belong(cs, ListKinds, m, who, where)
  BY SeqLen DEF Marks
<1>14. /\ IsSeq(rs) /\ Len(rs) = m + 1 /\ rs[m + 1] = <<>> /\ \A k \in 1 .. m : rs[k] = ms[k]
  BY <1>13, SeqAppend
<1> DEFINE a == [k \in 1 .. m + 1 |-> IF k = m + 1 THEN n ELSE who[k]]
           b == [k \in 1 .. m + 1 |-> IF k = m + 1 THEN j ELSE where[k]]
<1>15. m + 1 \in 1 .. m + 1 /\ \A k \in 1 .. m + 1 : k = m + 1 \/ (k \in 1 .. m /\ k # m + 1)
  BY <1>13
<1>16. /\ a[m + 1] = n /\ b[m + 1] = j
       /\ \A k \in 1 .. m : k \in 1 .. m + 1 /\ a[k] = who[k] /\ b[k] = where[k]
  BY <1>13, <1>15
<1>17. Belong(ds, ListKinds, m + 1, a, b)
  <2> HIDE DEF m
  <2>1. \A k \in Nat : (k \in 1 .. Len(d.open) /\ d.open[k].kind \in ListKinds)
                            <=> (k \in 1 .. Len(c.open) /\ c.open[k].kind \in ListKinds) \/ k = j
    BY <1>4
  <2>2. Belong(cs, ListKinds, m, who, where)
    BY <1>13
  <2> DEFINE kinds == ListKinds
  <2> HIDE DEF kinds
  <2>3. \A k \in Nat : (k \in 1 .. Len(d.open) /\ d.open[k].kind \in kinds)
                            <=> (k \in 1 .. Len(c.open) /\ c.open[k].kind \in kinds) \/ k = j
    BY <2>1 DEF kinds
  <2>4. Belong(cs, kinds, m, who, where)
    BY <2>2 DEF kinds
  <2>5. Belong(ds, kinds, m + 1, [k \in 1 .. m + 1 |-> IF k = m + 1 THEN n ELSE who[k]],
                                       [k \in 1 .. m + 1 |-> IF k = m + 1 THEN j ELSE where[k]])
    BY <1>11, <2>3, <2>4
  <2> QED BY <2>5 DEF kinds
<1>18. m = Len(ms)
  OBVIOUS
<1> HIDE DEF a, b, rs, m
<1>19. \A i \in 1 .. n : Begun(ds[i])
  <2>1. \A i \in 1 .. n : Begun(cs[i])
    BY <1>6 DEF Marks
  <2> QED BY <1>2, <1>6, <1>8, <1>10, <2>1
<1>20. ASSUME NEW k \in 1 .. m + 1
       PROVE  AllKept(ds[a[k]], rs[k], b[k]) /\ (rs[k] # <<>> => Alone(ds[a[k]], b[k]))
  <2>1. CASE k = m + 1
    <3>1. AllKept(d, <<>>, j)
      <4>1. <<>> \in Seq(Mark) /\ Len(<<>>) = 0
        BY EmptySeq
      <4> QED BY <4>1 DEF AllKept
    <3> QED BY <1>2, <1>14, <1>16, <2>1, <3>1
  <2>2. CASE k \in 1 .. m
    <3>1. /\ a[k] = who[k] /\ b[k] = where[k] /\ rs[k] = ms[k]
          /\ AllKept(cs[who[k]], ms[k], where[k])
          /\ ms[k] # <<>> => Alone(cs[who[k]], where[k])
      BY <1>14, <1>16, <1>18, <2>2 DEF Marks
    <3>2. who[k] \in 1 .. n /\ where[k] \in Nat /\ where[k] \in 1 .. Len(cs[who[k]].open)
      BY <1>6, <1>13, <2>2 DEF Belong, Owned
    <3>3. CASE who[k] = n
      <4>1. where[k] <= Len(c.open)
        BY <1>5, <1>10, <3>2, <3>3
      <4> QED BY <1>2, <1>8, <1>10, <3>1, <3>2, <3>3, <4>1
    <3>4. CASE who[k] \in 1 .. n - 1
      BY <1>2, <3>1, <3>4
    <3> QED BY <1>6, <3>2, <3>3, <3>4
  <2> QED BY <1>15, <2>1, <2>2
<1>21. Marks(ds, rs, a, b)
  BY <1>2, <1>14, <1>17, <1>19, <1>20 DEF Marks
<1> QED BY <1>7, <1>12, <1>21 DEF rs

\* GetSwitchStatement up to its block.
LEMMA StepOpenSwitch ==
  ASSUME NEW who, NEW where, Workers(compilers), Marks(compilers, marks, who, where),
         Switches(compilers, switches), IsFiniteSet(DOMAIN tree), OpenSwitch
  PROVE  /\ Workers(compilers') /\ \E a, b : Marks(compilers', marks', a, b)
         /\ Switches(compilers', switches') /\ IsFiniteSet(DOMAIN tree')
<1> DEFINE p == Here
           q == Part(p, Condition)
           r == Part(p, Body)
           c == Emit(Top, <<At(q)>>)
           e == Enter(c, "Switch", p, Body, 0, 0)
           g == ScopeBegin(e)
           d == Enter(g, "Cases", r, 1, Size(c), 0)
           cs == Append(Front(compilers), c)
           ds == Append(Front(compilers), d)
           s == [scope |-> Top.depth + 1, cases |-> <<>>, default |-> NoDefault]
<1>1. compilers # <<>>
  BY DEF OpenSwitch, Expected, Awaited
<1>2. /\ compilers' = ds /\ marks' = Append(marks, <<>>) /\ switches' = Append(switches, s)
      /\ Note(Over(Each({p}, "Switch"), Over(Each({q}, "Part"), Each({r}, "Cases"))))
  BY DEF OpenSwitch, Put
<1>3. /\ IsCompiler(Top) /\ p \in Path /\ q \in Path /\ r \in Path /\ Last(compilers) = Top
      /\ Len(CodeOf(Top)) \in Nat
  BY <1>1, TopIs DEF Condition, Body, Top
<1>4. IsText(<<At(q)>>) /\ <<At(q)>> # <<>>
  BY <1>3, OtherInstructions, TextOfOne
<1>5. Adds(Top, <<At(q)>>, c)
  BY <1>3, <1>4, AddsEmit
<1>6. Grows(Top, c) /\ IsCompiler(c) /\ c.pending = {}
  BY <1>3, <1>4, <1>5, GrowsAdds DEF Adds
<1>7. Size(c) = Len(CodeOf(c)) /\ Len(CodeOf(c)) \in Nat
  BY <1>6, CodeLen
<1> HIDE DEF c, p, q, r
<1>8. EntersSwitch(c, d)
  <2> DEFINE n == Len(c.open)
  <2>1. Body \in Nat /\ "Switch" \in StatementKinds /\ "Cases" \in StatementKinds /\ 0 \in Nat /\ 1 \in Nat
    BY DEF Body, StatementKinds, Lists
  <2>2. /\ IsCompiler(e) /\ SameRest(c, e) /\ Len(e.open) = n + 1
        /\ \A j \in 1 .. n : e.open[j] = c.open[j]
        /\ e.open[n + 1] = [kind |-> "Switch", at |-> p, next |-> Body, full |-> FALSE,
                            start |-> 0, exit |-> 0]
    BY <1>3, <1>6, <2>1, EnterIs
  <2> HIDE DEF e
  <2>3. IsCompiler(g) /\ g.open = e.open
    BY <2>2, GrowsBegin
  <2>4. SameRest(e, g)
    BY <2>2 DEF ScopeBegin, IsCompiler, CompilerFields, SameRest, CodeOf
  <2> HIDE DEF g
  <2>5. /\ IsCompiler(d) /\ SameRest(g, d) /\ Len(d.open) = Len(g.open) + 1
        /\ \A j \in 1 .. Len(g.open) : d.open[j] = g.open[j]
        /\ d.open[Len(g.open) + 1] = [kind |-> "Cases", at |-> r, next |-> 1, full |-> FALSE,
                                     start |-> Size(c), exit |-> 0]
    <3>1. Size(c) \in Nat /\ IsCompiler(g)
      BY <1>7, <2>3
    <3>2. "Cases" \in StatementKinds /\ 0 \in Nat /\ 1 \in Nat /\ r \in Path
      BY <1>3, <2>1
    <3> DEFINE k == Size(c)
    <3> HIDE DEF k
    <3>3. k \in Nat
      BY <3>1 DEF k
    <3> DEFINE f == Enter(g, "Cases", r, 1, k, 0)
    <3>4. /\ IsCompiler(f) /\ SameRest(g, f) /\ Len(f.open) = Len(g.open) + 1
          /\ \A j \in 1 .. Len(g.open) : f.open[j] = g.open[j]
          /\ f.open[Len(g.open) + 1] = [kind |-> "Cases", at |-> r, next |-> 1, full |-> FALSE,
                                        start |-> k, exit |-> 0]
      BY <3>1, <3>2, <3>3, EnterIs
    <3> QED BY <3>4 DEF k
  <2> HIDE DEF d
  <2>6. n \in Nat
    BY <1>6, OpenIs
  <2> HIDE DEF n
  <2>7. Len(g.open) = n + 1 /\ Len(d.open) = n + 1 + 1 /\ n + 1 + 1 = n + 2
    BY <2>2, <2>3, <2>5, <2>6
  <2>8. (\A j \in 1 .. n : j \in 1 .. n + 1) /\ n + 1 \in 1 .. n + 1
    BY <2>6
  <2>9. /\ d.open[n + 2].kind = "Cases" /\ d.open[n + 2].start = Len(CodeOf(c))
        /\ d.open[n + 1].kind = "Switch"
        /\ \A j \in 1 .. n : d.open[j] = c.open[j]
    BY <1>7, <2>2, <2>3, <2>5, <2>7, <2>8
  <2>10. SameRest(c, d)
    BY <2>2, <2>4, <2>5 DEF SameRest
  <2> QED BY <2>5, <2>7, <2>9, <2>10 DEF EntersSwitch, n
<1> HIDE DEF d
<1>9. IsSeq(compilers)
  BY DEF Workers
<1>10. /\ Instead(compilers, c, cs) /\ Instead(compilers, d, ds)
       /\ Last(cs) = c /\ cs # <<>>
  BY <1>1, <1>9, InsteadIs
<1>11. Workers(cs) /\ Marks(cs, marks, who, where) /\ Switches(cs, switches)
  BY <1>1, <1>3, <1>6, GrownStack
<1> HIDE DEF cs, ds
<1>12. Instead(cs, d, ds)
  BY <1>10 DEF Instead
<1>13. IsSwitch(s)
  <2>1. IsSeq(s.cases) /\ Len(s.cases) = 0 /\ s.default \in Int
    BY SeqEmpty DEF NoDefault
  <2>2. DOMAIN s = {"scope", "cases", "default"}
    OBVIOUS
  <2> HIDE DEF s
  <2> QED BY <2>1, <2>2 DEF IsSwitch
<1> HIDE DEF s
<1>14. EntersSwitch(Last(cs), d) /\ Last(cs).pending = {}
  BY <1>6, <1>8, <1>10
<1>15. /\ Workers(ds) /\ \E a, b : Marks(ds, Append(marks, <<>>), a, b)
       /\ Switches(ds, Append(switches, s))
  BY <1>10, <1>11, <1>12, <1>13, <1>14, SwitchOpened
<1>16. IsFiniteSet(DOMAIN tree')
  BY <1>2, NoteFinite, FewFinite DEF Note
<1> QED BY <1>2, <1>15, <1>16

\* A label changes the last list of labels only.
LEMMA LabelNoted ==
  ASSUME NEW cs, NEW ss, Switches(cs, ss), ss # <<>>, NEW s, IsSwitch(s)
  PROVE  Switches(cs, [ss EXCEPT ![Len(ss)] = s])
<1> DEFINE n == Len(ss)
           r == [ss EXCEPT ![n] = s]
<1>1. IsSeq(ss) /\ n \in Nat /\ n # 0 /\ n \in 1 .. n
  BY SeqLen DEF Switches
<1>2. /\ IsSeq(r) /\ Len(r) = Len(ss) /\ r[n] = s
      /\ \A j \in 1 .. Len(ss) : j # n => r[j] = ss[j]
  BY <1>1, SeqExcept
<1> HIDE DEF r
<1>3. \A k \in 1 .. Len(r) : IsSwitch(r[k])
  BY <1>2 DEF Switches
<1>4. Switches(cs, r)
  BY <1>2, <1>3 DEF Switches
<1> QED BY <1>4 DEF r

\* GetCaseStatement and GetDefaultStatement note where the label is.
LEMMA StepLabelNoted ==
  ASSUME Workers(compilers), Switches(compilers, switches),
         GetCaseStatement \/ GetDefaultStatement
  PROVE  Switches(compilers, switches')
<1> DEFINE n == Len(switches)
           s == switches[n]
<1>1. compilers # <<>> /\ switches # <<>>
  BY DEF GetCaseStatement, GetDefaultStatement, Expected, Awaited, Refused, Labels
<1>2. IsSeq(switches) /\ n \in Nat /\ n # 0 /\ n \in 1 .. n /\ IsSwitch(s)
  BY <1>1, SeqLen DEF Switches
<1>3. Here \in Path /\ IsCompiler(Top) /\ Size(Top) \in Nat
  BY <1>1, TopIs
<1>4. CASE GetCaseStatement
  <2> DEFINE x == [At(Here) EXCEPT !.vars = Ids(Top)]
             y == [at |-> Size(Top), code |-> x]
             l == s.cases
             t == [s EXCEPT !.cases = Append(l, y)]
  <2>1. switches' = [switches EXCEPT ![n].cases =
                       Append(@, [at |-> Size(Top), code |-> [At(Here) EXCEPT !.vars = Ids(Top)]])]
    BY <1>4 DEF GetCaseStatement
  <2>2. switches' = [switches EXCEPT ![n] = t]
    BY <1>2, <2>1
  <2>3. IsInstruction(x)
    <3>1. IsInstruction(At(Here))
      BY <1>3, OtherInstructions
    <3> QED BY <3>1 DEF IsInstruction, Fields
  <2> HIDE DEF x
  <2>4. y.at \in Nat /\ IsInstruction(y.code)
    BY <1>3, <2>3
  <2> HIDE DEF y
  <2>5. IsSeq(l) /\ \A k \in 1 .. Len(l) : l[k].at \in Nat /\ IsInstruction(l[k].code)
    BY <1>2 DEF IsSwitch
  <2>6. DOMAIN t = DOMAIN s /\ t.cases = Append(l, y) /\ t.default = s.default
    BY <1>2 DEF IsSwitch
  <2> HIDE DEF l, t, s
  <2>7. Len(l) \in Nat
    BY <2>5, SeqLen
  <2>8. /\ IsSeq(Append(l, y)) /\ Len(Append(l, y)) = Len(l) + 1
        /\ \A k \in 1 .. Len(l) : Append(l, y)[k] = l[k]
        /\ Append(l, y)[Len(l) + 1] = y
    BY <2>5, SeqAppend
  <2>9. \A k \in 1 .. Len(l) + 1 : k \in 1 .. Len(l) \/ k = Len(l) + 1
    BY <2>7
  <2>10. \A k \in 1 .. Len(l) + 1 : Append(l, y)[k].at \in Nat /\ IsInstruction(Append(l, y)[k].code)
    BY <2>4, <2>5, <2>8, <2>9
  <2>11. IsSwitch(t)
    BY <1>2, <2>6, <2>8, <2>10 DEF IsSwitch
  <2>12. Switches(compilers, [switches EXCEPT ![Len(switches)] = t])
    BY <1>1, <2>11, LabelNoted
  <2> QED BY <2>2, <2>12
<1>5. CASE GetDefaultStatement
  <2> DEFINE t == [s EXCEPT !.default = Size(Top)]
  <2>1. switches' = [switches EXCEPT ![n].default = Size(Top)]
    BY <1>5 DEF GetDefaultStatement
  <2>2. switches' = [switches EXCEPT ![n] = t]
    BY <1>2, <2>1
  <2>3. DOMAIN t = DOMAIN s /\ t.cases = s.cases /\ t.default \in Int
    BY <1>2, <1>3 DEF IsSwitch
  <2> HIDE DEF t, s
  <2>4. IsSwitch(t)
    BY <1>2, <2>3 DEF IsSwitch
  <2>5. Switches(compilers, [switches EXCEPT ![Len(switches)] = t])
    BY <1>1, <2>4, LabelNoted
  <2> QED BY <2>2, <2>5
<1> QED BY <1>4, <1>5

\* The innermost compiler is through with a switch: the tests of its labels, offset
\* instructions with what follows them, are in front of the block.
LeavesSwitch(c, d, offset) ==
  LET n == Len(c.open)
      start == c.open[n].start
  IN  /\ c.open[n].kind = "Cases" /\ offset \in Nat \ {0}
      /\ IsCompiler(d) /\ d.fn = c.fn /\ d.type = c.type /\ d.params = c.params
      /\ Len(d.open) = n - 2
      /\ \A j \in 1 .. n - 2 : d.open[j].kind = c.open[j].kind /\ d.open[j].start = c.open[j].start
      /\ d.pending = c.pending /\ Len(CodeOf(d)) = Len(CodeOf(c)) + offset
      /\ \A i \in 1 .. start : CodeOf(d)[i].marks = CodeOf(c)[i].marks
      /\ \A i \in start + 1 .. Len(CodeOf(c)) : CodeOf(d)[i + offset].marks = CodeOf(c)[i].marks

\* Its switch was the last statement with a list.
LEMMA SwitchLeft ==
  ASSUME NEW c, NEW d, NEW offset, IsWorker(c), LeavesSwitch(c, d, offset)
  PROVE  /\ IsWorker(d) /\ Len(c.open) \in Nat /\ Len(c.open) > 2 /\ InCases(c, Len(c.open))
         /\ c.open[Len(c.open)].start \in Nat
         /\ \A j \in Nat : InCases(c, j) => j <= Len(c.open)
         /\ \A j \in Nat : InCases(d, j) => d.open[j].start = c.open[j].start
         /\ \A j \in Nat : InCases(d, j) <=> InCases(c, j) /\ j # Len(c.open)
         /\ \A j \in Nat : (j \in 1 .. Len(d.open) /\ d.open[j].kind \in ListKinds)
                            <=> j \in 1 .. Len(c.open) /\ c.open[j].kind \in ListKinds /\ j # Len(c.open)
<1> DEFINE n == Len(c.open)
<1>1. n \in Nat \ {0} /\ 1 \in 1 .. n /\ n \in 1 .. n
  BY OpenIs DEF IsWorker
<1>2. /\ c.open[n].kind = "Cases" /\ IsCompiler(d) /\ Len(d.open) = n - 2
      /\ \A j \in 1 .. n - 2 : d.open[j].kind = c.open[j].kind /\ d.open[j].start = c.open[j].start
  BY DEF LeavesSwitch
<1>3. /\ \A j \in 1 .. n : c.open[j].kind = "Function" <=> j = 1
      /\ \A j \in 1 .. n : c.open[j].kind = "Cases" => j > 1 /\ c.open[j - 1].kind = "Switch"
  BY DEF IsWorker
<1>4. c.open[n].start \in Nat
  <2>1. c.open[n] \in Statement
    BY <1>1, OpenIs DEF IsWorker
  <2> QED BY <2>1 DEF Statement
<1>5. InCases(c, n) /\ \A j \in Nat : InCases(c, j) => j <= n
  BY <1>1, <1>2 DEF InCases, Anchor, AnchorKinds
<1> HIDE DEF n
<1>6. n > 1 /\ n - 1 \in 1 .. n /\ c.open[n - 1].kind = "Switch"
  BY <1>1, <1>2, <1>3
<1>7. n > 2
  <2>1. n - 1 # 1
    BY <1>1, <1>3, <1>6
  <2> QED BY <1>1, <1>6, <2>1
<1>8. \A j \in 1 .. n : j \in 1 .. n - 2 \/ j = n - 1 \/ j = n
  BY <1>1, <1>7
<1>9. \A j \in 1 .. n - 2 : j \in 1 .. n /\ j # n /\ (j > 1 => j - 1 \in 1 .. n - 2)
  BY <1>1, <1>7
<1>10. IsWorker(d)
  <2>1. ASSUME NEW j \in 1 .. n - 2
        PROVE  (d.open[j].kind = "Function" <=> j = 1)
               /\ (d.open[j].kind = "Cases" => j > 1 /\ d.open[j - 1].kind = "Switch")
    BY <1>2, <1>3, <1>9
  <2> QED BY <1>2, <2>1 DEF IsWorker
<1>11. ASSUME NEW j \in Nat, NEW kinds, "Switch" \notin kinds
       PROVE  (j \in 1 .. n - 2 /\ d.open[j].kind \in kinds)
              <=> j \in 1 .. n /\ c.open[j].kind \in kinds /\ j # n
  BY <1>2, <1>6, <1>8, <1>9, <1>11
<1>12. \A j \in Nat : InCases(d, j) <=> InCases(c, j) /\ j # n
  <2>1. \A j \in Nat : (j \in 1 .. n - 2 /\ d.open[j].kind \in {"Cases"})
                        <=> j \in 1 .. n /\ c.open[j].kind \in {"Cases"} /\ j # n
    BY <1>11
  <2> QED BY <1>2, <2>1 DEF InCases, Anchor, AnchorKinds, n
<1>13. \A j \in Nat : (j \in 1 .. n - 2 /\ d.open[j].kind \in ListKinds)
                        <=> j \in 1 .. n /\ c.open[j].kind \in ListKinds /\ j # n
  BY <1>11 DEF ListKinds
<1>14. \A j \in Nat : InCases(d, j) => d.open[j].start = c.open[j].start
  BY <1>2 DEF InCases, Anchor
<1> QED BY <1>1, <1>2, <1>4, <1>5, <1>7, <1>10, <1>12, <1>13, <1>14 DEF n

\* What was marked before the switch stays where it is.
LEMMA KeptBefore ==
  ASSUME NEW c, NEW d, NEW offset, IsWorker(c), LeavesSwitch(c, d, offset), Begun(c),
         NEW m \in Nat, m < Len(c.open), NEW b \in Mark, Kept(c, b, m)
  PROVE  Kept(d, b, m)
<1> DEFINE n == Len(c.open)
           start == c.open[n].start
           k == Len(CodeOf(c))
           l == Len(CodeOf(d))
<1>1. /\ n \in Nat /\ InCases(c, n) /\ start \in Nat
      /\ \A j \in Nat : InCases(d, j) => InCases(c, j) /\ d.open[j].start = c.open[j].start
  BY SwitchLeft
<1>2. k \in Nat /\ l \in Nat /\ offset \in Nat /\ l = k + offset
  BY CodeLen DEF LeavesSwitch, IsWorker
<1>3. start <= k
  BY <1>1 DEF Begun
<1>4. \A i \in 1 .. start : CodeOf(d)[i].marks = CodeOf(c)[i].marks
  BY DEF LeavesSwitch
<1>5. m < n
  OBVIOUS
<1> HIDE DEF n
<1>6. b.at < start /\ b.at \in Nat
  <2>1. ~(n <= m)
    BY <1>1, <1>5
  <2> QED BY <1>1, <2>1 DEF Kept, Mark
<1> HIDE DEF start
<1>7. b.at < k /\ b.at + 1 \in 1 .. start /\ b.at \in 0 .. l /\ b.at < l
  BY <1>1, <1>2, <1>3, <1>6
<1>8. b.of \in CodeOf(c)[b.at + 1].marks
  BY <1>7 DEF Kept, Stopped
<1> HIDE DEF k, l
<1>9. b.of \in CodeOf(d)[b.at + 1].marks
  BY <1>4, <1>7, <1>8
<1>10. Stopped(d, b)
  <2>1. b.at # l
    BY <1>2, <1>6, <1>7
  <2> QED BY <1>7, <1>9, <2>1 DEF Stopped, l
<1> QED BY <1>1, <1>10 DEF Kept

\* What was marked in the block moves with it.
LEMMA KeptWithin ==
  ASSUME NEW c, NEW d, NEW offset, IsWorker(c), LeavesSwitch(c, d, offset),
         Alone(c, Len(c.open)), NEW b \in Mark, Kept(c, b, Len(c.open)),
         NEW e \in Mark, e.at = b.at + offset, e.of = b.of
  PROVE  Kept(d, e, 0)
<1> DEFINE n == Len(c.open)
           start == c.open[n].start
           k == Len(CodeOf(c))
           l == Len(CodeOf(d))
<1>1. /\ n \in Nat /\ InCases(c, n) /\ start \in Nat
      /\ \A j \in Nat : InCases(d, j) => InCases(c, j) /\ j <= n /\ j # n
  BY SwitchLeft
<1>2. k \in Nat /\ l \in Nat /\ offset \in Nat /\ l = k + offset
  BY CodeLen DEF LeavesSwitch, IsWorker
<1>3. \A i \in start + 1 .. k : CodeOf(d)[i + offset].marks = CodeOf(c)[i].marks
  BY DEF LeavesSwitch
<1>4. d.pending = c.pending
  BY DEF LeavesSwitch
<1>5. ASSUME NEW j \in Nat, InCases(d, j)
      PROVE  FALSE
  <2>1. InCases(c, j) /\ j <= n /\ j # n /\ n <= n
    BY <1>1, <1>5
  <2>2. j = n
    BY <1>1, <2>1 DEF Alone
  <2> QED BY <2>1, <2>2
<1>6. start <= b.at /\ b.at \in Nat
  <2>1. n <= n
    BY <1>1
  <2> QED BY <1>1, <2>1 DEF Kept, Mark
<1> HIDE DEF n, start
<1>7. b.at \in 0 .. k /\ e.at \in 0 .. l /\ (e.at < l <=> b.at < k) /\ (e.at = l <=> b.at = k)
  <2>1. b.at \in 0 .. k
    BY DEF Kept, Stopped
  <2> QED BY <1>2, <1>6, <2>1
<1>8. ASSUME e.at < l
      PROVE  e.of \in CodeOf(d)[e.at + 1].marks
  <2>1. b.of \in CodeOf(c)[b.at + 1].marks
    BY <1>7, <1>8 DEF Kept, Stopped
  <2> HIDE DEF k, l
  <2>2. b.at + 1 \in start + 1 .. k
    BY <1>1, <1>2, <1>6, <1>7, <1>8
  <2>3. e.at + 1 = b.at + 1 + offset
    BY <1>2, <1>6
  <2> QED BY <1>3, <2>1, <2>2, <2>3
<1>9. ASSUME e.at = l
      PROVE  e.of \in d.pending
  BY <1>4, <1>7, <1>9 DEF Kept, Stopped
<1>10. Stopped(d, e)
  BY <1>7, <1>8, <1>9 DEF Stopped
<1> QED BY <1>5, <1>10 DEF Kept

\* The breakpoints of the switch join those of the function.
Found(c, d, r) == d.breakpoints = c.breakpoints \o r

\* The list l with what it marks moved on.
Shifted(l, offset, r) ==
  /\ r \in Seq(Mark) /\ Len(r) = Len(l)
  /\ \A e \in 1 .. Len(l) : r[e].at = l[e].at + offset /\ r[e].of = l[e].of

\* What the switch hands to its function stops where it did.
LEMMA BreakpointsFound ==
  ASSUME NEW c, NEW d, NEW offset, IsWorker(c), LeavesSwitch(c, d, offset), Begun(c),
         NEW l, AllKept(c, l, Len(c.open)), l # <<>> => Alone(c, Len(c.open)),
         NEW r, Shifted(l, offset, r), Found(c, d, r)
  PROVE  Begun(d)
<1> DEFINE n == Len(c.open)
           s == c.breakpoints
           u == d.breakpoints
<1>1. /\ n \in Nat /\ n > 2 /\ InCases(c, n)
      /\ \A j \in Nat : InCases(d, j) => InCases(c, j) /\ d.open[j].start = c.open[j].start
  BY SwitchLeft
<1>2. s \in Seq(Mark) /\ \A e \in 1 .. Len(s) : Kept(c, s[e], 0)
  BY DEF Begun, AllKept
<1>3. r \in Seq(Mark) /\ Len(r) = Len(l) /\ l \in Seq(Mark) /\ Len(l) \in Nat
  BY LenProperties DEF Shifted, AllKept
<1>4. u = s \o r
  BY DEF Found
<1> HIDE DEF s, u
<1>5. /\ u \in Seq(Mark) /\ Len(u) = Len(s) + Len(r)
      /\ \A i \in 1 .. Len(s) + Len(r) : u[i] = IF i <= Len(s) THEN s[i] ELSE r[i - Len(s)]
  <2>1. /\ s \o r \in Seq(Mark) /\ Len(s \o r) = Len(s) + Len(r)
        /\ \A i \in 1 .. Len(s) + Len(r) : (s \o r)[i] = IF i <= Len(s) THEN s[i] ELSE r[i - Len(s)]
    BY <1>2, <1>3, ConcatProperties
  <2> QED BY <1>4, <2>1
<1>6. Len(s) \in Nat /\ Len(r) \in Nat
  BY <1>2, <1>3, LenProperties
<1>7. ASSUME NEW e \in 1 .. Len(s)
      PROVE  Kept(d, s[e], 0)
  <2>1. s[e] \in Mark
    BY <1>2, ElementOfSeq
  <2>2. 0 \in Nat /\ 0 < n
    BY <1>1
  <2> QED BY <1>2, <2>1, <2>2, KeptBefore DEF n
<1>8. ASSUME NEW e \in 1 .. Len(r)
      PROVE  Kept(d, r[e], 0)
  <2>1. e \in 1 .. Len(l) /\ l # <<>>
    <3>1. e \in 1 .. Len(l) /\ Len(l) # 0
      BY <1>3, <1>6
    <3> QED BY <3>1, EmptySeq
  <2>2. Kept(c, l[e], n) /\ Alone(c, n)
    BY <2>1 DEF AllKept
  <2>3. r[e] \in Mark /\ l[e] \in Mark
    BY <1>3, <2>1, ElementOfSeq
  <2>4. r[e].at = l[e].at + offset /\ r[e].of = l[e].of
    BY <2>1 DEF Shifted
  <2> QED BY <2>2, <2>3, <2>4, KeptWithin DEF n
<1>9. ASSUME NEW i \in 1 .. Len(u)
      PROVE  Kept(d, u[i], 0)
  <2>1. CASE i <= Len(s)
    <3>1. i \in 1 .. Len(s) /\ i \in 1 .. Len(s) + Len(r)
      BY <1>5, <1>6, <2>1
    <3> QED BY <1>5, <1>7, <2>1, <3>1
  <2>2. CASE ~(i <= Len(s))
    <3>1. i - Len(s) \in 1 .. Len(r) /\ i \in 1 .. Len(s) + Len(r)
      BY <1>5, <1>6, <2>2
    <3> QED BY <1>5, <1>8, <2>2, <3>1
  <2> QED BY <2>1, <2>2
<1>10. AllKept(d, d.breakpoints, 0)
  BY <1>5, <1>9 DEF AllKept, u
<1>11. \A j \in Nat : InCases(d, j) => d.open[j].start <= Len(CodeOf(d))
  <2>1. Len(CodeOf(c)) \in Nat /\ offset \in Nat /\ Len(CodeOf(d)) = Len(CodeOf(c)) + offset
    BY CodeLen DEF LeavesSwitch, IsWorker
  <2> DEFINE x == Len(CodeOf(c))
             y == Len(CodeOf(d))
  <2> HIDE DEF x, y
  <2>2. x \in Nat /\ y = x + offset /\ offset \in Nat
    BY <2>1 DEF x, y
  <2>3. ASSUME NEW j \in Nat, InCases(d, j)
        PROVE  d.open[j].start <= y
    <3>1. c.open[j].start <= x /\ d.open[j].start = c.open[j].start
      BY <1>1, <2>3 DEF Begun, x
    <3>2. c.open[j] \in Statement
      BY <1>1, <2>3, OpenIs DEF InCases, Anchor, IsWorker
    <3>3. c.open[j].start \in Nat
      BY <3>2 DEF Statement
    <3> QED BY <2>2, <3>1, <3>3
  <2> QED BY <2>3 DEF y
<1> QED BY <1>10, <1>11 DEF Begun

\* Both lists of the switch go.
LEMMA SwitchClosed ==
  ASSUME NEW cs, Workers(cs), cs # <<>>, NEW d, NEW offset, LeavesSwitch(Last(cs), d, offset),
         NEW ds, Instead(cs, d, ds), NEW ms, NEW who, NEW where, Marks(cs, ms, who, where),
         NEW r, Shifted(Last(ms), offset, r), Found(Last(cs), d, r),
         NEW ss, Switches(cs, ss)
  PROVE  /\ Workers(ds) /\ Marks(ds, Front(ms), who, where) /\ Switches(ds, Front(ss))
<1> DEFINE n == Len(cs)
           c == cs[n]
           j == Len(c.open)
           rs == Front(ms)
           m == Len(ms)
<1>1. n \in Nat \ {0} /\ IsWorker(c) /\ Last(cs) = c
  BY OwnedByTop
<1>2. /\ Len(ds) = n /\ ds[n] = d /\ IsSeq(ds) /\ \A i \in 1 .. n - 1 : ds[i] = cs[i]
  BY DEF Instead
<1>3. LeavesSwitch(c, d, offset) /\ Found(c, d, r)
  BY <1>1
<1>4. /\ IsWorker(d) /\ j \in Nat /\ InCases(c, j)
      /\ \A k \in Nat : InCases(c, k) => k <= j
      /\ \A k \in Nat : InCases(d, k) => d.open[k].start = c.open[k].start
      /\ \A k \in Nat : InCases(d, k) <=> InCases(c, k) /\ k # j
      /\ \A k \in Nat : (k \in 1 .. Len(d.open) /\ d.open[k].kind \in ListKinds)
                            <=> k \in 1 .. Len(c.open) /\ c.open[k].kind \in ListKinds /\ k # j
  BY <1>1, <1>3, SwitchLeft
<1>5. \A k \in 1 .. Len(c.open) : k = j \/ k < j
  BY <1>4
<1>6. n = Len(cs) /\ n \in 1 .. n /\ (\A i \in 1 .. n : i = n \/ i \in 1 .. n - 1) /\ ~(n \in 1 .. n - 1)
  BY <1>1
<1>7. Workers(ds)
  BY <1>2, <1>4, <1>6 DEF Workers
<1>9. \A k \in Nat : (k \in 1 .. Len(d.open) /\ d.open[k].kind \in {"Cases"})
                            <=> k \in 1 .. Len(c.open) /\ c.open[k].kind \in {"Cases"} /\ k # j
  BY <1>4 DEF InCases, Anchor, AnchorKinds
<1>10. c = cs[n] /\ j = Len(c.open) /\ c.open[j].kind = "Cases" /\ j \in 1 .. Len(c.open)
  BY <1>4 DEF InCases, Anchor
<1> HIDE DEF j, c, n
<1>11. ASSUME NEW kinds, "Cases" \in kinds,
              \A k \in Nat : (k \in 1 .. Len(d.open) /\ d.open[k].kind \in kinds)
                              <=> k \in 1 .. Len(c.open) /\ c.open[k].kind \in kinds /\ k # j
       PROVE  /\ Owned(cs, kinds, n, j)
              /\ \A l, p, q : Belong(cs, kinds, l, p, q) => Belong(ds, kinds, l - 1, p, q)
  <2>1. Owned(cs, kinds, n, j)
    BY <1>6, <1>10, <1>11 DEF Owned
  <2>2. ASSUME NEW i \in Nat, NEW k \in Nat
        PROVE  /\ Owned(cs, kinds, i, k) => (i = n /\ k = j) \/ Inner(i, k, n, j)
               /\ Owned(ds, kinds, i, k) <=> Owned(cs, kinds, i, k) /\ ~(i = n /\ k = j)
    <3>1. CASE i = n
      BY <1>2, <1>5, <1>6, <1>10, <1>11, <3>1 DEF Owned, Inner
    <3>2. CASE i \in 1 .. n - 1
      <4>1. i < n /\ i # n /\ i \in 1 .. n
        BY <1>1, <3>2
      <4> QED BY <1>2, <1>6, <3>2, <4>1 DEF Owned, Inner
    <3>3. CASE ~(i \in 1 .. n)
      BY <1>2, <1>6, <3>3 DEF Owned
    <3> QED BY <1>6, <3>1, <3>2, <3>3
  <2>3. n \in Nat /\ j \in Nat
    BY <1>1, <1>4
  <2>4. ASSUME NEW l, NEW p, NEW q, Belong(cs, kinds, l, p, q)
        PROVE  Belong(ds, kinds, l - 1, p, q)
    BY <2>1, <2>2, <2>3, <2>4, ListsLess
  <2> QED BY <2>1, <2>4
<1>12. Switches(ds, Front(ss))
  <2>1. IsSeq(ss) /\ \A k \in 1 .. Len(ss) : IsSwitch(ss[k])
    BY DEF Switches
  <2>2. PICK p, q : Belong(cs, {"Cases"}, Len(ss), p, q)
    BY DEF Switches
  <2>3. Belong(ds, {"Cases"}, Len(ss) - 1, p, q) /\ Owned(cs, {"Cases"}, n, j)
    BY <1>9, <1>11, <2>2
  <2>4. Len(ss) \in Nat /\ ss # <<>>
    <3>1. \E k \in 1 .. Len(ss) : p[k] = n /\ q[k] = j
      BY <1>1, <1>4, <2>2, <2>3 DEF Belong
    <3>2. Len(ss) \in Nat
      BY <2>1, SeqLen
    <3>3. Len(ss) # 0
      BY <3>1, <3>2
    <3> QED BY <2>1, <3>2, <3>3, SeqLen
  <2>5. /\ Len(ss) \in Nat \ {0} /\ IsSeq(Front(ss)) /\ Len(Front(ss)) = Len(ss) - 1
        /\ \A k \in 1 .. Len(ss) - 1 : Front(ss)[k] = ss[k]
    BY <2>1, <2>4, SeqFront
  <2>6. \A k \in 1 .. Len(ss) - 1 : k \in 1 .. Len(ss)
    BY <2>5
  <2> QED BY <2>1, <2>3, <2>5, <2>6 DEF Switches
<1>13. IsSeq(ms) /\ m \in Nat /\ Belong(cs, ListKinds, m, who, where)
  BY SeqLen DEF Marks
<1>14. Belong(ds, ListKinds, m - 1, who, where) /\ Owned(cs, ListKinds, n, j)
  <2>1. "Cases" \in ListKinds
    BY DEF ListKinds
  <2> QED BY <1>4, <1>11, <1>13, <2>1
<1>15. /\ m \in 1 .. m /\ who[m] = n /\ where[m] = j
  <2>1. /\ m \in 1 .. m /\ who[m] = Len(cs) /\ where[m] \in Nat
        /\ Owned(cs, ListKinds, Len(cs), where[m])
        /\ \A k \in Nat : Owned(cs, ListKinds, Len(cs), k) => k <= where[m]
    BY <1>1, <1>4, <1>6, <1>13, <1>14, LastList
  <2>2. j <= where[m] /\ where[m] \in 1 .. Len(c.open)
    BY <1>4, <1>6, <1>10, <1>14, <2>1 DEF Owned
  <2> QED BY <1>4, <1>5, <1>6, <2>1, <2>2
<1>16. m \in Nat \ {0} /\ ms # <<>>
  <2>1. m # 0
    BY <1>13, <1>15
  <2> QED BY <1>13, <2>1, SeqLen
<1>17. /\ IsSeq(rs) /\ Len(rs) = m - 1 /\ Last(ms) = ms[m]
       /\ \A k \in 1 .. m - 1 : rs[k] = ms[k]
  BY <1>13, <1>16, SeqFront
<1>18. m = Len(ms)
  OBVIOUS
<1> HIDE DEF rs, m
<1>19. Begun(c) /\ AllKept(c, ms[m], j) /\ (ms[m] # <<>> => Alone(c, j))
  BY <1>6, <1>10, <1>15, <1>18 DEF Marks
<1>20. Begun(d)
  BY <1>1, <1>3, <1>10, <1>17, <1>19, BreakpointsFound
<1>21. \A i \in 1 .. n : Begun(ds[i])
  <2>1. \A i \in 1 .. n : Begun(cs[i])
    BY <1>6 DEF Marks
  <2> QED BY <1>2, <1>6, <1>20, <2>1
<1>22. ASSUME NEW k \in 1 .. m - 1
       PROVE  AllKept(ds[who[k]], rs[k], where[k]) /\ (rs[k] # <<>> => Alone(ds[who[k]], where[k]))
  <2>1. k \in 1 .. m /\ k < m
    BY <1>16
  <2>2. /\ rs[k] = ms[k] /\ AllKept(cs[who[k]], ms[k], where[k])
        /\ ms[k] # <<>> => Alone(cs[who[k]], where[k])
    BY <1>17, <1>18, <2>1 DEF Marks
  <2>3. who[k] \in 1 .. n /\ where[k] \in Nat /\ Inner(who[k], where[k], n, j)
    BY <1>6, <1>13, <1>15, <2>1 DEF Belong, Owned
  <2>4. CASE who[k] = n
    <3>1. where[k] < j
      BY <1>1, <2>3, <2>4 DEF Inner
    <3>2. \A e \in 1 .. Len(ms[k]) : ms[k][e] \in Mark /\ Kept(c, ms[k][e], where[k])
      BY <1>10, <2>2, <2>4, ElementOfSeq DEF AllKept
    <3>3. ASSUME NEW b \in Mark, Kept(c, b, where[k])
          PROVE  Kept(d, b, where[k])
      BY <1>1, <1>3, <1>10, <1>19, <2>3, <3>1, <3>3, KeptBefore
    <3>4. AllKept(d, ms[k], where[k])
      BY <2>2, <3>2, <3>3 DEF AllKept
    <3>5. ms[k] # <<>> => Alone(d, where[k])
      BY <1>4, <1>10, <2>2, <2>4 DEF Alone
    <3> QED BY <1>2, <2>2, <2>4, <3>4, <3>5
  <2>5. CASE who[k] \in 1 .. n - 1
    BY <1>2, <2>2, <2>5
  <2> QED BY <1>6, <2>3, <2>4, <2>5
<1>23. Marks(ds, rs, who, where)
  BY <1>2, <1>14, <1>17, <1>21, <1>22 DEF Marks
<1> QED BY <1>7, <1>12, <1>23 DEF rs

\* A chunk with text put in front of what starts behind start.
Reordered(code, start, t, e, moved) ==
  moved = SubSeq(code, 1, start) \o t \o e \o SubSeq(code, start + 1, Len(code))

\* What is before the block stays, the block moves by the length of what is put in.
LEMMA CodeMoved ==
  ASSUME NEW code, IsCode(code), NEW start \in Nat, start <= Len(code),
         NEW t, IsText(t), NEW e, IsText(e),
         NEW moved, Reordered(code, start, t, e, moved)
  PROVE  /\ IsCode(moved) /\ Len(moved) = Len(code) + (Len(t) + Len(e))
         /\ \A i \in 1 .. start : moved[i] = code[i]
         /\ \A i \in start + 1 .. Len(code) : moved[i + (Len(t) + Len(e))] = code[i]
<1> DEFINE n == Len(code)
           a == SubSeq(code, 1, start)
           b == SubSeq(code, start + 1, n)
           u == a \o t
           v == u \o e
           x == v \o b
<1>1. IsSeq(code) /\ n \in Nat /\ \A i \in 1 .. n : IsInstruction(code[i])
  BY SeqLen DEF IsCode
<1>2. IsSeq(t) /\ IsSeq(e) /\ Len(t) \in Nat /\ Len(e) \in Nat
  BY SeqLen DEF IsText
<1>3. n = Len(code) /\ start <= n
  OBVIOUS
<1> HIDE DEF n
<1>4. /\ IsSeq(a) /\ Len(a) = start /\ \A i \in 1 .. start : a[i] = code[i]
  <2>1. 1 \in Int /\ start \in Int /\ 1 <= 1 /\ 1 <= start + 1 /\ start <= Len(code)
    OBVIOUS
  <2>2. /\ IsSeq(a) /\ Len(a) = start - 1 + 1
        /\ \A i \in 1 .. start - 1 + 1 : a[i] = code[1 + i - 1]
    BY <1>1, <2>1, SeqSub
  <2>3. start - 1 + 1 = start /\ \A i \in 1 .. start : 1 + i - 1 = i
    OBVIOUS
  <2> HIDE DEF a
  <2> QED BY <2>2, <2>3
<1>5. /\ IsSeq(b) /\ Len(b) = n - start /\ \A i \in 1 .. n - start : b[i] = code[start + i]
  <2>1. start + 1 \in Int /\ n \in Int /\ 1 <= start + 1 /\ start + 1 <= n + 1 /\ n <= Len(code)
    BY <1>1, <1>3
  <2>2. /\ IsSeq(b) /\ Len(b) = n - (start + 1) + 1
        /\ \A i \in 1 .. n - (start + 1) + 1 : b[i] = code[start + 1 + i - 1]
    BY <1>1, <2>1, SeqSub
  <2>3. n - (start + 1) + 1 = n - start /\ \A i \in 1 .. n - start : start + 1 + i - 1 = start + i
    BY <1>1
  <2> HIDE DEF b
  <2> QED BY <2>2, <2>3
<1>6. IsText(a) /\ IsText(b)
  <2> HIDE DEF a, b
  <2>1. \A i \in 1 .. start : i \in 1 .. n
    BY <1>1, <1>3
  <2>2. \A i \in 1 .. n - start : start + i \in 1 .. n
    BY <1>1, <1>3
  <2>3. IsText(a)
    BY <1>1, <1>4, <2>1 DEF IsText
  <2>4. IsText(b)
    BY <1>1, <1>5, <2>2 DEF IsText
  <2> QED BY <2>3, <2>4
<1> HIDE DEF a, b
<1>7. /\ IsText(u) /\ Len(u) = Len(a) + Len(t) /\ \A i \in 1 .. Len(a) : u[i] = a[i]
  BY <1>2, <1>4, <1>6, TextConcat, SeqConcat
<1> HIDE DEF u
<1>8. /\ IsText(v) /\ Len(v) = Len(u) + Len(e) /\ \A i \in 1 .. Len(u) : v[i] = u[i]
  BY <1>2, <1>7, TextConcat, SeqConcat DEF IsText
<1> HIDE DEF v
<1>9. /\ IsText(x) /\ Len(x) = Len(v) + Len(b) /\ \A i \in 1 .. Len(v) : x[i] = v[i]
      /\ \A i \in 1 .. Len(b) : x[Len(v) + i] = b[i]
  <2>1. IsSeq(v) /\ IsSeq(b)
    BY <1>6, <1>8 DEF IsText
  <2>2. IsText(v \o b)
    BY <1>6, <1>8, TextConcat
  <2>3. /\ Len(v \o b) = Len(v) + Len(b) /\ \A i \in 1 .. Len(v) : (v \o b)[i] = v[i]
        /\ \A i \in 1 .. Len(b) : (v \o b)[Len(v) + i] = b[i]
    BY <2>1, SeqConcat
  <2> QED BY <2>2, <2>3
<1> HIDE DEF x
<1>10. Len(u) = start + Len(t) /\ Len(v) = start + (Len(t) + Len(e))
       /\ Len(x) = n + (Len(t) + Len(e))
  BY <1>1, <1>2, <1>3, <1>4, <1>5, <1>7, <1>8, <1>9
<1>11. ASSUME NEW i \in 1 .. start
       PROVE  x[i] = code[i]
  <2>1. i \in 1 .. Len(a) /\ i \in 1 .. Len(u) /\ i \in 1 .. Len(v)
    BY <1>2, <1>4, <1>10
  <2> QED BY <1>4, <1>7, <1>8, <1>9, <2>1
<1>12. ASSUME NEW i \in start + 1 .. n
       PROVE  x[i + (Len(t) + Len(e))] = code[i]
  <2>1. i - start \in 1 .. Len(b) /\ Len(v) + (i - start) = i + (Len(t) + Len(e))
    BY <1>1, <1>2, <1>3, <1>5, <1>10
  <2>2. i - start \in 1 .. n - start /\ start + (i - start) = i
    BY <1>1, <1>3
  <2>3. b[i - start] = code[i]
    BY <1>5, <2>2
  <2> QED BY <1>9, <2>1, <2>3
<1>13. IsCode(x)
  BY <1>9 DEF IsCode, IsText
<1>14. moved = x
  BY <1>3 DEF x, v, u, a, b, Reordered
<1> QED BY <1>3, <1>10, <1>11, <1>12, <1>13, <1>14

\* The tests of a switch.
LEMMA TextOfSeven ==
  ASSUME NEW a, NEW b, NEW c, NEW d, NEW e, NEW f, NEW g, NEW x,
         IsInstruction(a), IsInstruction(b), IsInstruction(c), IsInstruction(d),
         IsInstruction(e), IsInstruction(f), IsInstruction(g), x \in Int
  PROVE  LET s == [<<a, b, c, d, e, f, g>> EXCEPT ![TestJump].arg = x]
         IN  \A i \in 1 .. TestLength : IsInstruction(s[i])
<1> DEFINE r == <<a, b, c, d, e, f, g>>
           h == [f EXCEPT !.arg = x]
           s == [r EXCEPT ![6] = h]
<1>1. IsInstruction(h)
  BY DEF IsInstruction, Fields
<1>2. s = [<<a, b, c, d, e, f, g>> EXCEPT ![6].arg = x]
  OBVIOUS
<1>3. \A i \in 1 .. 7 : i = 1 \/ i = 2 \/ i = 3 \/ i = 4 \/ i = 5 \/ i = 6 \/ i = 7
  OBVIOUS
<1> HIDE DEF h
<1>4. s[1] = a /\ s[2] = b /\ s[3] = c /\ s[4] = d /\ s[5] = e /\ s[6] = h /\ s[7] = g
  OBVIOUS
<1> HIDE DEF s
<1>5. \A i \in 1 .. 7 : IsInstruction(s[i])
  BY <1>1, <1>3, <1>4
<1> QED BY <1>2, <1>5 DEF TestLength, TestJump

\* The tests of all labels, seven instructions each.
LEMMA TextOfTests ==
  ASSUME NEW cases, IsSeq(cases), NEW start \in Nat, NEW offset \in Nat,
         \A n \in 1 .. Len(cases) : cases[n].at \in Nat /\ IsInstruction(cases[n].code)
  PROVE  IsText(Tests(cases, start, offset)) /\ Len(Tests(cases, start, offset)) = TestLength * Len(cases)
<1> DEFINE l == Len(cases)
           jumpOf(i) == start + TestLength * (i - 1) + TestJump
           test(i) == [Test(cases[i]) EXCEPT ![TestJump].arg = cases[i].at + offset - jumpOf(i)]
           x == [n \in 1 .. TestLength * l |->
                   test(((n - 1) \div TestLength) + 1)[((n - 1) % TestLength) + 1]]
           m == TestLength * l
<1>1. l \in Nat /\ l = Len(cases)
  BY SeqLen
<1>2. ASSUME NEW i \in 1 .. l, NEW k \in 1 .. TestLength
      PROVE  IsInstruction(test(i)[k])
  <2> DEFINE y == cases[i].at + offset - jumpOf(i)
  <2>1. y \in Int
    BY <1>1 DEF TestLength, TestJump
  <2> HIDE DEF y
  <2>2. IsInstruction([JumpIfFalse EXCEPT !.arg = 2])
    BY OtherInstructions DEF IsInstruction, Fields
  <2>3. /\ IsInstruction(I("Copy")) /\ IsInstruction(I("Equal")) /\ IsInstruction(Pop(1))
        /\ IsInstruction(Pop(2)) /\ IsInstruction(Jump) /\ IsInstruction(cases[i].code)
    BY PlainInstructions, OtherInstructions
  <2> DEFINE q == cases[i].code
             j == [JumpIfFalse EXCEPT !.arg = 2]
             t == [<<I("Copy"), q, I("Equal"), j, Pop(2), Jump, Pop(1)>> EXCEPT ![TestJump].arg = y]
  <2>4. test(i) = t
    BY DEF Test, y
  <2> HIDE DEF q, j
  <2>5. IsInstruction(q) /\ IsInstruction(j)
    BY <2>2, <2>3 DEF q, j
  <2>6. \A p \in 1 .. TestLength : IsInstruction(t[p])
    BY <2>1, <2>3, <2>5, TextOfSeven
  <2> HIDE DEF t
  <2> QED BY <2>4, <2>6
<1> HIDE DEF test, l
<1>3. m \in Nat
  BY <1>1 DEF TestLength
<1>4. ASSUME NEW n \in 1 .. m
      PROVE  ((n - 1) \div TestLength) + 1 \in 1 .. l /\ ((n - 1) % TestLength) + 1 \in 1 .. TestLength
  BY <1>1 DEF TestLength
<1>5. \A n \in 1 .. m : IsInstruction(x[n])
  BY <1>2, <1>4
<1>6. x = [n \in 1 .. m |-> x[n]] /\ DOMAIN x = 1 .. m
  OBVIOUS
<1> HIDE DEF x, m
<1>7. IsSeq(x) /\ Len(x) = m
  BY <1>3, <1>6, SeqMap
<1>8. IsText(x)
  BY <1>5, <1>7 DEF IsText
<1>9. x = Tests(cases, start, offset)
  BY DEF x, Tests, test, l
<1> QED BY <1>7, <1>8, <1>9 DEF m, l

\* What a switch that is through leaves of the compiler.
Through(c, r, d) == d = [c EXCEPT !.open = Front(@), !.breakpoints = @ \o r]

\* The end of GetSwitchStatement, once the code is put together.
LEMMA LeavesSwitchIs ==
  ASSUME NEW c, IsWorker(c), c.open[Len(c.open)].kind = "Cases",
         NEW x, IsCode(x), NEW offset \in Nat \ {0}, Len(x) = Len(CodeOf(c)) + offset,
         \A i \in 1 .. c.open[Len(c.open)].start : x[i] = CodeOf(c)[i],
         \A i \in c.open[Len(c.open)].start + 1 .. Len(CodeOf(c)) : x[i + offset] = CodeOf(c)[i],
         c.open[Len(c.open)].start \in Nat, c.open[Len(c.open)].start <= Len(CodeOf(c)),
         NEW js, NEW r \in Seq(Mark),
         NEW patched, patched = PatchJumps([c EXCEPT !.code = x], js),
         NEW outer, Through(patched, r, outer)
  PROVE  /\ LeavesSwitch(c, Leave(outer), offset)
         /\ Found(c, Leave(outer), r)
<1> DEFINE n == Len(c.open)
           start == c.open[n].start
           moved == [c EXCEPT !.code = x]
           u == c.breakpoints \o r
           f == Front(patched.open)
           d == Leave(outer)
<1>1. IsCompiler(c) /\ c.open \in Seq(Statement) /\ n \in Nat \ {0} /\ IsSeq(c.open)
  BY OpenIs DEF IsWorker, IsCompiler
<1>2. /\ IsCompiler(moved) /\ SameStatements(c, moved) /\ CodeOf(moved) = x
      /\ moved.pending = c.pending
  BY <1>1 DEF IsCompiler, CompilerFields, SameStatements, CodeOf
<1> HIDE DEF moved
<1>3. /\ IsCompiler(patched) /\ SameStatements(moved, patched)
      /\ Patched(CodeOf(moved), js, CodeOf(patched)) /\ patched.pending = moved.pending
  <2>1. patched = PatchJumps(moved, js)
    BY DEF moved
  <2> QED BY <1>2, <2>1, PatchesJumps DEF Patches
<1>4. /\ IsCompiler(patched) /\ patched.open = c.open /\ patched.breakpoints = c.breakpoints
      /\ patched.fn = c.fn /\ patched.type = c.type /\ patched.params = c.params
      /\ patched.pending = c.pending /\ Len(CodeOf(patched)) = Len(x)
      /\ \A i \in 1 .. Len(x) : CodeOf(patched)[i].marks = x[i].marks
  BY <1>2, <1>3 DEF SameStatements, Patched
<1>5. n > 2
  <2>1. 1 \in 1 .. n /\ n \in 1 .. n
    BY <1>1
  <2>2. n > 1 /\ c.open[n - 1].kind = "Switch"
    BY <2>1 DEF IsWorker
  <2>3. c.open[1].kind = "Function"
    BY <2>1 DEF IsWorker
  <2>4. n - 1 # 1
    BY <2>2, <2>3
  <2>5. n \in Nat
    BY <1>1
  <2> HIDE DEF n
  <2> QED BY <2>2, <2>4, <2>5
<1> HIDE DEF n
<1>6. /\ f \in Seq(Statement) /\ f # <<>> /\ Len(f) = n - 1
      /\ \A j \in 1 .. n - 1 : f[j] = c.open[j]
  <2>1. Len(c.open) > 1 /\ n = Len(c.open)
    BY <1>5 DEF n
  <2> DEFINE g == [c EXCEPT !.open = Front(@)]
  <2>2. /\ IsCompiler(g) /\ Len(g.open) = Len(c.open) - 1
        /\ \A j \in 1 .. Len(c.open) - 1 : g.open[j] = c.open[j]
    BY <1>1, <2>1, FrontIs
  <2>3. g.open = f
    BY <1>1, <1>4 DEF IsCompiler, CompilerFields
  <2>4. g.open \in Seq(Statement) /\ g.open # <<>>
    BY <2>2 DEF IsCompiler
  <2> HIDE DEF g, f
  <2> QED BY <2>1, <2>2, <2>3, <2>4
<1>7. u \in Seq(Mark)
  BY <1>1, ConcatProperties DEF IsCompiler
<1> HIDE DEF f, u
<1>8. /\ IsCompiler(outer) /\ outer.open = f /\ outer.breakpoints = u /\ CodeOf(outer) = CodeOf(patched)
      /\ outer.fn = c.fn /\ outer.type = c.type /\ outer.params = c.params /\ outer.pending = c.pending
  <2>1. outer = [patched EXCEPT !.open = f, !.breakpoints = u]
    BY <1>4 DEF f, u, Through
  <2> QED BY <1>4, <1>6, <1>7, <2>1 DEF IsCompiler, CompilerFields, CodeOf
<1>9. n \in Nat /\ Len(outer.open) = n - 1 /\ n - 1 > 1 /\ n - 1 - 1 = n - 2
  BY <1>1, <1>5, <1>6, <1>8
<1>10. /\ IsCompiler(d) /\ SameRest(outer, d) /\ Len(d.open) = n - 2
       /\ \A j \in 1 .. n - 2 - 1 : d.open[j] = outer.open[j]
       /\ d.open[n - 2] = [outer.open[n - 2] EXCEPT !.next = outer.open[n - 2].next + 1, !.full = TRUE]
  <2>1. Len(outer.open) > 1 /\ Len(outer.open) - 1 = n - 2
    BY <1>9
  <2> DEFINE q == Len(outer.open) - 1
  <2>2. IsCompiler(outer) /\ Len(outer.open) > 1
    BY <1>8, <2>1
  <2>3. /\ IsCompiler(d) /\ SameRest(outer, d) /\ Len(d.open) = q
        /\ \A j \in 1 .. q - 1 : d.open[j] = outer.open[j]
        /\ d.open[q] = [outer.open[q] EXCEPT !.next = outer.open[q].next + 1, !.full = TRUE]
    BY <2>2, LeaveIs
  <2>4. q = n - 2
    BY <2>1
  <2> HIDE DEF q, d
  <2> QED BY <2>3, <2>4
<1> HIDE DEF d
<1>11. ASSUME NEW j \in 1 .. n - 2
       PROVE  d.open[j].kind = c.open[j].kind /\ d.open[j].start = c.open[j].start
  <2>1. j \in 1 .. n - 1
    BY <1>9
  <2>2. outer.open[j] = c.open[j]
    BY <1>6, <1>8, <2>1
  <2>3. CASE j \in 1 .. n - 2 - 1
    BY <1>10, <2>2, <2>3
  <2>4. CASE j = n - 2
    <3>1. outer.open[j] \in Statement
      BY <1>6, <1>8, <2>1, ElementOfSeq
    <3>2. d.open[j] = [outer.open[j] EXCEPT !.next = outer.open[j].next + 1, !.full = TRUE]
      BY <1>10, <2>4
    <3>3. d.open[j].kind = outer.open[j].kind /\ d.open[j].start = outer.open[j].start
      BY <3>1, <3>2, ReadOn
    <3> QED BY <2>2, <3>3
  <2>5. j \in 1 .. n - 2 - 1 \/ j = n - 2
    BY <1>9
  <2> QED BY <2>3, <2>4, <2>5
<1>12. /\ d.fn = c.fn /\ d.type = c.type /\ d.params = c.params /\ d.pending = c.pending
       /\ d.breakpoints = u /\ CodeOf(d) = CodeOf(patched)
  BY <1>8, <1>10 DEF SameRest
<1> DEFINE k == Len(CodeOf(c))
<1>13. k \in Nat /\ Len(x) = k + offset /\ start \in Nat /\ start <= k
  BY <1>1, CodeLen DEF n
<1>14. /\ \A i \in 1 .. start : x[i] = CodeOf(c)[i]
       /\ \A i \in start + 1 .. k : x[i + offset] = CodeOf(c)[i]
  BY DEF n
<1> HIDE DEF k
<1>15. start = c.open[n].start /\ c.open[n].kind = "Cases"
  BY DEF n
<1> HIDE DEF start
<1>16. /\ \A i \in 1 .. start : i \in 1 .. Len(x)
       /\ \A i \in start + 1 .. k : i + offset \in 1 .. Len(x)
  BY <1>13
<1>17. /\ \A i \in 1 .. start : CodeOf(d)[i].marks = CodeOf(c)[i].marks
       /\ \A i \in start + 1 .. k : CodeOf(d)[i + offset].marks = CodeOf(c)[i].marks
  BY <1>4, <1>12, <1>14, <1>16
<1>18. LeavesSwitch(c, d, offset)
  <2>1. IsCompiler(d) /\ Len(d.open) = n - 2 /\ d.pending = c.pending
        /\ d.fn = c.fn /\ d.type = c.type /\ d.params = c.params
    BY <1>10, <1>12
  <2>2. Len(CodeOf(d)) = k + offset
    BY <1>4, <1>12, <1>13
  <2> QED BY <1>11, <1>15, <1>17, <2>1, <2>2 DEF LeavesSwitch, n, k, start
<1>19. Found(c, d, r)
  BY <1>12 DEF u, Found
<1> QED BY <1>18, <1>19 DEF d

\* Some list belongs to the innermost compiler, so that there is a last one.
LEMMA LastMarks ==
  ASSUME NEW cs, Workers(cs), cs # <<>>, NEW ms, NEW who, NEW where, Marks(cs, ms, who, where)
  PROVE  /\ ms # <<>> /\ Len(ms) \in Nat \ {0} /\ Last(ms) = ms[Len(ms)] /\ Last(ms) \in Seq(Mark)
         /\ Len(ms) \in 1 .. Len(ms) /\ who[Len(ms)] = Len(cs)
<1>1. IsSeq(ms) /\ Belong(cs, ListKinds, Len(ms), who, where)
  BY DEF Marks
<1>2. Len(cs) \in Nat /\ Owned(cs, ListKinds, Len(cs), 1)
  BY OwnedByTop
<1>3. Len(ms) \in Nat /\ Len(ms) \in 1 .. Len(ms) /\ who[Len(ms)] = Len(cs)
  BY <1>1, <1>2, LastList
<1>4. Len(ms) # 0
  BY <1>3
<1>5. ms # <<>> /\ Last(ms) = ms[Len(ms)]
  BY <1>1, <1>4, SeqLen DEF Last
<1>6. ms[Len(ms)] \in Seq(Mark)
  BY <1>3 DEF Marks, AllKept
<1> QED BY <1>3, <1>4, <1>5, <1>6

\* A compiler in a block of labels has a list of labels.
LEMMA SomeSwitch ==
  ASSUME NEW cs, Workers(cs), cs # <<>>, NEW ss, Switches(cs, ss),
         Last(cs).open[Len(Last(cs).open)].kind = "Cases"
  PROVE  ss # <<>> /\ IsSwitch(Last(ss))
<1> DEFINE n == Len(cs)
           c == cs[n]
           j == Len(c.open)
<1>1. n \in Nat \ {0} /\ n \in 1 .. n /\ Last(cs) = c /\ IsWorker(c)
  BY OwnedByTop
<1>2. j \in Nat \ {0} /\ j \in 1 .. j
  BY <1>1, OpenIs DEF IsWorker
<1>3. Owned(cs, {"Cases"}, n, j)
  BY <1>1, <1>2 DEF Owned
<1>4. PICK p, q : Belong(cs, {"Cases"}, Len(ss), p, q)
  BY DEF Switches
<1>5. \E k \in 1 .. Len(ss) : p[k] = n /\ q[k] = j
  <2>1. \A a, b \in Nat : Owned(cs, {"Cases"}, a, b) => \E k \in 1 .. Len(ss) : p[k] = a /\ q[k] = b
    BY <1>4 DEF Belong
  <2>2. n \in Nat /\ j \in Nat
    BY <1>1, <1>2
  <2> HIDE DEF n, j
  <2> QED BY <1>3, <2>1, <2>2, Zenon
<1>6. IsSeq(ss) /\ Len(ss) \in Nat /\ \A k \in 1 .. Len(ss) : IsSwitch(ss[k])
  BY SeqLen DEF Switches
<1>7. Len(ss) # 0 /\ Len(ss) \in 1 .. Len(ss)
  BY <1>5, <1>6
<1> QED BY <1>6, <1>7, SeqLen DEF Last

\* GetSwitchStatement from its block on.
LEMMA StepCloseSwitch ==
  ASSUME NEW who, NEW where, Workers(compilers), Marks(compilers, marks, who, where),
         Switches(compilers, switches), IsFiniteSet(DOMAIN tree), CloseSwitch
  PROVE  /\ Workers(compilers') /\ Marks(compilers', marks', who, where)
         /\ Switches(compilers', switches') /\ IsFiniteSet(DOMAIN tree')
<1> DEFINE c == ScopeEnd(Top)
           start == Entry.start
           cases == Last(switches).cases
           default == Last(switches).default
           offset == TestLength * Len(cases) + 2
           block == SubSeq(c.code, start + 1, Size(c))
           exit == [Jump EXCEPT !.arg = (IF default = NoDefault THEN Size(c) ELSE default) - start]
           x == SubSeq(c.code, 1, start) \o Tests(cases, start, offset) \o <<Pop(1), exit>> \o block
           moved == [c EXCEPT !.code = x]
           shift(jumps) == {i + offset : i \in jumps}
           js == shift(Last(continues).jumps) \cup shift(Last(breaks).jumps)
           l == Last(marks)
           r == [i \in DOMAIN l |-> [l[i] EXCEPT !.at = @ + offset]]
           patched == PatchJumps(moved, js)
           outer == [patched EXCEPT !.open = Front(@), !.breakpoints = @ \o r]
           d == Leave(outer)
           cs == Append(Front(compilers), c)
           ds == Append(Front(compilers), d)
<1>1. /\ compilers # <<>> /\ Entry.kind = "Cases" /\ compilers' = ds /\ marks' = Front(marks)
      /\ switches' = Front(switches) /\ tree' = tree
  BY DEF CloseSwitch, Put
<1> HIDE DEF r, js
<1>2. /\ IsCompiler(Top) /\ Last(compilers) = Top /\ Entry = Top.open[Len(Top.open)]
      /\ Len(Top.open) \in Nat \ {0} /\ Entry \in Statement /\ IsWorker(Top) /\ IsSeq(compilers)
  BY <1>1, TopIs DEF Top, Workers
<1>3. Grows(Top, c) /\ IsCompiler(c) /\ c.open = Top.open
  BY <1>2, GrowsEnd
<1> HIDE DEF c
<1>4. /\ Instead(compilers, c, cs) /\ Instead(compilers, d, ds) /\ Last(cs) = c /\ cs # <<>>
  BY <1>1, <1>2, InsteadIs
<1>5. Workers(cs) /\ Marks(cs, marks, who, where) /\ Switches(cs, switches)
  BY <1>1, <1>2, <1>3, GrownStack
<1>6. l \in Seq(Mark)
  BY <1>4, <1>5, LastMarks
<1>7. IsWorker(c) /\ Begun(c)
  <2> DEFINE n == Len(cs)
  <2> HIDE DEF cs
  <2>1. n \in Nat \ {0} /\ n \in 1 .. n /\ cs[n] = c /\ IsWorker(cs[n])
    BY <1>4, <1>5, OwnedByTop
  <2> QED BY <1>5, <2>1 DEF Marks
<1>8. /\ c.open[Len(c.open)].kind = "Cases" /\ c.open[Len(c.open)].start = start
      /\ start \in Nat /\ Len(c.open) \in Nat \ {0}
  BY <1>1, <1>2, <1>3 DEF Statement
<1>9. start <= Len(CodeOf(c)) /\ Len(CodeOf(c)) \in Nat /\ Size(c) = Len(CodeOf(c)) /\ IsCode(CodeOf(c))
  <2>1. InCases(c, Len(c.open))
    BY <1>8 DEF InCases, Anchor, AnchorKinds
  <2>2. c.open[Len(c.open)].start <= Len(CodeOf(c))
    BY <1>7, <1>8, <2>1 DEF Begun
  <2> QED BY <1>3, <1>8, <2>2, CodeLen
<1>10. IsSwitch(Last(switches))
  BY <1>1, <1>2, SomeSwitch
<1>11. /\ IsSeq(cases) /\ default \in Int
       /\ \A n \in 1 .. Len(cases) : cases[n].at \in Nat /\ IsInstruction(cases[n].code)
  BY <1>10 DEF IsSwitch
<1>12. Len(cases) \in Nat /\ offset \in Nat \ {0}
  BY <1>11, SeqLen DEF TestLength
<1> HIDE DEF start, cases, default
<1>13. IsText(<<Pop(1), exit>>) /\ Len(<<Pop(1), exit>>) = 2
  <2> DEFINE t == (IF default = NoDefault THEN Size(c) ELSE default) - start
  <2>1. t \in Int
    BY <1>8, <1>9, <1>11
  <2> HIDE DEF t
  <2>2. IsInstruction([Jump EXCEPT !.arg = t])
    BY <2>1, OtherInstructions DEF IsInstruction, Fields
  <2>3. IsInstruction(exit)
    BY <2>2 DEF t
  <2> HIDE DEF exit
  <2> QED BY <2>3, OtherInstructions, TextOfTwo
<1> HIDE DEF exit
<1>14. IsText(Tests(cases, start, offset)) /\ Len(Tests(cases, start, offset)) = TestLength * Len(cases)
  <2>1. offset \in Nat /\ start \in Nat
    BY <1>8, <1>12
  <2> HIDE DEF offset
  <2> QED BY <1>11, <2>1, TextOfTests
<1> DEFINE t == Tests(cases, start, offset)
           e == <<Pop(1), exit>>
<1>15. Len(t) + Len(e) = offset
  BY <1>13, <1>14
<1>16. Reordered(CodeOf(c), start, t, e, x)
  BY <1>9 DEF CodeOf, Reordered
<1> HIDE DEF t, e, x, offset
<1>17. /\ IsCode(x) /\ Len(x) = Len(CodeOf(c)) + offset
       /\ \A i \in 1 .. start : x[i] = CodeOf(c)[i]
       /\ \A i \in start + 1 .. Len(CodeOf(c)) : x[i + offset] = CodeOf(c)[i]
  <2> DEFINE code == CodeOf(c)
  <2>1. IsText(t) /\ IsText(e)
    BY <1>13, <1>14 DEF t, e
  <2>2. IsCode(code) /\ start \in Nat /\ start <= Len(code)
    BY <1>8, <1>9
  <2>3. Reordered(code, start, t, e, x)
    BY <1>16
  <2> HIDE DEF code
  <2>4. /\ IsCode(x) /\ Len(x) = Len(code) + (Len(t) + Len(e))
        /\ \A i \in 1 .. start : x[i] = code[i]
        /\ \A i \in start + 1 .. Len(code) : x[i + (Len(t) + Len(e))] = code[i]
    BY <2>1, <2>2, <2>3, CodeMoved
  <2> QED BY <1>15, <2>4 DEF code
<1>18. r \in Seq(Mark) /\ Shifted(l, offset, r)
  <2>1. Len(l) \in Nat /\ DOMAIN l = 1 .. Len(l) /\ \A i \in 1 .. Len(l) : l[i] \in Mark
    BY <1>6, LenProperties, ElementOfSeq
  <2> HIDE DEF l
  <2>2. \A i \in 1 .. Len(l) : [l[i] EXCEPT !.at = @ + offset] \in Mark
    BY <1>12, <2>1 DEF Mark
  <2>3. r = [i \in 1 .. Len(l) |-> [l[i] EXCEPT !.at = @ + offset]]
    BY <2>1 DEF r
  <2>4. r \in [1 .. Len(l) -> Mark]
    BY <2>2, <2>3
  <2>5. r \in Seq(Mark) /\ Len(r) = Len(l)
    BY <2>1, <2>4, SeqDef, LenProperties
  <2>6. \A i \in 1 .. Len(l) : r[i].at = l[i].at + offset /\ r[i].of = l[i].of
    BY <2>1, <2>3 DEF Mark
  <2> QED BY <2>5, <2>6 DEF Shifted
<1>19. LeavesSwitch(c, d, offset) /\ Found(c, d, r)
  <2>1. /\ IsWorker(c) /\ c.open[Len(c.open)].kind = "Cases"
        /\ IsCode(x) /\ offset \in Nat \ {0} /\ Len(x) = Len(CodeOf(c)) + offset
        /\ r \in Seq(Mark)
    BY <1>7, <1>8, <1>12, <1>17, <1>18
  <2>2. \A i \in 1 .. c.open[Len(c.open)].start : x[i] = CodeOf(c)[i]
    BY <1>8, <1>17
  <2>3. \A i \in c.open[Len(c.open)].start + 1 .. Len(CodeOf(c)) : x[i + offset] = CodeOf(c)[i]
    BY <1>8, <1>17
  <2>4. c.open[Len(c.open)].start \in Nat /\ c.open[Len(c.open)].start <= Len(CodeOf(c))
    BY <1>8, <1>9
  <2>5. patched = PatchJumps([c EXCEPT !.code = x], js)
    OBVIOUS
  <2> HIDE DEF patched
  <2>6. Through(patched, r, outer)
    BY DEF Through
  <2> HIDE DEF outer
  <2> QED BY <2>1, <2>2, <2>3, <2>4, <2>5, <2>6, LeavesSwitchIs
<1> HIDE DEF d
<1>20. Instead(cs, d, ds)
  <2> HIDE DEF cs, ds
  <2> QED BY <1>4 DEF Instead
<1> HIDE DEF cs, ds
<1>21. Workers(ds) /\ Marks(ds, Front(marks), who, where) /\ Switches(ds, Front(switches))
  BY <1>4, <1>5, <1>18, <1>19, <1>20, SwitchClosed
<1> QED BY <1>1, <1>21

-----------------------------------------------------------------------------
(* Functions.                                                                *)

\* A compiler that begins.
Fresh(w) ==
  /\ IsCompiler(w) /\ Len(w.open) = 1 /\ w.open[1].kind = "Function"
  /\ w.breakpoints = <<>>

\* Initialize makes such a compiler.
LEMMA FreshIs ==
  ASSUME NEW f \in Nat, NEW type, NEW depth, NEW params
  PROVE  Fresh(NewCompiler(f, type, depth, params))
<1> DEFINE w == NewCompiler(f, type, depth, params)
           e == [kind |-> "Function", at |-> <<f>>, next |-> 1, full |-> FALSE, start |-> 0, exit |-> 0]
<1>1. /\ DOMAIN w = CompilerFields /\ w.fn = f /\ CodeOf(w) = <<>> /\ w.open = <<e>>
      /\ w.breakpoints = <<>>
  BY DEF NewCompiler, CompilerFields, CodeOf
<1> HIDE DEF w
<1>2. IsCode(<<>>)
  BY SeqEmpty DEF IsCode
<1>3. <<f>> \in Path
  BY DEF Path
<1>4. e \in Statement /\ e.kind = "Function"
  BY <1>3 DEF Statement, StatementKinds, Lists
<1> HIDE DEF e
<1>5. <<e>> \in Seq(Statement) /\ <<e>> # <<>> /\ Len(<<e>>) = 1 /\ <<e>>[1] = e
  BY <1>4
<1>6. <<>> \in Seq(Mark)
  OBVIOUS
<1>7. IsCompiler(w)
  BY <1>1, <1>2, <1>5, <1>6 DEF IsCompiler
<1> QED BY <1>1, <1>4, <1>5, <1>7 DEF Fresh, w

\* A function inside the one being compiled gets a list of its own.
LEMMA FunctionOpened ==
  ASSUME NEW cs, Workers(cs), NEW w, Fresh(w), NEW ms, NEW who, NEW where, Marks(cs, ms, who, where),
         NEW ss, Switches(cs, ss)
  PROVE  /\ Workers(Append(cs, w)) /\ \E a, b : Marks(Append(cs, w), Append(ms, <<>>), a, b)
         /\ Switches(Append(cs, w), ss)
<1> DEFINE n == Len(cs)
           ds == Append(cs, w)
           rs == Append(ms, <<>>)
           m == Len(ms)
<1>1. IsSeq(cs) /\ n \in Nat
  BY SeqLen DEF Workers
<1>2. /\ Len(ds) = n + 1 /\ ds[n + 1] = w /\ IsSeq(ds) /\ \A i \in 1 .. n : ds[i] = cs[i]
  BY <1>1, SeqAppend
<1>3. n = Len(cs) /\ n + 1 \in 1 .. n + 1 /\ (\A i \in 1 .. n : i \in 1 .. n + 1 /\ i # n + 1 /\ i < n + 1)
      /\ (\A i \in 1 .. n + 1 : i \in 1 .. n \/ i = n + 1)
  BY <1>1
<1> HIDE DEF ds, n
<1>4. \A j \in Nat : ~InCases(w, j)
  <2>1. \A j \in 1 .. Len(w.open) : j = 1
    BY DEF Fresh
  <2> QED BY <2>1 DEF InCases, Anchor, Fresh
<1>5. IsWorker(w)
  <2>1. \A j \in 1 .. Len(w.open) : j = 1
    BY DEF Fresh
  <2> QED BY <2>1 DEF IsWorker, Fresh
<1>6. Workers(ds)
  BY <1>2, <1>3, <1>5 DEF Workers
<1>7. \A j : AllKept(w, <<>>, j)
  <2>1. <<>> \in Seq(Mark) /\ Len(<<>>) = 0
    OBVIOUS
  <2> QED BY <2>1 DEF AllKept
<1>8. Begun(w)
  BY <1>4, <1>7 DEF Begun, Fresh
<1>9. Switches(ds, ss)
  <2>1. PICK p, q : Belong(cs, {"Cases"}, Len(ss), p, q)
    BY DEF Switches
  <2>2. ASSUME NEW i \in Nat, NEW j \in Nat
        PROVE  Owned(ds, {"Cases"}, i, j) <=> Owned(cs, {"Cases"}, i, j)
    <3>1. CASE i \in 1 .. n
      BY <1>2, <1>3, <3>1 DEF Owned
    <3>2. CASE i = n + 1
      <4>1. ~(w.open[j].kind \in {"Cases"} /\ j \in 1 .. Len(w.open))
        BY <1>4 DEF InCases, Anchor, AnchorKinds
      <4>2. ~(i \in 1 .. n)
        BY <1>3, <3>2
      <4> QED BY <1>2, <1>3, <3>2, <4>1, <4>2 DEF Owned
    <3>3. CASE ~(i \in 1 .. n + 1)
      BY <1>2, <1>3, <3>3 DEF Owned
    <3> QED BY <1>3, <3>1, <3>2, <3>3
  <2>3. Belong(ds, {"Cases"}, Len(ss), p, q)
    BY <2>1, <2>2, ListsStay
  <2> QED BY <2>3 DEF Switches
<1>10. IsSeq(ms) /\ m \in Nat /\ Belong(cs, ListKinds, m, who, where)
  BY SeqLen DEF Marks
<1>11. /\ IsSeq(rs) /\ Len(rs) = m + 1 /\ rs[m + 1] = <<>> /\ \A k \in 1 .. m : rs[k] = ms[k]
  BY <1>10, SeqAppend
<1> DEFINE a == [k \in 1 .. m + 1 |-> IF k = m + 1 THEN n + 1 ELSE who[k]]
           b == [k \in 1 .. m + 1 |-> IF k = m + 1 THEN 1 ELSE where[k]]
<1>12. m + 1 \in 1 .. m + 1 /\ \A k \in 1 .. m + 1 : k = m + 1 \/ (k \in 1 .. m /\ k # m + 1)
  BY <1>10
<1>13. /\ a[m + 1] = n + 1 /\ b[m + 1] = 1
       /\ \A k \in 1 .. m : k \in 1 .. m + 1 /\ a[k] = who[k] /\ b[k] = where[k]
  BY <1>10, <1>12
<1>14. m = Len(ms)
  OBVIOUS
<1> HIDE DEF m
<1>15. Belong(ds, ListKinds, m + 1, a, b)
  <2> HIDE DEF a, b
  <2>1. Owned(ds, ListKinds, n + 1, 1)
    <3>1. 1 \in 1 .. Len(w.open) /\ w.open[1].kind \in ListKinds
      BY DEF Fresh, ListKinds
    <3> QED BY <1>2, <1>3, <3>1 DEF Owned
  <2>2. ASSUME NEW i \in Nat, NEW j \in Nat
        PROVE  /\ Owned(cs, ListKinds, i, j) => Inner(i, j, n + 1, 1)
               /\ Owned(ds, ListKinds, i, j) <=> Owned(cs, ListKinds, i, j) \/ (i = n + 1 /\ j = 1)
    <3>1. CASE i \in 1 .. n
      BY <1>2, <1>3, <3>1 DEF Owned, Inner
    <3>2. CASE i = n + 1
      <4>1. j \in 1 .. Len(w.open) /\ w.open[j].kind \in ListKinds <=> j = 1
        BY DEF Fresh, ListKinds
      <4>2. ~(i \in 1 .. n)
        BY <1>3, <3>2
      <4> QED BY <1>2, <1>3, <3>2, <4>1, <4>2 DEF Owned
    <3>3. CASE ~(i \in 1 .. n + 1)
      BY <1>2, <1>3, <3>3 DEF Owned
    <3> QED BY <1>3, <3>1, <3>2, <3>3
  <2> DEFINE kinds == ListKinds
  <2> HIDE DEF kinds
  <2>3. /\ Belong(cs, kinds, m, who, where) /\ n + 1 \in Nat /\ 1 \in Nat /\ Owned(ds, kinds, n + 1, 1)
        /\ \A i, j \in Nat : Owned(cs, kinds, i, j) => Inner(i, j, n + 1, 1)
        /\ \A i, j \in Nat : Owned(ds, kinds, i, j) <=> Owned(cs, kinds, i, j) \/ (i = n + 1 /\ j = 1)
    BY <1>1, <1>10, <2>1, <2>2 DEF kinds
  <2>4. Belong(ds, kinds, m + 1, [k \in 1 .. m + 1 |-> IF k = m + 1 THEN n + 1 ELSE who[k]],
                                 [k \in 1 .. m + 1 |-> IF k = m + 1 THEN 1 ELSE where[k]])
    BY <2>3, ListsMore
  <2> QED BY <2>4 DEF kinds, a, b
<1> HIDE DEF a, b, rs
<1>16. \A i \in 1 .. n + 1 : Begun(ds[i])
  <2>1. \A i \in 1 .. n : Begun(cs[i])
    BY <1>3 DEF Marks
  <2> QED BY <1>2, <1>3, <1>8, <2>1
<1>17. ASSUME NEW k \in 1 .. m + 1
       PROVE  AllKept(ds[a[k]], rs[k], b[k]) /\ (rs[k] # <<>> => Alone(ds[a[k]], b[k]))
  <2>1. CASE k = m + 1
    BY <1>2, <1>7, <1>11, <1>13, <2>1
  <2>2. CASE k \in 1 .. m
    <3>1. /\ a[k] = who[k] /\ b[k] = where[k] /\ rs[k] = ms[k]
          /\ AllKept(cs[who[k]], ms[k], where[k])
          /\ ms[k] # <<>> => Alone(cs[who[k]], where[k])
      BY <1>11, <1>13, <1>14, <2>2 DEF Marks
    <3>2. who[k] \in 1 .. n
      BY <1>3, <1>10, <2>2 DEF Belong, Owned
    <3> QED BY <1>2, <3>1, <3>2
  <2> QED BY <1>12, <2>1, <2>2
<1>18. Marks(ds, rs, a, b)
  BY <1>2, <1>11, <1>15, <1>16, <1>17 DEF Marks
<1> QED BY <1>6, <1>9, <1>18 DEF rs, ds

\* GetFunction, called with the compiler around it at c.
LEMMA StepOpenFunction ==
  ASSUME NEW who, NEW where, Workers(compilers), Marks(compilers, marks, who, where),
         Switches(compilers, switches), IsFiniteSet(DOMAIN tree), compilers # <<>>,
         NEW c, Grows(Top, c), NEW type, NEW params, OpenFunction(c, type, params)
  PROVE  /\ Workers(compilers') /\ \E a, b : Marks(compilers', marks', a, b)
         /\ Switches(compilers', switches) /\ IsFiniteSet(DOMAIN tree')
<1> DEFINE w == NewCompiler(NextFunction, type, 1, params)
           cs == Append(Front(compilers), c)
<1>1. /\ compilers' = Append(cs, w) /\ marks' = Append(marks, <<>>)
      /\ Note(Over(Each({Here}, type), FunctionNote(NextFunction)))
  BY DEF OpenFunction
<1>2. Last(compilers) = Top
  BY DEF Top
<1>3. Workers(cs) /\ Marks(cs, marks, who, where) /\ Switches(cs, switches)
  BY <1>2, GrownStack
<1> HIDE DEF cs
<1>4. Fresh(w)
  BY NextFunctionIs, FreshIs
<1> HIDE DEF w
<1>5. /\ Workers(Append(cs, w)) /\ \E a, b : Marks(Append(cs, w), Append(marks, <<>>), a, b)
      /\ Switches(Append(cs, w), switches)
  BY <1>3, <1>4, FunctionOpened
<1>6. IsFiniteSet(DOMAIN tree')
  BY <1>1, NoteFinite, FewFinite, FunctionNoteFinite DEF Note
<1> QED BY <1>1, <1>5, <1>6

\* GetEventDeclaration, up to the body.
LEMMA StepEvent ==
  ASSUME NEW who, NEW where, Workers(compilers), Marks(compilers, marks, who, where),
         Switches(compilers, switches), IsFiniteSet(DOMAIN tree), NEW params, GetEventDeclaration(params)
  PROVE  /\ Workers(compilers') /\ \E a, b : Marks(compilers', marks', a, b)
         /\ Switches(compilers', switches) /\ IsFiniteSet(DOMAIN tree')
<1>1. compilers # <<>> /\ OpenFunction(Top, "Event", params)
  BY DEF GetEventDeclaration, Expected, Awaited
<1>2. Grows(Top, Top)
  BY <1>1, TopIs, GrowsNot
<1> QED BY <1>1, <1>2, StepOpenFunction

\* GetMethod, up to the body.
LEMMA StepMethod ==
  ASSUME NEW who, NEW where, Workers(compilers), Marks(compilers, marks, who, where),
         Switches(compilers, switches), IsFiniteSet(DOMAIN tree), NEW type, NEW params,
         GetMethod(type, params)
  PROVE  /\ Workers(compilers') /\ \E a, b : Marks(compilers', marks', a, b)
         /\ Switches(compilers', switches) /\ IsFiniteSet(DOMAIN tree')
<1>1. compilers # <<>> /\ OpenFunction(Emit(Top, <<At(Here)>>), type, params)
  BY DEF GetMethod, Expected, Awaited
<1>2. IsCompiler(Top) /\ IsInstruction(At(Here))
  BY <1>1, TopIs, OtherInstructions
<1>3. Grows(Top, Emit(Top, <<At(Here)>>))
  BY <1>2, GrowsOne
<1> QED BY <1>1, <1>3, StepOpenFunction

LEMMA FrontTwice ==
  ASSUME NEW s, IsSeq(s), Len(s) > 1
  PROVE  Front(Front(s)) = SubSeq(s, 1, Len(s) - 2)
<1> DEFINE n == Len(s)
           f == Front(s)
           a == Front(f)
           b == SubSeq(s, 1, n - 2)
<1>1. n \in Nat /\ s # <<>>
  BY SeqLen, SeqEmpty
<1>2. IsSeq(f) /\ Len(f) = n - 1 /\ \A i \in 1 .. n - 1 : f[i] = s[i]
  BY <1>1, SeqFront
<1>3. n > 1 /\ n = Len(s)
  OBVIOUS
<1> HIDE DEF f, n
<1>4. f # <<>>
  <2>1. Len(f) # 0
    BY <1>1, <1>2, <1>3
  <2> QED BY <2>1, SeqEmpty
<1>5. IsSeq(a) /\ Len(a) = Len(f) - 1 /\ \A i \in 1 .. Len(f) - 1 : a[i] = f[i]
  BY <1>2, <1>4, SeqFront
<1>6. IsSeq(b) /\ Len(b) = n - 2 /\ \A i \in 1 .. n - 2 : b[i] = s[i]
  <2>1. 1 \in Int /\ n - 2 \in Int /\ 1 <= 1 /\ 1 <= n - 2 + 1 /\ n - 2 <= Len(s)
    BY <1>1, <1>3
  <2>2. /\ IsSeq(b) /\ Len(b) = n - 2 - 1 + 1
        /\ \A i \in 1 .. n - 2 - 1 + 1 : b[i] = s[1 + i - 1]
    BY <2>1, SeqSub
  <2>3. n - 2 - 1 + 1 = n - 2 /\ \A i \in 1 .. n - 2 : 1 + i - 1 = i
    BY <1>1
  <2> HIDE DEF b
  <2> QED BY <2>2, <2>3
<1> HIDE DEF a, b
<1>7. Len(a) = n - 2 /\ \A i \in 1 .. n - 2 : a[i] = b[i]
  <2>1. Len(a) = n - 2
    BY <1>1, <1>2, <1>5
  <2>2. \A i \in 1 .. n - 2 : i \in 1 .. n - 1 /\ i \in 1 .. Len(f) - 1
    BY <1>1, <1>2
  <2> QED BY <1>2, <1>5, <1>6, <2>1, <2>2
<1>8. a \in Seq(Elems(a) \cup Elems(b)) /\ b \in Seq(Elems(a) \cup Elems(b))
  BY <1>5, <1>6, SeqBoth
<1> DEFINE S == Elems(a) \cup Elems(b)
<1> HIDE DEF S
<1>9. a \in Seq(S) /\ b \in Seq(S) /\ Len(a) = Len(b) /\ \A i \in 1 .. Len(a) : a[i] = b[i]
  BY <1>6, <1>7, <1>8 DEF S
<1>10. a = b
  BY <1>9, SeqEqual
<1> QED BY <1>10 DEF a, b, f, n

\* The innermost compiler is through.
LEMMA FunctionClosed ==
  ASSUME NEW cs, Workers(cs), cs # <<>>, Last(cs).open[Len(Last(cs).open)].kind = "Function",
         NEW ms, NEW who, NEW where, Marks(cs, ms, who, where), NEW ss, Switches(cs, ss)
  PROVE  /\ Workers(Front(cs)) /\ Marks(Front(cs), Front(ms), who, where) /\ Switches(Front(cs), ss)
         /\ Begun(Last(cs)) /\ AllKept(Last(cs), Last(ms), 1)
<1> DEFINE n == Len(cs)
           c == cs[n]
           ds == Front(cs)
           rs == Front(ms)
           m == Len(ms)
<1>1. n \in Nat \ {0} /\ n \in 1 .. n /\ Last(cs) = c /\ IsWorker(c) /\ IsSeq(cs)
  BY OwnedByTop DEF Workers
<1>2. IsSeq(ds) /\ Len(ds) = n - 1 /\ \A i \in 1 .. n - 1 : ds[i] = cs[i]
  BY <1>1, SeqFront
<1>3. Len(c.open) = 1 /\ c.open[1].kind = "Function"
  <2>1. Len(c.open) \in Nat \ {0} /\ Len(c.open) \in 1 .. Len(c.open)
    BY <1>1, OpenIs DEF IsWorker
  <2> QED BY <1>1, <2>1 DEF IsWorker
<1>4. c = cs[n] /\ n = Len(cs)
  OBVIOUS
<1> HIDE DEF ds, c, n
<1>5. /\ \A i \in 1 .. n - 1 : i \in 1 .. n /\ i # n /\ i < n
      /\ \A i \in 1 .. n : i = n \/ i \in 1 .. n - 1
  BY <1>1
<1>6. Workers(ds)
  BY <1>2, <1>4, <1>5 DEF Workers
<1>7. \A j \in Nat : j \in 1 .. Len(c.open) <=> j = 1
  BY <1>3
<1>8. ASSUME NEW i \in Nat, NEW j \in Nat, NEW kinds
      PROVE  Owned(ds, kinds, i, j) <=> Owned(cs, kinds, i, j) /\ i # n
  <2>1. i \in 1 .. n - 1 <=> i \in 1 .. n /\ i # n
    BY <1>1
  <2>2. CASE i \in 1 .. n - 1
    BY <1>2, <1>4, <2>1, <2>2 DEF Owned
  <2>3. CASE ~(i \in 1 .. n - 1)
    BY <1>2, <1>4, <2>1, <2>3 DEF Owned
  <2> QED BY <2>2, <2>3
<1>9. ASSUME NEW j \in Nat
      PROVE  /\ Owned(cs, ListKinds, n, j) <=> j = 1
             /\ ~Owned(cs, {"Cases"}, n, j)
  BY <1>1, <1>3, <1>4, <1>7 DEF Owned, ListKinds
<1>10. Switches(ds, ss)
  <2>1. PICK p, q : Belong(cs, {"Cases"}, Len(ss), p, q)
    BY DEF Switches
  <2>2. ASSUME NEW i \in Nat, NEW j \in Nat
        PROVE  Owned(ds, {"Cases"}, i, j) <=> Owned(cs, {"Cases"}, i, j)
    BY <1>8, <1>9
  <2>3. Belong(ds, {"Cases"}, Len(ss), p, q)
    BY <2>1, <2>2, ListsStay
  <2> QED BY <2>3 DEF Switches
<1>11. IsSeq(ms) /\ m \in Nat /\ Belong(cs, ListKinds, m, who, where)
  BY SeqLen DEF Marks
<1>12. /\ ms # <<>> /\ m \in Nat \ {0} /\ m \in 1 .. m /\ Last(ms) = ms[m] /\ who[m] = n
  BY <1>4, LastMarks
<1>13. where[m] = 1
  <2>1. where[m] \in Nat /\ Owned(cs, ListKinds, n, where[m])
    BY <1>11, <1>12 DEF Belong
  <2> QED BY <1>9, <2>1
<1>14. /\ IsSeq(rs) /\ Len(rs) = m - 1 /\ \A k \in 1 .. m - 1 : rs[k] = ms[k]
  BY <1>11, <1>12, SeqFront
<1>15. m = Len(ms)
  OBVIOUS
<1> HIDE DEF m, rs
<1>16. Belong(ds, ListKinds, m - 1, who, where)
  <2>1. n \in Nat /\ 1 \in Nat /\ Owned(cs, ListKinds, n, 1)
    BY <1>1, <1>9
  <2>2. ASSUME NEW i \in Nat, NEW j \in Nat
        PROVE  /\ Owned(cs, ListKinds, i, j) => (i = n /\ j = 1) \/ Inner(i, j, n, 1)
               /\ Owned(ds, ListKinds, i, j) <=> Owned(cs, ListKinds, i, j) /\ ~(i = n /\ j = 1)
    <3>1. Owned(cs, ListKinds, i, j) => i = n \/ i < n
      BY <1>4, <1>5 DEF Owned
    <3> QED BY <1>8, <1>9, <3>1 DEF Inner
  <2> DEFINE kinds == ListKinds
             e == 1
  <2> HIDE DEF kinds, e
  <2>3. Belong(cs, kinds, m, who, where) /\ n \in Nat /\ e \in Nat /\ Owned(cs, kinds, n, e)
    BY <1>11, <2>1 DEF kinds, e
  <2>4. /\ \A i, j \in Nat : Owned(cs, kinds, i, j) => (i = n /\ j = e) \/ Inner(i, j, n, e)
        /\ \A i, j \in Nat : Owned(ds, kinds, i, j) <=> Owned(cs, kinds, i, j) /\ ~(i = n /\ j = e)
    BY <2>2 DEF kinds, e
  <2>5. Belong(ds, kinds, m - 1, who, where)
    BY <2>3, <2>4, ListsLess
  <2> QED BY <2>5 DEF kinds
<1>17. Begun(c) /\ AllKept(c, ms[m], 1)
  BY <1>1, <1>4, <1>12, <1>13, <1>15 DEF Marks
<1>18. \A i \in 1 .. n - 1 : Begun(ds[i])
  <2>1. \A i \in 1 .. n : Begun(cs[i])
    BY <1>4 DEF Marks
  <2> QED BY <1>2, <1>5, <2>1
<1>19. ASSUME NEW k \in 1 .. m - 1
       PROVE  AllKept(ds[who[k]], rs[k], where[k]) /\ (rs[k] # <<>> => Alone(ds[who[k]], where[k]))
  <2>1. k \in 1 .. m
    BY <1>12
  <2>2. /\ rs[k] = ms[k] /\ AllKept(cs[who[k]], ms[k], where[k])
        /\ ms[k] # <<>> => Alone(cs[who[k]], where[k])
    BY <1>14, <1>15, <2>1 DEF Marks
  <2>3. who[k] \in 1 .. n - 1
    <3>1. who[k] \in Nat /\ where[k] \in Nat /\ Owned(ds, ListKinds, who[k], where[k])
      BY <1>16 DEF Belong
    <3> QED BY <1>2, <3>1 DEF Owned
  <2> QED BY <1>2, <2>2, <2>3
<1>20. Marks(ds, rs, who, where)
  BY <1>2, <1>14, <1>16, <1>18, <1>19 DEF Marks
<1> QED BY <1>1, <1>6, <1>10, <1>12, <1>17, <1>20 DEF ds, rs

\* BreakpointsPlaced for one chunk.
ChunkPlaced(k) ==
  \A i \in DOMAIN k.breakpoints : k.breakpoints[i].of \in k.code[k.breakpoints[i].at + 1].marks

\* What was to come has come.
LEMMA FinishPlaced ==
  ASSUME NEW c, IsCompiler(c), Begun(c), AllKept(c, Last(marks), 1)
  PROVE  ChunkPlaced(Finish(c))
<1> DEFINE s == EmitReturn(c)
           q == <<c.fn, 0>>
           t == <<Placed(s[1], q), s[2]>>
           d == Emit(c, t)
           l == Last(marks)
           k == Finish(c)
           u == c.breakpoints
           v == u \o l
<1>1. k.code = CodeOf(d) /\ k.breakpoints = v
  BY DEF Finish, CodeOf
<1>2. q \in Path
  <2>1. c.fn \in Nat /\ 0 \in Nat
    BY DEF IsCompiler
  <2> QED BY <2>1 DEF Path
<1> HIDE DEF q, k
<1>3. IsInstruction(s[1]) /\ IsInstruction(s[2])
  BY TextOfReturn DEF IsCompiler
<1> HIDE DEF s
<1>4. IsText(t) /\ t # <<>>
  BY <1>2, <1>3, PlainInstructions, TextOfTwo
<1> HIDE DEF t
<1>5. Adds(c, t, d)
  BY <1>4, AddsEmit
<1>6. Grows(c, d) /\ d.pending = {}
  BY <1>4, <1>5, GrowsAdds DEF Adds
<1> HIDE DEF d
<1>7. ASSUME NEW b \in Mark, Stopped(c, b)
      PROVE  b.of \in CodeOf(d)[b.at + 1].marks
  <2>1. Stopped(d, b)
    BY <1>6, <1>7 DEF Grows
  <2>2. b.at # Len(CodeOf(d))
    BY <1>6, <2>1 DEF Stopped
  <2>3. Len(CodeOf(d)) \in Nat
    BY <1>6, CodeLen DEF Grows
  <2> QED BY <2>1, <2>2, <2>3 DEF Stopped
<1>8. /\ u \in Seq(Mark) /\ \A e \in 1 .. Len(u) : u[e] \in Mark /\ Stopped(c, u[e])
      /\ l \in Seq(Mark) /\ \A e \in 1 .. Len(l) : l[e] \in Mark /\ Stopped(c, l[e])
  BY ElementOfSeq DEF Begun, AllKept, Kept
<1> HIDE DEF u, l
<1>9. /\ v \in Seq(Mark) /\ Len(v) = Len(u) + Len(l)
      /\ \A i \in 1 .. Len(u) + Len(l) : v[i] = IF i <= Len(u) THEN u[i] ELSE l[i - Len(u)]
  BY <1>8, ConcatProperties
<1> HIDE DEF v
<1>10. Len(u) \in Nat /\ Len(l) \in Nat /\ DOMAIN v = 1 .. Len(v)
  BY <1>8, <1>9, LenProperties
<1>11. ASSUME NEW i \in DOMAIN v
       PROVE  v[i] \in Mark /\ Stopped(c, v[i])
  <2>1. i \in 1 .. Len(u) + Len(l)
    BY <1>9, <1>10
  <2>2. CASE i <= Len(u)
    <3>1. i \in 1 .. Len(u)
      BY <1>10, <2>1, <2>2
    <3> QED BY <1>8, <1>9, <2>1, <2>2, <3>1
  <2>3. CASE ~(i <= Len(u))
    <3>1. i - Len(u) \in 1 .. Len(l)
      BY <1>10, <2>1, <2>3
    <3> QED BY <1>8, <1>9, <2>1, <2>3, <3>1
  <2> QED BY <2>2, <2>3
<1>12. ASSUME NEW i \in DOMAIN k.breakpoints
       PROVE  k.breakpoints[i].of \in k.code[k.breakpoints[i].at + 1].marks
  BY <1>1, <1>7, <1>11
<1> QED BY <1>12 DEF ChunkPlaced, k

\* GetFunction from the end of the body on, Finish included.
LEMMA StepCloseFunction ==
  ASSUME NEW who, NEW where, Workers(compilers), Marks(compilers, marks, who, where),
         Switches(compilers, switches), IsFiniteSet(DOMAIN tree), BreakpointsPlaced, CloseFunction
  PROVE  /\ Workers(compilers') /\ Marks(compilers', marks', who, where)
         /\ Switches(compilers', switches') /\ IsFiniteSet(DOMAIN tree') /\ BreakpointsPlaced'
<1> DEFINE n == Len(compilers)
           fs == Front(compilers)
           outer == compilers[n - 1]
           after == IF Top.type = "Event"
                    THEN <<At(Part(Last(outer.open).at, Last(outer.open).next)), I("Define")>>
                    ELSE <<I("DefineMethod")>>
           d == Advance(Emit(outer, after))
<1>1. /\ compilers # <<>> /\ Entry.kind = "Function" /\ marks' = Front(marks)
      /\ chunks' = Over(Each({Top.fn}, Finish(Top)), chunks)
      /\ n = 1 => compilers' = <<>>
      /\ n # 1 => compilers' = Append(SubSeq(compilers, 1, n - 2), d)
      /\ switches' = switches /\ tree' = tree
  BY DEF CloseFunction
<1>2. /\ n \in Nat \ {0} /\ IsSeq(compilers) /\ IsCompiler(Top) /\ Last(compilers) = Top
      /\ Top.open[Len(Top.open)].kind = "Function"
  BY <1>1, TopIs DEF Top, Workers
<1>3. /\ Workers(fs) /\ Marks(fs, Front(marks), who, where) /\ Switches(fs, switches)
      /\ Begun(Top) /\ AllKept(Top, Last(marks), 1)
  BY <1>1, <1>2, FunctionClosed
<1>4. IsSeq(fs) /\ Len(fs) = n - 1 /\ \A i \in 1 .. n - 1 : fs[i] = compilers[i]
  BY <1>1, <1>2, SeqFront
<1>5. /\ Workers(compilers') /\ Marks(compilers', Front(marks), who, where)
      /\ Switches(compilers', switches)
  <2>1. CASE n = 1
    <3>1. fs = <<>>
      <4>1. Len(fs) = 0
        BY <1>4, <2>1
      <4> QED BY <1>4, <4>1, SeqLen
    <3> QED BY <1>1, <1>3, <2>1, <3>1
  <2>2. CASE n # 1
    <3> DEFINE m == n - 1
    <3>1. m \in 1 .. m /\ m \in Nat \ {0} /\ n > 1
      <4>1. n \in Nat \ {0}
        BY <1>2
      <4> HIDE DEF n
      <4> QED BY <2>2, <4>1
    <3>2. fs # <<>> /\ fs[m] = outer
      <4>1. Len(fs) # 0
        BY <1>4, <3>1
      <4> QED BY <1>4, <3>1, <4>1, SeqLen
    <3>3. Front(fs) = SubSeq(compilers, 1, n - 2)
      BY <1>2, <3>1, FrontTwice
    <3>4. Last(fs) = outer /\ IsWorker(outer)
      <4> HIDE DEF fs, outer
      <4>1. Len(fs) = m
        BY <1>4
      <4> HIDE DEF m
      <4>2. Last(fs) = outer
        BY <3>2, <4>1 DEF Last
      <4>3. IsWorker(fs[m])
        BY <1>3, <3>1, <4>1 DEF Workers
      <4> QED BY <3>2, <4>2, <4>3
    <3> HIDE DEF fs, outer
    <3>5. IsText(after)
      <4>1. /\ IsInstruction(I("Define")) /\ IsInstruction(I("DefineMethod"))
        BY PlainInstructions
      <4>2. Last(outer.open).at \in Path /\ Last(outer.open).next \in Nat
        <5>1. outer.open[Len(outer.open)] \in Statement /\ Last(outer.open) = outer.open[Len(outer.open)]
          BY <3>4, OpenIs DEF IsWorker
        <5> QED BY <5>1 DEF Statement
      <4> DEFINE q == Part(Last(outer.open).at, Last(outer.open).next)
      <4>3. q \in Path
        BY <4>2, PartOf
      <4> HIDE DEF q
      <4>4. IsText(<<At(q), I("Define")>>) /\ IsText(<<I("DefineMethod")>>)
        BY <4>1, <4>3, OtherInstructions, TextOfOne, TextOfTwo
      <4> QED BY <4>4 DEF q
    <3> HIDE DEF after
    <3>6. Grows(outer, d)
      <4>1. IsCompiler(outer)
        BY <3>4 DEF IsWorker
      <4>2. Grows(outer, Emit(outer, after)) /\ IsCompiler(Emit(outer, after))
        BY <3>5, <4>1, GrowsEmit
      <4>3. Grows(Emit(outer, after), d)
        BY <4>2, GrowsAdvance
      <4> QED BY <4>1, <4>2, <4>3, GrowsAgain
    <3> HIDE DEF d
    <3>7. compilers' = Append(Front(fs), d)
      BY <1>1, <2>2, <3>3
    <3> QED BY <1>3, <3>2, <3>4, <3>6, <3>7, GrownStack
  <2> QED BY <2>1, <2>2
<1>6. BreakpointsPlaced'
  <2> DEFINE x == Finish(Top)
             new == Each({Top.fn}, x)
  <2>1. ChunkPlaced(x)
    BY <1>2, <1>3, FinishPlaced
  <2>2. \A f \in DOMAIN chunks : ChunkPlaced(chunks[f])
    BY DEF BreakpointsPlaced, ChunkPlaced
  <2> HIDE DEF x
  <2>3. DOMAIN new = {Top.fn} /\ new[Top.fn] = x
    BY DEF Each
  <2> HIDE DEF new
  <2>4. chunks' = Over(new, chunks)
    BY <1>1 DEF new, x
  <2>5. \A f \in DOMAIN chunks' : ChunkPlaced(chunks'[f])
    BY <2>1, <2>2, <2>3, <2>4 DEF Over
  <2> QED BY <2>5 DEF BreakpointsPlaced, ChunkPlaced
<1> QED BY <1>1, <1>3, <1>5, <1>6

-----------------------------------------------------------------------------
(* The invariant, and what it says of the finished functions.                *)

\* The breakpoints of the functions at work are where their statements are, or
\* where they will be, and the switches under way have their labels.
BreakpointsKept ==
  /\ Workers(compilers) /\ Switches(compilers, switches) /\ IsFiniteSet(DOMAIN tree)
  /\ \E who, where : Marks(compilers, marks, who, where)
  /\ BreakpointsPlaced

\* Growing preserves the invariant.
LEMMA KeptOn ==
  ASSUME BreakpointsKept, GoesOn, marks' = marks, chunks' = chunks, Switches(compilers, switches')
  PROVE  BreakpointsKept'
<1>1. PICK d : Grows(Top, d) /\ compilers' = Append(Front(compilers), d)
  BY DEF GoesOn
<1>2. compilers # <<>> /\ IsFiniteSet(DOMAIN tree') /\ Last(compilers) = Top
  BY DEF GoesOn, Top
<1>3. PICK who, where : Marks(compilers, marks, who, where)
  BY DEF BreakpointsKept
<1>4. Workers(compilers') /\ Marks(compilers', marks, who, where) /\ Switches(compilers', switches')
  BY <1>1, <1>2, <1>3, GrownStack DEF BreakpointsKept
<1>5. BreakpointsPlaced'
  BY DEF BreakpointsKept, BreakpointsPlaced
<1> QED BY <1>2, <1>4, <1>5 DEF BreakpointsKept

\* So does any step that finishes no chunk and keeps the lists.
LEMMA KeptElse ==
  ASSUME BreakpointsKept, chunks' = chunks, Workers(compilers'), IsFiniteSet(DOMAIN tree'),
         Switches(compilers', switches'), \E a, b : Marks(compilers', marks', a, b)
  PROVE  BreakpointsKept'
BY DEF BreakpointsKept, BreakpointsPlaced

\* The first function of a file.
LEMMA FileBegun ==
  /\ Workers(File) /\ \E a, b : Marks(File, <<<<>>>>, a, b)
  /\ Switches(File, <<>>) /\ IsFiniteSet(DOMAIN EmptyFile)
<1> DEFINE w == NewCompiler(1, "Main", 0, 0)
           e == <<>>
<1>1. IsSeq(e) /\ Len(e) = 0
  BY SeqEmpty
<1>2. Fresh(w)
  BY FreshIs
<1>3. Append(e, w) = File /\ Append(e, e) = <<<<>>>>
  BY DEF File
<1> HIDE DEF e, w
<1>4. \A i : i \notin 1 .. Len(e)
  BY <1>1
<1>5. Workers(e)
  BY <1>1, <1>4 DEF Workers
<1>6. \A kinds, p, q : Belong(e, kinds, Len(e), p, q)
  BY <1>1, <1>4 DEF Belong, Owned
<1>7. Marks(e, e, e, e) /\ Switches(e, e)
  BY <1>1, <1>4, <1>6 DEF Marks, Switches
<1>8. Workers(Append(e, w)) /\ (\E a, b : Marks(Append(e, w), Append(e, e), a, b)) /\ Switches(Append(e, w), e)
  <2> DEFINE cs == e
             ms == e
             p == e
             ss == e
  <2>1. Workers(cs) /\ Marks(cs, ms, p, p) /\ Switches(cs, ss)
    BY <1>5, <1>7
  <2> HIDE DEF cs, ms, p, ss
  <2>2. /\ Workers(Append(cs, w)) /\ \E a, b : Marks(Append(cs, w), Append(ms, <<>>), a, b)
        /\ Switches(Append(cs, w), ss)
    BY <1>2, <2>1, FunctionOpened
  <2> QED BY <2>2 DEF cs, ms, ss, e
<1>9. IsFiniteSet(DOMAIN EmptyFile)
  BY FunctionNoteFinite DEF EmptyFile
<1> QED BY <1>3, <1>8, <1>9 DEF e

\* The compiler at the beginning of a file.
LEMMA KeptFile ==
  ASSUME compilers' = File, marks' = <<<<>>>>, switches' = <<>>, tree' = EmptyFile, chunks' = <<>>
  PROVE  BreakpointsKept'
<1>1. /\ Workers(compilers') /\ (\E a, b : Marks(compilers', marks', a, b))
      /\ Switches(compilers', switches') /\ IsFiniteSet(DOMAIN tree')
  BY FileBegun
<1>2. BreakpointsPlaced'
  BY DEF BreakpointsPlaced
<1> QED BY <1>1, <1>2 DEF BreakpointsKept

LEMMA KeptInit ==
  ASSUME CodeInit
  PROVE  BreakpointsKept
<1>1. /\ Workers(compilers) /\ (\E a, b : Marks(compilers, marks, a, b))
      /\ Switches(compilers, switches) /\ IsFiniteSet(DOMAIN tree)
  BY FileBegun DEF CodeInit, Init
<1>2. BreakpointsPlaced
  BY DEF BreakpointsPlaced, CodeInit, Init
<1> QED BY <1>1, <1>2 DEF BreakpointsKept

\* One step for each statement that is read.
LEMMA KeptRead ==
  ASSUME "Breakpoint" \notin Usage, BreakpointsKept, Read
  PROVE  BreakpointsKept'
<1>1. Workers(compilers) /\ Switches(compilers, switches) /\ IsFiniteSet(DOMAIN tree) /\ BreakpointsPlaced
  BY DEF BreakpointsKept
<1>2. PICK who, where : Marks(compilers, marks, who, where)
  BY DEF BreakpointsKept
<1>3. ASSUME GoesOn, marks' = marks, chunks' = chunks, switches' = switches
      PROVE  BreakpointsKept'
  BY <1>1, <1>3, KeptOn
<1>4. CASE GetExpressionStatement
  BY <1>1, <1>3, <1>4, StepExpression DEF GetExpressionStatement
<1>5. CASE GetBreakStatement
  BY <1>1, <1>3, <1>5, StepBreak DEF GetBreakStatement
<1>6. CASE GetContinueStatement
  BY <1>1, <1>3, <1>6, StepContinue DEF GetContinueStatement
<1>7. CASE GetReturnStatement
  BY <1>1, <1>3, <1>7, StepReturn DEF GetReturnStatement
<1>8. CASE GetBreakpointStatement
  <2>1. /\ Workers(compilers') /\ Marks(compilers', marks', who, where)
        /\ Switches(compilers', switches) /\ IsFiniteSet(DOMAIN tree')
    BY <1>1, <1>2, <1>8, StepBreakpoint
  <2>2. switches' = switches /\ chunks' = chunks
    BY <1>8 DEF GetBreakpointStatement
  <2> QED BY <2>1, <2>2, KeptElse
<1>9. CASE GetCaseStatement \/ GetDefaultStatement
  <2>1. GoesOn /\ Switches(compilers, switches')
    BY <1>1, <1>9, StepLabel, StepLabelNoted
  <2>2. marks' = marks /\ chunks' = chunks
    BY <1>9 DEF GetCaseStatement, GetDefaultStatement
  <2> QED BY <2>1, <2>2, KeptOn
<1>10. CASE GetVariableDeclaration
  BY <1>1, <1>3, <1>10, StepVariable DEF GetVariableDeclaration
<1>11. CASE GetPropertyDeclaration
  BY <1>1, <1>3, <1>11, StepProperty DEF GetPropertyDeclaration
<1>12. ASSUME NEW kind \in {"Enum", "UnnamedEnum"}, GetEnumDeclaration(kind)
       PROVE  BreakpointsKept'
  <2>1. GoesOn
    BY <1>1, <1>12, StepEnum
  <2>2. marks' = marks /\ chunks' = chunks /\ switches' = switches
    BY <1>12 DEF GetEnumDeclaration
  <2> QED BY <1>3, <2>1, <2>2
<1>13. CASE OpenBlock
  BY <1>1, <1>3, <1>13, StepOpenBlock DEF OpenBlock
<1>14. CASE CloseBlock
  BY <1>1, <1>3, <1>14, StepCloseBlock DEF CloseBlock
<1>15. CASE OpenIf
  BY <1>1, <1>3, <1>15, StepOpenIf DEF OpenIf
<1>16. ASSUME NEW else \in BOOLEAN, CloseThen(else)
       PROVE  BreakpointsKept'
  <2>1. GoesOn
    BY <1>1, <1>16, StepCloseThen
  <2>2. marks' = marks /\ chunks' = chunks /\ switches' = switches
    BY <1>16 DEF CloseThen
  <2> QED BY <1>3, <2>1, <2>2
<1>17. CASE CloseElse
  BY <1>1, <1>3, <1>17, StepCloseElse DEF CloseElse
<1>18. CASE OpenWhile
  BY <1>1, <1>3, <1>18, StepOpenWhile DEF OpenWhile
<1>19. CASE CloseWhile
  BY <1>1, <1>3, <1>19, StepCloseWhile DEF CloseWhile
<1>20. CASE OpenDoWhile
  BY <1>1, <1>3, <1>20, StepOpenDoWhile DEF OpenDoWhile
<1>21. CASE CloseDoWhile
  BY <1>1, <1>3, <1>21, StepCloseDoWhile DEF CloseDoWhile
<1>22. ASSUME NEW kind \in {"For", "ForVar"}, NEW condition \in BOOLEAN, NEW increment \in BOOLEAN,
              OpenFor(kind, condition, increment)
       PROVE  BreakpointsKept'
  <2>1. GoesOn
    BY <1>1, <1>22, StepOpenFor
  <2>2. marks' = marks /\ chunks' = chunks /\ switches' = switches
    BY <1>22 DEF OpenFor
  <2> QED BY <1>3, <2>1, <2>2
<1>23. CASE CloseFor
  BY <1>1, <1>3, <1>23, StepCloseFor DEF CloseFor
<1>24. CASE OpenForEach
  BY <1>1, <1>3, <1>24, StepOpenForEach DEF OpenForEach
<1>25. CASE CloseForEach
  BY <1>1, <1>3, <1>25, StepCloseForEach DEF CloseForEach
<1>26. ASSUME NEW kind \in {"Repeat", "RepeatVar"}, OpenRepeat(kind)
       PROVE  BreakpointsKept'
  <2>1. GoesOn
    BY <1>1, <1>26, StepOpenRepeat
  <2>2. marks' = marks /\ chunks' = chunks /\ switches' = switches
    BY <1>26 DEF OpenRepeat
  <2> QED BY <1>3, <2>1, <2>2
<1>27. CASE CloseRepeat
  BY <1>1, <1>3, <1>27, StepCloseRepeat DEF CloseRepeat
<1>28. ASSUME NEW as \in BOOLEAN, OpenWith(as)
       PROVE  BreakpointsKept'
  <2>1. GoesOn
    BY <1>1, <1>28, StepOpenWith
  <2>2. marks' = marks /\ chunks' = chunks /\ switches' = switches
    BY <1>28 DEF OpenWith
  <2> QED BY <1>3, <2>1, <2>2
<1>29. CASE CloseWith
  BY <1>1, <1>3, <1>29, StepCloseWith DEF CloseWith
<1>30. CASE OpenSwitch
  <2>1. /\ Workers(compilers') /\ (\E a, b : Marks(compilers', marks', a, b))
        /\ Switches(compilers', switches') /\ IsFiniteSet(DOMAIN tree')
    BY <1>1, <1>2, <1>30, StepOpenSwitch
  <2>2. chunks' = chunks
    BY <1>30 DEF OpenSwitch
  <2> QED BY <2>1, <2>2, KeptElse
<1>31. CASE CloseSwitch
  <2>1. /\ Workers(compilers') /\ Marks(compilers', marks', who, where)
        /\ Switches(compilers', switches') /\ IsFiniteSet(DOMAIN tree')
    BY <1>1, <1>2, <1>31, StepCloseSwitch
  <2>2. chunks' = chunks
    BY <1>31 DEF CloseSwitch
  <2> QED BY <2>1, <2>2, KeptElse
<1>32. ASSUME NEW params, GetEventDeclaration(params)
       PROVE  BreakpointsKept'
  <2>1. /\ Workers(compilers') /\ (\E a, b : Marks(compilers', marks', a, b))
        /\ Switches(compilers', switches) /\ IsFiniteSet(DOMAIN tree')
    BY <1>1, <1>2, <1>32, StepEvent
  <2>2. chunks' = chunks /\ switches' = switches
    BY <1>32 DEF GetEventDeclaration, OpenFunction
  <2> QED BY <2>1, <2>2, KeptElse
<1>33. ASSUME NEW type, NEW params, GetMethod(type, params)
       PROVE  BreakpointsKept'
  <2>1. /\ Workers(compilers') /\ (\E a, b : Marks(compilers', marks', a, b))
        /\ Switches(compilers', switches) /\ IsFiniteSet(DOMAIN tree')
    BY <1>1, <1>2, <1>33, StepMethod
  <2>2. chunks' = chunks /\ switches' = switches
    BY <1>33 DEF GetMethod, OpenFunction
  <2> QED BY <2>1, <2>2, KeptElse
<1>34. CASE CloseFunction
  <2>1. /\ Workers(compilers') /\ Marks(compilers', marks', who, where)
        /\ Switches(compilers', switches') /\ IsFiniteSet(DOMAIN tree') /\ BreakpointsPlaced'
    BY <1>1, <1>2, <1>34, StepCloseFunction
  <2> QED BY <2>1 DEF BreakpointsKept
<1>35. CASE OpenClass
  BY <1>1, <1>3, <1>35, StepOpenClass DEF OpenClass
<1>36. CASE CloseClass
  BY <1>1, <1>3, <1>36, StepCloseClass DEF CloseClass
<1>37. ASSUME NEW kind, Error(kind)
       PROVE  BreakpointsKept'
  BY <1>37, KeptFile DEF Error
<1> QED
  BY <1>4, <1>5, <1>6, <1>7, <1>8, <1>9, <1>10, <1>11, <1>12, <1>13, <1>14, <1>15, <1>16, <1>17,
     <1>18, <1>19, <1>20, <1>21, <1>22, <1>23, <1>24, <1>25, <1>26, <1>27, <1>28, <1>29, <1>30,
     <1>31, <1>32, <1>33, <1>34, <1>35, <1>36, <1>37 DEF Read

LEMMA KeptStill ==
  ASSUME BreakpointsKept, UNCHANGED cvars
  PROVE  BreakpointsKept'
BY DEF BreakpointsKept, BreakpointsPlaced, cvars

\* Running the compiled code changes nothing of the compiler.
LEMMA KeptNext ==
  ASSUME "Breakpoint" \notin Usage, BreakpointsKept, [Next]_vars
  PROVE  BreakpointsKept'
<1>1. Read \/ UNCHANGED cvars
  BY DEF Next, vars, cvars
<1> QED BY <1>1, KeptRead, KeptStill

\* A breakpoint statement stops before the instruction that was emitted next, in
\* every compiled script in which no breakpoint stands in a switch inside a switch:
\* CloseSwitch moves the block and the positions that wait for it together, and a
\* position outside the block is never moved.
THEOREM BreakpointsStay ==
  ASSUME "Breakpoint" \notin Usage
  PROVE  Spec => []BreakpointsPlaced
<1>1. CodeInit => BreakpointsKept
  BY KeptInit
<1>2. BreakpointsKept /\ [Next]_vars => BreakpointsKept'
  BY KeptNext
<1>3. BreakpointsKept => BreakpointsPlaced
  BY DEF BreakpointsKept
<1> QED BY <1>1, <1>2, <1>3, PTL DEF Spec

=============================================================================

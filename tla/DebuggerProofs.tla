---------------------------- MODULE DebuggerProofs ----------------------------
(***************************************************************************)
(* The list of breakpoints and the flags agree, and a program stops where  *)
(* a breakpoint is listed: for every program, loaded as bytecode or        *)
(* compiled, every set of scripts that are typed and every sequence of     *)
(* commands, provided typed code has no breakpoints.  The second half is   *)
(* about stepping.                                                         *)
(***************************************************************************)
EXTENDS Debugger, TLAPS, SequenceTheorems, WellFoundedInduction, FiniteSetTheorems

\* Only the program has breakpoints.
PlainTyped == "BreakTyped" \notin Usage

Entry == [Function : Functions, CodeOffset : Nat, Enabled : BOOLEAN, OnHit : {"KEEP", "REMOVE"}]

\* The inductive invariant: an index that is free is not listed, breakpoints are in
\* functions of the program, and nothing is registered before the program is.
PointsInv ==
  /\ CurrentBreakpointIndex \in Nat
  /\ Breakpoints \in [DOMAIN Breakpoints -> Entry]
  /\ \A i \in DOMAIN Breakpoints : i \in Nat /\ i < CurrentBreakpointIndex
  /\ BreakpointsPerFunction \in [DOMAIN BreakpointsPerFunction -> SUBSET Nat]
  /\ status = "ready" => /\ DOMAIN Breakpoints = {} /\ DOMAIN BreakpointsPerFunction = {}
                         /\ CurrentBreakpointIndex = 0
  /\ BreakpointsAgree

-----------------------------------------------------------------------------
(* What the operations on the list and the flags keep. *)

LEMMA InAt ==
  ASSUME NEW f, NEW o, NEW j
  PROVE  j \in At(f, o) <=> /\ j \in DOMAIN Breakpoints
                            /\ Breakpoints[j].Function = f /\ Breakpoints[j].CodeOffset = o
  BY DEF At

\* What the list has at a place that is not flagged leaves room for one more; what it has
\* at any place is no more than the place can have.
LEMMA Entries ==
  ASSUME PointsInv, NEW f, NEW o
  PROVE  /\ \A i, j, k \in At(f, o) : i = j \/ (Twinned(f, o) /\ k \in {i, j})
         /\ \A i \in At(f, o) : f \in DOMAIN BreakpointsPerFunction
         /\ f \in DOMAIN BreakpointsPerFunction /\ o \notin BreakpointsPerFunction[f]
              => ~ Complete(At(f, o), f, o)
<1>1. ASSUME NEW i \in At(f, o)
      PROVE  /\ f \in DOMAIN BreakpointsPerFunction
             /\ Complete(At(f, o), f, o) => o \in BreakpointsPerFunction[f]
             /\ \A j, k \in At(f, o) : i = j \/ (Twinned(f, o) /\ k \in {i, j})
  <2>1. i \in DOMAIN Breakpoints /\ Breakpoints[i].Function = f /\ Breakpoints[i].CodeOffset = o
    BY <1>1, InAt
  <2> QED BY <2>1 DEF PointsInv, BreakpointsAgree
<1>2. Complete(At(f, o), f, o) => \E i : i \in At(f, o)
  BY DEF Complete
<1> QED BY <1>1, <1>2

\* Positions and indices stay when only the other fields of an entry change.
LEMMA ChangeKeeps ==
  ASSUME PointsInv, NEW i \in DOMAIN Breakpoints, NEW e \in Entry,
         e.Function = Breakpoints[i].Function, e.CodeOffset = Breakpoints[i].CodeOffset,
         Breakpoints' = [Breakpoints EXCEPT ![i] = e],
         UNCHANGED <<BreakpointsPerFunction, CurrentBreakpointIndex>>, status # "ready", status' # "ready"
  PROVE  PointsInv'
<1>1. /\ DOMAIN Breakpoints' = DOMAIN Breakpoints
      /\ \A j \in DOMAIN Breakpoints : /\ Breakpoints'[j] \in Entry
                                       /\ Breakpoints'[j].Function = Breakpoints[j].Function
                                       /\ Breakpoints'[j].CodeOffset = Breakpoints[j].CodeOffset
  BY DEF PointsInv
<1>2. Breakpoints' \in [DOMAIN Breakpoints' -> Entry]
  BY <1>1 DEF PointsInv
<1>3. BreakpointsAgree'
  <2>1. \A f, o : At(f, o)' = At(f, o)
    BY <1>1 DEF At
  <2>2. ASSUME NEW f \in DOMAIN BreakpointsPerFunction', NEW p \in BreakpointsPerFunction'[f]
        PROVE  At(f, p)' # {}
    BY <2>1, <2>2 DEF PointsInv, BreakpointsAgree
  <2>3. ASSUME NEW j \in DOMAIN Breakpoints', NEW f, NEW p,
               f = Breakpoints'[j].Function, p = Breakpoints'[j].CodeOffset
        PROVE  /\ f \in DOMAIN BreakpointsPerFunction'
               /\ Complete(At(f, p)', f, p) => p \in BreakpointsPerFunction'[f]
               /\ \A k, l \in At(f, p)' : j = k \/ (Twinned(f, p) /\ l \in {j, k})
    <3>1. j \in At(f, p)
      BY <1>1, <2>3 DEF At
    <3> QED BY <2>1, <3>1, Entries
  <2> QED BY <2>2, <2>3 DEF BreakpointsAgree
<1> QED
  BY <1>1, <1>2, <1>3 DEF PointsInv

\* An entry that leaves takes the only flag of its position with it.
LEMMA RemoveKeeps ==
  ASSUME PointsInv, NEW i \in DOMAIN Breakpoints, RemoveBreakpoint(i),
         status # "ready", status' # "ready"
  PROVE  PointsInv'
<1> DEFINE g == Breakpoints[i].Function
           o == Breakpoints[i].CodeOffset
<1>1. /\ DOMAIN Breakpoints' = DOMAIN Breakpoints \ {i}
      /\ \A j \in DOMAIN Breakpoints' : Breakpoints'[j] = Breakpoints[j]
      /\ Breakpoints' \in [DOMAIN Breakpoints' -> Entry]
  BY DEF PointsInv, RemoveBreakpoint, Restrict
<1>2. g \in DOMAIN BreakpointsPerFunction
  BY DEF PointsInv, BreakpointsAgree
<1>3. /\ DOMAIN BreakpointsPerFunction' = DOMAIN BreakpointsPerFunction
      /\ BreakpointsPerFunction'[g] = BreakpointsPerFunction[g] \ {o}
      /\ \A f \in DOMAIN BreakpointsPerFunction : f # g =>
           BreakpointsPerFunction'[f] = BreakpointsPerFunction[f]
      /\ BreakpointsPerFunction' \in [DOMAIN BreakpointsPerFunction' -> SUBSET Nat]
  BY <1>2 DEF PointsInv, RemoveBreakpoint
<1>4. /\ i \in At(g, o)
      /\ \A f, p : At(f, p)' = At(f, p) \ {i}
      /\ \A f, p : f # g \/ p # o => i \notin At(f, p)
  BY <1>1 DEF At
<1>5. ~ Complete(At(g, o) \ {i}, g, o)
  BY <1>4, Entries DEF Complete
<1>6. BreakpointsAgree'
  <2>1. ASSUME NEW f \in DOMAIN BreakpointsPerFunction', NEW p \in BreakpointsPerFunction'[f]
        PROVE  At(f, p)' # {}
    <3>1. p \in BreakpointsPerFunction[f] /\ (f # g \/ p # o)
      BY <1>2, <1>3, <2>1
    <3> QED BY <1>3, <1>4, <2>1, <3>1 DEF PointsInv, BreakpointsAgree
  <2>2. ASSUME NEW j \in DOMAIN Breakpoints', NEW f, NEW p,
               f = Breakpoints'[j].Function, p = Breakpoints'[j].CodeOffset
        PROVE  /\ f \in DOMAIN BreakpointsPerFunction'
               /\ Complete(At(f, p)', f, p) => p \in BreakpointsPerFunction'[f]
               /\ \A k, l \in At(f, p)' : j = k \/ (Twinned(f, p) /\ l \in {j, k})
    <3>1. j \in At(f, p) /\ At(f, p)' \subseteq At(f, p)
      BY <1>1, <1>4, <2>2 DEF At
    <3>2. f \in DOMAIN BreakpointsPerFunction
      BY <3>1, Entries
    <3>3. \A k, l \in At(f, p)' : j = k \/ (Twinned(f, p) /\ l \in {j, k})
      BY <3>1, Entries
    <3>4. CASE f = g /\ p = o
      BY <1>3, <1>4, <1>5, <3>2, <3>3, <3>4
    <3>5. CASE f # g \/ p # o
      <4>1. At(f, p)' = At(f, p)
        BY <1>4, <3>5
      <4>2. Complete(At(f, p), f, p) => p \in BreakpointsPerFunction[f]
        BY <3>2, Entries
      <4>3. p \in BreakpointsPerFunction[f] => p \in BreakpointsPerFunction'[f]
        BY <1>3, <3>2, <3>5
      <4> QED BY <1>3, <3>2, <3>3, <4>1, <4>2, <4>3
    <3> QED BY <3>4, <3>5
  <2> QED BY <2>1, <2>2 DEF BreakpointsAgree
<1>7. UNCHANGED CurrentBreakpointIndex
  BY DEF RemoveBreakpoint
<1> QED
  BY <1>1, <1>3, <1>6, <1>7 DEF PointsInv

\* A new entry sets the flag of its position, which was clear.
LEMMA AddKeeps ==
  ASSUME PointsInv, NEW g \in Functions, NEW o \in Nat, NEW type \in {"KEEP", "REMOVE"},
         g \in DOMAIN BreakpointsPerFunction, o \notin BreakpointsPerFunction[g],
         AddBreakpoint(g, o, type), status # "ready", status' # "ready"
  PROVE  PointsInv'
<1> DEFINE n == CurrentBreakpointIndex
           e == NewBreakpoint(g, o, type)
<1>1. e \in Entry /\ e.Function = g /\ e.CodeOffset = o
  BY DEF NewBreakpoint, Entry
<1> HIDE DEF e
<1>2. n \in Nat /\ n \notin DOMAIN Breakpoints /\ n' = n + 1
  BY DEF PointsInv, AddBreakpoint
<1>3. Breakpoints' = [i \in DOMAIN Breakpoints \cup {n} |-> IF i = n THEN e ELSE Breakpoints[i]]
  BY DEF AddBreakpoint, e
<1>4. /\ DOMAIN Breakpoints' = DOMAIN Breakpoints \cup {n}
      /\ Breakpoints'[n] = e
      /\ \A j \in DOMAIN Breakpoints : Breakpoints'[j] = Breakpoints[j]
      /\ Breakpoints' \in [DOMAIN Breakpoints' -> Entry]
  BY <1>1, <1>2, <1>3 DEF PointsInv
<1>5. /\ DOMAIN BreakpointsPerFunction' = DOMAIN BreakpointsPerFunction
      /\ BreakpointsPerFunction'[g] = BreakpointsPerFunction[g] \cup {o}
      /\ \A f \in DOMAIN BreakpointsPerFunction : f # g =>
           BreakpointsPerFunction'[f] = BreakpointsPerFunction[f]
      /\ BreakpointsPerFunction' \in [DOMAIN BreakpointsPerFunction' -> SUBSET Nat]
  BY DEF PointsInv, AddBreakpoint
<1>6. /\ At(g, o)' = At(g, o) \cup {n}
      /\ \A f, p : f # g \/ p # o => At(f, p)' = At(f, p)
  BY <1>1, <1>2, <1>4 DEF At
<1>7. ~ Complete(At(g, o), g, o)
  BY Entries
<1>8. \A i, j, k \in At(g, o) \cup {n} : i = j \/ (Twinned(g, o) /\ k \in {i, j})
  BY <1>7 DEF Complete
<1>9. BreakpointsAgree'
  <2>1. ASSUME NEW f \in DOMAIN BreakpointsPerFunction', NEW p \in BreakpointsPerFunction'[f]
        PROVE  At(f, p)' # {}
    <3>1. CASE f = g /\ p = o
      BY <1>6, <3>1
    <3>2. CASE f # g \/ p # o
      BY <1>5, <1>6, <2>1, <3>2 DEF PointsInv, BreakpointsAgree
    <3> QED BY <3>1, <3>2
  <2>2. ASSUME NEW j \in DOMAIN Breakpoints', NEW f, NEW p,
               f = Breakpoints'[j].Function, p = Breakpoints'[j].CodeOffset
        PROVE  /\ f \in DOMAIN BreakpointsPerFunction'
               /\ Complete(At(f, p)', f, p) => p \in BreakpointsPerFunction'[f]
               /\ \A k, l \in At(f, p)' : j = k \/ (Twinned(f, p) /\ l \in {j, k})
    <3>1. j \in At(f, p)'
      BY <2>2 DEF At
    <3>2. CASE f = g /\ p = o
      BY <1>5, <1>6, <1>8, <3>1, <3>2
    <3>3. CASE f # g \/ p # o
      <4>1. j \in At(f, p) /\ At(f, p)' = At(f, p)
        BY <1>6, <3>1, <3>3
      <4>2. /\ \A k, l \in At(f, p) : j = k \/ (Twinned(f, p) /\ l \in {j, k})
            /\ f \in DOMAIN BreakpointsPerFunction
            /\ Complete(At(f, p), f, p) => p \in BreakpointsPerFunction[f]
        BY <4>1, Entries
      <4> QED BY <1>5, <4>1, <4>2
    <3> QED BY <3>2, <3>3
  <2> QED BY <2>1, <2>2 DEF BreakpointsAgree
<1>10. \A i \in DOMAIN Breakpoints' : i \in Nat /\ i < n'
  BY <1>2, <1>4 DEF PointsInv
<1> QED
  BY <1>2, <1>4, <1>5, <1>9, <1>10 DEF PointsInv

\* The program's module is registered when nothing is listed.  Its statements are in
\* different places, so that a place gets as many entries as the module is registered.
LEMMA LoadKeeps ==
  ASSUME PointsInv, status = "ready", status' = "running", SetPoints(MainPoints(Points))
  PROVE  PointsInv'
<1> DEFINE S == Statements
           n == Len(Statements)
           R == [fn : Functions, offset : Nat]
           m == IF Registrations = 1 THEN n ELSE n + n
           Nth(i) == IF i < n THEN i + 1 ELSE i - n + 1
<1>1. /\ n \in Nat /\ DOMAIN S = 1 .. n
      /\ \A k \in 1 .. n : /\ S[k].fn \in Functions /\ S[k].offset \in Nat
                           /\ S[k] = [fn |-> S[k].fn, offset |-> S[k].offset]
      /\ \A j, k \in 1 .. n : S[j] = S[k] => j = k
  <2>1. S \in Seq(R) /\ IsInjective(S)
    BY ProgramAssumption
  <2> HIDE DEF R
  <2>2. n \in Nat /\ DOMAIN S = 1 .. n /\ \A k \in 1 .. n : S[k] \in R
    BY <2>1
  <2>3. \A j, k \in 1 .. n : S[j] = S[k] => j = k
    BY <2>1, <2>2 DEF IsInjective
  <2> QED BY <2>1, <2>2, <2>3 DEF R
<1>2. DOMAIN Breakpoints = {} /\ DOMAIN BreakpointsPerFunction = {} /\ CurrentBreakpointIndex = 0
  BY DEF PointsInv
<1> DEFINE e(k) == NewBreakpoint(S[k].fn, S[k].offset, "KEEP")
           flags == [f \in Functions |-> {s.offset : s \in {s \in Range(S) : s.fn = f}}]
           once == AddModuleBreakpoints(Points, Functions, S)
           twice == AddModuleBreakpoints(once, Functions, S)
<1>3. \A k \in 1 .. n : /\ e(k) \in Entry
                        /\ e(k).Function = S[k].fn /\ e(k).CodeOffset = S[k].offset
  BY <1>1 DEF NewBreakpoint, Entry
<1>4. once.list = [i \in 0 .. n - 1 |-> e(i + 1)] /\ once.flags = flags /\ once.next = n
  <2>1. /\ once.list = [i \in {} \cup 0 .. 0 + n - 1 |->
                          IF i < 0 THEN Breakpoints[i] ELSE e(i - 0 + 1)]
        /\ once.flags = [f \in {} \cup Functions |->
                           IF f \in Functions THEN {s.offset : s \in {s \in Range(S) : s.fn = f}}
                           ELSE BreakpointsPerFunction[f]]
        /\ once.next = 0 + n
    BY <1>2 DEF AddModuleBreakpoints, Points
  <2> HIDE DEF once, e
  <2>2. once.list = [i \in 0 .. n - 1 |-> e(i + 1)]
    BY <1>1, <2>1
  <2>3. once.flags = flags /\ once.next = n
    BY <1>1, <2>1
  <2> QED BY <2>2, <2>3
<1>5. /\ twice.list = [i \in 0 .. n + n - 1 |-> e(Nth(i))]
      /\ twice.flags = flags /\ twice.next = n + n
  <2>1. /\ twice.list = [i \in DOMAIN once.list \cup once.next .. once.next + n - 1 |->
                           IF i < once.next THEN once.list[i] ELSE e(i - once.next + 1)]
        /\ twice.flags = [f \in DOMAIN once.flags \cup Functions |->
                            IF f \in Functions THEN {s.offset : s \in {s \in Range(S) : s.fn = f}}
                            ELSE once.flags[f]]
        /\ twice.next = once.next + n
    BY DEF AddModuleBreakpoints
  <2> HIDE DEF once, twice, e
  <2>2. twice.list = [i \in 0 .. n - 1 \cup n .. n + n - 1 |->
                        IF i < n THEN once.list[i] ELSE e(i - n + 1)]
    BY <1>4, <2>1
  <2>3. 0 .. n - 1 \cup n .. n + n - 1 = 0 .. n + n - 1
    BY <1>1
  <2>4. \A i \in 0 .. n + n - 1 : i < n => once.list[i] = e(i + 1)
    BY <1>1, <1>4
  <2>5. twice.flags = flags /\ twice.next = n + n
    BY <1>4, <2>1
  <2> QED BY <2>2, <2>3, <2>4, <2>5
<1>6. /\ Breakpoints' = (IF Registrations = 1 THEN once ELSE twice).list
      /\ BreakpointsPerFunction' = (IF Registrations = 1 THEN once ELSE twice).flags
      /\ CurrentBreakpointIndex' = (IF Registrations = 1 THEN once ELSE twice).next
  BY DEF SetPoints, MainPoints
<1> HIDE DEF once, twice, e
<1>7. \A i \in 0 .. m - 1 : Nth(i) \in 1 .. n
  BY <1>1
<1>8. Breakpoints' = [i \in 0 .. m - 1 |-> e(Nth(i))]
  <2>1. CASE Registrations = 1
    BY <1>1, <1>4, <1>6, <2>1
  <2>2. CASE Registrations # 1
    BY <1>5, <1>6, <2>2
  <2> QED BY <2>1, <2>2
<1>9. /\ BreakpointsPerFunction' = flags /\ CurrentBreakpointIndex' = m
      /\ m \in Nat
  BY <1>1, <1>4, <1>5, <1>6
<1> HIDE DEF Nth
<1>10. /\ DOMAIN Breakpoints' = 0 .. m - 1
       /\ \A i \in 0 .. m - 1 : /\ Breakpoints'[i].Function = S[Nth(i)].fn
                                /\ Breakpoints'[i].CodeOffset = S[Nth(i)].offset
       /\ Breakpoints' \in [DOMAIN Breakpoints' -> Entry]
  BY <1>3, <1>7, <1>8
<1>11. /\ DOMAIN BreakpointsPerFunction' = Functions
       /\ \A f \in Functions : /\ \A p \in BreakpointsPerFunction'[f] :
                                    \E k \in 1 .. n : S[k].fn = f /\ S[k].offset = p
                               /\ \A k \in 1 .. n : S[k].fn = f => S[k].offset \in BreakpointsPerFunction'[f]
       /\ BreakpointsPerFunction' \in [DOMAIN BreakpointsPerFunction' -> SUBSET Nat]
  <2>1. Range(S) = {S[k] : k \in 1 .. n}
    BY <1>1 DEF Range
  <2>2. \A f \in Functions : flags[f] = {s.offset : s \in {s \in {S[k] : k \in 1 .. n} : s.fn = f}}
    BY <2>1
  <2>3. ASSUME NEW f \in Functions
        PROVE  /\ \A p \in flags[f] : \E k \in 1 .. n : S[k].fn = f /\ S[k].offset = p
               /\ \A k \in 1 .. n : S[k].fn = f => S[k].offset \in flags[f]
    <3>1. flags[f] = {s.offset : s \in {s \in {S[k] : k \in 1 .. n} : s.fn = f}}
      BY <2>2
    <3> HIDE DEF flags
    <3> QED BY <3>1
  <2>4. \A f \in Functions : flags[f] \in SUBSET Nat
    BY <1>1, <2>3
  <2> HIDE DEF flags
  <2>5. DOMAIN flags = Functions /\ flags \in [Functions -> SUBSET Nat]
    BY <2>4 DEF flags
  <2> QED BY <1>9, <2>3, <2>5
<1>12. BreakpointsAgree'
  <2>1. ASSUME NEW f \in Functions, NEW p \in BreakpointsPerFunction'[f]
        PROVE  At(f, p)' # {}
    <3>1. PICK k \in 1 .. n : S[k].fn = f /\ S[k].offset = p
      BY <1>11, <2>1
    <3>2. k - 1 \in 0 .. m - 1 /\ Nth(k - 1) = k
      BY <1>1 DEF Nth
    <3>3. k - 1 \in At(f, p)'
      BY <1>10, <3>1, <3>2 DEF At
    <3> QED BY <3>3
  <2>2. ASSUME NEW j \in DOMAIN Breakpoints', NEW f, NEW p,
               f = Breakpoints'[j].Function, p = Breakpoints'[j].CodeOffset
        PROVE  /\ f \in DOMAIN BreakpointsPerFunction'
               /\ Complete(At(f, p)', f, p) => p \in BreakpointsPerFunction'[f]
               /\ \A k, l \in At(f, p)' : j = k \/ (Twinned(f, p) /\ l \in {j, k})
    <3>0. j \in 0 .. m - 1
      BY <1>10, <2>2
    <3>1. f \in Functions /\ p \in BreakpointsPerFunction'[f]
      BY <1>1, <1>7, <1>10, <1>11, <2>2, <3>0
    <3>2. ASSUME NEW k \in At(f, p)', NEW l \in At(f, p)'
          PROVE  j = k \/ (Twinned(f, p) /\ l \in {j, k})
      <4>1. /\ k \in 0 .. m - 1 /\ l \in 0 .. m - 1
            /\ f = Breakpoints'[k].Function /\ p = Breakpoints'[k].CodeOffset
            /\ f = Breakpoints'[l].Function /\ p = Breakpoints'[l].CodeOffset
        BY <1>10, <3>2 DEF At
      <4>2. /\ S[Nth(j)] = [fn |-> f, offset |-> p]
            /\ S[Nth(k)] = [fn |-> f, offset |-> p]
            /\ S[Nth(l)] = [fn |-> f, offset |-> p]
        <5>1. Nth(j) \in 1 .. n /\ Nth(k) \in 1 .. n /\ Nth(l) \in 1 .. n
          BY <1>7, <3>0, <4>1
        <5>2. /\ f = S[Nth(j)].fn /\ p = S[Nth(j)].offset
              /\ f = S[Nth(k)].fn /\ p = S[Nth(k)].offset
              /\ f = S[Nth(l)].fn /\ p = S[Nth(l)].offset
          BY <1>10, <2>2, <3>0, <4>1
        <5> QED BY <1>1, <5>1, <5>2
      <4>3. Nth(j) = Nth(k) /\ Nth(j) = Nth(l)
        BY <1>1, <1>7, <3>0, <4>1, <4>2
      <4>4. CASE Registrations = 1
        BY <1>1, <3>0, <4>1, <4>3, <4>4 DEF Nth
      <4>5. CASE Registrations # 1
        <5>1. [fn |-> f, offset |-> p] \in Range(S)
          BY <1>1, <1>7, <3>0, <4>2 DEF Range
        <5>2. Registrations = 2
          BY <4>5, BoundsAssumption
        <5>3. Twinned(f, p)
          BY <5>1, <5>2 DEF Twinned
        <5>4. j = k \/ l \in {j, k}
          BY <1>1, <3>0, <4>1, <4>3 DEF Nth
        <5> QED BY <5>3, <5>4
      <4> QED BY <4>4, <4>5
    <3> QED BY <1>11, <3>1, <3>2
  <2>3. \A f \in DOMAIN BreakpointsPerFunction' : \A p \in BreakpointsPerFunction'[f] : At(f, p)' # {}
    BY <1>11, <2>1
  <2> QED BY <2>2, <2>3 DEF BreakpointsAgree
<1>13. \A i \in DOMAIN Breakpoints' : i \in Nat /\ i < CurrentBreakpointIndex'
  BY <1>9, <1>10
<1> QED
  BY <1>9, <1>10, <1>11, <1>12, <1>13 DEF PointsInv

\* Typed code has no statements: its function gets flags, which are clear.
LEMMA TypeKeeps ==
  ASSUME PlainTyped, PointsInv, NEW t \in Typed, NEW a \in Addresses, CompileAndLoad(t, a),
         status # "ready", status' # "ready"
  PROVE  PointsInv'
<1> DEFINE none == [k \in DOMAIN Marks[t] |-> [fn |-> a, offset |-> Marks[t][k]]]
<1>1. none = <<>>
  BY ProgramAssumption DEF PlainTyped
<1>2. /\ Breakpoints' = [i \in DOMAIN Breakpoints \cup CurrentBreakpointIndex .. CurrentBreakpointIndex + Len(<<>>) - 1 |->
                           IF i < CurrentBreakpointIndex THEN Breakpoints[i]
                           ELSE NewBreakpoint(<<>>[i - CurrentBreakpointIndex + 1].fn,
                                              <<>>[i - CurrentBreakpointIndex + 1].offset, "KEEP")]
      /\ BreakpointsPerFunction' =
           [f \in DOMAIN BreakpointsPerFunction \cup {a} |->
              IF f \in {a} THEN {s.offset : s \in {s \in Range(<<>>) : s.fn = f}}
              ELSE BreakpointsPerFunction[f]]
      /\ CurrentBreakpointIndex' = CurrentBreakpointIndex + Len(<<>>)
  <2>1. SetPoints(AddModuleBreakpoints(Points, {a}, none))
    BY DEF CompileAndLoad
  <2>2. SetPoints(AddModuleBreakpoints(Points, {a}, <<>>))
    BY <1>1, <2>1
  <2> HIDE DEF none
  <2> QED BY <2>2 DEF SetPoints, AddModuleBreakpoints, Points
<1>3. Len(<<>>) = 0 /\ Range(<<>>) = {}
  BY DEF Range
<1>4. /\ CurrentBreakpointIndex' = CurrentBreakpointIndex
      /\ DOMAIN Breakpoints' = DOMAIN Breakpoints
      /\ \A i \in DOMAIN Breakpoints : Breakpoints'[i] = Breakpoints[i]
      /\ Breakpoints' \in [DOMAIN Breakpoints' -> Entry]
  BY <1>2, <1>3 DEF PointsInv
<1>5. /\ DOMAIN BreakpointsPerFunction' = DOMAIN BreakpointsPerFunction \cup {a}
      /\ BreakpointsPerFunction'[a] = {}
      /\ \A f \in DOMAIN BreakpointsPerFunction : f # a => BreakpointsPerFunction'[f] = BreakpointsPerFunction[f]
      /\ BreakpointsPerFunction' \in [DOMAIN BreakpointsPerFunction' -> SUBSET Nat]
  BY <1>2, <1>3 DEF PointsInv
<1>6. \A i \in DOMAIN Breakpoints : Breakpoints[i].Function # a
  BY ProgramAssumption DEF PointsInv, Entry
<1>7. BreakpointsAgree'
  <2>1. \A f, o : At(f, o)' = At(f, o)
    BY <1>4 DEF At
  <2>2. ASSUME NEW f \in DOMAIN BreakpointsPerFunction', NEW p \in BreakpointsPerFunction'[f]
        PROVE  At(f, p)' # {}
    BY <1>5, <2>1, <2>2 DEF PointsInv, BreakpointsAgree
  <2>3. ASSUME NEW j \in DOMAIN Breakpoints', NEW f, NEW p,
               f = Breakpoints'[j].Function, p = Breakpoints'[j].CodeOffset
        PROVE  /\ f \in DOMAIN BreakpointsPerFunction'
               /\ Complete(At(f, p)', f, p) => p \in BreakpointsPerFunction'[f]
               /\ \A k, l \in At(f, p)' : j = k \/ (Twinned(f, p) /\ l \in {j, k})
    <3>1. j \in At(f, p) /\ f # a
      BY <1>4, <1>6, <2>3 DEF At
    <3>2. /\ f \in DOMAIN BreakpointsPerFunction
          /\ Complete(At(f, p), f, p) => p \in BreakpointsPerFunction[f]
          /\ \A k, l \in At(f, p) : j = k \/ (Twinned(f, p) /\ l \in {j, k})
      BY <3>1, Entries
    <3> QED BY <1>5, <2>1, <3>1, <3>2
  <2> QED BY <2>2, <2>3 DEF BreakpointsAgree
<1> QED
  BY <1>4, <1>5, <1>7 DEF PointsInv

\* Cleared: neither entries nor flags.
LEMMA ClearKeeps ==
  ASSUME PointsInv, DisposeBreakpoints, UNCHANGED CurrentBreakpointIndex,
         status # "ready", status' # "ready"
  PROVE  PointsInv'
<1>1. DOMAIN Breakpoints' = {} /\ DOMAIN BreakpointsPerFunction' = {}
  BY DEF DisposeBreakpoints
<1>2. Breakpoints' \in [DOMAIN Breakpoints' -> Entry]
  BY <1>1 DEF DisposeBreakpoints
<1>3. BreakpointsPerFunction' \in [DOMAIN BreakpointsPerFunction' -> SUBSET Nat]
  BY <1>1 DEF DisposeBreakpoints
<1>4. BreakpointsAgree'
  BY <1>1 DEF BreakpointsAgree, At
<1> QED
  BY <1>1, <1>2, <1>3, <1>4 DEF PointsInv

LEMMA UnchangedKeeps ==
  ASSUME PointsInv, UNCHANGED points, status' = "ready" => status = "ready"
  PROVE  PointsInv'
<1>1. \A f, o : At(f, o)' = At(f, o)
  BY DEF points, At
<1>2. BreakpointsAgree' <=> BreakpointsAgree
  BY <1>1 DEF points, BreakpointsAgree
<1> QED
  BY <1>2 DEF PointsInv, points

-----------------------------------------------------------------------------
(* One step. *)

LEMMA PointsInit == Init => PointsInv
  BY DEF Init, PointsInv, BreakpointsAgree, At, Entry

\* The steps of the program and of a stepping debugger other than a hit.
LEMMA RunUnchanged ==
  ASSUME RunInstruction \/ NothingToRun \/ RunOpcodeFunc \/ CheckColumn \/ Continue
           \/ SelectFrame \/ Step \/ NextInstruction
  PROVE  UNCHANGED points /\ status = "running" /\ status' # "ready"
<1>1. ASSUME NEW i, NEW rest, Execute(i, rest), status = "running"
      PROVE  UNCHANGED points /\ status' # "ready"
  BY <1>1 DEF Execute, Op, Call, CallNative
<1>2. ASSUME NEW count, LeaveLoop(count), status = "running"
      PROVE  UNCHANGED points /\ status' # "ready"
  BY <1>2 DEF LeaveLoop
<1>3. ASSUME Undefined
      PROVE  UNCHANGED points /\ status' # "ready"
  BY <1>3 DEF Undefined
<1>4. CASE RunInstruction
  BY <1>1, <1>2, <1>3, <1>4 DEF RunInstruction, Looping
<1>5. CASE NothingToRun
  BY <1>2, <1>5 DEF NothingToRun, Looping
<1>6. CASE RunOpcodeFunc
  BY <1>1, <1>3, <1>6 DEF RunOpcodeFunc, InDebugger
<1>7. CASE CheckColumn
  BY <1>3, <1>7 DEF CheckColumn, InDebugger
<1>8. CASE Continue
  BY <1>8 DEF Continue, Command, InDebugger
<1>9. CASE SelectFrame
  BY <1>9 DEF SelectFrame, Command, InDebugger
<1>10. CASE Step
  BY <1>10 DEF Step, CanStep, Command, InDebugger
<1>11. CASE NextInstruction
  BY <1>11 DEF NextInstruction, CanStep, Command, InDebugger
<1> QED
  BY <1>4, <1>5, <1>6, <1>7, <1>8, <1>9, <1>10, <1>11

LEMMA PointsNext ==
  ASSUME PlainTyped, PointsInv, [Next]_vars
  PROVE  PointsInv'
<1>1. ASSUME NEW start \in Starts, RunnerMain(start)
      PROVE  PointsInv'
  <2>1. /\ status = "ready" /\ status' = "running"
        /\ SetPoints(MainPoints(Points))
    BY <1>1 DEF RunnerMain
  <2> QED BY <2>1, LoadKeeps
<1>2. CASE Hit
  <2>1. status = "running" /\ status' = "running"
    BY <1>2 DEF Hit, Looping
  <2>2. PICK i \in StopsAt : IF Breakpoints[i].OnHit = "REMOVE" THEN RemoveBreakpoint(i) ELSE UNCHANGED points
    BY <1>2 DEF Hit
  <2>3. i \in DOMAIN Breakpoints
    BY <2>2 DEF StopsAt, FindBreakpoint, At
  <2> QED BY <2>1, <2>2, <2>3, RemoveKeeps, UnchangedKeeps
<1>3. CASE RunInstruction \/ NothingToRun \/ RunOpcodeFunc \/ CheckColumn \/ Continue
             \/ SelectFrame \/ Step \/ NextInstruction
  BY <1>3, RunUnchanged, UnchangedKeeps
<1>4. CASE CanBreak /\ (SetBreakpoint \/ SetTempBreakpoint)
  <2> DEFINE f == Frames[Frame].fn
  <2>1. /\ status = "running" /\ f \in Functions /\ NextPosition \in Nat
    BY <1>4 DEF CanBreak, Command, InDebugger, PlainTyped
  <2>2. CASE f \notin DOMAIN BreakpointsPerFunction
    <3>1. UNCHANGED points /\ status' = "undefined"
      BY <1>4, <2>2 DEF SetBreakpoint, SetTempBreakpoint, Undefined
    <3> QED BY <3>1, UnchangedKeeps
  <2>3. CASE f \in DOMAIN BreakpointsPerFunction
    <3>1. status' = "running"
      BY <1>4, <2>1, <2>3 DEF SetBreakpoint, SetTempBreakpoint
    <3>2. CASE ~Flagged
      <4>1. PICK type \in {"KEEP", "REMOVE"} : AddBreakpoint(f, NextPosition, type)
        BY <1>4, <2>3, <3>2 DEF SetBreakpoint, SetTempBreakpoint
      <4>2. NextPosition \notin BreakpointsPerFunction[f]
        BY <3>2 DEF Flagged
      <4> QED BY <2>1, <2>3, <3>1, <4>1, <4>2, AddKeeps
    <3>3. CASE Flagged
      <4>1. /\ \E i \in Listed : Breakpoints' = [Breakpoints EXCEPT ![i].OnHit = "REMOVE"]
            /\ UNCHANGED <<BreakpointsPerFunction, CurrentBreakpointIndex>>
        BY <1>4, <2>3, <3>3 DEF SetBreakpoint, SetTempBreakpoint
      <4>2. PICK i \in DOMAIN Breakpoints : Breakpoints' = [Breakpoints EXCEPT ![i].OnHit = "REMOVE"]
        BY <4>1 DEF Listed, FindBreakpoint, At
      <4> DEFINE e == [Breakpoints[i] EXCEPT !.OnHit = "REMOVE"]
      <4>3. /\ e \in Entry /\ e.Function = Breakpoints[i].Function
            /\ e.CodeOffset = Breakpoints[i].CodeOffset
            /\ Breakpoints' = [Breakpoints EXCEPT ![i] = e]
        BY <4>2 DEF PointsInv, Entry
      <4> HIDE DEF e
      <4> QED BY <2>1, <3>1, <4>1, <4>3, ChangeKeeps
    <3> QED BY <3>2, <3>3
  <2> QED BY <2>2, <2>3
<1>5. CASE SwitchBreakpoint
  <2>1. PICK i \in DOMAIN Breakpoints, on \in BOOLEAN : Breakpoints' = [Breakpoints EXCEPT ![i].Enabled = on]
    BY <1>5 DEF SwitchBreakpoint
  <2> DEFINE e == [Breakpoints[i] EXCEPT !.Enabled = on]
  <2>2. /\ e \in Entry /\ e.Function = Breakpoints[i].Function
        /\ e.CodeOffset = Breakpoints[i].CodeOffset
        /\ Breakpoints' = [Breakpoints EXCEPT ![i] = e]
    BY <2>1 DEF PointsInv, Entry
  <2>3. /\ UNCHANGED <<BreakpointsPerFunction, CurrentBreakpointIndex>>
        /\ status = "running" /\ status' = "running"
    BY <1>5 DEF SwitchBreakpoint, Command, InDebugger
  <2> HIDE DEF e
  <2> QED BY <2>2, <2>3, ChangeKeeps
<1>6. CASE DropBreakpoint
  <2>1. /\ \E i \in DOMAIN Breakpoints : RemoveBreakpoint(i)
        /\ status = "running" /\ status' = "running"
    BY <1>6 DEF DropBreakpoint, Command, InDebugger
  <2> QED BY <2>1, RemoveKeeps
<1>7. CASE ClearBreakpoints
  <2>1. /\ DisposeBreakpoints /\ UNCHANGED CurrentBreakpointIndex
        /\ status = "running" /\ status' = "running"
    BY <1>7 DEF ClearBreakpoints, Command, InDebugger
  <2> QED BY <2>1, ClearKeeps
<1>8. CASE ExecuteCode
  <2>1. /\ \E t \in Typed, a \in Addresses : CompileAndLoad(t, a)
        /\ status = "running" /\ status' = "running"
    BY <1>8 DEF ExecuteCode, CanExecute, Command, InDebugger
  <2> QED BY <2>1, TypeKeeps
<1>9. CASE UNCHANGED vars
  BY <1>9, UnchangedKeeps DEF vars
<1>10. SetBreakpoint \/ SetTempBreakpoint => CanBreak
  BY DEF SetBreakpoint, SetTempBreakpoint
<1> QED
  BY <1>1, <1>2, <1>3, <1>4, <1>5, <1>6, <1>7, <1>8, <1>9, <1>10 DEF Next

LEMMA PointsInvariant ==
  ASSUME PlainTyped
  PROVE  Spec => []PointsInv
<1>1. Init => PointsInv
  BY PointsInit
<1>2. PointsInv /\ [Next]_vars => PointsInv'
  BY PointsNext
<1> QED
  BY <1>1, <1>2, PTL DEF Spec

\* For every program, whether its module is registered once or twice, every set of typed
\* scripts without breakpoint statements and every sequence of commands, the list and the
\* flags agree.
THEOREM Agreement ==
  ASSUME PlainTyped
  PROVE  Spec => []BreakpointsAgree
<1>1. PointsInv => BreakpointsAgree
  BY DEF PointsInv
<1> QED
  BY <1>1, PointsInvariant, PTL

-----------------------------------------------------------------------------
(* Stopping *)

\* What is on the C++ stack is a sequence.
HostInv == \E S : host \in Seq(S)

LEMMA HostInit == Init => HostInv
<1> SUFFICES ASSUME Init PROVE host \in Seq({})
  BY DEF HostInv
<1> QED BY DEF Init

LEMMA HostOps ==
  ASSUME HostInv, host # <<>>, NEW x, NEW y
  PROVE  /\ \E S : Front(host) \in Seq(S)
         /\ \E S : WithTop(x) \in Seq(S)
         /\ \E S : Append(WithTop(x), y) \in Seq(S)
         /\ \E S : Append(host, y) \in Seq(S)
         /\ Len(Append(WithTop(x), y)) > Len(host) /\ Last(Append(WithTop(x), y)) = y
<1>1. PICK S : host \in Seq(S)
  BY DEF HostInv
<1> DEFINE T == S \cup {x, y}
<1>2. host \in Seq(T) /\ x \in T /\ y \in T /\ Len(host) \in Nat \ {0}
  BY <1>1
<1> HIDE DEF T
<1>3. Front(host) \in Seq(T) /\ Len(Front(host)) = Len(host) - 1
  <2>1. 1 \in Int /\ Len(host) - 1 \in Int /\ Len(host) - 1 >= 0
    BY <1>2
  <2>2. \A k \in 1 .. Len(host) - 1 : host[k] \in T
    BY <1>2
  <2>3. /\ SubSeq(host, 1, Len(host) - 1) \in Seq(T)
        /\ Len(SubSeq(host, 1, Len(host) - 1)) =
             IF 1 <= Len(host) - 1 THEN Len(host) - 1 - 1 + 1 ELSE 0
    BY <2>1, <2>2, SubSeqProperties
  <2> DEFINE n == Len(host) - 1
  <2>4. Len(SubSeq(host, 1, n)) = IF 1 <= n THEN n - 1 + 1 ELSE 0
    BY <2>3
  <2> HIDE DEF n
  <2>5. n \in Int /\ n >= 0
    BY <2>1 DEF n
  <2>6. Len(SubSeq(host, 1, n)) = n
    BY <2>4, <2>5
  <2>7. Len(SubSeq(host, 1, Len(host) - 1)) = Len(host) - 1
    BY <2>6 DEF n
  <2> QED BY <2>3, <2>7, Zenon DEF Front
<1>4. WithTop(x) \in Seq(T) /\ Len(WithTop(x)) = Len(host)
  BY <1>2, <1>3 DEF WithTop
<1>5. Append(WithTop(x), y) \in Seq(T) /\ Append(host, y) \in Seq(T)
  BY <1>2, <1>4
<1>6. Len(Append(WithTop(x), y)) = Len(host) + 1 /\ Append(WithTop(x), y)[Len(host) + 1] = y
  BY <1>2, <1>4
<1>7. Len(Append(WithTop(x), y)) > Len(host)
  BY <1>2, <1>6
<1>8. Last(Append(WithTop(x), y)) = y
  BY <1>6 DEF Last
<1> QED
  BY <1>3, <1>4, <1>5, <1>7, <1>8

LEMMA HostNext ==
  ASSUME HostInv, [Next]_vars
  PROVE  HostInv'
<1>1. ASSUME NEW start \in Starts, RunnerMain(start)
      PROVE  HostInv'
  <2>1. start \in {"program", "debugged", "debugger"}
    BY BoundsAssumption
  <2>2. CASE start = "program"
    <3>1. host' = <<NewLoop("main", 1)>>
      BY <1>1, <2>2 DEF RunnerMain
    <3>2. host' \in Seq({NewLoop("main", 1)})
      BY <3>1
    <3> QED BY <3>2 DEF HostInv
  <2>3. CASE start = "debugged"
    <3>1. host' = <<NewLoop("main", 1), NewDebugger(1)>>
      BY <1>1, <2>3 DEF RunnerMain
    <3>2. host' \in Seq({NewLoop("main", 1), NewDebugger(1)})
      BY <3>1
    <3> QED BY <3>2 DEF HostInv
  <2>4. CASE start = "debugger"
    <3>1. host' = <<NewDebugger(0)>>
      BY <1>1, <2>4 DEF RunnerMain
    <3>2. host' \in Seq({NewDebugger(0)})
      BY <3>1
    <3> QED BY <3>2 DEF HostInv
  <2> QED BY <2>1, <2>2, <2>3, <2>4
<1>2. ASSUME NEW i, NEW x, host # <<>>, Execute(i, WithTop(x))
      PROVE  HostInv'
  <2>1. host' = WithTop(x) \/ \E y : host' = Append(WithTop(x), y)
    BY <1>2 DEF Execute, Op, Call, CallNative
  <2> QED BY <1>2, <2>1, HostOps, ZenonT(30) DEF HostInv
<1>3. ASSUME NEW count, host # <<>>, LeaveLoop(count)
      PROVE  HostInv'
  BY <1>3, HostOps DEF LeaveLoop, HostInv
<1>4. ASSUME Undefined
      PROVE  HostInv'
  BY <1>4 DEF Undefined, HostInv
<1>5. ASSUME NEW x, host # <<>>, host' = WithTop(x)
      PROVE  HostInv'
  BY <1>5, HostOps DEF HostInv
<1>6. CASE Hit
  <2>1. host # <<>> /\ \E x, y : host' = Append(WithTop(x), y)
    BY <1>6 DEF Hit, Looping
  <2> QED BY <2>1, HostOps DEF HostInv
<1>7. CASE RunInstruction
  BY <1>7, <1>2, <1>3, <1>4, <1>5 DEF RunInstruction, Looping
<1>8. CASE NothingToRun
  BY <1>8, <1>3 DEF NothingToRun, Looping
<1>9. CASE RunOpcodeFunc
  BY <1>9, <1>2, <1>4, <1>5 DEF RunOpcodeFunc, InDebugger
<1>10. CASE CheckColumn
  BY <1>10, <1>4, <1>5 DEF CheckColumn, InDebugger
<1>11. CASE Continue
  BY <1>11, HostOps DEF Continue, Command, InDebugger, HostInv
<1>12. CASE SelectFrame
  BY <1>12, <1>5 DEF SelectFrame, Command, InDebugger
<1>13. CASE Step
  BY <1>13, <1>5 DEF Step, CanStep, Command, InDebugger
<1>14. CASE NextInstruction
  BY <1>14, <1>5 DEF NextInstruction, CanStep, Command, InDebugger
<1>15. CASE ExecuteCode
  BY <1>15, HostOps DEF ExecuteCode, CanExecute, Command, InDebugger, HostInv
<1>16. CASE SetBreakpoint \/ SetTempBreakpoint \/ SwitchBreakpoint \/ DropBreakpoint \/ ClearBreakpoints
  BY <1>16 DEF SetBreakpoint, SetTempBreakpoint, SwitchBreakpoint, DropBreakpoint,
               ClearBreakpoints, Undefined, HostInv
<1>17. CASE UNCHANGED vars
  BY <1>17 DEF vars, HostInv
<1> QED
  BY <1>1, <1>6, <1>7, <1>8, <1>9, <1>10, <1>11, <1>12, <1>13, <1>14, <1>15, <1>16, <1>17 DEF Next

\* A loop that is about to execute an instruction whose breakpoints are all listed and
\* enabled finds one: the first of them.
LEMMA Found ==
  ASSUME PointsInv, Complete({i \in At(TopFn, TopIp) : Breakpoints[i].Enabled}, TopFn, TopIp)
  PROVE  StopsAt # {}
<1> DEFINE A == At(TopFn, TopIp)
           On == {i \in A : Breakpoints[i].Enabled}
<1>1. On \subseteq A /\ A \subseteq Nat
  BY DEF At, PointsInv
<1>2. Complete(A, TopFn, TopIp) /\ On # {}
  BY <1>1 DEF Complete
<1>3. PICK i \in On : Twinned(TopFn, TopIp) => \E j \in On : i # j
  BY <1>2 DEF Complete
<1>4. TopFn \in DOMAIN BreakpointsPerFunction /\ TopIp \in BreakpointsPerFunction[TopFn]
  BY <1>2, <1>3, Entries
<1>5. A \subseteq On
  <2>1. ASSUME NEW k \in A
        PROVE  k \in On
    <3>1. CASE Twinned(TopFn, TopIp)
      BY <1>3, <2>1, <3>1, Entries
    <3>2. CASE ~ Twinned(TopFn, TopIp)
      BY <1>3, <2>1, <3>2, Entries
    <3> QED BY <3>1, <3>2
  <2> QED BY <2>1
<1>6. \E k \in A : \A j \in A : k <= j
  <2>1. PICK k \in A : \A j, l \in A : k = j \/ l \in {k, j}
    BY <1>3, Entries
  <2>2. CASE \E j \in A : j < k
    <3>1. PICK j \in A : j < k
      BY <2>2
    <3>2. \A l \in A : l = k \/ l = j
      BY <1>1, <2>1, <3>1
    <3> QED BY <1>1, <3>1, <3>2
  <2>3. CASE \A j \in A : ~ j < k
    BY <1>1, <2>3
  <2> QED BY <2>2, <2>3
<1>7. PICK k \in FindBreakpoint(TopFn, TopIp) : k \in On
  BY <1>5, <1>6 DEF FindBreakpoint
<1> QED
  BY <1>4, <1>7 DEF StopsAt

\* Under the same assumption no loop executes an instruction at which a breakpoint and, if
\* it has one, its twin are listed and enabled before it has stopped there.
THEOREM Stopping ==
  ASSUME PlainTyped
  PROVE  Spec => StopsWhereListed
<1> DEFINE Here == /\ Looping /\ FrameCount > 0 /\ ~Top.resumed
                   /\ Complete({i \in At(TopFn, TopIp) : Breakpoints[i].Enabled}, TopFn, TopIp)
           Opens == Len(host') > Len(host) /\ Last(host').kind = "debugger"
<1>1. ASSUME PointsInv, HostInv, Next, Here
      PROVE  Opens
  <2>1. StopsAt # {}
    BY <1>1, Found
  <2>2. status = "running" /\ host # <<>> /\ Top.kind # "debugger" /\ FrameCount # 0
    BY <1>1 DEF Looping
  <2>3. ~RunInstruction /\ ~NothingToRun
    BY <1>1, <2>1, <2>2 DEF RunInstruction, NothingToRun
  <2>4. \A step : ~InDebugger(step)
    BY <2>2 DEF InDebugger
  <2>5. ~Command /\ ~RunOpcodeFunc /\ ~CheckColumn
    BY <2>4 DEF Command, RunOpcodeFunc, CheckColumn
  <2>6. /\ ~Continue /\ ~SelectFrame /\ ~SetBreakpoint /\ ~SetTempBreakpoint
        /\ ~SwitchBreakpoint /\ ~DropBreakpoint /\ ~ClearBreakpoints
        /\ ~Step /\ ~NextInstruction /\ ~ExecuteCode
    BY <2>5 DEF Continue, SelectFrame, SetBreakpoint, SetTempBreakpoint, CanBreak,
                SwitchBreakpoint, DropBreakpoint, ClearBreakpoints, Step, NextInstruction,
                CanStep, ExecuteCode, CanExecute
  <2>7. \A start : ~RunnerMain(start)
    BY <2>2 DEF RunnerMain
  <2>8. Hit
    BY <1>1, <2>3, <2>5, <2>6, <2>7 DEF Next
  <2>9. \E x : host' = Append(WithTop(x), NewDebugger(FrameCount))
    BY <2>8 DEF Hit
  <2> QED BY <1>1, <2>2, <2>9, HostOps DEF NewDebugger
<1>2. PointsInv /\ HostInv /\ [Next]_vars => [Here => Opens]_vars
  BY <1>1
<1>3. HostInv /\ [Next]_vars => HostInv'
  BY HostNext
<1> QED
  BY <1>2, <1>3, HostInit, PointsInvariant, PTL DEF Spec, StopsWhereListed

(***************************************************************************)
(* Stepping.  A program that is stopped, stepped and mixed with typed code *)
(* never executes code that was freed, and every debugger is counted: for  *)
(* every program, every set of typed scripts and every sequence of         *)
(* commands.                                                               *)
(***************************************************************************)

\* No breakpoint is set after all were cleared, and no step goes over what a step
\* does not follow: the end of a function, the return that ends a nested loop, a call
\* or a return that does not stand alone in its column.
CarefulUse == {"AfterClear", "StepOff", "StepOut", "StepOver"} \cap Usage = {}

-----------------------------------------------------------------------------
(* The inductive invariant.  It is about the activations h, the frame count, *)
(* the register, the frames and the addresses of a moment.                   *)

Activation == Loop \cup AtPrompt
CallFrame == [fn : Places, ip : Nat]

IsLoop(a) == a.kind # "debugger"

\* The frame count at which a loop ends.
Start(a) == IF a.kind = "main" THEN 0 ELSE a.frames

\* A debugger is entered and left by the loop below it: the frame count and the register
\* when the first loop above the k-th activation was entered, or now.
Under(h, k) == IF k < Len(h) /\ ~IsLoop(h[k + 1]) THEN k + 1 ELSE k
Base(h, count, k) == IF Under(h, k) = Len(h) THEN count ELSE h[Under(h, k) + 1].frames
Register(h, ret, k) == IF Under(h, k) = Len(h) THEN ret ELSE h[Under(h, k) + 1].ret

Shape(h) ==
  \A k \in 1 .. Len(h) :
    /\ h[k].kind = "main" => k = 1
    /\ h[k].kind = "typed" => k > 1 /\ ~IsLoop(h[k - 1]) /\ h[k - 1].step = "no"
    /\ h[k].kind = "native" => /\ k > 1 /\ h[k].frames > 0
                               /\ ~IsLoop(h[k - 1]) => h[k - 1].step = "check"
    /\ h[k].kind = "debugger" /\ k > 1 => IsLoop(h[k - 1])

\* The register holds the count at which a loop ends, while it executes and again
\* when it goes on.
Nest(h, count, ret) ==
  /\ Register(h, ret, 0) = 0
  /\ \A k \in 1 .. Len(h) : Base(h, count, k) > Register(h, ret, k) \/ Register(h, ret, k) = 0
  /\ \A k \in 1 .. Len(h) : IsLoop(h[k]) => Register(h, ret, k) = Start(h[k])
  /\ \A k \in 1 .. Len(h) : IsLoop(h[k]) => Start(h[k]) <= count
  /\ \A j, k \in 1 .. Len(h) :
       IsLoop(h[j]) /\ IsLoop(h[k]) /\ j <= k => Start(h[j]) <= Start(h[k])

TextIn(c, f) == IF f \in Addresses THEN c[f] ELSE f
Here(c, fr) == Column[TextIn(c, fr.fn)][fr.ip + 1]
Inside(c, fr) == TextIn(c, fr.fn) # Free /\ fr.ip < Count(TextIn(c, fr.fn))

\* StepIsHarmless, at frame count b and with r in the register.
Harmless(t, offsets, b, r) ==
  /\ r = 0 \/ b - 1 # r \/ \A p \in offsets : Body[t][p + 1].op # "return"
  /\ \A p \in offsets : Body[t][p + 1].op \in {"call", "return"} => p + 1 \notin offsets

RowIsHarmless(t, ip, b, r) ==
  Harmless(t, SameColumn(t, ip), b, r) /\ Count(t) - 1 \notin SameColumn(t, ip)

\* What a stepping debugger is going to execute is the top frame's instruction, and
\* harmless; when it compares columns, it looks at an instruction.
StepOK(d, b, r, fs, c) ==
  LET fr == fs[d.DebugFrame]
      t == TextIn(c, fr.fn)
  IN /\ d.step = "run" =>
          /\ d.DebugFrame = b - 1 /\ b > r
          /\ IF d.column = NoColumn THEN Harmless(t, {fr.ip}, b, r)
             ELSE Here(c, fr) = d.column /\ RowIsHarmless(t, fr.ip, b, r)
     /\ d.step = "check" /\ d.column # NoColumn =>
          /\ d.DebugFrame \in 0 .. MaxFrames - 1 /\ Inside(c, fr)
          /\ Here(c, fr) = d.column =>
               d.DebugFrame = b - 1 /\ b > r /\ RowIsHarmless(t, fr.ip, b, r)

Steps(h, count, ret, fs, c) ==
  \A k \in 1 .. Len(h) : ~IsLoop(h[k]) =>
    /\ StepOK(h[k], Base(h, count, k), Register(h, ret, k), fs, c)
    /\ k < Len(h) /\ h[k].step = "check" => h[k].DebugFrame = Base(h, count, k) - 1
    /\ h[k].step = "run" => k = Len(h)

\* What the frames execute is there.
Loaded(count, fs, c) == \A i \in 0 .. count - 1 : Inside(c, fs[i])

\* The i-th frame is below every typed script.
BelowTyped(h, i) == \A k \in 1 .. Len(h) : h[k].kind = "typed" => i < h[k].frames

ProgramOnly(h, count, fs) ==
  \A i \in 0 .. count - 1 : BelowTyped(h, i) => fs[i].fn \in Functions

ThreadOK ==
  /\ host \in Seq(Activation)
  /\ FrameCount \in 0 .. MaxFrames /\ ReturnFrame \in Nat
  /\ Frames \in [0 .. MaxFrames - 1 -> CallFrame]
  /\ code \in [Addresses -> Typed \cup {Free}]

Nested == Shape(host) /\ Nest(host, FrameCount, ReturnFrame)
Stepping == Steps(host, FrameCount, ReturnFrame, Frames, code)

Debugged ==
  /\ ThreadOK
  /\ Loaded(FrameCount, Frames, code) /\ ProgramOnly(host, FrameCount, Frames)
  /\ status \in {"ready", "running", "exited"}
  /\ status = "ready" => host = <<>> /\ FrameCount = 0 /\ ReturnFrame = 0
  /\ status = "running" => Nested /\ Stepping

\* A native function that calls back finds a free frame, or the error ends the program.
\* RunFunction runs a loop whatever Call returned, and where a debugger is open the error
\* does come back: the loop would go on with the frames of its callers.
NativeHasRoom ==
  status = "running" /\ FrameCount = MaxFrames /\ AttachedDebuggerCount > 0
    => Runaway(FrameCount - 1) \/ Current(FrameCount - 1).op # "native"

-----------------------------------------------------------------------------
(* Sequences of activations. *)

LEMMA FrontLast ==
  ASSUME NEW S, NEW s \in Seq(S), s # <<>>
  PROVE  /\ Front(s) \in Seq(S) /\ Len(Front(s)) = Len(s) - 1
         /\ \A i \in 1 .. Len(s) - 1 : Front(s)[i] = s[i]
         /\ Len(s) \in Nat \ {0} /\ Last(s) = s[Len(s)] /\ Last(s) \in S
<1>1. Len(s) \in Nat \ {0}
  OBVIOUS
<1>2. /\ Len(s) - 1 \in Int /\ 1 \in Int /\ Len(s) - 1 >= 0
      /\ \A i \in 1 .. Len(s) - 1 : s[i] \in S /\ 1 + i - 1 = i
  BY <1>1
<1> DEFINE n == Len(s) - 1
<1>3. /\ SubSeq(s, 1, n) \in Seq(S) /\ Len(SubSeq(s, 1, n)) = IF 1 <= n THEN n - 1 + 1 ELSE 0
      /\ \A i \in 1 .. n - 1 + 1 : SubSeq(s, 1, n)[i] = s[1 + i - 1]
  BY <1>2, SubSeqProperties
<1> HIDE DEF n
<1>4. Len(SubSeq(s, 1, n)) = n /\ n - 1 + 1 = n
  <2>1. n \in Int /\ n >= 0
    BY <1>2 DEF n
  <2> QED BY <1>3, <2>1
<1>5. Front(s) = SubSeq(s, 1, n)
  BY DEF Front, n
<1>6. \A i \in 1 .. n : SubSeq(s, 1, n)[i] = s[i]
  <2>1. \A i \in 1 .. n : i \in 1 .. n - 1 + 1 /\ 1 + i - 1 = i
    BY <1>2, <1>4 DEF n
  <2> QED BY <1>3, <2>1
<1>7. Last(s) = s[Len(s)] /\ s[Len(s)] \in S
  BY <1>1 DEF Last
<1>8. Front(s) \in Seq(S) /\ Len(Front(s)) = n /\ \A i \in 1 .. n : Front(s)[i] = s[i]
  BY <1>3, <1>4, <1>5, <1>6
<1> QED BY <1>1, <1>7, <1>8 DEF n

LEMMA AppendShape ==
  ASSUME NEW S, NEW s \in Seq(S), NEW e \in S
  PROVE  /\ Append(s, e) \in Seq(S) /\ Len(Append(s, e)) = Len(s) + 1 /\ Len(s) \in Nat
         /\ \A i \in 1 .. Len(s) : Append(s, e)[i] = s[i]
         /\ Append(s, e)[Len(s) + 1] = e /\ Append(s, e) # <<>>
BY AppendProperties

\* The top activation is replaced by x.
LEMMA WithTopShape ==
  ASSUME host \in Seq(Activation), host # <<>>, NEW x \in Activation
  PROVE  /\ WithTop(x) \in Seq(Activation) /\ Len(WithTop(x)) = Len(host)
         /\ \A i \in 1 .. Len(host) - 1 : WithTop(x)[i] = host[i]
         /\ WithTop(x)[Len(host)] = x
<1>1. /\ Front(host) \in Seq(Activation) /\ Len(Front(host)) = Len(host) - 1
      /\ \A i \in 1 .. Len(host) - 1 : Front(host)[i] = host[i]
      /\ Len(host) \in Nat \ {0}
  BY FrontLast
<1>2. /\ Append(Front(host), x) \in Seq(Activation)
      /\ Len(Append(Front(host), x)) = Len(host) - 1 + 1
      /\ \A i \in 1 .. Len(host) - 1 : Append(Front(host), x)[i] = Front(host)[i]
      /\ Append(Front(host), x)[Len(host) - 1 + 1] = x
  BY <1>1, AppendShape
<1>3. Len(host) - 1 + 1 = Len(host)
  BY <1>1
<1> QED BY <1>1, <1>2, <1>3 DEF WithTop

LEMMA Kinds ==
  ASSUME NEW a \in Activation
  PROVE  /\ IsLoop(a) => /\ a \in Loop /\ a.frames \in Nat /\ a.ret \in Nat /\ Start(a) \in Nat
                         /\ a.kind \in {"main", "native", "typed"}
         /\ ~IsLoop(a) => a \in AtPrompt /\ a.kind = "debugger"
BY DEF Activation, Loop, AtPrompt, IsLoop, Start

\* g is h and one activation more.
Extends(g, h) ==
  /\ g \in Seq(Activation) /\ h \in Seq(Activation)
  /\ Len(g) = Len(h) + 1
  /\ \A k \in 1 .. Len(h) : g[k] = h[k]

LEMMA AppendExtends ==
  ASSUME NEW h \in Seq(Activation), NEW a \in Activation
  PROVE  Extends(Append(h, a), h) /\ Append(h, a)[Len(Append(h, a))] = a
BY AppendShape DEF Extends

\* A loop remembers the frame count and the register it was entered with.
LEMMA LoopAbove ==
  ASSUME NEW g, NEW h, Extends(g, h), IsLoop(g[Len(g)]), NEW k \in 0 .. Len(h),
         NEW count, NEW ret
  PROVE  /\ Base(g, count, k) = Base(h, g[Len(g)].frames, k)
         /\ Register(g, ret, k) = Register(h, g[Len(g)].ret, k)
<1>1. Len(h) \in Nat /\ Len(g) = Len(h) + 1 /\ \A j \in 1 .. Len(h) : g[j] = h[j]
  BY DEF Extends
<1>2. Under(g, k) = Under(h, k)
  <2>1. CASE k = Len(h)
    BY <1>1, <2>1 DEF Under
  <2>2. CASE k < Len(h)
    <3>1. k + 1 \in 1 .. Len(h) /\ k < Len(g)
      BY <1>1, <2>2
    <3> QED BY <1>1, <2>2, <3>1 DEF Under
  <2> QED BY <1>1, <2>1, <2>2
<1>3. Under(h, k) \in 0 .. Len(h)
  BY <1>1 DEF Under
<1>4. Under(h, k) # Len(g)
  BY <1>1, <1>3
<1>5. CASE Under(h, k) = Len(h)
  BY <1>1, <1>2, <1>4, <1>5 DEF Base, Register
<1>6. CASE Under(h, k) # Len(h)
  <2>1. Under(h, k) + 1 \in 1 .. Len(h)
    BY <1>1, <1>3, <1>6
  <2> QED BY <1>1, <1>2, <1>4, <1>6, <2>1 DEF Base, Register
<1> QED BY <1>5, <1>6

\* A debugger does not.
LEMMA DebuggerAbove ==
  ASSUME NEW g, NEW h, Extends(g, h), ~IsLoop(g[Len(g)]), h = <<>> \/ IsLoop(h[Len(h)]),
         NEW k \in 0 .. Len(h), NEW count, NEW ret
  PROVE  Base(g, count, k) = Base(h, count, k) /\ Register(g, ret, k) = Register(h, ret, k)
<1>1. Len(h) \in Nat /\ Len(g) = Len(h) + 1 /\ \A j \in 1 .. Len(h) : g[j] = h[j]
  BY DEF Extends
<1>2. CASE k = Len(h)
  <2>1. Under(g, k) = Len(g) /\ Under(h, k) = Len(h)
    BY <1>1, <1>2 DEF Under
  <2> QED BY <2>1 DEF Base, Register
<1>3. CASE k < Len(h)
  <2>1. k + 1 \in 1 .. Len(h) /\ k < Len(g) /\ g[k + 1] = h[k + 1]
    BY <1>1, <1>3
  <2>2. Under(g, k) = Under(h, k)
    BY <1>3, <2>1 DEF Under
  <2>3. k + 1 = Len(h) => IsLoop(h[k + 1])
    <3>1. h # <<>>
      BY <2>1
    <3> QED BY <3>1
  <2>4. Under(h, k) \in 0 .. Len(h) /\ Under(h, k) # Len(h)
    BY <1>1, <1>3, <2>3 DEF Under
  <2>5. Under(h, k) + 1 \in 1 .. Len(h) /\ Under(h, k) # Len(g)
    BY <1>1, <2>4
  <2> QED BY <1>1, <2>2, <2>4, <2>5 DEF Base, Register
<1> QED BY <1>1, <1>2, <1>3

\* g is h with another state of the top activation.
SameLevels(g, h) ==
  /\ g \in Seq(Activation) /\ h \in Seq(Activation)
  /\ Len(g) = Len(h) /\ Len(h) > 0
  /\ \A k \in 1 .. Len(h) - 1 : g[k] = h[k]
  /\ g[Len(h)].kind = h[Len(h)].kind
  /\ IsLoop(h[Len(h)]) => /\ g[Len(h)].frames = h[Len(h)].frames
                          /\ g[Len(h)].ret = h[Len(h)].ret

LEMMA SameLevelsKeep ==
  ASSUME NEW g, NEW h, SameLevels(g, h), Shape(h), NEW k \in 0 .. Len(h), NEW count, NEW ret
  PROVE  Base(g, count, k) = Base(h, count, k) /\ Register(g, ret, k) = Register(h, ret, k)
<1>1. /\ Len(h) \in Nat \ {0} /\ Len(g) = Len(h)
      /\ \A j \in 1 .. Len(h) : g[j].kind = h[j].kind
      /\ \A j \in 1 .. Len(h) : IsLoop(h[j]) => g[j].frames = h[j].frames /\ g[j].ret = h[j].ret
  <2>1. Len(h) \in Nat \ {0}
    BY DEF SameLevels
  <2>2. \A j \in 1 .. Len(h) : j \in 1 .. Len(h) - 1 \/ j = Len(h)
    BY <2>1
  <2> QED BY <2>1, <2>2 DEF SameLevels
<1>2. \A j \in 1 .. Len(h) : IsLoop(g[j]) <=> IsLoop(h[j])
  BY <1>1 DEF IsLoop
<1>3. Under(g, k) = Under(h, k)
  <2>1. CASE k < Len(h)
    <3>1. k + 1 \in 1 .. Len(h)
      BY <1>1, <2>1
    <3> QED BY <1>1, <1>2, <3>1 DEF Under
  <2>2. CASE ~(k < Len(h))
    BY <1>1, <2>2 DEF Under
  <2> QED BY <2>1, <2>2
<1>4. CASE Under(h, k) = Len(h)
  BY <1>1, <1>3, <1>4 DEF Base, Register
<1>5. CASE Under(h, k) # Len(h)
  <2>1. Under(h, k) + 1 \in 1 .. Len(h)
    BY <1>1, <1>5 DEF Under
  <2>2. IsLoop(h[Under(h, k) + 1])
    <3>1. CASE Under(h, k) = k
      BY <1>5, <2>1, <3>1 DEF Under
    <3>2. CASE Under(h, k) # k
      <4>1. Under(h, k) = k + 1 /\ ~IsLoop(h[k + 1]) /\ k + 1 \in 1 .. Len(h)
        BY <1>1, <3>2 DEF Under
      <4>2. k + 2 \in 1 .. Len(h) /\ (k + 2) - 1 = k + 1 /\ k + 2 > 1 /\ (k + 1) + 1 = k + 2
        BY <1>1, <2>1, <4>1
      <4>3. IsLoop(h[k + 2])
        BY <4>1, <4>2 DEF Shape, IsLoop
      <4> QED BY <4>1, <4>2, <4>3
    <3> QED BY <3>1, <3>2
  <2> QED BY <1>1, <1>3, <1>5, <2>1, <2>2 DEF Base, Register
<1> QED BY <1>4, <1>5

-----------------------------------------------------------------------------
(* The shape of the activations. *)

\* What may be entered above h.
MayEnter(h, a) ==
  /\ a.kind = "main" => h = <<>>
  /\ a.kind = "typed" => h # <<>> /\ ~IsLoop(h[Len(h)]) /\ h[Len(h)].step = "no"
  /\ a.kind = "native" => /\ h # <<>> /\ a.frames > 0
                          /\ ~IsLoop(h[Len(h)]) => h[Len(h)].step = "check"
  /\ a.kind = "debugger" => h = <<>> \/ IsLoop(h[Len(h)])

LEMMA ShapeEntered ==
  ASSUME NEW g, NEW h, Extends(g, h), Shape(h), MayEnter(h, g[Len(g)])
  PROVE  Shape(g)
<1>1. Len(h) \in Nat /\ Len(g) = Len(h) + 1 /\ \A j \in 1 .. Len(h) : g[j] = h[j]
  BY DEF Extends
<1>2. Len(h) > 0 => h # <<>> /\ Len(h) \in 1 .. Len(h)
  BY <1>1
<1>3. h # <<>> => Len(h) > 0
  BY DEF Extends
<1> SUFFICES ASSUME NEW k \in 1 .. Len(g)
             PROVE  /\ g[k].kind = "main" => k = 1
                    /\ g[k].kind = "typed" => k > 1 /\ ~IsLoop(g[k - 1]) /\ g[k - 1].step = "no"
                    /\ g[k].kind = "native" => /\ k > 1 /\ g[k].frames > 0
                                               /\ ~IsLoop(g[k - 1]) => g[k - 1].step = "check"
                    /\ g[k].kind = "debugger" /\ k > 1 => IsLoop(g[k - 1])
  BY DEF Shape
<1>4. CASE k \in 1 .. Len(h)
  <2>1. g[k] = h[k] /\ (k > 1 => k - 1 \in 1 .. Len(h))
    BY <1>1, <1>4
  <2>2. k > 1 => g[k - 1] = h[k - 1]
    BY <1>1, <2>1
  <2> QED BY <1>4, <2>1, <2>2 DEF Shape
<1>5. CASE k = Len(g)
  <2>1. k - 1 = Len(h) /\ (Len(h) > 0 => g[k - 1] = h[Len(h)])
    BY <1>1, <1>5
  <2>2. g[k].kind = "main" => k = 1
    BY <1>1, <1>5 DEF MayEnter
  <2>3. g[k].kind = "typed" => k > 1 /\ ~IsLoop(g[k - 1]) /\ g[k - 1].step = "no"
    BY <1>1, <1>3, <1>5, <2>1 DEF MayEnter
  <2>4. g[k].kind = "native" => /\ k > 1 /\ g[k].frames > 0
                                /\ ~IsLoop(g[k - 1]) => g[k - 1].step = "check"
    BY <1>1, <1>3, <1>5, <2>1 DEF MayEnter
  <2>5. g[k].kind = "debugger" /\ k > 1 => IsLoop(g[k - 1])
    BY <1>1, <1>5, <2>1 DEF MayEnter
  <2> QED BY <2>2, <2>3, <2>4, <2>5
<1> QED BY <1>1, <1>4, <1>5

LEMMA ShapeLeft ==
  ASSUME NEW g, NEW h, Extends(g, h), Shape(g)
  PROVE  Shape(h)
<1>1. Len(h) \in Nat /\ Len(g) = Len(h) + 1 /\ \A j \in 1 .. Len(h) : g[j] = h[j]
  BY DEF Extends
<1> SUFFICES ASSUME NEW k \in 1 .. Len(h)
             PROVE  /\ h[k].kind = "main" => k = 1
                    /\ h[k].kind = "typed" => k > 1 /\ ~IsLoop(h[k - 1]) /\ h[k - 1].step = "no"
                    /\ h[k].kind = "native" => /\ k > 1 /\ h[k].frames > 0
                                               /\ ~IsLoop(h[k - 1]) => h[k - 1].step = "check"
                    /\ h[k].kind = "debugger" /\ k > 1 => IsLoop(h[k - 1])
  BY DEF Shape
<1>2. k \in 1 .. Len(g) /\ g[k] = h[k] /\ (k > 1 => k - 1 \in 1 .. Len(h))
  BY <1>1
<1>3. k > 1 => g[k - 1] = h[k - 1]
  BY <1>1, <1>2
<1> QED BY <1>2, <1>3 DEF Shape

LEMMA ShapeSame ==
  ASSUME NEW g, NEW h, SameLevels(g, h), Shape(h)
  PROVE  Shape(g)
<1>1. Len(h) \in Nat \ {0} /\ Len(g) = Len(h)
  BY DEF SameLevels
<1>2. \A j \in 1 .. Len(h) : g[j].kind = h[j].kind /\ (j < Len(h) => g[j] = h[j])
  <2>1. \A j \in 1 .. Len(h) : j \in 1 .. Len(h) - 1 \/ j = Len(h)
    BY <1>1
  <2> QED BY <1>1, <2>1 DEF SameLevels
<1>3. \A j \in 1 .. Len(h) : IsLoop(h[j]) => g[j].frames = h[j].frames
  <2>1. \A j \in 1 .. Len(h) : j \in 1 .. Len(h) - 1 \/ j = Len(h)
    BY <1>1
  <2> QED BY <1>2, <2>1 DEF SameLevels
<1> SUFFICES ASSUME NEW k \in 1 .. Len(h)
             PROVE  /\ g[k].kind = "main" => k = 1
                    /\ g[k].kind = "typed" => k > 1 /\ ~IsLoop(g[k - 1]) /\ g[k - 1].step = "no"
                    /\ g[k].kind = "native" => /\ k > 1 /\ g[k].frames > 0
                                               /\ ~IsLoop(g[k - 1]) => g[k - 1].step = "check"
                    /\ g[k].kind = "debugger" /\ k > 1 => IsLoop(g[k - 1])
  BY <1>1 DEF Shape
<1>4. k > 1 => k - 1 \in 1 .. Len(h) /\ k - 1 < Len(h)
  BY <1>1
<1>5. k > 1 => g[k - 1] = h[k - 1]
  BY <1>2, <1>4
<1>6. h[k].kind = "native" => g[k].frames = h[k].frames
  BY <1>3 DEF IsLoop
<1> QED BY <1>2, <1>5, <1>6 DEF Shape

-----------------------------------------------------------------------------
(* Registers and frame counts. *)

\* No loop that is on the stack ends above the register.
LEMMA StartsBelow ==
  ASSUME NEW h \in Seq(Activation), NEW count \in Nat, NEW ret \in Nat,
         Shape(h), Nest(h, count, ret)
  PROVE  /\ \A k \in 1 .. Len(h) : IsLoop(h[k]) => Start(h[k]) \in Nat /\ Start(h[k]) <= ret
         /\ count > ret \/ ret = 0
<1>1. Len(h) \in Nat /\ \A k \in 1 .. Len(h) : h[k] \in Activation
  OBVIOUS
<1>2. CASE Len(h) = 0
  <2>1. Register(h, ret, 0) = ret
    BY <1>2 DEF Register, Under
  <2> QED BY <1>2, <2>1 DEF Nest
<1>3. CASE Len(h) > 0
  <2> DEFINE n == Len(h)
  <2>1. n \in 1 .. n /\ n \in Nat
    BY <1>1, <1>3
  <2>2. Under(h, n) = n /\ Base(h, count, n) = count /\ Register(h, ret, n) = ret
    BY <2>1 DEF Under, Base, Register
  <2>3. count > ret \/ ret = 0
    BY <2>1, <2>2 DEF Nest
  <2>4. ASSUME NEW k \in 1 .. n, IsLoop(h[k])
        PROVE  Start(h[k]) \in Nat /\ Start(h[k]) <= ret
    <3>1. Start(h[k]) \in Nat
      BY <1>1, <2>4, Kinds
    <3>2. CASE IsLoop(h[n])
      BY <2>1, <2>2, <2>4, <3>1, <3>2 DEF Nest
    <3>3. CASE ~IsLoop(h[n])
      <4>1. k # n
        BY <2>4, <3>3
      <4>2. n - 1 \in 1 .. n /\ n > 1 /\ k <= n - 1 /\ n - 1 < n /\ (n - 1) + 1 = n
        BY <2>1, <4>1
      <4>3. IsLoop(h[n - 1])
        BY <2>1, <3>3, <4>2 DEF Shape, IsLoop
      <4>4. Register(h, ret, n - 1) = ret
        BY <3>3, <4>2 DEF Under, Register
      <4> QED BY <2>4, <3>1, <4>2, <4>3, <4>4 DEF Nest
    <3> QED BY <3>2, <3>3
  <2> QED BY <2>3, <2>4
<1> QED BY <1>1, <1>2, <1>3

\* Below the top no debugger is current: its frame count is where the loop above it ends.
LEMMA SuspendedBelow ==
  ASSUME NEW h \in Seq(Activation), Shape(h), NEW k \in 1 .. Len(h) - 1, ~IsLoop(h[k]),
         NEW count, NEW ret
  PROVE  /\ k + 1 \in 1 .. Len(h) /\ IsLoop(h[k + 1])
         /\ Base(h, count, k) = Start(h[k + 1]) /\ Register(h, ret, k) = h[k + 1].ret
<1>1. Len(h) \in Nat /\ k + 1 \in 1 .. Len(h) /\ (k + 1) - 1 = k /\ k + 1 > 1 /\ k + 1 # 1
  OBVIOUS
<1>2. IsLoop(h[k + 1])
  BY <1>1 DEF Shape, IsLoop
<1>3. Under(h, k) = k /\ k # Len(h)
  BY <1>1, <1>2 DEF Under
<1>4. h[k + 1].kind # "main"
  BY <1>1 DEF Shape
<1> QED BY <1>1, <1>2, <1>3, <1>4 DEF Base, Register, Start

\* Frames are made and left above the register.
LEMMA NestCount ==
  ASSUME NEW h \in Seq(Activation), NEW count \in Nat, NEW ret \in Nat, NEW count2 \in Nat,
         Shape(h), Nest(h, count, ret), count2 > ret \/ ret = 0
  PROVE  Nest(h, count2, ret)
<1>1. \A k \in 1 .. Len(h) : Base(h, count2, k) > Register(h, ret, k) \/ Register(h, ret, k) = 0
  <2> SUFFICES ASSUME NEW k \in 1 .. Len(h)
               PROVE  Base(h, count2, k) > Register(h, ret, k) \/ Register(h, ret, k) = 0
    OBVIOUS
  <2>1. CASE Under(h, k) = Len(h)
    BY <2>1 DEF Base, Register
  <2>2. CASE Under(h, k) # Len(h)
    <3>1. Base(h, count2, k) = Base(h, count, k)
      BY <2>2 DEF Base
    <3> QED BY <3>1 DEF Nest
  <2> QED BY <2>1, <2>2
<1>2. \A k \in 1 .. Len(h) : IsLoop(h[k]) => Start(h[k]) <= count2
  <2>1. \A k \in 1 .. Len(h) : IsLoop(h[k]) => Start(h[k]) \in Nat /\ Start(h[k]) <= ret
    BY StartsBelow
  <2> QED BY <2>1
<1> QED BY <1>1, <1>2 DEF Nest

LEMMA NestSame ==
  ASSUME NEW g, NEW h, SameLevels(g, h), Shape(h), NEW count, NEW ret, Nest(h, count, ret)
  PROVE  Nest(g, count, ret)
<1>1. Len(h) \in Nat \ {0} /\ Len(g) = Len(h)
  BY DEF SameLevels
<1>2. \A k \in 0 .. Len(h) : /\ Base(g, count, k) = Base(h, count, k)
                             /\ Register(g, ret, k) = Register(h, ret, k)
  BY SameLevelsKeep
<1>3. \A j \in 1 .. Len(h) : /\ IsLoop(g[j]) <=> IsLoop(h[j])
                             /\ IsLoop(h[j]) => Start(g[j]) = Start(h[j])
  <2>1. \A j \in 1 .. Len(h) : j \in 1 .. Len(h) - 1 \/ j = Len(h)
    BY <1>1
  <2>2. /\ \A j \in 1 .. Len(h) - 1 : g[j] = h[j]
        /\ g[Len(h)].kind = h[Len(h)].kind
        /\ IsLoop(h[Len(h)]) => g[Len(h)].frames = h[Len(h)].frames
    BY DEF SameLevels
  <2> QED BY <2>1, <2>2 DEF IsLoop, Start
<1>4. 0 \in 0 .. Len(h) /\ \A k \in 1 .. Len(h) : k \in 0 .. Len(h)
  BY <1>1
<1> QED BY <1>1, <1>2, <1>3, <1>4 DEF Nest

LEMMA NestLoopEntered ==
  ASSUME NEW g, NEW h, Extends(g, h), IsLoop(g[Len(g)]), MayEnter(h, g[Len(g)]), Shape(h),
         NEW count \in Nat, NEW ret \in Nat, Nest(h, count, ret), NEW count2 \in Nat,
         g[Len(g)].ret = ret, h # <<>> => g[Len(g)].frames = count,
         count2 > Start(g[Len(g)]) \/ Start(g[Len(g)]) = 0
  PROVE  Nest(g, count2, Start(g[Len(g)]))
<1> DEFINE r == g[Len(g)]
           n == Len(h)
<1>1. n \in Nat /\ Len(g) = n + 1 /\ \A j \in 1 .. n : g[j] = h[j]
  BY DEF Extends
<1>2. h \in Seq(Activation) /\ r \in Activation
  BY <1>1 DEF Extends
<1>3. \A k \in 0 .. n : /\ Base(g, count2, k) = Base(h, r.frames, k)
                        /\ Register(g, Start(r), k) = Register(h, ret, k)
  BY LoopAbove
<1>4. Under(g, n + 1) = n + 1
  BY <1>1 DEF Under
<1>5. Base(g, count2, n + 1) = count2 /\ Register(g, Start(r), n + 1) = Start(r)
  BY <1>1, <1>4 DEF Base, Register
<1>6. Start(r) \in Nat /\ Start(r) <= count2
  BY <1>2, Kinds
<1>7. ASSUME NEW k \in 1 .. n
      PROVE  h # <<>> /\ r.frames = count /\ r.kind # "main" /\ Start(r) = count
  <2>1. h # <<>>
    BY <1>2, <1>7
  <2> QED BY <2>1 DEF MayEnter, Start
<1>8. \A k \in 1 .. n : IsLoop(h[k]) => Start(h[k]) <= Start(r) /\ Start(h[k]) \in Nat
  <2>1. \A k \in 1 .. n : h[k] \in Activation
    BY <1>2
  <2> QED BY <1>7, <2>1, Kinds DEF Nest
<1>9. \A k \in 1 .. Len(g) : k \in 1 .. n \/ k = n + 1
  BY <1>1
<1>10. Register(g, Start(r), 0) = 0
  <2>1. 0 \in 0 .. n
    BY <1>1
  <2> QED BY <1>3, <2>1 DEF Nest
<1>11. \A k \in 1 .. n : /\ Base(g, count2, k) = Base(h, count, k)
                         /\ Register(g, Start(r), k) = Register(h, ret, k)
  <2>1. \A k \in 1 .. n : k \in 0 .. n
    BY <1>1
  <2> QED BY <1>3, <1>7, <2>1
<1> HIDE DEF r
<1>12. \A k \in 1 .. Len(g) :
         Base(g, count2, k) > Register(g, Start(r), k) \/ Register(g, Start(r), k) = 0
  BY <1>1, <1>5, <1>9, <1>11 DEF Nest, r
<1>13. \A k \in 1 .. Len(g) : IsLoop(g[k]) => Register(g, Start(r), k) = Start(g[k])
  BY <1>1, <1>5, <1>9, <1>11 DEF Nest, r
<1>14. \A k \in 1 .. Len(g) : IsLoop(g[k]) => Start(g[k]) <= Start(r)
  BY <1>1, <1>6, <1>8, <1>9 DEF r
<1>15. \A k \in 1 .. Len(g) : IsLoop(g[k]) => Start(g[k]) <= count2
  <2>1. \A k \in 1 .. Len(g) : IsLoop(g[k]) => Start(g[k]) \in Nat
    BY <1>2, Kinds DEF Extends
  <2> QED BY <1>6, <1>14, <2>1
<1>16. ASSUME NEW j \in 1 .. Len(g), NEW k \in 1 .. Len(g), IsLoop(g[j]), IsLoop(g[k]), j <= k
       PROVE  Start(g[j]) <= Start(g[k])
  <2>1. CASE k = n + 1
    BY <1>1, <1>14, <1>16, <2>1 DEF r
  <2>2. CASE k \in 1 .. n
    <3>1. j \in 1 .. n
      BY <1>1, <1>16, <2>2
    <3> QED BY <1>1, <1>16, <2>2, <3>1 DEF Nest
  <2> QED BY <1>9, <2>1, <2>2
<1> QED BY <1>10, <1>12, <1>13, <1>15, <1>16 DEF Nest, r

\* A loop that puts back what it was entered with.
LEMMA NestLoopLeft ==
  ASSUME NEW g, NEW h, Extends(g, h), IsLoop(g[Len(g)]), g[Len(g)].kind # "main", Shape(g),
         NEW count \in Nat, NEW ret \in Nat, Nest(g, count, ret)
  PROVE  /\ Nest(h, g[Len(g)].frames, g[Len(g)].ret)
         /\ g[Len(g)].frames \in Nat /\ g[Len(g)].ret \in Nat /\ g[Len(g)].frames = ret
<1> DEFINE r == g[Len(g)]
           n == Len(h)
<1>1. n \in Nat /\ Len(g) = n + 1 /\ \A j \in 1 .. n : g[j] = h[j]
  BY DEF Extends
<1>2. /\ g \in Seq(Activation) /\ h \in Seq(Activation) /\ r \in Activation
      /\ \A k \in 1 .. n : k \in 1 .. Len(g)
      /\ Len(g) \in 1 .. Len(g)
  BY <1>1 DEF Extends
<1>3. r.frames \in Nat /\ r.ret \in Nat /\ Start(r) = r.frames
  BY <1>2, Kinds DEF Start
<1>4. \A k \in 0 .. n : /\ Base(g, count, k) = Base(h, r.frames, k)
                        /\ Register(g, ret, k) = Register(h, r.ret, k)
  BY LoopAbove
<1>5. 0 \in 0 .. n /\ \A k \in 1 .. n : k \in 0 .. n /\ k <= Len(g)
  BY <1>1
<1>6. \A k \in 1 .. n : IsLoop(h[k]) => Start(h[k]) <= r.frames
  BY <1>1, <1>2, <1>3, <1>5 DEF Nest
<1>7. Register(g, ret, Len(g)) = ret
  BY <1>2 DEF Register, Under
<1>8. r.frames = ret
  BY <1>2, <1>3, <1>7 DEF Nest
<1>9. Register(h, r.ret, 0) = 0
  BY <1>4, <1>5 DEF Nest
<1>10. \A k \in 1 .. n : Base(h, r.frames, k) > Register(h, r.ret, k) \/ Register(h, r.ret, k) = 0
  BY <1>2, <1>4, <1>5 DEF Nest
<1>11. \A k \in 1 .. n : IsLoop(h[k]) => Register(h, r.ret, k) = Start(h[k])
  BY <1>1, <1>2, <1>4, <1>5 DEF Nest
<1>12. \A j, k \in 1 .. n : IsLoop(h[j]) /\ IsLoop(h[k]) /\ j <= k => Start(h[j]) <= Start(h[k])
  BY <1>1, <1>2 DEF Nest
<1> QED BY <1>3, <1>6, <1>8, <1>9, <1>10, <1>11, <1>12 DEF Nest

\* A debugger changes neither.
LEMMA NestDebugger ==
  ASSUME NEW g, NEW h, Extends(g, h), ~IsLoop(g[Len(g)]), Shape(g),
         NEW count \in Nat, NEW ret \in Nat
  PROVE  /\ Nest(g, count, ret) => Nest(h, count, ret)
         /\ Nest(h, count, ret) /\ (count > ret \/ ret = 0) => Nest(g, count, ret)
<1> DEFINE n == Len(h)
<1>1. n \in Nat /\ Len(g) = n + 1 /\ \A j \in 1 .. n : g[j] = h[j]
  BY DEF Extends
<1>2. h = <<>> \/ IsLoop(h[n])
  <2>1. CASE n = 0
    BY <2>1 DEF Extends
  <2>2. CASE n > 0
    <3>1. Len(g) \in 1 .. Len(g) /\ Len(g) > 1 /\ Len(g) - 1 = n /\ n \in 1 .. n
      BY <1>1, <2>2
    <3>2. IsLoop(g[Len(g) - 1])
      BY <3>1 DEF Shape, IsLoop
    <3> QED BY <1>1, <3>1, <3>2
  <2> QED BY <1>1, <2>1, <2>2
<1>3. \A k \in 0 .. n : /\ Base(g, count, k) = Base(h, count, k)
                        /\ Register(g, ret, k) = Register(h, ret, k)
  BY <1>2, DebuggerAbove
<1>4. Base(g, count, n + 1) = count /\ Register(g, ret, n + 1) = ret
  BY <1>1 DEF Base, Register, Under
<1>5. /\ 0 \in 0 .. n /\ \A k \in 1 .. n : k \in 0 .. n /\ k \in 1 .. Len(g)
      /\ \A k \in 1 .. Len(g) : k \in 1 .. n \/ k = n + 1
  BY <1>1
<1>6. ASSUME Nest(g, count, ret) PROVE Nest(h, count, ret)
  <2>1. Register(h, ret, 0) = 0
    BY <1>3, <1>5, <1>6 DEF Nest
  <2>2. \A k \in 1 .. n : Base(h, count, k) > Register(h, ret, k) \/ Register(h, ret, k) = 0
    BY <1>3, <1>5, <1>6 DEF Nest
  <2>3. \A k \in 1 .. n : IsLoop(h[k]) => Register(h, ret, k) = Start(h[k])
    BY <1>1, <1>3, <1>5, <1>6 DEF Nest
  <2>4. \A k \in 1 .. n : IsLoop(h[k]) => Start(h[k]) <= count
    BY <1>1, <1>5, <1>6 DEF Nest
  <2>5. \A j, k \in 1 .. n : IsLoop(h[j]) /\ IsLoop(h[k]) /\ j <= k => Start(h[j]) <= Start(h[k])
    BY <1>1, <1>5, <1>6 DEF Nest
  <2> QED BY <2>1, <2>2, <2>3, <2>4, <2>5 DEF Nest
<1>7. ASSUME Nest(h, count, ret), count > ret \/ ret = 0 PROVE Nest(g, count, ret)
  <2>1. Register(g, ret, 0) = 0
    BY <1>3, <1>5, <1>7 DEF Nest
  <2>2. \A k \in 1 .. Len(g) : Base(g, count, k) > Register(g, ret, k) \/ Register(g, ret, k) = 0
    BY <1>3, <1>4, <1>5, <1>7 DEF Nest
  <2>3. \A k \in 1 .. Len(g) : IsLoop(g[k]) => k \in 1 .. n
    BY <1>1, <1>5
  <2>4. \A k \in 1 .. Len(g) : IsLoop(g[k]) => Register(g, ret, k) = Start(g[k])
    BY <1>1, <1>3, <1>5, <1>7, <2>3 DEF Nest
  <2>5. \A k \in 1 .. Len(g) : IsLoop(g[k]) => Start(g[k]) <= count
    BY <1>1, <1>7, <2>3 DEF Nest
  <2>6. \A j, k \in 1 .. Len(g) : IsLoop(g[j]) /\ IsLoop(g[k]) /\ j <= k => Start(g[j]) <= Start(g[k])
    BY <1>1, <1>7, <2>3 DEF Nest
  <2> QED BY <2>1, <2>2, <2>4, <2>5, <2>6 DEF Nest
<1> QED BY <1>6, <1>7

-----------------------------------------------------------------------------
(* Stepping debuggers. *)

\* The frames below the m-th are what they were, and so is what they execute.
Agree(m, fs, c, fs2, c2) ==
  \A j \in 0 .. m - 1 : fs2[j] = fs[j] /\ TextIn(c2, fs[j].fn) = TextIn(c, fs[j].fn)

\* A debugger that waits for a loop looks at a frame below that loop.
LEMMA WaitingStays ==
  ASSUME NEW d \in AtPrompt, NEW b, NEW r, NEW fs, NEW c, NEW fs2, NEW c2, StepOK(d, b, r, fs, c),
         d.step # "run",
         d.step = "check" /\ d.column # NoColumn
           => /\ fs2[d.DebugFrame] = fs[d.DebugFrame]
              /\ TextIn(c2, fs[d.DebugFrame].fn) = TextIn(c, fs[d.DebugFrame].fn)
  PROVE  StepOK(d, b, r, fs2, c2)
<1>1. CASE d.step = "check" /\ d.column # NoColumn
  BY <1>1 DEF StepOK, Inside, Here
<1>2. CASE ~(d.step = "check" /\ d.column # NoColumn)
  BY <1>2 DEF StepOK
<1> QED BY <1>1, <1>2

LEMMA StepsBelow ==
  ASSUME NEW h \in Seq(Activation), Shape(h), NEW count \in Nat, NEW ret \in Nat,
         Nest(h, count, ret), NEW fs, NEW c, Steps(h, count, ret, fs, c),
         NEW fs2, NEW c2, Agree(ret, fs, c, fs2, c2), NEW k \in 1 .. Len(h) - 1, ~IsLoop(h[k])
  PROVE  StepOK(h[k], Base(h, count, k), Register(h, ret, k), fs2, c2)
<1>1. /\ Len(h) \in Nat /\ k \in 1 .. Len(h) /\ k < Len(h) /\ k # Len(h) /\ h[k] \in Activation
  OBVIOUS
<1>2. /\ StepOK(h[k], Base(h, count, k), Register(h, ret, k), fs, c)
      /\ h[k].step = "check" => h[k].DebugFrame = Base(h, count, k) - 1
      /\ h[k].step # "run"
  BY <1>1 DEF Steps
<1>3. h[k] \in AtPrompt
  BY <1>1, Kinds
<1>4. Base(h, count, k) = Start(h[k + 1]) /\ IsLoop(h[k + 1]) /\ k + 1 \in 1 .. Len(h)
  BY SuspendedBelow
<1>5. Base(h, count, k) \in Nat /\ Base(h, count, k) <= ret
  BY <1>4, StartsBelow
<1>6. ASSUME h[k].step = "check" /\ h[k].column # NoColumn
      PROVE  h[k].DebugFrame \in 0 .. ret - 1
  <2>1. h[k].DebugFrame \in 0 .. MaxFrames - 1
    BY <1>2, <1>6 DEF StepOK
  <2>2. h[k].DebugFrame = Base(h, count, k) - 1
    BY <1>2, <1>6
  <2> QED BY <1>5, <2>1, <2>2
<1>7. h[k].step = "check" /\ h[k].column # NoColumn
        => /\ fs2[h[k].DebugFrame] = fs[h[k].DebugFrame]
           /\ TextIn(c2, fs[h[k].DebugFrame].fn) = TextIn(c, fs[h[k].DebugFrame].fn)
  BY <1>6 DEF Agree
<1> QED BY <1>2, <1>3, <1>7, WaitingStays

\* A step above the register leaves the other debuggers alone.
LEMMA StepsSame ==
  ASSUME NEW g, NEW h, SameLevels(g, h), Shape(h), NEW count \in Nat, NEW ret \in Nat,
         Nest(h, count, ret), NEW fs, NEW c, Steps(h, count, ret, fs, c),
         NEW fs2, NEW c2, Agree(ret, fs, c, fs2, c2), NEW count2 \in Nat,
         ~IsLoop(g[Len(g)]) => StepOK(g[Len(g)], count2, ret, fs2, c2)
  PROVE  Steps(g, count2, ret, fs2, c2)
<1>1. /\ Len(h) \in Nat \ {0} /\ Len(g) = Len(h) /\ g \in Seq(Activation) /\ h \in Seq(Activation)
      /\ \A j \in 1 .. Len(h) - 1 : g[j] = h[j]
  BY DEF SameLevels
<1>2. Shape(g)
  BY ShapeSame
<1> SUFFICES ASSUME NEW k \in 1 .. Len(g), ~IsLoop(g[k])
             PROVE  /\ StepOK(g[k], Base(g, count2, k), Register(g, ret, k), fs2, c2)
                    /\ k < Len(g) /\ g[k].step = "check" => g[k].DebugFrame = Base(g, count2, k) - 1
                    /\ g[k].step = "run" => k = Len(g)
  BY DEF Steps
<1>3. CASE k = Len(g)
  <2>1. Base(g, count2, k) = count2 /\ Register(g, ret, k) = ret
    BY <1>1, <1>3 DEF Base, Register, Under
  <2> QED BY <1>1, <1>3, <2>1
<1>4. CASE k # Len(g)
  <2>1. k \in 1 .. Len(h) - 1 /\ g[k] = h[k] /\ k \in 1 .. Len(h) /\ k # Len(h) /\ k \in 0 .. Len(h)
    BY <1>1, <1>4
  <2>2. StepOK(h[k], Base(h, count, k), Register(h, ret, k), fs2, c2)
    BY <1>1, <2>1, StepsBelow
  <2>3. Register(g, ret, k) = Register(h, ret, k) /\ Base(g, count2, k) = Base(h, count2, k)
    BY <2>1, SameLevelsKeep
  <2>4. Base(h, count2, k) = Base(h, count, k)
    BY <1>1, <2>1, SuspendedBelow
  <2>5. /\ k < Len(h) /\ h[k].step = "check" => h[k].DebugFrame = Base(h, count, k) - 1
        /\ h[k].step = "run" => k = Len(h)
    BY <2>1 DEF Steps
  <2> QED BY <1>1, <2>1, <2>2, <2>3, <2>4, <2>5
<1> QED BY <1>3, <1>4

LEMMA StepsLoopEntered ==
  ASSUME NEW g, NEW h, Extends(g, h), IsLoop(g[Len(g)]),
         NEW count, NEW ret, NEW fs, NEW c, Steps(h, count, ret, fs, c), NEW count2, NEW ret2,
         g[Len(g)].ret = ret, h # <<>> => g[Len(g)].frames = count,
         h # <<>> /\ ~IsLoop(h[Len(h)]) =>
           /\ h[Len(h)].step # "run"
           /\ h[Len(h)].step = "check" => h[Len(h)].DebugFrame = count - 1
  PROVE  Steps(g, count2, ret2, fs, c)
<1>1. Len(h) \in Nat /\ Len(g) = Len(h) + 1 /\ \A j \in 1 .. Len(h) : g[j] = h[j]
  BY DEF Extends
<1> SUFFICES ASSUME NEW k \in 1 .. Len(g), ~IsLoop(g[k])
             PROVE  /\ StepOK(g[k], Base(g, count2, k), Register(g, ret2, k), fs, c)
                    /\ k < Len(g) /\ g[k].step = "check" => g[k].DebugFrame = Base(g, count2, k) - 1
                    /\ g[k].step = "run" => k = Len(g)
  BY DEF Steps
<1>2. k \in 1 .. Len(h) /\ k \in 0 .. Len(h) /\ g[k] = h[k] /\ Len(h) > 0
  BY <1>1
<1>3. h # <<>>
  BY <1>2
<1>4. Base(g, count2, k) = Base(h, count, k) /\ Register(g, ret2, k) = Register(h, ret, k)
  BY <1>2, <1>3, LoopAbove
<1>5. k = Len(h) => Base(h, count, k) = count
  BY DEF Base, Under
<1>6. /\ StepOK(h[k], Base(h, count, k), Register(h, ret, k), fs, c)
      /\ k < Len(h) /\ h[k].step = "check" => h[k].DebugFrame = Base(h, count, k) - 1
      /\ h[k].step = "run" => k = Len(h)
  BY <1>2 DEF Steps
<1>7. k < Len(h) \/ k = Len(h)
  BY <1>1, <1>2
<1> QED BY <1>2, <1>3, <1>4, <1>5, <1>6, <1>7

LEMMA StepsLoopLeft ==
  ASSUME NEW g, NEW h, Extends(g, h), IsLoop(g[Len(g)]),
         NEW count, NEW ret, NEW fs, NEW c, Steps(g, count, ret, fs, c)
  PROVE  Steps(h, g[Len(g)].frames, g[Len(g)].ret, fs, c)
<1>1. Len(h) \in Nat /\ Len(g) = Len(h) + 1 /\ \A j \in 1 .. Len(h) : g[j] = h[j]
  BY DEF Extends
<1> DEFINE r == g[Len(g)]
<1> SUFFICES ASSUME NEW k \in 1 .. Len(h), ~IsLoop(h[k])
             PROVE  /\ StepOK(h[k], Base(h, r.frames, k), Register(h, r.ret, k), fs, c)
                    /\ k < Len(h) /\ h[k].step = "check" => h[k].DebugFrame = Base(h, r.frames, k) - 1
                    /\ h[k].step = "run" => k = Len(h)
  BY DEF Steps
<1>2. k \in 1 .. Len(g) /\ k \in 0 .. Len(h) /\ g[k] = h[k] /\ k < Len(g) /\ k # Len(g)
  BY <1>1
<1>3. Base(g, count, k) = Base(h, r.frames, k) /\ Register(g, ret, k) = Register(h, r.ret, k)
  BY <1>2, LoopAbove
<1>4. /\ StepOK(g[k], Base(g, count, k), Register(g, ret, k), fs, c)
      /\ k < Len(g) /\ g[k].step = "check" => g[k].DebugFrame = Base(g, count, k) - 1
      /\ g[k].step = "run" => k = Len(g)
  BY <1>2 DEF Steps
<1> QED BY <1>2, <1>3, <1>4

LEMMA StepsDebugger ==
  ASSUME NEW g, NEW h, Extends(g, h), ~IsLoop(g[Len(g)]), h = <<>> \/ IsLoop(h[Len(h)]),
         NEW count, NEW ret, NEW fs, NEW c
  PROVE  /\ Steps(g, count, ret, fs, c) => Steps(h, count, ret, fs, c)
         /\ Steps(h, count, ret, fs, c) /\ StepOK(g[Len(g)], count, ret, fs, c)
              => Steps(g, count, ret, fs, c)
<1>1. Len(h) \in Nat /\ Len(g) = Len(h) + 1 /\ \A j \in 1 .. Len(h) : g[j] = h[j]
  BY DEF Extends
<1>2. \A k \in 0 .. Len(h) : /\ Base(g, count, k) = Base(h, count, k)
                             /\ Register(g, ret, k) = Register(h, ret, k)
  BY DebuggerAbove
<1>3. \A k \in 1 .. Len(h) : ~IsLoop(h[k]) => k < Len(h)
  <2>1. Len(h) > 0 => h # <<>>
    BY <1>1
  <2> QED BY <1>1, <2>1
<1>4. ASSUME Steps(g, count, ret, fs, c), NEW k \in 1 .. Len(h), ~IsLoop(h[k])
      PROVE  /\ StepOK(h[k], Base(h, count, k), Register(h, ret, k), fs, c)
             /\ k < Len(h) /\ h[k].step = "check" => h[k].DebugFrame = Base(h, count, k) - 1
             /\ h[k].step = "run" => k = Len(h)
  <2>1. k \in 1 .. Len(g) /\ k \in 0 .. Len(h) /\ g[k] = h[k] /\ k < Len(g) /\ k # Len(g)
    BY <1>1
  <2>2. /\ StepOK(g[k], Base(g, count, k), Register(g, ret, k), fs, c)
        /\ k < Len(g) /\ g[k].step = "check" => g[k].DebugFrame = Base(g, count, k) - 1
        /\ g[k].step = "run" => k = Len(g)
    BY <1>4, <2>1 DEF Steps
  <2> QED BY <1>2, <2>1, <2>2
<1>5. ASSUME Steps(h, count, ret, fs, c), StepOK(g[Len(g)], count, ret, fs, c),
             NEW k \in 1 .. Len(g), ~IsLoop(g[k])
      PROVE  /\ StepOK(g[k], Base(g, count, k), Register(g, ret, k), fs, c)
             /\ k < Len(g) /\ g[k].step = "check" => g[k].DebugFrame = Base(g, count, k) - 1
             /\ g[k].step = "run" => k = Len(g)
  <2>1. CASE k = Len(g)
    <3>1. Base(g, count, k) = count /\ Register(g, ret, k) = ret
      BY <1>1, <2>1 DEF Base, Register, Under
    <3> QED BY <1>1, <1>5, <2>1, <3>1
  <2>2. CASE k # Len(g)
    <3>1. k \in 1 .. Len(h) /\ k \in 0 .. Len(h) /\ g[k] = h[k]
      BY <1>1, <2>2
    <3>2. k < Len(h) /\ k # Len(h)
      BY <1>3, <1>5, <3>1
    <3>3. /\ StepOK(h[k], Base(h, count, k), Register(h, ret, k), fs, c)
          /\ k < Len(h) /\ h[k].step = "check" => h[k].DebugFrame = Base(h, count, k) - 1
          /\ h[k].step = "run" => k = Len(h)
      BY <1>5, <3>1 DEF Steps
    <3> QED BY <1>2, <3>1, <3>2, <3>3
  <2> QED BY <2>1, <2>2
<1> QED BY <1>4, <1>5 DEF Steps

-----------------------------------------------------------------------------
(* Frames. *)

LEMMA Programs ==
  /\ main \in Functions /\ Free \notin Functions /\ Functions \subseteq Texts
  /\ \A f \in Functions : f \notin Addresses
  /\ \A t \in Texts :
       /\ Body[t] \in Seq([op : {"op", "call", "native", "return"}, to : Functions])
       /\ Count(t) \in Nat \ {0} /\ Body[t][Count(t)].op = "return"
       /\ Column[t] \in [1 .. Count(t) -> Nat]
  /\ MaxFrames \in Nat \ {0}
<1>1. \A t \in Texts :
       /\ Body[t] \in Seq([op : {"op", "call", "native", "return"}, to : Functions])
       /\ Count(t) > 0 /\ Body[t][Count(t)].op = "return"
       /\ Column[t] \in [1 .. Count(t) -> Nat]
  BY ProgramAssumption
<1>2. \A t \in Texts : Count(t) \in Nat
  BY <1>1 DEF Count
<1>3. \A t \in Texts : Count(t) \in Nat \ {0}
  BY <1>1, <1>2
<1>4. /\ main \in Functions /\ Free \notin Functions /\ Functions \subseteq Texts
      /\ \A f \in Functions : f \notin Addresses
  BY ProgramAssumption DEF Texts
<1>5. MaxFrames \in Nat \ {0}
  BY BoundsAssumption
<1> QED BY <1>1, <1>3, <1>4, <1>5

\* What a frame that executes is.
LEMMA TopFrame ==
  ASSUME ThreadOK, Loaded(FrameCount, Frames, code), NEW i \in 0 .. FrameCount - 1
  PROVE  /\ i \in 0 .. MaxFrames - 1 /\ Frames[i] \in CallFrame /\ ~Runaway(i)
         /\ Text(Frames[i].fn) \in Texts /\ Frames[i].ip \in Nat
         /\ Frames[i].ip + 1 \in 1 .. Count(Text(Frames[i].fn))
         /\ Current(i).op \in {"op", "call", "native", "return"} /\ Current(i).to \in Functions
         /\ Current(i).op # "return" => Frames[i].ip + 1 < Count(Text(Frames[i].fn))
<1>1. i \in 0 .. MaxFrames - 1 /\ Frames[i] \in CallFrame
  BY Programs DEF ThreadOK
<1> DEFINE t == Text(Frames[i].fn)
<1>2. Frames[i].fn \in Places /\ Frames[i].ip \in Nat
  BY <1>1 DEF CallFrame
<1>3. t # Free /\ Frames[i].ip < Count(t)
  BY DEF Loaded, Inside, Text, TextIn
<1>4. t \in Texts
  BY <1>2, <1>3 DEF Places, ThreadOK, Texts, Text
<1>5. ~Runaway(i)
  BY <1>2, <1>3, <1>4, Programs DEF Runaway
<1>6. Frames[i].ip + 1 \in 1 .. Count(t)
  BY <1>2, <1>3, <1>4, Programs
<1> HIDE DEF t
<1>7. Body[t][Frames[i].ip + 1] \in [op : {"op", "call", "native", "return"}, to : Functions]
  <2>1. Body[t] \in Seq([op : {"op", "call", "native", "return"}, to : Functions])
    BY <1>4, Programs
  <2>2. Frames[i].ip + 1 \in 1 .. Len(Body[t])
    BY <1>6 DEF Count
  <2> QED BY <2>1, <2>2, ElementOfSeq
<1>8. Current(i).op \in {"op", "call", "native", "return"} /\ Current(i).to \in Functions
  BY <1>7 DEF Current, t
<1>9. Current(i).op # "return" => Frames[i].ip + 1 < Count(t)
  <2>1. Frames[i].ip + 1 = Count(t) => Current(i).op = "return"
    <3>1. Body[t][Count(t)].op = "return"
      BY <1>4, Programs
    <3> QED BY <3>1 DEF Current, t
  <2>2. Count(t) \in Nat
    BY <1>4, Programs
  <2> QED BY <1>6, <2>1, <2>2
<1> QED BY <1>1, <1>2, <1>4, <1>5, <1>6, <1>8, <1>9 DEF t

LEMMA Advanced ==
  ASSUME ThreadOK, NEW i \in 0 .. MaxFrames - 1
  PROVE  /\ Advance(i) \in [0 .. MaxFrames - 1 -> CallFrame]
         /\ \A j \in 0 .. MaxFrames - 1 :
              /\ Advance(i)[j].fn = Frames[j].fn /\ (j # i => Advance(i)[j] = Frames[j])
              /\ j = i => Advance(i)[j].ip = Frames[j].ip + 1
BY DEF ThreadOK, Advance, CallFrame

LEMMA OpFrames ==
  ASSUME ThreadOK, Loaded(FrameCount, Frames, code), FrameCount > 0,
         Current(FrameCount - 1).op # "return"
  PROVE  Loaded(FrameCount, Advance(FrameCount - 1), code)
<1>1. FrameCount - 1 \in 0 .. FrameCount - 1
  BY DEF ThreadOK
<1>2. FrameCount - 1 \in 0 .. MaxFrames - 1 /\ \A j \in 0 .. FrameCount - 1 : j \in 0 .. MaxFrames - 1
  BY <1>1, TopFrame
<1>3. Frames[FrameCount - 1].ip + 1 < Count(Text(Frames[FrameCount - 1].fn))
  BY <1>1, TopFrame
<1> SUFFICES ASSUME NEW j \in 0 .. FrameCount - 1
             PROVE  Inside(code, Advance(FrameCount - 1)[j])
  BY DEF Loaded
<1>4. Inside(code, Frames[j])
  BY DEF Loaded
<1>5. /\ Advance(FrameCount - 1)[j].fn = Frames[j].fn
      /\ j # FrameCount - 1 => Advance(FrameCount - 1)[j] = Frames[j]
      /\ j = FrameCount - 1 => Advance(FrameCount - 1)[j].ip = Frames[j].ip + 1
  BY <1>2, Advanced
<1>6. CASE j = FrameCount - 1
  BY <1>3, <1>4, <1>5, <1>6 DEF Inside, Text, TextIn
<1> QED BY <1>4, <1>5, <1>6

LEMMA CalledFrames ==
  ASSUME ThreadOK, Loaded(FrameCount, Frames, code), FrameCount > 0, FrameCount < MaxFrames,
         Current(FrameCount - 1).op # "return", NEW f \in Functions
  PROVE  LET fs == NewFrame(FrameCount - 1, f)
         IN /\ fs \in [0 .. MaxFrames - 1 -> CallFrame] /\ Loaded(FrameCount + 1, fs, code)
            /\ \A j \in 0 .. FrameCount - 1 : fs[j] = Advance(FrameCount - 1)[j]
            /\ fs[FrameCount] = [fn |-> f, ip |-> 0]
<1> DEFINE fs == NewFrame(FrameCount - 1, f)
           as == Advance(FrameCount - 1)
<1>1. /\ FrameCount \in Nat /\ FrameCount \in 0 .. MaxFrames - 1
      /\ FrameCount - 1 \in 0 .. MaxFrames - 1
      /\ \A j \in 0 .. FrameCount - 1 : j \in 0 .. MaxFrames - 1 /\ j # FrameCount
      /\ \A j \in 0 .. (FrameCount + 1) - 1 : j \in 0 .. FrameCount - 1 \/ j = FrameCount
  BY Programs DEF ThreadOK
<1>2. as \in [0 .. MaxFrames - 1 -> CallFrame]
  BY <1>1, Advanced
<1>3. [fn |-> f, ip |-> 0] \in CallFrame
  BY DEF CallFrame, Places
<1>4. fs = [as EXCEPT ![FrameCount] = [fn |-> f, ip |-> 0]]
  BY DEF NewFrame
<1> HIDE DEF as, fs
<1>5. fs \in [0 .. MaxFrames - 1 -> CallFrame]
  BY <1>2, <1>3, <1>4
<1>6. (\A j \in 0 .. FrameCount - 1 : fs[j] = as[j]) /\ fs[FrameCount] = [fn |-> f, ip |-> 0]
  BY <1>1, <1>2, <1>4
<1>7. Loaded(FrameCount, as, code)
  BY OpFrames DEF as
<1>8. Inside(code, fs[FrameCount])
  BY <1>6, Programs DEF Inside, TextIn
<1>9. Loaded(FrameCount + 1, fs, code)
  BY <1>1, <1>6, <1>7, <1>8 DEF Loaded
<1> QED BY <1>5, <1>6, <1>9 DEF as, fs

LEMMA ReturnedFrames ==
  ASSUME ThreadOK, Loaded(FrameCount, Frames, code), FrameCount > 0
  PROVE  /\ Loaded(FrameCount - 1, Advance(FrameCount - 1), code)
         /\ Advance(FrameCount - 1) \in [0 .. MaxFrames - 1 -> CallFrame]
         /\ \A j \in 0 .. FrameCount - 2 : Advance(FrameCount - 1)[j] = Frames[j]
<1>1. /\ FrameCount - 1 \in 0 .. MaxFrames - 1
      /\ \A j \in 0 .. FrameCount - 2 : j \in 0 .. MaxFrames - 1 /\ j # FrameCount - 1 /\ j \in 0 .. FrameCount - 1
      /\ \A j \in 0 .. (FrameCount - 1) - 1 : j \in 0 .. FrameCount - 2
  BY Programs DEF ThreadOK
<1>2. \A j \in 0 .. FrameCount - 2 : Advance(FrameCount - 1)[j] = Frames[j]
  BY <1>1, Advanced
<1>3. Loaded(FrameCount - 1, Advance(FrameCount - 1), code)
  BY <1>1, <1>2 DEF Loaded
<1> QED BY <1>1, <1>2, <1>3, Advanced

\* Below the register nothing changes.
LEMMA AgreeBelow ==
  ASSUME ThreadOK, ReturnFrame < FrameCount, NEW fs, 
         \A j \in 0 .. FrameCount - 1 : fs[j] = Advance(FrameCount - 1)[j]
  PROVE  Agree(ReturnFrame, Frames, code, fs, code)
<1>1. /\ FrameCount - 1 \in 0 .. MaxFrames - 1
      /\ \A j \in 0 .. ReturnFrame - 1 :
           j \in 0 .. FrameCount - 1 /\ j # FrameCount - 1 /\ j \in 0 .. MaxFrames - 1
  BY Programs DEF ThreadOK
<1>2. \A j \in 0 .. ReturnFrame - 1 : fs[j] = Frames[j]
  BY <1>1, Advanced
<1> QED BY <1>2 DEF Agree

LEMMA BelowTypedSame ==
  ASSUME NEW g, NEW h, SameLevels(g, h), NEW i
  PROVE  BelowTyped(g, i) <=> BelowTyped(h, i)
<1>1. Len(h) \in Nat \ {0} /\ Len(g) = Len(h)
  BY DEF SameLevels
<1>2. \A j \in 1 .. Len(h) : j \in 1 .. Len(h) - 1 \/ j = Len(h)
  BY <1>1
<1>3. \A j \in 1 .. Len(h) : /\ g[j].kind = h[j].kind
                             /\ h[j].kind = "typed" => g[j].frames = h[j].frames
  BY <1>2 DEF SameLevels, IsLoop
<1> QED BY <1>1, <1>3 DEF BelowTyped

LEMMA BelowTypedEntered ==
  ASSUME NEW g, NEW h, Extends(g, h), NEW i
  PROVE  BelowTyped(g, i) <=> BelowTyped(h, i) /\ (g[Len(g)].kind = "typed" => i < g[Len(g)].frames)
<1>1. /\ Len(h) \in Nat /\ Len(g) = Len(h) + 1 /\ \A j \in 1 .. Len(h) : g[j] = h[j]
  BY DEF Extends
<1>2. \A j \in 1 .. Len(g) : j \in 1 .. Len(h) \/ j = Len(g)
  BY <1>1
<1>3. Len(g) \in 1 .. Len(g) /\ \A j \in 1 .. Len(h) : j \in 1 .. Len(g)
  BY <1>1
<1> QED BY <1>1, <1>2, <1>3 DEF BelowTyped

-----------------------------------------------------------------------------
(* Steps: what is left of the invariant to show when the top activation changes its *)
(* state, a loop or a debugger is entered, or one is left.                          *)

SameTop(x) ==
  /\ x \in Activation /\ x.kind = Top.kind
  /\ IsLoop(Top) => x.frames = Top.frames /\ x.ret = Top.ret

LEMMA SameTopLevels ==
  ASSUME ThreadOK, host # <<>>, NEW x, SameTop(x)
  PROVE  /\ SameLevels(WithTop(x), host) /\ WithTop(x) # <<>>
         /\ WithTop(x)[Len(WithTop(x))] = x /\ WithTop(x) \in Seq(Activation)
         /\ Len(host) \in Nat \ {0} /\ Top = host[Len(host)] /\ Top \in Activation
<1>1. host \in Seq(Activation) /\ x \in Activation
  BY DEF ThreadOK, SameTop
<1>2. /\ Len(host) \in Nat \ {0} /\ Last(host) = host[Len(host)] /\ Last(host) \in Activation
  BY <1>1, FrontLast
<1>3. /\ WithTop(x) \in Seq(Activation) /\ Len(WithTop(x)) = Len(host)
      /\ \A i \in 1 .. Len(host) - 1 : WithTop(x)[i] = host[i]
      /\ WithTop(x)[Len(host)] = x
  BY <1>1, WithTopShape
<1>4. WithTop(x) # <<>>
  BY <1>2, <1>3
<1>5. Top = host[Len(host)]
  BY <1>2 DEF Top
<1>6. SameLevels(WithTop(x), host)
  BY <1>1, <1>2, <1>3, <1>5 DEF SameLevels, SameTop
<1> QED BY <1>2, <1>3, <1>4, <1>5, <1>6

\* The frames after the step: they are loaded, and the program's are the program's.
FramesGo(fs, count, c) ==
  /\ count \in 0 .. MaxFrames /\ fs \in [0 .. MaxFrames - 1 -> CallFrame]
  /\ c \in [Addresses -> Typed \cup {Free}] /\ Loaded(count, fs, c)
  /\ Agree(ReturnFrame, Frames, code, fs, c)
  /\ \A j \in 0 .. count - 1 : fs[j].fn \in Functions \/ (j < FrameCount /\ fs[j].fn = Frames[j].fn)

LEMMA ProgramGoes ==
  ASSUME Debugged, NEW fs, NEW count, NEW c, FramesGo(fs, count, c),
         NEW g, \A j \in 0 .. count - 1 : BelowTyped(g, j) => BelowTyped(host, j)
  PROVE  ProgramOnly(g, count, fs)
<1> SUFFICES ASSUME NEW j \in 0 .. count - 1, BelowTyped(g, j)
             PROVE  fs[j].fn \in Functions
  BY DEF ProgramOnly
<1>1. CASE j < FrameCount /\ fs[j].fn = Frames[j].fn
  <2>1. j \in 0 .. FrameCount - 1
    BY <1>1 DEF Debugged, ThreadOK, FramesGo
  <2> QED BY <1>1, <2>1 DEF Debugged, ProgramOnly
<1> QED BY <1>1 DEF FramesGo

\* The top activation goes on.
LEMMA TopGoes ==
  ASSUME Debugged, status = "running", host # <<>>, NEW x, SameTop(x),
         host' = WithTop(x), ReturnFrame' = ReturnFrame,
         FramesGo(Frames', FrameCount', code'),
         FrameCount' > ReturnFrame \/ ReturnFrame = 0,
         status' \in {"running", "exited"},
         ~IsLoop(x) => StepOK(x, FrameCount', ReturnFrame, Frames', code')
  PROVE  Debugged'
<1>1. /\ SameLevels(host', host) /\ host'[Len(host')] = x /\ host' \in Seq(Activation)
  BY SameTopLevels DEF Debugged
<1>2. /\ ThreadOK /\ Shape(host) /\ Nest(host, FrameCount, ReturnFrame)
      /\ Steps(host, FrameCount, ReturnFrame, Frames, code)
      /\ FrameCount \in Nat /\ ReturnFrame \in Nat /\ FrameCount' \in Nat
      /\ host \in Seq(Activation)
  BY DEF Debugged, Nested, Stepping, ThreadOK, FramesGo
<1>3. Shape(host')
  BY <1>1, <1>2, ShapeSame
<1>4. Nest(host', FrameCount, ReturnFrame)
  BY <1>1, <1>2, NestSame
<1>5. Nest(host', FrameCount', ReturnFrame)
  BY <1>1, <1>2, <1>3, <1>4, NestCount
<1>6. Agree(ReturnFrame, Frames, code, Frames', code')
  BY DEF FramesGo
<1>7. Steps(host', FrameCount', ReturnFrame, Frames', code')
  BY <1>1, <1>2, <1>6, StepsSame
<1>8. ProgramOnly(host', FrameCount', Frames')
  BY <1>1, BelowTypedSame, ProgramGoes
<1>9. ThreadOK'
  BY <1>1, <1>2 DEF ThreadOK, FramesGo
<1>10. Loaded(FrameCount', Frames', code')
  BY DEF FramesGo
<1> QED BY <1>3, <1>5, <1>7, <1>8, <1>9, <1>10 DEF Debugged, Nested, Stepping

\* A native function runs a loop: the instruction that calls it belongs to the top frame.
LEMMA NativeEntered ==
  ASSUME Debugged, status = "running", host # <<>>, NEW x, SameTop(x), FrameCount > ReturnFrame,
         host' = Append(WithTop(x), NewLoop("native", FrameCount)), ReturnFrame' = FrameCount,
         FramesGo(Frames', FrameCount', code'),
         FrameCount' > FrameCount \/ status' = "exited",
         status' \in {"running", "exited"},
         ~IsLoop(x) => /\ StepOK(x, FrameCount, ReturnFrame, Frames', code')
                       /\ x.step = "check" /\ x.DebugFrame = FrameCount - 1
  PROVE  Debugged'
<1> DEFINE h == WithTop(x)
           r == NewLoop("native", FrameCount)
<1>1. /\ SameLevels(h, host) /\ h[Len(h)] = x /\ h \in Seq(Activation) /\ h # <<>>
  BY SameTopLevels DEF Debugged
<1>2. /\ ThreadOK /\ Shape(host) /\ Nest(host, FrameCount, ReturnFrame)
      /\ Steps(host, FrameCount, ReturnFrame, Frames, code)
      /\ FrameCount \in Nat /\ ReturnFrame \in Nat /\ FrameCount' \in Nat
      /\ host \in Seq(Activation) /\ FrameCount > 0
  BY DEF Debugged, Nested, Stepping, ThreadOK, FramesGo
<1>3. /\ r \in Activation /\ IsLoop(r) /\ r.kind = "native" /\ r.frames = FrameCount
      /\ r.ret = ReturnFrame /\ Start(r) = FrameCount
  BY <1>2 DEF NewLoop, Activation, Loop, IsLoop, Start
<1> HIDE DEF h, r
<1>4. host' = Append(h, r)
  BY DEF h, r
<1>5. Extends(host', h) /\ host'[Len(host')] = r
  BY <1>1, <1>3, <1>4, AppendExtends
<1>6. Shape(h) /\ Nest(h, FrameCount, ReturnFrame)
  BY <1>1, <1>2, ShapeSame, NestSame
<1>7. Steps(h, FrameCount, ReturnFrame, Frames', code')
  BY <1>1, <1>2, StepsSame DEF FramesGo
<1>8. MayEnter(h, r)
  BY <1>1, <1>2, <1>3 DEF MayEnter
<1>9. Shape(host')
  BY <1>5, <1>6, <1>8, ShapeEntered
<1>10. ASSUME status' = "running" PROVE Nest(host', FrameCount', FrameCount)
  BY <1>2, <1>3, <1>5, <1>6, <1>8, <1>10, NestLoopEntered, ZenonT(30)
<1>11. Steps(host', FrameCount', FrameCount, Frames', code')
  <2>1. /\ IsLoop(host'[Len(host')]) /\ host'[Len(host')].ret = ReturnFrame
        /\ host'[Len(host')].frames = FrameCount
    BY <1>3, <1>5
  <2>2. ~IsLoop(h[Len(h)]) => h[Len(h)].step = "check" /\ h[Len(h)].DebugFrame = FrameCount - 1
    BY <1>1
  <2> QED BY <1>5, <1>7, <2>1, <2>2, StepsLoopEntered
<1>12. ProgramOnly(host', FrameCount', Frames')
  BY <1>1, <1>3, <1>5, BelowTypedSame, BelowTypedEntered, ProgramGoes
<1>13. ThreadOK'
  BY <1>2, <1>5 DEF ThreadOK, FramesGo, Extends
<1>14. Loaded(FrameCount', Frames', code')
  BY DEF FramesGo
<1> QED BY <1>9, <1>10, <1>11, <1>12, <1>13, <1>14 DEF Debugged, Nested, Stepping

\* A debugger is opened above a loop.
LEMMA DebuggerEntered ==
  ASSUME Debugged, status = "running", host # <<>>, IsLoop(Top), NEW x, SameTop(x),
         host' = Append(WithTop(x), NewDebugger(FrameCount)),
         UNCHANGED <<code, Frames, FrameCount, ReturnFrame, status>>
  PROVE  Debugged'
<1> DEFINE h == WithTop(x)
           r == NewDebugger(FrameCount)
<1>1. /\ SameLevels(h, host) /\ h[Len(h)] = x /\ h \in Seq(Activation) /\ h # <<>>
  BY SameTopLevels DEF Debugged
<1>2. /\ ThreadOK /\ Shape(host) /\ Nest(host, FrameCount, ReturnFrame)
      /\ Steps(host, FrameCount, ReturnFrame, Frames, code)
      /\ FrameCount \in Nat /\ ReturnFrame \in Nat
      /\ host \in Seq(Activation) /\ IsLoop(x)
  BY DEF Debugged, Nested, Stepping, ThreadOK, SameTop, IsLoop
<1>3. r \in Activation /\ ~IsLoop(r) /\ r.kind = "debugger" /\ r.step = "no"
  BY <1>2 DEF NewDebugger, Activation, AtPrompt, IsLoop, NoColumn
<1> HIDE DEF h, r
<1>4. host' = Append(h, r)
  BY DEF h, r
<1>5. Extends(host', h) /\ host'[Len(host')] = r
  BY <1>1, <1>3, <1>4, AppendExtends
<1>6. Shape(h) /\ Nest(h, FrameCount, ReturnFrame)
  BY <1>1, <1>2, ShapeSame, NestSame
<1>7. Steps(h, FrameCount, ReturnFrame, Frames, code)
  BY <1>1, <1>2, StepsSame DEF Agree
<1>8. MayEnter(h, r)
  BY <1>1, <1>2, <1>3 DEF MayEnter
<1>9. Shape(host')
  BY <1>5, <1>6, <1>8, ShapeEntered
<1>10. FrameCount > ReturnFrame \/ ReturnFrame = 0
  BY <1>2, StartsBelow
<1>11. Nest(host', FrameCount, ReturnFrame)
  BY <1>2, <1>3, <1>5, <1>6, <1>9, <1>10, NestDebugger
<1>12. StepOK(r, FrameCount, ReturnFrame, Frames, code)
  BY <1>3 DEF StepOK
<1>13. Steps(host', FrameCount, ReturnFrame, Frames, code)
  BY <1>1, <1>2, <1>3, <1>5, <1>7, <1>12, StepsDebugger
<1>14. \A j : BelowTyped(host', j) <=> BelowTyped(host, j)
  BY <1>1, <1>3, <1>5, BelowTypedSame, BelowTypedEntered
<1>15. ProgramOnly(host', FrameCount, Frames)
  BY <1>14 DEF Debugged, ProgramOnly
<1>16. ThreadOK'
  BY <1>2, <1>5 DEF ThreadOK, Extends
<1> QED BY <1>9, <1>11, <1>13, <1>15, <1>16 DEF Debugged, Nested, Stepping

LEMMA HostFront ==
  ASSUME ThreadOK, host # <<>>
  PROVE  /\ Extends(host, Front(host)) /\ host[Len(host)] = Top /\ Front(host) \in Seq(Activation)
         /\ Top \in Activation /\ Len(host) \in Nat \ {0}
<1>1. host \in Seq(Activation)
  BY DEF ThreadOK
<1>2. /\ Front(host) \in Seq(Activation) /\ Len(Front(host)) = Len(host) - 1
      /\ \A i \in 1 .. Len(host) - 1 : Front(host)[i] = host[i]
      /\ Len(host) \in Nat \ {0} /\ Last(host) = host[Len(host)] /\ Last(host) \in Activation
  BY <1>1, FrontLast
<1>3. Len(host) = Len(Front(host)) + 1
  BY <1>2
<1> QED BY <1>1, <1>2, <1>3 DEF Extends, Top

\* A loop on top ends at the count in the register.
LEMMA LoopEnds ==
  ASSUME Debugged, status = "running", host # <<>>, IsLoop(Top)
  PROVE  /\ Start(Top) = ReturnFrame /\ ReturnFrame <= FrameCount
         /\ Top.kind # "main" => Top.frames = ReturnFrame
         /\ Top.kind = "main" => Len(host) = 1 /\ ReturnFrame = 0
<1>1. /\ host \in Seq(Activation) /\ Shape(host) /\ Nest(host, FrameCount, ReturnFrame)
  BY DEF Debugged, Nested, ThreadOK
<1>2. Len(host) \in Nat \ {0} /\ Top = host[Len(host)] /\ Len(host) \in 1 .. Len(host)
  BY HostFront DEF Debugged
<1>3. Register(host, ReturnFrame, Len(host)) = ReturnFrame
  BY <1>2 DEF Register, Under
<1>4. Start(Top) = ReturnFrame /\ Start(Top) <= FrameCount
  BY <1>1, <1>2, <1>3 DEF Nest
<1>5. Top.kind = "main" => Len(host) = 1
  BY <1>1, <1>2 DEF Shape
<1> QED BY <1>4, <1>5 DEF Start

LEMMA LeavingLoop ==
  ASSUME NEW count, LeaveLoop(count)
  PROVE  /\ host' = Front(host) /\ status' = status
         /\ ReturnFrame' = IF Top.kind = "main" THEN ReturnFrame ELSE Top.ret
         /\ FrameCount' = IF Top.kind = "typed" THEN Top.frames ELSE count
         /\ code' = code \/ (Top.kind = "typed" /\ code' = Collected(Top.frames))
<1>1. code' \in {code} \cup IF Top.kind = "typed" THEN {Collected(Top.frames)} ELSE {}
  BY DEF LeaveLoop
<1>2. code' # code => Top.kind = "typed" /\ code' = Collected(Top.frames)
  BY <1>1, Zenon
<1>3. code' = code \/ (Top.kind = "typed" /\ code' = Collected(Top.frames))
  BY <1>2
<1>4. /\ host' = Front(host) /\ status' = status
      /\ ReturnFrame' = IF Top.kind = "main" THEN ReturnFrame ELSE Top.ret
      /\ FrameCount' = IF Top.kind = "typed" THEN Top.frames ELSE count
  BY DEF LeaveLoop
<1> QED BY <1>3, <1>4

\* A loop ends.
LEMMA LoopLeft ==
  ASSUME Debugged, status = "running", host # <<>>, IsLoop(Top),
         host' = Front(host), FrameCount' = ReturnFrame, status' = status,
         ReturnFrame' = IF Top.kind = "main" THEN ReturnFrame ELSE Top.ret,
         code' = code \/ (Top.kind = "typed" /\ code' = Collected(Top.frames)),
         Frames' \in [0 .. MaxFrames - 1 -> CallFrame],
         \A j \in 0 .. ReturnFrame - 1 : Frames'[j] = Frames[j]
  PROVE  Debugged'
<1> DEFINE h == Front(host)
           r == Top
<1>1. /\ ThreadOK /\ Shape(host) /\ Nest(host, FrameCount, ReturnFrame)
      /\ Steps(host, FrameCount, ReturnFrame, Frames, code)
      /\ FrameCount \in Nat /\ ReturnFrame \in Nat /\ host \in Seq(Activation)
  BY DEF Debugged, Nested, Stepping, ThreadOK
<1>2. /\ Extends(host, h) /\ host[Len(host)] = r /\ h \in Seq(Activation) /\ r \in Activation
      /\ Len(host) \in Nat \ {0}
  BY <1>1, HostFront
<1>3. /\ Start(r) = ReturnFrame /\ ReturnFrame <= FrameCount
      /\ r.kind # "main" => r.frames = ReturnFrame
      /\ r.kind = "main" => Len(host) = 1 /\ ReturnFrame = 0
  BY LoopEnds
<1>4. ASSUME NEW j \in 0 .. ReturnFrame - 1
      PROVE  TextIn(code', Frames[j].fn) = TextIn(code, Frames[j].fn)
  <2>1. CASE r.kind = "typed" /\ code' = Collected(r.frames)
    <3>1. j \in 0 .. r.frames - 1
      BY <1>3, <2>1
    <3>2. Frames[j].fn \in Addresses => code'[Frames[j].fn] = code[Frames[j].fn]
      BY <2>1, <3>1 DEF Collected
    <3> QED BY <3>2 DEF TextIn
  <2>2. CASE code' = code
    BY <2>2
  <2> QED BY <2>1, <2>2
<1>5. Agree(ReturnFrame, Frames, code, Frames', code')
  BY <1>4 DEF Agree
<1>6. SameLevels(host, host)
  BY <1>1, <1>2 DEF SameLevels
<1>7. Steps(host, ReturnFrame, ReturnFrame, Frames', code')
  BY <1>1, <1>2, <1>5, <1>6, StepsSame
<1>8. Shape(h)
  BY <1>1, <1>2, ShapeLeft
<1>9. \A j \in 0 .. ReturnFrame - 1 : j \in 0 .. FrameCount - 1
  BY <1>1, <1>3
<1>10. Loaded(ReturnFrame, Frames', code')
  BY <1>4, <1>9 DEF Debugged, Loaded, Inside
<1>11. ProgramOnly(h, ReturnFrame, Frames')
  <2> SUFFICES ASSUME NEW j \in 0 .. ReturnFrame - 1, BelowTyped(h, j)
               PROVE  Frames'[j].fn \in Functions
    BY DEF ProgramOnly
  <2>1. r.kind = "typed" => j < r.frames
    BY <1>1, <1>3
  <2>2. BelowTyped(host, j)
    BY <1>2, <2>1, BelowTypedEntered
  <2> QED BY <1>9, <2>2 DEF Debugged, ProgramOnly
<1>12. code' \in [Addresses -> Typed \cup {Free}]
  BY <1>1 DEF ThreadOK, Collected
<1>13. ReturnFrame \in 0 .. MaxFrames
  BY <1>1, <1>3, Programs DEF ThreadOK
<1>14. CASE r.kind = "main"
  <2>1. Len(h) = 0
    BY <1>2, <1>3, <1>14 DEF Extends
  <2>2. h = <<>> /\ Under(h, 0) = 0
    BY <1>2, <2>1 DEF Under
  <2>3. ReturnFrame' = 0 /\ FrameCount' = 0
    BY <1>3, <1>14
  <2>4. Nest(h, 0, 0) /\ Steps(h, 0, 0, Frames', code')
    BY <2>1, <2>2 DEF Nest, Steps, Register
  <2>5. ThreadOK'
    BY <1>2, <1>12, <1>13, <2>3 DEF ThreadOK
  <2> HIDE DEF h
  <2>6. host' = h
    BY DEF h
  <2> QED BY <1>8, <1>10, <1>11, <2>3, <2>4, <2>5, <2>6 DEF Debugged, Nested, Stepping
<1>15. CASE r.kind # "main"
  <2>1. Nest(h, r.frames, r.ret) /\ r.frames = ReturnFrame /\ r.ret \in Nat
    BY <1>1, <1>2, <1>15, NestLoopLeft
  <2>2. Steps(h, r.frames, r.ret, Frames', code')
    BY <1>2, <1>7, StepsLoopLeft
  <2>3. ReturnFrame' = r.ret /\ FrameCount' = r.frames /\ host' = h
    BY <1>3, <1>15
  <2>4. ThreadOK'
    BY <1>2, <1>12, <1>13, <2>1, <2>3 DEF ThreadOK
  <2> HIDE DEF h, r
  <2> QED BY <1>8, <1>10, <1>11, <2>1, <2>2, <2>3, <2>4 DEF Debugged, Nested, Stepping
<1> QED BY <1>14, <1>15

\* A debugger is closed.
LEMMA DebuggerLeft ==
  ASSUME Debugged, status = "running", host # <<>>, ~IsLoop(Top), host' = Front(host),
         UNCHANGED <<code, Frames, FrameCount, ReturnFrame, status>>
  PROVE  Debugged'
<1> DEFINE h == Front(host)
<1>1. /\ ThreadOK /\ Shape(host) /\ Nest(host, FrameCount, ReturnFrame)
      /\ Steps(host, FrameCount, ReturnFrame, Frames, code)
      /\ FrameCount \in Nat /\ ReturnFrame \in Nat /\ host \in Seq(Activation)
  BY DEF Debugged, Nested, Stepping, ThreadOK
<1>2. /\ Extends(host, h) /\ host[Len(host)] = Top /\ h \in Seq(Activation)
      /\ Len(host) \in Nat \ {0} /\ Len(host) = Len(h) + 1
      /\ \A k \in 1 .. Len(h) : host[k] = h[k]
  BY <1>1, HostFront DEF Extends
<1> HIDE DEF h
<1>3. Shape(h) /\ Nest(h, FrameCount, ReturnFrame)
  BY <1>1, <1>2, ShapeLeft, NestDebugger
<1>4. h = <<>> \/ IsLoop(h[Len(h)])
  <2>1. CASE Len(h) = 0
    BY <1>2, <2>1
  <2>2. CASE Len(h) # 0
    <3>1. Len(host) \in 1 .. Len(host) /\ Len(host) > 1 /\ Len(host) - 1 = Len(h) /\ Len(h) \in 1 .. Len(h)
      BY <1>2, <2>2
    <3>2. IsLoop(host[Len(host) - 1])
      BY <1>1, <1>2, <3>1 DEF Shape, IsLoop
    <3> QED BY <1>2, <3>1, <3>2
  <2> QED BY <2>1, <2>2
<1>5. Steps(h, FrameCount, ReturnFrame, Frames, code)
  BY <1>1, <1>2, <1>4, StepsDebugger
<1>6. \A j : BelowTyped(h, j) => BelowTyped(host, j)
  BY <1>2, BelowTypedEntered DEF IsLoop
<1>7. ProgramOnly(h, FrameCount, Frames)
  BY <1>6 DEF Debugged, ProgramOnly
<1>8. host' = h
  BY DEF h
<1>9. ThreadOK'
  BY <1>1, <1>2, <1>8 DEF ThreadOK
<1> QED BY <1>3, <1>5, <1>7, <1>8, <1>9 DEF Debugged, Nested, Stepping

\* A typed script is loaded and called.
LEMMA TypedEntered ==
  ASSUME Debugged, status = "running", host # <<>>, ~IsLoop(Top), Top.step = "no",
         FrameCount < MaxFrames, NEW t \in Typed, NEW a \in Addresses, code[a] = Free,
         code' = [code EXCEPT ![a] = t], Frames' = [Frames EXCEPT ![FrameCount] = [fn |-> a, ip |-> 0]],
         FrameCount' = FrameCount + 1, ReturnFrame' = FrameCount, status' = status,
         host' = Append(host, NewLoop("typed", FrameCount))
  PROVE  Debugged'
<1> DEFINE r == NewLoop("typed", FrameCount)
           fr == [fn |-> a, ip |-> 0]
<1>1. /\ ThreadOK /\ Shape(host) /\ Nest(host, FrameCount, ReturnFrame)
      /\ Steps(host, FrameCount, ReturnFrame, Frames, code)
      /\ FrameCount \in Nat /\ ReturnFrame \in Nat /\ host \in Seq(Activation)
      /\ FrameCount \in 0 .. MaxFrames - 1 /\ FrameCount + 1 \in 0 .. MaxFrames
      /\ Loaded(FrameCount, Frames, code)
  BY Programs DEF Debugged, Nested, Stepping, ThreadOK
<1>2. /\ r \in Activation /\ IsLoop(r) /\ r.kind = "typed" /\ r.frames = FrameCount
      /\ r.ret = ReturnFrame /\ Start(r) = FrameCount
  BY <1>1 DEF NewLoop, Activation, Loop, IsLoop, Start
<1>3. host' = Append(host, r)
  OBVIOUS
<1>4. fr \in CallFrame /\ fr.fn = a /\ fr.ip = 0
  BY DEF CallFrame, Places
<1> HIDE DEF r, fr
<1>5. Extends(host', host) /\ host'[Len(host')] = r
  BY <1>1, <1>2, <1>3, AppendExtends
<1>6. host[Len(host)] = Top
  BY <1>1, HostFront
<1>7. MayEnter(host, r)
  BY <1>2, <1>6 DEF MayEnter
<1>8. Shape(host')
  BY <1>1, <1>5, <1>7, ShapeEntered
<1>9. Nest(host', FrameCount + 1, FrameCount)
  <2>1. FrameCount + 1 > FrameCount /\ FrameCount + 1 \in Nat
    BY <1>1
  <2>2. /\ IsLoop(host'[Len(host')]) /\ MayEnter(host, host'[Len(host')])
        /\ host'[Len(host')].ret = ReturnFrame /\ host'[Len(host')].frames = FrameCount
        /\ Start(host'[Len(host')]) = FrameCount
    BY <1>2, <1>5, <1>7
  <2> QED BY <1>1, <1>5, <2>1, <2>2, NestLoopEntered
<1>10. Frames' = [Frames EXCEPT ![FrameCount] = fr]
  BY DEF fr
<1>11. /\ Frames' \in [0 .. MaxFrames - 1 -> CallFrame] /\ Frames'[FrameCount] = fr
       /\ code' \in [Addresses -> Typed \cup {Free}] /\ code'[a] = t
  BY <1>1, <1>4, <1>10 DEF ThreadOK
<1>12. ASSUME NEW j \in 0 .. FrameCount - 1
       PROVE  Frames'[j] = Frames[j] /\ TextIn(code', Frames[j].fn) = TextIn(code, Frames[j].fn)
  <2>1. j \in 0 .. MaxFrames - 1 /\ j # FrameCount
    BY <1>1, Programs
  <2>2. Frames'[j] = Frames[j]
    BY <1>1, <1>10, <2>1 DEF ThreadOK
  <2>3. Frames[j].fn # a
    BY <1>1 DEF Loaded, Inside, TextIn
  <2>4. Frames[j].fn \in Addresses => code'[Frames[j].fn] = code[Frames[j].fn]
    BY <1>1, <2>3 DEF ThreadOK
  <2> QED BY <2>2, <2>4 DEF TextIn
<1>13. Loaded(FrameCount + 1, Frames', code')
  <2>1. Inside(code', Frames'[FrameCount])
    <3>1. t \in Texts /\ t # Free
      BY ProgramAssumption DEF Texts
    <3>2. Count(t) > 0
      BY <3>1, Programs
    <3> QED BY <1>4, <1>11, <3>1, <3>2 DEF Inside, TextIn
  <2>2. \A j \in 0 .. (FrameCount + 1) - 1 : j \in 0 .. FrameCount - 1 \/ j = FrameCount
    BY <1>1
  <2>3. \A j \in 0 .. FrameCount - 1 : Inside(code', Frames'[j])
    BY <1>1, <1>12 DEF Loaded, Inside
  <2> QED BY <2>1, <2>2, <2>3 DEF Loaded
<1>14. Agree(ReturnFrame, Frames, code, Frames', code')
  <2>1. FrameCount > ReturnFrame \/ ReturnFrame = 0
    BY <1>1, StartsBelow
  <2>2. \A j \in 0 .. ReturnFrame - 1 : j \in 0 .. FrameCount - 1
    BY <1>1, <2>1
  <2> QED BY <1>12, <2>2 DEF Agree
<1>15. Steps(host, FrameCount, ReturnFrame, Frames', code')
  <2>1. SameLevels(host, host)
    <3>1. Len(host) > 0
      BY <1>1
    <3> QED BY <1>1, <3>1 DEF SameLevels
  <2>2. StepOK(host[Len(host)], FrameCount, ReturnFrame, Frames', code')
    BY <1>6 DEF StepOK
  <2> QED BY <1>1, <1>14, <2>1, <2>2, StepsSame
<1>16. Steps(host', FrameCount + 1, FrameCount, Frames', code')
  <2>1. /\ IsLoop(host'[Len(host')]) /\ host'[Len(host')].ret = ReturnFrame
        /\ host'[Len(host')].frames = FrameCount
    BY <1>2, <1>5
  <2>2. host[Len(host)].step = "no"
    BY <1>6
  <2> QED BY <1>5, <1>15, <2>1, <2>2, StepsLoopEntered
<1>17. ProgramOnly(host', FrameCount + 1, Frames')
  <2> SUFFICES ASSUME NEW j \in 0 .. (FrameCount + 1) - 1, BelowTyped(host', j)
               PROVE  Frames'[j].fn \in Functions
    BY DEF ProgramOnly
  <2>1. BelowTyped(host, j) /\ j < FrameCount
    BY <1>2, <1>5, BelowTypedEntered
  <2>2. j \in 0 .. FrameCount - 1
    BY <1>1, <2>1
  <2> QED BY <1>12, <2>1, <2>2 DEF Debugged, ProgramOnly
<1>18. ThreadOK'
  BY <1>1, <1>5, <1>11 DEF ThreadOK, Extends
<1> QED BY <1>8, <1>9, <1>13, <1>16, <1>17, <1>18 DEF Debugged, Nested, Stepping

-----------------------------------------------------------------------------
(* The actions. *)

\* Frames from FrameCount - 1 on may change.
LEMMA GoesOn ==
  ASSUME Debugged, FrameCount > ReturnFrame, NEW fs \in [0 .. MaxFrames - 1 -> CallFrame],
         NEW count \in 0 .. MaxFrames, count <= FrameCount + 1, Loaded(count, fs, code),
         \A j \in 0 .. count - 1 : j < FrameCount => fs[j].fn = Frames[j].fn,
         \A j \in 0 .. FrameCount - 2 : fs[j] = Frames[j],
         count > FrameCount => fs[FrameCount].fn \in Functions
  PROVE  FramesGo(fs, count, code)
<1>1. FrameCount \in Nat /\ ReturnFrame \in Nat /\ code \in [Addresses -> Typed \cup {Free}]
  BY DEF Debugged, ThreadOK
<1>2. \A j \in 0 .. ReturnFrame - 1 : j \in 0 .. FrameCount - 2
  BY <1>1
<1>3. Agree(ReturnFrame, Frames, code, fs, code)
  BY <1>2 DEF Agree
<1>4. ASSUME NEW j \in 0 .. count - 1
      PROVE  fs[j].fn \in Functions \/ (j < FrameCount /\ fs[j].fn = Frames[j].fn)
  <2>1. count \in Nat /\ j \in Nat /\ j < count
    BY Programs
  <2>2. j < FrameCount \/ (j = FrameCount /\ count > FrameCount)
    BY <1>1, <2>1
  <2> QED BY <2>2
<1>5. Agree(ReturnFrame, Frames, code, fs, code) /\ Loaded(count, fs, code)
  BY <1>3
<1> QED BY <1>1, <1>4, <1>5 DEF FramesGo

\* The three kinds of instructions that push or pop nothing of the C++ stack below them.
LEMMA OpGoes ==
  ASSUME Debugged, FrameCount > ReturnFrame, Current(FrameCount - 1).op # "return"
  PROVE  FramesGo(Advance(FrameCount - 1), FrameCount, code)
<1>1. /\ ThreadOK /\ Loaded(FrameCount, Frames, code) /\ FrameCount \in 0 .. MaxFrames
      /\ FrameCount \in Nat /\ ReturnFrame \in Nat
  BY DEF Debugged, ThreadOK
<1>2. FrameCount > 0 /\ FrameCount - 1 \in 0 .. MaxFrames - 1
  BY <1>1, Programs
<1>3. Loaded(FrameCount, Advance(FrameCount - 1), code)
  BY <1>1, <1>2, OpFrames
<1>4. /\ Advance(FrameCount - 1) \in [0 .. MaxFrames - 1 -> CallFrame]
      /\ \A j \in 0 .. MaxFrames - 1 :
           /\ Advance(FrameCount - 1)[j].fn = Frames[j].fn
           /\ j # FrameCount - 1 => Advance(FrameCount - 1)[j] = Frames[j]
  BY <1>1, <1>2, Advanced
<1>5. /\ \A j \in 0 .. FrameCount - 1 : j \in 0 .. MaxFrames - 1
      /\ \A j \in 0 .. FrameCount - 2 : j \in 0 .. MaxFrames - 1 /\ j # FrameCount - 1
      /\ FrameCount <= FrameCount + 1 /\ ~(FrameCount > FrameCount)
  BY <1>1, Programs
<1> QED BY <1>1, <1>3, <1>4, <1>5, GoesOn

LEMMA CallGoes ==
  ASSUME Debugged, FrameCount > ReturnFrame, FrameCount < MaxFrames,
         Current(FrameCount - 1).op # "return", NEW f \in Functions
  PROVE  FramesGo(NewFrame(FrameCount - 1, f), FrameCount + 1, code)
<1> DEFINE fs == NewFrame(FrameCount - 1, f)
           as == Advance(FrameCount - 1)
<1>1. /\ ThreadOK /\ Loaded(FrameCount, Frames, code) /\ FrameCount \in 0 .. MaxFrames
      /\ FrameCount \in Nat /\ ReturnFrame \in Nat
  BY DEF Debugged, ThreadOK
<1>2. FrameCount > 0 /\ FrameCount - 1 \in 0 .. MaxFrames - 1 /\ FrameCount + 1 \in 0 .. MaxFrames
  BY <1>1, Programs
<1>3. /\ fs \in [0 .. MaxFrames - 1 -> CallFrame] /\ Loaded(FrameCount + 1, fs, code)
      /\ \A j \in 0 .. FrameCount - 1 : fs[j] = as[j]
      /\ fs[FrameCount] = [fn |-> f, ip |-> 0]
  BY <1>1, <1>2, CalledFrames
<1>4. \A j \in 0 .. MaxFrames - 1 : as[j].fn = Frames[j].fn /\ (j # FrameCount - 1 => as[j] = Frames[j])
  BY <1>1, <1>2, Advanced
<1> HIDE DEF as, fs
<1>5. \A j \in 0 .. FrameCount - 1 : fs[j].fn = Frames[j].fn
  <2>1. \A j \in 0 .. FrameCount - 1 : j \in 0 .. MaxFrames - 1
    BY <1>1, Programs
  <2> QED BY <1>3, <1>4, <2>1
<1>6. \A j \in 0 .. FrameCount - 2 : fs[j] = Frames[j]
  <2>1. \A j \in 0 .. FrameCount - 2 :
          j \in 0 .. FrameCount - 1 /\ j \in 0 .. MaxFrames - 1 /\ j # FrameCount - 1
    BY <1>1, Programs
  <2> QED BY <1>3, <1>4, <2>1
<1>7. \A j \in 0 .. (FrameCount + 1) - 1 : j < FrameCount => j \in 0 .. FrameCount - 1
  BY <1>1
<1>8. FramesGo(fs, FrameCount + 1, code)
  <2>1. fs[FrameCount].fn \in Functions
    BY <1>3
  <2>2. \A j \in 0 .. (FrameCount + 1) - 1 : j < FrameCount => fs[j].fn = Frames[j].fn
    BY <1>5, <1>7
  <2>3. FrameCount + 1 <= FrameCount + 1
    BY <1>1
  <2> QED BY <1>2, <1>3, <1>6, <2>1, <2>2, <2>3, GoesOn
<1> QED BY <1>8 DEF fs

LEMMA ReturnGoes ==
  ASSUME Debugged, FrameCount > ReturnFrame
  PROVE  FramesGo(Advance(FrameCount - 1), FrameCount - 1, code)
<1> DEFINE as == Advance(FrameCount - 1)
<1>1. /\ ThreadOK /\ Loaded(FrameCount, Frames, code) /\ FrameCount \in 0 .. MaxFrames
      /\ FrameCount \in Nat /\ ReturnFrame \in Nat
  BY DEF Debugged, ThreadOK
<1>2. /\ FrameCount > 0 /\ FrameCount - 1 \in 0 .. MaxFrames - 1 /\ FrameCount - 1 \in 0 .. MaxFrames
      /\ FrameCount - 1 <= FrameCount + 1 /\ ~(FrameCount - 1 > FrameCount)
  BY <1>1, Programs
<1>3. /\ Loaded(FrameCount - 1, as, code) /\ as \in [0 .. MaxFrames - 1 -> CallFrame]
      /\ \A j \in 0 .. FrameCount - 2 : as[j] = Frames[j]
  BY <1>1, <1>2, ReturnedFrames
<1>4. \A j \in 0 .. (FrameCount - 1) - 1 : j \in 0 .. FrameCount - 2
  BY <1>1
<1> HIDE DEF as
<1>5. \A j \in 0 .. (FrameCount - 1) - 1 : as[j].fn = Frames[j].fn
  BY <1>3, <1>4
<1>6. FramesGo(as, FrameCount - 1, code)
  BY <1>2, <1>3, <1>5, GoesOn
<1> QED BY <1>6 DEF as

\* An instruction of the top frame, executed by its loop or by a debugger.
LEMMA ExecuteKeeps ==
  ASSUME Debugged, NativeHasRoom, status = "running", host # <<>>, FrameCount > ReturnFrame,
         NEW x, SameTop(x), Execute(FrameCount - 1, WithTop(x)),
         ~IsLoop(x) =>
           /\ x.step = "check" /\ x.DebugFrame = FrameCount - 1
           /\ StepOK(x, IF Current(FrameCount - 1).op = "call" THEN FrameCount' ELSE FrameCount,
                     ReturnFrame, Frames', code)
  PROVE  Debugged'
<1> DEFINE i == FrameCount - 1
<1>1. /\ ThreadOK /\ Loaded(FrameCount, Frames, code) /\ FrameCount \in 0 .. MaxFrames
      /\ FrameCount \in Nat /\ ReturnFrame \in Nat
  BY DEF Debugged, ThreadOK
<1>2. FrameCount > 0 /\ i \in 0 .. FrameCount - 1 /\ FrameCount + 1 > ReturnFrame
  BY <1>1
<1>3. ~Runaway(i) /\ Current(i).to \in Functions
  BY <1>1, <1>2, TopFrame
<1>4. CASE Op(i, WithTop(x))
  <2>1. FramesGo(Frames', FrameCount', code')
    BY <1>4, OpGoes DEF Op, modules
  <2>2. /\ host' = WithTop(x) /\ ReturnFrame' = ReturnFrame /\ FrameCount' = FrameCount
        /\ status' = status /\ code' = code /\ Current(i).op # "call"
    BY <1>4 DEF Op, modules
  <2> QED BY <2>1, <2>2, TopGoes
<1>5. CASE Call(i, WithTop(x))
  <2>1. /\ host' = WithTop(x) /\ ReturnFrame' = ReturnFrame /\ code' = code
        /\ Current(i).op = "call"
    BY <1>5 DEF Call, modules
  <2>2. CASE FrameCount < MaxFrames
    <3>1. /\ Frames' = NewFrame(i, Current(i).to) /\ FrameCount' = FrameCount + 1
          /\ status' = status
      BY <1>5, <2>2 DEF Call
    <3>2. FramesGo(Frames', FrameCount', code')
      BY <1>3, <2>1, <2>2, <3>1, CallGoes
    <3> QED BY <1>2, <2>1, <3>1, <3>2, TopGoes
  <2>3. CASE ~(FrameCount < MaxFrames)
    <3>1. Frames' = Advance(i) /\ FrameCount' = FrameCount /\ status' \in {"running", "exited"}
      BY <1>5, <2>3 DEF Call
    <3>2. FramesGo(Frames', FrameCount', code')
      BY <2>1, <3>1, OpGoes
    <3> QED BY <1>2, <2>1, <3>1, <3>2, TopGoes
  <2> QED BY <2>2, <2>3
<1>6. CASE CallNative(i, WithTop(x))
  <2>1. /\ host' = Append(WithTop(x), NewLoop("native", FrameCount)) /\ ReturnFrame' = FrameCount
        /\ code' = code /\ Current(i).op = "native"
    BY <1>6 DEF CallNative, modules
  <2>2. CASE FrameCount < MaxFrames
    <3>1. /\ Frames' = NewFrame(i, Current(i).to) /\ FrameCount' = FrameCount + 1
          /\ status' = status
      BY <1>6, <2>2 DEF CallNative
    <3>2. FramesGo(Frames', FrameCount', code')
      BY <1>3, <2>1, <2>2, <3>1, CallGoes
    <3>3. FrameCount' > FrameCount /\ status' \in {"running", "exited"}
      BY <1>1, <3>1
    <3> QED BY <2>1, <3>2, <3>3, NativeEntered
  <2>3. CASE ~(FrameCount < MaxFrames)
    <3>1. FrameCount = MaxFrames
      BY <1>1, <2>3, Programs
    <3>2. ~(AttachedDebuggerCount > 0)
      BY <1>3, <2>1, <3>1 DEF NativeHasRoom
    <3>3. Frames' = Advance(i) /\ FrameCount' = FrameCount /\ status' = "exited"
      BY <1>6, <2>3, <3>2 DEF CallNative
    <3>4. FramesGo(Frames', FrameCount', code')
      BY <2>1, <3>3, OpGoes
    <3> QED BY <2>1, <3>3, <3>4, NativeEntered
  <2> QED BY <2>2, <2>3
<1> QED BY <1>4, <1>5, <1>6 DEF Execute

LEMMA RunInstructionKeeps ==
  ASSUME Debugged, NativeHasRoom, RunInstruction
  PROVE  Debugged'
<1> DEFINE i == FrameCount - 1
           x == [Top EXCEPT !.resumed = FALSE]
<1>1. status = "running" /\ host # <<>> /\ IsLoop(Top) /\ FrameCount > 0
  BY DEF RunInstruction, Looping, IsLoop
<1>2. /\ ThreadOK /\ Loaded(FrameCount, Frames, code) /\ FrameCount \in 0 .. MaxFrames
      /\ FrameCount \in Nat /\ ReturnFrame \in Nat
  BY DEF Debugged, ThreadOK
<1>3. i \in 0 .. FrameCount - 1
  BY <1>1, <1>2
<1>4. ~Runaway(i)
  BY <1>2, <1>3, TopFrame
<1>5. Top \in Loop
  BY <1>1, <1>2, HostFront, Kinds
<1>6. SameTop(x) /\ IsLoop(x)
  BY <1>1, <1>5 DEF SameTop, Activation, Loop, IsLoop
<1>7. ReturnFrame < FrameCount
  <2>1. FrameCount > ReturnFrame \/ ReturnFrame = 0
    BY <1>1, <1>2, StartsBelow DEF Debugged, Nested, ThreadOK
  <2> QED BY <1>1, <1>2, <2>1
<1>8. \/ Execute(i, WithTop(x))
      \/ /\ Frames' = Advance(i)
         /\ IF i = ReturnFrame THEN LeaveLoop(i)
            ELSE /\ FrameCount' = i /\ host' = WithTop(x)
                 /\ UNCHANGED <<modules, points, ReturnFrame, AttachedDebuggerCount, status>>
  BY <1>4 DEF RunInstruction
<1>9. CASE Execute(i, WithTop(x))
  BY <1>1, <1>2, <1>6, <1>7, <1>9, ExecuteKeeps
<1>10. CASE Frames' = Advance(i) /\ i = ReturnFrame /\ LeaveLoop(i)
  <2>1. /\ Advance(i) \in [0 .. MaxFrames - 1 -> CallFrame]
        /\ \A j \in 0 .. FrameCount - 2 : Advance(i)[j] = Frames[j]
    BY <1>1, <1>2, ReturnedFrames
  <2>2. FrameCount' = ReturnFrame
    BY <1>1, <1>10, LoopEnds, LeavingLoop
  <2>3. \A j \in 0 .. ReturnFrame - 1 : j \in 0 .. FrameCount - 2
    BY <1>2, <1>7
  <2>4. /\ host' = Front(host) /\ status' = status
        /\ ReturnFrame' = IF Top.kind = "main" THEN ReturnFrame ELSE Top.ret
        /\ code' = code \/ (Top.kind = "typed" /\ code' = Collected(Top.frames))
    BY <1>10, LeavingLoop
  <2> QED BY <1>1, <1>10, <2>1, <2>2, <2>3, <2>4, LoopLeft
<1>11. CASE /\ Frames' = Advance(i) /\ i # ReturnFrame /\ FrameCount' = i /\ host' = WithTop(x)
            /\ UNCHANGED <<modules, points, ReturnFrame, AttachedDebuggerCount, status>>
  <2>1. ReturnFrame' = ReturnFrame /\ status' = status /\ code' = code
    BY <1>11 DEF modules
  <2>2. FramesGo(Frames', FrameCount', code')
    BY <1>7, <1>11, <2>1, ReturnGoes
  <2>3. FrameCount' > ReturnFrame
    BY <1>2, <1>7, <1>11
  <2> QED BY <1>1, <1>6, <1>11, <2>1, <2>2, <2>3, TopGoes
<1> QED BY <1>8, <1>9, <1>10, <1>11

LEMMA NothingToRunKeeps ==
  ASSUME Debugged, NothingToRun
  PROVE  Debugged'
<1>1. /\ status = "running" /\ host # <<>> /\ IsLoop(Top) /\ FrameCount = 0
      /\ LeaveLoop(0) /\ Frames' = Frames
  BY DEF NothingToRun, Looping, IsLoop
<1>2. ReturnFrame = 0 /\ (Top.kind # "main" => Top.frames = 0)
  BY <1>1, LoopEnds DEF Debugged, ThreadOK
<1>3. /\ host' = Front(host) /\ status' = status /\ FrameCount' = 0
      /\ ReturnFrame' = IF Top.kind = "main" THEN ReturnFrame ELSE Top.ret
      /\ code' = code \/ (Top.kind = "typed" /\ code' = Collected(Top.frames))
  BY <1>1, <1>2, LeavingLoop
<1>4. Frames' \in [0 .. MaxFrames - 1 -> CallFrame]
  BY <1>1 DEF Debugged, ThreadOK
<1> QED BY <1>1, <1>2, <1>3, <1>4, LoopLeft

\* The debugger waits at its prompt, or is about to execute, or to look at a column.
LEMMA AtTop ==
  ASSUME Debugged, status = "running", host # <<>>, ~IsLoop(Top)
  PROVE  /\ ThreadOK /\ Loaded(FrameCount, Frames, code) /\ FrameCount \in 0 .. MaxFrames
         /\ FrameCount \in Nat /\ ReturnFrame \in Nat /\ MaxFrames \in Nat
         /\ Top \in AtPrompt /\ StepOK(Top, FrameCount, ReturnFrame, Frames, code)
         /\ FrameCount > ReturnFrame \/ ReturnFrame = 0
<1>1. /\ ThreadOK /\ Shape(host) /\ Nest(host, FrameCount, ReturnFrame)
      /\ Steps(host, FrameCount, ReturnFrame, Frames, code)
      /\ FrameCount \in Nat /\ ReturnFrame \in Nat /\ host \in Seq(Activation)
      /\ Loaded(FrameCount, Frames, code) /\ FrameCount \in 0 .. MaxFrames
  BY DEF Debugged, Nested, Stepping, ThreadOK
<1>2. host[Len(host)] = Top /\ Top \in Activation /\ Len(host) \in 1 .. Len(host)
  BY <1>1, HostFront
<1>3. Top \in AtPrompt
  BY <1>2, Kinds
<1>4. /\ Base(host, FrameCount, Len(host)) = FrameCount
      /\ Register(host, ReturnFrame, Len(host)) = ReturnFrame
  BY DEF Base, Register, Under
<1>5. StepOK(Top, FrameCount, ReturnFrame, Frames, code)
  BY <1>1, <1>2, <1>4 DEF Steps
<1>6. FrameCount > ReturnFrame \/ ReturnFrame = 0
  BY <1>1, StartsBelow
<1> QED BY <1>1, <1>3, <1>5, <1>6, Programs

\* Only the debugger changes.
LEMMA PromptKeeps ==
  ASSUME Debugged, status = "running", host # <<>>, ~IsLoop(Top), NEW x \in AtPrompt,
         host' = WithTop(x), UNCHANGED <<code, Frames, FrameCount, ReturnFrame, status>>,
         StepOK(x, FrameCount, ReturnFrame, Frames, code)
  PROVE  Debugged'
<1>1. Top.kind = "debugger" /\ x.kind = "debugger" /\ x \in Activation
  BY AtTop DEF AtPrompt, Activation
<1>2. SameTop(x)
  BY <1>1 DEF SameTop, IsLoop
<1>3. FramesGo(Frames, FrameCount, code)
  <2>1. \A j \in 0 .. FrameCount - 1 : j < FrameCount
    BY AtTop
  <2>2. Agree(ReturnFrame, Frames, code, Frames, code)
    BY DEF Agree
  <2> QED BY <2>1, <2>2 DEF FramesGo, Debugged, ThreadOK
<1> QED BY <1>2, <1>3, AtTop, TopGoes

\* A row of instructions from one column.
LEMMA RowOf ==
  ASSUME NEW t \in Texts, NEW ip \in Nat, ip < Count(t)
  PROVE  /\ ip \in SameColumn(t, ip)
         /\ ip + 1 < Count(t) /\ Column[t][ip + 2] = Column[t][ip + 1] =>
              ip + 1 \in SameColumn(t, ip) /\ SameColumn(t, ip + 1) \subseteq SameColumn(t, ip)
<1>1. Count(t) \in Nat
  BY Programs
<1>2. ip \in ip .. Count(t) - 1 /\ \A q \in ip .. ip : q = ip
  BY <1>1
<1>3. ip \in SameColumn(t, ip)
  BY <1>2 DEF SameColumn
<1>4. ASSUME ip + 1 < Count(t), Column[t][ip + 2] = Column[t][ip + 1]
      PROVE  ip + 1 \in SameColumn(t, ip) /\ SameColumn(t, ip + 1) \subseteq SameColumn(t, ip)
  <2>1. ip + 1 \in ip .. Count(t) - 1 /\ \A q \in ip .. ip + 1 : q = ip \/ q = ip + 1
    BY <1>1, <1>4
  <2>2. (ip + 1) + 1 = ip + 2
    OBVIOUS
  <2>3. \A q \in ip .. ip + 1 : Column[t][q + 1] = Column[t][ip + 1]
    BY <1>4, <2>1, <2>2
  <2>4. ip + 1 \in SameColumn(t, ip)
    BY <2>1, <2>3 DEF SameColumn
  <2>5. ASSUME NEW p \in SameColumn(t, ip + 1)
        PROVE  p \in SameColumn(t, ip)
    <3>1. /\ p \in ip + 1 .. Count(t) - 1
          /\ \A q \in ip + 1 .. p : Column[t][q + 1] = Column[t][ip + 2]
      BY <2>2 DEF SameColumn
    <3>2. p \in ip .. Count(t) - 1 /\ \A q \in ip .. p : q = ip \/ q \in ip + 1 .. p
      BY <1>1, <3>1
    <3>3. \A q \in ip .. p : Column[t][q + 1] = Column[t][ip + 1]
      BY <1>4, <3>1, <3>2
    <3> QED BY <3>2, <3>3 DEF SameColumn
  <2> QED BY <2>4, <2>5
<1> QED BY <1>3, <1>4

\* What a debugger looks at after it has executed an instruction.
LEMMA StepGoesOn ==
  ASSUME Debugged, status = "running", host # <<>>, ~IsLoop(Top), Top.step = "run",
         NEW x, x = [Top EXCEPT !.step = "check"],
         NEW fs, fs[FrameCount - 1] = Advance(FrameCount - 1)[FrameCount - 1],
         NEW b, Current(FrameCount - 1).op \in {"op", "native"} => b = FrameCount
  PROVE  StepOK(x, b, ReturnFrame, fs, code)
<1> DEFINE i == FrameCount - 1
           t == TextIn(code, Frames[i].fn)
           ip == Frames[i].ip
           c == Top.column
<1>1. /\ ThreadOK /\ Loaded(FrameCount, Frames, code)
      /\ FrameCount \in Nat /\ ReturnFrame \in Nat /\ Top \in AtPrompt
      /\ StepOK(Top, FrameCount, ReturnFrame, Frames, code)
  BY AtTop
<1>2. x.step = "check" /\ x.DebugFrame = Top.DebugFrame /\ x.column = c
  BY <1>1 DEF AtPrompt
<1>3. Top.DebugFrame = i /\ FrameCount > ReturnFrame
  BY <1>1 DEF StepOK
<1>4. i \in 0 .. FrameCount - 1
  BY <1>1, <1>3
<1>5. /\ i \in 0 .. MaxFrames - 1 /\ t \in Texts /\ ip \in Nat /\ ip < Count(t)
      /\ Current(i).op \in {"op", "call", "native", "return"} /\ Current(i) = Body[t][ip + 1]
      /\ t # Free
  <2>1. /\ i \in 0 .. MaxFrames - 1 /\ Text(Frames[i].fn) \in Texts /\ ip \in Nat
        /\ ip + 1 \in 1 .. Count(Text(Frames[i].fn))
        /\ Current(i).op \in {"op", "call", "native", "return"}
    BY <1>1, <1>4, TopFrame
  <2>2. Text(Frames[i].fn) = t
    BY DEF Text, TextIn
  <2>3. Count(t) \in Nat /\ ip < Count(t)
    BY <2>1, <2>2, Programs
  <2>4. t # Free
    BY <1>1, <1>4 DEF Loaded, Inside
  <2> QED BY <2>1, <2>2, <2>3, <2>4 DEF Current
<1>6. fs[i].fn = Frames[i].fn /\ fs[i].ip = ip + 1
  BY <1>1, <1>5, Advanced
<1> HIDE DEF i, t, ip, c
<1>7. ASSUME c # NoColumn
      PROVE  /\ Inside(code, fs[i])
             /\ Here(code, fs[i]) = c => i = b - 1 /\ b > ReturnFrame /\ RowIsHarmless(t, ip + 1, b, ReturnFrame)
  <2>1. Here(code, Frames[i]) = c /\ RowIsHarmless(t, ip, FrameCount, ReturnFrame)
    BY <1>1, <1>3, <1>7 DEF StepOK, t, ip, c
  <2>2. ip \in SameColumn(t, ip)
    BY <1>5, RowOf
  <2>3. ip # Count(t) - 1
    BY <2>1, <2>2 DEF RowIsHarmless
  <2>4. ip + 1 < Count(t)
    BY <1>5, <2>3, Programs, SMTT(30)
  <2>5. TextIn(code, fs[i].fn) = t
    BY <1>6 DEF t
  <2>6. Inside(code, fs[i])
    BY <1>5, <1>6, <2>4, <2>5 DEF Inside
  <2>7. ASSUME Here(code, fs[i]) = c
        PROVE  i = b - 1 /\ b > ReturnFrame /\ RowIsHarmless(t, ip + 1, b, ReturnFrame)
    <3>1. Column[t][ip + 2] = c /\ Column[t][ip + 1] = c
      <4>1. (ip + 1) + 1 = ip + 2
        BY <1>5
      <4> QED BY <1>6, <2>1, <2>5, <2>7, <4>1 DEF Here, t, ip
    <3>2. ip + 1 \in SameColumn(t, ip) /\ SameColumn(t, ip + 1) \subseteq SameColumn(t, ip)
      BY <1>5, <2>4, <3>1, RowOf
    <3>3. Body[t][ip + 1].op \notin {"call", "return"}
      BY <2>1, <2>2, <3>2 DEF RowIsHarmless, Harmless
    <3>4. Current(FrameCount - 1).op \in {"op", "native"}
      BY <1>5, <3>3 DEF i
    <3>5. b = FrameCount
      BY <3>4
    <3>6. RowIsHarmless(t, ip + 1, FrameCount, ReturnFrame)
      BY <2>1, <3>2 DEF RowIsHarmless, Harmless
    <3> QED BY <1>3, <3>5, <3>6 DEF i
  <2> QED BY <2>6, <2>7
<1>8. ASSUME c # NoColumn
      PROVE  /\ x.DebugFrame \in 0 .. MaxFrames - 1 /\ Inside(code, fs[x.DebugFrame])
             /\ Here(code, fs[x.DebugFrame]) = x.column =>
                  /\ x.DebugFrame = b - 1 /\ b > ReturnFrame
                  /\ RowIsHarmless(TextIn(code, fs[x.DebugFrame].fn), fs[x.DebugFrame].ip, b, ReturnFrame)
  <2>1. x.DebugFrame = i /\ x.column = c
    BY <1>2, <1>3
  <2>2. TextIn(code, fs[i].fn) = t
    BY <1>6 DEF t
  <2> QED BY <1>5, <1>6, <1>7, <1>8, <2>1, <2>2
<1>9. x.step # "run" /\ x.column = c
  BY <1>2
<1> QED BY <1>8, <1>9 DEF StepOK

LEMMA RunOpcodeFuncKeeps ==
  ASSUME Debugged, NativeHasRoom, RunOpcodeFunc
  PROVE  Debugged'
<1> DEFINE i == FrameCount - 1
           x == [Top EXCEPT !.step = "check"]
<1>1. status = "running" /\ host # <<>> /\ ~IsLoop(Top) /\ Top.step = "run"
  BY DEF RunOpcodeFunc, InDebugger, IsLoop
<1>2. /\ ThreadOK /\ Loaded(FrameCount, Frames, code) /\ FrameCount \in 0 .. MaxFrames
      /\ FrameCount \in Nat /\ ReturnFrame \in Nat /\ MaxFrames \in Nat
      /\ Top \in AtPrompt /\ StepOK(Top, FrameCount, ReturnFrame, Frames, code)
  BY <1>1, AtTop
<1>3. Frame = i /\ FrameCount > ReturnFrame
  BY <1>1, <1>2 DEF StepOK, Frame
<1>4. i \in 0 .. FrameCount - 1
  BY <1>2, <1>3
<1>5. /\ ~Runaway(i) /\ i \in 0 .. MaxFrames - 1 /\ Frames[i].ip + 1 \in 1 .. Count(Text(Frames[i].fn))
      /\ Text(Frames[i].fn) \in Texts /\ Frames[i].ip \in Nat
  BY <1>2, <1>4, TopFrame
<1>6. x \in AtPrompt /\ x.step = "check" /\ x.DebugFrame = i /\ ~IsLoop(x) /\ SameTop(x)
  BY <1>1, <1>2, <1>3 DEF AtPrompt, IsLoop, SameTop, Activation, Frame
<1> HIDE DEF x
<1>7. \/ Execute(i, WithTop(x))
      \/ /\ Current(i).op = "return"
         /\ Frames' = Advance(i) /\ FrameCount' = i
         /\ host' = WithTop(x)
         /\ UNCHANGED <<modules, points, ReturnFrame, AttachedDebuggerCount, status>>
  BY <1>3, <1>5 DEF RunOpcodeFunc, x
<1>8. CASE Execute(i, WithTop(x))
  <2>1. Frames' = Advance(i) \/ (FrameCount < MaxFrames /\ Frames' = NewFrame(i, Current(i).to))
    BY <1>8 DEF Execute, Op, Call, CallNative
  <2>2. NewFrame(i, Current(i).to)[i] = Advance(i)[i]
    <3>1. Advance(i) \in [0 .. MaxFrames - 1 -> CallFrame]
      BY <1>2, <1>5, Advanced
    <3>2. i # FrameCount
      BY <1>2
    <3> QED BY <1>5, <3>1, <3>2 DEF NewFrame
  <2>3. Frames'[i] = Advance(i)[i]
    BY <2>1, <2>2
  <2> DEFINE b == IF Current(i).op = "call" THEN FrameCount' ELSE FrameCount
  <2>4. Current(i).op \in {"op", "native"} => b = FrameCount
    OBVIOUS
  <2> HIDE DEF b
  <2>5. StepOK(x, b, ReturnFrame, Frames', code)
    BY <1>1, <2>3, <2>4, StepGoesOn DEF x
  <2> QED BY <1>1, <1>3, <1>6, <1>8, <2>5, ExecuteKeeps DEF b
<1>9. CASE /\ Current(i).op = "return"
           /\ Frames' = Advance(i) /\ FrameCount' = i
           /\ host' = WithTop(x)
           /\ UNCHANGED <<modules, points, ReturnFrame, AttachedDebuggerCount, status>>
  <2>1. ReturnFrame' = ReturnFrame /\ status' = status /\ code' = code
    BY <1>9 DEF modules
  <2>2. FramesGo(Frames', FrameCount', code')
    BY <1>3, <1>9, <2>1, ReturnGoes
  <2>3. ReturnFrame = 0 \/ i # ReturnFrame
    <3> DEFINE t == TextIn(code, Frames[i].fn)
               ip == Frames[i].ip
    <3>1. Body[t][ip + 1].op = "return" /\ t \in Texts /\ ip < Count(t)
      <4>1. t = Text(Frames[i].fn)
        BY DEF TextIn, Text
      <4> QED BY <1>5, <1>9, <4>1, Programs DEF Current
    <3>2. Harmless(t, {ip}, FrameCount, ReturnFrame) \/ Harmless(t, SameColumn(t, ip), FrameCount, ReturnFrame)
      BY <1>1, <1>2, <1>3 DEF StepOK, Frame, RowIsHarmless
    <3>3. ip \in SameColumn(t, ip)
      BY <1>5, <3>1, RowOf
    <3> QED BY <3>1, <3>2, <3>3 DEF Harmless
  <2>4. FrameCount' > ReturnFrame \/ ReturnFrame = 0
    BY <1>2, <1>3, <1>9, <2>3
  <2>5. StepOK(x, FrameCount', ReturnFrame, Frames', code')
    <3>1. Current(FrameCount - 1).op \notin {"op", "native"}
      BY <1>9
    <3> QED BY <1>1, <1>9, <2>1, <3>1, StepGoesOn DEF x
  <2> QED BY <1>1, <1>6, <1>9, <2>1, <2>2, <2>4, <2>5, TopGoes
<1> QED BY <1>7, <1>8, <1>9

LEMMA CheckColumnKeeps ==
  ASSUME Debugged, CheckColumn
  PROVE  Debugged'
<1>1. status = "running" /\ host # <<>> /\ ~IsLoop(Top) /\ Top.step = "check"
  BY DEF CheckColumn, InDebugger, IsLoop
<1>2. /\ ThreadOK /\ FrameCount \in Nat /\ Top \in AtPrompt
      /\ StepOK(Top, FrameCount, ReturnFrame, Frames, code)
  BY <1>1, AtTop
<1> DEFINE t == Text(Frames[Frame].fn)
           ip == Frames[Frame].ip
<1>3. ASSUME Top.column # NoColumn
      PROVE  /\ Frame \in 0 .. MaxFrames - 1 /\ Inside(code, Frames[Frame])
             /\ Here(code, Frames[Frame]) = Top.column =>
                  /\ Frame = FrameCount - 1 /\ FrameCount > ReturnFrame
                  /\ RowIsHarmless(TextIn(code, Frames[Frame].fn), ip, FrameCount, ReturnFrame)
  BY <1>1, <1>2, <1>3 DEF StepOK, Frame
<1>4. ColumnAt(Frame) = Here(code, Frames[Frame])
  BY DEF ColumnAt, Here, Text, TextIn
<1>5. ASSUME Top.column # NoColumn
      PROVE  ~Runaway(Frame)
  <2>1. t # Free /\ ip < Count(t)
    BY <1>3, <1>5 DEF Inside, Text, TextIn
  <2>2. Frames[Frame] \in CallFrame
    BY <1>2, <1>3, <1>5 DEF ThreadOK
  <2>3. ip \in Nat /\ t \in Texts
    BY <1>2, <2>1, <2>2 DEF CallFrame, Places, ThreadOK, Texts, Text
  <2>4. ~(ip >= Count(t))
    BY <2>1, <2>3, Programs
  <2> QED BY <2>1, <2>4 DEF Runaway
<1>6. /\ host' = WithTop(IF Top.column # NoColumn /\ ColumnAt(Frame) = Top.column
                         THEN [Top EXCEPT !.step = "run"]
                         ELSE [Top EXCEPT !.step = "no", !.column = NoColumn,
                                          !.DebugFrame = IF FrameCount > 0 THEN FrameCount - 1 ELSE @])
      /\ UNCHANGED <<code, Frames, FrameCount, ReturnFrame, status>>
  BY <1>5 DEF CheckColumn, modules, thread
<1>7. CASE Top.column # NoColumn /\ ColumnAt(Frame) = Top.column
  <2> DEFINE x == [Top EXCEPT !.step = "run"]
  <2>1. /\ x \in AtPrompt /\ x.step = "run" /\ x.DebugFrame = Frame /\ x.column = Top.column
    <3>1. Top \in AtPrompt
      BY <1>2
    <3> QED BY <3>1 DEF AtPrompt, Frame
  <2>2. host' = WithTop(x)
    BY <1>6, <1>7
  <2> HIDE DEF x
  <2>3. StepOK(x, FrameCount, ReturnFrame, Frames, code)
    BY <1>3, <1>4, <1>7, <2>1 DEF StepOK
  <2> QED BY <1>1, <1>6, <2>1, <2>2, <2>3, PromptKeeps
<1>8. CASE ~(Top.column # NoColumn /\ ColumnAt(Frame) = Top.column)
  <2> DEFINE x == [Top EXCEPT !.step = "no", !.column = NoColumn,
                              !.DebugFrame = IF FrameCount > 0 THEN FrameCount - 1 ELSE @]
  <2>1. /\ x \in AtPrompt /\ x.step = "no"
    <3>1. Top \in AtPrompt /\ (IF FrameCount > 0 THEN FrameCount - 1 ELSE Top.DebugFrame) \in Int
      BY <1>2 DEF AtPrompt
    <3>2. NoColumn \in Int
      BY DEF NoColumn
    <3> QED BY <3>1, <3>2 DEF AtPrompt
  <2>2. host' = WithTop(x)
    BY <1>6, <1>8
  <2> HIDE DEF x
  <2>3. StepOK(x, FrameCount, ReturnFrame, Frames, code)
    BY <2>1 DEF StepOK
  <2> QED BY <1>1, <1>6, <2>1, <2>2, <2>3, PromptKeeps
<1> QED BY <1>7, <1>8

LEMMA Stand ==
  ASSUME Debugged, NEW t, CanStep(t), t = Text(Frames[Frame].fn)
  PROVE  /\ status = "running" /\ host # <<>> /\ ~IsLoop(Top) /\ Top \in AtPrompt
         /\ Frame = FrameCount - 1 /\ FrameCount > ReturnFrame /\ t = TextIn(code, Frames[Frame].fn)
         /\ t \in Texts /\ Frames[Frame].ip + 1 \in 1 .. Count(t) /\ Frames[Frame].ip \in Nat
         /\ FrameCount \in Nat
<1>1. /\ status = "running" /\ host # <<>> /\ ~IsLoop(Top)
      /\ Frame = FrameCount - 1 /\ FrameCount > 0
  BY DEF CanStep, Command, InDebugger, IsLoop, InTopFrame
<1>2. /\ ThreadOK /\ Loaded(FrameCount, Frames, code) /\ Top \in AtPrompt
      /\ FrameCount > ReturnFrame \/ ReturnFrame = 0
      /\ FrameCount \in Nat
  BY <1>1, AtTop
<1>3. FrameCount > ReturnFrame /\ FrameCount - 1 \in 0 .. FrameCount - 1
  BY <1>1, <1>2
<1>4. /\ Text(Frames[Frame].fn) \in Texts /\ Frames[Frame].ip + 1 \in 1 .. Count(Text(Frames[Frame].fn))
      /\ Frames[Frame].ip \in Nat
  BY <1>1, <1>2, <1>3, TopFrame
<1>5. t = TextIn(code, Frames[Frame].fn)
  BY DEF Text, TextIn
<1> QED BY <1>1, <1>2, <1>3, <1>4, <1>5

LEMMA StepKeeps ==
  ASSUME CarefulUse, Debugged, Step
  PROVE  Debugged'
<1> DEFINE t == Text(Frames[Frame].fn)
           ip == Frames[Frame].ip
           x == [Top EXCEPT !.step = "run", !.column = ColumnAt(Frame)]
<1>1. /\ CanStep(t) /\ StepIsHarmless(t, ip, SameColumn(t, ip))
      /\ "StepOff" \in Usage \/ Count(t) - 1 \notin SameColumn(t, ip)
      /\ host' = WithTop(x)
      /\ UNCHANGED <<code, Frames, FrameCount, ReturnFrame, status>>
  BY DEF Step, modules, thread
<1>2. /\ status = "running" /\ host # <<>> /\ ~IsLoop(Top) /\ Top \in AtPrompt
      /\ Frame = FrameCount - 1 /\ FrameCount > ReturnFrame /\ t = TextIn(code, Frames[Frame].fn)
      /\ t \in Texts /\ ip + 1 \in 1 .. Count(t)
  BY <1>1, Stand
<1>3. ColumnAt(Frame) = Column[t][ip + 1] /\ Column[t][ip + 1] \in Nat
  BY <1>2, Programs DEF ColumnAt
<1>4. ColumnAt(Frame) \in Int /\ ColumnAt(Frame) # NoColumn
  BY <1>3 DEF NoColumn
<1>5. /\ x \in AtPrompt /\ x.step = "run" /\ x.DebugFrame = Frame /\ x.column = ColumnAt(Frame)
  BY <1>2, <1>4 DEF AtPrompt, Frame
<1>6. RowIsHarmless(t, ip, FrameCount, ReturnFrame)
  BY <1>1 DEF CarefulUse, RowIsHarmless, Harmless, StepIsHarmless
<1> HIDE DEF x
<1>7. Here(code, Frames[Frame]) = x.column
  BY <1>3, <1>5, <1>2 DEF Here
<1>8. StepOK(x, FrameCount, ReturnFrame, Frames, code)
  BY <1>2, <1>4, <1>5, <1>6, <1>7 DEF StepOK
<1> QED BY <1>1, <1>2, <1>5, <1>8, PromptKeeps

LEMMA NextInstructionKeeps ==
  ASSUME CarefulUse, Debugged, NextInstruction
  PROVE  Debugged'
<1> DEFINE t == Text(Frames[Frame].fn)
           ip == Frames[Frame].ip
           x == [Top EXCEPT !.step = "run", !.column = NoColumn]
<1>1. /\ CanStep(t) /\ StepIsHarmless(t, ip, {ip})
      /\ host' = WithTop(x)
      /\ UNCHANGED <<code, Frames, FrameCount, ReturnFrame, status>>
  BY DEF NextInstruction, modules, thread
<1>2. /\ status = "running" /\ host # <<>> /\ ~IsLoop(Top) /\ Top \in AtPrompt
      /\ Frame = FrameCount - 1 /\ FrameCount > ReturnFrame /\ t = TextIn(code, Frames[Frame].fn)
  BY <1>1, Stand
<1>3. /\ x \in AtPrompt /\ x.step = "run" /\ x.DebugFrame = Frame /\ x.column = NoColumn
  <2>1. Top \in AtPrompt /\ NoColumn \in Int
    BY <1>2 DEF NoColumn
  <2> QED BY <2>1 DEF AtPrompt, Frame
<1>4. Harmless(t, {ip}, FrameCount, ReturnFrame)
  BY <1>1 DEF CarefulUse, Harmless, StepIsHarmless
<1> HIDE DEF x
<1>5. StepOK(x, FrameCount, ReturnFrame, Frames, code)
  BY <1>2, <1>3, <1>4 DEF StepOK
<1> QED BY <1>1, <1>2, <1>3, <1>5, PromptKeeps

LEMMA SelectFrameKeeps ==
  ASSUME Debugged, SelectFrame
  PROVE  Debugged'
<1>1. status = "running" /\ host # <<>> /\ ~IsLoop(Top) /\ Top.step = "no"
  BY DEF SelectFrame, Command, InDebugger, IsLoop
<1>2. PICK i \in 0 .. FrameCount - 1 : host' = WithTop([Top EXCEPT !.DebugFrame = i])
  BY DEF SelectFrame
<1> DEFINE x == [Top EXCEPT !.DebugFrame = i]
<1>3. x \in AtPrompt /\ x.step = "no"
  <2>1. Top \in AtPrompt /\ i \in Int
    BY <1>1, AtTop
  <2> QED BY <1>1, <2>1 DEF AtPrompt
<1>4. UNCHANGED <<code, Frames, FrameCount, ReturnFrame, status>>
  BY DEF SelectFrame, modules, thread
<1> HIDE DEF x
<1>5. StepOK(x, FrameCount, ReturnFrame, Frames, code)
  BY <1>3 DEF StepOK
<1> QED BY <1>1, <1>2, <1>3, <1>4, <1>5, PromptKeeps DEF x

LEMMA NothingChanges ==
  ASSUME Debugged, UNCHANGED <<code, Frames, FrameCount, ReturnFrame, host, status>>
  PROVE  Debugged'
BY DEF Debugged, ThreadOK, Nested, Stepping

LEMMA BreakpointCommandsKeep ==
  ASSUME CarefulUse, Debugged,
         SetBreakpoint \/ SetTempBreakpoint \/ SwitchBreakpoint \/ DropBreakpoint \/ ClearBreakpoints
  PROVE  Debugged'
<1>1. CanBreak => Frames[Frame].fn \in DOMAIN BreakpointsPerFunction
  BY DEF CanBreak, CarefulUse
<1>2. UNCHANGED <<modules, thread, host, status>>
  BY <1>1 DEF SetBreakpoint, SetTempBreakpoint, SwitchBreakpoint, DropBreakpoint, ClearBreakpoints
<1> QED BY <1>2, NothingChanges DEF modules, thread

LEMMA HitKeeps ==
  ASSUME Debugged, Hit
  PROVE  Debugged'
<1> DEFINE x == [Top EXCEPT !.resumed = TRUE]
<1>1. /\ status = "running" /\ host # <<>> /\ IsLoop(Top)
      /\ host' = Append(WithTop(x), NewDebugger(FrameCount))
      /\ UNCHANGED <<code, Frames, FrameCount, ReturnFrame, status>>
  BY DEF Hit, Looping, IsLoop, modules, thread
<1>2. Top \in Loop
  BY <1>1, HostFront, Kinds DEF Debugged
<1>3. SameTop(x)
  BY <1>1, <1>2 DEF SameTop, Activation, Loop, IsLoop
<1> QED BY <1>1, <1>3, DebuggerEntered

LEMMA ContinueKeeps ==
  ASSUME Debugged, Continue
  PROVE  Debugged'
<1>1. /\ status = "running" /\ host # <<>> /\ ~IsLoop(Top) /\ host' = Front(host)
      /\ UNCHANGED <<code, Frames, FrameCount, ReturnFrame, status>>
  BY DEF Continue, Command, InDebugger, IsLoop, thread
<1> QED BY <1>1, DebuggerLeft

LEMMA ExecuteCodeKeeps ==
  ASSUME Debugged, ExecuteCode
  PROVE  Debugged'
<1>1. /\ status = "running" /\ host # <<>> /\ ~IsLoop(Top) /\ Top.step = "no" /\ FrameCount < MaxFrames
      /\ FrameCount' = FrameCount + 1 /\ ReturnFrame' = FrameCount /\ status' = status
      /\ host' = Append(host, NewLoop("typed", FrameCount))
  BY DEF ExecuteCode, CanExecute, Command, InDebugger, IsLoop
<1>2. PICK t \in Typed, a \in Addresses :
        CompileAndLoad(t, a) /\ Frames' = [Frames EXCEPT ![FrameCount] = [fn |-> a, ip |-> 0]]
  BY DEF ExecuteCode
<1>3. code[a] = Free /\ code' = [code EXCEPT ![a] = t]
  BY <1>2 DEF CompileAndLoad
<1> QED BY <1>1, <1>2, <1>3, TypedEntered

LEMMA Two ==
  ASSUME NEW x, NEW y
  PROVE  Append(<<x>>, y) = <<x, y>>
<1> DEFINE S == {x, y}
<1>1. <<x>> \in Seq(S) /\ <<x, y>> \in Seq(S) /\ Len(<<x, y>>) = 2 /\ Len(<<x>>) = 1
  OBVIOUS
<1>2. Append(<<x>>, y) \in Seq(S) /\ Len(Append(<<x>>, y)) = 2
  BY <1>1
<1>3. \A i \in 1 .. 2 : Append(<<x>>, y)[i] = <<x, y>>[i]
  OBVIOUS
<1> QED BY <1>1, <1>2, <1>3, SeqEqual

LEMMA EmptyHost ==
  /\ <<>> \in Seq(Activation) /\ Len(<<>>) = 0 /\ Shape(<<>>) /\ Nest(<<>>, 0, 0)
  /\ \A fs, c : Steps(<<>>, 0, 0, fs, c)
<1>1. <<>> \in Seq(Activation) /\ Len(<<>>) = 0 /\ 1 .. 0 = {}
  OBVIOUS
<1>2. Register(<<>>, 0, 0) = 0
  BY <1>1 DEF Register, Under
<1> QED BY <1>1, <1>2 DEF Shape, Nest, Steps

LEMMA RunnerMainKeeps ==
  ASSUME Debugged, NEW start \in Starts, RunnerMain(start)
  PROVE  Debugged'
<1> DEFINE m == NewLoop("main", 1)
           d(n) == NewDebugger(n)
<1>1. /\ status = "ready" /\ host = <<>> /\ FrameCount = 0 /\ ReturnFrame = 0
      /\ ThreadOK /\ ReturnFrame' = 0 /\ status' = "running" /\ code' = code
  BY DEF RunnerMain, Debugged, modules
<1>2. start \in {"program", "debugged", "debugger"} /\ 0 \in 0 .. MaxFrames - 1
      /\ 1 \in 0 .. MaxFrames /\ 0 \in 0 .. MaxFrames
  BY BoundsAssumption
<1>3. /\ m \in Activation /\ IsLoop(m) /\ m.kind = "main" /\ m.ret = 0 /\ Start(m) = 0
  BY <1>1 DEF NewLoop, Activation, Loop, IsLoop, Start
<1>4. \A n \in Nat : d(n) \in Activation /\ ~IsLoop(d(n)) /\ d(n).kind = "debugger" /\ d(n).step = "no"
  <2> SUFFICES ASSUME NEW n \in Nat
               PROVE  d(n) \in Activation /\ ~IsLoop(d(n)) /\ d(n).kind = "debugger" /\ d(n).step = "no"
    OBVIOUS
  <2>1. n - 1 \in Int /\ NoColumn \in Int
    BY DEF NoColumn
  <2> QED BY <2>1 DEF NewDebugger, Activation, AtPrompt, IsLoop
<1> HIDE DEF m, d
<1> DEFINE e == <<>>
<1>5. /\ e \in Seq(Activation) /\ Len(e) = 0 /\ Shape(e) /\ Nest(e, 0, 0)
      /\ Steps(e, 0, 0, Frames', code')
  BY EmptyHost
<1>6. host' = CASE start = "program"  -> <<m>>
                [] start = "debugged" -> <<m, d(1)>>
                [] start = "debugger" -> <<d(0)>>
  BY DEF RunnerMain, m, d
<1>7. CASE start = "debugger"
  <2>1. host' = Append(e, d(0)) /\ Frames' = Frames /\ FrameCount' = 0
    BY <1>1, <1>6, <1>7 DEF RunnerMain
  <2> HIDE DEF e
  <2>2. Extends(host', e) /\ host'[Len(host')] = d(0)
    <3>1. d(0) \in Activation
      BY <1>4
    <3> QED BY <1>5, <2>1, <3>1, AppendExtends
  <2>3. MayEnter(e, d(0)) /\ (e = <<>> \/ IsLoop(e[Len(e)]))
    BY <1>4, <1>5 DEF MayEnter, e
  <2>4. Shape(host')
    BY <1>5, <2>2, <2>3, ShapeEntered
  <2>5. Nest(host', 0, 0)
    BY <1>4, <1>5, <2>2, <2>4, NestDebugger
  <2>6. StepOK(d(0), 0, 0, Frames', code')
    BY <1>4 DEF StepOK
  <2>7. Steps(host', 0, 0, Frames', code')
    BY <1>4, <1>5, <2>2, <2>3, <2>6, StepsDebugger
  <2>8. ThreadOK'
    BY <1>1, <1>2, <2>1, <2>2 DEF ThreadOK, Extends
  <2>9. Loaded(0, Frames', code') /\ ProgramOnly(host', 0, Frames')
    <3>1. 0 .. 0 - 1 = {}
      OBVIOUS
    <3> QED BY <3>1 DEF Loaded, ProgramOnly
  <2> QED BY <1>1, <2>1, <2>4, <2>5, <2>7, <2>8, <2>9 DEF Debugged, Nested, Stepping
<1>8. CASE start # "debugger"
  <2> DEFINE h == Append(e, m)
  <2>1. Frames' = [Frames EXCEPT ![0] = None] /\ FrameCount' = 1
    BY <1>8 DEF RunnerMain
  <2>2. None \in CallFrame /\ None.fn = main /\ None.ip = 0 /\ main \in Functions /\ main \notin Addresses
    BY Programs DEF None, CallFrame, Places
  <2>3. Frames' \in [0 .. MaxFrames - 1 -> CallFrame] /\ Frames'[0] = None
    BY <1>1, <1>2, <2>1, <2>2 DEF ThreadOK
  <2>4. 0 .. 1 - 1 = {0}
    OBVIOUS
  <2>5. Loaded(1, Frames', code')
    BY <2>2, <2>3, <2>4, Programs DEF Loaded, Inside, TextIn
  <2>6. \A g : ProgramOnly(g, 1, Frames')
    BY <2>2, <2>3, <2>4 DEF ProgramOnly
  <2>7. h = <<m>>
    OBVIOUS
  <2> HIDE DEF e
  <2>8. Extends(h, e) /\ h[Len(h)] = m /\ h \in Seq(Activation)
    BY <1>3, <1>5, AppendExtends DEF Extends
  <2> HIDE DEF h
  <2>9. MayEnter(e, m) /\ e = <<>>
    BY <1>3 DEF MayEnter, e
  <2>10. Shape(h)
    BY <1>5, <2>8, <2>9, ShapeEntered
  <2>11. Nest(h, 1, 0)
    BY <1>3, <1>5, <2>8, <2>9, NestLoopEntered
  <2>12. Steps(h, 1, 0, Frames', code')
    BY <1>3, <1>5, <2>8, <2>9, StepsLoopEntered
  <2>13. CASE host' = h
    <3>1. ThreadOK'
      BY <1>1, <1>2, <2>1, <2>3, <2>8, <2>13 DEF ThreadOK
    <3> QED BY <1>1, <2>1, <2>5, <2>6, <2>10, <2>11, <2>12, <2>13, <3>1 DEF Debugged, Nested, Stepping
  <2>14. CASE host' = Append(h, d(1))
    <3>1. Extends(host', h) /\ host'[Len(host')] = d(1)
      BY <1>4, <2>8, <2>14, AppendExtends
    <3>2. h = <<>> \/ IsLoop(h[Len(h)])
      BY <1>3, <2>8
    <3>3. MayEnter(h, d(1))
      BY <1>4, <3>2 DEF MayEnter
    <3>4. Shape(host')
      BY <2>10, <3>1, <3>3, ShapeEntered
    <3>5. Nest(host', 1, 0)
      BY <1>4, <2>11, <3>1, <3>4, NestDebugger
    <3>6. StepOK(d(1), 1, 0, Frames', code')
      BY <1>4 DEF StepOK
    <3>7. Steps(host', 1, 0, Frames', code')
      BY <1>4, <2>12, <3>1, <3>2, <3>6, StepsDebugger
    <3>8. ThreadOK'
      BY <1>1, <1>2, <2>1, <2>3, <3>1 DEF ThreadOK, Extends
    <3> QED BY <1>1, <2>1, <2>5, <2>6, <3>4, <3>5, <3>7, <3>8 DEF Debugged, Nested, Stepping
  <2>15. host' = h \/ host' = Append(h, d(1))
    <3>1. Append(<<m>>, d(1)) = <<m, d(1)>>
      BY Two
    <3> QED BY <1>2, <1>6, <1>8, <2>7, <3>1
  <2> QED BY <2>13, <2>14, <2>15
<1> QED BY <1>7, <1>8

LEMMA DebuggedInit ==
  ASSUME Init
  PROVE  Debugged
<1>1. /\ host = <<>> /\ FrameCount = 0 /\ ReturnFrame = 0 /\ status = "ready"
      /\ Frames = [i \in 0 .. MaxFrames - 1 |-> None] /\ code = [a \in Addresses |-> Free]
  BY DEF Init
<1>2. None \in CallFrame /\ 0 \in 0 .. MaxFrames
  BY Programs DEF None, CallFrame, Places
<1>3. host \in Seq(Activation)
  BY <1>1, EmptyHost
<1>4. ThreadOK
  BY <1>1, <1>2, <1>3 DEF ThreadOK
<1>5. 0 .. 0 - 1 = {}
  OBVIOUS
<1>6. Loaded(FrameCount, Frames, code) /\ ProgramOnly(host, FrameCount, Frames)
  BY <1>1, <1>5 DEF Loaded, ProgramOnly
<1> QED BY <1>1, <1>4, <1>6 DEF Debugged

LEMMA DebuggedNext ==
  ASSUME CarefulUse, Debugged, NativeHasRoom, [Next]_vars
  PROVE  Debugged'
<1>1. CASE UNCHANGED vars
  BY <1>1, NothingChanges DEF vars, modules, thread
<1>2. CASE Next
  BY <1>2, RunnerMainKeeps, HitKeeps, RunInstructionKeeps, NothingToRunKeeps, ContinueKeeps,
     SelectFrameKeeps, BreakpointCommandsKeep, StepKeeps, NextInstructionKeeps,
     RunOpcodeFuncKeeps, CheckColumnKeeps, ExecuteCodeKeeps DEF Next
<1> QED BY <1>1, <1>2

\* The inductive invariant holds as long as users are careful and native functions find
\* room: debuggers and loops nest however they were opened.
THEOREM StaysDebugged ==
  ASSUME CarefulUse
  PROVE  Spec /\ []NativeHasRoom => []Debugged
<1>1. Init => Debugged
  BY DebuggedInit
<1>2. Debugged /\ NativeHasRoom /\ [Next]_vars => Debugged'
  BY DebuggedNext
<1> QED BY <1>1, <1>2, PTL DEF Spec

\* No frame executes code that was freed, although a debugger that typed code opens drops
\* the modules of all typed code, and nothing undefined is looked at.
THEOREM Loadedness ==
  ASSUME CarefulUse
  PROVE  Spec /\ []NativeHasRoom => []RunningIsLoaded
<1>1. Debugged => RunningIsLoaded
  BY DEF Debugged, RunningIsLoaded, Loaded, Inside, Text, TextIn
<1> QED BY <1>1, StaysDebugged, PTL

-----------------------------------------------------------------------------
(* Every open debugger is counted, whatever users do. *)

DebuggersOn(h) == {k \in 1 .. Len(h) : h[k].kind = "debugger"}

HasKind(a) == a = [j \in DOMAIN a |-> a[j]] /\ "kind" \in DOMAIN a

CountInv ==
  /\ HostInv /\ \A k \in 1 .. Len(host) : HasKind(host[k])
  /\ AttachedDebuggerCount = Cardinality(DebuggersOn(host))
  /\ status = "ready" => host = <<>>

LEMMA DebuggersFinite ==
  ASSUME NEW h, Len(h) \in Nat
  PROVE  IsFiniteSet(DebuggersOn(h)) /\ Cardinality(DebuggersOn(h)) \in Nat
<1>1. IsFiniteSet(1 .. Len(h)) /\ DebuggersOn(h) \subseteq 1 .. Len(h)
  BY FS_Interval DEF DebuggersOn
<1>2. IsFiniteSet(DebuggersOn(h))
  BY <1>1, FS_Subset
<1> QED BY <1>2, FS_CardinalityType

\* One activation more is one debugger more, or none.
LEMMA DebuggersEntered ==
  ASSUME NEW g, NEW h, Len(h) \in Nat, Len(g) = Len(h) + 1, \A k \in 1 .. Len(h) : g[k] = h[k]
  PROVE  /\ g[Len(g)].kind = "debugger" =>
              Cardinality(DebuggersOn(g)) = Cardinality(DebuggersOn(h)) + 1
         /\ g[Len(g)].kind # "debugger" =>
              Cardinality(DebuggersOn(g)) = Cardinality(DebuggersOn(h))
<1>1. IsFiniteSet(DebuggersOn(h)) /\ Len(g) \notin DebuggersOn(h)
  BY DebuggersFinite DEF DebuggersOn
<1>2. \A k : k \in 1 .. Len(g) <=> k \in 1 .. Len(h) \/ k = Len(g)
  OBVIOUS
<1>3. CASE g[Len(g)].kind = "debugger"
  <2>1. DebuggersOn(g) = DebuggersOn(h) \cup {Len(g)}
    BY <1>2, <1>3 DEF DebuggersOn
  <2>2. Cardinality(DebuggersOn(h) \cup {Len(g)}) = Cardinality(DebuggersOn(h)) + 1
    BY <1>1, FS_AddElement
  <2> QED BY <1>3, <2>1, <2>2
<1>4. CASE g[Len(g)].kind # "debugger"
  <2>1. DebuggersOn(g) = DebuggersOn(h)
    BY <1>2, <1>4 DEF DebuggersOn
  <2> QED BY <1>4, <2>1
<1> QED BY <1>3, <1>4

LEMMA CountEntered ==
  ASSUME NEW S, NEW h \in Seq(S), \A k \in 1 .. Len(h) : HasKind(h[k]), NEW a, HasKind(a)
  PROVE  LET g == Append(h, a)
         IN /\ \E T : g \in Seq(T)
            /\ \A k \in 1 .. Len(g) : HasKind(g[k])
            /\ a.kind = "debugger" =>
                 Cardinality(DebuggersOn(g)) = Cardinality(DebuggersOn(h)) + 1
            /\ a.kind # "debugger" =>
                 Cardinality(DebuggersOn(g)) = Cardinality(DebuggersOn(h))
<1> DEFINE g == Append(h, a)
           T == S \cup {a}
<1>1. h \in Seq(T) /\ a \in T
  OBVIOUS
<1> HIDE DEF T
<1>2. /\ g \in Seq(T) /\ Len(g) = Len(h) + 1 /\ Len(h) \in Nat
      /\ \A i \in 1 .. Len(h) : g[i] = h[i]
      /\ g[Len(h) + 1] = a
  BY <1>1, AppendShape
<1> HIDE DEF g
<1>3. \A i \in 1 .. Len(g) : i \in 1 .. Len(h) \/ i = Len(h) + 1
  BY <1>2
<1>4. \A k \in 1 .. Len(g) : HasKind(g[k])
  BY <1>2, <1>3
<1>5. g[Len(g)] = a
  BY <1>2
<1>6. /\ a.kind = "debugger" => Cardinality(DebuggersOn(g)) = Cardinality(DebuggersOn(h)) + 1
      /\ a.kind # "debugger" => Cardinality(DebuggersOn(g)) = Cardinality(DebuggersOn(h))
  BY <1>2, <1>5, DebuggersEntered
<1>7. \E U : g \in Seq(U)
  BY <1>2
<1> QED BY <1>4, <1>6, <1>7 DEF g

LEMMA CountLeft ==
  ASSUME NEW S, NEW h \in Seq(S), h # <<>>, \A k \in 1 .. Len(h) : HasKind(h[k])
  PROVE  /\ Front(h) \in Seq(S) /\ Len(h) \in Nat \ {0} /\ Last(h) = h[Len(h)] /\ HasKind(Last(h))
         /\ \A k \in 1 .. Len(Front(h)) : HasKind(Front(h)[k])
         /\ Cardinality(DebuggersOn(Front(h))) \in Int
         /\ Last(h).kind = "debugger" =>
              Cardinality(DebuggersOn(h)) = Cardinality(DebuggersOn(Front(h))) + 1
         /\ Last(h).kind # "debugger" =>
              Cardinality(DebuggersOn(h)) = Cardinality(DebuggersOn(Front(h)))
<1> DEFINE f == Front(h)
<1>1. /\ f \in Seq(S) /\ Len(f) = Len(h) - 1 /\ \A i \in 1 .. Len(h) - 1 : f[i] = h[i]
      /\ Len(h) \in Nat \ {0} /\ Last(h) = h[Len(h)]
  BY FrontLast
<1> HIDE DEF f
<1>2. Len(f) \in Nat /\ Len(h) = Len(f) + 1 /\ \A i \in 1 .. Len(f) : h[i] = f[i]
  BY <1>1
<1>3. \A k \in 1 .. Len(f) : HasKind(f[k])
  <2>1. \A k \in 1 .. Len(f) : k \in 1 .. Len(h)
    BY <1>1
  <2> QED BY <1>2, <2>1
<1>4. HasKind(Last(h))
  <2>1. Len(h) \in 1 .. Len(h)
    BY <1>1
  <2> QED BY <1>1, <2>1
<1>5. /\ h[Len(h)].kind = "debugger" => Cardinality(DebuggersOn(h)) = Cardinality(DebuggersOn(f)) + 1
      /\ h[Len(h)].kind # "debugger" => Cardinality(DebuggersOn(h)) = Cardinality(DebuggersOn(f))
  BY <1>2, DebuggersEntered
<1>6. Cardinality(DebuggersOn(f)) \in Int
  BY <1>2, DebuggersFinite
<1> QED BY <1>1, <1>3, <1>4, <1>5, <1>6 DEF f

\* The top activation is replaced by one of its kind.
LEMMA CountSame ==
  ASSUME CountInv, host # <<>>, NEW x, HasKind(x), x.kind = Top.kind
  PROVE  /\ \E T : WithTop(x) \in Seq(T)
         /\ \A k \in 1 .. Len(WithTop(x)) : HasKind(WithTop(x)[k])
         /\ AttachedDebuggerCount = Cardinality(DebuggersOn(WithTop(x)))
         /\ AttachedDebuggerCount \in Int
<1>1. PICK S : host \in Seq(S)
  BY DEF CountInv, HostInv
<1> DEFINE f == Front(host)
<1>2. /\ f \in Seq(S) /\ \A k \in 1 .. Len(f) : HasKind(f[k])
      /\ Cardinality(DebuggersOn(f)) \in Int
      /\ Top.kind = "debugger" =>
           Cardinality(DebuggersOn(host)) = Cardinality(DebuggersOn(f)) + 1
      /\ Top.kind # "debugger" =>
           Cardinality(DebuggersOn(host)) = Cardinality(DebuggersOn(f))
  BY <1>1, CountLeft DEF CountInv, Top
<1> HIDE DEF f
<1> DEFINE g == Append(f, x)
<1>3. /\ \E T : g \in Seq(T)
      /\ \A k \in 1 .. Len(g) : HasKind(g[k])
      /\ x.kind = "debugger" => Cardinality(DebuggersOn(g)) = Cardinality(DebuggersOn(f)) + 1
      /\ x.kind # "debugger" => Cardinality(DebuggersOn(g)) = Cardinality(DebuggersOn(f))
  BY <1>2, CountEntered
<1> HIDE DEF g
<1>4. Cardinality(DebuggersOn(g)) = Cardinality(DebuggersOn(host)) /\ Cardinality(DebuggersOn(host)) \in Int
  BY <1>2, <1>3
<1>5. WithTop(x) = g
  BY DEF WithTop, g, f
<1> QED BY <1>3, <1>4, <1>5 DEF CountInv

LEMMA Opening ==
  /\ \A kind, n : HasKind(NewLoop(kind, n)) /\ NewLoop(kind, n).kind = kind
  /\ \A n : HasKind(NewDebugger(n)) /\ NewDebugger(n).kind = "debugger"
<1>1. \A kind, n : HasKind(NewLoop(kind, n)) /\ NewLoop(kind, n).kind = kind
  BY DEF HasKind, NewLoop
<1>2. \A n : HasKind(NewDebugger(n)) /\ NewDebugger(n).kind = "debugger"
  BY DEF HasKind, NewDebugger
<1> QED BY <1>1, <1>2

LEMMA TopHasKind ==
  ASSUME CountInv, host # <<>>
  PROVE  HasKind(Top)
<1>1. PICK S : host \in Seq(S)
  BY DEF CountInv, HostInv
<1> QED BY <1>1, CountLeft DEF CountInv, Top

\* The states of one activation.
LEMMA OtherState ==
  ASSUME NEW a, HasKind(a), NEW v
  PROVE  /\ HasKind([a EXCEPT !.resumed = v]) /\ [a EXCEPT !.resumed = v].kind = a.kind
         /\ HasKind([a EXCEPT !.step = v]) /\ [a EXCEPT !.step = v].kind = a.kind
         /\ HasKind([a EXCEPT !.DebugFrame = v]) /\ [a EXCEPT !.DebugFrame = v].kind = a.kind
BY DEF HasKind

LEMMA CountTop ==
  ASSUME CountInv, host # <<>>, NEW x, HasKind(x), x.kind = Top.kind, host' = WithTop(x),
         AttachedDebuggerCount' = AttachedDebuggerCount, status' # "ready"
  PROVE  CountInv'
BY CountSame DEF CountInv, HostInv

LEMMA CountTopOpens ==
  ASSUME CountInv, host # <<>>, NEW x, HasKind(x), x.kind = Top.kind, NEW y, HasKind(y),
         host' = Append(WithTop(x), y), status' # "ready",
         AttachedDebuggerCount' =
           IF y.kind = "debugger" THEN AttachedDebuggerCount + 1 ELSE AttachedDebuggerCount
  PROVE  CountInv'
<1> DEFINE h == WithTop(x)
<1>1. /\ \E T : h \in Seq(T)
      /\ \A k \in 1 .. Len(h) : HasKind(h[k])
      /\ AttachedDebuggerCount = Cardinality(DebuggersOn(h))
      /\ AttachedDebuggerCount \in Int
  BY CountSame
<1>2. host' = Append(h, y)
  OBVIOUS
<1> HIDE DEF h
<1>3. PICK T : h \in Seq(T)
  BY <1>1
<1> QED BY <1>1, <1>2, <1>3, CountEntered DEF CountInv, HostInv

LEMMA CountOpens ==
  ASSUME CountInv, NEW y, HasKind(y), host' = Append(host, y), status' # "ready",
         AttachedDebuggerCount' =
           IF y.kind = "debugger" THEN AttachedDebuggerCount + 1 ELSE AttachedDebuggerCount
  PROVE  CountInv'
<1>1. PICK T : host \in Seq(T)
  BY DEF CountInv, HostInv
<1> QED BY <1>1, CountEntered DEF CountInv, HostInv

LEMMA CountCloses ==
  ASSUME CountInv, host # <<>>, host' = Front(host), status' # "ready",
         AttachedDebuggerCount' =
           IF Top.kind = "debugger" THEN AttachedDebuggerCount - 1 ELSE AttachedDebuggerCount
  PROVE  CountInv'
<1>1. PICK T : host \in Seq(T)
  BY DEF CountInv, HostInv
<1>2. /\ Front(host) \in Seq(T)
      /\ \A k \in 1 .. Len(Front(host)) : HasKind(Front(host)[k])
      /\ Cardinality(DebuggersOn(Front(host))) \in Int
      /\ Top.kind = "debugger" =>
           Cardinality(DebuggersOn(host)) = Cardinality(DebuggersOn(Front(host))) + 1
      /\ Top.kind # "debugger" =>
           Cardinality(DebuggersOn(host)) = Cardinality(DebuggersOn(Front(host)))
  BY <1>1, CountLeft DEF CountInv, Top
<1>3. AttachedDebuggerCount' = Cardinality(DebuggersOn(Front(host)))
  BY <1>2 DEF CountInv
<1> QED BY <1>2, <1>3 DEF CountInv, HostInv

LEMMA CountExecute ==
  ASSUME CountInv, host # <<>>, status = "running", NEW x, HasKind(x), x.kind = Top.kind,
         NEW i, Execute(i, WithTop(x))
  PROVE  CountInv'
<1>1. status' # "ready" /\ AttachedDebuggerCount' = AttachedDebuggerCount
  BY DEF Execute, Op, Call, CallNative
<1>2. host' = WithTop(x) \/ host' = Append(WithTop(x), NewLoop("native", FrameCount))
  BY DEF Execute, Op, Call, CallNative
<1>3. HasKind(NewLoop("native", FrameCount)) /\ NewLoop("native", FrameCount).kind # "debugger"
  BY Opening
<1> QED BY <1>1, <1>2, <1>3, CountTop, CountTopOpens

LEMMA CountNext ==
  ASSUME CountInv, [Next]_vars
  PROVE  CountInv'
<1>1. ASSUME UNCHANGED <<host, AttachedDebuggerCount>>, status' = status \/ status' # "ready"
      PROVE  CountInv'
  BY <1>1 DEF CountInv, HostInv
<1>2. ASSUME NEW start \in Starts, RunnerMain(start) PROVE CountInv'
  <2>1. /\ status' # "ready" /\ host = <<>> /\ host \in Seq({})
        /\ AttachedDebuggerCount' = IF start = "program" THEN 0 ELSE 1
        /\ host' = CASE start = "program"  -> <<NewLoop("main", 1)>>
                     [] start = "debugged" -> <<NewLoop("main", 1), NewDebugger(1)>>
                     [] start = "debugger" -> <<NewDebugger(0)>>
    BY <1>2 DEF RunnerMain, CountInv
  <2>2. start \in {"program", "debugged", "debugger"}
    BY BoundsAssumption
  <2>3. Cardinality(DebuggersOn(<<>>)) = 0
    <3>1. DebuggersOn(<<>>) = {}
      BY DEF DebuggersOn
    <3> QED BY <3>1, FS_EmptySet
  <2> DEFINE m == NewLoop("main", 1)
             d == NewDebugger(1)
             e == NewDebugger(0)
             none == <<>>
  <2>4. HasKind(m) /\ HasKind(d) /\ HasKind(e) /\ m.kind = "main" /\ d.kind = "debugger" /\ e.kind = "debugger"
    BY Opening
  <2> HIDE DEF m, d, e
  <2>5. <<m>> = Append(none, m) /\ <<e>> = Append(none, e) /\ <<m, d>> = Append(Append(none, m), d)
    BY Two
  <2>6. none \in Seq({}) /\ \A k \in 1 .. Len(none) : HasKind(none[k])
    OBVIOUS
  <2> HIDE DEF none
  <2>7. /\ \E T : Append(none, m) \in Seq(T)
        /\ \A k \in 1 .. Len(Append(none, m)) : HasKind(Append(none, m)[k])
        /\ Cardinality(DebuggersOn(Append(none, m))) = 0
    BY <2>3, <2>4, <2>6, CountEntered DEF none
  <2>8. /\ \E T : Append(none, e) \in Seq(T)
        /\ \A k \in 1 .. Len(Append(none, e)) : HasKind(Append(none, e)[k])
        /\ Cardinality(DebuggersOn(Append(none, e))) = 1
    <3>1. Cardinality(DebuggersOn(none)) + 1 = 1
      BY <2>3 DEF none
    <3> QED BY <2>4, <2>6, <3>1, CountEntered
  <2> DEFINE h == Append(none, m)
  <2> HIDE DEF h
  <2>9. /\ \E T : Append(h, d) \in Seq(T)
        /\ \A k \in 1 .. Len(Append(h, d)) : HasKind(Append(h, d)[k])
        /\ Cardinality(DebuggersOn(Append(h, d))) = 1
    <3>1. PICK T : h \in Seq(T)
      BY <2>7 DEF h
    <3>2. (\A k \in 1 .. Len(h) : HasKind(h[k])) /\ Cardinality(DebuggersOn(h)) = 0
      BY <2>7 DEF h
    <3> QED BY <2>4, <3>1, <3>2, CountEntered
  <2>10. CASE start = "program"
    <3>1. host' = Append(none, m) /\ AttachedDebuggerCount' = 0
      BY <2>1, <2>5, <2>10 DEF m
    <3> QED BY <2>1, <2>7, <3>1 DEF CountInv, HostInv
  <2>11. CASE start = "debugged"
    <3>1. host' = Append(h, d) /\ AttachedDebuggerCount' = 1
      BY <2>1, <2>5, <2>11 DEF m, d, h
    <3> QED BY <2>1, <2>9, <3>1 DEF CountInv, HostInv
  <2>12. CASE start = "debugger"
    <3>1. host' = Append(none, e) /\ AttachedDebuggerCount' = 1
      BY <2>1, <2>5, <2>12 DEF e
    <3> QED BY <2>1, <2>8, <3>1 DEF CountInv, HostInv
  <2> QED BY <2>2, <2>10, <2>11, <2>12
<1>3. ASSUME Undefined PROVE CountInv'
  BY <1>1, <1>3 DEF Undefined
<1>4. ASSUME NEW count, host # <<>>, Top.kind # "debugger", status = "running", LeaveLoop(count)
      PROVE  CountInv'
  BY <1>4, CountCloses DEF LeaveLoop
<1>5. CASE Hit
  <2> DEFINE x == [Top EXCEPT !.resumed = TRUE]
  <2>1. /\ host # <<>> /\ status = "running" /\ status' = status
        /\ AttachedDebuggerCount' = AttachedDebuggerCount + 1
        /\ host' = Append(WithTop(x), NewDebugger(FrameCount))
    BY <1>5 DEF Hit, Looping
  <2>2. HasKind(x) /\ x.kind = Top.kind
    BY <2>1, TopHasKind, OtherState
  <2> HIDE DEF x
  <2>3. HasKind(NewDebugger(FrameCount)) /\ NewDebugger(FrameCount).kind = "debugger"
    BY Opening
  <2> QED BY <2>1, <2>2, <2>3, CountTopOpens
<1>6. CASE RunInstruction
  <2> DEFINE x == [Top EXCEPT !.resumed = FALSE]
             i == FrameCount - 1
  <2>1. host # <<>> /\ status = "running" /\ Top.kind # "debugger"
    BY <1>6 DEF RunInstruction, Looping
  <2>2. HasKind(x) /\ x.kind = Top.kind
    BY <2>1, TopHasKind, OtherState
  <2>3. \/ Undefined \/ Execute(i, WithTop(x)) \/ LeaveLoop(i)
        \/ host' = WithTop(x) /\ UNCHANGED <<AttachedDebuggerCount, status>>
    BY <1>6 DEF RunInstruction
  <2> HIDE DEF x
  <2> QED BY <2>1, <2>2, <2>3, <1>3, <1>4, CountExecute, CountTop
<1>7. CASE NothingToRun
  BY <1>4, <1>7 DEF NothingToRun, Looping
<1>8. CASE Continue
  <2>1. /\ host # <<>> /\ Top.kind = "debugger" /\ status' # "ready" /\ host' = Front(host)
        /\ AttachedDebuggerCount' = AttachedDebuggerCount - 1
    BY <1>8 DEF Continue, Command, InDebugger
  <2> QED BY <2>1, CountCloses
<1>9. CASE SelectFrame \/ Step \/ NextInstruction
  <2>1. host # <<>> /\ status = "running" /\ UNCHANGED <<AttachedDebuggerCount, status>>
    BY <1>9 DEF SelectFrame, Step, NextInstruction, CanStep, Command, InDebugger
  <2>2. HasKind(Top)
    BY <2>1, TopHasKind
  <2>3. CASE SelectFrame
    <3>1. PICK j \in 0 .. FrameCount - 1 : host' = WithTop([Top EXCEPT !.DebugFrame = j])
      BY <2>3 DEF SelectFrame
    <3>2. HasKind([Top EXCEPT !.DebugFrame = j]) /\ [Top EXCEPT !.DebugFrame = j].kind = Top.kind
      BY <2>2, OtherState
    <3> QED BY <2>1, <3>1, <3>2, CountTop
  <2>4. CASE Step
    <3>1. host' = WithTop([Top EXCEPT !.step = "run", !.column = ColumnAt(Frame)])
      BY <2>4 DEF Step
    <3> DEFINE x == [Top EXCEPT !.step = "run", !.column = ColumnAt(Frame)]
    <3>2. HasKind(x) /\ x.kind = Top.kind
      BY <2>2 DEF HasKind
    <3> HIDE DEF x
    <3> QED BY <2>1, <3>1, <3>2, CountTop DEF x
  <2>5. CASE NextInstruction
    <3>1. host' = WithTop([Top EXCEPT !.step = "run", !.column = NoColumn])
      BY <2>5 DEF NextInstruction
    <3>2. /\ HasKind([Top EXCEPT !.step = "run", !.column = NoColumn])
          /\ [Top EXCEPT !.step = "run", !.column = NoColumn].kind = Top.kind
      BY <2>2 DEF HasKind
    <3> QED BY <2>1, <3>1, <3>2, CountTop
  <2> QED BY <1>9, <2>3, <2>4, <2>5
<1>10. CASE SetBreakpoint \/ SetTempBreakpoint \/ SwitchBreakpoint \/ DropBreakpoint \/ ClearBreakpoints
  <2>1. UNCHANGED <<host, AttachedDebuggerCount>> /\ (status' = status \/ status' # "ready")
    BY <1>10 DEF SetBreakpoint, SetTempBreakpoint, SwitchBreakpoint, DropBreakpoint,
                 ClearBreakpoints, Undefined
  <2> QED BY <1>1, <2>1
<1>11. CASE RunOpcodeFunc
  <2> DEFINE x == [Top EXCEPT !.step = "check"]
  <2>1. host # <<>> /\ status = "running"
    BY <1>11 DEF RunOpcodeFunc, InDebugger
  <2>2. HasKind(x) /\ x.kind = Top.kind
    BY <2>1, TopHasKind, OtherState
  <2>3. \/ Undefined \/ Execute(Frame, WithTop(x))
        \/ host' = WithTop(x) /\ UNCHANGED <<AttachedDebuggerCount, status>>
    BY <1>11 DEF RunOpcodeFunc
  <2> HIDE DEF x
  <2> QED BY <2>1, <2>2, <2>3, <1>3, CountExecute, CountTop
<1>12. CASE CheckColumn
  <2> DEFINE x == [Top EXCEPT !.step = "run"]
             u == IF FrameCount > 0 THEN FrameCount - 1 ELSE Top.DebugFrame
             y == [Top EXCEPT !.step = "no", !.column = NoColumn, !.DebugFrame = u]
  <2>1. host # <<>> /\ status = "running"
    BY <1>12 DEF CheckColumn, InDebugger
  <2>2. HasKind(x) /\ x.kind = Top.kind /\ HasKind(y) /\ y.kind = Top.kind
    <3>1. HasKind(Top)
      BY <2>1, TopHasKind
    <3> HIDE DEF u
    <3>2. HasKind(x) /\ x.kind = Top.kind
      BY <3>1 DEF HasKind
    <3>3. HasKind(y) /\ y.kind = Top.kind
      BY <3>1 DEF HasKind
    <3> QED BY <3>2, <3>3
  <2>3. \/ Undefined
        \/ (host' = WithTop(x) \/ host' = WithTop(y)) /\ UNCHANGED <<AttachedDebuggerCount, status>>
    BY <1>12 DEF CheckColumn
  <2> HIDE DEF x, y
  <2> QED BY <2>1, <2>2, <2>3, <1>3, CountTop
<1>13. CASE ExecuteCode
  <2>1. /\ status' # "ready" /\ AttachedDebuggerCount' = AttachedDebuggerCount
        /\ host' = Append(host, NewLoop("typed", FrameCount))
    BY <1>13 DEF ExecuteCode, CanExecute, Command, InDebugger
  <2>2. HasKind(NewLoop("typed", FrameCount)) /\ NewLoop("typed", FrameCount).kind # "debugger"
    BY Opening
  <2> QED BY <2>1, <2>2, CountOpens
<1>14. CASE UNCHANGED vars
  BY <1>1, <1>14 DEF vars
<1> QED
  BY <1>2, <1>5, <1>6, <1>7, <1>8, <1>9, <1>10, <1>11, <1>12, <1>13, <1>14 DEF Next

\* Every debugger that is open, and no other, is counted, whatever users do: Exit, which
\* the destructor calls again, uncounts a debugger once.
THEOREM Counting == Spec => []DebuggersCounted
<1>1. Init => CountInv
  <2> SUFFICES ASSUME Init PROVE CountInv
    OBVIOUS
  <2>1. host = <<>> /\ AttachedDebuggerCount = 0 /\ HostInv
    BY HostInit DEF Init
  <2>2. DebuggersOn(<<>>) = {} /\ \A k \in 1 .. Len(<<>>) : HasKind(<<>>[k])
    BY DEF DebuggersOn
  <2> QED BY <2>1, <2>2, FS_EmptySet DEF CountInv
<1>2. CountInv /\ [Next]_vars => CountInv'
  BY CountNext
<1>3. CountInv => DebuggersCounted
  <2> SUFFICES ASSUME CountInv PROVE DebuggersCounted
    OBVIOUS
  <2>1. DOMAIN host = 1 .. Len(host)
    BY DEF CountInv, HostInv
  <2>2. DebuggersOn(host) = {k \in DOMAIN host : host[k].kind = "debugger"}
    BY <2>1 DEF DebuggersOn
  <2> QED BY <2>2 DEF CountInv, DebuggersCounted
<1> QED BY <1>1, <1>2, <1>3, PTL DEF Spec

=============================================================================

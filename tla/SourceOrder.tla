----------------------------- MODULE SourceOrder -----------------------------
(***************************************************************************)
(* The order in which the text of a script says its parts are evaluated:   *)
(* the reference that compiled code is checked against.                    *)
(***************************************************************************)
EXTENDS CompiledCode

Stands(p) == p \in DOMAIN tree

\* The innermost statement of these kinds around p, in p's own function.
Around(p, kinds) ==
  LET outer == {SubSeq(p, 1, i) : i \in 1 .. Len(p) - 1}
  IN  CHOOSE a \in outer :
        /\ tree[a] \in kinds
        /\ \A b \in outer : tree[b] \in kinds => Len(b) <= Len(a)

\* Begin(p): where evaluation begins when control comes to p.
\* End(p): where it goes on when p has been evaluated.
RECURSIVE Begins(_), Ends(_)

Begins(p) ==
  CASE tree[p] \in Lists -> IF Stands(Part(p, 1)) THEN Begins(Part(p, 1)) ELSE Ends(p)
    [] tree[p] \in {"If", "While", "ForEach", "Repeat", "RepeatVar", "With", "Switch"} ->
         {Part(p, Condition)}
    [] tree[p] = "DoWhile" -> Begins(Part(p, Body))
    [] tree[p] = "For" /\ Stands(Part(p, Condition)) -> {Part(p, Condition)}
    [] tree[p] = "For" /\ ~Stands(Part(p, Condition)) -> Begins(Part(p, Body))
    [] tree[p] = "ForVar" -> {Part(p, Initializer)}
    [] tree[p] \in Labels \cup {"Breakpoint"} -> Ends(p)
    [] OTHER -> {p}

Ends(p) ==
  LET a == Front(p)
      part == Last(p)
      condition == Part(a, Condition)
      again == Part(a, Again)
      test == IF Stands(condition) THEN {condition} ELSE Begins(Part(a, Body))
  IN  CASE Len(p) = 1 -> {Part(p, 0)}
        [] tree[a] \in Lists -> IF Stands(Part(a, part + 1)) THEN Begins(Part(a, part + 1))
                                ELSE Ends(a)
        [] tree[a] = "Class" -> IF Stands(Part(a, part + 1)) THEN {Part(a, part + 1)} ELSE Ends(a)
        [] tree[a] = "If" /\ part = Condition ->
             Begins(Part(a, Body)) \cup IF Stands(Part(a, Else)) THEN Begins(Part(a, Else)) ELSE Ends(a)
        [] tree[a] \in {"While", "DoWhile", "For", "ForVar", "With"} /\ part = Condition ->
             Begins(Part(a, Body)) \cup Ends(a)
        [] tree[a] \in {"While", "DoWhile"} /\ part = Body -> {condition}
        [] tree[a] \in {"For", "ForVar"} /\ part = Body -> IF Stands(again) THEN {again} ELSE test
        [] tree[a] \in {"For", "ForVar"} /\ part \in {Initializer, Again} -> test
        [] tree[a] \in {"ForEach", "Repeat", "RepeatVar"} /\ part = Condition -> {again}
        [] tree[a] \in {"ForEach", "Repeat", "RepeatVar", "With"} /\ part = Body -> {again}
        [] tree[a] \in {"ForEach", "Repeat", "RepeatVar", "With"} /\ part = Again ->
             Begins(Part(a, Body)) \cup Ends(a)
        [] OTHER -> Ends(a)    \* the parts of an if, and the body of a switch

\* The labels of a switch are tested in their order; the default is where to go
\* when none matches, wherever it stands.
TestsAfter(a, n) ==
  LET label(kind) == {Last(q) : q \in {q \in DOMAIN tree : tree[q] = kind /\ Front(q) = Part(a, Body)}}
      rest == {i \in label("Case") : i > n}
  IN  IF rest # {} THEN {Append(Part(a, Body), CHOOSE i \in rest : \A j \in rest : i <= j)}
      ELSE IF label("Default") # {} THEN Ends(Append(Part(a, Body), CHOOSE i \in label("Default") : TRUE))
      ELSE Ends(a)

Following(p) ==
  CASE Len(p) = 1 -> Begins(p)
    [] tree[p] \in {"Return", "End"} -> {}
    [] tree[p] = "Break" -> Ends(Around(p, Loops \cup {"Switch"}))
    [] tree[p] = "Continue" -> Ends(Part(Around(p, Loops), Body))
    [] tree[p] = "Case" -> Ends(p) \cup TestsAfter(Front(Front(p)), Last(p))
    [] tree[p] = "Class" -> IF Stands(Part(p, 1)) THEN {Part(p, 1)} ELSE Ends(p)
    [] tree[Front(p)] = "Switch" /\ Last(p) = Condition -> TestsAfter(Front(p), 0)
    [] OTHER -> Ends(p)

\* Compiled code evaluates the parts of the script in an order the script allows:
\* a break leaves the innermost loop or switch, a continue goes on with the
\* innermost loop, every label and branch leads where it says.
EvaluatesInOrder ==
  [][Running /\ frame'.fn # 0 /\ place' # place => place' \in Following(place)]_vars
=============================================================================

----------------------------- MODULE MCEvaluation -----------------------------
(* Evaluation with trees of a few kinds: constants, locations, branches, calls. *)
EXTENDS Evaluation

CONSTANT Usage   \* the expressions of Excluded that are tried too

(* Memory: this and the global o are instances of C, whose parents are S and R; *)
(* a is an array.                                                               *)
MCInitialStrings == Intern(NoStrings, <<"a">>).pool
A == Object("string", 1)
Function == Object("native function", 4)
MCMemory ==
  [slots |-> (0 :> Object("instance", 1)) @@ (1 :> Integer(2)) @@ (2 :> A)
             @@ (3 :> Object("array", 5)),
   globals |-> "g" :> Integer(-1) @@ "o" :> Object("instance", 6) @@ "f" :> Function
               @@ "C" :> Object("class", 2),
   constants |-> "K" :> Integer(3),
   objects |-> <<
     [class |-> 2, fields |-> "p" :> Integer(1) @@ "self" :> Object("instance", 6)],
     [parent |-> 3, fields |-> "n" :> Integer(1), methods |-> "m" :> Function],
     [parent |-> 8, fields |-> "p" :> Integer(0), methods |-> "m" :> Function @@ "k" :> Function],
     [kind |-> "function"],
     [values |-> <<Integer(0), A>>],
     [class |-> 2, fields |-> "p" :> Integer(1) @@ "self" :> Object("instance", 1)],
     [parent |-> 0, fields |-> <<>>, methods |-> <<>>],
     [parent |-> 0, fields |-> "p" :> Integer(3) @@ "r" :> Integer(3), methods |-> "k" :> Function] >>]
MCSlot == "this" :> 0 @@ "x" :> 1 @@ "s" :> 2 @@ "a" :> 3
MCBuiltinClass == "array" :> 7 @@ "string" :> 7 @@ "native function" :> 7
MCScopeConstants == "H" :> Decimal(1)
MCLibraryConstants == "K" :> Integer(3)
MCLocals == << [name |-> "x", flags |-> 1, index |-> 1, position |-> 5] >>
MCOtherFunction ==
  [NewFunction EXCEPT !.name = "other", !.arity = 2, !.minArity = 1, !.opcodes = 1,
                      !.code = << [op |-> "CONSTANT", arg |-> 1] >>, !.lines = <<9>>,
                      !.constants = <<A, Hitbox(<<1, 2, 3, 4>>), A>>]
MCTokens == <<"x", "other">>

String1(raw) == [t |-> "string", raw |-> raw, chars |-> raw]
MCLiteral ==
  "0" :> [t |-> "integer", v |-> Integer(0)] @@ "1" :> [t |-> "integer", v |-> Integer(1)] @@
  "2" :> [t |-> "integer", v |-> Integer(2)] @@ "3" :> [t |-> "integer", v |-> Integer(3)] @@
  "0.5" :> [t |-> "decimal", v |-> Decimal(1)] @@ "null" :> [t |-> "null"] @@
  "'a'" :> String1(<<"a">>) @@ "'b'" :> String1(<<"b">>) @@ "''" :> String1(<<>>) @@
  "'\\n'" :> [t |-> "string", raw |-> <<"\\", "n">>, chars |-> <<"newline">>]

-------------------------------------------------------------------------------
L(n) == Tree("literal", n, <<>>)
N(n) == Tree("name", n, <<>>)
B(op, l, r) == Tree("binary", op, <<l, r>>)
U(op, t) == Tree("unary", op, <<t>>)
Dot(t, n) == Tree("dot", n, <<t>>)
At(t, i) == Tree("element", "", <<t, i>>)
Super(n) == Tree("super", n, <<>>)
Assign(op, t, v) == Tree("assign", op, <<t, v>>)
Logical(op, l, r) == Tree("logical", op, <<l, r>>)
If(c, t, e) == Tree("conditional", "", <<c, t, e>>)
Call(f, args) == Tree("call", "", <<f>> \o args)
Call1(f, arg) == Call(f, <<arg>>)
Invokes(t, n, args) == Tree("invoke", n, <<t>> \o args)
One == L("1")
Ops == DOMAIN BinaryOpcode
Unary == {"-", "~", "!", "typeof"}

\* Operators on constants, and on one variable.
Scalars == {L("0"), One, L("2"), L("0.5"), L("null"), L("'a'"), L("'b'"), N("H"), N("K"), N("x"),
            N("s")}
Simple == {B(op, l, r) : op \in Ops, l \in Scalars, r \in Scalars}
          \cup {U(op, l) : op \in Unary, l \in Scalars \ {L("0.5"), N("H")}}
\* Two operators, one in the other.
Nested ==
  LET Few == {"+", "*", "<<", "<", "==", "&", "|"}
      In == {B(op, l, N("x")) : op \in Few, l \in {L("2"), L("'b'")}}
            \cup {B(op, One, L("2")) : op \in Few} \cup {B("+", L("'a'"), L("'b'"))}
            \cup {U("-", One), U("!", N("s")), U("-", N("x"))}
  IN {B(op, t, l) : op \in Few, t \in In, l \in {One, L("'b'"), N("x")}}
     \cup {B(op, l, t) : op \in Few, t \in In, l \in {L("3"), L("'a'")}}
     \cup {U(op, t) : op \in Unary, t \in In}

Self == Dot(N("this"), "self")
Places == {N("x"), N("g"), Dot(N("o"), "p"), Dot(Self, "p"), Super("p"), At(N("a"), L("0")),
           Dot(At(Tree("array", "", <<N("o")>>), L("0")), "p"), Dot(Super("p"), "p"),
           Dot(Call1(N("f"), N("o")), "p"), At(N("a"), N("x")), N("H"), N("K"), One,
           Dot(Dot(Dot(N("o"), "self"), "self"), "p"), At(Dot(N("o"), "p"), One)}
\* What is read, stored, stepped or changed in place.
Stores ==
  LET Values1 == {One, N("x"), L("'a'"), Dot(N("o"), "p"), Assign("=", N("x"), L("3")),
                  Super("p")}
      Steps == {Tree(k, op, <<t>>) : k \in {"before", "after"}, op \in {"++", "--"}, t \in Places}
  IN Places \cup Steps
     \cup {Assign(op, t, v) : op \in {"=", "+=", "<<="}, t \in Places, v \in Values1}
     \cup {B("+", l, r) : l \in Places, r \in {N("x"), Dot(Self, "p"), Super("p")}}
     \cup {B("+", N("x"), t) : t \in Steps} \cup {B("-", t, N("x")) : t \in Steps}
     \cup {Assign("=", B("+", N("x"), One), One), Assign("=", U("-", N("x")), One)}

\* Branches, and what is done in them.
Branches ==
  LET Leaf == {L("0"), L("null"), N("x"), Assign("=", N("x"), L("0")), Dot(N("o"), "p")}
      Two == {Logical(op, l, r) : op \in {"&&", "||"}, l \in Leaf, r \in Leaf}
  IN Two \cup {Logical(op, t, N("x")) : op \in {"&&", "||"}, t \in Two}
     \cup {Logical(op, One, t) : op \in {"&&", "||"}, t \in Two}
     \cup {If(c, t, e) : c \in Leaf, t \in Leaf, e \in {N("s"), If(N("x"), L("0"), One)}}
     \cup {If(Logical("||", L("0"), c), If(c, One, t), N("x")) : c \in Leaf, t \in Leaf}
     \cup {B("+", If(c, One, L("2")), If(L("0"), c, N("x"))) : c \in Leaf}

Calls ==
  LET Args == {<<>>, <<One>>, <<N("x"), Tree("after", "++", <<N("x")>>)>>}
      Things == {N("o"), N("C"), N("s"), N("a"), N("this"), N("f"), One, Tree("new", "C", <<>>)}
      Sides(s) == Tree("hitbox", "", s)
      Four == <<L("0"), One, L("2"), N("K")>>
  IN {Call(t, args) : t \in {N("f"), N("x"), Dot(N("C"), "m")}, args \in Args}
     \cup {Invokes(t, n, args) : t \in Things, n \in {"m", "k", "p"}, args \in Args}
     \cup {Tree("superinvoke", n, args) : n \in {"m", "k", "p"}, args \in Args}
     \cup {Tree("new", c, args) : c \in {"C", "f", "D"}, args \in Args}
     \cup {Tree("has", n, <<t>>) : n \in {"p", "m", "k", "n"}, t \in Things}
     \cup {Dot(t, n) : n \in {"p", "m", "k", "n", "r"}, t \in Things}
     \cup {U("typeof", t) : t \in Things \ {Tree("new", "C", <<>>)}}
     \cup {At(t, i) : t \in {Sides(Four), Sides([Four EXCEPT ![4] = One]),
                             Sides([Four EXCEPT ![2] = N("x")]), N("a"), N("s"),
                             Tree("array", "", <<One, L("'b'")>>), Tree("array", "", <<>>)},
                       i \in {L("0"), One, L("3"), N("s"), U("-", One)}}
     \cup {B("==", Sides([Four EXCEPT ![i] = t]), Sides([Four EXCEPT ![i] = t])) :
             i \in {1, 4}, t \in {One, N("x")}}
     \cup {Dot(Assign("=", N("x"), N("o")), "p"), Assign("+=", Dot(Tree("new", "C", <<>>), "q"), One)}

\* Expressions that do not mean what they should, each for a reason of its own: what is
\* kept out of the sets above.
Excluded(usage) ==
  CASE usage = "NotHitbox" -> U("!", Tree("hitbox", "", <<One, One, One, One>>))
    [] usage = "NotDecimal" -> U("!", L("0.5"))
    [] usage = "OperatorOnNew" -> U("typeof", Tree("new", "C", <<>>))
    [] usage = "AssigningIndex" -> At(N("a"), Assign("=", N("a"), L("0")))
    [] usage = "NoSuperMethod" -> Tree("superinvoke", "n", <<One>>)
    [] usage = "Escapes" -> B("==", L("'\\n'"), L("'\\n'"))

Source(tree, kind, optimise) ==
  [tree |-> tree, kind |-> kind, optimise |-> optimise, debug |-> TRUE, filename |-> NoName,
   breakpoints |-> <<>>]
\* Every way to write the file.
Files ==
  {[Source(t, "expression", o) EXCEPT !.debug = d, !.filename = n, !.breakpoints = b] :
     t \in {B("+", L("'b'"), N("x")), At(Tree("hitbox", "", <<One, One, One, One>>), One)},
     o \in BOOLEAN, d \in BOOLEAN, n \in {NoName, "main.hsl"}, b \in {<<>>, <<1>>}}
MCSources ==
  {Source(t, kind, o) : t \in Simple \cup Nested \cup Stores \cup Branches \cup Calls,
                        kind \in {"expression", "initialiser"}, o \in BOOLEAN}
  \cup Files
  \cup {Source(Excluded(usage), "expression", o) : usage \in Usage, o \in BOOLEAN}
===============================================================================

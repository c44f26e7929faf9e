-------------------------------- MODULE Meaning --------------------------------
(* What an expression means, for a compiler and an interpreter to agree with:   *)
(* trees, the text that is written for a tree, which trees may be written where, *)
(* and the value of a tree by evaluation from left to right.  Here a string is   *)
(* what it holds.                                                                *)
EXTENDS Interpreter, Expressions

CONSTANT Literal   \* from the names of literals to their tokens

\* A tree [k, op, kids]: the kind of its root, the operator or the name, its operands.
Tree(k, op, kids) == [k |-> k, op |-> op, kids |-> kids]
Locations == {"name", "dot", "super", "element"}
IsLocation(t) == t.k \in Locations /\ ~(t.k = "name" /\ t.op \in DOMAIN ScopeConstants)

(* The levels of C, from assignments to names.                                  *)
BinaryLevel(op) ==
  CASE op = "||" -> 3 [] op = "&&" -> 4
    [] op = "|" -> 5 [] op = "^" -> 6 [] op = "&" -> 7
    [] op \in {"==", "!="} -> 8
    [] op \in {"<", "<=", ">", ">="} -> 9
    [] op \in {"<<", ">>"} -> 10
    [] op \in {"+", "-"} -> 11
    [] OTHER -> 12
Level(t) ==
  CASE t.k = "assign" -> 1
    [] t.k = "conditional" -> 2
    [] t.k \in {"logical", "binary"} -> BinaryLevel(t.op)
    [] t.k = "has" -> 8
    [] t.k \in {"unary", "before"} -> 13
    [] t.k \in {"after", "dot", "element", "call", "invoke", "super", "superinvoke"} -> 14
    [] OTHER -> 15

T(t) == <<[t |-> t]>>
Name(n) == <<[t |-> "name", n |-> n]>>

\* The tokens of a tree, with brackets only where its level demands them.
RECURSIVE Text(_, _), List(_)
List(trees) ==
  IF trees = <<>> THEN <<>>
  ELSE FoldLeft(LAMBDA text, t : text \o T(",") \o Text(t, 1), Text(Head(trees), 1), Tail(trees))
Text(t, level) ==
  LET Kid(i, at) == Text(t.kids[i], at)
      own == Level(t)
      text ==
        CASE t.k = "literal" -> <<Literal[t.op]>>
          [] t.k = "name" -> IF t.op = "this" THEN T("this") ELSE Name(t.op)
          [] t.k = "array" -> T("[") \o List(t.kids) \o T("]")
          [] t.k = "hitbox" -> T("hitbox") \o T("{") \o List(t.kids) \o T("}")
          [] t.k = "new" -> T("new") \o Name(t.op) \o T("(") \o List(t.kids) \o T(")")
          [] t.k \in {"unary", "before"} -> T(t.op) \o Kid(1, own)
          [] t.k = "after" -> Kid(1, own) \o T(t.op)
          [] t.k = "dot" -> Kid(1, own) \o T(".") \o Name(t.op)
          [] t.k = "super" -> T("super") \o T(".") \o Name(t.op)
          [] t.k = "element" -> Kid(1, own) \o T("[") \o Kid(2, 1) \o T("]")
          [] t.k = "call" -> Kid(1, own) \o T("(") \o List(Tail(t.kids)) \o T(")")
          [] t.k = "invoke" ->
               Kid(1, own) \o T(".") \o Name(t.op) \o T("(") \o List(Tail(t.kids)) \o T(")")
          [] t.k = "superinvoke" ->
               T("super") \o T(".") \o Name(t.op) \o T("(") \o List(t.kids) \o T(")")
          [] t.k = "has" -> Kid(1, own) \o T("has") \o Name(t.op)
          [] t.k = "binary" -> Kid(1, own) \o T(t.op) \o Kid(2, own + 1)
          [] t.k = "logical" -> Kid(1, own + 1) \o T(t.op) \o Kid(2, own)
          [] t.k = "conditional" -> Kid(1, 3) \o T("?") \o Kid(2, 2) \o T(":") \o Kid(3, 2)
          [] t.k = "assign" -> Kid(1, 2) \o T(t.op) \o Kid(2, 1)
  IN IF own < level THEN T("(") \o text \o T(")") ELSE text

\* Only locations are assigned to, and nothing in an initialiser.
RECURSIVE Allowed(_, _)
Allowed(t, kind) ==
  /\ t.k \in {"assign", "before", "after"} => kind = "expression" /\ IsLocation(t.kids[1])
  /\ \A i \in DOMAIN t.kids : Allowed(t.kids[i], kind)

-------------------------------------------------------------------------------
(* Values with strings as what they hold.                                       *)

String(chars) == [type |-> "object", kind |-> "string", chars |-> chars]
ViewValue(v, strings) == IF IsString(v) THEN String(strings.chars[v.id]) ELSE v
ViewAll(values, strings) == [i \in DOMAIN values |-> ViewValue(values[i], strings)]
View(m, strings) ==
  [slots |-> ViewAll(m.slots, strings), globals |-> ViewAll(m.globals, strings),
   constants |-> ViewAll(m.constants, strings),
   objects |-> [i \in DOMAIN m.objects |->
                  LET o == m.objects[i]
                  IN [field \in DOMAIN o |-> IF field \in {"fields", "values"}
                                             THEN ViewAll(o[field], strings) ELSE o[field]]]]

Chars(v) == IF IsString(v) THEN v.chars ELSE Printed(v)
Plus(a, b) ==
  IF IsString(a) \/ IsString(b) THEN Gives(String(Chars(a) \o Chars(b)))
  ELSE BinaryResult("ADD", a, b)
Operated(op, a, b) == IF op = "ADD" THEN Plus(a, b) ELSE BinaryResult(op, a, b)

OperatorOf ==
  "+" :> "ADD" @@ "-" :> "SUBTRACT" @@ "*" :> "MULTIPLY" @@ "/" :> "DIVIDE" @@
  "%" :> "MODULO" @@ "<<" :> "BITSHIFT_LEFT" @@ ">>" :> "BITSHIFT_RIGHT" @@
  "|" :> "BW_OR" @@ "&" :> "BW_AND" @@ "^" :> "BW_XOR" @@ "==" :> "EQUAL" @@
  "!=" :> "EQUAL_NOT" @@ ">" :> "GREATER" @@ ">=" :> "GREATER_EQUAL" @@
  "<" :> "LESS" @@ "<=" :> "LESS_EQUAL" @@
  "+=" :> "ADD" @@ "-=" :> "SUBTRACT" @@ "*=" :> "MULTIPLY" @@
  "<<=" :> "BITSHIFT_LEFT" @@ "|=" :> "BW_OR" @@
  "++" :> "INCREMENT" @@ "--" :> "DECREMENT"

LiteralValue(token) ==
  CASE token.t = "null" -> Null
    [] token.t = "string" -> String(token.chars)
    [] OTHER -> token.v

-------------------------------------------------------------------------------
(* Evaluation.  A state of it is [ok, v, m]: how it stands, the last value, the  *)
(* memory; of several trees, v is the sequence of their values.                 *)

With(s, out) == [s EXCEPT !.ok = out.ok, !.v = out.v]
Created(s, kind, object) ==
  [s EXCEPT !.v = Object(kind, Len(s.m.objects) + 1), !.m.objects = Append(@, object)]

RECURSIVE Evaluate(_, _), EvaluateAll(_, _)

EvaluateAll(trees, s) ==
  FoldLeft(LAMBDA before, t :
             LET after == Evaluate(t, before)
             IN IF before.ok THEN [after EXCEPT !.v = Append(before.v, @)] ELSE before,
           [s EXCEPT !.v = <<>>], trees)

\* Where a location is: what it is in has been evaluated, and is s.v.
Place(t, s) ==
  IF t.k = "super"
  THEN [s EXCEPT !.v = <<Object("class", s.m.objects[Home].parent)>>]
  ELSE EvaluateAll(t.kids, s)
PlaceOf(t) ==
  CASE t.k = "name" /\ t.op \in DOMAIN Slot -> Location("stack", Slot[t.op])
    [] t.k = "name" /\ t.op \notin DOMAIN Slot -> Location("global", t.op)
    [] t.k \in {"dot", "super"} -> Location("property", t.op)
    [] t.k = "element" -> Location("element", 0)
Fetch(t, s) == With(s, LoadLocation(s.m, PlaceOf(t), s.v))
Store(t, s, place, v) ==
  LET out == StoreLocation(s.m, PlaceOf(t), place, v)
  IN [ok |-> out.ok, v |-> v, m |-> out.m]

Evaluate(t, s) ==
  LET all == EvaluateAll(t.kids, s)     \* of operands that are all evaluated, in order
      first == Evaluate(t.kids[1], s)
      place == Place(t.kids[1], s)
      old == Fetch(t.kids[1], place)
      right == Evaluate(t.kids[2], IF t.op = "=" THEN place ELSE old)
      new == Operated(OperatorOf[t.op], old.v, right.v)
      stepped == UnaryResult(OperatorOf[t.op], old.v)
      Then(st, next) == IF st.ok THEN next ELSE st
  IN CASE ~s.ok -> s
       [] t.k = "literal" -> [s EXCEPT !.v = LiteralValue(Literal[t.op])]
       [] t.k = "name" /\ t.op \in DOMAIN ScopeConstants -> [s EXCEPT !.v = ScopeConstants[t.op]]
       [] t.k \in Locations /\ ~(t.k = "name" /\ t.op \in DOMAIN ScopeConstants) ->
            LET at == Place(t, s) IN Then(at, Fetch(t, at))
       [] t.k = "array" -> Then(all, Created(all, "array", NewArray(all.v)))
       [] t.k = "hitbox" ->
            Then(all, IF \A i \in 1 .. 4 : all.v[i].type = "integer"
                      THEN [all EXCEPT !.v = Hitbox([i \in 1 .. 4 |-> all.v[i].n])]
                      ELSE With(all, Fails))
       [] t.k = "new" ->
            LET class == GetGlobal(s.m, t.op)
                args == EvaluateAll(t.kids, With(s, class))
            IN Then(args, IF IsObject(class.v, "class") /\ t.kids = <<>>
                          THEN Created(s, "instance", NewInstance(class.v.id))
                          ELSE With(args, Fails))
       [] t.k = "unary" ->
            Then(first, With(first,
              CASE t.op = "typeof" -> Gives(String(<<TypeName(first.v)>>))
                [] t.op = "!" -> UnaryResult("LG_NOT", first.v)
                [] t.op = "-" -> UnaryResult("NEGATE", first.v)
                [] t.op = "~" -> UnaryResult("BW_NOT", first.v)))
       [] t.k = "binary" -> Then(all, With(all, Operated(OperatorOf[t.op], all.v[1], all.v[2])))
       [] t.k = "logical" ->
            IF first.ok /\ Falsey(first.v) = (t.op = "||") THEN Evaluate(t.kids[2], first)
            ELSE first
       [] t.k = "conditional" ->
            Then(first, Evaluate(t.kids[IF Falsey(first.v) THEN 3 ELSE 2], first))
       [] t.k = "has" -> Then(first, With(first, HasProperty(first.m, first.v, t.op)))
       [] t.k = "call" -> Then(all, With(all, CallValue(all.v[1], Tail(all.v))))
       [] t.k = "invoke" -> Then(all, With(all, Invoke(all.m, all.v[1], t.op, Tail(all.v))))
       [] t.k = "superinvoke" ->
            Then(all, With(all, SuperInvoke(all.m, s.m.slots[Slot["this"]], t.op, all.v)))
       [] t.k = "assign" /\ t.op = "=" ->
            Then(place, Then(right, Store(t.kids[1], right, place.v, right.v)))
       [] t.k = "assign" /\ t.op # "=" ->
            Then(place, Then(old, Then(right,
              IF new.ok THEN Store(t.kids[1], right, place.v, new.v) ELSE With(right, Fails))))
       [] t.k \in {"before", "after"} ->
            Then(place, Then(old,
              IF ~stepped.ok THEN With(old, Fails)
              ELSE LET done == Store(t.kids[1], old, place.v, stepped.v)
                   IN IF t.k = "after" THEN [done EXCEPT !.v = old.v] ELSE done))
===============================================================================

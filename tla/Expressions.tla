------------------------------ MODULE Expressions ------------------------------
(* How the compiler turns the tokens of one expression into instructions: a     *)
(* parser by precedences whose grammar functions write code as they go.  An     *)
(* operand is left either as a value or as a location, to be loaded or stored   *)
(* later; when optimising, code of constants only is replaced as soon as it is  *)
(* written.  The parser is a function of the tokens, so it is written as        *)
(* operators on the compiler's state c; after an error (an exception in the     *)
(* code) nothing more happens.  Maps, module variables, too many arguments and  *)
(* warnings are left out; positions count instructions.                         *)
EXTENDS Values, SequencesExt

CONSTANTS
  Slot,             \* Locals: from the names of locals to their slots
  ScopeConstants,   \* Constants: from names to values
  LibraryConstants  \* StandardConstants: from names to values

\* Previous is text[pos], Current the token behind it; ctx is the context that the
\* last grammar function returned, kept the number of constants that an optimisation
\* returned.
NewCompiler(text, optimise, statics, pool) ==
  [text |-> text, pos |-> 0, code |-> <<>>, constants |-> <<>>, pool |-> pool,
   optimise |-> optimise, ShouldEmitValue |-> statics.ShouldEmitValue,
   isSuper |-> statics.isSuper, ctx |-> "value", kept |-> 0, error |-> FALSE]

Previous(c) == c.text[c.pos]
Current(c) == IF c.pos < Len(c.text) THEN c.text[c.pos + 1].t ELSE "eof"
AdvanceToken(c) == [c EXCEPT !.pos = @ + 1]
Error(c) == [c EXCEPT !.error = TRUE]
ConsumeToken(c, t) == IF Current(c) = t THEN AdvanceToken(c) ELSE Error(c)
Returns(c, ctx) == [c EXCEPT !.ctx = ctx]

\* enum Precedence.
PREC == [NONE |-> 0, ASSIGNMENT |-> 1, TERNARY |-> 2, OR |-> 3, AND |-> 4,
         BITWISE_OR |-> 5, BITWISE_XOR |-> 6, BITWISE_AND |-> 7, EQUALITY |-> 8,
         COMPARISON |-> 9, BITWISE_SHIFT |-> 10, TERM |-> 11, FACTOR |-> 12,
         UNARY |-> 13, CALL |-> 14, PRIMARY |-> 15]

BinaryOpcode ==
  "+" :> "ADD" @@ "-" :> "SUBTRACT" @@ "*" :> "MULTIPLY" @@ "/" :> "DIVIDE" @@
  "%" :> "MODULO" @@ "<<" :> "BITSHIFT_LEFT" @@ ">>" :> "BITSHIFT_RIGHT" @@
  "|" :> "BW_OR" @@ "&" :> "BW_AND" @@ "^" :> "BW_XOR" @@ "==" :> "EQUAL" @@
  "!=" :> "EQUAL_NOT" @@ ">" :> "GREATER" @@ ">=" :> "GREATER_EQUAL" @@
  "<" :> "LESS" @@ "<=" :> "LESS_EQUAL"
UnaryOpcode == "-" :> "NEGATE" @@ "~" :> "BW_NOT" @@ "!" :> "LG_NOT" @@ "typeof" :> "TYPEOF"
StepOpcode == "++" :> "INCREMENT" @@ "--" :> "DECREMENT"
CompoundOpcode == "+=" :> "ADD" @@ "-=" :> "SUBTRACT" @@ "*=" :> "MULTIPLY" @@
                  "<<=" :> "BITSHIFT_LEFT" @@ "|=" :> "BW_OR"
Assignments == {"="} \cup DOMAIN CompoundOpcode

\* The precedence of a token's rule, a prefix operator's too.
Precedence(t) ==
  CASE t \in Assignments -> PREC.ASSIGNMENT
    [] t = "?" -> PREC.TERNARY
    [] t = "||" -> PREC.OR
    [] t = "&&" -> PREC.AND
    [] t = "|" -> PREC.BITWISE_OR
    [] t = "^" -> PREC.BITWISE_XOR
    [] t = "&" -> PREC.BITWISE_AND
    [] t \in {"==", "!=", "has"} -> PREC.EQUALITY
    [] t \in {"<", "<=", ">", ">="} -> PREC.COMPARISON
    [] t \in {"<<", ">>"} -> PREC.BITWISE_SHIFT
    [] t \in {"+", "-"} -> PREC.TERM
    [] t \in {"*", "/", "%"} -> PREC.FACTOR
    [] t \in {"!", "~", "typeof", "new"} -> PREC.UNARY
    [] t \in {"(", "[", "{", ".", "++", "--"} -> PREC.CALL
    [] OTHER -> PREC.NONE

PrefixRule(t) ==
  CASE t = "(" -> "GetGrouping"
    [] t = "[" -> "GetArray"
    [] t \in DOMAIN UnaryOpcode \cup DOMAIN StepOpcode -> "GetUnary"
    [] t = "new" -> "GetNew"
    [] t = "this" -> "GetThis"
    [] t = "super" -> "GetSuper"
    [] t = "name" -> "GetVariable"
    [] t = "hitbox" -> "GetHitbox"
    [] t \in {"null", "integer", "decimal", "string"} -> "GetLiteral"
    [] OTHER -> "none"

InfixRule(t) ==
  CASE t = "(" -> "GetCall"
    [] t = "[" -> "GetElement"
    [] t = "." -> "GetDot"
    [] t \in DOMAIN BinaryOpcode -> "GetBinary"
    [] t \in Assignments \cup DOMAIN StepOpcode -> "GetAssignment"
    [] t = "?" -> "GetConditional"
    [] t = "&&" -> "GetLogicalAND"
    [] t = "||" -> "GetLogicalOR"
    [] t = "has" -> "GetHas"
    [] OTHER -> "none"

-------------------------------------------------------------------------------
(* Emitting.                                                                    *)

Emit(c, op, arg) == [c EXCEPT !.code = Append(@, [op |-> op, arg |-> arg])]
EmitByte(c, op) == Emit(c, op, 0)
EmitAll(c, ops) == FoldLeft(EmitByte, c, ops)

\* The n-th last instruction's opcode.
LastOpcode(c, n) == IF n < Len(c.code) THEN c.code[Len(c.code) - n].op ELSE "none"
SetOpcode(c, n, op) == [c EXCEPT !.code[Len(c.code) - n].op = op]

EmitJump(c, op) == EmitByte(c, op)
PatchJump(c, at) == [c EXCEPT !.code[at].arg = Len(c.code) + 1]

FindConstant(c, v) == {i \in 1 .. Len(c.constants) : ExactlyEqual(v, c.constants[i])}

EmitConstant(c, v) ==
  CASE v.type = "integer" /\ c.optimise /\ v.n \in {0, 1} ->
         EmitByte(c, IF v.n = 0 THEN "FALSE" ELSE "TRUE")
    [] v.type = "integer" -> Emit(c, "INTEGER", v)
    [] v.type = "decimal" -> Emit(c, "DECIMAL", v)
    [] v.type = "null" -> EmitByte(c, "NULL")
    [] OTHER ->
         LET found == FindConstant(c, v)
         IN IF found # {}
            THEN Emit(c, "CONSTANT", CHOOSE i \in found : \A j \in found : i <= j)
            ELSE Emit([c EXCEPT !.constants = Append(@, v)], "CONSTANT",
                      Len(c.constants) + 1)

\* Mutant of EmitCopyAndLoadIndirect: the index of an element is not kept.
EmitCopyAndLoadIndirectIndexLost(c) ==
  LET last == LastOpcode(c, 0)
      count == IF last \in {"LOCATION_PROPERTY", "LOCATION_SUPER_PROPERTY", "LOCATION_ELEMENT"}
               THEN 2 ELSE 1
  IN EmitByte(Emit(c, "COPY", count), "LOAD_INDIRECT")

\* A location that is assigned after it was read is kept with its operands.
EmitCopyAndLoadIndirect(c) ==
  LET last == LastOpcode(c, 0)
      count == CASE last \in {"LOCATION_PROPERTY", "LOCATION_SUPER_PROPERTY"} -> 2
                 [] last = "LOCATION_ELEMENT" -> 3
                 [] OTHER -> 1
  IN EmitByte(Emit(c, "COPY", count), "LOAD_INDIRECT")

IndirectLoadOpcodeToDirect(op) ==
  CASE op = "LOCATION_GLOBAL" -> "GET_GLOBAL"
    [] op = "LOCATION_STACK" -> "GET_LOCAL"
    [] op = "LOCATION_PROPERTY" -> "GET_PROPERTY"
    [] OTHER -> "NOP"

\* The last n instructions are locations of properties; the one before them decides
\* what becomes of the chain.
RECURSIVE PropertiesAtEnd(_, _)
PropertiesAtEnd(c, n) ==
  IF LastOpcode(c, n) = "LOCATION_PROPERTY" THEN PropertiesAtEnd(c, n + 1) ELSE n

MakeIndirectPropertyChainDirect(c) ==
  LET n == PropertiesAtEnd(c, 0)
      base == LastOpcode(c, n)
      last == Len(c.code)
      Direct(from) == [i \in 1 .. last |->
                         IF i > from THEN [c.code[i] EXCEPT !.op = "GET_PROPERTY"]
                         ELSE c.code[i]]
  IN CASE base = "LOCATION_SUPER_PROPERTY"
            /\ IndirectLoadOpcodeToDirect(LastOpcode(c, n + 1)) \in {"GET_GLOBAL", "GET_LOCAL"} ->
            LET whole == SetOpcode([c EXCEPT !.code = Direct(last - n - 1)], n + 1,
                                   IndirectLoadOpcodeToDirect(LastOpcode(c, n + 1)))
            IN [whole EXCEPT !.code = InsertAt(@, last - n,
                                               [op |-> "GET_SUPERCLASS", arg |-> 0])]
       [] base \in {"LOCATION_GLOBAL", "LOCATION_STACK"} ->
            SetOpcode([c EXCEPT !.code = Direct(last - n)], n,
                      IndirectLoadOpcodeToDirect(base))
       [] OTHER -> EmitByte(c, "LOAD_INDIRECT")

EmitDirectOrIndirectLoad(c) ==
  LET last == LastOpcode(c, 0)
      below == IndirectLoadOpcodeToDirect(LastOpcode(c, 1))
      direct == IndirectLoadOpcodeToDirect(last)
  IN CASE ~c.optimise -> EmitByte(c, "LOAD_INDIRECT")
       [] c.optimise /\ last = "LOCATION_PROPERTY" -> MakeIndirectPropertyChainDirect(c)
       [] c.optimise /\ last = "LOCATION_SUPER_PROPERTY" /\ below # "NOP" ->
            LET base == SetOpcode([c EXCEPT !.code = Front(@)], 0, below)
            IN Emit(EmitByte(base, "GET_SUPERCLASS"), "GET_PROPERTY", Last(c.code).arg)
       [] c.optimise /\ last \in {"LOCATION_GLOBAL", "LOCATION_STACK"} ->
            SetOpcode(c, 0, direct)
       [] OTHER -> EmitByte(c, "LOAD_INDIRECT")

ConvertToRvalue(c) ==
  IF c.ctx = "location" /\ ~c.error THEN EmitDirectOrIndirectLoad(c) ELSE c

-------------------------------------------------------------------------------
(* Replacing code of constants only.  pre and preConstant are the lengths of    *)
(* the code and of the table of constants before the expression.                *)

IsConstant(c, i) ==
  c.code[i].op \in {"CONSTANT", "FALSE", "TRUE", "NULL", "INTEGER", "DECIMAL"}
GetConstant(c, i) ==
  LET ins == c.code[i]
  IN CASE ins.op = "CONSTANT" -> c.constants[ins.arg]
       [] ins.op \in {"FALSE", "TRUE"} -> Truth(ins.op = "TRUE")
       [] ins.op = "NULL" -> Null
       [] OTHER -> ins.arg
ConstantIndex(c, i) == IF c.code[i].op = "CONSTANT" THEN c.code[i].arg ELSE 0

Keeps(c, preConstant) == [c EXCEPT !.kept = preConstant]
\* Without the code after pre and the last n constants.
Without(c, pre, n) ==
  [c EXCEPT !.code = SubSeq(@, 1, pre), !.constants = SubSeq(@, 1, Len(@) - n)]

CheckPrefixOptimize(c, pre, preConstant, rule) ==
  LET op == LastOpcode(c, 0)
      v == GetConstant(c, pre + 1)
      cut == Without(c, pre, IF ConstantIndex(c, pre + 1) > preConstant THEN 1 ELSE 0)
      Out(value) == LET done == EmitConstant(cut, value)
                    IN Keeps(done, Len(done.constants))
  IN CASE rule # "GetUnary" \/ op = "TYPEOF" \/ Len(c.code) # pre + 2
            \/ ~IsConstant(c, pre + 1) -> Keeps(c, preConstant)
       [] OTHER ->
            CASE op = "LG_NOT" ->
                   Keeps(IF v.type = "hitbox" THEN cut
                         ELSE EmitByte(cut, IF Falsey(v) THEN "TRUE" ELSE "FALSE"),
                         preConstant)
              [] op = "NEGATE" /\ IsNumber(v) -> Out(Negate(v))
              [] op = "BW_NOT" /\ IsNumber(v) -> Out(BitwiseNOT(v))
              [] OTHER -> Keeps(c, preConstant)

\* What the operator makes of two constants, or nothing.
NotFolded == [folds |-> FALSE]
Folded(pool, v) == [folds |-> TRUE, pool |-> pool, value |-> v]

FoldArithmetic(pool, op, a, b) ==
  CASE op = "ADD" /\ (IsString(a) \/ IsString(b)) ->
         LET both == ConcatenateValues(pool, a, b) IN Folded(both.pool, both.value)
    [] IsNumber(a) /\ IsNumber(b) /\ ~ByZero(op, b) -> Folded(pool, Arithmetic(op, a, b))
    [] OTHER -> NotFolded
FoldBitwise(pool, op, a, b) ==
  IF IsNumber(a) /\ IsNumber(b) THEN Folded(pool, BitwiseResult(op, a, b)) ELSE NotFolded
FoldComparison(pool, op, a, b) ==
  CASE op \in EqualityOps -> Folded(pool, Truth(SortaEqual(a, b) = (op = "EQUAL")))
    [] IsNumber(a) /\ IsNumber(b) -> Folded(pool, Comparison(op, a, b))
    [] OTHER -> NotFolded

\* Mutant of CheckInfixOptimize: one constant leaves the table, not both.
CheckInfixOptimizeKeepsOne(c, pre, preConstant, rule) ==
  IF rule # "GetBinary" \/ Len(c.code) # pre + 3
     \/ ~(IsConstant(c, pre + 1) /\ IsConstant(c, pre + 2))
  THEN Keeps(c, preConstant)
  ELSE LET op == LastOpcode(c, 0)
           a == GetConstant(c, pre + 1)
           b == GetConstant(c, pre + 2)
           out == IF op \in ArithmeticOps THEN FoldArithmetic(c.pool, op, a, b)
                  ELSE FoldComparison(c.pool, op, a, b)
           cut == Without(c, pre, IF ConstantIndex(c, pre + 2) > preConstant THEN 1 ELSE 0)
       IN IF op \notin BitwiseOps /\ out.folds
          THEN Keeps(EmitConstant([cut EXCEPT !.pool = out.pool], out.value),
                     Len(cut.constants))
          ELSE Keeps(c, preConstant)

CheckInfixOptimize(c, pre, preConstant, rule) ==
  IF rule # "GetBinary" \/ Len(c.code) # pre + 3
     \/ ~(IsConstant(c, pre + 1) /\ IsConstant(c, pre + 2))
  THEN Keeps(c, preConstant)
  ELSE LET op == LastOpcode(c, 0)
           a == GetConstant(c, pre + 1)
           b == GetConstant(c, pre + 2)
           new == {i \in {ConstantIndex(c, pre + 1), ConstantIndex(c, pre + 2)} :
                     i > preConstant}
           out == CASE op \in ArithmeticOps -> FoldArithmetic(c.pool, op, a, b)
                    [] op \in BitwiseOps -> FoldBitwise(c.pool, op, a, b)
                    [] OTHER -> FoldComparison(c.pool, op, a, b)
           cut == Without(c, pre, Cardinality(new))
       IN IF out.folds
          THEN Keeps(EmitConstant([cut EXCEPT !.pool = out.pool], out.value),
                     Len(cut.constants))
          ELSE Keeps(c, preConstant)

-------------------------------------------------------------------------------
(* The grammar functions.  Each is called with its token as Previous.           *)

RECURSIVE ParsePrecedence(_, _, _), ParseInfix(_, _, _), GetArguments(_, _),
          GetItems(_, _, _), AfterItem(_, _, _, _)

GetExpression(c) == ParsePrecedence(c, PREC.ASSIGNMENT, "value")
ParseOperand(c, precedence) == ParsePrecedence(c, precedence, "value")

\* Expressions separated by commas; kept counts them.
GetArguments(c, count) ==
  LET e == GetExpression(c)
  IN CASE e.error -> e
       [] ~e.error /\ Current(e) = "," -> GetArguments(AdvanceToken(e), count + 1)
       [] OTHER -> [e EXCEPT !.kept = count + 1]
GetArgumentList(c, close) ==
  LET list == IF Current(c) = close THEN [c EXCEPT !.kept = 0] ELSE GetArguments(c, 0)
  IN ConsumeToken(list, close)

\* Items between brackets, a comma behind the last one allowed.  An item of items is
\* Null when it, or one before it, is more than one constant; a hitbox takes four, and
\* no constants but integers.
AfterItem(e, close, items, begin) ==
  LET constant == /\ \A i \in DOMAIN items : items[i] # Null
                  /\ Len(e.code) = begin + 1
                  /\ IsConstant(e, begin + 1)
      item == IF constant THEN GetConstant(e, begin + 1) ELSE Null
      refused == close = "}" /\ (Len(items) = 4 \/ (constant /\ item.type # "integer"))
  IN CASE e.error \/ refused -> [c |-> Error(e), items |-> items]
       [] ~(e.error \/ refused) /\ Current(e) = "," ->
            GetItems(AdvanceToken(e), close, Append(items, item))
       [] OTHER -> [c |-> ConsumeToken(e, close), items |-> Append(items, item)]
GetItems(c, close, items) ==
  IF Current(c) = close THEN [c |-> AdvanceToken(c), items |-> items]
  ELSE AfterItem(GetExpression(c), close, items, Len(c.code))

GetLiteral(c) ==
  LET t == Previous(c)
      string == Intern(c.pool, t.raw)
      chars == [string.pool EXCEPT !.chars[string.value.id] = t.chars]
  IN Returns(CASE t.t = "null" -> EmitByte(c, "NULL")
               [] t.t = "string" -> EmitConstant([c EXCEPT !.pool = chars], string.value)
               [] OTHER -> EmitConstant(c, t.v),
             "value")

NamedVariable(c, name, context) ==
  LET emitValue == c.ShouldEmitValue \/ context = "value"
      ctx == IF emitValue THEN "value" ELSE "location"
  IN CASE name \in DOMAIN Slot ->
            Returns(Emit(c, IF emitValue THEN "GET_LOCAL" ELSE "LOCATION_STACK", Slot[name]),
                    ctx)
       [] name \in DOMAIN ScopeConstants ->
            Returns(EmitConstant(c, ScopeConstants[name]), "value")
       [] name \in DOMAIN LibraryConstants /\ emitValue ->
            Returns(EmitConstant(c, LibraryConstants[name]), "value")
       [] OTHER ->
            Returns(Emit(c, IF emitValue THEN "GET_GLOBAL" ELSE "LOCATION_GLOBAL", name), ctx)

GetVariable(c) == NamedVariable(c, Previous(c).n, "location")
GetThis(c) == NamedVariable([c EXCEPT !.isSuper = FALSE], "this", "location")
GetSuper(c) ==
  LET s == [c EXCEPT !.isSuper = TRUE]
  IN CASE Current(c) # "." -> Error(s)
       [] s.ShouldEmitValue -> Returns(Emit(s, "GET_LOCAL", 0), "value")
       [] OTHER -> Returns(Emit(s, "LOCATION_STACK", 0), "location")

GetDot(c) ==
  LET named == ConsumeToken([c EXCEPT !.isSuper = FALSE], "name")
      name == Previous(named).n
      Invoke == LET args == GetArgumentList(AdvanceToken(ConvertToRvalue(named)), ")")
                IN Emit(args, IF c.isSuper THEN "SUPER_INVOKE" ELSE "INVOKE",
                        [args |-> args.kept, name |-> name])
  IN CASE named.error -> named
       [] Current(named) = "(" -> Returns(Invoke, "value")
       [] named.ShouldEmitValue ->
            Returns(Emit(IF c.isSuper THEN EmitByte(named, "GET_SUPERCLASS") ELSE named,
                         "GET_PROPERTY", name), "value")
       [] OTHER ->
            Returns(Emit(named, IF c.isSuper THEN "LOCATION_SUPER_PROPERTY"
                                ELSE "LOCATION_PROPERTY", name), "location")

GetElement(c) ==
  LET index == ConsumeToken(GetExpression(c), "]")
  IN IF c.ShouldEmitValue THEN Returns(EmitByte(index, "GET_ELEMENT"), "value")
     ELSE Returns(EmitByte(index, "LOCATION_ELEMENT"), "location")

GetGrouping(c) == ConsumeToken(GetExpression(c), ")")

GetArray(c) ==
  LET list == GetItems(c, "]", <<>>)
  IN Returns(Emit(list.c, "NEW_ARRAY", Len(list.items)), "value")

GetCall(c) ==
  LET args == GetArgumentList(ConvertToRvalue(c), ")")
  IN Returns(Emit(args, "CALL", args.kept), "value")

GetNew(c) ==
  LET named == ConsumeToken(c, "name")
      class == NamedVariable(named, Previous(named).n, "value")
      args == IF Current(class) = "(" THEN GetArgumentList(AdvanceToken(class), ")")
              ELSE [class EXCEPT !.kept = 0]
  IN CASE c.ctx # "value" \/ named.error -> Error(c)
       [] OTHER -> Returns(Emit(args, "NEW", args.kept), "value")

\* The sides take the place of their code when all are written as constants.
HitboxOf(c, items, begin) ==
  CASE c.error -> c
    [] items = <<>> -> Returns(EmitConstant(c, Hitbox(<<0, 0, 0, 0>>)), "value")
    [] Len(items) # 4 -> Error(c)
    [] \A i \in 1 .. 4 : items[i] # Null ->
         Returns(EmitConstant([c EXCEPT !.code = SubSeq(@, 1, begin)],
                              Hitbox([i \in 1 .. 4 |-> items[i].n])), "value")
    [] OTHER -> Returns(EmitByte(c, "NEW_HITBOX"), "value")
GetHitbox(c) ==
  LET list == GetItems(AdvanceToken(c), "}", <<>>)
  IN IF Current(c) = "{" THEN HitboxOf(list.c, list.items, Len(c.code))
     ELSE NamedVariable(c, "hitbox", "location")

GetLogicalAND(c) ==
  LET test == EmitJump(ConvertToRvalue(c), "JUMP_IF_FALSE")
      right == ParseOperand(EmitByte(test, "POP"), PREC.AND)
  IN Returns(PatchJump(right, Len(test.code)), "value")

GetLogicalOR(c) ==
  LET test == EmitJump(ConvertToRvalue(c), "JUMP_IF_FALSE")
      skip == EmitJump(test, "JUMP")
      right == ParseOperand(EmitByte(PatchJump(skip, Len(test.code)), "POP"), PREC.OR)
  IN Returns(PatchJump(right, Len(skip.code)), "value")

GetConditional(c) ==
  LET test == EmitJump(ConvertToRvalue(c), "JUMP_IF_FALSE")
      then == EmitJump(ParseOperand(EmitByte(test, "POP"), PREC.TERNARY), "JUMP")
      colon == EmitByte(PatchJump(ConsumeToken(then, ":"), Len(test.code)), "POP")
      else == ParseOperand(colon, PREC.TERNARY)
  IN IF colon.error THEN colon ELSE Returns(PatchJump(else, Len(then.code)), "value")

\* Mutant of GetUnary: anything is stepped.
GetUnaryUnchecked(c) ==
  LET op == Previous(c).t
      operand == ParsePrecedence(c, PREC.UNARY, "location")
  IN CASE operand.error -> operand
       [] op \in DOMAIN UnaryOpcode ->
            Returns(EmitByte(ConvertToRvalue(operand), UnaryOpcode[op]), "value")
       [] OTHER -> Returns(EmitAll(EmitCopyAndLoadIndirect(operand),
                                   <<StepOpcode[op], "STORE_INDIRECT">>), "value")

GetUnary(c) ==
  LET op == Previous(c).t
      operand == ParsePrecedence(c, PREC.UNARY, "location")
  IN CASE operand.error -> operand
       [] op \in DOMAIN UnaryOpcode ->
            Returns(EmitByte(ConvertToRvalue(operand), UnaryOpcode[op]), "value")
       [] op \in DOMAIN StepOpcode /\ operand.ctx = "location" ->
            Returns(EmitAll(EmitCopyAndLoadIndirect(operand),
                            <<StepOpcode[op], "STORE_INDIRECT">>), "value")
       [] OTHER -> Error(operand)

GetBinary(c) ==
  LET op == Previous(c).t
      right == ParseOperand(ConvertToRvalue(c), Precedence(op) + 1)
  IN Returns(EmitByte(right, BinaryOpcode[op]), "value")

GetAssignment(c) ==
  LET op == Previous(c).t
      old == IF op = "=" THEN c ELSE EmitCopyAndLoadIndirect(c)
      value == GetExpression(old)
  IN CASE c.ctx # "location" -> Error(c)
       [] op \in DOMAIN StepOpcode ->
            Returns(EmitAll(Emit(old, "COPY", 1),
                            <<"SAVE_VALUE", StepOpcode[op], "STORE_INDIRECT", "POP",
                              "LOAD_VALUE">>), "value")
       [] op = "=" -> Returns(EmitByte(value, "STORE_INDIRECT"), "value")
       [] OTHER -> Returns(EmitAll(value, <<CompoundOpcode[op], "STORE_INDIRECT">>), "value")

GetHas(c) ==
  LET named == ConsumeToken(ConvertToRvalue(c), "name")
  IN IF named.error THEN named
     ELSE Returns(Emit(named, "HAS_PROPERTY", Previous(named).n), "value")

Prefix(rule, c) ==
  CASE rule = "GetGrouping" -> GetGrouping(c)
    [] rule = "GetArray" -> GetArray(c)
    [] rule = "GetUnary" -> GetUnary(c)
    [] rule = "GetNew" -> GetNew(c)
    [] rule = "GetThis" -> GetThis(c)
    [] rule = "GetSuper" -> GetSuper(c)
    [] rule = "GetVariable" -> GetVariable(c)
    [] rule = "GetHitbox" -> GetHitbox(c)
    [] rule = "GetLiteral" -> GetLiteral(c)

Infix(rule, c) ==
  CASE rule = "GetCall" -> GetCall(c)
    [] rule = "GetElement" -> GetElement(c)
    [] rule = "GetDot" -> GetDot(c)
    [] rule = "GetBinary" -> GetBinary(c)
    [] rule = "GetAssignment" -> GetAssignment(c)
    [] rule = "GetConditional" -> GetConditional(c)
    [] rule = "GetLogicalAND" -> GetLogicalAND(c)
    [] rule = "GetLogicalOR" -> GetLogicalOR(c)
    [] rule = "GetHas" -> GetHas(c)

\* The operators behind an operand, as long as they bind as tightly as asked.  A token
\* with a precedence and no infix rule is passed over.
OptimizeInfix(done, pre, preConstant, rule) ==
  IF done.optimise /\ ~done.error THEN CheckInfixOptimize(done, pre, preConstant, rule)
  ELSE Keeps(done, preConstant)
ParseInfix(c, precedence, pre) ==
  LET rule == InfixRule(Current(c))
      Operator(next) == IF rule = "none" THEN next ELSE Infix(rule, next)
  IN IF c.error \/ precedence > Precedence(Current(c)) THEN c
     ELSE ParseInfix(OptimizeInfix(Operator(AdvanceToken(c)), pre, c.kept, rule),
                     precedence, pre)

OptimizePrefix(operand, pre, preConstant, rule) ==
  IF operand.optimise /\ ~operand.error
  THEN CheckPrefixOptimize(operand, pre, preConstant, rule)
  ELSE Keeps(operand, preConstant)
\* context is what is asked for; GetNew looks at it, too.
ParsePrecedence(c, precedence, context) ==
  LET pre == Len(c.code)
      rule == PrefixRule(Current(c))
      operand == Prefix(rule, Returns(AdvanceToken(c), context))
      Asked(e) == IF context = "value" THEN Returns(ConvertToRvalue(e), "value") ELSE e
  IN CASE c.error -> c
       [] ~c.error /\ rule = "none" -> Error(AdvanceToken(c))
       [] OTHER -> Asked(ParseInfix(OptimizePrefix(operand, pre, Len(c.constants), rule),
                                    precedence, pre))

\* An expression and the token behind it.  Of an initialiser only the value is wanted;
\* the flag is left set when an error interrupts it.
Compile(text, kind, optimise, statics, pool) ==
  LET c == NewCompiler(text, optimise, statics, pool)
      Reset(e) == IF kind = "initialiser" /\ ~e.error THEN [e EXCEPT !.ShouldEmitValue = FALSE]
                  ELSE e
  IN ConsumeToken(Reset(GetExpression([c EXCEPT !.ShouldEmitValue =
                                                   @ \/ kind = "initialiser"])), ";")
===============================================================================

-------------------------------- MODULE Values --------------------------------
(* Values of scripts and the operators on them, as the compiler and the         *)
(* interpreter share them: integers of a fixed width, decimals, hitboxes, null  *)
(* and references to objects.  A decimal counts Scale-ths and is rounded        *)
(* towards zero.  Strings are objects found by what they hold: ScriptManager    *)
(* keeps a table of interned strings, so that two strings are equal when they   *)
(* are the same object.                                                         *)
EXTENDS Integers, Sequences, TLC, Bitwise

CONSTANTS
  Bits,    \* width of an integer
  Scale    \* a decimal's steps from one integer to the next

ASSUME ValuesAssumption == Bits \in Nat \ {0} /\ Scale \in Nat \ {0}

Integer(n) == [type |-> "integer", n |-> ((n + 2^(Bits - 1)) % 2^Bits) - 2^(Bits - 1)]
Decimal(n) == [type |-> "decimal", n |-> n]
Hitbox(s) == [type |-> "hitbox", sides |-> s]
Null == [type |-> "null"]
Object(kind, id) == [type |-> "object", kind |-> kind, id |-> id]
Truth(b) == Integer(IF b THEN 1 ELSE 0)

IsNumber(v) == v.type \in {"integer", "decimal"}
IsObject(v, kind) == v.type = "object" /\ v.kind = kind
IsString(v) == IsObject(v, "string")

Falsey(v) == \/ v.type = "null"
             \/ IsNumber(v) /\ v.n = 0

\* Both operands as the decimals, or the integers, that they are cast to.
Quotient(a, b) ==
  LET Abs(n) == IF n < 0 THEN -n ELSE n
      q == Abs(a) \div Abs(b)
  IN IF (a < 0) = (b < 0) THEN q ELSE -q
Remainder(a, b) == a - b * Quotient(a, b)
CastAsDecimal(v) == IF v.type = "decimal" THEN v.n ELSE v.n * Scale
CastAsInteger(v) == IF v.type = "decimal" THEN Quotient(v.n, Scale) ELSE v.n
EitherDecimal(a, b) == "decimal" \in {a.type, b.type}

ArithmeticOps == {"ADD", "SUBTRACT", "MULTIPLY", "DIVIDE", "MODULO"}
BitwiseOps == {"BITSHIFT_LEFT", "BITSHIFT_RIGHT", "BW_OR", "BW_AND", "BW_XOR"}
ComparisonOps == {"GREATER", "GREATER_EQUAL", "LESS", "LESS_EQUAL"}
EqualityOps == {"EQUAL", "EQUAL_NOT"}

Arithmetic(op, a, b) ==
  LET dec == EitherDecimal(a, b)
      x == IF dec THEN CastAsDecimal(a) ELSE a.n
      y == IF dec THEN CastAsDecimal(b) ELSE b.n
      one == IF dec THEN Scale ELSE 1
      n == CASE op = "ADD" -> x + y
             [] op = "SUBTRACT" -> x - y
             [] op = "MULTIPLY" -> Quotient(x * y, one)
             [] op = "DIVIDE" -> Quotient(x * one, y)
             [] op = "MODULO" -> Remainder(x, y)
  IN IF dec THEN Decimal(n) ELSE Integer(n)

ByZero(op, b) == op \in {"DIVIDE", "MODULO"} /\ b.n = 0

BitwiseResult(op, a, b) ==
  LET x == CastAsInteger(a)
      y == CastAsInteger(b)
      Unsigned(n) == n % 2^Bits
      n == CASE op = "BITSHIFT_LEFT" -> x * 2^(y % Bits)
             [] op = "BITSHIFT_RIGHT" -> x \div 2^(y % Bits)
             [] op = "BW_OR" -> Unsigned(x) | Unsigned(y)
             [] op = "BW_AND" -> Unsigned(x) & Unsigned(y)
             [] op = "BW_XOR" -> Unsigned(x) ^^ Unsigned(y)
  IN IF EitherDecimal(a, b) THEN Decimal(Integer(n).n * Scale) ELSE Integer(n)

Comparison(op, a, b) ==
  LET x == CastAsDecimal(a)
      y == CastAsDecimal(b)
  IN Truth(CASE op = "GREATER" -> x > y
             [] op = "GREATER_EQUAL" -> x >= y
             [] op = "LESS" -> x < y
             [] op = "LESS_EQUAL" -> x <= y)

\* Value::SortaEqual: numbers by amount, everything else by type and identity.
SortaEqual(a, b) ==
  IF IsNumber(a) /\ IsNumber(b) THEN CastAsDecimal(a) = CastAsDecimal(b) ELSE a = b

\* Value::ExactlyEqual: null equals nothing.
ExactlyEqual(a, b) == a = b /\ a.type # "null"

Negate(v) == IF v.type = "decimal" THEN Decimal(-v.n) ELSE Integer(-v.n)
BitwiseNOT(v) ==
  IF v.type = "decimal" THEN Decimal((-CastAsInteger(v) - 1) * Scale) ELSE Integer(-v.n - 1)
Step(v, by) ==
  IF v.type = "decimal" THEN Decimal(v.n + by * Scale) ELSE Integer(v.n + by)
LogicalNOT(v) ==
  CASE v.type = "decimal" -> Decimal(IF v.n = 0 THEN Scale ELSE 0)
    [] v.type = "hitbox" -> Truth(FALSE)
    [] OTHER -> Truth(Falsey(v))

TypeName(v) == IF v.type = "object" THEN v.kind ELSE v.type

-------------------------------------------------------------------------------
(* Strings.  pool.chars[id] is what the string id holds; an entry of the table  *)
(* is found by its key, the characters when it was made, and then compared with *)
(* the characters that are there now.                                           *)

NoStrings == [chars |-> <<>>, table |-> {}]

GetInternedString(pool, chars) ==
  {e.id : e \in {t \in pool.table : t.key = chars /\ pool.chars[t.id] = chars}}

CreateInternedString(pool, chars) ==
  [chars |-> Append(pool.chars, chars),
   table |-> pool.table \cup {[key |-> chars, id |-> Len(pool.chars) + 1]}]

\* CopyString and TakeString: the pool with the string in it, and the string.
Intern(pool, chars) ==
  LET found == GetInternedString(pool, chars)
  IN IF found # {}
     THEN [pool |-> pool, value |-> Object("string", CHOOSE id \in found : TRUE)]
     ELSE [pool |-> CreateInternedString(pool, chars),
           value |-> Object("string", Len(pool.chars) + 1)]

\* ValuePrinter's text of a value, one element for all of it.
Printed(v) ==
  CASE v.type = "integer" -> <<ToString(v.n)>>
    [] v.type = "decimal" -> <<ToString(v.n), "/">>
    [] OTHER -> <<v.type>>

CastValueAsString(pool, v) ==
  IF IsString(v) THEN [pool |-> pool, value |-> v] ELSE Intern(pool, Printed(v))

\* The right operand is cast first.
ConcatenateValues(pool, a, b) ==
  LET right == CastValueAsString(pool, b)
      left == CastValueAsString(right.pool, a)
      chars == left.pool.chars
  IN Intern(left.pool, chars[left.value.id] \o chars[right.value.id])
===============================================================================

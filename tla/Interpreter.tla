------------------------------ MODULE Interpreter ------------------------------
(* VMThread's instructions for expressions: a stack of values and locations, one *)
(* register, and the memory they work on, m = [slots, globals, constants,       *)
(* objects].  Objects are instances, classes, arrays and functions of the host, *)
(* which return their last argument; strings are in the pool.  A run-time error *)
(* ends the run.  Frames are in CallStack; linked values, maps, bound methods,  *)
(* initializers and getters of the host are left out.                           *)
EXTENDS Values, SequencesExt

CONSTANTS
  BuiltinClass,   \* from the kinds of objects that are not instances to classes
  Home            \* the class of the method that is executed

VARIABLES
  chunk,   \* the code and its constants
  vm,      \* ip, stack, register, m and how the run stands
  pool     \* the strings

Gives(v) == [ok |-> TRUE, v |-> v]
Fails == [ok |-> FALSE, v |-> Null]

-------------------------------------------------------------------------------
(* Objects.                                                                     *)

ClassOf(m, v) ==
  CASE v.kind = "class" -> v.id
    [] v.kind = "instance" -> m.objects[v.id].class
    [] OTHER -> BuiltinClass[v.kind]

RECURSIVE Ancestry(_, _)
Ancestry(m, class) ==
  IF class = 0 THEN <<>> ELSE <<class>> \o Ancestry(m, m.objects[class].parent)

\* The member name of the first class that has it; fields count from the class number
\* fieldsFrom on, and hide methods.
Never == 100
LookUp(m, class, fieldsFrom, name) ==
  LET classes == Ancestry(m, class)
      Members(i) == LET c == m.objects[classes[i]]
                    IN IF i >= fieldsFrom THEN c.fields @@ c.methods ELSE c.methods
      found == {i \in DOMAIN classes : name \in DOMAIN Members(i)}
  IN IF found = {} THEN Fails ELSE Gives(Members(Min(found))[name])

\* The class's own fields, and those of its parent, are not seen through an instance.
GetProperty(m, v, name) ==
  CASE v.type # "object" -> Fails
    [] IsObject(v, "instance") /\ name \in DOMAIN m.objects[v.id].fields ->
         Gives(m.objects[v.id].fields[name])
    [] IsObject(v, "class") -> LookUp(m, v.id, 1, name)
    [] OTHER -> LookUp(m, ClassOf(m, v), 3, name)

HasProperty(m, v, name) ==
  IF v.type # "object" THEN Fails
  ELSE Gives(Truth(\/ IsObject(v, "instance") /\ name \in DOMAIN m.objects[v.id].fields
                   \/ LookUp(m, ClassOf(m, v), Never, name).ok))

\* What is stored in anything but an instance becomes a field of its class.
SetProperty(m, v, name, value) ==
  LET at == IF IsObject(v, "instance") THEN v.id ELSE ClassOf(m, v)
  IN IF v.type # "object" THEN [ok |-> FALSE, m |-> m]
     ELSE [ok |-> TRUE, m |-> [m EXCEPT !.objects[at].fields = (name :> value) @@ @]]

LoadElement(m, v, at) ==
  LET items == IF v.type = "hitbox" THEN [i \in 1 .. 4 |-> Integer(v.sides[i])]
               ELSE m.objects[v.id].values
  IN IF /\ v.type = "hitbox" \/ IsObject(v, "array")
        /\ at.type = "integer"
        /\ at.n + 1 \in DOMAIN items
     THEN Gives(items[at.n + 1]) ELSE Fails

StoreElement(m, v, at, value) ==
  IF /\ IsObject(v, "array")
     /\ at.type = "integer"
     /\ at.n + 1 \in DOMAIN m.objects[v.id].values
  THEN [ok |-> TRUE, m |-> [m EXCEPT !.objects[v.id].values[at.n + 1] = value]]
  ELSE [ok |-> FALSE, m |-> m]

GetGlobal(m, name) ==
  CASE name \in DOMAIN m.constants -> Gives(m.constants[name])
    [] name \in DOMAIN m.globals -> Gives(m.globals[name])
    [] OTHER -> Fails

SetGlobal(m, name, value) ==
  IF name \in DOMAIN m.globals
  THEN [ok |-> TRUE, m |-> [m EXCEPT !.globals[name] = value]]
  ELSE [ok |-> FALSE, m |-> m]

\* CallValue and CallForObject: the latter passes the receiver as the first argument.
CallValue(callee, args) ==
  CASE ~IsObject(callee, "native function") -> Fails
    [] IsObject(callee, "native function") /\ args = <<>> -> Gives(Null)
    [] OTHER -> Gives(Last(args))

CallFound(out, receiver, args) ==
  IF out.ok THEN CallValue(out.v, <<receiver>> \o args) ELSE Fails

Invoke(m, receiver, name, args) ==
  LET own == m.objects[ClassOf(m, receiver)].methods
  IN CASE receiver.type # "object" -> Fails
       [] IsObject(receiver, "instance") ->
            LET fields == m.objects[receiver.id].fields
            IN IF name \in DOMAIN fields THEN CallFound(Gives(fields[name]), receiver, args)
               ELSE CallFound(LookUp(m, ClassOf(m, receiver), 2, name), receiver, args)
       [] name \notin DOMAIN own -> Fails
       [] IsObject(receiver, "class") /\ name \in DOMAIN own -> CallValue(own[name], args)
       [] OTHER -> CallFound(Gives(own[name]), receiver, args)

SuperInvoke(m, receiver, name, args) ==
  IF ~IsObject(receiver, "instance") THEN Fails
  ELSE CallFound(LookUp(m, m.objects[Home].parent, 1, name), receiver, args)

NewInstance(class) == [class |-> class, fields |-> <<>>]
NewArray(items) == [values |-> items]

Numeric(out, operands) == IF \A v \in operands : IsNumber(v) THEN Gives(out) ELSE Fails

UnaryResult(op, v) ==
  CASE op = "NEGATE" -> Numeric(Negate(v), {v})
    [] op = "BW_NOT" -> Numeric(BitwiseNOT(v), {v})
    [] op = "INCREMENT" -> Numeric(Step(v, 1), {v})
    [] op = "DECREMENT" -> Numeric(Step(v, -1), {v})
    [] op = "LG_NOT" -> Gives(LogicalNOT(v))

\* Of values that are not both strings.
BinaryResult(op, a, b) ==
  CASE op \in EqualityOps -> Gives(Truth(SortaEqual(a, b) = (op = "EQUAL")))
    [] op \in ComparisonOps -> Numeric(Comparison(op, a, b), {a, b})
    [] op \in BitwiseOps -> Numeric(BitwiseResult(op, a, b), {a, b})
    [] op \in ArithmeticOps /\ IsNumber(b) /\ ByZero(op, b) -> Fails
    [] OTHER -> Numeric(Arithmetic(op, a, b), {a, b})

-------------------------------------------------------------------------------
(* Locations.  Below a location of a property or of an element the stack holds  *)
(* what it is in.                                                               *)

Location(at, of) == [type |-> "location", at |-> at, of |-> of]
Operands(location) ==
  CASE location.at \in {"stack", "global"} -> 0
    [] location.at = "property" -> 1
    [] location.at = "element" -> 2

LoadLocation(m, location, operands) ==
  CASE location.at = "stack" -> Gives(m.slots[location.of])
    [] location.at = "global" -> GetGlobal(m, location.of)
    [] location.at = "property" -> GetProperty(m, operands[1], location.of)
    [] location.at = "element" -> LoadElement(m, operands[1], operands[2])

StoreLocation(m, location, operands, value) ==
  CASE location.at = "stack" -> [ok |-> TRUE, m |-> [m EXCEPT !.slots[location.of] = value]]
    [] location.at = "global" -> SetGlobal(m, location.of, value)
    [] location.at = "property" -> SetProperty(m, operands[1], location.of, value)
    [] location.at = "element" -> StoreElement(m, operands[1], operands[2], value)

Below(stack, n) == SubSeq(stack, 1, Len(stack) - n)
Top(stack, n) == SubSeq(stack, Len(stack) - n + 1, Len(stack))

\* The stack with the location on top of it, if there is one, loaded.
Loaded(stack) ==
  LET location == Last(stack)
      n == Operands(location)
      out == LoadLocation(vm.m, location, Top(Front(stack), n))
  IN IF location.type # "location" THEN [ok |-> TRUE, stack |-> stack]
     ELSE [ok |-> out.ok, stack |-> Append(Below(Front(stack), n), out.v)]

-------------------------------------------------------------------------------
(* The instructions.                                                            *)

Instruction == chunk.code[vm.ip]
Executes(op) ==
  /\ vm.result = "running"
  /\ vm.ip <= Len(chunk.code)
  /\ Instruction.op = op
Arg == Instruction.arg
Peek(n) == vm.stack[Len(vm.stack) - n]

Continue(stack) ==
  /\ vm' = [vm EXCEPT !.ip = @ + 1, !.stack = stack]
  /\ UNCHANGED <<chunk, pool>>
ThrowRuntimeError ==
  /\ vm' = [vm EXCEPT !.result = "error"]
  /\ UNCHANGED <<chunk, pool>>
Push(v) == Continue(Append(vm.stack, v))
\* The outcome in place of the n values on top.
Replace(n, out) ==
  IF out.ok THEN Continue(Append(Below(vm.stack, n), out.v)) ELSE ThrowRuntimeError
ReplaceString(n, string) ==
  /\ vm' = [vm EXCEPT !.ip = @ + 1, !.stack = Append(Below(@, n), string.value)]
  /\ pool' = string.pool
  /\ UNCHANGED chunk

OP_NULL == Executes("NULL") /\ Push(Null)
OP_TRUE == Executes("TRUE") /\ Push(Integer(1))
OP_FALSE == Executes("FALSE") /\ Push(Integer(0))
OP_CONSTANT == Executes("CONSTANT") /\ Push(chunk.constants[Arg])
OP_INTEGER == Executes("INTEGER") /\ Push(Arg)
OP_DECIMAL == Executes("DECIMAL") /\ Push(Arg)

OP_GET_LOCAL == Executes("GET_LOCAL") /\ Push(vm.m.slots[Arg])
OP_GET_GLOBAL == Executes("GET_GLOBAL") /\ Replace(0, GetGlobal(vm.m, Arg))
OP_GET_PROPERTY == Executes("GET_PROPERTY") /\ Replace(1, GetProperty(vm.m, Peek(0), Arg))
OP_HAS_PROPERTY == Executes("HAS_PROPERTY") /\ Replace(1, HasProperty(vm.m, Peek(0), Arg))
OP_GET_ELEMENT == Executes("GET_ELEMENT") /\ Replace(2, LoadElement(vm.m, Peek(1), Peek(0)))

\* The superclass of a value, for instructions that name one.
Superclass(v) ==
  LET parent == vm.m.objects[ClassOf(vm.m, v)].parent
  IN IF v.type # "object" \/ parent = 0 THEN Fails ELSE Gives(Object("class", parent))
OP_GET_SUPERCLASS == Executes("GET_SUPERCLASS") /\ Replace(1, Superclass(Peek(0)))

OP_POP == Executes("POP") /\ Continue(Below(vm.stack, 1))
OP_COPY == Executes("COPY") /\ Continue(vm.stack \o Top(vm.stack, Arg))
OP_SAVE_VALUE ==
  /\ Executes("SAVE_VALUE")
  /\ vm' = [vm EXCEPT !.ip = @ + 1, !.stack = Below(@, 1), !.register = Peek(0)]
  /\ UNCHANGED <<chunk, pool>>
OP_LOAD_VALUE == Executes("LOAD_VALUE") /\ Push(vm.register)

JumpTo(at) == vm' = [vm EXCEPT !.ip = at] /\ UNCHANGED <<chunk, pool>>
OP_JUMP == Executes("JUMP") /\ JumpTo(Arg)
OP_JUMP_IF_FALSE ==
  Executes("JUMP_IF_FALSE") /\ JumpTo(IF Falsey(Peek(0)) THEN Arg ELSE vm.ip + 1)

OP_UNARY ==
  \E op \in {"NEGATE", "BW_NOT", "INCREMENT", "DECREMENT", "LG_NOT"} :
    Executes(op) /\ Replace(1, UnaryResult(op, Peek(0)))
OP_TYPEOF ==
  Executes("TYPEOF") /\ ReplaceString(1, Intern(pool, <<TypeName(Peek(0))>>))
OP_BINARY ==
  \E op \in ArithmeticOps \cup BitwiseOps \cup ComparisonOps \cup EqualityOps :
    /\ Executes(op)
    /\ IF op = "ADD" /\ (IsString(Peek(1)) \/ IsString(Peek(0)))
       THEN ReplaceString(2, ConcatenateValues(pool, Peek(1), Peek(0)))
       ELSE Replace(2, BinaryResult(op, Peek(1), Peek(0)))

MakeObject(n, kind, object) ==
  /\ vm' = [vm EXCEPT !.ip = @ + 1,
                      !.stack = Append(Below(@, n), Object(kind, Len(vm.m.objects) + 1)),
                      !.m.objects = Append(@, object)]
  /\ UNCHANGED <<chunk, pool>>
OP_NEW_ARRAY ==
  Executes("NEW_ARRAY") /\ MakeObject(Arg, "array", NewArray(Top(vm.stack, Arg)))
OP_NEW ==
  /\ Executes("NEW")
  /\ IF IsObject(Peek(Arg), "class") /\ Arg = 0
     THEN MakeObject(1, "instance", NewInstance(Peek(0).id)) ELSE ThrowRuntimeError
OP_NEW_HITBOX ==
  LET sides == Top(vm.stack, 4)
  IN /\ Executes("NEW_HITBOX")
     /\ Replace(4, IF \A i \in 1 .. 4 : sides[i].type = "integer"
                   THEN Gives(Hitbox([i \in 1 .. 4 |-> sides[i].n])) ELSE Fails)

OP_CALL ==
  Executes("CALL") /\ Replace(Arg + 1, CallValue(Peek(Arg), Top(vm.stack, Arg)))
OP_INVOKE ==
  /\ Executes("INVOKE")
  /\ Replace(Arg.args + 1,
             Invoke(vm.m, Peek(Arg.args), Arg.name, Top(vm.stack, Arg.args)))
\* A method that no ancestor has is no error: receiver and arguments stay on the stack.
NoSuperMethod(receiver, name) ==
  LET parent == vm.m.objects[Home].parent
  IN IsObject(receiver, "instance") /\ parent # 0 /\ ~LookUp(vm.m, parent, 1, name).ok
OP_SUPER_INVOKE ==
  /\ Executes("SUPER_INVOKE")
  /\ IF NoSuperMethod(Peek(Arg.args), Arg.name) THEN Continue(vm.stack)
     ELSE Replace(Arg.args + 1,
                  SuperInvoke(vm.m, Peek(Arg.args), Arg.name, Top(vm.stack, Arg.args)))

OP_LOCATION_STACK == Executes("LOCATION_STACK") /\ Push(Location("stack", Arg))
OP_LOCATION_GLOBAL == Executes("LOCATION_GLOBAL") /\ Push(Location("global", Arg))
OP_LOCATION_PROPERTY ==
  LET object == Loaded(vm.stack)
  IN /\ Executes("LOCATION_PROPERTY")
     /\ IF object.ok THEN Continue(Append(object.stack, Location("property", Arg)))
        ELSE ThrowRuntimeError
OP_LOCATION_SUPER_PROPERTY ==
  LET object == Loaded(vm.stack)
      class == Superclass(Last(object.stack))
  IN /\ Executes("LOCATION_SUPER_PROPERTY")
     /\ IF object.ok /\ class.ok
        THEN Continue(Front(object.stack) \o <<class.v, Location("property", Arg)>>)
        ELSE ThrowRuntimeError
OP_LOCATION_ELEMENT ==
  LET object == Loaded(Front(vm.stack))
  IN /\ Executes("LOCATION_ELEMENT")
     /\ IF object.ok
        THEN Continue(object.stack \o <<Peek(0), Location("element", 0)>>)
        ELSE ThrowRuntimeError

OP_LOAD_INDIRECT ==
  LET out == Loaded(vm.stack)
  IN /\ Executes("LOAD_INDIRECT")
     /\ IF Peek(0).type = "location" /\ out.ok THEN Continue(out.stack)
        ELSE ThrowRuntimeError
OP_STORE_INDIRECT ==
  LET location == Peek(1)
      under == Below(vm.stack, 2)
      n == Operands(location)
      out == StoreLocation(vm.m, location, Top(under, n), Peek(0))
  IN /\ Executes("STORE_INDIRECT")
     /\ IF location.type = "location" /\ out.ok
        THEN /\ vm' = [vm EXCEPT !.ip = @ + 1, !.m = out.m,
                                 !.stack = Append(Below(under, n), Peek(0))]
             /\ UNCHANGED <<chunk, pool>>
        ELSE ThrowRuntimeError

RunInstruction ==
  \/ OP_NULL \/ OP_TRUE \/ OP_FALSE \/ OP_CONSTANT \/ OP_INTEGER \/ OP_DECIMAL
  \/ OP_GET_LOCAL \/ OP_GET_GLOBAL \/ OP_GET_PROPERTY \/ OP_HAS_PROPERTY
  \/ OP_GET_ELEMENT \/ OP_GET_SUPERCLASS
  \/ OP_POP \/ OP_COPY \/ OP_SAVE_VALUE \/ OP_LOAD_VALUE
  \/ OP_JUMP \/ OP_JUMP_IF_FALSE
  \/ OP_UNARY \/ OP_TYPEOF \/ OP_BINARY
  \/ OP_NEW_ARRAY \/ OP_NEW \/ OP_NEW_HITBOX
  \/ OP_CALL \/ OP_INVOKE \/ OP_SUPER_INVOKE
  \/ OP_LOCATION_STACK \/ OP_LOCATION_GLOBAL \/ OP_LOCATION_PROPERTY
  \/ OP_LOCATION_SUPER_PROPERTY \/ OP_LOCATION_ELEMENT
  \/ OP_LOAD_INDIRECT \/ OP_STORE_INDIRECT
===============================================================================

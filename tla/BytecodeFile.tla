----------------------------- MODULE BytecodeFile -----------------------------
(* The file of a compiled script: what Bytecode::Write puts into a stream, and  *)
(* what Bytecode::Read makes of it.  A file is a sequence of fields [t, v], t   *)
(* being the width; a field that is read with another width than it was written *)
(* with puts the reader out of step (ok is FALSE).  Only the latest version is  *)
(* written; hashes stand for the names they are of.                             *)
EXTENDS Values, SequencesExt

Field(t, v) == <<[t |-> t, v |-> v]>>

FLAG == [DEBUGINFO |-> 1, SOURCEFILENAME |-> 2, VARNAMES |-> 4, BREAKPOINTS |-> 8]
Flagged(flags, flag) == flags & flag # 0

VALUE_TYPE == [NULL |-> 0, INTEGER |-> 1, DECIMAL |-> 2, STRING |-> 3, HITBOX |-> 4]

\* Bytecode::FunctionNames
FunctionNames == <<"<anonymous-fn>", "main">>
NoName == ""

-------------------------------------------------------------------------------
(* Writing.                                                                     *)

FlagsOf(functions, hasDebugInfo, sourceFilename) ==
  LET breakpoints == \E i \in DOMAIN functions : functions[i].breakpoints # <<>>
  IN (IF hasDebugInfo THEN FLAG.DEBUGINFO + FLAG.VARNAMES ELSE 0)
     + (IF hasDebugInfo /\ breakpoints THEN FLAG.BREAKPOINTS ELSE 0)
     + (IF sourceFilename # NoName THEN FLAG.SOURCEFILENAME ELSE 0)

WriteConstant(v, pool) ==
  CASE v.type = "integer" -> Field("byte", VALUE_TYPE.INTEGER) \o Field("int32", v.n)
    [] v.type = "decimal" -> Field("byte", VALUE_TYPE.DECIMAL) \o Field("float", v.n)
    [] v.type = "hitbox" ->
         Field("byte", VALUE_TYPE.HITBOX)
         \o FlattenSeq([i \in 1 .. 4 |-> Field("int16", v.sides[i])])
    [] IsString(v) ->
         Field("byte", VALUE_TYPE.STRING) \o Field("string", pool.chars[v.id])
    [] v.type = "object" /\ ~IsString(v) -> Field("byte", VALUE_TYPE.NULL)
    [] OTHER -> <<>>

WriteLocals(locals) ==
  Field("int16", Len(locals))
  \o FlattenSeq([i \in DOMAIN locals |->
       Field("string", locals[i].name) \o Field("byte", locals[i].flags)
       \o Field("int32", locals[i].index) \o Field("int32", locals[i].position)])

\* Code is counted in bytes; here, in instructions.
WriteChunk(f, flags, pool) ==
  Field("int32", Len(f.code)) \o Field("byte", f.arity) \o Field("byte", f.minArity)
  \o Field("int32", Len(f.code)) \o Field("int32", f.name)
  \o Field("bytes", f.code)
  \o (IF Flagged(flags, FLAG.DEBUGINFO) THEN Field("bytes", f.lines) ELSE <<>>)
  \o Field("int32", Len(f.constants))
  \o FlattenSeq([i \in DOMAIN f.constants |-> WriteConstant(f.constants[i], pool)])
  \o (IF Flagged(flags, FLAG.VARNAMES)
      THEN WriteLocals(f.locals) \o WriteLocals(f.moduleLocals) ELSE <<>>)
  \o (IF Flagged(flags, FLAG.BREAKPOINTS)
      THEN Field("int16", Len(f.breakpoints))
           \o FlattenSeq([i \in DOMAIN f.breakpoints |-> Field("int32", f.breakpoints[i])])
      ELSE <<>>)

\* tokens: the names that the compiler met.
Write(functions, hasDebugInfo, sourceFilename, tokens, pool) ==
  LET flags == FlagsOf(functions, hasDebugInfo, sourceFilename)
      names == FunctionNames \o tokens
      Strings(s) == FlattenSeq([i \in DOMAIN s |-> Field("string", s[i])])
  IN Field("bytes", "HTVM") \o Field("byte", "version") \o Field("byte", flags)
     \o Field("byte", 0) \o Field("byte", 0)
     \o Field("int32", Len(functions))
     \o FlattenSeq([i \in DOMAIN functions |-> WriteChunk(functions[i], flags, pool)])
     \o (IF hasDebugInfo THEN Field("int32", Len(names)) \o Strings(names) ELSE <<>>)
     \o (IF sourceFilename # NoName THEN Field("string", sourceFilename) ELSE <<>>)

-------------------------------------------------------------------------------
(* Reading.  r = [rest, got, ok, flags, pool, functions, f, tokens,             *)
(* sourceFilename]: got is the last field, f the function that is being read.   *)

NewFunction == [name |-> NoName, arity |-> 0, minArity |-> 0, opcodes |-> 0,
                code |-> <<>>, lines |-> <<>>, constants |-> <<>>, locals |-> <<>>,
                moduleLocals |-> <<>>, breakpoints |-> <<>>]

Take(r, t) ==
  IF r.ok /\ r.rest # <<>> /\ Head(r.rest).t = t
  THEN [r EXCEPT !.got = Head(r.rest).v, !.rest = Tail(@)]
  ELSE [r EXCEPT !.ok = FALSE, !.got = 0]
\* The next fields, one after the other, each put where it belongs.
TakeInto(r, fields) ==
  FoldLeft(LAMBDA s, field : LET next == Take(s, field[1])
                             IN IF next.ok THEN [next EXCEPT !.f[field[2]] = next.got] ELSE next,
           r, fields)
Times(Read(_), n, r) == FoldLeft(LAMBDA s, i : IF s.ok THEN Read(s) ELSE s, r, [i \in 1 .. n |-> i])
\* A count, and as many of what Read reads.
Counted(r, t, Read(_)) == LET count == Take(r, t) IN Times(Read, count.got, count)

AddConstant(r, v) == [r EXCEPT !.f.constants = Append(@, v)]
ReadSide(r) == LET side == Take(r, "int16") IN [side EXCEPT !.sides = Append(@, side.got)]
\* A string is interned again.
ReadConstant(r) ==
  LET type == Take(r, "byte")
      number == Take(type, IF type.got = VALUE_TYPE.DECIMAL THEN "float" ELSE "int32")
      chars == Take(type, "string")
      string == Intern(chars.pool, chars.got)
      hitbox == Times(ReadSide, 4, [type EXCEPT !.sides = <<>>])
  IN CASE type.got = VALUE_TYPE.INTEGER -> AddConstant(number, Integer(number.got))
       [] type.got = VALUE_TYPE.DECIMAL -> AddConstant(number, Decimal(number.got))
       [] type.got = VALUE_TYPE.HITBOX -> AddConstant(hitbox, Hitbox(hitbox.sides))
       [] type.got = VALUE_TYPE.STRING /\ chars.ok ->
            AddConstant([chars EXCEPT !.pool = string.pool], string.value)
       [] OTHER -> AddConstant(type, Null)

\* Mutant of ReadLocal: the position is taken for the index.
ReadLocalSwapped(r) ==
  LET name == Take(r, "string")
      flags == Take(name, "byte")
      position == Take(flags, "int32")
      index == Take(position, "int32")
  IN [index EXCEPT !.read = Append(@, [name |-> name.got, flags |-> flags.got,
                                       index |-> index.got, position |-> position.got])]

ReadLocal(r) ==
  LET name == Take(r, "string")
      flags == Take(name, "byte")
      index == Take(flags, "int32")
      position == Take(index, "int32")
  IN [position EXCEPT !.read = Append(@, [name |-> name.got, flags |-> flags.got,
                                          index |-> index.got, position |-> position.got])]
ReadLocals(r, list) ==
  LET all == Counted([r EXCEPT !.read = <<>>], "int16", ReadLocal)
  IN [all EXCEPT !.f[list] = all.read]
ReadBreakpoint(r) ==
  LET at == Take(r, "int32") IN [at EXCEPT !.f.breakpoints = Append(@, at.got)]

\* A part that the flags say is there.
Optional(r, flag, Read(_)) == IF Flagged(r.flags, flag) THEN Read(r) ELSE r
ReadLines(r) == TakeInto(r, << <<"bytes", "lines">> >>)
ReadConstants(r) == Counted(r, "int32", ReadConstant)
ReadVariables(r) == ReadLocals(ReadLocals(r, "locals"), "moduleLocals")
ReadBreakpoints(r) == Counted(r, "int16", ReadBreakpoint)
AddFunction(r) == [r EXCEPT !.functions = Append(@, r.f)]

ReadChunk(r) ==
  LET length == Take([r EXCEPT !.f = NewFunction], "int32")
      code == TakeInto(length, << <<"byte", "arity">>, <<"byte", "minArity">>,
                                  <<"int32", "opcodes">>, <<"int32", "name">>,
                                  <<"bytes", "code">> >>)
      constants == ReadConstants(Optional(code, FLAG.DEBUGINFO, ReadLines))
      locals == Optional(constants, FLAG.VARNAMES, ReadVariables)
  IN AddFunction(Optional(locals, FLAG.BREAKPOINTS, ReadBreakpoints))

ReadToken(r) == LET name == Take(r, "string") IN [name EXCEPT !.tokens = Append(@, name.got)]

\* Without debug information a function is called by its hash, written in hexadecimal.
NamedFunctions(r) ==
  LET Named(f) ==
        CASE ~Flagged(r.flags, FLAG.DEBUGINFO) -> [f EXCEPT !.name = "hash"]
          [] f.name \in Range(r.tokens) -> f
          [] OTHER -> [f EXCEPT !.name = NoName]
  IN [r EXCEPT !.functions = [i \in DOMAIN @ |-> Named(@[i])]]

ReadTokens(r) == Counted(r, "int32", ReadToken)
ReadFlags(r) == LET flags == Take(r, "byte") IN [flags EXCEPT !.flags = flags.got]
ReadSourceFilename(r) ==
  LET name == Take(r, "string") IN [name EXCEPT !.sourceFilename = name.got]

Read(file, pool) ==
  LET start == [rest |-> file, got |-> 0, ok |-> TRUE, flags |-> 0, pool |-> pool,
                functions |-> <<>>, f |-> NewFunction, tokens |-> <<>>, sides |-> <<>>,
                read |-> <<>>, sourceFilename |-> NoName]
      flags == ReadFlags(Take(Take(start, "bytes"), "byte"))
      chunks == Counted(Take(Take(flags, "byte"), "byte"), "int32", ReadChunk)
      tokens == Optional(chunks, FLAG.DEBUGINFO, ReadTokens)
  IN Optional(NamedFunctions(tokens), FLAG.SOURCEFILENAME, ReadSourceFilename)
===============================================================================

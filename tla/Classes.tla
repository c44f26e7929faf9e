-------------------------------- MODULE Classes --------------------------------
(***************************************************************************)
(* The tables a program's names live in, and its classes: what a script's  *)
(* declarations do to Globals, Constants and the classes they hold, what   *)
(* the host may do to them between statements, and where a member of an    *)
(* instance or of a class is looked up.                                    *)
(*                                                                         *)
(* A declaration is several instructions: OP_CLASS pushes a new class,     *)
(* OP_INHERIT gives it a parent, OP_DEFINE_GLOBAL stores it or extends the *)
(* class that has the name, and every method and static field that follows *)
(* looks the name up again.                                                *)
(***************************************************************************)
EXTENDS Naturals

CONSTANTS
    Name,          \* names of globals, constants and classes
    Member,        \* names of methods and fields
    Builtin,       \* the members NewClass gives every class (GetClass, HasField, ...)
    Function,      \* compiled functions that are methods of a class declaration
    DeclaredIn,    \* [Function -> Name], the class whose declaration it is in
    MethodName,    \* [Function -> Member]
    Datum,         \* values that are not classes: numbers, strings, functions, ...
    Number,        \* those a linked variable accepts
    Linked,        \* those that stand for a variable of the host
    Null,
    Native,        \* a method that is not a compiled function
    Absent,        \* no entry in a table
    LibraryClass,  \* the name of a class that LinkStandardLibrary put in Constants, or Absent
    MaxClasses,    \* bound: classes that are ever made
    ErrorsReturn,  \* a runtime error comes back to the script (REPL, a host's handler)
    Usage          \* what this program does, a subset of AllUsage

(* "alias": a class is assigned to a further variable with var;            *)
(* "late_parent": a class is declared again, now with a younger parent;    *)
(* "rerun": a module runs more than once (hsl_run_module);                  *)
(* "host": the host defines globals, constants and classes of its own.     *)
AllUsage == {"alias", "late_parent", "rerun", "host"}

Class == 1 .. MaxClasses
NoClass == 0
Value == Datum \union {Null} \union Class

ASSUME NamesAssumption ==
    /\ Absent \notin Name \union Member
    /\ LibraryClass \in Name \union {Absent}
    /\ Builtin \subseteq Member
ASSUME ValuesAssumption ==
    /\ Number \subseteq Datum /\ Linked \subseteq Datum
    /\ Absent \notin Value
    /\ Null \notin Class /\ Datum \intersect Class = {} /\ Null \notin Datum
ASSUME FunctionsAssumption ==
    /\ DeclaredIn \in [Function -> Name]
    /\ MethodName \in [Function -> Member]
    /\ Native \notin Function /\ Absent \notin Function /\ Native # Absent
ASSUME UsageAssumption ==
    /\ MaxClasses \in Nat \ {0}
    /\ ErrorsReturn \in BOOLEAN
    /\ Usage \subseteq AllUsage

VARIABLES
    globals,       \* [Name -> Value \union {Absent}], Manager->Globals
    constants,     \* the same for Manager->Constants
    created,       \* classes 1 .. created exist
    hash,          \* [Class -> Name \union {Absent}]
    methods,       \* [Class -> [Member -> Function \union {Native, Absent}]]
    fields,        \* [Class -> SUBSET Member]
    parent,        \* [Class -> Class \union {NoClass}]
    initializer,   \* [Class -> Function \union {Absent}]
    home,          \* [Function -> Class \union {NoClass}], ObjFunction::Class
    operand,       \* the value on top of the stack that an instruction is about to store
    declaring,     \* the class whose declaration runs, or Absent
    stage,         \* how far that declaration is
    status

tables == <<globals, constants>>
classVars == <<created, hash, methods, fields, parent, initializer, home>>
control == <<operand, declaring, stage>>
vars == <<tables, classVars, control, status>>

Created == 1 .. created

NewMethods == [h \in Member |-> IF h \in Builtin THEN Native ELSE Absent]

Init ==
    /\ globals = [n \in Name |-> Absent]
    /\ constants = [n \in Name |-> IF n = LibraryClass THEN 1 ELSE Absent]
    /\ created = IF LibraryClass \in Name THEN 1 ELSE 0
    /\ hash = [c \in Class |-> IF c = 1 THEN LibraryClass ELSE Absent]
    /\ methods = [c \in Class |-> NewMethods]
    /\ fields = [c \in Class |-> {}]
    /\ parent = [c \in Class |-> NoClass]
    /\ initializer = [c \in Class |-> Absent]
    /\ home = [f \in Function |-> NoClass]
    /\ operand = Absent
    /\ declaring = Absent
    /\ stage = "free"
    /\ status = "running"

-----------------------------------------------------------------------------
(* Errors.  A fatal answer ends the program inside ThrowRuntimeError, and   *)
(* nothing that comes behind the call is executed.                          *)
Dies(error) == error /\ ~ErrorsReturn

Exit ==
    /\ status' = "exited"
    /\ UNCHANGED <<tables, classVars, control>>

(* GetGlobal: constants hide globals; Null, after an error, if there is none. *)
IsDefined(n) == constants[n] # Absent \/ globals[n] # Absent

GetGlobal(n) ==
    IF constants[n] # Absent THEN constants[n]
    ELSE IF globals[n] # Absent THEN globals[n]
    ELSE Null

(* Value::ExactlyEqual has no case for null. *)
ExactlyEqual(a, b) == a = b /\ a # Null

-----------------------------------------------------------------------------
(* DoClassExtension with clearSrc: dst gets the members of src, which loses  *)
(* them, and the parent of src if it has none.  A second parent is an error, *)
(* thrown when the members have been moved.                                  *)
Moved(src, dst) ==
    [h \in Member |-> IF methods[src][h] # Absent THEN methods[src][h] ELSE methods[dst][h]]

SecondParent(src, dst) == parent[src] # NoClass /\ parent[dst] # NoClass

DoClassExtensionEmptied(src, dst) ==
    /\ methods' = [methods EXCEPT ![src] = Moved(src, dst), ![dst] = [h \in Member |-> Absent]]
    /\ fields' = [fields EXCEPT ![dst] = @ \union fields[src], ![src] = {}]
    /\ parent' = IF parent[dst] = NoClass
                 THEN [parent EXCEPT ![dst] = parent[src]]
                 ELSE parent

DoClassExtension(src, dst) ==
    /\ methods' = [methods EXCEPT ![dst] = Moved(src, dst), ![src] = [h \in Member |-> Absent]]
    /\ fields' = [fields EXCEPT ![dst] = @ \union fields[src], ![src] = {}]
    /\ parent' = IF parent[dst] = NoClass
                 THEN [parent EXCEPT ![dst] = parent[src]]
                 ELSE parent

-----------------------------------------------------------------------------
(* NewClass. *)
NewClass(n) ==
    /\ created < MaxClasses
    /\ created' = created + 1
    /\ hash' = [hash EXCEPT ![created + 1] = n]
    /\ UNCHANGED <<methods, fields, parent, initializer, home>>

(* class n *)
OpClass(n) ==
    /\ stage = "free" /\ operand = Absent
    /\ NewClass(n)
    /\ operand' = created + 1
    /\ declaring' = n
    /\ stage' = "class"
    /\ UNCHANGED <<tables, status>>

(* What a program declares as a parent: unless it is "late_parent", a class    *)
(* that is older than the one it declares again.                               *)
Declares(s) ==
    \/ "late_parent" \in Usage \/ s = declaring
    \/ GetGlobal(declaring) \in Class /\ globals[s] \in Class => globals[s] < GetGlobal(declaring)

(* class n < s: the class is new, its parent must be a global. *)
OpInheritItself(s) ==
    /\ stage = "class"
    /\ Declares(s)
    /\ LET refused == globals[s] \notin Class
       IN  \/ Dies(refused) /\ Exit
           \/ /\ ~Dies(refused)
              /\ parent' = IF refused THEN parent ELSE [parent EXCEPT ![operand] = globals[s]]
              /\ stage' = "parent"
              /\ UNCHANGED <<tables, created, hash, methods, fields, initializer, home,
                             operand, declaring, status>>

OpInherit(s) ==
    /\ stage = "class"
    /\ Declares(s)
    /\ LET refused == hash[operand] = s \/ globals[s] \notin Class
       IN  \/ Dies(refused) /\ Exit
           \/ /\ ~Dies(refused)
              /\ parent' = IF refused THEN parent ELSE [parent EXCEPT ![operand] = globals[s]]
              /\ stage' = "parent"
              /\ UNCHANGED <<tables, created, hash, methods, fields, initializer, home,
                             operand, declaring, status>>

(* The expression of a declaration or of an assignment: a value, ... *)
PushValue(v) ==
    /\ stage = "free" /\ operand = Absent
    /\ operand' = v
    /\ UNCHANGED <<tables, classVars, declaring, stage, status>>

(* ... or a class that a variable holds. *)
PushGlobalClass(n) ==
    /\ "alias" \in Usage
    /\ stage = "free" /\ operand = Absent
    /\ GetGlobal(n) \in Class
    /\ operand' = GetGlobal(n)
    /\ UNCHANGED <<tables, classVars, declaring, stage, status>>

(* OP_DEFINE_GLOBAL: of a class declaration, or of var n = operand. *)
OpDefineGlobalDropped(n) ==
    /\ operand # Absent
    /\ stage = "free" \/ n = declaring
    /\ LET old     == IF globals[n] # Absent THEN globals[n] ELSE constants[n]
           extends == operand \in Class /\ old \in Class
       IN  /\ \/ extends /\ DoClassExtension(operand, old)
              \/ ~extends /\ UNCHANGED <<methods, fields, parent>>
           /\ globals' = IF extends \/ constants[n] # Absent THEN globals
                         ELSE [globals EXCEPT ![n] = operand]
           /\ operand' = Absent
           /\ stage' = IF stage = "free" THEN "free" ELSE "body"
           /\ UNCHANGED <<constants, created, hash, initializer, home, declaring, status>>

OpDefineGlobal(n) ==
    /\ operand # Absent
    /\ stage = "free" \/ n = declaring
    /\ LET old     == IF globals[n] # Absent THEN globals[n] ELSE constants[n]
           extends == operand \in Class /\ old \in Class
           error   == IF extends THEN SecondParent(operand, old)
                      ELSE globals[n] = Absent /\ constants[n] # Absent
       IN  \/ Dies(error) /\ Exit
           \/ /\ ~Dies(error)
              /\ \/ extends /\ DoClassExtension(operand, old)
                 \/ ~extends /\ UNCHANGED <<methods, fields, parent>>
              /\ globals' = IF extends \/ error THEN globals ELSE [globals EXCEPT ![n] = operand]
              /\ operand' = Absent
              /\ stage' = IF stage = "free" THEN "free" ELSE "body"
              /\ UNCHANGED <<constants, created, hash, initializer, home, declaring, status>>

(* OP_DEFINE_CONSTANT: the compiler emits it for literals only, so its cases *)
(* for two classes are never taken.  The constants are written although an   *)
(* error was thrown for the constant that is there.                          *)
OpDefineConstantUnchecked(n) ==
    /\ stage = "free"
    /\ operand \in Datum \union {Null}
    /\ constants' = [constants EXCEPT ![n] = operand]
    /\ operand' = Absent
    /\ UNCHANGED <<globals, classVars, declaring, stage, status>>

OpDefineConstant(n) ==
    /\ stage = "free"
    /\ operand \in Datum \union {Null}
    /\ LET redefined == constants[n] # Absent /\ ~ExactlyEqual(operand, constants[n])
           isGlobal  == globals[n] # Absent
       IN  \/ Dies(redefined \/ isGlobal) /\ Exit
           \/ /\ ~Dies(redefined \/ isGlobal)
              /\ constants' = IF isGlobal THEN constants ELSE [constants EXCEPT ![n] = operand]
              /\ operand' = Absent
              /\ UNCHANGED <<globals, classVars, declaring, stage, status>>

(* SetGlobal, and the OP_POP that ends the statement.  What a linked variable *)
(* of the host becomes is not in the tables.                                  *)
SetGlobal(n) ==
    /\ stage = "free" /\ operand # Absent
    /\ LET error == globals[n] = Absent \/ (globals[n] \in Linked /\ operand \notin Number)
       IN  \/ Dies(error) /\ Exit
           \/ /\ ~Dies(error)
              /\ globals' = IF globals[n] = Absent \/ globals[n] \in Linked THEN globals
                            ELSE [globals EXCEPT ![n] = operand]
              /\ operand' = Absent
              /\ UNCHANGED <<constants, classVars, declaring, stage, status>>

-----------------------------------------------------------------------------
(* The body of a class declaration, and assignments to a class's members.   *)

(* OP_METHOD: DefineMethod takes what OP_GET_GLOBAL pushed for a class       *)
(* without looking; another value is undefined behaviour.                    *)
DefineMethodOfNone(c, f) ==
    /\ methods' = [methods EXCEPT ![c][MethodName[f]] = f]
    /\ initializer' = IF MethodName[f] = hash[c] THEN [initializer EXCEPT ![c] = f]
                      ELSE initializer
    /\ UNCHANGED <<created, hash, fields, parent, home, tables, control, status>>

DefineMethod(c, f) ==
    /\ methods' = [methods EXCEPT ![c][MethodName[f]] = f]
    /\ initializer' = IF MethodName[f] = hash[c] THEN [initializer EXCEPT ![c] = f]
                      ELSE initializer
    /\ home' = [home EXCEPT ![f] = c]
    /\ UNCHANGED <<created, hash, fields, parent, tables, control, status>>

OpMethod(f) ==
    /\ stage = "body" /\ DeclaredIn[f] = declaring
    /\ home[f] = NoClass \/ "rerun" \in Usage
    /\ LET c == GetGlobal(declaring)
       IN  \/ Dies(~IsDefined(declaring)) /\ Exit
           \/ c \in Class /\ DefineMethod(c, f)
           \/ /\ ~Dies(~IsDefined(declaring)) /\ c \notin Class
              /\ status' = "undefined"
              /\ UNCHANGED <<tables, classVars, control>>

(* SetProperty on what n holds: the static fields of a declaration, and      *)
(* n.h = value anywhere.  Other objects' fields are not modelled.            *)
SetClassField(n, h) ==
    /\ stage \in {"free", "body"} /\ operand = Absent
    /\ stage = "body" => n = declaring
    /\ LET c == GetGlobal(n)
           error == c \notin Class
       IN  \/ Dies(error) /\ Exit
           \/ /\ ~Dies(error)
              /\ fields' = IF error THEN fields ELSE [fields EXCEPT ![c] = @ \union {h}]
              /\ UNCHANGED <<created, hash, methods, parent, initializer, home,
                             tables, control, status>>

EndClass ==
    /\ stage = "body"
    /\ stage' = "free" /\ declaring' = Absent
    /\ UNCHANGED <<tables, classVars, operand, status>>

Script ==
    \/ \E n \in Name :
         \/ OpClass(n) \/ OpInherit(n) \/ OpDefineGlobal(n) \/ OpDefineConstant(n)
         \/ PushGlobalClass(n) \/ SetGlobal(n)
         \/ \E h \in Member : SetClassField(n, h)
    \/ \E v \in (Datum \ Linked) \union {Null} : PushValue(v)
    \/ \E f \in Function : OpMethod(f)
    \/ EndClass

-----------------------------------------------------------------------------
(* The host, between two statements.  It leaves alone what scripts would     *)
(* refuse: a name is not made a global and a constant, a function is the     *)
(* method of one class, a parent is older than its children.                 *)
HostTurn == "host" \in Usage /\ stage = "free" /\ operand = Absent

(* hsl_class_new *)
HostNewClass(n) ==
    /\ HostTurn
    /\ NewClass(n)
    /\ UNCHANGED <<tables, control, status>>

(* hsl_global_replace_*, which hsl_global_set_* is too unless the global is linked *)
HostSetGlobal(n, v, replace) ==
    /\ HostTurn
    /\ constants[n] = Absent
    /\ globals' = IF ~replace /\ globals[n] \in Linked THEN globals
                  ELSE [globals EXCEPT ![n] = v]
    /\ UNCHANGED <<constants, classVars, control, status>>

HostRemoveGlobal(n) ==
    /\ HostTurn
    /\ globals[n] # Absent
    /\ globals' = [globals EXCEPT ![n] = Absent]
    /\ UNCHANGED <<constants, classVars, control, status>>

(* hsl_constant_define_* *)
HostDefineConstant(n, v) ==
    /\ HostTurn
    /\ ~IsDefined(n)
    /\ constants' = [constants EXCEPT ![n] = v]
    /\ UNCHANGED <<globals, classVars, control, status>>

HostRemoveConstant(n) ==
    /\ HostTurn
    /\ constants[n] # Absent
    /\ constants' = [constants EXCEPT ![n] = Absent]
    /\ UNCHANGED <<globals, classVars, control, status>>

(* hsl_class_define_method: unlike DefineMethod it leaves Initializer alone. *)
HostDefineMethod(c, f) ==
    /\ HostTurn
    /\ home[f] = NoClass
    /\ methods' = [methods EXCEPT ![c][MethodName[f]] = f]
    /\ home' = [home EXCEPT ![f] = c]
    /\ UNCHANGED <<created, hash, fields, parent, initializer, tables, control, status>>

(* hsl_class_define_native *)
HostDefineNative(c, h) ==
    /\ HostTurn
    /\ methods[c][h] \notin Function
    /\ methods' = [methods EXCEPT ![c][h] = Native]
    /\ UNCHANGED <<created, hash, fields, parent, initializer, home, tables, control, status>>

(* hsl_class_set_initializer *)
HostSetInitializer(c, f) ==
    /\ HostTurn
    /\ methods[c][MethodName[f]] = f
    /\ initializer' = [initializer EXCEPT ![c] = f]
    /\ UNCHANGED <<created, hash, methods, fields, parent, home, tables, control, status>>

(* hsl_class_set_parent *)
HostSetParent(c, p) ==
    /\ HostTurn
    /\ p < c
    /\ parent' = [parent EXCEPT ![c] = p]
    /\ UNCHANGED <<created, hash, methods, fields, initializer, home, tables, control, status>>

Host ==
    \/ \E n \in Name :
         \/ HostNewClass(n) \/ HostRemoveGlobal(n) \/ HostRemoveConstant(n)
         \/ \E v \in Datum \union Created :
              \/ HostDefineConstant(n, v)
              \/ \E replace \in BOOLEAN : HostSetGlobal(n, v, replace)
    \/ \E c \in Created :
         \/ \E f \in Function : HostDefineMethod(c, f) \/ HostSetInitializer(c, f)
         \/ \E h \in Member : HostDefineNative(c, h)
         \/ \E p \in Created : HostSetParent(c, p)

Next == status = "running" /\ (Script \/ Host)

Spec == Init /\ [][Next]_vars

-----------------------------------------------------------------------------
(* Lookup.  Ancestor(c)[k] is the k-th class above c, NoClass beyond the top. *)
Ancestor(c) ==
    LET above[k \in 0 .. MaxClasses] ==
          IF k = 0 THEN c
          ELSE IF above[k - 1] = NoClass THEN NoClass ELSE parent[above[k - 1]]
    IN above

(* The first class of set S on the way up from c, or NoClass. *)
Nearest(c, S) ==
    LET hits == {k \in 0 .. MaxClasses : Ancestor(c)[k] \in S}
    IN  IF c = NoClass \/ hits = {} THEN NoClass
        ELSE Ancestor(c)[CHOOSE k \in hits : \A j \in hits : k <= j]

HaveMethod(h) == {c \in Created : methods[c][h] # Absent}
HaveField(h) == {c \in Created : h \in fields[c]}

NotFound == <<NoClass, "nothing">>
MethodOf(c) == IF c = NoClass THEN NotFound ELSE <<c, "method">>

(* GetClassMethod, and GetProperty of a class: in each class fields come first. *)
FieldOrMethod(c, h) ==
    LET d == Nearest(c, HaveMethod(h) \union HaveField(h))
    IN  IF d \in HaveField(h) THEN <<d, "field">> ELSE MethodOf(d)

(* GetProperty of an instance that has no such field itself: the methods of   *)
(* its class, then those of the parent, and fields only above that.           *)
GetPropertyAbove(c, h) ==
    IF c \in HaveMethod(h) THEN MethodOf(c)
    ELSE IF parent[c] = NoClass THEN NotFound
    ELSE FieldOrMethod(parent[parent[c]], h)

GetProperty(c, h) ==
    IF c \in HaveMethod(h) THEN MethodOf(c)
    ELSE IF parent[c] = NoClass THEN NotFound
    ELSE IF parent[c] \in HaveMethod(h) THEN MethodOf(parent[c])
    ELSE FieldOrMethod(parent[parent[c]], h)

(* HasProperty of an instance without such a field, and of a class. *)
HasProperty(c, h) == Nearest(c, HaveMethod(h)) # NoClass

(* InvokeForInstance, again without a field of the instance. *)
Invoke(c, h) ==
    IF c \in HaveMethod(h) THEN MethodOf(c) ELSE FieldOrMethod(parent[c], h)

(* SuperInvoke from the body of f. *)
SuperInvokeOwn(f, h) ==
    IF home[f] = NoClass THEN NotFound ELSE FieldOrMethod(home[f], h)

SuperInvoke(f, h) ==
    IF home[f] = NoClass THEN NotFound ELSE FieldOrMethod(parent[home[f]], h)

-----------------------------------------------------------------------------
Entry == Value \union {Absent}
Method == Function \union {Native, Absent}

TypeOK ==
    /\ globals \in [Name -> Entry] /\ constants \in [Name -> Entry]
    /\ created \in 0 .. MaxClasses
    /\ hash \in [Class -> Name \union {Absent}]
    /\ methods \in [Class -> [Member -> Method]]
    /\ fields \in [Class -> SUBSET Member]
    /\ parent \in [Class -> Class \union {NoClass}]
    /\ initializer \in [Class -> Function \union {Absent}]
    /\ home \in [Function -> Class \union {NoClass}]
    /\ operand \in Entry
    /\ declaring \in Name \union {Absent}
    /\ stage \in {"free", "class", "parent", "body"}
    /\ status \in {"running", "exited", "undefined"}

(* A name is a global or a constant and never both.  If it were, an           *)
(* assignment would change the global and the script would go on reading the  *)
(* constant (SetGlobal, GetGlobal).                                           *)
NameOnce == \A n \in Name : globals[n] = Absent \/ constants[n] = Absent

(* Whatever declarations run, of whatever modules, a constant keeps its value *)
(* until the host removes it (OP_DEFINE_GLOBAL, OP_DEFINE_CONSTANT and        *)
(* SetGlobal: "Cannot redefine constant").                                    *)
ConstantsKept ==
    [][\A n \in Name : constants[n] # Absent =>
          constants'[n] = constants[n] \/ HostRemoveConstant(n)]_vars

(* A class never loses a member, however often scripts declare it again:      *)
(* DoClassExtension empties the new class, never the one that is in use.  A   *)
(* method of a script gives way to another one of a script only, except that  *)
(* an extension brings the built-in ones back.                                *)
MembersKept ==
    [][\A c \in Class :
         /\ fields[c] \subseteq fields'[c]
         /\ \A h \in Member \ Builtin :
              methods[c][h] \in Function => methods'[c][h] \in Function]_vars

(* What a method calls super's is what its class calls super's: a method in   *)
(* the table of a class has that class as ObjFunction::Class (DefineMethod,   *)
(* DoClassExtension).                                                         *)
HomeIsHolder ==
    \A c \in Created, h \in Member : methods[c][h] \in Function => home[methods[c][h]] = c

(* No class is its own ancestor: every loop that walks up Parent ends.        *)
NoOwnAncestor == \A c \in Created : \A k \in 1 .. MaxClasses : Ancestor(c)[k] # c

(* What makes NoOwnAncestor hold: a parent was made before its children, which *)
(* an extension, that gives an old class the parent of a new one, must keep   *)
(* (OP_INHERIT, DoClassExtension, hsl_class_set_parent).                      *)
ParentOlder == \A c \in Created : parent[c] < c

(* super goes up: the method that super.h() finds in the body of a class's    *)
(* own h is not that method itself, so chains of super calls end              *)
(* (OP_SUPER_INVOKE).                                                         *)
SuperGoesUp ==
    \A c \in Created, h \in Member :
        methods[c][h] \in Function =>
            LET found == SuperInvoke(methods[c][h], h)
            IN  found[2] = "method" => methods[found[1]][h] # methods[c][h]

(* The lookups agree although each has its own order: what HasProperty        *)
(* reports can be read (VM_GetField relies on it), what can be read can be    *)
(* called, and a member that is nowhere a static field is the nearest method  *)
(* for everybody.                                                             *)
LookupsAgree ==
    \A c \in Created, h \in Member :
        /\ HasProperty(c, h) => GetProperty(c, h) # NotFound
        /\ GetProperty(c, h) # NotFound => Invoke(c, h) # NotFound
        /\ HaveField(h) = {} =>
              /\ GetProperty(c, h) = MethodOf(Nearest(c, HaveMethod(h)))
              /\ Invoke(c, h) = GetProperty(c, h)
              /\ FieldOrMethod(c, h) = GetProperty(c, h)

(* A script never gets to a method definition whose class is not one.         *)
Defined == status # "undefined"
=============================================================================

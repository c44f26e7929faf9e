----------------------------- MODULE ClassesProofs -----------------------------
(***************************************************************************)
(* What holds of Classes for every set of names, members, functions and    *)
(* values and any number of classes.                                       *)
(***************************************************************************)
EXTENDS Classes, TLAPS, WellFoundedInduction

USE NamesAssumption, ValuesAssumption, FunctionsAssumption, UsageAssumption

-----------------------------------------------------------------------------
(* Every table, member and parent keeps its type. *)

LEMMA InitTypes == Init => TypeOK
  BY DEF Init, TypeOK, Entry, Value, Class, NoClass, Method, NewMethods

LEMMA ExtensionTypes ==
    ASSUME TypeOK, NEW src \in Class, NEW dst \in Class, DoClassExtension(src, dst)
    PROVE  /\ methods' \in [Class -> [Member -> Method]]
           /\ fields' \in [Class -> SUBSET Member]
           /\ parent' \in [Class -> Class \union {NoClass}]
<1>1. Moved(src, dst) \in [Member -> Method]  BY DEF TypeOK, Moved
<1>2. [h \in Member |-> Absent] \in [Member -> Method]  BY DEF Method
<1>3. methods' \in [Class -> [Member -> Method]]
  BY <1>1, <1>2 DEF TypeOK, DoClassExtension
<1>4. fields' \in [Class -> SUBSET Member]  BY DEF TypeOK, DoClassExtension
<1>5. parent' \in [Class -> Class \union {NoClass}]  BY DEF TypeOK, DoClassExtension
<1> QED  BY <1>3, <1>4, <1>5

LEMMA NewClassTypes ==
    ASSUME TypeOK, NEW n \in Name, NewClass(n)
    PROVE  /\ created' \in 0 .. MaxClasses /\ created + 1 \in Class
           /\ hash' \in [Class -> Name \union {Absent}]
  BY DEF TypeOK, NewClass, Class

LEMMA ScriptTypes ==
    ASSUME TypeOK, Script
    PROVE  TypeOK'
<1> USE DEF Entry
<1>1. CASE \E n \in Name : OpClass(n)
  <2>1. PICK n \in Name : OpClass(n)  BY <1>1
  <2>2. created + 1 \in Entry  BY <2>1, NewClassTypes DEF OpClass, Value
  <2> QED  BY <2>1, <2>2, NewClassTypes DEF OpClass, NewClass, TypeOK, tables
<1>2. CASE \E s \in Name : OpInherit(s)
  <2>1. PICK s \in Name : OpInherit(s)  BY <1>2
  <2>2. parent' \in [Class -> Class \union {NoClass}]
    BY <2>1 DEF OpInherit, TypeOK, Exit, classVars
  <2> QED  BY <2>1, <2>2 DEF OpInherit, TypeOK, Exit, classVars, tables, control
<1>3. CASE \E n \in Name : OpDefineGlobal(n)
  <2>1. PICK n \in Name : OpDefineGlobal(n)  BY <1>3
  <2> DEFINE old == IF globals[n] # Absent THEN globals[n] ELSE constants[n]
  <2>2. /\ methods' \in [Class -> [Member -> Method]]
        /\ fields' \in [Class -> SUBSET Member]
        /\ parent' \in [Class -> Class \union {NoClass}]
    <3>1. CASE operand \in Class /\ old \in Class /\ DoClassExtension(operand, old)
      BY <3>1, ExtensionTypes
    <3>2. CASE UNCHANGED <<methods, fields, parent>>  BY <3>2 DEF TypeOK
    <3> QED  BY <2>1, <3>1, <3>2 DEF OpDefineGlobal, Exit, classVars
  <2>3. globals' \in [Name -> Entry]
    BY <2>1 DEF OpDefineGlobal, TypeOK, Exit, tables
  <2> QED  BY <2>1, <2>2, <2>3 DEF OpDefineGlobal, TypeOK, Exit, classVars, tables, control
<1>4. CASE \E n \in Name : OpDefineConstant(n)
  <2>1. PICK n \in Name : OpDefineConstant(n)  BY <1>4
  <2>2. constants' \in [Name -> Entry]
    BY <2>1 DEF OpDefineConstant, TypeOK, Exit, tables
  <2> QED  BY <2>1, <2>2 DEF OpDefineConstant, TypeOK, Exit, classVars, tables, control
<1>5. CASE \E n \in Name : PushGlobalClass(n)
  BY <1>5 DEF PushGlobalClass, TypeOK, classVars, tables, Value
<1>6. CASE \E n \in Name : SetGlobal(n)
  <2>1. PICK n \in Name : SetGlobal(n)  BY <1>6
  <2>2. globals' \in [Name -> Entry]
    BY <2>1 DEF SetGlobal, TypeOK, Exit, tables
  <2> QED  BY <2>1, <2>2 DEF SetGlobal, TypeOK, Exit, classVars, tables, control
<1>7. CASE \E n \in Name, h \in Member : SetClassField(n, h)
  <2>1. PICK n \in Name, h \in Member : SetClassField(n, h)  BY <1>7
  <2>2. fields' \in [Class -> SUBSET Member]
    BY <2>1 DEF SetClassField, TypeOK, Exit, classVars
  <2> QED  BY <2>1, <2>2 DEF SetClassField, TypeOK, Exit, classVars, tables, control
<1>8. CASE \E v \in (Datum \ Linked) \union {Null} : PushValue(v)
  BY <1>8 DEF PushValue, TypeOK, classVars, tables, Value
<1>9. CASE \E f \in Function : OpMethod(f)
  <2>1. PICK f \in Function : OpMethod(f)  BY <1>9
  <2>2. CASE GetGlobal(declaring) \in Class /\ DefineMethod(GetGlobal(declaring), f)
    <3> DEFINE c == GetGlobal(declaring)
    <3>0. c \in Class /\ DefineMethod(c, f)  BY <2>2
    <3> HIDE DEF c
    <3>1. methods' \in [Class -> [Member -> Method]]
      BY <3>0 DEF DefineMethod, TypeOK, Method
    <3>2. initializer' \in [Class -> Function \union {Absent}]
      BY <3>0 DEF DefineMethod, TypeOK
    <3>3. home' \in [Function -> Class \union {NoClass}]
      BY <3>0 DEF DefineMethod, TypeOK
    <3> QED  BY <3>0, <3>1, <3>2, <3>3 DEF DefineMethod, TypeOK, tables, control
  <2> QED  BY <2>1, <2>2 DEF OpMethod, TypeOK, Exit, classVars, tables, control
<1>10. CASE EndClass
  BY <1>10 DEF EndClass, TypeOK, classVars, tables
<1> QED
  BY <1>1, <1>2, <1>3, <1>4, <1>5, <1>6, <1>7, <1>8, <1>9, <1>10 DEF Script

LEMMA HostTypes ==
    ASSUME TypeOK, Host
    PROVE  TypeOK'
<1> USE DEF Entry
<1>0. Created \subseteq Class /\ Datum \union Created \subseteq Entry
  BY DEF TypeOK, Created, Class, Value
<1>1. CASE \E n \in Name : HostNewClass(n)
  <2>1. PICK n \in Name : HostNewClass(n)  BY <1>1
  <2> QED  BY <2>1, NewClassTypes DEF HostNewClass, NewClass, TypeOK, tables, control
<1>2. CASE \E n \in Name : HostRemoveGlobal(n)
  BY <1>2 DEF HostRemoveGlobal, TypeOK, classVars, control
<1>3. CASE \E n \in Name : HostRemoveConstant(n)
  BY <1>3 DEF HostRemoveConstant, TypeOK, classVars, control
<1>4. CASE \E n \in Name, v \in Datum \union Created : HostDefineConstant(n, v)
  BY <1>0, <1>4 DEF HostDefineConstant, TypeOK, classVars, control
<1>5. CASE \E n \in Name, v \in Datum \union Created, r \in BOOLEAN : HostSetGlobal(n, v, r)
  BY <1>0, <1>5 DEF HostSetGlobal, TypeOK, classVars, control
<1>6. CASE \E c \in Created, f \in Function : HostDefineMethod(c, f)
  BY <1>0, <1>6 DEF HostDefineMethod, TypeOK, tables, control, Method
<1>7. CASE \E c \in Created, f \in Function : HostSetInitializer(c, f)
  BY <1>0, <1>7 DEF HostSetInitializer, TypeOK, tables, control
<1>8. CASE \E c \in Created, h \in Member : HostDefineNative(c, h)
  BY <1>0, <1>8 DEF HostDefineNative, TypeOK, tables, control, Method
<1>9. CASE \E c \in Created, p \in Created : HostSetParent(c, p)
  BY <1>0, <1>9 DEF HostSetParent, TypeOK, tables, control
<1> QED
  BY <1>1, <1>2, <1>3, <1>4, <1>5, <1>6, <1>7, <1>8, <1>9 DEF Host

LEMMA StepTypes == TypeOK /\ [Next]_vars => TypeOK'
<1> SUFFICES ASSUME TypeOK, [Next]_vars PROVE TypeOK'  OBVIOUS
<1>1. CASE Script  BY <1>1, ScriptTypes
<1>2. CASE Host  BY <1>2, HostTypes
<1>3. CASE UNCHANGED vars
  BY <1>3 DEF TypeOK, vars, tables, classVars, control, Entry
<1> QED  BY <1>1, <1>2, <1>3 DEF Next

(* Every table entry is a value, every parent a class, every method a          *)
(* function or native, in any program and with any host.                       *)
THEOREM TypeCorrect == Spec => []TypeOK
<1> QED  BY InitTypes, StepTypes, PTL DEF Spec

-----------------------------------------------------------------------------
(* A name is a global or a constant and never both.                            *)

LEMMA StepNames == TypeOK /\ NameOnce /\ [Next]_vars => NameOnce'
<1> SUFFICES ASSUME TypeOK, NameOnce, [Next]_vars PROVE NameOnce'  OBVIOUS
<1> USE DEF NameOnce
<1>0. CASE UNCHANGED tables  BY <1>0 DEF tables
<1>1. CASE \E n \in Name : OpDefineGlobal(n)
  <2>1. PICK n \in Name : OpDefineGlobal(n)  BY <1>1
  <2>2. CASE Exit  BY <1>0, <2>2 DEF Exit
  <2>3. constants' = constants \/ Exit  BY <2>1 DEF OpDefineGlobal
  <2>4. \/ globals' = globals
        \/ Exit
        \/ /\ globals' = [globals EXCEPT ![n] = operand]
           /\ globals[n] # Absent \/ constants[n] = Absent
    BY <2>1 DEF OpDefineGlobal
  <2> QED  BY <2>2, <2>3, <2>4 DEF TypeOK
<1>2. CASE \E n \in Name : OpDefineConstant(n)
  BY <1>0, <1>2 DEF OpDefineConstant, TypeOK, Exit
<1>3. CASE \E n \in Name : SetGlobal(n)
  BY <1>0, <1>3 DEF SetGlobal, TypeOK, Exit
<1>4. CASE \E n \in Name : OpClass(n) \/ OpInherit(n) \/ PushGlobalClass(n)
  BY <1>0, <1>4 DEF OpClass, OpInherit, PushGlobalClass, Exit
<1>5. CASE \E n \in Name, h \in Member : SetClassField(n, h)
  BY <1>0, <1>5 DEF SetClassField, Exit
<1>6. CASE \E v \in (Datum \ Linked) \union {Null} : PushValue(v)
  BY <1>0, <1>6 DEF PushValue
<1>7. CASE \E f \in Function : OpMethod(f)
  BY <1>0, <1>7 DEF OpMethod, DefineMethod, Exit
<1>8. CASE EndClass  BY <1>0, <1>8 DEF EndClass
<1>9. CASE Host
  <2>1. CASE \E n \in Name : HostRemoveGlobal(n) \/ HostRemoveConstant(n)
    BY <2>1 DEF HostRemoveGlobal, HostRemoveConstant, TypeOK
  <2>2. CASE \E n \in Name, v \in Datum \union Created :
               HostDefineConstant(n, v) \/ \E r \in BOOLEAN : HostSetGlobal(n, v, r)
    BY <2>2 DEF HostDefineConstant, HostSetGlobal, IsDefined, TypeOK
  <2>3. CASE \E n \in Name : HostNewClass(n)
    BY <1>0, <2>3 DEF HostNewClass
  <2>4. CASE \E c \in Created : \/ \E f \in Function : HostDefineMethod(c, f) \/ HostSetInitializer(c, f)
                                \/ \E h \in Member : HostDefineNative(c, h)
                                \/ \E p \in Created : HostSetParent(c, p)
    BY <1>0, <2>4 DEF HostDefineMethod, HostSetInitializer, HostDefineNative, HostSetParent
  <2> QED  BY <1>9, <2>1, <2>2, <2>3, <2>4 DEF Host
<1> QED
  BY <1>0, <1>1, <1>2, <1>3, <1>4, <1>5, <1>6, <1>7, <1>8, <1>9 DEF Next, Script, vars

(* No declaration of any script makes a global of a constant or a constant of  *)
(* a global, even if the errors come back.                                     *)
THEOREM NamesOnce == Spec => []NameOnce
<1>1. Init => NameOnce  BY DEF Init, NameOnce
<1> QED  BY <1>1, StepNames, TypeCorrect, PTL DEF Spec

-----------------------------------------------------------------------------
(* A constant keeps its value.                                                 *)

ConstantKept(n) ==
    constants[n] # Absent => constants'[n] = constants[n] \/ HostRemoveConstant(n)

LEMMA StepConstants ==
    ASSUME ErrorsReturn = FALSE, TypeOK, [Next]_vars, NEW n \in Name
    PROVE  ConstantKept(n)
<1> USE DEF ConstantKept
<1>0. CASE UNCHANGED constants  BY <1>0
<1>1. CASE \E m \in Name : OpDefineConstant(m)
  BY <1>0, <1>1 DEF OpDefineConstant, Dies, ExactlyEqual, TypeOK, Exit, tables
<1>2. CASE \E m \in Name : \/ OpDefineGlobal(m) \/ SetGlobal(m) \/ OpClass(m)
                            \/ OpInherit(m) \/ PushGlobalClass(m)
  BY <1>0, <1>2 DEF OpDefineGlobal, SetGlobal, OpClass, OpInherit, PushGlobalClass, Exit, tables
<1>3. CASE \E m \in Name, h \in Member : SetClassField(m, h)
  BY <1>0, <1>3 DEF SetClassField, Exit, tables
<1>4. CASE \E v \in (Datum \ Linked) \union {Null} : PushValue(v)
  BY <1>0, <1>4 DEF PushValue, tables
<1>5. CASE \E f \in Function : OpMethod(f)
  BY <1>0, <1>5 DEF OpMethod, DefineMethod, Exit, tables
<1>6. CASE EndClass  BY <1>0, <1>6 DEF EndClass, tables
<1>7. CASE \E m \in Name : HostRemoveConstant(m)
  BY <1>7 DEF HostRemoveConstant, TypeOK
<1>8. CASE \E m \in Name, v \in Datum \union Created : HostDefineConstant(m, v)
  BY <1>8 DEF HostDefineConstant, IsDefined, TypeOK
<1>9. CASE \/ \E m \in Name : \/ HostNewClass(m) \/ HostRemoveGlobal(m)
                               \/ \E v \in Datum \union Created, r \in BOOLEAN : HostSetGlobal(m, v, r)
           \/ \E c \in Created : \/ \E f \in Function : HostDefineMethod(c, f) \/ HostSetInitializer(c, f)
                                 \/ \E h \in Member : HostDefineNative(c, h)
                                 \/ \E p \in Created : HostSetParent(c, p)
  BY <1>0, <1>9 DEF HostNewClass, HostRemoveGlobal, HostSetGlobal, HostDefineMethod,
                    HostSetInitializer, HostDefineNative, HostSetParent, tables
<1>10. CASE UNCHANGED vars  BY <1>0, <1>10 DEF vars, tables
<1> QED
  BY <1>1, <1>2, <1>3, <1>4, <1>5, <1>6, <1>7, <1>8, <1>9, <1>10 DEF Next, Script, Host

(* If runtime errors end the program, nothing a script executes changes a      *)
(* constant.                                                                   *)
THEOREM ConstantsStay == ErrorsReturn = FALSE => (Spec => ConstantsKept)
<1> SUFFICES ASSUME ErrorsReturn = FALSE PROVE Spec => ConstantsKept  OBVIOUS
<1>1. TypeOK /\ [Next]_vars =>
        [\A n \in Name : constants[n] # Absent =>
            constants'[n] = constants[n] \/ HostRemoveConstant(n)]_vars
  BY StepConstants DEF ConstantKept
<1> QED  BY <1>1, TypeCorrect, PTL DEF Spec, ConstantsKept

-----------------------------------------------------------------------------
(* The class of a declaration is new: it is the last one made, has only what   *)
(* NewClass gave it, and no table holds it until OP_DEFINE_GLOBAL does.        *)

Untouched(c) == methods[c] = NewMethods /\ fields[c] = {}

LEMMA NotClasses ==
    /\ Absent \notin Class
    /\ \A v \in Datum \union {Null} : v \notin Class
  BY DEF Value

DeclaredNew ==
    /\ stage \in {"class", "parent"} =>
          /\ operand = created /\ created \in Class /\ declaring \in Name
          /\ hash[created] = declaring
          /\ Untouched(created)
          /\ \A n \in Name : globals[n] # created /\ constants[n] # created
    /\ stage = "free" => operand \notin Class
    /\ stage = "body" => operand = Absent

TablesMade ==
    \A n \in Name : /\ globals[n] \in Class => globals[n] <= created
                    /\ constants[n] \in Class => constants[n] <= created

Unmade == \A c \in Class : c > created => Untouched(c) /\ parent[c] = NoClass

Fresh == DeclaredNew /\ TablesMade /\ Unmade

LEMMA InitFresh == Init => Fresh
<1> SUFFICES ASSUME Init PROVE Fresh  OBVIOUS
<1>1. DeclaredNew  BY NotClasses DEF Init, DeclaredNew
<1>2. TablesMade
  <2> SUFFICES ASSUME NEW n \in Name PROVE /\ globals[n] \in Class => globals[n] <= created
                                           /\ constants[n] \in Class => constants[n] <= created
    BY DEF TablesMade
  <2>1. globals[n] \notin Class  BY NotClasses DEF Init
  <2>2. constants[n] \in Class => constants[n] = 1 /\ created = 1  BY NotClasses DEF Init
  <2> QED  BY <2>1, <2>2
<1>3. Unmade  BY DEF Init, Unmade, Untouched, Class, NoClass
<1> QED  BY <1>1, <1>2, <1>3 DEF Fresh

(* What an extension touches: the class that is extended and the new one.      *)
LEMMA ExtensionScope ==
    ASSUME TypeOK, NEW src \in Class, NEW dst \in Class, DoClassExtension(src, dst),
           NEW c \in Class, c # src, c # dst
    PROVE  methods'[c] = methods[c] /\ fields'[c] = fields[c] /\ parent'[c] = parent[c]
  BY DEF DoClassExtension, TypeOK

LEMMA DefineGlobalFresh ==
    ASSUME TypeOK, Fresh, DeclaredNew, TablesMade, Unmade, NEW n \in Name, OpDefineGlobal(n), ~Exit
    PROVE  Fresh'
<1> DEFINE old == IF globals[n] # Absent THEN globals[n] ELSE constants[n]
<1> DEFINE extends == operand \in Class /\ old \in Class
<1>1. operand' = Absent /\ stage' = (IF stage = "free" THEN "free" ELSE "body")
      /\ UNCHANGED <<constants, created, hash, declaring>>
  BY DEF OpDefineGlobal
<1>2. CASE extends
  <2>1. DoClassExtension(operand, old) /\ globals' = globals
    BY <1>2 DEF OpDefineGlobal
  <2>2. operand <= created /\ old <= created
    BY <1>2 DEF Fresh, DeclaredNew, TablesMade, Unmade, TypeOK, Class, OpDefineGlobal
  <2>3. \A c \in Class : c > created =>
          methods'[c] = methods[c] /\ fields'[c] = fields[c] /\ parent'[c] = parent[c]
    BY <1>2, <2>1, <2>2, ExtensionScope DEF Class, TypeOK
  <2> QED  BY <1>1, <2>1, <2>3 DEF Fresh, DeclaredNew, TablesMade, Unmade, Untouched, NewMethods, TypeOK, Value
<1>3. CASE ~extends
  <2>1. UNCHANGED <<methods, fields, parent>>  BY <1>3 DEF OpDefineGlobal
  <2>2. globals' = globals \/ globals' = [globals EXCEPT ![n] = operand]
    BY <1>3 DEF OpDefineGlobal
  <2>3. operand \in Class => operand <= created
    BY DEF Fresh, DeclaredNew, TablesMade, Unmade, TypeOK, Class, OpDefineGlobal
  <2> QED  BY <1>1, <2>1, <2>2, <2>3 DEF Fresh, DeclaredNew, TablesMade, Unmade, Untouched, NewMethods, TypeOK, Value
<1> QED  BY <1>2, <1>3

LEMMA StepFresh ==
    ASSUME "alias" \notin Usage, TypeOK, Fresh, DeclaredNew, TablesMade, Unmade, [Next]_vars
    PROVE  Fresh'
<1> USE DEF Untouched, NewMethods
<1>0. CASE UNCHANGED <<tables, classVars, control>>
  BY <1>0 DEF Fresh, DeclaredNew, TablesMade, Unmade, tables, classVars, control
<1>1. CASE \E n \in Name : OpClass(n)
  <2>1. PICK n \in Name : OpClass(n)  BY <1>1
  <2>2. created + 1 \in Class /\ created' = created + 1  BY <2>1, NewClassTypes DEF OpClass, NewClass
  <2>3. hash'[created'] = n  BY <2>1, <2>2 DEF OpClass, NewClass, TypeOK
  <2>4. Untouched(created + 1)  BY <2>2 DEF Fresh, DeclaredNew, TablesMade, Unmade, Class, TypeOK
  <2>5. \A m \in Name : globals[m] # created + 1 /\ constants[m] # created + 1
    <3> SUFFICES ASSUME NEW m \in Name, \/ globals[m] = created + 1
                                        \/ constants[m] = created + 1
                 PROVE  FALSE
      OBVIOUS
    <3>1. created + 1 <= created  BY <2>2 DEF TablesMade
    <3> QED  BY <3>1 DEF TypeOK
  <2> QED
    <3>1. DeclaredNew'
      BY <2>1, <2>2, <2>3, <2>4, <2>5 DEF OpClass, NewClass, DeclaredNew, Untouched, tables
    <3>2. TablesMade'
      BY <2>1, <2>2 DEF OpClass, TablesMade, Fresh, TypeOK, tables, Class
    <3>3. Unmade'
      BY <2>1, <2>2 DEF OpClass, NewClass, Unmade, Fresh, TypeOK, Class
    <3> QED  BY <3>1, <3>2, <3>3 DEF Fresh
<1>2. CASE \E s \in Name : OpInherit(s) /\ ~Exit
  <2>1. PICK s \in Name : OpInherit(s) /\ ~Exit  BY <1>2
  <2>2. stage = "class" /\ stage' = "parent"  BY <2>1 DEF OpInherit
  <2>3. \A c \in Class : c > created => parent'[c] = parent[c]
    BY <2>1, <2>2 DEF OpInherit, Fresh, DeclaredNew, TablesMade, Unmade, TypeOK, Class
  <2> QED  BY <2>1, <2>2, <2>3 DEF OpInherit, Fresh, DeclaredNew, TablesMade, Unmade, tables
<1>3. CASE \E n \in Name : OpDefineGlobal(n) /\ ~Exit
  BY <1>3, DefineGlobalFresh
<1>4. CASE \E n \in Name : OpDefineConstant(n) /\ ~Exit
  <2>1. PICK n \in Name : OpDefineConstant(n) /\ ~Exit  BY <1>4
  <2>2. constants' = constants \/ constants' = [constants EXCEPT ![n] = operand]
    BY <2>1 DEF OpDefineConstant
  <2>3. TablesMade'
    BY <2>1, <2>2, NotClasses DEF OpDefineConstant, Fresh, TablesMade, TypeOK, classVars
  <2> QED  BY <2>1, <2>3, NotClasses DEF OpDefineConstant, Fresh, DeclaredNew, Unmade, classVars
<1>5. CASE \E n \in Name : SetGlobal(n) /\ ~Exit
  <2>1. PICK n \in Name : SetGlobal(n) /\ ~Exit  BY <1>5
  <2>2. operand \notin Class  BY <2>1 DEF SetGlobal, Fresh, DeclaredNew
  <2>3. globals' = globals \/ globals' = [globals EXCEPT ![n] = operand]
    BY <2>1 DEF SetGlobal
  <2>4. TablesMade'
    BY <2>1, <2>2, <2>3 DEF SetGlobal, Fresh, TablesMade, TypeOK, classVars
  <2> QED  BY <2>1, <2>4, NotClasses DEF SetGlobal, Fresh, DeclaredNew, Unmade, classVars
<1>6. CASE \E n \in Name, h \in Member : SetClassField(n, h) /\ ~Exit
  <2>1. PICK n \in Name, h \in Member : SetClassField(n, h) /\ ~Exit  BY <1>6
  <2>2. \A c \in Class : c > created => fields'[c] = fields[c]
    BY <2>1 DEF SetClassField, GetGlobal, Fresh, DeclaredNew, TablesMade, Unmade, TypeOK, Class
  <2> QED  BY <2>1, <2>2 DEF SetClassField, Fresh, DeclaredNew, TablesMade, Unmade, tables, control
<1>7. CASE \E v \in (Datum \ Linked) \union {Null} : PushValue(v)
  BY <1>7 DEF PushValue, Fresh, DeclaredNew, TablesMade, Unmade, tables, classVars
<1>8. CASE \E f \in Function : OpMethod(f)
  <2>1. PICK f \in Function : OpMethod(f)  BY <1>8
  <2>2. CASE GetGlobal(declaring) \in Class /\ DefineMethod(GetGlobal(declaring), f)
    <3>1. \A c \in Class : c > created => methods'[c] = methods[c]
      BY <2>2, <2>1 DEF DefineMethod, GetGlobal, Fresh, DeclaredNew, TablesMade, Unmade, TypeOK, Class, OpMethod
    <3> QED  BY <2>1, <2>2, <3>1 DEF OpMethod, DefineMethod, Fresh, DeclaredNew, TablesMade, Unmade, tables, control
  <2> QED  BY <1>0, <2>1, <2>2 DEF OpMethod, Exit
<1>9. CASE EndClass
  BY <1>9, NotClasses DEF EndClass, Fresh, DeclaredNew, TablesMade, Unmade, tables, classVars
<1>10. CASE Exit  BY <1>0, <1>10 DEF Exit
<1>11. CASE Host
  <2>0. Created \subseteq Class /\ \A c \in Created : c <= created
    BY DEF Created, Class, TypeOK
  <2> SUFFICES ASSUME HostTurn PROVE Fresh'
    BY <1>11 DEF Host, HostNewClass, HostRemoveGlobal, HostRemoveConstant, HostDefineConstant,
                 HostSetGlobal, HostDefineMethod, HostSetInitializer, HostDefineNative, HostSetParent
  <2>1. CASE \E n \in Name : HostNewClass(n)
    <3>1. PICK n \in Name : HostNewClass(n)  BY <2>1
    <3>2. TablesMade' /\ Unmade'
      BY <3>1 DEF HostNewClass, NewClass, Fresh, TablesMade, Unmade, TypeOK, tables, Class
    <3>3. DeclaredNew'
      BY <3>1 DEF HostNewClass, HostTurn, Fresh, DeclaredNew, control
    <3> QED  BY <3>2, <3>3 DEF Fresh
  <2>2. CASE \E n \in Name : HostRemoveGlobal(n) \/ HostRemoveConstant(n)
    <3>1. PICK n \in Name : HostRemoveGlobal(n) \/ HostRemoveConstant(n)  BY <2>2
    <3>2. TablesMade'
      BY <3>1, NotClasses, SMTT(30) DEF HostRemoveGlobal, HostRemoveConstant, Fresh, TablesMade, TypeOK, classVars
    <3> QED
      BY <3>1, <3>2 DEF HostRemoveGlobal, HostRemoveConstant, HostTurn, Fresh, DeclaredNew, Unmade,
                        classVars, control
  <2>3. CASE \E n \in Name, v \in Datum \union Created :
               HostDefineConstant(n, v) \/ \E r \in BOOLEAN : HostSetGlobal(n, v, r)
    <3>1. PICK n \in Name, v \in Datum \union Created :
               HostDefineConstant(n, v) \/ \E r \in BOOLEAN : HostSetGlobal(n, v, r)
      BY <2>3
    <3>2. v \in Class => v <= created  BY <2>0, NotClasses
    <3>3. /\ globals' = globals \/ globals' = [globals EXCEPT ![n] = v]
          /\ constants' = constants \/ constants' = [constants EXCEPT ![n] = v]
          /\ UNCHANGED <<classVars, control>>
      BY <3>1 DEF HostDefineConstant, HostSetGlobal
    <3>4. TablesMade'
      BY <3>2, <3>3 DEF Fresh, TablesMade, TypeOK, classVars
    <3> QED  BY <3>3, <3>4 DEF HostTurn, Fresh, DeclaredNew, Unmade, classVars, control
  <2>4. CASE \E c \in Created, f \in Function : HostDefineMethod(c, f)
    <3>1. PICK c \in Created, f \in Function : HostDefineMethod(c, f)  BY <2>4
    <3>2. \A d \in Class : d > created => methods'[d] = methods[d]
      BY <2>0, <3>1 DEF HostDefineMethod, TypeOK, Class
    <3> QED  BY <3>1, <3>2 DEF HostDefineMethod, HostTurn, Fresh, DeclaredNew, TablesMade, Unmade,
                               tables, control
  <2>5. CASE \E c \in Created, f \in Function : HostSetInitializer(c, f)
    BY <2>5 DEF HostSetInitializer, HostTurn, Fresh, DeclaredNew, TablesMade, Unmade, tables, control
  <2>6. CASE \E c \in Created, h \in Member : HostDefineNative(c, h)
    <3>1. PICK c \in Created, h \in Member : HostDefineNative(c, h)  BY <2>6
    <3>2. \A d \in Class : d > created => methods'[d] = methods[d]
      BY <2>0, <3>1 DEF HostDefineNative, TypeOK, Class
    <3> QED  BY <3>1, <3>2 DEF HostDefineNative, HostTurn, Fresh, DeclaredNew, TablesMade, Unmade,
                               tables, control
  <2>7. CASE \E c \in Created, p \in Created : HostSetParent(c, p)
    <3>1. PICK c \in Created, p \in Created : HostSetParent(c, p)  BY <2>7
    <3>2. \A d \in Class : d > created => parent'[d] = parent[d]
      BY <2>0, <3>1 DEF HostSetParent, TypeOK, Class
    <3> QED  BY <3>1, <3>2 DEF HostSetParent, HostTurn, Fresh, DeclaredNew, TablesMade, Unmade,
                               tables, control
  <2> QED  BY <1>11, <2>1, <2>2, <2>3, <2>4, <2>5, <2>6, <2>7 DEF Host
<1>12. CASE UNCHANGED vars  BY <1>0, <1>12 DEF vars
<1>13. ~ \E n \in Name : PushGlobalClass(n)  BY DEF PushGlobalClass
<1> QED
  BY <1>1, <1>2, <1>3, <1>4, <1>5, <1>6, <1>7, <1>8, <1>9, <1>10, <1>11, <1>12, <1>13
     DEF Next, Script

LEMMA AlwaysFresh == "alias" \notin Usage => (Spec => []Fresh)
<1> SUFFICES ASSUME "alias" \notin Usage PROVE Spec => []Fresh  OBVIOUS
<1>1. TypeOK /\ Fresh /\ [Next]_vars => Fresh'
  <2> SUFFICES ASSUME TypeOK, Fresh, [Next]_vars PROVE Fresh'  OBVIOUS
  <2>1. DeclaredNew /\ TablesMade /\ Unmade  BY DEF Fresh
  <2> QED  BY <2>1, StepFresh
<1> QED  BY <1>1, InitFresh, TypeCorrect, PTL DEF Spec

-----------------------------------------------------------------------------
(* What an extension gives the class that is extended: the members it had,     *)
(* and built-in ones.                                                          *)
LEMMA NewExtends ==
    ASSUME "alias" \notin Usage, TypeOK, DeclaredNew,
           NEW n \in Name, OpDefineGlobal(n), ~Exit
    PROVE  /\ \A c \in Class, h \in Member :
                 methods'[c][h] = methods[c][h] \/ methods'[c][h] \in {Native, Absent}
           /\ \A c \in Class, h \in Member \ Builtin :
                 methods[c][h] \in Function => methods'[c][h] = methods[c][h]
           /\ \A c \in Class : fields[c] \subseteq fields'[c]
<1> DEFINE old == IF globals[n] # Absent THEN globals[n] ELSE constants[n]
<1>1. CASE operand \in Class /\ old \in Class
  <2>1. DoClassExtension(operand, old)  BY <1>1 DEF OpDefineGlobal
  <2>2. Untouched(operand) /\ operand # old
    BY <1>1 DEF OpDefineGlobal, DeclaredNew, TypeOK
  <2> HIDE DEF old
  <2>3. \A h \in Member : methods[operand][h] = IF h \in Builtin THEN Native ELSE Absent
    BY <2>2 DEF Untouched, NewMethods
  <2>4. \A c \in Class : c # operand /\ c # old =>
          methods'[c] = methods[c] /\ fields'[c] = fields[c]
    BY <1>1, <2>1 DEF DoClassExtension, TypeOK
  <2>5. /\ \A h \in Member : methods'[operand][h] = Absent
        /\ \A h \in Member :
             methods'[old][h] = IF h \in Builtin THEN Native ELSE methods[old][h]
    BY <1>1, <2>1, <2>2, <2>3 DEF DoClassExtension, Moved, TypeOK
  <2>6. /\ \A h \in Member : methods'[operand][h] = Absent /\ methods[operand][h] \notin Function
        /\ fields[old] \subseteq fields'[old] /\ fields[operand] = {}
    BY <1>1, <2>1, <2>2, <2>3, <2>5 DEF DoClassExtension, TypeOK, Untouched
  <2> QED  BY <2>4, <2>5, <2>6
<1>2. CASE ~(operand \in Class /\ old \in Class)
  <2>1. methods' = methods /\ fields' = fields  BY <1>2 DEF OpDefineGlobal
  <2> QED  BY <2>1
<1> QED  BY <1>1, <1>2

LEMMA OtherInstructions ==
    ASSUME \/ \E n \in Name : \/ OpClass(n) \/ OpInherit(n) \/ OpDefineConstant(n)
                              \/ PushGlobalClass(n) \/ SetGlobal(n)
                              \/ \E h \in Member : SetClassField(n, h)
           \/ \E v \in (Datum \ Linked) \union {Null} : PushValue(v)
           \/ EndClass
    PROVE  UNCHANGED <<methods, home>>
<1>1. CASE \E n \in Name : OpClass(n)  BY <1>1 DEF OpClass, NewClass
<1>2. CASE \E n \in Name : OpInherit(n)  BY <1>2 DEF OpInherit, Exit, classVars
<1>3. CASE \E n \in Name : OpDefineConstant(n) \/ PushGlobalClass(n) \/ SetGlobal(n)
  BY <1>3 DEF OpDefineConstant, PushGlobalClass, SetGlobal, Exit, classVars
<1>4. CASE \E n \in Name, h \in Member : SetClassField(n, h)
  BY <1>4 DEF SetClassField, Exit, classVars
<1>5. CASE \E v \in (Datum \ Linked) \union {Null} : PushValue(v)
  BY <1>5 DEF PushValue, classVars
<1>6. CASE EndClass  BY <1>6 DEF EndClass, classVars
<1> QED  BY <1>1, <1>2, <1>3, <1>4, <1>5, <1>6

-----------------------------------------------------------------------------
(* The method tables and ObjFunction::Class.                                   *)

Homes == \A c \in Class, h \in Member : methods[c][h] \in Function => home[methods[c][h]] = c

LEMMA StepHomes ==
    ASSUME Usage \intersect {"alias", "rerun"} = {}, TypeOK, Fresh, DeclaredNew, Homes, [Next]_vars
    PROVE  Homes'
<1> USE DEF Homes
<1>0. CASE UNCHANGED <<methods, home>>  BY <1>0
<1>1. CASE \E n \in Name : OpDefineGlobal(n) /\ ~Exit
  <2>1. PICK n \in Name : OpDefineGlobal(n) /\ ~Exit  BY <1>1
  <2>2. home' = home  BY <2>1 DEF OpDefineGlobal
  <2> QED  BY <2>1, <2>2, NewExtends
<1>2. ASSUME NEW c \in Class, NEW f \in Function, home[f] = NoClass,
             methods' = [methods EXCEPT ![c][MethodName[f]] = f],
             home' = [home EXCEPT ![f] = c]
      PROVE  Homes'
  <2>1. \A d \in Class, h \in Member : methods[d][h] # f
    BY <1>2 DEF Class, NoClass
  <2>2. \A d \in Class, h \in Member :
          methods'[d][h] = IF d = c /\ h = MethodName[f] THEN f ELSE methods[d][h]
    BY <1>2 DEF TypeOK
  <2>3. \A e \in Function : home'[e] = IF e = f THEN c ELSE home[e]
    BY <1>2 DEF TypeOK
  <2> QED  BY <2>1, <2>2, <2>3
<1>3. CASE \E f \in Function : OpMethod(f) /\ ~Exit
  <2>1. PICK f \in Function : OpMethod(f) /\ ~Exit  BY <1>3
  <2>2. CASE UNCHANGED classVars  BY <1>0, <2>2 DEF classVars
  <2>3. CASE ~UNCHANGED classVars
    <3>1. GetGlobal(declaring) \in Class /\ DefineMethod(GetGlobal(declaring), f)
          /\ home[f] = NoClass
      BY <2>1, <2>3 DEF OpMethod
    <3> QED  BY <1>2, <3>1 DEF DefineMethod
  <2> QED  BY <2>2, <2>3
<1>4. CASE \/ \E n \in Name : \/ OpClass(n) \/ OpInherit(n) \/ OpDefineConstant(n)
                              \/ PushGlobalClass(n) \/ SetGlobal(n)
                              \/ \E h \in Member : SetClassField(n, h)
           \/ \E v \in (Datum \ Linked) \union {Null} : PushValue(v)
           \/ EndClass
  BY <1>0, <1>4, OtherInstructions
<1>5. CASE Exit  BY <1>0, <1>5 DEF Exit, classVars
<1>6. CASE Host
  <2>0. Created \subseteq Class  BY DEF Created, Class, TypeOK
  <2>1. CASE \E c \in Created, f \in Function : HostDefineMethod(c, f)
    BY <1>2, <2>0, <2>1 DEF HostDefineMethod
  <2>2. CASE \E c \in Created, h \in Member : HostDefineNative(c, h)
    <3>1. PICK c \in Created, h \in Member : HostDefineNative(c, h)  BY <2>2
    <3>2. \A d \in Class, i \in Member :
            methods'[d][i] = methods[d][i] \/ methods'[d][i] = Native
      BY <2>0, <3>1 DEF HostDefineNative, TypeOK
    <3> QED  BY <3>1, <3>2 DEF HostDefineNative
  <2>3. CASE ~ \E c \in Created : \/ \E f \in Function : HostDefineMethod(c, f)
                                   \/ \E h \in Member : HostDefineNative(c, h)
    BY <1>0, <1>6, <2>3 DEF Host, HostNewClass, NewClass, HostRemoveGlobal, HostRemoveConstant,
         HostDefineConstant, HostSetGlobal, HostSetInitializer, HostSetParent, classVars
  <2> QED  BY <2>1, <2>2, <2>3
<1>7. CASE UNCHANGED vars  BY <1>0, <1>7 DEF vars, classVars
<1> QED  BY <1>1, <1>3, <1>4, <1>5, <1>6, <1>7 DEF Next, Script

(* In a program that gives no class a second name and runs every module once,  *)
(* a method's super is above the class that holds the method, with any host    *)
(* that defines a function as the method of one class only.                    *)
THEOREM HomesHold == Usage \intersect {"alias", "rerun"} = {} => (Spec => []HomeIsHolder)
<1> SUFFICES ASSUME Usage \intersect {"alias", "rerun"} = {} PROVE Spec => []HomeIsHolder
  OBVIOUS
<1>0. Spec => []Fresh  BY AlwaysFresh
<1>1. Init => Homes  BY DEF Init, Homes, NewMethods, Class, Method
<1>2. TypeOK /\ Fresh /\ Homes /\ [Next]_vars => Homes'
  <2> SUFFICES ASSUME TypeOK, Fresh, Homes, [Next]_vars PROVE Homes'  OBVIOUS
  <2> QED  BY StepHomes DEF Fresh
<1>3. TypeOK /\ Homes => HomeIsHolder
  BY DEF Homes, HomeIsHolder, TypeOK, Created, Class
<1> QED  BY <1>0, <1>1, <1>2, <1>3, TypeCorrect, PTL DEF Spec

-----------------------------------------------------------------------------
(* No member is lost.                                                          *)

MemberKept(c) ==
    /\ fields[c] \subseteq fields'[c]
    /\ \A h \in Member \ Builtin :
         methods[c][h] \in Function => methods'[c][h] \in Function

LEMMA StepMembers ==
    ASSUME "alias" \notin Usage, TypeOK, DeclaredNew, [Next]_vars, NEW c \in Class
    PROVE  MemberKept(c)
<1> USE DEF MemberKept
<1>0. CASE UNCHANGED <<methods, fields>>  BY <1>0
<1>1. CASE \E n \in Name : OpDefineGlobal(n) /\ ~Exit
  BY <1>1, NewExtends
<1>2. CASE \E n \in Name : OpClass(n) \/ OpInherit(n) \/ OpDefineConstant(n) \/ SetGlobal(n)
  <2>1. CASE \E n \in Name : OpClass(n)  BY <1>0, <2>1 DEF OpClass, NewClass
  <2>2. CASE \E n \in Name : OpInherit(n)  BY <1>0, <2>2 DEF OpInherit, Exit, classVars
  <2>3. CASE \E n \in Name : OpDefineConstant(n) \/ SetGlobal(n)
    BY <1>0, <2>3 DEF OpDefineConstant, SetGlobal, Exit, classVars
  <2> QED  BY <1>2, <2>1, <2>2, <2>3
<1>3. CASE \E n \in Name : PushGlobalClass(n)  BY <1>3 DEF PushGlobalClass
<1>4. CASE \E n \in Name, h \in Member : SetClassField(n, h)
  BY <1>4 DEF SetClassField, TypeOK, Exit, classVars
<1>5. CASE \E v \in (Datum \ Linked) \union {Null} : PushValue(v)
  BY <1>0, <1>5 DEF PushValue, classVars
<1>6. ASSUME NEW d, NEW h \in Member, NEW m \in Method, m \in Function \/ methods[d][h] \notin Function,
             methods' = [methods EXCEPT ![d][h] = m], fields' = fields
      PROVE  MemberKept(c)
  BY <1>6 DEF TypeOK
<1>7. CASE \E f \in Function : OpMethod(f)
  <2>1. PICK f \in Function : OpMethod(f)  BY <1>7
  <2>2. CASE UNCHANGED classVars  BY <1>0, <2>2 DEF classVars
  <2>3. CASE DefineMethod(GetGlobal(declaring), f)
    BY <1>6, <2>3 DEF DefineMethod, Method
  <2> QED  BY <2>1, <2>2, <2>3 DEF OpMethod, Exit
<1>8. CASE EndClass  BY <1>0, <1>8 DEF EndClass, classVars
<1>9. CASE Host
  <2>1. CASE \E d \in Created, f \in Function : HostDefineMethod(d, f)
    BY <1>6, <2>1 DEF HostDefineMethod, Method
  <2>2. CASE \E d \in Created, h \in Member : HostDefineNative(d, h)
    BY <1>6, <2>2 DEF HostDefineNative, Method
  <2>3. CASE \E n \in Name : HostNewClass(n) \/ HostRemoveGlobal(n) \/ HostRemoveConstant(n)
    BY <1>0, <2>3 DEF HostNewClass, NewClass, HostRemoveGlobal, HostRemoveConstant, classVars
  <2>4. CASE \E n \in Name, v \in Datum \union Created :
               HostDefineConstant(n, v) \/ \E r \in BOOLEAN : HostSetGlobal(n, v, r)
    BY <1>0, <2>4 DEF HostDefineConstant, HostSetGlobal, classVars
  <2>5. CASE \E d \in Created : \/ \E f \in Function : HostSetInitializer(d, f)
                                \/ \E p \in Created : HostSetParent(d, p)
    BY <1>0, <2>5 DEF HostSetInitializer, HostSetParent
  <2> QED  BY <1>9, <2>1, <2>2, <2>3, <2>4, <2>5 DEF Host
<1>10. CASE Exit \/ UNCHANGED vars  BY <1>0, <1>10 DEF Exit, vars, classVars
<1> QED
  BY <1>1, <1>2, <1>3, <1>4, <1>5, <1>7, <1>8, <1>9, <1>10 DEF Next, Script

(* However often a program declares its classes again, and whatever the host   *)
(* does between two statements, no class loses a field or a method of a script.*)
THEOREM MembersStay == "alias" \notin Usage => (Spec => MembersKept)
<1> SUFFICES ASSUME "alias" \notin Usage PROVE Spec => MembersKept  OBVIOUS
<1>0. Spec => []Fresh  BY AlwaysFresh
<1>1. TypeOK /\ Fresh /\ [Next]_vars =>
        [\A c \in Class :
           /\ fields[c] \subseteq fields'[c]
           /\ \A h \in Member \ Builtin :
                methods[c][h] \in Function => methods'[c][h] \in Function]_vars
  BY StepMembers DEF MemberKept, Fresh
<1> QED  BY <1>0, <1>1, TypeCorrect, PTL DEF Spec, MembersKept

-----------------------------------------------------------------------------
(* Parents are older than their children.                                      *)

DeclaredParent ==
    /\ stage = "class" => parent[operand] = NoClass
    /\ stage = "parent" /\ GetGlobal(declaring) \in Class =>
          parent[operand] < GetGlobal(declaring)

Older == \A c \in Class : parent[c] < c

ParentsInv == Older /\ DeclaredParent

LEMMA StepParents ==
    ASSUME Usage \intersect {"alias", "late_parent"} = {}, TypeOK, NameOnce, DeclaredNew,
           TablesMade, Unmade, Older, DeclaredParent, [Next]_vars
    PROVE  ParentsInv'
<1> USE DEF ParentsInv
<1>0. CASE UNCHANGED <<tables, parent, operand, declaring, stage>>
  BY <1>0 DEF Older, DeclaredParent, GetGlobal, tables
<1>a. ASSUME parent' = parent, stage' \in {"free", "body"}  PROVE ParentsInv'
  BY <1>a DEF Older, DeclaredParent
<1>1. CASE \E n \in Name : OpClass(n)
  <2>1. PICK n \in Name : OpClass(n)  BY <1>1
  <2>2. created + 1 \in Class /\ parent[created + 1] = NoClass
    BY <2>1, NewClassTypes DEF OpClass, Unmade, TypeOK
  <2> QED  BY <2>1, <2>2 DEF OpClass, NewClass, Older, DeclaredParent
<1>2. CASE \E s \in Name : OpInherit(s) /\ ~Exit
  <2>1. PICK s \in Name : OpInherit(s) /\ ~Exit  BY <1>2
  <2>2. /\ stage = "class" /\ stage' = "parent"
        /\ UNCHANGED <<operand, declaring, tables>>
    BY <2>1 DEF OpInherit
  <2>3. operand = created /\ created \in Class /\ hash[created] = declaring /\ declaring \in Name
        /\ globals[s] # created
    BY <2>2 DEF DeclaredNew
  <2>4. CASE parent' = parent
    <3>1. parent'[operand'] = NoClass  BY <2>2, <2>4 DEF DeclaredParent
    <3>2. GetGlobal(declaring)' = GetGlobal(declaring)  BY <2>2 DEF GetGlobal, tables
    <3> QED  BY <2>2, <2>4, <3>1, <3>2 DEF DeclaredParent, Older, NoClass, Class
  <2>5. CASE parent' = [parent EXCEPT ![operand] = globals[s]] /\ hash[operand] # s /\ globals[s] \in Class
    <3>1. Declares(s) /\ s # declaring  BY <2>1, <2>3, <2>5 DEF OpInherit
    <3>2. GetGlobal(declaring) \in Class => globals[s] < GetGlobal(declaring)
      BY <2>5, <3>1 DEF Declares
    <3>3. globals[s] < created  BY <2>3, <2>5 DEF TablesMade, Class
    <3>4. parent'[created] = globals[s] /\ \A c \in Class : c # created => parent'[c] = parent[c]
      BY <2>3, <2>5 DEF TypeOK
    <3>5. Older'  BY <2>3, <3>3, <3>4 DEF Older
    <3>6. GetGlobal(declaring)' = GetGlobal(declaring)  BY <2>2 DEF GetGlobal, tables
    <3>7. DeclaredParent'  BY <2>2, <2>3, <3>2, <3>4, <3>6 DEF DeclaredParent
    <3> QED  BY <3>5, <3>7
  <2> QED  BY <2>1, <2>4, <2>5 DEF OpInherit
<1>3. CASE \E n \in Name : OpDefineGlobal(n) /\ ~Exit
  <2>1. PICK n \in Name : OpDefineGlobal(n) /\ ~Exit  BY <1>3
  <2> DEFINE old == IF globals[n] # Absent THEN globals[n] ELSE constants[n]
  <2>2. stage' \in {"free", "body"}  BY <2>1 DEF OpDefineGlobal
  <2>3. CASE operand \in Class /\ old \in Class
    <3>1. DoClassExtension(operand, old)  BY <2>1, <2>3 DEF OpDefineGlobal
    <3>2. stage \in {"class", "parent"} /\ n = declaring
      BY <2>1, <2>3 DEF OpDefineGlobal, DeclaredNew, TypeOK
    <3>3. old = GetGlobal(n)
      BY <2>3, NotClasses DEF NameOnce, GetGlobal, TypeOK
    <3>4. parent[operand] < old
      BY <2>3, <3>2, <3>3 DEF DeclaredParent, Class, NoClass
    <3> HIDE DEF old
    <3>5. \A c \in Class : parent'[c] = parent[c] \/ (c = old /\ parent'[c] = parent[operand])
      BY <2>3, <3>1 DEF DoClassExtension, TypeOK
    <3> QED  BY <2>2, <3>4, <3>5 DEF Older, DeclaredParent
  <2>4. CASE ~(operand \in Class /\ old \in Class)
    BY <1>a, <2>1, <2>2, <2>4 DEF OpDefineGlobal
  <2> QED  BY <2>3, <2>4
<1>4. CASE \E n \in Name : (OpDefineConstant(n) \/ SetGlobal(n)) /\ ~Exit
  BY <1>a, <1>4 DEF OpDefineConstant, SetGlobal, classVars
<1>5. CASE \E n \in Name, h \in Member : SetClassField(n, h) /\ ~Exit
  BY <1>0, <1>5 DEF SetClassField, control, tables
<1>6. CASE \E v \in (Datum \ Linked) \union {Null} : PushValue(v)
  BY <1>a, <1>6 DEF PushValue, classVars
<1>7. CASE \E f \in Function : OpMethod(f)
  BY <1>0, <1>7 DEF OpMethod, DefineMethod, Exit, classVars, control, tables
<1>8. CASE EndClass \/ Exit \/ UNCHANGED vars
  BY <1>0, <1>a, <1>8 DEF EndClass, Exit, vars, classVars, control, tables
<1>9. CASE Host
  <2>1. CASE \E c \in Created, p \in Created : HostSetParent(c, p)
    <3>1. PICK c \in Created, p \in Created : HostSetParent(c, p)  BY <2>1
    <3>2. p < c /\ stage' = "free" /\ parent' = [parent EXCEPT ![c] = p]
      BY <3>1 DEF HostSetParent, HostTurn, control
    <3>3. Older'  BY <3>2 DEF Older, TypeOK
    <3> QED  BY <3>2, <3>3 DEF DeclaredParent
  <2>2. CASE ~ \E c \in Created, p \in Created : HostSetParent(c, p)
    <3>1. parent' = parent /\ stage' = "free"
      BY <1>9, <2>2 DEF Host, HostTurn, HostNewClass, NewClass, HostRemoveGlobal, HostRemoveConstant,
           HostDefineConstant, HostSetGlobal, HostDefineMethod, HostDefineNative,
           HostSetInitializer, classVars, control
    <3> QED  BY <1>a, <3>1
  <2> QED  BY <2>1, <2>2
<1>10. ~ \E n \in Name : PushGlobalClass(n)  BY DEF PushGlobalClass
<1> QED
  BY <1>1, <1>2, <1>3, <1>4, <1>5, <1>6, <1>7, <1>8, <1>9, <1>10 DEF Next, Script

(* A class that is not made yet has no parent, and OP_INHERIT gives the class   *)
(* it declares one that its declaration may hand on (DeclaredParent): so every *)
(* class is younger than its parent, which the walks up below rest on.         *)
LEMMA AlwaysOlder ==
    Usage \intersect {"alias", "late_parent"} = {} => (Spec => []Older)
<1> SUFFICES ASSUME Usage \intersect {"alias", "late_parent"} = {} PROVE Spec => []Older
  OBVIOUS
<1>0. Spec => []Fresh  BY AlwaysFresh
<1>1. Init => ParentsInv
  BY DEF Init, ParentsInv, Older, DeclaredParent, Class, NoClass
<1>2. TypeOK /\ NameOnce /\ Fresh /\ ParentsInv /\ [Next]_vars => ParentsInv'
  <2> SUFFICES ASSUME TypeOK, NameOnce, Fresh, ParentsInv, [Next]_vars PROVE ParentsInv'
    OBVIOUS
  <2> QED  BY StepParents DEF Fresh, ParentsInv
<1>3. ParentsInv => Older  BY DEF ParentsInv
<1> QED  BY <1>0, <1>1, <1>2, <1>3, TypeCorrect, NamesOnce, PTL DEF Spec

(* In a program that gives no class a second name and never declares a class   *)
(* again with a younger parent, every parent was made before its children: no  *)
(* walk up Parent comes back to where it began.                                *)
THEOREM ParentsAreOlder ==
    Usage \intersect {"alias", "late_parent"} = {} => (Spec => []ParentOlder)
<1>1. TypeOK /\ Older => ParentOlder
  BY DEF Older, ParentOlder, TypeOK, Created, Class
<1> QED  BY <1>1, AlwaysOlder, TypeCorrect, PTL

-----------------------------------------------------------------------------
(* The way up from a class. *)

Less == {p \in Nat \X Nat : p[1] < p[2]}

LEMMA Least ==
    ASSUME NEW T \in SUBSET Nat, T # {}
    PROVE  \E x \in T : \A y \in T : x <= y
<1>0. IsWellFoundedOn(Less, Nat)
  BY NatLessThanWellFounded, Zenon DEF OpToRel, Less
<1>1. PICK x \in T : \A y \in T : <<y, x>> \notin Less  BY <1>0, WFMin, Zenon
<1>2. ASSUME NEW y \in T  PROVE x <= y
  <2>1. x \in Nat /\ y \in Nat  OBVIOUS
  <2>2. y < x => <<y, x>> \in Less  BY <2>1 DEF Less
  <2> QED  BY <1>1, <2>1, <2>2
<1> QED  BY <1>2

Up(c) == IF c = NoClass THEN NoClass ELSE parent[c]

(* f is the way up from c, as far as its k-th class. *)
WayUp(f, c, k) == f[0] = c /\ \A j \in 1 .. k : f[j] = Up(f[j - 1])

LEMMA WayExists ==
    ASSUME NEW c, NEW k \in Nat
    PROVE  \E f : WayUp(f, c, k)
<1> DEFINE T == {j \in Nat : ~ \E f : WayUp(f, c, j)}
<1> SUFFICES ASSUME T # {} PROVE FALSE  OBVIOUS
<1>1. PICK n \in T : \A j \in T : n <= j  BY Least, Zenon
<1>2. n # 0
  <2>1. WayUp([j \in {0} |-> c], c, 0)  BY DEF WayUp
  <2> QED  BY <2>1
<1>3. n \in Nat /\ n - 1 \in Nat /\ n - 1 \notin T  BY <1>1, <1>2
<1>4. PICK f : WayUp(f, c, n - 1)  BY <1>3
<1> DEFINE g == [j \in 0 .. n |-> IF j = n THEN Up(f[n - 1]) ELSE f[j]]
<1>5. WayUp(g, c, n)
  <2>1. g[0] = c  BY <1>2, <1>3, <1>4 DEF WayUp
  <2>2. ASSUME NEW j \in 1 .. n PROVE g[j] = Up(g[j - 1])
    <3>1. g[j - 1] = f[j - 1]  BY <1>3, <2>2
    <3>2. CASE j = n  BY <1>3, <2>2, <3>1, <3>2
    <3>3. CASE j # n
      <4>1. j \in 1 .. n - 1 /\ g[j] = f[j]  BY <1>3, <2>2, <3>3
      <4>2. f[j] = Up(f[j - 1])  BY <1>4, <4>1 DEF WayUp
      <4> QED  BY <3>1, <4>1, <4>2
    <3> QED  BY <3>2, <3>3
  <2> QED  BY <2>1, <2>2 DEF WayUp
<1> QED  BY <1>1, <1>5

LEMMA AncestorUp ==
    ASSUME NEW c
    PROVE  WayUp(Ancestor(c), c, MaxClasses)
<1> DEFINE Rule(f) == [k \in 0 .. MaxClasses |->
                         IF k = 0 THEN c
                         ELSE IF f[k - 1] = NoClass THEN NoClass ELSE parent[f[k - 1]]]
<1>1. PICK f : WayUp(f, c, MaxClasses)  BY WayExists
<1> DEFINE g == [k \in 0 .. MaxClasses |-> f[k]]
<1>2. g = Rule(g)
  <2>1. ASSUME NEW k \in 0 .. MaxClasses
        PROVE  g[k] = Rule(g)[k]
    <3>1. CASE k = 0  BY <1>1, <3>1 DEF WayUp
    <3>2. CASE k # 0
      <4>1. k \in 1 .. MaxClasses /\ k - 1 \in 0 .. MaxClasses  BY <3>2
      <4>2. f[k] = Up(f[k - 1])  BY <1>1, <4>1 DEF WayUp
      <4> QED  BY <3>2, <4>1, <4>2 DEF Up
    <3> QED  BY <3>1, <3>2
  <2> QED  BY <2>1
<1>3. Ancestor(c) = CHOOSE h : h = Rule(h)  BY Zenon DEF Ancestor
<1> HIDE DEF Rule, g
<1>4. Ancestor(c) = Rule(Ancestor(c))  BY <1>2, <1>3, Zenon
<1>5. ASSUME NEW j \in 0 .. MaxClasses
      PROVE  Ancestor(c)[j] = IF j = 0 THEN c
                              ELSE IF Ancestor(c)[j - 1] = NoClass THEN NoClass
                                   ELSE parent[Ancestor(c)[j - 1]]
  <2> DEFINE a == Ancestor(c)
  <2>1. a = Rule(a)  BY <1>4
  <2> HIDE DEF a
  <2>2. a[j] = IF j = 0 THEN c ELSE IF a[j - 1] = NoClass THEN NoClass ELSE parent[a[j - 1]]
    BY <2>1, <1>5, Zenon DEF Rule
  <2> QED  BY <2>2 DEF a
<1> QED  BY <1>5 DEF WayUp, Up

(* Above a class there are only older ones, so the way up has ended before     *)
(* MaxClasses steps.                                                           *)
LEMMA AncestorOlder ==
    ASSUME TypeOK, Older, NEW c \in Class, NEW k \in 0 .. MaxClasses
    PROVE  /\ Ancestor(c)[k] \in Class \union {NoClass}
           /\ Ancestor(c)[k] # NoClass => Ancestor(c)[k] + k <= c
<1> DEFINE a == Ancestor(c)
           Good(j) == a[j] \in Class \union {NoClass} /\ (a[j] # NoClass => a[j] + j <= c)
           T == {j \in 0 .. MaxClasses : ~Good(j)}
<1>1. WayUp(a, c, MaxClasses)  BY AncestorUp
<1> HIDE DEF a
<1> SUFFICES ASSUME T # {} PROVE FALSE  BY DEF a
<1>2. PICK n \in T : \A j \in T : n <= j
  <2>1. T \in SUBSET Nat  OBVIOUS
  <2> QED  BY <2>1, Least, Zenon
<1>3. n # 0
  <2>1. a[0] = c  BY <1>1 DEF WayUp
  <2>2. Good(0)  BY <2>1 DEF Class
  <2> QED  BY <2>2
<1>4. n \in 1 .. MaxClasses /\ n - 1 \in 0 .. MaxClasses  BY <1>2, <1>3
<1>5. n - 1 \notin T  BY <1>2, <1>4
<1>6. Good(n - 1)  BY <1>4, <1>5
<1>7. a[n] = Up(a[n - 1])  BY <1>1, <1>4 DEF WayUp
<1>8. Good(n)
  <2>1. CASE a[n - 1] = NoClass  BY <1>7, <2>1 DEF Up
  <2>2. CASE a[n - 1] # NoClass
    <3>1. a[n - 1] \in Class /\ a[n - 1] + (n - 1) <= c  BY <1>6, <2>2
    <3>2. a[n] = parent[a[n - 1]]  BY <1>7, <2>2 DEF Up
    <3>3. a[n] \in Class \union {NoClass} /\ a[n] < a[n - 1]
      BY <3>1, <3>2 DEF TypeOK, Older
    <3> QED  BY <1>4, <3>1, <3>3 DEF Class, NoClass
  <2> QED  BY <2>1, <2>2
<1> QED  BY <1>2, <1>8

(* The way up from a parent is the rest of the way up from the class.          *)
LEMMA AncestorShift ==
    ASSUME NEW c \in Class, NEW k \in 0 .. MaxClasses - 1
    PROVE  Ancestor(parent[c])[k] = Ancestor(c)[k + 1]
<1> DEFINE a == Ancestor(c)
           b == Ancestor(parent[c])
           T == {j \in 0 .. MaxClasses - 1 : b[j] # a[j + 1]}
<1>1. WayUp(a, c, MaxClasses) /\ WayUp(b, parent[c], MaxClasses)  BY AncestorUp
<1> HIDE DEF a, b
<1> SUFFICES ASSUME T # {} PROVE FALSE  BY DEF a, b
<1>2. PICK n \in T : \A j \in T : n <= j
  <2>1. T \in SUBSET Nat  OBVIOUS
  <2> QED  BY <2>1, Least, Zenon
<1>3. n # 0
  <2>1. a[0] = c /\ b[0] = parent[c] /\ a[1] = Up(a[0])
    <3>1. 1 \in 1 .. MaxClasses /\ 1 - 1 = 0  OBVIOUS
    <3>2. a[1] = Up(a[1 - 1])  BY <1>1, <3>1 DEF WayUp
    <3> QED  BY <1>1, <3>1, <3>2 DEF WayUp
  <2>2. b[0] = a[0 + 1]  BY <2>1 DEF Up, Class, NoClass
  <2> QED  BY <2>2
<1>4. n \in 1 .. MaxClasses /\ n + 1 \in 1 .. MaxClasses /\ n - 1 \in 0 .. MaxClasses - 1
  BY <1>2, <1>3
<1>5. b[n - 1] = a[n - 1 + 1] /\ n - 1 + 1 = n /\ n + 1 - 1 = n
  <2>1. n - 1 \notin T  BY <1>2, <1>4
  <2> QED  BY <1>4, <2>1
<1>6. b[n] = Up(b[n - 1])  BY <1>1, <1>4 DEF WayUp
<1>7. a[n + 1] = Up(a[n + 1 - 1])  BY <1>1, <1>4 DEF WayUp
<1>8. b[n] = a[n + 1]  BY <1>5, <1>6, <1>7
<1> QED  BY <1>2, <1>8

(* The first class of a set on the way up: the class itself, or the first on   *)
(* the way up from its parent.                                                 *)
IsNearest(c, S, k) ==
    /\ k \in 0 .. MaxClasses /\ Ancestor(c)[k] \in S
    /\ \A j \in 0 .. MaxClasses : Ancestor(c)[j] \in S => k <= j

LEMMA NearestFirst ==
    ASSUME NEW c \in Class, NEW S, NEW k, IsNearest(c, S, k)
    PROVE  Nearest(c, S) = Ancestor(c)[k]
<1> DEFINE hits == {j \in 0 .. MaxClasses : Ancestor(c)[j] \in S}
<1>1. k \in hits /\ \A j \in hits : k <= j  BY DEF IsNearest
<1>2. c # NoClass  BY DEF Class, NoClass
<1>3. Nearest(c, S) = Ancestor(c)[CHOOSE n \in hits : \A j \in hits : n <= j]
  BY <1>1, <1>2, Zenon DEF Nearest
<1>4. ASSUME NEW n \in hits, \A j \in hits : n <= j PROVE n = k
  <2>1. n <= k /\ k <= n  BY <1>1, <1>4, Zenon
  <2>2. n \in Int /\ k \in Int  BY <1>1
  <2> QED  BY <2>1, <2>2
<1> HIDE DEF hits
<1>5. (CHOOSE n \in hits : \A j \in hits : n <= j) = k  BY <1>1, <1>4, Zenon
<1> QED  BY <1>3, <1>5

LEMMA NearestNone ==
    ASSUME NEW c, NEW S, c = NoClass \/ \A j \in 0 .. MaxClasses : Ancestor(c)[j] \notin S
    PROVE  Nearest(c, S) = NoClass
<1>1. CASE c = NoClass  BY <1>1, Zenon DEF Nearest
<1>2. CASE \A j \in 0 .. MaxClasses : Ancestor(c)[j] \notin S  
  <2>1. {j \in 0 .. MaxClasses : Ancestor(c)[j] \in S} = {}  BY <1>2, Zenon
  <2> QED  BY <2>1, Zenon DEF Nearest
<1> QED  BY <1>1, <1>2

LEMMA NearestFound ==
    ASSUME NEW c \in Class, NEW S
    PROVE  \/ \A j \in 0 .. MaxClasses : Ancestor(c)[j] \notin S
           \/ \E k : IsNearest(c, S, k)
<1> DEFINE hits == {j \in 0 .. MaxClasses : Ancestor(c)[j] \in S}
<1>1. CASE hits = {}  BY <1>1
<1>2. CASE hits # {}
  <2>1. hits \in SUBSET Nat  OBVIOUS
  <2>2. PICK k \in hits : \A j \in hits : k <= j  BY <1>2, <2>1, Least, Zenon
  <2>3. IsNearest(c, S, k)  BY <2>2 DEF IsNearest
  <2> QED  BY <2>3
<1> QED  BY <1>1, <1>2

LEMMA NearestUp ==
    ASSUME TypeOK, Older, NEW c \in Class, NEW S \in SUBSET Class
    PROVE  Nearest(c, S) = IF c \in S THEN c ELSE Nearest(parent[c], S)
<1> DEFINE a == Ancestor(c)
           p == parent[c]
           b == Ancestor(p)
<1>0. p \in Class \union {NoClass} /\ NoClass \notin S /\ 0 \in 0 .. MaxClasses
  BY DEF TypeOK, Class, NoClass
<1>1. a[0] = c /\ b[0] = p  BY AncestorUp DEF WayUp
<1>2. \A k \in 0 .. MaxClasses - 1 : b[k] = a[k + 1]  BY AncestorShift
<1>3. p \in Class => b[MaxClasses] = NoClass
  <2>1. ASSUME p \in Class, b[MaxClasses] # NoClass PROVE FALSE
    <3>1. MaxClasses \in 0 .. MaxClasses  OBVIOUS
    <3>2. b[MaxClasses] \in Class /\ b[MaxClasses] + MaxClasses <= p
      BY <2>1, <3>1, AncestorOlder
    <3> QED  BY <2>1, <3>2 DEF Class
  <2> QED  BY <2>1
<1> HIDE DEF a, b, p
<1>4. CASE c \in S
  <2>1. IsNearest(c, S, 0)  BY <1>0, <1>1, <1>4 DEF IsNearest, a
  <2> QED  BY <1>1, <1>4, <2>1, NearestFirst DEF a
<1>5. CASE c \notin S /\ p = NoClass
  <2>1. Nearest(p, S) = NoClass  BY <1>5, NearestNone
  <2>2. \A k \in 0 .. MaxClasses : a[k] \notin S
    <3>1. ASSUME NEW k \in 0 .. MaxClasses, a[k] \in S PROVE FALSE
      <4>1. k # 0  BY <1>1, <1>5, <3>1
      <4>2. a[k] \in Class /\ a[k] + k <= c /\ 0 + 1 \in 0 .. MaxClasses  
        BY <1>0, <3>1, AncestorOlder DEF a
      <4>3. b = Ancestor(NoClass)  BY <1>5 DEF b
      <4>4. WayUp(b, NoClass, MaxClasses)  BY <4>3, AncestorUp
      <4>5. k - 1 \in 0 .. MaxClasses - 1 /\ k - 1 + 1 = k  BY <3>1, <4>1
      <4>6. a[k] = b[k - 1]  BY <1>2, <4>5
      <4>7. b[k - 1] = NoClass
        <5> DEFINE T == {j \in 0 .. MaxClasses : b[j] # NoClass}
        <5> SUFFICES ASSUME T # {} PROVE FALSE  BY <4>5
        <5>1. T \in SUBSET Nat  OBVIOUS
        <5>2. PICK n \in T : \A j \in T : n <= j  BY <5>1, Least, Zenon
        <5>3. n # 0  BY <4>4, <5>2 DEF WayUp
        <5>4. n \in 1 .. MaxClasses /\ n - 1 \in 0 .. MaxClasses /\ n - 1 \notin T
          BY <5>2, <5>3
        <5>5. b[n] = Up(b[n - 1]) /\ b[n - 1] = NoClass  BY <4>4, <5>4 DEF WayUp
        <5> QED  BY <5>2, <5>5 DEF Up
      <4> QED  BY <1>0, <3>1, <4>6, <4>7
    <3> QED  BY <3>1
  <2> QED  BY <1>5, <2>1, <2>2, NearestNone DEF a, p
<1>6. CASE c \notin S /\ p \in Class
  <2>1. CASE \A j \in 0 .. MaxClasses : b[j] \notin S
    <3>1. ASSUME NEW k \in 0 .. MaxClasses PROVE a[k] \notin S
      <4>1. CASE k = 0  BY <1>1, <1>6, <4>1
      <4>2. CASE k # 0
        <5>1. k - 1 \in 0 .. MaxClasses - 1 /\ k - 1 + 1 = k  BY <3>1, <4>2
        <5>2. a[k] = b[k - 1]  BY <1>2, <5>1
        <5> QED  BY <2>1, <5>1, <5>2
      <4> QED  BY <4>1, <4>2
    <3>2. Nearest(c, S) = NoClass  BY <3>1, NearestNone DEF a
    <3>3. Nearest(p, S) = NoClass  BY <2>1, NearestNone DEF b
    <3> QED  BY <1>6, <3>2, <3>3 DEF p
  <2>2. CASE \E k : IsNearest(p, S, k)
    <3>1. PICK k : IsNearest(p, S, k)  BY <2>2
    <3>2. k \in 0 .. MaxClasses /\ b[k] \in S
          /\ \A j \in 0 .. MaxClasses : b[j] \in S => k <= j
      BY <3>1 DEF IsNearest, b
    <3>3. k # MaxClasses  BY <1>0, <1>3, <1>6, <3>2
    <3>4. k \in 0 .. MaxClasses - 1 /\ k + 1 \in 0 .. MaxClasses /\ a[k + 1] = b[k]
      BY <1>2, <3>2, <3>3
    <3>5. ASSUME NEW j \in 0 .. MaxClasses, a[j] \in S PROVE k + 1 <= j
      <4>1. j # 0  BY <1>1, <1>6, <3>5
      <4>2. j - 1 \in 0 .. MaxClasses - 1 /\ j - 1 + 1 = j  BY <3>5, <4>1
      <4>3. b[j - 1] = a[j]  BY <1>2, <4>2
      <4>4. k <= j - 1  BY <3>2, <3>5, <4>2, <4>3
      <4> QED  BY <3>4, <4>4
    <3>6. IsNearest(c, S, k + 1)  BY <3>2, <3>4, <3>5 DEF IsNearest, a
    <3>7. Nearest(c, S) = a[k + 1]  BY <3>6, NearestFirst DEF a
    <3>8. Nearest(p, S) = b[k]  BY <1>6, <3>1, NearestFirst DEF b
    <3> QED  BY <1>6, <3>4, <3>7, <3>8 DEF p
  <2> QED  BY <1>6, <2>1, <2>2, NearestFound DEF b
<1> QED  BY <1>0, <1>4, <1>5, <1>6

-----------------------------------------------------------------------------
(* No class is its own ancestor, and super goes up.                            *)

(* In a program that gives no class a second name and never declares a class   *)
(* again with a younger parent, every walk up Parent ends and passes no class  *)
(* twice, for any number of classes.                                           *)
THEOREM NoCircles ==
    Usage \intersect {"alias", "late_parent"} = {} => (Spec => []NoOwnAncestor)
<1> SUFFICES ASSUME Usage \intersect {"alias", "late_parent"} = {}
             PROVE Spec => []NoOwnAncestor
  OBVIOUS
<1>0. Spec => []Older  BY AlwaysOlder
<1>1. TypeOK /\ Older => NoOwnAncestor
  <2> SUFFICES ASSUME TypeOK, Older, NEW c \in Created, NEW k \in 1 .. MaxClasses
               PROVE  Ancestor(c)[k] # c
    BY DEF NoOwnAncestor
  <2>1. c \in Class /\ k \in 0 .. MaxClasses  BY DEF TypeOK, Created, Class
  <2>2. Ancestor(c)[k] # NoClass => Ancestor(c)[k] + k <= c  BY <2>1, AncestorOlder
  <2> QED  BY <2>1, <2>2 DEF Class, NoClass
<1> QED  BY <1>0, <1>1, TypeCorrect, PTL DEF Spec

(* What the walk up finds is in the set and no younger than where it began.    *)
LEMMA NearestIn ==
    ASSUME TypeOK, Older, NEW c \in Class \union {NoClass}, NEW S \in SUBSET Class,
           Nearest(c, S) # NoClass
    PROVE  Nearest(c, S) \in S /\ Nearest(c, S) <= c /\ c \in Class
<1>1. c \in Class  BY NearestNone
<1>2. PICK k : IsNearest(c, S, k)  BY <1>1, NearestFound, NearestNone
<1>3. k \in 0 .. MaxClasses /\ Ancestor(c)[k] \in S  BY <1>2 DEF IsNearest
<1>4. Nearest(c, S) = Ancestor(c)[k]  BY <1>1, <1>2, NearestFirst
<1>5. Ancestor(c)[k] + k <= c  BY <1>1, <1>3, AncestorOlder DEF Class, NoClass
<1>6. \A a \in Class, j \in Nat, b \in Class : a + j <= b => a <= b  BY DEF Class
<1>7. Ancestor(c)[k] <= c /\ k \in Nat  BY <1>1, <1>3, <1>5, <1>6
<1> QED  BY <1>1, <1>3, <1>4, <1>7

LEMMA Holders ==
    ASSUME TypeOK, NEW h \in Member
    PROVE  /\ HaveMethod(h) \in SUBSET Class /\ HaveField(h) \in SUBSET Class
           /\ HaveMethod(h) \union HaveField(h) \in SUBSET Class
           /\ NoClass \notin HaveMethod(h) \union HaveField(h)
  BY DEF TypeOK, HaveMethod, HaveField, Created, Class, NoClass

(* Unless a class gets a second name, is declared again with a younger parent, *)
(* or a module runs twice, the method that super finds is never the method     *)
(* that calls it: with any number of classes a chain of super calls ends.      *)
THEOREM SuperEnds ==
    Usage \intersect {"alias", "late_parent", "rerun"} = {} => (Spec => []SuperGoesUp)
<1> SUFFICES ASSUME Usage \intersect {"alias", "late_parent", "rerun"} = {}
             PROVE Spec => []SuperGoesUp
  OBVIOUS
<1>0. (Spec => []Older) /\ (Spec => []HomeIsHolder)  BY AlwaysOlder, HomesHold
<1>1. TypeOK /\ Older /\ HomeIsHolder => SuperGoesUp
  <2> SUFFICES ASSUME TypeOK, Older, HomeIsHolder, NEW c \in Created, NEW h \in Member,
                      methods[c][h] \in Function,
                      SuperInvoke(methods[c][h], h)[2] = "method"
               PROVE  methods[SuperInvoke(methods[c][h], h)[1]][h] # methods[c][h]
    BY DEF SuperGoesUp
  <2> DEFINE f == methods[c][h]
             S == HaveMethod(h) \union HaveField(h)
             d == Nearest(parent[c], S)
  <2>1. c \in Class /\ c # NoClass /\ parent[c] \in Class \union {NoClass} /\ parent[c] < c
    BY DEF TypeOK, Created, Class, NoClass, Older
  <2>2. home[f] = c  BY DEF HomeIsHolder
  <2>3. SuperInvoke(f, h) = FieldOrMethod(parent[c], h)  BY <2>1, <2>2 DEF SuperInvoke
  <2>4. S \in SUBSET Class /\ NoClass \notin S  BY Holders
  <2> HIDE DEF S
  <2>5. FieldOrMethod(parent[c], h) = IF d \in HaveField(h) THEN <<d, "field">> ELSE MethodOf(d)
    BY DEF FieldOrMethod, S
  <2> HIDE DEF d
  <2>6. d # NoClass /\ d \notin HaveField(h) /\ SuperInvoke(f, h)[1] = d
    BY <2>3, <2>5 DEF MethodOf, NotFound
  <2>7. d \in S /\ d <= parent[c]
    BY <2>1, <2>4, <2>6, NearestIn DEF d
  <2>8. d \in Created /\ d # c  BY <2>1, <2>4, <2>6, <2>7 DEF S, HaveMethod, Class, NoClass
  <2>9. methods[d][h] = f => home[f] = d  BY <2>8 DEF HomeIsHolder
  <2> QED  BY <2>2, <2>6, <2>8, <2>9
<1> QED  BY <1>0, <1>1, TypeCorrect, PTL DEF Spec

-----------------------------------------------------------------------------
(* The lookups agree.                                                          *)

LEMMA NearestMore ==
    ASSUME TypeOK, Older, NEW c \in Class \union {NoClass}, NEW S \in SUBSET Class,
           NEW R \in SUBSET S, Nearest(c, R) # NoClass
    PROVE  Nearest(c, S) # NoClass
<1>1. c \in Class  BY NearestNone
<1>2. PICK j \in 0 .. MaxClasses : Ancestor(c)[j] \in R  BY <1>1, NearestNone
<1>3. PICK k : IsNearest(c, S, k)  BY <1>1, <1>2, NearestFound
<1>4. Nearest(c, S) \in S  BY <1>1, <1>3, NearestFirst DEF IsNearest
<1> QED  BY <1>4 DEF Class, NoClass

LEMMA FieldOrMethodFinds ==
    ASSUME TypeOK, NEW c, NEW h \in Member
    PROVE  FieldOrMethod(c, h) # NotFound <=>
             Nearest(c, HaveMethod(h) \union HaveField(h)) # NoClass
<1> DEFINE d == Nearest(c, HaveMethod(h) \union HaveField(h))
<1>1. FieldOrMethod(c, h) = IF d \in HaveField(h) THEN <<d, "field">> ELSE MethodOf(d)
  BY DEF FieldOrMethod
<1>2. NoClass \notin HaveField(h)  BY Holders
<1> HIDE DEF d
<1>3. FieldOrMethod(c, h) # NotFound <=> d # NoClass
  BY <1>1, <1>2 DEF MethodOf, NotFound
<1> QED  BY <1>3 DEF d

LEMMA Agree ==
    ASSUME TypeOK, Older, NEW c \in Class, NEW h \in Member
    PROVE  /\ HasProperty(c, h) => GetProperty(c, h) # NotFound
           /\ GetProperty(c, h) # NotFound => Invoke(c, h) # NotFound
           /\ HaveField(h) = {} =>
                /\ GetProperty(c, h) = MethodOf(Nearest(c, HaveMethod(h)))
                /\ Invoke(c, h) = GetProperty(c, h)
                /\ FieldOrMethod(c, h) = GetProperty(c, h)
<1> DEFINE M == HaveMethod(h)
           S == HaveMethod(h) \union HaveField(h)
           p == parent[c]
           pp == parent[p]
           Find(d) == FieldOrMethod(d, h)
<1>0. /\ M \in SUBSET Class /\ S \in SUBSET Class /\ M \in SUBSET S /\ NoClass \notin S
      /\ c # NoClass /\ p \in Class \union {NoClass}
      /\ p \in Class => pp \in Class \union {NoClass}
  <2>1. NoClass \notin Class  BY DEF Class, NoClass
  <2> QED  BY <2>1, Holders DEF TypeOK
<1>1. GetProperty(c, h) = IF c \in M THEN <<c, "method">>
                          ELSE IF p = NoClass THEN NotFound
                          ELSE IF p \in M THEN <<p, "method">> ELSE Find(pp)
  BY <1>0 DEF GetProperty, MethodOf
<1>2. Invoke(c, h) = IF c \in M THEN <<c, "method">> ELSE Find(p)
  BY <1>0 DEF Invoke, MethodOf
<1>3. HasProperty(c, h) <=> Nearest(c, M) # NoClass  BY DEF HasProperty
<1>4. \A d : Find(d) # NotFound <=> Nearest(d, S) # NoClass  BY FieldOrMethodFinds
<1>5. \A d \in Class \union {NoClass} : Nearest(d, M) # NoClass => Nearest(d, S) # NoClass
  BY <1>0, NearestMore
<1>6. /\ Nearest(c, M) = IF c \in M THEN c ELSE Nearest(p, M)
      /\ Nearest(c, S) = IF c \in S THEN c ELSE Nearest(p, S)
      /\ p \in Class => /\ Nearest(p, M) = IF p \in M THEN p ELSE Nearest(pp, M)
                        /\ Nearest(p, S) = IF p \in S THEN p ELSE Nearest(pp, S)
      /\ Nearest(NoClass, M) = NoClass /\ Nearest(NoClass, S) = NoClass
  BY <1>0, NearestUp, NearestNone
<1>7. \A d : <<d, "method">> # NotFound  BY DEF NotFound
<1>8. HaveField(h) = {} => S = M /\ \A d : Find(d) = MethodOf(Nearest(d, M))
  <2> SUFFICES ASSUME HaveField(h) = {} PROVE S = M /\ \A d : Find(d) = MethodOf(Nearest(d, M))
    OBVIOUS
  <2>1. S = M  OBVIOUS
  <2>2. \A d : Find(d) = MethodOf(Nearest(d, S))  BY DEF FieldOrMethod
  <2> QED  BY <2>1, <2>2
<1> HIDE DEF M, S, p, pp, Find
<1>9. \A d \in M : MethodOf(d) = <<d, "method">>  BY <1>0 DEF MethodOf
<1>10. HasProperty(c, h) => GetProperty(c, h) # NotFound
  BY <1>0, <1>1, <1>3, <1>4, <1>5, <1>6, <1>7
<1>11. GetProperty(c, h) # NotFound => Invoke(c, h) # NotFound
  BY <1>0, <1>1, <1>2, <1>4, <1>6, <1>7
<1>12. ASSUME HaveField(h) = {}
       PROVE  /\ GetProperty(c, h) = MethodOf(Nearest(c, M))
              /\ Invoke(c, h) = GetProperty(c, h)
              /\ Find(c) = GetProperty(c, h)
  <2>1. MethodOf(NoClass) = NotFound  BY DEF MethodOf
  <2>2. GetProperty(c, h) = MethodOf(Nearest(c, M))
    BY <1>0, <1>1, <1>6, <1>8, <1>9, <1>12, <2>1
  <2>3. Invoke(c, h) = MethodOf(Nearest(c, M))
    BY <1>2, <1>6, <1>8, <1>9, <1>12
  <2> QED  BY <1>8, <1>12, <2>2, <2>3
<1> QED  BY <1>10, <1>11, <1>12 DEF M, Find

(* Under the same conditions the four ways a member is looked up agree for     *)
(* every class and every depth of inheritance.                                 *)
THEOREM LookupsConsistent ==
    Usage \intersect {"alias", "late_parent"} = {} => (Spec => []LookupsAgree)
<1> SUFFICES ASSUME Usage \intersect {"alias", "late_parent"} = {} PROVE Spec => []LookupsAgree
  OBVIOUS
<1>0. Spec => []Older  BY AlwaysOlder
<1>1. TypeOK /\ Older => LookupsAgree
  <2> SUFFICES ASSUME TypeOK, Older PROVE LookupsAgree  OBVIOUS
  <2>1. Created \subseteq Class  BY DEF TypeOK, Created, Class
  <2> QED  BY <2>1, Agree DEF LookupsAgree
<1> QED  BY <1>0, <1>1, TypeCorrect, PTL DEF Spec

-----------------------------------------------------------------------------
(* A method is defined in a class.                                             *)

ClassDeclared ==
    /\ stage \in {"class", "parent"} => operand \in Class /\ declaring \in Name
    /\ stage = "body" => operand = Absent /\ GetGlobal(declaring) \in Class
    /\ Defined

LEMMA StepDeclared ==
    ASSUME ErrorsReturn = FALSE, TypeOK, NameOnce, ClassDeclared, Next
    PROVE  ClassDeclared'
<1> USE DEF ClassDeclared, Defined
<1>0. /\ status = "running" /\ Absent \notin Class /\ Null \notin Class
      /\ "undefined" # "running" /\ "undefined" # "exited"
  BY NotClasses DEF Next
<1>a. CASE UNCHANGED <<tables, operand, declaring, stage>> /\ status' \in {"running", "exited"}
  <2>1. GetGlobal(declaring)' = GetGlobal(declaring)  BY <1>a DEF GetGlobal, tables
  <2> QED  BY <1>0, <1>a, <2>1
<1>b. CASE stage' = "free" /\ status' = status
  BY <1>0, <1>b
<1>1. CASE \E n \in Name : OpClass(n)
  BY <1>0, <1>1, NewClassTypes DEF OpClass
<1>2. CASE \E s \in Name : OpInherit(s) /\ ~Exit
  BY <1>0, <1>2 DEF OpInherit
<1>3. CASE \E n \in Name : OpDefineGlobal(n) /\ ~Exit
  <2>1. PICK n \in Name : OpDefineGlobal(n) /\ ~Exit  BY <1>3
  <2> DEFINE old == IF globals[n] # Absent THEN globals[n] ELSE constants[n]
             extends == operand \in Class /\ old \in Class
  <2>2. /\ operand # Absent /\ (stage = "free" \/ n = declaring)
        /\ operand' = Absent /\ constants' = constants /\ declaring' = declaring
        /\ status' = status /\ stage' = IF stage = "free" THEN "free" ELSE "body"
    BY <2>1 DEF OpDefineGlobal
  <2>3. CASE stage = "free"  BY <1>b, <2>2, <2>3
  <2>4. CASE stage # "free"
    <3>1. n = declaring /\ operand \in Class  BY <2>2, <2>4 DEF TypeOK
    <3>2. CASE extends
      <4>1. globals' = globals /\ old \in Class  BY <2>1, <3>2 DEF OpDefineGlobal
      <4>2. GetGlobal(n) = old  BY <1>0, <4>1 DEF GetGlobal, NameOnce
      <4>3. GetGlobal(n)' = GetGlobal(n)  BY <2>2, <4>1 DEF GetGlobal
      <4> QED  BY <1>0, <2>2, <2>4, <3>1, <4>1, <4>2, <4>3
    <3>3. CASE ~extends
      <4>1. /\ ~(globals[n] = Absent /\ constants[n] # Absent)
            /\ globals' = [globals EXCEPT ![n] = operand]
        BY <2>1, <3>3 DEF OpDefineGlobal, Dies
      <4>2. constants'[n] = Absent /\ globals'[n] = operand
        BY <2>2, <4>1 DEF NameOnce, TypeOK
      <4>3. GetGlobal(n)' = operand  BY <1>0, <3>1, <4>2 DEF GetGlobal
      <4> QED  BY <1>0, <2>2, <2>4, <3>1, <4>3
    <3> QED  BY <3>2, <3>3
  <2> QED  BY <2>3, <2>4
<1>4. CASE \E n \in Name : (OpDefineConstant(n) \/ SetGlobal(n)) /\ ~Exit
  BY <1>b, <1>4 DEF OpDefineConstant, SetGlobal
<1>5. CASE \E n \in Name : PushGlobalClass(n)
  BY <1>b, <1>5 DEF PushGlobalClass
<1>6. CASE \E n \in Name, h \in Member : SetClassField(n, h) /\ ~Exit
  BY <1>0, <1>a, <1>6 DEF SetClassField, control
<1>7. CASE \E v \in (Datum \ Linked) \union {Null} : PushValue(v)
  BY <1>b, <1>7 DEF PushValue
<1>8. CASE \E f \in Function : OpMethod(f)
  <2>1. PICK f \in Function : OpMethod(f)  BY <1>8
  <2>2. stage = "body" /\ GetGlobal(declaring) \in Class  BY <2>1 DEF OpMethod
  <2>3. Exit \/ DefineMethod(GetGlobal(declaring), f)  BY <2>1, <2>2 DEF OpMethod
  <2> QED  BY <1>0, <1>a, <2>3 DEF Exit, DefineMethod, control
<1>9. CASE EndClass
  BY <1>b, <1>9 DEF EndClass
<1>10. CASE Host
  BY <1>b, <1>10 DEF Host, HostTurn, HostNewClass, NewClass, HostRemoveGlobal, HostRemoveConstant,
       HostDefineConstant, HostSetGlobal, HostDefineMethod, HostDefineNative,
       HostSetInitializer, HostSetParent, control
<1>11. CASE Exit
  BY <1>a, <1>11 DEF Exit, control
<1> QED
  BY <1>1, <1>2, <1>3, <1>4, <1>5, <1>6, <1>7, <1>8, <1>9, <1>10, <1>11 DEF Next, Script

(* If a runtime error ends the program, OP_METHOD always finds the class its   *)
(* declaration began, whatever names the program gives its classes, however    *)
(* often its modules run, and whatever the host does.                          *)
THEOREM MethodsFindClass == ErrorsReturn = FALSE => (Spec => []Defined)
<1> SUFFICES ASSUME ErrorsReturn = FALSE PROVE Spec => []Defined  OBVIOUS
<1>1. Init => ClassDeclared  BY DEF Init, ClassDeclared, Defined
<1>2. TypeOK /\ NameOnce /\ ClassDeclared /\ [Next]_vars => ClassDeclared'
  <2> SUFFICES ASSUME TypeOK, NameOnce, ClassDeclared, [Next]_vars PROVE ClassDeclared'
    OBVIOUS
  <2>1. CASE Next  BY <2>1, StepDeclared
  <2>2. CASE UNCHANGED vars
    BY <2>2 DEF ClassDeclared, Defined, GetGlobal, vars, tables, control
  <2> QED  BY <2>1, <2>2
<1>3. ClassDeclared => Defined  BY DEF ClassDeclared
<1> QED  BY <1>1, <1>2, <1>3, TypeCorrect, NamesOnce, PTL DEF Spec

=============================================================================

--------------------------- MODULE MCGarbageCollector ---------------------------
(***************************************************************************)
(* Small heaps for GarbageCollector.                                       *)
(***************************************************************************)
EXTENDS GarbageCollector

CONSTANTS cF, c1, c2, i1, b1, m1, f1, g1, a1

\* Every class and every module of these heaps has a name of its own.
OwnName == [o \in Objects |-> o]
OneEach == [o \in Objects |-> 1]

\* The REPL: a line that defines a function, an array, a bound method.  One class
\* stands for those of functions and of arrays.
LineObjects == {cF, m1, f1, g1, a1, b1}
LineKind == (cF :> "class") @@ (m1 :> "module") @@ (f1 :> "function") @@
            (g1 :> "function") @@ (a1 :> "array") @@ (b1 :> "bound method")
LineImplClass == ("function" :> cF) @@ ("array" :> cF)
LineBuiltins == <<cF>>
LineScript == m1 :> <<f1, g1>>
LineTyped == {m1}

\* A debugged program: two classes that may have parents, an instance, and a line
\* typed at the prompt that defines no function.
DebugObjects == {cF, c1, c2, i1, m1, f1}
DebugKind == (cF :> "class") @@ (c1 :> "class") @@ (c2 :> "class") @@
             (i1 :> "instance") @@ (m1 :> "module") @@ (f1 :> "function")
DebugImplClass == "function" :> cF
DebugBuiltins == <<cF>>
DebugScript == m1 :> <<f1>>
DebugTyped == {m1}
DebugSymmetry == Permutations({c1, c2})
=============================================================================

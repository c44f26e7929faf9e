------------------------------- MODULE MCClasses -------------------------------
(* Instances of Classes for TLC: class names A and B, or A and a library      *)
(* class F; a method m and a built-in member g.                                *)
EXTENDS Classes, TLC

CONSTANTS A, B, F, m, g, Am, Bm, Ag, Fm, one, link

MCNames == {A, B}
MCNamesLibrary == {A, F}

Methods == {Am, Bm, Ag}
MethodsDeclaredIn == (Am :> A) @@ (Bm :> B) @@ (Ag :> A)
MethodsMethodName == (Am :> m) @@ (Bm :> m) @@ (Ag :> g)

Library == {Am, Fm}
LibraryDeclaredIn == (Am :> A) @@ (Fm :> F)
LibraryMethodName == (Am :> m) @@ (Fm :> m)
=============================================================================

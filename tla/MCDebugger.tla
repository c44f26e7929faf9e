------------------------------ MODULE MCDebugger ------------------------------
(***************************************************************************)
(* A program whose main function calls another one and has it called by a  *)
(* native function, and scripts typed at the prompt: one that calls it.    *)
(***************************************************************************)
EXTENDS Debugger, TLC

CONSTANTS f, call, a1, a2

Do(op) == [op |-> op, to |-> f]

MCBody == main :> <<Do("call"), Do("native"), Do("return")>>
          @@ f :> <<Do("op"), Do("return"), Do("return")>>
          @@ call :> <<Do("call"), Do("op"), Do("return")>>

\* The return in the middle of f comes from a column of its own.
MCColumn == main :> <<1, 1, 2>> @@ f :> <<1, 2, 3>> @@ call :> <<1, 2, 3>>

MCStatements == <<[fn |-> f, offset |-> 0]>>
NoMarks == call :> <<>>

MCSymmetry == Permutations({a1, a2})
=============================================================================

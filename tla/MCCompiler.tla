----------------------------- MODULE MCCompiler -----------------------------
(***************************************************************************)
(* Small scripts for Compiler and CompiledCode: what a script mixes.       *)
(***************************************************************************)
EXTENDS SourceOrder

MCMixes ==
  { \* loops that keep something on the stack or in the frame, and the ways out of them
    {"ForEach", "With", "RepeatVar", "Var", "Break", "Continue"},
    \* loops and branches that only jump
    {"While", "DoWhile", "ForVar", "If", "Break", "Continue"},
    \* switches
    {"Switch", "Case", "Default", "While", "Break", "Var", "Breakpoint", "Continue"},
    \* functions, also inside a switch
    {"Switch", "Case", "Event", "Var", "Breakpoint"},
    {"While", "Event", "Break"},
    \* classes
    {"Class", "Method", "Constructor", "Property", "Return", "With", "Expression", "For"},
    \* enumerations
    {"Enum", "UnnamedEnum", "Block", "Var", "Repeat"},
    {"Switch", "Case", "Enum", "Class"} }
=============================================================================

----------------------------- MODULE MCCallStack -----------------------------
(***************************************************************************)
(* Small instances of CallStack.  Three script functions: one without      *)
(* parameters (a module's main function), one whose parameter is optional  *)
(* and one with two parameters (a comparison function); one bound method   *)
(* that puts a bound argument in front.                                    *)
(***************************************************************************)
EXTENDS CallStack, TLC

CONSTANTS main, opt, cmp, bound

MCArity == main :> 0 @@ opt :> 1 @@ cmp :> 2
MCMinArity == main :> 0 @@ opt :> 0 @@ cmp :> 2
MCMethod == bound :> opt
MCNumBound == bound :> 1

\* The hsl program: the input script, imported bytecode, and native functions
\* of the standard library that call back.
StandaloneEmbedding ==
  [idle |-> {"RunMain", "RunFunction"}, pending |-> {},
   native |-> {"push", "pop", "RunFunction", "RunEntityFunction", "InvokeForEntity"}]

\* A host of libhsl that makes one frame at a time, steps through it or runs it to
\* its end, and calls back into the interpreter through InvokeForEntity only.
LibraryEmbedding ==
  [idle |-> {"push", "pop", "hsl_setup_call_frame", "hsl_run_module", "hsl_call",
             "hsl_invoke", "hsl_invoke_callable", "hsl_instance_new_from_stack"},
   pending |-> {"hsl_run_call_frame", "hsl_run_call_frame_instruction"},
   native |-> {"push", "pop", "InvokeForEntity"}]

ImportEmbedding ==
  [idle |-> {"RunMain"}, pending |-> {}, native |-> {"push", "pop", "RunFunction"}]

\* A host whose native functions call script functions with hsl_call.
NestedCallEmbedding ==
  [idle |-> {"hsl_run_module"}, pending |-> {}, native |-> {"push", "pop", "hsl_call"}]

\* A host whose native functions (an import handler, say) run a module.
NestedModuleEmbedding ==
  [idle |-> {"hsl_run_module"}, pending |-> {}, native |-> {"hsl_run_module"}]

=============================================================================

------------------------------- MODULE MCMcjit -------------------------------
(***************************************************************************)
(* A function, a function of the C library, an operator, and an input file *)
(* that needs the operator.                                                *)
(***************************************************************************)
EXTENDS Mcjit

CONSTANTS f, sin

InputFile ==
  [EmptyModule EXCEPT ![f] = [state |-> "defined", arity |-> 0, calls |-> {":"}],
                      ![":"] = Declared(2)]
InputFiles == {InputFile}
=============================================================================

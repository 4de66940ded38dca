------------------------------ MODULE MCOrcRepl ------------------------------
(***************************************************************************)
(* Two functions and one of the process, with and without an argument.     *)
(***************************************************************************)
EXTENDS OrcRepl

CONSTANTS f, g, printd, a

Prototypes == {<<>>, <<a>>}

(* A number, an argument, a call that may pass it on, and two calls at     *)
(* once.                                                                   *)
Bodies ==
  [calls : {{}, {<<g, 1>>}}, uses : {{}, {a}}]
    \cup [calls : {{<<f, 0>>, <<printd, 1>>}}, uses : {{}}]
=============================================================================

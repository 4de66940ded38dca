----------------------------- MODULE MCPouScopes -----------------------------
(***************************************************************************)
(* Three identifiers, interchangeable, AND as a name, one direct variable,  *)
(* two kinds of types.                                                     *)
(***************************************************************************)
EXTENDS PouScopes, TLC

CONSTANTS f, g, h

Identifiers == {f, g, h}
Operators == {"AND"}
Directs == {"%IX1"}
Types == {"simple", "enumerated"}
Interchangeable == Permutations(Identifiers)
=============================================================================

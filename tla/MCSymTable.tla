----------------------------- MODULE MCSymTable -----------------------------
(***************************************************************************)
(* Two names, one of them written in two ways, two values.                 *)
(***************************************************************************)
EXTENDS SymTable

CONSTANTS x, y

Names == {x, y}
Values == {0, 1, 2}
Spellings == {"x", "X", "y"}
FoldCase == [s \in Spellings |-> IF s = "y" THEN y ELSE x]
=============================================================================

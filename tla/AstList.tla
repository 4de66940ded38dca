------------------------------- MODULE AstList -------------------------------
(***************************************************************************)
(* list_c, st-lang/ast.cpp: the lists of the syntax tree, and how the      *)
(* place of a list in the text follows its elements.                       *)
(*                                                                         *)
(* A place is a line and a column of the file that is parsed; a node that  *)
(* was built without one has line 0 and no file (NULL).  A node has its    *)
(* kind and its place; a list has its elements besides.                    *)
(***************************************************************************)
EXTENDS Integers, Sequences, SequencesExt

Nowhere == [file |-> FALSE, line |-> 0, column |-> 0]
Null == [kind |-> "NULL", implicit |-> FALSE, elements |-> <<>>, first |-> Nowhere, last |-> Nowhere]

(* symbol_c, and a list_c, which is a symbol_c with no elements yet.       *)
Symbol(kind, implicit, first, last) ==
  [kind |-> kind, implicit |-> implicit, elements |-> <<>>, first |-> first, last |-> last]

(* Mutant: the lines are not looked at.                                    *)
Before_Columns(p, q) == p.column < q.column
Before(p, q) == p.line < q.line \/ (p.line = q.line /\ p.column < q.column)

(* The file of a place that there is stays.                                *)
Earlier(p, q) ==
  IF ~ p.file THEN q ELSE IF Before(q, p) THEN [q EXCEPT !.file = TRUE] ELSE p
Later(p, q) ==
  IF ~ p.file THEN q ELSE IF Before(p, q) THEN [q EXCEPT !.file = TRUE] ELSE p

(* Mutant: NULL is not put in.                                             *)
InsertElement_NoNull(list, elem, pos) ==
  IF elem = Null THEN list
  ELSE [list EXCEPT !.elements = IF pos < 0 THEN Append(@, elem) ELSE InsertAt(@, pos + 1, elem),
                    !.first = Earlier(@, elem.first), !.last = Later(@, elem.last)]
(* Before the element at pos, or at the end if pos is negative.            *)
InsertElement(list, elem, pos) ==
  LET elements == IF pos < 0 THEN Append(list.elements, elem)
                  ELSE InsertAt(list.elements, pos + 1, elem)
  IN  IF elem = Null THEN [list EXCEPT !.elements = elements]
      ELSE [list EXCEPT !.elements = elements,
                        !.first = Earlier(@, elem.first), !.last = Later(@, elem.last)]

AddElement(list, elem) == InsertElement(list, elem, -1)
=============================================================================

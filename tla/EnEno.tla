-------------------------------- MODULE EnEno --------------------------------
(***************************************************************************)
(* The declarations of a POU as bison builds them, and the visitor that    *)
(* gives a function or a function block the parameters EN and ENO:         *)
(* st-lang/add_en_eno_param_decl.cpp, called by the rules of parser.y that *)
(* end a POU.  A declaration with an error in it is NULL in its list.  A   *)
(* section and its list are one node here.                                 *)
(***************************************************************************)
EXTENDS AstList, FiniteSets

CONSTANTS MaxPlace,     \* places in the text
          MaxParams     \* declarations in a section

ASSUME EnEnoAssumption == MaxPlace \in Nat /\ MaxParams \in Nat

VARIABLES implicit,     \* ~ disable_implicit_en_eno
          flags,        \* en_declared and eno_declared of the visitor, which is built once
          place,        \* how far the text is read
          section,      \* the list of the open VAR_INPUT, VAR_OUTPUT or other section, or Null
          list,         \* var_declarations_list_c of the POU, or Null
          done,         \* the list of the last POU that is finished, or Null
          wrong,        \* an error has been reported in this POU
          status        \* "parsing" or "crashed"

vars == <<implicit, flags, place, section, list, done, wrong, status>>

Section == {"input", "output", "other"}
(* Two places on a line.                                                   *)
Place(p) == [file |-> TRUE, line |-> (p \div 2) + 1, column |-> (p % 2) + 1]
Here == Place(place)

Init ==
  /\ implicit \in BOOLEAN
  /\ flags \in [en : BOOLEAN, eno : BOOLEAN]
  /\ place = 0
  /\ section = Null /\ list = Null /\ done = Null
  /\ wrong = FALSE
  /\ status = "parsing"

Reading == status = "parsing" /\ place < MaxPlace /\ place' = place + 1

-----------------------------------------------------------------------------
OpenSection(kind) ==
  /\ Reading /\ section = Null
  /\ section' = Symbol(kind, FALSE, Place(place + 1), Place(place + 1))
  /\ UNCHANGED <<implicit, flags, list, done, wrong, status>>

(* What a section may declare: EN is an input and ENO an output.           *)
Params(kind) == {"var"} \cup {p \in {"en"} : kind = "input"} \cup {p \in {"eno"} : kind = "output"}

Declare(kind) ==
  /\ Reading /\ section # Null /\ Len(section.elements) < MaxParams
  /\ kind \in Params(section.kind)
  /\ section' = AddElement(section, Symbol(kind, FALSE, Here, Place(place + 1)))
  /\ UNCHANGED <<implicit, flags, list, done, wrong, status>>

(* Mutant: the error is not reported.                                      *)
Misdeclare_Silent ==
  /\ Reading /\ section # Null /\ Len(section.elements) < MaxParams
  /\ section' \in {section, AddElement(section, Null)}
  /\ UNCHANGED <<implicit, flags, list, done, wrong, status>>
(* The error alternatives of a declaration: NULL in the list, or nothing.  *)
Misdeclare ==
  /\ Reading /\ section # Null /\ Len(section.elements) < MaxParams
  /\ section' \in {section, AddElement(section, Null)}
  /\ wrong' = TRUE
  /\ UNCHANGED <<implicit, flags, list, done, status>>

(* The first section makes the list, with its own place.                   *)
AddSection(s) ==
  list' = AddElement(IF list = Null THEN Symbol("list", FALSE, Here, Place(place + 1)) ELSE list, s)

CloseSection ==
  /\ Reading /\ section # Null /\ (section.elements # <<>> \/ wrong)
  /\ AddSection([section EXCEPT !.last = Place(place + 1)])
  /\ section' = Null
  /\ UNCHANGED <<implicit, flags, done, wrong, status>>

(* An error outside the declarations makes the section NULL; one that may  *)
(* not be there is left out if there is a list.                            *)
MiscloseSection ==
  /\ Reading /\ section # Null
  /\ \/ AddSection(Null)
     \/ list # Null /\ UNCHANGED list
  /\ section' = Null
  /\ wrong' = TRUE
  /\ UNCHANGED <<implicit, flags, done, status>>

-----------------------------------------------------------------------------
EnParam ==
  AddElement(Symbol("input", TRUE, Nowhere, Nowhere), Symbol("en", TRUE, Nowhere, Nowhere))
EnoParam ==
  AddElement(Symbol("output", TRUE, Nowhere, Nowhere), Symbol("eno", TRUE, Nowhere, Nowhere))

(* The visitor goes into the inputs and the outputs only.                  *)
Visited(l) == {s \in Range(l.elements) : s.kind \in {"input", "output"}}
Declares(l, kind) == \E s \in Visited(l) : \E d \in Range(s.elements) : d.kind = kind

(* A member function of NULL is called.                                    *)
HitsNull(l) == Null \in Range(l.elements) \/ \E s \in Visited(l) : Null \in Range(s.elements)

(* Mutant: the flags keep what the last POU has left.                      *)
Found_Stale(l) == [en |-> flags.en \/ Declares(l, "en"), eno |-> flags.eno \/ Declares(l, "eno")]
Found(l) == [en |-> Declares(l, "en"), eno |-> Declares(l, "eno")]

(* Mutant: ENO is put in front of EN.                                      *)
Completed_Swapped(l, found) ==
  LET en == IF found.en THEN l ELSE InsertElement(l, EnParam, 0)
  IN  IF found.eno THEN en ELSE InsertElement(en, EnoParam, 0)
Completed(l, found) ==
  LET eno == IF found.eno THEN l ELSE InsertElement(l, EnoParam, 0)
  IN  IF found.en THEN eno ELSE InsertElement(eno, EnParam, 0)

NextPou == place' = place /\ section' = Null /\ list' = Null /\ wrong' = FALSE

(* END_FUNCTION or END_FUNCTION_BLOCK.                                     *)
EndPou ==
  /\ status = "parsing" /\ section = Null /\ list # Null
  /\ \/ /\ implicit /\ HitsNull(list)
        /\ status' = "crashed"
        /\ UNCHANGED <<place, section, list, done, wrong, flags>>
     \/ /\ implicit /\ ~ HitsNull(list)
        /\ flags' = Found(list)
        /\ done' = Completed(list, flags')
        /\ NextPou /\ UNCHANGED status
     \/ /\ ~ implicit
        /\ done' = list
        /\ NextPou /\ UNCHANGED <<flags, status>>
  /\ UNCHANGED implicit

(* END_PROGRAM, and the POUs whose rule has an error: nothing is visited.  *)
EndUnvisited ==
  /\ status = "parsing" /\ section = Null /\ list # Null
  /\ NextPou
  /\ UNCHANGED <<implicit, flags, done, status>>

Next ==
  \/ \E kind \in Section : OpenSection(kind)
  \/ \E kind \in {"var", "en", "eno"} : Declare(kind)
  \/ Misdeclare
  \/ CloseSection
  \/ MiscloseSection
  \/ EndPou
  \/ EndUnvisited

Spec == Init /\ [][Next]_vars

-----------------------------------------------------------------------------
(* The flags are set, lists are lists, and a list that is there has an     *)
(* element.                                                                *)
TypeOK ==
  /\ flags \in [en : BOOLEAN, eno : BOOLEAN]
  /\ place \in 0 .. MaxPlace
  /\ section.kind \in Section \cup {"NULL"}
  /\ \A l \in {list, done} : l # Null => l.kind = "list" /\ l.elements # <<>>
  /\ status \in {"parsing", "crashed"}

UserDeclares(l, kind) ==
  \E s \in Visited(l) : ~ s.implicit /\ \E d \in Range(s.elements) : d.kind = kind

(* A function or function block that has been finished has EN and ENO: the *)
(* user's own, wherever they are, or else the one that is added, EN first, *)
(* before everything the user has declared; what earlier POUs declared does*)
(* not matter to the one visitor there is (add_en_eno_param_decl.cpp:144). *)
ParametersComplete ==
  done # Null /\ implicit =>
    LET added == IF UserDeclares(done, "en")
                 THEN IF UserDeclares(done, "eno") THEN <<>> ELSE <<EnoParam>>
                 ELSE IF UserDeclares(done, "eno") THEN <<EnParam>> ELSE <<EnParam, EnoParam>>
    IN  /\ Len(added) <= Len(done.elements)
        /\ \A i \in DOMAIN done.elements :
             IF i <= Len(added) THEN done.elements[i] = added[i] ELSE ~ done.elements[i].implicit

(* Only a POU with an error that was reported crashes the visitor          *)
(* (add_en_eno_param_decl.cpp:85, a list with a NULL element).             *)
CrashReported == status = "crashed" => wrong

Covers(l) ==
  \A e \in Range(l.elements) :
    e # Null /\ ~ e.implicit => ~ Before(e.first, l.first) /\ ~ Before(l.last, e.last)

(* The place of a list takes in all of its elements, in every list that is *)
(* or was built ("taking into account the new element", ast.cpp:187).      *)
PlaceCovers ==
  \A l \in {list, section, done} :
    /\ Covers(l)
    /\ \A e \in Range(l.elements) : Covers(e)
=============================================================================

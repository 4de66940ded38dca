------------------------------ MODULE PouScopes ------------------------------
(***************************************************************************)
(* Which names of a program mean what, as st-lang/parser.y builds its      *)
(* symbol tables while it parses: one action is one reduction that works   *)
(* on a table.  flex asks the tables (get_identifier_token) what token an  *)
(* identifier is, so a declaration guards itself: its production takes     *)
(* only the tokens its guard names.  But bison may have flex read the next *)
(* token before it reduces: a name that is declared again at once then     *)
(* still has the token of an undeclared one.  Alternatives that only       *)
(* report an error are Mistake.                                            *)
(***************************************************************************)
EXTENDS Integers, Sequences, FiniteSets

CONSTANTS Identifier,   \* names of variables, types, units, ...
          Operator,     \* AND, OR, XOR, NOT, MOD: keywords, and names of functions
          TypeCodes,    \* the codes of the seven kinds of derived data types
          Direct,       \* names of direct variables, such as %IX1.0
          Unnamed,      \* a symbol that has no name (no token_c)
          MaxDepth      \* bound: the scopes open at once

Names == Identifier \cup Operator \cup Direct

(* The prev_declared_..._token codes the tables hold.                      *)
VariableCodes == {"variable", "fb", "global", "resource", "program"}
UnitCodes == {"function", "fbtype", "progtype", "configuration"}
LibraryCodes == TypeCodes \cup UnitCodes
Codes == VariableCodes \cup LibraryCodes \cup {"direct"}

ASSUME PouAssumption == /\ Identifier \cap (Operator \cup Direct) = {}
                        /\ Unnamed \notin Names
                        /\ TypeCodes \cap (VariableCodes \cup UnitCodes) = {}
                        /\ TypeCodes \cap {"identifier", "direct"} = {}
                        /\ MaxDepth \in Nat \ {0}

INSTANCE Scopes WITH Name <- Names, Value <- Codes, Absent <- "identifier"

VARIABLES
  variables,   \* variable_name_symtable
  directs,     \* direct_variable_symtable
  library,     \* library_element_symtable
  unit,        \* the unit being parsed and the place in it
  list,        \* the var1_list being built
  ahead,       \* bison's lookahead, if it was no declared name when flex read it
  errors,      \* history: something was reported
  status       \* "running", or the step that ended the program by ERROR

vars == <<variables, directs, library, unit, list, ahead, errors, status>>

Kinds == {"function", "function block", "program", "configuration"}

(* The places in a POU, in a configuration, and in a resource of one.      *)
PouPlaces == {"header", "declarations", "body"}
ConfPlaces == {"globals", "programs", "resources", "instances"}
ResourcePlaces == {"resource", "resource programs"}

Outside == [kind |-> "none", name |-> Unnamed, place |-> "none",
            resource |-> Unnamed]

Open(kind, n, place) == [Outside EXCEPT !.kind = kind, !.name = n, !.place = place]

Init == /\ variables = NewTable
        /\ directs = NewTable
        /\ library = NewTable
        /\ unit = Outside
        /\ list = {}
        /\ ahead = Unnamed
        /\ errors = FALSE
        /\ status = "running"

-----------------------------------------------------------------------------
(* Mutant: the library is asked first.                                     *)
Token_LibraryFirst(n) ==
  IF Find(library, n) # "identifier" THEN Find(library, n) ELSE Find(variables, n)

(* The token flex returns for an identifier.                               *)
Token(n) ==
  IF Find(variables, n) # "identifier" THEN Find(variables, n) ELSE Find(library, n)

Running == status = "running" /\ ahead = Unnamed /\ UNCHANGED ahead

(* A declaration whose name is n: flex reads it now, or had read it before *)
(* the previous declaration was entered.                                   *)
Undeclared(n) == /\ status = "running"
                 /\ IF ahead = Unnamed THEN Token(n) = "identifier" ELSE n = ahead

(* "';' missing": the token that bison has read to find the end of the     *)
(* declaration of n is n again, the name of the next one.                  *)
ReadsAhead(n) == ahead' = n /\ errors' = TRUE

InsertVariable(n, code, step) ==
  IF CanInsert(variables, n, code)
  THEN variables' = Insert(variables, n, code) /\ UNCHANGED status
  ELSE status' = step /\ UNCHANGED variables

(* The symbol of a misnamed unit is NULL.                                  *)
InsertLibrary(n, code) ==
  IF n = Unnamed
  THEN status' = "nameless" /\ UNCHANGED library
  ELSE IF CanInsert(library, n, code)
  THEN library' = Insert(library, n, code) /\ UNCHANGED status
  ELSE status' = "insert" /\ UNCHANGED library

PushScopes == variables' = Push(variables) /\ directs' = Push(directs)
PopScopes == variables' = Pop(variables) /\ directs' = Pop(directs)

(* A name of the kind is declared; or it is not and that is reported.      *)
Declared(code) ==
  \/ (\E n \in Identifier : Token(n) = code) /\ UNCHANGED errors
  \/ errors' = TRUE

-----------------------------------------------------------------------------
(* The units of the library.                                               *)

(* (A type that is declared already is not entered again.)                 *)
DeclareType(n, code) ==
  /\ Undeclared(n) /\ unit = Outside
  /\ InsertLibrary(n, code)
  /\ \/ ReadsAhead(n)
     \/ ahead' = Unnamed /\ UNCHANGED errors
  /\ UNCHANGED <<variables, directs, unit, list>>

(* Inside a function its name is a variable.                               *)
BeginFunction(n) ==
  /\ Running /\ unit = Outside
  /\ Token(n) \in {"identifier", "function"}
  /\ InsertVariable(n, "variable", "insert")
  /\ unit' = Open("function", n, "header")
  /\ UNCHANGED <<directs, library, list, errors>>

(* FUNCTION AND: "Function overloading not allowed".                       *)
BeginOperatorFunction(op) ==
  /\ Running /\ unit = Outside
  /\ InsertVariable(op, "variable", "insert")
  /\ unit' = Open("function", op, "header")
  /\ errors' = TRUE
  /\ UNCHANGED <<directs, library, list>>

BeginFunctionBlock(n) ==
  /\ Running /\ unit = Outside
  /\ Token(n) \in {"identifier", "fbtype"}
  /\ unit' = Open("function block", n, "header")
  /\ UNCHANGED <<variables, directs, library, list, errors, status>>

BeginProgram(n) ==
  /\ Running /\ unit = Outside
  /\ \/ Token(n) = "identifier" /\ InsertLibrary(n, "progtype")
     \/ Token(n) = "progtype" /\ UNCHANGED <<library, status>>
  /\ unit' = Open("program", n, "header")
  /\ UNCHANGED <<variables, directs, list, errors>>

BeginConfiguration(n) ==
  /\ Running /\ unit = Outside
  /\ Token(n) \in {"identifier", "configuration"}
  /\ unit' = Open("configuration", n, "globals")
  /\ UNCHANGED <<variables, directs, library, list, errors, status>>

(* FUNCTION error, PROGRAM error, ...: the unit goes on without a name.    *)
BeginMisnamed(kind) ==
  /\ Running /\ unit = Outside
  /\ unit' = Open(kind, Unnamed, IF kind = "configuration" THEN "globals" ELSE "header")
  /\ errors' = TRUE
  /\ UNCHANGED <<variables, directs, library, list, status>>

BeginBody ==
  /\ Running /\ unit.place = "declarations" /\ list = {}
  /\ unit' = [unit EXCEPT !.place = "body"]
  /\ UNCHANGED <<variables, directs, library, list, errors, status>>

EndFunction ==
  /\ Running /\ unit.kind = "function" /\ unit.place = "body"
  /\ PopScopes
  /\ InsertLibrary(unit.name, "function")
  /\ unit' = Outside
  /\ UNCHANGED <<list, errors>>

EndFunctionBlock ==
  /\ Running /\ unit.kind = "function block" /\ unit.place = "body"
  /\ unit.name # Unnamed
  /\ InsertLibrary(unit.name, "fbtype")
  /\ PopScopes
  /\ unit' = Outside
  /\ UNCHANGED <<list, errors>>

(* Mutant: the direct variables stay.                                      *)
EndProgram_KeepDirects ==
  /\ Running /\ unit.kind = "program" /\ unit.place = "body"
  /\ unit.name # Unnamed
  /\ variables' = Pop(variables)
  /\ unit' = Outside
  /\ UNCHANGED <<directs, library, list, errors, status>>

EndProgram ==
  /\ Running /\ unit.kind = "program" /\ unit.place = "body"
  /\ unit.name # Unnamed
  /\ PopScopes
  /\ unit' = Outside
  /\ UNCHANGED <<library, list, errors, status>>

EndConfiguration ==
  /\ Running /\ unit.place \in {"resources", "instances"}
  /\ unit.name # Unnamed
  /\ PopScopes
  /\ InsertLibrary(unit.name, "configuration")
  /\ unit' = Outside
  /\ UNCHANGED <<list, errors>>

(* The error alternatives of the four units: none of them pops.            *)
EndErroneous ==
  /\ status = "running" /\ unit # Outside
  /\ unit' = Outside
  /\ ahead' = Unnamed
  /\ list' = {}
  /\ errors' = TRUE
  /\ UNCHANGED <<variables, directs, library, status>>

(* Every other error alternative: the program is told, the tables stay.    *)
(* What it skips is not read again.                                        *)
Mistake == /\ status = "running"
           /\ errors' = TRUE
           /\ ahead' = Unnamed
           /\ UNCHANGED <<variables, directs, library, unit, list, status>>

-----------------------------------------------------------------------------
(* The declarations of a POU.                                              *)

InDeclarations == unit.place \in {"header", "declarations"}
DeclarationSeen == unit' = [unit EXCEPT !.place = "declarations"]

(* Mutant: any name that is no library element.                            *)
DeclareVariable_AnyName(n) ==
  /\ Running /\ InDeclarations
  /\ Find(library, n) = "identifier"
  /\ InsertVariable(n, "variable", "insert")
  /\ list' = list \cup {n}
  /\ DeclarationSeen
  /\ UNCHANGED <<directs, library, errors>>

(* An element of a var1_list.                                              *)
DeclareVariable(n) ==
  /\ Running /\ InDeclarations
  /\ Token(n) = "identifier"
  /\ InsertVariable(n, "variable", "insert")
  /\ list' = list \cup {n}
  /\ DeclarationSeen
  /\ UNCHANGED <<directs, library, errors>>

(* "n 2 ..", a parameter of the predefined functions: in the list it is an *)
(* extensible_input_parameter_c, which has no name.                        *)
DeclareExtensible(n) ==
  /\ Running /\ InDeclarations
  /\ Token(n) = "identifier"
  /\ InsertVariable(n, "variable", "insert")
  /\ list' = list \cup {Unnamed}
  /\ DeclarationSeen
  /\ errors' = TRUE
  /\ UNCHANGED <<directs, library>>

(* The list is followed by a function block type: the names it has put     *)
(* into the table are changed to instances.                                *)
ListOfInstances ==
  /\ Running /\ list # {}
  /\ Declared("fbtype")
  /\ IF Unnamed \in list THEN status' = "symbol" /\ UNCHANGED variables
     ELSE IF \E n \in list : ~ CanSet(variables, n)
     THEN status' = "set" /\ UNCHANGED variables
     ELSE /\ variables' = [variables EXCEPT ![Len(variables)] =
                             [m \in DOMAIN @ |-> IF m \in list THEN "fb" ELSE @[m]]]
          /\ UNCHANGED status
  /\ list' = {}
  /\ UNCHANGED <<directs, library, unit>>

(* ... by any other type, or by an error.                                  *)
ListOfVariables ==
  /\ Running /\ list # {}
  /\ list' = {}
  /\ errors' \in {errors, TRUE}
  /\ UNCHANGED <<variables, directs, library, unit, status>>

(* External and located variables are declared one at a time, when their   *)
(* type has been read; "fb" are those of a function block type or a        *)
(* reference, whose end bison finds without the next token.                *)
DeclareExternal(n, code) ==
  /\ Undeclared(n) /\ InDeclarations /\ list = {}
  /\ InsertVariable(n, code, "insert")
  /\ DeclarationSeen
  /\ \/ ReadsAhead(n) /\ code = "variable"
     \/ ahead' = Unnamed /\ errors' = (errors \/ unit.kind = "function")
  /\ UNCHANGED <<directs, library, list>>

(* VAR_GLOBAL: at home in configurations and resources.                    *)
DeclareGlobal(n) ==
  /\ Running
  /\ Token(n) = "identifier"
  /\ InsertVariable(n, "global", "insert")
  /\ \/ InDeclarations /\ list = {} /\ DeclarationSeen /\ errors' = TRUE
     \/ unit.place \in {"globals", "resource"} /\ UNCHANGED <<unit, errors>>
  /\ UNCHANGED <<directs, library, list>>

(* AT %IX1.0.                                                              *)
Locate(d) ==
  /\ Running
  /\ Find(directs, d) = "identifier"
  /\ directs' = Insert(directs, d, "direct")
  /\ \/ InDeclarations /\ list = {} /\ DeclarationSeen
        /\ errors' = (errors \/ unit.kind # "program")
     \/ unit.place \in {"globals", "resource"} /\ UNCHANGED <<unit, errors>>
  /\ UNCHANGED <<variables, library, list, status>>

(* A step of a sequential function chart: step_name is any_identifier.     *)
AnyIdentifier == {"identifier"} \cup (Codes \ {"direct", "configuration"})

DeclareStep(n) ==
  /\ Running /\ unit.place = "body" /\ unit.kind # "function"
  /\ Token(n) \in AnyIdentifier
  /\ InsertVariable(n, "variable", "step")
  /\ UNCHANGED <<directs, library, unit, list, errors>>

-----------------------------------------------------------------------------
(* Configurations: programs of their own, or resources with programs.      *)

DeclareProgram(n) ==
  /\ Running
  /\ Token(n) = "identifier"
  /\ \E m \in Identifier : Token(m) = "progtype"
  /\ InsertVariable(n, "program", "insert")
  /\ \/ /\ unit.place \in {"globals", "programs"}
        /\ unit' = [unit EXCEPT !.place = "programs"]
     \/ /\ unit.place \in ResourcePlaces
        /\ unit' = [unit EXCEPT !.place = "resource programs"]
  /\ UNCHANGED <<directs, library, list, errors>>

(* The scopes are popped here, and at END_CONFIGURATION again.             *)
EndSingleResource ==
  /\ Running /\ unit.place = "programs"
  /\ PopScopes
  /\ unit' = [unit EXCEPT !.place = "instances"]
  /\ UNCHANGED <<library, list, errors, status>>

BeginResource(n) ==
  /\ Running /\ unit.place \in {"globals", "resources"}
  /\ Len(variables) < MaxDepth
  /\ Token(n) = "identifier"
  /\ variables' = Insert(Push(variables), n, "resource")
  /\ directs' = Push(directs)
  /\ unit' = [unit EXCEPT !.place = "resource", !.resource = n]
  /\ UNCHANGED <<library, list, errors, status>>

(* RESOURCE ON ...                                                         *)
BeginNamelessResource ==
  /\ Running /\ unit.place \in {"globals", "resources"}
  /\ Len(variables) < MaxDepth
  /\ PushScopes
  /\ unit' = [unit EXCEPT !.place = "resource", !.resource = Unnamed]
  /\ errors' = TRUE
  /\ UNCHANGED <<library, list, status>>

(* Mutant: the scope of the direct variables stays open.                   *)
EndResource_KeepDirects ==
  /\ Running /\ unit.place = "resource programs" /\ unit.resource # Unnamed
  /\ variables' = Insert(Pop(variables), unit.resource, "resource")
  /\ unit' = [unit EXCEPT !.place = "resources", !.resource = Unnamed]
  /\ UNCHANGED <<directs, library, list, errors, status>>

EndResource ==
  /\ Running /\ unit.place = "resource programs" /\ unit.resource # Unnamed
  /\ LET outer == Pop(variables) IN
       IF CanInsert(outer, unit.resource, "resource")
       THEN variables' = Insert(outer, unit.resource, "resource") /\ UNCHANGED status
       ELSE variables' = outer /\ status' = "insert"
  /\ directs' = Pop(directs)
  /\ unit' = [unit EXCEPT !.place = "resources", !.resource = Unnamed]
  /\ UNCHANGED <<library, list, errors>>

(* END_RESOURCE of a nameless or an erroneous resource; or of one whose    *)
(* error came before the scopes were pushed.                               *)
EndErroneousResource ==
  /\ Running /\ unit.place \in {"globals", "resources"} \cup ResourcePlaces
  /\ unit' = [unit EXCEPT !.place = "resources", !.resource = Unnamed]
  /\ errors' = TRUE
  /\ UNCHANGED <<variables, directs, library, list, status>>

-----------------------------------------------------------------------------
Next ==
  \/ \E n \in Identifier :
       \/ \E code \in TypeCodes : DeclareType(n, code)
       \/ BeginFunction(n) \/ BeginFunctionBlock(n)
       \/ BeginProgram(n) \/ BeginConfiguration(n)
       \/ DeclareVariable(n) \/ DeclareExtensible(n)
       \/ \E code \in {"variable", "fb"} : DeclareExternal(n, code)
       \/ DeclareGlobal(n) \/ DeclareStep(n)
       \/ DeclareProgram(n) \/ BeginResource(n)
  \/ \E op \in Operator : BeginOperatorFunction(op)
  \/ \E kind \in Kinds : BeginMisnamed(kind)
  \/ \E d \in Direct : Locate(d)
  \/ BeginBody \/ ListOfInstances \/ ListOfVariables
  \/ EndFunction \/ EndFunctionBlock \/ EndProgram
  \/ EndSingleResource \/ EndConfiguration
  \/ BeginNamelessResource \/ EndResource \/ EndErroneousResource
  \/ EndErroneous \/ Mistake

Spec == Init /\ [][Next]_vars

-----------------------------------------------------------------------------
(* Type invariant.                                                         *)
TypeOK ==
  /\ variables \in Seq(Scope) \ {<<>>}
  /\ directs \in Seq(Scope) \ {<<>>}
  /\ Len(directs) = Len(variables)
  /\ library \in Seq(Scope) /\ Len(library) = 1
  /\ unit \in [kind : Kinds \cup {"none"},
               name : Identifier \cup Operator \cup {Unnamed},
               place : PouPlaces \cup ConfPlaces \cup ResourcePlaces \cup {"none"},
               resource : Identifier \cup {Unnamed}]
  /\ list \subseteq Identifier \cup {Unnamed}
  /\ ahead \in Identifier \cup {Unnamed}
  /\ errors \in BOOLEAN
  /\ status \in {"running", "insert", "set", "step", "nameless", "symbol"}

(* As long as nothing was wrong with the program, the scopes follow its    *)
(* units: nothing of a unit is left when it has been parsed ("the variable *)
(* names are now out of scope, so are no longer valid!", parser.y:5080),   *)
(* one scope is open in a unit and one more in a resource, and nothing a   *)
(* resource declares is seen after it but its own name.                    *)
ScopesFollowUnits ==
  status = "running" /\ ~ errors =>
    /\ unit.place \in {"none", "instances"} =>
         variables = NewTable /\ directs = NewTable
    /\ Len(variables) = IF unit.place \in ResourcePlaces THEN 2 ELSE 1
    /\ Len(directs) = Len(variables)
    /\ unit.place \in {"resources"} \cup ResourcePlaces =>
         \A n \in DOMAIN variables[1] : variables[1][n] \in {"global", "resource"}

(* insert(): "Give an error if string already in map associated to         *)
(* different value!" (symtable.h:89-90), and the error is that of a        *)
(* compiler that has gone wrong ("Internal compiler error", flex_priv.cpp: *)
(* 17).  It does come to that, when a ';' is missing and flex has read the *)
(* next token too early to take a name out of reach of the productions it  *)
(* would contradict.  But the user has been told of an error in the program*)
(* by then, however many names erroneous units have left behind; and so it *)
(* is with the other internal errors, a unit without a name and an element *)
(* of a list that is no name (the name of a step is an exception).         *)
ToldBeforeEnding == status \in {"insert", "set", "symbol", "nameless"} => errors

(* "We do this by inserting the function name into the variable symbol     *)
(* table, and having flex return a prev_declared_variable_name_token       *)
(* whenever it comes across it" (parser.y:4908-4910), even where the       *)
(* function is in the library already.                                     *)
FunctionNameIsVariable ==
  unit.kind = "function" /\ unit.name \in Identifier => Token(unit.name) = "variable"
=============================================================================

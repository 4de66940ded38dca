-------------------------------- MODULE Mcjit --------------------------------
(***************************************************************************)
(* The Kaleidoscope session on MCJIT, llvm-test/main.cpp: modules that are *)
(* frozen once they are compiled, compiled only when something needs them, *)
(* and linked to each other by name.  A command is code generation (its    *)
(* body a series of calls), an expression is also a compilation, which     *)
(* compiles the modules it depends on inside the resolution of a symbol.   *)
(***************************************************************************)
EXTENDS Integers, Sequences, FiniteSets

CONSTANTS Function,     \* names of functions and of unary operators
          UserOp,       \* binary operators that are calls
          Builtin,      \* binary operators the code generator knows itself
          Process,      \* the functions that are also symbols of the process
          Anon,         \* the function made for an expression
          Arity,        \* bound: the numbers of arguments tried
          MaxModules,   \* bound: modules of a session
          MaxEntries,   \* bound: the names all modules mention
          StackLimit,   \* bound: activations of compileModule the stack has room for
          InputIR       \* the modules -input-IR may load

Operator == UserOp \cup Builtin
Name == Function \cup Operator
Symbol == Name \cup {Anon}

(* What a module says of a name.  calls are the names its body refers to.  *)
Entry == [state : {"absent", "declared", "defined"}, arity : Arity,
          calls : SUBSET Name]
Absent == [state |-> "absent", arity |-> 0, calls |-> {}]
Declared(a) == [state |-> "declared", arity |-> a, calls |-> {}]
Defined(a) == [state |-> "defined", arity |-> a, calls |-> {}]
EmptyModule == [n \in Symbol |-> Absent]

ASSUME McjitAssumption ==
  /\ Arity \subseteq Nat /\ {0, 2} \subseteq Arity
  /\ MaxModules \in Nat /\ MaxEntries \in Nat /\ StackLimit \in Nat
  /\ Anon \notin Name
  /\ Function \cap Operator = {} /\ UserOp \cap Builtin = {}
  /\ Process \subseteq Function
  /\ InputIR \subseteq [Symbol -> Entry]
  /\ \A m \in InputIR : \A f \in Symbol : \A n \in m[f].calls : m[n].state # "absent"

VARIABLES
  lazy,      \* -enable-lazy-compilation
  broken,    \* -input-IR could not be parsed: a NULL is in Modules
  mods,      \* Modules
  cur,       \* CurrentModule, 0 for NULL
  engines,   \* the keys of EngineMap
  stack,     \* the activations of compileModule
  prec,      \* the operators BinopPrecedence has a precedence for
  fun,       \* the function whose body is being generated
  status     \* what the session is doing, or what ended it

vars == <<lazy, broken, mods, cur, engines, stack, prec, fun, status>>

NoFunction == [name |-> "none", parsed |-> {}]

Init ==
  /\ lazy \in BOOLEAN
  /\ broken \in BOOLEAN
  /\ mods \in {<<>>} \cup {<<m>> : m \in IF broken THEN {} ELSE InputIR}
  /\ cur = 0
  /\ engines = {}
  /\ stack = IF lazy \/ mods = <<>> THEN <<>> ELSE <<1>>
  /\ prec = Builtin
  /\ fun = NoFunction
  /\ status = IF stack # <<>> THEN "compiling"
              ELSE IF broken /\ ~ lazy THEN "null" ELSE "ready"

-----------------------------------------------------------------------------
First(S) == IF S = {} THEN 0 ELSE CHOOSE i \in S : \A j \in S : i <= j

(* The first module that mentions a name, and the first with a body for it.*)
FirstWith(n) == First({i \in DOMAIN mods : mods[i][n].state # "absent"})
(* Mutant: the last one, so that redefinitions are reached.                *)
FirstBody_Last(n) ==
  LET S == {i \in DOMAIN mods : mods[i][n].state = "defined"}
  IN  IF S = {} THEN 0 ELSE CHOOSE i \in S : \A j \in S : j <= i
(* Mutant: a module that declares it will do.                              *)
FirstBody_Mention(n) == FirstWith(n)
FirstBody(n) == First({i \in DOMAIN mods : mods[i][n].state = "defined"})

(* getModuleForNewFunction, when module c is open.                         *)
ModulesFor(c) == IF c = 0 THEN Append(mods, EmptyModule) ELSE mods
Opened(c) == IF c = 0 THEN Len(mods) + 1 ELSE c

(* The bounds.                                                             *)
Room ==
  Cardinality({p \in (DOMAIN mods) \X Symbol : mods[p[1]][p[2]].state # "absent"}) < MaxEntries
MayOpen(c) == Room /\ (c = 0 => Len(mods) < MaxModules)

(* PrototypeAST::Codegen rejects what the open module contradicts.         *)
Redefines(c, n, a) ==
  /\ c # 0
  /\ \/ mods[c][n].state = "defined"
     \/ mods[c][n].state = "declared" /\ mods[c][n].arity # a

LegalArity(n, a) == n \in Operator => a = 2

(* FunctionAST::Codegen up to the body.  The body has been parsed, with the*)
(* precedences there were, before this one is installed.                   *)
BeginFunction(c, n, a) ==
  /\ status = "ready"
  /\ MayOpen(c)
  /\ cur' = Opened(c)
  /\ IF Redefines(c, n, a)
     THEN UNCHANGED <<mods, prec, fun, status>>
     ELSE /\ mods' = [ModulesFor(c) EXCEPT ![Opened(c)][n] = Defined(a)]
          /\ prec' = IF n \in Operator THEN prec \cup {n} ELSE prec
          /\ fun' = [name |-> n, parsed |-> prec]
          /\ status' = "codegen"
  /\ UNCHANGED <<lazy, broken, engines, stack>>

HandleDefinition(n, a) ==
  LegalArity(n, a) /\ BeginFunction(IF lazy THEN 0 ELSE cur, n, a)

(* An expression is the body of a function without a name of its own.      *)
HandleTopLevelExpression == BeginFunction(cur, Anon, 0)

HandleExtern(n, a) ==
  /\ status = "ready" /\ LegalArity(n, a)
  /\ MayOpen(cur)
  /\ cur' = Opened(cur)
  /\ mods' = IF Redefines(cur, n, a) THEN mods
             ELSE [ModulesFor(cur) EXCEPT ![Opened(cur)][n] = Declared(a)]
  /\ UNCHANGED <<lazy, broken, engines, stack, prec, fun, status>>

-----------------------------------------------------------------------------
(* The body.  getFunction answers with the entry of the open module, made  *)
(* there if need be, unless no module has the name or an earlier module has*)
(* it and the open one has a body.                                         *)

(* Mutant: a body in the open module is as good as any.                    *)
Found_AnyBody(n) == FirstWith(n) # 0
Found(n) ==
  LET i == FirstWith(n)
  IN  i # 0 /\ (i # cur => mods[cur][n].state # "defined")

EntryFor(n) ==
  IF mods[cur][n].state = "absent" THEN Declared(mods[FirstWith(n)][n].arity)
  ELSE mods[cur][n]

(* The module with the entry getFunction has made.                         *)
Referring(n) == IF Found(n) THEN [mods EXCEPT ![cur][n] = EntryFor(n)] ELSE mods

(* getFunction and getPointerToFunction go through Modules.                *)
Searching == status = "codegen" /\ ~ broken

(* What a body can call: functions, and the operators it was parsed with.  *)
Callable == Function \cup (fun.parsed \ Builtin)

Call(n, k) ==
  /\ Searching /\ n \in Callable /\ LegalArity(n, k)
  /\ Room /\ Found(n) /\ EntryFor(n).arity = k
  /\ mods' = [Referring(n) EXCEPT ![cur][fun.name].calls = @ \cup {n}]
  /\ UNCHANGED <<lazy, broken, cur, engines, stack, prec, fun, status>>

(* The function is erased; another that refers to it is left with nothing. *)
Erase(ms) ==
  /\ mods' = [ms EXCEPT ![cur][fun.name] = Absent]
  /\ status' = IF \E f \in Symbol \ {fun.name} : fun.name \in ms[cur][f].calls
               THEN "dangling" ELSE "ready"
  /\ fun' = NoFunction

(* Mutant: the precedence is kept.                                         *)
FailBody_KeepPrecedence(ms) ==
  Erase(ms) /\ UNCHANGED <<lazy, broken, cur, engines, stack, prec>>
FailBody(ms) ==
  /\ Erase(ms)
  /\ prec' = prec \ {fun.name}
  /\ UNCHANGED <<lazy, broken, cur, engines, stack>>

(* The call is rejected: no such function, one it may not refer to, or a   *)
(* wrong number of arguments.                                              *)
RejectCall(n, k) ==
  /\ Searching /\ n \in Function
  /\ Found(n) => EntryFor(n).arity # k
  /\ FailBody(Referring(n))

(* assert(F && "binary operator not found!")                               *)
OperatorMissing(n) ==
  /\ Searching /\ n \in Callable \ Function
  /\ ~ Found(n)
  /\ status' = "aborted"
  /\ UNCHANGED <<lazy, broken, mods, cur, engines, stack, prec, fun>>

(* Any other error in the body, such as an unknown variable.               *)
BodyError == status = "codegen" /\ FailBody(mods)

FinishDefinition ==
  /\ status = "codegen" /\ fun.name # Anon
  /\ fun' = NoFunction
  /\ status' = "ready"
  /\ UNCHANGED <<lazy, broken, mods, cur, engines, stack, prec>>

(* Mutant: compileModule leaves the module open.                           *)
Evaluate_KeepOpen ==
  /\ Searching /\ fun.name = Anon
  /\ stack' = <<cur>>
  /\ fun' = NoFunction
  /\ status' = "compiling"
  /\ UNCHANGED <<lazy, broken, mods, cur, engines, prec>>

(* getPointerToFunction: the open module is closed and compiled.           *)
Evaluate ==
  /\ Searching /\ fun.name = Anon
  /\ stack' = <<cur>>
  /\ cur' = 0
  /\ fun' = NoFunction
  /\ status' = "compiling"
  /\ UNCHANGED <<lazy, broken, mods, engines, prec>>

(* The first of the modules is NULL.                                       *)
FollowNull ==
  /\ status = "codegen" /\ broken
  /\ status' = "null"
  /\ UNCHANGED <<lazy, broken, mods, cur, engines, stack, prec, fun>>

-----------------------------------------------------------------------------
(* compileModule.  finalizeObject looks up the symbols the object refers to*)
(* and does not hold, in the process and then in the modules.              *)

Top == stack[Len(stack)]

Pending(m) ==
  {n \in Name : /\ mods[m][n].state = "declared"
                /\ \E f \in Symbol : n \in mods[m][f].calls}

Linked(n) == n \in Process \/ FirstBody(n) \in engines

Resolving(n) == status = "compiling" /\ n \in Pending(Top) /\ ~ Linked(n)

(* The module with the body is compiled first: also when it is being       *)
(* compiled already, and has no engine yet only because it is not done.    *)
CompileFor(n) ==
  /\ Resolving(n) /\ FirstBody(n) # 0
  /\ Len(stack) < StackLimit
  /\ stack' = Append(stack, FirstBody(n))
  /\ UNCHANGED <<lazy, broken, mods, cur, engines, prec, fun, status>>

Overflow(n) ==
  /\ Resolving(n) /\ FirstBody(n) # 0
  /\ Len(stack) >= StackLimit
  /\ status' = "overflow"
  /\ UNCHANGED <<lazy, broken, mods, cur, engines, stack, prec, fun>>

(* report_fatal_error                                                      *)
Unresolvable(n) ==
  /\ Resolving(n) /\ FirstBody(n) = 0
  /\ status' = "unresolved"
  /\ UNCHANGED <<lazy, broken, mods, cur, engines, stack, prec, fun>>

(* Mutant: the engine is not stored.                                       *)
FinalizeObject_Forget ==
  /\ status = "compiling"
  /\ \A n \in Pending(Top) : Linked(n)
  /\ stack' = SubSeq(stack, 1, Len(stack) - 1)
  /\ status' = IF Len(stack) = 1 THEN "ready" ELSE status
  /\ UNCHANGED <<lazy, broken, mods, cur, engines, prec, fun>>

(* The expression runs, or the module is linked to the one that needs it.  *)
FinalizeObject ==
  /\ status = "compiling"
  /\ \A n \in Pending(Top) : Linked(n)
  /\ engines' = engines \cup {Top}
  /\ stack' = SubSeq(stack, 1, Len(stack) - 1)
  /\ status' = IF Len(stack) = 1 THEN "ready" ELSE status
  /\ UNCHANGED <<lazy, broken, mods, cur, prec, fun>>

Command ==
  \/ \E n \in Name, a \in Arity : HandleDefinition(n, a) \/ HandleExtern(n, a)
  \/ HandleTopLevelExpression

Body ==
  \/ \E n \in Name, k \in Arity : Call(n, k) \/ RejectCall(n, k)
  \/ \E n \in Name : OperatorMissing(n)
  \/ BodyError \/ FinishDefinition \/ Evaluate \/ FollowNull

Compile ==
  \/ \E n \in Name : CompileFor(n) \/ Overflow(n) \/ Unresolvable(n)
  \/ FinalizeObject

Next == Command \/ Body \/ Compile

Spec == Init /\ [][Next]_vars

(* One thread: a compilation that has begun is worked on until it is done. *)
FairSpec == Spec /\ WF_vars(Compile)

-----------------------------------------------------------------------------
(* The state is of the right kind, a module is open while a body is being  *)
(* generated, and none while modules are being compiled.                   *)
TypeOK ==
  /\ lazy \in BOOLEAN /\ broken \in BOOLEAN
  /\ mods \in Seq([Symbol -> Entry]) /\ Len(mods) <= MaxModules + 1
  /\ cur \in 0 .. Len(mods)
  /\ engines \subseteq DOMAIN mods
  /\ stack \in Seq(DOMAIN mods)
  /\ prec \subseteq Operator
  /\ fun \in [name : Symbol \cup {"none"}, parsed : SUBSET Operator]
  /\ status \in {"ready", "codegen", "compiling", "aborted", "unresolved",
                 "overflow", "dangling", "null"}
  /\ status = "codegen" => /\ cur # 0 /\ fun.name \in Symbol
                           /\ mods[cur][fun.name].state = "defined"
  /\ status = "compiling" => stack # <<>> /\ cur = 0

(* With a module for each definition, a call means the same function in    *)
(* whichever module it stands, except for symbols of the process: a module *)
(* that calls its own function of a name is the first with a body for it,  *)
(* the one every other module is linked to (getFunction 932-959,           *)
(* getPointerToNamedFunction 1073-1095).                                   *)
OneMeaning ==
  lazy => \A i \in DOMAIN mods, f \in Symbol : \A n \in mods[i][f].calls \ Process :
    mods[i][n].state = "defined" => FirstBody(n) = i

(* A binary operator the parser accepts has a body to call, or is built in *)
(* (the precedence is installed at 1492 and erased at 1515).               *)
OperatorsDefined ==
  \A o \in prec : o \in Builtin \/ FirstBody(o) # 0

(* Nothing is added to, changed in or erased from a module that has been   *)
(* handed to an engine ("We have a Module that hasn't been JITed").        *)
Handed == engines \cup {stack[i] : i \in DOMAIN stack}
CompiledFrozen ==
  [][\A m \in Handed : mods'[m] = mods[m] /\ cur' # m]_vars

(* A function that has been compiled stays the one its name resolves to,   *)
(* whatever is declared, defined or erased later.                          *)
MeaningKept ==
  [][\A n \in Name : FirstBody(n) \in engines => FirstBody(n)' = FirstBody(n)]_vars

(* No module is handed to an engine twice: the assertion in compileModule, *)
(* "EngineMap.find(M) == EngineMap.end()" (main.cpp:976), and "Look for the *)
(* functions in our modules, compiling only as necessary" (1074).          *)
CompiledOnce ==
  \A i, j \in DOMAIN stack : stack[i] \notin engines /\ (stack[i] = stack[j] => i = j)

(* Module i calls a function that j is the first to have a body for.       *)
Needs(i, j) ==
  \E n \in Pending(i) \ Process :
    mods[j][n].state = "defined" /\ \A k \in 1 .. j - 1 : mods[k][n].state # "defined"

Circular ==
  \E circle \in SUBSET DOMAIN mods :
    circle # {} /\ \A i \in circle : \E j \in circle : Needs(i, j)

(* It happens only among modules that need each other: if there are none,  *)
(* each is compiled once, and is linked to before it is asked for again.   *)
OnceUnlessCircular == ~ Circular => CompiledOnce

(* Then a compilation comes to an end with all that it has to compile      *)
(* first, or with the report that there is no such function, and not when  *)
(* the stack has no room left.                                             *)
CompileEnds ==
  status = "compiling" /\ ~ Circular ~> status \in {"ready", "unresolved"}
=============================================================================

------------------------------- MODULE OrcRepl -------------------------------
(***************************************************************************)
(* The Kaleidoscope session on ORC, tests/main.cpp: every definition and   *)
(* every expression is a module of its own, given to the JIT as soon as it *)
(* has been generated; prototypes outlive the modules.  A body is a sum of *)
(* calls and variables: every operand is generated, whichever fails.       *)
(***************************************************************************)
EXTENDS Integers, Sequences

CONSTANTS Function,     \* names of functions
          Process,      \* the functions that are also symbols of the process
          Anon,         \* the function made for an expression
          Variable,     \* names of arguments
          Prototype,    \* the lists of arguments tried
          Body          \* the bodies tried

Symbol == Function \cup {Anon}

ASSUME OrcAssumption ==
  /\ Process \subseteq Function /\ Anon \notin Function
  /\ Prototype \subseteq Seq(Variable) /\ <<>> \in Prototype
  /\ Body \subseteq [calls : SUBSET (Function \X Nat), uses : SUBSET Variable]

VARIABLES
  protos,    \* FunctionProtos
  module,    \* TheModule between two commands: the functions it declares
  jit,       \* the definitions in MainJD
  absolute,  \* the symbols of the process MainJD has been asked for
  status,    \* "ready", or "exited" by ExitOnErr
  loose      \* history: the functions announced without a body, or twice

vars == <<protos, module, jit, absolute, status, loose>>

NoNames == [n \in {} |-> <<>>]

Init ==
  /\ protos = NoNames /\ module = NoNames /\ jit = NoNames
  /\ absolute = {}
  /\ status = "ready"
  /\ loose = {}

-----------------------------------------------------------------------------
With(map, n, v) == [m \in DOMAIN map \cup {n} |-> IF m = n THEN v ELSE map[m]]
Without(map, n) == [m \in DOMAIN map \ {n} |-> map[m]]

(* getFunction: a function of the open module is taken as it is, another is*)
(* declared there from its prototype, and one that has neither is unknown. *)
GetFunctions(mod, ps, names) ==
  [n \in DOMAIN mod \cup (names \cap DOMAIN ps) |->
     IF n \in DOMAIN mod THEN mod[n] ELSE ps[n]]

Callees(body) == {c[1] : c \in body.calls}

(* The open module while the body of n is generated.                       *)
Generated(ps, n, body) == GetFunctions(module, ps, {n} \cup Callees(body))

(* Mutant: the numbers of arguments are not compared.                      *)
Compiles_AnyCount(mod, n, body) ==
  /\ \A v \in body.uses : \E i \in DOMAIN mod[n] : mod[n][i] = v
  /\ \A c \in body.calls : c[1] \in DOMAIN mod

(* The body has a value: its variables are arguments of the function that  *)
(* getFunction gave for the prototype, and its calls fit the declarations. *)
Compiles(mod, n, body) ==
  /\ \A v \in body.uses : \E i \in DOMAIN mod[n] : mod[n][i] = v
  /\ \A c \in body.calls : c[1] \in DOMAIN mod /\ Len(mod[c[1]]) = c[2]

(* What addModule adds, unless the JIT has a symbol of that name.          *)
Added(n, args, body) == With(jit, n, [args |-> args, calls |-> body.calls])
Duplicate(n) == n \in DOMAIN jit \cup absolute

-----------------------------------------------------------------------------
(* Mutant: the function is not erased.                                     *)
Reject_NoErase(n, args, body) ==
  LET ps  == With(protos, n, args)
      mod == Generated(ps, n, body)
  IN  /\ status = "ready" /\ ~ Compiles(mod, n, body)
      /\ protos' = ps
      /\ module' = mod
      /\ loose' = loose \cup ({n} \ {Anon})
      /\ UNCHANGED <<jit, absolute, status>>

(* FunctionAST::codegen returns NULL: the function is erased; its prototype*)
(* stays, and so does what its body has declared.                          *)
Reject(n, args, body) ==
  LET ps  == With(protos, n, args)
      mod == Generated(ps, n, body)
  IN  /\ status = "ready" /\ ~ Compiles(mod, n, body)
      /\ protos' = ps
      /\ module' = Without(mod, n)
      /\ loose' = loose \cup ({n} \ {Anon})
      /\ UNCHANGED <<jit, absolute, status>>

(* The module is given to the JIT and a new one is opened.                 *)
Define(n, args, body) ==
  LET ps  == With(protos, n, args)
      mod == Generated(ps, n, body)
  IN  /\ status = "ready" /\ Compiles(mod, n, body) /\ ~ Duplicate(n)
      /\ protos' = ps
      /\ jit' = Added(n, mod[n], body)
      /\ module' = NoNames
      /\ UNCHANGED <<absolute, status, loose>>

(* addModule reports a duplicate definition and ExitOnErr ends the session.*)
Redefine(n, args, body) ==
  LET ps  == With(protos, n, args)
      mod == Generated(ps, n, body)
  IN  /\ status = "ready" /\ Compiles(mod, n, body) /\ Duplicate(n)
      /\ protos' = ps
      /\ status' = "exited"
      /\ loose' = loose \cup {n}
      /\ UNCHANGED <<module, jit, absolute>>

HandleDefinition(n, args, body) ==
  Reject(n, args, body) \/ Define(n, args, body) \/ Redefine(n, args, body)

(* The prototype is generated first: a second declaration in one module    *)
(* gets another name and is never used, but its prototype is the one kept. *)
HandleExtern(n, args) ==
  /\ status = "ready"
  /\ module' = GetFunctions(module, With(protos, n, args), {n})
  /\ protos' = With(protos, n, args)
  /\ loose' = loose \cup {n}
  /\ UNCHANGED <<jit, absolute, status>>

-----------------------------------------------------------------------------
(* What the lookup of the expression has to find: all it calls, and all    *)
(* that calls in its turn.                                                 *)
Closed(S, defs) == \A n \in S \cap DOMAIN defs : Callees(defs[n]) \subseteq S
Reached(defs) ==
  {n \in Symbol : \A S \in SUBSET Symbol : Anon \in S /\ Closed(S, defs) => n \in S}

Resolves(defs) == Reached(defs) \subseteq DOMAIN defs \cup Process

(* Mutant: the module of the expression stays in the JIT.                  *)
Evaluate_NoRemove(body) ==
  LET ps   == With(protos, Anon, <<>>)
      mod  == Generated(ps, Anon, body)
      defs == Added(Anon, <<>>, body)
  IN  /\ status = "ready" /\ Compiles(mod, Anon, body)
      /\ ~ Duplicate(Anon) /\ Resolves(defs)
      /\ protos' = ps
      /\ module' = NoNames
      /\ jit' = defs
      /\ absolute' = absolute \cup (Reached(defs) \ DOMAIN defs)
      /\ UNCHANGED <<status, loose>>

(* The expression is added, looked up, run and removed.                    *)
Evaluate(body) ==
  LET ps   == With(protos, Anon, <<>>)
      mod  == Generated(ps, Anon, body)
      defs == Added(Anon, <<>>, body)
  IN  /\ status = "ready" /\ Compiles(mod, Anon, body)
      /\ ~ Duplicate(Anon) /\ Resolves(defs)
      /\ protos' = ps
      /\ module' = NoNames
      /\ jit' = Without(defs, Anon)
      /\ absolute' = absolute \cup (Reached(defs) \ DOMAIN defs)
      /\ UNCHANGED <<status, loose>>

(* addModule or the lookup fails, and ExitOnErr ends the session.          *)
Unresolved(body) ==
  LET ps   == With(protos, Anon, <<>>)
      mod  == Generated(ps, Anon, body)
      defs == Added(Anon, <<>>, body)
  IN  /\ status = "ready" /\ Compiles(mod, Anon, body)
      /\ ~ (~ Duplicate(Anon) /\ Resolves(defs))
      /\ protos' = ps
      /\ module' = NoNames
      /\ jit' = defs
      /\ status' = "exited"
      /\ UNCHANGED <<absolute, loose>>

HandleTopLevelExpression(body) ==
  Reject(Anon, <<>>, body) \/ Evaluate(body) \/ Unresolved(body)

Next ==
  \/ \E n \in Function, args \in Prototype :
       \/ HandleExtern(n, args)
       \/ \E body \in Body : HandleDefinition(n, args, body)
  \/ \E body \in Body : HandleTopLevelExpression(body)

Spec == Init /\ [][Next]_vars

-----------------------------------------------------------------------------
(* The maps are of the right kind; between two commands neither the open   *)
(* module nor the JIT of a living session holds the function of an         *)
(* expression, and the open module declares nothing without a prototype.   *)
TypeOK ==
  /\ DOMAIN protos \subseteq Symbol /\ protos \in [DOMAIN protos -> Prototype]
  /\ DOMAIN module \subseteq Function \cap DOMAIN protos
  /\ module \in [DOMAIN module -> Prototype]
  /\ DOMAIN jit \subseteq Symbol
  /\ jit \in [DOMAIN jit -> [args : Prototype, calls : SUBSET (Function \X Nat)]]
  /\ absolute \subseteq Process
  /\ status \in {"ready", "exited"}
  /\ loose \subseteq Function
  /\ status = "ready" => Anon \notin DOMAIN jit

(* Only an extern, a definition that failed or a second definition of some *)
(* name can make ExitOnErr end the session (680, 715, 719): expressions    *)
(* alone, and definitions that succeed, never do, however they are mixed.  *)
NoSurpriseExit == status = "exited" => loose # {}

(* A call to a function announced by nothing but its one definition is a   *)
(* call to a function the JIT has, with as many arguments as it takes, and *)
(* the function has the arguments it was written with (getFunction, 526).  *)
CallsFit ==
  /\ \A n \in DOMAIN jit : \A c \in jit[n].calls :
       c[1] \notin loose => c[1] \in DOMAIN jit /\ Len(jit[c[1]].args) = c[2]
  /\ \A n \in DOMAIN jit \ loose : n \in DOMAIN protos /\ jit[n].args = protos[n]
=============================================================================

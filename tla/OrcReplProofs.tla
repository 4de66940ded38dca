---------------------------- MODULE OrcReplProofs ----------------------------
(***************************************************************************)
(* Proofs about OrcRepl.  The inductive invariant says what the prototypes *)
(* and the declarations of the open module are worth: those of a function  *)
(* that is not loose are those of a function the JIT has.                  *)
(***************************************************************************)
EXTENDS OrcRepl, TLAPS

Agree == \A n \in DOMAIN module \ loose : module[n] = protos[n]

Delivered ==
  \A n \in DOMAIN protos \ (loose \cup {Anon}) :
    n \in DOMAIN jit /\ jit[n].args = protos[n]

IInv == TypeOK /\ Agree /\ Delivered /\ CallsFit

(* What FunctionAST::codegen (610) works with once it has the prototype of *)
(* n: the prototypes ps with that of n, and the declarations mod, which    *)
(* agree with the prototypes of all other functions that are not loose.    *)
Prepared(n, args, body, ps, mod) ==
  /\ DOMAIN ps = DOMAIN protos \cup {n} /\ ps[n] = args
  /\ \A m \in DOMAIN protos \ {n} : ps[m] = protos[m]
  /\ DOMAIN ps \subseteq Symbol /\ ps \in [DOMAIN ps -> Prototype]
  /\ n \in DOMAIN mod /\ DOMAIN mod \subseteq DOMAIN ps
  /\ DOMAIN mod \subseteq Function \cup {n}
  /\ mod \in [DOMAIN mod -> Prototype]
  /\ \A m \in DOMAIN mod \ (loose \cup {n}) :
       m \in DOMAIN protos /\ mod[m] = protos[m]
  /\ n \notin DOMAIN module => mod[n] = args
  /\ body.calls \subseteq Function \X Nat

LEMMA GeneratedPrepared ==
  ASSUME IInv, NEW n \in Symbol, NEW args \in Prototype, NEW body \in Body
  PROVE  Prepared(n, args, body, With(protos, n, args),
                  Generated(With(protos, n, args), n, body))
<1> DEFINE ps == With(protos, n, args)
           mod == Generated(ps, n, body)
           names == {n} \cup Callees(body)
<1>1. /\ DOMAIN ps = DOMAIN protos \cup {n} /\ ps[n] = args
      /\ \A m \in DOMAIN protos \ {n} : ps[m] = protos[m]
  BY DEF With
<1>2. /\ protos \in [DOMAIN protos -> Prototype] /\ DOMAIN protos \subseteq Symbol
      /\ module \in [DOMAIN module -> Prototype]
      /\ DOMAIN module \subseteq Function /\ DOMAIN module \subseteq DOMAIN protos
  BY DEF IInv, TypeOK
<1>3. DOMAIN ps \subseteq Symbol /\ ps \in [DOMAIN ps -> Prototype]
  BY <1>2 DEF With
<1>4. body.calls \subseteq Function \X Nat /\ Callees(body) \subseteq Function
  BY OrcAssumption DEF Callees
<1> HIDE DEF ps
<1>5. /\ DOMAIN mod = DOMAIN module \cup (names \cap DOMAIN ps)
      /\ \A m \in DOMAIN module : mod[m] = module[m]
      /\ \A m \in (names \cap DOMAIN ps) \ DOMAIN module : mod[m] = ps[m]
  BY DEF Generated, GetFunctions
<1>6. mod \in [DOMAIN mod -> Prototype]
  BY <1>2, <1>3 DEF Generated, GetFunctions
<1> HIDE DEF mod
<1>7. \A m \in DOMAIN mod \ (loose \cup {n}) : m \in DOMAIN protos /\ mod[m] = protos[m]
  BY <1>1, <1>2, <1>5 DEF IInv, Agree
<1>8. Prepared(n, args, body, ps, mod)
  BY <1>1, <1>2, <1>3, <1>4, <1>5, <1>6, <1>7 DEF Prepared
<1>9. QED
  BY <1>8 DEF ps, mod

(* A body that compiles calls the functions that are not loose as they are *)
(* in the JIT.                                                             *)
LEMMA CallsFound ==
  ASSUME IInv, NEW n \in Symbol, NEW args \in Prototype, NEW body \in Body,
         NEW ps, NEW mod, Prepared(n, args, body, ps, mod),
         Compiles(mod, n, body)
  PROVE  \A c \in body.calls :
           c[1] \notin loose \cup {n} =>
             c[1] \in DOMAIN jit /\ Len(jit[c[1]].args) = c[2]
<1> TAKE c \in body.calls
<1> HAVE c[1] \notin loose \cup {n}
<1>1. c[1] \in DOMAIN mod /\ Len(mod[c[1]]) = c[2]
  BY DEF Compiles
<1>2. c[1] \in DOMAIN protos /\ mod[c[1]] = protos[c[1]]
  BY <1>1 DEF Prepared
<1>3. c[1] \in Function
  BY DEF Prepared
<1>4. c[1] \in DOMAIN jit /\ jit[c[1]].args = protos[c[1]]
  BY <1>2, <1>3, OrcAssumption DEF IInv, Delivered
<1>5. QED
  BY <1>1, <1>2, <1>4

-----------------------------------------------------------------------------
LEMMA InitInv == Init => IInv
BY DEF Init, NoNames, IInv, TypeOK, Agree, Delivered, CallsFit, Symbol

LEMMA RejectKeeps ==
  ASSUME IInv, NEW n \in Symbol, NEW args \in Prototype, NEW body \in Body,
         Reject(n, args, body)
  PROVE  IInv'
<1> DEFINE ps == With(protos, n, args)
           mod == Generated(ps, n, body)
<1>1. /\ protos' = ps /\ module' = Without(mod, n)
      /\ loose' = loose \cup ({n} \ {Anon})
      /\ jit' = jit /\ absolute' = absolute /\ status' = status /\ status = "ready"
  BY DEF Reject
<1>2. Prepared(n, args, body, ps, mod)
  BY GeneratedPrepared
<1> HIDE DEF ps, mod
<1>3. /\ DOMAIN module' = DOMAIN mod \ {n}
      /\ \A m \in DOMAIN mod \ {n} : module'[m] = mod[m]
      /\ module' \in [DOMAIN module' -> Prototype]
  BY <1>1, <1>2 DEF Prepared, Without
<1>4. TypeOK'
  BY <1>1, <1>2, <1>3, OrcAssumption DEF Prepared, IInv, TypeOK, Symbol
<1>5. Agree'
  BY <1>1, <1>2, <1>3 DEF Prepared, Agree
<1>6. Delivered'
  BY <1>1, <1>2 DEF Prepared, IInv, Delivered
<1>7. CallsFit'
  BY <1>1, <1>2 DEF Prepared, IInv, TypeOK, CallsFit
<1>8. QED
  BY <1>4, <1>5, <1>6, <1>7 DEF IInv

LEMMA DefineKeeps ==
  ASSUME IInv, NEW n \in Function, NEW args \in Prototype, NEW body \in Body,
         Define(n, args, body)
  PROVE  IInv'
<1> DEFINE ps == With(protos, n, args)
           mod == Generated(ps, n, body)
<1>1. /\ protos' = ps /\ module' = NoNames /\ jit' = Added(n, mod[n], body)
      /\ loose' = loose /\ absolute' = absolute /\ status' = status
      /\ status = "ready" /\ Compiles(mod, n, body) /\ n \notin DOMAIN jit
  BY DEF Define, Duplicate
<1>2. Prepared(n, args, body, ps, mod) /\ n \in Symbol
  BY GeneratedPrepared DEF Symbol
<1> HIDE DEF ps, mod
<1>3. /\ DOMAIN jit' = DOMAIN jit \cup {n}
      /\ jit'[n] = [args |-> mod[n], calls |-> body.calls]
      /\ \A m \in DOMAIN jit : jit'[m] = jit[m]
  BY <1>1 DEF Added, With
<1>4. TypeOK'
  <2>1. mod[n] \in Prototype
    BY <1>2 DEF Prepared
  <2>2. jit' \in [DOMAIN jit' -> [args : Prototype, calls : SUBSET (Function \X Nat)]]
    BY <1>1, <1>2, <2>1 DEF Prepared, IInv, TypeOK, Added, With
  <2>3. QED
    BY <1>1, <1>2, <1>3, <2>2, OrcAssumption
       DEF Prepared, IInv, TypeOK, Symbol, NoNames
<1>5. Agree'
  BY <1>1 DEF Agree, NoNames
(* A function that is not loose has not been announced before.             *)
<1>6. n \notin loose => n \notin DOMAIN protos /\ mod[n] = args
  <2>1. n \notin loose => n \notin DOMAIN protos
    BY <1>1, OrcAssumption DEF IInv, Delivered
  <2>2. QED
    BY <1>2, <2>1 DEF Prepared, IInv, TypeOK
<1>7. Delivered'
  BY <1>1, <1>2, <1>3, <1>6 DEF Prepared, IInv, Delivered
<1>8. CallsFit'
  <2>1. \A m \in DOMAIN jit : \A c \in jit[m].calls :
          c[1] \notin loose' => c[1] \in DOMAIN jit' /\ Len(jit'[c[1]].args) = c[2]
    BY <1>1, <1>3 DEF IInv, CallsFit
  <2>2. \A c \in body.calls :
          c[1] \notin loose' => c[1] \in DOMAIN jit' /\ Len(jit'[c[1]].args) = c[2]
    <3> SUFFICES ASSUME NEW c \in body.calls, c[1] \notin loose'
                 PROVE  c[1] \in DOMAIN jit' /\ Len(jit'[c[1]].args) = c[2]
      OBVIOUS
    <3>1. CASE c[1] = n
      BY <1>1, <1>3, <3>1 DEF Compiles
    <3>2. CASE c[1] # n
      <4>1. c[1] \in DOMAIN jit /\ Len(jit[c[1]].args) = c[2]
        BY <1>1, <1>2, <3>2, CallsFound
      <4>2. QED
        BY <1>3, <4>1
    <3>3. QED
      BY <3>1, <3>2
  <2>3. \A m \in DOMAIN jit' \ loose' : m \in DOMAIN protos' /\ jit'[m].args = protos'[m]
    BY <1>1, <1>2, <1>3, <1>6 DEF Prepared, IInv, CallsFit
  <2>4. QED
    BY <1>3, <2>1, <2>2, <2>3 DEF CallsFit
<1>9. QED
  BY <1>4, <1>5, <1>7, <1>8 DEF IInv

LEMMA RedefineKeeps ==
  ASSUME IInv, NEW n \in Function, NEW args \in Prototype, NEW body \in Body,
         Redefine(n, args, body)
  PROVE  IInv'
<1> DEFINE ps == With(protos, n, args)
           mod == Generated(ps, n, body)
<1>1. /\ protos' = ps /\ module' = module /\ jit' = jit
      /\ loose' = loose \cup {n} /\ absolute' = absolute /\ status' = "exited"
  BY DEF Redefine
<1>2. Prepared(n, args, body, ps, mod) /\ n \in Symbol
  BY GeneratedPrepared DEF Symbol
<1> HIDE DEF ps, mod
<1>3. TypeOK'
  BY <1>1, <1>2 DEF Prepared, IInv, TypeOK
<1>4. Agree' /\ Delivered' /\ CallsFit'
  BY <1>1, <1>2 DEF Prepared, IInv, TypeOK, Agree, Delivered, CallsFit
<1>5. QED
  BY <1>3, <1>4 DEF IInv

LEMMA ExternKeeps ==
  ASSUME IInv, NEW n \in Function, NEW args \in Prototype, HandleExtern(n, args)
  PROVE  IInv'
<1> DEFINE ps == With(protos, n, args)
<1>1. /\ protos' = ps /\ module' = GetFunctions(module, ps, {n}) /\ jit' = jit
      /\ loose' = loose \cup {n} /\ absolute' = absolute /\ status' = status
  BY DEF HandleExtern
<1>2. /\ DOMAIN ps = DOMAIN protos \cup {n}
      /\ \A m \in DOMAIN protos \ {n} : ps[m] = protos[m]
  BY DEF With
<1>3. ps \in [DOMAIN ps -> Prototype]
  BY DEF With, IInv, TypeOK
<1> HIDE DEF ps
<1>4. /\ DOMAIN module' = DOMAIN module \cup {n}
      /\ \A m \in DOMAIN module : module'[m] = module[m]
  BY <1>1, <1>2 DEF GetFunctions
<1>5. module' \in [DOMAIN module' -> Prototype]
  BY <1>1, <1>2, <1>3 DEF GetFunctions, IInv, TypeOK
<1>6. TypeOK'
  BY <1>1, <1>2, <1>3, <1>4, <1>5 DEF IInv, TypeOK, Symbol
<1>7. Agree' /\ Delivered' /\ CallsFit'
  BY <1>1, <1>2, <1>4 DEF IInv, TypeOK, Agree, Delivered, CallsFit
<1>8. QED
  BY <1>6, <1>7 DEF IInv

-----------------------------------------------------------------------------
(* What the JIT has once an expression that compiles has been added to it. *)
Expressed(body, defs) ==
  /\ DOMAIN defs = DOMAIN jit \cup {Anon}
  /\ defs \in [DOMAIN defs -> [args : Prototype, calls : SUBSET (Function \X Nat)]]
  /\ defs[Anon] = [args |-> <<>>, calls |-> body.calls]
  /\ \A m \in DOMAIN jit : m # Anon /\ defs[m] = jit[m]
  /\ \A m \in DOMAIN defs : \A c \in defs[m].calls :
       c[1] \notin loose => c[1] \in DOMAIN jit /\ Len(jit[c[1]].args) = c[2]

LEMMA ExpressionFits ==
  ASSUME IInv, status = "ready", NEW body \in Body, NEW ps, NEW mod,
         Prepared(Anon, <<>>, body, ps, mod), Compiles(mod, Anon, body)
  PROVE  Expressed(body, Added(Anon, <<>>, body))
<1> DEFINE defs == Added(Anon, <<>>, body)
<1>1. /\ DOMAIN defs = DOMAIN jit \cup {Anon}
      /\ defs[Anon] = [args |-> <<>>, calls |-> body.calls]
      /\ \A m \in DOMAIN jit : m # Anon /\ defs[m] = jit[m]
  BY DEF Added, With, IInv, TypeOK
<1>2. defs \in [DOMAIN defs -> [args : Prototype, calls : SUBSET (Function \X Nat)]]
  BY OrcAssumption DEF Added, With, Prepared, IInv, TypeOK
<1> HIDE DEF defs
<1>3. \A c \in body.calls :
        c[1] \notin loose => c[1] \in DOMAIN jit /\ Len(jit[c[1]].args) = c[2]
  <2>1. Anon \in Symbol /\ <<>> \in Prototype
    BY OrcAssumption DEF Symbol
  <2>2. \A c \in body.calls : c[1] # Anon
    BY OrcAssumption DEF Prepared
  <2>3. QED
    BY <2>1, <2>2, CallsFound
<1>4. Expressed(body, defs)
  BY <1>1, <1>2, <1>3 DEF Expressed, IInv, CallsFit
<1>5. QED
  BY <1>4 DEF defs

LEMMA EvaluateKeeps ==
  ASSUME IInv, NEW body \in Body, Evaluate(body)
  PROVE  IInv'
<1> DEFINE ps == With(protos, Anon, <<>>)
           mod == Generated(ps, Anon, body)
           defs == Added(Anon, <<>>, body)
<1>1. /\ protos' = ps /\ module' = NoNames /\ jit' = Without(defs, Anon)
      /\ absolute' = absolute \cup (Reached(defs) \ DOMAIN defs)
      /\ loose' = loose /\ status' = status /\ status = "ready"
      /\ Compiles(mod, Anon, body) /\ Reached(defs) \subseteq DOMAIN defs \cup Process
  BY DEF Evaluate, Resolves
<1>2. Prepared(Anon, <<>>, body, ps, mod)
  BY GeneratedPrepared, OrcAssumption DEF Symbol
<1> HIDE DEF ps, mod
<1>3. Expressed(body, defs)
  BY <1>1, <1>2, ExpressionFits
<1> HIDE DEF defs
(* With the expression removed the JIT is as it was.                       *)
<1>4. DOMAIN jit' = DOMAIN jit /\ \A m \in DOMAIN jit : jit'[m] = jit[m]
  BY <1>1, <1>3 DEF Expressed, Without
<1>5. jit' \in [DOMAIN jit' -> [args : Prototype, calls : SUBSET (Function \X Nat)]]
  BY <1>1, <1>3, <1>4 DEF Expressed, Without, IInv, TypeOK
<1>6. TypeOK'
  BY <1>1, <1>2, <1>4, <1>5, OrcAssumption
     DEF Prepared, IInv, TypeOK, Symbol, NoNames
<1>7. Agree' /\ Delivered' /\ CallsFit'
  BY <1>1, <1>2, <1>3, <1>4
     DEF Expressed, Prepared, IInv, Agree, Delivered, CallsFit, NoNames
<1>8. QED
  BY <1>6, <1>7 DEF IInv

LEMMA UnresolvedKeeps ==
  ASSUME IInv, NEW body \in Body, Unresolved(body)
  PROVE  IInv'
<1> DEFINE ps == With(protos, Anon, <<>>)
           mod == Generated(ps, Anon, body)
           defs == Added(Anon, <<>>, body)
<1>1. /\ protos' = ps /\ module' = NoNames /\ jit' = defs /\ absolute' = absolute
      /\ loose' = loose /\ status' = "exited" /\ status = "ready"
      /\ Compiles(mod, Anon, body)
  BY DEF Unresolved
<1>2. Prepared(Anon, <<>>, body, ps, mod)
  BY GeneratedPrepared, OrcAssumption DEF Symbol
<1> HIDE DEF ps, mod
<1>3. Expressed(body, defs)
  BY <1>1, <1>2, ExpressionFits
<1> HIDE DEF defs
<1>4. TypeOK'
  BY <1>1, <1>2, <1>3, OrcAssumption
     DEF Expressed, Prepared, IInv, TypeOK, Symbol, NoNames
<1>5. Agree' /\ Delivered'
  BY <1>1, <1>2, <1>3 DEF Expressed, Prepared, IInv, Agree, Delivered, NoNames
<1>6. CallsFit'
  BY <1>1, <1>2, <1>3 DEF Expressed, Prepared, IInv, CallsFit
<1>7. QED
  BY <1>4, <1>5, <1>6 DEF IInv

LEMMA NextKeeps == IInv /\ [Next]_vars => IInv'
<1> SUFFICES ASSUME IInv, [Next]_vars PROVE IInv'
  OBVIOUS
<1>1. ASSUME NEW n \in Function, NEW args \in Prototype, HandleExtern(n, args)
      PROVE  IInv'
  BY <1>1, ExternKeeps
<1>2. ASSUME NEW n \in Function, NEW args \in Prototype, NEW body \in Body,
             HandleDefinition(n, args, body)
      PROVE  IInv'
  BY <1>2, RejectKeeps, DefineKeeps, RedefineKeeps DEF HandleDefinition, Symbol
<1>3. ASSUME NEW body \in Body, HandleTopLevelExpression(body)
      PROVE  IInv'
  BY <1>3, RejectKeeps, EvaluateKeeps, UnresolvedKeeps, OrcAssumption
     DEF HandleTopLevelExpression, Symbol
<1>4. CASE UNCHANGED vars
  BY <1>4 DEF vars, IInv, TypeOK, Agree, Delivered, CallsFit
<1>5. QED
  BY <1>1, <1>2, <1>3, <1>4 DEF Next

(* The invariant: what a function that is not loose is called with, and    *)
(* declared as, is what the JIT has of it.                                 *)
THEOREM Invariance == Spec => []IInv
<1>1. QED
  BY InitInv, NextKeeps, PTL DEF Spec

(* The maps of the session keep their types, the function of an expression *)
(* has left the JIT before the next command, and the open module declares  *)
(* nothing without a prototype.                                            *)
THEOREM TypeCorrect == Spec => []TypeOK
<1>1. IInv => TypeOK
  BY DEF IInv
<1>2. QED
  BY <1>1, Invariance, PTL

(* Calls to functions that have one definition and no other announcement   *)
(* find it, with the arguments it takes (getFunction, 526).                *)
THEOREM CallsAlwaysFit == Spec => []CallsFit
<1>1. IInv => CallsFit
  BY DEF IInv
<1>2. QED
  BY <1>1, Invariance, PTL

-----------------------------------------------------------------------------
(* While no function is loose, the definitions of the JIT call each other  *)
(* only, and the lookup of an expression that compiles finds everything.   *)
LEMMA CleanResolves ==
  ASSUME IInv, loose = {}, NEW body \in Body, Unresolved(body)
  PROVE  FALSE
<1> DEFINE ps == With(protos, Anon, <<>>)
           mod == Generated(ps, Anon, body)
           defs == Added(Anon, <<>>, body)
<1>1. /\ status = "ready" /\ Compiles(mod, Anon, body)
      /\ ~ (~ Duplicate(Anon) /\ Resolves(defs))
  BY DEF Unresolved
<1>2. Prepared(Anon, <<>>, body, ps, mod)
  BY GeneratedPrepared, OrcAssumption DEF Symbol
<1> HIDE DEF ps, mod
<1>3. Expressed(body, defs)
  BY <1>1, <1>2, ExpressionFits
<1> HIDE DEF defs
<1>4. ~ Duplicate(Anon)
  BY <1>1, OrcAssumption DEF IInv, TypeOK, Duplicate
<1>5. Closed(DOMAIN defs, defs)
  BY <1>3 DEF Expressed, Closed, Callees
<1>6. DOMAIN defs \subseteq Symbol /\ Anon \in DOMAIN defs
  BY <1>3 DEF Expressed, IInv, TypeOK, Symbol
<1>7. Reached(defs) \subseteq DOMAIN defs
  BY <1>5, <1>6 DEF Reached
<1>8. QED
  BY <1>1, <1>4, <1>7 DEF Resolves

(* ExitOnErr (680, 715, 719) ends no session in which every function has   *)
(* been defined once, successfully, and none declared with extern.         *)
THEOREM NeverSurprised == Spec => []NoSurpriseExit
<1>1. Init => NoSurpriseExit
  BY DEF Init, NoSurpriseExit
<1>2. ASSUME IInv, NoSurpriseExit, [Next]_vars
      PROVE  NoSurpriseExit'
  <2>1. ASSUME NEW n \in Function, NEW args \in Prototype, HandleExtern(n, args)
        PROVE  NoSurpriseExit'
    BY <2>1 DEF HandleExtern, NoSurpriseExit
  <2>2. ASSUME NEW n \in Function, NEW args \in Prototype, NEW body \in Body,
               HandleDefinition(n, args, body)
        PROVE  NoSurpriseExit'
    BY <2>2 DEF HandleDefinition, Reject, Define, Redefine, NoSurpriseExit
  <2>3. ASSUME NEW body \in Body, HandleTopLevelExpression(body)
        PROVE  NoSurpriseExit'
    <3>1. CASE Reject(Anon, <<>>, body) \/ Evaluate(body)
      BY <3>1 DEF Reject, Evaluate, NoSurpriseExit
    <3>2. CASE Unresolved(body)
      <4>1. loose' = loose /\ loose # {}
        BY <1>2, <3>2, CleanResolves DEF Unresolved
      <4>2. QED
        BY <4>1 DEF NoSurpriseExit
    <3>3. QED
      BY <2>3, <3>1, <3>2 DEF HandleTopLevelExpression
  <2>4. CASE UNCHANGED vars
    BY <1>2, <2>4 DEF vars, NoSurpriseExit
  <2>5. QED
    BY <1>2, <2>1, <2>2, <2>3, <2>4 DEF Next
<1>3. QED
  BY <1>1, <1>2, Invariance, PTL DEF Spec
=============================================================================

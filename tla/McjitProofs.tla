----------------------------- MODULE McjitProofs -----------------------------
(***************************************************************************)
(* Proofs about Mcjit.  All rest on one fact: the open module is the last  *)
(* one and has not been handed to an engine, and a step changes no other.  *)
(***************************************************************************)
EXTENDS Mcjit, SequenceTheorems, WellFoundedInduction, TLAPS

Module == [Symbol -> Entry]

-----------------------------------------------------------------------------
(* A set of numbers that is not empty has a smallest one.                  *)
Less == {p \in Nat \X Nat : p[1] < p[2]}

LEMMA LessWellFounded == IsWellFoundedOn(Less, Nat)
<1>1. IsWellFoundedOn(OpToRel(<, Nat), Nat)
  BY NatLessThanWellFounded
<1>2. QED
  BY <1>1 DEF OpToRel, Less

LEMMA Smallest ==
  ASSUME NEW T \in SUBSET Nat, T # {}
  PROVE  \E k \in T : \A j \in T : k <= j
<1>1. PICK k \in T : \A j \in T : ~ (<<j, k>> \in Less)
  BY LessWellFounded, WFMin
<1>2. ASSUME NEW j \in T PROVE k <= j
  <2>1. <<j, k>> \in Nat \X Nat /\ <<j, k>> \notin Less
    BY <1>1
  <2>2. ~ (<<j, k>>[1] < <<j, k>>[2])
    BY <2>1, Zenon DEF Less
  <2>3. QED
    BY <2>2
<1>3. QED
  BY <1>2

-----------------------------------------------------------------------------
(* First: a set of positive numbers that is not empty has a smallest one.  *)
LEMMA FirstFacts ==
  ASSUME NEW T \in SUBSET (Nat \ {0})
  PROVE  /\ First(T) = 0 <=> T = {}
         /\ T # {} => First(T) \in T /\ \A j \in T : First(T) <= j
<1>1. CASE T = {}
  BY <1>1 DEF First
<1>2. CASE T # {}
  <2>1. \E k \in T : \A j \in T : k <= j
    BY <1>2, Smallest
  <2>2. First(T) \in T /\ \A j \in T : First(T) <= j
    BY <1>2, <2>1 DEF First
  <2>3. QED
    BY <1>2, <2>2
<1>3. QED
  BY <1>1, <1>2

(* It is the only one below which there is none.                           *)
LEMMA FirstUnique ==
  ASSUME NEW T \in SUBSET (Nat \ {0}), NEW k \in T, \A j \in T : k <= j
  PROVE  First(T) = k
<1>1. First(T) \in T /\ First(T) <= k
  BY FirstFacts
<1>2. First(T) \in Nat /\ k \in Nat /\ k <= First(T)
  BY <1>1
<1>3. QED
  BY <1>1, <1>2

-----------------------------------------------------------------------------
(* A module with one entry replaced, the last of a sequence of modules.    *)
LEMMA PlacedType ==
  ASSUME NEW ms \in Seq(Module), ms # <<>>, NEW n \in Symbol, NEW e \in Entry
  PROVE  [ms EXCEPT ![Len(ms)][n] = e] \in Seq(Module)
<1>1. Len(ms) \in 1 .. Len(ms) /\ ms[Len(ms)] \in Module
  BY EmptySeq, ElementOfSeq
<1>2. [ms[Len(ms)] EXCEPT ![n] = e] \in Module
  BY <1>1 DEF Module
<1>3. QED
  BY <1>1, <1>2, ExceptSeq

LEMMA PlacedFacts ==
  ASSUME NEW ms \in Seq(Module), ms # <<>>, NEW n \in Symbol, NEW e \in Entry
  PROVE  /\ Len([ms EXCEPT ![Len(ms)][n] = e]) = Len(ms)
         /\ \A i \in 1 .. Len(ms) - 1 : [ms EXCEPT ![Len(ms)][n] = e][i] = ms[i]
         /\ [ms EXCEPT ![Len(ms)][n] = e][Len(ms)] = [ms[Len(ms)] EXCEPT ![n] = e]
<1>1. Len(ms) \in 1 .. Len(ms) /\ ms[Len(ms)] \in Module
  BY EmptySeq, ElementOfSeq
<1>2. [ms[Len(ms)] EXCEPT ![n] = e] \in Module
  BY <1>1 DEF Module
<1>3. QED
  BY <1>1, <1>2, ExceptSeq

-----------------------------------------------------------------------------
(* The open module is the last, and no engine has it.                      *)
Open == cur \in {0, Len(mods)} /\ cur \notin Handed

(* What a step does that works on module o: o is open after it, and the    *)
(* last; the ones before it are what they were.                            *)
Works(o, ms) ==
  /\ o \in {Len(mods), Len(mods) + 1} \ {0} /\ o \notin Handed
  /\ ms \in Seq(Module) /\ Len(ms) = o
  /\ \A i \in 1 .. o - 1 : i \in DOMAIN mods /\ ms[i] = mods[i]

LEMMA OpenedWorks ==
  ASSUME TypeOK, Open, NEW c \in {0, cur}
  PROVE  /\ Works(Opened(c), ModulesFor(c))
         /\ c # 0 => ModulesFor(c)[Opened(c)] = mods[cur] /\ Opened(c) = cur
         /\ c = 0 => ModulesFor(c)[Opened(c)] = EmptyModule /\ Opened(c) = Len(mods) + 1
<1>1. mods \in Seq(Module) /\ Len(mods) \in Nat /\ DOMAIN mods = 1 .. Len(mods)
  BY LenProperties DEF TypeOK, Module
<1>2. Handed \subseteq DOMAIN mods
  BY DEF TypeOK, Handed
<1>3. CASE c # 0
  <2>1. /\ ModulesFor(c) = mods /\ Opened(c) = cur /\ cur = Len(mods)
        /\ cur # 0 /\ cur \notin Handed
    BY <1>3 DEF Open, ModulesFor, Opened
  <2>2. Works(cur, mods)
    <3> DEFINE l == Len(mods)
    <3>1. l # 0 /\ l \in Nat
      BY <1>1, <2>1, Zenon
    <3>2. l \in {l, l + 1} \ {0}
      BY <3>1
    <3>3. \A i \in 1 .. l - 1 : i \in DOMAIN mods
      BY <1>1
    <3>4. QED
      BY <1>1, <2>1, <3>2, <3>3 DEF Works
  <2>3. Works(Opened(c), ModulesFor(c))
    BY <2>1, <2>2, Zenon
  <2>4. ModulesFor(c)[Opened(c)] = mods[cur]
    BY <2>1, Zenon
  <2>5. QED
    BY <1>3, <2>1, <2>3, <2>4, Zenon
<1>4. CASE c = 0
  <2>1. EmptyModule \in Module
    BY McjitAssumption DEF EmptyModule, Module, Absent, Entry
  <2>2. /\ ModulesFor(c) = Append(mods, EmptyModule) /\ Opened(c) = Len(mods) + 1
    BY <1>4 DEF ModulesFor, Opened
  <2>3. /\ Append(mods, EmptyModule) \in Seq(Module)
        /\ Len(Append(mods, EmptyModule)) = Len(mods) + 1
        /\ Append(mods, EmptyModule)[Len(mods) + 1] = EmptyModule
        /\ \A i \in 1 .. Len(mods) : Append(mods, EmptyModule)[i] = mods[i]
    BY <1>1, <2>1, AppendProperties
  <2>4. Len(mods) + 1 \notin Handed
    BY <1>1, <1>2
  <2>5. QED
    BY <1>1, <1>4, <2>2, <2>3, <2>4 DEF Works
<1>5. QED
  BY <1>3, <1>4

-----------------------------------------------------------------------------
(* The modules with a body for n.                                          *)
Bodies(ms, n) == {i \in DOMAIN ms : ms[i][n].state = "defined"}

LEMMA BodiesType ==
  ASSUME NEW ms \in Seq(Module), NEW n
  PROVE  Bodies(ms, n) \in SUBSET (Nat \ {0}) /\ DOMAIN ms = 1 .. Len(ms)
<1>1. DOMAIN ms = 1 .. Len(ms) /\ Len(ms) \in Nat
  BY LenProperties
<1>2. QED
  BY <1>1 DEF Bodies

LEMMA FirstBodyFacts ==
  ASSUME TypeOK, NEW n
  PROVE  /\ FirstBody(n) = First(Bodies(mods, n))
         /\ FirstBody(n) # 0 =>
              FirstBody(n) \in DOMAIN mods /\ mods[FirstBody(n)][n].state = "defined"
         /\ \A i \in Bodies(mods, n) : FirstBody(n) # 0 /\ FirstBody(n) <= i
<1>1. FirstBody(n) = First(Bodies(mods, n))
  BY DEF FirstBody, Bodies
<1>2. Bodies(mods, n) \in SUBSET (Nat \ {0})
  BY BodiesType DEF TypeOK, Module
<1>3. /\ First(Bodies(mods, n)) = 0 <=> Bodies(mods, n) = {}
      /\ Bodies(mods, n) # {} =>
           /\ First(Bodies(mods, n)) \in Bodies(mods, n)
           /\ \A j \in Bodies(mods, n) : First(Bodies(mods, n)) <= j
  BY <1>2, FirstFacts
<1>4. QED
  BY <1>1, <1>3 DEF Bodies

(* A step changes nothing before the module it works on.                   *)
LEMMA FirstBodyKept ==
  ASSUME TypeOK, NEW o, NEW ms, Works(o, ms), NEW n, FirstBody(n) \in 1 .. o - 1
  PROVE  First(Bodies(ms, n)) = FirstBody(n)
<1> DEFINE k == FirstBody(n)
<1>1. Bodies(ms, n) \in SUBSET (Nat \ {0}) /\ DOMAIN ms = 1 .. o /\ o \in Nat
  BY BodiesType, LenProperties DEF Works
<1>2. k \in 1 .. o - 1 /\ ms[k] = mods[k] /\ mods[k][n].state = "defined"
  BY FirstBodyFacts DEF Works
<1>3. k \in Bodies(ms, n)
  BY <1>1, <1>2 DEF Bodies
<1>4. ASSUME NEW j \in Bodies(ms, n) PROVE k <= j
  <2>1. j \in 1 .. o /\ ms[j][n].state = "defined"
    BY <1>1 DEF Bodies
  <2>2. CASE j \in 1 .. o - 1
    <3>1. j \in Bodies(mods, n)
      BY <2>1, <2>2 DEF Works, Bodies
    <3>2. QED
      BY <3>1, FirstBodyFacts
  <2>3. CASE j = o
    BY <1>1, <1>2, <2>3
  <2>4. QED
    BY <1>1, <2>1, <2>2, <2>3
<1>5. QED
  BY <1>1, <1>3, <1>4, FirstUnique

LEMMA WorksPlaced ==
  ASSUME TypeOK, NEW o, NEW ms, Works(o, ms), NEW n \in Symbol, NEW e \in Entry
  PROVE  /\ Works(o, [ms EXCEPT ![o][n] = e])
         /\ [ms EXCEPT ![o][n] = e][o] = [ms[o] EXCEPT ![n] = e]
         /\ ms[o] \in Module /\ o \in Nat \ {0}
<1>1. /\ ms \in Seq(Module) /\ Len(ms) = o /\ o # 0 /\ o \in Nat
      /\ \A i \in 1 .. o - 1 : i \in DOMAIN mods /\ ms[i] = mods[i]
  BY LenProperties DEF Works
<1>2. ms # <<>>
  BY <1>1, EmptySeq
<1>3. /\ [ms EXCEPT ![Len(ms)][n] = e] \in Seq(Module)
      /\ Len([ms EXCEPT ![Len(ms)][n] = e]) = Len(ms)
      /\ \A i \in 1 .. Len(ms) - 1 : [ms EXCEPT ![Len(ms)][n] = e][i] = ms[i]
      /\ [ms EXCEPT ![Len(ms)][n] = e][Len(ms)] = [ms[Len(ms)] EXCEPT ![n] = e]
  BY <1>1, <1>2, PlacedType, PlacedFacts
<1>4. [ms EXCEPT ![o][n] = e] = [ms EXCEPT ![Len(ms)][n] = e]
  BY <1>1
<1>5. /\ [ms EXCEPT ![o][n] = e] \in Seq(Module)
      /\ Len([ms EXCEPT ![o][n] = e]) = o
      /\ \A i \in 1 .. o - 1 : [ms EXCEPT ![o][n] = e][i] = ms[i]
      /\ [ms EXCEPT ![o][n] = e][o] = [ms[o] EXCEPT ![n] = e]
  BY <1>1, <1>3, <1>4
<1>6. ms[o] \in Module
  BY <1>1, ElementOfSeq
<1>7. QED
  BY <1>1, <1>5, <1>6 DEF Works

LEMMA WorksTypes ==
  ASSUME TypeOK, NEW o, NEW ms, Works(o, ms)
  PROVE  /\ ms \in Seq(Module) /\ DOMAIN ms = 1 .. o /\ Len(ms) = o /\ o \in Nat \ {0}
         /\ DOMAIN mods \subseteq DOMAIN ms
         /\ engines \subseteq DOMAIN ms /\ stack \in Seq(DOMAIN ms)
         /\ o \in {Len(mods), Len(mods) + 1} /\ Len(mods) \in Nat
<1>1. /\ ms \in Seq(Module) /\ DOMAIN ms = 1 .. o /\ Len(ms) = o
      /\ Len(mods) \in Nat /\ DOMAIN mods = 1 .. Len(mods)
      /\ o \in {Len(mods), Len(mods) + 1} \ {0}
  BY LenProperties DEF Works, TypeOK, Module
<1>2. DOMAIN mods \subseteq DOMAIN ms
  BY <1>1
<1>3. engines \subseteq DOMAIN ms /\ stack \in Seq(DOMAIN ms)
  BY <1>2, SeqMonotonic DEF TypeOK
<1>4. QED
  BY <1>1, <1>2, <1>3

-----------------------------------------------------------------------------
(* What the actions of a body and of a command do to the modules.          *)
Changed == (mods' = mods /\ cur' \in {0, cur}) \/ Works(cur', mods')

LEMMA DefinedType ==
  ASSUME NEW a \in Arity
  PROVE  Defined(a) \in Entry /\ Declared(a) \in Entry /\ Absent \in Entry
BY McjitAssumption DEF Defined, Declared, Absent, Entry

LEMMA BeginEffect ==
  ASSUME TypeOK, Open, NEW c \in {0, cur}, NEW n \in Symbol, NEW a \in Arity,
         BeginFunction(c, n, a), ~ Redefines(c, n, a)
  PROVE  /\ Works(cur', mods') /\ cur' = Opened(c)
         /\ mods'[cur'] = [ModulesFor(c)[Opened(c)] EXCEPT ![n] = Defined(a)]
         /\ ModulesFor(c)[Opened(c)] \in Module
         /\ Len(mods') <= MaxModules + 1
<1>1. /\ Works(Opened(c), ModulesFor(c))
      /\ c # 0 => ModulesFor(c)[Opened(c)] = mods[cur] /\ Opened(c) = cur
      /\ c = 0 => ModulesFor(c)[Opened(c)] = EmptyModule /\ Opened(c) = Len(mods) + 1
  BY OpenedWorks
<1>2. /\ mods' = [ModulesFor(c) EXCEPT ![Opened(c)][n] = Defined(a)]
      /\ cur' = Opened(c) /\ MayOpen(c)
  BY DEF BeginFunction
<1>3. /\ Works(cur', mods')
      /\ mods'[cur'] = [ModulesFor(c)[Opened(c)] EXCEPT ![n] = Defined(a)]
      /\ ModulesFor(c)[Opened(c)] \in Module
  <2>1. Defined(a) \in Entry /\ n \in Symbol
    BY DefinedType
  <2>2. /\ Works(Opened(c), [ModulesFor(c) EXCEPT ![Opened(c)][n] = Defined(a)])
        /\ [ModulesFor(c) EXCEPT ![Opened(c)][n] = Defined(a)][Opened(c)]
             = [ModulesFor(c)[Opened(c)] EXCEPT ![n] = Defined(a)]
        /\ ModulesFor(c)[Opened(c)] \in Module
    BY <1>1, <2>1, WorksPlaced
  <2>3. QED
    BY <1>2, <2>2, Zenon
<1>4. Len(mods') = Opened(c) /\ Len(mods) \in Nat
  BY <1>1, <1>2, <1>3, WorksTypes
<1>5. Len(mods') <= MaxModules + 1
  <2>1. CASE c = 0
    <3>1. Len(mods) < MaxModules /\ Opened(c) = Len(mods) + 1
      BY <1>1, <1>2, <2>1 DEF MayOpen
    <3>2. QED
      BY <1>4, <3>1, McjitAssumption
  <2>2. CASE c # 0
    BY <1>1, <1>4, <2>2 DEF Open, TypeOK
  <2>3. QED
    BY <2>1, <2>2
<1>6. QED
  BY <1>2, <1>3, <1>5

LEMMA ExternEffect ==
  ASSUME TypeOK, Open, NEW n \in Name, NEW a \in Arity,
         HandleExtern(n, a), ~ Redefines(cur, n, a)
  PROVE  /\ Works(cur', mods') /\ cur' = Opened(cur)
         /\ mods'[cur'] = [ModulesFor(cur)[Opened(cur)] EXCEPT ![n] = Declared(a)]
         /\ ModulesFor(cur)[Opened(cur)] \in Module
         /\ Len(mods') <= MaxModules + 1
<1>1. /\ Works(Opened(cur), ModulesFor(cur))
      /\ cur # 0 => ModulesFor(cur)[Opened(cur)] = mods[cur] /\ Opened(cur) = cur
      /\ cur = 0 => ModulesFor(cur)[Opened(cur)] = EmptyModule /\ Opened(cur) = Len(mods) + 1
  BY OpenedWorks
<1>2. /\ mods' = [ModulesFor(cur) EXCEPT ![Opened(cur)][n] = Declared(a)]
      /\ cur' = Opened(cur) /\ MayOpen(cur)
  BY DEF HandleExtern
<1>3. /\ Works(cur', mods')
      /\ mods'[cur'] = [ModulesFor(cur)[Opened(cur)] EXCEPT ![n] = Declared(a)]
      /\ ModulesFor(cur)[Opened(cur)] \in Module
  <2>1. Declared(a) \in Entry /\ n \in Symbol
    BY DefinedType DEF Symbol
  <2>2. /\ Works(Opened(cur), [ModulesFor(cur) EXCEPT ![Opened(cur)][n] = Declared(a)])
        /\ [ModulesFor(cur) EXCEPT ![Opened(cur)][n] = Declared(a)][Opened(cur)]
             = [ModulesFor(cur)[Opened(cur)] EXCEPT ![n] = Declared(a)]
        /\ ModulesFor(cur)[Opened(cur)] \in Module
    BY <1>1, <2>1, WorksPlaced
  <2>3. QED
    BY <1>2, <2>2, Zenon
<1>4. Len(mods') = Opened(cur) /\ Len(mods) \in Nat
  BY <1>1, <1>2, <1>3, WorksTypes
<1>5. Len(mods') <= MaxModules + 1
  <2>1. CASE cur = 0
    <3>1. Len(mods) < MaxModules /\ Opened(cur) = Len(mods) + 1
      BY <1>1, <1>2, <2>1 DEF MayOpen
    <3>2. QED
      BY <1>4, <3>1, McjitAssumption
  <2>2. CASE cur # 0
    BY <1>1, <1>4, <2>2 DEF Open, TypeOK
  <2>3. QED
    BY <2>1, <2>2
<1>6. QED
  BY <1>2, <1>3, <1>5

-----------------------------------------------------------------------------
(* The inductive invariant.  In lazy mode a module that calls its own body *)
(* of a name has none before it with a body for that name.                 *)
Covered(ms, os) ==
  \A o \in os : o \in Builtin \/ \E i \in DOMAIN ms : ms[i][o].state = "defined"

Own(ms, i) ==
  \A f \in Symbol : \A n \in ms[i][f].calls :
    ms[i][n].state = "defined" => \A j \in 1 .. i - 1 : ms[j][n].state # "defined"

Meaning(ms) == \A i \in DOMAIN ms : Own(ms, i)

IInv == TypeOK /\ Open /\ Covered(mods, prec) /\ (lazy => Meaning(mods))

(* An edit of the open module: the bodies the precedences need stay, and   *)
(* its calls mean what they should.                                        *)
BodiesStay ==
  /\ \A i \in DOMAIN mods, x \in prec \cap prec' :
       mods[i][x].state = "defined" => mods'[i][x].state = "defined"
  /\ \A x \in prec' \ prec : mods'[cur'][x].state = "defined"

Edit ==
  /\ Works(cur', mods')
  /\ lazy' = lazy
  /\ BodiesStay
  /\ lazy => Own(mods', cur')

Quiet == mods' = mods /\ prec' = prec /\ lazy' = lazy /\ cur' \in {0, cur}

LEMMA EditKeeps ==
  ASSUME IInv, TypeOK', Open', Quiet \/ Edit
  PROVE  IInv' /\ Changed
<1>1. CASE Quiet
  <2>1. Covered(mods, prec)' /\ (lazy => Meaning(mods))'
    BY <1>1 DEF Quiet, IInv, Covered, Meaning, Own
  <2>2. QED
    BY <1>1, <2>1 DEF Quiet, Changed, IInv
<1>2. CASE Edit
  <2>1. Works(cur', mods') /\ TypeOK
    BY <1>2 DEF Edit, IInv
  <2>2. /\ DOMAIN mods' = 1 .. cur' /\ cur' \in Nat \ {0}
        /\ DOMAIN mods \subseteq DOMAIN mods'
        /\ \A i \in 1 .. cur' - 1 : i \in DOMAIN mods /\ mods'[i] = mods[i]
    <3>1. Works(cur', mods') => \A i \in 1 .. cur' - 1 : i \in DOMAIN mods /\ mods'[i] = mods[i]
      BY DEF Works
    <3>2. QED
      BY <2>1, <3>1, WorksTypes
  <2>3. ASSUME NEW x \in prec', x \notin Builtin
        PROVE  \E i \in DOMAIN mods' : mods'[i][x].state = "defined"
    <3>1. CASE x \in prec
      <4>1. PICK i \in DOMAIN mods : mods[i][x].state = "defined"
        BY <2>3, <3>1 DEF IInv, Covered
      <4>2. mods'[i][x].state = "defined" /\ i \in DOMAIN mods'
        BY <1>2, <2>2, <3>1, <4>1 DEF Edit, BodiesStay
      <4>3. QED
        BY <4>2
    <3>2. CASE x \notin prec
      BY <1>2, <2>2, <3>2 DEF Edit, BodiesStay
    <3>3. QED
      BY <3>1, <3>2
  <2>4. Covered(mods, prec)'
    BY <2>3 DEF Covered
  <2>5. ASSUME lazy PROVE Meaning(mods)'
    <3>1. ASSUME NEW i \in 1 .. cur' - 1 PROVE Own(mods', i)
      <4>1. Own(mods, i)
        BY <2>2, <2>5, <3>1 DEF IInv, Meaning
      <4>2. mods'[i] = mods[i] /\ \A j \in 1 .. i - 1 : mods'[j] = mods[j]
        <5>1. \A j \in 1 .. i - 1 : j \in 1 .. cur' - 1
          <6> DEFINE o == cur'
          <6>1. o \in Nat /\ i \in 1 .. o - 1
            BY <2>2, <3>1
          <6> HIDE DEF o
          <6>2. \A j \in 1 .. i - 1 : j \in 1 .. o - 1
            BY <6>1
          <6>3. QED
            BY <6>2 DEF o
        <5>2. \A k \in 1 .. cur' - 1 : mods'[k] = mods[k]
          BY <2>2
        <5>3. QED
          BY <5>1, <5>2, Zenon
      <4>3. QED
        BY <4>1, <4>2 DEF Own
    <3>2. Own(mods', cur')
      BY <1>2, <2>5 DEF Edit
    <3>3. DOMAIN mods' = (1 .. cur' - 1) \cup {cur'}
      BY <2>2
    <3>4. QED
      BY <3>1, <3>2, <3>3 DEF Meaning
  <2>6. QED
    BY <1>2, <2>1, <2>4, <2>5 DEF IInv, Edit, Changed
<1>3. QED
  BY <1>1, <1>2

LEMMA TypeKept ==
  ASSUME TypeOK, Open, Works(cur', mods'), Len(mods') <= MaxModules + 1,
         UNCHANGED <<lazy, broken, engines, stack>>, prec' \subseteq Operator,
         fun' \in [name : Symbol \cup {"none"}, parsed : SUBSET Operator],
         status' \in {"ready", "codegen", "dangling"},
         status' = "codegen" =>
           fun'.name \in Symbol /\ mods'[cur'][fun'.name].state = "defined"
  PROVE  TypeOK' /\ Open'
<1>1. /\ mods' \in Seq(Module) /\ DOMAIN mods' = 1 .. cur' /\ Len(mods') = cur'
      /\ cur' \in Nat \ {0}
      /\ engines \subseteq DOMAIN mods' /\ stack \in Seq(DOMAIN mods')
  BY WorksTypes
<1>2. cur' \notin Handed
  <2>1. Works(cur', mods') => cur' \notin Handed
    BY DEF Works
  <2>2. QED
    BY <2>1
<1>3. Open'
  BY <1>1, <1>2 DEF Open, Handed
<1>4. TypeOK'
  <2>1. cur' \in 0 .. Len(mods')
    BY <1>1
  <2>2. status' # "compiling"
    OBVIOUS
  <2>3. lazy' \in BOOLEAN /\ broken' \in BOOLEAN
    BY DEF TypeOK
  <2>4. QED
    BY <1>1, <2>1, <2>2, <2>3 DEF TypeOK, Module
<1>5. QED
  BY <1>3, <1>4

-----------------------------------------------------------------------------
(* The entries of the module a command works on: those of the open module, *)
(* or none.                                                                *)
LEMMA WorkedOn ==
  ASSUME IInv, NEW c \in {0, cur}, NEW x \in Symbol
  PROVE  /\ ModulesFor(c)[Opened(c)][x] \in Entry
         /\ c = 0 => ModulesFor(c)[Opened(c)][x] = Absent
         /\ c # 0 => ModulesFor(c)[Opened(c)][x] = mods[cur][x]
         /\ lazy => Own(ModulesFor(c), Opened(c))
         /\ Opened(c) \in Nat \ {0}
         /\ \A j \in 1 .. Opened(c) - 1 : ModulesFor(c)[j] = mods[j]
<1>1. /\ Works(Opened(c), ModulesFor(c))
      /\ c # 0 => ModulesFor(c)[Opened(c)] = mods[cur] /\ Opened(c) = cur
      /\ c = 0 => ModulesFor(c)[Opened(c)] = EmptyModule /\ Opened(c) = Len(mods) + 1
  BY OpenedWorks DEF IInv
<1>2. /\ ModulesFor(c) \in Seq(Module) /\ DOMAIN ModulesFor(c) = 1 .. Opened(c)
      /\ Opened(c) \in Nat \ {0} /\ Len(ModulesFor(c)) = Opened(c)
  BY <1>1, WorksTypes DEF IInv
<1>3. ModulesFor(c)[Opened(c)][x] \in Entry
  BY <1>2, ElementOfSeq DEF Module
<1>4. \A j \in 1 .. Opened(c) - 1 : ModulesFor(c)[j] = mods[j]
  BY <1>1 DEF Works
<1>5. c = 0 => Own(ModulesFor(c), Opened(c))
  BY <1>1 DEF EmptyModule, Absent, Own
<1>6. c # 0 /\ lazy => Own(ModulesFor(c), Opened(c))
  <2>1. c # 0 => ModulesFor(c) = mods /\ Opened(c) = cur /\ cur \in DOMAIN mods
    BY <1>2 DEF ModulesFor, Opened
  <2>2. QED
    BY <2>1, Zenon DEF IInv, Meaning
<1>7. QED
  BY <1>1, <1>2, <1>3, <1>4, <1>5, <1>6 DEF EmptyModule

(* The module after an entry that refers to nothing has been put in it.    *)
LEMMA PlacedOwn ==
  ASSUME IInv, lazy, NEW c \in {0, cur}, NEW n \in Symbol, NEW e \in Entry, NEW ms,
         Works(Opened(c), ms), e.calls = {},
         ms[Opened(c)] = [ModulesFor(c)[Opened(c)] EXCEPT ![n] = e],
         ModulesFor(c)[Opened(c)] \in Module,
         e.state = "defined" => c = 0 \/ n = Anon
  PROVE  Own(ms, Opened(c))
<1> DEFINE o == Opened(c)
           old == ModulesFor(c)[o]
<1>1. SUFFICES ASSUME NEW f \in Symbol, NEW x \in ms[o][f].calls,
                      ms[o][x].state = "defined", NEW j \in 1 .. o - 1
               PROVE  ms[j][x].state # "defined"
  BY DEF Own
<1>2. ms[o] = [old EXCEPT ![n] = e] /\ old \in [Symbol -> Entry]
  BY DEF Module
<1>3. f # n /\ x \in old[f].calls
  BY <1>1, <1>2
<1>4. x \in Name /\ c # 0
  BY <1>3, WorkedOn DEF Entry, Absent
<1>5. x \in Symbol /\ x # Anon
  BY <1>4, McjitAssumption DEF Symbol
<1>6. old[x].state = "defined"
  <2>1. CASE x = n
    BY <1>1, <1>2, <1>4, <1>5, <2>1
  <2>2. CASE x # n
    BY <1>1, <1>2, <1>5, <2>2
  <2>3. QED
    BY <2>1, <2>2
<1>7. ModulesFor(c)[j][x].state # "defined"
  BY <1>3, <1>6, WorkedOn DEF Own
<1>8. ModulesFor(c)[j] = mods[j] /\ ms[j] = mods[j]
  BY WorkedOn DEF Works
<1>9. QED
  BY <1>7, <1>8

-----------------------------------------------------------------------------
(* The commands.                                                           *)
Good == TypeOK' /\ Open' /\ (Quiet \/ Edit)

LEMMA BeginGood ==
  ASSUME IInv, NEW c \in {0, cur}, NEW n \in Symbol, NEW a \in Arity,
         BeginFunction(c, n, a), lazy => c = 0 \/ n = Anon
  PROVE  Good \/ vars' = vars
<1> DEFINE o == Opened(c)
           old == ModulesFor(c)[o]
<1>1. CASE Redefines(c, n, a)
  <2>1. c = cur /\ c # 0
    BY <1>1 DEF Redefines
  <2>2. cur' = cur
    BY <2>1 DEF BeginFunction, Opened
  <2>3. UNCHANGED <<mods, prec, fun, status, lazy, broken, engines, stack>>
    BY <1>1 DEF BeginFunction
  <2>4. QED
    BY <2>2, <2>3 DEF vars
<1>2. CASE ~ Redefines(c, n, a)
  <2>1. /\ Works(cur', mods') /\ cur' = o
        /\ mods'[cur'] = [old EXCEPT ![n] = Defined(a)]
        /\ old \in Module
        /\ Len(mods') <= MaxModules + 1
    BY <1>2, BeginEffect DEF IInv
  <2>2. /\ prec' = IF n \in Operator THEN prec \cup {n} ELSE prec
        /\ fun' = [name |-> n, parsed |-> prec] /\ status' = "codegen"
        /\ UNCHANGED <<lazy, broken, engines, stack>>
    BY <1>2 DEF BeginFunction
  <2>3. mods'[cur'][n] = Defined(a) /\ \A x \in Symbol \ {n} : mods'[cur'][x] = old[x]
    BY <2>1 DEF Module
  <2>4. TypeOK' /\ Open'
    <3>1. prec' \subseteq Operator
      BY <2>2 DEF IInv, TypeOK
    <3>2. fun' \in [name : Symbol \cup {"none"}, parsed : SUBSET Operator]
      BY <2>2 DEF IInv, TypeOK
    <3>3. fun'.name \in Symbol /\ mods'[cur'][fun'.name].state = "defined"
      BY <2>2, <2>3 DEF Defined
    <3>4. QED
      BY <2>1, <2>2, <3>1, <3>2, <3>3, TypeKept DEF IInv
  <2>5. BodiesStay
    <3>1. \A x \in prec' \ prec : mods'[cur'][x].state = "defined"
      BY <2>2, <2>3 DEF Defined
    <3>2. ASSUME NEW i \in DOMAIN mods, NEW x \in prec, mods[i][x].state = "defined"
          PROVE  mods'[i][x].state = "defined"
      <4>1. DOMAIN mods \subseteq DOMAIN mods' /\ DOMAIN mods' = 1 .. cur' /\ cur' \in Nat
        BY <2>1, WorksTypes DEF IInv
      <4>2. CASE i \in 1 .. cur' - 1
        BY <2>1, <3>2, <4>2 DEF Works
      <4>3. CASE i = cur'
        <5>1. x \in Symbol
          BY DEF IInv, TypeOK, Symbol, Name
        <5>2. c # 0
          <6>1. c = 0 => o = Len(mods) + 1
            BY DEF Opened
          <6>2. Len(mods) \in Nat /\ DOMAIN mods = 1 .. Len(mods)
            BY LenProperties DEF IInv, TypeOK
          <6>3. QED
            BY <2>1, <4>3, <6>1, <6>2
        <5>3. old[x] = mods[cur][x] /\ i = cur
          BY <2>1, <4>3, <5>1, <5>2, WorkedOn DEF Opened
        <5>4. QED
          BY <2>3, <3>2, <4>3, <5>1, <5>3 DEF Defined
      <4>4. QED
        BY <4>1, <4>2, <4>3
    <3>3. QED
      BY <3>1, <3>2 DEF BodiesStay
  <2>6. ASSUME lazy PROVE Own(mods', cur')
    <3>1. Defined(a) \in Entry /\ Defined(a).calls = {} /\ Works(o, mods')
          /\ mods'[o] = [old EXCEPT ![n] = Defined(a)]
      BY <2>1, DefinedType, Zenon DEF Defined
    <3>2. Own(mods', o)
      BY <2>1, <2>6, <3>1, PlacedOwn
    <3>3. QED
      BY <2>1, <3>2
  <2>7. QED
    BY <2>1, <2>2, <2>4, <2>5, <2>6 DEF Good, Edit
<1>3. QED
  BY <1>1, <1>2

LEMMA ExternGood ==
  ASSUME IInv, NEW n \in Name, NEW a \in Arity, HandleExtern(n, a)
  PROVE  Good \/ vars' = vars
<1> DEFINE o == Opened(cur)
           old == ModulesFor(cur)[o]
<1>1. CASE Redefines(cur, n, a)
  <2>1. cur' = cur
    BY <1>1 DEF Redefines, HandleExtern, Opened
  <2>2. UNCHANGED <<mods, prec, fun, status, lazy, broken, engines, stack>>
    BY <1>1 DEF HandleExtern
  <2>3. QED
    BY <2>1, <2>2 DEF vars
<1>2. CASE ~ Redefines(cur, n, a)
  <2>1. /\ Works(cur', mods') /\ cur' = o
        /\ mods'[cur'] = [old EXCEPT ![n] = Declared(a)]
        /\ old \in Module
        /\ Len(mods') <= MaxModules + 1
    BY <1>2, ExternEffect DEF IInv
  <2>2. UNCHANGED <<lazy, broken, engines, stack, prec, fun, status>> /\ status = "ready"
    BY DEF HandleExtern
  <2>3. \A x \in Symbol \ {n} : mods'[cur'][x] = old[x]
    BY <2>1 DEF Module
  <2>4. TypeOK' /\ Open'
    <3>1. prec' \subseteq Operator
          /\ fun' \in [name : Symbol \cup {"none"}, parsed : SUBSET Operator]
      BY <2>2 DEF IInv, TypeOK
    <3>2. QED
      BY <2>1, <2>2, <3>1, TypeKept DEF IInv
  <2>5. BodiesStay
    <3>1. ASSUME NEW i \in DOMAIN mods, NEW x \in prec, mods[i][x].state = "defined"
          PROVE  mods'[i][x].state = "defined"
      <4>1. DOMAIN mods \subseteq DOMAIN mods' /\ DOMAIN mods' = 1 .. cur' /\ cur' \in Nat
        BY <2>1, WorksTypes DEF IInv
      <4>2. CASE i \in 1 .. cur' - 1
        BY <2>1, <3>1, <4>2 DEF Works
      <4>3. CASE i = cur'
        <5>1. x \in Symbol
          BY DEF IInv, TypeOK, Symbol, Name
        <5>2. cur # 0
          <6>1. cur = 0 => o = Len(mods) + 1
            BY DEF Opened
          <6>2. Len(mods) \in Nat /\ DOMAIN mods = 1 .. Len(mods)
            BY LenProperties DEF IInv, TypeOK
          <6>3. QED
            BY <2>1, <4>3, <6>1, <6>2
        <5>3. cur' = cur
          BY <2>1, <5>2 DEF Opened
        <5>4. old[x] = mods[cur][x] /\ i = cur
          BY <4>3, <5>1, <5>2, <5>3, WorkedOn
        <5>5. x # n
          BY <1>2, <3>1, <5>2, <5>4 DEF Redefines
        <5>6. QED
          BY <2>3, <3>1, <4>3, <5>1, <5>4, <5>5
      <4>4. QED
        BY <4>1, <4>2, <4>3
    <3>2. QED
      BY <2>2, <3>1 DEF BodiesStay
  <2>6. ASSUME lazy PROVE Own(mods', cur')
    <3>1. /\ Declared(a) \in Entry /\ Declared(a).calls = {}
          /\ Declared(a).state # "defined" /\ Works(o, mods')
          /\ mods'[o] = [old EXCEPT ![n] = Declared(a)] /\ n \in Symbol
      BY <2>1, DefinedType, Zenon DEF Declared, Symbol
    <3>2. Own(mods', o)
      BY <2>1, <2>6, <3>1, PlacedOwn
    <3>3. QED
      BY <2>1, <3>2
  <2>7. QED
    BY <2>1, <2>2, <2>4, <2>5, <2>6 DEF Good, Edit
<1>3. QED
  BY <1>1, <1>2

-----------------------------------------------------------------------------
(* The body.  What code generation has put in the open module besides the  *)
(* function's own entry are declarations.                                  *)
Mentions(ms) ==
  /\ Works(cur, ms)
  /\ \A x \in Symbol :
       \/ ms[cur][x] = mods[cur][x]
       \/ ms[cur][x].state = "declared" /\ ms[cur][x].calls = {}
  /\ \A x \in Symbol : mods[cur][x].state = "defined" => ms[cur][x] = mods[cur][x]

LEMMA Generating ==
  ASSUME IInv, status = "codegen"
  PROVE  /\ Mentions(mods) /\ cur # 0 /\ cur = Len(mods) /\ cur \in DOMAIN mods
         /\ fun.name \in Symbol /\ mods[cur][fun.name].state = "defined"
         /\ \A x \in Symbol : mods[cur][x] \in Entry
         /\ Len(mods) <= MaxModules + 1
<1>1. cur # 0 /\ fun.name \in Symbol /\ mods[cur][fun.name].state = "defined"
  BY DEF IInv, TypeOK
<1>2. Works(cur, mods)
  <2>1. Works(Opened(cur), ModulesFor(cur))
    BY OpenedWorks DEF IInv
  <2>2. Opened(cur) = cur /\ ModulesFor(cur) = mods
    BY <1>1 DEF Opened, ModulesFor
  <2>3. QED
    BY <2>1, <2>2, Zenon
<1>3. mods \in Seq(Module) /\ DOMAIN mods = 1 .. cur /\ cur \in Nat \ {0} /\ Len(mods) = cur
  BY <1>2, WorksTypes DEF IInv
<1>4. mods[cur] \in Module
  BY <1>3, ElementOfSeq
<1>5. QED
  BY <1>1, <1>2, <1>3, <1>4 DEF Mentions, Module, IInv, TypeOK

LEMMA EntryType ==
  ASSUME IInv, status = "codegen", NEW n \in Symbol, Found(n)
  PROVE  /\ EntryFor(n) \in Entry
         /\ mods[cur][n].state # "absent" => EntryFor(n) = mods[cur][n]
         /\ mods[cur][n].state = "absent" =>
              EntryFor(n).state = "declared" /\ EntryFor(n).calls = {}
<1> DEFINE S == {i \in DOMAIN mods : mods[i][n].state # "absent"}
<1>1. mods \in Seq(Module) /\ DOMAIN mods = 1 .. Len(mods) /\ Len(mods) \in Nat
  BY LenProperties DEF IInv, TypeOK, Module
<1>2. S \in SUBSET (Nat \ {0})
  BY <1>1
<1>3. First(S) \in S
  BY <1>2, FirstFacts DEF Found, FirstWith
<1>4. mods[FirstWith(n)] \in Module
  BY <1>1, <1>3, ElementOfSeq DEF FirstWith
<1>5. mods[FirstWith(n)][n].arity \in Arity
  BY <1>4 DEF Module, Entry
<1>6. QED
  BY <1>5, DefinedType, Generating DEF EntryFor, Declared

LEMMA ReferringMentions ==
  ASSUME IInv, status = "codegen", NEW n \in Symbol
  PROVE  Mentions(Referring(n))
<1>1. CASE ~ Found(n)
  <2>1. Referring(n) = mods
    BY <1>1 DEF Referring
  <2>2. QED
    BY <2>1, Generating, Zenon
<1>2. CASE Found(n)
  <2> DEFINE e == EntryFor(n)
             ms == [mods EXCEPT ![cur][n] = e]
  <2>1. Works(cur, mods)
    BY Generating DEF Mentions
  <2>2. Works(cur, ms) /\ ms[cur] = [mods[cur] EXCEPT ![n] = e] /\ mods[cur] \in Module
    <3>1. e \in Entry
      BY <1>2, EntryType
    <3>2. QED
      BY <2>1, <3>1, WorksPlaced DEF IInv
  <2>3. \A x \in Symbol : ms[cur][x] = IF x = n THEN e ELSE mods[cur][x]
    BY <2>2 DEF Module
  <2>4. mods[cur][n].state # "absent" => e = mods[cur][n]
    BY <1>2, EntryType
  <2>5. mods[cur][n].state = "absent" => e.state = "declared" /\ e.calls = {}
    BY <1>2, EntryType
  <2> HIDE DEF e, ms
  <2>6. Mentions(ms)
    BY <2>2, <2>3, <2>4, <2>5 DEF Mentions
  <2>7. Referring(n) = ms
    BY <1>2 DEF Referring, ms, e
  <2>8. QED
    BY <2>6, <2>7, Zenon
<1>3. QED
  BY <1>1, <1>2

(* A body found in the open module is the first of its name.               *)
LEMMA FoundFirst ==
  ASSUME IInv, status = "codegen", NEW n \in Symbol, Found(n),
         mods[cur][n].state = "defined", NEW j \in 1 .. cur - 1
  PROVE  mods[j][n].state # "defined"
<1> DEFINE S == {i \in DOMAIN mods : mods[i][n].state # "absent"}
<1>1. FirstWith(n) = cur /\ FirstWith(n) = First(S)
  BY DEF Found, FirstWith
<1>2. DOMAIN mods = 1 .. Len(mods) /\ Len(mods) \in Nat /\ cur = Len(mods)
  BY LenProperties, Generating DEF IInv, TypeOK
<1>3. S \in SUBSET (Nat \ {0})
  BY <1>2
<1>4. \A i \in S : First(S) <= i
  BY <1>3, FirstFacts
<1>5. j \in DOMAIN mods /\ j < cur
  BY <1>2
<1>6. j \notin S
  <2>1. First(S) = cur /\ cur \in Nat /\ j \in Nat /\ j < cur
    <3>1. First(S) = cur
      BY <1>1, Zenon
    <3>2. cur \in Nat /\ j \in Nat /\ j < cur
      BY <1>2, <1>5
    <3>3. QED
      BY <3>1, <3>2, Zenon
  <2> HIDE DEF S
  <2>2. QED
    BY <1>4, <2>1
<1>7. QED
  BY <1>5, <1>6

(* The two edits of a function's own entry: a call added, and its erasure. *)
LEMMA EntryEdited ==
  ASSUME IInv, status = "codegen", NEW ms, Mentions(ms), NEW e \in Entry, cur' = cur,
         mods' = [ms EXCEPT ![cur][fun.name] = e]
  PROVE  /\ Works(cur', mods') /\ Len(mods') <= MaxModules + 1
         /\ \A x \in Symbol : mods'[cur'][x] = IF x = fun.name THEN e ELSE ms[cur][x]
         /\ \A i \in DOMAIN mods : i # cur => mods'[i] = mods[i]
<1>1. /\ Works(cur, [ms EXCEPT ![cur][fun.name] = e])
      /\ [ms EXCEPT ![cur][fun.name] = e][cur] = [ms[cur] EXCEPT ![fun.name] = e]
      /\ ms[cur] \in Module
  <2>1. Works(cur, ms) /\ fun.name \in Symbol /\ TypeOK
    BY Generating DEF Mentions, IInv
  <2> DEFINE g == fun.name
             edited == [ms EXCEPT ![cur][g] = e]
  <2>2. g \in Symbol
    BY <2>1
  <2> HIDE DEF g
  <2>3. /\ Works(cur, edited) /\ edited[cur] = [ms[cur] EXCEPT ![g] = e]
        /\ ms[cur] \in Module
    <3>1. TypeOK /\ Works(cur, ms)
      BY <2>1
    <3>2. \A o, m : Works(o, m) => /\ Works(o, [m EXCEPT ![o][g] = e])
                                  /\ [m EXCEPT ![o][g] = e][o] = [m[o] EXCEPT ![g] = e]
                                  /\ m[o] \in Module
      BY <2>2, <3>1, WorksPlaced
    <3>3. QED
      BY <3>1, <3>2, Zenon
  <2>4. QED
    BY <2>3, Zenon DEF g
<1>2. /\ Works(cur', mods') /\ mods'[cur'] = [ms[cur] EXCEPT ![fun.name] = e]
      /\ ms[cur] \in Module
  BY <1>1, Zenon
<1>3. /\ Len(mods') = cur' /\ DOMAIN mods = 1 .. Len(mods) /\ Len(mods) \in Nat
      /\ \A i \in 1 .. cur' - 1 : mods'[i] = mods[i]
  <2>1. Works(cur', mods') => \A i \in 1 .. cur' - 1 : mods'[i] = mods[i]
    BY DEF Works
  <2>2. QED
    BY <1>2, <2>1, WorksTypes, LenProperties DEF IInv, TypeOK
<1>4. \A x \in Symbol : mods'[cur'][x] = IF x = fun.name THEN e ELSE ms[cur][x]
  BY <1>2, Generating DEF Module
<1>5. cur = Len(mods) /\ Len(mods) <= MaxModules + 1
  BY Generating
<1>6. QED
  BY <1>2, <1>3, <1>4, <1>5

LEMMA CallGood ==
  ASSUME IInv, NEW n \in Name, NEW k \in Arity, Call(n, k)
  PROVE  Good
<1> DEFINE ms == Referring(n)
           e == [ms[cur][fun.name] EXCEPT !.calls = @ \cup {n}]
<1>1. /\ status = "codegen" /\ Found(n) /\ n \in Symbol
      /\ mods' = [ms EXCEPT ![cur][fun.name].calls = @ \cup {n}]
      /\ UNCHANGED <<lazy, broken, cur, engines, stack, prec, fun, status>>
  BY DEF Call, Searching, Symbol
<1>2. Mentions(ms)
  BY <1>1, ReferringMentions
<1>3. /\ fun.name \in Symbol /\ mods[cur][fun.name].state = "defined"
      /\ mods[cur][fun.name] \in Entry /\ cur \in DOMAIN mods
  BY <1>1, Generating
<1>4. ms[cur][fun.name] = mods[cur][fun.name]
  BY <1>2, <1>3 DEF Mentions
<1>5. e \in Entry /\ e.state = "defined" /\ e.calls = mods[cur][fun.name].calls \cup {n}
  BY <1>3, <1>4 DEF Entry
<1>6. mods' = [ms EXCEPT ![cur][fun.name] = e]
  BY <1>1
<1> HIDE DEF ms, e
<1>7. /\ Works(cur', mods') /\ Len(mods') <= MaxModules + 1
      /\ \A x \in Symbol : mods'[cur'][x] = IF x = fun.name THEN e ELSE ms[cur][x]
      /\ \A i \in DOMAIN mods : i # cur => mods'[i] = mods[i]
  BY <1>1, <1>2, <1>5, <1>6, EntryEdited
<1>8. \A x \in Symbol : mods'[cur'][x].state = "defined" <=> mods[cur][x].state = "defined"
  BY <1>2, <1>3, <1>5, <1>7 DEF Mentions
<1>9. TypeOK' /\ Open'
  <2>1. fun'.name \in Symbol /\ mods'[cur'][fun'.name].state = "defined"
    BY <1>1, <1>3, <1>8
  <2>2. prec' \subseteq Operator
        /\ fun' \in [name : Symbol \cup {"none"}, parsed : SUBSET Operator]
    BY <1>1 DEF IInv, TypeOK
  <2>3. QED
    BY <1>1, <1>7, <2>1, <2>2, TypeKept DEF IInv
<1>10. BodiesStay
  <2>1. \A x \in prec : x \in Symbol
    BY DEF IInv, TypeOK, Symbol, Name
  <2>2. QED
    BY <1>1, <1>7, <1>8, <2>1 DEF BodiesStay
<1>11. ASSUME lazy PROVE Own(mods', cur')
  <2>1. SUFFICES ASSUME NEW f \in Symbol, NEW x \in mods'[cur'][f].calls,
                        mods'[cur'][x].state = "defined", NEW j \in 1 .. cur' - 1
                 PROVE  mods'[j][x].state # "defined"
    BY DEF Own
  <2>2. mods'[j] = mods[j] /\ j \in 1 .. cur - 1
    BY <1>1, <1>7 DEF Works
  <2>3. x = n \/ x \in mods[cur][f].calls
    BY <1>2, <1>5, <1>7 DEF Mentions
  <2>4. x \in Symbol
    <3>1. mods[cur][f] \in Entry
      BY <1>1, Generating
    <3>2. QED
      BY <1>1, <2>3, <3>1 DEF Entry, Symbol
  <2>5. mods[cur][x].state = "defined"
    BY <1>8, <2>1, <2>4
  <2>6. CASE x = n
    <3>1. mods[cur][n].state = "defined"
      BY <2>5, <2>6
    <3>2. mods[j][n].state # "defined"
      BY <1>1, <2>2, <3>1, FoundFirst
    <3>3. QED
      BY <2>2, <2>6, <3>2
  <2>7. CASE x \in mods[cur][f].calls
    <3>1. Own(mods, cur)
      BY <1>3, <1>11 DEF IInv, Meaning
    <3>2. QED
      BY <2>2, <2>5, <2>7, <3>1 DEF Own
  <2>8. QED
    BY <2>3, <2>6, <2>7
<1>12. QED
  BY <1>1, <1>7, <1>9, <1>10, <1>11 DEF Good, Edit

LEMMA FailGood ==
  ASSUME IInv, status = "codegen", NEW ms, Mentions(ms), FailBody(ms)
  PROVE  Good
<1>1. /\ mods' = [ms EXCEPT ![cur][fun.name] = Absent]
      /\ status' \in {"dangling", "ready"} /\ fun' = NoFunction
      /\ prec' = prec \ {fun.name}
      /\ UNCHANGED <<lazy, broken, cur, engines, stack>>
  BY DEF FailBody, Erase
<1>2. Absent \in Entry /\ Absent.state = "absent" /\ Absent.calls = {}
  BY McjitAssumption DEF Absent, Entry
<1>3. /\ Works(cur', mods') /\ Len(mods') <= MaxModules + 1
      /\ \A x \in Symbol : mods'[cur'][x] = IF x = fun.name THEN Absent ELSE ms[cur][x]
      /\ \A i \in DOMAIN mods : i # cur => mods'[i] = mods[i]
  BY <1>1, <1>2, EntryEdited
<1>4. TypeOK' /\ Open'
  <2>1. prec' \subseteq Operator
        /\ fun' \in [name : Symbol \cup {"none"}, parsed : SUBSET Operator]
    BY <1>1 DEF IInv, TypeOK, NoFunction
  <2>2. QED
    BY <1>1, <1>3, <2>1, TypeKept DEF IInv
<1>5. BodiesStay
  <2>1. ASSUME NEW i \in DOMAIN mods, NEW x \in prec', mods[i][x].state = "defined"
        PROVE  mods'[i][x].state = "defined"
    <3>1. x \in Symbol /\ x # fun.name
      BY <1>1 DEF IInv, TypeOK, Symbol, Name
    <3>2. CASE i = cur
      BY <1>1, <1>3, <2>1, <3>1, <3>2 DEF Mentions
    <3>3. QED
      BY <1>3, <2>1, <3>2
  <2>2. QED
    BY <1>1, <2>1 DEF BodiesStay
<1>6. ASSUME lazy PROVE Own(mods', cur')
  <2>1. SUFFICES ASSUME NEW f \in Symbol, NEW x \in mods'[cur'][f].calls,
                        mods'[cur'][x].state = "defined", NEW j \in 1 .. cur' - 1
                 PROVE  mods'[j][x].state # "defined"
    BY DEF Own
  <2>2. mods'[j] = mods[j] /\ j \in 1 .. cur - 1
    BY <1>1, <1>3 DEF Works
  <2>3. x \in mods[cur][f].calls
    BY <1>2, <1>3 DEF Mentions
  <2>4. x \in Symbol
    <3>1. mods[cur][f] \in Entry
      BY Generating
    <3>2. QED
      BY <2>3, <3>1 DEF Entry, Symbol
  <2>5. mods[cur][x].state = "defined"
    BY <1>2, <1>3, <2>1, <2>4 DEF Mentions
  <2>6. Own(mods, cur)
    BY <1>6, Generating DEF IInv, Meaning
  <2>7. QED
    BY <2>2, <2>3, <2>5, <2>6 DEF Own
<1>7. QED
  BY <1>1, <1>3, <1>4, <1>5, <1>6 DEF Good, Edit

-----------------------------------------------------------------------------
(* The other steps leave the modules alone.                                *)
LEMMA QuietGood ==
  ASSUME IInv, \/ \E n \in Name : OperatorMissing(n) \/ Overflow(n) \/ Unresolvable(n)
               \/ FinishDefinition \/ FollowNull
  PROVE  Good
<1>1. /\ UNCHANGED <<lazy, broken, mods, cur, engines, stack, prec>>
      /\ fun' \in {fun, NoFunction}
      /\ status' \in {"aborted", "overflow", "unresolved", "ready", "null"}
  BY DEF OperatorMissing, Overflow, Unresolvable, FinishDefinition, FollowNull
<1>2. TypeOK'
  BY <1>1 DEF IInv, TypeOK, NoFunction
<1>3. Open'
  BY <1>1 DEF IInv, Open, Handed
<1>4. QED
  BY <1>1, <1>2, <1>3 DEF Good, Quiet

LEMMA EvaluateGood ==
  ASSUME IInv, Evaluate
  PROVE  Good
<1>1. /\ status = "codegen" /\ stack' = <<cur>> /\ cur' = 0 /\ fun' = NoFunction
      /\ status' = "compiling" /\ UNCHANGED <<lazy, broken, mods, engines, prec>>
  BY DEF Evaluate, Searching
<1>2. cur \in DOMAIN mods /\ cur \notin engines
  BY <1>1, Generating DEF IInv, Open, Handed
<1>3. TypeOK'
  BY <1>1, <1>2 DEF IInv, TypeOK, NoFunction
<1>4. Open'
  <2>1. 0 \notin DOMAIN mods
    BY LenProperties DEF IInv, TypeOK
  <2>2. QED
    BY <1>1, <1>2, <2>1 DEF Open, Handed, IInv, TypeOK
<1>5. QED
  BY <1>1, <1>3, <1>4 DEF Good, Quiet

(* compileModule works with no module open.                                *)
LEMMA CompilingOpen ==
  ASSUME IInv, TypeOK', cur' = cur, mods' = mods, status = "compiling"
  PROVE  Open'
<1>1. cur' = 0
  BY DEF IInv, TypeOK
<1>2. 0 \notin DOMAIN mods'
  BY LenProperties DEF TypeOK
<1>3. QED
  BY <1>1, <1>2 DEF Open, Handed, TypeOK

LEMMA CompileForGood ==
  ASSUME IInv, NEW n \in Name, CompileFor(n)
  PROVE  Good
<1>1. /\ status = "compiling" /\ FirstBody(n) # 0
      /\ stack' = Append(stack, FirstBody(n))
      /\ UNCHANGED <<lazy, broken, mods, cur, engines, prec, fun, status>>
  BY DEF CompileFor, Resolving
<1>2. FirstBody(n) \in DOMAIN mods /\ stack \in Seq(DOMAIN mods)
  BY <1>1, FirstBodyFacts DEF IInv, TypeOK
<1>3. stack' \in Seq(DOMAIN mods) /\ stack' # <<>>
  BY <1>1, <1>2, AppendProperties
<1>4. TypeOK'
  BY <1>1, <1>3 DEF IInv, TypeOK
<1>5. QED
  BY <1>1, <1>4, CompilingOpen DEF Good, Quiet

LEMMA FinalizeGood ==
  ASSUME IInv, FinalizeObject
  PROVE  Good
<1>1. /\ status = "compiling" /\ engines' = engines \cup {Top}
      /\ stack' = SubSeq(stack, 1, Len(stack) - 1)
      /\ status' = IF Len(stack) = 1 THEN "ready" ELSE status
      /\ UNCHANGED <<lazy, broken, mods, cur, prec, fun>>
  BY DEF FinalizeObject
<1>2. stack \in Seq(DOMAIN mods) /\ stack # <<>>
  BY <1>1 DEF IInv, TypeOK
<1>3. Len(stack) \in Nat \ {0} /\ DOMAIN stack = 1 .. Len(stack) /\ Top \in DOMAIN mods
  BY <1>2, LenProperties, EmptySeq, ElementOfSeq DEF Top
<1>4. /\ stack' \in Seq(DOMAIN mods) /\ Len(stack') = Len(stack) - 1
      /\ DOMAIN stack' = 1 .. Len(stack) - 1
      /\ \A i \in 1 .. Len(stack) - 1 : stack'[i] = stack[i]
  BY <1>1, <1>2, <1>3, SubSeqProperties
<1>5. status' = "compiling" => stack' # <<>> /\ cur' = 0
  <2>1. status' = "compiling" => Len(stack') # 0
    BY <1>1, <1>3, <1>4
  <2>2. cur' = 0
    BY <1>1 DEF IInv, TypeOK
  <2>3. QED
    BY <1>4, <2>1, <2>2, EmptySeq
<1>6. status' \in {"ready", "compiling"}
  BY <1>1
<1>7. TypeOK'
  BY <1>1, <1>3, <1>4, <1>5, <1>6 DEF IInv, TypeOK
<1>8. QED
  BY <1>1, <1>7, CompilingOpen DEF Good, Quiet

-----------------------------------------------------------------------------
LEMMA NextGood ==
  ASSUME IInv, [Next]_vars
  PROVE  Good \/ vars' = vars
<1>1. ASSUME NEW n \in Name, NEW a \in Arity, HandleDefinition(n, a)
      PROVE  Good \/ vars' = vars
  BY <1>1, BeginGood DEF HandleDefinition, Symbol
<1>2. ASSUME NEW n \in Name, NEW a \in Arity, HandleExtern(n, a)
      PROVE  Good \/ vars' = vars
  BY <1>2, ExternGood
<1>3. CASE HandleTopLevelExpression
  BY <1>3, BeginGood, McjitAssumption DEF HandleTopLevelExpression, Symbol
<1>4. ASSUME NEW n \in Name, NEW k \in Arity, Call(n, k) PROVE Good
  BY <1>4, CallGood
<1>5. ASSUME NEW n \in Name, NEW k \in Arity, RejectCall(n, k) PROVE Good
  <2>1. status = "codegen" /\ FailBody(Referring(n)) /\ n \in Symbol
    BY <1>5 DEF RejectCall, Searching, Symbol
  <2>2. QED
    BY <2>1, ReferringMentions, FailGood
<1>6. CASE BodyError
  BY <1>6, Generating, FailGood DEF BodyError
<1>7. ASSUME \/ \E n \in Name : OperatorMissing(n)
             \/ \E n \in Name : Overflow(n) \/ Unresolvable(n)
             \/ FinishDefinition \/ FollowNull
      PROVE  Good
  BY <1>7, QuietGood
<1>8. CASE Evaluate
  BY <1>8, EvaluateGood
<1>9. ASSUME NEW n \in Name, CompileFor(n) PROVE Good
  BY <1>9, CompileForGood
<1>10. CASE FinalizeObject
  BY <1>10, FinalizeGood
<1>11. CASE Command
  BY <1>1, <1>2, <1>3, <1>11, Zenon DEF Command
<1>12. CASE Body
  <2>1. CASE \E n \in Name, k \in Arity : Call(n, k) \/ RejectCall(n, k)
    BY <1>4, <1>5, <2>1, Zenon
  <2>2. CASE (\E n \in Name : OperatorMissing(n)) \/ FinishDefinition \/ FollowNull
    BY <1>7, <2>2, Zenon
  <2>3. QED
    BY <1>6, <1>8, <1>12, <2>1, <2>2, Zenon DEF Body
<1>13. CASE Compile
  BY <1>7, <1>9, <1>10, <1>13, Zenon DEF Compile
<1>14. QED
  BY <1>11, <1>12, <1>13, Zenon DEF Next

LEMMA InitGood == Init => IInv
<1> SUFFICES ASSUME Init PROVE IInv
  OBVIOUS
<1>1. /\ mods \in Seq(Module) /\ Len(mods) \in {0, 1}
      /\ DOMAIN mods = 1 .. Len(mods) /\ (mods # <<>> => Len(mods) = 1)
  <2>1. CASE mods = <<>>
    BY <2>1
  <2>2. ASSUME NEW m \in InputIR, mods = <<m>> PROVE mods \in Seq(Module) /\ Len(mods) = 1
    BY <2>2, McjitAssumption DEF Module
  <2>3. mods = <<>> \/ \E m \in InputIR : mods = <<m>>
    BY Zenon DEF Init
  <2>4. QED
    BY <2>1, <2>2, <2>3, LenProperties
<1>2. /\ cur = 0 /\ engines = {} /\ prec = Builtin /\ fun = NoFunction
      /\ lazy \in BOOLEAN /\ broken \in BOOLEAN
      /\ stack \in {<<>>, <<1>>} /\ (stack # <<>> => mods # <<>>)
      /\ status \in {"ready", "compiling", "null"}
      /\ status = "compiling" => stack # <<>>
  BY DEF Init
<1>3. TypeOK
  <2>1. stack \in Seq(DOMAIN mods)
    <3>1. stack = <<1>> => 1 \in DOMAIN mods
      BY <1>1, <1>2
    <3>2. \A S : 1 \in S => <<1>> \in Seq(S)
      OBVIOUS
    <3>3. \A S : <<>> \in Seq(S)
      OBVIOUS
    <3>4. QED
      BY <1>2, <3>1, <3>2, <3>3, Zenon
  <2>2. Len(mods) <= MaxModules + 1 /\ cur \in 0 .. Len(mods)
    BY <1>1, <1>2, McjitAssumption
  <2>3. prec \subseteq Operator
        /\ fun \in [name : Symbol \cup {"none"}, parsed : SUBSET Operator]
    BY <1>2 DEF Operator, NoFunction
  <2>4. QED
    BY <1>1, <1>2, <2>1, <2>2, <2>3 DEF TypeOK, Module
<1>4. Open
  BY <1>2 DEF Open, Handed
<1>5. Covered(mods, prec)
  BY <1>2 DEF Covered
<1>6. Meaning(mods)
  <2>1. ASSUME NEW i \in DOMAIN mods PROVE 1 .. i - 1 = {}
    BY <1>1
  <2>2. QED
    BY <2>1 DEF Meaning, Own
<1>7. QED
  BY <1>3, <1>4, <1>5, <1>6 DEF IInv

-----------------------------------------------------------------------------
LEMMA StepGood ==
  ASSUME IInv, [Next]_vars
  PROVE  IInv' /\ Changed
<1>1. CASE Good
  BY <1>1, EditKeeps DEF Good
<1>2. CASE vars' = vars
  BY <1>2 DEF vars, IInv, TypeOK, Open, Handed, Covered, Meaning, Own, Changed
<1>3. QED
  BY <1>1, <1>2, NextGood

LEMMA Invariance == Spec => []IInv
<1>1. Init => IInv
  BY InitGood
<1>2. IInv /\ [Next]_vars => IInv'
  BY StepGood
<1>3. QED
  BY <1>1, <1>2, PTL DEF Spec

(* The state is of the right kind, a module is open while a body is being  *)
(* generated and none while modules are being compiled (main.cpp 961-1003),*)
(* in every session, whatever it has met.                                  *)
THEOREM TypeCorrect == Spec => []TypeOK
<1>1. IInv => TypeOK
  BY DEF IInv
<1>2. QED
  BY <1>1, Invariance, PTL

(* An operator the parser has a precedence for has a body in some module   *)
(* (1492, 1515), however many definitions of it have failed.               *)
THEOREM OperatorsAlwaysDefined == Spec => []OperatorsDefined
<1>1. IInv => OperatorsDefined
  <2> SUFFICES ASSUME IInv, NEW o \in prec, o \notin Builtin
               PROVE  FirstBody(o) # 0
    BY DEF OperatorsDefined
  <2>1. \E i \in DOMAIN mods : i \in Bodies(mods, o)
    BY DEF IInv, Covered, Bodies
  <2>2. QED
    BY <2>1, FirstBodyFacts DEF IInv
<1>2. QED
  BY <1>1, Invariance, PTL

(* In lazy mode a call means the same function in whichever module it      *)
(* stands (932-959, 1073-1095).                                            *)
THEOREM CallsMeanOne == Spec => []OneMeaning
<1>1. IInv => OneMeaning
  <2> SUFFICES ASSUME IInv, lazy, NEW i \in DOMAIN mods, NEW f \in Symbol,
                      NEW n \in mods[i][f].calls, mods[i][n].state = "defined"
               PROVE  FirstBody(n) = i
    BY DEF OneMeaning
  <2>1. \A j \in 1 .. i - 1 : mods[j][n].state # "defined"
    BY DEF IInv, Meaning, Own
  <2>2. DOMAIN mods = 1 .. Len(mods) /\ Len(mods) \in Nat
    BY LenProperties DEF IInv, TypeOK
  <2>3. FirstBody(n) # 0 /\ FirstBody(n) <= i
    BY FirstBodyFacts DEF IInv, Bodies
  <2>4. FirstBody(n) \in DOMAIN mods /\ mods[FirstBody(n)][n].state = "defined"
    BY <2>3, FirstBodyFacts DEF IInv
  <2>5. FirstBody(n) \notin 1 .. i - 1
    BY <2>1, <2>4
  <2>6. QED
    BY <2>2, <2>3, <2>4, <2>5
<1>2. QED
  BY <1>1, Invariance, PTL

(* A module that has been handed to an engine is never touched again: no   *)
(* command opens it, adds to it or erases from it (905-907, 984-1000).     *)
THEOREM HandedNeverChange == Spec => CompiledFrozen
<1>1. ASSUME IInv, [Next]_vars, NEW m \in Handed
      PROVE  mods'[m] = mods[m] /\ cur' # m
  <2>1. m \in DOMAIN mods /\ DOMAIN mods = 1 .. Len(mods) /\ Len(mods) \in Nat
    BY <1>1, LenProperties DEF IInv, TypeOK, Handed
  <2>2. CASE mods' = mods /\ cur' \in {0, cur}
    <3>1. m # 0 /\ m # cur
      <4>1. cur \notin Handed /\ m \in Handed
        BY <1>1, Zenon DEF IInv, Open
      <4>2. m # cur
        BY <4>1, Zenon
      <4>3. m # 0
        BY <2>1
      <4>4. QED
        BY <4>2, <4>3
    <3>2. QED
      BY <2>2, <3>1, Zenon
  <2>3. CASE Works(cur', mods')
    <3>1. /\ cur' \in {Len(mods), Len(mods) + 1} /\ cur' # m
          /\ \A i \in 1 .. cur' - 1 : mods'[i] = mods[i]
      BY <1>1, <2>3 DEF Works
    <3>2. m \in 1 .. cur' - 1
      BY <2>1, <3>1
    <3>3. QED
      BY <3>1, <3>2
  <2>4. QED
    BY <1>1, <2>2, <2>3, StepGood DEF Changed
<1>2. IInv /\ [Next]_vars => [\A m \in Handed : mods'[m] = mods[m] /\ cur' # m]_vars
  BY <1>1
<1>3. QED
  BY <1>2, Invariance, PTL DEF Spec, CompiledFrozen

(* The function a name resolves to, once compiled, stays the one it        *)
(* resolves to: new definitions of the name do not replace it (932-959).   *)
THEOREM NamesKeepMeaning == Spec => MeaningKept
<1>1. ASSUME IInv, [Next]_vars, NEW n \in Name, FirstBody(n) \in engines
      PROVE  FirstBody(n)' = FirstBody(n)
  <2>1. FirstBody(n)' = First(Bodies(mods', n))
    BY DEF FirstBody, Bodies
  <2>2. FirstBody(n) = First(Bodies(mods, n)) /\ TypeOK
    BY <1>1, FirstBodyFacts DEF IInv
  <2>3. CASE mods' = mods
    BY <2>1, <2>2, <2>3
  <2>4. CASE Works(cur', mods')
    <3>1. DOMAIN mods = 1 .. Len(mods) /\ Len(mods) \in Nat /\ FirstBody(n) \in DOMAIN mods
      BY <1>1, <2>2, LenProperties DEF TypeOK
    <3>2. cur' \in {Len(mods), Len(mods) + 1} /\ cur' # FirstBody(n)
      BY <1>1, <2>4 DEF Works, Handed
    <3>3. FirstBody(n) \in 1 .. cur' - 1
      BY <3>1, <3>2
    <3>4. QED
      BY <2>1, <2>2, <2>4, <3>3, FirstBodyKept
  <2>5. QED
    BY <1>1, <2>3, <2>4, StepGood DEF Changed
<1>2. IInv /\ [Next]_vars =>
        [\A n \in Name : FirstBody(n) \in engines => FirstBody(n)' = FirstBody(n)]_vars
  BY <1>1
<1>3. QED
  BY <1>2, Invariance, PTL DEF Spec, MeaningKept

-----------------------------------------------------------------------------
(* The modules being compiled: each has asked for the one above it on the  *)
(* stack, and none is done.                                                *)
Chained ==
  /\ status \notin {"compiling", "unresolved", "overflow"} => stack = <<>>
  /\ \A k \in 1 .. Len(stack) - 1 : Needs(stack[k], stack[k + 1])
  /\ \A k \in DOMAIN stack : stack[k] \notin engines

(* A function is needed from the first module with a body for it.          *)
LEMMA NeededFirst ==
  ASSUME TypeOK, NEW i, NEW n \in Pending(i) \ Process, FirstBody(n) # 0
  PROVE  Needs(i, FirstBody(n))
<1>1. /\ FirstBody(n) \in DOMAIN mods /\ mods[FirstBody(n)][n].state = "defined"
      /\ \A k \in Bodies(mods, n) : FirstBody(n) <= k
  BY FirstBodyFacts
<1>2. DOMAIN mods = 1 .. Len(mods) /\ Len(mods) \in Nat
  BY LenProperties DEF TypeOK
<1>3. ASSUME NEW k \in 1 .. FirstBody(n) - 1 PROVE mods[k][n].state # "defined"
  <2>1. k \in DOMAIN mods /\ ~ (FirstBody(n) <= k)
    BY <1>1, <1>2
  <2>2. QED
    BY <1>1, <2>1 DEF Bodies
<1>4. QED
  BY <1>1, <1>3 DEF Needs

(* Whoever has linked all that it needs, needs no module without an engine.*)
LEMMA NothingNeeded ==
  ASSUME TypeOK, NEW i, \A n \in Pending(i) : Linked(n),
         NEW j \in DOMAIN mods, Needs(i, j)
  PROVE  j \in engines
<1>1. PICK n \in Pending(i) \ Process :
        /\ mods[j][n].state = "defined"
        /\ \A k \in 1 .. j - 1 : mods[k][n].state # "defined"
  BY DEF Needs
<1>2. DOMAIN mods = 1 .. Len(mods) /\ Len(mods) \in Nat
  BY LenProperties DEF TypeOK
<1>3. j \in Bodies(mods, n) /\ Bodies(mods, n) \in SUBSET (Nat \ {0})
  BY <1>1, BodiesType DEF Bodies, TypeOK, Module
<1>4. ASSUME NEW k \in Bodies(mods, n) PROVE j <= k
  <2>1. k \in DOMAIN mods /\ mods[k][n].state = "defined"
    BY DEF Bodies
  <2>2. k \notin 1 .. j - 1
    BY <1>1, <2>1
  <2>3. QED
    BY <1>2, <2>1, <2>2
<1>5. FirstBody(n) = j
  BY <1>3, <1>4, FirstUnique, FirstBodyFacts
<1>6. QED
  BY <1>1, <1>5 DEF Linked

LEMMA AskedFor ==
  ASSUME IInv, Chained, NEW n \in Name, CompileFor(n)
  PROVE  Chained'
<1> DEFINE l == Len(stack)
           b == FirstBody(n)
<1>1. /\ status = "compiling" /\ n \in Pending(Top) /\ ~ Linked(n) /\ b # 0
      /\ stack' = Append(stack, b)
      /\ UNCHANGED <<mods, engines, status>>
  BY DEF CompileFor, Resolving
<1>2. TypeOK /\ stack \in Seq(DOMAIN mods) /\ b \in DOMAIN mods /\ stack # <<>>
  BY <1>1, FirstBodyFacts DEF IInv, TypeOK
<1>3. /\ l \in Nat \ {0} /\ DOMAIN stack = 1 .. l /\ Len(stack') = l + 1
      /\ DOMAIN stack' = 1 .. l + 1 /\ stack'[l + 1] = b
      /\ \A k \in 1 .. l : stack'[k] = stack[k]
  BY <1>1, <1>2, AppendProperties, LenProperties, EmptySeq
<1>4. Needs(stack[l], b) /\ b \notin engines
  <2>1. n \notin Process /\ b \notin engines
    BY <1>1 DEF Linked
  <2>2. n \in Pending(Top) \ Process
    BY <1>1, <2>1
  <2>3. QED
    BY <1>1, <1>2, <2>1, <2>2, NeededFirst DEF Top
<1> HIDE DEF l, b
<1>5. ASSUME NEW k \in 1 .. l PROVE Needs(stack'[k], stack'[k + 1])
  <2>1. CASE k = l
    BY <1>3, <1>4, <2>1
  <2>2. CASE k # l
    <3>1. k \in 1 .. l - 1 /\ k + 1 \in 1 .. l
      BY <1>3, <2>2
    <3>2. Needs(stack[k], stack[k + 1])
      BY <3>1 DEF Chained, l
    <3>3. QED
      BY <1>3, <3>1, <3>2
  <2>3. QED
    BY <2>1, <2>2
<1>6. \A k \in DOMAIN stack' : stack'[k] \notin engines'
  BY <1>1, <1>3, <1>4 DEF Chained
<1>7. Len(stack') - 1 = l
  BY <1>3
<1>8. (\A k \in 1 .. Len(stack) - 1 : Needs(stack[k], stack[k + 1]))'
  BY <1>1, <1>5, <1>7 DEF Needs, Pending
<1>9. QED
  BY <1>1, <1>6, <1>8 DEF Chained

LEMMA Done ==
  ASSUME IInv, Chained, FinalizeObject
  PROVE  Chained'
<1> DEFINE l == Len(stack)
<1>1. /\ status = "compiling" /\ \A n \in Pending(Top) : Linked(n)
      /\ engines' = engines \cup {Top}
      /\ stack' = SubSeq(stack, 1, l - 1)
      /\ status' = IF l = 1 THEN "ready" ELSE status
      /\ UNCHANGED mods
  BY DEF FinalizeObject
<1>2. TypeOK /\ stack \in Seq(DOMAIN mods) /\ stack # <<>>
  BY <1>1 DEF IInv, TypeOK
<1>3. l \in Nat \ {0} /\ DOMAIN stack = 1 .. l
  BY <1>2, LenProperties, EmptySeq
<1>4. /\ stack' \in Seq(DOMAIN mods) /\ Len(stack') = l - 1
      /\ DOMAIN stack' = 1 .. l - 1
      /\ \A k \in 1 .. l - 1 : stack'[k] = stack[k]
  BY <1>1, <1>2, <1>3, SubSeqProperties
<1>5. ASSUME NEW k \in 1 .. l - 1 PROVE stack[k] # Top
  <2>1. Needs(stack[k], stack[k + 1]) /\ k + 1 \in 1 .. l
    BY <1>3 DEF Chained
  <2>2. stack[k + 1] \in DOMAIN mods /\ stack[k + 1] \notin engines
    BY <1>2, <1>3, <2>1, ElementOfSeq DEF Chained
  <2>3. QED
    BY <1>1, <1>2, <2>1, <2>2, NothingNeeded
<1>6. \A k \in DOMAIN stack' : stack'[k] \notin engines'
  <2>1. \A k \in 1 .. l - 1 : stack[k] \notin engines
    BY <1>3 DEF Chained
  <2>2. QED
    BY <1>1, <1>4, <1>5, <2>1
<1> HIDE DEF l
<1>7. ASSUME NEW k \in 1 .. l - 1 - 1 PROVE Needs(stack'[k], stack'[k + 1])
  <2>1. k \in 1 .. l - 1 /\ k + 1 \in 1 .. l - 1
    BY <1>3
  <2>2. Needs(stack[k], stack[k + 1])
    BY <2>1 DEF Chained, l
  <2>3. QED
    BY <1>4, <2>1, <2>2
<1>8. (\A k \in 1 .. Len(stack) - 1 : Needs(stack[k], stack[k + 1]))'
  BY <1>1, <1>4, <1>7 DEF Needs, Pending
<1>9. status' # "compiling" => stack' = <<>>
  <2>1. status' # "compiling" => Len(stack') = 0
    BY <1>1, <1>3, <1>4
  <2>2. QED
    BY <1>4, <2>1, EmptySeq
<1>10. QED
  BY <1>6, <1>8, <1>9 DEF Chained

LEMMA NoneCompiling ==
  ASSUME stack' = <<>>
  PROVE  Chained'
BY DEF Chained

LEMMA StepChained ==
  ASSUME IInv, Chained, [Next]_vars
  PROVE  Chained'
<1>1. CASE Evaluate
  <2>1. /\ stack' = <<cur>> /\ status' = "compiling" /\ engines' = engines
        /\ status = "codegen"
    BY <1>1 DEF Evaluate, Searching
  <2>2. cur \notin engines
    BY DEF IInv, Open, Handed
  <2>3. QED
    BY <2>1, <2>2 DEF Chained
<1>2. CASE Command \/ (Body /\ ~ Evaluate)
  <2>1. status \in {"ready", "codegen"} /\ stack' = stack
    BY <1>2 DEF Command, HandleDefinition, HandleExtern, HandleTopLevelExpression,
       BeginFunction, Body, Searching, Call, RejectCall, OperatorMissing, BodyError, FailBody,
       FinishDefinition, FollowNull
  <2>2. stack' = <<>>
    BY <2>1 DEF Chained
  <2>3. QED
    BY <2>2, NoneCompiling
<1>3. ASSUME NEW n \in Name, Overflow(n) \/ Unresolvable(n) PROVE Chained'
  <2>1. UNCHANGED <<mods, engines, stack>> /\ status' \in {"overflow", "unresolved"}
    BY <1>3 DEF Overflow, Unresolvable
  <2>2. QED
    BY <2>1 DEF Chained, Needs, Pending
<1>4. CASE UNCHANGED vars
  BY <1>4 DEF vars, Chained, Needs, Pending
<1>5. ASSUME NEW n \in Name, CompileFor(n) PROVE Chained'
  BY <1>5, AskedFor
<1>6. CASE FinalizeObject
  BY <1>6, Done
<1>7. CASE Compile
  BY <1>3, <1>5, <1>6, <1>7, Zenon DEF Compile
<1>8. QED
  BY <1>1, <1>2, <1>4, <1>7, Zenon DEF Next

LEMMA InitChained == Init => Chained
<1> SUFFICES ASSUME Init PROVE Chained
  OBVIOUS
<1>1. stack \in {<<>>, <<1>>} /\ engines = {}
  BY DEF Init
<1>2. status \notin {"compiling", "unresolved", "overflow"} => stack = <<>>
  BY DEF Init
<1>3. Len(stack) - 1 \in {-1, 0}
  BY <1>1
<1>4. QED
  BY <1>1, <1>2, <1>3 DEF Chained

(* A module that is on the stack twice is in a circle: those from its      *)
(* first place to the one before its second.                               *)
LEMMA TwiceIsCircular ==
  ASSUME IInv, Chained, NEW i \in DOMAIN stack, NEW j \in DOMAIN stack,
         stack[i] = stack[j], i < j
  PROVE  Circular
<1> DEFINE circle == {stack[k] : k \in i .. j - 1}
<1>1. /\ stack \in Seq(DOMAIN mods) /\ Len(stack) \in Nat
      /\ DOMAIN stack = 1 .. Len(stack) /\ i \in Nat /\ j \in Nat
  BY LenProperties DEF IInv, TypeOK
<1>2. \A k \in i .. j - 1 : k \in 1 .. Len(stack) - 1 /\ k \in DOMAIN stack
  BY <1>1
<1>3. circle \in SUBSET DOMAIN mods
  BY <1>1, <1>2, ElementOfSeq
<1>4. stack[i] \in circle
  BY <1>1
<1>5. ASSUME NEW k \in i .. j - 1 PROVE \E m \in circle : Needs(stack[k], m)
  <2>1. Needs(stack[k], stack[k + 1])
    BY <1>2 DEF Chained
  <2>2. stack[k + 1] \in circle
    <3>1. CASE k = j - 1
      BY <1>1, <1>4, <3>1
    <3>2. CASE k # j - 1
      <4>1. k + 1 \in i .. j - 1
        BY <1>1, <3>2
      <4>2. QED
        BY <4>1
    <3>3. QED
      BY <3>1, <3>2
  <2>3. QED
    BY <2>1, <2>2
<1>6. \A a \in circle : \E m \in circle : Needs(a, m)
  BY <1>5
<1> HIDE DEF circle
<1>7. QED
  BY <1>3, <1>4, <1>6 DEF Circular

(* In every session, a module is handed to a second engine only among      *)
(* modules that need each other: otherwise compileModule is called once    *)
(* for a module and has made its engine when the module is asked for again.*)
THEOREM TwiceOnlyInCircles == Spec => []OnceUnlessCircular
<1>1. Init => IInv /\ Chained
  BY InitGood, InitChained
<1>2. IInv /\ Chained /\ [Next]_vars => (IInv /\ Chained)'
  BY StepGood, StepChained
<1>3. IInv /\ Chained => OnceUnlessCircular
  <2> SUFFICES ASSUME IInv, Chained, ~ Circular,
                      NEW i \in DOMAIN stack, NEW j \in DOMAIN stack
               PROVE  stack[i] \notin engines /\ (stack[i] = stack[j] => i = j)
    BY DEF OnceUnlessCircular, CompiledOnce
  <2>1. i \in Nat /\ j \in Nat
    BY LenProperties DEF IInv, TypeOK
  <2>2. stack[i] = stack[j] => ~ (i < j) /\ ~ (j < i)
    BY TwiceIsCircular
  <2>3. QED
    BY <2>1, <2>2 DEF Chained
<1>4. QED
  BY <1>1, <1>2, <1>3, PTL DEF Spec
=============================================================================

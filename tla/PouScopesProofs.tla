--------------------------- MODULE PouScopesProofs ---------------------------
(***************************************************************************)
(* Proofs about PouScopes: flex takes a name out of reach of the           *)
(* productions that it would contradict.                                   *)
(***************************************************************************)
EXTENDS PouScopes, SequenceTheorems, WellFoundedInduction, TLAPS

-----------------------------------------------------------------------------
(* A set of numbers that is not empty has a smallest one.                  *)
Less == {p \in Nat \X Nat : p[1] < p[2]}

LEMMA LessWellFounded == IsWellFoundedOn(Less, Nat)
<1>1. IsWellFoundedOn(OpToRel(<, Nat), Nat)
  BY NatLessThanWellFounded
<1>2. QED
  BY <1>1 DEF OpToRel, Less

LEMMA Smallest ==
  ASSUME NEW T \in SUBSET Nat, T # {}
  PROVE  \E k \in T : \A j \in T : k <= j
<1>1. PICK k \in T : \A j \in T : ~ (<<j, k>> \in Less)
  BY LessWellFounded, WFMin
<1>2. ASSUME NEW j \in T PROVE k <= j
  <2>1. <<j, k>> \in Nat \X Nat /\ <<j, k>> \notin Less
    BY <1>1
  <2>2. ~ (<<j, k>>[1] < <<j, k>>[2])
    BY <2>1, Zenon DEF Less
  <2>3. QED
    BY <2>2
<1>3. QED
  BY <1>2

(* A set of numbers up to N that is not empty has a largest one.           *)
LEMMA Largest ==
  ASSUME NEW N \in Nat, NEW T \in SUBSET (1 .. N), T # {}
  PROVE  \E k \in T : \A j \in T : j <= k
<1> DEFINE U == {i \in Nat : i <= N /\ N - i \in T}
<1>1. U # {} /\ U \in SUBSET Nat
  <2>1. PICK t : t \in T
    OBVIOUS
  <2>2. N - t \in U
    BY <2>1
  <2>3. QED
    BY <2>2
<1>2. PICK i \in U : \A j \in U : i <= j
  BY <1>1, Smallest
<1>3. N - i \in T
  BY <1>2
<1>4. ASSUME NEW j \in T PROVE j <= N - i
  <2>1. N - j \in U
    BY <1>4
  <2>2. i <= N - j /\ i \in Nat /\ j \in Nat
    BY <1>2, <2>1
  <2>3. QED
    BY <2>2
<1>5. QED
  BY <1>3, <1>4

-----------------------------------------------------------------------------
(* Chains of scopes.                                                       *)
Chain(c) == c \in Seq(Scope) /\ c # <<>>

LEMMA ChainFacts ==
  ASSUME NEW c, Chain(c)
  PROVE  /\ Len(c) \in Nat \ {0} /\ DOMAIN c = 1 .. Len(c)
         /\ \A k \in 1 .. Len(c) : c[k] \in Scope
         /\ Innermost(c) = c[Len(c)] /\ Innermost(c) \in Scope
<1>1. Len(c) \in Nat /\ DOMAIN c = 1 .. Len(c) /\ Len(c) # 0
  BY LenProperties, EmptySeq DEF Chain
<1>2. QED
  BY <1>1, ElementOfSeq DEF Chain, Innermost

LEMMA ScopeFacts ==
  ASSUME NEW s \in Scope
  PROVE  /\ s = [n \in DOMAIN s |-> s[n]]
         /\ DOMAIN s \subseteq Names /\ \A n \in DOMAIN s : s[n] \in Codes
<1>1. PICK D \in SUBSET Names : s \in [D -> Codes]
  BY DEF Scope, Names
<1>2. QED
  BY <1>1

LEMMA IsScope ==
  ASSUME NEW D \in SUBSET Names, NEW s \in [D -> Codes]
  PROVE  s \in Scope
BY DEF Scope, Names

LEMMA NoCode == "identifier" \notin Codes
BY PouAssumption DEF Codes, VariableCodes, LibraryCodes, UnitCodes

(* find() answers with the innermost level that has the name.              *)
LEMMA FindFacts ==
  ASSUME NEW c, Chain(c), NEW n
  PROVE  /\ Find(c, n) = "identifier" => \A k \in 1 .. Len(c) : n \notin DOMAIN c[k]
         /\ (\A k \in 1 .. Len(c) : n \notin DOMAIN c[k]) => Find(c, n) = "identifier"
         /\ Find(c, n) # "identifier" =>
              \E k \in 1 .. Len(c) : n \in DOMAIN c[k] /\ Find(c, n) = c[k][n]
         /\ n \in DOMAIN Innermost(c) => Find(c, n) = Innermost(c)[n]
<1> DEFINE L == {k \in DOMAIN c : n \in DOMAIN c[k]}
<1>1. Levels(c, n) = L
  BY DEF Levels
<1>2. /\ Len(c) \in Nat \ {0} /\ DOMAIN c = 1 .. Len(c)
      /\ \A k \in 1 .. Len(c) : c[k] \in Scope
      /\ Innermost(c) = c[Len(c)]
  BY ChainFacts
<1>3. CASE L = {}
  <2>1. Find(c, n) = "identifier"
    BY <1>1, <1>3 DEF Find
  <2>2. QED
    BY <1>2, <1>3, <2>1
<1>4. CASE L # {}
  <2>1. \E k \in L : \A j \in L : j <= k
    BY <1>2, <1>4, Largest
  <2>2. LevelOf(c, n) \in L /\ \A j \in L : j <= LevelOf(c, n)
    BY <1>1, <2>1 DEF LevelOf
  <2>3. Find(c, n) = c[LevelOf(c, n)][n]
    BY <1>1, <1>4 DEF Find
  <2>4. Find(c, n) # "identifier"
    BY <1>2, <2>2, <2>3, ScopeFacts, NoCode
  <2>5. n \in DOMAIN Innermost(c) => LevelOf(c, n) = Len(c)
    BY <1>2, <2>2
  <2>6. QED
    BY <1>2, <2>2, <2>3, <2>4, <2>5
<1>5. QED
  BY <1>3, <1>4

(* insert() and set() touch the innermost level, and in it one name.       *)
Bound(c, d, n, v) ==
  /\ Chain(d) /\ Len(d) = Len(c)
  /\ \A k \in 1 .. Len(c) - 1 : d[k] = c[k]
  /\ DOMAIN d[Len(c)] = DOMAIN c[Len(c)] \cup {n}
  /\ d[Len(c)][n] = v
  /\ \A m \in DOMAIN c[Len(c)] \ {n} : d[Len(c)][m] = c[Len(c)][m]

LEMMA InsertBinds ==
  ASSUME NEW c, Chain(c), NEW n \in Names, NEW v \in Codes
  PROVE  Bound(c, Insert(c, n, v), n, v)
<1> DEFINE l == Len(c)
           s == [m \in DOMAIN c[l] \cup {n} |-> IF m = n THEN v ELSE c[l][m]]
<1>1. l \in Nat \ {0} /\ l \in 1 .. Len(c) /\ c \in Seq(Scope) /\ c[l] \in Scope
  BY ChainFacts DEF Chain
<1>2. s \in Scope
  <2>1. DOMAIN c[l] \cup {n} \in SUBSET Names
    BY <1>1, ScopeFacts
  <2>2. s \in [DOMAIN c[l] \cup {n} -> Codes]
    BY <1>1, ScopeFacts
  <2>3. QED
    BY <2>1, <2>2, IsScope
<1>3. Insert(c, n, v) = [c EXCEPT ![l] = s]
  BY DEF Insert, Bind
<1>4. /\ [c EXCEPT ![l] = s] \in Seq(Scope) /\ Len([c EXCEPT ![l] = s]) = l
      /\ \A k \in 1 .. l : [c EXCEPT ![l] = s][k] = IF k = l THEN s ELSE c[k]
  BY <1>1, <1>2, ExceptSeq
<1>5. /\ Insert(c, n, v) \in Seq(Scope) /\ Len(Insert(c, n, v)) = l
      /\ \A k \in 1 .. l - 1 : Insert(c, n, v)[k] = c[k]
      /\ Insert(c, n, v)[l] = s
  BY <1>1, <1>3, <1>4
<1>6. Chain(Insert(c, n, v))
  BY <1>1, <1>5, EmptySeq DEF Chain
<1>7. QED
  BY <1>5, <1>6 DEF Bound

LEMMA EmptyIsScope == EmptyScope \in Scope /\ DOMAIN EmptyScope = {}
<1>1. EmptyScope \in [{} -> Codes] /\ DOMAIN EmptyScope = {}
  BY DEF EmptyScope
<1>2. {} \in SUBSET Names
  OBVIOUS
<1>3. QED
  BY <1>1, <1>2, IsScope

LEMMA PushFacts ==
  ASSUME NEW c, Chain(c)
  PROVE  /\ Chain(Push(c)) /\ Len(Push(c)) = Len(c) + 1
         /\ \A k \in 1 .. Len(c) : Push(c)[k] = c[k]
         /\ DOMAIN Push(c)[Len(c) + 1] = {}
<1>1. EmptyScope \in Scope /\ DOMAIN EmptyScope = {}
  BY EmptyIsScope
<1>2. c \in Seq(Scope)
  BY DEF Chain
<1>3. /\ Append(c, EmptyScope) \in Seq(Scope)
      /\ Append(c, EmptyScope) # <<>>
      /\ Len(Append(c, EmptyScope)) = Len(c) + 1
      /\ Append(c, EmptyScope)[Len(c) + 1] = EmptyScope
      /\ \A k \in 1 .. Len(c) : Append(c, EmptyScope)[k] = c[k]
  BY <1>1, <1>2, AppendProperties
<1>4. QED
  BY <1>1, <1>3, Zenon DEF Push, Chain

LEMMA NewFacts == Chain(NewTable) /\ Len(NewTable) = 1 /\ DOMAIN NewTable[1] = {}
<1>1. EmptyScope \in Scope /\ DOMAIN EmptyScope = {}
  BY EmptyIsScope
<1>2. QED
  BY <1>1 DEF Chain, NewTable

LEMMA PopFacts ==
  ASSUME NEW c, Chain(c)
  PROVE  /\ Chain(Pop(c))
         /\ Len(c) = 1 => Pop(c) = NewTable
         /\ Len(c) # 1 =>
              Len(Pop(c)) = Len(c) - 1 /\ \A k \in 1 .. Len(c) - 1 : Pop(c)[k] = c[k]
         /\ Len(Pop(c)) = IF Len(c) = 1 THEN 1 ELSE Len(c) - 1
         /\ \A k \in 1 .. Len(Pop(c)) : Pop(c)[k] = c[k] \/ DOMAIN Pop(c)[k] = {}
<1>1. c \in Seq(Scope) /\ Len(c) \in Nat \ {0}
  BY ChainFacts DEF Chain
<1>2. CASE Len(c) = 1
  <2>1. Pop(c) = NewTable
    BY <1>2 DEF Pop
  <2>2. Chain(Pop(c)) /\ Len(Pop(c)) = 1 /\ DOMAIN Pop(c)[1] = {}
    BY <2>1, NewFacts, Zenon
  <2>3. \A k \in 1 .. Len(Pop(c)) : DOMAIN Pop(c)[k] = {}
    BY <2>2
  <2>4. QED
    BY <1>2, <2>1, <2>2, <2>3
<1>3. CASE Len(c) # 1
  <2>1. /\ SubSeq(c, 1, Len(c) - 1) \in Seq(Scope)
        /\ Len(SubSeq(c, 1, Len(c) - 1)) = Len(c) - 1
        /\ \A k \in 1 .. Len(c) - 1 : SubSeq(c, 1, Len(c) - 1)[k] = c[k]
    <3> DEFINE m == Len(c) - 1
    <3>1. m \in Int /\ 1 \in Int /\ 1 <= m /\ m - 1 + 1 = m
          /\ \A k \in 1 .. m : 1 + k - 1 = k
      BY <1>1, <1>3
    <3>2. \A i \in 1 .. m : c[i] \in Scope
      BY <1>1, ChainFacts
    <3> HIDE DEF m
    <3>3. /\ SubSeq(c, 1, m) \in Seq(Scope)
          /\ Len(SubSeq(c, 1, m)) = IF 1 <= m THEN m - 1 + 1 ELSE 0
          /\ \A k \in 1 .. m - 1 + 1 : SubSeq(c, 1, m)[k] = c[1 + k - 1]
      BY <3>1, <3>2, SubSeqProperties
    <3>4. /\ SubSeq(c, 1, m) \in Seq(Scope) /\ Len(SubSeq(c, 1, m)) = m
          /\ \A k \in 1 .. m : SubSeq(c, 1, m)[k] = c[k]
      BY <3>1, <3>3
    <3>5. QED
      BY <3>4, Zenon DEF m
  <2>2. SubSeq(c, 1, Len(c) - 1) # <<>>
    <3>1. Len(SubSeq(c, 1, Len(c) - 1)) # 0
      BY <1>1, <1>3, <2>1
    <3>2. Len(<<>>) = 0
      OBVIOUS
    <3>3. QED
      BY <3>1, <3>2, Zenon
  <2>3. Pop(c) = SubSeq(c, 1, Len(c) - 1)
    BY <1>3 DEF Pop
  <2>4. QED
    BY <1>3, <2>1, <2>2, <2>3 DEF Chain
<1>4. QED
  BY <1>2, <1>3

-----------------------------------------------------------------------------
(* The inductive invariant.  Types first, the tables being chains.         *)
Units == [kind : Kinds \cup {"none"}, name : Identifier \cup Operator \cup {Unnamed},
          place : PouPlaces \cup ConfPlaces \cup ResourcePlaces \cup {"none"},
          resource : Identifier \cup {Unnamed}]

Tables ==
  /\ Chain(variables) /\ Chain(directs) /\ Len(directs) = Len(variables)
  /\ Chain(library) /\ Len(library) = 1

(* What each table holds.                                                  *)
Contents ==
  /\ \A k \in 1 .. Len(variables) : \A n \in DOMAIN variables[k] :
       variables[k][n] \in VariableCodes
  /\ \A n \in DOMAIN library[1] : library[1][n] \in LibraryCodes

(* A place is one of the unit's kind.                                      *)
PlaceFits ==
  /\ unit.kind = "none" <=> unit.place = "none"
  /\ unit.kind = "configuration" <=> unit.place \in ConfPlaces \cup ResourcePlaces

(* The library has nothing that the name of the open unit contradicts.     *)
CodeOf == [k \in {"function", "function block", "configuration"} |->
             CASE k = "function" -> "function" [] k = "function block" -> "fbtype"
               [] k = "configuration" -> "configuration"]
NameFree ==
  unit.kind \in DOMAIN CodeOf /\ unit.name \in Identifier \cap DOMAIN library[1] =>
    library[1][unit.name] = CodeOf[unit.kind]

(* The function's name is a variable of the scope the function opens.      *)
OwnName ==
  unit.kind = "function" /\ unit.name \in Identifier =>
    /\ unit.name \in DOMAIN Innermost(variables)
    /\ Innermost(variables)[unit.name] = "variable"
    /\ unit.name \notin list

(* The names of a list are in the scope that set() looks at.               *)
Listed ==
  /\ list # {} => InDeclarations
  /\ list \ {Unnamed} \subseteq DOMAIN Innermost(variables)

(* The scope around a resource has no other use for its name.              *)
ResourceFree ==
  unit.place \in ResourcePlaces /\ unit.resource # Unnamed =>
    /\ Len(variables) > 1
    /\ unit.resource \notin DOMAIN variables[Len(variables) - 1]

(* What holds as long as no error has been reported.                       *)
Outermost == unit.place \in {"globals", "resources"} \cup ResourcePlaces =>
               \A n \in DOMAIN variables[1] : variables[1][n] \in {"global", "resource"}
Clean ==
  status = "running" /\ ~ errors =>
    /\ unit.place \in {"none", "instances"} => variables = NewTable /\ directs = NewTable
    /\ Len(variables) = IF unit.place \in ResourcePlaces THEN 2 ELSE 1
    /\ Outermost

Scalars ==
  /\ unit \in Units
  /\ list \subseteq Identifier \cup {Unnamed}
  /\ errors \in BOOLEAN
  /\ status \in {"running", "insert", "set", "step", "nameless", "symbol"}

(* Who reads ahead, misnames a unit or puts into a list what has no name   *)
(* has been told; so has who ends the program in any way but by a step.    *)
Told ==
  /\ ahead \in Identifier \cup {Unnamed}
  /\ ahead # Unnamed => errors
  /\ unit.kind # "none" /\ unit.name \notin Identifier => errors
  /\ Unnamed \in list => errors
  /\ ToldBeforeEnding

Good == /\ Tables /\ Contents /\ Scalars /\ PlaceFits /\ NameFree
        /\ OwnName /\ Listed /\ ResourceFree /\ Clean

IInv == Good /\ Told

LEMMA InitGood == Init => Good
<1> SUFFICES ASSUME Init PROVE Good
  OBVIOUS
<1>1. /\ variables = NewTable /\ directs = NewTable /\ library = NewTable
      /\ unit = Outside /\ list = {} /\ errors = FALSE /\ status = "running"
  BY DEF Init
<1>2. Tables /\ Contents
  BY <1>1, NewFacts DEF Tables, Contents
<1>3. Scalars /\ PlaceFits
  BY <1>1 DEF Scalars, Units, Outside, PlaceFits, ConfPlaces, ResourcePlaces
<1>4. NameFree /\ OwnName /\ Listed /\ ResourceFree
  BY <1>1 DEF NameFree, OwnName, Listed, ResourceFree, Outside, CodeOf, ResourcePlaces
<1>5. Clean
  BY <1>1, NewFacts DEF Clean, Outermost, Outside, ResourcePlaces
<1>6. QED
  BY <1>2, <1>3, <1>4, <1>5 DEF Good

LEMMA InitTold == Init => Told
BY DEF Init, Told, ToldBeforeEnding, Outside

-----------------------------------------------------------------------------
(* What the token of a name says of the tables.                            *)
Fresh(n) == \A k \in 1 .. Len(variables) : n \notin DOMAIN variables[k]

LEMMA TokenFacts ==
  ASSUME Tables, Contents, NEW n
  PROVE  /\ Token(n) \in {"identifier"} \cup LibraryCodes => Fresh(n)
         /\ Token(n) = "identifier" => n \notin DOMAIN library[1]
         /\ Fresh(n) /\ n \in DOMAIN library[1] => library[1][n] = Token(n)
         /\ n \in DOMAIN Innermost(variables) => Token(n) = Innermost(variables)[n]
<1>1. Chain(variables) /\ Chain(library) /\ Len(library) = 1
  BY DEF Tables
<1>2. \A c \in VariableCodes : c \notin {"identifier"} \cup LibraryCodes
  BY PouAssumption DEF VariableCodes, LibraryCodes, UnitCodes
<1>3. Find(variables, n) # "identifier" => Find(variables, n) \in VariableCodes
  BY <1>1, FindFacts DEF Contents
<1>4. Token(n) \in {"identifier"} \cup LibraryCodes => Find(variables, n) = "identifier"
  BY <1>2, <1>3 DEF Token
<1>5. Find(variables, n) = "identifier" <=> Fresh(n)
  BY <1>1, FindFacts DEF Fresh
<1>6. Fresh(n) => Token(n) = Find(library, n)
  BY <1>5 DEF Token
<1>7. Innermost(library) = library[1]
  BY <1>1, ChainFacts
<1>8. Token(n) = "identifier" => n \notin DOMAIN library[1]
  <2>1. Find(library, n) = "identifier" => n \notin DOMAIN library[1]
    BY <1>1, FindFacts
  <2>2. QED
    BY <1>4, <1>5, <1>6, <2>1
<1>9. n \in DOMAIN library[1] => Find(library, n) = library[1][n]
  BY <1>1, <1>7, FindFacts
<1>10. n \in DOMAIN Innermost(variables) => Find(variables, n) = Innermost(variables)[n]
  BY <1>1, FindFacts
<1>11. n \in DOMAIN Innermost(variables) => ~ Fresh(n)
  BY <1>1, ChainFacts DEF Fresh
<1>12. QED
  BY <1>4, <1>5, <1>6, <1>8, <1>9, <1>10, <1>11 DEF Token

(* The steps that leave the tables alone.                                  *)
LEMMA SameTables ==
  ASSUME Tables, Contents, UNCHANGED <<variables, directs, library>>
  PROVE  Tables' /\ Contents'
BY DEF Tables, Contents

(* A declaration in the open scope that contradicts none there.            *)
InnerKept ==
  /\ Len(variables') = Len(variables)
  /\ \A k \in 1 .. Len(variables) - 1 : variables'[k] = variables[k]
  /\ \A m \in DOMAIN Innermost(variables) :
       /\ m \in DOMAIN Innermost(variables')
       /\ Innermost(variables')[m] = Innermost(variables)[m]

LEMMA Declaring ==
  ASSUME Tables, Contents, NEW n \in Identifier \cup Operator, NEW c \in VariableCodes,
         CanInsert(variables, n, c), variables' = Insert(variables, n, c),
         UNCHANGED <<directs, library>>
  PROVE  /\ Tables' /\ Contents' /\ InnerKept
         /\ DOMAIN Innermost(variables') = DOMAIN Innermost(variables) \cup {n}
         /\ Innermost(variables')[n] = c
         /\ \A m \in DOMAIN variables'[1] :
              \/ variables'[1][m] = c
              \/ m \in DOMAIN variables[1] /\ variables'[1][m] = variables[1][m]
<1> DEFINE l == Len(variables)
<1>1. /\ Chain(variables) /\ l \in Nat \ {0} /\ Innermost(variables) = variables[l]
      /\ c \in Codes /\ n \in Names
  BY ChainFacts DEF Tables, Codes, Names
<1>2. Bound(variables, Insert(variables, n, c), n, c)
  BY <1>1, InsertBinds
<1>3. /\ Chain(variables') /\ Len(variables') = l
      /\ \A k \in 1 .. l - 1 : variables'[k] = variables[k]
      /\ DOMAIN variables'[l] = DOMAIN variables[l] \cup {n}
      /\ variables'[l][n] = c
      /\ \A m \in DOMAIN variables[l] \ {n} : variables'[l][m] = variables[l][m]
  BY <1>2, Zenon DEF Bound
<1>4. Innermost(variables') = variables'[l]
  BY <1>3, ChainFacts
<1>5. InnerKept
  <2>1. n \in DOMAIN variables[l] => variables[l][n] = c
    BY <1>1 DEF CanInsert
  <2>2. \A m \in DOMAIN variables[l] : m \in DOMAIN variables'[l] /\ variables'[l][m] = variables[l][m]
    BY <1>3, <2>1
  <2>3. QED
    BY <1>1, <1>3, <1>4, <2>2 DEF InnerKept
<1>6. Tables'
  BY <1>3 DEF Tables
<1>7. Contents'
  <2>1. ASSUME NEW k \in 1 .. l, NEW m \in DOMAIN variables'[k]
        PROVE  variables'[k][m] \in VariableCodes
    <3>1. CASE k = l
      BY <1>1, <1>3, <2>1, <3>1 DEF Contents
    <3>2. CASE k # l
      BY <1>1, <1>3, <2>1, <3>2 DEF Contents
    <3>3. QED
      BY <3>1, <3>2
  <2>2. QED
    BY <1>3, <2>1 DEF Contents
<1>8. ASSUME NEW m \in DOMAIN variables'[1]
      PROVE  \/ variables'[1][m] = c
             \/ m \in DOMAIN variables[1] /\ variables'[1][m] = variables[1][m]
  <2>1. CASE l = 1
    BY <1>3, <1>8, <2>1
  <2>2. CASE l # 1
    <3>1. 1 \in 1 .. l - 1
      <4>1. l \in Nat \ {0} /\ l # 1
        BY <1>1, <2>2
      <4> HIDE DEF l
      <4>2. QED
        BY <4>1
    <3>2. QED
      BY <1>3, <1>8, <3>1
  <2>3. QED
    BY <2>1, <2>2
<1>9. QED
  BY <1>1, <1>3, <1>4, <1>5, <1>6, <1>7, <1>8

LEMMA FreshInsert ==
  ASSUME Tables, NEW n, Fresh(n), NEW c, NEW step, InsertVariable(n, c, step)
  PROVE  /\ variables' = Insert(variables, n, c) /\ status' = status
         /\ CanInsert(variables, n, c) /\ n \notin DOMAIN Innermost(variables)
<1>1. n \notin DOMAIN Innermost(variables)
  BY ChainFacts DEF Tables, Fresh
<1>2. CanInsert(variables, n, c)
  BY <1>1 DEF CanInsert
<1>3. QED
  BY <1>1, <1>2 DEF InsertVariable

(* Whatever is declared: the open scope loses nothing.                     *)
LEMMA DeclaredOrRefused ==
  ASSUME Tables, Contents, NEW n \in Identifier \cup Operator, NEW c \in VariableCodes,
         NEW step, InsertVariable(n, c, step), UNCHANGED <<directs, library>>
  PROVE  /\ Tables' /\ Contents' /\ InnerKept
         /\ status' \in {status, step}
<1>1. CASE CanInsert(variables, n, c)
  BY <1>1, Declaring DEF InsertVariable
<1>2. CASE ~ CanInsert(variables, n, c)
  <2>1. UNCHANGED <<variables, directs, library>> /\ status' = step
    BY <1>2 DEF InsertVariable
  <2>2. QED
    BY <2>1, SameTables DEF InnerKept
<1>3. QED
  BY <1>1, <1>2

(* The end of a unit puts its name into the library.                       *)
LEMMA Entering ==
  ASSUME Tables, Contents, NEW n \in Identifier \cup Operator \cup {Unnamed},
         NEW code \in LibraryCodes, InsertLibrary(n, code)
  PROVE  /\ Chain(library') /\ Len(library') = 1
         /\ \A m \in DOMAIN library'[1] : library'[1][m] \in LibraryCodes
         /\ status' \in {status, "nameless", "insert"}
<1>1. Chain(library) /\ Len(library) = 1
  BY DEF Tables
<1>2. CASE library' = library
  BY <1>1, <1>2 DEF InsertLibrary, Contents
<1>3. CASE n # Unnamed /\ CanInsert(library, n, code)
  <2>1. library' = Insert(library, n, code) /\ status' = status
    BY <1>3 DEF InsertLibrary
  <2>2. n \in Names /\ code \in Codes
    BY <1>3 DEF Names, Codes
  <2>3. Bound(library, Insert(library, n, code), n, code)
    BY <1>1, <2>2, InsertBinds
  <2>4. /\ Chain(library') /\ Len(library') = 1
        /\ DOMAIN library'[1] = DOMAIN library[1] \cup {n}
        /\ library'[1][n] = code
        /\ \A m \in DOMAIN library[1] \ {n} : library'[1][m] = library[1][m]
    BY <1>1, <2>1, <2>3 DEF Bound
  <2>5. QED
    BY <2>1, <2>4 DEF Contents
<1>4. QED
  BY <1>2, <1>3 DEF InsertLibrary

(* An identifier that the library knows by the same code, or not at all,   *)
(* is entered without complaint.                                           *)
LEMMA Agreed ==
  ASSUME Tables, NEW n \in Identifier, NEW code,
         n \in DOMAIN library[1] => library[1][n] = code, InsertLibrary(n, code)
  PROVE  status' = status
<1>1. Innermost(library) = library[1]
  BY ChainFacts DEF Tables
<1>2. n # Unnamed /\ CanInsert(library, n, code)
  BY <1>1, PouAssumption DEF CanInsert, Names
<1>3. QED
  BY <1>2 DEF InsertLibrary

-----------------------------------------------------------------------------
(* The units the parser is in.                                             *)
LEMMA Reopened ==
  ASSUME NEW kind \in Kinds, NEW n \in Identifier \cup Operator \cup {Unnamed},
         NEW p \in PouPlaces \cup ConfPlaces
  PROVE  LET u == Open(kind, n, p) IN
         u \in Units /\ u.kind = kind /\ u.name = n /\ u.place = p /\ u.resource = Unnamed
BY DEF Open, Outside, Units

LEMMA OutsideFacts ==
  /\ Outside \in Units /\ Outside.kind = "none" /\ Outside.name = Unnamed
  /\ Outside.place = "none" /\ Outside.resource = Unnamed
BY DEF Outside, Units

LEMMA Moved ==
  ASSUME unit \in Units, NEW p \in PouPlaces \cup ConfPlaces \cup ResourcePlaces,
         unit' = [unit EXCEPT !.place = p]
  PROVE  /\ unit' \in Units /\ unit'.kind = unit.kind /\ unit'.name = unit.name
         /\ unit'.place = p /\ unit'.resource = unit.resource
BY DEF Units

LEMMA MovedResource ==
  ASSUME unit \in Units, NEW p \in PouPlaces \cup ConfPlaces \cup ResourcePlaces,
         NEW r \in Identifier \cup {Unnamed},
         unit' = [unit EXCEPT !.place = p, !.resource = r]
  PROVE  /\ unit' \in Units /\ unit'.kind = unit.kind /\ unit'.name = unit.name
         /\ unit'.place = p /\ unit'.resource = r
BY DEF Units

(* Outside a unit no list is open.                                         *)
LEMMA NoList ==
  ASSUME Good, unit = Outside
  PROVE  list = {}
BY OutsideFacts DEF Good, Listed, InDeclarations

LEMMA MistakeGood ==
  ASSUME Good, Mistake
  PROVE  Good'
<1>1. /\ UNCHANGED <<variables, directs, library, unit, list, status>> /\ errors' = TRUE
  BY DEF Mistake
<1>2. Tables' /\ Contents'
  BY <1>1, SameTables DEF Good
<1>3. Scalars' /\ PlaceFits' /\ NameFree' /\ OwnName' /\ Listed' /\ ResourceFree'
  BY <1>1 DEF Good, Scalars, PlaceFits, NameFree, OwnName, Listed, InDeclarations, ResourceFree
<1>4. Clean'
  BY <1>1 DEF Clean
<1>5. QED
  BY <1>2, <1>3, <1>4 DEF Good

LEMMA BeginMisnamedGood ==
  ASSUME Good, NEW kind \in Kinds, BeginMisnamed(kind)
  PROVE  Good'
<1> DEFINE p == IF kind = "configuration" THEN "globals" ELSE "header"
<1>1. /\ UNCHANGED <<variables, directs, library, list, status>> /\ errors' = TRUE
      /\ unit = Outside /\ unit' = Open(kind, Unnamed, p)
  BY DEF BeginMisnamed
<1>2. /\ unit' \in Units /\ unit'.kind = kind /\ unit'.name = Unnamed
      /\ unit'.place = p /\ unit'.resource = Unnamed
  BY <1>1, Reopened DEF PouPlaces, ConfPlaces
<1>3. Tables' /\ Contents'
  BY <1>1, SameTables DEF Good
<1>4. list' = {}
  BY <1>1, NoList
<1>5. Scalars' /\ PlaceFits'
  BY <1>1, <1>2 DEF Good, Scalars, PlaceFits, Kinds, ConfPlaces, ResourcePlaces
<1>6. Unnamed \notin Identifier
  BY PouAssumption DEF Names
<1>7. NameFree' /\ OwnName' /\ Listed' /\ ResourceFree'
  BY <1>1, <1>2, <1>4, <1>6 DEF NameFree, OwnName, Listed, ResourceFree
<1>8. Clean'
  BY <1>1 DEF Clean
<1>9. QED
  BY <1>3, <1>5, <1>7, <1>8 DEF Good

(* A unit opened by a name that flex has let through.                      *)
LEMMA BeginFunctionBlockGood ==
  ASSUME Good, NEW n \in Identifier, BeginFunctionBlock(n)
  PROVE  Good'
<1>1. /\ UNCHANGED <<variables, directs, library, list, errors, status>>
      /\ unit = Outside /\ unit' = Open("function block", n, "header")
      /\ Token(n) \in {"identifier", "fbtype"}
  BY DEF BeginFunctionBlock
<1>2. /\ unit' \in Units /\ unit'.kind = "function block" /\ unit'.name = n
      /\ unit'.place = "header" /\ unit'.resource = Unnamed
  BY <1>1 DEF Open, Outside, Units, Kinds, PouPlaces
<1>3. Tables' /\ Contents'
  BY <1>1, SameTables DEF Good
<1>4. list' = {}
  BY <1>1, NoList
<1>5. Scalars' /\ PlaceFits'
  BY <1>1, <1>2 DEF Good, Scalars, PlaceFits, ConfPlaces, ResourcePlaces
<1>6. n \in DOMAIN library[1] => library[1][n] = "fbtype"
  BY <1>1, TokenFacts DEF Good, LibraryCodes, UnitCodes
<1>7. NameFree' /\ OwnName' /\ Listed' /\ ResourceFree'
  BY <1>1, <1>2, <1>4, <1>6 DEF NameFree, OwnName, Listed, ResourceFree, CodeOf, ResourcePlaces
<1>8. Clean'
  BY <1>1, <1>2, OutsideFacts, NewFacts DEF Good, Clean, Outermost, ResourcePlaces
<1>9. QED
  BY <1>3, <1>5, <1>7, <1>8 DEF Good

LEMMA BeginConfigurationGood ==
  ASSUME Good, NEW n \in Identifier, BeginConfiguration(n)
  PROVE  Good'
<1>1. /\ UNCHANGED <<variables, directs, library, list, errors, status>>
      /\ unit = Outside /\ unit' = Open("configuration", n, "globals")
      /\ Token(n) \in {"identifier", "configuration"}
  BY DEF BeginConfiguration
<1>2. /\ unit' \in Units /\ unit'.kind = "configuration" /\ unit'.name = n
      /\ unit'.place = "globals" /\ unit'.resource = Unnamed
  <2>1. /\ "configuration" \in Kinds /\ "globals" \in PouPlaces \cup ConfPlaces
        /\ n \in Identifier \cup Operator \cup {Unnamed}
    BY DEF Kinds, PouPlaces, ConfPlaces
  <2>2. QED
    BY <1>1, <2>1, Reopened
<1>3. Tables' /\ Contents'
  BY <1>1, SameTables DEF Good
<1>4. list' = {}
  BY <1>1, NoList
<1>5. Scalars' /\ PlaceFits'
  BY <1>1, <1>2 DEF Good, Scalars, PlaceFits, ConfPlaces, ResourcePlaces
<1>6. n \in DOMAIN library[1] => library[1][n] = "configuration"
  BY <1>1, TokenFacts DEF Good, LibraryCodes, UnitCodes
<1>7. NameFree' /\ OwnName' /\ Listed' /\ ResourceFree'
  BY <1>1, <1>2, <1>4, <1>6 DEF NameFree, OwnName, Listed, ResourceFree, CodeOf, ResourcePlaces
<1>8. Clean'
  BY <1>1, <1>2, OutsideFacts, NewFacts DEF Good, Clean, Outermost, ResourcePlaces
<1>9. QED
  BY <1>3, <1>5, <1>7, <1>8 DEF Good

LEMMA BeginBodyGood ==
  ASSUME Good, BeginBody
  PROVE  Good'
<1>1. /\ UNCHANGED <<variables, directs, library, list, errors, status>>
      /\ unit.place = "declarations" /\ list = {} /\ unit' = [unit EXCEPT !.place = "body"]
  BY DEF BeginBody
<1>2. /\ unit' \in Units /\ unit'.kind = unit.kind /\ unit'.name = unit.name
      /\ unit'.place = "body" /\ unit'.resource = unit.resource
  BY <1>1, Moved DEF PouPlaces, Good, Scalars
<1>3. Tables' /\ Contents'
  BY <1>1, SameTables DEF Good
<1>4. Scalars' /\ PlaceFits'
  BY <1>1, <1>2 DEF Good, Scalars, PlaceFits, ConfPlaces, ResourcePlaces
<1>5. NameFree' /\ OwnName' /\ Listed' /\ ResourceFree'
  BY <1>1, <1>2 DEF Good, NameFree, OwnName, Listed, ResourceFree, ResourcePlaces
<1>6. Clean'
  BY <1>1, <1>2 DEF Good, Clean, Outermost, ResourcePlaces
<1>7. QED
  BY <1>3, <1>4, <1>5, <1>6 DEF Good

(* The steps that only touch the list or the direct variables.             *)
LEMMA EndErroneousGood ==
  ASSUME Good, EndErroneous
  PROVE  Good'
<1>1. /\ UNCHANGED <<variables, directs, library, status>> /\ errors' = TRUE
      /\ unit' = Outside /\ list' = {}
  BY DEF EndErroneous
<1>2. Tables' /\ Contents'
  BY <1>1, SameTables DEF Good
<1>3. Scalars' /\ PlaceFits'
  BY <1>1, OutsideFacts DEF Good, Scalars, PlaceFits, ConfPlaces, ResourcePlaces
<1>4. NameFree' /\ OwnName' /\ Listed' /\ ResourceFree'
  BY <1>1, OutsideFacts DEF NameFree, OwnName, Listed, ResourceFree, CodeOf, ResourcePlaces
<1>5. Clean'
  BY <1>1 DEF Clean
<1>6. QED
  BY <1>2, <1>3, <1>4, <1>5 DEF Good

LEMMA ListOfVariablesGood ==
  ASSUME Good, ListOfVariables
  PROVE  Good'
<1>1. /\ UNCHANGED <<variables, directs, library, unit, status>>
      /\ errors' \in {errors, TRUE} /\ list' = {}
  BY DEF ListOfVariables
<1>2. Tables' /\ Contents'
  BY <1>1, SameTables DEF Good
<1>3. Scalars' /\ PlaceFits' /\ NameFree' /\ OwnName' /\ Listed' /\ ResourceFree'
  BY <1>1 DEF Good, Scalars, PlaceFits, NameFree, OwnName, Listed, ResourceFree
<1>4. Clean'
  BY <1>1 DEF Good, Clean, Outermost
<1>5. QED
  BY <1>2, <1>3, <1>4 DEF Good

LEMMA EndErroneousResourceGood ==
  ASSUME Good, EndErroneousResource
  PROVE  Good'
<1>1. /\ UNCHANGED <<variables, directs, library, list, status>> /\ errors' = TRUE
      /\ unit.place \in {"globals", "resources"} \cup ResourcePlaces
      /\ unit' = [unit EXCEPT !.place = "resources", !.resource = Unnamed]
  BY DEF EndErroneousResource
<1>2. /\ unit' \in Units /\ unit'.kind = unit.kind /\ unit'.name = unit.name
      /\ unit'.place = "resources" /\ unit'.resource = Unnamed
  BY <1>1, MovedResource DEF ConfPlaces, Good, Scalars
<1>3. Tables' /\ Contents'
  BY <1>1, SameTables DEF Good
<1>4. list = {}
  BY <1>1 DEF Good, Listed, InDeclarations, ResourcePlaces
<1>5. Scalars' /\ PlaceFits'
  BY <1>1, <1>2 DEF Good, Scalars, PlaceFits, ConfPlaces, ResourcePlaces
<1>6. NameFree' /\ OwnName' /\ Listed' /\ ResourceFree'
  <2>1. UNCHANGED <<variables, library, list>>
    BY <1>1
  <2>2. NameFree'
    BY <1>2, <2>1, Zenon DEF Good, NameFree
  <2>3. OwnName'
    BY <1>2, <2>1, Zenon DEF Good, OwnName
  <2>4. Listed' /\ ResourceFree'
    BY <1>2, <1>4, <2>1 DEF Listed, ResourceFree
  <2>5. QED
    BY <2>2, <2>3, <2>4
<1>7. Clean'
  BY <1>1 DEF Clean
<1>8. QED
  BY <1>3, <1>5, <1>6, <1>7 DEF Good

LEMMA LocateGood ==
  ASSUME Good, NEW d \in Direct, Locate(d)
  PROVE  Good'
<1>1. /\ UNCHANGED <<variables, library, list, status>>
      /\ directs' = Insert(directs, d, "direct")
      /\ \/ InDeclarations /\ list = {} /\ DeclarationSeen
            /\ errors' = (errors \/ unit.kind # "program")
         \/ unit.place \in {"globals", "resource"} /\ UNCHANGED <<unit, errors>>
  BY DEF Locate
<1>2. Chain(directs') /\ Len(directs') = Len(directs)
  <2>1. d \in Names /\ "direct" \in Codes
    BY DEF Names, Codes
  <2>2. Bound(directs, directs', d, "direct")
    BY <1>1, <2>1, InsertBinds DEF Good, Tables
  <2>3. QED
    BY <2>2 DEF Bound
<1>3. Tables' /\ Contents'
  BY <1>1, <1>2 DEF Good, Tables, Contents
<1>4. CASE InDeclarations /\ list = {} /\ DeclarationSeen
           /\ errors' = (errors \/ unit.kind # "program")
  <2>1. /\ unit' \in Units /\ unit'.kind = unit.kind /\ unit'.name = unit.name
        /\ unit'.place = "declarations" /\ unit'.resource = unit.resource
    BY <1>4, Moved DEF PouPlaces, DeclarationSeen, Good, Scalars
  <2>2. unit.place \in {"header", "declarations"}
    BY <1>4 DEF InDeclarations
  <2>3. errors' \in BOOLEAN /\ (errors => errors')
    BY <1>4 DEF Good, Scalars
  <2>4. Scalars' /\ PlaceFits'
    BY <1>1, <2>1, <2>2, <2>3 DEF Good, Scalars, PlaceFits, ConfPlaces, ResourcePlaces
  <2>5. NameFree' /\ OwnName' /\ Listed' /\ ResourceFree'
    BY <1>1, <1>4, <2>1 DEF Good, NameFree, OwnName, Listed, ResourceFree, ResourcePlaces
  <2>6. Clean'
    BY <1>1, <2>1, <2>2, <2>3 DEF Good, Clean, Outermost, ResourcePlaces
  <2>7. QED
    BY <1>3, <2>4, <2>5, <2>6 DEF Good
<1>5. CASE unit.place \in {"globals", "resource"} /\ UNCHANGED <<unit, errors>>
  <2>1. Scalars' /\ PlaceFits' /\ NameFree' /\ OwnName' /\ Listed' /\ ResourceFree'
    BY <1>1, <1>5 DEF Good, Scalars, PlaceFits, NameFree, OwnName, Listed, InDeclarations, ResourceFree
  <2>2. Clean'
    BY <1>1, <1>5 DEF Good, Clean, Outermost
  <2>3. QED
    BY <1>3, <2>1, <2>2 DEF Good
<1>6. QED
  BY <1>1, <1>4, <1>5

-----------------------------------------------------------------------------
(* The steps that put a name into the library.                             *)
LEMMA DeclareTypeGood ==
  ASSUME Good, NEW n \in Identifier, NEW code \in TypeCodes, DeclareType(n, code)
  PROVE  Good'
<1>1. /\ UNCHANGED <<variables, directs, unit, list>> /\ errors' \in {errors, TRUE}
      /\ unit = Outside /\ status = "running" /\ InsertLibrary(n, code)
  BY DEF DeclareType, Undeclared, ReadsAhead
<1>2. /\ Chain(library') /\ Len(library') = 1
      /\ \A m \in DOMAIN library'[1] : library'[1][m] \in LibraryCodes
      /\ status' \in {status, "nameless", "insert"}
  BY <1>1, Entering DEF Good, LibraryCodes
<1>3. Tables' /\ Contents'
  BY <1>1, <1>2 DEF Good, Tables, Contents
<1>4. list = {} /\ unit.kind = "none" /\ unit.place = "none"
  BY <1>1, NoList, OutsideFacts
<1>5. Scalars' /\ PlaceFits'
  BY <1>1, <1>2 DEF Good, Scalars, PlaceFits
<1>6. NameFree' /\ OwnName' /\ Listed' /\ ResourceFree'
  BY <1>1, <1>4 DEF NameFree, OwnName, Listed, ResourceFree, CodeOf, ResourcePlaces
<1>7. Clean'
  <2>1. errors => errors'
    BY <1>1, Zenon
  <2>2. QED
    BY <1>1, <1>2, <2>1 DEF Good, Scalars, Clean, Outermost
<1>8. QED
  BY <1>3, <1>5, <1>6, <1>7 DEF Good

LEMMA BeginProgramGood ==
  ASSUME Good, NEW n \in Identifier, BeginProgram(n)
  PROVE  Good'
<1>1. /\ UNCHANGED <<variables, directs, list, errors>>
      /\ unit = Outside /\ unit' = Open("program", n, "header")
      /\ \/ Token(n) = "identifier" /\ InsertLibrary(n, "progtype")
         \/ Token(n) = "progtype" /\ UNCHANGED <<library, status>>
  BY DEF BeginProgram
<1>2. /\ unit' \in Units /\ unit'.kind = "program" /\ unit'.name = n
      /\ unit'.place = "header" /\ unit'.resource = Unnamed
  <2>1. /\ "program" \in Kinds /\ "header" \in PouPlaces \cup ConfPlaces
        /\ n \in Identifier \cup Operator \cup {Unnamed}
    BY DEF Kinds, PouPlaces, ConfPlaces
  <2>2. QED
    BY <1>1, <2>1, Reopened
<1>3. /\ Chain(library') /\ Len(library') = 1
      /\ \A m \in DOMAIN library'[1] : library'[1][m] \in LibraryCodes
      /\ status' \in {status, "nameless", "insert"}
  <2>1. CASE Token(n) = "identifier" /\ InsertLibrary(n, "progtype")
    BY <2>1, Entering DEF Good, LibraryCodes, UnitCodes
  <2>2. CASE UNCHANGED <<library, status>>
    BY <2>2 DEF Good, Tables, Contents
  <2>3. QED
    BY <1>1, <2>1, <2>2
<1>4. Tables' /\ Contents'
  BY <1>1, <1>3 DEF Good, Tables, Contents
<1>5. list = {} /\ unit.place = "none"
  BY <1>1, NoList, OutsideFacts
<1>6. Scalars' /\ PlaceFits'
  BY <1>1, <1>2, <1>3 DEF Good, Scalars, PlaceFits, ConfPlaces, ResourcePlaces
<1>7. NameFree' /\ OwnName' /\ Listed' /\ ResourceFree'
  BY <1>1, <1>2, <1>5 DEF NameFree, OwnName, Listed, ResourceFree, CodeOf, ResourcePlaces
<1>8. Clean'
  BY <1>1, <1>2, <1>3, <1>5, NewFacts DEF Good, Clean, Outermost, ResourcePlaces
<1>9. QED
  BY <1>4, <1>6, <1>7, <1>8 DEF Good

(* The end of a unit: the scopes go, the name is entered.                  *)
LEMMA Popping ==
  ASSUME Good, PopScopes
  PROVE  /\ Chain(variables') /\ Chain(directs') /\ Len(directs') = Len(variables')
         /\ \A k \in 1 .. Len(variables') : \A n \in DOMAIN variables'[k] :
              variables'[k][n] \in VariableCodes
         /\ Len(variables) = 1 => variables' = NewTable /\ directs' = NewTable
         /\ Len(variables') = IF Len(variables) = 1 THEN 1 ELSE Len(variables) - 1
<1>1. /\ Chain(variables) /\ Chain(directs) /\ Len(directs) = Len(variables)
      /\ Len(variables) \in Nat \ {0}
      /\ variables' = Pop(variables) /\ directs' = Pop(directs)
  BY ChainFacts DEF Good, Tables, PopScopes
<1>2. /\ Chain(variables') /\ Chain(directs')
      /\ Len(variables) = 1 => variables' = NewTable /\ directs' = NewTable
      /\ Len(variables') = IF Len(variables) = 1 THEN 1 ELSE Len(variables) - 1
      /\ Len(directs') = IF Len(variables) = 1 THEN 1 ELSE Len(variables) - 1
      /\ \A k \in 1 .. Len(variables') :
           variables'[k] = variables[k] \/ DOMAIN variables'[k] = {}
  <2>1. /\ Chain(variables')
        /\ Len(variables) = 1 => variables' = NewTable
        /\ Len(variables') = IF Len(variables) = 1 THEN 1 ELSE Len(variables) - 1
        /\ \A k \in 1 .. Len(variables') :
             variables'[k] = variables[k] \/ DOMAIN variables'[k] = {}
    BY <1>1, PopFacts
  <2>2. /\ Chain(directs')
        /\ Len(directs) = 1 => directs' = NewTable
        /\ Len(directs') = IF Len(directs) = 1 THEN 1 ELSE Len(directs) - 1
    BY <1>1, PopFacts
  <2>3. QED
    BY <1>1, <2>1, <2>2
<1>3. ASSUME NEW k \in 1 .. Len(variables'), NEW n \in DOMAIN variables'[k]
      PROVE  variables'[k][n] \in VariableCodes
  <2>1. k \in 1 .. Len(variables)
    BY <1>1, <1>2
  <2>2. variables'[k] = variables[k]
    BY <1>2, <1>3
  <2>3. QED
    BY <1>3, <2>1, <2>2 DEF Good, Contents
<1>4. QED
  BY <1>1, <1>2, <1>3

(* A unit that has ended, whatever became of its name.                     *)
LEMMA Ended ==
  ASSUME Good, PopScopes, UNCHANGED <<list, errors>>, unit' = Outside, list = {},
         unit.place \notin ResourcePlaces,
         Chain(library'), Len(library') = 1,
         \A m \in DOMAIN library'[1] : library'[1][m] \in LibraryCodes,
         status' \in {status, "nameless", "insert"}
  PROVE  Good'
<1>1. Tables' /\ Contents'
  BY Popping DEF Tables, Contents
<1>2. Scalars' /\ PlaceFits'
  BY OutsideFacts DEF Good, Scalars, PlaceFits, ConfPlaces, ResourcePlaces
<1>3. NameFree' /\ OwnName' /\ Listed' /\ ResourceFree'
  BY OutsideFacts DEF NameFree, OwnName, Listed, ResourceFree, CodeOf, ResourcePlaces
<1>4. Clean'
  <2> SUFFICES ASSUME status' = "running", ~ errors'
               PROVE  variables' = NewTable /\ directs' = NewTable
    BY OutsideFacts, NewFacts DEF Clean, Outermost, ResourcePlaces
  <2>1. Len(variables) = 1
    BY DEF Good, Clean
  <2>2. QED
    BY <2>1, Popping
<1>5. QED
  BY <1>1, <1>2, <1>3, <1>4 DEF Good

LEMMA NamedUnit ==
  ASSUME Good
  PROVE  unit.name \in Identifier \cup Operator \cup {Unnamed} /\ unit.resource \in Identifier \cup {Unnamed}
BY DEF Good, Scalars, Units

LEMMA EndFunctionGood ==
  ASSUME Good, EndFunction
  PROVE  Good'
<1>1. /\ unit.kind = "function" /\ unit.place = "body" /\ PopScopes
      /\ InsertLibrary(unit.name, "function") /\ unit' = Outside
      /\ UNCHANGED <<list, errors>>
  BY DEF EndFunction
<1>2. /\ Chain(library') /\ Len(library') = 1
      /\ \A m \in DOMAIN library'[1] : library'[1][m] \in LibraryCodes
      /\ status' \in {status, "nameless", "insert"}
  <2>1. "function" \in LibraryCodes
    BY DEF LibraryCodes, UnitCodes
  <2>2. QED
    BY <1>1, <2>1, NamedUnit, Entering DEF Good
<1>3. list = {} /\ unit.place \notin ResourcePlaces
  BY <1>1 DEF Good, Listed, InDeclarations, ResourcePlaces
<1>4. QED
  BY <1>1, <1>2, <1>3, Ended

LEMMA EndFunctionBlockGood ==
  ASSUME Good, EndFunctionBlock
  PROVE  Good'
<1>1. /\ unit.kind = "function block" /\ unit.place = "body" /\ PopScopes
      /\ InsertLibrary(unit.name, "fbtype") /\ unit' = Outside
      /\ UNCHANGED <<list, errors>>
  BY DEF EndFunctionBlock
<1>2. /\ Chain(library') /\ Len(library') = 1
      /\ \A m \in DOMAIN library'[1] : library'[1][m] \in LibraryCodes
      /\ status' \in {status, "nameless", "insert"}
  <2>1. "fbtype" \in LibraryCodes
    BY DEF LibraryCodes, UnitCodes
  <2>2. QED
    BY <1>1, <2>1, NamedUnit, Entering DEF Good
<1>3. list = {} /\ unit.place \notin ResourcePlaces
  BY <1>1 DEF Good, Listed, InDeclarations, ResourcePlaces
<1>4. QED
  BY <1>1, <1>2, <1>3, Ended

LEMMA EndConfigurationGood ==
  ASSUME Good, EndConfiguration
  PROVE  Good'
<1>1. /\ unit.place \in {"resources", "instances"} /\ PopScopes
      /\ InsertLibrary(unit.name, "configuration") /\ unit' = Outside
      /\ UNCHANGED <<list, errors>>
  BY DEF EndConfiguration
<1>2. /\ Chain(library') /\ Len(library') = 1
      /\ \A m \in DOMAIN library'[1] : library'[1][m] \in LibraryCodes
      /\ status' \in {status, "nameless", "insert"}
  <2>1. "configuration" \in LibraryCodes
    BY DEF LibraryCodes, UnitCodes
  <2>2. QED
    BY <1>1, <2>1, NamedUnit, Entering DEF Good
<1>3. list = {} /\ unit.place \notin ResourcePlaces
  BY <1>1 DEF Good, Listed, InDeclarations, ResourcePlaces
<1>4. QED
  BY <1>1, <1>2, <1>3, Ended

LEMMA EndProgramGood ==
  ASSUME Good, EndProgram
  PROVE  Good'
<1>1. /\ unit.place = "body" /\ PopScopes /\ unit' = Outside
      /\ UNCHANGED <<library, list, errors, status>>
  BY DEF EndProgram
<1>2. /\ Chain(library') /\ Len(library') = 1
      /\ \A m \in DOMAIN library'[1] : library'[1][m] \in LibraryCodes
  BY <1>1 DEF Good, Tables, Contents
<1>3. list = {} /\ unit.place \notin ResourcePlaces
  BY <1>1 DEF Good, Listed, InDeclarations, ResourcePlaces
<1>4. QED
  BY <1>1, <1>2, <1>3, Ended

LEMMA EndSingleResourceGood ==
  ASSUME Good, EndSingleResource
  PROVE  Good'
<1>1. /\ unit.place = "programs" /\ PopScopes
      /\ unit' = [unit EXCEPT !.place = "instances"]
      /\ UNCHANGED <<library, list, errors, status>>
  BY DEF EndSingleResource
<1>2. /\ unit' \in Units /\ unit'.kind = unit.kind /\ unit'.name = unit.name
      /\ unit'.place = "instances" /\ unit'.resource = unit.resource
  BY <1>1, Moved DEF ConfPlaces, Good, Scalars
<1>3. unit.kind = "configuration" /\ list = {} /\ unit.place \notin ResourcePlaces
  BY <1>1 DEF Good, PlaceFits, ConfPlaces, Listed, InDeclarations, ResourcePlaces
<1>4. Tables' /\ Contents'
  BY <1>1, Popping DEF Good, Tables, Contents
<1>5. Scalars' /\ PlaceFits'
  BY <1>1, <1>2, <1>3 DEF Good, Scalars, PlaceFits, ConfPlaces, ResourcePlaces
<1>6. NameFree'
  BY <1>1, <1>2, Zenon DEF Good, NameFree
<1>7. OwnName' /\ Listed' /\ ResourceFree'
  BY <1>1, <1>2, <1>3 DEF OwnName, Listed, ResourceFree, ResourcePlaces
<1>8. Clean'
  <2> SUFFICES ASSUME status' = "running", ~ errors'
               PROVE  variables' = NewTable /\ directs' = NewTable
    BY <1>2, NewFacts DEF Clean, Outermost, ResourcePlaces
  <2>1. Len(variables) = 1
    BY <1>1, <1>3 DEF Good, Clean
  <2>2. QED
    BY <1>1, <2>1, Popping
<1>9. QED
  BY <1>4, <1>5, <1>6, <1>7, <1>8 DEF Good

-----------------------------------------------------------------------------
(* The declarations.  A name that has no token yet is in no scope, and so  *)
(* neither in the list nor the name of the open function.                  *)
LEMMA NewName ==
  ASSUME Good, NEW n \in Identifier, NEW c \in VariableCodes, Token(n) = "identifier",
         InsertVariable(n, c, "insert"), UNCHANGED <<directs, library>>
  PROVE  /\ Tables' /\ Contents' /\ InnerKept /\ UNCHANGED status
         /\ n \in DOMAIN Innermost(variables')
         /\ unit.kind = "function" => n # unit.name
         /\ \A m \in DOMAIN variables'[1] :
              \/ variables'[1][m] = c
              \/ m \in DOMAIN variables[1] /\ variables'[1][m] = variables[1][m]
<1>1. Fresh(n)
  BY TokenFacts DEF Good
<1>2. /\ variables' = Insert(variables, n, c) /\ status' = status
      /\ CanInsert(variables, n, c) /\ n \notin DOMAIN Innermost(variables)
  BY <1>1, FreshInsert DEF Good
<1>3. /\ Tables' /\ Contents' /\ InnerKept
      /\ DOMAIN Innermost(variables') = DOMAIN Innermost(variables) \cup {n}
      /\ \A m \in DOMAIN variables'[1] :
           \/ variables'[1][m] = c
           \/ m \in DOMAIN variables[1] /\ variables'[1][m] = variables[1][m]
  BY <1>2, Declaring DEF Good
<1>4. unit.kind = "function" => n # unit.name
  BY <1>2, PouAssumption DEF Good, OwnName
<1>5. QED
  BY <1>2, <1>3, <1>4

(* What a declaration does not touch: the function's name, the list and    *)
(* the scope around a resource.                                            *)
LEMMA StillOpen ==
  ASSUME Good, InnerKept, Chain(variables'),
         unit'.kind = unit.kind, unit'.name = unit.name, unit'.resource = unit.resource,
         unit'.place \in ResourcePlaces => unit.place \in ResourcePlaces,
         UNCHANGED library
  PROVE  /\ NameFree' /\ ResourceFree'
         /\ UNCHANGED list => OwnName'
         /\ list \ {Unnamed} \subseteq DOMAIN Innermost(variables')
<1>1. NameFree'
  BY Zenon DEF Good, NameFree
<1>2. ResourceFree'
  <2> SUFFICES ASSUME unit'.place \in ResourcePlaces, unit'.resource # Unnamed
               PROVE  /\ Len(variables') > 1
                      /\ unit'.resource \notin DOMAIN variables'[Len(variables') - 1]
    BY Zenon DEF ResourceFree
  <2>1. /\ Len(variables) > 1 /\ unit.resource \notin DOMAIN variables[Len(variables) - 1]
        /\ Len(variables) \in Nat
    BY ChainFacts DEF Good, Tables, ResourceFree
  <2>2. /\ Len(variables') = Len(variables)
        /\ \A k \in 1 .. Len(variables) - 1 : variables'[k] = variables[k]
    BY DEF InnerKept
  <2>3. Len(variables) - 1 \in 1 .. Len(variables) - 1
    BY <2>1
  <2>4. variables'[Len(variables) - 1] = variables[Len(variables) - 1]
    BY <2>2, <2>3, Zenon
  <2>5. QED
    BY <2>1, <2>2, <2>4
<1>3. UNCHANGED list => OwnName'
  BY DEF Good, OwnName, InnerKept
<1>4. list \ {Unnamed} \subseteq DOMAIN Innermost(variables')
  BY DEF Good, Listed, InnerKept
<1>5. QED
  BY <1>1, <1>2, <1>3, <1>4

LEMMA InHeader ==
  ASSUME Good, InDeclarations, DeclarationSeen
  PROVE  /\ unit' \in Units /\ unit'.kind = unit.kind /\ unit'.name = unit.name
         /\ unit'.place = "declarations" /\ unit'.resource = unit.resource
         /\ unit.place \in {"header", "declarations"}
         /\ PlaceFits' /\ InDeclarations'
         /\ unit'.place \notin {"globals", "resources"} \cup ResourcePlaces
<1>1. /\ unit' \in Units /\ unit'.kind = unit.kind /\ unit'.name = unit.name
      /\ unit'.place = "declarations" /\ unit'.resource = unit.resource
  BY Moved DEF PouPlaces, DeclarationSeen, Good, Scalars
<1>2. unit.place \in {"header", "declarations"}
  BY DEF InDeclarations
<1>3. PlaceFits' /\ InDeclarations'
      /\ unit'.place \notin {"globals", "resources"} \cup ResourcePlaces
  BY <1>1, <1>2 DEF Good, PlaceFits, ConfPlaces, ResourcePlaces, InDeclarations
<1>4. QED
  BY <1>1, <1>2, <1>3

(* A declaration of a POU leaves nothing that a resource could see.        *)
LEMMA CleanHeader ==
  ASSUME Good, InDeclarations, DeclarationSeen, InnerKept, status = "running",
         errors \in BOOLEAN, errors => errors', errors' \in BOOLEAN
  PROVE  Clean'
<1>1. /\ unit'.place = "declarations" /\ unit.place \in {"header", "declarations"}
  BY InHeader
<1>2. Len(variables') = Len(variables)
  BY DEF InnerKept
<1>3. QED
  BY <1>1, <1>2 DEF Good, Clean, Outermost, ResourcePlaces

LEMMA DeclareVariableGood ==
  ASSUME Good, NEW n \in Identifier, DeclareVariable(n)
  PROVE  Good'
<1>1. /\ InDeclarations /\ Token(n) = "identifier" /\ InsertVariable(n, "variable", "insert")
      /\ list' = list \cup {n} /\ DeclarationSeen /\ UNCHANGED <<directs, library, errors>>
      /\ status = "running"
  BY DEF DeclareVariable, Running
<1>2. "variable" \in VariableCodes
  BY DEF VariableCodes
<1>3. /\ Tables' /\ Contents' /\ InnerKept /\ UNCHANGED status
      /\ n \in DOMAIN Innermost(variables')
      /\ unit.kind = "function" => n # unit.name
  BY <1>1, <1>2, NewName
<1>4. /\ unit' \in Units /\ unit'.kind = unit.kind /\ unit'.name = unit.name
      /\ unit'.place = "declarations" /\ unit'.resource = unit.resource
      /\ PlaceFits' /\ InDeclarations'
      /\ unit'.place \notin {"globals", "resources"} \cup ResourcePlaces
  BY <1>1, InHeader
<1>5. /\ NameFree' /\ ResourceFree' /\ list \ {Unnamed} \subseteq DOMAIN Innermost(variables')
  BY <1>1, <1>3, <1>4, StillOpen DEF Tables
<1>6. Scalars'
  BY <1>1, <1>3, <1>4 DEF Good, Scalars
<1>7. OwnName'
  BY <1>1, <1>3, <1>4 DEF Good, OwnName, InnerKept
<1>8. Listed'
  BY <1>1, <1>3, <1>4, <1>5 DEF Listed
<1>9. Clean'
  BY <1>1, <1>3, CleanHeader DEF Good, Scalars
<1>10. QED
  BY <1>3, <1>4, <1>5, <1>6, <1>7, <1>8, <1>9 DEF Good

LEMMA DeclareExtensibleGood ==
  ASSUME Good, NEW n \in Identifier, DeclareExtensible(n)
  PROVE  Good'
<1>1. /\ InDeclarations /\ Token(n) = "identifier" /\ InsertVariable(n, "variable", "insert")
      /\ list' = list \cup {Unnamed} /\ DeclarationSeen /\ UNCHANGED <<directs, library>>
      /\ errors' = TRUE
  BY DEF DeclareExtensible
<1>2. "variable" \in VariableCodes
  BY DEF VariableCodes
<1>3. /\ Tables' /\ Contents' /\ InnerKept /\ UNCHANGED status
  BY <1>1, <1>2, NewName
<1>4. /\ unit' \in Units /\ unit'.kind = unit.kind /\ unit'.name = unit.name
      /\ unit'.place = "declarations" /\ unit'.resource = unit.resource
      /\ PlaceFits' /\ InDeclarations'
      /\ unit'.place \notin {"globals", "resources"} \cup ResourcePlaces
  BY <1>1, InHeader
<1>5. /\ NameFree' /\ ResourceFree' /\ list \ {Unnamed} \subseteq DOMAIN Innermost(variables')
  BY <1>1, <1>3, <1>4, StillOpen DEF Tables
<1>6. Scalars'
  BY <1>1, <1>3, <1>4 DEF Good, Scalars
<1>7. OwnName'
  BY <1>1, <1>3, <1>4, PouAssumption DEF Good, OwnName, InnerKept, Names
<1>8. Listed'
  BY <1>1, <1>3, <1>4, <1>5 DEF Listed
<1>9. Clean'
  BY <1>1 DEF Clean
<1>10. QED
  BY <1>3, <1>4, <1>5, <1>6, <1>7, <1>8, <1>9 DEF Good

LEMMA DeclareExternalGood ==
  ASSUME Good, NEW n \in Identifier, NEW code \in {"variable", "fb"},
         DeclareExternal(n, code)
  PROVE  Good'
<1>1. /\ InDeclarations /\ InsertVariable(n, code, "insert") /\ list = {}
      /\ DeclarationSeen /\ UNCHANGED <<directs, library, list>>
      /\ errors' \in {errors, TRUE} /\ status = "running"
  BY DEF DeclareExternal, Undeclared, ReadsAhead, Good, Scalars
<1>2. code \in VariableCodes
  BY DEF VariableCodes
<1>3. Tables' /\ Contents' /\ InnerKept /\ status' \in {status, "insert"}
  BY <1>1, <1>2, DeclaredOrRefused DEF Good
<1>4. /\ unit' \in Units /\ unit'.kind = unit.kind /\ unit'.name = unit.name
      /\ unit'.place = "declarations" /\ unit'.resource = unit.resource
      /\ PlaceFits' /\ InDeclarations'
      /\ unit'.place \notin {"globals", "resources"} \cup ResourcePlaces
  BY <1>1, InHeader
<1>5. /\ NameFree' /\ ResourceFree' /\ OwnName'
      /\ list \ {Unnamed} \subseteq DOMAIN Innermost(variables')
  BY <1>1, <1>3, <1>4, StillOpen DEF Tables
<1>6. errors \in BOOLEAN /\ errors' \in BOOLEAN /\ (errors => errors')
  <2>1. errors \in BOOLEAN
    BY DEF Good, Scalars
  <2>2. errors => errors'
    BY <1>1, Zenon
  <2>3. errors' \in BOOLEAN
    BY <1>1, <2>1
  <2>4. QED
    BY <2>1, <2>2, <2>3
<1>7. Scalars'
  BY <1>1, <1>3, <1>4, <1>6 DEF Good, Scalars
<1>8. Listed'
  BY <1>1, <1>4, <1>5 DEF Listed
<1>9. Clean'
  BY <1>1, <1>3, <1>6, CleanHeader
<1>10. QED
  BY <1>3, <1>4, <1>5, <1>7, <1>8, <1>9 DEF Good

LEMMA DeclareGlobalGood ==
  ASSUME Good, NEW n \in Identifier, DeclareGlobal(n)
  PROVE  Good'
<1>1. /\ Token(n) = "identifier" /\ InsertVariable(n, "global", "insert")
      /\ UNCHANGED <<directs, library, list>>
      /\ \/ InDeclarations /\ list = {} /\ DeclarationSeen /\ errors' = TRUE
         \/ unit.place \in {"globals", "resource"} /\ UNCHANGED <<unit, errors>>
  BY DEF DeclareGlobal
<1>2. "global" \in VariableCodes
  BY DEF VariableCodes
<1>3. /\ Tables' /\ Contents' /\ InnerKept /\ UNCHANGED status
      /\ \A m \in DOMAIN variables'[1] :
           \/ variables'[1][m] = "global"
           \/ m \in DOMAIN variables[1] /\ variables'[1][m] = variables[1][m]
  BY <1>1, <1>2, NewName
<1>4. CASE InDeclarations /\ list = {} /\ DeclarationSeen /\ errors' = TRUE
  <2>1. /\ unit' \in Units /\ unit'.kind = unit.kind /\ unit'.name = unit.name
        /\ unit'.place = "declarations" /\ unit'.resource = unit.resource
        /\ PlaceFits' /\ InDeclarations'
        /\ unit'.place \notin {"globals", "resources"} \cup ResourcePlaces
    BY <1>4, InHeader
  <2>2. /\ NameFree' /\ ResourceFree' /\ OwnName'
        /\ list \ {Unnamed} \subseteq DOMAIN Innermost(variables')
    BY <1>1, <1>3, <2>1, StillOpen DEF Tables
  <2>3. Scalars' /\ Listed'
    BY <1>1, <1>3, <1>4, <2>1, <2>2 DEF Good, Scalars, Listed
  <2>4. Clean'
    BY <1>4 DEF Clean
  <2>5. QED
    BY <1>3, <2>1, <2>2, <2>3, <2>4 DEF Good
<1>5. CASE unit.place \in {"globals", "resource"} /\ UNCHANGED <<unit, errors>>
  <2>1. /\ NameFree' /\ ResourceFree' /\ OwnName'
        /\ list \ {Unnamed} \subseteq DOMAIN Innermost(variables')
    BY <1>1, <1>3, <1>5, StillOpen DEF Tables
  <2>2. Scalars' /\ PlaceFits'
    BY <1>1, <1>3, <1>5 DEF Good, Scalars, PlaceFits
  <2>3. Listed'
    BY <1>1, <1>5, <2>1 DEF Good, Listed, InDeclarations
  <2>4. Clean'
    <3> SUFFICES ASSUME status = "running", ~ errors PROVE Clean'
      BY <1>3, <1>5 DEF Clean
    <3>1. /\ Len(variables') = IF unit'.place \in ResourcePlaces THEN 2 ELSE 1
          /\ unit'.place \notin {"none", "instances"}
      BY <1>3, <1>5 DEF Good, Clean, InnerKept
    <3>2. \A m \in DOMAIN variables'[1] : variables'[1][m] \in {"global", "resource"}
      BY <1>3, <1>5 DEF Good, Clean, Outermost, ResourcePlaces
    <3>3. QED
      BY <3>1, <3>2 DEF Clean, Outermost
  <2>5. QED
    BY <1>3, <2>1, <2>2, <2>3, <2>4 DEF Good
<1>6. QED
  BY <1>1, <1>4, <1>5

LEMMA InnerOfTwo == \A l : l = 2 => 1 \in 1 .. l - 1
OBVIOUS

LEMMA DeclareProgramGood ==
  ASSUME Good, NEW n \in Identifier, DeclareProgram(n)
  PROVE  Good'
<1>1. /\ Token(n) = "identifier" /\ InsertVariable(n, "program", "insert")
      /\ UNCHANGED <<directs, library, list, errors>>
  BY DEF DeclareProgram
<1>2. \E p \in {"programs", "resource programs"} :
        /\ unit' = [unit EXCEPT !.place = p]
        /\ p = "programs" <=> unit.place \in {"globals", "programs"}
        /\ p = "resource programs" <=> unit.place \in ResourcePlaces
  BY DEF DeclareProgram, ResourcePlaces
<1>3. PICK p \in {"programs", "resource programs"} :
        /\ unit' = [unit EXCEPT !.place = p]
        /\ p = "programs" <=> unit.place \in {"globals", "programs"}
        /\ p = "resource programs" <=> unit.place \in ResourcePlaces
  BY <1>2
<1>4. "program" \in VariableCodes
  BY DEF VariableCodes
<1>5. /\ Tables' /\ Contents' /\ InnerKept /\ UNCHANGED status
  BY <1>1, <1>4, NewName
<1>6. /\ unit' \in Units /\ unit'.kind = unit.kind /\ unit'.name = unit.name
      /\ unit'.place = p /\ unit'.resource = unit.resource
  BY <1>3, Moved DEF ConfPlaces, ResourcePlaces, Good, Scalars
<1>7. unit.kind = "configuration" /\ list = {}
  BY <1>3 DEF Good, PlaceFits, ConfPlaces, ResourcePlaces, Listed, InDeclarations
<1>8. unit'.place \in ResourcePlaces <=> unit.place \in ResourcePlaces
  BY <1>3, <1>6 DEF ResourcePlaces
<1>9. /\ NameFree' /\ ResourceFree' /\ OwnName'
      /\ list \ {Unnamed} \subseteq DOMAIN Innermost(variables')
  BY <1>1, <1>5, <1>6, <1>8, StillOpen DEF Tables
<1>10. Scalars' /\ PlaceFits' /\ Listed'
  BY <1>1, <1>5, <1>6, <1>7, <1>9 DEF Good, Scalars, PlaceFits, ConfPlaces, ResourcePlaces, Listed
<1>11. Clean'
  <2> SUFFICES ASSUME status = "running", ~ errors PROVE Clean'
    BY <1>1, <1>5 DEF Clean
  <2>1. Len(variables) = IF unit.place \in ResourcePlaces THEN 2 ELSE 1
    BY DEF Good, Clean
  <2>2. /\ Len(variables') = IF unit'.place \in ResourcePlaces THEN 2 ELSE 1
        /\ unit'.place \notin {"none", "instances"}
    BY <1>5, <1>6, <1>8, <2>1 DEF InnerKept
  <2>3. unit'.place \in {"globals", "resources"} \cup ResourcePlaces =>
          unit.place \in ResourcePlaces
    BY <1>6, <1>8
  <2>4. unit.place \in ResourcePlaces => variables'[1] = variables[1]
    <3>1. \A k \in 1 .. Len(variables) - 1 : variables'[k] = variables[k]
      BY <1>5 DEF InnerKept
    <3>2. ASSUME unit.place \in ResourcePlaces PROVE 1 \in 1 .. Len(variables) - 1
      <4>1. Len(variables) = 2
        BY <2>1, <3>2
      <4>2. QED
        BY <4>1, InnerOfTwo, Zenon
    <3>3. QED
      BY <3>1, <3>2, Zenon
  <2>5. Outermost'
    BY <2>3, <2>4 DEF Good, Clean, Outermost
  <2>6. QED
    BY <2>2, <2>5 DEF Clean
<1>12. QED
  BY <1>5, <1>9, <1>10, <1>11 DEF Good

(* A step may have the name of anything.                                   *)
LEMMA DeclareStepGood ==
  ASSUME Good, NEW n \in Identifier, DeclareStep(n)
  PROVE  Good'
<1>1. /\ unit.place = "body" /\ unit.kind # "function"
      /\ InsertVariable(n, "variable", "step")
      /\ UNCHANGED <<directs, library, unit, list, errors>>
  BY DEF DeclareStep
<1>2. CASE CanInsert(variables, n, "variable")
  <2>1. "variable" \in VariableCodes
    BY DEF VariableCodes
  <2>2. variables' = Insert(variables, n, "variable") /\ UNCHANGED status
    BY <1>1, <1>2 DEF InsertVariable
  <2>3. Tables' /\ Contents' /\ InnerKept
    BY <1>1, <1>2, <2>1, <2>2, Declaring DEF Good
  <2>4. /\ NameFree' /\ ResourceFree' /\ OwnName'
        /\ list \ {Unnamed} \subseteq DOMAIN Innermost(variables')
    BY <1>1, <2>3, StillOpen DEF Tables
  <2>5. Scalars' /\ PlaceFits' /\ Listed'
    BY <1>1, <2>2, <2>4 DEF Good, Scalars, PlaceFits, Listed, InDeclarations
  <2>6. Clean'
    BY <1>1, <2>2, <2>3 DEF Good, Clean, Outermost, ResourcePlaces, InnerKept
  <2>7. QED
    BY <2>3, <2>4, <2>5, <2>6 DEF Good
<1>3. CASE ~ CanInsert(variables, n, "variable")
  <2>1. UNCHANGED <<variables, directs, library, unit, list, errors>> /\ status' = "step"
    BY <1>1, <1>3 DEF InsertVariable
  <2>2. Tables' /\ Contents'
    BY <2>1, SameTables DEF Good
  <2>3. Scalars' /\ PlaceFits' /\ NameFree' /\ OwnName' /\ Listed' /\ ResourceFree'
    BY <2>1 DEF Good, Scalars, PlaceFits, NameFree, OwnName, Listed, InDeclarations, ResourceFree
  <2>4. Clean'
    BY <2>1 DEF Clean
  <2>5. QED
    BY <2>2, <2>3, <2>4 DEF Good
<1>4. QED
  BY <1>2, <1>3

(* The name of a function is the first variable of its scope.              *)
LEMMA BeginFunctionGood ==
  ASSUME Good, NEW n \in Identifier, BeginFunction(n)
  PROVE  Good'
<1>1. /\ unit = Outside /\ Token(n) \in {"identifier", "function"}
      /\ InsertVariable(n, "variable", "insert") /\ unit' = Open("function", n, "header")
      /\ UNCHANGED <<directs, library, list, errors>>
  BY DEF BeginFunction
<1>2. "variable" \in VariableCodes
  BY DEF VariableCodes
<1>3. Fresh(n)
  BY <1>1, TokenFacts DEF Good, LibraryCodes, UnitCodes
<1>4. /\ variables' = Insert(variables, n, "variable") /\ status' = status
      /\ CanInsert(variables, n, "variable")
  BY <1>1, <1>3, FreshInsert DEF Good
<1>5. /\ Tables' /\ Contents' /\ InnerKept
      /\ DOMAIN Innermost(variables') = DOMAIN Innermost(variables) \cup {n}
      /\ Innermost(variables')[n] = "variable"
  BY <1>1, <1>2, <1>4, Declaring DEF Good
<1>6. /\ unit' \in Units /\ unit'.kind = "function" /\ unit'.name = n
      /\ unit'.place = "header" /\ unit'.resource = Unnamed
  <2>1. /\ "function" \in Kinds /\ "header" \in PouPlaces \cup ConfPlaces
        /\ n \in Identifier \cup Operator \cup {Unnamed}
    BY DEF Kinds, PouPlaces, ConfPlaces
  <2>2. QED
    BY <1>1, <2>1, Reopened
<1>7. list = {}
  BY <1>1, NoList
<1>8. Scalars' /\ PlaceFits'
  BY <1>1, <1>4, <1>6 DEF Good, Scalars, PlaceFits, ConfPlaces, ResourcePlaces
<1>9. NameFree'
  <2>1. n \in DOMAIN library[1] => library[1][n] = "function"
    BY <1>1, <1>3, TokenFacts DEF Good
  <2>2. QED
    BY <1>1, <1>6, <2>1 DEF NameFree, CodeOf
<1>10. OwnName' /\ Listed' /\ ResourceFree'
  BY <1>1, <1>5, <1>6, <1>7 DEF OwnName, Listed, ResourceFree, ResourcePlaces
<1>11. Clean'
  <2> SUFFICES ASSUME status = "running", ~ errors PROVE Clean'
    BY <1>1, <1>4 DEF Clean
  <2>1. Len(variables) = 1
    BY <1>1, OutsideFacts, NewFacts DEF Good, Clean
  <2>2. QED
    BY <1>5, <1>6, <2>1 DEF InnerKept, Clean, Outermost, ResourcePlaces
<1>12. QED
  BY <1>5, <1>8, <1>9, <1>10, <1>11 DEF Good

LEMMA BeginOperatorFunctionGood ==
  ASSUME Good, NEW op \in Operator, BeginOperatorFunction(op)
  PROVE  Good'
<1>1. /\ unit = Outside /\ InsertVariable(op, "variable", "insert")
      /\ unit' = Open("function", op, "header") /\ errors' = TRUE
      /\ UNCHANGED <<directs, library, list>>
  BY DEF BeginOperatorFunction
<1>2. "variable" \in VariableCodes
  BY DEF VariableCodes
<1>3. Tables' /\ Contents' /\ InnerKept /\ status' \in {status, "insert"}
  BY <1>1, <1>2, DeclaredOrRefused DEF Good
<1>4. /\ unit' \in Units /\ unit'.kind = "function" /\ unit'.name = op
      /\ unit'.place = "header" /\ unit'.resource = Unnamed
  <2>1. /\ "function" \in Kinds /\ "header" \in PouPlaces \cup ConfPlaces
        /\ op \in Identifier \cup Operator \cup {Unnamed}
    BY DEF Kinds, PouPlaces, ConfPlaces
  <2>2. QED
    BY <1>1, <2>1, Reopened
<1>5. list = {} /\ op \notin Identifier
  BY <1>1, NoList, PouAssumption
<1>6. Scalars' /\ PlaceFits'
  BY <1>1, <1>3, <1>4 DEF Good, Scalars, PlaceFits, ConfPlaces, ResourcePlaces
<1>7. NameFree' /\ OwnName' /\ Listed' /\ ResourceFree'
  BY <1>1, <1>4, <1>5 DEF NameFree, OwnName, Listed, ResourceFree, ResourcePlaces
<1>8. Clean'
  BY <1>1 DEF Clean
<1>9. QED
  BY <1>3, <1>6, <1>7, <1>8 DEF Good

-----------------------------------------------------------------------------
(* Resources: a scope is opened for one, and its name is left outside.     *)
LEMMA Pushing ==
  ASSUME Good, NEW v, v = Push(variables), directs' = Push(directs)
  PROVE  /\ Chain(v) /\ Chain(directs') /\ Len(v) = Len(variables) + 1
         /\ Len(directs') = Len(v)
         /\ \A k \in 1 .. Len(variables) : v[k] = variables[k]
         /\ DOMAIN v[Len(v)] = {}
         /\ \A k \in 1 .. Len(v) : \A n \in DOMAIN v[k] : v[k][n] \in VariableCodes
<1>1. /\ Chain(variables) /\ Chain(directs) /\ Len(directs) = Len(variables)
      /\ Len(variables) \in Nat \ {0}
  BY ChainFacts DEF Good, Tables
<1>2. /\ Chain(v) /\ Len(v) = Len(variables) + 1
      /\ \A k \in 1 .. Len(variables) : v[k] = variables[k]
      /\ DOMAIN v[Len(variables) + 1] = {}
  BY <1>1, PushFacts
<1>3. Chain(directs') /\ Len(directs') = Len(variables) + 1
  BY <1>1, PushFacts
<1>4. ASSUME NEW k \in 1 .. Len(v), NEW n \in DOMAIN v[k]
      PROVE  v[k][n] \in VariableCodes
  <2>1. k # Len(variables) + 1
    BY <1>2, <1>4
  <2>2. k \in 1 .. Len(variables)
    BY <1>1, <1>2, <2>1
  <2>3. v[k] = variables[k]
    BY <1>2, <2>2, Zenon
  <2>4. QED
    BY <1>4, <2>2, <2>3 DEF Good, Contents
<1>5. QED
  BY <1>1, <1>2, <1>3, <1>4

(* The scope around the one just opened is the one that was innermost.     *)
LEMMA Around ==
  ASSUME Good, Chain(variables'), Len(variables') = Len(variables) + 1,
         \A k \in 1 .. Len(variables) : variables'[k] = variables[k]
  PROVE  /\ Len(variables') > 1 /\ variables'[Len(variables') - 1] = Innermost(variables)
         /\ variables'[1] = variables[1]
<1>1. Len(variables) \in Nat \ {0} /\ Innermost(variables) = variables[Len(variables)]
  BY ChainFacts DEF Good, Tables
<1>2. /\ Len(variables) \in 1 .. Len(variables) /\ 1 \in 1 .. Len(variables)
      /\ Len(variables') - 1 = Len(variables) /\ Len(variables') > 1
  BY <1>1
<1>3. variables'[Len(variables)] = variables[Len(variables)] /\ variables'[1] = variables[1]
  BY <1>2, Zenon
<1>4. QED
  BY <1>1, <1>2, <1>3

LEMMA BeginNamelessResourceGood ==
  ASSUME Good, BeginNamelessResource
  PROVE  Good'
<1>1. /\ unit.place \in {"globals", "resources"} /\ PushScopes /\ errors' = TRUE
      /\ unit' = [unit EXCEPT !.place = "resource", !.resource = Unnamed]
      /\ UNCHANGED <<library, list, status>>
  BY DEF BeginNamelessResource
<1>2. /\ unit' \in Units /\ unit'.kind = unit.kind /\ unit'.name = unit.name
      /\ unit'.place = "resource" /\ unit'.resource = Unnamed
  BY <1>1, MovedResource DEF ResourcePlaces, Good, Scalars
<1>3. variables' = Push(variables) /\ directs' = Push(directs)
  BY <1>1 DEF PushScopes
<1>4. Tables' /\ Contents'
  BY <1>1, <1>3, Pushing DEF Good, Tables, Contents
<1>5. unit.kind = "configuration" /\ list = {}
  BY <1>1 DEF Good, PlaceFits, ConfPlaces, Listed, InDeclarations
<1>6. Scalars' /\ PlaceFits'
  BY <1>1, <1>2, <1>5 DEF Good, Scalars, PlaceFits, ConfPlaces, ResourcePlaces
<1>7. NameFree'
  BY <1>1, <1>2, Zenon DEF Good, NameFree
<1>8. OwnName' /\ Listed' /\ ResourceFree'
  BY <1>1, <1>2, <1>5 DEF OwnName, Listed, ResourceFree
<1>9. Clean'
  BY <1>1 DEF Clean
<1>10. QED
  BY <1>4, <1>6, <1>7, <1>8, <1>9 DEF Good

LEMMA BeginResourceGood ==
  ASSUME Good, NEW n \in Identifier, BeginResource(n)
  PROVE  Good'
<1>1. /\ unit.place \in {"globals", "resources"} /\ Token(n) = "identifier"
      /\ variables' = Insert(Push(variables), n, "resource") /\ directs' = Push(directs)
      /\ unit' = [unit EXCEPT !.place = "resource", !.resource = n]
      /\ UNCHANGED <<library, list, errors, status>>
  BY DEF BeginResource
<1>2. /\ unit' \in Units /\ unit'.kind = unit.kind /\ unit'.name = unit.name
      /\ unit'.place = "resource" /\ unit'.resource = n
  BY <1>1, MovedResource DEF ResourcePlaces, Good, Scalars
<1> DEFINE v == Push(variables)
           l == Len(variables)
<1>3. /\ Chain(v) /\ Chain(directs') /\ Len(v) = l + 1 /\ Len(directs') = Len(v)
      /\ \A k \in 1 .. l : v[k] = variables[k]
      /\ DOMAIN v[Len(v)] = {}
      /\ \A k \in 1 .. Len(v) : \A m \in DOMAIN v[k] : v[k][m] \in VariableCodes
  BY <1>1, Pushing
<1>4. Bound(v, variables', n, "resource")
  <2>1. n \in Names /\ "resource" \in Codes
    BY DEF Names, Codes, VariableCodes
  <2>2. QED
    BY <1>1, <1>3, <2>1, InsertBinds
<1>5. l \in Nat \ {0} /\ Innermost(variables) = variables[l]
  BY ChainFacts DEF Good, Tables
<1> HIDE DEF v, l
<1>6. /\ Chain(variables') /\ Len(variables') = l + 1
      /\ \A k \in 1 .. l : variables'[k] = variables[k]
      /\ DOMAIN variables'[l + 1] = {n} /\ variables'[l + 1][n] = "resource"
  <2>1. /\ Chain(variables') /\ Len(variables') = Len(v)
        /\ \A k \in 1 .. Len(v) - 1 : variables'[k] = v[k]
        /\ DOMAIN variables'[Len(v)] = DOMAIN v[Len(v)] \cup {n}
        /\ variables'[Len(v)][n] = "resource"
    BY <1>4, Zenon DEF Bound
  <2>2. 1 .. Len(v) - 1 = 1 .. l
    BY <1>3, <1>5
  <2>3. QED
    BY <1>3, <2>1, <2>2
<1>7. Tables' /\ Contents'
  <2>1. Tables'
    BY <1>1, <1>3, <1>6 DEF Good, Tables
  <2>2. ASSUME NEW k \in 1 .. l + 1, NEW m \in DOMAIN variables'[k]
        PROVE  variables'[k][m] \in VariableCodes
    <3>1. CASE k = l + 1
      BY <1>6, <2>2, <3>1 DEF VariableCodes
    <3>2. CASE k # l + 1
      <4>1. k \in 1 .. l
        BY <1>5, <3>2
      <4>2. variables'[k] = variables[k]
        BY <1>6, <4>1, Zenon
      <4>3. QED
        BY <2>2, <4>1, <4>2 DEF Good, Contents, l
    <3>3. QED
      BY <3>1, <3>2
  <2>3. QED
    BY <1>1, <1>6, <2>1, <2>2 DEF Good, Contents
<1>8. /\ Len(variables') > 1 /\ variables'[Len(variables') - 1] = Innermost(variables)
      /\ variables'[1] = variables[1]
  BY <1>6, Around DEF l
<1>9. unit.kind = "configuration" /\ list = {}
  BY <1>1 DEF Good, PlaceFits, ConfPlaces, Listed, InDeclarations
<1>10. Scalars' /\ PlaceFits'
  BY <1>1, <1>2, <1>9 DEF Good, Scalars, PlaceFits, ConfPlaces, ResourcePlaces
<1>11. NameFree'
  BY <1>1, <1>2, Zenon DEF Good, NameFree
<1>12. OwnName' /\ Listed'
  BY <1>1, <1>2, <1>9 DEF OwnName, Listed
<1>13. ResourceFree'
  <2>1. Fresh(n)
    BY <1>1, TokenFacts DEF Good
  <2>2. n \notin DOMAIN Innermost(variables)
    BY <1>5, <2>1 DEF Fresh, l
  <2>3. QED
    BY <1>2, <1>8, <2>2 DEF ResourceFree
<1>14. Clean'
  <2> SUFFICES ASSUME status = "running", ~ errors PROVE Clean'
    BY <1>1 DEF Clean
  <2>1. l = 1 /\ \A m \in DOMAIN variables[1] : variables[1][m] \in {"global", "resource"}
    BY <1>1 DEF Good, Clean, Outermost, ResourcePlaces, l
  <2>2. QED
    BY <1>2, <1>6, <1>8, <2>1 DEF Clean, Outermost, ResourcePlaces
<1>15. QED
  BY <1>7, <1>10, <1>11, <1>12, <1>13, <1>14 DEF Good

(* Its name is free there.                                                 *)
LEMMA Freed ==
  ASSUME Good, EndResource
  PROVE  status' = status
<1> DEFINE l == Len(variables)
           r == unit.resource
           o == Pop(variables)
<1>1. /\ CanInsert(o, r, "resource") => UNCHANGED status
      /\ unit.place = "resource programs" /\ r # Unnamed
  BY DEF EndResource
<1>2. l > 1 /\ r \notin DOMAIN variables[l - 1] /\ l \in Nat /\ Chain(variables)
  BY <1>1, ChainFacts DEF Good, Tables, ResourceFree, ResourcePlaces
<1> HIDE DEF l, r
<1>3. l # 1 /\ l - 1 \in 1 .. l - 1
  BY <1>2
<1>4. Chain(o) /\ Len(o) = l - 1 /\ o[l - 1] = variables[l - 1]
  BY <1>2, <1>3, PopFacts DEF l
<1>5. Innermost(o) = o[l - 1]
  BY <1>4, ChainFacts
<1>6. QED
  BY <1>1, <1>2, <1>4, <1>5 DEF CanInsert

LEMMA EndResourceGood ==
  ASSUME Good, EndResource
  PROVE  Good'
<1> DEFINE l == Len(variables)
           r == unit.resource
           o == Pop(variables)
<1>1. /\ unit.place = "resource programs" /\ r # Unnamed
      /\ CanInsert(o, r, "resource") =>
           variables' = Insert(o, r, "resource") /\ UNCHANGED status
      /\ directs' = Pop(directs)
      /\ unit' = [unit EXCEPT !.place = "resources", !.resource = Unnamed]
      /\ UNCHANGED <<library, list, errors>>
  BY DEF EndResource
<1>2. /\ unit' \in Units /\ unit'.kind = unit.kind /\ unit'.name = unit.name
      /\ unit'.place = "resources" /\ unit'.resource = Unnamed
  BY <1>1, MovedResource DEF ConfPlaces, Good, Scalars
<1>3. /\ l > 1 /\ r \notin DOMAIN variables[l - 1] /\ l \in Nat /\ r \in Identifier
  BY <1>1, ChainFacts, NamedUnit DEF Good, Tables, ResourceFree, ResourcePlaces
<1>4. l # 1 /\ l - 1 \in Nat \ {0}
  <2>1. l > 1 /\ l \in Nat
    BY <1>3
  <2> HIDE DEF l
  <2>2. QED
    BY <2>1
<1>5. /\ Chain(o) /\ Len(o) = l - 1 /\ \A k \in 1 .. l - 1 : o[k] = variables[k]
  <2>1. Chain(variables)
    BY DEF Good, Tables
  <2>2. QED
    BY <1>4, <2>1, PopFacts
<1>6. Chain(directs') /\ Len(directs') = l - 1
  <2>1. Chain(directs) /\ Len(directs) = l /\ l # 1
    BY <1>4 DEF Good, Tables
  <2>2. QED
    BY <1>1, <2>1, PopFacts
<1>7. Innermost(o) = o[l - 1] /\ l - 1 \in 1 .. l - 1
  <2>1. l - 1 \in 1 .. l - 1
    BY <1>3
  <2>2. QED
    BY <1>5, <2>1, ChainFacts
<1>8. r \notin DOMAIN Innermost(o)
  BY <1>3, <1>5, <1>7
<1>9. variables' = Insert(o, r, "resource") /\ UNCHANGED status
  BY <1>1, <1>8 DEF CanInsert
<1>10. Bound(o, variables', r, "resource")
  <2>1. r \in Names /\ "resource" \in Codes
    BY <1>3 DEF Names, Codes, VariableCodes
  <2> HIDE DEF o, r
  <2>2. QED
    BY <1>5, <1>9, <2>1, InsertBinds
<1> HIDE DEF l, o, r
<1>11. /\ Chain(variables') /\ Len(variables') = l - 1
       /\ \A k \in 1 .. l - 1 - 1 : variables'[k] = variables[k]
       /\ DOMAIN variables'[l - 1] = DOMAIN variables[l - 1] \cup {r}
       /\ variables'[l - 1][r] = "resource"
       /\ \A m \in DOMAIN variables[l - 1] \ {r} : variables'[l - 1][m] = variables[l - 1][m]
  <2>1. /\ Chain(variables') /\ Len(variables') = Len(o)
        /\ \A k \in 1 .. Len(o) - 1 : variables'[k] = o[k]
        /\ DOMAIN variables'[Len(o)] = DOMAIN o[Len(o)] \cup {r}
        /\ variables'[Len(o)][r] = "resource"
        /\ \A m \in DOMAIN o[Len(o)] \ {r} : variables'[Len(o)][m] = o[Len(o)][m]
    BY <1>10, Zenon DEF Bound
  <2>2. Len(o) = l - 1 /\ o[l - 1] = variables[l - 1]
    BY <1>5, <1>7
  <2>3. \A k \in 1 .. l - 1 - 1 : k \in 1 .. l - 1
    BY <1>4
  <2>4. QED
    BY <1>5, <2>1, <2>2, <2>3
<1>12. ASSUME NEW k \in 1 .. l - 1, NEW m \in DOMAIN variables'[k]
       PROVE  \/ variables'[k][m] = "resource"
              \/ m \in DOMAIN variables[k] /\ variables'[k][m] = variables[k][m]
  <2>1. CASE k = l - 1
    BY <1>11, <1>12, <2>1
  <2>2. CASE k # l - 1
    <3>1. k \in 1 .. l - 1 - 1
      BY <1>4, <2>2
    <3>2. QED
      BY <1>11, <1>12, <3>1
  <2>3. QED
    BY <2>1, <2>2
<1>13. Tables' /\ Contents'
  <2>1. Tables'
    BY <1>1, <1>6, <1>11 DEF Good, Tables
  <2>2. ASSUME NEW k \in 1 .. l - 1, NEW m \in DOMAIN variables'[k]
        PROVE  variables'[k][m] \in VariableCodes
    <3>1. k \in 1 .. l
      BY <1>3
    <3>2. m \in DOMAIN variables[k] => variables[k][m] \in VariableCodes
      BY <3>1 DEF Good, Contents, l
    <3>3. QED
      BY <1>12, <2>2, <3>2 DEF VariableCodes
  <2>3. QED
    BY <1>1, <1>11, <2>1, <2>2 DEF Good, Contents
<1>14. unit.kind = "configuration" /\ list = {}
  BY <1>1 DEF Good, PlaceFits, ConfPlaces, ResourcePlaces, Listed, InDeclarations
<1>15. Scalars' /\ PlaceFits'
  BY <1>1, <1>2, <1>9, <1>14 DEF Good, Scalars, PlaceFits, ConfPlaces, ResourcePlaces
<1>16. NameFree'
  BY <1>1, <1>2, Zenon DEF Good, NameFree
<1>17. OwnName' /\ Listed' /\ ResourceFree'
  BY <1>1, <1>2, <1>14 DEF OwnName, Listed, ResourceFree
<1>18. Clean'
  <2> SUFFICES ASSUME status = "running", ~ errors PROVE Clean'
    BY <1>1, <1>9 DEF Clean
  <2>1. l = 2 /\ \A m \in DOMAIN variables[1] : variables[1][m] \in {"global", "resource"}
    BY <1>1 DEF Good, Clean, Outermost, ResourcePlaces, l
  <2>2. 1 \in 1 .. l - 1
    BY <2>1
  <2>3. \A m \in DOMAIN variables'[1] : variables'[1][m] \in {"global", "resource"}
    BY <1>12, <2>1, <2>2
  <2>4. QED
    BY <1>2, <1>11, <2>1, <2>3 DEF Clean, Outermost, ResourcePlaces
<1>19. QED
  BY <1>13, <1>15, <1>16, <1>17, <1>18 DEF Good

-----------------------------------------------------------------------------
(* A list that turns out to be one of function block instances: all its    *)
(* names are there to be changed.                                          *)
LEMMA ListOfInstancesGood ==
  ASSUME Good, ListOfInstances
  PROVE  Good'
<1>1. /\ list # {} /\ list' = {} /\ UNCHANGED <<directs, library, unit>>
      /\ errors' = errors \/ errors' = TRUE
  BY DEF ListOfInstances, Declared
<1>2. CASE Unnamed \in list
  <2>1. status' = "symbol" /\ UNCHANGED variables
    BY <1>2 DEF ListOfInstances
  <2>2. Tables' /\ Contents'
    BY <1>1, <2>1, SameTables DEF Good
  <2>3. Scalars' /\ PlaceFits' /\ NameFree' /\ OwnName' /\ Listed' /\ ResourceFree'
    BY <1>1, <2>1 DEF Good, Scalars, PlaceFits, NameFree, OwnName, Listed, ResourceFree
  <2>4. Clean'
    BY <2>1 DEF Clean
  <2>5. QED
    BY <2>2, <2>3, <2>4 DEF Good
<1>3. CASE Unnamed \notin list
  <2> DEFINE l == Len(variables)
             s == [m \in DOMAIN variables[l] |-> IF m \in list THEN "fb" ELSE variables[l][m]]
  <2>1. /\ Chain(variables) /\ variables \in Seq(Scope) /\ l \in Nat \ {0} /\ l \in 1 .. l
        /\ Innermost(variables) = variables[l] /\ variables[l] \in Scope
    BY ChainFacts DEF Good, Tables, Chain
  <2>2. \A n \in list : CanSet(variables, n)
    BY <1>3 DEF Good, Listed, CanSet
  <2>3. variables' = [variables EXCEPT ![l] = s] /\ UNCHANGED status
    BY <1>3, <2>2 DEF ListOfInstances
  <2>4. s \in Scope
    <3>1. DOMAIN variables[l] \in SUBSET Names
      BY <2>1, ScopeFacts
    <3>2. "fb" \in Codes
      BY DEF Codes, VariableCodes
    <3>3. s \in [DOMAIN variables[l] -> Codes]
      BY <2>1, <3>2, ScopeFacts
    <3>4. QED
      BY <3>1, <3>3, IsScope
  <2>5. DOMAIN s = DOMAIN variables[l]
        /\ \A m \in DOMAIN s : s[m] = IF m \in list THEN "fb" ELSE variables[l][m]
    OBVIOUS
  <2> HIDE DEF s
  <2>6. /\ variables' \in Seq(Scope) /\ Len(variables') = l
        /\ \A k \in 1 .. l : variables'[k] = IF k = l THEN s ELSE variables[k]
    BY <2>1, <2>3, <2>4, ExceptSeq
  <2>7. Chain(variables')
    BY <2>1, <2>6, EmptySeq DEF Chain
  <2>8. /\ Innermost(variables') = s /\ DOMAIN Innermost(variables') = DOMAIN Innermost(variables)
        /\ \A m \in DOMAIN Innermost(variables) \ list :
             Innermost(variables')[m] = Innermost(variables)[m]
    BY <2>1, <2>5, <2>6, <2>7, ChainFacts
  <2>9. Tables'
    BY <1>1, <2>6, <2>7 DEF Good, Tables
  <2>10. Contents'
    <3>1. ASSUME NEW k \in 1 .. l, NEW m \in DOMAIN variables'[k]
          PROVE  variables'[k][m] \in VariableCodes
      <4>1. CASE k = l
        <5>1. variables'[k] = s /\ m \in DOMAIN variables[l]
          BY <2>5, <2>6, <3>1, <4>1
        <5>2. variables[l][m] \in VariableCodes
          BY <2>1, <5>1 DEF Good, Contents
        <5>3. QED
          BY <2>5, <5>1, <5>2 DEF VariableCodes
      <4>2. CASE k # l
        BY <2>6, <3>1, <4>2 DEF Good, Contents
      <4>3. QED
        BY <4>1, <4>2
    <3>2. QED
      BY <1>1, <2>6, <3>1 DEF Good, Contents
  <2>11. unit.place \in {"header", "declarations"}
    BY <1>1 DEF Good, Listed, InDeclarations
  <2>12. Scalars' /\ PlaceFits'
    BY <1>1, <2>3 DEF Good, Scalars, PlaceFits
  <2>13. NameFree'
    BY <1>1, Zenon DEF Good, NameFree
  <2>14. OwnName' /\ Listed' /\ ResourceFree'
    BY <1>1, <2>8, <2>11 DEF Good, OwnName, Listed, ResourceFree, ResourcePlaces
  <2>15. Clean'
    <3> SUFFICES ASSUME status = "running", ~ errors PROVE Clean'
      BY <1>1, <2>3 DEF Clean
    <3>1. Len(variables) = 1
      BY <2>11 DEF Good, Clean, ResourcePlaces
    <3>2. Len(variables') = 1
      BY <2>6, <3>1
    <3>3. QED
      BY <1>1, <2>11, <3>2 DEF Clean, Outermost, ResourcePlaces
  <2>16. QED
    BY <2>9, <2>10, <2>12, <2>13, <2>14, <2>15 DEF Good
<1>4. QED
  BY <1>2, <1>3

-----------------------------------------------------------------------------
(* Every step keeps the invariant.                                         *)
LEMMA StepGood ==
  ASSUME Good, [Next]_vars
  PROVE  Good'
<1>1. ASSUME NEW n \in Identifier,
             \/ \E code \in TypeCodes : DeclareType(n, code)
             \/ BeginFunction(n) \/ BeginFunctionBlock(n)
             \/ BeginProgram(n) \/ BeginConfiguration(n)
      PROVE  Good'
  BY <1>1, DeclareTypeGood, BeginFunctionGood, BeginFunctionBlockGood, BeginProgramGood,
     BeginConfigurationGood
<1>2. ASSUME NEW n \in Identifier,
             \/ DeclareVariable(n) \/ DeclareExtensible(n)
             \/ \E code \in {"variable", "fb"} : DeclareExternal(n, code)
             \/ DeclareGlobal(n) \/ DeclareStep(n)
             \/ DeclareProgram(n) \/ BeginResource(n)
      PROVE  Good'
  BY <1>2, DeclareVariableGood, DeclareExtensibleGood, DeclareExternalGood,
     DeclareGlobalGood, DeclareStepGood, DeclareProgramGood, BeginResourceGood
<1>3. ASSUME NEW kind \in Kinds, BeginMisnamed(kind) PROVE Good'
  BY <1>3, BeginMisnamedGood
<1>4. ASSUME NEW op \in Operator, BeginOperatorFunction(op) PROVE Good'
  BY <1>4, BeginOperatorFunctionGood
<1>5. ASSUME NEW d \in Direct, Locate(d) PROVE Good'
  BY <1>5, LocateGood
<1>6. CASE BeginBody \/ ListOfInstances \/ ListOfVariables
  BY <1>6, BeginBodyGood, ListOfInstancesGood, ListOfVariablesGood
<1>7. CASE EndFunction \/ EndFunctionBlock \/ EndProgram
  BY <1>7, EndFunctionGood, EndFunctionBlockGood, EndProgramGood
<1>8. CASE EndSingleResource \/ EndConfiguration
  BY <1>8, EndSingleResourceGood, EndConfigurationGood
<1>9. CASE BeginNamelessResource \/ EndResource \/ EndErroneousResource
  BY <1>9, BeginNamelessResourceGood, EndResourceGood, EndErroneousResourceGood
<1>10. CASE EndErroneous \/ Mistake
  BY <1>10, EndErroneousGood, MistakeGood
<1>11. CASE UNCHANGED vars
  <2>1. UNCHANGED <<variables, directs, library, unit, list, errors, status>>
    BY <1>11 DEF vars
  <2>2. Tables' /\ Contents'
    BY <2>1, SameTables DEF Good
  <2>3. Scalars' /\ PlaceFits' /\ NameFree' /\ OwnName' /\ Listed' /\ ResourceFree'
    BY <2>1 DEF Good, Scalars, PlaceFits, NameFree, OwnName, Listed, InDeclarations, ResourceFree
  <2>4. Clean'
    BY <2>1 DEF Good, Clean, Outermost
  <2>5. QED
    BY <2>2, <2>3, <2>4 DEF Good
<1>12. QED
  BY <1>1, <1>2, <1>3, <1>4, <1>5, <1>6, <1>7, <1>8, <1>9, <1>10, <1>11 DEF Next

-----------------------------------------------------------------------------
(* Nobody is left untold.  A step that goes on with the look-ahead empty   *)
(* has to account for the three ways to an internal error.                 *)
LEMMA StillTold ==
  ASSUME Good, Told, Running, errors' \in {errors, TRUE},
         unit'.kind # "none" /\ unit'.name \notin Identifier =>
           errors' \/ (unit.kind # "none" /\ unit.name \notin Identifier),
         Unnamed \in list' => errors' \/ Unnamed \in list,
         status' # "running" => status' = "step" \/ errors'
  PROVE  Told'
<1>1. ahead' = Unnamed /\ (errors => errors')
  BY DEF Running, Good, Scalars
<1>2. QED
  BY <1>1 DEF Told, ToldBeforeEnding

(* The steps that begin a unit.                                            *)
LEMMA BeginTold ==
  ASSUME Good, Told, NEW n \in Identifier,
         \/ BeginFunction(n) \/ BeginFunctionBlock(n)
         \/ BeginProgram(n) \/ BeginConfiguration(n)
  PROVE  Told'
<1>1. PICK kind \in Kinds, place \in PouPlaces \cup ConfPlaces :
        unit' = Open(kind, n, place)
  BY DEF BeginFunction, BeginFunctionBlock, BeginProgram, BeginConfiguration, Kinds,
         PouPlaces, ConfPlaces
<1>2. unit'.name = n
  BY <1>1, Reopened
<1>3. Running /\ UNCHANGED <<list, errors>>
  BY DEF BeginFunction, BeginFunctionBlock, BeginProgram, BeginConfiguration
<1>4. status' = status
  <2>1. CASE BeginFunction(n)
    <3>1. Fresh(n)
      BY <2>1, TokenFacts DEF Good, LibraryCodes, UnitCodes, BeginFunction
    <3>2. QED
      BY <2>1, <3>1, FreshInsert DEF Good, BeginFunction
  <2>2. CASE BeginProgram(n)
    <3>1. CASE Token(n) = "identifier" /\ InsertLibrary(n, "progtype")
      BY <3>1, TokenFacts, Agreed DEF Good
    <3>2. QED
      BY <2>2, <3>1 DEF BeginProgram
  <2>3. QED
    BY <2>1, <2>2 DEF BeginFunctionBlock, BeginConfiguration
<1>5. QED
  BY <1>2, <1>3, <1>4, StillTold DEF Running

(* A declaration whose name has been read ahead may contradict that of the *)
(* same name just before it: after an error.                               *)
LEMMA ReadAheadTold ==
  ASSUME Good, Told, NEW n \in Identifier,
         \/ \E code \in TypeCodes : DeclareType(n, code)
         \/ \E code \in {"variable", "fb"} : DeclareExternal(n, code)
  PROVE  Told'
<1>1. /\ Undeclared(n) /\ UNCHANGED list
      /\ ahead' \in Identifier \cup {Unnamed} /\ (ahead' # Unnamed => errors')
      /\ (errors => errors')
  BY PouAssumption DEF DeclareType, DeclareExternal, ReadsAhead, Good, Scalars
<1>2. status = "running" /\ (ahead = Unnamed => Token(n) = "identifier")
  BY <1>1 DEF Undeclared
<1>3. unit'.kind = unit.kind /\ unit'.name = unit.name
  BY InHeader DEF DeclareType, DeclareExternal
<1>4. ahead = Unnamed => status' = status
  <2>1. ASSUME ahead = Unnamed, NEW code \in TypeCodes, DeclareType(n, code)
        PROVE  status' = status
    <3>1. n \notin DOMAIN library[1]
      BY <1>2, <2>1, TokenFacts DEF Good
    <3>2. QED
      BY <2>1, <3>1, Agreed DEF Good, DeclareType
  <2>2. ASSUME ahead = Unnamed, NEW code \in {"variable", "fb"}, DeclareExternal(n, code)
        PROVE  status' = status
    <3>1. Fresh(n)
      BY <1>2, <2>2, TokenFacts DEF Good
    <3>2. QED
      BY <2>2, <3>1, FreshInsert DEF Good, DeclareExternal
  <2>3. QED
    BY <2>1, <2>2
<1>5. ahead # Unnamed => errors'
  BY <1>1 DEF Told
<1>6. QED
  BY <1>1, <1>2, <1>3, <1>4, <1>5 DEF Told, ToldBeforeEnding

(* The other declarations.                                                 *)
LEMMA DeclareTold ==
  ASSUME Good, Told, NEW n \in Identifier,
         \/ DeclareVariable(n) \/ DeclareExtensible(n) \/ DeclareGlobal(n)
         \/ DeclareProgram(n)
  PROVE  Told'
<1>1. /\ Running /\ Token(n) = "identifier" /\ errors' \in {errors, TRUE}
      /\ Unnamed \in list' => errors' \/ Unnamed \in list
      /\ \E c \in VariableCodes : InsertVariable(n, c, "insert")
  BY PouAssumption
     DEF DeclareVariable, DeclareExtensible, DeclareGlobal, DeclareProgram, VariableCodes, Names
<1>2. status' = status
  BY <1>1, TokenFacts, FreshInsert DEF Good
<1>3. unit' = unit \/ \E p \in PouPlaces \cup ConfPlaces \cup ResourcePlaces :
                        unit' = [unit EXCEPT !.place = p]
  BY DEF DeclareVariable, DeclareExtensible, DeclareGlobal, DeclareProgram, DeclarationSeen,
         PouPlaces, ConfPlaces, ResourcePlaces
<1>4. unit'.kind = unit.kind /\ unit'.name = unit.name
  BY <1>3, Moved DEF Good, Scalars
<1>5. QED
  BY <1>1, <1>2, <1>4, StillTold DEF Running

(* The ends of the units: a name that flex has let through is entered, and *)
(* who gave none has been told.                                            *)
LEMMA EndTold ==
  ASSUME Good, Told, EndFunction \/ EndFunctionBlock \/ EndProgram \/ EndConfiguration
  PROVE  Told'
<1>1. Running /\ unit' = Outside /\ UNCHANGED <<list, errors>>
  BY DEF EndFunction, EndFunctionBlock, EndProgram, EndConfiguration
<1>2. EndConfiguration => unit.kind = "configuration"
  BY DEF Good, PlaceFits, EndConfiguration, ConfPlaces
<1>3. unit.kind # "none"
  BY <1>2 DEF EndFunction, EndFunctionBlock, EndProgram
<1>4. unit.name \in Identifier => status' = status
  <2> SUFFICES ASSUME unit.name \in Identifier PROVE status' = status
    OBVIOUS
  <2>1. CASE EndProgram
    BY <2>1 DEF EndProgram
  <2>2. CASE ~ EndProgram
    <3>1. /\ unit.kind \in DOMAIN CodeOf
          /\ InsertLibrary(unit.name, CodeOf[unit.kind])
      BY <1>2, <2>2 DEF EndFunction, EndFunctionBlock, EndConfiguration, CodeOf
    <3>2. unit.name \in DOMAIN library[1] => library[1][unit.name] = CodeOf[unit.kind]
      BY <3>1 DEF Good, NameFree
    <3>3. QED
      BY <3>1, <3>2, Agreed DEF Good
  <2>3. QED
    BY <2>1, <2>2
<1>5. unit.name \notin Identifier => errors
  BY <1>3 DEF Told
<1>6. QED
  BY <1>1, <1>4, <1>5, OutsideFacts, StillTold DEF Running

(* Resources.                                                              *)
LEMMA ResourceTold ==
  ASSUME Good, Told,
         \/ \E n \in Identifier : BeginResource(n)
         \/ BeginNamelessResource \/ EndResource \/ EndErroneousResource
  PROVE  Told'
<1>1. Running /\ errors' \in {errors, TRUE} /\ UNCHANGED list
  BY DEF BeginResource, BeginNamelessResource, EndResource, EndErroneousResource
<1>2. \E p \in PouPlaces \cup ConfPlaces \cup ResourcePlaces, r \in Identifier \cup {Unnamed} :
        unit' = [unit EXCEPT !.place = p, !.resource = r]
  BY DEF BeginResource, BeginNamelessResource, EndResource, EndErroneousResource,
         ConfPlaces, ResourcePlaces
<1>3. unit'.kind = unit.kind /\ unit'.name = unit.name
  BY <1>2, MovedResource DEF Good, Scalars
<1>4. status' = status
  <2>1. CASE EndResource
    BY <2>1, Freed
  <2>2. QED
    BY <2>1 DEF BeginResource, BeginNamelessResource, EndErroneousResource
<1>5. QED
  BY <1>1, <1>3, <1>4, StillTold DEF Running

(* A list of instances: what set() would refuse has no name.               *)
LEMMA ListTold ==
  ASSUME Good, Told, ListOfInstances \/ ListOfVariables
  PROVE  Told'
<1>1. Running /\ errors' \in {errors, TRUE} /\ UNCHANGED unit /\ list' = {}
  BY DEF ListOfInstances, ListOfVariables, Declared
<1>2. Unnamed \notin list => status' = status
  <2>1. ASSUME Unnamed \notin list PROVE \A n \in list : CanSet(variables, n)
    BY <2>1 DEF Good, Listed, CanSet
  <2>2. QED
    BY <2>1 DEF ListOfInstances, ListOfVariables
<1>3. Unnamed \in list => errors'
  <2>1. Unnamed \in list => errors
    BY DEF Told
  <2>2. errors => errors'
    BY <1>1, Zenon
  <2>3. QED
    BY <2>1, <2>2, Zenon
<1>4. QED
  BY <1>1, <1>2, <1>3, StillTold DEF Running

LEMMA StepTold ==
  ASSUME Good, Told, [Next]_vars
  PROVE  Told'
<1>1. ASSUME NEW n \in Identifier, DeclareStep(n) PROVE Told'
  <2>1. /\ Running /\ UNCHANGED <<unit, list, errors>> /\ status' \in {status, "step"}
    BY <1>1 DEF DeclareStep, InsertVariable
  <2>2. QED
    BY <2>1, StillTold DEF Running
<1>2. ASSUME NEW d \in Direct, Locate(d) PROVE Told'
  <2>1. /\ Running /\ UNCHANGED <<list, status>> /\ errors' \in {errors, TRUE}
        /\ \/ unit' = unit
           \/ InDeclarations /\ DeclarationSeen
    <3>1. errors \in BOOLEAN
      BY DEF Good, Scalars
    <3>2. QED
      BY <1>2, <3>1 DEF Locate
  <2>2. unit'.kind = unit.kind /\ unit'.name = unit.name
    BY <2>1, InHeader
  <2>3. QED
    BY <2>1, <2>2, StillTold DEF Running
<1>3. ASSUME NEW op \in Operator, BeginOperatorFunction(op) PROVE Told'
  <2>1. Running /\ UNCHANGED list /\ errors' = TRUE
    BY <1>3 DEF BeginOperatorFunction
  <2>2. QED
    BY <2>1, StillTold
<1>4. ASSUME NEW kind \in Kinds, BeginMisnamed(kind) PROVE Told'
  <2>1. Running /\ UNCHANGED list /\ errors' = TRUE
    BY <1>4 DEF BeginMisnamed
  <2>2. QED
    BY <2>1, StillTold
<1>5. CASE BeginBody \/ EndSingleResource
  <2>1. /\ Running /\ UNCHANGED <<list, errors, status>>
        /\ \E p \in PouPlaces \cup ConfPlaces : unit' = [unit EXCEPT !.place = p]
    BY <1>5 DEF BeginBody, EndSingleResource, PouPlaces, ConfPlaces
  <2>2. unit'.kind = unit.kind /\ unit'.name = unit.name
    BY <2>1, Moved DEF Good, Scalars
  <2>3. QED
    BY <2>1, <2>2, StillTold DEF Running
<1>6. CASE EndErroneous \/ Mistake
  <2>1. ahead' = Unnamed /\ errors' = TRUE
    BY <1>6 DEF EndErroneous, Mistake
  <2>2. QED
    BY <2>1 DEF Told, ToldBeforeEnding
<1>7. CASE UNCHANGED vars
  BY <1>7 DEF vars, Told, ToldBeforeEnding
<1>8. QED
  BY <1>1, <1>2, <1>3, <1>4, <1>5, <1>6, <1>7, BeginTold, ReadAheadTold, DeclareTold, EndTold,
     ResourceTold, ListTold DEF Next

LEMMA Invariance == Spec => []IInv
<1>1. Init => IInv
  BY InitGood, InitTold DEF IInv
<1>2. IInv /\ [Next]_vars => IInv'
  BY StepGood, StepTold DEF IInv
<1>3. QED
  BY <1>1, <1>2, PTL DEF Spec

-----------------------------------------------------------------------------
(* The tables are chains of scopes of equal depth, the library a single    *)
(* scope, and the parser is in a unit and a place of the grammar, whatever *)
(* the names are and however deep erroneous units have nested the scopes.  *)
THEOREM TypeCorrect == Spec => []TypeOK
<1>1. IInv => TypeOK
  BY DEF IInv, Good, Told, Tables, Chain, Scalars, TypeOK, Units
<1>2. QED
  BY <1>1, Invariance, PTL

(* As long as nothing was wrong with the program, nothing a unit declares  *)
(* is in scope after it, one scope is open in a unit and one more in a     *)
(* resource, and of a resource only its name is left.                      *)
THEOREM ScopesFollow == Spec => []ScopesFollowUnits
<1>1. IInv => ScopesFollowUnits
  BY DEF IInv, Good, Tables, Clean, Outermost, ScopesFollowUnits
<1>2. QED
  BY <1>1, Invariance, PTL

(* A program of which nothing was reported brings no insert() and no set() *)
(* of the symbol tables to an end, no nameless unit and no list element    *)
(* without a name, whatever names it declares where, and whatever token    *)
(* bison has had flex read too early.                                      *)
THEOREM EndsAfterMistake == Spec => []ToldBeforeEnding
<1>1. IInv => ToldBeforeEnding
  BY DEF IInv, Told
<1>2. QED
  BY <1>1, Invariance, PTL

(* Wherever the parser is in a function, flex returns the function's name  *)
(* as that of a variable.                                                  *)
THEOREM OwnNameIsVariable == Spec => []FunctionNameIsVariable
<1>1. IInv => FunctionNameIsVariable
  <2> SUFFICES ASSUME Good, unit.kind = "function", unit.name \in Identifier
               PROVE  Token(unit.name) = "variable"
    BY DEF FunctionNameIsVariable, IInv
  <2>1. /\ unit.name \in DOMAIN Innermost(variables)
        /\ Innermost(variables)[unit.name] = "variable"
    BY DEF Good, OwnName
  <2>2. QED
    BY <2>1, TokenFacts DEF Good
<1>2. QED
  BY <1>1, Invariance, PTL
=============================================================================

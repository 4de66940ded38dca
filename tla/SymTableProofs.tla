---------------------------- MODULE SymTableProofs ----------------------------
(***************************************************************************)
(* Proofs about SymTable: the chain of maps implements LexEnv, whatever    *)
(* the names, the values and the number of levels.                         *)
(***************************************************************************)
EXTENDS SymTable, SequenceTheorems, FiniteSetTheorems, WellFoundedInduction, TLAPS

-----------------------------------------------------------------------------
(* A set of numbers that is not empty has a smallest one.                  *)
Less == {p \in Nat \X Nat : p[1] < p[2]}

LEMMA LessWellFounded == IsWellFoundedOn(Less, Nat)
<1>1. IsWellFoundedOn(OpToRel(<, Nat), Nat)
  BY NatLessThanWellFounded
<1>2. QED
  BY <1>1 DEF OpToRel, Less

LEMMA Smallest ==
  ASSUME NEW T \in SUBSET Nat, T # {}
  PROVE  \E k \in T : \A j \in T : k <= j
<1>1. PICK k \in T : \A j \in T : ~ (<<j, k>> \in Less)
  BY LessWellFounded, WFMin
<1>2. ASSUME NEW j \in T PROVE k <= j
  <2>1. <<j, k>> \in Nat \X Nat /\ <<j, k>> \notin Less
    BY <1>1
  <2>2. ~ (<<j, k>>[1] < <<j, k>>[2])
    BY <2>1, Zenon DEF Less
  <2>3. QED
    BY <2>2
<1>3. QED
  BY <1>2

(* A set of numbers up to N that is not empty has a largest one.           *)
LEMMA Largest ==
  ASSUME NEW N \in Nat, NEW T \in SUBSET (1 .. N), T # {}
  PROVE  \E k \in T : \A j \in T : j <= k
<1> DEFINE U == {i \in Nat : i <= N /\ N - i \in T}
<1>1. U # {} /\ U \in SUBSET Nat
  <2>1. PICK t : t \in T
    OBVIOUS
  <2>2. N - t \in U
    BY <2>1
  <2>3. QED
    BY <2>2
<1>2. PICK i \in U : \A j \in U : i <= j
  BY <1>1, Smallest
<1>3. N - i \in T
  BY <1>2
<1>4. ASSUME NEW j \in T PROVE j <= N - i
  <2>1. N - j \in U
    BY <1>4
  <2>2. i <= N - j /\ i \in Nat /\ j \in Nat
    BY <1>2, <2>1
  <2>3. QED
    BY <2>2
<1>5. QED
  BY <1>3, <1>4

-----------------------------------------------------------------------------
(* Chains of scopes, and what a name means at a level of one.              *)
Chain(c) == c \in Seq(Scope) /\ c # <<>>
Meanings == [Name -> Value \cup {Absent}]
Meaning(c, k) == [n \in Name |-> Find(SubSeq(c, 1, k), n)]

(* The first k levels that have a name, and the innermost of such levels.  *)
Have(c, k, n) == {j \in 1 .. k : n \in DOMAIN c[j]}
Top(S) == CHOOSE k \in S : \A j \in S : j <= k

LEMMA TopFacts ==
  ASSUME NEW N \in Nat, NEW S \in SUBSET (1 .. N), S # {}
  PROVE  Top(S) \in S /\ \A j \in S : j <= Top(S)
<1>1. \E k \in S : \A j \in S : j <= k
  BY Largest
<1>2. QED
  BY <1>1 DEF Top

LEMMA TopUnique ==
  ASSUME NEW N \in Nat, NEW S \in SUBSET (1 .. N), NEW t \in S, \A j \in S : j <= t
  PROVE  Top(S) = t
<1>1. Top(S) \in S /\ t <= Top(S)
  BY TopFacts
<1>2. \A j \in S : j \in Nat /\ j <= t
  OBVIOUS
<1>3. Top(S) \in Nat /\ t \in Nat /\ Top(S) <= t
  BY <1>1, <1>2
<1>4. QED
  BY <1>1, <1>3

LEMMA ChainFacts ==
  ASSUME NEW c, Chain(c)
  PROVE  /\ Len(c) \in Nat \ {0} /\ DOMAIN c = 1 .. Len(c)
         /\ \A k \in 1 .. Len(c) : c[k] \in Scope
         /\ Len(c) \in 1 .. Len(c) /\ 1 \in 1 .. Len(c)
         /\ Innermost(c) = c[Len(c)]
<1>1. Len(c) \in Nat /\ DOMAIN c = 1 .. Len(c) /\ Len(c) # 0
  BY LenProperties, EmptySeq DEF Chain
<1>2. QED
  BY <1>1, ElementOfSeq DEF Chain, Innermost

LEMMA ScopeFacts ==
  ASSUME NEW s \in Scope
  PROVE  /\ s = [n \in DOMAIN s |-> s[n]]
         /\ DOMAIN s \subseteq Name /\ \A n \in DOMAIN s : s[n] \in Value
<1>1. PICK D \in SUBSET Name : s \in [D -> Value]
  BY DEF Scope
<1>2. QED
  BY <1>1

LEMMA IsScope ==
  ASSUME NEW D \in SUBSET Name, NEW s \in [D -> Value]
  PROVE  s \in Scope
BY DEF Scope

LEMMA EmptyIsScope == EmptyScope \in Scope /\ DOMAIN EmptyScope = {}
<1>1. EmptyScope \in [{} -> Value] /\ DOMAIN EmptyScope = {}
  BY DEF EmptyScope
<1>2. {} \in SUBSET Name
  OBVIOUS
<1>3. QED
  BY <1>1, <1>2, IsScope

LEMMA PrefixFacts ==
  ASSUME NEW c, Chain(c), NEW k \in 1 .. Len(c)
  PROVE  LET p == SubSeq(c, 1, k) IN
         Chain(p) /\ Len(p) = k /\ \A j \in 1 .. k : p[j] = c[j]
<1> DEFINE p == SubSeq(c, 1, k)
<1>1. /\ k \in Int /\ 1 \in Int /\ 1 <= k /\ k - 1 + 1 = k
      /\ \A j \in 1 .. k : 1 + j - 1 = j
      /\ \A j \in 1 .. k : c[j] \in Scope
  BY ChainFacts
<1>2. /\ SubSeq(c, 1, k) \in Seq(Scope)
      /\ Len(SubSeq(c, 1, k)) = IF 1 <= k THEN k - 1 + 1 ELSE 0
      /\ \A j \in 1 .. k - 1 + 1 : SubSeq(c, 1, k)[j] = c[1 + j - 1]
  BY <1>1, SubSeqProperties
<1>3. p \in Seq(Scope) /\ Len(p) = k /\ \A j \in 1 .. k : p[j] = c[j]
  BY <1>1, <1>2
<1>4. p # <<>>
  BY <1>1, <1>3, EmptySeq
<1>5. QED
  BY <1>3, <1>4 DEF Chain

(* find() answers with the innermost of the levels that have the name.     *)
LEMMA MeaningIs ==
  ASSUME NEW c, Chain(c), NEW k \in 1 .. Len(c), NEW n \in Name
  PROVE  Meaning(c, k)[n] = IF Have(c, k, n) = {} THEN Absent ELSE c[Top(Have(c, k, n))][n]
<1> DEFINE p == SubSeq(c, 1, k)
<1>1. Chain(p) /\ Len(p) = k /\ \A j \in 1 .. k : p[j] = c[j]
  BY PrefixFacts
<1>2. DOMAIN p = 1 .. k
  BY <1>1, ChainFacts
<1>3. Meaning(c, k)[n] = Find(p, n)
  BY DEF Meaning
<1> HIDE DEF p
<1>4. Levels(p, n) = Have(c, k, n)
  BY <1>1, <1>2 DEF Levels, Have
<1>5. LevelOf(p, n) = Top(Have(c, k, n))
  BY <1>4 DEF LevelOf, Top
<1>6. Have(c, k, n) # {} => p[Top(Have(c, k, n))] = c[Top(Have(c, k, n))]
  <2>1. Have(c, k, n) \in SUBSET (1 .. k) /\ k \in Nat
    BY ChainFacts DEF Have
  <2>2. Have(c, k, n) # {} => Top(Have(c, k, n)) \in 1 .. k
    BY <2>1, TopFacts
  <2>3. QED
    BY <1>1, <2>2
<1>7. QED
  BY <1>3, <1>4, <1>5, <1>6 DEF Find

LEMMA MeaningType ==
  ASSUME NEW c, Chain(c), NEW k \in 1 .. Len(c)
  PROVE  Meaning(c, k) \in Meanings
<1>1. ASSUME NEW n \in Name PROVE Meaning(c, k)[n] \in Value \cup {Absent}
  <2>1. Have(c, k, n) \in SUBSET (1 .. k) /\ k \in Nat /\ k <= Len(c) /\ Len(c) \in Nat
    BY ChainFacts DEF Have
  <2>2. CASE Have(c, k, n) = {}
    BY <2>2, MeaningIs
  <2>3. CASE Have(c, k, n) # {}
    <3> DEFINE t == Top(Have(c, k, n))
    <3>1. t \in Have(c, k, n)
      BY <2>1, <2>3, TopFacts
    <3>2. t \in 1 .. Len(c) /\ n \in DOMAIN c[t]
      BY <2>1, <3>1 DEF Have
    <3>3. c[t] \in Scope
      BY <3>2, ChainFacts
    <3>4. c[t][n] \in Value
      BY <3>2, <3>3, ScopeFacts
    <3>5. QED
      BY <2>3, <3>4, MeaningIs
  <2>4. QED
    BY <2>2, <2>3
<1>2. QED
  BY <1>1 DEF Meaning, Meanings

(* A name of the level itself, and a name that no level has.               *)
LEMMA MeaningHere ==
  ASSUME NEW c, Chain(c), NEW k \in 1 .. Len(c), NEW n \in Name
  PROVE  /\ n \in DOMAIN c[k] => Meaning(c, k)[n] = c[k][n]
         /\ Meaning(c, k)[n] = Absent <=> Have(c, k, n) = {}
<1>1. Have(c, k, n) \in SUBSET (1 .. k) /\ k \in Nat /\ k \in 1 .. k
  BY ChainFacts DEF Have
<1>2. ASSUME n \in DOMAIN c[k] PROVE Meaning(c, k)[n] = c[k][n]
  <2>1. k \in Have(c, k, n) /\ \A j \in Have(c, k, n) : j <= k
    BY <1>1, <1>2 DEF Have
  <2>2. Top(Have(c, k, n)) = k
    BY <1>1, <2>1, TopUnique
  <2>3. QED
    BY <2>1, <2>2, MeaningIs
<1>3. ASSUME Have(c, k, n) # {} PROVE Meaning(c, k)[n] # Absent
  <2> DEFINE t == Top(Have(c, k, n))
  <2>1. t \in Have(c, k, n)
    BY <1>1, <1>3, TopFacts
  <2>2. t \in 1 .. Len(c) /\ n \in DOMAIN c[t]
    BY <1>1, <2>1, ChainFacts DEF Have
  <2>3. c[t][n] \in Value
    BY <2>2, ChainFacts, ScopeFacts
  <2>4. QED
    BY <1>3, <2>3, MeaningIs, AbsentAssumption
<1>4. QED
  BY <1>2, <1>3, MeaningIs

(* What a name means depends on the levels that have it and on nothing     *)
(* else.                                                                   *)
LEMMA MeaningSame ==
  ASSUME NEW c, Chain(c), NEW d, Chain(d), NEW n \in Name,
         NEW k \in 1 .. Len(c), k \in 1 .. Len(d),
         Have(d, k, n) = Have(c, k, n), \A j \in Have(c, k, n) : d[j][n] = c[j][n]
  PROVE  Meaning(d, k)[n] = Meaning(c, k)[n]
<1>1. Have(c, k, n) \in SUBSET (1 .. k) /\ k \in Nat
  BY ChainFacts DEF Have
<1>2. Have(c, k, n) # {} => Top(Have(c, k, n)) \in Have(c, k, n)
  BY <1>1, TopFacts
<1>3. QED
  BY <1>2, MeaningIs

LEMMA PrefixSame ==
  ASSUME NEW c, Chain(c), NEW d, Chain(d), NEW k \in 1 .. Len(c), k \in 1 .. Len(d),
         \A j \in 1 .. k : d[j] = c[j]
  PROVE  Meaning(d, k) = Meaning(c, k)
<1>1. ASSUME NEW n \in Name PROVE Meaning(d, k)[n] = Meaning(c, k)[n]
  <2>1. Have(d, k, n) = Have(c, k, n) /\ \A j \in Have(c, k, n) : d[j][n] = c[j][n]
    BY DEF Have
  <2>2. QED
    BY <2>1, MeaningSame
<1>2. QED
  BY <1>1 DEF Meaning

LEMMA FindIsMeaning ==
  ASSUME NEW c, Chain(c), NEW n \in Name
  PROVE  Find(c, n) = Meaning(c, Len(c))[n]
<1>1. SubSeq(c, 1, Len(c)) = c
  BY SubSeqFull DEF Chain
<1>2. QED
  BY <1>1 DEF Meaning

-----------------------------------------------------------------------------
(* The operations on chains.                                               *)
LEMMA BindFacts ==
  ASSUME NEW c, Chain(c), NEW l \in 1 .. Len(c), NEW n \in Name, NEW v \in Value
  PROVE  /\ Chain(Bind(c, l, n, v)) /\ Len(Bind(c, l, n, v)) = Len(c)
         /\ \A k \in 1 .. Len(c) : k # l => Bind(c, l, n, v)[k] = c[k]
         /\ DOMAIN Bind(c, l, n, v)[l] = DOMAIN c[l] \cup {n}
         /\ Bind(c, l, n, v)[l][n] = v
         /\ \A m \in DOMAIN c[l] \ {n} : Bind(c, l, n, v)[l][m] = c[l][m]
<1> DEFINE s == [m \in DOMAIN c[l] \cup {n} |-> IF m = n THEN v ELSE c[l][m]]
<1>1. c \in Seq(Scope) /\ c[l] \in Scope
  BY ChainFacts DEF Chain
<1>2. s \in Scope
  <2>1. DOMAIN c[l] \cup {n} \in SUBSET Name
    BY <1>1, ScopeFacts
  <2>2. s \in [DOMAIN c[l] \cup {n} -> Value]
    BY <1>1, ScopeFacts
  <2>3. QED
    BY <2>1, <2>2, IsScope
<1>3. Bind(c, l, n, v) = [c EXCEPT ![l] = s]
  BY DEF Bind
<1>4. /\ [c EXCEPT ![l] = s] \in Seq(Scope) /\ Len([c EXCEPT ![l] = s]) = Len(c)
      /\ \A k \in 1 .. Len(c) : [c EXCEPT ![l] = s][k] = IF k = l THEN s ELSE c[k]
  BY <1>1, <1>2, ExceptSeq
<1>5. /\ Bind(c, l, n, v) \in Seq(Scope) /\ Len(Bind(c, l, n, v)) = Len(c)
      /\ \A k \in 1 .. Len(c) : k # l => Bind(c, l, n, v)[k] = c[k]
      /\ Bind(c, l, n, v)[l] = s
  BY <1>3, <1>4
<1>6. Chain(Bind(c, l, n, v))
  BY <1>5, ChainFacts, EmptySeq DEF Chain
<1>7. QED
  BY <1>5, <1>6

LEMMA NewFacts == Chain(NewTable) /\ Len(NewTable) = 1 /\ DOMAIN NewTable[1] = {}
<1>1. EmptyScope \in Scope /\ DOMAIN EmptyScope = {}
  BY EmptyIsScope
<1>2. QED
  BY <1>1 DEF Chain, NewTable

LEMMA PushFacts ==
  ASSUME NEW c, Chain(c)
  PROVE  /\ Chain(Push(c)) /\ Len(Push(c)) = Len(c) + 1
         /\ \A k \in 1 .. Len(c) : Push(c)[k] = c[k]
         /\ DOMAIN Push(c)[Len(c) + 1] = {}
<1>1. EmptyScope \in Scope /\ DOMAIN EmptyScope = {}
  BY EmptyIsScope
<1>2. c \in Seq(Scope)
  BY DEF Chain
<1>3. /\ Append(c, EmptyScope) \in Seq(Scope)
      /\ Append(c, EmptyScope) # <<>>
      /\ Len(Append(c, EmptyScope)) = Len(c) + 1
      /\ Append(c, EmptyScope)[Len(c) + 1] = EmptyScope
      /\ \A k \in 1 .. Len(c) : Append(c, EmptyScope)[k] = c[k]
  BY <1>1, <1>2, AppendProperties
<1>4. QED
  BY <1>1, <1>3, Zenon DEF Push, Chain

LEMMA PopFacts ==
  ASSUME NEW c, Chain(c)
  PROVE  /\ Chain(Pop(c))
         /\ Len(c) = 1 => Pop(c) = NewTable
         /\ Len(c) # 1 =>
              /\ Len(Pop(c)) = Len(c) - 1 /\ Len(c) - 1 \in 1 .. Len(c)
              /\ \A k \in 1 .. Len(c) - 1 : Pop(c)[k] = c[k]
<1>1. CASE Len(c) = 1
  <2>1. Pop(c) = NewTable
    BY <1>1 DEF Pop
  <2>2. QED
    BY <1>1, <2>1, NewFacts
<1>2. CASE Len(c) # 1
  <2> DEFINE l == Len(c)
  <2>1. l \in Nat \ {0} /\ l # 1
    BY <1>2, ChainFacts
  <2>2. l - 1 \in 1 .. l
    <3> HIDE DEF l
    <3>1. QED
      BY <2>1
  <2>3. /\ Chain(SubSeq(c, 1, l - 1)) /\ Len(SubSeq(c, 1, l - 1)) = l - 1
        /\ \A k \in 1 .. l - 1 : SubSeq(c, 1, l - 1)[k] = c[k]
    BY <2>2, PrefixFacts
  <2>4. Pop(c) = SubSeq(c, 1, l - 1)
    BY <1>2 DEF Pop
  <2>5. QED
    BY <1>2, <2>2, <2>3, <2>4
<1>3. QED
  BY <1>1, <1>2

LEMMA ClearFacts ==
  ASSUME NEW c, Chain(c)
  PROVE  /\ Chain(Clear(c)) /\ Len(Clear(c)) = Len(c)
         /\ \A k \in 1 .. Len(c) : k # 1 => Clear(c)[k] = c[k]
         /\ DOMAIN Clear(c)[1] = {}
<1>1. EmptyScope \in Scope /\ DOMAIN EmptyScope = {}
  BY EmptyIsScope
<1>2. c \in Seq(Scope) /\ 1 \in 1 .. Len(c)
  BY ChainFacts DEF Chain
<1>3. /\ [c EXCEPT ![1] = EmptyScope] \in Seq(Scope)
      /\ Len([c EXCEPT ![1] = EmptyScope]) = Len(c)
      /\ \A k \in 1 .. Len(c) :
           [c EXCEPT ![1] = EmptyScope][k] = IF k = 1 THEN EmptyScope ELSE c[k]
  BY <1>1, <1>2, ExceptSeq
<1>4. /\ Clear(c) \in Seq(Scope) /\ Len(Clear(c)) = Len(c)
      /\ \A k \in 1 .. Len(c) : k # 1 => Clear(c)[k] = c[k]
      /\ Clear(c)[1] = EmptyScope
  BY <1>2, <1>3 DEF Clear
<1>5. Chain(Clear(c))
  BY <1>4, ChainFacts, EmptySeq DEF Chain
<1>6. QED
  BY <1>1, <1>4, <1>5

-----------------------------------------------------------------------------
(* The environment a chain stands for.                                     *)
VisibleOf(c) == [k \in DOMAIN c |-> Meaning(c, k)]
DeclaredOf(c) == [k \in DOMAIN c |-> DOMAIN c[k]]

LEMMA AsSequence ==
  ASSUME NEW l \in Nat, NEW S, NEW f \in [1 .. l -> S]
  PROVE  f \in Seq(S) /\ Len(f) = l
<1>1. f \in Seq(S)
  BY SeqDef
<1>2. Len(f) \in Nat /\ 1 .. Len(f) = 1 .. l
  BY <1>1, LenProperties
<1>3. QED
  BY <1>1, <1>2

LEMMA EnvFacts ==
  ASSUME NEW c, Chain(c)
  PROVE  /\ VisibleOf(c) \in Seq(Meanings) /\ Len(VisibleOf(c)) = Len(c)
         /\ DOMAIN VisibleOf(c) = 1 .. Len(c)
         /\ \A k \in 1 .. Len(c) : VisibleOf(c)[k] = Meaning(c, k)
         /\ DeclaredOf(c) \in Seq(SUBSET Name) /\ Len(DeclaredOf(c)) = Len(c)
         /\ DOMAIN DeclaredOf(c) = 1 .. Len(c)
         /\ \A k \in 1 .. Len(c) : DeclaredOf(c)[k] = DOMAIN c[k]
<1>1. DOMAIN c = 1 .. Len(c) /\ Len(c) \in Nat
  BY ChainFacts
<1>2. VisibleOf(c) \in [1 .. Len(c) -> Meanings]
  BY <1>1, MeaningType DEF VisibleOf
<1>3. DeclaredOf(c) \in [1 .. Len(c) -> SUBSET Name]
  BY <1>1, ChainFacts, ScopeFacts DEF DeclaredOf
<1>4. QED
  BY <1>1, <1>2, <1>3, AsSequence DEF VisibleOf, DeclaredOf

(* Each operation does to the environment what LexEnv says.                *)
LEMMA NewEnv ==
  /\ VisibleOf(NewTable) = <<[n \in Name |-> Absent]>>
  /\ DeclaredOf(NewTable) = <<{}>>
<1>1. /\ Chain(NewTable) /\ Len(NewTable) = 1 /\ DOMAIN NewTable[1] = {}
      /\ 1 \in 1 .. Len(NewTable)
  BY NewFacts
<1>2. ASSUME NEW n \in Name PROVE Meaning(NewTable, 1)[n] = Absent
  <2>1. Have(NewTable, 1, n) = {}
    BY <1>1 DEF Have
  <2>2. QED
    BY <1>1, <2>1, MeaningHere
<1>3. Meaning(NewTable, 1) = [n \in Name |-> Absent]
  BY <1>2 DEF Meaning
<1>4. DOMAIN NewTable = 1 .. 1
  BY <1>1, ChainFacts
<1>5. VisibleOf(NewTable) = [k \in 1 .. 1 |-> [n \in Name |-> Absent]]
  BY <1>3, <1>4 DEF VisibleOf
<1>6. DeclaredOf(NewTable) = [k \in 1 .. 1 |-> {}]
  BY <1>1, <1>4 DEF DeclaredOf
<1>7. QED
  BY <1>5, <1>6

LEMMA PushEnv ==
  ASSUME NEW c, Chain(c)
  PROVE  /\ VisibleOf(Push(c)) = Append(VisibleOf(c), VisibleOf(c)[Len(c)])
         /\ DeclaredOf(Push(c)) = Append(DeclaredOf(c), {})
<1> DEFINE d == Push(c)
           l == Len(c)
<1>1. /\ Chain(d) /\ Len(d) = l + 1 /\ \A k \in 1 .. l : d[k] = c[k]
      /\ DOMAIN d[l + 1] = {} /\ l \in Nat \ {0} /\ l \in 1 .. l
  BY PushFacts, ChainFacts
<1>2. /\ VisibleOf(c) \in Seq(Meanings) /\ Len(VisibleOf(c)) = l
      /\ \A k \in 1 .. l : VisibleOf(c)[k] = Meaning(c, k)
      /\ DeclaredOf(c) \in Seq(SUBSET Name) /\ Len(DeclaredOf(c)) = l
      /\ \A k \in 1 .. l : DeclaredOf(c)[k] = DOMAIN c[k]
  BY EnvFacts
<1>3. /\ VisibleOf(d) \in Seq(Meanings) /\ Len(VisibleOf(d)) = l + 1
      /\ \A k \in 1 .. l + 1 : VisibleOf(d)[k] = Meaning(d, k)
      /\ DeclaredOf(d) \in Seq(SUBSET Name) /\ Len(DeclaredOf(d)) = l + 1
      /\ \A k \in 1 .. l + 1 : DeclaredOf(d)[k] = DOMAIN d[k]
  BY <1>1, EnvFacts
<1>4. VisibleOf(c)[l] \in Meanings
  BY <1>1, <1>2, MeaningType
<1> HIDE DEF d, l
<1>5. ASSUME NEW k \in 1 .. l PROVE Meaning(d, k) = Meaning(c, k)
  <2>1. k \in 1 .. l + 1 /\ \A j \in 1 .. k : j \in 1 .. l
    BY <1>1
  <2>2. \A j \in 1 .. k : d[j] = c[j]
    BY <1>1, <2>1
  <2>3. k \in 1 .. Len(c) /\ k \in 1 .. Len(d)
    BY <1>1, <2>1 DEF l
  <2>4. QED
    BY <1>1, <2>2, <2>3, PrefixSame
<1>6. Meaning(d, l + 1) = Meaning(c, l)
  <2>1. ASSUME NEW n \in Name PROVE Meaning(d, l + 1)[n] = Meaning(c, l)[n]
    <3>1. l + 1 \in 1 .. Len(d) /\ l \in 1 .. Len(c) /\ l \in 1 .. Len(d)
      BY <1>1 DEF l
    <3>2. Have(d, l + 1, n) = Have(c, l, n)
      <4>1. ASSUME NEW j \in 1 .. l + 1, n \in DOMAIN d[j] PROVE j \in 1 .. l
        BY <1>1, <4>1
      <4>2. \A j \in 1 .. l : j \in 1 .. l + 1
        BY <1>1
      <4>3. QED
        BY <1>1, <4>1, <4>2 DEF Have
    <3>3. \A j \in Have(c, l, n) : d[j] = c[j]
      BY <1>1 DEF Have
    <3>4. Have(c, l, n) # {} => Top(Have(c, l, n)) \in Have(c, l, n)
      <4>1. Have(c, l, n) \in SUBSET (1 .. l) /\ l \in Nat
        BY <1>1 DEF Have
      <4>2. QED
        BY <4>1, TopFacts
    <3>5. Meaning(d, l + 1)[n] = IF Have(d, l + 1, n) = {} THEN Absent
                                 ELSE d[Top(Have(d, l + 1, n))][n]
      BY <1>1, <3>1, MeaningIs
    <3>6. Meaning(c, l)[n] = IF Have(c, l, n) = {} THEN Absent
                             ELSE c[Top(Have(c, l, n))][n]
      BY <3>1, MeaningIs
    <3>7. QED
      BY <3>2, <3>3, <3>4, <3>5, <3>6
  <2>2. QED
    BY <2>1 DEF Meaning
<1>7. VisibleOf(d) = Append(VisibleOf(c), VisibleOf(c)[l])
  <2> DEFINE a == Append(VisibleOf(c), VisibleOf(c)[l])
  <2>1. /\ a \in Seq(Meanings) /\ Len(a) = l + 1 /\ a[l + 1] = VisibleOf(c)[l]
        /\ \A i \in 1 .. l : a[i] = VisibleOf(c)[i]
    BY <1>2, <1>4, AppendProperties
  <2> HIDE DEF a
  <2>2. ASSUME NEW i \in 1 .. l + 1 PROVE VisibleOf(d)[i] = a[i]
    <3>1. CASE i = l + 1
      BY <1>1, <1>2, <1>3, <1>6, <2>1, <3>1
    <3>2. CASE i # l + 1
      <4>1. i \in 1 .. l
        BY <1>1, <3>2
      <4>2. QED
        BY <1>2, <1>3, <1>5, <2>1, <4>1
    <3>3. QED
      BY <3>1, <3>2
  <2>3. QED
    BY <1>3, <2>1, <2>2, SeqEqual DEF a
<1>8. DeclaredOf(d) = Append(DeclaredOf(c), {})
  <2> DEFINE a == Append(DeclaredOf(c), {})
  <2>1. /\ a \in Seq(SUBSET Name) /\ Len(a) = l + 1 /\ a[l + 1] = {}
        /\ \A i \in 1 .. l : a[i] = DeclaredOf(c)[i]
    <3>1. {} \in SUBSET Name
      OBVIOUS
    <3>2. QED
      BY <1>2, <3>1, AppendProperties
  <2> HIDE DEF a
  <2>2. ASSUME NEW i \in 1 .. l + 1 PROVE DeclaredOf(d)[i] = a[i]
    <3>1. CASE i = l + 1
      BY <1>1, <1>3, <2>1, <3>1
    <3>2. CASE i # l + 1
      <4>1. i \in 1 .. l
        BY <1>1, <3>2
      <4>2. QED
        BY <1>1, <1>2, <1>3, <2>1, <4>1
    <3>3. QED
      BY <3>1, <3>2
  <2>3. QED
    BY <1>3, <2>1, <2>2, SeqEqual DEF a
<1>9. QED
  BY <1>7, <1>8 DEF d, l

LEMMA PopEnv ==
  ASSUME NEW c, Chain(c), Len(c) # 1
  PROVE  /\ VisibleOf(Pop(c)) = SubSeq(VisibleOf(c), 1, Len(c) - 1)
         /\ DeclaredOf(Pop(c)) = SubSeq(DeclaredOf(c), 1, Len(c) - 1)
<1> DEFINE d == Pop(c)
           l == Len(c) - 1
<1>1. /\ Chain(d) /\ Len(d) = l /\ l \in 1 .. Len(c) /\ \A k \in 1 .. l : d[k] = c[k]
      /\ Len(c) \in Nat
  BY PopFacts, ChainFacts
<1>2. /\ VisibleOf(c) \in Seq(Meanings) /\ Len(VisibleOf(c)) = Len(c)
      /\ \A k \in 1 .. Len(c) : VisibleOf(c)[k] = Meaning(c, k)
      /\ DeclaredOf(c) \in Seq(SUBSET Name) /\ Len(DeclaredOf(c)) = Len(c)
      /\ \A k \in 1 .. Len(c) : DeclaredOf(c)[k] = DOMAIN c[k]
  BY EnvFacts
<1>3. /\ VisibleOf(d) \in Seq(Meanings) /\ Len(VisibleOf(d)) = l
      /\ \A k \in 1 .. l : VisibleOf(d)[k] = Meaning(d, k)
      /\ DeclaredOf(d) \in Seq(SUBSET Name) /\ Len(DeclaredOf(d)) = l
      /\ \A k \in 1 .. l : DeclaredOf(d)[k] = DOMAIN d[k]
  BY <1>1, EnvFacts
<1>4. /\ l \in Int /\ 1 \in Int /\ 1 <= l /\ l - 1 + 1 = l
      /\ \A i \in 1 .. l : 1 + i - 1 = i /\ i \in 1 .. Len(c)
  <2>1. l \in 1 .. Len(c) /\ Len(c) \in Nat
    BY <1>1
  <2> HIDE DEF l
  <2>2. QED
    BY <2>1
<1> HIDE DEF d, l
<1>5. ASSUME NEW k \in 1 .. l PROVE Meaning(d, k) = Meaning(c, k)
  <2>1. \A j \in 1 .. k : j \in 1 .. l
    BY <1>4
  <2>2. \A j \in 1 .. k : d[j] = c[j]
    BY <1>1, <2>1
  <2>3. k \in 1 .. Len(c) /\ k \in 1 .. Len(d)
    BY <1>1, <1>4
  <2>4. QED
    BY <1>1, <2>2, <2>3, PrefixSame
<1>6. VisibleOf(d) = SubSeq(VisibleOf(c), 1, l)
  <2> DEFINE s == SubSeq(VisibleOf(c), 1, l)
  <2>1. \A i \in 1 .. l : VisibleOf(c)[i] \in Meanings
    BY <1>2, <1>4, MeaningType
  <2>2. /\ s \in Seq(Meanings) /\ Len(s) = IF 1 <= l THEN l - 1 + 1 ELSE 0
        /\ \A i \in 1 .. l - 1 + 1 : s[i] = VisibleOf(c)[1 + i - 1]
    BY <1>4, <2>1, SubSeqProperties
  <2>3. Len(s) = l /\ \A i \in 1 .. l : s[i] = VisibleOf(c)[i]
    BY <1>4, <2>2
  <2> HIDE DEF s
  <2>4. \A i \in 1 .. l : VisibleOf(d)[i] = s[i]
    BY <1>2, <1>3, <1>4, <1>5, <2>3
  <2>5. QED
    BY <1>3, <2>2, <2>3, <2>4, SeqEqual DEF s
<1>7. DeclaredOf(d) = SubSeq(DeclaredOf(c), 1, l)
  <2> DEFINE s == SubSeq(DeclaredOf(c), 1, l)
  <2>1. \A i \in 1 .. l : DeclaredOf(c)[i] \in SUBSET Name
    BY <1>2, <1>4, ElementOfSeq
  <2>2. /\ s \in Seq(SUBSET Name) /\ Len(s) = IF 1 <= l THEN l - 1 + 1 ELSE 0
        /\ \A i \in 1 .. l - 1 + 1 : s[i] = DeclaredOf(c)[1 + i - 1]
    BY <1>4, <2>1, SubSeqProperties
  <2>3. Len(s) = l /\ \A i \in 1 .. l : s[i] = DeclaredOf(c)[i]
    BY <1>4, <2>2
  <2> HIDE DEF s
  <2>4. \A i \in 1 .. l : DeclaredOf(d)[i] = s[i]
    BY <1>1, <1>2, <1>3, <1>4, <2>3
  <2>5. QED
    BY <1>3, <2>2, <2>3, <2>4, SeqEqual DEF s
<1>8. QED
  BY <1>6, <1>7 DEF d, l

LEMMA SameLevels ==
  ASSUME NEW c, Chain(c), NEW d, Chain(d), Len(d) = Len(c),
         NEW f, f \in Seq(Meanings), Len(f) = Len(c),
         \A k \in 1 .. Len(c) : Meaning(d, k) = f[k]
  PROVE  VisibleOf(d) = f
<1>1. /\ VisibleOf(d) \in Seq(Meanings) /\ Len(VisibleOf(d)) = Len(d)
      /\ \A k \in 1 .. Len(d) : VisibleOf(d)[k] = Meaning(d, k)
  BY EnvFacts
<1>2. QED
  BY <1>1, SeqEqual

LEMMA SameDeclared ==
  ASSUME NEW c, Chain(c), NEW d, Chain(d), Len(d) = Len(c),
         NEW f, f \in Seq(SUBSET Name), Len(f) = Len(c),
         \A k \in 1 .. Len(c) : DOMAIN d[k] = f[k]
  PROVE  DeclaredOf(d) = f
<1>1. /\ DeclaredOf(d) \in Seq(SUBSET Name) /\ Len(DeclaredOf(d)) = Len(d)
      /\ \A k \in 1 .. Len(d) : DeclaredOf(d)[k] = DOMAIN d[k]
  BY EnvFacts
<1>2. QED
  BY <1>1, SeqEqual

LEMMA BindDeclared ==
  ASSUME NEW c, Chain(c), NEW l \in 1 .. Len(c), NEW n \in Name, NEW v \in Value
  PROVE  DeclaredOf(Bind(c, l, n, v)) = [DeclaredOf(c) EXCEPT ![l] = @ \cup {n}]
<1> DEFINE d == Bind(c, l, n, v)
           f == [DeclaredOf(c) EXCEPT ![l] = @ \cup {n}]
           e == DeclaredOf(c)[l] \cup {n}
<1>1. /\ Chain(d) /\ Len(d) = Len(c) /\ \A k \in 1 .. Len(c) : k # l => d[k] = c[k]
      /\ DOMAIN d[l] = DOMAIN c[l] \cup {n}
  BY BindFacts
<1>2. /\ DeclaredOf(c) \in Seq(SUBSET Name) /\ Len(DeclaredOf(c)) = Len(c)
      /\ \A k \in 1 .. Len(c) : DeclaredOf(c)[k] = DOMAIN c[k]
  BY EnvFacts
<1>3. e \in SUBSET Name
  BY <1>2, ElementOfSeq
<1>4. f = [DeclaredOf(c) EXCEPT ![l] = e]
  OBVIOUS
<1>5. /\ f \in Seq(SUBSET Name) /\ Len(f) = Len(c)
      /\ \A k \in 1 .. Len(c) : f[k] = IF k = l THEN e ELSE DeclaredOf(c)[k]
  <2> HIDE DEF e, f
  <2>1. QED
    BY <1>2, <1>3, <1>4, ExceptSeq
<1> HIDE DEF d, f
<1>6. \A k \in 1 .. Len(c) : DOMAIN d[k] = f[k]
  BY <1>1, <1>2, <1>5
<1>7. QED
  BY <1>1, <1>5, <1>6, SameDeclared DEF d, f

LEMMA InsertEnv ==
  ASSUME NEW c, Chain(c), NEW n \in Name, NEW v \in Value
  PROVE  /\ VisibleOf(Insert(c, n, v)) = [VisibleOf(c) EXCEPT ![Len(c)][n] = v]
         /\ DeclaredOf(Insert(c, n, v)) = [DeclaredOf(c) EXCEPT ![Len(c)] = @ \cup {n}]
<1> DEFINE l == Len(c)
           d == Bind(c, l, n, v)
           e == [VisibleOf(c)[l] EXCEPT ![n] = v]
           f == [VisibleOf(c) EXCEPT ![l] = e]
<1>1. l \in Nat \ {0} /\ l \in 1 .. Len(c) /\ \A k \in 1 .. l : k # l => \A j \in 1 .. k : j # l
  BY ChainFacts
<1>2. Insert(c, n, v) = d
  BY DEF Insert
<1>3. /\ Chain(d) /\ Len(d) = Len(c) /\ \A k \in 1 .. Len(c) : k # l => d[k] = c[k]
      /\ DOMAIN d[l] = DOMAIN c[l] \cup {n} /\ d[l][n] = v
      /\ \A m \in DOMAIN c[l] \ {n} : d[l][m] = c[l][m]
  BY <1>1, BindFacts
<1>4. DeclaredOf(d) = [DeclaredOf(c) EXCEPT ![Len(c)] = @ \cup {n}]
  BY <1>1, BindDeclared
<1>5. /\ VisibleOf(c) \in Seq(Meanings) /\ Len(VisibleOf(c)) = Len(c)
      /\ \A k \in 1 .. Len(c) : VisibleOf(c)[k] = Meaning(c, k)
  BY EnvFacts
<1>6. VisibleOf(c)[l] \in Meanings /\ e \in Meanings
  BY <1>1, <1>5, MeaningType DEF Meanings
<1>7. /\ f \in Seq(Meanings) /\ Len(f) = Len(c)
      /\ \A k \in 1 .. Len(c) : f[k] = IF k = l THEN e ELSE VisibleOf(c)[k]
  <2> HIDE DEF e
  <2>1. QED
    BY <1>1, <1>5, <1>6, ExceptSeq
<1>8. \A m \in Name : e[m] = IF m = n THEN v ELSE Meaning(c, l)[m]
  BY <1>1, <1>5, <1>6 DEF Meanings
<1>9. [VisibleOf(c) EXCEPT ![Len(c)][n] = v] = f
  OBVIOUS
<1> HIDE DEF d, e, f
<1>10. ASSUME NEW k \in 1 .. Len(c) PROVE Meaning(d, k) = f[k]
  <2>1. CASE k # l
    <3>1. \A j \in 1 .. k : j \in 1 .. Len(c) /\ j # l
      BY <1>1, <2>1
    <3>2. Meaning(d, k) = Meaning(c, k)
      BY <1>3, <3>1, PrefixSame
    <3>3. QED
      BY <1>5, <1>7, <2>1, <3>2
  <2>2. CASE k = l
    <3>1. ASSUME NEW m \in Name PROVE Meaning(d, l)[m] = e[m]
      <4>1. CASE m = n
        <5>1. n \in DOMAIN d[l] /\ l \in 1 .. Len(d)
          BY <1>1, <1>3
        <5>2. Meaning(d, l)[n] = d[l][n]
          BY <1>3, <5>1, MeaningHere
        <5>3. QED
          BY <1>3, <1>8, <4>1, <5>2
      <4>2. CASE m # n
        <5>1. Have(d, l, m) = Have(c, l, m)
          BY <1>3, <4>2 DEF Have
        <5>2. \A j \in Have(c, l, m) : d[j][m] = c[j][m]
          BY <1>3, <4>2 DEF Have
        <5>3. Meaning(d, l)[m] = Meaning(c, l)[m]
          BY <1>1, <1>3, <5>1, <5>2, MeaningSame
        <5>4. QED
          BY <1>8, <4>2, <5>3
      <4>3. QED
        BY <4>1, <4>2
    <3>2. e = [m \in Name |-> e[m]]
      BY <1>6 DEF Meanings
    <3>3. Meaning(d, l) = [m \in Name |-> Meaning(d, l)[m]]
      BY DEF Meaning
    <3>4. Meaning(d, l) = e
      BY <3>1, <3>2, <3>3
    <3>5. QED
      BY <1>7, <2>2, <3>4
  <2>3. QED
    BY <2>1, <2>2
<1>11. VisibleOf(d) = f
  BY <1>3, <1>7, <1>10, SameLevels
<1>12. QED
  BY <1>2, <1>4, <1>9, <1>11

(* operator[] on a name that no level has.                                 *)
LEMMA CreateEnv ==
  ASSUME NEW c, Chain(c), NEW n \in Name, NEW v \in Value,
         \A k \in 1 .. Len(c) : n \notin DOMAIN c[k]
  PROVE  /\ VisibleOf(Bind(c, 1, n, v)) =
              [k \in 1 .. Len(c) |-> [VisibleOf(c)[k] EXCEPT ![n] = v]]
         /\ DeclaredOf(Bind(c, 1, n, v)) = [DeclaredOf(c) EXCEPT ![1] = @ \cup {n}]
<1> DEFINE d == Bind(c, 1, n, v)
<1>1. Len(c) \in Nat \ {0} /\ 1 \in 1 .. Len(c)
  BY ChainFacts
<1>2. /\ Chain(d) /\ Len(d) = Len(c) /\ \A k \in 1 .. Len(c) : k # 1 => d[k] = c[k]
      /\ DOMAIN d[1] = DOMAIN c[1] \cup {n} /\ d[1][n] = v
      /\ \A m \in DOMAIN c[1] \ {n} : d[1][m] = c[1][m]
  BY <1>1, BindFacts
<1>3. DeclaredOf(d) = [DeclaredOf(c) EXCEPT ![1] = @ \cup {n}]
  BY <1>1, BindDeclared
<1>4. \A k \in 1 .. Len(c) : VisibleOf(c)[k] = Meaning(c, k) /\ Meaning(c, k) \in Meanings
  BY EnvFacts, MeaningType
<1> HIDE DEF d
<1>5. ASSUME NEW k \in 1 .. Len(c)
      PROVE  Meaning(d, k) = [VisibleOf(c)[k] EXCEPT ![n] = v]
  <2> DEFINE e == [VisibleOf(c)[k] EXCEPT ![n] = v]
  <2>1. e = [m \in Name |-> IF m = n THEN v ELSE Meaning(c, k)[m]]
    BY <1>4 DEF Meanings
  <2>2. ASSUME NEW m \in Name
        PROVE  Meaning(d, k)[m] = IF m = n THEN v ELSE Meaning(c, k)[m]
    <3>1. CASE m = n
      <4>1. Have(d, k, n) = {1}
        BY <1>1, <1>2 DEF Have
      <4>2. \A j \in {1} : j <= 1
        OBVIOUS
      <4>3. Top({1}) = 1
        <5>1. 1 \in Nat /\ {1} \in SUBSET (1 .. 1) /\ 1 \in {1}
          OBVIOUS
        <5>2. QED
          BY <4>2, <5>1, TopUnique
      <4>4. Meaning(d, k)[n] = IF Have(d, k, n) = {} THEN Absent ELSE d[Top(Have(d, k, n))][n]
        <5>1. k \in 1 .. Len(d) /\ Chain(d)
          BY <1>2
        <5>2. QED
          BY <5>1, MeaningIs
      <4>5. Meaning(d, k)[n] = d[1][n]
        <5>1. {1} # {}
          OBVIOUS
        <5>2. QED
          BY <4>1, <4>3, <4>4, <5>1, Zenon
      <4>6. QED
        BY <1>2, <3>1, <4>5
    <3>2. CASE m # n
      <4>1. Have(d, k, m) = Have(c, k, m)
        <5>1. \A j \in 1 .. k : m \in DOMAIN d[j] <=> m \in DOMAIN c[j]
          BY <1>1, <1>2, <3>2
        <5>2. QED
          BY <5>1 DEF Have
      <4>2. \A j \in Have(c, k, m) : d[j][m] = c[j][m]
        BY <1>1, <1>2, <3>2 DEF Have
      <4>3. Meaning(d, k)[m] = Meaning(c, k)[m]
        BY <1>2, <4>1, <4>2, MeaningSame
      <4>4. QED
        BY <3>2, <4>3
    <3>3. QED
      BY <3>1, <3>2
  <2>3. Meaning(d, k) = [m \in Name |-> Meaning(d, k)[m]]
    BY DEF Meaning
  <2>4. QED
    BY <2>1, <2>2, <2>3
<1>6. VisibleOf(d) = [k \in 1 .. Len(c) |-> [VisibleOf(c)[k] EXCEPT ![n] = v]]
  <2>1. DOMAIN d = 1 .. Len(c)
    BY <1>2, ChainFacts
  <2>2. QED
    BY <1>5, <2>1 DEF VisibleOf
<1>7. QED
  BY <1>3, <1>6 DEF d

LEMMA ClearEnv ==
  ASSUME NEW c, Chain(c)
  PROVE  /\ VisibleOf(Clear(c)) =
              [k \in 1 .. Len(c) |-> [n \in Name |->
                 IF \E j \in 2 .. k : n \in DeclaredOf(c)[j]
                 THEN VisibleOf(c)[k][n] ELSE Absent]]
         /\ DeclaredOf(Clear(c)) = [DeclaredOf(c) EXCEPT ![1] = {}]
<1> DEFINE d == Clear(c)
           f == [DeclaredOf(c) EXCEPT ![1] = {}]
<1>1. Len(c) \in Nat \ {0} /\ 1 \in 1 .. Len(c)
  BY ChainFacts
<1>2. /\ Chain(d) /\ Len(d) = Len(c) /\ \A k \in 1 .. Len(c) : k # 1 => d[k] = c[k]
      /\ DOMAIN d[1] = {}
  BY ClearFacts
<1>3. /\ \A k \in 1 .. Len(c) : VisibleOf(c)[k] = Meaning(c, k)
      /\ DeclaredOf(c) \in Seq(SUBSET Name) /\ Len(DeclaredOf(c)) = Len(c)
      /\ \A k \in 1 .. Len(c) : DeclaredOf(c)[k] = DOMAIN c[k]
  BY EnvFacts
<1>4. /\ f \in Seq(SUBSET Name) /\ Len(f) = Len(c)
      /\ \A k \in 1 .. Len(c) : f[k] = IF k = 1 THEN {} ELSE DeclaredOf(c)[k]
  <2>1. {} \in SUBSET Name
    OBVIOUS
  <2>2. QED
    BY <1>1, <1>3, <2>1, ExceptSeq
<1> HIDE DEF d, f
<1>5. DeclaredOf(d) = f
  <2>1. \A k \in 1 .. Len(c) : DOMAIN d[k] = f[k]
    BY <1>2, <1>3, <1>4
  <2>2. QED
    BY <1>2, <1>4, <2>1, SameDeclared
<1>6. ASSUME NEW k \in 1 .. Len(c), NEW n \in Name
      PROVE  Meaning(d, k)[n] = IF \E j \in 2 .. k : n \in DeclaredOf(c)[j]
                                THEN VisibleOf(c)[k][n] ELSE Absent
  <2>1. /\ \A j \in 2 .. k : j \in 1 .. Len(c) /\ j \in 1 .. k /\ j # 1
        /\ \A j \in 1 .. k : j # 1 => j \in 2 .. k
        /\ \A j \in 1 .. k : j \in 1 .. Len(c)
        /\ k \in Nat
    BY <1>1
  <2>2. Have(d, k, n) = {j \in 2 .. k : n \in DOMAIN c[j]}
    BY <1>2, <2>1 DEF Have
  <2>3. CASE \E j \in 2 .. k : n \in DeclaredOf(c)[j]
    <3> DEFINE t == Top(Have(d, k, n))
    <3>1. Have(d, k, n) # {}
      BY <1>3, <2>1, <2>2, <2>3
    <3>2. t \in Have(d, k, n) /\ \A j \in Have(d, k, n) : j <= t
      <4>1. Have(d, k, n) \in SUBSET (1 .. k)
        BY DEF Have
      <4>2. QED
        BY <2>1, <3>1, <4>1, TopFacts
    <3>3. t \in 2 .. k /\ n \in DOMAIN c[t] /\ t \in 1 .. Len(c) /\ d[t] = c[t]
      BY <1>2, <2>1, <2>2, <3>2
    <3> HIDE DEF t
    <3>4. t \in Have(c, k, n) /\ \A j \in Have(c, k, n) : j <= t
      <4>1. t \in Have(c, k, n)
        BY <2>1, <3>3 DEF Have
      <4>2. ASSUME NEW j \in Have(c, k, n) PROVE j <= t
        <5>1. j \in 1 .. k /\ n \in DOMAIN c[j]
          BY DEF Have
        <5>2. CASE j = 1
          BY <3>3, <5>2
        <5>3. CASE j # 1
          BY <2>1, <2>2, <3>2, <5>1, <5>3
        <5>4. QED
          BY <5>2, <5>3
      <4>3. QED
        BY <4>1, <4>2
    <3>5. Top(Have(c, k, n)) = t
      <4>1. Have(c, k, n) \in SUBSET (1 .. k)
        BY DEF Have
      <4>2. QED
        BY <2>1, <3>4, <4>1, TopUnique
    <3>6. Meaning(c, k)[n] = c[t][n]
      BY <3>4, <3>5, MeaningIs
    <3>7. Meaning(d, k)[n] = d[t][n]
      BY <1>2, <3>1, MeaningIs DEF t
    <3>8. QED
      BY <1>3, <2>3, <3>3, <3>6, <3>7
  <2>4. CASE ~ \E j \in 2 .. k : n \in DeclaredOf(c)[j]
    <3>1. Have(d, k, n) = {}
      BY <1>3, <2>1, <2>2, <2>4
    <3>2. Meaning(d, k)[n] = Absent
      BY <1>2, <3>1, MeaningIs
    <3>3. QED
      BY <2>4, <3>2
  <2>5. QED
    BY <2>3, <2>4
<1>7. VisibleOf(d) = [k \in 1 .. Len(c) |-> [n \in Name |->
                        IF \E j \in 2 .. k : n \in DeclaredOf(c)[j]
                        THEN VisibleOf(c)[k][n] ELSE Absent]]
  <2>1. DOMAIN d = 1 .. Len(c)
    BY <1>2, ChainFacts
  <2>2. ASSUME NEW k \in 1 .. Len(c)
        PROVE  Meaning(d, k) = [n \in Name |->
                 IF \E j \in 2 .. k : n \in DeclaredOf(c)[j]
                 THEN VisibleOf(c)[k][n] ELSE Absent]
    <3>1. Meaning(d, k) = [n \in Name |-> Meaning(d, k)[n]]
      BY DEF Meaning
    <3>2. QED
      BY <1>6, <3>1, Zenon
  <2>3. QED
    BY <2>1, <2>2 DEF VisibleOf
<1>8. QED
  BY <1>5, <1>7 DEF d, f

-----------------------------------------------------------------------------
(* The refinement, written out: each action of LexEnv, on what the chain   *)
(* stands for.                                                             *)
Visible == VisibleOf(scopes)
Declared == DeclaredOf(scopes)
Outcome == status
Depth == Len(Visible)
GoesOn == Outcome = "running" /\ Outcome' = Outcome

LEMMA EnvInit ==
  ASSUME Visible = <<[n \in Name |-> Absent]>>, Declared = <<{}>>, answer = Absent,
         Outcome = "running"
  PROVE  Env!Init
BY Zenon DEF Env!Init, Env!Nothing, MeaningAt, Meaning, Visible, Declared, Outcome,
             VisibleOf, DeclaredOf

LEMMA EnvEnter ==
  ASSUME GoesOn, Visible' = Append(Visible, Visible[Depth]),
         Declared' = Append(Declared, {}), answer' = Absent
  PROVE  Env!Next
<1>1. Env!Enter
  BY Zenon DEF Env!Enter, Env!Running, Env!here, Env!depth, MeaningAt, Meaning, Visible, Declared,
               Outcome, Depth, GoesOn, VisibleOf, DeclaredOf
<1>2. QED
  BY <1>1 DEF Env!Next

LEMMA EnvLeave ==
  ASSUME GoesOn, Depth > 1, Visible' = SubSeq(Visible, 1, Depth - 1),
         Declared' = SubSeq(Declared, 1, Depth - 1), answer' = 0
  PROVE  Env!Next
<1>1. Env!Leave
  BY Zenon DEF Env!Leave, Env!Running, Env!depth, MeaningAt, Meaning, Visible, Declared,
               Outcome, Depth, GoesOn, VisibleOf, DeclaredOf
<1>2. QED
  BY <1>1 DEF Env!Next

LEMMA EnvLeaveLast ==
  ASSUME GoesOn, Depth = 1, Visible' = <<[n \in Name |-> Absent]>>,
         Declared' = <<{}>>, answer' = 1
  PROVE  Env!Next
<1>1. Env!LeaveLast
  BY Zenon DEF Env!LeaveLast, Env!Running, Env!depth, Env!Nothing, MeaningAt, Meaning, Visible,
               Declared, Outcome, Depth, GoesOn, VisibleOf, DeclaredOf
<1>2. QED
  BY <1>1 DEF Env!Next

LEMMA EnvDeclare ==
  ASSUME NEW n \in Name, NEW v \in Value, GoesOn,
         n \in Declared[Depth] => Visible[Depth][n] = v,
         Visible' = [Visible EXCEPT ![Depth][n] = v],
         Declared' = [Declared EXCEPT ![Depth] = @ \cup {n}], answer' = Absent
  PROVE  Env!Next
<1>1. Env!Declare(n, v)
  BY Zenon DEF Env!Declare, Env!Running, Env!here, Env!depth, MeaningAt, Meaning, Visible,
               Declared, Outcome, Depth, GoesOn, VisibleOf, DeclaredOf
<1>2. QED
  BY <1>1 DEF Env!Next

LEMMA EnvRedefine ==
  ASSUME NEW n \in Name, NEW v \in Value, GoesOn, n \in Declared[Depth],
         Visible' = [Visible EXCEPT ![Depth][n] = v], Declared' = Declared,
         answer' = Absent
  PROVE  Env!Next
<1>1. Env!Redefine(n, v)
  BY Zenon DEF Env!Redefine, Env!Running, Env!depth, MeaningAt, Meaning, Visible, Declared,
               Outcome, Depth, GoesOn, VisibleOf, DeclaredOf
<1>2. QED
  BY <1>1 DEF Env!Next

LEMMA EnvAsk ==
  ASSUME NEW n \in Name, GoesOn, answer' = Visible[Depth][n], Visible' = Visible,
         Declared' = Declared
  PROVE  Env!Next
<1>1. Env!Ask(n)
  BY Zenon DEF Env!Ask, Env!Running, Env!here, Env!depth, MeaningAt, Meaning, Visible, Declared,
               Outcome, Depth, GoesOn, VisibleOf, DeclaredOf
<1>2. QED
  BY <1>1 DEF Env!Next

LEMMA EnvHowOften ==
  ASSUME NEW n \in Name, GoesOn, Visible' = Visible, Declared' = Declared,
         answer' = Cardinality({k \in 1 .. Depth : n \in Declared[k]})
  PROVE  Env!Next
<1>1. Env!HowOften(n)
  BY Zenon DEF Env!HowOften, Env!Running, Env!depth, Env!Cardinality, Cardinality, MeaningAt,
               Meaning, Visible, Declared, Outcome, Depth, GoesOn, VisibleOf, DeclaredOf
<1>2. QED
  BY <1>1 DEF Env!Next

LEMMA EnvAskOrDeclare ==
  ASSUME NEW n \in Name, GoesOn, Visible[Depth][n] = Absent,
         Visible' = [k \in 1 .. Depth |-> [Visible[k] EXCEPT ![n] = Default]],
         Declared' = [Declared EXCEPT ![1] = @ \cup {n}], answer' = Default
  PROVE  Env!Next
<1>1. Env!AskOrDeclare(n)
  BY Zenon DEF Env!AskOrDeclare, Env!Running, Env!here, Env!depth, MeaningAt, Meaning, Visible,
               Declared, Outcome, Depth, GoesOn, VisibleOf, DeclaredOf
<1>2. QED
  BY <1>1 DEF Env!Next

LEMMA EnvForget ==
  ASSUME GoesOn, Declared' = [Declared EXCEPT ![1] = {}], answer' = Absent,
         Visible' = [k \in 1 .. Depth |-> [n \in Name |->
                       IF \E j \in 2 .. k : n \in Declared[j]
                       THEN Visible[k][n] ELSE Absent]]
  PROVE  Env!Next
<1>1. Env!Forget
  BY Zenon DEF Env!Forget, Env!Running, Env!depth, MeaningAt, Meaning, Visible, Declared,
               Outcome, Depth, GoesOn, VisibleOf, DeclaredOf
<1>2. QED
  BY <1>1 DEF Env!Next

Stops(how) == /\ Outcome = "running" /\ Outcome' = how
              /\ UNCHANGED <<Visible, Declared, answer>>

LEMMA EnvBreak ==
  ASSUME Stops("aborted"), Depth > 1
  PROVE  Env!Next
<1>1. Env!Break
  BY Zenon DEF Env!Break, Env!Ends, Env!depth, MeaningAt, Meaning, Visible, Declared,
               Outcome, Depth, Stops, VisibleOf, DeclaredOf
<1>2. QED
  BY <1>1 DEF Env!Next

LEMMA EnvNoName ==
  ASSUME Stops("symbol")
  PROVE  Env!Next
<1>1. Env!NoName
  BY Zenon DEF Env!NoName, Env!Ends, MeaningAt, Meaning, Visible, Declared, Outcome, Stops,
               VisibleOf, DeclaredOf
<1>2. QED
  BY <1>1 DEF Env!Next

LEMMA EnvRefuseRedefinition ==
  ASSUME NEW n \in Name, n \notin Declared[Depth], Stops("set")
  PROVE  Env!Next
<1>1. Env!RefuseRedefinition(n)
  BY Zenon DEF Env!RefuseRedefinition, Env!Ends, Env!depth, MeaningAt, Meaning, Visible,
               Declared, Outcome, Depth, Stops, VisibleOf, DeclaredOf
<1>2. QED
  BY <1>1 DEF Env!Next

LEMMA EnvContradict ==
  ASSUME NEW n \in Name, NEW v \in Value, n \in Declared[Depth],
         Visible[Depth][n] # v, Stops("insert")
  PROVE  Env!Next
<1>1. Env!Contradict(n, v)
  BY Zenon DEF Env!Contradict, Env!Ends, Env!here, Env!depth, MeaningAt, Meaning, Visible,
               Declared, Outcome, Depth, Stops, VisibleOf, DeclaredOf
<1>2. QED
  BY <1>1 DEF Env!Next

LEMMA EnvStutter ==
  ASSUME UNCHANGED <<Visible, Declared, answer, Outcome>>
  PROVE  UNCHANGED Env!vars
BY Zenon DEF Env!vars, MeaningAt, Meaning, Visible, Declared, Outcome, VisibleOf, DeclaredOf

-----------------------------------------------------------------------------
LEMMA Continues ==
  ASSUME TypeOK, Running, status' = status
  PROVE  GoesOn /\ status' \in {"running", "aborted"} \cup Errors
BY DEF TypeOK, Running, GoesOn, Outcome, Errors

LEMMA DepthIs ==
  ASSUME TypeOK
  PROVE  /\ Chain(scopes) /\ Depth = Len(scopes) /\ Len(scopes) \in Nat \ {0}
         /\ Depth \in 1 .. Len(scopes)
         /\ \A k \in 1 .. Len(scopes) : Visible[k] = Meaning(scopes, k)
         /\ \A k \in 1 .. Len(scopes) : Declared[k] = DOMAIN scopes[k]
<1>1. Chain(scopes)
  BY DEF TypeOK, Chain
<1>2. QED
  BY <1>1, EnvFacts, ChainFacts DEF Depth, Visible, Declared

LEMMA KeptEnv ==
  ASSUME scopes' = scopes
  PROVE  Visible' = Visible /\ Declared' = Declared
BY DEF Visible, Declared

LEMMA TypeFrom ==
  ASSUME Chain(scopes'), answer' \in Value \cup {Absent} \cup Nat,
         status' \in {"running", "aborted"} \cup Errors
  PROVE  TypeOK'
BY DEF TypeOK, Chain

LEMMA EndsStep ==
  ASSUME TypeOK, Running, NEW how \in {"aborted"} \cup Errors, Ends(how)
  PROVE  TypeOK' /\ Stops(how)
<1>1. Chain(scopes') /\ answer' \in Value \cup {Absent} \cup Nat
  BY DEF TypeOK, Ends, Chain
<1>2. status' \in {"running", "aborted"} \cup Errors
  BY DEF Ends
<1>3. Stops(how)
  BY KeptEnv DEF Running, Ends, Outcome, Stops
<1>4. QED
  BY <1>1, <1>2, <1>3, TypeFrom

LEMMA clearStep == ASSUME TypeOK, clear PROVE TypeOK' /\ Env!Next
<1>1. /\ GoesOn /\ scopes' = Clear(scopes) /\ answer' = Absent
      /\ status' \in {"running", "aborted"} \cup Errors
  BY Continues DEF clear, Becomes
<1>2. Chain(scopes) /\ Depth = Len(scopes)
  BY DepthIs
<1>3. Chain(scopes')
  BY <1>1, <1>2, ClearFacts
<1>4. Visible' = [k \in 1 .. Depth |-> [n \in Name |->
                    IF \E j \in 2 .. k : n \in Declared[j] THEN Visible[k][n] ELSE Absent]]
  BY <1>1, <1>2, ClearEnv, Zenon DEF Visible, Declared
<1>5. Declared' = [Declared EXCEPT ![1] = {}]
  BY <1>1, <1>2, ClearEnv DEF Declared
<1>6. Env!Next
  BY <1>1, <1>4, <1>5, EnvForget
<1>7. QED
  BY <1>1, <1>3, <1>6, TypeFrom

LEMMA pushStep == ASSUME TypeOK, push PROVE TypeOK' /\ Env!Next
<1>1. /\ GoesOn /\ scopes' = Push(scopes) /\ answer' = Absent
      /\ status' \in {"running", "aborted"} \cup Errors
  BY Continues DEF push, Becomes
<1>2. Chain(scopes) /\ Depth = Len(scopes)
  BY DepthIs
<1>3. Chain(scopes')
  BY <1>1, <1>2, PushFacts
<1>4. /\ Visible' = Append(Visible, Visible[Depth])
      /\ Declared' = Append(Declared, {})
  BY <1>1, <1>2, PushEnv DEF Visible, Declared
<1>5. Env!Next
  BY <1>1, <1>4, EnvEnter
<1>6. QED
  BY <1>1, <1>3, <1>5, TypeFrom

LEMMA popStep == ASSUME TypeOK, pop PROVE TypeOK' /\ Env!Next
<1>1. /\ GoesOn /\ scopes' = Pop(scopes)
      /\ answer' = IF Len(scopes) = 1 THEN 1 ELSE 0
      /\ status' \in {"running", "aborted"} \cup Errors
  BY Continues DEF pop, Becomes
<1>2. Chain(scopes) /\ Depth = Len(scopes) /\ Len(scopes) \in Nat \ {0}
  BY DepthIs
<1>3. Chain(scopes')
  BY <1>1, <1>2, PopFacts
<1>4. Env!Next
  <2>1. CASE Len(scopes) = 1
    <3>1. scopes' = NewTable
      BY <1>1, <1>2, <2>1, PopFacts
    <3>2. Visible' = <<[n \in Name |-> Absent]>> /\ Declared' = <<{}>>
      BY <3>1, NewEnv, Zenon DEF Visible, Declared
    <3>3. QED
      BY <1>1, <1>2, <2>1, <3>2, EnvLeaveLast
  <2>2. CASE Len(scopes) # 1
    <3>1. /\ Visible' = SubSeq(Visible, 1, Depth - 1)
          /\ Declared' = SubSeq(Declared, 1, Depth - 1)
      BY <1>1, <1>2, <2>2, PopEnv DEF Visible, Declared
    <3>2. Depth > 1 /\ answer' = 0
      BY <1>1, <1>2, <2>2
    <3>3. QED
      BY <1>1, <3>1, <3>2, EnvLeave
  <2>3. QED
    BY <2>1, <2>2
<1>5. QED
  BY <1>1, <1>3, <1>4, TypeFrom

LEMMA BadSymbolStep == ASSUME TypeOK, BadSymbol PROVE TypeOK' /\ Env!Next
BY EndsStep, EnvNoName DEF BadSymbol, Errors

(* The innermost map, in the environment.                                  *)
LEMMA InnermostEnv ==
  ASSUME TypeOK
  PROVE  /\ Declared[Depth] = DOMAIN Innermost(scopes)
         /\ \A n \in Name : n \in DOMAIN Innermost(scopes) =>
                             Visible[Depth][n] = Innermost(scopes)[n]
<1>1. /\ Chain(scopes) /\ Depth \in 1 .. Len(scopes) /\ Depth = Len(scopes)
      /\ Visible[Depth] = Meaning(scopes, Depth) /\ Declared[Depth] = DOMAIN scopes[Depth]
      /\ Innermost(scopes) = scopes[Depth]
  BY DepthIs, ChainFacts
<1>2. ASSUME NEW n \in Name, n \in DOMAIN scopes[Depth]
      PROVE  Visible[Depth][n] = scopes[Depth][n]
  BY <1>1, <1>2, MeaningHere
<1>3. QED
  BY <1>1, <1>2

(* What insert() and set() do to the environment once they accept.         *)
LEMMA AcceptedStep ==
  ASSUME TypeOK, Running, NEW n \in Name, NEW v \in Value,
         Becomes(Insert(scopes, n, v), Absent)
  PROVE  /\ GoesOn /\ TypeOK' /\ answer' = Absent
         /\ Visible' = [Visible EXCEPT ![Depth][n] = v]
         /\ Declared' = [Declared EXCEPT ![Depth] = @ \cup {n}]
         /\ Declared[Depth] = DOMAIN Innermost(scopes)
         /\ n \in DOMAIN Innermost(scopes) => Visible[Depth][n] = Innermost(scopes)[n]
         /\ n \in DOMAIN Innermost(scopes) => Declared' = Declared
<1>1. /\ GoesOn /\ scopes' = Insert(scopes, n, v) /\ answer' = Absent
      /\ status' \in {"running", "aborted"} \cup Errors
  BY Continues DEF Becomes
<1>2. /\ Chain(scopes) /\ Depth = Len(scopes) /\ Depth \in 1 .. Len(scopes)
      /\ Visible[Depth] = Meaning(scopes, Depth) /\ Declared[Depth] = DOMAIN scopes[Depth]
      /\ Innermost(scopes) = scopes[Depth]
  BY DepthIs, ChainFacts
<1>3. Chain(scopes')
  BY <1>1, <1>2, BindFacts DEF Insert
<1>4. /\ Visible' = [Visible EXCEPT ![Depth][n] = v]
      /\ Declared' = [Declared EXCEPT ![Depth] = @ \cup {n}]
  BY <1>1, <1>2, InsertEnv DEF Visible, Declared
<1>5. n \in DOMAIN scopes[Depth] => Visible[Depth][n] = scopes[Depth][n]
  BY <1>2, MeaningHere
<1>6. ASSUME n \in DOMAIN scopes[Depth] PROVE Declared' = Declared
  <2>1. Declared[Depth] \cup {n} = Declared[Depth]
    BY <1>2, <1>6
  <2>2. Declared = [k \in DOMAIN Declared |-> Declared[k]]
    BY DEF Declared, DeclaredOf
  <2>3. QED
    BY <1>4, <2>1, <2>2
<1>7. QED
  BY <1>1, <1>2, <1>3, <1>4, <1>5, <1>6, TypeFrom

LEMMA setStep ==
  ASSUME TypeOK, NEW s \in Spelling, NEW v \in Value, set(s, v)
  PROVE  TypeOK' /\ Env!Next
<1>1. Fold[s] \in Name /\ Running
  BY SymTableAssumption DEF set
<1>2. CASE CanSet(scopes, Fold[s])
  <2>1. Becomes(Insert(scopes, Fold[s], v), Absent) /\ Fold[s] \in DOMAIN Innermost(scopes)
    BY <1>2 DEF set, CanSet
  <2>2. /\ GoesOn /\ TypeOK' /\ answer' = Absent /\ Fold[s] \in Declared[Depth]
        /\ Visible' = [Visible EXCEPT ![Depth][Fold[s]] = v] /\ Declared' = Declared
    BY <1>1, <2>1, AcceptedStep
  <2>3. Env!Next
    BY <1>1, <2>2, EnvRedefine
  <2>4. QED
    BY <2>2, <2>3
<1>3. CASE ~CanSet(scopes, Fold[s])
  <2>1. Ends("set") /\ "set" \in Errors /\ Fold[s] \notin DOMAIN Innermost(scopes)
    BY <1>3 DEF set, Errors, CanSet
  <2>2. Fold[s] \notin Declared[Depth]
    BY <2>1, InnermostEnv
  <2>3. TypeOK' /\ Stops("set")
    BY <1>1, <2>1, EndsStep
  <2>4. QED
    BY <1>1, <2>2, <2>3, EnvRefuseRedefinition
<1>4. QED
  BY <1>2, <1>3

LEMMA insertStep ==
  ASSUME TypeOK, NEW s \in Spelling, NEW v \in Value, insert(s, v)
  PROVE  TypeOK' /\ Env!Next
<1>1. Fold[s] \in Name /\ Running
  BY SymTableAssumption DEF insert
<1>2. CASE CanInsert(scopes, Fold[s], v)
  <2>1. /\ Becomes(Insert(scopes, Fold[s], v), Absent)
        /\ Fold[s] \in DOMAIN Innermost(scopes) => Innermost(scopes)[Fold[s]] = v
    BY <1>2 DEF insert, CanInsert
  <2>2. /\ GoesOn /\ TypeOK' /\ answer' = Absent
        /\ Fold[s] \in Declared[Depth] => Visible[Depth][Fold[s]] = v
        /\ Visible' = [Visible EXCEPT ![Depth][Fold[s]] = v]
        /\ Declared' = [Declared EXCEPT ![Depth] = @ \cup {Fold[s]}]
    BY <1>1, <2>1, AcceptedStep
  <2>3. Env!Next
    BY <1>1, <2>2, EnvDeclare
  <2>4. QED
    BY <2>2, <2>3
<1>3. CASE ~CanInsert(scopes, Fold[s], v)
  <2>1. /\ Ends("insert") /\ "insert" \in Errors
        /\ Fold[s] \in DOMAIN Innermost(scopes) /\ Innermost(scopes)[Fold[s]] # v
    BY <1>3 DEF insert, Errors, CanInsert
  <2>2. Fold[s] \in Declared[Depth] /\ Visible[Depth][Fold[s]] # v
    BY <1>1, <2>1, InnermostEnv
  <2>3. TypeOK' /\ Stops("insert")
    BY <1>1, <2>1, EndsStep
  <2>4. QED
    BY <1>1, <2>2, <2>3, EnvContradict
<1>4. QED
  BY <1>2, <1>3

(* Questions change nothing but the answer.                                *)
LEMMA AskedStep ==
  ASSUME TypeOK, Running, NEW a \in Value \cup {Absent} \cup Nat, Becomes(scopes, a)
  PROVE  /\ GoesOn /\ TypeOK' /\ answer' = a
         /\ Visible' = Visible /\ Declared' = Declared
<1>1. /\ GoesOn /\ scopes' = scopes /\ answer' = a
      /\ status' \in {"running", "aborted"} \cup Errors
  BY Continues DEF Becomes
<1>2. Chain(scopes')
  BY <1>1, DepthIs
<1>3. QED
  BY <1>1, <1>2, KeptEnv, TypeFrom

LEMMA LevelsAre ==
  ASSUME TypeOK, NEW n \in Name
  PROVE  /\ Levels(scopes, n) = {k \in 1 .. Depth : n \in Declared[k]}
         /\ Levels(scopes, n) \in SUBSET (1 .. Depth) /\ Depth \in Nat
         /\ Find(scopes, n) = Visible[Depth][n]
         /\ Find(scopes, n) \in Value \cup {Absent}
         /\ Find(scopes, n) = Absent <=> Levels(scopes, n) = {}
<1>1. /\ Chain(scopes) /\ Depth = Len(scopes) /\ Depth \in Nat /\ Depth \in 1 .. Len(scopes)
      /\ DOMAIN scopes = 1 .. Len(scopes)
      /\ \A k \in 1 .. Len(scopes) : Visible[k] = Meaning(scopes, k)
      /\ \A k \in 1 .. Len(scopes) : Declared[k] = DOMAIN scopes[k]
  BY DepthIs, ChainFacts
<1>2. Levels(scopes, n) = {k \in 1 .. Depth : n \in Declared[k]}
  BY <1>1 DEF Levels
<1>3. Find(scopes, n) = Visible[Depth][n]
  BY <1>1, FindIsMeaning
<1>4. Meaning(scopes, Depth) \in Meanings
  BY <1>1, MeaningType
<1>5. Levels(scopes, n) = Have(scopes, Depth, n)
  BY <1>1 DEF Levels, Have
<1>6. Meaning(scopes, Depth)[n] = Absent <=> Have(scopes, Depth, n) = {}
  BY <1>1, MeaningHere
<1>7. QED
  BY <1>1, <1>2, <1>3, <1>4, <1>5, <1>6 DEF Meanings

(* The comparison of iterators goes wrong inside a block only.             *)
LEMMA FoundDeep ==
  ASSUME TypeOK, NEW n \in Name, NEW k \in {1, 2}, FoundBelow(n, k)
  PROVE  Depth > 1
<1>1. Levels(scopes, n) \in SUBSET (1 .. Depth) /\ Depth \in Nat /\ Levels(scopes, n) # {}
  BY LevelsAre DEF FoundBelow
<1>2. LevelOf(scopes, n) = Top(Levels(scopes, n))
  BY DEF LevelOf, Top
<1>3. LevelOf(scopes, n) \in 1 .. Depth /\ LevelOf(scopes, n) > k
  BY <1>1, <1>2, TopFacts DEF FoundBelow
<1>4. QED
  BY <1>1, <1>3

LEMMA countStep ==
  ASSUME TypeOK, NEW s \in Spelling, count(s) PROVE TypeOK' /\ Env!Next
<1>1. Fold[s] \in Name /\ Running /\ Becomes(scopes, Count(scopes, Fold[s]))
  BY SymTableAssumption DEF count
<1>2. /\ Levels(scopes, Fold[s]) = {k \in 1 .. Depth : Fold[s] \in Declared[k]}
      /\ Levels(scopes, Fold[s]) \in SUBSET (1 .. Depth) /\ Depth \in Nat
  BY <1>1, LevelsAre
<1>3. Count(scopes, Fold[s]) \in Nat
  <2>1. IsFiniteSet(1 .. Depth)
    BY <1>2, FS_Interval
  <2>2. IsFiniteSet(Levels(scopes, Fold[s]))
    BY <1>2, <2>1, FS_Subset
  <2>3. QED
    BY <2>2, FS_CardinalityType DEF Count
<1>4. /\ GoesOn /\ TypeOK' /\ answer' = Count(scopes, Fold[s])
      /\ Visible' = Visible /\ Declared' = Declared
  BY <1>1, <1>3, AskedStep
<1>5. answer' = Cardinality({k \in 1 .. Depth : Fold[s] \in Declared[k]})
  BY <1>2, <1>4 DEF Count
<1>6. Env!Next
  BY <1>1, <1>4, <1>5, EnvHowOften
<1>7. QED
  BY <1>4, <1>6

LEMMA findStep ==
  ASSUME TypeOK, NEW s \in Spelling, find(s) PROVE TypeOK' /\ Env!Next
<1>1. Fold[s] \in Name /\ Running
  BY SymTableAssumption DEF find
<1>2. CASE Becomes(scopes, Find(scopes, Fold[s]))
  <2>1. /\ Find(scopes, Fold[s]) = Visible[Depth][Fold[s]]
        /\ Find(scopes, Fold[s]) \in Value \cup {Absent}
    BY <1>1, LevelsAre
  <2>2. /\ GoesOn /\ TypeOK' /\ answer' = Visible[Depth][Fold[s]]
        /\ Visible' = Visible /\ Declared' = Declared
    BY <1>1, <1>2, <2>1, AskedStep
  <2>3. Env!Next
    BY <1>1, <2>2, EnvAsk
  <2>4. QED
    BY <2>2, <2>3
<1>3. CASE FoundBelow(Fold[s], 2) /\ Ends("aborted")
  <2>1. Depth > 1
    BY <1>1, <1>3, FoundDeep
  <2>2. TypeOK' /\ Stops("aborted")
    BY <1>1, <1>3, EndsStep
  <2>3. QED
    BY <2>1, <2>2, EnvBreak
<1>4. QED
  BY <1>2, <1>3 DEF find

LEMMA subscriptStep ==
  ASSUME TypeOK, NEW s \in Spelling, subscript(s) PROVE TypeOK' /\ Env!Next
<1> DEFINE n == Fold[s]
<1>1. n \in Name /\ Running /\ Default \in Value
  BY SymTableAssumption DEF subscript
<1>2. /\ Levels(scopes, n) = {k \in 1 .. Depth : n \in Declared[k]}
      /\ Find(scopes, n) = Visible[Depth][n]
      /\ Find(scopes, n) \in Value \cup {Absent}
      /\ Find(scopes, n) = Absent <=> Levels(scopes, n) = {}
  BY <1>1, LevelsAre
<1>3. CASE Find(scopes, n) = Absent
  <2>1. Becomes(Bind(scopes, 1, n, Default), Default)
    BY <1>3 DEF subscript
  <2>2. /\ GoesOn /\ scopes' = Bind(scopes, 1, n, Default) /\ answer' = Default
        /\ status' \in {"running", "aborted"} \cup Errors
    BY <1>1, <2>1, Continues DEF Becomes
  <2>3. /\ Chain(scopes) /\ Depth = Len(scopes) /\ 1 \in 1 .. Len(scopes)
        /\ \A k \in 1 .. Len(scopes) : Declared[k] = DOMAIN scopes[k]
    BY DepthIs, ChainFacts
  <2>4. \A k \in 1 .. Len(scopes) : n \notin DOMAIN scopes[k]
    BY <1>2, <1>3, <2>3
  <2>5. Chain(scopes')
    BY <1>1, <2>2, <2>3, BindFacts
  <2>6. /\ Visible' = [k \in 1 .. Depth |-> [Visible[k] EXCEPT ![n] = Default]]
        /\ Declared' = [Declared EXCEPT ![1] = @ \cup {n}]
    <3> HIDE DEF n
    <3>1. QED
      BY <1>1, <2>2, <2>3, <2>4, CreateEnv DEF Visible, Declared
  <2>7. Env!Next
    BY <1>1, <1>2, <1>3, <2>2, <2>6, EnvAskOrDeclare
  <2>8. QED
    BY <1>1, <2>2, <2>5, <2>7, TypeFrom
<1>4. CASE Find(scopes, n) # Absent /\ Becomes(scopes, Find(scopes, n))
  <2>1. /\ GoesOn /\ TypeOK' /\ answer' = Visible[Depth][n]
        /\ Visible' = Visible /\ Declared' = Declared
    BY <1>1, <1>2, <1>4, AskedStep
  <2>2. QED
    BY <1>1, <2>1, EnvAsk
<1>5. CASE FoundBelow(n, 1) /\ Ends("aborted")
  <2>1. Depth > 1
    BY <1>1, <1>5, FoundDeep
  <2>2. TypeOK' /\ Stops("aborted")
    BY <1>1, <1>5, EndsStep
  <2>3. QED
    BY <2>1, <2>2, EnvBreak
<1>6. QED
  BY <1>3, <1>4, <1>5 DEF subscript

LEMMA NextStep == ASSUME TypeOK, Next PROVE TypeOK' /\ Env!Next
<1>1. ASSUME NEW s \in Spelling, count(s) \/ find(s) \/ subscript(s)
      PROVE  TypeOK' /\ Env!Next
  BY <1>1, countStep, findStep, subscriptStep
<1>2. ASSUME NEW s \in Spelling, NEW v \in Value, set(s, v) \/ insert(s, v)
      PROVE  TypeOK' /\ Env!Next
  BY <1>2, setStep, insertStep
<1>3. QED
  BY <1>1, <1>2, clearStep, pushStep, popStep, BadSymbolStep DEF Next

LEMMA InitStep == ASSUME Init PROVE TypeOK /\ Env!Init
<1>1. /\ scopes = NewTable /\ answer = Absent /\ status = "running"
      /\ Outcome = "running"
  BY DEF Init, Outcome
<1>2. Visible = <<[n \in Name |-> Absent]>> /\ Declared = <<{}>>
  BY <1>1, NewEnv, Zenon DEF Visible, Declared
<1>3. Env!Init
  BY <1>1, <1>2, EnvInit
<1>4. TypeOK
  BY <1>1, NewFacts DEF TypeOK, Chain
<1>5. QED
  BY <1>3, <1>4

LEMMA StutterStep ==
  ASSUME TypeOK, UNCHANGED vars PROVE TypeOK' /\ UNCHANGED Env!vars
<1>1. scopes' = scopes /\ answer' = answer /\ status' = status
  BY DEF vars
<1>2. UNCHANGED <<Visible, Declared, answer, Outcome>>
  BY <1>1, KeptEnv DEF Outcome
<1>3. TypeOK'
  BY <1>1 DEF TypeOK
<1>4. QED
  BY <1>2, <1>3, EnvStutter

-----------------------------------------------------------------------------
(* Whatever is called in whatever order (st-lang/symtable.hxx), a table    *)
(* keeps at least its own level, and every level holds each name at most   *)
(* once, with a value.                                                     *)
THEOREM TypeCorrect == Spec => []TypeOK
<1>1. Init => TypeOK
  BY InitStep
<1>2. TypeOK /\ [Next]_vars => TypeOK'
  BY NextStep, StutterStep
<1>3. QED
  BY <1>1, <1>2, PTL DEF Spec

(* The chain of maps is an environment with block structure: find() from   *)
(* the innermost scope outwards, insert() and set() in the innermost,      *)
(* push() and pop() never let an outer name shine through, change an outer *)
(* block, or bring back anything but what was there, for any number of     *)
(* names, values and levels.                                               *)
THEOREM ImplementsEnvironment == Spec => LexicalScoping
<1>1. Init => Env!Init
  BY InitStep
<1>2. TypeOK /\ [Next]_vars => [Env!Next]_(Env!vars)
  BY NextStep, StutterStep
<1>3. QED
  BY <1>1, <1>2, TypeCorrect, PTL DEF Spec, LexicalScoping, Env!Spec
=============================================================================

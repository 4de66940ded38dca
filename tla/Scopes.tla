------------------------------- MODULE Scopes -------------------------------
(***************************************************************************)
(* What symtable_c computes (st-lang/symtable.hxx), as operators on the    *)
(* chain a table makes with its inner_scope: level 1 is the table itself,  *)
(* each next level the inner_scope of the one before, and a level is the   *)
(* std::map _base, a function on the names it holds.                       *)
(***************************************************************************)
EXTENDS Integers, Sequences, FiniteSets

CONSTANTS Name,      \* identifiers, upper and lower case being the same
          Value,     \* the values of the table (in parser_t: token codes)
          Absent     \* what find() answers with end()

ASSUME AbsentAssumption == Absent \notin Value

Scope == UNION {[D -> Value] : D \in SUBSET Name}

EmptyScope == [n \in {} |-> Absent]

(* A table that has just been constructed.                                 *)
NewTable == <<EmptyScope>>

Innermost(chain) == chain[Len(chain)]

Levels(chain, n) == {k \in DOMAIN chain : n \in DOMAIN chain[k]}

(* Mutant: find() looks at _base before inner_scope.                       *)
LevelOf_BaseFirst(chain, n) ==
  CHOOSE k \in Levels(chain, n) : \A j \in Levels(chain, n) : k <= j

(* find() searches inner_scope before _base.                               *)
LevelOf(chain, n) ==
  CHOOSE k \in Levels(chain, n) : \A j \in Levels(chain, n) : j <= k

Find(chain, n) ==
  IF Levels(chain, n) = {} THEN Absent ELSE chain[LevelOf(chain, n)][n]

Count(chain, n) == Cardinality(Levels(chain, n))

Clear(chain) == [chain EXCEPT ![1] = EmptyScope]

Push(chain) == Append(chain, EmptyScope)

(* Mutant: pop() deletes the outermost level too.                          *)
Pop_Outermost(chain) == SubSeq(chain, 1, Len(chain) - 1)

(* The innermost level goes, unless it is the only one: that is emptied.   *)
Pop(chain) ==
  IF Len(chain) = 1 THEN NewTable ELSE SubSeq(chain, 1, Len(chain) - 1)

Bind(chain, k, n, v) ==
  [chain EXCEPT ![k] = [m \in DOMAIN @ \cup {n} |-> IF m = n THEN v ELSE @[m]]]

(* insert() calls ERROR when the innermost level has another value for the *)
(* name, set() when it has none.                                           *)
CanInsert(chain, n, v) == n \in DOMAIN Innermost(chain) => Innermost(chain)[n] = v

CanSet(chain, n) == n \in DOMAIN Innermost(chain)

Insert(chain, n, v) == Bind(chain, Len(chain), n, v)
=============================================================================

------------------------------ MODULE SymTable ------------------------------
(***************************************************************************)
(* One symtable_c of st-lang: its operations, in any order a caller may    *)
(* use them.  ERROR is error_exit: it ends the program.                    *)
(***************************************************************************)
EXTENDS Scopes

CONSTANTS Spelling,   \* the identifiers as they are written
          Fold,       \* the name a spelling is, the case ignored (nocase_c)
          Default,    \* value_t()
          MaxDepth    \* bound: the levels a chain may have

ASSUME SymTableAssumption ==
  /\ Fold \in [Spelling -> Name]
  /\ Default \in Value
  /\ MaxDepth \in Nat \ {0}

VARIABLES scopes,     \* the chain of levels
          answer,     \* what the last operation returned
          status      \* "running", or how the program ended: an iterator check, or
              \* the ERROR of one of these functions (it reports its line)

vars == <<scopes, answer, status>>

Init == scopes = NewTable /\ answer = Absent /\ status = "running"

Running == status = "running"

Errors == {"symbol", "set", "insert"}

Ends(how) == status' = how /\ UNCHANGED <<scopes, answer>>

Becomes(chain, a) == scopes' = chain /\ answer' = a /\ UNCHANGED status

(* A symbol_c that is no token_c has no name.                              *)
BadSymbol == Running /\ Ends("symbol")

clear == Running /\ Becomes(Clear(scopes), Absent)

push == Running /\ Len(scopes) < MaxDepth /\ Becomes(Push(scopes), Absent)

(* Only the level without an inner scope answers 1.                        *)
pop == /\ Running
       /\ Becomes(Pop(scopes), IF Len(scopes) = 1 THEN 1 ELSE 0)

set(s, v) ==
  /\ Running
  /\ IF CanSet(scopes, Fold[s])
     THEN Becomes(Insert(scopes, Fold[s], v), Absent)
     ELSE Ends("set")

insert(s, v) ==
  /\ Running
  /\ IF CanInsert(scopes, Fold[s], v)
     THEN Becomes(Insert(scopes, Fold[s], v), Absent)
     ELSE Ends("insert")

count(s) == Running /\ Becomes(scopes, Count(scopes, Fold[s]))

(* Iterators of different levels are compared when a name is found further *)
(* in than the next level: undefined, and fatal where iterators are        *)
(* checked.                                                                *)
FoundBelow(n, k) == Levels(scopes, n) # {} /\ LevelOf(scopes, n) > k

find(s) == /\ Running
           /\ \/ Becomes(scopes, Find(scopes, Fold[s]))
              \/ FoundBelow(Fold[s], 2) /\ Ends("aborted")

(* operator[] delegates to find(); what is nowhere is created outermost.   *)
subscript(s) ==
  LET n == Fold[s] IN
  /\ Running
  /\ IF Find(scopes, n) = Absent
     THEN Becomes(Bind(scopes, 1, n, Default), Default)
     ELSE \/ Becomes(scopes, Find(scopes, n))
          \/ FoundBelow(n, 1) /\ Ends("aborted")

Next ==
  \/ clear \/ push \/ pop \/ BadSymbol
  \/ \E s \in Spelling : count(s) \/ find(s) \/ subscript(s)
  \/ \E s \in Spelling, v \in Value : set(s, v) \/ insert(s, v)

Spec == Init /\ [][Next]_vars

-----------------------------------------------------------------------------
(* Type invariant: there always is an outermost level.                     *)
TypeOK == /\ scopes \in Seq(Scope) \ {<<>>}
          /\ answer \in Value \cup {Absent} \cup Nat
          /\ status \in {"running", "aborted"} \cup Errors

(* What a name means at the k-th level.                                    *)
MeaningAt(k) == [n \in Name |-> Find(SubSeq(scopes, 1, k), n)]

Env == INSTANCE LexEnv
         WITH visible <- [k \in DOMAIN scopes |-> MeaningAt(k)],
              declared <- [k \in DOMAIN scopes |-> DOMAIN scopes[k]]

(* The chain of maps is an environment with block structure: insert(),     *)
(* set(), push() and pop() in any order never let a name of an outer level *)
(* shine through an inner one of the same name, change an outer level, or  *)
(* come back from pop() with anything else than before the push();         *)
(* operator[] and clear() reach the outermost level past the open ones.    *)
(* The program ends for a second meaning of a name in insert(), for a name *)
(* of no or of an outer level in set() (see SetCreates), for what is no    *)
(* name, and for nothing else.                                             *)
LexicalScoping == Env!Spec

(* set(): "Will create new entry if string not in map, or will set new     *)
(* value if string already in map" (symtable.h:85-86).                     *)
SetCreates ==
  [][\A s \in Spelling, v \in Value : set(s, v) =>
       /\ Fold[s] \in DOMAIN Innermost(scopes')
       /\ Innermost(scopes')[Fold[s]] = v]_vars
=============================================================================

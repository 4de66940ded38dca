------------------------------- MODULE LexEnv -------------------------------
(***************************************************************************)
(* What a symbol table promises: an environment with block structure.      *)
(* Entering a block keeps what is visible, leaving it brings back exactly  *)
(* what was visible before; a declaration hides outer ones and touches no  *)
(* outer block.  It knows nothing of levels being searched.                *)
(***************************************************************************)
EXTENDS Integers, Sequences, FiniteSets

CONSTANTS Name, Value, Absent, Default

VARIABLES visible,    \* for each open block, what a name means in it
          declared,   \* for each open block, the names declared in it
          answer,     \* what the last question was answered
          status

vars == <<visible, declared, answer, status>>

Nothing == [n \in Name |-> Absent]

depth == Len(visible)
here == visible[depth]

Init == /\ visible = <<Nothing>>
        /\ declared = <<{}>>
        /\ answer = Absent
        /\ status = "running"

Running == status = "running" /\ UNCHANGED status

Enter == /\ Running
         /\ visible' = Append(visible, here)
         /\ declared' = Append(declared, {})
         /\ answer' = Absent

Leave == /\ Running
         /\ depth > 1
         /\ visible' = SubSeq(visible, 1, depth - 1)
         /\ declared' = SubSeq(declared, 1, depth - 1)
         /\ answer' = 0

LeaveLast == /\ Running
             /\ depth = 1
             /\ visible' = <<Nothing>>
             /\ declared' = <<{}>>
             /\ answer' = 1

(* A new name, or one already declared here with the same meaning.         *)
Declare(n, v) ==
  /\ Running
  /\ n \in declared[depth] => here[n] = v
  /\ visible' = [visible EXCEPT ![depth][n] = v]
  /\ declared' = [declared EXCEPT ![depth] = @ \cup {n}]
  /\ answer' = Absent

Redefine(n, v) ==
  /\ Running
  /\ n \in declared[depth]
  /\ visible' = [visible EXCEPT ![depth][n] = v]
  /\ answer' = Absent
  /\ UNCHANGED declared

Ask(n) == /\ Running
          /\ answer' = here[n]
          /\ UNCHANGED <<visible, declared>>

HowOften(n) ==
  /\ Running
  /\ answer' = Cardinality({k \in 1 .. depth : n \in declared[k]})
  /\ UNCHANGED <<visible, declared>>

(* A name that means nothing gets a default meaning in every block.        *)
AskOrDeclare(n) ==
  /\ Running
  /\ here[n] = Absent
  /\ visible' = [k \in 1 .. depth |-> [visible[k] EXCEPT ![n] = Default]]
  /\ declared' = [declared EXCEPT ![1] = @ \cup {n}]
  /\ answer' = Default

(* The outermost declarations go; inner ones stay.                         *)
Forget ==
  /\ Running
  /\ declared' = [declared EXCEPT ![1] = {}]
  /\ visible' = [k \in 1 .. depth |-> [n \in Name |->
                   IF \E j \in 2 .. k : n \in declared[j]
                   THEN visible[k][n] ELSE Absent]]
  /\ answer' = Absent

Ends(how) == /\ status = "running"
             /\ status' = how
             /\ UNCHANGED <<visible, declared, answer>>

(* What is refused ends the program: a declaration that contradicts one    *)
(* here, a new meaning for what is not declared here, a symbol that is no  *)
(* name.  Nothing else is.                                                 *)
Contradict(n, v) == n \in declared[depth] /\ here[n] # v /\ Ends("insert")

RefuseRedefinition(n) == n \notin declared[depth] /\ Ends("set")

NoName == Ends("symbol")

(* A question inside a block may be fatal in a build that checks iterators.*)
Break == depth > 1 /\ Ends("aborted")

Next ==
  \/ Enter \/ Leave \/ LeaveLast \/ Forget \/ NoName \/ Break
  \/ \E n \in Name :
       Ask(n) \/ HowOften(n) \/ AskOrDeclare(n) \/ RefuseRedefinition(n)
  \/ \E n \in Name, v \in Value :
       Declare(n, v) \/ Redefine(n, v) \/ Contradict(n, v)

Spec == Init /\ [][Next]_vars
=============================================================================

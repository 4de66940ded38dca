------------------------------ MODULE MCSimlang ------------------------------
(***************************************************************************)
(* Programs of a first assignment, a statement that may hold others, and an*)
(* echo of the two variables.                                              *)
(***************************************************************************)
EXTENDS SimlangMeaning

Num(v) == [t |-> "num", v |-> v]
Var(x) == [t |-> "var", n |-> x]
Str == [t |-> "str", n |-> ""]
Input == [t |-> "input", n |-> ""]
Un(op, a) == [t |-> "unary", n |-> op, a |-> a]
Bin(op, a, b) == [t |-> "binary", n |-> op, a |-> a, b |-> b]
Assign(x, a) == [t |-> "assign", n |-> x, a |-> a]
Echo(args) == [t |-> "echo", n |-> "", a |-> args]

Stmt(e) == [t |-> "expr", a |-> e]
If(c, p, q) == [t |-> "if", c |-> c, a |-> p, b |-> q]
While(c, p) == [t |-> "while", c |-> c, a |-> p]
Exit == [t |-> "exit"]
Block(s) == [t |-> "block", a |-> s]
Nothing == Block(<<>>)

x == Var("x")
y == Var("y")
Exprs == {Input, Bin("-", y, Input), Bin("+", Assign("x", Num(2)), Un("!", x)),
          Assign("y", Bin("*", Un("-", x), x))}
Conditions == {x, Un("!", y), Bin("<", y, Num(2)), Bin("=", Assign("y", Num(1)), Input)}

Few == {x, Bin("=", Assign("y", Num(1)), Input)}

Simple == {Stmt(Assign("x", e)) : e \in Exprs} \cup {Stmt(Echo(<<x, Str>>)), Exit}
Both(p, q) == Block(<<p, q>>)
Count == Stmt(Assign("y", Bin("+", y, Num(1))))
Inner == {If(c, p, q) : c \in Conditions, p \in Simple, q \in {Nothing, Count, Exit}}
Loops == {While(c, Both(p, Count)) : c \in Conditions, p \in Simple \cup Inner}
Outer == Inner \cup Loops \cup {If(c, p, q) : c \in Few, p \in Loops, q \in {Nothing, Exit}}

Starts == {Stmt(Assign("x", Num(1))), Stmt(Assign("y", Assign("x", Num(0))))}
All == {Block(<<Block(<<s, p>>), Stmt(Echo(<<x, y>>))>>) : s \in Starts, p \in Outer}

Typed == {<<>>, <<1, 0>>}

(* Those that end, whatever is typed.                                      *)
Ending == {p \in All : \A in \in Typed : Meaning(p, in).end # "loops"}
=============================================================================

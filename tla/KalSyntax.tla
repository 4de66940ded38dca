------------------------------ MODULE KalSyntax ------------------------------
(***************************************************************************)
(* The recursive descent and operator precedence parser of Kaleidoscope,   *)
(* llvm-test/main.cpp.  What it reads are tokens.                          *)
(*                                                                         *)
(* The nodes of the tree are in ast, in the order they are made in, and    *)
(* refer to each other by their places there.  A node has its kind t, the  *)
(* token n it is named by, its subtrees, and the places from .. to it was  *)
(* read from.  Parentheses are not part of the node they enclose; at is    *)
(* the place of the name or of the operator.                               *)
(*                                                                         *)
(* The recursion is a stack of frames, todo: functions that have been      *)
(* called and not begun, and what one has left to do when the function it  *)
(* has called returns.  A frame has the place from that it has read from,  *)
(* and the subtrees kids of the node it will make.                         *)
(***************************************************************************)
EXTENDS Integers, Sequences, FiniteSets

CONSTANTS Ident,     \* identifiers
          Number,    \* numbers, with their values NumVal
          NumVal,
          OpChar     \* characters that may be operators, "=" and ";" among them

Keyword == {"def", "extern", "if", "then", "else", "for", "in", "binary", "unary", "var"}
Ascii == OpChar \cup {"(", ")", ","}
Token == Ident \cup Number \cup Keyword \cup Ascii

ASSUME KalAssumption ==
  /\ {"=", ";"} \subseteq OpChar
  /\ NumVal \in [Number -> Nat]
  /\ Ident \cap (Number \cup Keyword \cup Ascii) = {}
  /\ Number \cap (Keyword \cup Ascii) = {} /\ Keyword \cap Ascii = {}
  /\ "eof" \notin Token

VARIABLES toks,    \* what is typed
          prec,    \* BinopPrecedence: 0 for a character that is no operator
          at,      \* CurTok is the token at this place
          ast,     \* the nodes made for the current command
          val,     \* the node that was returned last, 0 for NULL
          todo     \* the calls that have not returned

(* The token at a place; the end of the input is read again and again.     *)
Tok(i) == IF i \in DOMAIN toks THEN toks[i] ELSE "eof"
Past(i) == IF i \in DOMAIN toks THEN i + 1 ELSE i

Node(t, n, kids, from, to, place) ==
  [t |-> t, n |-> n, kids |-> kids, from |-> from, to |-> to, at |-> place]

GetTokPrecedence(i) ==
  IF Tok(i) \in Ascii /\ prec[Tok(i)] > 0 THEN prec[Tok(i)] ELSE -1

-----------------------------------------------------------------------------
(* Calls and returns.                                                      *)
Doing(what) == todo # <<>> /\ Head(todo).do = what
Frame == Head(todo)

Unary(i) == [do |-> "unary", from |-> i]
BinOpRHS(min, i) == [do |-> "rhs", from |-> i, min |-> min]
(* The call of ParseExpression at a place, up to that of ParseUnary.       *)
ParseExpression(i) == <<Unary(i), BinOpRHS(0, i)>>

Continue(i, frames) ==
  at' = i /\ todo' = frames \o Tail(todo) /\ UNCHANGED <<toks, prec, ast, val>>
(* A node is made, and is the value of val.                                *)
Make(node) == ast' = Append(ast, node) /\ val' = Len(ast) + 1
MakeAndDo(i, node, frames) ==
  Make(node) /\ at' = i /\ todo' = frames \o Tail(todo) /\ UNCHANGED <<toks, prec>>
Return(i, node) == MakeAndDo(i, node, <<>>)
(* NULL, which every caller returns to its own.                            *)
ErrorRet(i) == val' = 0 /\ todo' = <<>> /\ at' = i /\ UNCHANGED <<toks, prec, ast>>

-----------------------------------------------------------------------------
(* ParsePrimary and the functions it calls.                                *)
Reading(S) == Doing("unary") /\ Tok(at) \in S

ParseNumberExpr ==
  Reading(Number) /\ Return(at + 1, Node("num", Tok(at), <<>>, at, at, at))

ParseVariable ==
  /\ Reading(Ident) /\ Tok(at + 1) # "("
  /\ Return(at + 1, Node("var", Tok(at), <<>>, at, at, at))

ParseCall ==
  /\ Reading(Ident) /\ Tok(at + 1) = "("
  /\ IF Tok(at + 2) = ")" THEN Return(at + 3, Node("call", Tok(at), <<>>, at, at + 2, at))
     ELSE Continue(at + 2, ParseExpression(at + 2)
                             \o <<[do |-> "args", from |-> at, kids |-> <<>>]>>)
MoreArgs ==
  LET kids == Append(Frame.kids, val)
  IN  /\ Doing("args")
      /\ CASE Tok(at) = ")" ->
                Return(at + 1, Node("call", Tok(Frame.from), kids, Frame.from, at, Frame.from))
           [] Tok(at) = "," ->
                Continue(at + 1, ParseExpression(at + 1) \o <<[Frame EXCEPT !.kids = kids]>>)
           [] OTHER -> ErrorRet(at)

ParseParenExpr ==
  Reading({"("}) /\ Continue(at + 1, ParseExpression(at + 1) \o <<[do |-> "paren", from |-> at]>>)
CloseParen ==
  Doing("paren") /\ IF Tok(at) = ")" THEN Continue(at + 1, <<>>) ELSE ErrorRet(at)

ParseIfExpr ==
  /\ Reading({"if"})
  /\ Continue(at + 1, ParseExpression(at + 1) \o <<[do |-> "if", from |-> at, kids |-> <<>>]>>)
IfPart ==
  LET kids == Append(Frame.kids, val)
      word == IF Len(kids) = 1 THEN "then" ELSE "else"
  IN  /\ Doing("if")
      /\ IF Len(kids) = 3 THEN Return(at, Node("if", "", kids, Frame.from, at - 1, Frame.from))
         ELSE IF Tok(at) # word THEN ErrorRet(at)
         ELSE Continue(at + 1, ParseExpression(at + 1) \o <<[Frame EXCEPT !.kids = kids]>>)

ParseForExpr ==
  /\ Reading({"for"})
  /\ IF Tok(at + 1) \notin Ident THEN ErrorRet(at + 1)
     ELSE IF Tok(at + 2) # "=" THEN ErrorRet(at + 2)
     ELSE Continue(at + 3, ParseExpression(at + 3)
                             \o <<[do |-> "for", from |-> at, kids |-> <<>>, last |-> FALSE]>>)
(* The end value comes behind a comma, the body behind in, and a step, if  *)
(* there is one, between them, behind a comma.                             *)
ForPart ==
  LET kids == Append(Frame.kids, val)
      words == IF Len(kids) = 1 THEN {","} ELSE IF Len(kids) = 2 THEN {",", "in"} ELSE {"in"}
  IN  /\ Doing("for")
      /\ IF Frame.last
         THEN Return(at, Node("for", Tok(Frame.from + 1), kids, Frame.from, at - 1, Frame.from + 1))
         ELSE IF Tok(at) \notin words THEN ErrorRet(at)
         ELSE Continue(at + 1, ParseExpression(at + 1)
                                 \o <<[do |-> "for", from |-> Frame.from, kids |-> kids,
                                        last |-> (Tok(at) = "in")]>>)

(* The names of a var expression are nodes "let", with the value if any.   *)
ParseVarExpr ==
  Reading({"var"}) /\ Continue(at + 1, <<[do |-> "names", from |-> at, kids |-> <<>>]>>)
ParseVarName ==
  LET let(init) == [do |-> "let", from |-> Frame.from, kids |-> Frame.kids, name |-> at,
                    init |-> init]
  IN  /\ Doing("names")
      /\ CASE Tok(at) \notin Ident -> ErrorRet(at)
           [] Tok(at) \in Ident /\ Tok(at + 1) = "=" ->
                Continue(at + 2, ParseExpression(at + 2) \o <<let(TRUE)>>)
           [] Tok(at) \in Ident /\ Tok(at + 1) # "=" -> Continue(at + 1, <<let(FALSE)>>)
ParseVarRest ==
  LET node == Node("let", Tok(Frame.name), IF Frame.init THEN <<val>> ELSE <<>>,
                   Frame.name, at - 1, Frame.name)
      kids == Append(Frame.kids, Len(ast) + 1)
      go(what) == <<[do |-> what, from |-> Frame.from, kids |-> kids]>>
  IN  /\ Doing("let")
      /\ CASE Tok(at) = ","  -> MakeAndDo(at + 1, node, go("names"))
           [] Tok(at) = "in" -> MakeAndDo(at + 1, node, ParseExpression(at + 1) \o go("body"))
           [] OTHER          -> ErrorRet(at)
ParseVarBody ==
  /\ Doing("body")
  /\ Return(at, Node("varin", "", Append(Frame.kids, val), Frame.from, at - 1, Frame.from))

NoPrimary == Reading({"eof", ","} \cup (Keyword \ {"if", "for", "var"})) /\ ErrorRet(at)

ParsePrimary == ParseNumberExpr \/ ParseVariable \/ ParseCall \/ ParseParenExpr \/ ParseIfExpr
                \/ ParseForExpr \/ ParseVarExpr \/ NoPrimary

-----------------------------------------------------------------------------
(* Any character but "(" and "," is taken for a unary operator.            *)
ParseUnary ==
  /\ Reading(Ascii \ {"(", ","})
  /\ Continue(at + 1, <<Unary(at + 1), [do |-> "operator", from |-> at, kids |-> <<>>]>>)
UnaryOperator ==
  /\ Doing("operator")
  /\ Return(at, Node("unary", Tok(Frame.from), Append(Frame.kids, val), Frame.from, at - 1, Frame.from))

ParseBinOpRHS ==
  LET p == GetTokPrecedence(at)
  IN  /\ Doing("rhs")
      /\ IF p < Frame.min THEN Continue(at, <<>>)
         ELSE Continue(at + 1, <<Unary(at + 1),
                                 [do |-> "operand", from |-> Frame.from, kids |-> <<val>>,
                                  min |-> Frame.min, op |-> at, prec |-> p]>>)

(* Mutant: the operand takes operators of its own precedence as well.      *)
OperandPrec_Same(p) == p
(* The right operand takes the operators that bind tighter.                *)
OperandPrec(p) == p + 1

RightOperand ==
  LET binds == Frame.prec < GetTokPrecedence(at)
  IN  /\ Doing("operand")
      /\ Continue(at, (IF binds THEN <<BinOpRHS(OperandPrec(Frame.prec), Frame.op + 1)>> ELSE <<>>)
                        \o <<[Frame EXCEPT !.do = "merge"]>>)
Merge ==
  /\ Doing("merge")
  /\ MakeAndDo(at, Node("binary", Tok(Frame.op), Append(Frame.kids, val), Frame.from, at - 1, Frame.op),
               <<BinOpRHS(Frame.min, Frame.from)>>)

Finish == MoreArgs \/ CloseParen \/ IfPart \/ ForPart \/ ParseVarName \/ ParseVarRest
          \/ ParseVarBody \/ UnaryOperator \/ RightOperand \/ Merge
Parse == ParsePrimary \/ ParseUnary \/ ParseBinOpRHS \/ Finish

-----------------------------------------------------------------------------
(* prototype: its name is a function or an operator character, its         *)
(* arguments the places of their names.                                    *)
NoProto(i) == [ok |-> FALSE, at |-> i, kind |-> "none", name |-> "", args |-> <<>>, prec |-> 0]

(* The first place behind i that is not one of an identifier.              *)
BehindIdents(i) ==
  CHOOSE k \in i + 1 .. Len(toks) + i + 1 :
    Tok(k) \notin Ident /\ \A j \in i + 1 .. k - 1 : Tok(j) \in Ident

ArgumentsAt(i, kind, name, p) ==
  LET last == BehindIdents(i)
      args == [k \in 1 .. last - i - 1 |-> i + k]
      wanted == IF kind = "binary" THEN 2 ELSE 1
  IN  IF Tok(i) # "(" THEN NoProto(i)
      ELSE IF Tok(last) # ")" THEN NoProto(last)
      ELSE IF kind # "function" /\ Len(args) # wanted THEN NoProto(last + 1)
      ELSE [ok |-> TRUE, at |-> last + 1, kind |-> kind, name |-> name, args |-> args,
            prec |-> p]

(* Mutant: the range of a precedence is not looked at.                     *)
ValidPrecedence_Any(v) == TRUE
ValidPrecedence(v) == v >= 1 /\ v <= 100

ParsePrototype(i) ==
  CASE Tok(i) \in Ident -> ArgumentsAt(i + 1, "function", Tok(i), 0)
    [] Tok(i) \in {"unary", "binary"} /\ Tok(i + 1) \notin Ascii -> NoProto(i + 1)
    [] Tok(i) = "unary" /\ Tok(i + 1) \in Ascii -> ArgumentsAt(i + 2, "unary", Tok(i + 1), 0)
    [] Tok(i) = "binary" /\ Tok(i + 1) \in Ascii ->
         IF Tok(i + 2) \notin Number THEN ArgumentsAt(i + 2, "binary", Tok(i + 1), 30)
         ELSE IF ~ ValidPrecedence(NumVal[Tok(i + 2)]) THEN NoProto(i + 2)
         ELSE ArgumentsAt(i + 3, "binary", Tok(i + 1), NumVal[Tok(i + 2)])
    [] OTHER -> NoProto(i)
=============================================================================

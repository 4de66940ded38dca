--------------------------------- MODULE Kal ---------------------------------
(***************************************************************************)
(* The read loop of the Kaleidoscope REPL, llvm-test/main.cpp: parse a     *)
(* command, generate its code, recover from an error.  Modules and the JIT *)
(* are in Mcjit.                                                           *)
(***************************************************************************)
EXTENDS KalCodegen

CONSTANT Inputs     \* what may be typed

ASSUME InputsAssumption == Inputs \subseteq Seq(Token)

VARIABLES proto,     \* the prototype of the function that is read
          phase,     \* "ready" for a command, "parsing", "generating" or "undefined"
          commands   \* history: how often the loop has been round

vars == <<toks, prec, at, ast, val, todo, names, code, ok, proto, phase, commands>>

Builtin(c) == CASE c = "=" -> 2 [] c = "<" -> 10 [] c \in {"+", "-"} -> 20
                [] c \in {"*", "/"} -> 40 [] OTHER -> 0

Init ==
  /\ toks \in Inputs
  /\ prec = [c \in Ascii |-> Builtin(c)]
  /\ at = 1 /\ ast = <<>> /\ val = 0 /\ todo = <<>>
  /\ names = NoNames /\ code = NewFunction /\ ok = FALSE
  /\ proto = NoProto(1) /\ phase = "ready" /\ commands = 0

-----------------------------------------------------------------------------
(* The loop has come round, and looks at the next command.                 *)
Round == phase = "ready" /\ commands' = commands + 1

(* Mutant: the token that was not expected is read again.                  *)
Recover_Stay(i) == i
Recover(i) == Past(i)

GoOn(i) ==
  at' = i /\ phase' = "ready" /\ UNCHANGED <<toks, prec, ast, val, todo, names, code, ok, proto>>
ParseBody(p) ==
  /\ proto' = p /\ at' = p.at /\ todo' = ParseExpression(p.at) /\ phase' = "parsing"
  /\ ast' = <<>> /\ val' = 0 /\ ok' = FALSE
  /\ UNCHANGED <<toks, prec, names, code>>

HandleDefinition ==
  LET p == ParsePrototype(Past(at))
  IN  Round /\ Tok(at) = "def" /\ IF p.ok THEN ParseBody(p) ELSE GoOn(Recover(p.at))

HandleExtern ==
  LET p == ParsePrototype(Past(at))
  IN  Round /\ Tok(at) = "extern" /\ GoOn(IF p.ok THEN p.at ELSE Recover(p.at))

HandleTopLevelExpression ==
  Round /\ Tok(at) \notin {"eof", ";", "def", "extern"} /\ ParseBody(NoProto(at))

SkipSemicolon == Round /\ Tok(at) = ";" /\ GoOn(Past(at))

ParseStep == phase = "parsing" /\ Parse /\ UNCHANGED <<names, code, ok, proto, phase, commands>>

Parsed == phase = "parsing" /\ todo = <<>>
ParseFailed == Parsed /\ val = 0 /\ GoOn(Recover(at)) /\ UNCHANGED commands

-----------------------------------------------------------------------------
(* Mutant: what an earlier function has left in NamedValues stays.         *)
Bound_Left(x) == names[x]
(* What a name that is no argument is bound to when a function is begun.   *)
Bound(x) == 0
ArgumentAllocas(args) ==
  [x \in Ident |-> LET own == {i \in DOMAIN args : Tok(args[i]) = x}
                   IN  IF own = {} THEN Bound(x) ELSE args[CHOOSE i \in own : \A j \in own : j <= i]]

SetPrecedence(p) ==
  prec' = IF proto.kind = "binary" THEN [prec EXCEPT ![proto.name] = p] ELSE prec

(* FunctionAST::Codegen, up to that of the body.                           *)
FunctionCodegen ==
  /\ Parsed /\ val # 0
  /\ SetPrecedence(proto.prec)
  /\ code' = NewFunction /\ names' = ArgumentAllocas(proto.args) /\ ok' = TRUE
  /\ todo' = Codegen(val) /\ phase' = "generating"
  /\ UNCHANGED <<toks, at, ast, val, proto, commands>>

(* The prototype is in conflict with a function there is.                  *)
Refuse ==
  /\ Parsed /\ val # 0 /\ proto.kind # "none"
  /\ names' = NoNames /\ phase' = "ready"
  /\ UNCHANGED <<toks, prec, at, ast, val, todo, code, ok, proto, commands>>

CodegenStep ==
  phase = "generating" /\ Codegenerate /\ UNCHANGED <<proto, phase, commands>>

(* What is assigned to is no variable, and has been cast to one.           *)
AssignUndefined ==
  /\ phase = "generating" /\ ok /\ Doing("store") /\ Target.t # "var" /\ phase' = "undefined"
  /\ UNCHANGED <<toks, prec, at, ast, val, todo, names, code, ok, proto, commands>>

(* The new operator is gone if its body has failed.                        *)
EndFunction ==
  /\ phase = "generating" /\ todo = <<>> /\ phase' = "ready"
  /\ IF ok THEN code' = Insert(code, "ret", <<>>) /\ UNCHANGED prec
     ELSE SetPrecedence(0) /\ UNCHANGED code
  /\ UNCHANGED <<toks, at, ast, val, todo, names, ok, proto, commands>>

Next ==
  \/ HandleDefinition \/ HandleExtern \/ HandleTopLevelExpression \/ SkipSemicolon
  \/ ParseStep \/ ParseFailed \/ FunctionCodegen \/ Refuse \/ CodegenStep
  \/ AssignUndefined \/ EndFunction

Spec == Init /\ [][Next]_vars

-----------------------------------------------------------------------------
(* An operator's precedence is one a definition may give (main.cpp:647), a *)
(* name's slot the place of a token, and what is built are blocks of the   *)
(* function.                                                               *)
TypeOK ==
  /\ prec \in [Ascii -> 0 .. 100]
  /\ at \in 1 .. Len(toks) + 1
  /\ val \in {0} \cup DOMAIN ast
  /\ names \in [Ident -> 0 .. Len(toks)]
  /\ code.at \in code.inside /\ code.inside \subseteq DOMAIN code.blocks

(* Without parentheses around them, the operators of an operand bind       *)
(* tighter than the operator it belongs to, or as tight in the left one;   *)
(* and if, for and var reach so far to the right that they are no left     *)
(* operand.  (ParseBinOpRHS, main.cpp:565-596.)                            *)
LeftOperandOK(e) ==
  LET l == ast[e.kids[1]]
  IN  l.to = e.at - 1 => \/ l.t \in {"num", "var", "call", "unary"}
                         \/ l.t = "binary" /\ prec[l.n] >= prec[e.n]
RightOperandOK(e) ==
  LET r == ast[e.kids[2]]
  IN  r.from = e.at + 1 /\ r.t = "binary" => prec[r.n] > prec[e.n]
UnaryOperandOK(e) ==
  LET o == ast[e.kids[1]]
  IN  o.from = e.at + 1 => o.t # "binary"
PrecedenceKept ==
  phase = "parsing" => \A k \in DOMAIN ast :
    /\ ast[k].t = "binary" => LeftOperandOK(ast[k]) /\ RightOperandOK(ast[k])
    /\ ast[k].t = "unary" => UnaryOperandOK(ast[k])

(* What declares a variable, and the places it may be used at: an argument,*)
(* the variable of a for after its start value, a var after its own value. *)
Nodes(kind) == {k \in DOMAIN ast : ast[k].t = kind}
Binder(n, place, first, last) == [n |-> n, at |-> place, scope |-> first .. last]
Binders ==
  {Binder(Tok(proto.args[i]), proto.args[i], ast[val].from, ast[val].to) : i \in DOMAIN proto.args}
  \cup {Binder(ast[k].n, ast[k].at, ast[ast[k].kids[1]].to + 1, ast[k].to) : k \in Nodes("for")}
  \cup UNION {{Binder(ast[ast[k].kids[i]].n, ast[ast[k].kids[i]].at,
                      ast[ast[k].kids[i]].to + 1, ast[k].to) : i \in 1 .. Len(ast[k].kids) - 1} :
                k \in Nodes("varin")}

Distinct ==
  \A k \in Nodes("varin") : \A i, j \in 1 .. Len(ast[k].kids) - 1 :
    ast[ast[k].kids[i]].n = ast[ast[k].kids[j]].n => i = j

(* A variable is that of the innermost scope: the one declared last.       *)
Declares(b, u) == b.n = Tok(u[1]) /\ u[1] \in b.scope
ScopesRespected ==
  \A u \in code.uses : \E b \in Binders :
    /\ Declares(b, u) /\ b.at = u[2]
    /\ \A o \in Binders : Declares(o, u) => o.at <= u[2]

Generated == phase = "ready" /\ ok

(* In a function that was generated every name is the variable of the      *)
(* innermost scope it is in, and never one that an earlier function left in*)
(* NamedValues (main.cpp:1372, 1398, 1485).  The list of a var may not name*)
(* a variable twice: see BindingsRestored.                                 *)
LexicalScope == Generated /\ Distinct => ScopesRespected

(* The same of every function: the binding a var has shadowed is back when *)
(* it ends ("so that we can restore the binding when we unrecurse",        *)
(* main.cpp:1408).                                                         *)
BindingsRestored == Generated => ScopesRespected

Terminator == {"br", "ret"}
Targets(i) == {i.args[j] : j \in DOMAIN i.args}
Predecessors(b) ==
  {a \in code.inside : code.blocks[a] # <<>> /\ LET i == code.blocks[a][Len(code.blocks[a])]
                                                IN  i.op = "br" /\ b \in Targets(i)}

(* A function that was generated is well-formed: each of its blocks ends in*)
(* its only branch or return, and the phi of an if names the blocks that   *)
(* its block is entered from (IfExprAST and ForExprAST::Codegen,           *)
(* main.cpp:1231-1379; verifyFunction's verdict is not looked at).         *)
BlockWellFormed(b) ==
  LET block == code.blocks[b]
  IN  /\ block # <<>>
      /\ \A i \in DOMAIN block :
           /\ block[i].op \in Terminator <=> i = Len(block)
           /\ block[i].op = "br" => Targets(block[i]) \subseteq code.inside
           /\ block[i].op = "phi" => Targets(block[i]) = Predecessors(b)
WellFormed ==
  Generated => code.inside = DOMAIN code.blocks /\ \A b \in code.inside : BlockWellFormed(b)

(* The loop gets to the end of any input: of every command, a wrong one    *)
(* too, at least one token has been read when the next one is looked for   *)
(* (main.cpp:1536, 1550, 1569).                                            *)
Progress == phase = "ready" => commands < at
=============================================================================

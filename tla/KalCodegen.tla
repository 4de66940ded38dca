----------------------------- MODULE KalCodegen -----------------------------
(***************************************************************************)
(* Code generation for Kaleidoscope expressions, llvm-test/main.cpp: which *)
(* variable a name stands for and which basic blocks there are.  What is   *)
(* computed is left out.  A slot (alloca) is the place its variable is     *)
(* declared at.                                                            *)
(*                                                                         *)
(* Codegen is recursive like the parser, and todo holds its calls too.     *)
(***************************************************************************)
EXTENDS KalSyntax

CONSTANT ArgSize    \* of each function and unary operator getFunction finds, how many
                    \* arguments it takes; which ones it finds is a matter of Mcjit, and
                    \* here an operator of two arguments always is one

VARIABLES names,    \* NamedValues, 0 for a name that is not there
          code,     \* the function that is built
          ok        \* the Codegen that was called last has not returned 0

(* The blocks and those in the function, the insertion point, the places   *)
(* variables are used at with the slots that are read or written.          *)
NewFunction == [blocks |-> <<<<>>>>, inside |-> {1}, at |-> 1, uses |-> {}]
NoNames == [x \in Ident |-> 0]

Insert(c, op, args) ==
  [c EXCEPT !.blocks[c.at] = Append(@, [op |-> op, args |-> args])]
CreateBlocks(c, n) == [c EXCEPT !.blocks = @ \o [i \in 1 .. n |-> <<>>]]
SetInsertPoint(c, b) ==
  [blocks |-> c.blocks, inside |-> c.inside \cup {b}, at |-> b, uses |-> c.uses]

(* A frame has the node e whose Codegen it is, begun or not.               *)
Codegen(e) == <<[do |-> "codegen", e |-> e]>>
After(what) == <<[do |-> what, e |-> Frame.e]>>
Tree == ast[Frame.e]
Generating(kind) == Doing("codegen") /\ Tree.t = kind

Same == UNCHANGED <<toks, prec, at, ast, val>>
Call(c, bindings, frames) ==
  code' = c /\ names' = bindings /\ ok' = TRUE /\ todo' = frames \o Tail(todo) /\ Same
(* There is no more to do than to return.                                  *)
Value(c, bindings) == Call(c, bindings, <<>>)
Result(good) == ok' = good /\ todo' = Tail(todo) /\ UNCHANGED <<names, code>> /\ Same

(* A caller that is returned 0 returns 0, all but one.                     *)
Propagate == ~ ok /\ todo # <<>> /\ Frame.do # "right" /\ Result(FALSE)

-----------------------------------------------------------------------------
UseVariable(x, place) ==
  IF names[x] = 0 THEN Result(FALSE)
  ELSE Value([code EXCEPT !.uses = @ \cup {<<place, names[x]>>}], names)

NumberCodegen == Generating("num") /\ Value(code, names)
VariableCodegen == Generating("var") /\ UseVariable(Tree.n, Tree.at)

UnaryCodegen ==
  Generating("unary") /\ Call(code, names, Codegen(Tree.kids[1]) \o After("unop"))
CallUnary == Doing("unop") /\ Result(Tree.n \in DOMAIN ArgSize)

(* The right side is generated, then the name on the left is looked up.    *)
AssignCodegen ==
  /\ Generating("binary") /\ Tree.n = "="
  /\ Call(code, names, Codegen(Tree.kids[2]) \o After("store"))
Target == ast[Tree.kids[1]]
Store == Doing("store") /\ Target.t = "var" /\ UseVariable(Target.n, Target.at)

(* Both operands are generated, then it is asked whether both succeeded.   *)
BinaryCodegen ==
  /\ Generating("binary") /\ Tree.n # "="
  /\ Call(code, names, Codegen(Tree.kids[1]) \o After("right"))
RightCodegen ==
  /\ Doing("right")
  /\ Call(code, names, Codegen(Tree.kids[2]) \o <<[do |-> "binop", e |-> Frame.e, left |-> ok]>>)
CallBinary == Doing("binop") /\ Result(Frame.left)

CallCodegen ==
  /\ Generating("call")
  /\ IF Tree.n \in DOMAIN ArgSize /\ ArgSize[Tree.n] = Len(Tree.kids)
     THEN Call(code, names, <<[do |-> "arguments", e |-> Frame.e, next |-> 1]>>)
     ELSE Result(FALSE)
ArgCodegen ==
  /\ Doing("arguments")
  /\ Call(code, names, IF Frame.next > Len(Tree.kids) THEN <<>>
                       ELSE Codegen(Tree.kids[Frame.next]) \o <<[Frame EXCEPT !.next = @ + 1]>>)

-----------------------------------------------------------------------------
IfCodegen == Generating("if") /\ Call(code, names, Codegen(Tree.kids[1]) \o After("then"))
ThenCodegen ==
  LET n == Len(code.blocks)
  IN  /\ Doing("then")
      /\ Call(SetInsertPoint(Insert(CreateBlocks(code, 3), "br", <<n + 1, n + 2>>), n + 1), names,
              Codegen(Tree.kids[2]) \o <<[do |-> "else", e |-> Frame.e, begin |-> n + 2]>>)

(* Mutant: the phi names the block the branch began in.                    *)
ThenEnd_Begun(next) == next - 1
(* The phi takes its value from the block the branch has ended in.         *)
ThenEnd(next) == code.at

(* The block of else is followed by that of the phi.                       *)
ElseCodegen ==
  LET merge == Frame.begin + 1
  IN  /\ Doing("else")
      /\ Call(SetInsertPoint(Insert(code, "br", <<merge>>), Frame.begin), names,
              Codegen(Tree.kids[3])
                \o <<[do |-> "phi", e |-> Frame.e, then |-> ThenEnd(Frame.begin), merge |-> merge]>>)
Phi ==
  /\ Doing("phi")
  /\ Value(Insert(SetInsertPoint(Insert(code, "br", <<Frame.merge>>), Frame.merge),
                  "phi", <<Frame.then, code.at>>), names)

(* Start is generated without the variable; body, step and end, in this    *)
(* order, with it.  kids are start, end, step if there is one, and body.   *)
ForCodegen == Generating("for") /\ Call(code, names, Codegen(Tree.kids[1]) \o After("loop"))
LoopCodegen ==
  LET n == Len(code.blocks)
      kids == Tree.kids
      step == IF Len(kids) = 4 THEN Codegen(kids[3]) ELSE <<>>
  IN  /\ Doing("loop")
      /\ Call(SetInsertPoint(Insert(CreateBlocks(code, 1), "br", <<n + 1>>), n + 1),
              [names EXCEPT ![Tree.n] = Tree.at],
              Codegen(kids[Len(kids)]) \o step \o Codegen(kids[2])
                \o <<[do |-> "afterloop", e |-> Frame.e, loop |-> n + 1, old |-> names[Tree.n]]>>)
(* Back to the block of the loop, or on to a new one.                      *)
AfterLoop ==
  LET n == Len(code.blocks)
  IN  /\ Doing("afterloop")
      /\ Value(SetInsertPoint(Insert(CreateBlocks(code, 1), "br", <<Frame.loop, n + 1>>), n + 1),
               [names EXCEPT ![Tree.n] = Frame.old])

(* Each name of the list is bound when its value, if any, is generated;    *)
(* what it was bound to is kept, and put back from the head of the list.   *)
VarCodegen ==
  Generating("varin") /\ Call(code, names, <<[do |-> "lets", e |-> Frame.e, old |-> <<>>]>>)

Kid == Tree.kids[Len(Frame.old) + 1]

(* Mutant: the variable is in scope of its own value.                      *)
InitScope_Early == [names EXCEPT ![ast[Kid].n] = ast[Kid].at]
(* The names that the value of a variable may use.                         *)
InitScope == names

Lets ==
  /\ Doing("lets")
  /\ IF Len(Tree.kids) = Len(Frame.old) + 1
     THEN Call(code, names, Codegen(Kid) \o <<[Frame EXCEPT !.do = "restore"]>>)
     ELSE Call(code, InitScope,
               (IF ast[Kid].kids = <<>> THEN <<>> ELSE Codegen(ast[Kid].kids[1]))
                 \o <<[Frame EXCEPT !.do = "bind"]>>)
BindLet ==
  /\ Doing("bind")
  /\ Call(code, [names EXCEPT ![ast[Kid].n] = ast[Kid].at],
          <<[do |-> "lets", e |-> Frame.e, old |-> Append(Frame.old, names[ast[Kid].n])]>>)
Restore ==
  LET own(x) == {i \in DOMAIN Frame.old : ast[Tree.kids[i]].n = x}
      last(x) == CHOOSE i \in own(x) : \A j \in own(x) : j <= i
  IN  /\ Doing("restore")
      /\ Value(code, [x \in Ident |-> IF own(x) = {} THEN names[x] ELSE Frame.old[last(x)]])

Generate ==
  ok /\ \/ NumberCodegen \/ VariableCodegen \/ UnaryCodegen \/ CallUnary
        \/ AssignCodegen \/ Store \/ BinaryCodegen \/ CallBinary \/ CallCodegen \/ ArgCodegen
        \/ IfCodegen \/ ThenCodegen \/ ElseCodegen \/ Phi
        \/ ForCodegen \/ LoopCodegen \/ AfterLoop
        \/ VarCodegen \/ Lets \/ BindLet \/ Restore
Codegenerate == Generate \/ RightCodegen \/ Propagate
=============================================================================

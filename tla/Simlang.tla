------------------------------- MODULE Simlang -------------------------------
(***************************************************************************)
(* The simlang compiler, simlang/ast.h and main.cpp: each node of the      *)
(* syntax tree emits its instructions into basic blocks of one function,   *)
(* and the function is run.  What a program means by itself, for the two   *)
(* to be compared, is in SimlangMeaning.                                   *)
(*                                                                         *)
(* A node is a record: its kind t, and its name n, operator or number, and *)
(* subtrees a, b, c as far as it has them.  The recursion of emit is a     *)
(* stack of frames, todo: nodes that are still to emit, and what an emit   *)
(* has left to do when a node below it has been emitted.                   *)
(***************************************************************************)
EXTENDS Integers, Sequences, FiniteSets

CONSTANTS Programs,    \* syntax trees of programs
          Inputs       \* what may be typed

ASSUME SimlangAssumption == \A i \in Inputs : i \in Seq(Int)

VARIABLES prog,        \* the tree, *ast
          code,        \* llvm_ctx and the function being built
          todo,        \* the calls of emit that have not returned
          typed,       \* what is typed
          machine,     \* the state of the compiled program
          status

vars == <<prog, code, todo, typed, machine, status>>

-----------------------------------------------------------------------------
(* Values out of the range of the numbers: what nobody has written, a text,*)
(* a register that is read before it is written.                           *)
Undef == -999
Text == -998
NoRegister == -997

(* Values of the code generator, and instructions.  A comparison stands for*)
(* icmp and zext, a condbr for the icmp with zero ahead of it too.         *)
Null == [k |-> "null", n |-> 0]
Const(n) == [k |-> "const", n |-> n]
Reg(n) == [k |-> "reg", n |-> n]

Instr(op, dst, args) == [op |-> op, dst |-> dst, args |-> args]
Terminators == {"br", "condbr", "ret"}

(* VarDict, the basic blocks and those that are in the function, the       *)
(* insertion point, the value the last emit has returned; unknown once a   *)
(* name was not in VarDict.                                                *)
NewContext == [dict |-> {}, slots |-> <<>>, blocks |-> <<<<>>>>, inside |-> {1}, at |-> 1,
               regs |-> 0, val |-> Const(0), unknown |-> FALSE]

Insert(s, i) == [s EXCEPT !.blocks[s.at] = Append(@, i)]
Emit1(s, op, args) ==
  [Insert(s, Instr(op, s.regs + 1, args)) EXCEPT !.regs = @ + 1, !.val = Reg(s.regs + 1)]
CreateBlocks(s, n) == [s EXCEPT !.blocks = @ \o [i \in 1 .. n |-> <<>>]]
SetInsertPoint(s, b) == [s EXCEPT !.at = b, !.inside = @ \cup {b}]
Br(s, b) == Insert(s, Instr("br", 0, <<b>>))
CondBr(s, v, b1, b2) == Insert(s, Instr("condbr", 0, <<v, b1, b2>>))
Returns(s, v) == [s EXCEPT !.val = v]

CreateEntryBlockAlloca(s, x) ==
  IF x \in s.dict THEN s ELSE [s EXCEPT !.dict = @ \cup {x}, !.slots = Append(@, x)]

-----------------------------------------------------------------------------
(* Frames.  Emit(e) is a call of emit that has not begun; the others wait  *)
(* for the value of the node they have called emit of.                     *)
Emit(e) == [do |-> "emit", e |-> e]

Doing(what) == status = "compiling" /\ todo # <<>> /\ Head(todo).do = what
Emitting(kind) == Doing("emit") /\ Head(todo).e.t = kind
Frame == Head(todo)
Node == Frame.e

Continue(c, frames) ==
  /\ code' = c /\ todo' = frames \o Tail(todo)
  /\ UNCHANGED <<prog, typed, machine, status>>
(* The emit begun does nothing more.                                       *)
Return(c) == Continue(c, <<>>)

Crash == status' = "crashed" /\ UNCHANGED <<prog, code, todo, typed, machine>>

EmitNumber == Emitting("num") /\ Return(Returns(code, Const(Node.v)))
EmitText == Emitting("str") /\ Return(Returns(code, Const(Text)))

EmitVarref ==
  /\ Emitting("var")
  /\ Return(IF Node.n \in code.dict THEN Emit1(code, "load", <<Node.n>>)
            ELSE [Returns(code, Null) EXCEPT !.unknown = TRUE])

(* input is called, and what it has left in int_for_scanf is loaded.       *)
EmitInput == /\ Emitting("input")
             /\ Return(Emit1(Insert(code, Instr("scanf", 0, <<>>)), "loadscan", <<>>))

(* echo prints each argument as it is emitted; a NULL one is dereferenced. *)
EmitEcho ==
  /\ Emitting("echo")
  /\ IF Node.a = <<>> THEN Return(Returns(code, Const(0)))
     ELSE Continue(code, <<Emit(Head(Node.a)), [do |-> "print"],
                           Emit([t |-> "echo", a |-> Tail(Node.a)])>>)
Printf ==
  /\ Doing("print")
  /\ IF code.val = Null THEN Crash
     ELSE Return(Insert(code, Instr("printf", 0, <<code.val>>)))

(* The variable is registered, then the value emitted and stored.          *)
EmitAssign ==
  /\ Emitting("assign")
  /\ Continue(CreateEntryBlockAlloca(code, Node.n),
              <<Emit(Node.a), [do |-> "store", n |-> Node.n]>>)
(* Mutant: an assignment has no value.                                     *)
CreateStore_NoResult ==
  /\ Doing("store")
  /\ IF code.val = Null THEN Crash
     ELSE Return(Returns(Insert(code, Instr("store", 0, <<Frame.n, code.val>>)), Null))
CreateStore ==
  /\ Doing("store")
  /\ IF code.val = Null THEN Crash
     ELSE Return(Insert(code, Instr("store", 0, <<Frame.n, code.val>>)))

EmitUnary == Emitting("unary") /\ Continue(code, <<Emit(Node.a), [do |-> "unary", n |-> Node.n]>>)
Unary == /\ Doing("unary")
         /\ Return(IF code.val = Null THEN code ELSE Emit1(code, "compute", <<Frame.n, code.val>>))

EmitBinary ==
  /\ Emitting("binary")
  /\ Continue(code, <<Emit(Node.a), [do |-> "right", n |-> Node.n, e |-> Node.b]>>)
RightOperand ==
  /\ Doing("right")
  /\ Continue(code, <<Emit(Frame.e), [do |-> "binary", n |-> Frame.n, left |-> code.val]>>)
(* Mutant: the left operand is not kept, both are the right one.           *)
Binary_Right ==
  /\ Doing("binary")
  /\ Return(IF Frame.left = Null \/ code.val = Null THEN Returns(code, Null)
            ELSE Emit1(code, "compute", <<Frame.n, code.val, code.val>>))
Binary ==
  /\ Doing("binary")
  /\ Return(IF Frame.left = Null \/ code.val = Null THEN Returns(code, Null)
            ELSE Emit1(code, "compute", <<Frame.n, Frame.left, code.val>>))

EmitExpr == EmitNumber \/ EmitText \/ EmitVarref \/ EmitInput \/ EmitEcho \/ EmitAssign
            \/ EmitUnary \/ EmitBinary
FinishExpr == Printf \/ CreateStore \/ Unary \/ RightOperand \/ Binary

-----------------------------------------------------------------------------
EmitExprop == Emitting("expr") /\ Continue(code, <<Emit(Node.a)>>)
EmitExit == Emitting("exit") /\ Return(Insert(code, Instr("exit", 0, <<>>)))

(* A block emits all its statements, whatever becomes of one.              *)
EmitBlock ==
  /\ Emitting("block")
  /\ IF Node.a = <<>> THEN Return(code)
     ELSE Continue(code, <<Emit(Head(Node.a)), Emit([t |-> "block", a |-> Tail(Node.a)])>>)

EmitIf ==
  /\ Emitting("if")
  /\ Continue(code, <<Emit(Node.c), [do |-> "then", then |-> Node.a, else |-> Node.b]>>)
ThenBlock ==
  LET n == Len(code.blocks)
  IN  /\ Doing("then")
      /\ IF code.val = Null THEN Return(code)
         ELSE Continue(SetInsertPoint(CondBr(CreateBlocks(code, 3), code.val, n + 1, n + 2), n + 1),
                       <<Emit(Frame.then),
                         [do |-> "else", e |-> Frame.else, begin |-> n + 2, merge |-> n + 3]>>)
ElseBlock ==
  /\ Doing("else")
  /\ Continue(SetInsertPoint(Br(code, Frame.merge), Frame.begin),
              <<Emit(Frame.e), [do |-> "merge", merge |-> Frame.merge]>>)
(* Mutant: the code after the statement goes on in the else block.         *)
MergeBlock_Stay == Doing("merge") /\ Return(Returns(code, Const(0)))
MergeBlock ==
  /\ Doing("merge")
  /\ Return(Returns(SetInsertPoint(Br(code, Frame.merge), Frame.merge), Const(0)))

(* Without a condition the block just begun is left as it is, and what     *)
(* follows is emitted into it.                                             *)
EmitWhile ==
  LET n == Len(code.blocks)
  IN  /\ Emitting("while")
      /\ Continue(SetInsertPoint(Br(CreateBlocks(code, 3), n + 1), n + 1),
                  <<Emit(Node.c), [do |-> "loop", e |-> Node.a, cond |-> n + 1,
                                   begin |-> n + 2, after |-> n + 3]>>)
(* Mutant: the body is left out.                                           *)
LoopBlock_Empty ==
  /\ Doing("loop")
  /\ IF code.val = Null THEN Return(code)
     ELSE Continue(SetInsertPoint(CondBr(code, code.val, Frame.begin, Frame.after), Frame.begin),
                   <<[do |-> "after", cond |-> Frame.cond, after |-> Frame.after]>>)
LoopBlock ==
  /\ Doing("loop")
  /\ IF code.val = Null THEN Return(code)
     ELSE Continue(SetInsertPoint(CondBr(code, code.val, Frame.begin, Frame.after), Frame.begin),
                   <<Emit(Frame.e), [do |-> "after", cond |-> Frame.cond, after |-> Frame.after]>>)
AfterBlock ==
  /\ Doing("after")
  /\ Return(Returns(SetInsertPoint(Br(code, Frame.cond), Frame.after), Const(0)))

EmitOper == EmitExprop \/ EmitExit \/ EmitBlock \/ EmitIf \/ EmitWhile
FinishOper == ThenBlock \/ ElseBlock \/ MergeBlock \/ LoopBlock \/ AfterBlock

(* main: Builder.CreateRetVoid().                                          *)
CreateRetVoid ==
  /\ status = "compiling" /\ todo = <<>>
  /\ code' = Insert(code, Instr("ret", 0, <<>>)) /\ status' = "running"
  /\ UNCHANGED <<prog, todo, typed, machine>>

(* main: ast->emit(ctx).                                                   *)
Compile == EmitExpr \/ FinishExpr \/ EmitOper \/ FinishOper \/ CreateRetVoid

-----------------------------------------------------------------------------
(* What operators do with numbers.                                         *)
Arith(op, args) ==
  IF \E i \in DOMAIN args : args[i] = Undef THEN Undef
  ELSE CASE op = "-" /\ Len(args) = 1 -> 0 - args[1]
         [] op = "!" -> -1 - args[1]
         [] op = "+" -> args[1] + args[2]
         [] op = "-" -> args[1] - args[2]
         [] op = "*" -> args[1] * args[2]
         [] op = "<" -> IF args[1] < args[2] THEN 1 ELSE 0
         [] op = "=" -> IF args[1] = args[2] THEN 1 ELSE 0

Read(mem, x) == IF x \in DOMAIN mem THEN mem[x] ELSE Undef
Written(mem, x, v) == [y \in DOMAIN mem \cup {x} |-> IF y = x THEN v ELSE mem[y]]

(* scanf: at the end of the input the variable keeps its value.            *)
Scanned(m) == IF m.in = <<>> THEN m
              ELSE [m EXCEPT !.scan = Head(m.in), !.in = Tail(m.in)]

NewMachine(in) == [mem |-> <<>>, scan |-> Undef, in |-> in, out |-> <<>>, regs |-> <<>>,
                   block |-> 1, next |-> 1]

-----------------------------------------------------------------------------
Init ==
  /\ prog \in Programs
  /\ typed \in Inputs
  /\ code = NewContext
  /\ todo = <<Emit(prog)>>
  /\ machine = NewMachine(typed)
  /\ status = "compiling"

(* The compiled program.                                                   *)
Current == code.blocks[machine.block][machine.next]

Operand(v) == IF v.k = "const" THEN v.n
              ELSE IF v.n \in DOMAIN machine.regs THEN machine.regs[v.n] ELSE NoRegister

Fetch(ops) == status = "running" /\ Current.op \in ops
Advance(m) == [m EXCEPT !.next = @ + 1]
Goto(b) == machine' = [machine EXCEPT !.block = b, !.next = 1]
Result(m, v) == Advance([m EXCEPT !.regs = Written(@, Current.dst, v)])
Same == UNCHANGED <<prog, code, todo, typed>>

Load == /\ Fetch({"load"})
        /\ machine' = Result(machine, Read(machine.mem, Current.args[1]))
        /\ Same /\ UNCHANGED status

Store == /\ Fetch({"store"})
         /\ machine' = Advance([machine EXCEPT !.mem =
                                  Written(@, Current.args[1], Operand(Current.args[2]))])
         /\ Same /\ UNCHANGED status

Compute ==
  LET args == Tail(Current.args)
  IN  /\ Fetch({"compute"})
      /\ machine' = Result(machine, Arith(Current.args[1], [i \in DOMAIN args |-> Operand(args[i])]))
      /\ Same /\ UNCHANGED status

Scan == /\ Fetch({"scanf", "loadscan"})
        /\ machine' = IF Current.op = "scanf" THEN Advance(Scanned(machine))
                      ELSE Result(machine, machine.scan)
        /\ Same /\ UNCHANGED status

PrintValue == /\ Fetch({"printf"})
         /\ machine' = Advance([machine EXCEPT !.out = Append(@, Operand(Current.args[1]))])
         /\ Same /\ UNCHANGED status

Stop == /\ Fetch({"exit", "ret"})
        /\ status' = "done"
        /\ Same /\ UNCHANGED machine

Jump == /\ Fetch({"br"})
        /\ Goto(Current.args[1])
        /\ Same /\ UNCHANGED status

Branch ==
  /\ Fetch({"condbr"})
  /\ IF Operand(Current.args[1]) = Undef
     THEN status' = "undefined" /\ UNCHANGED machine
     ELSE /\ Goto(IF Operand(Current.args[1]) # 0 THEN Current.args[2] ELSE Current.args[3])
          /\ UNCHANGED status
  /\ Same

Run == Load \/ Store \/ Compute \/ Scan \/ PrintValue \/ Stop \/ Jump \/ Branch
Next == Compile \/ Run

Spec == Init /\ [][Next]_vars

(* The compiler goes on compiling and the program running: neither waits   *)
(* for anything.                                                           *)
FairSpec == Spec /\ WF_vars(Compile) /\ WF_vars(Run)

-----------------------------------------------------------------------------
(* Where an instruction may go on to; a block whose only terminator is its *)
(* last instruction, and goes to none but those blocks.                    *)
Targets(i) == IF i.op = "br" THEN {i.args[1]}
              ELSE IF i.op = "condbr" THEN {i.args[2], i.args[3]} ELSE {}
Closed(is, to) ==
  /\ is # <<>>
  /\ \A i \in DOMAIN is : is[i].op \in Terminators <=> i = Len(is)
  /\ Targets(is[Len(is)]) \subseteq to

(* A block of the function ends in a terminator and has no other, however  *)
(* its statements nest and whatever emit gave up on; a block that is not in*)
(* the function is not jumped to (ifop 116-148, whileop 160-184).          *)
Compiled == status \in {"running", "done", "undefined"}
BlocksClosed == Compiled => \A b \in code.inside : Closed(code.blocks[b], code.inside)

(* The compiled program never runs off the end of a block, nor into one    *)
(* that is not in the function.                                            *)
CounterInBlock ==
  Compiled => /\ machine.block \in code.inside
              /\ machine.next \in DOMAIN code.blocks[machine.block]

(* The compiler follows NULL only for a name no earlier text assigns.      *)
CrashOnlyOnUnknown == status = "crashed" => code.unknown
=============================================================================

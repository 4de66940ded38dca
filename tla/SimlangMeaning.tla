---------------------------- MODULE SimlangMeaning ----------------------------
(***************************************************************************)
(* What a simlang program means by itself: an interpreter of its tree, and *)
(* the comparison with the program that Simlang compiles it to.            *)
(***************************************************************************)
EXTENDS Simlang, SequencesExt

CONSTANT Fuel          \* bound: the loop iterations of a program

ASSUME FuelAssumption == Fuel \in Nat

(* The interpreter.  It knows nothing of blocks, slots or registers.       *)
RECURSIVE Value(_, _), Exec(_, _, _)

Running(m) == m.end = "running"
With(m, v) == [m EXCEPT !.val = v]

Value(e, m) ==
  IF ~ Running(m) THEN m
  ELSE CASE e.t = "num"    -> With(m, e.v)
         [] e.t = "str"    -> With(m, Text)
         [] e.t = "var"    -> With(m, Read(m.mem, e.n))
         [] e.t = "input"  -> LET r == Scanned(m) IN With(r, r.scan)
         [] e.t = "echo"   ->
              With(FoldLeft(LAMBDA acc, a : LET r == Value(a, acc)
                                            IN [r EXCEPT !.out = Append(@, r.val)],
                            m, e.a), 0)
         [] e.t = "assign" -> LET r == Value(e.a, m)
                              IN  [r EXCEPT !.mem = Written(@, e.n, r.val)]
         [] e.t = "unary"  -> LET r == Value(e.a, m) IN With(r, Arith(e.n, <<r.val>>))
         [] e.t = "binary" -> LET l == Value(e.a, m)
                                  r == Value(e.b, l)
                              IN  With(r, Arith(e.n, <<l.val, r.val>>))

Ended(m, how) == [m EXCEPT !.end = how]

Exec(p, m, fuel) ==
  IF ~ Running(m) THEN m
  ELSE CASE p.t = "expr"  -> Value(p.a, m)
         [] p.t = "exit"  -> Ended(m, "done")
         [] p.t = "block" -> FoldLeft(LAMBDA acc, q : Exec(q, acc, fuel), m, p.a)
         [] p.t = "if"    -> LET r == Value(p.c, m)
                             IN  IF r.val = Undef THEN Ended(r, "undefined")
                                 ELSE Exec(IF r.val # 0 THEN p.a ELSE p.b, r, fuel)
         [] p.t = "while" -> LET r == Value(p.c, m)
                             IN  IF r.val = Undef THEN Ended(r, "undefined")
                                 ELSE IF r.val = 0 THEN r
                                 ELSE IF fuel = 0 THEN Ended(r, "loops")
                                 ELSE Exec(p, Exec(p.a, r, fuel), fuel - 1)

Meaning(p, in) ==
  LET m == Exec(p, [mem |-> <<>>, scan |-> Undef, in |-> in, out |-> <<>>, end |-> "running",
                    val |-> 0], Fuel)
  IN  [out |-> m.out, end |-> IF Running(m) THEN "done" ELSE m.end]

-----------------------------------------------------------------------------
(* What the compiled program prints is what the program means, unless it   *)
(* names a variable no earlier text assigns.                               *)
SameOutput ==
  LET meaning == Meaning(prog, typed)
  IN  ~ code.unknown =>
        /\ status = "done" => machine.out = meaning.out /\ meaning.end = "done"
        /\ status = "undefined" => machine.out = meaning.out /\ meaning.end = "undefined"

(* A program that ends by its own meaning is compiled, runs and ends.      *)
Ends == Meaning(prog, typed).end # "loops" ~> status \notin {"compiling", "running"} \/ code.unknown
=============================================================================

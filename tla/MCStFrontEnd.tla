---------------------------- MODULE MCStFrontEnd ----------------------------
(***************************************************************************)
(* Texts for the front end.                                                *)
(***************************************************************************)
EXTENDS StFrontEnd, StGrammar, SequencesExt

Cat(A, B) == {a \o b : a \in A, b \in B}

(* The sequences over S of at most n elements.                             *)
UpTo(S, n) == UNION {[1 .. k -> S] : k \in 0 .. n}

Texts(A) == {s \in A : IsText(s)}

Head1 == <<"FUNC", "WORD", "NL">>
Vars1 == <<"VAR", "SP", "WORD", "SEMI", "NL", "ENDVAR", "NL">>
End1 == <<"ENDPOU", "NL">>

PouOf(bodies) == Cat({Head1 \o Vars1}, Cat(bodies, {End1}))

(* Bodies in IL, in ST, and in ST behind one of the words that announce it.*)
Body == UpTo({"WORD", "SEMI", "ASSIGN", "NL", "SP", "PRAGMA"}, 4)
PlainBodies == {b \in Body : b = <<>> \/ b[1] \in {"WORD", "PRAGMA"}}
Announced == {<<"STKW">> \o b : b \in {b \in Body : \E i \in DOMAIN b : b[i] = "SEMI"}}
LineComment == <<"SP", "CB", "WORD", "CE", "SP">>
LongComment == <<"SP", "CB", "WORD", "NL", "CE", "SP">>
Commented == {<<"WORD">> \o c \o b : c \in {LineComment, LongComment},
                                       b \in UpTo({"WORD", "SEMI"}, 2)}

PlainPous == Texts(PouOf(Cat(PlainBodies \cup Announced \cup Commented, {<<"NL">>, <<>>})))

(* Charts: a step with its actions, transitions and actions in IL and ST.  *)
InitialStep(assoc) == <<"ISTEP", "SP", "WORD", "COLON">> \o assoc \o <<"ENDSTEP", "NL">>
Associations ==
  {<<"NL">>, <<"SP", "OPENQ", "QUAL", "SP", "CLOSE", "SEMI">>,
   <<"NL", "OPENQ", "NL", "CLOSE", "SEMI", "SP", "OPENQ", "QUAL", "CLOSE", "SEMI">>,
   <<"OPENQ", "TQUAL", "COMMA", "WORD", "SP", "COMMA", "WORD", "CLOSE", "SEMI">>,
   <<"SP", "OPENQ", "TQUAL", "COMMA", "WORD", "CLOSE", "SEMI">>,
   <<"OPENQ", "TQUAL", "COMMA", "SP", "TSHARP", "TIME", "COMMA", "QUAL", "CLOSE", "SEMI">>,
   <<"SP", "OPENQ", "CB", "WORD", "CE", "COMMA", "WORD", "CLOSE", "SEMI">>}
IlLine == <<"WORD", "SP", "WORD", "NL">>
StLine == <<"WORD", "ASSIGN", "TSHARP", "TIME", "SEMI", "NL">>
Condition == <<"ASSIGN", "WORD", "SEMI", "NL", "ENDBLK", "NL">>
Transitions ==
  {<<"TRANS", "SP">> \o Condition,
   <<"TRANS", "COLON", "NL">> \o IlLine \o <<"ENDBLK", "NL">>,
   <<"OPENP", "PRIO", "SP", "ASSIGN", "SP", "WORD", "CLOSE", "TRANS">> \o Condition}
Actions ==
  {<<"ACTN", "SP">> \o IlLine \o IlLine \o <<"ENDBLK", "NL">>,
   <<"ACTN", "NL">> \o StLine \o <<"ENDBLK", "NL">>,
   <<"ACTN", "SP">> \o StLine \o <<"CB", "NL", "CE", "SP">> \o StLine \o <<"ENDBLK", "NL">>,
   <<"ACTN", "STKW", "SP", "WORD", "SEMI", "ENDBLK", "NL">>}

Charts == Cat({InitialStep(a) : a \in Associations},
              Cat(Transitions, Cat(Actions, Transitions \cup Actions)))
SfcPous == Texts(PouOf(Charts))

TaskInits ==
  {<<"PRIO", "ASSIGN", "SP", "WORD">>,
   <<"TPAR", "SP", "ASSIGN", "WORD", "COMMA", "PRIO", "ASSIGN", "WORD">>,
   <<"TPAR", "ASSIGN", "WORD", "SP", "COMMA", "SP", "TPAR", "ASSIGN", "WORD",
     "COMMA", "NL", "PRIO", "SP", "ASSIGN", "WORD">>}
Configs == {<<"CONF", "WORD", "NL", "OPENT">> \o t \o <<"CLOSE", "SEMI", "NL", "ENDCONF", "NL">> :
              t \in TaskInits}

(* Declarations: no VAR block, several, comments and pragmas between.      *)
Declarations ==
  {Head1 \o d \o b \o End1 :
     d \in {<<>>, Vars1 \o Vars1, Vars1 \o <<"CB", "WORD", "NL", "CE", "SP">> \o Vars1,
            Vars1 \o <<"PRAGMA">> \o Vars1, Vars1},
     b \in {<<>>, StLine}}

(* Two units one after the other.                                          *)
Pairs == Cat(Configs \cup Declarations, Configs \cup Declarations)

WellFormed == PlainPous \cup SfcPous \cup Texts(Pairs)

(* They are well formed by the grammar that the proofs assume.  After the  *)
(* END_VAR at n of a text that consists of these words, what is next?      *)
AfterEndVar(text, words, n) ==
  LET later == {m \in words : m > n}
      m == Min(later)
  IN  IF later = {} THEN "list"
      ELSE IF text[m] \in {"VAR", "ENDPOU"} \/ SubSeq(text, m, m + 1) = <<"PRAGMA", "VAR">>
      THEN "list"
      ELSE IF text[m] = "ISTEP" THEN "chart" ELSE "open"

PlaceAfter(text, words, n, p) ==
  IF n \notin words THEN p
  ELSE IF text[n] = "ENDVAR" THEN AfterEndVar(text, words, n)
  ELSE CHOOSE q \in Place : Goes(p, text[n], q)

PlacesOf(text) ==
  LET words == Significant(text)
      seq == FoldLeft(LAMBDA s, n : Append(s, PlaceAfter(text, words, n, Last(s))),
                      <<"units">>, [n \in DOMAIN text |-> n])
  IN  [n \in 0 .. Len(text) |-> seq[n + 1]]

ASSUME WellFormedAssumption == \A text \in WellFormed : Parses(text, PlacesOf(text))

-----------------------------------------------------------------------------
(* Any lexeme, alone or before one that ends, opens or separates, in each  *)
(* place where a rule or bison treats it specially: erroneous texts of     *)
(* every kind.                                                             *)
Second == {"SP", "NL", "SEMI", "WORD", "ASSIGN", "CB", "CLOSE", "ENDPOU", "ENDBLK",
           "TIME", "ISTEP", "PRAGMA", "VAR", "TRANS"}
OddBefore(S) == UpTo(Lexeme, 1) \cup {<<c, d>> : c \in Lexeme, d \in S}
PouEndings ==
  {<<"SEMI", "ENDPOU">>, <<"SP", "ENDBLK", "SP", "ENDPOU", "SP", "FUNC">>,
   <<"COMMA", "ENDSTEP", "SP", "ENDCONF">>}
Behind(S) == Cat(UpTo(Lexeme, 1), PouEndings)
               \cup Cat({<<c, d>> : c \in Lexeme, d \in S}, {<<"SP", "ENDPOU">>})

PouAt == {<<>>, Head1, Head1 \o <<"VAR", "SP">>, Head1 \o Vars1,
          Head1 \o Vars1 \o <<"WORD", "SP">>,
          <<"CONF">>, <<"CONF", "OPENT">>, <<"CONF", "OPENT", "TPAR", "SP">>,
          <<"CONF", "OPENT", "TPAR", "ASSIGN">>, <<"CONF", "OPENT", "PRIO", "ASSIGN">>}

ChartHead == Head1 \o Vars1 \o <<"ISTEP", "SP", "WORD", "COLON">>
Network == ChartHead \o <<"ENDSTEP", "SP">>
ChartAt == {Network, Network \o <<"OPENP">>, Network \o <<"TRANS">>,
            Network \o <<"ACTN">>, Network \o <<"ACTN", "WORD", "CB", "CE">>}

(* Behind the error in a step the list of associations goes on.            *)
StepAt == {Head1 \o Vars1 \o <<"ISTEP", "SP">>}
            \cup Cat({ChartHead},
                     {<<>>, <<"OPENQ">>, <<"OPENQ", "QUAL", "SP">>,
                      <<"OPENQ", "QUAL", "COMMA">>, <<"OPENQ", "QUAL", "CLOSE">>,
                      <<"OPENQ", "TQUAL", "SP">>, <<"OPENQ", "TQUAL", "COMMA">>,
                      <<"OPENQ", "TQUAL", "COMMA", "TSHARP">>,
                      <<"OPENQ", "TQUAL", "COMMA", "WORD", "SP">>})
StepEndings ==
  {<<"CLOSE", "OPENQ", "QUAL", "CLOSE", "SEMI", "ENDSTEP", "SP", "ENDPOU">>,
   <<"COLON", "OPENQ", "TQUAL", "COMMA", "WORD", "CLOSE", "ENDSTEP", "ACTN", "ENDBLK">>}

AnyPlace ==
  Texts(Cat(PouAt, Behind(Second))
          \cup Cat(ChartAt, Behind(Second \ {"CLOSE", "PRAGMA", "VAR"}))
          \cup Cat(StepAt, Cat(OddBefore({"SP", "WORD", "CB"}),
                            StepEndings)))

-----------------------------------------------------------------------------
(* Texts that the parser never gets to the end of.                         *)

(* A plain body with an END_ACTION that closes nothing.                    *)
StrayBlockEnd == Texts(PouOf({<<"WORD", "NL", "ENDBLK", "NL">>,
                              <<"WORD", "SEMI", "NL", "ENDBLK", "NL">>}))

(* A chart with a ';' behind a step.                                       *)
StrayInChart == Texts(PouOf({InitialStep(<<"NL">>) \o <<"SEMI", "NL">> \o t :
                               t \in Transitions}))

Endless == StrayBlockEnd \cup StrayInChart

-----------------------------------------------------------------------------
(* An action whose body begins on the line behind its name, and a body     *)
(* with a comment over two lines: texts whose lines flex does not keep.    *)
Lines ==
  Texts(PouOf({InitialStep(<<"NL">>) \o <<"ACTN", "NL">> \o StLine \o <<"ENDBLK", "NL">>,
               <<"WORD", "SP", "CB", "WORD", "NL", "CE", "SP">> \o StLine}))

(* The texts of AnyPlace that are none of the well formed ones may have    *)
(* any error; those of the other runs have what they show.                 *)
Everything == WellFormed \cup AnyPlace
Erroneous(text) == text \notin WellFormed
Shown(text) == FALSE
=====

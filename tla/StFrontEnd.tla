----------------------------- MODULE StFrontEnd -----------------------------
(***************************************************************************)
(* The front end of st-lang: the scanner of StLexer, and bison's parser of *)
(* parser.y as far as the scanner can feel it.  The two take turns: bison  *)
(* calls yylex, gets one token, and may set goto and pop commands that the *)
(* next call of yylex obeys.  parse is where bison stands among the        *)
(* productions that do so; a production without commands, or the recovery  *)
(* inside one, does not move it.                                           *)
(***************************************************************************)
EXTENDS StLexer

CONSTANTS
  Faulty(_),    \* may the text have errors, such as an undeclared name, that
                \* its lexemes do not show?
  MaxDepth      \* bound of the stack where bison goes to body_state for ever

ASSUME DepthAssumption == MaxDepth \in Nat

VARIABLE parse

vars == <<lexVars, parse>>

ParseState ==
  {"pou", "head", "named", "step", "qual", "timed", "timedval", "timedlook",
   "timedlit", "names", "comma", "assoc", "rstep", "sfc", "prio", "ptrans",
   "act", "block", "rblock", "conf", "task", "tpar", "tval", "tcomma", "tprio",
   "tprioval"}

(* The productions in which a pop has still to be asked for.               *)
PopDue == {"qual", "timed", "timedval", "timedlook", "timedlit", "prio", "task",
           "tpar", "tval", "tprio", "tprioval"}

Init == LexInit /\ parse = "pou"

-----------------------------------------------------------------------------
(* Bison takes the token in from, goes on to to, and leaves the commands   *)
(* asks for flex.  A mid-rule action that needs no lookahead runs before   *)
(* the next token is read, any other one after.                            *)
Reduce(from, on, to, asks) ==
  /\ parse = from
  /\ token.cls \in on
  /\ parse' = to
  /\ cmd' = [c \in Commands |-> c \in asks]

Class == Marked \cup Synthetic

(* The tokens D, where bison may be unable to use them for a reason that   *)
(* the classes do not show: an undeclared name, a missing statement, ...   *)
Doubtful(D) == IF Faulty(src) THEN D ELSE {}

Pou == \/ Reduce("pou", {"ISTEP"}, "head", {})
       \/ Reduce("pou", {"CONF"}, "conf", {})
       \/ Reduce("pou", Class \ {"ISTEP", "CONF"}, "pou", {})
       \/ Reduce("pou", Doubtful({"ISTEP", "CONF"}), "pou", {})

(* After a syntax error in a step everything up to END_STEP is thrown away,*)
(* unless the list of associations had no ':' before it, which is then the *)
(* first ':' that comes.                                                   *)
Throw(from, on, asks) ==
  \/ Reduce(from, on \cap {"ENDSTEP"}, "sfc", asks)
  \/ Reduce(from, on \cap {"COLON", "ACTN"}, "step", asks)
  \/ Reduce(from, on \ {"ENDSTEP"}, "rstep", asks)

RecoverStep == Throw("rstep", Class, {})

(* The associations of a step, { name ( qualifier names ) ; } END_STEP; a  *)
(* missing or superfluous ';' is recovered from at once.                   *)
Association(from) ==
  \/ Reduce(from, {"SEMI"}, "step", {})
  \/ Reduce(from, {"OPENQ"}, "qual", {"qualifier"})
  \/ Throw(from, Class \ {"SEMI", "OPENQ"}, {})

(* INITIAL_STEP name : associations; the name or the ':' may be missing.   *)
Step == \/ Reduce("head", {"WORD"}, "named", {})
        \/ Throw("head", (Class \ {"WORD"}) \cup Doubtful({"WORD"}), {})
        \/ Reduce("named", {"COLON"}, "step", {})
        \/ Reduce("named", {"OPENQ"}, "qual", {"qualifier"})
        \/ Reduce("named", {"SEMI"}, "step", {})
        \/ Throw("named", Class \ {"COLON", "OPENQ", "SEMI"}, {})
        \/ Association("step")
        \/ Association("assoc")

(* is_current_syntax_token: what a recovery keeps as the lookahead.  Of a  *)
(* run of tokens it clears the first, and meets the others.                *)
SyntaxTokens == {"SEMI", "COMMA", "CLOSE"}
Runs == {"OPENQ", "OPENP", "OPENT", "TRANS", "ACTN", "CE"}

(* The names after a qualifier, up to ')'.                                 *)
NextName(from, asks) ==
  \/ Reduce(from, {"WORD"}, "names", asks)
  \/ Reduce(from, {"COMMA"}, "comma", asks)
  \/ Reduce(from, {"CLOSE"}, "assoc", asks)
  \/ Throw(from, (Class \ {"WORD", "COMMA", "CLOSE"}) \cup Doubtful({"WORD"}), asks)

(* , error: the list goes on, behind the token or, if it is kept, with it. *)
KeptOrCleared(from, on, asks) ==
  \/ Reduce(from, {"COMMA"}, "comma", asks)
  \/ Reduce(from, {"CLOSE"}, "assoc", asks)
  \/ Throw(from, {"SEMI"} \cup Runs, asks)
  \/ Reduce(from, on \ (SyntaxTokens \cup Runs), "names", asks)

IndicatorNames == NextName("names", {}) \/ KeptOrCleared("comma", Class, {})

(* Mutant: no cmd_pop_state after a qualifier.                             *)
Qualifier_NoPop == \/ Reduce("qual", {"TQUAL"}, "timed", {})
                   \/ Reduce("qual", {"QUAL"}, "names", {})
                   \/ NextName("qual", {"pop"}) /\ token.cls \notin {"QUAL", "TQUAL"}

(* action_qualifier: anything but a qualifier reduces the empty one.       *)
Qualifier == \/ Reduce("qual", {"TQUAL"}, "timed", {})
             \/ Reduce("qual", {"QUAL"}, "names", {"pop"})
             \/ NextName("qual", {"pop"}) /\ token.cls \notin {"QUAL", "TQUAL"}

(* timed_qualifier [,] action_time, a variable or a literal T#1d2h; a timed*)
(* qualifier alone is an error that unwinds past the pop.                  *)
TimedQualifier ==
  \/ Reduce("timed", {"COMMA"}, "timedval", {})
  \/ Reduce("timed", {"WORD"}, "timedlook", {})
  \/ Reduce("timed", {"TSHARP"}, "timedlit", {})
  \/ Throw("timed", {"OPENQ"}, {"pop"})
  \/ Throw("timed", Class \ {"COMMA", "WORD", "TSHARP", "OPENQ"}, {})
  \/ Throw("timed", Doubtful({"WORD"}), {})
  \/ Reduce("timedval", {"WORD"}, "timedlook", {})
  \/ Reduce("timedval", {"TSHARP"}, "timedlit", {})
  \/ KeptOrCleared("timedval", (Class \ {"WORD", "TSHARP"}) \cup Doubtful({"WORD"}), {"pop"})
  \/ NextName("timedlook", {"pop"})
  \/ Reduce("timedlit", {"TBODY"}, "timedlit", {})
  \/ Reduce("timedlit", {"MARK"}, "names", {"pop"})
  \/ KeptOrCleared("timedlit", Class \ {"TBODY", "MARK"}, {"pop"})
  \/ Throw("timedlit", Class \ {"TBODY", "MARK"}, {})

(* TRANSITION error ..., ACTION error ...: all is thrown away up to the end*)
(* of the block, but some of the alternatives go on with the tokens there  *)
(* are, and send flex to body_state (or to the priority) once more.  The   *)
(* parser may do so for ever, which MaxDepth bounds.                       *)
ThrowBlock(from, on) ==
  \/ Reduce(from, on, "rblock", {})
  \/ Reduce(from, on, "act", {})
  \/ Reduce(from, on, "rblock", {"body"}) /\ Len(stack) < MaxDepth
  \/ Reduce(from, on, "act", {"body"}) /\ Len(stack) < MaxDepth
  \/ Reduce(from, on \cap {"OPENP", "OPENQ", "OPENT"}, "prio", {"priority"})

RecoverBlock == \/ Reduce("rblock", {"ENDBLK"}, "sfc", {})
                \/ ThrowBlock("rblock", Class)

(* Between the steps, transitions and actions of a chart.  A chart may be  *)
(* the body of an action: the end of one that is not, and the end of the   *)
(* POU in one that is, are errors of what is around it.                    *)
Sfc == \/ Reduce("sfc", {"ISTEP"}, "head", {})
       \/ Reduce("sfc", {"TRANS"}, "block", {"body"})
       \/ Reduce("sfc", {"ACTN"}, "act", {"body"})
       \/ Reduce("sfc", {"OPENP"}, "prio", {"priority"})
       \/ Reduce("sfc", {"ENDPOU"}, "pou", {})
       \/ ThrowBlock("sfc", Doubtful({"ENDPOU"}))
       \/ Reduce("sfc", {"ENDBLK"}, "sfc", {})
       \/ Reduce("sfc", {"ENDBLK"}, "pou", {})

(* transition_priority: '(' PRIORITY := integer ')'.                       *)
Priority ==
  \/ Reduce("prio", {"PRIO"}, "ptrans", {"pop"})
  \/ ThrowBlock("prio", Class \ {"PRIO"})
  \/ Reduce("ptrans", {"ASSIGN", "WORD", "CLOSE"}, "ptrans", {})
  \/ Reduce("ptrans", {"TRANS"}, "block", {"body"})
  \/ ThrowBlock("ptrans", Class \ {"ASSIGN", "WORD", "CLOSE", "TRANS"})
  \/ ThrowBlock("ptrans", Doubtful({"ASSIGN", "WORD", "CLOSE", "TRANS"}))

(* What a body may hold.                                                   *)
BodyTokens == {"WORD", "SEMI", "ASSIGN", "COMMA", "COLON", "CLOSE", "STKW",
               "NL", "PRAGMA", "TSHARP", "TBODY", "MARK", "ENDBLK"} \cup Synthetic

(* transition_condition END_TRANSITION, action_body END_ACTION.            *)
InsideBlock(from) ==
  \/ Reduce(from, BodyTokens \ {"ENDBLK"}, "block", {})
  \/ Reduce(from, {"ENDBLK"}, "sfc", {})
  \/ ThrowBlock(from, (Class \ BodyTokens) \cup Doubtful(BodyTokens))

Block == \/ InsideBlock("block")
         \/ InsideBlock("act")
         \/ Reduce("act", {"ISTEP"}, "head", {})

(* CONFIGURATION name ... END_CONFIGURATION.                               *)
Configuration ==
  \/ Reduce("conf", {"OPENT"}, "task", {"task"})
  \/ Reduce("conf", {"ENDCONF"}, "pou", {})
  \/ Reduce("conf", (Class \ {"OPENT", "ENDCONF"}) \cup Doubtful({"OPENT"}), "conf", {})

(* TASK name error: the token is kept or cleared.                          *)
AbandonTask(from, on, asks) ==
  \/ Reduce(from, on, "conf", asks)
  \/ Reduce(from, on \cap {"OPENT"}, "task", asks \cup {"task"})
  \/ Reduce(from, on \cap {"ENDCONF"}, "pou", asks)

(* TASK name ( [SINGLE := data ,] [INTERVAL := data ,] PRIORITY := n ).    *)
Task ==
  \/ Reduce("task", {"TPAR"}, "tpar", {})
  \/ Reduce("task", {"PRIO"}, "tprio", {})
  \/ AbandonTask("task", (Class \ {"TPAR", "PRIO"}) \cup Doubtful({"TPAR"}), {})
  \/ Reduce("tpar", {"ASSIGN"}, "tval", {})
  \/ Reduce("tpar", {"WORD"}, "tcomma", {"pop"})
  \/ AbandonTask("tpar", Class \ {"ASSIGN", "WORD"}, {"pop"})
  \/ AbandonTask("tpar", Doubtful({"WORD"}), {"pop"})
  \/ Reduce("tval", {"WORD"}, "tcomma", {"pop"})
  \/ Reduce("tval", {"COMMA"}, "task", {"pop", "task"})
  \/ AbandonTask("tval", (Class \ {"WORD", "COMMA"}) \cup Doubtful({"WORD"}), {"pop"})
  \/ Reduce("tcomma", {"COMMA"}, "task", {"task"})
  \/ AbandonTask("tcomma", (Class \ {"COMMA"}) \cup Doubtful({"COMMA"}), {})
  \/ Reduce("tprio", {"ASSIGN"}, "tprioval", {})
  \/ AbandonTask("tprio", Class \ {"ASSIGN"}, {"pop"})
  \/ AbandonTask("tprioval", Class, {"pop"})

BisonMoves ==
  \/ Pou \/ Step \/ RecoverStep \/ IndicatorNames \/ Qualifier \/ TimedQualifier
  \/ Sfc \/ Priority \/ Block \/ RecoverBlock \/ Configuration \/ Task

Yyparse == /\ turn = "bison"
           /\ BisonMoves
           /\ turn' = "enter"
           /\ UNCHANGED <<src, input, start, stack, bodyVars, tracking, token,
                          history>>

(* sfc_network error: any other token in a chart stays the lookahead, and  *)
(* since the error status is reset bison meets it again, for ever.         *)
ChartTokens == {"ISTEP", "TRANS", "ACTN", "OPENP", "ENDPOU", "ENDBLK"}

SfcError == /\ turn = "bison"
            /\ parse = "sfc"
            /\ token.cls \notin ChartTokens
            /\ UNCHANGED vars

Scanner == Yylex /\ UNCHANGED parse

(* The program has read its whole input, or the scanner gave up.           *)
Finished == turn \in {"end", "fatal"} /\ UNCHANGED vars

Next == Scanner \/ Yyparse \/ SfcError \/ Finished

Spec == Init /\ [][Next]_vars

(* One thread runs bison and flex: some step is always taken.              *)
FairSpec == Spec /\ WF_vars(Next)

-----------------------------------------------------------------------------
(* Type invariant.                                                         *)

Items == [cls : Marked, at : Nat]

TextTyped == /\ src \in Seq(Lexeme)
             /\ input \in Seq(Items)
             /\ buffer \in Seq(Items)
             /\ delivered \subseteq Nat
             /\ eaten \subseteq Nat

ControlTyped == /\ start \in StartCondition
                /\ stack \in Seq(StartCondition)
                /\ cmd \in [Commands -> BOOLEAN]
                /\ turn \in {"enter", "scan", "bison", "end", "fatal"}
                /\ parse \in ParseState

PositionTyped ==
  /\ blank \in BOOLEAN
  /\ initTracking \in Nat
  /\ tracking \in Nat
  /\ token \in [cls : Class \cup {"none"}, at : Nat, size : Nat, line : Nat]

TypeOK == TextTyped /\ ControlTyped /\ PositionTyped

-----------------------------------------------------------------------------
(* The start conditions a rule or bison leaves by a pop.                   *)
Nested == {"vardecl_state", "body_state", "il_state", "st_state", "sfc_state",
           "sfc_qualifier_state", "sfc_priority_state", "task_init_state",
           "time_literal_state", "comment_state"}

(* No rule and no command of bison ever pops an empty start condition      *)
(* stack (which is a fatal error of the scanner), although END_FUNCTION    *)
(* and the like jump to INITIAL whatever the stack holds and the pops that *)
(* bison asks for are spread over productions and their error recovery.    *)
NoUnderflow ==
  /\ start \in Nested => stack # <<>>
  /\ turn = "enter" /\ cmd["pop"] => AfterPushes.stack # <<>>

(* Why: the bottom of the stack is no nested start condition, so whoever   *)
(* is in one has something to return to; and while bison owes a pop the    *)
(* scanner is in the state pushed for it, perhaps below a comment or a     *)
(* literal, or has found the end of a unit and left its stack alone.       *)
Held == {"sfc_qualifier_state", "sfc_priority_state", "task_init_state"}

(* The tokens after which bison may still owe a pop.                       *)
KeepsPopDue == {"TQUAL", "COMMA", "WORD", "TSHARP", "TPAR", "ASSIGN", "PRIO",
                "OPENT"}

HeldBelow == /\ start \in {"comment_state", "time_literal_state"}
             /\ Len(stack) >= 2
             /\ stack[Len(stack)] \in Held

PopIsDue ==
  /\ turn = "scan" => start \in Held \/ HeldBelow
  /\ turn = "bison" /\ token.cls \in KeepsPopDue => start \in Held
  /\ turn = "bison" /\ token.cls = "TBODY" => start \in Held \/ HeldBelow
  /\ turn \in {"scan", "bison"} => stack # <<>>
  /\ turn = "enter" =>
       \/ ~ cmd["body"] /\ ~ cmd["pop"] /\ (cmd["qualifier"] \/ cmd["priority"] \/ cmd["task"])
       \/ start \in Held /\ stack # <<>> /\ ~ cmd["body"] /\ (cmd["pop"] => cmd["task"])
       \/ HeldBelow /\ cmd = NoCommand

Chain == /\ start \in Nested => stack # <<>>
         /\ stack # <<>> => stack[1] \notin Nested
         /\ parse \in PopDue => PopIsDue
         /\ turn = "enter" /\ cmd["pop"] => stack # <<>>

(* No text is lost between the put-backs, the body buffer and the comments:*)
(* every lexeme of the source has been handed to bison, has been eaten by  *)
(* a rule, or is still to be read.                                         *)
Indices(s) == {s[i].at : i \in DOMAIN s}

Pending == Indices(input) \cup Indices(buffer)

TextAccounted == delivered \cup eaten \cup Pending = DOMAIN src

(* Only whitespace and comments are eaten: whatever the start conditions,  *)
(* a significant lexeme reaches bison or waits in the input or the buffer. *)
OnlyLayoutEaten == eaten \cap Significant(src) = {}

(* Bison sees the text in order and once, although bodies are read, put    *)
(* back and read again: no token starts at or before text that has been    *)
(* handed over already.  (A blank may be: the end of line of IL can be     *)
(* read from the buffer an earlier body left behind.)                      *)
InOrder ==
  [][ token' # token /\ token'.at # 0 =>
        \/ token'.cls \in Blank \cup {"MARK"}
        \/ \A i \in delivered : i < token'.at \/ src[i] \in Blank ]_vars

(* END_FUNCTION, END_PROGRAM, END_CONFIGURATION, ... are always recognized *)
(* back in INITIAL, out of whatever state the text before them led to:     *)
(* "forces the flex state machine to re-synchronise with the input stream" *)
(* (parser.l:1129-1134).                                                   *)
EndFoundInInitial ==
  turn = "bison" /\ token.cls \in {"ENDPOU", "ENDCONF"} => start = "INITIAL"

(* On a well formed text the whole input is delivered: at its end nothing  *)
(* but blanks is left over in the body buffer.                             *)
Delivered == turn = "end" => Significant(src) \subseteq delivered

AllDelivered == ~ Faulty(src) => Delivered

(* On a well formed text the stack of start conditions always matches the  *)
(* place in the grammar: a VAR block and a body lie on the list of VAR     *)
(* blocks, a transition's or action's body on the chart, and a unit leaves *)
(* nothing behind on the stack.                                            *)
Chart == <<"vardecl_list_state", "sfc_state">>

StacksFit ==
  CASE start \in {"INITIAL", "header_state", "config_state",
                  "vardecl_list_state"} -> stack = <<>>
    [] start = "vardecl_state" -> stack = <<"vardecl_list_state">>
    [] start \in {"body_state", "il_state", "st_state"} ->
         IF parse \in {"act", "block"} THEN stack = Chart
         ELSE stack = <<"vardecl_list_state">>
    [] start = "sfc_state" -> stack = <<"vardecl_list_state">>
    [] start \in {"sfc_qualifier_state", "sfc_priority_state"} -> stack = Chart
    [] start = "task_init_state" -> stack = <<"config_state">>
    [] OTHER -> stack # <<>>

StackShape == ~ Faulty(src) => StacksFit

(* After END_TRANSITION and END_ACTION the scanner is back in the chart,   *)
(* and after a qualifier, a priority or a task parameter in the state that *)
(* held it: bison's idea of where it is and flex's agree.                  *)
PlacesAgree ==
  turn = "scan" /\ start # "comment_state" /\ input # <<>> /\ Next1.cls # "ENDPOU" =>
    /\ parse \in {"head", "named", "step", "names", "comma", "assoc", "sfc",
                  "ptrans"} => start = "sfc_state"
    /\ parse \in {"qual", "timed", "timedval", "timedlook"} =>
         start = "sfc_qualifier_state"
    /\ parse = "timedlit" => start \in {"sfc_qualifier_state", "time_literal_state"}
    /\ parse = "prio" => start = "sfc_priority_state"
    /\ parse \in {"task", "tpar", "tval", "tprio", "tprioval"} =>
         start = "task_init_state"
    /\ parse \in {"conf", "tcomma"} => start = "config_state"

BackInPlace == ~ Faulty(src) => PlacesAgree

(* The body whose first lexeme is at n, as far as the end of its POU,      *)
(* transition or action: what is written in it outside comments.           *)
BodyEnd == {"ENDPOU", "ENDBLK"}

InBody(text, n, m) ==
  \A k \in Significant(text) : n <= k /\ k <= m => text[k] \notin BodyEnd

BodyText(text, n) ==
  {text[m] : m \in {m \in Significant(text) : n <= m /\ InBody(text, n, m)}}

(* The first word flex has to read, behind blanks (which an earlier body   *)
(* may have left in the buffer).                                           *)
Foremost(i) == /\ input[i].cls \notin Blank
               /\ \A j \in 1 .. i - 1 : input[j].cls \in Blank

AtNewBody == turn = "bison" /\ token.cls \in Synthetic

(* What flex tells bison of a body, whatever the text: "if ';' occurs      *)
(* before an END_FUNCTION, ... => we are parsing ST" (parser.l:807), or a  *)
(* word that ST statements begin with comes first (parser.l:817), and IL   *)
(* otherwise.  The search sees the body as it is written: not the ';' of a *)
(* comment, not one behind the end, and none of an earlier body.           *)
AnnouncedLanguage ==
  AtNewBody =>
    \A i \in DOMAIN input : Foremost(i) =>
      (token.cls = "start_ST_body" <=>
         \/ src[input[i].at] \in {"STKW", "STWORD"}
         \/ "SEMI" \in BodyText(src, input[i].at))

(* The line bison is told for a token is the line it is on: the text of a  *)
(* body is kept and put back "so as not to lose track of the line_number   *)
(* and column number" (parser.l:784-786).                                  *)
LineKept ==
  turn = "bison" /\ token.at # 0 =>
    token.line = TrueLine(src)[token.at - 1]

(* The whole input is read, or the scanner gives up; it never turns round  *)
(* between two start conditions for ever.                                  *)
Terminates == <>(turn \in {"end", "fatal"})

(* The code keeps this on well formed texts, and on erroneous ones without *)
(* a chart and without END_TRANSITION or END_ACTION, whatever else is wrong*)
(* with them: flex always gets back to INITIAL, and bison to its end.      *)
WithoutCharts(text) == \A i \in DOMAIN text : text[i] \notin {"ISTEP", "ENDBLK"}

=============================================================================

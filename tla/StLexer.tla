------------------------------- MODULE StLexer -------------------------------
(***************************************************************************)
(* The flex scanner of st-lang/parser.l and the part of parser_t it works  *)
(* on: the start conditions and their stack, the input with the text that  *)
(* has been put back, the buffer body_state collects a body in, the        *)
(* tracking of the position, and the commands bison leaves for the next    *)
(* call of yylex.  One action is one rule match, with everything the rule  *)
(* does.                                                                   *)
(***************************************************************************)
EXTENDS StText

CONSTANT Sources      \* the texts the scanner is given

ASSUME SourcesAssumption ==
  /\ Sources \subseteq Seq(Lexeme)
  /\ \A s \in Sources : IsText(s)

VARIABLES
  src,          \* the text being read; never changes
  input,        \* what flex has still to read, text put back included
  start,        \* the start condition
  stack,        \* the start conditions yy_push_state saved
  buffer,       \* bodystate_buffer
  blank,        \* bodystate_is_whitespace
  initTracking, \* bodystate_init_tracking
  tracking,     \* the line of *current_tracking
  cmd,          \* goto_body_state__ ... pop_state__
  turn,         \* whose move it is
  token,        \* the last token handed to bison
  delivered,    \* history: indices handed to bison
  eaten         \* history: indices read and dropped

bodyVars == <<buffer, blank, initTracking>>
history == <<delivered, eaten>>
lexVars == <<src, input, start, stack, bodyVars, tracking, cmd, turn, token,
             history>>

(* %s start conditions: rules without a start condition apply in them.     *)
Inclusive ==
  {"INITIAL", "config_state", "task_init_state", "header_state",
   "vardecl_state", "il_state", "st_state", "sfc_state",
   "sfc_qualifier_state", "sfc_priority_state"}

(* %x start conditions: only the rules that name them.                     *)
Exclusive ==
  {"vardecl_list_state", "body_state", "time_literal_state", "comment_state"}

StartCondition == Inclusive \cup Exclusive

Commands == {"body", "qualifier", "priority", "task", "pop"}
NoCommand == [c \in Commands |-> FALSE]

(* The two dummy tokens body_state makes up.                               *)
Synthetic == {"start_ST_body", "start_IL_body"}

Item(text, n) == [cls |-> text[n], at |-> n]

LexInit ==
  /\ src \in Sources
  /\ input = [n \in DOMAIN src |-> Item(src, n)]
  /\ start = "INITIAL"
  /\ stack = <<>>
  /\ buffer = <<>>
  /\ blank = TRUE
  /\ initTracking = 1
  /\ tracking = 1
  /\ cmd = NoCommand
  /\ turn = "enter"
  /\ token = [cls |-> "none", at |-> 0, size |-> 0, line |-> 1]
  /\ delivered = {}
  /\ eaten = {}

-----------------------------------------------------------------------------
(* What the matched rule is looking at.                                    *)

Next1 == input[1]

(* {identifier} is the longest match when two runs of letters touch.       *)
Touching == /\ Len(input) > 1
            /\ input[1].cls \in Letters
            /\ input[2].cls \in Letters

(* A rule of the start conditions S for the lexemes C.                     *)
Rule(S, C) ==
  /\ turn = "scan"
  /\ input # <<>>
  /\ start \in S
  /\ Next1.cls \in C
  /\ start \in Inclusive => ~ Touching

(* The token a lexeme is in a start condition: some words are keywords     *)
(* only where they cannot be identifiers.                                  *)
TokenClass(c, s) ==
  CASE c \in {"QUAL", "TQUAL"} /\ s # "sfc_qualifier_state" -> "WORD"
    [] c = "PRIO" /\ s \notin {"sfc_priority_state", "task_init_state"} -> "WORD"
    [] c = "TPAR" /\ s # "task_init_state" -> "WORD"
    [] c \in {"STWORD", "VARWORD"} -> "WORD"
    [] OTHER -> c

(* What it does with the text.  YY_USER_ACTION has already moved the       *)
(* tracking past the match; unput_text(0) moves it back.                   *)
Advance == tracking' = UpdateTracking(tracking, Next1.cls)

UnputText == UNCHANGED <<input, tracking, turn, token, history>>

Eat == /\ input' = Tail(input)
       /\ Advance
       /\ eaten' = eaten \cup {Next1.at}
       /\ UNCHANGED <<turn, token, delivered>>

Return == /\ input' = Tail(input)
          /\ Advance
          /\ token' = [cls |-> TokenClass(Next1.cls, start), at |-> Next1.at,
                       size |-> 1, line |-> tracking]
          /\ turn' = "bison"
          /\ delivered' = delivered \cup {Next1.at}
          /\ UNCHANGED eaten

ReturnSynthetic(c) ==
  /\ token' = [cls |-> c, at |-> 0, size |-> 0, line |-> tracking]
  /\ turn' = "bison"

(* BEGIN, yy_push_state and yy_pop_state.                                  *)
Begin(s) == start' = s /\ UNCHANGED stack
PushState(s) == start' = s /\ stack' = Append(stack, start)
PopState == /\ stack # <<>>
            /\ start' = stack[Len(stack)]
            /\ stack' = SubSeq(stack, 1, Len(stack) - 1)

-----------------------------------------------------------------------------
(* The code at the head of the rules, run once per call of yylex: each     *)
(* push that was asked for, then the pop.  Popping an empty stack is a     *)
(* fatal error of the generated scanner.                                   *)
Pushed(st, c, s) ==
  IF cmd[c] THEN [start |-> s, stack |-> Append(st.stack, st.start)] ELSE st

AfterPushes ==
  LET s0 == [start |-> start, stack |-> stack]
      s1 == Pushed(s0, "body", "body_state")
      s2 == Pushed(s1, "qualifier", "sfc_qualifier_state")
      s3 == Pushed(s2, "priority", "sfc_priority_state")
  IN  Pushed(s3, "task", "task_init_state")

EnterYylex ==
  /\ turn = "enter"
  /\ cmd' = NoCommand
  /\ LET st == AfterPushes IN
       IF ~ cmd["pop"]
       THEN /\ start' = st.start
            /\ stack' = st.stack
            /\ turn' = "scan"
       ELSE IF st.stack = <<>>
       THEN turn' = "fatal" /\ UNCHANGED <<start, stack>>
       ELSE /\ start' = st.stack[Len(st.stack)]
            /\ stack' = SubSeq(st.stack, 1, Len(st.stack) - 1)
            /\ turn' = "scan"
  /\ UNCHANGED <<src, input, bodyVars, tracking, token, history>>

-----------------------------------------------------------------------------
(* State changes of the rules.                                             *)

(* Mutant: the preparse flag tested the wrong way round.                   *)
PouHeader_Preparse == /\ Rule({"INITIAL"}, {"FUNC"})
                      /\ Begin("get_pou_name_state")
                      /\ Return
                      /\ UNCHANGED <<src, bodyVars, cmd>>

(* FUNCTION, FUNCTION_BLOCK and PROGRAM; CONFIGURATION.                    *)
PouHeader == /\ Rule({"INITIAL"}, {"FUNC"})
             /\ Begin("header_state")
             /\ Return
             /\ UNCHANGED <<src, bodyVars, cmd>>

ConfHeader == /\ Rule({"INITIAL"}, {"CONF"})
              /\ Begin("config_state")
              /\ Return
              /\ UNCHANGED <<src, bodyVars, cmd>>


HeaderToVarList == /\ Rule({"header_state"}, {"VAR", "ENDPOU"})
                   /\ Begin("vardecl_list_state")
                   /\ UnputText
                   /\ UNCHANGED <<src, bodyVars, cmd>>

(* Mutant: BEGIN for yy_push_state.                                        *)
EnterVarBlock_Begin == /\ Rule({"vardecl_list_state"}, {"VAR", "VARWORD"})
                       /\ Begin("vardecl_state")
                       /\ UnputText
                       /\ UNCHANGED <<src, bodyVars, cmd>>

EnterVarBlock == /\ Rule({"vardecl_list_state"}, {"VAR", "VARWORD"})
                 /\ PushState("vardecl_state")
                 /\ UnputText
                 /\ UNCHANGED <<src, bodyVars, cmd>>

VarListToInitial == /\ Rule({"vardecl_list_state"}, {"ENDPOU"})
                    /\ Begin("INITIAL")
                    /\ UnputText
                    /\ UNCHANGED <<src, bodyVars, cmd>>

(* A pragma is handed on only when VAR follows it at once.                 *)
VarFollows == Len(input) > 1 /\ input[2].cls \in {"VAR", "VARWORD"}

PragmaBeforeVar == /\ Rule({"vardecl_list_state"}, {"PRAGMA"})
                   /\ VarFollows
                   /\ Return
                   /\ UNCHANGED <<src, start, stack, bodyVars, cmd>>

EnterBody ==
  /\ Rule({"vardecl_list_state"},
          Marked \ (Blank \cup {"CB", "VAR", "VARWORD", "ENDPOU"}))
  /\ Next1.cls = "PRAGMA" => ~ VarFollows
  /\ PushState("body_state")
  /\ UnputText
  /\ UNCHANGED <<src, bodyVars, cmd>>

EndVar == /\ Rule({"vardecl_state"}, {"ENDVAR"})
          /\ PopState
          /\ Return
          /\ UNCHANGED <<src, bodyVars, cmd>>

(* Mutant: the match is not put back.                                      *)
LeaveBody_NoUnput == /\ \/ Rule({"il_state", "st_state"}, {"ENDPOU", "ENDBLK"})
                        \/ Rule({"sfc_state"}, {"ENDPOU"})
                     /\ PopState
                     /\ Eat
                     /\ UNCHANGED <<src, bodyVars, cmd>>

(* il_state and st_state give END_... back to the state they return to;    *)
(* sfc_state does so for the end of the POU only.                          *)
LeaveBody == /\ \/ Rule({"il_state", "st_state"}, {"ENDPOU", "ENDBLK"})
                \/ Rule({"sfc_state"}, {"ENDPOU"})
             /\ PopState
             /\ UnputText
             /\ UNCHANGED <<src, bodyVars, cmd>>

(* Mutant: no BEGIN(INITIAL).                                              *)
EndUnit_NoBegin ==
  /\ \/ Rule(Inclusive \ {"header_state", "il_state", "st_state", "sfc_state"},
             {"ENDPOU"})
     \/ Rule(Inclusive, {"ENDCONF"})
  /\ Return
  /\ UNCHANGED <<src, start, stack, bodyVars, cmd>>

(* END_FUNCTION, ... in any other state, and END_CONFIGURATION: back to    *)
(* INITIAL, whatever the stack holds.                                      *)
EndUnit ==
  /\ \/ Rule(Inclusive \ {"header_state", "il_state", "st_state", "sfc_state"},
             {"ENDPOU"})
     \/ Rule(Inclusive, {"ENDCONF"})
  /\ Begin("INITIAL")
  /\ Return
  /\ UNCHANGED <<src, bodyVars, cmd>>

-----------------------------------------------------------------------------
(* body_state.                                                             *)

isempty_bodystate_buffer == buffer = <<>> \/ blank

append_bodystate_buffer(isWhitespace) ==
  /\ initTracking' = IF buffer = <<>>
                     THEN UpdateTracking(tracking, Next1.cls)
                     ELSE initTracking
  /\ blank' = ((buffer = <<>> \/ blank) /\ isWhitespace)
  /\ buffer' = Append(buffer, Next1)

(* Mutants of the put-back: the last match is not put back, the buffer is  *)
(* not cleared.                                                            *)
AppendThenUnputBuffer_NoAppend ==
  /\ input' = buffer \o Tail(input)
  /\ buffer' = <<>>
  /\ blank' = TRUE
  /\ tracking' = initTracking
  /\ UNCHANGED <<initTracking, history>>

AppendThenUnputBuffer_NoClear ==
  /\ append_bodystate_buffer(FALSE)
  /\ input' = Append(buffer, Next1) \o Tail(input)
  /\ tracking' = initTracking'
  /\ UNCHANGED history

(* append_bodystate_buffer of the match, then unput_bodystate_buffer.      *)
AppendThenUnputBuffer ==
  /\ input' = Append(buffer, Next1) \o Tail(input)
  /\ buffer' = <<>>
  /\ blank' = TRUE
  /\ initTracking' = IF buffer = <<>>
                     THEN UpdateTracking(tracking, Next1.cls)
                     ELSE initTracking
  /\ tracking' = initTracking'
  /\ UNCHANGED history

BodyMatch(C) == Rule({"body_state"}, C) /\ UNCHANGED <<src, cmd>>

(* INITIAL_STEP, ':=' and the words ST statements start with mean          *)
(* something only ahead of any other text.                                 *)
Leading == {"ISTEP", "ASSIGN", "STKW", "STWORD"}

BodyCollect ==
  /\ BodyMatch(Marked \ {"CB", "SEMI", "ENDPOU", "ENDBLK"})
  /\ Next1.cls \in Leading => ~ isempty_bodystate_buffer
  /\ append_bodystate_buffer(Next1.cls \in Blank)
  /\ input' = Tail(input)
  /\ Advance
  /\ UNCHANGED <<start, stack, turn, token, history>>

(* Mutant: INITIAL_STEP is not put back.                                   *)
BodyIsSfc_NoUnput == /\ BodyMatch({"ISTEP"})
                     /\ isempty_bodystate_buffer
                     /\ Begin("sfc_state")
                     /\ Eat
                     /\ UNCHANGED bodyVars

BodyIsSfc == /\ BodyMatch({"ISTEP"})
             /\ isempty_bodystate_buffer
             /\ Begin("sfc_state")
             /\ UnputText
             /\ UNCHANGED bodyVars

BodyIsTransition == /\ BodyMatch({"ASSIGN"})
                    /\ isempty_bodystate_buffer
                    /\ Begin("st_state")
                    /\ UnputText
                    /\ UNCHANGED bodyVars

BodyIsStByKeyword == /\ BodyMatch({"STKW", "STWORD"})
                     /\ isempty_bodystate_buffer
                     /\ Begin("st_state")
                     /\ ReturnSynthetic("start_ST_body")
                     /\ UNCHANGED <<input, tracking, bodyVars, history>>

BodyIsSt == /\ BodyMatch({"SEMI"})
            /\ AppendThenUnputBuffer
            /\ Begin("st_state")
            /\ ReturnSynthetic("start_ST_body")

(* Mutants: the token of the other language, a push for the BEGIN.         *)
BodyIsIl_StToken == /\ BodyMatch({"ENDPOU", "ENDBLK"})
                    /\ AppendThenUnputBuffer
                    /\ Begin("il_state")
                    /\ ReturnSynthetic("start_ST_body")

BodyIsIl_Push == /\ BodyMatch({"ENDPOU", "ENDBLK"})
                 /\ AppendThenUnputBuffer
                 /\ PushState("il_state")
                 /\ ReturnSynthetic("start_IL_body")

BodyIsIl == /\ BodyMatch({"ENDPOU", "ENDBLK"})
            /\ AppendThenUnputBuffer
            /\ Begin("il_state")
            /\ ReturnSynthetic("start_IL_body")

-----------------------------------------------------------------------------
(* Layout, comments, literals and plain tokens.                            *)

EatBlank ==
  /\ \/ Rule({"INITIAL", "header_state", "config_state", "vardecl_list_state",
              "vardecl_state", "st_state", "sfc_state", "task_init_state",
              "sfc_qualifier_state"}, Blank)
     \/ Rule({"il_state"}, {"SP"})
  /\ Eat
  /\ UNCHANGED <<src, start, stack, bodyVars, cmd>>

(* EOL in IL; in sfc_priority_state no rule eats a blank, so it is the     *)
(* token of one character.                                                 *)
ReturnBlank == /\ \/ Rule({"il_state"}, {"NL"})
                  \/ Rule({"sfc_priority_state"}, {"SP"})
               /\ Return
               /\ UNCHANGED <<src, start, stack, bodyVars, cmd>>

(* No rule at all matches a newline there (%option nodefault), and         *)
(* time_literal_state calls ERROR for what is no part of the literal: both *)
(* end the program.                                                        *)
GiveUp == /\ \/ Rule({"sfc_priority_state"}, {"NL"})
             \/ Rule({"time_literal_state"}, Lexeme)
          /\ turn' = "fatal"
          /\ UNCHANGED <<src, input, start, stack, bodyVars, tracking, cmd,
                         token, history>>

OpenComment ==
  /\ Rule(StartCondition \ {"comment_state", "time_literal_state"}, {"CB"})
  /\ PushState("comment_state")
  /\ Eat
  /\ UNCHANGED <<src, bodyVars, cmd>>

CloseComment == /\ Rule({"comment_state"}, {"CE"})
                /\ PopState
                /\ Eat
                /\ UNCHANGED <<src, bodyVars, cmd>>

CommentText == /\ Rule({"comment_state"}, Marked \ {"CE"})
               /\ Eat
               /\ UNCHANGED <<src, start, stack, bodyVars, cmd>>

(* unput_and_mark, then time_literal_state until the mark.                 *)
TimeLiteral ==
  /\ Rule(Inclusive, {"TIME"})
  /\ input' = <<[Next1 EXCEPT !.cls = "TBODY"], [Next1 EXCEPT !.cls = "MARK"]>>
                \o Tail(input)
  /\ PushState("time_literal_state")
  /\ UNCHANGED <<src, bodyVars, tracking, cmd, turn, token, history>>

TimePart == /\ Rule({"time_literal_state"}, {"TBODY"})
            /\ Return
            /\ UNCHANGED <<src, start, stack, bodyVars, cmd>>

TimeEnd == /\ Rule({"time_literal_state"}, {"MARK"})
           /\ PopState
           /\ Return
           /\ UNCHANGED <<src, bodyVars, cmd>>

(* {identifier} over words whose separation was lost.                      *)
FusedIdentifier ==
  /\ turn = "scan"
  /\ start \in Inclusive
  /\ Touching
  /\ \E k \in 2 .. Len(input) :
       /\ \A i \in 1 .. k : input[i].cls \in Letters
       /\ k < Len(input) => input[k + 1].cls \notin Letters
       /\ input' = SubSeq(input, k + 1, Len(input))
       /\ token' = [cls |-> "WORD", at |-> Next1.at, size |-> k, line |-> tracking]
       /\ delivered' = delivered \cup {input[i].at : i \in 1 .. k}
  /\ turn' = "bison"
  /\ UNCHANGED <<src, start, stack, bodyVars, tracking, cmd, eaten>>

(* The lexemes an inclusive start condition has a rule of its own for.     *)
OwnRules(s) ==
  {"CB", "TIME", "ENDPOU", "ENDCONF"}
    \cup (CASE s = "INITIAL" -> {"FUNC", "CONF"}
            [] s = "header_state" -> {"VAR"}
            [] s = "vardecl_state" -> {"ENDVAR"}
            [] s \in {"il_state", "st_state"} -> {"ENDBLK"}
            [] OTHER -> {})

ReturnToken == /\ Rule(Inclusive, Marked \ Blank)
               /\ Next1.cls \notin OwnRules(start)
               /\ Return
               /\ UNCHANGED <<src, start, stack, bodyVars, cmd>>

(* <<EOF>>: what is still in the buffer is never seen again.               *)
EndOfInput == /\ turn = "scan"
              /\ input = <<>>
              /\ turn' = "end"
              /\ UNCHANGED <<src, input, start, stack, bodyVars, tracking, cmd,
                             token, history>>

ChangesState ==
  \/ PouHeader \/ ConfHeader \/ HeaderToVarList \/ EnterVarBlock
  \/ VarListToInitial \/ PragmaBeforeVar \/ EnterBody \/ EndVar \/ LeaveBody
  \/ EndUnit

CollectsBody ==
  \/ BodyCollect \/ BodyIsSfc \/ BodyIsTransition \/ BodyIsStByKeyword
  \/ BodyIsSt \/ BodyIsIl

ReadsText ==
  \/ EatBlank \/ ReturnBlank \/ GiveUp \/ OpenComment \/ CloseComment
  \/ CommentText \/ TimeLiteral \/ TimePart \/ TimeEnd \/ FusedIdentifier
  \/ ReturnToken \/ EndOfInput

Yylex == EnterYylex \/ ChangesState \/ CollectsBody \/ ReadsText
=============================================================================

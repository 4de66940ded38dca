------------------------------- MODULE StText -------------------------------
(***************************************************************************)
(* The source text of an IEC 61131-3 program as the flex rules of          *)
(* st-lang/parser.l tell it apart.  A text is a sequence of lexeme         *)
(* classes; a lexeme in the input stream also carries the index it has in  *)
(* the text, so that pushing it back and reading it again is visible.      *)
(***************************************************************************)
EXTENDS Integers, Sequences

Blank == {"SP", "NL"}

(* Lexemes made of letters only: two of them with nothing in between are   *)
(* one identifier for the longest-match rule of flex.  STWORD and VARWORD  *)
(* are identifiers that begin with the letters of IF, FOR, CASE, ... and   *)
(* of VAR; QUAL, TQUAL, TPAR and PRIO are keywords in one state only.      *)
Letters ==
  {"VAR", "ENDVAR", "ENDPOU", "ENDCONF", "ENDBLK", "ISTEP", "ENDSTEP",
   "STKW", "WORD", "STWORD", "VARWORD", "QUAL", "TQUAL", "TPAR", "PRIO"}

(* FUNC and CONF end in the whitespace their rules match.  TRANS, ACTN,    *)
(* OPENQ, OPENP and OPENT each stand for the run of tokens after which     *)
(* bison asks flex for another start condition: TRANSITION FROM a TO b,    *)
(* ACTION name :, name (, TRANSITION ( and TASK name (.  TSHARP is T#, and *)
(* TIME an interval such as 1d2h.                                          *)
Headed == {"FUNC", "CONF", "TRANS", "ACTN", "OPENQ", "OPENP", "OPENT", "TSHARP",
           "TIME"}

Punct == {"SEMI", "ASSIGN", "COMMA", "COLON", "CLOSE", "PRAGMA", "CB", "CE"}

Lexeme == Blank \cup Letters \cup Headed \cup Punct

(* Texts written as lexemes: a blank is the whole run of whitespace (NL    *)
(* one with a newline), and letters do not run into one another.           *)
IsText(s) ==
  \A n \in 1 .. Len(s) - 1 :
    /\ s[n] \in Blank \cup {"FUNC", "CONF"} => s[n + 1] \notin Blank
    /\ s[n] \in Letters \cup {"TIME"} => s[n + 1] \notin Letters
    /\ s[n + 1] \in Headed => s[n] \notin Letters \cup {"TIME", "CE"}
    /\ s[n] = "TIME" => s[n + 1] # "CB"
    /\ s[n] \in {"OPENQ", "OPENP", "OPENT"} => s[n + 1] # "CE"

(* TBODY and MARK are the two halves of a TIME that has been put back with *)
(* its '#' mark.                                                           *)
Marked == Lexeme \cup {"TBODY", "MARK"}

-----------------------------------------------------------------------------
(* parser_t::UpdateTracking, as far as lines go: a newline starts the next *)
(* line.  (Columns are not modelled.)                                      *)
UpdateTracking(l, c) == IF c = "NL" THEN l + 1 ELSE l

(* The line the first n lexemes of a text really end on.                   *)
TrueLine(text) ==
  LET f[n \in 0 .. Len(text)] ==
        IF n = 0 THEN 1 ELSE UpdateTracking(f[n - 1], text[n])
  IN  f

(* Whether a comment is open after the first n lexemes: there is a CB    *)
(* with no end behind it.  Comments do not nest (nested_comments is FALSE).*)
CommentOpen(text) ==
  [n \in 0 .. Len(text) |->
     \E m \in 1 .. n : text[m] = "CB" /\ \A k \in m + 1 .. n : text[k] # "CE"]

(* The lexemes a reader of the program would say it consists of.           *)
Significant(text) ==
  LET open == CommentOpen(text)
  IN  {n \in DOMAIN text : text[n] \notin Blank /\ ~ open[n - 1] /\ ~ open[n]}
=============================================================================

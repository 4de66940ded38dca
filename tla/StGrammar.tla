------------------------------ MODULE StGrammar ------------------------------
(***************************************************************************)
(* The well formed programs of st-lang, as far as the start conditions of  *)
(* flex and the commands of bison depend on them: a finite automaton over  *)
(* the lexemes of a text.  Its places are named like the values of parse   *)
(* in StFrontEnd, with "units" ... "body" for the parts of what is "pou"   *)
(* there, but it knows nothing of flex: that flex is where the place in    *)
(* the text demands it to be is for StFrontEnd's properties to say.        *)
(***************************************************************************)
EXTENDS StText

(* The places of a POU, of a chart inside it, and of a configuration.      *)
PouPlaces == {"units", "header", "vars", "list", "pragma", "open", "chart", "body"}
ChartPlaces == {"head", "named", "step", "qual", "timed", "timedval",
                "timedlook", "timedlit", "names", "comma", "assoc", "sfc",
                "prio", "ptrans", "block"}
ConfPlaces == {"conf", "task", "tpar", "tval", "tcomma", "tprio", "tprioval"}

Place == PouPlaces \cup ChartPlaces \cup ConfPlaces

(* Identifiers, among them those that are keywords elsewhere; what a text  *)
(* of declarations or statements consists of.                              *)
Value == {"WORD", "STWORD", "VARWORD", "TPAR", "PRIO"}
Datum == {"WORD", "STWORD", "VARWORD", "QUAL", "TQUAL"}
Name == Value \cup {"QUAL", "TQUAL"}
Plain == Name \cup {"STKW", "SEMI", "ASSIGN", "COMMA", "COLON", "CLOSE",
                    "TSHARP", "PRAGMA"}

(* FUNCTION name declarations VAR ... END_VAR ... body END_FUNCTION: after *)
(* the last END_VAR comes the end, a body, or a chart.  (A body does not   *)
(* begin with a word that begins with VAR.)                                *)
PouGoes(p, c, q) ==
  \/ p \in {"units", "header", "vars"} /\ c \in Plain \cup {"TIME"} /\ q = p
  \/ p = "units" /\ c = "FUNC" /\ q = "header"
  \/ p = "units" /\ c = "CONF" /\ q = "conf"
  \/ p \in {"header", "list", "pragma"} /\ c = "VAR" /\ q = "vars"
  \/ p = "vars" /\ c = "ENDVAR" /\ q \in {"list", "open", "chart"}
  \/ p = "list" /\ c = "PRAGMA" /\ q = "pragma"
  \/ p = "open" /\ c = "PRAGMA" /\ q = "open"
  \/ p = "open" /\ c \in (Plain \cup {"TIME"}) \ {"PRAGMA", "VARWORD"} /\ q = "body"
  \/ p = "body" /\ c \in Plain \cup {"TIME"} /\ q = "body"
  \/ p = "chart" /\ c = "ISTEP" /\ q = "head"
  \/ p \in {"header", "list", "open", "body", "sfc"} /\ c = "ENDPOU" /\ q = "units"

(* Steps with their actions, transitions with their priorities, actions.   *)
ChartGoes(p, c, q) ==
  \/ p = "head" /\ c \in Name /\ q = "named"
  \/ p = "named" /\ c = "COLON" /\ q = "step"
  \/ p = "step" /\ c = "OPENQ" /\ q = "qual"
  \/ p = "step" /\ c = "ENDSTEP" /\ q = "sfc"
  \/ p = "qual" /\ c = "TQUAL" /\ q = "timed"
  \/ p = "qual" /\ c = "QUAL" /\ q = "names"
  \/ p = "timed" /\ c = "COMMA" /\ q = "timedval"
  \/ p = "timedval" /\ c \in Value /\ q = "timedlook"
  \/ p = "timedval" /\ c = "TSHARP" /\ q = "timedlit"
  \/ p = "timedlit" /\ c = "TIME" /\ q = "names"
  \/ p \in {"qual", "timedlook", "names"} /\ c = "COMMA" /\ q = "comma"
  \/ p = "comma" /\ c \in Name /\ q = "names"
  \/ p \in {"qual", "timedlook", "names"} /\ c = "CLOSE" /\ q = "assoc"
  \/ p = "assoc" /\ c = "SEMI" /\ q = "step"
  \/ p = "sfc" /\ c = "ISTEP" /\ q = "head"
  \/ p = "sfc" /\ c = "OPENP" /\ q = "prio"
  \/ p = "prio" /\ c = "PRIO" /\ q = "ptrans"
  \/ p = "ptrans" /\ c \in Name \cup {"ASSIGN", "CLOSE"} /\ q = "ptrans"
  \/ p \in {"sfc", "ptrans"} /\ c = "TRANS" /\ q = "block"
  \/ p = "sfc" /\ c = "ACTN" /\ q = "block"
  \/ p = "block" /\ c \in Plain \cup {"TIME"} /\ q = "block"
  \/ p = "block" /\ c = "ENDBLK" /\ q = "sfc"

(* A configuration and the initializations of its tasks.                   *)
ConfGoes(p, c, q) ==
  \/ p = "conf" /\ c \in Plain /\ q = "conf"
  \/ p = "conf" /\ c = "OPENT" /\ q = "task"
  \/ p = "conf" /\ c = "ENDCONF" /\ q = "units"
  \/ p = "task" /\ c = "TPAR" /\ q = "tpar"
  \/ p = "tpar" /\ c = "ASSIGN" /\ q = "tval"
  \/ p = "tval" /\ c \in Datum /\ q = "tcomma"
  \/ p = "tcomma" /\ c = "COMMA" /\ q = "task"
  \/ p = "task" /\ c = "PRIO" /\ q = "tprio"
  \/ p = "tprio" /\ c = "ASSIGN" /\ q = "tprioval"
  \/ p = "tprioval" /\ c \in Datum /\ q = "conf"

Goes(p, c, q) == PouGoes(p, c, q) \/ ChartGoes(p, c, q) \/ ConfGoes(p, c, q)

(* Where nothing may come in between: a pragma and the VAR it belongs to,  *)
(* the '(' of a priority and PRIORITY.                                     *)
Tight == {"pragma", "prio"}

(* The places of the bodies that flex collects.                            *)
Bodies == {"open", "body", "block"}

(* g says at which place of the grammar the text is after n lexemes.  And  *)
(* no comment comes before a letter in a body, where flex would lose it    *)
(* and might join two words.                                               *)
Parses(text, g) ==
  LET words == Significant(text) IN
  /\ g \in [0 .. Len(text) -> Place]
  /\ g[0] = "units"
  /\ g[Len(text)] = "units"
  /\ \A n \in 1 .. Len(text) :
       IF n \in words THEN Goes(g[n - 1], text[n], g[n])
       ELSE g[n] = g[n - 1] /\ g[n] \notin Tight
  /\ \A n \in 1 .. Len(text) - 1 :
       text[n] = "CE" /\ g[n] \in Bodies => text[n + 1] \notin Letters

Grammatical(text) == \E g \in [0 .. Len(text) -> Place] : Parses(text, g)
===============================================================================

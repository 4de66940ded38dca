-------------------------- MODULE StFrontEndProofs --------------------------
(***************************************************************************)
(* Proofs about the front end that hold for every set of texts: first what *)
(* one look at the stack of buffers shows, then how a text is read,        *)
(* although bodies are read, put back and read again: in order, once, and  *)
(* without losing a word.                                                  *)
(***************************************************************************)
EXTENDS StFrontEnd, StGrammar, SequenceTheorems, WellFoundedInduction, TLAPS

-----------------------------------------------------------------------------
(* Sequences: what the put-backs and the stack do to them.                 *)

LEMMA TailTyped ==
  ASSUME NEW S, NEW s \in Seq(S), s # <<>>
  PROVE  /\ Tail(s) \in Seq(S)
         /\ s[1] \in S
         /\ Len(s) \in Nat \ {0}
  OBVIOUS

(* Popping the last element.                                               *)
LEMMA PopTyped ==
  ASSUME NEW S, NEW s \in Seq(S), s # <<>>
  PROVE  /\ SubSeq(s, 1, Len(s) - 1) \in Seq(S)
         /\ s[Len(s)] \in S
         /\ Len(SubSeq(s, 1, Len(s) - 1)) = Len(s) - 1
         /\ \A i \in 1 .. Len(s) - 1 : SubSeq(s, 1, Len(s) - 1)[i] = s[i]
<1>1. Len(s) \in Nat \ {0} /\ \A i \in 1 .. Len(s) : s[i] \in S
  OBVIOUS
<1> DEFINE n == Len(s) - 1
<1>2. n \in Nat /\ \A i \in 1 .. n : s[i] \in S
  BY <1>1
<1> HIDE DEF n
<1>3. /\ SubSeq(s, 1, n) \in Seq(S)
      /\ Len(SubSeq(s, 1, n)) = IF 1 <= n THEN n - 1 + 1 ELSE 0
      /\ \A i \in 1 .. n - 1 + 1 : SubSeq(s, 1, n)[i] = s[1 + i - 1]
  BY <1>2, SubSeqProperties
<1>4. /\ Len(SubSeq(s, 1, n)) = n
      /\ \A i \in 1 .. n : SubSeq(s, 1, n)[i] = s[i]
  BY <1>2, <1>3
<1>5. QED
  BY <1>1, <1>3, <1>4 DEF n

(* The indices a sequence of items carries.                                *)
LEMMA IndicesTail ==
  ASSUME NEW s \in Seq(Items), s # <<>>
  PROVE  Indices(s) = {s[1].at} \cup Indices(Tail(s))
<1>1. DOMAIN s = 1 .. Len(s) /\ Len(s) \in Nat \ {0}
  OBVIOUS
<1>2. /\ Len(Tail(s)) = Len(s) - 1
      /\ DOMAIN Tail(s) = 1 .. Len(s) - 1
      /\ \A i \in 1 .. Len(s) - 1 : Tail(s)[i] = s[i + 1]
  BY HeadTailProperties
<1>3. \A i \in 1 .. Len(s) : i = 1 \/ (i - 1 \in 1 .. Len(s) - 1 /\ s[i] = Tail(s)[i - 1])
  BY <1>1, <1>2
<1>4. Indices(s) \subseteq {s[1].at} \cup Indices(Tail(s))
  <2> SUFFICES ASSUME NEW i \in DOMAIN s
               PROVE  s[i].at \in {s[1].at} \cup Indices(Tail(s))
    BY DEF Indices
  <2>1. QED
    BY <1>1, <1>2, <1>3 DEF Indices
<1>5. Indices(Tail(s)) \subseteq Indices(s)
  <2> SUFFICES ASSUME NEW i \in DOMAIN Tail(s)
               PROVE  Tail(s)[i].at \in Indices(s)
    BY DEF Indices
  <2>1. i + 1 \in DOMAIN s /\ Tail(s)[i] = s[i + 1]
    BY <1>1, <1>2
  <2>2. QED
    BY <2>1 DEF Indices
<1>6. s[1].at \in Indices(s)
  BY <1>1 DEF Indices
<1>7. QED
  BY <1>4, <1>5, <1>6

LEMMA IndicesConcat ==
  ASSUME NEW s \in Seq(Items), NEW t \in Seq(Items)
  PROVE  Indices(s \o t) = Indices(s) \cup Indices(t)
<1>1. /\ DOMAIN s = 1 .. Len(s) /\ DOMAIN t = 1 .. Len(t)
      /\ DOMAIN (s \o t) = 1 .. Len(s) + Len(t)
      /\ Len(s) \in Nat /\ Len(t) \in Nat
  BY ConcatProperties
<1>2. \A i \in 1 .. Len(s) + Len(t) :
        (s \o t)[i] = IF i <= Len(s) THEN s[i] ELSE t[i - Len(s)]
  BY ConcatProperties
<1>3. Indices(s \o t) \subseteq Indices(s) \cup Indices(t)
  <2> SUFFICES ASSUME NEW i \in 1 .. Len(s) + Len(t)
               PROVE  (s \o t)[i].at \in Indices(s) \cup Indices(t)
    BY <1>1 DEF Indices
  <2>1. CASE i <= Len(s)
    BY <2>1, <1>1, <1>2 DEF Indices
  <2>2. CASE ~ (i <= Len(s))
    <3>1. i - Len(s) \in 1 .. Len(t) /\ (s \o t)[i] = t[i - Len(s)]
      BY <2>2, <1>1, <1>2
    <3>2. QED
      BY <3>1, <1>1 DEF Indices
  <2>3. QED
    BY <2>1, <2>2
<1>4. Indices(s) \subseteq Indices(s \o t)
  <2> SUFFICES ASSUME NEW i \in 1 .. Len(s)
               PROVE  s[i].at \in Indices(s \o t)
    BY <1>1 DEF Indices
  <2>1. i \in 1 .. Len(s) + Len(t) /\ (s \o t)[i] = s[i]
    BY <1>1, <1>2
  <2>2. QED
    BY <2>1, <1>1 DEF Indices
<1>5. Indices(t) \subseteq Indices(s \o t)
  <2> SUFFICES ASSUME NEW i \in 1 .. Len(t)
               PROVE  t[i].at \in Indices(s \o t)
    BY <1>1 DEF Indices
  <2>1. i + Len(s) \in 1 .. Len(s) + Len(t) /\ (s \o t)[i + Len(s)] = t[i]
    BY <1>1, <1>2
  <2>2. QED
    BY <2>1, <1>1 DEF Indices
<1>6. QED
  BY <1>3, <1>4, <1>5

LEMMA IndicesAppend ==
  ASSUME NEW s \in Seq(Items), NEW e \in Items
  PROVE  Indices(Append(s, e)) = Indices(s) \cup {e.at}
<1>1. Append(s, e) = s \o <<e>> /\ <<e>> \in Seq(Items)
  BY AppendIsConcat
<1>2. Indices(<<e>>) = {e.at}
  BY DEF Indices
<1>3. QED
  BY <1>1, <1>2, IndicesConcat

(* The first k items taken off the front.                                  *)
LEMMA IndicesSplit ==
  ASSUME NEW s \in Seq(Items), NEW k \in 1 .. Len(s)
  PROVE  /\ SubSeq(s, k + 1, Len(s)) \in Seq(Items)
         /\ Indices(s) = {s[i].at : i \in 1 .. k} \cup Indices(SubSeq(s, k + 1, Len(s)))
<1> DEFINE t == SubSeq(s, k + 1, Len(s))
<1>1. k + 1 \in Int /\ Len(s) \in Nat /\ k \in Nat /\ k <= Len(s)
  OBVIOUS
<1>2. \A i \in k + 1 .. Len(s) : s[i] \in Items
  BY ElementOfSeq, <1>1
<1>3. /\ t \in Seq(Items)
      /\ Len(t) = IF k + 1 <= Len(s) THEN Len(s) - (k + 1) + 1 ELSE 0
      /\ \A i \in 1 .. Len(s) - (k + 1) + 1 : t[i] = s[(k + 1) + i - 1]
  BY <1>1, <1>2, SubSeqProperties
<1>4. /\ DOMAIN t = 1 .. Len(s) - k
      /\ \A i \in 1 .. Len(s) - k : t[i] = s[k + i]
  <2>1. Len(t) = Len(s) - k
    BY <1>1, <1>3
  <2>2. DOMAIN t = 1 .. Len(t)
    BY <1>3
  <2>3. QED
    BY <1>1, <1>3, <2>1, <2>2
<1> HIDE DEF t
<1>5. DOMAIN s = 1 .. Len(s)
  OBVIOUS
<1>6. Indices(s) \subseteq {s[i].at : i \in 1 .. k} \cup Indices(t)
  <2> SUFFICES ASSUME NEW j \in 1 .. Len(s)
               PROVE  s[j].at \in {s[i].at : i \in 1 .. k} \cup Indices(t)
    BY <1>5 DEF Indices
  <2>1. CASE j <= k
    BY <2>1, <1>1
  <2>2. CASE ~ (j <= k)
    <3>1. j - k \in 1 .. Len(s) - k /\ t[j - k] = s[j]
      BY <2>2, <1>1, <1>4
    <3>2. QED
      BY <3>1, <1>4 DEF Indices
  <2>3. QED
    BY <2>1, <2>2
<1>7. {s[i].at : i \in 1 .. k} \subseteq Indices(s)
  BY <1>1, <1>5 DEF Indices
<1>8. Indices(t) \subseteq Indices(s)
  <2> SUFFICES ASSUME NEW j \in 1 .. Len(s) - k
               PROVE  t[j].at \in Indices(s)
    BY <1>4 DEF Indices
  <2>1. k + j \in 1 .. Len(s) /\ t[j] = s[k + j]
    BY <1>1, <1>4
  <2>2. QED
    BY <2>1, <1>5 DEF Indices
<1>9. QED
  BY <1>3, <1>6, <1>7, <1>8 DEF t

-----------------------------------------------------------------------------
(* What rules do to the text and to the position.                          *)

LEMMA UnputTyped ==
  ASSUME TextTyped, PositionTyped, UnputText, UNCHANGED <<src, bodyVars>>
  PROVE  TextTyped' /\ PositionTyped'
  BY DEF TextTyped, PositionTyped, UnputText, bodyVars, history

LEMMA EatTyped ==
  ASSUME TextTyped, PositionTyped, input # <<>>, Eat, UNCHANGED <<src, bodyVars>>
  PROVE  TextTyped' /\ PositionTyped'
<1>1. Tail(input) \in Seq(Items) /\ input[1] \in Items
  BY TailTyped DEF TextTyped
<1>2. TextTyped'
  BY <1>1 DEF TextTyped, Eat, bodyVars, Next1, Items
<1>3. PositionTyped'
  BY DEF PositionTyped, Eat, Advance, UpdateTracking, bodyVars
<1>4. QED
  BY <1>2, <1>3

LEMMA TokenClassTyped ==
  ASSUME NEW c \in Marked, NEW s
  PROVE  TokenClass(c, s) \in Class
  BY DEF TokenClass, Class, Marked, Lexeme, Letters

LEMMA ReturnTyped ==
  ASSUME TextTyped, PositionTyped, input # <<>>, Return, UNCHANGED <<src, bodyVars>>
  PROVE  TextTyped' /\ PositionTyped'
<1>1. Tail(input) \in Seq(Items) /\ input[1] \in Items
  BY TailTyped DEF TextTyped
<1>2. TextTyped'
  BY <1>1 DEF TextTyped, Return, bodyVars, Next1, Items
<1>3. tracking \in Nat /\ input[1].at \in Nat /\ TokenClass(input[1].cls, start) \in Class
  BY <1>1, TokenClassTyped DEF PositionTyped, Items
<1>4. PositionTyped'
  BY <1>3 DEF PositionTyped, Return, Advance, UpdateTracking, bodyVars, Next1
<1>5. QED
  BY <1>2, <1>4

LEMMA AppendBufferTyped ==
  ASSUME TextTyped, PositionTyped, input # <<>>,
         append_bodystate_buffer(Next1.cls \in Blank), input' = Tail(input),
         Advance, UNCHANGED <<src, token, history>>
  PROVE  TextTyped' /\ PositionTyped'
<1>1. Tail(input) \in Seq(Items) /\ input[1] \in Items
  BY TailTyped DEF TextTyped
<1>2. TextTyped'
  BY <1>1, AppendProperties DEF TextTyped, append_bodystate_buffer, Next1, history
<1>3. PositionTyped'
  BY DEF PositionTyped, append_bodystate_buffer, Advance, UpdateTracking
<1>4. QED
  BY <1>2, <1>3

LEMMA SyntheticTyped ==
  ASSUME PositionTyped, NEW c \in Synthetic, ReturnSynthetic(c)
  PROVE  token' \in [cls : Class \cup {"none"}, at : Nat, size : Nat, line : Nat]
  BY DEF PositionTyped, ReturnSynthetic, Class

LEMMA UnputBufferTyped ==
  ASSUME TextTyped, PositionTyped, input # <<>>, NEW c \in Synthetic,
         AppendThenUnputBuffer, ReturnSynthetic(c), UNCHANGED src
  PROVE  TextTyped' /\ PositionTyped'
<1>1. Tail(input) \in Seq(Items) /\ input[1] \in Items
  BY TailTyped DEF TextTyped
<1>2. Append(buffer, Next1) \in Seq(Items)
  BY <1>1, AppendProperties DEF TextTyped, Next1
<1>3. Append(buffer, Next1) \o Tail(input) \in Seq(Items)
  BY <1>1, <1>2, ConcatProperties
<1>4. TextTyped'
  BY <1>3 DEF TextTyped, AppendThenUnputBuffer, history
<1>5. PositionTyped'
  BY SyntheticTyped DEF PositionTyped, AppendThenUnputBuffer, UpdateTracking
<1>6. QED
  BY <1>4, <1>5

-----------------------------------------------------------------------------
(* What they do to the start condition and its stack.                      *)

LEMMA PushTyped ==
  ASSUME ControlTyped, NEW s \in StartCondition, PushState(s)
  PROVE  start' \in StartCondition /\ stack' \in Seq(StartCondition)
  BY AppendProperties DEF ControlTyped, PushState

LEMMA PopStateTyped ==
  ASSUME ControlTyped, PopState
  PROVE  start' \in StartCondition /\ stack' \in Seq(StartCondition)
  BY PopTyped DEF ControlTyped, PopState

LEMMA BeginTyped ==
  ASSUME ControlTyped, NEW s \in StartCondition, Begin(s)
  PROVE  start' \in StartCondition /\ stack' \in Seq(StartCondition)
  BY DEF ControlTyped, Begin

-----------------------------------------------------------------------------
(* Every rule keeps the types.                                             *)

LEMMA ChangesStateTyped ==
  ASSUME TypeOK, ChangesState, UNCHANGED parse
  PROVE  TypeOK'
<1> USE DEF TypeOK
<1>1. CASE PouHeader
  <2>1. TextTyped' /\ PositionTyped'
    BY <1>1, ReturnTyped DEF PouHeader, Rule
  <2>2. start' \in StartCondition /\ stack' \in Seq(StartCondition)
    BY <1>1, BeginTyped DEF PouHeader, StartCondition, Inclusive, Exclusive
  <2>3. ControlTyped'
    BY <1>1, <2>2 DEF ControlTyped, PouHeader, Return
  <2>4. QED
    BY <2>1, <2>3
<1>2. CASE ConfHeader
  <2>1. TextTyped' /\ PositionTyped'
    BY <1>2, ReturnTyped DEF ConfHeader, Rule
  <2>2. start' \in StartCondition /\ stack' \in Seq(StartCondition)
    BY <1>2, BeginTyped DEF ConfHeader, StartCondition, Inclusive, Exclusive
  <2>3. ControlTyped'
    BY <1>2, <2>2 DEF ControlTyped, ConfHeader, Return
  <2>4. QED
    BY <2>1, <2>3
<1>3. CASE HeaderToVarList
  <2>1. TextTyped' /\ PositionTyped'
    BY <1>3, UnputTyped DEF HeaderToVarList, Rule
  <2>2. start' \in StartCondition /\ stack' \in Seq(StartCondition)
    BY <1>3, BeginTyped DEF HeaderToVarList, StartCondition, Inclusive, Exclusive
  <2>3. ControlTyped'
    BY <1>3, <2>2 DEF ControlTyped, HeaderToVarList, UnputText
  <2>4. QED
    BY <2>1, <2>3
<1>4. CASE EnterVarBlock
  <2>1. TextTyped' /\ PositionTyped'
    BY <1>4, UnputTyped DEF EnterVarBlock, Rule
  <2>2. start' \in StartCondition /\ stack' \in Seq(StartCondition)
    BY <1>4, PushTyped DEF EnterVarBlock, StartCondition, Inclusive, Exclusive
  <2>3. ControlTyped'
    BY <1>4, <2>2 DEF ControlTyped, EnterVarBlock, UnputText
  <2>4. QED
    BY <2>1, <2>3
<1>5. CASE VarListToInitial
  <2>1. TextTyped' /\ PositionTyped'
    BY <1>5, UnputTyped DEF VarListToInitial, Rule
  <2>2. start' \in StartCondition /\ stack' \in Seq(StartCondition)
    BY <1>5, BeginTyped DEF VarListToInitial, StartCondition, Inclusive, Exclusive
  <2>3. ControlTyped'
    BY <1>5, <2>2 DEF ControlTyped, VarListToInitial, UnputText
  <2>4. QED
    BY <2>1, <2>3
<1>6. CASE PragmaBeforeVar
  <2>1. TextTyped' /\ PositionTyped'
    BY <1>6, ReturnTyped DEF PragmaBeforeVar, Rule
  <2>2. ControlTyped'
    BY <1>6 DEF ControlTyped, PragmaBeforeVar, Return
  <2>3. QED
    BY <2>1, <2>2
<1>7. CASE EnterBody
  <2>1. TextTyped' /\ PositionTyped'
    BY <1>7, UnputTyped DEF EnterBody, Rule
  <2>2. start' \in StartCondition /\ stack' \in Seq(StartCondition)
    BY <1>7, PushTyped DEF EnterBody, StartCondition, Inclusive, Exclusive
  <2>3. ControlTyped'
    BY <1>7, <2>2 DEF ControlTyped, EnterBody, UnputText
  <2>4. QED
    BY <2>1, <2>3
<1>8. CASE EndVar
  <2>1. TextTyped' /\ PositionTyped'
    BY <1>8, ReturnTyped DEF EndVar, Rule
  <2>2. start' \in StartCondition /\ stack' \in Seq(StartCondition)
    BY <1>8, PopStateTyped DEF EndVar, StartCondition, Inclusive, Exclusive
  <2>3. ControlTyped'
    BY <1>8, <2>2 DEF ControlTyped, EndVar, Return
  <2>4. QED
    BY <2>1, <2>3
<1>9. CASE LeaveBody
  <2>1. TextTyped' /\ PositionTyped'
    BY <1>9, UnputTyped DEF LeaveBody, Rule
  <2>2. start' \in StartCondition /\ stack' \in Seq(StartCondition)
    BY <1>9, PopStateTyped DEF LeaveBody, StartCondition, Inclusive, Exclusive
  <2>3. ControlTyped'
    BY <1>9, <2>2 DEF ControlTyped, LeaveBody, UnputText
  <2>4. QED
    BY <2>1, <2>3
<1>10. CASE EndUnit
  <2>1. TextTyped' /\ PositionTyped'
    BY <1>10, ReturnTyped DEF EndUnit, Rule
  <2>2. start' \in StartCondition /\ stack' \in Seq(StartCondition)
    BY <1>10, BeginTyped DEF EndUnit, StartCondition, Inclusive, Exclusive
  <2>3. ControlTyped'
    BY <1>10, <2>2 DEF ControlTyped, EndUnit, Return
  <2>4. QED
    BY <2>1, <2>3
<1>11. QED
  BY <1>1, <1>2, <1>3, <1>4, <1>5, <1>6, <1>7, <1>8, <1>9, <1>10 DEF ChangesState

LEMMA CollectsBodyTyped ==
  ASSUME TypeOK, CollectsBody, UNCHANGED parse
  PROVE  TypeOK'
<1> USE DEF TypeOK
<1>1. CASE BodyCollect
  <2>1. TextTyped' /\ PositionTyped'
    BY <1>1, AppendBufferTyped DEF BodyCollect, BodyMatch, Rule
  <2>2. ControlTyped'
    BY <1>1 DEF ControlTyped, BodyCollect, BodyMatch
  <2>3. QED
    BY <2>1, <2>2
<1>2. CASE BodyIsSfc
  <2>1. TextTyped' /\ PositionTyped'
    BY <1>2, UnputTyped DEF BodyIsSfc, BodyMatch
  <2>2. start' \in StartCondition /\ stack' \in Seq(StartCondition)
    BY <1>2, BeginTyped DEF BodyIsSfc, StartCondition, Inclusive, Exclusive
  <2>3. ControlTyped'
    BY <1>2, <2>2 DEF ControlTyped, BodyIsSfc, BodyMatch, UnputText
  <2>4. QED
    BY <2>1, <2>3
<1>3. CASE BodyIsTransition
  <2>1. TextTyped' /\ PositionTyped'
    BY <1>3, UnputTyped DEF BodyIsTransition, BodyMatch
  <2>2. start' \in StartCondition /\ stack' \in Seq(StartCondition)
    BY <1>3, BeginTyped DEF BodyIsTransition, StartCondition, Inclusive, Exclusive
  <2>3. ControlTyped'
    BY <1>3, <2>2 DEF ControlTyped, BodyIsTransition, BodyMatch, UnputText
  <2>4. QED
    BY <2>1, <2>3
<1>4. CASE BodyIsStByKeyword
  <2>1. TextTyped'
    BY <1>4 DEF TextTyped, BodyIsStByKeyword, BodyMatch, bodyVars, history
  <2>2. PositionTyped'
    BY <1>4, SyntheticTyped DEF PositionTyped, BodyIsStByKeyword, bodyVars, Synthetic
  <2>3. start' \in StartCondition /\ stack' \in Seq(StartCondition)
    BY <1>4, BeginTyped DEF BodyIsStByKeyword, StartCondition, Inclusive, Exclusive
  <2>4. ControlTyped'
    BY <1>4, <2>3 DEF ControlTyped, BodyIsStByKeyword, BodyMatch, ReturnSynthetic
  <2>5. QED
    BY <2>1, <2>2, <2>4
<1>5. CASE BodyIsSt
  <2>1. TextTyped' /\ PositionTyped'
    BY <1>5, UnputBufferTyped DEF BodyIsSt, BodyMatch, Rule, Synthetic
  <2>2. start' \in StartCondition /\ stack' \in Seq(StartCondition)
    BY <1>5, BeginTyped DEF BodyIsSt, StartCondition, Inclusive, Exclusive
  <2>3. ControlTyped'
    BY <1>5, <2>2 DEF ControlTyped, BodyIsSt, BodyMatch, ReturnSynthetic
  <2>4. QED
    BY <2>1, <2>3
<1>6. CASE BodyIsIl
  <2>1. TextTyped' /\ PositionTyped'
    BY <1>6, UnputBufferTyped DEF BodyIsIl, BodyMatch, Rule, Synthetic
  <2>2. start' \in StartCondition /\ stack' \in Seq(StartCondition)
    BY <1>6, BeginTyped DEF BodyIsIl, StartCondition, Inclusive, Exclusive
  <2>3. ControlTyped'
    BY <1>6, <2>2 DEF ControlTyped, BodyIsIl, BodyMatch, ReturnSynthetic
  <2>4. QED
    BY <2>1, <2>3
<1>7. QED
  BY <1>1, <1>2, <1>3, <1>4, <1>5, <1>6 DEF CollectsBody

(* The two halves of a literal are items.                                  *)
LEMMA TimeLiteralTyped ==
  ASSUME TypeOK, TimeLiteral, UNCHANGED parse
  PROVE  TypeOK'
<1>1. Tail(input) \in Seq(Items) /\ Next1 \in Items
  BY TailTyped DEF TypeOK, TextTyped, TimeLiteral, Rule, Next1
<1> DEFINE body == [Next1 EXCEPT !.cls = "TBODY"]
           mark == [Next1 EXCEPT !.cls = "MARK"]
<1>2. body \in Items /\ mark \in Items
  BY <1>1 DEF Items, Marked
<1>3. <<body, mark>> \in Seq(Items)
  BY <1>2
<1>4. input' \in Seq(Items)
  <2>1. input' = <<body, mark>> \o Tail(input)
    BY DEF TimeLiteral
  <2>2. QED
    BY <1>1, <1>3, <2>1, ConcatProperties
<1>5. TextTyped' /\ PositionTyped'
  BY <1>4 DEF TypeOK, TextTyped, PositionTyped, TimeLiteral, bodyVars, history
<1>6. start' \in StartCondition /\ stack' \in Seq(StartCondition)
  BY PushTyped DEF TypeOK, TimeLiteral, StartCondition, Exclusive
<1>7. ControlTyped'
  BY <1>6 DEF TypeOK, ControlTyped, TimeLiteral
<1>8. QED
  BY <1>5, <1>7 DEF TypeOK

LEMMA FusedIdentifierTyped ==
  ASSUME TypeOK, FusedIdentifier, UNCHANGED parse
  PROVE  TypeOK'
<1>1. PICK k \in 2 .. Len(input) :
        /\ input' = SubSeq(input, k + 1, Len(input))
        /\ token' = [cls |-> "WORD", at |-> Next1.at, size |-> k, line |-> tracking]
        /\ delivered' = delivered \cup {input[i].at : i \in 1 .. k}
  BY DEF FusedIdentifier
<1>2. input \in Seq(Items) /\ k \in 1 .. Len(input) /\ k \in Nat
  BY DEF TypeOK, TextTyped
<1>3. input' \in Seq(Items)
  BY <1>1, <1>2, IndicesSplit
<1>4. \A i \in 1 .. k : input[i] \in Items
  BY <1>2
<1>5. delivered' \subseteq Nat
  BY <1>1, <1>4 DEF TypeOK, TextTyped, Items
<1>6. TextTyped'
  BY <1>3, <1>5 DEF TypeOK, TextTyped, FusedIdentifier, bodyVars
<1>7. Next1.at \in Nat
  BY <1>2, <1>4 DEF Next1, Items
<1>8. PositionTyped'
  BY <1>1, <1>2, <1>7 DEF TypeOK, PositionTyped, FusedIdentifier, bodyVars,
     Class, Marked, Lexeme, Letters
<1>9. ControlTyped'
  BY DEF TypeOK, ControlTyped, FusedIdentifier
<1>10. QED
  BY <1>6, <1>8, <1>9 DEF TypeOK

LEMMA ReadsTextTyped ==
  ASSUME TypeOK, ReadsText, UNCHANGED parse
  PROVE  TypeOK'
<1> USE DEF TypeOK
<1>1. CASE EatBlank
  <2>1. TextTyped' /\ PositionTyped'
    BY <1>1, EatTyped DEF EatBlank, Rule
  <2>2. ControlTyped'
    BY <1>1 DEF ControlTyped, EatBlank, Eat
  <2>3. QED
    BY <2>1, <2>2
<1>2. CASE ReturnBlank
  <2>1. TextTyped' /\ PositionTyped'
    BY <1>2, ReturnTyped DEF ReturnBlank, Rule
  <2>2. ControlTyped'
    BY <1>2 DEF ControlTyped, ReturnBlank, Return
  <2>3. QED
    BY <2>1, <2>2
<1>3. CASE GiveUp
  <2>1. TextTyped' /\ PositionTyped'
    BY <1>3 DEF TextTyped, PositionTyped, GiveUp, bodyVars, history
  <2>2. ControlTyped'
    BY <1>3 DEF ControlTyped, GiveUp
  <2>3. QED
    BY <2>1, <2>2
<1>4. CASE OpenComment
  <2>1. TextTyped' /\ PositionTyped'
    BY <1>4, EatTyped DEF OpenComment, Rule
  <2>2. start' \in StartCondition /\ stack' \in Seq(StartCondition)
    BY <1>4, PushTyped DEF OpenComment, StartCondition, Inclusive, Exclusive
  <2>3. ControlTyped'
    BY <1>4, <2>2 DEF ControlTyped, OpenComment, Eat
  <2>4. QED
    BY <2>1, <2>3
<1>5. CASE CloseComment
  <2>1. TextTyped' /\ PositionTyped'
    BY <1>5, EatTyped DEF CloseComment, Rule
  <2>2. start' \in StartCondition /\ stack' \in Seq(StartCondition)
    BY <1>5, PopStateTyped DEF CloseComment, StartCondition, Inclusive, Exclusive
  <2>3. ControlTyped'
    BY <1>5, <2>2 DEF ControlTyped, CloseComment, Eat
  <2>4. QED
    BY <2>1, <2>3
<1>6. CASE CommentText
  <2>1. TextTyped' /\ PositionTyped'
    BY <1>6, EatTyped DEF CommentText, Rule
  <2>2. ControlTyped'
    BY <1>6 DEF ControlTyped, CommentText, Eat
  <2>3. QED
    BY <2>1, <2>2
<1>7. CASE TimePart
  <2>1. TextTyped' /\ PositionTyped'
    BY <1>7, ReturnTyped DEF TimePart, Rule
  <2>2. ControlTyped'
    BY <1>7 DEF ControlTyped, TimePart, Return
  <2>3. QED
    BY <2>1, <2>2
<1>8. CASE TimeEnd
  <2>1. TextTyped' /\ PositionTyped'
    BY <1>8, ReturnTyped DEF TimeEnd, Rule
  <2>2. start' \in StartCondition /\ stack' \in Seq(StartCondition)
    BY <1>8, PopStateTyped DEF TimeEnd, StartCondition, Inclusive, Exclusive
  <2>3. ControlTyped'
    BY <1>8, <2>2 DEF ControlTyped, TimeEnd, Return
  <2>4. QED
    BY <2>1, <2>3
<1>9. CASE ReturnToken
  <2>1. TextTyped' /\ PositionTyped'
    BY <1>9, ReturnTyped DEF ReturnToken, Rule
  <2>2. ControlTyped'
    BY <1>9 DEF ControlTyped, ReturnToken, Return
  <2>3. QED
    BY <2>1, <2>2
<1>10. CASE EndOfInput
  <2>1. TextTyped' /\ PositionTyped'
    BY <1>10 DEF TextTyped, PositionTyped, EndOfInput, bodyVars, history
  <2>2. ControlTyped'
    BY <1>10 DEF ControlTyped, EndOfInput
  <2>3. QED
    BY <2>1, <2>2
<1>11. QED
  BY <1>1, <1>2, <1>3, <1>4, <1>5, <1>6, <1>7, <1>8, <1>9, <1>10,
     TimeLiteralTyped, FusedIdentifierTyped DEF ReadsText

(* The pushes bison asked for, and the pop after them.                     *)
StackedState == [start : StartCondition, stack : Seq(StartCondition)]

LEMMA PushedTyped ==
  ASSUME ControlTyped, NEW st \in StackedState, NEW c, NEW s \in StartCondition
  PROVE  Pushed(st, c, s) \in StackedState
<1>1. Append(st.stack, st.start) \in Seq(StartCondition)
  BY AppendProperties DEF StackedState
<1>2. QED
  BY <1>1 DEF Pushed, StackedState

LEMMA AfterPushesTyped ==
  ASSUME ControlTyped
  PROVE  AfterPushes \in StackedState
<1> DEFINE s0 == [start |-> start, stack |-> stack]
           s1 == Pushed(s0, "body", "body_state")
           s2 == Pushed(s1, "qualifier", "sfc_qualifier_state")
           s3 == Pushed(s2, "priority", "sfc_priority_state")
           s4 == Pushed(s3, "task", "task_init_state")
<1>1. {"body_state", "sfc_qualifier_state", "sfc_priority_state", "task_init_state"}
        \subseteq StartCondition
  BY DEF StartCondition, Inclusive, Exclusive
<1>2. s0 \in StackedState
  BY DEF ControlTyped, StackedState
<1> HIDE DEF s0
<1>3. s1 \in StackedState
  BY <1>1, <1>2, PushedTyped
<1> HIDE DEF s1
<1>4. s2 \in StackedState
  BY <1>1, <1>3, PushedTyped
<1> HIDE DEF s2
<1>5. s3 \in StackedState
  BY <1>1, <1>4, PushedTyped
<1> HIDE DEF s3
<1>6. s4 \in StackedState
  BY <1>1, <1>5, PushedTyped
<1>7. AfterPushes = s4
  BY DEF AfterPushes, s0, s1, s2, s3
<1>8. QED
  BY <1>6, <1>7

LEMMA EnterYylexTyped ==
  ASSUME TypeOK, EnterYylex, UNCHANGED parse
  PROVE  TypeOK'
<1> DEFINE st == AfterPushes
<1>1. st.start \in StartCondition /\ st.stack \in Seq(StartCondition)
  BY AfterPushesTyped DEF TypeOK, StackedState
<1>2. cmd' \in [Commands -> BOOLEAN]
  BY DEF EnterYylex, NoCommand
<1>3. st.stack # <<>> => /\ st.stack[Len(st.stack)] \in StartCondition
                        /\ SubSeq(st.stack, 1, Len(st.stack) - 1) \in Seq(StartCondition)
  BY <1>1, PopTyped
<1> HIDE DEF st
<1>4. /\ start' \in StartCondition
      /\ stack' \in Seq(StartCondition)
      /\ turn' \in {"scan", "fatal"}
  <2>1. CASE ~ cmd["pop"]
    BY <1>1, <2>1 DEF EnterYylex, st
  <2>2. CASE cmd["pop"] /\ st.stack = <<>>
    BY <2>2 DEF EnterYylex, st, TypeOK, ControlTyped
  <2>3. CASE cmd["pop"] /\ st.stack # <<>>
    BY <1>3, <2>3 DEF EnterYylex, st
  <2>4. QED
    BY <2>1, <2>2, <2>3
<1>5. ControlTyped'
  BY <1>2, <1>4 DEF TypeOK, ControlTyped, EnterYylex
<1>6. TextTyped' /\ PositionTyped'
  BY DEF TypeOK, TextTyped, PositionTyped, EnterYylex, bodyVars, history
<1>7. QED
  BY <1>5, <1>6 DEF TypeOK

(* And so does every move of bison.                                        *)
LEMMA ReduceTyped ==
  ASSUME NEW from, NEW on, NEW to \in ParseState, NEW asks, Reduce(from, on, to, asks)
  PROVE  parse' \in ParseState /\ cmd' \in [Commands -> BOOLEAN]
  BY DEF Reduce

LEMMA ThrowTyped ==
  ASSUME NEW from, NEW on, NEW asks, Throw(from, on, asks)
  PROVE  parse' \in ParseState /\ cmd' \in [Commands -> BOOLEAN]
  BY ReduceTyped DEF Throw, ParseState

LEMMA NextNameTyped ==
  ASSUME NEW from, NEW asks, NextName(from, asks)
  PROVE  parse' \in ParseState /\ cmd' \in [Commands -> BOOLEAN]
  BY ReduceTyped, ThrowTyped DEF NextName, ParseState

LEMMA KeptOrClearedTyped ==
  ASSUME NEW from, NEW on, NEW asks, KeptOrCleared(from, on, asks)
  PROVE  parse' \in ParseState /\ cmd' \in [Commands -> BOOLEAN]
  BY ReduceTyped, ThrowTyped DEF KeptOrCleared, ParseState

LEMMA ThrowBlockTyped ==
  ASSUME NEW from, NEW on, ThrowBlock(from, on)
  PROVE  parse' \in ParseState /\ cmd' \in [Commands -> BOOLEAN]
  BY ReduceTyped DEF ThrowBlock, ParseState

LEMMA AbandonTaskTyped ==
  ASSUME NEW from, NEW on, NEW asks, AbandonTask(from, on, asks)
  PROVE  parse' \in ParseState /\ cmd' \in [Commands -> BOOLEAN]
  BY ReduceTyped DEF AbandonTask, ParseState

LEMMA YyparseTyped ==
  ASSUME TypeOK, Yyparse
  PROVE  TypeOK'
<1>1. parse' \in ParseState /\ cmd' \in [Commands -> BOOLEAN]
  <2>1. CASE Pou
    BY <2>1, ReduceTyped DEF Pou, ParseState
  <2>2. CASE Step
    BY <2>2, ReduceTyped, ThrowTyped DEF Step, Association, ParseState
  <2>3. CASE RecoverStep
    BY <2>3, ThrowTyped DEF RecoverStep
  <2>4. CASE IndicatorNames
    BY <2>4, NextNameTyped, KeptOrClearedTyped DEF IndicatorNames
  <2>5. CASE Qualifier
    BY <2>5, ReduceTyped, NextNameTyped DEF Qualifier, ParseState
  <2>6. CASE TimedQualifier
    BY <2>6, ReduceTyped, ThrowTyped, NextNameTyped, KeptOrClearedTyped
       DEF TimedQualifier, ParseState
  <2>7. CASE Sfc
    BY <2>7, ReduceTyped, ThrowBlockTyped DEF Sfc, ParseState
  <2>8. CASE Priority
    BY <2>8, ReduceTyped, ThrowBlockTyped DEF Priority, ParseState
  <2>9. CASE Block
    BY <2>9, ReduceTyped, ThrowBlockTyped DEF Block, InsideBlock, ParseState
  <2>10. CASE RecoverBlock
    BY <2>10, ReduceTyped, ThrowBlockTyped DEF RecoverBlock, ParseState
  <2>11. CASE Configuration
    BY <2>11, ReduceTyped DEF Configuration, ParseState
  <2>12. CASE Task
    BY <2>12, ReduceTyped, AbandonTaskTyped DEF Task, ParseState
  <2>13. QED
    BY <2>1, <2>2, <2>3, <2>4, <2>5, <2>6, <2>7, <2>8, <2>9, <2>10, <2>11, <2>12 DEF Yyparse, BisonMoves
<1>2. QED
  BY <1>1 DEF TypeOK, TextTyped, ControlTyped, PositionTyped, Yyparse, bodyVars, history

LEMMA InitTyped == Init => TypeOK
<1> SUFFICES ASSUME Init PROVE TypeOK
  OBVIOUS
<1>1. src \in Seq(Lexeme)
  BY SourcesAssumption DEF Init, LexInit
<1>2. input \in Seq(Items)
  <2>1. Len(src) \in Nat /\ DOMAIN src = 1 .. Len(src)
    BY <1>1
  <2>2. \A n \in DOMAIN src : Item(src, n) \in Items
    BY <1>1, <2>1 DEF Item, Items, Marked
  <2>3. QED
    BY <2>1, <2>2, IsASeq DEF Init, LexInit
<1>3. QED
  BY <1>1, <1>2 DEF Init, LexInit, TypeOK, TextTyped, ControlTyped, PositionTyped,
     StartCondition, Inclusive, NoCommand, ParseState

LEMMA NextTyped == TypeOK /\ [Next]_vars => TypeOK'
<1> SUFFICES ASSUME TypeOK, [Next]_vars PROVE TypeOK'
  OBVIOUS
<1>1. CASE Scanner
  BY <1>1, EnterYylexTyped, ChangesStateTyped, CollectsBodyTyped, ReadsTextTyped
     DEF Scanner, Yylex
<1>2. CASE Yyparse
  BY <1>2, YyparseTyped
<1>3. CASE UNCHANGED vars
  BY <1>3 DEF vars, lexVars, bodyVars, history, TypeOK, TextTyped, ControlTyped,
     PositionTyped
<1>4. QED
  BY <1>1, <1>2, <1>3 DEF Next, Finished, SfcError

(* The state of the front end is well typed whatever it reads.             *)
THEOREM TypeCorrect == Spec => []TypeOK
<1>1. Init => TypeOK
  BY InitTyped
<1>2. TypeOK /\ [Next]_vars => TypeOK'
  BY NextTyped
<1>3. QED
  BY <1>1, <1>2, PTL DEF Spec

-----------------------------------------------------------------------------
(* The stack of start conditions never underflows.  Chain is inductive:    *)
(* its first two conjuncts, Grounded, say that who is in a nested start    *)
(* condition can leave it; the others follow bison's debts.                *)

Grounded == /\ start \in Nested => stack # <<>>
            /\ stack # <<>> => stack[1] \notin Nested

LEMMA PushGrounded ==
  ASSUME ControlTyped, Grounded, NEW s, PushState(s)
  PROVE  /\ Grounded'
         /\ stack' # <<>>
         /\ Len(stack') = Len(stack) + 1
         /\ stack'[Len(stack')] = start
<1>1. /\ stack' \in Seq(StartCondition)
      /\ Len(stack') = Len(stack) + 1
      /\ stack'[Len(stack) + 1] = start
      /\ \A i \in 1 .. Len(stack) : stack'[i] = stack[i]
  BY AppendProperties DEF ControlTyped, PushState
<1>2. Len(stack) \in Nat /\ (stack = <<>> <=> Len(stack) = 0)
  BY DEF ControlTyped
<1>3. stack' # <<>>
  BY <1>1, <1>2
<1>4. stack'[1] \notin Nested
  <2>1. CASE stack = <<>>
    BY <1>1, <1>2, <2>1 DEF Grounded
  <2>2. CASE stack # <<>>
    BY <1>1, <1>2, <2>2 DEF Grounded
  <2>3. QED
    BY <2>1, <2>2
<1>5. QED
  BY <1>1, <1>3, <1>4 DEF Grounded

LEMMA PopGrounded ==
  ASSUME ControlTyped, Grounded, PopState
  PROVE  /\ Grounded'
         /\ Len(stack') = Len(stack) - 1
         /\ start' = stack[Len(stack)]
<1>1. /\ stack' \in Seq(StartCondition)
      /\ start' = stack[Len(stack)]
      /\ Len(stack') = Len(stack) - 1
      /\ \A i \in 1 .. Len(stack) - 1 : stack'[i] = stack[i]
  BY PopTyped DEF ControlTyped, PopState
<1>2. Len(stack) \in Nat \ {0} /\ stack[1] \notin Nested
  BY DEF ControlTyped, PopState, Grounded
<1>3. (start' \in Nested => stack' # <<>>)
  <2> SUFFICES ASSUME start' \in Nested, stack' = <<>> PROVE FALSE
    OBVIOUS
  <2>1. Len(stack) = 1
    BY <1>1, <1>2
  <2>2. QED
    BY <1>1, <1>2, <2>1
<1>4. stack' # <<>> => stack'[1] \notin Nested
  <2> SUFFICES ASSUME stack' # <<>> PROVE stack'[1] \notin Nested
    OBVIOUS
  <2>1. Len(stack') # 0
    BY <1>1
  <2>2. 1 \in 1 .. Len(stack) - 1
    BY <1>1, <1>2, <2>1
  <2>3. QED
    BY <1>1, <1>2, <2>2
<1>5. QED
  BY <1>1, <1>3, <1>4 DEF Grounded

LEMMA BeginGrounded ==
  ASSUME Grounded, NEW s, Begin(s), s \in Nested => start \in Nested
  PROVE  Grounded'
  BY DEF Grounded, Begin

(* A rule that reads a token may end a nested state, but not bison's debt. *)
LEMMA ChangesStateChain ==
  ASSUME TypeOK, Chain, ChangesState, UNCHANGED parse
  PROVE  Chain'
<1>1. ControlTyped /\ Grounded /\ turn = "scan"
  BY DEF TypeOK, Chain, Grounded, ChangesState, PouHeader, ConfHeader, HeaderToVarList,
     EnterVarBlock, VarListToInitial, PragmaBeforeVar, EnterBody, EndVar, LeaveBody,
     EndUnit, Rule
<1>2. parse \in PopDue => PopIsDue
  BY DEF Chain
<1>3. Grounded' /\ (turn' = "scan" \/ turn' = "bison")
  <2>1. CASE PouHeader
    BY <1>1, <2>1, BeginGrounded DEF PouHeader, Return, Nested
  <2>2. CASE ConfHeader
    BY <1>1, <2>2, BeginGrounded DEF ConfHeader, Return, Nested
  <2>3. CASE HeaderToVarList
    BY <1>1, <2>3, BeginGrounded DEF HeaderToVarList, UnputText, Nested
  <2>4. CASE EnterVarBlock
    BY <1>1, <2>4, PushGrounded DEF EnterVarBlock, UnputText
  <2>5. CASE VarListToInitial
    BY <1>1, <2>5, BeginGrounded DEF VarListToInitial, UnputText, Nested
  <2>6. CASE PragmaBeforeVar
    BY <1>1, <2>6 DEF PragmaBeforeVar, Return, Grounded
  <2>7. CASE EnterBody
    BY <1>1, <2>7, PushGrounded DEF EnterBody, UnputText
  <2>8. CASE EndVar
    BY <1>1, <2>8, PopGrounded DEF EndVar, Return
  <2>9. CASE LeaveBody
    BY <1>1, <2>9, PopGrounded DEF LeaveBody, UnputText
  <2>10. CASE EndUnit
    BY <1>1, <2>10, BeginGrounded DEF EndUnit, Return, Nested
  <2>11. QED
    BY <2>1, <2>2, <2>3, <2>4, <2>5, <2>6, <2>7, <2>8, <2>9, <2>10 DEF ChangesState
<1>4. parse' \in PopDue => PopIsDue'
  <2> SUFFICES ASSUME parse \in PopDue PROVE PopIsDue'
    OBVIOUS
  <2>1. start \in Held \/ start \in {"comment_state", "time_literal_state"}
    BY <1>1, <1>2 DEF PopIsDue, HeldBelow
  <2>2. EndUnit
    BY <2>1 DEF ChangesState, PouHeader, ConfHeader, HeaderToVarList, EnterVarBlock,
       VarListToInitial, PragmaBeforeVar, EnterBody, EndVar, LeaveBody, Rule, Held
  <2>3. /\ turn' = "bison"
        /\ token'.cls \in {"ENDPOU", "ENDCONF"}
        /\ stack' = stack
    BY <2>2 DEF EndUnit, Return, Begin, Rule, TokenClass
  <2>4. stack # <<>>
    BY <1>1, <1>2 DEF PopIsDue
  <2>5. QED
    BY <2>3, <2>4 DEF PopIsDue, KeepsPopDue
<1>5. QED
  BY <1>3, <1>4 DEF Chain, Grounded

LEMMA CollectsBodyChain ==
  ASSUME TypeOK, Chain, CollectsBody, UNCHANGED parse
  PROVE  Chain'
<1>1. start = "body_state" /\ turn = "scan"
  BY DEF CollectsBody, BodyCollect, BodyIsSfc, BodyIsTransition, BodyIsStByKeyword,
     BodyIsSt, BodyIsIl, BodyMatch, Rule
<1>2. parse \notin PopDue
  BY <1>1 DEF Chain, PopIsDue, HeldBelow, Held
<1>3. Grounded /\ start \in Nested
  BY <1>1 DEF Chain, Grounded, Nested
<1>4. Grounded' /\ turn' # "enter"
  <2>1. CASE BodyCollect
    BY <1>1, <1>3, <2>1 DEF BodyCollect, Grounded
  <2>2. CASE BodyIsSfc
    BY <1>1, <1>3, <2>2, BeginGrounded DEF BodyIsSfc, UnputText
  <2>3. CASE BodyIsTransition
    BY <1>1, <1>3, <2>3, BeginGrounded DEF BodyIsTransition, UnputText
  <2>4. CASE BodyIsStByKeyword
    BY <1>3, <2>4, BeginGrounded DEF BodyIsStByKeyword, ReturnSynthetic
  <2>5. CASE BodyIsSt
    BY <1>3, <2>5, BeginGrounded DEF BodyIsSt, ReturnSynthetic
  <2>6. CASE BodyIsIl
    BY <1>3, <2>6, BeginGrounded DEF BodyIsIl, ReturnSynthetic
  <2>7. QED
    BY <2>1, <2>2, <2>3, <2>4, <2>5, <2>6 DEF CollectsBody
<1>5. QED
  BY <1>2, <1>4 DEF Chain, Grounded

(* A rule that stays where it is.                                          *)
LEMMA StayChain ==
  ASSUME TypeOK, Chain, UNCHANGED <<start, stack, parse>>, turn = "scan",
         \/ turn' = "scan"
         \/ turn' = "bison" /\ start \in Inclusive
         \/ turn' = "bison" /\ token'.cls \notin KeepsPopDue
         \/ turn' \in {"end", "fatal"}
  PROVE  Chain'
<1>1. parse' \in PopDue => PopIsDue'
  <2> SUFFICES ASSUME parse \in PopDue PROVE PopIsDue'
    OBVIOUS
  <2>1. stack # <<>> /\ (start \in Held \/ HeldBelow)
    BY DEF Chain, PopIsDue
  <2>2. start \in Inclusive => start \in Held
    BY <2>1 DEF HeldBelow, Inclusive
  <2>3. HeldBelow' <=> HeldBelow
    BY DEF HeldBelow
  <2>4. QED
    BY <2>1, <2>2, <2>3 DEF PopIsDue
<1>2. QED
  BY <1>1 DEF Chain

(* A comment or a literal on top of the state bison holds.                 *)
LEMMA CoverChain ==
  ASSUME TypeOK, Chain, turn = "scan", turn' = "scan", UNCHANGED parse,
         start \notin {"comment_state", "time_literal_state"},
         NEW s \in {"comment_state", "time_literal_state"}, PushState(s)
  PROVE  Chain'
<1>1. /\ Grounded'
      /\ stack' # <<>>
      /\ Len(stack') = Len(stack) + 1
      /\ stack'[Len(stack')] = start
  BY PushGrounded DEF TypeOK, Chain, Grounded
<1>2. parse' \in PopDue => PopIsDue'
  <2> SUFFICES ASSUME parse \in PopDue PROVE PopIsDue'
    OBVIOUS
  <2>1. stack # <<>> /\ start \in Held
    BY DEF Chain, PopIsDue, HeldBelow
  <2>2. Len(stack') >= 2
    BY <1>1, <2>1 DEF TypeOK, ControlTyped
  <2>3. HeldBelow'
    BY <1>1, <2>1, <2>2 DEF HeldBelow, PushState
  <2>4. QED
    BY <1>1, <2>3 DEF PopIsDue
<1>3. QED
  BY <1>1, <1>2 DEF Chain, Grounded

LEMMA UncoverChain ==
  ASSUME TypeOK, Chain, turn = "scan", UNCHANGED parse, PopState,
         start \in {"comment_state", "time_literal_state"},
         turn' = "scan" \/ (turn' = "bison" /\ token'.cls = "MARK")
  PROVE  Chain'
<1>1. /\ Grounded'
      /\ Len(stack') = Len(stack) - 1
      /\ start' = stack[Len(stack)]
  BY PopGrounded DEF TypeOK, Chain, Grounded
<1>2. parse' \in PopDue => PopIsDue'
  <2> SUFFICES ASSUME parse \in PopDue PROVE PopIsDue'
    OBVIOUS
  <2>1. HeldBelow
    BY DEF Chain, PopIsDue, Held
  <2>2. start' \in Held /\ Len(stack') # 0
    BY <1>1, <2>1 DEF HeldBelow, TypeOK, ControlTyped
  <2>3. stack' # <<>>
    BY <2>2
  <2>4. QED
    BY <2>2, <2>3 DEF PopIsDue, KeepsPopDue
<1>3. QED
  BY <1>1, <1>2 DEF Chain, Grounded

LEMMA ReadsTextChain ==
  ASSUME TypeOK, Chain, ReadsText, UNCHANGED parse
  PROVE  Chain'
<1>1. CASE EatBlank
  BY <1>1, StayChain DEF EatBlank, Eat, Rule
<1>2. CASE ReturnBlank
  BY <1>2, StayChain DEF ReturnBlank, Return, Rule, Inclusive
<1>3. CASE GiveUp
  BY <1>3, StayChain DEF GiveUp, Rule
<1>4. CASE OpenComment
  BY <1>4, CoverChain DEF OpenComment, Eat, Rule
<1>5. CASE CloseComment
  BY <1>5, UncoverChain DEF CloseComment, Eat, Rule
<1>6. CASE CommentText
  BY <1>6, StayChain DEF CommentText, Eat, Rule
<1>7. CASE TimeLiteral
  BY <1>7, CoverChain DEF TimeLiteral, Rule, Inclusive
<1>8. CASE TimePart
  <2>1. token'.cls = "TBODY"
    BY <1>8 DEF TimePart, Return, Rule, TokenClass
  <2>2. QED
    BY <1>8, <2>1, StayChain DEF TimePart, Return, Rule, KeepsPopDue
<1>9. CASE TimeEnd
  <2>1. token'.cls = "MARK"
    BY <1>9 DEF TimeEnd, Return, Rule, TokenClass
  <2>2. QED
    BY <1>9, <2>1, UncoverChain DEF TimeEnd, Return, Rule
<1>10. CASE FusedIdentifier
  BY <1>10, StayChain DEF FusedIdentifier
<1>11. CASE ReturnToken
  BY <1>11, StayChain DEF ReturnToken, Return, Rule
<1>12. CASE EndOfInput
  BY <1>12, StayChain DEF EndOfInput
<1>13. QED
  BY <1>1, <1>2, <1>3, <1>4, <1>5, <1>6, <1>7, <1>8, <1>9, <1>10, <1>11, <1>12
     DEF ReadsText

(* The pushes asked for leave the bottom of the stack alone and put a held *)
(* state on top when bison asks for one.                                   *)
GroundedAt(st) == /\ st.start \in Nested => st.stack # <<>>
                  /\ st.stack # <<>> => st.stack[1] \notin Nested

LEMMA PushedGrounded ==
  ASSUME ControlTyped, NEW st \in StackedState, GroundedAt(st), NEW c \in Commands,
         NEW s \in StartCondition
  PROVE  /\ GroundedAt(Pushed(st, c, s))
         /\ st.stack # <<>> => Pushed(st, c, s).stack # <<>>
         /\ ~ cmd[c] => Pushed(st, c, s) = st
         /\ cmd[c] => /\ Pushed(st, c, s).start = s
                      /\ Pushed(st, c, s).stack # <<>>
                      /\ Len(Pushed(st, c, s).stack) = Len(st.stack) + 1
                      /\ Pushed(st, c, s).stack[Len(st.stack) + 1] = st.start
<1>1. CASE ~ cmd[c]
  BY <1>1 DEF Pushed
<1>2. CASE cmd[c]
  <2> DEFINE t == Append(st.stack, st.start)
  <2>1. st.stack \in Seq(StartCondition) /\ st.start \in StartCondition
    BY DEF StackedState
  <2>2. /\ t \in Seq(StartCondition)
        /\ Len(t) = Len(st.stack) + 1
        /\ t[Len(st.stack) + 1] = st.start
        /\ \A i \in 1 .. Len(st.stack) : t[i] = st.stack[i]
    BY <2>1, AppendProperties
  <2>3. Len(st.stack) \in Nat /\ (st.stack = <<>> <=> Len(st.stack) = 0)
    BY <2>1
  <2>4. Pushed(st, c, s) = [start |-> s, stack |-> t]
    BY <1>2 DEF Pushed
  <2> HIDE DEF t
  <2>5. t # <<>>
    BY <2>2, <2>3
  <2>6. t[1] \notin Nested
    <3>1. CASE st.stack = <<>>
      BY <2>2, <2>3, <3>1 DEF GroundedAt
    <3>2. CASE st.stack # <<>>
      BY <2>2, <2>3, <3>2 DEF GroundedAt
    <3>3. QED
      BY <3>1, <3>2
  <2>7. QED
    BY <1>2, <2>2, <2>4, <2>5, <2>6 DEF GroundedAt
<1>3. QED
  BY <1>1, <1>2

LEMMA AfterPushesGrounded ==
  ASSUME ControlTyped, Grounded
  PROVE  /\ GroundedAt(AfterPushes)
         /\ stack # <<>> => AfterPushes.stack # <<>>
         /\ ~ cmd["body"] =>
              /\ start \in Held \/ cmd["qualifier"] \/ cmd["priority"] \/ cmd["task"]
                   => AfterPushes.start \in Held
              /\ cmd["qualifier"] \/ cmd["priority"] \/ cmd["task"]
                   => AfterPushes.stack # <<>>
              /\ start \in Held /\ stack # <<>> /\ cmd["task"] =>
                   /\ Len(AfterPushes.stack) >= 2
                   /\ AfterPushes.stack[Len(AfterPushes.stack)] \in Held
<1> DEFINE s0 == [start |-> start, stack |-> stack]
           s1 == Pushed(s0, "body", "body_state")
           s2 == Pushed(s1, "qualifier", "sfc_qualifier_state")
           s3 == Pushed(s2, "priority", "sfc_priority_state")
           s4 == Pushed(s3, "task", "task_init_state")
<1>1. /\ {"body_state", "sfc_qualifier_state", "sfc_priority_state", "task_init_state"}
           \subseteq StartCondition
      /\ {"body", "qualifier", "priority", "task"} \subseteq Commands
  BY DEF StartCondition, Inclusive, Exclusive, Commands
<1>2. s0 \in StackedState /\ GroundedAt(s0) /\ s0.start = start /\ s0.stack = stack
  BY DEF ControlTyped, StackedState, Grounded, GroundedAt
<1> HIDE DEF s0
<1>3. /\ s1 \in StackedState /\ GroundedAt(s1)
      /\ stack # <<>> => s1.stack # <<>>
      /\ ~ cmd["body"] => s1 = s0
  BY <1>1, <1>2, PushedTyped, PushedGrounded
<1> HIDE DEF s1
<1>4. /\ s2 \in StackedState /\ GroundedAt(s2)
      /\ s1.stack # <<>> => s2.stack # <<>>
      /\ ~ cmd["qualifier"] => s2 = s1
      /\ cmd["qualifier"] => s2.start = "sfc_qualifier_state" /\ s2.stack # <<>>
  BY <1>1, <1>3, PushedTyped, PushedGrounded
<1> HIDE DEF s2
<1>5. /\ s3 \in StackedState /\ GroundedAt(s3)
      /\ s2.stack # <<>> => s3.stack # <<>>
      /\ ~ cmd["priority"] => s3 = s2
      /\ cmd["priority"] => s3.start = "sfc_priority_state" /\ s3.stack # <<>>
  BY <1>1, <1>4, PushedTyped, PushedGrounded
<1> HIDE DEF s3
<1>6. /\ GroundedAt(s4)
      /\ s3.stack # <<>> => s4.stack # <<>>
      /\ ~ cmd["task"] => s4 = s3
      /\ cmd["task"] => /\ s4.start = "task_init_state"
                        /\ s4.stack # <<>>
                        /\ Len(s4.stack) = Len(s3.stack) + 1
                        /\ s4.stack[Len(s3.stack) + 1] = s3.start
  BY <1>1, <1>5, PushedGrounded
<1> HIDE DEF s4
<1>7. AfterPushes = s4
  BY DEF AfterPushes, s0, s1, s2, s3, s4
<1>8. ~ cmd["body"] /\ start \in Held => s3.start \in Held
  BY <1>2, <1>3, <1>4, <1>5 DEF Held
<1>9. s3.stack # <<>> => Len(s3.stack) \in Nat \ {0}
  BY <1>5 DEF StackedState
<1>10. stack # <<>> => s3.stack # <<>>
  BY <1>3, <1>4, <1>5
<1>11. start \in Held /\ ~ cmd["body"] /\ stack # <<>> /\ cmd["task"] =>
         /\ Len(s4.stack) >= 2
         /\ s4.stack[Len(s4.stack)] \in Held
  BY <1>6, <1>8, <1>9, <1>10
<1>12. /\ ~ cmd["body"]
       /\ start \in Held \/ cmd["qualifier"] \/ cmd["priority"] \/ cmd["task"]
       => s4.start \in Held
  BY <1>2, <1>3, <1>4, <1>5, <1>6 DEF Held
<1>13. cmd["qualifier"] \/ cmd["priority"] \/ cmd["task"] => s4.stack # <<>>
  BY <1>4, <1>5, <1>6
<1>14. QED
  BY <1>6, <1>7, <1>10, <1>11, <1>12, <1>13

LEMMA NothingPushed ==
  ASSUME ControlTyped, Grounded, \A c \in Commands : ~ cmd[c]
  PROVE  AfterPushes = [start |-> start, stack |-> stack]
  BY DEF AfterPushes, Pushed, Commands

LEMMA EnterYylexChain ==
  ASSUME TypeOK, Chain, EnterYylex, UNCHANGED parse
  PROVE  Chain'
<1> DEFINE st == AfterPushes
           n == Len(st.stack)
<1>1. ControlTyped /\ Grounded /\ turn = "enter"
  BY DEF TypeOK, Chain, Grounded, EnterYylex
<1>2. st \in StackedState /\ GroundedAt(st) /\ (stack # <<>> => st.stack # <<>>)
  BY <1>1, AfterPushesTyped, AfterPushesGrounded
<1>3. /\ ~ cmd["body"] =>
           /\ start \in Held \/ cmd["qualifier"] \/ cmd["priority"] \/ cmd["task"]
                => st.start \in Held
           /\ cmd["qualifier"] \/ cmd["priority"] \/ cmd["task"] => st.stack # <<>>
           /\ start \in Held /\ stack # <<>> /\ cmd["task"] =>
                n >= 2 /\ st.stack[n] \in Held
  BY <1>1, AfterPushesGrounded
<1>4. cmd["pop"] => st.stack # <<>>
  BY <1>1, <1>2 DEF Chain
<1> DEFINE popped == SubSeq(st.stack, 1, n - 1)
<1>5. st.stack # <<>> =>
        /\ n \in Nat \ {0}
        /\ popped \in Seq(StartCondition)
        /\ Len(popped) = n - 1
        /\ \A i \in 1 .. n - 1 : popped[i] = st.stack[i]
  BY <1>2, PopTyped DEF StackedState
<1>6. /\ ~ cmd["pop"] => start' = st.start /\ stack' = st.stack /\ turn' = "scan"
      /\ cmd["pop"] => start' = st.stack[n] /\ stack' = popped /\ turn' = "scan"
  BY <1>4 DEF EnterYylex
<1> HIDE DEF st, n, popped
<1>7. Grounded'
  <2>1. CASE ~ cmd["pop"]
    BY <1>2, <1>6, <2>1 DEF Grounded, GroundedAt
  <2>2. CASE cmd["pop"]
    <3>1. st.stack[1] \notin Nested
      BY <1>2, <1>4, <2>2 DEF GroundedAt
    <3>2. CASE n = 1
      <4>1. Len(popped) = 0 /\ popped \in Seq(StartCondition)
        BY <1>4, <1>5, <2>2, <3>2
      <4>2. popped = <<>>
        BY <4>1
      <4>3. QED
        BY <1>6, <2>2, <3>1, <3>2, <4>2 DEF Grounded
    <3>3. CASE n # 1
      <4>1. Len(popped) # 0 /\ popped[1] = st.stack[1]
        BY <1>4, <1>5, <2>2, <3>3
      <4>2. popped # <<>>
        BY <4>1
      <4>3. QED
        BY <1>6, <2>2, <3>1, <4>1, <4>2 DEF Grounded
    <3>4. QED
      BY <3>2, <3>3
  <2>3. QED
    BY <2>1, <2>2
<1>8. parse' \in PopDue => PopIsDue'
  <2> SUFFICES ASSUME parse \in PopDue PROVE PopIsDue'
    OBVIOUS
  <2>1. PopIsDue
    BY DEF Chain
  <2>0. CASE HeldBelow /\ cmd = NoCommand
    <3>1. \A c \in Commands : ~ cmd[c]
      BY <2>0 DEF NoCommand
    <3>2. st.start = start /\ st.stack = stack
      BY <1>1, <3>1, NothingPushed DEF st
    <3>3. start' = start /\ stack' = stack /\ turn' = "scan"
      BY <1>6, <3>1, <3>2 DEF Commands
    <3>4. stack # <<>>
      BY <1>1, <2>0 DEF HeldBelow, Grounded, Nested
    <3>5. QED
      BY <2>0, <3>3, <3>4 DEF PopIsDue, HeldBelow
  <2>2. ~ (HeldBelow /\ cmd = NoCommand) => start' \in Held /\ stack' # <<>>
    <3> SUFFICES ASSUME ~ (HeldBelow /\ cmd = NoCommand)
                 PROVE  start' \in Held /\ stack' # <<>>
      OBVIOUS
    <3>1. CASE ~ cmd["pop"]
      BY <1>1, <1>2, <1>3, <1>6, <2>1, <3>1 DEF PopIsDue
    <3>2. CASE cmd["pop"]
      <4>1. start \in Held /\ stack # <<>> /\ ~ cmd["body"] /\ cmd["task"]
        BY <1>1, <2>1, <3>2 DEF PopIsDue
      <4>2. n >= 2 /\ st.stack[n] \in Held
        BY <1>3, <4>1
      <4>3. Len(popped) # 0
        BY <1>4, <1>5, <3>2, <4>2
      <4>4. popped # <<>>
        BY <4>3
      <4>5. QED
        BY <1>6, <3>2, <4>2, <4>4
    <3>3. QED
      BY <3>1, <3>2
  <2>3. turn' = "scan"
    BY <1>6
  <2>4. QED
    BY <2>0, <2>2, <2>3 DEF PopIsDue
<1>9. turn' # "enter"
  BY <1>6
<1>10. QED
  BY <1>7, <1>8, <1>9 DEF Chain, Grounded

(* A move of bison that keeps Chain: it asks for a pop only where one is   *)
(* due, and where one stays due it pushes for it or has just read a token  *)
(* that says so.                                                           *)
KeepsDebt(from, on, to, asks) ==
  /\ "pop" \in asks => from \in PopDue
  /\ to \in PopDue =>
       \/ /\ "body" \notin asks /\ "pop" \notin asks
          /\ "qualifier" \in asks \/ "priority" \in asks \/ "task" \in asks
       \/ /\ from \in PopDue /\ on \subseteq KeepsPopDue /\ "body" \notin asks
          /\ "pop" \in asks => "task" \in asks
       \/ from \in PopDue /\ on \subseteq {"TBODY"} /\ asks = {}

LEMMA ReduceChain ==
  ASSUME TypeOK, Chain, turn = "bison", turn' = "enter",
         start' = start, stack' = stack,
         NEW from, NEW on, NEW to, NEW asks,
         Reduce(from, on, to, asks), KeepsDebt(from, on, to, asks)
  PROVE  Chain'
<1>1. \A c \in Commands : cmd'[c] = (c \in asks)
  BY DEF Reduce
<1>2. /\ cmd'["body"] = ("body" \in asks)
      /\ cmd'["pop"] = ("pop" \in asks)
      /\ cmd'["qualifier"] = ("qualifier" \in asks)
      /\ cmd'["priority"] = ("priority" \in asks)
      /\ cmd'["task"] = ("task" \in asks)
  BY <1>1 DEF Commands
<1>3. parse = from /\ parse' = to /\ token.cls \in on
  BY DEF Reduce
<1>4. from \in PopDue =>
        /\ stack # <<>>
        /\ token.cls \in KeepsPopDue => start \in Held
        /\ token.cls = "TBODY" => start \in Held \/ HeldBelow
  BY <1>3 DEF Chain, PopIsDue
<1>5. parse' \in PopDue => PopIsDue'
  <2> SUFFICES ASSUME to \in PopDue PROVE PopIsDue'
    BY <1>3
  <2>1. CASE /\ "body" \notin asks /\ "pop" \notin asks
             /\ "qualifier" \in asks \/ "priority" \in asks \/ "task" \in asks
    BY <1>2, <2>1 DEF PopIsDue
  <2>2. CASE /\ from \in PopDue /\ on \subseteq KeepsPopDue /\ "body" \notin asks
             /\ "pop" \in asks => "task" \in asks
    <3>1. start' \in Held /\ stack' # <<>>
      BY <1>3, <1>4, <2>2
    <3>2. QED
      BY <1>2, <2>2, <3>1 DEF PopIsDue
  <2>3. CASE from \in PopDue /\ on \subseteq {"TBODY"} /\ asks = {}
    <3>1. cmd' = NoCommand
      <4>1. \A c \in Commands : (c \in asks) = FALSE
        BY <2>3
      <4>2. cmd' = [c \in Commands |-> c \in asks]
        BY DEF Reduce
      <4>3. QED
        BY <4>1, <4>2, Zenon DEF NoCommand
    <3>2. start' \in Held \/ HeldBelow'
      BY <1>3, <1>4, <2>3 DEF HeldBelow
    <3>3. QED
      BY <1>2, <1>3, <1>4, <2>3, <3>1, <3>2 DEF PopIsDue
  <2>4. QED
    BY <2>1, <2>2, <2>3 DEF KeepsDebt
<1>6. cmd'["pop"] => stack' # <<>>
  BY <1>2, <1>4 DEF KeepsDebt
<1>7. (start' \in Nested => stack' # <<>>) /\ (stack' # <<>> => stack'[1] \notin Nested)
  BY DEF Chain
<1>8. QED
  BY <1>5, <1>6, <1>7 DEF Chain

(* A recovery throws the debt away, and asks for the pop where one is due. *)
LEMMA ThrowChain ==
  ASSUME TypeOK, Chain, turn = "bison", turn' = "enter",
         start' = start, stack' = stack,
         NEW from, NEW on, NEW asks, Throw(from, on, asks),
         "pop" \in asks => from \in PopDue
  PROVE  Chain'
  BY ReduceChain DEF Throw, KeepsDebt, PopDue

LEMMA NextNameChain ==
  ASSUME TypeOK, Chain, turn = "bison", turn' = "enter",
         start' = start, stack' = stack,
         NEW from, NEW asks, NextName(from, asks),
         "pop" \in asks => from \in PopDue
  PROVE  Chain'
  BY ReduceChain, ThrowChain DEF NextName, KeepsDebt, PopDue

LEMMA KeptOrClearedChain ==
  ASSUME TypeOK, Chain, turn = "bison", turn' = "enter",
         start' = start, stack' = stack,
         NEW from, NEW on, NEW asks, KeptOrCleared(from, on, asks),
         "pop" \in asks => from \in PopDue
  PROVE  Chain'
  BY ReduceChain, ThrowChain DEF KeptOrCleared, KeepsDebt, PopDue

LEMMA ThrowBlockChain ==
  ASSUME TypeOK, Chain, turn = "bison", turn' = "enter",
         start' = start, stack' = stack,
         NEW from, NEW on, ThrowBlock(from, on)
  PROVE  Chain'
  BY ReduceChain DEF ThrowBlock, KeepsDebt, PopDue

LEMMA AbandonTaskChain ==
  ASSUME TypeOK, Chain, turn = "bison", turn' = "enter",
         start' = start, stack' = stack,
         NEW from, NEW on, NEW asks, AbandonTask(from, on, asks),
         asks = {} \/ (asks = {"pop"} /\ from \in PopDue)
  PROVE  Chain'
<1>1. CASE Reduce(from, on, "conf", asks)
  BY <1>1, ReduceChain DEF KeepsDebt, PopDue
<1>2. CASE Reduce(from, on \cap {"OPENT"}, "task", asks \cup {"task"})
  BY <1>2, ReduceChain DEF KeepsDebt, PopDue, KeepsPopDue
<1>3. CASE Reduce(from, on \cap {"ENDCONF"}, "pou", asks)
  BY <1>3, ReduceChain DEF KeepsDebt, PopDue
<1>4. QED
  BY <1>1, <1>2, <1>3 DEF AbandonTask

LEMMA YyparseChain ==
  ASSUME TypeOK, Chain, Yyparse
  PROVE  Chain'
<1>1. turn = "bison" /\ turn' = "enter" /\ start' = start /\ stack' = stack
  BY DEF Yyparse
<1>2. CASE Pou
  BY <1>1, <1>2, ReduceChain DEF Pou, KeepsDebt, PopDue, KeepsPopDue
<1>3. CASE Step
  BY <1>1, <1>3, ReduceChain, ThrowChain
     DEF Step, Association, KeepsDebt, PopDue, KeepsPopDue
<1>4. CASE RecoverStep
  BY <1>1, <1>4, ThrowChain DEF RecoverStep
<1>5. CASE IndicatorNames
  BY <1>1, <1>5, NextNameChain, KeptOrClearedChain DEF IndicatorNames
<1>6. CASE Qualifier
  BY <1>1, <1>6, ReduceChain, NextNameChain
     DEF Qualifier, KeepsDebt, PopDue, KeepsPopDue
<1>7. CASE TimedQualifier
  BY <1>1, <1>7, ReduceChain, ThrowChain, NextNameChain, KeptOrClearedChain
     DEF TimedQualifier, KeepsDebt, PopDue, KeepsPopDue
<1>8. CASE Sfc
  BY <1>1, <1>8, ReduceChain, ThrowBlockChain DEF Sfc, KeepsDebt, PopDue, KeepsPopDue
<1>9. CASE Priority
  BY <1>1, <1>9, ReduceChain, ThrowBlockChain
     DEF Priority, KeepsDebt, PopDue, KeepsPopDue
<1>10. CASE Block
  BY <1>1, <1>10, ReduceChain, ThrowBlockChain
     DEF Block, InsideBlock, KeepsDebt, PopDue, KeepsPopDue
<1>11. CASE RecoverBlock
  BY <1>1, <1>11, ReduceChain, ThrowBlockChain DEF RecoverBlock, KeepsDebt, PopDue
<1>12. CASE Configuration
  BY <1>1, <1>12, ReduceChain DEF Configuration, KeepsDebt, PopDue, KeepsPopDue
<1>13. CASE Task
  BY <1>1, <1>13, ReduceChain, AbandonTaskChain DEF Task, KeepsDebt, PopDue, KeepsPopDue
<1>14. QED
  BY <1>2, <1>3, <1>4, <1>5, <1>6, <1>7, <1>8, <1>9, <1>10, <1>11, <1>12, <1>13 DEF Yyparse, BisonMoves

LEMMA InitChain == Init => Chain
  BY DEF Init, LexInit, Chain, Nested, PopDue, NoCommand, Commands

LEMMA NextChain == TypeOK /\ Chain /\ [Next]_vars => Chain'
<1> SUFFICES ASSUME TypeOK, Chain, [Next]_vars PROVE Chain'
  OBVIOUS
<1>1. CASE Scanner
  BY <1>1, EnterYylexChain, ChangesStateChain, CollectsBodyChain, ReadsTextChain
     DEF Scanner, Yylex
<1>2. CASE Yyparse
  BY <1>2, YyparseChain
<1>3. CASE UNCHANGED vars
  BY <1>3 DEF vars, lexVars, Chain, PopIsDue, HeldBelow
<1>4. QED
  BY <1>1, <1>2, <1>3 DEF Next, Finished, SfcError

(* The strengthening itself.                                               *)
THEOREM ChainHolds == Spec => []Chain
<1>1. Init => Chain
  BY InitChain
<1>2. TypeOK /\ Chain /\ [Next]_vars => Chain'
  BY NextChain
<1>3. QED
  BY <1>1, <1>2, TypeCorrect, PTL DEF Spec

(* No rule and no command of bison pops an empty start condition stack,    *)
(* whatever the text: yy_pop_state (parser.l) never ends the program.      *)
THEOREM NeverUnderflows == Spec => []NoUnderflow
<1>1. TypeOK /\ Chain => NoUnderflow
  <2> SUFFICES ASSUME TypeOK, Chain PROVE NoUnderflow
    OBVIOUS
  <2>1. turn = "enter" /\ cmd["pop"] => AfterPushes.stack # <<>>
    BY AfterPushesGrounded DEF TypeOK, Chain, Grounded
  <2>2. QED
    BY <2>1 DEF Chain, NoUnderflow
<1>2. QED
  BY <1>1, TypeCorrect, ChainHolds, PTL

-----------------------------------------------------------------------------
(* No text is lost.  TextAccounted is inductive with the types: each way   *)
(* of touching the text moves items between its four parts.                *)

LEMMA EatAccounts ==
  ASSUME TextTyped, TextAccounted, input # <<>>, Eat, UNCHANGED <<src, buffer>>
  PROVE  TextAccounted'
<1>1. Indices(input) = {input[1].at} \cup Indices(Tail(input))
  BY IndicesTail DEF TextTyped
<1>2. QED
  BY <1>1 DEF TextAccounted, Pending, Eat, Next1

LEMMA ReturnAccounts ==
  ASSUME TextTyped, TextAccounted, input # <<>>, Return, UNCHANGED <<src, buffer>>
  PROVE  TextAccounted'
<1>1. Indices(input) = {input[1].at} \cup Indices(Tail(input))
  BY IndicesTail DEF TextTyped
<1>2. QED
  BY <1>1 DEF TextAccounted, Pending, Return, Next1

LEMMA StillAccounted ==
  ASSUME TextAccounted, UNCHANGED <<src, input, buffer, delivered, eaten>>
  PROVE  TextAccounted'
  BY DEF TextAccounted, Pending

LEMMA CollectAccounts ==
  ASSUME TextTyped, TextAccounted, BodyCollect
  PROVE  TextAccounted'
<1>1. input # <<>> /\ input \in Seq(Items) /\ buffer \in Seq(Items)
  BY DEF BodyCollect, BodyMatch, Rule, TextTyped
<1>2. Next1 \in Items
  BY <1>1, TailTyped DEF Next1
<1>3. Indices(input) = {Next1.at} \cup Indices(Tail(input))
  BY <1>1, IndicesTail DEF Next1
<1>4. Indices(Append(buffer, Next1)) = Indices(buffer) \cup {Next1.at}
  BY <1>1, <1>2, IndicesAppend
<1>5. /\ input' = Tail(input) /\ buffer' = Append(buffer, Next1)
      /\ delivered' = delivered /\ eaten' = eaten /\ src' = src
  BY DEF BodyCollect, BodyMatch, append_bodystate_buffer, history
<1>6. QED
  BY <1>3, <1>4, <1>5 DEF TextAccounted, Pending

LEMMA UnputBufferAccounts ==
  ASSUME TextTyped, TextAccounted, input # <<>>, AppendThenUnputBuffer, UNCHANGED src
  PROVE  TextAccounted'
<1>1. input \in Seq(Items) /\ buffer \in Seq(Items)
  BY DEF TextTyped
<1>2. Next1 \in Items /\ Tail(input) \in Seq(Items)
  BY <1>1, TailTyped DEF Next1
<1>3. Indices(input) = {Next1.at} \cup Indices(Tail(input))
  BY <1>1, IndicesTail DEF Next1
<1>4. /\ Indices(Append(buffer, Next1)) = Indices(buffer) \cup {Next1.at}
      /\ Append(buffer, Next1) \in Seq(Items)
  BY <1>1, <1>2, IndicesAppend, AppendProperties
<1>5. Indices(Append(buffer, Next1) \o Tail(input)) =
        Indices(buffer) \cup {Next1.at} \cup Indices(Tail(input))
  BY <1>2, <1>4, IndicesConcat
<1>6. Indices(<<>>) = {}
  BY DEF Indices
<1>7. /\ input' = Append(buffer, Next1) \o Tail(input) /\ buffer' = <<>>
      /\ delivered' = delivered /\ eaten' = eaten
  BY DEF AppendThenUnputBuffer, history
<1>8. QED
  BY <1>3, <1>5, <1>6, <1>7 DEF TextAccounted, Pending

LEMMA TimeLiteralAccounts ==
  ASSUME TextTyped, TextAccounted, TimeLiteral
  PROVE  TextAccounted'
<1>1. input # <<>> /\ input \in Seq(Items)
  BY DEF TimeLiteral, Rule, TextTyped
<1>2. Next1 \in Items /\ Tail(input) \in Seq(Items)
  BY <1>1, TailTyped DEF Next1
<1> DEFINE body == [Next1 EXCEPT !.cls = "TBODY"]
           mark == [Next1 EXCEPT !.cls = "MARK"]
<1>3. body \in Items /\ mark \in Items /\ body.at = Next1.at /\ mark.at = Next1.at
  BY <1>2 DEF Items, Marked
<1>4. input' = <<body, mark>> \o Tail(input)
  BY DEF TimeLiteral
<1> HIDE DEF body, mark
<1>5. <<body, mark>> \in Seq(Items) /\ Indices(<<body, mark>>) = {Next1.at}
  BY <1>3 DEF Indices
<1>6. Indices(input') = {Next1.at} \cup Indices(Tail(input))
  BY <1>2, <1>4, <1>5, IndicesConcat
<1>7. Indices(input) = {Next1.at} \cup Indices(Tail(input))
  BY <1>1, IndicesTail DEF Next1
<1>8. UNCHANGED <<src, buffer, delivered, eaten>>
  BY DEF TimeLiteral, bodyVars, history
<1>9. QED
  BY <1>6, <1>7, <1>8 DEF TextAccounted, Pending

LEMMA FusedIdentifierAccounts ==
  ASSUME TextTyped, TextAccounted, FusedIdentifier
  PROVE  TextAccounted'
<1>1. PICK k \in 2 .. Len(input) :
        /\ input' = SubSeq(input, k + 1, Len(input))
        /\ delivered' = delivered \cup {input[i].at : i \in 1 .. k}
  BY DEF FusedIdentifier
<1>2. input \in Seq(Items) /\ k \in 1 .. Len(input)
  BY DEF TextTyped
<1>3. Indices(input) = {input[i].at : i \in 1 .. k} \cup Indices(input')
  BY <1>1, <1>2, IndicesSplit
<1>4. UNCHANGED <<src, buffer, eaten>>
  BY DEF FusedIdentifier, bodyVars
<1>5. QED
  BY <1>1, <1>3, <1>4 DEF TextAccounted, Pending

LEMMA ChangesStateAccounts ==
  ASSUME TextTyped, TextAccounted, ChangesState
  PROVE  TextAccounted'
<1>1. CASE PouHeader
  BY <1>1, ReturnAccounts DEF PouHeader, Rule, bodyVars
<1>2. CASE ConfHeader
  BY <1>2, ReturnAccounts DEF ConfHeader, Rule, bodyVars
<1>3. CASE HeaderToVarList
  BY <1>3, StillAccounted DEF HeaderToVarList, UnputText, bodyVars, history
<1>4. CASE EnterVarBlock
  BY <1>4, StillAccounted DEF EnterVarBlock, UnputText, bodyVars, history
<1>5. CASE VarListToInitial
  BY <1>5, StillAccounted DEF VarListToInitial, UnputText, bodyVars, history
<1>6. CASE PragmaBeforeVar
  BY <1>6, ReturnAccounts DEF PragmaBeforeVar, Rule, bodyVars
<1>7. CASE EnterBody
  BY <1>7, StillAccounted DEF EnterBody, UnputText, bodyVars, history
<1>8. CASE EndVar
  BY <1>8, ReturnAccounts DEF EndVar, Rule, bodyVars
<1>9. CASE LeaveBody
  BY <1>9, StillAccounted DEF LeaveBody, UnputText, bodyVars, history
<1>10. CASE EndUnit
  BY <1>10, ReturnAccounts DEF EndUnit, Rule, bodyVars
<1>11. QED
  BY <1>1, <1>2, <1>3, <1>4, <1>5, <1>6, <1>7, <1>8, <1>9, <1>10 DEF ChangesState

LEMMA CollectsBodyAccounts ==
  ASSUME TextTyped, TextAccounted, CollectsBody
  PROVE  TextAccounted'
<1>1. CASE BodyCollect
  BY <1>1, CollectAccounts
<1>2. CASE BodyIsSfc
  BY <1>2, StillAccounted DEF BodyIsSfc, BodyMatch, UnputText, bodyVars, history
<1>3. CASE BodyIsTransition
  BY <1>3, StillAccounted DEF BodyIsTransition, BodyMatch, UnputText, bodyVars, history
<1>4. CASE BodyIsStByKeyword
  BY <1>4, StillAccounted DEF BodyIsStByKeyword, BodyMatch, bodyVars, history
<1>5. CASE BodyIsSt
  BY <1>5, UnputBufferAccounts DEF BodyIsSt, BodyMatch, Rule
<1>6. CASE BodyIsIl
  BY <1>6, UnputBufferAccounts DEF BodyIsIl, BodyMatch, Rule
<1>7. QED
  BY <1>1, <1>2, <1>3, <1>4, <1>5, <1>6 DEF CollectsBody

LEMMA ReadsTextAccounts ==
  ASSUME TextTyped, TextAccounted, ReadsText
  PROVE  TextAccounted'
<1>1. CASE EatBlank
  BY <1>1, EatAccounts DEF EatBlank, Rule, bodyVars
<1>2. CASE ReturnBlank
  BY <1>2, ReturnAccounts DEF ReturnBlank, Rule, bodyVars
<1>3. CASE GiveUp
  BY <1>3, StillAccounted DEF GiveUp, bodyVars, history
<1>4. CASE OpenComment
  BY <1>4, EatAccounts DEF OpenComment, Rule, bodyVars
<1>5. CASE CloseComment
  BY <1>5, EatAccounts DEF CloseComment, Rule, bodyVars
<1>6. CASE CommentText
  BY <1>6, EatAccounts DEF CommentText, Rule, bodyVars
<1>7. CASE TimeLiteral
  BY <1>7, TimeLiteralAccounts
<1>8. CASE TimePart
  BY <1>8, ReturnAccounts DEF TimePart, Rule, bodyVars
<1>9. CASE TimeEnd
  BY <1>9, ReturnAccounts DEF TimeEnd, Rule, bodyVars
<1>10. CASE FusedIdentifier
  BY <1>10, FusedIdentifierAccounts
<1>11. CASE ReturnToken
  BY <1>11, ReturnAccounts DEF ReturnToken, Rule, bodyVars
<1>12. CASE EndOfInput
  BY <1>12, StillAccounted DEF EndOfInput, bodyVars, history
<1>13. QED
  BY <1>1, <1>2, <1>3, <1>4, <1>5, <1>6, <1>7, <1>8, <1>9, <1>10, <1>11, <1>12
     DEF ReadsText

LEMMA InitAccounted == Init => TextAccounted
<1> SUFFICES ASSUME Init PROVE TextAccounted
  OBVIOUS
<1>1. src \in Seq(Lexeme)
  BY SourcesAssumption DEF Init, LexInit
<1>2. DOMAIN input = DOMAIN src /\ \A n \in DOMAIN src : input[n].at = n
  BY DEF Init, LexInit, Item
<1>3. Indices(input) = DOMAIN src
  BY <1>2 DEF Indices
<1>4. Indices(<<>>) = {}
  BY DEF Indices
<1>5. QED
  BY <1>3, <1>4 DEF Init, LexInit, TextAccounted, Pending

LEMMA NextAccounts == TypeOK /\ TextAccounted /\ [Next]_vars => TextAccounted'
<1> SUFFICES ASSUME TypeOK, TextAccounted, [Next]_vars PROVE TextAccounted'
  OBVIOUS
<1> TextTyped
  BY DEF TypeOK
<1>1. CASE Scanner
  <2>1. CASE EnterYylex
    BY <2>1, StillAccounted DEF EnterYylex, bodyVars, history
  <2>2. QED
    BY <1>1, <2>1, ChangesStateAccounts, CollectsBodyAccounts, ReadsTextAccounts
       DEF Scanner, Yylex
<1>2. CASE Yyparse
  BY <1>2, StillAccounted DEF Yyparse, bodyVars, history
<1>3. CASE UNCHANGED vars
  BY <1>3, StillAccounted DEF vars, lexVars, bodyVars, history
<1>4. QED
  BY <1>1, <1>2, <1>3 DEF Next, Finished, SfcError

(* Whatever the text, no lexeme of it is lost on the way through the body  *)
(* buffer and the put-backs (parser_t::append_bodystate_buffer and         *)
(* unput_bodystate_buffer): it has been handed to bison, eaten by a rule,  *)
(* or is still to be read.                                                 *)
THEOREM NothingLost == Spec => []TextAccounted
<1>1. Init => TextAccounted
  BY InitAccounted
<1>2. TypeOK /\ TextAccounted /\ [Next]_vars => TextAccounted'
  BY NextAccounts
<1>3. QED
  BY <1>1, <1>2, TypeCorrect, PTL DEF Spec

-----------------------------------------------------------------------------
(* The end of a unit.  Only EndUnit hands END_FUNCTION and the like to     *)
(* bison: the rule for any other token leaves them to it.                  *)

LEMMA OtherToken ==
  ASSUME Return, Next1.cls \notin {"ENDPOU", "ENDCONF"}
  PROVE  EndFoundInInitial'
<1>1. token'.cls = TokenClass(Next1.cls, start)
  BY DEF Return
<1>2. TokenClass(Next1.cls, start) \in {Next1.cls, "WORD"}
  BY DEF TokenClass
<1>3. QED
  BY <1>1, <1>2 DEF EndFoundInInitial

LEMMA NoToken ==
  ASSUME turn = "scan", UNCHANGED turn
  PROVE  EndFoundInInitial'
  BY DEF EndFoundInInitial

LEMMA ChangesStateEnds ==
  ASSUME ChangesState
  PROVE  EndFoundInInitial'
<1>1. CASE PouHeader
  BY <1>1, OtherToken DEF PouHeader, Rule
<1>2. CASE ConfHeader
  BY <1>2, OtherToken DEF ConfHeader, Rule
<1>3. CASE HeaderToVarList \/ EnterVarBlock \/ VarListToInitial \/ EnterBody \/ LeaveBody
  BY <1>3, NoToken DEF HeaderToVarList, EnterVarBlock, VarListToInitial, EnterBody,
                      LeaveBody, UnputText, Rule
<1>4. CASE PragmaBeforeVar
  BY <1>4, OtherToken DEF PragmaBeforeVar, Rule
<1>5. CASE EndVar
  BY <1>5, OtherToken DEF EndVar, Rule
<1>6. CASE EndUnit
  BY <1>6 DEF EndUnit, Begin, EndFoundInInitial
<1>7. QED
  BY <1>1, <1>2, <1>3, <1>4, <1>5, <1>6 DEF ChangesState

LEMMA CollectsBodyEnds ==
  ASSUME CollectsBody
  PROVE  EndFoundInInitial'
<1>1. CASE BodyCollect
  BY <1>1, NoToken DEF BodyCollect, BodyMatch, Rule
<1>2. CASE BodyIsSfc \/ BodyIsTransition
  BY <1>2, NoToken DEF BodyIsSfc, BodyIsTransition, BodyMatch, UnputText, Rule
<1>3. CASE BodyIsStByKeyword \/ BodyIsSt \/ BodyIsIl
  <2>1. token'.cls \in Synthetic
    BY <1>3 DEF BodyIsStByKeyword, BodyIsSt, BodyIsIl, ReturnSynthetic, Synthetic
  <2>2. QED
    BY <2>1 DEF Synthetic, EndFoundInInitial
<1>4. QED
  BY <1>1, <1>2, <1>3 DEF CollectsBody

LEMMA ReadsTextEnds ==
  ASSUME ReadsText
  PROVE  EndFoundInInitial'
<1>1. CASE EatBlank \/ OpenComment \/ CloseComment \/ CommentText \/ TimeLiteral
  BY <1>1, NoToken DEF EatBlank, OpenComment, CloseComment, CommentText, TimeLiteral,
                      Eat, Rule
<1>2. CASE ReturnBlank
  BY <1>2, OtherToken DEF ReturnBlank, Rule
<1>3. CASE GiveUp \/ EndOfInput
  BY <1>3 DEF GiveUp, EndOfInput, EndFoundInInitial
<1>4. CASE TimePart
  BY <1>4, OtherToken DEF TimePart, Rule
<1>5. CASE TimeEnd
  BY <1>5, OtherToken DEF TimeEnd, Rule
<1>6. CASE FusedIdentifier
  BY <1>6 DEF FusedIdentifier, EndFoundInInitial
<1>7. CASE ReturnToken
  BY <1>7, OtherToken DEF ReturnToken, OwnRules
<1>8. QED
  BY <1>1, <1>2, <1>3, <1>4, <1>5, <1>6, <1>7 DEF ReadsText

LEMMA NextEnds == EndFoundInInitial /\ [Next]_vars => EndFoundInInitial'
<1> SUFFICES ASSUME EndFoundInInitial, [Next]_vars PROVE EndFoundInInitial'
  OBVIOUS
<1>1. CASE Scanner
  <2>1. CASE EnterYylex
    <3>1. turn' # "bison"
      BY <2>1 DEF EnterYylex
    <3>2. QED
      BY <3>1 DEF EndFoundInInitial
  <2>2. QED
    BY <1>1, <2>1, ChangesStateEnds, CollectsBodyEnds, ReadsTextEnds DEF Scanner, Yylex
<1>2. CASE Yyparse
  BY <1>2 DEF Yyparse, EndFoundInInitial
<1>3. CASE UNCHANGED vars
  BY <1>3 DEF vars, lexVars, EndFoundInInitial
<1>4. QED
  BY <1>1, <1>2, <1>3 DEF Next, Finished, SfcError

(* Whatever the text, bison is handed the end of a POU or configuration    *)
(* with the scanner back in INITIAL (parser.l:1126-1171, 1216-1227).       *)
THEOREM EndsInInitial == Spec => []EndFoundInInitial
<1>1. Init => EndFoundInInitial
  BY DEF Init, LexInit, EndFoundInInitial
<1>2. EndFoundInInitial /\ [Next]_vars => EndFoundInInitial'
  BY NextEnds
<1>3. QED
  BY <1>1, <1>2, PTL DEF Spec

-----------------------------------------------------------------------------
(* A set of numbers that is not empty has a smallest one.                  *)
Less == {p \in Nat \X Nat : p[1] < p[2]}

LEMMA LessWellFounded == IsWellFoundedOn(Less, Nat)
<1>1. IsWellFoundedOn(OpToRel(<, Nat), Nat)
  BY NatLessThanWellFounded
<1>2. QED
  BY <1>1 DEF OpToRel, Less

LEMMA Smallest ==
  ASSUME NEW T \in SUBSET Nat, T # {}
  PROVE  \E k \in T : \A j \in T : k <= j
<1>1. PICK k \in T : \A j \in T : ~ (<<j, k>> \in Less)
  BY LessWellFounded, WFMin
<1>2. ASSUME NEW j \in T PROVE k <= j
  <2>1. <<j, k>> \in Nat \X Nat /\ <<j, k>> \notin Less
    BY <1>1
  <2>2. ~ (<<j, k>>[1] < <<j, k>>[2])
    BY <2>1, Zenon DEF Less
  <2>3. QED
    BY <2>2
<1>3. QED
  BY <1>2

-----------------------------------------------------------------------------
(* Comments, one lexeme at a time.                                         *)
LEMMA CommentOpenIs ==
  ASSUME NEW S, NEW text \in Seq(S)
  PROVE  /\ CommentOpen(text) \in [0 .. Len(text) -> BOOLEAN]
         /\ ~ CommentOpen(text)[0]
         /\ \A n \in 1 .. Len(text) :
              CommentOpen(text)[n] =
                IF CommentOpen(text)[n - 1] THEN text[n] # "CE" ELSE text[n] = "CB"
<1> DEFINE Open(n) ==
      \E m \in 1 .. n : text[m] = "CB" /\ \A k \in m + 1 .. n : text[k] # "CE"
<1>1. \A n \in 0 .. Len(text) : CommentOpen(text)[n] = Open(n)
  BY DEF CommentOpen
<1>2. CommentOpen(text) \in [0 .. Len(text) -> BOOLEAN]
  BY DEF CommentOpen
<1>3. ~ Open(0)
  OBVIOUS
<1>4. ASSUME NEW n \in 1 .. Len(text)
      PROVE  Open(n) = IF Open(n - 1) THEN text[n] # "CE" ELSE text[n] = "CB"
  <2>1. n \in Nat /\ n - 1 \in Nat
    OBVIOUS
  <2>2. ASSUME NEW m \in 1 .. n - 1
        PROVE  (\A k \in m + 1 .. n : text[k] # "CE")
                 <=> (\A k \in m + 1 .. n - 1 : text[k] # "CE") /\ text[n] # "CE"
    BY <2>1
  <2>3. \A m \in 1 .. n : m = n \/ m \in 1 .. n - 1
    BY <2>1
  <2>4. \A k \in n + 1 .. n : text[k] # "CE"
    BY <2>1
  <2>5. CASE Open(n - 1) /\ text[n] # "CE"
    <3>1. PICK m \in 1 .. n - 1 :
            text[m] = "CB" /\ \A k \in m + 1 .. n - 1 : text[k] # "CE"
      BY <2>5
    <3>2. m \in 1 .. n /\ \A k \in m + 1 .. n : text[k] # "CE"
      BY <2>1, <2>2, <2>5, <3>1
    <3>3. Open(n)
      BY <3>1, <3>2
    <3>4. QED
      BY <2>5, <3>3
  <2>6. CASE Open(n - 1) /\ text[n] = "CE"
    <3>1. ~ Open(n)
      BY <2>2, <2>3, <2>6
    <3>2. QED
      BY <2>6, <3>1
  <2>7. CASE ~ Open(n - 1)
    <3>1. Open(n) => text[n] = "CB"
      BY <2>2, <2>3, <2>7
    <3>2. text[n] = "CB" => Open(n)
      BY <2>1, <2>4
    <3>3. QED
      BY <2>7, <3>1, <3>2
  <2>8. QED
    BY <2>5, <2>6, <2>7
<1> HIDE DEF Open
<1>5. \A n \in 1 .. Len(text) : n \in 0 .. Len(text) /\ n - 1 \in 0 .. Len(text)
  OBVIOUS
<1>6. 0 \in 0 .. Len(text)
  OBVIOUS
<1>7. QED
  BY <1>1, <1>2, <1>3, <1>4, <1>5, <1>6

-----------------------------------------------------------------------------
(* Sequences of items: what is where after a rule has read lexemes, put    *)
(* the buffer back or split a literal.                                     *)

RestOf(t, s, k) == /\ Len(t) = Len(s) - k
                   /\ \A i \in 1 .. Len(s) - k : t[i] = s[i + k]

JoinOf(t, b, s) == /\ Len(t) = Len(b) + Len(s)
                   /\ \A i \in 1 .. Len(b) : t[i] = b[i]
                   /\ \A i \in 1 .. Len(s) : t[Len(b) + i] = s[i]

SplitOf(t, x, y, s) == /\ Len(t) = Len(s) + 1
                       /\ t[1] = x
                       /\ t[2] = y
                       /\ \A i \in 2 .. Len(s) : t[i + 1] = s[i]

LEMMA TailIsRest ==
  ASSUME NEW s \in Seq(Items), s # <<>>
  PROVE  RestOf(Tail(s), s, 1) /\ Len(s) \in Nat \ {0}
  BY HeadTailProperties DEF RestOf

LEMMA AfterAppend ==
  ASSUME NEW s \in Seq(Items), NEW e \in Items, NEW t, t = Append(s, e)
  PROVE  /\ t \in Seq(Items)
         /\ Len(t) = Len(s) + 1
         /\ \A i \in 1 .. Len(s) : t[i] = s[i]
         /\ t[Len(s) + 1] = e
  BY AppendProperties

LEMMA AfterPutBack ==
  ASSUME NEW b \in Seq(Items), NEW s \in Seq(Items), s # <<>>,
         NEW t, t = Append(b, s[1]) \o Tail(s)
  PROVE  JoinOf(t, b, s)
<1> DEFINE a == Append(b, s[1])
           r == Tail(s)
<1>1. /\ Len(b) \in Nat /\ Len(s) \in Nat \ {0}
      /\ r \in Seq(Items) /\ s[1] \in Items
      /\ Len(r) = Len(s) - 1
      /\ \A i \in 1 .. Len(s) - 1 : r[i] = s[i + 1]
  BY TailIsRest, TailTyped DEF RestOf
<1>2. /\ a \in Seq(Items)
      /\ Len(a) = Len(b) + 1
      /\ \A i \in 1 .. Len(b) : a[i] = b[i]
      /\ a[Len(b) + 1] = s[1]
  BY <1>1, AfterAppend
<1> HIDE DEF a, r
<1>3. /\ Len(a \o r) = Len(a) + Len(r)
      /\ \A i \in 1 .. Len(a) + Len(r) :
           (a \o r)[i] = IF i <= Len(a) THEN a[i] ELSE r[i - Len(a)]
  BY <1>1, <1>2, ConcatProperties
<1>4. t = a \o r
  BY DEF a, r
<1>5. Len(t) = Len(b) + Len(s)
  BY <1>1, <1>2, <1>3, <1>4
<1>6. ASSUME NEW i \in 1 .. Len(b) PROVE t[i] = b[i]
  BY <1>1, <1>2, <1>3, <1>4
<1>7. ASSUME NEW i \in 1 .. Len(s) PROVE t[Len(b) + i] = s[i]
  <2>1. CASE i = 1
    BY <1>1, <1>2, <1>3, <1>4, <2>1
  <2>2. CASE i # 1
    <3>1. i - 1 \in 1 .. Len(s) - 1 /\ r[i - 1] = s[i]
      BY <1>1, <2>2
    <3>2. /\ Len(b) + i \in 1 .. Len(a) + Len(r)
          /\ ~ (Len(b) + i <= Len(a))
          /\ Len(b) + i - Len(a) = i - 1
      BY <1>1, <1>2, <2>2
    <3>3. QED
      BY <1>3, <1>4, <3>1, <3>2
  <2>3. QED
    BY <2>1, <2>2
<1>8. QED
  BY <1>5, <1>6, <1>7 DEF JoinOf

LEMMA AfterSplit ==
  ASSUME NEW s \in Seq(Items), s # <<>>, NEW x \in Items, NEW y \in Items,
         NEW t, t = <<x, y>> \o Tail(s)
  PROVE  SplitOf(t, x, y, s)
<1> DEFINE p == <<x, y>>
           r == Tail(s)
<1>1. /\ Len(s) \in Nat \ {0}
      /\ r \in Seq(Items)
      /\ Len(r) = Len(s) - 1
      /\ \A i \in 1 .. Len(s) - 1 : r[i] = s[i + 1]
  BY TailIsRest, TailTyped DEF RestOf
<1>2. p \in Seq(Items) /\ Len(p) = 2 /\ p[1] = x /\ p[2] = y
  OBVIOUS
<1> HIDE DEF p, r
<1>3. /\ Len(p \o r) = Len(p) + Len(r)
      /\ \A i \in 1 .. Len(p) + Len(r) :
           (p \o r)[i] = IF i <= Len(p) THEN p[i] ELSE r[i - Len(p)]
  BY <1>1, <1>2, ConcatProperties
<1>4. t = p \o r
  BY DEF p, r
<1>5. Len(t) = Len(s) + 1 /\ t[1] = x /\ t[2] = y
  BY <1>1, <1>2, <1>3, <1>4
<1>6. ASSUME NEW i \in 2 .. Len(s) PROVE t[i + 1] = s[i]
  <2>1. i - 1 \in 1 .. Len(s) - 1 /\ r[i - 1] = s[i]
    BY <1>1
  <2>2. i + 1 \in 1 .. Len(p) + Len(r) /\ ~ (i + 1 <= Len(p)) /\ i + 1 - Len(p) = i - 1
    BY <1>1, <1>2
  <2>3. QED
    BY <1>3, <1>4, <2>1, <2>2
<1>7. QED
  BY <1>5, <1>6 DEF SplitOf

LEMMA AfterFused ==
  ASSUME NEW s \in Seq(Items), NEW k \in 1 .. Len(s),
         NEW t, t = SubSeq(s, k + 1, Len(s))
  PROVE  RestOf(t, s, k)
<1>1. k + 1 \in Int /\ Len(s) \in Nat /\ k \in Nat /\ k <= Len(s)
  OBVIOUS
<1>2. \A i \in k + 1 .. Len(s) : s[i] \in Items
  BY ElementOfSeq, <1>1
<1>3. /\ Len(t) = IF k + 1 <= Len(s) THEN Len(s) - (k + 1) + 1 ELSE 0
      /\ \A i \in 1 .. Len(s) - (k + 1) + 1 : t[i] = s[(k + 1) + i - 1]
  BY <1>1, <1>2, SubSeqProperties
<1>4. Len(t) = Len(s) - k
  BY <1>1, <1>3
<1>5. ASSUME NEW i \in 1 .. Len(s) - k PROVE t[i] = s[i + k]
  <2>1. i \in 1 .. Len(s) - (k + 1) + 1 /\ (k + 1) + i - 1 = i + k
    BY <1>1
  <2>2. QED
    BY <1>3, <2>1
<1>6. QED
  BY <1>4, <1>5 DEF RestOf

-----------------------------------------------------------------------------
(* The invariant, in parts.  First, what waits to be read.                 *)

Elements(s) == {s[i] : i \in DOMAIN s}

Waiting == Elements(input) \cup Elements(buffer)

(* An item is a lexeme of the text, or half of a literal of it.            *)
FromText(x) == /\ x.at \in DOMAIN src
               /\ \/ x.cls = src[x.at]
                  \/ src[x.at] = "TIME" /\ x.cls \in {"TBODY", "MARK"}

Faithful == \A x \in Waiting : FromText(x)

(* Items follow one another as in the text; a mark follows its literal.    *)
Before(x, y) == x.at < y.at \/ (x.at = y.at /\ y.cls = "MARK")

Sorted(s) == \A i, j \in DOMAIN s : i < j => Before(s[i], s[j])

Ordered == /\ Sorted(input)
           /\ Sorted(buffer)
           /\ \A x \in Elements(buffer), y \in Elements(input) : Before(x, y)

(* No word waits that comes before one that bison has seen.                *)
NotYet(x) ==
  x.cls \notin Blank =>
    \A d \in delivered : \/ src[d] \in Blank
                         \/ d < x.at
                         \/ d = x.at /\ x.cls = "MARK"

Handed == \A x \in Waiting : NotYet(x)

(* Flex is collecting a body, perhaps in a comment inside it; nothing but  *)
(* blanks is in the buffer otherwise.                                      *)
InComment == start = "comment_state"

Collecting == /\ turn \in {"scan", "end"}
              /\ \/ start = "body_state"
                 \/ InComment /\ stack # <<>> /\ stack[Len(stack)] = "body_state"

AllBlank(s) == \A x \in Elements(s) : x.cls \in Blank

Collected ==
  /\ ~ Collecting => AllBlank(buffer)
  /\ blank => AllBlank(buffer)

(* What the buffer of body_state can hold: not what ends a body or says    *)
(* that it is ST, and nothing that would have said so at its beginning.    *)
Undecided ==
  /\ buffer # <<>> /\ ~ blank => ~ AllBlank(buffer)
  /\ \A x \in Elements(buffer) : x.cls \notin {"SEMI", "ENDPOU", "ENDBLK"}
  /\ \A i \in DOMAIN buffer :
       buffer[i].cls \in Leading => \E j \in 1 .. i - 1 : buffer[j].cls \notin Blank

(* Comments are left where they were opened.                               *)
NoComment == StartCondition \ {"comment_state"}

Uncommented == /\ stack \in Seq(NoComment)
               /\ turn \notin {"scan", "end"} => ~ InComment

(* Behind p items that have been put back, the input is the rest of the    *)
(* text; a comment is open there if and only if flex is in one.  What has  *)
(* been put back, or is in the buffer, is not in a comment.                *)
Outside(text, n) == ~ CommentOpen(text)[n - 1] /\ ~ CommentOpen(text)[n]

ReadUpTo(text, s, inComment, p) ==
  /\ Len(s) - p <= Len(text)
  /\ \A i \in p + 1 .. Len(s) : s[i] = Item(text, i + Len(text) - Len(s))
  /\ \A i \in 1 .. p : Outside(text, s[i].at)
  /\ inComment <=> CommentOpen(text)[Len(text) - (Len(s) - p)]
  /\ inComment => p = 0

Reading == /\ \E p \in 0 .. Len(input) : ReadUpTo(src, input, InComment, p)
           /\ \A x \in Elements(buffer) : Outside(src, x.at)

-----------------------------------------------------------------------------
(* The elements of sequences of items.                                     *)

LEMMA ElementsTyped ==
  ASSUME NEW s \in Seq(Items)
  PROVE  /\ \A x \in Elements(s) : x \in Items
         /\ \A i \in 1 .. Len(s) : s[i] \in Elements(s)
         /\ \A x \in Elements(s) : \E i \in 1 .. Len(s) : x = s[i]
         /\ DOMAIN s = 1 .. Len(s)
         /\ Len(s) \in Nat
  BY DEF Elements

LEMMA ElementsRest ==
  ASSUME NEW s \in Seq(Items), NEW k \in Nat, NEW t \in Seq(Items), RestOf(t, s, k)
  PROVE  Elements(t) \subseteq Elements(s)
<1>1. Len(s) \in Nat
  OBVIOUS
<1> SUFFICES ASSUME NEW x \in Elements(t) PROVE x \in Elements(s)
  OBVIOUS
<1>2. PICK i \in 1 .. Len(s) - k : x = t[i]
  BY ElementsTyped DEF RestOf
<1>3. i + k \in 1 .. Len(s) /\ x = s[i + k]
  BY <1>1, <1>2 DEF RestOf
<1>4. QED
  BY <1>3, ElementsTyped

LEMMA ElementsAppend ==
  ASSUME NEW s \in Seq(Items), NEW e \in Items
  PROVE  Elements(Append(s, e)) = Elements(s) \cup {e}
<1> DEFINE t == Append(s, e)
<1>1. /\ t \in Seq(Items)
      /\ Len(t) = Len(s) + 1
      /\ \A i \in 1 .. Len(s) : t[i] = s[i]
      /\ t[Len(s) + 1] = e
      /\ Len(s) \in Nat
  BY AfterAppend
<1> HIDE DEF t
<1>2. ASSUME NEW x \in Elements(t) PROVE x \in Elements(s) \cup {e}
  <2>1. PICK i \in 1 .. Len(s) + 1 : x = t[i]
    BY <1>1, <1>2, ElementsTyped
  <2>2. CASE i = Len(s) + 1
    BY <1>1, <2>1, <2>2
  <2>3. CASE i # Len(s) + 1
    <3>1. i \in 1 .. Len(s)
      BY <1>1, <2>3
    <3>2. QED
      BY <1>1, <2>1, <3>1, ElementsTyped
  <2>4. QED
    BY <2>2, <2>3
<1>3. ASSUME NEW x \in Elements(s) PROVE x \in Elements(t)
  <2>1. PICK i \in 1 .. Len(s) : x = s[i]
    BY <1>3, ElementsTyped
  <2>2. i \in 1 .. Len(t) /\ x = t[i]
    BY <1>1, <2>1
  <2>3. QED
    BY <1>1, <2>2, ElementsTyped
<1>4. e \in Elements(t)
  <2>1. Len(s) + 1 \in 1 .. Len(t)
    BY <1>1
  <2>2. QED
    BY <1>1, <2>1, ElementsTyped
<1>5. Elements(t) = Elements(s) \cup {e}
  BY <1>2, <1>3, <1>4
<1>6. QED
  BY <1>5 DEF t

LEMMA ElementsJoin ==
  ASSUME NEW b \in Seq(Items), NEW s \in Seq(Items), NEW t \in Seq(Items), JoinOf(t, b, s)
  PROVE  Elements(t) \subseteq Elements(b) \cup Elements(s)
<1>1. /\ Len(t) = Len(b) + Len(s)
      /\ \A i \in 1 .. Len(b) : t[i] = b[i]
      /\ \A i \in 1 .. Len(s) : t[Len(b) + i] = s[i]
      /\ Len(b) \in Nat /\ Len(s) \in Nat
  BY DEF JoinOf
<1> SUFFICES ASSUME NEW x \in Elements(t) PROVE x \in Elements(b) \cup Elements(s)
  OBVIOUS
<1>2. PICK i \in 1 .. Len(b) + Len(s) : x = t[i]
  BY <1>1, ElementsTyped
<1>3. CASE i <= Len(b)
  <2>1. i \in 1 .. Len(b)
    BY <1>1, <1>3
  <2>2. QED
    BY <1>1, <1>2, <2>1, ElementsTyped
<1>4. CASE ~ (i <= Len(b))
  <2>1. i - Len(b) \in 1 .. Len(s) /\ Len(b) + (i - Len(b)) = i
    BY <1>1, <1>4
  <2>2. x = s[i - Len(b)]
    BY <1>1, <1>2, <2>1
  <2>3. QED
    BY <2>1, <2>2, ElementsTyped
<1>5. QED
  BY <1>3, <1>4

LEMMA ElementsSplit ==
  ASSUME NEW s \in Seq(Items), NEW x \in Items, NEW y \in Items,
         NEW t \in Seq(Items), SplitOf(t, x, y, s)
  PROVE  Elements(t) \subseteq Elements(s) \cup {x, y}
<1>1. /\ Len(t) = Len(s) + 1
      /\ t[1] = x
      /\ t[2] = y
      /\ \A i \in 2 .. Len(s) : t[i + 1] = s[i]
      /\ Len(s) \in Nat
  BY DEF SplitOf
<1> SUFFICES ASSUME NEW z \in Elements(t), z \notin {x, y} PROVE z \in Elements(s)
  OBVIOUS
<1>2. PICK i \in 1 .. Len(s) + 1 : z = t[i]
  BY <1>1, ElementsTyped
<1>3. i - 1 \in 2 .. Len(s) /\ i - 1 + 1 = i
  BY <1>1, <1>2
<1>4. i - 1 \in 1 .. Len(s) /\ z = s[i - 1]
  BY <1>1, <1>2, <1>3
<1>5. QED
  BY <1>4, ElementsTyped

-----------------------------------------------------------------------------
(* Comments stay out of the stack of start conditions.                     *)

LEMMA PushUncommented ==
  ASSUME TypeOK, Uncommented, ~ InComment, NEW s, PushState(s)
  PROVE  stack' \in Seq(NoComment)
  BY AppendProperties DEF TypeOK, ControlTyped, Uncommented, InComment, NoComment, PushState

LEMMA PopUncommented ==
  ASSUME Uncommented, PopState
  PROVE  stack' \in Seq(NoComment) /\ start' \in NoComment
  BY PopTyped DEF Uncommented, PopState

LEMMA PushesUncommented ==
  ASSUME TypeOK, Uncommented, turn = "enter"
  PROVE  AfterPushes.start \in NoComment /\ AfterPushes.stack \in Seq(NoComment)
<1> DEFINE Good == [start : NoComment, stack : Seq(NoComment)]
           s0 == [start |-> start, stack |-> stack]
           s1 == Pushed(s0, "body", "body_state")
           s2 == Pushed(s1, "qualifier", "sfc_qualifier_state")
           s3 == Pushed(s2, "priority", "sfc_priority_state")
           s4 == Pushed(s3, "task", "task_init_state")
<1>1. {"body_state", "sfc_qualifier_state", "sfc_priority_state", "task_init_state"}
        \subseteq NoComment
  BY DEF NoComment, StartCondition, Inclusive, Exclusive
<1>2. \A st \in Good, c \in {"body", "qualifier", "priority", "task"}, s \in NoComment :
        Pushed(st, c, s) \in Good
  <2> SUFFICES ASSUME NEW st \in Good, NEW c, NEW s \in NoComment
               PROVE  Pushed(st, c, s) \in Good
    OBVIOUS
  <2>1. Append(st.stack, st.start) \in Seq(NoComment)
    BY AppendProperties
  <2>2. QED
    BY <2>1 DEF Pushed
<1>3. s0 \in Good
  BY DEF TypeOK, ControlTyped, Uncommented, InComment, NoComment
<1> HIDE DEF s0, Good
<1>4. s1 \in Good
  BY <1>1, <1>2, <1>3
<1> HIDE DEF s1
<1>5. s2 \in Good
  BY <1>1, <1>2, <1>4
<1> HIDE DEF s2
<1>6. s3 \in Good
  BY <1>1, <1>2, <1>5
<1> HIDE DEF s3
<1>7. s4 \in Good
  BY <1>1, <1>2, <1>6
<1>8. AfterPushes = s4
  BY DEF AfterPushes, s0, s1, s2, s3
<1>9. QED
  BY <1>7, <1>8 DEF Good

LEMMA EnterUncommented ==
  ASSUME TypeOK, Uncommented, EnterYylex
  PROVE  stack' \in Seq(NoComment) /\ ~ InComment /\ ~ InComment'
<1> DEFINE st == AfterPushes
<1>1. st.start \in NoComment /\ st.stack \in Seq(NoComment)
  BY PushesUncommented DEF EnterYylex
<1>2. st.stack # <<>> => /\ st.stack[Len(st.stack)] \in NoComment
                        /\ SubSeq(st.stack, 1, Len(st.stack) - 1) \in Seq(NoComment)
  BY <1>1, PopTyped
<1> HIDE DEF st
<1>3. ~ InComment /\ stack \in Seq(NoComment) /\ start \in NoComment
  BY DEF Uncommented, EnterYylex, InComment, NoComment, TypeOK, ControlTyped
<1>4. stack' \in Seq(NoComment) /\ start' \in NoComment
  <2>1. CASE ~ cmd["pop"]
    BY <1>1, <2>1 DEF EnterYylex, st
  <2>2. CASE cmd["pop"] /\ st.stack = <<>>
    BY <1>3, <2>2 DEF EnterYylex, st
  <2>3. CASE cmd["pop"] /\ st.stack # <<>>
    BY <1>2, <2>3 DEF EnterYylex, st
  <2>4. QED
    BY <2>1, <2>2, <2>3
<1>5. QED
  BY <1>3, <1>4 DEF InComment, NoComment

-----------------------------------------------------------------------------
(* What a step does to the text: it leaves it alone, drops a lexeme, hands *)
(* one to bison, collects one, puts the buffer back, splits a literal or   *)
(* reads a fused identifier; the tracking goes along, and the comments flex*)
(* is in after it are those of the text.                                   *)

Keeps == /\ UNCHANGED <<src, input, buffer, blank, initTracking, tracking, history>>
         /\ token' = token \/ token'.at = 0
         /\ InComment' <=> InComment

Drops == /\ input # <<>>
         /\ turn = "scan"
         /\ input' = Tail(input)
         /\ eaten' = eaten \cup {Next1.at}
         /\ UNCHANGED <<src, buffer, blank, initTracking, delivered, token>>
         /\ Advance
         /\ turn' = "scan"
         /\ Next1.cls \in Blank \cup {"CB"} \/ InComment
         /\ start = "body_state" => Next1.cls = "CB"
         /\ InComment' <=> IF InComment THEN Next1.cls # "CE" ELSE Next1.cls = "CB"

Hands == /\ input # <<>>
         /\ turn = "scan"
         /\ start \notin {"body_state", "comment_state"}
         /\ input' = Tail(input)
         /\ delivered' = delivered \cup {Next1.at}
         /\ token'.cls = TokenClass(Next1.cls, start)
         /\ token'.at = Next1.at
         /\ token'.line = tracking
         /\ UNCHANGED <<src, buffer, blank, initTracking, eaten>>
         /\ Advance
         /\ turn' = "bison"
         /\ ~ InComment'
         /\ Next1.cls # "CB"

PutsBack == /\ input # <<>>
            /\ turn = "scan"
            /\ start = "body_state"
            /\ Next1.cls \in {"SEMI", "ENDPOU", "ENDBLK"}
            /\ input' = Append(buffer, Next1) \o Tail(input)
            /\ buffer' = <<>>
            /\ blank' = TRUE
            /\ tracking' = IF buffer = <<>> THEN UpdateTracking(tracking, Next1.cls)
                           ELSE initTracking
            /\ start' \in {"st_state", "il_state"}
            /\ turn' = "bison"
            /\ token'.at = 0
            /\ UNCHANGED <<src, stack, history>>

Moves == \/ Keeps \/ Drops \/ Hands \/ PutsBack
         \/ BodyCollect \/ TimeLiteral \/ FusedIdentifier

(* Where flex is after the step, as far as comments go.                    *)
StackKept == stack' \in Seq(NoComment) /\ (turn' \notin {"scan", "end"} => ~ InComment')

LEMMA ReturnHands ==
  ASSUME NEW S, NEW C, Rule(S, C), Return, UNCHANGED <<src, bodyVars>>,
         "body_state" \notin S, "comment_state" \notin S, "CB" \notin C,
         start' # "comment_state"
  PROVE  Hands
  BY DEF Rule, Return, Hands, bodyVars, InComment

LEMMA UnputKeeps ==
  ASSUME NEW S, NEW C, Rule(S, C), UnputText, UNCHANGED <<src, bodyVars>>,
         "comment_state" \notin S, start' # "comment_state"
  PROVE  Keeps
  BY DEF Rule, UnputText, Keeps, bodyVars, InComment

LEMMA ChangesStateMoves ==
  ASSUME TypeOK, Uncommented, ChangesState
  PROVE  (Keeps \/ Hands) /\ StackKept
<1>0. stack \in Seq(NoComment)
  BY DEF Uncommented
<1>1. CASE PouHeader
  BY <1>0, <1>1, ReturnHands DEF PouHeader, Begin, StackKept, InComment
<1>2. CASE ConfHeader
  BY <1>0, <1>2, ReturnHands DEF ConfHeader, Begin, StackKept, InComment
<1>3. CASE HeaderToVarList
  BY <1>0, <1>3, UnputKeeps DEF HeaderToVarList, Begin, StackKept, InComment
<1>4. CASE EnterVarBlock
  <2>1. stack' \in Seq(NoComment)
    BY <1>4, PushUncommented DEF EnterVarBlock, Rule, InComment
  <2>2. QED
    BY <1>4, <2>1, UnputKeeps DEF EnterVarBlock, PushState, StackKept, InComment
<1>5. CASE VarListToInitial
  BY <1>0, <1>5, UnputKeeps DEF VarListToInitial, Begin, StackKept, InComment
<1>6. CASE PragmaBeforeVar
  <2>1. start' # "comment_state" /\ stack' = stack
    BY <1>6 DEF PragmaBeforeVar, Rule
  <2>2. QED
    BY <1>0, <1>6, <2>1, ReturnHands DEF PragmaBeforeVar, StackKept, InComment
<1>7. CASE EnterBody
  <2>1. stack' \in Seq(NoComment)
    BY <1>7, PushUncommented DEF EnterBody, Rule, InComment
  <2>2. QED
    BY <1>7, <2>1, UnputKeeps DEF EnterBody, PushState, StackKept, InComment
<1>8. CASE EndVar
  <2>1. stack' \in Seq(NoComment) /\ start' # "comment_state"
    BY <1>8, PopUncommented DEF EndVar, NoComment
  <2>2. QED
    BY <1>8, <2>1, ReturnHands DEF EndVar, StackKept, InComment
<1>9. CASE LeaveBody
  <2>1. stack' \in Seq(NoComment) /\ start' # "comment_state"
    BY <1>9, PopUncommented DEF LeaveBody, NoComment
  <2>2. Keeps
    BY <1>9, <2>1, UnputKeeps DEF LeaveBody
  <2>3. QED
    BY <2>1, <2>2 DEF StackKept, InComment
<1>10. CASE EndUnit
  <2>1. start' # "comment_state" /\ stack' = stack
    BY <1>10 DEF EndUnit, Begin
  <2>2. Hands
    BY <1>10, <2>1, ReturnHands DEF EndUnit, Inclusive
  <2>3. QED
    BY <1>0, <2>1, <2>2 DEF StackKept, InComment
<1>11. QED
  BY <1>1, <1>2, <1>3, <1>4, <1>5, <1>6, <1>7, <1>8, <1>9, <1>10 DEF ChangesState

LEMMA CollectsBodyMoves ==
  ASSUME TypeOK, Uncommented, CollectsBody
  PROVE  (Keeps \/ PutsBack \/ BodyCollect) /\ StackKept
<1>1. /\ stack' = stack /\ stack \in Seq(NoComment)
      /\ start = "body_state" /\ ~ InComment /\ ~ InComment'
  BY DEF CollectsBody, BodyCollect, BodyIsSfc, BodyIsTransition, BodyIsStByKeyword,
     BodyIsSt, BodyIsIl, BodyMatch, Rule, Begin, Uncommented, InComment
<1>2. Keeps \/ PutsBack \/ BodyCollect
  <2>1. CASE BodyIsSfc
    BY <1>1, <2>1 DEF BodyIsSfc, BodyMatch, UnputText, Keeps, bodyVars
  <2>2. CASE BodyIsTransition
    BY <1>1, <2>2 DEF BodyIsTransition, BodyMatch, UnputText, Keeps, bodyVars
  <2>3. CASE BodyIsStByKeyword
    BY <1>1, <2>3 DEF BodyIsStByKeyword, BodyMatch, ReturnSynthetic, Keeps, bodyVars
  <2>4. CASE BodyIsSt
    BY <2>4 DEF BodyIsSt, BodyMatch, Rule, AppendThenUnputBuffer, ReturnSynthetic, Begin,
       PutsBack
  <2>5. CASE BodyIsIl
    BY <2>5 DEF BodyIsIl, BodyMatch, Rule, AppendThenUnputBuffer, ReturnSynthetic, Begin,
       PutsBack
  <2>6. QED
    BY <2>1, <2>2, <2>3, <2>4, <2>5 DEF CollectsBody
<1>3. QED
  BY <1>1, <1>2 DEF StackKept

LEMMA ReadsTextMoves ==
  ASSUME TypeOK, Uncommented, ReadsText
  PROVE  (Keeps \/ Drops \/ Hands \/ TimeLiteral \/ FusedIdentifier) /\ StackKept
<1>0. stack \in Seq(NoComment)
  BY DEF Uncommented
<1>1. CASE EatBlank
  <2>1. ~ InComment /\ Next1.cls \in Blank /\ start' = start /\ stack' = stack
    BY <1>1 DEF EatBlank, Rule, InComment, Blank
  <2>2. Drops
    BY <1>1, <2>1 DEF EatBlank, Rule, Eat, Drops, bodyVars, InComment, Blank
  <2>3. QED
    BY <1>0, <2>1, <2>2 DEF StackKept, InComment
<1>2. CASE ReturnBlank
  <2>1. start' # "comment_state" /\ stack' = stack
    BY <1>2 DEF ReturnBlank, Rule
  <2>2. Hands
    BY <1>2, <2>1, ReturnHands DEF ReturnBlank
  <2>3. QED
    BY <1>0, <2>1, <2>2 DEF StackKept, InComment
<1>3. CASE GiveUp
  <2>1. ~ InComment /\ start' = start /\ stack' = stack
    BY <1>3 DEF GiveUp, Rule, InComment
  <2>2. QED
    BY <1>0, <1>3, <2>1 DEF GiveUp, Keeps, bodyVars, StackKept, InComment
<1>4. CASE OpenComment
  <2>1. ~ InComment /\ InComment' /\ Next1.cls = "CB" /\ turn' = "scan" /\ turn = "scan"
    BY <1>4 DEF OpenComment, Rule, PushState, InComment, Eat
  <2>2. stack' \in Seq(NoComment)
    BY <1>4, <2>1, PushUncommented DEF OpenComment
  <2>3. Drops
    BY <1>4, <2>1 DEF OpenComment, Rule, Eat, Drops, bodyVars
  <2>4. QED
    BY <2>1, <2>2, <2>3 DEF StackKept
<1>5. CASE CloseComment
  <2>1. stack' \in Seq(NoComment) /\ ~ InComment'
    BY <1>5, PopUncommented DEF CloseComment, NoComment, InComment
  <2>2. InComment /\ Next1.cls = "CE"
    BY <1>5 DEF CloseComment, Rule, InComment
  <2>3. Drops
    BY <1>5, <2>1, <2>2 DEF CloseComment, Rule, Eat, Drops, bodyVars
  <2>4. QED
    BY <2>1, <2>3 DEF StackKept
<1>6. CASE CommentText
  <2>1. InComment /\ InComment' /\ Next1.cls # "CE" /\ stack' = stack /\ turn' = "scan"
    BY <1>6 DEF CommentText, Rule, InComment, Eat
  <2>2. Drops
    BY <1>6, <2>1 DEF CommentText, Rule, Eat, Drops, bodyVars
  <2>3. QED
    BY <1>0, <2>1, <2>2 DEF StackKept
<1>7. CASE TimeLiteral
  <2>1. stack' \in Seq(NoComment) /\ ~ InComment'
    BY <1>7, PushUncommented DEF TimeLiteral, Rule, Inclusive, InComment, PushState
  <2>2. QED
    BY <1>7, <2>1 DEF StackKept
<1>8. CASE TimePart
  <2>1. start' # "comment_state" /\ stack' = stack
    BY <1>8 DEF TimePart, Rule
  <2>2. Hands
    BY <1>8, <2>1, ReturnHands DEF TimePart
  <2>3. QED
    BY <1>0, <2>1, <2>2 DEF StackKept, InComment
<1>9. CASE TimeEnd
  <2>1. stack' \in Seq(NoComment) /\ start' # "comment_state"
    BY <1>9, PopUncommented DEF TimeEnd, NoComment
  <2>2. Hands
    BY <1>9, <2>1, ReturnHands DEF TimeEnd
  <2>3. QED
    BY <2>1, <2>2 DEF StackKept, InComment
<1>10. CASE FusedIdentifier
  <2>1. ~ InComment' /\ stack' = stack
    BY <1>10 DEF FusedIdentifier, Inclusive, InComment
  <2>2. QED
    BY <1>0, <1>10, <2>1 DEF StackKept
<1>11. CASE ReturnToken
  <2>1. /\ start' # "comment_state" /\ stack' = stack /\ Next1.cls # "CB"
        /\ start \notin {"body_state", "comment_state"}
    BY <1>11 DEF ReturnToken, Rule, Inclusive, OwnRules
  <2>2. Hands
    BY <1>11, <2>1 DEF ReturnToken, Rule, Return, Hands, bodyVars, InComment
  <2>3. QED
    BY <1>0, <2>1, <2>2 DEF StackKept, InComment
<1>12. CASE EndOfInput
  BY <1>0, <1>12 DEF EndOfInput, Keeps, bodyVars, StackKept, InComment
<1>13. QED
  BY <1>1, <1>2, <1>3, <1>4, <1>5, <1>6, <1>7, <1>8, <1>9, <1>10, <1>11, <1>12
     DEF ReadsText

LEMMA StepMoves ==
  ASSUME TypeOK, Uncommented, [Next]_vars
  PROVE  Moves /\ Uncommented'
<1>1. CASE EnterYylex
  BY <1>1, EnterUncommented DEF EnterYylex, Keeps, bodyVars, Moves, Uncommented
<1>2. CASE Yyparse
  <2>1. ~ InComment /\ start' = start /\ stack' = stack
    BY <1>2 DEF Yyparse, Uncommented
  <2>2. QED
    BY <1>2, <2>1 DEF Yyparse, Keeps, bodyVars, Moves, Uncommented, InComment
<1>3. CASE UNCHANGED vars
  BY <1>3 DEF vars, lexVars, Keeps, bodyVars, Moves, Uncommented, InComment
<1>4. CASE ChangesState \/ CollectsBody \/ ReadsText
  BY <1>4, ChangesStateMoves, CollectsBodyMoves, ReadsTextMoves
     DEF StackKept, Moves, Uncommented
<1>5. QED
  BY <1>1, <1>2, <1>3, <1>4 DEF Next, Finished, SfcError, Scanner, Yylex

LEMMA WaitingTyped ==
  ASSUME TypeOK
  PROVE  /\ input \in Seq(Items)
         /\ buffer \in Seq(Items)
         /\ \A x \in Waiting : x \in Items
         /\ input # <<>> => Next1 \in Items /\ Next1 \in Waiting /\ Next1 \in Elements(input)
         /\ input # <<>> => Tail(input) \in Seq(Items)
<1>1. input \in Seq(Items) /\ buffer \in Seq(Items)
  BY DEF TypeOK, TextTyped
<1>2. \A x \in Waiting : x \in Items
  BY <1>1, ElementsTyped DEF Waiting
<1>3. ASSUME input # <<>> PROVE Next1 \in Elements(input) /\ Next1 \in Items
  <2>1. 1 \in 1 .. Len(input)
    BY <1>1, <1>3
  <2>2. QED
    BY <1>1, <2>1, ElementsTyped DEF Next1
<1>4. QED
  BY <1>1, <1>2, <1>3, TailTyped DEF Waiting

(* The moves that change the input, by what they make of it.               *)
LEMMA TailRests ==
  ASSUME TypeOK, input # <<>>, input' = Tail(input)
  PROVE  RestOf(input', input, 1)
<1>1. input \in Seq(Items)
  BY WaitingTyped
<1>2. RestOf(Tail(input), input, 1)
  BY <1>1, TailIsRest
<1>3. QED
  BY <1>2

LEMMA PutsBackJoins ==
  ASSUME TypeOK, PutsBack
  PROVE  JoinOf(input', buffer, input)
<1>1. input \in Seq(Items) /\ buffer \in Seq(Items) /\ input # <<>>
  BY WaitingTyped DEF PutsBack
<1>2. input' = Append(buffer, input[1]) \o Tail(input)
  BY DEF PutsBack, Next1
<1> DEFINE t == Append(buffer, input[1]) \o Tail(input)
<1>3. JoinOf(t, buffer, input)
  BY <1>1, AfterPutBack
<1>4. QED
  BY <1>2, <1>3

LEMMA LiteralSplits ==
  ASSUME TypeOK, TimeLiteral
  PROVE  \E x \in Items, y \in Items :
           /\ SplitOf(input', x, y, input)
           /\ x.at = Next1.at /\ x.cls = "TBODY"
           /\ y.at = Next1.at /\ y.cls = "MARK"
<1> DEFINE body == [Next1 EXCEPT !.cls = "TBODY"]
           mark == [Next1 EXCEPT !.cls = "MARK"]
<1>1. input # <<>> /\ input' = <<body, mark>> \o Tail(input)
  BY DEF TimeLiteral, Rule
<1>2. input \in Seq(Items) /\ Next1 \in Items
  BY <1>1, WaitingTyped
<1>3. body \in Items /\ mark \in Items
  BY <1>2 DEF Items, Marked
<1>4. /\ body.at = Next1.at /\ body.cls = "TBODY"
      /\ mark.at = Next1.at /\ mark.cls = "MARK"
  BY <1>2 DEF Items
<1> HIDE DEF body, mark
<1> DEFINE t == <<body, mark>> \o Tail(input)
<1>5. SplitOf(t, body, mark, input)
  BY <1>1, <1>2, <1>3, AfterSplit
<1>6. SplitOf(input', body, mark, input)
  BY <1>1, <1>5
<1>7. QED
  BY <1>3, <1>4, <1>6

LEMMA FusedRests ==
  ASSUME TypeOK, FusedIdentifier
  PROVE  \E k \in 2 .. Len(input) :
           /\ k \in 1 .. Len(input)
           /\ RestOf(input', input, k)
           /\ \A i \in 1 .. k : input[i].cls \in Letters
           /\ delivered' = delivered \cup {input[i].at : i \in 1 .. k}
           /\ token'.cls = "WORD"
<1>1. input \in Seq(Items)
  BY WaitingTyped
<1>2. PICK k \in 2 .. Len(input) :
        /\ \A i \in 1 .. k : input[i].cls \in Letters
        /\ input' = SubSeq(input, k + 1, Len(input))
        /\ token' = [cls |-> "WORD", at |-> Next1.at, size |-> k, line |-> tracking]
        /\ delivered' = delivered \cup {input[i].at : i \in 1 .. k}
  BY DEF FusedIdentifier
<1>3. token'.cls = "WORD"
  BY <1>2
<1>4. k \in 1 .. Len(input)
  BY <1>1, <1>2
<1>5. RestOf(SubSeq(input, k + 1, Len(input)), input, k)
  BY <1>1, <1>4, AfterFused
<1>6. QED
  BY <1>2, <1>3, <1>4, <1>5

LEMMA CollectShape ==
  ASSUME TypeOK, BodyCollect
  PROVE  /\ input # <<>> /\ input' = Tail(input)
         /\ buffer' = Append(buffer, Next1)
         /\ blank' = ((buffer = <<>> \/ blank) /\ Next1.cls \in Blank)
         /\ Next1.cls \notin {"CB", "SEMI", "ENDPOU", "ENDBLK"}
         /\ Next1.cls \in Leading => ~ isempty_bodystate_buffer
         /\ start = "body_state" /\ turn = "scan"
         /\ UNCHANGED <<src, start, stack, turn, token, history>>
  BY DEF BodyCollect, BodyMatch, Rule, append_bodystate_buffer

(* Nothing starts to wait, but for the halves of a literal.                *)
LEMMA WaitingAfter ==
  ASSUME TypeOK, TypeOK', Moves
  PROVE  \A x \in Waiting' : \/ x \in Waiting
                             \/ /\ TimeLiteral
                                /\ x.at = Next1.at
                                /\ x.cls \in {"TBODY", "MARK"}
<1>1. input \in Seq(Items) /\ buffer \in Seq(Items) /\ input' \in Seq(Items)
  BY WaitingTyped DEF TypeOK, TextTyped
<1>2. input # <<>> /\ input' = Tail(input) => Elements(input') \subseteq Elements(input)
  BY <1>1, TailRests, ElementsRest
<1>3. CASE Keeps
  BY <1>3 DEF Keeps, Waiting
<1>4. CASE Drops
  BY <1>2, <1>4 DEF Drops, Waiting
<1>5. CASE Hands
  BY <1>2, <1>5 DEF Hands, Waiting
<1>6. CASE PutsBack
  <2>1. Elements(input') \subseteq Elements(buffer) \cup Elements(input)
    BY <1>1, <1>6, PutsBackJoins, ElementsJoin
  <2>2. Elements(buffer') = {}
    BY <1>6 DEF PutsBack, Elements
  <2>3. QED
    BY <2>1, <2>2 DEF Waiting
<1>7. CASE BodyCollect
  <2>1. Next1 \in Waiting /\ Next1 \in Items
    BY <1>7, CollectShape, WaitingTyped
  <2>2. Elements(buffer') = Elements(buffer) \cup {Next1}
    BY <1>1, <1>7, <2>1, CollectShape, ElementsAppend
  <2>3. Elements(input') \subseteq Elements(input)
    BY <1>2, <1>7, CollectShape
  <2>4. QED
    BY <2>1, <2>2, <2>3 DEF Waiting
<1>8. CASE TimeLiteral
  <2>1. PICK x \in Items, y \in Items :
          /\ SplitOf(input', x, y, input)
          /\ x.at = Next1.at /\ x.cls = "TBODY"
          /\ y.at = Next1.at /\ y.cls = "MARK"
    BY <1>8, LiteralSplits
  <2>2. Elements(input') \subseteq Elements(input) \cup {x, y}
    BY <1>1, <2>1, ElementsSplit
  <2>3. buffer' = buffer
    BY <1>8 DEF TimeLiteral, bodyVars
  <2>4. QED
    BY <1>8, <2>1, <2>2, <2>3 DEF Waiting
<1>9. CASE FusedIdentifier
  <2>1. PICK k \in 2 .. Len(input) : RestOf(input', input, k)
    BY <1>9, FusedRests
  <2>2. k \in Nat
    BY <1>1, <2>1
  <2>3. Elements(input') \subseteq Elements(input)
    BY <1>1, <2>1, <2>2, ElementsRest
  <2>4. QED
    BY <1>9, <2>3 DEF FusedIdentifier, bodyVars, Waiting
<1>10. QED
  BY <1>3, <1>4, <1>5, <1>6, <1>7, <1>8, <1>9 DEF Moves

LEMMA MovesKeepSource ==
  ASSUME Moves
  PROVE  src' = src
  BY DEF Moves, Keeps, Drops, Hands, PutsBack, BodyCollect, BodyMatch, TimeLiteral,
     FusedIdentifier

LEMMA FaithfulKept ==
  ASSUME TypeOK, TypeOK', Moves, Faithful
  PROVE  Faithful'
<1> SUFFICES ASSUME NEW x \in Waiting' PROVE FromText(x)'
  BY DEF Faithful
<1>1. src' = src
  BY MovesKeepSource
<1>2. CASE x \in Waiting
  BY <1>1, <1>2 DEF Faithful, FromText
<1>3. CASE TimeLiteral /\ x.at = Next1.at /\ x.cls \in {"TBODY", "MARK"}
  <2>1. Next1 \in Waiting /\ Next1.cls = "TIME"
    BY <1>3, WaitingTyped DEF TimeLiteral, Rule
  <2>2. Next1.at \in DOMAIN src /\ src[Next1.at] = "TIME"
    BY <2>1 DEF Faithful, FromText
  <2>3. QED
    BY <1>1, <1>3, <2>2 DEF FromText
<1>4. QED
  BY <1>2, <1>3, WaitingAfter

-----------------------------------------------------------------------------
(* Order.                                                                  *)

LEMMA SortedRest ==
  ASSUME NEW s \in Seq(Items), NEW k \in 1 .. Len(s), Sorted(s),
         NEW t \in Seq(Items), RestOf(t, s, k)
  PROVE  /\ Sorted(t)
         /\ \A i \in 1 .. k : \A y \in Elements(t) : Before(s[i], y)
<1>1. /\ Len(t) = Len(s) - k
      /\ \A i \in 1 .. Len(s) - k : t[i] = s[i + k]
      /\ DOMAIN t = 1 .. Len(t) /\ DOMAIN s = 1 .. Len(s)
  BY DEF RestOf
<1>0. Len(s) \in Nat /\ k \in Nat
  OBVIOUS
<1>2. Sorted(t)
  <2> SUFFICES ASSUME NEW i \in 1 .. Len(s) - k, NEW j \in 1 .. Len(s) - k, i < j
               PROVE  Before(t[i], t[j])
    BY <1>1 DEF Sorted
  <2>1. i + k \in 1 .. Len(s) /\ j + k \in 1 .. Len(s) /\ i + k < j + k
    BY <1>0
  <2>2. t[i] = s[i + k] /\ t[j] = s[j + k]
    BY <1>1
  <2>3. QED
    BY <1>1, <2>1, <2>2 DEF Sorted
<1>3. ASSUME NEW i \in 1 .. k, NEW y \in Elements(t) PROVE Before(s[i], y)
  <2>1. PICK j \in 1 .. Len(s) - k : y = t[j]
    BY <1>1, ElementsTyped
  <2>2. i \in 1 .. Len(s) /\ j + k \in 1 .. Len(s) /\ i < j + k
    BY <1>0
  <2>3. y = s[j + k]
    BY <1>1, <2>1
  <2>4. QED
    BY <1>1, <2>2, <2>3 DEF Sorted
<1>4. QED
  BY <1>2, <1>3

LEMMA SortedAppend ==
  ASSUME NEW s \in Seq(Items), NEW e \in Items, Sorted(s),
         \A x \in Elements(s) : Before(x, e)
  PROVE  Sorted(Append(s, e))
<1> DEFINE t == Append(s, e)
<1>1. /\ t \in Seq(Items)
      /\ Len(t) = Len(s) + 1
      /\ \A i \in 1 .. Len(s) : t[i] = s[i]
      /\ t[Len(s) + 1] = e
      /\ Len(s) \in Nat
      /\ DOMAIN t = 1 .. Len(t)
      /\ DOMAIN s = 1 .. Len(s)
  BY AfterAppend
<1> HIDE DEF t
<1>2. Sorted(t)
  <2> SUFFICES ASSUME NEW i \in 1 .. Len(s) + 1, NEW j \in 1 .. Len(s) + 1, i < j
               PROVE  Before(t[i], t[j])
    BY <1>1 DEF Sorted
  <2>1. i \in 1 .. Len(s) /\ t[i] = s[i]
    BY <1>1
  <2>2. CASE j = Len(s) + 1
    <3>1. s[i] \in Elements(s)
      BY <2>1, ElementsTyped
    <3>2. QED
      BY <1>1, <2>1, <2>2, <3>1
  <2>3. CASE j # Len(s) + 1
    <3>1. j \in 1 .. Len(s) /\ t[j] = s[j]
      BY <1>1, <2>3
    <3>2. QED
      BY <1>1, <2>1, <3>1 DEF Sorted
  <2>4. QED
    BY <2>2, <2>3
<1>3. QED
  BY <1>2 DEF t

LEMMA SortedJoin ==
  ASSUME NEW b \in Seq(Items), NEW s \in Seq(Items), NEW t \in Seq(Items), JoinOf(t, b, s),
         Sorted(b), Sorted(s), \A x \in Elements(b), y \in Elements(s) : Before(x, y)
  PROVE  Sorted(t)
<1>1. /\ Len(t) = Len(b) + Len(s)
      /\ \A i \in 1 .. Len(b) : t[i] = b[i]
      /\ \A i \in 1 .. Len(s) : t[Len(b) + i] = s[i]
      /\ Len(b) \in Nat /\ Len(s) \in Nat
      /\ DOMAIN t = 1 .. Len(t) /\ DOMAIN b = 1 .. Len(b) /\ DOMAIN s = 1 .. Len(s)
  BY DEF JoinOf
<1> SUFFICES ASSUME NEW i \in 1 .. Len(t), NEW j \in 1 .. Len(t), i < j
             PROVE  Before(t[i], t[j])
  BY <1>1 DEF Sorted
<1>2. \A n \in 1 .. Len(t) : ~ (n <= Len(b)) =>
        n - Len(b) \in 1 .. Len(s) /\ t[n] = s[n - Len(b)]
  <2> SUFFICES ASSUME NEW n \in 1 .. Len(t), ~ (n <= Len(b))
               PROVE  n - Len(b) \in 1 .. Len(s) /\ t[n] = s[n - Len(b)]
    OBVIOUS
  <2>1. n - Len(b) \in 1 .. Len(s) /\ Len(b) + (n - Len(b)) = n
    BY <1>1
  <2>2. t[Len(b) + (n - Len(b))] = s[n - Len(b)]
    BY <1>1, <2>1
  <2>3. QED
    BY <2>1, <2>2
<1>3. CASE j <= Len(b)
  <2>1. i \in 1 .. Len(b) /\ j \in 1 .. Len(b)
    BY <1>1, <1>3
  <2>2. QED
    BY <1>1, <2>1 DEF Sorted
<1>4. CASE i <= Len(b) /\ ~ (j <= Len(b))
  <2>1. i \in 1 .. Len(b) /\ t[i] = b[i]
    BY <1>1, <1>4
  <2>2. j - Len(b) \in 1 .. Len(s) /\ t[j] = s[j - Len(b)]
    BY <1>2, <1>4
  <2>3. t[i] \in Elements(b) /\ t[j] \in Elements(s)
    BY <2>1, <2>2, ElementsTyped
  <2>4. QED
    BY <2>3
<1>5. CASE ~ (i <= Len(b))
  <2>1. ~ (j <= Len(b))
    BY <1>1, <1>5
  <2>2. /\ i - Len(b) \in 1 .. Len(s) /\ t[i] = s[i - Len(b)]
        /\ j - Len(b) \in 1 .. Len(s) /\ t[j] = s[j - Len(b)]
    BY <1>2, <1>5, <2>1
  <2>3. i - Len(b) < j - Len(b)
    BY <1>1
  <2>4. QED
    BY <1>1, <2>2, <2>3 DEF Sorted
<1>6. QED
  BY <1>3, <1>4, <1>5

LEMMA SortedSplit ==
  ASSUME NEW s \in Seq(Items), NEW x \in Items, NEW y \in Items,
         x.at = s[1].at, y.at = s[1].at, y.cls = "MARK",
         NEW t \in Seq(Items), SplitOf(t, x, y, s), Sorted(s)
  PROVE  Sorted(t)
<1>1. /\ Len(t) = Len(s) + 1
      /\ t[1] = x
      /\ t[2] = y
      /\ \A i \in 2 .. Len(s) : t[i + 1] = s[i]
      /\ Len(s) \in Nat
      /\ DOMAIN t = 1 .. Len(t) /\ DOMAIN s = 1 .. Len(s)
  BY DEF SplitOf
<1> SUFFICES ASSUME NEW i \in 1 .. Len(s) + 1, NEW j \in 1 .. Len(s) + 1, i < j
             PROVE  Before(t[i], t[j])
  BY <1>1 DEF Sorted
<1>2. CASE j = 2
  <2>1. i = 1
    BY <1>2
  <2>2. QED
    BY <1>1, <1>2, <2>1 DEF Before
<1>3. CASE j # 2
  <2>1. j - 1 \in 2 .. Len(s) /\ j - 1 \in 1 .. Len(s) /\ j - 1 + 1 = j /\ 1 \in 1 .. Len(s)
    BY <1>1, <1>3
  <2>2. t[j] = s[j - 1]
    BY <1>1, <2>1
  <2>3. CASE i <= 2
    <3>1. t[i] = x \/ t[i] = y
      <4>1. i = 1 \/ i = 2
        BY <2>3
      <4>2. QED
        BY <1>1, <4>1
    <3>2. Before(s[1], s[j - 1])
      <4>1. 1 < j - 1
        BY <2>1
      <4>2. QED
        BY <1>1, <2>1, <4>1 DEF Sorted
    <3>3. QED
      BY <2>2, <3>1, <3>2 DEF Before
  <2>4. CASE ~ (i <= 2)
    <3>1. i - 1 \in 2 .. Len(s) /\ i - 1 \in 1 .. Len(s) /\ i - 1 + 1 = i /\ i - 1 < j - 1
      BY <1>1, <2>4
    <3>2. t[i] = s[i - 1]
      BY <1>1, <3>1
    <3>3. QED
      BY <1>1, <2>1, <2>2, <3>1, <3>2 DEF Sorted
  <2>5. QED
    BY <2>3, <2>4
<1>4. QED
  BY <1>2, <1>3

LEMMA HeadFirst ==
  ASSUME TypeOK, Ordered, input # <<>>, input' = Tail(input), input' \in Seq(Items)
  PROVE  /\ Sorted(input')
         /\ Elements(input') \subseteq Elements(input)
         /\ \A y \in Elements(input') : Before(Next1, y)
<1>1. /\ input \in Seq(Items)
      /\ RestOf(input', input, 1)
      /\ 1 \in 1 .. Len(input)
      /\ Sorted(input)
  BY WaitingTyped, TailRests DEF Ordered
<1>2. Sorted(input') /\ \A i \in 1 .. 1 : \A y \in Elements(input') : Before(input[i], y)
  BY <1>1, SortedRest
<1>3. Elements(input') \subseteq Elements(input)
  BY <1>1, ElementsRest
<1>4. QED
  BY <1>2, <1>3 DEF Next1

LEMMA OrderedKept ==
  ASSUME TypeOK, TypeOK', Moves, Ordered
  PROVE  Ordered'
<1>1. /\ input \in Seq(Items) /\ buffer \in Seq(Items)
      /\ input' \in Seq(Items) /\ buffer' \in Seq(Items)
  BY WaitingTyped DEF TypeOK, TextTyped
<1>2. /\ Sorted(input) /\ Sorted(buffer)
      /\ \A x \in Elements(buffer), y \in Elements(input) : Before(x, y)
  BY DEF Ordered
<1>3. CASE Keeps
  BY <1>2, <1>3 DEF Keeps, Ordered
<1>4. CASE Drops \/ Hands
  <2>1. input # <<>> /\ input' = Tail(input) /\ buffer' = buffer
    BY <1>4 DEF Drops, Hands
  <2>2. QED
    BY <1>1, <1>2, <2>1, HeadFirst DEF Ordered
<1>5. CASE PutsBack
  <2>1. Sorted(input')
    BY <1>1, <1>2, <1>5, PutsBackJoins, SortedJoin
  <2>2. buffer' = <<>>
    BY <1>5 DEF PutsBack
  <2>3. QED
    BY <2>1, <2>2 DEF Ordered, Elements, Sorted
<1>6. CASE BodyCollect
  <2>1. input # <<>> /\ input' = Tail(input) /\ buffer' = Append(buffer, Next1)
    BY <1>6, CollectShape
  <2>2. Next1 \in Items /\ Next1 \in Elements(input)
    BY <2>1, WaitingTyped
  <2>3. Sorted(buffer')
    BY <1>1, <1>2, <2>1, <2>2, SortedAppend
  <2>4. Elements(buffer') = Elements(buffer) \cup {Next1}
    BY <1>1, <2>1, <2>2, ElementsAppend
  <2>5. QED
    BY <1>1, <1>2, <2>1, <2>3, <2>4, HeadFirst DEF Ordered
<1>7. CASE TimeLiteral
  <2>1. PICK x \in Items, y \in Items :
          /\ SplitOf(input', x, y, input)
          /\ x.at = Next1.at /\ x.cls = "TBODY"
          /\ y.at = Next1.at /\ y.cls = "MARK"
    BY <1>7, LiteralSplits
  <2>2. /\ Next1 = input[1] /\ Next1 \in Items /\ Next1 \in Elements(input)
        /\ Next1.cls = "TIME" /\ buffer' = buffer
    BY <1>7, WaitingTyped DEF TimeLiteral, Rule, bodyVars, Next1
  <2>3. Sorted(input')
    BY <1>1, <1>2, <2>1, <2>2, SortedSplit
  <2>4. Elements(input') \subseteq Elements(input) \cup {x, y}
    BY <1>1, <2>1, ElementsSplit
  <2>5. \A z \in Elements(buffer) : Before(z, x) /\ Before(z, y)
    BY <1>2, <2>1, <2>2 DEF Before
  <2>6. QED
    BY <1>2, <2>2, <2>3, <2>4, <2>5 DEF Ordered
<1>8. CASE FusedIdentifier
  <2>1. PICK k \in 2 .. Len(input) : k \in 1 .. Len(input) /\ RestOf(input', input, k)
    BY <1>8, FusedRests
  <2>2. k \in Nat
    BY <1>1, <2>1
  <2>3. Sorted(input') /\ Elements(input') \subseteq Elements(input)
    BY <1>1, <1>2, <2>1, <2>2, SortedRest, ElementsRest
  <2>4. buffer' = buffer
    BY <1>8 DEF FusedIdentifier, bodyVars
  <2>5. QED
    BY <1>2, <2>3, <2>4 DEF Ordered
<1>9. QED
  BY <1>3, <1>4, <1>5, <1>6, <1>7, <1>8 DEF Moves

(* What bison sees is out of the way of what waits: outside bodies, only   *)
(* blanks wait in the buffer.                                              *)
LEMMA HandedKept ==
  ASSUME TypeOK, TypeOK', Moves, Ordered, Collected, Handed
  PROVE  Handed'
<1>1. input \in Seq(Items) /\ buffer \in Seq(Items) /\ input' \in Seq(Items)
  BY WaitingTyped DEF TypeOK, TextTyped
<1>2. src' = src
  BY MovesKeepSource
<1>3. CASE delivered' = delivered
  <2> SUFFICES ASSUME NEW x \in Waiting' PROVE NotYet(x)'
    BY DEF Handed
  <2>1. CASE x \in Waiting
    BY <1>2, <1>3, <2>1 DEF Handed, NotYet
  <2>2. CASE TimeLiteral /\ x.at = Next1.at /\ x.cls \in {"TBODY", "MARK"}
    <3>1. Next1 \in Waiting /\ Next1.cls = "TIME"
      BY <2>2, WaitingTyped DEF TimeLiteral, Rule
    <3>2. \A d \in delivered : src[d] \in Blank \/ d < Next1.at
      BY <3>1 DEF Handed, NotYet, Blank
    <3>3. QED
      BY <1>2, <1>3, <2>2, <3>2 DEF NotYet
  <2>3. QED
    BY <2>1, <2>2, WaitingAfter
<1>4. CASE Hands
  <2>1. /\ input # <<>> /\ input' = Tail(input) /\ buffer' = buffer
        /\ delivered' = delivered \cup {Next1.at}
        /\ ~ Collecting
    BY <1>4 DEF Hands, Collecting, InComment
  <2>2. AllBlank(buffer)
    BY <2>1 DEF Collected
  <2> SUFFICES ASSUME NEW x \in Waiting' PROVE NotYet(x)'
    BY DEF Handed
  <2>3. CASE x \in Elements(input')
    <3>1. x \in Waiting /\ Before(Next1, x)
      BY <1>1, <2>1, <2>3, HeadFirst DEF Waiting
    <3>2. QED
      BY <1>2, <2>1, <3>1 DEF Handed, NotYet, Before
  <2>4. CASE x \in Elements(buffer')
    BY <2>1, <2>2, <2>4 DEF AllBlank, NotYet
  <2>5. QED
    BY <2>3, <2>4 DEF Waiting
<1>5. CASE FusedIdentifier
  <2>1. PICK k \in 2 .. Len(input) :
           /\ k \in 1 .. Len(input)
           /\ RestOf(input', input, k)
           /\ delivered' = delivered \cup {input[i].at : i \in 1 .. k}
    BY <1>5, FusedRests
  <2>2. k \in Nat /\ Sorted(input)
    BY <1>1, <2>1 DEF Ordered
  <2>3. /\ Elements(input') \subseteq Elements(input)
        /\ \A i \in 1 .. k : \A y \in Elements(input') : Before(input[i], y)
    BY <1>1, <2>1, <2>2, SortedRest, ElementsRest
  <2>4. buffer' = buffer /\ ~ Collecting
    BY <1>5 DEF FusedIdentifier, bodyVars, Collecting, InComment, Inclusive
  <2>5. AllBlank(buffer)
    BY <2>4 DEF Collected
  <2> SUFFICES ASSUME NEW x \in Waiting' PROVE NotYet(x)'
    BY DEF Handed
  <2>6. CASE x \in Elements(input')
    <3>1. NotYet(x) /\ \A i \in 1 .. k : Before(input[i], x)
      BY <2>3, <2>6 DEF Handed, Waiting
    <3>2. QED
      BY <1>2, <2>1, <3>1 DEF NotYet, Before
  <2>7. CASE x \in Elements(buffer')
    BY <2>4, <2>5, <2>7 DEF AllBlank, NotYet
  <2>8. QED
    BY <2>6, <2>7 DEF Waiting
<1>6. Hands \/ FusedIdentifier \/ delivered' = delivered
  BY DEF Moves, Keeps, Drops, PutsBack, BodyCollect, TimeLiteral, history
<1>7. QED
  BY <1>3, <1>4, <1>5, <1>6

-----------------------------------------------------------------------------
(* The buffer of body_state.                                               *)

LEMMA BlankAppend ==
  ASSUME NEW s \in Seq(Items), NEW e \in Items
  PROVE  AllBlank(Append(s, e)) <=> AllBlank(s) /\ e.cls \in Blank
<1>1. Elements(Append(s, e)) = Elements(s) \cup {e}
  BY ElementsAppend
<1>2. QED
  BY <1>1 DEF AllBlank

LEMMA NothingBlank == AllBlank(<<>>)
  BY DEF AllBlank, Elements

(* Who leaves body_state has put the buffer back, or found it blank.       *)
LEMMA CollectedKept ==
  ASSUME TypeOK, Uncommented, Collected, [Next]_vars
  PROVE  Collected'
<1>1. Moves /\ input \in Seq(Items) /\ buffer \in Seq(Items)
  BY StepMoves, WaitingTyped
<1>2. CASE AllBlank(buffer')
  BY <1>2 DEF Collected
<1>3. CASE BodyCollect
  <2>1. /\ input # <<>> /\ start' = "body_state" /\ turn' = "scan"
        /\ buffer' = Append(buffer, Next1)
        /\ blank' = ((buffer = <<>> \/ blank) /\ Next1.cls \in Blank)
    BY <1>3, CollectShape
  <2>2. buffer = <<>> \/ blank => AllBlank(buffer)
    BY DEF Collected, AllBlank, Elements
  <2>3. AllBlank(buffer') <=> AllBlank(buffer) /\ Next1.cls \in Blank
    BY <1>1, <2>1, WaitingTyped, BlankAppend
  <2>4. Collecting'
    BY <2>1 DEF Collecting
  <2>5. QED
    BY <2>1, <2>2, <2>3, <2>4 DEF Collected
<1>4. CASE ~ AllBlank(buffer') /\ ~ BodyCollect
  <2>1. buffer' = buffer /\ blank' = blank
    <3>1. ~ PutsBack
      BY <1>4, NothingBlank DEF PutsBack
    <3>2. QED
      BY <1>1, <1>4, <3>1 DEF Moves, Keeps, Drops, Hands, TimeLiteral, FusedIdentifier,
         bodyVars
  <2>2. ~ AllBlank(buffer) /\ ~ blank /\ Collecting /\ buffer # <<>>
    BY <1>4, <2>1 DEF Collected, AllBlank, Elements
  <2>3. turn \in {"scan", "end"} /\ start \in {"body_state", "comment_state"}
    BY <2>2 DEF Collecting, InComment
  <2>4. UNCHANGED vars \/ OpenComment \/ CloseComment \/ CommentText \/ EndOfInput
    <3>1. ~ EnterYylex /\ ~ Yyparse
      BY <2>3 DEF EnterYylex, Yyparse
    <3>2. ~ ChangesState
      BY <2>3 DEF ChangesState, PouHeader, ConfHeader, HeaderToVarList, EnterVarBlock,
         VarListToInitial, PragmaBeforeVar, EnterBody, EndVar, LeaveBody, EndUnit, Rule,
         Inclusive
    <3>3. ~ CollectsBody
      BY <1>4, <2>2, NothingBlank DEF CollectsBody, BodyIsSfc, BodyIsTransition,
         BodyIsStByKeyword, BodyIsSt, BodyIsIl, isempty_bodystate_buffer,
         AppendThenUnputBuffer
    <3>4. ~ EatBlank /\ ~ ReturnBlank /\ ~ GiveUp /\ ~ TimeLiteral /\ ~ TimePart
          /\ ~ TimeEnd /\ ~ FusedIdentifier /\ ~ ReturnToken
      BY <2>3 DEF EatBlank, ReturnBlank, GiveUp, TimeLiteral, TimePart, TimeEnd,
         FusedIdentifier, ReturnToken, Rule, Inclusive
    <3>5. QED
      BY <3>1, <3>2, <3>3, <3>4 DEF Next, Finished, SfcError, Scanner, Yylex, ReadsText
  <2>5. Collecting'
    <3>1. CASE UNCHANGED vars
      BY <2>2, <3>1 DEF vars, lexVars, Collecting, InComment
    <3>2. CASE OpenComment
      <4>1. start = "body_state" /\ stack' = Append(stack, start) /\ InComment' /\ turn' = "scan"
        BY <2>3, <3>2 DEF OpenComment, Rule, PushState, InComment, Eat
      <4>2. stack' # <<>> /\ stack'[Len(stack')] = start
        BY <4>1, AppendProperties DEF TypeOK, ControlTyped
      <4>3. QED
        BY <4>1, <4>2 DEF Collecting
    <3>3. CASE CloseComment
      BY <2>2, <3>3 DEF CloseComment, Rule, PopState, Eat, Collecting, InComment
    <3>4. CASE CommentText
      BY <2>2, <3>4 DEF CommentText, Eat, Collecting, InComment
    <3>5. CASE EndOfInput
      BY <2>2, <3>5 DEF EndOfInput, Collecting, InComment
    <3>6. QED
      BY <2>4, <3>1, <3>2, <3>3, <3>4, <3>5
  <2>6. QED
    BY <2>1, <2>2, <2>5 DEF Collected
<1>5. QED
  BY <1>2, <1>3, <1>4

(* A body is undecided as long as it is collected.                         *)
LEMMA UndecidedKept ==
  ASSUME TypeOK, Moves, Collected, Undecided
  PROVE  Undecided'
<1>1. buffer \in Seq(Items)
  BY WaitingTyped
<1>2. CASE buffer' = buffer /\ blank' = blank
  BY <1>2 DEF Undecided
<1>3. CASE buffer' = <<>>
  BY <1>3 DEF Undecided, Elements
<1>4. CASE BodyCollect
  <2>1. /\ input # <<>>
        /\ buffer' = Append(buffer, Next1)
        /\ blank' = ((buffer = <<>> \/ blank) /\ Next1.cls \in Blank)
        /\ Next1.cls \notin {"SEMI", "ENDPOU", "ENDBLK"}
        /\ Next1.cls \in Leading => ~ isempty_bodystate_buffer
    BY <1>4, CollectShape
  <2>2. Next1 \in Items
    BY <2>1, WaitingTyped
  <2>3. ~ isempty_bodystate_buffer => ~ AllBlank(buffer)
    BY DEF Undecided, isempty_bodystate_buffer
  <2>4. Elements(buffer') = Elements(buffer) \cup {Next1}
    BY <1>1, <2>1, <2>2, ElementsAppend
  <2>5. /\ Len(buffer') = Len(buffer) + 1 /\ Len(buffer) \in Nat
        /\ \A i \in 1 .. Len(buffer) : buffer'[i] = buffer[i]
        /\ buffer'[Len(buffer) + 1] = Next1
        /\ DOMAIN buffer = 1 .. Len(buffer) /\ DOMAIN buffer' = 1 .. Len(buffer')
    BY <1>1, <2>1, <2>2, AppendProperties
  <2>6. ~ blank' => ~ AllBlank(buffer')
    BY <1>1, <2>1, <2>2, <2>3, BlankAppend DEF isempty_bodystate_buffer
  <2>7. \A x \in Elements(buffer') : x.cls \notin {"SEMI", "ENDPOU", "ENDBLK"}
    BY <2>1, <2>4 DEF Undecided
  <2>8. ASSUME NEW i \in DOMAIN buffer', buffer'[i].cls \in Leading
        PROVE  \E j \in 1 .. i - 1 : buffer'[j].cls \notin Blank
    <3>1. CASE i = Len(buffer) + 1
      <4>1. PICK x \in Elements(buffer) : x.cls \notin Blank
        BY <2>1, <2>3, <2>5, <2>8, <3>1 DEF AllBlank
      <4>2. PICK j \in 1 .. Len(buffer) : x = buffer[j]
        BY <1>1, <4>1, ElementsTyped
      <4>3. j \in 1 .. i - 1 /\ buffer'[j] = x
        BY <2>5, <3>1, <4>2
      <4>4. QED
        BY <4>1, <4>3
    <3>2. CASE i # Len(buffer) + 1
      <4>1. i \in 1 .. Len(buffer) /\ buffer'[i] = buffer[i]
        BY <2>5, <3>2
      <4>2. PICK j \in 1 .. i - 1 : buffer[j].cls \notin Blank
        BY <2>5, <2>8, <4>1 DEF Undecided
      <4>3. buffer'[j] = buffer[j]
        BY <2>5, <4>1
      <4>4. QED
        BY <4>2, <4>3
    <3>3. QED
      BY <3>1, <3>2
  <2>9. QED
    BY <2>6, <2>7, <2>8 DEF Undecided
<1>5. QED
  BY <1>2, <1>3, <1>4 DEF Moves, Keeps, Drops, Hands, PutsBack, TimeLiteral, FusedIdentifier,
     bodyVars

-----------------------------------------------------------------------------
(* Flex is in a comment exactly where the text has one.                    *)

(* Where no comment opens, none is open.                                   *)
LEMMA NoneOpens ==
  ASSUME NEW text \in Seq(Lexeme), NEW m \in 0 .. Len(text), NEW n \in m .. Len(text),
         ~ CommentOpen(text)[m], \A k \in m + 1 .. n : text[k] # "CB"
  PROVE  ~ CommentOpen(text)[n]
<1> DEFINE c == CommentOpen(text)
           N == Len(text)
<1>1. /\ N \in Nat
      /\ \A k \in 1 .. N : c[k] = IF c[k - 1] THEN text[k] # "CE" ELSE text[k] = "CB"
  BY CommentOpenIs
<1> HIDE DEF c, N
<1> DEFINE Open == {k \in m .. n : c[k]}
<1>2. ASSUME Open # {} PROVE FALSE
  <2>1. Open \in SUBSET Nat
    OBVIOUS
  <2>2. PICK k \in Open : \A j \in Open : k <= j
    BY <1>2, <2>1, Smallest
  <2>3. k \in m .. n /\ c[k] /\ k # m /\ m \in Nat /\ n <= N /\ n \in Nat
    BY DEF c, N
  <2>4. k \in m + 1 .. n /\ k \in 1 .. N /\ k - 1 \in m .. n /\ ~ (k <= k - 1)
    BY <1>1, <2>3
  <2>5. ~ c[k - 1]
    BY <2>2, <2>4
  <2>6. text[k] = "CB"
    BY <1>1, <2>3, <2>4, <2>5
  <2>7. QED
    BY <2>4, <2>6
<1>3. n \in m .. n
  BY <1>1
<1>4. QED
  BY <1>2, <1>3 DEF c

LEMMA OutsideNext ==
  ASSUME NEW text \in Seq(Lexeme), NEW n \in 1 .. Len(text),
         ~ CommentOpen(text)[n - 1], text[n] # "CB"
  PROVE  Outside(text, n)
  BY CommentOpenIs DEF Outside

LEMMA NoneOutsideOpens ==
  ASSUME NEW text \in Seq(Lexeme), NEW n \in 1 .. Len(text), Outside(text, n)
  PROVE  text[n] # "CB"
  BY CommentOpenIs DEF Outside

(* The first item, if it opens no comment, may count as put back.          *)
LEMMA CountFirst ==
  ASSUME NEW text \in Seq(Lexeme), NEW s \in Seq(Items), s # <<>>,
         ReadUpTo(text, s, FALSE, 0), s[1].cls # "CB"
  PROVE  ReadUpTo(text, s, FALSE, 1)
<1> DEFINE c == CommentOpen(text)
           N == Len(text)
           L == Len(s)
<1>1. /\ L \in Nat \ {0} /\ N \in Nat
      /\ L <= N
      /\ \A i \in 1 .. L : s[i] = Item(text, i + N - L)
      /\ ~ c[N - L]
  BY DEF ReadUpTo
<1> HIDE DEF c, N, L
<1> DEFINE n == N - L + 1
<1>2. n \in 1 .. N /\ n - 1 = N - L /\ 1 + N - L = n /\ 1 \in 1 .. L
  BY <1>1
<1>3. s[1] = Item(text, n)
  BY <1>1, <1>2
<1> HIDE DEF n
<1>4. s[1].at = n /\ text[n] # "CB"
  BY <1>3 DEF Item
<1>5. Outside(text, n)
  BY <1>2, <1>4, OutsideNext, <1>1 DEF c, N
<1>6. ~ c[n]
  BY <1>5 DEF Outside, c
<1>7. N - (L - 1) = n /\ L - 1 <= N
  BY <1>1 DEF n
<1>8. \A i \in 1 + 1 .. L : s[i] = Item(text, i + N - L)
  BY <1>1
<1>9. \A i \in 1 .. 1 : Outside(text, s[i].at)
  BY <1>4, <1>5
<1>10. QED
  BY <1>6, <1>7, <1>8, <1>9 DEF ReadUpTo, c, N, L

(* Reading a few items that open no comment.                               *)
LEMMA ReadPlain ==
  ASSUME NEW text \in Seq(Lexeme), NEW s \in Seq(Items), NEW t \in Seq(Items),
         NEW k \in 1 .. Len(s), RestOf(t, s, k), \A i \in 1 .. k : s[i].cls # "CB",
         NEW p \in 0 .. Len(s), ReadUpTo(text, s, FALSE, p)
  PROVE  \E q \in 0 .. Len(t) : ReadUpTo(text, t, FALSE, q)
<1> DEFINE c == CommentOpen(text)
           N == Len(text)
           L == Len(s)
<1>1. /\ L \in Nat /\ N \in Nat /\ p \in Nat /\ p <= L /\ k \in Nat /\ k >= 1 /\ k <= L
      /\ L - p <= N
      /\ Len(t) = L - k
  BY DEF ReadUpTo, RestOf
<1>2. /\ \A i \in p + 1 .. L : s[i] = Item(text, i + N - L)
      /\ \A i \in 1 .. p : Outside(text, s[i].at)
      /\ \A i \in 1 .. L - k : t[i] = s[i + k]
      /\ ~ c[N - (L - p)]
  BY DEF ReadUpTo, RestOf
<1> HIDE DEF c, N, L
<1>3. CASE k <= p
  <2> DEFINE q == p - k
  <2>1. q \in 0 .. Len(t) /\ Len(t) - q = L - p
    BY <1>1, <1>3
  <2>2. ASSUME NEW i \in q + 1 .. Len(t) PROVE t[i] = Item(text, i + N - Len(t))
    <3>1. i \in 1 .. L - k /\ i + k \in p + 1 .. L /\ (i + k) + N - L = i + N - Len(t)
      BY <1>1, <1>3
    <3>2. t[i] = s[i + k]
      BY <1>2, <3>1
    <3>3. s[i + k] = Item(text, (i + k) + N - L)
      BY <1>2, <3>1
    <3>4. QED
      BY <3>1, <3>2, <3>3
  <2>3. ASSUME NEW i \in 1 .. q PROVE Outside(text, t[i].at)
    <3>1. i \in 1 .. L - k /\ i + k \in 1 .. p
      BY <1>1, <1>3
    <3>2. QED
      BY <1>2, <3>1
  <2>4. ~ c[N - (Len(t) - q)] /\ Len(t) - q <= N
    BY <1>1, <1>2, <2>1
  <2> HIDE DEF q
  <2>5. ReadUpTo(text, t, FALSE, q)
    BY <2>2, <2>3, <2>4 DEF ReadUpTo, c, N
  <2>6. QED
    BY <2>1, <2>5
<1>4. CASE ~ (k <= p)
  <2>1. 0 \in 0 .. Len(t) /\ Len(t) - 0 = L - k /\ L - k <= N
    BY <1>1, <1>4
  <2>2. ASSUME NEW i \in 0 + 1 .. Len(t) PROVE t[i] = Item(text, i + N - Len(t))
    <3>1. i \in 1 .. L - k /\ i + k \in p + 1 .. L /\ (i + k) + N - L = i + N - Len(t)
      BY <1>1, <1>4
    <3>2. t[i] = s[i + k]
      BY <1>2, <3>1
    <3>3. s[i + k] = Item(text, (i + k) + N - L)
      BY <1>2, <3>1
    <3>4. QED
      BY <3>1, <3>2, <3>3
  <2> DEFINE m == N - (L - p)
             n == N - (L - k)
  <2>3. m \in 0 .. N /\ n \in m .. N /\ n \in Int /\ m \in Int
    BY <1>1, <1>4
  <2>4. ASSUME NEW j \in m + 1 .. n PROVE text[j] # "CB"
    <3>1. /\ j - (N - L) \in p + 1 .. L /\ j - (N - L) \in 1 .. k
          /\ (j - (N - L)) + N - L = j
      BY <1>1, <1>4
    <3>2. s[j - (N - L)] = Item(text, j)
      BY <1>2, <3>1
    <3>3. QED
      BY <3>1, <3>2 DEF Item
  <2>5. ~ c[m]
    BY <1>2
  <2> HIDE DEF m, n
  <2>6. ~ c[n]
    BY <2>3, <2>4, <2>5, NoneOpens DEF c, N
  <2>7. ~ c[N - (Len(t) - 0)]
    BY <2>1, <2>6 DEF n
  <2>8. \A i \in 1 .. 0 : Outside(text, t[i].at)
    OBVIOUS
  <2>9. ReadUpTo(text, t, FALSE, 0)
    BY <2>1, <2>2, <2>7, <2>8 DEF ReadUpTo, c, N
  <2>10. QED
    BY <2>1, <2>9
<1>5. QED
  BY <1>3, <1>4

(* Reading one item of the text itself, in a comment or opening one.       *)
Toggles(open, opens, c) == opens <=> IF open THEN c # "CE" ELSE c = "CB"

LEMMA ReadFresh ==
  ASSUME NEW text \in Seq(Lexeme), NEW s \in Seq(Items), NEW t \in Seq(Items), s # <<>>,
         RestOf(t, s, 1), NEW b \in BOOLEAN, NEW d \in BOOLEAN, ReadUpTo(text, s, b, 0),
         Toggles(b, d, s[1].cls)
  PROVE  ReadUpTo(text, t, d, 0)
<1> DEFINE c == CommentOpen(text)
           N == Len(text)
           L == Len(s)
<1>1. /\ L \in Nat \ {0} /\ N \in Nat
      /\ L <= N
      /\ Len(t) = L - 1
  BY DEF ReadUpTo, RestOf
<1>2. /\ \A i \in 1 .. L : s[i] = Item(text, i + N - L)
      /\ \A i \in 1 .. L - 1 : t[i] = s[i + 1]
      /\ b <=> c[N - L]
      /\ \A i \in 1 .. N : c[i] = IF c[i - 1] THEN text[i] # "CE" ELSE text[i] = "CB"
  BY <1>1, CommentOpenIs DEF ReadUpTo, RestOf
<1> HIDE DEF c, N, L
<1> DEFINE n == N - L + 1
<1>3. n \in 1 .. N /\ n - 1 = N - L /\ 1 + N - L = n /\ 1 \in 1 .. L /\ N - (Len(t) - 0) = n
  BY <1>1
<1>4. s[1] = Item(text, n)
  BY <1>2, <1>3
<1> HIDE DEF n
<1>5. s[1].cls = text[n]
  BY <1>4 DEF Item
<1>6. d <=> c[n]
  <2>1. c[n] = IF c[n - 1] THEN text[n] # "CE" ELSE text[n] = "CB"
    BY <1>2, <1>3
  <2>2. b <=> c[n - 1]
    BY <1>2, <1>3
  <2>3. QED
    BY <1>5, <2>1, <2>2 DEF Toggles
<1>7. ASSUME NEW i \in 0 + 1 .. Len(t) PROVE t[i] = Item(text, i + N - Len(t))
  <2>1. i \in 1 .. L - 1 /\ i + 1 \in 1 .. L /\ (i + 1) + N - L = i + N - Len(t)
    BY <1>1
  <2>2. t[i] = s[i + 1]
    BY <1>2, <2>1
  <2>3. s[i + 1] = Item(text, (i + 1) + N - L)
    BY <1>2, <2>1
  <2>4. QED
    BY <2>1, <2>2, <2>3
<1>8. Len(t) - 0 <= N /\ \A i \in 1 .. 0 : Outside(text, t[i].at)
  BY <1>1
<1>9. QED
  BY <1>3, <1>6, <1>7, <1>8 DEF ReadUpTo, c, N

(* Putting back what is in no comment.                                     *)
LEMMA ReadJoin ==
  ASSUME NEW text \in Seq(Lexeme), NEW b \in Seq(Items), NEW s \in Seq(Items),
         NEW t \in Seq(Items), JoinOf(t, b, s),
         \A x \in Elements(b) : Outside(text, x.at),
         NEW p \in 0 .. Len(s), ReadUpTo(text, s, FALSE, p)
  PROVE  \E q \in 0 .. Len(t) : ReadUpTo(text, t, FALSE, q)
<1> DEFINE c == CommentOpen(text)
           N == Len(text)
           L == Len(s)
           B == Len(b)
           q == B + p
<1>1. L \in Nat /\ N \in Nat /\ B \in Nat /\ p \in Nat /\ p <= L /\ Len(t) = B + L
  BY DEF JoinOf
<1>2. /\ L - p <= N
      /\ \A i \in p + 1 .. L : s[i] = Item(text, i + N - L)
      /\ \A i \in 1 .. p : Outside(text, s[i].at)
      /\ ~ c[N - (L - p)]
      /\ \A i \in 1 .. B : t[i] = b[i]
      /\ \A i \in 1 .. L : t[B + i] = s[i]
  BY DEF ReadUpTo, JoinOf
<1>3. \A i \in 1 .. B : Outside(text, b[i].at)
  BY ElementsTyped
<1> HIDE DEF c, N, L, B
<1>4. q \in 0 .. Len(t) /\ Len(t) - q = L - p
  BY <1>1
<1>5. ASSUME NEW i \in q + 1 .. Len(t) PROVE t[i] = Item(text, i + N - Len(t))
  <2> DEFINE j == i - B
  <2>1. j \in p + 1 .. L /\ j \in 1 .. L /\ B + j = i /\ j + N - L = i + N - Len(t)
    BY <1>1
  <2> HIDE DEF j
  <2>2. t[B + j] = s[j] /\ s[j] = Item(text, j + N - L)
    BY <1>2, <2>1
  <2>3. QED
    BY <2>1, <2>2
<1>6. ASSUME NEW i \in 1 .. q PROVE Outside(text, t[i].at)
  <2>1. CASE i <= B
    <3>1. i \in 1 .. B
      BY <1>1, <2>1
    <3>2. QED
      BY <1>2, <1>3, <3>1
  <2>2. CASE ~ (i <= B)
    <3> DEFINE j == i - B
    <3>1. j \in 1 .. p /\ j \in 1 .. L /\ B + j = i
      BY <1>1, <2>2
    <3> HIDE DEF j
    <3>2. t[B + j] = s[j] /\ Outside(text, s[j].at)
      BY <1>2, <3>1
    <3>3. QED
      BY <3>1, <3>2
  <2>3. QED
    BY <2>1, <2>2
<1> HIDE DEF q
<1>7. ~ c[N - (Len(t) - q)] /\ Len(t) - q <= N
  BY <1>2, <1>4
<1>8. ReadUpTo(text, t, FALSE, q)
  BY <1>5, <1>6, <1>7 DEF ReadUpTo, c, N
<1>9. QED
  BY <1>4, <1>8

(* Putting the first item back in two halves.                              *)
LEMMA ReadSplit ==
  ASSUME NEW text \in Seq(Lexeme), NEW s \in Seq(Items), NEW t \in Seq(Items),
         NEW x \in Items, NEW y \in Items, x.at = s[1].at, y.at = s[1].at,
         SplitOf(t, x, y, s), NEW p \in 1 .. Len(s), ReadUpTo(text, s, FALSE, p)
  PROVE  \E q \in 0 .. Len(t) : ReadUpTo(text, t, FALSE, q)
<1> DEFINE c == CommentOpen(text)
           N == Len(text)
           L == Len(s)
           q == p + 1
<1>1. /\ L \in Nat /\ N \in Nat /\ p \in Nat /\ 1 <= p /\ p <= L /\ Len(t) = L + 1
      /\ L - p <= N
  BY DEF SplitOf, ReadUpTo
<1>2. /\ \A i \in p + 1 .. L : s[i] = Item(text, i + N - L)
      /\ \A i \in 1 .. p : Outside(text, s[i].at)
      /\ ~ c[N - (L - p)]
      /\ t[1] = x
      /\ t[2] = y
      /\ \A i \in 2 .. L : t[i + 1] = s[i]
  BY DEF ReadUpTo, SplitOf
<1> HIDE DEF c, N, L
<1>3. q \in 0 .. Len(t) /\ Len(t) - q = L - p
  BY <1>1
<1>4. ASSUME NEW i \in q + 1 .. Len(t) PROVE t[i] = Item(text, i + N - Len(t))
  <2> DEFINE j == i - 1
  <2>1. j \in p + 1 .. L /\ j \in 2 .. L /\ j + 1 = i /\ j + N - L = i + N - Len(t)
    BY <1>1
  <2> HIDE DEF j
  <2>2. t[j + 1] = s[j] /\ s[j] = Item(text, j + N - L)
    BY <1>2, <2>1
  <2>3. QED
    BY <2>1, <2>2
<1>5. ASSUME NEW i \in 1 .. q PROVE Outside(text, t[i].at)
  <2>1. CASE i \in {1, 2}
    <3>1. 1 \in 1 .. p
      BY <1>1
    <3>2. Outside(text, s[1].at)
      BY <1>2, <3>1
    <3>3. QED
      BY <1>2, <2>1, <3>2
  <2>2. CASE i \notin {1, 2}
    <3> DEFINE j == i - 1
    <3>1. j \in 1 .. p /\ j \in 2 .. L /\ j + 1 = i
      BY <1>1, <2>2
    <3> HIDE DEF j
    <3>2. t[j + 1] = s[j] /\ Outside(text, s[j].at)
      BY <1>2, <3>1
    <3>3. QED
      BY <3>1, <3>2
  <2>3. QED
    BY <2>1, <2>2
<1> HIDE DEF q
<1>6. ~ c[N - (Len(t) - q)] /\ Len(t) - q <= N
  BY <1>1, <1>2, <1>3
<1>7. ReadUpTo(text, t, FALSE, q)
  BY <1>4, <1>5, <1>6 DEF ReadUpTo, c, N
<1>8. QED
  BY <1>3, <1>7

(* Outside a comment, what flex reads next is outside one, unless it opens *)
(* one.                                                                    *)
LEMMA PlainNext ==
  ASSUME TypeOK, Reading, ~ InComment, input # <<>>, Next1.cls # "CB"
  PROVE  /\ \E p \in 1 .. Len(input) : ReadUpTo(src, input, FALSE, p)
         /\ Outside(src, Next1.at)
<1>1. src \in Seq(Lexeme) /\ input \in Seq(Items) /\ Len(input) \in Nat \ {0}
  BY WaitingTyped DEF TypeOK, TextTyped
<1>2. PICK p \in 0 .. Len(input) : ReadUpTo(src, input, FALSE, p)
  BY DEF Reading, ReadUpTo
<1>3. \E q \in 1 .. Len(input) : ReadUpTo(src, input, FALSE, q)
  <2>1. CASE p = 0
    <3>1. ReadUpTo(src, input, FALSE, 1)
      BY <1>1, <1>2, <2>1, CountFirst DEF Next1
    <3>2. 1 \in 1 .. Len(input)
      BY <1>1
    <3>3. QED
      BY <3>1, <3>2, Zenon
  <2>2. CASE p # 0
    <3>1. p \in 1 .. Len(input)
      BY <1>1, <2>2
    <3>2. QED
      BY <1>2, <3>1, Zenon
  <2>3. QED
    BY <2>1, <2>2
<1>4. PICK q \in 1 .. Len(input) : ReadUpTo(src, input, FALSE, q)
  BY <1>3
<1>5. 1 \in 1 .. q
  BY <1>1
<1>6. Outside(src, Next1.at)
  BY <1>4, <1>5 DEF ReadUpTo, Next1
<1>7. QED
  BY <1>3, <1>6

(* In a comment, or where one opens, flex reads the text itself.           *)
LEMMA FreshNext ==
  ASSUME TypeOK, Faithful, Reading, input # <<>>, InComment \/ Next1.cls = "CB"
  PROVE  ReadUpTo(src, input, InComment, 0)
<1>1. src \in Seq(Lexeme) /\ input \in Seq(Items) /\ Len(input) \in Nat \ {0}
  BY WaitingTyped DEF TypeOK, TextTyped
<1>2. PICK p \in 0 .. Len(input) : ReadUpTo(src, input, InComment, p)
  BY DEF Reading
<1>3. CASE InComment
  BY <1>2, <1>3 DEF ReadUpTo
<1>4. CASE Next1.cls = "CB"
  <2>1. Next1.at \in 1 .. Len(src) /\ src[Next1.at] = "CB"
    BY <1>1, <1>4, WaitingTyped DEF Faithful, FromText
  <2>2. ~ Outside(src, Next1.at)
    BY <1>1, <2>1, NoneOutsideOpens
  <2>3. ~ (1 <= p)
    <3>1. 1 <= p => 1 \in 1 .. p
      OBVIOUS
    <3>2. QED
      BY <1>2, <2>2, <3>1 DEF ReadUpTo, Next1
  <2>4. p = 0
    BY <1>1, <2>3
  <2>5. QED
    BY <1>2, <2>4
<1>5. QED
  BY <1>3, <1>4

LEMMA ReadingKept ==
  ASSUME TypeOK, TypeOK', Moves, Faithful, Reading
  PROVE  Reading'
<1>1. /\ src \in Seq(Lexeme) /\ input \in Seq(Items) /\ input' \in Seq(Items)
      /\ buffer \in Seq(Items)
  BY WaitingTyped DEF TypeOK, TextTyped
<1>2. src' = src /\ \A x \in Elements(buffer) : Outside(src, x.at)
  BY MovesKeepSource DEF Reading
<1>3. CASE Keeps
  BY <1>3 DEF Keeps, Reading, ReadUpTo, Item, Outside
<1>4. ASSUME ~ InComment', \E q \in 0 .. Len(input') : ReadUpTo(src, input', FALSE, q),
             \A x \in Elements(buffer') : Outside(src, x.at)
      PROVE  Reading'
  <2>1. PICK q \in 0 .. Len(input') : ReadUpTo(src, input', FALSE, q)
    BY <1>4
  <2>2. InComment' = FALSE
    BY <1>4 DEF InComment
  <2>3. ReadUpTo(src, input', InComment', q)
    BY <2>1, <2>2
  <2>4. QED
    BY <1>2, <1>4, <2>1, <2>3 DEF Reading
<1>5. ASSUME ~ InComment, NEW k \in 1 .. Len(input), RestOf(input', input, k),
             \A i \in 1 .. k : input[i].cls # "CB"
      PROVE  \E q \in 0 .. Len(input') : ReadUpTo(src, input', FALSE, q)
  <2>1. PICK p \in 0 .. Len(input) : ReadUpTo(src, input, FALSE, p)
    BY <1>5 DEF Reading, ReadUpTo
  <2>2. QED
    BY <1>1, <1>5, <2>1, ReadPlain
<1>6. ASSUME ~ InComment, input # <<>>, input' = Tail(input), Next1.cls # "CB"
      PROVE  \E q \in 0 .. Len(input') : ReadUpTo(src, input', FALSE, q)
  <2>1. 1 \in 1 .. Len(input) /\ RestOf(input', input, 1)
    BY <1>1, <1>6, TailRests
  <2>2. \A i \in 1 .. 1 : input[i].cls # "CB"
    BY <1>6 DEF Next1
  <2>3. QED
    BY <1>5, <1>6, <2>1, <2>2
<1>7. CASE Drops
  <2>1. input # <<>> /\ input' = Tail(input) /\ buffer' = buffer
    BY <1>7 DEF Drops
  <2>2. CASE InComment \/ Next1.cls = "CB"
    <3>1. ReadUpTo(src, input, InComment, 0)
      BY <2>1, <2>2, FreshNext
    <3>2. RestOf(input', input, 1)
      BY <2>1, TailRests
    <3>3. InComment \in BOOLEAN /\ InComment' \in BOOLEAN
      BY DEF InComment
    <3>4. Toggles(InComment, InComment', input[1].cls)
      BY <1>7 DEF Drops, Next1, Toggles
    <3>5. ReadUpTo(src, input', InComment', 0)
      <4>1. input # <<>>
        BY <2>1
      <4>2. QED
        BY <1>1, <3>1, <3>2, <3>3, <3>4, <4>1, ReadFresh
    <3>6. 0 \in 0 .. Len(input')
      BY <1>1
    <3>7. QED
      BY <1>2, <2>1, <3>5, <3>6 DEF Reading
  <2>3. CASE ~ InComment /\ Next1.cls # "CB"
    <3>1. ~ InComment'
      BY <1>7, <2>3 DEF Drops
    <3>2. QED
      BY <1>2, <1>4, <1>6, <2>1, <2>3, <3>1
  <2>4. QED
    BY <2>2, <2>3
<1>8. CASE Hands
  <2>1. /\ input # <<>> /\ input' = Tail(input) /\ buffer' = buffer
        /\ ~ InComment /\ ~ InComment' /\ Next1.cls # "CB"
    BY <1>8 DEF Hands, InComment
  <2>2. QED
    BY <1>2, <1>4, <1>6, <2>1
<1>9. CASE PutsBack
  <2>1. ~ InComment /\ ~ InComment' /\ buffer' = <<>>
    BY <1>9 DEF PutsBack, InComment
  <2>2. PICK p \in 0 .. Len(input) : ReadUpTo(src, input, FALSE, p)
    BY <2>1 DEF Reading, ReadUpTo
  <2>3. \E q \in 0 .. Len(input') : ReadUpTo(src, input', FALSE, q)
    BY <1>1, <1>2, <1>9, <2>2, PutsBackJoins, ReadJoin
  <2>4. \A x \in Elements(buffer') : Outside(src, x.at)
    BY <2>1 DEF Elements
  <2>5. QED
    BY <1>4, <2>1, <2>3, <2>4
<1>10. CASE BodyCollect
  <2>1. /\ input # <<>> /\ input' = Tail(input) /\ buffer' = Append(buffer, Next1)
        /\ ~ InComment /\ ~ InComment' /\ Next1.cls # "CB"
    BY <1>10, CollectShape DEF InComment
  <2>2. Outside(src, Next1.at) /\ Next1 \in Items
    BY <2>1, PlainNext, WaitingTyped
  <2>3. Elements(buffer') = Elements(buffer) \cup {Next1}
    BY <1>1, <2>1, <2>2, ElementsAppend
  <2>4. QED
    BY <1>2, <1>4, <1>6, <2>1, <2>2, <2>3
<1>11. CASE TimeLiteral
  <2>1. /\ input # <<>> /\ buffer' = buffer /\ Next1.cls = "TIME"
        /\ ~ InComment /\ ~ InComment' /\ Next1 = input[1]
    BY <1>11 DEF TimeLiteral, Rule, Inclusive, bodyVars, PushState, InComment, Next1
  <2>2. PICK p \in 1 .. Len(input) : ReadUpTo(src, input, FALSE, p)
    BY <2>1, PlainNext
  <2>3. PICK x \in Items, y \in Items :
          /\ SplitOf(input', x, y, input)
          /\ x.at = Next1.at /\ x.cls = "TBODY"
          /\ y.at = Next1.at /\ y.cls = "MARK"
    BY <1>11, LiteralSplits
  <2>4. \E q \in 0 .. Len(input') : ReadUpTo(src, input', FALSE, q)
    BY <1>1, <2>1, <2>2, <2>3, ReadSplit
  <2>5. QED
    BY <1>2, <1>4, <2>1, <2>4
<1>12. CASE FusedIdentifier
  <2>1. PICK k \in 2 .. Len(input) :
           /\ k \in 1 .. Len(input)
           /\ RestOf(input', input, k)
           /\ \A i \in 1 .. k : input[i].cls \in Letters
    BY <1>12, FusedRests
  <2>2. \A i \in 1 .. k : input[i].cls # "CB"
    BY <2>1 DEF Letters
  <2>3. ~ InComment /\ ~ InComment' /\ buffer' = buffer
    BY <1>12 DEF FusedIdentifier, Inclusive, InComment, bodyVars
  <2>4. \E q \in 0 .. Len(input') : ReadUpTo(src, input', FALSE, q)
    BY <1>5, <2>1, <2>2, <2>3
  <2>5. QED
    BY <1>2, <1>4, <2>3, <2>4
<1>13. QED
  BY <1>3, <1>7, <1>8, <1>9, <1>10, <1>11, <1>12 DEF Moves

(* The invariant of reading.                                               *)
ReadingInv == /\ Faithful
              /\ Ordered
              /\ Handed
              /\ Collected
              /\ Undecided
              /\ Uncommented
              /\ Reading

LEMMA InitReading == Init => ReadingInv
<1> SUFFICES ASSUME Init PROVE ReadingInv
  OBVIOUS
<1>1. /\ src \in Seq(Lexeme) /\ input \in Seq(Items)
      /\ input = [n \in DOMAIN src |-> Item(src, n)]
      /\ buffer = <<>> /\ delivered = {} /\ blank = TRUE
      /\ start = "INITIAL" /\ stack = <<>>
  BY InitTyped DEF TypeOK, TextTyped, Init, LexInit
<1>2. /\ Len(src) \in Nat /\ DOMAIN src = 1 .. Len(src)
      /\ DOMAIN input = 1 .. Len(src)
      /\ \A n \in 1 .. Len(src) : input[n] = Item(src, n)
  BY <1>1
<1>3. Len(input) = Len(src)
  BY <1>1, <1>2
<1>4. Elements(buffer) = {} /\ \A x \in Elements(input) :
                                 \E n \in 1 .. Len(src) : x = Item(src, n)
  BY <1>1, <1>2 DEF Elements
<1>5. Faithful
  BY <1>2, <1>4 DEF Faithful, FromText, Waiting, Item
<1>6. Ordered
  BY <1>1, <1>2, <1>4 DEF Ordered, Sorted, Before, Item
<1>7. Handed /\ Collected /\ Undecided /\ Uncommented
  BY <1>1, <1>4 DEF Handed, NotYet, Collected, AllBlank, Undecided, Uncommented, InComment
<1>8. Reading
  <2>1. /\ Len(input) - 0 <= Len(src)
        /\ Len(src) - (Len(input) - 0) = 0
        /\ \A i \in 0 + 1 .. Len(input) :
             i \in 1 .. Len(src) /\ i + Len(src) - Len(input) = i
        /\ \A i \in 1 .. 0 : Outside(src, input[i].at)
        /\ 0 \in 0 .. Len(input)
    BY <1>2, <1>3
  <2>2. \A i \in 0 + 1 .. Len(input) : input[i] = Item(src, i + Len(src) - Len(input))
    BY <1>2, <2>1
  <2>3. ~ CommentOpen(src)[Len(src) - (Len(input) - 0)]
    BY <1>1, <2>1, CommentOpenIs
  <2>4. ReadUpTo(src, input, InComment, 0)
    BY <1>1, <2>1, <2>2, <2>3 DEF ReadUpTo, InComment
  <2>5. QED
    BY <1>4, <2>1, <2>4 DEF Reading
<1>9. QED
  BY <1>5, <1>6, <1>7, <1>8 DEF ReadingInv

LEMMA NextReading ==
  ASSUME TypeOK, TypeOK', ReadingInv, [Next]_vars
  PROVE  ReadingInv'
<1>1. Moves /\ Uncommented'
  BY StepMoves DEF ReadingInv
<1>2. /\ Faithful /\ Ordered /\ Handed /\ Collected /\ Undecided /\ Uncommented
      /\ Reading
  BY DEF ReadingInv
<1>3. Faithful' /\ Ordered' /\ Handed'
  BY <1>1, <1>2, FaithfulKept, OrderedKept, HandedKept
<1>4. Collected' /\ Undecided'
  BY <1>1, <1>2, CollectedKept, UndecidedKept
<1>5. Reading'
  BY <1>1, <1>2, ReadingKept
<1>6. QED
  BY <1>1, <1>3, <1>4, <1>5 DEF ReadingInv

(* Whatever the text, what flex has read and put back agrees with it.      *)
THEOREM ReadsTheText == Spec => []ReadingInv
<1>1. Init => ReadingInv
  BY InitReading
<1>2. TypeOK /\ TypeOK' /\ ReadingInv /\ [Next]_vars => ReadingInv'
  BY NextReading
<1>3. QED
  BY <1>1, <1>2, TypeCorrect, PTL DEF Spec

-----------------------------------------------------------------------------
(* What follows from it.                                                   *)

LEMMA SignificantIs ==
  ASSUME NEW text \in Seq(Lexeme)
  PROVE  \A n : n \in Significant(text) <=>
                  n \in 1 .. Len(text) /\ text[n] \notin Blank /\ Outside(text, n)
  BY DEF Significant, Outside

LEMMA DropsLayout ==
  ASSUME TypeOK, ReadingInv, Drops
  PROVE  Next1.at \notin Significant(src)
<1>1. /\ src \in Seq(Lexeme) /\ input \in Seq(Items) /\ Len(input) \in Nat \ {0}
      /\ input # <<>> /\ Next1 \in Waiting
  BY WaitingTyped DEF TypeOK, TextTyped, Drops
<1>2. FromText(Next1) /\ Faithful /\ Reading
  BY <1>1 DEF ReadingInv, Faithful
<1>3. CASE Next1.cls \in Blank
  BY <1>2, <1>3 DEF FromText, Significant, Blank
<1>4. CASE Next1.cls = "CB"
  <2>1. src[Next1.at] = "CB"
    BY <1>2, <1>4 DEF FromText
  <2>2. QED
    BY <1>1, <2>1, SignificantIs, NoneOutsideOpens
<1>5. CASE InComment
  <2>1. ReadUpTo(src, input, InComment, 0)
    BY <1>1, <1>2, <1>5, FreshNext
  <2> DEFINE n == Len(src) - Len(input) + 1
  <2>2. /\ 1 \in 0 + 1 .. Len(input) /\ 1 + Len(src) - Len(input) = n
        /\ n - 1 = Len(src) - (Len(input) - 0)
    BY <1>1
  <2>3. Next1 = Item(src, n) /\ CommentOpen(src)[n - 1]
    <3>1. input[1] = Item(src, 1 + Len(src) - Len(input))
      BY <2>1, <2>2 DEF ReadUpTo
    <3>2. CommentOpen(src)[Len(src) - (Len(input) - 0)]
      BY <1>5, <2>1 DEF ReadUpTo
    <3>3. QED
      BY <2>2, <3>1, <3>2 DEF Next1
  <2> HIDE DEF n
  <2>4. Next1.at = n
    BY <2>3 DEF Item
  <2>5. QED
    BY <2>3, <2>4 DEF Significant
<1>6. QED
  BY <1>3, <1>4, <1>5 DEF Drops

(* Whitespace and comments are all that a rule reads and drops: a word of  *)
(* the program reaches bison, or waits to be read (the rules that return   *)
(* no token, parser.l:851-873, whatever state the scanner is in).          *)
THEOREM EatsLayoutOnly == Spec => []OnlyLayoutEaten
<1>1. Init => OnlyLayoutEaten
  BY DEF Init, LexInit, OnlyLayoutEaten
<1>2. TypeOK /\ ReadingInv /\ OnlyLayoutEaten /\ [Next]_vars => OnlyLayoutEaten'
  <2> SUFFICES ASSUME TypeOK, ReadingInv, OnlyLayoutEaten, [Next]_vars
               PROVE  OnlyLayoutEaten'
    OBVIOUS
  <2>1. Moves
    BY StepMoves DEF ReadingInv
  <2>2. Significant(src)' = Significant(src)
    BY <2>1, MovesKeepSource
  <2>3. CASE Drops
    BY <2>2, <2>3, DropsLayout DEF Drops, OnlyLayoutEaten
  <2>4. CASE ~ Drops
    <3>1. eaten' = eaten
      BY <2>1, <2>4 DEF Moves, Keeps, Hands, PutsBack, BodyCollect, TimeLiteral,
         FusedIdentifier, history
    <3>2. QED
      BY <2>2, <3>1 DEF OnlyLayoutEaten
  <2>5. QED
    BY <2>3, <2>4
<1>3. QED
  BY <1>1, <1>2, TypeCorrect, ReadsTheText, PTL DEF Spec

LEMMA TokenClassKeeps ==
  ASSUME NEW c \in Blank \cup {"MARK"}, NEW s
  PROVE  TokenClass(c, s) = c
  BY DEF TokenClass, Blank

(* No token starts at or before text that bison has already got, although  *)
(* unput_bodystate_buffer and unput_and_mark make flex read text again     *)
(* (parser.l:807-845): bodies are never read to bison twice.               *)
THEOREM HandsInOrder == Spec => InOrder
<1>1. TypeOK /\ ReadingInv /\ [Next]_vars =>
        [ token' # token /\ token'.at # 0 =>
            \/ token'.cls \in Blank \cup {"MARK"}
            \/ \A i \in delivered : i < token'.at \/ src[i] \in Blank ]_vars
  <2> SUFFICES ASSUME TypeOK, ReadingInv, [Next]_vars, token' # token, token'.at # 0,
                      token'.cls \notin Blank \cup {"MARK"}
               PROVE  \A i \in delivered : i < token'.at \/ src[i] \in Blank
    OBVIOUS
  <2>1. Moves /\ Handed
    BY StepMoves DEF ReadingInv
  <2>2. Hands \/ FusedIdentifier
    BY <2>1, CollectShape DEF Moves, Keeps, Drops, PutsBack, TimeLiteral
  <2>3. input # <<>> /\ token'.at = Next1.at
    BY <2>2 DEF Hands, FusedIdentifier, Touching
  <2>4. Next1.cls \notin Blank \cup {"MARK"}
    <3>1. CASE Hands
      <4>1. token'.cls = TokenClass(Next1.cls, start)
        BY <3>1 DEF Hands
      <4>2. QED
        BY <4>1, TokenClassKeeps
    <3>2. CASE FusedIdentifier
      BY <3>2 DEF FusedIdentifier, Touching, Letters, Blank, Next1
    <3>3. QED
      BY <2>2, <3>1, <3>2
  <2>5. NotYet(Next1)
    BY <2>1, <2>3, WaitingTyped DEF Handed
  <2>6. QED
    BY <2>3, <2>4, <2>5 DEF NotYet
<1>2. QED
  BY <1>1, TypeCorrect, ReadsTheText, PTL DEF Spec, InOrder

-----------------------------------------------------------------------------
(* The end of the input.                                                   *)

Exhausted == turn = "end" => input = <<>>

LEMMA ExhaustedKept ==
  ASSUME TypeOK, Uncommented, Exhausted, [Next]_vars
  PROVE  Exhausted'
<1>1. CASE EndOfInput
  BY <1>1 DEF EndOfInput, Exhausted
<1>2. CASE UNCHANGED vars
  BY <1>2 DEF vars, lexVars, Exhausted
<1>3. CASE EnterYylex \/ Yyparse
  BY <1>3 DEF EnterYylex, Yyparse, Exhausted
<1>4. CASE ChangesState
  BY <1>4 DEF ChangesState, PouHeader, ConfHeader, HeaderToVarList, EnterVarBlock,
     VarListToInitial, PragmaBeforeVar, EnterBody, EndVar, LeaveBody, EndUnit, Rule,
     UnputText, Return, Exhausted
<1>5. CASE CollectsBody
  BY <1>5 DEF CollectsBody, BodyCollect, BodyIsSfc, BodyIsTransition, BodyIsStByKeyword,
     BodyIsSt, BodyIsIl, BodyMatch, Rule, UnputText, ReturnSynthetic, Exhausted
<1>6. CASE ReadsText /\ ~ EndOfInput
  BY <1>6 DEF ReadsText, EatBlank, ReturnBlank, GiveUp, OpenComment, CloseComment,
     CommentText, TimeLiteral, TimePart, TimeEnd, FusedIdentifier, ReturnToken, Rule,
     Eat, Return, Exhausted
<1>7. QED
  BY <1>1, <1>2, <1>3, <1>4, <1>5, <1>6 DEF Next, Finished, SfcError, Scanner, Yylex

LEMMA ReadToTheEnd == Spec => []Exhausted
<1>1. Init => Exhausted
  BY DEF Init, LexInit, Exhausted
<1>2. TypeOK /\ ReadingInv /\ Exhausted /\ [Next]_vars => Exhausted'
  BY ExhaustedKept DEF ReadingInv
<1>3. QED
  BY <1>1, <1>2, TypeCorrect, ReadsTheText, PTL DEF Spec

(* What bison has not got of a text that is read to its end is behind      *)
(* every ';', END_FUNCTION and END_ACTION of it: it was collected for a    *)
(* body that did not end, and <<EOF>> does not put it back.                *)
Closing == {"SEMI", "ENDPOU", "ENDBLK"}

LeftOver ==
  turn = "end" =>
    \A n \in Significant(src) \ delivered :
      \A e \in Significant(src) : n <= e => src[e] \notin Closing

THEOREM OnlyATailIsLeft == Spec => []LeftOver
<1>1. TypeOK /\ ReadingInv /\ Exhausted /\ TextAccounted /\ OnlyLayoutEaten => LeftOver
  <2> SUFFICES ASSUME TypeOK, ReadingInv, Exhausted, TextAccounted, OnlyLayoutEaten,
                      turn = "end",
                      NEW n \in Significant(src), n \notin delivered,
                      NEW e \in Significant(src), n <= e, src[e] \in Closing
               PROVE  FALSE
    BY DEF LeftOver
  <2>1. /\ src \in Seq(Lexeme) /\ input = <<>> /\ buffer \in Seq(Items)
        /\ Faithful /\ Handed /\ Undecided /\ Ordered
    BY DEF TypeOK, TextTyped, Exhausted, ReadingInv
  <2>2. \A k \in Significant(src) : k \in delivered \/ \E x \in Elements(buffer) : x.at = k
    <3> SUFFICES ASSUME NEW k \in Significant(src), k \notin delivered
                 PROVE  \E x \in Elements(buffer) : x.at = k
      OBVIOUS
    <3>1. k \in Pending
      BY DEF TextAccounted, OnlyLayoutEaten, Significant
    <3>2. k \in Indices(buffer)
      BY <2>1, <3>1 DEF Pending, Indices
    <3>3. QED
      BY <3>2 DEF Indices, Elements
  <2>3. PICK x \in Elements(buffer) : x.at = n
    BY <2>2
  <2>4. \A y \in Elements(buffer) : FromText(y) /\ y.cls \notin Closing
    BY <2>1 DEF Faithful, Waiting, Undecided, Closing
  <2>5. e \in delivered
    BY <2>2, <2>4 DEF FromText, Closing
  <2>6. n \in 1 .. Len(src) /\ e \in 1 .. Len(src) /\ src[n] \notin Blank /\ src[e] \notin Blank
    BY <2>1, SignificantIs
  <2>7. FromText(x) /\ NotYet(x)
    BY <2>1, <2>3, <2>4 DEF Handed, Waiting
  <2>8. x.cls \notin Blank
    BY <2>3, <2>6, <2>7 DEF FromText, Blank
  <2>9. e < n \/ (e = n /\ x.cls = "MARK")
    BY <2>3, <2>5, <2>6, <2>7, <2>8 DEF NotYet
  <2>10. e = n /\ x.cls = "MARK"
    BY <2>6, <2>9
  <2>11. QED
    BY <2>3, <2>7, <2>10 DEF FromText, Closing
<1>2. QED
  BY <1>1, TypeCorrect, ReadsTheText, ReadToTheEnd, NothingLost, EatsLayoutOnly, PTL

(* So a text whose last word is the end of a unit, of a transition or of   *)
(* an action, or a ';', is delivered whole.                                *)
Closed(text) ==
  \A n \in Significant(text) : \E e \in Significant(text) : n <= e /\ text[e] \in Closing

THEOREM ClosedTextsAreDelivered ==
  ASSUME \A s \in Sources : Closed(s)
  PROVE  Spec => []Delivered
<1>1. Init => src \in Sources
  BY DEF Init, LexInit
<1>2. TypeOK /\ ReadingInv /\ src \in Sources /\ [Next]_vars => (src \in Sources)'
  BY StepMoves, MovesKeepSource DEF ReadingInv
<1>3. src \in Sources /\ LeftOver => Delivered
  BY DEF Closed, LeftOver, Delivered
<1>4. QED
  BY <1>1, <1>2, <1>3, TypeCorrect, ReadsTheText, OnlyATailIsLeft, PTL DEF Spec

-----------------------------------------------------------------------------
(* The language of a body.  What flex has in hand when it puts a body back *)
(* is the text from its first word on: nothing of it is missing.           *)
InHand == Elements(buffer) \cup {Next1}

LEMMA InHandIs ==
  ASSUME TypeOK, ReadingInv, input # <<>>, start = "body_state", Next1.cls \in Closing
  PROVE  \A x \in InHand : /\ x \in Items
                           /\ FromText(x) /\ NotYet(x) /\ Outside(src, x.at)
                           /\ x = Next1 \/ (x.cls \notin Closing /\ x.at <= Next1.at)
<1>1. /\ Faithful /\ Handed /\ Ordered /\ Reading /\ Undecided
      /\ Next1 \in Elements(input) /\ \A x \in Waiting : x \in Items
  BY WaitingTyped DEF ReadingInv
<1>2. Outside(src, Next1.at)
  <2>1. ~ InComment /\ Next1.cls # "CB"
    BY DEF InComment, Closing
  <2>2. QED
    BY <1>1, <2>1, PlainNext
<1> SUFFICES ASSUME NEW x \in InHand
             PROVE  /\ x \in Items
                    /\ FromText(x) /\ NotYet(x) /\ Outside(src, x.at)
                    /\ x = Next1 \/ (x.cls \notin Closing /\ x.at <= Next1.at)
  OBVIOUS
<1>3. x \in Items /\ Next1 \in Items /\ FromText(x) /\ NotYet(x)
  BY <1>1 DEF InHand, Waiting, Faithful, Handed
<1>4. Outside(src, x.at)
  BY <1>1, <1>2 DEF InHand, Reading
<1>5. ASSUME x # Next1 PROVE x.cls \notin Closing /\ x.at <= Next1.at
  <2>1. x \in Elements(buffer)
    BY <1>5 DEF InHand
  <2>2. x.at < Next1.at \/ x.at = Next1.at
    BY <1>1, <2>1 DEF Ordered, Before
  <2>3. x.at \in Nat /\ Next1.at \in Nat
    BY <1>3 DEF Items
  <2>4. QED
    BY <1>1, <2>1, <2>2, <2>3 DEF Undecided, Closing
<1>6. QED
  BY <1>3, <1>4, <1>5

LEMMA NothingMissing ==
  ASSUME TypeOK, ReadingInv, TextAccounted, OnlyLayoutEaten, input # <<>>,
         start = "body_state", Next1.cls \in Closing,
         NEW x \in InHand, x.cls \notin Blank,
         NEW k \in Significant(src), x.at <= k, k <= Next1.at
  PROVE  \E y \in InHand : y.at = k
<1>1. /\ src \in Seq(Lexeme) /\ input \in Seq(Items) /\ buffer \in Seq(Items)
      /\ Ordered /\ Next1 = input[1] /\ Next1 \in Items
  BY WaitingTyped DEF TypeOK, TextTyped, ReadingInv, Next1
<1>2. k \in 1 .. Len(src) /\ src[k] \notin Blank
  BY <1>1, SignificantIs
<1>3. x \in Items /\ NotYet(x)
  BY InHandIs
<1>4. k \in delivered \/ k \in Indices(input) \/ k \in Indices(buffer)
  BY <1>2 DEF TextAccounted, OnlyLayoutEaten, Pending
<1>5. CASE k \in delivered
  <2>1. k < x.at \/ k = x.at
    BY <1>2, <1>3, <1>5 DEF NotYet
  <2>2. x.at \in Nat /\ k \in Nat
    BY <1>2, <1>3 DEF Items
  <2>3. x.at = k
    BY <2>1, <2>2
  <2>4. QED
    BY <2>3
<1>6. CASE k \in Indices(buffer)
  BY <1>6 DEF Indices, InHand, Elements
<1>7. CASE k \in Indices(input)
  <2>1. PICK i \in 1 .. Len(input) : input[i].at = k
    BY <1>1, <1>7 DEF Indices
  <2>2. CASE i = 1
    BY <1>1, <2>1, <2>2 DEF InHand
  <2>3. CASE i # 1
    <3>1. 1 \in DOMAIN input /\ i \in DOMAIN input /\ 1 < i
      BY <1>1, <2>3
    <3>2. Before(Next1, input[i])
      BY <1>1, <3>1 DEF Ordered, Sorted
    <3>3. Next1.at \in Nat /\ k \in Nat
      BY <1>1, <1>2 DEF Items
    <3>4. Next1.at = k
      BY <2>1, <3>2, <3>3 DEF Before
    <3>5. QED
      BY <3>4 DEF InHand
  <2>4. QED
    BY <2>2, <2>3
<1>8. QED
  BY <1>4, <1>5, <1>6, <1>7

(* So what the buffer says of a body, the text says of it too: a ';' that  *)
(* ends the search is in the body, and one that is in the body ends it.    *)
LEMMA SearchIsRight ==
  ASSUME TypeOK, ReadingInv, TextAccounted, OnlyLayoutEaten, input # <<>>,
         start = "body_state", Next1.cls \in Closing,
         NEW x \in InHand, x.cls \notin Blank
  PROVE  Next1.cls = "SEMI" <=> "SEMI" \in BodyText(src, x.at)
<1>1. /\ src \in Seq(Lexeme) /\ Next1 \in Items /\ x \in Items /\ Next1 \in InHand
      /\ x.at \in Nat /\ Next1.at \in Nat /\ x.at <= Next1.at
  BY WaitingTyped, InHandIs DEF TypeOK, TextTyped, InHand, Items
<1>2. src[Next1.at] = Next1.cls /\ Next1.at \in Significant(src)
  <2>1. FromText(Next1) /\ Outside(src, Next1.at)
    BY <1>1, InHandIs
  <2>2. src[Next1.at] = Next1.cls /\ Next1.at \in 1 .. Len(src)
    BY <1>1, <2>1 DEF FromText, Closing
  <2>3. QED
    BY <1>1, <2>1, <2>2, SignificantIs DEF Closing, Blank
<1>3. ASSUME NEW k \in Significant(src), x.at <= k, k <= Next1.at, k # Next1.at
      PROVE  src[k] \notin Closing
  <2>1. PICK y \in InHand : y.at = k
    BY <1>3, NothingMissing
  <2>2. FromText(y) /\ y.cls \notin Closing
    BY <1>3, <2>1, InHandIs
  <2>3. QED
    BY <2>1, <2>2 DEF FromText, Closing
<1>4. CASE Next1.cls = "SEMI"
  <2>1. InBody(src, x.at, Next1.at)
    BY <1>2, <1>3, <1>4 DEF InBody, BodyEnd, Closing
  <2>2. QED
    BY <1>1, <1>2, <1>4, <2>1 DEF BodyText
<1>5. CASE Next1.cls # "SEMI"
  <2> SUFFICES ASSUME NEW m \in Significant(src), x.at <= m, InBody(src, x.at, m),
                      src[m] = "SEMI"
               PROVE  FALSE
    BY <1>5 DEF BodyText
  <2>1. src[Next1.at] \in BodyEnd
    BY <1>2, <1>5 DEF Closing, BodyEnd
  <2>2. ~ (Next1.at <= m)
    BY <1>1, <1>2, <2>1 DEF InBody
  <2>3. m \in 1 .. Len(src)
    BY <1>1, SignificantIs
  <2>4. m <= Next1.at /\ m # Next1.at
    BY <1>1, <2>2, <2>3
  <2>5. QED
    BY <1>3, <2>4 DEF Closing
<1>6. QED
  BY <1>4, <1>5

(* Who tells bison of a new body.                                          *)
LEMMA ReturnIsNoBody ==
  ASSUME TypeOK, input # <<>>, Return
  PROVE  ~ AtNewBody'
<1>1. Next1.cls \in Marked
  BY WaitingTyped DEF Items
<1>2. TokenClass(Next1.cls, start) \in Marked
  BY <1>1 DEF TokenClass, Marked, Lexeme, Letters
<1>3. token'.cls \notin Synthetic
  BY <1>2 DEF Return, Synthetic, Marked, Lexeme, Blank, Letters, Headed, Punct
<1>4. QED
  BY <1>3 DEF AtNewBody

LEMMA NewBodyFrom ==
  ASSUME TypeOK, [Next]_vars, AtNewBody'
  PROVE  UNCHANGED vars \/ BodyIsStByKeyword \/ BodyIsSt \/ BodyIsIl
<1>0. turn' = "bison"
  BY DEF AtNewBody
<1>1. ~ EnterYylex /\ ~ Yyparse
  BY <1>0 DEF EnterYylex, Yyparse
<1>2. ~ ChangesState
  BY <1>0, ReturnIsNoBody DEF ChangesState, PouHeader, ConfHeader, HeaderToVarList,
     EnterVarBlock, VarListToInitial, PragmaBeforeVar, EnterBody, EndVar, LeaveBody,
     EndUnit, Rule, UnputText
<1>3. ~ BodyCollect /\ ~ BodyIsSfc /\ ~ BodyIsTransition
  BY <1>0 DEF BodyCollect, BodyIsSfc, BodyIsTransition, BodyMatch, Rule, UnputText
<1>4. ~ FusedIdentifier
  <2>1. FusedIdentifier => token'.cls = "WORD"
    BY FusedRests
  <2>2. QED
    BY <2>1 DEF AtNewBody, Synthetic
<1>5. ~ ReadsText
  <2>1. ~ ReturnBlank /\ ~ TimePart /\ ~ TimeEnd /\ ~ ReturnToken
    BY ReturnIsNoBody DEF ReturnBlank, TimePart, TimeEnd, ReturnToken, Rule
  <2>2. QED
    BY <1>0, <1>4, <2>1 DEF ReadsText, EatBlank, GiveUp, OpenComment, CloseComment,
       CommentText, TimeLiteral, EndOfInput, Rule, Eat
<1>6. QED
  BY <1>1, <1>2, <1>3, <1>5 DEF Next, Finished, SfcError, Scanner, Yylex, CollectsBody

LEMMA ForemostInHand ==
  ASSUME TypeOK, TypeOK', ReadingInv, PutsBack, NEW i \in DOMAIN input', Foremost(i)'
  PROVE  /\ input'[i] \in InHand
         /\ input'[i].cls \notin Blank
         /\ input'[i] # Next1 => input'[i].cls \notin Leading
<1>1. /\ input \in Seq(Items) /\ buffer \in Seq(Items) /\ input # <<>> /\ Undecided
      /\ JoinOf(input', buffer, input)
  BY WaitingTyped, PutsBackJoins DEF PutsBack, ReadingInv
<1>2. input'[i].cls \notin Blank /\ \A j \in 1 .. i - 1 : input'[j].cls \in Blank
  BY DEF Foremost
<1>3. /\ Len(buffer) \in Nat /\ Len(input) \in Nat \ {0}
      /\ DOMAIN buffer = 1 .. Len(buffer)
      /\ \A j \in 1 .. Len(buffer) : input'[j] = buffer[j]
      /\ input'[Len(buffer) + 1] = Next1
  BY <1>1 DEF JoinOf, Next1
<1>4. i \in Nat \ {0}
  <2>1. input' \in Seq(Items)
    BY DEF TypeOK, TextTyped
  <2>2. QED
    BY <2>1
<1>5. ~ (i > Len(buffer) + 1)
  <2> SUFFICES ASSUME i > Len(buffer) + 1 PROVE FALSE
    OBVIOUS
  <2>1. Len(buffer) + 1 \in 1 .. i - 1
    BY <1>3, <1>4
  <2>2. Next1.cls \in Blank
    BY <1>2, <1>3, <2>1
  <2>3. QED
    BY <2>2 DEF PutsBack, Blank
<1>6. CASE i = Len(buffer) + 1
  BY <1>2, <1>3, <1>6 DEF InHand
<1>7. CASE i # Len(buffer) + 1
  <2>1. i \in 1 .. Len(buffer)
    BY <1>3, <1>4, <1>5, <1>7
  <2>2. input'[i] = buffer[i] /\ \A j \in 1 .. i - 1 : j \in 1 .. Len(buffer)
    BY <1>3, <2>1
  <2>3. \A j \in 1 .. i - 1 : buffer[j].cls \in Blank
    BY <1>2, <1>3, <2>2
  <2>4. buffer[i].cls \notin Leading
    BY <1>1, <1>3, <2>1, <2>3 DEF Undecided
  <2>5. buffer[i] \in Elements(buffer)
    BY <1>3, <2>1 DEF Elements
  <2>6. QED
    BY <1>2, <2>2, <2>4, <2>5 DEF InHand
<1>8. QED
  BY <1>6, <1>7

(* Whatever the text: what bison is told of a body is what is written      *)
(* there, though the search for ';' goes through text that was put back,   *)
(* past comments, and over the buffer an earlier body left behind.         *)
Announces(text, n, cls) ==
  /\ Outside(text, n)
  /\ cls = "start_ST_body" <=> \/ text[n] \in {"STKW", "STWORD"}
                               \/ "SEMI" \in BodyText(text, n)

Announced ==
  AtNewBody =>
    \A i \in DOMAIN input : Foremost(i) => Announces(src, input[i].at, token.cls)

LEMMA AnnouncedKept ==
  ASSUME TypeOK, TypeOK', ReadingInv, TextAccounted, OnlyLayoutEaten, Announced,
         [Next]_vars
  PROVE  Announced'
<1>1. CASE UNCHANGED vars
  BY <1>1 DEF vars, lexVars, Announced, AtNewBody, Foremost
<1> SUFFICES ASSUME AtNewBody', BodyIsStByKeyword \/ BodyIsSt \/ BodyIsIl,
                    NEW i \in DOMAIN input', Foremost(i)'
             PROVE  Announces(src', input'[i].at, token'.cls)
  BY <1>1, NewBodyFrom DEF Announced
<1>2. /\ input # <<>> /\ start = "body_state" /\ src' = src
      /\ Faithful /\ Reading /\ ~ InComment
  BY DEF BodyIsStByKeyword, BodyIsSt, BodyIsIl, BodyMatch, Rule, ReadingInv, InComment
<1>3. CASE BodyIsStByKeyword
  <2>1. Next1.cls \in {"STKW", "STWORD"} /\ input' = input /\ token'.cls = "start_ST_body"
    BY <1>3 DEF BodyIsStByKeyword, BodyMatch, Rule, ReturnSynthetic
  <2>2. i = 1
    <3>1. input \in Seq(Items) /\ Len(input) \in Nat
      BY WaitingTyped
    <3>2. i \in Nat \ {0}
      BY <2>1, <3>1
    <3>3. \A j \in 1 .. i - 1 : input[j].cls \in Blank
      BY <2>1 DEF Foremost
    <3>4. ~ (1 \in 1 .. i - 1)
      BY <2>1, <3>3 DEF Next1, Blank
    <3>5. QED
      BY <3>2, <3>4
  <2>3. Outside(src, Next1.at) /\ FromText(Next1)
    BY <1>2, <2>1, PlainNext, WaitingTyped DEF Faithful
  <2>4. src[Next1.at] \in {"STKW", "STWORD"}
    BY <2>1, <2>3 DEF FromText
  <2>5. QED
    BY <1>2, <2>1, <2>2, <2>3, <2>4 DEF Announces, Next1
<1>4. CASE BodyIsSt \/ BodyIsIl
  <2>1. PutsBack
    <3>1. CASE BodyIsSt
      BY <3>1 DEF BodyIsSt, BodyMatch, Rule, AppendThenUnputBuffer, ReturnSynthetic,
         Begin, PutsBack
    <3>2. CASE BodyIsIl
      BY <3>2 DEF BodyIsIl, BodyMatch, Rule, AppendThenUnputBuffer, ReturnSynthetic,
         Begin, PutsBack
    <3>3. QED
      BY <1>4, <3>1, <3>2
  <2>2. Next1.cls \in Closing /\ (token'.cls = "start_ST_body" <=> Next1.cls = "SEMI")
    BY <1>4 DEF BodyIsSt, BodyIsIl, BodyMatch, Rule, ReturnSynthetic, Closing
  <2> DEFINE x == input'[i]
  <2>3. x \in InHand /\ x.cls \notin Blank /\ (x # Next1 => x.cls \notin Leading)
    BY <2>1, ForemostInHand
  <2> HIDE DEF x
  <2>4. Next1.cls = "SEMI" <=> "SEMI" \in BodyText(src, x.at)
    BY <1>2, <2>2, <2>3, SearchIsRight
  <2>5. Outside(src, x.at) /\ FromText(x)
    BY <1>2, <2>2, <2>3, InHandIs
  <2>6. src[x.at] \notin {"STKW", "STWORD"}
    BY <2>2, <2>3, <2>5 DEF FromText, Leading, Closing
  <2>7. Announces(src', x.at, token'.cls)
    BY <1>2, <2>2, <2>4, <2>5, <2>6 DEF Announces
  <2>8. QED
    BY <2>7 DEF x
<1>5. QED
  BY <1>3, <1>4

LEMMA BodiesAreAnnounced == Spec => []Announced
<1>1. Init => Announced
  BY DEF Init, LexInit, Announced, AtNewBody
<1>2. /\ TypeOK /\ TypeOK' /\ ReadingInv /\ TextAccounted /\ OnlyLayoutEaten /\ Announced
      /\ [Next]_vars
      => Announced'
  BY AnnouncedKept
<1>3. QED
  BY <1>1, <1>2, TypeCorrect, ReadsTheText, NothingLost, EatsLayoutOnly, PTL DEF Spec

THEOREM LanguageAnnounced == Spec => []AnnouncedLanguage
<1>1. Announced => AnnouncedLanguage
  BY DEF Announced, Announces, AnnouncedLanguage
<1>2. QED
  BY <1>1, BodiesAreAnnounced, PTL

(* And where the words that ST statements begin with begin nothing else -  *)
(* each is followed by a ';' in its body - the short cut for them          *)
(* (parser.l:817) changes nothing: the language is the one the text has.   *)
KeywordsBeginStatements(text) ==
  \A n \in Significant(text) :
    text[n] \in {"STKW", "STWORD"} => "SEMI" \in BodyText(text, n)

BodyLanguage ==
  AtNewBody =>
    \A i \in DOMAIN input : Foremost(i) =>
      (token.cls = "start_ST_body" <=> "SEMI" \in BodyText(src, input[i].at))

THEOREM LanguageIsRight ==
  ASSUME \A s \in Sources : KeywordsBeginStatements(s)
  PROVE  Spec => []BodyLanguage
<1>1. Init => src \in Sources
  BY DEF Init, LexInit
<1>2. TypeOK /\ ReadingInv /\ src \in Sources /\ [Next]_vars => (src \in Sources)'
  BY StepMoves, MovesKeepSource DEF ReadingInv
<1>3. TypeOK /\ ReadingInv /\ src \in Sources /\ Announced => BodyLanguage
  <2> SUFFICES ASSUME TypeOK, ReadingInv, src \in Sources, Announced, AtNewBody,
                      NEW i \in DOMAIN input, Foremost(i)
               PROVE  token.cls = "start_ST_body" <=> "SEMI" \in BodyText(src, input[i].at)
    BY DEF BodyLanguage
  <2> DEFINE n == input[i].at
  <2>1. Announces(src, n, token.cls)
    BY DEF Announced
  <2>2. src \in Seq(Lexeme) /\ FromText(input[i])
    BY DEF TypeOK, TextTyped, ReadingInv, Faithful, Waiting, Elements
  <2> HIDE DEF n
  <2>3. src[n] \in {"STKW", "STWORD"} => "SEMI" \in BodyText(src, n)
    <3> SUFFICES ASSUME src[n] \in {"STKW", "STWORD"} PROVE "SEMI" \in BodyText(src, n)
      OBVIOUS
    <3>1. n \in 1 .. Len(src) /\ Outside(src, n)
      BY <2>1, <2>2 DEF Announces, FromText, n
    <3>2. n \in Significant(src)
      BY <2>2, <3>1, SignificantIs DEF Blank
    <3>3. QED
      BY <3>2 DEF KeywordsBeginStatements
  <2>4. QED
    BY <2>1, <2>3 DEF Announces, n
<1>4. QED
  BY <1>1, <1>2, <1>3, TypeCorrect, ReadsTheText, BodiesAreAnnounced, PTL DEF Spec
-----------------------------------------------------------------------------
(* The place in the text.  The proofs from here on are about the texts     *)
(* that StGrammar accepts: every command of bison and every push and pop   *)
(* of flex then come in the pairs that the grammar puts them in.           *)
(*                                                                         *)
(* Paths: the items of a sequence lead from one value to the next.  Below, *)
(* the values are places of the grammar and the items what flex still has  *)
(* to read.                                                                *)

(* A path along a sequence: each item leads from one value to the next.    *)
Path(R, V, s, a, b) ==
  \E h \in [0 .. Len(s) -> V] :
    /\ h[0] = a
    /\ h[Len(s)] = b
    /\ \A i \in 1 .. Len(s) : <<s[i], h[i - 1], h[i]>> \in R

(* A path along nothing stays.                                             *)
LEMMA PathEmpty ==
  ASSUME NEW R, NEW V, NEW s, Len(s) = 0, NEW a, NEW b, Path(R, V, s, a, b)
  PROVE  a = b
  BY DEF Path

(* A path goes on from where its first item leads.                         *)
LEMMA PathTail ==
  ASSUME NEW R, NEW V, NEW s \in Seq(Items), s # <<>>, NEW t \in Seq(Items),
         RestOf(t, s, 1), NEW a, NEW b, Path(R, V, s, a, b)
  PROVE  \E c \in V : <<s[1], a, c>> \in R /\ Path(R, V, t, c, b)
<1>1. Len(s) \in Nat \ {0} /\ Len(t) = Len(s) - 1 /\ \A i \in 1 .. Len(t) : t[i] = s[i + 1]
  BY DEF RestOf
<1>2. PICK h \in [0 .. Len(s) -> V] :
        /\ h[0] = a
        /\ h[Len(s)] = b
        /\ \A i \in 1 .. Len(s) : <<s[i], h[i - 1], h[i]>> \in R
  BY DEF Path
<1> DEFINE g == [i \in 0 .. Len(t) |-> h[i + 1]]
<1>3. \A i \in 0 .. Len(t) : i + 1 \in 0 .. Len(s) /\ g[i] = h[i + 1]
  BY <1>1
<1>4. g \in [0 .. Len(t) -> V]
  BY <1>3
<1> HIDE DEF g
<1>5. g[0] = h[1] /\ g[Len(t)] = b
  <2>1. 0 \in 0 .. Len(t) /\ 0 + 1 = 1 /\ Len(t) \in 0 .. Len(t) /\ Len(t) + 1 = Len(s)
    BY <1>1
  <2>2. QED
    BY <1>2, <1>3, <2>1
<1>6. ASSUME NEW i \in 1 .. Len(t) PROVE <<t[i], g[i - 1], g[i]>> \in R
  <2>1. /\ i + 1 \in 1 .. Len(s) /\ (i + 1) - 1 = i /\ i - 1 \in 0 .. Len(t)
        /\ i \in 0 .. Len(t) /\ (i - 1) + 1 = i
    BY <1>1
  <2>2. <<s[i + 1], h[(i + 1) - 1], h[i + 1]>> \in R
    BY <1>2, <2>1
  <2>3. t[i] = s[i + 1] /\ g[i - 1] = h[i] /\ g[i] = h[i + 1]
    BY <1>1, <1>3, <2>1
  <2>4. QED
    BY <2>1, <2>2, <2>3
<1>7. Path(R, V, t, h[1], b)
  BY <1>4, <1>5, <1>6, Zenon DEF Path
<1>8. 1 \in 1 .. Len(s) /\ 1 \in 0 .. Len(s) /\ 1 - 1 = 0
  BY <1>1
<1>9. <<s[1], a, h[1]>> \in R /\ h[1] \in V
  BY <1>2, <1>8
<1>10. QED
  BY <1>7, <1>9, Zenon

(* Two paths, the second from where the first one ends.                    *)
LEMMA PathJoin ==
  ASSUME NEW R, NEW V, NEW u \in Seq(Items), NEW s \in Seq(Items), NEW t \in Seq(Items),
         JoinOf(t, u, s), NEW a, NEW b, NEW c, Path(R, V, u, a, b), Path(R, V, s, b, c)
  PROVE  Path(R, V, t, a, c)
<1> DEFINE U == Len(u)
           L == Len(s)
<1>1. /\ U \in Nat /\ L \in Nat /\ Len(t) = U + L
      /\ \A i \in 1 .. U : t[i] = u[i]
      /\ \A i \in 1 .. L : t[U + i] = s[i]
  BY DEF JoinOf
<1>2. PICK f \in [0 .. U -> V] :
        f[0] = a /\ f[U] = b /\ \A i \in 1 .. U : <<u[i], f[i - 1], f[i]>> \in R
  BY DEF Path
<1>3. PICK g \in [0 .. L -> V] :
        g[0] = b /\ g[L] = c /\ \A i \in 1 .. L : <<s[i], g[i - 1], g[i]>> \in R
  BY DEF Path
<1> DEFINE h == [i \in 0 .. Len(t) |-> IF i <= U THEN f[i] ELSE g[i - U]]
<1> HIDE DEF U, L
<1>4. \A i \in 0 .. U : i \in 0 .. Len(t) /\ h[i] = f[i]
  BY <1>1
<1>5. \A i \in 0 .. L : U + i \in 0 .. Len(t) /\ h[U + i] = g[i]
  <2> SUFFICES ASSUME NEW i \in 0 .. L PROVE U + i \in 0 .. Len(t) /\ h[U + i] = g[i]
    OBVIOUS
  <2>1. U + i \in 0 .. Len(t) /\ (U + i) - U = i
    BY <1>1
  <2>2. CASE i = 0
    BY <1>1, <1>2, <1>3, <2>1, <2>2
  <2>3. CASE i # 0
    BY <1>1, <2>1, <2>3
  <2>4. QED
    BY <2>2, <2>3
<1>6. h \in [0 .. Len(t) -> V]
  <2>1. \A i \in 0 .. Len(t) : \/ i <= U /\ i \in 0 .. U
                               \/ ~ (i <= U) /\ i - U \in 0 .. L
    BY <1>1
  <2>2. \A i \in 0 .. Len(t) : (IF i <= U THEN f[i] ELSE g[i - U]) \in V
    BY <2>1
  <2>3. QED
    BY <2>2
<1> HIDE DEF h
<1>7. h[0] = a /\ h[Len(t)] = c
  <2>1. 0 \in 0 .. U /\ L \in 0 .. L
    BY <1>1
  <2>2. QED
    BY <1>1, <1>2, <1>3, <1>4, <1>5, <2>1
<1>8. ASSUME NEW i \in 1 .. Len(t) PROVE <<t[i], h[i - 1], h[i]>> \in R
  <2>1. CASE i <= U
    <3>1. i \in 1 .. U /\ i \in 0 .. U /\ i - 1 \in 0 .. U
      BY <1>1, <2>1
    <3>2. t[i] = u[i] /\ h[i - 1] = f[i - 1] /\ h[i] = f[i]
      BY <1>1, <1>4, <3>1
    <3>3. QED
      BY <1>2, <3>1, <3>2
  <2>2. CASE ~ (i <= U)
    <3>1. PICK j \in 1 .. L : i = U + j
      <4>1. i - U \in 1 .. L /\ i = U + (i - U)
        BY <1>1, <2>2
      <4>2. QED
        BY <4>1
    <3>2. j \in 0 .. L /\ j - 1 \in 0 .. L /\ (U + j) - 1 = U + (j - 1)
      BY <1>1
    <3>3. t[i] = s[j] /\ h[i - 1] = g[j - 1] /\ h[i] = g[j]
      BY <1>1, <1>5, <3>1, <3>2
    <3>4. QED
      BY <1>3, <3>1, <3>3
  <2>3. QED
    BY <2>1, <2>2
<1>9. QED
  BY <1>6, <1>7, <1>8, Zenon DEF Path

(* One item more.                                                          *)
LEMMA PathAppend ==
  ASSUME NEW R, NEW V, NEW s \in Seq(Items), NEW e \in Items, NEW t, t = Append(s, e),
         NEW a, NEW b, NEW c \in V, Path(R, V, s, a, b), <<e, b, c>> \in R
  PROVE  Path(R, V, t, a, c)
<1> DEFINE L == Len(s)
<1>1. /\ L \in Nat /\ Len(t) = L + 1
      /\ \A i \in 1 .. L : t[i] = s[i]
      /\ t[L + 1] = e
  BY AfterAppend
<1>2. PICK f \in [0 .. L -> V] :
        f[0] = a /\ f[L] = b /\ \A i \in 1 .. L : <<s[i], f[i - 1], f[i]>> \in R
  BY DEF Path
<1> DEFINE h == [i \in 0 .. L + 1 |-> IF i <= L THEN f[i] ELSE c]
<1> HIDE DEF L
<1>3. \A i \in 0 .. L : i \in 0 .. L + 1 /\ h[i] = f[i]
  BY <1>1
<1>4. L + 1 \in 0 .. L + 1 /\ h[L + 1] = c /\ ~ (L + 1 <= L)
  BY <1>1
<1>5. h \in [0 .. L + 1 -> V]
  <2>1. \A i \in 0 .. L + 1 : i <= L => i \in 0 .. L
    BY <1>1
  <2>2. QED
    BY <2>1
<1> HIDE DEF h
<1>6. h[0] = a
  BY <1>1, <1>2, <1>3
<1>7. ASSUME NEW i \in 1 .. L + 1 PROVE <<t[i], h[i - 1], h[i]>> \in R
  <2>1. CASE i = L + 1
    <3>1. i - 1 = L /\ L \in 0 .. L
      BY <1>1, <2>1
    <3>2. h[i - 1] = b /\ h[i] = c /\ t[i] = e
      BY <1>1, <1>2, <1>3, <1>4, <2>1, <3>1
    <3>3. QED
      BY <3>2
  <2>2. CASE i # L + 1
    <3>1. i \in 1 .. L /\ i \in 0 .. L /\ i - 1 \in 0 .. L
      BY <1>1, <2>2
    <3>2. t[i] = s[i] /\ h[i - 1] = f[i - 1] /\ h[i] = f[i]
      BY <1>1, <1>3, <3>1
    <3>3. QED
      BY <1>2, <3>1, <3>2
  <2>3. QED
    BY <2>1, <2>2
<1>8. QED
  BY <1>1, <1>4, <1>5, <1>6, <1>7, Zenon DEF Path

(* The first item in two halves (a literal and the mark behind it).        *)
LEMMA PathSplit ==
  ASSUME NEW R, NEW V, NEW s \in Seq(Items), s # <<>>, NEW x, NEW y,
         NEW t \in Seq(Items), SplitOf(t, x, y, s), NEW a, NEW b, Path(R, V, s, a, b),
         \A c \in V : <<s[1], a, c>> \in R => <<x, a, a>> \in R /\ <<y, a, c>> \in R
  PROVE  Path(R, V, t, a, b)
<1> DEFINE L == Len(s)
<1>1. /\ L \in Nat \ {0} /\ Len(t) = L + 1 /\ t[1] = x /\ t[2] = y
      /\ \A i \in 2 .. L : t[i + 1] = s[i]
  BY DEF SplitOf
<1>2. PICK f \in [0 .. L -> V] :
        f[0] = a /\ f[L] = b /\ \A i \in 1 .. L : <<s[i], f[i - 1], f[i]>> \in R
  BY DEF Path
<1> DEFINE h == [i \in 0 .. L + 1 |-> IF i = 0 THEN f[i] ELSE f[i - 1]]
<1> HIDE DEF L
<1>3. h[0] = f[0] /\ h[1] = f[0]
  BY <1>1
<1>4. \A i \in 1 .. L : i + 1 \in 0 .. L + 1 /\ h[i + 1] = f[i]
  BY <1>1
<1>5. h \in [0 .. L + 1 -> V]
  <2>1. \A i \in 0 .. L + 1 : IF i = 0 THEN i \in 0 .. L ELSE i - 1 \in 0 .. L
    BY <1>1
  <2>2. QED
    BY <2>1
<1> HIDE DEF h
<1>6. <<x, a, a>> \in R /\ <<y, a, f[1]>> \in R
  <2>1. 1 \in 1 .. L /\ f[1] \in V /\ f[1 - 1] = a
    BY <1>1, <1>2
  <2>2. <<s[1], f[1 - 1], f[1]>> \in R
    BY <1>2, <2>1
  <2>3. QED
    BY <2>1, <2>2
<1>7. ASSUME NEW i \in 1 .. L + 1 PROVE <<t[i], h[i - 1], h[i]>> \in R
  <2>1. CASE i = 1
    <3>1. i - 1 = 0 /\ t[i] = x /\ h[i - 1] = a /\ h[i] = a
      BY <1>1, <1>2, <1>3, <2>1
    <3>2. QED
      BY <1>6, <3>1
  <2>2. CASE i = 2
    <3>1. 1 \in 1 .. L /\ 1 + 1 = 2 /\ i - 1 = 1
      BY <1>1, <2>2
    <3>2. h[i - 1] = a /\ h[i] = f[1] /\ t[i] = y
      BY <1>1, <1>2, <1>3, <1>4, <2>2, <3>1
    <3>3. QED
      BY <1>6, <3>2
  <2>3. CASE i # 1 /\ i # 2
    <3>1. PICK j \in 2 .. L : i = j + 1
      <4>1. i - 1 \in 2 .. L /\ i = (i - 1) + 1
        BY <1>1, <2>3
      <4>2. QED
        BY <4>1
    <3>2. j \in 1 .. L /\ j - 1 \in 1 .. L /\ i - 1 = (j - 1) + 1
      BY <1>1, <3>1
    <3>3. t[i] = s[j] /\ h[i] = f[j] /\ h[i - 1] = f[j - 1]
      BY <1>1, <1>4, <3>1, <3>2
    <3>4. QED
      BY <1>2, <3>2, <3>3
  <2>4. QED
    BY <2>1, <2>2, <2>3
<1>8. h[0] = a /\ h[L + 1] = b
  <2>1. L \in 1 .. L
    BY <1>1
  <2>2. QED
    BY <1>2, <1>3, <1>4, <2>1
<1>9. QED
  BY <1>1, <1>5, <1>7, <1>8, Zenon DEF Path

(* Items that lead nowhere.                                                *)
LEMMA PathStays ==
  ASSUME NEW R, NEW V, NEW s \in Seq(Items), NEW a \in V,
         \A x \in Elements(s) : <<x, a, a>> \in R
  PROVE  Path(R, V, s, a, a)
<1> DEFINE h == [i \in 0 .. Len(s) |-> a]
<1>1. Len(s) \in Nat /\ \A i \in 1 .. Len(s) : s[i] \in Elements(s)
  BY ElementsTyped
<1>2. h \in [0 .. Len(s) -> V] /\ \A i \in 0 .. Len(s) : h[i] = a
  OBVIOUS
<1> HIDE DEF h
<1>3. h[0] = a /\ h[Len(s)] = a
  BY <1>1, <1>2
<1>4. ASSUME NEW i \in 1 .. Len(s) PROVE <<s[i], h[i - 1], h[i]>> \in R
  <2>1. i \in 0 .. Len(s) /\ i - 1 \in 0 .. Len(s)
    BY <1>1
  <2>2. QED
    BY <1>1, <1>2, <2>1
<1>5. QED
  BY <1>2, <1>3, <1>4, Zenon DEF Path

-----------------------------------------------------------------------------
(* Neighbours.                                                             *)

(* Two neighbours of a sequence are always in R.                           *)
Adjacent(R, s) == \A i \in 1 .. Len(s) - 1 : <<s[i], s[i + 1]>> \in R

(* Neighbours in the rest of a sequence, ...                               *)
LEMMA AdjacentRest ==
  ASSUME NEW R, NEW s \in Seq(Items), NEW t \in Seq(Items), RestOf(t, s, 1),
         Adjacent(R, s)
  PROVE  Adjacent(R, t)
<1> SUFFICES ASSUME NEW i \in 1 .. Len(t) - 1 PROVE <<t[i], t[i + 1]>> \in R
  BY DEF Adjacent
<1>1. Len(s) \in Nat /\ Len(t) \in Nat /\ Len(t) = Len(s) - 1
  BY DEF RestOf
<1>2. i \in 1 .. Len(s) - 1 /\ i + 1 \in 1 .. Len(s) - 1
  BY <1>1
<1>3. t[i] = s[i + 1] /\ t[i + 1] = s[(i + 1) + 1]
  BY <1>2 DEF RestOf
<1>4. <<s[i + 1], s[(i + 1) + 1]>> \in R
  BY <1>2 DEF Adjacent
<1>5. QED
  BY <1>3, <1>4

(* ... with one item more, ...                                             *)
LEMMA AdjacentAppend ==
  ASSUME NEW R, NEW s \in Seq(Items), NEW e \in Items, NEW t, t = Append(s, e),
         Adjacent(R, s), s # <<>> => <<s[Len(s)], e>> \in R
  PROVE  Adjacent(R, t)
<1>1. /\ Len(s) \in Nat /\ Len(t) = Len(s) + 1
      /\ \A i \in 1 .. Len(s) : t[i] = s[i]
      /\ t[Len(s) + 1] = e
      /\ Len(s) # 0 => s # <<>>
  BY AfterAppend
<1> SUFFICES ASSUME NEW i \in 1 .. Len(t) - 1 PROVE <<t[i], t[i + 1]>> \in R
  BY DEF Adjacent
<1>2. i \in 1 .. Len(s)
  BY <1>1
<1>3. CASE i = Len(s)
  <2>1. t[i] = s[Len(s)] /\ t[i + 1] = e /\ s # <<>>
    BY <1>1, <1>2, <1>3
  <2>2. QED
    BY <2>1
<1>4. CASE i # Len(s)
  <2>1. i \in 1 .. Len(s) - 1 /\ i + 1 \in 1 .. Len(s)
    BY <1>1, <1>2, <1>4
  <2>2. t[i] = s[i] /\ t[i + 1] = s[i + 1]
    BY <1>1, <1>2, <2>1
  <2>3. QED
    BY <2>1, <2>2 DEF Adjacent
<1>5. QED
  BY <1>3, <1>4

(* ... where two sequences are joined, ...                                 *)
LEMMA AdjacentJoin ==
  ASSUME NEW R, NEW u \in Seq(Items), NEW s \in Seq(Items), NEW t \in Seq(Items),
         JoinOf(t, u, s), Adjacent(R, u), Adjacent(R, s),
         u # <<>> /\ s # <<>> => <<u[Len(u)], s[1]>> \in R
  PROVE  Adjacent(R, t)
<1>1. /\ Len(u) \in Nat /\ Len(s) \in Nat /\ Len(t) = Len(u) + Len(s)
      /\ \A i \in 1 .. Len(u) : t[i] = u[i]
      /\ \A i \in 1 .. Len(s) : t[Len(u) + i] = s[i]
      /\ Len(u) # 0 => u # <<>>
      /\ Len(s) # 0 => s # <<>>
  BY DEF JoinOf
<1> SUFFICES ASSUME NEW i \in 1 .. Len(t) - 1 PROVE <<t[i], t[i + 1]>> \in R
  BY DEF Adjacent
<1>2. CASE i < Len(u)
  <2>1. i \in 1 .. Len(u) - 1 /\ i \in 1 .. Len(u) /\ i + 1 \in 1 .. Len(u)
    BY <1>1, <1>2
  <2>2. t[i] = u[i] /\ t[i + 1] = u[i + 1]
    BY <1>1, <2>1
  <2>3. QED
    BY <2>1, <2>2 DEF Adjacent
<1>3. CASE i = Len(u)
  <2>1. 1 \in 1 .. Len(s) /\ Len(u) \in 1 .. Len(u) /\ u # <<>> /\ s # <<>>
    BY <1>1, <1>3
  <2>2. t[i] = u[Len(u)] /\ t[i + 1] = s[1]
    BY <1>1, <1>3, <2>1
  <2>3. QED
    BY <2>1, <2>2
<1>4. CASE i > Len(u)
  <2>1. PICK j \in 1 .. Len(s) - 1 : i = Len(u) + j
    <3>1. i - Len(u) \in 1 .. Len(s) - 1 /\ i = Len(u) + (i - Len(u))
      BY <1>1, <1>4
    <3>2. QED
      BY <3>1
  <2>2. j \in 1 .. Len(s) /\ j + 1 \in 1 .. Len(s) /\ i + 1 = Len(u) + (j + 1)
    BY <1>1, <2>1
  <2>3. t[i] = s[j] /\ t[i + 1] = s[j + 1]
    BY <1>1, <2>1, <2>2
  <2>4. QED
    BY <2>1, <2>3 DEF Adjacent
<1>5. QED
  BY <1>1, <1>2, <1>3, <1>4

(* ... and where an item is split in two.                                  *)
LEMMA AdjacentSplit ==
  ASSUME NEW R, NEW s \in Seq(Items), s # <<>>, NEW x, NEW y, NEW t \in Seq(Items),
         SplitOf(t, x, y, s), Adjacent(R, s), <<x, y>> \in R,
         Len(s) > 1 => <<y, s[2]>> \in R
  PROVE  Adjacent(R, t)
<1>1. /\ Len(s) \in Nat \ {0} /\ Len(t) = Len(s) + 1 /\ t[1] = x /\ t[2] = y
      /\ \A i \in 2 .. Len(s) : t[i + 1] = s[i]
  BY DEF SplitOf
<1> SUFFICES ASSUME NEW i \in 1 .. Len(t) - 1 PROVE <<t[i], t[i + 1]>> \in R
  BY DEF Adjacent
<1>2. CASE i = 1
  BY <1>1, <1>2
<1>3. CASE i = 2
  <2>1. 2 \in 2 .. Len(s) /\ Len(s) > 1
    BY <1>1, <1>3
  <2>2. t[i + 1] = s[2] /\ t[i] = y
    BY <1>1, <1>3, <2>1
  <2>3. QED
    BY <2>1, <2>2
<1>4. CASE i # 1 /\ i # 2
  <2>1. PICK j \in 2 .. Len(s) - 1 : i = j + 1
    <3>1. i - 1 \in 2 .. Len(s) - 1 /\ i = (i - 1) + 1
      BY <1>1, <1>4
    <3>2. QED
      BY <3>1
  <2>2. j \in 2 .. Len(s) /\ i \in 2 .. Len(s) /\ j \in 1 .. Len(s) - 1
    BY <1>1, <2>1
  <2>3. t[i] = s[j] /\ t[i + 1] = s[j + 1]
    BY <1>1, <2>1, <2>2
  <2>4. QED
    BY <2>2, <2>3 DEF Adjacent
<1>5. QED
  BY <1>2, <1>3, <1>4

-----------------------------------------------------------------------------
(* The places of the text being read, and what they say of its items.      *)

G == CHOOSE g \in [0 .. Len(src) -> Place] : Parses(src, g)

(* The item x leads from the place a to the place c.  (Blanks that an      *)
(* earlier body has left in the buffer may turn up anywhere.)              *)
Leads(x, a, c) ==
  IF x.cls \in Blank THEN c = a
  ELSE IF x.cls = "TBODY" THEN a = G[x.at - 1] /\ c = a
  ELSE a = G[x.at - 1] /\ c = G[x.at]

Steps == {s \in Items \X Place \X Place : Leads(s[1], s[2], s[3])}

(* Letters do not touch, and nothing comes in between where the grammar    *)
(* forbids it.                                                             *)
Fits(x, y) == /\ x.cls \in Letters => y.cls \notin Letters
              /\ G[x.at] \in Tight => y = Item(src, x.at + 1)

Snug == {p \in Items \X Items : Fits(p[1], p[2])}

Half == {"TBODY", "MARK"}

(* The halves of a literal are there while flex is in it.                  *)
Halved ==
  /\ \A x \in Elements(buffer) : x.cls \notin Half
  /\ start # "time_literal_state" => \A x \in Elements(input) : x.cls \notin Half
  /\ start = "time_literal_state" =>
       /\ input # <<>>
       /\ Next1.cls \in Half
       /\ \A i \in 2 .. Len(input) : input[i].cls \in Half =>
                                       i = 2 /\ input[i].cls = "MARK" /\ Next1.cls = "TBODY"
       /\ Next1.cls = "TBODY" => Len(input) > 1 /\ input[2].cls = "MARK"

Seamless ==
  turn = "scan" /\ start = "body_state" /\ buffer # <<>> /\ input # <<>> =>
    <<buffer[Len(buffer)], Next1>> \in Snug

Loose == \A x \in Elements(buffer) : G[x.at] \notin Tight

Joints == /\ Parses(src, G)
          /\ Adjacent(Snug, input)
          /\ Adjacent(Snug, buffer)
          /\ Loose
          /\ Seamless

(* Members of Steps and of Snug.                                           *)
LEMMA StepsAre ==
  ASSUME NEW x \in Items, NEW a \in Place, NEW c \in Place
  PROVE  <<x, a, c>> \in Steps <=> Leads(x, a, c)
  BY DEF Steps

LEMMA SnugAre ==
  ASSUME NEW x \in Items, NEW y \in Items
  PROVE  <<x, y>> \in Snug <=> Fits(x, y)
  BY DEF Snug

(* What Parses says, lexeme by lexeme.                                     *)
LEMMA PlacesAre ==
  ASSUME TypeOK, Parses(src, G)
  PROVE  /\ G \in [0 .. Len(src) -> Place]
         /\ G[0] = "units" /\ G[Len(src)] = "units"
         /\ \A n \in Significant(src) : Goes(G[n - 1], src[n], G[n])
         /\ \A n \in 1 .. Len(src) : n \notin Significant(src) => G[n] = G[n - 1] /\ G[n] \notin Tight
         /\ \A n \in 1 .. Len(src) - 1 :
              src[n] = "CE" /\ G[n] \in Bodies => src[n + 1] \notin Letters
<1>1. src \in Seq(Lexeme)
  BY DEF TypeOK, TextTyped
<1> DEFINE g == G
<1>2. Parses(src, g)
  OBVIOUS
<1> HIDE DEF g
<1>3. /\ g \in [0 .. Len(src) -> Place]
      /\ g[0] = "units"
      /\ g[Len(src)] = "units"
      /\ \A n \in 1 .. Len(src) :
           IF n \in Significant(src) THEN Goes(g[n - 1], src[n], g[n])
           ELSE g[n] = g[n - 1] /\ g[n] \notin Tight
      /\ \A n \in 1 .. Len(src) - 1 :
           src[n] = "CE" /\ g[n] \in Bodies => src[n + 1] \notin Letters
  BY <1>2 DEF Parses
<1>4. \A n \in Significant(src) : n \in 1 .. Len(src)
  BY <1>1, SignificantIs
<1>5. QED
  BY <1>3, <1>4 DEF g

-----------------------------------------------------------------------------
(* What flex may find next, at a place of the text.                        *)

(* From here on, s leads to the end of the text.                           *)
Onward(s, here) == Path(Steps, Place, s, here, "units")

(* The item that flex reads next leads on from here.                       *)
LEMMA HeadLeads ==
  ASSUME TypeOK, NEW here \in Place, Onward(input, here), input # <<>>
  PROVE  \E next \in Place : Leads(Next1, here, next) /\ Onward(Tail(input), next)
<1>1. /\ input \in Seq(Items) /\ Tail(input) \in Seq(Items)
      /\ Next1 \in Items /\ RestOf(Tail(input), input, 1)
  BY WaitingTyped, TailIsRest
<1>2. PICK next \in Place : /\ <<input[1], here, next>> \in Steps
                            /\ Path(Steps, Place, Tail(input), next, "units")
  BY <1>1, PathTail DEF Onward
<1>3. Leads(Next1, here, next)
  BY <1>1, <1>2, StepsAre DEF Next1
<1>4. QED
  BY <1>2, <1>3, Zenon DEF Onward

(* Layout, and the body of a literal, lead nowhere.                        *)
LEMMA BlankNext ==
  ASSUME TypeOK, NEW here \in Place, Onward(input, here), input # <<>>,
         Next1.cls \in Blank
  PROVE  Onward(Tail(input), here)
<1>1. PICK next \in Place : Leads(Next1, here, next) /\ Onward(Tail(input), next)
  BY HeadLeads
<1>2. next = here
  BY <1>1 DEF Leads
<1>3. QED
  BY <1>1, <1>2

LEMMA BodyNext ==
  ASSUME TypeOK, NEW here \in Place, Onward(input, here), input # <<>>,
         Next1.cls = "TBODY"
  PROVE  Onward(Tail(input), here)
<1>1. PICK next \in Place : Leads(Next1, here, next) /\ Onward(Tail(input), next)
  BY HeadLeads
<1>2. next = here
  BY <1>1 DEF Leads, Blank
<1>3. QED
  BY <1>1, <1>2

(* A word goes where the grammar says; the mark of a literal as the literal.*)
Whole(c) == IF c = "MARK" THEN "TIME" ELSE c

LEMMA WordNext ==
  ASSUME TypeOK, ReadingInv, Parses(src, G), NEW here \in Place, Onward(input, here),
         input # <<>>, ~ InComment, Next1.cls \notin Blank \cup {"CB", "TBODY"}
  PROVE  \E next \in Place : /\ next = G[Next1.at]
                             /\ Goes(here, Whole(Next1.cls), next)
                             /\ Onward(Tail(input), next)
<1>1. PICK next \in Place : Leads(Next1, here, next) /\ Onward(Tail(input), next)
  BY HeadLeads
<1>2. here = G[Next1.at - 1] /\ next = G[Next1.at]
  BY <1>1 DEF Leads
<1>3. Outside(src, Next1.at) /\ FromText(Next1) /\ src \in Seq(Lexeme)
  BY PlainNext, WaitingTyped DEF ReadingInv, Faithful, TypeOK, TextTyped
<1>4. src[Next1.at] = Whole(Next1.cls)
  <2>1. \A n \in DOMAIN src : src[n] \in Lexeme
    BY <1>3
  <2>2. "MARK" \notin Lexeme
    BY DEF Lexeme, Blank, Letters, Headed, Punct
  <2>3. QED
    BY <1>3, <2>1, <2>2 DEF FromText, Whole
<1>5. Whole(Next1.cls) \notin Blank
  BY DEF Whole, Blank
<1>6. Next1.at \in Significant(src)
  BY <1>3, <1>4, <1>5, SignificantIs DEF FromText
<1>7. Goes(here, src[Next1.at], next)
  BY <1>2, <1>6, PlacesAre
<1>8. QED
  BY <1>1, <1>2, <1>4, <1>7, Zenon

(* In a comment, or where one opens, flex reads the text itself, and       *)
(* nothing of it counts.                                                   *)
LEMMA CommentReads ==
  ASSUME TypeOK, ReadingInv, Parses(src, G), input # <<>>, InComment \/ Next1.cls = "CB"
  PROVE  \E n \in 1 .. Len(src) :
           /\ Next1 = Item(src, n)
           /\ InComment <=> CommentOpen(src)[n - 1]
           /\ n \notin Significant(src)
           /\ G[n] = G[n - 1] /\ G[n] \notin Tight
           /\ Len(input) > 1 => n \in 1 .. Len(src) - 1 /\ input[2] = Item(src, n + 1)
<1> DEFINE N == Len(src)
           L == Len(input)
           n == N - L + 1
<1>1. /\ src \in Seq(Lexeme) /\ input \in Seq(Items) /\ L \in Nat \ {0} /\ N \in Nat
  BY WaitingTyped DEF TypeOK, TextTyped
<1>2. ReadUpTo(src, input, InComment, 0)
  BY FreshNext DEF ReadingInv
<1>3. n \in 1 .. N /\ n - 1 = N - L /\ 1 + N - L = n /\ 1 \in 0 + 1 .. L /\ N - (L - 0) = n - 1
  BY <1>1, <1>2 DEF ReadUpTo
<1>4. Next1 = Item(src, n)
  BY <1>2, <1>3 DEF ReadUpTo, Next1
<1>5. InComment <=> CommentOpen(src)[n - 1]
  BY <1>2, <1>3 DEF ReadUpTo
<1>6. L > 1 => n \in 1 .. N - 1 /\ input[2] = Item(src, n + 1)
  <2> SUFFICES ASSUME L > 1 PROVE n \in 1 .. N - 1 /\ input[2] = Item(src, n + 1)
    OBVIOUS
  <2>1. 2 \in 0 + 1 .. L /\ 2 + N - L = n + 1 /\ L <= N
    BY <1>1, <1>2 DEF ReadUpTo
  <2>2. QED
    BY <1>1, <1>2, <2>1 DEF ReadUpTo
<1> HIDE DEF n
<1>7. Next1.cls = src[n]
  BY <1>4 DEF Item
<1>8. n \notin Significant(src)
  <2>1. CASE InComment
    BY <1>5, <2>1 DEF Significant
  <2>2. CASE Next1.cls = "CB"
    BY <1>1, <1>3, <1>7, <2>2, SignificantIs, NoneOutsideOpens
  <2>3. QED
    BY <2>1, <2>2
<1>9. G[n] = G[n - 1] /\ G[n] \notin Tight
  BY <1>3, <1>8, PlacesAre
<1>10. QED
  BY <1>3, <1>4, <1>5, <1>6, <1>8, <1>9

(* So the place stays.                                                     *)
LEMMA CommentNext ==
  ASSUME TypeOK, ReadingInv, Parses(src, G), NEW here \in Place, Onward(input, here),
         input # <<>>, InComment \/ Next1.cls = "CB"
  PROVE  /\ Next1.cls \notin Blank => here \notin Tight
         /\ Onward(Tail(input), here)
         /\ Next1.cls = "CE" /\ here \in Bodies /\ Len(input) > 1 =>
              input[2].cls \notin Letters
<1>1. PICK n \in 1 .. Len(src) :
        /\ Next1 = Item(src, n)
        /\ G[n] = G[n - 1] /\ G[n] \notin Tight
        /\ Len(input) > 1 => n \in 1 .. Len(src) - 1 /\ input[2] = Item(src, n + 1)
  BY CommentReads
<1>2. Next1.at = n /\ Next1.cls = src[n]
  BY <1>1 DEF Item
<1>3. PICK next \in Place : Leads(Next1, here, next) /\ Onward(Tail(input), next)
  BY HeadLeads
<1>4. Next1.cls # "TBODY"
  <2>1. src[n] \in Lexeme
    BY DEF TypeOK, TextTyped
  <2>2. QED
    BY <1>2, <2>1 DEF Lexeme, Blank, Letters, Headed, Punct
<1>5. next = here /\ (Next1.cls \notin Blank => here = G[n])
  BY <1>1, <1>2, <1>3, <1>4 DEF Leads
<1>6. ASSUME Next1.cls = "CE", here \in Bodies, Len(input) > 1
      PROVE  input[2].cls \notin Letters
  <2>1. here = G[n]
    BY <1>5, <1>6 DEF Blank
  <2>2. src[n + 1] \notin Letters
    BY <1>1, <1>2, <1>6, <2>1, PlacesAre
  <2>3. QED
    BY <1>1, <1>6, <2>2 DEF Item
<1>7. QED
  BY <1>1, <1>3, <1>5, <1>6

(* Where something is due at once: it is what flex reads next.             *)
DueAt(p) == IF p = "prio" THEN "PRIO" ELSE "VAR"

Due(here) == here \in Tight => input # <<>> /\ Next1.cls = DueAt(here)

(* What is due is what the grammar allows there.                           *)
LEMMA TightGoes ==
  ASSUME NEW p \in Tight, NEW c, NEW q, Goes(p, c, q)
  PROVE  c = DueAt(p)
  BY DEF Tight, Goes, PouGoes, ChartGoes, ConfGoes, DueAt

(* It is due after every word that leads to such a place.                  *)
LEMMA DueNext ==
  ASSUME TypeOK, ReadingInv, Joints, input # <<>>, NEW next \in Tight,
         next = G[Next1.at], Onward(Tail(input), next)
  PROVE  Tail(input) # <<>> /\ Tail(input)[1].cls = DueAt(next)
<1>1. /\ src \in Seq(Lexeme) /\ input \in Seq(Items) /\ Tail(input) \in Seq(Items)
      /\ Next1 \in Items /\ Len(input) \in Nat \ {0}
      /\ Len(Tail(input)) = Len(input) - 1
      /\ \A i \in 1 .. Len(input) - 1 : Tail(input)[i] = input[i + 1]
      /\ \A i \in 1 .. Len(input) : input[i] \in Elements(input)
  BY WaitingTyped, TailIsRest, ElementsTyped DEF RestOf, TypeOK, TextTyped
<1>2. Len(input) > 1
  <2> SUFFICES ASSUME ~ (Len(input) > 1) PROVE FALSE
    OBVIOUS
  <2>1. Len(Tail(input)) = 0
    BY <1>1
  <2>2. next = "units"
    BY <2>1, PathEmpty DEF Onward
  <2>3. QED
    BY <2>2 DEF Tight
<1>3. /\ 1 \in 1 .. Len(input) - 1 /\ 1 + 1 = 2 /\ 2 \in 1 .. Len(input)
      /\ Tail(input) # <<>> /\ Tail(input)[1] = input[2]
  <2>1. 1 \in 1 .. Len(input) - 1 /\ 1 + 1 = 2 /\ 2 \in 1 .. Len(input)
    BY <1>1, <1>2
  <2> DEFINE r == Tail(input)
  <2>2. /\ Len(r) = Len(input) - 1
        /\ \A i \in 1 .. Len(input) - 1 : r[i] = input[i + 1]
    BY <1>1
  <2> HIDE DEF r
  <2>3. Len(r) # 0
    BY <1>1, <1>2, <2>2
  <2>4. r # <<>>
    BY <2>3
  <2>5. r[1] = input[2]
    BY <2>1, <2>2
  <2>6. QED
    BY <2>1, <2>4, <2>5 DEF r
<1>4. <<input[1], input[1 + 1]>> \in Snug
  BY <1>3 DEF Joints, Adjacent
<1>5. input[2] = Item(src, Next1.at + 1)
  <2>1. input[1] = Next1
    BY DEF Next1
  <2>2. <<Next1, input[2]>> \in Snug
    BY <1>3, <1>4, <2>1
  <2>3. Fits(Next1, input[2])
    BY <2>2 DEF Snug
  <2>4. QED
    BY <2>3 DEF Fits
<1> DEFINE n == Next1.at
<1>6. n \in Nat
  BY <1>1 DEF Items
<1>7. FromText(Next1) /\ FromText(input[2])
  BY <1>1, <1>3, WaitingTyped DEF ReadingInv, Faithful, Waiting
<1>8. n + 1 \in 1 .. Len(src) /\ (n + 1) - 1 = n /\ input[2].cls = src[n + 1]
  BY <1>1, <1>5, <1>6, <1>7 DEF FromText, Item
<1>9. n + 1 \in Significant(src)
  <2> SUFFICES ASSUME n + 1 \notin Significant(src) PROVE FALSE
    OBVIOUS
  <2>1. G[n + 1] = G[(n + 1) - 1] /\ G[n + 1] \notin Tight
    BY <1>8, PlacesAre DEF Joints
  <2>2. QED
    BY <1>8, <2>1
<1>10. Goes(next, src[n + 1], G[n + 1])
  BY <1>8, <1>9, PlacesAre DEF Joints
<1>11. QED
  BY <1>3, <1>8, <1>10, TightGoes

-----------------------------------------------------------------------------
(* Where flex and bison are, at a place of the text.                       *)

(* Where bison is at a place of the text.                                  *)
ParseAt(p) == IF p \in PouPlaces THEN {"pou"}
              ELSE IF p = "block" THEN {"act", "block"}
              ELSE {p}

BodyStart == {"body_state", "il_state", "st_state"}

OnList == <<"vardecl_list_state">>

(* The start condition and its stack at a place of the text, outside       *)
(* comments and literals.                                                  *)
At(p, st, sk) ==
  \/ p = "units" /\ st = "INITIAL" /\ sk = <<>>
  \/ p = "header" /\ st = "header_state" /\ sk = <<>>
  \/ p = "vars" /\ st = "vardecl_state" /\ sk = OnList
  \/ p \in {"list", "pragma", "open", "chart"} /\ st = "vardecl_list_state" /\ sk = <<>>
  \/ p \in {"open", "body"} /\ st \in BodyStart /\ sk = OnList
  \/ /\ p \in {"head", "named", "step", "names", "comma", "assoc", "sfc", "ptrans"}
     /\ st = "sfc_state"
     /\ sk = OnList
  \/ p = "block" /\ st \in BodyStart /\ sk = Chart
  \/ /\ p \in {"qual", "timed", "timedval", "timedlook", "timedlit"}
     /\ st = "sfc_qualifier_state"
     /\ sk = Chart
  \/ p = "prio" /\ st = "sfc_priority_state" /\ sk = Chart
  \/ p \in {"conf", "tcomma"} /\ st = "config_state" /\ sk = <<>>
  \/ /\ p \in {"task", "tpar", "tval", "tprio", "tprioval"}
     /\ st = "task_init_state"
     /\ sk = <<"config_state">>

(* The places where a literal may be.                                      *)
Timed == {"units", "header", "vars", "open", "body", "block", "timedlit"}

(* The same below a comment or a literal that flex is in.                  *)
Below(p, sk) == /\ sk # <<>>
                /\ At(p, sk[Len(sk)], SubSeq(sk, 1, Len(sk) - 1))

Rests(p, st, sk) ==
  \/ st \notin {"comment_state", "time_literal_state"} /\ At(p, st, sk)
  \/ st = "comment_state" /\ Below(p, sk)
  \/ st = "time_literal_state" /\ p \in Timed /\ Below(p, sk) /\ sk[Len(sk)] \in Inclusive

(* On the way from one to the other, as rules give the word c back.        *)
Passes(p, c, st, sk) ==
  \/ p = "header" /\ c \in {"VAR", "ENDPOU"} /\ st = "vardecl_list_state" /\ sk = <<>>
  \/ p \in {"header", "list", "pragma"} /\ c = "VAR" /\ st = "vardecl_state" /\ sk = OnList
  \/ /\ p \in {"header", "list", "open", "body", "sfc"}
     /\ c = "ENDPOU"
     /\ st = "INITIAL"
     /\ sk = <<>>
  \/ p \in {"body", "sfc"} /\ c = "ENDPOU" /\ st = "vardecl_list_state" /\ sk = <<>>
  \/ p = "block" /\ c = "ENDBLK" /\ st = "sfc_state" /\ sk = OnList
  \/ p = "chart" /\ c = "ISTEP" /\ st \in {"sfc_state", "body_state"} /\ sk = OnList

Parts == {"WORD", "STKW", "SEMI", "ASSIGN", "COMMA", "COLON", "CLOSE", "TSHARP", "PRAGMA"}

(* The token k takes bison from a place to the next.                       *)
Takes(b, k, q) ==
  \/ b \in PouPlaces /\ q \in PouPlaces /\ k \in Class \ {"ISTEP", "CONF"}
  \/ b \in {"chart", "sfc"} /\ q = "head" /\ k = "ISTEP"
  \/ b = "units" /\ q = "conf" /\ k = "CONF"
  \/ b = "block" /\ q = "block" /\ k \in BodyTokens \ {"ENDBLK"}
  \/ b = "block" /\ q = "sfc" /\ k = "ENDBLK"
  \/ b = "head" /\ q = "named" /\ k = "WORD"
  \/ b = "named" /\ q = "step" /\ k = "COLON"
  \/ b = "step" /\ q = "qual" /\ k = "OPENQ"
  \/ b = "step" /\ q = "sfc" /\ k = "ENDSTEP"
  \/ b = "qual" /\ q = "timed" /\ k = "TQUAL"
  \/ b = "qual" /\ q = "names" /\ k = "QUAL"
  \/ b = "timed" /\ q = "timedval" /\ k = "COMMA"
  \/ b = "timedval" /\ q = "timedlook" /\ k = "WORD"
  \/ b = "timedval" /\ q = "timedlit" /\ k = "TSHARP"
  \/ b = "timedlit" /\ q = "timedlit" /\ k = "TBODY"
  \/ b = "timedlit" /\ q = "names" /\ k = "MARK"
  \/ b \in {"qual", "timedlook", "names"} /\ q = "comma" /\ k = "COMMA"
  \/ b \in {"qual", "timedlook", "names"} /\ q = "assoc" /\ k = "CLOSE"
  \/ b = "comma" /\ q = "names" /\ k = "WORD"
  \/ b = "assoc" /\ q = "step" /\ k = "SEMI"
  \/ b = "sfc" /\ q = "block" /\ k \in {"TRANS", "ACTN"}
  \/ b = "sfc" /\ q = "prio" /\ k = "OPENP"
  \/ b = "sfc" /\ q = "units" /\ k = "ENDPOU"
  \/ b = "prio" /\ q = "ptrans" /\ k = "PRIO"
  \/ b = "ptrans" /\ q = "ptrans" /\ k \in {"WORD", "ASSIGN", "CLOSE"}
  \/ b = "ptrans" /\ q = "block" /\ k = "TRANS"
  \/ b = "conf" /\ q = "task" /\ k = "OPENT"
  \/ b = "conf" /\ q = "units" /\ k = "ENDCONF"
  \/ b = "conf" /\ q = "conf" /\ k \in Parts
  \/ b = "task" /\ q = "tpar" /\ k = "TPAR"
  \/ b = "task" /\ q = "tprio" /\ k = "PRIO"
  \/ b = "tpar" /\ q = "tval" /\ k = "ASSIGN"
  \/ b = "tval" /\ q = "tcomma" /\ k = "WORD"
  \/ b = "tcomma" /\ q = "task" /\ k = "COMMA"
  \/ b = "tprio" /\ q = "tprioval" /\ k = "ASSIGN"
  \/ b = "tprioval" /\ q = "conf" /\ k = "WORD"

(* The commands bison leaves on the way from b to q.                       *)
Asks(b, q) ==
  CASE b = "step" /\ q = "qual" -> {"qualifier"}
    [] b \in {"sfc", "ptrans"} /\ q = "block" -> {"body"}
    [] b = "sfc" /\ q = "prio" -> {"priority"}
    [] q = "task" -> {"task"}
    [] b = "qual" /\ q \in {"names", "comma", "assoc"} -> {"pop"}
    [] b = "timedlit" /\ q = "names" -> {"pop"}
    [] b \in {"timedlook", "prio", "tval", "tprioval"} -> {"pop"}
    [] OTHER -> {}

(* Flex goes on with the token itself, or waits for those commands.        *)
FlexMoved(b, q) == b \in PouPlaces \/ b = "block" \/ q = "units"

FlexAt(b, q) == IF FlexMoved(b, q) THEN q ELSE b

-----------------------------------------------------------------------------
(* A word, as the token it is in flex's start condition, takes bison on.   *)
LEMMA TokenFits ==
  ASSUME NEW p, NEW q, NEW st \in Inclusive, NEW sk, NEW c \in Lexeme,
         At(p, st, sk), Goes(p, c, q), c \notin OwnRules(st)
  PROVE  Takes(p, TokenClass(c, st), q) /\ At(FlexAt(p, q), st, sk)
<1>1. TokenClass(c, st) \in Class
  BY TokenClassTyped DEF Marked
<1>2. CASE st = "INITIAL"
  <2>1. p = "units" /\ sk = <<>>
    BY <1>2 DEF At, BodyStart
  <2>2. q = "units" /\ c \in Plain
    BY <1>2, <2>1 DEF Goes, PouGoes, ChartGoes, ConfGoes, OwnRules
  <2>3. TokenClass(c, st) \notin {"ISTEP", "CONF"}
    BY <2>2 DEF Plain, Name, Value, TokenClass
  <2>4. QED
    BY <1>1, <1>2, <2>1, <2>2, <2>3 DEF Takes, At, FlexAt, FlexMoved, PouPlaces
<1>3. CASE st \in {"header_state", "vardecl_state"}
  <2>1. (p = "header" /\ st = "header_state") \/ (p = "vars" /\ st = "vardecl_state")
    BY <1>3 DEF At, BodyStart
  <2>2. q = p /\ c \in Plain
    <3>1. CASE p = "header" /\ st = "header_state"
      <4>1. c \notin {"VAR", "ENDPOU", "TIME"}
        BY <3>1 DEF OwnRules
      <4>2. QED
        BY <3>1, <4>1 DEF Goes, PouGoes, ChartGoes, ConfGoes
    <3>2. CASE p = "vars" /\ st = "vardecl_state"
      <4>1. c \notin {"ENDVAR", "TIME"}
        BY <3>2 DEF OwnRules
      <4>2. QED
        BY <3>2, <4>1 DEF Goes, PouGoes, ChartGoes, ConfGoes
    <3>3. QED
      BY <2>1, <3>1, <3>2
  <2>3. TokenClass(c, st) \notin {"ISTEP", "CONF"}
    BY <2>2 DEF Plain, Name, Value, TokenClass
  <2>4. Takes(p, TokenClass(c, st), q)
    BY <1>1, <2>1, <2>2, <2>3 DEF Takes, PouPlaces
  <2>5. QED
    BY <2>2, <2>4 DEF FlexAt
<1>4. CASE st \in {"il_state", "st_state"} /\ p \in {"open", "body"}
  <2>0. c \notin {"ENDPOU", "TIME"}
    BY DEF OwnRules
  <2>1. q \in {"open", "body"} /\ c \in Plain
    BY <1>4, <2>0 DEF Goes, PouGoes, ChartGoes, ConfGoes, Plain
  <2>2. TokenClass(c, st) \notin {"ISTEP", "CONF"}
    BY <2>1 DEF Plain, Name, Value, TokenClass
  <2>3. Takes(p, TokenClass(c, st), q)
    BY <1>1, <1>4, <2>1, <2>2 DEF Takes, PouPlaces
  <2>4. sk = OnList
    BY <1>4 DEF At
  <2>5. QED
    BY <1>4, <2>1, <2>3, <2>4 DEF At, BodyStart, FlexAt
<1>5. CASE st \in {"il_state", "st_state"} /\ p = "block"
  <2>1. q = "block" /\ c \in Plain
    BY <1>5 DEF Goes, PouGoes, ChartGoes, ConfGoes, OwnRules
  <2>2. TokenClass(c, st) \in BodyTokens \ {"ENDBLK"}
    BY <1>5, <2>1 DEF Plain, Name, Value, TokenClass, BodyTokens
  <2>3. QED
    BY <1>5, <2>1, <2>2 DEF Takes, FlexAt
<1>6. CASE st = "sfc_state"
  <2>1. /\ p \in {"head", "named", "step", "names", "comma", "assoc", "sfc", "ptrans"}
        /\ sk = OnList
    BY <1>6 DEF At, BodyStart
  <2>2. c # "ENDPOU"
    BY DEF OwnRules
  <2>3. CASE p \in {"head", "named", "step", "assoc"}
    BY <1>6, <2>1, <2>3 DEF Goes, PouGoes, ChartGoes, ConfGoes, Name, Value, TokenClass, Takes,
       FlexAt, FlexMoved, PouPlaces
  <2>4. CASE p \in {"names", "comma"}
    BY <1>6, <2>1, <2>4 DEF Goes, PouGoes, ChartGoes, ConfGoes, Name, Value, TokenClass, Takes,
       FlexAt, FlexMoved, PouPlaces
  <2>5. CASE p = "sfc"
    BY <1>6, <2>1, <2>2, <2>5 DEF Goes, PouGoes, ChartGoes, ConfGoes, TokenClass, Takes, FlexAt,
       FlexMoved, PouPlaces
  <2>6. CASE p = "ptrans"
    BY <1>6, <2>1, <2>6 DEF Goes, PouGoes, ChartGoes, ConfGoes, Name, Value, TokenClass, Takes,
       FlexAt, FlexMoved, PouPlaces
  <2>7. QED
    BY <2>1, <2>3, <2>4, <2>5, <2>6
<1>7. CASE st = "sfc_qualifier_state"
  <2>0. c # "TIME"
    BY DEF OwnRules
  <2>1. p \in {"qual", "timed", "timedval", "timedlook"}
    BY <1>7, <2>0 DEF At, BodyStart, Goes, PouGoes, ChartGoes, ConfGoes
  <2>2. q \in ChartPlaces /\ ~ FlexMoved(p, q)
    BY <2>1 DEF Goes, PouGoes, ChartGoes, ConfGoes, ChartPlaces, FlexMoved, PouPlaces
  <2>3. Takes(p, TokenClass(c, st), q)
    BY <1>7, <2>1 DEF Goes, PouGoes, ChartGoes, ConfGoes, Value, TokenClass, Takes
  <2>4. QED
    BY <2>2, <2>3 DEF FlexAt
<1>8. CASE st = "sfc_priority_state"
  <2>1. p = "prio"
    BY <1>8 DEF At, BodyStart
  <2>2. QED
    BY <1>8, <2>1 DEF Goes, PouGoes, ChartGoes, ConfGoes, TokenClass, Takes, FlexAt, FlexMoved,
       PouPlaces
<1>9. CASE st = "config_state"
  <2>1. p \in {"conf", "tcomma"} /\ c # "ENDCONF"
    BY <1>9 DEF At, BodyStart, OwnRules
  <2>2. q \in ConfPlaces /\ ~ FlexMoved(p, q)
    BY <2>1 DEF Goes, PouGoes, ChartGoes, ConfGoes, ConfPlaces, FlexMoved, PouPlaces
  <2>3. Takes(p, TokenClass(c, st), q)
    BY <1>9, <2>1 DEF Goes, PouGoes, ChartGoes, ConfGoes, Plain, Name, Value, TokenClass, Takes,
       Parts
  <2>4. QED
    BY <2>2, <2>3 DEF FlexAt
<1>10. CASE st = "task_init_state"
  <2>1. p \in {"task", "tpar", "tval", "tprio", "tprioval"}
    BY <1>10 DEF At, BodyStart
  <2>2. q \in ConfPlaces /\ ~ FlexMoved(p, q)
    BY <2>1 DEF Goes, PouGoes, ChartGoes, ConfGoes, ConfPlaces, FlexMoved, PouPlaces
  <2>3. Takes(p, TokenClass(c, st), q)
    BY <1>10, <2>1 DEF Goes, PouGoes, ChartGoes, ConfGoes, Datum, TokenClass, Takes
  <2>4. QED
    BY <2>2, <2>3 DEF FlexAt
<1>11. QED
  BY <1>2, <1>3, <1>4, <1>5, <1>6, <1>7, <1>8, <1>9, <1>10 DEF At, BodyStart, Inclusive

(* Bison, with a token that takes it from b to q, in a text without errors.*)
LEMMA BisonTakes ==
  ASSUME TypeOK, ~ Faulty(src), NEW b \in Place, NEW q \in Place, parse \in ParseAt(b),
         Takes(b, token.cls, q), BisonMoves
  PROVE  parse' \in ParseAt(q) /\ cmd' = [c \in Commands |-> c \in Asks(b, q)]
<1>1. CASE b \in PouPlaces
  <2>1. parse = "pou"
    BY <1>1 DEF ParseAt
  <2>2. Pou
    BY <2>1 DEF BisonMoves, Pou, Step, Association, Throw, RecoverStep, NextName, KeptOrCleared, IndicatorNames,
       Qualifier, TimedQualifier, ThrowBlock, RecoverBlock, Sfc, Priority, InsideBlock, Block,
       Configuration, AbandonTask, Task, Reduce
  <2>3. Asks(b, q) = {}
    BY <1>1 DEF Takes, Asks, PouPlaces, BodyTokens, Parts
  <2>4. QED
    BY <1>1, <2>2, <2>3 DEF Pou, Doubtful, Reduce, Takes, ParseAt, PouPlaces
<1>2. CASE b = "block"
  <2>1. parse \in {"act", "block"}
    BY <1>2 DEF ParseAt, PouPlaces
  <2>2. Block
    BY <1>2, <2>1 DEF BisonMoves, Pou, Step, Association, Throw, RecoverStep, NextName, KeptOrCleared, IndicatorNames,
       Qualifier, TimedQualifier, ThrowBlock, RecoverBlock, Sfc, Priority, InsideBlock, Block,
       Configuration, AbandonTask, Task, Reduce
  <2>3. QED
    BY <1>2, <2>1, <2>2 DEF Block, InsideBlock, ThrowBlock, BodyTokens, Doubtful, Reduce, Takes, Asks, ParseAt, PouPlaces,
       Class, Synthetic
<1>3. CASE b \in {"head", "named", "step", "assoc"}
  <2>1. parse = b
    BY <1>3 DEF ParseAt, PouPlaces
  <2>2. Step
    BY <1>3, <2>1 DEF BisonMoves, Pou, Step, Association, Throw, RecoverStep, NextName, KeptOrCleared, IndicatorNames,
       Qualifier, TimedQualifier, ThrowBlock, RecoverBlock, Sfc, Priority, InsideBlock, Block,
       Configuration, AbandonTask, Task, Reduce
  <2>3. QED
    BY <1>3, <2>1, <2>2 DEF Step, Association, Throw, Doubtful, Reduce, Takes, Asks, ParseAt, PouPlaces,
       Class, Synthetic
<1>4. CASE b \in {"names", "comma"}
  <2>1. parse = b
    BY <1>4 DEF ParseAt, PouPlaces
  <2>2. IndicatorNames
    BY <1>4, <2>1 DEF BisonMoves, Pou, Step, Association, Throw, RecoverStep, NextName, KeptOrCleared, IndicatorNames,
       Qualifier, TimedQualifier, ThrowBlock, RecoverBlock, Sfc, Priority, InsideBlock, Block,
       Configuration, AbandonTask, Task, Reduce
  <2>3. QED
    BY <1>4, <2>1, <2>2 DEF IndicatorNames, NextName, KeptOrCleared, Throw, SyntaxTokens, Runs, Doubtful, Reduce, Takes, Asks, ParseAt, PouPlaces,
       Class, Synthetic
<1>5. CASE b = "qual"
  <2>1. parse = b
    BY <1>5 DEF ParseAt, PouPlaces
  <2>2. Qualifier
    BY <1>5, <2>1 DEF BisonMoves, Pou, Step, Association, Throw, RecoverStep, NextName, KeptOrCleared, IndicatorNames,
       Qualifier, TimedQualifier, ThrowBlock, RecoverBlock, Sfc, Priority, InsideBlock, Block,
       Configuration, AbandonTask, Task, Reduce
  <2>3. QED
    BY <1>5, <2>1, <2>2 DEF Qualifier, NextName, Throw, Doubtful, Reduce, Takes, Asks, ParseAt, PouPlaces,
       Class, Synthetic
<1>6. CASE b \in {"timed", "timedval", "timedlook", "timedlit"}
  <2>1. parse = b
    BY <1>6 DEF ParseAt, PouPlaces
  <2>2. TimedQualifier
    BY <1>6, <2>1 DEF BisonMoves, Pou, Step, Association, Throw, RecoverStep, NextName, KeptOrCleared, IndicatorNames,
       Qualifier, TimedQualifier, ThrowBlock, RecoverBlock, Sfc, Priority, InsideBlock, Block,
       Configuration, AbandonTask, Task, Reduce
  <2>3. QED
    BY <1>6, <2>1, <2>2 DEF TimedQualifier, NextName, KeptOrCleared, Throw, SyntaxTokens,
       Runs, Doubtful, Reduce, Takes, Asks, ParseAt, PouPlaces,
       Class, Synthetic
<1>7. CASE b = "sfc"
  <2>1. parse = b
    BY <1>7 DEF ParseAt, PouPlaces
  <2>2. Sfc
    BY <1>7, <2>1 DEF BisonMoves, Pou, Step, Association, Throw, RecoverStep, NextName, KeptOrCleared, IndicatorNames,
       Qualifier, TimedQualifier, ThrowBlock, RecoverBlock, Sfc, Priority, InsideBlock, Block,
       Configuration, AbandonTask, Task, Reduce
  <2>3. QED
    BY <1>7, <2>1, <2>2 DEF Sfc, ThrowBlock, Doubtful, Reduce, Takes, Asks, ParseAt, PouPlaces,
       Class, Synthetic
<1>8. CASE b \in {"prio", "ptrans"}
  <2>1. parse = b
    BY <1>8 DEF ParseAt, PouPlaces
  <2>2. Priority
    BY <1>8, <2>1 DEF BisonMoves, Pou, Step, Association, Throw, RecoverStep, NextName, KeptOrCleared, IndicatorNames,
       Qualifier, TimedQualifier, ThrowBlock, RecoverBlock, Sfc, Priority, InsideBlock, Block,
       Configuration, AbandonTask, Task, Reduce
  <2>3. QED
    BY <1>8, <2>1, <2>2 DEF Priority, ThrowBlock, Doubtful, Reduce, Takes, Asks, ParseAt, PouPlaces,
       Class, Synthetic
<1>9. CASE b = "conf"
  <2>1. parse = b
    BY <1>9 DEF ParseAt, PouPlaces
  <2>2. Configuration
    BY <1>9, <2>1 DEF BisonMoves, Pou, Step, Association, Throw, RecoverStep, NextName, KeptOrCleared, IndicatorNames,
       Qualifier, TimedQualifier, ThrowBlock, RecoverBlock, Sfc, Priority, InsideBlock, Block,
       Configuration, AbandonTask, Task, Reduce
  <2>3. QED
    BY <1>9, <2>1, <2>2 DEF Configuration, Parts, Doubtful, Reduce, Takes, Asks, ParseAt, PouPlaces,
       Class, Synthetic
<1>10. CASE b \in {"task", "tpar", "tval", "tcomma", "tprio", "tprioval"}
  <2>1. parse = b
    BY <1>10 DEF ParseAt, PouPlaces
  <2>2. Task
    BY <1>10, <2>1 DEF BisonMoves, Pou, Step, Association, Throw, RecoverStep, NextName, KeptOrCleared, IndicatorNames,
       Qualifier, TimedQualifier, ThrowBlock, RecoverBlock, Sfc, Priority, InsideBlock, Block,
       Configuration, AbandonTask, Task, Reduce
  <2>3. QED
    BY <1>10, <2>1, <2>2 DEF Task, AbandonTask, Doubtful, Reduce, Takes, Asks, ParseAt, PouPlaces,
       Class, Synthetic
<1>11. QED
  BY <1>1, <1>2, <1>3, <1>4, <1>5, <1>6, <1>7, <1>8, <1>9, <1>10 DEF Place, ChartPlaces, ConfPlaces

-----------------------------------------------------------------------------
(* The inductive invariant.  It is at a place `here' of the grammar that   *)
(* the front end stands: what is still to be read leads from there to the  *)
(* end of the text, and flex and bison are where that place demands it.    *)

(* The places a body that is being collected goes from and to.             *)
Within(from, here) ==
  \/ from = "open" /\ here \in {"open", "body"}
  \/ from = here /\ here \in {"body", "block"}

Gap(here) ==
  Collecting =>
    \/ here = "chart" /\ AllBlank(buffer)
    \/ \E from \in Place : Within(from, here) /\ Path(Steps, Place, buffer, from, here)

ScanControl(here) ==
  /\ parse \in ParseAt(here)
  /\ \/ Rests(here, start, stack)
     \/ turn = "scan" /\ input # <<>> /\ Passes(here, Next1.cls, start, stack)

(* (Bison asks for nothing inside a literal.)                              *)
Awaits(b, here, st, sk) == /\ Rests(FlexAt(b, here), st, sk)
                           /\ Asks(b, here) # {} => st # "time_literal_state"

BisonControl(here) ==
  \E b \in Place : /\ parse \in ParseAt(b)
                   /\ Takes(b, token.cls, here)
                   /\ Awaits(b, here, start, stack)

EnterControl(here) ==
  \E b \in Place, k \in Class : /\ parse \in ParseAt(here)
                                /\ Takes(b, k, here)
                                /\ cmd = [c \in Commands |-> c \in Asks(b, here)]
                                /\ Awaits(b, here, start, stack)

Control(here) == /\ turn \in {"scan", "end"} => ScanControl(here)
                 /\ turn = "bison" => BisonControl(here)
                 /\ turn = "enter" => EnterControl(here)
                 /\ turn # "fatal"

Standing(here) == /\ Onward(input, here)
                  /\ Due(here)
                  /\ Gap(here)
                  /\ Control(here)

InStep == \E here \in Place : Standing(here)

-----------------------------------------------------------------------------
(* The few stacks there are.                                               *)
LEMMA Stacks ==
  /\ \A s \in StartCondition :
       /\ Append(<<>>, s) = <<s>> /\ <<s>> # <<>>
       /\ Len(<<s>>) = 1 /\ <<s>>[1] = s /\ SubSeq(<<s>>, 1, 1 - 1) = <<>>
  /\ Append(OnList, "sfc_state") = Chart /\ Chart # <<>> /\ OnList # <<>> /\ Chart # OnList
  /\ Len(OnList) = 1 /\ OnList[1] = "vardecl_list_state" /\ SubSeq(OnList, 1, 1 - 1) = <<>>
  /\ Len(Chart) = 2 /\ Chart[2] = "sfc_state" /\ SubSeq(Chart, 1, 2 - 1) = OnList
<1>1. \A s \in StartCondition : /\ Append(<<>>, s) = <<s>> /\ <<s>> # <<>>
                                /\ Len(<<s>>) = 1 /\ <<s>>[1] = s
  OBVIOUS
<1>2. \A s \in StartCondition : SubSeq(<<s>>, 1, 1 - 1) = <<>>
  BY SubSeqEmpty
<1>3. /\ Len(OnList) = 1 /\ OnList[1] = "vardecl_list_state"
      /\ Len(Chart) = 2 /\ Chart[1] = "vardecl_list_state" /\ Chart[2] = "sfc_state"
  BY DEF OnList, Chart
<1>4. OnList \in Seq(StartCondition) /\ Chart \in Seq(StartCondition)
  BY DEF OnList, Chart, StartCondition, Inclusive, Exclusive
<1>5. Chart # <<>> /\ OnList # <<>> /\ Chart # OnList
  BY <1>3
<1>6. Append(OnList, "sfc_state") = Chart
  <2>1. "sfc_state" \in StartCondition
    BY DEF StartCondition, Inclusive
  <2> DEFINE t == Append(OnList, "sfc_state")
  <2>2. /\ t \in Seq(StartCondition) /\ Len(t) = Len(OnList) + 1
        /\ \A i \in 1 .. Len(OnList) : t[i] = OnList[i]
        /\ t[Len(OnList) + 1] = "sfc_state"
    BY <1>4, <2>1, AppendProperties
  <2> HIDE DEF t
  <2>3. Len(t) = Len(Chart) /\ t[1] = Chart[1] /\ t[2] = Chart[2]
    BY <1>3, <2>2
  <2>4. \A i \in 1 .. Len(t) : t[i] = Chart[i]
    BY <1>3, <2>3
  <2>5. t = Chart
    BY <1>4, <2>2, <2>3, <2>4, SeqEqual
  <2>6. QED
    BY <2>5 DEF t
<1>7. SubSeq(OnList, 1, 1 - 1) = <<>>
  BY SubSeqEmpty
<1>8. SubSeq(Chart, 1, 2 - 1) = OnList
  <2> DEFINE t == SubSeq(Chart, 1, Len(Chart) - 1)
  <2>1. /\ t \in Seq(StartCondition) /\ Len(t) = Len(Chart) - 1
        /\ \A i \in 1 .. Len(Chart) - 1 : t[i] = Chart[i]
    BY <1>4, <1>5, PopTyped
  <2>2. t = SubSeq(Chart, 1, 2 - 1)
    BY <1>3
  <2> HIDE DEF t
  <2>3. Len(t) = Len(OnList) /\ \A i \in 1 .. Len(t) : t[i] = OnList[i]
    BY <1>3, <2>1
  <2>4. t = OnList
    BY <1>4, <2>1, <2>3, SeqEqual
  <2>5. QED
    BY <2>2, <2>4
<1>9. QED
  BY <1>1, <1>2, <1>3, <1>5, <1>6, <1>7, <1>8

(* Without a command flex is where the next place demands it to be.        *)
LEMMA NothingAsked ==
  ASSUME NEW b \in Place, NEW k \in Class, NEW q \in Place, Takes(b, k, q), Asks(b, q) = {},
         NEW st, NEW sk, st # "comment_state", Rests(FlexAt(b, q), st, sk)
  PROVE  Rests(q, st, sk)
<1>1. CASE FlexMoved(b, q)
  BY <1>1 DEF FlexAt
<1>2. CASE b = q
  BY <1>2 DEF FlexAt
<1>3. CASE ~ FlexMoved(b, q) /\ b # q
  <2>1. b \notin Timed /\ Rests(b, st, sk)
    BY <1>3 DEF FlexAt, FlexMoved, PouPlaces, Timed, Takes, Asks
  <2>2. At(b, st, sk) /\ st # "time_literal_state"
    BY <2>1 DEF Rests
  <2>3. <<b, q>> \in {<<"sfc", "head">>, <<"head", "named">>, <<"named", "step">>,
                      <<"step", "sfc">>, <<"qual", "timed">>, <<"timed", "timedval">>,
                      <<"timedval", "timedlook">>, <<"timedval", "timedlit">>,
                      <<"names", "comma">>, <<"names", "assoc">>, <<"comma", "names">>,
                      <<"assoc", "step">>, <<"task", "tpar">>, <<"task", "tprio">>,
                      <<"tpar", "tval">>, <<"tprio", "tprioval">>}
    BY <1>3 DEF Takes, FlexMoved, PouPlaces, Asks
  <2>4. At(q, st, sk)
    BY <2>2, <2>3 DEF At
  <2>5. QED
    BY <2>2, <2>4 DEF Rests
<1>4. QED
  BY <1>1, <1>2, <1>3

(* With one it gets there when yylex is entered.                           *)
LEMMA Asked ==
  ASSUME NEW b \in Place, NEW k \in Class, NEW q \in Place, Takes(b, k, q), Asks(b, q) # {}
  PROVE  /\ FlexAt(b, q) = b
         /\ \/ b = "step" /\ q = "qual" /\ Asks(b, q) = {"qualifier"}
            \/ b \in {"sfc", "ptrans"} /\ q = "block" /\ Asks(b, q) = {"body"}
            \/ b = "sfc" /\ q = "prio" /\ Asks(b, q) = {"priority"}
            \/ b \in {"conf", "tcomma"} /\ q = "task" /\ Asks(b, q) = {"task"}
            \/ /\ b \in {"qual", "timedlook", "timedlit"}
               /\ q \in {"names", "comma", "assoc"}
               /\ Asks(b, q) = {"pop"}
            \/ b = "prio" /\ q = "ptrans" /\ Asks(b, q) = {"pop"}
            \/ b = "tval" /\ q = "tcomma" /\ Asks(b, q) = {"pop"}
            \/ b = "tprioval" /\ q = "conf" /\ Asks(b, q) = {"pop"}
<1>1. ~ FlexMoved(b, q)
  BY DEF Takes, FlexMoved, PouPlaces, Asks
<1>2. FlexAt(b, q) = b
  BY <1>1 DEF FlexAt
<1>3. CASE q = "task"
  BY <1>1, <1>2, <1>3 DEF Takes, Asks, PouPlaces, FlexMoved
<1>4. CASE q # "task"
  BY <1>1, <1>2, <1>4 DEF Takes, Asks, PouPlaces, FlexMoved
<1>5. QED
  BY <1>3, <1>4

(* The commands that push are those after which flex is on a new stack.    *)
LEMMA PushesAre ==
  ASSUME NEW A \in SUBSET Commands, cmd = [c \in Commands |-> c \in A]
  PROVE  /\ A \in {{}, {"pop"}} => AfterPushes = [start |-> start, stack |-> stack]
         /\ A = {"body"} =>
              AfterPushes = [start |-> "body_state", stack |-> Append(stack, start)]
         /\ A = {"qualifier"} =>
              AfterPushes = [start |-> "sfc_qualifier_state", stack |-> Append(stack, start)]
         /\ A = {"priority"} =>
              AfterPushes = [start |-> "sfc_priority_state", stack |-> Append(stack, start)]
         /\ A = {"task"} =>
              AfterPushes = [start |-> "task_init_state", stack |-> Append(stack, start)]
         /\ cmd["pop"] <=> "pop" \in A
  BY DEF AfterPushes, Pushed, Commands

(* At the ends of a text no start condition is pushed.                     *)
LEMMA AtStart ==
  ASSUME NEW p, NEW st, NEW sk, At(p, st, sk)
  PROVE  st \notin {"comment_state", "time_literal_state"}
  BY DEF At, BodyStart

(* Entering yylex, flex obeys the commands that bison left: it is then     *)
(* where the place of the text demands it to be.                           *)
LEMMA EnterControls ==
  ASSUME TypeOK, Uncommented, NEW here \in Place, EnterControl(here), EnterYylex
  PROVE  /\ turn' = "scan"
         /\ start' \notin {"comment_state", "time_literal_state"} \/ start' = start
         /\ Rests(here, start', stack')
         /\ start = "time_literal_state" => start' = start
<1>1. PICK b \in Place, k \in Class :
         /\ parse \in ParseAt(here)
         /\ Takes(b, k, here)
         /\ cmd = [c \in Commands |-> c \in Asks(b, here)]
         /\ Awaits(b, here, start, stack)
  BY DEF EnterControl
<1> DEFINE A == Asks(b, here)
<1>2. start # "comment_state"
  BY DEF Uncommented, InComment, EnterYylex
<1>3. A \in SUBSET Commands
  BY DEF Asks, Commands
<1>4. CASE A = {}
  <2>0. AfterPushes = [start |-> start, stack |-> stack] /\ ~ cmd["pop"]
    BY <1>1, <1>3, <1>4, PushesAre
  <2>1. start' = start /\ stack' = stack /\ turn' = "scan"
    BY <2>0 DEF EnterYylex
  <2>2. Rests(here, start, stack)
    BY <1>1, <1>2, <1>4, NothingAsked DEF Awaits
  <2>3. QED
    BY <2>1, <2>2
<1>5. CASE A # {}
  <2>1. FlexAt(b, here) = b
    BY <1>1, <1>5, Asked
  <2>2. At(b, start, stack)
    BY <1>1, <1>2, <1>5, <2>1 DEF Rests, Awaits
  <2>9. start # "time_literal_state"
    BY <2>2, AtStart
  <2>3. CASE b = "step" /\ here = "qual" /\ A = {"qualifier"}
    <3>1. start = "sfc_state" /\ stack = OnList
      BY <2>2, <2>3 DEF At
    <3>2. turn' = "scan" /\ start' = "sfc_qualifier_state" /\ stack' = Append(stack, start)
      BY <1>1, <1>3, <2>3, PushesAre DEF EnterYylex
    <3>3. stack' = Chart
      BY <3>1, <3>2, Stacks
    <3>4. QED
      BY <2>9, <2>3, <3>2, <3>3 DEF Rests, At
  <2>4. CASE b \in {"sfc", "ptrans"} /\ here = "block" /\ A = {"body"}
    <3>1. start = "sfc_state" /\ stack = OnList
      BY <2>2, <2>4 DEF At
    <3>2. turn' = "scan" /\ start' = "body_state" /\ stack' = Append(stack, start)
      BY <1>1, <1>3, <2>4, PushesAre DEF EnterYylex
    <3>3. stack' = Chart
      BY <3>1, <3>2, Stacks
    <3>4. QED
      BY <2>9, <2>4, <3>2, <3>3 DEF Rests, At, BodyStart
  <2>5. CASE b = "sfc" /\ here = "prio" /\ A = {"priority"}
    <3>1. start = "sfc_state" /\ stack = OnList
      BY <2>2, <2>5 DEF At
    <3>2. turn' = "scan" /\ start' = "sfc_priority_state" /\ stack' = Append(stack, start)
      BY <1>1, <1>3, <2>5, PushesAre DEF EnterYylex
    <3>3. stack' = Chart
      BY <3>1, <3>2, Stacks
    <3>4. QED
      BY <2>9, <2>5, <3>2, <3>3 DEF Rests, At
  <2>6. CASE b \in {"conf", "tcomma"} /\ here = "task" /\ A = {"task"}
    <3>1. start = "config_state" /\ stack = <<>>
      BY <2>2, <2>6 DEF At
    <3>2. turn' = "scan" /\ start' = "task_init_state" /\ stack' = Append(stack, start)
      BY <1>1, <1>3, <2>6, PushesAre DEF EnterYylex
    <3>3. stack' = <<"config_state">>
      BY <3>1, <3>2
    <3>4. QED
      BY <2>9, <2>6, <3>2, <3>3 DEF Rests, At
  <2>7. CASE A = {"pop"}
    <3>1. AfterPushes = [start |-> start, stack |-> stack] /\ cmd["pop"]
      BY <1>1, <1>3, <2>7, PushesAre
    <3>2. stack # <<>> => /\ turn' = "scan" /\ start' = stack[Len(stack)]
                          /\ stack' = SubSeq(stack, 1, Len(stack) - 1)
      BY <3>1 DEF EnterYylex
    <3>3. CASE b \in {"qual", "timedlook", "timedlit"} /\ here \in {"names", "comma", "assoc"}
      <4>1. stack = Chart
        BY <2>2, <3>3 DEF At
      <4>2. turn' = "scan" /\ start' = "sfc_state" /\ stack' = OnList
        BY <3>2, <4>1, Stacks
      <4>3. QED
        BY <2>9, <3>3, <4>2 DEF Rests, At
    <3>4. CASE b = "prio" /\ here = "ptrans"
      <4>1. stack = Chart
        BY <2>2, <3>4 DEF At
      <4>2. turn' = "scan" /\ start' = "sfc_state" /\ stack' = OnList
        BY <3>2, <4>1, Stacks
      <4>3. QED
        BY <2>9, <3>4, <4>2 DEF Rests, At
    <3>5. CASE (b = "tval" /\ here = "tcomma") \/ (b = "tprioval" /\ here = "conf")
      <4>1. stack = <<"config_state">>
        BY <2>2, <3>5 DEF At
      <4>2. turn' = "scan" /\ start' = "config_state" /\ stack' = <<>>
        BY <3>2, <4>1
      <4>3. QED
        BY <2>9, <3>5, <4>2 DEF Rests, At
    <3>6. QED
      BY <1>1, <1>5, <2>7, <3>3, <3>4, <3>5, Asked
  <2>8. QED
    BY <1>1, <1>5, <2>3, <2>4, <2>5, <2>6, <2>7, Asked
<1>6. QED
  BY <1>4, <1>5

-----------------------------------------------------------------------------
(* Steps that keep the invariant: what they have in common.                *)

(* The invariant without the place.                                        *)
Sound == TypeOK /\ ReadingInv /\ Joints /\ Halved

GrammarInv == Joints /\ Halved /\ InStep

(* The text and its places stay the same.                                  *)
LEMMA SourceKept ==
  ASSUME src' = src
  PROVE  /\ G' = G
         /\ Steps' = Steps
         /\ Snug' = Snug
         /\ Parses(src, G) => Parses(src, G)'
<1>1. G' = G
  BY DEF G
<1>2. Steps' = Steps
  BY <1>1 DEF Steps, Leads
<1>3. Snug' = Snug
  BY <1>1 DEF Snug, Fits
<1>4. Parses(src, G) => Parses(src, G)'
  BY <1>1
<1>5. QED
  BY <1>1, <1>2, <1>3, <1>4

(* So does what leads to its end.                                          *)
LEMMA OnwardKept ==
  ASSUME src' = src, NEW here, Onward(input', here)
  PROVE  Onward(input, here)'
<1>1. Steps' = Steps
  BY SourceKept
<1>2. QED
  BY <1>1 DEF Onward

(* What is in the buffer between two bodies fits whatever follows.         *)
LEMMA BlankFits ==
  ASSUME TypeOK, Faithful, Parses(src, G), NEW x \in Waiting, NEW y \in Items,
         x.cls \in Blank
  PROVE  Fits(x, y) /\ G[x.at] \notin Tight /\ <<x, y>> \in Snug
<1>1. x \in Items /\ FromText(x) /\ src \in Seq(Lexeme)
  BY WaitingTyped DEF Faithful, TypeOK, TextTyped
<1>2. x.at \in 1 .. Len(src) /\ src[x.at] \in Blank
  BY <1>1 DEF FromText, Blank
<1>3. x.at \notin Significant(src)
  BY <1>2 DEF Significant
<1>4. G[x.at] \notin Tight
  BY <1>2, <1>3, PlacesAre
<1>5. x.cls \notin Letters
  BY DEF Blank, Letters
<1>6. QED
  BY <1>1, <1>4, <1>5, SnugAre DEF Fits

LEMMA BlankSeam ==
  ASSUME TypeOK, Faithful, Parses(src, G), AllBlank(buffer), buffer # <<>>, input # <<>>
  PROVE  <<buffer[Len(buffer)], Next1>> \in Snug
<1>1. buffer \in Seq(Items) /\ Next1 \in Items /\ Len(buffer) \in Nat \ {0}
  BY WaitingTyped
<1>2. Len(buffer) \in 1 .. Len(buffer)
  BY <1>1
<1>3. buffer[Len(buffer)] \in Elements(buffer)
  BY <1>1, <1>2, ElementsTyped
<1>4. QED
  BY <1>1, <1>3, BlankFits DEF AllBlank, Waiting

LEMMA BlankPath ==
  ASSUME TypeOK, AllBlank(buffer), NEW here \in Place
  PROVE  Path(Steps, Place, buffer, here, here)
<1>1. buffer \in Seq(Items) /\ \A x \in Elements(buffer) : x \in Items
  BY WaitingTyped DEF Waiting
<1>2. \A x \in Elements(buffer) : <<x, here, here>> \in Steps
  BY <1>1, StepsAre DEF AllBlank, Leads
<1>3. QED
  BY <1>1, <1>2, PathStays

-----------------------------------------------------------------------------
(* Rules that give the text back and go to another start condition.        *)
LEMMA Reconsidered ==
  ASSUME Sound, NEW here \in Place, Standing(here), turn = "scan",
         UNCHANGED <<src, input, buffer, turn, parse>>, input # <<>>,
         start # "time_literal_state",
         start' \notin {"comment_state", "time_literal_state"},
         start' = "body_state" => AllBlank(buffer) /\ here \in {"open", "chart"},
         Rests(here, start', stack') \/ Passes(here, Next1.cls, start', stack')
  PROVE  Standing(here)' /\ Joints' /\ Halved'
<1>1. G' = G /\ Steps' = Steps /\ Snug' = Snug /\ Parses(src, G)'
  BY SourceKept DEF Sound, Joints
<1>2. Next1' = Next1
  BY DEF Next1
<1>3. Onward(input, here)'
  BY OnwardKept DEF Standing
<1>4. Due(here)'
  BY <1>2 DEF Standing, Due
<1>5. Gap(here)'
  <2>1. CASE start' # "body_state"
    BY <2>1 DEF Gap, Collecting, InComment
  <2>2. CASE start' = "body_state" /\ here = "chart"
    BY <2>2 DEF Gap, AllBlank
  <2>3. CASE start' = "body_state" /\ here = "open"
    <3>1. Path(Steps, Place, buffer, here, here)
      BY <2>3, BlankPath DEF Sound
    <3>2. Path(Steps, Place, buffer, here, here)'
      BY <1>1, <3>1
    <3>3. Within(here, here)
      BY <2>3 DEF Within
    <3>4. QED
      BY <3>2, <3>3, Zenon DEF Gap
  <2>4. QED
    BY <2>1, <2>2, <2>3
<1>6. Control(here)'
  BY <1>2 DEF Standing, Control, ScanControl
<1>7. Joints'
  <2>1. Adjacent(Snug, input)' /\ Adjacent(Snug, buffer)' /\ Loose'
    BY <1>1 DEF Sound, Joints, Loose
  <2>2. Seamless'
    <3> SUFFICES ASSUME start' = "body_state", buffer # <<>>
                 PROVE  <<buffer[Len(buffer)], Next1>> \in Snug
      BY <1>1, <1>2 DEF Seamless
    <3>1. QED
      BY BlankSeam DEF Sound, ReadingInv, Joints
  <2>3. QED
    BY <1>1, <2>1, <2>2 DEF Joints
<1>8. Halved'
  BY <1>2 DEF Sound, Halved
<1>9. QED
  BY <1>3, <1>4, <1>5, <1>6, <1>7, <1>8 DEF Standing

(* What is left of the joints when the input is read on.                   *)
LEMMA ReadOn ==
  ASSUME Sound, TypeOK', UNCHANGED <<src, buffer>>, input # <<>>, input' = Tail(input),
         Seamless'
  PROVE  Joints'
<1>1. Snug' = Snug /\ Parses(src, G)' /\ G' = G
  BY SourceKept DEF Sound, Joints
<1>2. RestOf(input', input, 1) /\ input \in Seq(Items) /\ input' \in Seq(Items)
  BY TailRests, WaitingTyped DEF Sound, TypeOK, TextTyped
<1>3. Adjacent(Snug, input')
  BY <1>2, AdjacentRest DEF Sound, Joints
<1>4. Adjacent(Snug, input)' /\ Adjacent(Snug, buffer)' /\ Loose'
  BY <1>1, <1>3 DEF Sound, Joints, Loose
<1>5. QED
  BY <1>1, <1>4 DEF Joints

(* Rules that hand a token to bison.                                       *)
LEMMA Returned ==
  ASSUME Sound, TypeOK', NEW here \in Place, Standing(here), turn = "scan", input # <<>>,
         Return, UNCHANGED <<src, buffer, parse>>, parse \in ParseAt(here),
         NEW next \in Place, Onward(Tail(input), next),
         next \in Tight => next = G[Next1.at],
         Takes(here, TokenClass(Next1.cls, start), next),
         Awaits(here, next, start', stack')
  PROVE  Standing(next)' /\ Joints'
<1>1. input' = Tail(input) /\ turn' = "bison" /\ token'.cls = TokenClass(Next1.cls, start)
  BY DEF Return
<1>2. Onward(input, next)'
  BY <1>1, OnwardKept
<1>3. Due(next)'
  <2>1. next \in Tight => Tail(input) # <<>> /\ Tail(input)[1].cls = DueAt(next)
    BY DueNext DEF Sound
  <2>2. QED
    BY <1>1, <2>1 DEF Due, Next1
<1>4. Gap(next)'
  BY <1>1 DEF Gap, Collecting
<1>5. Control(next)'
  <2>1. BisonControl(next)'
    BY <1>1 DEF BisonControl
  <2>2. QED
    BY <1>1, <2>1 DEF Control
<1>6. Seamless'
  BY <1>1 DEF Seamless
<1>7. Joints'
  BY <1>1, <1>6, ReadOn
<1>8. QED
  BY <1>2, <1>3, <1>4, <1>5, <1>7 DEF Standing

(* No halves in what is left of the input.                                 *)
LEMMA HalvedRest ==
  ASSUME Sound, input # <<>>, input' = Tail(input), buffer' = buffer,
         start # "time_literal_state", start' # "time_literal_state"
  PROVE  Halved'
<1>1. input \in Seq(Items) /\ Tail(input) \in Seq(Items) /\ RestOf(input', input, 1)
  BY WaitingTyped, TailRests DEF Sound
<1>2. Elements(input') \subseteq Elements(input)
  BY <1>1, ElementsRest
<1>3. QED
  BY <1>2 DEF Sound, Halved

(* Rules that drop layout.                                                 *)
LEMMA Dropped ==
  ASSUME Sound, TypeOK', NEW here \in Place, Standing(here), turn = "scan", input # <<>>,
         Eat, UNCHANGED <<src, buffer, parse>>, Onward(Tail(input), here),
         here \notin Tight, start # "time_literal_state", start' # "time_literal_state",
         Rests(here, start', stack'), parse \in ParseAt(here),
         Gap(here)', Seamless'
  PROVE  Standing(here)' /\ Joints' /\ Halved'
<1>1. input' = Tail(input) /\ turn' = "scan"
  BY DEF Eat
<1>2. Onward(input, here)'
  BY <1>1, OnwardKept
<1>3. Due(here)'
  BY DEF Due
<1>4. Control(here)'
  BY <1>1 DEF Control, ScanControl
<1>5. Joints' /\ Halved'
  BY <1>1, ReadOn, HalvedRest
<1>6. QED
  BY <1>2, <1>3, <1>4, <1>5 DEF Standing

-----------------------------------------------------------------------------
(* The rules that give the text back: parser.l's yyless(0) or unput_text,  *)
(* and another start condition.                                            *)

(* Some place to be after the step.                                        *)
Safe == /\ \E here \in Place : Standing(here)'
        /\ Joints'
        /\ Halved'

(* To show that a step is safe, name the place.                            *)
LEMMA Placed ==
  ASSUME NEW here \in Place, Standing(here), turn = "scan",
         start \notin {"comment_state", "time_literal_state"}
  PROVE  /\ parse \in ParseAt(here)
         /\ \/ At(here, start, stack)
            \/ input # <<>> /\ Passes(here, Next1.cls, start, stack)
  BY DEF Standing, Control, ScanControl, Rests

(* What flex reads is a word of the text at a known place.                 *)
LEMMA NextWord ==
  ASSUME Sound, NEW here \in Place, Standing(here), turn = "scan", input # <<>>,
         start \notin {"comment_state", "time_literal_state"},
         Next1.cls \notin Blank \cup {"CB"}
  PROVE  /\ Next1.cls \in Lexeme
         /\ \E next \in Place : /\ next = G[Next1.at]
                                /\ Goes(here, Next1.cls, next)
                                /\ Onward(Tail(input), next)
<1>1. Next1 \in Items /\ Next1 \in Elements(input)
  BY WaitingTyped DEF Sound
<1>2. Next1.cls \notin Half /\ Next1.cls \in Marked
  BY <1>1 DEF Sound, Halved, Items
<1>3. Whole(Next1.cls) = Next1.cls /\ ~ InComment /\ Next1.cls \in Lexeme
  BY <1>2 DEF Whole, Half, InComment, Marked
<1>4. Next1.cls \notin Blank \cup {"CB", "TBODY"}
  BY <1>2 DEF Half
<1>5. QED
  BY <1>3, <1>4, WordNext DEF Sound, Joints, Standing

(* A rule that leaves flex at a place it rests at.                         *)
LEMMA SafeAt ==
  ASSUME NEW here \in Place, Standing(here)' /\ Joints' /\ Halved'
  PROVE  Safe
  BY DEF Safe

(* Giving the text back: from a resting place to one on the way, or back.  *)
LEMMA ReconsiderSafe ==
  ASSUME Sound, NEW here \in Place, Standing(here), UNCHANGED parse,
         \/ HeaderToVarList \/ EnterVarBlock \/ VarListToInitial \/ EnterBody \/ LeaveBody
         \/ BodyIsSfc \/ BodyIsTransition
  PROVE  Safe
<1>1. /\ turn = "scan" /\ input # <<>>
      /\ UNCHANGED <<src, input, buffer, turn, parse>>
      /\ start \notin {"comment_state", "time_literal_state"}
      /\ Next1.cls \notin Blank \cup {"CB"}
  BY DEF HeaderToVarList, EnterVarBlock, VarListToInitial, EnterBody, LeaveBody, BodyIsSfc,
     BodyIsTransition, BodyMatch, Rule, UnputText, bodyVars, Blank
<1>2. /\ parse \in ParseAt(here)
      /\ At(here, start, stack) \/ Passes(here, Next1.cls, start, stack)
  BY <1>1, Placed
<1>3. PICK next \in Place : next = G[Next1.at] /\ Goes(here, Next1.cls, next)
  BY <1>1, NextWord
<1>4. ASSUME start' \notin {"comment_state", "time_literal_state"},
             start' = "body_state" => AllBlank(buffer) /\ here \in {"open", "chart"},
             At(here, start', stack') \/ Passes(here, Next1.cls, start', stack')
      PROVE  Safe
  <2>1. Rests(here, start', stack') \/ Passes(here, Next1.cls, start', stack')
    BY <1>4 DEF Rests
  <2>2. Standing(here)' /\ Joints' /\ Halved'
    BY <1>1, <1>4, <2>1, Reconsidered
  <2>3. QED
    BY <2>2, SafeAt
<1>5. CASE HeaderToVarList
  <2>1. /\ start = "header_state" /\ start' = "vardecl_list_state" /\ stack' = stack
        /\ Next1.cls \in {"VAR", "ENDPOU"}
    BY <1>5 DEF HeaderToVarList, Rule, Begin
  <2>2. here = "header" /\ stack = <<>>
    BY <1>2, <2>1 DEF At, Passes, BodyStart
  <2>3. QED
    BY <1>4, <2>1, <2>2 DEF Passes
<1>6. CASE EnterVarBlock
  <2>1. /\ start = "vardecl_list_state" /\ start' = "vardecl_state"
        /\ stack' = Append(stack, start) /\ Next1.cls \in {"VAR", "VARWORD"}
    BY <1>6 DEF EnterVarBlock, Rule, PushState
  <2>2. stack = <<>> /\ here \in {"header", "list", "pragma", "open", "chart", "body", "sfc"}
    BY <1>2, <2>1 DEF At, Passes, BodyStart
  <2>3. here \in {"header", "body", "sfc"} => Passes(here, Next1.cls, start, stack)
    BY <1>2, <2>1 DEF At, BodyStart
  <2>4. here \notin {"body", "sfc"}
    BY <2>1, <2>3 DEF Passes
  <2>5. Next1.cls = "VAR" /\ here \in {"header", "list", "pragma"}
    <3>1. CASE here = "header"
      BY <2>1, <2>3, <3>1 DEF Passes
    <3>2. CASE here \in {"list", "pragma", "open", "chart"}
      BY <1>3, <2>1, <3>2 DEF Goes, PouGoes, ChartGoes, ConfGoes, Plain, Name, Value
    <3>3. QED
      BY <2>2, <2>4, <3>1, <3>2
  <2>6. stack' = OnList
    BY <2>1, <2>2 DEF OnList
  <2>7. QED
    BY <1>4, <2>1, <2>5, <2>6 DEF Passes
<1>7. CASE VarListToInitial
  <2>1. /\ start = "vardecl_list_state" /\ start' = "INITIAL" /\ stack' = stack
        /\ Next1.cls = "ENDPOU"
    BY <1>7 DEF VarListToInitial, Rule, Begin
  <2>2. stack = <<>> /\ here \in {"header", "list", "pragma", "open", "chart", "body", "sfc"}
    BY <1>2, <2>1 DEF At, Passes, BodyStart
  <2>3. here \notin {"pragma", "chart"}
    BY <1>3, <2>1 DEF Goes, PouGoes, ChartGoes, ConfGoes
  <2>4. QED
    BY <1>4, <2>1, <2>2, <2>3 DEF Passes
<1>8. CASE EnterBody
  <2>1. /\ start = "vardecl_list_state" /\ start' = "body_state"
        /\ stack' = Append(stack, start)
        /\ Next1.cls \notin {"VAR", "VARWORD", "ENDPOU"}
        /\ Next1.cls = "PRAGMA" => ~ VarFollows
    BY <1>8 DEF EnterBody, Rule, PushState
  <2>2. At(here, start, stack)
    BY <1>2, <2>1 DEF Passes
  <2>3. stack = <<>> /\ here \in {"list", "pragma", "open", "chart"}
    BY <2>1, <2>2 DEF At, BodyStart
  <2>4. stack' = OnList
    BY <2>1, <2>3 DEF OnList
  <2>5. AllBlank(buffer)
    BY <2>1 DEF Sound, ReadingInv, Collected, Collecting, InComment
  <2>6. here # "pragma"
    BY <1>3, <2>1 DEF Goes, PouGoes, ChartGoes, ConfGoes
  <2>7. here # "list"
    <3> SUFFICES ASSUME here = "list" PROVE FALSE
      OBVIOUS
    <3>1. Next1.cls = "PRAGMA" /\ next = "pragma"
      BY <1>3, <2>1 DEF Goes, PouGoes, ChartGoes, ConfGoes
    <3>2. Tail(input) # <<>> /\ Tail(input)[1].cls = "VAR"
      <4>1. PICK n \in Place : n = G[Next1.at] /\ Onward(Tail(input), n)
        BY <1>1, NextWord
      <4>2. next \in Tight /\ Onward(Tail(input), next)
        BY <1>3, <3>1, <4>1 DEF Tight
      <4>3. QED
        BY <1>1, <1>3, <3>1, <4>2, DueNext DEF Sound, DueAt
    <3>3. Len(input) > 1 /\ Tail(input)[1] = input[2]
      <4> DEFINE r == Tail(input)
      <4>1. /\ r \in Seq(Items) /\ r # <<>> /\ Len(r) = Len(input) - 1 /\ Len(input) \in Nat
            /\ \A i \in 1 .. Len(input) - 1 : r[i] = input[i + 1]
        BY <1>1, <3>2, WaitingTyped, TailIsRest DEF Sound, RestOf
      <4> HIDE DEF r
      <4>2. Len(r) \in Nat \ {0}
        BY <4>1
      <4>3. 1 \in 1 .. Len(input) - 1 /\ 1 + 1 = 2
        BY <4>1, <4>2
      <4>4. r[1] = input[2]
        BY <4>1, <4>3
      <4>5. QED
        BY <4>3, <4>4 DEF r
    <3>4. QED
      BY <2>1, <3>1, <3>2, <3>3 DEF VarFollows
  <2>8. CASE here = "open"
    BY <1>4, <2>1, <2>4, <2>5, <2>8 DEF At, BodyStart
  <2>9. CASE here = "chart"
    <3>1. Next1.cls = "ISTEP"
      BY <1>3, <2>9 DEF Goes, PouGoes, ChartGoes, ConfGoes
    <3>2. QED
      BY <1>4, <2>1, <2>4, <2>5, <2>9, <3>1 DEF Passes
  <2>10. QED
    BY <2>3, <2>6, <2>7, <2>8, <2>9
<1>9. CASE LeaveBody
  <2>1. /\ \/ start \in {"il_state", "st_state"} /\ Next1.cls \in {"ENDPOU", "ENDBLK"}
           \/ start = "sfc_state" /\ Next1.cls = "ENDPOU"
        /\ start' = stack[Len(stack)] /\ stack' = SubSeq(stack, 1, Len(stack) - 1)
    BY <1>9 DEF LeaveBody, Rule, PopState
  <2>2. At(here, start, stack)
    BY <1>2, <2>1 DEF Passes
  <2>3. CASE start = "sfc_state"
    <3>1. /\ here \in {"head", "named", "step", "names", "comma", "assoc", "sfc", "ptrans"}
          /\ stack = OnList
      BY <2>2, <2>3 DEF At, BodyStart
    <3>2. here = "sfc"
      BY <1>3, <2>1, <2>3, <3>1 DEF Goes, PouGoes, ChartGoes, ConfGoes, Plain, Name, Value
    <3>3. start' = "vardecl_list_state" /\ stack' = <<>>
      BY <2>1, <3>1, Stacks
    <3>4. QED
      BY <1>4, <2>1, <2>3, <3>2, <3>3 DEF Passes
  <2>4. CASE start \in {"il_state", "st_state"} /\ here \in {"open", "body"}
    <3>1. stack = OnList
      BY <2>2, <2>4 DEF At
    <3>2. Next1.cls = "ENDPOU"
      BY <1>3, <2>1, <2>4 DEF Goes, PouGoes, ChartGoes, ConfGoes, Plain, Name, Value
    <3>3. start' = "vardecl_list_state" /\ stack' = <<>>
      BY <2>1, <3>1, Stacks
    <3>4. At(here, start', stack') \/ Passes(here, Next1.cls, start', stack')
      BY <2>4, <3>2, <3>3 DEF At, Passes
    <3>5. QED
      BY <1>4, <3>3, <3>4
  <2>5. CASE start \in {"il_state", "st_state"} /\ here = "block"
    <3>1. stack = Chart
      BY <2>2, <2>5 DEF At
    <3>2. Next1.cls = "ENDBLK"
      BY <1>3, <2>1, <2>5 DEF Goes, PouGoes, ChartGoes, ConfGoes, Plain, Name, Value
    <3>3. start' = "sfc_state" /\ stack' = OnList
      BY <2>1, <3>1, Stacks
    <3>4. QED
      BY <1>4, <2>5, <3>2, <3>3 DEF Passes
  <2>6. QED
    BY <2>1, <2>2, <2>3, <2>4, <2>5 DEF At
<1>10. CASE BodyIsSfc
  <2>1. /\ start = "body_state" /\ start' = "sfc_state" /\ stack' = stack
        /\ Next1.cls = "ISTEP"
    BY <1>10 DEF BodyIsSfc, BodyMatch, Rule, Begin
  <2>2. here \notin {"open", "body", "block"}
    BY <1>3, <2>1 DEF Goes, PouGoes, ChartGoes, ConfGoes, Plain, Name, Value
  <2>3. here = "chart" /\ stack = OnList
    BY <1>2, <2>1, <2>2 DEF At, Passes, BodyStart
  <2>4. QED
    BY <1>4, <2>1, <2>3 DEF Passes
<1>11. CASE BodyIsTransition
  <2>1. /\ start = "body_state" /\ start' = "st_state" /\ stack' = stack
        /\ Next1.cls = "ASSIGN"
    BY <1>11 DEF BodyIsTransition, BodyMatch, Rule, Begin
  <2>2. At(here, start, stack)
    BY <1>2, <2>1 DEF Passes
  <2>3. At(here, start', stack')
    BY <2>1, <2>2 DEF At, BodyStart
  <2>4. QED
    BY <1>4, <2>1, <2>3
<1>12. QED
  BY <1>5, <1>6, <1>7, <1>8, <1>9, <1>10, <1>11

-----------------------------------------------------------------------------
(* The rules that return a token.                                          *)

(* A token of the text takes bison from this place to the next.            *)
LEMMA ReturnSafe ==
  ASSUME Sound, TypeOK', NEW here \in Place, Standing(here), UNCHANGED parse,
         \/ PouHeader \/ ConfHeader \/ PragmaBeforeVar \/ EndVar \/ EndUnit \/ ReturnToken
  PROVE  Safe
<1>1. /\ turn = "scan" /\ input # <<>> /\ Return
      /\ UNCHANGED <<src, buffer, parse>>
      /\ start \notin {"comment_state", "time_literal_state"}
      /\ Next1.cls \notin Blank \cup {"CB"}
  BY DEF PouHeader, ConfHeader, PragmaBeforeVar, EndVar, EndUnit, ReturnToken, Rule, bodyVars,
     Blank, Inclusive, OwnRules
<1>2. /\ parse \in ParseAt(here)
      /\ At(here, start, stack) \/ Passes(here, Next1.cls, start, stack)
  BY <1>1, Placed
<1>3. PICK next \in Place : /\ next = G[Next1.at]
                            /\ Goes(here, Next1.cls, next)
                            /\ Onward(Tail(input), next)
  BY <1>1, NextWord
<1>4. ASSUME start' # "time_literal_state", start' # "comment_state",
             Takes(here, TokenClass(Next1.cls, start), next),
             At(FlexAt(here, next), start', stack')
      PROVE  Safe
  <2>1. Awaits(here, next, start', stack')
    BY <1>4 DEF Rests, Awaits
  <2>2. Standing(next)' /\ Joints'
    BY <1>1, <1>2, <1>3, <1>4, <2>1, Returned
  <2>3. Halved'
    BY <1>1, <1>4, HalvedRest DEF Return
  <2>4. QED
    BY <2>2, <2>3, SafeAt
<1>5. CASE PouHeader \/ ConfHeader
  <2>1. /\ start = "INITIAL" /\ stack' = stack
        /\ \/ Next1.cls = "FUNC" /\ start' = "header_state"
           \/ Next1.cls = "CONF" /\ start' = "config_state"
    BY <1>5 DEF PouHeader, ConfHeader, Rule, Begin
  <2>2. here = "units" /\ stack = <<>>
    BY <1>2, <2>1 DEF At, Passes, BodyStart
  <2>3. \/ Next1.cls = "FUNC" /\ next = "header"
        \/ Next1.cls = "CONF" /\ next = "conf"
    BY <1>3, <2>1, <2>2 DEF Goes, PouGoes, ChartGoes, ConfGoes, Plain, Name, Value
  <2>4. TokenClass(Next1.cls, start) = Next1.cls
    BY <2>1 DEF TokenClass
  <2>5. FlexAt(here, next) = next
    BY <2>2 DEF FlexAt, FlexMoved, PouPlaces
  <2>6. Takes(here, Next1.cls, next)
    BY <2>2, <2>3 DEF Takes, PouPlaces, Class, Marked, Lexeme, Headed
  <2>7. At(next, start', stack')
    BY <2>1, <2>2, <2>3 DEF At
  <2>8. QED
    BY <1>4, <2>1, <2>4, <2>5, <2>6, <2>7
<1>6. CASE PragmaBeforeVar
  <2>1. /\ start = "vardecl_list_state" /\ start' = start /\ stack' = stack
        /\ Next1.cls = "PRAGMA"
    BY <1>6 DEF PragmaBeforeVar, Rule
  <2>2. stack = <<>> /\ here \in {"list", "pragma", "open", "chart"}
    BY <1>2, <2>1 DEF At, Passes, BodyStart
  <2>3. here \in PouPlaces /\ next \in {"pragma", "open"}
    BY <1>3, <2>1, <2>2 DEF Goes, PouGoes, ChartGoes, ConfGoes, Plain, Name, Value, PouPlaces
  <2>4. TokenClass(Next1.cls, start) = "PRAGMA"
    BY <2>1 DEF TokenClass
  <2>5. Takes(here, "PRAGMA", next)
    BY <2>3 DEF Takes, PouPlaces, Class, Marked, Lexeme, Punct
  <2>6. FlexAt(here, next) = next /\ At(next, start', stack')
    BY <2>1, <2>2, <2>3 DEF FlexAt, FlexMoved, At
  <2>7. QED
    BY <1>4, <2>1, <2>4, <2>5, <2>6
<1>7. CASE EndVar
  <2>1. /\ start = "vardecl_state" /\ Next1.cls = "ENDVAR"
        /\ start' = stack[Len(stack)] /\ stack' = SubSeq(stack, 1, Len(stack) - 1)
    BY <1>7 DEF EndVar, Rule, PopState
  <2>2. here = "vars" /\ stack = OnList
    BY <1>2, <2>1 DEF At, Passes, BodyStart
  <2>3. start' = "vardecl_list_state" /\ stack' = <<>>
    BY <2>1, <2>2, Stacks
  <2>4. next \in {"list", "open", "chart"}
    BY <1>3, <2>1, <2>2 DEF Goes, PouGoes, ChartGoes, ConfGoes, Plain, Name, Value
  <2>5. TokenClass(Next1.cls, start) = "ENDVAR"
    BY <2>1 DEF TokenClass
  <2>6. Takes(here, "ENDVAR", next)
    BY <2>2, <2>4 DEF Takes, PouPlaces, Class, Marked, Lexeme, Letters
  <2>7. FlexAt(here, next) = next /\ At(next, start', stack')
    BY <2>2, <2>3, <2>4 DEF FlexAt, FlexMoved, At, PouPlaces
  <2>8. QED
    BY <1>4, <2>3, <2>5, <2>6, <2>7
<1>8. CASE EndUnit
  <2>1. /\ start' = "INITIAL" /\ stack' = stack
        /\ \/ /\ start \in Inclusive \ {"header_state", "il_state", "st_state", "sfc_state"}
              /\ Next1.cls = "ENDPOU"
           \/ Next1.cls = "ENDCONF"
    BY <1>8 DEF EndUnit, Rule, Begin
  <2>2. CASE Next1.cls = "ENDPOU"
    <3>1. here \in {"header", "list", "open", "body", "sfc"} /\ next = "units"
      BY <1>3, <2>2 DEF Goes, PouGoes, ChartGoes, ConfGoes, Plain, Name, Value, Datum
    <3>2. ~ At(here, start, stack)
      BY <2>1, <2>2, <3>1 DEF At, BodyStart, Inclusive
    <3>3. stack = <<>>
      BY <1>2, <2>1, <2>2, <3>2 DEF Passes, Inclusive
    <3>4. TokenClass(Next1.cls, start) = "ENDPOU"
      BY <2>2 DEF TokenClass
    <3>5. Takes(here, "ENDPOU", next)
      BY <3>1 DEF Takes, PouPlaces, Class, Marked, Lexeme, Letters
    <3>6. FlexAt(here, next) = "units" /\ At("units", start', stack')
      BY <2>1, <3>1, <3>3 DEF FlexAt, FlexMoved, At
    <3>7. QED
      BY <1>4, <2>1, <3>4, <3>5, <3>6
  <2>3. CASE Next1.cls = "ENDCONF"
    <3>1. here = "conf" /\ next = "units"
      BY <1>3, <2>3 DEF Goes, PouGoes, ChartGoes, ConfGoes, Plain, Name, Value, Datum
    <3>2. stack = <<>>
      BY <1>2, <2>3, <3>1 DEF Passes, At
    <3>3. TokenClass(Next1.cls, start) = "ENDCONF"
      BY <2>3 DEF TokenClass
    <3>4. Takes(here, "ENDCONF", next)
      BY <3>1 DEF Takes
    <3>5. FlexAt(here, next) = "units" /\ At("units", start', stack')
      BY <2>1, <3>1, <3>2 DEF FlexAt, FlexMoved, At
    <3>6. QED
      BY <1>4, <2>1, <3>3, <3>4, <3>5
  <2>4. QED
    BY <2>1, <2>2, <2>3
<1>9. CASE ReturnToken
  <2>1. /\ start \in Inclusive /\ start' = start /\ stack' = stack
        /\ Next1.cls \notin OwnRules(start)
    BY <1>9 DEF ReturnToken, Rule
  <2>2. start' \notin {"comment_state", "time_literal_state"}
    BY <1>1, <2>1
  <2>3. CASE At(here, start, stack)
    <3>1. Next1.cls \in Lexeme
      BY <1>1, NextWord
    <3>2. Takes(here, TokenClass(Next1.cls, start), next) /\ At(FlexAt(here, next), start, stack)
      BY <1>3, <2>1, <2>3, <3>1, TokenFits
    <3>3. QED
      BY <1>4, <2>1, <2>2, <3>2
  <2>4. CASE Passes(here, Next1.cls, start, stack)
    <3>1. Next1.cls # "ENDPOU"
      BY <2>1 DEF OwnRules
    <3>2. CASE start = "vardecl_state"
      <4>1. here \in {"header", "list", "pragma"} /\ Next1.cls = "VAR" /\ stack = OnList
        BY <2>4, <3>2 DEF Passes
      <4>2. next = "vars"
        BY <1>3, <4>1 DEF Goes, PouGoes, ChartGoes, ConfGoes, Plain, Name, Value
      <4>3. TokenClass(Next1.cls, start) = "VAR"
        BY <4>1 DEF TokenClass
      <4>4. Takes(here, "VAR", next)
        BY <4>1, <4>2 DEF Takes, PouPlaces, Class, Marked, Lexeme, Letters
      <4>5. FlexAt(here, next) = next /\ At(next, start', stack')
        BY <2>1, <3>2, <4>1, <4>2 DEF FlexAt, FlexMoved, At, PouPlaces
      <4>6. QED
        BY <1>4, <2>2, <4>3, <4>4, <4>5
    <3>3. CASE start = "sfc_state" /\ here = "block"
      <4>1. Next1.cls = "ENDBLK" /\ stack = OnList
        BY <2>4, <3>3 DEF Passes
      <4>2. next = "sfc"
        BY <1>3, <3>3, <4>1 DEF Goes, PouGoes, ChartGoes, ConfGoes, Plain, Name, Value
      <4>3. TokenClass(Next1.cls, start) = "ENDBLK"
        BY <4>1 DEF TokenClass
      <4>4. Takes(here, "ENDBLK", next)
        BY <3>3, <4>2 DEF Takes
      <4>5. FlexAt(here, next) = next /\ At(next, start', stack')
        BY <2>1, <3>3, <4>1, <4>2 DEF FlexAt, FlexMoved, At
      <4>6. QED
        BY <1>4, <2>2, <4>3, <4>4, <4>5
    <3>4. CASE start = "sfc_state" /\ here = "chart"
      <4>1. Next1.cls = "ISTEP" /\ stack = OnList
        BY <2>4, <3>4 DEF Passes
      <4>2. next = "head"
        BY <1>3, <3>4, <4>1 DEF Goes, PouGoes, ChartGoes, ConfGoes, Plain, Name, Value
      <4>3. TokenClass(Next1.cls, start) = "ISTEP"
        BY <4>1 DEF TokenClass
      <4>4. Takes(here, "ISTEP", next)
        BY <3>4, <4>2 DEF Takes
      <4>5. FlexAt(here, next) = next /\ At(next, start', stack')
        BY <2>1, <3>4, <4>1, <4>2 DEF FlexAt, FlexMoved, At, PouPlaces
      <4>6. QED
        BY <1>4, <2>2, <4>3, <4>4, <4>5
    <3>5. QED
      BY <2>1, <2>4, <3>1, <3>2, <3>3, <3>4 DEF Passes, Inclusive
  <2>5. QED
    BY <1>2, <2>3, <2>4
<1>10. QED
  BY <1>5, <1>6, <1>7, <1>8, <1>9

(* A blank that is returned (the end of a pragma's line).                  *)
LEMMA ReturnBlankSafe ==
  ASSUME Sound, TypeOK', NEW here \in Place, Standing(here), UNCHANGED parse, ReturnBlank
  PROVE  Safe
<1>1. /\ turn = "scan" /\ input # <<>> /\ Return
      /\ UNCHANGED <<src, buffer, parse, start, stack>>
      /\ \/ start = "il_state" /\ Next1.cls = "NL"
         \/ start = "sfc_priority_state" /\ Next1.cls = "SP"
  BY DEF ReturnBlank, Rule, bodyVars
<1>2. Next1.cls \in Blank /\ start \notin {"comment_state", "time_literal_state"}
  BY <1>1 DEF Blank
<1>3. /\ parse \in ParseAt(here)
      /\ At(here, start, stack) \/ Passes(here, Next1.cls, start, stack)
  BY <1>1, <1>2, Placed
<1>4. At(here, start, stack)
  BY <1>1, <1>3 DEF Passes
<1>5. here \notin Tight
  BY <1>1 DEF Standing, Due, DueAt
<1>6. start = "il_state" /\ Next1.cls = "NL"
  BY <1>1, <1>4, <1>5 DEF At, Tight, BodyStart
<1>7. here \in {"open", "body", "block"}
  BY <1>4, <1>6 DEF At, BodyStart
<1>8. Onward(Tail(input), here)
  BY <1>1, <1>2, BlankNext DEF Sound, Standing
<1>9. TokenClass(Next1.cls, start) = "NL"
  BY <1>6 DEF TokenClass
<1>10. Takes(here, "NL", here)
  BY <1>7 DEF Takes, PouPlaces, BodyTokens, Class, Marked, Lexeme, Blank
<1>11. Awaits(here, here, start', stack')
  BY <1>1, <1>2, <1>4 DEF FlexAt, Rests, Awaits
<1>12. Standing(here)' /\ Joints'
  BY <1>1, <1>3, <1>5, <1>8, <1>9, <1>10, <1>11, Returned
<1>13. Halved'
  BY <1>1, <1>2, HalvedRest DEF Return
<1>14. QED
  BY <1>12, <1>13, SafeAt

-----------------------------------------------------------------------------
(* The rules for layout and comments.                                      *)

(* A body that is being collected.                                         *)
LEMMA BodyGap ==
  ASSUME Sound, NEW here \in Place, Standing(here), turn = "scan", start = "body_state",
         input # <<>>, Next1.cls # "ISTEP"
  PROVE  /\ parse \in ParseAt(here)
         /\ At(here, start, stack)
         /\ here \in {"open", "body", "block"}
         /\ \E from \in Place : Within(from, here) /\ Path(Steps, Place, buffer, from, here)
<1>1. parse \in ParseAt(here) /\ (At(here, start, stack) \/ Passes(here, Next1.cls, start, stack))
  BY Placed
<1>2. At(here, start, stack)
  BY <1>1 DEF Passes
<1>3. here \in {"open", "body", "block"}
  BY <1>2 DEF At, BodyStart
<1>4. Collecting
  BY DEF Collecting
<1>5. QED
  BY <1>1, <1>2, <1>3, <1>4 DEF Standing, Gap

(* Layout does not stand where the grammar allows none.                    *)
LEMMA NotTight ==
  ASSUME Sound, NEW here \in Place, Standing(here), input # <<>>,
         Next1.cls \notin {"PRIO", "VAR"}
  PROVE  here \notin Tight
  BY DEF Standing, Due, DueAt

(* Layout is dropped and the place stays.                                  *)
LEMMA EatBlankSafe ==
  ASSUME Sound, TypeOK', NEW here \in Place, Standing(here), UNCHANGED parse, EatBlank
  PROVE  Safe
<1>1. /\ turn = "scan" /\ input # <<>> /\ Eat
      /\ UNCHANGED <<src, buffer, parse, start, stack>>
      /\ start \notin {"comment_state", "time_literal_state", "body_state"}
      /\ Next1.cls \in Blank
  BY DEF EatBlank, Rule, bodyVars, Blank
<1>2. /\ parse \in ParseAt(here)
      /\ At(here, start, stack) \/ Passes(here, Next1.cls, start, stack)
  BY <1>1, Placed
<1>3. At(here, start, stack)
  BY <1>1, <1>2 DEF Passes, Blank
<1>4. here \notin Tight
  BY <1>1, NotTight DEF Blank
<1>5. Onward(Tail(input), here)
  BY <1>1, BlankNext DEF Sound, Standing
<1>6. Gap(here)' /\ Seamless'
  BY <1>1 DEF Gap, Collecting, InComment, Seamless
<1>7. Rests(here, start', stack')
  BY <1>1, <1>3 DEF Rests
<1>8. Standing(here)' /\ Joints' /\ Halved'
  BY <1>1, <1>2, <1>4, <1>5, <1>6, <1>7, Dropped
<1>9. QED
  BY <1>8, SafeAt

(* A pop finds what was pushed.                                            *)
LEMMA PopPushed ==
  ASSUME TypeOK, stack' = Append(stack, start)
  PROVE  /\ stack' # <<>> /\ stack'[Len(stack')] = start
         /\ SubSeq(stack', 1, Len(stack') - 1) = stack
<1>1. stack \in Seq(StartCondition) /\ start \in StartCondition
  BY DEF TypeOK, ControlTyped
<1> DEFINE t == Append(stack, start)
<1>2. /\ t \in Seq(StartCondition) /\ Len(t) = Len(stack) + 1 /\ Len(stack) \in Nat
      /\ \A i \in 1 .. Len(stack) : t[i] = stack[i]
      /\ t[Len(stack) + 1] = start
  BY <1>1, AppendProperties
<1> HIDE DEF t
<1>3. t # <<>> /\ t[Len(t)] = start
  BY <1>2
<1> DEFINE u == SubSeq(t, 1, Len(t) - 1)
<1>4. /\ u \in Seq(StartCondition) /\ Len(u) = Len(t) - 1
      /\ \A i \in 1 .. Len(t) - 1 : u[i] = t[i]
  BY <1>2, <1>3, PopTyped
<1> HIDE DEF u
<1>5. Len(u) = Len(stack) /\ \A i \in 1 .. Len(u) : u[i] = stack[i]
  BY <1>2, <1>4
<1>6. u = stack
  BY <1>1, <1>4, <1>5, SeqEqual
<1>7. stack' = t
  BY DEF t
<1>8. QED
  BY <1>3, <1>6, <1>7 DEF u

(* A comment inside a body leaves the buffer as it is.                     *)
LEMMA GapKept ==
  ASSUME NEW here, Gap(here), UNCHANGED <<src, buffer>>, Collecting' => Collecting
  PROVE  Gap(here)'
<1>1. Steps' = Steps
  BY SourceKept
<1>2. QED
  BY <1>1 DEF Gap, AllBlank

(* A comment opens, and what it interrupts is below it on the stack.       *)
LEMMA OpenCommentSafe ==
  ASSUME Sound, TypeOK', NEW here \in Place, Standing(here), UNCHANGED parse, OpenComment
  PROVE  Safe
<1>1. /\ turn = "scan" /\ input # <<>> /\ Eat /\ turn' = "scan"
      /\ UNCHANGED <<src, buffer, parse>>
      /\ start \notin {"comment_state", "time_literal_state"}
      /\ Next1.cls = "CB"
      /\ start' = "comment_state" /\ stack' = Append(stack, start)
  BY DEF OpenComment, Rule, bodyVars, PushState, Eat
<1>2. /\ parse \in ParseAt(here)
      /\ At(here, start, stack) \/ Passes(here, Next1.cls, start, stack)
  BY <1>1, Placed
<1>3. At(here, start, stack)
  BY <1>1, <1>2 DEF Passes
<1>4. here \notin Tight
  BY <1>1, NotTight
<1>5. Onward(Tail(input), here)
  BY <1>1, CommentNext DEF Sound, Joints, Standing
<1>6. /\ stack' # <<>> /\ stack'[Len(stack')] = start
      /\ SubSeq(stack', 1, Len(stack') - 1) = stack
  BY <1>1, PopPushed DEF Sound
<1>7. Rests(here, start', stack')
  <2>1. Below(here, stack')
    BY <1>3, <1>6 DEF Below
  <2>2. QED
    BY <1>1, <2>1 DEF Rests
<1>8. Gap(here)' /\ Seamless'
  <2>1. Collecting' => Collecting
    BY <1>1, <1>6 DEF Collecting, InComment
  <2>2. QED
    BY <1>1, <2>1, GapKept DEF Standing, Seamless
<1>9. Standing(here)' /\ Joints' /\ Halved'
  BY <1>1, <1>2, <1>4, <1>5, <1>7, <1>8, Dropped
<1>10. QED
  BY <1>9, SafeAt

(* In a comment.                                                           *)
LEMMA CommentControl ==
  ASSUME NEW here \in Place, Standing(here), turn = "scan", start = "comment_state"
  PROVE  parse \in ParseAt(here) /\ Below(here, stack)
  BY DEF Standing, Control, ScanControl, Rests, Passes

(* The text of a comment is dropped.                                       *)
LEMMA CommentTextSafe ==
  ASSUME Sound, TypeOK', NEW here \in Place, Standing(here), UNCHANGED parse, CommentText
  PROVE  Safe
<1>1. /\ turn = "scan" /\ input # <<>> /\ Eat /\ turn' = "scan"
      /\ UNCHANGED <<src, buffer, parse, start, stack>>
      /\ start = "comment_state" /\ InComment
  BY DEF CommentText, Rule, bodyVars, Eat, InComment
<1>2. parse \in ParseAt(here) /\ Below(here, stack)
  BY <1>1, CommentControl
<1>3. here \notin Tight
  <2>1. CASE Next1.cls \in {"PRIO", "VAR"}
    BY <1>1, <2>1, CommentNext DEF Sound, Joints, Standing, Blank
  <2>2. CASE Next1.cls \notin {"PRIO", "VAR"}
    BY <1>1, <2>2, NotTight
  <2>3. QED
    BY <2>1, <2>2
<1>4. Onward(Tail(input), here)
  BY <1>1, CommentNext DEF Sound, Joints, Standing
<1>5. Gap(here)' /\ Seamless'
  <2>1. Collecting' => Collecting
    BY <1>1 DEF Collecting, InComment
  <2>2. QED
    BY <1>1, <2>1, GapKept DEF Standing, Seamless
<1>6. Rests(here, start', stack')
  BY <1>1, <1>2 DEF Rests
<1>7. Standing(here)' /\ Joints' /\ Halved'
  BY <1>1, <1>2, <1>3, <1>4, <1>5, <1>6, Dropped
<1>8. QED
  BY <1>7, SafeAt

(* What comes next in the input, behind the first item of it.              *)
LEMMA SecondFollows ==
  ASSUME Sound, TypeOK', input # <<>>, input' = Tail(input), input' # <<>>
  PROVE  /\ Len(input) > 1
         /\ Next1' = input[2]
         /\ input[2] \in Items
         /\ <<Next1, input[2]>> \in Snug
<1>1. /\ input \in Seq(Items) /\ input' \in Seq(Items)
      /\ RestOf(input', input, 1) /\ Len(input) \in Nat
  BY TailRests, WaitingTyped DEF Sound, TypeOK, TextTyped
<1>2. 1 \in 1 .. Len(input) - 1 /\ 1 + 1 = 2 /\ Len(input) > 1 /\ 2 \in 1 .. Len(input)
  <2>1. Len(input') \in Nat \ {0} /\ Len(input') = Len(input) - 1
    BY <1>1 DEF RestOf
  <2>2. QED
    BY <1>1, <2>1
<1>3. Next1' = input[2] /\ input[2] \in Items
  BY <1>1, <1>2 DEF RestOf, Next1
<1>4. Adjacent(Snug, input)
  BY DEF Sound, Joints
<1>5. <<input[1], input[1 + 1]>> \in Snug
  BY <1>2, <1>4 DEF Adjacent
<1>6. QED
  BY <1>2, <1>3, <1>5 DEF Next1

(* A comment closes, and flex is back at what it interrupted.              *)
LEMMA CloseCommentSafe ==
  ASSUME Sound, TypeOK', NEW here \in Place, Standing(here), UNCHANGED parse, CloseComment
  PROVE  Safe
<1>1. /\ turn = "scan" /\ input # <<>> /\ Eat /\ turn' = "scan"
      /\ UNCHANGED <<src, buffer, parse>>
      /\ start = "comment_state" /\ InComment /\ Next1.cls = "CE"
      /\ stack # <<>> /\ start' = stack[Len(stack)]
      /\ stack' = SubSeq(stack, 1, Len(stack) - 1)
  BY DEF CloseComment, Rule, bodyVars, Eat, InComment, PopState
<1>2. parse \in ParseAt(here) /\ At(here, start', stack')
  BY <1>1, CommentControl DEF Below
<1>3. start' \notin {"comment_state", "time_literal_state"}
  BY <1>2, AtStart
<1>4. here \notin Tight
  BY <1>1, NotTight
<1>5. /\ Onward(Tail(input), here)
      /\ here \in Bodies /\ Len(input) > 1 => input[2].cls \notin Letters
  BY <1>1, CommentNext DEF Sound, Joints, Standing
<1>6. Gap(here)'
  <2>1. Collecting' => Collecting
    BY <1>1, <1>3 DEF Collecting, InComment
  <2>2. QED
    BY <1>1, <2>1, GapKept DEF Standing
<1>7. Seamless'
  <2> SUFFICES ASSUME start' = "body_state", buffer # <<>>, input' # <<>>
               PROVE  <<buffer[Len(buffer)], Next1'>> \in Snug
    BY <1>1, SourceKept DEF Seamless
  <2>1. buffer \in Seq(Items)
    BY WaitingTyped DEF Sound
  <2>2. input' = Tail(input)
    BY <1>1 DEF Eat
  <2>3. Len(input) > 1 /\ Next1' = input[2] /\ input[2] \in Items
    BY <1>1, <2>2, SecondFollows
  <2>4. here \in Bodies
    BY <1>2 DEF At, Bodies, BodyStart
  <2>5. input[2].cls \notin Letters
    BY <1>5, <2>3, <2>4
  <2>6. Len(buffer) \in 1 .. Len(buffer)
    BY <2>1
  <2>7. buffer[Len(buffer)] \in Elements(buffer) /\ buffer[Len(buffer)] \in Items
    BY <2>1, <2>6, ElementsTyped
  <2>8. Fits(buffer[Len(buffer)], input[2])
    BY <2>5, <2>7 DEF Fits, Sound, Joints, Loose
  <2>9. QED
    BY <2>3, <2>7, <2>8, SnugAre
<1>8. Rests(here, start', stack')
  BY <1>2, <1>3 DEF Rests
<1>9. Standing(here)' /\ Joints' /\ Halved'
  BY <1>1, <1>2, <1>3, <1>4, <1>5, <1>6, <1>7, <1>8, Dropped
<1>10. QED
  BY <1>9, SafeAt

-----------------------------------------------------------------------------
(* The rules that collect a body and put it back.                          *)

(* The dummy token before a body.                                          *)
LEMMA AnnouncedSafe ==
  ASSUME UNCHANGED <<src, parse>>, NEW here \in Place, here \in {"open", "body", "block"},
         parse \in ParseAt(here), At(here, start', stack'), Onward(input', here),
         turn' = "bison", token'.cls \in Synthetic, Joints', Halved'
  PROVE  Safe
<1>1. Onward(input, here)'
  BY OnwardKept
<1>2. Due(here)' /\ Gap(here)'
  BY DEF Due, Tight, Gap, Collecting
<1>3. Takes(here, token'.cls, here)
  BY DEF Takes, PouPlaces, BodyTokens, Class, Synthetic
<1>4. Awaits(here, here, start', stack')
  BY AtStart DEF FlexAt, Rests, Awaits
<1>5. BisonControl(here)'
  BY <1>3, <1>4 DEF BisonControl
<1>6. Control(here)'
  BY <1>5 DEF Control
<1>7. QED
  BY <1>1, <1>2, <1>6, SafeAt DEF Standing

(* A body that begins with a keyword of ST.                                *)
LEMMA BodyIsStByKeywordSafe ==
  ASSUME Sound, NEW here \in Place, Standing(here), UNCHANGED parse, BodyIsStByKeyword
  PROVE  Safe
<1>1. /\ turn = "scan" /\ input # <<>> /\ start = "body_state"
      /\ UNCHANGED <<src, input, buffer, parse, stack>>
      /\ start' = "st_state" /\ turn' = "bison" /\ token'.cls = "start_ST_body"
      /\ Next1.cls # "ISTEP"
  BY DEF BodyIsStByKeyword, BodyMatch, Rule, Begin, ReturnSynthetic, bodyVars
<1>2. /\ parse \in ParseAt(here)
      /\ At(here, start, stack)
      /\ here \in {"open", "body", "block"}
  BY <1>1, BodyGap
<1>3. At(here, start', stack')
  BY <1>1, <1>2 DEF At, BodyStart
<1>4. Onward(input', here)
  BY <1>1 DEF Standing
<1>5. Joints'
  <2>1. G' = G /\ Snug' = Snug /\ Parses(src, G)'
    BY <1>1, SourceKept DEF Sound, Joints
  <2>2. Seamless'
    BY <1>1 DEF Seamless
  <2>3. QED
    BY <1>1, <2>1, <2>2 DEF Sound, Joints, Loose
<1>6. Halved'
  BY <1>1 DEF Sound, Halved
<1>7. token'.cls \in Synthetic
  BY <1>1 DEF Synthetic
<1>8. QED
  BY <1>1, <1>2, <1>3, <1>4, <1>5, <1>6, <1>7, AnnouncedSafe

(* The body that was collected is put back in front of the input.          *)
LEMMA PutBackSafe ==
  ASSUME Sound, TypeOK', NEW here \in Place, Standing(here), UNCHANGED parse,
         BodyIsSt \/ BodyIsIl
  PROVE  Safe
<1>1. PutsBack /\ token'.cls \in Synthetic
  <2>1. CASE BodyIsSt
    BY <2>1 DEF BodyIsSt, BodyMatch, Rule, Begin, ReturnSynthetic, AppendThenUnputBuffer,
       PutsBack, Synthetic
  <2>2. CASE BodyIsIl
    BY <2>2 DEF BodyIsIl, BodyMatch, Rule, Begin, ReturnSynthetic, AppendThenUnputBuffer,
       PutsBack, Synthetic
  <2>3. QED
    BY <2>1, <2>2
<1>2. /\ turn = "scan" /\ input # <<>> /\ start = "body_state"
      /\ UNCHANGED <<src, parse, stack>> /\ buffer' = <<>>
      /\ start' \in {"st_state", "il_state"} /\ turn' = "bison"
      /\ token'.cls \in Synthetic
      /\ Next1.cls # "ISTEP"
  BY <1>1 DEF PutsBack
<1>3. JoinOf(input', buffer, input)
  BY <1>1, PutsBackJoins DEF Sound
<1>4. input \in Seq(Items) /\ buffer \in Seq(Items) /\ input' \in Seq(Items)
  BY WaitingTyped DEF Sound, TypeOK, TextTyped
<1>5. /\ parse \in ParseAt(here)
      /\ At(here, start, stack)
      /\ here \in {"open", "body", "block"}
      /\ \E from \in Place : Within(from, here) /\ Path(Steps, Place, buffer, from, here)
  BY <1>2, BodyGap
<1>6. PICK from \in Place : Within(from, here) /\ Path(Steps, Place, buffer, from, here)
  BY <1>5
<1>7. /\ from \in {"open", "body", "block"}
      /\ parse \in ParseAt(from)
      /\ At(from, start', stack')
  BY <1>2, <1>5, <1>6 DEF Within, ParseAt, PouPlaces, At, BodyStart
<1>8. Onward(input', from)
  <2>1. Path(Steps, Place, input, here, "units")
    BY DEF Standing, Onward
  <2>2. Path(Steps, Place, input', from, "units")
    BY <1>3, <1>4, <1>6, <2>1, PathJoin
  <2>3. QED
    BY <2>2 DEF Onward
<1>9. Joints'
  <2>1. G' = G /\ Snug' = Snug /\ Parses(src, G)'
    BY <1>2, SourceKept DEF Sound, Joints
  <2>2. buffer # <<>> => <<buffer[Len(buffer)], input[1]>> \in Snug
    BY <1>2 DEF Sound, Joints, Seamless, Next1
  <2>3. Adjacent(Snug, input) /\ Adjacent(Snug, buffer)
    BY DEF Sound, Joints
  <2>4. Adjacent(Snug, input')
    BY <1>3, <1>4, <2>2, <2>3, AdjacentJoin
  <2>5. Adjacent(Snug, buffer)' /\ Loose'
    BY <1>2 DEF Adjacent, Loose, Elements
  <2>6. Adjacent(Snug, input)'
    BY <2>1, <2>4
  <2>7. Seamless'
    BY <1>2 DEF Seamless
  <2>8. QED
    BY <2>1, <2>5, <2>6, <2>7 DEF Joints
<1>10. Halved'
  <2>1. Elements(input') \subseteq Elements(buffer) \cup Elements(input)
    BY <1>3, <1>4, ElementsJoin
  <2>2. \A x \in Elements(buffer) \cup Elements(input) : x.cls \notin Half
    BY <1>2 DEF Sound, Halved
  <2>3. \A x \in Elements(input)' : x.cls \notin Half
    BY <2>1, <2>2
  <2>4. \A x \in Elements(buffer)' : x.cls \notin Half
    BY <1>2 DEF Elements
  <2>5. QED
    BY <1>2, <2>3, <2>4 DEF Halved
<1>11. QED
  BY <1>2, <1>7, <1>8, <1>9, <1>10, AnnouncedSafe

(* A word is collected: it goes to the buffer, and the place moves on.     *)
LEMMA BodyCollectSafe ==
  ASSUME Sound, TypeOK', NEW here \in Place, Standing(here), UNCHANGED parse, BodyCollect
  PROVE  Safe
<1>1. /\ input # <<>> /\ input' = Tail(input)
      /\ buffer' = Append(buffer, Next1)
      /\ Next1.cls \notin {"CB", "SEMI", "ENDPOU", "ENDBLK"}
      /\ Next1.cls \in Leading => ~ isempty_bodystate_buffer
      /\ start = "body_state" /\ turn = "scan"
      /\ UNCHANGED <<src, start, stack, turn, parse>>
  BY CollectShape DEF Sound
<1>2. /\ input \in Seq(Items) /\ buffer \in Seq(Items) /\ input' \in Seq(Items)
      /\ Next1 \in Items /\ Next1 \in Waiting /\ Next1 \in Elements(input)
  BY <1>1, WaitingTyped DEF Sound, TypeOK, TextTyped
<1>3. Next1.cls # "ISTEP"
  <2> SUFFICES ASSUME Next1.cls = "ISTEP" PROVE FALSE
    OBVIOUS
  <2>1. PICK next \in Place : Goes(here, "ISTEP", next)
    BY <1>1, NextWord DEF Blank
  <2>2. here \notin {"open", "body", "block"}
    BY <2>1 DEF Goes, PouGoes, ChartGoes, ConfGoes, Plain, Name, Value
  <2>3. At(here, start, stack) \/ Passes(here, Next1.cls, start, stack)
    BY <1>1, Placed
  <2>4. here = "chart"
    BY <1>1, <2>2, <2>3 DEF At, Passes, BodyStart
  <2>5. Collecting
    BY <1>1 DEF Collecting
  <2>6. AllBlank(buffer)
    BY <2>4, <2>5 DEF Standing, Gap, Within
  <2>7. isempty_bodystate_buffer
    BY <2>6 DEF Sound, ReadingInv, Undecided, isempty_bodystate_buffer
  <2>8. QED
    BY <1>1, <2>7 DEF Leading
<1>4. /\ parse \in ParseAt(here)
      /\ At(here, start, stack)
      /\ here \in {"open", "body", "block"}
      /\ \E from \in Place : Within(from, here) /\ Path(Steps, Place, buffer, from, here)
  BY <1>1, <1>3, BodyGap
<1>5. PICK from \in Place : Within(from, here) /\ Path(Steps, Place, buffer, from, here)
  BY <1>4
<1>6. G[Next1.at] \notin Tight /\ \E next \in Place :
        /\ <<Next1, here, next>> \in Steps
        /\ Onward(Tail(input), next)
        /\ next \in {"open", "body", "block"}
        /\ parse \in ParseAt(next)
        /\ At(next, start, stack)
        /\ Within(from, next)
  <2>1. CASE Next1.cls \in Blank
    <3>1. G[Next1.at] \notin Tight
      BY <1>2, <2>1, BlankFits DEF Sound, ReadingInv, Joints
    <3>2. <<Next1, here, here>> \in Steps
      BY <1>2, <2>1, StepsAre DEF Leads
    <3>3. Onward(Tail(input), here)
      BY <1>1, <2>1, BlankNext DEF Sound, Standing
    <3>4. QED
      BY <1>4, <1>5, <3>1, <3>2, <3>3
  <2>2. CASE Next1.cls \notin Blank
    <3>1. /\ Next1.cls \in Lexeme
          /\ \E next \in Place : /\ next = G[Next1.at]
                                 /\ Goes(here, Next1.cls, next)
                                 /\ Onward(Tail(input), next)
      BY <1>1, <2>2, NextWord
    <3>2. PICK next \in Place : /\ Leads(Next1, here, next) /\ Onward(Tail(input), next)
      BY <1>1, HeadLeads DEF Sound, Standing
    <3>3. Next1.cls # "TBODY"
      BY <3>1 DEF Lexeme, Blank, Letters, Headed, Punct
    <3>4. next = G[Next1.at]
      BY <2>2, <3>2, <3>3 DEF Leads
    <3>5. Goes(here, Next1.cls, next)
      BY <3>1, <3>4
    <3>6. <<Next1, here, next>> \in Steps
      BY <1>2, <3>2, StepsAre
    <3>7. \/ here \in {"open", "body"} /\ next \in {"open", "body"} /\ (here = "body" => next = "body")
          \/ here = "block" /\ next = "block"
      BY <1>1, <1>4, <3>5 DEF Goes, PouGoes, ChartGoes, ConfGoes, Plain, Name, Value
    <3>8. parse \in ParseAt(next) /\ At(next, start, stack) /\ next \in {"open", "body", "block"}
      BY <1>1, <1>4, <3>7 DEF ParseAt, PouPlaces, At, BodyStart
    <3>9. Within(from, next)
      BY <1>5, <3>7 DEF Within
    <3>10. G[Next1.at] \notin Tight
      BY <3>4, <3>8 DEF Tight
    <3>11. QED
      BY <3>2, <3>6, <3>8, <3>9, <3>10
  <2>3. QED
    BY <2>1, <2>2
<1>7. PICK next \in Place :
        /\ <<Next1, here, next>> \in Steps
        /\ Onward(Tail(input), next)
        /\ next \in {"open", "body", "block"}
        /\ parse \in ParseAt(next)
        /\ At(next, start, stack)
        /\ Within(from, next)
  BY <1>6
<1>8. G' = G /\ Steps' = Steps /\ Snug' = Snug /\ Parses(src, G)'
  BY <1>1, SourceKept DEF Sound, Joints
<1>9. Standing(next)'
  <2>1. Onward(input, next)'
    BY <1>1, <1>7, OnwardKept
  <2>2. Due(next)'
    BY <1>7 DEF Due, Tight
  <2>3. Path(Steps, Place, buffer', from, next)
    BY <1>1, <1>2, <1>5, <1>7, PathAppend
  <2>4. Gap(next)'
    BY <1>7, <1>8, <2>3 DEF Gap
  <2>5. Rests(next, start', stack')
    BY <1>1, <1>7 DEF Rests
  <2>6. Control(next)'
    BY <1>1, <1>7, <2>5 DEF Control, ScanControl
  <2>7. QED
    BY <2>1, <2>2, <2>4, <2>6 DEF Standing
<1>10. Joints'
  <2>1. RestOf(input', input, 1)
    BY <1>1, TailRests DEF Sound
  <2>2. Adjacent(Snug, input) /\ Adjacent(Snug, buffer)
    BY DEF Sound, Joints
  <2>3. Adjacent(Snug, input')
    BY <1>2, <2>1, <2>2, AdjacentRest
  <2>4. buffer # <<>> => <<buffer[Len(buffer)], Next1>> \in Snug
    BY <1>1 DEF Sound, Joints, Seamless
  <2>5. Adjacent(Snug, buffer')
    BY <1>1, <1>2, <2>2, <2>4, AdjacentAppend
  <2>6. Elements(buffer') = Elements(buffer) \cup {Next1}
    BY <1>1, <1>2, ElementsAppend
  <2>7. \A x \in Elements(buffer') : G[x.at] \notin Tight
    BY <1>6, <2>6 DEF Sound, Joints, Loose
  <2>8. Adjacent(Snug, input)' /\ Adjacent(Snug, buffer)' /\ Loose'
    BY <1>8, <2>3, <2>5, <2>7 DEF Loose
  <2>9. Seamless'
    <3>1. Len(buffer') = Len(buffer) + 1 /\ buffer'[Len(buffer) + 1] = Next1
      BY <1>1, <1>2, AfterAppend
    <3>2. buffer'[Len(buffer')] = Next1
      BY <3>1
    <3>3. input' # <<>> => <<Next1, Next1'>> \in Snug
      BY <1>1, SecondFollows
    <3>4. QED
      BY <1>8, <3>2, <3>3 DEF Seamless
  <2>10. QED
    BY <1>8, <2>8, <2>9 DEF Joints
<1>11. Halved'
  <2>1. /\ \A x \in Elements(buffer) : x.cls \notin Half
        /\ \A x \in Elements(input) : x.cls \notin Half
    BY <1>1 DEF Sound, Halved
  <2>2. Elements(input') \subseteq Elements(input)
    BY <1>1, <1>2, TailRests, ElementsRest DEF Sound
  <2>3. Elements(buffer') = Elements(buffer) \cup {Next1}
    BY <1>1, <1>2, ElementsAppend
  <2>4. /\ \A x \in Elements(buffer') : x.cls \notin Half
        /\ \A x \in Elements(input') : x.cls \notin Half
    BY <1>2, <2>1, <2>2, <2>3
  <2>5. QED
    BY <1>1, <2>4 DEF Halved
<1>12. QED
  BY <1>9, <1>10, <1>11, SafeAt

-----------------------------------------------------------------------------
(* The rules for literals, and the end of the input.                       *)

(* A literal is split: its body is read, then its mark.                    *)
LEMMA TimeLiteralSafe ==
  ASSUME Sound, TypeOK', NEW here \in Place, Standing(here), UNCHANGED parse, TimeLiteral
  PROVE  Safe
<1>1. /\ turn = "scan" /\ input # <<>> /\ start \in Inclusive /\ Next1.cls = "TIME"
      /\ UNCHANGED <<src, buffer, turn, parse>>
      /\ start' = "time_literal_state" /\ stack' = Append(stack, start)
  BY DEF TimeLiteral, Rule, PushState, bodyVars
<1>2. start \notin {"comment_state", "time_literal_state"} /\ Next1.cls \notin Blank \cup {"CB"}
  BY <1>1 DEF Inclusive, Blank
<1>3. /\ parse \in ParseAt(here)
      /\ At(here, start, stack) \/ Passes(here, Next1.cls, start, stack)
  BY <1>1, <1>2, Placed
<1>4. At(here, start, stack)
  BY <1>1, <1>3 DEF Passes
<1>5. PICK next \in Place : next = G[Next1.at] /\ Goes(here, Next1.cls, next)
  BY <1>1, <1>2, NextWord
<1>6. here \in Timed /\ next \in Timed \cup {"names"}
  BY <1>1, <1>5 DEF Goes, PouGoes, ChartGoes, ConfGoes, Plain, Name, Value, Datum, Timed
<1>7. /\ input \in Seq(Items) /\ input' \in Seq(Items) /\ Next1 \in Items
      /\ Len(input) \in Nat \ {0}
      /\ \A i \in 1 .. Len(input) : input[i] \in Items
  BY <1>1, WaitingTyped DEF Sound, TypeOK, TextTyped
<1>8. PICK x \in Items, y \in Items :
        /\ SplitOf(input', x, y, input)
        /\ x.at = Next1.at /\ x.cls = "TBODY"
        /\ y.at = Next1.at /\ y.cls = "MARK"
  BY LiteralSplits DEF Sound
<1>9. Onward(input', here)
  <2>1. ASSUME NEW c \in Place, <<input[1], here, c>> \in Steps
        PROVE  <<x, here, here>> \in Steps /\ <<y, here, c>> \in Steps
    <3>1. Leads(Next1, here, c)
      BY <1>7, <2>1, StepsAre DEF Next1
    <3>2. here = G[Next1.at - 1] /\ c = G[Next1.at]
      BY <1>1, <3>1 DEF Leads, Blank
    <3>3. Leads(x, here, here) /\ Leads(y, here, c)
      BY <1>8, <3>2 DEF Leads, Blank
    <3>4. QED
      BY <3>3, StepsAre
  <2>2. Path(Steps, Place, input, here, "units")
    BY DEF Standing, Onward
  <2>3. Path(Steps, Place, input', here, "units")
    BY <1>1, <1>7, <1>8, <2>1, <2>2, PathSplit
  <2>4. QED
    BY <2>3 DEF Onward
<1>10. Rests(here, start', stack')
  <2>1. /\ stack' # <<>> /\ stack'[Len(stack')] = start
        /\ SubSeq(stack', 1, Len(stack') - 1) = stack
    BY <1>1, PopPushed DEF Sound
  <2>2. Below(here, stack')
    BY <1>4, <2>1 DEF Below
  <2>3. QED
    BY <1>1, <1>6, <2>1, <2>2 DEF Rests
<1>11. Standing(here)'
  <2>1. Onward(input, here)'
    BY <1>1, <1>9, OnwardKept
  <2>2. Due(here)' /\ Gap(here)'
    BY <1>1, <1>6 DEF Due, Tight, Timed, Gap, Collecting, InComment
  <2>3. Control(here)'
    BY <1>1, <1>3, <1>10 DEF Control, ScanControl
  <2>4. QED
    BY <2>1, <2>2, <2>3 DEF Standing
<1>12. Joints'
  <2>1. G' = G /\ Snug' = Snug /\ Parses(src, G)'
    BY <1>1, SourceKept DEF Sound, Joints
  <2>2. G[x.at] \notin Tight /\ x.cls \notin Letters /\ y.cls \notin Letters /\ G[y.at] \notin Tight
    BY <1>5, <1>6, <1>8 DEF Tight, Timed, Letters
  <2>3. <<x, y>> \in Snug
    BY <2>2, SnugAre DEF Fits
  <2>4. Len(input) > 1 => <<y, input[2]>> \in Snug
    <3> SUFFICES ASSUME Len(input) > 1 PROVE <<y, input[2]>> \in Snug
      OBVIOUS
    <3>1. 2 \in 1 .. Len(input)
      BY <1>7
    <3>2. input[2] \in Items
      BY <1>7, <3>1
    <3>3. QED
      BY <2>2, <3>2, SnugAre DEF Fits
  <2>5. Adjacent(Snug, input) /\ Adjacent(Snug, buffer)
    BY DEF Sound, Joints
  <2>6. Adjacent(Snug, input')
    BY <1>1, <1>7, <1>8, <2>3, <2>4, <2>5, AdjacentSplit
  <2>7. Adjacent(Snug, input)' /\ Adjacent(Snug, buffer)' /\ Loose'
    BY <1>1, <2>1, <2>5, <2>6 DEF Sound, Joints, Loose
  <2>8. Seamless'
    BY <1>1 DEF Seamless
  <2>9. QED
    BY <2>1, <2>7, <2>8 DEF Joints
<1>13. Halved'
  <2>1. /\ \A z \in Elements(buffer) : z.cls \notin Half
        /\ \A z \in Elements(input) : z.cls \notin Half
    BY <1>2 DEF Sound, Halved
  <2>2. /\ Len(input') = Len(input) + 1 /\ input'[1] = x /\ input'[2] = y
        /\ \A i \in 2 .. Len(input) : input'[i + 1] = input[i]
    BY <1>8 DEF SplitOf
  <2>3. input' # <<>> /\ Next1' = x /\ Len(input') > 1 /\ input'[2] = y
    BY <1>7, <2>2 DEF Next1
  <2>4. ASSUME NEW i \in 2 .. Len(input'), input'[i].cls \in Half
        PROVE  i = 2
    <3> SUFFICES ASSUME i # 2 PROVE FALSE
      OBVIOUS
    <3>1. i - 1 \in 2 .. Len(input) /\ (i - 1) + 1 = i /\ i - 1 \in 1 .. Len(input)
      BY <1>7, <2>2
    <3>2. input'[i] = input[i - 1] /\ input[i - 1] \in Elements(input)
      BY <1>7, <2>2, <3>1, ElementsTyped
    <3>3. QED
      BY <2>1, <2>4, <3>2
  <2>5. Next1'.cls = "TBODY" /\ input'[2].cls = "MARK" /\ Next1'.cls \in Half
    BY <1>8, <2>3 DEF Half
  <2>6. (\A z \in Elements(buffer) : z.cls \notin Half)'
    BY <1>1, <2>1
  <2>7. QED
    BY <1>1, <2>3, <2>4, <2>5, <2>6 DEF Halved
<1>14. QED
  BY <1>11, <1>12, <1>13, SafeAt

(* In a literal.                                                           *)
LEMMA LiteralControl ==
  ASSUME NEW here \in Place, Standing(here), turn = "scan", start = "time_literal_state"
  PROVE  /\ parse \in ParseAt(here)
         /\ here \in Timed /\ Below(here, stack) /\ stack[Len(stack)] \in Inclusive
  BY DEF Standing, Control, ScanControl, Rests, Passes

(* The body of a literal.                                                  *)
LEMMA TimePartSafe ==
  ASSUME Sound, TypeOK', NEW here \in Place, Standing(here), UNCHANGED parse, TimePart
  PROVE  Safe
<1>1. /\ turn = "scan" /\ input # <<>> /\ Return
      /\ UNCHANGED <<src, buffer, parse, start, stack>>
      /\ start = "time_literal_state" /\ Next1.cls = "TBODY"
  BY DEF TimePart, Rule, bodyVars
<1>2. /\ parse \in ParseAt(here)
      /\ here \in Timed /\ Below(here, stack) /\ stack[Len(stack)] \in Inclusive
  BY <1>1, LiteralControl
<1>3. Onward(Tail(input), here)
  BY <1>1, BodyNext DEF Sound, Standing
<1>4. Takes(here, "TBODY", here) /\ FlexAt(here, here) = here /\ here \notin Tight
  BY <1>2 DEF Takes, PouPlaces, BodyTokens, Class, Marked, FlexAt, Timed, Tight
<1>5. Asks(here, here) = {}
  BY <1>2 DEF Asks, Timed
<1>6. Awaits(here, here, start', stack')
  BY <1>1, <1>2, <1>4, <1>5 DEF Rests, Awaits
<1>7. TokenClass(Next1.cls, start) = "TBODY"
  BY <1>1 DEF TokenClass
<1>8. Standing(here)' /\ Joints'
  BY <1>1, <1>2, <1>3, <1>4, <1>6, <1>7, Returned
<1>9. Halved'
  <2>1. /\ \A x \in Elements(buffer) : x.cls \notin Half
        /\ \A i \in 2 .. Len(input) : input[i].cls \in Half => i = 2
        /\ Len(input) > 1 /\ input[2].cls = "MARK"
    BY <1>1 DEF Sound, Halved
  <2>2. /\ input' \in Seq(Items) /\ Len(input) \in Nat
        /\ RestOf(input', input, 1)
    BY <1>1, TailRests, WaitingTyped DEF Sound, TypeOK, TextTyped, Return
  <2>3. /\ Len(input') = Len(input) - 1
        /\ \A i \in 1 .. Len(input) - 1 : input'[i] = input[i + 1]
    BY <2>2 DEF RestOf
  <2>4. 1 \in 1 .. Len(input) - 1 /\ 1 + 1 = 2 /\ Len(input') # 0
    BY <2>1, <2>2, <2>3
  <2>5. input' # <<>> /\ Next1'.cls = "MARK"
    <3>1. Next1' = input[2]
      BY <2>3, <2>4 DEF Next1
    <3>2. input' # <<>>
      BY <2>4
    <3>3. QED
      BY <2>1, <3>1, <3>2
  <2>6. ASSUME NEW i \in 2 .. Len(input') PROVE input'[i].cls \notin Half
    <3>1. i \in 1 .. Len(input) - 1 /\ i + 1 \in 2 .. Len(input) /\ i + 1 # 2
      BY <2>2, <2>3
    <3>2. QED
      BY <2>1, <2>3, <3>1
  <2>7. (\A x \in Elements(buffer) : x.cls \notin Half)'
    BY <1>1, <2>1
  <2>8. QED
    BY <1>1, <2>5, <2>6, <2>7 DEF Halved, Half
<1>10. QED
  BY <1>8, <1>9, SafeAt

(* Its mark ends it, and flex is back at what it interrupted.              *)
LEMMA TimeEndSafe ==
  ASSUME Sound, TypeOK', NEW here \in Place, Standing(here), UNCHANGED parse, TimeEnd
  PROVE  Safe
<1>1. /\ turn = "scan" /\ input # <<>> /\ Return
      /\ UNCHANGED <<src, buffer, parse>>
      /\ start = "time_literal_state" /\ Next1.cls = "MARK"
      /\ start' = stack[Len(stack)] /\ stack' = SubSeq(stack, 1, Len(stack) - 1)
  BY DEF TimeEnd, Rule, bodyVars, PopState
<1>2. /\ parse \in ParseAt(here) /\ here \in Timed
      /\ At(here, start', stack') /\ start' \in Inclusive
  BY <1>1, LiteralControl DEF Below
<1>3. start' \notin {"comment_state", "time_literal_state"}
  BY <1>2, AtStart
<1>4. ~ InComment /\ Next1.cls \notin Blank \cup {"CB", "TBODY"} /\ Whole(Next1.cls) = "TIME"
  BY <1>1 DEF InComment, Blank, Whole
<1>5. PICK next \in Place : /\ next = G[Next1.at]
                            /\ Goes(here, "TIME", next)
                            /\ Onward(Tail(input), next)
  BY <1>1, <1>4, WordNext DEF Sound, Joints, Standing
<1>6. \/ here \in {"units", "header", "vars", "body", "block"} /\ next = here
      \/ here = "open" /\ next = "body"
      \/ here = "timedlit" /\ next = "names"
  BY <1>2, <1>5 DEF Goes, PouGoes, ChartGoes, ConfGoes, Plain, Name, Value, Timed
<1>7. Takes(here, "MARK", next) /\ next \notin Tight
  BY <1>6 DEF Takes, PouPlaces, BodyTokens, Class, Marked, Tight
<1>8. At(FlexAt(here, next), start', stack')
  <2>1. CASE here = "timedlit"
    BY <1>2, <1>6, <2>1 DEF FlexAt, FlexMoved, PouPlaces
  <2>2. CASE here # "timedlit"
    <3>1. FlexAt(here, next) = next
      BY <1>6, <2>2 DEF FlexAt, FlexMoved, PouPlaces
    <3>2. At(next, start', stack')
      BY <1>2, <1>6, <2>2 DEF At, Inclusive
    <3>3. QED
      BY <3>1, <3>2
  <2>3. QED
    BY <2>1, <2>2
<1>9. Awaits(here, next, start', stack')
  BY <1>3, <1>8 DEF Rests, Awaits
<1>10. TokenClass(Next1.cls, start) = "MARK"
  BY <1>1 DEF TokenClass
<1>11. Standing(next)' /\ Joints'
  BY <1>1, <1>2, <1>5, <1>7, <1>9, <1>10, Returned
<1>12. Halved'
  <2>1. /\ \A x \in Elements(buffer) : x.cls \notin Half
        /\ \A i \in 2 .. Len(input) : input[i].cls \notin Half
    BY <1>1 DEF Sound, Halved
  <2>2. /\ input' \in Seq(Items) /\ Len(input) \in Nat
        /\ RestOf(input', input, 1)
    BY <1>1, TailRests, WaitingTyped DEF Sound, TypeOK, TextTyped, Return
  <2>3. ASSUME NEW x \in Elements(input') PROVE x.cls \notin Half
    <3>1. PICK i \in 1 .. Len(input') : x = input'[i]
      BY <2>2, <2>3, ElementsTyped
    <3>2. i \in 1 .. Len(input) - 1 /\ i + 1 \in 2 .. Len(input)
      BY <2>2 DEF RestOf
    <3>3. x = input[i + 1]
      BY <2>2, <3>1, <3>2 DEF RestOf
    <3>4. QED
      BY <2>1, <3>2, <3>3
  <2>4. (\A x \in Elements(buffer) : x.cls \notin Half)'
    BY <1>1, <2>1
  <2>5. QED
    BY <1>3, <2>3, <2>4 DEF Halved
<1>13. QED
  BY <1>11, <1>12, SafeAt

(* Flex never finds what no rule of it matches.                            *)
LEMMA NeverGivesUp ==
  ASSUME Sound, NEW here \in Place, Standing(here)
  PROVE  ~ GiveUp
<1> SUFFICES ASSUME GiveUp PROVE FALSE
  OBVIOUS
<1>1. CASE Rule({"sfc_priority_state"}, {"NL"})
  <2>1. turn = "scan" /\ input # <<>> /\ start = "sfc_priority_state" /\ Next1.cls = "NL"
    BY <1>1 DEF Rule
  <2>2. At(here, start, stack) \/ Passes(here, Next1.cls, start, stack)
    BY <2>1, Placed
  <2>3. here = "prio"
    BY <2>1, <2>2 DEF At, Passes, BodyStart
  <2>4. QED
    BY <2>1, <2>3, NotTight DEF Tight
<1>2. CASE Rule({"time_literal_state"}, Lexeme)
  BY <1>2 DEF Rule, Sound, Halved, Half, Lexeme, Blank, Letters, Headed, Punct
<1>3. QED
  BY <1>1, <1>2 DEF GiveUp

(* Words do not run together.                                              *)
LEMMA NeverFused ==
  ASSUME Sound
  PROVE  ~ FusedIdentifier
<1> SUFFICES ASSUME FusedIdentifier PROVE FALSE
  OBVIOUS
<1>1. Len(input) > 1 /\ input[1].cls \in Letters /\ input[2].cls \in Letters
  BY DEF FusedIdentifier, Touching
<1>2. input \in Seq(Items) /\ Len(input) \in Nat
  BY WaitingTyped DEF Sound
<1>3. 1 \in 1 .. Len(input) - 1 /\ 1 + 1 = 2
  BY <1>1, <1>2
<1>4. Adjacent(Snug, input)
  BY DEF Sound, Joints
<1>5. <<input[1], input[2]>> \in Snug
  <2>1. <<input[1], input[1 + 1]>> \in Snug
    BY <1>3, <1>4 DEF Adjacent
  <2>2. QED
    BY <1>3, <2>1
<1>6. Fits(input[1], input[2])
  BY <1>5 DEF Snug
<1>7. QED
  BY <1>1, <1>6 DEF Fits

(* At the end of the text.                                                 *)
LEMMA EndOfInputSafe ==
  ASSUME Sound, NEW here \in Place, Standing(here), UNCHANGED parse, EndOfInput
  PROVE  Safe
<1>1. /\ turn = "scan" /\ input = <<>> /\ turn' = "end"
      /\ UNCHANGED <<src, input, buffer, start, stack, parse>>
  BY DEF EndOfInput, bodyVars
<1>2. G' = G /\ Steps' = Steps /\ Snug' = Snug /\ Parses(src, G)'
  BY <1>1, SourceKept DEF Sound, Joints
<1>3. Onward(input, here)' /\ Due(here)'
  BY <1>1, OnwardKept DEF Standing, Due, Next1
<1>4. Gap(here)'
  <2>1. Collecting' => Collecting
    BY <1>1 DEF Collecting, InComment
  <2>2. QED
    BY <1>1, <2>1, GapKept DEF Standing
<1>5. Control(here)'
  BY <1>1 DEF Standing, Control, ScanControl
<1>6. Joints'
  BY <1>1, <1>2 DEF Sound, Joints, Loose, Seamless
<1>7. Halved'
  BY <1>1 DEF Sound, Halved, Next1
<1>8. QED
  BY <1>3, <1>4, <1>5, <1>6, <1>7, SafeAt DEF Standing

-----------------------------------------------------------------------------
(* Bison, and the state flex enters yylex in; every step; the first state. *)

(* yylex is entered.                                                       *)
LEMMA EnterYylexSafe ==
  ASSUME Sound, NEW here \in Place, Standing(here), UNCHANGED parse, EnterYylex
  PROVE  Safe
<1>1. turn = "enter" /\ UNCHANGED <<src, input, buffer, parse>>
  BY DEF EnterYylex, bodyVars
<1>2. EnterControl(here) /\ parse \in ParseAt(here)
  BY <1>1 DEF Standing, Control, EnterControl
<1>3. /\ turn' = "scan"
      /\ start' \notin {"comment_state", "time_literal_state"} \/ start' = start
      /\ Rests(here, start', stack')
      /\ start = "time_literal_state" => start' = start
  BY <1>2, EnterControls DEF Sound, ReadingInv
<1>4. start # "comment_state" /\ AllBlank(buffer)
  BY <1>1 DEF Sound, ReadingInv, Uncommented, InComment, Collected, Collecting
<1>5. start' # "comment_state" /\ (start' = "time_literal_state" <=> start = "time_literal_state")
  BY <1>3, <1>4
<1>6. G' = G /\ Steps' = Steps /\ Snug' = Snug /\ Parses(src, G)'
  BY <1>1, SourceKept DEF Sound, Joints
<1>7. Onward(input, here)' /\ Due(here)'
  BY <1>1, OnwardKept DEF Standing, Due, Next1
<1>8. Gap(here)'
  <2>1. CASE start' # "body_state"
    BY <1>5, <2>1 DEF Gap, Collecting, InComment
  <2>2. CASE start' = "body_state"
    <3>1. At(here, start', stack')
      BY <1>3, <2>2 DEF Rests
    <3>2. here \in {"open", "body", "block"}
      BY <2>2, <3>1 DEF At
    <3>3. Within(here, here)
      BY <3>2 DEF Within
    <3>4. Path(Steps, Place, buffer, here, here)'
      BY <1>1, <1>4, <1>6, BlankPath DEF Sound
    <3>5. QED
      BY <3>3, <3>4, Zenon DEF Gap
  <2>3. QED
    BY <2>1, <2>2
<1>9. Control(here)'
  BY <1>1, <1>2, <1>3 DEF Control, ScanControl
<1>10. Joints'
  <2>1. buffer # <<>> /\ input # <<>> => <<buffer[Len(buffer)], Next1>> \in Snug
    BY <1>4, BlankSeam DEF Sound, ReadingInv, Joints
  <2>2. Seamless'
    BY <1>1, <1>6, <2>1 DEF Seamless, Next1
  <2>3. QED
    BY <1>1, <1>6, <2>2 DEF Sound, Joints, Loose
<1>11. Halved'
  BY <1>1, <1>5 DEF Sound, Halved, Next1
<1>12. QED
  BY <1>7, <1>8, <1>9, <1>10, <1>11, SafeAt DEF Standing

(* Bison takes the token.                                                  *)
LEMMA YyparseSafe ==
  ASSUME Sound, ~ Faulty(src), NEW here \in Place, Standing(here), Yyparse
  PROVE  Safe
<1>1. /\ turn = "bison" /\ turn' = "enter" /\ BisonMoves
      /\ UNCHANGED <<src, input, buffer, start, stack>>
  BY DEF Yyparse, bodyVars
<1>2. PICK b \in Place : /\ parse \in ParseAt(b)
                         /\ Takes(b, token.cls, here)
                         /\ Awaits(b, here, start, stack)
  BY <1>1 DEF Standing, Control, BisonControl
<1>3. parse' \in ParseAt(here) /\ cmd' = [c \in Commands |-> c \in Asks(b, here)]
  BY <1>1, <1>2, BisonTakes DEF Sound
<1>4. token.cls \in Class
  <2>1. token.cls \in Class \cup {"none"}
    BY DEF Sound, TypeOK, PositionTyped
  <2>2. token.cls # "none"
    BY <1>2 DEF Takes, Class, Marked, Synthetic, Lexeme, Blank, Letters, Headed, Punct, Parts,
       BodyTokens
  <2>3. QED
    BY <2>1, <2>2
<1>5. EnterControl(here)'
  BY <1>1, <1>2, <1>3, <1>4 DEF EnterControl, Awaits
<1>6. Control(here)'
  BY <1>1, <1>5 DEF Control
<1>7. G' = G /\ Steps' = Steps /\ Snug' = Snug /\ Parses(src, G)'
  BY <1>1, SourceKept DEF Sound, Joints
<1>8. Onward(input, here)' /\ Due(here)'
  BY <1>1, OnwardKept DEF Standing, Due, Next1
<1>9. Gap(here)'
  BY <1>1 DEF Gap, Collecting
<1>10. Joints'
  BY <1>1, <1>7 DEF Sound, Joints, Loose, Seamless
<1>11. Halved'
  BY <1>1 DEF Sound, Halved, Next1
<1>12. QED
  BY <1>6, <1>8, <1>9, <1>10, <1>11, SafeAt DEF Standing

(* Nothing happens.                                                        *)
LEMMA StutterSafe ==
  ASSUME Sound, NEW here \in Place, Standing(here), UNCHANGED vars
  PROVE  Safe
<1>1. UNCHANGED <<src, input, buffer, start, stack, turn, token, cmd, parse>>
  BY DEF vars, lexVars, bodyVars
<1>2. G' = G /\ Steps' = Steps /\ Snug' = Snug /\ Parses(src, G)'
  BY <1>1, SourceKept DEF Sound, Joints
<1>3. Onward(input, here)' /\ Due(here)'
  BY <1>1, OnwardKept DEF Standing, Due, Next1
<1>4. Gap(here)'
  <2>1. Collecting' => Collecting
    BY <1>1 DEF Collecting, InComment
  <2>2. QED
    BY <1>1, <2>1, GapKept DEF Standing
<1>5. Control(here)'
  BY <1>1 DEF Standing, Control, ScanControl, BisonControl, EnterControl, Next1
<1>6. Joints'
  BY <1>1, <1>2 DEF Sound, Joints, Loose, Seamless, Next1
<1>7. Halved'
  BY <1>1 DEF Sound, Halved, Next1
<1>8. QED
  BY <1>3, <1>4, <1>5, <1>6, <1>7, SafeAt DEF Standing

(* Every step keeps the invariant.                                         *)
LEMMA NextGrammar ==
  ASSUME TypeOK, TypeOK', ReadingInv, ~ Faulty(src), GrammarInv, [Next]_vars
  PROVE  GrammarInv'
<1>1. Sound
  BY DEF Sound, GrammarInv
<1>2. PICK here \in Place : Standing(here)
  BY DEF GrammarInv, InStep
<1>3. Safe
  <2>1. CASE UNCHANGED vars
    BY <1>1, <1>2, <2>1, StutterSafe
  <2>2. CASE Yyparse
    BY <1>1, <1>2, <2>2, YyparseSafe
  <2>3. CASE Scanner
    <3>1. UNCHANGED parse
      BY <2>3 DEF Scanner
    <3>2. CASE EnterYylex
      BY <1>1, <1>2, <3>1, <3>2, EnterYylexSafe
    <3>3. CASE ChangesState
      BY <1>1, <1>2, <3>1, <3>3, ReconsiderSafe, ReturnSafe DEF ChangesState
    <3>4. CASE CollectsBody
      BY <1>1, <1>2, <3>1, <3>4, BodyCollectSafe, ReconsiderSafe, BodyIsStByKeywordSafe,
         PutBackSafe DEF CollectsBody
    <3>5. CASE ReadsText
      BY <1>1, <1>2, <3>1, <3>5, EatBlankSafe, ReturnBlankSafe, NeverGivesUp, OpenCommentSafe,
         CloseCommentSafe, CommentTextSafe, TimeLiteralSafe, TimePartSafe, TimeEndSafe,
         NeverFused, ReturnSafe, EndOfInputSafe DEF ReadsText
    <3>6. QED
      BY <2>3, <3>2, <3>3, <3>4, <3>5 DEF Scanner, Yylex
  <2>4. QED
    BY <2>1, <2>2, <2>3 DEF Next, Finished, SfcError
<1>4. QED
  BY <1>3 DEF Safe, GrammarInv, InStep

(* It holds at the start: the whole text leads from "units" to "units".    *)
LEMMA InitGrammar ==
  ASSUME Init, TypeOK, Grammatical(src), IsText(src)
  PROVE  GrammarInv
<1>1. /\ input = [n \in DOMAIN src |-> Item(src, n)]
      /\ buffer = <<>> /\ start = "INITIAL" /\ stack = <<>> /\ turn = "enter"
      /\ cmd = NoCommand /\ parse = "pou"
      /\ src \in Seq(Lexeme) /\ input \in Seq(Items)
  BY DEF Init, LexInit, TypeOK, TextTyped
<1> DEFINE N == Len(src)
<1>2. /\ N \in Nat /\ Len(input) = N
      /\ \A n \in 1 .. N : /\ input[n] = Item(src, n) /\ input[n] \in Items
                           /\ src[n] \in Lexeme
                           /\ input[n].cls = src[n] /\ input[n].at = n
  BY <1>1 DEF Item
<1>3. Parses(src, G)
  BY DEF Grammatical, G
<1> HIDE DEF N
<1>4. Adjacent(Snug, input)
  <2> SUFFICES ASSUME NEW i \in 1 .. Len(input) - 1
               PROVE  <<input[i], input[i + 1]>> \in Snug
    BY DEF Adjacent
  <2>1. i \in 1 .. N /\ i + 1 \in 1 .. N /\ i \in 1 .. Len(src) - 1
    BY <1>2 DEF N
  <2>2. src[i] \in Letters => src[i + 1] \notin Letters
    BY <2>1 DEF IsText
  <2>3. Fits(input[i], input[i + 1])
    BY <1>2, <2>1, <2>2 DEF Fits
  <2>4. QED
    BY <1>2, <2>1, <2>3, SnugAre
<1>5. Joints
  <2>1. Elements(buffer) = {} /\ Len(buffer) = 0
    BY <1>1 DEF Elements
  <2>2. Adjacent(Snug, buffer)
    BY <2>1 DEF Adjacent
  <2>3. Loose /\ Seamless
    BY <1>1, <2>1 DEF Loose, Seamless
  <2>4. QED
    BY <1>3, <1>4, <2>2, <2>3 DEF Joints
<1>6. Halved
  <2>1. \A x \in Elements(buffer) : x.cls \notin Half
    BY <1>1 DEF Elements
  <2>2. \A x \in Elements(input) : x.cls \notin Half
    <3> SUFFICES ASSUME NEW x \in Elements(input) PROVE x.cls \notin Half
      OBVIOUS
    <3>1. PICK n \in 1 .. Len(input) : x = input[n]
      BY <1>1, ElementsTyped
    <3>2. x.cls \in Lexeme
      BY <1>2, <3>1
    <3>3. QED
      BY <3>2 DEF Half, Lexeme, Blank, Letters, Headed, Punct
  <2>3. QED
    BY <1>1, <2>1, <2>2 DEF Halved
<1>7. Onward(input, "units")
  <2>1. /\ G \in [0 .. N -> Place] /\ G[0] = "units" /\ G[N] = "units"
        /\ \A n \in 1 .. N : n \notin Significant(src) => G[n] = G[n - 1]
    BY <1>3, PlacesAre DEF N
  <2>2. ASSUME NEW n \in 1 .. N PROVE <<input[n], G[n - 1], G[n]>> \in Steps
    <3>1. n \in 0 .. N /\ n - 1 \in 0 .. N
      BY <1>2
    <3>2. G[n - 1] \in Place /\ G[n] \in Place
      BY <2>1, <3>1
    <3>3. src[n] \in Blank => n \notin Significant(src)
      BY DEF Significant
    <3>4. src[n] # "TBODY"
      BY <1>2 DEF Lexeme, Blank, Letters, Headed, Punct
    <3>5. Leads(input[n], G[n - 1], G[n])
      BY <1>2, <2>1, <3>3, <3>4 DEF Leads
    <3>6. QED
      BY <1>2, <3>2, <3>5, StepsAre
  <2>3. Path(Steps, Place, input, "units", "units")
    BY <1>2, <2>1, <2>2 DEF Path
  <2>4. QED
    BY <2>3 DEF Onward
<1>8. EnterControl("units")
  <2>1. Takes("units", "SEMI", "units") /\ "SEMI" \in Class /\ Asks("units", "units") = {}
    BY DEF Takes, PouPlaces, Class, Marked, Lexeme, Punct, Asks
  <2>2. cmd = [c \in Commands |-> c \in Asks("units", "units")]
    <3>1. \A c \in Commands : (c \in Asks("units", "units")) = FALSE
      BY <2>1
    <3>2. QED
      BY <1>1, <3>1, Zenon DEF NoCommand
  <2>3. Awaits("units", "units", start, stack)
    BY <1>1 DEF FlexAt, Rests, At, Awaits
  <2>4. parse \in ParseAt("units") /\ "units" \in Place
    BY <1>1 DEF ParseAt, PouPlaces, Place
  <2>5. QED
    BY <2>1, <2>2, <2>3, <2>4 DEF EnterControl
<1>9. Standing("units")
  BY <1>1, <1>7, <1>8 DEF Standing, Due, Tight, Gap, Collecting, Control
<1>10. QED
  BY <1>5, <1>6, <1>9 DEF GrammarInv, InStep, Place, PouPlaces

(* No step changes the source.                                             *)
LEMMA SourceStays ==
  ASSUME [Next]_vars
  PROVE  src' = src
<1>1. CASE UNCHANGED vars \/ Finished \/ SfcError
  BY <1>1 DEF vars, lexVars, Finished, SfcError
<1>2. CASE Yyparse
  BY <1>2 DEF Yyparse
<1>3. CASE EnterYylex \/ ChangesState
  BY <1>3 DEF EnterYylex, ChangesState, PouHeader, ConfHeader, HeaderToVarList, EnterVarBlock,
     VarListToInitial, PragmaBeforeVar, EnterBody, EndVar, LeaveBody, EndUnit
<1>4. CASE CollectsBody
  BY <1>4 DEF CollectsBody, BodyCollect, BodyIsSfc, BodyIsTransition, BodyIsStByKeyword, BodyIsSt,
     BodyIsIl, BodyMatch
<1>5. CASE ReadsText
  BY <1>5 DEF ReadsText, EatBlank, ReturnBlank, GiveUp, OpenComment, CloseComment, CommentText,
     TimeLiteral, TimePart, TimeEnd, FusedIdentifier, ReturnToken, EndOfInput
<1>6. QED
  BY <1>1, <1>2, <1>3, <1>4, <1>5 DEF Next, Scanner, Yylex

-----------------------------------------------------------------------------
(* Wherever flex and bison are with a grammatical text, they are at one    *)
(* place of the grammar: the start condition, its stack (yy_push_state,    *)
(* yy_pop_state) and the commands that the parser leaves in parser_t are   *)
(* what that place demands, and what is still to be read leads from there  *)
(* to the end of the text.                                                 *)
THEOREM StaysInPlace ==
  ASSUME \A s \in Sources : ~ Faulty(s) => Grammatical(s)
  PROVE  Spec => [](~ Faulty(src) => GrammarInv)
<1>1. Init => (~ Faulty(src) => GrammarInv)
  <2> SUFFICES ASSUME Init, ~ Faulty(src) PROVE GrammarInv
    OBVIOUS
  <2>1. TypeOK
    BY InitTyped
  <2>2. Grammatical(src) /\ IsText(src)
    BY SourcesAssumption DEF Init, LexInit
  <2>3. QED
    BY <2>1, <2>2, InitGrammar
<1>2. /\ TypeOK /\ TypeOK' /\ ReadingInv /\ (~ Faulty(src) => GrammarInv) /\ [Next]_vars
      => (~ Faulty(src) => GrammarInv)'
  <2> SUFFICES ASSUME TypeOK, TypeOK', ReadingInv, ~ Faulty(src) => GrammarInv, [Next]_vars,
                      ~ Faulty(src')
               PROVE  GrammarInv'
    OBVIOUS
  <2>1. src' = src
    BY SourceStays
  <2>2. QED
    BY <2>1, NextGrammar
<1>3. QED
  BY <1>1, <1>2, TypeCorrect, ReadsTheText, PTL DEF Spec

(* Flex is at rest at some place, or on the way from one.                  *)
LEMMA WhereFlexIs ==
  ASSUME TypeOK, GrammarInv
  PROVE  /\ turn # "fatal"
         /\ \/ \E p \in Place : /\ Rests(p, start, stack)
                                /\ p = "block" => parse \in {"act", "block"}
                                /\ p \in {"open", "body"} => parse = "pou"
            \/ \E p \in Place : /\ turn = "scan" /\ input # <<>>
                                /\ parse \in ParseAt(p) /\ Passes(p, Next1.cls, start, stack)
<1>1. PICK here \in Place : Control(here)
  BY DEF GrammarInv, InStep, Standing
<1>2. CASE turn \in {"scan", "end"}
  <2>1. ScanControl(here)
    BY <1>1, <1>2 DEF Control
  <2>2. CASE Rests(here, start, stack)
    BY <1>2, <2>1, <2>2 DEF ScanControl, ParseAt, PouPlaces
  <2>3. CASE turn = "scan" /\ input # <<>> /\ Passes(here, Next1.cls, start, stack)
    BY <2>1, <2>3 DEF ScanControl
  <2>4. QED
    BY <2>1, <2>2, <2>3 DEF ScanControl
<1>3. CASE turn \in {"bison", "enter"}
  <2>1. PICK b \in Place : /\ \E k : Takes(b, k, here)
                           /\ Rests(FlexAt(b, here), start, stack)
                           /\ parse \in ParseAt(b) \/ parse \in ParseAt(here)
                           /\ turn = "bison" => parse \in ParseAt(b)
                           /\ turn = "enter" => parse \in ParseAt(here)
    BY <1>1, <1>3 DEF Control, BisonControl, EnterControl, Awaits
  <2>2. FlexAt(b, here) = "block" => parse \in {"act", "block"}
    BY <1>3, <2>1 DEF FlexAt, FlexMoved, Takes, PouPlaces, ParseAt
  <2>3. FlexAt(b, here) \in {"open", "body"} => parse = "pou"
    BY <1>3, <2>1 DEF FlexAt, FlexMoved, Takes, PouPlaces, ParseAt
  <2>4. FlexAt(b, here) \in Place
    BY DEF FlexAt
  <2>5. QED
    BY <1>3, <2>1, <2>2, <2>3, <2>4
<1>4. QED
  BY <1>1, <1>2, <1>3 DEF Control, TypeOK, ControlTyped

-----------------------------------------------------------------------------
(* What the invariant says of the properties that the runs check.          *)

(* Each property of the runs, from the invariant.                          *)
LEMMA WhereStacksAre ==
  ASSUME TypeOK, GrammarInv
  PROVE  StacksFit
<1>1. start \in StartCondition
  BY DEF TypeOK, ControlTyped
<1>2. ASSUME NEW p \in Place, Rests(p, start, stack),
             p = "block" => parse \in {"act", "block"},
             p \in {"open", "body"} => parse = "pou"
      PROVE  StacksFit
  <2>1. CASE start \in {"comment_state", "time_literal_state"}
    BY <1>2, <2>1 DEF Rests, Below, StacksFit
  <2>2. CASE start \notin {"comment_state", "time_literal_state"}
    <3>1. At(p, start, stack)
      BY <1>2, <2>2 DEF Rests
    <3>2. CASE start \in BodyStart
      <4>1. \/ p \in {"open", "body"} /\ stack = OnList
            \/ p = "block" /\ stack = Chart
        BY <3>1, <3>2 DEF At, BodyStart
      <4>2. QED
        BY <1>2, <3>2, <4>1 DEF StacksFit, BodyStart, OnList
    <3>3. CASE start \notin BodyStart
      BY <3>1, <3>3 DEF At, StacksFit, BodyStart, OnList
    <3>4. QED
      BY <3>2, <3>3
  <2>3. QED
    BY <2>1, <2>2
<1>3. ASSUME NEW p \in Place, parse \in ParseAt(p), NEW c, Passes(p, c, start, stack)
      PROVE  StacksFit
  <2>1. CASE start = "body_state"
    <3>1. p = "chart" /\ stack = OnList
      BY <1>3, <2>1 DEF Passes
    <3>2. QED
      BY <1>3, <2>1, <3>1 DEF StacksFit, OnList, ParseAt, PouPlaces
  <2>2. CASE start # "body_state"
    BY <1>3, <2>2 DEF Passes, StacksFit, OnList
  <2>3. QED
    BY <2>1, <2>2
<1>4. QED
  BY <1>2, <1>3, WhereFlexIs

LEMMA WhereBisonIs ==
  ASSUME GrammarInv
  PROVE  PlacesAgree
<1> SUFFICES ASSUME turn = "scan", start # "comment_state", input # <<>>, Next1.cls # "ENDPOU"
             PROVE  /\ parse \in {"head", "named", "step", "names", "comma", "assoc", "sfc", "ptrans"} =>
                         start = "sfc_state"
                    /\ parse \in {"qual", "timed", "timedval", "timedlook"} =>
                         start = "sfc_qualifier_state"
                    /\ parse = "timedlit" => start \in {"sfc_qualifier_state", "time_literal_state"}
                    /\ parse = "prio" => start = "sfc_priority_state"
                    /\ parse \in {"task", "tpar", "tval", "tprio", "tprioval"} =>
                         start = "task_init_state"
                    /\ parse \in {"conf", "tcomma"} => start = "config_state"
  BY DEF PlacesAgree
<1>1. PICK here \in Place : Standing(here)
  BY DEF GrammarInv, InStep
<1>2. /\ parse \in ParseAt(here)
      /\ Rests(here, start, stack) \/ Passes(here, Next1.cls, start, stack)
  BY <1>1 DEF Standing, Control, ScanControl
<1> SUFFICES ASSUME parse \notin {"pou", "act", "block"}
             PROVE  /\ parse \in {"head", "named", "step", "names", "comma", "assoc", "sfc", "ptrans"} =>
                         start = "sfc_state"
                    /\ parse \in {"qual", "timed", "timedval", "timedlook"} =>
                         start = "sfc_qualifier_state"
                    /\ parse = "timedlit" => start \in {"sfc_qualifier_state", "time_literal_state"}
                    /\ parse = "prio" => start = "sfc_priority_state"
                    /\ parse \in {"task", "tpar", "tval", "tprio", "tprioval"} =>
                         start = "task_init_state"
                    /\ parse \in {"conf", "tcomma"} => start = "config_state"
  OBVIOUS
<1>3. here = parse /\ here \notin PouPlaces /\ here # "block"
  BY <1>2 DEF ParseAt
<1>4. ~ Passes(here, Next1.cls, start, stack)
  BY <1>3 DEF Passes, PouPlaces
<1>5. At(here, start, stack) \/ (here = "timedlit" /\ start = "time_literal_state")
  BY <1>2, <1>3, <1>4 DEF Rests, Timed, PouPlaces
<1>6. QED
  BY <1>3, <1>5 DEF At, PouPlaces

LEMMA WhereTextEnds ==
  ASSUME TypeOK, ReadingInv, GrammarInv, Exhausted, TextAccounted, OnlyLayoutEaten
  PROVE  Delivered
<1> SUFFICES ASSUME turn = "end", NEW n \in Significant(src), n \notin delivered
             PROVE  FALSE
  BY DEF Delivered
<1>1. PICK here \in Place : Standing(here)
  BY DEF GrammarInv, InStep
<1>2. here = "units"
  <2>1. Len(input) = 0
    BY DEF Exhausted
  <2>2. QED
    BY <1>1, <2>1, PathEmpty DEF Standing, Onward
<1>3. Rests("units", start, stack)
  BY <1>1, <1>2 DEF Standing, Control, ScanControl
<1>4. ~ Collecting
  BY <1>3 DEF Collecting, InComment, Rests, Below, At, BodyStart
<1>5. AllBlank(buffer)
  BY <1>4 DEF ReadingInv, Collected
<1>6. src \in Seq(Lexeme) /\ n \in DOMAIN src
  BY DEF TypeOK, TextTyped, Significant
<1>7. src[n] \notin Blank
  BY DEF Significant
<1>8. n \in Pending
  BY <1>6 DEF TextAccounted, OnlyLayoutEaten
<1>9. PICK x \in Elements(buffer) : x.at = n
  <2>1. n \in Indices(buffer)
    BY <1>8 DEF Exhausted, Pending, Indices
  <2>2. QED
    BY <2>1 DEF Indices, Elements
<1>10. x.cls \in Blank /\ FromText(x)
  BY <1>5 DEF AllBlank, ReadingInv, Faithful, Waiting
<1>11. QED
  BY <1>7, <1>9, <1>10 DEF FromText, Blank

(* The stack of start conditions is never deeper or other than the rules   *)
(* of parser.l and the cmd_* functions of parser_t intend (StackShape): no *)
(* push is left behind by a body, a comment, a literal or a list, and      *)
(* yy_pop_state never finds the stack empty.                               *)
THEOREM StacksAreShaped ==
  ASSUME \A s \in Sources : ~ Faulty(s) => Grammatical(s)
  PROVE  Spec => []StackShape
<1>1. TypeOK /\ (~ Faulty(src) => GrammarInv) => StackShape
  BY WhereStacksAre DEF StackShape
<1>2. QED
  BY <1>1, TypeCorrect, StaysInPlace, PTL

(* While bison is inside a step, a qualifier, a transition, a task or a    *)
(* configuration, flex is in the start condition that its commands set for *)
(* it (BackInPlace), however many bodies were collected and put back       *)
(* before.                                                                 *)
THEOREM FlexComesBack ==
  ASSUME \A s \in Sources : ~ Faulty(s) => Grammatical(s)
  PROVE  Spec => []BackInPlace
<1>1. (~ Faulty(src) => GrammarInv) => BackInPlace
  BY WhereBisonIs DEF BackInPlace
<1>2. QED
  BY <1>1, StaysInPlace, PTL

(* When yyparse has read a grammatical text to its end, every significant  *)
(* lexeme of it was returned by yylex: nothing is left in the buffer that  *)
(* parser.l collects bodies in (AllDelivered).                             *)
THEOREM GrammaticalTextsAreDelivered ==
  ASSUME \A s \in Sources : ~ Faulty(s) => Grammatical(s)
  PROVE  Spec => []AllDelivered
<1>1. /\ TypeOK /\ ReadingInv /\ (~ Faulty(src) => GrammarInv) /\ Exhausted
      /\ TextAccounted /\ OnlyLayoutEaten
      => AllDelivered
  BY WhereTextEnds DEF AllDelivered
<1>2. QED
  BY <1>1, TypeCorrect, ReadsTheText, StaysInPlace, ReadToTheEnd, NothingLost, EatsLayoutOnly,
     PTL

(* With a grammatical text flex never ends the process: the pop that a     *)
(* command of the parser asks for finds what was pushed, and no lexeme     *)
(* comes up in a start condition where parser.l has no rule for it         *)
(* (%option nodefault) or calls ERROR.                                     *)
THEOREM NeverFatal ==
  ASSUME \A s \in Sources : ~ Faulty(s) => Grammatical(s)
  PROVE  Spec => [](~ Faulty(src) => turn # "fatal")
<1>1. (~ Faulty(src) => GrammarInv) => (~ Faulty(src) => turn # "fatal")
  BY DEF GrammarInv, InStep, Standing, Control
<1>2. QED
  BY <1>1, StaysInPlace, PTL
===============================================================================

----------------------------- MODULE EnEnoProofs -----------------------------
(***************************************************************************)
(* Proofs about EnEno: the visitor and the lists, for texts and sections   *)
(* of any length.                                                          *)
(***************************************************************************)
EXTENDS EnEno, SequenceTheorems, TLAPS

-----------------------------------------------------------------------------
(* The order of places, and the ends of a list.                            *)
Spot == [file : BOOLEAN, line : Int, column : Int]

LEMMA BeforeTrans ==
  ASSUME NEW p \in Spot, NEW q \in Spot, NEW r \in Spot, ~ Before(q, p), ~ Before(r, q)
  PROVE  ~ Before(r, p)
BY DEF Spot, Before

LEMMA EarlierFacts ==
  ASSUME NEW p \in Spot, NEW q \in Spot
  PROVE  /\ Earlier(p, q) \in Spot
         /\ p.file => Earlier(p, q).file
         /\ p.file => ~ Before(p, Earlier(p, q)) /\ ~ Before(q, Earlier(p, q))
<1> DEFINE m == [q EXCEPT !.file = TRUE]
<1>1. m \in Spot /\ m.file = TRUE /\ m.line = q.line /\ m.column = q.column
  BY DEF Spot
<1>2. Earlier(p, q) = IF ~ p.file THEN q ELSE IF Before(q, p) THEN m ELSE p
  BY DEF Earlier
<1> HIDE DEF m
<1>3. CASE ~ p.file
  BY <1>2, <1>3
<1>4. CASE p.file /\ Before(q, p)
  <2>1. Earlier(p, q) = m
    BY <1>2, <1>4
  <2>2. ~ Before(p, m) /\ ~ Before(q, m)
    BY <1>1, <1>4 DEF Before, Spot
  <2>3. QED
    BY <1>1, <2>1, <2>2
<1>5. CASE p.file /\ ~ Before(q, p)
  <2>1. Earlier(p, q) = p
    BY <1>2, <1>5
  <2>2. ~ Before(p, p)
    BY DEF Before, Spot
  <2>3. QED
    BY <1>5, <2>1, <2>2
<1>6. QED
  BY <1>3, <1>4, <1>5

LEMMA LaterFacts ==
  ASSUME NEW p \in Spot, NEW q \in Spot
  PROVE  /\ Later(p, q) \in Spot
         /\ p.file => Later(p, q).file
         /\ p.file => ~ Before(Later(p, q), p) /\ ~ Before(Later(p, q), q)
         /\ \A r \in Spot : ~ Before(r, p) /\ ~ Before(r, q) => ~ Before(r, Later(p, q))
<1> DEFINE m == [q EXCEPT !.file = TRUE]
<1>1. m \in Spot /\ m.file = TRUE /\ m.line = q.line /\ m.column = q.column
  BY DEF Spot
<1>2. Later(p, q) = IF ~ p.file THEN q ELSE IF Before(p, q) THEN m ELSE p
  BY DEF Later
<1> HIDE DEF m
<1>3. CASE ~ p.file
  BY <1>2, <1>3
<1>4. CASE p.file /\ Before(p, q)
  <2>1. Later(p, q) = m
    BY <1>2, <1>4
  <2>2. ~ Before(m, p) /\ ~ Before(m, q)
    BY <1>1, <1>4 DEF Before, Spot
  <2>3. \A r \in Spot : ~ Before(r, q) => ~ Before(r, m)
    BY <1>1 DEF Before, Spot
  <2>4. QED
    BY <1>1, <2>1, <2>2, <2>3
<1>5. CASE p.file /\ ~ Before(p, q)
  <2>1. Later(p, q) = p
    BY <1>2, <1>5
  <2>2. ~ Before(p, p)
    BY DEF Before, Spot
  <2>3. QED
    BY <1>5, <2>1, <2>2
<1>6. QED
  BY <1>3, <1>4, <1>5

LEMMA PlaceFacts ==
  ASSUME NEW p \in Nat
  PROVE  /\ Place(p) \in Spot /\ Place(p).file
         /\ Place(p + 1) \in Spot /\ Place(p + 1).file
         /\ ~ Before(Place(p + 1), Place(p)) /\ ~ Before(Place(p), Place(p))
<1>1. p \div 2 \in Int /\ p % 2 \in 0 .. 1 /\ p = (2 * (p \div 2)) + (p % 2)
  OBVIOUS
<1>2. /\ (p + 1) \div 2 \in Int /\ (p + 1) % 2 \in 0 .. 1
      /\ p + 1 = (2 * ((p + 1) \div 2)) + ((p + 1) % 2)
  OBVIOUS
<1>3. /\ Place(p) \in Spot /\ Place(p).file /\ Place(p).line = (p \div 2) + 1
      /\ Place(p).column = (p % 2) + 1
  BY <1>1 DEF Place, Spot
<1>4. /\ Place(p + 1) \in Spot /\ Place(p + 1).file /\ Place(p + 1).line = ((p + 1) \div 2) + 1
      /\ Place(p + 1).column = ((p + 1) % 2) + 1
  BY <1>2 DEF Place, Spot
<1>5. ASSUME NEW a \in Int, NEW b \in 0 .. 1, NEW c \in Int, NEW d \in 0 .. 1,
             2 * c + d = 2 * a + b + 1
      PROVE  ~ (c + 1 < a + 1 \/ (c + 1 = a + 1 /\ d + 1 < b + 1))
  BY <1>5
<1>6. (2 * ((p + 1) \div 2)) + ((p + 1) % 2) = (2 * (p \div 2)) + (p % 2) + 1
  BY <1>1, <1>2
<1>7. ~ Before(Place(p + 1), Place(p))
  BY <1>1, <1>2, <1>3, <1>4, <1>5, <1>6 DEF Before
<1>8. ~ Before(Place(p), Place(p))
  BY <1>3 DEF Before, Spot
<1>9. QED
  BY <1>3, <1>4, <1>7, <1>8

-----------------------------------------------------------------------------
(* Nodes with elements from S: declarations, sections, lists.              *)
Node(K, S) == [kind : K, implicit : BOOLEAN, elements : Seq(S), first : Spot, last : Spot]
Decl == Node({"var", "en", "eno", "NULL"}, {})
Sec == Node(Section \cup {"NULL"}, Decl)
Lst == Node({"list", "NULL"}, Sec)

LEMMA SymbolNode ==
  ASSUME NEW K, NEW S, NEW kind \in K, NEW imp \in BOOLEAN, NEW p \in Spot, NEW q \in Spot
  PROVE  Symbol(kind, imp, p, q) \in Node(K, S)
BY EmptySeq DEF Symbol, Node

LEMMA SymbolFacts ==
  ASSUME NEW kind, NEW imp, NEW p, NEW q
  PROVE  /\ Symbol(kind, imp, p, q).kind = kind
         /\ Symbol(kind, imp, p, q).implicit = imp
         /\ Symbol(kind, imp, p, q).first = p
         /\ Symbol(kind, imp, p, q).last = q
         /\ Range(Symbol(kind, imp, p, q).elements) = {}
BY DEF Symbol, Range

LEMMA NullFacts ==
  /\ Nowhere \in Spot /\ ~ Nowhere.file
  /\ Null \in Decl /\ Null \in Sec /\ Null \in Lst
  /\ Null.kind = "NULL" /\ Null.implicit = FALSE /\ Range(Null.elements) = {}
<1>1. Nowhere \in Spot /\ ~ Nowhere.file
  BY DEF Nowhere, Spot
<1>2. /\ Null.kind = "NULL" /\ Null.implicit = FALSE /\ Null.elements = <<>>
      /\ Range(Null.elements) = {}
  BY DEF Null, Range
<1>3. \A K, S : "NULL" \in K => Null \in Node(K, S)
  BY <1>1, EmptySeq DEF Null, Node
<1>4. QED
  BY <1>1, <1>2, <1>3 DEF Decl, Sec, Lst

LEMMA NodeFacts ==
  ASSUME NEW K, NEW S, NEW l \in Node(K, S)
  PROVE  /\ l.kind \in K /\ l.implicit \in BOOLEAN /\ l.elements \in Seq(S)
         /\ l.first \in Spot /\ l.last \in Spot
         /\ \A e \in Range(l.elements) : e \in S
BY RangeOfSeq DEF Node

LEMMA FrontFacts ==
  ASSUME NEW S, NEW s \in Seq(S), NEW e \in S
  PROVE  LET t == <<e>> \o s IN
         /\ InsertAt(s, 1, e) = t
         /\ t \in Seq(S) /\ Len(t) = Len(s) + 1
         /\ t[1] = e /\ \A i \in 1 .. Len(s) : t[i + 1] = s[i]
         /\ Range(t) = Range(s) \cup {e}
<1> DEFINE one == <<e>>
           t == one \o s
<1>1. one \in Seq(S) /\ Len(one) = 1 /\ one[1] = e /\ Range(one) = {e}
  BY DEF Range
<1>2. SubSeq(s, 1, 0) = <<>> /\ SubSeq(s, 1, Len(s)) = s /\ Len(s) \in Nat
  BY SubSeqEmpty, SubSeqFull, LenProperties
<1>3. <<>> \o one = one
  BY <1>1, ConcatEmptySeq
<1>4. InsertAt(s, 1, e) = t
  BY <1>2, <1>3 DEF InsertAt
<1> HIDE DEF one
<1>5. /\ t \in Seq(S) /\ Len(t) = Len(one) + Len(s)
      /\ \A i \in 1 .. Len(one) + Len(s) :
           t[i] = IF i <= Len(one) THEN one[i] ELSE s[i - Len(one)]
  BY <1>1, ConcatProperties
<1>7. Range(t) = Range(s) \cup {e}
  BY <1>1, RangeConcatenation
<1> HIDE DEF t
<1>6. t[1] = e /\ \A i \in 1 .. Len(s) : t[i + 1] = s[i]
  <2>1. ASSUME NEW i \in 1 .. Len(s) PROVE t[i + 1] = s[i]
    BY <1>1, <1>2, <1>5
  <2>2. QED
    BY <1>1, <1>2, <1>5, <2>1
<1>9. Len(t) = Len(s) + 1
  BY <1>1, <1>2, <1>5
<1>8. QED
  BY <1>4, <1>5, <1>6, <1>7, <1>9 DEF t, one

LEMMA AppendFacts ==
  ASSUME NEW S, NEW s \in Seq(S), NEW e \in S
  PROVE  /\ Append(s, e) \in Seq(S) /\ Len(Append(s, e)) = Len(s) + 1
         /\ Range(Append(s, e)) = Range(s) \cup {e}
<1> DEFINE one == <<e>>
<1>1. Append(s, e) \in Seq(S) /\ Len(Append(s, e)) = Len(s) + 1 /\ Append(s, e) = s \o one
  BY AppendProperties, AppendIsConcat
<1>2. one \in Seq(S) /\ Range(one) = {e}
  BY DEF Range
<1> HIDE DEF one
<1>3. QED
  BY <1>1, <1>2, RangeConcatenation

-----------------------------------------------------------------------------
(* InsertElement, at the front or at the end.                              *)
Elements(s, e, pos) == IF pos < 0 THEN Append(s, e) ELSE InsertAt(s, pos + 1, e)

LEMMA ElementsFacts ==
  ASSUME NEW S, NEW s \in Seq(S), NEW e \in S, NEW pos \in {-1, 0}
  PROVE  /\ Elements(s, e, pos) \in Seq(S)
         /\ Len(Elements(s, e, pos)) = Len(s) + 1
<1>1. CASE pos = 0
  <2>1. Elements(s, e, pos) = <<e>> \o s
    BY <1>1, FrontFacts DEF Elements
  <2>2. QED
    BY <2>1, FrontFacts
<1>2. CASE pos = -1
  BY <1>2, AppendFacts DEF Elements
<1>3. QED
  BY <1>1, <1>2

LEMMA ElementsRange ==
  ASSUME NEW S, NEW s \in Seq(S), NEW e \in S, NEW pos \in {-1, 0}
  PROVE  Range(Elements(s, e, pos)) = Range(s) \cup {e}
<1> DEFINE els == Elements(s, e, pos)
<1>1. CASE pos = 0
  <2>1. els = <<e>> \o s
    BY <1>1, FrontFacts DEF Elements
  <2> HIDE DEF els
  <2>2. Range(els) = Range(s) \cup {e}
    BY <2>1, FrontFacts
  <2>3. QED
    BY <2>2 DEF els
<1>2. CASE pos = -1
  <2>1. els = Append(s, e)
    BY <1>2 DEF Elements
  <2> HIDE DEF els
  <2>2. Range(els) = Range(s) \cup {e}
    BY <2>1, AppendFacts
  <2>3. QED
    BY <2>2 DEF els
<1>3. QED
  BY <1>1, <1>2

LEMMA InsertFacts ==
  ASSUME NEW K, NEW S, NEW l \in Node(K, S), NEW e \in S, NEW pos \in {-1, 0},
         e.first \in Spot, e.last \in Spot,
         NEW m, m = InsertElement(l, e, pos)
  PROVE  /\ m \in Node(K, S)
         /\ m.kind = l.kind
         /\ m.implicit = l.implicit
         /\ m.elements = Elements(l.elements, e, pos)
         /\ m.first = IF e = Null THEN l.first ELSE Earlier(l.first, e.first)
         /\ m.last = IF e = Null THEN l.last ELSE Later(l.last, e.last)
<1> DEFINE els == Elements(l.elements, e, pos)
<1>1. l.elements \in Seq(S) /\ l.first \in Spot /\ l.last \in Spot
  BY NodeFacts
<1>2. els \in Seq(S)
  BY <1>1, ElementsFacts
<1>3. m = IF e = Null THEN [l EXCEPT !.elements = els]
          ELSE [l EXCEPT !.elements = els,
                         !.first = Earlier(@, e.first), !.last = Later(@, e.last)]
  BY DEF InsertElement, Elements
<1> HIDE DEF els
<1>4. Earlier(l.first, e.first) \in Spot /\ Later(l.last, e.last) \in Spot
  BY <1>1, EarlierFacts, LaterFacts
<1>5. CASE e = Null
  <2>1. m = [l EXCEPT !.elements = els]
    BY <1>3, <1>5
  <2>2. /\ m \in Node(K, S) /\ m.kind = l.kind /\ m.implicit = l.implicit
        /\ m.elements = els /\ m.first = l.first /\ m.last = l.last
    BY <2>1, <1>2 DEF Node
  <2>3. QED
    BY <2>2, <1>5 DEF els
<1>6. CASE e # Null
  <2>1. m = [l EXCEPT !.elements = els,
                      !.first = Earlier(@, e.first), !.last = Later(@, e.last)]
    BY <1>3, <1>6
  <2>2. /\ m \in Node(K, S) /\ m.kind = l.kind /\ m.implicit = l.implicit
        /\ m.elements = els
        /\ m.first = Earlier(l.first, e.first) /\ m.last = Later(l.last, e.last)
    BY <2>1, <1>2, <1>4 DEF Node
  <2>3. QED
    BY <2>2, <1>6 DEF els
<1>7. QED
  BY <1>5, <1>6

LEMMA InsertRange ==
  ASSUME NEW K, NEW S, NEW l \in Node(K, S), NEW e \in S, NEW pos \in {-1, 0},
         e.first \in Spot, e.last \in Spot,
         NEW m, m = InsertElement(l, e, pos)
  PROVE  Range(m.elements) = Range(l.elements) \cup {e}
<1>1. m.elements = Elements(l.elements, e, pos)
  BY InsertFacts
<1>2. l.elements \in Seq(S)
  BY NodeFacts
<1>3. QED
  BY <1>1, <1>2, ElementsRange

(* A list that has a place and covers its elements still does so after.    *)
LEMMA CoversInsert ==
  ASSUME NEW K, NEW S, NEW l \in Node(K, S), NEW e \in S, NEW pos \in {-1, 0},
         \A x \in S : x.first \in Spot /\ x.last \in Spot,
         l.first.file, l.last.file, Covers(l),
         NEW m, m = InsertElement(l, e, pos)
  PROVE  /\ m.first.file /\ m.last.file /\ Covers(m)
         /\ \A r \in Spot : ~ Before(r, l.last) /\ (e # Null => ~ Before(r, e.last))
              => ~ Before(r, m.last)
<1>1. /\ l.first \in Spot /\ l.last \in Spot /\ e.first \in Spot /\ e.last \in Spot
      /\ \A x \in Range(l.elements) : x \in S
  BY NodeFacts
<1>2. /\ Range(m.elements) = Range(l.elements) \cup {e}
      /\ m.first = IF e = Null THEN l.first ELSE Earlier(l.first, e.first)
      /\ m.last = IF e = Null THEN l.last ELSE Later(l.last, e.last)
      /\ m \in Node(K, S)
  <2>1. Range(m.elements) = Range(l.elements) \cup {e}
    BY <1>1, InsertRange
  <2>2. /\ m.first = IF e = Null THEN l.first ELSE Earlier(l.first, e.first)
        /\ m.last = IF e = Null THEN l.last ELSE Later(l.last, e.last)
        /\ m \in Node(K, S)
    BY <1>1, InsertFacts
  <2>3. QED
    BY <2>1, <2>2
<1>3. m.first \in Spot /\ m.last \in Spot
  BY <1>2, NodeFacts
<1>4. CASE e = Null
  <2>1. m.first = l.first /\ m.last = l.last
    BY <1>2, <1>4
  <2>2. Covers(m)
    BY <1>2, <1>4, <2>1 DEF Covers
  <2>3. QED
    BY <2>1, <2>2, <1>4
<1>5. CASE e # Null
  <2>1. m.first = Earlier(l.first, e.first) /\ m.last = Later(l.last, e.last)
    BY <1>2, <1>5
  <2>2. m.first.file /\ ~ Before(l.first, m.first) /\ ~ Before(e.first, m.first)
    BY <1>1, <2>1, EarlierFacts
  <2>3. /\ m.last.file /\ ~ Before(m.last, l.last) /\ ~ Before(m.last, e.last)
        /\ \A r \in Spot : ~ Before(r, l.last) /\ ~ Before(r, e.last) => ~ Before(r, m.last)
    BY <1>1, <2>1, LaterFacts
  <2>4. ASSUME NEW x \in Range(m.elements), x # Null, ~ x.implicit
        PROVE  ~ Before(x.first, m.first) /\ ~ Before(m.last, x.last)
    <3>1. CASE x = e
      BY <2>2, <2>3, <3>1
    <3>2. CASE x \in Range(l.elements)
      <4>1. x.first \in Spot /\ x.last \in Spot
        BY <1>1, <3>2
      <4>2. ~ Before(x.first, l.first) /\ ~ Before(l.last, x.last)
        BY <2>4, <3>2 DEF Covers
      <4>3. ~ Before(x.first, m.first)
        BY <4>1, <4>2, <2>2, <1>1, <1>3, BeforeTrans
      <4>4. ~ Before(m.last, x.last)
        BY <4>1, <4>2, <2>3, <1>1, <1>3, BeforeTrans
      <4>5. QED
        BY <4>3, <4>4
    <3>3. QED
      BY <3>1, <3>2, <1>2
  <2>5. Covers(m)
    BY <2>4 DEF Covers
  <2>6. QED
    BY <2>2, <2>3, <2>5, <1>5
<1>6. QED
  BY <1>4, <1>5

(* The parameters the visitor adds.                                        *)
LEMMA ParamFacts ==
  ASSUME NEW par \in {EnParam, EnoParam}
  PROVE  par \in Sec /\ par # Null /\ par.implicit /\ Covers(par)
<1>1. PICK k \in {"input", "output"}, d \in {"en", "eno"} :
        par = AddElement(Symbol(k, TRUE, Nowhere, Nowhere), Symbol(d, TRUE, Nowhere, Nowhere))
  BY DEF EnParam, EnoParam
<1> DEFINE s == Symbol(k, TRUE, Nowhere, Nowhere)
           e == Symbol(d, TRUE, Nowhere, Nowhere)
<1>2. s \in Sec /\ s.kind = k /\ s.implicit = TRUE /\ Range(s.elements) = {}
  <2>1. k \in Section \cup {"NULL"} /\ Nowhere \in Spot
    BY NullFacts DEF Section
  <2>2. s \in Node(Section \cup {"NULL"}, Decl)
    BY <2>1, SymbolNode
  <2>3. QED
    BY <2>2 DEF Sec, Symbol, Range
<1>3. e \in Decl /\ e.implicit = TRUE /\ e.first \in Spot /\ e.last \in Spot
  <2>1. d \in {"var", "en", "eno", "NULL"} /\ Nowhere \in Spot
    BY NullFacts
  <2>2. e \in Node({"var", "en", "eno", "NULL"}, {})
    BY <2>1, SymbolNode
  <2>3. QED
    BY <2>1, <2>2 DEF Decl, Symbol
<1>4. par = InsertElement(s, e, -1)
  BY <1>1 DEF AddElement
<1> HIDE DEF s, e
<1>5. /\ par \in Sec /\ par.kind = k /\ par.implicit = TRUE
      /\ Range(par.elements) = {e}
  <2>1. s \in Node(Section \cup {"NULL"}, Decl)
    BY <1>2 DEF Sec
  <2>2. -1 \in {-1, 0}
    OBVIOUS
  <2>3. /\ par \in Node(Section \cup {"NULL"}, Decl)
        /\ par.kind = s.kind /\ par.implicit = s.implicit
    BY <2>1, <2>2, <1>3, <1>4, InsertFacts
  <2>4. Range(par.elements) = Range(s.elements) \cup {e}
    BY <2>1, <2>2, <1>3, <1>4, InsertRange
  <2>5. QED
    BY <1>2, <2>3, <2>4 DEF Sec
<1>6. par # Null
  BY <1>5, NullFacts
<1>7. Covers(par)
  BY <1>3, <1>5 DEF Covers
<1>8. QED
  BY <1>5, <1>6, <1>7

-----------------------------------------------------------------------------
(* An open section, a list and a finished list as they should be.          *)
GoodSection(s, here) ==
  /\ s \in Sec
  /\ s.kind \in Section
  /\ ~ s.implicit
  /\ s.first.file
  /\ s.last.file
  /\ Covers(s)
  /\ ~ Before(here, s.last)

Placed(l) ==
  /\ l \in Lst
  /\ l.kind = "list"
  /\ l.first.file
  /\ l.last.file
  /\ Covers(l)
  /\ \A s \in Range(l.elements) : Covers(s)

GoodList(l) ==
  /\ Placed(l)
  /\ l.elements # <<>>
  /\ \A s \in Range(l.elements) : ~ s.implicit

LEMMA DeclSpots == \A d \in Decl : d.first \in Spot /\ d.last \in Spot
BY DEF Decl, Node

LEMMA SecSpots == \A s \in Sec : s.first \in Spot /\ s.last \in Spot
BY DEF Sec, Node

LEMMA DeclCovers == \A d \in Decl : Covers(d)
<1> SUFFICES ASSUME NEW d \in Decl PROVE Covers(d)
  OBVIOUS
<1>1. \A e \in Range(d.elements) : e \in {}
  BY NodeFacts DEF Decl
<1>2. QED
  BY <1>1 DEF Covers

LEMMA NullCovers == Covers(Null)
BY NullFacts DEF Covers

LEMMA OpenFacts ==
  ASSUME NEW p \in Nat, NEW kind \in Section,
         NEW s, s = Symbol(kind, FALSE, Place(p + 1), Place(p + 1))
  PROVE  GoodSection(s, Place(p + 1)) /\ Range(s.elements) = {}
<1>1. Place(p + 1) \in Spot /\ Place(p + 1).file
  BY PlaceFacts
<1>2. kind \in Section \cup {"NULL"} /\ FALSE \in BOOLEAN
  OBVIOUS
<1>3. s \in Sec
  BY <1>1, <1>2, SymbolNode DEF Sec
<1>4. /\ s.kind = kind /\ s.implicit = FALSE /\ s.first = Place(p + 1)
      /\ s.last = Place(p + 1) /\ Range(s.elements) = {}
  BY DEF Symbol, Range
<1>5. ~ Before(Place(p + 1), Place(p + 1))
  BY PlaceFacts
<1>6. QED
  BY <1>1, <1>3, <1>4, <1>5 DEF GoodSection, Covers

LEMMA PutFacts ==
  ASSUME NEW p \in Nat, NEW s, GoodSection(s, Place(p)), NEW d \in Decl,
         d # Null => ~ Before(Place(p + 1), d.last),
         NEW t, t = AddElement(s, d)
  PROVE  GoodSection(t, Place(p + 1))
<1>1. /\ s \in Node(Section \cup {"NULL"}, Decl)
      /\ s.kind \in Section /\ ~ s.implicit /\ s.first.file /\ s.last.file /\ Covers(s)
      /\ ~ Before(Place(p), s.last)
  BY DEF GoodSection, Sec
<1>2. t = InsertElement(s, d, -1) /\ -1 \in {-1, 0}
  BY DEF AddElement
<1>3. d.first \in Spot /\ d.last \in Spot /\ s.last \in Spot
  BY <1>1, DeclSpots, NodeFacts
<1>4. /\ t \in Node(Section \cup {"NULL"}, Decl)
      /\ t.kind = s.kind
      /\ t.implicit = s.implicit
  BY <1>1, <1>2, <1>3, InsertFacts
<1>6. /\ t.first.file
      /\ t.last.file
      /\ Covers(t)
      /\ \A r \in Spot : ~ Before(r, s.last) /\ (d # Null => ~ Before(r, d.last))
           => ~ Before(r, t.last)
  BY <1>1, <1>2, DeclSpots, CoversInsert
<1>7. Place(p) \in Spot /\ Place(p + 1) \in Spot /\ ~ Before(Place(p + 1), Place(p))
  BY PlaceFacts
<1>8. ~ Before(Place(p + 1), s.last)
  BY <1>1, <1>3, <1>7, BeforeTrans
<1>9. ~ Before(Place(p + 1), t.last)
  BY <1>6, <1>7, <1>8
<1>10. QED
  BY <1>1, <1>4, <1>6, <1>9 DEF GoodSection, Sec

LEMMA PutRange ==
  ASSUME NEW s \in Sec, NEW d \in Decl, NEW t, t = AddElement(s, d)
  PROVE  Range(t.elements) = Range(s.elements) \cup {d}
<1>1. s \in Node(Section \cup {"NULL"}, Decl) /\ d.first \in Spot /\ d.last \in Spot
  BY DeclSpots DEF Sec
<1>2. t = InsertElement(s, d, -1) /\ -1 \in {-1, 0}
  BY DEF AddElement
<1>3. QED
  BY <1>1, <1>2, InsertRange

LEMMA NewDecl ==
  ASSUME NEW p \in Nat, NEW kind \in {"var", "en", "eno"},
         NEW d, d = Symbol(kind, FALSE, Place(p), Place(p + 1))
  PROVE  d \in Decl /\ d # Null /\ d.last = Place(p + 1)
<1>1. /\ Place(p) \in Spot /\ Place(p + 1) \in Spot
      /\ kind \in {"var", "en", "eno", "NULL"} /\ FALSE \in BOOLEAN
  BY PlaceFacts
<1>2. d \in Decl
  BY <1>1, SymbolNode DEF Decl
<1>3. d.last = Place(p + 1) /\ d.kind = kind
  BY DEF Symbol
<1>4. d # Null
  BY <1>3, NullFacts
<1>5. QED
  BY <1>2, <1>3, <1>4

LEMMA DeclareFacts ==
  ASSUME NEW p \in Nat, NEW s, GoodSection(s, Place(p)), NEW kind \in {"var", "en", "eno"},
         NEW t, t = AddElement(s, Symbol(kind, FALSE, Place(p), Place(p + 1)))
  PROVE  GoodSection(t, Place(p + 1))
<1> DEFINE d == Symbol(kind, FALSE, Place(p), Place(p + 1))
<1>1. d \in Decl /\ d.last = Place(p + 1)
  BY NewDecl
<1> HIDE DEF d
<1>2. ~ Before(Place(p + 1), d.last)
  BY <1>1, PlaceFacts
<1>3. t = AddElement(s, d)
  BY DEF d
<1>4. QED
  BY <1>1, <1>2, <1>3, PutFacts

LEMMA DeclareNulls ==
  ASSUME NEW p \in Nat, NEW s \in Sec, NEW kind \in {"var", "en", "eno"},
         NEW t, t = AddElement(s, Symbol(kind, FALSE, Place(p), Place(p + 1))),
         Null \notin Range(s.elements)
  PROVE  Null \notin Range(t.elements)
<1> DEFINE d == Symbol(kind, FALSE, Place(p), Place(p + 1))
<1>1. d \in Decl /\ d # Null
  BY NewDecl
<1> HIDE DEF d
<1>2. t = AddElement(s, d)
  BY DEF d
<1>3. Range(t.elements) = Range(s.elements) \cup {d}
  BY <1>1, <1>2, PutRange
<1>4. QED
  BY <1>1, <1>3

LEMMA MisdeclareFacts ==
  ASSUME NEW p \in Nat, NEW s, GoodSection(s, Place(p)), NEW t \in {s, AddElement(s, Null)}
  PROVE  GoodSection(t, Place(p + 1))
<1>1. CASE t = s
  <2>1. Place(p) \in Spot /\ Place(p + 1) \in Spot /\ ~ Before(Place(p + 1), Place(p))
    BY PlaceFacts
  <2>2. s.last \in Spot /\ ~ Before(Place(p), s.last)
    BY SecSpots DEF GoodSection
  <2>3. ~ Before(Place(p + 1), s.last)
    BY <2>1, <2>2, BeforeTrans
  <2>4. QED
    BY <1>1, <2>3 DEF GoodSection
<1>2. CASE t = AddElement(s, Null)
  BY <1>2, NullFacts, PutFacts
<1>3. QED
  BY <1>1, <1>2

(* What CloseSection and MiscloseSection put into the list of the POU.     *)
LEMMA ClosedFacts ==
  ASSUME NEW p \in Nat, NEW s, GoodSection(s, Place(p)),
         NEW c, c = [s EXCEPT !.last = Place(p + 1)]
  PROVE  /\ c \in Sec
         /\ c.kind \in Section
         /\ ~ c.implicit
         /\ Covers(c)
         /\ c.elements = s.elements
         /\ ~ Before(Place(p + 1), c.last)
<1>1. /\ Place(p) \in Spot /\ Place(p + 1) \in Spot
      /\ ~ Before(Place(p + 1), Place(p)) /\ ~ Before(Place(p + 1), Place(p + 1))
  BY PlaceFacts
<1>2. s \in Sec /\ ~ Before(Place(p), s.last) /\ s.last \in Spot
  BY SecSpots DEF GoodSection
<1>3. /\ c \in Sec /\ c.kind = s.kind /\ c.implicit = s.implicit
      /\ c.elements = s.elements /\ c.first = s.first /\ c.last = Place(p + 1)
  BY <1>1, <1>2 DEF Sec, Node
<1>4. ~ Before(Place(p + 1), s.last)
  BY <1>1, <1>2, BeforeTrans
<1>5. ASSUME NEW e \in Range(s.elements), e # Null, ~ e.implicit
      PROVE  ~ Before(e.first, s.first) /\ ~ Before(Place(p + 1), e.last)
  <2>1. ~ Before(e.first, s.first) /\ ~ Before(s.last, e.last)
    BY <1>5 DEF GoodSection, Covers
  <2>2. e \in Decl
    BY <1>2, NodeFacts DEF Sec
  <2>3. e.last \in Spot
    BY <2>2, DeclSpots
  <2>4. ~ Before(Place(p + 1), e.last)
    BY <1>1, <1>2, <1>4, <2>1, <2>3, BeforeTrans
  <2>5. QED
    BY <2>1, <2>4
<1>6. Covers(c)
  BY <1>3, <1>5 DEF Covers
<1>7. QED
  BY <1>1, <1>3, <1>6 DEF GoodSection

LEMMA NewListFacts ==
  ASSUME NEW p \in Nat, NEW l, l = Symbol("list", FALSE, Place(p), Place(p + 1))
  PROVE  Placed(l) /\ Range(l.elements) = {}
<1>1. /\ Place(p) \in Spot /\ Place(p).file
      /\ Place(p + 1) \in Spot /\ Place(p + 1).file
  BY PlaceFacts
<1>2. "list" \in {"list", "NULL"} /\ FALSE \in BOOLEAN
  OBVIOUS
<1>3. l \in Lst
  BY <1>1, <1>2, SymbolNode DEF Lst
<1>4. /\ l.kind = "list" /\ l.first = Place(p) /\ l.last = Place(p + 1)
      /\ Range(l.elements) = {}
  BY DEF Symbol, Range
<1>5. QED
  BY <1>1, <1>3, <1>4 DEF Placed, Covers

LEMMA PlacedInsert ==
  ASSUME NEW l, Placed(l), NEW s \in Sec, Covers(s), NEW pos \in {-1, 0},
         NEW m, m = InsertElement(l, s, pos)
  PROVE  Placed(m)
<1>1. /\ l \in Node({"list", "NULL"}, Sec) /\ l.first.file /\ l.last.file /\ Covers(l)
      /\ l.kind = "list" /\ \A x \in Range(l.elements) : Covers(x)
  BY DEF Placed, Lst
<1>2. s.first \in Spot /\ s.last \in Spot
  BY SecSpots
<1>3. m \in Node({"list", "NULL"}, Sec) /\ m.kind = l.kind
  BY <1>1, <1>2, InsertFacts
<1>4. Range(m.elements) = Range(l.elements) \cup {s}
  BY <1>1, <1>2, InsertRange
<1>5. m.first.file /\ m.last.file /\ Covers(m)
  BY <1>1, SecSpots, CoversInsert
<1>6. QED
  BY <1>1, <1>3, <1>4, <1>5 DEF Placed, Lst

LEMMA PlacedRange ==
  ASSUME NEW l, Placed(l), NEW s \in Sec, NEW pos \in {-1, 0},
         NEW m, m = InsertElement(l, s, pos)
  PROVE  Range(m.elements) = Range(l.elements) \cup {s}
<1>1. l \in Node({"list", "NULL"}, Sec) /\ s.first \in Spot /\ s.last \in Spot
  BY SecSpots DEF Placed, Lst
<1>2. QED
  BY <1>1, InsertRange

LEMMA AddSectionFacts ==
  ASSUME NEW p \in Nat, NEW l, l # Null => GoodList(l),
         NEW s \in Sec, ~ s.implicit, Covers(s),
         NEW m, m = AddElement(IF l = Null THEN Symbol("list", FALSE, Place(p), Place(p + 1))
                               ELSE l, s)
  PROVE  /\ GoodList(m)
         /\ s # Null /\ Null \notin Range(s.elements) /\ ~ HitsNull(l) => ~ HitsNull(m)
<1> DEFINE b == IF l = Null THEN Symbol("list", FALSE, Place(p), Place(p + 1)) ELSE l
<1>1. /\ Placed(b)
      /\ Range(b.elements) = Range(l.elements)
      /\ \A x \in Range(b.elements) : ~ x.implicit
  <2>1. CASE l = Null
    BY <2>1, NewListFacts, NullFacts
  <2>2. CASE l # Null
    BY <2>2 DEF GoodList
  <2>3. QED
    BY <2>1, <2>2
<1>2. m = InsertElement(b, s, -1) /\ -1 \in {-1, 0}
  BY DEF AddElement
<1> HIDE DEF b
<1>3. Placed(m)
  BY <1>1, <1>2, PlacedInsert
<1>4. Range(m.elements) = Range(b.elements) \cup {s}
  BY <1>1, <1>2, PlacedRange
<1>5. m.elements # <<>>
  <2>1. Range(m.elements) # {}
    BY <1>4
  <2>2. Range(<<>>) = {}
    BY DEF Range
  <2>3. QED
    BY <2>1, <2>2
<1>6. GoodList(m)
  BY <1>1, <1>3, <1>4, <1>5 DEF GoodList
<1>7. s # Null /\ Null \notin Range(s.elements) /\ ~ HitsNull(l) => ~ HitsNull(m)
  <2>1. Range(m.elements) = Range(l.elements) \cup {s}
    BY <1>1, <1>4
  <2>2. QED
    BY <2>1 DEF HitsNull, Visited
<1>8. QED
  BY <1>6, <1>7

-----------------------------------------------------------------------------
(* The parameters of a list that is completed: the body of                 *)
(* ParametersComplete.                                                     *)
Added(l) ==
  IF UserDeclares(l, "en")
  THEN IF UserDeclares(l, "eno") THEN <<>> ELSE <<EnoParam>>
  ELSE IF UserDeclares(l, "eno") THEN <<EnParam>> ELSE <<EnParam, EnoParam>>

Complete(l) ==
  /\ Len(Added(l)) <= Len(l.elements)
  /\ \A i \in DOMAIN l.elements :
       IF i <= Len(Added(l)) THEN l.elements[i] = Added(l)[i] ELSE ~ l.elements[i].implicit

(* One parameter in front.                                                 *)
LEMMA FrontParam ==
  ASSUME NEW l, Placed(l), NEW par \in {EnParam, EnoParam},
         NEW m, m = InsertElement(l, par, 0)
  PROVE  /\ Placed(m)
         /\ \A k : UserDeclares(m, k) <=> UserDeclares(l, k)
<1>1. par \in Sec /\ par.implicit /\ Covers(par) /\ 0 \in {-1, 0}
  BY ParamFacts
<1>2. Placed(m)
  BY <1>1, PlacedInsert
<1>3. Range(m.elements) = Range(l.elements) \cup {par}
  BY <1>1, PlacedRange
<1>4. \A k : UserDeclares(m, k) <=> UserDeclares(l, k)
  BY <1>1, <1>3 DEF UserDeclares, Visited
<1>5. QED
  BY <1>2, <1>4

LEMMA FrontParamElements ==
  ASSUME NEW l, Placed(l), NEW par \in {EnParam, EnoParam},
         NEW m, m = InsertElement(l, par, 0)
  PROVE  /\ m.elements \in Seq(Sec)
         /\ Len(m.elements) = Len(l.elements) + 1
         /\ m.elements[1] = par
         /\ \A i \in 1 .. Len(l.elements) : m.elements[i + 1] = l.elements[i]
<1>1. par \in Sec /\ par.first \in Spot /\ par.last \in Spot /\ 0 \in {-1, 0}
  BY ParamFacts, SecSpots
<1>2. l \in Node({"list", "NULL"}, Sec) /\ l.elements \in Seq(Sec)
  BY NodeFacts DEF Placed, Lst
<1>3. m.elements = Elements(l.elements, par, 0)
  BY <1>1, <1>2, InsertFacts
<1>4. Elements(l.elements, par, 0) = <<par>> \o l.elements
  BY <1>1, <1>2, FrontFacts DEF Elements
<1> DEFINE els == l.elements
           t == <<par>> \o els
<1>5. els \in Seq(Sec)
  BY <1>2
<1> HIDE DEF els
<1>6. /\ t \in Seq(Sec) /\ Len(t) = Len(els) + 1
      /\ t[1] = par /\ \A i \in 1 .. Len(els) : t[i + 1] = els[i]
  BY <1>1, <1>5, FrontFacts
<1> HIDE DEF t
<1>7. m.elements = t
  BY <1>3, <1>4 DEF t, els
<1>8. QED
  BY <1>6, <1>7 DEF els

LEMMA CompletedFacts ==
  ASSUME NEW l, GoodList(l), NEW found, found = Found(l), NEW m, m = Completed(l, found)
  PROVE  Placed(m) /\ m.elements # <<>> /\ Complete(m)
<1> DEFINE eno == IF found.eno THEN l ELSE InsertElement(l, EnoParam, 0)
<1>1. /\ found.en <=> UserDeclares(l, "en")
      /\ found.eno <=> UserDeclares(l, "eno")
  <2>1. /\ found.en = Declares(l, "en")
        /\ found.eno = Declares(l, "eno")
    BY DEF Found
  <2>2. \A s \in Visited(l) : ~ s.implicit
    BY DEF Visited, GoodList
  <2>3. \A k : Declares(l, k) <=> UserDeclares(l, k)
    BY <2>2 DEF Declares, UserDeclares
  <2>4. QED
    BY <2>1, <2>3
<1>2. m = IF found.en THEN eno ELSE InsertElement(eno, EnParam, 0)
  BY DEF Completed
<1>3. /\ Placed(l) /\ l.elements \in Seq(Sec) /\ l.elements # <<>>
      /\ Len(l.elements) \in Nat \ {0} /\ DOMAIN l.elements = 1 .. Len(l.elements)
      /\ \A i \in 1 .. Len(l.elements) : ~ l.elements[i].implicit
  <2>1. Placed(l) /\ l.elements \in Seq(Sec) /\ l.elements # <<>>
    BY NodeFacts DEF GoodList, Placed, Lst
  <2>2. Len(l.elements) \in Nat \ {0} /\ DOMAIN l.elements = 1 .. Len(l.elements)
    BY <2>1, EmptySeq, LenProperties
  <2>3. \A i \in 1 .. Len(l.elements) : l.elements[i] \in Range(l.elements)
    BY <2>2 DEF Range
  <2>4. QED
    BY <2>1, <2>2, <2>3 DEF GoodList
<1>4. /\ Placed(eno) /\ eno.elements \in Seq(Sec)
      /\ \A k : UserDeclares(eno, k) <=> UserDeclares(l, k)
  <2>1. EnoParam \in {EnParam, EnoParam}
    OBVIOUS
  <2>2. CASE found.eno
    BY <2>2, <1>3
  <2>3. CASE ~ found.eno
    BY <2>1, <2>3, <1>3, FrontParam, FrontParamElements
  <2>4. QED
    BY <2>2, <2>3
<1> DEFINE e == eno.elements
           s == l.elements
           t == m.elements
<1>6. /\ found.eno => e = s
      /\ ~ found.eno => /\ Len(e) = Len(s) + 1 /\ e[1] = EnoParam
                        /\ \A i \in 1 .. Len(s) : e[i + 1] = s[i]
  <2>1. EnoParam \in {EnParam, EnoParam}
    OBVIOUS
  <2>2. CASE found.eno
    BY <2>2
  <2>3. CASE ~ found.eno
    <3>1. eno = InsertElement(l, EnoParam, 0)
      BY <2>3
    <3> HIDE DEF eno
    <3>2. QED
      BY <2>1, <2>3, <3>1, <1>3, FrontParamElements
  <2>4. QED
    BY <2>2, <2>3
<1> HIDE DEF eno
<1>7. EnParam \in {EnParam, EnoParam}
  OBVIOUS
<1>8. /\ Placed(m) /\ t \in Seq(Sec)
      /\ \A k : UserDeclares(m, k) <=> UserDeclares(l, k)
  <2>1. CASE found.en
    BY <2>1, <1>2, <1>4
  <2>2. CASE ~ found.en
    <3>1. m = InsertElement(eno, EnParam, 0)
      BY <2>2, <1>2
    <3>2. Placed(m) /\ \A k : UserDeclares(m, k) <=> UserDeclares(eno, k)
      BY <3>1, <1>4, <1>7, FrontParam
    <3>3. t \in Seq(Sec)
      BY <3>1, <1>4, <1>7, FrontParamElements
    <3>4. QED
      BY <3>2, <3>3, <1>4
  <2>3. QED
    BY <2>1, <2>2
<1>9. /\ found.en => t = e
      /\ ~ found.en => /\ Len(t) = Len(e) + 1 /\ t[1] = EnParam
                       /\ \A i \in 1 .. Len(e) : t[i + 1] = e[i]
  <2>1. CASE found.en
    BY <2>1, <1>2
  <2>2. CASE ~ found.en
    <3>1. m = InsertElement(eno, EnParam, 0)
      BY <2>2, <1>2
    <3>2. QED
      BY <2>2, <3>1, <1>4, <1>7, FrontParamElements
  <2>3. QED
    BY <2>1, <2>2
<1>10. DOMAIN t = 1 .. Len(t)
  BY <1>8, LenProperties
<1>11. Len(s) \in Nat \ {0} /\ \A i \in 1 .. Len(s) : ~ s[i].implicit
  BY <1>3
<1> DEFINE a == Added(m)
<1>12. a = IF found.en THEN IF found.eno THEN <<>> ELSE <<EnoParam>>
           ELSE IF found.eno THEN <<EnParam>> ELSE <<EnParam, EnoParam>>
  BY <1>1, <1>8 DEF Added
<1> HIDE DEF t, s, e, a
<1>13. /\ Len(t) > 0 /\ Len(a) <= Len(t)
       /\ \A i \in 1 .. Len(t) : IF i <= Len(a) THEN t[i] = a[i] ELSE ~ t[i].implicit
  <2>1. CASE found.en /\ found.eno
    <3>1. t = s /\ Len(a) = 0
      BY <2>1, <1>6, <1>9, <1>12
    <3>2. QED
      BY <3>1, <1>11
  <2>2. CASE found.en /\ ~ found.eno
    <3>1. t = e /\ Len(a) = 1 /\ a[1] = EnoParam
      BY <2>2, <1>9, <1>12
    <3>2. Len(e) = Len(s) + 1 /\ e[1] = EnoParam /\ \A i \in 1 .. Len(s) : e[i + 1] = s[i]
      BY <2>2, <1>6
    <3>3. ASSUME NEW i \in 1 .. Len(t), i > 1 PROVE ~ t[i].implicit
      <4>1. i - 1 \in 1 .. Len(s) /\ (i - 1) + 1 = i
        BY <3>1, <3>2, <3>3, <1>11
      <4>2. QED
        BY <4>1, <3>1, <3>2, <1>11
    <3>4. QED
      BY <3>1, <3>2, <3>3, <1>11
  <2>3. CASE ~ found.en /\ found.eno
    <3>1. e = s /\ Len(a) = 1 /\ a[1] = EnParam
      BY <2>3, <1>6, <1>12
    <3>2. Len(t) = Len(e) + 1 /\ t[1] = EnParam /\ \A i \in 1 .. Len(e) : t[i + 1] = e[i]
      BY <2>3, <1>9
    <3>3. ASSUME NEW i \in 1 .. Len(t), i > 1 PROVE ~ t[i].implicit
      <4>1. i - 1 \in 1 .. Len(s) /\ (i - 1) + 1 = i
        BY <3>1, <3>2, <3>3, <1>11
      <4>2. QED
        BY <4>1, <3>1, <3>2, <1>11
    <3>4. QED
      BY <3>1, <3>2, <3>3, <1>11
  <2>4. CASE ~ found.en /\ ~ found.eno
    <3>1. Len(a) = 2 /\ a[1] = EnParam /\ a[2] = EnoParam
      BY <2>4, <1>12
    <3>2. Len(e) = Len(s) + 1 /\ e[1] = EnoParam /\ \A i \in 1 .. Len(s) : e[i + 1] = s[i]
      BY <2>4, <1>6
    <3>3. Len(t) = Len(e) + 1 /\ t[1] = EnParam /\ \A i \in 1 .. Len(e) : t[i + 1] = e[i]
      BY <2>4, <1>9
    <3>4. t[2] = EnoParam /\ Len(t) = Len(s) + 2
      <4>1. 1 \in 1 .. Len(e) /\ 1 + 1 = 2
        BY <3>2, <1>11
      <4>2. t[2] = e[1]
        BY <3>3, <4>1
      <4>3. QED
        BY <4>2, <3>2, <3>3, <1>11
    <3>5. ASSUME NEW i \in 1 .. Len(t), i > 2 PROVE ~ t[i].implicit
      <4>1. i - 2 \in 1 .. Len(s) /\ (i - 2) + 1 = i - 1 /\ i - 1 \in 1 .. Len(e) /\ (i - 1) + 1 = i
        BY <3>2, <3>4, <3>5, <1>11
      <4>2. t[i] = e[i - 1]
        BY <4>1, <3>3
      <4>3. e[i - 1] = s[i - 2]
        BY <4>1, <3>2
      <4>4. QED
        BY <4>1, <4>2, <4>3, <1>11
    <3>6. ASSUME NEW i \in 1 .. Len(t)
          PROVE  IF i <= Len(a) THEN t[i] = a[i] ELSE ~ t[i].implicit
      <4>1. CASE i = 1
        BY <4>1, <3>1, <3>3
      <4>2. CASE i = 2
        BY <4>2, <3>1, <3>4
      <4>3. CASE i > 2
        BY <4>3, <3>1, <3>5
      <4>4. QED
        BY <4>1, <4>2, <4>3
    <3>7. QED
      BY <3>1, <3>4, <3>6, <1>11
  <2>5. QED
    BY <2>1, <2>2, <2>3, <2>4
<1>14. Complete(m)
  BY <1>10, <1>13 DEF Complete, t, a
<1>15. t # <<>>
  BY <1>13
<1>16. QED
  BY <1>8, <1>14, <1>15 DEF t

-----------------------------------------------------------------------------
(* The inductive invariant: an open section and a list have a place, which *)
(* is not behind the text that is read, and NULL is in them only after an  *)
(* error.                                                                  *)
Kept ==
  /\ section \in Sec /\ (section # Null => GoodSection(section, Here))
  /\ list \in Lst /\ (list # Null => GoodList(list))

Finished ==
  /\ done \in Lst
  /\ done # Null => Placed(done) /\ done.elements # <<>> /\ (implicit => Complete(done))

NullsReported == ~ wrong => Null \notin Range(section.elements) /\ ~ HitsNull(list)

IInv ==
  /\ implicit \in BOOLEAN
  /\ flags \in [en : BOOLEAN, eno : BOOLEAN]
  /\ place \in 0 .. MaxPlace
  /\ status \in {"parsing", "crashed"}
  /\ Kept
  /\ Finished
  /\ NullsReported
  /\ CrashReported

LEMMA NullLists == Range(Null.elements) = {} /\ ~ HitsNull(Null)
BY NullFacts DEF HitsNull, Visited

LEMMA InitIInv == Init => IInv
<1> SUFFICES ASSUME Init PROVE IInv
  OBVIOUS
<1>1. Kept /\ Finished
  BY NullFacts DEF Init, Kept, Finished
<1>2. NullsReported
  BY NullLists DEF Init, NullsReported
<1>3. 0 \in 0 .. MaxPlace
  BY EnEnoAssumption
<1>4. QED
  BY <1>1, <1>2, <1>3 DEF Init, IInv, CrashReported

LEMMA ReadingFacts ==
  ASSUME IInv, Reading
  PROVE  /\ place \in Nat /\ place' = place + 1 /\ place' \in 0 .. MaxPlace
         /\ Here = Place(place) /\ Here' = Place(place + 1)
         /\ status = "parsing"
BY EnEnoAssumption DEF IInv, Reading, Here

LEMMA OpenStep ==
  ASSUME IInv, NEW kind \in Section, OpenSection(kind)
  PROVE  IInv'
<1>1. /\ place \in Nat /\ place' \in 0 .. MaxPlace /\ Here' = Place(place + 1)
      /\ section' = Symbol(kind, FALSE, Place(place + 1), Place(place + 1))
      /\ UNCHANGED <<implicit, flags, list, done, wrong, status>>
  BY ReadingFacts DEF OpenSection
<1>2. GoodSection(section', Here') /\ Range(section'.elements) = {}
  BY <1>1, OpenFacts
<1>3. Kept'
  BY <1>1, <1>2 DEF IInv, Kept, GoodSection
<1>4. NullsReported'
  BY <1>1, <1>2 DEF IInv, NullsReported
<1>5. Finished'
  BY <1>1 DEF IInv, Finished
<1>6. QED
  BY <1>1, <1>3, <1>4, <1>5 DEF IInv, CrashReported

LEMMA DeclareStep ==
  ASSUME IInv, NEW kind \in {"var", "en", "eno"}, Declare(kind)
  PROVE  IInv'
<1>1. /\ place \in Nat /\ place' \in 0 .. MaxPlace
      /\ Here = Place(place) /\ Here' = Place(place + 1)
      /\ section # Null
      /\ section' = AddElement(section, Symbol(kind, FALSE, Place(place), Place(place + 1)))
      /\ UNCHANGED <<implicit, flags, list, done, wrong, status>>
  BY ReadingFacts DEF Declare
<1>2. GoodSection(section, Place(place))
  BY <1>1 DEF IInv, Kept
<1>3. /\ GoodSection(section', Here')
      /\ Null \notin Range(section.elements) => Null \notin Range(section'.elements)
  <2> DEFINE q == section
             p == place
             u == section'
  <2>1. /\ p \in Nat /\ GoodSection(q, Place(p))
        /\ u = AddElement(q, Symbol(kind, FALSE, Place(p), Place(p + 1)))
    BY <1>1, <1>2
  <2> HIDE DEF q, p, u
  <2>2. GoodSection(u, Place(p + 1))
    BY <2>1, DeclareFacts
  <2>3. Null \notin Range(q.elements) => Null \notin Range(u.elements)
    BY <2>1, DeclareNulls DEF GoodSection
  <2>4. QED
    BY <1>1, <2>2, <2>3 DEF q, p, u
<1>4. Kept'
  BY <1>1, <1>3 DEF IInv, Kept, GoodSection
<1>5. NullsReported'
  BY <1>1, <1>3 DEF IInv, NullsReported
<1>6. Finished'
  BY <1>1 DEF IInv, Finished
<1>7. QED
  BY <1>1, <1>4, <1>5, <1>6 DEF IInv, CrashReported

LEMMA MisdeclareStep ==
  ASSUME IInv, Misdeclare
  PROVE  IInv'
<1>1. /\ place \in Nat /\ place' \in 0 .. MaxPlace
      /\ Here = Place(place) /\ Here' = Place(place + 1)
      /\ section # Null
      /\ section' \in {section, AddElement(section, Null)}
      /\ wrong' = TRUE
      /\ UNCHANGED <<implicit, flags, list, done, status>>
  BY ReadingFacts DEF Misdeclare
<1>2. GoodSection(section, Place(place))
  BY <1>1 DEF IInv, Kept
<1>3. GoodSection(section', Here')
  BY <1>1, <1>2, MisdeclareFacts
<1>4. Kept'
  BY <1>1, <1>3 DEF IInv, Kept, GoodSection
<1>5. NullsReported' /\ CrashReported'
  BY <1>1 DEF NullsReported, CrashReported
<1>6. Finished'
  BY <1>1 DEF IInv, Finished
<1>7. QED
  BY <1>1, <1>4, <1>5, <1>6 DEF IInv

(* Section s goes into the list, and no section is open.                   *)
LEMMA AddSectionStep ==
  ASSUME IInv, place \in Nat, NEW s \in Sec, ~ s.implicit, Covers(s), AddSection(s),
         section' = Null
  PROVE  /\ Kept'
         /\ s # Null /\ Null \notin Range(s.elements) /\ ~ HitsNull(list) => ~ HitsNull(list')
<1>1. list # Null => GoodList(list)
  BY DEF IInv, Kept
<1>2. list' = AddElement(IF list = Null THEN Symbol("list", FALSE, Place(place), Place(place + 1))
                         ELSE list, s)
  BY DEF AddSection, Here
<1>3. /\ GoodList(list')
      /\ s # Null /\ Null \notin Range(s.elements) /\ ~ HitsNull(list) => ~ HitsNull(list')
  BY <1>1, <1>2, AddSectionFacts
<1>4. QED
  BY <1>3, NullFacts DEF Kept, GoodList, Placed

LEMMA CloseStep ==
  ASSUME IInv, CloseSection
  PROVE  IInv'
<1> DEFINE c == [section EXCEPT !.last = Place(place + 1)]
<1>1. /\ place \in Nat /\ place' \in 0 .. MaxPlace
      /\ Here = Place(place) /\ Here' = Place(place + 1)
      /\ section # Null
      /\ AddSection(c)
      /\ section' = Null
      /\ UNCHANGED <<implicit, flags, done, wrong, status>>
  BY ReadingFacts DEF CloseSection
<1>2. GoodSection(section, Place(place))
  BY <1>1 DEF IInv, Kept
<1>3. /\ c \in Sec
      /\ c.kind \in Section
      /\ ~ c.implicit
      /\ Covers(c)
      /\ c.elements = section.elements
  BY <1>1, <1>2, ClosedFacts
<1> HIDE DEF c
<1>4. c # Null
  BY <1>3, NullFacts DEF Section
<1>5. /\ Kept'
      /\ Null \notin Range(section.elements) /\ ~ HitsNull(list) => ~ HitsNull(list')
  BY <1>1, <1>3, <1>4, AddSectionStep
<1>6. NullsReported'
  BY <1>1, <1>5, NullLists DEF IInv, NullsReported
<1>7. Finished'
  BY <1>1 DEF IInv, Finished
<1>8. QED
  BY <1>1, <1>5, <1>6, <1>7 DEF IInv, CrashReported

LEMMA MiscloseStep ==
  ASSUME IInv, MiscloseSection
  PROVE  IInv'
<1>1. /\ place \in Nat /\ place' \in 0 .. MaxPlace
      /\ AddSection(Null) \/ (list # Null /\ UNCHANGED list)
      /\ section' = Null
      /\ wrong' = TRUE
      /\ UNCHANGED <<implicit, flags, done, status>>
  BY ReadingFacts DEF MiscloseSection
<1>2. Kept'
  <2>1. CASE AddSection(Null)
    BY <1>1, <2>1, NullFacts, NullCovers, AddSectionStep
  <2>2. CASE list # Null /\ UNCHANGED list
    BY <1>1, <2>2, NullFacts DEF IInv, Kept
  <2>3. QED
    BY <1>1, <2>1, <2>2
<1>3. NullsReported' /\ CrashReported'
  BY <1>1 DEF NullsReported, CrashReported
<1>4. Finished'
  BY <1>1 DEF IInv, Finished
<1>5. QED
  BY <1>1, <1>2, <1>3, <1>4 DEF IInv

(* What is left after a POU.                                               *)
LEMMA NextPouFacts ==
  ASSUME IInv, NextPou
  PROVE  Kept' /\ NullsReported' /\ place' \in 0 .. MaxPlace
BY NullFacts, NullLists DEF IInv, NextPou, Kept, NullsReported

LEMMA EndPouStep ==
  ASSUME IInv, EndPou
  PROVE  IInv'
<1>1. status = "parsing" /\ list # Null /\ implicit' = implicit
  BY DEF EndPou
<1>2. GoodList(list) /\ list \in Lst
  BY <1>1 DEF IInv, Kept
<1>3. CASE implicit /\ HitsNull(list) /\ status' = "crashed"
           /\ UNCHANGED <<place, section, list, done, wrong, flags>>
  <2>1. Kept'
    BY <1>3 DEF IInv, Kept, Here
  <2>2. Finished' /\ NullsReported'
    BY <1>1, <1>3 DEF IInv, Finished, NullsReported
  <2>3. CrashReported'
    BY <1>3 DEF IInv, NullsReported, CrashReported
  <2>4. QED
    BY <1>1, <1>3, <2>1, <2>2, <2>3 DEF IInv
<1>4. CASE implicit /\ ~ HitsNull(list) /\ flags' = Found(list)
           /\ done' = Completed(list, flags') /\ NextPou /\ UNCHANGED status
  <2>1. Placed(done') /\ done'.elements # <<>> /\ Complete(done')
    BY <1>2, <1>4, CompletedFacts
  <2>2. Finished'
    BY <2>1 DEF Finished, Placed
  <2>3. flags' \in [en : BOOLEAN, eno : BOOLEAN]
    BY <1>4 DEF Found, Declares
  <2>4. Kept' /\ NullsReported' /\ place' \in 0 .. MaxPlace
    BY <1>4, NextPouFacts
  <2>5. CrashReported' /\ status' \in {"parsing", "crashed"}
    BY <1>1, <1>4 DEF CrashReported
  <2>6. QED
    BY <1>1, <2>2, <2>3, <2>4, <2>5 DEF IInv
<1>5. CASE ~ implicit /\ done' = list /\ NextPou /\ UNCHANGED <<flags, status>>
  <2>1. Finished'
    BY <1>1, <1>2, <1>5 DEF Finished, GoodList
  <2>2. Kept' /\ NullsReported' /\ place' \in 0 .. MaxPlace
    BY <1>5, NextPouFacts
  <2>3. CrashReported' /\ status' \in {"parsing", "crashed"}
    BY <1>1, <1>5 DEF CrashReported
  <2>4. QED
    BY <1>1, <1>5, <2>1, <2>2, <2>3 DEF IInv
<1>6. QED
  BY <1>3, <1>4, <1>5 DEF EndPou

LEMMA EndUnvisitedStep ==
  ASSUME IInv, EndUnvisited
  PROVE  IInv'
<1>1. /\ status = "parsing" /\ NextPou
      /\ UNCHANGED <<implicit, flags, done, status>>
  BY DEF EndUnvisited
<1>2. Kept' /\ NullsReported' /\ place' \in 0 .. MaxPlace
  BY <1>1, NextPouFacts
<1>3. Finished' /\ CrashReported'
  BY <1>1 DEF IInv, Finished, CrashReported
<1>4. QED
  BY <1>1, <1>2, <1>3 DEF IInv

LEMMA StepIInv == IInv /\ [Next]_vars => IInv'
<1> SUFFICES ASSUME IInv, [Next]_vars PROVE IInv'
  OBVIOUS
<1>1. ASSUME NEW kind \in Section, OpenSection(kind) PROVE IInv'
  BY <1>1, OpenStep
<1>2. ASSUME NEW kind \in {"var", "en", "eno"}, Declare(kind) PROVE IInv'
  BY <1>2, DeclareStep
<1>3. CASE Misdeclare
  BY <1>3, MisdeclareStep
<1>4. CASE CloseSection
  BY <1>4, CloseStep
<1>5. CASE MiscloseSection
  BY <1>5, MiscloseStep
<1>6. CASE EndPou
  BY <1>6, EndPouStep
<1>7. CASE EndUnvisited
  BY <1>7, EndUnvisitedStep
<1>8. CASE UNCHANGED vars
  <2>1. Kept'
    BY <1>8 DEF IInv, Kept, Here, vars
  <2>2. Finished' /\ NullsReported' /\ CrashReported'
    BY <1>8 DEF IInv, Finished, NullsReported, CrashReported, vars
  <2>3. QED
    BY <1>8, <2>1, <2>2 DEF IInv, vars
<1>9. QED
  BY <1>1, <1>2, <1>3, <1>4, <1>5, <1>6, <1>7, <1>8 DEF Next

LEMMA AlwaysIInv == Spec => []IInv
BY InitIInv, StepIInv, PTL DEF Spec

-----------------------------------------------------------------------------
(* Type correctness: the flags are set, and a list that is there has an    *)
(* element (the variables of the visitor, and list_c).                     *)
THEOREM TypeCorrect == Spec => []TypeOK
<1>1. IInv => TypeOK
  BY NodeFacts DEF IInv, TypeOK, Kept, Finished, GoodList, Placed, Sec
<1>2. QED
  BY <1>1, AlwaysIInv, PTL

(* However long the text and whatever the POUs before have declared, each  *)
(* finished function or function block has EN and ENO: the user's own, or  *)
(* else one that is added before all the user has declared, EN first       *)
(* (add_en_eno_param_decl.cpp, the two flags and insert_element).          *)
THEOREM ParametersAlwaysComplete == Spec => []ParametersComplete
<1>1. IInv => ParametersComplete
  BY DEF IInv, Finished, Complete, Added, ParametersComplete
<1>2. QED
  BY <1>1, AlwaysIInv, PTL

(* The visitor calls a member of NULL only in a POU with an error that was *)
(* reported: a list that bison has built without one holds no NULL.        *)
THEOREM CrashesReported == Spec => []CrashReported
<1>1. IInv => CrashReported
  BY DEF IInv
<1>2. QED
  BY <1>1, AlwaysIInv, PTL

(* The place of every list takes in its elements, however many they are,   *)
(* whatever NULLs and implicit parameters are among them                   *)
(* (list_c::insert_element, ast.cpp).                                      *)
THEOREM PlacesCover == Spec => []PlaceCovers
<1>1. IInv => PlaceCovers
  <2> SUFFICES ASSUME IInv PROVE PlaceCovers
    OBVIOUS
  <2>1. Covers(Null) /\ \A e \in Range(Null.elements) : Covers(e)
    BY NullCovers, NullFacts
  <2>2. ASSUME NEW l \in {list, done}
        PROVE  Covers(l) /\ \A e \in Range(l.elements) : Covers(e)
    <3>1. l = Null \/ Placed(l)
      BY DEF IInv, Kept, Finished, GoodList
    <3>2. QED
      BY <2>1, <3>1 DEF Placed
  <2>3. Covers(section) /\ \A e \in Range(section.elements) : Covers(e)
    <3>1. \A e \in Range(section.elements) : e \in Decl
      BY NodeFacts DEF IInv, Kept, Sec
    <3>2. \A e \in Range(section.elements) : Covers(e)
      BY <3>1, DeclCovers
    <3>3. section = Null \/ Covers(section)
      BY DEF IInv, Kept, GoodSection
    <3>4. QED
      BY <2>1, <3>2, <3>3
  <2>4. QED
    BY <2>2, <2>3 DEF PlaceCovers
<1>2. QED
  BY <1>1, AlwaysIInv, PTL
=============================================================================

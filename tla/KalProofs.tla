------------------------------- MODULE KalProofs -------------------------------
(***************************************************************************)
(* Proofs about the Kaleidoscope REPL: for input of any length, what the   *)
(* parser makes of it, and the code that is generated from that.           *)
(***************************************************************************)
EXTENDS Kal, SequenceTheorems, WellFoundedInduction, TLAPS

-----------------------------------------------------------------------------
(* Sequences.                                                              *)
IsSeq(s) == \E S : s \in Seq(S)

LEMMA TailFacts ==
  ASSUME NEW t, IsSeq(t), t # <<>>
  PROVE  /\ IsSeq(Tail(t)) /\ 1 \in DOMAIN t /\ Head(t) = t[1]
         /\ \A k \in DOMAIN Tail(t) : k \in Nat /\ k + 1 \in DOMAIN t /\ Tail(t)[k] = t[k + 1]
         /\ \A k \in DOMAIN t : k \in Nat /\ (k = 1 \/ (k - 1 \in DOMAIN Tail(t) /\ Tail(t)[k - 1] = t[k]))
<1>1. PICK S : t \in Seq(S)
  BY DEF IsSeq
<1>2. Tail(t) \in Seq(S)
  BY <1>1
<1>3. QED
  BY <1>1, <1>2 DEF IsSeq

Push(f, t) == <<f>> \o t

LEMMA PushFacts ==
  ASSUME NEW t, IsSeq(t), NEW f
  PROVE  /\ IsSeq(Push(f, t)) /\ 1 \in DOMAIN Push(f, t) /\ Push(f, t)[1] = f
         /\ Head(Push(f, t)) = f /\ Tail(Push(f, t)) = t /\ Push(f, t) # <<>>
         /\ \A k \in DOMAIN Push(f, t) :
              k \in Nat /\ (k = 1 \/ (k - 1 \in DOMAIN t /\ Push(f, t)[k] = t[k - 1]))
         /\ \A k \in DOMAIN t : k \in Nat /\ k + 1 \in DOMAIN Push(f, t) /\ Push(f, t)[k + 1] = t[k]
<1> DEFINE r == <<f>> \o t
<1>1. PICK S : t \in Seq(S)
  BY DEF IsSeq
<1>2. t \in Seq(S \cup {f}) /\ <<f>> \in Seq(S \cup {f})
  BY <1>1
<1>3. r \in Seq(S \cup {f})
  BY <1>2
<1>4. /\ 1 \in DOMAIN r /\ r[1] = f /\ Head(r) = f /\ r # <<>>
      /\ \A k \in DOMAIN r : k \in Nat /\ (k = 1 \/ (k - 1 \in DOMAIN t /\ r[k] = t[k - 1]))
      /\ \A k \in DOMAIN t : k \in Nat /\ k + 1 \in DOMAIN r /\ r[k + 1] = t[k]
  BY <1>2
<1>5. Tail(r) = t
  BY <1>2
<1>6. Push(f, t) = r
  BY DEF Push
<1> HIDE DEF r
<1>7. QED
  BY <1>3, <1>4, <1>5, <1>6 DEF IsSeq

LEMMA AppendFacts ==
  ASSUME NEW s, IsSeq(s), NEW e
  PROVE  LET r == Append(s, e)
         IN  /\ IsSeq(r) /\ Len(s) \in Nat /\ Len(r) = Len(s) + 1
             /\ DOMAIN s = 1 .. Len(s) /\ DOMAIN r = 1 .. Len(s) + 1
             /\ r[Len(s) + 1] = e /\ \A k \in DOMAIN s : r[k] = s[k]
<1>1. PICK S : s \in Seq(S)
  BY DEF IsSeq
<1>2. s \in Seq(S \cup {e})
  BY <1>1
<1>3. Append(s, e) \in Seq(S \cup {e})
  BY <1>2
<1>4. QED
  BY <1>2, <1>3 DEF IsSeq

LEMMA Assoc == \A S : \A x, y, z \in Seq(S) : (x \o y) \o z = x \o (y \o z)
<1> TAKE S
<1> TAKE x, y, z \in Seq(S)
<1> QED
  BY ConcatAssociative

LEMMA Pair == \A a, b : <<a, b>> = <<a>> \o <<b>>
<1> TAKE a, b
<1> DEFINE S == {a, b}
           x == <<a>>
           y == <<b>>
           z == <<a, b>>
<1>1. x \in Seq(S) /\ y \in Seq(S) /\ z \in Seq(S)
  OBVIOUS
<1>2. Len(x) = 1 /\ Len(y) = 1 /\ Len(z) = 2 /\ x[1] = a /\ y[1] = b /\ z[1] = a /\ z[2] = b
  OBVIOUS
<1> HIDE DEF S, x, y, z
<1>3. /\ x \o y \in Seq(S) /\ Len(x \o y) = Len(x) + Len(y)
      /\ \A i \in 1 .. Len(x) + Len(y) :
           (x \o y)[i] = IF i <= Len(x) THEN x[i] ELSE y[i - Len(x)]
  BY <1>1, ConcatProperties
<1>4. Len(x \o y) = 2 /\ (x \o y)[1] = a /\ (x \o y)[2] = b
  BY <1>2, <1>3
<1>5. \A i \in 1 .. Len(z) : z[i] = (x \o y)[i]
  BY <1>2, <1>4
<1>6. z = x \o y
  BY <1>1, <1>2, <1>3, <1>4, <1>5, SeqEqual
<1>7. QED
  BY <1>6 DEF x, y, z

(* What is put on a stack, frame by frame.                                 *)
LEMMA Stacked == \A t : IsSeq(t) => \A a, x : IsSeq(x) => (<<a>> \o x) \o t = Push(a, x \o t)
<1> TAKE t
<1> HAVE IsSeq(t)
<1> TAKE a, x
<1> HAVE IsSeq(x)
<1>1. PICK S : t \in Seq(S)
  BY DEF IsSeq
<1>2. PICK R : x \in Seq(R)
  BY DEF IsSeq
<1> DEFINE Q == S \cup R \cup {a}
           y == <<a>>
<1>3. t \in Seq(Q) /\ x \in Seq(Q) /\ y \in Seq(Q)
  <2>1. S \subseteq Q /\ R \subseteq Q
    OBVIOUS
  <2>2. t \in Seq(Q) /\ x \in Seq(Q)
    BY <1>1, <1>2, <2>1, SeqMonotonic
  <2>3. y \in Seq(Q)
    OBVIOUS
  <2>4. QED
    BY <2>2, <2>3
<1> HIDE DEF Q, y
<1>4. (y \o x) \o t = y \o (x \o t)
  BY <1>3, Assoc
<1>5. QED
  BY <1>4 DEF y, Push

LEMMA PushOne == \A t : IsSeq(t) => \A a : <<a>> \o t = Push(a, t)
BY DEF Push

LEMMA PushNone == \A t : IsSeq(t) => <<>> \o t = t
BY ConcatEmptySeq DEF IsSeq

LEMMA PushTwo == \A t : IsSeq(t) => \A a, b : (<<a>> \o <<b>>) \o t = Push(a, Push(b, t))
<1> TAKE t
<1> HAVE IsSeq(t)
<1> TAKE a, b
<1> DEFINE y == <<b>>
<1>1. IsSeq(y)
  BY <<b>> \in Seq({b}) DEF IsSeq
<1>2. y \o t = Push(b, t)
  BY PushOne
<1> HIDE DEF y
<1>3. (<<a>> \o y) \o t = Push(a, y \o t)
  BY <1>1, Stacked
<1>4. QED
  BY <1>2, <1>3 DEF y

LEMMA PushBoth == \A t : IsSeq(t) => \A a, b : <<a, b>> \o t = Push(a, Push(b, t))
<1> TAKE t
<1> HAVE IsSeq(t)
<1> TAKE a, b
<1>1. <<a, b>> = <<a>> \o <<b>>
  BY Pair
<1> DEFINE z == <<a, b>>
<1>2. z = <<a>> \o <<b>>
  BY <1>1
<1> HIDE DEF z
<1>3. z \o t = Push(a, Push(b, t))
  BY <1>2, PushTwo
<1>4. QED
  BY <1>3 DEF z

LEMMA PushThree ==
  \A t : IsSeq(t) => \A a, b, c : (<<a, b>> \o <<c>>) \o t = Push(a, Push(b, Push(c, t)))
<1> TAKE t
<1> HAVE IsSeq(t)
<1> TAKE a, b, c
<1> DEFINE y == <<b>>
           z == <<c>>
           x == y \o z
<1>1. IsSeq(z) /\ IsSeq(y)
  BY <<b>> \in Seq({b}), <<c>> \in Seq({c}) DEF IsSeq
<1>2. IsSeq(x)
  <2>1. y \in Seq({b, c}) /\ z \in Seq({b, c})
    OBVIOUS
  <2> HIDE DEF y, z
  <2>2. QED
    BY <2>1, ConcatProperties DEF IsSeq
<1>3. <<a, b>> \o z = Push(a, x)
  <2>1. <<a, b>> \o z = Push(a, Push(b, z))
    BY <1>1, PushBoth
  <2>2. y \o z = Push(b, z)
    BY <1>1, PushOne
  <2>3. QED
    BY <2>1, <2>2
<1>4. x \o t = Push(b, Push(c, t))
  BY PushTwo
<1> HIDE DEF x
<1>5. Push(a, x) \o t = Push(a, x \o t)
  BY <1>2, Stacked DEF Push
<1>6. QED
  BY <1>3, <1>4, <1>5 DEF z

-----------------------------------------------------------------------------
(* The tree.  Node a was read from within node b.                          *)
Inside(s, a, b) == s[b].from <= s[a].from /\ s[a].to <= s[b].to

(* Subtrees that lie one behind the other between two places.              *)
InOrder(s, kids, first, last) ==
  /\ kids \in Seq(DOMAIN s)
  /\ \A i \in DOMAIN kids : first <= s[kids[i]].from /\ s[kids[i]].to <= last
  /\ \A i, j \in DOMAIN kids : i < j => s[kids[i]].to < s[kids[j]].from

(* A node is before the place first or part of one of the subtrees.        *)
Covered(s, d, first, kids) ==
  s[d].to < first \/ \E i \in DOMAIN kids : Inside(s, d, kids[i])

AreLets(s, kids) == \A i \in DOMAIN kids : s[kids[i]].t = "let"

Shape(s, e) ==
  /\ e.t \in {"num", "var", "call", "unary", "binary", "if", "for", "let", "varin"}
  /\ e.t \in {"num", "var"} => e.kids = <<>> /\ e.at = e.from
  /\ e.t \in {"var", "for", "let"} => e.n \in Ident /\ e.n = Tok(e.at)
  /\ e.t = "unary" => Len(e.kids) = 1 /\ e.at = e.from
  /\ e.t = "binary" => Len(e.kids) = 2 /\ e.n \in Ascii
  /\ e.t = "if" => Len(e.kids) = 3
  /\ e.t = "for" => Len(e.kids) \in {3, 4} /\ e.at = e.from + 1 /\ e.at < s[e.kids[1]].from
  /\ e.t = "let" => Len(e.kids) \in {0, 1} /\ e.at = e.from
  /\ e.t = "varin" => Len(e.kids) >= 1 /\ \A i \in 1 .. Len(e.kids) - 1 : s[e.kids[i]].t = "let"

NodeOk(s, k) ==
  /\ s[k].from \in 1 .. Len(toks) /\ s[k].to \in s[k].from .. Len(toks) /\ s[k].at \in Nat
  /\ s[k].kids \in Seq(1 .. k - 1)
  /\ InOrder(s, s[k].kids, s[k].from, s[k].to)
  /\ \A d \in 1 .. k - 1 : Covered(s, d, s[k].from, s[k].kids)
  /\ Shape(s, s[k])

(* The operands of a node, as in PrecedenceKept.                           *)
LeftOk(l, p, op) ==
  l.to = op - 1 => \/ l.t \in {"num", "var", "call", "unary"}
                   \/ l.t = "binary" /\ prec[l.n] >= p
OperandsOk(s, e) ==
  /\ e.t = "binary" =>
       /\ LeftOk(s[e.kids[1]], prec[e.n], e.at)
       /\ s[e.kids[2]].from = e.at + 1 /\ s[e.kids[2]].t = "binary" =>
            prec[s[e.kids[2]].n] > prec[e.n]
  /\ e.t = "unary" => (s[e.kids[1]].from = e.at + 1 => s[e.kids[1]].t # "binary")

TreeOk(s, place) ==
  IsSeq(s) /\ \A k \in DOMAIN s : NodeOk(s, k) /\ s[k].to < place

(* More nodes.                                                             *)
Extends(r, s) ==
  /\ IsSeq(r) /\ IsSeq(s) /\ Len(r) \in Nat /\ Len(s) \in Nat
  /\ DOMAIN s = 1 .. Len(s) /\ DOMAIN r = 1 .. Len(r) /\ Len(s) <= Len(r)
  /\ \A k \in DOMAIN s : r[k] = s[k]

LEMMA AppendExtends ==
  ASSUME NEW s, IsSeq(s), NEW e
  PROVE  Extends(Append(s, e), s)
BY AppendFacts DEF Extends

LEMMA OrderExtends ==
  ASSUME NEW r, NEW s, Extends(r, s), NEW kids, NEW first, NEW last, InOrder(s, kids, first, last)
  PROVE  InOrder(r, kids, first, last)
<1>1. kids \in Seq(DOMAIN s) /\ DOMAIN s \subseteq DOMAIN r
  BY DEF InOrder, Extends
<1>2. kids \in Seq(DOMAIN r)
  BY <1>1, SeqMonotonic
<1>3. \A i \in DOMAIN kids : r[kids[i]] = s[kids[i]]
  <2>1. \A i \in DOMAIN kids : kids[i] \in DOMAIN s
    BY <1>1
  <2>2. QED
    BY <2>1 DEF Extends
<1>4. QED
  BY <1>2, <1>3 DEF InOrder

LEMMA CoveredExtends ==
  ASSUME NEW r, NEW s, Extends(r, s), NEW kids \in Seq(DOMAIN s), NEW first, NEW d \in DOMAIN s,
         Covered(s, d, first, kids)
  PROVE  Covered(r, d, first, kids)
<1>1. \A i \in DOMAIN kids : r[kids[i]] = s[kids[i]]
  <2>1. \A i \in DOMAIN kids : kids[i] \in DOMAIN s
    OBVIOUS
  <2>2. QED
    BY <2>1 DEF Extends
<1>2. r[d] = s[d]
  BY DEF Extends
<1>3. QED
  BY <1>1, <1>2, Zenon DEF Covered, Inside

LEMMA ShapeExtends ==
  ASSUME NEW r, NEW s, Extends(r, s), NEW e, e.kids \in Seq(DOMAIN s), Shape(s, e)
  PROVE  Shape(r, e)
<1>1. \A i \in DOMAIN e.kids : r[e.kids[i]] = s[e.kids[i]]
  <2>1. \A i \in DOMAIN e.kids : e.kids[i] \in DOMAIN s
    OBVIOUS
  <2>2. QED
    BY <2>1 DEF Extends
<1>2. DOMAIN e.kids = 1 .. Len(e.kids) /\ Len(e.kids) \in Nat
  OBVIOUS
<1>3. e.t = "for" => e.at < r[e.kids[1]].from
  BY <1>1, <1>2 DEF Shape
<1>4. e.t = "varin" => \A i \in 1 .. Len(e.kids) - 1 : r[e.kids[i]].t = "let"
  <2>1. \A i \in 1 .. Len(e.kids) - 1 : i \in DOMAIN e.kids
    BY <1>2
  <2>2. QED
    BY <1>1, <2>1 DEF Shape
<1>5. QED
  BY <1>3, <1>4 DEF Shape

LEMMA NodeExtends ==
  ASSUME NEW r, NEW s, Extends(r, s), NEW k \in DOMAIN s, NodeOk(s, k)
  PROVE  NodeOk(r, k)
<1>1. r[k] = s[k] /\ k \in Nat
  BY DEF Extends
<1>2. InOrder(r, s[k].kids, s[k].from, s[k].to)
  BY OrderExtends DEF NodeOk
<1>3. s[k].kids \in Seq(DOMAIN s)
  BY DEF NodeOk, InOrder
<1>4. \A d \in 1 .. k - 1 : Covered(r, d, s[k].from, s[k].kids)
  <2>1. \A d \in 1 .. k - 1 : d \in DOMAIN s
    BY DEF Extends
  <2>2. QED
    BY <1>3, <2>1, CoveredExtends DEF NodeOk
<1>5. Shape(r, s[k])
  BY <1>3, ShapeExtends DEF NodeOk
<1>6. QED
  BY <1>1, <1>2, <1>4, <1>5 DEF NodeOk

LEMMA OperandsExtends ==
  ASSUME NEW r, NEW s, Extends(r, s), NEW k \in DOMAIN s, NodeOk(s, k), OperandsOk(s, s[k])
  PROVE  OperandsOk(r, r[k])
<1>1. r[k] = s[k]
  BY DEF Extends
<1>2. s[k].kids \in Seq(DOMAIN s)
  BY DEF NodeOk, InOrder
<1>3. \A i \in 1 .. Len(s[k].kids) : r[s[k].kids[i]] = s[s[k].kids[i]]
  <2>1. \A i \in 1 .. Len(s[k].kids) : s[k].kids[i] \in DOMAIN s
    BY <1>2
  <2>2. QED
    BY <2>1 DEF Extends
<1>4. s[k].t = "binary" => Len(s[k].kids) = 2
  BY DEF NodeOk, Shape
<1>5. s[k].t = "unary" => Len(s[k].kids) = 1
  BY DEF NodeOk, Shape
<1>6. QED
  BY <1>1, <1>3, <1>4, <1>5 DEF OperandsOk

-----------------------------------------------------------------------------
(* The stack of the parser.  The bottom of it is the caller of             *)
(* ParseExpression.  A frame f is right when its next subtree, or what it  *)
(* will pass on, begins at place i.                                        *)
Bottom == [do |-> "function", from |-> proto.at, kids |-> <<>>]

Operators == {"rhs", "operand", "merge"}
Primaries == {"unary", "args", "paren", "if", "for", "names", "let", "body", "operator"}
Callers == {"args", "paren", "if", "for", "let", "body", "function"}

SubtreesOf(f) == IF f.do \in {"unary", "paren", "rhs"} THEN <<>> ELSE f.kids

FrameKidsOk(s, f, i) ==
  /\ f.do \in {"operator", "function"} => f.kids = <<>>
  /\ f.do = "if" => Len(f.kids) <= 2
  /\ f.do = "for" => /\ Len(f.kids) <= 3 /\ f.last \in BOOLEAN
                     /\ IF f.last THEN Len(f.kids) >= 2 ELSE Len(f.kids) <= 2
                     /\ Tok(f.from + 1) \in Ident /\ f.from + 1 < i
                     /\ f.kids # <<>> => f.from + 1 < s[f.kids[1]].from
  /\ f.do \in {"names", "let", "body"} => AreLets(s, f.kids)
  /\ f.do = "let" => /\ f.name \in Nat /\ f.from < f.name /\ f.name < i /\ Tok(f.name) \in Ident
                     /\ f.init \in BOOLEAN
                     /\ \A j \in DOMAIN f.kids : s[f.kids[j]].to < f.name

OperatorOk(s, f, i) ==
  /\ f.do \in Operators => f.min \in Nat
  /\ f.do \in {"operand", "merge"} =>
       /\ f.op \in Nat /\ f.prec \in Nat /\ i = f.op + 1 /\ Len(f.kids) = 1
       /\ f.min <= f.prec /\ Tok(f.op) \in Ascii /\ prec[Tok(f.op)] = f.prec
       /\ s[f.kids[1]].to < f.op /\ LeftOk(s[f.kids[1]], f.prec, f.op)

HasFields(f) ==
  /\ f.do \in {"args", "if"} => f = [do |-> f.do, from |-> f.from, kids |-> f.kids]
  /\ f.do = "for" => f = [do |-> f.do, from |-> f.from, kids |-> f.kids, last |-> f.last]
  /\ f.do \in {"operand", "merge"} =>
       f = [do |-> f.do, from |-> f.from, kids |-> f.kids, min |-> f.min, op |-> f.op,
            prec |-> f.prec]

FrameOk(s, f, i) ==
  /\ f.from \in Nat \ {0} /\ i \in Nat /\ f.from <= i
  /\ f.do \in {"unary", "rhs", "function"} => i = f.from
  /\ f.do = "operator" => i = f.from + 1
  /\ f.do \in {"args", "paren", "if", "for", "names", "let", "body"} => f.from < i
  /\ InOrder(s, SubtreesOf(f), f.from, i - 1)
  /\ \A d \in DOMAIN s : Covered(s, d, f.from, SubtreesOf(f)) \/ i <= s[d].from
  /\ FrameKidsOk(s, f, i) /\ OperatorOk(s, f, i) /\ HasFields(f)

Follows(f, g) ==
  /\ f.do \in Primaries => g.do \in {"rhs", "operand", "operator"}
  /\ f.do \in Operators =>
       /\ g.do \in Callers \cup {"merge"}
       /\ g.do \in Callers => f.min = 0
       /\ g.do = "merge" => f.min = g.prec + 1
       /\ g.do = "let" => g.init

Under(t, k) == IF k + 1 \in DOMAIN t THEN t[k + 1] ELSE Bottom
Top(t) == IF t = <<>> THEN Bottom ELSE Head(t)

Stack(s, t) ==
  /\ IsSeq(t)
  /\ \A k \in DOMAIN t :
       /\ t[k].do \in Primaries \cup Operators
       /\ Follows(t[k], Under(t, k)) /\ FrameOk(s, Under(t, k), t[k].from)
       /\ \A j \in 1 .. k : t[k].from <= t[j].from

LEMMA FrameExtends ==
  ASSUME NEW r, NEW s, Extends(r, s), NEW f, NEW i, FrameOk(s, f, i),
         \A d \in DOMAIN r : d \in DOMAIN s \/ i <= r[d].from
  PROVE  FrameOk(r, f, i)
<1> DEFINE kids == SubtreesOf(f)
<1>1. InOrder(s, kids, f.from, i - 1) /\ kids \in Seq(DOMAIN s)
  BY DEF FrameOk, InOrder
<1>2. InOrder(r, kids, f.from, i - 1)
  BY <1>1, OrderExtends
<1>3. \A j \in DOMAIN kids : r[kids[j]] = s[kids[j]]
  <2>1. \A j \in DOMAIN kids : kids[j] \in DOMAIN s
    BY <1>1
  <2>2. QED
    BY <2>1 DEF Extends
<1>4. ASSUME NEW d \in DOMAIN r PROVE Covered(r, d, f.from, kids) \/ i <= r[d].from
  <2>1. CASE d \in DOMAIN s
    <3>1. Covered(s, d, f.from, kids) \/ i <= s[d].from
      BY <2>1 DEF FrameOk
    <3>2. r[d] = s[d]
      BY <2>1 DEF Extends
    <3>3. Covered(s, d, f.from, kids) => Covered(r, d, f.from, kids)
      BY <1>1, <2>1, CoveredExtends
    <3>4. QED
      BY <3>1, <3>2, <3>3
  <2>2. QED
    BY <2>1
<1> HIDE DEF kids
<1>5. f.do \notin {"unary", "paren", "rhs"} => kids = f.kids
  BY DEF kids, SubtreesOf
<1>6. FrameKidsOk(r, f, i)
  <2>1. FrameKidsOk(s, f, i)
    BY DEF FrameOk
  <2>2. f.do = "for" => (f.kids # <<>> => f.from + 1 < r[f.kids[1]].from)
    <3>1. SUFFICES ASSUME f.do = "for", f.kids # <<>> PROVE r[f.kids[1]] = s[f.kids[1]]
      BY <2>1, Zenon DEF FrameKidsOk
    <3>2. 1 \in DOMAIN kids
      BY <1>1, <1>5, <3>1
    <3>3. QED
      BY <1>3, <1>5, <3>1, <3>2
  <2>3. f.do \in {"names", "let", "body"} => AreLets(r, f.kids)
    BY <1>3, <1>5, <2>1 DEF FrameKidsOk, AreLets
  <2>4. f.do = "let" => \A j \in DOMAIN f.kids : r[f.kids[j]].to < f.name
    BY <1>3, <1>5, <2>1 DEF FrameKidsOk
  <2>5. QED
    BY <2>1, <2>2, <2>3, <2>4 DEF FrameKidsOk
<1>7. OperatorOk(r, f, i)
  <2>1. OperatorOk(s, f, i)
    BY DEF FrameOk
  <2>2. ASSUME f.do \in {"operand", "merge"} PROVE r[f.kids[1]] = s[f.kids[1]]
    <3>1. Len(f.kids) = 1 /\ kids = f.kids
      BY <1>5, <2>1, <2>2 DEF OperatorOk
    <3>2. 1 \in DOMAIN kids
      BY <1>1, <3>1
    <3>3. QED
      BY <1>3, <3>1, <3>2
  <2>3. QED
    BY <2>1, <2>2 DEF OperatorOk
<1>8. QED
  BY <1>2, <1>4, <1>6, <1>7, Zenon DEF FrameOk, kids

LEMMA StackPop ==
  ASSUME NEW s, NEW t, t # <<>>, Stack(s, t)
  PROVE  /\ Stack(s, Tail(t)) /\ Follows(Head(t), Top(Tail(t)))
         /\ FrameOk(s, Top(Tail(t)), Head(t).from)
         /\ Head(t).do \in Primaries \cup Operators
<1>1. /\ IsSeq(Tail(t)) /\ 1 \in DOMAIN t /\ Head(t) = t[1]
      /\ \A k \in DOMAIN Tail(t) : k \in Nat /\ k + 1 \in DOMAIN t /\ Tail(t)[k] = t[k + 1]
      /\ \A k \in DOMAIN t : k \in Nat /\ (k = 1 \/ (k - 1 \in DOMAIN Tail(t) /\ Tail(t)[k - 1] = t[k]))
  BY TailFacts DEF Stack
<1>2. Under(t, 1) = Top(Tail(t))
  <2>1. CASE Tail(t) = <<>>
    <3>1. ~ (1 + 1 \in DOMAIN t)
      <4>1. DOMAIN Tail(t) = {}
        BY <2>1
      <4>2. QED
        BY <1>1, <4>1
    <3>2. QED
      BY <2>1, <3>1 DEF Under, Top
  <2>2. CASE Tail(t) # <<>>
    <3>1. 1 \in DOMAIN Tail(t) /\ Head(Tail(t)) = Tail(t)[1]
      BY <1>1, <2>2, TailFacts
    <3>2. QED
      BY <1>1, <2>2, <3>1 DEF Under, Top
  <2>3. QED
    BY <2>1, <2>2
<1>3. /\ Follows(t[1], Under(t, 1)) /\ FrameOk(s, Under(t, 1), t[1].from)
      /\ t[1].do \in Primaries \cup Operators
  BY <1>1 DEF Stack
<1>4. \A k \in DOMAIN Tail(t) : Under(Tail(t), k) = Under(t, k + 1)
  BY <1>1 DEF Under
<1>5. ASSUME NEW k \in DOMAIN Tail(t), NEW j \in 1 .. k
      PROVE  Tail(t)[k].from <= Tail(t)[j].from
  <2>1. k \in Nat /\ k + 1 \in DOMAIN t /\ Tail(t)[k] = t[k + 1]
    BY <1>1
  <2>2. j \in DOMAIN Tail(t)
    BY <1>1, <1>5 DEF IsSeq
  <2>3. j + 1 \in 1 .. k + 1 /\ Tail(t)[j] = t[j + 1]
    BY <1>1, <2>1, <2>2
  <2>4. QED
    BY <2>1, <2>3 DEF Stack
<1>6. Stack(s, Tail(t))
  <2>1. ASSUME NEW k \in DOMAIN Tail(t)
        PROVE  /\ Tail(t)[k].do \in Primaries \cup Operators
               /\ Follows(Tail(t)[k], Under(Tail(t), k))
               /\ FrameOk(s, Under(Tail(t), k), Tail(t)[k].from)
    <3>1. k + 1 \in DOMAIN t /\ Tail(t)[k] = t[k + 1] /\ Under(Tail(t), k) = Under(t, k + 1)
      BY <1>1, <1>4
    <3>2. QED
      BY <3>1 DEF Stack
  <2>2. QED
    BY <1>1, <1>5, <2>1, Zenon DEF Stack
<1>7. QED
  BY <1>1, <1>2, <1>3, <1>6

LEMMA StackPush ==
  ASSUME NEW s, NEW t, Stack(s, t), NEW f, f.do \in Primaries \cup Operators,
         Follows(f, Top(t)), FrameOk(s, Top(t), f.from), f.from \in Nat
  PROVE  LET r == Push(f, t)
         IN  Stack(s, r) /\ Top(r) = f /\ Head(r) = f /\ Tail(r) = t /\ r # <<>>
<1> DEFINE r == Push(f, t)
<1>0. IsSeq(t)
  BY DEF Stack
<1>1. /\ IsSeq(r) /\ 1 \in DOMAIN r /\ r[1] = f /\ Head(r) = f /\ Tail(r) = t /\ r # <<>>
      /\ \A k \in DOMAIN r : k \in Nat /\ (k = 1 \/ (k - 1 \in DOMAIN t /\ r[k] = t[k - 1]))
      /\ \A k \in DOMAIN t : k \in Nat /\ k + 1 \in DOMAIN r /\ r[k + 1] = t[k]
  BY <1>0, PushFacts
<1> HIDE DEF r
<1>2. t # <<>> => 1 \in DOMAIN t /\ Head(t) = t[1]
  BY TailFacts DEF Stack
<1>3. Under(r, 1) = Top(t)
  <2>1. CASE t = <<>>
    <3>1. ~ (1 + 1 \in DOMAIN r)
      <4>1. DOMAIN t = {}
        BY <2>1
      <4>2. QED
        BY <1>1, <4>1
    <3>2. QED
      BY <2>1, <3>1 DEF Under, Top
  <2>2. CASE t # <<>>
    BY <1>1, <1>2, <2>2 DEF Under, Top
  <2>3. QED
    BY <2>1, <2>2
<1>4. \A k \in DOMAIN r : k # 1 => Under(r, k) = Under(t, k - 1)
  BY <1>1 DEF Under
<1>5. ASSUME NEW k \in DOMAIN r
      PROVE  /\ r[k].do \in Primaries \cup Operators
             /\ Follows(r[k], Under(r, k)) /\ FrameOk(s, Under(r, k), r[k].from)
  <2>1. CASE k = 1
    BY <1>1, <1>3, <2>1
  <2>2. CASE k # 1
    <3>1. k - 1 \in DOMAIN t /\ r[k] = t[k - 1] /\ Under(r, k) = Under(t, k - 1)
      BY <1>1, <1>4, <2>2
    <3>2. QED
      BY <3>1 DEF Stack
  <2>3. QED
    BY <2>1, <2>2
<1>6. ASSUME NEW k \in DOMAIN t PROVE t[k].from <= f.from /\ t[k].from \in Nat
  <2>1. t # <<>> /\ Top(t) = t[1] /\ 1 \in DOMAIN t /\ 1 \in 1 .. k
    BY <1>1, <1>2 DEF Top
  <2>2. t[1].from <= f.from /\ t[1].from \in Nat
    BY <2>1 DEF FrameOk
  <2>3. t[k].from <= t[1].from
    BY <2>1 DEF Stack
  <2>4. t[k].from \in Nat
    BY DEF Stack, FrameOk
  <2>5. QED
    BY <2>2, <2>3, <2>4
<1>7. ASSUME NEW k \in DOMAIN r, NEW j \in 1 .. k PROVE r[k].from <= r[j].from
  <2>1. CASE k = 1
    BY <1>1, <1>7, <2>1
  <2>2. CASE k # 1
    <3>1. k \in Nat /\ k - 1 \in DOMAIN t /\ r[k] = t[k - 1]
      BY <1>1, <2>2
    <3>2. CASE j = 1
      BY <1>1, <1>6, <3>1, <3>2
    <3>3. CASE j # 1
      <4>1. j \in DOMAIN r
        BY <1>1, <1>7, <3>1 DEF IsSeq
      <4>2. r[j] = t[j - 1] /\ j - 1 \in 1 .. k - 1
        BY <1>1, <1>7, <3>1, <3>3, <4>1
      <4>3. QED
        BY <3>1, <4>2 DEF Stack
    <3>4. QED
      BY <3>2, <3>3
  <2>3. QED
    BY <2>1, <2>2
<1>8. Stack(s, r)
  BY <1>1, <1>5, <1>7, Zenon DEF Stack
<1>9. QED
  BY <1>1, <1>8 DEF Top, r

LEMMA StackExtends ==
  ASSUME NEW r, NEW s, Extends(r, s), NEW t, Stack(s, t),
         \A d \in DOMAIN r : d \in DOMAIN s \/ (r[d].from \in Nat /\ (t = <<>> \/ Head(t).from <= r[d].from))
  PROVE  Stack(r, t)
<1>1. IsSeq(t)
  BY DEF Stack
<1>2. ASSUME NEW k \in DOMAIN t PROVE FrameOk(r, Under(t, k), t[k].from)
  <2>1. t # <<>> /\ Head(t) = t[1] /\ 1 \in DOMAIN t /\ k \in Nat
    BY <1>1, <1>2, TailFacts
  <2>2. k >= 1
    BY <1>1, <1>2 DEF IsSeq
  <2>3. t[k].from <= t[1].from
    BY <2>1, <2>2 DEF Stack
  <2>4. FrameOk(s, Under(t, k), t[k].from) /\ t[k].from \in Nat /\ t[1].from \in Nat
    BY <2>1 DEF Stack, FrameOk
  <2>5. \A d \in DOMAIN r : d \in DOMAIN s \/ t[k].from <= r[d].from
    BY <2>1, <2>3, <2>4
  <2>6. QED
    BY <2>4, <2>5, FrameExtends
<1>3. QED
  BY <1>2, Zenon DEF Stack

-----------------------------------------------------------------------------
(* Values.  Node v was read from place i on, and is all that was.          *)
ValueOk(s, v, i) ==
  /\ v \in DOMAIN s /\ s[v].t # "let" /\ i <= s[v].from
  /\ \A d \in DOMAIN s : s[d].from < i \/ Inside(s, d, v)

LEMMA NoKids ==
  ASSUME NEW s, NEW first, NEW last
  PROVE  InOrder(s, <<>>, first, last)
BY DEF InOrder

LEMMA PlacesOk ==
  ASSUME NEW s, NEW place, TreeOk(s, place), NEW k \in DOMAIN s
  PROVE  /\ s[k].from \in Nat \ {0} /\ s[k].to \in Nat /\ s[k].at \in Nat
         /\ s[k].from <= s[k].to /\ s[k].to < place /\ s[k].kids \in Seq(DOMAIN s)
<1>1. IsSeq(s) /\ NodeOk(s, k) /\ s[k].to < place
  BY DEF TreeOk
<1>2. QED
  BY <1>1 DEF NodeOk, InOrder

LEMMA FreshFrames ==
  ASSUME NEW s, NEW q \in Nat \ {0}, TreeOk(s, q)
  PROVE  /\ FrameOk(s, Unary(q), q)
         /\ \A m \in Nat : FrameOk(s, BinOpRHS(m, q), q)
<1>1. \A d \in DOMAIN s : s[d].to < q
  BY DEF TreeOk
<1>2. FrameOk(s, Unary(q), q)
  BY <1>1, NoKids DEF FrameOk, Unary, SubtreesOf, Covered, FrameKidsOk, OperatorOk, HasFields, Operators
<1>3. \A m \in Nat : FrameOk(s, BinOpRHS(m, q), q)
  BY <1>1, NoKids DEF FrameOk, BinOpRHS, SubtreesOf, Covered, FrameKidsOk, OperatorOk, HasFields, Operators
<1>4. QED
  BY <1>2, <1>3

LEMMA CallUnaryOk ==
  ASSUME NEW s, NEW q \in Nat \ {0}, TreeOk(s, q), NEW t, Stack(s, t), FrameOk(s, Top(t), q),
         Top(t).do \in {"rhs", "operand", "operator"}
  PROVE  LET r == Push(Unary(q), t)
         IN  Stack(s, r) /\ Top(r) = Unary(q) /\ FrameOk(s, Unary(q), q)
<1>1. /\ Unary(q).do \in Primaries \cup Operators /\ Unary(q).from = q
      /\ Follows(Unary(q), Top(t))
  BY DEF Unary, Primaries, Operators, Follows
<1>2. QED
  BY <1>1, StackPush, FreshFrames

LEMMA CallExpressionOk ==
  ASSUME NEW s, NEW q \in Nat \ {0}, TreeOk(s, q), NEW t, Stack(s, t), FrameOk(s, Top(t), q),
         Top(t).do \in Callers, Top(t).do = "let" => Top(t).init
  PROVE  LET r == Push(Unary(q), Push(BinOpRHS(0, q), t))
         IN  Stack(s, r) /\ Top(r) = Unary(q) /\ FrameOk(s, Unary(q), q)
<1> DEFINE f == BinOpRHS(0, q)
           u == Push(f, t)
<1>1. /\ f.do \in Primaries \cup Operators /\ f.from = q /\ f.do = "rhs"
      /\ Follows(f, Top(t))
  BY DEF BinOpRHS, Primaries, Operators, Follows, Callers
<1>2. Stack(s, u) /\ Top(u) = f
  BY <1>1, StackPush
<1>3. FrameOk(s, f, q)
  BY FreshFrames
<1> HIDE DEF f, u
<1>4. QED
  BY <1>1, <1>2, <1>3, CallUnaryOk DEF f, u

(* One more subtree, at place i or behind it.                              *)
LEMMA AddKid ==
  ASSUME NEW s, NEW p \in Nat, TreeOk(s, p), NEW K, NEW first \in Nat, NEW i \in Nat, first <= i,
         InOrder(s, K, first, i - 1),
         \A d \in DOMAIN s : Covered(s, d, first, K) \/ i <= s[d].from,
         NEW v \in DOMAIN s, i <= s[v].from, \A d \in DOMAIN s : s[d].from < i \/ Inside(s, d, v)
  PROVE  LET kids == Append(K, v)
         IN  /\ InOrder(s, kids, first, p - 1)
             /\ \A d \in DOMAIN s : Covered(s, d, first, kids)
<1> DEFINE kids == Append(K, v)
<1>1. K \in Seq(DOMAIN s)
  BY DEF InOrder
<1>3. /\ kids \in Seq(DOMAIN s) /\ Len(K) \in Nat /\ DOMAIN kids = 1 .. Len(K) + 1 /\ DOMAIN K = 1 .. Len(K)
      /\ kids[Len(K) + 1] = v /\ \A j \in DOMAIN K : kids[j] = K[j]
  BY <1>1
<1> HIDE DEF kids
<1>4. \A j \in DOMAIN K : K[j] \in DOMAIN s
  BY <1>1
<1>5. \A k \in DOMAIN s : s[k].from \in Nat /\ s[k].to \in Nat /\ s[k].to < p
  BY PlacesOk
<1>6. \A j \in DOMAIN K : first <= s[K[j]].from /\ s[K[j]].to <= i - 1
  BY <1>1 DEF InOrder
<1>7. \A j \in DOMAIN kids : first <= s[kids[j]].from /\ s[kids[j]].to <= p - 1
  <2> TAKE j \in DOMAIN kids
  <2>1. CASE j = Len(K) + 1
    BY <1>3, <1>5, <2>1
  <2>2. CASE j \in DOMAIN K
    <3>1. kids[j] = K[j] /\ K[j] \in DOMAIN s
      BY <1>3, <1>4, <2>2
    <3>2. QED
      BY <1>5, <1>6, <2>2, <3>1
  <2>3. QED
    BY <1>3, <2>1, <2>2
<1>8. \A j, k \in DOMAIN kids : j < k => s[kids[j]].to < s[kids[k]].from
  <2> SUFFICES ASSUME NEW j \in DOMAIN kids, NEW k \in DOMAIN kids, j < k
               PROVE  s[kids[j]].to < s[kids[k]].from
    OBVIOUS
  <2>1. j \in DOMAIN K /\ kids[j] = K[j] /\ K[j] \in DOMAIN s
    BY <1>3, <1>4
  <2>2. CASE k = Len(K) + 1
    BY <1>3, <1>5, <1>6, <2>1, <2>2
  <2>3. CASE k \in DOMAIN K
    BY <1>1, <1>3, <2>1, <2>3 DEF InOrder
  <2>4. QED
    BY <1>3, <2>2, <2>3
<1>9. ASSUME NEW d \in DOMAIN s PROVE Covered(s, d, first, kids)
  <2>1. CASE Covered(s, d, first, K)
    <3>1. \A j \in DOMAIN K : j \in DOMAIN kids /\ kids[j] = K[j]
      BY <1>3
    <3>2. QED
      BY <2>1, <3>1, Zenon DEF Covered
  <2>2. CASE i <= s[d].from
    <3>1. Inside(s, d, v)
      BY <1>5, <2>2
    <3>2. Len(K) + 1 \in DOMAIN kids
      BY <1>3
    <3>3. QED
      BY <1>3, <3>1, <3>2, Zenon DEF Covered
  <2>3. QED
    BY <2>1, <2>2
<1>10. QED
  BY <1>3, <1>7, <1>8, <1>9 DEF InOrder, kids

(* The frame has its next subtree.                                         *)
LEMMA AddSubtree ==
  ASSUME NEW s, NEW p \in Nat, TreeOk(s, p), NEW f, NEW i, FrameOk(s, f, i),
         NEW v, ValueOk(s, v, i)
  PROVE  LET kids == Append(SubtreesOf(f), v)
         IN  /\ InOrder(s, kids, f.from, p - 1)
             /\ \A d \in DOMAIN s : Covered(s, d, f.from, kids)
<1> DEFINE K == SubtreesOf(f)
<1>1. /\ InOrder(s, K, f.from, i - 1) /\ f.from \in Nat /\ i \in Nat /\ f.from <= i
      /\ \A d \in DOMAIN s : Covered(s, d, f.from, K) \/ i <= s[d].from
  BY DEF FrameOk
<1>2. v \in DOMAIN s /\ i <= s[v].from /\ \A d \in DOMAIN s : s[d].from < i \/ Inside(s, d, v)
  BY DEF ValueOk
<1> HIDE DEF K
<1>3. QED
  BY <1>1, <1>2, AddKid DEF K

LEMMA OrderWiden ==
  ASSUME NEW s, NEW kids, NEW first, NEW p \in Int, NEW q \in Int, InOrder(s, kids, first, p), p <= q,
         \A k \in DOMAIN s : s[k].to \in Int
  PROVE  InOrder(s, kids, first, q)
<1>1. \A i \in DOMAIN kids : s[kids[i]].to \in Int
  <2>1. \A i \in DOMAIN kids : kids[i] \in DOMAIN s
    BY DEF InOrder
  <2>2. QED
    BY <2>1
<1>2. QED
  BY <1>1 DEF InOrder

(* A node is made.                                                         *)
Precedences(s) == \A k \in DOMAIN s : OperandsOk(s, s[k])

LEMMA NewNode ==
  ASSUME NEW s, NEW p \in Nat, TreeOk(s, p), Precedences(s), NEW q \in Nat, p <= q, NEW e,
         e.from \in 1 .. Len(toks), e.to \in e.from .. Len(toks), e.at \in Nat, e.to < q,
         InOrder(s, e.kids, e.from, e.to), \A d \in DOMAIN s : Covered(s, d, e.from, e.kids),
         Shape(s, e), OperandsOk(s, e)
  PROVE  LET r == Append(s, e)
         IN  /\ TreeOk(r, q) /\ Precedences(r) /\ Extends(r, s)
             /\ Len(s) + 1 \in DOMAIN r /\ r[Len(s) + 1] = e
             /\ \A d \in DOMAIN r : d \in DOMAIN s \/ r[d] = e
<1> DEFINE r == Append(s, e)
<1>1. IsSeq(s)
  BY DEF TreeOk
<1>2. /\ IsSeq(r) /\ Len(s) \in Nat /\ Len(r) = Len(s) + 1
      /\ DOMAIN s = 1 .. Len(s) /\ DOMAIN r = 1 .. Len(s) + 1
      /\ r[Len(s) + 1] = e /\ \A k \in DOMAIN s : r[k] = s[k]
  BY <1>1, AppendFacts
<1>3. Extends(r, s)
  BY <1>1, AppendExtends
<1> HIDE DEF r
<1>4. e.kids \in Seq(DOMAIN s)
  BY DEF InOrder
<1>5. NodeOk(r, Len(s) + 1)
  <2>1. InOrder(r, e.kids, e.from, e.to)
    BY <1>3, OrderExtends
  <2>2. \A d \in 1 .. Len(s) : Covered(r, d, e.from, e.kids)
    BY <1>2, <1>3, <1>4, CoveredExtends
  <2>3. Shape(r, e)
    BY <1>3, <1>4, ShapeExtends
  <2>4. (Len(s) + 1) - 1 = Len(s)
    BY <1>2
  <2>5. e.kids \in Seq(1 .. (Len(s) + 1) - 1)
    BY <1>2, <1>4, <2>4
  <2>6. \A d \in 1 .. (Len(s) + 1) - 1 : Covered(r, d, e.from, e.kids)
    BY <2>2, <2>4
  <2>7. QED
    BY <1>2, <2>1, <2>3, <2>5, <2>6, Zenon DEF NodeOk
<1>6. OperandsOk(r, e)
  <2>1. \A i \in 1 .. Len(e.kids) : r[e.kids[i]] = s[e.kids[i]]
    <3>1. \A i \in 1 .. Len(e.kids) : e.kids[i] \in DOMAIN s
      BY <1>4
    <3>2. QED
      BY <1>2, <3>1
  <2>2. (e.t = "binary" => Len(e.kids) = 2) /\ (e.t = "unary" => Len(e.kids) = 1)
    BY DEF Shape
  <2>3. QED
    BY <2>1, <2>2 DEF OperandsOk
<1>7. \A k \in DOMAIN r : k \in DOMAIN s \/ k = Len(s) + 1
  BY <1>2
<1>8. TreeOk(r, q)
  <2>1. ASSUME NEW k \in DOMAIN s PROVE NodeOk(r, k) /\ r[k].to < q
    <3>1. NodeOk(s, k) /\ s[k].to < p /\ s[k].to \in Nat
      BY PlacesOk DEF TreeOk
    <3>2. NodeOk(r, k)
      BY <1>3, <3>1, NodeExtends
    <3>3. QED
      BY <1>2, <3>1, <3>2
  <2>2. QED
    BY <1>2, <1>5, <1>7, <2>1 DEF TreeOk
<1>9. Precedences(r)
  <2>1. ASSUME NEW k \in DOMAIN s PROVE OperandsOk(r, r[k])
    BY <1>3, OperandsExtends DEF TreeOk, Precedences
  <2>2. QED
    BY <1>2, <1>6, <1>7, <2>1 DEF Precedences
<1>10. Len(s) + 1 \in DOMAIN r
  BY <1>2
<1>11. \A d \in DOMAIN r : d \in DOMAIN s \/ r[d] = e
  BY <1>2, <1>7
<1>12. QED
  BY <1>2, <1>3, <1>8, <1>9, <1>10, <1>11 DEF r

LEMMA NewValue ==
  ASSUME NEW s, NEW p, TreeOk(s, p), NEW e, e.t # "let", e.from \in Nat, e.to \in Nat,
         InOrder(s, e.kids, e.from, e.to), \A d \in DOMAIN s : Covered(s, d, e.from, e.kids),
         NEW r, Extends(r, s), Len(s) + 1 \in DOMAIN r, r[Len(s) + 1] = e,
         \A d \in DOMAIN r : d \in DOMAIN s \/ r[d] = e
  PROVE  ValueOk(r, Len(s) + 1, e.from)
<1> DEFINE v == Len(s) + 1
<1>1. ASSUME NEW d \in DOMAIN s PROVE r[d].from < e.from \/ Inside(r, d, v)
  <2>1. s[d].from \in Nat /\ s[d].to \in Nat /\ s[d].from <= s[d].to /\ r[d] = s[d]
    BY PlacesOk DEF Extends
  <2>2. CASE s[d].to < e.from
    BY <2>1, <2>2
  <2>3. CASE \E j \in DOMAIN e.kids : Inside(s, d, e.kids[j])
    <3>1. PICK j \in DOMAIN e.kids : Inside(s, d, e.kids[j])
      BY <2>3
    <3>2. e.kids[j] \in DOMAIN s
      BY DEF InOrder
    <3>3. s[e.kids[j]].from \in Nat /\ s[e.kids[j]].to \in Nat
      BY <3>2, PlacesOk
    <3>4. e.from <= s[e.kids[j]].from /\ s[e.kids[j]].to <= e.to
      BY DEF InOrder
    <3>5. QED
      BY <2>1, <3>1, <3>3, <3>4 DEF Inside
  <2>4. QED
    BY <2>2, <2>3 DEF Covered
<1>2. \A d \in DOMAIN r : d \in DOMAIN s \/ Inside(r, d, v)
  BY DEF Inside
<1>3. QED
  BY <1>1, <1>2 DEF ValueOk

-----------------------------------------------------------------------------
(* The state of the parser.  A frame that waits for a value has it; what   *)
(* the value may be follows from the function that has returned it: bare   *)
(* is an operand that is not in parentheses.                               *)
Waits(f) == f.do \notin {"unary", "names"} /\ (f.do = "let" => f.init)

Bare(s, f, v, i, p) ==
  /\ s[v].to = p - 1 /\ s[v].t \in {"if", "for", "varin"} => GetTokPrecedence(p) = -1
  /\ f.do \in Callers => GetTokPrecedence(p) = -1
  /\ f.do = "rhs" /\ s[v].t = "binary" =>
       /\ s[v].to = p - 1 => prec[s[v].n] >= GetTokPrecedence(p)
       /\ s[v].from = i => prec[s[v].n] >= f.min
  /\ f.do \in {"operand", "operator"} /\ s[v].t = "binary" => i < s[v].from /\ s[v].to < p - 1
  /\ f.do = "merge" => /\ GetTokPrecedence(p) <= f.prec
                       /\ s[v].t = "binary" /\ s[v].from = i => prec[s[v].n] > f.prec

TopOk(s, t, v, p) ==
  IF Waits(Top(t)) THEN \E i \in 1 .. p - 1 : /\ FrameOk(s, Top(t), i) /\ ValueOk(s, v, i)
                                             /\ Bare(s, Top(t), v, i, p)
  ELSE FrameOk(s, Top(t), p)

ParserOk(s, t, v, p) ==
  /\ p \in 1 .. Len(toks) + 1 /\ TreeOk(s, p) /\ Precedences(s)
  /\ \/ v = 0 /\ t = <<>>
     \/ Stack(s, t) /\ TopOk(s, t, v, p)

InputOk == toks \in Seq(Token) /\ prec \in [Ascii -> 0 .. 100]

LEMMA TokFacts ==
  ASSUME InputOk
  PROVE  /\ Len(toks) \in Nat
         /\ \A i : i \in 1 .. Len(toks) => Tok(i) \in Token /\ Tok(i) # "eof" /\ Past(i) = i + 1
         /\ \A i : i \notin 1 .. Len(toks) => Tok(i) = "eof" /\ Past(i) = i
         /\ \A i : Tok(i) \in Token <=> i \in 1 .. Len(toks)
         /\ Tok(Len(toks) + 1) = "eof" /\ Past(Len(toks) + 1) = Len(toks) + 1
<1>1. DOMAIN toks = 1 .. Len(toks) /\ Len(toks) \in Nat /\ \A i \in DOMAIN toks : toks[i] \in Token
  BY DEF InputOk
<1>2. "eof" \notin Token
  BY KalAssumption
<1>3. \A i : i \in 1 .. Len(toks) => Tok(i) = toks[i] /\ toks[i] \in Token /\ Past(i) = i + 1
  BY <1>1, Zenon DEF Tok, Past
<1>4. \A i : i \notin 1 .. Len(toks) => Tok(i) = "eof" /\ Past(i) = i
  BY <1>1, Zenon DEF Tok, Past
<1>5. Len(toks) + 1 \notin 1 .. Len(toks)
  BY <1>1
<1>6. \A i : i \in 1 .. Len(toks) => Tok(i) \in Token /\ Tok(i) # "eof" /\ Past(i) = i + 1
  BY <1>2, <1>3, Zenon
<1>7. \A i : Tok(i) \in Token <=> i \in 1 .. Len(toks)
  BY <1>2, <1>3, <1>4, Zenon
<1>8. QED
  BY <1>1, <1>4, <1>5, <1>6, <1>7, Zenon

LEMMA WordFacts ==
  /\ Ident \subseteq Token /\ Number \subseteq Token /\ Keyword \subseteq Token /\ Ascii \subseteq Token
  /\ {"(", ")", ",", "=", ";"} \subseteq Ascii
  /\ Ident \cap Number = {} /\ Ident \cap Ascii = {} /\ Number \cap Ascii = {}
  /\ Keyword \cap Ident = {} /\ Keyword \cap Ascii = {} /\ "eof" \notin Token
<1>1. {"(", ")", ",", "=", ";"} \subseteq Ascii
  BY KalAssumption DEF Ascii
<1>2. /\ Ident \subseteq Token /\ Number \subseteq Token /\ Keyword \subseteq Token
      /\ Ascii \subseteq Token
  BY DEF Token
<1>3. /\ Ident \cap Number = {} /\ Ident \cap Ascii = {} /\ Number \cap Ascii = {}
      /\ Keyword \cap Ident = {} /\ Keyword \cap Ascii = {} /\ "eof" \notin Token
  BY KalAssumption
<1>4. QED
  BY <1>1, <1>2, <1>3

LEMMA PrecedenceFacts ==
  ASSUME InputOk, NEW i
  PROVE  /\ GetTokPrecedence(i) \in Int /\ GetTokPrecedence(i) >= -1
         /\ GetTokPrecedence(i) >= 0 =>
              /\ GetTokPrecedence(i) \in 1 .. 100 /\ Tok(i) \in Ascii
              /\ prec[Tok(i)] = GetTokPrecedence(i)
<1>1. CASE Tok(i) \in Ascii /\ prec[Tok(i)] > 0
  <2>1. prec[Tok(i)] \in 0 .. 100
    BY <1>1 DEF InputOk
  <2>2. QED
    BY <1>1, <2>1 DEF GetTokPrecedence
<1>2. CASE ~ (Tok(i) \in Ascii /\ prec[Tok(i)] > 0)
  <2>1. GetTokPrecedence(i) = -1
    BY <1>2, Zenon DEF GetTokPrecedence
  <2>2. QED
    BY <2>1
<1>3. QED
  BY <1>1, <1>2

LEMMA UnaryTop ==
  ASSUME ParserOk(ast, todo, val, at), Doing("unary")
  PROVE  /\ Stack(ast, Tail(todo)) /\ FrameOk(ast, Top(Tail(todo)), at)
         /\ Top(Tail(todo)).do \in {"rhs", "operand", "operator"}
         /\ IsSeq(todo) /\ IsSeq(Tail(todo)) /\ at \in Nat \ {0} /\ TreeOk(ast, at) /\ Precedences(ast)
<1>1. todo # <<>> /\ Head(todo).do = "unary" /\ Top(todo) = Head(todo) /\ ~ Waits(Top(todo))
  BY DEF Doing, Top, Waits
<1>2. Stack(ast, todo) /\ FrameOk(ast, Head(todo), at)
  BY <1>1 DEF ParserOk, TopOk
<1>3. Head(todo).from = at
  BY <1>1, <1>2 DEF FrameOk
<1>4. /\ Stack(ast, Tail(todo)) /\ Follows(Head(todo), Top(Tail(todo)))
      /\ FrameOk(ast, Top(Tail(todo)), at)
  BY <1>1, <1>2, <1>3, StackPop
<1>5. Top(Tail(todo)).do \in {"rhs", "operand", "operator"}
  BY <1>1, <1>4 DEF Follows, Primaries
<1>6. QED
  BY <1>2, <1>4, <1>5 DEF ParserOk, Stack

LEMMA WaitingTop ==
  ASSUME ParserOk(ast, todo, val, at), todo # <<>>, Waits(Frame)
  PROVE  /\ \E i \in 1 .. at - 1 : /\ FrameOk(ast, Frame, i) /\ ValueOk(ast, val, i)
                                   /\ Bare(ast, Frame, val, i, at)
         /\ Stack(ast, Tail(todo)) /\ FrameOk(ast, Top(Tail(todo)), Frame.from)
         /\ Follows(Frame, Top(Tail(todo)))
         /\ IsSeq(todo) /\ IsSeq(Tail(todo)) /\ at \in Nat \ {0} /\ TreeOk(ast, at) /\ Precedences(ast)
<1>1. Top(todo) = Head(todo) /\ Frame = Head(todo)
  BY DEF Top, Frame
<1>2. Stack(ast, todo) /\ TopOk(ast, todo, val, at)
  BY DEF ParserOk
<1>3. /\ Stack(ast, Tail(todo)) /\ Follows(Head(todo), Top(Tail(todo)))
      /\ FrameOk(ast, Top(Tail(todo)), Head(todo).from)
  BY <1>2, StackPop
<1>4. QED
  BY <1>1, <1>2, <1>3 DEF ParserOk, TopOk, Stack

(* A primary expression, that is no binary one, is returned.               *)
LEMMA PrimaryReturned ==
  ASSUME NEW s, NEW p \in Nat, TreeOk(s, p), Precedences(s), NEW q \in 1 .. Len(toks) + 1, p <= q,
         NEW t, Stack(s, t), Top(t).do \in {"rhs", "operand", "operator"},
         NEW e, e.from \in 1 .. Len(toks), e.to \in e.from .. Len(toks), e.at \in Nat, e.to < q,
         FrameOk(s, Top(t), e.from), e.t \notin {"let", "binary"},
         InOrder(s, e.kids, e.from, e.to), \A d \in DOMAIN s : Covered(s, d, e.from, e.kids),
         Shape(s, e), OperandsOk(s, e),
         e.to = q - 1 /\ e.t \in {"if", "for", "varin"} => GetTokPrecedence(q) = -1
  PROVE  ParserOk(Append(s, e), t, Len(s) + 1, q)
<1> DEFINE r == Append(s, e)
           v == Len(s) + 1
<1>1. /\ TreeOk(r, q) /\ Precedences(r) /\ Extends(r, s) /\ v \in DOMAIN r /\ r[v] = e
      /\ \A d \in DOMAIN r : d \in DOMAIN s \/ r[d] = e
  BY NewNode
<1> HIDE DEF r
<1>2. ValueOk(r, v, e.from)
  BY <1>1, NewValue
<1> HIDE DEF v
<1>3. Stack(r, t)
  <2>1. t = <<>> \/ Head(t).from <= e.from
    BY DEF FrameOk, Top
  <2>2. e.from \in Nat
    OBVIOUS
  <2>3. \A d \in DOMAIN r : d \in DOMAIN s \/ (r[d].from \in Nat /\ (t = <<>> \/ Head(t).from <= r[d].from))
    BY <1>1, <2>1, <2>2
  <2>4. QED
    BY <1>1, <2>3, StackExtends
<1>4. FrameOk(r, Top(t), e.from)
  BY <1>1, FrameExtends
<1>5. Bare(r, Top(t), v, e.from, q)
  BY <1>1 DEF Bare, Callers
<1>6. e.from \in 1 .. q - 1
  OBVIOUS
<1>7. TopOk(r, t, v, q)
  BY <1>2, <1>4, <1>5, <1>6 DEF TopOk, Waits
<1>8. QED
  BY <1>1, <1>3, <1>7 DEF ParserOk, r, v

-----------------------------------------------------------------------------
(* Every step of the parser keeps its state right.  Moved: it has read on, *)
(* or has failed.                                                          *)
Moved == at < at' \/ (at <= at' /\ val' = 0 /\ todo' = <<>>)

LEMMA TreeMoves ==
  ASSUME NEW s, NEW p \in Nat, TreeOk(s, p), NEW q \in Nat, p <= q
  PROVE  TreeOk(s, q)
<1>1. \A k \in DOMAIN s : s[k].to \in Nat /\ s[k].to < q
  BY PlacesOk
<1>2. QED
  BY <1>1 DEF TreeOk

LEMMA ErrorRetOk ==
  ASSUME InputOk, ParserOk(ast, todo, val, at), NEW i \in at .. Len(toks) + 1, ErrorRet(i)
  PROVE  ParserOk(ast', todo', val', at') /\ Moved
<1>1. ast' = ast /\ todo' = <<>> /\ val' = 0 /\ at' = i
  BY DEF ErrorRet
<1>2. at \in Nat /\ i \in Nat /\ at <= i /\ i \in 1 .. Len(toks) + 1 /\ TreeOk(ast, at) /\ Precedences(ast)
  BY TokFacts DEF ParserOk
<1>3. TreeOk(ast, i)
  BY <1>2, TreeMoves
<1>4. QED
  BY <1>1, <1>2, <1>3 DEF ParserOk, Moved

LEMMA ErrorHere ==
  ASSUME InputOk, ParserOk(ast, todo, val, at), ErrorRet(at)
  PROVE  ParserOk(ast', todo', val', at') /\ Moved /\ at <= at'
<1>1. at \in 1 .. Len(toks) + 1 /\ Len(toks) \in Nat
  BY TokFacts DEF ParserOk
<1>2. at \in at .. Len(toks) + 1 /\ at <= at
  BY <1>1
<1>3. at' = at
  BY DEF ErrorRet
<1>4. QED
  BY <1>2, <1>3, ErrorRetOk

LEMMA ReadingFacts ==
  ASSUME InputOk, ParserOk(ast, todo, val, at), NEW S, S \subseteq Token, Reading(S)
  PROVE  /\ at \in 1 .. Len(toks) /\ Len(toks) \in Nat /\ Tok(at) \in S /\ Doing("unary")
         /\ at \in Nat \ {0} /\ at + 1 \in at + 1 .. Len(toks) + 1
<1>1. Tok(at) \in S /\ Doing("unary")
  BY DEF Reading
<1>2. at \in 1 .. Len(toks) /\ Len(toks) \in Nat
  BY <1>1, TokFacts
<1>3. QED
  BY <1>1, <1>2

LEMMA LeafReturned ==
  ASSUME InputOk, ParserOk(ast, todo, val, at), Doing("unary"),
         NEW q \in at + 1 .. Len(toks) + 1, NEW e, Return(q, e),
         e.from = at, e.to = q - 1, e.at \in Nat, e.kids = <<>>,
         e.t \in {"num", "var", "call"}, Shape(ast, e)
  PROVE  ParserOk(ast', todo', val', at') /\ Moved
<1>1. /\ Stack(ast, Tail(todo)) /\ FrameOk(ast, Top(Tail(todo)), at)
      /\ Top(Tail(todo)).do \in {"rhs", "operand", "operator"}
      /\ IsSeq(Tail(todo)) /\ at \in Nat \ {0} /\ TreeOk(ast, at) /\ Precedences(ast)
  BY UnaryTop
<1>2. ast' = Append(ast, e) /\ val' = Len(ast) + 1 /\ at' = q /\ todo' = <<>> \o Tail(todo)
  BY DEF Return, MakeAndDo, Make
<1>3. todo' = Tail(todo)
  BY <1>1, <1>2, PushNone
<1>4. Len(toks) \in Nat
  BY TokFacts
<1>5. /\ q \in 1 .. Len(toks) + 1 /\ at <= q /\ e.from \in 1 .. Len(toks) /\ e.to < q
      /\ e.to \in e.from .. Len(toks) /\ at \in Nat
  BY <1>1, <1>4
<1>6. InOrder(ast, e.kids, e.from, e.to)
  BY NoKids
<1>7. \A d \in DOMAIN ast : Covered(ast, d, e.from, e.kids)
  BY <1>1 DEF Covered, TreeOk
<1>8. OperandsOk(ast, e)
  BY DEF OperandsOk
<1>9. ParserOk(Append(ast, e), Tail(todo), Len(ast) + 1, q)
  BY <1>1, <1>5, <1>6, <1>7, <1>8, PrimaryReturned
<1>10. QED
  BY <1>1, <1>2, <1>3, <1>5, <1>9 DEF Moved

LEMMA ParseNumberExprOk ==
  ASSUME InputOk, ParserOk(ast, todo, val, at), ParseNumberExpr
  PROVE  ParserOk(ast', todo', val', at') /\ Moved
<1> DEFINE e == Node("num", Tok(at), <<>>, at, at, at)
<1>1. Reading(Number) /\ Return(at + 1, e)
  BY DEF ParseNumberExpr
<1>2. at \in 1 .. Len(toks) /\ Doing("unary") /\ at + 1 \in at + 1 .. Len(toks) + 1
  <2>1. Number \subseteq Token
    BY WordFacts
  <2>2. QED
    BY <1>1, <2>1, ReadingFacts
<1>3. /\ e.from = at /\ e.to = (at + 1) - 1 /\ e.at \in Nat /\ e.kids = <<>> /\ e.t = "num"
      /\ e.at = at
  BY <1>2 DEF Node
<1> HIDE DEF e
<1>4. Shape(ast, e)
  BY <1>3 DEF Shape
<1>5. QED
  BY <1>1, <1>2, <1>3, <1>4, LeafReturned

LEMMA ParseVariableOk ==
  ASSUME InputOk, ParserOk(ast, todo, val, at), ParseVariable
  PROVE  ParserOk(ast', todo', val', at') /\ Moved
<1> DEFINE e == Node("var", Tok(at), <<>>, at, at, at)
<1>1. Reading(Ident) /\ Return(at + 1, e)
  BY DEF ParseVariable
<1>2. at \in 1 .. Len(toks) /\ Tok(at) \in Ident /\ Doing("unary") /\ at + 1 \in at + 1 .. Len(toks) + 1
  <2>1. Ident \subseteq Token
    BY WordFacts
  <2>2. QED
    BY <1>1, <2>1, ReadingFacts
<1>3. /\ e.from = at /\ e.to = (at + 1) - 1 /\ e.at \in Nat /\ e.kids = <<>> /\ e.t = "var"
      /\ e.at = at /\ e.n = Tok(at)
  BY <1>2 DEF Node
<1> HIDE DEF e
<1>4. Shape(ast, e)
  BY <1>2, <1>3 DEF Shape
<1>5. QED
  BY <1>1, <1>2, <1>3, <1>4, LeafReturned

LEMMA ExpressionAnd ==
  ASSUME NEW t, IsSeq(t), NEW q, NEW f
  PROVE  (ParseExpression(q) \o <<f>>) \o t = Push(Unary(q), Push(BinOpRHS(0, q), Push(f, t)))
<1>1. \A a, b : (<<a, b>> \o <<f>>) \o t = Push(a, Push(b, Push(f, t)))
  BY PushThree
<1>2. ParseExpression(q) = <<Unary(q), BinOpRHS(0, q)>>
  BY DEF ParseExpression
<1>3. QED
  BY <1>1, <1>2, Zenon

(* ParseExpression is called, for a subtree of f.                          *)
LEMMA Calls ==
  ASSUME InputOk, NEW s, NEW q \in 1 .. Len(toks) + 1, TreeOk(s, q), Precedences(s),
         NEW t, Stack(s, t), NEW f, f.do \in Callers, f.do \in Primaries, f.do = "let" => f.init,
         Follows(f, Top(t)), FrameOk(s, Top(t), f.from), FrameOk(s, f, q), NEW v
  PROVE  ParserOk(s, (ParseExpression(q) \o <<f>>) \o t, v, q)
<1> DEFINE r == Push(f, t)
<1>0. Len(toks) \in Nat
  BY TokFacts
<1>1. q \in Nat \ {0} /\ f.from \in Nat /\ IsSeq(t)
  BY <1>0 DEF FrameOk, Stack
<1>2. Stack(s, r) /\ Top(r) = f
  BY <1>1, StackPush
<1> HIDE DEF r
<1>3. LET w == Push(Unary(q), Push(BinOpRHS(0, q), r))
      IN  Stack(s, w) /\ Top(w) = Unary(q) /\ FrameOk(s, Unary(q), q)
  BY <1>1, <1>2, CallExpressionOk
<1>4. (ParseExpression(q) \o <<f>>) \o t = Push(Unary(q), Push(BinOpRHS(0, q), r))
  BY <1>1, ExpressionAnd DEF r
<1> DEFINE w == (ParseExpression(q) \o <<f>>) \o t
<1>5. Stack(s, w) /\ Top(w) = Unary(q) /\ FrameOk(s, Unary(q), q)
  BY <1>3, <1>4
<1> HIDE DEF w
<1>6. ~ Waits(Top(w))
  BY <1>5 DEF Waits, Unary
<1>7. TopOk(s, w, v, q)
  BY <1>5, <1>6 DEF TopOk
<1>8. ParserOk(s, w, v, q)
  BY <1>5, <1>7 DEF ParserOk
<1>9. QED
  BY <1>8 DEF w

LEMMA FirstFrame ==
  ASSUME NEW s, NEW p \in Nat \ {0}, TreeOk(s, p), NEW q \in Nat, p < q,
         NEW f, f.from = p, HasFields(f), SubtreesOf(f) = <<>>,
         f.do \in {"args", "paren", "if", "for", "names"},
         f.do # "paren" => f.kids = <<>>,
         f.do = "for" => f.last = FALSE /\ Tok(p + 1) \in Ident /\ p + 1 < q
  PROVE  FrameOk(s, f, q)
<1>1. FrameKidsOk(s, f, q)
  <2>1. Len(<<>>) = 0 /\ DOMAIN <<>> = {}
    OBVIOUS
  <2>2. CASE f.do = "paren"
    BY <2>2 DEF FrameKidsOk
  <2>3. CASE f.do = "for"
    <3>1. f.kids = <<>> /\ ~ f.last /\ f.last \in BOOLEAN /\ Tok(f.from + 1) \in Ident /\ f.from + 1 < q
      BY <2>3
    <3>2. Len(f.kids) <= 3 /\ Len(f.kids) <= 2
      BY <2>1, <3>1
    <3>3. QED
      BY <2>3, <3>1, <3>2 DEF FrameKidsOk
  <2>4. CASE f.do = "if"
    BY <2>1, <2>4 DEF FrameKidsOk
  <2>5. CASE f.do = "args"
    BY <2>5 DEF FrameKidsOk
  <2>6. CASE f.do = "names"
    BY <2>1, <2>6 DEF FrameKidsOk, AreLets
  <2>7. QED
    BY <2>2, <2>3, <2>4, <2>5, <2>6
<1>2. OperatorOk(s, f, q)
  BY DEF OperatorOk, Operators
<1>3. \A d \in DOMAIN s : s[d].to < p
  BY DEF TreeOk
<1>4. InOrder(s, <<>>, p, q - 1)
  BY NoKids
<1>5. QED
  BY <1>1, <1>2, <1>3, <1>4 DEF FrameOk, Covered

(* The first call of a function for a primary expression.                  *)
LEMMA FirstCall ==
  ASSUME InputOk, ParserOk(ast, todo, val, at), Doing("unary"),
         NEW q \in at + 1 .. Len(toks) + 1, NEW f, Continue(q, ParseExpression(q) \o <<f>>),
         f.from = at, HasFields(f), SubtreesOf(f) = <<>>, f.do \in {"args", "paren", "if", "for"},
         f.do # "paren" => f.kids = <<>>,
         f.do = "for" => f.last = FALSE /\ Tok(at + 1) \in Ident /\ at + 1 < q
  PROVE  ParserOk(ast', todo', val', at') /\ Moved
<1>1. /\ Stack(ast, Tail(todo)) /\ FrameOk(ast, Top(Tail(todo)), at)
      /\ Top(Tail(todo)).do \in {"rhs", "operand", "operator"}
      /\ at \in Nat \ {0} /\ TreeOk(ast, at) /\ Precedences(ast)
  BY UnaryTop
<1>2. Len(toks) \in Nat
  BY TokFacts
<1>3. q \in Nat /\ q \in 1 .. Len(toks) + 1 /\ at < q /\ at <= q /\ at \in Nat
  BY <1>1, <1>2
<1>4. TreeOk(ast, q)
  BY <1>1, <1>3, TreeMoves
<1>5. FrameOk(ast, f, q)
  BY <1>1, <1>3, FirstFrame
<1>6. f.do \in Callers /\ f.do \in Primaries /\ f.do # "let" /\ Follows(f, Top(Tail(todo)))
  BY <1>1 DEF Callers, Primaries, Follows, Operators
<1>7. ParserOk(ast, (ParseExpression(q) \o <<f>>) \o Tail(todo), val, q)
  BY <1>1, <1>3, <1>4, <1>5, <1>6, Calls
<1>8. ast' = ast /\ val' = val /\ at' = q /\ todo' = (ParseExpression(q) \o <<f>>) \o Tail(todo)
  BY DEF Continue
<1>9. QED
  BY <1>3, <1>7, <1>8 DEF Moved

LEMMA OneMore == \A n \in Nat : \A i \in 1 .. n : i + 1 \in 1 .. n + 1
OBVIOUS

(* The place of a token that there is.                                     *)
LEMMA NextPlace ==
  ASSUME InputOk, NEW i \in Nat,
         Tok(i) \in Ident \/ Tok(i) \in {"(", ")", ",", "=", "in", "then", "else"}
  PROVE  i \in 1 .. Len(toks) /\ i + 1 \in 1 .. Len(toks) + 1 /\ Len(toks) \in Nat
<1>1. {"in", "then", "else"} \subseteq Token
  BY DEF Token, Keyword
<1>2. Tok(i) \in Token
  BY <1>1, WordFacts
<1> DEFINE n == Len(toks)
<1>3. i \in 1 .. n /\ n \in Nat
  BY <1>2, TokFacts
<1> HIDE DEF n
<1>4. i + 1 \in 1 .. n + 1
  BY <1>3, OneMore
<1>5. QED
  BY <1>3, <1>4 DEF n

LEMMA ParseCallOk ==
  ASSUME InputOk, ParserOk(ast, todo, val, at), ParseCall
  PROVE  ParserOk(ast', todo', val', at') /\ Moved
<1> DEFINE e == Node("call", Tok(at), <<>>, at, at + 2, at)
           f == [do |-> "args", from |-> at, kids |-> <<>>]
<1>1. Reading(Ident) /\ Tok(at + 1) = "("
  BY DEF ParseCall
<1>2. at \in 1 .. Len(toks) /\ Doing("unary") /\ at \in Nat \ {0} /\ Len(toks) \in Nat
  <2>1. Ident \subseteq Token
    BY WordFacts
  <2>2. QED
    BY <1>1, <2>1, ReadingFacts
<1>3. at + 1 \in 1 .. Len(toks)
  <2>1. at + 1 \in Nat
    BY <1>2
  <2>2. QED
    BY <1>1, <2>1, NextPlace
<1>4. CASE Tok(at + 2) = ")"
  <2>1. at + 2 \in 1 .. Len(toks)
    <3>1. at + 2 \in Nat
      BY <1>2
    <3>2. QED
      BY <1>4, <3>1, NextPlace
  <2>2. at + 3 \in at + 1 .. Len(toks) + 1
    BY <1>2, <2>1
  <2>3. /\ e.from = at /\ e.to = (at + 3) - 1 /\ e.at \in Nat /\ e.kids = <<>> /\ e.t = "call"
    BY <1>2 DEF Node
  <2>4. Return(at + 3, e)
    BY <1>4 DEF ParseCall
  <2> HIDE DEF e
  <2>5. Shape(ast, e)
    BY <2>3 DEF Shape
  <2>6. QED
    BY <1>2, <2>2, <2>3, <2>4, <2>5, LeafReturned
<1>5. CASE Tok(at + 2) # ")"
  <2>1. Continue(at + 2, ParseExpression(at + 2) \o <<f>>)
    BY <1>5 DEF ParseCall
  <2>2. /\ f.from = at /\ HasFields(f) /\ SubtreesOf(f) = <<>> /\ f.do = "args" /\ f.kids = <<>>
    BY DEF HasFields, SubtreesOf
  <2>3. at + 2 \in at + 1 .. Len(toks) + 1
    BY <1>2, <1>3
  <2> HIDE DEF f
  <2>4. QED
    BY <1>2, <2>1, <2>2, <2>3, FirstCall
<1>6. QED
  BY <1>4, <1>5

LEMMA ParseParenExprOk ==
  ASSUME InputOk, ParserOk(ast, todo, val, at), ParseParenExpr
  PROVE  ParserOk(ast', todo', val', at') /\ Moved
<1> DEFINE f == [do |-> "paren", from |-> at]
<1>1. Reading({"("}) /\ Continue(at + 1, ParseExpression(at + 1) \o <<f>>)
  BY DEF ParseParenExpr
<1>2. Doing("unary") /\ at + 1 \in at + 1 .. Len(toks) + 1
  <2>1. {"("} \subseteq Token
    BY WordFacts
  <2>2. QED
    BY <1>1, <2>1, ReadingFacts
<1>3. f.from = at /\ HasFields(f) /\ SubtreesOf(f) = <<>> /\ f.do = "paren"
  BY DEF HasFields, SubtreesOf
<1> HIDE DEF f
<1>4. QED
  BY <1>1, <1>2, <1>3, FirstCall

LEMMA ParseIfExprOk ==
  ASSUME InputOk, ParserOk(ast, todo, val, at), ParseIfExpr
  PROVE  ParserOk(ast', todo', val', at') /\ Moved
<1> DEFINE f == [do |-> "if", from |-> at, kids |-> <<>>]
<1>1. Reading({"if"}) /\ Continue(at + 1, ParseExpression(at + 1) \o <<f>>)
  BY DEF ParseIfExpr
<1>2. Doing("unary") /\ at + 1 \in at + 1 .. Len(toks) + 1
  <2>1. {"if"} \subseteq Token
    BY DEF Token, Keyword
  <2>2. QED
    BY <1>1, <2>1, ReadingFacts
<1>3. f.from = at /\ HasFields(f) /\ SubtreesOf(f) = <<>> /\ f.do = "if" /\ f.kids = <<>>
  BY DEF HasFields, SubtreesOf
<1> HIDE DEF f
<1>4. QED
  BY <1>1, <1>2, <1>3, FirstCall

LEMMA ParseForExprOk ==
  ASSUME InputOk, ParserOk(ast, todo, val, at), ParseForExpr
  PROVE  ParserOk(ast', todo', val', at') /\ Moved
<1> DEFINE f == [do |-> "for", from |-> at, kids |-> <<>>, last |-> FALSE]
<1>1. Reading({"for"})
  BY DEF ParseForExpr
<1>2. Doing("unary") /\ at \in Nat \ {0} /\ at \in 1 .. Len(toks) /\ Len(toks) \in Nat
  <2>1. {"for"} \subseteq Token
    BY DEF Token, Keyword
  <2>2. QED
    BY <1>1, <2>1, ReadingFacts
<1>3. CASE Tok(at + 1) \notin Ident
  <2>1. ErrorRet(at + 1) /\ at + 1 \in at .. Len(toks) + 1
    BY <1>2, <1>3 DEF ParseForExpr
  <2>2. QED
    BY <2>1, ErrorRetOk
<1>4. CASE Tok(at + 1) \in Ident
  <2>1. at + 1 \in 1 .. Len(toks)
    <3>1. at + 1 \in Nat
      BY <1>2
    <3>2. QED
      BY <1>4, <3>1, NextPlace
  <2>2. CASE Tok(at + 2) # "="
    <3>1. ErrorRet(at + 2) /\ at + 2 \in at .. Len(toks) + 1
      BY <1>2, <1>4, <2>1, <2>2 DEF ParseForExpr
    <3>2. QED
      BY <3>1, ErrorRetOk
  <2>3. CASE Tok(at + 2) = "="
    <3>1. at + 2 \in 1 .. Len(toks)
      <4>1. at + 2 \in Nat
        BY <1>2
      <4>2. QED
        BY <2>3, <4>1, NextPlace
    <3>2. at + 3 \in at + 1 .. Len(toks) + 1 /\ at + 1 < at + 3
      BY <1>2, <3>1
    <3>3. Continue(at + 3, ParseExpression(at + 3) \o <<f>>)
      BY <1>4, <2>3 DEF ParseForExpr
    <3>4. /\ f.from = at /\ HasFields(f) /\ SubtreesOf(f) = <<>> /\ f.do = "for" /\ f.kids = <<>>
          /\ f.last = FALSE
      BY DEF HasFields, SubtreesOf
    <3> HIDE DEF f
    <3>5. QED
      BY <1>2, <1>4, <3>2, <3>3, <3>4, FirstCall
  <2>4. QED
    BY <2>2, <2>3
<1>5. QED
  BY <1>3, <1>4

-----------------------------------------------------------------------------
(* The frame at the top has its value.                                     *)
LEMMA AddedFrame ==
  ASSUME NEW s, NEW p \in Nat, TreeOk(s, p), NEW f, NEW i, FrameOk(s, f, i), i <= p,
         NEW v, ValueOk(s, v, i), NEW q \in Nat, p <= q,
         NEW g, g.do = f.do, f.do \in {"args", "if", "for"}, g.from = f.from,
         g.kids = Append(f.kids, v), HasFields(g), FrameKidsOk(s, g, q)
  PROVE  FrameOk(s, g, q)
<1>1. SubtreesOf(f) = f.kids /\ SubtreesOf(g) = g.kids
  BY DEF SubtreesOf
<1>2. /\ InOrder(s, g.kids, f.from, p - 1)
      /\ \A d \in DOMAIN s : Covered(s, d, f.from, g.kids)
  BY <1>1, AddSubtree
<1>3. \A k \in DOMAIN s : s[k].to \in Int
  BY PlacesOk
<1>4. InOrder(s, g.kids, f.from, q - 1)
  <2>1. p - 1 \in Int /\ q - 1 \in Int /\ p - 1 <= q - 1
    OBVIOUS
  <2>2. QED
    BY <1>2, <1>3, <2>1, OrderWiden
<1>5. f.from \in Nat \ {0} /\ f.from < i /\ i \in Nat
  BY DEF FrameOk
<1>6. g.from < q /\ g.from <= q
  BY <1>5
<1>7. OperatorOk(s, g, q)
  BY DEF OperatorOk, Operators
<1>8. g.do \notin {"unary", "rhs", "function", "operator"}
  OBVIOUS
<1>9. QED
  BY <1>1, <1>2, <1>4, <1>5, <1>6, <1>7, <1>8 DEF FrameOk

LEMMA CallAgain ==
  ASSUME InputOk, ParserOk(ast, todo, val, at), todo # <<>>, Frame.do \in {"args", "if", "for"},
         at + 1 \in 1 .. Len(toks) + 1,
         NEW g, Continue(at + 1, ParseExpression(at + 1) \o <<g>>),
         g.do = Frame.do, g.from = Frame.from, g.kids = Append(Frame.kids, val), HasFields(g),
         \A i \in 1 .. at - 1 : FrameOk(ast, Frame, i) /\ ValueOk(ast, val, i)
                                  => FrameKidsOk(ast, g, at + 1)
  PROVE  ParserOk(ast', todo', val', at') /\ at <= at'
<1> DEFINE f == Frame
           t == Tail(todo)
           q == at + 1
<1>1. Waits(f)
  BY DEF Waits
<1>2. /\ \E i \in 1 .. at - 1 : FrameOk(ast, f, i) /\ ValueOk(ast, val, i)
      /\ Stack(ast, t) /\ FrameOk(ast, Top(t), f.from) /\ Follows(f, Top(t))
      /\ at \in Nat \ {0} /\ TreeOk(ast, at) /\ Precedences(ast)
  BY <1>1, WaitingTop
<1>3. PICK i \in 1 .. at - 1 : FrameOk(ast, f, i) /\ ValueOk(ast, val, i)
  BY <1>2
<1>4. FrameKidsOk(ast, g, q)
  BY <1>3
<1>5. ast' = ast /\ val' = val /\ at' = q /\ todo' = (ParseExpression(q) \o <<g>>) \o t
  BY DEF Continue
<1>6. q \in Nat /\ at \in Nat /\ at <= q /\ i <= at /\ q \in 1 .. Len(toks) + 1
  BY <1>2
<1> HIDE DEF f, t, q
<1>7. FrameOk(ast, g, q)
  BY <1>2, <1>3, <1>4, <1>6, AddedFrame DEF f
<1>8. TreeOk(ast, q)
  BY <1>2, <1>6, TreeMoves
<1>9. g.do \in Callers /\ g.do \in Primaries /\ g.do # "let" /\ Follows(g, Top(t))
  BY <1>2 DEF Callers, Primaries, Follows, Operators, f
<1>10. FrameOk(ast, Top(t), g.from)
  BY <1>2 DEF f
<1>11. ParserOk(ast, (ParseExpression(q) \o <<g>>) \o t, val, q)
  BY <1>2, <1>6, <1>7, <1>8, <1>9, <1>10, Calls
<1>12. QED
  BY <1>5, <1>6, <1>11

LEMMA NodeReturned ==
  ASSUME InputOk, ParserOk(ast, todo, val, at), todo # <<>>, Waits(Frame), Frame.do \in Primaries,
         NEW q \in at .. Len(toks) + 1, NEW e, Return(q, e),
         e.from = Frame.from, e.to = q - 1, e.kids = Append(SubtreesOf(Frame), val), e.at \in Nat,
         e.t \notin {"let", "binary"},
         \A i \in 1 .. at - 1 :
           FrameOk(ast, Frame, i) /\ ValueOk(ast, val, i) /\ Bare(ast, Frame, val, i, at) =>
             /\ Shape(ast, e) /\ OperandsOk(ast, e)
             /\ e.t \in {"if", "for", "varin"} => GetTokPrecedence(q) = -1
  PROVE  ParserOk(ast', todo', val', at') /\ at <= at'
<1> DEFINE f == Frame
           t == Tail(todo)
<1>1. /\ \E i \in 1 .. at - 1 : FrameOk(ast, f, i) /\ ValueOk(ast, val, i) /\ Bare(ast, f, val, i, at)
      /\ Stack(ast, t) /\ FrameOk(ast, Top(t), f.from) /\ Follows(f, Top(t)) /\ IsSeq(t)
      /\ at \in Nat \ {0} /\ TreeOk(ast, at) /\ Precedences(ast)
  BY WaitingTop
<1>2. PICK i \in 1 .. at - 1 : /\ FrameOk(ast, f, i) /\ ValueOk(ast, val, i)
                               /\ Bare(ast, f, val, i, at)
  BY <1>1
<1>3. /\ Shape(ast, e) /\ OperandsOk(ast, e)
      /\ e.t \in {"if", "for", "varin"} => GetTokPrecedence(q) = -1
  BY <1>2
<1>4. ast' = Append(ast, e) /\ val' = Len(ast) + 1 /\ at' = q /\ todo' = <<>> \o t
  BY DEF Return, MakeAndDo, Make
<1>5. todo' = t
  BY <1>1, <1>4, PushNone
<1>6. Len(toks) \in Nat
  BY TokFacts
<1>7. f.from \in Nat \ {0} /\ f.from <= i
  BY <1>2 DEF FrameOk
<1> HIDE DEF t
<1>8. /\ at \in Nat /\ q \in Nat /\ at <= q /\ q \in 1 .. Len(toks) + 1
      /\ e.from \in 1 .. Len(toks) /\ e.to \in e.from .. Len(toks) /\ e.to < q
  BY <1>1, <1>2, <1>6, <1>7
<1>9. /\ InOrder(ast, e.kids, f.from, at - 1)
      /\ \A d \in DOMAIN ast : Covered(ast, d, f.from, e.kids)
  BY <1>1, <1>2, <1>8, AddSubtree
<1>10. InOrder(ast, e.kids, e.from, e.to)
  <2>1. \A k \in DOMAIN ast : ast[k].to \in Int
    BY <1>1, PlacesOk
  <2>2. at - 1 \in Int /\ q - 1 \in Int /\ at - 1 <= q - 1
    BY <1>8
  <2>3. QED
    BY <1>9, <2>1, <2>2, OrderWiden
<1>11. Top(t).do \in {"rhs", "operand", "operator"}
  BY <1>1 DEF Follows
<1>12. FrameOk(ast, Top(t), e.from) /\ \A d \in DOMAIN ast : Covered(ast, d, e.from, e.kids)
  BY <1>1, <1>9
<1>13. e.to = q - 1 /\ e.t \in {"if", "for", "varin"} => GetTokPrecedence(q) = -1
  BY <1>3
<1>14. ParserOk(Append(ast, e), t, Len(ast) + 1, q)
  BY <1>1, <1>3, <1>8, <1>10, <1>11, <1>12, <1>13, PrimaryReturned
<1>15. QED
  BY <1>4, <1>5, <1>8, <1>14

LEMMA DoingFacts ==
  ASSUME NEW what, Doing(what)
  PROVE  todo # <<>> /\ Frame.do = what
BY DEF Doing, Frame

LEMMA MoreArgsOk ==
  ASSUME InputOk, ParserOk(ast, todo, val, at), MoreArgs
  PROVE  ParserOk(ast', todo', val', at') /\ at <= at'
<1> DEFINE kids == Append(Frame.kids, val)
           e == Node("call", Tok(Frame.from), kids, Frame.from, at, Frame.from)
           g == [Frame EXCEPT !.kids = kids]
<1>1. /\ Doing("args")
      /\ CASE Tok(at) = ")" -> Return(at + 1, e)
           [] Tok(at) = "," -> Continue(at + 1, ParseExpression(at + 1) \o <<g>>)
           [] OTHER -> ErrorRet(at)
  BY DEF MoreArgs
<1>2. todo # <<>> /\ Frame.do = "args"
  BY <1>1, DoingFacts
<1>3. Waits(Frame) /\ Frame.do \in Primaries /\ SubtreesOf(Frame) = Frame.kids
  BY <1>2 DEF Waits, Primaries, SubtreesOf
<1>4. /\ at \in Nat \ {0} /\ at \in 1 .. Len(toks) + 1
      /\ \E i \in 1 .. at - 1 : FrameOk(ast, Frame, i)
  <2>1. at \in 1 .. Len(toks) + 1
    BY DEF ParserOk
  <2>2. QED
    BY <1>2, <1>3, <2>1, WaitingTop
<1>5. HasFields(Frame) /\ Frame.from \in Nat
  BY <1>4 DEF FrameOk
<1>6. CASE Tok(at) = ")"
  <2>1. Return(at + 1, e)
    BY <1>1, <1>6
  <2>2. at + 1 \in 1 .. Len(toks) + 1 /\ Len(toks) \in Nat
    BY <1>4, <1>6, NextPlace
  <2>3. at + 1 \in at .. Len(toks) + 1
    BY <1>4, <2>2
  <2>4. /\ e.from = Frame.from /\ e.to = (at + 1) - 1 /\ e.kids = kids /\ e.at \in Nat /\ e.t = "call"
    BY <1>4, <1>5 DEF Node
  <2> HIDE DEF e
  <2>5. Shape(ast, e) /\ OperandsOk(ast, e)
    BY <2>4 DEF Shape, OperandsOk
  <2>6. QED
    BY <1>2, <1>3, <2>1, <2>3, <2>4, <2>5, NodeReturned
<1>7. CASE Tok(at) = ","
  <2>1. Continue(at + 1, ParseExpression(at + 1) \o <<g>>)
    BY <1>1, <1>7
  <2>2. at + 1 \in 1 .. Len(toks) + 1
    BY <1>4, <1>7, NextPlace
  <2>3. Frame = [do |-> "args", from |-> Frame.from, kids |-> Frame.kids]
    BY <1>2, <1>5 DEF HasFields
  <2>4. g = [do |-> "args", from |-> Frame.from, kids |-> kids]
    BY <2>3
  <2>5. g.do = "args" /\ g.from = Frame.from /\ g.kids = kids
    BY <2>4
  <2>6. HasFields(g)
    BY <2>4 DEF HasFields
  <2> HIDE DEF g
  <2>7. FrameKidsOk(ast, g, at + 1)
    BY <2>5 DEF FrameKidsOk
  <2>8. QED
    BY <1>2, <2>1, <2>2, <2>5, <2>6, <2>7, CallAgain
<1>8. CASE Tok(at) \notin {")", ","}
  <2>1. ErrorRet(at)
    BY <1>1, <1>8
  <2>2. QED
    BY <2>1, ErrorHere
<1>9. QED
  BY <1>6, <1>7, <1>8

LEMMA IfPartOk ==
  ASSUME InputOk, ParserOk(ast, todo, val, at), IfPart
  PROVE  ParserOk(ast', todo', val', at') /\ at <= at'
<1> DEFINE kids == Append(Frame.kids, val)
           word == IF Len(kids) = 1 THEN "then" ELSE "else"
           e == Node("if", "", kids, Frame.from, at - 1, Frame.from)
           g == [Frame EXCEPT !.kids = kids]
<1>1. /\ Doing("if")
      /\ IF Len(kids) = 3 THEN Return(at, e)
         ELSE IF Tok(at) # word THEN ErrorRet(at)
         ELSE Continue(at + 1, ParseExpression(at + 1) \o <<g>>)
  BY DEF IfPart
<1>2. todo # <<>> /\ Frame.do = "if"
  BY <1>1, DoingFacts
<1>3. Waits(Frame) /\ Frame.do \in Primaries /\ SubtreesOf(Frame) = Frame.kids
  BY <1>2 DEF Waits, Primaries, SubtreesOf
<1>4. /\ at \in Nat \ {0} /\ at \in 1 .. Len(toks) + 1
      /\ \E i \in 1 .. at - 1 : FrameOk(ast, Frame, i)
  <2>1. at \in 1 .. Len(toks) + 1
    BY DEF ParserOk
  <2>2. QED
    BY <1>2, <1>3, <2>1, WaitingTop
<1>5. HasFields(Frame) /\ Frame.from \in Nat /\ Len(Frame.kids) <= 2 /\ Frame.kids \in Seq(DOMAIN ast)
  BY <1>2, <1>3, <1>4 DEF FrameOk, FrameKidsOk, InOrder
<1>6. Len(kids) <= 3 /\ Len(kids) \in Nat
  <2> DEFINE S == DOMAIN ast \cup {val}
  <2>1. Frame.kids \in Seq(S)
    BY <1>5
  <2>2. QED
    BY <1>5, <2>1
<1>7. CASE Len(kids) = 3
  <2>1. Return(at, e)
    BY <1>1, <1>7
  <2>2. /\ e.from = Frame.from /\ e.to = at - 1 /\ e.kids = kids /\ e.at \in Nat /\ e.t = "if"
    BY <1>5 DEF Node
  <2> HIDE DEF e
  <2>3. Shape(ast, e) /\ OperandsOk(ast, e)
    BY <1>7, <2>2 DEF Shape, OperandsOk
  <2>4. at \in at .. Len(toks) + 1
    BY <1>4, TokFacts
  <2>5. \A i : Bare(ast, Frame, val, i, at) => GetTokPrecedence(at) = -1
    BY <1>2 DEF Bare, Callers
  <2> HIDE DEF kids
  <2>6. QED
    BY <1>2, <1>3, <2>1, <2>2, <2>3, <2>4, <2>5, NodeReturned DEF kids
<1>8. CASE Len(kids) # 3 /\ Tok(at) = word
  <2>1. Continue(at + 1, ParseExpression(at + 1) \o <<g>>)
    BY <1>1, <1>8
  <2>2. at + 1 \in 1 .. Len(toks) + 1
    BY <1>4, <1>8, NextPlace
  <2>3. Frame = [do |-> "if", from |-> Frame.from, kids |-> Frame.kids]
    BY <1>2, <1>5 DEF HasFields
  <2>4. g = [do |-> "if", from |-> Frame.from, kids |-> kids]
    BY <2>3
  <2>5. g.do = "if" /\ g.from = Frame.from /\ g.kids = kids
    BY <2>4
  <2>6. HasFields(g)
    BY <2>4 DEF HasFields
  <2> HIDE DEF g
  <2>7. FrameKidsOk(ast, g, at + 1)
    BY <1>6, <1>8, <2>5 DEF FrameKidsOk
  <2> HIDE DEF kids
  <2>8. QED
    BY <1>2, <2>1, <2>2, <2>5, <2>6, <2>7, CallAgain DEF kids
<1>9. CASE Len(kids) # 3 /\ Tok(at) # word
  <2>1. ErrorRet(at)
    BY <1>1, <1>9
  <2>2. QED
    BY <2>1, ErrorHere
<1>10. QED
  BY <1>7, <1>8, <1>9

LEMMA ForPartOk ==
  ASSUME InputOk, ParserOk(ast, todo, val, at), ForPart
  PROVE  ParserOk(ast', todo', val', at') /\ at <= at'
<1> DEFINE kids == Append(Frame.kids, val)
           words == IF Len(kids) = 1 THEN {","} ELSE IF Len(kids) = 2 THEN {",", "in"} ELSE {"in"}
           e == Node("for", Tok(Frame.from + 1), kids, Frame.from, at - 1, Frame.from + 1)
           g == [do |-> "for", from |-> Frame.from, kids |-> kids, last |-> (Tok(at) = "in")]
<1>1. /\ Doing("for")
      /\ IF Frame.last THEN Return(at, e)
         ELSE IF Tok(at) \notin words THEN ErrorRet(at)
         ELSE Continue(at + 1, ParseExpression(at + 1) \o <<g>>)
  BY DEF ForPart
<1>2. todo # <<>> /\ Frame.do = "for"
  BY <1>1, DoingFacts
<1>3. Waits(Frame) /\ Frame.do \in Primaries /\ SubtreesOf(Frame) = Frame.kids
  BY <1>2 DEF Waits, Primaries, SubtreesOf
<1>4. /\ at \in Nat \ {0} /\ at \in 1 .. Len(toks) + 1
      /\ \E i \in 1 .. at - 1 : FrameOk(ast, Frame, i)
  <2>1. at \in 1 .. Len(toks) + 1
    BY DEF ParserOk
  <2>2. QED
    BY <1>2, <1>3, <2>1, WaitingTop
<1>5. /\ HasFields(Frame) /\ Frame.from \in Nat /\ Frame.kids \in Seq(DOMAIN ast)
      /\ FrameKidsOk(ast, Frame, at - 1) \/ Len(Frame.kids) <= 3
      /\ Len(Frame.kids) <= 3 /\ Frame.last \in BOOLEAN /\ Tok(Frame.from + 1) \in Ident
      /\ IF Frame.last THEN Len(Frame.kids) >= 2 ELSE Len(Frame.kids) <= 2
  BY <1>2, <1>3, <1>4 DEF FrameOk, FrameKidsOk, InOrder
<1>6. /\ Len(kids) = Len(Frame.kids) + 1 /\ Len(Frame.kids) \in Nat
      /\ Frame.kids = <<>> => kids[1] = val
      /\ Frame.kids # <<>> => kids[1] = Frame.kids[1]
  <2> DEFINE S == DOMAIN ast \cup {val}
  <2>1. Frame.kids \in Seq(S)
    BY <1>5
  <2>2. QED
    BY <1>5, <2>1
<1>7. ASSUME NEW i \in 1 .. at - 1, FrameOk(ast, Frame, i), ValueOk(ast, val, i)
      PROVE  Frame.from + 1 < ast[kids[1]].from /\ Frame.from + 1 < i
  <2>1. FrameKidsOk(ast, Frame, i) /\ i <= ast[val].from /\ val \in DOMAIN ast
    BY <1>7 DEF FrameOk, ValueOk
  <2>2. Frame.from + 1 < i /\ (Frame.kids # <<>> => Frame.from + 1 < ast[Frame.kids[1]].from)
    BY <1>2, <2>1 DEF FrameKidsOk
  <2>3. ast[val].from \in Nat
    <3>1. TreeOk(ast, at)
      BY DEF ParserOk
    <3>2. QED
      BY <2>1, <3>1, PlacesOk
  <2>4. QED
    BY <1>5, <1>6, <2>1, <2>2, <2>3
<1>8. CASE Frame.last
  <2>1. Return(at, e)
    BY <1>1, <1>8
  <2>2. /\ e.from = Frame.from /\ e.to = at - 1 /\ e.kids = kids /\ e.at = Frame.from + 1 /\ e.t = "for"
        /\ e.n = Tok(Frame.from + 1) /\ e.at \in Nat
    BY <1>5 DEF Node
  <2> HIDE DEF e
  <2>3. Len(kids) \in {3, 4}
    BY <1>5, <1>6, <1>8
  <2> HIDE DEF kids
  <2>4. \A i \in 1 .. at - 1 : FrameOk(ast, Frame, i) /\ ValueOk(ast, val, i) => Shape(ast, e)
    BY <1>5, <1>7, <2>2, <2>3 DEF Shape
  <2>5. OperandsOk(ast, e)
    BY <2>2 DEF OperandsOk
  <2>6. at \in at .. Len(toks) + 1
    BY <1>4, TokFacts
  <2>7. \A i : Bare(ast, Frame, val, i, at) => GetTokPrecedence(at) = -1
    BY <1>2 DEF Bare, Callers
  <2>8. e.kids = Append(SubtreesOf(Frame), val)
    BY <1>3, <2>2 DEF kids
  <2>9. QED
    BY <1>2, <1>3, <2>1, <2>2, <2>4, <2>5, <2>6, <2>7, <2>8, NodeReturned
<1>9. CASE ~ Frame.last /\ Tok(at) \in words
  <2>1. Continue(at + 1, ParseExpression(at + 1) \o <<g>>)
    BY <1>1, <1>9
  <2>2. at + 1 \in 1 .. Len(toks) + 1 /\ at + 1 \in Nat /\ at < at + 1
    <3>1. Tok(at) \in {",", "in"}
      BY <1>9
    <3>2. at + 1 \in 1 .. Len(toks) + 1
      BY <1>4, <3>1, NextPlace
    <3>3. QED
      BY <1>4, <3>2
  <2>3. g.do = "for" /\ g.from = Frame.from /\ g.kids = kids /\ g.last = (Tok(at) = "in")
    OBVIOUS
  <2>4. g = [do |-> g.do, from |-> g.from, kids |-> g.kids, last |-> g.last]
    OBVIOUS
  <2> HIDE DEF g
  <2>6. HasFields(g)
    BY <2>3, <2>4 DEF HasFields
  <2> DEFINE m == Len(Frame.kids)
             n == Len(kids)
  <2>5. n = m + 1 /\ m \in 0 .. 2
    <3>1. m \in Nat /\ m <= 2
      BY <1>5, <1>6, <1>9
    <3>2. n = m + 1
      BY <1>6
    <3> HIDE DEF m, n
    <3>3. QED
      BY <3>1, <3>2
  <2>7. /\ n <= 3 /\ g.last \in BOOLEAN
        /\ IF g.last THEN n >= 2 ELSE n <= 2
    <3>1. n = 1 => Tok(at) # "in"
      BY <1>9
    <3>2. n = 3 => Tok(at) = "in"
      BY <1>9
    <3> HIDE DEF m, n, kids
    <3>3. g.last \in BOOLEAN /\ (g.last <=> Tok(at) = "in")
      BY <2>3
    <3>4. n \in 1 .. 3
      BY <2>5
    <3>5. QED
      BY <3>1, <3>2, <3>3, <3>4
  <2> HIDE DEF g, kids
  <2>8. \A i \in 1 .. at - 1 : FrameOk(ast, Frame, i) /\ ValueOk(ast, val, i) => FrameKidsOk(ast, g, at + 1)
    <3> SUFFICES ASSUME NEW i \in 1 .. at - 1, FrameOk(ast, Frame, i), ValueOk(ast, val, i)
                 PROVE  FrameKidsOk(ast, g, at + 1)
      OBVIOUS
    <3>1. Frame.from + 1 < ast[kids[1]].from /\ Frame.from + 1 < at + 1
      BY <1>4, <1>5, <1>7
    <3>2. QED
      BY <1>5, <2>3, <2>7, <3>1 DEF FrameKidsOk
  <2>9. QED
    BY <1>2, <2>1, <2>2, <2>3, <2>6, <2>8, CallAgain DEF kids
<1>10. CASE ~ Frame.last /\ Tok(at) \notin words
  <2>1. ErrorRet(at)
    BY <1>1, <1>10
  <2>2. QED
    BY <2>1, ErrorHere
<1>11. QED
  BY <1>5, <1>8, <1>9, <1>10

LEMMA UnaryOperatorOk ==
  ASSUME InputOk, ParserOk(ast, todo, val, at), UnaryOperator
  PROVE  ParserOk(ast', todo', val', at') /\ at <= at'
<1> DEFINE kids == Append(Frame.kids, val)
           e == Node("unary", Tok(Frame.from), kids, Frame.from, at - 1, Frame.from)
<1>1. Doing("operator") /\ Return(at, e)
  BY DEF UnaryOperator
<1>2. todo # <<>> /\ Frame.do = "operator"
  BY <1>1, DoingFacts
<1>3. Waits(Frame) /\ Frame.do \in Primaries /\ SubtreesOf(Frame) = Frame.kids
  BY <1>2 DEF Waits, Primaries, SubtreesOf
<1>4. /\ at \in Nat \ {0} /\ at \in 1 .. Len(toks) + 1
      /\ \E i \in 1 .. at - 1 : FrameOk(ast, Frame, i)
  <2>1. at \in 1 .. Len(toks) + 1
    BY DEF ParserOk
  <2>2. QED
    BY <1>2, <1>3, <2>1, WaitingTop
<1>5. Frame.from \in Nat /\ Frame.kids = <<>>
  BY <1>2, <1>4 DEF FrameOk, FrameKidsOk
<1>6. /\ e.from = Frame.from /\ e.to = at - 1 /\ e.kids = kids /\ e.at = Frame.from /\ e.t = "unary"
  BY DEF Node
<1> HIDE DEF e
<1>7. Len(kids) = 1 /\ kids[1] = val
  BY <1>5
<1> HIDE DEF kids
<1>8. Shape(ast, e)
  BY <1>6, <1>7 DEF Shape
<1>9. \A i \in 1 .. at - 1 : FrameOk(ast, Frame, i) /\ Bare(ast, Frame, val, i, at) => OperandsOk(ast, e)
  <2> SUFFICES ASSUME NEW i \in 1 .. at - 1, FrameOk(ast, Frame, i), Bare(ast, Frame, val, i, at)
               PROVE  OperandsOk(ast, e)
    OBVIOUS
  <2>1. i = Frame.from + 1
    BY <1>2 DEF FrameOk
  <2>2. ast[val].t = "binary" => i < ast[val].from
    BY <1>2 DEF Bare
  <2>3. ast[val].from = i => ast[val].t # "binary"
    BY <2>2
  <2>4. QED
    BY <1>6, <1>7, <2>1, <2>3 DEF OperandsOk
<1>10. at \in at .. Len(toks) + 1
  BY <1>4, TokFacts
<1>11. e.kids = Append(SubtreesOf(Frame), val)
  BY <1>3, <1>6 DEF kids
<1>12. QED
  BY <1>1, <1>2, <1>3, <1>5, <1>6, <1>8, <1>9, <1>10, <1>11, NodeReturned

LEMMA ParseVarBodyOk ==
  ASSUME InputOk, ParserOk(ast, todo, val, at), ParseVarBody
  PROVE  ParserOk(ast', todo', val', at') /\ at <= at'
<1> DEFINE kids == Append(Frame.kids, val)
           e == Node("varin", "", kids, Frame.from, at - 1, Frame.from)
<1>1. Doing("body") /\ Return(at, e)
  BY DEF ParseVarBody
<1>2. todo # <<>> /\ Frame.do = "body"
  BY <1>1, DoingFacts
<1>3. Waits(Frame) /\ Frame.do \in Primaries /\ SubtreesOf(Frame) = Frame.kids
  BY <1>2 DEF Waits, Primaries, SubtreesOf
<1>4. /\ at \in Nat \ {0} /\ at \in 1 .. Len(toks) + 1
      /\ \E i \in 1 .. at - 1 : FrameOk(ast, Frame, i)
  <2>1. at \in 1 .. Len(toks) + 1
    BY DEF ParserOk
  <2>2. QED
    BY <1>2, <1>3, <2>1, WaitingTop
<1>5. Frame.from \in Nat /\ AreLets(ast, Frame.kids) /\ Frame.kids \in Seq(DOMAIN ast)
  BY <1>2, <1>3, <1>4 DEF FrameOk, FrameKidsOk, InOrder
<1>6. /\ e.from = Frame.from /\ e.to = at - 1 /\ e.kids = kids /\ e.at = Frame.from /\ e.t = "varin"
  BY DEF Node
<1> HIDE DEF e
<1>7. /\ Len(kids) = Len(Frame.kids) + 1 /\ Len(Frame.kids) \in Nat /\ DOMAIN Frame.kids = 1 .. Len(Frame.kids)
      /\ \A j \in DOMAIN Frame.kids : kids[j] = Frame.kids[j]
  <2> DEFINE S == DOMAIN ast \cup {val}
  <2>1. Frame.kids \in Seq(S)
    BY <1>5
  <2>2. QED
    BY <1>5, <2>1
<1> HIDE DEF kids
<1>8. Len(kids) >= 1 /\ \A j \in 1 .. Len(kids) - 1 : ast[kids[j]].t = "let"
  BY <1>5, <1>7 DEF AreLets
<1>9. Shape(ast, e) /\ OperandsOk(ast, e)
  BY <1>6, <1>8 DEF Shape, OperandsOk
<1>10. at \in at .. Len(toks) + 1
  BY <1>4, TokFacts
<1>11. e.kids = Append(SubtreesOf(Frame), val)
  BY <1>3, <1>6 DEF kids
<1>12. \A i : Bare(ast, Frame, val, i, at) => GetTokPrecedence(at) = -1
  BY <1>2 DEF Bare, Callers
<1>13. QED
  BY <1>1, <1>2, <1>3, <1>5, <1>6, <1>9, <1>10, <1>11, <1>12, NodeReturned

LEMMA CloseParenOk ==
  ASSUME InputOk, ParserOk(ast, todo, val, at), CloseParen
  PROVE  ParserOk(ast', todo', val', at') /\ at <= at'
<1> DEFINE f == Frame
           t == Tail(todo)
<1>1. Doing("paren") /\ IF Tok(at) = ")" THEN Continue(at + 1, <<>>) ELSE ErrorRet(at)
  BY DEF CloseParen
<1>2. todo # <<>> /\ f.do = "paren" /\ Waits(f)
  BY <1>1, DoingFacts DEF Waits
<1>3. /\ \E i \in 1 .. at - 1 : FrameOk(ast, f, i) /\ ValueOk(ast, val, i)
      /\ Stack(ast, t) /\ FrameOk(ast, Top(t), f.from) /\ Follows(f, Top(t)) /\ IsSeq(t)
      /\ at \in Nat \ {0} /\ TreeOk(ast, at) /\ Precedences(ast)
  BY <1>2, WaitingTop
<1>4. CASE Tok(at) = ")"
  <2>1. PICK i \in 1 .. at - 1 : FrameOk(ast, f, i) /\ ValueOk(ast, val, i)
    BY <1>3
  <2>2. at' = at + 1 /\ todo' = t /\ ast' = ast /\ val' = val
    BY <1>1, <1>3, <1>4, PushNone DEF Continue
  <2>3. at + 1 \in 1 .. Len(toks) + 1 /\ at \in Nat /\ at <= at + 1
    <3>1. at \in Nat /\ at <= at + 1
      BY <1>3
    <3>2. QED
      BY <1>4, <3>1, NextPlace
  <2>4. TreeOk(ast, at + 1)
    BY <1>3, <2>3, TreeMoves
  <2>5. /\ f.from \in Nat \ {0} /\ f.from < i /\ i \in Nat
        /\ \A d \in DOMAIN ast : ast[d].to < f.from \/ i <= ast[d].from
    BY <1>2, <2>1 DEF FrameOk, SubtreesOf, Covered
  <2>6. \A d \in DOMAIN ast : ast[d].from \in Nat /\ ast[d].to \in Nat /\ ast[d].from <= ast[d].to /\ ast[d].to < at
    BY <1>3, PlacesOk
  <2>7. val \in DOMAIN ast /\ ast[val].t # "let" /\ i <= ast[val].from /\ f.from < ast[val].from
    BY <2>1, <2>5, <2>6 DEF ValueOk
  <2>8. ValueOk(ast, val, f.from)
    <3>1. ASSUME NEW d \in DOMAIN ast PROVE ast[d].from < f.from \/ Inside(ast, d, val)
      <4>1. CASE ast[d].to < f.from
        BY <2>5, <2>6, <4>1
      <4>2. CASE i <= ast[d].from
        <5>1. ~ (ast[d].from < i)
          BY <2>5, <2>6, <4>2
        <5>2. QED
          BY <2>1, <5>1 DEF ValueOk
      <4>3. QED
        BY <2>5, <4>1, <4>2
    <3>2. f.from <= ast[val].from
      BY <2>5, <2>6, <2>7
    <3>3. QED
      BY <2>7, <3>1, <3>2 DEF ValueOk
  <2>9. Top(t).do \in {"rhs", "operand", "operator"}
    BY <1>2, <1>3 DEF Follows, Primaries
  <2>10. Bare(ast, Top(t), val, f.from, at + 1)
    <3>1. ast[val].to < (at + 1) - 1 /\ f.from # ast[val].from
      BY <1>3, <2>5, <2>6, <2>7
    <3>2. ast[val].to # (at + 1) - 1
      BY <2>6, <2>7, <3>1
    <3>3. Top(t).do \notin Callers /\ Top(t).do # "merge"
      BY <2>9 DEF Callers
    <3>4. QED
      BY <2>7, <3>1, <3>2, <3>3 DEF Bare
  <2>11. f.from \in 1 .. (at + 1) - 1 /\ Waits(Top(t))
    BY <1>3, <2>1, <2>5, <2>9 DEF Waits
  <2>12. TopOk(ast, t, val, at + 1)
    BY <1>3, <2>8, <2>10, <2>11 DEF TopOk
  <2>13. QED
    BY <1>3, <2>2, <2>3, <2>4, <2>12 DEF ParserOk
<1>5. CASE Tok(at) # ")"
  BY <1>1, <1>5, ErrorHere
<1>6. QED
  BY <1>4, <1>5

LEMMA ParseVarExprOk ==
  ASSUME InputOk, ParserOk(ast, todo, val, at), ParseVarExpr
  PROVE  ParserOk(ast', todo', val', at') /\ Moved
<1> DEFINE f == [do |-> "names", from |-> at, kids |-> <<>>]
           t == Tail(todo)
<1>1. Reading({"var"}) /\ Continue(at + 1, <<f>>)
  BY DEF ParseVarExpr
<1>2. Doing("unary") /\ at + 1 \in at + 1 .. Len(toks) + 1 /\ Len(toks) \in Nat
  <2>1. {"var"} \subseteq Token
    BY DEF Token, Keyword
  <2>2. QED
    BY <1>1, <2>1, ReadingFacts
<1>3. f.from = at /\ HasFields(f) /\ SubtreesOf(f) = <<>> /\ f.do = "names" /\ f.kids = <<>>
  BY DEF HasFields, SubtreesOf
<1>4. /\ Stack(ast, t) /\ FrameOk(ast, Top(t), at)
      /\ Top(t).do \in {"rhs", "operand", "operator"} /\ IsSeq(t)
      /\ at \in Nat \ {0} /\ TreeOk(ast, at) /\ Precedences(ast)
  BY <1>2, UnaryTop
<1>5. ast' = ast /\ val' = val /\ at' = at + 1 /\ todo' = Push(f, t)
  BY <1>1, <1>4, PushOne DEF Continue
<1> HIDE DEF f, t
<1>6. at \in Nat /\ at + 1 \in Nat /\ at < at + 1 /\ at <= at + 1 /\ at + 1 \in 1 .. Len(toks) + 1
  BY <1>2, <1>4
<1>7. FrameOk(ast, f, at + 1)
  BY <1>3, <1>4, <1>6, FirstFrame
<1>8. f.do \in Primaries \cup Operators /\ Follows(f, Top(t))
  BY <1>3, <1>4 DEF Primaries, Operators, Follows
<1> DEFINE r == Push(f, t)
<1>9. Stack(ast, r) /\ Top(r) = f
  BY <1>3, <1>4, <1>6, <1>8, StackPush
<1> HIDE DEF r
<1>10. TopOk(ast, r, val, at + 1)
  BY <1>3, <1>7, <1>9 DEF TopOk, Waits
<1>11. TreeOk(ast, at + 1)
  BY <1>4, <1>6, TreeMoves
<1>12. ParserOk(ast, r, val, at + 1)
  BY <1>4, <1>6, <1>9, <1>10, <1>11 DEF ParserOk
<1>13. QED
  BY <1>5, <1>6, <1>12 DEF Moved, r

LEMMA NoPrimaryOk ==
  ASSUME InputOk, ParserOk(ast, todo, val, at), NoPrimary
  PROVE  ParserOk(ast', todo', val', at') /\ Moved
BY ErrorHere DEF NoPrimary

LEMMA ParseUnaryOk ==
  ASSUME InputOk, ParserOk(ast, todo, val, at), ParseUnary
  PROVE  ParserOk(ast', todo', val', at') /\ Moved
<1> DEFINE f == [do |-> "operator", from |-> at, kids |-> <<>>]
           t == Tail(todo)
           q == at + 1
<1>1. Reading(Ascii \ {"(", ","}) /\ Continue(q, <<Unary(q), f>>)
  BY DEF ParseUnary
<1>2. Doing("unary") /\ q \in at + 1 .. Len(toks) + 1 /\ Len(toks) \in Nat
  <2>1. Ascii \ {"(", ","} \subseteq Token
    BY WordFacts
  <2>2. QED
    BY <1>1, <2>1, ReadingFacts
<1>3. f.from = at /\ HasFields(f) /\ SubtreesOf(f) = <<>> /\ f.do = "operator" /\ f.kids = <<>>
  BY DEF HasFields, SubtreesOf
<1>4. /\ Stack(ast, t) /\ FrameOk(ast, Top(t), at)
      /\ Top(t).do \in {"rhs", "operand", "operator"} /\ IsSeq(t)
      /\ at \in Nat \ {0} /\ TreeOk(ast, at) /\ Precedences(ast)
  BY <1>2, UnaryTop
<1>5. ast' = ast /\ val' = val /\ at' = q /\ todo' = Push(Unary(q), Push(f, t))
  BY <1>1, <1>4, PushBoth DEF Continue
<1>6. at \in Nat /\ q \in Nat \ {0} /\ at < q /\ at <= q /\ q \in 1 .. Len(toks) + 1 /\ q = at + 1
      /\ q - 1 = at
  BY <1>2, <1>4
<1> HIDE DEF f, t, q
<1>7. FrameOk(ast, f, q)
  <2>1. FrameKidsOk(ast, f, q) /\ OperatorOk(ast, f, q)
    BY <1>3 DEF FrameKidsOk, OperatorOk, Operators
  <2>2. \A d \in DOMAIN ast : ast[d].to < at
    BY <1>4 DEF TreeOk
  <2>3. InOrder(ast, <<>>, at, q - 1)
    BY NoKids
  <2>4. QED
    BY <1>3, <1>4, <1>6, <2>1, <2>2, <2>3 DEF FrameOk, Covered
<1>8. f.do \in Primaries \cup Operators /\ Follows(f, Top(t))
  BY <1>3, <1>4 DEF Primaries, Operators, Follows
<1> DEFINE u == Push(f, t)
<1>9. Stack(ast, u) /\ Top(u) = f
  BY <1>3, <1>4, <1>6, <1>8, StackPush
<1>10. TreeOk(ast, q)
  BY <1>4, <1>6, TreeMoves
<1> HIDE DEF u
<1> DEFINE r == Push(Unary(q), u)
<1>11. Stack(ast, r) /\ Top(r) = Unary(q) /\ FrameOk(ast, Unary(q), q)
  BY <1>3, <1>6, <1>7, <1>9, <1>10, CallUnaryOk
<1> HIDE DEF r
<1>12. TopOk(ast, r, val, q)
  BY <1>11 DEF TopOk, Waits, Unary
<1>13. ParserOk(ast, r, val, q)
  BY <1>4, <1>6, <1>10, <1>11, <1>12 DEF ParserOk
<1>14. QED
  BY <1>5, <1>6, <1>13 DEF Moved, r, u

LEMMA ParseBinOpRHSOk ==
  ASSUME InputOk, ParserOk(ast, todo, val, at), ParseBinOpRHS
  PROVE  ParserOk(ast', todo', val', at') /\ at <= at'
<1> DEFINE f == Frame
           t == Tail(todo)
           p == GetTokPrecedence(at)
           q == at + 1
           o == [do |-> "operand", from |-> f.from, kids |-> <<val>>, min |-> f.min, op |-> at, prec |-> p]
<1>1. /\ Doing("rhs")
      /\ IF p < f.min THEN Continue(at, <<>>) ELSE Continue(q, <<Unary(q), o>>)
  BY DEF ParseBinOpRHS
<1>2. todo # <<>> /\ f.do = "rhs" /\ Waits(f)
  BY <1>1, DoingFacts DEF Waits
<1>3. /\ \E i \in 1 .. at - 1 : FrameOk(ast, f, i) /\ ValueOk(ast, val, i) /\ Bare(ast, f, val, i, at)
      /\ Stack(ast, t) /\ FrameOk(ast, Top(t), f.from) /\ Follows(f, Top(t)) /\ IsSeq(t)
      /\ at \in Nat \ {0} /\ TreeOk(ast, at) /\ Precedences(ast)
  BY <1>2, WaitingTop
<1>4. PICK i \in 1 .. at - 1 : FrameOk(ast, f, i) /\ ValueOk(ast, val, i) /\ Bare(ast, f, val, i, at)
  BY <1>3
<1>5. /\ i = f.from /\ f.min \in Nat /\ f.from \in Nat \ {0}
      /\ \A d \in DOMAIN ast : ast[d].to < i \/ i <= ast[d].from
  BY <1>2, <1>4 DEF FrameOk, OperatorOk, Operators, SubtreesOf, Covered
<1>6. /\ p \in Int /\ p >= -1
      /\ p >= 0 => p \in 1 .. 100 /\ Tok(at) \in Ascii /\ prec[Tok(at)] = p
  BY PrecedenceFacts
<1>7. /\ Top(t).do \in Callers \cup {"merge"}
      /\ Top(t).do \in Callers => f.min = 0
      /\ Top(t).do = "merge" => f.min = Top(t).prec + 1
      /\ Top(t).do = "let" => Top(t).init
  BY <1>2, <1>3 DEF Follows, Operators
<1>8. at \in 1 .. Len(toks) + 1 /\ Len(toks) \in Nat
  BY TokFacts DEF ParserOk
<1>9. \A d \in DOMAIN ast : ast[d].from \in Nat /\ ast[d].to \in Nat /\ ast[d].from <= ast[d].to /\ ast[d].to < at
  BY <1>3, PlacesOk
<1>10. /\ val \in DOMAIN ast /\ ast[val].t # "let" /\ i <= ast[val].from
       /\ \A d \in DOMAIN ast : ast[d].from < i \/ Inside(ast, d, val)
  BY <1>4 DEF ValueOk
<1>11. /\ ast[val].to = at - 1 /\ ast[val].t \in {"if", "for", "varin"} => p = -1
       /\ ast[val].t = "binary" => /\ ast[val].to = at - 1 => prec[ast[val].n] >= p
                                   /\ ast[val].from = i => prec[ast[val].n] >= f.min
  BY <1>2, <1>4 DEF Bare
<1>12. CASE p < f.min
  <2>1. at' = at /\ todo' = t /\ ast' = ast /\ val' = val
    BY <1>1, <1>3, <1>12, PushNone DEF Continue
  <2> HIDE DEF f, t
  <2>2. Top(t).do \in Callers => p = -1
    BY <1>5, <1>6, <1>7, <1>12
  <2>3. ASSUME Top(t).do = "merge"
        PROVE  /\ p <= Top(t).prec
               /\ ast[val].t = "binary" /\ ast[val].from = i => prec[ast[val].n] > Top(t).prec
    <3>1. Top(t).prec \in Nat
      BY <1>3, <2>3 DEF FrameOk, OperatorOk
    <3>2. f.min = Top(t).prec + 1
      BY <1>7, <2>3
    <3>3. p <= Top(t).prec
      BY <1>6, <1>12, <3>1, <3>2
    <3>4. ASSUME ast[val].t = "binary", ast[val].from = i PROVE prec[ast[val].n] > Top(t).prec
      <4>1. prec[ast[val].n] >= Top(t).prec + 1
        BY <1>11, <3>2, <3>4
      <4>2. prec[ast[val].n] \in Nat
        <5>1. NodeOk(ast, val)
          BY <1>3, <1>10 DEF TreeOk
        <5>2. ast[val].n \in Ascii
          BY <3>4, <5>1 DEF NodeOk, Shape
        <5>3. prec[ast[val].n] \in 0 .. 100
          BY <5>2 DEF InputOk
        <5>4. QED
          BY <5>3
      <4>3. QED
        BY <3>1, <4>1, <4>2
    <3>5. QED
      BY <3>3, <3>4
  <2>4. Bare(ast, Top(t), val, i, at)
    <3>1. Top(t).do \notin {"rhs", "operand", "operator"}
      BY <1>7 DEF Callers
    <3> HIDE DEF p
    <3>2. QED
      BY <1>11, <2>2, <2>3, <3>1 DEF Bare, p
  <2>5. Waits(Top(t))
    BY <1>7 DEF Waits, Callers
  <2>6. TopOk(ast, t, val, at)
    BY <1>3, <1>4, <1>5, <2>4, <2>5 DEF TopOk
  <2>7. at <= at'
    BY <1>3, <2>1
  <2>8. QED
    BY <1>3, <1>8, <2>1, <2>6, <2>7 DEF ParserOk
<1>13. CASE ~ (p < f.min)
  <2>1. f.min <= p /\ p \in 1 .. 100 /\ p \in Nat /\ Tok(at) \in Ascii /\ prec[Tok(at)] = p
    BY <1>5, <1>6, <1>13
  <2>2. at' = q /\ todo' = Push(Unary(q), Push(o, t)) /\ ast' = ast /\ val' = val
    BY <1>1, <1>3, <1>13, PushBoth DEF Continue
  <2>3. at \in 1 .. Len(toks)
    BY <2>1, WordFacts, TokFacts
  <2>4. at \in Nat /\ q \in Nat \ {0} /\ at < q /\ at <= q /\ q \in 1 .. Len(toks) + 1 /\ q = at + 1
        /\ q - 1 = at
    BY <1>8, <2>3
  <2>5. /\ o.do = "operand" /\ o.from = f.from /\ o.kids = <<val>> /\ o.min = f.min /\ o.op = at
        /\ o.prec = p
    OBVIOUS
  <2>6. HasFields(o)
    BY <2>5 DEF HasFields
  <2> HIDE DEF f, t, p, q, o
  <2>7. /\ Len(o.kids) = 1 /\ DOMAIN o.kids = {1} /\ o.kids[1] = val /\ o.kids \in Seq(DOMAIN ast)
    BY <1>10, <2>5
  <2>8. InOrder(ast, o.kids, o.from, q - 1)
    BY <1>5, <1>9, <1>10, <2>4, <2>5, <2>7 DEF InOrder
  <2>9. \A d \in DOMAIN ast : Covered(ast, d, o.from, o.kids)
    <3>1. ASSUME NEW d \in DOMAIN ast PROVE Covered(ast, d, o.from, o.kids)
      <4>1. CASE ast[d].to < i
        BY <1>5, <2>5, <4>1 DEF Covered
      <4>2. CASE i <= ast[d].from
        <5>1. Inside(ast, d, val)
          BY <1>5, <1>9, <1>10, <4>2
        <5>2. QED
          BY <2>7, <5>1 DEF Covered
      <4>3. QED
        BY <1>5, <4>1, <4>2
    <3>2. QED
      BY <3>1
  <2>10. LeftOk(ast[val], p, at)
    <3>1. SUFFICES ASSUME ast[val].to = at - 1
                   PROVE  \/ ast[val].t \in {"num", "var", "call", "unary"}
                          \/ ast[val].t = "binary" /\ prec[ast[val].n] >= p
      BY DEF LeftOk
    <3>2. ast[val].t \notin {"if", "for", "varin", "let"}
      BY <1>10, <1>11, <2>1, <3>1
    <3>3. ast[val].t \in {"num", "var", "call", "unary", "binary", "if", "for", "let", "varin"}
      BY <1>3, <1>10 DEF TreeOk, NodeOk, Shape
    <3>4. QED
      BY <1>11, <3>1, <3>2, <3>3
  <2>11. OperatorOk(ast, o, q)
    <3>1. ast[val].to < at
      BY <1>9, <1>10
    <3>2. QED
      BY <1>5, <2>1, <2>4, <2>5, <2>7, <2>10, <3>1 DEF OperatorOk
  <2>12. FrameKidsOk(ast, o, q)
    BY <2>5 DEF FrameKidsOk
  <2>13. f.from <= q /\ o.from \in Nat \ {0}
    BY <1>4, <1>5, <2>4, <2>5
  <2>14. FrameOk(ast, o, q)
    BY <2>4, <2>5, <2>6, <2>8, <2>9, <2>11, <2>12, <2>13 DEF FrameOk, SubtreesOf
  <2>15. o.do \in Primaries \cup Operators /\ Follows(o, Top(t)) /\ o.from \in Nat
    BY <1>7, <2>5, <2>13 DEF Primaries, Operators, Follows
  <2> DEFINE u == Push(o, t)
  <2>16. Stack(ast, u) /\ Top(u) = o
    BY <1>3, <2>5, <2>15, StackPush
  <2>17. TreeOk(ast, q)
    BY <1>3, <2>4, TreeMoves
  <2> HIDE DEF u
  <2> DEFINE r == Push(Unary(q), u)
  <2>18. Stack(ast, r) /\ Top(r) = Unary(q) /\ FrameOk(ast, Unary(q), q)
    BY <2>4, <2>5, <2>14, <2>16, <2>17, CallUnaryOk
  <2> HIDE DEF r
  <2>19. TopOk(ast, r, val, q)
    BY <2>18 DEF TopOk, Waits, Unary
  <2>20. ParserOk(ast, r, val, q)
    BY <1>3, <2>4, <2>17, <2>18, <2>19 DEF ParserOk
  <2>21. QED
    BY <2>2, <2>4, <2>20 DEF r, u
<1>14. QED
  BY <1>12, <1>13

LEMMA RightOperandOk ==
  ASSUME InputOk, ParserOk(ast, todo, val, at), RightOperand
  PROVE  ParserOk(ast', todo', val', at') /\ at <= at'
<1> DEFINE f == Frame
           t == Tail(todo)
           p == GetTokPrecedence(at)
           m == [f EXCEPT !.do = "merge"]
           h == BinOpRHS(f.prec + 1, f.op + 1)
<1>1. /\ Doing("operand")
      /\ Continue(at, (IF f.prec < p THEN <<h>> ELSE <<>>) \o <<m>>)
  BY DEF RightOperand, OperandPrec
<1>2. todo # <<>> /\ f.do = "operand" /\ Waits(f)
  BY <1>1, DoingFacts DEF Waits
<1>3. /\ \E i \in 1 .. at - 1 : FrameOk(ast, f, i) /\ ValueOk(ast, val, i) /\ Bare(ast, f, val, i, at)
      /\ Stack(ast, t) /\ FrameOk(ast, Top(t), f.from) /\ Follows(f, Top(t)) /\ IsSeq(t)
      /\ at \in Nat \ {0} /\ TreeOk(ast, at) /\ Precedences(ast)
  BY <1>2, WaitingTop
<1>4. PICK i \in 1 .. at - 1 : FrameOk(ast, f, i) /\ ValueOk(ast, val, i) /\ Bare(ast, f, val, i, at)
  BY <1>3
<1>5. HasFields(f) /\ OperatorOk(ast, f, i) /\ f.from \in Nat \ {0} /\ f.from <= i /\ i \in Nat
  BY <1>4 DEF FrameOk
<1>6. f = [do |-> "operand", from |-> f.from, kids |-> f.kids, min |-> f.min, op |-> f.op, prec |-> f.prec]
  BY <1>2, <1>5 DEF HasFields
<1>7. m = [do |-> "merge", from |-> f.from, kids |-> f.kids, min |-> f.min, op |-> f.op, prec |-> f.prec]
  BY <1>6
<1>8. /\ m.do = "merge" /\ m.from = f.from /\ m.kids = f.kids /\ m.min = f.min /\ m.op = f.op
      /\ m.prec = f.prec
  BY <1>7
<1>9. HasFields(m)
  BY <1>7, <1>8 DEF HasFields
<1>10. at' = at /\ ast' = ast /\ val' = val /\ todo' = ((IF f.prec < p THEN <<h>> ELSE <<>>) \o <<m>>) \o t
  BY <1>1 DEF Continue
<1> HIDE DEF f, t, m, p
<1>11. OperatorOk(ast, m, i) /\ i = f.op + 1 /\ f.prec \in Nat /\ f.op \in Nat
  BY <1>2, <1>5, <1>8 DEF OperatorOk, Operators
<1>12. FrameOk(ast, m, i)
  <2>1. SubtreesOf(f) = f.kids /\ SubtreesOf(m) = f.kids
    BY <1>2, <1>8 DEF SubtreesOf
  <2>2. InOrder(ast, f.kids, f.from, i - 1) /\ \A d \in DOMAIN ast : Covered(ast, d, f.from, f.kids) \/ i <= ast[d].from
    BY <1>4, <2>1 DEF FrameOk
  <2>3. FrameKidsOk(ast, m, i)
    BY <1>8 DEF FrameKidsOk
  <2>4. QED
    BY <1>5, <1>8, <1>9, <1>11, <2>1, <2>2, <2>3 DEF FrameOk
<1>13. m.do \in Primaries \cup Operators /\ Follows(m, Top(t)) /\ FrameOk(ast, Top(t), m.from) /\ m.from \in Nat
  BY <1>2, <1>3, <1>5, <1>8 DEF Primaries, Operators, Follows
<1> DEFINE u == Push(m, t)
<1>14. Stack(ast, u) /\ Top(u) = m /\ IsSeq(u)
  BY <1>3, <1>13, StackPush DEF Stack
<1> HIDE DEF u
<1>15. ast[val].t = "binary" => i < ast[val].from /\ ast[val].to < at - 1
  BY <1>2, <1>4 DEF Bare
<1>16. ast[val].to = at - 1 /\ ast[val].t \in {"if", "for", "varin"} => p = -1
  BY <1>4 DEF Bare, p
<1>17. \A d \in DOMAIN ast : ast[d].from \in Nat /\ ast[d].to \in Nat /\ ast[d].from <= ast[d].to /\ ast[d].to < at
  BY <1>3, PlacesOk
<1>18. val \in DOMAIN ast
  BY <1>4 DEF ValueOk
<1>19. p \in Int
  BY PrecedenceFacts DEF p
<1>20. at \in 1 .. Len(toks) + 1 /\ at <= at
  BY <1>3 DEF ParserOk
<1>21. ast[val].t = "binary" => ast[val].from # i /\ ast[val].to # at - 1
  BY <1>3, <1>5, <1>15, <1>17, <1>18
<1>22. CASE ~ (f.prec < p)
  <2>1. todo' = u
    <3>1. <<>> \o <<m>> = <<m>>
      BY <<m>> \in Seq({m}), PushNone DEF IsSeq
    <3>2. QED
      BY <1>3, <1>10, <1>22, <3>1, PushOne DEF u
  <2>2. p <= m.prec
    BY <1>8, <1>11, <1>19, <1>22
  <2>3. Bare(ast, m, val, i, at)
    BY <1>8, <1>16, <1>21, <2>2 DEF Bare, p, Callers
  <2>4. TopOk(ast, u, val, at)
    BY <1>4, <1>8, <1>12, <1>14, <2>3 DEF TopOk, Waits
  <2>5. ParserOk(ast, u, val, at)
    BY <1>3, <1>14, <1>20, <2>4 DEF ParserOk
  <2>6. QED
    BY <1>10, <1>20, <2>1, <2>5
<1>23. CASE f.prec < p
  <2>1. todo' = Push(h, u)
    BY <1>3, <1>10, <1>23, PushTwo DEF u
  <2>2. h.do = "rhs" /\ h.from = i /\ h.min = f.prec + 1
    BY <1>11 DEF BinOpRHS
  <2> HIDE DEF h
  <2>3. HasFields(h) /\ SubtreesOf(h) = <<>> /\ FrameKidsOk(ast, h, i) /\ OperatorOk(ast, h, i)
    BY <1>11, <2>2 DEF HasFields, SubtreesOf, FrameKidsOk, OperatorOk
  <2>4. \A d \in DOMAIN ast : ast[d].to < i \/ i <= ast[d].from
    <3>1. ASSUME NEW d \in DOMAIN ast, Covered(ast, d, f.from, f.kids) PROVE ast[d].to < i
      <4>1. SubtreesOf(f) = f.kids /\ InOrder(ast, f.kids, f.from, i - 1)
        BY <1>2, <1>4 DEF FrameOk, SubtreesOf
      <4>2. CASE ast[d].to < f.from
        BY <1>5, <1>17, <4>2
      <4>3. CASE \E j \in DOMAIN f.kids : Inside(ast, d, f.kids[j])
        <5>1. PICK j \in DOMAIN f.kids : Inside(ast, d, f.kids[j])
          BY <4>3
        <5>2. f.kids[j] \in DOMAIN ast /\ ast[f.kids[j]].to <= i - 1
          BY <4>1 DEF InOrder
        <5>3. QED
          BY <1>5, <1>17, <5>1, <5>2 DEF Inside
      <4>4. QED
        BY <3>1, <4>2, <4>3 DEF Covered
    <3>2. \A d \in DOMAIN ast : Covered(ast, d, f.from, f.kids) \/ i <= ast[d].from
      BY <1>2, <1>4 DEF FrameOk, SubtreesOf
    <3>3. QED
      BY <3>1, <3>2
  <2>5. FrameOk(ast, h, i)
    <3>1. InOrder(ast, <<>>, i, i - 1) /\ i \in Nat \ {0} /\ i <= i
      BY <1>4, <1>5, NoKids
    <3>2. QED
      BY <2>2, <2>3, <2>4, <3>1 DEF FrameOk, Covered
  <2>6. Follows(h, m) /\ h.do \in Primaries \cup Operators /\ h.from \in Nat
    BY <1>5, <1>8, <2>2 DEF Follows, Primaries, Operators, Callers
  <2> DEFINE r == Push(h, u)
  <2>7. Stack(ast, r) /\ Top(r) = h
    BY <1>12, <1>14, <2>2, <2>6, StackPush
  <2> HIDE DEF r
  <2>8. Bare(ast, h, val, i, at)
    BY <1>16, <1>21, <2>2 DEF Bare, p, Callers
  <2>9. TopOk(ast, r, val, at)
    BY <1>4, <2>2, <2>5, <2>7, <2>8 DEF TopOk, Waits
  <2>10. ParserOk(ast, r, val, at)
    BY <1>3, <1>20, <2>7, <2>9 DEF ParserOk
  <2>11. QED
    BY <1>10, <1>20, <2>1, <2>10 DEF r
<1>24. QED
  BY <1>22, <1>23

LEMMA MergeOk ==
  ASSUME InputOk, ParserOk(ast, todo, val, at), Merge
  PROVE  ParserOk(ast', todo', val', at') /\ at <= at'
<1> DEFINE f == Frame
           t == Tail(todo)
           kids == Append(f.kids, val)
           e == Node("binary", Tok(f.op), kids, f.from, at - 1, f.op)
           h == BinOpRHS(f.min, f.from)
           r == Append(ast, e)
           v == Len(ast) + 1
<1>1. Doing("merge") /\ MakeAndDo(at, e, <<h>>)
  BY DEF Merge
<1>2. todo # <<>> /\ f.do = "merge" /\ Waits(f)
  BY <1>1, DoingFacts DEF Waits
<1>3. /\ \E i \in 1 .. at - 1 : FrameOk(ast, f, i) /\ ValueOk(ast, val, i) /\ Bare(ast, f, val, i, at)
      /\ Stack(ast, t) /\ FrameOk(ast, Top(t), f.from) /\ Follows(f, Top(t)) /\ IsSeq(t)
      /\ at \in Nat \ {0} /\ TreeOk(ast, at) /\ Precedences(ast)
  BY <1>2, WaitingTop
<1>4. PICK i \in 1 .. at - 1 : FrameOk(ast, f, i) /\ ValueOk(ast, val, i) /\ Bare(ast, f, val, i, at)
  BY <1>3
<1>5. OperatorOk(ast, f, i) /\ f.from \in Nat \ {0} /\ f.from <= i /\ i \in Nat /\ SubtreesOf(f) = f.kids
  BY <1>2, <1>4 DEF FrameOk, SubtreesOf
<1>6. /\ f.min \in Nat /\ f.op \in Nat /\ f.prec \in Nat /\ i = f.op + 1 /\ Len(f.kids) = 1 /\ f.min <= f.prec
      /\ Tok(f.op) \in Ascii /\ prec[Tok(f.op)] = f.prec
      /\ ast[f.kids[1]].to < f.op /\ LeftOk(ast[f.kids[1]], f.prec, f.op)
  BY <1>2, <1>5 DEF OperatorOk, Operators
<1>7. at' = at /\ ast' = r /\ val' = v /\ todo' = Push(h, t)
  BY <1>1, <1>3, PushOne DEF MakeAndDo, Make
<1>8. /\ e.t = "binary" /\ e.n = Tok(f.op) /\ e.kids = kids /\ e.from = f.from /\ e.to = at - 1
      /\ e.at = f.op
  BY DEF Node
<1>9. h.do = "rhs" /\ h.from = f.from /\ h.min = f.min
  BY DEF BinOpRHS
<1>10. at \in 1 .. Len(toks) + 1 /\ Len(toks) \in Nat
  BY TokFacts DEF ParserOk
<1> HIDE DEF f, t, e, h
<1>11. /\ InOrder(ast, kids, f.from, at - 1)
       /\ \A d \in DOMAIN ast : Covered(ast, d, f.from, kids)
  BY <1>3, <1>4, <1>5, AddSubtree
<1>12. Len(kids) = 2 /\ kids[1] = f.kids[1] /\ kids[2] = val
  <2>1. f.kids \in Seq(DOMAIN ast)
    BY <1>4, <1>5 DEF FrameOk, InOrder
  <2>2. val \in DOMAIN ast
    BY <1>4 DEF ValueOk
  <2>3. Len(f.kids) = 1
    BY <1>6
  <2>4. /\ Len(kids) = Len(f.kids) + 1 /\ DOMAIN f.kids = 1 .. Len(f.kids)
        /\ kids[Len(f.kids) + 1] = val /\ \A k \in DOMAIN f.kids : kids[k] = f.kids[k]
    BY <2>1, AppendFacts DEF IsSeq
  <2> HIDE DEF kids
  <2>5. QED
    BY <2>3, <2>4
<1> HIDE DEF kids
<1>13. Shape(ast, e)
  BY <1>6, <1>8, <1>12 DEF Shape
<1>14. OperandsOk(ast, e)
  <2>1. ast[val].t = "binary" /\ ast[val].from = i => prec[ast[val].n] > f.prec
    BY <1>2, <1>4 DEF Bare
  <2>2. QED
    BY <1>6, <1>8, <1>12, <2>1 DEF OperandsOk
<1>15. at \in Nat /\ at <= at /\ e.from \in 1 .. Len(toks) /\ e.to \in e.from .. Len(toks) /\ e.to < at
       /\ e.at \in Nat
  BY <1>3, <1>4, <1>5, <1>6, <1>8, <1>10
<1>16. InOrder(ast, e.kids, e.from, e.to) /\ \A d \in DOMAIN ast : Covered(ast, d, e.from, e.kids)
  BY <1>8, <1>11
<1>17. /\ TreeOk(r, at) /\ Precedences(r) /\ Extends(r, ast) /\ v \in DOMAIN r /\ r[v] = e
       /\ \A d \in DOMAIN r : d \in DOMAIN ast \/ r[d] = e
  BY <1>3, <1>13, <1>14, <1>15, <1>16, NewNode
<1> HIDE DEF r
<1>18. ValueOk(r, v, e.from)
  <2>1. e.t # "let" /\ e.from \in Nat /\ e.to \in Nat
    BY <1>8, <1>10, <1>15
  <2>2. QED
    BY <1>3, <1>16, <1>17, <2>1, NewValue
<1> HIDE DEF v
<1>19. t = <<>> \/ Head(t).from <= f.from
  BY <1>3 DEF FrameOk, Top
<1>20. Stack(r, t)
  <2>1. \A d \in DOMAIN r : d \in DOMAIN ast \/ (r[d].from \in Nat /\ (t = <<>> \/ Head(t).from <= r[d].from))
    BY <1>5, <1>8, <1>17, <1>19
  <2>2. QED
    BY <1>3, <1>17, <2>1, StackExtends
<1>21. FrameOk(r, Top(t), f.from)
  <2>1. \A d \in DOMAIN r : d \in DOMAIN ast \/ f.from <= r[d].from
    BY <1>5, <1>8, <1>17
  <2>2. QED
    BY <1>3, <1>17, <2>1, FrameExtends
<1>22. FrameOk(r, h, f.from)
  <2>1. HasFields(h) /\ SubtreesOf(h) = <<>> /\ FrameKidsOk(r, h, f.from) /\ OperatorOk(r, h, f.from)
    BY <1>6, <1>9 DEF HasFields, SubtreesOf, FrameKidsOk, OperatorOk
  <2>2. \A d \in DOMAIN r : r[d].to < f.from \/ f.from <= r[d].from
    <3>1. ASSUME NEW d \in DOMAIN r, r[d].from < f.from PROVE r[d].to < f.from
      <4>1. ValueOk(r, v, f.from)
        BY <1>8, <1>18
      <4>2. d \in DOMAIN ast /\ r[d] = ast[d]
        BY <1>5, <1>8, <1>17, <3>1 DEF Extends
      <4>3. Covered(ast, d, f.from, e.kids)
        BY <1>8, <1>16, <4>2
      <4>4. CASE \E j \in DOMAIN e.kids : Inside(ast, d, e.kids[j])
        <5>1. PICK j \in DOMAIN e.kids : Inside(ast, d, e.kids[j])
          BY <4>4
        <5>2. e.kids[j] \in DOMAIN ast /\ f.from <= ast[e.kids[j]].from
          BY <1>8, <1>16 DEF InOrder
        <5>3. \A k \in DOMAIN ast : ast[k].from \in Nat
          BY <1>3, PlacesOk
        <5>4. QED
          BY <1>5, <3>1, <4>2, <5>1, <5>2, <5>3 DEF Inside
      <4>5. QED
        BY <4>2, <4>3, <4>4 DEF Covered
    <3>2. \A d \in DOMAIN r : r[d].from \in Nat
      BY <1>17, PlacesOk
    <3>3. QED
      BY <1>5, <3>1, <3>2
  <2>3. InOrder(r, <<>>, f.from, f.from - 1) /\ f.from <= f.from /\ f.from \in Nat \ {0} /\ f.from \in Nat
    BY <1>5, NoKids
  <2>4. QED
    BY <1>9, <2>1, <2>2, <2>3 DEF FrameOk, Covered
<1>23. Follows(h, Top(t)) /\ h.do \in Primaries \cup Operators /\ h.from \in Nat
  BY <1>2, <1>3, <1>5, <1>9 DEF Follows, Primaries, Operators
<1> DEFINE w == Push(h, t)
<1>24. Stack(r, w) /\ Top(w) = h
  BY <1>9, <1>20, <1>21, <1>23, StackPush
<1> HIDE DEF w
<1>25. Bare(r, h, v, f.from, at)
  <2>1. GetTokPrecedence(at) <= f.prec
    BY <1>2, <1>4 DEF Bare
  <2>2. r[v].t = "binary" /\ prec[r[v].n] = f.prec
    BY <1>6, <1>8, <1>17
  <2>3. GetTokPrecedence(at) \in Int
    BY PrecedenceFacts
  <2>4. f.prec >= GetTokPrecedence(at) /\ f.prec >= f.min
    BY <1>6, <2>1, <2>3
  <2>5. QED
    BY <1>9, <2>2, <2>4 DEF Bare, Callers
<1>26. f.from \in 1 .. at - 1
  BY <1>3, <1>4, <1>5
<1>27. TopOk(r, w, v, at)
  BY <1>8, <1>9, <1>18, <1>22, <1>24, <1>25, <1>26 DEF TopOk, Waits
<1>28. ParserOk(r, w, v, at)
  BY <1>10, <1>17, <1>24, <1>27 DEF ParserOk
<1>29. QED
  BY <1>7, <1>15, <1>28 DEF w

LEMMA ParseVarNameOk ==
  ASSUME InputOk, ParserOk(ast, todo, val, at), ParseVarName
  PROVE  ParserOk(ast', todo', val', at') /\ at <= at'
<1> DEFINE f == Frame
           t == Tail(todo)
           g(init) == [do |-> "let", from |-> f.from, kids |-> f.kids, name |-> at, init |-> init]
<1>1. /\ Doing("names")
      /\ Tok(at) \notin Ident => ErrorRet(at)
      /\ Tok(at) \in Ident /\ Tok(at + 1) = "=" => Continue(at + 2, ParseExpression(at + 2) \o <<g(TRUE)>>)
      /\ Tok(at) \in Ident /\ Tok(at + 1) # "=" => Continue(at + 1, <<g(FALSE)>>)
  BY DEF ParseVarName
<1>2. todo # <<>> /\ f.do = "names" /\ f = Head(todo)
  BY <1>1, DoingFacts DEF Frame
<1>3. /\ FrameOk(ast, f, at) /\ Stack(ast, t) /\ FrameOk(ast, Top(t), f.from) /\ Follows(f, Top(t)) /\ IsSeq(t)
      /\ at \in Nat \ {0} /\ at \in 1 .. Len(toks) + 1 /\ TreeOk(ast, at) /\ Precedences(ast)
  <2>1. Stack(ast, todo) /\ TopOk(ast, todo, val, at) /\ at \in 1 .. Len(toks) + 1 /\ TreeOk(ast, at) /\ Precedences(ast)
    BY <1>2 DEF ParserOk
  <2>2. Top(todo) = f /\ ~ Waits(f)
    BY <1>2 DEF Top, Waits
  <2>3. FrameOk(ast, f, at)
    BY <2>1, <2>2 DEF TopOk
  <2>4. /\ Stack(ast, t) /\ Follows(f, Top(t)) /\ FrameOk(ast, Top(t), f.from)
    BY <1>2, <2>1, StackPop
  <2>5. at \in Nat \ {0}
    BY <2>1, TokFacts
  <2>6. QED
    BY <2>1, <2>3, <2>4, <2>5 DEF Stack
<1> HIDE DEF f, t
<1>4. /\ f.from \in Nat \ {0} /\ f.from < at /\ InOrder(ast, f.kids, f.from, at - 1) /\ AreLets(ast, f.kids)
      /\ \A d \in DOMAIN ast : Covered(ast, d, f.from, f.kids) \/ at <= ast[d].from
  BY <1>2, <1>3 DEF FrameOk, FrameKidsOk, SubtreesOf
<1>5. \A d \in DOMAIN ast : ast[d].from \in Nat /\ ast[d].to \in Nat /\ ast[d].from <= ast[d].to /\ ast[d].to < at
  BY <1>3, PlacesOk
<1>6. \A d \in DOMAIN ast : Covered(ast, d, f.from, f.kids)
  BY <1>3, <1>4, <1>5
<1>7. \A j \in DOMAIN f.kids : ast[f.kids[j]].to < at
  BY <1>5, <1>4 DEF InOrder
<1>8. ASSUME NEW init \in BOOLEAN, Tok(at) \in Ident, NEW q \in Nat, at < q
      PROVE  /\ FrameOk(ast, g(init), q) /\ Follows(g(init), Top(t)) /\ g(init).do = "let"
             /\ g(init).init = init /\ g(init).from = f.from
  <2> DEFINE h == g(init)
  <2>1. /\ h.do = "let" /\ h.from = f.from /\ h.kids = f.kids /\ h.name = at /\ h.init = init
    OBVIOUS
  <2> HIDE DEF h
  <2>2. InOrder(ast, f.kids, f.from, q - 1)
    <3>1. \A k \in DOMAIN ast : ast[k].to \in Int
      BY <1>5
    <3>2. at - 1 \in Int /\ q - 1 \in Int /\ at - 1 <= q - 1
      BY <1>3, <1>8
    <3>3. QED
      BY <1>4, <3>1, <3>2, OrderWiden
  <2>3. f.from < q /\ f.from <= q
    BY <1>3, <1>4, <1>8
  <2>4. FrameKidsOk(ast, h, q)
    BY <1>3, <1>4, <1>7, <1>8, <2>1 DEF FrameKidsOk
  <2>5. OperatorOk(ast, h, q) /\ HasFields(h) /\ SubtreesOf(h) = f.kids
    BY <2>1 DEF OperatorOk, Operators, HasFields, SubtreesOf
  <2>6. FrameOk(ast, h, q)
    BY <1>4, <1>6, <2>1, <2>2, <2>3, <2>4, <2>5 DEF FrameOk
  <2>7. Follows(h, Top(t))
    BY <1>2, <1>3, <2>1 DEF Follows, Primaries, Operators
  <2>8. QED
    BY <2>1, <2>6, <2>7 DEF h
<1> HIDE DEF g
<1>9. CASE Tok(at) \notin Ident
  BY <1>1, <1>9, ErrorHere
<1>10. CASE Tok(at) \in Ident /\ Tok(at + 1) = "="
  <2> DEFINE q == at + 2
  <2>1. ast' = ast /\ val' = val /\ at' = q /\ todo' = (ParseExpression(q) \o <<g(TRUE)>>) \o t
    BY <1>1, <1>10 DEF Continue, t
  <2>2. q \in 1 .. Len(toks) + 1 /\ q \in Nat /\ at \in Nat /\ at < q /\ at <= q
    <3>1. at + 1 \in Nat
      BY <1>3
    <3>2. at + 1 \in 1 .. Len(toks) /\ Len(toks) \in Nat
      BY <1>10, <3>1, NextPlace
    <3>3. QED
      BY <1>3, <3>2
  <2> HIDE DEF q
  <2>3. TreeOk(ast, q)
    BY <1>3, <2>2, TreeMoves
  <2>4. /\ FrameOk(ast, g(TRUE), q) /\ Follows(g(TRUE), Top(t)) /\ g(TRUE).do = "let" /\ g(TRUE).init
        /\ g(TRUE).from = f.from
    BY <1>8, <1>10, <2>2
  <2>5. g(TRUE).do \in Callers /\ g(TRUE).do \in Primaries /\ FrameOk(ast, Top(t), g(TRUE).from)
    BY <1>3, <2>4 DEF Callers, Primaries
  <2>6. ParserOk(ast, (ParseExpression(q) \o <<g(TRUE)>>) \o t, val, q)
    BY <1>3, <2>2, <2>3, <2>4, <2>5, Calls
  <2>7. QED
    BY <2>1, <2>2, <2>6
<1>11. CASE Tok(at) \in Ident /\ Tok(at + 1) # "="
  <2> DEFINE q == at + 1
             h == g(FALSE)
             r == Push(h, t)
  <2>1. ast' = ast /\ val' = val /\ at' = q /\ todo' = r
    BY <1>1, <1>3, <1>11, PushOne DEF Continue, t
  <2>2. q \in 1 .. Len(toks) + 1 /\ q \in Nat /\ at \in Nat /\ at < q /\ at <= q
    <3>1. at \in Nat
      BY <1>3
    <3>2. at + 1 \in 1 .. Len(toks) + 1
      BY <1>11, <3>1, NextPlace
    <3>3. QED
      BY <3>1, <3>2
  <2> HIDE DEF q, h
  <2>3. TreeOk(ast, q)
    BY <1>3, <2>2, TreeMoves
  <2>4. FrameOk(ast, h, q) /\ Follows(h, Top(t)) /\ h.do = "let" /\ h.init = FALSE /\ h.from = f.from
    BY <1>8, <1>11, <2>2 DEF h
  <2>5. h.do \in Primaries \cup Operators /\ h.from \in Nat /\ FrameOk(ast, Top(t), h.from)
    BY <1>3, <1>4, <2>4 DEF Primaries
  <2>6. Stack(ast, r) /\ Top(r) = h
    BY <1>3, <2>4, <2>5, StackPush
  <2> HIDE DEF r
  <2>7. TopOk(ast, r, val, q)
    BY <2>4, <2>6 DEF TopOk, Waits
  <2>8. ParserOk(ast, r, val, q)
    BY <1>3, <2>2, <2>3, <2>6, <2>7 DEF ParserOk
  <2>9. QED
    BY <2>1, <2>2, <2>8
<1>12. QED
  BY <1>9, <1>10, <1>11

(* The node of a name of a var expression, and the frame it is for.        *)
LEMMA ParseVarRestOk ==
  ASSUME InputOk, ParserOk(ast, todo, val, at), ParseVarRest
  PROVE  ParserOk(ast', todo', val', at') /\ at <= at'
<1> DEFINE f == Frame
           t == Tail(todo)
           own == IF f.init THEN <<val>> ELSE <<>>
           e == Node("let", Tok(f.name), own, f.name, at - 1, f.name)
           v == Len(ast) + 1
           kids == Append(f.kids, v)
           g(what) == [do |-> what, from |-> f.from, kids |-> kids]
           r == Append(ast, e)
           q == at + 1
<1>1. /\ Doing("let")
      /\ Tok(at) = "," => MakeAndDo(q, e, <<g("names")>>)
      /\ Tok(at) = "in" => MakeAndDo(q, e, ParseExpression(q) \o <<g("body")>>)
      /\ Tok(at) \notin {",", "in"} => ErrorRet(at)
  BY DEF ParseVarRest
<1>2. todo # <<>> /\ f.do = "let" /\ f = Head(todo)
  BY <1>1, DoingFacts DEF Frame
<1>3. /\ Stack(ast, t) /\ FrameOk(ast, Top(t), f.from) /\ Follows(f, Top(t)) /\ IsSeq(t)
      /\ at \in Nat \ {0} /\ at \in 1 .. Len(toks) + 1 /\ TreeOk(ast, at) /\ Precedences(ast)
      /\ Len(toks) \in Nat
  <2>1. Stack(ast, todo) /\ at \in 1 .. Len(toks) + 1 /\ TreeOk(ast, at) /\ Precedences(ast)
    BY <1>2 DEF ParserOk
  <2>2. /\ Stack(ast, t) /\ Follows(f, Top(t)) /\ FrameOk(ast, Top(t), f.from)
    BY <1>2, <2>1, StackPop
  <2>3. at \in Nat \ {0} /\ Len(toks) \in Nat
    BY <2>1, TokFacts
  <2>4. QED
    BY <2>1, <2>2, <2>3 DEF Stack
<1>4. \E i \in 1 .. at : FrameOk(ast, f, i) /\ IF Waits(f) THEN ValueOk(ast, val, i) ELSE i = at
  <2>1. TopOk(ast, todo, val, at) /\ Top(todo) = f
    BY <1>2 DEF ParserOk, Top
  <2>2. CASE Waits(f)
    <3>1. PICK i \in 1 .. at - 1 : FrameOk(ast, f, i) /\ ValueOk(ast, val, i)
      BY <2>1, <2>2 DEF TopOk
    <3>2. i \in 1 .. at
      BY <1>3
    <3>3. QED
      BY <2>2, <3>1, <3>2
  <2>3. CASE ~ Waits(f)
    <3>1. FrameOk(ast, f, at) /\ at \in 1 .. at
      BY <1>3, <2>1, <2>3 DEF TopOk
    <3>2. QED
      BY <2>3, <3>1
  <2>4. QED
    BY <2>2, <2>3
<1>5. PICK i \in 1 .. at : FrameOk(ast, f, i) /\ IF Waits(f) THEN ValueOk(ast, val, i) ELSE i = at
  BY <1>4
<1>6. /\ f.from \in Nat \ {0} /\ InOrder(ast, f.kids, f.from, i - 1) /\ AreLets(ast, f.kids)
      /\ \A d \in DOMAIN ast : Covered(ast, d, f.from, f.kids) \/ i <= ast[d].from
      /\ f.name \in Nat /\ f.from < f.name /\ f.name < i /\ Tok(f.name) \in Ident
      /\ f.init \in BOOLEAN /\ \A j \in DOMAIN f.kids : ast[f.kids[j]].to < f.name
  BY <1>2, <1>5 DEF FrameOk, FrameKidsOk, SubtreesOf
<1>7. \A d \in DOMAIN ast : ast[d].from \in Nat /\ ast[d].to \in Nat /\ ast[d].from <= ast[d].to /\ ast[d].to < at
  BY <1>3, PlacesOk
<1>8. /\ e.t = "let" /\ e.n = Tok(f.name) /\ e.kids = own /\ e.from = f.name /\ e.to = at - 1
      /\ e.at = f.name
  BY DEF Node
<1> HIDE DEF f, t, e
<1>9. f.init => /\ val \in DOMAIN ast /\ i <= ast[val].from
                /\ \A d \in DOMAIN ast : ast[d].from < i \/ Inside(ast, d, val)
  BY <1>2, <1>5 DEF ValueOk, Waits
<1>10. own \in Seq(DOMAIN ast) /\ Len(own) \in {0, 1}
       /\ (f.init => DOMAIN own = {1} /\ own[1] = val) /\ (~ f.init => DOMAIN own = {})
  <2>1. CASE f.init
    <3>1. own = <<val>> /\ val \in DOMAIN ast
      BY <1>9, <2>1
    <3>2. QED
      BY <2>1, <3>1
  <2>2. CASE ~ f.init
    <3>1. own = <<>>
      BY <2>2
    <3>2. QED
      BY <2>2, <3>1
  <2>3. QED
    BY <2>1, <2>2
<1> HIDE DEF own
<1>11. InOrder(ast, own, f.name, at - 1)
  <2>1. CASE f.init
    <3>1. f.name <= ast[val].from /\ ast[val].to <= at - 1
      BY <1>3, <1>6, <1>7, <1>9, <2>1
    <3>2. QED
      BY <1>10, <2>1, <3>1 DEF InOrder
  <2>2. CASE ~ f.init
    BY <1>10, <2>2 DEF InOrder
  <2>3. QED
    BY <2>1, <2>2
<1>12. ASSUME NEW d \in DOMAIN ast PROVE Covered(ast, d, f.name, own)
  <2>1. CASE ast[d].to < f.from
    <3>1. ast[d].to < f.name
      BY <1>6, <1>7, <2>1
    <3>2. QED
      BY <3>1 DEF Covered
  <2>2. CASE \E j \in DOMAIN f.kids : Inside(ast, d, f.kids[j])
    <3>1. PICK j \in DOMAIN f.kids : Inside(ast, d, f.kids[j])
      BY <2>2
    <3>2. f.kids[j] \in DOMAIN ast
      BY <1>6 DEF InOrder
    <3>3. ast[d].to < f.name
      BY <1>6, <1>7, <3>1, <3>2 DEF Inside
    <3>4. QED
      BY <3>3 DEF Covered
  <2>3. CASE i <= ast[d].from
    <3>1. f.init
      <4>1. Waits(f)
        BY <1>3, <1>5, <1>7, <2>3
      <4>2. QED
        BY <1>2, <4>1 DEF Waits
    <3>2. ~ (ast[d].from < i)
      BY <1>7, <2>3
    <3>3. Inside(ast, d, val)
      BY <1>9, <3>1, <3>2
    <3>4. QED
      BY <1>10, <3>1, <3>3 DEF Covered
  <2>4. QED
    BY <1>6, <2>1, <2>2, <2>3 DEF Covered
<1>13. Shape(ast, e) /\ OperandsOk(ast, e)
  BY <1>6, <1>8, <1>10 DEF Shape, OperandsOk
<1>14. at \in Nat /\ at <= at /\ e.from \in 1 .. Len(toks) /\ e.to \in e.from .. Len(toks) /\ e.to < at
       /\ e.at \in Nat
  BY <1>3, <1>5, <1>6, <1>8
<1>15. InOrder(ast, e.kids, e.from, e.to) /\ \A d \in DOMAIN ast : Covered(ast, d, e.from, e.kids)
  BY <1>8, <1>11, <1>12
<1>16. /\ TreeOk(r, at) /\ Precedences(r) /\ Extends(r, ast) /\ v \in DOMAIN r /\ r[v] = e
       /\ \A d \in DOMAIN r : d \in DOMAIN ast \/ r[d] = e
  BY <1>3, <1>13, <1>14, <1>15, NewNode
<1>17. ASSUME NEW frames, MakeAndDo(q, e, frames)
       PROVE  at' = q /\ ast' = r /\ val' = v /\ todo' = frames \o t
  BY <1>17 DEF MakeAndDo, Make, t
<1> HIDE DEF r, v
<1>18. f.kids \in Seq(DOMAIN ast) /\ \A j \in DOMAIN f.kids : f.kids[j] \in DOMAIN ast
  BY <1>6 DEF InOrder
<1>19. \A d \in DOMAIN ast : r[d] = ast[d]
  BY <1>16 DEF Extends
<1>20. InOrder(r, f.kids, f.from, f.name - 1)
  <2>1. InOrder(r, f.kids, f.from, i - 1)
    BY <1>6, <1>16, OrderExtends
  <2>2. \A j \in DOMAIN f.kids : r[f.kids[j]].to <= f.name - 1
    BY <1>6, <1>7, <1>18, <1>19
  <2>3. QED
    BY <2>1, <2>2 DEF InOrder
<1>21. ASSUME NEW d \in DOMAIN r PROVE Covered(r, d, f.from, f.kids) \/ f.name <= r[d].from
  <2>1. CASE d \in DOMAIN ast
    <3>1. CASE Covered(ast, d, f.from, f.kids)
      BY <1>16, <1>18, <2>1, <3>1, CoveredExtends
    <3>2. CASE i <= ast[d].from
      BY <1>6, <1>7, <1>19, <2>1, <3>2
    <3>3. QED
      BY <1>6, <2>1, <3>1, <3>2
  <2>2. CASE r[d] = e
    BY <1>6, <1>8, <2>2
  <2>3. QED
    BY <1>16, <2>1, <2>2
<1>22. /\ InOrder(r, kids, f.from, at - 1)
       /\ \A d \in DOMAIN r : Covered(r, d, f.from, kids)
  <2>1. f.name <= r[v].from /\ f.name \in Nat /\ f.from \in Nat /\ f.from <= f.name
    BY <1>6, <1>8, <1>16
  <2>2. \A d \in DOMAIN r : r[d].from < f.name \/ Inside(r, d, v)
    <3>1. \A d \in DOMAIN r : r[d].from \in Nat /\ r[d].to \in Nat /\ r[d].to < at
      BY <1>16, PlacesOk
    <3>2. r[v].from = f.name /\ r[v].to = at - 1
      BY <1>8, <1>16
    <3>3. QED
      BY <1>3, <1>6, <3>1, <3>2 DEF Inside
  <2>3. QED
    BY <1>14, <1>16, <1>20, <1>21, <2>1, <2>2, AddKid
<1>23. AreLets(r, kids)
  <2>1. /\ \A j \in DOMAIN kids : (j \in DOMAIN f.kids /\ kids[j] = f.kids[j]) \/ kids[j] = v
    BY <1>18, AppendFacts DEF IsSeq
  <2> HIDE DEF kids
  <2>2. QED
    BY <1>6, <1>8, <1>16, <1>18, <1>19, <2>1 DEF AreLets
<1> HIDE DEF kids
<1>24. ASSUME Tok(at) \in {",", "in"}
       PROVE  q \in 1 .. Len(toks) + 1 /\ q \in Nat /\ at <= q /\ q - 1 = at /\ f.from < q /\ f.from <= q
  <2>1. at \in Nat
    BY <1>3
  <2>2. at + 1 \in 1 .. Len(toks) + 1
    BY <1>24, <2>1, NextPlace
  <2>3. QED
    BY <1>5, <1>6, <2>1, <2>2
<1>25. ASSUME Tok(at) \in {",", "in"}, NEW what \in {"names", "body"}
       PROVE  FrameOk(r, g(what), q) /\ g(what).do = what /\ g(what).from = f.from
  <2> DEFINE h == g(what)
  <2>1. h.do = what /\ h.from = f.from /\ h.kids = kids
    OBVIOUS
  <2> HIDE DEF h, q
  <2>2. InOrder(r, kids, f.from, q - 1)
    <3>1. \A k \in DOMAIN r : r[k].to \in Int
      BY <1>16, PlacesOk
    <3>2. at - 1 \in Int /\ q - 1 \in Int /\ at - 1 <= q - 1
      <4>1. at \in Nat /\ q \in Nat /\ q - 1 = at
        BY <1>3, <1>24, <1>25
      <4>2. QED
        BY <4>1
    <3>3. QED
      BY <1>22, <3>1, <3>2, OrderWiden
  <2>3. FrameKidsOk(r, h, q) /\ OperatorOk(r, h, q) /\ HasFields(h) /\ SubtreesOf(h) = kids
    BY <1>23, <1>25, <2>1 DEF FrameKidsOk, OperatorOk, Operators, HasFields, SubtreesOf
  <2>4. FrameOk(r, h, q)
    BY <1>6, <1>22, <1>24, <1>25, <2>1, <2>2, <2>3 DEF FrameOk
  <2>5. QED
    BY <2>1, <2>4 DEF h
<1>26. Stack(r, t)
  <2>1. t = <<>> \/ (Head(t).from \in Nat /\ Head(t).from <= f.from)
    BY <1>3 DEF FrameOk, Top
  <2>2. \A d \in DOMAIN r : d \in DOMAIN ast \/ (r[d].from \in Nat /\ (t = <<>> \/ Head(t).from <= r[d].from))
    BY <1>6, <1>8, <1>16, <2>1
  <2>3. QED
    BY <1>3, <1>16, <2>2, StackExtends
<1>27. FrameOk(r, Top(t), f.from)
  <2>1. \A d \in DOMAIN r : d \in DOMAIN ast \/ f.from <= r[d].from
    BY <1>6, <1>8, <1>16
  <2>2. QED
    BY <1>3, <1>16, <2>1, FrameExtends
<1>28. Top(t).do \in {"rhs", "operand", "operator"}
  BY <1>2, <1>3 DEF Follows, Primaries
<1> HIDE DEF g, q
<1>29. CASE Tok(at) = ","
  <2> DEFINE h == g("names")
             w == Push(h, t)
  <2>1. at' = q /\ ast' = r /\ val' = v /\ todo' = w
    BY <1>1, <1>3, <1>17, <1>29, PushOne DEF t
  <2> HIDE DEF h
  <2>2. FrameOk(r, h, q) /\ h.do = "names" /\ h.from = f.from
    BY <1>25, <1>29 DEF h
  <2>3. Follows(h, Top(t)) /\ h.do \in Primaries \cup Operators /\ h.from \in Nat
    BY <1>6, <1>28, <2>2 DEF Follows, Primaries, Operators
  <2>4. Stack(r, w) /\ Top(w) = h
    BY <1>26, <1>27, <2>2, <2>3, StackPush
  <2> HIDE DEF w
  <2>5. TopOk(r, w, v, q)
    BY <2>2, <2>4 DEF TopOk, Waits
  <2>6. TreeOk(r, q)
    BY <1>14, <1>16, <1>24, <1>29, TreeMoves
  <2>7. ParserOk(r, w, v, q)
    BY <1>16, <1>24, <1>29, <2>4, <2>5, <2>6 DEF ParserOk
  <2>8. QED
    BY <1>24, <1>29, <2>1, <2>7
<1>30. CASE Tok(at) = "in"
  <2> DEFINE h == g("body")
  <2>1. at' = q /\ ast' = r /\ val' = v /\ todo' = (ParseExpression(q) \o <<h>>) \o t
    BY <1>1, <1>17, <1>30
  <2> HIDE DEF h
  <2>2. FrameOk(r, h, q) /\ h.do = "body" /\ h.from = f.from
    BY <1>25, <1>30 DEF h
  <2>3. Follows(h, Top(t)) /\ h.do \in Primaries /\ h.do \in Callers
    BY <1>28, <2>2 DEF Follows, Primaries, Operators, Callers
  <2>4. TreeOk(r, q)
    BY <1>14, <1>16, <1>24, <1>30, TreeMoves
  <2>5. q \in 1 .. Len(toks) + 1
    BY <1>24, <1>30
  <2>6. h.do = "let" => h.init
    BY <2>2
  <2>7. FrameOk(r, Top(t), h.from)
    BY <1>27, <2>2
  <2>8. ParserOk(r, (ParseExpression(q) \o <<h>>) \o t, v, q)
    BY <1>16, <1>26, <2>2, <2>3, <2>4, <2>5, <2>6, <2>7, Calls
  <2>9. QED
    BY <1>24, <1>30, <2>1, <2>8
<1>31. CASE Tok(at) \notin {",", "in"}
  BY <1>1, <1>31, ErrorHere
<1>32. QED
  BY <1>29, <1>30, <1>31

LEMMA ParseKeeps ==
  ASSUME Parse
  PROVE  toks' = toks /\ prec' = prec
<1>1. CASE ParsePrimary
  BY <1>1 DEF ParsePrimary, ParseNumberExpr, ParseVariable, ParseCall, ParseParenExpr, ParseIfExpr,
    ParseForExpr, ParseVarExpr, NoPrimary, Continue, MakeAndDo, Return, ErrorRet
<1>2. CASE ParseUnary \/ ParseBinOpRHS
  BY <1>2 DEF ParseUnary, ParseBinOpRHS, Continue
<1>3. CASE MoreArgs \/ CloseParen
  BY <1>3 DEF MoreArgs, CloseParen, Continue, MakeAndDo, Return, ErrorRet
<1>4. CASE IfPart \/ ForPart
  BY <1>4 DEF IfPart, ForPart, Continue, MakeAndDo, Return, ErrorRet
<1>5. CASE ParseVarName \/ ParseVarRest \/ ParseVarBody
  BY <1>5 DEF ParseVarName, ParseVarRest, ParseVarBody, Continue, MakeAndDo, Return, ErrorRet
<1>6. CASE UnaryOperator \/ RightOperand \/ Merge
  BY <1>6 DEF UnaryOperator, RightOperand, Merge, Continue, MakeAndDo, Return
<1>7. QED
  BY <1>1, <1>2, <1>3, <1>4, <1>5, <1>6 DEF Parse, Finish

LEMMA ParseOk ==
  ASSUME InputOk, ParserOk(ast, todo, val, at), Parse
  PROVE  ParserOk(ast', todo', val', at') /\ at <= at' /\ (Doing("unary") => Moved)
<1>1. CASE ParsePrimary \/ ParseUnary
  <2>1. ParserOk(ast', todo', val', at') /\ Moved
    BY <1>1, ParseNumberExprOk, ParseVariableOk, ParseCallOk, ParseParenExprOk, ParseIfExprOk,
       ParseForExprOk, ParseVarExprOk, NoPrimaryOk, ParseUnaryOk DEF ParsePrimary
  <2>2. at \in Nat /\ at' \in Nat
    <3>1. at \in 1 .. Len(toks) + 1 /\ at' \in 1 .. Len(toks) + 1
      BY <2>1 DEF ParserOk
    <3>2. QED
      BY <3>1, TokFacts
  <2>3. QED
    BY <2>1, <2>2 DEF Moved
<1>2. CASE ParseBinOpRHS \/ Finish
  <2>1. ParserOk(ast', todo', val', at') /\ at <= at'
    BY <1>2, ParseBinOpRHSOk, MoreArgsOk, CloseParenOk, IfPartOk, ForPartOk, ParseVarNameOk,
       ParseVarRestOk, ParseVarBodyOk, UnaryOperatorOk, RightOperandOk, MergeOk DEF Finish
  <2>2. ~ Doing("unary")
    BY <1>2 DEF Doing, ParseBinOpRHS, Finish, MoreArgs, CloseParen, IfPart, ForPart, ParseVarName,
      ParseVarRest, ParseVarBody, UnaryOperator, RightOperand, Merge
  <2>3. QED
    BY <2>1, <2>2
<1>3. QED
  BY <1>1, <1>2 DEF Parse

(* What has been said of the parser depends on variables that stay.        *)
LEMMA SameTokens ==
  ASSUME toks' = toks
  PROVE  /\ \A i : Tok(i)' = Tok(i)
         /\ \A s, e : Shape(s, e)' <=> Shape(s, e)
         /\ \A s, k : NodeOk(s, k)' <=> NodeOk(s, k)
         /\ \A s, p : TreeOk(s, p)' <=> TreeOk(s, p)
<1>1. \A i : Tok(i)' = Tok(i)
  BY DEF Tok
<1>2. \A s, e : Shape(s, e)' <=> Shape(s, e)
  BY <1>1 DEF Shape
<1>3. \A s, k : NodeOk(s, k)' <=> NodeOk(s, k)
  BY <1>2 DEF NodeOk
<1>4. \A s, p : TreeOk(s, p)' <=> TreeOk(s, p)
  BY <1>3 DEF TreeOk
<1>5. QED
  BY <1>1, <1>2, <1>3, <1>4

LEMMA SameParser ==
  ASSUME toks' = toks, prec' = prec, proto' = proto, NEW s, NEW t, NEW v, NEW p
  PROVE  ParserOk(s, t, v, p)' <=> ParserOk(s, t, v, p)
<1>1. \A i : Tok(i)' = Tok(i)
  BY SameTokens
<1>2. \A i : GetTokPrecedence(i)' = GetTokPrecedence(i)
  BY <1>1 DEF GetTokPrecedence
<1>3. Bottom' = Bottom
  BY DEF Bottom
<1>4. \A l, m, op : LeftOk(l, m, op)' <=> LeftOk(l, m, op)
  BY DEF LeftOk
<1>5. Precedences(s)' <=> Precedences(s)
  BY <1>4 DEF Precedences, OperandsOk
<1>6. \A f, i : FrameKidsOk(s, f, i)' <=> FrameKidsOk(s, f, i)
  BY <1>1 DEF FrameKidsOk
<1>7. \A f, i : OperatorOk(s, f, i)' <=> OperatorOk(s, f, i)
  BY <1>1, <1>4 DEF OperatorOk
<1>8. \A f, i : FrameOk(s, f, i)' <=> FrameOk(s, f, i)
  BY <1>6, <1>7 DEF FrameOk
<1>9. \A k : Under(t, k)' = Under(t, k)
  BY <1>3 DEF Under
<1>10. Top(t)' = Top(t)
  BY <1>3 DEF Top
<1>11. Stack(s, t)' <=> Stack(s, t)
  BY <1>8, <1>9 DEF Stack
<1>12. \A f, i : Bare(s, f, v, i, p)' <=> Bare(s, f, v, i, p)
  BY <1>2 DEF Bare
<1>13. TopOk(s, t, v, p)' <=> TopOk(s, t, v, p)
  BY <1>8, <1>10, <1>12 DEF TopOk
<1>14. TreeOk(s, p)' <=> TreeOk(s, p)
  BY SameTokens
<1>15. QED
  BY <1>5, <1>11, <1>13, <1>14 DEF ParserOk

-----------------------------------------------------------------------------
(* Prototypes.                                                             *)
Less == {p \in Nat \X Nat : p[1] < p[2]}

LEMMA Smallest ==
  ASSUME NEW T \in SUBSET Nat, T # {}
  PROVE  \E k \in T : \A j \in T : k <= j
<1>1. IsWellFoundedOn(OpToRel(<, Nat), Nat)
  BY NatLessThanWellFounded
<1>2. IsWellFoundedOn(Less, Nat)
  BY <1>1 DEF OpToRel, Less
<1>3. PICK k \in T : \A j \in T : ~ (<<j, k>> \in Less)
  BY <1>2, WFMin
<1>4. ASSUME NEW j \in T PROVE k <= j
  <2>1. <<j, k>> \in Nat \X Nat /\ <<j, k>> \notin Less
    BY <1>3
  <2>2. ~ (<<j, k>>[1] < <<j, k>>[2])
    BY <2>1, Zenon DEF Less
  <2>3. QED
    BY <2>2
<1>5. QED
  BY <1>4

LEMMA BehindIdentsOk ==
  ASSUME InputOk, NEW i \in 1 .. Len(toks)
  PROVE  /\ BehindIdents(i) \in i + 1 .. Len(toks) + 1
         /\ \A j \in i + 1 .. BehindIdents(i) - 1 : Tok(j) \in Ident
<1> DEFINE n == Len(toks)
           Wanted(k) == Tok(k) \notin Ident /\ \A j \in i + 1 .. k - 1 : Tok(j) \in Ident
           R == i + 1 .. n + i + 1
           T == {k \in R : Tok(k) \notin Ident}
           last == BehindIdents(i)
<1>1. n \in Nat /\ i \in Nat \ {0} /\ i <= n
  BY TokFacts
<1>2. Tok(n + 1) \notin Ident
  <2>1. Tok(n + 1) = "eof"
    BY TokFacts
  <2>2. QED
    BY <2>1, WordFacts
<1>3. last = CHOOSE k \in R : Wanted(k)
  BY DEF BehindIdents
<1> HIDE DEF n, last
<1>4. n + 1 \in T /\ T \in SUBSET Nat
  BY <1>1, <1>2
<1>5. PICK k \in T : \A j \in T : k <= j
  <2> HIDE DEF T
  <2>1. T # {}
    BY <1>4
  <2>2. QED
    BY <1>4, <2>1, Smallest
<1>6. k \in R /\ Wanted(k)
  BY <1>1, <1>5
<1>7. last \in R /\ Wanted(last)
  <2> HIDE DEF R, Wanted
  <2>1. QED
    BY <1>3, <1>6
<1>8. last <= n + 1
  BY <1>1, <1>2, <1>7
<1>9. last \in i + 1 .. n + 1
  BY <1>1, <1>7, <1>8
<1>10. QED
  BY <1>7, <1>9 DEF n, last

(* A prototype that was read from place i on.                              *)
ProtoOk(p, i) ==
  /\ p.at \in i .. Len(toks) + 1
  /\ p.args \in Seq(1 .. p.at - 1) /\ \A k \in DOMAIN p.args : Tok(p.args[k]) \in Ident
  /\ \A j, k \in DOMAIN p.args : j <= k => p.args[j] <= p.args[k]
  /\ p.kind = "binary" => p.name \in Ascii /\ p.prec \in 0 .. 100

LEMMA NoProtoOk ==
  ASSUME NEW i \in Nat, NEW j \in i .. Len(toks) + 1
  PROVE  ProtoOk(NoProto(j), i)
BY DEF ProtoOk, NoProto

LEMMA ArgumentsOk ==
  ASSUME InputOk, NEW h \in Nat \ {0}, NEW i \in h .. Len(toks) + 1, NEW kind, NEW name, NEW p,
         kind = "binary" => name \in Ascii /\ p \in 0 .. 100
  PROVE  ProtoOk(ArgumentsAt(i, kind, name, p), h)
<1> DEFINE last == BehindIdents(i)
           args == [k \in 1 .. last - i - 1 |-> i + k]
           r == ArgumentsAt(i, kind, name, p)
           n == Len(toks)
<1>1. n \in Nat /\ i \in Nat \ {0}
  BY TokFacts
<1>2. CASE Tok(i) # "("
  <2>1. r = NoProto(i)
    BY <1>2 DEF ArgumentsAt
  <2>2. QED
    BY <2>1, NoProtoOk
<1>3. CASE Tok(i) = "("
  <2>1. i \in 1 .. n
    BY <1>1, <1>3, NextPlace
  <2>2. last \in i + 1 .. n + 1 /\ \A j \in i + 1 .. last - 1 : Tok(j) \in Ident
    BY <2>1, BehindIdentsOk
  <2>3. r = NoProto(last) \/ (Tok(last) = ")" /\ r = NoProto(last + 1))
        \/ (Tok(last) = ")" /\ r = [ok |-> TRUE, at |-> last + 1, kind |-> kind, name |-> name, args |-> args,
                                    prec |-> p])
    BY <1>3, Zenon DEF ArgumentsAt
  <2> HIDE DEF last, r
  <2>4. last \in Nat /\ last \in h .. n + 1
    BY <1>1, <2>2
  <2>5. ASSUME Tok(last) = ")" PROVE last + 1 \in h .. n + 1
    <3>1. last + 1 \in 1 .. n + 1
      BY <2>4, <2>5, NextPlace
    <3>2. QED
      BY <2>4, <3>1
  <2>6. ASSUME r = NoProto(last) PROVE ProtoOk(r, h)
    BY <2>4, <2>6, NoProtoOk
  <2>7. ASSUME Tok(last) = ")", r = NoProto(last + 1) PROVE ProtoOk(r, h)
    BY <2>5, <2>7, NoProtoOk
  <2>8. ASSUME Tok(last) = ")", r = [ok |-> TRUE, at |-> last + 1, kind |-> kind, name |-> name,
                                     args |-> args, prec |-> p]
        PROVE  ProtoOk(r, h)
    <3>1. /\ r.at = last + 1 /\ r.args = args /\ r.kind = kind /\ r.name = name /\ r.prec = p
      BY <2>8
    <3>2. /\ args \in Seq(1 .. last) /\ \A k \in DOMAIN args : args[k] \in i + 1 .. last - 1
          /\ \A j, k \in DOMAIN args : j <= k => args[j] <= args[k]
      <4> DEFINE m == last - i - 1
      <4>1. m \in Nat
        BY <1>1, <2>2, <2>4
      <4>2. \A k \in 1 .. m : i + k \in 1 .. last /\ i + k \in i + 1 .. last - 1
        BY <1>1, <2>4
      <4> HIDE DEF m
      <4>3. args = [k \in 1 .. m |-> i + k]
        BY DEF m
      <4> HIDE DEF args
      <4>4. args \in [1 .. m -> 1 .. last] /\ \A k \in DOMAIN args : args[k] \in i + 1 .. last - 1
        BY <4>2, <4>3
      <4>5. args \in Seq(1 .. last)
        <5> DEFINE S == 1 .. last
        <5>1. args \in [1 .. m -> S]
          BY <4>4
        <5> HIDE DEF S
        <5>2. args \in Seq(S)
          BY <4>1, <5>1, SeqDef
        <5>3. QED
          BY <5>2 DEF S
      <4>6. \A j, k \in DOMAIN args : j <= k => args[j] <= args[k]
        BY <1>1, <4>1, <4>3
      <4>7. QED
        BY <4>4, <4>5, <4>6
    <3> HIDE DEF args
    <3>3. \A k \in DOMAIN args : Tok(args[k]) \in Ident
      BY <2>2, <3>2
    <3>4. (last + 1) - 1 = last
      BY <2>4
    <3>5. QED
      BY <2>5, <2>8, <3>1, <3>2, <3>3, <3>4 DEF ProtoOk
  <2>9. QED
    BY <2>3, <2>6, <2>7, <2>8 DEF r
<1>4. QED
  BY <1>2, <1>3

LEMMA ParsePrototypeOk ==
  ASSUME InputOk, NEW i \in 1 .. Len(toks) + 1
  PROVE  ProtoOk(ParsePrototype(i), i)
<1> DEFINE n == Len(toks)
           r == ParsePrototype(i)
<1>1. n \in Nat /\ i \in Nat \ {0}
  BY TokFacts
<1>2. {"unary", "binary"} \subseteq Token /\ {"unary", "binary"} \cap Ident = {}
  BY WordFacts DEF Token, Keyword
<1>3. ASSUME NEW j \in Nat, Tok(j) \in Token PROVE j \in 1 .. n /\ j + 1 \in 1 .. n + 1
  <2>1. j \in 1 .. n
    BY <1>3, TokFacts
  <2>2. QED
    BY <1>1, <2>1, OneMore
<1>4. CASE Tok(i) \in Ident
  <2>1. r = ArgumentsAt(i + 1, "function", Tok(i), 0)
    BY <1>2, <1>4 DEF ParsePrototype
  <2>2. i + 1 \in 1 .. n + 1
    BY <1>1, <1>3, <1>4, WordFacts
  <2>3. i + 1 \in i .. n + 1
    BY <1>1, <2>2
  <2>4. QED
    BY <1>1, <2>1, <2>3, ArgumentsOk
<1>5. CASE Tok(i) \in {"unary", "binary"}
  <2>1. i + 1 \in i .. n + 1
    <3>1. i + 1 \in 1 .. n + 1
      BY <1>1, <1>2, <1>3, <1>5
    <3>2. QED
      BY <1>1, <3>1
  <2>2. CASE Tok(i + 1) \notin Ascii
    <3>1. r = NoProto(i + 1)
      BY <1>2, <1>5, <2>2 DEF ParsePrototype
    <3>2. QED
      BY <1>1, <2>1, <3>1, NoProtoOk
  <2>3. CASE Tok(i + 1) \in Ascii
    <3>1. i + 2 \in i .. n + 1
      <4>1. i + 1 \in 1 .. n
        <5>1. i + 1 \in Nat
          BY <1>1
        <5>2. Tok(i + 1) \in Token
          BY <2>3, WordFacts
        <5>3. QED
          BY <1>3, <5>1, <5>2
      <4>2. QED
        BY <1>1, <4>1
    <3>2. CASE Tok(i) = "unary"
      <4>1. r = ArgumentsAt(i + 2, "unary", Tok(i + 1), 0)
        BY <1>2, <2>3, <3>2 DEF ParsePrototype
      <4>2. QED
        BY <1>1, <3>1, <4>1, ArgumentsOk
    <3>3. CASE Tok(i) = "binary" /\ Tok(i + 2) \notin Number
      <4>1. r = ArgumentsAt(i + 2, "binary", Tok(i + 1), 30)
        BY <1>2, <2>3, <3>3 DEF ParsePrototype
      <4>2. 30 \in 0 .. 100
        OBVIOUS
      <4>3. QED
        BY <1>1, <2>3, <3>1, <4>1, <4>2, ArgumentsOk
    <3>4. CASE Tok(i) = "binary" /\ Tok(i + 2) \in Number
      <4> DEFINE v == NumVal[Tok(i + 2)]
      <4>1. r = IF ~ ValidPrecedence(v) THEN NoProto(i + 2)
                ELSE ArgumentsAt(i + 3, "binary", Tok(i + 1), v)
        BY <1>2, <2>3, <3>4 DEF ParsePrototype
      <4>2. v \in Nat
        BY <3>4, KalAssumption
      <4> HIDE DEF v
      <4>3. i + 3 \in i .. n + 1
        <5>1. i + 2 \in 1 .. n
          <6>1. i + 2 \in Nat
            BY <1>1
          <6>2. Tok(i + 2) \in Token
            BY <3>4, WordFacts
          <6>3. QED
            BY <1>3, <6>1, <6>2
        <5>2. QED
          BY <1>1, <5>1
      <4>4. ValidPrecedence(v) => v \in 0 .. 100
        BY <4>2 DEF ValidPrecedence
      <4>5. CASE ~ ValidPrecedence(v)
        BY <1>1, <3>1, <4>1, <4>5, NoProtoOk
      <4>6. CASE ValidPrecedence(v)
        BY <1>1, <2>3, <4>1, <4>3, <4>4, <4>6, ArgumentsOk
      <4>7. QED
        BY <4>5, <4>6
    <3>5. QED
      BY <1>5, <3>2, <3>3, <3>4
  <2>4. QED
    BY <2>2, <2>3
<1>6. CASE Tok(i) \notin Ident \cup {"unary", "binary"}
  <2>1. r = NoProto(i)
    BY <1>6 DEF ParsePrototype
  <2>2. i \in i .. n + 1
    BY <1>1
  <2>3. QED
    BY <1>1, <2>1, <2>2, NoProtoOk
<1>7. QED
  BY <1>4, <1>5, <1>6

-----------------------------------------------------------------------------
(* The read loop.                                                          *)
LEMMA SameFrames ==
  ASSUME toks' = toks, prec' = prec
  PROVE  /\ \A s, f, i : FrameOk(s, f, i)' <=> FrameOk(s, f, i)
         /\ \A s : Precedences(s)' <=> Precedences(s)
<1>1. \A i : Tok(i)' = Tok(i)
  BY SameTokens
<1>2. \A l, m, op : LeftOk(l, m, op)' <=> LeftOk(l, m, op)
  BY DEF LeftOk
<1>3. \A s, f, i : FrameKidsOk(s, f, i)' <=> FrameKidsOk(s, f, i)
  BY <1>1 DEF FrameKidsOk
<1>4. \A s, f, i : OperatorOk(s, f, i)' <=> OperatorOk(s, f, i)
  BY <1>1, <1>2 DEF OperatorOk
<1>5. \A s : Precedences(s)' <=> Precedences(s)
  BY <1>2 DEF Precedences, OperandsOk
<1>6. QED
  BY <1>3, <1>4, <1>5 DEF FrameOk

(* The parser is begun.                                                    *)
LEMMA StartOk ==
  ASSUME InputOk, NEW p, p.at \in 1 .. Len(toks) + 1, ParseBody(p)
  PROVE  /\ ParserOk(ast, todo, val, at)' /\ val' = 0 /\ at' = p.at
         /\ todo' # <<>> /\ Head(todo').do = "unary"
<1> DEFINE q == p.at
           b == [do |-> "function", from |-> q, kids |-> <<>>]
           u == Unary(q)
           r == BinOpRHS(0, q)
           t == <<u, r>>
<1>1. /\ at' = q /\ todo' = t /\ ast' = <<>> /\ val' = 0 /\ toks' = toks /\ prec' = prec
      /\ Bottom' = b
  BY DEF ParseBody, ParseExpression, Bottom
<1>2. q \in Nat \ {0}
  BY TokFacts
<1>3. TreeOk(<<>>, q) /\ Precedences(<<>>)
  <2>1. IsSeq(<<>>)
    BY <<>> \in Seq({}) DEF IsSeq
  <2>2. QED
    BY <2>1 DEF TreeOk, Precedences
<1>4. FrameOk(<<>>, u, q) /\ FrameOk(<<>>, r, q)
  BY <1>2, <1>3, FreshFrames
<1>5. FrameOk(<<>>, b, q)
  BY <1>2, NoKids DEF FrameOk, SubtreesOf, Covered, FrameKidsOk, OperatorOk, HasFields, Operators
<1>6. u.do = "unary" /\ u.from = q /\ r.do = "rhs" /\ r.from = q /\ r.min = 0 /\ b.do = "function"
  BY DEF Unary, BinOpRHS
<1> HIDE DEF u, r, b, q
<1>7. t \in Seq({u, r}) /\ DOMAIN t = {1, 2} /\ t[1] = u /\ t[2] = r /\ Head(t) = u /\ t # <<>>
  OBVIOUS
<1>8. Under(t, 1)' = r /\ Under(t, 2)' = b /\ Top(t)' = u
  BY <1>1, <1>7 DEF Under, Top
<1> HIDE DEF t
<1>9. (\A s, f, i : FrameOk(s, f, i)' <=> FrameOk(s, f, i)) /\ (\A s : Precedences(s)' <=> Precedences(s))
  BY <1>1, SameFrames
<1>10. Follows(u, r) /\ Follows(r, b)
  BY <1>6 DEF Follows, Primaries, Operators, Callers
<1>11. Stack(<<>>, t)'
  <2>1. IsSeq(t)
    BY <1>7 DEF IsSeq
  <2>2. ASSUME NEW k \in DOMAIN t
        PROVE  /\ t[k].do \in Primaries \cup Operators
               /\ Follows(t[k], Under(t, k)') /\ FrameOk(<<>>, Under(t, k), t[k].from)'
               /\ \A j \in 1 .. k : t[k].from <= t[j].from
    <3>1. CASE k = 1
      BY <1>2, <1>4, <1>6, <1>7, <1>8, <1>9, <1>10, <3>1 DEF Primaries
    <3>2. CASE k = 2
      <4>1. \A j \in 1 .. 2 : t[j].from = q
        BY <1>6, <1>7
      <4>2. QED
        BY <1>2, <1>5, <1>6, <1>7, <1>8, <1>9, <1>10, <3>2, <4>1 DEF Operators
    <3>3. QED
      BY <1>7, <3>1, <3>2
  <2>3. QED
    BY <2>1, <2>2 DEF Stack
<1>12. TopOk(<<>>, t, 0, q)'
  BY <1>4, <1>6, <1>8, <1>9 DEF TopOk, Waits
<1>13. TreeOk(<<>>, q)' /\ Precedences(<<>>)'
  BY <1>1, <1>3, <1>9, SameTokens
<1>14. ParserOk(<<>>, t, 0, q)'
  <2>1. q \in 1 .. Len(toks') + 1
    BY <1>1 DEF q
  <2>2. QED
    BY <1>1, <1>11, <1>12, <1>13, <2>1 DEF ParserOk
<1>15. QED
  <2>1. ParserOk(ast, todo, val, at)'
    BY <1>1, <1>14 DEF t, u, r, q
  <2>2. QED
    BY <1>1, <1>6, <1>7, <2>1 DEF q

(* What a step of the parser returns.                                      *)
LEMMA ParseVal ==
  ASSUME Parse
  PROVE  \/ ast' = ast /\ val' \in {val, 0}
         \/ \E e : ast' = Append(ast, e) /\ val' = Len(ast) + 1
<1>1. CASE ParsePrimary
  BY <1>1 DEF ParsePrimary, ParseNumberExpr, ParseVariable, ParseCall, ParseParenExpr, ParseIfExpr,
    ParseForExpr, ParseVarExpr, NoPrimary, Continue, MakeAndDo, Make, Return, ErrorRet
<1>2. CASE ParseUnary \/ ParseBinOpRHS
  BY <1>2 DEF ParseUnary, ParseBinOpRHS, Continue
<1>3. CASE MoreArgs \/ CloseParen
  BY <1>3 DEF MoreArgs, CloseParen, Continue, MakeAndDo, Make, Return, ErrorRet
<1>4. CASE IfPart \/ ForPart
  BY <1>4 DEF IfPart, ForPart, Continue, MakeAndDo, Make, Return, ErrorRet
<1>5. CASE ParseVarName \/ ParseVarRest \/ ParseVarBody
  BY <1>5 DEF ParseVarName, ParseVarRest, ParseVarBody, Continue, MakeAndDo, Make, Return, ErrorRet
<1>6. CASE UnaryOperator \/ RightOperand \/ Merge
  BY <1>6 DEF UnaryOperator, RightOperand, Merge, Continue, MakeAndDo, Make, Return
<1>7. QED
  BY <1>1, <1>2, <1>3, <1>4, <1>5, <1>6 DEF Parse, Finish

(* A command has read on when it is parsed, and the first thing it does,   *)
(* with a token that is there, is to read it.                              *)
Fresh ==
  /\ phase # "parsing" => commands < at
  /\ phase = "parsing" =>
       \/ commands < at
       \/ commands = at /\ Tok(at) # "eof" /\ val = 0 /\ (todo = <<>> \/ Doing("unary"))

ReadOk ==
  /\ InputOk /\ ProtoOk(proto, 1) /\ IsSeq(ast) /\ TreeOk(ast, at)
  /\ phase \in {"ready", "parsing", "generating", "undefined"}
  /\ at \in 1 .. Len(toks) + 1 /\ val \in {0} \cup DOMAIN ast /\ commands \in Nat
  /\ phase = "parsing" => ParserOk(ast, todo, val, at)
  /\ Fresh

LEMMA ReadInit ==
  ASSUME Init
  PROVE  ReadOk
<1>1. toks \in Seq(Token)
  BY InputsAssumption DEF Init
<1>2. prec \in [Ascii -> 0 .. 100]
  BY DEF Init, Builtin
<1>3. InputOk
  BY <1>1, <1>2 DEF InputOk
<1>4. Len(toks) \in Nat /\ at = 1 /\ at \in 1 .. Len(toks) + 1
  BY <1>1 DEF Init
<1>5. ProtoOk(proto, 1)
  BY <1>4, NoProtoOk DEF Init
<1>6. IsSeq(<<>>)
  BY <<>> \in Seq({}) DEF IsSeq
<1>7. TreeOk(ast, at) /\ IsSeq(ast)
  BY <1>6 DEF TreeOk, Init
<1>8. Fresh
  BY DEF Init, Fresh
<1>9. QED
  BY <1>3, <1>4, <1>5, <1>7, <1>8 DEF ReadOk, Init

LEMMA RecoverOk ==
  ASSUME ReadOk, NEW i \in Nat \ {0}, i <= Len(toks) + 1
  PROVE  /\ Recover(i) = Past(i) /\ Past(i) \in i .. Len(toks) + 1
         /\ Tok(i) # "eof" => Past(i) \in i + 1 .. Len(toks) + 1
<1>1. Len(toks) \in Nat
  BY TokFacts DEF ReadOk
<1>2. Recover(i) = Past(i)
  BY DEF Recover
<1>3. CASE i \in 1 .. Len(toks)
  <2>1. Past(i) = i + 1
    BY <1>3, TokFacts DEF ReadOk
  <2>2. QED
    BY <1>1, <1>2, <1>3, <2>1
<1>4. CASE i \notin 1 .. Len(toks)
  <2>1. Past(i) = i /\ Tok(i) = "eof"
    BY <1>4, TokFacts DEF ReadOk
  <2>2. QED
    BY <1>1, <1>2, <1>4, <2>1
<1>5. QED
  BY <1>3, <1>4

(* The loop goes on behind what it has read.                               *)
LEMMA GoOnOk ==
  ASSUME ReadOk, NEW i \in Nat, i <= Len(toks) + 1, at <= i, GoOn(i), commands' < i, commands' \in Nat
  PROVE  ReadOk'
<1>1. /\ toks' = toks /\ prec' = prec /\ ast' = ast /\ val' = val /\ proto' = proto /\ at' = i
      /\ phase' = "ready"
  BY DEF GoOn
<1>2. Len(toks) \in Nat /\ at \in Nat \ {0} /\ InputOk
  <2>1. Len(toks) \in Nat
    BY TokFacts DEF ReadOk
  <2>2. QED
    BY <2>1 DEF ReadOk
<1>3. i \in 1 .. Len(toks) + 1
  BY <1>2
<1>4. TreeOk(ast, i)
  BY <1>2, TreeMoves DEF ReadOk
<1>5. TreeOk(ast, at)' /\ ProtoOk(proto, 1)'
  BY <1>1, <1>4, SameTokens DEF ReadOk, ProtoOk
<1>6. InputOk'
  BY <1>1, <1>2 DEF InputOk
<1>7. Fresh'
  BY <1>1 DEF Fresh
<1>8. QED
  BY <1>1, <1>3, <1>5, <1>6, <1>7 DEF ReadOk

LEMMA BodyOk ==
  ASSUME ReadOk, NEW p, ParseBody(p), ProtoOk(p, 1), commands' \in Nat,
         commands' < p.at \/ (commands' = p.at /\ Tok(p.at) # "eof")
  PROVE  ReadOk'
<1>1. /\ toks' = toks /\ prec' = prec /\ ast' = <<>> /\ val' = 0 /\ proto' = p /\ at' = p.at
      /\ phase' = "parsing"
  BY DEF ParseBody
<1>2. InputOk /\ p.at \in 1 .. Len(toks) + 1
  BY DEF ReadOk, ProtoOk
<1>3. ParserOk(ast, todo, val, at)' /\ todo' # <<>> /\ Head(todo').do = "unary"
  BY <1>2, StartOk
<1>4. TreeOk(ast, at)' /\ IsSeq(ast')
  BY <1>3 DEF ParserOk, TreeOk
<1>5. InputOk' /\ ProtoOk(proto, 1)' /\ (at \in 1 .. Len(toks) + 1)'
  <2>1. \A i : Tok(i)' = Tok(i)
    BY <1>1, SameTokens
  <2>2. QED
    BY <1>1, <1>2, <2>1 DEF InputOk, ProtoOk
<1>6. Fresh'
  <2>1. Tok(p.at)' = Tok(p.at)
    BY <1>1, SameTokens
  <2>2. QED
    BY <1>1, <1>3, <2>1 DEF Fresh, Doing
<1>7. QED
  BY <1>1, <1>3, <1>4, <1>5, <1>6 DEF ReadOk

LEMMA HandlersOk ==
  ASSUME ReadOk,
         \/ HandleDefinition \/ HandleExtern \/ HandleTopLevelExpression \/ SkipSemicolon
  PROVE  ReadOk'
<1>1. Len(toks) \in Nat /\ at \in Nat \ {0} /\ at <= Len(toks) + 1 /\ InputOk /\ commands \in Nat
  <2>1. Len(toks) \in Nat /\ at \in 1 .. Len(toks) + 1
    BY TokFacts DEF ReadOk
  <2>2. QED
    BY <2>1 DEF ReadOk
<1>2. Round /\ commands < at /\ commands' = commands + 1
  BY DEF HandleDefinition, HandleExtern, HandleTopLevelExpression, SkipSemicolon, Round, ReadOk, Fresh
<1>3. commands' \in Nat /\ commands' <= at
  BY <1>1, <1>2
<1>4. Tok(at) # "eof" => Past(at) \in at + 1 .. Len(toks) + 1
  BY <1>1, RecoverOk
<1> DEFINE p == ParsePrototype(Past(at))
<1>5. ASSUME Tok(at) # "eof"
      PROVE  /\ ProtoOk(p, 1) /\ p.at \in Nat \ {0} /\ p.at <= Len(toks) + 1 /\ at < p.at
             /\ Past(p.at) \in Nat /\ Past(p.at) <= Len(toks) + 1 /\ p.at <= Past(p.at)
             /\ Recover(p.at) = Past(p.at)
  <2>1. Past(at) \in 1 .. Len(toks) + 1 /\ Past(at) \in Nat /\ at < Past(at)
    BY <1>1, <1>4, <1>5
  <2>2. ProtoOk(p, Past(at))
    BY <1>1, <2>1, ParsePrototypeOk
  <2> HIDE DEF p
  <2>3. p.at \in Past(at) .. Len(toks) + 1
    BY <2>2 DEF ProtoOk
  <2>4. p.at \in Nat \ {0} /\ p.at <= Len(toks) + 1 /\ at < p.at /\ p.at \in 1 .. Len(toks) + 1
    BY <1>1, <2>1, <2>3
  <2>5. ProtoOk(p, 1)
    BY <2>2, <2>4 DEF ProtoOk
  <2>6. Past(p.at) \in p.at .. Len(toks) + 1 /\ Recover(p.at) = Past(p.at)
    BY <2>4, RecoverOk
  <2>7. QED
    BY <1>1, <2>4, <2>5, <2>6
<1> HIDE DEF p
<1>6. CASE HandleDefinition
  <2>1. Tok(at) = "def" /\ IF p.ok THEN ParseBody(p) ELSE GoOn(Recover(p.at))
    BY <1>6 DEF HandleDefinition, p
  <2>2. Tok(at) # "eof"
    BY <2>1
  <2>3. CASE p.ok
    <3>1. ParseBody(p) /\ commands' < p.at /\ ProtoOk(p, 1)
      BY <1>1, <1>3, <1>5, <2>1, <2>2, <2>3
    <3>2. QED
      BY <1>3, <3>1, BodyOk
  <2>4. CASE ~ p.ok
    <3>1. GoOn(Recover(p.at))
      BY <2>1, <2>4
    <3>2. Recover(p.at) \in Nat /\ Recover(p.at) <= Len(toks) + 1 /\ at <= Recover(p.at) /\ commands' < Recover(p.at)
      BY <1>1, <1>3, <1>5, <2>2
    <3>3. QED
      BY <1>3, <3>1, <3>2, GoOnOk
  <2>5. QED
    BY <2>3, <2>4
<1>7. CASE HandleExtern
  <2> DEFINE i == IF p.ok THEN p.at ELSE Recover(p.at)
  <2>1. Tok(at) # "eof" /\ GoOn(i)
    BY <1>7 DEF HandleExtern, p
  <2>2. i \in Nat /\ i <= Len(toks) + 1 /\ at <= i /\ commands' < i
    BY <1>1, <1>3, <1>5, <2>1
  <2> HIDE DEF i
  <2>3. QED
    BY <1>3, <2>1, <2>2, GoOnOk
<1>8. CASE HandleTopLevelExpression
  <2> DEFINE r == NoProto(at)
  <2>1. Tok(at) # "eof" /\ ParseBody(r) /\ r.at = at
    BY <1>8 DEF HandleTopLevelExpression, NoProto
  <2>2. ProtoOk(r, 1)
    <3>1. at \in 1 .. Len(toks) + 1
      BY <1>1
    <3>2. QED
      BY <3>1, NoProtoOk
  <2> HIDE DEF r
  <2>3. commands' < r.at \/ (commands' = r.at /\ Tok(r.at) # "eof")
    BY <1>1, <1>3, <2>1
  <2>4. QED
    BY <1>3, <2>1, <2>2, <2>3, BodyOk
<1>9. CASE SkipSemicolon
  <2>1. Tok(at) # "eof" /\ GoOn(Past(at))
    BY <1>9 DEF SkipSemicolon
  <2>2. Past(at) \in Nat /\ Past(at) <= Len(toks) + 1 /\ at <= Past(at) /\ commands' < Past(at)
    BY <1>1, <1>3, <1>4, <2>1
  <2>3. QED
    BY <1>3, <2>1, <2>2, GoOnOk
<1>10. QED
  BY <1>6, <1>7, <1>8, <1>9

LEMMA ParseStepOk ==
  ASSUME ReadOk, ParseStep
  PROVE  ReadOk'
<1>1. /\ phase = "parsing" /\ Parse /\ phase' = "parsing" /\ commands' = commands /\ proto' = proto
      /\ InputOk /\ ParserOk(ast, todo, val, at) /\ ProtoOk(proto, 1) /\ commands \in Nat /\ Fresh
      /\ IsSeq(ast) /\ val \in {0} \cup DOMAIN ast
  BY DEF ParseStep, ReadOk
<1>2. toks' = toks /\ prec' = prec
  BY <1>1, ParseKeeps
<1>3. ParserOk(ast', todo', val', at') /\ at <= at' /\ (Doing("unary") => Moved)
  BY <1>1, ParseOk
<1>4. ParserOk(ast, todo, val, at)'
  BY <1>1, <1>2, <1>3, SameParser
<1>5. (\A i : Tok(i)' = Tok(i)) /\ InputOk' /\ ProtoOk(proto, 1)'
  BY <1>1, <1>2, SameTokens DEF InputOk, ProtoOk
<1>6. (TreeOk(ast, at) /\ IsSeq(ast) /\ at \in 1 .. Len(toks) + 1)'
  BY <1>4 DEF ParserOk, TreeOk
<1>7. val' \in {0} \cup DOMAIN ast'
  <2>1. CASE ast' = ast /\ val' \in {val, 0}
    BY <1>1, <2>1
  <2>2. CASE \E e : ast' = Append(ast, e) /\ val' = Len(ast) + 1
    <3>1. PICK e : ast' = Append(ast, e) /\ val' = Len(ast) + 1
      BY <2>2
    <3>2. DOMAIN ast' = 1 .. Len(ast) + 1 /\ Len(ast) \in Nat
      BY <1>1, <3>1, AppendFacts
    <3>3. QED
      BY <3>1, <3>2
  <2>3. QED
    BY <1>1, <2>1, <2>2, ParseVal
<1>8. Fresh'
  <2>1. at \in Nat /\ at' \in Nat
    <3>1. at \in 1 .. Len(toks) + 1 /\ at' \in 1 .. Len(toks) + 1 /\ Len(toks) \in Nat
      BY <1>1, <1>3, TokFacts DEF ParserOk
    <3>2. QED
      BY <3>1
  <2>2. CASE commands < at
    BY <1>1, <1>3, <2>1, <2>2 DEF Fresh
  <2>3. CASE commands = at /\ Tok(at) # "eof" /\ val = 0 /\ (todo = <<>> \/ Doing("unary"))
    <3>1. todo # <<>>
      BY <1>1 DEF Parse, ParsePrimary, ParseNumberExpr, ParseVariable, ParseCall, ParseParenExpr,
        ParseIfExpr, ParseForExpr, ParseVarExpr, NoPrimary, ParseUnary, ParseBinOpRHS, Finish,
        MoreArgs, CloseParen, IfPart, ForPart, ParseVarName, ParseVarRest, ParseVarBody,
        UnaryOperator, RightOperand, Merge, Reading, Doing
    <3>2. Moved
      BY <1>3, <2>3, <3>1
    <3>3. CASE at < at'
      BY <1>1, <2>1, <2>3, <3>3 DEF Fresh
    <3>4. CASE at <= at' /\ ~ (at < at') /\ val' = 0 /\ todo' = <<>>
      <4>1. at' = at
        BY <2>1, <3>4
      <4>2. Tok(at)' = Tok(at)
        BY <1>2, <4>1 DEF Tok
      <4>3. QED
        BY <1>1, <2>3, <3>4, <4>1, <4>2 DEF Fresh
    <3>5. QED
      BY <2>1, <3>2, <3>3, <3>4 DEF Moved
  <2>4. QED
    BY <1>1, <2>2, <2>3 DEF Fresh
<1>9. QED
  BY <1>1, <1>4, <1>5, <1>6, <1>7, <1>8 DEF ReadOk

LEMMA ParseFailedOk ==
  ASSUME ReadOk, ParseFailed
  PROVE  ReadOk'
<1>1. /\ phase = "parsing" /\ todo = <<>> /\ val = 0 /\ GoOn(Recover(at)) /\ commands' = commands
      /\ commands \in Nat /\ at \in 1 .. Len(toks) + 1
  BY DEF ParseFailed, Parsed, ReadOk
<1>2. Len(toks) \in Nat
  BY TokFacts DEF ReadOk
<1>3. at \in Nat \ {0} /\ at <= Len(toks) + 1
  BY <1>1, <1>2
<1>4. /\ Recover(at) = Past(at) /\ Past(at) \in at .. Len(toks) + 1
      /\ Tok(at) # "eof" => Past(at) \in at + 1 .. Len(toks) + 1
  BY <1>3, RecoverOk
<1>5. commands < at \/ (commands = at /\ Tok(at) # "eof")
  BY <1>1 DEF ReadOk, Fresh
<1>6. commands < Past(at) /\ Past(at) \in Nat /\ Past(at) <= Len(toks) + 1 /\ at <= Past(at)
  BY <1>1, <1>2, <1>3, <1>4, <1>5
<1>7. QED
  BY <1>1, <1>4, <1>6, GoOnOk

(* What does not change the tree, and no more than the precedence of the   *)
(* operator that is defined.                                               *)
LEMMA ReadStays ==
  ASSUME ReadOk, UNCHANGED <<toks, at, ast, val, proto, commands>>,
         phase' \in {"ready", "generating", "undefined"}, commands < at,
         prec' = prec \/ \E p \in 0 .. 100 : SetPrecedence(p)
  PROVE  ReadOk'
<1>1. prec' \in [Ascii -> 0 .. 100]
  <2>1. prec \in [Ascii -> 0 .. 100] /\ (proto.kind = "binary" => proto.name \in Ascii)
    BY DEF ReadOk, InputOk, ProtoOk
  <2>2. QED
    BY <2>1 DEF SetPrecedence
<1>2. InputOk' /\ ProtoOk(proto, 1)' /\ TreeOk(ast, at)'
  <2>1. \A i : Tok(i)' = Tok(i)
    BY SameTokens
  <2>2. TreeOk(ast, at)' <=> TreeOk(ast, at)
    BY SameTokens
  <2>3. QED
    BY <1>1, <2>1, <2>2 DEF ReadOk, InputOk, ProtoOk
<1>3. Fresh'
  BY DEF Fresh
<1>4. QED
  BY <1>2, <1>3 DEF ReadOk

LEMMA FunctionOk ==
  ASSUME ReadOk, FunctionCodegen \/ Refuse \/ CodegenStep \/ AssignUndefined \/ EndFunction
  PROVE  ReadOk' /\ commands < at
<1>1. proto.kind = "binary" => proto.prec \in 0 .. 100
  BY DEF ReadOk, ProtoOk
<1>2. CASE FunctionCodegen \/ Refuse
  <2>1. phase = "parsing" /\ todo = <<>> /\ val # 0
    BY <1>2 DEF FunctionCodegen, Refuse, Parsed
  <2>2. commands < at
    BY <2>1 DEF ReadOk, Fresh
  <2>3. prec' = prec \/ \E p \in 0 .. 100 : SetPrecedence(p)
    BY <1>1, <1>2 DEF FunctionCodegen, Refuse, SetPrecedence
  <2>4. QED
    BY <1>2, <2>2, <2>3, ReadStays DEF FunctionCodegen, Refuse
<1>3. CASE CodegenStep
  <2>1. phase = "generating" /\ commands < at
    BY <1>3 DEF CodegenStep, ReadOk, Fresh
  <2>2. Same
    BY <1>3 DEF CodegenStep, Codegenerate, RightCodegen, Propagate, Generate, Call, Result, Value,
      NumberCodegen, VariableCodegen, UseVariable, UnaryCodegen, CallUnary, AssignCodegen, Store,
      BinaryCodegen, CallBinary, CallCodegen, ArgCodegen, IfCodegen, ThenCodegen, ElseCodegen, Phi,
      ForCodegen, LoopCodegen, AfterLoop, VarCodegen, Lets, BindLet, Restore
  <2>3. QED
    BY <1>3, <2>1, <2>2, ReadStays DEF CodegenStep, Same
<1>4. CASE AssignUndefined
  <2>1. phase = "generating" /\ commands < at
    BY <1>4 DEF AssignUndefined, ReadOk, Fresh
  <2>2. QED
    BY <1>4, <2>1, ReadStays DEF AssignUndefined
<1>5. CASE EndFunction
  <2>1. phase = "generating" /\ commands < at
    BY <1>5 DEF EndFunction, ReadOk, Fresh
  <2>2. prec' = prec \/ \E p \in 0 .. 100 : SetPrecedence(p)
    BY <1>5 DEF EndFunction
  <2>3. QED
    BY <1>5, <2>1, <2>2, ReadStays DEF EndFunction
<1>6. QED
  BY <1>2, <1>3, <1>4, <1>5

LEMMA ReadNext ==
  ASSUME ReadOk, [Next]_vars
  PROVE  ReadOk'
<1>1. CASE Next
  BY <1>1, HandlersOk, ParseStepOk, ParseFailedOk, FunctionOk DEF Next
<1>2. CASE UNCHANGED vars
  <2>1. UNCHANGED <<toks, prec, at, ast, val, todo, proto, phase, commands>>
    BY <1>2 DEF vars
  <2>2. /\ ParserOk(ast, todo, val, at)' <=> ParserOk(ast, todo, val, at)
        /\ TreeOk(ast, at)' <=> TreeOk(ast, at)
    BY <2>1, SameParser, SameTokens
  <2>3. \A i : Tok(i)' = Tok(i)
    BY <2>1, SameTokens
  <2>4. Fresh' <=> Fresh
    BY <2>1, <2>3 DEF Fresh, Doing
  <2>5. QED
    BY <2>1, <2>2, <2>3, <2>4 DEF ReadOk, InputOk, ProtoOk
<1>3. QED
  BY <1>1, <1>2

LEMMA ReadAlways == Spec => []ReadOk
<1>1. Init => ReadOk
  BY ReadInit
<1>2. ReadOk /\ [Next]_vars => ReadOk'
  BY ReadNext
<1>3. QED
  BY <1>1, <1>2, PTL DEF Spec

(* Of every command a token has been read when the next one is looked at.  *)
THEOREM AlwaysReads == Spec => []Progress
<1>1. ReadOk => Progress
  BY DEF ReadOk, Fresh, Progress
<1>2. QED
  BY <1>1, ReadAlways, PTL

(* Operators bind by their precedence, in expressions of any length.       *)
THEOREM OperatorsBind == Spec => []PrecedenceKept
<1>1. ReadOk => PrecedenceKept
  <2> SUFFICES ASSUME ReadOk, phase = "parsing", NEW k \in DOMAIN ast
               PROVE  /\ ast[k].t = "binary" => LeftOperandOK(ast[k]) /\ RightOperandOK(ast[k])
                      /\ ast[k].t = "unary" => UnaryOperandOK(ast[k])
    BY DEF PrecedenceKept
  <2>1. OperandsOk(ast, ast[k])
    BY DEF ReadOk, ParserOk, Precedences
  <2>2. QED
    BY <2>1 DEF OperandsOk, LeftOk, LeftOperandOK, RightOperandOK, UnaryOperandOK
<1>2. QED
  BY <1>1, ReadAlways, PTL

-----------------------------------------------------------------------------
(* The blocks of a function.                                               *)
CodeOk(c) ==
  /\ c = [blocks |-> c.blocks, inside |-> c.inside, at |-> c.at, uses |-> c.uses]
  /\ IsSeq(c.blocks) /\ \A b \in DOMAIN c.blocks : IsSeq(c.blocks[b])
  /\ c.at \in c.inside /\ c.inside \subseteq DOMAIN c.blocks

LEMMA NewFunctionOk ==
  /\ CodeOk(NewFunction) /\ NewFunction.uses = {} /\ NewFunction.inside = {1} /\ NewFunction.at = 1
  /\ DOMAIN NewFunction.blocks = {1} /\ NewFunction.blocks[1] = <<>>
<1> DEFINE bs == <<<<>>>>
<1>1. bs \in Seq({<<>>}) /\ DOMAIN bs = {1} /\ bs[1] = <<>>
  OBVIOUS
<1>2. IsSeq(bs) /\ IsSeq(<<>>)
  BY <1>1, <<>> \in Seq({}) DEF IsSeq
<1>3. NewFunction = [blocks |-> bs, inside |-> {1}, at |-> 1, uses |-> {}]
  BY DEF NewFunction
<1> HIDE DEF bs
<1>4. QED
  BY <1>1, <1>2, <1>3 DEF CodeOk

LEMMA InsertFacts ==
  ASSUME NEW c, CodeOk(c), NEW op, NEW args
  PROVE  LET d == Insert(c, op, args)
         IN  /\ CodeOk(d) /\ DOMAIN d.blocks = DOMAIN c.blocks
             /\ d.blocks[c.at] = Append(c.blocks[c.at], [op |-> op, args |-> args])
             /\ \A b \in DOMAIN c.blocks : b # c.at => d.blocks[b] = c.blocks[b]
             /\ d.inside = c.inside /\ d.at = c.at /\ d.uses = c.uses
<1> DEFINE i == [op |-> op, args |-> args]
           a == c.at
           old == c.blocks
           block == Append(old[a], i)
           bs == [old EXCEPT ![a] = block]
           d == Insert(c, op, args)
<1>1. PICK S : old \in Seq(S)
  BY DEF CodeOk, IsSeq
<1>2. a \in DOMAIN old /\ IsSeq(block)
  <2>1. a \in DOMAIN old /\ IsSeq(old[a])
    BY DEF CodeOk
  <2>2. QED
    BY <2>1, AppendFacts
<1>3. d = [blocks |-> bs, inside |-> c.inside, at |-> a, uses |-> c.uses]
  <2>1. c = [blocks |-> old, inside |-> c.inside, at |-> a, uses |-> c.uses]
    BY DEF CodeOk
  <2>2. d = [c EXCEPT !.blocks = bs]
    BY <2>1 DEF Insert
  <2> HIDE DEF bs, old, a, d
  <2>3. QED
    BY <2>1, <2>2
<1> HIDE DEF block
<1>4. bs \in Seq(S \cup {block})
  BY <1>1, <1>2
<1>5. DOMAIN bs = DOMAIN old /\ bs[a] = block /\ \A b \in DOMAIN old : b # a => bs[b] = old[b]
  BY <1>1, <1>2
<1>6. IsSeq(bs)
  BY <1>4 DEF IsSeq
<1> HIDE DEF bs, d
<1>7. CodeOk(d)
  <2>1. \A b \in DOMAIN bs : IsSeq(bs[b])
    BY <1>2, <1>5 DEF CodeOk
  <2>2. a \in c.inside /\ c.inside \subseteq DOMAIN bs
    BY <1>5 DEF CodeOk
  <2>3. QED
    BY <1>3, <1>6, <2>1, <2>2 DEF CodeOk
<1>8. QED
  BY <1>3, <1>5, <1>7 DEF d, block

LEMMA CreateFacts ==
  ASSUME NEW c, CodeOk(c), NEW n \in Nat
  PROVE  LET d == CreateBlocks(c, n)
         IN  /\ CodeOk(d) /\ Len(c.blocks) \in Nat /\ DOMAIN c.blocks = 1 .. Len(c.blocks)
             /\ DOMAIN d.blocks = 1 .. Len(c.blocks) + n
             /\ \A b \in DOMAIN c.blocks : d.blocks[b] = c.blocks[b]
             /\ \A b \in Len(c.blocks) + 1 .. Len(c.blocks) + n : d.blocks[b] = <<>>
             /\ d.inside = c.inside /\ d.at = c.at /\ d.uses = c.uses
<1> DEFINE old == c.blocks
           m == Len(old)
           new == [i \in 1 .. n |-> <<>>]
           bs == old \o new
           d == CreateBlocks(c, n)
<1>1. PICK S : old \in Seq(S)
  BY DEF CodeOk, IsSeq
<1> DEFINE Q == S \cup {<<>>}
<1>2. new \in Seq(Q) /\ Len(new) = n /\ DOMAIN new = 1 .. n /\ \A i \in 1 .. n : new[i] = <<>>
  <2>1. new \in [1 .. n -> Q]
    OBVIOUS
  <2> HIDE DEF Q
  <2>2. new \in Seq(Q)
    BY <2>1, SeqDef
  <2>3. QED
    BY <2>2
<1>3. old \in Seq(Q) /\ m \in Nat /\ DOMAIN old = 1 .. m
  BY <1>1
<1>4. d = [blocks |-> bs, inside |-> c.inside, at |-> c.at, uses |-> c.uses]
  <2>1. c = [blocks |-> old, inside |-> c.inside, at |-> c.at, uses |-> c.uses]
    BY DEF CodeOk
  <2>2. d = [c EXCEPT !.blocks = bs]
    BY DEF CreateBlocks
  <2> HIDE DEF bs, old, d
  <2>3. QED
    BY <2>1, <2>2
<1> HIDE DEF Q, new, d
<1>5. /\ bs \in Seq(Q) /\ Len(bs) = m + n
      /\ \A i \in 1 .. m + n : bs[i] = IF i <= m THEN old[i] ELSE new[i - m]
  <2> HIDE DEF old
  <2>1. QED
    BY <1>2, <1>3, ConcatProperties
<1> HIDE DEF bs, old, m
<1>6. DOMAIN bs = 1 .. m + n
  BY <1>5
<1>7. \A b \in DOMAIN old : bs[b] = old[b]
  BY <1>3, <1>5
<1>8. \A b \in m + 1 .. m + n : bs[b] = <<>>
  <2> TAKE b \in m + 1 .. m + n
  <2>1. b \in 1 .. m + n /\ ~ (b <= m) /\ b - m \in 1 .. n
    BY <1>3
  <2>2. QED
    BY <1>2, <1>5, <2>1
<1>9. IsSeq(bs) /\ DOMAIN old \subseteq DOMAIN bs
  BY <1>3, <1>5, <1>6 DEF IsSeq
<1>10. \A b \in DOMAIN bs : IsSeq(bs[b])
  <2> TAKE b \in DOMAIN bs
  <2>1. CASE b \in DOMAIN old
    BY <1>7, <2>1 DEF CodeOk, old
  <2>2. CASE b \notin DOMAIN old
    <3>1. bs[b] = <<>>
      BY <1>3, <1>6, <1>8, <2>2
    <3>2. QED
      BY <3>1, <<>> \in Seq({}) DEF IsSeq
  <2>3. QED
    BY <2>1, <2>2
<1>11. CodeOk(d)
  BY <1>4, <1>9, <1>10 DEF CodeOk, old
<1>12. QED
  BY <1>3, <1>4, <1>6, <1>7, <1>8, <1>11 DEF d, old, m

LEMMA SetFacts ==
  ASSUME NEW c, CodeOk(c), NEW b \in DOMAIN c.blocks
  PROVE  LET d == SetInsertPoint(c, b)
         IN  /\ CodeOk(d) /\ d.blocks = c.blocks /\ d.inside = c.inside \cup {b} /\ d.at = b
             /\ d.uses = c.uses
<1> DEFINE d == SetInsertPoint(c, b)
<1>1. c = [blocks |-> c.blocks, inside |-> c.inside, at |-> c.at, uses |-> c.uses]
  BY DEF CodeOk
<1>2. d = [blocks |-> c.blocks, inside |-> c.inside \cup {b}, at |-> b, uses |-> c.uses]
  BY <1>1 DEF SetInsertPoint
<1> HIDE DEF d
<1>3. QED
  BY <1>2 DEF CodeOk, d

-----------------------------------------------------------------------------
(* The stack of Codegen.                                                   *)
LEMMA Popped ==
  ASSUME NEW t, IsSeq(t), t # <<>>
  PROVE  t = Push(Head(t), Tail(t)) /\ IsSeq(Tail(t))
<1>1. PICK S : t \in Seq(S)
  BY DEF IsSeq
<1> DEFINE h == <<Head(t)>>
           r == Tail(t)
<1>2. /\ h \in Seq(S) /\ r \in Seq(S) /\ Len(h) = 1 /\ h[1] = t[1] /\ Len(t) \in Nat \ {0}
      /\ Len(r) = Len(t) - 1 /\ \A i \in 1 .. Len(t) - 1 : r[i] = t[i + 1]
  BY <1>1
<1> HIDE DEF h, r
<1>3. /\ h \o r \in Seq(S) /\ Len(h \o r) = Len(h) + Len(r)
      /\ \A i \in 1 .. Len(h) + Len(r) : (h \o r)[i] = IF i <= Len(h) THEN h[i] ELSE r[i - Len(h)]
  BY <1>2, ConcatProperties
<1>4. \A i \in 1 .. Len(t) : t[i] = (h \o r)[i]
  <2> TAKE i \in 1 .. Len(t)
  <2>1. (h \o r)[i] = IF i <= 1 THEN h[i] ELSE r[i - 1]
    BY <1>2, <1>3
  <2>2. CASE i = 1
    BY <1>2, <2>1, <2>2
  <2>3. CASE i # 1
    <3>1. i - 1 \in 1 .. Len(t) - 1 /\ ~ (i <= 1) /\ (i - 1) + 1 = i
      BY <1>2, <2>3
    <3>2. QED
      BY <1>2, <2>1, <3>1
  <2>4. QED
    BY <2>2, <2>3
<1>5. Len(h \o r) = Len(t)
  BY <1>2, <1>3
<1>6. t = h \o r
  BY <1>1, <1>3, <1>4, <1>5, SeqEqual
<1>7. QED
  BY <1>2, <1>6 DEF h, r, Push, IsSeq

Slots == 0 .. Len(toks)
Doings == {"codegen", "unop", "store", "right", "binop", "arguments", "then", "else", "phi", "loop",
           "afterloop", "lets", "bind", "restore"}

(* A frame of a function with n blocks.                                    *)
OldOk(f) ==
  /\ f = [do |-> f.do, e |-> f.e, old |-> f.old] /\ f.old \in Seq(Slots)
  /\ IF f.do = "restore" THEN Len(f.old) + 1 = Len(ast[f.e].kids) ELSE Len(f.old) < Len(ast[f.e].kids)
  /\ f.do = "bind" => Len(f.old) + 1 # Len(ast[f.e].kids)

JobOk(n, f) ==
  /\ f.e \in DOMAIN ast /\ f.do \in Doings
  /\ f.do = "unop" => ast[f.e].t = "unary"
  /\ f.do \in {"store", "right", "binop"} => ast[f.e].t = "binary"
  /\ f.do = "arguments" => /\ ast[f.e].t = "call" /\ f = [do |-> "arguments", e |-> f.e, next |-> f.next]
                           /\ f.next \in 1 .. Len(ast[f.e].kids) + 1
  /\ f.do \in {"then", "else", "phi"} => ast[f.e].t = "if"
  /\ f.do = "else" => f.begin \in 1 .. n /\ f.begin + 1 \in 1 .. n
  /\ f.do = "phi" => f.then \in 1 .. n /\ f.merge \in 1 .. n
  /\ f.do \in {"loop", "afterloop"} => ast[f.e].t = "for"
  /\ f.do = "afterloop" => f.loop \in 1 .. n /\ f.old \in Slots
  /\ f.do \in {"lets", "bind", "restore"} => ast[f.e].t = "varin" /\ OldOk(f)

Jobs(n, t) == IsSeq(t) /\ \A k \in DOMAIN t : JobOk(n, t[k])

LEMMA JobsPush ==
  \A n, t, f : Jobs(n, t) /\ JobOk(n, f) => Jobs(n, Push(f, t))
<1> TAKE n, t, f
<1> HAVE Jobs(n, t) /\ JobOk(n, f)
<1> DEFINE r == Push(f, t)
<1>1. IsSeq(t)
  BY DEF Jobs
<1>2. /\ IsSeq(r) /\ r[1] = f
      /\ \A k \in DOMAIN r : k \in Nat /\ (k = 1 \/ (k - 1 \in DOMAIN t /\ r[k] = t[k - 1]))
  BY <1>1, PushFacts
<1> HIDE DEF r
<1>3. ASSUME NEW k \in DOMAIN r PROVE JobOk(n, r[k])
  BY <1>2 DEF Jobs
<1>4. QED
  BY <1>2, <1>3 DEF Jobs, r

LEMMA JobsPop ==
  ASSUME NEW n, NEW t, Jobs(n, t), t # <<>>
  PROVE  JobOk(n, Head(t)) /\ Jobs(n, Tail(t)) /\ t = Push(Head(t), Tail(t)) /\ IsSeq(Tail(t))
<1>1. IsSeq(t)
  BY DEF Jobs
<1>2. /\ IsSeq(Tail(t)) /\ 1 \in DOMAIN t /\ Head(t) = t[1]
      /\ \A k \in DOMAIN Tail(t) : k \in Nat /\ k + 1 \in DOMAIN t /\ Tail(t)[k] = t[k + 1]
  BY <1>1, TailFacts
<1>3. QED
  BY <1>1, <1>2, Popped DEF Jobs

LEMMA JobGrows ==
  ASSUME NEW n \in Nat, NEW m \in Nat, n <= m
  PROVE  /\ \A f : JobOk(n, f) => JobOk(m, f)
         /\ \A t : Jobs(n, t) => Jobs(m, t)
<1>1. \A b \in 1 .. n : b \in 1 .. m
  OBVIOUS
<1>2. ASSUME NEW f, JobOk(n, f) PROVE JobOk(m, f)
  BY <1>1, <1>2 DEF JobOk
<1>3. QED
  BY <1>2 DEF Jobs

(* The value is all of what was read behind the prototype.                 *)
WholeOk ==
  /\ val \in DOMAIN ast /\ proto.at <= ast[val].from
  /\ \A d \in DOMAIN ast : ast[d].to < proto.at \/ Inside(ast, d, val)

Typed(bindings, c, t) ==
  bindings \in [Ident -> Slots] /\ CodeOk(c) /\ Jobs(Len(c.blocks), t)

GenOk ==
  /\ ReadOk /\ names \in [Ident -> Slots] /\ CodeOk(code)
  /\ phase = "parsing" => ~ ok
  /\ phase = "generating" => WholeOk /\ Jobs(Len(code.blocks), todo)

(* The subtrees of a node.                                                 *)
LEMMA KidFacts ==
  ASSUME ReadOk, NEW k \in DOMAIN ast
  PROVE  /\ ast[k].kids \in Seq(DOMAIN ast) /\ Len(ast[k].kids) \in Nat
         /\ DOMAIN ast[k].kids = 1 .. Len(ast[k].kids)
         /\ \A i \in 1 .. Len(ast[k].kids) : ast[k].kids[i] \in DOMAIN ast
         /\ ast[k].t = "unary" => ast[k].kids[1] \in DOMAIN ast
         /\ ast[k].t \in {"binary", "if", "for"} => ast[k].kids[1] \in DOMAIN ast /\ ast[k].kids[2] \in DOMAIN ast
         /\ ast[k].t = "if" => ast[k].kids[3] \in DOMAIN ast
         /\ ast[k].t = "for" => Len(ast[k].kids) \in {3, 4} /\ ast[k].kids[3] \in DOMAIN ast
                                /\ ast[k].kids[Len(ast[k].kids)] \in DOMAIN ast
         /\ NodeOk(ast, k)
<1>1. NodeOk(ast, k)
  BY DEF ReadOk, TreeOk
<1>2. ast[k].kids \in Seq(DOMAIN ast) /\ Shape(ast, ast[k])
  BY <1>1 DEF NodeOk, InOrder
<1> DEFINE kids == ast[k].kids
<1>3. Len(kids) \in Nat /\ DOMAIN kids = 1 .. Len(kids) /\ \A i \in 1 .. Len(kids) : kids[i] \in DOMAIN ast
  BY <1>2
<1>4. ast[k].t = "unary" => Len(kids) = 1
  BY <1>2 DEF Shape
<1>5. ast[k].t = "binary" => Len(kids) = 2
  BY <1>2 DEF Shape
<1>6. ast[k].t = "if" => Len(kids) = 3
  BY <1>2 DEF Shape
<1>7. ast[k].t = "for" => Len(kids) \in {3, 4}
  BY <1>2 DEF Shape
<1> HIDE DEF kids
<1>8. ast[k].t = "unary" => kids[1] \in DOMAIN ast
  BY <1>3, <1>4
<1>9. ast[k].t = "binary" => kids[1] \in DOMAIN ast /\ kids[2] \in DOMAIN ast
  BY <1>3, <1>5
<1>10. ast[k].t = "if" => kids[1] \in DOMAIN ast /\ kids[2] \in DOMAIN ast /\ kids[3] \in DOMAIN ast
  <2>1. SUFFICES ASSUME ast[k].t = "if" PROVE 1 \in 1 .. Len(kids) /\ 2 \in 1 .. Len(kids) /\ 3 \in 1 .. Len(kids)
    BY <1>3
  <2>2. Len(kids) = 3
    BY <1>6, <2>1
  <2>3. QED
    BY <2>2
<1>11. ast[k].t = "for" => /\ kids[1] \in DOMAIN ast /\ kids[2] \in DOMAIN ast /\ kids[3] \in DOMAIN ast
                           /\ kids[Len(kids)] \in DOMAIN ast
  BY <1>3, <1>7
<1>12. QED
  BY <1>1, <1>2, <1>3, <1>7, <1>8, <1>9, <1>10, <1>11 DEF kids

(* The places variables are declared at.                                   *)
LEMMA PlaceFacts ==
  ASSUME ReadOk, NEW k \in DOMAIN ast
  PROVE  /\ Len(toks) \in Nat /\ ast[k].from \in Nat \ {0} /\ ast[k].to \in Nat /\ ast[k].from <= ast[k].to
         /\ ast[k].to <= Len(toks) /\ Slots \subseteq Nat /\ 0 \in Slots
         /\ ast[k].t \in {"var", "for", "let"} => ast[k].n \in Ident /\ ast[k].at \in Slots
<1>1. Len(toks) \in Nat /\ NodeOk(ast, k)
  BY TokFacts DEF ReadOk, TreeOk
<1>2. ast[k].from \in 1 .. Len(toks) /\ ast[k].to \in ast[k].from .. Len(toks) /\ Shape(ast, ast[k])
  BY <1>1 DEF NodeOk
<1>3. ast[k].t = "for" => ast[k].at \in Slots
  <2>1. SUFFICES ASSUME ast[k].t = "for" PROVE ast[k].at \in Slots
    OBVIOUS
  <2> DEFINE c == ast[k].kids[1]
  <2>2. c \in DOMAIN ast
    BY <2>1, KidFacts
  <2>3. ast[c].from \in 1 .. Len(toks)
    BY <2>2 DEF ReadOk, TreeOk, NodeOk
  <2>4. ast[k].at = ast[k].from + 1 /\ ast[k].at < ast[c].from
    BY <1>2, <2>1 DEF Shape
  <2>5. QED
    BY <1>1, <1>2, <2>3, <2>4 DEF Slots
<1>4. ast[k].t \in {"var", "let"} => ast[k].at \in Slots
  BY <1>1, <1>2 DEF Shape, Slots
<1>5. ast[k].t \in {"var", "for", "let"} => ast[k].n \in Ident
  BY <1>2 DEF Shape
<1>6. QED
  BY <1>1, <1>2, <1>3, <1>4, <1>5 DEF Slots

LEMMA GenFacts ==
  ASSUME GenOk, phase = "generating", todo # <<>>
  PROVE  /\ JobOk(Len(code.blocks), Frame) /\ Jobs(Len(code.blocks), Tail(todo)) /\ IsSeq(Tail(todo))
         /\ todo = Push(Frame, Tail(todo)) /\ ReadOk /\ CodeOk(code) /\ names \in [Ident -> Slots]
         /\ Frame.e \in DOMAIN ast /\ Len(code.blocks) \in Nat
         /\ DOMAIN code.blocks = 1 .. Len(code.blocks) /\ code.at \in 1 .. Len(code.blocks)
<1>1. Jobs(Len(code.blocks), todo) /\ CodeOk(code)
  BY DEF GenOk
<1>2. /\ JobOk(Len(code.blocks), Frame) /\ Jobs(Len(code.blocks), Tail(todo)) /\ IsSeq(Tail(todo))
      /\ todo = Push(Frame, Tail(todo))
  BY <1>1, JobsPop DEF Frame
<1>3. /\ Len(code.blocks) \in Nat /\ DOMAIN code.blocks = 1 .. Len(code.blocks)
      /\ code.at \in DOMAIN code.blocks
  BY <1>1 DEF CodeOk, IsSeq
<1>4. QED
  BY <1>1, <1>2, <1>3 DEF GenOk, JobOk

-----------------------------------------------------------------------------
(* The steps of Codegen.                                                   *)
Job(what, e) == [do |-> what, e |-> e]
Bindings == {"lets", "bind", "restore"}
Makers == {"else", "phi", "afterloop"}

(* Frames that differ in what is to be done next.                          *)
Alike(f, g) ==
  /\ g.e = f.e /\ f.do \notin Makers /\ g.do \notin Makers
  /\ IF f.do \in Bindings THEN g.do \in Bindings /\ g.old = f.old ELSE g.do \notin Bindings

(* Node c begins at place p, or is a subtree of a node that does, and that *)
(* binds no variable in this subtree.                                      *)
Leads(c, p) ==
  /\ c \in DOMAIN ast
  /\ \/ ast[c].from = p
     \/ \E k \in DOMAIN ast : \E i \in DOMAIN ast[k].kids :
          /\ c = ast[k].kids[i] /\ p = ast[k].from /\ (i = 1 \/ ast[k].t \notin {"for", "varin"})

(* The node that is generated, or what is bound next by the node, begins   *)
(* there.                                                                  *)
Entry(f) ==
  IF f.do = "afterloop" THEN ast[ast[f.e].kids[2]].from
  ELSE IF f.do \in Bindings THEN ast[ast[f.e].kids[Len(f.old) + 1]].from
  ELSE ast[f.e].from

(* A subtree is generated.                                                 *)
Descends(c, g) ==
  /\ code' = code /\ names' = names /\ ok'
  /\ todo' = Push(Job("codegen", c), Push(g, Tail(todo)))
  /\ JobOk(Len(code.blocks), g) /\ Alike(Frame, g) /\ Leads(c, Entry(Frame))
  /\ g.do = "binop" => (g.left <=> ok)
  /\ Frame.do # "binop"

LEMMA TwoPushed ==
  ASSUME GenOk, phase = "generating", todo # <<>>, NEW what, NEW c, NEW bindings, NEW d,
         Call(d, bindings, Codegen(c) \o After(what))
  PROVE  /\ code' = d /\ names' = bindings /\ ok'
         /\ todo' = Push(Job("codegen", c), Push(Job(what, Frame.e), Tail(todo)))
<1>1. todo' = (<<Job("codegen", c)>> \o <<Job(what, Frame.e)>>) \o Tail(todo)
  BY DEF Call, Codegen, After, Job
<1>2. IsSeq(Tail(todo))
  BY GenFacts
<1> DEFINE x == Job("codegen", c)
           y == Job(what, Frame.e)
           t == Tail(todo)
<1>3. todo' = (<<x>> \o <<y>>) \o t /\ IsSeq(t)
  BY <1>1, <1>2
<1> HIDE DEF x, y, t
<1>4. todo' = Push(x, Push(y, t))
  BY <1>3, PushTwo
<1>5. QED
  BY <1>4 DEF x, y, t, Call

LEMMA JobFields ==
  ASSUME NEW what, NEW e
  PROVE  Job(what, e).do = what /\ Job(what, e).e = e
BY DEF Job

LEMMA KidLeads ==
  ASSUME ReadOk, NEW k \in DOMAIN ast, NEW i \in 1 .. Len(ast[k].kids),
         i = 1 \/ ast[k].t \notin {"for", "varin"}
  PROVE  Leads(ast[k].kids[i], ast[k].from)
<1>1. i \in DOMAIN ast[k].kids /\ ast[k].kids[i] \in DOMAIN ast
  BY KidFacts
<1>2. QED
  BY <1>1, Zenon DEF Leads

LEMMA OneKidLess ==
  ASSUME ReadOk, NEW k \in DOMAIN ast
  PROVE  /\ ast[k].t = "unary" => 1 \in 1 .. Len(ast[k].kids)
         /\ ast[k].t = "binary" => 1 \in 1 .. Len(ast[k].kids) /\ 2 \in 1 .. Len(ast[k].kids)
         /\ ast[k].t = "if" => /\ 1 \in 1 .. Len(ast[k].kids) /\ 2 \in 1 .. Len(ast[k].kids)
                               /\ 3 \in 1 .. Len(ast[k].kids)
         /\ ast[k].t = "for" => /\ 1 \in 1 .. Len(ast[k].kids) /\ 2 \in 1 .. Len(ast[k].kids)
                                /\ 3 \in 1 .. Len(ast[k].kids) /\ Len(ast[k].kids) \in 1 .. Len(ast[k].kids)
         /\ ast[k].t = "varin" => 1 \in 1 .. Len(ast[k].kids) /\ Len(ast[k].kids) \in 1 .. Len(ast[k].kids)
<1> DEFINE n == Len(ast[k].kids)
<1>1. Shape(ast, ast[k]) /\ n \in Nat
  BY KidFacts DEF NodeOk
<1>2. /\ ast[k].t = "unary" => n = 1
      /\ ast[k].t = "binary" => n = 2
      /\ ast[k].t = "if" => n = 3
      /\ ast[k].t = "for" => n \in {3, 4}
      /\ ast[k].t = "varin" => n >= 1
  BY <1>1 DEF Shape
<1> HIDE DEF n
<1>3. ast[k].t = "unary" => 1 \in 1 .. n
  BY <1>1, <1>2
<1>4. ast[k].t = "binary" => 1 \in 1 .. n /\ 2 \in 1 .. n
  BY <1>1, <1>2
<1>5. ast[k].t = "if" => 1 \in 1 .. n /\ 2 \in 1 .. n /\ 3 \in 1 .. n
  <2> SUFFICES ASSUME ast[k].t = "if" PROVE n = 3
    OBVIOUS
  <2> QED
    BY <1>2
<1>6. ast[k].t = "for" => 1 \in 1 .. n /\ 2 \in 1 .. n /\ 3 \in 1 .. n /\ n \in 1 .. n
  <2> SUFFICES ASSUME ast[k].t = "for" PROVE n \in {3, 4}
    OBVIOUS
  <2> QED
    BY <1>2
<1>7. ast[k].t = "varin" => 1 \in 1 .. n /\ n \in 1 .. n
  <2> SUFFICES ASSUME ast[k].t = "varin" PROVE n >= 1
    BY <1>1
  <2> QED
    BY <1>2
<1>8. QED
  BY <1>3, <1>4, <1>5, <1>6, <1>7 DEF n

(* A subtree is generated before anything is done for a node.              *)
LEMMA SubtreeFirst ==
  ASSUME GenOk, phase = "generating", todo # <<>>, Frame.do \in {"codegen", "right"},
         NEW i \in 1 .. Len(Tree.kids), i = 1 \/ Tree.t \notin {"for", "varin"},
         NEW g, g.e = Frame.e, g.do \notin Makers \cup Bindings,
         JobOk(Len(code.blocks), g), g.do = "binop" => (g.left <=> ok),
         code' = code, names' = names, ok',
         todo' = Push(Job("codegen", Tree.kids[i]), Push(g, Tail(todo)))
  PROVE  Descends(Tree.kids[i], g)
<1>1. Leads(Tree.kids[i], Tree.from)
  BY GenFacts, KidLeads DEF Tree
<1>2. Entry(Frame) = Tree.from
  BY DEF Entry, Bindings, Tree
<1>3. Alike(Frame, g)
  BY DEF Alike, Bindings, Makers
<1>4. QED
  BY <1>1, <1>2, <1>3 DEF Descends

LEMMA FirstSubtree ==
  ASSUME GenOk, phase = "generating",
         UnaryCodegen \/ AssignCodegen \/ BinaryCodegen \/ IfCodegen \/ ForCodegen
  PROVE  \E c, g : Descends(c, g)
<1> DEFINE n == Len(code.blocks)
           e == Frame.e
<1>1. todo # <<>> /\ Frame.do = "codegen"
  BY DEF UnaryCodegen, AssignCodegen, BinaryCodegen, IfCodegen, ForCodegen, Generating, Doing, Frame
<1>2. /\ ReadOk /\ e \in DOMAIN ast /\ n \in Nat /\ ast[e] = Tree
  BY <1>1, GenFacts DEF Tree
<1>3. ASSUME NEW i \in 1 .. Len(Tree.kids), NEW what, JobOk(n, Job(what, e)),
             what \in {"unop", "store", "right", "then", "loop"},
             i = 1 \/ Tree.t \notin {"for", "varin"},
             Call(code, names, Codegen(Tree.kids[i]) \o After(what))
      PROVE  \E c, g : Descends(c, g)
  <2> DEFINE g == Job(what, e)
  <2>1. /\ code' = code /\ names' = names /\ ok'
        /\ todo' = Push(Job("codegen", Tree.kids[i]), Push(g, Tail(todo)))
    BY <1>1, <1>3, TwoPushed
  <2>2. g.e = Frame.e /\ g.do = what /\ JobOk(n, g)
    BY <1>3, JobFields
  <2> HIDE DEF g
  <2>3. Descends(Tree.kids[i], g)
    BY <1>1, <1>3, <2>1, <2>2, SubtreeFirst DEF Bindings, Makers
  <2>4. QED
    BY <2>3
<1>4. CASE UnaryCodegen
  <2>1. Tree.t = "unary" /\ Call(code, names, Codegen(Tree.kids[1]) \o After("unop"))
    BY <1>4 DEF UnaryCodegen, Generating
  <2>2. 1 \in 1 .. Len(Tree.kids)
    BY <1>2, <2>1, OneKidLess
  <2>3. JobOk(n, Job("unop", e))
    BY <1>2, <2>1 DEF Job, JobOk, Doings
  <2>4. QED
    BY <1>3, <2>1, <2>2, <2>3
<1>5. CASE AssignCodegen
  <2>1. Tree.t = "binary" /\ Call(code, names, Codegen(Tree.kids[2]) \o After("store"))
    BY <1>5 DEF AssignCodegen, Generating
  <2>2. 2 \in 1 .. Len(Tree.kids)
    BY <1>2, <2>1, OneKidLess
  <2>3. JobOk(n, Job("store", e))
    BY <1>2, <2>1 DEF Job, JobOk, Doings
  <2>4. QED
    BY <1>3, <2>1, <2>2, <2>3
<1>6. CASE BinaryCodegen
  <2>1. Tree.t = "binary" /\ Call(code, names, Codegen(Tree.kids[1]) \o After("right"))
    BY <1>6 DEF BinaryCodegen, Generating
  <2>2. 1 \in 1 .. Len(Tree.kids)
    BY <1>2, <2>1, OneKidLess
  <2>3. JobOk(n, Job("right", e))
    BY <1>2, <2>1 DEF Job, JobOk, Doings
  <2>4. QED
    BY <1>3, <2>1, <2>2, <2>3
<1>7. CASE IfCodegen
  <2>1. Tree.t = "if" /\ Call(code, names, Codegen(Tree.kids[1]) \o After("then"))
    BY <1>7 DEF IfCodegen, Generating
  <2>2. 1 \in 1 .. Len(Tree.kids)
    BY <1>2, <2>1, OneKidLess
  <2>3. JobOk(n, Job("then", e))
    BY <1>2, <2>1 DEF Job, JobOk, Doings
  <2>4. QED
    BY <1>3, <2>1, <2>2, <2>3
<1>8. CASE ForCodegen
  <2>1. Tree.t = "for" /\ Call(code, names, Codegen(Tree.kids[1]) \o After("loop"))
    BY <1>8 DEF ForCodegen, Generating
  <2>2. 1 \in 1 .. Len(Tree.kids)
    BY <1>2, <2>1, OneKidLess
  <2>3. JobOk(n, Job("loop", e))
    BY <1>2, <2>1 DEF Job, JobOk, Doings
  <2>4. QED
    BY <1>3, <2>1, <2>2, <2>3
<1>9. QED
  BY <1>4, <1>5, <1>6, <1>7, <1>8

LEMMA RightDescends ==
  ASSUME GenOk, phase = "generating", RightCodegen
  PROVE  Descends(Tree.kids[2], [do |-> "binop", e |-> Frame.e, left |-> ok])
<1> DEFINE g == [do |-> "binop", e |-> Frame.e, left |-> ok]
           x == Job("codegen", Tree.kids[2])
           t == Tail(todo)
<1>1. /\ todo # <<>> /\ Frame.do = "right" /\ code' = code /\ names' = names /\ ok'
      /\ todo' = (<<x>> \o <<g>>) \o t
  BY DEF RightCodegen, Doing, Frame, Call, Codegen, Job
<1>2. /\ JobOk(Len(code.blocks), Frame) /\ ReadOk /\ Frame.e \in DOMAIN ast /\ IsSeq(t)
  BY <1>1, GenFacts
<1>3. Tree.t = "binary"
  BY <1>1, <1>2 DEF JobOk, Tree
<1>4. 2 \in 1 .. Len(Tree.kids)
  BY <1>2, <1>3, OneKidLess DEF Tree
<1>5. JobOk(Len(code.blocks), g) /\ g.do = "binop" /\ g.e = Frame.e /\ (g.left <=> ok)
  BY <1>2, <1>3 DEF JobOk, Doings, Tree
<1> HIDE DEF g, x, t
<1>6. todo' = Push(x, Push(g, t))
  BY <1>1, <1>2, PushTwo
<1>7. Descends(Tree.kids[2], g)
  BY <1>1, <1>3, <1>4, <1>5, <1>6, SubtreeFirst DEF x, t, Bindings, Makers
<1>8. QED
  BY <1>7 DEF g

LEMMA ArgDescends ==
  ASSUME GenOk, phase = "generating", ArgCodegen, ~ (Frame.next > Len(Tree.kids))
  PROVE  \E c, g : Descends(c, g)
<1> DEFINE n == Len(code.blocks)
           m == Frame.next
           g == [do |-> "arguments", e |-> Frame.e, next |-> m + 1]
           x == Job("codegen", Tree.kids[m])
           t == Tail(todo)
<1>1. /\ todo # <<>> /\ Frame.do = "arguments" /\ code' = code /\ names' = names /\ ok'
      /\ todo' = (<<x>> \o <<[Frame EXCEPT !.next = @ + 1]>>) \o t
  BY DEF ArgCodegen, Doing, Frame, Call, Codegen, Job
<1>2. /\ JobOk(n, Frame) /\ ReadOk /\ Frame.e \in DOMAIN ast /\ IsSeq(t)
  BY <1>1, GenFacts
<1>3. /\ Tree.t = "call" /\ Frame = [do |-> "arguments", e |-> Frame.e, next |-> m]
      /\ m \in 1 .. Len(Tree.kids) + 1 /\ Len(Tree.kids) \in Nat
  BY <1>1, <1>2, KidFacts DEF JobOk, Tree
<1>4. m \in 1 .. Len(Tree.kids) /\ m + 1 \in 1 .. Len(Tree.kids) + 1
  BY <1>3
<1>5. [Frame EXCEPT !.next = @ + 1] = g
  BY <1>3
<1>6. JobOk(n, g) /\ g.do = "arguments" /\ g.e = Frame.e
  BY <1>2, <1>3, <1>4 DEF JobOk, Doings, Tree
<1>7. todo' = (<<x>> \o <<g>>) \o t
  BY <1>1, <1>5
<1> HIDE DEF g, x, t
<1>8. todo' = Push(x, Push(g, t))
  BY <1>2, <1>7, PushTwo
<1>9. Leads(Tree.kids[m], Tree.from)
  BY <1>2, <1>3, <1>4, KidLeads DEF Tree
<1>10. Entry(Frame) = Tree.from /\ Alike(Frame, g)
  BY <1>1, <1>6 DEF Entry, Bindings, Makers, Tree, Alike
<1>11. Descends(Tree.kids[m], g)
  BY <1>1, <1>6, <1>8, <1>9, <1>10 DEF Descends, x, t
<1>12. QED
  BY <1>11

LEMMA OldFacts ==
  ASSUME GenOk, phase = "generating", todo # <<>>, Frame.do \in Bindings
  PROVE  /\ Tree.t = "varin" /\ Frame = [do |-> Frame.do, e |-> Frame.e, old |-> Frame.old]
         /\ Frame.old \in Seq(Slots) /\ Len(Frame.old) \in Nat /\ DOMAIN Frame.old = 1 .. Len(Frame.old)
         /\ Len(Tree.kids) \in Nat /\ Len(Frame.old) + 1 \in 1 .. Len(Tree.kids)
         /\ Kid \in DOMAIN ast /\ Tree.kids \in Seq(DOMAIN ast) /\ Frame.e \in DOMAIN ast /\ Tree = ast[Frame.e]
         /\ Len(Frame.old) + 1 # Len(Tree.kids) => /\ ast[Kid].t = "let" /\ Len(ast[Kid].kids) \in {0, 1}
                                                   /\ ast[Kid].kids \in Seq(DOMAIN ast)
                                                   /\ Len(Frame.old) + 2 \in 1 .. Len(Tree.kids)
         /\ Frame.do = "restore" => Len(Frame.old) + 1 = Len(Tree.kids)
         /\ Frame.do = "bind" => Len(Frame.old) + 1 # Len(Tree.kids)
<1> DEFINE o == Len(Frame.old)
           m == Len(Tree.kids)
<1>1. /\ JobOk(Len(code.blocks), Frame) /\ ReadOk /\ Frame.e \in DOMAIN ast
  BY GenFacts
<1>2. /\ Tree.t = "varin" /\ OldOk(Frame) /\ Tree = ast[Frame.e]
  BY <1>1 DEF JobOk, Bindings, Tree
<1>3. /\ Tree.kids \in Seq(DOMAIN ast) /\ m \in Nat
      /\ \A i \in 1 .. m : Tree.kids[i] \in DOMAIN ast
  BY <1>1, <1>2, KidFacts
<1>4. /\ Frame.old \in Seq(Slots) /\ Frame = [do |-> Frame.do, e |-> Frame.e, old |-> Frame.old]
      /\ (IF Frame.do = "restore" THEN o + 1 = m ELSE o < m)
      /\ Frame.do = "bind" => o + 1 # m
  BY <1>2 DEF OldOk
<1>5. o \in Nat /\ DOMAIN Frame.old = 1 .. o
  BY <1>4
<1> HIDE DEF o, m
<1>6. o + 1 \in 1 .. m
  BY <1>3, <1>4, <1>5
<1>7. Kid \in DOMAIN ast
  BY <1>3, <1>6 DEF Kid, o
<1>8. ASSUME o + 1 # m
      PROVE  /\ ast[Kid].t = "let" /\ Len(ast[Kid].kids) \in {0, 1} /\ ast[Kid].kids \in Seq(DOMAIN ast)
             /\ o + 2 \in 1 .. m
  <2>1. o + 1 \in 1 .. m - 1 /\ o + 2 \in 1 .. m
    BY <1>3, <1>5, <1>6, <1>8
  <2>2. Shape(ast, Tree)
    BY <1>1, <1>2, KidFacts DEF NodeOk
  <2>3. ast[Kid].t = "let"
    BY <1>2, <2>1, <2>2 DEF Shape, Kid, o, m
  <2>4. Shape(ast, ast[Kid]) /\ ast[Kid].kids \in Seq(DOMAIN ast)
    BY <1>1, <1>7, KidFacts DEF NodeOk
  <2>5. QED
    BY <2>1, <2>3, <2>4 DEF Shape
<1>9. QED
  BY <1>1, <1>2, <1>3, <1>4, <1>5, <1>6, <1>7, <1>8 DEF o, m

LEMMA OldFrame ==
  ASSUME GenOk, phase = "generating", todo # <<>>, Frame.do \in Bindings, NEW what,
         \/ what = "restore" /\ Len(Frame.old) + 1 = Len(Tree.kids)
         \/ what = "bind" /\ Len(Frame.old) + 1 # Len(Tree.kids)
  PROVE  LET g == [do |-> what, e |-> Frame.e, old |-> Frame.old]
         IN  /\ [Frame EXCEPT !.do = what] = g /\ JobOk(Len(code.blocks), g) /\ Alike(Frame, g)
             /\ g.do = what
<1> DEFINE g == [do |-> what, e |-> Frame.e, old |-> Frame.old]
<1>1. /\ Tree.t = "varin" /\ Frame = [do |-> Frame.do, e |-> Frame.e, old |-> Frame.old]
      /\ Frame.old \in Seq(Slots) /\ Frame.e \in DOMAIN ast /\ Tree = ast[Frame.e]
      /\ Len(Frame.old) + 1 \in 1 .. Len(Tree.kids) /\ Len(Tree.kids) \in Nat /\ Len(Frame.old) \in Nat
  BY OldFacts
<1>2. [Frame EXCEPT !.do = what] = g
  BY <1>1
<1>3. g.do = what /\ g.e = Frame.e /\ g.old = Frame.old
  OBVIOUS
<1>4. Len(Frame.old) < Len(Tree.kids)
  BY <1>1
<1>5. OldOk(g)
  BY <1>1, <1>4 DEF OldOk
<1> HIDE DEF g
<1>6. JobOk(Len(code.blocks), g) /\ Alike(Frame, g)
  <2>1. what \in {"restore", "bind"}
    OBVIOUS
  <2>2. Alike(Frame, g)
    BY <1>3, <2>1 DEF Alike, Bindings, Makers
  <2>3. JobOk(Len(code.blocks), g)
    BY <1>1, <1>3, <1>5, <2>1 DEF JobOk, Doings
  <2>4. QED
    BY <2>2, <2>3
<1>7. QED
  BY <1>2, <1>3, <1>6 DEF g

(* The value of a variable, or what the variables are for.                 *)
LEMMA LetsDescends ==
  ASSUME GenOk, phase = "generating", Lets, Len(Frame.old) + 1 = Len(Tree.kids) \/ ast[Kid].kids # <<>>
  PROVE  \E c, g : Descends(c, g)
<1> DEFINE t == Tail(todo)
           what == IF Len(Frame.old) + 1 = Len(Tree.kids) THEN "restore" ELSE "bind"
           c == IF Len(Frame.old) + 1 = Len(Tree.kids) THEN Kid ELSE ast[Kid].kids[1]
           g == [do |-> what, e |-> Frame.e, old |-> Frame.old]
           x == Job("codegen", c)
<1>1. todo # <<>> /\ Frame.do = "lets" /\ Frame.do \in Bindings
  BY DEF Lets, Doing, Frame, Bindings
<1>2. [Frame EXCEPT !.do = what] = g /\ JobOk(Len(code.blocks), g) /\ Alike(Frame, g) /\ g.do = what
  BY <1>1, OldFrame
<1>3. IsSeq(t) /\ ReadOk
  BY <1>1, GenFacts
<1>4. code' = code /\ names' = names /\ ok' /\ todo' = (<<x>> \o <<g>>) \o t
  <2>1. CASE Len(Frame.old) + 1 = Len(Tree.kids)
    <3>1. Call(code, names, Codegen(Kid) \o <<[Frame EXCEPT !.do = "restore"]>>)
      BY <2>1 DEF Lets
    <3>2. QED
      BY <1>2, <2>1, <3>1 DEF Call, Codegen, Job
  <2>2. CASE Len(Frame.old) + 1 # Len(Tree.kids)
    <3>1. Call(code, names, Codegen(ast[Kid].kids[1]) \o <<[Frame EXCEPT !.do = "bind"]>>)
      BY <2>2 DEF Lets, InitScope
    <3>2. QED
      BY <1>2, <2>2, <3>1 DEF Call, Codegen, Job
  <2>3. QED
    BY <2>1, <2>2
<1>5. Kid \in DOMAIN ast /\ Entry(Frame) = ast[Kid].from
  BY <1>1, OldFacts DEF Entry, Kid, Tree, Bindings
<1>6. Leads(c, ast[Kid].from)
  <2>1. CASE Len(Frame.old) + 1 = Len(Tree.kids)
    BY <1>5, <2>1 DEF Leads
  <2>2. CASE Len(Frame.old) + 1 # Len(Tree.kids)
    <3>1. Len(ast[Kid].kids) \in {0, 1} /\ ast[Kid].kids \in Seq(DOMAIN ast) /\ ast[Kid].kids # <<>>
      BY <1>1, <2>2, OldFacts
    <3>2. Len(ast[Kid].kids) = 1
      BY <3>1
    <3>3. 1 \in 1 .. Len(ast[Kid].kids)
      BY <3>2
    <3>4. QED
      BY <1>3, <1>5, <2>2, <3>3, KidLeads
  <2>3. QED
    BY <2>1, <2>2
<1> HIDE DEF g, c
<1>7. what # "binop"
  OBVIOUS
<1> HIDE DEF what, x, t
<1>8. todo' = Push(x, Push(g, t))
  BY <1>3, <1>4, PushTwo
<1>9. Descends(c, g)
  BY <1>1, <1>2, <1>4, <1>5, <1>6, <1>7, <1>8 DEF Descends, x, t
<1>10. QED
  BY <1>9

(* Nothing is left to do for a node; a variable may have been used.        *)
Uses(c) ==
  /\ ast[c].t = "var" /\ names[ast[c].n] # 0 /\ Leads(c, ast[Frame.e].from)
  /\ code' = [code EXCEPT !.uses = @ \cup {<<ast[c].at, names[ast[c].n]>>}]

Returns ==
  /\ todo' = Tail(todo) /\ names' = names
  /\ code' = code \/ \E c : Uses(c)
  /\ Frame.do \notin Makers \cup Bindings
  /\ Frame.do = "binop" => (ok' <=> Frame.left)

Fails == ~ ok' /\ code' = code /\ names' = names /\ todo' = Tail(todo)

LEMMA UseReturns ==
  ASSUME GenOk, phase = "generating", todo # <<>>, NEW c, ast[c].t = "var", Leads(c, ast[Frame.e].from),
         UseVariable(ast[c].n, ast[c].at), Frame.do \in {"codegen", "store"}
  PROVE  Returns
<1>1. IsSeq(Tail(todo))
  BY GenFacts
<1>2. CASE names[ast[c].n] = 0
  BY <1>2 DEF UseVariable, Result, Returns, Bindings, Makers
<1>3. CASE names[ast[c].n] # 0
  <2>1. /\ code' = [code EXCEPT !.uses = @ \cup {<<ast[c].at, names[ast[c].n]>>}]
        /\ names' = names /\ todo' = <<>> \o Tail(todo)
    BY <1>3 DEF UseVariable, Value, Call
  <2>2. todo' = Tail(todo)
    BY <1>1, <2>1, PushNone
  <2>3. Uses(c)
    BY <1>3, <2>1 DEF Uses
  <2>4. QED
    BY <2>1, <2>2, <2>3, Zenon DEF Returns, Bindings, Makers
<1>4. QED
  BY <1>2, <1>3

LEMMA LeavesReturn ==
  ASSUME GenOk, phase = "generating", NumberCodegen \/ VariableCodegen \/ Store
  PROVE  Returns
<1>1. todo # <<>> /\ Frame.do \in {"codegen", "store"} /\ Frame.e \in DOMAIN ast /\ Tree = ast[Frame.e]
  <2>1. todo # <<>> /\ Frame.do \in {"codegen", "store"}
    BY DEF NumberCodegen, VariableCodegen, Store, Generating, Doing, Frame
  <2>2. QED
    BY <2>1, GenFacts DEF Tree
<1>2. IsSeq(Tail(todo)) /\ ReadOk /\ JobOk(Len(code.blocks), Frame)
  BY <1>1, GenFacts
<1>3. CASE NumberCodegen
  <2>1. code' = code /\ names' = names /\ todo' = <<>> \o Tail(todo)
    BY <1>3 DEF NumberCodegen, Value, Call
  <2>2. todo' = Tail(todo)
    BY <1>2, <2>1, PushNone
  <2>3. QED
    BY <1>1, <2>1, <2>2 DEF Returns, Bindings, Makers
<1>4. CASE VariableCodegen
  <2>1. Tree.t = "var" /\ UseVariable(ast[Frame.e].n, ast[Frame.e].at)
    BY <1>1, <1>4 DEF VariableCodegen, Generating
  <2>2. Leads(Frame.e, ast[Frame.e].from)
    BY <1>1 DEF Leads
  <2>3. QED
    BY <1>1, <2>1, <2>2, UseReturns
<1>5. CASE Store
  <2> DEFINE c == Tree.kids[1]
  <2>1. Frame.do = "store"
    BY <1>5 DEF Store, Doing, Frame
  <2>2. Tree.t = "binary"
    BY <1>1, <1>2, <2>1 DEF JobOk
  <2>3. 1 \in 1 .. Len(Tree.kids)
    BY <1>1, <1>2, <2>2, OneKidLess
  <2>4. Leads(c, ast[Frame.e].from)
    BY <1>1, <1>2, <2>3, KidLeads
  <2>5. ast[c].t = "var" /\ UseVariable(ast[c].n, ast[c].at)
    BY <1>5 DEF Store, Target
  <2> HIDE DEF c
  <2>6. QED
    BY <1>1, <2>4, <2>5, UseReturns
<1>6. QED
  BY <1>3, <1>4, <1>5

LEMMA CallsReturn ==
  ASSUME GenOk, phase = "generating",
         \/ CallUnary \/ CallBinary \/ (ArgCodegen /\ Frame.next > Len(Tree.kids))
         \/ (CallCodegen /\ ~ (Tree.n \in DOMAIN ArgSize /\ ArgSize[Tree.n] = Len(Tree.kids)))
  PROVE  Returns
<1>1. todo # <<>> /\ Frame.do \in {"unop", "binop", "arguments", "codegen"}
  BY DEF CallUnary, CallBinary, ArgCodegen, CallCodegen, Generating, Doing, Frame
<1>2. IsSeq(Tail(todo))
  BY <1>1, GenFacts
<1>3. CASE CallUnary
  <2>1. Frame.do = "unop"
    BY <1>3 DEF CallUnary, Doing, Frame
  <2>2. QED
    BY <1>3, <2>1 DEF CallUnary, Result, Returns, Bindings, Makers
<1>4. CASE CallBinary
  <2>1. Frame.do = "binop" /\ ok' = Frame.left /\ code' = code /\ names' = names /\ todo' = Tail(todo)
    BY <1>4 DEF CallBinary, Doing, Frame, Result
  <2>2. QED
    BY <2>1 DEF Returns, Bindings, Makers
<1>5. CASE ArgCodegen /\ Frame.next > Len(Tree.kids)
  <2>1. Frame.do = "arguments" /\ code' = code /\ names' = names /\ todo' = <<>> \o Tail(todo)
    BY <1>5 DEF ArgCodegen, Doing, Frame, Call
  <2>2. todo' = Tail(todo)
    BY <1>2, <2>1, PushNone
  <2>3. QED
    BY <2>1, <2>2 DEF Returns, Bindings, Makers
<1>6. CASE CallCodegen /\ ~ (Tree.n \in DOMAIN ArgSize /\ ArgSize[Tree.n] = Len(Tree.kids))
  <2>1. Frame.do = "codegen" /\ Result(FALSE)
    BY <1>6 DEF CallCodegen, Generating, Doing, Frame
  <2>2. QED
    BY <2>1 DEF Returns, Bindings, Makers, Result
<1>7. QED
  BY <1>3, <1>4, <1>5, <1>6

(* The frame is replaced.                                                  *)
Replaces(g) ==
  /\ code' = code /\ names' = names /\ ok' /\ todo' = Push(g, Tail(todo))
  /\ JobOk(Len(code.blocks), g) /\ Alike(Frame, g) /\ g.do # "binop" /\ Frame.do # "binop"

LEMMA ArgumentsReplace ==
  ASSUME GenOk, phase = "generating", CallCodegen,
         Tree.n \in DOMAIN ArgSize /\ ArgSize[Tree.n] = Len(Tree.kids)
  PROVE  \E g : Replaces(g)
<1> DEFINE g == [do |-> "arguments", e |-> Frame.e, next |-> 1]
           t == Tail(todo)
<1>1. /\ todo # <<>> /\ Frame.do = "codegen" /\ Tree.t = "call" /\ code' = code /\ names' = names /\ ok'
      /\ todo' = <<g>> \o t
  BY DEF CallCodegen, Generating, Doing, Frame, Call
<1>2. IsSeq(t) /\ ReadOk /\ Frame.e \in DOMAIN ast /\ Tree = ast[Frame.e]
  BY <1>1, GenFacts DEF Tree
<1>3. Len(Tree.kids) \in Nat
  BY <1>2, KidFacts
<1>4. 1 \in 1 .. Len(Tree.kids) + 1
  BY <1>3
<1>5. JobOk(Len(code.blocks), g) /\ Alike(Frame, g) /\ g.do = "arguments"
  BY <1>1, <1>2, <1>4 DEF JobOk, Doings, Alike, Bindings, Makers
<1> HIDE DEF g, t
<1>6. todo' = Push(g, t)
  BY <1>1, <1>2, PushOne
<1>7. Replaces(g)
  BY <1>1, <1>5, <1>6 DEF Replaces, t
<1>8. QED
  BY <1>7

LEMMA BindReplaces ==
  ASSUME GenOk, phase = "generating", Lets, Len(Frame.old) + 1 # Len(Tree.kids), ast[Kid].kids = <<>>
  PROVE  \E g : Replaces(g)
<1> DEFINE g == [do |-> "bind", e |-> Frame.e, old |-> Frame.old]
           t == Tail(todo)
<1>1. todo # <<>> /\ Frame.do = "lets" /\ Frame.do \in Bindings
  BY DEF Lets, Doing, Frame, Bindings
<1>2. [Frame EXCEPT !.do = "bind"] = g /\ JobOk(Len(code.blocks), g) /\ Alike(Frame, g) /\ g.do = "bind"
  BY <1>1, OldFrame
<1>3. IsSeq(t)
  BY <1>1, GenFacts
<1>4. /\ code' = code /\ names' = names /\ ok'
      /\ todo' = (<<>> \o <<[Frame EXCEPT !.do = "bind"]>>) \o t
  BY DEF Lets, InitScope, Call
<1>5. <<>> \o <<g>> = <<g>>
  <2>1. IsSeq(<<g>>)
    BY <<g>> \in Seq({g}) DEF IsSeq
  <2>2. QED
    BY <2>1, PushNone
<1>6. todo' = <<g>> \o t
  BY <1>2, <1>4, <1>5
<1> HIDE DEF g, t
<1>7. todo' = Push(g, t)
  BY <1>3, <1>6, PushOne
<1>8. Replaces(g)
  BY <1>1, <1>2, <1>4, <1>7 DEF Replaces, t
<1>9. QED
  BY <1>8

LEMMA SeqAssoc ==
  \A x, y, z : IsSeq(x) /\ IsSeq(y) /\ IsSeq(z) => (x \o y) \o z = x \o (y \o z) /\ IsSeq(x \o y)
<1> TAKE x, y, z
<1> HAVE IsSeq(x) /\ IsSeq(y) /\ IsSeq(z)
<1>1. PICK A, B, C : x \in Seq(A) /\ y \in Seq(B) /\ z \in Seq(C)
  BY DEF IsSeq
<1> DEFINE S == A \cup B \cup C
<1>2. x \in Seq(S) /\ y \in Seq(S) /\ z \in Seq(S)
  <2>1. A \subseteq S /\ B \subseteq S /\ C \subseteq S
    OBVIOUS
  <2>2. QED
    BY <1>1, <2>1, SeqMonotonic
<1> HIDE DEF S
<1>3. (x \o y) \o z = x \o (y \o z)
  BY <1>2, Assoc
<1>4. x \o y \in Seq(S)
  BY <1>2, ConcatProperties
<1>5. QED
  BY <1>3, <1>4 DEF IsSeq

LEMMA PushFour ==
  \A t : IsSeq(t) => \A a, s, b, c : IsSeq(s) =>
    (((<<a>> \o s) \o <<b>>) \o <<c>>) \o t = Push(a, s \o Push(b, Push(c, t)))
<1> TAKE t
<1> HAVE IsSeq(t)
<1> TAKE a, s, b, c
<1> HAVE IsSeq(s)
<1>1. IsSeq(<<a>>) /\ IsSeq(<<b>>) /\ IsSeq(<<c>>)
  BY <<a>> \in Seq({a}), <<b>> \in Seq({b}), <<c>> \in Seq({c}) DEF IsSeq
<1>2. PICK u : u = <<a>> \o s
  OBVIOUS
<1>3. PICK v : v = u \o <<b>>
  OBVIOUS
<1>4. PICK p : p = Push(c, t)
  OBVIOUS
<1>5. PICK q : q = Push(b, p)
  OBVIOUS
<1>6. IsSeq(u) /\ IsSeq(v) /\ IsSeq(p) /\ IsSeq(q)
  BY <1>1, <1>2, <1>3, <1>4, <1>5, SeqAssoc, PushFacts
<1>7. (v \o <<c>>) \o t = v \o p
  <2>1. <<c>> \o t = p
    BY <1>4, PushOne
  <2>2. PICK z : z = <<c>>
    OBVIOUS
  <2>3. (v \o z) \o t = v \o (z \o t)
    BY <1>1, <1>6, <2>2, SeqAssoc
  <2>4. QED
    BY <2>1, <2>2, <2>3
<1>8. v \o p = u \o q
  <2>1. <<b>> \o p = q
    BY <1>5, <1>6, PushOne
  <2>2. PICK y : y = <<b>>
    OBVIOUS
  <2>3. (u \o y) \o p = u \o (y \o p)
    BY <1>1, <1>6, <2>2, SeqAssoc
  <2>4. QED
    BY <1>3, <2>1, <2>2, <2>3
<1>9. u \o q = Push(a, s \o q)
  BY <1>2, <1>6, Stacked
<1>10. QED
  BY <1>2, <1>3, <1>4, <1>5, <1>7, <1>8, <1>9

(* The variables of a var expression.                                      *)
Opens ==
  /\ code' = code /\ names' = names /\ ok' /\ Frame.do = "codegen" /\ Tree.t = "varin"
  /\ todo' = Push([do |-> "lets", e |-> Frame.e, old |-> <<>>], Tail(todo))

Binds ==
  /\ code' = code /\ names' = [names EXCEPT ![ast[Kid].n] = ast[Kid].at] /\ ok' /\ Frame.do = "bind"
  /\ todo' = Push([do |-> "lets", e |-> Frame.e, old |-> Append(Frame.old, names[ast[Kid].n])], Tail(todo))

Own(x) == {i \in DOMAIN Frame.old : ast[Tree.kids[i]].n = x}
Restores ==
  /\ code' = code /\ ok' /\ Frame.do = "restore" /\ todo' = Tail(todo)
  /\ names' = [x \in Ident |->
                 IF Own(x) = {} THEN names[x]
                 ELSE Frame.old[CHOOSE i \in Own(x) : \A j \in Own(x) : j <= i]]

LEMMA VarSteps ==
  ASSUME GenOk, phase = "generating"
  PROVE  /\ VarCodegen => Opens
         /\ BindLet => Binds
         /\ Restore => Restores
<1>1. todo # <<>> => IsSeq(Tail(todo))
  BY GenFacts
<1>2. ASSUME VarCodegen PROVE Opens
  <2> DEFINE g == [do |-> "lets", e |-> Frame.e, old |-> <<>>]
             t == Tail(todo)
  <2>1. /\ todo # <<>> /\ Frame.do = "codegen" /\ Tree.t = "varin" /\ code' = code /\ names' = names
        /\ ok' /\ todo' = <<g>> \o t
    BY <1>2 DEF VarCodegen, Generating, Doing, Frame, Call
  <2>2. todo' = Push(g, t)
    <3> HIDE DEF g
    <3>1. QED
      BY <1>1, <2>1, PushOne
  <2>3. QED
    BY <2>1, <2>2 DEF Opens
<1>3. ASSUME BindLet PROVE Binds
  <2> DEFINE g == [do |-> "lets", e |-> Frame.e, old |-> Append(Frame.old, names[ast[Kid].n])]
             t == Tail(todo)
  <2>1. /\ todo # <<>> /\ Frame.do = "bind" /\ code' = code /\ ok' /\ todo' = <<g>> \o t
        /\ names' = [names EXCEPT ![ast[Kid].n] = ast[Kid].at]
    BY <1>3 DEF BindLet, Doing, Frame, Call
  <2>2. todo' = Push(g, t)
    <3> HIDE DEF g
    <3>1. QED
      BY <1>1, <2>1, PushOne
  <2>3. QED
    BY <2>1, <2>2 DEF Binds
<1>4. ASSUME Restore PROVE Restores
  <2>1. /\ todo # <<>> /\ Frame.do = "restore" /\ code' = code /\ ok' /\ todo' = <<>> \o Tail(todo)
        /\ names' = [x \in Ident |->
                       IF Own(x) = {} THEN names[x]
                       ELSE Frame.old[CHOOSE i \in Own(x) : \A j \in Own(x) : j <= i]]
    BY <1>4 DEF Restore, Doing, Frame, Value, Call, Own
  <2>2. todo' = Tail(todo)
    BY <1>1, <2>1, PushNone
  <2>3. QED
    BY <2>1, <2>2 DEF Restores
<1>5. QED
  BY <1>2, <1>3, <1>4

(* The steps that make blocks.                                             *)
Branches ==
  LET n == Len(code.blocks)
  IN  /\ code' = SetInsertPoint(Insert(CreateBlocks(code, 3), "br", <<n + 1, n + 2>>), n + 1)
      /\ names' = names /\ ok' /\ Frame.do = "then"
      /\ todo' = Push(Job("codegen", Tree.kids[2]),
                      Push([do |-> "else", e |-> Frame.e, begin |-> n + 2], Tail(todo)))

Alternates ==
  LET m == Frame.begin + 1
  IN  /\ code' = SetInsertPoint(Insert(code, "br", <<m>>), Frame.begin)
      /\ names' = names /\ ok' /\ Frame.do = "else"
      /\ todo' = Push(Job("codegen", Tree.kids[3]),
                      Push([do |-> "phi", e |-> Frame.e, then |-> code.at, merge |-> m], Tail(todo)))

Merges ==
  /\ code' = Insert(SetInsertPoint(Insert(code, "br", <<Frame.merge>>), Frame.merge),
                    "phi", <<Frame.then, code.at>>)
  /\ names' = names /\ ok' /\ Frame.do = "phi" /\ todo' = Tail(todo)

Loops ==
  LET n == Len(code.blocks)
      kids == Tree.kids
      g == [do |-> "afterloop", e |-> Frame.e, loop |-> n + 1, old |-> names[Tree.n]]
      behind == Push(Job("codegen", kids[2]), Push(g, Tail(todo)))
  IN  /\ code' = SetInsertPoint(Insert(CreateBlocks(code, 1), "br", <<n + 1>>), n + 1)
      /\ names' = [names EXCEPT ![Tree.n] = Tree.at] /\ ok' /\ Frame.do = "loop"
      /\ todo' = Push(Job("codegen", kids[Len(kids)]),
                      IF Len(kids) = 4 THEN Push(Job("codegen", kids[3]), behind) ELSE behind)

LoopEnds ==
  LET n == Len(code.blocks)
  IN  /\ code' = SetInsertPoint(Insert(CreateBlocks(code, 1), "br", <<Frame.loop, n + 1>>), n + 1)
      /\ names' = [names EXCEPT ![Tree.n] = Frame.old] /\ ok' /\ Frame.do = "afterloop"
      /\ todo' = Tail(todo)

LEMMA IfSteps ==
  ASSUME GenOk, phase = "generating"
  PROVE  /\ ThenCodegen => Branches
         /\ ElseCodegen => Alternates
         /\ Phi => Merges
<1>1. todo # <<>> => IsSeq(Tail(todo))
  BY GenFacts
<1>2. ASSUME ThenCodegen PROVE Branches
  <2> DEFINE n == Len(code.blocks)
             g == [do |-> "else", e |-> Frame.e, begin |-> n + 2]
             x == Job("codegen", Tree.kids[2])
             t == Tail(todo)
             d == SetInsertPoint(Insert(CreateBlocks(code, 3), "br", <<n + 1, n + 2>>), n + 1)
  <2>1. /\ todo # <<>> /\ Frame.do = "then" /\ code' = d /\ names' = names /\ ok'
        /\ todo' = (<<x>> \o <<g>>) \o t
    BY <1>2 DEF ThenCodegen, Doing, Frame, Call, Codegen, Job
  <2>2. todo' = Push(x, Push(g, t))
    <3> HIDE DEF x, g, t
    <3>1. QED
      BY <1>1, <2>1, PushTwo DEF t
  <2>3. QED
    BY <2>1, <2>2 DEF Branches
<1>3. ASSUME ElseCodegen PROVE Alternates
  <2> DEFINE m == Frame.begin + 1
             g == [do |-> "phi", e |-> Frame.e, then |-> code.at, merge |-> m]
             x == Job("codegen", Tree.kids[3])
             t == Tail(todo)
             d == SetInsertPoint(Insert(code, "br", <<m>>), Frame.begin)
  <2>1. /\ todo # <<>> /\ Frame.do = "else" /\ code' = d /\ names' = names /\ ok'
        /\ todo' = (<<x>> \o <<g>>) \o t
    BY <1>3 DEF ElseCodegen, ThenEnd, Doing, Frame, Call, Codegen, Job
  <2>2. todo' = Push(x, Push(g, t))
    <3> HIDE DEF x, g, t
    <3>1. QED
      BY <1>1, <2>1, PushTwo DEF t
  <2>3. QED
    BY <2>1, <2>2 DEF Alternates
<1>4. ASSUME Phi PROVE Merges
  <2>1. /\ todo # <<>> /\ Frame.do = "phi" /\ names' = names /\ ok' /\ todo' = <<>> \o Tail(todo)
        /\ code' = Insert(SetInsertPoint(Insert(code, "br", <<Frame.merge>>), Frame.merge),
                          "phi", <<Frame.then, code.at>>)
    BY <1>4 DEF Phi, Doing, Frame, Value, Call
  <2>2. todo' = Tail(todo)
    BY <1>1, <2>1, PushNone
  <2>3. QED
    BY <2>1, <2>2 DEF Merges
<1>5. QED
  BY <1>2, <1>3, <1>4

LEMMA ForSteps ==
  ASSUME GenOk, phase = "generating"
  PROVE  /\ LoopCodegen => Loops
         /\ AfterLoop => LoopEnds
<1>1. todo # <<>> => IsSeq(Tail(todo))
  BY GenFacts
<1>2. ASSUME LoopCodegen PROVE Loops
  <2> DEFINE n == Len(code.blocks)
             kids == Tree.kids
             d == SetInsertPoint(Insert(CreateBlocks(code, 1), "br", <<n + 1>>), n + 1)
  <2>1. PICK a, b, c, g, t :
          /\ a = Job("codegen", kids[Len(kids)]) /\ b = Job("codegen", kids[2])
          /\ c = Job("codegen", kids[3]) /\ t = Tail(todo)
          /\ g = [do |-> "afterloop", e |-> Frame.e, loop |-> n + 1, old |-> names[Tree.n]]
    OBVIOUS
  <2>2. PICK s : s = IF Len(kids) = 4 THEN <<c>> ELSE <<>>
    OBVIOUS
  <2>3. /\ todo # <<>> /\ Frame.do = "loop" /\ code' = d /\ ok'
        /\ names' = [names EXCEPT ![Tree.n] = Tree.at]
        /\ todo' = (((<<a>> \o s) \o <<b>>) \o <<g>>) \o t
    BY <1>2, <2>1, <2>2 DEF LoopCodegen, Doing, Frame, Call, Codegen, Job
  <2>4. IsSeq(s) /\ IsSeq(t)
    BY <1>1, <2>1, <2>2, <2>3, <<>> \in Seq({}), <<c>> \in Seq({c}) DEF IsSeq
  <2>5. PICK p, r : p = Push(g, t) /\ r = Push(b, p)
    OBVIOUS
  <2>6. (((<<a>> \o s) \o <<b>>) \o <<g>>) \o t = Push(a, s \o r)
    BY <2>4, <2>5, PushFour
  <2>7. IsSeq(r)
    BY <2>4, <2>5, PushFacts
  <2>8. s \o r = IF Len(kids) = 4 THEN Push(c, r) ELSE r
    BY <2>2, <2>7, PushOne, PushNone
  <2>9. todo' = Push(a, IF Len(kids) = 4 THEN Push(c, r) ELSE r)
    BY <2>3, <2>6, <2>8
  <2>10. QED
    BY <2>1, <2>3, <2>5, <2>9 DEF Loops
<1>3. ASSUME AfterLoop PROVE LoopEnds
  <2>1. /\ todo # <<>> /\ Frame.do = "afterloop" /\ ok' /\ todo' = <<>> \o Tail(todo)
        /\ names' = [names EXCEPT ![Tree.n] = Frame.old]
        /\ LET n == Len(code.blocks)
           IN  code' = SetInsertPoint(Insert(CreateBlocks(code, 1), "br", <<Frame.loop, n + 1>>), n + 1)
    BY <1>3 DEF AfterLoop, Doing, Frame, Value, Call
  <2>2. todo' = Tail(todo)
    BY <1>1, <2>1, PushNone
  <2>3. QED
    BY <2>1, <2>2 DEF LoopEnds
<1>4. QED
  BY <1>2, <1>3

(* All the steps there are.                                                *)
LEMMA StepCases ==
  ASSUME GenOk, CodegenStep
  PROVE  /\ phase = "generating" /\ todo # <<>> /\ UNCHANGED <<toks, prec, at, ast, val, proto, phase, commands>>
         /\ \/ Fails
            \/ ok /\ Returns
            \/ \E c, g : Descends(c, g) /\ (ok \/ g.do = "binop")
            \/ ok /\ \E g : Replaces(g)
            \/ ok /\ (Opens \/ Binds \/ Restores \/ Branches \/ Alternates \/ Merges \/ Loops \/ LoopEnds)
<1>1. phase = "generating" /\ Codegenerate /\ UNCHANGED <<proto, phase, commands>>
  BY DEF CodegenStep
<1>2. Same /\ todo # <<>>
  BY <1>1 DEF Codegenerate, RightCodegen, Propagate, Generate, Call, Result, Value, Doing, Generating,
      NumberCodegen, VariableCodegen, UseVariable, UnaryCodegen, CallUnary, AssignCodegen, Store,
      BinaryCodegen, CallBinary, CallCodegen, ArgCodegen, IfCodegen, ThenCodegen, ElseCodegen, Phi,
      ForCodegen, LoopCodegen, AfterLoop, VarCodegen, Lets, BindLet, Restore
<1> SUFFICES \/ Fails
             \/ ok /\ Returns
             \/ \E c, g : Descends(c, g) /\ (ok \/ g.do = "binop")
             \/ ok /\ \E g : Replaces(g)
             \/ ok /\ (Opens \/ Binds \/ Restores \/ Branches \/ Alternates \/ Merges \/ Loops \/ LoopEnds)
  BY <1>1, <1>2 DEF Same
<1>3. CASE Propagate
  BY <1>3 DEF Propagate, Result, Fails
<1>4. CASE RightCodegen
  <2>1. Descends(Tree.kids[2], [do |-> "binop", e |-> Frame.e, left |-> ok])
    BY <1>1, <1>4, RightDescends
  <2>2. QED
    BY <2>1
<1>5. CASE ok /\ (NumberCodegen \/ VariableCodegen \/ Store)
  BY <1>1, <1>5, LeavesReturn
<1>6. CASE ok /\ (CallUnary \/ CallBinary)
  BY <1>1, <1>6, CallsReturn
<1>7. CASE ok /\ (UnaryCodegen \/ AssignCodegen \/ BinaryCodegen \/ IfCodegen \/ ForCodegen)
  BY <1>1, <1>7, FirstSubtree
<1>8. CASE ok /\ CallCodegen
  BY <1>1, <1>8, CallsReturn, ArgumentsReplace
<1>9. CASE ok /\ ArgCodegen
  BY <1>1, <1>9, CallsReturn, ArgDescends
<1>10. CASE ok /\ (ThenCodegen \/ ElseCodegen \/ Phi)
  BY <1>1, <1>10, IfSteps
<1>11. CASE ok /\ (LoopCodegen \/ AfterLoop)
  BY <1>1, <1>11, ForSteps
<1>12. CASE ok /\ (VarCodegen \/ BindLet \/ Restore)
  BY <1>1, <1>12, VarSteps
<1>13. CASE ok /\ Lets
  BY <1>1, <1>13, LetsDescends, BindReplaces
<1>14. QED
  BY <1>1, <1>2, <1>3, <1>4, <1>5, <1>6, <1>7, <1>8, <1>9, <1>10, <1>11, <1>12, <1>13
    DEF Codegenerate, Generate, Same

-----------------------------------------------------------------------------
(* Types.                                                                  *)
LEMMA CodegenJob ==
  \A n : \A c \in DOMAIN ast : JobOk(n, Job("codegen", c))
BY DEF JobOk, Job, Doings

LEMMA Largest ==
  ASSUME NEW n \in Nat, NEW T \in SUBSET (1 .. n), T # {}
  PROVE  LET m == CHOOSE i \in T : \A j \in T : j <= i
         IN  m \in T /\ \A j \in T : j <= m
<1> DEFINE D == {n - i : i \in T}
<1>1. D \in SUBSET Nat /\ D # {}
  <2>1. \A i \in T : n - i \in Nat
    OBVIOUS
  <2>2. QED
    BY <2>1
<1> HIDE DEF D
<1>2. PICK d \in D : \A e \in D : d <= e
  BY <1>1, Smallest
<1>3. PICK i \in T : d = n - i
  BY <1>2 DEF D
<1>4. \A j \in T : j <= i
  <2> TAKE j \in T
  <2>1. n - i <= n - j
    BY <1>2, <1>3 DEF D
  <2>2. QED
    BY <2>1
<1>5. QED
  BY <1>4

LEMMA UsesFacts ==
  ASSUME CodeOk(code), NEW U, code' = [code EXCEPT !.uses = U]
  PROVE  /\ CodeOk(code') /\ code'.blocks = code.blocks /\ code'.inside = code.inside
         /\ code'.at = code.at /\ code'.uses = U
<1>1. code = [blocks |-> code.blocks, inside |-> code.inside, at |-> code.at, uses |-> code.uses]
  BY DEF CodeOk
<1>2. code' = [blocks |-> code.blocks, inside |-> code.inside, at |-> code.at, uses |-> U]
  BY <1>1
<1>3. QED
  BY <1>2 DEF CodeOk

(* The block that is built ends in a branch, and another one is begun.     *)
Jumps(c, d, args, b) ==
  /\ CodeOk(c) /\ CodeOk(d) /\ DOMAIN c.blocks \subseteq DOMAIN d.blocks
  /\ d.blocks[c.at] = Append(c.blocks[c.at], [op |-> "br", args |-> args])
  /\ \A x \in DOMAIN c.blocks : x # c.at => d.blocks[x] = c.blocks[x]
  /\ \A x \in DOMAIN d.blocks : x \notin DOMAIN c.blocks => d.blocks[x] = <<>>
  /\ d.inside = c.inside \cup {b} /\ d.at = b /\ b \in DOMAIN d.blocks
  /\ d.uses = c.uses

LEMMA CreateJumps ==
  ASSUME CodeOk(code), NEW n, n = Len(code.blocks), NEW m \in Nat \ {0}, NEW args
  PROVE  LET d == SetInsertPoint(Insert(CreateBlocks(code, m), "br", args), n + 1)
         IN  /\ Jumps(code, d, args, n + 1) /\ Len(d.blocks) = n + m /\ DOMAIN d.blocks = 1 .. n + m
             /\ n \in Nat /\ DOMAIN code.blocks = 1 .. n
<1>1. PICK c : c = CreateBlocks(code, m)
  OBVIOUS
<1>2. PICK i : i = Insert(c, "br", args)
  OBVIOUS
<1>3. PICK d : d = SetInsertPoint(i, n + 1)
  OBVIOUS
<1>4. PICK J : J = [op |-> "br", args |-> args]
  OBVIOUS
<1>5. /\ n \in Nat /\ DOMAIN code.blocks = 1 .. n /\ CodeOk(c) /\ DOMAIN c.blocks = 1 .. n + m
      /\ c.at = code.at /\ c.inside = code.inside /\ c.uses = code.uses
      /\ \A x \in DOMAIN code.blocks : c.blocks[x] = code.blocks[x]
      /\ \A x \in n + 1 .. n + m : c.blocks[x] = <<>>
  <2>1. m \in Nat
    OBVIOUS
  <2>2. QED
    BY <1>1, <2>1, CreateFacts
<1>6. /\ CodeOk(i) /\ DOMAIN i.blocks = DOMAIN c.blocks /\ i.inside = c.inside /\ i.uses = c.uses
      /\ i.blocks[c.at] = Append(c.blocks[c.at], J)
      /\ \A x \in DOMAIN c.blocks : x # c.at => i.blocks[x] = c.blocks[x]
  <2>1. PICK op : op = "br"
    OBVIOUS
  <2>2. i = Insert(c, op, args) /\ CodeOk(c)
    BY <1>2, <1>5, <2>1
  <2>3. /\ CodeOk(i) /\ DOMAIN i.blocks = DOMAIN c.blocks /\ i.inside = c.inside /\ i.uses = c.uses
        /\ i.blocks[c.at] = Append(c.blocks[c.at], [op |-> op, args |-> args])
        /\ \A x \in DOMAIN c.blocks : x # c.at => i.blocks[x] = c.blocks[x]
    BY <2>2, InsertFacts
  <2>4. QED
    BY <1>4, <2>1, <2>3
<1>7. n + 1 \in DOMAIN i.blocks
  BY <1>5, <1>6
<1>8. /\ CodeOk(d) /\ d.blocks = i.blocks /\ d.inside = i.inside \cup {n + 1} /\ d.at = n + 1
      /\ d.uses = i.uses
  BY <1>3, <1>6, <1>7, SetFacts
<1>9. Len(i.blocks) = n + m
  BY <1>5, <1>6 DEF CodeOk, IsSeq
<1>10. code.at \in 1 .. n /\ 1 .. n \subseteq 1 .. n + m
  BY <1>5 DEF CodeOk
<1>11. \A x \in 1 .. n + m : x \notin 1 .. n => x \in n + 1 .. n + m /\ x # code.at
  BY <1>5, <1>10
<1>12. Jumps(code, d, args, n + 1)
  BY <1>4, <1>5, <1>6, <1>7, <1>8, <1>10, <1>11 DEF Jumps
<1>13. QED
  BY <1>1, <1>2, <1>3, <1>5, <1>6, <1>8, <1>9, <1>12

LEMMA EnterJumps ==
  ASSUME CodeOk(code), NEW b \in DOMAIN code.blocks, NEW args
  PROVE  LET d == SetInsertPoint(Insert(code, "br", args), b)
         IN  /\ Jumps(code, d, args, b) /\ Len(d.blocks) = Len(code.blocks)
             /\ DOMAIN d.blocks = DOMAIN code.blocks
<1> DEFINE i == Insert(code, "br", args)
           d == SetInsertPoint(i, b)
           J == [op |-> "br", args |-> args]
<1>1. /\ CodeOk(i) /\ DOMAIN i.blocks = DOMAIN code.blocks /\ i.inside = code.inside
      /\ i.uses = code.uses /\ i.blocks[code.at] = Append(code.blocks[code.at], J)
      /\ \A x \in DOMAIN code.blocks : x # code.at => i.blocks[x] = code.blocks[x]
  BY InsertFacts
<1> HIDE DEF i
<1>2. /\ CodeOk(d) /\ d.blocks = i.blocks /\ d.at = b /\ d.inside = code.inside \cup {b}
      /\ d.uses = code.uses
  BY <1>1, SetFacts
<1>3. Len(i.blocks) = Len(code.blocks)
  BY <1>1 DEF CodeOk, IsSeq
<1> HIDE DEF d
<1>4. QED
  BY <1>1, <1>2, <1>3 DEF i, d, Jumps

(* Bindings, code and stack after a step.                                  *)
LEMMA FewerTyped ==
  ASSUME GenOk, phase = "generating", todo # <<>>, Fails \/ Returns
  PROVE  Typed(names', code', todo')
<1>1. /\ Jobs(Len(code.blocks), Tail(todo)) /\ CodeOk(code) /\ names \in [Ident -> Slots]
  BY GenFacts
<1>2. todo' = Tail(todo) /\ names' = names
  BY DEF Fails, Returns
<1>3. CodeOk(code') /\ code'.blocks = code.blocks
  <2>1. CASE code' = code
    BY <1>1, <2>1
  <2>2. CASE code' # code
    <3>1. PICK c : code' = [code EXCEPT !.uses = @ \cup {<<ast[c].at, names[ast[c].n]>>}]
      BY <2>2 DEF Fails, Returns, Uses
    <3> DEFINE U == code.uses \cup {<<ast[c].at, names[ast[c].n]>>}
    <3>2. code' = [code EXCEPT !.uses = U]
      BY <3>1
    <3> HIDE DEF U
    <3>3. QED
      BY <1>1, <3>2, UsesFacts
  <2>3. QED
    BY <2>1, <2>2
<1>4. QED
  BY <1>1, <1>2, <1>3 DEF Typed

LEMMA DeeperTyped ==
  ASSUME GenOk, phase = "generating", todo # <<>>,
         (\E c, g : Descends(c, g)) \/ (\E g : Replaces(g))
  PROVE  Typed(names', code', todo')
<1> DEFINE n == Len(code.blocks)
           t == Tail(todo)
<1>1. Jobs(n, t) /\ CodeOk(code) /\ names \in [Ident -> Slots]
  BY GenFacts
<1> HIDE DEF n, t
<1>2. CASE \E c, g : Descends(c, g)
  <2>1. PICK c, g : Descends(c, g)
    BY <1>2
  <2>2. /\ code' = code /\ names' = names /\ JobOk(n, g) /\ c \in DOMAIN ast
        /\ todo' = Push(Job("codegen", c), Push(g, t))
    BY <2>1 DEF Descends, Leads, n, t
  <2>3. JobOk(n, Job("codegen", c))
    BY <2>2, CodegenJob
  <2>4. Jobs(n, todo')
    BY <1>1, <2>2, <2>3, JobsPush
  <2>5. QED
    BY <1>1, <2>2, <2>4 DEF Typed, n
<1>3. CASE \E g : Replaces(g)
  <2>1. PICK g : Replaces(g)
    BY <1>3
  <2>2. code' = code /\ names' = names /\ JobOk(n, g) /\ todo' = Push(g, t)
    BY <2>1 DEF Replaces, n, t
  <2>3. Jobs(n, todo')
    BY <1>1, <2>2, JobsPush
  <2>4. QED
    BY <1>1, <2>2, <2>3 DEF Typed, n
<1>4. QED
  BY <1>2, <1>3

LEMMA BindingsTyped ==
  ASSUME GenOk, phase = "generating", todo # <<>>, Opens \/ Binds \/ Restores
  PROVE  Typed(names', code', todo')
<1> DEFINE n == Len(code.blocks)
           t == Tail(todo)
<1>1. /\ Jobs(n, t) /\ CodeOk(code) /\ names \in [Ident -> Slots] /\ ReadOk
      /\ Frame.e \in DOMAIN ast /\ Tree = ast[Frame.e]
  BY GenFacts DEF Tree
<1>2. code' = code
  BY DEF Opens, Binds, Restores
<1>3. CASE Opens
  <2> DEFINE g == [do |-> "lets", e |-> Frame.e, old |-> <<>>]
  <2>1. names' = names /\ todo' = Push(g, t) /\ Tree.t = "varin"
    BY <1>3 DEF Opens
  <2>2. 1 \in 1 .. Len(Tree.kids) /\ Len(Tree.kids) \in Nat
    BY <1>1, <2>1, OneKidLess, KidFacts
  <2>3. <<>> \in Seq(Slots) /\ Len(<<>>) = 0 /\ 0 < Len(Tree.kids)
    BY <2>2
  <2>4. OldOk(g)
    BY <1>1, <2>3 DEF OldOk
  <2>5. JobOk(n, g)
    BY <1>1, <2>1, <2>4 DEF JobOk, Doings
  <2> HIDE DEF g, n, t
  <2>6. Jobs(n, todo')
    BY <1>1, <2>1, <2>5, JobsPush
  <2>7. QED
    BY <1>1, <1>2, <2>1, <2>6 DEF Typed, n
<1>4. CASE Binds
  <2> DEFINE x == ast[Kid].n
             s == Append(Frame.old, names[x])
             g == [do |-> "lets", e |-> Frame.e, old |-> s]
  <2>1. names' = [names EXCEPT ![x] = ast[Kid].at] /\ todo' = Push(g, t) /\ Frame.do = "bind"
    BY <1>4 DEF Binds
  <2>2. /\ Tree.t = "varin" /\ Frame.old \in Seq(Slots) /\ Len(Frame.old) \in Nat
        /\ Kid \in DOMAIN ast /\ ast[Kid].t = "let" /\ Len(Frame.old) + 2 \in 1 .. Len(Tree.kids)
        /\ Len(Tree.kids) \in Nat
    BY <2>1, OldFacts DEF Bindings
  <2>3. x \in Ident /\ ast[Kid].at \in Slots
    BY <1>1, <2>2, PlaceFacts
  <2>4. s \in Seq(Slots) /\ Len(s) = Len(Frame.old) + 1 /\ Len(s) < Len(Tree.kids)
    BY <1>1, <2>2, <2>3
  <2>5. names' \in [Ident -> Slots]
    BY <1>1, <2>1, <2>3
  <2> HIDE DEF s
  <2>6. OldOk(g)
    BY <1>1, <2>4 DEF OldOk
  <2>7. JobOk(n, g)
    BY <1>1, <2>2, <2>6 DEF JobOk, Doings
  <2> HIDE DEF g, n, t
  <2>8. Jobs(n, todo')
    BY <1>1, <2>1, <2>7, JobsPush
  <2>9. QED
    BY <1>1, <1>2, <2>5, <2>8 DEF Typed, n
<1>5. CASE Restores
  <2> DEFINE old == Frame.old
             last(x) == CHOOSE i \in Own(x) : \A j \in Own(x) : j <= i
  <2>1. /\ todo' = t /\ Frame.do = "restore"
        /\ names' = [x \in Ident |-> IF Own(x) = {} THEN names[x] ELSE old[last(x)]]
    BY <1>5 DEF Restores
  <2>2. old \in Seq(Slots) /\ Len(old) \in Nat /\ DOMAIN old = 1 .. Len(old)
    BY <2>1, OldFacts DEF Bindings
  <2>3. ASSUME NEW x, Own(x) # {} PROVE old[last(x)] \in Slots
    <3>1. Own(x) \in SUBSET (1 .. Len(old))
      BY <2>2 DEF Own
    <3>2. last(x) \in Own(x)
      BY <2>2, <2>3, <3>1, Largest
    <3>3. QED
      BY <2>2, <3>1, <3>2
  <2> HIDE DEF last
  <2>4. names' \in [Ident -> Slots]
    BY <1>1, <2>1, <2>3
  <2>5. QED
    BY <1>1, <1>2, <2>1, <2>4 DEF Typed
<1>6. QED
  BY <1>3, <1>4, <1>5

LEMMA BlocksTyped ==
  ASSUME GenOk, phase = "generating", todo # <<>>, Branches \/ Alternates \/ Merges
  PROVE  Typed(names', code', todo')
<1> DEFINE n == Len(code.blocks)
           t == Tail(todo)
<1>1. /\ Jobs(n, t) /\ CodeOk(code) /\ names \in [Ident -> Slots] /\ ReadOk /\ n \in Nat
      /\ Frame.e \in DOMAIN ast /\ Tree = ast[Frame.e] /\ JobOk(n, Frame)
      /\ DOMAIN code.blocks = 1 .. n /\ code.at \in 1 .. n
  BY GenFacts DEF Tree
<1>2. names' = names
  BY DEF Branches, Alternates, Merges
<1> HIDE DEF n, t
<1>3. CASE Branches
  <2> DEFINE g == [do |-> "else", e |-> Frame.e, begin |-> n + 2]
             x == Job("codegen", Tree.kids[2])
  <2>1. /\ code' = SetInsertPoint(Insert(CreateBlocks(code, 3), "br", <<n + 1, n + 2>>), n + 1)
        /\ todo' = Push(x, Push(g, t)) /\ Tree.t = "if"
    BY <1>1, <1>3 DEF Branches, n, t, JobOk
  <2>2. CodeOk(code') /\ Len(code'.blocks) = n + 3
    <3>1. 3 \in Nat \ {0} /\ n = Len(code.blocks)
      BY DEF n
    <3>2. Jumps(code, code', <<n + 1, n + 2>>, n + 1) /\ Len(code'.blocks) = n + 3
      BY <1>1, <2>1, <3>1, CreateJumps
    <3>3. QED
      BY <3>2 DEF Jumps
  <2>3. Jobs(n + 3, t)
    BY <1>1, JobGrows
  <2>4. JobOk(n + 3, g)
    <3>1. n + 2 \in 1 .. n + 3 /\ (n + 2) + 1 \in 1 .. n + 3
      BY <1>1
    <3>2. QED
      BY <1>1, <2>1, <3>1 DEF JobOk, Doings
  <2>5. JobOk(n + 3, x)
    BY <1>1, <2>1, KidFacts, CodegenJob
  <2> HIDE DEF g, x
  <2>6. Jobs(n + 3, todo')
    BY <2>1, <2>3, <2>4, <2>5, JobsPush
  <2>7. QED
    BY <1>1, <1>2, <2>2, <2>6 DEF Typed
<1>4. CASE Alternates
  <2> DEFINE m == Frame.begin + 1
             g == [do |-> "phi", e |-> Frame.e, then |-> code.at, merge |-> m]
             x == Job("codegen", Tree.kids[3])
  <2>1. /\ code' = SetInsertPoint(Insert(code, "br", <<m>>), Frame.begin)
        /\ todo' = Push(x, Push(g, t)) /\ Tree.t = "if" /\ m \in 1 .. n /\ Frame.begin \in 1 .. n
    BY <1>1, <1>4 DEF Alternates, t, JobOk
  <2>2. CodeOk(code') /\ Len(code'.blocks) = n
    BY <1>1, <2>1, EnterJumps DEF n, Jumps
  <2>3. JobOk(n, g)
    BY <1>1, <2>1 DEF JobOk, Doings
  <2>4. JobOk(n, x)
    BY <1>1, <2>1, KidFacts, CodegenJob
  <2> HIDE DEF g, x
  <2>5. Jobs(n, todo')
    BY <1>1, <2>1, <2>3, <2>4, JobsPush
  <2>6. QED
    BY <1>1, <1>2, <2>2, <2>5 DEF Typed
<1>5. CASE Merges
  <2> DEFINE i == Insert(code, "br", <<Frame.merge>>)
             d == SetInsertPoint(i, Frame.merge)
  <2>1. /\ code' = Insert(d, "phi", <<Frame.then, code.at>>) /\ todo' = t /\ Frame.merge \in 1 .. n
    BY <1>1, <1>5 DEF Merges, t, JobOk
  <2>2. CodeOk(d) /\ Len(d.blocks) = n
    BY <1>1, <2>1, EnterJumps DEF n, Jumps
  <2> HIDE DEF d
  <2>3. CodeOk(code') /\ DOMAIN code'.blocks = DOMAIN d.blocks
    BY <2>1, <2>2, InsertFacts
  <2>4. Len(code'.blocks) = n
    BY <2>2, <2>3 DEF CodeOk, IsSeq
  <2>5. QED
    BY <1>1, <1>2, <2>1, <2>3, <2>4 DEF Typed
<1>6. QED
  BY <1>3, <1>4, <1>5

LEMMA LoopsTyped ==
  ASSUME GenOk, phase = "generating", todo # <<>>, Loops \/ LoopEnds
  PROVE  Typed(names', code', todo')
<1> DEFINE n == Len(code.blocks)
           t == Tail(todo)
           x == Tree.n
<1>1. /\ Jobs(n, t) /\ CodeOk(code) /\ names \in [Ident -> Slots] /\ ReadOk /\ n \in Nat
      /\ Frame.e \in DOMAIN ast /\ Tree = ast[Frame.e] /\ JobOk(n, Frame)
  BY GenFacts DEF Tree
<1>2. Tree.t = "for"
  BY <1>1 DEF Loops, LoopEnds, JobOk
<1>3. x \in Ident /\ Tree.at \in Slots
  BY <1>1, <1>2, PlaceFacts
<1>4. \A args : LET d == SetInsertPoint(Insert(CreateBlocks(code, 1), "br", args), n + 1)
                IN  CodeOk(d) /\ Len(d.blocks) = n + 1
  <2> TAKE args
  <2> DEFINE d == SetInsertPoint(Insert(CreateBlocks(code, 1), "br", args), n + 1)
  <2>1. 1 \in Nat \ {0}
    OBVIOUS
  <2>2. Jumps(code, d, args, n + 1) /\ Len(d.blocks) = n + 1
    BY <1>1, <2>1, CreateJumps
  <2> HIDE DEF d
  <2>3. QED
    BY <2>2 DEF Jumps, d
<1>5. Jobs(n + 1, t)
  BY <1>1, JobGrows
<1> HIDE DEF n, t
<1>6. CASE Loops
  <2> DEFINE kids == Tree.kids
             g == [do |-> "afterloop", e |-> Frame.e, loop |-> n + 1, old |-> names[x]]
             behind == Push(Job("codegen", kids[2]), Push(g, t))
             r == IF Len(kids) = 4 THEN Push(Job("codegen", kids[3]), behind) ELSE behind
             a == Job("codegen", kids[Len(kids)])
             b == Job("codegen", kids[2])
             c == Job("codegen", kids[3])
  <2>1. /\ code' = SetInsertPoint(Insert(CreateBlocks(code, 1), "br", <<n + 1>>), n + 1)
        /\ names' = [names EXCEPT ![x] = Tree.at] /\ todo' = Push(a, r)
    BY <1>6 DEF Loops, n, t
  <2>2. CodeOk(code') /\ Len(code'.blocks) = n + 1
    BY <1>4, <2>1
  <2>3. names' \in [Ident -> Slots]
    BY <1>1, <1>3, <2>1
  <2>4. JobOk(n + 1, g)
    <3>1. n + 1 \in 1 .. n + 1 /\ names[x] \in Slots
      BY <1>1, <1>3
    <3>2. QED
      BY <1>1, <1>2, <3>1 DEF JobOk, Doings
  <2>5. JobOk(n + 1, a) /\ JobOk(n + 1, b) /\ JobOk(n + 1, c)
    BY <1>1, <1>2, KidFacts, CodegenJob
  <2> HIDE DEF g, a
  <2>6. Jobs(n + 1, behind)
    <3> HIDE DEF b
    <3>1. Jobs(n + 1, Push(b, Push(g, t)))
      BY <1>5, <2>4, <2>5, JobsPush
    <3>2. QED
      BY <3>1 DEF b
  <2> HIDE DEF behind
  <2>7. Jobs(n + 1, r)
    <3> HIDE DEF c
    <3>1. Jobs(n + 1, Push(c, behind))
      BY <2>5, <2>6, JobsPush
    <3>2. QED
      BY <2>6, <3>1 DEF c
  <2> HIDE DEF r
  <2>8. Jobs(n + 1, todo')
    BY <2>1, <2>5, <2>7, JobsPush
  <2>9. QED
    BY <2>2, <2>3, <2>8 DEF Typed
<1>7. CASE LoopEnds
  <2>1. /\ code' = SetInsertPoint(Insert(CreateBlocks(code, 1), "br", <<Frame.loop, n + 1>>), n + 1)
        /\ names' = [names EXCEPT ![x] = Frame.old] /\ todo' = t /\ Frame.do = "afterloop"
    BY <1>7 DEF LoopEnds, n, t
  <2>2. CodeOk(code') /\ Len(code'.blocks) = n + 1
    BY <1>4, <2>1
  <2>3. Frame.old \in Slots
    BY <1>1, <2>1 DEF JobOk
  <2>4. names' \in [Ident -> Slots]
    BY <1>1, <1>3, <2>1, <2>3
  <2>5. QED
    BY <1>5, <2>1, <2>2, <2>4 DEF Typed
<1>8. QED
  BY <1>6, <1>7

LEMMA StepTyped ==
  ASSUME GenOk, CodegenStep
  PROVE  Typed(names', code', todo')
BY StepCases, FewerTyped, DeeperTyped, BindingsTyped, BlocksTyped, LoopsTyped

LEMMA SameJobs ==
  ASSUME toks' = toks, ast' = ast
  PROVE  Slots' = Slots /\ \A n, t : Jobs(n, t)' <=> Jobs(n, t)
<1>1. Slots' = Slots
  BY DEF Slots
<1>2. \A f : OldOk(f)' <=> OldOk(f)
  BY <1>1 DEF OldOk
<1>3. \A n, f : JobOk(n, f)' <=> JobOk(n, f)
  BY <1>1, <1>2 DEF JobOk
<1>4. QED
  BY <1>1, <1>3 DEF Jobs

(* The parser has read all of the expression.                              *)
LEMMA WholeRead ==
  ASSUME ReadOk, Parsed, val # 0
  PROVE  WholeOk
<1>1. ParserOk(ast, todo, val, at) /\ todo = <<>> /\ proto.at \in Nat /\ TreeOk(ast, at)
  <2>1. proto.at \in 1 .. Len(toks) + 1
    BY DEF ReadOk, ProtoOk
  <2>2. QED
    BY <2>1 DEF Parsed, ReadOk
<1>2. Top(todo) = Bottom /\ Bottom.do = "function" /\ Bottom.from = proto.at /\ Bottom.kids = <<>>
  BY <1>1 DEF Top, Bottom
<1>3. Waits(Bottom)
  BY <1>2 DEF Waits
<1>4. PICK i \in 1 .. at - 1 : FrameOk(ast, Bottom, i) /\ ValueOk(ast, val, i)
  BY <1>1, <1>2, <1>3 DEF ParserOk, TopOk
<1>5. i = proto.at
  BY <1>2, <1>4 DEF FrameOk
<1>6. val \in DOMAIN ast /\ proto.at <= ast[val].from
  BY <1>4, <1>5 DEF ValueOk
<1>7. ASSUME NEW d \in DOMAIN ast PROVE ast[d].to < proto.at \/ Inside(ast, d, val)
  <2>1. Covered(ast, d, proto.at, <<>>) \/ proto.at <= ast[d].from
    BY <1>2, <1>4, <1>5 DEF FrameOk, SubtreesOf
  <2>2. CASE Covered(ast, d, proto.at, <<>>)
    BY <2>2 DEF Covered
  <2>3. CASE proto.at <= ast[d].from
    <3>1. ast[d].from \in Nat
      <4>1. ast[d].from \in 1 .. Len(toks)
        BY <1>1 DEF TreeOk, NodeOk
      <4>2. QED
        BY <4>1
    <3>2. ~ (ast[d].from < proto.at)
      BY <1>1, <2>3, <3>1
    <3>3. QED
      BY <1>4, <1>5, <3>2 DEF ValueOk
  <2>4. QED
    BY <2>1, <2>2, <2>3
<1>8. QED
  BY <1>6, <1>7 DEF WholeOk

LEMMA ArgumentsTyped ==
  ASSUME ReadOk
  PROVE  ArgumentAllocas(proto.args) \in [Ident -> Slots]
<1> DEFINE args == proto.args
           own(x) == {i \in DOMAIN args : Tok(args[i]) = x}
           last(x) == CHOOSE i \in own(x) : \A j \in own(x) : j <= i
<1>1. Len(toks) \in Nat /\ proto.at \in 1 .. Len(toks) + 1 /\ args \in Seq(1 .. proto.at - 1)
  BY TokFacts DEF ReadOk, ProtoOk
<1>2. \A i \in DOMAIN args : args[i] \in Slots
  <2> TAKE i \in DOMAIN args
  <2>1. args[i] \in 1 .. proto.at - 1
    BY <1>1
  <2>2. QED
    BY <1>1, <2>1 DEF Slots
<1>3. Len(args) \in Nat /\ DOMAIN args = 1 .. Len(args) /\ 0 \in Slots
  BY <1>1 DEF Slots
<1>4. ArgumentAllocas(args) = [x \in Ident |-> IF own(x) = {} THEN 0 ELSE args[last(x)]]
  BY DEF ArgumentAllocas, Bound
<1>5. ASSUME NEW x, own(x) # {} PROVE args[last(x)] \in Slots
  <2>1. own(x) \in SUBSET (1 .. Len(args))
    BY <1>3
  <2>2. last(x) \in own(x)
    BY <1>3, <1>5, <2>1, Largest
  <2>3. QED
    BY <1>2, <2>2
<1> HIDE DEF last, own, args
<1>6. QED
  BY <1>3, <1>4, <1>5 DEF args

LEMMA GenInit ==
  ASSUME Init
  PROVE  GenOk
<1>1. ReadOk
  BY ReadInit
<1>2. 0 \in Slots
  BY <1>1, TokFacts DEF ReadOk, Slots
<1>3. NoNames \in [Ident -> Slots]
  BY <1>2 DEF NoNames
<1>4. QED
  BY <1>1, <1>3, NewFunctionOk DEF Init, GenOk

LEMMA GenNext ==
  ASSUME GenOk, [Next]_vars
  PROVE  GenOk'
<1>1. ReadOk /\ ReadOk'
  BY ReadNext DEF GenOk
<1>2. 0 \in Slots
  BY <1>1, TokFacts DEF ReadOk, Slots
<1>3. CASE \/ HandleDefinition \/ HandleExtern \/ HandleTopLevelExpression \/ SkipSemicolon
           \/ ParseStep \/ ParseFailed
  <2>1. UNCHANGED <<toks, names, code>> /\ phase' # "generating" /\ (phase' = "parsing" => ~ ok')
    <3>1. CASE ParseStep
      BY <3>1, ParseKeeps DEF ParseStep, GenOk
    <3>2. CASE ParseFailed
      BY <3>2 DEF ParseFailed, GoOn
    <3>3. CASE HandleDefinition \/ HandleExtern \/ HandleTopLevelExpression \/ SkipSemicolon
      BY <3>3 DEF HandleDefinition, HandleExtern, HandleTopLevelExpression, SkipSemicolon, GoOn, ParseBody
    <3>4. QED
      BY <1>3, <3>1, <3>2, <3>3
  <2>2. Slots' = Slots
    BY <2>1 DEF Slots
  <2>3. CodeOk(code')
    BY <2>1 DEF GenOk
  <2>4. QED
    BY <1>1, <2>1, <2>2, <2>3 DEF GenOk
<1>4. CASE FunctionCodegen
  <2>1. /\ UNCHANGED <<toks, at, ast, val, proto, commands>> /\ code' = NewFunction
        /\ names' = ArgumentAllocas(proto.args) /\ todo' = Codegen(val) /\ phase' = "generating"
        /\ Parsed /\ val # 0
    BY <1>4 DEF FunctionCodegen
  <2>2. WholeOk
    BY <1>1, <2>1, WholeRead
  <2>3. WholeOk'
    BY <2>1, <2>2 DEF WholeOk, Inside
  <2>4. \A n : Jobs(n, <<Job("codegen", val)>>)
    <3> DEFINE f == Job("codegen", val)
    <3>1. \A n : JobOk(n, f)
      BY <2>2, CodegenJob DEF WholeOk
    <3> HIDE DEF f
    <3>2. <<f>> \in Seq({f}) /\ \A k \in DOMAIN <<f>> : <<f>>[k] = f
      OBVIOUS
    <3>3. QED
      BY <3>1, <3>2 DEF Jobs, IsSeq, f
  <2>5. Slots' = Slots /\ \A n, t : Jobs(n, t)' <=> Jobs(n, t)
    BY <2>1, SameJobs
  <2>6. Jobs(Len(code.blocks), todo)'
    BY <2>1, <2>4, <2>5 DEF Codegen, Job
  <2>7. QED
    BY <1>1, <2>1, <2>3, <2>5, <2>6, ArgumentsTyped, NewFunctionOk DEF GenOk
<1>5. CASE Refuse \/ AssignUndefined
  <2>1. /\ toks' = toks /\ code' = code /\ (names' = names \/ names' = NoNames)
        /\ phase' \in {"ready", "undefined"}
    BY <1>5 DEF Refuse, AssignUndefined
  <2>2. names' \in [Ident -> Slots] /\ Slots' = Slots /\ CodeOk(code')
    BY <1>2, <2>1 DEF GenOk, NoNames, Slots
  <2>3. QED
    BY <1>1, <2>1, <2>2 DEF GenOk
<1>6. CASE CodegenStep
  <2>1. Typed(names', code', todo')
    BY <1>6, StepTyped
  <2>2. phase = "generating" /\ UNCHANGED <<toks, prec, at, ast, val, proto, phase, commands>>
    BY <1>6, StepCases
  <2>3. Slots' = Slots /\ \A n, t : Jobs(n, t)' <=> Jobs(n, t)
    BY <2>2, SameJobs
  <2>4. WholeOk'
    BY <2>2 DEF WholeOk, Inside, GenOk
  <2>5. Jobs(Len(code.blocks), todo)'
    BY <2>1, <2>3 DEF Typed
  <2>6. QED
    BY <1>1, <2>1, <2>2, <2>3, <2>4, <2>5 DEF GenOk, Typed
<1>7. CASE EndFunction
  <2>1. /\ toks' = toks /\ names' = names /\ phase' = "ready"
        /\ code' = code \/ code' = Insert(code, "ret", <<>>)
    BY <1>7 DEF EndFunction
  <2>2. CodeOk(code')
    BY <2>1, InsertFacts DEF GenOk
  <2>3. Slots' = Slots
    BY <2>1 DEF Slots
  <2>4. QED
    BY <1>1, <2>1, <2>2, <2>3 DEF GenOk
<1>8. CASE UNCHANGED vars
  <2>1. /\ UNCHANGED <<toks, ast, val, todo, names, code, ok, proto, phase>>
    BY <1>8 DEF vars
  <2>2. Slots' = Slots /\ \A n, t : Jobs(n, t)' <=> Jobs(n, t)
    BY <2>1, SameJobs
  <2>3. WholeOk' <=> WholeOk
    BY <2>1 DEF WholeOk, Inside
  <2>4. CodeOk(code')
    BY <2>1 DEF GenOk
  <2>5. Jobs(Len(code.blocks), todo)' <=> Jobs(Len(code.blocks), todo)
    BY <2>1, <2>2
  <2>6. QED
    BY <1>1, <2>1, <2>2, <2>3, <2>4, <2>5 DEF GenOk
<1>9. QED
  BY <1>3, <1>4, <1>5, <1>6, <1>7, <1>8 DEF Next

LEMMA GenAlways == Spec => []GenOk
<1>1. Init => GenOk
  BY GenInit
<1>2. GenOk /\ [Next]_vars => GenOk'
  BY GenNext
<1>3. QED
  BY <1>1, <1>2, PTL DEF Spec

(* Precedences, places, slots and blocks are what they should be, whatever *)
(* is typed.                                                               *)
THEOREM TypesKept == Spec => []TypeOK
<1>1. GenOk => TypeOK
  BY DEF GenOk, ReadOk, InputOk, CodeOk, Slots, TypeOK
<1>2. QED
  BY <1>1, GenAlways, PTL

-----------------------------------------------------------------------------
(* The blocks of a function that is being generated.                       *)
Owns(f) == IF f.do = "else" THEN {f.begin, f.begin + 1} ELSE IF f.do = "phi" THEN {f.merge} ELSE {}
Last(bs, a) == bs[a][Len(bs[a])]
Ends(bs, a) == bs[a] # <<>> /\ Last(bs, a).op = "br"
Preds(bs, b) == {a \in DOMAIN bs : Ends(bs, a) /\ b \in Targets(Last(bs, a))}
Phis(bs, b) == \E i \in DOMAIN bs[b] : bs[b][i].op = "phi"

(* What the frames on the stack know of their blocks.                      *)
HeldOk(bs, inside, f) ==
  /\ f.do = "else" => Preds(bs, f.begin + 1) = {}
  /\ f.do = "phi" => Preds(bs, f.merge) = {f.then}
  /\ f.do = "afterloop" => f.loop \in inside /\ ~ Phis(bs, f.loop)

(* Every block in the function ends in its only branch, but the one that   *)
(* is built, and the others are empty.                                     *)
InstrOk(bs, inside, at1, b, i) ==
  /\ bs[b][i].op # "ret"
  /\ bs[b][i].op = "br" => b # at1 /\ i = Len(bs[b]) /\ Targets(bs[b][i]) \subseteq DOMAIN bs
  /\ bs[b][i].op = "phi" => Targets(bs[b][i]) = Preds(bs, b)
BlocksOk(bs, inside, at1) ==
  /\ \A b \in DOMAIN bs : b \notin inside => bs[b] = <<>>
  /\ \A b \in inside \ {at1} : Ends(bs, b)
  /\ \A b \in DOMAIN bs : \A i \in DOMAIN bs[b] : InstrOk(bs, inside, at1, b, i)

Frames(t) == {t[k] : k \in DOMAIN t}
Owned(t) == UNION {Owns(f) : f \in Frames(t)}
Held(bs, inside, t) == \A f \in Frames(t) : HeldOk(bs, inside, f)
Apart(t) == \A j, k \in DOMAIN t : j # k => Owns(t[j]) \cap Owns(t[k]) = {}
AllLeft(t) == \A f \in Frames(t) : f.do = "binop" => f.left

(* The blocks that are not in the function are those frames will add.      *)
Split(c, own, t) ==
  /\ c.inside \cup own \cup Owned(t) = DOMAIN c.blocks
  /\ c.inside \cap own = {} /\ c.inside \cap Owned(t) = {} /\ own \cap Owned(t) = {}
  /\ Apart(t) /\ Held(c.blocks, c.inside, t)
Built(c) == BlocksOk(c.blocks, c.inside, c.at)

LEMMA FramesPush ==
  ASSUME NEW t, IsSeq(t), NEW f
  PROVE  /\ Frames(Push(f, t)) = {f} \cup Frames(t)
         /\ Owned(Push(f, t)) = Owns(f) \cup Owned(t)
         /\ Apart(Push(f, t)) <=> Apart(t) /\ Owns(f) \cap Owned(t) = {}
         /\ AllLeft(Push(f, t)) <=> AllLeft(t) /\ (f.do = "binop" => f.left)
<1> DEFINE r == Push(f, t)
<1>1. /\ 1 \in DOMAIN r /\ r[1] = f
      /\ \A k \in DOMAIN r : k \in Nat /\ (k = 1 \/ (k - 1 \in DOMAIN t /\ r[k] = t[k - 1]))
      /\ \A k \in DOMAIN t : k \in Nat /\ k + 1 \in DOMAIN r /\ r[k + 1] = t[k]
  BY PushFacts
<1> HIDE DEF r
<1>2. Frames(r) = {f} \cup Frames(t)
  <2>1. \A k \in DOMAIN r : r[k] = f \/ \E j \in DOMAIN t : r[k] = t[j]
    BY <1>1
  <2>2. \A j \in DOMAIN t : \E k \in DOMAIN r : t[j] = r[k]
    BY <1>1
  <2>3. QED
    BY <1>1, <2>1, <2>2 DEF Frames
<1>3. Owned(r) = Owns(f) \cup Owned(t)
  BY <1>2 DEF Owned
<1>4. Apart(r) => Apart(t) /\ Owns(f) \cap Owned(t) = {}
  <2> HAVE Apart(r)
  <2>1. ASSUME NEW j \in DOMAIN t, NEW k \in DOMAIN t, j # k PROVE Owns(t[j]) \cap Owns(t[k]) = {}
    <3>1. j + 1 \in DOMAIN r /\ k + 1 \in DOMAIN r /\ j + 1 # k + 1 /\ r[j + 1] = t[j] /\ r[k + 1] = t[k]
      BY <1>1, <2>1
    <3>2. QED
      BY <3>1 DEF Apart
  <2>2. ASSUME NEW k \in DOMAIN t PROVE Owns(f) \cap Owns(t[k]) = {}
    <3>1. k + 1 \in DOMAIN r /\ k + 1 # 1 /\ r[k + 1] = t[k] /\ 1 \in DOMAIN r /\ r[1] = f
      <4>1. k \in Nat /\ k >= 1
        BY DEF IsSeq
      <4>2. QED
        BY <1>1, <4>1
    <3>2. QED
      BY <3>1 DEF Apart
  <2>3. QED
    BY <2>1, <2>2 DEF Apart, Owned, Frames
<1>5. Apart(t) /\ Owns(f) \cap Owned(t) = {} => Apart(r)
  <2> HAVE Apart(t) /\ Owns(f) \cap Owned(t) = {}
  <2>1. \A k \in DOMAIN t : Owns(f) \cap Owns(t[k]) = {}
    BY DEF Owned, Frames
  <2>2. ASSUME NEW j \in DOMAIN r, NEW k \in DOMAIN r, j # k PROVE Owns(r[j]) \cap Owns(r[k]) = {}
    <3>1. /\ j \in Nat /\ k \in Nat
          /\ j = 1 \/ (j - 1 \in DOMAIN t /\ r[j] = t[j - 1])
          /\ k = 1 \/ (k - 1 \in DOMAIN t /\ r[k] = t[k - 1])
      BY <1>1
    <3>2. CASE j = 1
      BY <1>1, <2>1, <2>2, <3>1, <3>2
    <3>3. CASE k = 1
      BY <1>1, <2>1, <2>2, <3>1, <3>3
    <3>4. CASE j # 1 /\ k # 1
      <4>1. j - 1 # k - 1
        BY <2>2, <3>1
      <4>2. QED
        BY <3>1, <3>4, <4>1 DEF Apart
    <3>5. QED
      BY <3>2, <3>3, <3>4
  <2>3. QED
    BY <2>2 DEF Apart
<1>6. AllLeft(r) <=> AllLeft(t) /\ (f.do = "binop" => f.left)
  BY <1>2 DEF AllLeft
<1>7. QED
  BY <1>2, <1>3, <1>4, <1>5, <1>6 DEF r

LEMMA SplitPush ==
  \A t : IsSeq(t) => \A c, f : Split(c, {}, Push(f, t)) <=> Split(c, Owns(f), t) /\ HeldOk(c.blocks, c.inside, f)
<1> TAKE t
<1> HAVE IsSeq(t)
<1> TAKE c, f
<1> DEFINE r == Push(f, t)
<1>1. /\ Frames(r) = {f} \cup Frames(t) /\ Owned(r) = Owns(f) \cup Owned(t)
      /\ Apart(r) <=> Apart(t) /\ Owns(f) \cap Owned(t) = {}
  BY FramesPush
<1>2. Held(c.blocks, c.inside, r) <=> Held(c.blocks, c.inside, t) /\ HeldOk(c.blocks, c.inside, f)
  BY <1>1 DEF Held
<1> HIDE DEF r
<1>3. QED
  BY <1>1, <1>2 DEF Split, r

LEMMA SplitPlain ==
  \A t : IsSeq(t) => \A c, f : f.do \notin Makers => (Split(c, {}, Push(f, t)) <=> Split(c, {}, t))
<1> TAKE t
<1> HAVE IsSeq(t)
<1> TAKE c, f
<1> HAVE f.do \notin Makers
<1>1. Owns(f) = {} /\ HeldOk(c.blocks, c.inside, f)
  BY DEF Owns, HeldOk, Makers
<1>2. QED
  BY <1>1, SplitPush

Listed(args) == {args[j] : j \in DOMAIN args}

LEMMA JumpFacts ==
  ASSUME NEW c, NEW d, NEW args, NEW b, Jumps(c, d, args, b), Built(c)
  PROVE  LET T == Listed(args)
         IN  /\ Ends(d.blocks, c.at) /\ Targets(Last(d.blocks, c.at)) = T /\ ~ Ends(c.blocks, c.at)
             /\ \A x \in DOMAIN c.blocks : x # c.at => (Ends(d.blocks, x) <=> Ends(c.blocks, x))
             /\ \A x : Preds(d.blocks, x) = Preds(c.blocks, x) \cup (IF x \in T THEN {c.at} ELSE {})
             /\ \A x : x \notin DOMAIN c.blocks => Preds(c.blocks, x) = {}
<1> DEFINE T == Listed(args)
           a == c.at
           bs == c.blocks
           r == d.blocks
           I == [op |-> "br", args |-> args]
<1>1. /\ a \in c.inside /\ a \in DOMAIN bs /\ a \in DOMAIN r /\ IsSeq(bs[a]) /\ \A x \in DOMAIN bs : IsSeq(bs[x])
  BY DEF Jumps, CodeOk
<1>2. /\ IsSeq(r[a]) /\ Len(bs[a]) \in Nat /\ Len(r[a]) = Len(bs[a]) + 1
      /\ DOMAIN bs[a] = 1 .. Len(bs[a]) /\ DOMAIN r[a] = 1 .. Len(bs[a]) + 1
      /\ r[a][Len(bs[a]) + 1] = I
  <2>1. r[a] = Append(bs[a], I)
    BY DEF Jumps
  <2> HIDE DEF bs, r, I, a
  <2>2. QED
    BY <1>1, <2>1, AppendFacts
<1>3. Ends(r, a) /\ Targets(Last(r, a)) = T
  <2>1. r[a] # <<>>
    BY <1>2
  <2>2. Last(r, a) = I
    BY <1>2 DEF Last
  <2>3. I.op = "br" /\ Targets(I) = T
    BY DEF Targets, Listed
  <2> HIDE DEF I, T, r, a
  <2>4. QED
    BY <2>1, <2>2, <2>3 DEF Ends
<1>4. ~ Ends(bs, a)
  <2>1. SUFFICES ASSUME bs[a] # <<>>, Last(bs, a).op = "br" PROVE FALSE
    BY DEF Ends
  <2>2. Len(bs[a]) \in DOMAIN bs[a]
    BY <1>1, <2>1 DEF IsSeq
  <2>3. InstrOk(bs, c.inside, a, a, Len(bs[a]))
    BY <1>1, <2>2 DEF Built, BlocksOk
  <2>4. QED
    BY <2>1, <2>3 DEF InstrOk, Last
<1>5. \A x \in DOMAIN bs : x # a => r[x] = bs[x]
  BY DEF Jumps
<1>6. \A x \in DOMAIN bs : x # a => (Ends(r, x) <=> Ends(bs, x)) /\ Last(r, x) = Last(bs, x)
  BY <1>5 DEF Ends, Last
<1>7. \A x \in DOMAIN r : x \notin DOMAIN bs => ~ Ends(r, x)
  BY DEF Jumps, Ends
<1>8. DOMAIN bs \subseteq DOMAIN r
  BY DEF Jumps
<1> HIDE DEF T, a, bs, r, I
<1>9. \A x : Preds(r, x) = Preds(bs, x) \cup (IF x \in T THEN {a} ELSE {})
  BY <1>1, <1>3, <1>4, <1>6, <1>7, <1>8 DEF Preds
<1>10. ASSUME NEW x, x \notin DOMAIN bs PROVE Preds(bs, x) = {}
  <2>1. SUFFICES ASSUME NEW y \in DOMAIN bs, Ends(bs, y), x \in Targets(Last(bs, y)) PROVE FALSE
    BY DEF Preds
  <2>2. bs[y] # <<>> /\ IsSeq(bs[y]) /\ Last(bs, y).op = "br"
    BY <1>1, <2>1 DEF Ends
  <2>3. Len(bs[y]) \in DOMAIN bs[y]
    BY <2>2 DEF IsSeq
  <2>4. InstrOk(bs, c.inside, a, y, Len(bs[y]))
    BY <2>3 DEF Built, BlocksOk, bs, a
  <2>5. Targets(Last(bs, y)) \subseteq DOMAIN bs
    BY <2>2, <2>4 DEF InstrOk, Last
  <2>6. QED
    BY <1>10, <2>1, <2>5
<1>11. QED
  BY <1>3, <1>4, <1>6, <1>9, <1>10 DEF T, a, bs, r

LEMMA JumpBuilt ==
  ASSUME NEW c, NEW d, NEW args, NEW b, Jumps(c, d, args, b), b \notin c.inside, Built(c),
         Listed(args) \subseteq DOMAIN d.blocks,
         \A x \in Listed(args) : x \in DOMAIN c.blocks => ~ Phis(c.blocks, x)
  PROVE  Built(d) /\ d.blocks[b] = <<>>
<1> DEFINE T == Listed(args)
           a == c.at
           bs == c.blocks
           r == d.blocks
           I == [op |-> "br", args |-> args]
<1>1. /\ a \in c.inside /\ a \in DOMAIN bs /\ a \in DOMAIN r /\ IsSeq(bs[a]) /\ DOMAIN bs \subseteq DOMAIN r
      /\ d.inside = c.inside \cup {b} /\ d.at = b /\ b \in DOMAIN r /\ b \notin c.inside
      /\ c.inside \subseteq DOMAIN bs
      /\ \A x \in DOMAIN bs : x # a => r[x] = bs[x]
      /\ \A x \in DOMAIN r : x \notin DOMAIN bs => r[x] = <<>>
  BY DEF Jumps, CodeOk
<1>2. /\ Len(bs[a]) \in Nat /\ Len(r[a]) = Len(bs[a]) + 1
      /\ DOMAIN bs[a] = 1 .. Len(bs[a]) /\ DOMAIN r[a] = 1 .. Len(bs[a]) + 1
      /\ r[a][Len(bs[a]) + 1] = I /\ \A i \in DOMAIN bs[a] : r[a][i] = bs[a][i]
  <2>1. r[a] = Append(bs[a], I)
    BY DEF Jumps
  <2> HIDE DEF bs, r, I, a
  <2>2. QED
    BY <1>1, <2>1, AppendFacts
<1>3. /\ Ends(r, a)
      /\ \A x \in DOMAIN bs : x # a => (Ends(r, x) <=> Ends(bs, x))
      /\ \A x : Preds(r, x) = Preds(bs, x) \cup (IF x \in T THEN {a} ELSE {})
  BY JumpFacts
<1>4. /\ \A x \in DOMAIN bs : x \notin c.inside => bs[x] = <<>>
      /\ \A x \in c.inside \ {a} : Ends(bs, x)
      /\ \A x \in DOMAIN bs : \A i \in DOMAIN bs[x] : InstrOk(bs, c.inside, a, x, i)
  BY DEF Built, BlocksOk
<1>5. I.op = "br" /\ Targets(I) = T
  BY DEF Targets, Listed
<1>6. T \subseteq DOMAIN r /\ \A x \in T : x \in DOMAIN bs => ~ Phis(bs, x)
  OBVIOUS
<1> DEFINE in == d.inside
<1> HIDE DEF T, a, bs, r, I, in
<1>7. \A x \in DOMAIN r : x \notin in => r[x] = <<>>
  BY <1>1, <1>4 DEF in
<1>8. r[b] = <<>>
  BY <1>1, <1>4
<1>9. \A x \in in \ {b} : Ends(r, x)
  BY <1>1, <1>3, <1>4 DEF in
<1>10. \A x \in DOMAIN bs : Phis(bs, x) => Preds(r, x) = Preds(bs, x)
  BY <1>3, <1>6
<1>11. ASSUME NEW x \in DOMAIN bs, NEW i \in DOMAIN bs[x], r[x][i] = bs[x][i],
              bs[x][i].op # "br" \/ (i = Len(r[x]) /\ x # b)
       PROVE  InstrOk(r, in, b, x, i)
  <2>1. InstrOk(bs, c.inside, a, x, i)
    BY <1>4
  <2>2. bs[x][i].op = "phi" => Phis(bs, x)
    BY DEF Phis
  <2>3. QED
    BY <1>1, <1>10, <1>11, <2>1, <2>2 DEF InstrOk
<1>12. ASSUME NEW x \in DOMAIN r, NEW i \in DOMAIN r[x] PROVE InstrOk(r, in, b, x, i)
  <2>1. CASE x = a /\ i \in DOMAIN bs[a]
    <3>1. InstrOk(bs, c.inside, a, a, i)
      BY <1>1, <1>4, <2>1
    <3>2. bs[a][i].op # "br" /\ r[a][i] = bs[a][i]
      BY <1>2, <2>1, <3>1 DEF InstrOk
    <3>3. QED
      BY <1>1, <1>11, <2>1, <3>2
  <2>2. CASE x = a /\ i \notin DOMAIN bs[a]
    <3>1. i = Len(r[a]) /\ r[a][i] = I
      BY <1>2, <2>2, <1>12
    <3>2. x # b
      BY <1>1, <2>2
    <3>3. QED
      BY <1>5, <1>6, <2>2, <3>1, <3>2 DEF InstrOk
  <2>3. CASE x # a /\ x \in DOMAIN bs
    <3>1. r[x] = bs[x] /\ InstrOk(bs, c.inside, a, x, i)
      BY <1>1, <1>4, <1>12, <2>3
    <3>2. x # b
      BY <1>8, <1>12
    <3>3. QED
      BY <1>11, <1>12, <2>3, <3>1, <3>2 DEF InstrOk
  <2>4. CASE x \notin DOMAIN bs
    BY <1>1, <1>12, <2>4
  <2>5. QED
    BY <2>1, <2>2, <2>3, <2>4
<1>13. QED
  BY <1>1, <1>7, <1>8, <1>9, <1>12 DEF Built, BlocksOk, r, in

(* The frames that are left hold what they held.                           *)
LEMMA JumpHeld ==
  ASSUME NEW c, NEW d, NEW args, NEW b, Jumps(c, d, args, b), Built(c), NEW t,
         Held(c.blocks, c.inside, t), Listed(args) \cap Owned(t) = {}
  PROVE  Held(d.blocks, d.inside, t)
<1> DEFINE T == Listed(args)
           bs == c.blocks
           r == d.blocks
           a == c.at
<1>1. /\ \A x : Preds(r, x) = Preds(bs, x) \cup (IF x \in T THEN {a} ELSE {})
  BY JumpFacts
<1>2. /\ c.inside \subseteq DOMAIN bs /\ c.inside \subseteq d.inside /\ a \in DOMAIN bs /\ IsSeq(bs[a])
      /\ r[a] = Append(bs[a], [op |-> "br", args |-> args]) /\ \A x \in DOMAIN bs : x # a => r[x] = bs[x]
  BY DEF Jumps, CodeOk
<1>3. ASSUME NEW x \in c.inside, ~ Phis(bs, x) PROVE ~ Phis(r, x)
  <2>1. CASE x = a
    <3> DEFINE I == [op |-> "br", args |-> args]
    <3>1. I.op = "br" /\ r[a] = Append(bs[a], I)
      BY <1>2
    <3> HIDE DEF I, bs, r, a
    <3>2. /\ DOMAIN bs[a] = 1 .. Len(bs[a]) /\ DOMAIN r[a] = 1 .. Len(bs[a]) + 1 /\ Len(bs[a]) \in Nat
          /\ r[a][Len(bs[a]) + 1] = I /\ \A i \in DOMAIN bs[a] : r[a][i] = bs[a][i]
      BY <1>2, <3>1, AppendFacts
    <3>3. \A i \in DOMAIN r[a] : i \in DOMAIN bs[a] \/ i = Len(bs[a]) + 1
      BY <3>2
    <3>4. QED
      BY <1>3, <2>1, <3>1, <3>2, <3>3 DEF Phis
  <2>2. CASE x # a
    <3>1. r[x] = bs[x]
      BY <1>2, <2>2
    <3>2. QED
      BY <1>3, <3>1 DEF Phis
  <2>3. QED
    BY <2>1, <2>2
<1> HIDE DEF bs, r, a, T
<1>4. ASSUME NEW f \in Frames(t) PROVE HeldOk(r, d.inside, f)
  <2>1. HeldOk(bs, c.inside, f) /\ \A x \in T : x \notin Owns(f)
    BY DEF Held, Owned, bs, T
  <2>2. f.do = "else" => Preds(r, f.begin + 1) = {}
    BY <1>1, <2>1 DEF HeldOk, Owns
  <2>3. f.do = "phi" => Preds(r, f.merge) = {f.then}
    BY <1>1, <2>1 DEF HeldOk, Owns
  <2>4. f.do = "afterloop" => f.loop \in d.inside /\ ~ Phis(r, f.loop)
    BY <1>2, <1>3, <2>1 DEF HeldOk
  <2>5. QED
    BY <2>2, <2>3, <2>4 DEF HeldOk
<1>5. QED
  BY <1>4 DEF Held, r

(* Another instruction than a branch.                                      *)
LEMMA InsertPreds ==
  ASSUME NEW c, CodeOk(c), Built(c), NEW op, op # "br", NEW args, NEW d, d = Insert(c, op, args)
  PROVE  /\ \A x : Preds(d.blocks, x) = Preds(c.blocks, x)
         /\ \A x \in DOMAIN c.blocks : x # c.at => Ends(d.blocks, x) = Ends(c.blocks, x)
         /\ \A i \in DOMAIN c.blocks[c.at] : c.blocks[c.at][i].op # "br"
<1>1. PICK bs, r, a, I : bs = c.blocks /\ r = d.blocks /\ a = c.at /\ I = [op |-> op, args |-> args]
  OBVIOUS
<1>2. /\ a \in DOMAIN bs /\ IsSeq(bs[a]) /\ DOMAIN r = DOMAIN bs /\ r[a] = Append(bs[a], I)
      /\ \A x \in DOMAIN bs : x # a => r[x] = bs[x]
  BY <1>1, InsertFacts DEF CodeOk
<1>3. r[a] # <<>> /\ Last(r, a) = I
  <2>1. Len(r[a]) = Len(bs[a]) + 1 /\ r[a][Len(bs[a]) + 1] = I /\ Len(bs[a]) \in Nat
    BY <1>2, AppendFacts
  <2>2. QED
    BY <2>1 DEF Last
<1>4. ~ Ends(r, a)
  BY <1>1, <1>3 DEF Ends
<1>5. \A i \in DOMAIN bs[a] : bs[a][i].op # "br"
  BY <1>1, <1>2 DEF Built, BlocksOk, InstrOk
<1>6. ~ Ends(bs, a)
  <2>1. SUFFICES ASSUME bs[a] # <<>> PROVE Len(bs[a]) \in DOMAIN bs[a]
    BY <1>5 DEF Ends, Last
  <2>2. QED
    BY <1>2, <2>1 DEF IsSeq
<1>7. \A x \in DOMAIN bs : x # a => Ends(r, x) = Ends(bs, x) /\ Last(r, x) = Last(bs, x)
  BY <1>2 DEF Ends, Last
<1>8. \A x : Preds(r, x) = Preds(bs, x)
  BY <1>2, <1>4, <1>6, <1>7 DEF Preds
<1>9. QED
  BY <1>1, <1>4, <1>5, <1>6, <1>7, <1>8

(* A phi that names the blocks its block is entered from.                  *)
LEMMA PhiBuilt ==
  ASSUME NEW c, CodeOk(c), Built(c), c.blocks[c.at] = <<>>, NEW args,
         Listed(args) = Preds(c.blocks, c.at),
         NEW t, Held(c.blocks, c.inside, t),
         \A f \in Frames(t) : f.do = "afterloop" => f.loop # c.at /\ f.loop \in DOMAIN c.blocks,
         NEW d, d = Insert(c, "phi", args)
  PROVE  /\ Built(d) /\ Held(d.blocks, d.inside, t)
         /\ d.inside = c.inside /\ DOMAIN d.blocks = DOMAIN c.blocks
<1>1. d = Insert(c, "phi", args)
  OBVIOUS
<1>2. PICK bs, r, a, I, in : /\ bs = c.blocks /\ r = d.blocks /\ a = c.at /\ in = c.inside
                             /\ I = [op |-> "phi", args |-> args]
  OBVIOUS
<1>3. /\ a \in DOMAIN bs /\ a \in in /\ IsSeq(bs[a]) /\ DOMAIN r = DOMAIN bs /\ r[a] = Append(bs[a], I)
      /\ (\A x \in DOMAIN bs : x # a => r[x] = bs[x]) /\ d.inside = in /\ d.at = a
  BY <1>1, <1>2, InsertFacts DEF CodeOk
<1>4. DOMAIN r[a] = {1} /\ r[a][1] = I
  <2>1. DOMAIN r[a] = 1 .. Len(bs[a]) + 1 /\ r[a][Len(bs[a]) + 1] = I
    BY <1>3, AppendFacts
  <2>2. Len(bs[a]) = 0
    BY <1>2
  <2>3. QED
    BY <2>1, <2>2
<1>5. I.op = "phi" /\ Targets(I) = Preds(bs, a)
  BY <1>2 DEF Targets, Listed
<1>6. /\ \A x : Preds(r, x) = Preds(bs, x)
      /\ \A x \in DOMAIN bs : x # a => Ends(r, x) = Ends(bs, x)
  <2>1. PICK op : op = "phi"
    OBVIOUS
  <2>2. op # "br" /\ d = Insert(c, op, args)
    BY <1>1, <2>1
  <2>3. /\ \A x : Preds(d.blocks, x) = Preds(c.blocks, x)
        /\ \A x \in DOMAIN c.blocks : x # c.at => Ends(d.blocks, x) = Ends(c.blocks, x)
    BY <2>2, InsertPreds
  <2>4. QED
    BY <1>2, <2>3
<1>7. BlocksOk(bs, in, a)
  BY <1>2 DEF Built
<1>8. BlocksOk(r, in, a)
  <2>1. \A x \in DOMAIN r : x \notin in => r[x] = <<>>
    BY <1>3, <1>7 DEF BlocksOk
  <2>2. \A x \in in \ {a} : Ends(r, x)
    BY <1>2, <1>6, <1>7 DEF BlocksOk, CodeOk
  <2>3. ASSUME NEW x \in DOMAIN r, NEW i \in DOMAIN r[x] PROVE InstrOk(r, in, a, x, i)
    <3>1. CASE x = a
      BY <1>4, <1>5, <1>6, <2>3, <3>1 DEF InstrOk
    <3>2. CASE x # a
      <4>1. r[x] = bs[x] /\ InstrOk(bs, in, a, x, i)
        BY <1>3, <1>7, <2>3, <3>2 DEF BlocksOk
      <4>2. QED
        BY <1>3, <1>6, <4>1 DEF InstrOk
    <3>3. QED
      BY <3>1, <3>2
  <2>4. QED
    BY <2>1, <2>2, <2>3 DEF BlocksOk
<1>9. ASSUME NEW f \in Frames(t) PROVE HeldOk(r, in, f)
  <2>1. HeldOk(bs, in, f)
    BY <1>2 DEF Held
  <2>2. f.do = "afterloop" => r[f.loop] = bs[f.loop]
    BY <1>2, <1>3
  <2>3. QED
    BY <1>6, <2>1, <2>2 DEF HeldOk, Phis
<1>10. QED
  BY <1>1, <1>2, <1>3, <1>8, <1>9 DEF Built, Held

(* The end of the function.                                                *)
LEMMA NoBranch ==
  \A c : CodeOk(c) /\ Built(c) => \A i \in DOMAIN c.blocks[c.at] : c.blocks[c.at][i].op # "br"
BY DEF CodeOk, Built, BlocksOk, InstrOk

LEMMA EndBuilt ==
  ASSUME CodeOk(code), Built(code), code.inside = DOMAIN code.blocks,
         code' = Insert(code, "ret", <<>>)
  PROVE  WellFormed'
<1>1. PICK bs, r, a, I : /\ bs = code.blocks /\ r = code'.blocks /\ a = code.at
                         /\ I = [op |-> "ret", args |-> <<>>]
  OBVIOUS
<1>2. /\ a \in DOMAIN bs /\ (\A x \in DOMAIN bs : IsSeq(bs[x])) /\ DOMAIN r = DOMAIN bs
      /\ r[a] = Append(bs[a], I) /\ (\A x \in DOMAIN bs : x # a => r[x] = bs[x])
      /\ code'.inside = DOMAIN bs /\ \A x \in DOMAIN r : IsSeq(r[x])
  BY <1>1, InsertFacts DEF CodeOk
<1>3. /\ \A x : Preds(r, x) = Preds(bs, x)
      /\ \A i \in DOMAIN bs[a] : bs[a][i].op # "br"
  <2>1. PICK op, args : op = "ret" /\ args = <<>>
    OBVIOUS
  <2>2. PICK d : d = Insert(code, op, args)
    OBVIOUS
  <2>3. \A x : Preds(d.blocks, x) = Preds(code.blocks, x)
    BY <2>1, <2>2, InsertPreds
  <2>4. d.blocks = r
    BY <1>1, <2>1, <2>2
  <2>5. QED
    BY <1>1, <2>3, <2>4, NoBranch
<1>4. BlocksOk(bs, DOMAIN bs, a)
  BY <1>1 DEF Built
<1>5. \A x : Predecessors(x)' = Preds(r, x)
  <2>1. code'.inside = DOMAIN r /\ code'.blocks = r
    BY <1>1, <1>2
  <2>2. \A x : Predecessors(x)' = {y \in DOMAIN r : r[y] # <<>> /\ (r[y][Len(r[y])].op = "br" /\ x \in Targets(r[y][Len(r[y])]))}
    BY <2>1 DEF Predecessors
  <2>3. QED
    BY <2>2 DEF Preds, Ends, Last
<1>6. I.op = "ret"
  BY <1>1
<1>7. ASSUME NEW b \in DOMAIN r PROVE BlockWellFormed(b)'
  <2>1. r[b] # <<>>
    <3>1. CASE b = a
      BY <1>2, <3>1, AppendFacts
    <3>2. CASE b # a
      BY <1>2, <1>4, <3>2 DEF BlocksOk, Ends
    <3>3. QED
      BY <3>1, <3>2
  <2>2. Len(r[b]) \in DOMAIN r[b]
    BY <1>2, <2>1 DEF IsSeq
  <2>3. r[b][Len(r[b])].op \in Terminator
    <3>1. CASE b = a
      <4>1. r[a][Len(r[a])] = I
        BY <1>2, AppendFacts
      <4>2. QED
        BY <1>6, <3>1, <4>1 DEF Terminator
    <3>2. CASE b # a
      BY <1>2, <1>4, <3>2 DEF BlocksOk, Ends, Last, Terminator
    <3>3. QED
      BY <3>1, <3>2
  <2>4. ASSUME NEW i \in DOMAIN r[b]
        PROVE  /\ r[b][i].op \in Terminator <=> i = Len(r[b])
               /\ r[b][i].op = "br" => Targets(r[b][i]) \subseteq DOMAIN r
               /\ r[b][i].op = "phi" => Targets(r[b][i]) = Preds(r, b)
    <3>1. CASE b = a /\ i \notin DOMAIN bs[a]
      <4>1. i = Len(r[a]) /\ r[a][i] = I
        BY <1>2, <2>4, <3>1, AppendFacts
      <4>2. QED
        BY <1>6, <3>1, <4>1 DEF Terminator
    <3>2. CASE b = a /\ i \in DOMAIN bs[a]
      <4>1. r[a][i] = bs[a][i] /\ i # Len(r[a])
        BY <1>2, <3>2, AppendFacts
      <4>2. InstrOk(bs, DOMAIN bs, a, a, i)
        BY <1>2, <1>4, <3>2 DEF BlocksOk
      <4>3. QED
        BY <1>3, <3>2, <4>1, <4>2 DEF InstrOk, Terminator
    <3>3. CASE b # a
      <4>1. r[b] = bs[b] /\ InstrOk(bs, DOMAIN bs, a, b, i)
        BY <1>2, <1>4, <2>4, <3>3 DEF BlocksOk
      <4>2. QED
        BY <1>2, <1>3, <2>3, <4>1 DEF InstrOk, Terminator
    <3>4. QED
      BY <3>1, <3>2, <3>3
  <2>5. QED
    BY <1>1, <1>2, <1>5, <2>1, <2>4 DEF BlockWellFormed
<1>8. QED
  BY <1>1, <1>2, <1>7 DEF WellFormed

-----------------------------------------------------------------------------
Layout(c, t) == Split(c, {}, t) /\ Built(c)

LEMMA SameLayout ==
  \A c, d, t : c.blocks = d.blocks /\ c.inside = d.inside /\ c.at = d.at /\ Layout(c, t) => Layout(d, t)
BY DEF Layout, Split, Built

LEMMA ListedOne == \A x : Listed(<<x>>) = {x}
<1> TAKE x
<1>1. DOMAIN <<x>> = {1} /\ <<x>>[1] = x
  OBVIOUS
<1>2. QED
  BY <1>1 DEF Listed

LEMMA ListedTwo == \A x, y : Listed(<<x, y>>) = {x, y}
<1> TAKE x, y
<1>1. DOMAIN <<x, y>> = {1, 2} /\ <<x, y>>[1] = x /\ <<x, y>>[2] = y
  OBVIOUS
<1>2. QED
  BY <1>1 DEF Listed

(* Steps that make no blocks.                                              *)
LEMMA PlainLayout ==
  ASSUME GenOk, phase = "generating", todo # <<>>, Layout(code, todo),
         \/ Returns \/ (\E c, g : Descends(c, g)) \/ (\E g : Replaces(g)) \/ Opens \/ Binds \/ Restores
  PROVE  Layout(code', todo')
<1>1. PICK t, h : t = Tail(todo) /\ h = Frame
  OBVIOUS
<1>2. IsSeq(t) /\ todo = Push(h, t) /\ CodeOk(code)
  BY <1>1, GenFacts
<1>3. ASSUME h.do \notin Makers PROVE Layout(code, t)
  BY <1>2, <1>3, SplitPlain DEF Layout
<1>4. CASE Returns
  <2>1. todo' = t /\ h.do \notin Makers
    BY <1>1, <1>4 DEF Returns
  <2>2. code'.blocks = code.blocks /\ code'.inside = code.inside /\ code'.at = code.at
    <3>1. CASE code' = code
      BY <3>1
    <3>2. CASE code' # code
      <4>1. PICK c : code' = [code EXCEPT !.uses = @ \cup {<<ast[c].at, names[ast[c].n]>>}]
        BY <1>4, <3>2 DEF Returns, Uses
      <4>2. PICK U : U = code.uses \cup {<<ast[c].at, names[ast[c].n]>>}
        OBVIOUS
      <4>3. code' = [code EXCEPT !.uses = U]
        BY <4>1, <4>2
      <4>4. QED
        BY <1>2, <4>3, UsesFacts
    <3>3. QED
      BY <3>1, <3>2
  <2>3. Layout(code, t)
    BY <1>3, <2>1
  <2>4. QED
    BY <2>1, <2>2, <2>3, SameLayout
<1>5. CASE \E c, g : Descends(c, g)
  <2>1. PICK c, g : Descends(c, g)
    BY <1>5
  <2>2. PICK x, r : x = Job("codegen", c) /\ r = Push(g, t)
    OBVIOUS
  <2>3. /\ h.do \notin Makers /\ g.do \notin Makers /\ x.do \notin Makers
        /\ code' = code /\ todo' = Push(x, r) /\ IsSeq(r)
    BY <1>1, <1>2, <2>1, <2>2, PushFacts DEF Descends, Alike, Job, Makers
  <2>4. Layout(code, r)
    BY <1>2, <1>3, <2>2, <2>3, SplitPlain DEF Layout
  <2>5. Layout(code, Push(x, r))
    BY <2>3, <2>4, SplitPlain DEF Layout
  <2>6. QED
    BY <2>3, <2>5
<1>6. CASE \E g : Replaces(g)
  <2>1. PICK g : Replaces(g)
    BY <1>6
  <2>2. h.do \notin Makers /\ g.do \notin Makers /\ code' = code /\ todo' = Push(g, t)
    BY <1>1, <2>1 DEF Replaces, Alike
  <2>3. QED
    BY <1>2, <1>3, <2>2, SplitPlain DEF Layout
<1>7. CASE Opens \/ Binds
  <2>1. PICK g : g.do = "lets" /\ todo' = Push(g, t)
    BY <1>1, <1>7 DEF Opens, Binds
  <2>2. h.do \notin Makers /\ g.do \notin Makers /\ code' = code
    BY <1>1, <1>7, <2>1 DEF Opens, Binds, Makers
  <2>3. QED
    BY <1>2, <1>3, <2>1, <2>2, SplitPlain DEF Layout
<1>8. CASE Restores
  <2>1. h.do \notin Makers /\ code' = code /\ todo' = t
    BY <1>1, <1>8 DEF Restores, Makers
  <2>2. QED
    BY <1>3, <2>1
<1>9. QED
  BY <1>4, <1>5, <1>6, <1>7, <1>8

LEMMA BranchesLayout ==
  ASSUME GenOk, phase = "generating", todo # <<>>, Layout(code, todo), Branches
  PROVE  Layout(code', todo')
<1>1. PICK t, h, n : t = Tail(todo) /\ h = Frame /\ n = Len(code.blocks)
  OBVIOUS
<1>2. IsSeq(t) /\ todo = Push(h, t) /\ CodeOk(code) /\ n \in Nat /\ DOMAIN code.blocks = 1 .. n
  BY <1>1, GenFacts
<1>3. PICK args, g, x : /\ args = <<n + 1, n + 2>> /\ g = [do |-> "else", e |-> h.e, begin |-> n + 2]
                        /\ x = Job("codegen", Tree.kids[2])
  OBVIOUS
<1>4. /\ code' = SetInsertPoint(Insert(CreateBlocks(code, 3), "br", args), n + 1)
      /\ todo' = Push(x, Push(g, t)) /\ h.do \notin Makers
  BY <1>1, <1>3 DEF Branches, Makers
<1>5. Jumps(code, code', args, n + 1) /\ DOMAIN code'.blocks = 1 .. n + 3
  <2>1. 3 \in Nat \ {0}
    OBVIOUS
  <2>2. QED
    BY <1>1, <1>2, <1>4, <2>1, CreateJumps
<1>6. Split(code, {}, t) /\ Built(code)
  BY <1>2, <1>4, SplitPlain DEF Layout
<1>7. Listed(args) = {n + 1, n + 2}
  BY <1>3, ListedTwo
<1>8. code.inside \cup Owned(t) = 1 .. n /\ code.inside \subseteq 1 .. n
  BY <1>2, <1>6 DEF Split
<1>9. n + 1 \notin 1 .. n /\ n + 2 \notin 1 .. n /\ n + 3 \notin 1 .. n
  BY <1>2
<1>10. Built(code')
  <2>1. Listed(args) \subseteq DOMAIN code'.blocks
    BY <1>2, <1>5, <1>7
  <2>2. \A y \in Listed(args) : y \notin DOMAIN code.blocks
    BY <1>2, <1>7, <1>9
  <2>3. n + 1 \notin code.inside
    BY <1>8, <1>9
  <2>4. QED
    BY <1>5, <1>6, <2>1, <2>2, <2>3, JumpBuilt
<1>11. Held(code'.blocks, code'.inside, t)
  BY <1>5, <1>6, <1>7, <1>8, <1>9, JumpHeld DEF Split
<1>12. g.do = "else" /\ g.begin = n + 2 /\ Owns(g) = {n + 2, n + 3}
  <2>1. g.do = "else" /\ g.begin = n + 2
    BY <1>3
  <2>2. (n + 2) + 1 = n + 3
    BY <1>2
  <2>3. QED
    BY <2>1, <2>2 DEF Owns
<1>13. HeldOk(code'.blocks, code'.inside, g)
  <2>1. PICK p : p = n + 3
    OBVIOUS
  <2>2. p \notin Listed(args) /\ (n + 2) + 1 = p /\ p \notin DOMAIN code.blocks
    BY <1>2, <1>7, <1>9, <2>1
  <2>3. Preds(code'.blocks, p) = Preds(code.blocks, p) \cup (IF p \in Listed(args) THEN {code.at} ELSE {})
    BY <1>5, <1>6, JumpFacts
  <2>4. Preds(code.blocks, p) = {}
    BY <1>5, <1>6, <2>2, JumpFacts
  <2>5. QED
    BY <1>12, <2>2, <2>3, <2>4 DEF HeldOk
<1>14. Split(code', Owns(g), t)
  <2>1. code'.inside = code.inside \cup {n + 1}
    BY <1>5 DEF Jumps
  <2>2. 1 .. n + 3 = 1 .. n \cup {n + 1, n + 2, n + 3}
    BY <1>2
  <2>3. n + 1 # n + 2 /\ n + 1 # n + 3 /\ n + 2 # n + 3
    BY <1>2
  <2>4. QED
    BY <1>5, <1>6, <1>8, <1>9, <1>11, <1>12, <2>1, <2>2, <2>3 DEF Split
<1>15. Split(code', {}, Push(g, t))
  BY <1>2, <1>13, <1>14, SplitPush
<1>16. x.do \notin Makers /\ IsSeq(Push(g, t))
  BY <1>2, <1>3, PushFacts DEF Job, Makers
<1>17. QED
  BY <1>4, <1>10, <1>15, <1>16, SplitPlain DEF Layout

LEMMA AlternatesLayout ==
  ASSUME GenOk, phase = "generating", todo # <<>>, Layout(code, todo), Alternates
  PROVE  Layout(code', todo')
<1>1. PICK t, h, b, m : t = Tail(todo) /\ h = Frame /\ b = Frame.begin /\ m = Frame.begin + 1
  OBVIOUS
<1>2. /\ IsSeq(t) /\ todo = Push(h, t) /\ CodeOk(code) /\ JobOk(Len(code.blocks), h)
      /\ DOMAIN code.blocks = 1 .. Len(code.blocks) /\ Len(code.blocks) \in Nat
  BY <1>1, GenFacts
<1>3. PICK args, g, x : /\ args = <<m>> /\ g = [do |-> "phi", e |-> h.e, then |-> code.at, merge |-> m]
                        /\ x = Job("codegen", Tree.kids[3])
  OBVIOUS
<1>4. /\ code' = SetInsertPoint(Insert(code, "br", args), b)
      /\ todo' = Push(x, Push(g, t)) /\ h.do = "else"
  BY <1>1, <1>3 DEF Alternates
<1>5. b \in DOMAIN code.blocks /\ m \in DOMAIN code.blocks /\ m # b
  BY <1>1, <1>2, <1>4 DEF JobOk
<1>6. Jumps(code, code', args, b) /\ DOMAIN code'.blocks = DOMAIN code.blocks
  BY <1>2, <1>4, <1>5, EnterJumps
<1>7. Owns(h) = {b, m} /\ Owns(g) = {m} /\ g.do = "phi" /\ g.merge = m /\ g.then = code.at
  BY <1>1, <1>3, <1>4 DEF Owns
<1>8. Split(code, {b, m}, t) /\ HeldOk(code.blocks, code.inside, h) /\ Built(code)
  BY <1>2, <1>7, SplitPush DEF Layout
<1>9. Listed(args) = {m}
  BY <1>3, ListedOne
<1>10. b \notin code.inside /\ m \notin code.inside /\ m \notin Owned(t) /\ b \notin Owned(t)
  BY <1>8 DEF Split
<1>11. Built(code')
  <2>1. code.blocks[m] = <<>>
    BY <1>5, <1>8, <1>10 DEF Built, BlocksOk
  <2>2. ~ Phis(code.blocks, m)
    BY <2>1 DEF Phis
  <2>3. QED
    BY <1>5, <1>6, <1>8, <1>9, <1>10, <2>2, JumpBuilt
<1>12. Held(code'.blocks, code'.inside, t)
  BY <1>6, <1>8, <1>9, <1>10, JumpHeld DEF Split
<1>13. HeldOk(code'.blocks, code'.inside, g)
  <2>1. Preds(code.blocks, m) = {}
    BY <1>1, <1>4, <1>8 DEF HeldOk
  <2>2. Preds(code'.blocks, m) = Preds(code.blocks, m) \cup (IF m \in Listed(args) THEN {code.at} ELSE {})
    BY <1>6, <1>8, JumpFacts
  <2>3. QED
    BY <1>7, <1>9, <2>1, <2>2 DEF HeldOk
<1>14. Split(code', Owns(g), t)
  <2>1. code'.inside = code.inside \cup {b}
    BY <1>6 DEF Jumps
  <2>2. QED
    BY <1>5, <1>6, <1>7, <1>8, <1>10, <1>12, <2>1 DEF Split
<1>15. Split(code', {}, Push(g, t))
  BY <1>2, <1>13, <1>14, SplitPush
<1>16. x.do \notin Makers /\ IsSeq(Push(g, t))
  BY <1>2, <1>3, PushFacts DEF Job, Makers
<1>17. QED
  BY <1>4, <1>11, <1>15, <1>16, SplitPlain DEF Layout

LEMMA MergesLayout ==
  ASSUME GenOk, phase = "generating", todo # <<>>, Layout(code, todo), Merges
  PROVE  Layout(code', todo')
<1>1. PICK t, h, m, a : t = Tail(todo) /\ h = Frame /\ m = Frame.merge /\ a = code.at
  OBVIOUS
<1>2. /\ IsSeq(t) /\ todo = Push(h, t) /\ CodeOk(code) /\ JobOk(Len(code.blocks), h)
      /\ DOMAIN code.blocks = 1 .. Len(code.blocks) /\ Len(code.blocks) \in Nat
  BY <1>1, GenFacts
<1>3. PICK args, d, two : /\ args = <<m>> /\ d = SetInsertPoint(Insert(code, "br", args), m)
                          /\ two = <<h.then, a>>
  OBVIOUS
<1>4. code' = Insert(d, "phi", two) /\ todo' = t /\ h.do = "phi" /\ h.merge = m
  BY <1>1, <1>3 DEF Merges
<1>5. m \in DOMAIN code.blocks
  BY <1>1, <1>2, <1>4 DEF JobOk
<1>6. Jumps(code, d, args, m) /\ DOMAIN d.blocks = DOMAIN code.blocks
  BY <1>2, <1>3, <1>5, EnterJumps
<1>7. Owns(h) = {m}
  BY <1>4 DEF Owns
<1>8. Split(code, {m}, t) /\ HeldOk(code.blocks, code.inside, h) /\ Built(code)
  BY <1>2, <1>7, SplitPush DEF Layout
<1>9. Listed(args) = {m} /\ Listed(two) = {h.then, a}
  BY <1>3, ListedOne, ListedTwo
<1>10. m \notin code.inside /\ m \notin Owned(t)
  BY <1>8 DEF Split
<1>11. Built(d) /\ d.blocks[m] = <<>>
  <2>1. code.blocks[m] = <<>>
    BY <1>5, <1>8, <1>10 DEF Built, BlocksOk
  <2>2. ~ Phis(code.blocks, m)
    BY <2>1 DEF Phis
  <2>3. QED
    BY <1>5, <1>6, <1>8, <1>9, <1>10, <2>2, JumpBuilt
<1>12. Held(d.blocks, d.inside, t)
  BY <1>6, <1>8, <1>9, <1>10, JumpHeld DEF Split
<1>13. Preds(d.blocks, m) = {h.then, a}
  <2>1. Preds(code.blocks, m) = {h.then}
    BY <1>4, <1>8 DEF HeldOk
  <2>2. Preds(d.blocks, m) = Preds(code.blocks, m) \cup (IF m \in Listed(args) THEN {code.at} ELSE {})
    BY <1>6, <1>8, JumpFacts
  <2>3. QED
    BY <1>1, <1>9, <2>1, <2>2
<1>14. d.at = m /\ CodeOk(d) /\ d.inside = code.inside \cup {m}
  BY <1>6 DEF Jumps
<1>15. \A f \in Frames(t) : f.do = "afterloop" => f.loop # m /\ f.loop \in DOMAIN d.blocks
  BY <1>2, <1>6, <1>8, <1>10 DEF Split, Held, HeldOk, CodeOk
<1>16. /\ Built(code') /\ Held(code'.blocks, code'.inside, t)
       /\ code'.inside = d.inside /\ DOMAIN code'.blocks = DOMAIN d.blocks
  <2>1. PICK c : c = code'
    OBVIOUS
  <2>2. c = Insert(d, "phi", two) /\ d.blocks[d.at] = <<>> /\ Listed(two) = Preds(d.blocks, d.at)
    BY <1>4, <1>9, <1>11, <1>13, <1>14, <2>1
  <2>3. \A f \in Frames(t) : f.do = "afterloop" => f.loop # d.at /\ f.loop \in DOMAIN d.blocks
    BY <1>14, <1>15
  <2>4. /\ Built(c) /\ Held(c.blocks, c.inside, t)
        /\ c.inside = d.inside /\ DOMAIN c.blocks = DOMAIN d.blocks
    BY <1>11, <1>12, <1>14, <2>2, <2>3, PhiBuilt
  <2>5. QED
    BY <2>1, <2>4
<1>17. Split(code', {}, t)
  BY <1>6, <1>8, <1>10, <1>14, <1>16 DEF Split
<1>18. QED
  BY <1>4, <1>16, <1>17 DEF Layout

LEMMA LoopsLayout ==
  ASSUME GenOk, phase = "generating", todo # <<>>, Layout(code, todo), Loops \/ LoopEnds
  PROVE  Layout(code', todo')
<1>1. PICK t, h, n : t = Tail(todo) /\ h = Frame /\ n = Len(code.blocks)
  OBVIOUS
<1>2. IsSeq(t) /\ todo = Push(h, t) /\ CodeOk(code) /\ n \in Nat /\ DOMAIN code.blocks = 1 .. n
  BY <1>1, GenFacts
<1>3. Owns(h) = {}
  BY <1>1 DEF Loops, LoopEnds, Owns
<1>4. Split(code, {}, t) /\ Built(code) /\ HeldOk(code.blocks, code.inside, h)
  BY <1>2, <1>3, SplitPush DEF Layout
<1>5. code.inside \cup Owned(t) = 1 .. n /\ code.inside \subseteq 1 .. n
  BY <1>2, <1>4 DEF Split
<1>6. n + 1 \notin 1 .. n /\ 1 .. n + 1 = 1 .. n \cup {n + 1}
  BY <1>2
<1>7. ASSUME NEW args, code' = SetInsertPoint(Insert(CreateBlocks(code, 1), "br", args), n + 1),
             Listed(args) = {n + 1} \/ (h.do = "afterloop" /\ Listed(args) = {h.loop, n + 1})
      PROVE  Split(code', {}, t) /\ Built(code') /\ n + 1 \in code'.inside /\ code'.blocks[n + 1] = <<>>
  <2>1. Jumps(code, code', args, n + 1) /\ DOMAIN code'.blocks = 1 .. n + 1
    <3>1. 1 \in Nat \ {0}
      OBVIOUS
    <3>2. QED
      BY <1>1, <1>2, <1>7, <3>1, CreateJumps
  <2>2. h.do = "afterloop" => h.loop \in code.inside /\ ~ Phis(code.blocks, h.loop)
    BY <1>4 DEF HeldOk
  <2>3. \A y \in Listed(args) : y = n + 1 \/ (y \in code.inside /\ ~ Phis(code.blocks, y))
    BY <1>7, <2>2
  <2>4. Built(code') /\ code'.blocks[n + 1] = <<>>
    <3>1. Listed(args) \subseteq DOMAIN code'.blocks
      BY <1>5, <1>6, <2>1, <2>3
    <3>2. \A y \in Listed(args) : y \in DOMAIN code.blocks => ~ Phis(code.blocks, y)
      BY <1>2, <1>6, <2>3
    <3>3. n + 1 \notin code.inside
      BY <1>5, <1>6
    <3>4. PICK p : p = n + 1
      OBVIOUS
    <3>5. Jumps(code, code', args, p) /\ p \notin code.inside
      BY <2>1, <3>3, <3>4
    <3>6. Built(code') /\ code'.blocks[p] = <<>>
      BY <1>4, <3>1, <3>2, <3>5, JumpBuilt
    <3>7. QED
      BY <3>4, <3>6
  <2>5. Listed(args) \cap Owned(t) = {}
    BY <1>4, <1>5, <1>6, <2>3 DEF Split
  <2>6. Held(code'.blocks, code'.inside, t)
    BY <1>4, <2>1, <2>5, JumpHeld DEF Split
  <2>7. code'.inside = code.inside \cup {n + 1}
    BY <2>1 DEF Jumps
  <2>8. Split(code', {}, t)
    BY <1>4, <1>5, <1>6, <2>1, <2>6, <2>7 DEF Split
  <2>9. QED
    BY <2>4, <2>7, <2>8
<1>8. CASE Loops
  <2>1. PICK args, g, a, b, c, k :
          /\ args = <<n + 1>> /\ k = Tree.kids
          /\ g = [do |-> "afterloop", e |-> h.e, loop |-> n + 1, old |-> names[Tree.n]]
          /\ a = Job("codegen", k[Len(k)]) /\ b = Job("codegen", k[2]) /\ c = Job("codegen", k[3])
    OBVIOUS
  <2>2. PICK r : r = Push(b, Push(g, t))
    OBVIOUS
  <2>3. /\ code' = SetInsertPoint(Insert(CreateBlocks(code, 1), "br", args), n + 1)
        /\ todo' = Push(a, IF Len(k) = 4 THEN Push(c, r) ELSE r)
    BY <1>1, <1>8, <2>1, <2>2 DEF Loops
  <2>4. Listed(args) = {n + 1}
    BY <2>1, ListedOne
  <2>5. Split(code', {}, t) /\ Built(code') /\ n + 1 \in code'.inside /\ code'.blocks[n + 1] = <<>>
    BY <1>7, <2>3, <2>4
  <2>6. Split(code', {}, Push(g, t))
    <3>1. g.do = "afterloop" /\ g.loop = n + 1
      BY <2>1
    <3>2. Owns(g) = {} /\ HeldOk(code'.blocks, code'.inside, g)
      BY <2>5, <3>1 DEF Owns, HeldOk, Phis
    <3>3. QED
      BY <1>2, <2>5, <3>2, SplitPush
  <2>7. a.do \notin Makers /\ b.do \notin Makers /\ c.do \notin Makers
    BY <2>1 DEF Job, Makers
  <2>8. IsSeq(Push(g, t)) /\ IsSeq(r) /\ IsSeq(Push(c, r))
    BY <1>2, <2>2, PushFacts
  <2>9. Split(code', {}, r) /\ Split(code', {}, Push(c, r))
    BY <2>2, <2>6, <2>7, <2>8, SplitPlain
  <2>10. Split(code', {}, Push(a, r)) /\ Split(code', {}, Push(a, Push(c, r)))
    BY <2>7, <2>8, <2>9, SplitPlain
  <2>11. Split(code', {}, todo')
    BY <2>3, <2>10
  <2>12. QED
    BY <2>5, <2>11 DEF Layout
<1>9. CASE LoopEnds
  <2>1. PICK args : args = <<h.loop, n + 1>>
    OBVIOUS
  <2>2. /\ code' = SetInsertPoint(Insert(CreateBlocks(code, 1), "br", args), n + 1)
        /\ todo' = t /\ h.do = "afterloop"
    BY <1>1, <1>9, <2>1 DEF LoopEnds
  <2>3. Listed(args) = {h.loop, n + 1}
    BY <2>1, ListedTwo
  <2>4. QED
    BY <1>7, <2>2, <2>3 DEF Layout
<1>10. QED
  BY <1>8, <1>9

(* Nothing has failed so far, of what has been called and what has returned. *)
LEMMA LeftPush ==
  \A t : IsSeq(t) => \A f : AllLeft(Push(f, t)) <=> AllLeft(t) /\ (f.do = "binop" => f.left)
BY FramesPush

LEMMA StillLeft ==
  ASSUME GenOk, CodegenStep, ok', AllLeft(todo')
  PROVE  ok /\ AllLeft(todo)
<1>1. phase = "generating" /\ todo # <<>>
  BY StepCases
<1>2. PICK t, h : t = Tail(todo) /\ h = Frame
  OBVIOUS
<1>3. IsSeq(t) /\ todo = Push(h, t)
  BY <1>1, <1>2, GenFacts
<1>4. AllLeft(todo) <=> AllLeft(t) /\ (h.do = "binop" => h.left)
  BY <1>3, LeftPush
<1>5. CASE Fails
  BY <1>5 DEF Fails
<1>6. CASE ok /\ Returns
  <2>1. AllLeft(t) /\ (h.do = "binop" => h.left)
    BY <1>2, <1>6 DEF Returns
  <2>2. QED
    BY <1>4, <1>6, <2>1
<1>7. CASE \E c, g : Descends(c, g) /\ (ok \/ g.do = "binop")
  <2>1. PICK c, g : Descends(c, g) /\ (ok \/ g.do = "binop")
    BY <1>7
  <2>2. PICK x, r : x = Job("codegen", c) /\ r = Push(g, t)
    OBVIOUS
  <2>3. todo' = Push(x, r) /\ IsSeq(r) /\ h.do # "binop" /\ (g.do = "binop" => (g.left <=> ok))
    BY <1>2, <1>3, <2>1, <2>2, PushFacts DEF Descends
  <2>4. AllLeft(r)
    BY <2>3, LeftPush
  <2>5. AllLeft(t) /\ (g.do = "binop" => g.left)
    BY <1>3, <2>2, <2>4, LeftPush
  <2>6. QED
    BY <1>4, <2>1, <2>3, <2>5
<1>8. CASE ok /\ \E g : Replaces(g)
  <2>1. PICK g : ok /\ todo' = Push(g, t) /\ h.do # "binop"
    BY <1>2, <1>8 DEF Replaces
  <2>2. QED
    BY <1>3, <1>4, <2>1, LeftPush
<1>9. CASE ok /\ (Opens \/ Binds)
  <2>1. PICK g : ok /\ todo' = Push(g, t) /\ h.do # "binop"
    BY <1>2, <1>9 DEF Opens, Binds
  <2>2. QED
    BY <1>3, <1>4, <2>1, LeftPush
<1>10. CASE ok /\ (Restores \/ Merges \/ LoopEnds)
  <2>1. ok /\ todo' = t /\ h.do # "binop"
    BY <1>2, <1>10 DEF Restores, Merges, LoopEnds
  <2>2. QED
    BY <1>4, <2>1
<1>11. CASE ok /\ (Branches \/ Alternates)
  <2>1. PICK x, g : ok /\ todo' = Push(x, Push(g, t)) /\ h.do # "binop"
    BY <1>2, <1>11 DEF Branches, Alternates
  <2>2. IsSeq(Push(g, t))
    BY <1>3, PushFacts
  <2>3. QED
    BY <1>3, <1>4, <2>1, <2>2, LeftPush
<1>12. CASE ok /\ Loops
  <2>1. PICK g, y, behind : behind = Push(y, Push(g, t)) /\ ok /\ h.do # "binop"
          /\ \E x, z : todo' = Push(x, behind) \/ todo' = Push(x, Push(z, behind))
    BY <1>2, <1>12 DEF Loops
  <2>2. IsSeq(Push(g, t)) /\ IsSeq(behind) /\ \A z : IsSeq(Push(z, behind))
    BY <1>3, <2>1, PushFacts
  <2>3. AllLeft(behind)
    BY <2>1, <2>2, LeftPush
  <2>4. AllLeft(Push(g, t))
    BY <2>1, <2>2, <2>3, LeftPush
  <2>5. QED
    BY <1>3, <1>4, <2>1, <2>4, LeftPush
<1>13. QED
  BY <1>5, <1>6, <1>7, <1>8, <1>9, <1>10, <1>11, <1>12, StepCases

LEMMA StepLayout ==
  ASSUME GenOk, CodegenStep, Layout(code, todo), ok'
  PROVE  Layout(code', todo')
<1>1. phase = "generating" /\ todo # <<>> /\ ~ Fails
  BY StepCases DEF Fails
<1>2. \/ Returns \/ (\E c, g : Descends(c, g)) \/ (\E g : Replaces(g)) \/ Opens \/ Binds \/ Restores
      \/ Branches \/ Alternates \/ Merges \/ Loops \/ LoopEnds
  BY <1>1, StepCases
<1>3. QED
  BY <1>1, <1>2, PlainLayout, BranchesLayout, AlternatesLayout, MergesLayout, LoopsLayout

(* One block, with nothing in it.                                          *)
LEMMA NewLayout ==
  \A e : Layout(NewFunction, <<Job("codegen", e)>>)
<1> TAKE e
<1>1. PICK f : f = Job("codegen", e)
  OBVIOUS
<1>2. Frames(<<f>>) = {f} /\ Owns(f) = {}
  <2>1. DOMAIN <<f>> = {1} /\ <<f>>[1] = f
    OBVIOUS
  <2>2. QED
    BY <1>1, <2>1 DEF Frames, Owns, Job
<1>3. Owned(<<f>>) = {} /\ Apart(<<f>>)
  <2>1. DOMAIN <<f>> = {1}
    OBVIOUS
  <2>2. QED
    BY <1>2, <2>1 DEF Owned, Apart
<1>4. PICK bs, in, a : bs = NewFunction.blocks /\ in = NewFunction.inside /\ a = NewFunction.at
  OBVIOUS
<1>5. DOMAIN bs = {1} /\ bs[1] = <<>> /\ in = {1} /\ a = 1
  BY <1>4 DEF NewFunction
<1>6. HeldOk(bs, in, f)
  BY <1>1 DEF HeldOk, Job
<1>7. DOMAIN bs[1] = {}
  BY <1>5
<1>8. BlocksOk(bs, in, a)
  BY <1>5, <1>7 DEF BlocksOk
<1>9. QED
  BY <1>1, <1>2, <1>3, <1>4, <1>5, <1>6, <1>8 DEF Layout, Split, Built, Held

(* Nothing is left to be done, and every block is in the function.         *)
LEMMA AllInside ==
  ASSUME NEW c, Layout(c, <<>>)
  PROVE  c.inside = DOMAIN c.blocks /\ Built(c)
<1>1. Owned(<<>>) = {}
  BY DEF Owned, Frames
<1>2. QED
  BY <1>1 DEF Layout, Split

BuiltOk ==
  /\ GenOk
  /\ phase = "generating" /\ ok /\ AllLeft(todo) => Layout(code, todo)
  /\ WellFormed

LEMMA BuiltInit ==
  ASSUME Init
  PROVE  BuiltOk
BY GenInit DEF Init, BuiltOk, WellFormed, Generated

LEMMA SameWellFormed ==
  ASSUME code' = code
  PROVE  \A b : BlockWellFormed(b)' <=> BlockWellFormed(b)
BY DEF BlockWellFormed, Predecessors

LEMMA BuiltNext ==
  ASSUME BuiltOk, [Next]_vars
  PROVE  BuiltOk'
<1>1. GenOk /\ GenOk' /\ WellFormed
  BY GenNext DEF BuiltOk
<1>2. CASE HandleDefinition \/ HandleExtern \/ HandleTopLevelExpression \/ SkipSemicolon \/ UNCHANGED vars
  <2>1. CASE phase = "ready" /\ phase' = "ready" /\ ok' = ok /\ code' = code
    BY <1>1, <2>1, SameWellFormed DEF BuiltOk, WellFormed, Generated
  <2>2. CASE phase' = "parsing"
    BY <1>1, <2>2 DEF BuiltOk, WellFormed, Generated
  <2>3. CASE UNCHANGED vars
    <3>1. UNCHANGED <<phase, ok, code, todo>>
      BY <2>3 DEF vars
    <3>2. Layout(code', todo') <=> Layout(code, todo)
      BY <3>1
    <3>3. AllLeft(todo') <=> AllLeft(todo)
      BY <3>1
    <3>4. WellFormed'
      BY <1>1, <3>1, SameWellFormed DEF WellFormed, Generated
    <3>5. QED
      BY <1>1, <3>1, <3>2, <3>3, <3>4 DEF BuiltOk
  <2>4. QED
    BY <1>2, <2>1, <2>2, <2>3
      DEF HandleDefinition, HandleExtern, HandleTopLevelExpression, SkipSemicolon, Round, GoOn, ParseBody
<1>3. CASE ParseStep
  <2>1. phase' = "parsing"
    BY <1>3 DEF ParseStep
  <2>2. QED
    BY <1>1, <2>1 DEF BuiltOk, WellFormed, Generated
<1>4. CASE ParseFailed \/ Refuse \/ AssignUndefined
  <2>1. phase' # "generating" /\ (phase' = "ready" => ~ ok')
    BY <1>1, <1>4 DEF ParseFailed, Refuse, AssignUndefined, Parsed, GoOn, GenOk
  <2>2. QED
    BY <1>1, <2>1 DEF BuiltOk, WellFormed, Generated
<1>5. CASE FunctionCodegen
  <2>1. phase' = "generating" /\ code' = NewFunction /\ todo' = <<Job("codegen", val)>>
    BY <1>5 DEF FunctionCodegen, Codegen, Job
  <2>2. Layout(code', todo')
    BY <2>1, NewLayout
  <2>3. QED
    BY <1>1, <2>1, <2>2 DEF BuiltOk, WellFormed, Generated
<1>6. CASE CodegenStep
  <2>1. phase = "generating" /\ phase' = "generating"
    BY <1>6 DEF CodegenStep
  <2>2. ok' /\ AllLeft(todo') => Layout(code', todo')
    BY <1>1, <1>6, <2>1, StillLeft, StepLayout DEF BuiltOk
  <2>3. QED
    BY <1>1, <2>1, <2>2 DEF BuiltOk, WellFormed, Generated
<1>7. CASE EndFunction
  <2>1. phase = "generating" /\ phase' = "ready" /\ todo = <<>> /\ ok' = ok /\ (ok => code' = Insert(code, "ret", <<>>))
    BY <1>7 DEF EndFunction
  <2>2. ASSUME ok PROVE WellFormed'
    <3>1. AllLeft(todo)
      BY <2>1 DEF AllLeft, Frames
    <3>2. Layout(code, <<>>)
      BY <2>1, <2>2, <3>1 DEF BuiltOk
    <3>3. code.inside = DOMAIN code.blocks /\ Built(code) /\ CodeOk(code)
      BY <1>1, <3>2, AllInside DEF GenOk
    <3>4. QED
      BY <2>1, <2>2, <3>3, EndBuilt
  <2>3. QED
    BY <1>1, <2>1, <2>2 DEF BuiltOk, WellFormed, Generated
<1>8. QED
  BY <1>2, <1>3, <1>4, <1>5, <1>6, <1>7 DEF Next

(* A function that is generated without an error is well-formed: each of   *)
(* its blocks is in it and ends in its only branch or return, and each phi *)
(* names the blocks its block is entered from, whatever is typed.          *)
THEOREM FunctionsWellFormed == Spec => []WellFormed
<1>1. Init => BuiltOk
  BY BuiltInit
<1>2. BuiltOk /\ [Next]_vars => BuiltOk'
  BY BuiltNext
<1>3. BuiltOk => WellFormed
  BY DEF BuiltOk
<1>4. QED
  BY <1>1, <1>2, <1>3, PTL DEF Spec

-----------------------------------------------------------------------------
(* Scopes.  The subtrees of a node behind which it declares a variable.    *)
Declaring(k) ==
  IF ast[k].t = "for" THEN {1} ELSE IF ast[k].t = "varin" THEN 1 .. Len(ast[k].kids) - 1 ELSE {}
Variable(k, p) == IF ast[k].t = "for" THEN ast[k] ELSE ast[ast[k].kids[p]]
KidBinder(k, p) ==
  Binder(Variable(k, p).n, Variable(k, p).at, ast[ast[k].kids[p]].to + 1, ast[k].to)
ArgBinder(i) == Binder(Tok(proto.args[i]), proto.args[i], ast[val].from, ast[val].to)

LEMMA BindersAre ==
  \A b : b \in Binders <=> \/ \E i \in DOMAIN proto.args : b = ArgBinder(i)
                           \/ \E k \in DOMAIN ast : \E p \in Declaring(k) : b = KidBinder(k, p)
<1> TAKE b
<1>1. b \in Binders <=>
        \/ \E i \in DOMAIN proto.args : b = ArgBinder(i)
        \/ \E k \in DOMAIN ast : ast[k].t = "for" /\ b = Binder(ast[k].n, ast[k].at, ast[ast[k].kids[1]].to + 1, ast[k].to)
        \/ \E k \in DOMAIN ast : ast[k].t = "varin" /\ \E i \in 1 .. Len(ast[k].kids) - 1 :
             b = Binder(ast[ast[k].kids[i]].n, ast[ast[k].kids[i]].at, ast[ast[k].kids[i]].to + 1, ast[k].to)
  BY DEF Binders, Nodes, ArgBinder
<1>2. ASSUME NEW k \in DOMAIN ast, ast[k].t = "for"
      PROVE  (\E p \in Declaring(k) : b = KidBinder(k, p))
               <=> b = Binder(ast[k].n, ast[k].at, ast[ast[k].kids[1]].to + 1, ast[k].to)
  BY <1>2 DEF Declaring, KidBinder, Variable
<1>3. ASSUME NEW k \in DOMAIN ast, ast[k].t = "varin"
      PROVE  (\E p \in Declaring(k) : b = KidBinder(k, p))
               <=> \E i \in 1 .. Len(ast[k].kids) - 1 :
                     b = Binder(ast[ast[k].kids[i]].n, ast[ast[k].kids[i]].at, ast[ast[k].kids[i]].to + 1, ast[k].to)
  BY <1>3 DEF Declaring, KidBinder, Variable
<1>4. ASSUME NEW k \in DOMAIN ast, ast[k].t \notin {"for", "varin"}
      PROVE  ~ \E p \in Declaring(k) : b = KidBinder(k, p)
  BY <1>4 DEF Declaring
<1>5. QED
  BY <1>1, <1>2, <1>3, <1>4

(* A place in the scope of what a node declares behind a subtree.          *)
Behind(k, p, place) == ast[ast[k].kids[p]].to < place /\ place <= ast[k].to

LEMMA BinderFields ==
  ASSUME NEW n, NEW a, NEW x \in Int, NEW y \in Int
  PROVE  LET b == Binder(n, a, x, y)
         IN  b.n = n /\ b.at = a /\ \A p \in Int : p \in b.scope <=> x <= p /\ p <= y
BY DEF Binder

LEMMA DeclaringFacts ==
  ASSUME ReadOk, NEW k \in DOMAIN ast, NEW p \in Declaring(k)
  PROVE  /\ p \in DOMAIN ast[k].kids /\ ast[k].kids[p] \in DOMAIN ast /\ p \in Nat
         /\ KidBinder(k, p).n = Variable(k, p).n /\ KidBinder(k, p).at = Variable(k, p).at
         /\ \A q \in Int : q \in KidBinder(k, p).scope <=> Behind(k, p, q)
         /\ Variable(k, p).n \in Ident /\ Variable(k, p).at \in Nat
         /\ Variable(k, p).at <= ast[ast[k].kids[p]].to
<1>1. p \in 1 .. Len(ast[k].kids) /\ Len(ast[k].kids) \in Nat
  BY OneKidLess, KidFacts DEF Declaring
<1>2. p \in DOMAIN ast[k].kids /\ ast[k].kids[p] \in DOMAIN ast /\ p \in Nat
  BY <1>1, KidFacts
<1>3. PICK c : c = ast[k].kids[p]
  OBVIOUS
<1>4. PICK v : v = Variable(k, p)
  OBVIOUS
<1>5. ast[c].to \in Nat /\ ast[k].to \in Nat /\ ast[c].from \in Nat /\ ast[c].from <= ast[c].to
  BY <1>2, <1>3, PlaceFacts
<1>6. PICK x, y : x = ast[c].to + 1 /\ y = ast[k].to
  OBVIOUS
<1>7. x \in Int /\ y \in Int /\ KidBinder(k, p) = Binder(v.n, v.at, x, y)
  BY <1>3, <1>4, <1>5, <1>6 DEF KidBinder
<1>8. PICK b : b = KidBinder(k, p)
  OBVIOUS
<1>9. b.n = v.n /\ b.at = v.at /\ \A q \in Int : q \in b.scope <=> x <= q /\ q <= y
  BY <1>7, <1>8, BinderFields
<1>10. \A q \in Int : x <= q <=> ast[c].to < q
  BY <1>5, <1>6
<1>11. v.n \in Ident /\ v.at \in Nat /\ v.at <= ast[c].to
  <2>1. CASE ast[k].t = "for"
    <3>1. v = ast[k] /\ p = 1
      BY <1>4, <2>1 DEF Variable, Declaring
    <3>2. v.n \in Ident /\ v.at \in Nat
      BY <2>1, <3>1, PlaceFacts
    <3>3. v.at < ast[c].from
      BY <1>3, <2>1, <3>1, KidFacts DEF NodeOk, Shape
    <3>4. QED
      BY <1>5, <3>2, <3>3
  <2>2. CASE ast[k].t # "for"
    <3>1. ast[k].t = "varin" /\ v = ast[c] /\ p \in 1 .. Len(ast[k].kids) - 1
      BY <1>3, <1>4, <2>2 DEF Variable, Declaring
    <3>2. v.t = "let"
      BY <1>3, <3>1, KidFacts DEF NodeOk, Shape
    <3>3. v.n \in Ident /\ v.at \in Nat
      BY <1>2, <1>3, <3>1, <3>2, PlaceFacts
    <3>4. v.at = v.from
      BY <1>2, <1>3, <3>1, <3>2, KidFacts DEF NodeOk, Shape
    <3>5. QED
      BY <1>5, <3>1, <3>3, <3>4
  <2>3. QED
    BY <2>1, <2>2
<1>12. QED
  BY <1>2, <1>3, <1>4, <1>6, <1>8, <1>9, <1>10, <1>11 DEF Behind

(* Where the subtrees of a node are.                                       *)
LEMMA KidPlaces ==
  ASSUME ReadOk, NEW k \in DOMAIN ast, NEW i \in DOMAIN ast[k].kids
  PROVE  LET c == ast[k].kids[i]
         IN  /\ c \in DOMAIN ast /\ i \in Nat /\ ast[c].from \in Nat /\ ast[c].to \in Nat
             /\ ast[c].from <= ast[c].to /\ ast[k].from <= ast[c].from /\ ast[c].to <= ast[k].to
             /\ ast[k].from \in Nat /\ ast[k].to \in Nat /\ ast[k].from <= ast[k].to
             /\ \A j \in DOMAIN ast[k].kids : j < i => ast[ast[k].kids[j]].to < ast[c].from
             /\ \A j \in DOMAIN ast[k].kids : i < j => ast[c].to < ast[ast[k].kids[j]].from
<1>1. PICK c : c = ast[k].kids[i]
  OBVIOUS
<1>2. c \in DOMAIN ast /\ i \in Nat
  BY <1>1, KidFacts
<1>3. InOrder(ast, ast[k].kids, ast[k].from, ast[k].to)
  BY KidFacts DEF NodeOk
<1>4. ast[k].from <= ast[c].from /\ ast[c].to <= ast[k].to
  BY <1>1, <1>3 DEF InOrder
<1>5. /\ \A j \in DOMAIN ast[k].kids : j < i => ast[ast[k].kids[j]].to < ast[c].from
      /\ \A j \in DOMAIN ast[k].kids : i < j => ast[c].to < ast[ast[k].kids[j]].from
  BY <1>1, <1>3 DEF InOrder
<1>6. QED
  BY <1>1, <1>2, <1>4, <1>5, PlaceFacts

(* Two nodes lie one behind the other, or one in a subtree of the other.   *)
LEMMA Nested ==
  ASSUME ReadOk, NEW m \in DOMAIN ast, NEW k \in DOMAIN ast, k # m
  PROVE  \/ ast[k].to < ast[m].from
         \/ ast[m].to < ast[k].from
         \/ \E q \in DOMAIN ast[m].kids : Inside(ast, k, ast[m].kids[q])
         \/ \E q \in DOMAIN ast[k].kids : Inside(ast, m, ast[k].kids[q])
<1>1. m \in Nat \ {0} /\ k \in Nat \ {0}
  BY DEF ReadOk, IsSeq
<1>2. CASE k < m
  <2>1. k \in 1 .. m - 1
    BY <1>1, <1>2
  <2>2. Covered(ast, k, ast[m].from, ast[m].kids)
    BY <2>1, KidFacts DEF NodeOk
  <2>3. QED
    BY <2>2 DEF Covered
<1>3. CASE m < k
  <2>1. m \in 1 .. k - 1
    BY <1>1, <1>3
  <2>2. Covered(ast, m, ast[k].from, ast[k].kids)
    BY <2>1, KidFacts DEF NodeOk
  <2>3. QED
    BY <2>2 DEF Covered
<1>4. QED
  BY <1>1, <1>2, <1>3

(* A subtree is behind another one if its node is, or if it is the node of *)
(* both, and the subtree is the later one.                                 *)
LEMMA BehindKid ==
  ASSUME ReadOk, NEW m \in DOMAIN ast, NEW p \in DOMAIN ast[m].kids,
         NEW k \in DOMAIN ast, NEW i \in DOMAIN ast[k].kids
  PROVE  Behind(m, p, ast[ast[k].kids[i]].from) <=> Behind(m, p, ast[k].from) \/ (k = m /\ p < i)
<1>1. PICK c, d : c = ast[k].kids[i] /\ d = ast[m].kids[p]
  OBVIOUS
<1>2. /\ c \in DOMAIN ast /\ i \in Nat /\ ast[c].from \in Nat /\ ast[c].to \in Nat
      /\ ast[c].from <= ast[c].to /\ ast[k].from <= ast[c].from /\ ast[c].to <= ast[k].to
      /\ ast[k].from \in Nat /\ ast[k].to \in Nat /\ ast[k].from <= ast[k].to
      /\ \A j \in DOMAIN ast[k].kids : j < i => ast[ast[k].kids[j]].to < ast[c].from
      /\ \A j \in DOMAIN ast[k].kids : i < j => ast[c].to < ast[ast[k].kids[j]].from
  BY <1>1, KidPlaces
<1>3. /\ d \in DOMAIN ast /\ p \in Nat /\ ast[d].from \in Nat /\ ast[d].to \in Nat
      /\ ast[d].from <= ast[d].to /\ ast[m].from <= ast[d].from /\ ast[d].to <= ast[m].to
      /\ ast[m].from \in Nat /\ ast[m].to \in Nat /\ ast[m].from <= ast[m].to
      /\ \A j \in DOMAIN ast[m].kids : j < p => ast[ast[m].kids[j]].to < ast[d].from
      /\ \A j \in DOMAIN ast[m].kids : p < j => ast[d].to < ast[ast[m].kids[j]].from
  BY <1>1, KidPlaces
<1> SUFFICES (ast[d].to < ast[c].from /\ ast[c].from <= ast[m].to)
               <=> (ast[d].to < ast[k].from /\ ast[k].from <= ast[m].to) \/ (k = m /\ p < i)
  BY <1>1 DEF Behind
<1>4. CASE k = m
  <2>1. ~ (ast[d].to < ast[k].from)
    BY <1>3, <1>4
  <2>2. CASE p < i
    <3>1. ast[d].to < ast[c].from
      BY <1>1, <1>3, <1>4, <2>2
    <3>2. ast[c].from <= ast[m].to
      BY <1>2, <1>4
    <3>3. QED
      BY <1>4, <2>2, <3>1, <3>2
  <2>3. CASE i < p
    <3>1. ast[c].to < ast[d].from
      BY <1>1, <1>2, <1>4, <2>3
    <3>2. ~ (ast[d].to < ast[c].from)
      BY <1>2, <1>3, <3>1
    <3>3. QED
      BY <1>2, <1>3, <2>1, <2>3, <3>2
  <2>4. CASE i = p
    <3>1. c = d
      BY <1>1, <1>4, <2>4
    <3>2. QED
      BY <1>2, <1>3, <2>1, <2>4, <3>1
  <2>5. QED
    BY <1>2, <1>3, <2>2, <2>3, <2>4
<1>5. CASE k # m /\ ast[k].to < ast[m].from
  <2>1. ast[k].from < ast[d].to /\ ast[c].from < ast[d].to
    BY <1>2, <1>3, <1>5
  <2>2. QED
    BY <1>2, <1>3, <1>5, <2>1
<1>6. CASE k # m /\ ast[m].to < ast[k].from
  <2>1. ast[m].to < ast[c].from
    BY <1>2, <1>3, <1>6
  <2>2. QED
    BY <1>2, <1>3, <1>6, <2>1
<1>7. CASE k # m /\ \E q \in DOMAIN ast[m].kids : Inside(ast, k, ast[m].kids[q])
  <2>1. PICK q \in DOMAIN ast[m].kids : Inside(ast, k, ast[m].kids[q])
    BY <1>7
  <2>2. PICK x : x = ast[m].kids[q]
    OBVIOUS
  <2>3. /\ ast[x].from <= ast[k].from /\ ast[k].to <= ast[x].to
        /\ q \in Nat /\ ast[x].from \in Nat /\ ast[x].to \in Nat /\ ast[x].to <= ast[m].to
    BY <2>1, <2>2, KidPlaces DEF Inside
  <2>4. CASE p < q
    <3>1. ast[d].to < ast[x].from
      BY <1>3, <2>2, <2>4
    <3>2. QED
      BY <1>2, <1>3, <1>7, <2>3, <3>1
  <2>5. CASE q = p
    <3>1. x = d
      BY <1>1, <2>2, <2>5
    <3>2. QED
      BY <1>2, <1>3, <1>7, <2>3, <3>1
  <2>6. CASE q < p
    <3>1. ast[x].to < ast[d].from
      BY <1>3, <2>2, <2>6
    <3>2. QED
      BY <1>2, <1>3, <1>7, <2>3, <3>1
  <2>7. QED
    BY <1>3, <2>3, <2>4, <2>5, <2>6
<1>8. CASE k # m /\ \E q \in DOMAIN ast[k].kids : Inside(ast, m, ast[k].kids[q])
  <2>1. PICK q \in DOMAIN ast[k].kids : Inside(ast, m, ast[k].kids[q])
    BY <1>8
  <2>2. PICK x : x = ast[k].kids[q]
    OBVIOUS
  <2>3. /\ ast[x].from <= ast[m].from /\ ast[m].to <= ast[x].to
        /\ q \in Nat /\ ast[x].from \in Nat /\ ast[x].to \in Nat /\ ast[k].from <= ast[x].from
    BY <2>1, <2>2, KidPlaces DEF Inside
  <2>4. ~ (ast[d].to < ast[k].from)
    BY <1>2, <1>3, <2>3
  <2>5. CASE i < q
    <3>1. ast[c].to < ast[x].from
      BY <1>2, <2>2, <2>5
    <3>2. QED
      BY <1>2, <1>3, <1>8, <2>3, <2>4, <3>1
  <2>6. CASE q = i
    <3>1. x = c
      BY <1>1, <2>2, <2>6
    <3>2. QED
      BY <1>2, <1>3, <1>8, <2>3, <2>4, <3>1
  <2>7. CASE q < i
    <3>1. ast[x].to < ast[c].from
      BY <1>2, <2>2, <2>7
    <3>2. QED
      BY <1>2, <1>3, <1>8, <2>3, <2>4, <3>1
  <2>8. QED
    BY <1>2, <2>3, <2>5, <2>6, <2>7
<1>9. QED
  BY <1>4, <1>5, <1>6, <1>7, <1>8, Nested

(* What a node has declared before a subtree.                              *)
Adds(k, i, b) == \E p \in Declaring(k) : p < i /\ b = KidBinder(k, p)

LEMMA ArgFacts ==
  ASSUME ReadOk, WholeOk, NEW i \in DOMAIN proto.args
  PROVE  /\ ArgBinder(i).n = Tok(proto.args[i]) /\ ArgBinder(i).at = proto.args[i] /\ proto.args[i] \in Nat
         /\ proto.args[i] < ast[val].from
         /\ \A q \in Int : q \in ArgBinder(i).scope <=> ast[val].from <= q /\ q <= ast[val].to
<1>1. val \in DOMAIN ast /\ proto.at <= ast[val].from
  BY DEF WholeOk
<1>2. ast[val].from \in Nat /\ ast[val].to \in Nat
  BY <1>1, PlaceFacts
<1>3. Len(toks) \in Nat /\ proto.at \in 1 .. Len(toks) + 1 /\ proto.args \in Seq(1 .. proto.at - 1)
  BY TokFacts DEF ReadOk, ProtoOk
<1>4. proto.args[i] \in 1 .. proto.at - 1 /\ proto.at \in Nat
  BY <1>3
<1>5. proto.args[i] \in Nat /\ proto.args[i] < ast[val].from
  BY <1>1, <1>2, <1>4
<1>6. PICK n, a, x, y, b : /\ n = Tok(proto.args[i]) /\ a = proto.args[i] /\ x = ast[val].from
                           /\ y = ast[val].to /\ b = ArgBinder(i)
  OBVIOUS
<1>7. x \in Int /\ y \in Int /\ b = Binder(n, a, x, y)
  BY <1>2, <1>6 DEF ArgBinder
<1>8. b.n = n /\ b.at = a /\ \A q \in Int : q \in b.scope <=> x <= q /\ q <= y
  BY <1>7, BinderFields
<1>9. QED
  BY <1>5, <1>6, <1>8

(* A subtree is in the scopes its node is in, and in those of what the     *)
(* node has declared before it.                                            *)
LEMMA KidScope ==
  ASSUME ReadOk, WholeOk, NEW k \in DOMAIN ast, NEW i \in DOMAIN ast[k].kids, NEW b \in Binders
  PROVE  ast[ast[k].kids[i]].from \in b.scope <=> ast[k].from \in b.scope \/ Adds(k, i, b)
<1>1. PICK c, q, r : c = ast[k].kids[i] /\ q = ast[c].from /\ r = ast[k].from
  OBVIOUS
<1>2. /\ c \in DOMAIN ast /\ i \in Nat /\ q \in Nat /\ ast[c].to \in Nat /\ q <= ast[c].to /\ r <= q
      /\ ast[c].to <= ast[k].to /\ r \in Nat /\ ast[k].to \in Nat /\ r <= ast[k].to
  BY <1>1, KidPlaces
<1>3. q \in Int /\ r \in Int
  BY <1>2
<1>4. Adds(k, i, b) => q \in b.scope
  <2>1. SUFFICES ASSUME NEW p \in Declaring(k), p < i, b = KidBinder(k, p) PROVE q \in b.scope
    BY DEF Adds
  <2>2. p \in DOMAIN ast[k].kids /\ (q \in b.scope <=> Behind(k, p, q))
    BY <1>3, <2>1, DeclaringFacts
  <2>3. Behind(k, p, q)
    BY <1>1, <2>1, <2>2, BehindKid
  <2>4. QED
    BY <2>2, <2>3
<1>5. CASE \E j \in DOMAIN proto.args : b = ArgBinder(j)
  <2>1. PICK x, y : x = ast[val].from /\ y = ast[val].to
    OBVIOUS
  <2>2. (q \in b.scope <=> x <= q /\ q <= y) /\ (r \in b.scope <=> x <= r /\ r <= y)
    BY <1>3, <1>5, <2>1, ArgFacts
  <2>3. /\ val \in DOMAIN ast /\ proto.at <= x
        /\ ast[k].to < proto.at \/ (x <= r /\ ast[k].to <= y)
    BY <1>1, <2>1 DEF WholeOk, Inside
  <2>4. x \in Nat /\ y \in Nat /\ proto.at \in Nat
    BY <2>1, <2>3, PlaceFacts DEF ReadOk, ProtoOk
  <2>5. r \in b.scope => q \in b.scope
    BY <1>2, <2>2, <2>3, <2>4
  <2>6. q \in b.scope => r \in b.scope
    BY <1>2, <2>2, <2>3, <2>4
  <2>7. QED
    BY <1>1, <1>4, <2>5, <2>6
<1>6. CASE \E m \in DOMAIN ast : \E p \in Declaring(m) : b = KidBinder(m, p)
  <2>1. PICK m \in DOMAIN ast : \E p \in Declaring(m) : b = KidBinder(m, p)
    BY <1>6
  <2>2. PICK p \in Declaring(m) : b = KidBinder(m, p)
    BY <2>1
  <2>3. /\ p \in DOMAIN ast[m].kids
        /\ q \in b.scope <=> Behind(m, p, q)
        /\ r \in b.scope <=> Behind(m, p, r)
    BY <1>3, <2>2, DeclaringFacts
  <2>4. Behind(m, p, q) <=> Behind(m, p, r) \/ (k = m /\ p < i)
    BY <1>1, <2>3, BehindKid
  <2>5. k = m /\ p < i => Adds(k, i, b)
    BY <2>2 DEF Adds
  <2>6. QED
    BY <1>1, <1>4, <2>3, <2>4, <2>5
<1>7. QED
  BY <1>5, <1>6, BindersAre

(* A variable is declared before its scope.                                *)
LEMMA BinderEarly ==
  ASSUME ReadOk, WholeOk, NEW b \in Binders, NEW p \in Nat, p \in b.scope
  PROVE  b.at \in Nat /\ b.at < p
<1>1. CASE \E j \in DOMAIN proto.args : b = ArgBinder(j)
  <2>1. PICK j \in DOMAIN proto.args : b = ArgBinder(j)
    BY <1>1
  <2>2. b.at \in Nat /\ b.at < ast[val].from /\ ast[val].from <= p
    BY <2>1, ArgFacts
  <2>3. ast[val].from \in Nat
    BY PlaceFacts DEF WholeOk
  <2>4. QED
    BY <2>2, <2>3
<1>2. CASE \E m \in DOMAIN ast : \E j \in Declaring(m) : b = KidBinder(m, j)
  <2>1. PICK m \in DOMAIN ast : \E j \in Declaring(m) : b = KidBinder(m, j)
    BY <1>2
  <2>2. PICK j \in Declaring(m) : b = KidBinder(m, j)
    BY <2>1
  <2>3. PICK v, c : v = Variable(m, j) /\ c = ast[m].kids[j]
    OBVIOUS
  <2>4. /\ c \in DOMAIN ast /\ b.at = v.at /\ v.at \in Nat /\ v.at <= ast[c].to /\ Behind(m, j, p)
    BY <2>2, <2>3, DeclaringFacts
  <2>5. ast[c].to < p /\ ast[c].to \in Nat
    BY <2>3, <2>4, PlaceFacts DEF Behind
  <2>6. QED
    BY <2>4, <2>5
<1>3. QED
  BY <1>1, <1>2, BindersAre

(* At place p name x is the variable that is declared at v, or none.       *)
Means(x, p, v) ==
  /\ v \in Nat /\ \A b \in Binders : b.n = x /\ p \in b.scope => b.at <= v
  /\ v = 0 \/ \E b \in Binders : b.n = x /\ p \in b.scope /\ b.at = v

SamePlace(p, q) == \A b \in Binders : p \in b.scope <=> q \in b.scope

LEMMA MeansAlso ==
  ASSUME NEW x, NEW p, NEW q, NEW v, Means(x, p, v),
         \A b \in Binders : b.n = x => (p \in b.scope <=> q \in b.scope)
  PROVE  Means(x, q, v)
BY DEF Means

LEMMA MeansSame ==
  \A x, p, q, v : Means(x, p, v) /\ SamePlace(p, q) => Means(x, q, v)
BY DEF Means, SamePlace

LEMMA LeadsSame ==
  ASSUME ReadOk, WholeOk, NEW c, NEW p, Leads(c, p)
  PROVE  SamePlace(p, ast[c].from)
<1>1. CASE ast[c].from = p
  BY <1>1 DEF SamePlace
<1>2. CASE \E k \in DOMAIN ast : \E i \in DOMAIN ast[k].kids :
             c = ast[k].kids[i] /\ p = ast[k].from /\ (i = 1 \/ ast[k].t \notin {"for", "varin"})
  <2>1. PICK k \in DOMAIN ast : \E i \in DOMAIN ast[k].kids :
               c = ast[k].kids[i] /\ p = ast[k].from /\ (i = 1 \/ ast[k].t \notin {"for", "varin"})
    BY <1>2
  <2>2. PICK i \in DOMAIN ast[k].kids :
               c = ast[k].kids[i] /\ p = ast[k].from /\ (i = 1 \/ ast[k].t \notin {"for", "varin"})
    BY <2>1
  <2>3. \A q \in Declaring(k) : ~ (q < i)
    <3>1. CASE i = 1
      BY <3>1, SMT DEF Declaring
    <3>2. CASE ast[k].t \notin {"for", "varin"}
      BY <3>2 DEF Declaring
    <3>3. QED
      BY <2>2, <3>1, <3>2
  <2>4. \A b : ~ Adds(k, i, b)
    BY <2>3 DEF Adds
  <2>5. QED
    BY <2>2, <2>4, KidScope DEF SamePlace
<1>3. QED
  BY <1>1, <1>2 DEF Leads

(* The variable a node declares hides those of its name.                   *)
LEMMA Hides ==
  ASSUME ReadOk, WholeOk, NEW k \in DOMAIN ast, NEW p \in Declaring(k), NEW q \in Nat, NEW r,
         q <= Variable(k, p).at,
         \A b \in Binders : r \in b.scope <=> q \in b.scope \/ b = KidBinder(k, p)
  PROVE  /\ Means(Variable(k, p).n, r, Variable(k, p).at)
         /\ \A x, v : x # Variable(k, p).n => (Means(x, q, v) <=> Means(x, r, v))
<1>1. PICK o, w : o = KidBinder(k, p) /\ w = Variable(k, p)
  OBVIOUS
<1>2. o.n = w.n /\ o.at = w.at /\ w.at \in Nat /\ o \in Binders
  BY <1>1, DeclaringFacts, BindersAre
<1>3. ASSUME NEW b \in Binders, r \in b.scope PROVE b.at <= w.at
  <2>1. CASE b = o
    BY <1>2, <2>1
  <2>2. CASE q \in b.scope
    <3>1. b.at \in Nat /\ b.at < q
      BY <2>2, BinderEarly
    <3>2. QED
      BY <1>1, <1>2, <3>1
  <2>3. QED
    BY <1>1, <1>3, <2>1, <2>2
<1>4. Means(w.n, r, w.at)
  BY <1>1, <1>2, <1>3 DEF Means
<1>5. ASSUME NEW x, x # w.n PROVE \A b \in Binders : b.n = x => (q \in b.scope <=> r \in b.scope)
  BY <1>1, <1>2, <1>5
<1>6. ASSUME NEW x, NEW v, x # w.n PROVE Means(x, q, v) <=> Means(x, r, v)
  BY <1>5, <1>6, MeansAlso
<1>7. QED
  BY <1>1, <1>4, <1>6

-----------------------------------------------------------------------------
(* What the stack has to do with the names.  A frame leaves the names as   *)
(* they were where its node begins; what it keeps they were there.         *)
Exit(f) == ast[f.e].from
KeptOk(f) ==
  /\ f.do = "afterloop" => Means(ast[f.e].n, Exit(f), f.old)
  /\ f.do \in Bindings => \A i \in DOMAIN f.old : Means(ast[ast[f.e].kids[i]].n, Exit(f), f.old[i])
Linked(f, t) == t # <<>> => SamePlace(Exit(f), Entry(Head(t)))
Chain(t) ==
  \A k \in DOMAIN t : KeptOk(t[k]) /\ (k + 1 \in DOMAIN t => SamePlace(Exit(t[k]), Entry(t[k + 1])))
Knows(bindings, p) == \A x \in Ident : Means(x, p, bindings[x])
Scoped(bindings, t) == Chain(t) /\ (t # <<>> => Knows(bindings, Entry(Head(t))))

LEMMA ChainPush ==
  ASSUME NEW t, IsSeq(t), NEW f
  PROVE  Chain(Push(f, t)) <=> KeptOk(f) /\ Linked(f, t) /\ Chain(t)
<1>1. PICK r : r = Push(f, t)
  OBVIOUS
<1>2. /\ 1 \in DOMAIN r /\ r[1] = f
      /\ \A k \in DOMAIN r : k \in Nat /\ (k = 1 \/ (k - 1 \in DOMAIN t /\ r[k] = t[k - 1]))
      /\ \A k \in DOMAIN t : k \in Nat /\ k + 1 \in DOMAIN r /\ r[k + 1] = t[k]
  BY <1>1, PushFacts
<1>3. (t # <<>> => 1 \in DOMAIN t /\ Head(t) = t[1]) /\ (t = <<>> => DOMAIN t = {})
  BY TailFacts
<1>4. ASSUME Chain(r) PROVE KeptOk(f) /\ Linked(f, t) /\ Chain(t)
  <2>1. KeptOk(f)
    BY <1>2, <1>4 DEF Chain
  <2>2. Linked(f, t)
    <3>1. SUFFICES ASSUME t # <<>> PROVE SamePlace(Exit(r[1]), Entry(r[2]))
      BY <1>2, <1>3 DEF Linked
    <3>2. 1 + 1 \in DOMAIN r
      BY <1>2, <1>3, <3>1
    <3>3. QED
      BY <1>2, <1>4, <3>2 DEF Chain
  <2>3. ASSUME NEW k \in DOMAIN t
        PROVE  KeptOk(t[k]) /\ (k + 1 \in DOMAIN t => SamePlace(Exit(t[k]), Entry(t[k + 1])))
    <3>1. PICK m : m = k + 1
      OBVIOUS
    <3>2. m \in DOMAIN r /\ r[m] = t[k] /\ (m \in DOMAIN t => m + 1 \in DOMAIN r /\ r[m + 1] = t[m])
      BY <1>2, <3>1
    <3>3. KeptOk(r[m]) /\ (m + 1 \in DOMAIN r => SamePlace(Exit(r[m]), Entry(r[m + 1])))
      BY <1>4, <3>2 DEF Chain
    <3>4. QED
      BY <3>1, <3>2, <3>3
  <2>4. Chain(t)
    BY <2>3 DEF Chain
  <2>5. QED
    BY <2>1, <2>2, <2>4
<1>5. ASSUME KeptOk(f), Linked(f, t), Chain(t) PROVE Chain(r)
  <2>1. ASSUME NEW k \in DOMAIN r
        PROVE  KeptOk(r[k]) /\ (k + 1 \in DOMAIN r => SamePlace(Exit(r[k]), Entry(r[k + 1])))
    <3>1. CASE k = 1
      <4>1. KeptOk(r[k])
        BY <1>2, <1>5, <3>1
      <4>2. ASSUME k + 1 \in DOMAIN r PROVE SamePlace(Exit(r[k]), Entry(r[k + 1]))
        <5>1. k + 1 # 1 /\ (k + 1) - 1 = 1
          BY <3>1
        <5>2. 1 \in DOMAIN t /\ r[k + 1] = t[1]
          BY <1>2, <4>2, <5>1
        <5>3. t # <<>> /\ Head(t) = t[1]
          BY <1>3, <5>2
        <5>4. QED
          BY <1>2, <1>5, <3>1, <5>2, <5>3 DEF Linked
      <4>3. QED
        BY <4>1, <4>2
    <3>2. CASE k # 1
      <4>1. PICK j : j = k - 1
        OBVIOUS
      <4>2. j \in DOMAIN t /\ r[k] = t[j] /\ k \in Nat /\ j + 1 = k
        BY <1>2, <2>1, <3>2, <4>1
      <4>3. KeptOk(t[j]) /\ (k \in DOMAIN t => SamePlace(Exit(t[j]), Entry(t[k])))
        BY <1>5, <4>2 DEF Chain
      <4>4. ASSUME k + 1 \in DOMAIN r PROVE k \in DOMAIN t /\ r[k + 1] = t[k]
        <5>1. k + 1 # 1 /\ (k + 1) - 1 = k
          BY <1>2, <4>2, <4>4, <3>2
        <5>2. QED
          BY <1>2, <4>4, <5>1
      <4>5. QED
        BY <4>2, <4>3, <4>4
    <3>3. QED
      BY <3>1, <3>2
  <2>2. QED
    BY <2>1 DEF Chain
<1>6. QED
  BY <1>1, <1>4, <1>5

LEMMA ScopedPush ==
  ASSUME NEW t, IsSeq(t), NEW f, NEW n
  PROVE  Scoped(n, Push(f, t)) <=> KeptOk(f) /\ Linked(f, t) /\ Chain(t) /\ Knows(n, Entry(f))
<1>1. Push(f, t) # <<>> /\ Head(Push(f, t)) = f
  BY PushFacts
<1>2. QED
  BY <1>1, ChainPush DEF Scoped

(* The frame on top of the stack.                                          *)
LEMMA ScopedFrame ==
  ASSUME GenOk, phase = "generating", todo # <<>>, Scoped(names, todo)
  PROVE  /\ KeptOk(Frame) /\ Linked(Frame, Tail(todo)) /\ Chain(Tail(todo)) /\ Knows(names, Entry(Frame))
         /\ ReadOk /\ WholeOk /\ IsSeq(Tail(todo)) /\ Frame.e \in DOMAIN ast /\ Tree = ast[Frame.e]
         /\ Exit(Frame) \in Nat /\ names \in [Ident -> Slots] /\ JobOk(Len(code.blocks), Frame)
         /\ todo = Push(Frame, Tail(todo))
<1>1. PICK t, f : t = Tail(todo) /\ f = Frame
  OBVIOUS
<1>2. /\ IsSeq(t) /\ todo = Push(f, t) /\ ReadOk /\ f.e \in DOMAIN ast /\ names \in [Ident -> Slots]
      /\ JobOk(Len(code.blocks), f)
  BY <1>1, GenFacts
<1>3. KeptOk(f) /\ Linked(f, t) /\ Chain(t) /\ Knows(names, Entry(f))
  BY <1>2, ScopedPush
<1>4. WholeOk /\ Exit(f) \in Nat
  BY <1>2, PlaceFacts DEF GenOk, Exit
<1>5. QED
  BY <1>1, <1>2, <1>3, <1>4 DEF Tree

LEMMA KnowsSame ==
  \A n, p, q : Knows(n, p) /\ SamePlace(p, q) => Knows(n, q)
BY MeansSame DEF Knows

(* A frame returns.                                                        *)
LEMMA ScopedPop ==
  ASSUME NEW f, NEW t, NEW n, Linked(f, t), Chain(t), Knows(n, Exit(f))
  PROVE  Scoped(n, t)
BY KnowsSame DEF Scoped, Linked

Plain(f) == f.do \notin Bindings \cup {"afterloop"}

LEMMA PlainFrames ==
  \A f : Plain(f) => Entry(f) = Exit(f) /\ KeptOk(f)
BY DEF Plain, Entry, Exit, KeptOk

LEMMA CodegenPlain ==
  \A c : Plain(Job("codegen", c)) /\ Exit(Job("codegen", c)) = ast[c].from /\ Entry(Job("codegen", c)) = ast[c].from
<1> TAKE c
<1>1. PICK f : f = Job("codegen", c)
  OBVIOUS
<1>2. Plain(f) /\ Exit(f) = ast[c].from
  BY <1>1 DEF Plain, Job, Bindings, Exit
<1>3. QED
  BY <1>1, <1>2, PlainFrames

(* Two frames: a subtree that begins at the entry of what is behind it.    *)
LEMMA ScopedTwo ==
  ASSUME NEW t, IsSeq(t), NEW g, NEW c, NEW n, KeptOk(g), Linked(g, t), Chain(t),
         SamePlace(ast[c].from, Entry(g)), Knows(n, ast[c].from)
  PROVE  Scoped(n, Push(Job("codegen", c), Push(g, t)))
<1>1. PICK r, x : r = Push(g, t) /\ x = Job("codegen", c)
  OBVIOUS
<1>2. IsSeq(r) /\ Chain(r) /\ r # <<>> /\ Head(r) = g
  BY <1>1, PushFacts, ChainPush
<1>3. KeptOk(x) /\ Exit(x) = ast[c].from /\ Entry(x) = ast[c].from
  BY <1>1, CodegenPlain, PlainFrames
<1>4. Linked(x, r)
  BY <1>2, <1>3 DEF Linked
<1>5. QED
  BY <1>1, <1>2, <1>3, <1>4, ScopedPush

LEMMA SameFlip ==
  \A p, q : SamePlace(p, q) <=> SamePlace(q, p)
BY DEF SamePlace

LEMMA AlikeScoped ==
  \A f, g : Alike(f, g) => Entry(g) = Entry(f) /\ Exit(g) = Exit(f) /\ (KeptOk(f) => KeptOk(g))
                           /\ \A t : Linked(f, t) => Linked(g, t)
<1> TAKE f, g
<1> HAVE Alike(f, g)
<1>1. /\ g.e = f.e /\ f.do # "afterloop" /\ g.do # "afterloop"
      /\ IF f.do \in Bindings THEN g.do \in Bindings /\ g.old = f.old ELSE g.do \notin Bindings
  BY DEF Alike, Makers
<1>2. Exit(g) = Exit(f)
  BY <1>1 DEF Exit
<1>3. Entry(g) = Entry(f)
  BY <1>1 DEF Entry
<1>4. KeptOk(f) => KeptOk(g)
  BY <1>1, <1>2 DEF KeptOk
<1>5. QED
  BY <1>2, <1>3, <1>4 DEF Linked

LEMMA DeeperScoped ==
  ASSUME GenOk, phase = "generating", todo # <<>>, Scoped(names, todo),
         (\E c, g : Descends(c, g)) \/ (\E g : Replaces(g)) \/ Returns
  PROVE  Scoped(names', todo')
<1>1. PICK t, f : t = Tail(todo) /\ f = Frame
  OBVIOUS
<1>2. /\ KeptOk(f) /\ Linked(f, t) /\ Chain(t) /\ Knows(names, Entry(f)) /\ ReadOk /\ WholeOk /\ IsSeq(t)
  BY <1>1, ScopedFrame
<1>3. CASE \E c, g : Descends(c, g)
  <2>1. PICK c, g : Descends(c, g)
    BY <1>3
  <2>2. /\ names' = names /\ todo' = Push(Job("codegen", c), Push(g, t)) /\ Alike(f, g) /\ Leads(c, Entry(f))
    BY <1>1, <2>1 DEF Descends
  <2>3. SamePlace(Entry(f), ast[c].from)
    BY <1>2, <2>2, LeadsSame
  <2>4. KeptOk(g) /\ Linked(g, t) /\ Entry(g) = Entry(f)
    BY <1>2, <2>2, AlikeScoped
  <2>5. Knows(names, ast[c].from) /\ SamePlace(ast[c].from, Entry(g))
    BY <1>2, <2>3, <2>4, KnowsSame, SameFlip
  <2>6. QED
    BY <1>2, <2>2, <2>4, <2>5, ScopedTwo
<1>4. CASE \E g : Replaces(g)
  <2>1. PICK g : Replaces(g)
    BY <1>4
  <2>2. names' = names /\ todo' = Push(g, t) /\ Alike(f, g)
    BY <1>1, <2>1 DEF Replaces
  <2>3. KeptOk(g) /\ Linked(g, t) /\ Entry(g) = Entry(f)
    BY <1>2, <2>2, AlikeScoped
  <2>4. QED
    BY <1>2, <2>2, <2>3, ScopedPush
<1>5. CASE Returns
  <2>1. names' = names /\ todo' = t /\ Plain(f)
    BY <1>1, <1>5 DEF Returns, Plain, Makers
  <2>2. Entry(f) = Exit(f)
    BY <2>1, PlainFrames
  <2>3. QED
    BY <1>2, <2>1, <2>2, ScopedPop
<1>6. QED
  BY <1>3, <1>4, <1>5

LEMMA BranchesScoped ==
  ASSUME GenOk, phase = "generating", todo # <<>>, Scoped(names, todo),
         Branches \/ Alternates \/ Merges
  PROVE  Scoped(names', todo')
<1>1. PICK t, f : t = Tail(todo) /\ f = Frame
  OBVIOUS
<1>2. /\ KeptOk(f) /\ Linked(f, t) /\ Chain(t) /\ Knows(names, Entry(f)) /\ ReadOk /\ WholeOk /\ IsSeq(t)
      /\ f.e \in DOMAIN ast /\ Tree = ast[f.e] /\ JobOk(Len(code.blocks), f)
  BY <1>1, ScopedFrame
<1>3. f.do \in {"then", "else", "phi"} /\ names' = names
  BY <1>1 DEF Branches, Alternates, Merges
<1>4. Plain(f) /\ Tree.t = "if"
  BY <1>2, <1>3 DEF Plain, Bindings, JobOk
<1>5. Entry(f) = Exit(f)
  BY <1>4, PlainFrames
<1>6. CASE Merges
  <2>1. todo' = t
    BY <1>1, <1>6 DEF Merges
  <2>2. QED
    BY <1>2, <1>3, <1>5, <2>1, ScopedPop
<1>7. CASE Branches \/ Alternates
  <2>1. PICK i, g : /\ i \in {2, 3} /\ g.e = f.e /\ g.do \in {"else", "phi"}
                    /\ todo' = Push(Job("codegen", Tree.kids[i]), Push(g, t))
    <3>1. CASE Branches
      <4>1. PICK g : /\ g = [do |-> "else", e |-> Frame.e, begin |-> Len(code.blocks) + 2]
                     /\ todo' = Push(Job("codegen", Tree.kids[2]), Push(g, t))
        BY <1>1, <3>1 DEF Branches
      <4>2. g.e = f.e /\ g.do = "else"
        BY <1>1, <4>1
      <4>3. QED
        BY <4>1, <4>2
    <3>2. CASE Alternates
      <4>1. PICK g : /\ g = [do |-> "phi", e |-> Frame.e, then |-> code.at, merge |-> Frame.begin + 1]
                     /\ todo' = Push(Job("codegen", Tree.kids[3]), Push(g, t))
        BY <1>1, <3>2 DEF Alternates
      <4>2. g.e = f.e /\ g.do = "phi"
        BY <1>1, <4>1
      <4>3. QED
        BY <4>1, <4>2
    <3>3. QED
      BY <1>7, <3>1, <3>2
  <2>2. PICK c : c = Tree.kids[i]
    OBVIOUS
  <2>3. Plain(g) /\ Exit(g) = Exit(f)
    BY <2>1 DEF Plain, Bindings, Exit
  <2>4. KeptOk(g) /\ Entry(g) = Entry(f) /\ Linked(g, t)
    BY <1>2, <1>5, <2>3, PlainFrames DEF Linked
  <2>5. i \in 1 .. Len(ast[f.e].kids)
    BY <1>2, <1>4, <2>1, OneKidLess
  <2>6. Leads(c, Entry(f))
    BY <1>2, <1>4, <1>5, <2>2, <2>5, KidLeads DEF Exit
  <2>7. SamePlace(Entry(f), ast[c].from)
    BY <1>2, <2>6, LeadsSame
  <2>8. Knows(names, ast[c].from) /\ SamePlace(ast[c].from, Entry(g))
    BY <1>2, <2>4, <2>7, KnowsSame, SameFlip
  <2>9. QED
    BY <1>2, <1>3, <2>1, <2>2, <2>4, <2>8, ScopedTwo
<1>8. QED
  BY <1>6, <1>7

(* The body, the step and the end of a loop are in the scope of its        *)
(* variable, the start is not.                                             *)
LEMMA LoopScope ==
  ASSUME ReadOk, WholeOk, NEW k \in DOMAIN ast, ast[k].t = "for"
  PROVE  /\ 1 \in Declaring(k) /\ Variable(k, 1) = ast[k] /\ ast[k].from <= ast[k].at
         /\ \A i \in DOMAIN ast[k].kids : i # 1 => \A b \in Binders :
              ast[ast[k].kids[i]].from \in b.scope <=> ast[k].from \in b.scope \/ b = KidBinder(k, 1)
<1>1. Declaring(k) = {1} /\ Variable(k, 1) = ast[k]
  BY DEF Declaring, Variable
<1>2. ast[k].from <= ast[k].at
  <2>1. ast[k].from \in Nat /\ ast[k].at = ast[k].from + 1
    BY PlaceFacts, KidFacts DEF NodeOk, Shape
  <2>2. QED
    BY <2>1
<1>3. ASSUME NEW i \in DOMAIN ast[k].kids, i # 1, NEW b \in Binders
      PROVE  ast[ast[k].kids[i]].from \in b.scope <=> ast[k].from \in b.scope \/ b = KidBinder(k, 1)
  <2>1. i \in 1 .. Len(ast[k].kids)
    BY KidFacts
  <2>2. 1 < i
    BY <1>3, <2>1
  <2>3. Adds(k, i, b) <=> b = KidBinder(k, 1)
    BY <1>1, <2>2 DEF Adds
  <2>4. QED
    BY <2>3, KidScope
<1>4. QED
  BY <1>1, <1>2, <1>3

LEMMA LoopsScoped ==
  ASSUME GenOk, phase = "generating", todo # <<>>, Scoped(names, todo), Loops
  PROVE  Scoped(names', todo')
<1>1. PICK t, f, k, kids : t = Tail(todo) /\ f = Frame /\ k = f.e /\ kids = ast[k].kids
  OBVIOUS
<1>2. /\ Linked(f, t) /\ Chain(t) /\ Knows(names, Entry(f)) /\ ReadOk /\ WholeOk /\ IsSeq(t)
      /\ k \in DOMAIN ast /\ Tree = ast[k] /\ JobOk(Len(code.blocks), f) /\ names \in [Ident -> Slots]
      /\ Exit(f) \in Nat /\ Exit(f) = ast[k].from
  BY <1>1, ScopedFrame DEF Exit
<1>3. f.do = "loop" /\ Tree.t = "for"
  BY <1>1, <1>2 DEF Loops, JobOk
<1>4. Knows(names, Exit(f))
  BY <1>2, <1>3, PlainFrames DEF Plain, Bindings
<1>5. PICK n, m, a : n = ast[k].n /\ a = ast[k].at /\ m = names'
  OBVIOUS
<1>6. n \in Ident /\ m = [names EXCEPT ![n] = a]
  BY <1>2, <1>3, <1>5, PlaceFacts DEF Loops
<1>7. m[n] = a /\ \A x \in Ident : x # n => m[x] = names[x]
  BY <1>2, <1>6
<1>8. /\ 1 \in Declaring(k) /\ Variable(k, 1) = ast[k] /\ ast[k].from <= ast[k].at
      /\ \A i \in DOMAIN kids : i # 1 => \A b \in Binders :
           ast[kids[i]].from \in b.scope <=> ast[k].from \in b.scope \/ b = KidBinder(k, 1)
  BY <1>1, <1>2, <1>3, LoopScope
<1>9. ASSUME NEW i \in DOMAIN kids, i # 1
      PROVE  Knows(m, ast[kids[i]].from)
  <2>1. PICK q, r : q = ast[k].from /\ r = ast[kids[i]].from
    OBVIOUS
  <2>2. \A b \in Binders : r \in b.scope <=> q \in b.scope \/ b = KidBinder(k, 1)
    BY <1>8, <1>9, <2>1
  <2>3. q \in Nat /\ q <= Variable(k, 1).at
    BY <1>2, <1>8, <2>1
  <2>4. Means(n, r, a) /\ \A x, v : x # n => (Means(x, q, v) <=> Means(x, r, v))
    BY <1>2, <1>5, <1>8, <2>2, <2>3, Hides
  <2>5. ASSUME NEW x \in Ident PROVE Means(x, r, m[x])
    <3>1. CASE x = n
      BY <1>7, <2>4, <3>1
    <3>2. CASE x # n
      <4>1. m[x] = names[x] /\ Means(x, q, names[x])
        BY <1>2, <1>4, <1>7, <2>1, <3>2 DEF Knows
      <4>2. QED
        BY <2>4, <3>2, <4>1
    <3>3. QED
      BY <3>1, <3>2
  <2>6. QED
    BY <2>1, <2>5 DEF Knows
<1>10. ASSUME NEW i \in DOMAIN kids, i # 1, NEW j \in DOMAIN kids, j # 1
       PROVE  SamePlace(ast[kids[i]].from, ast[kids[j]].from)
  BY <1>8, <1>10 DEF SamePlace
<1>11. /\ 2 \in DOMAIN kids /\ 3 \in DOMAIN kids /\ Len(kids) \in DOMAIN kids /\ Len(kids) # 1
  <2>1. Len(kids) \in {3, 4} /\ DOMAIN kids = 1 .. Len(kids)
    BY <1>1, <1>2, <1>3, KidFacts
  <2>2. QED
    BY <2>1
<1>12. PICK g : g = [do |-> "afterloop", e |-> k, loop |-> Len(code.blocks) + 1, old |-> names[n]]
  OBVIOUS
<1>13. g.do = "afterloop" /\ g.e = k /\ g.old = names[n]
  BY <1>12
<1>14. PICK c, d, l : c = kids[2] /\ d = kids[3] /\ l = kids[Len(kids)]
  OBVIOUS
<1>15. Entry(g) = ast[c].from /\ Exit(g) = Exit(f)
  BY <1>1, <1>2, <1>13, <1>14 DEF Entry, Exit
<1>16. KeptOk(g)
  <2>1. Means(n, Exit(f), names[n])
    BY <1>4, <1>6 DEF Knows
  <2>2. QED
    BY <1>5, <1>13, <1>15, <2>1 DEF KeptOk, Bindings
<1>17. Linked(g, t)
  BY <1>2, <1>15 DEF Linked
<1>18. PICK behind : behind = Push(Job("codegen", c), Push(g, t))
  OBVIOUS
<1>19. /\ SamePlace(ast[c].from, ast[c].from) /\ SamePlace(ast[d].from, ast[c].from)
       /\ SamePlace(ast[l].from, ast[c].from) /\ SamePlace(ast[l].from, ast[d].from)
       /\ Knows(m, ast[c].from) /\ Knows(m, ast[d].from) /\ Knows(m, ast[l].from)
  BY <1>9, <1>10, <1>11, <1>14
<1>20. Scoped(m, behind)
  BY <1>2, <1>15, <1>16, <1>17, <1>18, <1>19, ScopedTwo
<1>21. ASSUME NEW s, NEW z, NEW y, IsSeq(s), s # <<>>, Scoped(m, s), Entry(Head(s)) = ast[y].from,
              SamePlace(ast[z].from, ast[y].from), Knows(m, ast[z].from)
       PROVE  LET p == Push(Job("codegen", z), s)
              IN  IsSeq(p) /\ p # <<>> /\ Scoped(m, p) /\ Entry(Head(p)) = ast[z].from
  <2>1. PICK x : x = Job("codegen", z)
    OBVIOUS
  <2>2. KeptOk(x) /\ Entry(x) = ast[z].from /\ Exit(x) = ast[z].from
    BY <2>1, CodegenPlain, PlainFrames
  <2>3. Linked(x, s) /\ Chain(s)
    BY <1>21, <2>2 DEF Linked, Scoped
  <2>4. Scoped(m, Push(x, s))
    BY <1>21, <2>2, <2>3, ScopedPush
  <2>5. IsSeq(Push(x, s)) /\ Push(x, s) # <<>> /\ Head(Push(x, s)) = x
    BY <1>21, PushFacts
  <2>6. QED
    BY <2>1, <2>2, <2>4, <2>5
<1>22. IsSeq(behind) /\ behind # <<>> /\ Entry(Head(behind)) = ast[c].from
  <2>1. PICK r, x : r = Push(g, t) /\ x = Job("codegen", c)
    OBVIOUS
  <2>2. IsSeq(r) /\ behind = Push(x, r)
    BY <1>2, <1>18, <2>1, PushFacts
  <2>3. IsSeq(behind) /\ behind # <<>> /\ Head(behind) = x
    BY <2>2, PushFacts
  <2>4. QED
    BY <2>1, <2>3, CodegenPlain
<1>23. todo' = Push(Job("codegen", l), IF Len(kids) = 4 THEN Push(Job("codegen", d), behind) ELSE behind)
  BY <1>1, <1>2, <1>5, <1>12, <1>14, <1>18 DEF Loops
<1>24. CASE Len(kids) = 4
  <2>1. PICK p : p = Push(Job("codegen", d), behind)
    OBVIOUS
  <2>2. IsSeq(p) /\ p # <<>> /\ Scoped(m, p) /\ Entry(Head(p)) = ast[d].from
    BY <1>19, <1>20, <1>21, <1>22, <2>1
  <2>3. Scoped(m, Push(Job("codegen", l), p))
    BY <1>19, <1>21, <2>2
  <2>4. QED
    BY <1>5, <1>23, <1>24, <2>1, <2>3
<1>25. CASE Len(kids) # 4
  <2>1. Scoped(m, Push(Job("codegen", l), behind))
    BY <1>19, <1>20, <1>21, <1>22
  <2>2. QED
    BY <1>5, <1>23, <1>25, <2>1
<1>26. QED
  BY <1>24, <1>25

LEMMA LoopEndsScoped ==
  ASSUME GenOk, phase = "generating", todo # <<>>, Scoped(names, todo), LoopEnds
  PROVE  Scoped(names', todo')
<1>1. PICK t, f, k, kids : t = Tail(todo) /\ f = Frame /\ k = f.e /\ kids = ast[k].kids
  OBVIOUS
<1>2. /\ Linked(f, t) /\ Chain(t) /\ Knows(names, Entry(f)) /\ ReadOk /\ WholeOk /\ IsSeq(t) /\ KeptOk(f)
      /\ k \in DOMAIN ast /\ Tree = ast[k] /\ JobOk(Len(code.blocks), f) /\ names \in [Ident -> Slots]
      /\ Exit(f) \in Nat /\ Exit(f) = ast[k].from
  BY <1>1, ScopedFrame DEF Exit
<1>3. f.do = "afterloop" /\ Tree.t = "for" /\ todo' = t
  BY <1>1, <1>2 DEF LoopEnds, JobOk
<1>4. PICK n, m, q, r : n = ast[k].n /\ m = names' /\ q = ast[k].from /\ r = ast[kids[2]].from
  OBVIOUS
<1>5. n \in Ident /\ m = [names EXCEPT ![n] = f.old]
  BY <1>1, <1>2, <1>3, <1>4, PlaceFacts DEF LoopEnds
<1>6. m[n] = f.old /\ \A x \in Ident : x # n => m[x] = names[x]
  BY <1>2, <1>5
<1>7. /\ 1 \in Declaring(k) /\ Variable(k, 1) = ast[k] /\ ast[k].from <= ast[k].at
      /\ \A i \in DOMAIN kids : i # 1 => \A b \in Binders :
           ast[kids[i]].from \in b.scope <=> ast[k].from \in b.scope \/ b = KidBinder(k, 1)
  BY <1>1, <1>2, <1>3, LoopScope
<1>8. 2 \in DOMAIN kids
  <2>1. Len(kids) \in {3, 4} /\ DOMAIN kids = 1 .. Len(kids)
    BY <1>1, <1>2, <1>3, KidFacts
  <2>2. QED
    BY <2>1
<1>9. \A b \in Binders : r \in b.scope <=> q \in b.scope \/ b = KidBinder(k, 1)
  BY <1>4, <1>7, <1>8
<1>10. \A x, v : x # n => (Means(x, q, v) <=> Means(x, r, v))
  <2>1. q \in Nat /\ q <= Variable(k, 1).at
    BY <1>2, <1>4, <1>7
  <2>2. QED
    BY <1>2, <1>4, <1>7, <1>9, <2>1, Hides
<1>11. ASSUME NEW x \in Ident PROVE Means(x, Exit(f), m[x])
  <2>1. CASE x = n
    BY <1>1, <1>2, <1>3, <1>4, <1>6, <2>1 DEF KeptOk
  <2>2. CASE x # n
    <3>1. Entry(f) = r
      BY <1>1, <1>3, <1>4 DEF Entry
    <3>2. Means(x, r, names[x])
      BY <1>2, <3>1 DEF Knows
    <3>3. QED
      BY <1>2, <1>4, <1>6, <1>10, <2>2, <3>2
  <2>3. QED
    BY <2>1, <2>2
<1>12. Knows(m, Exit(f))
  BY <1>11 DEF Knows
<1>13. QED
  BY <1>2, <1>3, <1>4, <1>12, ScopedPop

LEMMA OpensScoped ==
  ASSUME GenOk, phase = "generating", todo # <<>>, Scoped(names, todo), Opens
  PROVE  Scoped(names', todo')
<1>1. PICK t, f, k : t = Tail(todo) /\ f = Frame /\ k = f.e
  OBVIOUS
<1>2. /\ Linked(f, t) /\ Chain(t) /\ Knows(names, Entry(f)) /\ ReadOk /\ WholeOk /\ IsSeq(t)
      /\ k \in DOMAIN ast /\ Tree = ast[k] /\ Exit(f) = ast[k].from
  BY <1>1, ScopedFrame DEF Exit
<1>3. f.do = "codegen" /\ Tree.t = "varin" /\ names' = names
  BY <1>1 DEF Opens
<1>4. PICK g : g = [do |-> "lets", e |-> k, old |-> <<>>]
  OBVIOUS
<1>5. g.do = "lets" /\ g.e = k /\ g.old = <<>> /\ todo' = Push(g, t)
  BY <1>1, <1>4 DEF Opens
<1>6. Entry(f) = ast[k].from
  BY <1>2, <1>3, PlainFrames DEF Plain, Bindings
<1>7. 1 \in 1 .. Len(ast[k].kids)
  BY <1>2, <1>3, OneKidLess
<1>8. PICK c : c = ast[k].kids[1]
  OBVIOUS
<1>9. Leads(c, ast[k].from)
  BY <1>2, <1>7, <1>8, KidLeads
<1>10. Entry(g) = ast[c].from
  <2>1. Len(<<>>) + 1 = 1
    OBVIOUS
  <2>2. QED
    BY <1>5, <1>8, <2>1 DEF Entry, Bindings
<1>11. Knows(names, Entry(g))
  BY <1>2, <1>6, <1>9, <1>10, LeadsSame, KnowsSame
<1>12. KeptOk(g)
  BY <1>5 DEF KeptOk
<1>13. Linked(g, t)
  BY <1>1, <1>2, <1>5 DEF Linked, Exit
<1>14. QED
  BY <1>2, <1>3, <1>5, <1>11, <1>12, <1>13, ScopedPush

(* The variables of a var expression, the one behind the other.            *)
LEMMA LetScope ==
  ASSUME ReadOk, WholeOk, NEW k \in DOMAIN ast, ast[k].t = "varin", NEW j \in 1 .. Len(ast[k].kids) - 1
  PROVE  /\ j \in Declaring(k) /\ Variable(k, j) = ast[ast[k].kids[j]]
         /\ j \in DOMAIN ast[k].kids /\ j + 1 \in DOMAIN ast[k].kids
         /\ ast[ast[k].kids[j]].from = ast[ast[k].kids[j]].at /\ ast[ast[k].kids[j]].n \in Ident
         /\ \A b \in Binders : ast[ast[k].kids[j + 1]].from \in b.scope
              <=> ast[ast[k].kids[j]].from \in b.scope \/ b = KidBinder(k, j)
<1>1. j \in Declaring(k) /\ Variable(k, j) = ast[ast[k].kids[j]]
  BY DEF Declaring, Variable
<1>2. j \in DOMAIN ast[k].kids /\ j + 1 \in DOMAIN ast[k].kids /\ j \in Nat
  <2>1. Len(ast[k].kids) \in Nat /\ DOMAIN ast[k].kids = 1 .. Len(ast[k].kids)
    BY KidFacts
  <2>2. QED
    BY <2>1
<1>3. PICK c : c = ast[k].kids[j]
  OBVIOUS
<1>4. c \in DOMAIN ast /\ ast[c].t = "let"
  BY <1>2, <1>3, KidFacts DEF NodeOk, Shape
<1>5. ast[c].from = ast[c].at /\ ast[c].n \in Ident
  BY <1>4, KidFacts DEF NodeOk, Shape
<1>6. ASSUME NEW b \in Binders
      PROVE  ast[ast[k].kids[j + 1]].from \in b.scope <=> ast[c].from \in b.scope \/ b = KidBinder(k, j)
  <2>1. Declaring(k) \subseteq Nat
    BY DEF Declaring
  <2>2. \A p \in Declaring(k) : p < j + 1 <=> p < j \/ p = j
    BY <1>2, <2>1
  <2>3. Adds(k, j + 1, b) <=> Adds(k, j, b) \/ b = KidBinder(k, j)
    BY <1>1, <2>2 DEF Adds
  <2>4. PICK i : i = j + 1
    OBVIOUS
  <2>5. ast[ast[k].kids[i]].from \in b.scope <=> ast[k].from \in b.scope \/ Adds(k, i, b)
    BY <1>2, <2>4, KidScope
  <2>6. ast[c].from \in b.scope <=> ast[k].from \in b.scope \/ Adds(k, j, b)
    BY <1>2, <1>3, KidScope
  <2>7. QED
    BY <2>3, <2>4, <2>5, <2>6
<1>7. QED
  BY <1>1, <1>2, <1>3, <1>5, <1>6

(* No other variable of the list has the name.                             *)
LEMMA LetAlone ==
  ASSUME ReadOk, WholeOk, Distinct, NEW k \in DOMAIN ast, ast[k].t = "varin",
         NEW j \in 1 .. Len(ast[k].kids) - 1, NEW b \in Binders, b.n = ast[ast[k].kids[j]].n
  PROVE  ast[ast[k].kids[j]].from \in b.scope <=> ast[k].from \in b.scope
<1>1. j \in DOMAIN ast[k].kids
  BY LetScope
<1>2. ASSUME NEW p \in Declaring(k), p < j, b = KidBinder(k, p) PROVE FALSE
  <2>1. p \in 1 .. Len(ast[k].kids) - 1 /\ Variable(k, p) = ast[ast[k].kids[p]]
    BY DEF Declaring, Variable
  <2>2. b.n = ast[ast[k].kids[p]].n
    BY <1>2, <2>1, DeclaringFacts
  <2>3. k \in Nodes("varin")
    BY DEF Nodes
  <2>4. p = j
    BY <2>1, <2>2, <2>3 DEF Distinct
  <2>5. Len(ast[k].kids) \in Nat
    BY KidFacts
  <2>6. j \in Int
    BY <2>5
  <2>7. QED
    BY <1>2, <2>4, <2>6
<1>3. ~ Adds(k, j, b)
  BY <1>2 DEF Adds
<1>4. QED
  BY <1>1, <1>3, KidScope

LEMMA BindsScoped ==
  ASSUME GenOk, phase = "generating", todo # <<>>, Scoped(names, todo), Distinct, Binds
  PROVE  Scoped(names', todo')
<1>1. PICK t, f, k, kids : t = Tail(todo) /\ f = Frame /\ k = f.e /\ kids = ast[k].kids
  OBVIOUS
<1>2. /\ Linked(f, t) /\ Chain(t) /\ Knows(names, Entry(f)) /\ ReadOk /\ WholeOk /\ IsSeq(t) /\ KeptOk(f)
      /\ k \in DOMAIN ast /\ Tree = ast[k] /\ Exit(f) = ast[k].from /\ names \in [Ident -> Slots]
  BY <1>1, ScopedFrame DEF Exit
<1>3. f.do = "bind" /\ f.do \in Bindings
  BY <1>1 DEF Binds, Bindings
<1>4. PICK j, c : j = Len(f.old) + 1 /\ c = kids[j]
  OBVIOUS
<1>5. /\ ast[k].t = "varin" /\ f.old \in Seq(Slots) /\ Len(f.old) \in Nat /\ DOMAIN f.old = 1 .. Len(f.old)
      /\ Kid = c /\ j + 1 \in 1 .. Len(kids) /\ Len(kids) \in Nat
  <2>1. /\ Tree.t = "varin" /\ f.old \in Seq(Slots) /\ Len(f.old) \in Nat /\ DOMAIN f.old = 1 .. Len(f.old)
        /\ Len(Tree.kids) \in Nat /\ Len(f.old) + 2 \in 1 .. Len(Tree.kids)
    BY <1>1, <1>3, OldFacts
  <2>2. j + 1 = Len(f.old) + 2
    BY <1>4, <2>1
  <2>3. QED
    BY <1>1, <1>2, <1>4, <2>1, <2>2 DEF Kid
<1>6. j \in 1 .. Len(kids) - 1 /\ j \in Nat
  BY <1>4, <1>5
<1>7. PICK n, m, q, r : n = ast[c].n /\ m = names' /\ q = ast[c].from /\ r = ast[kids[j + 1]].from
  OBVIOUS
<1>8. /\ j \in Declaring(k) /\ Variable(k, j) = ast[c] /\ j \in DOMAIN kids /\ j + 1 \in DOMAIN kids
      /\ q = ast[c].at /\ n \in Ident
      /\ \A b \in Binders : r \in b.scope <=> q \in b.scope \/ b = KidBinder(k, j)
  BY <1>1, <1>2, <1>4, <1>5, <1>6, <1>7, LetScope
<1>9. m = [names EXCEPT ![n] = q]
  BY <1>1, <1>5, <1>7, <1>8 DEF Binds
<1>10. m[n] = q /\ \A x \in Ident : x # n => m[x] = names[x]
  BY <1>2, <1>8, <1>9
<1>11. q \in Nat
  <2>1. c \in DOMAIN ast
    BY <1>1, <1>2, <1>4, <1>8, KidPlaces
  <2>2. QED
    BY <1>2, <1>7, <2>1, PlaceFacts
<1>12. Means(n, r, q) /\ \A x, v : x # n => (Means(x, q, v) <=> Means(x, r, v))
  BY <1>2, <1>7, <1>8, <1>11, Hides
<1>13. Entry(f) = q
  BY <1>1, <1>3, <1>4, <1>7 DEF Entry, Bindings
<1>14. Knows(m, r)
  <2>1. ASSUME NEW x \in Ident PROVE Means(x, r, m[x])
    <3>1. CASE x = n
      BY <1>10, <1>12, <3>1
    <3>2. CASE x # n
      <4>1. Means(x, q, names[x])
        BY <1>2, <1>13 DEF Knows
      <4>2. QED
        BY <1>10, <1>12, <3>2, <4>1
    <3>3. QED
      BY <3>1, <3>2
  <2>2. QED
    BY <2>1 DEF Knows
<1>15. PICK s, g : s = Append(f.old, names[n]) /\ g = [do |-> "lets", e |-> k, old |-> s]
  OBVIOUS
<1>16. g.do = "lets" /\ g.e = k /\ g.old = s /\ todo' = Push(g, t)
  BY <1>1, <1>5, <1>7, <1>15 DEF Binds
<1>17. names[n] \in Slots
  BY <1>2, <1>8
<1>18. Len(s) = j /\ DOMAIN s = 1 .. j /\ s[j] = names[n] /\ \A i \in 1 .. j - 1 : i \in DOMAIN f.old /\ s[i] = f.old[i]
  BY <1>4, <1>5, <1>15, <1>17
<1>19. Entry(g) = r /\ Exit(g) = Exit(f)
  BY <1>1, <1>7, <1>16, <1>18 DEF Entry, Exit, Bindings
<1>20. Means(n, Exit(f), names[n])
  <2>1. Means(n, q, names[n])
    BY <1>2, <1>8, <1>13 DEF Knows
  <2>2. ASSUME NEW b \in Binders, b.n = n PROVE q \in b.scope <=> Exit(f) \in b.scope
    <3>1. b.n = ast[ast[k].kids[j]].n /\ j \in 1 .. Len(ast[k].kids) - 1 /\ ast[k].t = "varin"
      BY <1>1, <1>4, <1>5, <1>6, <1>7, <2>2
    <3>2. ast[ast[k].kids[j]].from \in b.scope <=> ast[k].from \in b.scope
      BY <1>2, <3>1, LetAlone
    <3>3. QED
      BY <1>1, <1>2, <1>4, <1>7, <3>2
  <2>3. QED
    BY <2>1, <2>2, MeansAlso
<1>21. KeptOk(g)
  <2>1. ASSUME NEW i \in DOMAIN s PROVE Means(ast[kids[i]].n, Exit(f), s[i])
    <3>1. CASE i = j
      BY <1>4, <1>7, <1>18, <1>20, <3>1
    <3>2. CASE i # j
      <4>1. i \in 1 .. j - 1
        BY <1>6, <1>18, <3>2
      <4>2. QED
        BY <1>1, <1>2, <1>3, <1>18, <4>1 DEF KeptOk
    <3>3. QED
      BY <3>1, <3>2
  <2>2. QED
    BY <1>1, <1>16, <1>19, <2>1 DEF KeptOk
<1>22. Linked(g, t)
  BY <1>2, <1>19 DEF Linked
<1>23. QED
  BY <1>2, <1>7, <1>14, <1>16, <1>19, <1>21, <1>22, ScopedPush

LEMMA RestoresScoped ==
  ASSUME GenOk, phase = "generating", todo # <<>>, Scoped(names, todo), Restores
  PROVE  Scoped(names', todo')
<1>1. PICK t, f, k, kids : t = Tail(todo) /\ f = Frame /\ k = f.e /\ kids = ast[k].kids
  OBVIOUS
<1>2. /\ Linked(f, t) /\ Chain(t) /\ Knows(names, Entry(f)) /\ ReadOk /\ WholeOk /\ IsSeq(t) /\ KeptOk(f)
      /\ k \in DOMAIN ast /\ Tree = ast[k] /\ Exit(f) = ast[k].from
  BY <1>1, ScopedFrame DEF Exit
<1>3. f.do = "restore" /\ f.do \in Bindings /\ todo' = t
  BY <1>1 DEF Restores, Bindings
<1>4. PICK old, j : old = f.old /\ j = Len(old) + 1
  OBVIOUS
<1>5. /\ ast[k].t = "varin" /\ Len(old) \in Nat /\ DOMAIN old = 1 .. Len(old) /\ Len(kids) = j /\ j \in DOMAIN kids
  <2>1. /\ Tree.t = "varin" /\ Len(f.old) \in Nat /\ DOMAIN f.old = 1 .. Len(f.old)
        /\ Len(f.old) + 1 = Len(Tree.kids) /\ Len(f.old) + 1 \in 1 .. Len(Tree.kids)
    BY <1>1, <1>3, OldFacts
  <2>2. DOMAIN kids = 1 .. Len(kids)
    BY <1>1, <1>2, KidFacts
  <2>3. QED
    BY <1>1, <1>2, <1>4, <2>1, <2>2
<1>6. PICK m : m = names'
  OBVIOUS
<1>7. \A x \in Ident : m[x] = IF Own(x) = {} THEN names[x]
                              ELSE old[CHOOSE i \in Own(x) : \A l \in Own(x) : l <= i]
  BY <1>1, <1>4, <1>6 DEF Restores
<1>8. \A x : Own(x) = {i \in DOMAIN old : ast[kids[i]].n = x}
  BY <1>1, <1>2, <1>4 DEF Own
<1>9. ASSUME NEW x \in Ident, Own(x) # {} PROVE Means(x, Exit(f), m[x])
  <2>1. PICK T : T = Own(x)
    OBVIOUS
  <2>2. T \in SUBSET (1 .. Len(old)) /\ T # {}
    BY <1>5, <1>8, <1>9, <2>1
  <2>3. PICK i : i = CHOOSE h \in T : \A l \in T : l <= h
    OBVIOUS
  <2>4. i \in T
    BY <1>5, <2>2, <2>3, Largest
  <2>5. m[x] = old[i] /\ i \in DOMAIN old /\ ast[kids[i]].n = x
    BY <1>7, <1>8, <1>9, <2>1, <2>3, <2>4
  <2>6. QED
    BY <1>1, <1>2, <1>3, <1>4, <2>5 DEF KeptOk
<1>10. ASSUME NEW x \in Ident, Own(x) = {} PROVE Means(x, Exit(f), m[x])
  <2>1. PICK q : q = ast[kids[j]].from
    OBVIOUS
  <2>2. Entry(f) = q
    BY <1>1, <1>3, <1>4, <2>1 DEF Entry, Bindings
  <2>3. Means(x, q, names[x])
    BY <1>2, <2>2 DEF Knows
  <2>4. ASSUME NEW b \in Binders, b.n = x PROVE q \in b.scope <=> Exit(f) \in b.scope
    <3>1. ASSUME NEW p \in Declaring(k), b = KidBinder(k, p) PROVE FALSE
      <4>1. p \in 1 .. Len(kids) - 1 /\ Variable(k, p) = ast[kids[p]]
        BY <1>1, <1>5 DEF Declaring, Variable
      <4>2. ast[kids[p]].n = x
        BY <1>2, <2>4, <3>1, <4>1, DeclaringFacts
      <4>3. p \in DOMAIN old
        BY <1>4, <1>5, <4>1
      <4>4. QED
        BY <1>8, <1>10, <4>2, <4>3
    <3>2. ~ Adds(k, j, b)
      BY <3>1 DEF Adds
    <3>3. q \in b.scope <=> ast[k].from \in b.scope \/ Adds(k, j, b)
      BY <1>1, <1>2, <1>5, <2>1, KidScope
    <3>4. QED
      BY <1>2, <3>2, <3>3
  <2>5. m[x] = names[x]
    BY <1>7, <1>10
  <2>6. QED
    BY <2>3, <2>4, <2>5, MeansAlso
<1>11. Knows(m, Exit(f))
  BY <1>9, <1>10 DEF Knows
<1>12. QED
  BY <1>2, <1>3, <1>6, <1>11, ScopedPop

(* ScopesRespected, of some uses.                                          *)
Respected(U) ==
  \A u \in U : \E b \in Binders :
    Declares(b, u) /\ b.at = u[2] /\ \A o \in Binders : Declares(o, u) => o.at <= u[2]

LEMMA UseRespected ==
  ASSUME ReadOk, WholeOk, CodeOk(code), Frame.e \in DOMAIN ast, Knows(names, Exit(Frame)),
         NEW c, Uses(c), Respected(code.uses)
  PROVE  Respected(code'.uses)
<1>1. PICK p, v, n : p = ast[c].at /\ n = ast[c].n /\ v = names[n]
  OBVIOUS
<1>2. PICK u, U : u = <<p, v>> /\ U = code.uses \cup {u}
  OBVIOUS
<1>3. ast[c].t = "var" /\ v # 0 /\ Leads(c, Exit(Frame)) /\ c \in DOMAIN ast
  BY <1>1 DEF Uses, Exit, Leads
<1>4. code'.uses = U
  <2>1. code' = [code EXCEPT !.uses = U]
    BY <1>1, <1>2 DEF Uses
  <2>2. QED
    BY <2>1, UsesFacts
<1>5. n \in Ident /\ n = Tok(p) /\ p = ast[c].from
  BY <1>1, <1>3, KidFacts DEF NodeOk, Shape
<1>6. Means(n, p, v)
  <2>1. SamePlace(Exit(Frame), p)
    BY <1>3, <1>5, LeadsSame
  <2>2. Knows(names, p)
    BY <2>1, KnowsSame
  <2>3. QED
    BY <1>1, <1>5, <2>2 DEF Knows
<1>7. u[1] = p /\ u[2] = v
  BY <1>2
<1>8. \A b \in Binders : Declares(b, u) <=> b.n = n /\ p \in b.scope
  BY <1>5, <1>7 DEF Declares
<1>9. \E b \in Binders :
        Declares(b, u) /\ b.at = u[2] /\ \A o \in Binders : Declares(o, u) => o.at <= u[2]
  BY <1>3, <1>6, <1>7, <1>8 DEF Means
<1>10. QED
  BY <1>2, <1>4, <1>9 DEF Respected

LEMMA InsertUses ==
  ASSUME NEW c, CodeOk(c), NEW op, NEW args, NEW d, d = Insert(c, op, args)
  PROVE  d.uses = c.uses
<1>1. c = [blocks |-> c.blocks, inside |-> c.inside, at |-> c.at, uses |-> c.uses]
  BY DEF CodeOk
<1>2. d = [c EXCEPT !.blocks[c.at] = Append(@, [op |-> op, args |-> args])]
  BY DEF Insert
<1>3. QED
  BY <1>1, <1>2

LEMMA SameUses ==
  ASSUME GenOk, phase = "generating", todo # <<>>, ~ Returns,
         \/ (\E c, g : Descends(c, g)) \/ (\E g : Replaces(g))
         \/ Opens \/ Binds \/ Restores \/ Branches \/ Alternates \/ Merges \/ Loops \/ LoopEnds
  PROVE  code'.uses = code.uses
<1>1. PICK n, f : n = Len(code.blocks) /\ f = Frame
  OBVIOUS
<1>2. CodeOk(code) /\ JobOk(n, f) /\ n \in Nat /\ DOMAIN code.blocks = 1 .. n
  BY <1>1, GenFacts
<1>3. CASE (\E c, g : Descends(c, g)) \/ (\E g : Replaces(g)) \/ Opens \/ Binds \/ Restores
  BY <1>3 DEF Descends, Replaces, Opens, Binds, Restores
<1>4. CASE Branches
  <2>1. PICK args, m : args = <<n + 1, n + 2>> /\ m = 3
    OBVIOUS
  <2>2. code' = SetInsertPoint(Insert(CreateBlocks(code, m), "br", args), n + 1) /\ m \in Nat \ {0}
    BY <1>1, <1>4, <2>1 DEF Branches
  <2>3. Jumps(code, code', args, n + 1)
    BY <1>1, <1>2, <2>2, CreateJumps
  <2>4. QED
    BY <2>3 DEF Jumps
<1>5. CASE Alternates
  <2>1. PICK args, b : args = <<f.begin + 1>> /\ b = f.begin
    OBVIOUS
  <2>2. f.do = "else"
    BY <1>1, <1>5 DEF Alternates
  <2>3. code' = SetInsertPoint(Insert(code, "br", args), b) /\ b \in DOMAIN code.blocks
    BY <1>1, <1>2, <1>5, <2>1, <2>2 DEF Alternates, JobOk
  <2>4. Jumps(code, code', args, b)
    BY <1>2, <2>3, EnterJumps
  <2>5. QED
    BY <2>4 DEF Jumps
<1>6. CASE Merges
  <2>1. PICK args, b, d : args = <<f.merge>> /\ b = f.merge /\ d = SetInsertPoint(Insert(code, "br", args), b)
    OBVIOUS
  <2>2. f.do = "phi"
    BY <1>1, <1>6 DEF Merges
  <2>3. b \in DOMAIN code.blocks
    BY <1>2, <2>1, <2>2 DEF JobOk
  <2>4. CodeOk(d) /\ d.uses = code.uses
    BY <1>2, <2>1, <2>3, EnterJumps DEF Jumps
  <2>5. PICK op, two : op = "phi" /\ two = <<f.then, code.at>>
    OBVIOUS
  <2>6. PICK e : e = Insert(d, op, two)
    OBVIOUS
  <2>7. e.uses = d.uses
    BY <2>4, <2>6, InsertUses
  <2>8. code' = e
    BY <1>1, <1>6, <2>1, <2>5, <2>6 DEF Merges
  <2>9. QED
    BY <2>4, <2>7, <2>8
<1>7. CASE Loops \/ LoopEnds
  <2>1. PICK args, m : m = 1 /\ code' = SetInsertPoint(Insert(CreateBlocks(code, m), "br", args), n + 1)
    BY <1>1, <1>7 DEF Loops, LoopEnds
  <2>2. m \in Nat \ {0}
    BY <2>1
  <2>3. Jumps(code, code', args, n + 1)
    BY <1>1, <1>2, <2>1, <2>2, CreateJumps
  <2>4. QED
    BY <2>3 DEF Jumps
<1>8. QED
  BY <1>3, <1>4, <1>5, <1>6, <1>7

LEMMA StepScoped ==
  ASSUME GenOk, CodegenStep, ok', Distinct, Scoped(names, todo), Respected(code.uses)
  PROVE  Scoped(names', todo') /\ Respected(code'.uses)
<1>1. phase = "generating" /\ todo # <<>> /\ ~ Fails
  BY StepCases DEF Fails
<1>2. \/ Returns \/ (\E c, g : Descends(c, g)) \/ (\E g : Replaces(g)) \/ Opens \/ Binds \/ Restores
      \/ Branches \/ Alternates \/ Merges \/ Loops \/ LoopEnds
  BY <1>1, StepCases
<1>3. Scoped(names', todo')
  BY <1>1, <1>2, DeeperScoped, OpensScoped, BindsScoped, RestoresScoped, BranchesScoped, LoopsScoped,
     LoopEndsScoped
<1>4. Respected(code'.uses)
  <2>1. CASE Returns
    <3>1. CASE code' = code
      BY <3>1
    <3>2. CASE \E c : Uses(c)
      <4>1. PICK c : Uses(c)
        BY <3>2
      <4>2. /\ ReadOk /\ WholeOk /\ CodeOk(code) /\ Frame.e \in DOMAIN ast /\ Knows(names, Entry(Frame))
        BY <1>1, ScopedFrame, GenFacts
      <4>3. Plain(Frame)
        BY <2>1 DEF Returns, Plain, Makers
      <4>4. Entry(Frame) = Exit(Frame)
        BY <4>3, PlainFrames
      <4>5. QED
        BY <4>1, <4>2, <4>4, UseRespected
    <3>3. QED
      BY <2>1, <3>1, <3>2 DEF Returns
  <2>2. CASE ~ Returns
    <3>1. code'.uses = code.uses
      BY <1>1, <1>2, <2>2, SameUses
    <3>2. QED
      BY <3>1
  <2>3. QED
    BY <2>1, <2>2
<1>5. QED
  BY <1>3, <1>4

-----------------------------------------------------------------------------
(* Where the body of a function begins, its arguments are all there is.    *)
LEMMA WholeScope ==
  ASSUME ReadOk, WholeOk, NEW b \in Binders
  PROVE  ast[val].from \in b.scope <=> \E i \in DOMAIN proto.args : b = ArgBinder(i)
<1>1. PICK q : q = ast[val].from
  OBVIOUS
<1>2. val \in DOMAIN ast /\ q \in Nat /\ ast[val].to \in Nat /\ q <= ast[val].to /\ proto.at <= q /\ proto.at \in Nat
  BY <1>1, PlaceFacts DEF WholeOk, ReadOk, ProtoOk
<1>3. ASSUME NEW i \in DOMAIN proto.args, b = ArgBinder(i) PROVE q \in b.scope
  <2>1. q \in ArgBinder(i).scope <=> ast[val].from <= q /\ q <= ast[val].to
    BY <1>2, ArgFacts
  <2>2. QED
    BY <1>1, <1>2, <1>3, <2>1
<1>4. ASSUME NEW m \in DOMAIN ast, NEW p \in Declaring(m), b = KidBinder(m, p) PROVE q \notin b.scope
  <2>1. p \in DOMAIN ast[m].kids /\ (q \in b.scope <=> Behind(m, p, q))
    BY <1>2, <1>4, DeclaringFacts
  <2>2. PICK c : c = ast[m].kids[p]
    OBVIOUS
  <2>3. /\ ast[c].from \in Nat /\ ast[c].to \in Nat /\ ast[c].from <= ast[c].to
        /\ ast[m].from <= ast[c].from /\ ast[c].to <= ast[m].to /\ ast[m].from \in Nat /\ ast[m].to \in Nat
    BY <2>1, <2>2, KidPlaces
  <2>4. ast[m].to < proto.at \/ q <= ast[m].from
    BY <1>1 DEF WholeOk, Inside
  <2>5. ~ (ast[c].to < q /\ q <= ast[m].to)
    BY <1>2, <2>3, <2>4
  <2>6. QED
    BY <2>1, <2>2, <2>5 DEF Behind
<1>5. QED
  BY <1>1, <1>3, <1>4, BindersAre

LEMMA ArgumentsKnown ==
  ASSUME ReadOk, WholeOk
  PROVE  Knows(ArgumentAllocas(proto.args), ast[val].from)
<1>1. PICK args, q, m : args = proto.args /\ q = ast[val].from /\ m = ArgumentAllocas(args)
  OBVIOUS
<1> DEFINE own(x) == {i \in DOMAIN args : Tok(args[i]) = x}
<1>2. \A x \in Ident : m[x] = IF own(x) = {} THEN 0 ELSE args[CHOOSE i \in own(x) : \A j \in own(x) : j <= i]
  BY <1>1 DEF ArgumentAllocas, Bound
<1>3. /\ Len(args) \in Nat /\ DOMAIN args = 1 .. Len(args)
      /\ \A j, k \in DOMAIN args : j <= k => args[j] <= args[k]
  BY <1>1 DEF ReadOk, ProtoOk
<1>4. \A i \in DOMAIN args : /\ ArgBinder(i).n = Tok(args[i]) /\ ArgBinder(i).at = args[i] /\ args[i] \in Nat
                             /\ ArgBinder(i) \in Binders /\ q \in ArgBinder(i).scope
  BY <1>1, ArgFacts, BindersAre, WholeScope
<1>5. \A b \in Binders : q \in b.scope => \E i \in DOMAIN args : b = ArgBinder(i)
  BY <1>1, WholeScope
<1>6. ASSUME NEW x \in Ident PROVE Means(x, q, m[x])
  <2>1. PICK T : T = own(x)
    OBVIOUS
  <2>2. T \in SUBSET (1 .. Len(args)) /\ T \subseteq DOMAIN args
    BY <1>3, <2>1
  <2>3. \A i \in DOMAIN args : i \in T <=> Tok(args[i]) = x
    BY <2>1
  <2>4. m[x] = IF T = {} THEN 0 ELSE args[CHOOSE i \in T : \A j \in T : j <= i]
    BY <1>2, <2>1
  <2> HIDE DEF own
  <2>5. CASE T = {}
    <3>1. m[x] = 0
      BY <2>4, <2>5
    <3>2. ~ \E b \in Binders : b.n = x /\ q \in b.scope
      BY <1>4, <1>5, <2>3, <2>5
    <3>3. QED
      BY <3>1, <3>2 DEF Means
  <2>6. CASE T # {}
    <3>1. PICK i : i = CHOOSE h \in T : \A j \in T : j <= h
      OBVIOUS
    <3>2. i \in T /\ \A j \in T : j <= i
      BY <1>3, <2>2, <2>6, <3>1, Largest
    <3>3. m[x] = args[i] /\ i \in DOMAIN args /\ Tok(args[i]) = x
      BY <2>2, <2>3, <2>4, <2>6, <3>1, <3>2
    <3>4. ASSUME NEW b \in Binders, b.n = x, q \in b.scope PROVE b.at <= m[x]
      <4>1. PICK j \in DOMAIN args : b = ArgBinder(j)
        BY <1>5, <3>4
      <4>2. j \in T /\ b.at = args[j]
        BY <1>4, <2>3, <3>4, <4>1
      <4>3. args[j] <= args[i]
        BY <1>3, <3>2, <3>3, <4>2
      <4>4. QED
        BY <3>3, <4>2, <4>3
    <3>5. QED
      BY <1>4, <3>3, <3>4 DEF Means
  <2>7. QED
    BY <2>5, <2>6
<1>7. QED
  BY <1>1, <1>6 DEF Knows

LEMMA NewScoped ==
  ASSUME ReadOk, WholeOk, NEW m, m = ArgumentAllocas(proto.args)
  PROVE  Scoped(m, <<Job("codegen", val)>>)
<1>1. PICK f, t : f = Job("codegen", val) /\ t = <<>>
  OBVIOUS
<1>2. IsSeq(t) /\ DOMAIN t = {}
  BY <1>1, <<>> \in Seq({}) DEF IsSeq
<1>3. Linked(f, t) /\ Chain(t)
  BY <1>1, <1>2 DEF Linked, Chain
<1>4. KeptOk(f) /\ Entry(f) = ast[val].from
  BY <1>1, CodegenPlain, PlainFrames
<1>5. Scoped(m, Push(f, t))
  BY <1>2, <1>3, <1>4, ArgumentsKnown, ScopedPush
<1>6. <<f>> = Push(f, t)
  <2>1. IsSeq(<<f>>)
    BY <<f>> \in Seq({f}) DEF IsSeq
  <2>2. PICK S : <<f>> \in Seq(S)
    BY <2>1 DEF IsSeq
  <2>3. <<f>> \o <<>> = <<f>>
    BY <2>2, ConcatEmptySeq
  <2>4. QED
    BY <1>1, <2>3 DEF Push
<1>7. QED
  BY <1>1, <1>5, <1>6

LEMMA SameScoped ==
  ASSUME UNCHANGED <<toks, ast, val, proto>>
  PROVE  /\ \A n, t : Scoped(n, t)' <=> Scoped(n, t)
         /\ \A U : Respected(U)' <=> Respected(U)
         /\ Distinct' <=> Distinct
<1>1. Binders' = Binders
  BY SameTokens DEF Binders, Nodes
<1>2. \A x, p, v : Means(x, p, v)' <=> Means(x, p, v)
  BY <1>1 DEF Means
<1>3. \A p, q : SamePlace(p, q)' <=> SamePlace(p, q)
  BY <1>1 DEF SamePlace
<1>4. \A f : Entry(f)' = Entry(f) /\ Exit(f)' = Exit(f)
  BY DEF Entry, Exit
<1>5. \A f : KeptOk(f)' <=> KeptOk(f)
  BY <1>2, <1>4 DEF KeptOk
<1>6. \A t : Chain(t)' <=> Chain(t)
  BY <1>3, <1>4, <1>5 DEF Chain
<1>7. \A n, p : Knows(n, p)' <=> Knows(n, p)
  BY <1>2 DEF Knows
<1>8. \A n, t : Scoped(n, t)' <=> Scoped(n, t)
  BY <1>4, <1>6, <1>7 DEF Scoped
<1>9. \A u : Tok(u[1])' = Tok(u[1])
  BY SameTokens
<1>10. \A b, u : Declares(b, u)' <=> Declares(b, u)
  BY <1>9 DEF Declares
<1>11. \A U : Respected(U)' <=> Respected(U)
  BY <1>1, <1>10 DEF Respected
<1>12. Distinct' <=> Distinct
  BY DEF Distinct, Nodes
<1>13. QED
  BY <1>8, <1>11, <1>12

NamesOk ==
  /\ GenOk
  /\ phase = "generating" /\ ok /\ AllLeft(todo) /\ Distinct => Scoped(names, todo) /\ Respected(code.uses)
  /\ LexicalScope

LEMMA RespectedIs == ScopesRespected <=> Respected(code.uses)
BY DEF ScopesRespected, Respected

LEMMA NamesInit ==
  ASSUME Init
  PROVE  NamesOk
BY GenInit DEF Init, NamesOk, LexicalScope, Generated

LEMMA NamesNext ==
  ASSUME NamesOk, [Next]_vars
  PROVE  NamesOk'
<1>1. GenOk /\ GenOk' /\ LexicalScope
  BY GenNext DEF NamesOk
<1>2. ScopesRespected' <=> Respected(code.uses)'
  BY DEF ScopesRespected, Respected
<1>3. CASE phase = "ready" /\ phase' = "ready" /\ UNCHANGED <<toks, ast, val, proto, ok, code>>
  <2>1. (Respected(code.uses)' <=> Respected(code.uses)) /\ (Distinct' <=> Distinct)
    BY <1>3, SameScoped
  <2>2. LexicalScope'
    BY <1>1, <1>2, <1>3, <2>1, RespectedIs DEF LexicalScope, Generated
  <2>3. QED
    BY <1>1, <1>3, <2>2 DEF NamesOk
<1>4. CASE phase' \notin {"ready", "generating"} \/ (phase' = "ready" /\ ~ ok')
  BY <1>1, <1>4 DEF NamesOk, LexicalScope, Generated
<1>5. CASE HandleDefinition \/ HandleExtern \/ HandleTopLevelExpression \/ SkipSemicolon
  BY <1>3, <1>4, <1>5
    DEF HandleDefinition, HandleExtern, HandleTopLevelExpression, SkipSemicolon, Round, GoOn, ParseBody
<1>6. CASE UNCHANGED vars
  <2>1. UNCHANGED <<toks, ast, val, proto, ok, code, names, todo, phase>>
    BY <1>6 DEF vars
  <2>2. /\ Scoped(names, todo)' <=> Scoped(names, todo)
        /\ Respected(code.uses)' <=> Respected(code.uses)
        /\ Distinct' <=> Distinct
    <3>1. PICK n, t, U : n = names /\ t = todo /\ U = code.uses
      OBVIOUS
    <3>2. names' = names /\ todo' = todo /\ code' = code
      BY <2>1
    <3>3. (Scoped(n, t)' <=> Scoped(n, t)) /\ (Respected(U)' <=> Respected(U)) /\ (Distinct' <=> Distinct)
      BY <2>1, SameScoped
    <3>4. QED
      BY <2>1, SameScoped
  <2>3. AllLeft(todo') <=> AllLeft(todo)
    BY <2>1
  <2>4. LexicalScope'
    BY <1>1, <1>2, <2>1, <2>2, RespectedIs DEF LexicalScope, Generated
  <2>5. QED
    BY <1>1, <2>1, <2>2, <2>3, <2>4 DEF NamesOk
<1>7. CASE ParseStep
  BY <1>4, <1>7 DEF ParseStep
<1>8. CASE ParseFailed \/ Refuse \/ AssignUndefined
  BY <1>1, <1>4, <1>8 DEF ParseFailed, Refuse, AssignUndefined, Parsed, GoOn, GenOk
<1>9. CASE FunctionCodegen
  <2>1. /\ phase' = "generating" /\ code' = NewFunction /\ todo' = <<Job("codegen", val)>> /\ Parsed /\ val # 0
        /\ names' = ArgumentAllocas(proto.args) /\ UNCHANGED <<toks, ast, val, proto>>
    BY <1>9 DEF FunctionCodegen, Codegen, Job
  <2>2. ReadOk /\ WholeOk
    BY <1>1, <2>1, WholeRead DEF GenOk
  <2>3. Scoped(names', todo')
    BY <2>1, <2>2, NewScoped
  <2>4. Respected(code'.uses)
    BY <2>1, NewFunctionOk DEF Respected
  <2>5. Scoped(names, todo)' /\ Respected(code.uses)'
    BY <2>1, <2>3, <2>4, SameScoped
  <2>6. QED
    BY <1>1, <2>1, <2>5 DEF NamesOk, LexicalScope, Generated
<1>10. CASE CodegenStep
  <2>1. phase = "generating" /\ phase' = "generating" /\ UNCHANGED <<toks, ast, val, proto>>
    BY <1>1, <1>10, StepCases
  <2>2. ASSUME ok', AllLeft(todo'), Distinct' PROVE Scoped(names, todo)' /\ Respected(code.uses)'
    <3>1. ok /\ AllLeft(todo) /\ Distinct
      BY <1>1, <1>10, <2>1, <2>2, StillLeft, SameScoped
    <3>2. Scoped(names, todo) /\ Respected(code.uses)
      BY <2>1, <3>1 DEF NamesOk
    <3>3. Scoped(names', todo') /\ Respected(code'.uses)
      BY <1>1, <1>10, <2>2, <3>1, <3>2, StepScoped
    <3>4. QED
      BY <2>1, <3>3, SameScoped
  <2>3. QED
    BY <1>1, <2>1, <2>2 DEF NamesOk, LexicalScope, Generated
<1>11. CASE EndFunction
  <2>1. /\ phase = "generating" /\ phase' = "ready" /\ todo = <<>> /\ ok' = ok
        /\ (ok => code' = Insert(code, "ret", <<>>)) /\ UNCHANGED <<toks, ast, val, proto>>
    BY <1>11 DEF EndFunction
  <2>2. ASSUME ok, Distinct' PROVE ScopesRespected'
    <3>1. AllLeft(todo) /\ Distinct
      BY <2>1, <2>2, SameScoped DEF AllLeft, Frames
    <3>2. Respected(code.uses)
      BY <2>1, <2>2, <3>1 DEF NamesOk
    <3>3. code'.uses = code.uses
      <4>1. PICK op, args, d : op = "ret" /\ args = <<>> /\ d = Insert(code, op, args)
        OBVIOUS
      <4>2. d.uses = code.uses
        BY <1>1, <4>1, InsertUses DEF GenOk
      <4>3. QED
        BY <2>1, <2>2, <4>1, <4>2
    <3>4. QED
      BY <1>2, <2>1, <3>2, <3>3, SameScoped
  <2>3. QED
    BY <1>1, <2>1, <2>2 DEF NamesOk, LexicalScope, Generated
<1>12. QED
  BY <1>5, <1>6, <1>7, <1>8, <1>9, <1>10, <1>11 DEF Next

(* In a function that is generated without an error every name is the      *)
(* variable of the innermost scope it is in, whatever is typed.            *)
THEOREM NamesScoped == Spec => []LexicalScope
<1>1. Init => NamesOk
  BY NamesInit
<1>2. NamesOk /\ [Next]_vars => NamesOk'
  BY NamesNext
<1>3. NamesOk => LexicalScope
  BY DEF NamesOk
<1>4. QED
  BY <1>1, <1>2, <1>3, PTL DEF Spec
=============================================================================

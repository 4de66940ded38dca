----------------------------- MODULE SimlangProofs -----------------------------
(***************************************************************************)
(* Proofs about the simlang compiler: for trees of any size and shape, the *)
(* blocks it makes are closed, the program stays in them, and the compiler *)
(* follows NULL only for a name it does not know.                          *)
(***************************************************************************)
EXTENDS Simlang, TLAPS

-----------------------------------------------------------------------------
(* Contexts and what the functions of the builder do to their fields.      *)
Fields == {"dict", "slots", "blocks", "inside", "at", "regs", "val", "unknown"}
IsContext(c) == c = [f \in Fields |-> c[f]]

SameBlocks(c, s) ==
  c.blocks = s.blocks /\ c.inside = s.inside /\ c.at = s.at /\ c.unknown = s.unknown

LEMMA InsertContext ==
  ASSUME NEW s, IsContext(s), NEW i
  PROVE  /\ IsContext(Insert(s, i))
         /\ Insert(s, i).blocks = [s.blocks EXCEPT ![s.at] = Append(@, i)]
         /\ Insert(s, i).inside = s.inside /\ Insert(s, i).at = s.at
         /\ Insert(s, i).val = s.val /\ Insert(s, i).unknown = s.unknown
BY DEF Insert, IsContext, Fields

LEMMA Emit1Context ==
  ASSUME NEW s, IsContext(s), NEW op, NEW args
  PROVE  /\ IsContext(Emit1(s, op, args))
         /\ SameBlocks(Emit1(s, op, args), Insert(s, Instr(op, s.regs + 1, args)))
         /\ Emit1(s, op, args).val # Null
<1> DEFINE t == Insert(s, Instr(op, s.regs + 1, args))
<1>1. IsContext(t)
  BY InsertContext
<1>2. Emit1(s, op, args) = [t EXCEPT !.regs = @ + 1, !.val = Reg(s.regs + 1)]
  BY DEF Emit1
<1> HIDE DEF t
<1>3. /\ IsContext(Emit1(s, op, args))
      /\ SameBlocks(Emit1(s, op, args), t)
      /\ Emit1(s, op, args).val = Reg(s.regs + 1)
  BY <1>1, <1>2 DEF IsContext, Fields, SameBlocks
<1>4. Reg(s.regs + 1) # Null
  BY DEF Reg, Null
<1>5. QED
  BY <1>3, <1>4 DEF t

LEMMA ReturnsContext ==
  ASSUME NEW s, IsContext(s), NEW v
  PROVE  IsContext(Returns(s, v)) /\ SameBlocks(Returns(s, v), s) /\ Returns(s, v).val = v
BY DEF Returns, IsContext, Fields, SameBlocks

LEMMA AllocaContext ==
  ASSUME NEW s, IsContext(s), NEW x
  PROVE  /\ IsContext(CreateEntryBlockAlloca(s, x))
         /\ SameBlocks(CreateEntryBlockAlloca(s, x), s)
         /\ CreateEntryBlockAlloca(s, x).val = s.val
BY DEF CreateEntryBlockAlloca, IsContext, Fields, SameBlocks

LEMMA CreateContext ==
  ASSUME NEW s, IsContext(s)
  PROVE  /\ IsContext(CreateBlocks(s, 3))
         /\ CreateBlocks(s, 3).blocks = s.blocks \o [i \in 1 .. 3 |-> <<>>]
         /\ CreateBlocks(s, 3).inside = s.inside /\ CreateBlocks(s, 3).at = s.at
         /\ CreateBlocks(s, 3).val = s.val /\ CreateBlocks(s, 3).unknown = s.unknown
BY DEF CreateBlocks, IsContext, Fields

LEMMA SetInsertPointContext ==
  ASSUME NEW s, IsContext(s), NEW b
  PROVE  /\ IsContext(SetInsertPoint(s, b))
         /\ SetInsertPoint(s, b).blocks = s.blocks
         /\ SetInsertPoint(s, b).inside = s.inside \cup {b} /\ SetInsertPoint(s, b).at = b
         /\ SetInsertPoint(s, b).val = s.val /\ SetInsertPoint(s, b).unknown = s.unknown
BY DEF SetInsertPoint, IsContext, Fields

-----------------------------------------------------------------------------
(* Frames.  A frame enters blocks; those that it may enter are its own; a  *)
(* loop goes back to a block that is there.                                *)
Enters(f) == IF f.do = "else" THEN {f.begin, f.merge}
             ELSE IF f.do = "merge" THEN {f.merge}
             ELSE IF f.do = "after" THEN {f.after} ELSE {}
Owns(f) == IF f.do = "loop" THEN {f.begin, f.after} ELSE Enters(f)
Back(f) == IF f.do \in {"loop", "after"} THEN {f.cond} ELSE {}
FrameOk(f) == /\ f.do = "else" => f.begin # f.merge
              /\ f.do = "loop" => f.begin # f.after

Entered(t) == UNION {Enters(t[k]) : k \in DOMAIN t}
Owned(t) == UNION {Owns(t[k]) : k \in DOMAIN t}

(* What a frame keeps of a left operand is NULL only for an unknown name.  *)
LeftFits(f, unknown) == f.do = "binary" /\ f.left = Null => unknown

Frames(t, inside, outside, unknown) ==
  /\ \E T : t \in Seq(T)
  /\ \A k \in DOMAIN t : /\ FrameOk(t[k]) /\ LeftFits(t[k], unknown)
                         /\ Owns(t[k]) \subseteq outside /\ Back(t[k]) \subseteq inside
  /\ \A j, k \in DOMAIN t : j # k => Owns(t[j]) \cap Owns(t[k]) = {}

LEMMA EntersOwn == \A f : Enters(f) \subseteq Owns(f)
BY DEF Enters, Owns

LEMMA TailFacts ==
  ASSUME NEW T, NEW t \in Seq(T), t # <<>>
  PROVE  /\ Tail(t) \in Seq(T) /\ 1 \in DOMAIN t /\ Head(t) = t[1]
         /\ \A k \in DOMAIN Tail(t) : k + 1 \in DOMAIN t /\ k + 1 # 1 /\ Tail(t)[k] = t[k + 1]
         /\ \A k \in DOMAIN t : k = 1 \/ (k - 1 \in DOMAIN Tail(t) /\ Tail(t)[k - 1] = t[k])
OBVIOUS

LEMMA PushFacts ==
  ASSUME NEW T, NEW t \in Seq(T), NEW f
  PROVE  LET r == <<f>> \o t
         IN  /\ r \in Seq(T \cup {f}) /\ 1 \in DOMAIN r /\ r[1] = f
             /\ \A k \in DOMAIN r : k # 1 => k - 1 \in DOMAIN t /\ r[k] = t[k - 1]
             /\ \A k \in DOMAIN t : k + 1 \in DOMAIN r /\ r[k + 1] = t[k]
<1>1. t \in Seq(T \cup {f}) /\ <<f>> \in Seq(T \cup {f})
  OBVIOUS
<1>2. QED
  BY <1>1

LEMMA PopFrames ==
  ASSUME NEW inside, NEW outside, NEW unknown, NEW t, t # <<>>,
         Frames(t, inside, outside, unknown)
  PROVE  /\ Frames(Tail(t), inside, outside, unknown)
         /\ FrameOk(Head(t)) /\ LeftFits(Head(t), unknown)
         /\ Owns(Head(t)) \subseteq outside /\ Back(Head(t)) \subseteq inside
         /\ Owns(Head(t)) \cap Owned(Tail(t)) = {}
         /\ Entered(t) \subseteq Enters(Head(t)) \cup Entered(Tail(t))
<1>1. PICK T : t \in Seq(T)
  BY DEF Frames
<1>2. /\ Tail(t) \in Seq(T) /\ 1 \in DOMAIN t /\ Head(t) = t[1]
      /\ \A k \in DOMAIN Tail(t) : k + 1 \in DOMAIN t /\ k + 1 # 1 /\ Tail(t)[k] = t[k + 1]
      /\ \A k \in DOMAIN t : k = 1 \/ (k - 1 \in DOMAIN Tail(t) /\ Tail(t)[k - 1] = t[k])
  BY <1>1, TailFacts
<1>3. \A k \in DOMAIN Tail(t) : k \in Nat
  BY <1>2
<1>4. \A j, k \in DOMAIN Tail(t) : j # k => j + 1 # k + 1
  BY <1>3
<1>5. Frames(Tail(t), inside, outside, unknown)
  <2>1. ASSUME NEW j \in DOMAIN Tail(t), NEW k \in DOMAIN Tail(t), j # k
        PROVE  Owns(Tail(t)[j]) \cap Owns(Tail(t)[k]) = {}
    <3>1. j + 1 \in DOMAIN t /\ k + 1 \in DOMAIN t /\ j + 1 # k + 1
      BY <1>2, <1>4, <2>1
    <3>2. Owns(t[j + 1]) \cap Owns(t[k + 1]) = {}
      BY <3>1 DEF Frames
    <3>3. QED
      BY <1>2, <3>2
  <2>2. ASSUME NEW k \in DOMAIN Tail(t)
        PROVE  /\ FrameOk(Tail(t)[k]) /\ LeftFits(Tail(t)[k], unknown)
               /\ Owns(Tail(t)[k]) \subseteq outside /\ Back(Tail(t)[k]) \subseteq inside
    <3>1. k + 1 \in DOMAIN t /\ Tail(t)[k] = t[k + 1]
      BY <1>2
    <3>2. QED
      BY <3>1 DEF Frames
  <2>3. QED
    BY <1>2, <2>1, <2>2, Zenon DEF Frames
<1>6. /\ FrameOk(Head(t)) /\ LeftFits(Head(t), unknown)
      /\ Owns(Head(t)) \subseteq outside /\ Back(Head(t)) \subseteq inside
  BY <1>2 DEF Frames
<1>7. Owns(Head(t)) \cap Owned(Tail(t)) = {}
  <2>1. ASSUME NEW k \in DOMAIN Tail(t) PROVE Owns(Head(t)) \cap Owns(Tail(t)[k]) = {}
    <3>1. k + 1 \in DOMAIN t /\ 1 \in DOMAIN t /\ 1 # k + 1
      BY <1>2
    <3>2. Owns(t[1]) \cap Owns(t[k + 1]) = {}
      BY <3>1 DEF Frames
    <3>3. QED
      BY <1>2, <3>2
  <2>2. QED
    BY <2>1 DEF Owned
<1>8. Entered(t) \subseteq Enters(Head(t)) \cup Entered(Tail(t))
  <2>1. ASSUME NEW k \in DOMAIN t
        PROVE  Enters(t[k]) \subseteq Enters(Head(t)) \cup Entered(Tail(t))
    <3>1. CASE k = 1
      BY <1>2, <3>1
    <3>2. CASE k - 1 \in DOMAIN Tail(t) /\ Tail(t)[k - 1] = t[k]
      BY <3>2, Zenon DEF Entered
    <3>3. QED
      BY <1>2, <3>1, <3>2
  <2>2. QED
    BY <2>1 DEF Entered
<1>9. QED
  BY <1>5, <1>6, <1>7, <1>8

LEMMA PushFrames ==
  ASSUME NEW inside, NEW outside, NEW unknown, NEW t, Frames(t, inside, outside, unknown),
         NEW f, FrameOk(f), LeftFits(f, unknown),
         Owns(f) \subseteq outside, Back(f) \subseteq inside, Owns(f) \cap Owned(t) = {}
  PROVE  /\ Frames(<<f>> \o t, inside, outside, unknown)
         /\ Enters(f) \subseteq Entered(<<f>> \o t) /\ Entered(t) \subseteq Entered(<<f>> \o t)
         /\ Owned(<<f>> \o t) \subseteq Owns(f) \cup Owned(t)
<1> DEFINE r == <<f>> \o t
<1>1. PICK T : t \in Seq(T)
  BY DEF Frames
<1>2. /\ r \in Seq(T \cup {f}) /\ 1 \in DOMAIN r /\ r[1] = f
      /\ \A k \in DOMAIN r : k # 1 => k - 1 \in DOMAIN t /\ r[k] = t[k - 1]
      /\ \A k \in DOMAIN t : k + 1 \in DOMAIN r /\ r[k + 1] = t[k]
  BY <1>1, PushFacts
<1>3. \A k \in DOMAIN r : k \in Nat
  BY <1>2
<1> HIDE DEF r
<1>4. \A k \in DOMAIN r : /\ FrameOk(r[k]) /\ LeftFits(r[k], unknown)
                          /\ Owns(r[k]) \subseteq outside /\ Back(r[k]) \subseteq inside
  <2>1. TAKE k \in DOMAIN r
  <2>2. CASE k = 1
    BY <1>2, <2>2
  <2>3. CASE k # 1
    <3>1. k - 1 \in DOMAIN t /\ r[k] = t[k - 1]
      BY <1>2, <2>3
    <3>2. QED
      BY <3>1 DEF Frames
  <2>4. QED
    BY <2>2, <2>3
<1>5. ASSUME NEW k \in DOMAIN t PROVE Owns(f) \cap Owns(t[k]) = {}
  BY Zenon DEF Owned
<1>6. ASSUME NEW j \in DOMAIN r, NEW k \in DOMAIN r, j # k
      PROVE  Owns(r[j]) \cap Owns(r[k]) = {}
  <2>1. CASE j = 1
    <3>1. k - 1 \in DOMAIN t /\ r[k] = t[k - 1] /\ r[j] = f
      BY <1>2, <1>6, <2>1
    <3>2. QED
      BY <1>5, <3>1
  <2>2. CASE k = 1
    <3>1. j - 1 \in DOMAIN t /\ r[j] = t[j - 1] /\ r[k] = f
      BY <1>2, <1>6, <2>2
    <3>2. QED
      BY <1>5, <3>1
  <2>3. CASE j # 1 /\ k # 1
    <3>1. j - 1 \in DOMAIN t /\ k - 1 \in DOMAIN t /\ r[j] = t[j - 1] /\ r[k] = t[k - 1]
      BY <1>2, <2>3
    <3>2. j - 1 # k - 1
      BY <1>3, <1>6
    <3>3. QED
      BY <3>1, <3>2 DEF Frames
  <2>4. QED
    BY <2>1, <2>2, <2>3
<1>7. Frames(r, inside, outside, unknown)
  BY <1>2, <1>4, <1>6, Zenon DEF Frames
<1>8. Enters(f) \subseteq Entered(r) /\ Entered(t) \subseteq Entered(r)
  <2>1. Enters(r[1]) \subseteq Entered(r)
    BY <1>2, Zenon DEF Entered
  <2>2. ASSUME NEW k \in DOMAIN t PROVE Enters(t[k]) \subseteq Entered(r)
    <3>1. k + 1 \in DOMAIN r /\ r[k + 1] = t[k]
      BY <1>2
    <3>2. Enters(r[k + 1]) \subseteq Entered(r)
      BY <3>1, Zenon DEF Entered
    <3>3. QED
      BY <3>1, <3>2
  <2>3. Entered(t) \subseteq Entered(r)
    BY <2>2 DEF Entered
  <2>4. QED
    BY <1>2, <2>1, <2>3
<1>9. Owned(r) \subseteq Owns(f) \cup Owned(t)
  <2>1. ASSUME NEW k \in DOMAIN r PROVE Owns(r[k]) \subseteq Owns(f) \cup Owned(t)
    <3>1. CASE k = 1
      BY <1>2, <3>1
    <3>2. CASE k # 1
      <4>1. k - 1 \in DOMAIN t /\ r[k] = t[k - 1]
        BY <1>2, <3>2
      <4>2. Owns(t[k - 1]) \subseteq Owned(t)
        BY <4>1, Zenon DEF Owned
      <4>3. QED
        BY <4>1, <4>2
    <3>3. QED
      BY <3>1, <3>2
  <2>2. QED
    BY <2>1 DEF Owned
<1>10. QED
  BY <1>7, <1>8, <1>9 DEF r

-----------------------------------------------------------------------------
(* Blocks.  The block at the insertion point has no terminator yet, one    *)
(* that has not been entered is empty, the others are closed, and go to    *)
(* blocks that are there, that a frame will enter, or that are due.        *)
Straight(is) == \A i \in DOMAIN is : is[i].op \notin Terminators

BlocksOk(c) ==
  /\ \E S : c.blocks \in Seq(Seq(S))
  /\ 1 \in c.inside /\ c.at \in c.inside /\ c.inside \subseteq DOMAIN c.blocks
  /\ \A b \in DOMAIN c.blocks : b \in c.inside \/ c.blocks[b] = <<>>
  /\ Straight(c.blocks[c.at])
AllClosed(c, to) == \A b \in c.inside : b = c.at \/ Closed(c.blocks[b], to)
Outside(c) == DOMAIN c.blocks \ c.inside

Layout(c, t, due) ==
  /\ BlocksOk(c)
  /\ AllClosed(c, c.inside \cup Entered(t) \cup due)
  /\ Frames(t, c.inside, Outside(c), c.unknown)

LEMMA AppendFacts ==
  ASSUME NEW S, NEW is \in Seq(S), NEW i
  PROVE  /\ Append(is, i) \in Seq(S \cup {i}) /\ Len(Append(is, i)) = Len(is) + 1
         /\ DOMAIN Append(is, i) = 1 .. Len(is) + 1 /\ DOMAIN is = 1 .. Len(is)
         /\ Append(is, i)[Len(is) + 1] = i
         /\ \A k \in 1 .. Len(is) : Append(is, i)[k] = is[k]
<1>1. is \in Seq(S \cup {i})
  OBVIOUS
<1>2. QED
  BY <1>1

LEMMA ConcatFacts ==
  ASSUME NEW T, NEW a \in Seq(T), NEW b \in Seq(T)
  PROVE  /\ a \o b \in Seq(T) /\ Len(a) \in Nat /\ Len(b) \in Nat
         /\ DOMAIN (a \o b) = 1 .. Len(a) + Len(b) /\ DOMAIN a = 1 .. Len(a)
         /\ \A k \in 1 .. Len(a) : (a \o b)[k] = a[k]
         /\ \A k \in 1 .. Len(b) : (a \o b)[k + Len(a)] = b[k]
OBVIOUS

LEMMA StraightAppend ==
  ASSUME NEW S, NEW is \in Seq(S), Straight(is), NEW i, i.op \notin Terminators
  PROVE  Straight(Append(is, i))
BY AppendFacts DEF Straight

LEMMA ClosedAppend ==
  ASSUME NEW S, NEW is \in Seq(S), Straight(is), NEW i, i.op \in Terminators,
         NEW to, Targets(i) \subseteq to
  PROVE  Closed(Append(is, i), to)
<1> DEFINE r == Append(is, i)
<1>1. /\ Len(r) = Len(is) + 1 /\ Len(is) \in Nat
      /\ DOMAIN r = 1 .. Len(is) + 1 /\ DOMAIN is = 1 .. Len(is)
      /\ r[Len(is) + 1] = i
      /\ \A k \in 1 .. Len(is) : r[k] = is[k]
  BY AppendFacts
<1> HIDE DEF r
<1>2. r # <<>>
  BY <1>1
<1>3. ASSUME NEW k \in DOMAIN r PROVE r[k].op \in Terminators <=> k = Len(r)
  <2>1. CASE k = Len(r)
    BY <1>1, <2>1
  <2>2. CASE k # Len(r)
    <3>1. k \in 1 .. Len(is)
      BY <1>1, <2>2
    <3>2. r[k] = is[k] /\ k \in DOMAIN is
      BY <1>1, <3>1
    <3>3. QED
      BY <2>2, <3>2 DEF Straight
  <2>3. QED
    BY <2>1, <2>2
<1>4. QED
  BY <1>1, <1>2, <1>3, Zenon DEF Closed, r

LEMMA ClosedMore ==
  ASSUME NEW is, NEW to, Closed(is, to), NEW more, to \subseteq more
  PROVE  Closed(is, more)
BY Zenon DEF Closed

(* An instruction inserted at the insertion point.                         *)
LEMMA InsertFacts ==
  ASSUME NEW c, IsContext(c), BlocksOk(c), NEW i
  PROVE  LET d == Insert(c, i)
         IN  /\ \E S : d.blocks \in Seq(Seq(S))
             /\ DOMAIN d.blocks = DOMAIN c.blocks
             /\ d.blocks[c.at] = Append(c.blocks[c.at], i)
             /\ \A b \in DOMAIN c.blocks : b # c.at => d.blocks[b] = c.blocks[b]
             /\ \E S : c.blocks[c.at] \in Seq(S)
<1> DEFINE bs == c.blocks
           ds == [bs EXCEPT ![c.at] = Append(@, i)]
<1>1. Insert(c, i).blocks = ds
  BY InsertContext
<1>2. PICK S : bs \in Seq(Seq(S))
  BY DEF BlocksOk
<1>3. c.at \in DOMAIN bs
  BY DEF BlocksOk
<1> HIDE DEF bs
<1>4. bs[c.at] \in Seq(S)
  BY <1>2, <1>3
<1>5. Append(bs[c.at], i) \in Seq(S \cup {i})
  BY <1>4, AppendFacts
<1>6. bs \in Seq(Seq(S \cup {i}))
  <2>1. Seq(S) \subseteq Seq(S \cup {i})
    OBVIOUS
  <2>2. QED
    BY <1>2, <2>1
<1>7. ds \in Seq(Seq(S \cup {i})) /\ DOMAIN ds = DOMAIN bs
  BY <1>3, <1>5, <1>6
<1>8. ds[c.at] = Append(bs[c.at], i) /\ \A b \in DOMAIN bs : b # c.at => ds[b] = bs[b]
  BY <1>3
<1> HIDE DEF ds
<1>9. QED
  BY <1>1, <1>4, <1>7, <1>8 DEF bs

LEMMA InsertLayout ==
  ASSUME NEW c, IsContext(c), NEW t, NEW due, Layout(c, t, due),
         NEW i, i.op \notin Terminators
  PROVE  Layout(Insert(c, i), t, due)
<1> DEFINE d == Insert(c, i)
<1>1. /\ d.inside = c.inside /\ d.at = c.at /\ d.unknown = c.unknown
  BY InsertContext
<1>2. BlocksOk(c) /\ c.at \in DOMAIN c.blocks
  BY DEF Layout, BlocksOk
<1>3. /\ \E S : d.blocks \in Seq(Seq(S))
      /\ DOMAIN d.blocks = DOMAIN c.blocks
      /\ d.blocks[c.at] = Append(c.blocks[c.at], i)
      /\ \A b \in DOMAIN c.blocks : b # c.at => d.blocks[b] = c.blocks[b]
      /\ \E S : c.blocks[c.at] \in Seq(S)
  BY <1>2, InsertFacts
<1> HIDE DEF d
<1>4. BlocksOk(d)
  <2>1. Straight(d.blocks[c.at])
    BY <1>2, <1>3, StraightAppend DEF BlocksOk
  <2>2. \A b \in DOMAIN d.blocks : b \in d.inside \/ d.blocks[b] = <<>>
    BY <1>1, <1>2, <1>3 DEF BlocksOk
  <2>3. QED
    BY <1>1, <1>2, <1>3, <2>1, <2>2 DEF BlocksOk
<1>5. AllClosed(d, d.inside \cup Entered(t) \cup due)
  <2>1. c.inside \subseteq DOMAIN c.blocks
    BY <1>2 DEF BlocksOk
  <2>2. AllClosed(c, c.inside \cup Entered(t) \cup due)
    BY DEF Layout
  <2>3. QED
    BY <1>1, <1>3, <2>1, <2>2 DEF AllClosed
<1>6. Frames(t, d.inside, Outside(d), d.unknown)
  BY <1>1, <1>3 DEF Layout, Outside
<1>7. QED
  BY <1>4, <1>5, <1>6 DEF Layout, d

(* Only the blocks matter.                                                 *)
LEMMA SameLayout ==
  ASSUME NEW c, NEW d, SameBlocks(d, c), NEW t, NEW due, Layout(c, t, due)
  PROVE  Layout(d, t, due)
BY DEF SameBlocks, Layout, BlocksOk, AllClosed, Outside

(* The block is ended and another one, that is due, is begun.              *)
LEMMA JumpLayout ==
  ASSUME NEW c, IsContext(c), NEW t, NEW b, Layout(c, t, {b}),
         b \in Outside(c), b \notin Owned(t),
         NEW i, i.op \in Terminators, Targets(i) \subseteq c.inside \cup Entered(t) \cup {b}
  PROVE  Layout(SetInsertPoint(Insert(c, i), b), t, {})
<1> DEFINE m == Insert(c, i)
           d == SetInsertPoint(m, b)
<1>1. IsContext(m) /\ m.inside = c.inside /\ m.at = c.at /\ m.unknown = c.unknown
  BY InsertContext
<1>2. BlocksOk(c) /\ c.at \in DOMAIN c.blocks /\ c.at \in c.inside
  BY DEF Layout, BlocksOk
<1>3. /\ \E S : m.blocks \in Seq(Seq(S))
      /\ DOMAIN m.blocks = DOMAIN c.blocks
      /\ m.blocks[c.at] = Append(c.blocks[c.at], i)
      /\ \A k \in DOMAIN c.blocks : k # c.at => m.blocks[k] = c.blocks[k]
      /\ \E S : c.blocks[c.at] \in Seq(S)
  BY <1>2, InsertFacts
<1> HIDE DEF m
<1>4. d.blocks = m.blocks /\ d.inside = c.inside \cup {b} /\ d.at = b /\ d.unknown = c.unknown
  BY <1>1, SetInsertPointContext
<1> HIDE DEF d
<1>5. b \in DOMAIN c.blocks /\ b \notin c.inside /\ b # c.at
  BY <1>2 DEF Outside
<1>6. d.blocks[b] = <<>>
  BY <1>2, <1>3, <1>4, <1>5 DEF BlocksOk
<1>7. BlocksOk(d)
  <2>1. Straight(d.blocks[d.at])
    BY <1>4, <1>6 DEF Straight
  <2>2. \A k \in DOMAIN d.blocks : k \in d.inside \/ d.blocks[k] = <<>>
    BY <1>2, <1>3, <1>4 DEF BlocksOk
  <2>3. 1 \in d.inside /\ d.at \in d.inside /\ d.inside \subseteq DOMAIN d.blocks
    BY <1>2, <1>3, <1>4, <1>5 DEF BlocksOk
  <2>4. QED
    BY <1>3, <1>4, <2>1, <2>2, <2>3 DEF BlocksOk
<1>8. AllClosed(d, d.inside \cup Entered(t) \cup {})
  <2> DEFINE to == c.inside \cup Entered(t) \cup {b}
  <2>1. to = d.inside \cup Entered(t) \cup {}
    BY <1>4
  <2>2. AllClosed(c, to)
    BY DEF Layout
  <2>3. Closed(m.blocks[c.at], to)
    BY <1>2, <1>3, ClosedAppend DEF BlocksOk
  <2>4. c.inside \subseteq DOMAIN c.blocks
    BY <1>2 DEF BlocksOk
  <2> HIDE DEF to
  <2>5. ASSUME NEW k \in d.inside PROVE k = d.at \/ Closed(d.blocks[k], to)
    <3>1. CASE k = c.at
      BY <1>4, <2>3, <3>1
    <3>2. CASE k # c.at /\ k # b
      <4>1. k \in c.inside /\ k \in DOMAIN c.blocks
        BY <1>4, <2>4, <2>5, <3>2
      <4>2. Closed(c.blocks[k], to)
        BY <2>2, <3>2, <4>1 DEF AllClosed
      <4>3. QED
        BY <1>3, <1>4, <3>2, <4>1, <4>2
    <3>3. QED
      BY <1>4, <3>1, <3>2
  <2>6. QED
    BY <2>1, <2>5 DEF AllClosed
<1>9. Frames(t, d.inside, Outside(d), d.unknown)
  <2>1. Frames(t, c.inside, Outside(c), c.unknown)
    BY DEF Layout
  <2>2. Outside(d) = Outside(c) \ {b}
    BY <1>3, <1>4 DEF Outside
  <2>3. ASSUME NEW k \in DOMAIN t
        PROVE  /\ FrameOk(t[k]) /\ LeftFits(t[k], d.unknown)
               /\ Owns(t[k]) \subseteq Outside(d) /\ Back(t[k]) \subseteq d.inside
    <3>1. /\ FrameOk(t[k]) /\ LeftFits(t[k], c.unknown)
          /\ Owns(t[k]) \subseteq Outside(c) /\ Back(t[k]) \subseteq c.inside
      BY <2>1 DEF Frames
    <3>2. b \notin Owns(t[k])
      BY Zenon DEF Owned
    <3>3. QED
      BY <1>4, <2>2, <3>1, <3>2
  <2>4. QED
    BY <2>1, <2>3, Zenon DEF Frames
<1>10. QED
  BY <1>7, <1>8, <1>9 DEF Layout, d, m

(* Blocks are created; nobody owns them.                                   *)
LEMMA CreateLayout ==
  ASSUME NEW c, IsContext(c), NEW t, NEW due, Layout(c, t, due)
  PROVE  LET d == CreateBlocks(c, 3)
             n == Len(c.blocks)
         IN  /\ Layout(d, t, due) /\ n \in Nat
             /\ {n + 1, n + 2, n + 3} \subseteq Outside(d)
             /\ {n + 1, n + 2, n + 3} \cap Owned(t) = {}
<1> DEFINE bs == c.blocks
           e == [i \in 1 .. 3 |-> <<>>]
           ds == bs \o e
           d == CreateBlocks(c, 3)
           n == Len(bs)
<1>1. /\ d.blocks = ds /\ d.inside = c.inside /\ d.at = c.at /\ d.unknown = c.unknown
  BY CreateContext
<1>2. PICK S : bs \in Seq(Seq(S))
  BY DEF Layout, BlocksOk
<1>3. BlocksOk(c) /\ c.inside \subseteq DOMAIN bs
  BY DEF Layout, BlocksOk
<1> HIDE DEF d, bs
<1>4. e \in Seq(Seq(S)) /\ Len(e) = 3 /\ \A k \in 1 .. 3 : e[k] = <<>>
  OBVIOUS
<1> HIDE DEF e
<1>5. /\ ds \in Seq(Seq(S)) /\ n \in Nat /\ DOMAIN ds = 1 .. n + 3 /\ DOMAIN bs = 1 .. n
      /\ \A k \in 1 .. n : ds[k] = bs[k]
      /\ \A k \in 1 .. n + 3 : k \in 1 .. n \/ ds[k] = <<>>
  <2> DEFINE Q == Seq(S)
  <2>0. bs \in Seq(Q) /\ e \in Seq(Q)
    BY <1>2, <1>4
  <2> HIDE DEF Q
  <2>1. /\ ds \in Seq(Q) /\ n \in Nat /\ Len(e) \in Nat
        /\ DOMAIN ds = 1 .. n + Len(e) /\ DOMAIN bs = 1 .. n
        /\ \A k \in 1 .. n : ds[k] = bs[k]
        /\ \A k \in 1 .. Len(e) : ds[k + n] = e[k]
    BY <2>0, ConcatFacts
  <2> HIDE DEF ds, n
  <2>2. \A k \in 1 .. n + 3 : k \in 1 .. n \/ (k - n \in 1 .. 3 /\ k = (k - n) + n)
    BY <2>1
  <2>3. \A k \in 1 .. 3 : ds[k + n] = <<>>
    BY <1>4, <2>1
  <2>4. \A k \in 1 .. n + 3 : k \in 1 .. n \/ ds[k] = <<>>
    BY <2>2, <2>3
  <2>5. QED
    BY <1>4, <2>1, <2>4 DEF Q
<1> HIDE DEF ds, n
<1>6. BlocksOk(d)
  <2>1. c.at \in c.inside /\ 1 \in c.inside /\ Straight(bs[c.at])
    BY <1>3 DEF BlocksOk, bs
  <2>2. ds[c.at] = bs[c.at]
    BY <1>3, <1>5, <2>1
  <2>3. \A k \in DOMAIN ds : k \in c.inside \/ ds[k] = <<>>
    <3>1. \A k \in DOMAIN bs : k \in c.inside \/ bs[k] = <<>>
      BY <1>3 DEF BlocksOk, bs
    <3>2. QED
      BY <1>5, <3>1
  <2>4. c.inside \subseteq DOMAIN ds
    BY <1>3, <1>5
  <2>5. QED
    BY <1>1, <1>5, <2>1, <2>2, <2>3, <2>4, Zenon DEF BlocksOk
<1>7. AllClosed(d, d.inside \cup Entered(t) \cup due)
  <2>1. AllClosed(c, c.inside \cup Entered(t) \cup due)
    BY DEF Layout
  <2>2. \A k \in c.inside : ds[k] = bs[k]
    BY <1>3, <1>5
  <2>3. QED
    BY <1>1, <2>1, <2>2 DEF AllClosed, bs
<1>8. Outside(c) \subseteq Outside(d) /\ {n + 1, n + 2, n + 3} \subseteq Outside(d)
      /\ {n + 1, n + 2, n + 3} \cap Outside(c) = {}
  <2>1. Outside(c) = (1 .. n) \ c.inside /\ Outside(d) = (1 .. n + 3) \ c.inside
    BY <1>1, <1>5 DEF Outside, bs
  <2>2. c.inside \subseteq 1 .. n
    BY <1>3, <1>5
  <2>3. QED
    BY <1>5, <2>1, <2>2
<1>9. Frames(t, d.inside, Outside(d), d.unknown) /\ Owned(t) \subseteq Outside(c)
  <2>1. Frames(t, c.inside, Outside(c), c.unknown)
    BY DEF Layout
  <2>2. ASSUME NEW k \in DOMAIN t
        PROVE  /\ FrameOk(t[k]) /\ LeftFits(t[k], c.unknown)
               /\ Owns(t[k]) \subseteq Outside(c) /\ Back(t[k]) \subseteq c.inside
    BY <2>1 DEF Frames
  <2>3. Owned(t) \subseteq Outside(c)
    BY <2>2 DEF Owned
  <2>4. Frames(t, d.inside, Outside(d), d.unknown)
    BY <1>1, <1>8, <2>1, <2>2 DEF Frames
  <2>5. QED
    BY <2>3, <2>4
<1>10. QED
  BY <1>5, <1>6, <1>7, <1>8, <1>9 DEF Layout, d, n, bs

(* The frame on top is taken off, or one is put on top.                    *)
LEMMA PopLayout ==
  ASSUME NEW c, NEW t, Layout(c, t, {}), t # <<>>
  PROVE  /\ Layout(c, Tail(t), Enters(Head(t)))
         /\ FrameOk(Head(t)) /\ LeftFits(Head(t), c.unknown)
         /\ Owns(Head(t)) \subseteq Outside(c) /\ Back(Head(t)) \subseteq c.inside
         /\ Owns(Head(t)) \cap Owned(Tail(t)) = {}
<1> DEFINE due == Enters(Head(t))
<1>1. Frames(t, c.inside, Outside(c), c.unknown)
  BY DEF Layout
<1>2. /\ Frames(Tail(t), c.inside, Outside(c), c.unknown)
      /\ FrameOk(Head(t)) /\ LeftFits(Head(t), c.unknown)
      /\ Owns(Head(t)) \subseteq Outside(c) /\ Back(Head(t)) \subseteq c.inside
      /\ Owns(Head(t)) \cap Owned(Tail(t)) = {}
      /\ Entered(t) \subseteq due \cup Entered(Tail(t))
  BY <1>1, PopFrames
<1> HIDE DEF due
<1>3. AllClosed(c, c.inside \cup Entered(Tail(t)) \cup due)
  <2>1. c.inside \cup Entered(t) \cup {} \subseteq c.inside \cup Entered(Tail(t)) \cup due
    BY <1>2
  <2>2. AllClosed(c, c.inside \cup Entered(t) \cup {})
    BY DEF Layout
  <2>3. QED
    BY <2>1, <2>2, ClosedMore, Zenon DEF AllClosed
<1>4. BlocksOk(c)
  BY DEF Layout
<1>5. QED
  BY <1>2, <1>3, <1>4, Zenon DEF Layout, due

LEMMA PushLayout ==
  ASSUME NEW c, NEW t, NEW due, Layout(c, t, due), NEW f, FrameOk(f), LeftFits(f, c.unknown),
         Owns(f) \subseteq Outside(c), Back(f) \subseteq c.inside, Owns(f) \cap Owned(t) = {},
         NEW rest, due \subseteq rest \cup Enters(f)
  PROVE  /\ Layout(c, <<f>> \o t, rest)
         /\ Owned(<<f>> \o t) \subseteq Owns(f) \cup Owned(t)
         /\ Enters(f) \subseteq Entered(<<f>> \o t)
<1> DEFINE r == <<f>> \o t
<1>1. Frames(t, c.inside, Outside(c), c.unknown)
  BY DEF Layout
<1>2. /\ Frames(r, c.inside, Outside(c), c.unknown)
      /\ Enters(f) \subseteq Entered(r) /\ Entered(t) \subseteq Entered(r)
      /\ Owned(r) \subseteq Owns(f) \cup Owned(t)
  BY <1>1, PushFrames
<1> HIDE DEF r
<1>3. AllClosed(c, c.inside \cup Entered(r) \cup rest)
  <2>1. c.inside \cup Entered(t) \cup due \subseteq c.inside \cup Entered(r) \cup rest
    BY <1>2
  <2>2. AllClosed(c, c.inside \cup Entered(t) \cup due)
    BY DEF Layout
  <2>3. QED
    BY <2>1, <2>2, ClosedMore, Zenon DEF AllClosed
<1>4. BlocksOk(c)
  BY DEF Layout
<1>5. QED
  BY <1>2, <1>3, <1>4, Zenon DEF Layout, r

(* A frame that enters no block is put on top.                             *)
Quiet(f) == f.do \notin {"else", "merge", "after", "loop", "binary"}

LEMMA PushQuiet ==
  ASSUME NEW c, NEW t, NEW due, Layout(c, t, due), NEW f, Quiet(f)
  PROVE  Layout(c, <<f>> \o t, due) /\ Owned(<<f>> \o t) \subseteq Owned(t)
<1>1. Enters(f) = {} /\ Owns(f) = {} /\ Back(f) = {} /\ FrameOk(f) /\ LeftFits(f, c.unknown)
  BY DEF Quiet, Enters, Owns, Back, FrameOk, LeftFits
<1>2. /\ Owns(f) \subseteq Outside(c) /\ Back(f) \subseteq c.inside /\ Owns(f) \cap Owned(t) = {}
      /\ due \subseteq due \cup Enters(f)
  BY <1>1
<1>3. Layout(c, <<f>> \o t, due) /\ Owned(<<f>> \o t) \subseteq Owns(f) \cup Owned(t)
  BY <1>1, <1>2, PushLayout
<1>4. QED
  BY <1>1, <1>3

-----------------------------------------------------------------------------
(* The compiler.  What holds of the context and the frames between two     *)
(* steps.                                                                  *)
Good(c, t) == IsContext(c) /\ Layout(c, t, {}) /\ (c.val = Null => c.unknown)

LEMMA PushTwo ==
  ASSUME NEW T, NEW r \in Seq(T), NEW f, NEW g
  PROVE  <<f, g>> \o r = <<f>> \o (<<g>> \o r)
<1> DEFINE U == T \cup {f, g}
<1>1. r \in Seq(U) /\ f \in U /\ g \in U
  OBVIOUS
<1> HIDE DEF U
<1>2. <<f, g>> = <<f>> \o <<g>>
  <2>1. <<f>> \in Seq(U) /\ <<g>> \in Seq(U)
    BY <1>1
  <2>2. Len(<<f>>) = 1 /\ Len(<<g>>) = 1 /\ <<f>>[1] = f /\ <<g>>[1] = g
    OBVIOUS
  <2> DEFINE a == <<f>> \o <<g>>
  <2>3. a \in Seq(U) /\ Len(a) = 2 /\ a[1] = f /\ a[2] = g
    BY <2>1, <2>2
  <2> HIDE DEF a
  <2>4. <<f, g>> \in Seq(U) /\ Len(<<f, g>>) = 2 /\ <<f, g>>[1] = f /\ <<f, g>>[2] = g
    BY <1>1
  <2>5. <<f, g>> = a
    BY <2>3, <2>4
  <2>6. QED
    BY <2>5 DEF a
<1>3. <<f>> \in Seq(U) /\ <<g>> \in Seq(U)
  BY <1>1
<1>4. (<<f>> \o <<g>>) \o r = <<f>> \o (<<g>> \o r)
  BY <1>1, <1>3
<1>5. QED
  BY <1>2, <1>4

LEMMA PushThree ==
  ASSUME NEW T, NEW r \in Seq(T), NEW f, NEW g, NEW h
  PROVE  <<f, g, h>> \o r = <<f>> \o (<<g>> \o (<<h>> \o r))
<1> DEFINE U == T \cup {f, g, h}
<1>1. r \in Seq(U) /\ f \in U /\ g \in U /\ h \in U
  OBVIOUS
<1> HIDE DEF U
<1>2. <<f, g, h>> = <<f>> \o <<g, h>>
  OBVIOUS
<1>3. <<f>> \in Seq(U) /\ <<g, h>> \in Seq(U)
  BY <1>1
<1>4. (<<f>> \o <<g, h>>) \o r = <<f>> \o (<<g, h>> \o r)
  BY <1>1, <1>3
<1>5. <<g, h>> \o r = <<g>> \o (<<h>> \o r)
  BY <1>1, PushTwo
<1>6. QED
  BY <1>2, <1>4, <1>5

LEMMA LayoutSeq ==
  ASSUME NEW c, NEW t, NEW due, Layout(c, t, due)
  PROVE  (\E T : t \in Seq(T)) /\ <<>> \o t = t
BY DEF Layout, Frames

LEMMA PushQuiet2 ==
  ASSUME NEW c, NEW t, NEW due, Layout(c, t, due), NEW f, Quiet(f), NEW g, Quiet(g)
  PROVE  Layout(c, <<f, g>> \o t, due)
<1>1. <<f, g>> \o t = <<f>> \o (<<g>> \o t)
  BY LayoutSeq, PushTwo
<1>2. Layout(c, <<g>> \o t, due)
  BY PushQuiet
<1>3. QED
  BY <1>1, <1>2, PushQuiet

LEMMA PushQuiet3 ==
  ASSUME NEW c, NEW t, NEW due, Layout(c, t, due), NEW f, Quiet(f), NEW g, Quiet(g),
         NEW h, Quiet(h)
  PROVE  Layout(c, <<f, g, h>> \o t, due)
<1>1. <<f, g, h>> \o t = <<f>> \o (<<g>> \o (<<h>> \o t))
  BY LayoutSeq, PushThree
<1>2. Layout(c, <<g>> \o (<<h>> \o t), due)
  BY PushQuiet
<1>3. QED
  BY <1>1, <1>2, PushQuiet

LEMMA EmitQuiet == \A e : Quiet(Emit(e))
BY DEF Emit, Quiet

(* A frame that owns no block is done.                                     *)
LEMMA PopQuiet ==
  ASSUME NEW c, NEW t, Layout(c, t, {}), t # <<>>,
         Head(t).do \notin {"else", "merge", "after"}
  PROVE  Layout(c, Tail(t), {}) /\ LeftFits(Head(t), c.unknown)
<1>1. Enters(Head(t)) = {}
  BY DEF Enters
<1>2. QED
  BY <1>1, PopLayout

LEMMA Emit1Good ==
  ASSUME NEW c, NEW t, IsContext(c), Layout(c, t, {}), NEW op, op \notin Terminators, NEW args
  PROVE  Good(Emit1(c, op, args), t)
<1> DEFINE i == Instr(op, c.regs + 1, args)
<1>1. i.op \notin Terminators
  BY DEF Instr
<1>2. Layout(Insert(c, i), t, {})
  BY <1>1, InsertLayout
<1>3. QED
  BY <1>2, Emit1Context, SameLayout DEF Good

LEMMA InsertGood ==
  ASSUME NEW c, NEW t, Good(c, t), NEW op, op \notin Terminators, NEW args
  PROVE  Good(Insert(c, Instr(op, 0, args)), t)
<1> DEFINE i == Instr(op, 0, args)
<1>1. i.op \notin Terminators
  BY DEF Instr
<1>2. Layout(Insert(c, i), t, {})
  BY <1>1, InsertLayout DEF Good
<1>3. QED
  BY <1>2, InsertContext DEF Good

LEMMA ReturnsGood ==
  ASSUME NEW c, NEW t, IsContext(c), Layout(c, t, {}), NEW v, v = Null => c.unknown
  PROVE  Good(Returns(c, v), t)
<1>1. Returns(c, v).unknown = c.unknown
  BY ReturnsContext DEF SameBlocks
<1>2. QED
  BY <1>1, ReturnsContext, SameLayout DEF Good

LEMMA ConstNotNull == \A n : Const(n) # Null
BY DEF Const, Null

LEMMA UnknownGood ==
  ASSUME NEW c, IsContext(c), NEW t, Layout(c, t, {})
  PROVE  Good([Returns(c, Null) EXCEPT !.unknown = TRUE], t)
<1> DEFINE m == Returns(c, Null)
           d == [m EXCEPT !.unknown = TRUE]
<1>1. IsContext(m) /\ SameBlocks(m, c)
  BY ReturnsContext
<1> HIDE DEF m
<1>2. IsContext(d) /\ d.blocks = m.blocks /\ d.inside = m.inside /\ d.at = m.at /\ d.unknown = TRUE
  BY <1>1 DEF IsContext, Fields
<1> HIDE DEF d
<1>3. /\ d.blocks = c.blocks /\ d.inside = c.inside /\ d.at = c.at
  BY <1>1, <1>2 DEF SameBlocks
<1>4. BlocksOk(d) /\ AllClosed(d, d.inside \cup Entered(t) \cup {})
  BY <1>3 DEF Layout, BlocksOk, AllClosed
<1>5. Frames(t, d.inside, Outside(d), d.unknown)
  <2>1. Frames(t, c.inside, Outside(c), c.unknown) /\ Outside(d) = Outside(c)
    BY <1>3 DEF Layout, Outside
  <2>2. QED
    BY <1>2, <1>3, <2>1 DEF Frames, LeftFits
<1>6. QED
  BY <1>2, <1>4, <1>5 DEF Good, Layout, d, m

(* One lemma per action of the expressions.                                *)
LEMMA Popped ==
  ASSUME Good(code, todo), todo # <<>>, Frame.do \notin {"else", "merge", "after"}
  PROVE  /\ Good(code, Tail(todo)) /\ IsContext(code) /\ Layout(code, Tail(todo), {})
         /\ <<>> \o Tail(todo) = Tail(todo) /\ LeftFits(Frame, code.unknown)
<1>1. Layout(code, Tail(todo), {}) /\ LeftFits(Frame, code.unknown)
  BY PopQuiet DEF Good, Frame
<1>2. QED
  BY <1>1, LayoutSeq DEF Good

LEMMA ReturnStep ==
  ASSUME NEW c, Good(c, Tail(todo)), Return(c)
  PROVE  Good(code', todo')
<1>1. code' = c /\ todo' = <<>> \o Tail(todo)
  BY DEF Return, Continue
<1>2. <<>> \o Tail(todo) = Tail(todo)
  BY LayoutSeq DEF Good
<1>3. QED
  BY <1>1, <1>2

LEMMA ExprSteps ==
  ASSUME Good(code, todo), EmitExpr
  PROVE  Good(code', todo')
<1>1. todo # <<>> /\ Frame.do = "emit"
  BY DEF EmitExpr, EmitNumber, EmitText, EmitVarref, EmitInput, EmitEcho, EmitAssign, EmitUnary,
         EmitBinary, Emitting, Doing, Frame
<1>2. /\ Good(code, Tail(todo)) /\ IsContext(code) /\ Layout(code, Tail(todo), {})
      /\ <<>> \o Tail(todo) = Tail(todo)
  BY <1>1, Popped
<1>3. CASE EmitNumber
  BY <1>2, <1>3, ReturnsGood, ConstNotNull, ReturnStep DEF EmitNumber
<1>4. CASE EmitText
  BY <1>2, <1>4, ReturnsGood, ConstNotNull, ReturnStep DEF EmitText
<1>5. CASE EmitVarref
  <2>1. CASE Node.n \in code.dict
    <3>1. Return(Emit1(code, "load", <<Node.n>>))
      BY <1>5, <2>1 DEF EmitVarref
    <3>2. "load" \notin Terminators
      BY DEF Terminators
    <3>3. QED
      BY <1>2, <3>1, <3>2, Emit1Good, ReturnStep
  <2>2. CASE Node.n \notin code.dict
    <3>1. Return([Returns(code, Null) EXCEPT !.unknown = TRUE])
      BY <1>5, <2>2 DEF EmitVarref
    <3>2. QED
      BY <1>2, <3>1, UnknownGood, ReturnStep
  <2>3. QED
    BY <2>1, <2>2
<1>6. CASE EmitInput
  <2> DEFINE m == Insert(code, Instr("scanf", 0, <<>>))
  <2>1. "scanf" \notin Terminators /\ "loadscan" \notin Terminators
    BY DEF Terminators
  <2>2. Good(m, Tail(todo))
    BY <1>2, <2>1, InsertGood
  <2>3. Return(Emit1(m, "loadscan", <<>>))
    BY <1>6 DEF EmitInput
  <2> HIDE DEF m
  <2>4. QED
    BY <2>1, <2>2, <2>3, Emit1Good, ReturnStep DEF Good
<1>7. CASE EmitEcho
  <2>1. CASE Node.a = <<>>
    BY <1>2, <1>7, <2>1, ReturnsGood, ConstNotNull, ReturnStep DEF EmitEcho
  <2>2. CASE Node.a # <<>>
    <3> DEFINE f == Emit(Head(Node.a))
               g == [do |-> "print"]
               h == Emit([t |-> "echo", a |-> Tail(Node.a)])
    <3>1. code' = code /\ todo' = <<f, g, h>> \o Tail(todo)
      BY <1>7, <2>2 DEF EmitEcho, Continue
    <3>2. Quiet(f) /\ Quiet(g) /\ Quiet(h)
      BY EmitQuiet DEF Quiet
    <3> HIDE DEF f, g, h
    <3>3. Layout(code, <<f, g, h>> \o Tail(todo), {})
      BY <1>2, <3>2, PushQuiet3
    <3>4. QED
      BY <1>2, <3>1, <3>3 DEF Good
  <2>3. QED
    BY <2>1, <2>2
<1>8. CASE EmitAssign
  <2> DEFINE c == CreateEntryBlockAlloca(code, Node.n)
             f == Emit(Node.a)
             g == [do |-> "store", n |-> Node.n]
  <2>1. code' = c /\ todo' = <<f, g>> \o Tail(todo)
    BY <1>8 DEF EmitAssign, Continue
  <2>2. Quiet(f) /\ Quiet(g)
    BY EmitQuiet DEF Quiet
  <2>3. IsContext(c) /\ SameBlocks(c, code) /\ c.val = code.val
    BY <1>2, AllocaContext
  <2> HIDE DEF c, f, g
  <2>4. Layout(c, <<f, g>> \o Tail(todo), {})
    BY <1>2, <2>2, <2>3, SameLayout, PushQuiet2
  <2>5. QED
    BY <1>2, <2>1, <2>3, <2>4 DEF Good, SameBlocks
<1>9. CASE EmitUnary
  <2> DEFINE f == Emit(Node.a)
             g == [do |-> "unary", n |-> Node.n]
  <2>1. code' = code /\ todo' = <<f, g>> \o Tail(todo)
    BY <1>9 DEF EmitUnary, Continue
  <2>2. Quiet(f) /\ Quiet(g)
    BY EmitQuiet DEF Quiet
  <2> HIDE DEF f, g
  <2>3. QED
    BY <1>2, <2>1, <2>2, PushQuiet2 DEF Good
<1>10. CASE EmitBinary
  <2> DEFINE f == Emit(Node.a)
             g == [do |-> "right", n |-> Node.n, e |-> Node.b]
  <2>1. code' = code /\ todo' = <<f, g>> \o Tail(todo)
    BY <1>10 DEF EmitBinary, Continue
  <2>2. Quiet(f) /\ Quiet(g)
    BY EmitQuiet DEF Quiet
  <2> HIDE DEF f, g
  <2>3. QED
    BY <1>2, <2>1, <2>2, PushQuiet2 DEF Good
<1>11. QED
  BY <1>3, <1>4, <1>5, <1>6, <1>7, <1>8, <1>9, <1>10 DEF EmitExpr

(* What has been called is done; NULL is followed for an unknown name only.*)
LEMMA FinishExprSteps ==
  ASSUME Good(code, todo), FinishExpr
  PROVE  Good(code', todo') \/ (code.unknown /\ Crash)
<1>1. todo # <<>> /\ Frame.do \in {"print", "store", "unary", "right", "binary"}
  BY DEF FinishExpr, Printf, CreateStore, Unary, RightOperand, Binary, Doing, Frame
<1>2. /\ Good(code, Tail(todo)) /\ IsContext(code) /\ Layout(code, Tail(todo), {})
      /\ LeftFits(Frame, code.unknown)
  BY <1>1, Popped
<1>3. /\ "printf" \notin Terminators /\ "store" \notin Terminators
      /\ "compute" \notin Terminators
  BY DEF Terminators
<1>4. CASE Printf
  <2>1. CASE code.val = Null
    BY <1>2, <1>4, <2>1 DEF Printf, Good
  <2>2. CASE code.val # Null
    BY <1>2, <1>3, <1>4, <2>2, InsertGood, ReturnStep DEF Printf
  <2>3. QED
    BY <2>1, <2>2
<1>5. CASE CreateStore
  <2>1. CASE code.val = Null
    BY <1>2, <1>5, <2>1 DEF CreateStore, Good
  <2>2. CASE code.val # Null
    BY <1>2, <1>3, <1>5, <2>2, InsertGood, ReturnStep DEF CreateStore
  <2>3. QED
    BY <2>1, <2>2
<1>6. CASE Unary
  <2>1. CASE code.val = Null
    BY <1>2, <1>6, <2>1, ReturnStep DEF Unary
  <2>2. CASE code.val # Null
    BY <1>2, <1>3, <1>6, <2>2, Emit1Good, ReturnStep DEF Unary
  <2>3. QED
    BY <2>1, <2>2
<1>7. CASE RightOperand
  <2> DEFINE f == Emit(Frame.e)
             g == [do |-> "binary", n |-> Frame.n, left |-> code.val]
             r == Tail(todo)
  <2>1. code' = code /\ todo' = <<f, g>> \o r
    BY <1>7 DEF RightOperand, Continue
  <2>2. Quiet(f) /\ FrameOk(g) /\ LeftFits(g, code.unknown)
        /\ Owns(g) = {} /\ Enters(g) = {} /\ Back(g) = {}
    BY <1>2, EmitQuiet DEF FrameOk, LeftFits, Owns, Enters, Back, Good
  <2> HIDE DEF f, g, r
  <2>3. Layout(code, r, {})
    BY <1>2 DEF r
  <2>4. Layout(code, <<g>> \o r, {})
    <3>1. /\ Owns(g) \subseteq Outside(code) /\ Back(g) \subseteq code.inside
          /\ Owns(g) \cap Owned(r) = {} /\ {} \subseteq {} \cup Enters(g)
      BY <2>2
    <3>2. QED
      BY <2>2, <2>3, <3>1, PushLayout
  <2>5. Layout(code, <<f>> \o (<<g>> \o r), {})
    BY <2>2, <2>4, PushQuiet
  <2>6. <<f, g>> \o r = <<f>> \o (<<g>> \o r)
    BY <2>3, LayoutSeq, PushTwo
  <2>7. QED
    BY <1>2, <2>1, <2>5, <2>6 DEF Good
<1>8. CASE Binary
  <2>1. CASE Frame.left = Null \/ code.val = Null
    <3>1. code.unknown
      <4>1. Frame.do = "binary"
        BY <1>8 DEF Binary, Doing, Frame
      <4>2. QED
        BY <1>2, <2>1, <4>1 DEF LeftFits, Good
    <3>2. Return(Returns(code, Null))
      BY <1>8, <2>1 DEF Binary
    <3>3. QED
      BY <1>2, <3>1, <3>2, ReturnsGood, ReturnStep
  <2>2. CASE ~ (Frame.left = Null \/ code.val = Null)
    BY <1>2, <1>3, <1>8, <2>2, Emit1Good, ReturnStep DEF Binary
  <2>3. QED
    BY <2>1, <2>2
<1>9. QED
  BY <1>4, <1>5, <1>6, <1>7, <1>8 DEF FinishExpr

(* A jump keeps the value and what is known.                               *)
LEMMA JumpGood ==
  ASSUME NEW c, IsContext(c), NEW t, NEW b, Layout(c, t, {b}), c.val = Null => c.unknown,
         b \in Outside(c), b \notin Owned(t),
         NEW i, i.op \in Terminators, Targets(i) \subseteq c.inside \cup Entered(t) \cup {b}
  PROVE  LET d == SetInsertPoint(Insert(c, i), b)
         IN  Good(d, t) /\ Outside(d) = Outside(c) \ {b} /\ d.inside = c.inside \cup {b}
<1> DEFINE m == Insert(c, i)
           d == SetInsertPoint(m, b)
<1>1. IsContext(m) /\ m.val = c.val /\ m.unknown = c.unknown /\ m.inside = c.inside
  BY InsertContext
<1>2. DOMAIN m.blocks = DOMAIN c.blocks
  BY InsertFacts DEF Layout
<1> HIDE DEF m
<1>3. /\ IsContext(d) /\ d.val = m.val /\ d.unknown = m.unknown /\ d.blocks = m.blocks
      /\ d.inside = m.inside \cup {b}
  BY <1>1, SetInsertPointContext
<1> HIDE DEF d
<1>4. Layout(d, t, {})
  BY JumpLayout DEF d, m
<1>5. Good(d, t)
  BY <1>1, <1>3, <1>4 DEF Good
<1>6. Outside(d) = Outside(c) \ {b} /\ d.inside = c.inside \cup {b}
  BY <1>1, <1>2, <1>3 DEF Outside
<1>7. QED
  BY <1>5, <1>6 DEF d, m

LEMMA LayoutMore ==
  ASSUME NEW c, NEW t, NEW due, Layout(c, t, due), NEW more, due \subseteq more
  PROVE  Layout(c, t, more)
<1>1. c.inside \cup Entered(t) \cup due \subseteq c.inside \cup Entered(t) \cup more
  OBVIOUS
<1>2. AllClosed(c, c.inside \cup Entered(t) \cup more)
  BY <1>1, ClosedMore, Zenon DEF AllClosed, Layout
<1>3. QED
  BY <1>2, Zenon DEF Layout

LEMMA BrFacts ==
  ASSUME NEW b
  PROVE  LET i == Instr("br", 0, <<b>>) IN i.op \in Terminators /\ Targets(i) = {b}
BY DEF Instr, Terminators, Targets

LEMMA CondBrFacts ==
  ASSUME NEW v, NEW a, NEW b
  PROVE  LET i == Instr("condbr", 0, <<v, a, b>>)
         IN  i.op \in Terminators /\ Targets(i) = {a, b}
BY DEF Instr, Terminators, Targets

(* The statements that begin: only a while makes blocks at once.           *)
LEMMA OperSteps ==
  ASSUME Good(code, todo), EmitOper
  PROVE  Good(code', todo')
<1>1. todo # <<>> /\ Frame.do = "emit"
  BY DEF EmitOper, EmitExprop, EmitExit, EmitBlock, EmitIf, EmitWhile, Emitting, Doing, Frame
<1> DEFINE r == Tail(todo)
<1>2. /\ Good(code, r) /\ IsContext(code) /\ Layout(code, r, {}) /\ <<>> \o r = r
  BY <1>1, Popped
<1>3. CASE EmitExprop
  <2>1. code' = code /\ todo' = <<Emit(Node.a)>> \o r
    BY <1>3 DEF EmitExprop, Continue
  <2>2. QED
    BY <1>2, <2>1, EmitQuiet, PushQuiet DEF Good
<1>4. CASE EmitExit
  <2>1. "exit" \notin Terminators
    BY DEF Terminators
  <2>2. QED
    BY <1>2, <1>4, <2>1, InsertGood, ReturnStep DEF EmitExit
<1>5. CASE EmitBlock
  <2>1. CASE Node.a = <<>>
    BY <1>2, <1>5, <2>1, ReturnStep DEF EmitBlock
  <2>2. CASE Node.a # <<>>
    <3> DEFINE f == Emit(Head(Node.a))
               g == Emit([t |-> "block", a |-> Tail(Node.a)])
    <3>1. code' = code /\ todo' = <<f, g>> \o r
      BY <1>5, <2>2 DEF EmitBlock, Continue
    <3>2. Quiet(f) /\ Quiet(g)
      BY EmitQuiet
    <3> HIDE DEF f, g
    <3>3. QED
      BY <1>2, <3>1, <3>2, PushQuiet2 DEF Good
  <2>3. QED
    BY <2>1, <2>2
<1>6. CASE EmitIf
  <2> DEFINE f == Emit(Node.c)
             g == [do |-> "then", then |-> Node.a, else |-> Node.b]
  <2>1. code' = code /\ todo' = <<f, g>> \o r
    BY <1>6 DEF EmitIf, Continue
  <2>2. Quiet(f) /\ Quiet(g)
    BY EmitQuiet DEF Quiet
  <2> HIDE DEF f, g
  <2>3. QED
    BY <1>2, <2>1, <2>2, PushQuiet2 DEF Good
<1>7. CASE EmitWhile
  <2> DEFINE n == Len(code.blocks)
             c == CreateBlocks(code, 3)
             i == Instr("br", 0, <<n + 1>>)
             d == SetInsertPoint(Insert(c, i), n + 1)
             f == Emit(Node.c)
             g == [do |-> "loop", e |-> Node.a, cond |-> n + 1, begin |-> n + 2, after |-> n + 3]
  <2>1. code' = d /\ todo' = <<f, g>> \o r
    BY <1>7 DEF EmitWhile, Continue, Br
  <2>2. /\ Layout(c, r, {}) /\ n \in Nat
        /\ {n + 1, n + 2, n + 3} \subseteq Outside(c)
        /\ {n + 1, n + 2, n + 3} \cap Owned(r) = {}
    BY <1>2, CreateLayout
  <2>3. IsContext(c) /\ c.val = code.val /\ c.unknown = code.unknown /\ c.inside = code.inside
    BY <1>2, CreateContext
  <2>4. i.op \in Terminators /\ Targets(i) = {n + 1}
    BY BrFacts
  <2>5. /\ g.do = "loop" /\ Owns(g) = {n + 2, n + 3} /\ Back(g) = {n + 1} /\ Enters(g) = {}
        /\ g.begin = n + 2 /\ g.after = n + 3
    BY DEF Owns, Back, Enters
  <2>6. Quiet(f)
    BY EmitQuiet
  <2> HIDE DEF c, i, f, g, n, r
  <2>7. Layout(c, r, {n + 1})
    BY <2>2, LayoutMore
  <2>8. Good(d, r) /\ Outside(d) = Outside(c) \ {n + 1} /\ d.inside = c.inside \cup {n + 1}
    <3>1. c.val = Null => c.unknown
      BY <1>2, <2>3 DEF Good
    <3>2. /\ n + 1 \in Outside(c) /\ n + 1 \notin Owned(r)
          /\ Targets(i) \subseteq c.inside \cup Entered(r) \cup {n + 1}
      BY <2>2, <2>4
    <3>3. QED
      BY <2>3, <2>4, <2>7, <3>1, <3>2, JumpGood
  <2> HIDE DEF d
  <2>9. FrameOk(g) /\ LeftFits(g, d.unknown)
    BY <2>2, <2>5 DEF FrameOk, LeftFits
  <2>10. Layout(d, <<g>> \o r, {})
    <3>1. Owns(g) \subseteq Outside(d)
      BY <2>2, <2>5, <2>8
    <3>2. Owns(g) \cap Owned(r) = {} /\ Back(g) \subseteq d.inside /\ {} \subseteq {} \cup Enters(g)
      BY <2>2, <2>5, <2>8
    <3>3. QED
      BY <2>8, <2>9, <3>1, <3>2, PushLayout DEF Good
  <2>11. Layout(d, <<f>> \o (<<g>> \o r), {})
    BY <2>6, <2>10, PushQuiet
  <2>12. <<f, g>> \o r = <<f>> \o (<<g>> \o r)
    BY <2>8, LayoutSeq, PushTwo DEF Good
  <2>13. QED
    BY <2>1, <2>8, <2>11, <2>12 DEF Good
<1>8. QED
  BY <1>3, <1>4, <1>5, <1>6, <1>7 DEF EmitOper

(* The blocks of an if and of a while.                                     *)
LEMMA ThenStep ==
  ASSUME Good(code, todo), ThenBlock
  PROVE  Good(code', todo')
<1>1. todo # <<>> /\ Frame.do = "then"
  BY DEF ThenBlock, Doing, Frame
<1> DEFINE r == Tail(todo)
<1>2. /\ Good(code, r) /\ IsContext(code) /\ Layout(code, r, {}) /\ <<>> \o r = r
  BY <1>1, Popped
<1>3. CASE code.val = Null
  BY <1>2, <1>3, ReturnStep DEF ThenBlock
<1>4. CASE code.val # Null
  <2> DEFINE n == Len(code.blocks)
             c == CreateBlocks(code, 3)
             i == Instr("condbr", 0, <<code.val, n + 1, n + 2>>)
             d == SetInsertPoint(Insert(c, i), n + 1)
             f == Emit(Frame.then)
             g == [do |-> "else", e |-> Frame.else, begin |-> n + 2, merge |-> n + 3]
  <2>1. code' = d /\ todo' = <<f, g>> \o r
    BY <1>4 DEF ThenBlock, Continue, CondBr
  <2>2. /\ Layout(c, r, {}) /\ n \in Nat
        /\ {n + 1, n + 2, n + 3} \subseteq Outside(c)
        /\ {n + 1, n + 2, n + 3} \cap Owned(r) = {}
    BY <1>2, CreateLayout
  <2>3. IsContext(c) /\ c.val = code.val /\ c.unknown = code.unknown
    BY <1>2, CreateContext
  <2>4. i.op \in Terminators /\ Targets(i) = {n + 1, n + 2}
    BY CondBrFacts
  <2>5. /\ g.do = "else" /\ Owns(g) = {n + 2, n + 3} /\ Back(g) = {} /\ Enters(g) = {n + 2, n + 3}
        /\ g.begin = n + 2 /\ g.merge = n + 3
    BY DEF Owns, Back, Enters
  <2>6. Quiet(f)
    BY EmitQuiet
  <2> HIDE DEF c, i, f, g, n, r
  <2>7. FrameOk(g) /\ LeftFits(g, c.unknown)
    BY <2>2, <2>5 DEF FrameOk, LeftFits
  <2>8. /\ Layout(c, <<g>> \o r, {n + 1})
        /\ Owned(<<g>> \o r) \subseteq Owns(g) \cup Owned(r)
        /\ Enters(g) \subseteq Entered(<<g>> \o r)
    <3>1. Owns(g) \subseteq Outside(c)
      BY <2>2, <2>5
    <3>2. Owns(g) \cap Owned(r) = {} /\ Back(g) \subseteq c.inside /\ {} \subseteq {n + 1} \cup Enters(g)
      BY <2>2, <2>5
    <3>3. QED
      BY <2>2, <2>7, <3>1, <3>2, PushLayout
  <2> DEFINE s == <<f>> \o (<<g>> \o r)
  <2>9. Layout(c, s, {n + 1}) /\ Owned(s) \subseteq Owned(<<g>> \o r)
    BY <2>6, <2>8, PushQuiet
  <2>10. <<f, g>> \o r = s
    BY <2>2, LayoutSeq, PushTwo
  <2>11. n + 2 \in Entered(s)
    <3>1. Enters(f) = {} /\ Owns(f) = {} /\ Back(f) = {} /\ FrameOk(f) /\ LeftFits(f, c.unknown)
      BY <2>6 DEF Quiet, Enters, Owns, Back, FrameOk, LeftFits
    <3>2. Frames(<<g>> \o r, c.inside, Outside(c), c.unknown)
      BY <2>8 DEF Layout
    <3>3. Entered(<<g>> \o r) \subseteq Entered(s)
      <4>1. Owns(f) \subseteq Outside(c) /\ Back(f) \subseteq c.inside /\ Owns(f) \cap Owned(<<g>> \o r) = {}
        BY <3>1
      <4>2. QED
        BY <3>1, <3>2, <4>1, PushFrames
    <3>4. QED
      BY <2>5, <2>8, <3>3
  <2> HIDE DEF s
  <2>12. n + 1 \notin Owned(s)
    <3>1. n + 1 \notin Owns(g) /\ n + 1 \notin Owned(r)
      BY <2>2, <2>5
    <3>2. QED
      BY <2>8, <2>9, <3>1
  <2>13. Targets(i) \subseteq c.inside \cup Entered(s) \cup {n + 1} /\ n + 1 \in Outside(c)
    BY <2>2, <2>4, <2>11
  <2>14. c.val = Null => c.unknown
    BY <1>4, <2>3
  <2>15. Good(d, s)
    BY <2>3, <2>4, <2>9, <2>12, <2>13, <2>14, JumpGood
  <2>16. QED
    BY <2>1, <2>10, <2>15
<1>5. QED
  BY <1>3, <1>4

LEMMA ElseStep ==
  ASSUME Good(code, todo), ElseBlock
  PROVE  Good(code', todo')
<1> DEFINE r == Tail(todo)
           f == Emit(Frame.e)
           g == [do |-> "merge", merge |-> Frame.merge]
           i == Instr("br", 0, <<Frame.merge>>)
           b == Frame.begin
           m == Frame.merge
<1>1. todo # <<>> /\ Frame.do = "else"
  BY DEF ElseBlock, Doing, Frame
<1>2. IsContext(code) /\ Layout(code, todo, {}) /\ (code.val = Null => code.unknown)
  BY DEF Good
<1>3. /\ Layout(code, r, Enters(Frame)) /\ FrameOk(Frame)
      /\ Owns(Frame) \subseteq Outside(code) /\ Owns(Frame) \cap Owned(r) = {}
  BY <1>1, <1>2, PopLayout DEF Frame
<1>4. Enters(Frame) = {b, m} /\ Owns(Frame) = {b, m} /\ b # m
  BY <1>1, <1>3 DEF Enters, Owns, FrameOk
<1>5. code' = SetInsertPoint(Insert(code, i), b) /\ todo' = <<f, g>> \o r
  BY DEF ElseBlock, Continue, Br
<1>6. i.op \in Terminators /\ Targets(i) = {m}
  BY BrFacts
<1>7. /\ Owns(g) = {m} /\ Enters(g) = {m} /\ Back(g) = {} /\ FrameOk(g) /\ LeftFits(g, code.unknown)
  BY DEF Owns, Enters, Back, FrameOk, LeftFits
<1>8. Quiet(f)
  BY EmitQuiet
<1> HIDE DEF r, f, g, i, b, m
<1>9. /\ Layout(code, <<g>> \o r, {b}) /\ Owned(<<g>> \o r) \subseteq Owns(g) \cup Owned(r)
      /\ Enters(g) \subseteq Entered(<<g>> \o r)
  <2>1. Owns(g) \subseteq Outside(code) /\ Owns(g) \cap Owned(r) = {}
    BY <1>3, <1>4, <1>7
  <2>2. Enters(Frame) \subseteq {b} \cup Enters(g) /\ Back(g) \subseteq code.inside
    BY <1>4, <1>7
  <2>3. QED
    BY <1>3, <1>7, <2>1, <2>2, PushLayout
<1>10. Good(code', <<g>> \o r)
  <2>1. b \in Outside(code) /\ b \notin Owned(<<g>> \o r)
    BY <1>3, <1>4, <1>7, <1>9
  <2>2. Targets(i) \subseteq code.inside \cup Entered(<<g>> \o r) \cup {b}
    BY <1>6, <1>7, <1>9
  <2>3. QED
    BY <1>2, <1>5, <1>6, <1>9, <2>1, <2>2, JumpGood
<1>11. Layout(code', <<f>> \o (<<g>> \o r), {})
  BY <1>8, <1>10, PushQuiet DEF Good
<1>12. <<f, g>> \o r = <<f>> \o (<<g>> \o r)
  BY <1>3, LayoutSeq, PushTwo
<1>13. QED
  BY <1>5, <1>10, <1>11, <1>12 DEF Good

(* A block that one frame is left to enter is entered.                     *)
LEMMA LastJump ==
  ASSUME Good(code, todo), todo # <<>>, NEW b, Enters(Frame) = {b}, Owns(Frame) = {b},
         NEW k, k \in code.inside \cup {b}
  PROVE  /\ Layout(code, Tail(todo), {b})
         /\ Good(Returns(SetInsertPoint(Br(code, k), b), Const(0)), Tail(todo))
<1> DEFINE r == Tail(todo)
           i == Instr("br", 0, <<k>>)
           d == SetInsertPoint(Insert(code, i), b)
<1>1. IsContext(code) /\ Layout(code, todo, {}) /\ (code.val = Null => code.unknown)
  BY DEF Good
<1>2. /\ Layout(code, r, {b}) /\ {b} \subseteq Outside(code) /\ {b} \cap Owned(r) = {}
  BY <1>1, PopLayout DEF Frame
<1>3. i.op \in Terminators /\ Targets(i) = {k}
  BY BrFacts
<1>4. Br(code, k) = Insert(code, i)
  BY DEF Br
<1> HIDE DEF i, r
<1>5. Good(d, r)
  <2>1. b \in Outside(code) /\ b \notin Owned(r)
    BY <1>2
  <2>2. Targets(i) \subseteq code.inside \cup Entered(r) \cup {b}
    BY <1>3
  <2>3. QED
    BY <1>1, <1>2, <1>3, <2>1, <2>2, JumpGood
<1> HIDE DEF d
<1>6. Good(Returns(d, Const(0)), r)
  BY <1>5, ReturnsGood, ConstNotNull DEF Good
<1>7. QED
  BY <1>2, <1>4, <1>6 DEF r, d

LEMMA MergeStep ==
  ASSUME Good(code, todo), MergeBlock
  PROVE  Good(code', todo')
<1>1. todo # <<>> /\ Frame.do = "merge"
  BY DEF MergeBlock, Doing, Frame
<1>2. Enters(Frame) = {Frame.merge} /\ Owns(Frame) = {Frame.merge}
  BY <1>1 DEF Enters, Owns
<1>3. Good(Returns(SetInsertPoint(Br(code, Frame.merge), Frame.merge), Const(0)), Tail(todo))
  BY <1>1, <1>2, LastJump
<1>4. QED
  BY <1>3, ReturnStep DEF MergeBlock

LEMMA AfterStep ==
  ASSUME Good(code, todo), AfterBlock
  PROVE  Good(code', todo')
<1>1. todo # <<>> /\ Frame.do = "after"
  BY DEF AfterBlock, Doing, Frame
<1>2. Enters(Frame) = {Frame.after} /\ Owns(Frame) = {Frame.after} /\ Back(Frame) = {Frame.cond}
  BY <1>1 DEF Enters, Owns, Back
<1>3. Frame.cond \in code.inside
  <2>1. Back(Frame) \subseteq code.inside
    BY <1>1, PopLayout DEF Good, Frame
  <2>2. QED
    BY <1>2, <2>1
<1>4. Good(Returns(SetInsertPoint(Br(code, Frame.cond), Frame.after), Const(0)), Tail(todo))
  BY <1>1, <1>2, <1>3, LastJump
<1>5. QED
  BY <1>4, ReturnStep DEF AfterBlock

LEMMA LoopStep ==
  ASSUME Good(code, todo), LoopBlock
  PROVE  Good(code', todo')
<1> DEFINE r == Tail(todo)
           f == Emit(Frame.e)
           g == [do |-> "after", cond |-> Frame.cond, after |-> Frame.after]
           b == Frame.begin
           a == Frame.after
           k == Frame.cond
           i == Instr("condbr", 0, <<code.val, b, a>>)
<1>1. todo # <<>> /\ Frame.do = "loop"
  BY DEF LoopBlock, Doing, Frame
<1>2. /\ Good(code, r) /\ IsContext(code) /\ Layout(code, r, {}) /\ <<>> \o r = r
  BY <1>1, Popped
<1>3. CASE code.val = Null
  BY <1>2, <1>3, ReturnStep DEF LoopBlock
<1>4. CASE code.val # Null
  <2>1. /\ FrameOk(Frame) /\ Owns(Frame) \subseteq Outside(code) /\ Owns(Frame) \cap Owned(r) = {}
        /\ Back(Frame) \subseteq code.inside
    BY <1>1, PopLayout DEF Good, Frame
  <2>2. Owns(Frame) = {b, a} /\ Back(Frame) = {k} /\ b # a
    BY <1>1, <2>1 DEF Owns, Back, FrameOk
  <2>3. code' = SetInsertPoint(Insert(code, i), b) /\ todo' = <<f, g>> \o r
    BY <1>4 DEF LoopBlock, Continue, CondBr
  <2>4. i.op \in Terminators /\ Targets(i) = {b, a}
    BY CondBrFacts
  <2>5. /\ Owns(g) = {a} /\ Enters(g) = {a} /\ Back(g) = {k} /\ FrameOk(g) /\ LeftFits(g, code.unknown)
    BY DEF Owns, Enters, Back, FrameOk, LeftFits
  <2>6. Quiet(f)
    BY EmitQuiet
  <2> HIDE DEF r, f, g, i, b, a, k
  <2>7. /\ Layout(code, <<g>> \o r, {b}) /\ Owned(<<g>> \o r) \subseteq Owns(g) \cup Owned(r)
        /\ Enters(g) \subseteq Entered(<<g>> \o r)
    <3>1. Owns(g) \subseteq Outside(code) /\ Owns(g) \cap Owned(r) = {}
      BY <2>1, <2>2, <2>5
    <3>2. {} \subseteq {b} \cup Enters(g) /\ Back(g) \subseteq code.inside
      BY <2>1, <2>2, <2>5
    <3>3. QED
      BY <1>2, <2>5, <3>1, <3>2, PushLayout
  <2>8. Good(code', <<g>> \o r)
    <3>1. b \in Outside(code) /\ b \notin Owned(<<g>> \o r)
      BY <2>1, <2>2, <2>5, <2>7
    <3>2. Targets(i) \subseteq code.inside \cup Entered(<<g>> \o r) \cup {b}
      BY <2>4, <2>5, <2>7
    <3>3. QED
      BY <1>2, <1>4, <2>3, <2>4, <2>7, <3>1, <3>2, JumpGood
  <2>9. Layout(code', <<f>> \o (<<g>> \o r), {})
    BY <2>6, <2>8, PushQuiet DEF Good
  <2>10. <<f, g>> \o r = <<f>> \o (<<g>> \o r)
    BY <1>2, LayoutSeq, PushTwo
  <2>11. QED
    BY <2>3, <2>8, <2>9, <2>10 DEF Good
<1>5. QED
  BY <1>3, <1>4

LEMMA FinishOperSteps ==
  ASSUME Good(code, todo), FinishOper
  PROVE  Good(code', todo')
BY ThenStep, ElseStep, MergeStep, LoopStep, AfterStep DEF FinishOper

-----------------------------------------------------------------------------
(* The inductive invariant.  While it is compiled the frames lay the blocks*)
(* out and the machine stands at the start; afterwards every block of the  *)
(* function is closed and the machine stands in one of them.               *)
MachineFields == {"mem", "scan", "in", "out", "regs", "block", "next"}
IsMachine(m) == m = [f \in MachineFields |-> m[f]]

Listed(c) == (\E S : c.blocks \in Seq(Seq(S))) /\ c.inside \subseteq DOMAIN c.blocks

IInv ==
  /\ status \in {"compiling", "running", "done", "undefined", "crashed"}
  /\ IsMachine(machine)
  /\ status = "compiling" => Good(code, todo) /\ machine.block = 1 /\ machine.next = 1
  /\ Compiled => Listed(code) /\ 1 \in code.inside
  /\ CrashOnlyOnUnknown
  /\ BlocksClosed
  /\ CounterInBlock

LEMMA StartGood == Good(NewContext, <<Emit(prog)>>)
<1> DEFINE c == NewContext
           e == Emit(prog)
<1>1. /\ IsContext(c) /\ c.blocks = <<<<>>>> /\ c.inside = {1} /\ c.at = 1 /\ c.unknown = FALSE
      /\ c.val = Const(0)
  BY DEF NewContext, IsContext, Fields
<1>2. Quiet(e)
  BY EmitQuiet
<1> HIDE DEF c, e
<1>3. /\ c.blocks \in Seq(Seq({})) /\ DOMAIN c.blocks = {1} /\ c.blocks[1] = <<>>
  BY <1>1
<1>4. BlocksOk(c) /\ AllClosed(c, c.inside \cup Entered(<<>>) \cup {})
  BY <1>1, <1>3 DEF BlocksOk, AllClosed, Straight
<1>5. Frames(<<>>, c.inside, Outside(c), c.unknown)
  <2>1. <<>> \in Seq({}) /\ DOMAIN <<>> = {}
    OBVIOUS
  <2>2. QED
    BY <2>1 DEF Frames
<1>6. Layout(c, <<>>, {})
  BY <1>4, <1>5 DEF Layout
<1>7. Layout(c, <<e>> \o <<>>, {})
  BY <1>2, <1>6, PushQuiet
<1>8. <<e>> \o <<>> = <<e>>
  OBVIOUS
<1>9. QED
  BY <1>1, <1>7, <1>8, ConstNotNull DEF Good, c, e

LEMMA InitInv == Init => IInv
<1>1. IsMachine(NewMachine(typed)) /\ NewMachine(typed).block = 1 /\ NewMachine(typed).next = 1
  BY DEF NewMachine, IsMachine, MachineFields
<1>2. Init => Good(code, todo)
  BY StartGood DEF Init
<1>3. QED
  BY <1>1, <1>2 DEF Init, IInv, Compiled, CrashOnlyOnUnknown, BlocksClosed, CounterInBlock

(* The steps of the compiler.  One that ends the compilation has met NULL. *)
Onward == status' = status /\ machine' = machine

LEMMA CompileFrame ==
  /\ EmitExpr \/ EmitOper \/ FinishOper => status = "compiling" /\ Onward
  /\ FinishExpr => status = "compiling" /\ (Onward \/ (code.val = Null /\ Crash))
<1>1. \A c, f : Return(c) \/ Continue(c, f) => Onward
  BY DEF Return, Continue, Onward
<1>2. ASSUME EmitExpr PROVE status = "compiling" /\ Onward
  <2>1. status = "compiling"
    BY <1>2 DEF EmitExpr, EmitNumber, EmitText, EmitVarref, EmitInput, EmitEcho, EmitAssign,
                EmitUnary, EmitBinary, Emitting, Doing
  <2>2. (\E c : Return(c)) \/ (\E c, f : Continue(c, f))
    BY <1>2, Zenon DEF EmitExpr, EmitNumber, EmitText, EmitVarref, EmitInput, EmitEcho,
                EmitAssign, EmitUnary, EmitBinary
  <2>3. QED
    BY <1>1, <2>1, <2>2
<1>3. ASSUME FinishExpr PROVE status = "compiling" /\ (Onward \/ (code.val = Null /\ Crash))
  <2>1. status = "compiling"
    BY <1>3 DEF FinishExpr, Printf, CreateStore, Unary, RightOperand, Binary, Doing
  <2>2. (\E c : Return(c)) \/ (\E c, f : Continue(c, f)) \/ (code.val = Null /\ Crash)
    BY <1>3, Zenon DEF FinishExpr, Printf, CreateStore, Unary, RightOperand, Binary
  <2>3. QED
    BY <1>1, <2>1, <2>2
<1>4. ASSUME EmitOper PROVE status = "compiling" /\ Onward
  <2>1. status = "compiling"
    BY <1>4 DEF EmitOper, EmitExprop, EmitExit, EmitBlock, EmitIf, EmitWhile, Emitting, Doing
  <2>2. (\E c : Return(c)) \/ (\E c, f : Continue(c, f))
    BY <1>4, Zenon DEF EmitOper, EmitExprop, EmitExit, EmitBlock, EmitIf, EmitWhile
  <2>3. QED
    BY <1>1, <2>1, <2>2
<1>5. ASSUME FinishOper PROVE status = "compiling" /\ Onward
  <2>1. status = "compiling"
    BY <1>5 DEF FinishOper, ThenBlock, ElseBlock, MergeBlock, LoopBlock, AfterBlock, Doing
  <2>2. (\E c : Return(c)) \/ (\E c, f : Continue(c, f))
    BY <1>5, Zenon DEF FinishOper, ThenBlock, ElseBlock, MergeBlock, LoopBlock, AfterBlock
  <2>3. QED
    BY <1>1, <2>1, <2>2
<1>6. QED
  BY <1>2, <1>3, <1>4, <1>5

LEMMA EmitSteps ==
  ASSUME IInv, EmitExpr \/ FinishExpr \/ EmitOper \/ FinishOper
  PROVE  IInv'
<1>1. status = "compiling" /\ (Onward \/ (code.val = Null /\ Crash))
  BY CompileFrame
<1>2. Good(code, todo) /\ machine.block = 1 /\ machine.next = 1 /\ IsMachine(machine)
  BY <1>1 DEF IInv
<1>3. CASE Onward
  <2>1. status' = "compiling" /\ machine' = machine
    BY <1>1, <1>3 DEF Onward
  <2>2. Good(code', todo')
    <3>1. ~ Crash
      BY <2>1 DEF Crash
    <3>2. QED
      BY <1>2, <3>1, ExprSteps, FinishExprSteps, OperSteps, FinishOperSteps
  <2>3. QED
    BY <1>2, <2>1, <2>2
       DEF IInv, Compiled, CrashOnlyOnUnknown, BlocksClosed, CounterInBlock
<1>4. CASE code.val = Null /\ Crash
  <2>1. status' = "crashed" /\ code' = code /\ machine' = machine
    BY <1>4 DEF Crash
  <2>2. code.unknown
    BY <1>2, <1>4 DEF Good
  <2>3. QED
    BY <1>2, <2>1, <2>2
       DEF IInv, Compiled, CrashOnlyOnUnknown, BlocksClosed, CounterInBlock
<1>5. QED
  BY <1>1, <1>3, <1>4

(* The return ends the last block; no frame is left to enter another.      *)
LEMMA ReturnCloses ==
  ASSUME IInv, CreateRetVoid
  PROVE  IInv'
<1> DEFINE c == code
           i == Instr("ret", 0, <<>>)
           d == Insert(code, i)
<1>1. /\ status = "compiling" /\ status' = "running" /\ todo = <<>> /\ code' = d
      /\ machine' = machine
  BY DEF CreateRetVoid
<1>2. /\ IsContext(c) /\ Layout(c, <<>>, {}) /\ IsMachine(machine)
      /\ machine.block = 1 /\ machine.next = 1
  BY <1>1 DEF IInv, Good
<1>3. i.op \in Terminators /\ Targets(i) = {}
  BY DEF Instr, Terminators, Targets
<1>4. BlocksOk(c) /\ c.at \in DOMAIN c.blocks
  BY <1>2 DEF Layout, BlocksOk
<1>5. AllClosed(c, c.inside)
  <2>1. Entered(<<>>) = {}
    BY DEF Entered
  <2>2. c.inside \cup Entered(<<>>) \cup {} = c.inside
    BY <2>1
  <2>3. QED
    BY <1>2, <2>2 DEF Layout
<1> HIDE DEF c, i
<1>6. /\ \E S : d.blocks \in Seq(Seq(S))
      /\ DOMAIN d.blocks = DOMAIN c.blocks
      /\ d.blocks[c.at] = Append(c.blocks[c.at], i)
      /\ \A b \in DOMAIN c.blocks : b # c.at => d.blocks[b] = c.blocks[b]
      /\ \E S : c.blocks[c.at] \in Seq(S)
  BY <1>2, <1>4, InsertFacts DEF c
<1>7. d.inside = c.inside
  BY <1>2, InsertContext DEF c
<1> HIDE DEF d
<1>8. Listed(d) /\ 1 \in d.inside
  BY <1>4, <1>6, <1>7 DEF Listed, BlocksOk
<1>9. \A b \in d.inside : Closed(d.blocks[b], d.inside)
  <2>1. Closed(d.blocks[c.at], d.inside)
    <3>1. Straight(c.blocks[c.at])
      BY <1>4 DEF BlocksOk
    <3>2. QED
      BY <1>3, <1>6, <3>1, ClosedAppend
  <2>2. ASSUME NEW b \in d.inside, b # c.at PROVE Closed(d.blocks[b], d.inside)
    <3>1. b \in c.inside /\ b \in DOMAIN c.blocks
      BY <1>4, <1>7, <2>2 DEF BlocksOk
    <3>2. Closed(c.blocks[b], c.inside)
      BY <1>5, <2>2, <3>1 DEF AllClosed
    <3>3. QED
      BY <1>6, <1>7, <2>2, <3>1, <3>2
  <2>3. QED
    BY <2>1, <2>2
<1>10. 1 \in DOMAIN d.blocks[1]
  <2>1. PICK S : d.blocks \in Seq(Seq(S))
    BY <1>6
  <2>2. 1 \in DOMAIN d.blocks
    BY <1>8 DEF Listed
  <2>3. d.blocks[1] \in Seq(S)
    BY <2>1, <2>2
  <2>4. d.blocks[1] # <<>>
    BY <1>8, <1>9 DEF Closed
  <2>5. QED
    BY <2>3, <2>4
<1>11. QED
  BY <1>1, <1>2, <1>8, <1>9, <1>10
     DEF IInv, Compiled, CrashOnlyOnUnknown, BlocksClosed, CounterInBlock, d

-----------------------------------------------------------------------------
(* The machine.  What changes in it beside the counter.                    *)
Stays(m, n) == IsMachine(m) /\ m.block = n.block /\ m.next = n.next

LEMMA AdvanceFacts ==
  ASSUME NEW m, IsMachine(m)
  PROVE  IsMachine(Advance(m)) /\ Advance(m).block = m.block /\ Advance(m).next = m.next + 1
BY DEF Advance, IsMachine, MachineFields

LEMMA ResultFacts ==
  ASSUME NEW m, IsMachine(m), NEW v
  PROVE  \E n : Stays(n, m) /\ Result(m, v) = Advance(n)
<1> DEFINE n == [m EXCEPT !.regs = Written(@, Current.dst, v)]
<1>1. Stays(n, m)
  BY DEF Stays, IsMachine, MachineFields
<1>2. Result(m, v) = Advance(n)
  BY DEF Result
<1> HIDE DEF n
<1>3. QED
  BY <1>1, <1>2

LEMMA ScannedFacts == ASSUME NEW m, IsMachine(m) PROVE Stays(Scanned(m), m)
BY DEF Scanned, Stays, IsMachine, MachineFields

(* An instruction that is no terminator is not the last of its block.      *)
LEMMA CounterFacts ==
  ASSUME IInv, status = "running"
  PROVE  /\ machine.block \in code.inside /\ machine.next \in DOMAIN code.blocks[machine.block]
         /\ Current.op \notin Terminators =>
              machine.next + 1 \in DOMAIN code.blocks[machine.block]
         /\ Current.op \in Terminators => Targets(Current) \subseteq code.inside
<1> DEFINE b == machine.block
           n == machine.next
           is == code.blocks[b]
<1>1. b \in code.inside /\ n \in DOMAIN is
  BY DEF IInv, CounterInBlock, Compiled
<1>2. Closed(is, code.inside)
  BY <1>1 DEF IInv, BlocksClosed, Compiled
<1>3. Listed(code)
  BY DEF IInv, Compiled
<1>4. PICK S : code.blocks \in Seq(Seq(S))
  BY <1>3 DEF Listed
<1>5. is \in Seq(S)
  BY <1>1, <1>3, <1>4 DEF Listed
<1>6. Current = is[n]
  BY DEF Current
<1>7. Current.op \in Terminators <=> n = Len(is)
  BY <1>1, <1>2, <1>6 DEF Closed
<1>8. Targets(is[Len(is)]) \subseteq code.inside
  BY <1>2 DEF Closed
<1> HIDE DEF b, n, is
<1>9. n # Len(is) => n + 1 \in DOMAIN is
  BY <1>1, <1>5
<1>10. QED
  BY <1>1, <1>6, <1>7, <1>8, <1>9 DEF b, n, is

LEMMA GoesOn ==
  ASSUME IInv, status = "running", status' = status, code' = code,
         IsMachine(machine'), machine'.block \in code.inside,
         machine'.next \in DOMAIN code.blocks[machine'.block]
  PROVE  IInv'
BY DEF IInv, Compiled, CrashOnlyOnUnknown, BlocksClosed, CounterInBlock

LEMMA GoesBy ==
  ASSUME IInv, status = "running", Current.op \notin Terminators, Same, UNCHANGED status,
         NEW m, Stays(m, machine), machine' = Advance(m)
  PROVE  IInv'
<1>1. /\ machine.block \in code.inside /\ machine.next + 1 \in DOMAIN code.blocks[machine.block]
  BY CounterFacts
<1>2. IsMachine(machine') /\ machine'.block = machine.block /\ machine'.next = machine.next + 1
  BY AdvanceFacts DEF Stays
<1>3. QED
  BY <1>1, <1>2, GoesOn DEF Same

(* The first instruction of a block that is in the function.               *)
LEMMA GoesTo ==
  ASSUME IInv, status = "running", Same, UNCHANGED status, NEW b \in code.inside, Goto(b)
  PROVE  IInv'
<1>1. IsMachine(machine') /\ machine'.block = b /\ machine'.next = 1
  BY DEF Goto, IInv, IsMachine, MachineFields
<1>2. Listed(code) /\ Closed(code.blocks[b], code.inside)
  BY DEF IInv, Compiled, BlocksClosed
<1>3. PICK S : code.blocks \in Seq(Seq(S))
  BY <1>2 DEF Listed
<1>4. code.blocks[b] \in Seq(S)
  BY <1>2, <1>3 DEF Listed
<1>5. 1 \in DOMAIN code.blocks[b]
  BY <1>2, <1>4 DEF Closed
<1>6. QED
  BY <1>1, <1>5, GoesOn DEF Same

LEMMA RunSteps ==
  ASSUME IInv, Run
  PROVE  IInv'
<1>1. IsMachine(machine)
  BY DEF IInv
<1>2. CASE Load
  <2>1. Current.op \notin Terminators /\ status = "running" /\ Same /\ UNCHANGED status
    BY <1>2 DEF Load, Fetch, Terminators
  <2>2. \E n : Stays(n, machine) /\ machine' = Advance(n)
    BY <1>1, <1>2, ResultFacts DEF Load
  <2>3. QED
    BY <2>1, <2>2, GoesBy
<1>3. CASE Store
  <2> DEFINE m == [machine EXCEPT !.mem = Written(@, Current.args[1], Operand(Current.args[2]))]
  <2>1. Current.op \notin Terminators /\ status = "running" /\ Same /\ UNCHANGED status
    BY <1>3 DEF Store, Fetch, Terminators
  <2>2. Stays(m, machine)
    BY <1>1 DEF Stays, IsMachine, MachineFields
  <2>3. machine' = Advance(m)
    BY <1>3 DEF Store
  <2> HIDE DEF m
  <2>4. QED
    BY <2>1, <2>2, <2>3, GoesBy
<1>4. CASE Compute
  <2>1. Current.op \notin Terminators /\ status = "running" /\ Same /\ UNCHANGED status
    BY <1>4 DEF Compute, Fetch, Terminators
  <2>2. \E v : machine' = Result(machine, v)
    BY <1>4 DEF Compute
  <2>3. \E n : Stays(n, machine) /\ machine' = Advance(n)
    BY <1>1, <2>2, ResultFacts
  <2>4. QED
    BY <2>1, <2>3, GoesBy
<1>5. CASE Scan
  <2>1. Current.op \notin Terminators /\ status = "running" /\ Same /\ UNCHANGED status
    BY <1>5 DEF Scan, Fetch, Terminators
  <2>2. \E n : Stays(n, machine) /\ machine' = Advance(n)
    BY <1>1, <1>5, ResultFacts, ScannedFacts DEF Scan
  <2>3. QED
    BY <2>1, <2>2, GoesBy
<1>6. CASE PrintValue
  <2> DEFINE m == [machine EXCEPT !.out = Append(@, Operand(Current.args[1]))]
  <2>1. Current.op \notin Terminators /\ status = "running" /\ Same /\ UNCHANGED status
    BY <1>6 DEF PrintValue, Fetch, Terminators
  <2>2. Stays(m, machine)
    BY <1>1 DEF Stays, IsMachine, MachineFields
  <2>3. machine' = Advance(m)
    BY <1>6 DEF PrintValue
  <2> HIDE DEF m
  <2>4. QED
    BY <2>1, <2>2, <2>3, GoesBy
<1>7. CASE Stop
  <2>1. status = "running" /\ status' = "done" /\ code' = code /\ machine' = machine
    BY <1>7 DEF Stop, Fetch, Same
  <2>2. QED
    BY <2>1 DEF IInv, Compiled, CrashOnlyOnUnknown, BlocksClosed, CounterInBlock
<1>8. CASE Jump
  <2>1. /\ status = "running" /\ Same /\ UNCHANGED status /\ Current.op = "br"
        /\ Goto(Current.args[1])
    BY <1>8 DEF Jump, Fetch
  <2>2. Current.args[1] \in code.inside
    BY <2>1, CounterFacts DEF Targets, Terminators
  <2>3. QED
    BY <2>1, <2>2, GoesTo
<1>9. CASE Branch
  <2>1. status = "running" /\ Same /\ Current.op = "condbr"
    BY <1>9 DEF Branch, Fetch
  <2>2. Current.args[2] \in code.inside /\ Current.args[3] \in code.inside
    BY <2>1, CounterFacts DEF Targets, Terminators
  <2>3. CASE status' = "undefined" /\ UNCHANGED machine
    BY <2>1, <2>3
       DEF Same, IInv, Compiled, CrashOnlyOnUnknown, BlocksClosed, CounterInBlock
  <2>4. CASE /\ Goto(IF Operand(Current.args[1]) # 0 THEN Current.args[2] ELSE Current.args[3])
             /\ UNCHANGED status
    BY <2>1, <2>2, <2>4, GoesTo
  <2>5. QED
    BY <1>9, <2>3, <2>4 DEF Branch
<1>10. QED
  BY <1>2, <1>3, <1>4, <1>5, <1>6, <1>7, <1>8, <1>9 DEF Run

LEMMA Invariance == Spec => []IInv
<1>1. IInv /\ [Next]_vars => IInv'
  <2>1. ASSUME IInv, Next PROVE IInv'
    BY <2>1, EmitSteps, ReturnCloses, RunSteps DEF Next, Compile
  <2>2. ASSUME IInv, UNCHANGED vars PROVE IInv'
    BY <2>2 DEF vars, IInv, Compiled, CrashOnlyOnUnknown, BlocksClosed, CounterInBlock
  <2>3. QED
    BY <2>1, <2>2
<1>2. QED
  BY InitInv, <1>1, PTL DEF Spec

-----------------------------------------------------------------------------
(* Whatever the program, every block of the function that is compiled ends *)
(* in its only terminator, and jumps to none that is not in the function   *)
(* (ifop 116-148, whileop 160-184).                                        *)
THEOREM BlocksAlwaysClosed == Spec => []BlocksClosed
<1>1. IInv => BlocksClosed
  BY DEF IInv
<1>2. QED
  BY <1>1, Invariance, PTL

(* The compiled program never runs off the end of a block, nor into one    *)
(* that is not in the function.                                            *)
THEOREM CounterStays == Spec => []CounterInBlock
<1>1. IInv => CounterInBlock
  BY DEF IInv
<1>2. QED
  BY <1>1, Invariance, PTL

(* The compiler dereferences NULL only when the program names a variable   *)
(* no earlier text assigns: no other emit returns one to its caller        *)
(* (assign 257-267, funcall 344-369).                                      *)
THEOREM CrashesOnUnknown == Spec => []CrashOnlyOnUnknown
<1>1. IInv => CrashOnlyOnUnknown
  BY DEF IInv
<1>2. QED
  BY <1>1, Invariance, PTL
=============================================================================

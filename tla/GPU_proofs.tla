------------------------------ MODULE GPU_proofs ------------------------------
(***************************************************************************)
(* Proofs about GPU and its Beam, for any commands, blocks and displays.   *)
(***************************************************************************)
EXTENDS GPU, SequenceTheorems, TLAPS

------------------------------------------------------------------------------
(* The invariant of the queue.                                              *)

Given == GP0Commands \cup {Null}

\* The words in the queue follow each other, to the end of their command and then the next.
InOrder(q) ==
  /\ \A i \in 1..Len(q) : q[i].n <= Total(q[i].of)
  /\ \A i, j \in 1..Len(q) :
       i <= j /\ j - i <= Total(q[i].of) - q[i].n => q[j] = [of |-> q[i].of, n |-> q[i].n + (j - i)]
  /\ \A i, j \in 1..Len(q) : j = i + 1 /\ IsLast(q[i]) => q[j].n = 1

\* They come after the last word taken, and the game goes on after them.
Between(last, q, wrote) ==
  IF q = <<>> THEN wrote = last ELSE IsNext(last, q[1]) /\ wrote = Ended(q[Len(q)])

\* What the queue is at, and the last word it has taken.
AtImage(g, last) ==
  /\ last.of.family = "upload" /\ last.n >= Entry(last.of).len /\ g.left > 0
  /\ g.left = Pixels(last.of) - 2 * (last.n - Entry(last.of).len)
AtQuad(g, last) ==
  g.InCmd_CC.family = "polygon" /\ g.InCmd_CC.more = 1 /\ last = [of |-> g.InCmd_CC, n |-> Entry(g.InCmd_CC).len]
AtPolyline(g, last) ==
  /\ IsPolyline(g.InCmd_CC) /\ last.of = g.InCmd_CC /\ last.n >= Entry(last.of).len
  /\ (Total(last.of) - 1 - last.n) % PointLen(last.of) = 0
AtPart(g, last) ==
  /\ last.n <= Total(last.of)
  /\ IF g.InCmd \in {"NONE", "FBREAD"} THEN last = Nothing ELSE ~IsLast(last)
  /\ g.InCmd = "FBREAD" => g.left > 0
  /\ g.InCmd = "FBWRITE" => AtImage(g, last)
  /\ g.InCmd = "QUAD" => AtQuad(g, last)
  /\ g.InCmd = "PLINE" => AtPolyline(g, last)

\* A block has the room that its sender saw: if more words are there than it has written, they
\* are fewer than the waiting command lets in.
HasRoom(g, room) ==
  \/ room = 0
  \/ Len(g.fifo) <= Room - room
  \/ /\ g.InCmd = "NONE" /\ g.fifo # <<>>
     /\ Len(g.fifo) < Entry(CommandOf(g.fifo[1])).fifo_fb_len + Room - room

Queued(g, last, wrote) == InOrder(g.fifo) /\ Between(last, g.fifo, wrote) /\ AtPart(g, last)

QueueInv ==
  /\ Queued(gpu, parsed.last, sender.wrote)
  /\ HasRoom(gpu, sender.room)
  /\ ~parsed.mixed

BeamInv ==
  /\ beam.lines >= 2 /\ beam.scanline < beam.lines
  /\ frame = "running" /\ beam.reached => beam.scanline + 1 < beam.lines
  /\ ~beam.failed

IInv == GPU_TypeOK /\ QueueInv /\ BeamInv
------------------------------------------------------------------------------
(* The table of commands.                                                   *)

LEMMA GivenType == Given \subseteq CommandSet /\ Null \in Given
<1>1. GP0Commands \subseteq CommandSet BY GPUAssumption
<1>2. Null \in CommandSet BY DEF Null, CommandSet, Families
<1> QED BY <1>1, <1>2 DEF Given

LEMMA GivenMore ==
  ASSUME NEW c \in Given, c.family \in {"polygon", "sprite"} PROVE c.more \in {0, 1}
<1>1. c \in CommandSet /\ c.more \in Nat BY GivenType DEF CommandSet
<1>2. c # Null BY DEF Null
<1>3. c.more <= 1 BY <1>2, GPUAssumption DEF Given
<1> QED BY <1>1, <1>3

\* A product of two positive numbers is positive.
LEMMA Products == \A m, n \in Nat \ {0} : m * n \in Nat \ {0}
OBVIOUS

LEMMA PixelsType ==
  ASSUME NEW c \in Given
  PROVE  /\ Pixels(c) \in Nat
         /\ c.family = "upload" => Pixels(c) > 0
<1> DEFINE w == WidthOf(c)
           up == IF c.height % High = 0 THEN High ELSE c.height % High
           down == IF c.height > High THEN c.height % High ELSE c.height
<1>1. c \in CommandSet BY GivenType
<1>2. c.width \in Nat /\ c.height \in Nat BY <1>1 DEF CommandSet
<1>3. w \in Nat \ {0} BY <1>2, GPUAssumption DEF WidthOf
<1>4. c.height % High \in Nat BY <1>2, GPUAssumption
<1>5. up \in Nat \ {0} /\ down \in Nat BY <1>2, <1>4, GPUAssumption
<1> HIDE DEF w, up, down
<1>6. w * up \in Nat \ {0} BY <1>3, <1>5, Products
<1>7. w * down \in Nat BY <1>3, <1>5
<1> QED BY <1>6, <1>7 DEF Pixels, w, up, down

\* What is taken at once is at least one word and not more than there is; what counts as room
\* is at most one word more than that.
LEMMA EntryType ==
  ASSUME NEW c \in Given
  PROVE  /\ Entry(c).len \in Nat \ {0} /\ Entry(c).fifo_fb_len \in Nat
         /\ Entry(c).fifo_fb_len <= Entry(c).len + 1
         /\ Entry(c).ss_cmd \in BOOLEAN
<1>1. c \in CommandSet BY GivenType
<1>2. c.family \in Families /\ c.shaded \in BOOLEAN /\ c.textured \in BOOLEAN /\ c.more \in Nat
  BY <1>1 DEF CommandSet
<1>3. Bit(c.shaded) \in {0, 1} /\ Bit(c.textured) \in {0, 1} BY <1>2 DEF Bit
<1>4. c.family = "sprite" => c.more \in {0, 1} BY GivenMore
<1>5. CASE c.family = "null"
  <2>1. Entry(c) = [len |-> 1, fifo_fb_len |-> 1, ss_cmd |-> TRUE] BY <1>5 DEF Entry
  <2> QED BY <2>1
<1>6. CASE c.family = "mode"
  <2>1. Entry(c) = [len |-> 1, fifo_fb_len |-> 2, ss_cmd |-> FALSE] BY <1>6 DEF Entry
  <2> QED BY <2>1
<1>7. CASE c.family = "irq"
  <2>1. Entry(c) = [len |-> 1, fifo_fb_len |-> 1, ss_cmd |-> FALSE] BY <1>7 DEF Entry
  <2> QED BY <2>1
<1>8. CASE c.family = "fill"
  <2>1. Entry(c) = [len |-> 3, fifo_fb_len |-> 3, ss_cmd |-> FALSE] BY <1>8 DEF Entry
  <2> QED BY <2>1
<1>9. CASE c.family = "copy"
  <2>1. Entry(c) = [len |-> 4, fifo_fb_len |-> 2, ss_cmd |-> FALSE] BY <1>9 DEF Entry
  <2> QED BY <2>1
<1>10. CASE c.family \in {"upload", "readback"}
  <2>1. Entry(c) = [len |-> 3, fifo_fb_len |-> 2, ss_cmd |-> FALSE] BY <1>10 DEF Entry
  <2> QED BY <2>1
<1>11. CASE c.family = "polygon"
  <2>1. Entry(c) = [len |-> 1 + 3 * (1 + Bit(c.textured) + Bit(c.shaded)) - Bit(c.shaded),
                    fifo_fb_len |-> 1, ss_cmd |-> FALSE] BY <1>11 DEF Entry
  <2> QED BY <2>1, <1>3
<1>12. CASE c.family = "sprite"
  <2>1. Entry(c) = [len |-> 2 + Bit(c.textured) + c.more,
                    fifo_fb_len |-> IF c.textured \/ c.more = 1 THEN 3 ELSE 2, ss_cmd |-> FALSE]
    BY <1>12 DEF Entry
  <2>2. c.textured => Bit(c.textured) = 1 BY DEF Bit
  <2>3. Entry(c).len = 2 + Bit(c.textured) + c.more /\ Entry(c).ss_cmd \in BOOLEAN
        /\ Entry(c).fifo_fb_len = IF c.textured \/ c.more = 1 THEN 3 ELSE 2 BY <2>1
  <2>4. c.more \in {0, 1} BY <1>4, <1>12
  <2>5. CASE c.textured \/ c.more = 1
    <3>1. Entry(c).fifo_fb_len = 3 BY <2>3, <2>5
    <3>2. Bit(c.textured) + c.more >= 1 BY <1>3, <2>2, <2>4, <2>5
    <3> QED BY <2>3, <2>4, <1>3, <3>1, <3>2
  <2>6. CASE ~(c.textured \/ c.more = 1)
    <3>1. Entry(c).fifo_fb_len = 2 BY <2>3, <2>6
    <3> QED BY <2>3, <2>4, <1>3, <3>1
  <2> QED BY <2>5, <2>6
<1>13. CASE c.family = "line"
  <2>1. Entry(c) = [len |-> 3 + Bit(c.shaded), fifo_fb_len |-> 1, ss_cmd |-> FALSE] BY <1>13 DEF Entry
  <2> QED BY <2>1, <1>3
<1> QED BY <1>2, <1>5, <1>6, <1>7, <1>8, <1>9, <1>10, <1>11, <1>12, <1>13 DEF Families

LEMMA TotalType ==
  ASSUME NEW c \in Given
  PROVE  /\ Total(c) \in Nat /\ Total(c) >= Entry(c).len
         /\ ~(c.family = "upload" \/ (c.family = "polygon" /\ c.more = 1) \/ IsPolyline(c)) => Total(c) = Entry(c).len
         /\ c.family = "upload" => Total(c) = Entry(c).len + (Pixels(c) + 1) \div 2
         /\ c.family = "polygon" /\ c.more = 1 => Total(c) = Entry(c).len + CornerLen(c)
         /\ IsPolyline(c) => /\ Total(c) >= Entry(c).len + 1
                             /\ (Total(c) - 1 - Entry(c).len) % PointLen(c) = 0
         /\ PointLen(c) \in {1, 2} /\ CornerLen(c) \in {1, 2, 3}
<1>1. c \in CommandSet BY GivenType
<1>2. c.family \in Families /\ c.shaded \in BOOLEAN /\ c.textured \in BOOLEAN /\ c.more \in Nat
  BY <1>1 DEF CommandSet
<1>3. Bit(c.shaded) \in {0, 1} /\ Bit(c.textured) \in {0, 1} BY <1>2 DEF Bit
<1>4. PointLen(c) \in {1, 2} /\ CornerLen(c) \in {1, 2, 3} BY <1>3 DEF PointLen, CornerLen
<1>5. c.family = "polygon" => c.more \in {0, 1} BY GivenMore
<1>6. Entry(c).len \in Nat BY EntryType
<1>7. Pixels(c) \in Nat BY PixelsType
<1> DEFINE len == Entry(c).len
<1> HIDE DEF len
<1>8. CASE c.family = "polygon"
  <2>1. Total(c) = len + c.more * CornerLen(c) BY <1>8 DEF Total, len
  <2>2. c.more * CornerLen(c) = IF c.more = 1 THEN CornerLen(c) ELSE 0 BY <1>4, <1>5, <1>8
  <2>3. ~IsPolyline(c) BY <1>8 DEF IsPolyline
  <2> QED BY <1>4, <1>5, <1>6, <1>8, <2>1, <2>2, <2>3 DEF len
<1>9. CASE c.family = "upload"
  <2>1. Total(c) = len + (Pixels(c) + 1) \div 2 BY <1>9 DEF Total, len
  <2>2. ~IsPolyline(c) BY <1>9 DEF IsPolyline
  <2> QED BY <1>4, <1>6, <1>7, <1>9, <2>1, <2>2 DEF len
<1>10. CASE IsPolyline(c)
  <2>1. Total(c) = len + ((c.more - 1) * PointLen(c) + 1) BY <1>10 DEF Total, len, IsPolyline
  <2>2. c.more - 1 \in Nat BY <1>2, <1>10 DEF IsPolyline
  <2>3. CASE PointLen(c) = 1 BY <1>4, <1>6, <1>10, <2>1, <2>2, <2>3 DEF len, IsPolyline
  <2>4. CASE PointLen(c) = 2 BY <1>4, <1>6, <1>10, <2>1, <2>2, <2>4 DEF len, IsPolyline
  <2> QED BY <1>4, <2>3, <2>4
<1>11. CASE c.family = "line" /\ ~IsPolyline(c)
  BY <1>4, <1>6, <1>11 DEF Total
<1>12. CASE c.family \notin {"polygon", "upload", "line"}
  <2>1. Total(c) = Entry(c).len BY <1>12 DEF Total
  <2> QED BY <2>1, <1>4, <1>6, <1>12 DEF IsPolyline
<1> QED BY <1>8, <1>9, <1>10, <1>11, <1>12

------------------------------------------------------------------------------
(* Words that follow each other.                                            *)

LEMMA NothingType == Nothing \in Words /\ IsLast(Nothing) /\ Nothing.n <= Total(Nothing.of)
<1>1. Null \in Given /\ Null.family = "null" BY GivenType DEF Null
<1>2. Total(Null) = Entry(Null).len BY <1>1 DEF Total
<1>3. Entry(Null).len = 1
  <2>1. Entry(Null) = [len |-> 1, fifo_fb_len |-> 1, ss_cmd |-> TRUE] BY <1>1 DEF Entry
  <2> QED BY <2>1
<1> QED BY <1>1, <1>2, <1>3 DEF Nothing, Words, IsLast, Given

LEMMA EndedType ==
  ASSUME NEW w \in Words, w.n <= Total(w.of)
  PROVE  /\ Ended(w) \in Words /\ Ended(w).n <= Total(Ended(w).of)
         /\ IsLast(w) => Ended(w) = Nothing
         /\ ~IsLast(w) => Ended(w) = w
BY NothingType DEF Ended

LEMMA Neighbours ==
  ASSUME NEW q \in Seq(Words), InOrder(q), NEW i \in 1..Len(q), i + 1 <= Len(q)
  PROVE  IsNext(q[i], q[i + 1])
<1>1. q[i] \in Words /\ i + 1 \in 1..Len(q) BY ElementOfSeq
<1>2. Total(q[i].of) \in Nat BY <1>1, TotalType DEF Words, Given
<1>3. CASE IsLast(q[i]) BY <1>1, <1>3 DEF InOrder, IsNext
<1>4. CASE ~IsLast(q[i])
  <2>1. q[i].n < Total(q[i].of) BY <1>1, <1>2, <1>4 DEF InOrder, IsLast, Words
  <2>2. (i + 1) - i <= Total(q[i].of) - q[i].n BY <1>1, <1>2, <2>1 DEF Words
  <2>3. q[i + 1] = [of |-> q[i].of, n |-> q[i].n + ((i + 1) - i)] BY <1>1, <2>2 DEF InOrder
  <2>4. (i + 1) - i = 1 OBVIOUS
  <2> QED BY <1>4, <2>3, <2>4 DEF IsNext
<1> QED BY <1>3, <1>4

\* What is left when words are taken is in order, and comes after the last of them.
LEMMA TakeKeeps ==
  ASSUME NEW q \in Seq(Words), NEW last, NEW wrote, InOrder(q), Between(last, q, wrote), NEW n \in 1..Len(q),
         NEW r, r = SubSeq(q, n + 1, Len(q))
  PROVE  /\ r \in Seq(Words) /\ Len(r) = Len(q) - n
         /\ InOrder(r)
         /\ Between(Ended(q[n]), r, wrote)
<1>1. /\ r \in Seq(Words) /\ Len(r) = Len(q) - n /\ \A i \in 1..Len(r) : r[i] = q[i + n]
      /\ Len(q) \in Nat /\ Len(r) \in Nat
      /\ \A i \in 1..Len(r) : i + n \in 1..Len(q)
  <2>1. Len(q) \in Nat BY LenProperties
  <2>2. \A i \in (n + 1)..Len(q) : q[i] \in Words BY ElementOfSeq
  <2>3. /\ SubSeq(q, n + 1, Len(q)) \in Seq(Words)
        /\ Len(SubSeq(q, n + 1, Len(q))) = IF n + 1 <= Len(q) THEN Len(q) - (n + 1) + 1 ELSE 0
        /\ \A i \in 1..(Len(q) - (n + 1) + 1) : SubSeq(q, n + 1, Len(q))[i] = q[(n + 1) + i - 1]
    BY <2>1, <2>2, SubSeqProperties
  <2>4. Len(r) = Len(q) - n BY <2>1, <2>3
  <2>5. \A i \in 1..Len(r) : r[i] = q[i + n]
    <3>1. ASSUME NEW i \in 1..Len(r) PROVE r[i] = q[i + n]
      <4>1. i \in 1..(Len(q) - (n + 1) + 1) /\ (n + 1) + i - 1 = i + n BY <2>1, <2>4
      <4> QED BY <4>1, <2>3
    <3> QED BY <3>1
  <2> QED BY <2>1, <2>3, <2>4, <2>5
<1>2. InOrder(r)
  <2>1. ASSUME NEW i \in 1..Len(r) PROVE r[i].n <= Total(r[i].of)
    <3>1. r[i] = q[i + n] /\ i + n \in 1..Len(q) BY <1>1
    <3> QED BY <3>1 DEF InOrder
  <2>2. ASSUME NEW i \in 1..Len(r), NEW j \in 1..Len(r), i <= j, j - i <= Total(r[i].of) - r[i].n
        PROVE  r[j] = [of |-> r[i].of, n |-> r[i].n + (j - i)]
    <3>1. i + n \in 1..Len(q) /\ j + n \in 1..Len(q) /\ i + n <= j + n BY <1>1, <2>2
    <3>2. (j + n) - (i + n) = j - i OBVIOUS
    <3>3. r[i] = q[i + n] /\ r[j] = q[j + n] BY <1>1
    <3> QED BY <3>1, <3>2, <3>3, <2>2 DEF InOrder
  <2>3. ASSUME NEW i \in 1..Len(r), NEW j \in 1..Len(r), j = i + 1, IsLast(r[i]) PROVE r[j].n = 1
    <3>1. i + n \in 1..Len(q) /\ j + n \in 1..Len(q) /\ j + n = (i + n) + 1 BY <1>1, <2>3
    <3>2. r[i] = q[i + n] /\ r[j] = q[j + n] BY <1>1
    <3> QED BY <3>1, <3>2, <2>3 DEF InOrder
  <2> QED BY <2>1, <2>2, <2>3 DEF InOrder
<1>3. Between(Ended(q[n]), r, wrote)
  <2>1. q # <<>> /\ wrote = Ended(q[Len(q)]) BY DEF Between
  <2>2. CASE n = Len(q)
    <3>1. r = <<>> BY <1>1, <2>2, EmptySeq
    <3> QED BY <2>1, <2>2, <3>1 DEF Between
  <2>3. CASE n # Len(q)
    <3>1. n + 1 <= Len(q) /\ Len(r) >= 1 BY <1>1, <2>3
    <3>2. 1 \in 1..Len(r) /\ Len(r) \in 1..Len(r) BY <1>1, <3>1
    <3>7. r # <<>>
      <4>1. Len(<<>>) = 0 BY EmptySeq, Zenon
      <4>2. ~(0 >= 1) OBVIOUS
      <4> QED BY <3>1, <4>1, <4>2, Zenon
    <3>6. r[1] = q[1 + n] /\ r[Len(r)] = q[Len(r) + n]
      <4>1. \A i \in 1..Len(r) : r[i] = q[i + n] BY <1>1
      <4> QED BY <4>1, <3>2
    <3>3. 1 + n = n + 1 /\ Len(r) + n = Len(q) BY <1>1
    <3>4. IsNext(q[n], q[n + 1]) BY <3>1, Neighbours
    <3>5. IsNext(Ended(q[n]), q[n + 1])
      BY <3>4, NothingType DEF IsNext, Ended
    <3> QED BY <2>1, <3>2, <3>6, <3>7, <3>3, <3>5 DEF Between
  <2> QED BY <2>2, <2>3
<1> QED BY <1>1, <1>2, <1>3

\* The word that is next to write goes on with the queue.
LEMMA AppendKeeps ==
  ASSUME NEW q \in Seq(Words), NEW last, NEW wrote, InOrder(q), Between(last, q, wrote),
         NEW w \in Words, w.n <= Total(w.of), IsNext(wrote, w),
         NEW r, r = Append(q, w)
  PROVE  /\ r \in Seq(Words) /\ Len(r) = Len(q) + 1 /\ r # <<>>
         /\ InOrder(r)
         /\ Between(last, r, Ended(w))
<1> DEFINE L == Len(q)
<1>1. /\ r \in Seq(Words) /\ Len(r) = L + 1 /\ L \in Nat /\ r # <<>>
      /\ \A i \in 1..L : r[i] = q[i]
      /\ r[L + 1] = w
  BY AppendProperties, LenProperties
<1>2. ASSUME L > 0 PROVE IsNext(q[L], w)
  <2>1. q # <<>> BY <1>2, EmptySeq
  <2>2. wrote = Ended(q[L]) BY <2>1 DEF Between
  <2> QED BY <2>2, NothingType DEF Ended, IsNext
<1>3. ASSUME NEW i \in 1..L, NEW j \in 1..(L + 1), i <= j, j - i <= Total(q[i].of) - q[i].n
      PROVE  r[j] = [of |-> q[i].of, n |-> q[i].n + (j - i)]
  <2>4. q[i] \in Words BY ElementOfSeq
  <2>5. q[i].of \in Given /\ q[i].n \in Nat BY <2>4 DEF Words, Given
  <2>1. q[i] \in Words /\ Total(q[i].of) \in Nat /\ q[i].n \in Nat BY <2>4, <2>5, TotalType
  <2>2. CASE j \in 1..L BY <1>1, <1>3, <2>2 DEF InOrder
  <2>3. CASE j = L + 1
    <3>1. L \in 1..L /\ i <= L /\ L - i <= Total(q[i].of) - q[i].n BY <1>1, <1>3, <2>1, <2>3
    <3>2. q[L] = [of |-> q[i].of, n |-> q[i].n + (L - i)] BY <3>1 DEF InOrder
    <3>7. q[L].of = q[i].of /\ q[L].n = q[i].n + (L - i) BY <3>2
    <3>9. i \in Nat /\ L + 1 - i <= Total(q[i].of) - q[i].n BY <1>1, <1>3, <2>3
    <3>8. q[L].n < Total(q[L].of) BY <3>7, <3>9, <1>1, <2>1
    <3>3. ~IsLast(q[L]) BY <3>8, <3>7, <2>1, <1>1 DEF IsLast
    <3>4. w.of = q[L].of /\ w.n = q[L].n + 1 BY <3>3, <1>1, <1>2, <3>1 DEF IsNext
    <3>5. w.of = q[i].of /\ w.n = q[i].n + (j - i)
      <4>1. w.n = (q[i].n + (L - i)) + 1 BY <3>7, <3>4
      <4>2. (q[i].n + (L - i)) + 1 = q[i].n + (j - i) BY <3>9, <2>1, <2>3, <1>1
      <4> QED BY <3>7, <3>4, <4>1, <4>2
    <3>6. w = [of |-> w.of, n |-> w.n] BY DEF Words
    <3> QED BY <1>1, <2>3, <3>5, <3>6
  <2> QED BY <2>2, <2>3, <1>1
<1>4. InOrder(r)
  <2>1. ASSUME NEW i \in 1..Len(r) PROVE r[i].n <= Total(r[i].of)
    <3>1. CASE i \in 1..L BY <1>1, <3>1 DEF InOrder
    <3>2. CASE i = L + 1 BY <1>1, <3>2
    <3> QED BY <3>1, <3>2, <1>1
  <2>2. ASSUME NEW i \in 1..Len(r), NEW j \in 1..Len(r), i <= j, j - i <= Total(r[i].of) - r[i].n
        PROVE  r[j] = [of |-> r[i].of, n |-> r[i].n + (j - i)]
    <3>1. CASE i \in 1..L BY <1>1, <1>3, <2>2, <3>1
    <3>2. CASE i = L + 1
      <4>1. j = i /\ r[i] = w BY <1>1, <2>2, <3>2
      <4>2. w = [of |-> w.of, n |-> w.n + (j - i)] BY <4>1, <1>1 DEF Words
      <4> QED BY <4>1, <4>2
    <3> QED BY <3>1, <3>2, <1>1
  <2>3. ASSUME NEW i \in 1..Len(r), NEW j \in 1..Len(r), j = i + 1, IsLast(r[i]) PROVE r[j].n = 1
    <3>1. i \in 1..L /\ r[i] = q[i] BY <1>1, <2>3
    <3>2. CASE j \in 1..L BY <1>1, <2>3, <3>1, <3>2 DEF InOrder
    <3>3. CASE j = L + 1
      <4>1. i = L /\ L > 0 BY <1>1, <2>3, <3>1, <3>3
      <4> QED BY <1>1, <1>2, <2>3, <3>1, <3>3, <4>1 DEF IsNext
    <3> QED BY <3>2, <3>3, <1>1
  <2> QED BY <2>1, <2>2, <2>3 DEF InOrder
<1>5. Between(last, r, Ended(w))
  <2>1. r # <<>> /\ r[Len(r)] = w BY <1>1
  <2>2. CASE L = 0
    <3>1. q = <<>> BY <2>2, EmptySeq
    <3>2. wrote = last /\ r[1] = w BY <2>2, <3>1, <1>1 DEF Between
    <3> QED BY <2>1, <3>2 DEF Between
  <2>3. CASE L > 0
    <3>1. IsNext(last, q[1]) BY <2>3 DEF Between
    <3>2. r[1] = q[1] BY <1>1, <2>3
    <3> QED BY <2>1, <3>1, <3>2 DEF Between
  <2> QED BY <2>2, <2>3, <1>1
<1> QED BY <1>1, <1>4, <1>5

------------------------------------------------------------------------------
(* What a part of a command does with the queue.                            *)

GPUs == [fifo : Seq(Words), InCmd : {"NONE", "FBREAD", "FBWRITE", "QUAD", "PLINE"},
         InCmd_CC : Given, left : Nat, time : Int, IRQPending : BOOLEAN]

\* h is g after a part of a command, for which the first n words of the queue were taken.
Took(g, h, n) ==
  /\ h \in GPUs /\ h.time <= g.time
  /\ h.fifo = SubSeq(g.fifo, n + 1, Len(g.fifo))
  /\ Fits(g, SubSeq(g.fifo, 1, n))
  /\ AtPart(h, Ended(g.fifo[n]))
  /\ g.InCmd = "NONE" => n = Entry(g.fifo[1].of).len

LEMMA FirstWords ==
  ASSUME NEW q \in Seq(Words), NEW n \in 1..Len(q)
  PROVE  /\ Len(SubSeq(q, 1, n)) = n
         /\ \A i \in 1..n : SubSeq(q, 1, n)[i] = q[i]
<1>1. \A i \in 1..n : q[i] \in Words BY ElementOfSeq, LenProperties
<1>2. /\ Len(SubSeq(q, 1, n)) = IF 1 <= n THEN n - 1 + 1 ELSE 0
      /\ \A i \in 1..(n - 1 + 1) : SubSeq(q, 1, n)[i] = q[1 + i - 1]
  BY <1>1, SubSeqProperties
<1>3. n - 1 + 1 = n /\ \A i \in 1..n : 1 + i - 1 = i OBVIOUS
<1> QED BY <1>2, <1>3

LEMMA TakeType ==
  ASSUME NEW g \in GPUs, NEW n \in 1..Len(g.fifo), NEW cost \in Nat
  PROVE  LET h == Draw(Take(g, n), cost)
         IN /\ h \in GPUs /\ h.fifo = SubSeq(g.fifo, n + 1, Len(g.fifo)) /\ h.time = g.time - cost
            /\ h.InCmd = g.InCmd /\ h.InCmd_CC = g.InCmd_CC /\ h.left = g.left /\ h.IRQPending = g.IRQPending
<1>1. g.fifo \in Seq(Words) BY DEF GPUs
<1>2. Len(g.fifo) \in Nat /\ \A i \in (n + 1)..Len(g.fifo) : g.fifo[i] \in Words BY <1>1, LenProperties, ElementOfSeq
<1>3. SubSeq(g.fifo, n + 1, Len(g.fifo)) \in Seq(Words) BY <1>2, SubSeqProperties
<1>4. g.time - cost \in Int BY DEF GPUs
<1> DEFINE rest == SubSeq(g.fifo, n + 1, Len(g.fifo))
           h == Draw(Take(g, n), cost)
<1>5. h = [g EXCEPT !.fifo = rest, !.time = g.time - cost] BY DEF GPUs, Take, Draw
<1>6. rest \in Seq(Words) BY <1>3
<1> HIDE DEF rest, h
<1>7. /\ h \in GPUs /\ h.fifo = rest /\ h.time = g.time - cost
      /\ h.InCmd = g.InCmd /\ h.InCmd_CC = g.InCmd_CC /\ h.left = g.left /\ h.IRQPending = g.IRQPending
  BY <1>4, <1>5, <1>6 DEF GPUs
<1> QED BY <1>7 DEF rest, h

LEMMA FifoType ==
  ASSUME NEW g \in GPUs, g.fifo # <<>>
  PROVE  /\ Len(g.fifo) \in Nat \ {0} /\ 1 \in 1..Len(g.fifo)
         /\ Head(g.fifo) = g.fifo[1] /\ g.fifo[1] \in Words /\ g.fifo[1].of \in Given /\ g.fifo[1].n \in Nat
<1>1. g.fifo \in Seq(Words) BY DEF GPUs
<1>2. Len(g.fifo) \in Nat \ {0} BY <1>1, EmptySeq
<1>3. g.fifo[1] \in Words /\ Head(g.fifo) = g.fifo[1] BY <1>1, <1>2, ElementOfSeq, HeadTailProperties
<1> QED BY <1>2, <1>3 DEF Words, Given

LEMMA ExecuteStarts ==
  ASSUME NEW g \in GPUs, g.InCmd = "NONE", NEW c \in Given
  PROVE  /\ Execute(g, c) \in GPUs
         /\ Execute(g, c).fifo = g.fifo /\ Execute(g, c).time = g.time
         /\ AtPart(Execute(g, c), Ended([of |-> c, n |-> Entry(c).len]))
<1> DEFINE h == Execute(g, c)
           w == [of |-> c, n |-> Entry(c).len]
<1>1. Entry(c).len \in Nat \ {0} /\ Total(c) \in Nat /\ Entry(c).len <= Total(c) /\ Pixels(c) \in Nat
  BY EntryType, TotalType, PixelsType
<1>2. w \in Words /\ w.n <= Total(w.of) /\ w.of = c /\ w.n = Entry(c).len BY <1>1 DEF Words, Given
<1>3. /\ Ended(w).n <= Total(Ended(w).of)
      /\ IsLast(w) => Ended(w) = Nothing
      /\ ~IsLast(w) => Ended(w) = w
  BY <1>2, EndedType
<1>4. CASE c.family = "upload"
  <2>1. h = [g EXCEPT !.InCmd = "FBWRITE", !.left = Pixels(c)] BY <1>4 DEF Execute, IsPolyline
  <2>2. h \in GPUs /\ h.fifo = g.fifo /\ h.time = g.time /\ h.InCmd = "FBWRITE" /\ h.left = Pixels(c)
    BY <2>1, <1>1 DEF GPUs
  <2>3. Pixels(c) > 0 BY <1>4, PixelsType
  <2>4. Total(c) = Entry(c).len + (Pixels(c) + 1) \div 2 BY <1>4, TotalType
  <2>5. Total(c) # Entry(c).len BY <2>3, <2>4, <1>1
  <2>6. ~IsLast(w) BY <2>5, <1>2 DEF IsLast
  <2>7. Ended(w) = w BY <2>6, <1>3
  <2>9. w.n - Entry(w.of).len = 0 BY <1>1, <1>2
  <2>8. AtImage(h, w) BY <2>2, <2>3, <2>9, <1>1, <1>2, <1>4 DEF AtImage
  <2> QED BY <2>2, <2>6, <2>7, <2>8, <1>2 DEF AtPart
<1>5. CASE c.family = "polygon" /\ c.more > 0
  <2>1. h = [g EXCEPT !.InCmd = "QUAD", !.InCmd_CC = c] BY <1>5 DEF Execute, IsPolyline
  <2>2. h \in GPUs /\ h.fifo = g.fifo /\ h.time = g.time /\ h.InCmd = "QUAD" /\ h.InCmd_CC = c
    BY <2>1 DEF GPUs
  <2>3. c.more = 1 BY <1>5, GivenMore
  <2>4. Total(c) = Entry(c).len + CornerLen(c) /\ CornerLen(c) \in {1, 2, 3} BY <1>5, <2>3, TotalType
  <2>5. ~IsLast(w) BY <2>4, <1>1, <1>2 DEF IsLast
  <2>6. AtQuad(h, w) BY <2>2, <2>3, <1>5, Zenon DEF AtQuad
  <2> QED BY <2>2, <2>5, <2>6, <1>2, <1>3 DEF AtPart
<1>6. CASE IsPolyline(c)
  <2>1. h = [g EXCEPT !.InCmd = "PLINE", !.InCmd_CC = c] BY <1>6 DEF Execute, IsPolyline
  <2>2. h \in GPUs /\ h.fifo = g.fifo /\ h.time = g.time /\ h.InCmd = "PLINE" /\ h.InCmd_CC = c
    BY <2>1 DEF GPUs
  <2>3. Total(c) >= Entry(c).len + 1 /\ (Total(c) - 1 - Entry(c).len) % PointLen(c) = 0 BY <1>6, TotalType
  <2>4. ~IsLast(w) BY <2>3, <1>1, <1>2 DEF IsLast
  <2>5. AtPolyline(h, w) BY <2>2, <2>3, <1>1, <1>2, <1>6 DEF AtPolyline
  <2> QED BY <2>2, <2>4, <2>5, <1>2, <1>3 DEF AtPart
<1>7. CASE ~(c.family = "upload" \/ (c.family = "polygon" /\ c.more > 0) \/ IsPolyline(c))
  <2>1. Total(c) = Entry(c).len
    <3>1. ~(c.family = "polygon" /\ c.more = 1) BY <1>7
    <3> QED BY <3>1, <1>7, TotalType
  <2>2. Ended(w) = Nothing BY <2>1, <1>2, <1>3 DEF IsLast
  <2>3. CASE c.family = "irq"
    <3>1. h = [g EXCEPT !.IRQPending = TRUE] BY <2>3 DEF Execute, IsPolyline
    <3>2. h \in GPUs /\ h.fifo = g.fifo /\ h.time = g.time /\ h.InCmd = "NONE" BY <3>1 DEF GPUs
    <3> QED BY <2>2, <3>2, NothingType DEF AtPart
  <2>4. CASE c.family = "readback" /\ Pixels(c) > 0
    <3>1. h = [g EXCEPT !.InCmd = "FBREAD", !.left = Pixels(c)] BY <2>4 DEF Execute, IsPolyline
    <3>2. h \in GPUs /\ h.fifo = g.fifo /\ h.time = g.time /\ h.InCmd = "FBREAD" /\ h.left > 0
      BY <3>1, <2>4, <1>1 DEF GPUs
    <3> QED BY <2>2, <3>2, NothingType DEF AtPart
  <2>5. CASE c.family # "irq" /\ ~(c.family = "readback" /\ Pixels(c) > 0)
    <3>1. h = g BY <2>5, <1>7 DEF Execute, IsPolyline
    <3> QED BY <2>2, <3>1, NothingType DEF AtPart
  <2> QED BY <2>3, <2>4, <2>5
<1> QED BY <1>4, <1>5, <1>6, <1>7

LEMMA BeginCommandTakes ==
  ASSUME NEW g \in GPUs, NEW last, NEW wrote, Queued(g, last, wrote), g.fifo # <<>>, g.InCmd = "NONE",
         NEW cost \in Costs, StartCommand(g, cost) # g
  PROVE  \E n \in 1..Len(g.fifo) : Took(g, StartCommand(g, cost), n)
<1> DEFINE q == g.fifo
           c == q[1].of
           n == Entry(c).len
           k == IF Entry(c).ss_cmd THEN 0 ELSE cost
           taken == Draw(Take(g, n), k)
           h == Execute(taken, c)
<1>1. q \in Seq(Words) /\ InOrder(q) /\ Between(last, q, wrote) /\ last = Nothing
  BY DEF GPUs, Queued, AtPart
<1>2. Len(q) \in Nat \ {0} /\ Head(q) = q[1] /\ q[1] \in Words /\ c \in Given BY FifoType
<1>3. q[1].n = 1 BY <1>1, NothingType DEF Between, IsNext
<1>4. CommandOf(Head(q)) = c BY <1>2, <1>3 DEF CommandOf
<1>5. n \in Nat \ {0} /\ k \in Nat /\ n <= Total(c) /\ Total(c) \in Nat
  <2>1. cost \in Nat BY GPUAssumption
  <2> QED BY <1>2, <2>1, EntryType, TotalType
<1>6. Len(q) >= n /\ StartCommand(g, cost) = h BY <1>2, <1>4, <1>5 DEF StartCommand
<1>7. n \in 1..Len(q) /\ 1 \in 1..Len(q) BY <1>2, <1>5, <1>6
<1>8. q[n] = [of |-> c, n |-> n]
  <2>1. n - 1 <= Total(c) - q[1].n /\ 1 <= n BY <1>3, <1>5
  <2>2. q[n] = [of |-> q[1].of, n |-> q[1].n + (n - 1)] BY <1>1, <1>7, <2>1 DEF InOrder
  <2>3. q[1].n + (n - 1) = n BY <1>3, <1>5
  <2> QED BY <2>2, <2>3
<1>9. /\ taken \in GPUs /\ taken.fifo = SubSeq(q, n + 1, Len(q)) /\ taken.time = g.time - k
      /\ taken.InCmd = g.InCmd
  <2> HIDE DEF k, n
  <2> QED BY <1>5, <1>7, TakeType
<1>10. /\ h \in GPUs /\ h.fifo = taken.fifo /\ h.time = taken.time
       /\ AtPart(h, Ended([of |-> c, n |-> Entry(c).len]))
  <2> HIDE DEF taken
  <2> QED BY <1>2, <1>9, ExecuteStarts
<1>11. Fits(g, SubSeq(q, 1, n))
  <2>1. SubSeq(q, 1, n)[1] = q[1] /\ Len(SubSeq(q, 1, n)) = n
    <3>1. 1 \in 1..n BY <1>5
    <3> QED BY <1>1, <1>7, <3>1, FirstWords
  <2> QED BY <1>3, <2>1 DEF Fits
<1>12. h.time <= g.time
  <2>1. g.time \in Int BY DEF GPUs
  <2> HIDE DEF h, taken, k
  <2> QED BY <1>5, <1>9, <1>10, <2>1
<1> HIDE DEF h, taken, k
<1>13. Took(g, h, n) BY <1>8, <1>9, <1>10, <1>11, <1>12 DEF Took
<1> QED BY <1>6, <1>7, <1>13

LEMMA MovePixelsType ==
  ASSUME NEW g \in GPUs
  PROVE  /\ MovePixels(g) \in GPUs
         /\ MovePixels(g).fifo = g.fifo /\ MovePixels(g).time = g.time /\ MovePixels(g).InCmd_CC = g.InCmd_CC
         /\ g.left <= 2 => MovePixels(g).InCmd = "NONE"
         /\ g.left > 2 => MovePixels(g).InCmd = g.InCmd /\ MovePixels(g).left = g.left - 2
<1>1. g.left \in Nat BY DEF GPUs
<1>2. CASE g.left <= 2
  <2>1. MovePixels(g) = [g EXCEPT !.left = 0, !.InCmd = "NONE"] BY <1>2 DEF MovePixels
  <2>2. ~(g.left > 2) BY <1>1, <1>2
  <2>3. /\ MovePixels(g) \in GPUs /\ MovePixels(g).InCmd = "NONE"
        /\ MovePixels(g).fifo = g.fifo /\ MovePixels(g).time = g.time /\ MovePixels(g).InCmd_CC = g.InCmd_CC
    <3>1. [g EXCEPT !.left = 0, !.InCmd = "NONE"] \in GPUs BY DEF GPUs
    <3>2. [g EXCEPT !.left = 0, !.InCmd = "NONE"].InCmd = "NONE" BY DEF GPUs
    <3>3. [g EXCEPT !.left = 0, !.InCmd = "NONE"].fifo = g.fifo BY DEF GPUs
    <3>4. [g EXCEPT !.left = 0, !.InCmd = "NONE"].time = g.time BY DEF GPUs
    <3>5. [g EXCEPT !.left = 0, !.InCmd = "NONE"].InCmd_CC = g.InCmd_CC BY DEF GPUs
    <3> QED BY <2>1, <3>1, <3>2, <3>3, <3>4, <3>5
  <2> QED BY <2>2, <2>3
<1>3. CASE g.left > 2
  <2>1. MovePixels(g) = [g EXCEPT !.left = @ - 2] BY <1>1, <1>3 DEF MovePixels
  <2>2. g.left - 2 \in Nat BY <1>1, <1>3
  <2> QED BY <1>1, <1>3, <2>1, <2>2 DEF GPUs
<1> QED BY <1>1, <1>2, <1>3

\* The word after one that is not the last of its command.
LEMMA NextWord ==
  ASSUME NEW g \in GPUs, NEW last \in Words, NEW wrote, Queued(g, last, wrote), g.fifo # <<>>,
         g.InCmd \notin {"NONE", "FBREAD"}
  PROVE  /\ last.of \in Given /\ last.n \in Nat /\ Total(last.of) \in Nat /\ last.n < Total(last.of)
         /\ Entry(last.of).len \in Nat \ {0}
         /\ g.fifo[1] = [of |-> last.of, n |-> last.n + 1]
         /\ \A n \in 1..Len(g.fifo) :
              last.n + n <= Total(last.of) => g.fifo[n] = [of |-> last.of, n |-> last.n + n]
<1>1. last.of \in Given /\ last.n \in Nat BY DEF Words, Given
<1>2. Total(last.of) \in Nat /\ Entry(last.of).len \in Nat \ {0} BY <1>1, TotalType, EntryType
<1>3. ~IsLast(last) /\ last.n <= Total(last.of) BY DEF Queued, AtPart
<1>4. last.n < Total(last.of) BY <1>1, <1>2, <1>3 DEF IsLast
<1>5. g.fifo[1] \in Words /\ 1 \in 1..Len(g.fifo) BY FifoType
<1>6. IsNext(last, g.fifo[1]) BY DEF Queued, Between
<1>7. g.fifo[1].of = last.of /\ g.fifo[1].n = last.n + 1 BY <1>3, <1>6 DEF IsNext
<1>8. g.fifo[1] = [of |-> last.of, n |-> last.n + 1] BY <1>5, <1>7 DEF Words
<1>9. ASSUME NEW n \in 1..Len(g.fifo), last.n + n <= Total(last.of)
      PROVE  g.fifo[n] = [of |-> last.of, n |-> last.n + n]
  <2>1. 1 <= n /\ n - 1 <= Total(g.fifo[1].of) - g.fifo[1].n BY <1>1, <1>2, <1>7, <1>9
  <2>2. g.fifo[n] = [of |-> g.fifo[1].of, n |-> g.fifo[1].n + (n - 1)]
    BY <1>5, <2>1 DEF Queued, InOrder
  <2>3. g.fifo[1].n + (n - 1) = last.n + n BY <1>1, <1>7
  <2> QED BY <1>7, <2>2, <2>3
<1> QED BY <1>1, <1>2, <1>4, <1>8, <1>9

LEMMA ImageWordTakes ==
  ASSUME NEW g \in GPUs, NEW last \in Words, NEW wrote, Queued(g, last, wrote), g.fifo # <<>>, g.InCmd = "FBWRITE"
  PROVE  Took(g, MovePixels(Take(g, 1)), 1)
<1> DEFINE q == g.fifo
           len == Entry(last.of).len
           taken == Draw(Take(g, 1), 0)
           h == MovePixels(taken)
           w == [of |-> last.of, n |-> last.n + 1]
<1>1. /\ last.of \in Given /\ last.n \in Nat /\ Total(last.of) \in Nat /\ last.n < Total(last.of)
      /\ len \in Nat \ {0} /\ q[1] = w
  BY NextWord
<1>2. q \in Seq(Words) /\ 1 \in 1..Len(q) /\ q[1] \in Words BY FifoType DEF GPUs
<1>3. AtImage(g, last) BY DEF Queued, AtPart
<1>4. Total(last.of) = len + (Pixels(last.of) + 1) \div 2 /\ Pixels(last.of) \in Nat
  BY <1>1, <1>3, TotalType, PixelsType DEF AtImage
<1>5. /\ taken \in GPUs /\ taken.fifo = SubSeq(q, 1 + 1, Len(q)) /\ taken.time = g.time - 0
      /\ taken.InCmd = g.InCmd /\ taken.InCmd_CC = g.InCmd_CC /\ taken.left = g.left
  BY <1>2, TakeType
<1>6. taken = Take(g, 1)
  <2>1. g.time - 0 = g.time BY DEF GPUs
  <2> QED BY <2>1 DEF Draw, Take, GPUs
<1>7. Fits(g, SubSeq(q, 1, 1))
  <2>1. SubSeq(q, 1, 1)[1] = q[1]
    <3>1. 1 \in 1..1 OBVIOUS
    <3> QED BY <1>2, <3>1, FirstWords
  <2>2. q[1].of = last.of /\ q[1].n = last.n + 1 BY <1>1
  <2>3. last.n + 1 > len BY <1>1, <1>3 DEF AtImage
  <2>4. last.of.family = "upload" BY <1>3 DEF AtImage
  <2> QED BY <2>1, <2>2, <2>3, <2>4 DEF Fits
<1>8. /\ w \in Words /\ w.of = last.of /\ w.n = last.n + 1 /\ w.n <= Total(w.of)
      /\ Ended(w) = IF IsLast(w) THEN Nothing ELSE w
  BY <1>1, <1>2 DEF Ended
<1> DEFINE pixels == Pixels(last.of)
           k == last.n - len
<1>9. k \in Nat /\ g.left = pixels - 2 * k /\ g.left > 0 /\ g.left \in Nat
  BY <1>1, <1>3 DEF AtImage, GPUs
<1> HIDE DEF taken, h
<1>10. AtPart(h, Ended(w))
  <2>1. CASE g.left <= 2
    <3>1. h.InCmd = "NONE" BY <1>5, <2>1, MovePixelsType DEF h
    <3>2. (pixels + 1) \div 2 = k + 1
      <4>1. pixels = 2 * k + 1 \/ pixels = 2 * k + 2 BY <1>4, <1>9, <2>1
      <4> QED BY <4>1, <1>9
    <3>3. IsLast(w) BY <1>1, <1>4, <1>8, <3>2 DEF IsLast
    <3>4. Ended(w) = Nothing BY <1>8, <3>3
    <3> QED BY <3>1, <3>4, NothingType DEF AtPart
  <2>2. CASE g.left > 2
    <3>1. h.InCmd = "FBWRITE" /\ h.left = g.left - 2 BY <1>5, <2>2, MovePixelsType DEF h
    <3>2. (pixels + 1) \div 2 > k + 1
      <4>1. pixels >= 2 * (k + 1) + 1 BY <1>4, <1>9, <2>2
      <4> QED BY <4>1, <1>9, <1>4
    <3>3. ~IsLast(w) BY <1>1, <1>4, <1>8, <3>2 DEF IsLast
    <3>4. Ended(w) = w BY <1>8, <3>3
    <3>8. w.n - len = k + 1 BY <1>1, <1>8
    <3>5. h.left = pixels - 2 * (w.n - len)
      <4>1. h.left = (pixels - 2 * k) - 2 BY <1>9, <3>1
      <4>2. (pixels - 2 * k) - 2 = pixels - 2 * (k + 1) BY <1>4, <1>9
      <4> QED BY <4>1, <4>2, <3>8
    <3>6. h.left > 0 BY <1>9, <2>2, <3>1
    <3>7. AtImage(h, w) BY <1>1, <1>3, <1>8, <3>5, <3>6 DEF AtImage
    <3> QED BY <1>8, <3>1, <3>3, <3>4, <3>7 DEF AtPart
  <2> QED BY <2>1, <2>2, <1>9
<1>11. h \in GPUs /\ h.fifo = taken.fifo /\ h.time = taken.time BY <1>5, MovePixelsType DEF h
<1>12. h.time <= g.time
  <2>1. g.time \in Int BY DEF GPUs
  <2> QED BY <1>5, <1>11, <2>1
<1>13. Took(g, h, 1) BY <1>1, <1>5, <1>7, <1>10, <1>11, <1>12 DEF Took
<1> QED BY <1>6, <1>13 DEF h

LEMMA EndQuadTakes ==
  ASSUME NEW g \in GPUs, NEW last \in Words, NEW wrote, Queued(g, last, wrote), g.fifo # <<>>, g.InCmd = "QUAD",
         NEW cost \in Costs, EndQuad(g, cost) # g
  PROVE  \E n \in 1..Len(g.fifo) : Took(g, EndQuad(g, cost), n)
<1> DEFINE q == g.fifo
           c == g.InCmd_CC
           n == CornerLen(c)
           taken == Draw(Take(g, n), cost)
           h == [taken EXCEPT !.InCmd = "NONE"]
           w == [of |-> c, n |-> Total(c)]
<1>1. AtQuad(g, last) BY DEF Queued, AtPart
<1>2. last.of = c /\ last.n = Entry(c).len /\ c.family = "polygon" /\ c.more = 1 BY <1>1 DEF AtQuad
<1>3. /\ c \in Given /\ last.n \in Nat /\ Total(c) \in Nat /\ Entry(c).len \in Nat \ {0}
      /\ q[1] = [of |-> c, n |-> last.n + 1]
      /\ \A i \in 1..Len(q) : last.n + i <= Total(c) => q[i] = [of |-> c, n |-> last.n + i]
  BY <1>2, NextWord
<1>4. q \in Seq(Words) /\ 1 \in 1..Len(q) /\ Len(q) \in Nat BY FifoType DEF GPUs
<1>5. n \in {1, 2, 3} /\ Total(c) = Entry(c).len + n BY <1>2, <1>3, TotalType
<1>6. Len(q) >= n /\ EndQuad(g, cost) = h BY <1>4, <1>5 DEF EndQuad
<1>7. n \in 1..Len(q) /\ cost \in Nat BY <1>4, <1>5, <1>6, GPUAssumption
<1>8. q[n] = w BY <1>2, <1>3, <1>5, <1>7
<1>9. taken \in GPUs /\ taken.fifo = SubSeq(q, n + 1, Len(q)) /\ taken.time = g.time - cost
  <2> HIDE DEF n
  <2> QED BY <1>7, TakeType
<1>10. Fits(g, SubSeq(q, 1, n))
  <2>1. SubSeq(q, 1, n)[1] = q[1]
    <3>1. 1 \in 1..n BY <1>5
    <3> QED BY <1>4, <1>7, <3>1, FirstWords
  <2>2. q[1].of = c /\ q[1].n > Entry(c).len BY <1>2, <1>3
  <2> QED BY <2>1, <2>2 DEF Fits
<1> HIDE DEF taken
<1>11. h \in GPUs /\ h.fifo = taken.fifo /\ h.time = taken.time /\ h.InCmd = "NONE" BY <1>9 DEF GPUs
<1>12. Ended(w) = Nothing BY DEF Ended, IsLast
<1> HIDE DEF h
<1>13. AtPart(h, Ended(w)) BY <1>11, <1>12, NothingType DEF AtPart
<1>14. h.time <= g.time
  <2>1. g.time \in Int BY DEF GPUs
  <2> QED BY <1>7, <1>9, <1>11, <2>1
<1>15. Took(g, h, n) BY <1>8, <1>9, <1>10, <1>11, <1>13, <1>14 DEF Took
<1> QED BY <1>6, <1>7, <1>15

LEMMA NextPointTakes ==
  ASSUME NEW g \in GPUs, NEW last \in Words, NEW wrote, Queued(g, last, wrote), g.fifo # <<>>, g.InCmd = "PLINE",
         NEW cost \in Costs, NextPoint(g, cost) # g
  PROVE  \E n \in 1..Len(g.fifo) : Took(g, NextPoint(g, cost), n)
<1> DEFINE q == g.fifo
           c == g.InCmd_CC
<1>1. AtPolyline(g, last) BY DEF Queued, AtPart
<1>2. last.of = c /\ IsPolyline(c) /\ last.n >= Entry(c).len /\ (Total(c) - 1 - last.n) % PointLen(c) = 0
  BY <1>1 DEF AtPolyline
<1>3. /\ c \in Given /\ last.n \in Nat /\ Total(c) \in Nat /\ Entry(c).len \in Nat \ {0} /\ last.n < Total(c)
      /\ q[1] = [of |-> c, n |-> last.n + 1]
      /\ \A i \in 1..Len(q) : last.n + i <= Total(c) => q[i] = [of |-> c, n |-> last.n + i]
  BY <1>2, NextWord
<1>4. q \in Seq(Words) /\ 1 \in 1..Len(q) /\ Len(q) \in Nat /\ Head(q) = q[1] BY FifoType DEF GPUs
<1>5. PointLen(c) \in {1, 2} BY <1>3, TotalType
<1>6. cost \in Nat /\ g.time \in Int BY GPUAssumption DEF GPUs
<1>7. ASSUME NEW n \in 1..Len(q) PROVE Fits(g, SubSeq(q, 1, n))
  <2>1. SubSeq(q, 1, n)[1] = q[1]
    <3>1. 1 \in 1..n OBVIOUS
    <3> QED BY <1>4, <3>1, FirstWords
  <2>2. q[1].of = c /\ q[1].n > Entry(c).len BY <1>2, <1>3
  <2> QED BY <2>1, <2>2 DEF Fits
<1>8. CASE IsEnd(Head(q))
  <2> DEFINE taken == Draw(Take(g, 1), 0)
             h == [taken EXCEPT !.InCmd = "NONE"]
  <2>1. taken = Take(g, 1)
    <3>1. g.time - 0 = g.time BY <1>6
    <3> QED BY <3>1 DEF Draw, Take, GPUs
  <2>2. NextPoint(g, cost) = h BY <1>8, <2>1 DEF NextPoint
  <2>3. taken \in GPUs /\ taken.fifo = SubSeq(q, 1 + 1, Len(q)) /\ taken.time = g.time - 0 BY <1>4, TakeType
  <2> HIDE DEF taken
  <2>4. h \in GPUs /\ h.fifo = taken.fifo /\ h.time = taken.time /\ h.InCmd = "NONE" BY <2>3 DEF GPUs
  <2>5. Ended(q[1]) = Nothing BY <1>4, <1>8 DEF IsEnd, Ended, IsLast
  <2> HIDE DEF h
  <2>6. AtPart(h, Ended(q[1])) BY <2>4, <2>5, NothingType DEF AtPart
  <2>7. h.time <= g.time BY <1>6, <2>3, <2>4
  <2>8. Fits(g, SubSeq(q, 1, 1)) BY <1>4, <1>7
  <2>9. Took(g, h, 1) BY <2>3, <2>4, <2>6, <2>7, <2>8 DEF Took
  <2> QED BY <1>4, <2>2, <2>9
<1>9. CASE ~IsEnd(Head(q))
  <2> DEFINE n == PointLen(c)
             taken == Draw(Take(g, n), cost)
             w == [of |-> c, n |-> last.n + n]
  <2>1. Len(q) >= n /\ NextPoint(g, cost) = taken BY <1>4, <1>5, <1>9 DEF NextPoint
  <2>2. n \in 1..Len(q) BY <1>4, <1>5, <2>1
  <2>3. q[1].of = c /\ q[1].n = last.n + 1 BY <1>3
  <2>4. last.n + 1 < Total(c)
    <3>1. IsPolyline(q[1].of) BY <1>2, <2>3
    <3>2. q[1].n # Total(q[1].of) BY <1>4, <1>9, <3>1 DEF IsEnd
    <3>3. last.n + 1 # Total(c) BY <2>3, <3>2
    <3> QED BY <1>3, <3>3
  <2>5. last.n + n < Total(c) /\ (Total(c) - 1 - (last.n + n)) % n = 0
    <3>1. CASE n = 1 BY <1>3, <2>4, <3>1
    <3>2. CASE n = 2 BY <1>2, <1>3, <2>4, <3>2
    <3> QED BY <1>5, <3>1, <3>2
  <2>6. q[n] = w BY <1>3, <2>2, <2>5
  <2>7. taken \in GPUs /\ taken.fifo = SubSeq(q, n + 1, Len(q)) /\ taken.time = g.time - cost
        /\ taken.InCmd = g.InCmd /\ taken.InCmd_CC = g.InCmd_CC
    <3> HIDE DEF n
    <3> QED BY <1>6, <2>2, TakeType
  <2>8. ~IsLast(w) /\ w.n < Total(w.of) BY <1>3, <2>2, <2>5 DEF IsLast
  <2>9. Ended(w) = w BY <2>8 DEF Ended
  <2> HIDE DEF taken
  <2>10. AtPolyline(taken, w) BY <1>2, <1>3, <2>2, <2>5, <2>7 DEF AtPolyline
  <2>11. AtPart(taken, Ended(w)) BY <1>3, <2>2, <2>5, <2>7, <2>8, <2>9, <2>10 DEF AtPart
  <2>12. taken.time <= g.time BY <1>6, <2>7
  <2>13. Fits(g, SubSeq(q, 1, n)) BY <2>2, <1>7
  <2>14. Took(g, taken, n) BY <2>6, <2>7, <2>11, <2>12, <2>13 DEF Took
  <2> QED BY <2>1, <2>2, <2>14
<1> QED BY <1>8, <1>9

LEMMA ProcessTakes ==
  ASSUME NEW g \in GPUs, NEW last \in Words, NEW wrote, Queued(g, last, wrote), NEW cost \in Costs,
         ProcessFIFO(g, cost) # g
  PROVE  \E n \in 1..Len(g.fifo) : Took(g, ProcessFIFO(g, cost), n)
<1>1. g.fifo # <<>> /\ g.InCmd \in {"FBWRITE", "QUAD", "PLINE", "NONE"} BY DEF ProcessFIFO, GPUs
<1>2. CASE g.InCmd = "FBWRITE"
  <2>1. ProcessFIFO(g, cost) = MovePixels(Take(g, 1)) BY <1>1, <1>2 DEF ProcessFIFO
  <2> QED BY <1>1, <1>2, <2>1, ImageWordTakes, FifoType
<1>3. CASE g.InCmd = "QUAD"
  <2>1. ProcessFIFO(g, cost) = EndQuad(g, cost) BY <1>1, <1>3 DEF ProcessFIFO
  <2> QED BY <1>1, <1>3, <2>1, EndQuadTakes
<1>4. CASE g.InCmd = "PLINE"
  <2>1. ProcessFIFO(g, cost) = NextPoint(g, cost) BY <1>1, <1>4 DEF ProcessFIFO
  <2> QED BY <1>1, <1>4, <2>1, NextPointTakes
<1>5. CASE g.InCmd = "NONE"
  <2>1. ProcessFIFO(g, cost) = StartCommand(g, cost) BY <1>1, <1>5 DEF ProcessFIFO
  <2> QED BY <1>1, <1>5, <2>1, BeginCommandTakes
<1> QED BY <1>1, <1>2, <1>3, <1>4, <1>5

\* A part of a command leaves the queue in order, and a block its room.
LEMMA TookKeeps ==
  ASSUME NEW g \in GPUs, NEW last \in Words, NEW wrote, Queued(g, last, wrote), NEW h,
         NEW n \in 1..Len(g.fifo), Took(g, h, n), NEW room \in 0..Room, HasRoom(g, room)
  PROVE  /\ Len(h.fifo) = Len(g.fifo) - n
         /\ Queued(h, Ended(g.fifo[n]), wrote) /\ Ended(g.fifo[n]) \in Words
         /\ HasRoom(h, room)
<1> DEFINE q == g.fifo
<1>1. q \in Seq(Words) /\ Len(q) \in Nat /\ h.fifo = SubSeq(q, n + 1, Len(q)) BY LenProperties DEF GPUs, Took
<1>2. InOrder(q) /\ Between(last, q, wrote) BY DEF Queued
<1>3. /\ h.fifo \in Seq(Words) /\ Len(h.fifo) = Len(q) - n
      /\ InOrder(h.fifo)
      /\ Between(Ended(q[n]), h.fifo, wrote)
  BY <1>1, <1>2, TakeKeeps
<1>4. Queued(h, Ended(q[n]), wrote) BY <1>3 DEF Queued, Took
<1>5. Ended(q[n]) \in Words
  <2>1. q[n] \in Words BY <1>1, ElementOfSeq
  <2> QED BY <2>1, NothingType DEF Ended
<1>6. HasRoom(h, room)
  <2>1. Room \in Nat /\ room \in Nat /\ Len(h.fifo) \in Nat
    <3>1. Room \in Nat BY GPUAssumption
    <3>2. Len(h.fifo) \in Nat BY <1>3, LenProperties
    <3> QED BY <3>1, <3>2
  <2>2. CASE room = 0 BY <2>2 DEF HasRoom
  <2>3. CASE Len(q) <= Room - room
    <3>1. Len(h.fifo) <= Room - room BY <1>1, <1>3, <2>1, <2>3
    <3> QED BY <3>1 DEF HasRoom
  <2>4. CASE g.InCmd = "NONE" /\ q # <<>> /\ Len(q) < Entry(CommandOf(q[1])).fifo_fb_len + Room - room
    <3> DEFINE c == q[1].of
    <3>1. q[1].n = 1
      <4>1. last = Nothing BY <2>4 DEF Queued, AtPart
      <4> QED BY <1>2, <2>4, <4>1, NothingType DEF Between, IsNext
    <3>2. CommandOf(q[1]) = c /\ c \in Given BY <2>4, <3>1, FifoType DEF CommandOf
    <3>3. n = Entry(c).len BY <2>4 DEF Took
    <3>4. Entry(c).fifo_fb_len <= Entry(c).len + 1 /\ Entry(c).fifo_fb_len \in Nat BY <3>2, EntryType
    <3>5. Len(q) < Entry(c).fifo_fb_len + Room - room BY <2>4, <3>2
    <3>6. Len(h.fifo) <= Room - room
      <4>1. \A k, f, r \in Int : k < f + Room - r /\ f <= n + 1 => k - n <= Room - r BY <2>1
      <4>2. Entry(c).fifo_fb_len <= n + 1 /\ Entry(c).fifo_fb_len \in Int BY <3>3, <3>4
      <4> QED BY <1>1, <1>3, <2>1, <3>5, <4>1, <4>2
    <3> QED BY <3>6 DEF HasRoom
  <2>5. \/ room = 0 \/ Len(q) <= Room - room
        \/ g.InCmd = "NONE" /\ q # <<>> /\ Len(q) < Entry(CommandOf(q[1])).fifo_fb_len + Room - room
    BY DEF HasRoom
  <2> QED BY <2>2, <2>3, <2>4, <2>5
<1> QED BY <1>3, <1>4, <1>5, <1>6

\* A word of a block that has room finds it, and goes behind the others.
LEMMA WriteQueues ==
  ASSUME NEW g \in GPUs, NEW last \in Words, NEW wrote, Queued(g, last, wrote),
         NEW room \in 1..Room, HasRoom(g, room),
         NEW w \in Words, w.n <= Total(w.of), IsNext(wrote, w),
         NEW h, h = [g EXCEPT !.fifo = Append(@, w)]
  PROVE  /\ ~Overflows(g)
         /\ h \in GPUs /\ h.fifo = Append(g.fifo, w) /\ h.InCmd = g.InCmd /\ h.InCmd_CC = g.InCmd_CC
         /\ Queued(h, last, Ended(w))
         /\ room - 1 \in 0..Room /\ HasRoom(h, room - 1)
<1> DEFINE q == g.fifo
<1>1. q \in Seq(Words) /\ Len(q) \in Nat BY LenProperties DEF GPUs
<1>2. Room \in Nat \ {0} /\ room \in Nat \ {0} /\ room <= Room BY GPUAssumption
<1>3. \/ Len(q) <= Room - room
      \/ /\ g.InCmd = "NONE" /\ q # <<>> /\ Entry(CommandOf(q[1])).fifo_fb_len \in Nat
         /\ Len(q) < Entry(CommandOf(q[1])).fifo_fb_len + Room - room
  <2>1. q # <<>> => CommandOf(q[1]) \in Given BY FifoType, GivenType DEF CommandOf
  <2>2. q # <<>> => Entry(CommandOf(q[1])).fifo_fb_len \in Nat BY <2>1, EntryType
  <2>3. room # 0 BY <1>2
  <2> QED BY <2>2, <2>3 DEF HasRoom
<1>4. ~Overflows(g)
  <2>1. CASE Len(q) <= Room - room BY <1>1, <1>2, <2>1 DEF Overflows
  <2>2. CASE /\ g.InCmd = "NONE" /\ q # <<>> /\ Entry(CommandOf(q[1])).fifo_fb_len \in Nat
             /\ Len(q) < Entry(CommandOf(q[1])).fifo_fb_len + Room - room
    <3>1. Head(q) = q[1] BY <2>2, FifoType
    <3> QED BY <1>1, <1>2, <2>2, <3>1 DEF Overflows
  <2> QED BY <1>3, <2>1, <2>2
<1>5. /\ Append(q, w) \in Seq(Words) /\ Len(Append(q, w)) = Len(q) + 1 /\ Append(q, w) # <<>>
      /\ InOrder(Append(q, w)) /\ Between(last, Append(q, w), Ended(w))
  BY <1>1, AppendKeeps DEF Queued
<1>6. /\ h \in GPUs /\ h.fifo = Append(q, w) /\ h.InCmd = g.InCmd /\ h.InCmd_CC = g.InCmd_CC
      /\ h.left = g.left
  BY <1>5 DEF GPUs
<1>7. AtPart(h, last)
  <2>1. AtPart(g, last) BY DEF Queued
  <2> QED BY <1>6, <2>1 DEF AtPart, AtImage, AtQuad, AtPolyline
<1>8. HasRoom(h, room - 1)
  <2>1. CASE Len(q) <= Room - room
    <3>1. Len(h.fifo) <= Room - (room - 1) BY <1>1, <1>2, <1>5, <1>6, <2>1
    <3> QED BY <3>1 DEF HasRoom
  <2>2. CASE /\ g.InCmd = "NONE" /\ q # <<>> /\ Entry(CommandOf(q[1])).fifo_fb_len \in Nat
             /\ Len(q) < Entry(CommandOf(q[1])).fifo_fb_len + Room - room
    <3>1. h.fifo[1] = q[1]
      <4>1. 1 \in 1..Len(q) BY <2>2, FifoType
      <4> QED BY <1>1, <1>6, <4>1, AppendProperties
    <3>2. Len(h.fifo) < Entry(CommandOf(h.fifo[1])).fifo_fb_len + Room - (room - 1)
      BY <1>1, <1>2, <1>5, <1>6, <2>2, <3>1
    <3> QED BY <1>5, <1>6, <2>2, <3>2 DEF HasRoom
  <2> QED BY <1>3, <2>1, <2>2
<1> QED BY <1>2, <1>4, <1>5, <1>6, <1>7, <1>8 DEF Queued

\* The history after a part of a command, of which nothing came too early or for another.
\* (queue: what was there with what was written.)
LEMMA WatchKeeps ==
  ASSUME NEW g \in GPUs, NEW from \in GPUs, from.InCmd = g.InCmd, from.InCmd_CC = g.InCmd_CC,
         NEW given, from.fifo \o given = g.fifo,
         parsed \in [last : Words, mixed : BOOLEAN], ~parsed.mixed,
         NEW wrote, Queued(g, parsed.last, wrote),
         NEW room \in 0..Room, HasRoom(g, room), NEW cost \in Costs,
         Watch(from, given, ProcessFIFO(g, cost))
  PROVE  /\ ProcessFIFO(g, cost) \in GPUs /\ ProcessFIFO(g, cost).time <= g.time
         /\ HasRoom(ProcessFIFO(g, cost), room)
         /\ Queued(ProcessFIFO(g, cost), parsed'.last, wrote)
         /\ parsed' \in [last : Words, mixed : BOOLEAN] /\ ~parsed'.mixed
<1>1. PICK h : h = ProcessFIFO(g, cost) OBVIOUS
<1> DEFINE q == g.fifo
           words(n) == SubSeq(q, 1, n)
<1>2. q \in Seq(Words) /\ Len(q) \in Nat /\ g.time \in Int BY LenProperties DEF GPUs
<1>3. parsed' = IF words(Len(q) - Len(h.fifo)) = <<>> THEN parsed
                ELSE [last  |-> Ended(words(Len(q) - Len(h.fifo))[Len(words(Len(q) - Len(h.fifo)))]),
                      mixed |-> \/ parsed.mixed \/ ~Fits(from, words(Len(q) - Len(h.fifo)))
                                \/ \E i \in 1..Len(words(Len(q) - Len(h.fifo))) :
                                     ~IsNext(IF i = 1 THEN parsed.last ELSE words(Len(q) - Len(h.fifo))[i - 1],
                                             words(Len(q) - Len(h.fifo))[i])]
  BY <1>1, Zenon DEF Watch
<1> HIDE DEF words
<1>4. CASE h = g
  <2>1. Len(q) - Len(h.fifo) = 0 BY <1>2, <1>4
  <2>2. words(0) = <<>> BY SubSeqEmpty DEF words
  <2>3. parsed' = parsed BY <1>3, <2>1, <2>2
  <2> QED BY <1>1, <1>2, <1>4, <2>3
<1>5. CASE h # g
  <2>1. PICK n \in 1..Len(q) : Took(g, h, n) BY <1>1, <1>5, ProcessTakes
  <2>2. /\ Len(h.fifo) = Len(q) - n
        /\ Queued(h, Ended(q[n]), wrote) /\ Ended(q[n]) \in Words
        /\ HasRoom(h, room)
    BY <2>1, TookKeeps
  <2>3. Len(q) - Len(h.fifo) = n /\ n \in Nat \ {0} BY <1>2, <2>2
  <2>4. Len(words(n)) = n /\ \A i \in 1..n : words(n)[i] = q[i] BY <1>2, FirstWords DEF words
  <2>5. words(n) # <<>> BY <2>3, <2>4, Zenon
  <2>6. Fits(from, words(n))
    <3>1. Fits(g, words(n)) BY <2>1 DEF Took, words
    <3> QED BY <3>1 DEF Fits
  <2>7. ASSUME NEW i \in 1..n PROVE IsNext(IF i = 1 THEN parsed.last ELSE words(n)[i - 1], words(n)[i])
    <3>1. words(n)[i] = q[i] /\ i \in 1..Len(q) BY <1>2, <2>4
    <3>2. CASE i = 1
      <4>1. q # <<>> BY <1>2, <2>3
      <4> QED BY <3>1, <3>2, <4>1 DEF Queued, Between
    <3>3. CASE i # 1
      <4>1. i - 1 \in 1..n /\ i - 1 \in 1..Len(q) /\ (i - 1) + 1 = i /\ i <= Len(q) BY <1>2, <3>3
      <4>2. words(n)[i - 1] = q[i - 1] BY <2>4, <4>1
      <4>3. IsNext(q[i - 1], q[(i - 1) + 1]) BY <1>2, <4>1, Neighbours DEF Queued
      <4> QED BY <3>1, <3>3, <4>1, <4>2, <4>3
    <3> QED BY <3>2, <3>3
  <2>8. words(n)[n] = q[n] BY <2>4
  <2>9. parsed' = [last |-> Ended(q[n]), mixed |-> FALSE]
    <3>1. parsed' = [last  |-> Ended(words(n)[Len(words(n))]),
                     mixed |-> \/ parsed.mixed \/ ~Fits(from, words(n))
                               \/ \E i \in 1..Len(words(n)) :
                                    ~IsNext(IF i = 1 THEN parsed.last ELSE words(n)[i - 1], words(n)[i])]
      BY <1>3, <2>3, <2>5
    <3>2. (\/ parsed.mixed \/ ~Fits(from, words(n))
           \/ \E i \in 1..Len(words(n)) :
                ~IsNext(IF i = 1 THEN parsed.last ELSE words(n)[i - 1], words(n)[i])) = FALSE
      BY <2>4, <2>6, <2>7
    <3> QED BY <2>4, <2>8, <3>1, <3>2
  <2> QED BY <1>1, <2>1, <2>2, <2>9 DEF Took
<1> QED BY <1>4, <1>5

LEMMA EmptyQueue ==
  ASSUME NEW g, g.fifo = <<>>, g.InCmd = "NONE"
  PROVE  Queued(g, Nothing, Nothing) /\ HasRoom(g, 0)
<1>1. Len(<<>>) = 0 OBVIOUS
<1>2. InOrder(<<>>) BY <1>1 DEF InOrder
<1>3. Between(Nothing, <<>>, Nothing) BY DEF Between
<1>4. AtPart(g, Nothing) BY NothingType DEF AtPart
<1> QED BY <1>2, <1>3, <1>4 DEF Queued, HasRoom

LEMMA WroteType ==
  ASSUME NEW g \in GPUs, NEW last \in Words, NEW wrote, Queued(g, last, wrote)
  PROVE  wrote \in Words /\ wrote.n <= Total(wrote.of)
<1>1. g.fifo \in Seq(Words) BY DEF GPUs
<1>2. CASE g.fifo = <<>> BY <1>2 DEF Queued, Between, AtPart
<1>3. CASE g.fifo # <<>>
  <2>1. Len(g.fifo) \in 1..Len(g.fifo) BY <1>3, FifoType
  <2>2. g.fifo[Len(g.fifo)] \in Words BY <1>1, <2>1, ElementOfSeq
  <2>3. g.fifo[Len(g.fifo)].n <= Total(g.fifo[Len(g.fifo)].of) BY <2>1 DEF Queued, InOrder
  <2>4. wrote = Ended(g.fifo[Len(g.fifo)]) BY <1>3 DEF Queued, Between
  <2> QED BY <2>2, <2>3, <2>4, EndedType
<1> QED BY <1>2, <1>3

------------------------------------------------------------------------------
(* The scanlines.                                                           *)

LEMMA LinesType ==
  ASSUME NEW d \in Displays, NEW field \in 0..1
  PROVE  LinesPerField(d, field) \in Nat /\ LinesPerField(d, field) >= 2
<1>1. d.interlaced \in BOOLEAN /\ d.pal \in BOOLEAN BY DEF Displays
<1>2. LinesPerField(d, field) \in {LinesPAL - 1 - field, LinesNTSC - field, LinesPAL, LinesNTSC}
  <2>1. CASE d.interlaced /\ d.pal BY <2>1 DEF LinesPerField
  <2>2. CASE d.interlaced /\ ~d.pal BY <2>2 DEF LinesPerField
  <2>3. CASE ~d.interlaced /\ d.pal BY <2>3 DEF LinesPerField
  <2>4. CASE ~d.interlaced /\ ~d.pal BY <2>4 DEF LinesPerField
  <2> QED BY <1>1, <2>1, <2>2, <2>3, <2>4
<1> QED BY <1>2, BeamAssumption

\* Where the beam is, and that a frame that runs and has seen the first line is not at the last.
OnLine(b) == b \in Beams /\ b.lines >= 2 /\ b.scanline < b.lines
BeforeLast(b) == b.reached => b.scanline + 1 < b.lines

LEMMA NextLineKeeps ==
  ASSUME NEW b, OnLine(b), NEW d \in Displays
  PROVE  /\ OnLine(NextLine(b, d)) /\ NextLine(b, d).linephase = 0
         /\ BeforeLast(b) /\ ~b.failed => ~NextLine(b, d).failed
         /\ BeforeLast(b) /\ ~RequestsExit(b, d, (b.scanline + 1) % b.lines) => BeforeLast(NextLine(b, d))
<1> DEFINE line == (b.scanline + 1) % b.lines
           field == FieldAfter(b, d, line)
           vblank == InVBlank(b, d, line)
           h == NextLine(b, d)
<1>1. /\ b \in Beams /\ b.scanline \in Nat /\ b.lines \in Nat /\ b.lines >= 2 /\ b.scanline < b.lines
      /\ b.field \in 0..1 /\ b.invblank \in BOOLEAN /\ b.reached \in BOOLEAN /\ b.failed \in BOOLEAN
  BY DEF OnLine, Beams
<1>2. line = IF b.scanline = b.lines - 1 THEN 0 ELSE b.scanline + 1
  <2>1. CASE b.scanline = b.lines - 1
    <3>1. b.scanline + 1 = b.lines BY <1>1, <2>1
    <3>2. \A n \in Nat \ {0} : n % n = 0 OBVIOUS
    <3> QED BY <1>1, <2>1, <3>1, <3>2
  <2>2. CASE b.scanline # b.lines - 1
    <3>1. b.scanline + 1 \in 0..(b.lines - 1) BY <1>1, <2>2
    <3>2. \A m \in Nat \ {0} : \A n \in 0..(m - 1) : n % m = n OBVIOUS
    <3> QED BY <1>1, <2>2, <3>1, <3>2
  <2> QED BY <2>1, <2>2
<1> HIDE DEF line
<1>3. line \in Nat /\ line < b.lines BY <1>1, <1>2
<1>4. field \in 0..1
  <2>1. CASE line = b.lines - 1 BY <1>1, <2>1 DEF FieldAfter
  <2>2. CASE line # b.lines - 1 /\ line = 0 BY <1>1, <2>2 DEF FieldAfter
  <2>3. CASE line # b.lines - 1 /\ line # 0 BY <1>1, <2>3 DEF FieldAfter
  <2> QED BY <2>1, <2>2, <2>3
<1>5. vblank \in BOOLEAN BY DEF InVBlank
<1> DEFINE lines == IF line = 0 THEN LinesPerField(d, field) ELSE b.lines
           failed == b.failed \/ (line = 0 /\ b.reached)
           reached == b.reached \/ line = 0
<1>6. h = [b EXCEPT !.linephase = 0, !.scanline = line, !.field = field, !.lines = lines,
                    !.failed = failed, !.reached = reached, !.invblank = vblank]
  BY <1>1 DEF NextLine, line, Beams
<1> HIDE DEF field, vblank
<1>7. lines \in Nat /\ lines >= 2 /\ line < lines BY <1>1, <1>3, <1>4, LinesType
<1> HIDE DEF h, lines
<1>8. failed \in BOOLEAN /\ reached \in BOOLEAN OBVIOUS
<1> HIDE DEF failed, reached
<1>9. /\ h \in Beams /\ h.linephase = 0 /\ h.scanline = line /\ h.lines = lines
      /\ h.failed = failed /\ h.reached = reached
  <2>1. h \in Beams
    <3>1. b \in [linephase : 0..1, scanline : Nat, lines : Nat \ {0}, field : 0..1, invblank : BOOLEAN,
                 reached : BOOLEAN, failed : BOOLEAN] BY <1>1 DEF Beams
    <3>2. lines \in Nat \ {0} /\ line \in Nat /\ 0 \in 0..1 BY <1>3, <1>7
    <3>3. h \in [linephase : 0..1, scanline : Nat, lines : Nat \ {0}, field : 0..1, invblank : BOOLEAN,
                 reached : BOOLEAN, failed : BOOLEAN] BY <1>4, <1>5, <1>6, <1>8, <3>1, <3>2, Zenon
    <3> QED BY <3>3 DEF Beams
  <2>2. h.linephase = 0 /\ h.scanline = line /\ h.lines = lines BY <1>1, <1>6 DEF Beams
  <2>3. h.failed = failed /\ h.reached = reached BY <1>1, <1>6, Zenon DEF Beams
  <2> QED BY <2>1, <2>2, <2>3
<1>10. OnLine(h) BY <1>7, <1>9 DEF OnLine
<1>11. ASSUME BeforeLast(b), ~b.failed PROVE ~h.failed
  <2>1. ~(line = 0 /\ b.reached) BY <1>1, <1>2, <1>11 DEF BeforeLast
  <2> QED BY <1>9, <1>11, <2>1 DEF failed
<1>12. ASSUME BeforeLast(b), ~RequestsExit(b, d, line) PROVE BeforeLast(h)
  <2>1. CASE line = 0
    <3>1. h.scanline + 1 < h.lines BY <1>7, <1>9, <2>1
    <3> QED BY <3>1 DEF BeforeLast
  <2>2. CASE line # 0 /\ b.reached
    <3>1. line # b.lines - 1 BY <1>12, <2>2 DEF RequestsExit
    <3>2. lines = b.lines BY <2>2 DEF lines
    <3>3. h.scanline + 1 < h.lines BY <1>1, <1>3, <1>9, <3>1, <3>2
    <3> QED BY <3>3 DEF BeforeLast
  <2>3. CASE line # 0 /\ ~b.reached BY <1>9, <2>3 DEF BeforeLast, reached
  <2> QED BY <2>1, <2>2, <2>3
<1> QED BY <1>9, <1>10, <1>11, <1>12 DEF h, line

\* Half a line does not fail the assertion, and either asks for the end of the frame or keeps it
\* from the last line.
LEMMA HalfLineKeeps ==
  ASSUME NEW b, OnLine(b), NEW d \in Displays
  PROVE  /\ OnLine(HalfLine(b, d))
         /\ HalfLine(b, d).linephase = 1 - b.linephase
         /\ BeforeLast(b) \/ b.linephase = 0 => (~b.failed => ~HalfLine(b, d).failed)
         /\ BeforeLast(b) /\ ~ExitsAt(b, d) => BeforeLast(HalfLine(b, d))
<1>1. b.linephase \in 0..1 /\ b \in Beams BY DEF OnLine, Beams
<1>2. CASE b.linephase = 1
  <2>1. HalfLine(b, d) = NextLine(b, d) BY <1>2 DEF HalfLine, StartsLine
  <2>2. 1 - b.linephase = 0 /\ b.linephase # 0 BY <1>2
  <2>3. ~ExitsAt(b, d) => ~RequestsExit(b, d, (b.scanline + 1) % b.lines) BY <1>2 DEF ExitsAt, StartsLine
  <2> QED BY <2>1, <2>2, <2>3, NextLineKeeps
<1>3. CASE b.linephase = 0
  <2>1. HalfLine(b, d) = [b EXCEPT !.linephase = 1] BY <1>3 DEF HalfLine, StartsLine
  <2>2. /\ HalfLine(b, d) \in Beams /\ HalfLine(b, d).linephase = 1 /\ HalfLine(b, d).lines = b.lines
        /\ HalfLine(b, d).scanline = b.scanline /\ HalfLine(b, d).reached = b.reached
        /\ HalfLine(b, d).failed = b.failed
    BY <1>1, <2>1 DEF Beams
  <2> QED BY <1>3, <2>2 DEF OnLine, BeforeLast
<1> QED BY <1>1, <1>2, <1>3

------------------------------------------------------------------------------
(* The steps.                                                               *)

\* What the queue and its history are typed.
QueueOK(g, gm, p) ==
  /\ g \in GPUs /\ g.time <= MaxTime
  /\ gm \in [does : Games, room : 0..Room, wrote : Words]
  /\ p \in [last : Words, mixed : BOOLEAN]
  /\ Queued(g, p.last, gm.wrote) /\ HasRoom(g, gm.room) /\ ~p.mixed
BeamOK(b, f) == OnLine(b) /\ (f = "running" => BeforeLast(b)) /\ ~b.failed

LEMMA InvParts ==
  IInv <=> /\ QueueOK(gpu, sender, parsed) /\ BeamOK(beam, frame)
           /\ display \in Displays /\ frame \in {"running", "ending"}
<1>1. GPUs = [fifo : Seq(Words), InCmd : {"NONE", "FBREAD", "FBWRITE", "QUAD", "PLINE"},
              InCmd_CC : GP0Commands \cup {Null}, left : Nat, time : Int, IRQPending : BOOLEAN]
  BY DEF GPUs, Given
<1>2. BeamOK(beam, frame) <=> beam \in Beams /\ BeamInv BY DEF BeamOK, BeamInv, OnLine, BeforeLast
<1> QED BY <1>1, <1>2, Zenon DEF IInv, GPU_TypeOK, QueueInv, QueueOK

\* The word a game goes on with finds its place, and may set off a part of a command.
LEMMA SendKeeps ==
  ASSUME QueueOK(gpu, sender, parsed), NEW w \in Words, w.n <= Total(w.of), IsNext(sender.wrote, w), Send(w)
  PROVE  QueueOK(gpu', sender', parsed')
<1> DEFINE g == [gpu EXCEPT !.fifo = Append(@, w)]
<1>1. /\ gpu \in GPUs /\ gpu.time \in Int /\ gpu.time <= MaxTime /\ sender \in [does : Games, room : 0..Room, wrote : Words]
      /\ parsed \in [last : Words, mixed : BOOLEAN] /\ ~parsed.mixed
      /\ Queued(gpu, parsed.last, sender.wrote) /\ HasRoom(gpu, sender.room)
  BY DEF QueueOK, GPUs
<1>2. Room \in Nat /\ MaxTime \in Nat BY GPUAssumption
<1>3. sender.room \in 1..Room BY <1>1, <1>2 DEF Send
<1>4. /\ ~Overflows(gpu)
      /\ g \in GPUs /\ g.fifo = Append(gpu.fifo, w) /\ g.InCmd = gpu.InCmd /\ g.InCmd_CC = gpu.InCmd_CC
      /\ Queued(g, parsed.last, Ended(w))
      /\ sender.room - 1 \in 0..Room /\ HasRoom(g, sender.room - 1)
  BY <1>1, <1>3, WriteQueues
<1>5. g.time = gpu.time BY <1>1 DEF GPUs
<1> HIDE DEF g
<1>6. PICK cost \in Costs : gpu' = ProcessFIFO(g, cost) /\ Watch(gpu, <<w>>, gpu')
  BY <1>4 DEF Send, WriteCB, g
<1>7. gpu.fifo \o <<w>> = g.fifo
  <2>1. gpu.fifo \in Seq(Words) BY <1>1 DEF GPUs
  <2> QED BY <1>4, <2>1, AppendIsConcat
<1>8. Watch(gpu, <<w>>, ProcessFIFO(g, cost)) BY <1>6
<1>9. /\ ProcessFIFO(g, cost) \in GPUs /\ ProcessFIFO(g, cost).time <= g.time
      /\ HasRoom(ProcessFIFO(g, cost), sender.room - 1)
      /\ Queued(ProcessFIFO(g, cost), parsed'.last, Ended(w))
      /\ parsed' \in [last : Words, mixed : BOOLEAN] /\ ~parsed'.mixed
  BY <1>1, <1>4, <1>7, <1>8, WatchKeeps
<1>10. /\ gpu' \in GPUs /\ gpu'.time <= gpu.time /\ HasRoom(gpu', sender.room - 1)
       /\ Queued(gpu', parsed'.last, Ended(w))
  BY <1>5, <1>6, <1>9
<1>11. gpu'.time <= MaxTime
  <2>1. gpu'.time \in Int BY <1>10 DEF GPUs
  <2> QED BY <1>1, <1>2, <1>10, <2>1
<1>12. Ended(w) \in Words BY EndedType
<1>13. /\ sender' \in [does : Games, room : 0..Room, wrote : Words]
       /\ sender'.room = sender.room - 1 /\ sender'.wrote = Ended(w)
  <2>1. sender' = [sender EXCEPT !.room = @ - 1, !.wrote = Ended(w)] BY DEF Send
  <2> QED BY <1>1, <1>4, <1>12, <2>1
<1> QED BY <1>9, <1>10, <1>11, <1>13 DEF QueueOK

LEMMA SendFirstKeeps == ASSUME QueueOK(gpu, sender, parsed), SendFirst PROVE QueueOK(gpu', sender', parsed')
<1>1. PICK c \in GP0Commands : Send([of |-> c, n |-> 1]) BY DEF SendFirst
<1> DEFINE w == [of |-> c, n |-> 1]
<1>2. c \in Given BY DEF Given
<1>3. w \in Words /\ w.n = 1 /\ w.of = c BY <1>2 DEF Words, Given
<1>4. w.n <= Total(w.of) BY <1>2, <1>3, EntryType, TotalType
<1>5. IsNext(sender.wrote, w) BY <1>3 DEF SendFirst, IsNext
<1> HIDE DEF w
<1>6. Send(w) BY <1>1 DEF w
<1> QED BY <1>3, <1>4, <1>5, <1>6, SendKeeps

LEMMA SendNextKeeps == ASSUME QueueOK(gpu, sender, parsed), SendNext PROVE QueueOK(gpu', sender', parsed')
<1> DEFINE v == sender.wrote
           w == WordAfter(v)
<1>1. v \in Words /\ v.n <= Total(v.of) BY WroteType DEF QueueOK
<1>2. v.of \in Given /\ v.n \in Nat BY <1>1 DEF Words, Given
<1>3. w \in Words /\ w.of = v.of /\ w.n = v.n + 1 BY <1>2 DEF WordAfter, Words, Given
<1>4. ~IsLast(v) BY DEF SendNext
<1>5. Total(v.of) \in Nat BY <1>2, TotalType
<1>6. w.n <= Total(w.of) BY <1>1, <1>2, <1>3, <1>4, <1>5 DEF IsLast
<1>7. IsNext(v, w) BY <1>3, <1>4 DEF IsNext
<1>8. Send(w) BY DEF SendNext
<1> HIDE DEF w, v
<1>9. IsNext(sender.wrote, w) BY <1>7 DEF v
<1> QED BY <1>3, <1>6, <1>8, <1>9, SendKeeps

LEMMA UpdateKeeps == ASSUME QueueOK(gpu, sender, parsed), GPU_Update PROVE QueueOK(gpu', sender', parsed')
<1>1. PICK clocks \in GPUClocks, cost \in Costs :
        /\ gpu' = ProcessFIFO([gpu EXCEPT !.time = TimeAfter(@, clocks)], cost)
        /\ Watch([gpu EXCEPT !.time = TimeAfter(@, clocks)], <<>>, gpu')
  BY DEF GPU_Update
<1>2. PICK g : g = [gpu EXCEPT !.time = TimeAfter(@, clocks)] OBVIOUS
<1>3. /\ gpu \in GPUs /\ gpu.time \in Int /\ sender \in [does : Games, room : 0..Room, wrote : Words]
      /\ parsed \in [last : Words, mixed : BOOLEAN] /\ ~parsed.mixed
      /\ Queued(gpu, parsed.last, sender.wrote) /\ HasRoom(gpu, sender.room) /\ sender.room \in 0..Room
  BY DEF QueueOK, GPUs
<1>4. MaxTime \in Nat /\ clocks \in Nat BY GPUAssumption
<1>5. TimeAfter(gpu.time, clocks) \in Int /\ TimeAfter(gpu.time, clocks) <= MaxTime
  BY <1>3, <1>4 DEF TimeAfter
<1>6. /\ g \in GPUs /\ g.time = TimeAfter(gpu.time, clocks) /\ g.fifo = gpu.fifo /\ g.InCmd = gpu.InCmd
      /\ g.InCmd_CC = gpu.InCmd_CC /\ g.left = gpu.left
  BY <1>2, <1>3, <1>5 DEF GPUs
<1>7. Queued(g, parsed.last, sender.wrote) /\ HasRoom(g, sender.room)
  BY <1>3, <1>6 DEF Queued, HasRoom, AtPart, AtImage, AtQuad, AtPolyline
<1>8. g.fifo \o <<>> = g.fifo
  <2>1. g.fifo \in Seq(Words) BY <1>6 DEF GPUs
  <2> QED BY <2>1, ConcatEmptySeq
<1>9. gpu' = ProcessFIFO(g, cost) /\ Watch(g, <<>>, ProcessFIFO(g, cost)) BY <1>1, <1>2
<1>10. /\ ProcessFIFO(g, cost) \in GPUs /\ ProcessFIFO(g, cost).time <= g.time
       /\ HasRoom(ProcessFIFO(g, cost), sender.room)
       /\ Queued(ProcessFIFO(g, cost), parsed'.last, sender.wrote)
       /\ parsed' \in [last : Words, mixed : BOOLEAN] /\ ~parsed'.mixed
  BY <1>3, <1>6, <1>7, <1>8, <1>9, WatchKeeps
<1>11. /\ gpu' \in GPUs /\ gpu'.time <= g.time /\ HasRoom(gpu', sender.room)
       /\ Queued(gpu', parsed'.last, sender.wrote)
  BY <1>9, <1>10
<1>12. gpu'.time <= MaxTime
  <2>1. gpu'.time \in Int BY <1>11 DEF GPUs
  <2> QED BY <1>4, <1>5, <1>6, <1>11, <2>1
<1>13. sender' = sender BY DEF GPU_Update
<1> QED BY <1>3, <1>10, <1>11, <1>12, <1>13 DEF QueueOK

\* At most two halves of a line.  If the first ends a line that asks for the end of the frame,
\* the second ends none.
LEMMA UpdatePasses ==
  ASSUME BeamOK(beam, frame), display \in Displays, frame \in {"running", "ending"}, GPU_Update
  PROVE  BeamOK(beam', frame') /\ frame' \in {"running", "ending"}
<1>1. PICK halves \in 0..2 : Passes(halves) BY DEF GPU_Update
<1> DEFINE one == HalfLine(beam, display)
           two == HalfLine(one, display)
           exit == (halves > 0 /\ ExitsAt(beam, display)) \/ (halves > 1 /\ ExitsAt(one, display))
<1>2. /\ frame = "ending" => halves = 0
      /\ beam' = (CASE halves = 0 -> beam [] halves = 1 -> one [] halves = 2 -> two)
      /\ frame' = IF exit THEN "ending" ELSE frame
  BY <1>1 DEF Passes
<1>3. OnLine(beam) /\ ~beam.failed /\ beam.linephase \in 0..1 BY DEF BeamOK, OnLine, Beams
<1>4. frame = "running" => BeforeLast(beam) BY DEF BeamOK
<1>5. /\ OnLine(one) /\ one.linephase = 1 - beam.linephase
      /\ BeforeLast(beam) \/ beam.linephase = 0 => ~one.failed
      /\ BeforeLast(beam) /\ ~ExitsAt(beam, display) => BeforeLast(one)
  BY <1>3, HalfLineKeeps
<1> HIDE DEF one
<1>6. /\ OnLine(two)
      /\ BeforeLast(one) \/ one.linephase = 0 => (~one.failed => ~two.failed)
      /\ BeforeLast(one) /\ ~ExitsAt(one, display) => BeforeLast(two)
  BY <1>5, HalfLineKeeps
<1> HIDE DEF two
<1>7. CASE halves = 0
  <2>1. beam' = beam /\ frame' = frame BY <1>2, <1>7
  <2> QED BY <2>1
<1>8. CASE halves = 1
  <2>1. beam' = one /\ frame = "running" /\ frame' = IF ExitsAt(beam, display) THEN "ending" ELSE frame
    BY <1>2, <1>8
  <2> QED BY <1>4, <1>5, <2>1 DEF BeamOK
<1>9. CASE halves = 2
  <2>1. beam' = two /\ frame = "running"
        /\ frame' = IF ExitsAt(beam, display) \/ ExitsAt(one, display) THEN "ending" ELSE frame
    BY <1>2, <1>9
  <2>2. BeforeLast(beam) /\ ~one.failed BY <1>4, <1>5, <2>1
  <2>3. ExitsAt(beam, display) => one.linephase = 0 BY <1>5 DEF ExitsAt, StartsLine
  <2>4. ~two.failed BY <1>5, <1>6, <2>2, <2>3
  <2>5. frame' = "running" => BeforeLast(two) BY <1>5, <1>6, <2>1, <2>2
  <2> QED BY <1>6, <2>1, <2>4, <2>5 DEF BeamOK
<1> QED BY <1>7, <1>8, <1>9

LEMMA ReadDataKeeps == ASSUME QueueOK(gpu, sender, parsed), GPU_ReadData PROVE QueueOK(gpu', sender', parsed')
<1>1. gpu \in GPUs /\ gpu.InCmd = "FBREAD" /\ gpu' = MovePixels(gpu) /\ sender' = sender /\ parsed' = parsed
  BY DEF QueueOK, GPU_ReadData
<1>2. Queued(gpu, parsed.last, sender.wrote) /\ HasRoom(gpu, sender.room) BY DEF QueueOK
<1>3. /\ gpu' \in GPUs /\ gpu'.fifo = gpu.fifo /\ gpu'.time = gpu.time
      /\ gpu'.InCmd \in {"NONE", "FBREAD"} /\ (gpu'.InCmd = "FBREAD" => gpu'.left > 0)
  <2>1. gpu.left \in Nat BY <1>1 DEF GPUs
  <2>2. CASE gpu.left <= 2 BY <1>1, <2>2, MovePixelsType
  <2>3. CASE gpu.left > 2
    <3>1. gpu.left - 2 > 0 BY <2>1, <2>3
    <3> QED BY <1>1, <2>3, <3>1, MovePixelsType
  <2> QED BY <2>1, <2>2, <2>3
<1>4. parsed.last = Nothing BY <1>1, <1>2 DEF Queued, AtPart
<1>5. Queued(gpu', parsed.last, sender.wrote)
  <2>1. AtPart(gpu', parsed.last) BY <1>3, <1>4, NothingType DEF AtPart
  <2> QED BY <1>2, <1>3, <2>1 DEF Queued
<1>6. HasRoom(gpu', sender.room) BY <1>1, <1>2, <1>3 DEF HasRoom
<1> QED BY <1>1, <1>3, <1>5, <1>6 DEF QueueOK

\* The queue after a write to GP1, and when the console is switched on.
LEMMA StartsOverKeeps ==
  ASSUME QueueOK(gpu, sender, parsed), StartsOver, Forget,
         gpu' \in GPUs, gpu'.time <= MaxTime, gpu'.fifo = <<>>, gpu'.InCmd = "NONE"
  PROVE  QueueOK(gpu', sender', parsed')
<1>1. 0 \in 0..Room /\ Nothing \in Words BY NothingType, GPUAssumption
<1>2. sender' \in [does : Games, room : 0..Room, wrote : Words] /\ sender'.room = 0 /\ sender'.wrote = Nothing
  BY <1>1 DEF QueueOK, StartsOver
<1>3. parsed' \in [last : Words, mixed : BOOLEAN] /\ parsed'.last = Nothing /\ parsed'.mixed = parsed.mixed
  BY <1>1 DEF QueueOK, Forget
<1>4. ~parsed'.mixed BY <1>3 DEF QueueOK
<1>5. Queued(gpu', Nothing, Nothing) /\ HasRoom(gpu', 0) BY EmptyQueue
<1> QED BY <1>2, <1>3, <1>4, <1>5 DEF QueueOK

LEMMA FlushType ==
  ASSUME NEW g \in GPUs, g.time <= MaxTime
  PROVE  Flush(g) \in GPUs /\ Flush(g).time <= MaxTime /\ Flush(g).fifo = <<>> /\ Flush(g).InCmd = "NONE"
<1> DEFINE t == IF g.time < 0 THEN 0 ELSE g.time
<1>1. t \in Int /\ t <= MaxTime BY GPUAssumption DEF GPUs
<1>2. Flush(g) = [g EXCEPT !.fifo = <<>>, !.InCmd = "NONE", !.time = t] BY DEF Flush, GPUs
<1>3. <<>> \in Seq(Words) OBVIOUS
<1> HIDE DEF t
<1>4. [g EXCEPT !.fifo = <<>>, !.InCmd = "NONE", !.time = t] \in GPUs BY <1>1, <1>3 DEF GPUs
<1>5. Flush(g).time = t /\ Flush(g).fifo = <<>> /\ Flush(g).InCmd = "NONE" BY <1>2 DEF GPUs
<1> QED BY <1>1, <1>2, <1>4, <1>5

LEMMA PoweredType ==
  /\ PoweredGPU \in GPUs /\ PoweredGPU.time <= MaxTime /\ PoweredGPU.fifo = <<>> /\ PoweredGPU.InCmd = "NONE"
  /\ \A c \in Given : LET g == [PoweredGPU EXCEPT !.InCmd_CC = c]
                      IN g \in GPUs /\ g.time <= MaxTime /\ g.fifo = <<>> /\ g.InCmd = "NONE"
<1>1. <<>> \in Seq(Words) /\ Null \in Given BY GivenType
<1>2. PoweredGPU \in GPUs BY <1>1 DEF PoweredGPU, GPUs
<1>3. PoweredGPU.time <= MaxTime /\ PoweredGPU.fifo = <<>> /\ PoweredGPU.InCmd = "NONE"
  BY GPUAssumption DEF PoweredGPU
<1>4. ASSUME NEW g \in GPUs, NEW c \in Given
      PROVE  LET h == [g EXCEPT !.InCmd_CC = c]
             IN h \in GPUs /\ h.time = g.time /\ h.fifo = g.fifo /\ h.InCmd = g.InCmd
  BY DEF GPUs
<1>5. ASSUME NEW c \in Given
      PROVE  LET g == [PoweredGPU EXCEPT !.InCmd_CC = c]
             IN g \in GPUs /\ g.time <= MaxTime /\ g.fifo = <<>> /\ g.InCmd = "NONE"
  BY <1>2, <1>3, <1>4
<1> QED BY <1>2, <1>3, <1>5

LEMMA PoweredBeamType ==
  ASSUME NEW b \in Beams
  PROVE  /\ OnLine(PoweredBeam(b))
         /\ PoweredBeam(b).failed = b.failed /\ PoweredBeam(b).reached = b.reached
<1> DEFINE h == PoweredBeam(b)
<1>1. LinesNTSC \in Nat \ {0} /\ LinesNTSC >= 2 BY BeamAssumption
<1>2. h = [b EXCEPT !.linephase = 0, !.scanline = 0, !.lines = LinesNTSC, !.field = 0, !.invblank = TRUE]
  BY DEF PoweredBeam
<1> HIDE DEF h
<1>3. b \in [linephase : 0..1, scanline : Nat, lines : Nat \ {0}, field : 0..1, invblank : BOOLEAN,
             reached : BOOLEAN, failed : BOOLEAN] BY DEF Beams
<1>4. 0 \in 0..1 /\ 0 \in Nat OBVIOUS
<1>5. h \in [linephase : 0..1, scanline : Nat, lines : Nat \ {0}, field : 0..1, invblank : BOOLEAN,
             reached : BOOLEAN, failed : BOOLEAN] BY <1>1, <1>2, <1>3, <1>4, Zenon
<1>6. h.scanline = 0 /\ h.lines = LinesNTSC BY <1>2, <1>3
<1>7. h.failed = b.failed /\ h.reached = b.reached BY <1>2, <1>3, Zenon
<1>8. OnLine(h) BY <1>1, <1>5, <1>6 DEF OnLine, Beams
<1> QED BY <1>7, <1>8 DEF h

LEMMA InitInv == GPU_Init => IInv
<1> SUFFICES ASSUME GPU_Init PROVE IInv OBVIOUS
<1>1. Null \in Given /\ Nothing \in Words BY GivenType, NothingType
<1>2. gpu \in GPUs /\ gpu.time <= MaxTime /\ gpu.fifo = <<>> /\ gpu.InCmd = "NONE"
  <2>1. gpu = PoweredGPU BY DEF GPU_Init
  <2> QED BY <2>1, PoweredType
<1>3. Queued(gpu, Nothing, Nothing) /\ HasRoom(gpu, 0) BY <1>2, EmptyQueue
<1>4. sender \in [does : Games, room : 0..Room, wrote : Words] /\ sender.room = 0 /\ sender.wrote = Nothing
  <2>1. 0 \in 0..Room BY GPUAssumption
  <2> QED BY <1>1, <2>1 DEF GPU_Init
<1>5. parsed \in [last : Words, mixed : BOOLEAN] /\ parsed.last = Nothing /\ ~parsed.mixed BY <1>1 DEF GPU_Init
<1>6. QueueOK(gpu, sender, parsed) BY <1>2, <1>3, <1>4, <1>5 DEF QueueOK
<1> DEFINE b == [linephase |-> 0, scanline |-> 0, lines |-> LinesNTSC, field |-> 0, invblank |-> TRUE,
                 reached |-> FALSE, failed |-> FALSE]
<1>7. b \in Beams /\ ~b.reached /\ ~b.failed BY BeamAssumption DEF Beams
<1>8. beam = PoweredBeam(b) BY DEF GPU_Init
<1> HIDE DEF b
<1>9. BeamOK(beam, frame) BY <1>7, <1>8, PoweredBeamType DEF BeamOK, BeforeLast
<1>10. display \in Displays /\ frame \in {"running", "ending"} BY GPUAssumption DEF GPU_Init
<1> QED BY <1>6, <1>9, <1>10, InvParts

LEMMA StepInv == IInv /\ [GPU_Next]_gpuVars => IInv'
<1> SUFFICES ASSUME IInv, [GPU_Next]_gpuVars PROVE IInv' OBVIOUS
<1>1. /\ QueueOK(gpu, sender, parsed) /\ BeamOK(beam, frame)
      /\ display \in Displays /\ frame \in {"running", "ending"}
  BY InvParts
<1>2. SUFFICES /\ QueueOK(gpu', sender', parsed') /\ BeamOK(beam', frame')
               /\ display' \in Displays /\ frame' \in {"running", "ending"}
  <2>1. GPUs = [fifo : Seq(Words), InCmd : {"NONE", "FBREAD", "FBWRITE", "QUAD", "PLINE"},
                InCmd_CC : GP0Commands \cup {Null}, left : Nat, time : Int, IRQPending : BOOLEAN]
    BY DEF GPUs, Given
  <2>2. BeamOK(beam', frame') <=> (beam \in Beams /\ BeamInv)' BY DEF BeamOK, BeamInv, OnLine, BeforeLast
  <2> QED BY <2>1, <2>2, Zenon DEF IInv, GPU_TypeOK, QueueInv, QueueOK
<1>3. gpu \in GPUs /\ gpu.time <= MaxTime /\ gpu.InCmd_CC \in Given BY <1>1 DEF QueueOK, GPUs
<1>4. Default \in Displays /\ Settings \subseteq Displays BY GPUAssumption
<1>5. CASE UNCHANGED gpuVars BY <1>1, <1>5 DEF gpuVars
<1>6. CASE BeginBlock
  <2>1. sender' = [sender EXCEPT !.room = Room] /\ UNCHANGED <<gpu, beam, display, frame, parsed>>
        /\ CalcFIFOReadyBit(gpu)
    BY <1>6 DEF BeginBlock
  <2>2. Room \in Nat \ {0} /\ Room \in 0..Room BY GPUAssumption
  <2>3. sender' \in [does : Games, room : 0..Room, wrote : Words] /\ sender'.room = Room /\ sender'.wrote = sender.wrote
    BY <1>1, <2>1, <2>2 DEF QueueOK
  <2>4. HasRoom(gpu, Room)
    <3>1. CASE gpu.fifo = <<>>
      <4>1. Len(gpu.fifo) = 0 BY <3>1
      <4> QED BY <2>2, <4>1 DEF HasRoom
    <3>2. CASE gpu.fifo # <<>>
      <4>1. gpu.InCmd = "NONE" /\ Len(gpu.fifo) < Entry(CommandOf(Head(gpu.fifo))).fifo_fb_len
        BY <2>1, <3>2 DEF CalcFIFOReadyBit
      <4>2. Head(gpu.fifo) = gpu.fifo[1] BY <1>3, <3>2, FifoType
      <4>3. Entry(CommandOf(gpu.fifo[1])).fifo_fb_len \in Nat
        <5>1. CommandOf(gpu.fifo[1]) \in Given BY <1>3, <3>2, FifoType, GivenType DEF CommandOf
        <5> QED BY <5>1, EntryType
      <4>4. Len(gpu.fifo) < Entry(CommandOf(gpu.fifo[1])).fifo_fb_len + Room - Room BY <2>2, <4>1, <4>2, <4>3
      <4> QED BY <3>2, <4>1, <4>4 DEF HasRoom
    <3> QED BY <3>1, <3>2
  <2> QED BY <1>1, <2>1, <2>3, <2>4 DEF QueueOK
<1>7. CASE EndBlock
  <2>1. sender' = [sender EXCEPT !.room = 0] /\ UNCHANGED <<gpu, beam, display, frame, parsed>> BY <1>7 DEF EndBlock
  <2>2. 0 \in 0..Room BY GPUAssumption
  <2>3. sender' \in [does : Games, room : 0..Room, wrote : Words] /\ sender'.room = 0 /\ sender'.wrote = sender.wrote
    BY <1>1, <2>1, <2>2 DEF QueueOK
  <2> QED BY <1>1, <2>1, <2>3 DEF QueueOK, HasRoom
<1>8. CASE SendFirst
  <2>1. UNCHANGED <<beam, display, frame>> BY <1>8 DEF SendFirst, Send
  <2> QED BY <1>1, <1>8, <2>1, SendFirstKeeps
<1>9. CASE SendNext
  <2>1. UNCHANGED <<beam, display, frame>> BY <1>9 DEF SendNext, Send
  <2> QED BY <1>1, <1>9, <2>1, SendNextKeeps
<1>10. CASE GPU_ReadData
  <2>1. UNCHANGED <<beam, display, frame>> BY <1>10 DEF GPU_ReadData
  <2> QED BY <1>1, <1>10, <2>1, ReadDataKeeps
<1>11. CASE SoftReset
  <2>1. gpu' = [Flush(gpu) EXCEPT !.IRQPending = FALSE] /\ display' = Default /\ UNCHANGED <<beam, frame>>
        /\ StartsOver /\ Forget
    BY <1>11 DEF SoftReset
  <2>2. Flush(gpu) \in GPUs /\ Flush(gpu).time <= MaxTime /\ Flush(gpu).fifo = <<>> /\ Flush(gpu).InCmd = "NONE"
    BY <1>3, FlushType
  <2>3. gpu' \in GPUs /\ gpu'.time <= MaxTime /\ gpu'.fifo = <<>> /\ gpu'.InCmd = "NONE" BY <2>1, <2>2 DEF GPUs
  <2> QED BY <1>1, <1>4, <2>1, <2>3, StartsOverKeeps
<1>12. CASE ResetBuffer
  <2>1. gpu' = Flush(gpu) /\ UNCHANGED <<beam, display, frame>> /\ StartsOver /\ Forget BY <1>12 DEF ResetBuffer
  <2>2. gpu' \in GPUs /\ gpu'.time <= MaxTime /\ gpu'.fifo = <<>> /\ gpu'.InCmd = "NONE" BY <1>3, <2>1, FlushType
  <2> QED BY <1>1, <2>1, <2>2, StartsOverKeeps
<1>13. CASE AckIRQ
  <2>1. gpu' = [gpu EXCEPT !.IRQPending = FALSE] /\ UNCHANGED <<beam, display, frame, sender, parsed>>
    BY <1>13 DEF AckIRQ
  <2>2. /\ gpu' \in GPUs /\ gpu'.time = gpu.time /\ gpu'.fifo = gpu.fifo /\ gpu'.InCmd = gpu.InCmd
        /\ gpu'.InCmd_CC = gpu.InCmd_CC /\ gpu'.left = gpu.left
    BY <1>3, <2>1 DEF GPUs
  <2>3. Queued(gpu', parsed.last, sender.wrote) /\ HasRoom(gpu', sender.room)
    BY <1>1, <2>2 DEF QueueOK, Queued, HasRoom, AtPart, AtImage, AtQuad, AtPolyline
  <2> QED BY <1>1, <2>1, <2>2, <2>3 DEF QueueOK
<1>14. CASE SetDisplay BY <1>1, <1>4, <1>14 DEF SetDisplay
<1>15. CASE GPU_Update
  <2>1. display' = display BY <1>15 DEF GPU_Update
  <2> QED BY <1>1, <1>15, <2>1, UpdateKeeps, UpdatePasses
<1>16. CASE StartFrame
  <2>1. frame' = "running" /\ beam' = [beam EXCEPT !.reached = FALSE] /\ UNCHANGED <<gpu, display, sender, parsed>>
    BY <1>16 DEF StartFrame
  <2>2. OnLine(beam') /\ ~beam'.failed /\ ~beam'.reached BY <1>1, <2>1 DEF BeamOK, OnLine, Beams
  <2> QED BY <1>1, <2>1, <2>2 DEF BeamOK, BeforeLast
<1>17. CASE GPU_Power
  <2>1. frame = "ending" /\ frame' = frame /\ gpu' = [PoweredGPU EXCEPT !.InCmd_CC = gpu.InCmd_CC]
        /\ beam' = PoweredBeam(beam) /\ display' = Default /\ StartsOver /\ Forget
    BY <1>17 DEF GPU_Power
  <2>2. gpu' \in GPUs /\ gpu'.time <= MaxTime /\ gpu'.fifo = <<>> /\ gpu'.InCmd = "NONE" BY <1>3, <2>1, PoweredType
  <2>3. BeamOK(beam', frame') BY <1>1, <2>1, PoweredBeamType DEF BeamOK, OnLine
  <2> QED BY <1>1, <1>4, <2>1, <2>2, <2>3, StartsOverKeeps
<1> QED BY <1>5, <1>6, <1>7, <1>8, <1>9, <1>10, <1>11, <1>12, <1>13, <1>14, <1>15, <1>16, <1>17 DEF GPU_Next

THEOREM Invariance == GPU_Spec => []IInv
<1>1. GPU_Init => IInv BY InitInv
<1>2. IInv /\ [GPU_Next]_gpuVars => IInv' BY StepInv
<1> QED BY <1>1, <1>2, PTL DEF GPU_Spec

\* The queue, the beam and the game's blocks have their types, and drawing time is never more
\* than can be saved up (gpu.h, GPU_Update).
THEOREM TypeCorrect == GPU_Spec => []GPU_TypeOK
<1>1. IInv => GPU_TypeOK BY DEF IInv
<1> QED BY <1>1, Invariance, PTL

\* Whatever the commands and however blocks, updates, reads and resets follow each other, a
\* command is given its own words (WriteCB, ProcessFIFO and CalcFIFOReadyBit).
THEOREM CommandsDoKeepTheirWords == GPU_Spec => []CommandsKeepTheirWords
<1>1. IInv => CommandsKeepTheirWords BY DEF IInv, QueueInv, CommandsKeepTheirWords
<1> QED BY <1>1, Invariance, PTL

\* Whatever the display is set to meanwhile, the assertion at line 0 holds: retro_run has
\* returned in between (Update, and StartFrame).
THEOREM FramesAreFields == GPU_Spec => []EachFrameIsAField
<1>1. IInv => EachFrameIsAField BY DEF IInv, BeamInv, EachFrameIsAField
<1> QED BY <1>1, Invariance, PTL
==============================================================================

----------------------------- MODULE DMA_proofs -----------------------------
(***************************************************************************)
(* Proofs about DMA, for any channels, memory, transfers and interrupt     *)
(* controls, and about MDEC with the two channels that serve it, for any   *)
(* sizes, commands and words.                                              *)
(***************************************************************************)
EXTENDS DMA, MDEC, SequenceTheorems, TLAPS

USE DMAAssumption DEF IntControls

Logs == [whole : BOOLEAN, base : Addresses, words : Nat, moved : Nat, failed : BOOLEAN]

------------------------------------------------------------------------------
(* Operators on the registers of a channel.                                 *)

\* The channel that comes first is one of them.
LEMMA LeastIsMember ==
  ASSUME NEW S \in SUBSET (0..6), S # {} PROVE Least(S) \in S
<1>1. \E ch \in S : \A other \in S : ch <= other
  <2>1. CASE 0 \in S BY <2>1
  <2>2. CASE 0 \notin S /\ 1 \in S BY <2>2
  <2>3. CASE S \cap {0, 1} = {} /\ 2 \in S BY <2>3
  <2>4. CASE S \cap {0, 1, 2} = {} /\ 3 \in S BY <2>4
  <2>5. CASE S \cap {0, 1, 2, 3} = {} /\ 4 \in S BY <2>5
  <2>6. CASE S \cap {0, 1, 2, 3, 4} = {} /\ 5 \in S BY <2>6
  <2>7. CASE S \cap {0, 1, 2, 3, 4, 5} = {}
    <3>1. \A ch \in S : ch = 6 BY <2>7
    <3>2. PICK ch \in S : TRUE OBVIOUS
    <3>3. \A other \in S : ch <= other BY <3>1, <3>2
    <3> QED BY <3>2, <3>3
  <2> QED BY <2>1, <2>2, <2>3, <2>4, <2>5, <2>6, <2>7
<1> QED BY <1>1 DEF Least

LEMMA FirstIsChannel == First \in Channels
BY LeastIsMember DEF First

\* What the loop does to the registers of a channel keeps their widths.
LEMMA OffType == ASSUME NEW c \in ChannelState PROVE Off(c) \in ChannelState
BY DEF Off, ChannelState, ModeBits

LEMMA ReloadedType == ASSUME NEW c \in ChannelState PROVE Reloaded(c) \in ChannelState
<1>1. (c.Blocks - 1) % Span \in 0..(Span - 1)
  BY DEF ChannelState
<1> QED BY <1>1 DEF Reloaded, ChannelState, Addresses, End

LEMMA ChoppedType == ASSUME NEW c \in ChannelState PROVE Chopped(c) \in ChannelState
BY DEF Chopped, ChannelState

LEMMA EndIsPositive == End \in Nat /\ End > 0
BY DEF End

LEMMA Modulo == ASSUME NEW n \in Int, NEW d \in Nat, d > 0 PROVE n % d \in 0..(d - 1)
OBVIOUS

LEMMA MovedType == ASSUME NEW c \in ChannelState PROVE Moved(c) \in ChannelState
<1>1. (c.WordCounter - 1) % Span \in 0..(Span - 1)
  BY DEF ChannelState
<1>2. /\ (c.CurAddr - 1) % End \in Addresses
      /\ (c.CurAddr + 1) % End \in Addresses
  <2>1. c.CurAddr - 1 \in Int /\ c.CurAddr + 1 \in Int
    BY EndIsPositive DEF ChannelState, Addresses
  <2> QED BY <2>1, Modulo, EndIsPositive DEF Addresses
<1>3. (IF c.mode.back THEN c.CurAddr - 1 ELSE c.CurAddr + 1) % End \in Addresses
  BY <1>2
<1> QED BY <1>1, <1>3 DEF Moved, ChannelState

LEMMA ListedType ==
  ASSUME NEW c \in ChannelState, ~Bad(c.BaseAddr)
  PROVE  /\ Listed(c) \in ChannelState
         /\ [Listed(c) EXCEPT !.BaseAddr = Listed(c).CurAddr, !.Size = Listed(c).WordCounter] \in ChannelState
<1>1. c.BaseAddr \in 0..(Half - 1)
  BY DEF ChannelState, Addresses, End, Bad
<1>2. Header[c.BaseAddr].count \in 0..(Span - 1) /\ Header[c.BaseAddr].next \in Addresses
  BY <1>1
<1>3. (c.BaseAddr + 1) % End \in Addresses
  BY <1>1 DEF Addresses, End
<1>4. Listed(c) \in ChannelState
  BY <1>2, <1>3 DEF Listed, ChannelState
<1> QED BY <1>4 DEF ChannelState

------------------------------------------------------------------------------
(* The end of an iteration.                                                 *)

\* An iteration that leaves a channel as c ends it or not; only the end of a block
\* moves its base address, and only the end of the channel turns it off.
Ended(ch, c) ==
  /\ DMACH' = [DMACH EXCEPT ![ch] = DMACH'[ch]]
  /\ DMACH'[ch] \in ChannelState
  /\ DMACH'[ch].WordCounter = c.WordCounter
  /\ DMACH'[ch].CurAddr = c.CurAddr
  /\ DMACH'[ch].Size = c.Size /\ DMACH'[ch].Blocks = c.Blocks
  /\ DMACH'[ch].mode.sync = c.mode.sync /\ DMACH'[ch].mode.chop = c.mode.chop
  /\ DMACH'[ch].mode.back = c.mode.back
  /\ DMACH'[ch].BaseAddr = IF c.WordCounter = 0 /\ c.mode.on /\ c.mode.sync = 1
                             THEN c.CurAddr ELSE c.BaseAddr
  /\ DMAIntStatus' \subseteq Channels
  /\ \/ /\ DMACH'[ch].mode.on = c.mode.on
        /\ c.mode.on /\ c.WordCounter = 0 /\ c.mode.sync < 2 => c.mode.sync = 1 /\ c.Blocks # 0
        /\ DMAIntStatus' = DMAIntStatus
     \/ /\ ~DMACH'[ch].mode.on /\ c.mode.on /\ c.WordCounter = 0
        /\ c.mode.sync = 1 => c.Blocks = 0
        /\ DMAIntStatus' = DMAIntStatus \cup ({ch} \cap DMAIntControl.enable)

LEMMA EndConditionEffect ==
  ASSUME TypeOK, NEW ch \in Channels, NEW c \in ChannelState, EndCondition(ch, c)
  PROVE  Ended(ch, c)
<1> USE DEF Ended
<1> DEFINE done == c.WordCounter = 0 /\ c.mode.on
           next == IF done /\ c.mode.sync = 1 THEN [c EXCEPT !.BaseAddr = c.CurAddr] ELSE c
<1>1. /\ next \in ChannelState /\ next.WordCounter = c.WordCounter /\ next.CurAddr = c.CurAddr
      /\ next.Size = c.Size /\ next.Blocks = c.Blocks /\ next.mode = c.mode
      /\ next.BaseAddr = IF done /\ c.mode.sync = 1 THEN c.CurAddr ELSE c.BaseAddr
  BY DEF ChannelState
<1>2. /\ Off(next) \in ChannelState /\ Off(next).WordCounter = c.WordCounter /\ Off(next).CurAddr = c.CurAddr
      /\ Off(next).Size = c.Size /\ Off(next).Blocks = c.Blocks
      /\ Off(next).mode.sync = c.mode.sync /\ Off(next).mode.chop = c.mode.chop
      /\ Off(next).mode.back = c.mode.back /\ ~Off(next).mode.on
      /\ Off(next).BaseAddr = IF done /\ c.mode.sync = 1 THEN c.CurAddr ELSE c.BaseAddr
  <2> HIDE DEF next
  <2> QED BY <1>1, OffType DEF Off, ChannelState, ModeBits
<1>3. c.mode \in ModeBits /\ c.mode.sync \in 0..3
  BY DEF ChannelState, ModeBits
<1>4. CASE done /\ IsLast(next)
  <2>1. /\ DMACH' = [DMACH EXCEPT ![ch] = Off(next)]
        /\ DMAIntStatus' = DMAIntStatus \cup ({ch} \cap DMAIntControl.enable)
    BY <1>4 DEF EndCondition
  <2>2. DMACH'[ch] = Off(next)
    BY <2>1 DEF TypeOK
  <2>3. c.mode.sync = 1 => c.Blocks = 0
    BY <1>4, <1>1 DEF IsLast
  <2> HIDE DEF next
  <2>4. DMAIntStatus' \subseteq Channels
    BY <2>1 DEF TypeOK
  <2> QED BY <2>1, <2>2, <2>3, <2>4, <1>2, <1>4
<1>5. CASE ~(done /\ IsLast(next))
  <2>1. DMACH' = [DMACH EXCEPT ![ch] = next] /\ DMAIntStatus' = DMAIntStatus
    BY <1>5 DEF EndCondition
  <2>2. DMACH'[ch] = next
    BY <2>1 DEF TypeOK
  <2>3. done /\ c.mode.sync < 2 => c.mode.sync = 1 /\ c.Blocks # 0
    BY <1>5, <1>1, <1>3 DEF IsLast
  <2> HIDE DEF next
  <2>4. DMAIntStatus' \subseteq Channels
    BY <2>1 DEF TypeOK
  <2> QED BY <2>1, <2>2, <2>3, <2>4, <1>1, <1>5
<1> QED BY <1>4, <1>5
------------------------------------------------------------------------------
(* An iteration.                                                            *)

\* The registers from which the next word is moved.
Taken(ch) ==
  IF DMACH[ch].WordCounter = 0 THEN Reloaded(DMACH[ch])
  ELSE IF DMACH[ch].mode.chop THEN Chopped(DMACH[ch]) ELSE DMACH[ch]

Fails(ch) ==
  \E c \in ChannelState : c.mode = DMACH[ch].mode /\ Bad(c.CurAddr) /\ AddressError(ch, c)

ReadsOn(ch) ==
  /\ DMACH[ch].mode.on /\ DMACH[ch].mode.sync >= 2 /\ DMACH[ch].WordCounter = 0
  /\ \E c \in ChannelState : c.mode = DMACH[ch].mode /\ EndCondition(ch, c)
  /\ UNCHANGED <<DMAIntControl, log>>

MovesOn(ch) ==
  /\ Taken(ch) \in ChannelState /\ Taken(ch).mode = DMACH[ch].mode
  /\ DMACH[ch].WordCounter = 0 => DMACH[ch].mode.on /\ DMACH[ch].mode.sync < 2
  /\ EndCondition(ch, Moved(Taken(ch)))
  /\ log' = [log EXCEPT ![ch] = IF ~DMACH'[ch].mode.on THEN Unfollowed(log[ch])
                                ELSE IF log[ch].whole THEN [log[ch] EXCEPT !.moved = @ + 1] ELSE log[ch]]
  /\ UNCHANGED DMAIntControl

\* An iteration fails, reads the header of a list or moves a word.
LEMMA IterationCases ==
  ASSUME TypeOK, NEW ch \in Channels, ReadHeader(ch) \/ MoveWord(ch)
  PROVE  Fails(ch) \/ ReadsOn(ch) \/ MovesOn(ch)
<1> DEFINE c == DMACH[ch]
<1>1. c \in ChannelState
  BY DEF TypeOK
<1>2. CASE ReadHeader(ch)
  <2>1. c.WordCounter = 0 /\ c.mode.on /\ c.mode.sync >= 2
    BY <1>2 DEF ReadHeader, Starts
  <2>2. CASE Bad(c.BaseAddr)
    <3>1. AddressError(ch, [c EXCEPT !.CurAddr = c.BaseAddr])
      BY <1>2, <2>2 DEF ReadHeader
    <3>2. /\ [c EXCEPT !.CurAddr = c.BaseAddr] \in ChannelState
          /\ [c EXCEPT !.CurAddr = c.BaseAddr].mode = c.mode
          /\ [c EXCEPT !.CurAddr = c.BaseAddr].CurAddr = c.BaseAddr
      BY <1>1 DEF ChannelState
    <3> QED BY <3>1, <3>2, <2>2 DEF Fails
  <2>3. CASE ~Bad(c.BaseAddr)
    <3> DEFINE kept == [Listed(c) EXCEPT !.BaseAddr = Listed(c).CurAddr, !.Size = Listed(c).WordCounter]
    <3>1. EndCondition(ch, IF c.mode.chop THEN kept ELSE Listed(c)) /\ UNCHANGED <<DMAIntControl, log>>
      BY <1>2, <2>3 DEF ReadHeader
    <3>2. Listed(c) \in ChannelState /\ kept \in ChannelState
      BY <1>1, <2>3, ListedType
    <3>3. Listed(c).mode = c.mode
      BY <1>1 DEF Listed, ChannelState
    <3>4. kept.mode = c.mode
      BY <3>2, <3>3 DEF ChannelState
    <3> HIDE DEF kept
    <3> QED BY <3>1, <3>2, <3>3, <3>4, <2>1 DEF ReadsOn
  <2> QED BY <2>2, <2>3
<1>3. CASE MoveWord(ch)
  <2>1. /\ Taken(ch) \in ChannelState /\ Taken(ch).mode = c.mode
    <3>1. Reloaded(c).mode = c.mode /\ Chopped(c).mode = c.mode
      BY <1>1 DEF Reloaded, Chopped, ChannelState
    <3> QED BY <1>1, <3>1, ReloadedType, ChoppedType DEF Taken
  <2>2. c.WordCounter = 0 => c.mode.on /\ c.mode.sync < 2
    BY <1>3, <2>1 DEF MoveWord, Starts, Taken
  <2>3. CASE Bad(Taken(ch).CurAddr)
    <3>1. AddressError(ch, Taken(ch))
      BY <1>3, <2>3 DEF MoveWord, Taken
    <3> QED BY <3>1, <2>1, <2>3 DEF Fails
  <2>4. CASE ~Bad(Taken(ch).CurAddr)
    <3>1. /\ EndCondition(ch, Moved(Taken(ch))) /\ UNCHANGED DMAIntControl
          /\ log' = [log EXCEPT ![ch] = IF ~DMACH'[ch].mode.on THEN Unfollowed(log[ch])
                                        ELSE IF log[ch].whole THEN [log[ch] EXCEPT !.moved = @ + 1] ELSE log[ch]]
      BY <1>3, <2>4 DEF MoveWord, Taken
    <3> QED BY <3>1, <2>1, <2>2 DEF MovesOn
  <2> QED BY <2>3, <2>4
<1> QED BY <1>2, <1>3

\* What is left of a channel after a failure.
LEMMA FailureEffect ==
  ASSUME TypeOK, NEW ch \in Channels, Fails(ch)
  PROVE  /\ DMACH' = [DMACH EXCEPT ![ch] = DMACH'[ch]]
         /\ DMACH'[ch] \in ChannelState /\ ~DMACH'[ch].mode.on /\ Bad(DMACH'[ch].CurAddr)
         /\ log' = [log EXCEPT ![ch] = Failed] /\ log'[ch] = Failed
         /\ DMAIntControl' \in IntControls /\ DMAIntControl'.force
         /\ UNCHANGED DMAIntStatus
<1>1. PICK c \in ChannelState : Bad(c.CurAddr) /\ AddressError(ch, c)
  BY DEF Fails
<1>2. DMACH'[ch] = Off(c) /\ DMACH' = [DMACH EXCEPT ![ch] = Off(c)]
  BY <1>1 DEF AddressError, TypeOK
<1>3. Off(c) \in ChannelState /\ ~Off(c).mode.on /\ Off(c).CurAddr = c.CurAddr
  BY OffType DEF Off, ChannelState, ModeBits
<1>4. DMAIntControl' \in IntControls /\ DMAIntControl'.force
  BY <1>1 DEF AddressError, TypeOK
<1>5. log' = [log EXCEPT ![ch] = Failed] /\ log'[ch] = Failed
  BY <1>1 DEF AddressError, TypeOK
<1>6. UNCHANGED DMAIntStatus
  BY <1>1 DEF AddressError
<1> QED BY <1>1, <1>2, <1>3, <1>4, <1>5, <1>6
------------------------------------------------------------------------------
(* The inductive invariant.                                                 *)

LineFollows == IRQOut <=> Requested(DMAIntControl, DMAIntStatus)

HaltFollows == pc \in {"rest", "write"} => (Halted <=> \E ch \in Channels : Bursting(DMACH[ch]))

Full(n) == IF n = 0 THEN Span ELSE n

\* The words a channel that goes on would move.
Left(c) ==
  IF c.mode.sync = 1
    THEN IF c.WordCounter = 0 THEN Full(c.Size) * Full(c.Blocks) ELSE c.Blocks * Full(c.Size) + c.WordCounter
    ELSE IF c.WordCounter = 0 THEN Full(c.Size) ELSE c.WordCounter

Place(l, c) == (l.base + (IF c.mode.back THEN - l.moved ELSE l.moved)) % End

\* What the registers of a channel hold while a transfer goes on: as many words as are
\* left, and the address of the next where the loop looks for it.
Follows(ch) ==
  LET c == DMACH[ch]
      l == log[ch]
  IN l.whole =>
       /\ c.mode.on /\ (c.mode.sync = 0 \/ (c.mode.sync = 1 /\ ~c.mode.chop))
       /\ l.words = l.moved + Left(c)
       /\ l.moved = 0 => c.WordCounter = 0 /\ c.BaseAddr = l.base
       /\ l.moved > 0 =>
            /\ c.CurAddr = Place(l, c)
            /\ c.WordCounter = 0 \/ c.mode.chop => c.BaseAddr = c.CurAddr
            /\ c.mode.chop => c.Size = c.WordCounter
            /\ c.WordCounter = 0 => c.mode.sync = 1 /\ c.Blocks # 0

StopHolds == pc = "stop" => ~DMACH[at].mode.on

IInv ==
  /\ TypeOK
  /\ StoppedIsEmpty
  /\ StopHolds
  /\ LineFollows
  /\ HaltFollows
  /\ \A ch \in Channels : Follows(ch)

\* A channel never has fewer than one word left, and a transfer has as many as it was told.
LEMMA FullIsPositive == ASSUME NEW n \in 0..(Span - 1) PROVE Full(n) \in Nat /\ Full(n) > 0
BY DEF Full

LEMMA ProductIsPositive ==
  ASSUME NEW m \in Nat, NEW n \in Nat, m > 0, n > 0 PROVE m * n \in Nat /\ m * n > 0
OBVIOUS

LEMMA LeftIsPositive == ASSUME NEW c \in ChannelState PROVE Left(c) \in Nat /\ Left(c) > 0
<1>1. /\ c.Size \in 0..(Span - 1) /\ c.Blocks \in 0..(Span - 1) /\ c.WordCounter \in 0..(Span - 1)
  BY DEF ChannelState
<1>2. Full(c.Size) * Full(c.Blocks) \in Nat /\ Full(c.Size) * Full(c.Blocks) > 0
  BY <1>1, FullIsPositive, ProductIsPositive
<1>3. c.Blocks * Full(c.Size) \in Nat
  BY <1>1, FullIsPositive, ProductIsPositive
<1> DEFINE p == Full(c.Size) * Full(c.Blocks)
           q == c.Blocks * Full(c.Size)
<1>4. Left(c) = IF c.mode.sync = 1 THEN (IF c.WordCounter = 0 THEN p ELSE q + c.WordCounter)
                ELSE (IF c.WordCounter = 0 THEN Full(c.Size) ELSE c.WordCounter)
  BY DEF Left
<1>5. Full(c.Size) \in Nat /\ Full(c.Size) > 0
  BY <1>1, FullIsPositive
<1> HIDE DEF p, q
<1>6. p \in Nat /\ p > 0 /\ q \in Nat
  BY <1>2, <1>3 DEF p, q
<1> QED BY <1>1, <1>4, <1>5, <1>6

LEMMA ProductIsNatural == \A a, b \in Nat : a * b \in Nat /\ a * b = b * a
OBVIOUS

LEMMA OneBlockLess ==
  ASSUME NEW m \in Nat, NEW n \in Nat, n > 0 PROVE m * n = m * (n - 1) + m
OBVIOUS

LEMMA Remainder ==
  ASSUME NEW d \in Nat, d > 0, NEW q \in Int, NEW r \in 0..(d - 1)
  PROVE  (d * q + r) % d = r
<1> DEFINE x == d * q + r
           p == x \div d
           s == x % d
<1>1. x \in Int
  OBVIOUS
<1>2. \A n \in Int : n \div d \in Int /\ n % d \in 0..(d - 1) /\ n = d * (n \div d) + (n % d)
  OBVIOUS
<1>3. p \in Int /\ s \in 0..(d - 1) /\ d * q + r = d * p + s
  BY <1>1, <1>2
<1> HIDE DEF p, s
<1>4. d * (q - p) = s - r /\ d * (p - q) = r - s
  BY <1>3
<1>5. \A k \in Nat : k >= 1 => d * k >= d
  <2> SUFFICES ASSUME NEW k \in Nat, k >= 1 PROVE d * k >= d
    OBVIOUS
  <2>1. d * k = d * (k - 1) + d /\ d * (k - 1) \in Nat
    OBVIOUS
  <2> QED BY <2>1
<1>6. ~(q - p >= 1)
  <2> SUFFICES ASSUME q - p >= 1 PROVE FALSE
    OBVIOUS
  <2>1. q - p \in Nat
    BY <1>3
  <2>2. d * (q - p) >= d
    BY <2>1, <1>5
  <2>3. s - r >= d
    BY <2>2, <1>4
  <2>4. s \in 0..(d - 1)
    BY <1>3
  <2> QED BY <2>3, <2>4
<1>7. ~(p - q >= 1)
  <2> SUFFICES ASSUME p - q >= 1 PROVE FALSE
    OBVIOUS
  <2>1. p - q \in Nat
    BY <1>3
  <2>2. d * (p - q) >= d
    BY <2>1, <1>5
  <2>3. r - s >= d
    BY <2>2, <1>4
  <2>4. s \in 0..(d - 1)
    BY <1>3
  <2> QED BY <2>3, <2>4
<1>8. q = p
  BY <1>3, <1>6, <1>7
<1>9. s = r
  BY <1>3, <1>8
<1> QED BY <1>9 DEF s

\* An address counted on by one.
LEMMA NextPlace ==
  ASSUME NEW b \in Int, NEW k \in Int, NEW d \in Nat, d > 0
  PROVE  ((b % d) + k) % d = (b + k) % d
<1> DEFINE q == b \div d
           r == b % d
           p == (r + k) \div d
           s == (r + k) % d
<1>1. \A n \in Int : n \div d \in Int /\ n % d \in 0..(d - 1) /\ n = d * (n \div d) + (n % d)
  OBVIOUS
<1>2. q \in Int /\ r \in 0..(d - 1) /\ b = d * q + r
  BY <1>1
<1> HIDE DEF q, r
<1>3. r + k \in Int
  BY <1>2
<1>4. p \in Int /\ s \in 0..(d - 1) /\ r + k = d * p + s
  BY <1>1, <1>3
<1> HIDE DEF p, s
<1>5. (d * (q + p) + s) % d = s
  <2>1. q + p \in Int /\ s \in 0..(d - 1)
    BY <1>2, <1>4
  <2> QED BY <2>1, Remainder
<1>6. d * (q + p) + s = b + k
  BY <1>2, <1>4
<1> QED BY <1>5, <1>6 DEF r, s

\* Zero counts down to the most, as a full counter would.
LEMMA CountedDown == ASSUME NEW n \in 0..(Span - 1) PROVE (n - 1) % Span = Full(n) - 1
<1> DEFINE r == IF n = 0 THEN Span - 1 ELSE n - 1
           q == IF n = 0 THEN -1 ELSE 0
<1>1. Span \in Nat /\ Span > 0 /\ q \in Int /\ r \in 0..(Span - 1)
  OBVIOUS
<1>2. Span * q + r = n - 1
  OBVIOUS
<1>3. r = Full(n) - 1
  BY DEF Full
<1> HIDE DEF q, r
<1>4. (Span * q + r) % Span = r
  BY <1>1, Remainder
<1> QED BY <1>2, <1>3, <1>4

\* What moving a word leaves in the registers.
LEMMA MovedEffect ==
  ASSUME NEW c \in ChannelState
  PROVE  /\ Moved(c).CurAddr = (IF c.mode.back THEN c.CurAddr - 1 ELSE c.CurAddr + 1) % End
         /\ Moved(c).WordCounter = Full(c.WordCounter) - 1
         /\ Moved(c).BaseAddr = IF c.mode.chop THEN Moved(c).CurAddr ELSE c.BaseAddr
         /\ Moved(c).Size = IF c.mode.chop THEN Moved(c).WordCounter ELSE c.Size
         /\ Moved(c).Blocks = c.Blocks /\ Moved(c).mode = c.mode
<1>1. c.WordCounter \in 0..(Span - 1)
  BY DEF ChannelState
<1>2. (c.WordCounter - 1) % Span = Full(c.WordCounter) - 1
  BY <1>1, CountedDown
<1> QED BY <1>2 DEF Moved, ChannelState

\* A transfer that is followed is still followed after a word, or that was its last one.
LEMMA TransferStep ==
  ASSUME TypeOK, NEW ch \in Channels, Follows(ch), log[ch].whole, MovesOn(ch)
  PROVE  IF DMACH'[ch].mode.on THEN Follows(ch)' ELSE log[ch].moved + 1 = log[ch].words
<1> DEFINE c == DMACH[ch]
           l == log[ch]
           t == Taken(ch)
           n == DMACH'[ch]
<1>1. /\ c \in ChannelState /\ l \in Logs
  BY DEF TypeOK, Logs
<1>2. /\ c.Size \in 0..(Span - 1) /\ c.Blocks \in 0..(Span - 1) /\ c.WordCounter \in 0..(Span - 1)
      /\ l.moved \in Nat /\ l.words \in Nat /\ l.base \in Nat /\ c.CurAddr \in Nat /\ c.BaseAddr \in Nat
      /\ c.mode.on \in BOOLEAN /\ c.mode.back \in BOOLEAN /\ c.mode.chop \in BOOLEAN
  <2>1. l.moved \in Nat /\ l.words \in Nat /\ l.base \in Addresses
    BY <1>1 DEF Logs
  <2>2. /\ c.Size \in 0..(Span - 1) /\ c.Blocks \in 0..(Span - 1) /\ c.WordCounter \in 0..(Span - 1)
        /\ c.CurAddr \in Addresses /\ c.BaseAddr \in Addresses /\ c.mode \in ModeBits
    BY <1>1 DEF ChannelState
  <2>3. c.mode.on \in BOOLEAN /\ c.mode.back \in BOOLEAN /\ c.mode.chop \in BOOLEAN
    BY <2>2 DEF ModeBits
  <2>4. Addresses \subseteq Nat
    BY EndIsPositive DEF Addresses
  <2> QED BY <2>1, <2>2, <2>3, <2>4
<1>3. /\ c.mode.on /\ (c.mode.sync = 0 \/ (c.mode.sync = 1 /\ ~c.mode.chop))
      /\ l.words = l.moved + Left(c)
      /\ l.moved = 0 => c.WordCounter = 0 /\ c.BaseAddr = l.base
      /\ l.moved > 0 =>
            /\ c.CurAddr = Place(l, c)
            /\ c.WordCounter = 0 \/ c.mode.chop => c.BaseAddr = c.CurAddr
            /\ c.mode.chop => c.Size = c.WordCounter
            /\ c.WordCounter = 0 => c.mode.sync = 1 /\ c.Blocks # 0
  BY DEF Follows
<1>4. /\ t \in ChannelState /\ t.mode = c.mode /\ EndCondition(ch, Moved(t))
      /\ n.mode.on => log' = [log EXCEPT ![ch] = [log[ch] EXCEPT !.moved = @ + 1]]
  BY DEF MovesOn
<1>5. /\ t.WordCounter = IF c.WordCounter = 0 THEN c.Size ELSE c.WordCounter
      /\ t.CurAddr = IF l.moved = 0 THEN l.base ELSE Place(l, c)
      /\ t.Blocks = IF c.WordCounter = 0 /\ c.mode.sync = 1 THEN (c.Blocks - 1) % Span ELSE c.Blocks
      /\ t.Size = c.Size /\ t.BaseAddr = c.BaseAddr
  <2>1. CASE c.WordCounter = 0
    <3>1. t = Reloaded(c)
      BY <2>1 DEF Taken
    <3>2. /\ t.WordCounter = c.Size /\ t.CurAddr = c.BaseAddr /\ t.Size = c.Size /\ t.BaseAddr = c.BaseAddr
          /\ t.Blocks = IF c.mode.sync = 1 THEN (c.Blocks - 1) % Span ELSE c.Blocks
      BY <3>1, <1>1 DEF Reloaded, ChannelState
    <3> QED BY <3>2, <2>1, <1>2, <1>3
  <2>2. CASE c.WordCounter # 0 /\ c.mode.chop
    <3>1. t = Chopped(c)
      BY <2>2 DEF Taken
    <3>2. /\ t.WordCounter = c.Size /\ t.CurAddr = c.BaseAddr /\ t.Size = c.Size /\ t.BaseAddr = c.BaseAddr
          /\ t.Blocks = c.Blocks
      BY <3>1, <1>1 DEF Chopped, ChannelState
    <3> QED BY <3>2, <2>2, <1>2, <1>3
  <2>3. CASE c.WordCounter # 0 /\ ~c.mode.chop
    <3>1. t = c
      BY <2>3 DEF Taken
    <3> QED BY <3>1, <2>3, <1>2, <1>3
  <2> QED BY <2>1, <2>2, <2>3, <1>2
<1> HIDE DEF t
<1> DEFINE m == Moved(t)
<1>6. /\ m.CurAddr = (IF c.mode.back THEN t.CurAddr - 1 ELSE t.CurAddr + 1) % End
      /\ m.WordCounter = Full(t.WordCounter) - 1
      /\ m.BaseAddr = IF c.mode.chop THEN m.CurAddr ELSE c.BaseAddr
      /\ m.Size = IF c.mode.chop THEN m.WordCounter ELSE c.Size
      /\ m.Blocks = t.Blocks /\ m.mode = c.mode /\ m \in ChannelState
  BY <1>4, <1>5, MovedEffect, MovedType
<1>7. /\ n \in ChannelState /\ n.WordCounter = m.WordCounter /\ n.CurAddr = m.CurAddr
      /\ n.Size = m.Size /\ n.Blocks = m.Blocks
      /\ n.mode.sync = c.mode.sync /\ n.mode.chop = c.mode.chop /\ n.mode.back = c.mode.back
      /\ n.BaseAddr = IF m.WordCounter = 0 /\ c.mode.sync = 1 THEN m.CurAddr ELSE m.BaseAddr
      /\ \/ n.mode.on /\ (m.WordCounter = 0 => c.mode.sync = 1 /\ m.Blocks # 0)
         \/ ~n.mode.on /\ m.WordCounter = 0 /\ (c.mode.sync = 1 => m.Blocks = 0)
  <2> HIDE DEF n
  <2>1. EndCondition(ch, m) /\ m \in ChannelState
    BY <1>4, <1>6
  <2> HIDE DEF m
  <2>2. /\ n \in ChannelState
        /\ n.WordCounter = m.WordCounter /\ n.CurAddr = m.CurAddr
        /\ n.Size = m.Size /\ n.Blocks = m.Blocks
        /\ n.mode.sync = m.mode.sync /\ n.mode.chop = m.mode.chop /\ n.mode.back = m.mode.back
        /\ n.BaseAddr = IF m.WordCounter = 0 /\ m.mode.on /\ m.mode.sync = 1 THEN m.CurAddr ELSE m.BaseAddr
        /\ \/ /\ n.mode.on = m.mode.on
              /\ m.mode.on /\ m.WordCounter = 0 /\ m.mode.sync < 2 => m.mode.sync = 1 /\ m.Blocks # 0
           \/ /\ ~n.mode.on /\ m.WordCounter = 0 /\ (m.mode.sync = 1 => m.Blocks = 0)
    <3>1. Ended(ch, m)
      BY <2>1, EndConditionEffect
    <3> QED BY <3>1 DEF Ended, n
  <2>3. m.mode = c.mode
    BY <1>6
  <2> QED BY <1>3, <2>2, <2>3
<1> HIDE DEF m, n
<1>8. t.WordCounter \in 0..(Span - 1) /\ t.Blocks \in 0..(Span - 1)
  BY <1>4 DEF ChannelState
<1> DEFINE f == Full(c.Size)
<1>9. f \in Nat /\ f > 0 /\ Full(t.WordCounter) \in Nat /\ Full(t.WordCounter) > 0
  BY <1>2, <1>8, FullIsPositive
\* The words left before the step are those left after it, and one.
<1>10. Left(c) = Full(t.WordCounter) + (IF c.mode.sync = 1 THEN t.Blocks * f ELSE 0)
  <2>1. CASE c.mode.sync = 1 /\ c.WordCounter = 0
    <3>1. t.Blocks = Full(c.Blocks) - 1
      BY <2>1, <1>2, <1>5, CountedDown
    <3>2. Full(c.Blocks) \in Nat /\ Full(c.Blocks) > 0
      BY <1>2, FullIsPositive
    <3>3. f * Full(c.Blocks) = f * (Full(c.Blocks) - 1) + f
      BY <3>2, <1>9, OneBlockLess
    <3>4. Left(c) = f * Full(c.Blocks) /\ Full(t.WordCounter) = f
      BY <2>1, <1>5 DEF Left
    <3>5. t.Blocks \in Nat
      BY <1>8
    <3> HIDE DEF f
    <3>6. f * t.Blocks = t.Blocks * f /\ f * t.Blocks \in Nat
      <4>1. f \in Nat
        BY <1>9
      <4> QED BY <4>1, <3>5, ProductIsNatural, Zenon
    <3>7. f * Full(c.Blocks) = f * t.Blocks + f
      BY <3>1, <3>3
    <3> QED BY <2>1, <3>4, <3>6, <3>7, <1>9
  <2>2. CASE c.mode.sync = 1 /\ c.WordCounter # 0
    <3>1. Left(c) = c.Blocks * f + c.WordCounter /\ Full(t.WordCounter) = c.WordCounter /\ t.Blocks = c.Blocks
      BY <2>2, <1>2, <1>5 DEF Left, Full
    <3> HIDE DEF f
    <3>2. c.Blocks * f \in Nat
      <4>1. c.Blocks \in Nat /\ f \in Nat
        BY <1>2, <1>9
      <4> QED BY <4>1, ProductIsNatural, Zenon
    <3>3. t.Blocks * f = c.Blocks * f
      BY <3>1
    <3> DEFINE p == c.Blocks * f
    <3>4. Left(c) = p + c.WordCounter /\ p \in Nat /\ c.WordCounter \in Nat
      BY <3>1, <3>2, <1>2
    <3> HIDE DEF p
    <3>5. Left(c) = c.WordCounter + p
      BY <3>4
    <3>6. Left(c) = Full(t.WordCounter) + t.Blocks * f
      BY <3>1, <3>3, <3>5, Zenon DEF p
    <3> QED BY <3>6, <2>2, Zenon
  <2>3. CASE c.mode.sync # 1
    BY <2>3, <1>2, <1>5, <1>9 DEF Left, Full
  <2> QED BY <2>1, <2>2, <2>3
<1>11. t.Blocks * f \in Nat
  <2>1. t.Blocks \in Nat /\ f \in Nat
    BY <1>8, <1>9
  <2> QED BY <2>1, ProductIsNatural, Zenon
<1>12. m.CurAddr = (l.base + (IF c.mode.back THEN - (l.moved + 1) ELSE l.moved + 1)) % End
  <2>1. CASE l.moved = 0
    BY <2>1, <1>5, <1>6, <1>2
  <2>2. CASE l.moved > 0
    <3>1. CASE c.mode.back
      <4>1. m.CurAddr = (((l.base + (- l.moved)) % End) + (-1)) % End
        <5>1. t.CurAddr = (l.base + (- l.moved)) % End
          BY <3>1, <2>2, <1>5, <1>2 DEF Place
        <5>2. t.CurAddr \in Int
          BY <1>4 DEF ChannelState, Addresses
        <5>3. m.CurAddr = (t.CurAddr + (-1)) % End
          BY <5>2, <3>1, <1>6
        <5> QED BY <5>1, <5>3
      <4>2. (((l.base + (- l.moved)) % End) + (-1)) % End = (l.base + (- l.moved) + (-1)) % End
        <5> DEFINE k == -1
        <5>1. l.base + (- l.moved) \in Int /\ k \in Int
          BY <1>2
        <5> HIDE DEF k
        <5>2. (((l.base + (- l.moved)) % End) + k) % End = (l.base + (- l.moved) + k) % End
          BY <5>1, NextPlace, EndIsPositive
        <5> QED BY <5>2 DEF k
      <4>3. \A a, b \in Int : a + (- b) + (-1) = a + (- (b + 1))
        OBVIOUS
      <4>4. l.base + (- l.moved) + (-1) = l.base + (- (l.moved + 1))
        <5>1. l.base \in Int /\ l.moved \in Int
          BY <1>2
        <5> QED BY <5>1, <4>3, Zenon
      <4> QED BY <3>1, <4>1, <4>2, <4>4
    <3>2. CASE ~c.mode.back
      <4>1. m.CurAddr = (((l.base + l.moved) % End) + 1) % End
        BY <3>2, <2>2, <1>2, <1>5, <1>6 DEF Place
      <4>2. (((l.base + l.moved) % End) + 1) % End = (l.base + l.moved + 1) % End
        <5> DEFINE k == 1
        <5>1. l.base + l.moved \in Int /\ k \in Int
          BY <1>2
        <5> HIDE DEF k
        <5>2. (((l.base + l.moved) % End) + k) % End = (l.base + l.moved + k) % End
          BY <5>1, NextPlace, EndIsPositive
        <5> QED BY <5>2 DEF k
      <4>3. \A a, b \in Int : a + b + 1 = a + (b + 1)
        OBVIOUS
      <4>4. l.base + l.moved + 1 = l.base + (l.moved + 1)
        <5>1. l.base \in Int /\ l.moved \in Int
          BY <1>2
        <5> QED BY <5>1, <4>3, Zenon
      <4> QED BY <3>2, <4>1, <4>2, <4>4
    <3> QED BY <3>1, <3>2
  <2> QED BY <2>1, <2>2, <1>2
<1>13. CASE ~n.mode.on
  <2>1. Full(t.WordCounter) = 1 /\ (c.mode.sync = 1 => t.Blocks * f = 0)
    <3>1. c.mode.sync = 1 => t.Blocks = 0
      BY <1>13, <1>6, <1>7
    <3>2. Full(t.WordCounter) = 1
      BY <1>13, <1>6, <1>7, <1>9
    <3> QED BY <3>1, <3>2, <1>9
  <2> HIDE DEF f
  <2>2. Left(c) = 1
    BY <2>1, <1>10
  <2> QED BY <2>2, <1>2, <1>3, <1>13 DEF n
<1>14. CASE n.mode.on
  <2>1. Left(c) = Left(n) + 1
    <3>1. CASE c.mode.sync = 1 /\ n.WordCounter # 0
      <4>1. n.Size = c.Size /\ n.Blocks = t.Blocks /\ n.WordCounter = Full(t.WordCounter) - 1
        BY <3>1, <1>3, <1>6, <1>7
      <4>2. Left(n) = t.Blocks * f + (Full(t.WordCounter) - 1)
        BY <3>1, <4>1, <1>7 DEF Left
      <4> HIDE DEF f
      <4> QED BY <3>1, <4>2, <1>9, <1>10, <1>11
    <3>2. CASE c.mode.sync = 1 /\ n.WordCounter = 0
      <4>1. n.Size = c.Size /\ n.Blocks = t.Blocks /\ Full(t.WordCounter) = 1 /\ t.Blocks # 0
        BY <3>2, <1>3, <1>6, <1>7, <1>9, <1>14
      <4>2. Left(n) = f * t.Blocks
        BY <3>2, <4>1, <1>7 DEF Left, Full
      <4>3. f * t.Blocks = t.Blocks * f
        BY <1>8, <1>9
      <4> HIDE DEF f
      <4> QED BY <3>2, <4>1, <4>2, <4>3, <1>10, <1>11
    <3>3. CASE c.mode.sync # 1
      <4>1. n.WordCounter = Full(t.WordCounter) - 1 /\ n.WordCounter # 0 /\ n.mode.sync # 1
        BY <3>3, <1>6, <1>7, <1>14
      <4>2. Left(n) = n.WordCounter
        BY <4>1 DEF Left
      <4> QED BY <3>3, <4>1, <4>2, <1>9, <1>10
    <3> QED BY <3>1, <3>2, <3>3
  <2>2. log'[ch] = [l EXCEPT !.moved = @ + 1]
    BY <1>4, <1>14 DEF TypeOK, n
  <2>3. /\ log'[ch].moved = l.moved + 1 /\ log'[ch].words = l.words /\ log'[ch].base = l.base
    BY <2>2, <1>1 DEF Logs
  <2>4. Place(log'[ch], n) = n.CurAddr
    BY <2>3, <1>7, <1>12 DEF Place
  <2>5. /\ n.WordCounter = 0 \/ n.mode.chop => n.BaseAddr = n.CurAddr
        /\ n.mode.chop => n.Size = n.WordCounter
        /\ n.WordCounter = 0 => n.mode.sync = 1 /\ n.Blocks # 0
    BY <1>3, <1>6, <1>7, <1>14
  <2>6. log'[ch].words = log'[ch].moved + Left(n)
    <3>1. Left(n) \in Nat
      BY <1>7, LeftIsPositive
    <3> HIDE DEF c
    <3>2. l.words = l.moved + (Left(n) + 1)
      BY <2>1, <1>3
    <3>3. \A a \in Nat, b \in Nat : a + (b + 1) = (a + 1) + b
      OBVIOUS
    <3>4. l.moved + (Left(n) + 1) = (l.moved + 1) + Left(n)
      BY <3>1, <3>3, <1>2, Zenon
    <3> QED BY <3>2, <3>4, <2>3, Zenon
  <2>7. /\ n.mode.on /\ (n.mode.sync = 0 \/ (n.mode.sync = 1 /\ ~n.mode.chop))
        /\ log'[ch].moved > 0
    BY <1>2, <1>3, <1>7, <1>14, <2>3
  <2>8. Follows(ch)'
    BY <2>4, <2>5, <2>6, <2>7 DEF Follows, n
  <2> QED BY <2>8, <1>14 DEF n
<1> QED BY <1>13, <1>14
------------------------------------------------------------------------------
(* The invariant holds at first and every action keeps it.                  *)

LEMMA LogTypes ==
  /\ NoTransfer \in Logs /\ ~NoTransfer.whole
  /\ Failed \in Logs /\ ~Failed.whole /\ Failed.failed
  /\ \A l \in Logs : Unfollowed(l) \in Logs /\ ~Unfollowed(l).whole /\ Unfollowed(l).failed = l.failed
<1>1. 0 \in Addresses
  BY EndIsPositive DEF Addresses
<1>2. NoTransfer \in Logs /\ ~NoTransfer.whole
  BY <1>1 DEF NoTransfer, Logs
<1>3. Failed \in Logs /\ ~Failed.whole /\ Failed.failed
  BY <1>1 DEF NoTransfer, Failed, Logs
<1>4. ASSUME NEW l \in Logs
      PROVE  Unfollowed(l) \in Logs /\ ~Unfollowed(l).whole /\ Unfollowed(l).failed = l.failed
  BY <1>1 DEF NoTransfer, Unfollowed, Logs
<1> QED BY <1>2, <1>3, <1>4

\* A word counted.
LEMMA CountedLog == ASSUME NEW l \in Logs PROVE [l EXCEPT !.moved = @ + 1] \in Logs
BY DEF Logs

\* A channel that is left alone, or whose transfer is no longer followed.
LEMMA LeftAlone ==
  ASSUME NEW ch \in Channels, Follows(ch),
         (DMACH'[ch] = DMACH[ch] /\ log'[ch] = log[ch]) \/ ~log'[ch].whole
  PROVE  Follows(ch)'
BY DEF Follows

LEMMA InitHolds == Init => IInv
<1> SUFFICES ASSUME Init PROVE IInv
  OBVIOUS
<1>1. Idle \in ChannelState /\ Idle.WordCounter = 0 /\ ~Idle.mode.on
  BY EndIsPositive DEF Idle, ChannelState, ModeBits, Addresses
<1>2. TypeOK
  BY <1>1, LogTypes, FirstIsChannel DEF Init, TypeOK, Logs
<1>3. \A ch \in Channels : DMACH[ch] = Idle /\ log[ch] = NoTransfer
  BY DEF Init
<1>4. StoppedIsEmpty /\ StopHolds
  BY <1>1, <1>3 DEF Init, StoppedIsEmpty, StopHolds
<1>5. LineFollows
  BY DEF Init, LineFollows, Requested
<1>6. HaltFollows
  BY <1>1, <1>3 DEF Init, HaltFollows, Bursting
<1>7. \A ch \in Channels : Follows(ch)
  BY <1>3, LogTypes DEF Follows
<1> QED BY <1>2, <1>4, <1>5, <1>6, <1>7 DEF IInv

\* What an iteration does to its channel.
LEMMA IterationEffect ==
  ASSUME IInv, NEW ch \in Channels, Iterate(ch)
  PROVE  /\ DMACH' = [DMACH EXCEPT ![ch] = DMACH'[ch]] /\ DMACH'[ch] \in ChannelState
         /\ log' = [log EXCEPT ![ch] = log'[ch]] /\ log'[ch] \in Logs
         /\ DMAIntControl' \in IntControls /\ DMAIntStatus' \subseteq Channels
         /\ Follows(ch)'
         /\ ~DMACH[ch].mode.on => ~DMACH'[ch].mode.on
         /\ ~DMACH'[ch].mode.on /\ pc # "stop" => DMACH'[ch].WordCounter = 0 \/ log'[ch].failed
<1>1. TypeOK /\ Follows(ch) /\ log[ch] \in Logs /\ log \in [Channels -> Logs]
  BY DEF IInv, TypeOK, Logs
<1>2. Fails(ch) \/ ReadsOn(ch) \/ MovesOn(ch)
  BY <1>1, IterationCases DEF Iterate
<1>3. ~DMACH[ch].mode.on /\ pc # "stop" => DMACH[ch].WordCounter = 0 \/ log[ch].failed
  BY DEF IInv, StoppedIsEmpty
<1>4. CASE Fails(ch)
  <2>1. /\ DMACH' = [DMACH EXCEPT ![ch] = DMACH'[ch]] /\ DMACH'[ch] \in ChannelState /\ ~DMACH'[ch].mode.on
        /\ log' = [log EXCEPT ![ch] = log'[ch]] /\ log'[ch] = Failed
        /\ DMAIntControl' \in IntControls /\ UNCHANGED DMAIntStatus
    BY <1>1, <1>4, FailureEffect
  <2>2. log'[ch] \in Logs /\ ~log'[ch].whole /\ log'[ch].failed
    BY <2>1, LogTypes
  <2>3. Follows(ch)'
    BY <1>1, <2>2, LeftAlone
  <2> QED BY <1>1, <2>1, <2>2, <2>3 DEF TypeOK
<1>5. CASE ReadsOn(ch)
  <2>1. PICK c \in ChannelState : c.mode = DMACH[ch].mode /\ EndCondition(ch, c)
    BY <1>5 DEF ReadsOn
  <2>2. /\ DMACH[ch].mode.on /\ DMACH[ch].mode.sync >= 2 /\ UNCHANGED <<DMAIntControl, log>>
    BY <1>5 DEF ReadsOn
  <2>3. /\ DMACH' = [DMACH EXCEPT ![ch] = DMACH'[ch]] /\ DMACH'[ch] \in ChannelState
        /\ DMACH'[ch].WordCounter = c.WordCounter /\ DMAIntStatus' \subseteq Channels
        /\ DMACH'[ch].mode.on = c.mode.on \/ (~DMACH'[ch].mode.on /\ c.mode.on /\ c.WordCounter = 0)
    <3>1. Ended(ch, c)
      BY <1>1, <2>1, EndConditionEffect
    <3> QED BY <3>1 DEF Ended
  <2>4. ~log[ch].whole
    <3>1. ~(DMACH[ch].mode.sync = 0 \/ DMACH[ch].mode.sync = 1)
      BY <2>2
    <3> QED BY <1>1, <3>1 DEF Follows
  <2>5. log'[ch] = log[ch] /\ log' = [log EXCEPT ![ch] = log'[ch]]
    BY <1>1, <2>2
  <2>6. Follows(ch)'
    BY <1>1, <2>4, <2>5, LeftAlone
  <2>7. DMAIntControl' \in IntControls
    BY <1>1, <2>2 DEF TypeOK
  <2> QED BY <1>1, <2>1, <2>2, <2>3, <2>5, <2>6, <2>7
<1>6. CASE MovesOn(ch)
  <2>1. /\ Taken(ch) \in ChannelState /\ Taken(ch).mode = DMACH[ch].mode
        /\ DMACH[ch].WordCounter = 0 => DMACH[ch].mode.on
        /\ EndCondition(ch, Moved(Taken(ch))) /\ UNCHANGED DMAIntControl
    BY <1>6 DEF MovesOn
  <2>2. Moved(Taken(ch)) \in ChannelState /\ Moved(Taken(ch)).mode = DMACH[ch].mode
    BY <2>1, MovedType, MovedEffect
  <2> DEFINE c == Moved(Taken(ch))
  <2> HIDE DEF c
  <2>3. c \in ChannelState /\ c.mode = DMACH[ch].mode /\ EndCondition(ch, c)
    BY <2>1, <2>2 DEF c
  <2>4. /\ DMACH' = [DMACH EXCEPT ![ch] = DMACH'[ch]] /\ DMACH'[ch] \in ChannelState
        /\ DMACH'[ch].WordCounter = c.WordCounter /\ DMAIntStatus' \subseteq Channels
        /\ DMACH'[ch].mode.on = c.mode.on \/ (~DMACH'[ch].mode.on /\ c.mode.on /\ c.WordCounter = 0)
    <3>1. Ended(ch, c)
      BY <1>1, <2>3, EndConditionEffect
    <3> QED BY <3>1 DEF Ended
  <2> DEFINE l == IF ~DMACH'[ch].mode.on THEN Unfollowed(log[ch])
                  ELSE IF log[ch].whole THEN [log[ch] EXCEPT !.moved = @ + 1] ELSE log[ch]
  <2>5. log' = [log EXCEPT ![ch] = l]
    BY <1>6 DEF MovesOn
  <2>6. /\ l \in Logs
        /\ ~DMACH'[ch].mode.on => ~l.whole /\ l.failed = log[ch].failed
        /\ DMACH'[ch].mode.on /\ ~log[ch].whole => l = log[ch]
    <3>1. [log[ch] EXCEPT !.moved = @ + 1] \in Logs
      BY <1>1, CountedLog
    <3> QED BY <1>1, <3>1, LogTypes
  <2> HIDE DEF l
  <2>7. log'[ch] = l /\ log' = [log EXCEPT ![ch] = log'[ch]]
    BY <1>1, <2>5
  <2>8. Follows(ch)'
    <3>1. CASE log[ch].whole /\ DMACH'[ch].mode.on
      BY <1>1, <1>6, <3>1, TransferStep
    <3>2. CASE ~(log[ch].whole /\ DMACH'[ch].mode.on)
      BY <1>1, <2>6, <2>7, <3>2, LeftAlone
    <3> QED BY <3>1, <3>2
  <2>9. DMAIntControl' \in IntControls
    BY <1>1, <2>1 DEF TypeOK
  <2>10. ~DMACH'[ch].mode.on /\ pc # "stop" => DMACH'[ch].WordCounter = 0 \/ log'[ch].failed
    <3> SUFFICES ASSUME ~DMACH'[ch].mode.on, pc # "stop", DMACH'[ch].WordCounter # 0
                 PROVE  log'[ch].failed
      OBVIOUS
    <3>1. ~DMACH[ch].mode.on
      BY <2>3, <2>4
    <3>2. log[ch].failed
      BY <1>3, <2>1, <3>1
    <3> QED BY <3>2, <2>6, <2>7
  <2> QED BY <2>3, <2>4, <2>6, <2>7, <2>8, <2>9, <2>10
<1> QED BY <1>2, <1>4, <1>5, <1>6

LEMMA IterateKeeps ==
  ASSUME IInv, NEW ch \in Channels, Iterate(ch) PROVE IInv'
<1>1. /\ DMACH' = [DMACH EXCEPT ![ch] = DMACH'[ch]] /\ DMACH'[ch] \in ChannelState
      /\ log' = [log EXCEPT ![ch] = log'[ch]] /\ log'[ch] \in Logs
      /\ DMAIntControl' \in IntControls /\ DMAIntStatus' \subseteq Channels
      /\ Follows(ch)'
      /\ ~DMACH[ch].mode.on => ~DMACH'[ch].mode.on
      /\ ~DMACH'[ch].mode.on /\ pc # "stop" => DMACH'[ch].WordCounter = 0 \/ log'[ch].failed
  BY IterationEffect
<1>2. /\ pc \in {"update", "stop", "start"} /\ at = ch /\ UNCHANGED <<Halted, pc, at>>
      /\ IRQOut' = Requested(DMAIntControl', DMAIntStatus')
  BY DEF Iterate, RecalcIRQOut
<1>3. \A k \in Channels : k # ch => DMACH'[k] = DMACH[k] /\ log'[k] = log[k]
  BY <1>1 DEF IInv, TypeOK
<1>4. TypeOK'
  <2>1. IRQOut' \in BOOLEAN
    BY <1>1, <1>2 DEF Requested
  <2> DEFINE c == DMACH'[ch]
             l == log'[ch]
  <2>2. c \in ChannelState /\ l \in Logs /\ DMACH' = [DMACH EXCEPT ![ch] = c] /\ log' = [log EXCEPT ![ch] = l]
    BY <1>1
  <2> HIDE DEF c, l
  <2>3. DMACH' \in [Channels -> ChannelState] /\ log' \in [Channels -> Logs]
    BY <2>2 DEF IInv, TypeOK, Logs
  <2> QED BY <2>1, <2>3, <1>1, <1>2 DEF IInv, TypeOK, Logs
<1>5. StoppedIsEmpty'
  BY <1>1, <1>2, <1>3 DEF IInv, StoppedIsEmpty
<1>6. StopHolds'
  BY <1>1, <1>2 DEF IInv, StopHolds
<1>7. LineFollows' /\ HaltFollows'
  BY <1>2 DEF LineFollows, HaltFollows
<1>8. \A k \in Channels : Follows(k)'
  BY <1>1, <1>3, LeftAlone DEF IInv
<1> QED BY <1>4, <1>5, <1>6, <1>7, <1>8 DEF IInv

\* The calls that leave the channels alone.
LEMMA CallKeeps ==
  ASSUME IInv, DMA_Update \/ LeaveChannel \/ StartReturns PROVE IInv'
<1>1. /\ UNCHANGED <<DMACH, DMAIntControl, DMAIntStatus, IRQOut, log>>
      /\ pc # "stop" /\ pc' \in {"rest", "update", "write"}
      /\ pc' \in {"rest", "write"} => Halted' = \E ch \in Channels : Bursting(DMACH'[ch])
      /\ Halted' \in BOOLEAN
  BY DEF DMA_Update, LeaveChannel, StartReturns, RecalcHalt, IInv, TypeOK
<1>2. at' \in Channels
  <2>1. Later # {} => Later \in SUBSET (0..6) /\ Least(Later) \in Channels
    <3>1. Later \subseteq Channels /\ Later \in SUBSET (0..6)
      BY DEF Later
    <3> QED BY <3>1, LeastIsMember
  <2>2. at \in Channels
    BY DEF IInv, TypeOK
  <2> QED BY <2>1, <2>2, FirstIsChannel DEF DMA_Update, LeaveChannel, StartReturns
<1>3. TypeOK'
  BY <1>1, <1>2 DEF IInv, TypeOK
<1>4. StoppedIsEmpty' /\ StopHolds'
  BY <1>1 DEF IInv, StoppedIsEmpty, StopHolds
<1>5. LineFollows' /\ HaltFollows'
  BY <1>1 DEF IInv, LineFollows, HaltFollows
<1>6. \A k \in Channels : Follows(k)'
  BY <1>1, LeftAlone DEF IInv
<1> QED BY <1>3, <1>4, <1>5, <1>6 DEF IInv

\* The writes of the CPU.
LEMMA RegisterKeeps ==
  ASSUME IInv, pc = "write", WriteChannel PROVE IInv'
<1>1. PICK ch \in Channels, c \in ChannelState :
        /\ WriteRegister(ch, c)
        /\ c.mode = DMACH[ch].mode /\ c.WordCounter = DMACH[ch].WordCounter
  <2>1. PICK ch \in Channels :
          \/ \E base \in Bases[ch] : WriteRegister(ch, [DMACH[ch] EXCEPT !.BaseAddr = base])
          \/ \E blocking \in Blockings[ch] :
               WriteRegister(ch, [DMACH[ch] EXCEPT !.Size = blocking.size, !.Blocks = blocking.blocks])
    BY DEF WriteChannel
  <2>2. DMACH[ch] \in ChannelState
    BY DEF IInv, TypeOK
  <2>3. ASSUME NEW base \in Bases[ch]
        PROVE  /\ [DMACH[ch] EXCEPT !.BaseAddr = base] \in ChannelState
               /\ [DMACH[ch] EXCEPT !.BaseAddr = base].mode = DMACH[ch].mode
               /\ [DMACH[ch] EXCEPT !.BaseAddr = base].WordCounter = DMACH[ch].WordCounter
    <3>1. base \in Addresses
      OBVIOUS
    <3> QED BY <2>2, <3>1 DEF ChannelState
  <2>4. ASSUME NEW blocking \in Blockings[ch]
        PROVE  LET c == [DMACH[ch] EXCEPT !.Size = blocking.size, !.Blocks = blocking.blocks]
               IN c \in ChannelState /\ c.mode = DMACH[ch].mode /\ c.WordCounter = DMACH[ch].WordCounter
    <3>1. blocking.size \in 0..(Span - 1) /\ blocking.blocks \in 0..(Span - 1)
      OBVIOUS
    <3> QED BY <2>2, <3>1 DEF ChannelState
  <2> QED BY <2>1, <2>3, <2>4
<1>2. /\ DMACH' = [DMACH EXCEPT ![ch] = c] /\ log' = [log EXCEPT ![ch] = Unfollowed(log[ch])]
      /\ pc' = "rest" /\ UNCHANGED <<DMAIntControl, DMAIntStatus, IRQOut, Halted, at>>
  BY <1>1 DEF WriteRegister
<1>3. /\ DMACH'[ch] = c /\ log'[ch] = Unfollowed(log[ch]) /\ log[ch] \in Logs
      /\ \A k \in Channels : k # ch => DMACH'[k] = DMACH[k] /\ log'[k] = log[k]
  BY <1>2 DEF IInv, TypeOK, Logs
<1>4. Unfollowed(log[ch]) \in Logs /\ ~log'[ch].whole /\ log'[ch].failed = log[ch].failed
  BY <1>3, LogTypes
<1>5. TypeOK'
  BY <1>2, <1>4 DEF IInv, TypeOK, Logs
<1>6. StoppedIsEmpty' /\ StopHolds'
  BY <1>1, <1>2, <1>3, <1>4 DEF IInv, StoppedIsEmpty, StopHolds
<1>7. LineFollows'
  BY <1>2 DEF IInv, LineFollows
<1>8. HaltFollows'
  <2>1. \A k \in Channels : Bursting(DMACH'[k]) <=> Bursting(DMACH[k])
    BY <1>1, <1>3 DEF Bursting
  <2> QED BY <1>2, <2>1 DEF IInv, HaltFollows
<1>9. \A k \in Channels : Follows(k)'
  BY <1>3, <1>4, LeftAlone DEF IInv
<1> QED BY <1>5, <1>6, <1>7, <1>8, <1>9 DEF IInv

LEMMA IntControlKeeps ==
  ASSUME IInv, pc = "write", WriteIntControl PROVE IInv'
<1>1. /\ DMAIntControl' \in IntControls /\ DMAIntStatus' \subseteq Channels
      /\ IRQOut' = Requested(DMAIntControl', DMAIntStatus')
      /\ pc' = "rest" /\ UNCHANGED <<DMACH, Halted, at, log>>
  BY DEF WriteIntControl, RecalcIRQOut, IInv, TypeOK
<1>2. IRQOut' \in BOOLEAN
  BY <1>1 DEF Requested
<1>3. TypeOK'
  BY <1>1, <1>2 DEF IInv, TypeOK
<1>4. StoppedIsEmpty' /\ StopHolds' /\ LineFollows' /\ HaltFollows'
  BY <1>1 DEF IInv, StoppedIsEmpty, StopHolds, LineFollows, HaltFollows
<1>5. \A k \in Channels : Follows(k)'
  BY <1>1, LeftAlone DEF IInv
<1> QED BY <1>3, <1>4, <1>5 DEF IInv

\* The transfer that a channel is told to make is all that it has left.
LEMMA StartedFollows ==
  ASSUME NEW c \in ChannelState, c.mode.on
  PROVE  /\ Started(c) \in ChannelState /\ Started(c).mode = c.mode
         /\ Started(c).WordCounter = 0 /\ Started(c).BaseAddr = c.BaseAddr
         /\ Transfer(c) \in Logs
         /\ Transfer(c).whole =>
              /\ c.mode.sync = 0 \/ (c.mode.sync = 1 /\ ~c.mode.chop)
              /\ Transfer(c).words = Left(Started(c)) /\ Transfer(c).moved = 0
              /\ Transfer(c).base = c.BaseAddr
<1>1. /\ Started(c) \in ChannelState /\ Started(c).mode = c.mode /\ Started(c).WordCounter = 0
      /\ Started(c).BaseAddr = c.BaseAddr /\ Started(c).Size = c.Size /\ Started(c).Blocks = c.Blocks
  BY DEF Started, ChannelState
<1>2. c.Size \in 0..(Span - 1) /\ c.Blocks \in 0..(Span - 1) /\ c.BaseAddr \in Addresses
  BY DEF ChannelState
<1> DEFINE f == Full(c.Size)
           g == Full(c.Blocks)
<1>3. f \in Nat /\ f > 0 /\ g \in Nat /\ g > 0
  BY <1>2, FullIsPositive
<1>4. Words(c) = f * (IF c.mode.sync = 1 THEN g ELSE 1)
  BY DEF Words, Full
<1>5. Left(Started(c)) = IF c.mode.sync = 1 THEN f * g ELSE f
  BY <1>1 DEF Left
<1> HIDE DEF f, g
<1>6. f * g \in Nat /\ f * 1 = f
  BY <1>3
<1>7. Words(c) = Left(Started(c)) /\ Words(c) \in Nat
  BY <1>3, <1>4, <1>5, <1>6
<1>8. CASE c.mode.sync = 0 \/ (c.mode.sync = 1 /\ ~c.mode.chop)
  <2>1. Transfer(c) = [NoTransfer EXCEPT !.whole = TRUE, !.base = c.BaseAddr, !.words = Words(c)]
    BY <1>8 DEF Transfer
  <2> DEFINE w == Words(c)
  <2> HIDE DEF w
  <2>2. Transfer(c) = [whole |-> TRUE, base |-> c.BaseAddr, words |-> w, moved |-> 0, failed |-> FALSE]
    BY <2>1 DEF NoTransfer, w
  <2>3. w = Left(Started(c)) /\ w \in Nat
    BY <1>7 DEF w
  <2>4. Transfer(c) \in Logs
    BY <1>2, <2>2, <2>3 DEF Logs
  <2> QED BY <1>1, <1>8, <2>2, <2>3, <2>4
<1>9. CASE ~(c.mode.sync = 0 \/ (c.mode.sync = 1 /\ ~c.mode.chop))
  <2>1. Transfer(c) = NoTransfer
    BY <1>9 DEF Transfer
  <2> QED BY <1>1, <2>1, LogTypes
<1> QED BY <1>8, <1>9

LEMMA ModeUpdate ==
  ASSUME NEW m \in ModeBits, NEW sync \in 0..3, NEW chop \in BOOLEAN, NEW back \in BOOLEAN
  PROVE  /\ [m EXCEPT !.sync = sync, !.chop = chop, !.back = back] \in ModeBits
         /\ [m EXCEPT !.sync = sync, !.chop = chop, !.back = back].on = m.on
BY DEF ModeBits

LEMMA ClearedMode ==
  ASSUME NEW m \in ModeBits
  PROVE  /\ [m EXCEPT !.sync = 0, !.chop = FALSE, !.back = TRUE] \in ModeBits
         /\ [m EXCEPT !.sync = 0, !.chop = FALSE, !.back = TRUE].on = m.on
<1>1. 0 \in 0..3 /\ FALSE \in BOOLEAN /\ TRUE \in BOOLEAN
  OBVIOUS
<1> QED BY <1>1, ModeUpdate

LEMMA WrittenType ==
  ASSUME NEW ch \in Channels, NEW mode \in Modes[ch]
  PROVE  Written(ch, mode) \in ModeBits /\ Written(ch, mode).on = mode.on
<1>1. mode \in ModeBits
  OBVIOUS
<1> QED BY <1>1, ClearedMode DEF Written

WriteMode(ch, mode) ==
  LET c    == DMACH[ch]
      told == [c EXCEPT !.mode = Written(ch, mode)]
  IN \/ /\ ~c.mode.on /\ mode.on
        /\ DMACH' = [DMACH EXCEPT ![ch] = Started(told)]
        /\ log' = [log EXCEPT ![ch] = Transfer(told)]
        /\ pc' = "start" /\ at' = ch /\ UNCHANGED Halted
     \/ /\ c.mode.on /\ ~mode.on
        /\ DMACH' = [DMACH EXCEPT ![ch].mode.on = FALSE]
        /\ log' = [log EXCEPT ![ch] = NoTransfer]
        /\ pc' = "stop" /\ at' = ch /\ UNCHANGED Halted
     \/ /\ c.mode.on <=> mode.on
        /\ DMACH' = [DMACH EXCEPT ![ch] = told]
        /\ log' = [log EXCEPT ![ch] = Unfollowed(@)]
        /\ RecalcHalt
        /\ pc' = "rest" /\ UNCHANGED at

LEMMA ChanControlKeeps ==
  ASSUME IInv, pc = "write", WriteChanControl, UNCHANGED <<DMAIntControl, DMAIntStatus, IRQOut>>
  PROVE  IInv'
<1>1. PICK ch \in Channels : \E mode \in Modes[ch] : WriteMode(ch, mode)
  BY DEF WriteChanControl, WriteMode
<1>2. PICK mode \in Modes[ch] : WriteMode(ch, mode)
  BY <1>1
<1> DEFINE c    == DMACH[ch]
           told == [c EXCEPT !.mode = Written(ch, mode)]
<1>3. c \in ChannelState /\ log[ch] \in Logs
  BY DEF IInv, TypeOK, Logs
<1>4. /\ told \in ChannelState /\ told.mode.on = mode.on /\ told.WordCounter = c.WordCounter
  BY <1>3, WrittenType DEF ChannelState
<1>5. CASE /\ ~c.mode.on /\ mode.on
           /\ DMACH' = [DMACH EXCEPT ![ch] = Started(told)]
           /\ log' = [log EXCEPT ![ch] = Transfer(told)]
           /\ pc' = "start" /\ at' = ch /\ UNCHANGED Halted
  <2>1. /\ DMACH'[ch] = Started(told) /\ log'[ch] = Transfer(told)
        /\ \A k \in Channels : k # ch => DMACH'[k] = DMACH[k] /\ log'[k] = log[k]
    BY <1>5 DEF IInv, TypeOK
  <2> HIDE DEF told
  <2>2. /\ Started(told) \in ChannelState /\ Started(told).mode = told.mode
        /\ Started(told).WordCounter = 0 /\ Started(told).BaseAddr = told.BaseAddr
        /\ Transfer(told) \in Logs
        /\ Transfer(told).whole =>
             /\ told.mode.sync = 0 \/ (told.mode.sync = 1 /\ ~told.mode.chop)
             /\ Transfer(told).words = Left(Started(told)) /\ Transfer(told).moved = 0
             /\ Transfer(told).base = told.BaseAddr
    BY <1>4, <1>5, StartedFollows
  <2>3. Left(Started(told)) \in Nat
    BY <2>2, LeftIsPositive
  <2>4. Follows(ch)'
    <3> DEFINE n == DMACH'[ch]
               l == log'[ch]
    <3>1. /\ n.mode.on /\ n.WordCounter = 0
          /\ l.whole =>
               /\ n.mode.sync = 0 \/ (n.mode.sync = 1 /\ ~n.mode.chop)
               /\ l.words = Left(n) /\ l.moved = 0 /\ l.base = n.BaseAddr
          /\ Left(n) \in Nat
      <4>1. n = Started(told) /\ l = Transfer(told) /\ told.mode.on
        BY <1>4, <1>5, <2>1
      <4> HIDE DEF n, l
      <4>2. /\ n.mode = told.mode /\ n.WordCounter = 0 /\ n.BaseAddr = told.BaseAddr /\ Left(n) \in Nat
        BY <4>1, <2>2, <2>3
      <4>3. l.whole => /\ told.mode.sync = 0 \/ (told.mode.sync = 1 /\ ~told.mode.chop)
                       /\ l.words = Left(n) /\ l.moved = 0 /\ l.base = told.BaseAddr
        BY <4>1, <2>2
      <4> QED BY <4>1, <4>2, <4>3
    <3> HIDE DEF n, l
    <3>2. l.whole =>
            /\ n.mode.on /\ (n.mode.sync = 0 \/ (n.mode.sync = 1 /\ ~n.mode.chop))
            /\ l.words = l.moved + Left(n)
            /\ l.moved = 0 /\ n.WordCounter = 0 /\ n.BaseAddr = l.base
      BY <3>1
    <3> QED BY <3>2 DEF Follows, n, l
  <2>5. TypeOK'
    BY <1>5, <2>2 DEF IInv, TypeOK, Logs
  <2>6. StoppedIsEmpty' /\ StopHolds'
    BY <1>5, <2>1, <2>2 DEF IInv, StoppedIsEmpty, StopHolds
  <2>7. LineFollows' /\ HaltFollows'
    BY <1>5 DEF IInv, LineFollows, HaltFollows
  <2>8. \A k \in Channels : Follows(k)'
    BY <2>1, <2>4, LeftAlone DEF IInv
  <2> QED BY <2>5, <2>6, <2>7, <2>8 DEF IInv
<1>6. CASE /\ c.mode.on /\ ~mode.on
           /\ DMACH' = [DMACH EXCEPT ![ch].mode.on = FALSE]
           /\ log' = [log EXCEPT ![ch] = NoTransfer]
           /\ pc' = "stop" /\ at' = ch /\ UNCHANGED Halted
  <2> DEFINE n == [c EXCEPT !.mode.on = FALSE]
  <2>1. n \in ChannelState /\ ~n.mode.on
    BY <1>3 DEF ChannelState, ModeBits
  <2>2. DMACH' = [DMACH EXCEPT ![ch] = n]
    BY <1>6
  <2> HIDE DEF n
  <2>3. /\ DMACH'[ch] = n /\ log'[ch] = NoTransfer
        /\ \A k \in Channels : k # ch => DMACH'[k] = DMACH[k] /\ log'[k] = log[k]
    BY <1>6, <2>2 DEF IInv, TypeOK
  <2>4. TypeOK'
    <3>1. DMACH' \in [Channels -> ChannelState]
      BY <2>1, <2>2 DEF IInv, TypeOK
    <3>2. log' \in [Channels -> Logs]
      <4>1. log \in [Channels -> Logs]
        BY DEF IInv, TypeOK, Logs
      <4> QED BY <1>6, <4>1, LogTypes
    <3> QED BY <1>6, <3>1, <3>2 DEF IInv, TypeOK, Logs
  <2>5. StoppedIsEmpty' /\ StopHolds'
    BY <1>6, <2>1, <2>3 DEF IInv, StoppedIsEmpty, StopHolds
  <2>6. LineFollows' /\ HaltFollows'
    BY <1>6 DEF IInv, LineFollows, HaltFollows
  <2>7. \A k \in Channels : Follows(k)'
    BY <2>3, LogTypes, LeftAlone DEF IInv
  <2> QED BY <2>4, <2>5, <2>6, <2>7 DEF IInv
<1>7. CASE /\ c.mode.on <=> mode.on
           /\ DMACH' = [DMACH EXCEPT ![ch] = told]
           /\ log' = [log EXCEPT ![ch] = Unfollowed(@)]
           /\ RecalcHalt
           /\ pc' = "rest" /\ UNCHANGED at
  <2>1. /\ DMACH'[ch] = told /\ log'[ch] = Unfollowed(log[ch])
        /\ \A k \in Channels : k # ch => DMACH'[k] = DMACH[k] /\ log'[k] = log[k]
    BY <1>7 DEF IInv, TypeOK
  <2>2. Unfollowed(log[ch]) \in Logs /\ ~log'[ch].whole /\ log'[ch].failed = log[ch].failed
    BY <1>3, <2>1, LogTypes
  <2> HIDE DEF told
  <2>3. Halted' \in BOOLEAN /\ (Halted' <=> \E k \in Channels : Bursting(DMACH'[k]))
    BY <1>7 DEF RecalcHalt
  <2>4. TypeOK'
    BY <1>4, <1>7, <2>2, <2>3 DEF IInv, TypeOK, Logs
  <2>5. StoppedIsEmpty' /\ StopHolds'
    BY <1>4, <1>7, <2>1, <2>2 DEF IInv, StoppedIsEmpty, StopHolds
  <2>6. LineFollows' /\ HaltFollows'
    BY <1>7, <2>3 DEF IInv, LineFollows, HaltFollows
  <2>7. \A k \in Channels : Follows(k)'
    BY <2>1, <2>2, LeftAlone DEF IInv
  <2> QED BY <2>4, <2>5, <2>6, <2>7 DEF IInv
<1> QED BY <1>2, <1>5, <1>6, <1>7 DEF WriteMode

LEMMA StopReturnsKeeps ==
  ASSUME IInv, StopReturns PROVE IInv'
<1>1. PICK mode \in Modes[at] :
        ~mode.on /\ DMACH' = [DMACH EXCEPT ![at] = Stopped(DMACH[at], Written(at, mode))]
  BY DEF StopReturns
<1>2. /\ pc = "stop" /\ pc' = "rest" /\ at' = First /\ at \in Channels /\ ~DMACH[at].mode.on
      /\ UNCHANGED <<DMAIntControl, DMAIntStatus, IRQOut, log>>
      /\ Halted' = \E ch \in Channels : Bursting(DMACH'[ch])
  BY DEF StopReturns, RecalcHalt, IInv, TypeOK, StopHolds
<1> DEFINE n == Stopped(DMACH[at], Written(at, mode))
<1>3. n \in ChannelState /\ ~n.mode.on /\ n.WordCounter = 0
  <2>1. DMACH[at] \in ChannelState
    BY <1>2 DEF IInv, TypeOK
  <2>2. Written(at, mode) \in ModeBits /\ ~Written(at, mode).on
    BY <1>1, <1>2, WrittenType
  <2> DEFINE c == DMACH[at]
             m == Written(at, mode)
  <2>3. c \in ChannelState /\ m \in ModeBits /\ n = [c EXCEPT !.mode = m, !.WordCounter = 0]
    BY <2>1, <2>2 DEF Stopped
  <2> HIDE DEF n, c, m
  <2>4. n \in ChannelState /\ n.mode = m /\ n.WordCounter = 0
    <3>1. n = [BaseAddr |-> c.BaseAddr, Size |-> c.Size, Blocks |-> c.Blocks, CurAddr |-> c.CurAddr,
               WordCounter |-> 0, mode |-> m]
      BY <2>3 DEF ChannelState
    <3>2. /\ c.BaseAddr \in Addresses /\ c.Size \in 0..(Span - 1) /\ c.Blocks \in 0..(Span - 1)
          /\ c.CurAddr \in Addresses /\ 0 \in 0..(Span - 1)
      BY <2>3 DEF ChannelState
    <3> QED BY <2>3, <3>1, <3>2 DEF ChannelState
  <2> QED BY <2>2, <2>4 DEF m
<1>4. DMACH' = [DMACH EXCEPT ![at] = n]
  BY <1>1
<1> HIDE DEF n
<1>5. DMACH'[at] = n /\ \A k \in Channels : k # at => DMACH'[k] = DMACH[k]
  BY <1>2, <1>4 DEF IInv, TypeOK
<1>6. TypeOK'
  BY <1>2, <1>3, <1>4, FirstIsChannel DEF IInv, TypeOK
<1>7. StoppedIsEmpty' /\ StopHolds'
  BY <1>2, <1>3, <1>5 DEF IInv, StoppedIsEmpty, StopHolds
<1>8. LineFollows' /\ HaltFollows'
  BY <1>2 DEF IInv, LineFollows, HaltFollows
<1>9. \A k \in Channels : Follows(k)'
  <2>1. ~log[at].whole
    BY <1>2 DEF IInv, Follows
  <2> QED BY <1>2, <1>5, <2>1, LeftAlone DEF IInv
<1> QED BY <1>6, <1>7, <1>8, <1>9 DEF IInv

LEMMA PowerKeeps ==
  ASSUME IInv, DMA_Power PROVE IInv'
<1>1. Idle \in ChannelState /\ Idle.WordCounter = 0 /\ ~Idle.mode.on
  BY EndIsPositive DEF Idle, ChannelState, ModeBits, Addresses
<1>2. /\ \A ch \in Channels : DMACH'[ch] = Idle /\ log'[ch] = NoTransfer
      /\ pc = "rest" /\ UNCHANGED <<pc, at>> /\ ~Halted' /\ ~IRQOut'
      /\ DMAIntStatus' = {} /\ ~DMAIntControl'.force /\ DMAIntControl' \in IntControls
  BY DEF DMA_Power
<1>3. TypeOK'
  <2>1. DMACH' \in [Channels -> ChannelState]
    BY <1>1 DEF DMA_Power
  <2>2. log' \in [Channels -> Logs]
    BY LogTypes DEF DMA_Power
  <2> QED BY <1>2, <2>1, <2>2 DEF DMA_Power, IInv, TypeOK, Logs
<1>4. StoppedIsEmpty' /\ StopHolds'
  BY <1>1, <1>2 DEF StoppedIsEmpty, StopHolds
<1>5. LineFollows'
  BY <1>2 DEF LineFollows, Requested
<1>6. HaltFollows'
  BY <1>1, <1>2 DEF HaltFollows, Bursting
<1>7. \A ch \in Channels : Follows(ch)'
  BY <1>2, LogTypes DEF Follows
<1> QED BY <1>3, <1>4, <1>5, <1>6, <1>7 DEF IInv

LEMMA StepKeeps == IInv /\ [Next]_vars => IInv'
<1> SUFFICES ASSUME IInv, [Next]_vars PROVE IInv'
  OBVIOUS
<1>1. CASE DMA_Update \/ LeaveChannel \/ StartReturns
  BY <1>1, CallKeeps
<1>2. CASE \E ch \in Channels : Iterate(ch)
  BY <1>2, IterateKeeps
<1>3. CASE DMA_Write
  BY <1>3, RegisterKeeps, IntControlKeeps, ChanControlKeeps DEF DMA_Write
<1>4. CASE StopReturns
  BY <1>4, StopReturnsKeeps
<1>5. CASE DMA_Power
  BY <1>5, PowerKeeps
<1>6. CASE UNCHANGED vars
  <2>1. \A k \in Channels : Follows(k)'
    BY <1>6, LeftAlone DEF IInv, vars
  <2>2. TypeOK' /\ StoppedIsEmpty' /\ StopHolds' /\ LineFollows' /\ HaltFollows'
    BY <1>6 DEF vars, IInv, TypeOK, StoppedIsEmpty, StopHolds, LineFollows, HaltFollows
  <2> QED BY <2>1, <2>2 DEF IInv
<1> QED BY <1>1, <1>2, <1>3, <1>4, <1>5, <1>6 DEF Next

------------------------------------------------------------------------------
(* The theorems.                                                            *)

\* Whatever the CPU writes and however the clocks cut the transfers, what is left in the
\* registers of a channel is what its transfer has left (RunChannel).
THEOREM Invariant == Spec => []IInv
<1> QED BY InitHolds, StepKeeps, PTL DEF Spec

\* The registers keep their widths (dma.cpp:405, 441 and 443 wrap them).
THEOREM TypeCorrect == Spec => []TypeOK
<1>1. IInv => TypeOK
  BY DEF IInv
<1> QED BY Invariant, <1>1, PTL

\* A transfer moves the words it was told at consecutive addresses (RunChannel).
THEOREM TransfersExact == Spec => []TransfersAreExact
<1>1. IInv => TransfersAreExact
  <2> SUFFICES ASSUME IInv, NEW ch \in Channels, log[ch].whole
               PROVE  /\ log[ch].moved < log[ch].words
                      /\ log[ch].moved > 0 => DMACH[ch].CurAddr = Place(log[ch], DMACH[ch])
    BY DEF TransfersAreExact, Place
  <2> DEFINE l == log[ch]
             n == Left(DMACH[ch])
  <2>1. l \in Logs /\ DMACH[ch] \in ChannelState
    BY DEF IInv, TypeOK, Logs
  <2>2. l.words = l.moved + n /\ (l.moved > 0 => DMACH[ch].CurAddr = Place(l, DMACH[ch]))
    BY DEF IInv, Follows
  <2>3. n \in Nat /\ n > 0
    BY <2>1, LeftIsPositive
  <2>4. l.moved \in Nat
    BY <2>1 DEF Logs
  <2> HIDE DEF n
  <2> QED BY <2>2, <2>3, <2>4
<1> QED BY Invariant, <1>1, PTL

\* A burst that has begun keeps the CPU halted and only a burst does, whenever a call has
\* returned; the interrupt line is never stale (RecalcHalt, RecalcIRQOut).
THEOREM OutputsCurrent == Spec => []OutputsAreCurrent
<1>1. IInv => OutputsAreCurrent
  <2> SUFFICES ASSUME IInv PROVE OutputsAreCurrent
    OBVIOUS
  <2>1. IRQOut <=> Requested(DMAIntControl, DMAIntStatus)
    BY DEF IInv, LineFollows
  <2>2. ASSUME pc = "rest", NEW ch \in Channels, DMACH[ch].mode.on, IsBurst(DMACH[ch].mode),
               log[ch].whole, log[ch].moved > 0
        PROVE  Halted
    <3>1. DMACH[ch].WordCounter # 0
      BY <2>2 DEF IInv, Follows, IsBurst
    <3>2. DMACH[ch].WordCounter \in 0..(Span - 1)
      BY DEF IInv, TypeOK, ChannelState
    <3>3. Bursting(DMACH[ch])
      BY <2>2, <3>1, <3>2 DEF Bursting
    <3> QED BY <2>2, <3>3 DEF IInv, HaltFollows
  <2>3. ASSUME pc = "rest", Halted
        PROVE  \E ch \in Channels : DMACH[ch].mode.on /\ IsBurst(DMACH[ch].mode)
    BY <2>3 DEF IInv, HaltFollows, Bursting
  <2> QED BY <2>1, <2>2, <2>3 DEF OutputsAreCurrent
<1> QED BY Invariant, <1>1, PTL

\* A channel that was turned off has nothing left to move (dma.cpp:587-605).
THEOREM StoppedEmpty == Spec => []StoppedIsEmpty
<1>1. IInv => StoppedIsEmpty
  BY DEF IInv
<1> QED BY Invariant, <1>1, PTL

\* A channel turns itself off with its last word or at an address that is no memory, and
\* says so in the same step (dma.cpp:423-429, 485-494).
THEOREM EndsSignalled == Spec => EndsAreSignalled
<1> DEFINE Signalled ==
      \A ch \in Channels :
        DMACH[ch].mode.on /\ ~DMACH'[ch].mode.on /\ pc \in {"update", "start"} =>
          \/ /\ log[ch].whole => log[ch].moved + 1 = log[ch].words
             /\ ch \in DMAIntControl.enable => ch \in DMAIntStatus'
             /\ ch \in DMAIntControl.enable /\ DMAIntControl.master => IRQOut'
          \/ Bad(DMACH'[ch].CurAddr) /\ DMAIntControl'.force
<1>1. IInv /\ [Next]_vars => [Signalled]_vars
  <2> SUFFICES ASSUME IInv, Next, NEW ch \in Channels, DMACH[ch].mode.on, ~DMACH'[ch].mode.on,
                      pc \in {"update", "start"}
               PROVE  \/ /\ log[ch].whole => log[ch].moved + 1 = log[ch].words
                         /\ ch \in DMAIntControl.enable => ch \in DMAIntStatus'
                         /\ ch \in DMAIntControl.enable /\ DMAIntControl.master => IRQOut'
                      \/ Bad(DMACH'[ch].CurAddr) /\ DMAIntControl'.force
    BY DEF vars
  <2>1. TypeOK /\ Follows(ch)
    BY DEF IInv
  <2>2. PICK k \in Channels : Iterate(k)
    BY DEF Next, DMA_Update, LeaveChannel, DMA_Write, StartReturns, StopReturns, DMA_Power
  <2>3. k = ch
    <3>1. DMACH' = [DMACH EXCEPT ![k] = DMACH'[k]]
      BY <2>2, IterationEffect
    <3> QED BY <2>1, <3>1 DEF TypeOK
  <2>4. IRQOut' = Requested(DMAIntControl', DMAIntStatus')
    BY <2>2 DEF Iterate, RecalcIRQOut
  <2>5. CASE Fails(ch)
    BY <2>1, <2>5, FailureEffect
  <2>6. ASSUME NEW c \in ChannelState, EndCondition(ch, c), DMAIntControl' = DMAIntControl,
               c.mode.on, log[ch].whole => log[ch].moved + 1 = log[ch].words
        PROVE  /\ log[ch].whole => log[ch].moved + 1 = log[ch].words
               /\ ch \in DMAIntControl.enable => ch \in DMAIntStatus'
               /\ ch \in DMAIntControl.enable /\ DMAIntControl.master => IRQOut'
    <3>1. DMAIntStatus' = DMAIntStatus \cup ({ch} \cap DMAIntControl.enable)
      <4>1. Ended(ch, c)
        BY <2>1, <2>6, EndConditionEffect
      <4> QED BY <4>1, <2>6 DEF Ended
    <3>2. ch \in DMAIntControl.enable => ch \in DMAIntStatus'
      BY <3>1
    <3> QED BY <2>4, <2>6, <3>2 DEF Requested
  <2>7. CASE ReadsOn(ch)
    <3>1. PICK c \in ChannelState : c.mode = DMACH[ch].mode /\ EndCondition(ch, c)
      BY <2>7 DEF ReadsOn
    <3>2. DMACH[ch].mode.sync >= 2 /\ DMAIntControl' = DMAIntControl
      BY <2>7 DEF ReadsOn
    <3>3. ~log[ch].whole
      <4>1. ~(DMACH[ch].mode.sync = 0 \/ DMACH[ch].mode.sync = 1)
        BY <3>2
      <4> QED BY <2>1, <4>1 DEF Follows
    <3> QED BY <2>6, <3>1, <3>2, <3>3
  <2>8. CASE MovesOn(ch)
    <3> DEFINE c == Moved(Taken(ch))
    <3>1. Taken(ch) \in ChannelState /\ Taken(ch).mode = DMACH[ch].mode
      BY <2>8 DEF MovesOn
    <3>2. c \in ChannelState /\ c.mode = DMACH[ch].mode
      BY <3>1, MovedType, MovedEffect
    <3>3. EndCondition(ch, c) /\ DMAIntControl' = DMAIntControl
      BY <2>8 DEF MovesOn
    <3>4. log[ch].whole => log[ch].moved + 1 = log[ch].words
      BY <2>1, <2>8, TransferStep
    <3> HIDE DEF c
    <3> QED BY <2>6, <3>2, <3>3, <3>4
  <2>9. Fails(ch) \/ ReadsOn(ch) \/ MovesOn(ch)
    BY <2>1, <2>2, <2>3, IterationCases DEF Iterate
  <2> QED BY <2>5, <2>7, <2>8, <2>9
<1> QED BY Invariant, <1>1, PTL DEF EndsAreSignalled, Spec

------------------------------------------------------------------------------
(***************************************************************************)
(* The two channels of the picture decoder, in MDEC: any sizes, commands   *)
(* and words.  The invariant follows a command of the game from the input  *)
(* to the place of each word of its picture.                               *)
(***************************************************************************)
HIDE DMAAssumption DEF IntControls

\* What there is: the words of the FIFOs, the commands and the counter.
Pixels       == [block : Nat, at : Nat]
CommandWords == [op : 0..7, depth : 0..3, count : Nat, both : BOOLEAN]
FIFOWords        == Commands \cup Data \cup {Padding}
Counters     == 0..Spent

Fields == DOMAIN MDEC_Power

Shape(m) == m = [x \in Fields |-> m[x]]

\* What the decoder is made of, as far as it matters what the game gets.
WellMade(m) ==
  /\ Shape(m)
  /\ m.InFIFO \in Seq(FIFOWords) /\ m.OutFIFO \in Seq(Pixels) /\ m.pixels \in Seq(Pixels)
  /\ m.ReadOffset \in Nat /\ m.InCounter \in Counters /\ m.encoded \in Nat

\* The channels, and the game.
ChannelStates == [on : BOOLEAN, WordCounter : 0..(Size - 1), blocks : Int]
Games    == [at : {"off", "idle", "busy"}, command : CommandWords, left : Nat, moved : Nat]

Typed(m, ci, co, g) ==
  /\ WellMade(m)
  /\ ci \in ChannelStates /\ co \in ChannelStates
  /\ g \in Games /\ (g.at = "busy" => g.command \in Commands)

\* The coroutine runs on as long as it does not wait, but for the room ReadWord made.
Settled(m) ==
  /\ m.running => ~Waits(m)
  /\ ~m.running /\ m.phase \in {"command", "word"} => m.InFIFO = <<>>

\* A channel is on for a command of the game, and what is left of its block fits.
Linked(m, ci, co, g) ==
  /\ ci.on \/ ci.WordCounter = 0
  /\ co.on \/ co.WordCounter = 0
  /\ ci.on => g.at = "busy"
  /\ co.on => g.at = "busy" /\ g.command.op = 1
  /\ ci.WordCounter + Len(m.InFIFO) <= Size
  /\ co.WordCounter <= Len(m.OutFIFO)

Resting(m, g) ==
  g.at # "busy" => m.phase = "command" /\ m.InFIFO = <<>> /\ Len(m.OutFIFO) < Size

\* Of the words in the FIFO n are the command's, and the rest pads a block.
Supplied(m, g, n) ==
  IF g.command.op = 1
  THEN /\ g.left = IF n >= Len(m.InFIFO) THEN n - Len(m.InFIFO) ELSE 0
       /\ \A i \in 1..Len(m.InFIFO) : IF i <= n THEN m.InFIFO[i] \in Data ELSE m.InFIFO[i] = Padding
  ELSE \A i \in 1..Len(m.InFIFO) : m.InFIFO[i] = Padding

\* Nothing of a picture can be taken yet.
Unread(m, co, g) ==
  /\ co.WordCounter = 0 /\ Len(m.OutFIFO) < Size
  /\ co.on \/ m.OutFIFO = <<>> \/ g.command.op # 1
  /\ g.moved = 0

\* The stages of a command.
Sent(m, ci, co, g) ==
  /\ m.phase = "command" /\ m.InFIFO = <<g.command>> /\ g.left = WordsOf(g.command)
  /\ ~ci.on /\ Unread(m, co, g)
Begun(m, co, g) ==
  /\ m.phase = "begin" /\ m.Command = g.command
  /\ Supplied(m, g, WordsOf(g.command)) /\ Unread(m, co, g)
Works(m, g) ==
  /\ m.phase \in {"word", "eat", "give"} /\ m.Command = g.command
  /\ m.phase = "word" => m.InCounter # Spent
  /\ Supplied(m, g, (m.InCounter + 1) % (Spent + 1))
  /\ g.command.op # 1 => m.phase = "word" /\ Len(m.OutFIFO) < Size
Over(m, g) ==
  /\ m.phase = "command" \/ (m.phase = "begin" /\ m.Command = AsCommand(Padding))
  /\ Supplied(m, g, 0)
  /\ g.command.op # 1 => Len(m.OutFIFO) < Size

\* The k-th word of a picture.
BlockSize(depth) == Rows * Width[depth]
Pixel(depth, k) == [block |-> k \div BlockSize(depth), at |-> k % BlockSize(depth)]

\* Where the coroutine is in the block it gives, and what it has yet to give of it.
Given(m)  == IF m.phase = "give" THEN m.ReadOffset ELSE 0
ToGive(m) == IF m.phase \in {"eat", "give"} THEN Len(m.pixels) - Given(m) ELSE 0

\* The words of the FIFO and of the block go on where the picture ends.
InStream(m, g) ==
  LET depth == g.command.depth
      words == Len(m.OutFIFO)
  IN /\ \A i \in 1..words : m.OutFIFO[i] = Pixel(depth, g.moved + i - 1)
     /\ ToGive(m) >= 0
     /\ \A i \in 1..ToGive(m) : m.pixels[Given(m) + i] = Pixel(depth, g.moved + words + i - 1)
     /\ m.encoded * BlockSize(depth) = g.moved + words + ToGive(m)

\* The row and the place in it that the next word has.
InRow(m, g) ==
  LET width == Width[g.command.depth]
  IN IF g.command.depth < 2 THEN m.RAMOffsetWWS = 0 /\ m.RAMOffsetY \in Nat
     ELSE /\ m.RAMOffsetWWS = width /\ m.RAMOffsetCounter = width - (g.moved % width)
          /\ m.RAMOffsetY = (g.moved \div width) % 256

Streams(m, co, g) == g.command.op = 1 => InStream(m, g) /\ (co.on => InRow(m, g))

Fed(m, ci, co, g) ==
  g.at = "busy" => \/ Sent(m, ci, co, g)
                   \/ Begun(m, co, g)
                   \/ Works(m, g) /\ Streams(m, co, g)
                   \/ Over(m, g) /\ Streams(m, co, g)

\* Where the k-th word belongs, if DMA stores the picture or the game reads it.
PlaceOf(byDMA, depth, k) ==
  LET width == Width[depth]
      words == Rows * width
      block == (k \div words) % 4
      inside    == k % words
  IN IF ~byDMA \/ depth < 2 THEN k
     ELSE (k - (k % (4 * words))) + 2 * words * (block \div 2) + width * (block % 2)
            + 2 * width * (inside \div width) + (inside % width)

StoredWord(byDMA, depth, k) == [place |-> PlaceOf(byDMA, depth, k), word |-> Pixel(depth, k)]
Pictured(co, g, p) ==
  g.at = "busy" => p = {StoredWord(co.on, g.command.depth, k) : k \in 0..(g.moved - 1)}

Told(m) == m.InCommand = (m.phase # "command")

Core(m, ci, co, g, p) ==
  Told(m) /\ Linked(m, ci, co, g) /\ Resting(m, g) /\ Fed(m, ci, co, g) /\ Pictured(co, g, p)

PictureInv ==
  /\ Typed(mdec, in, out, game) /\ Settled(mdec) /\ Core(mdec, in, out, game, picture)
------------------------------------------------------------------------------
(* Arithmetic of words, blocks and rows.                                    *)

LEMMA Divided ==
  ASSUME NEW n \in Nat \ {0}, NEW x \in Nat
  PROVE  x \div n \in Nat /\ x % n \in 0..(n - 1) /\ x = n * (x \div n) + (x % n)
OBVIOUS

LEMMA ProductGrows ==
  ASSUME NEW n \in Nat \ {0}, NEW a \in Nat, NEW b \in Nat, a < b
  PROVE  n * a + n <= n * b
<1>1. b - a - 1 \in Nat /\ b = a + 1 + (b - a - 1)
  OBVIOUS
<1>2. PICK k \in Nat : b = a + 1 + k
  BY <1>1
<1>3. n * b = n * a + n + n * k /\ n * k \in Nat
  BY <1>2
<1>4. n * a \in Nat /\ n * b \in Nat
  OBVIOUS
<1>5. QED
  BY <1>3, <1>4

LEMMA DivisionIsUnique ==
  ASSUME NEW n \in Nat \ {0}, NEW a \in Nat, NEW r \in 0..(n - 1)
  PROVE  (n * a + r) \div n = a /\ (n * a + r) % n = r
<1> DEFINE x == n * a + r
           q == x \div n
           s == x % n
<1>1. x \in Nat /\ n * a \in Nat
  OBVIOUS
<1>2. q \in Nat /\ s \in 0..(n - 1) /\ x = n * q + s
  BY <1>1, Divided
<1>3. x = n * a + r
  OBVIOUS
<1> HIDE DEF q, s, x
<1>4. q = a
  <2>1. ~(q < a)
    <3>1. SUFFICES ASSUME q < a PROVE FALSE
      OBVIOUS
    <3>2. n * q + n <= n * a
      BY <1>2, <3>1, ProductGrows
    <3>3. n * q \in Nat
      BY <1>2
    <3>4. QED
      BY <1>1, <1>2, <1>3, <3>2, <3>3
  <2>2. ~(a < q)
    <3>1. SUFFICES ASSUME a < q PROVE FALSE
      OBVIOUS
    <3>2. n * a + n <= n * q
      BY <1>2, <3>1, ProductGrows
    <3>3. n * q \in Nat
      BY <1>2
    <3>4. QED
      BY <1>1, <1>2, <1>3, <3>2, <3>3
  <2>3. QED
    BY <1>2, <2>1, <2>2
<1>5. s = r
  BY <1>1, <1>2, <1>3, <1>4
<1>6. QED
  BY <1>4, <1>5 DEF q, s, x

\* The next one is in the same block, or the first of the next block.
LEMMA NextOf ==
  ASSUME NEW n \in Nat \ {0}, NEW x \in Nat
  PROVE  IF x % n = n - 1 THEN (x + 1) \div n = (x \div n) + 1 /\ (x + 1) % n = 0
         ELSE (x + 1) \div n = x \div n /\ (x + 1) % n = (x % n) + 1
<1> DEFINE q == x \div n
           r == x % n
<1>1. q \in Nat /\ r \in 0..(n - 1) /\ x = n * q + r
  BY Divided
<1> HIDE DEF q, r
<1>2. CASE r = n - 1
  <2>1. PICK p \in Nat : p = q + 1
    BY <1>1
  <2>2. x + 1 = n * p + 0 /\ 0 \in 0..(n - 1)
    BY <1>1, <1>2, <2>1
  <2>3. (x + 1) \div n = p /\ (x + 1) % n = 0
    BY <2>2, DivisionIsUnique
  <2>4. QED
    BY <1>2, <2>1, <2>3 DEF q, r
<1>3. CASE r # n - 1
  <2>1. x + 1 = n * q + (r + 1)
    BY <1>1
  <2>2. r + 1 \in 0..(n - 1)
    BY <1>1, <1>3
  <2>3. (x + 1) \div n = q /\ (x + 1) % n = r + 1
    BY <1>1, <2>1, <2>2, DivisionIsUnique
  <2>4. QED
    BY <1>3, <2>3 DEF q, r
<1>4. QED
  BY <1>2, <1>3

\* The t rows are an even number of blocks.
EvenBlocks(t, n) == t % (2 * n) = 0

SameSide(t, n, b, y) ==
  /\ ((n * b + y) % t) % n = y
  /\ (((n * b + y) % t) \div n) % 2 = b % 2

\* A row counted modulo t is as far in its block, and in a block of the same side.
LEMMA RowsRepeat ==
  ASSUME NEW n \in Nat \ {0}, NEW t \in Nat \ {0}, EvenBlocks(t, n), NEW b \in Nat, NEW y \in 0..(n - 1)
  PROVE  SameSide(t, n, b, y)
<1> DEFINE d   == t \div (2 * n)
           row == n * b + y
           g   == row \div t
           h   == row % t
           c   == h \div n
           z   == h % n
           u   == c \div 2
           v   == c % 2
<1>1. row \in Nat /\ n * b \in Nat /\ 2 * n \in Nat \ {0}
  OBVIOUS
<1>2. d \in Nat /\ t = (2 * n) * d
  <2>1. d \in Nat /\ t = (2 * n) * d + (t % (2 * n))
    BY <1>1, Divided
  <2>2. t % (2 * n) = 0
    BY DEF EvenBlocks
  <2>3. (2 * n) * d \in Nat
    BY <1>1, <2>1
  <2>4. QED
    BY <2>1, <2>2, <2>3
<1>3. g \in Nat /\ h \in Nat /\ row = t * g + h
  <2> HIDE DEF row
  <2>1. g \in Nat /\ h \in 0..(t - 1) /\ row = t * g + h
    BY <1>1, Divided
  <2>2. QED
    BY <2>1
<1>4. c \in Nat /\ z \in 0..(n - 1) /\ h = n * c + z
  BY <1>3, Divided
<1>5. u \in Nat /\ v \in 0..1 /\ c = 2 * u + v
  BY <1>4, Divided
<1> HIDE DEF d, g, h, c, z, u, v
<1>6. PICK e \in Nat : e = d * g
  BY <1>2, <1>3
<1>7. t * g = n * (2 * e)
  <2>1. t * g = ((2 * n) * d) * g
    BY <1>2
  <2>2. ((2 * n) * d) * g = n * (2 * (d * g))
    BY <1>2, <1>3
  <2>3. QED
    BY <1>6, <2>1, <2>2
<1>8. PICK p \in Nat : p = 2 * e + c
  BY <1>4, <1>6
<1>9. row = n * p + z
  <2>1. n * p = n * (2 * e) + n * c
    BY <1>4, <1>6, <1>8
  <2>2. row = n * (2 * e) + (n * c + z)
    BY <1>3, <1>4, <1>7
  <2>3. n * (2 * e) \in Nat /\ n * c \in Nat /\ z \in Nat /\ n * p \in Nat
    BY <1>4, <1>6, <1>8
  <2>4. QED
    BY <2>1, <2>2, <2>3
<1>10. row = n * b + y
  OBVIOUS
<1> HIDE DEF row
<1>11. row \div n = p /\ row % n = z
  BY <1>4, <1>8, <1>9, DivisionIsUnique
<1>12. row \div n = b /\ row % n = y
  BY <1>10, DivisionIsUnique
<1>13. PICK w \in Nat : w = e + u
  BY <1>5, <1>6
<1>14. b = 2 * w + v
  BY <1>5, <1>8, <1>11, <1>12, <1>13
<1>15. b % 2 = v
  BY <1>5, <1>13, <1>14, DivisionIsUnique
<1>16. QED
  BY <1>11, <1>12, <1>15 DEF h, c, z, v, row, SameSide

\* Four blocks make a square of two rows of blocks.
LEMMA SquareOfFour ==
  ASSUME NEW n \in Nat \ {0}, NEW w \in Nat \ {0}, NEW c \in Nat, NEW f \in 0..3, NEW y \in Nat, NEW x \in Nat
  PROVE  (n * w) * (4 * c + f) + (w * y + x) + w * (y - (IF f % 2 = 1 THEN n - 1 ELSE 0))
           = 4 * (n * w) * c + 2 * (n * w) * (f \div 2) + w * (f % 2) + 2 * w * y + x
<1>1. PICK words \in Nat : words = n * w
  OBVIOUS
<1>2. PICK p \in Nat : p = words * c
  BY <1>1
<1>3. PICK q \in Nat : q = w * y
  OBVIOUS
<1>4. words * (4 * c + f) = 4 * p + words * f
  BY <1>1, <1>2
<1>5. 4 * words * c = 4 * p /\ 2 * w * y = 2 * q
  BY <1>1, <1>2, <1>3
<1>6. w * (y - (n - 1)) = q - words + w /\ w * (y - 0) = q
  BY <1>1, <1>3
<1>7. CASE f = 0
  BY <1>1, <1>2, <1>3, <1>4, <1>5, <1>6, <1>7
<1>8. CASE f = 1
  BY <1>1, <1>2, <1>3, <1>4, <1>5, <1>6, <1>8
<1>9. CASE f = 2
  BY <1>1, <1>2, <1>3, <1>4, <1>5, <1>6, <1>9
<1>10. CASE f = 3
  BY <1>1, <1>2, <1>3, <1>4, <1>5, <1>6, <1>10
<1>11. QED
  BY <1>7, <1>8, <1>9, <1>10

\* The offset brings a word of a colour picture to its place in the square.
OffsetBrings(n, w, k, row) ==
  k + w * ((row % n) - (IF (row \div n) % 2 = 1 THEN n - 1 ELSE 0))
    = LET words == n * w
          block == (k \div words) % 4
          inside    == k % words
      IN (k - (k % (4 * words))) + 2 * words * (block \div 2) + w * (block % 2)
           + 2 * w * (inside \div w) + (inside % w)

LEMMA OffsetIsPlace ==
  ASSUME NEW n \in Nat \ {0}, NEW t \in Nat \ {0}, EvenBlocks(t, n), NEW w \in Nat \ {0}, NEW k \in Nat,
         NEW row \in Nat, row = (k \div w) % t
  PROVE  OffsetBrings(n, w, k, row)
<1> DEFINE r == k \div w
           x == k % w
           b == r \div n
           y == r % n
           c == b \div 4
           f == b % 4
<1>1. r \in Nat /\ x \in 0..(w - 1) /\ k = w * r + x
  BY Divided
<1>2. b \in Nat /\ y \in 0..(n - 1) /\ r = n * b + y
  BY <1>1, Divided
<1>3. c \in Nat /\ f \in 0..3 /\ b = 4 * c + f
  BY <1>2, Divided
<1>4. row % n = y /\ (row \div n) % 2 = b % 2
  <2> HIDE DEF b, y
  <2>1. row = (n * b + y) % t
    BY <1>2
  <2>2. SameSide(t, n, b, y)
    BY <1>2, RowsRepeat
  <2>3. QED
    BY <2>1, <2>2 DEF SameSide
<1> HIDE DEF r, x, b, y, c, f
<1>5. b % 2 = f % 2
  <2>1. PICK g \in Nat : g = 2 * c + (f \div 2)
    BY <1>3
  <2>2. f % 2 \in 0..1 /\ b = 2 * g + (f % 2)
    BY <1>3, <2>1
  <2>3. QED
    BY <2>2, DivisionIsUnique
<1>6. PICK words \in Nat : words = n * w
  OBVIOUS
<1>7. PICK inside \in Nat : inside = w * y + x
  BY <1>1, <1>2
<1>8. inside \in 0..(words - 1) /\ words > 0
  <2>1. w * y + w <= w * n
    BY <1>2, ProductGrows
  <2>2. w * n = words /\ w * y \in Nat
    BY <1>2, <1>6
  <2>3. QED
    BY <1>1, <1>7, <2>1, <2>2
<1>9. k = words * b + inside
  <2>1. w * (n * b + y) = (n * w) * b + w * y
    BY <1>2
  <2>2. words * b \in Nat /\ w * y \in Nat
    BY <1>2, <1>6
  <2>3. QED
    BY <1>1, <1>2, <1>6, <1>7, <2>1, <2>2
<1>10. k \div words = b /\ k % words = inside
  BY <1>2, <1>8, <1>9, DivisionIsUnique
<1>11. inside \div w = y /\ inside % w = x
  BY <1>1, <1>2, <1>7, DivisionIsUnique
<1>12. k % (4 * words) = words * f + inside /\ k = 4 * words * c + (words * f + inside)
  <2>1. PICK q \in Nat \ {0} : q = 4 * words
    BY <1>8
  <2>2. PICK v \in Nat : v = words * f + inside
    BY <1>3, <1>7
  <2>3. v \in 0..(q - 1)
    BY <1>3, <1>8, <2>1, <2>2
  <2>4. words * b = q * c + words * f
    BY <1>3, <2>1
  <2>5. q * c \in Nat /\ words * f \in Nat
    BY <1>3, <2>1
  <2>6. k = q * c + v
    BY <1>9, <2>2, <2>4, <2>5
  <2>7. k % q = v
    BY <1>3, <2>3, <2>6, DivisionIsUnique
  <2>8. QED
    BY <2>1, <2>2, <2>6, <2>7
<1>13. words * b + inside + w * (y - (IF f % 2 = 1 THEN n - 1 ELSE 0))
         = 4 * words * c + 2 * words * (f \div 2) + w * (f % 2) + 2 * w * y + x
  <2>1. x \in Nat /\ y \in Nat
    BY <1>1, <1>2
  <2>2. QED
    BY <1>3, <1>6, <1>7, <2>1, SquareOfFour
<1>14. k - (k % (4 * words)) = 4 * words * c
  <2>1. 4 * words * c \in Nat /\ words * f + inside \in Nat
    BY <1>3
  <2>2. QED
    BY <1>12, <2>1
<1>15. (k \div words) % 4 = f
  BY <1>10 DEF f
<1>16. k + w * ((row % n) - (IF (row \div n) % 2 = 1 THEN n - 1 ELSE 0))
         = words * b + inside + w * (y - (IF f % 2 = 1 THEN n - 1 ELSE 0))
  BY <1>4, <1>5, <1>9
<1>17. 4 * words * c + 2 * words * (f \div 2) + w * (f % 2) + 2 * w * y + x
         = (k - (k % (4 * words))) + 2 * words * (((k \div words) % 4) \div 2) + w * (((k \div words) % 4) % 2)
             + 2 * w * ((k % words) \div w) + ((k % words) % w)
  BY <1>10, <1>11, <1>14, <1>15
<1>18. QED
  BY <1>6, <1>13, <1>16, <1>17 DEF OffsetBrings

------------------------------------------------------------------------------
(* What the decoder's steps do to it.                                       *)

LEMMA FieldNames ==
  Fields = {"phase", "running", "ClockCounter", "InFIFO", "OutFIFO", "dmaIn", "dmaOut", "Command",
            "InCommand", "CoeffIndex", "DecodeWB", "pixels", "ReadOffset", "need_eat", "InCounter",
            "RAMOffsetY", "RAMOffsetCounter", "RAMOffsetWWS", "encoded"}
BY DEF Fields, MDEC_Power

\* What is left alone: the input, the output, the block being given, the rows.
SameInput(m, r)  == r.InFIFO = m.InFIFO /\ r.InCounter = m.InCounter
SameStage(m, r)  == r.phase = m.phase /\ r.InCommand = m.InCommand /\ r.Command = m.Command
SamePixels(m, r) == r.pixels = m.pixels /\ r.encoded = m.encoded /\ r.ReadOffset = m.ReadOffset
SameRows(m, r) ==
  /\ r.RAMOffsetY = m.RAMOffsetY /\ r.RAMOffsetCounter = m.RAMOffsetCounter /\ r.RAMOffsetWWS = m.RAMOffsetWWS

\* Nothing changes but the clock and whether it runs.
Alike(m, r) ==
  /\ Shape(r) /\ SameInput(m, r) /\ SameStage(m, r) /\ SamePixels(m, r) /\ SameRows(m, r)
  /\ r.OutFIFO = m.OutFIFO

LEMMA AlikeTransitive ==
  ASSUME NEW a, NEW b, NEW c, Alike(a, b), Alike(b, c) PROVE Alike(a, c)
BY Zenon DEF Alike, SameInput, SameStage, SamePixels, SameRows

LEMMA RunningDoes ==
  ASSUME NEW m, Shape(m)
  PROVE  Alike(m, Running(m)) /\ Settled(Running(m))
<1> DEFINE r == Running(m)
<1>1. Alike(m, r) /\ r.running = ~Waits(m)
  BY FieldNames DEF Shape, Alike, SameInput, SameStage, SamePixels, SameRows, Running
<1>2. r.ClockCounter = m.ClockCounter
  BY FieldNames DEF Shape, Running
<1> HIDE DEF r
<1>3. Waits(r) = Waits(m)
  BY <1>1, <1>2, Zenon DEF Alike, SameInput, SameStage, SamePixels, Waits
<1>4. ~r.running /\ r.phase \in {"command", "word"} => r.InFIFO = <<>>
  BY <1>1, <1>3 DEF Waits
<1>5. QED
  BY <1>1, <1>3, <1>4 DEF r, Settled

LEMMA RunDoes ==
  ASSUME NEW m, Shape(m), NEW clocks
  PROVE  Alike(m, MDEC_Run(m, clocks)) /\ Settled(MDEC_Run(m, clocks))
<1> DEFINE given == m.ClockCounter + clocks
           x == [m EXCEPT !.ClockCounter = IF given > MaxClock THEN MaxClock ELSE given]
<1>1. MDEC_Run(m, clocks) = Running(x)
  BY DEF MDEC_Run
<1> HIDE DEF given
<1>2. Shape(x) /\ Alike(m, x)
  BY FieldNames DEF Shape, Alike, SameInput, SameStage, SamePixels, SameRows
<1> HIDE DEF x
<1>3. QED
  BY <1>1, <1>2, RunningDoes, AlikeTransitive

\* The invariant does not look at the clock, nor at whether the coroutine runs.
LEMMA AlikeKeeps ==
  ASSUME NEW m, NEW r, Alike(m, r), NEW ci, NEW co, NEW g, NEW p
  PROVE  /\ Typed(m, ci, co, g) => Typed(r, ci, co, g)
         /\ Core(m, ci, co, g, p) => Core(r, ci, co, g, p)
<1>1. /\ Shape(r) /\ r.InFIFO = m.InFIFO /\ r.InCounter = m.InCounter /\ r.OutFIFO = m.OutFIFO
      /\ r.phase = m.phase /\ r.InCommand = m.InCommand /\ r.Command = m.Command
      /\ r.pixels = m.pixels /\ r.encoded = m.encoded /\ r.ReadOffset = m.ReadOffset
      /\ r.RAMOffsetY = m.RAMOffsetY /\ r.RAMOffsetCounter = m.RAMOffsetCounter
      /\ r.RAMOffsetWWS = m.RAMOffsetWWS
  BY DEF Alike, SameInput, SameStage, SamePixels, SameRows
<1>2. Typed(m, ci, co, g) => Typed(r, ci, co, g)
  BY <1>1, Zenon DEF Typed, WellMade
<1>3. Told(m) => Told(r)
  BY <1>1, Zenon DEF Told
<1>4. Linked(m, ci, co, g) => Linked(r, ci, co, g)
  BY <1>1, Zenon DEF Linked
<1>5. Resting(m, g) => Resting(r, g)
  BY <1>1, Zenon DEF Resting
<1>6. ASSUME NEW n PROVE Supplied(m, g, n) => Supplied(r, g, n)
  BY <1>1, Zenon DEF Supplied
<1>7. Unread(m, co, g) => Unread(r, co, g)
  BY <1>1, Zenon DEF Unread
<1>8. Sent(m, ci, co, g) => Sent(r, ci, co, g)
  BY <1>1, <1>7, Zenon DEF Sent
<1>9. Begun(m, co, g) => Begun(r, co, g)
  BY <1>1, <1>6, <1>7, Zenon DEF Begun
<1>10. Works(m, g) => Works(r, g)
  <2>1. Supplied(m, g, (m.InCounter + 1) % (Spent + 1)) => Supplied(r, g, (r.InCounter + 1) % (Spent + 1))
    BY <1>1, <1>6, Zenon
  <2>2. QED
    BY <1>1, <2>1, Zenon DEF Works
<1>11. Over(m, g) => Over(r, g)
  BY <1>1, <1>6, Zenon DEF Over
<1>12. InStream(m, g) => InStream(r, g)
  <2>1. Given(r) = Given(m) /\ ToGive(r) = ToGive(m)
    BY <1>1, Zenon DEF Given, ToGive
  <2>2. QED
    BY <1>1, <2>1, Zenon DEF InStream
<1>13. Streams(m, co, g) => Streams(r, co, g)
  <2>1. InRow(m, g) => InRow(r, g)
    BY <1>1, Zenon DEF InRow
  <2>2. QED
    BY <1>12, <2>1, Zenon DEF Streams
<1>14. Fed(m, ci, co, g) => Fed(r, ci, co, g)
  BY <1>8, <1>9, <1>10, <1>11, <1>13, Zenon DEF Fed
<1>15. QED
  BY <1>2, <1>3, <1>4, <1>5, <1>14, Zenon DEF Core

------------------------------------------------------------------------------
(* Constants and counters.                                                  *)

LEMMA MDECFacts ==
  /\ Size \in Nat \ {0} /\ Size <= Spent /\ Size % 2 = 0 /\ Rows \in Nat \ {0} /\ Spent \in Nat
  /\ \A d \in 0..3 : Width[d] \in Nat \ {0} /\ Width[d] < 256
  /\ Coeffs \in Nat /\ Coeffs > 1
  /\ Commands \subseteq [op : 1..3, depth : 0..3, count : 1..Spent, both : BOOLEAN]
<1>1. Coeffs \in Nat /\ Coeffs > 1 /\ Rows \in Nat \ {0}
  BY MDECAssumption DEF MDECAssumption
<1>2. Spent \in Nat
  BY DEF Spent
<1>3. Size \in Nat \ {0} /\ Size <= Spent /\ Size % 2 = 0
  BY <1>2, MDECAssumption DEF MDECAssumption
<1>4. ASSUME NEW d \in 0..3 PROVE Width[d] \in Nat \ {0} /\ Width[d] < 256
  <2>1. Width[d] \in 1..255
    BY MDECAssumption DEF MDECAssumption
  <2>2. QED
    BY <2>1
<1>5. Commands \subseteq [op : 1..3, depth : 0..3, count : 1..Spent, both : BOOLEAN]
  BY MDECAssumption DEF MDECAssumption
<1>6. QED
  BY <1>1, <1>2, <1>3, <1>4, <1>5

LEMMA CommandIs ==
  ASSUME NEW c \in Commands
  PROVE  /\ c.op \in {1, 2, 3} /\ c.depth \in 0..3 /\ c # Padding
         /\ WordsOf(c) \in 1..Spent
         /\ c.op = 1 => WordsOf(c) = c.count
<1>1. c \in [op : 1..3, depth : 0..3, count : 1..Spent, both : BOOLEAN]
  BY MDECFacts
<1>2. c.op \in {1, 2, 3} /\ c.depth \in 0..3 /\ c.count \in 1..Spent
  BY <1>1
<1>3. c # Padding
  <2>1. "op" \in DOMAIN c /\ "op" \notin DOMAIN Padding
    BY <1>1 DEF Padding
  <2>2. QED
    BY <2>1
<1>4. Size \div 2 \in 1..Spent /\ Size \in 1..Spent
  <2>1. Size \div 2 \in Nat /\ Size = 2 * (Size \div 2) + (Size % 2) /\ Size % 2 = 0
    BY MDECFacts
  <2>2. QED
    BY <2>1, MDECFacts
<1>5. CASE c.op = 1
  BY <1>2, <1>3, <1>5 DEF WordsOf
<1>6. CASE c.op = 2
  BY <1>2, <1>3, <1>4, <1>6 DEF WordsOf
<1>7. CASE c.op = 3
  BY <1>2, <1>3, <1>4, <1>7 DEF WordsOf
<1>8. QED
  BY <1>2, <1>5, <1>6, <1>7

LEMMA CommandDepth ==
  ASSUME NEW c \in Commands
  PROVE  Width[c.depth] \in Nat \ {0} /\ Width[c.depth] < 256 /\ BlockSize(c.depth) \in Nat \ {0}
<1>1. Width[c.depth] \in Nat \ {0} /\ Width[c.depth] < 256 /\ Rows \in Nat \ {0}
  BY CommandIs, MDECFacts
<1>2. QED
  BY <1>1 DEF BlockSize

\* The words left of a command, and the counter that says it.
WordsLeft(k) == (k + 1) % (Spent + 1)

LEMMA CounterSteps ==
  /\ \A n \in 1..Spent : (n - 1) % (Spent + 1) = n - 1 /\ n - 1 \in Counters /\ n - 1 # Spent /\ WordsLeft(n - 1) = n
  /\ \A k \in Counters : k # Spent => /\ (k - 1) % (Spent + 1) \in Counters
                                      /\ WordsLeft(k) = k + 1 /\ WordsLeft((k - 1) % (Spent + 1)) = k
  /\ Spent \in Counters /\ WordsLeft(Spent) = 0
<1>1. Spent \in Nat /\ Spent > 0
  BY DEF Spent
<1>2. \A n \in 1..Spent : (n - 1) % (Spent + 1) = n - 1 /\ n - 1 \in Counters /\ n - 1 # Spent /\ WordsLeft(n - 1) = n
  BY <1>1 DEF Counters, WordsLeft
<1>3. ASSUME NEW k \in Counters, k # Spent
      PROVE  /\ (k - 1) % (Spent + 1) \in Counters
             /\ WordsLeft(k) = k + 1 /\ WordsLeft((k - 1) % (Spent + 1)) = k
  <2>1. CASE k = 0
    <3>1. (k - 1) % (Spent + 1) = Spent
      BY <1>1, <2>1
    <3>2. QED
      BY <1>1, <2>1, <3>1 DEF Counters, WordsLeft
  <2>2. CASE k # 0
    <3>1. (k - 1) % (Spent + 1) = k - 1
      BY <1>1, <2>2 DEF Counters
    <3>2. QED
      BY <1>1, <1>3, <2>2, <3>1 DEF Counters, WordsLeft
  <2>3. QED
    BY <2>1, <2>2
<1>4. Spent \in Counters /\ WordsLeft(Spent) = 0
  BY <1>1 DEF Counters, WordsLeft
<1>5. QED
  BY <1>2, <1>3, <1>4

\* The words of the next block.
Block(m, n) == [i \in 1..n |-> [block |-> m.encoded, at |-> i - 1]]

LEMMA BlockIsPixels ==
  ASSUME NEW m, WellMade(m), NEW n \in Nat
  PROVE  /\ Block(m, n) \in Seq(Pixels) /\ Len(Block(m, n)) = n
         /\ \A i \in 1..n : Block(m, n)[i] = [block |-> m.encoded, at |-> i - 1]
<1> DEFINE e(i) == [block |-> m.encoded, at |-> i - 1]
<1>1. \A i \in 1..n : e(i) \in Pixels
  BY DEF WellMade, Pixels
<1>2. Block(m, n) = [i \in 1..n |-> e(i)]
  BY DEF Block
<1>3. \A i \in 1..n : Block(m, n)[i] = e(i)
  BY <1>2
<1>4. [i \in 1..n |-> e(i)] \in Seq(Pixels) /\ Len([i \in 1..n |-> e(i)]) = n
  <2> HIDE DEF e
  <2>1. QED
    BY <1>1, IsASeq
<1>5. QED
  BY <1>2, <1>3, <1>4

LEMMA BlockGoesOn ==
  ASSUME NEW c \in Commands, NEW e \in Nat, NEW i \in 1..BlockSize(c.depth)
  PROVE  Pixel(c.depth, e * BlockSize(c.depth) + i - 1) = [block |-> e, at |-> i - 1]
<1>1. PICK n \in Nat \ {0} : n = BlockSize(c.depth)
  BY CommandDepth
<1>2. PICK r \in 0..(n - 1) : r = i - 1
  BY <1>1
<1>3. PICK k \in Nat : k = n * e + r
  BY <1>1, <1>2
<1>4. k \div n = e /\ k % n = r
  BY <1>3, DivisionIsUnique
<1>5. e * BlockSize(c.depth) + i - 1 = k
  <2>1. e * n = n * e /\ n * e \in Nat
    OBVIOUS
  <2>2. QED
    BY <1>1, <1>2, <1>3, <2>1
<1>6. QED
  BY <1>1, <1>2, <1>4, <1>5 DEF Pixel

------------------------------------------------------------------------------
(* The words of a command.                                                  *)

\* Taking a word leaves one less.
LEMMA SuppliedTail ==
  ASSUME NEW m, WellMade(m), m.InFIFO # <<>>, NEW g, NEW n \in Nat, Supplied(m, g, n),
         NEW r, r.InFIFO = Tail(m.InFIFO), NEW k \in Nat, k = IF n = 0 THEN 0 ELSE n - 1
  PROVE  /\ Supplied(r, g, k)
         /\ Head(m.InFIFO) = IF g.command.op = 1 /\ n > 0 THEN Head(m.InFIFO) ELSE Padding
         /\ g.command.op = 1 /\ n > 0 => Head(m.InFIFO) \in Data
<1>1. /\ Len(m.InFIFO) \in Nat /\ Len(m.InFIFO) > 0 /\ Head(m.InFIFO) = m.InFIFO[1]
      /\ Len(r.InFIFO) = Len(m.InFIFO) - 1
      /\ \A i \in 1..Len(r.InFIFO) : r.InFIFO[i] = m.InFIFO[i + 1]
  <2>1. m.InFIFO \in Seq(FIFOWords)
    BY DEF WellMade
  <2>2. QED
    BY <2>1, HeadTailProperties, LenProperties, EmptySeq
<1>2. 1 \in 1..Len(m.InFIFO) /\ \A i \in 1..Len(r.InFIFO) : i + 1 \in 1..Len(m.InFIFO)
  BY <1>1
<1>3. CASE g.command.op = 1
  <2>1. /\ g.left = IF n >= Len(m.InFIFO) THEN n - Len(m.InFIFO) ELSE 0
        /\ \A i \in 1..Len(m.InFIFO) : IF i <= n THEN m.InFIFO[i] \in Data ELSE m.InFIFO[i] = Padding
    BY <1>3 DEF Supplied
  <2>2. g.left = IF k >= Len(r.InFIFO) THEN k - Len(r.InFIFO) ELSE 0
    <3>1. CASE n >= Len(m.InFIFO)
      <4>1. n # 0
        BY <1>1, <3>1
      <4>2. k = n - 1
        BY <4>1
      <4>3. k >= Len(r.InFIFO) /\ k - Len(r.InFIFO) = n - Len(m.InFIFO)
        <5>1. ASSUME NEW a \in Nat, NEW b, b = a - 1, n >= a PROVE k >= b /\ k - b = n - a
          BY <4>2, <5>1
        <5>2. QED
          BY <1>1, <3>1, <5>1
      <4>4. QED
        BY <2>1, <3>1, <4>3
    <3>2. CASE ~(n >= Len(m.InFIFO))
      <4>1. k >= Len(r.InFIFO) => k - Len(r.InFIFO) = 0
        BY <1>1, <3>2
      <4>2. g.left = 0
        BY <2>1, <3>2
      <4>3. QED
        BY <4>1, <4>2
    <3>3. QED
      BY <3>1, <3>2
  <2>3. ASSUME NEW i \in 1..Len(r.InFIFO)
        PROVE  IF i <= k THEN r.InFIFO[i] \in Data ELSE r.InFIFO[i] = Padding
    <3>1. i + 1 \in 1..Len(m.InFIFO) /\ r.InFIFO[i] = m.InFIFO[i + 1]
      BY <1>1, <1>2
    <3>2. i <= k <=> i + 1 <= n
      BY <1>1
    <3>3. QED
      BY <2>1, <3>1, <3>2
  <2>4. n = 0 => m.InFIFO[1] = Padding
    BY <1>2, <2>1
  <2>5. n > 0 => m.InFIFO[1] \in Data
    BY <1>2, <2>1
  <2>6. Supplied(r, g, k)
    BY <1>3, <2>2, <2>3 DEF Supplied
  <2>7. QED
    BY <1>1, <1>3, <2>4, <2>5, <2>6
<1>4. CASE g.command.op # 1
  <2>1. \A i \in 1..Len(m.InFIFO) : m.InFIFO[i] = Padding
    BY <1>4 DEF Supplied
  <2>2. \A i \in 1..Len(r.InFIFO) : r.InFIFO[i] = Padding
    BY <1>1, <1>2, <2>1
  <2>3. QED
    BY <1>1, <1>2, <1>4, <2>1, <2>2 DEF Supplied
<1>5. QED
  BY <1>3, <1>4

\* What there is of a picture goes on, if the output and what is to come of a block do.
LEMMA StreamStays ==
  ASSUME NEW m, NEW r, NEW co, NEW g, Streams(m, co, g),
         r.OutFIFO = m.OutFIFO, r.encoded = m.encoded, SameRows(m, r), ToGive(r) = ToGive(m),
         \A i \in 1..ToGive(m) : r.pixels[Given(r) + i] = m.pixels[Given(m) + i]
  PROVE  Streams(r, co, g)
<1>1. InStream(m, g) => InStream(r, g)
  BY Zenon DEF InStream
<1>2. InRow(m, g) => InRow(r, g)
  BY Zenon DEF InRow, SameRows
<1>3. QED
  BY <1>1, <1>2, Zenon DEF Streams

\* Between two words nothing of a block is left.
LEMMA NothingToGive ==
  ASSUME NEW m, m.phase \in {"command", "begin", "word"} PROVE ToGive(m) = 0
BY DEF ToGive

LEMMA StreamWaits ==
  ASSUME NEW m, NEW r, NEW co, NEW g, Streams(m, co, g),
         r.OutFIFO = m.OutFIFO, r.encoded = m.encoded, SameRows(m, r),
         m.phase \in {"command", "begin", "word"}, r.phase \in {"command", "begin", "word"}
  PROVE  Streams(r, co, g)
<1>1. ToGive(m) = 0 /\ ToGive(r) = 0
  BY NothingToGive
<1>2. QED
  BY <1>1, StreamStays

\* An input that got shorter, an output that did not.
LEMMA StaysLinked ==
  ASSUME NEW m, NEW ci, NEW co, NEW g, Linked(m, ci, co, g), NEW r,
         Len(r.InFIFO) <= Len(m.InFIFO), Len(m.OutFIFO) <= Len(r.OutFIFO) \/ co.WordCounter = 0,
         Len(r.InFIFO) \in Nat, Len(m.InFIFO) \in Nat, Len(r.OutFIFO) \in Nat, Len(m.OutFIFO) \in Nat,
         ci \in ChannelStates, co \in ChannelStates
  PROVE  Linked(r, ci, co, g)
<1>1. ci.WordCounter \in Nat /\ co.WordCounter \in Nat
  BY MDECFacts DEF ChannelStates
<1>2. Size \in Nat
  BY MDECFacts
<1>3. ci.WordCounter + Len(m.InFIFO) <= Size => ci.WordCounter + Len(r.InFIFO) <= Size
  BY <1>1, <1>2
<1>4. co.WordCounter <= Len(m.OutFIFO) => co.WordCounter <= Len(r.OutFIFO)
  BY <1>1
<1>5. QED
  BY <1>3, <1>4, Zenon DEF Linked

------------------------------------------------------------------------------
(* The coroutine, from one wait to the next.                                *)

\* What a step of it is taken from, and what it must keep.
Busy(m, ci, co, g, p) == Typed(m, ci, co, g) /\ Core(m, ci, co, g, p) /\ g.at = "busy"
Kept(r, ci, co, g, p) == Typed(r, ci, co, g) /\ Core(r, ci, co, g, p)

LEMMA KeptIf ==
  ASSUME NEW m, NEW r, NEW ci, NEW co, NEW g, NEW p, Busy(m, ci, co, g, p),
         WellMade(r), Told(r), Len(r.InFIFO) <= Len(m.InFIFO),
         Len(m.OutFIFO) <= Len(r.OutFIFO) \/ co.WordCounter = 0,
         \/ Begun(r, co, g)
         \/ Works(r, g) /\ Streams(r, co, g)
         \/ Over(r, g) /\ Streams(r, co, g)
  PROVE  Kept(r, ci, co, g, p)
<1>1. WellMade(m) /\ ci \in ChannelStates /\ co \in ChannelStates /\ Linked(m, ci, co, g) /\ g.at = "busy"
      /\ Pictured(co, g, p)
  BY DEF Busy, Typed, Core
<1>2. Len(r.InFIFO) \in Nat /\ Len(m.InFIFO) \in Nat /\ Len(r.OutFIFO) \in Nat /\ Len(m.OutFIFO) \in Nat
  BY <1>1, LenProperties DEF WellMade
<1>3. Linked(r, ci, co, g)
  BY <1>1, <1>2, StaysLinked
<1>4. Resting(r, g)
  BY <1>1 DEF Resting
<1>5. Typed(r, ci, co, g)
  BY DEF Busy, Typed
<1>6. Fed(r, ci, co, g)
  BY DEF Fed
<1>7. QED
  BY <1>1, <1>3, <1>4, <1>5, <1>6 DEF Kept, Core

LEMMA TakeCommandKeeps ==
  ASSUME NEW m, NEW ci, NEW co, NEW g, NEW p, Busy(m, ci, co, g, p), m.phase = "command", m.InFIFO # <<>>
  PROVE  Kept(TakeCommand(m), ci, co, g, p)
<1> DEFINE r == TakeCommand(m)
<1>1. WellMade(m) /\ Shape(m) /\ g.command \in Commands /\ Fed(m, ci, co, g) /\ g.at = "busy"
  BY DEF Busy, Typed, WellMade, Core
<1>2. /\ Shape(r) /\ r.InFIFO = Tail(m.InFIFO) /\ r.Command = AsCommand(Head(m.InFIFO)) /\ r.InCommand = TRUE
      /\ r.phase = "begin" /\ SamePixels(m, r) /\ SameRows(m, r) /\ r.OutFIFO = m.OutFIFO
      /\ r.InCounter = m.InCounter
  BY <1>1, FieldNames DEF Shape, TakeCommand, SamePixels, SameRows
<1> HIDE DEF r
<1>3. m.InFIFO \in Seq(FIFOWords) /\ Tail(m.InFIFO) \in Seq(FIFOWords) /\ Len(r.InFIFO) <= Len(m.InFIFO)
  <2>1. m.InFIFO \in Seq(FIFOWords)
    BY <1>1 DEF WellMade
  <2>2. Tail(m.InFIFO) \in Seq(FIFOWords) /\ Len(Tail(m.InFIFO)) = Len(m.InFIFO) - 1 /\ Len(m.InFIFO) \in Nat
    BY <2>1, HeadTailProperties, LenProperties
  <2>3. QED
    BY <1>2, <2>1, <2>2
<1>4. WellMade(r) /\ Told(r)
  BY <1>1, <1>2, <1>3 DEF WellMade, SamePixels, Told
<1>5. Len(r.OutFIFO) = Len(m.OutFIFO) /\ Len(m.OutFIFO) \in Nat
  BY <1>1, <1>2, LenProperties DEF WellMade
<1>6. CASE Sent(m, ci, co, g)
  <2>1. m.InFIFO = <<g.command>> /\ g.left = WordsOf(g.command) /\ Unread(m, co, g)
    BY <1>6 DEF Sent
  <2>2. Head(m.InFIFO) = g.command /\ Tail(m.InFIFO) = <<>>
    BY <2>1
  <2>3. g.command # Padding /\ WordsOf(g.command) \in Nat
    BY <1>1, CommandIs, MDECFacts
  <2>4. r.Command = g.command /\ r.InFIFO = <<>>
    BY <1>2, <2>2, <2>3 DEF AsCommand
  <2>5. Supplied(r, g, WordsOf(g.command))
    BY <2>1, <2>3, <2>4 DEF Supplied
  <2>6. Unread(r, co, g)
    BY <1>2, <2>1 DEF Unread
  <2>7. Begun(r, co, g)
    BY <1>2, <2>4, <2>5, <2>6 DEF Begun
  <2>8. QED
    BY <1>3, <1>4, <1>5, <2>7, KeptIf DEF r
<1>7. CASE Over(m, g) /\ Streams(m, co, g)
  <2>1. Supplied(m, g, 0)
    BY <1>7 DEF Over
  <2>2. Supplied(r, g, 0) /\ Head(m.InFIFO) = Padding
    BY <1>1, <1>2, <2>1, SuppliedTail
  <2>3. r.Command = AsCommand(Padding)
    BY <1>2, <2>2
  <2>4. Over(r, g)
    BY <1>2, <1>7, <2>2, <2>3 DEF Over
  <2>5. Streams(r, co, g)
    BY <1>2, <1>7, StreamWaits DEF SamePixels
  <2>6. QED
    BY <1>3, <1>4, <1>5, <2>4, <2>5, KeptIf DEF r
<1>8. ~Begun(m, co, g) /\ ~Works(m, g)
  BY DEF Begun, Works
<1>9. QED
  BY <1>1, <1>6, <1>7, <1>8 DEF Fed, r

LEMMA BeginCommandKeeps ==
  ASSUME NEW m, NEW ci, NEW co, NEW g, NEW p, Busy(m, ci, co, g, p), m.phase = "begin"
  PROVE  Kept(BeginCommand(m), ci, co, g, p)
<1> DEFINE r == BeginCommand(m)
           c == g.command
<1>1. /\ WellMade(m) /\ Shape(m) /\ c \in Commands /\ Fed(m, ci, co, g) /\ g.at = "busy" /\ Told(m)
      /\ g \in Games /\ m.OutFIFO \in Seq(Pixels)
  BY DEF Busy, Typed, WellMade, Core
<1>2. Len(m.InFIFO) \in Nat /\ Len(m.OutFIFO) \in Nat
  BY <1>1, LenProperties DEF WellMade
<1>3. /\ c.op \in {1, 2, 3} /\ c.depth \in 0..3
      /\ WordsOf(c) \in 1..Spent /\ (c.op = 1 => WordsOf(c) = c.count)
      /\ Width[c.depth] \in Nat \ {0} /\ BlockSize(c.depth) \in Nat \ {0}
  BY <1>1, CommandIs, CommandDepth
<1>4. <<>> \in Seq(Pixels) /\ Len(<<>>) = 0
  OBVIOUS
<1>5. CASE Begun(m, co, g) /\ c.op = 1
  <2> DEFINE width == IF c.depth >= 2 THEN Width[c.depth] ELSE 0
  <2>1. m.Command = c /\ Supplied(m, g, WordsOf(c)) /\ Unread(m, co, g)
    BY <1>5 DEF Begun
  <2>2. r = [m EXCEPT !.InCounter = (WordsOf(c) - 1) % (Spent + 1), !.OutFIFO = <<>>, !.pixels = <<>>,
                      !.CoeffIndex = 0, !.DecodeWB = FirstBlock(c), !.RAMOffsetWWS = width,
                      !.RAMOffsetY = 0, !.RAMOffsetCounter = width, !.encoded = 0, !.phase = "word"]
    BY <1>5, <2>1 DEF BeginCommand
  <2> HIDE DEF r, width
  <2>3. /\ Shape(r) /\ r.InFIFO = m.InFIFO /\ r.InCounter = (WordsOf(c) - 1) % (Spent + 1)
        /\ r.OutFIFO = <<>> /\ r.pixels = <<>> /\ r.encoded = 0 /\ r.phase = "word"
        /\ r.Command = c /\ r.InCommand = m.InCommand /\ r.ReadOffset = m.ReadOffset
        /\ r.RAMOffsetWWS = width /\ r.RAMOffsetCounter = width /\ r.RAMOffsetY = 0
    BY <1>1, <2>1, <2>2, FieldNames DEF Shape
  <2>4. r.InCounter \in Counters /\ r.InCounter # Spent /\ WordsLeft(r.InCounter) = WordsOf(c)
    BY <1>3, <2>3, CounterSteps
  <2>5. WellMade(r) /\ Told(r)
    BY <1>1, <1>4, <2>3, <2>4 DEF WellMade, Told
  <2>6. Supplied(r, g, WordsOf(c))
    BY <2>1, <2>3, Zenon DEF Supplied
  <2>7. Works(r, g)
    BY <1>5, <2>3, <2>4, <2>6 DEF Works, WordsLeft
  <2>8. g.moved = 0 /\ co.WordCounter = 0
    BY <2>1 DEF Unread
  <2>9. InStream(r, g)
    <3>1. ToGive(r) = 0
      BY <2>3, NothingToGive
    <3>2. 0 * BlockSize(c.depth) = 0
      BY <1>3
    <3>3. QED
      BY <1>4, <2>3, <2>8, <3>1, <3>2 DEF InStream
  <2>10. InRow(r, g)
    <3>1. CASE c.depth < 2
      BY <1>3, <2>3, <3>1 DEF InRow, width
    <3>2. CASE ~(c.depth < 2)
      <4>1. 0 % Width[c.depth] = 0 /\ 0 \div Width[c.depth] = 0 /\ 0 % 256 = 0
        BY <1>3
      <4>2. r.RAMOffsetWWS = Width[c.depth] /\ r.RAMOffsetCounter = Width[c.depth] /\ r.RAMOffsetY = 0
        BY <1>3, <2>3, <3>2 DEF width
      <4>3. Width[c.depth] - 0 = Width[c.depth]
        BY <1>3
      <4>4. QED
        BY <2>8, <3>2, <4>1, <4>2, <4>3 DEF InRow
    <3>3. QED
      BY <3>1, <3>2
  <2>11. Streams(r, co, g)
    BY <2>9, <2>10 DEF Streams
  <2>12. QED
    BY <1>2, <2>3, <2>5, <2>7, <2>8, <2>11, KeptIf DEF r
<1>6. CASE Begun(m, co, g) /\ c.op # 1
  <2>1. m.Command = c /\ Supplied(m, g, WordsOf(c)) /\ Unread(m, co, g) /\ c.op \in {2, 3}
    BY <1>3, <1>6 DEF Begun
  <2>2. r = [m EXCEPT !.InCounter = WordsOf(c) - 1, !.phase = "word"]
    <3>1. c.op \in {2, 3} /\ c.op # 1
      BY <1>6, <2>1
    <3>2. QED
      BY <2>1, <3>1 DEF BeginCommand
  <2> HIDE DEF r
  <2>3. /\ Shape(r) /\ r.InFIFO = m.InFIFO /\ r.InCounter = WordsOf(c) - 1
        /\ r.OutFIFO = m.OutFIFO /\ r.phase = "word" /\ SamePixels(m, r)
        /\ r.Command = c /\ r.InCommand = m.InCommand
    BY <1>1, <2>1, <2>2, FieldNames DEF Shape, SamePixels
  <2>4. r.InCounter \in Counters /\ r.InCounter # Spent
    BY <1>3, <2>3, CounterSteps
  <2>5. WellMade(r) /\ Told(r)
    BY <1>1, <2>3, <2>4 DEF WellMade, Told, SamePixels
  <2>6. Supplied(r, g, (r.InCounter + 1) % (Spent + 1))
    BY <1>6, <2>1, <2>3, Zenon DEF Supplied
  <2>7. Works(r, g)
    BY <1>6, <2>1, <2>3, <2>4, <2>6 DEF Works, Unread
  <2>8. Streams(r, co, g)
    BY <1>6 DEF Streams
  <2>9. QED
    BY <1>2, <2>3, <2>5, <2>7, <2>8, KeptIf DEF r
<1>7. CASE Over(m, g) /\ Streams(m, co, g)
  <2> DEFINE k == AsCommand(Padding)
  <2>1. m.Command = k /\ Supplied(m, g, 0)
    BY <1>7 DEF Over
  <2>2. k.op = 7 /\ WordsOf(k) = 65024
    BY DEF AsCommand, WordsOf
  <2> HIDE DEF k
  <2>3. r = NextCommand([m EXCEPT !.InCounter = WordsOf(k)])
    BY <2>1, <2>2 DEF BeginCommand
  <2> HIDE DEF r
  <2>4. /\ Shape(r) /\ r.InFIFO = m.InFIFO /\ r.InCounter = WordsOf(k)
        /\ r.OutFIFO = m.OutFIFO /\ r.phase = "command" /\ SamePixels(m, r) /\ SameRows(m, r)
        /\ r.InCommand = FALSE
    BY <1>1, <2>3, FieldNames DEF Shape, NextCommand, SamePixels, SameRows
  <2>5. WordsOf(k) \in Counters
    BY <2>2 DEF Counters, Spent
  <2>6. WellMade(r) /\ Told(r)
    BY <1>1, <2>4, <2>5 DEF WellMade, Told, SamePixels
  <2>7. Supplied(r, g, 0)
    BY <2>1, <2>4, Zenon DEF Supplied
  <2>8. Over(r, g)
    BY <1>7, <2>4, <2>7 DEF Over
  <2>9. Streams(r, co, g)
    BY <1>7, <2>4, StreamWaits DEF SamePixels
  <2>10. QED
    BY <1>2, <2>4, <2>6, <2>8, <2>9, KeptIf DEF r
<1>8. ~Sent(m, ci, co, g) /\ ~Works(m, g)
  BY DEF Sent, Works
<1>9. QED
  BY <1>1, <1>5, <1>6, <1>7, <1>8 DEF Fed, r

\* A half word changes the block and what is known of it, and encodes a block only if it is
\* not the block's first.
HalfWord(m, r) ==
  /\ Shape(r) /\ SameInput(m, r) /\ SameStage(m, r) /\ SameRows(m, r) /\ r.OutFIFO = m.OutFIFO
  /\ r.ReadOffset = m.ReadOffset
Encodes(m, r) == r.pixels = Block(m, BlockWords(m)) /\ r.encoded = m.encoded + 1
Skips(m, r)   == r.pixels = m.pixels /\ r.encoded = m.encoded

LEMMA WriteImageDataDoes ==
  ASSUME NEW m, Shape(m), NEW v
  PROVE  /\ HalfWord(m, WriteImageData(m, v))
         /\ \/ Skips(m, WriteImageData(m, v))
            \/ Encodes(m, WriteImageData(m, v)) /\ m.CoeffIndex # 0 /\ WriteImageData(m, v).CoeffIndex = 0
<1> DEFINE index == IndexAfter(m.CoeffIndex, v)
           done  == [m EXCEPT !.CoeffIndex = 0, !.need_eat = @ + BlockClocks]
           shown == IF m.DecodeWB >= 2 THEN EncodeImage(done) ELSE done
           last  == [shown EXCEPT !.DecodeWB = NextBlock(m)]
           r     == WriteImageData(m, v)
<1>1. m.CoeffIndex = 0 => index < Coeffs
  <2>1. m.CoeffIndex = 0 => index = 0 \/ index = 1
    BY DEF IndexAfter
  <2>2. 0 < Coeffs /\ 1 < Coeffs
    BY MDECFacts
  <2> HIDE DEF index
  <2>3. QED
    BY <2>1, <2>2
<1>2. r = IF index < Coeffs THEN [m EXCEPT !.CoeffIndex = index] ELSE last
  BY DEF WriteImageData
<1>3. HalfWord(m, done) /\ Skips(m, done) /\ done.CoeffIndex = 0
  BY FieldNames DEF Shape, HalfWord, Skips, SameInput, SameStage, SameRows
<1> HIDE DEF index, r, done
<1>4. CASE index < Coeffs
  <2>1. r = [m EXCEPT !.CoeffIndex = index]
    BY <1>2, <1>4
  <2>2. HalfWord(m, r) /\ Skips(m, r)
    BY <2>1, FieldNames DEF Shape, HalfWord, Skips, SameInput, SameStage, SameRows
  <2>3. QED
    BY <2>2 DEF r
<1>5. CASE ~(index < Coeffs)
  <2>1. HalfWord(m, shown) /\ shown.CoeffIndex = 0 /\ (Skips(m, shown) \/ Encodes(m, shown))
    <3>1. CASE m.DecodeWB >= 2
      <4>1. shown = [done EXCEPT !.pixels = Block(done, BlockWords(done)), !.encoded = @ + 1]
        BY <3>1 DEF EncodeImage, Block
      <4>2. done.encoded = m.encoded /\ done.Command = m.Command
        BY <1>3 DEF HalfWord, Skips, SameStage
      <4>3. Block(done, BlockWords(done)) = Block(m, BlockWords(m))
        BY <4>2, Zenon DEF Block, BlockWords
      <4> HIDE DEF shown
      <4>4. /\ Shape(shown) /\ SameInput(done, shown) /\ SameStage(done, shown) /\ SameRows(done, shown)
            /\ shown.OutFIFO = done.OutFIFO /\ shown.ReadOffset = done.ReadOffset
            /\ shown.pixels = Block(done, BlockWords(done)) /\ shown.encoded = done.encoded + 1
            /\ shown.CoeffIndex = done.CoeffIndex
        BY <1>3, <4>1, FieldNames DEF Shape, HalfWord, SameInput, SameStage, SameRows
      <4>5. HalfWord(m, shown)
        BY <1>3, <4>4, Zenon DEF HalfWord, SameInput, SameStage, SameRows
      <4>6. QED
        BY <1>3, <4>2, <4>3, <4>4, <4>5, Zenon DEF Encodes
    <3>2. CASE ~(m.DecodeWB >= 2)
      BY <1>3, <3>2
    <3>3. QED
      BY <3>1, <3>2
  <2> HIDE DEF shown
  <2>2. /\ HalfWord(shown, last) /\ Skips(shown, last) /\ last.CoeffIndex = shown.CoeffIndex
    BY <2>1, FieldNames DEF Shape, HalfWord, Skips, SameInput, SameStage, SameRows
  <2>3. r = last
    BY <1>2, <1>5
  <2> HIDE DEF last
  <2>4. HalfWord(m, r) /\ r.CoeffIndex = 0
    BY <2>1, <2>2, <2>3, Zenon DEF HalfWord, SameInput, SameStage, SameRows
  <2>5. Skips(m, r) \/ Encodes(m, r)
    BY <2>1, <2>2, <2>3, Zenon DEF Skips, Encodes
  <2>6. QED
    BY <1>1, <1>5, <2>4, <2>5 DEF r
<1>6. QED
  BY <1>4, <1>5

\* A word encodes one block at most.
LEMMA WordCodes ==
  ASSUME NEW m, Shape(m), NEW v, NEW w, NEW r, r = WriteImageData(WriteImageData(m, v), w)
  PROVE  HalfWord(m, r) /\ (Skips(m, r) \/ Encodes(m, r))
<1> DEFINE h == WriteImageData(m, v)
<1>1. HalfWord(m, h) /\ (Skips(m, h) \/ (Encodes(m, h) /\ h.CoeffIndex = 0))
  BY WriteImageDataDoes
<1> HIDE DEF h
<1>2. HalfWord(h, r) /\ (Skips(h, r) \/ (Encodes(h, r) /\ h.CoeffIndex # 0))
  BY <1>1, WriteImageDataDoes DEF HalfWord, h
<1>3. HalfWord(m, r)
  BY <1>1, <1>2, Zenon DEF HalfWord, SameInput, SameStage, SameRows
<1>4. CASE Skips(m, h)
  <2>1. h.encoded = m.encoded /\ h.Command = m.Command
    BY <1>1, <1>4 DEF HalfWord, SameStage, Skips
  <2>2. Block(h, BlockWords(h)) = Block(m, BlockWords(m))
    BY <2>1, Zenon DEF Block, BlockWords
  <2>3. Encodes(h, r) => Encodes(m, r)
    BY <2>1, <2>2, Zenon DEF Encodes
  <2>4. Skips(h, r) => Skips(m, r)
    BY <1>4, Zenon DEF Skips
  <2>5. QED
    BY <1>2, <1>3, <2>3, <2>4
<1>5. CASE Encodes(m, h) /\ h.CoeffIndex = 0
  <2>1. Skips(h, r)
    BY <1>2, <1>5
  <2>2. Encodes(m, r)
    BY <1>5, <2>1, Zenon DEF Encodes, Skips
  <2>3. QED
    BY <1>3, <2>2
<1>6. QED
  BY <1>1, <1>4, <1>5

LEMMA NextWordDoes ==
  ASSUME NEW m, Shape(m)
  PROVE  /\ Shape(NextWord(m)) /\ SameInput(m, NextWord(m)) /\ SamePixels(m, NextWord(m))
         /\ SameRows(m, NextWord(m)) /\ NextWord(m).OutFIFO = m.OutFIFO /\ NextWord(m).Command = m.Command
         /\ m.InCounter = Spent => NextWord(m).phase = "command" /\ NextWord(m).InCommand = FALSE
         /\ m.InCounter # Spent => NextWord(m).phase = "word" /\ NextWord(m).InCommand = m.InCommand
<1>1. CASE m.InCounter = Spent
  <2>1. NextWord(m) = [m EXCEPT !.phase = "command", !.InCommand = FALSE]
    BY <1>1 DEF NextWord, NextCommand
  <2>2. QED
    BY <1>1, <2>1, FieldNames DEF Shape, SameInput, SamePixels, SameRows
<1>2. CASE m.InCounter # Spent
  <2>1. NextWord(m) = [m EXCEPT !.phase = "word"]
    BY <1>2 DEF NextWord
  <2>2. QED
    BY <1>2, <2>1, FieldNames DEF Shape, SameInput, SamePixels, SameRows
<1>3. QED
  BY <1>1, <1>2

LEMMA TakeWordKeeps ==
  ASSUME NEW m, NEW ci, NEW co, NEW g, NEW p, Busy(m, ci, co, g, p), m.phase = "word", m.InFIFO # <<>>
  PROVE  Kept(TakeWord(m), ci, co, g, p)
<1> DEFINE r     == TakeWord(m)
           c     == g.command
           taken == [m EXCEPT !.InFIFO = Tail(@), !.InCounter = (@ - 1) % (Spent + 1)]
           clear == [taken EXCEPT !.need_eat = 0, !.pixels = <<>>]
           word  == Head(m.InFIFO)
           coded == WriteImageData(WriteImageData(clear, word.lo), word.hi)
<1>1. /\ WellMade(m) /\ Shape(m) /\ c \in Commands /\ Fed(m, ci, co, g) /\ g.at = "busy" /\ Told(m)
      /\ g \in Games /\ m.InFIFO \in Seq(FIFOWords) /\ m.InCounter \in Counters
  BY DEF Busy, Typed, WellMade, Core
<1>2. Works(m, g) /\ Streams(m, co, g)
  BY <1>1 DEF Fed, Sent, Begun, Over
<1>3. /\ Tail(m.InFIFO) \in Seq(FIFOWords) /\ Len(Tail(m.InFIFO)) = Len(m.InFIFO) - 1 /\ Len(m.InFIFO) \in Nat
      /\ Len(m.OutFIFO) \in Nat
  BY <1>1, HeadTailProperties, LenProperties DEF WellMade
<1>4. /\ m.Command = c /\ m.InCounter # Spent
      /\ Supplied(m, g, WordsLeft(m.InCounter)) /\ (c.op # 1 => Len(m.OutFIFO) < Size)
  BY <1>2 DEF Works, WordsLeft
<1> DEFINE k == (m.InCounter - 1) % (Spent + 1)
<1>5. /\ k \in Counters /\ WordsLeft(k) = m.InCounter
      /\ WordsLeft(m.InCounter) = m.InCounter + 1 /\ m.InCounter \in Nat
  BY <1>1, <1>4, CounterSteps DEF Counters
<1>6. r = IF m.Command.op # 1 THEN NextWord(taken)
          ELSE [coded EXCEPT !.ClockCounter = @ - coded.need_eat, !.need_eat = 0, !.phase = "eat"]
  BY DEF TakeWord
<1>7. /\ Shape(taken) /\ taken.InFIFO = Tail(m.InFIFO) /\ taken.InCounter = k /\ SameStage(m, taken)
      /\ SamePixels(m, taken) /\ SameRows(m, taken) /\ taken.OutFIFO = m.OutFIFO
  BY <1>1, FieldNames DEF Shape, SameStage, SamePixels, SameRows
<1> HIDE DEF taken
<1>8. /\ Shape(clear) /\ clear.InFIFO = Tail(m.InFIFO) /\ clear.InCounter = k /\ SameStage(m, clear)
      /\ clear.pixels = <<>> /\ clear.encoded = m.encoded /\ clear.ReadOffset = m.ReadOffset
      /\ SameRows(m, clear) /\ clear.OutFIFO = m.OutFIFO
  BY <1>7, FieldNames DEF Shape, SameStage, SamePixels, SameRows
<1>9. ASSUME NEW x, x.InFIFO = Tail(m.InFIFO) PROVE Supplied(x, g, m.InCounter)
  <2>1. m.InCounter = IF WordsLeft(m.InCounter) = 0 THEN 0 ELSE WordsLeft(m.InCounter) - 1
    BY <1>5
  <2>2. WordsLeft(m.InCounter) \in Nat
    BY <1>5
  <2>3. QED
    BY <1>1, <1>4, <1>5, <1>9, <2>1, <2>2, SuppliedTail
<1> HIDE DEF r, k
<1>10. CASE c.op # 1
  <2>1. r = NextWord(taken)
    BY <1>4, <1>6, <1>10
  <2>2. /\ Shape(r) /\ SameInput(taken, r) /\ SamePixels(taken, r) /\ r.OutFIFO = taken.OutFIFO
        /\ r.Command = taken.Command
        /\ k = Spent => r.phase = "command" /\ r.InCommand = FALSE
        /\ k # Spent => r.phase = "word" /\ r.InCommand = taken.InCommand
    BY <1>7, <2>1, NextWordDoes
  <2>3. /\ r.InFIFO = Tail(m.InFIFO) /\ r.InCounter = k /\ r.OutFIFO = m.OutFIFO /\ r.Command = c
        /\ SamePixels(m, r)
    BY <1>4, <1>7, <2>2 DEF SameInput, SameStage, SamePixels
  <2>4. WellMade(r)
    BY <1>1, <1>3, <1>5, <2>2, <2>3 DEF WellMade, SamePixels
  <2>5. Told(r)
    BY <1>1, <1>7, <2>2 DEF Told, SameStage
  <2>6. Supplied(r, g, m.InCounter)
    BY <1>9, <2>3
  <2>7. ASSUME NEW n PROVE Supplied(r, g, n)
    BY <1>10, <2>6 DEF Supplied
  <2>8. Works(r, g) \/ Over(r, g)
    BY <1>4, <1>10, <2>2, <2>3, <2>7 DEF Works, Over
  <2>9. Streams(r, co, g)
    BY <1>10 DEF Streams
  <2>10. Len(r.InFIFO) <= Len(m.InFIFO) /\ Len(m.OutFIFO) <= Len(r.OutFIFO)
    BY <1>3, <2>3
  <2>11. QED
    BY <2>4, <2>5, <2>8, <2>9, <2>10, KeptIf DEF r
<1>11. CASE c.op = 1
  <2>1. HalfWord(clear, coded) /\ (Skips(clear, coded) \/ Encodes(clear, coded))
    BY <1>8, WordCodes
  <2>2. r = [coded EXCEPT !.ClockCounter = @ - coded.need_eat, !.need_eat = 0, !.phase = "eat"]
    BY <1>4, <1>6, <1>11
  <2> HIDE DEF coded
  <2>3. /\ Shape(r) /\ SameInput(coded, r) /\ r.InCommand = coded.InCommand /\ r.Command = coded.Command
        /\ SamePixels(coded, r) /\ SameRows(coded, r) /\ r.OutFIFO = coded.OutFIFO /\ r.phase = "eat"
    BY <2>1, <2>2, FieldNames DEF Shape, HalfWord, SameInput, SamePixels, SameRows
  <2> HIDE DEF clear
  <2>4. /\ r.InFIFO = Tail(m.InFIFO) /\ r.InCounter = k /\ r.OutFIFO = m.OutFIFO /\ r.Command = c
        /\ r.InCommand = m.InCommand /\ r.ReadOffset = m.ReadOffset /\ SameRows(m, r)
    BY <1>4, <1>8, <2>1, <2>3, Zenon DEF HalfWord, SameInput, SameStage, SamePixels, SameRows
  <2> DEFINE size == BlockSize(c.depth)
  <2>5. size \in Nat \ {0}
    BY <1>1, CommandDepth
  <2>6. \/ r.pixels = <<>> /\ r.encoded = m.encoded
        \/ r.pixels = Block(m, size) /\ r.encoded = m.encoded + 1
    <3>1. r.pixels = coded.pixels /\ r.encoded = coded.encoded
      BY <2>3 DEF SamePixels
    <3>2. BlockWords(clear) = size
      BY <1>4, <1>8 DEF BlockWords, BlockSize, SameStage
    <3>3. Block(clear, size) = Block(m, size)
      BY <1>8, Zenon DEF Block
    <3>4. QED
      BY <1>8, <2>1, <3>1, <3>2, <3>3, Zenon DEF Skips, Encodes
  <2>7. /\ Block(m, size) \in Seq(Pixels) /\ Len(Block(m, size)) = size
        /\ \A i \in 1..size : Block(m, size)[i] = [block |-> m.encoded, at |-> i - 1]
    BY <1>1, <2>5, BlockIsPixels
  <2>8. r.pixels \in Seq(Pixels) /\ r.encoded \in Nat /\ m.encoded \in Nat
    <3>1. m.encoded \in Nat /\ <<>> \in Seq(Pixels)
      BY <1>1 DEF WellMade
    <3>2. CASE r.pixels = <<>> /\ r.encoded = m.encoded
      BY <3>1, <3>2
    <3>3. CASE r.pixels = Block(m, size) /\ r.encoded = m.encoded + 1
      <4>1. m.encoded + 1 \in Nat
        BY <3>1
      <4>2. QED
        BY <2>7, <3>1, <3>3, <4>1, Zenon
    <3>4. QED
      BY <2>6, <3>2, <3>3
  <2>9. WellMade(r)
    BY <1>1, <1>3, <1>5, <2>3, <2>4, <2>8 DEF WellMade
  <2>10. Told(r)
    BY <1>1, <2>3, <2>4 DEF Told
  <2>11. Supplied(r, g, WordsLeft(r.InCounter))
    BY <1>5, <1>9, <2>4
  <2>12. Works(r, g)
    BY <1>11, <2>3, <2>4, <2>11 DEF Works, WordsLeft
  <2> DEFINE first == g.moved + Len(m.OutFIFO)
  <2>13. InStream(m, g) /\ (co.on => InRow(m, g))
    BY <1>2, <1>11 DEF Streams
  <2>14. /\ m.encoded * size = first
         /\ \A i \in 1..Len(m.OutFIFO) : m.OutFIFO[i] = Pixel(c.depth, g.moved + i - 1)
    <3>1. ToGive(m) = 0 /\ g.moved \in Nat
      BY <1>1, NothingToGive DEF Games
    <3>2. g.moved + Len(m.OutFIFO) + 0 = first
      BY <1>3, <3>1
    <3>3. QED
      BY <2>13, <3>1, <3>2 DEF InStream
  <2>15. Given(r) = 0 /\ ToGive(r) = Len(r.pixels)
    <3>1. Given(r) = 0
      BY <2>3 DEF Given
    <3>2. Len(r.pixels) - 0 = Len(r.pixels)
      BY <2>8, LenProperties
    <3>3. QED
      BY <2>3, <3>1, <3>2 DEF ToGive
  <2>16. ToGive(r) \in Nat /\ r.encoded * size = first + ToGive(r)
         /\ \A i \in 1..ToGive(r) : r.pixels[i] = Pixel(c.depth, first + i - 1)
    <3>1. CASE r.pixels = <<>> /\ r.encoded = m.encoded
      <4>1. ToGive(r) = 0 /\ first \in Int
        BY <1>1, <1>3, <2>15, <3>1 DEF Games
      <4>2. QED
        BY <2>14, <3>1, <4>1
    <3>2. CASE r.pixels = Block(m, size) /\ r.encoded = m.encoded + 1
      <4>1. ToGive(r) = size
        BY <2>7, <2>15, <3>2
      <4>2. (m.encoded + 1) * size = m.encoded * size + size
        BY <2>5, <2>8
      <4>3. ASSUME NEW i \in 1..size PROVE r.pixels[i] = Pixel(c.depth, first + i - 1)
        <5>1. Pixel(c.depth, m.encoded * size + i - 1) = [block |-> m.encoded, at |-> i - 1]
          BY <1>1, <2>8, BlockGoesOn
        <5>2. QED
          BY <2>7, <2>14, <3>2, <5>1
      <4> HIDE DEF size
      <4>4. QED
        BY <2>5, <2>14, <3>2, <4>1, <4>2, <4>3
    <3>3. QED
      BY <2>6, <3>1, <3>2
  <2>17. InStream(r, g)
    <3>1. \A i \in 1..ToGive(r) : r.pixels[Given(r) + i] = Pixel(c.depth, first + i - 1)
      <4>1. ASSUME NEW i \in 1..ToGive(r) PROVE r.pixels[Given(r) + i] = Pixel(c.depth, first + i - 1)
        <5>1. Given(r) + i = i
          BY <2>15, <2>16
        <5>2. QED
          BY <2>16, <5>1
      <4>2. QED
        BY <4>1
    <3>2. ToGive(r) >= 0
      BY <2>16
    <3>3. QED
      BY <2>4, <2>14, <2>16, <3>1, <3>2, Zenon DEF InStream
  <2>18. Streams(r, co, g)
    <3>1. InRow(m, g) => InRow(r, g)
      BY <2>4, Zenon DEF InRow, SameRows
    <3>2. QED
      BY <2>13, <2>17, <3>1 DEF Streams
  <2>19. Len(r.InFIFO) <= Len(m.InFIFO) /\ Len(m.OutFIFO) <= Len(r.OutFIFO)
    BY <1>3, <2>4
  <2>20. QED
    BY <2>9, <2>10, <2>12, <2>18, <2>19, KeptIf DEF r
<1>12. QED
  BY <1>10, <1>11 DEF r

LEMMA EatKeeps ==
  ASSUME NEW m, NEW ci, NEW co, NEW g, NEW p, Busy(m, ci, co, g, p), m.phase = "eat",
         NEW r, r = [m EXCEPT !.ReadOffset = 0, !.phase = "give"]
  PROVE  Kept(r, ci, co, g, p)
<1>1. /\ WellMade(m) /\ Shape(m) /\ Fed(m, ci, co, g) /\ g.at = "busy" /\ Told(m)
  BY DEF Busy, Typed, WellMade, Core
<1>2. Works(m, g) /\ Streams(m, co, g)
  BY <1>1 DEF Fed, Sent, Begun, Over
<1>3. /\ Shape(r) /\ SameInput(m, r) /\ SameRows(m, r) /\ r.OutFIFO = m.OutFIFO /\ r.Command = m.Command
      /\ r.InCommand = m.InCommand /\ r.pixels = m.pixels /\ r.encoded = m.encoded
      /\ r.ReadOffset = 0 /\ r.phase = "give"
  BY <1>1, FieldNames DEF Shape, SameInput, SameRows
<1>4. WellMade(r)
  BY <1>1, <1>3 DEF WellMade, SameInput
<1>5. Told(r)
  BY <1>1, <1>3 DEF Told
<1>6. Works(r, g)
  <2>1. ASSUME NEW n, Supplied(m, g, n) PROVE Supplied(r, g, n)
    BY <1>3, <2>1, Zenon DEF Supplied, SameInput
  <2>2. QED
    BY <1>2, <1>3, <2>1 DEF Works, SameInput
<1>7. Streams(r, co, g)
  <2>1. Given(r) = 0 /\ Given(m) = 0
    BY <1>3 DEF Given
  <2>2. ToGive(r) = ToGive(m)
    BY <1>3, <2>1 DEF ToGive
  <2>3. \A i \in 1..ToGive(m) : r.pixels[Given(r) + i] = m.pixels[Given(m) + i]
    BY <1>3, <2>1
  <2>4. QED
    BY <1>2, <1>3, <2>2, <2>3, StreamStays
<1>8. Len(r.InFIFO) <= Len(m.InFIFO) /\ Len(m.OutFIFO) <= Len(r.OutFIFO)
  <2>1. Len(m.InFIFO) \in Nat /\ Len(m.OutFIFO) \in Nat
    BY <1>1, LenProperties DEF WellMade
  <2>2. QED
    BY <1>3, <2>1 DEF SameInput
<1>9. QED
  BY <1>4, <1>5, <1>6, <1>7, <1>8, KeptIf

\* The end of a word: the next one of the command, or the end of it.
LEMMA NextWordKeeps ==
  ASSUME NEW m, NEW ci, NEW co, NEW g, NEW p, Busy(m, ci, co, g, p), m.phase = "give", ToGive(m) = 0
  PROVE  Kept(NextWord(m), ci, co, g, p)
<1> DEFINE r == NextWord(m)
<1>1. /\ WellMade(m) /\ Shape(m) /\ Fed(m, ci, co, g) /\ g.at = "busy" /\ Told(m)
      /\ m.InCounter \in Counters
  BY DEF Busy, Typed, WellMade, Core
<1>2. Works(m, g) /\ Streams(m, co, g)
  BY <1>1 DEF Fed, Sent, Begun, Over
<1>3. /\ Shape(r) /\ SameInput(m, r) /\ SamePixels(m, r) /\ SameRows(m, r) /\ r.OutFIFO = m.OutFIFO
      /\ r.Command = m.Command
      /\ m.InCounter = Spent => r.phase = "command" /\ r.InCommand = FALSE
      /\ m.InCounter # Spent => r.phase = "word" /\ r.InCommand = m.InCommand
  BY <1>1, NextWordDoes
<1> HIDE DEF r
<1>4. WellMade(r)
  BY <1>1, <1>3 DEF WellMade, SameInput, SamePixels
<1>5. Told(r)
  BY <1>1, <1>3 DEF Told
<1>6. ASSUME NEW n, Supplied(m, g, n) PROVE Supplied(r, g, n)
  BY <1>3, <1>6, Zenon DEF Supplied, SameInput
<1>7. m.Command = g.command /\ Supplied(m, g, WordsLeft(m.InCounter)) /\ g.command.op = 1
  BY <1>2 DEF Works, WordsLeft
<1>8. Works(r, g) \/ Over(r, g)
  <2>1. CASE m.InCounter = Spent
    <3>1. Supplied(r, g, 0)
      BY <1>6, <1>7, <2>1, CounterSteps
    <3>2. QED
      BY <1>3, <1>7, <2>1, <3>1 DEF Over
  <2>2. CASE m.InCounter # Spent
    <3>1. Supplied(r, g, WordsLeft(r.InCounter))
      BY <1>3, <1>6, <1>7 DEF SameInput
    <3>2. QED
      BY <1>3, <1>7, <2>2, <3>1 DEF Works, WordsLeft, SameInput
  <2>3. QED
    BY <2>1, <2>2
<1>9. Streams(r, co, g)
  <2>1. ToGive(r) = 0
    BY <1>3, NothingToGive
  <2>2. QED
    BY <1>2, <1>3, <2>1, StreamStays DEF SamePixels
<1>10. Len(r.InFIFO) <= Len(m.InFIFO) /\ Len(m.OutFIFO) <= Len(r.OutFIFO)
  <2>1. Len(m.InFIFO) \in Nat /\ Len(m.OutFIFO) \in Nat
    BY <1>1, LenProperties DEF WellMade
  <2>2. QED
    BY <1>3, <2>1 DEF SameInput
<1>11. QED
  BY <1>4, <1>5, <1>8, <1>9, <1>10, KeptIf DEF r

\* A word of the block moves to the output.
LEMMA GivesOne ==
  ASSUME NEW m, WellMade(m), m.phase = "give", NEW g, g \in Games, InStream(m, g), ToGive(m) # 0,
         NEW r, Shape(r), r.OutFIFO = Append(m.OutFIFO, m.pixels[m.ReadOffset + 1]),
         r.ReadOffset = m.ReadOffset + 1, r.phase = "give", r.pixels = m.pixels, r.encoded = m.encoded
  PROVE  InStream(r, g) /\ r.OutFIFO \in Seq(Pixels) /\ Len(r.OutFIFO) = Len(m.OutFIFO) + 1
<1> DEFINE depth == g.command.depth
           n == Len(m.OutFIFO)
           t == ToGive(m)
           o == m.ReadOffset
           k == g.moved
<1>1. /\ m.OutFIFO \in Seq(Pixels) /\ m.pixels \in Seq(Pixels) /\ o \in Nat /\ k \in Nat
      /\ m.encoded \in Nat
  BY DEF WellMade, Games
<1>2. n \in Nat /\ Len(m.pixels) \in Nat
  BY <1>1, LenProperties
<1>3. Given(m) = o /\ t = Len(m.pixels) - o
  BY DEF Given, ToGive
<1>4. Given(r) = o + 1 /\ ToGive(r) = t - 1
  <2>1. Given(r) = o + 1
    BY DEF Given
  <2>2. Len(m.pixels) - (o + 1) = (Len(m.pixels) - o) - 1
    BY <1>1, <1>2
  <2>3. ToGive(r) = Len(m.pixels) - (o + 1)
    BY <2>1 DEF ToGive
  <2>4. QED
    BY <1>3, <2>1, <2>2, <2>3
<1>5. t >= 0 /\ t \in Int
  BY <1>1, <1>2, <1>3 DEF InStream
<1>6. t \in Nat /\ t > 0 /\ 1 \in 1..t /\ o + 1 \in 1..Len(m.pixels)
  BY <1>1, <1>2, <1>3, <1>5
<1>7. m.pixels[o + 1] \in Pixels
  BY <1>1, <1>6, ElementOfSeq
<1>8. /\ r.OutFIFO \in Seq(Pixels) /\ Len(r.OutFIFO) = n + 1
      /\ \A i \in 1..n : r.OutFIFO[i] = m.OutFIFO[i]
      /\ r.OutFIFO[n + 1] = m.pixels[o + 1]
  BY <1>1, <1>7, AppendProperties
<1>9. /\ \A i \in 1..n : m.OutFIFO[i] = Pixel(depth, k + i - 1)
      /\ \A i \in 1..t : m.pixels[o + i] = Pixel(depth, k + n + i - 1)
      /\ m.encoded * BlockSize(depth) = k + n + t
  BY <1>3 DEF InStream
<1> HIDE DEF n, t, o, k, depth
<1>10. m.pixels[o + 1] = Pixel(depth, k + (n + 1) - 1)
  <2>1. m.pixels[o + 1] = Pixel(depth, k + n + 1 - 1)
    BY <1>6, <1>9
  <2>2. k + n + 1 - 1 = k + (n + 1) - 1
    BY <1>1, <1>2
  <2>3. QED
    BY <2>1, <2>2
<1>11. ASSUME NEW i \in 1..(n + 1) PROVE r.OutFIFO[i] = Pixel(depth, k + i - 1)
  <2>1. CASE i = n + 1
    BY <1>8, <1>10, <2>1
  <2>2. CASE i # n + 1
    <3>1. i \in 1..n
      BY <1>2, <2>2
    <3>2. QED
      BY <1>8, <1>9, <3>1
  <2>3. QED
    BY <2>1, <2>2
<1>12. ASSUME NEW i \in 1..(t - 1) PROVE m.pixels[(o + 1) + i] = Pixel(depth, k + (n + 1) + i - 1)
  <2>1. PICK j \in 1..t : j = i + 1
    BY <1>6
  <2>2. (o + 1) + i = o + j /\ k + (n + 1) + i - 1 = k + n + j - 1
    BY <1>1, <1>2, <2>1
  <2>3. QED
    BY <1>9, <2>2
<1>13. t - 1 >= 0 /\ k + n + t = k + (n + 1) + (t - 1)
  BY <1>1, <1>2, <1>6
<1>14. InStream(r, g)
  BY <1>4, <1>8, <1>9, <1>11, <1>12, <1>13, Zenon DEF InStream, n, t, o, k, depth
<1>15. QED
  BY <1>8, <1>14 DEF n

LEMMA GivePixelsKeeps ==
  ASSUME NEW m, NEW ci, NEW co, NEW g, NEW p, Busy(m, ci, co, g, p), m.phase = "give"
  PROVE  Kept(GivePixels(m), ci, co, g, p)
<1> DEFINE r == GivePixels(m)
<1>1. /\ WellMade(m) /\ Shape(m) /\ Fed(m, ci, co, g) /\ g.at = "busy" /\ Told(m) /\ g \in Games
  BY DEF Busy, Typed, WellMade, Core
<1>2. Works(m, g) /\ Streams(m, co, g)
  BY <1>1 DEF Fed, Sent, Begun, Over
<1>3. m.ReadOffset \in Nat /\ Len(m.pixels) \in Nat /\ Len(m.InFIFO) \in Nat /\ Len(m.OutFIFO) \in Nat
  BY <1>1, LenProperties DEF WellMade
<1>4. ToGive(m) = Len(m.pixels) - m.ReadOffset
  BY DEF ToGive, Given
<1>5. CASE m.ReadOffset = Len(m.pixels)
  <2>1. ToGive(m) = 0
    BY <1>3, <1>4, <1>5
  <2>2. r = NextWord(m)
    BY <1>5 DEF GivePixels
  <2>3. QED
    BY <2>1, <2>2, NextWordKeeps
<1>6. CASE m.ReadOffset # Len(m.pixels)
  <2>1. ToGive(m) # 0
    BY <1>3, <1>4, <1>6
  <2>2. r = [m EXCEPT !.OutFIFO = Append(@, m.pixels[m.ReadOffset + 1]), !.ReadOffset = @ + 1]
    BY <1>6 DEF GivePixels
  <2>3. /\ Shape(r) /\ SameInput(m, r) /\ SameStage(m, r) /\ SameRows(m, r)
        /\ r.OutFIFO = Append(m.OutFIFO, m.pixels[m.ReadOffset + 1]) /\ r.ReadOffset = m.ReadOffset + 1
        /\ r.pixels = m.pixels /\ r.encoded = m.encoded
    BY <1>1, <2>2, FieldNames DEF Shape, SameInput, SameStage, SameRows
  <2> HIDE DEF r
  <2>4. g.command.op = 1
    BY <1>2 DEF Works
  <2>5. InStream(m, g) /\ (co.on => InRow(m, g))
    BY <1>2, <2>4 DEF Streams
  <2>6. r.phase = "give"
    BY <2>3 DEF SameStage
  <2>7. InStream(r, g) /\ r.OutFIFO \in Seq(Pixels) /\ Len(r.OutFIFO) = Len(m.OutFIFO) + 1
    BY <1>1, <2>1, <2>3, <2>5, <2>6, GivesOne
  <2>8. WellMade(r)
    BY <1>1, <1>3, <2>3, <2>7 DEF WellMade, SameInput
  <2>9. Told(r)
    BY <1>1, <2>3 DEF Told, SameStage
  <2>10. Works(r, g)
    <3>1. ASSUME NEW n, Supplied(m, g, n) PROVE Supplied(r, g, n)
      BY <2>3, <3>1, Zenon DEF Supplied, SameInput
    <3>2. QED
      BY <1>2, <2>3, <2>4, <2>6, <3>1 DEF Works, SameInput, SameStage
  <2>11. Streams(r, co, g)
    <3>1. InRow(m, g) => InRow(r, g)
      BY <2>3, Zenon DEF InRow, SameRows
    <3>2. QED
      BY <2>5, <2>7, <3>1 DEF Streams
  <2>12. Len(r.InFIFO) <= Len(m.InFIFO) /\ Len(m.OutFIFO) <= Len(r.OutFIFO)
    BY <1>3, <2>3, <2>7 DEF SameInput
  <2>13. QED
    BY <2>8, <2>9, <2>10, <2>11, <2>12, KeptIf DEF r
<1>7. QED
  BY <1>5, <1>6

\* A stretch of the coroutine that does not wait.
LEMMA AdvanceKeeps ==
  ASSUME NEW m, NEW ci, NEW co, NEW g, NEW p, Typed(m, ci, co, g), Core(m, ci, co, g, p), ~Waits(m)
  PROVE  Kept(Advance(m), ci, co, g, p)
<1>1. m.phase \in {"command", "word"} => m.InFIFO # <<>>
  BY DEF Waits
<1>2. g.at = "busy"
  <2>1. Resting(m, g)
    BY DEF Core
  <2>2. QED
    BY <1>1, <2>1 DEF Resting
<1>3. Busy(m, ci, co, g, p)
  BY <1>2 DEF Busy
<1>4. m.phase \in {"command", "begin", "word", "eat", "give"}
  <2>1. Fed(m, ci, co, g)
    BY DEF Core
  <2>2. QED
    BY <1>2, <2>1 DEF Fed, Sent, Begun, Works, Over
<1>5. CASE m.phase = "command"
  BY <1>1, <1>3, <1>5, TakeCommandKeeps DEF Advance
<1>6. CASE m.phase = "begin"
  BY <1>3, <1>6, BeginCommandKeeps DEF Advance
<1>7. CASE m.phase = "word"
  BY <1>1, <1>3, <1>7, TakeWordKeeps DEF Advance
<1>8. CASE m.phase = "eat"
  BY <1>3, <1>8, EatKeeps DEF Advance
<1>9. CASE m.phase = "give"
  BY <1>3, <1>9, GivePixelsKeeps DEF Advance
<1>10. QED
  BY <1>4, <1>5, <1>6, <1>7, <1>8, <1>9

------------------------------------------------------------------------------
(* The game and the channels.                                               *)

\* What is kept in a call is kept when the coroutine has run in it up to its next wait.
LEMMA RunKeeps ==
  ASSUME NEW x, NEW ci, NEW co, NEW g, NEW p, Kept(x, ci, co, g, p), NEW clocks
  PROVE  /\ Kept(MDEC_Run(x, clocks), ci, co, g, p) /\ Settled(MDEC_Run(x, clocks))
         /\ Kept(Running(x), ci, co, g, p) /\ Settled(Running(x))
<1>1. Shape(x)
  BY DEF Kept, Typed, WellMade
<1>2. Alike(x, MDEC_Run(x, clocks)) /\ Settled(MDEC_Run(x, clocks))
  BY <1>1, RunDoes
<1>3. Alike(x, Running(x)) /\ Settled(Running(x))
  BY <1>1, RunningDoes
<1>4. ASSUME NEW r, Alike(x, r) PROVE Kept(r, ci, co, g, p)
  BY <1>4, AlikeKeeps DEF Kept
<1>5. QED
  BY <1>2, <1>3, <1>4

\* A command that waits for the coroutine is not seen by anybody else.
Going(m, co, g) ==
  \/ Begun(m, co, g)
  \/ Works(m, g) /\ Streams(m, co, g)
  \/ Over(m, g) /\ Streams(m, co, g)

LEMMA IsGoing ==
  ASSUME NEW m, NEW ci, NEW co, NEW g, NEW p, Settled(m), ~m.running, Core(m, ci, co, g, p), g.at = "busy"
  PROVE  Going(m, co, g)
<1>1. ~Sent(m, ci, co, g)
  <2>1. SUFFICES ASSUME Sent(m, ci, co, g) PROVE FALSE
    OBVIOUS
  <2>2. m.phase = "command" /\ m.InFIFO = <<g.command>>
    BY <2>1 DEF Sent
  <2>3. m.InFIFO = <<>>
    BY <2>2 DEF Settled
  <2>4. Len(m.InFIFO) = 1
    BY <2>2
  <2>5. Len(m.InFIFO) = 0
    BY <2>3
  <2>6. QED
    BY <2>4, <2>5
<1>2. QED
  BY <1>1 DEF Core, Fed, Going

\* What the game supplies goes to the end of what is the command's, or is padding.
IsNext(g, w) == IF g.command.op = 1 /\ g.left > 0 THEN w \in Data ELSE w = Padding
Supplies1(g, d) ==
  /\ d \in Games /\ d.at = g.at /\ d.command = g.command /\ d.moved = g.moved
  /\ d.left = IF g.left > 0 THEN g.left - 1 ELSE 0

LEMMA SuppliedAppend ==
  ASSUME NEW m, WellMade(m), NEW g, g \in Games, NEW n \in Nat, Supplied(m, g, n),
         NEW w \in FIFOWords, IsNext(g, w), NEW d, Supplies1(g, d), NEW r, r.InFIFO = Append(m.InFIFO, w)
  PROVE  Supplied(r, d, n)
<1> DEFINE l == Len(m.InFIFO)
<1>1. m.InFIFO \in Seq(FIFOWords) /\ l \in Nat /\ g.left \in Nat
  BY LenProperties DEF WellMade, Games
<1>2. /\ Len(r.InFIFO) = l + 1
      /\ \A i \in 1..l : r.InFIFO[i] = m.InFIFO[i]
      /\ r.InFIFO[l + 1] = w
  BY <1>1, AppendProperties
<1>3. d.command = g.command /\ d.left = IF g.left > 0 THEN g.left - 1 ELSE 0
  BY DEF Supplies1
<1>4. \A i \in 1..(l + 1) : i \in 1..l \/ i = l + 1
  BY <1>1
<1>5. CASE g.command.op = 1
  <2>1. /\ g.left = IF n >= l THEN n - l ELSE 0
        /\ \A i \in 1..l : IF i <= n THEN m.InFIFO[i] \in Data ELSE m.InFIFO[i] = Padding
    BY <1>5 DEF Supplied
  <2> HIDE DEF l
  <2>2. g.left > 0 <=> l + 1 <= n
    BY <1>1, <2>1
  <2>3. IF l + 1 <= n THEN w \in Data ELSE w = Padding
    BY <1>5, <2>2 DEF IsNext
  <2>4. d.left = IF n >= l + 1 THEN n - (l + 1) ELSE 0
    <3>1. CASE l + 1 <= n
      <4>1. g.left = n - l /\ g.left > 0
        BY <1>1, <2>1, <3>1
      <4>2. (n - l) - 1 = n - (l + 1)
        BY <1>1
      <4>3. QED
        BY <1>3, <3>1, <4>1, <4>2
    <3>2. CASE ~(l + 1 <= n)
      <4>1. ~(g.left > 0) /\ ~(n >= l + 1)
        BY <1>1, <2>2, <3>2
      <4>2. QED
        BY <1>3, <4>1
    <3>3. QED
      BY <3>1, <3>2
  <2>5. ASSUME NEW i \in 1..(l + 1)
        PROVE  IF i <= n THEN r.InFIFO[i] \in Data ELSE r.InFIFO[i] = Padding
    <3>1. CASE i \in 1..l
      BY <1>2, <2>1, <3>1
    <3>2. CASE i = l + 1
      BY <1>2, <2>3, <3>2
    <3>3. QED
      BY <1>4, <3>1, <3>2
  <2>6. Len(r.InFIFO) = l + 1
    BY <1>2
  <2>7. d.command.op = 1
    BY <1>3, <1>5
  <2>8. QED
    BY <2>4, <2>5, <2>6, <2>7, Zenon DEF Supplied
<1>6. CASE g.command.op # 1
  <2>1. \A i \in 1..l : m.InFIFO[i] = Padding
    BY <1>6 DEF Supplied
  <2>2. w = Padding
    BY <1>6 DEF IsNext
  <2> HIDE DEF l
  <2>3. \A i \in 1..(l + 1) : r.InFIFO[i] = Padding
    BY <1>2, <1>4, <2>1, <2>2
  <2>4. QED
    BY <1>2, <1>3, <1>6, <2>3, Zenon DEF Supplied
<1>7. QED
  BY <1>5, <1>6

\* A word that is put in the input.
LEMMA InputKeeps ==
  ASSUME NEW m, NEW ci, NEW co, NEW g, NEW p,
         Typed(m, ci, co, g), Core(m, ci, co, g, p), Settled(m), ~m.running, g.at = "busy",
         NEW w \in FIFOWords, IsNext(g, w), NEW d, Supplies1(g, d),
         NEW x, Shape(x), x.InFIFO = Append(m.InFIFO, w), x.InCounter = m.InCounter, SameStage(m, x),
         SamePixels(m, x), SameRows(m, x), x.OutFIFO = m.OutFIFO,
         NEW di \in ChannelStates, di.on \/ di.WordCounter = 0, di.WordCounter + Len(m.InFIFO) + 1 <= Size
  PROVE  Kept(x, di, co, d, p)
<1>1. /\ WellMade(m) /\ co \in ChannelStates /\ g \in Games /\ g.command \in Commands /\ Told(m)
      /\ Linked(m, ci, co, g) /\ Pictured(co, g, p) /\ m.InCounter \in Counters
  BY DEF Typed, Core, WellMade
<1>2. /\ m.InFIFO \in Seq(FIFOWords) /\ Append(m.InFIFO, w) \in Seq(FIFOWords)
      /\ Len(Append(m.InFIFO, w)) = Len(m.InFIFO) + 1 /\ Len(m.InFIFO) \in Nat
  <2>1. m.InFIFO \in Seq(FIFOWords)
    BY <1>1 DEF WellMade
  <2>2. QED
    BY <2>1, AppendProperties, LenProperties
<1>3. d \in Games /\ d.at = "busy" /\ d.command = g.command /\ d.moved = g.moved
  BY DEF Supplies1
<1>4. /\ x.phase = m.phase /\ x.InCommand = m.InCommand /\ x.Command = m.Command
      /\ x.pixels = m.pixels /\ x.encoded = m.encoded /\ x.ReadOffset = m.ReadOffset
      /\ x.RAMOffsetY = m.RAMOffsetY
  BY DEF SameStage, SamePixels, SameRows
<1>5. WellMade(x)
  BY <1>1, <1>2, <1>4 DEF WellMade
<1>6. Typed(x, di, co, d)
  BY <1>1, <1>3, <1>5 DEF Typed
<1>7. Told(x)
  BY <1>1, <1>4 DEF Told
<1>8. Linked(x, di, co, d)
  <2>1. di.WordCounter + Len(x.InFIFO) <= Size
    <3>1. di.WordCounter \in Nat /\ Size \in Nat
      BY MDECFacts DEF ChannelStates
    <3>2. QED
      BY <1>2, <3>1
  <2>2. QED
    BY <1>1, <1>3, <2>1 DEF Linked
<1>9. Resting(x, d)
  BY <1>3 DEF Resting
<1>10. ASSUME NEW n \in Nat, Supplied(m, g, n) PROVE Supplied(x, d, n)
  BY <1>1, <1>10, SuppliedAppend
<1>11. Streams(m, co, g) => Streams(x, co, d)
  <2>1. Given(x) = Given(m) /\ ToGive(x) = ToGive(m)
    BY <1>4, Zenon DEF Given, ToGive
  <2>2. InStream(m, g) => InStream(x, d)
    BY <1>3, <1>4, <2>1, Zenon DEF InStream
  <2>3. InRow(m, g) => InRow(x, d)
    BY <1>3, Zenon DEF InRow, SameRows
  <2>4. QED
    BY <1>3, <2>2, <2>3 DEF Streams
<1>12. Going(m, co, g)
  BY IsGoing
<1>13. CASE Begun(m, co, g)
  <2>1. WordsOf(g.command) \in Nat
    BY <1>1, CommandIs, MDECFacts
  <2>2. Supplied(x, d, WordsOf(d.command))
    BY <1>3, <1>10, <1>13, <2>1 DEF Begun
  <2>3. Unread(x, co, d)
    BY <1>3, <1>13 DEF Begun, Unread
  <2>4. Begun(x, co, d)
    BY <1>3, <1>4, <1>13, <2>2, <2>3 DEF Begun
  <2>5. QED
    BY <1>3, <1>6, <1>7, <1>8, <1>9, <2>4, <1>1 DEF Kept, Core, Fed, Pictured
<1>14. CASE Works(m, g) /\ Streams(m, co, g)
  <2>1. WordsLeft(m.InCounter) \in Nat
    <3>1. m.InCounter = Spent \/ WordsLeft(m.InCounter) = m.InCounter + 1
      BY <1>1, CounterSteps
    <3>2. m.InCounter = Spent => WordsLeft(m.InCounter) = 0
      BY CounterSteps
    <3>3. m.InCounter \in Nat
      BY <1>1, MDECFacts DEF Counters
    <3>4. QED
      BY <3>1, <3>2, <3>3
  <2>2. Supplied(x, d, WordsLeft(x.InCounter))
    BY <1>10, <1>14, <2>1 DEF Works, WordsLeft
  <2>3. Works(x, d)
    BY <1>3, <1>4, <1>14, <2>2 DEF Works, WordsLeft
  <2>4. QED
    BY <1>3, <1>6, <1>7, <1>8, <1>9, <1>11, <1>14, <2>3, <1>1 DEF Kept, Core, Fed, Pictured
<1>15. CASE Over(m, g) /\ Streams(m, co, g)
  <2>1. Supplied(x, d, 0)
    BY <1>10, <1>15 DEF Over
  <2>2. Over(x, d)
    BY <1>3, <1>4, <1>15, <2>1 DEF Over
  <2>3. QED
    BY <1>3, <1>6, <1>7, <1>8, <1>9, <1>11, <1>15, <2>2, <1>1 DEF Kept, Core, Fed, Pictured
<1>16. QED
  BY <1>12, <1>13, <1>14, <1>15 DEF Going

\* A word that leaves the output.
LEMMA OutputGoesOn ==
  ASSUME NEW m, WellMade(m), m.OutFIFO # <<>>, NEW g, g \in Games, InStream(m, g), NEW d,
         d.command = g.command, d.moved = g.moved + 1, NEW r, r.OutFIFO = Tail(m.OutFIFO),
         r.phase = m.phase, SamePixels(m, r)
  PROVE  /\ InStream(r, d) /\ Head(m.OutFIFO) = Pixel(g.command.depth, g.moved)
         /\ r.OutFIFO \in Seq(Pixels) /\ Len(r.OutFIFO) = Len(m.OutFIFO) - 1 /\ Len(m.OutFIFO) \in Nat
<1> DEFINE depth == g.command.depth
           n == Len(m.OutFIFO)
           t == ToGive(m)
           k == g.moved
<1>1. /\ m.OutFIFO \in Seq(Pixels) /\ k \in Nat /\ m.encoded \in Nat
      /\ m.pixels \in Seq(Pixels) /\ m.ReadOffset \in Nat
  BY DEF WellMade, Games
<1>2. /\ n \in Nat /\ n > 0 /\ Head(m.OutFIFO) = m.OutFIFO[1]
      /\ r.OutFIFO \in Seq(Pixels) /\ Len(r.OutFIFO) = n - 1
      /\ \A i \in 1..(n - 1) : r.OutFIFO[i] = m.OutFIFO[i + 1]
  BY <1>1, HeadTailProperties, LenProperties, EmptySeq
<1>3. Given(r) = Given(m) /\ ToGive(r) = t
  BY Zenon DEF Given, ToGive, SamePixels
<1>4. t \in Int
  <2>1. Len(m.pixels) \in Nat
    BY <1>1, LenProperties
  <2>2. QED
    BY <1>1, <2>1 DEF ToGive, Given
<1>5. /\ \A i \in 1..n : m.OutFIFO[i] = Pixel(depth, k + i - 1)
      /\ t >= 0 /\ \A i \in 1..t : m.pixels[Given(m) + i] = Pixel(depth, k + n + i - 1)
      /\ m.encoded * BlockSize(depth) = k + n + t
  BY DEF InStream
<1>6. d.moved = k + 1 /\ r.pixels = m.pixels /\ r.encoded = m.encoded
  BY DEF SamePixels
<1> HIDE DEF n, t, k, depth
<1>7. Head(m.OutFIFO) = Pixel(depth, k)
  <2>1. 1 \in 1..n /\ k + 1 - 1 = k
    BY <1>1, <1>2
  <2>2. QED
    BY <1>2, <1>5, <2>1
<1>8. ASSUME NEW i \in 1..(n - 1) PROVE r.OutFIFO[i] = Pixel(depth, (k + 1) + i - 1)
  <2>1. i + 1 \in 1..n /\ (k + 1) + i - 1 = k + (i + 1) - 1
    BY <1>1, <1>2
  <2>2. QED
    BY <1>2, <1>5, <2>1
<1>9. ASSUME NEW i \in 1..t PROVE r.pixels[Given(m) + i] = Pixel(depth, (k + 1) + (n - 1) + i - 1)
  <2>1. (k + 1) + (n - 1) + i - 1 = k + n + i - 1
    BY <1>1, <1>2
  <2>2. QED
    BY <1>5, <1>6, <2>1
<1>10. k + n + t = (k + 1) + (n - 1) + t
  BY <1>1, <1>2, <1>4
<1>11. InStream(r, d)
  <2>1. Len(r.OutFIFO) = n - 1
    BY <1>2
  <2>2. d.command.depth = depth
    BY DEF depth
  <2>3. QED
    BY <1>3, <1>5, <1>6, <1>8, <1>9, <1>10, <2>1, <2>2, Zenon DEF InStream
<1>12. QED
  BY <1>2, <1>7, <1>11 DEF n, k, depth

\* A word leaves the output for its place in the picture.
TakesOne(m, co, g, p, r, do, d, q) ==
  /\ m.OutFIFO # <<>> /\ (Works(m, g) \/ Over(m, g)) /\ Streams(m, co, g)
  /\ Shape(r) /\ r.OutFIFO = Tail(m.OutFIFO)
  /\ SameInput(m, r) /\ SameStage(m, r) /\ SamePixels(m, r)
  /\ do \in ChannelStates /\ do.on = co.on
  /\ do.on \/ do.WordCounter = 0
  /\ do.WordCounter + 1 <= Len(m.OutFIFO)
  /\ d \in Games /\ d.at = "busy" /\ d.command = g.command /\ d.moved = g.moved + 1 /\ d.left = g.left
  /\ co.on => InRow(r, d)
  /\ q = p \cup {[place |-> PlaceOf(co.on, g.command.depth, g.moved), word |-> Head(m.OutFIFO)]}

LEMMA OutputKeeps ==
  ASSUME NEW m, NEW ci, NEW co, NEW g, NEW p, Busy(m, ci, co, g, p), g.command.op = 1,
         NEW r, NEW do, NEW d, NEW q, TakesOne(m, co, g, p, r, do, d, q)
  PROVE  Kept(r, ci, do, d, q)
<1>1. /\ m.OutFIFO # <<>> /\ (Works(m, g) \/ Over(m, g)) /\ Streams(m, co, g)
      /\ Shape(r) /\ r.OutFIFO = Tail(m.OutFIFO)
      /\ SameInput(m, r) /\ SameStage(m, r) /\ SamePixels(m, r)
      /\ do \in ChannelStates /\ do.on = co.on /\ (do.on \/ do.WordCounter = 0)
      /\ do.WordCounter + 1 <= Len(m.OutFIFO)
      /\ d \in Games /\ d.at = "busy" /\ d.command = g.command /\ d.moved = g.moved + 1 /\ d.left = g.left
      /\ co.on => InRow(r, d)
      /\ q = p \cup {[place |-> PlaceOf(co.on, g.command.depth, g.moved), word |-> Head(m.OutFIFO)]}
  BY DEF TakesOne
<1>2. /\ WellMade(m) /\ ci \in ChannelStates /\ g \in Games /\ g.command \in Commands /\ Told(m)
      /\ Linked(m, ci, co, g) /\ Pictured(co, g, p) /\ InStream(m, g) /\ g.moved \in Nat
      /\ g.at = "busy"
  BY <1>1 DEF Busy, Typed, Core, WellMade, Streams, Games
<1>3. /\ InStream(r, d) /\ Head(m.OutFIFO) = Pixel(g.command.depth, g.moved)
      /\ r.OutFIFO \in Seq(Pixels) /\ Len(r.OutFIFO) = Len(m.OutFIFO) - 1 /\ Len(m.OutFIFO) \in Nat
  BY <1>1, <1>2, OutputGoesOn DEF SameStage
<1>4. /\ r.InFIFO = m.InFIFO /\ r.InCounter = m.InCounter
      /\ r.phase = m.phase /\ r.InCommand = m.InCommand /\ r.Command = m.Command
      /\ r.pixels = m.pixels /\ r.encoded = m.encoded /\ r.ReadOffset = m.ReadOffset
  BY <1>1 DEF SameInput, SameStage, SamePixels
<1>5. WellMade(r)
  BY <1>1, <1>2, <1>3, <1>4 DEF WellMade
<1>6. Typed(r, ci, do, d)
  BY <1>1, <1>2, <1>5 DEF Typed
<1>7. Told(r) /\ Resting(r, d)
  BY <1>1, <1>2, <1>4 DEF Told, Resting
<1>8. Linked(r, ci, do, d)
  <2>1. do.WordCounter <= Len(r.OutFIFO)
    <3>1. do.WordCounter \in Nat
      BY <1>1, MDECFacts DEF ChannelStates
    <3>2. QED
      BY <1>1, <1>3, <3>1
  <2>2. QED
    BY <1>1, <1>2, <1>4, <2>1 DEF Linked
<1>9. ASSUME NEW n, Supplied(m, g, n) PROVE Supplied(r, d, n)
  BY <1>1, <1>4, <1>9, Zenon DEF Supplied
<1>10. Works(r, d) \/ Over(r, d)
  <2>1. CASE Works(m, g)
    BY <1>1, <1>4, <1>9, <2>1 DEF Works
  <2>2. CASE Over(m, g)
    BY <1>1, <1>4, <1>9, <2>2 DEF Over
  <2>3. QED
    BY <1>1, <2>1, <2>2
<1>11. Streams(r, do, d)
  BY <1>1, <1>3 DEF Streams
<1>12. Pictured(do, d, q)
  <2> DEFINE place(k) == StoredWord(co.on, g.command.depth, k)
  <2>1. p = {place(k) : k \in 0..(g.moved - 1)}
    BY <1>1, <1>2 DEF Pictured
  <2>2. q = p \cup {place(g.moved)}
    BY <1>1, <1>3 DEF StoredWord
  <2>3. 0..(d.moved - 1) = 0..(g.moved - 1) \cup {g.moved}
    BY <1>1, <1>2
  <2> HIDE DEF place
  <2>4. q = {place(k) : k \in 0..(d.moved - 1)}
    BY <1>1, <2>1, <2>2, <2>3
  <2>5. QED
    BY <1>1, <2>4 DEF Pictured, place
<1>13. QED
  BY <1>1, <1>6, <1>7, <1>8, <1>10, <1>11, <1>12 DEF Kept, Core, Fed

\* The rows and places of a picture, word by word.
LEMMA NextInRow ==
  ASSUME NEW m, NEW g, g \in Games, g.command \in Commands, InRow(m, g),
         NEW d, d.command = g.command, d.moved = g.moved + 1,
         NEW r, r.RAMOffsetWWS = m.RAMOffsetWWS,
         NEW counter, counter = (m.RAMOffsetCounter - 1) % 256,
         r.RAMOffsetCounter = (IF counter = 0 THEN m.RAMOffsetWWS ELSE counter),
         r.RAMOffsetY = (IF counter = 0 THEN (m.RAMOffsetY + 1) % 256 ELSE m.RAMOffsetY)
  PROVE  InRow(r, d)
<1>1. g.moved \in Nat
  BY DEF Games
<1>2. Width[g.command.depth] \in Nat \ {0} /\ Width[g.command.depth] < 256
  BY CommandDepth
<1>3. CASE g.command.depth < 2
  <2>1. m.RAMOffsetWWS = 0 /\ m.RAMOffsetY \in Nat
    BY <1>3 DEF InRow
  <2>2. r.RAMOffsetY \in Nat
    BY <2>1
  <2>3. QED
    BY <1>3, <2>1, <2>2 DEF InRow
<1>4. CASE ~(g.command.depth < 2)
  <2> DEFINE w == Width[g.command.depth]
             k == g.moved
  <2>1. /\ m.RAMOffsetWWS = w /\ m.RAMOffsetCounter = w - (k % w)
        /\ m.RAMOffsetY = (k \div w) % 256
    BY <1>4 DEF InRow
  <2>2. k \div w \in Nat /\ k % w \in 0..(w - 1)
    BY <1>1, <1>2, Divided
  <2>3. IF k % w = w - 1 THEN (k + 1) \div w = (k \div w) + 1 /\ (k + 1) % w = 0
        ELSE (k + 1) \div w = k \div w /\ (k + 1) % w = (k % w) + 1
    BY <1>1, <1>2, NextOf
  <2> HIDE DEF w, k
  <2>4. w \in Nat \ {0} /\ w < 256 /\ k \in Nat
    BY <1>1, <1>2 DEF w, k
  <2>5. counter = w - (k % w) - 1
    <3>1. w - (k % w) - 1 \in 0..255
      BY <2>2, <2>4
    <3>2. QED
      BY <2>1, <3>1
  <2>6. CASE k % w = w - 1
    <3>1. counter = 0
      BY <2>4, <2>5, <2>6
    <3>2. r.RAMOffsetCounter = w - ((k + 1) % w)
      BY <2>1, <2>3, <2>4, <2>6, <3>1
    <3>3. (((k \div w) % 256) + 1) % 256 = ((k \div w) + 1) % 256
      BY <2>2
    <3>4. r.RAMOffsetY = ((k + 1) \div w) % 256
      BY <2>1, <2>3, <2>6, <3>1, <3>3
    <3>5. QED
      BY <1>4, <2>1, <3>2, <3>4 DEF InRow, w, k
  <2>7. CASE k % w # w - 1
    <3>1. counter # 0
      BY <2>2, <2>4, <2>5, <2>7
    <3>2. r.RAMOffsetCounter = w - ((k + 1) % w)
      BY <2>2, <2>3, <2>4, <2>5, <2>7, <3>1
    <3>3. r.RAMOffsetY = ((k + 1) \div w) % 256
      BY <2>1, <2>3, <2>7, <3>1
    <3>4. QED
      BY <1>4, <2>1, <3>2, <3>3 DEF InRow, w, k
  <2>8. QED
    BY <2>6, <2>7
<1>5. QED
  BY <1>3, <1>4

LEMMA PlacedRight ==
  ASSUME NEW m, NEW g, g \in Games, g.command \in Commands, InRow(m, g)
  PROVE  g.moved + RAMOffset(m) = PlaceOf(TRUE, g.command.depth, g.moved)
<1>1. g.moved \in Nat
  BY DEF Games
<1>2. Width[g.command.depth] \in Nat \ {0} /\ Rows \in Nat \ {0}
  BY CommandDepth, MDECFacts
<1>3. CASE g.command.depth < 2
  <2>1. m.RAMOffsetWWS = 0 /\ m.RAMOffsetY \in Nat
    BY <1>3 DEF InRow
  <2>2. (m.RAMOffsetY % Rows) - (IF (m.RAMOffsetY \div Rows) % 2 = 1 THEN Rows - 1 ELSE 0) \in Int
    BY <1>2, <2>1
  <2>3. RAMOffset(m) = 0
    BY <2>1, <2>2 DEF RAMOffset
  <2>4. QED
    BY <1>1, <1>3, <2>3 DEF PlaceOf
<1>4. CASE ~(g.command.depth < 2)
  <2> DEFINE w == Width[g.command.depth]
             k == g.moved
             row == m.RAMOffsetY
  <2>1. m.RAMOffsetWWS = w /\ row = (k \div w) % 256
    BY <1>4 DEF InRow
  <2>2. 256 % (2 * Rows) = 0
    BY MDECAssumption DEF MDECAssumption
  <2>3. PICK turn \in Nat \ {0} : turn = 256
    OBVIOUS
  <2>4. EvenBlocks(turn, Rows)
    BY <2>2, <2>3 DEF EvenBlocks
  <2>5. row = (k \div w) % turn /\ row \in Nat
    BY <1>1, <1>2, <2>1, <2>3
  <2>6. RAMOffset(m) = w * ((row % Rows) - (IF (row \div Rows) % 2 = 1 THEN Rows - 1 ELSE 0))
    BY <2>1 DEF RAMOffset
  <2>7. PlaceOf(TRUE, g.command.depth, k)
          = LET words == Rows * w
                block == (k \div words) % 4
                inside    == k % words
            IN (k - (k % (4 * words))) + 2 * words * (block \div 2) + w * (block % 2)
                 + 2 * w * (inside \div w) + (inside % w)
    BY <1>4 DEF PlaceOf
  <2> HIDE DEF w, k, row
  <2>8. w \in Nat \ {0} /\ k \in Nat
    BY <1>1, <1>2 DEF w, k
  <2>9. OffsetBrings(Rows, w, k, row)
    BY <1>2, <2>4, <2>5, <2>8, OffsetIsPlace
  <2>10. k + w * ((row % Rows) - (IF (row \div Rows) % 2 = 1 THEN Rows - 1 ELSE 0))
           = PlaceOf(TRUE, g.command.depth, k)
    BY <2>7, <2>9 DEF OffsetBrings
  <2>11. QED
    BY <2>6, <2>10 DEF k
<1>5. QED
  BY <1>3, <1>4


LEMMA KeptNext ==
  ASSUME Kept(mdec', in', out', game', picture'), Settled(mdec')
  PROVE  PictureInv'
BY DEF PictureInv, Kept

\* Nothing is under way, and there is no block of output that a command would leave behind.
LEMMA IdleIsKept ==
  ASSUME NEW m, NEW ci, NEW co, NEW g, NEW p, WellMade(m), Told(m), g \in Games, g.at # "busy",
         m.phase = "command", m.InFIFO = <<>>, Len(m.OutFIFO) < Size,
         ci \in ChannelStates, ~ci.on, ci.WordCounter = 0, co \in ChannelStates, ~co.on, co.WordCounter = 0
  PROVE  Kept(m, ci, co, g, p)
<1>1. Len(m.OutFIFO) \in Nat /\ Len(m.InFIFO) = 0 /\ Size \in Nat
  BY MDECFacts, LenProperties DEF WellMade
<1>2. Linked(m, ci, co, g)
  BY <1>1 DEF Linked
<1>3. Resting(m, g) /\ Fed(m, ci, co, g) /\ Pictured(co, g, p)
  BY DEF Resting, Fed, Pictured
<1>4. Typed(m, ci, co, g)
  BY DEF Typed
<1>5. QED
  BY <1>2, <1>3, <1>4 DEF Kept, Core

LEMMA NoneGoes == NoChannel \in ChannelStates /\ ~NoChannel.on /\ NoChannel.WordCounter = 0
<1>1. 0 \in 0..(Size - 1)
  BY MDECFacts
<1>2. QED
  BY <1>1 DEF NoChannel, ChannelStates

LEMMA NobodyAsks == NoCommand \in CommandWords
BY DEF NoCommand, CommandWords

LEMMA InitPictureInv ==
  ASSUME MDEC_Init PROVE PictureInv
<1>1. mdec = MDEC_Power /\ in = NoChannel /\ out = NoChannel
  BY DEF MDEC_Init
<1>2. Shape(mdec)
  BY <1>1, FieldNames DEF Shape, MDEC_Power
<1>3. /\ mdec.phase = "command" /\ mdec.running = FALSE /\ mdec.InFIFO = <<>> /\ mdec.OutFIFO = <<>>
      /\ mdec.pixels = <<>> /\ mdec.ReadOffset = 0 /\ mdec.InCounter = 0 /\ mdec.encoded = 0
      /\ mdec.InCommand = FALSE
  BY <1>1 DEF MDEC_Power
<1>4. <<>> \in Seq(FIFOWords) /\ <<>> \in Seq(Pixels) /\ 0 \in Counters /\ Len(mdec.OutFIFO) < Size
  BY <1>3, MDECFacts DEF Counters
<1>5. WellMade(mdec)
  BY <1>2, <1>3, <1>4 DEF WellMade
<1>6. game \in Games /\ game.at # "busy"
  BY NobodyAsks DEF MDEC_Init, Games
<1>7. Told(mdec) /\ Settled(mdec)
  BY <1>3 DEF Told, Settled
<1>8. Kept(mdec, in, out, game, picture)
  BY <1>1, <1>3, <1>4, <1>5, <1>6, <1>7, NoneGoes, IdleIsKept
<1>9. QED
  BY <1>7, <1>8 DEF PictureInv, Kept

LEMMA ResumeKeeps ==
  ASSUME PictureInv, Resume PROVE PictureInv'
<1>1. Typed(mdec, in, out, game) /\ Core(mdec, in, out, game, picture) /\ ~Waits(mdec)
  BY DEF PictureInv, Settled, Resume
<1>2. Kept(Advance(mdec), in, out, game, picture)
  BY <1>1, AdvanceKeeps
<1>3. Kept(Running(Advance(mdec)), in, out, game, picture) /\ Settled(Running(Advance(mdec)))
  BY <1>2, RunKeeps
<1>4. mdec' = Running(Advance(mdec)) /\ in' = in /\ out' = out /\ game' = game /\ picture' = picture
  BY DEF Resume
<1>5. QED
  BY <1>3, <1>4, KeptNext

LEMMA UpdateKeeps ==
  ASSUME PictureInv, NEW clocks, MDEC_Update(clocks) PROVE PictureInv'
<1>1. Kept(mdec, in, out, game, picture)
  BY DEF PictureInv, Kept
<1>2. Kept(MDEC_Run(mdec, clocks), in, out, game, picture) /\ Settled(MDEC_Run(mdec, clocks))
  BY <1>1, RunKeeps
<1>3. mdec' = MDEC_Run(mdec, clocks) /\ in' = in /\ out' = out /\ game' = game /\ picture' = picture
  BY DEF MDEC_Update
<1>4. QED
  BY <1>2, <1>3, KeptNext

LEMMA EnableKeeps ==
  ASSUME PictureInv, Enable PROVE PictureInv'
<1>1. /\ Typed(mdec, in, out, game) /\ Core(mdec, in, out, game, picture) /\ Shape(mdec)
      /\ ~mdec.running /\ game.at = "off"
  BY DEF PictureInv, Typed, WellMade, Enable
<1>2. Alike(mdec, mdec') /\ mdec'.running = mdec.running
  BY <1>1, FieldNames DEF Enable, Alike, Shape, SameInput, SameStage, SamePixels, SameRows
<1>3. Typed(mdec', in, out, game) /\ Core(mdec', in, out, game, picture)
  BY <1>1, <1>2, AlikeKeeps
<1>4. /\ WellMade(mdec') /\ Told(mdec') /\ in \in ChannelStates /\ out \in ChannelStates /\ game \in Games
      /\ mdec'.phase = "command" /\ mdec'.InFIFO = <<>> /\ Len(mdec'.OutFIFO) < Size
      /\ ~in.on /\ in.WordCounter = 0 /\ ~out.on /\ out.WordCounter = 0
  BY <1>1, <1>3 DEF Typed, Core, Linked, Resting
<1>5. game' \in Games /\ game'.at # "busy"
  BY <1>4 DEF Enable, Games
<1>6. Kept(mdec', in, out, game', picture)
  BY <1>4, <1>5, IdleIsKept
<1>7. Settled(mdec')
  BY <1>1, <1>2, <1>4 DEF Settled
<1>8. in' = in /\ out' = out /\ picture' = picture
  BY DEF Enable
<1>9. QED
  BY <1>6, <1>7, <1>8, KeptNext

LEMMA ResetKeeps ==
  ASSUME PictureInv, Reset PROVE PictureInv'
<1>1. WellMade(mdec) /\ Shape(mdec) /\ ~mdec.running
  BY DEF PictureInv, Typed, WellMade, Reset
<1>2. mdec' = ResetControl(mdec) /\ in' = NoChannel /\ out' = NoChannel
  BY DEF Reset
<1>3. /\ Shape(mdec') /\ mdec'.phase = "command" /\ mdec'.InFIFO = <<>> /\ mdec'.OutFIFO = <<>>
      /\ mdec'.pixels = <<>> /\ mdec'.InCounter = 0 /\ mdec'.InCommand = FALSE
      /\ mdec'.ReadOffset = mdec.ReadOffset /\ mdec'.encoded = mdec.encoded /\ mdec'.running = mdec.running
  BY <1>1, <1>2, FieldNames DEF ResetControl, Shape
<1>4. <<>> \in Seq(FIFOWords) /\ <<>> \in Seq(Pixels) /\ 0 \in Counters /\ Len(mdec'.OutFIFO) < Size
  BY <1>3, MDECFacts DEF Counters
<1>5. WellMade(mdec')
  BY <1>1, <1>3, <1>4 DEF WellMade
<1>6. game' \in Games /\ game'.at # "busy"
  BY NobodyAsks DEF Reset, Games
<1>7. Told(mdec') /\ Settled(mdec')
  BY <1>1, <1>3 DEF Told, Settled
<1>8. Kept(mdec', in', out', game', picture')
  BY <1>2, <1>3, <1>4, <1>5, <1>6, <1>7, NoneGoes, IdleIsKept
<1>9. QED
  BY <1>7, <1>8, KeptNext

LEMMA FinishKeeps ==
  ASSUME PictureInv, Finish PROVE PictureInv'
<1>1. /\ Typed(mdec, in, out, game) /\ Core(mdec, in, out, game, picture) /\ Settled(mdec)
      /\ ~mdec.running /\ game.at = "busy" /\ ~in.on /\ ~mdec.InCommand
      /\ mdec' = mdec /\ in' = in /\ out' = NoChannel
  BY DEF PictureInv, Finish
<1>2. /\ WellMade(mdec) /\ Told(mdec) /\ in \in ChannelStates /\ out \in ChannelStates /\ game \in Games
      /\ in.WordCounter = 0
  BY <1>1 DEF Typed, Core, Linked
<1>3. mdec.phase = "command" /\ mdec.InFIFO = <<>>
  BY <1>1, <1>2 DEF Told, Settled
<1>4. Len(mdec.OutFIFO) < Size
  <2>1. CASE game.command.op # 1
    <3>1. Going(mdec, out, game)
      BY <1>1, IsGoing
    <3>2. Over(mdec, game)
      BY <1>3, <3>1 DEF Going, Begun, Works
    <3>3. QED
      BY <2>1, <3>2 DEF Over
  <2>2. CASE mdec.OutFIFO = <<>>
    BY <2>2, MDECFacts
  <2>3. QED
    BY <2>1, <2>2 DEF Finish
<1>5. game' \in Games /\ game'.at # "busy"
  BY <1>2 DEF Finish, Games
<1>6. Kept(mdec, in, out', game', picture')
  BY <1>1, <1>2, <1>3, <1>4, <1>5, NoneGoes, IdleIsKept
<1>7. QED
  BY <1>1, <1>6, KeptNext

LEMMA CommandKeeps ==
  ASSUME PictureInv, NEW command \in Commands, NEW byDMA \in BOOLEAN, Command(command, byDMA)
  PROVE  PictureInv'
<1> DEFINE x == [mdec EXCEPT !.InFIFO = Append(@, command),
                             !.ClockCounter = IF ~mdec.InCommand /\ @ < 1 THEN 1 ELSE @]
<1>1. /\ Typed(mdec, in, out, game) /\ Core(mdec, in, out, game, picture) /\ ~mdec.running
      /\ game.at = "idle" /\ (byDMA \/ mdec.OutFIFO = <<>>)
      /\ game' = [at |-> "busy", command |-> command, left |-> WordsOf(command), moved |-> 0]
      /\ out' = (IF command.op = 1 /\ byDMA THEN [NoChannel EXCEPT !.on = TRUE] ELSE NoChannel)
      /\ picture' = {} /\ in' = in /\ mdec' = WriteData(mdec, command)
  BY DEF PictureInv, Command
<1>2. /\ WellMade(mdec) /\ Shape(mdec) /\ in \in ChannelStates /\ ~in.on /\ in.WordCounter = 0
      /\ mdec.phase = "command" /\ mdec.InFIFO = <<>> /\ Len(mdec.OutFIFO) < Size /\ Told(mdec)
  BY <1>1 DEF Typed, WellMade, Core, Linked, Resting
<1>3. mdec' = MDEC_Run(x, 0)
  <2>1. Len(mdec.InFIFO) # Size
    BY <1>2, MDECFacts
  <2>2. QED
    BY <1>1, <2>1 DEF WriteData
<1>4. /\ Shape(x) /\ x.InFIFO = Append(mdec.InFIFO, command) /\ x.InCounter = mdec.InCounter
      /\ SameStage(mdec, x) /\ SamePixels(mdec, x) /\ x.OutFIFO = mdec.OutFIFO
  BY <1>2, FieldNames DEF Shape, SameStage, SamePixels
<1> HIDE DEF x
<1>5. x.InFIFO = <<command>> /\ Len(x.InFIFO) = 1 /\ x.InFIFO \in Seq(FIFOWords)
  BY <1>2, <1>4 DEF FIFOWords
<1>6. WellMade(x) /\ Told(x) /\ x.phase = "command"
  BY <1>2, <1>4, <1>5 DEF WellMade, SameStage, SamePixels, Told
<1>7. game' \in Games /\ game'.at = "busy" /\ game'.command = command /\ game'.moved = 0
      /\ game'.left = WordsOf(command)
  <2>1. WordsOf(command) \in Nat /\ command \in CommandWords
    BY CommandIs, MDECFacts DEF CommandWords
  <2>2. QED
    BY <1>1, <2>1 DEF Games
<1>8. /\ out' \in ChannelStates /\ out'.WordCounter = 0 /\ (out'.on => command.op = 1)
      /\ out'.on \/ mdec.OutFIFO = <<>> \/ command.op # 1
  <2>1. CASE command.op = 1 /\ byDMA
    <3>1. out' = [on |-> TRUE, WordCounter |-> 0, blocks |-> 0]
      BY <1>1, <2>1 DEF NoChannel
    <3>2. 0 \in 0..(Size - 1)
      BY MDECFacts
    <3>3. QED
      BY <2>1, <3>1, <3>2 DEF ChannelStates
  <2>2. CASE ~(command.op = 1 /\ byDMA)
    BY <1>1, <2>2, NoneGoes
  <2>3. QED
    BY <2>1, <2>2
<1>9. Typed(x, in, out', game')
  BY <1>2, <1>6, <1>7, <1>8 DEF Typed
<1>10. Linked(x, in, out', game')
  <2>1. Len(x.OutFIFO) \in Nat /\ Size \in Nat \ {0}
    BY <1>6, MDECFacts, LenProperties DEF WellMade
  <2>2. QED
    BY <1>2, <1>5, <1>7, <1>8, <2>1 DEF Linked
<1>11. Sent(x, in, out', game')
  <2>1. Unread(x, out', game')
    BY <1>2, <1>4, <1>7, <1>8 DEF Unread
  <2>2. QED
    BY <1>2, <1>5, <1>6, <1>7, <2>1 DEF Sent
<1>12. Pictured(out', game', picture')
  <2>1. 0..(game'.moved - 1) = {}
    BY <1>7
  <2>2. QED
    BY <1>1, <2>1 DEF Pictured
<1>13. Kept(x, in, out', game', picture')
  BY <1>6, <1>7, <1>9, <1>10, <1>11, <1>12 DEF Kept, Core, Fed, Resting
<1>14. Kept(mdec', in', out', game', picture') /\ Settled(mdec')
  BY <1>1, <1>3, <1>13, RunKeeps
<1>15. QED
  BY <1>14, KeptNext

LEMMA StartInputKeeps ==
  ASSUME PictureInv, StartInput PROVE PictureInv'
<1>1. /\ Typed(mdec, in, out, game) /\ Core(mdec, in, out, game, picture) /\ Settled(mdec)
      /\ ~mdec.running /\ game.at = "busy" /\ ~in.on
      /\ in' = [on |-> TRUE, WordCounter |-> 0, blocks |-> (game.left + Size - 1) \div Size]
      /\ mdec' = mdec /\ out' = out /\ game' = game /\ picture' = picture
  BY DEF PictureInv, StartInput
<1>2. Going(mdec, out, game) /\ Linked(mdec, in, out, game) /\ in.WordCounter = 0
  <2>1. Going(mdec, out, game)
    BY <1>1, IsGoing
  <2>2. QED
    BY <1>1, <2>1 DEF Core, Linked
<1>3. in' \in ChannelStates /\ in'.WordCounter = 0 /\ in'.on
  <2>1. (game.left + Size - 1) \div Size \in Int
    <3>1. game.left \in Nat /\ Size \in Nat \ {0}
      BY <1>1, MDECFacts DEF Typed, Games
    <3>2. QED
      BY <3>1
  <2>2. 0 \in 0..(Size - 1)
    BY MDECFacts
  <2>3. QED
    BY <1>1, <2>1, <2>2 DEF ChannelStates
<1>4. Typed(mdec, in', out, game)
  BY <1>1, <1>3 DEF Typed
<1>5. Linked(mdec, in', out, game)
  BY <1>1, <1>2, <1>3 DEF Linked
<1>6. Fed(mdec, in', out, game)
  BY <1>2 DEF Going, Fed
<1>7. Kept(mdec, in', out, game, picture)
  BY <1>1, <1>4, <1>5, <1>6 DEF Kept, Core
<1>8. QED
  BY <1>1, <1>7, KeptNext

LEMMA SupplyDoes ==
  ASSUME game \in Games, Supply PROVE Supplies1(game, game')
<1>1. game' = [game EXCEPT !.left = IF game.left > 0 THEN game.left - 1 ELSE 0]
  BY DEF Supply
<1>2. (IF game.left > 0 THEN game.left - 1 ELSE 0) \in Nat
  BY DEF Games
<1>3. QED
  BY <1>1, <1>2 DEF Games, Supplies1

LEMMA WriteWordKeeps ==
  ASSUME PictureInv, NEW w \in Data \cup {Padding}, WriteWord(w) PROVE PictureInv'
<1> DEFINE x == [mdec EXCEPT !.InFIFO = Append(@, w),
                             !.ClockCounter = IF ~mdec.InCommand /\ @ < 1 THEN 1 ELSE @]
<1>1. /\ Typed(mdec, in, out, game) /\ Core(mdec, in, out, game, picture) /\ Settled(mdec)
      /\ ~mdec.running /\ game.at = "busy" /\ ~in.on /\ Len(mdec.InFIFO) < Size /\ IsNext(game, w)
      /\ mdec' = WriteData(mdec, w) /\ Supply /\ in' = in /\ out' = out /\ picture' = picture
  BY DEF PictureInv, WriteWord, Word, IsNext
<1>2. /\ WellMade(mdec) /\ Shape(mdec) /\ in \in ChannelStates /\ in.WordCounter = 0
      /\ game \in Games /\ Len(mdec.InFIFO) \in Nat /\ Size \in Nat
  BY <1>1, MDECFacts, LenProperties DEF Typed, WellMade, Core, Linked
<1>3. mdec' = MDEC_Run(x, 0)
  <2>1. Len(mdec.InFIFO) # Size
    BY <1>1, <1>2
  <2>2. QED
    BY <1>1, <2>1 DEF WriteData
<1>4. /\ Shape(x) /\ x.InFIFO = Append(mdec.InFIFO, w) /\ x.InCounter = mdec.InCounter
      /\ SameStage(mdec, x) /\ SamePixels(mdec, x) /\ SameRows(mdec, x) /\ x.OutFIFO = mdec.OutFIFO
  BY <1>2, FieldNames DEF Shape, SameStage, SamePixels, SameRows
<1> HIDE DEF x
<1>5. in.WordCounter + Len(mdec.InFIFO) + 1 <= Size
  BY <1>1, <1>2
<1>6. Supplies1(game, game') /\ w \in FIFOWords
  BY <1>1, <1>2, SupplyDoes DEF FIFOWords
<1>7. Kept(x, in, out, game', picture)
  BY <1>1, <1>2, <1>4, <1>5, <1>6, InputKeeps
<1>8. Kept(mdec', in', out', game', picture') /\ Settled(mdec')
  BY <1>1, <1>3, <1>7, RunKeeps
<1>9. QED
  BY <1>8, KeptNext

\* A channel goes on with its block, or the next, or has ended.
LEMMA WordMovedDoes ==
  ASSUME NEW c \in ChannelStates
  PROVE  /\ WordMoved(c) \in ChannelStates /\ (WordMoved(c).on \/ WordMoved(c).WordCounter = 0)
         /\ WordMoved(c).WordCounter <= (IF c.WordCounter = 0 THEN Size ELSE c.WordCounter) - 1
<1> DEFINE left   == (IF c.WordCounter = 0 THEN Size ELSE c.WordCounter) - 1
           blocks == IF c.WordCounter = 0 THEN c.blocks - 1 ELSE c.blocks
<1>1. WordMoved(c) = IF left = 0 /\ blocks = 0 THEN NoChannel
                     ELSE [on |-> TRUE, WordCounter |-> left, blocks |-> blocks]
  BY DEF WordMoved
<1>2. c.WordCounter \in 0..(Size - 1) /\ c.blocks \in Int /\ Size \in Nat \ {0}
  BY MDECFacts DEF ChannelStates
<1>3. left \in 0..(Size - 1) /\ blocks \in Int
  BY <1>2
<1> HIDE DEF blocks
<1>4. CASE left = 0 /\ blocks = 0
  <2>1. WordMoved(c) = NoChannel
    BY <1>1, <1>4
  <2>2. QED
    BY <1>4, <2>1, NoneGoes
<1>5. CASE ~(left = 0 /\ blocks = 0)
  <2> HIDE DEF left
  <2>1. WordMoved(c) = [on |-> TRUE, WordCounter |-> left, blocks |-> blocks]
    BY <1>1, <1>5
  <2>2. WordMoved(c) \in ChannelStates /\ WordMoved(c).on /\ WordMoved(c).WordCounter = left
    BY <1>3, <2>1 DEF ChannelStates
  <2>3. QED
    BY <1>3, <2>2 DEF left
<1>6. QED
  BY <1>4, <1>5

LEMMA InputWordKeeps ==
  ASSUME PictureInv, NEW w \in Data \cup {Padding}, InputWord(w) PROVE PictureInv'
<1> DEFINE x == [mdec EXCEPT !.InFIFO = Append(@, w)]
<1>1. /\ Typed(mdec, in, out, game) /\ Core(mdec, in, out, game, picture) /\ Settled(mdec)
      /\ ~mdec.running /\ in.on /\ IsNext(game, w) /\ (Begins(in) => MDEC_DMACanWrite(mdec))
      /\ mdec' = MDEC_DMAWrite(mdec, w) /\ Supply /\ in' = WordMoved(in) /\ out' = out /\ picture' = picture
  BY DEF PictureInv, InputWord, Word, IsNext
<1>2. /\ WellMade(mdec) /\ Shape(mdec) /\ in \in ChannelStates /\ in.WordCounter \in Nat
      /\ game \in Games /\ Len(mdec.InFIFO) \in Nat /\ Size \in Nat \ {0} /\ game.at = "busy"
      /\ in.WordCounter + Len(mdec.InFIFO) <= Size
  BY <1>1, MDECFacts, LenProperties DEF Typed, WellMade, Core, Linked, ChannelStates
<1>3. in.WordCounter = 0 => Len(mdec.InFIFO) = 0
  <2>1. in.WordCounter = 0 => mdec.InFIFO = <<>>
    BY <1>1 DEF Begins, MDEC_DMACanWrite
  <2>2. QED
    BY <2>1
<1>4. Len(mdec.InFIFO) < Size
  BY <1>2, <1>3
<1>5. mdec' = MDEC_Run(x, 0)
  BY <1>1, <1>2, <1>4 DEF MDEC_DMAWrite
<1>6. /\ Shape(x) /\ x.InFIFO = Append(mdec.InFIFO, w) /\ x.InCounter = mdec.InCounter
      /\ SameStage(mdec, x) /\ SamePixels(mdec, x) /\ SameRows(mdec, x) /\ x.OutFIFO = mdec.OutFIFO
  BY <1>2, FieldNames DEF Shape, SameStage, SamePixels, SameRows
<1> HIDE DEF x
<1>7. /\ in' \in ChannelStates /\ (in'.on \/ in'.WordCounter = 0)
      /\ in'.WordCounter <= (IF in.WordCounter = 0 THEN Size ELSE in.WordCounter) - 1
  BY <1>1, <1>2, WordMovedDoes
<1>8. in'.WordCounter + Len(mdec.InFIFO) + 1 <= Size
  <2>1. in'.WordCounter \in Nat
    BY <1>7, MDECFacts DEF ChannelStates
  <2>2. QED
    BY <1>2, <1>3, <1>7, <2>1
<1>9. Supplies1(game, game') /\ w \in FIFOWords
  BY <1>1, <1>2, SupplyDoes DEF FIFOWords
<1>10. Kept(x, in', out, game', picture)
  BY <1>1, <1>2, <1>6, <1>7, <1>8, <1>9, InputKeeps
<1>11. Kept(mdec', in', out', game', picture') /\ Settled(mdec')
  BY <1>1, <1>5, <1>10, RunKeeps
<1>12. QED
  BY <1>11, KeptNext

\* A word that is stored.
LEMMA StoreDoes ==
  ASSUME game \in Games, NEW place, Store(place)
  PROVE  /\ game' \in Games /\ game'.at = game.at /\ game'.command = game.command /\ game'.left = game.left
         /\ game'.moved = game.moved + 1
         /\ picture' = picture \cup {[place |-> place, word |-> Head(mdec.OutFIFO)]}
<1>1. game' = [game EXCEPT !.moved = game.moved + 1] /\ game.moved + 1 \in Nat
  BY DEF Store, Games
<1>2. QED
  BY <1>1 DEF Store, Games

LEMMA OutputWordKeeps ==
  ASSUME PictureInv, OutputWord PROVE PictureInv'
<1> DEFINE counter == (mdec.RAMOffsetCounter - 1) % 256
           x == [mdec EXCEPT !.OutFIFO = Tail(@),
                             !.RAMOffsetCounter = IF counter = 0 THEN mdec.RAMOffsetWWS ELSE counter,
                             !.RAMOffsetY = IF counter = 0 THEN (@ + 1) % 256 ELSE @]
<1>1. /\ Typed(mdec, in, out, game) /\ Core(mdec, in, out, game, picture) /\ Settled(mdec)
      /\ ~mdec.running /\ out.on /\ (Begins(out) => MDEC_DMACanRead(mdec))
      /\ mdec' = MDEC_DMARead(mdec) /\ in' = in /\ Store(game.moved + RAMOffset(mdec))
      /\ out' = [on |-> TRUE, blocks |-> 0,
                 WordCounter |-> (IF out.WordCounter = 0 THEN Size ELSE out.WordCounter) - 1]
  BY DEF PictureInv, OutputWord
<1>2. /\ WellMade(mdec) /\ Shape(mdec) /\ out \in ChannelStates /\ out.WordCounter \in 0..(Size - 1)
      /\ game \in Games /\ game.command \in Commands /\ Len(mdec.OutFIFO) \in Nat /\ Size \in Nat \ {0}
      /\ game.at = "busy" /\ game.command.op = 1 /\ out.WordCounter <= Len(mdec.OutFIFO)
  <2>1. Linked(mdec, in, out, game) /\ WellMade(mdec) /\ out \in ChannelStates /\ game \in Games
    BY <1>1 DEF Typed, Core
  <2>2. game.at = "busy" /\ game.command.op = 1 /\ out.WordCounter <= Len(mdec.OutFIFO)
    BY <1>1, <2>1 DEF Linked
  <2>3. game.command \in Commands
    BY <1>1, <2>2 DEF Typed
  <2>4. QED
    BY <2>1, <2>2, <2>3, MDECFacts, LenProperties DEF WellMade, ChannelStates
<1>3. out.WordCounter = 0 => Len(mdec.OutFIFO) >= Size
  BY <1>1 DEF Begins, MDEC_DMACanRead
<1>4. mdec.OutFIFO # <<>>
  <2>1. Len(mdec.OutFIFO) # 0
    BY <1>2, <1>3
  <2>2. QED
    BY <2>1
<1>5. (Works(mdec, game) \/ Over(mdec, game)) /\ Streams(mdec, out, game)
  <2>1. Going(mdec, out, game)
    BY <1>1, <1>2, IsGoing
  <2>2. ~Begun(mdec, out, game)
    BY <1>2, <1>3 DEF Begun, Unread
  <2>3. QED
    BY <2>1, <2>2 DEF Going
<1>6. mdec' = MDEC_Run(x, 0)
  BY <1>1, <1>4 DEF MDEC_DMARead
<1>7. /\ Shape(x) /\ x.OutFIFO = Tail(mdec.OutFIFO)
      /\ SameInput(mdec, x) /\ SameStage(mdec, x) /\ SamePixels(mdec, x)
      /\ x.RAMOffsetWWS = mdec.RAMOffsetWWS
      /\ x.RAMOffsetCounter = (IF counter = 0 THEN mdec.RAMOffsetWWS ELSE counter)
      /\ x.RAMOffsetY = (IF counter = 0 THEN (mdec.RAMOffsetY + 1) % 256 ELSE mdec.RAMOffsetY)
  <2> HIDE DEF counter
  <2>1. QED
    BY <1>2, FieldNames DEF Shape, SameInput, SameStage, SamePixels
<1> HIDE DEF x
<1>8. /\ game' \in Games /\ game'.at = "busy" /\ game'.command = game.command /\ game'.left = game.left
      /\ game'.moved = game.moved + 1
      /\ picture' = picture \cup {[place |-> game.moved + RAMOffset(mdec), word |-> Head(mdec.OutFIFO)]}
  BY <1>1, <1>2, StoreDoes
<1>9. InRow(mdec, game)
  BY <1>1, <1>2, <1>5 DEF Streams
<1>10. InRow(x, game')
  BY <1>2, <1>7, <1>8, <1>9, NextInRow
<1>11. game.moved + RAMOffset(mdec) = PlaceOf(out.on, game.command.depth, game.moved)
  BY <1>1, <1>2, <1>9, PlacedRight
<1>12. out' \in ChannelStates /\ out'.on = out.on /\ out'.WordCounter + 1 <= Len(mdec.OutFIFO)
  <2>1. PICK left \in 0..(Size - 1) : left = (IF out.WordCounter = 0 THEN Size ELSE out.WordCounter) - 1
    BY <1>2
  <2>2. left + 1 <= Len(mdec.OutFIFO)
    BY <1>2, <1>3, <2>1
  <2>3. out' = [on |-> TRUE, blocks |-> 0, WordCounter |-> left]
    BY <1>1, <2>1
  <2>4. QED
    BY <1>1, <2>2, <2>3 DEF ChannelStates
<1>13. Kept(x, in, out', game', picture')
  <2>1. out.on => InRow(x, game')
    BY <1>10
  <2>2. out'.on \/ out'.WordCounter = 0
    BY <1>1, <1>12
  <2>3. picture' = picture \cup {[place |-> PlaceOf(out.on, game.command.depth, game.moved),
                                 word |-> Head(mdec.OutFIFO)]}
    BY <1>8, <1>11
  <2>4. TakesOne(mdec, out, game, picture, x, out', game', picture')
    BY <1>4, <1>5, <1>7, <1>8, <1>12, <2>1, <2>2, <2>3, Zenon DEF TakesOne
  <2>5. Busy(mdec, in, out, game, picture)
    BY <1>1, <1>2 DEF Busy
  <2>6. QED
    BY <1>2, <2>4, <2>5, OutputKeeps
<1>14. Kept(mdec', in', out', game', picture') /\ Settled(mdec')
  BY <1>1, <1>6, <1>13, RunKeeps
<1>15. QED
  BY <1>14, KeptNext

LEMMA ReadWordKeeps ==
  ASSUME PictureInv, ReadWord PROVE PictureInv'
<1>1. /\ Typed(mdec, in, out, game) /\ Core(mdec, in, out, game, picture) /\ Settled(mdec)
      /\ ~mdec.running /\ game.at = "busy" /\ game.command.op = 1 /\ ~out.on /\ mdec.OutFIFO # <<>>
      /\ mdec' = [mdec EXCEPT !.OutFIFO = Tail(@)] /\ Store(game.moved) /\ in' = in /\ out' = out
  BY DEF PictureInv, ReadWord
<1>2. /\ WellMade(mdec) /\ Shape(mdec) /\ out \in ChannelStates /\ game \in Games /\ game.command \in Commands
      /\ Len(mdec.OutFIFO) \in Nat /\ out.WordCounter = 0
  BY <1>1, LenProperties DEF Typed, WellMade, Core, Linked
<1>3. (Works(mdec, game) \/ Over(mdec, game)) /\ Streams(mdec, out, game)
  <2>1. Going(mdec, out, game)
    BY <1>1, IsGoing
  <2>2. ~Begun(mdec, out, game)
    BY <1>1 DEF Begun, Unread
  <2>3. QED
    BY <2>1, <2>2 DEF Going
<1>4. /\ Shape(mdec') /\ mdec'.OutFIFO = Tail(mdec.OutFIFO) /\ mdec'.running = mdec.running
      /\ SameInput(mdec, mdec') /\ SameStage(mdec, mdec') /\ SamePixels(mdec, mdec')
  BY <1>1, <1>2, FieldNames DEF Shape, SameInput, SameStage, SamePixels
<1>5. /\ game' \in Games /\ game'.at = "busy" /\ game'.command = game.command /\ game'.left = game.left
      /\ game'.moved = game.moved + 1
      /\ picture' = picture \cup {[place |-> game.moved, word |-> Head(mdec.OutFIFO)]}
  BY <1>1, <1>2, StoreDoes
<1>6. game.moved = PlaceOf(out.on, game.command.depth, game.moved)
  BY <1>1 DEF PlaceOf
<1>7. out.WordCounter + 1 <= Len(mdec.OutFIFO)
  <2>1. Len(mdec.OutFIFO) # 0
    BY <1>1, <1>2, EmptySeq DEF WellMade
  <2>2. QED
    BY <1>2, <2>1
<1>8. Kept(mdec', in, out, game', picture')
  <2>1. (out.on => InRow(mdec', game')) /\ (out.on \/ out.WordCounter = 0)
    BY <1>1, <1>2
  <2>2. picture' = picture \cup {[place |-> PlaceOf(out.on, game.command.depth, game.moved),
                                 word |-> Head(mdec.OutFIFO)]}
    BY <1>5, <1>6
  <2>3. TakesOne(mdec, out, game, picture, mdec', out, game', picture')
    BY <1>1, <1>2, <1>3, <1>4, <1>5, <1>7, <2>1, <2>2, Zenon DEF TakesOne
  <2>4. Busy(mdec, in, out, game, picture)
    BY <1>1 DEF Busy
  <2>5. QED
    BY <1>1, <2>3, <2>4, OutputKeeps
<1>9. Settled(mdec')
  BY <1>1, <1>4 DEF Settled, SameInput, SameStage
<1>10. QED
  BY <1>1, <1>8, <1>9, KeptNext

LEMMA NextKeepsPicture ==
  ASSUME PictureInv, [MDEC_Next]_mdecVars PROVE PictureInv'
<1>1. ASSUME UNCHANGED mdecVars PROVE PictureInv'
  <2>1. mdec' = mdec /\ in' = in /\ out' = out /\ game' = game /\ picture' = picture
    BY <1>1 DEF mdecVars
  <2>2. QED
    BY <2>1 DEF PictureInv
<1>2. CASE Resume
  BY <1>2, ResumeKeeps
<1>3. CASE Enable
  BY <1>3, EnableKeeps
<1>4. CASE Finish
  BY <1>4, FinishKeeps
<1>5. CASE Reset
  BY <1>5, ResetKeeps
<1>6. CASE StartInput
  BY <1>6, StartInputKeeps
<1>7. CASE OutputWord
  BY <1>7, OutputWordKeeps
<1>8. CASE ReadWord
  BY <1>8, ReadWordKeeps
<1>9. ASSUME NEW command \in Commands, NEW byDMA \in BOOLEAN, Command(command, byDMA) PROVE PictureInv'
  BY <1>9, CommandKeeps
<1>10. ASSUME NEW w \in Data \cup {Padding}, WriteWord(w) PROVE PictureInv'
  BY <1>10, WriteWordKeeps
<1>11. ASSUME NEW w \in Data \cup {Padding}, InputWord(w) PROVE PictureInv'
  BY <1>11, InputWordKeeps
<1>12. ASSUME NEW clocks \in Clocks, MDEC_Update(clocks) PROVE PictureInv'
  BY <1>12, UpdateKeeps
<1>13. QED
  BY <1>1, <1>2, <1>3, <1>4, <1>5, <1>6, <1>7, <1>8, <1>9, <1>10, <1>11, <1>12 DEF MDEC_Next

\* The stages of a command, the words supplied for it, and its picture, in every state of
\* the coroutine MDEC_Run, of the two channels and of the game.
THEOREM PictureInvariance == MDEC_Spec => []PictureInv
<1>1. MDEC_Init => PictureInv
  BY InitPictureInv
<1>2. PictureInv /\ [MDEC_Next]_mdecVars => PictureInv'
  BY NextKeepsPicture
<1>3. QED
  BY <1>1, <1>2, PTL DEF MDEC_Spec

\* A channel that MDEC_DMACanWrite or MDEC_DMACanRead let begin a block finds room or words
\* for all that is left of it: no word of the input is lost to a full FIFO, and none is read
\* from an empty one, though neither is asked again between the words of a block.
THEOREM BlocksDoFit == MDEC_Spec => []BlocksFit
<1>1. PictureInv => BlocksFit
  <2>1. SUFFICES ASSUME PictureInv PROVE BlocksFit
    OBVIOUS
  <2>2. Linked(mdec, in, out, game) /\ WellMade(mdec) /\ in \in ChannelStates
    BY <2>1 DEF PictureInv, Typed, Core
  <2>3. Len(mdec.InFIFO) \in Nat /\ in.WordCounter \in Nat /\ Size \in Nat
    BY <2>2, MDECFacts, LenProperties DEF WellMade, ChannelStates
  <2>4. QED
    BY <2>2, <2>3 DEF Linked, BlocksFit
<1>2. QED
  BY <1>1, PictureInvariance, PTL

\* Whatever cuts the decoding in pieces (a word at a time in, a full FIFO out, a clock that
\* runs out) every word of every luminance block is stored once, in the order EncodeImage
\* makes them, and where RAMOffsetY, RAMOffsetCounter and RAMOffsetWWS of MDEC_DMARead put it.
THEOREM PicturesAreWhole == MDEC_Spec => []PictureIsWhole
<1>1. PictureInv => PictureIsWhole
  <2>1. SUFFICES ASSUME PictureInv, game.at = "busy" PROVE PictureIsWhole
    BY DEF PictureIsWhole
  <2> DEFINE depth == game.command.depth
  <2>2. picture = {StoredWord(out.on, depth, k) : k \in 0..(game.moved - 1)}
    BY <2>1 DEF PictureInv, Core, Pictured
  <2>3. ASSUME NEW k
        PROVE  StoredWord(out.on, depth, k)
                 = [place |-> PictureAt(k), word |-> [block |-> k \div (Rows * Width[depth]),
                                                     at |-> k % (Rows * Width[depth])]]
    <3>1. PlaceOf(out.on, depth, k) = PictureAt(k)
      BY DEF PlaceOf, PictureAt
    <3>2. QED
      BY <3>1, Zenon DEF StoredWord, Pixel, BlockSize
  <2>4. QED
    BY <2>1, <2>2, <2>3 DEF PictureIsWhole
<1>2. QED
  BY <1>1, PictureInvariance, PTL
==============================================================================

---------------------------- MODULE Multitap_proofs ----------------------------
(***************************************************************************)
(* The multitap in a full transfer, with the pads behind it: each answers  *)
(* in its own slot, and the motors of a DualShock are told what the last   *)
(* transfer had in that slot. For every setup and sequence of bytes.       *)
(*                                                                         *)
(* The invariant is PortMotors, PortTaps and PortSlots with the PortInv    *)
(* and PortFollows of Peripherals_proofs:                                  *)
(*   PortMotors  every DualShock has two motors;                           *)
(*   PortTaps    the rows of the tap are whole, and it keeps what it has   *)
(*               gathered only from a full transfer that came to its end;  *)
(*   PortSlots   where each pad is in a poll of its own after n bytes,     *)
(*               what the rows have of it, and what it will be told.       *)
(***************************************************************************)
EXTENDS Peripherals_proofs

-----------------------------------------------------------------------------
(* The motors of a DualShock.                                                  *)
HasMotors(p) == {"param", "compat"} \subseteq DOMAIN p /\ p.param = [k \in 1..2 |-> p.param[k]]

\* The motors and what they are told by are what they were.
SameMotors(p, q) == DOMAIN q = DOMAIN p /\ q.param = p.param /\ q.compat = p.compat

LEMMA MotorsStay ==
  ASSUME NEW p, HasMotors(p), NEW q, SameMotors(p, q)
  PROVE  HasMotors(q)
BY DEF HasMotors, SameMotors

LEMMA MotorsGo ==
  ASSUME NEW d, HasMotors(d), NEW b, NEW k \in 1..2
  PROVE  LET w == Motors(d, b, k) IN
         /\ w = [j \in 1..2 |-> w[j]]
         /\ d.compat => w[k] = b /\ \A j \in 1..2 \ {k} : w[j] = d.param[j]
<1> DEFINE w == Motors(d, b, k)
           r == d.param
<1>1. w \in {r, [r EXCEPT ![1] = b], [r EXCEPT ![2] = b]}
  <2> HIDE DEF r
  <2>1. \/ w = [r EXCEPT ![k] = b] \/ w = r \/ w = [r EXCEPT ![1] = b] \/ w = [r EXCEPT ![2] = b]
    BY DEF Motors, r
  <2> HIDE DEF w
  <2>2. k = 1 \/ k = 2
    OBVIOUS
  <2>3. QED
    BY <2>1, <2>2
<1>2. d.compat => w = [r EXCEPT ![k] = b]
  BY DEF Motors
<1>3. r = [j \in 1..2 |-> r[j]]
  BY DEF HasMotors
<1> HIDE DEF w, r
<1>4. w = [j \in 1..2 |-> w[j]]
  BY <1>1, <1>3
<1>5. d.compat => w[k] = b /\ \A j \in 1..2 \ {k} : w[j] = r[j]
  BY <1>2, <1>3
<1>6. QED
  BY <1>4, <1>5 DEF w, r

\* The steps of a byte, one by one.
LEMMA ShockClockSplit ==
  ASSUME NEW p, ShockIs(p), NEW b
  PROVE  LET q == Shock_Clock(p, b)
             d == Dropped(p)
         IN  \/ q \in {p, d, Addressing(d, b), Commanded(d, b), MayEnter(d, b), ConfigCommand(d, b)}
             \/ PollPhase(d.phase) /\ q = Poll(d, b)
             \/ ConfigPhase(d) /\ q = Config(d, b)
<1> DEFINE q == Shock_Clock(p, b)
           d == Dropped(p)
<1>1. q = CASE ~p.dtr -> p
            [] p.dtr /\ d.phase = -1 -> d
            [] p.dtr /\ d.phase = 0 -> Addressing(d, b)
            [] p.dtr /\ d.phase = 1 -> Commanded(d, b)
            [] p.dtr /\ d.phase = 2 -> MayEnter(d, b)
            [] p.dtr /\ d.phase = 101 -> ConfigCommand(d, b)
            [] p.dtr /\ d.phase \in At(66, 0)..At(66, 6) -> Poll(d, b)
            [] OTHER -> Config(d, b)
  BY Zenon DEF Shock_Clock, Dropped
<1>2. p.dtr \in BOOLEAN /\ ShockPhase(d)
  BY DroppedDoes DEF PadIsWell, ShockIs
<1> DEFINE a1 == Addressing(d, b)
           a2 == Commanded(d, b)
           a3 == MayEnter(d, b)
           a4 == ConfigCommand(d, b)
           a5 == Poll(d, b)
           a6 == Config(d, b)
<1>3. d.phase \notin {-1, 0, 1, 2, 101} \cup At(66, 0)..At(66, 6) => ConfigPhase(d)
  <2> HIDE DEF d
  <2>1. QED
    BY <1>2 DEF ShockPhase, ConfigPhase
<1> HIDE DEF q, d, a1, a2, a3, a4, a5, a6
<1>4. \/ q \in {p, d, a1, a2, a3, a4}
      \/ d.phase \in At(66, 0)..At(66, 6) /\ q = a5
      \/ d.phase \notin {-1, 0, 1, 2, 101} \cup At(66, 0)..At(66, 6) /\ q = a6
  BY <1>1, <1>2 DEF a1, a2, a3, a4, a5, a6
<1>5. QED
  BY <1>3, <1>4, Zenon DEF PollPhase, q, d, a1, a2, a3, a4, a5, a6

LEMMA PollMotors ==
  ASSUME NEW d, ShockIs(d), HasMotors(d), NEW b
  PROVE  HasMotors(Poll(d, b))
<1> DEFINE q == Poll(d, b)
           w1 == Motors(d, b, 1)
           w2 == Motors(d, b, 2)
           w3 == IF ~d.compat /\ d.magic[2] = 0 /\ d.magic[3] = 1 THEN [d.param EXCEPT ![2] = b] ELSE d.param
           c0 == PollData(d)
           c1 == [d EXCEPT !.param = w1, !.phase = @ + 1]
           c2 == [d EXCEPT !.param = w2, !.phase = @ + 1]
           c3 == [d EXCEPT !.param = w3, !.phase = @ + 1]
<1>1. q = CASE d.phase = At(66, 0) -> c0
            [] d.phase = At(66, 1) -> c1
            [] d.phase = At(66, 2) -> c2
            [] d.phase = At(66, 3) -> c3
            [] OTHER -> d
  BY Zenon DEF Poll
<1>2. \A w : w = [j \in 1..2 |-> w[j]] => HasMotors([d EXCEPT !.param = w, !.phase = @ + 1])
  <2>1. TAKE w
  <2> DEFINE e == [d EXCEPT !.param = w, !.phase = @ + 1]
  <2>2. e.param = w /\ DOMAIN e = DOMAIN d
    BY Zenon DEF HasMotors
  <2> HIDE DEF e
  <2>3. w = [j \in 1..2 |-> w[j]] => HasMotors(e)
    BY <2>2 DEF HasMotors
  <2>4. QED
    BY <2>3 DEF e
<1>3. w1 = [j \in 1..2 |-> w1[j]] /\ w2 = [j \in 1..2 |-> w2[j]]
  BY MotorsGo
<1>4. w3 = [j \in 1..2 |-> w3[j]]
  BY DEF HasMotors
<1>5. HasMotors(c0)
  <2>1. SameMotors(d, c0)
    BY Zenon DEF PollData, SameMotors, HasMotors
  <2>2. QED
    BY <2>1, MotorsStay
<1> HIDE DEF w1, w2, w3
<1>6. HasMotors(c1) /\ HasMotors(c2) /\ HasMotors(c3)
  BY <1>2, <1>3, <1>4, Zenon
<1> HIDE DEF q, c0, c1, c2, c3
<1>7. q \in {c0, c1, c2, c3, d}
  BY <1>1
<1>8. QED
  BY <1>5, <1>6, <1>7 DEF q

LEMMA MayEnterMotors ==
  ASSUME NEW d, HasMotors(d), NEW b
  PROVE  HasMotors(MayEnter(d, b))
<1> DEFINE w == IF d.compat THEN [k \in 1..2 |-> 0] ELSE d.param
           q == [d EXCEPT !.config = TRUE, !.phase = -1, !.compat = FALSE, !.param = w]
<1>1. w = [k \in 1..2 |-> w[k]]
  BY DEF HasMotors
<1>2. MayEnter(d, b) = q \/ MayEnter(d, b) = d
  BY Zenon DEF MayEnter
<1> HIDE DEF w
<1>3. q.param = w /\ DOMAIN q = DOMAIN d
  BY Zenon DEF HasMotors
<1> HIDE DEF q
<1>4. HasMotors(q)
  BY <1>1, <1>3 DEF HasMotors
<1>5. QED
  BY <1>2, <1>4

LEMMA ConfigMotors ==
  ASSUME NEW d, ShockIs(d), HasMotors(d), ConfigPhase(d), NEW b
  PROVE  SameMotors(d, Config(d, b))
<1>0. {"param", "compat"} \subseteq DOMAIN d
  BY DEF HasMotors
<1> DEFINE q == Config(d, b)
           n == d.phase - At(d.command, 0)
<1>1. /\ d.command \in Int /\ n \in 0..6 /\ (d.command # 77 => n \in 0..2)
  BY DEF ConfigPhase, At
<1>2. CASE n = 0
  <2>1. q = IF b = 0 THEN [d EXCEPT !.tx = <<First(d)>>, !.phase = @ + 1] ELSE [d EXCEPT !.phase = -1]
    BY <1>2 DEF Config
  <2> HIDE DEF q
  <2>2. QED
    BY <1>0, <2>1, Zenon DEF SameMotors, q
<1>3. CASE n > 0 /\ d.command = 77
  <2> DEFINE i == d.phase - At(77, 0)
  <2>1. q = Magic(d, b)
    BY <1>1, <1>3 DEF Config
  <2>2. q = [d EXCEPT !.magic[i] = b, !.tx = IF i < 6 THEN <<d.magic[i + 1]>> ELSE @,
                      !.phase = IF i < 6 THEN @ + 1 ELSE -1]
    BY <2>1 DEF Magic
  <2> HIDE DEF q, i
  <2>3. QED
    BY <1>0, <2>2, Zenon DEF SameMotors, q
<1>4. CASE n = 1 /\ d.command # 77
  <2>1. q = Second(d, b)
    BY <1>1, <1>4 DEF Config
  <2> HIDE DEF q
  <2>2. QED
    BY <1>0, <2>1, Zenon DEF SameMotors, Second, q
<1>5. CASE n = 2 /\ d.command # 77
  <2>1. q = Lock(d, b)
    BY <1>1, <1>5 DEF Config
  <2> HIDE DEF q
  <2>2. QED
    BY <1>0, <2>1, Zenon DEF SameMotors, Lock, q
<1>6. QED
  BY <1>1, <1>2, <1>3, <1>4, <1>5

LEMMA ShockMotors ==
  ASSUME NEW p, ShockIs(p), HasMotors(p), NEW b
  PROVE  HasMotors(Shock_Clock(p, b))
<1> DEFINE q == Shock_Clock(p, b)
           d == Dropped(p)
<1>1. \/ q \in {p, d, Addressing(d, b), Commanded(d, b), MayEnter(d, b), ConfigCommand(d, b)}
      \/ PollPhase(d.phase) /\ q = Poll(d, b)
      \/ ConfigPhase(d) /\ q = Config(d, b)
  BY ShockClockSplit
<1>2. ShockIs(d)
  BY DroppedDoes
<1>0. {"param", "compat"} \subseteq DOMAIN p
  BY DEF HasMotors
<1>3. HasMotors(d)
  <2>1. SameMotors(p, d)
    BY <1>0, Zenon DEF Dropped, SameMotors
  <2>2. QED
    BY <2>1, MotorsStay
<1>12. {"param", "compat"} \subseteq DOMAIN d
  BY <1>3 DEF HasMotors
<1> HIDE DEF q, d
<1>4. CASE q \in {p, d}
  BY <1>3, <1>4 DEF q
<1>5. CASE q = Addressing(d, b)
  <2>1. SameMotors(d, q)
    BY <1>12, <1>5, Zenon DEF Addressing, SameMotors
  <2>2. QED
    BY <1>3, <2>1, MotorsStay DEF q
<1>6. CASE q = Commanded(d, b)
  <2>1. SameMotors(d, q)
    BY <1>12, <1>6, Zenon DEF Commanded, SameMotors
  <2>2. QED
    BY <1>3, <2>1, MotorsStay DEF q
<1>7. CASE q = MayEnter(d, b)
  BY <1>3, <1>7, MayEnterMotors DEF q
<1>8. CASE q = ConfigCommand(d, b)
  <2>1. SameMotors(d, q)
    BY <1>12, <1>8, Zenon DEF ConfigCommand, SameMotors
  <2>2. QED
    BY <1>3, <2>1, MotorsStay DEF q
<1>9. CASE q = Poll(d, b)
  BY <1>2, <1>3, <1>9, PollMotors DEF q
<1>10. CASE ConfigPhase(d) /\ q = Config(d, b)
  <2>1. SameMotors(d, q)
    BY <1>2, <1>3, <1>10, ConfigMotors
  <2>2. QED
    BY <1>3, <2>1, MotorsStay DEF q
<1>11. QED
  BY <1>1, <1>4, <1>5, <1>6, <1>7, <1>8, <1>9, <1>10

-----------------------------------------------------------------------------
\* A sequence that starts with 90.
Starts90(q) == \E k : k > 0 /\ Holds(q, k) /\ q[1] = 90

LEMMA Starts90Goes ==
  ASSUME NEW q, Starts90(q), NEW r, NEW j, Holds(r, j)
  PROVE  Starts90(q \o r)
<1>1. PICK k : k > 0 /\ Holds(q, k) /\ q[1] = 90
  BY DEF Starts90
<1>2. PICK S : q \in Seq(S) /\ Len(q) = k
  BY <1>1 DEF Holds
<1>3. PICK T : r \in Seq(T) /\ Len(r) = j
  BY DEF Holds
<1>4. k \in Nat /\ j \in Nat
  BY <1>2, <1>3, LenProperties
<1>5. q \in Seq(S \cup T) /\ r \in Seq(S \cup T)
  BY <1>2, <1>3
<1>6. q \o r \in Seq(S \cup T) /\ Len(q \o r) = k + j /\ (q \o r)[1] = q[1]
  BY <1>1, <1>2, <1>3, <1>4, <1>5, ConcatProperties
<1>7. Holds(q \o r, k + j)
  BY <1>6 DEF Holds
<1>8. k + j > 0
  BY <1>1, <1>4
<1>9. QED
  BY <1>1, <1>6, <1>7, <1>8 DEF Starts90

LEMMA Starts90First ==
  ASSUME NEW q, Starts90(q)
  PROVE  q # << >> /\ q[1] = 90
BY LenProperties, EmptySeq DEF Starts90, Holds

LEMMA AnswerStarts ==
  ASSUME NEW p, PlainIs(p), p.kind # "none"
  PROVE  Starts90(AfterPoll(p).tx)
<1>1. {"kind", "dtr", "phase", "tx"} \subseteq DOMAIN p /\ p.kind \in Polled \ {"none"}
  BY DEF PlainIs, PadIsWell, IsShock, Kinds
<1>2. ASSUME NEW down PROVE Starts90(<<90>> \o Buttons(down))
  <2>1. Starts90(<<90>>)
    BY HoldsOne DEF Starts90
  <2>2. Holds(Buttons(down), 2)
    BY ButtonsHold
  <2>3. QED
    BY <2>1, <2>2, Starts90Goes, Zenon
<1>3. CASE p.kind = "gamepad"
  <2>1. AfterPoll(p) = GamepadPolled(p)
    BY <1>3 DEF AfterPoll, Mice
  <2>2. GamepadPolled(p).tx = <<90>> \o Buttons(p.held)
    BY <1>1, Zenon DEF GamepadPolled
  <2>3. QED
    BY <1>2, <2>1, <2>2
<1>4. CASE p.kind \in {"dualanalog", "analogjoy"}
  <2>1. AfterPoll(p) = DualAnalogPolled(p)
    BY <1>4 DEF AfterPoll, Mice
  <2>2. DualAnalogPolled(p).tx = (<<90>> \o Buttons(p.held)) \o Sticks
    BY <1>1, Zenon DEF DualAnalogPolled
  <2>3. Holds(Sticks, 4)
    BY HoldsFour DEF Sticks
  <2>4. Starts90((<<90>> \o Buttons(p.held)) \o Sticks)
    BY <1>2, <2>3, Starts90Goes, Zenon
  <2>5. QED
    BY <2>1, <2>2, <2>4
<1>5. CASE p.kind = "negcon"
  <2>1. AfterPoll(p) = NegconPolled(p)
    BY <1>5 DEF AfterPoll, Mice
  <2>2. NegconPolled(p).tx = (<<90>> \o Buttons(p.held)) \o <<128, 0, 0, 0>>
    BY <1>1, Zenon DEF NegconPolled
  <2>3. Holds(<<128, 0, 0, 0>>, 4)
    BY HoldsFour
  <2>4. Starts90((<<90>> \o Buttons(p.held)) \o <<128, 0, 0, 0>>)
    BY <1>2, <2>3, Starts90Goes, Zenon
  <2>5. QED
    BY <2>1, <2>2, <2>4
<1>6. CASE p.kind = "mouse"
  <2>1. AfterPoll(p) = MousePolled(p)
    BY <1>6 DEF AfterPoll, Mice
  <2> DEFINE w == IF p.pressed THEN 248 ELSE 252
             z == Reported(p) % 256
  <2>2. MousePolled(p) = [p EXCEPT !.tx = <<90, 255, w, z, 0>>, !.moved = @ - Reported(p),
                                   !.pressed = p.held /\ @, !.quiet = 0]
    BY Zenon DEF MousePolled
  <2> HIDE DEF w, z
  <2>3. MousePolled(p).tx = <<90, 255, w, z, 0>>
    BY <1>1, <2>2, Zenon
  <2>4. Starts90(<<90, 255, w, z, 0>>)
    BY HoldsFive DEF Starts90
  <2>5. QED
    BY <2>1, <2>3, <2>4
<1>7. CASE p.kind = "guncon"
  <2>1. AfterPoll(p) = GunConPolled(p)
    BY <1>7 DEF AfterPoll, Mice
  <2> DEFINE w == Trigger(p, 32, {2, 3})
             r == IF p.hit /\ p.shot = 0 THEN <<2, 0, 20, 0>> ELSE <<1, 0, 10, 0>>
  <2>2. GunConPolled(p) = [p EXCEPT !.tx = <<90, 255, w>> \o r, !.pressed = p.held, !.hit = FALSE]
    BY Zenon DEF GunConPolled
  <2>3. Holds(r, 4)
    BY HoldsFour
  <2> HIDE DEF w, r
  <2>4. GunConPolled(p).tx = <<90, 255, w>> \o r
    BY <1>1, <2>2, Zenon
  <2>5. Starts90(<<90, 255, w>>)
    BY HoldsThree DEF Starts90
  <2>6. Starts90(<<90, 255, w>> \o r)
    BY <2>3, <2>5, Starts90Goes, Zenon
  <2>7. QED
    BY <2>1, <2>4, <2>6
<1>8. CASE p.kind = "justifier"
  <2>1. AfterPoll(p) = JustifierPolled(p)
    BY <1>8 DEF AfterPoll, Mice
  <2> DEFINE w == Trigger(p, 128, {5, 6})
  <2>2. JustifierPolled(p).tx = <<90, 255, w>>
    BY <1>1, Zenon DEF JustifierPolled
  <2> HIDE DEF w
  <2>3. Starts90(<<90, 255, w>>)
    BY HoldsThree DEF Starts90
  <2>4. QED
    BY <2>1, <2>2, <2>3
<1>9. QED
  BY <1>1, <1>3, <1>4, <1>5, <1>6, <1>7, <1>8 DEF Polled, Mice, Guns

\* A pad with one mode that answers its command answers with 90.
LEMMA PlainBegins ==
  ASSUME NEW pad, PlainIs(pad), pad.dtr, pad.phase = 1, NEW b,
         Pad_Clock(pad, b).tx # << >>
  PROVE  Pad_Clock(pad, b).tx[1] = 90
<1> DEFINE q == Pad_Clock(pad, b)
           p == [pad EXCEPT !.tx = IF @ = << >> THEN @ ELSE Tail(@)]
           a == AfterPoll(p)
           z == [p EXCEPT !.tx = << >>, !.phase = -1]
<1>1. /\ {"kind", "dtr", "phase", "tx"} \subseteq DOMAIN pad /\ pad.dtr = TRUE /\ pad.kind # "none"
      /\ PadIsWell(pad) /\ ~IsShock(pad)
  BY DEF PlainIs, PadIsWell
<1>2. Alters(pad, p) /\ p.phase = pad.phase
  BY <1>1, Zenon DEF Alters
<1>3. q = CASE ~pad.dtr \/ pad.kind = "none" -> pad
            [] pad.dtr /\ p.phase = 0 ->
                 IF b = 1 THEN [p EXCEPT !.tx = <<Id(p.kind)>>, !.phase = 1]
                 ELSE [p EXCEPT !.phase = -1]
            [] pad.dtr /\ p.phase = 1 -> IF b = 66 THEN [a EXCEPT !.phase = 2] ELSE z
            [] pad.dtr /\ p.phase \in {2, 3} /\ p.kind = "justifier" ->
                 [p EXCEPT !.phase = @ + 1,
                           !.detect = IF p.phase = 3 THEN (b \div 16) % 2 = 1 ELSE @]
            [] OTHER -> p
  BY Zenon DEF Pad_Clock
<1> HIDE DEF p, q
<1>4. PlainIs(p) /\ p.kind # "none" /\ {"kind", "dtr", "phase", "tx"} \subseteq DOMAIN p
  BY <1>1, <1>2, PlainGoes DEF PlainIs, Goes, IsShock, Alters
<1>5. z.tx = << >>
  BY <1>4, Zenon
<1> HIDE DEF z
<1>6. q = IF b = 66 THEN [a EXCEPT !.phase = 2] ELSE z
  BY <1>1, <1>2, <1>3
<1>7. q = [a EXCEPT !.phase = 2]
  BY <1>5, <1>6 DEF q
<1>8. Alters(p, a) /\ Starts90(a.tx)
  BY <1>4, AfterPollAlters, AnswerStarts
<1> HIDE DEF a
<1>9. {"phase", "tx"} \subseteq DOMAIN a
  BY <1>4, <1>8 DEF Alters
<1>10. q.tx = a.tx
  BY <1>7, <1>9, Zenon
<1>11. QED
  BY <1>8, <1>10, Starts90First DEF q

\* What Clock does to a DualShock before it looks at the phase leaves the motors.
LEMMA DroppedMotors ==
  ASSUME NEW p, ShockIs(p), HasMotors(p)
  PROVE  SameMotors(p, Dropped(p)) /\ HasMotors(Dropped(p))
<1>1. {"param", "compat"} \subseteq DOMAIN p
  BY DEF HasMotors
<1>2. SameMotors(p, Dropped(p))
  BY <1>1, Zenon DEF Dropped, SameMotors
<1>3. QED
  BY <1>2, MotorsStay

\* The modes of a DualShock give its identification.
LEMMA IdNowIs ==
  ASSUME NEW p, IsShock(p)
  PROVE  IdNow(p) = IdOf(p)
BY DEF IdNow, IdOf

LEMMA SameId ==
  ASSUME NEW p, NEW q, q.kind = p.kind, IsShock(p) => ModesOf(q) = ModesOf(p)
  PROVE  IdNow(q) = IdNow(p)
<1>1. CASE IsShock(p)
  <2>1. IsShock(q)
    BY <1>1 DEF IsShock
  <2>2. QED
    BY <1>1, <2>1, IdNowIs, SameModes
<1>2. CASE ~IsShock(p)
  BY <1>2 DEF IdNow, IsShock
<1>3. QED
  BY <1>1, <1>2

\* The byte that is the slot's command, a poll.
LEMMA SlotCommanded ==
  ASSUME NEW p, ShockIs(p), p.dtr, Named(p, IdNow(p))
  PROVE  LET q == Shock_Clock(p, 66) IN
         q.phase = At(66, 0) /\ q.tx = <<90>> /\ ModesOf(q) = ModesOf(p)
<1> DEFINE q == Shock_Clock(p, 66)
           d == Dropped(p)
<1>1. ShockIs(d) /\ ModesOf(d) = ModesOf(p)
  BY DroppedDoes
<1>2. q = Commanded(d, 66) \/ q = ConfigCommand(d, 66)
  BY ShockClockIs DEF Named, ShockIs
<1> HIDE DEF q, d
<1>3. {"phase", "tx", "command", "config", "analog", "magic"} \subseteq DOMAIN d
  BY <1>1, ShockDomain
<1>4. q = [d EXCEPT !.command = 66, !.tx = <<90>>, !.phase = At(66, 0)]
  BY <1>2 DEF Commanded, ConfigCommand, Commands
<1>5. q.tx = <<90>> /\ q.phase = At(66, 0) /\ ModesOf(q) = ModesOf(d)
  BY <1>3, <1>4, Zenon DEF ModesOf
<1>6. QED
  BY <1>1, <1>5 DEF q

\* A byte of a poll that sets a motor, or does not.
LEMMA PollIs ==
  ASSUME NEW d, NEW b, NEW k \in 0..4, d.phase = At(66, k)
  PROVE  /\ k = 0 => Poll(d, b) = PollData(d)
         /\ k \in {1, 2} => Poll(d, b) = [d EXCEPT !.param = Motors(d, b, k), !.phase = @ + 1]
         /\ k = 3 => Poll(d, b) = [d EXCEPT !.param = IF ~d.compat /\ d.magic[2] = 0 /\ d.magic[3] = 1
                                                      THEN [@ EXCEPT ![2] = b] ELSE @,
                                            !.phase = @ + 1]
         /\ k = 4 => Poll(d, b) = d
<1> DEFINE q == Poll(d, b)
           w0 == PollData(d)
           w1 == [d EXCEPT !.param = Motors(d, b, 1), !.phase = @ + 1]
           w2 == [d EXCEPT !.param = Motors(d, b, 2), !.phase = @ + 1]
           w3 == [d EXCEPT !.param = IF ~d.compat /\ d.magic[2] = 0 /\ d.magic[3] = 1
                                     THEN [@ EXCEPT ![2] = b] ELSE @,
                           !.phase = @ + 1]
<1>1. q = CASE d.phase = At(66, 0) -> w0
            [] d.phase = At(66, 1) -> w1
            [] d.phase = At(66, 2) -> w2
            [] d.phase = At(66, 3) -> w3
            [] OTHER -> d
  BY Zenon DEF Poll
<1> HIDE DEF q, w0, w1, w2, w3
<1>2. At(66, 0) = 16896 /\ At(66, 1) = 16897 /\ At(66, 2) = 16898 /\ At(66, 3) = 16899 /\ At(66, 4) = 16900
  BY DEF At
<1>3. /\ k = 0 => q = w0
      /\ k = 1 => q = w1
      /\ k = 2 => q = w2
      /\ k = 3 => q = w3
      /\ k = 4 => q = d
  BY <1>1, <1>2
<1>4. k \in {1, 2} => q = [d EXCEPT !.param = Motors(d, b, k), !.phase = @ + 1]
  BY <1>3 DEF w1, w2
<1>5. QED
  BY <1>3, <1>4 DEF q, w0, w3

\* Where a DualShock is in a poll, and which of its motors are set.
MotorsTold(p, v, k) ==
    /\ p.phase = At(66, IF k > 4 THEN 4 ELSE k)
    /\ k >= 2 /\ p.compat => p.param[1] = v[2]
    /\ k >= 3 /\ p.compat => p.param[2] = v[3]

LEMMA MotorsToldOn ==
  ASSUME NEW p, ShockIs(p), p.dtr, HasMotors(p), NEW v, NEW k \in Nat, MotorsTold(p, v, k), NEW b,
         k = 1 => b = v[2], k = 2 => b = v[3]
  PROVE  LET q == Shock_Clock(p, b) IN MotorsTold(q, v, k + 1) /\ ModesOf(q) = ModesOf(p)
<1> DEFINE q == Shock_Clock(p, b)
           d == Dropped(p)
           j == IF k > 4 THEN 4 ELSE k
<1>1. /\ ShockIs(d) /\ d.phase = p.phase /\ ModesOf(d) = ModesOf(p) /\ SameMotors(p, d) /\ HasMotors(d)
  BY DroppedDoes, DroppedMotors
<1>2. j \in 0..4 /\ p.phase = At(66, j) /\ p.phase \in At(66, 0)..At(66, 6)
  BY DEF MotorsTold, At
<1>3. q = Poll(d, b)
  BY <1>2, ShockClockIs
<1>4. {"phase", "tx", "command", "config", "analog", "magic", "param", "compat"} \subseteq DOMAIN d
  BY <1>1, ShockDomain DEF HasMotors
<1>11. /\ j = 0 => q = PollData(d)
       /\ j \in {1, 2} => q = [d EXCEPT !.param = Motors(d, b, j), !.phase = @ + 1]
       /\ j = 3 => q = [d EXCEPT !.param = IF ~d.compat /\ d.magic[2] = 0 /\ d.magic[3] = 1
                                          THEN [@ EXCEPT ![2] = b] ELSE @,
                                !.phase = @ + 1]
       /\ j = 4 => q = d
  <2> HIDE DEF q, d, j
  <2>1. d.phase = At(66, j)
    BY <1>1, <1>2
  <2>2. j \in 0..4
    BY <1>2
  <2>3. /\ j = 0 => Poll(d, b) = PollData(d)
        /\ j \in {1, 2} => Poll(d, b) = [d EXCEPT !.param = Motors(d, b, j), !.phase = @ + 1]
        /\ j = 3 => Poll(d, b) = [d EXCEPT !.param = IF ~d.compat /\ d.magic[2] = 0 /\ d.magic[3] = 1
                                                    THEN [@ EXCEPT ![2] = b] ELSE @,
                                          !.phase = @ + 1]
        /\ j = 4 => Poll(d, b) = d
    BY ONLY <2>1, <2>2, PollIs, Zenon
  <2>4. j = 0 => q = PollData(d)
    BY ONLY <1>3, <2>3, Zenon
  <2>5. j \in {1, 2} => q = [d EXCEPT !.param = Motors(d, b, j), !.phase = @ + 1]
    BY ONLY <1>3, <2>3, Zenon
  <2>6. j = 3 => q = [d EXCEPT !.param = IF ~d.compat /\ d.magic[2] = 0 /\ d.magic[3] = 1
                                        THEN [@ EXCEPT ![2] = b] ELSE @,
                              !.phase = @ + 1]
    BY ONLY <1>3, <2>3, Zenon
  <2>7. j = 4 => q = d
    BY ONLY <1>3, <2>3, Zenon
  <2>8. QED
    BY ONLY <2>4, <2>5, <2>6, <2>7, Zenon
<1> HIDE DEF q, d
<1>5. /\ d.compat => p.compat
      /\ d.param = p.param
  BY <1>1 DEF SameMotors
<1>6. CASE j = 0
  <2> DEFINE wide == d.analog \/ d.config
             w == Answer(d, wide) \o (IF ~wide /\ d.magic[3] \in {0, 1} THEN <<0, 0>> ELSE << >>)
  <2>1. q = PollData(d)
    BY <1>6, <1>11
  <2>2. q = [d EXCEPT !.tx = w, !.phase = @ + 1]
    BY <2>1, Zenon DEF PollData
  <2> HIDE DEF w
  <2>3. q.phase = d.phase + 1 /\ ModesOf(q) = ModesOf(d)
    BY <1>4, <2>2, Zenon DEF ModesOf
  <2>4. k = 0
    BY <1>6
  <2>5. QED
    BY <1>1, <1>2, <1>6, <2>3, <2>4 DEF MotorsTold, At, q
<1>7. CASE j \in {1, 2}
  <2> DEFINE w == Motors(d, b, j)
  <2>1. q = [d EXCEPT !.param = w, !.phase = @ + 1]
    BY <1>7, <1>11
  <2>2. d.compat => w[j] = b /\ \A i \in 1..2 \ {j} : w[i] = d.param[i]
    BY <1>1, <1>7, MotorsGo
  <2> HIDE DEF w
  <2>3. q.phase = d.phase + 1 /\ ModesOf(q) = ModesOf(d) /\ q.param = w /\ q.compat = d.compat
    BY <1>4, <2>1, Zenon DEF ModesOf
  <2>4. k = j
    BY <1>7
  <2>5. q.phase = At(66, k + 1)
    BY <1>1, <1>2, <1>7, <2>3, <2>4 DEF At
  <2>6. q.compat => (k = 1 => q.param[1] = v[2]) /\ (k = 2 => q.param[1] = p.param[1] /\ q.param[2] = v[3])
    BY <1>5, <2>2, <2>3, <2>4
  <2>7. q.compat /\ k = 2 => q.param[1] = v[2]
    BY <1>5, <2>3, <2>6 DEF MotorsTold
  <2>8. QED
    BY <1>1, <1>7, <2>3, <2>4, <2>5, <2>6, <2>7 DEF MotorsTold, q
<1>8. CASE j = 3
  <2> DEFINE w == IF ~d.compat /\ d.magic[2] = 0 /\ d.magic[3] = 1
                  THEN [d.param EXCEPT ![2] = b] ELSE d.param
  <2>1. q = [d EXCEPT !.param = w, !.phase = @ + 1]
    BY <1>8, <1>11
  <2>2. d.compat => w = d.param
    OBVIOUS
  <2> HIDE DEF w
  <2>3. q.phase = d.phase + 1 /\ ModesOf(q) = ModesOf(d) /\ q.param = w /\ q.compat = d.compat
    BY <1>4, <2>1, Zenon DEF ModesOf
  <2>4. k = 3
    BY <1>8
  <2>5. q.phase = At(66, 4)
    BY <1>1, <1>2, <1>8, <2>3 DEF At
  <2>6. q.compat => p.compat /\ q.param = p.param
    BY <1>5, <2>2, <2>3
  <2>7. QED
    BY <1>1, <2>3, <2>4, <2>5, <2>6 DEF MotorsTold, q
<1>9. CASE j = 4
  <2>1. q = d
    BY <1>9, <1>11
  <2>2. k >= 4
    BY <1>9
  <2>3. QED
    BY <1>1, <1>2, <1>5, <1>9, <2>1, <2>2 DEF MotorsTold, q
<1>10. QED
  BY <1>2, <1>6, <1>7, <1>8, <1>9

(* A pad in its slot of a full transfer, after n bytes, v being the command and
   the motors of the slot.                                                    *)
SlotAt(p, v, n) ==
    /\ n = 0 => FreshPad(p)
    /\ n \in 1..3 => Named(p, IdNow(p)) /\ p.tx = <<IdNow(p)>>
    /\ n = 4 => p.tx # << >> /\ p.tx[1] = 90
    /\ IsShock(p) /\ n >= 4 => MotorsTold(p, v, n - 4)

LEMMA SlotBegins ==
  ASSUME NEW p, PadIsWell(p), p.dtr, FreshPad(p), NEW v
  PROVE  LET q == Dev_Clock(p, 1) IN SlotAt(q, v, 1) /\ Dev_Acks(q)
<1> DEFINE q == Dev_Clock(p, 1)
<1>1. Goes(p, q)
  BY PadClocked DEF ClockedPad
<1>2. PICK i : Named(q, i) /\ q.tx = <<i>>
  BY NamedFirst
<1> HIDE DEF q
<1>3. i = IdNow(q)
  BY <1>2 DEF Named, IdNow, IdOf
<1>4. q.dtr
  BY <1>1 DEF Goes
<1>5. SlotAt(q, v, 1)
  BY <1>2, <1>3 DEF SlotAt
<1>6. QED
  BY <1>2, <1>4, <1>5 DEF Dev_Acks, q

LEMMA SlotWaits ==
  ASSUME NEW p, NEW v, NEW n \in Nat, n \in {1, 2} \/ n >= 11, SlotAt(p, v, n)
  PROVE  SlotAt(p, v, n + 1)
<1>1. CASE n \in {1, 2}
  BY <1>1 DEF SlotAt
<1>2. CASE n >= 11
  <2>1. IsShock(p) => MotorsTold(p, v, n - 4)
    BY <1>2 DEF SlotAt
  <2>2. IsShock(p) => MotorsTold(p, v, n - 3)
    BY <1>2, <2>1 DEF MotorsTold
  <2>3. (n + 1) - 4 = n - 3
    OBVIOUS
  <2>4. QED
    BY <1>2, <2>2, <2>3 DEF SlotAt
<1>3. QED
  BY <1>1, <1>2

LEMMA SlotSends ==
  ASSUME NEW p, p.dtr, NEW v, NEW n \in {3, 4}, SlotAt(p, v, n)
  PROVE  Dev_Sends(p) = IF n = 3 THEN IdNow(p) ELSE 90
BY DEF SlotAt, Dev_Sends

LEMMA SlotGoes ==
  ASSUME NEW p, PadIsWell(p), p.dtr, IsShock(p) => HasMotors(p), NEW v, NEW n \in 3..10, SlotAt(p, v, n),
         NEW b, IsShock(p) => (n = 3 => b = 66) /\ (n = 5 => b = v[2]) /\ (n = 6 => b = v[3]),
         n = 3 => Dev_Acks(Dev_Clock(p, b))
  PROVE  LET q == Dev_Clock(p, b) IN SlotAt(q, v, n + 1) /\ IdNow(q) = IdNow(p)
<1> DEFINE q == Dev_Clock(p, b)
<1>1. q.kind = p.kind /\ q.dtr = p.dtr
  BY PadClocked DEF ClockedPad, Goes
<1>2. CASE IsShock(p)
  <2>1. q = Shock_Clock(p, b) /\ ShockIs(p) /\ IsShock(q)
    BY <1>1, <1>2 DEF Dev_Clock, ShockIs, IsShock
  <2>2. CASE n = 3
    <3>1. Named(p, IdNow(p)) /\ b = 66
      BY <1>2, <2>2 DEF SlotAt
    <3>2. q.phase = At(66, 0) /\ q.tx = <<90>> /\ ModesOf(q) = ModesOf(p)
      BY <2>1, <3>1, SlotCommanded
    <3> HIDE DEF q
    <3>3. MotorsTold(q, v, 0)
      BY <3>2 DEF MotorsTold
    <3>4. SlotAt(q, v, 4)
      BY <3>2, <3>3 DEF SlotAt
    <3>5. QED
      BY <1>1, <2>2, <3>2, <3>4, SameId DEF q
  <2>3. CASE n > 3
    <3>1. MotorsTold(p, v, n - 4) /\ n - 4 \in Nat /\ (n - 4 = 1 => b = v[2]) /\ (n - 4 = 2 => b = v[3])
      BY <1>2, <2>3 DEF SlotAt
    <3>2. MotorsTold(q, v, (n - 4) + 1) /\ ModesOf(q) = ModesOf(p)
      BY <1>2, <2>1, <3>1, MotorsToldOn
    <3>3. (n - 4) + 1 = (n + 1) - 4 /\ n + 1 > 4
      BY <2>3
    <3> HIDE DEF q
    <3>4. SlotAt(q, v, n + 1)
      BY <3>2, <3>3 DEF SlotAt
    <3>5. QED
      BY <1>1, <3>2, <3>4, SameId DEF q
  <2>4. QED
    BY <2>2, <2>3
<1>3. CASE ~IsShock(p)
  <2>1. q = Pad_Clock(p, b) /\ PlainIs(p) /\ ~IsShock(q)
    BY <1>1, <1>3 DEF Dev_Clock, PlainIs, IsShock
  <2>2. IdNow(q) = IdNow(p)
    BY <1>1, <1>3, SameId
  <2>3. n = 3 => q.tx # << >> /\ q.tx[1] = 90
    BY <1>3, <2>1, PlainBegins DEF SlotAt, Named, Dev_Acks
  <2> HIDE DEF q
  <2>4. SlotAt(q, v, n + 1)
    BY <2>1, <2>3 DEF SlotAt
  <2>5. QED
    BY <2>2, <2>4 DEF q
<1>4. QED
  BY <1>2, <1>3

LEMMA SlotStays ==
  ASSUME NEW p, PadIsWell(p), p.dtr, NEW q, Stays(p, q), IsShock(p) => SameMotors(p, q),
         NEW v, NEW n, SlotAt(p, v, n)
  PROVE  SlotAt(q, v, n) /\ IdNow(q) = IdNow(p) /\ IsShock(q) = IsShock(p)
<1>1. /\ q.kind = p.kind /\ q.dtr = p.dtr /\ q.phase = p.phase /\ q.tx = p.tx
      /\ IsShock(p) => ModesOf(q) = ModesOf(p)
  BY DEF Stays, Keeps, Goes
<1>2. IdNow(q) = IdNow(p) /\ IsShock(q) = IsShock(p)
  BY <1>1, SameId DEF IsShock
<1>3. Named(p, IdNow(p)) => Named(q, IdNow(q))
  <2>1. CASE IsShock(p)
    <3>1. q.config = p.config
      BY <1>1, <2>1 DEF ModesOf
    <3>2. QED
      BY <1>1, <1>2, <2>1, <3>1, SameModes DEF Named
  <2>2. CASE ~IsShock(p)
    BY <1>1, <1>2, <2>2 DEF Named
  <2>3. QED
    BY <2>1, <2>2
<1>4. IsShock(p) => \A k : MotorsTold(p, v, k) => MotorsTold(q, v, k)
  BY <1>1 DEF MotorsTold, SameMotors
<1>5. QED
  BY <1>1, <1>2, <1>3, <1>4 DEF SlotAt, FreshPad

-----------------------------------------------------------------------------
(* Every DualShock has two motors.                                            *)
Motorised(p) == IsShock(p) => HasMotors(p)

KeepsMotors(p, q) == q.kind = p.kind /\ (IsShock(p) => SameMotors(p, q))

LEMMA KeptMotors ==
  ASSUME NEW p, Motorised(p), NEW q, KeepsMotors(p, q)
  PROVE  Motorised(q)
BY MotorsStay DEF Motorised, KeepsMotors, IsShock

LEMMA CheckModeMotors ==
  ASSUME NEW d, HasMotors(d)
  PROVE  SameMotors(d, CheckMode(d))
<1> DEFINE q == CheckMode(d)
<1>1. {"param", "compat"} \subseteq DOMAIN d
  BY DEF HasMotors
<1>2. CASE d.dtr
  BY <1>2 DEF CheckMode, SameMotors
<1>3. CASE ~d.dtr
  <2> DEFINE v == CASE ~d.toggles \/ ~d.held -> -1
                    [] ComboDone(d)          -> -2
                    [] d.toggles /\ d.held /\ d.combo = -1 -> 0
                    [] OTHER                 -> d.combo
             w == IF (ComboDone(d) \/ ButtonPushed(d)) /\ ~d.locked THEN ~d.analog ELSE d.analog
             z == d.button
  <2>1. q = [d EXCEPT !.combo = v, !.analog = w, !.was = z]
    BY <1>3, Zenon DEF CheckMode
  <2> HIDE DEF q, v, w, z
  <2>2. SameMotors(d, q)
    BY <1>1, <2>1, Zenon DEF SameMotors
  <2>3. QED
    BY <2>2 DEF q
<1>4. QED
  BY <1>2, <1>3

LEMMA SwitchMotors ==
  ASSUME NEW p, PadIsWell(p), Motorised(p), NEW dtr \in BOOLEAN
  PROVE  KeepsMotors(p, Dev_SetDTR(p, dtr))
<1> DEFINE q == Shock_SetDTR(p, dtr)
<1>1. Dev_SetDTR(p, dtr).kind = p.kind
  BY PadSwitched DEF Switched
<1>2. ASSUME IsShock(p) PROVE SameMotors(p, q)
  <2>1. HasMotors(p) /\ {"param", "compat"} \subseteq DOMAIN p /\ p.dtr \in BOOLEAN
    BY <1>2 DEF Motorised, HasMotors, PadIsWell
  <2>2. CASE dtr /\ ~p.dtr
    <3>1. q = [p EXCEPT !.dtr = TRUE, !.phase = 0, !.tx = << >>]
      BY <2>2, Zenon DEF Shock_SetDTR
    <3>2. QED
      BY <2>1, <3>1, Zenon DEF SameMotors
  <2>3. CASE ~dtr /\ p.dtr
    <3> DEFINE d == [p EXCEPT !.dtr = FALSE]
    <3>1. q = CheckMode(d)
      BY <2>3 DEF Shock_SetDTR
    <3>2. SameMotors(p, d)
      BY <2>1, Zenon DEF SameMotors
    <3> HIDE DEF d, q
    <3>3. HasMotors(d)
      BY <2>1, <3>2, MotorsStay
    <3>4. SameMotors(d, q)
      BY <3>1, <3>3, CheckModeMotors
    <3>5. QED
      BY <3>2, <3>4 DEF SameMotors, q
  <2>4. CASE dtr = p.dtr
    <3>1. q = p
      BY <2>1, <2>4 DEF Shock_SetDTR
    <3>2. QED
      BY <3>1 DEF SameMotors
  <2>5. QED
    BY <2>1, <2>2, <2>3, <2>4
<1>3. QED
  BY <1>1, <1>2 DEF KeepsMotors, Dev_SetDTR

LEMMA InputMotors ==
  ASSUME NEW p, PadIsWell(p), Motorised(p), NEW held, NEW move, NEW flag
  PROVE  KeepsMotors(p, UpdateInput(p, held, move, flag))
<1> DEFINE q == UpdateInput(p, held, move, flag)
<1>1. q.kind = p.kind
  BY UpdateInputKeeps DEF Keeps, Goes
<1>2. ASSUME IsShock(p) PROVE SameMotors(p, q)
  <2> DEFINE d == [p EXCEPT !.held = held, !.button = flag]
  <2>1. q = CheckMode(d)
    BY <1>2 DEF UpdateInput, Shock_UpdateInput
  <2>2. HasMotors(p) /\ {"param", "compat"} \subseteq DOMAIN p
    BY <1>2 DEF Motorised, HasMotors
  <2>3. SameMotors(p, d)
    BY <2>2, Zenon DEF SameMotors
  <2> HIDE DEF d, q
  <2>4. SameMotors(d, q)
    BY <2>1, <2>2, <2>3, MotorsStay, CheckModeMotors
  <2>5. QED
    BY <2>3, <2>4 DEF SameMotors
<1> HIDE DEF q
<1>3. QED
  BY <1>1, <1>2 DEF KeepsMotors, q

LEMMA FrameMotors ==
  ASSUME NEW p, PadIsWell(p), Motorised(p)
  PROVE  KeepsMotors(p, Dev_Frame(p))
<1>1. Dev_Frame(p).kind = p.kind
  BY FrameKeeps DEF Keeps, Goes
<1>2. ASSUME IsShock(p) PROVE SameMotors(p, Shock_Frame(p))
  <2>1. {"param", "compat"} \subseteq DOMAIN p
    BY <1>2 DEF Motorised, HasMotors
  <2>2. QED
    BY <2>1, Zenon DEF SameMotors, Shock_Frame
<1>3. QED
  BY <1>1, <1>2 DEF KeepsMotors, Dev_Frame

LEMMA SetAMCTMotors ==
  ASSUME NEW p, ShockIs(p), Motorised(p), NEW enabled
  PROVE  KeepsMotors(p, Shock_SetAMCT(p, enabled))
<1>1. Shock_SetAMCT(p, enabled).kind = p.kind
  BY SetAMCTKeeps DEF Keeps, Goes
<1>2. {"param", "compat"} \subseteq DOMAIN p
  BY DEF Motorised, HasMotors, ShockIs
<1>3. SameMotors(p, Shock_SetAMCT(p, enabled))
  BY <1>2, Zenon DEF SameMotors, Shock_SetAMCT
<1>4. QED
  BY <1>1, <1>3 DEF KeepsMotors

LEMMA LoadMotors ==
  ASSUME NEW p, NEW s, s.kind = p.kind, Motorised(s)
  PROVE  Motorised(Dev_Load(p, s))
<1>1. CASE IsShock(p)
  <2>1. HasMotors(s) /\ {"param", "compat"} \subseteq DOMAIN s
    BY <1>1 DEF Motorised, HasMotors, IsShock
  <2>2. SameMotors(s, Shock_Load(p, s))
    BY <2>1, Zenon DEF SameMotors, Shock_Load
  <2>3. HasMotors(Shock_Load(p, s))
    BY <2>1, <2>2, MotorsStay
  <2>4. QED
    BY <1>1, <2>3 DEF Dev_Load, Motorised
<1>2. CASE ~IsShock(p)
  BY <1>2 DEF Dev_Load, Pad_Load, Motorised, IsShock
<1>3. QED
  BY <1>1, <1>2

LEMMA NewShockMotors ==
  ASSUME NEW toggles
  PROVE  HasMotors(Shock_New(toggles))
<1> DEFINE q == Shock_New(toggles)
<1>1. q.param = [i \in 1..2 |-> 0] /\ {"param", "compat"} \subseteq DOMAIN q
  BY DEF Shock_New
<1> HIDE DEF q
<1>2. QED
  BY <1>1 DEF HasMotors, q

LEMMA NewMotors ==
  ASSUME NEW kind \in Kinds
  PROVE  Motorised(NewPad(kind))
<1>1. CASE kind = "dualshock"
  BY <1>1, NewShockMotors DEF NewPad, Motorised
<1>2. CASE kind # "dualshock"
  <2>1. NewPad(kind).kind # "dualshock"
    BY <1>2, NewPadRests DEF Rests
  <2>2. QED
    BY <2>1 DEF Motorised, IsShock
<1>3. QED
  BY <1>1, <1>2

LEMMA PowerMotors ==
  ASSUME NEW p, PadIsWell(p)
  PROVE  Motorised(Dev_Power(p))
<1>1. CASE IsShock(p)
  <2> DEFINE n == Shock_New(p.toggles)
             q == [n EXCEPT !.analog = p.analog, !.button = p.button]
  <2>1. Dev_Power(p) = q
    BY <1>1 DEF Dev_Power, Shock_Power
  <2>2. HasMotors(n)
    BY NewShockMotors
  <2> HIDE DEF n
  <2>3. {"param", "compat"} \subseteq DOMAIN n
    BY <2>2 DEF HasMotors
  <2>4. SameMotors(n, q)
    BY <2>3, Zenon DEF SameMotors
  <2> HIDE DEF q
  <2>5. QED
    BY <2>1, <2>2, <2>4, MotorsStay DEF Motorised
<1>2. CASE ~IsShock(p)
  <2>1. Dev_Power(p).kind = p.kind
    BY PowerRests DEF Rests
  <2>2. QED
    BY <1>2, <2>1 DEF Motorised, IsShock
<1>3. QED
  BY <1>1, <1>2

LEMMA ClockMotors ==
  ASSUME NEW p, PadIsWell(p), Motorised(p), NEW q, PadGoesOn(p, q)
  PROVE  Motorised(q)
<1>1. CASE q = p
  BY <1>1
<1>2. CASE \E v : q = Dev_Clock(p, v)
  <2>1. PICK v : q = Dev_Clock(p, v)
    BY <1>2
  <2>2. q.kind = p.kind
    BY <2>1, PadClocked DEF ClockedPad, Goes
  <2>3. CASE IsShock(p)
    <3>1. ShockIs(p) /\ HasMotors(p) /\ q = Shock_Clock(p, v)
      BY <2>1, <2>3 DEF Motorised, ShockIs, Dev_Clock
    <3>2. QED
      BY <3>1, ShockMotors DEF Motorised
  <2>4. CASE ~IsShock(p)
    BY <2>2, <2>4 DEF Motorised, IsShock
  <2>5. QED
    BY <2>3, <2>4
<1>3. QED
  BY <1>1, <1>2 DEF PadGoesOn

MotorsIn(x) == \A i \in Sub : Motorised(x.pads[i])

PortMotors == MotorsIn(m) /\ \A s \in saved : MotorsIn(s.m)

LEMMA PadsMotors ==
  ASSUME NEW x, MotorsIn(x), NEW y, \A i \in Sub : KeepsMotors(x.pads[i], y.pads[i])
  PROVE  MotorsIn(y)
BY KeptMotors DEF MotorsIn

\* The pads of the port after a step that the serial line does not tell.
LEMMA QuietMotors ==
  ASSUME PortInv, PortFollows, PortMotors,
         \/ BeginFrame \/ (\E s \in Sub : SeeBeam(s)) \/ EndFrame(Amounts)
         \/ \E enabled \in BOOLEAN : SetAMCT(enabled)
  PROVE  (\A i \in Sub : KeepsMotors(m.pads[i], m'.pads[i])) /\ saved' = saved
<1>1. \A i \in Sub : PadIsWell(m.pads[i]) /\ Motorised(m.pads[i])
  BY DEF PortFollows, Wired, PortMotors, MotorsIn
<1>2. CASE BeginFrame
  <2>1. PICK in \in Inputs(setup) :
          m' = [m EXCEPT !.pads = [s \in Sub |-> UpdateInput(@[s], in.held[s], in.move, in.flag)]]
    BY <1>2 DEF BeginFrame
  <2> DEFINE p == [s \in Sub |-> UpdateInput(m.pads[s], in.held[s], in.move, in.flag)]
  <2>2. m' = [m EXCEPT !.pads = p]
    BY <2>1
  <2>3. \A i \in Sub : KeepsMotors(m.pads[i], p[i])
    BY <1>1, InputMotors
  <2> HIDE DEF p
  <2>4. m'.pads = p
    BY <2>2, PadsOnly DEF PortInv
  <2>5. QED
    BY <1>2, <2>3, <2>4 DEF BeginFrame
<1>3. ASSUME NEW s \in Sub, SeeBeam(s)
      PROVE  (\A i \in Sub : KeepsMotors(m.pads[i], m'.pads[i])) /\ saved' = saved
  <2> DEFINE q == Pad_SeesBeam(m.pads[s])
             p == [m.pads EXCEPT ![s] = q]
  <2>1. m' = [m EXCEPT !.pads = p] /\ saved' = saved /\ m.pads[s].kind \in Guns
    BY <1>3 DEF SeeBeam, frontend
  <2>2. m'.pads = p
    BY <2>1, PadsOnly DEF PortInv
  <2>3. q.kind = m.pads[s].kind /\ m.pads = [i \in Sub |-> m.pads[i]]
    BY <1>1, <2>1, SeesBeamKeeps DEF Keeps, Goes, PortFollows, Wired
  <2>4. ~IsShock(m.pads[s])
    BY <2>1 DEF Guns, IsShock
  <2> HIDE DEF q
  <2>5. \A i \in Sub : p[i] = IF i = s THEN q ELSE m.pads[i]
    BY <2>3
  <2> HIDE DEF p
  <2>6. \A i \in Sub : KeepsMotors(m.pads[i], p[i])
    BY <2>3, <2>4, <2>5 DEF KeepsMotors, SameMotors
  <2>7. QED
    BY <2>1, <2>2, <2>6
<1>4. CASE EndFrame(Amounts)
  <2>1. m'.pads = [s \in Sub |-> Dev_Frame(m.pads[s])] /\ saved' = saved
    BY <1>4, EndFrameDoes DEF EndFrame
  <2>2. QED
    BY <1>1, <2>1, FrameMotors
<1>5. ASSUME NEW enabled \in BOOLEAN, SetAMCT(enabled)
      PROVE  (\A i \in Sub : KeepsMotors(m.pads[i], m'.pads[i])) /\ saved' = saved
  <2> DEFINE p == [s \in Sub |-> IF IsShock(m.pads[s]) THEN Shock_SetAMCT(m.pads[s], enabled) ELSE m.pads[s]]
  <2>1. m' = [m EXCEPT !.pads = p] /\ saved' = saved
    BY <1>5 DEF SetAMCT, frontend
  <2>2. ASSUME NEW i \in Sub PROVE KeepsMotors(m.pads[i], p[i])
    <3>1. CASE IsShock(m.pads[i])
      <4>1. p[i] = Shock_SetAMCT(m.pads[i], enabled)
        BY <3>1
      <4>2. QED
        BY <1>1, <3>1, <4>1, SetAMCTMotors DEF ShockIs
    <3>2. CASE ~IsShock(m.pads[i])
      BY <3>2 DEF KeepsMotors
    <3>3. QED
      BY <3>1, <3>2
  <2> HIDE DEF p
  <2>3. QED
    BY <2>1, <2>2, PadsOnly DEF PortInv
<1>6. QED
  BY <1>2, <1>3, <1>4, <1>5

LEMMA NewMachineMotors ==
  ASSUME setup \in Setups, NEW f, IsFile(f), NEW dtr \in BOOLEAN, NEW x, x = NewMachine(f, dtr)
  PROVE  MotorsIn(x)
<1>1. x.pads = [s \in Sub |-> NewPad(setup.pads[s])]
  BY NewMachineIs
<1>2. setup.pads \in [Sub -> Kinds]
  BY PortAssumption
<1>3. QED
  BY <1>1, <1>2, NewMotors DEF MotorsIn

\* The pads after a byte.
LEMMA ByteMotors ==
  ASSUME PortInv, PortFollows, PortMotors, NEW b \in Byte, Exchange(b) \/ Overhear(b)
  PROVE  MotorsIn(m') /\ saved' = saved
<1>1. IsMachine(m) /\ m.pads = [i \in Sub |-> m.pads[i]] /\ m.tap.dtr \in BOOLEAN
      /\ \A i \in Sub : PadIsWell(m.pads[i]) /\ Motorised(m.pads[i])
  BY TapFields DEF PortInv, PortFollows, Wired, IsMachine, PortMotors, MotorsIn
<1>2. saved' = saved /\ (m' = Tap_Clock(m, b) \/ m' = DirectClock(b))
  BY DEF Exchange, Overhear, frontend
<1>3. DevicesGoOn(m, m') \/ m' = m
  <2>1. CASE m' = DirectClock(b)
    BY <1>1, <2>1, DirectDevices
  <2>2. CASE m' = Tap_Clock(m, b) /\ m.tap.dtr
    BY <1>1, <2>2, TapDevices
  <2>3. CASE m' = Tap_Clock(m, b) /\ ~m.tap.dtr
    BY <2>3 DEF Tap_Clock
  <2>4. QED
    BY <1>1, <1>2, <2>1, <2>2, <2>3
<1>4. CASE DevicesGoOn(m, m')
  BY <1>1, <1>2, <1>4, ClockMotors DEF DevicesGoOn, MotorsIn
<1>5. CASE m' = m
  BY <1>1, <1>2, <1>5 DEF MotorsIn
<1>6. QED
  BY <1>3, <1>4, <1>5

LEMMA MotorsInit == Port_Init => PortMotors
<1> SUFFICES ASSUME Port_Init PROVE PortMotors
  OBVIOUS
<1>1. PICK dtr \in {FALSE, setup.tap} : m = NewMachine(file, dtr)
  BY DEF Port_Init
<1>2. setup \in Setups /\ IsFile(file) /\ dtr \in BOOLEAN
  BY PortAssumption DEF Port_Init
<1>3. MotorsIn(m) /\ saved = {}
  BY <1>1, <1>2, NewMachineMotors DEF Port_Init
<1>4. QED
  BY <1>3 DEF PortMotors

LEMMA MotorsStep == PortInv /\ PortFollows /\ PortMotors /\ [Port_Next]_portVars => PortMotors'
<1> SUFFICES ASSUME PortInv, PortFollows, PortMotors, [Port_Next]_portVars PROVE PortMotors'
  OBVIOUS
<1>0. \A i \in Sub : PadIsWell(m.pads[i]) /\ Motorised(m.pads[i])
  BY DEF PortFollows, Wired, PortMotors, MotorsIn
<1>a. ASSUME MotorsIn(m'), saved' = saved PROVE PortMotors'
  BY <1>a DEF PortMotors
<1>1. ASSUME NEW dtr \in BOOLEAN, SetDTR(dtr) PROVE PortMotors'
  <2>1. m'.pads = [s \in Sub |-> Dev_SetDTR(m.pads[s], dtr)] /\ saved' = saved
    BY <1>1, SelectMachine DEF SetDTR, frontend, PortInv
  <2>2. \A i \in Sub : KeepsMotors(m.pads[i], m'.pads[i])
    BY <1>0, <2>1, SwitchMotors
  <2>3. QED
    BY <1>a, <2>1, <2>2, PadsMotors DEF PortMotors
<1>2. ASSUME NEW b \in Byte, Exchange(b) \/ Overhear(b) PROVE PortMotors'
  BY <1>a, <1>2, ByteMotors
<1>3. ASSUME \/ BeginFrame \/ (\E s \in Sub : SeeBeam(s)) \/ EndFrame(Amounts)
             \/ \E enabled \in BOOLEAN : SetAMCT(enabled)
      PROVE  PortMotors'
  BY <1>a, <1>3, QuietMotors, PadsMotors DEF PortMotors
<1>4. CASE SaveFails \/ CloseGame(Amounts)
  BY <1>4 DEF SaveFails, CloseGame, PortMotors, MotorsIn
<1>5. CASE SaveState
  <2> DEFINE w == [m |-> m, said |-> said, heard |-> heard, acked |-> acked, odd |-> odd, told |-> told]
  <2>1. m' = m /\ saved' = {w} /\ w.m = m
    BY <1>5 DEF SaveState
  <2> HIDE DEF w
  <2>2. QED
    BY <2>1 DEF PortMotors, MotorsIn
<1>6. CASE LoadState
  <2>1. PICK s \in saved :
          /\ m' = [tap   |-> s.m.tap,
                   pads  |-> [i \in Sub |-> Dev_Load(m.pads[i], s.m.pads[i])],
                   cards |-> [i \in Sub |-> Card_Load(m.cards[i], s.m.cards[i])]]
          /\ saved' = saved
    BY <1>6 DEF LoadState
  <2>2. m'.pads = [i \in Sub |-> Dev_Load(m.pads[i], s.m.pads[i])]
    BY <2>1
  <2>3. \A i \in Sub : s.m.pads[i].kind = m.pads[i].kind /\ Motorised(s.m.pads[i])
    BY DEF PortFollows, Wired, PortMotors, MotorsIn
  <2>4. MotorsIn(m')
    BY <2>2, <2>3, LoadMotors DEF MotorsIn
  <2>5. QED
    BY <1>a, <2>1, <2>4
<1>7. CASE Start
  <2>1. PICK dtr \in {FALSE, setup.tap} : m' = NewMachine(file, dtr)
    BY <1>7 DEF Start
  <2>2. setup \in Setups /\ IsFile(file) /\ dtr \in BOOLEAN
    BY PortAssumption DEF PortInv
  <2>3. MotorsIn(m') /\ saved' = {}
    BY <1>7, <2>1, <2>2, NewMachineMotors DEF Start
  <2>4. QED
    BY <2>3 DEF PortMotors
<1>8. CASE Reset
  <2>1. m'.pads = [s \in Sub |-> Dev_Power(m.pads[s])] /\ saved' = saved
    BY <1>8, ResetDoes DEF PortInv, Reset, frontend
  <2>2. MotorsIn(m')
    BY <1>0, <2>1, PowerMotors DEF MotorsIn
  <2>3. QED
    BY <1>a, <2>1, <2>2
<1>9. CASE UNCHANGED portVars
  BY <1>9 DEF portVars, PortMotors, MotorsIn
<1>10. {1, 66} \subseteq Byte
  BY ByteIs
<1>11. QED
  BY <1>1, <1>2, <1>3, <1>4, <1>5, <1>6, <1>7, <1>8, <1>9, <1>10 DEF Port_Next

-----------------------------------------------------------------------------
(* The tap in its full mode, byte by byte: what was gathered for the pads (sb), what
   they answered (fm) and whether the transfer goes on.                        *)
IsRows(r) == r = [i \in Sub |-> [j \in 1..8 |-> r[i][j]]]

TapIsSound(t) ==
    /\ IsRows(t.sb) /\ IsRows(t.fm)
    /\ t.full => t.dtr
    /\ t.dtr /\ (~t.full \/ t.count = 0) => ~t.again

LEMMA TapHasFields ==
  ASSUME NEW t, TapIsWell(t)
  PROVE  {"dtr", "selected", "count", "full", "setting", "cardMode", "again", "error",
          "answering", "sb", "fm"} \subseteq DOMAIN t
BY DEF TapIsWell

LEMMA ModeInTap ==
  ASSUME NEW t, TapIsWell(t), NEW b \in Byte
  PROVE  LET u == ModeOf(t, b) IN
         /\ u.again = t.again /\ u.sb = t.sb /\ u.answering = t.answering
         /\ u.fm = IF t.count = 0 /\ t.full /\ b < 16 THEN Rows(255) ELSE t.fm
<1> DEFINE u == ModeOf(t, b)
<1>1. CASE t.count # 0
  BY <1>1 DEF ModeOf
<1>2. CASE t.count = 0
  <2> DEFINE card == b >= 16
             full == t.full /\ ~card
             fm == IF full THEN Rows(255) ELSE t.fm
             sel == IF full THEN 0 ELSE ((b % 16) - 1) % 256
  <2>1. u = [t EXCEPT !.cardMode = card, !.full = full, !.fm = fm, !.selected = sel]
    BY <1>2 DEF ModeOf
  <2>2. {"full", "cardMode", "selected", "again", "answering", "sb", "fm"} \subseteq DOMAIN t
    BY TapHasFields
  <2>3. full <=> t.full /\ b < 16
    BY ByteIs
  <2> HIDE DEF card, full, fm, sel, u
  <2>4. u.again = t.again /\ u.sb = t.sb /\ u.answering = t.answering /\ u.fm = fm
    BY <2>1, <2>2, Zenon
  <2>5. QED
    BY <1>2, <2>3, <2>4 DEF fm, u
<1>3. QED
  BY <1>1, <1>2

\* The command and the setting of the mode.
Ordered(t, b) == SettingOf(CommandOf(t, b), b)

LEMMA OrderedInTap ==
  ASSUME NEW t, TapIsWell(t), NEW b \in Byte
  PROVE  LET u == Ordered(t, b) IN
         /\ TapIsWell(u) /\ u.full = t.full /\ u.count = t.count
         /\ u.again = t.again /\ u.sb = t.sb /\ u.answering = t.answering /\ u.fm = t.fm
         /\ u.error = IF t.count = 1 THEN t.full /\ b # 66 ELSE t.error
<1> DEFINE c == CommandOf(t, b)
           u == SettingOf(c, b)
<1>1. /\ TapIsWell(c) /\ c.full = t.full /\ c.count = t.count
      /\ c.again = t.again /\ c.sb = t.sb /\ c.answering = t.answering /\ c.fm = t.fm
      /\ c.error = IF t.count = 1 THEN t.full /\ b # 66 ELSE t.error
  <2>1. CASE t.count # 1
    BY <2>1 DEF CommandOf
  <2>2. CASE t.count = 1
    <3> DEFINE e == t.full /\ b # 66
    <3>1. c = [t EXCEPT !.error = e]
      BY <2>2 DEF CommandOf
    <3>2. e \in BOOLEAN
      OBVIOUS
    <3>3. e = IF t.count = 1 THEN t.full /\ b # 66 ELSE t.error
      BY <2>2
    <3> HIDE DEF e, c
    <3>4. /\ TapIsWell(c) /\ c.full = t.full /\ c.count = t.count
          /\ c.again = t.again /\ c.sb = t.sb /\ c.answering = t.answering /\ c.fm = t.fm
          /\ c.error = e
      BY <3>1, <3>2 DEF TapIsWell
    <3>5. QED
      BY <3>3, <3>4
  <2>3. QED
    BY <2>1, <2>2
<1> HIDE DEF c
<1>2. /\ TapIsWell(u) /\ u.full = c.full /\ u.count = c.count /\ u.error = c.error
      /\ u.again = c.again /\ u.sb = c.sb /\ u.answering = c.answering /\ u.fm = c.fm
  <2> DEFINE e == b % 2 = 1
  <2>1. u = c \/ u = [c EXCEPT !.setting = e]
    BY DEF SettingOf
  <2>2. e \in BOOLEAN
    OBVIOUS
  <2> HIDE DEF e, u
  <2>3. QED
    BY <1>1, <2>1, <2>2 DEF TapIsWell
<1> HIDE DEF u
<1>3. QED
  BY <1>1, <1>2, Zenon DEF Ordered, u, c

\* The byte of a full transfer that is for the j-th place of slot i.
PlaceOf(i, j) == 8 * i + j + 2

LEMMA PlacesInFull ==
  ASSUME NEW c \in Nat
  PROVE  /\ c \in 3..(FullLen - 1) => (c - 3) \div 8 \in Sub /\ ((c - 3) % 8) + 1 \in 1..8
         /\ \A i \in Sub, j \in 1..8 : PlaceOf(i, j) \in 3..(FullLen - 1)
         /\ \A i \in Sub, j \in 1..8 :
              c \in 3..(FullLen - 1) => (c = PlaceOf(i, j) <=> i = (c - 3) \div 8 /\ j = ((c - 3) % 8) + 1)
BY SubPortsAssumption DEF Sub, FullLen, PlaceOf

RowWith(r, i, j, b) == [r EXCEPT ![i][j] = b]

PutInRow(r, q, i, j, b) ==
    IsRows(q) /\ \A k \in Sub, l \in 1..8 : q[k][l] = IF k = i /\ l = j THEN b ELSE r[k][l]

LEMMA RowsWith ==
  ASSUME NEW r, IsRows(r), NEW i \in Sub, NEW j \in 1..8, NEW b
  PROVE  PutInRow(r, RowWith(r, i, j, b), i, j, b)
<1> DEFINE q == [r EXCEPT ![i] = [r[i] EXCEPT ![j] = b]]
<1>1. r[i] = [l \in 1..8 |-> r[i][l]] /\ r = [k \in Sub |-> r[k]]
  BY DEF IsRows
<1> DEFINE v == [r[i] EXCEPT ![j] = b]
<1>2. v = [l \in 1..8 |-> v[l]] /\ \A l \in 1..8 : v[l] = IF l = j THEN b ELSE r[i][l]
  BY <1>1
<1> HIDE DEF v
<1>3. q = [r EXCEPT ![i] = v]
  BY DEF v
<1>4. \A k \in Sub : q[k] = IF k = i THEN v ELSE r[k]
  BY <1>1, <1>3
<1>5. q = [k \in Sub |-> q[k]]
  BY <1>1
<1> HIDE DEF q
<1>6. \A k \in Sub : r[k] = [l \in 1..8 |-> r[k][l]]
  BY DEF IsRows
<1>7. \A k \in Sub : q[k] = [l \in 1..8 |-> q[k][l]]
  BY <1>2, <1>4, <1>6
<1>8. IsRows(q)
  BY <1>5, <1>7 DEF IsRows
<1>9. \A k \in Sub, l \in 1..8 : q[k][l] = IF k = i /\ l = j THEN b ELSE r[k][l]
  BY <1>2, <1>4
<1>10. QED
  BY <1>8, <1>9 DEF q, RowWith, PutInRow

\* What a byte puts in the rows for the next full transfer.
Collects(t, u, b) ==
    /\ IsRows(u.sb)
    /\ \A i \in Sub, j \in 1..8 :
         u.sb[i][j] = IF u.full /\ t.count = PlaceOf(i, j) THEN b ELSE t.sb[i][j]
    /\ u.again = (t.again \/ (u.full /\ t.count = FullLen - 2))

LEMMA StoredInTap ==
  ASSUME NEW t, TapIsWell(t), IsRows(t.sb), NEW b \in Byte
  PROVE  LET u == Stored(t, b) IN
         /\ TapIsWell(u) /\ u.full = t.full /\ u.count = t.count /\ u.error = t.error
         /\ u.answering = t.answering /\ u.fm = t.fm
         /\ Collects(t, u, b)
<1> DEFINE u == Stored(t, b)
<1>0. t.count \in Nat /\ t.full \in BOOLEAN /\ t.again \in BOOLEAN
  BY TapFields
<1>1. CASE InFullData(t)
  <2> DEFINE i == (t.count - 3) \div 8
             j == ((t.count - 3) % 8) + 1
             sb == RowWith(t.sb, i, j, b)
             a == t.again \/ t.count = FullLen - 2
  <2>1. u = [t EXCEPT !.sb = sb, !.again = a]
    BY <1>1 DEF Stored, RowWith
  <2>2. a \in BOOLEAN /\ a = (t.again \/ (t.full /\ t.count = FullLen - 2))
    BY <1>0, <1>1 DEF InFullData
  <2>3. /\ t.count \in 3..(FullLen - 1) /\ t.full = TRUE /\ i \in Sub /\ j \in 1..8
        /\ \A k \in Sub, l \in 1..8 : t.count = PlaceOf(k, l) <=> k = i /\ l = j
    BY <1>0, <1>1, PlacesInFull DEF InFullData
  <2> HIDE DEF i, j, a
  <2>9. IsRows(t.sb) /\ i \in Sub /\ j \in 1..8
    BY <2>3
  <2>10. PutInRow(t.sb, RowWith(t.sb, i, j, b), i, j, b)
    BY <2>9, RowsWith, Zenon
  <2>4. IsRows(sb) /\ \A k \in Sub, l \in 1..8 : sb[k][l] = IF k = i /\ l = j THEN b ELSE t.sb[k][l]
    BY <2>10 DEF PutInRow
  <2> HIDE DEF sb, u
  <2>5. /\ TapIsWell(u) /\ u.full = t.full /\ u.count = t.count /\ u.error = t.error
        /\ u.answering = t.answering /\ u.fm = t.fm /\ u.sb = sb /\ u.again = a
    BY <2>1, <2>2 DEF TapIsWell
  <2>6. \A k \in Sub, l \in 1..8 :
          u.sb[k][l] = IF t.full /\ t.count = PlaceOf(k, l) THEN b ELSE t.sb[k][l]
    BY <2>3, <2>4, <2>5
  <2>7. Collects(t, u, b)
    BY <2>2, <2>4, <2>5, <2>6 DEF Collects
  <2>8. QED
    BY <2>5, <2>7 DEF u
<1>2. CASE ~InFullData(t)
  <2>1. u = t
    BY <1>2 DEF Stored
  <2>2. t.full => t.count \notin 3..(FullLen - 1)
    BY <1>2 DEF InFullData
  <2>3. \A i \in Sub, j \in 1..8 : ~(t.full /\ t.count = PlaceOf(i, j))
    BY <1>0, <2>2, PlacesInFull
  <2>4. ~(t.full /\ t.count = FullLen - 2)
    BY <2>2, SubPortsAssumption DEF FullLen
  <2> HIDE DEF u
  <2>5. Collects(t, u, b)
    BY <1>0, <2>1, <2>3, <2>4 DEF Collects
  <2>6. QED
    BY <2>1, <2>5 DEF u
<1>3. QED
  BY <1>1, <1>2

\* Whether the tap gives up.
Stops(t, pads) ==
    \/ t.count = 2 /\ t.answering = {}
    \/ t.count = 3 /\ (t.error \/ Silent(t, pads))

\* The tap after the acknowledge.
Acked(t, pads, u) ==
    /\ u.full = t.full /\ u.sb = t.sb /\ u.again = t.again /\ u.fm = t.fm
    /\ t.count = 0 => u.answering = {s \in Sub : Dev_Acks(pads[s])}
    /\ t.count # 0 => u.answering = t.answering
    /\ Stops(t, pads) => u.count = 255 /\ (t.count = 3 => u.error = TRUE)
    /\ ~Stops(t, pads) => u.count = t.count
    /\ ~Stops(t, pads) \/ t.count # 3 => u.error = t.error

LEMMA FullAckInTap ==
  ASSUME NEW t, TapIsWell(t), NEW pads
  PROVE  Acked(t, pads, FullAck(t, pads)[1])
<1> DEFINE u == FullAck(t, pads)[1]
           answering == {s \in Sub : Dev_Acks(pads[s])}
<1>1. {"count", "full", "again", "error", "answering", "sb", "fm"} \subseteq DOMAIN t /\ t.count \in Nat
  BY TapHasFields, TapFields
<1>2. CASE t.count = 0
  <2>1. u = [t EXCEPT !.answering = answering]
    BY <1>2 DEF FullAck
  <2> HIDE DEF u, answering
  <2>2. /\ u.full = t.full /\ u.sb = t.sb /\ u.again = t.again /\ u.fm = t.fm /\ u.answering = answering
        /\ u.error = t.error /\ u.count = t.count
    BY <1>1, <2>1, Zenon
  <2>3. ~Stops(t, pads)
    BY <1>2 DEF Stops
  <2>4. Acked(t, pads, u)
    BY <1>2, <2>2, <2>3 DEF answering, Acked
  <2>5. QED
    BY <2>4 DEF u
<1>3. ASSUME u = t, t.count # 0, ~Stops(t, pads) PROVE Acked(t, pads, u)
  BY <1>3, Zenon DEF Acked
<1>4. CASE t.count = 1 \/ t.count > 3
  <2>1. FullAck(t, pads)[1] = t
    BY <1>1, <1>4 DEF FullAck
  <2>2. ~Stops(t, pads) /\ t.count # 0
    BY <1>1, <1>4 DEF Stops
  <2>3. QED
    BY <1>3, <2>1, <2>2
<1>5. CASE t.count = 2
  <2>1. u = IF t.answering # {} THEN t ELSE [t EXCEPT !.count = 255]
    BY <1>5 DEF FullAck
  <2>2. CASE t.answering # {}
    <3>1. ~Stops(t, pads)
      BY <1>5, <2>2 DEF Stops
    <3>2. QED
      BY <1>3, <1>5, <2>1, <2>2, <3>1
  <2>3. CASE t.answering = {}
    <3> HIDE DEF u
    <3>1. u = [t EXCEPT !.count = 255]
      BY <2>1, <2>3
    <3>2. /\ u.full = t.full /\ u.sb = t.sb /\ u.again = t.again /\ u.fm = t.fm /\ u.answering = t.answering
          /\ u.error = t.error /\ u.count = 255
      BY <1>1, <3>1, Zenon
    <3>3. Stops(t, pads)
      BY <1>5, <2>3 DEF Stops
    <3>4. Acked(t, pads, u)
      BY <1>5, <3>2, <3>3 DEF Acked
    <3>5. QED
      BY <3>4 DEF u
  <2>4. QED
    BY <2>2, <2>3
<1>6. CASE t.count = 3
  <2>1. u = IF t.error \/ Silent(t, pads) THEN [t EXCEPT !.error = TRUE, !.count = 255] ELSE t
    BY <1>6 DEF FullAck
  <2>2. CASE ~(t.error \/ Silent(t, pads))
    <3>1. ~Stops(t, pads)
      BY <1>6, <2>2 DEF Stops
    <3>2. QED
      BY <1>3, <1>6, <2>1, <2>2, <3>1
  <2>3. CASE t.error \/ Silent(t, pads)
    <3> HIDE DEF u
    <3>1. u = [t EXCEPT !.error = TRUE, !.count = 255]
      BY <2>1, <2>3
    <3>2. /\ u.full = t.full /\ u.sb = t.sb /\ u.again = t.again /\ u.fm = t.fm /\ u.answering = t.answering
          /\ u.error = TRUE /\ u.count = 255
      BY <1>1, <3>1, Zenon
    <3>3. Stops(t, pads)
      BY <1>6, <2>3 DEF Stops
    <3>4. Acked(t, pads, u)
      BY <1>6, <3>2, <3>3 DEF Acked
    <3>5. QED
      BY <3>4 DEF u
  <2>4. QED
    BY <2>2, <2>3
<1>7. t.count = 0 \/ (t.count = 1 \/ t.count > 3) \/ t.count = 2 \/ t.count = 3
  BY <1>1
<1>8. QED
  BY <1>2, <1>4, <1>5, <1>6, <1>7

LEMMA CountedInTap ==
  ASSUME NEW t, TapIsWell(t)
  PROVE  LET u == Counted(t) IN
         /\ u.full = t.full /\ u.sb = t.sb /\ u.again = t.again /\ u.fm = t.fm
         /\ u.answering = t.answering /\ u.error = t.error
         /\ u.count = IF t.count < 255 THEN t.count + 1 ELSE t.count
<1> DEFINE u == Counted(t)
<1>1. {"count", "full", "again", "error", "answering", "sb", "fm"} \subseteq DOMAIN t
  BY TapHasFields
<1>2. CASE t.count < 255
  <2> DEFINE k == t.count + 1
  <2>1. u = [t EXCEPT !.count = k]
    BY <1>2 DEF Counted
  <2> HIDE DEF k, u
  <2>2. /\ u.full = t.full /\ u.sb = t.sb /\ u.again = t.again /\ u.fm = t.fm
        /\ u.answering = t.answering /\ u.error = t.error /\ u.count = k
    BY <1>1, <2>1, Zenon
  <2>3. QED
    BY <1>2, <2>2 DEF k, u
<1>3. CASE ~(t.count < 255)
  BY <1>3 DEF Counted
<1>4. QED
  BY <1>2, <1>3

-----------------------------------------------------------------------------
(* A whole byte of a tap.                                                      *)
SameButAnswers(t, u) ==
    /\ u.count = t.count /\ u.full = t.full /\ u.again = t.again /\ u.error = t.error
    /\ u.answering = t.answering /\ u.sb = t.sb

\* The pads answer into the rows.
AnswersRow(f, pads, n) == [s \in Sub |-> [f[s] EXCEPT ![n] = Dev_Sends(pads[s])]]

LEMMA AnswersInRow ==
  ASSUME NEW f, IsRows(f), NEW pads, NEW n \in 1..8
  PROVE  LET g == AnswersRow(f, pads, n) IN
         IsRows(g) /\ \A i \in Sub, j \in 1..8 : g[i][j] = IF j = n THEN Dev_Sends(pads[i]) ELSE f[i][j]
<1> DEFINE g == AnswersRow(f, pads, n)
<1>1. g = [s \in Sub |-> g[s]] /\ \A i \in Sub : g[i] = [f[i] EXCEPT ![n] = Dev_Sends(pads[i])]
  BY DEF AnswersRow
<1>2. \A i \in Sub : f[i] = [j \in 1..8 |-> f[i][j]]
  BY DEF IsRows
<1> HIDE DEF g
<1>3. ASSUME NEW i \in Sub
      PROVE  g[i] = [j \in 1..8 |-> g[i][j]] /\ \A j \in 1..8 : g[i][j] = IF j = n THEN Dev_Sends(pads[i]) ELSE f[i][j]
  <2> DEFINE v == Dev_Sends(pads[i])
             r == f[i]
  <2>1. g[i] = [r EXCEPT ![n] = v] /\ r = [j \in 1..8 |-> r[j]]
    BY <1>1, <1>2
  <2> HIDE DEF v, r
  <2>2. g[i] = [j \in 1..8 |-> g[i][j]] /\ \A j \in 1..8 : g[i][j] = IF j = n THEN v ELSE r[j]
    BY <2>1
  <2>3. QED
    BY <2>2 DEF v, r
<1>4. IsRows(g)
  BY <1>1, <1>3 DEF IsRows
<1>5. QED
  BY <1>3, <1>4 DEF g

\* What a byte makes of the pads of a full transfer, and what they answer to it.
Exchanged(x, p, f) ==
    /\ Exchanging(x.tap) =>
         /\ \A i \in Sub : p[i] = Dev_Clock(x.pads[i], x.tap.sb[i][x.tap.count - 2])
         /\ f = AnswersRow(x.tap.fm, x.pads, x.tap.count - 2)
    /\ ~Exchanging(x.tap) => f = x.tap.fm /\ (x.tap.full /\ x.tap.count # 0 => p = x.pads)

LEMMA ExchangedTap ==
  ASSUME NEW x, IsMachine(x), NEW b \in Byte
  PROVE  LET c == Clocked(x, b) IN SameButAnswers(x.tap, c.tap) /\ Exchanged(x, c.pads, c.tap.fm)
<1> DEFINE c == Clocked(x, b)
<1>0. x.tap.count \in Nat /\ x.tap.full \in BOOLEAN /\ {"tap", "pads", "cards"} \subseteq DOMAIN x
  BY TapFields DEF IsMachine
<1>1. CASE x.tap.count = 0
  <2> DEFINE pads == [s \in Sub |-> Dev_Clock(x.pads[s], Mangled(b))]
             cards == [s \in Sub |-> Card_Clock(x.cards[s], Mangled(b))]
  <2>1. c = [x EXCEPT !.pads = pads, !.cards = cards]
    BY <1>1 DEF Clocked, Addressed, Mangled
  <2> HIDE DEF pads, cards, c
  <2>2. c.tap = x.tap
    BY <1>0, <2>1, Zenon
  <2>3. ~Exchanging(x.tap)
    BY <1>1 DEF Exchanging
  <2>4. QED
    BY <1>1, <2>2, <2>3, Zenon DEF c, SameButAnswers, Exchanged
<1>2. CASE x.tap.count # 0 /\ x.tap.full
  <2>1. c = FullClocked(x)
    BY <1>0, <1>2 DEF Clocked
  <2>2. CASE ~Exchanging(x.tap)
    <3>1. c = x
      BY <2>1, <2>2 DEF FullClocked
    <3>2. QED
      BY <2>2, <3>1, Zenon DEF SameButAnswers, Exchanged
  <2>3. CASE Exchanging(x.tap)
    <3> DEFINE n == x.tap.count - 2
               fm == AnswersRow(x.tap.fm, x.pads, n)
               pads == [s \in Sub |-> Dev_Clock(x.pads[s], x.tap.sb[s][n])]
               t == [x.tap EXCEPT !.fm = fm]
    <3>1. c = [x EXCEPT !.tap.fm = fm, !.pads = pads]
      BY <2>1, <2>3 DEF FullClocked, AnswersRow
    <3>2. c = [x EXCEPT !.tap = t, !.pads = pads]
      BY <3>1
    <3>3. \A i \in Sub : pads[i] = Dev_Clock(x.pads[i], x.tap.sb[i][n])
      OBVIOUS
    <3>4. {"fm", "count", "full", "again", "error", "answering", "sb"} \subseteq DOMAIN x.tap
      BY TapHasFields DEF IsMachine
    <3> HIDE DEF n, fm, pads, c, t
    <3>5. c.tap = t /\ c.pads = pads
      BY <1>0, <3>2, Zenon
    <3>6. SameButAnswers(x.tap, t) /\ t.fm = fm
      BY <3>4, Zenon DEF t, SameButAnswers
    <3>7. SameButAnswers(x.tap, c.tap)
      BY <3>5, <3>6
    <3>8. Exchanged(x, c.pads, c.tap.fm)
      BY <2>3, <3>3, <3>5, <3>6 DEF Exchanged, n, fm
    <3>9. QED
      BY <3>7, <3>8 DEF c
  <2>4. QED
    BY <2>2, <2>3
<1>3. CASE x.tap.count # 0 /\ ~x.tap.full
  <2>1. c = ManualClocked(x, b)
    BY <1>0, <1>3 DEF Clocked
  <2>2. ~Exchanging(x.tap)
    BY <1>3 DEF Exchanging
  <2>3. c.tap = x.tap
    <3>1. CASE x.tap.selected \notin Sub
      BY <2>1, <3>1 DEF ManualClocked
    <3>2. CASE x.tap.selected \in Sub
      <4> DEFINE n == x.tap.selected
                 pads == [x.pads EXCEPT ![n] = Dev_Clock(x.pads[n], b)]
                 cards == [x.cards EXCEPT ![n] = Card_Clock(x.cards[n], b)]
      <4>1. c = [x EXCEPT !.pads = pads, !.cards = cards]
        BY <2>1, <3>2 DEF ManualClocked
      <4> HIDE DEF pads, cards, c
      <4>2. QED
        BY <1>0, <4>1, Zenon
    <3>3. QED
      BY <3>1, <3>2
  <2> HIDE DEF c
  <2>4. SameButAnswers(x.tap, c.tap)
    BY <2>3 DEF SameButAnswers
  <2>5. Exchanged(x, c.pads, c.tap.fm)
    BY <1>3, <2>2, <2>3 DEF Exchanged
  <2>6. QED
    BY <2>4, <2>5 DEF c
<1>4. QED
  BY <1>1, <1>2, <1>3

\* What the tap settles in a full transfer: pads are the pads after the byte.
GoesFull(t, pads, u, b) ==
    /\ t.count = 0 => u.answering = {s \in Sub : Dev_Acks(pads[s])}
    /\ t.count # 0 => u.answering = t.answering
    /\ Stops(t, pads) => u.count = 255 /\ (t.count = 3 => u.error = TRUE)
    /\ ~Stops(t, pads) => u.count = IF t.count < 255 THEN t.count + 1 ELSE t.count
    /\ ~Stops(t, pads) \/ t.count # 3 => u.error = IF t.count = 1 THEN b # 66 ELSE t.error

\* The rows after the mode is set.
RowsAfter(t, b, f) == IF t.count = 0 /\ t.full /\ b < 16 THEN Rows(255) ELSE f

LEMMA SettledTap ==
  ASSUME NEW x, TapIsWell(x.tap), IsRows(x.tap.sb), NEW b \in Byte
  PROVE  LET u == Counted(Settled(x, b)[1]) IN
         /\ Collects(x.tap, u, b) /\ u.fm = RowsAfter(x.tap, b, x.tap.fm)
         /\ u.full => GoesFull(x.tap, x.pads, u, b)
<1> DEFINE t == x.tap
           o == ModeOf(t, b)
           w == Ordered(o, b)
           z == Stored(w, b)
           v == Settled(x, b)[1]
           u == Counted(v)
<1>1. /\ TapIsWell(o) /\ o.count = t.count /\ o.error = t.error
      /\ t.count # 0 => o = t
      /\ t.count = 0 => o.full = (t.full /\ b < 16)
  BY ModeDoes
<1>2. o.again = t.again /\ o.sb = t.sb /\ o.answering = t.answering /\ o.fm = RowsAfter(t, b, t.fm)
  BY ModeInTap DEF RowsAfter
<1>9. t.count \in Nat
  BY TapFields
<1>3. /\ TapIsWell(w) /\ w.full = o.full /\ w.count = o.count
      /\ w.again = o.again /\ w.sb = o.sb /\ w.answering = o.answering /\ w.fm = o.fm
      /\ w.error = IF o.count = 1 THEN o.full /\ b # 66 ELSE o.error
  <2> HIDE DEF o
  <2>1. QED
    BY <1>1, OrderedInTap
<1>4. IsRows(w.sb)
  <2> HIDE DEF o, w
  <2>1. QED
    BY <1>2, <1>3
<1>5. /\ TapIsWell(z) /\ z.full = w.full /\ z.count = w.count /\ z.error = w.error
      /\ z.answering = w.answering /\ z.fm = w.fm /\ Collects(w, z, b)
  <2> HIDE DEF w
  <2>1. QED
    BY <1>3, <1>4, StoredInTap
<1>6. v = (IF z.full THEN FullAck(z, x.pads) ELSE ManualAck(z, x))[1]
  BY DEF Settled, Ordered
<1>7. IF z.full THEN Acked(z, x.pads, v) ELSE v = z
  <2> HIDE DEF z, v
  <2>1. CASE z.full
    BY <1>5, <1>6, <2>1, FullAckInTap
  <2>2. CASE ~z.full
    BY <1>6, <2>2 DEF ManualAck
  <2>3. QED
    BY <2>1, <2>2
<1>12. TapIsWell(v)
  <2> HIDE DEF z, v
  <2>1. CASE z.full
    BY <1>5, <1>6, <2>1, FullAckDoes
  <2>2. CASE ~z.full
    BY <1>5, <1>6, <2>2 DEF ManualAck
  <2>3. QED
    BY <2>1, <2>2
<1>8. /\ u.full = v.full /\ u.sb = v.sb /\ u.again = v.again /\ u.fm = v.fm
      /\ u.answering = v.answering /\ u.error = v.error
      /\ u.count = IF v.count < 255 THEN v.count + 1 ELSE v.count
  <2> HIDE DEF v
  <2>1. QED
    BY <1>12, CountedInTap
<1> HIDE DEF o, w, z, v, u
<1>10. /\ u.full = z.full /\ u.sb = z.sb /\ u.again = z.again /\ u.fm = z.fm
  <2>1. v.full = z.full /\ v.sb = z.sb /\ v.again = z.again /\ v.fm = z.fm
    BY <1>7 DEF Acked
  <2>2. QED
    BY <1>8, <2>1
<1>11. Collects(t, u, b)
  <2>1. w.sb = t.sb /\ w.again = t.again /\ w.count = t.count
    BY <1>1, <1>2, <1>3
  <2>2. QED
    BY <1>5, <1>10, <2>1 DEF Collects
<1>13. u.fm = RowsAfter(t, b, t.fm)
  BY <1>2, <1>3, <1>5, <1>10
<1>14. ASSUME u.full PROVE GoesFull(t, x.pads, u, b)
  <2>1. z.full /\ w.full /\ o.full
    BY <1>3, <1>5, <1>10, <1>14
  <2>2. /\ z.count = t.count /\ z.answering = t.answering
        /\ z.error = IF t.count = 1 THEN b # 66 ELSE t.error
    BY <1>1, <1>2, <1>3, <1>5, <2>1
  <2>3. Stops(z, x.pads) <=> Stops(t, x.pads)
    <3>1. t.count = 3 => z.error = t.error
      BY <2>2
    <3>2. QED
      BY <2>2, <3>1 DEF Stops, Silent
  <2>4. Acked(z, x.pads, v)
    BY <1>7, <2>1
  <2>5. CASE Stops(t, x.pads)
    BY <1>8, <2>2, <2>3, <2>4, <2>5 DEF Acked, GoesFull
  <2>6. CASE ~Stops(t, x.pads)
    BY <1>8, <2>2, <2>3, <2>4, <2>6 DEF Acked, GoesFull
  <2>7. QED
    BY <2>5, <2>6
<1>15. QED
  BY <1>11, <1>13, <1>14 DEF u, v, t

\* A byte passes through a tap that is selected.
TapByte(x, y, b) ==
    /\ Collects(x.tap, y.tap, b) /\ IsRows(y.tap.fm)
    /\ y.tap.full => GoesFull(x.tap, y.pads, y.tap, b)
    /\ x.tap.count # 0 => Exchanged(x, y.pads, y.tap.fm)

LEMMA CollectsAlike ==
  ASSUME NEW t, NEW u, NEW b, Collects(t, u, b), NEW v,
         v.count = t.count, v.sb = t.sb, v.again = t.again
  PROVE  Collects(v, u, b)
<1>1. IsRows(u.sb)
  BY DEF Collects
<1>2. \A i \in Sub, j \in 1..8 : u.sb[i][j] = IF u.full /\ v.count = PlaceOf(i, j) THEN b ELSE v.sb[i][j]
  BY DEF Collects
<1>3. u.again = (v.again \/ (u.full /\ v.count = FullLen - 2))
  BY DEF Collects
<1>4. QED
  BY <1>1, <1>2, <1>3 DEF Collects

LEMMA TapClockByte ==
  ASSUME NEW x, IsMachine(x), x.tap.dtr, IsRows(x.tap.sb), IsRows(x.tap.fm), NEW b \in Byte
  PROVE  TapByte(x, Tap_Clock(x, b), b)
<1> DEFINE c == Clocked(x, b)
           u == Counted(Settled(c, b)[1])
           y == Tap_Clock(x, b)
<1>1. IsMachine(c) /\ SameButAnswers(x.tap, c.tap) /\ Exchanged(x, c.pads, c.tap.fm)
  BY ClockedDoes, ExchangedTap
<1>2. IsRows(c.tap.fm)
  <2>1. CASE Exchanging(x.tap)
    <3>1. x.tap.count - 2 \in 1..8
      BY <2>1 DEF Exchanging
    <3>2. QED
      BY <1>1, <2>1, <3>1, AnswersInRow DEF Exchanged
  <2>2. CASE ~Exchanging(x.tap)
    BY <1>1, <2>2 DEF Exchanged
  <2>3. QED
    BY <2>1, <2>2
<1>3. TapIsWell(c.tap) /\ IsRows(c.tap.sb) /\ {"tap", "pads", "cards"} \subseteq DOMAIN c
  BY <1>1 DEF IsMachine, SameButAnswers
<1>4. /\ Collects(c.tap, u, b) /\ u.fm = RowsAfter(c.tap, b, c.tap.fm)
      /\ u.full => GoesFull(c.tap, c.pads, u, b)
  <2> HIDE DEF c
  <2>1. QED
    BY <1>3, SettledTap
<1>5. y = [c EXCEPT !.tap = u]
  BY DEF Tap_Clock
<1> HIDE DEF c, u, y
<1>6. y.tap = u /\ y.pads = c.pads
  BY <1>3, <1>5, Zenon
<1>7. Collects(x.tap, u, b)
  <2>1. x.tap.count = c.tap.count /\ x.tap.sb = c.tap.sb /\ x.tap.again = c.tap.again
    BY <1>1 DEF SameButAnswers
  <2>2. QED
    BY <1>4, <2>1, CollectsAlike
<1>8. IsRows(u.fm)
  <2>1. IsRows(Rows(255))
    BY DEF IsRows, Rows
  <2>2. u.fm = Rows(255) \/ u.fm = c.tap.fm
    BY <1>4 DEF RowsAfter
  <2>3. QED
    BY <1>2, <2>1, <2>2
<1>9. Stops(c.tap, c.pads) <=> Stops(x.tap, c.pads)
  BY <1>1 DEF Stops, Silent, SameButAnswers
<1>10. u.full => GoesFull(x.tap, c.pads, u, b)
  <2>1. /\ c.tap.count = x.tap.count /\ c.tap.answering = x.tap.answering /\ c.tap.error = x.tap.error
    BY <1>1 DEF SameButAnswers
  <2>2. ASSUME GoesFull(c.tap, c.pads, u, b) PROVE GoesFull(x.tap, c.pads, u, b)
    BY <1>9, <2>1, <2>2 DEF GoesFull
  <2>3. QED
    BY <1>4, <2>2
<1>11. x.tap.count # 0 => Exchanged(x, c.pads, u.fm)
  <2>1. x.tap.count # 0 => u.fm = c.tap.fm
    BY <1>1, <1>4 DEF RowsAfter, SameButAnswers
  <2>2. QED
    BY <1>1, <2>1
<1>12. TapByte(x, y, b)
  BY <1>6, <1>7, <1>8, <1>10, <1>11, Zenon DEF TapByte
<1>13. QED
  BY <1>12 DEF y

-----------------------------------------------------------------------------
(* The tap in every step of the port.                                          *)
LEMMA SoundNew ==
  ASSUME NEW dtr
  PROVE  TapIsSound(Tap_New(dtr))
BY DEF TapIsSound, Tap_New, IsRows, Rows

\* The tap after it was selected or deselected.
TapTurns(t, u, dtr) ==
    /\ u.fm = t.fm /\ u.setting = t.setting
    /\ dtr /\ t.dtr => u = t
    /\ ~dtr => u.dtr = FALSE /\ u.full = FALSE /\ u.again = t.again /\ u.sb = t.sb
    /\ dtr /\ ~t.dtr => /\ u.dtr = TRUE /\ u.full = t.setting /\ u.count = 0 /\ u.again = FALSE
                        /\ u.sb = IF t.again THEN t.sb ELSE PollRows

LEMMA TapTurned ==
  ASSUME NEW t, TapIsWell(t), NEW dtr \in BOOLEAN
  PROVE  TapTurns(t, Tap_SetDTR(t, dtr), dtr)
<1> DEFINE u == Tap_SetDTR(t, dtr)
           sb == IF t.again THEN t.sb ELSE PollRows
           setting == t.setting
<1>1. {"dtr", "selected", "count", "full", "setting", "cardMode", "again", "sb", "fm"} \subseteq DOMAIN t
      /\ t.dtr \in BOOLEAN
  BY TapHasFields, TapFields
<1>2. CASE ~dtr
  <2>1. u = [t EXCEPT !.dtr = FALSE, !.selected = -1, !.cardMode = FALSE, !.full = FALSE]
    BY <1>2, Zenon DEF Tap_SetDTR
  <2> HIDE DEF u
  <2>2. u.fm = t.fm /\ u.setting = t.setting /\ u.dtr = FALSE /\ u.full = FALSE /\ u.again = t.again /\ u.sb = t.sb
    BY <1>1, <2>1, Zenon
  <2>3. TapTurns(t, u, dtr)
    BY <1>2, <2>2, Zenon DEF TapTurns
  <2>4. QED
    BY <2>3 DEF u
<1>3. CASE dtr /\ ~t.dtr
  <2>1. u = [t EXCEPT !.dtr = TRUE, !.full = setting, !.count = 0, !.sb = sb, !.again = FALSE]
    BY <1>3, Zenon DEF Tap_SetDTR
  <2> HIDE DEF u, sb, setting
  <2>2. /\ u.fm = t.fm /\ u.setting = t.setting /\ u.dtr = TRUE /\ u.full = setting /\ u.count = 0
        /\ u.again = FALSE /\ u.sb = sb
    BY <1>1, <2>1, Zenon
  <2>3. TapTurns(t, u, dtr)
    BY <1>3, <2>2, Zenon DEF TapTurns, sb, setting
  <2>4. QED
    BY <2>3 DEF u
<1>4. CASE dtr /\ t.dtr
  <2>1. u = t
    BY <1>4, Zenon DEF Tap_SetDTR
  <2>2. QED
    BY <1>4, <2>1, Zenon DEF TapTurns
<1>5. QED
  BY <1>1, <1>2, <1>3, <1>4

LEMMA SoundTurned ==
  ASSUME NEW t, TapIsWell(t), TapIsSound(t), NEW u, NEW dtr \in BOOLEAN, TapTurns(t, u, dtr)
  PROVE  TapIsSound(u)
<1>0. t.dtr \in BOOLEAN /\ t.again \in BOOLEAN
  BY TapFields
<1>1. CASE dtr /\ t.dtr
  BY <1>1 DEF TapTurns
<1>2. CASE ~dtr
  BY <1>2 DEF TapTurns, TapIsSound
<1>3. CASE dtr /\ ~t.dtr
  <2>1. IsRows(PollRows)
    BY DEF IsRows, PollRows
  <2>2. IsRows(u.sb)
    BY <1>3, <2>1 DEF TapTurns, TapIsSound
  <2>3. QED
    BY <1>3, <2>2 DEF TapTurns, TapIsSound
<1>4. QED
  BY <1>0, <1>1, <1>2, <1>3

LEMMA SoundByte ==
  ASSUME NEW x, IsMachine(x), TapIsSound(x.tap), NEW b \in Byte
  PROVE  TapIsSound(Tap_Clock(x, b).tap)
<1> DEFINE y == Tap_Clock(x, b)
           t == x.tap
           u == y.tap
<1>0. /\ t.dtr \in BOOLEAN /\ t.again \in BOOLEAN /\ t.full \in BOOLEAN /\ t.count \in Nat
  BY TapFields DEF IsMachine
<1>1. CASE ~t.dtr
  BY <1>1 DEF Tap_Clock
<1>2. CASE t.dtr
  <2>1. TapGoes(t, u, b)
    BY <1>2, TapClockDoes
  <2>2. TapByte(x, y, b)
    BY <1>2, TapClockByte DEF TapIsSound
  <2> HIDE DEF u, y
  <2>3. Collects(t, u, b) /\ IsRows(u.fm)
    BY <2>2 DEF TapByte, u
  <2>4. u.dtr = t.dtr /\ u.count > 0 /\ (t.count # 0 => u.full = t.full)
    BY <2>1 DEF TapGoes
  <2>5. IsRows(u.sb) /\ (~u.full => u.again = t.again)
    BY <1>0, <2>3 DEF Collects
  <2>6. ~t.full \/ t.count = 0 => ~t.again
    BY <1>2 DEF TapIsSound
  <2>7. ~u.full => ~u.again
    BY <2>4, <2>5, <2>6
  <2>8. TapIsSound(u)
    BY <1>2, <2>3, <2>4, <2>5, <2>7 DEF TapIsSound
  <2>9. QED
    BY <2>8 DEF u, y
<1>3. QED
  BY <1>0, <1>1, <1>2

PortTaps == TapIsSound(m.tap) /\ \A s \in saved : TapIsSound(s.m.tap)

\* Steps that are not about the tap.
LEMMA TapIsAside ==
  ASSUME PortInv,
         \/ BeginFrame \/ (\E s \in Sub : SeeBeam(s)) \/ EndFrame(Amounts)
         \/ (\E enabled \in BOOLEAN : SetAMCT(enabled)) \/ SaveFails \/ CloseGame(Amounts) \/ Reset
  PROVE  m'.tap = m.tap /\ saved' = saved
<1>0. IsMachine(m)
  BY DEF PortInv
<1>1. CASE BeginFrame
  <2>1. PICK in \in Inputs(setup) :
          m' = [m EXCEPT !.pads = [s \in Sub |-> UpdateInput(@[s], in.held[s], in.move, in.flag)]]
    BY <1>1 DEF BeginFrame
  <2> DEFINE p == [s \in Sub |-> UpdateInput(m.pads[s], in.held[s], in.move, in.flag)]
  <2>2. m' = [m EXCEPT !.pads = p]
    BY <2>1
  <2> HIDE DEF p
  <2>3. QED
    BY <1>0, <1>1, <2>2, PadsOnly DEF BeginFrame
<1>2. ASSUME NEW s \in Sub, SeeBeam(s) PROVE m'.tap = m.tap /\ saved' = saved
  <2> DEFINE p == [m.pads EXCEPT ![s] = Pad_SeesBeam(m.pads[s])]
  <2>1. m' = [m EXCEPT !.pads = p] /\ saved' = saved
    BY <1>2 DEF SeeBeam, frontend
  <2> HIDE DEF p
  <2>2. QED
    BY <1>0, <2>1, PadsOnly
<1>3. CASE EndFrame(Amounts)
  BY <1>3, EndFrameDoes DEF EndFrame
<1>4. ASSUME NEW enabled \in BOOLEAN, SetAMCT(enabled) PROVE m'.tap = m.tap /\ saved' = saved
  <2> DEFINE p == [s \in Sub |-> IF IsShock(m.pads[s]) THEN Shock_SetAMCT(m.pads[s], enabled) ELSE m.pads[s]]
  <2>1. m' = [m EXCEPT !.pads = p] /\ saved' = saved
    BY <1>4 DEF SetAMCT, frontend
  <2> HIDE DEF p
  <2>2. QED
    BY <1>0, <2>1, PadsOnly
<1>5. CASE SaveFails \/ CloseGame(Amounts)
  BY <1>5 DEF SaveFails, CloseGame
<1>6. CASE Reset
  BY <1>0, <1>6, ResetDoes DEF Reset, frontend
<1>7. QED
  BY <1>1, <1>2, <1>3, <1>4, <1>5, <1>6

LEMMA TapsInit == Port_Init => PortTaps
<1> SUFFICES ASSUME Port_Init PROVE PortTaps
  OBVIOUS
<1>1. PICK dtr \in {FALSE, setup.tap} : m = NewMachine(file, dtr)
  BY DEF Port_Init
<1>2. IsFile(file) /\ dtr \in BOOLEAN
  BY PortAssumption DEF Port_Init
<1>3. m.tap = Tap_New(dtr) /\ saved = {}
  BY <1>1, <1>2, NewMachineIs DEF Port_Init
<1>4. QED
  BY <1>3, SoundNew DEF PortTaps

LEMMA TapsStep == PortInv /\ PortTaps /\ [Port_Next]_portVars => PortTaps'
<1> SUFFICES ASSUME PortInv, PortTaps, [Port_Next]_portVars PROVE PortTaps'
  OBVIOUS
<1>0. IsMachine(m) /\ TapIsWell(m.tap) /\ setup \in Setups
  BY DEF PortInv, IsMachine
<1>a. ASSUME TapIsSound(m'.tap), saved' = saved PROVE PortTaps'
  BY <1>a DEF PortTaps
<1>1. ASSUME NEW dtr \in BOOLEAN, SetDTR(dtr) PROVE PortTaps'
  <2>1. m'.tap = (IF setup.tap THEN Tap_SetDTR(m.tap, dtr) ELSE m.tap) /\ saved' = saved
    BY <1>0, <1>1, SelectMachine DEF SetDTR, frontend
  <2>2. TapIsSound(Tap_SetDTR(m.tap, dtr))
    BY <1>0, TapTurned, SoundTurned DEF PortTaps
  <2>3. QED
    BY <1>a, <2>1, <2>2 DEF PortTaps
<1>2. ASSUME NEW b \in Byte, Exchange(b) \/ Overhear(b) PROVE PortTaps'
  <2>1. saved' = saved /\ (m' = Tap_Clock(m, b) \/ m' = DirectClock(b))
    BY <1>2 DEF Exchange, Overhear, frontend
  <2>2. CASE m' = Tap_Clock(m, b)
    BY <1>0, <1>a, <2>1, <2>2, SoundByte DEF PortTaps
  <2>3. CASE m' = DirectClock(b)
    <3>1. m'.tap = m.tap
      BY <1>0, <2>3, DirectDoes
    <3>2. QED
      BY <1>a, <2>1, <3>1 DEF PortTaps
  <2>4. QED
    BY <2>1, <2>2, <2>3
<1>3. ASSUME \/ BeginFrame \/ (\E s \in Sub : SeeBeam(s)) \/ EndFrame(Amounts)
             \/ (\E enabled \in BOOLEAN : SetAMCT(enabled)) \/ SaveFails \/ CloseGame(Amounts) \/ Reset
      PROVE  PortTaps'
  BY <1>a, <1>3, TapIsAside DEF PortTaps
<1>4. CASE SaveState
  <2> DEFINE w == [m |-> m, said |-> said, heard |-> heard, acked |-> acked, odd |-> odd, told |-> told]
  <2>1. m' = m /\ saved' = {w} /\ w.m = m
    BY <1>4 DEF SaveState
  <2> HIDE DEF w
  <2>2. QED
    BY <2>1 DEF PortTaps
<1>5. CASE LoadState
  <2>1. PICK s \in saved : m'.tap = s.m.tap /\ saved' = saved
    BY <1>5 DEF LoadState
  <2>2. QED
    BY <1>a, <2>1 DEF PortTaps
<1>6. CASE Start
  <2>1. PICK dtr \in {FALSE, setup.tap} : m' = NewMachine(file, dtr)
    BY <1>6 DEF Start
  <2>2. IsFile(file) /\ dtr \in BOOLEAN
    BY PortAssumption DEF PortInv
  <2>3. m'.tap = Tap_New(dtr) /\ saved' = {}
    BY <1>6, <2>1, <2>2, NewMachineIs DEF Start
  <2>4. QED
    BY <2>3, SoundNew DEF PortTaps
<1>7. CASE UNCHANGED portVars
  BY <1>7 DEF portVars, PortTaps
<1>8. {1, 66} \subseteq Byte
  BY ByteIs
<1>9. QED
  BY <1>1, <1>2, <1>3, <1>4, <1>5, <1>6, <1>7, <1>8 DEF Port_Next

-----------------------------------------------------------------------------
(* The slots of a full transfer: w has the command and the motors of each, s and h
   the n bytes said and heard.                                                 *)
Plugged(u) == {i \in Sub : u.pads[i] # "none"}

\* The places of a slot that tell the pad something: a command and two motors.
Parts == {1, 3, 4}
ToldOf(v, j) == IF j = 1 THEN v[1] ELSE v[j - 1]

\* What a tap that is not selected will tell the pads in a full transfer.
Between(t, w) ==
    ~t.dtr => \A i \in Sub, j \in Parts :
                w[i][1] = 66 => ToldOf(w[i], j) = IF t.again THEN t.sb[i][j] ELSE PollRows[i][j]

\* Of the places, those that were sent have what was said and the others what is told.
Bytes(t, s, w, n) ==
    \A i \in Sub, j \in Parts :
      /\ n > PlaceOf(i, j) => t.sb[i][j] = s[PlaceOf(i, j) + 1]
      /\ n <= PlaceOf(i, j) /\ w[i][1] = 66 => t.sb[i][j] = ToldOf(w[i], j)

\* The first two bytes of the answer of a pad, as the tap has them and as they were heard.
AnswerOf(p, j) == IF j = 1 THEN IdNow(p) ELSE 90
HeardFrom(p, f, h, n, i) ==
    \A j \in 1..2 : /\ n >= j + 3 => f[j] = AnswerOf(p, j)
                    /\ n > PlaceOf(i, j) => h[PlaceOf(i, j) + 1] = AnswerOf(p, j)

\* The tap has not given up.
Going(t, n) == n < 2 \/ ~t.error

InStep(t, n) == t.count = n \/ (n >= FullLen /\ t.count >= FullLen)

InSlots(u, x, h, w, n) ==
    \A i \in Plugged(u) : (IsShock(x.pads[i]) => w[i][1] = 66) =>
      SlotAt(x.pads[i], w[i], n) /\ HeardFrom(x.pads[i], x.tap.fm[i], h, n, i)

InFull(u, x, s, h, w, n) ==
    /\ ~Going(x.tap, n) => ~x.tap.again /\ x.tap.count \in {2, 3, 255}
    /\ Going(x.tap, n) =>
         /\ InStep(x.tap, n)
         /\ x.tap.again <=> n >= FullLen - 1
         /\ n >= 1 => x.tap.answering = Plugged(u)
         /\ Bytes(x.tap, s, w, n)
         /\ InSlots(u, x, h, w, n)

Slots(u, x, s, h, o, w, n) ==
    u.tap /\ Plugged(u) # {} =>
      /\ Between(x.tap, w)
      /\ ~o /\ ~Chosen(x) => ~x.tap.full
      /\ ~o /\ x.tap.full /\ Chosen(x) => InFull(u, x, s, h, w, n)

PortSlots ==
    /\ Slots(setup, m, said, heard, odd, told, Len(said))
    /\ \A s \in saved : Slots(setup, s.m, s.said, s.heard, s.odd, s.told, Len(s.said))

LEMMA FullLengths ==
  /\ FullLen \in 11..35 /\ FullLen \in Nat
  /\ \A i \in Sub, j \in 1..8 : PlaceOf(i, j) \in 3..(FullLen - 1)
  /\ \A i \in Sub : PlaceOf(i, 4) < FullLen - 4
  /\ \A i \in Sub : PlaceOf(i, 1) >= 3 /\ PlaceOf(i, 3) >= 5 /\ PlaceOf(i, 4) >= 6
  /\ Parts \subseteq 1..8 /\ 1..2 \subseteq 1..8
BY SubPortsAssumption DEF FullLen, PlaceOf, Sub, Parts

\* One byte more of a transfer that goes on.
LEMMA BytesNext ==
  ASSUME NEW t, NEW u, NEW b, Collects(t, u, b), u.full = TRUE, t.count \in Nat, NEW n \in Nat, InStep(t, n),
         NEW s, NEW z, Grows(s, n, b, z), NEW w, Bytes(t, s, w, n)
  PROVE  Bytes(u, z, w, n + 1)
<1> SUFFICES ASSUME NEW i \in Sub, NEW j \in Parts
             PROVE  /\ n + 1 > PlaceOf(i, j) => u.sb[i][j] = z[PlaceOf(i, j) + 1]
                    /\ n + 1 <= PlaceOf(i, j) /\ w[i][1] = 66 => u.sb[i][j] = ToldOf(w[i], j)
  BY DEF Bytes
<1> DEFINE l == PlaceOf(i, j)
<1>1. l \in 3..(FullLen - 1) /\ FullLen \in Nat /\ j \in 1..8
  BY FullLengths
<1>2. /\ n > l => t.sb[i][j] = s[l + 1]
      /\ n <= l /\ w[i][1] = 66 => t.sb[i][j] = ToldOf(w[i], j)
  BY DEF Bytes
<1>3. u.sb[i][j] = IF t.count = l THEN b ELSE t.sb[i][j]
  BY <1>1 DEF Collects
<1> HIDE DEF l
<1>4. t.count = l <=> n = l
  BY <1>1 DEF InStep
<1>5. z[n + 1] = b /\ \A k \in 1..n : z[k] = s[k]
  BY DEF Grows
<1>6. CASE n = l
  BY <1>1, <1>3, <1>4, <1>5, <1>6 DEF l
<1>7. CASE n # l
  <2>1. u.sb[i][j] = t.sb[i][j]
    BY <1>3, <1>4, <1>7
  <2>2. n + 1 > l => n > l /\ l + 1 \in 1..n
    BY <1>1, <1>7
  <2>3. n + 1 > l => z[l + 1] = s[l + 1]
    BY <1>5, <2>2
  <2>4. n + 1 <= l => n <= l
    BY <1>1
  <2>5. QED
    BY <1>2, <2>1, <2>2, <2>3, <2>4 DEF l
<1>8. QED
  BY <1>6, <1>7

LEMMA AgainNext ==
  ASSUME NEW t, NEW u, NEW b, Collects(t, u, b), u.full = TRUE, t.count \in Nat, NEW n \in Nat, InStep(t, n),
         t.again \in BOOLEAN, t.again <=> n >= FullLen - 1
  PROVE  u.again <=> n + 1 >= FullLen - 1
<1>1. u.again = (t.again \/ t.count = FullLen - 2)
  BY DEF Collects
<1>2. FullLen \in Nat /\ FullLen \in 11..35
  BY FullLengths
<1> DEFINE last == t.count = FullLen - 2
           far == n >= FullLen - 1
           next == n + 1 >= FullLen - 1
<1>3. far \/ last <=> next
  BY <1>2 DEF InStep
<1>4. t.again <=> far
  OBVIOUS
<1>5. u.again = (t.again \/ last)
  BY <1>1
<1> HIDE DEF last, far, next
<1>6. u.again <=> next
  BY <1>3, <1>4, <1>5, Zenon
<1>7. QED
  BY <1>6 DEF next

\* What a byte makes of the tap itself.
LEMMA GoingNext ==
  ASSUME NEW t, NEW p, NEW u, NEW b, GoesFull(t, p, u, b), t.count \in Nat, t.error \in BOOLEAN,
         NEW n \in Nat, InStep(t, n), Going(t, n), Going(u, n + 1)
  PROVE  ~Stops(t, p) \/ (t.count = 2 /\ t.answering = {})
<1>1. CASE t.count = 3
  <2>1. n = 3
    BY <1>1, FullLengths DEF InStep
  <2>2. ~u.error
    BY <2>1 DEF Going
  <2>3. QED
    BY <1>1, <2>2 DEF GoesFull
<1>2. CASE t.count # 3
  BY <1>2 DEF Stops
<1>3. QED
  BY <1>1, <1>2

LEMMA StepNext ==
  ASSUME NEW t, NEW p, NEW u, NEW b, GoesFull(t, p, u, b), t.count \in Nat,
         NEW n \in Nat, InStep(t, n), ~Stops(t, p)
  PROVE  InStep(u, n + 1)
<1>1. u.count = IF t.count < 255 THEN t.count + 1 ELSE t.count
  BY DEF GoesFull
<1>2. FullLen \in 11..35
  BY FullLengths
<1>3. QED
  BY <1>1, <1>2 DEF InStep

LEMMA GivenUpNext ==
  ASSUME NEW t, TapIsWell(t), NEW p, NEW u, NEW b, GoesFull(t, p, u, b), Collects(t, u, b), u.full = TRUE,
         NEW n \in Nat, ~Going(t, n), ~t.again, t.count \in {2, 3, 255}
  PROVE  ~Going(u, n + 1) /\ ~u.again /\ u.count \in {2, 3, 255}
<1>0. t.error \in BOOLEAN /\ t.again \in BOOLEAN
  BY TapFields
<1>1. t.error = TRUE /\ n >= 2 /\ t.again = FALSE
  BY <1>0 DEF Going
<1>2. u.again = FALSE
  <2> DEFINE last == u.full /\ t.count = FullLen - 2
  <2>1. last = FALSE
    BY FullLengths
  <2>2. u.again = (t.again \/ last)
    BY DEF Collects
  <2> HIDE DEF last
  <2>3. QED
    BY <1>1, <2>1, <2>2
<1>3. u.error = TRUE /\ u.count \in {2, 3, 255}
  <2>1. t.count = 3 => Stops(t, p)
    BY <1>1 DEF Stops
  <2>2. t.count = 255 => ~Stops(t, p)
    BY DEF Stops
  <2>3. QED
    BY <1>1, <2>1, <2>2 DEF GoesFull
<1>4. QED
  BY <1>1, <1>2, <1>3 DEF Going

\* The rows have the answer of a pad, and it is heard when it is its turn.
RowHas(p, g, n) == \A j \in 1..2 : n >= j + 3 => g[j] = AnswerOf(p, j)
TurnOf(p, v, n, i) == \A j \in 1..2 : n = PlaceOf(i, j) => v = AnswerOf(p, j)

\* What HeardFrom says of one of the two.
HeardPart(p, f, h, n, i, j) ==
    /\ n >= j + 3 => f[j] = AnswerOf(p, j)
    /\ n > PlaceOf(i, j) => h[PlaceOf(i, j) + 1] = AnswerOf(p, j)

LEMMA HeardParts ==
  ASSUME NEW p, NEW f, NEW h, NEW n, NEW i
  PROVE  HeardFrom(p, f, h, n, i) <=> \A j \in 1..2 : HeardPart(p, f, h, n, i, j)
BY Zenon DEF HeardFrom, HeardPart

LEMMA SlotHeard ==
  ASSUME NEW p, NEW q, IdNow(q) = IdNow(p), NEW f, NEW g, NEW h, NEW n \in Nat, NEW v, NEW k,
         OneMore(h, n, v, k), NEW i \in Sub, HeardFrom(p, f, h, n, i),
         RowHas(p, g, n + 1), TurnOf(p, v, n, i)
  PROVE  HeardFrom(q, g, k, n + 1, i)
<1>1. ASSUME NEW j \in 1..2 PROVE HeardPart(q, g, k, n + 1, i, j)
  <2> DEFINE l == PlaceOf(i, j)
             a == AnswerOf(p, j)
  <2>1. AnswerOf(q, j) = a
    BY DEF AnswerOf
  <2>2. l \in Nat
    <3>1. l \in 3..(FullLen - 1)
      BY FullLengths
    <3>2. QED
      BY <3>1, FullLengths
  <2>3. n > l => h[l + 1] = a
    BY DEF HeardFrom
  <2>4. k[n + 1] = v /\ \A c \in 1..n : k[c] = h[c]
    BY DEF OneMore
  <2>5. (n = l => v = a) /\ (n + 1 >= j + 3 => g[j] = a)
    BY DEF TurnOf, RowHas
  <2> HIDE DEF l, a
  <2>6. n + 1 > l => k[l + 1] = a
    <3>1. CASE n = l
      BY <2>4, <2>5, <3>1
    <3>2. CASE n # l
      BY <2>2, <2>3, <2>4, <3>2
    <3>3. QED
      BY <3>1, <3>2
  <2>7. QED
    BY <2>1, <2>5, <2>6 DEF l, HeardPart
<1>2. HeardFrom(q, g, k, n + 1, i) <=> \A j \in 1..2 : HeardPart(q, g, k, n + 1, i, j)
  BY HeardParts, Zenon
<1>3. \A j \in 1..2 : HeardPart(q, g, k, n + 1, i, j)
  BY <1>1, Zenon
<1>4. QED
  BY <1>2, <1>3, Zenon

LEMMA FullHears ==
  ASSUME NEW x, IsMachine(x), x.tap.dtr, x.tap.full, NEW i \in Sub, NEW j \in 1..8,
         x.tap.count = PlaceOf(i, j)
  PROVE  /\ Exchanging(x.tap) => i = 0 /\ Tap_Sends(x) = Dev_Sends(x.pads[0])
         /\ ~Exchanging(x.tap) => Tap_Sends(x) = x.tap.fm[i][j]
<1> DEFINE n == x.tap.count - 3
<1>0. x.tap.count \in Nat
  BY TapFields DEF IsMachine
<1>a. x.tap.count \in 3..(FullLen - 1)
  BY FullLengths
<1>b. n \div 8 = i /\ (n % 8) + 1 = j
  BY <1>0, <1>a, PlacesInFull
<1>c. x.tap.count \in 3..10 => i = 0
  BY SubPortsAssumption DEF PlaceOf, Sub
<1>1. /\ x.tap.count \in 3..(FullLen - 1) /\ n \div 8 = i /\ (n % 8) + 1 = j
      /\ x.tap.count \in 3..10 => i = 0
  BY <1>a, <1>b, <1>c
<1>2. InFullData(x.tap) /\ x.tap.count # 0 /\ x.tap.count # 1 /\ x.tap.count # 2
  BY <1>0, <1>a DEF InFullData
<1>3. Tap_Sends(x) = FullSends(x)
  <2> DEFINE arm == IF x.tap.selected \in Sub
                    THEN Together(Dev_Sends(x.pads[x.tap.selected]), Card_Sends(x.cards[x.tap.selected]))
                    ELSE 255
             sends == FullSends(x)
             c == x.tap.count
  <2>1. Tap_Sends(x) = CASE ~x.tap.dtr \/ c = 0 -> 255
                         [] x.tap.dtr /\ c > 0 /\ x.tap.full -> sends
                         [] x.tap.dtr /\ c > 0 /\ ~x.tap.full -> arm
    BY Zenon DEF Tap_Sends
  <2>2. x.tap.dtr = TRUE /\ x.tap.full = TRUE /\ c # 0 /\ c > 0
    BY <1>0, <1>2, TapFields DEF IsMachine
  <2> HIDE DEF arm, sends, c
  <2>3. Tap_Sends(x) = sends
    BY <2>1, <2>2
  <2>4. QED
    BY <2>3 DEF sends
<1>4. FullSends(x) = IF Exchanging(x.tap) THEN Dev_Sends(x.pads[0]) ELSE x.tap.fm[n \div 8][(n % 8) + 1]
  BY <1>2 DEF FullSends
<1>5. Exchanging(x.tap) => x.tap.count \in 3..10
  BY DEF Exchanging
<1> HIDE DEF n
<1>6. QED
  BY <1>1, <1>3, <1>4, <1>5

\* What AnswersInRow says of the rows.
AnswersPut(f, g, pads, n) ==
    IsRows(g) /\ \A i \in Sub, j \in 1..8 : g[i][j] = IF j = n THEN Dev_Sends(pads[i]) ELSE f[i][j]

LEMMA AnswersArePut ==
  ASSUME NEW f, IsRows(f), NEW pads, NEW n \in 1..8
  PROVE  AnswersPut(f, AnswersRow(f, pads, n), pads, n)
BY AnswersInRow DEF AnswersPut

\* A pad that is plugged in gets a byte of the full transfer in its slot.
SlotNext(x, y, v, h, k, n, i) ==
    SlotAt(y.pads[i], v, n + 1) /\ HeardFrom(y.pads[i], y.tap.fm[i], k, n + 1, i)

\* The transfer waits for the pads, or has all of their answers.
LEMMA SlotNextWaits ==
  ASSUME NEW x, IsMachine(x), x.tap.dtr, x.tap.full, NEW y, NEW b, TapByte(x, y, b),
         NEW n \in Nat, n \in {1, 2} \/ n >= 11, InStep(x.tap, n),
         NEW i \in Sub, NEW v, SlotAt(x.pads[i], v, n),
         NEW h, NEW k, OneMore(h, n, Tap_Sends(x), k), HeardFrom(x.pads[i], x.tap.fm[i], h, n, i)
  PROVE  SlotNext(x, y, v, h, k, n, i)
<1>1. x.tap.count \in Nat
  BY TapFields DEF IsMachine
<1>2. x.tap.count # 0 /\ x.tap.count \notin 3..10
  BY <1>1, FullLengths DEF InStep
<1>3. ~Exchanging(x.tap)
  BY <1>2 DEF Exchanging
<1>4. y.pads = x.pads /\ y.tap.fm = x.tap.fm
  BY <1>2, <1>3 DEF TapByte, Exchanged
<1>5. SlotAt(y.pads[i], v, n + 1)
  BY <1>4, SlotWaits
<1> DEFINE p == x.pads[i]
           f == x.tap.fm[i]
<1>6. RowHas(p, f, n + 1)
  <2> SUFFICES ASSUME NEW j \in 1..2, n + 1 >= j + 3 PROVE f[j] = AnswerOf(p, j)
    BY DEF RowHas
  <2>1. n >= j + 3
    OBVIOUS
  <2>2. QED
    BY <2>1 DEF HeardFrom
<1>7. TurnOf(p, Tap_Sends(x), n, i)
  <2> SUFFICES ASSUME NEW j \in 1..2, n = PlaceOf(i, j) PROVE Tap_Sends(x) = AnswerOf(p, j)
    BY DEF TurnOf
  <2>1. n \in 3..(FullLen - 1) /\ j \in 1..8
    BY FullLengths
  <2>2. x.tap.count = PlaceOf(i, j)
    BY <2>1, FullLengths DEF InStep
  <2>3. Tap_Sends(x) = f[j]
    BY <1>3, <2>1, <2>2, FullHears
  <2>4. n + 1 >= j + 3
    BY <2>1
  <2>5. QED
    BY <1>6, <2>3, <2>4 DEF RowHas
<1> HIDE DEF p, f
<1>8. HeardFrom(p, f, k, n + 1, i)
  <2>1. HeardFrom(p, f, h, n, i)
    BY DEF p, f
  <2>2. IdNow(p) = IdNow(p) /\ OneMore(h, n, Tap_Sends(x), k)
    OBVIOUS
  <2>3. QED
    BY <1>6, <1>7, <2>1, <2>2, SlotHeard, Zenon
<1>9. QED
  BY <1>4, <1>5, <1>8 DEF SlotNext, p, f

\* All pads exchange a byte.
LEMMA SlotNextGoes ==
  ASSUME NEW x, IsMachine(x), x.tap.dtr, x.tap.full, ~x.tap.error, IsRows(x.tap.fm), NEW y, NEW b, TapByte(x, y, b),
         NEW n \in 3..10, InStep(x.tap, n),
         NEW i \in Sub, PadIsWell(x.pads[i]), x.pads[i].dtr, Motorised(x.pads[i]),
         NEW v, SlotAt(x.pads[i], v, n), IsShock(x.pads[i]) => v[1] = 66,
         NEW s, NEW w, w[i] = v, Bytes(x.tap, s, w, n),
         n = 3 => Dev_Acks(y.pads[i]),
         NEW h, NEW k, OneMore(h, n, Tap_Sends(x), k), HeardFrom(x.pads[i], x.tap.fm[i], h, n, i)
  PROVE  SlotNext(x, y, v, h, k, n, i)
<1> DEFINE p == x.pads[i]
           q == y.pads[i]
           f == x.tap.fm[i]
           g == y.tap.fm[i]
           c == x.tap.sb[i][n - 2]
<1>1. x.tap.count = n /\ x.tap.count # 0 /\ x.tap.full = TRUE /\ x.tap.error = FALSE
  BY FullLengths, TapFields DEF InStep, IsMachine
<1>2. Exchanging(x.tap)
  BY <1>1 DEF Exchanging
<1>3. q = Dev_Clock(p, c) /\ y.tap.fm = AnswersRow(x.tap.fm, x.pads, n - 2)
  BY <1>1, <1>2 DEF TapByte, Exchanged
<1>4. \A j \in 1..8 : g[j] = IF j = n - 2 THEN Dev_Sends(p) ELSE f[j]
  <2>1. n - 2 \in 1..8
    OBVIOUS
  <2>2. \A l \in Sub, j \in 1..8 : AnswersRow(x.tap.fm, x.pads, n - 2)[l][j]
                                   = IF j = n - 2 THEN Dev_Sends(x.pads[l]) ELSE x.tap.fm[l][j]
    <3>1. AnswersPut(x.tap.fm, AnswersRow(x.tap.fm, x.pads, n - 2), x.pads, n - 2)
      BY <2>1, AnswersArePut, Zenon
    <3>2. QED
      BY <3>1, Zenon DEF AnswersPut
  <2>3. QED
    BY <1>3, <2>2, SMTT(30)
<1>5. IsShock(p) => (n = 3 => c = 66) /\ (n = 5 => c = v[2]) /\ (n = 6 => c = v[3])
  <2> SUFFICES ASSUME IsShock(p) PROVE (n = 3 => c = 66) /\ (n = 5 => c = v[2]) /\ (n = 6 => c = v[3])
    OBVIOUS
  <2>1. PlaceOf(i, 1) >= 3 /\ PlaceOf(i, 3) >= 5 /\ PlaceOf(i, 4) >= 6
        /\ PlaceOf(i, 1) \in Nat /\ PlaceOf(i, 3) \in Nat /\ PlaceOf(i, 4) \in Nat
    BY FullLengths, SubPortsAssumption DEF PlaceOf, Sub
  <2>2. \A j \in Parts : n <= PlaceOf(i, j) => x.tap.sb[i][j] = ToldOf(v, j)
    BY DEF Bytes
  <2>3. n = 3 => c = ToldOf(v, 1)
    BY <2>1, <2>2 DEF Parts
  <2>4. n = 5 => c = ToldOf(v, 3)
    BY <2>1, <2>2 DEF Parts
  <2>5. n = 6 => c = ToldOf(v, 4)
    BY <2>1, <2>2 DEF Parts
  <2>6. ToldOf(v, 1) = 66 /\ ToldOf(v, 3) = v[2] /\ ToldOf(v, 4) = v[3]
    BY DEF ToldOf
  <2>7. QED
    BY <2>3, <2>4, <2>5, <2>6
<1>6. n = 3 => Dev_Acks(Dev_Clock(p, c))
  BY <1>3
<1> HIDE DEF c
<1>7. SlotAt(q, v, n + 1) /\ IdNow(q) = IdNow(p)
  <2>1. SlotAt(Dev_Clock(p, c), v, n + 1) /\ IdNow(Dev_Clock(p, c)) = IdNow(p)
    BY <1>5, <1>6, SlotGoes DEF Motorised
  <2>2. QED
    BY <1>3, <2>1
<1>8. n \in {3, 4} => Dev_Sends(p) = AnswerOf(p, n - 2)
  BY SlotSends DEF AnswerOf
<1>9. RowHas(p, g, n + 1)
  <2> SUFFICES ASSUME NEW j \in 1..2, n + 1 >= j + 3 PROVE g[j] = AnswerOf(p, j)
    BY DEF RowHas
  <2>1. CASE j = n - 2
    BY <1>4, <1>8, <2>1
  <2>2. CASE j # n - 2
    <3>1. n >= j + 3
      BY <2>2
    <3>2. f[j] = AnswerOf(p, j)
      BY <3>1 DEF HeardFrom
    <3>3. QED
      BY <1>4, <2>2, <3>2
  <2>3. QED
    BY <2>1, <2>2
<1>10. TurnOf(p, Tap_Sends(x), n, i)
  <2> SUFFICES ASSUME NEW j \in 1..2, n = PlaceOf(i, j) PROVE Tap_Sends(x) = AnswerOf(p, j)
    BY DEF TurnOf
  <2>1. i = 0 /\ Tap_Sends(x) = Dev_Sends(x.pads[0])
    BY <1>1, <1>2, FullHears
  <2>2. n = j + 2
    BY <2>1 DEF PlaceOf
  <2>3. QED
    BY <1>8, <2>1, <2>2
<1> HIDE DEF p, q, f, g
<1>11. HeardFrom(q, g, k, n + 1, i)
  <2>1. HeardFrom(p, f, h, n, i) /\ n \in Nat
    BY DEF p, f
  <2>2. IdNow(q) = IdNow(p) /\ OneMore(h, n, Tap_Sends(x), k)
    BY <1>7
  <2>3. QED
    <3>1. i \in Sub /\ RowHas(p, g, n + 1) /\ TurnOf(p, Tap_Sends(x), n, i)
      BY <1>9, <1>10
    <3>2. n \in Nat
      BY <2>1
    <3> HIDE <1>7
    <3>3. QED
      BY ONLY <2>1, <2>2, <3>1, <3>2, SlotHeard, Zenon
<1>12. QED
  BY <1>7, <1>11 DEF SlotNext, q, g

-----------------------------------------------------------------------------
(* One byte of a full transfer.  What is known of the machine before it: its pads
   that are plugged in are selected, and new to a transfer at its first byte.    *)
Ready(u, x, n) ==
    /\ IsMachine(x) /\ Wired(u, x) /\ MotorsIn(x)
    /\ x.tap.dtr /\ x.tap.full /\ IsRows(x.tap.fm) /\ (x.tap.count = 0 <=> n = 0)
    /\ Plugged(u) # {}
    /\ \A i \in Plugged(u) : x.pads[i].dtr /\ (n = 0 => FreshPad(x.pads[i]))

\* The byte, after which the transfer is still a full one.
InByte(x, y, b, n) ==
    /\ TapByte(x, y, b) /\ PadsGo(x, y, b) /\ y.tap.full = TRUE
    /\ n = 0 => Mangled(b) = 1

LEMMA ReadyPad ==
  ASSUME NEW u, NEW x, NEW n, Ready(u, x, n), NEW i \in Plugged(u)
  PROVE  i \in Sub /\ PadIsWell(x.pads[i]) /\ x.pads[i].dtr /\ Motorised(x.pads[i])
BY DEF Ready, Plugged, Wired, MotorsIn

\* The pads that are plugged in, and they alone, answer the address.
LEMMA AnswerFirst ==
  ASSUME NEW u, NEW x, Ready(u, x, 0), NEW y, NEW b, InByte(x, y, b, 0)
  PROVE  /\ y.tap.answering = Plugged(u)
         /\ \A i \in Plugged(u) : \A v : SlotAt(y.pads[i], v, 1)
<1>1. x.tap.count = 0 /\ Mangled(b) = 1 /\ y.tap.full
  BY DEF Ready, InByte
<1>2. \A i \in Sub : y.pads[i] = Dev_Clock(x.pads[i], 1)
  BY <1>1 DEF InByte, PadsGo
<1>3. ASSUME NEW i \in Plugged(u), NEW v PROVE SlotAt(y.pads[i], v, 1) /\ Dev_Acks(y.pads[i])
  <2>1. i \in Sub /\ PadIsWell(x.pads[i]) /\ x.pads[i].dtr
    BY ReadyPad
  <2>2. FreshPad(x.pads[i])
    BY DEF Ready
  <2>3. SlotAt(Dev_Clock(x.pads[i], 1), v, 1) /\ Dev_Acks(Dev_Clock(x.pads[i], 1))
    BY <2>1, <2>2, SlotBegins
  <2>4. QED
    BY <1>2, <2>1, <2>3
<1>4. ASSUME NEW i \in Sub, i \notin Plugged(u) PROVE ~Dev_Acks(y.pads[i])
  <2>1. PadIsWell(x.pads[i]) /\ x.pads[i].kind = "none"
    BY <1>4 DEF Ready, Wired, Plugged
  <2>2. ~x.pads[i].dtr
    BY <2>1 DEF PadIsWell
  <2>3. PadGoesOn(x.pads[i], y.pads[i])
    BY DEF InByte, PadsGo
  <2>4. Goes(x.pads[i], y.pads[i])
    BY <2>1, <2>3, PadOn
  <2>5. QED
    BY <2>2, <2>4 DEF Goes, Dev_Acks
<1>5. y.tap.answering = {i \in Sub : Dev_Acks(y.pads[i])}
  BY <1>1 DEF InByte, TapByte, GoesFull
<1>6. Plugged(u) \subseteq Sub
  BY DEF Plugged
<1>7. y.tap.answering = Plugged(u)
  BY <1>3, <1>4, <1>5, <1>6
<1>8. QED
  BY <1>3, <1>7

\* The transfer goes on or is given up.
TapGaveUp(t, n) == ~Going(t, n) /\ ~t.again /\ t.count \in {2, 3, 255}

LEMMA TapGoesOn ==
  ASSUME NEW u, NEW x, NEW n \in Nat, Ready(u, x, n), NEW y, NEW b, InByte(x, y, b, n),
         Going(x.tap, n), InStep(x.tap, n), x.tap.again <=> n >= FullLen - 1,
         n >= 1 => x.tap.answering = Plugged(u)
  PROVE  TapGaveUp(y.tap, n + 1) \/ (Going(y.tap, n + 1) /\ ~Stops(x.tap, y.pads))
<1> DEFINE t == x.tap
           o == y.tap
<1>1. /\ GoesFull(t, y.pads, o, b) /\ Collects(t, o, b) /\ o.full = TRUE
      /\ t.count \in Nat /\ t.error \in BOOLEAN /\ t.again \in BOOLEAN /\ TapIsWell(t)
  BY TapFields DEF InByte, TapByte, Ready, IsMachine
<1>2. FullLen \in 11..35
  BY FullLengths
<1>3. n < 10 => t.again = FALSE /\ (t.count # FullLen - 2 => o.again = FALSE)
  <2> SUFFICES ASSUME n < 10 PROVE t.again = FALSE /\ (t.count # FullLen - 2 => o.again = FALSE)
    OBVIOUS
  <2>1. ~(n >= FullLen - 1)
    BY <1>2
  <2>2. t.again = FALSE
    BY <1>1, <2>1
  <2> DEFINE last == o.full /\ t.count = FullLen - 2
  <2>3. o.again = (t.again \/ last)
    BY <1>1 DEF Collects
  <2>4. t.count # FullLen - 2 => last = FALSE
    OBVIOUS
  <2> HIDE DEF last
  <2>5. QED
    BY <2>2, <2>3, <2>4
<1> HIDE DEF t, o
<1>4. CASE n = 0
  <2>1. ~Stops(t, y.pads)
    BY <1>2, <1>4 DEF Stops, InStep, t
  <2>2. QED
    BY <1>4, <2>1 DEF Going, t, o
<1>5. CASE n = 1
  <2>1. t.count = 1
    BY <1>2, <1>5 DEF InStep, t
  <2>2. ~Stops(t, y.pads)
    BY <2>1 DEF Stops
  <2>3. (o.error = (b # 66)) /\ o.count = 2
    BY <1>1, <2>1, <2>2 DEF GoesFull
  <2>4. CASE b = 66
    BY <2>2, <2>3, <2>4 DEF Going, t, o
  <2>5. CASE b # 66
    <3>1. o.again = FALSE
      BY <1>2, <1>3, <1>5, <2>1
    <3>4. o.error = TRUE
      <4>1. (b # 66) = TRUE
        BY <2>5
      <4>2. QED
        BY <2>3, <4>1, Zenon
    <3>2. ~Going(o, n + 1)
      BY <1>5, <3>4 DEF Going
    <3>3. QED
      BY <2>3, <3>1, <3>2 DEF TapGaveUp, o
  <2>6. QED
    BY <2>4, <2>5
<1>6. CASE n >= 2
  <2>1. ~t.error
    BY <1>6 DEF Going, t
  <2>2. t.count # 1 /\ (t.count = 2 => n = 2) /\ (t.count = 3 => n = 3)
    BY <1>2, <1>6 DEF InStep, t
  <2>3. t.answering # {}
    BY <1>6 DEF Ready, t
  <2>4. CASE ~Stops(t, y.pads)
    <3>1. ~o.error
      BY <1>1, <2>1, <2>2, <2>4 DEF GoesFull
    <3>2. QED
      BY <2>4, <3>1 DEF Going, t, o
  <2>5. CASE Stops(t, y.pads)
    <3>1. t.count = 3 /\ n = 3
      BY <2>2, <2>3, <2>5 DEF Stops
    <3>2. o.count = 255 /\ o.error = TRUE
      BY <1>1, <2>5, <3>1 DEF GoesFull
    <3>3. o.again = FALSE
      BY <1>2, <1>3, <3>1
    <3>4. ~Going(o, n + 1)
      BY <3>1, <3>2 DEF Going
    <3>5. QED
      BY <3>2, <3>3, <3>4 DEF TapGaveUp, o
  <2>6. QED
    BY <2>4, <2>5
<1>7. QED
  BY <1>4, <1>5, <1>6

\* A pad that is plugged in gets its byte.
LEMMA PadGoesOnIn ==
  ASSUME NEW u, NEW x, NEW n \in Nat, Ready(u, x, n), NEW y, NEW b, InByte(x, y, b, n),
         NEW s, NEW z, Grows(s, n, b, z), NEW h, NEW k, OneMore(h, n, Tap_Sends(x), k), NEW w,
         InFull(u, x, s, h, w, n), Going(x.tap, n), ~Stops(x.tap, y.pads)
  PROVE  InSlots(u, y, k, w, n + 1)
<1>1. /\ InStep(x.tap, n) /\ Bytes(x.tap, s, w, n) /\ InSlots(u, x, h, w, n)
      /\ n >= 1 => x.tap.answering = Plugged(u)
  BY DEF InFull
<1>2. TapByte(x, y, b) /\ IsMachine(x) /\ x.tap.dtr /\ x.tap.full /\ IsRows(x.tap.fm)
  BY DEF InByte, Ready
<1> SUFFICES ASSUME NEW i \in Plugged(u), IsShock(y.pads[i]) => w[i][1] = 66
             PROVE  SlotAt(y.pads[i], w[i], n + 1) /\ HeardFrom(y.pads[i], y.tap.fm[i], k, n + 1, i)
  BY DEF InSlots
<1>3. i \in Sub /\ PadIsWell(x.pads[i]) /\ x.pads[i].dtr /\ Motorised(x.pads[i])
  BY ReadyPad
<1>4. IsShock(x.pads[i]) <=> IsShock(y.pads[i])
  <2>1. PadGoesOn(x.pads[i], y.pads[i])
    BY <1>3 DEF InByte, PadsGo
  <2>2. QED
    BY <1>3, <2>1, PadOn DEF Goes, IsShock
<1>5. SlotAt(x.pads[i], w[i], n) /\ HeardFrom(x.pads[i], x.tap.fm[i], h, n, i)
  BY <1>1, <1>4 DEF InSlots
<1>6. CASE n = 0
  <2>1. SlotAt(y.pads[i], w[i], n + 1)
    BY <1>6, AnswerFirst
  <2>2. \A j \in 1..2 : ~(n + 1 >= j + 3) /\ ~(n + 1 > PlaceOf(i, j))
    <3>1. \A j \in 1..2 : PlaceOf(i, j) \in 3..(FullLen - 1)
      BY <1>3, FullLengths
    <3>2. QED
      BY <1>6, <3>1, FullLengths
  <2>3. QED
    BY <2>1, <2>2, Zenon DEF HeardFrom
<1>7. CASE n \in {1, 2} \/ n >= 11
  <2> DEFINE v == w[i]
  <2>1. SlotAt(x.pads[i], v, n)
    BY <1>5
  <2> HIDE DEF v
  <2>2. SlotNext(x, y, v, h, k, n, i)
    BY <1>1, <1>2, <1>3, <1>5, <1>7, <2>1, SlotNextWaits
  <2>3. QED
    BY <2>2 DEF SlotNext, v
<1>8. CASE n \in 3..10
  <2> DEFINE v == w[i]
  <2>1. SlotAt(x.pads[i], v, n) /\ (IsShock(x.pads[i]) => v[1] = 66)
    BY <1>4, <1>5
  <2>2. ~x.tap.error
    BY <1>8 DEF Going
  <2>3. n = 3 => Dev_Acks(y.pads[i])
    <3> SUFFICES ASSUME n = 3 PROVE Dev_Acks(y.pads[i])
      OBVIOUS
    <3>1. x.tap.count = 3
      BY <1>1, FullLengths DEF InStep
    <3>2. ~Silent(x.tap, y.pads)
      BY <3>1 DEF Stops
    <3>3. i \in x.tap.answering
      BY <1>1
    <3>4. QED
      BY <3>2, <3>3 DEF Silent
  <2>4. w[i] = v
    OBVIOUS
  <2> HIDE DEF v
  <2>5. SlotNext(x, y, v, h, k, n, i)
    BY <1>1, <1>2, <1>3, <1>5, <1>8, <2>1, <2>2, <2>3, <2>4, SlotNextGoes
  <2>6. QED
    BY <2>4, <2>5 DEF SlotNext
<1>9. QED
  BY <1>6, <1>7, <1>8

LEMMA InFullNext ==
  ASSUME NEW u, NEW x, NEW n \in Nat, Ready(u, x, n), NEW y, NEW b, InByte(x, y, b, n),
         NEW s, NEW z, Grows(s, n, b, z), NEW h, NEW k, OneMore(h, n, Tap_Sends(x), k), NEW w,
         InFull(u, x, s, h, w, n)
  PROVE  InFull(u, y, z, k, w, n + 1)
<1>1. /\ GoesFull(x.tap, y.pads, y.tap, b) /\ Collects(x.tap, y.tap, b) /\ y.tap.full = TRUE
      /\ x.tap.count \in Nat /\ x.tap.error \in BOOLEAN /\ x.tap.again \in BOOLEAN /\ TapIsWell(x.tap)
  BY TapFields DEF InByte, TapByte, Ready, IsMachine
<1>2. CASE ~Going(x.tap, n)
  <2>1. ~x.tap.again /\ x.tap.count \in {2, 3, 255}
    BY <1>2 DEF InFull
  <2>2. ~Going(y.tap, n + 1) /\ ~y.tap.again /\ y.tap.count \in {2, 3, 255}
    BY <1>1, <1>2, <2>1, GivenUpNext
  <2>3. QED
    BY <2>2 DEF InFull
<1>3. CASE Going(x.tap, n)
  <2>1. /\ InStep(x.tap, n) /\ Bytes(x.tap, s, w, n)
        /\ x.tap.again <=> n >= FullLen - 1
        /\ n >= 1 => x.tap.answering = Plugged(u)
    BY <1>3 DEF InFull
  <2>2. TapGaveUp(y.tap, n + 1) \/ (Going(y.tap, n + 1) /\ ~Stops(x.tap, y.pads))
    BY <1>3, <2>1, TapGoesOn
  <2>3. CASE TapGaveUp(y.tap, n + 1)
    BY <2>3 DEF TapGaveUp, InFull
  <2>4. CASE Going(y.tap, n + 1) /\ ~Stops(x.tap, y.pads)
    <3>1. InStep(y.tap, n + 1)
      BY <1>1, <2>1, <2>4, StepNext
    <3>2. y.tap.again <=> n + 1 >= FullLen - 1
      BY <1>1, <2>1, AgainNext
    <3>3. y.tap.answering = Plugged(u)
      <4>1. CASE n = 0
        BY <4>1, AnswerFirst
      <4>2. CASE n # 0
        <5>1. x.tap.count # 0
          BY <4>2 DEF Ready
        <5>2. QED
          BY <1>1, <2>1, <4>2, <5>1 DEF GoesFull
      <4>3. QED
        BY <4>1, <4>2
    <3>4. Bytes(y.tap, z, w, n + 1)
      BY <1>1, <2>1, BytesNext
    <3>5. InSlots(u, y, k, w, n + 1)
      BY <1>3, <2>4, PadGoesOnIn
    <3>6. QED
      BY <2>4, <3>1, <3>2, <3>3, <3>4, <3>5 DEF InFull
  <2>5. QED
    BY <2>2, <2>3, <2>4
<1>4. QED
  BY <1>2, <1>3

-----------------------------------------------------------------------------
(* The steps of the port.                                                     *)
LEMMA NowSlots ==
  ASSUME PortSlots, setup' = setup, saved' = saved,
         Slots(setup, m', said', heard', odd', told', Len(said'))
  PROVE  PortSlots'
BY DEF PortSlots

\* A poll that stops the motors is what a tap sends that has gathered nothing.
LEMMA StillIsPolled ==
  ASSUME NEW t, ~t.again
  PROVE  Between(t, Still)
<1>1. ASSUME NEW i \in Sub, NEW j \in Parts PROVE ToldOf(Still[i], j) = PollRows[i][j]
  <2>1. Still[i] = <<66, 0, 0>> /\ PollRows[i] = [c \in 1..8 |-> IF c = 1 THEN 66 ELSE 0]
    BY DEF Still, PollRows
  <2>2. QED
    BY <2>1 DEF ToldOf, Parts
<1>2. QED
  BY <1>1 DEF Between

\* A tap that is not in a full transfer.
LEMMA NotFullSlots ==
  ASSUME NEW u, NEW x, ~x.tap.full, NEW w, Between(x.tap, w), NEW s, NEW h, NEW o, NEW n
  PROVE  Slots(u, x, s, h, o, w, n)
BY DEF Slots

\* In a port that is selected every pad that is plugged in is.
LEMMA PluggedOn ==
  ASSUME NEW u, NEW x, Wired(u, x), Even(u, x), Chosen(x), NEW i \in Plugged(u)
  PROVE  i \in Sub /\ PadIsWell(x.pads[i]) /\ x.pads[i].dtr
<1>1. i \in Sub /\ u.pads[i] # "none"
  BY DEF Plugged
<1>2. IsOn(x.pads[i])
  BY <1>1, Zenon DEF Even
<1>3. QED
  BY <1>1, <1>2 DEF IsOn, Wired

\* The same pads and the same tap.
LEMMA AlikeSlots ==
  ASSUME NEW u, NEW x, NEW y, y.tap = x.tap, NEW s, NEW h, NEW o, NEW w, NEW n, Slots(u, x, s, h, o, w, n),
         NEW c, ~c => ~o, ~c => y.pads = x.pads /\ \A i \in Sub : y.cards[i].dtr = x.cards[i].dtr
  PROVE  Slots(u, y, s, h, c, w, n)
<1> SUFFICES ASSUME u.tap, Plugged(u) # {}
             PROVE  /\ Between(y.tap, w)
                    /\ ~c /\ ~Chosen(y) => ~y.tap.full
                    /\ ~c /\ y.tap.full /\ Chosen(y) => InFull(u, y, s, h, w, n)
  BY Zenon DEF Slots
<1>1. Between(y.tap, w)
  BY DEF Slots
<1>2. ASSUME ~c PROVE Chosen(y) = Chosen(x) /\ (InFull(u, x, s, h, w, n) => InFull(u, y, s, h, w, n))
  <2>1. y.pads = x.pads /\ \A i \in Sub : y.cards[i].dtr = x.cards[i].dtr
    BY <1>2
  <2>2. Chosen(y) = Chosen(x)
    BY <2>1, Zenon DEF Chosen
  <2>3. InSlots(u, x, h, w, n) => InSlots(u, y, h, w, n)
    BY <2>1, Zenon DEF InSlots
  <2>4. InFull(u, x, s, h, w, n) => InFull(u, y, s, h, w, n)
    BY <2>3 DEF InFull
  <2>5. QED
    BY <2>2, <2>4
<1>3. QED
  BY <1>1, <1>2 DEF Slots

\* What the serial line does not tell leaves a transfer alone.
LEMMA SameSlots ==
  ASSUME NEW u, NEW x, Wired(u, x), NEW y, SameOnWire(x, y),
         \A i \in Sub : Stays(x.pads[i], y.pads[i]) /\ KeepsMotors(x.pads[i], y.pads[i]),
         NEW s, NEW h, NEW o, ~o => Even(u, x), NEW w, NEW n, Slots(u, x, s, h, o, w, n)
  PROVE  Slots(u, y, s, h, o, w, n)
<1> SUFFICES ASSUME u.tap, Plugged(u) # {}
             PROVE  /\ Between(y.tap, w)
                    /\ ~o /\ ~Chosen(y) => ~y.tap.full
                    /\ ~o /\ y.tap.full /\ Chosen(y) => InFull(u, y, s, h, w, n)
  BY Zenon DEF Slots
<1>1. y.tap = x.tap
  BY DEF SameOnWire
<1>2. Between(y.tap, w)
  BY <1>1 DEF Slots
<1>3. Chosen(y) = Chosen(x)
  <2>1. \A i \in Sub : y.pads[i].dtr = x.pads[i].dtr /\ y.cards[i].dtr = x.cards[i].dtr
    BY DEF SameOnWire, Keeps, Goes, Alike
  <2>2. QED
    BY <2>1, Zenon DEF Chosen
<1>4. ASSUME ~o, Chosen(x), InSlots(u, x, h, w, n) PROVE InSlots(u, y, h, w, n)
  <2> SUFFICES ASSUME NEW i \in Plugged(u), IsShock(y.pads[i]) => w[i][1] = 66
               PROVE  SlotAt(y.pads[i], w[i], n) /\ HeardFrom(y.pads[i], y.tap.fm[i], h, n, i)
    BY DEF InSlots
  <2>1. i \in Sub /\ PadIsWell(x.pads[i]) /\ x.pads[i].dtr
    BY <1>4, PluggedOn
  <2>2. Stays(x.pads[i], y.pads[i]) /\ (IsShock(x.pads[i]) => SameMotors(x.pads[i], y.pads[i]))
    BY <2>1 DEF KeepsMotors
  <2>3. IsShock(y.pads[i]) <=> IsShock(x.pads[i])
    BY <2>2 DEF Stays, Keeps, Goes, IsShock
  <2>4. SlotAt(x.pads[i], w[i], n) /\ HeardFrom(x.pads[i], x.tap.fm[i], h, n, i)
    BY <1>4, <2>3 DEF InSlots
  <2> DEFINE v == w[i]
  <2>5. SlotAt(y.pads[i], v, n) /\ IdNow(y.pads[i]) = IdNow(x.pads[i])
    <3>1. SlotAt(x.pads[i], v, n)
      BY <2>4
    <3> HIDE DEF v
    <3>2. QED
      BY <2>1, <2>2, <3>1, SlotStays
  <2>6. HeardFrom(y.pads[i], y.tap.fm[i], h, n, i)
    <3>1. \A j : AnswerOf(y.pads[i], j) = AnswerOf(x.pads[i], j)
      BY <2>5 DEF AnswerOf
    <3>2. QED
      BY <1>1, <2>4, <3>1, Zenon DEF HeardFrom
  <2>7. QED
    BY <2>5, <2>6
<1>5. ASSUME ~o, Chosen(x), InFull(u, x, s, h, w, n) PROVE InFull(u, y, s, h, w, n)
  BY <1>1, <1>4, <1>5 DEF InFull
<1>6. QED
  BY <1>1, <1>2, <1>3, <1>5 DEF Slots

\* What a full transfer that ends has told the pads is what the next one sends.
LEMMA ToldBetween ==
  ASSUME TapIsWell(m.tap), TapIsSound(m.tap), m.tap.dtr, setup.tap, Plugged(setup) # {},
         Slots(setup, m, said, heard, odd, told, Len(said)), Len(said) \in Nat,
         NEW t, t.again = m.tap.again, t.sb = m.tap.sb
  PROVE  Between(t, Told)
<1> DEFINE n == Len(said)
           whole == [s \in Sub |-> <<said[8 * s + 4], said[8 * s + 6], said[8 * s + 7]>>]
<1>0. /\ m.tap.full \in BOOLEAN /\ m.tap.again \in BOOLEAN /\ m.tap.error \in BOOLEAN
  BY TapFields
<1>1. CASE ~m.tap.full
  <2>1. Told = Still
    BY <1>1 DEF Told
  <2>2. ~t.again
    BY <1>1 DEF TapIsSound
  <2>3. QED
    BY <2>1, <2>2, StillIsPolled
<1>2. CASE m.tap.full /\ odd
  <2>1. Told = Unknown
    BY <1>2 DEF Told
  <2>2. \A i \in Sub : Unknown[i][1] # 66
    BY DEF Unknown
  <2>3. QED
    BY <2>1, <2>2 DEF Between
<1>3. CASE m.tap.full /\ ~odd
  <2>1. InFull(setup, m, said, heard, told, n)
    BY <1>3 DEF Slots
  <2> DEFINE done == n >= FullLen - 1 /\ ~m.tap.error
  <2>2. Told = IF done THEN whole ELSE Still
    BY <1>3 DEF Told
  <2>3. FullLen \in 11..35
    BY FullLengths
  <2>4. CASE ~done
    <3>1. ~m.tap.again
      <4>1. CASE Going(m.tap, n)
        <5>1. ~(n >= FullLen - 1)
          BY <2>3, <2>4, <4>1 DEF Going
        <5>2. m.tap.again <=> n >= FullLen - 1
          BY <2>1, <4>1 DEF InFull
        <5>3. QED
          BY <5>1, <5>2
      <4>2. CASE ~Going(m.tap, n)
        BY <2>1, <4>2 DEF InFull
      <4>3. QED
        BY <4>1, <4>2
    <3>2. Told = Still
      BY <2>2, <2>4
    <3>3. QED
      BY <3>1, <3>2, StillIsPolled
  <2>5. CASE done
    <3>1. Going(m.tap, n)
      BY <2>5 DEF Going
    <3>2. m.tap.again /\ Bytes(m.tap, said, told, n)
      BY <2>1, <2>5, <3>1 DEF InFull
    <3>3. Told = whole
      BY <2>2, <2>5
    <3>4. ASSUME NEW i \in Sub, NEW j \in Parts PROVE ToldOf(whole[i], j) = t.sb[i][j]
      <4>1. n > PlaceOf(i, j)
        <5>1. PlaceOf(i, j) < FullLen - 1 /\ PlaceOf(i, j) \in Nat
          BY SubPortsAssumption DEF PlaceOf, FullLen, Parts, Sub
        <5>2. QED
          BY <2>3, <2>5, <5>1
      <4>2. t.sb[i][j] = said[PlaceOf(i, j) + 1]
        BY <3>2, <4>1 DEF Bytes
      <4>3. whole[i] = <<said[8 * i + 4], said[8 * i + 6], said[8 * i + 7]>>
        OBVIOUS
      <4>4. /\ j = 1 => PlaceOf(i, j) + 1 = 8 * i + 4
            /\ j = 3 => PlaceOf(i, j) + 1 = 8 * i + 6
            /\ j = 4 => PlaceOf(i, j) + 1 = 8 * i + 7
        BY SubPortsAssumption DEF PlaceOf, Sub
      <4> DEFINE v == whole[i]
      <4>5. v[1] = said[8 * i + 4] /\ v[2] = said[8 * i + 6] /\ v[3] = said[8 * i + 7]
        BY <4>3
      <4> HIDE DEF v, whole
      <4>6. ToldOf(v, j) = t.sb[i][j]
        BY <4>2, <4>4, <4>5 DEF ToldOf, Parts
      <4>7. QED
        BY <4>6 DEF v
    <3> HIDE DEF whole
    <3>5. t.again
      BY <3>2
    <3>6. QED
      BY <3>3, <3>4, <3>5 DEF Between
  <2>6. QED
    BY <2>4, <2>5
<1>4. QED
  BY <1>0, <1>1, <1>2, <1>3

\* A full transfer that begins, by what the last one has told.
LEMMA FreshSlots ==
  ASSUME NEW u, NEW x, NEW t, x.tap.count = 0, x.tap.again = FALSE,
         x.tap.sb = IF t.again THEN t.sb ELSE PollRows, ~t.dtr, NEW w, Between(t, w),
         \A i \in Plugged(u) : FreshPad(x.pads[i])
  PROVE  InFull(u, x, << >>, << >>, w, 0)
<1>1. Going(x.tap, 0) /\ InStep(x.tap, 0) /\ (x.tap.again <=> 0 >= FullLen - 1)
  BY FullLengths DEF Going, InStep
<1>2. \A i \in Sub, j \in 1..8 : PlaceOf(i, j) \in 3..(FullLen - 1)
  BY FullLengths
<1>3. Bytes(x.tap, << >>, w, 0)
  <2> SUFFICES ASSUME NEW i \in Sub, NEW j \in Parts
               PROVE  /\ 0 > PlaceOf(i, j) => x.tap.sb[i][j] = << >>[PlaceOf(i, j) + 1]
                      /\ 0 <= PlaceOf(i, j) /\ w[i][1] = 66 => x.tap.sb[i][j] = ToldOf(w[i], j)
    BY DEF Bytes
  <2>1. ~(0 > PlaceOf(i, j))
    BY <1>2, FullLengths
  <2>2. w[i][1] = 66 => ToldOf(w[i], j) = IF t.again THEN t.sb[i][j] ELSE PollRows[i][j]
    BY DEF Between
  <2>3. QED
    BY <2>1, <2>2
<1>4. InSlots(u, x, << >>, w, 0)
  <2> SUFFICES ASSUME NEW i \in Plugged(u)
               PROVE  SlotAt(x.pads[i], w[i], 0) /\ HeardFrom(x.pads[i], x.tap.fm[i], << >>, 0, i)
    BY DEF InSlots
  <2>1. SlotAt(x.pads[i], w[i], 0)
    BY DEF SlotAt
  <2>2. \A j \in 1..2 : ~(0 >= j + 3) /\ ~(0 > PlaceOf(i, j))
    <3>1. i \in Sub
      BY DEF Plugged
    <3>2. \A j \in 1..2 : PlaceOf(i, j) \in 3..(FullLen - 1)
      BY <1>2, <3>1
    <3>3. QED
      BY <3>2, FullLengths
  <2>3. QED
    BY <2>1, <2>2, Zenon DEF HeardFrom
<1>5. QED
  BY <1>1, <1>3, <1>4 DEF InFull

LEMMA SelectSlots ==
  ASSUME PortInv, PortFollows, PortMotors, PortTaps, PortSlots, NEW dtr \in BOOLEAN, SetDTR(dtr)
  PROVE  PortSlots'
<1>0. /\ IsMachine(m) /\ setup \in Setups /\ Wired(setup, m) /\ setup.tap \in BOOLEAN
      /\ TapIsWell(m.tap) /\ m.tap.dtr \in BOOLEAN /\ TapIsSound(m.tap) /\ MotorsIn(m)
      /\ Slots(setup, m, said, heard, odd, told, Len(said))
  BY PortAssumption, TapFields DEF PortInv, PortFollows, PortMotors, PortTaps, PortSlots, IsMachine
<1>1. m' = Devices_SetDTR(m, dtr) /\ setup' = setup /\ saved' = saved
  BY DEF SetDTR, frontend
<1>2. DevicesSwitch(setup, m, m', dtr)
  BY <1>0, <1>1, DevicesSwitched
<1>3. /\ m'.tap = IF setup.tap THEN Tap_SetDTR(m.tap, dtr) ELSE m.tap
      /\ m'.pads = [s \in Sub |-> Dev_SetDTR(m.pads[s], dtr)]
  BY <1>0, <1>1, SelectMachine
<1>4. Selected <=> Chosen(m)
  BY DEF Selected, Chosen
<1>5. told' = IF setup.tap /\ m.tap.dtr /\ ~dtr THEN Told ELSE told
  BY DEF SetDTR
<1>6. ASSUME setup.tap, Plugged(setup) # {} PROVE Slots(setup, m', said', heard', odd', told', Len(said'))
  <2>1. TapTurns(m.tap, m'.tap, dtr)
    BY <1>0, <1>3, <1>6, TapTurned
  <2>2. Between(m.tap, told)
    BY <1>0, <1>6 DEF Slots
  <2>3. CASE ~dtr
    <3>1. m'.tap.dtr = FALSE /\ m'.tap.full = FALSE /\ m'.tap.again = m.tap.again /\ m'.tap.sb = m.tap.sb
      BY <2>1, <2>3 DEF TapTurns
    <3>2. CASE m.tap.dtr
      <4>1. Len(said) \in Nat
        BY <1>0 DEF PortInv
      <4>2. Between(m'.tap, Told)
        BY <1>0, <1>6, <3>1, <3>2, <4>1, ToldBetween
      <4>3. told' = Told
        BY <1>5, <1>6, <2>3, <3>2
      <4>4. QED
        BY <3>1, <4>2, <4>3, NotFullSlots
    <3>3. CASE ~m.tap.dtr
      <4>1. told' = told
        BY <1>5, <3>3
      <4>2. Between(m'.tap, told)
        BY <2>2, <3>1, <3>3 DEF Between
      <4>3. QED
        BY <3>1, <4>1, <4>2, NotFullSlots
    <3>4. QED
      BY <3>2, <3>3
  <2>4. CASE dtr /\ m.tap.dtr
    <3>1. m'.tap = m.tap /\ told' = told
      BY <1>5, <2>1, <2>4 DEF TapTurns
    <3>2. CASE Selected
      <4>1. said' = said /\ heard' = heard /\ odd' = odd
        BY <2>4, <3>2 DEF SetDTR
      <4>2. CASE odd
        <5>1. Slots(setup, m', said, heard, odd, told, Len(said))
          BY <1>0, <3>1, <4>2, AlikeSlots
        <5>2. QED
          BY <3>1, <4>1, <5>1
      <4>3. CASE ~odd
        <5>1. Even(setup, m) /\ Chosen(m)
          BY <1>4, <3>2, <4>3 DEF PortFollows, Follows
        <5>2. DevicesSwitch(setup, m, m', TRUE)
          BY <1>2, <2>4
        <5>3. SameOnWire(m, m')
          BY <1>0, <3>1, <5>1, <5>2, SelectedAgain
        <5>4. ASSUME NEW i \in Sub
              PROVE  Stays(m.pads[i], m'.pads[i]) /\ KeepsMotors(m.pads[i], m'.pads[i])
          <6>1. m'.pads[i] = Dev_SetDTR(m.pads[i], TRUE) /\ PadIsWell(m.pads[i]) /\ Motorised(m.pads[i])
            BY <1>0, <1>3, <2>4 DEF Wired, MotorsIn
          <6>2. KeepsMotors(m.pads[i], m'.pads[i])
            BY <6>1, SwitchMotors
          <6>3. CASE i \in Plugged(setup)
            <7>1. m.pads[i].dtr
              BY <1>0, <5>1, <6>3, PluggedOn
            <7>2. QED
              BY <6>1, <6>2, <7>1, AgainStays
          <6>4. CASE i \notin Plugged(setup)
            <7>1. Keeps(m.pads[i], m'.pads[i])
              BY <5>3 DEF SameOnWire
            <7>2. ~IsShock(m.pads[i])
              BY <1>0, <6>4 DEF Plugged, Wired, IsShock
            <7>3. QED
              BY <6>2, <7>1, <7>2 DEF Stays
          <6>5. QED
            BY <6>3, <6>4
        <5>5. Slots(setup, m', said, heard, odd, told, Len(said))
          BY <1>0, <5>1, <5>3, <5>4, SameSlots
        <5>6. QED
          BY <3>1, <4>1, <5>5
      <4>4. QED
        BY <4>2, <4>3
    <3>3. CASE ~Selected
      <4>1. odd' = (dtr /\ Deaf)
        BY <2>4, <3>3 DEF SetDTR
      <4>2. odd'
        BY <1>6, <2>4, <4>1 DEF Deaf
      <4>3. Between(m'.tap, told')
        BY <2>2, <3>1
      <4>4. QED
        BY <4>2, <4>3 DEF Slots
    <3>4. QED
      BY <3>2, <3>3
  <2>5. CASE dtr /\ ~m.tap.dtr
    <3>1. /\ m'.tap.dtr = TRUE /\ m'.tap.count = 0 /\ m'.tap.again = FALSE /\ told' = told
          /\ m'.tap.sb = IF m.tap.again THEN m.tap.sb ELSE PollRows
      BY <1>5, <2>1, <2>5 DEF TapTurns
    <3>2. Between(m'.tap, told')
      BY <3>1 DEF Between
    <3>3. CASE Selected
      <4>1. odd' = odd
        BY <2>5, <3>3 DEF SetDTR
      <4>2. odd
        BY <1>4, <1>6, <2>5, <3>3 DEF PortFollows, Follows, TapAt
      <4>3. QED
        BY <3>2, <4>1, <4>2 DEF Slots
    <3>4. CASE ~Selected
      <4>1. said' = << >> /\ heard' = << >> /\ Len(said') = 0
        BY <2>5, <3>4, EmptySequence DEF SetDTR
      <4>2. ASSUME NEW i \in Plugged(setup) PROVE i \in Sub /\ m'.pads[i].dtr /\ FreshPad(m'.pads[i])
        <5>1. i \in Sub /\ setup.pads[i] # "none"
          BY DEF Plugged
        <5>2. Switched(m.pads[i], m'.pads[i], TRUE) /\ m.pads[i].kind = setup.pads[i]
          BY <1>0, <1>2, <2>5, <5>1 DEF DevicesSwitch, Wired
        <5>3. ~m.pads[i].dtr
          BY <1>4, <3>4, <5>1 DEF Chosen
        <5>4. QED
          BY <5>1, <5>2, <5>3 DEF Switched
      <4>3. Chosen(m')
        BY <1>6, <4>2 DEF Chosen
      <4>4. InFull(setup, m', << >>, << >>, told, 0)
        BY <2>2, <2>5, <3>1, <4>2, FreshSlots
      <4>5. QED
        BY <3>1, <3>2, <4>1, <4>3, <4>4 DEF Slots
    <3>5. QED
      BY <3>3, <3>4
  <2>6. QED
    BY <1>0, <2>3, <2>4, <2>5
<1>7. Slots(setup, m', said', heard', odd', told', Len(said'))
  BY <1>0, <1>6 DEF Slots
<1>8. QED
  BY <1>1, <1>7, NowSlots

\* The machine after a byte, in a full transfer that goes on.
LEMMA ByteInFull ==
  ASSUME NEW u, u.tap = TRUE, Plugged(u) # {}, NEW x, IsMachine(x), Wired(u, x), MotorsIn(x), TapIsSound(x.tap),
         Chosen(x), NEW s, NEW h, NEW n, Follows(u, x, s, h, n), NEW b \in Byte, NEW w,
         x.tap.full => InFull(u, x, s, h, w, n), Tap_Clock(x, b).tap.full
  PROVE  InFull(u, Tap_Clock(x, b), Append(s, b), Append(h, Tap_Sends(x)), w, n + 1)
<1> DEFINE y == Tap_Clock(x, b)
           z == Append(s, b)
           k == Append(h, Tap_Sends(x))
<1>1. /\ s \in Seq(Byte) /\ Len(s) = n /\ IsSequence(h, n) /\ n \in Nat
      /\ Even(u, x) /\ TapAt(x.tap, s) /\ Apart(u, x, s)
  BY DEF Follows, IsSequence
<1>2. /\ Grows(s, n, b, z) /\ (s = << >> <=> n = 0) /\ OneMore(h, n, Tap_Sends(x), k)
  BY <1>1, Said, Appended
<1>3. x.tap.dtr /\ (x.tap.count = 0 <=> s = << >>)
  BY <1>1 DEF TapAt
<1>4. /\ x.tap.count \in Nat /\ x.pads = [i \in Sub |-> x.pads[i]]
      /\ IsRows(x.tap.sb) /\ IsRows(x.tap.fm)
  BY TapFields DEF IsMachine, Wired, TapIsSound
<1>5. TapGoes(x.tap, y.tap, b)
  BY <1>3, TapClockDoes
<1>6. PadsGo(x, y, b) /\ TapByte(x, y, b)
  BY <1>3, <1>4, TapClockPads, TapClockByte
<1> HIDE DEF y, z, k
<1>7. y.tap.full
  BY DEF y
<1>8. y.tap.full = TRUE
  <2>1. TapIsWell(y.tap)
    BY <1>5 DEF TapGoes
  <2>2. y.tap.full \in BOOLEAN
    BY <2>1, TapFields
  <2>3. QED
    BY <1>7, <2>2
<1>9. x.tap.full /\ (n = 0 => b < 16)
  <2>1. CASE x.tap.count # 0
    <3>1. y.tap.full = x.tap.full
      BY <1>5, <2>1 DEF TapGoes
    <3>2. QED
      BY <1>2, <1>3, <1>7, <2>1, <3>1
  <2>2. CASE x.tap.count = 0
    <3>1. y.tap.full = (x.tap.full /\ b < 16)
      BY <1>5, <2>2 DEF TapGoes
    <3>2. QED
      BY <1>7, <3>1
  <2>3. QED
    BY <2>1, <2>2
<1>10. n = 0 => Mangled(b) = 1
  BY <1>9, ByteIs DEF Mangled
<1>11. InByte(x, y, b, n)
  BY <1>6, <1>8, <1>10 DEF InByte
<1>12. ASSUME NEW i \in Plugged(u) PROVE x.pads[i].dtr /\ (n = 0 => FreshPad(x.pads[i]))
  <2>1. i \in Sub /\ x.pads[i].dtr
    BY <1>1, PluggedOn
  <2>2. Placed(x.pads[i], x.cards[i], s, TRUE)
    <3>1. (u.tap \/ i = 0) = TRUE
      OBVIOUS
    <3>2. QED
      BY <1>1, <2>1, <3>1, Zenon DEF Apart
  <2>3. QED
    BY <1>2, <2>1, <2>2 DEF Placed
<1>13. Ready(u, x, n)
  BY <1>2, <1>3, <1>4, <1>9, <1>12 DEF Ready
<1>14. InFull(u, x, s, h, w, n)
  BY <1>9
<1>15. InFull(u, y, z, k, w, n + 1)
  BY <1>1, <1>2, <1>11, <1>13, <1>14, InFullNext
<1>16. QED
  BY <1>15 DEF y, z, k

LEMMA ByteSlots ==
  ASSUME PortInv, PortFollows, PortMotors, PortTaps, PortSlots, NEW b \in Byte, Exchange(b)
  PROVE  PortSlots'
<1>0. /\ IsMachine(m) /\ setup \in Setups /\ Wired(setup, m) /\ setup.tap \in BOOLEAN
      /\ TapIsWell(m.tap) /\ m.tap.dtr \in BOOLEAN /\ TapIsSound(m.tap) /\ MotorsIn(m)
      /\ m.pads = [i \in Sub |-> m.pads[i]]
      /\ Slots(setup, m, said, heard, odd, told, Len(said))
  BY PortAssumption, TapFields DEF PortInv, PortFollows, PortMotors, PortTaps, PortSlots, IsMachine, Wired
<1>1. /\ odd' = odd /\ told' = told /\ setup' = setup /\ saved' = saved
      /\ said' = Append(said, b) /\ Chosen(m)
  BY DEF Exchange, frontend, Selected, Chosen
<1>2. ASSUME setup.tap, Plugged(setup) # {} PROVE Slots(setup, m', said', heard', odd', told', Len(said'))
  <2>1. m' = Tap_Clock(m, b) /\ heard' = Append(heard, Tap_Sends(m))
    BY <1>2 DEF Exchange
  <2>2. Between(m.tap, told)
    BY <1>0, <1>2 DEF Slots
  <2>3. CASE ~m.tap.dtr
    <3>1. m' = m
      BY <2>1, <2>3 DEF Tap_Clock
    <3>2. odd
      BY <1>1, <1>2, <2>3 DEF PortFollows, Follows, TapAt
    <3>3. QED
      BY <1>1, <2>2, <3>1, <3>2 DEF Slots
  <2>4. CASE m.tap.dtr
    <3>1. TapGoes(m.tap, m'.tap, b) /\ DevicesGoOn(m, m')
      BY <1>0, <2>1, <2>4, TapClockDoes, TapDevices
    <3>2. Chosen(m') /\ Between(m'.tap, told')
      BY <1>0, <1>1, <2>4, <3>1, ByteWires DEF TapGoes, Between
    <3>3. ASSUME ~odd, m'.tap.full PROVE InFull(setup, m', said', heard', told', Len(said'))
      <4> DEFINE n == Len(said)
      <4>1. Follows(setup, m, said, heard, n)
        BY <3>3 DEF PortFollows
      <4>2. m.tap.full => InFull(setup, m, said, heard, told, n)
        BY <1>0, <1>1, <1>2, <3>3 DEF Slots
      <4>3. Len(said') = n + 1
        <5>1. said \in Seq(Byte)
          BY <4>1 DEF Follows
        <5>2. QED
          BY <1>1, <5>1, Said DEF Grows
      <4>4. setup.tap = TRUE /\ Tap_Clock(m, b).tap.full
        BY <1>0, <1>2, <2>1, <3>3
      <4> HIDE DEF n
      <4>5. InFull(setup, Tap_Clock(m, b), Append(said, b), Append(heard, Tap_Sends(m)), told, n + 1)
        BY <1>0, <1>1, <1>2, <4>1, <4>2, <4>4, ByteInFull
      <4>6. QED
        BY <1>1, <2>1, <4>3, <4>5
    <3>4. QED
      BY <1>1, <3>2, <3>3 DEF Slots
  <2>5. QED
    BY <1>0, <2>3, <2>4
<1>3. Slots(setup, m', said', heard', odd', told', Len(said'))
  BY <1>0, <1>2 DEF Slots
<1>4. QED
  BY <1>1, <1>3, NowSlots

LEMMA OverhearSlots ==
  ASSUME PortInv, PortFollows, PortSlots, NEW b \in Byte, Overhear(b)
  PROVE  PortSlots'
<1>0. /\ IsMachine(m) /\ Wired(setup, m) /\ m.pads = [i \in Sub |-> m.pads[i]]
      /\ m.tap.count \in Nat /\ Slots(setup, m, said, heard, odd, told, Len(said))
  BY TapFields DEF PortInv, PortFollows, PortSlots, IsMachine, Wired
<1>1. /\ m' = Tap_Clock(m, b) /\ m.tap.dtr /\ ~Chosen(m)
      /\ setup' = setup /\ saved' = saved /\ said' = said /\ heard' = heard /\ odd' = odd /\ told' = told
  BY DEF Overhear, Deaf, Selected, Chosen, transfer, frontend
<1>2. TapGoes(m.tap, m'.tap, b) /\ DevicesGoOn(m, m')
  BY <1>0, <1>1, TapClockDoes, TapDevices
<1>3. ~Chosen(m') /\ Between(m'.tap, told')
  BY <1>0, <1>1, <1>2, ByteWires DEF TapGoes, Between
<1>4. ~m.tap.full => ~m'.tap.full
  BY <1>0, <1>2 DEF TapGoes
<1>5. Slots(setup, m', said', heard', odd', told', Len(said'))
  BY <1>0, <1>1, <1>3, <1>4 DEF Slots
<1>6. QED
  BY <1>1, <1>5, NowSlots

-----------------------------------------------------------------------------
(* The steps of the port that the serial line does not tell.                    *)
LEMMA QuietSlots ==
  ASSUME PortInv, PortFollows, PortMotors, PortSlots,
         BeginFrame \/ (\E s \in Sub : SeeBeam(s)) \/ EndFrame(Amounts)
  PROVE  PortSlots'
<1>1. SameOnWire(m, m') /\ \A i \in Sub : Stays(m.pads[i], m'.pads[i]) /\ KeepsMotors(m.pads[i], m'.pads[i])
  BY QuietStays, QuietMotors
<1>2. /\ setup' = setup /\ saved' = saved /\ said' = said /\ heard' = heard /\ odd' = odd /\ told' = told
  BY DEF BeginFrame, SeeBeam, EndFrame, transfer, frontend
<1>3. /\ Slots(setup, m, said, heard, odd, told, Len(said)) /\ Wired(setup, m)
      /\ ~odd => Even(setup, m)
  BY DEF PortSlots, PortFollows, Follows
<1>4. Slots(setup, m', said, heard, odd, told, Len(said))
  BY <1>1, <1>3, SameSlots
<1>5. QED
  BY <1>2, <1>4, NowSlots

\* A mode is set: if the port is selected the transfer is odd.
LEMMA ModeSlots ==
  ASSUME PortInv, PortFollows, PortMotors, PortSlots, NEW enabled \in BOOLEAN, SetAMCT(enabled)
  PROVE  PortSlots'
<1>1. m'.tap = m.tap
  BY TapIsAside
<1>2. setup' = setup /\ saved' = saved /\ said' = said /\ told' = told /\ odd' = (odd \/ Chosen(m))
  BY DEF SetAMCT, frontend, Selected, Chosen
<1>3. Slots(setup, m, said, heard, odd, told, Len(said))
  BY DEF PortSlots
<1>4. ASSUME setup.tap, Plugged(setup) # {} PROVE Between(m'.tap, told') /\ (~odd' => ~m'.tap.full)
  <2>1. ~odd' => ~odd /\ ~Chosen(m)
    BY <1>2
  <2>2. QED
    BY <1>1, <1>2, <1>3, <1>4, <2>1 DEF Slots
<1>5. Slots(setup, m', said', heard', odd', told', Len(said'))
  BY <1>4 DEF Slots
<1>6. QED
  BY <1>2, <1>5, NowSlots

LEMMA SaveSlots ==
  ASSUME PortInv, PortFollows, PortSlots, SaveFails \/ SaveState \/ CloseGame(Amounts)
  PROVE  PortSlots'
<1>1. setup' = setup /\ m' = m /\ said' = said /\ heard' = heard /\ odd' = odd /\ told' = told
  BY DEF SaveFails, SaveState, CloseGame, transfer
<1>2. CASE saved' = saved
  BY <1>1, <1>2, NowSlots DEF PortSlots
<1>3. CASE SaveState
  <2> DEFINE w == [m |-> m, said |-> said, heard |-> heard, acked |-> acked, odd |-> odd, told |-> told]
  <2>1. saved' = {w} /\ w.m = m /\ w.said = said /\ w.heard = heard /\ w.odd = odd /\ w.told = told
    BY <1>3 DEF SaveState
  <2> HIDE DEF w
  <2>2. \A s \in saved' : s = w
    BY <2>1
  <2>3. ASSUME NEW s \in saved'
        PROVE  Slots(setup, s.m, s.said, s.heard, s.odd, s.told, Len(s.said))
    BY <2>1, <2>2, <2>3 DEF PortSlots
  <2>4. QED
    BY <1>1, <2>3 DEF PortSlots
<1>4. QED
  BY <1>2, <1>3 DEF SaveFails, CloseGame

LEMMA LoadSlots ==
  ASSUME PortInv, PortFollows, PortSlots, LoadState
  PROVE  PortSlots'
<1>1. PICK s \in saved :
        /\ m' = [tap   |-> s.m.tap,
                 pads  |-> [i \in Sub |-> Dev_Load(m.pads[i], s.m.pads[i])],
                 cards |-> [i \in Sub |-> Card_Load(m.cards[i], s.m.cards[i])]]
        /\ said' = s.said /\ heard' = s.heard /\ told' = s.told /\ setup' = setup /\ saved' = saved
        /\ odd' = (s.odd \/ m'.cards[0].data # s.m.cards[0].data \/ m'.pads # s.m.pads)
  BY DEF LoadState
<1> DEFINE x == s.m
<1>2. IsMachine(m) /\ IsMachine(x) /\ Slots(setup, x, s.said, s.heard, s.odd, s.told, Len(s.said))
  BY DEF PortInv, PortSlots
<1> HIDE DEF x
<1>3. m'.tap = x.tap /\ m'.cards = [i \in Sub |-> Card_Load(m.cards[i], x.cards[i])]
  BY <1>1 DEF x
<1>4. \A i \in Sub : m'.cards[i].dtr = x.cards[i].dtr
  BY <1>2, <1>3, LoadAlike, CardsAreTyped DEF Alike
<1>5. /\ ~odd' => ~s.odd
      /\ ~odd' => m'.pads = x.pads /\ \A i \in Sub : m'.cards[i].dtr = x.cards[i].dtr
  BY <1>1, <1>4 DEF x
<1>6. Slots(setup, m', s.said, s.heard, odd', s.told, Len(s.said))
  BY <1>2, <1>3, <1>5, AlikeSlots
<1>7. QED
  BY <1>1, <1>6, NowSlots

\* A new tap, or one that is not selected, is not in a full transfer.
LEMMA NewTapSlots ==
  ASSUME NEW u, NEW x, NEW dtr, x.tap = Tap_New(dtr), NEW s, NEW h, NEW o, NEW n
  PROVE  Slots(u, x, s, h, o, Still, n)
<1>1. ~x.tap.full /\ ~x.tap.again
  BY DEF Tap_New
<1>2. Between(x.tap, Still)
  BY <1>1, StillIsPolled
<1>3. QED
  BY <1>1, <1>2, NotFullSlots

LEMMA RestSlots ==
  ASSUME PortInv, PortTaps, PortSlots, Start \/ Reset
  PROVE  PortSlots'
<1>1. CASE Start
  <2>1. PICK dtr \in {FALSE, setup.tap} : m' = NewMachine(file, dtr)
    BY <1>1 DEF Start
  <2>2. IsFile(file) /\ dtr \in BOOLEAN
    BY PortAssumption DEF PortInv
  <2>3. m'.tap = Tap_New(dtr) /\ saved' = {} /\ told' = Still
    BY <1>1, <2>1, <2>2, NewMachineIs DEF Start
  <2>4. Slots(setup', m', said', heard', odd', Still, Len(said'))
    BY <2>3, NewTapSlots
  <2>5. QED
    BY <2>3, <2>4 DEF PortSlots
<1>2. CASE Reset
  <2>1. m'.tap = m.tap /\ saved' = saved /\ setup' = setup /\ told' = told
    BY <1>2, TapIsAside DEF Reset, frontend
  <2>2. ASSUME setup.tap, Plugged(setup) # {} PROVE ~m'.tap.full /\ Between(m'.tap, told')
    <3>1. ~m.tap.full
      BY <1>2, <2>2 DEF Reset, Deaf, PortTaps, TapIsSound
    <3>2. Between(m.tap, told)
      BY <2>2 DEF PortSlots, Slots
    <3>3. QED
      BY <2>1, <3>1, <3>2
  <2>3. Slots(setup, m', said', heard', odd', told', Len(said'))
    BY <2>2 DEF Slots
  <2>4. QED
    BY <2>1, <2>3, NowSlots
<1>3. QED
  BY <1>1, <1>2

LEMMA SlotsInit == Port_Init => PortSlots
<1> SUFFICES ASSUME Port_Init PROVE PortSlots
  OBVIOUS
<1>1. PICK dtr \in {FALSE, setup.tap} : m = NewMachine(file, dtr)
  BY DEF Port_Init
<1>2. IsFile(file) /\ dtr \in BOOLEAN
  BY PortAssumption DEF Port_Init
<1>3. m.tap = Tap_New(dtr) /\ saved = {} /\ told = Still
  BY <1>1, <1>2, NewMachineIs DEF Port_Init
<1>4. Slots(setup, m, said, heard, odd, Still, Len(said))
  BY <1>3, NewTapSlots
<1>5. QED
  BY <1>3, <1>4 DEF PortSlots

LEMMA SlotsStep ==
  PortInv /\ PortFollows /\ PortMotors /\ PortTaps /\ PortSlots /\ [Port_Next]_portVars => PortSlots'
<1> SUFFICES ASSUME PortInv, PortFollows, PortMotors, PortTaps, PortSlots, [Port_Next]_portVars
             PROVE  PortSlots'
  OBVIOUS
<1>1. ASSUME NEW dtr \in BOOLEAN, SetDTR(dtr) PROVE PortSlots'
  BY <1>1, SelectSlots
<1>2. ASSUME NEW b \in Sends(setup, said) \cap Byte, Exchange(b) PROVE PortSlots'
  BY <1>2, ByteSlots
<1>3. ASSUME NEW b \in {1, 66}, Overhear(b) PROVE PortSlots'
  <2>1. b \in Byte
    BY ByteIs
  <2>2. QED
    BY <1>3, <2>1, OverhearSlots
<1>4. CASE BeginFrame \/ (\E s \in Sub : SeeBeam(s)) \/ EndFrame(Amounts)
  BY <1>4, QuietSlots
<1>5. ASSUME NEW enabled \in BOOLEAN, SetAMCT(enabled) PROVE PortSlots'
  BY <1>5, ModeSlots
<1>6. CASE SaveFails \/ SaveState \/ CloseGame(Amounts)
  BY <1>6, SaveSlots
<1>7. CASE LoadState
  BY <1>7, LoadSlots
<1>8. CASE Start \/ Reset
  BY <1>8, RestSlots
<1>9. CASE UNCHANGED portVars
  BY <1>9 DEF portVars, PortSlots
<1>10. QED
  BY <1>1, <1>2, <1>3, <1>4, <1>5, <1>6, <1>7, <1>8, <1>9 DEF Port_Next

LEMMA SlotsInvariance ==
  Port_Spec => [](PortInv /\ PortFollows /\ PortMotors /\ PortTaps /\ PortSlots)
<1>1. Port_Init => PortMotors /\ PortTaps /\ PortSlots
  BY MotorsInit, TapsInit, SlotsInit
<1>2. (PortInv /\ PortFollows) /\ (PortMotors /\ PortTaps /\ PortSlots) /\ [Port_Next]_portVars
        => (PortMotors /\ PortTaps /\ PortSlots)'
  BY MotorsStep, TapsStep, SlotsStep
<1>3. QED
  BY <1>1, <1>2, FollowsInvariance, PTL DEF Port_Spec

(* In a full transfer with a tap each pad answers in its own slot, and the motors of
   each are told what the last transfer had in that slot
   (InputDevice_Multitap::Clock, InputDevice_DualShock::Clock).                 *)
THEOREM SlotsDoHold == Port_Spec => []SlotsAreOwn
<1>1. PortInv /\ PortFollows /\ PortMotors /\ PortTaps /\ PortSlots => SlotsAreOwn
  <2> DEFINE n == Len(heard)
  <2> SUFFICES ASSUME PortInv, PortFollows, PortMotors, PortTaps, PortSlots,
                      setup.tap, m.tap.full, ~m.tap.error, ~odd,
                      NEW s \in Sub, ~IsShock(m.pads[s]) \/ told[s][1] = 66
               PROVE  /\ n >= 5 + 8 * s /\ setup.pads[s] # "none" =>
                           heard[4 + 8 * s] = IdNow(m.pads[s]) /\ heard[5 + 8 * s] = 90
                      /\ n >= 7 /\ IsShock(m.pads[s]) /\ m.pads[s].compat =>
                           m.pads[s].param = <<told[s][2], told[s][3]>>
    BY Zenon DEF SlotsAreOwn
  <2>1. /\ Follows(setup, m, said, heard, Len(said)) /\ Wired(setup, m)
        /\ Slots(setup, m, said, heard, odd, told, Len(said))
    BY DEF PortFollows, PortSlots
  <2>2. Len(said) = n /\ n \in Nat
    BY <2>1 DEF Follows, IsSequence
  <2> HIDE DEF n
  <2>3. ASSUME setup.pads[s] # "none"
        PROVE  SlotAt(m.pads[s], told[s], n) /\ HeardFrom(m.pads[s], m.tap.fm[s], heard, n, s)
    <3>1. s \in Plugged(setup)
      BY <2>3 DEF Plugged
    <3>2. Chosen(m)
      BY <2>1, <3>1 DEF Slots
    <3>3. InFull(setup, m, said, heard, told, n)
      BY <2>1, <2>2, <3>1, <3>2 DEF Slots
    <3>4. InSlots(setup, m, heard, told, n)
      BY <3>3 DEF InFull, Going
    <3>5. IsShock(m.pads[s]) => told[s][1] = 66
      OBVIOUS
    <3>6. QED
      BY <3>1, <3>4, <3>5 DEF InSlots
  <2>4. ASSUME n >= 5 + 8 * s, setup.pads[s] # "none"
        PROVE  heard[4 + 8 * s] = IdNow(m.pads[s]) /\ heard[5 + 8 * s] = 90
    <3>1. \A j \in 1..2 : n > PlaceOf(s, j) => heard[PlaceOf(s, j) + 1] = AnswerOf(m.pads[s], j)
      BY <2>3, <2>4 DEF HeardFrom
    <3>2. /\ n > PlaceOf(s, 1) /\ PlaceOf(s, 1) + 1 = 4 + 8 * s
          /\ n > PlaceOf(s, 2) /\ PlaceOf(s, 2) + 1 = 5 + 8 * s
      BY <2>2, <2>4, SubPortsAssumption DEF PlaceOf, Sub
    <3>3. 1 \in 1..2 /\ 2 \in 1..2
      OBVIOUS
    <3>4. heard[PlaceOf(s, 1) + 1] = AnswerOf(m.pads[s], 1) /\ heard[PlaceOf(s, 2) + 1] = AnswerOf(m.pads[s], 2)
      BY <3>1, <3>2, <3>3
    <3>5. QED
      BY <3>2, <3>4 DEF AnswerOf
  <2>5. ASSUME n >= 7, IsShock(m.pads[s]), m.pads[s].compat
        PROVE  m.pads[s].param = <<told[s][2], told[s][3]>>
    <3> DEFINE p == m.pads[s]
    <3>1. setup.pads[s] # "none"
      BY <2>1, <2>5 DEF Wired, IsShock
    <3>2. MotorsTold(p, told[s], n - 4)
      BY <2>2, <2>3, <2>5, <3>1 DEF SlotAt
    <3>3. p.param[1] = told[s][2] /\ p.param[2] = told[s][3]
      <4>1. n - 4 >= 3
        BY <2>2, <2>5
      <4>2. QED
        BY <2>2, <2>5, <3>2, <4>1 DEF MotorsTold
    <3>4. p.param = [k \in 1..2 |-> p.param[k]]
      BY <2>5 DEF PortMotors, MotorsIn, Motorised, HasMotors
    <3> HIDE DEF p
    <3>5. p.param = <<told[s][2], told[s][3]>>
      BY <3>3, <3>4
    <3>6. QED
      BY <3>5 DEF p
  <2>6. QED
    BY <2>4, <2>5
<1>2. QED
  BY <1>1, SlotsInvariance, PTL
================================================================================

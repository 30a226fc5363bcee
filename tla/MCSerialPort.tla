---------------------------- MODULE MCSerialPort -----------------------------
EXTENDS SerialPort, FiniteSetsExt

CONSTANTS Plugged       \* names of the setups that are tried

\* Exclusive or of bytes, bit by bit.
MCXor(a, b) == LET bit(x, i) == (x \div 2^i) % 2
               IN  FoldSet(LAMBDA i, sum : sum + (IF bit(a, i) # bit(b, i) THEN 2^i ELSE 0),
                           0, 0..7)

Nothing == [s \in Sub |-> "none"]
Alone(kind, cards) ==
    [tap |-> FALSE, pads |-> [Nothing EXCEPT ![0] = kind], cards |-> cards]

MCSetups == [card   |-> {Alone("gamepad", {0})},
             pads   |-> {Alone(k, {}) : k \in {"dualanalog", "analogjoy", "negcon"}},
             mouse  |-> {Alone("mouse", {})},
             guns   |-> {Alone(k, {}) : k \in Guns},
             shock  |-> {Alone("dualshock", {})},
             tap    |-> {[tap |-> TRUE, cards |-> {0},
                          pads |-> [s \in Sub |-> IF s = 1 THEN "dualshock" ELSE "gamepad"]]}]

MCPlugged == UNION {MCSetups[name] : name \in Plugged}

Blank == [f \in 0..(Frames - 1) |-> [i \in 1..FrameLen |-> 0]]
MCStarts == {[f \in {0} |-> [i \in 1..FrameLen |-> 1]]}

\* States are saved with a card and with the pads that have nothing else to show.
MCSaves(what) == ~what.tap /\ what.pads[0] \notin Guns \cup {"dualshock"}

(* What the player does: each setup has what matters to it.                  *)
MCInputs(what) ==
    LET only(kinds) == \E s \in Sub : what.pads[s] \in kinds
    IN  [held : {h \in [Sub -> BOOLEAN] :
                   /\ what.cards # {} => \A s \in Sub : ~h[s]
                   /\ \A s \in Sub : what.pads[s] = "none" => ~h[s]},
         move : IF only(Mice) THEN {0, 5} ELSE {0},
         flag : IF only(Guns \cup {"dualshock"}) /\ ~what.tap THEN BOOLEAN ELSE {FALSE}]

(* What the game says: polls and, to a card, reads and writes of the frame 1 and of
   one there is not, with a right or a wrong checksum.                        *)
ToCard(bytes, tap) ==
    LET n == Len(bytes) + 1
        sum == Checksum(bytes[5], bytes[6], FrameSent(bytes))
    IN  CASE n = 2 -> IF tap THEN {87} ELSE {82, 87}
          [] n = 6 -> IF tap \/ bytes[2] = 82 THEN {Frames - 1} ELSE {Frames - 1, Frames}
          [] n = 7 /\ bytes[2] = 87 -> {0, 1}
          [] n = 7 + FrameLen /\ bytes[2] = 87 -> IF tap THEN {sum} ELSE {sum, 128}
          [] n > 12 + FrameLen -> {}
          [] OTHER -> {0}

ToPad(bytes, kind) ==
    LET n == Len(bytes) + 1
    IN  CASE n = 2 -> {66, 67}
          [] n = 4 /\ kind = "justifier" -> {0, 16}
          [] n > (IF kind = "gamepad" THEN 6 ELSE 10) -> {}
          [] OTHER -> {0}

ToShock(bytes) ==
    LET n == Len(bytes) + 1
    IN  CASE n = 2 -> {66, 67, 68, 77, 16}
          [] n = 3 -> {0, 1}
          [] n = 4 /\ bytes[2] \in {67, 68} -> {0, 1}
          [] n = 5 /\ bytes[2] = 68 -> {2, 3}
          [] n = 6 /\ bytes[2] = 77 -> {1, 255}
          [] n > 10 -> {}
          [] n > 6 /\ bytes[2] = 77 -> {255}
          [] OTHER -> {0}

ToTap(bytes) ==
    LET n == Len(bytes) + 1
    IN  CASE n \in {2, 4} -> {66}
          [] n = 12 -> {66, 67}
          [] n = 3 -> {0, 1}
          [] n = 14 -> {1}
          [] n > FullLen + 1 -> {}
          [] OTHER -> {0}

MCSends(what, bytes) ==
    CASE bytes = << >> -> {1} \cup (IF 0 \in what.cards THEN {129} ELSE {})
                               \cup (IF what.tap THEN {2} ELSE {})
      [] bytes # << >> /\ bytes[1] = 129 -> ToCard(bytes, what.tap)
      [] bytes # << >> /\ bytes[1] # 129 /\ what.tap -> ToTap(bytes)
      [] bytes # << >> /\ bytes[1] # 129 /\ ~what.tap ->
           IF what.pads[0] = "dualshock" THEN ToShock(bytes) ELSE ToPad(bytes, what.pads[0])

-----------------------------------------------------------------------------
(* The states are told apart by what can still have an effect: a device that is
   not selected has forgotten its transfer, and the address, the frame and the
   checksums of a card, the command of a DualShock and what a tap gathers in full
   mode are set before they are used again.  dirty_count is not loaded from a state.                       *)
Kept(c) == <<c.isnew, c.data, c.used>>

LiveCard(c) ==
    CASE ~c.dtr -> <<Kept(c)>>
      [] c.dtr /\ c.phase \in -1..1 -> <<Kept(c), c.phase, c.sending, c.tx>>
      [] c.dtr /\ c.phase \in 2..3 -> <<Kept(c), c.phase, c.sending, c.tx, c.command>>
      [] c.dtr /\ c.phase \in 1000..1999 ->
             <<Kept(c), c.phase, c.sending, c.tx, c.addr, c.xor>>
      [] c.dtr /\ c.phase >= 2000 ->
             <<Kept(c), c.phase, c.sending, c.tx, c.addr, c.xor,
               [i \in 1..FrameLen |-> IF c.phase > 2047 + i THEN c.rw[i] ELSE 0],
               IF c.phase > 2048 + FrameLen THEN c.wxor ELSE 0>>

LivePad(p) ==
    IF p.kind = "dualshock"
    THEN IF p.dtr THEN [p EXCEPT !.command = IF p.phase \in -1..1 THEN 0 ELSE @]
         ELSE [p EXCEPT !.tx = << >>, !.phase = 0, !.command = 0, !.sent = 0]
    ELSE IF p.dtr THEN p ELSE [p EXCEPT !.tx = << >>, !.phase = 0]

LiveTap(p) ==
    CASE ~p.dtr -> <<p.setting, p.again, IF p.again THEN p.sb ELSE << >> >>
      [] p.dtr /\ ~p.full -> <<[p EXCEPT !.fm = << >>, !.sb = << >>, !.answering = {}]>>
      [] p.dtr /\ p.full -> <<p>>

Live(x) == <<LiveTap(x.tap), [s \in Sub |-> LivePad(x.pads[s])], [s \in Sub |-> LiveCard(x.cards[s])]>>

LiveView == <<setup, Live(m), Card0.dirty, {<<Live(s.m), s.said, s.heard, s.acked, s.odd, s.told>> : s \in saved},
              pc, file, prevDC, delay, transfer>>
=============================================================================

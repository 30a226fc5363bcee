------------------------------ MODULE Multitap ------------------------------
(* The multitap, input/multitap.cpp, one byte at a time, with the pads and cards
   in its sub-ports.  In manual mode the low digit of the address selects a
   sub-port and the high one its pad or card.  In full mode, which the third byte
   of a transfer asks for, one transfer polls all pads at once: it receives the
   bytes to send to them in the next one (sb) and sends what they answered.

   The tap passes bits through, but every device is clocked in whole bytes.    *)
EXTENDS Memcard, Pads, DualShock

CONSTANT SubPorts       \* sub-ports of a tap (4)

ASSUME SubPortsAssumption == SubPorts \in 1..4

Sub == 0..(SubPorts - 1)

\* Bytes of a full transfer: three of the tap and eight of every sub-port.
FullLen == 3 + 8 * SubPorts

Tap == [dtr : BOOLEAN, selected : -1..255, count : 0..255, full : BOOLEAN,
        setting : BOOLEAN, cardMode : BOOLEAN, again : BOOLEAN, error : BOOLEAN,
        answering : SUBSET Sub, sb : [Sub -> [1..8 -> 0..255]],
        fm : [Sub -> [1..8 -> 0..255]]]

Rows(byte) == [s \in Sub |-> [i \in 1..8 |-> byte]]

\* The bytes of a poll, for the first transfer in full mode.
PollRows == [s \in Sub |-> [i \in 1..8 |-> IF i = 1 THEN 66 ELSE 0]]

\* dtr is not set by Power, nor by the constructor.
Tap_New(dtr) ==
    [dtr |-> dtr, selected |-> -1, count |-> 0, full |-> FALSE, setting |-> FALSE,
     cardMode |-> FALSE, again |-> FALSE, error |-> FALSE, answering |-> {},
     sb |-> Rows(0), fm |-> Rows(0)]

-----------------------------------------------------------------------------
(* A pad is one of Pads or a DualShock.                                      *)
IsShock(p) == p.kind = "dualshock"

Dev_SetDTR(p, dtr) == IF IsShock(p) THEN Shock_SetDTR(p, dtr) ELSE Pad_SetDTR(p, dtr)
Dev_Clock(p, b)    == IF IsShock(p) THEN Shock_Clock(p, b) ELSE Pad_Clock(p, b)
Dev_Sends(p)       == IF p.dtr /\ p.tx # << >> THEN p.tx[1] ELSE 255
Dev_Acks(p)        == p.dtr /\ p.tx # << >>
Dev_Power(p)       == IF IsShock(p) THEN Shock_Power(p) ELSE Pad_Power(p)
Dev_Load(p, s)     == IF IsShock(p) THEN Shock_Load(p, s) ELSE Pad_Load(p, s)
Dev_Frame(p)       == IF IsShock(p) THEN Shock_Frame(p) ELSE Pad_Frame(p)

\* A mutant: what a full transfer gathered is sent again and again.
Tap_SetDTR_Again(t, dtr) ==
    CASE ~dtr -> [t EXCEPT !.dtr = FALSE, !.selected = -1, !.cardMode = FALSE, !.full = FALSE]
      [] dtr /\ ~t.dtr -> [t EXCEPT !.dtr = TRUE, !.full = t.setting, !.count = 0,
                                    !.sb = IF t.again THEN @ ELSE PollRows]
      [] dtr /\ t.dtr -> t

(* SetDTR of the tap; its devices get it too.                                *)
Tap_SetDTR(t, dtr) ==
    CASE ~dtr -> [t EXCEPT !.dtr = FALSE, !.selected = -1, !.cardMode = FALSE, !.full = FALSE]
      [] dtr /\ ~t.dtr -> [t EXCEPT !.dtr = TRUE, !.full = t.setting, !.count = 0,
                                    !.sb = IF t.again THEN @ ELSE PollRows, !.again = FALSE]
      [] dtr /\ t.dtr -> t

-----------------------------------------------------------------------------
(* One byte.  A machine is [tap, pads, cards]; the address goes to all devices
   with a low digit of one.                                                  *)
Addressed(m, b) ==
    LET mangled == (b \div 16) * 16 + 1
    IN  [m EXCEPT !.pads  = [s \in Sub |-> Dev_Clock(m.pads[s], mangled)],
                  !.cards = [s \in Sub |-> Card_Clock(m.cards[s], mangled)]]

\* In full mode the first eight bytes of the data are exchanged with all pads.
InFullData(t) == t.full /\ t.count \in 3..(FullLen - 1)
Exchanging(t) == t.full /\ t.count \in 3..10 /\ ~t.error

FullClocked(m) ==
    IF ~Exchanging(m.tap) THEN m
    ELSE LET i == m.tap.count - 2
         IN  [m EXCEPT
                !.tap.fm = [s \in Sub |->
                              [@[s] EXCEPT ![i] = Dev_Sends(m.pads[s])]],
                !.pads = [s \in Sub |-> Dev_Clock(m.pads[s], m.tap.sb[s][i])]]

ManualClocked(m, b) ==
    IF m.tap.selected \notin Sub THEN m
    ELSE [m EXCEPT !.pads[m.tap.selected]  = Dev_Clock(@, b),
                   !.cards[m.tap.selected] = Card_Clock(@, b)]

Clocked(m, b) == CASE m.tap.count = 0 -> Addressed(m, b)
                   [] m.tap.count > 0 /\ m.tap.full -> FullClocked(m)
                   [] m.tap.count > 0 /\ ~m.tap.full -> ManualClocked(m, b)

(* What the eighth bit changes in the tap itself, in the order of the code: the
   mode and the selection by the address, the command, the setting of full mode,
   the bytes for the next full transfer.                                     *)
ModeOf(t, b) ==
    IF t.count # 0 THEN t
    ELSE LET card == b >= 16
             full == t.full /\ ~card
         IN  [t EXCEPT !.cardMode = card, !.full = full,
                       !.fm = IF full THEN Rows(255) ELSE @,
                       !.selected = IF full THEN 0 ELSE ((b % 16) - 1) % 256]

CommandOf(t, b) ==
    IF t.count # 1 THEN t ELSE [t EXCEPT !.error = t.full /\ b # 66]

SettingOf(t, b) ==
    IF t.count = 2 /\ (~t.cardMode \/ t.full) THEN [t EXCEPT !.setting = b % 2 = 1] ELSE t

Stored(t, b) ==
    IF ~InFullData(t) THEN t
    ELSE [t EXCEPT !.sb[(t.count - 3) \div 8][((t.count - 3) % 8) + 1] = b,
                   !.again = @ \/ t.count = FullLen - 2]

(* The acknowledge.  In full mode the tap gives up if no pad answered its
   address, or one that did does not answer the command.                     *)
Silent(t, pads) == \E s \in t.answering : ~Dev_Acks(pads[s])

FullAck(t, pads) ==
    CASE t.count = 0 -> <<[t EXCEPT !.answering = {s \in Sub : Dev_Acks(pads[s])}], TRUE>>
      [] t.count = 1 -> <<t, TRUE>>
      [] t.count = 2 -> IF t.answering # {} THEN <<t, TRUE>>
                        ELSE <<[t EXCEPT !.count = 255], FALSE>>
      [] t.count = 3 -> IF t.error \/ Silent(t, pads)
                        THEN <<[t EXCEPT !.error = TRUE, !.count = 255], FALSE>>
                        ELSE <<t, TRUE>>
      [] t.count > 3 -> <<t, t.count < FullLen - 1>>

ManualAck(t, m) ==
    <<t, t.selected \in Sub /\ \/ Dev_Acks(m.pads[t.selected])
                               \/ Card_Acks(m.cards[t.selected])>>

\* The tap after the byte, and whether it acknowledges it; m is after Clocked.
Settled(m, b) ==
    LET t == Stored(SettingOf(CommandOf(ModeOf(m.tap, b), b), b), b)
    IN  IF t.full THEN FullAck(t, m.pads) ELSE ManualAck(t, m)

Counted(t) == IF t.count < 255 THEN [t EXCEPT !.count = @ + 1] ELSE t

Tap_Clock(m, b) ==
    IF ~m.tap.dtr THEN m
    ELSE LET c == Clocked(m, b)
         IN  [c EXCEPT !.tap = Counted(Settled(c, b)[1])]

Tap_Acks(m, b) == m.tap.dtr /\ Settled(Clocked(m, b), b)[2]

(* What the tap sends while it receives the byte: in full mode its own 0x80 and
   0x5A and then what the pads answered, the first eight bytes as they answer;
   in manual mode what the selected devices send together.                   *)
FullSends(m) ==
    LET n == m.tap.count - 3
        row == m.tap.fm[n \div 8]
    IN  CASE m.tap.count = 1 -> 128
          [] m.tap.count = 2 -> 90
          [] InFullData(m.tap) -> IF Exchanging(m.tap) THEN Dev_Sends(m.pads[0])
                                  ELSE row[(n % 8) + 1]
          [] OTHER -> 255

(* Two devices on one line: a zero of either is seen, and one that is silent sends
   ones.  What two that talk at once make is left at 0: OneTalker of SerialPort
   says that there are none.                                                 *)
Together(x, y) == CASE x = 255 -> y [] y = 255 -> x [] OTHER -> 0

Tap_Sends(m) ==
    CASE ~m.tap.dtr \/ m.tap.count = 0 -> 255
      [] m.tap.dtr /\ m.tap.count > 0 /\ m.tap.full -> FullSends(m)
      [] m.tap.dtr /\ m.tap.count > 0 /\ ~m.tap.full ->
             IF m.tap.selected \in Sub
             THEN Together(Dev_Sends(m.pads[m.tap.selected]),
                           Card_Sends(m.cards[m.tap.selected]))
             ELSE 255
=============================================================================

----------------------------- MODULE SerialPort -----------------------------
(* One of the two ports with what is plugged into it, as the serial interface and
   the frontend see it: a pad and a memory card, or a multitap with several.

   The game selects the port (SetDTR), exchanges bytes and deselects it, at any
   point of a transfer.  After every frame the frontend may save or load a state,
   change an option or close the game; the card is written to its file some time
   after the last change (retro_run), and when the game is closed.           *)
EXTENDS Multitap

CONSTANTS Setups,       \* what may be plugged in: [tap, pads, cards]
          Starts,       \* what the card's file may hold at first
          Formatted,    \* the contents of a new card (Format)
          Sends(_, _),  \* bytes the game may send, given the setup and the bytes so far
          Saves(_),     \* whether states are saved with a setup
          FrameEnds,    \* bytes of a transfer after which a frame may end
          MaxWrites,    \* bound on dirty_count
          MaxOverheard, \* bound on the bytes of Overhear
          SaveDelay,    \* frames from the last change to the file (two seconds)
          Inputs(_)     \* inputs of a frame, given the setup: [held, move, flag]

Kinds == Polled \cup {"dualshock"}
IsFile(f) == \E k \in 0..Frames : f \in [0..(k - 1) -> Frame]

ASSUME PortAssumption == /\ SaveDelay \in Nat \ {0}
                         /\ Formatted \in Contents
                         /\ \A f \in Starts : IsFile(f)
                         /\ Setups \subseteq [tap : BOOLEAN, pads : [Sub -> Kinds], cards : SUBSET Sub]

VARIABLES setup, m,     \* the devices: [tap, pads, cards]
          pc,           \* "run" in a frame, "out" between two, "off" when closed
          file,         \* the frames in the file of the card in sub-port 0
          prevDC, delay,\* Memcard_PrevDC and Memcard_SaveDelay of that card
          saved,        \* a saved state, if there is one (a set)
          said, heard,  \* of the transfer under way: bytes of the game and the port's,
          acked,        \* whether the last was acknowledged,
          odd,          \* whether the frontend changed the device in the middle of it,
          told          \* and of the last full transfer with a tap what it told the pads

portVars == <<setup, m, pc, file, prevDC, delay, saved, said, heard, acked, odd, told>>
transfer == <<said, heard, acked, odd, told>>
frontend == <<pc, file, prevDC, delay, saved>>

Whole == DOMAIN file = 0..(Frames - 1)

-----------------------------------------------------------------------------
NewPad(kind) == IF kind = "dualshock" THEN Shock_New(FALSE) ELSE Pad_New(kind)

(* LoadMemcard: what the file has is read over a formatted card, and the card is
   then told to take the data it holds.  That the file is short goes unnoticed. *)
Card_LoadFile(frames) ==
    LET contents == [i \in 0..(Frames - 1) |-> IF i \in DOMAIN frames THEN frames[i]
                                                ELSE Formatted[i]]
    IN  [Card_WriteNV(Card_New(contents), contents) EXCEPT !.dirty = 0]

\* A slot's command and the bytes for the two motors: a poll that stops them, and unknown.
Still   == [s \in Sub |-> <<66, 0, 0>>]
Unknown == [s \in Sub |-> <<0, 0, 0>>]

\* A tap's dtr is whatever the memory held.
NewMachine(frames, dtr) ==
    [tap   |-> Tap_New(dtr),
     pads  |-> [s \in Sub |-> NewPad(setup.pads[s])],
     cards |-> [s \in Sub |-> Card_LoadFile(frames)]]

Port_Init ==
    /\ setup \in Setups
    /\ file \in Starts
    /\ \E dtr \in {FALSE, setup.tap} : m = NewMachine(file, dtr)
    /\ pc = "out" /\ prevDC = 0 /\ delay = -1 /\ saved = {}
    /\ said = << >> /\ heard = << >> /\ acked = FALSE /\ odd = FALSE
    /\ told = Still

\* The card whose file the frontend writes.
Card0 == m.cards[0]

Selected == \E s \in Sub : m.pads[s].dtr \/ m.cards[s].dtr

\* A tap that starts with dtr set does not see that it is selected for the first time.
Deaf == setup.tap /\ m.tap.dtr

\* SetDTR of the port's devices; the cards that are not emulated are dummies.
Devices_SetDTR(x, dtr) ==
    [x EXCEPT !.tap   = IF setup.tap THEN Tap_SetDTR(@, dtr) ELSE @,
              !.pads  = [s \in Sub |-> Dev_SetDTR(@[s], dtr)],
              !.cards = [s \in Sub |-> IF s \in setup.cards THEN Card_SetDTR(@[s], dtr)
                                       ELSE @[s]]]

(* A full transfer that got as far as the last byte but one tells the pads something;
   what is not followed here is one that the frontend changed in the middle.  *)
Told == CASE ~m.tap.full -> Still
          [] m.tap.full /\ odd -> Unknown
          [] m.tap.full /\ ~odd ->
               IF Len(said) >= FullLen - 1 /\ ~m.tap.error
               THEN [s \in Sub |-> <<said[8 * s + 4], said[8 * s + 6], said[8 * s + 7]>>]
               ELSE Still

\* A write to the control register that selects or deselects the port.
SetDTR(dtr) ==
    /\ pc = "run"
    /\ m' = Devices_SetDTR(m, dtr)
    /\ told' = IF setup.tap /\ m.tap.dtr /\ ~dtr THEN Told ELSE told
    /\ IF dtr = Selected THEN UNCHANGED <<said, heard, acked, odd>>
       ELSE /\ said' = << >> /\ heard' = << >> /\ acked' = FALSE
            /\ odd' = (dtr /\ Deaf)
    /\ UNCHANGED <<setup, frontend>>

\* A byte, without a tap: pad and card share the line.
DirectClock(b) == [m EXCEPT !.pads[0] = Dev_Clock(@, b), !.cards[0] = Card_Clock(@, b)]

Exchange(b) ==
    /\ pc = "run" /\ Selected
    /\ Card0.dirty < MaxWrites
    /\ m' = IF setup.tap THEN Tap_Clock(m, b) ELSE DirectClock(b)
    /\ heard' = Append(heard, IF setup.tap THEN Tap_Sends(m)
                              ELSE Together(Dev_Sends(m.pads[0]), Card_Sends(Card0)))
    /\ acked' = IF setup.tap THEN Tap_Acks(m, b)
                ELSE Dev_Acks(m'.pads[0]) \/ Card_Acks(m'.cards[0])
    /\ said' = Append(said, b)
    /\ UNCHANGED <<setup, odd, told, frontend>>

\* Bytes for another port pass through a tap whose dtr is set.
Overhear(b) ==
    /\ pc = "run" /\ ~Selected /\ Deaf
    /\ m.tap.count < MaxOverheard
    /\ m' = Tap_Clock(m, b)
    /\ UNCHANGED <<setup, transfer, frontend>>

-----------------------------------------------------------------------------
(* The frontend.  A frame begins with the inputs and ends with the timestamps
   being rebased and the card being saved if it is time.                     *)
UpdateInput(p, held, move, flag) ==
    IF IsShock(p) THEN Shock_UpdateInput(p, held, flag) ELSE Pad_UpdateInput(p, held, move, flag)

BeginFrame ==
    /\ pc = "out" /\ pc' = "run"
    /\ \E in \in Inputs(setup) :
         m' = [m EXCEPT !.pads = [s \in Sub |-> UpdateInput(@[s], in.held[s], in.move, in.flag)]]
    /\ UNCHANGED <<setup, file, prevDC, delay, saved, transfer>>

\* A gun that points at the screen meets the beam; the line it pulls is FrontIO's.
SeeBeam(s) ==
    /\ pc = "run" /\ m.pads[s].kind \in Guns
    /\ m' = [m EXCEPT !.pads[s] = Pad_SeesBeam(@)]
    /\ UNCHANGED <<setup, transfer, frontend>>

(* Save memcards if dirty (retro_run): a change starts the delay anew, and when it
   has passed SaveMemcard writes the file of a dirty card.                    *)
Waited == LET d == IF Card0.dirty > prevDC THEN 0 ELSE delay
          IN  IF d >= 0 THEN d + 1 ELSE d

SaveIsDue == Waited >= SaveDelay

\* The first frames of the card: what a file holds after a write, whole or cut short.
Written(frames) == {[i \in 0..(k - 1) |-> Card0.data[i]] : k \in frames}

(* SaveMemcard truncates the file and writes it.  FileStream::write and close say
   nothing of a write that failed, and the dirty count is reset all the same. *)
SaveMemcard(frames) ==
    IF Card0.dirty = 0 THEN file' = file ELSE file' \in Written(frames)

Rested == [m EXCEPT !.pads = [s \in Sub |-> Dev_Frame(@[s])]]

EndFrame(frames) ==
    /\ pc = "run" /\ pc' = "out"
    /\ Len(said) \in FrameEnds
    /\ m' = [Rested EXCEPT !.cards[0].dirty = IF SaveIsDue THEN 0 ELSE @]
    /\ IF SaveIsDue THEN SaveMemcard(frames) ELSE UNCHANGED file
    /\ delay' = IF SaveIsDue THEN -1 ELSE Waited
    /\ prevDC' = IF SaveIsDue THEN 0
                 ELSE IF Card0.dirty > prevDC THEN Card0.dirty ELSE prevDC
    /\ UNCHANGED <<setup, saved, transfer>>

\* If the file cannot be opened, an exception leaves retro_run, and nothing catches it.
SaveFails ==
    /\ pc = "run" /\ pc' = "off"
    /\ Len(said) \in FrameEnds
    /\ SaveIsDue /\ Card0.dirty > 0
    /\ UNCHANGED <<setup, m, file, prevDC, delay, saved, transfer>>

\* States are saved once, and not kept for another run of the game: a bound.
SaveState ==
    /\ pc = "out" /\ Saves(setup) /\ saved = {}
    /\ saved' = {[m |-> m, said |-> said, heard |-> heard, acked |-> acked, odd |-> odd,
                  told |-> told]}
    /\ UNCHANGED <<setup, m, pc, file, prevDC, delay, transfer>>

(* StateAction of every device.  A card that was not used in the game does not
   bring its data, and a neGcon nothing, so that a transfer may go on with other
   data or without its device.                                               *)
LoadState ==
    /\ pc = "out" /\ Card0.dirty < MaxWrites
    /\ \E s \in saved :
         /\ m' = [tap   |-> s.m.tap,
                  pads  |-> [i \in Sub |-> Dev_Load(m.pads[i], s.m.pads[i])],
                  cards |-> [i \in Sub |-> Card_Load(m.cards[i], s.m.cards[i])]]
         /\ said' = s.said /\ heard' = s.heard /\ acked' = s.acked /\ told' = s.told
         /\ odd' = (s.odd \/ m'.cards[0].data # s.m.cards[0].data
                         \/ m'.pads # s.m.pads)
    /\ UNCHANGED <<setup, pc, file, prevDC, delay, saved>>

\* The option that enables the combination also sets the mode of a DualShock.
SetAMCT(enabled) ==
    /\ pc = "out"
    /\ \E s \in Sub : IsShock(m.pads[s])
    /\ m' = [m EXCEPT !.pads = [s \in Sub |-> IF IsShock(@[s]) THEN Shock_SetAMCT(@[s], enabled)
                                              ELSE @[s]]]
    /\ odd' = (odd \/ Selected)
    /\ UNCHANGED <<setup, frontend, said, heard, acked, told>>

\* CloseGame saves a dirty card; that its file cannot be opened is logged.
CloseGame(frames) ==
    /\ pc = "out" /\ pc' = "off"
    /\ SaveMemcard(frames) \/ file' = file
    /\ UNCHANGED <<setup, m, prevDC, delay, saved, transfer>>

Start ==
    /\ pc = "off" /\ pc' = "out"
    /\ \E dtr \in {FALSE, setup.tap} : m' = NewMachine(file, dtr)
    /\ prevDC' = 0 /\ delay' = -1
    /\ said' = << >> /\ heard' = << >> /\ acked' = FALSE /\ odd' = FALSE
    /\ told' = Still /\ saved' = {}
    /\ UNCHANGED <<setup, file>>

(* retro_reset: FrontIO's Power, of the pads and the cards but not of the tap, which
   keeps what it has.  That it may be selected then is left out, as a bound: it
   would be deaf as after the start.                                         *)
Reset ==
    /\ pc = "out" /\ ~Deaf
    /\ m' = [m EXCEPT !.pads  = [s \in Sub |-> Dev_Power(@[s])],
                      !.cards = [s \in Sub |-> Card_Power(@[s])]]
    /\ said' = << >> /\ heard' = << >> /\ acked' = FALSE /\ odd' = FALSE
    /\ UNCHANGED <<setup, told, frontend>>

\* How much of the file a write may leave behind.
Amounts == 0..Frames

Port_Next ==
    \/ \E dtr \in BOOLEAN : SetDTR(dtr)
    \/ \E b \in Sends(setup, said) \cap Byte : Exchange(b)
    \/ \E b \in {1, 66} : Overhear(b)
    \/ \E s \in Sub : SeeBeam(s)
    \/ \E enabled \in BOOLEAN : SetAMCT(enabled)
    \/ BeginFrame \/ EndFrame(Amounts) \/ SaveFails
    \/ SaveState \/ LoadState \/ CloseGame(Amounts) \/ Start \/ Reset

Port_Spec == Port_Init /\ [][Port_Next]_portVars

-----------------------------------------------------------------------------
\* Of a transfer: its address and command, and the frame it is about.
Begins(bytes, address, command) ==
    Len(bytes) >= 6 /\ bytes[1] = address /\ bytes[2] = command

FrameOf(bytes)  == bytes[5] * 256 + bytes[6]
FrameSent(bytes) == [i \in 1..FrameLen |-> bytes[6 + i]]

\* The checksum after every byte of a frame.
SumsOf(first, second, frame) ==
    LET sum[i \in 0..FrameLen] ==
          IF i = 0 THEN Xor(first, second) ELSE Xor(sum[i - 1], frame[i])
    IN  sum

Checksum(first, second, frame) == SumsOf(first, second, frame)[FrameLen]

RightSum(bytes) == Checksum(bytes[5], bytes[6], FrameSent(bytes)) = bytes[7 + FrameLen]

\* The bytes end a write that must be stored.
Stores(bytes) == /\ Len(bytes) = 9 + FrameLen
                 /\ Begins(bytes, 129, 87)
                 /\ FrameOf(bytes) < Frames
                 /\ RightSum(bytes)

(* A card changes in a frame only by a write that was sent whole, with a frame
   there is and the right checksum, and then takes what was sent: a write that is
   deselected, or that a state was saved and loaded in the middle of, stores
   nothing or all of it (input/memcard.cpp, Clock).                           *)
WritesAreWhole ==
    [][pc = "run" /\ pc' = "run" /\ ~odd =>
         Card0.data' = IF said' # said /\ 0 \in setup.cards /\ Stores(said')
                       THEN [Card0.data EXCEPT ![FrameOf(said')] = FrameSent(said')]
                       ELSE Card0.data]_portVars

\* A pad and a card in one place never both have a byte to send: the wire is shared.
OneTalker == \A s \in Sub : ~(Dev_Acks(m.pads[s]) /\ Card_Acks(m.cards[s]))

(* What the game hears of a read is the frame it asked for, its checksum and 'G',
   and of a write whether it was stored, unless the card's data was replaced by a
   state in between; and no other device speaks at the same time (input/memcard.cpp
   and the pads, Clock).                                                      *)
AnswersAreTrue ==
    ~odd =>
      /\ OneTalker
      /\ 0 \in setup.cards /\ Begins(said, 129, 82) /\ FrameOf(said) < Frames =>
           LET frame == Card0.data[FrameOf(said)]
           IN  /\ \A i \in 1..FrameLen : 10 + i <= Len(heard) => heard[10 + i] = frame[i]
               /\ Len(heard) >= 11 + FrameLen =>
                    heard[11 + FrameLen] = Checksum(said[5], said[6], frame)
               /\ Len(heard) >= 12 + FrameLen => heard[12 + FrameLen] = 71
      /\ 0 \in setup.cards /\ Begins(said, 129, 87) /\ Len(heard) >= 10 + FrameLen =>
           heard[10 + FrameLen] = IF ~RightSum(said) THEN 78
                                  ELSE IF FrameOf(said) < Frames THEN 71 ELSE 255

(* What is on the card and not in its file will be written: the card is dirty, and
   its delay is running or starts with the end of this frame (retro_run).  A file
   that was cut short counts as saved: nothing notices (SaveMemcard).         *)
UnsavedIsPending ==
    pc # "off" => /\ Whole => file = Card0.data \/ Card0.dirty > 0
                  /\ Card0.dirty > 0 => delay >= 0 \/ Card0.dirty > prevDC

(* A pad acknowledges as many bytes as its identification promises and not one
   more: two per unit of the low digit, after the first three.  Exempt are an empty
   place, a mode set in the middle of the transfer, and the digital DualShock with
   its third motor mapped, which sends two more bytes.                       *)
LongAnswer(p) == IsShock(p) /\ ~p.config /\ ~p.analog /\ p.magic[3] \in {0, 1}

\* The commands a pad with an identification answers; 243 is the configuration mode.
Known(id) == CASE id = 243 -> 64..79
               [] id # 243 -> IF IsShock(m.pads[0]) THEN {66, 67} ELSE {66}

AcksMatchId ==
    ~setup.tap /\ setup.pads[0] # "none" /\ ~odd /\ Len(said) >= 2 /\ said[1] = 1 =>
      LET id    == heard[2]
          known == said[2] \in Known(id)
          asked == id = 243 /\ Len(said) >= 3 => said[3] = 0
      IN  known /\ asked /\ ~LongAnswer(m.pads[0]) =>
            (acked <=> Len(said) <= 2 + 2 * (id % 16))

\* The identification of a pad in its mode.
IdNow(p) == IF ~IsShock(p) THEN Id(p.kind)
            ELSE IF p.config THEN 243 ELSE IF p.analog THEN 115 ELSE 65

(* In a full transfer with a tap each pad answers in its own slot, and the motors
   of each are told what the last transfer had in that slot, if that was a poll
   (input/multitap.cpp).  Other commands of a DualShock may change its mode.   *)
SlotsAreOwn ==
    setup.tap /\ m.tap.full /\ ~m.tap.error /\ ~odd =>
      \A s \in Sub : ~IsShock(m.pads[s]) \/ told[s][1] = 66 =>
        /\ Len(heard) >= 5 + 8 * s /\ setup.pads[s] # "none" =>
             heard[4 + 8 * s] = IdNow(m.pads[s]) /\ heard[5 + 8 * s] = 90
        /\ Len(heard) >= 7 /\ IsShock(m.pads[s]) /\ m.pads[s].compat =>
             m.pads[s].param = <<told[s][2], told[s][3]>>
=============================================================================

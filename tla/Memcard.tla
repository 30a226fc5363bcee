------------------------------ MODULE Memcard ------------------------------
(* A memory card, input/memcard.cpp, one byte of the serial line at a time.

   InputDevice_Memcard::Clock takes a bit; everything it does besides shifting
   happens with the eighth one, and SetDTR starts a new byte, so that a byte is
   the unit here.  The card answers a byte while it receives the next one.  The
   phases have the code's numbers, where FrameLen stands for 128.            *)
EXTENDS Integers, Sequences

CONSTANTS FrameLen,     \* bytes of a frame (128)
          Frames,       \* frames of a card (sizeof(card_data) >> 7)
          Xor(_, _)     \* exclusive or of bytes

Byte == 0..255
NoFrame == 65535        \* the address of a frame there is not
Addr == 0..NoFrame

ASSUME CardAssumption == /\ FrameLen \in 1..128
                         /\ Frames \in 1..1024
                         /\ \A a, b \in Byte : Xor(a, b) \in Byte
                         /\ \A a \in Byte : Xor(0, a) = a

High(a) == a \div 256
Low(a)  == a % 256

Frame    == [1..FrameLen -> Byte]
Contents == [0..(Frames - 1) -> Frame]

ReadData  == 1024..(1023 + FrameLen)
WriteData == 2048..(2047 + FrameLen)
CardPhase == {-1, 0, 1, 2, 3} \cup 1000..1004 \cup 1024..(1025 + FrameLen)
                 \cup {2000, 2001} \cup 2048..(2050 + FrameLen)

(* What the card keeps.  tx is the byte it will send, sending that there is one
   (transmit_count), rw the frame being written, isnew presence_new, used
   data_used and dirty dirty_count.                                          *)
Card == [dtr : BOOLEAN, phase : CardPhase, sending : BOOLEAN, tx : Byte,
         command : Byte, addr : Addr, xor : Byte, wxor : Byte, rw : Frame,
         isnew : BOOLEAN, data : Contents, used : BOOLEAN, dirty : Nat]

(* Power: what is left of a transfer is forgotten, the data is not.  rw_buffer
   and the two checksums keep their values; they are always set before use.  *)
Card_Power(c) ==
    [c EXCEPT !.dtr = FALSE, !.phase = 0, !.command = 0, !.tx = 0,
              !.sending = FALSE, !.addr = 0, !.isnew = TRUE]

\* A card with the given contents, as the constructor leaves it.
Card_New(contents) ==
    [dtr |-> FALSE, phase |-> 0, sending |-> FALSE, tx |-> 0, command |-> 0,
     addr |-> 0, xor |-> 0, wxor |-> 0, rw |-> [i \in 1..FrameLen |-> 0],
     isnew |-> TRUE, data |-> contents, used |-> FALSE, dirty |-> 0]

Card_SetDTR(c, dtr) ==
    IF dtr /\ ~c.dtr
    THEN [c EXCEPT !.dtr = TRUE, !.phase = 0, !.sending = FALSE]
    ELSE [c EXCEPT !.dtr = dtr]

(* The card goes to a phase and has a byte to send, or gives up.             *)
Says(c, byte, phase) == [c EXCEPT !.tx = byte, !.sending = TRUE, !.phase = phase]

Select(c, b) ==
    IF b = 129 THEN Says(c, IF c.isnew THEN 8 ELSE 0, 1) ELSE [c EXCEPT !.phase = -1]

\* 'R' and 'W'; 'S' is not supported.
Command(c, b) ==
    IF b \in {82, 87}
    THEN Says([c EXCEPT !.command = b], 90, 2)
    ELSE [c EXCEPT !.command = b, !.phase = -1, !.tx = 0]

Identify(c) ==
    IF c.phase = 2 THEN Says(c, 93, 3)
    ELSE Says(c, 0, IF c.command = 82 THEN 1000 ELSE 2000)

\* A mutant: the checksum goes on from the last transfer's.
Located_Summed(c) == [c EXCEPT !.addr = IF @ >= Frames THEN NoFrame ELSE @]

\* The frame is looked up and its checksum begun.
Located(c) == [c EXCEPT !.addr = IF @ >= Frames THEN NoFrame ELSE @, !.xor = 0]

(* Reading a frame: the address, its confirmation, the data and a checksum of
   both.  An address past the end is confirmed as 0xFFFF, and nothing follows. *)
Reading(c, b) ==
    CASE c.phase = 1000 -> Says([c EXCEPT !.addr = b * 256], b, 1001)
      [] c.phase = 1001 -> Says([c EXCEPT !.addr = @ + b], 92, 1002)
      [] c.phase = 1002 -> Says(Located(c), 93, 1003)
      [] c.phase = 1003 -> Says([c EXCEPT !.xor = Xor(@, High(c.addr))], High(c.addr), 1004)
      [] c.phase = 1004 -> Says([c EXCEPT !.xor = Xor(@, Low(c.addr))], Low(c.addr),
                                IF c.addr = NoFrame THEN -1 ELSE 1024)
      [] c.phase \in ReadData ->
             LET byte == c.data[c.addr][c.phase - 1023]
             IN  Says([c EXCEPT !.xor = Xor(@, byte)], byte, c.phase + 1)
      [] c.phase = 1024 + FrameLen -> Says(c, c.xor, c.phase + 1)
      [] c.phase = 1025 + FrameLen -> Says(c, 71, -1)

\* A mutant: the checksum is not looked at.
Commit_Unchecked(c) ==
    IF c.addr >= Frames THEN Says(c, 255, -1)
    ELSE Says([c EXCEPT !.isnew = FALSE, !.data[c.addr] = c.rw, !.dirty = @ + 1, !.used = TRUE], 71, -1)

(* The end of a write: the frame is stored if the checksum is right and there is
   such a frame, and counts as a change only if it is one.                   *)
Commit(c) ==
    CASE c.xor # c.wxor    -> Says(c, 78, -1)
      [] c.xor = c.wxor /\ c.addr >= Frames -> Says(c, 255, -1)
      [] OTHER -> Says(IF c.data[c.addr] = c.rw THEN [c EXCEPT !.isnew = FALSE]
                       ELSE [c EXCEPT !.isnew = FALSE, !.data[c.addr] = c.rw,
                                      !.dirty = @ + 1, !.used = TRUE], 71, -1)

Writing(c, b) ==
    CASE c.phase = 2000 -> Says([c EXCEPT !.xor = b, !.addr = b * 256], b, 2001)
      [] c.phase = 2001 -> Says([c EXCEPT !.xor = Xor(@, b), !.addr = @ + b], b, 2048)
      [] c.phase \in WriteData ->
             Says([c EXCEPT !.xor = Xor(@, b), !.rw[c.phase - 2047] = b], b, c.phase + 1)
      [] c.phase = 2048 + FrameLen -> Says([c EXCEPT !.wxor = b], 92, c.phase + 1)
      [] c.phase = 2049 + FrameLen -> Says(c, 93, c.phase + 1)
      [] c.phase = 2050 + FrameLen -> Commit(c)

(* Clock, for the eight bits of the byte b.                                  *)
Card_Clock(card, b) ==
    LET c == [card EXCEPT !.sending = FALSE]
    IN  CASE ~card.dtr -> card
          [] card.dtr /\ c.phase = -1 -> c
          [] card.dtr /\ c.phase = 0 -> Select(c, b)
          [] card.dtr /\ c.phase = 1 -> Command(c, b)
          [] card.dtr /\ c.phase \in {2, 3} -> Identify(c)
          [] card.dtr /\ c.phase \in 1000..(1025 + FrameLen) -> Reading(c, b)
          [] card.dtr /\ c.phase >= 2000 -> Writing(c, b)

\* The byte it puts on the line meanwhile: all ones if it has none.
Card_Sends(c) == IF c.dtr /\ c.sending THEN c.tx ELSE 255

\* Whether dsr_pulse_delay asks for an acknowledge after the byte.
Card_Acks(c) == c.dtr /\ c.sending

-----------------------------------------------------------------------------
(* The non-volatile data.  WriteNV counts a write, and takes the data as used
   only if it differs from what the card holds.                              *)
Card_WriteNV(c, contents) ==
    [c EXCEPT !.dirty = @ + 1, !.used = @ \/ c.data # contents, !.data = contents]

\* A mutant: data that came with a state is not written to the file.
Card_Load_Clean(c, s) ==
    [s EXCEPT !.data = IF s.used THEN @ ELSE c.data, !.dirty = c.dirty]

(* StateAction: the data goes into a state only if used, dirty_count never; a
   state that brings data makes the card dirty.                              *)
Card_Load(c, s) ==
    [s EXCEPT !.data = IF s.used THEN @ ELSE c.data,
              !.dirty = IF s.used THEN c.dirty + 1 ELSE c.dirty]
=============================================================================

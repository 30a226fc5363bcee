--------------------------------- MODULE MDEC ---------------------------------
(***************************************************************************)
(* The picture decoder of mdec.cpp, the two channels of dma.cpp that feed  *)
(* and empty it, and the game that uses them.  MDEC_Run is a coroutine: it *)
(* runs from one wait (for a word, for time, for room) to the next inside  *)
(* the call that wakes it.  A stretch of it is one step, and nothing else  *)
(* happens before the next wait.                                           *)
(*                                                                         *)
(* A pixel word is reduced to the block it belongs to and its place there, *)
(* a coefficient to how many others it skips.                              *)
(***************************************************************************)
EXTENDS Integers, Sequences

CONSTANTS
  Size,       \* words in a FIFO, and in a block the game has DMA move (0x20)
  Rows,       \* rows in a block (8)
  Width,      \* the words of a row at each depth (1, 2, 6 and 4), counted in a byte
  Coeffs,     \* coefficients in a block (64)
  MaxClock,   \* the clocks it can have in hand (128)
  BlockClocks,\* the clocks of a block (474)
  Clocks,     \* bound: the clocks DMA_Update brings
  Commands,   \* bound: the commands the game gives
  Data        \* bound: the words of coded pictures, low and high half

END == -1          \* 0xFE00: the rest of the block is zero
Padding == [lo |-> END, hi |-> END]
Spent == 65535     \* what InCounter comes to after the last word: 0xFFFF

ASSUME MDECAssumption ==
  /\ Size \in 1..Spent /\ Size % 2 = 0
  /\ Rows \in Nat \ {0} /\ 256 % (2 * Rows) = 0 /\ Width \in [0..3 -> 1..255]
  /\ Coeffs \in Nat \ {0, 1} /\ MaxClock \in Nat \ {0} /\ BlockClocks \in Nat
  /\ Clocks \subseteq Nat \ {0}
  /\ Commands \subseteq [op : 1..3, depth : 0..3, count : 1..Spent, both : BOOLEAN]
  /\ \A word \in Data : {word.lo, word.hi} \subseteq END..(Coeffs - 1)

VARIABLES
  mdec,     \* the decoder
  in, out,  \* the channels: on, WordCounter, the blocks left (0: without end); out.moved words so far
  game,     \* what the game is at, and the words it has yet to supply
  picture   \* history: what the output channel has written where, since the last command

mdecVars == <<mdec, in, out, game, picture>>

------------------------------------------------------------------------------
(* Decoding.                                                                *)

IsColor(m) == m.Command.depth >= 2
BlockWords(m) == Rows * Width[m.Command.depth]

\* EncodeImage: the words of a luminance block.
EncodeImage(m) ==
  [m EXCEPT !.pixels = [i \in 1..BlockWords(m) |-> [block |-> m.encoded, at |-> i - 1]],
            !.encoded = @ + 1]

\* The red and blue differences come first (0 and 1), then the luminance blocks (from 2).
FirstBlock(command) == IF command.depth >= 2 THEN 0 ELSE 2
NextBlock(m) ==
  IF m.DecodeWB = (IF IsColor(m) THEN 5 ELSE 2) THEN FirstBlock(m.Command) ELSE m.DecodeWB + 1

\* How far a half word takes a block.
IndexAfter(index, v) ==
  CASE index = 0 -> IF v = END THEN 0 ELSE 1
    [] index > 0 -> IF v = END \/ index + v >= Coeffs THEN Coeffs ELSE index + v + 1

WriteImageData(m, v) ==
  LET index == IndexAfter(m.CoeffIndex, v)
      done  == [m EXCEPT !.CoeffIndex = 0, !.need_eat = @ + BlockClocks]
      shown == IF m.DecodeWB >= 2 THEN EncodeImage(done) ELSE done
  IN IF index < Coeffs THEN [m EXCEPT !.CoeffIndex = index]
     ELSE [shown EXCEPT !.DecodeWB = NextBlock(m)]

------------------------------------------------------------------------------
(* The coroutine.  A phase is where it waits next.                          *)

\* The end of a command, and of a word of one (mutant: the last word is not the last).
NextCommand(m) == [m EXCEPT !.phase = "command", !.InCommand = FALSE]
NextWord_Late(m) == IF m.InCounter = Spent - 1 THEN NextCommand(m) ELSE [m EXCEPT !.phase = "word"]
NextWord(m) == IF m.InCounter = Spent THEN NextCommand(m) ELSE [m EXCEPT !.phase = "word"]

\* Padding is no command: its upper bits are those of no operation.
AsCommand(word) == IF word = Padding THEN [op |-> 7, depth |-> 3, count |-> 65024, both |-> FALSE] ELSE word

TakeCommand(m) ==
  [m EXCEPT !.InFIFO = Tail(@), !.Command = AsCommand(Head(m.InFIFO)), !.InCommand = TRUE,
            !.ClockCounter = @ - 1, !.phase = "begin"]

\* Half of 0x20 words or all of them for a table; what is no command only sets the counter.
WordsOf(command) ==
  CASE command.op = 2 -> IF command.both THEN Size ELSE Size \div 2
    [] command.op = 3 -> Size
    [] command.op \notin {2, 3} -> command.count

BeginCommand(m) ==
  LET words == WordsOf(m.Command)
      width == IF m.Command.depth >= 2 THEN Width[m.Command.depth] ELSE 0
  IN CASE m.Command.op = 1 ->
            [m EXCEPT !.InCounter = (words - 1) % (Spent + 1), !.OutFIFO = <<>>, !.pixels = <<>>,
                      !.CoeffIndex = 0, !.DecodeWB = FirstBlock(m.Command), !.RAMOffsetWWS = width,
                      !.RAMOffsetY = 0, !.RAMOffsetCounter = width, !.encoded = 0, !.phase = "word"]
       [] m.Command.op \in {2, 3} ->
            [m EXCEPT !.InCounter = words - 1, !.phase = "word"]
       [] m.Command.op \notin 1..3 ->
            NextCommand([m EXCEPT !.InCounter = words])

\* (Mutant: the pixels of the last word's block are still there for this one.)
TakeWord_Stale(m) ==
  LET taken == [m EXCEPT !.InFIFO = Tail(@), !.InCounter = (@ - 1) % (Spent + 1), !.need_eat = 0]
      word  == Head(m.InFIFO)
      coded == WriteImageData(WriteImageData(taken, word.lo), word.hi)
  IN IF m.Command.op # 1 THEN NextWord(taken)
     ELSE [coded EXCEPT !.ClockCounter = @ - coded.need_eat, !.need_eat = 0, !.phase = "eat"]
TakeWord(m) ==
  LET taken == [m EXCEPT !.InFIFO = Tail(@), !.InCounter = (@ - 1) % (Spent + 1)]
      clear == [taken EXCEPT !.need_eat = 0, !.pixels = <<>>]
      word  == Head(m.InFIFO)
      coded == WriteImageData(WriteImageData(clear, word.lo), word.hi)
  IN IF m.Command.op # 1 THEN NextWord(taken)
     ELSE [coded EXCEPT !.ClockCounter = @ - coded.need_eat, !.need_eat = 0, !.phase = "eat"]

GivePixels(m) ==
  IF m.ReadOffset = Len(m.pixels) THEN NextWord(m)
  ELSE [m EXCEPT !.OutFIFO = Append(@, m.pixels[m.ReadOffset + 1]), !.ReadOffset = @ + 1]

Waits(m) ==
  CASE m.phase \in {"command", "word"} -> m.InFIFO = <<>>
    [] m.phase \in {"begin", "eat"}    -> m.ClockCounter <= 0
    [] m.phase = "give" -> m.ReadOffset # Len(m.pixels) /\ Len(m.OutFIFO) = Size

\* It runs on, in whatever call woke it, until it waits.
Running(m) == [m EXCEPT !.running = ~Waits(m)]

Advance(m) ==
  CASE m.phase = "command" -> TakeCommand(m)
    [] m.phase = "begin"   -> BeginCommand(m)
    [] m.phase = "word"    -> TakeWord(m)
    [] m.phase = "eat"     -> [m EXCEPT !.ReadOffset = 0, !.phase = "give"]
    [] m.phase = "give"    -> GivePixels(m)

MDEC_Run(m, clocks) ==
  LET given == m.ClockCounter + clocks
  IN Running([m EXCEPT !.ClockCounter = IF given > MaxClock THEN MaxClock ELSE given])

------------------------------------------------------------------------------
(* The registers and the DMA ports.                                         *)

\* (Mutant: there is room for a block when there is room.)
MDEC_DMACanWrite_Room(m) ==
  Len(m.InFIFO) < Size /\ m.dmaIn /\ m.InCommand /\ m.InCounter # Spent
MDEC_DMACanWrite(m) == m.InFIFO = <<>> /\ m.dmaIn /\ m.InCommand /\ m.InCounter # Spent
MDEC_DMACanRead(m) == Len(m.OutFIFO) >= Size /\ m.dmaOut

MDEC_DMAWrite(m, word) ==
  IF Len(m.InFIFO) = Size THEN m ELSE MDEC_Run([m EXCEPT !.InFIFO = Append(@, word)], 0)

\* The offset of a word: the rows of a colour picture are two blocks wide.
RAMOffset(m) ==
  m.RAMOffsetWWS * ((m.RAMOffsetY % Rows) - (IF (m.RAMOffsetY \div Rows) % 2 = 1 THEN Rows - 1 ELSE 0))

MDEC_DMARead(m) ==
  LET counter == (m.RAMOffsetCounter - 1) % 256
      read == [m EXCEPT !.OutFIFO = Tail(@),
                        !.RAMOffsetCounter = IF counter = 0 THEN m.RAMOffsetWWS ELSE counter,
                        !.RAMOffsetY = IF counter = 0 THEN (@ + 1) % 256 ELSE @]
  IN IF m.OutFIFO = <<>> THEN m ELSE MDEC_Run(read, 0)

WriteData(m, word) ==
  LET written == [m EXCEPT !.InFIFO = Append(@, word),
                           !.ClockCounter = IF ~m.InCommand /\ @ < 1 THEN 1 ELSE @]
  IN IF Len(m.InFIFO) = Size THEN m ELSE MDEC_Run(written, 0)

NoCommand == [op |-> 0, depth |-> 0, count |-> 0, both |-> FALSE]

ResetControl(m) ==
  [m EXCEPT !.phase = "command", !.InCounter = 0, !.Command = NoCommand, !.InCommand = FALSE,
            !.pixels = <<>>, !.ClockCounter = 0, !.CoeffIndex = 0, !.DecodeWB = 0,
            !.InFIFO = <<>>, !.OutFIFO = <<>>, !.dmaIn = FALSE, !.dmaOut = FALSE]

MDEC_Power ==
  [phase |-> "command", running |-> FALSE, ClockCounter |-> 0, InFIFO |-> <<>>, OutFIFO |-> <<>>,
   dmaIn |-> FALSE, dmaOut |-> FALSE, Command |-> NoCommand, InCommand |-> FALSE,
   CoeffIndex |-> 0, DecodeWB |-> 0, pixels |-> <<>>, ReadOffset |-> 0, need_eat |-> 0,
   InCounter |-> 0, RAMOffsetY |-> 0, RAMOffsetCounter |-> 0, RAMOffsetWWS |-> 0, encoded |-> 0]

------------------------------------------------------------------------------
(* The channels of DMA, and the game.  A channel looks whether the decoder   *)
(* is ready when it begins a block, and not again before its end.           *)

NoChannel == [on |-> FALSE, WordCounter |-> 0, blocks |-> 0]

Begins(channel) == channel.on /\ channel.WordCounter = 0
WordMoved(channel) ==
  LET left   == (IF channel.WordCounter = 0 THEN Size ELSE channel.WordCounter) - 1
      blocks == IF channel.WordCounter = 0 THEN channel.blocks - 1 ELSE channel.blocks
  IN IF left = 0 /\ blocks = 0 THEN NoChannel ELSE [on |-> TRUE, WordCounter |-> left, blocks |-> blocks]

MDEC_Init ==
  /\ mdec = MDEC_Power /\ in = NoChannel /\ out = NoChannel
  /\ game = [at |-> "off", command |-> NoCommand, left |-> 0, moved |-> 0] /\ picture = {}

\* The game lets the decoder request transfers.
Enable ==
  /\ ~mdec.running /\ game.at = "off"
  /\ game' = [game EXCEPT !.at = "idle"]
  /\ mdec' = [mdec EXCEPT !.dmaIn = TRUE, !.dmaOut = TRUE]
  /\ UNCHANGED <<in, out, picture>>

\* The game gives a command when the status says that no other is under way, and has DMA
\* store the picture, or reads it from the register itself: then without what may be left of
\* the last one, which is there until the command begins.
Command(command, byDMA) ==
  /\ ~mdec.running /\ game.at = "idle" /\ ~mdec.InCommand
  /\ byDMA \/ mdec.OutFIFO = <<>>
  /\ mdec' = WriteData(mdec, command)
  /\ game' = [at |-> "busy", command |-> command, left |-> WordsOf(command), moved |-> 0]
  /\ out' = IF command.op = 1 /\ byDMA THEN [NoChannel EXCEPT !.on = TRUE] ELSE NoChannel
  /\ picture' = {} /\ UNCHANGED in

\* It supplies the words with the register, or in blocks, of which the last is padded.
Word(w) == IF game.command.op = 1 /\ game.left > 0 THEN w \in Data ELSE w = Padding

StartInput ==
  /\ ~mdec.running
  /\ game.at = "busy" /\ game.left > 0 /\ ~in.on
  /\ in' = [on |-> TRUE, WordCounter |-> 0, blocks |-> (game.left + Size - 1) \div Size]
  /\ UNCHANGED <<mdec, out, game, picture>>

Supply == game' = [game EXCEPT !.left = IF @ > 0 THEN @ - 1 ELSE 0]

WriteWord(w) ==
  /\ ~mdec.running
  /\ game.at = "busy" /\ game.left > 0 /\ ~in.on /\ Len(mdec.InFIFO) < Size /\ Word(w)
  /\ mdec' = WriteData(mdec, w) /\ Supply
  /\ UNCHANGED <<in, out, picture>>

InputWord(w) ==
  /\ ~mdec.running
  /\ in.on /\ Word(w)
  /\ Begins(in) => MDEC_DMACanWrite(mdec)
  /\ mdec' = MDEC_DMAWrite(mdec, w) /\ Supply
  /\ in' = WordMoved(in)
  /\ UNCHANGED <<out, picture>>

Store(place) ==
  /\ picture' = picture \cup {[place |-> place, word |-> Head(mdec.OutFIFO)]}
  /\ game' = [game EXCEPT !.moved = @ + 1]

OutputWord ==
  /\ ~mdec.running
  /\ out.on
  /\ Begins(out) => MDEC_DMACanRead(mdec)
  /\ mdec' = MDEC_DMARead(mdec)
  /\ out' = [on |-> TRUE, blocks |-> 0,
             WordCounter |-> (IF out.WordCounter = 0 THEN Size ELSE out.WordCounter) - 1]
  /\ Store(game.moved + RAMOffset(mdec))
  /\ UNCHANGED in

ReadWord ==
  /\ ~mdec.running
  /\ game.at = "busy" /\ game.command.op = 1 /\ ~out.on /\ mdec.OutFIFO # <<>>
  /\ mdec' = [mdec EXCEPT !.OutFIFO = Tail(@)]
  /\ Store(game.moved)
  /\ UNCHANGED <<in, out>>

Resume == mdec.running /\ mdec' = Running(Advance(mdec)) /\ UNCHANGED <<in, out, game, picture>>

MDEC_Update(clocks) ==
  /\ ~mdec.running
  /\ mdec' = MDEC_Run(mdec, clocks)
  /\ UNCHANGED <<in, out, game, picture>>

\* The picture is there, or what is left of it is no block.
Finish ==
  /\ ~mdec.running
  /\ game.at = "busy" /\ game.left = 0 /\ ~in.on /\ ~mdec.InCommand
  /\ \/ game.command.op # 1
     \/ Begins(out) /\ Len(mdec.OutFIFO) < Size
     \/ ~out.on /\ mdec.OutFIFO = <<>>
  /\ game' = [game EXCEPT !.at = "idle"] /\ out' = NoChannel
  /\ UNCHANGED <<mdec, in, picture>>

\* The game gives up: it stops the channels, which end their blocks, and resets the decoder.
Reset ==
  /\ ~mdec.running
  /\ game.at # "off" /\ in.WordCounter = 0 /\ out.WordCounter = 0
  /\ mdec' = ResetControl(mdec) /\ in' = NoChannel /\ out' = NoChannel
  /\ game' = [at |-> "off", command |-> NoCommand, left |-> 0, moved |-> 0] /\ picture' = {}

Supplies == StartInput \/ \E w \in Data \cup {Padding} : WriteWord(w) \/ InputWord(w)
Takes == OutputWord \/ ReadWord

MDEC_Next ==
  \/ Resume
  \/ Enable \/ Finish \/ Reset \/ StartInput \/ OutputWord \/ ReadWord
  \/ \E command \in Commands, byDMA \in BOOLEAN : Command(command, byDMA)
  \/ \E w \in Data \cup {Padding} : WriteWord(w) \/ InputWord(w)
  \/ \E clocks \in Clocks : MDEC_Update(clocks)

\* MDEC_Update is an event of the machine (DMA_Update), DMA goes on, and the game goes on with
\* its command.
MDEC_Spec ==
  /\ MDEC_Init /\ [][MDEC_Next]_mdecVars
  /\ WF_mdecVars(Resume) /\ WF_mdecVars(\E clocks \in Clocks : MDEC_Update(clocks))
  /\ WF_mdecVars(Supplies) /\ WF_mdecVars(Takes)

------------------------------------------------------------------------------
(* Properties.                                                              *)

MDEC_TypeOK ==
  /\ mdec.phase \in {"command", "begin", "word", "eat", "give"}
  /\ mdec.ClockCounter <= MaxClock /\ mdec.InCounter \in 0..Spent
  /\ Len(mdec.InFIFO) <= Size /\ Len(mdec.OutFIFO) <= Size
  /\ mdec.CoeffIndex \in 0..(Coeffs - 1) /\ mdec.DecodeWB \in 0..5

\* A channel that has begun a block can end it: there is room in the decoder, or there are
\* words, for all that is left of it, whatever the decoder does between its words
\* (mdec.cpp:19: MDEC_READ_FIFO vs InCounter vs MDEC_DMACanRead() is a bit fragile).
BlocksFit ==
  /\ in.WordCounter <= Size - Len(mdec.InFIFO)
  /\ out.WordCounter <= Len(mdec.OutFIFO)

\* Where the k-th word of a picture belongs: DMA puts four blocks of a colour picture
\* together to a square, everything else follows as it is decoded.
PictureAt(k) ==
  LET width == Width[game.command.depth]
      words == Rows * width
      block  == (k \div words) % 4
      inside == k % words
  IN IF ~out.on \/ game.command.depth < 2 THEN k
     ELSE (k - (k % (4 * words))) + 2 * words * (block \div 2) + width * (block % 2)
            + 2 * width * (inside \div width) + (inside % width)

\* Every word of every luminance block is stored, once, and where it belongs, however the
\* words of the input cut the blocks, the output waits for room and the clock for time.
PictureIsWhole ==
  LET words == Rows * Width[game.command.depth]
  IN game.at = "busy" =>
       picture = {[place |-> PictureAt(k), word |-> [block |-> k \div words, at |-> k % words]]
                    : k \in 0..(game.moved - 1)}

\* A command ends, though the decoder waits for words and for room, the input for an empty
\* FIFO and the output for a full one.
CommandsEnd == mdec.InCommand ~> ~mdec.InCommand
==============================================================================

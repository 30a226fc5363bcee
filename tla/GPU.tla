---------------------------------- MODULE GPU ----------------------------------
(***************************************************************************)
(* The graphics processor of gpu.cpp as far as it keeps count: the queue   *)
(* of command words, the commands that take their words in several parts,  *)
(* the drawing time that makes them wait, and the scanlines (Beam).  What  *)
(* is drawn is data.                                                       *)
(*                                                                         *)
(* The game, or its DMA channel, asks for room before each block of words, *)
(* as ChCan of dma.cpp does.  A word is the command it was written for and *)
(* its place there.                                                        *)
(***************************************************************************)
EXTENDS Beam, Sequences, FiniteSets

CONSTANTS
  Room,       \* words in the queue of a real GPU, and in a block (0x10)
  Wide, High, \* what a width and a height of zero stand for (0x400, 0x200)
  MaxTime,    \* the drawing time it can have in hand (256)
  GP0Commands, \* bound: the commands the game gives
  Costs,      \* bound: what drawing takes
  GPUClocks,  \* bound: what an Update brings
  Default,    \* the display after a reset
  Settings,   \* bound: how the game sets up the display
  Games       \* bound: a game that "draws" within a line, one that "shows" without drawing

Families == {"null", "mode", "irq", "fill", "copy", "upload", "readback", "polygon", "sprite", "line"}
CommandSet == [family : Families, shaded : BOOLEAN, textured : BOOLEAN,
               more : Nat,             \* 1 of a quad and of a sprite that tells its size, the lines of a polyline
               width : Nat, height : Nat]

ASSUME GPUAssumption ==
  /\ {Room, Wide, High, MaxTime} \subseteq Nat \ {0}
  /\ GP0Commands \subseteq CommandSet /\ Costs \subseteq Nat \ {0} /\ GPUClocks \subseteq Nat \ {0}
  /\ \A c \in GP0Commands : c.family \in {"polygon", "sprite"} => c.more <= 1
  /\ {Default} \cup Settings \subseteq Displays /\ Games \subseteq {"draws", "shows"}

VARIABLES
  gpu,      \* fifo (BlitterFIFO), InCmd, InCmd_CC, left (pixels of an image), time (DrawTimeAvail), IRQPending
  beam,     \* the scanlines
  display,  \* the registers that time them
  frame,    \* does the CPU run a frame, or is it about to leave the loop (PSX_RequestMLExit)
  sender,   \* what it does, the word it wrote last, the words the room it saw is good for
  parsed    \* history: the word that was taken last, and whether any was taken for another

gpuVars == <<gpu, beam, display, frame, sender, parsed>>

------------------------------------------------------------------------------
(* The table of commands and their words.                                   *)

Bit(b) == IF b THEN 1 ELSE 0

\* A command without effect.  To have written or taken nothing yet is like having just ended one.
Null == [family |-> "null", shaded |-> FALSE, textured |-> FALSE, more |-> 0, width |-> 0, height |-> 0]
Nothing == [of |-> Null, n |-> 1]

\* The words of a command that are taken together, the words from which on the queue is said
\* to be full, and whether it is done without drawing time.
Entry(c) ==
  CASE c.family = "null"  -> [len |-> 1, fifo_fb_len |-> 1, ss_cmd |-> TRUE]
    [] c.family = "mode"  -> [len |-> 1, fifo_fb_len |-> 2, ss_cmd |-> FALSE]
    [] c.family = "irq"   -> [len |-> 1, fifo_fb_len |-> 1, ss_cmd |-> FALSE]
    [] c.family = "fill"  -> [len |-> 3, fifo_fb_len |-> 3, ss_cmd |-> FALSE]
    [] c.family = "copy"  -> [len |-> 4, fifo_fb_len |-> 2, ss_cmd |-> FALSE]
    [] c.family \in {"upload", "readback"} -> [len |-> 3, fifo_fb_len |-> 2, ss_cmd |-> FALSE]
    [] c.family = "polygon" ->
         [len |-> 1 + 3 * (1 + Bit(c.textured) + Bit(c.shaded)) - Bit(c.shaded),
          fifo_fb_len |-> 1, ss_cmd |-> FALSE]
    [] c.family = "sprite" ->
         [len |-> 2 + Bit(c.textured) + c.more,
          fifo_fb_len |-> IF c.textured \/ c.more = 1 THEN 3 ELSE 2, ss_cmd |-> FALSE]
    [] c.family = "line" -> [len |-> 3 + Bit(c.shaded), fifo_fb_len |-> 1, ss_cmd |-> FALSE]

\* The words of the fourth corner of a quad, and of another point of a polyline.
CornerLen(c) == 1 + Bit(c.textured) + Bit(c.shaded)
PointLen(c) == 1 + Bit(c.shaded)

\* The pixels of an image.  A height read back is taken modulo High only above it, so 0 is none.
WidthOf(c) == IF c.width = 0 THEN Wide ELSE c.width
Pixels(c) ==
  CASE c.family = "upload" -> WidthOf(c) * (IF c.height % High = 0 THEN High ELSE c.height % High)
    [] c.family = "readback" -> WidthOf(c) * (IF c.height > High THEN c.height % High ELSE c.height)
    [] c.family \notin {"upload", "readback"} -> 0

\* All words that a game writes for a command, and what each is there for.
IsPolyline(c) == c.family = "line" /\ c.more > 0
Total(c) ==
  CASE c.family = "polygon" -> Entry(c).len + c.more * CornerLen(c)
    [] c.family = "upload"  -> Entry(c).len + (Pixels(c) + 1) \div 2
    [] c.family = "line"    -> Entry(c).len + (IF IsPolyline(c) THEN (c.more - 1) * PointLen(c) + 1 ELSE 0)
    [] c.family \notin {"polygon", "upload", "line"} -> Entry(c).len
IsEnd(w) == IsPolyline(w.of) /\ w.n = Total(w.of)  \* 0x50005000
IsLast(w) == w.n = Total(w.of)
IsNext(w, v) == IF IsLast(w) THEN v.n = 1 ELSE v.of = w.of /\ v.n = w.n + 1
Ended(w) == IF IsLast(w) THEN Nothing ELSE w
WordAfter(w) == [of |-> w.of, n |-> w.n + 1]

\* A word that is no first word of a command has no command's number.
CommandOf(w) == IF w.n = 1 THEN w.of ELSE Null

------------------------------------------------------------------------------
(* The queue.                                                               *)

Take(g, n) == [g EXCEPT !.fifo = SubSeq(@, n + 1, Len(@))]
Draw(g, cost) == [g EXCEPT !.time = @ - cost]

Execute(g, c) ==
  CASE c.family = "irq" -> [g EXCEPT !.IRQPending = TRUE]
    [] c.family = "upload" -> [g EXCEPT !.InCmd = "FBWRITE", !.left = Pixels(c)]
    [] c.family = "readback" /\ Pixels(c) > 0 -> [g EXCEPT !.InCmd = "FBREAD", !.left = Pixels(c)]
    [] c.family = "polygon" /\ c.more > 0 -> [g EXCEPT !.InCmd = "QUAD", !.InCmd_CC = c]
    [] IsPolyline(c) -> [g EXCEPT !.InCmd = "PLINE", !.InCmd_CC = c]
    [] OTHER -> g

\* Two pixels of an image, or its last one.
MovePixels(g) ==
  IF g.left <= 2 THEN [g EXCEPT !.left = 0, !.InCmd = "NONE"] ELSE [g EXCEPT !.left = @ - 2]

StartCommand(g, cost) ==
  LET c     == CommandOf(Head(g.fifo))
      entry == Entry(c)
  IN IF (g.time < 0 /\ ~entry.ss_cmd) \/ Len(g.fifo) < entry.len THEN g
     ELSE Execute(Draw(Take(g, entry.len), IF entry.ss_cmd THEN 0 ELSE cost), c)

EndQuad(g, cost) ==
  IF g.time < 0 \/ Len(g.fifo) < CornerLen(g.InCmd_CC) THEN g
  ELSE [Draw(Take(g, CornerLen(g.InCmd_CC)), cost) EXCEPT !.InCmd = "NONE"]

NextPoint(g, cost) ==
  IF g.time < 0 THEN g
  ELSE IF IsEnd(Head(g.fifo)) THEN [Take(g, 1) EXCEPT !.InCmd = "NONE"]
  ELSE IF Len(g.fifo) < PointLen(g.InCmd_CC) THEN g
  ELSE Draw(Take(g, PointLen(g.InCmd_CC)), cost)

\* One part of one command, if its words are there and it may be drawn.
ProcessFIFO(g, cost) ==
  CASE g.fifo = <<>> \/ g.InCmd = "FBREAD"     -> g
    [] g.fifo # <<>> /\ g.InCmd = "FBWRITE" -> MovePixels(Take(g, 1))
    [] g.fifo # <<>> /\ g.InCmd = "QUAD"    -> EndQuad(g, cost)
    [] g.fifo # <<>> /\ g.InCmd = "PLINE"   -> NextPoint(g, cost)
    [] g.fifo # <<>> /\ g.InCmd = "NONE"    -> StartCommand(g, cost)

\* A block that began when there was room may put its words behind those that were there.
\* (Mutant: it does not know how many those were.)
Overflows_Full(g) == Len(g.fifo) >= Room
Overflows(g) ==
  /\ Len(g.fifo) >= Room
  /\ g.InCmd # "NONE" \/ Len(g.fifo) - Room >= Entry(CommandOf(Head(g.fifo))).fifo_fb_len
WriteCB(g, w, cost) ==
  IF Overflows(g) THEN g ELSE ProcessFIFO([g EXCEPT !.fifo = Append(@, w)], cost)

CalcFIFOReadyBit(g) ==
  /\ g.InCmd \notin {"PLINE", "QUAD"}
  /\ g.fifo # <<>> => /\ g.InCmd = "NONE"
                      /\ Len(g.fifo) < Entry(CommandOf(Head(g.fifo))).fifo_fb_len

Flush(g) == [g EXCEPT !.fifo = <<>>, !.InCmd = "NONE", !.time = IF @ < 0 THEN 0 ELSE @]

------------------------------------------------------------------------------
(* The history: were the words g gave up the next ones, and taken for what they are?  *)

Fits(g, words) ==
  CASE g.InCmd = "NONE"    -> words[1].n = 1 /\ Len(words) = Entry(words[1].of).len
    [] g.InCmd = "FBWRITE" -> words[1].of.family = "upload" /\ words[1].n > Entry(words[1].of).len
    [] g.InCmd \in {"QUAD", "PLINE"} -> words[1].of = g.InCmd_CC /\ words[1].n > Entry(g.InCmd_CC).len
    [] g.InCmd = "FBREAD"  -> FALSE
Watch(g, given, after) ==
  LET queue == g.fifo \o given
      words == SubSeq(queue, 1, Len(queue) - Len(after.fifo))
  IN parsed' =
       IF words = <<>> THEN parsed
       ELSE [last  |-> Ended(words[Len(words)]),
             mixed |-> \/ parsed.mixed \/ ~Fits(g, words)
                       \/ \E i \in 1..Len(words) :
                            ~IsNext(IF i = 1 THEN parsed.last ELSE words[i - 1], words[i])]
Forget == parsed' = [parsed EXCEPT !.last = Nothing]

------------------------------------------------------------------------------
(* The game, or the channel that reads its list.                            *)

\* A block may end after n words of a command: where the queue still counts as having room, and
\* between the words of an image.  Anywhere else the sender would wait for ever.
MayPause(c, n) == n = Total(c) \/ n < Entry(c).fifo_fb_len \/ (c.family = "upload" /\ n >= Entry(c).len)

BeginBlock ==
  /\ sender.does = "draws" /\ sender.room = 0 /\ CalcFIFOReadyBit(gpu)
  /\ sender' = [sender EXCEPT !.room = Room]
  /\ UNCHANGED <<gpu, beam, display, frame, parsed>>
EndBlock ==
  /\ sender.room > 0 /\ MayPause(sender.wrote.of, sender.wrote.n)
  /\ sender' = [sender EXCEPT !.room = 0]
  /\ UNCHANGED <<gpu, beam, display, frame, parsed>>

\* Write to GP0, WriteDMA: one word.
Send(w) ==
  /\ sender.room > 0
  /\ \E cost \in Costs :
       /\ gpu' = WriteCB(gpu, w, cost)
       /\ Watch(gpu, IF Overflows(gpu) THEN <<>> ELSE <<w>>, gpu')
  /\ sender' = [sender EXCEPT !.room = @ - 1, !.wrote = Ended(w)]
  /\ UNCHANGED <<beam, display, frame>>
SendFirst ==
  /\ IsLast(sender.wrote)
  /\ \E c \in GP0Commands :
       /\ Total(c) <= sender.room \/ MayPause(c, sender.room)
       /\ Send([of |-> c, n |-> 1])
SendNext == ~IsLast(sender.wrote) /\ Send(WordAfter(sender.wrote))

\* ReadData, of GP0 and of DMA: the game reads the image it asked for.
GPU_ReadData ==
  /\ gpu.InCmd = "FBREAD"
  /\ gpu' = MovePixels(gpu)
  /\ UNCHANGED <<beam, display, frame, sender, parsed>>

\* Writes to GP1.  The game begins anew with its commands.
StartsOver == sender' = [sender EXCEPT !.room = 0, !.wrote = Nothing]
SoftReset ==
  /\ gpu' = [Flush(gpu) EXCEPT !.IRQPending = FALSE]
  /\ display' = Default
  /\ StartsOver /\ Forget /\ UNCHANGED <<beam, frame>>
ResetBuffer ==
  /\ sender.does = "draws" /\ gpu' = Flush(gpu)
  /\ StartsOver /\ Forget /\ UNCHANGED <<beam, display, frame>>
AckIRQ ==
  /\ gpu.IRQPending /\ gpu' = [gpu EXCEPT !.IRQPending = FALSE]
  /\ UNCHANGED <<beam, display, frame, sender, parsed>>
SetDisplay ==
  /\ sender.does = "shows" /\ display' \in Settings
  /\ UNCHANGED <<gpu, beam, frame, sender, parsed>>

------------------------------------------------------------------------------
(* Time and frames.                                                         *)

TimeAfter(t, clocks) == IF t + 2 * clocks > MaxTime THEN MaxTime ELSE t + 2 * clocks

\* An Update passes at most two ends of half lines: it spans 128 clocks, the shorter half takes
\* 200 of the GPU's.  Once the frame is to end it only passes what an instruction took.
Passes(halves) ==
  /\ sender.does = "draws" \/ frame = "ending" => halves = 0
  /\ LET one == HalfLine(beam, display)
         two == HalfLine(one, display)
         exit == (halves > 0 /\ ExitsAt(beam, display)) \/ (halves > 1 /\ ExitsAt(one, display))
     IN /\ beam' = (CASE halves = 0 -> beam [] halves = 1 -> one [] halves = 2 -> two)
        /\ frame' = IF exit THEN "ending" ELSE frame

\* (Mutant: drawing time alone does not take up the commands that waited for it.)
GPU_Update_TimeOnly ==
  /\ \E clocks \in GPUClocks :
       gpu' = [gpu EXCEPT !.time = TimeAfter(@, clocks)] /\ UNCHANGED parsed
  /\ \E halves \in 0..2 : Passes(halves)
  /\ UNCHANGED <<display, sender>>
GPU_Update ==
  /\ \E clocks \in GPUClocks, cost \in Costs :
       LET timed == [gpu EXCEPT !.time = TimeAfter(@, clocks)]
       IN gpu' = ProcessFIFO(timed, cost) /\ Watch(timed, <<>>, gpu')
  /\ \E halves \in 0..2 : Passes(halves)
  /\ UNCHANGED <<display, sender>>

\* retro_run returns, and begins the next frame: StartFrame.
StartFrame ==
  /\ frame = "ending" /\ frame' = "running"
  /\ beam' = [beam EXCEPT !.reached = FALSE]
  /\ UNCHANGED <<gpu, display, sender, parsed>>

PoweredGPU == [fifo |-> <<>>, InCmd |-> "NONE", InCmd_CC |-> Null, left |-> 0, time |-> 0, IRQPending |-> FALSE]
PoweredBeam(b) == [b EXCEPT !.linephase = 0, !.scanline = 0, !.lines = LinesNTSC, !.field = 0, !.invblank = TRUE]

\* The console's reset button, between two frames.
GPU_Power ==
  /\ frame = "ending"
  /\ gpu' = [PoweredGPU EXCEPT !.InCmd_CC = gpu.InCmd_CC]
  /\ beam' = PoweredBeam(beam) /\ display' = Default
  /\ StartsOver /\ Forget /\ UNCHANGED frame

GPU_Init ==
  /\ gpu = PoweredGPU
  /\ beam = PoweredBeam([linephase |-> 0, scanline |-> 0, lines |-> LinesNTSC, field |-> 0, invblank |-> TRUE,
                         reached |-> FALSE, failed |-> FALSE])
  /\ display = Default /\ frame = "running"
  /\ sender \in [does : Games, room : {0}, wrote : {Nothing}]
  /\ parsed = [last |-> Nothing, mixed |-> FALSE]

GPU_Next ==
  \/ BeginBlock \/ EndBlock \/ SendFirst \/ SendNext \/ GPU_ReadData
  \/ SoftReset \/ ResetBuffer \/ AckIRQ \/ SetDisplay
  \/ GPU_Update \/ StartFrame \/ GPU_Power

\* The GPU is brought up to date at least every 128 clocks; a game goes on with the command it
\* has begun while there is room, and reads the image it asked for.
GPU_Fairness == WF_gpuVars(GPU_Update) /\ WF_gpuVars(SendNext) /\ WF_gpuVars(GPU_ReadData)
GPU_Spec == GPU_Init /\ [][GPU_Next]_gpuVars /\ GPU_Fairness

------------------------------------------------------------------------------
(* Properties.                                                              *)

Words == [of : GP0Commands \cup {Null}, n : Nat \ {0}]
GPU_TypeOK ==
  /\ gpu \in [fifo : Seq(Words), InCmd : {"NONE", "FBREAD", "FBWRITE", "QUAD", "PLINE"},
              InCmd_CC : GP0Commands \cup {Null}, left : Nat, time : Int, IRQPending : BOOLEAN]
  /\ gpu.time <= MaxTime
  /\ beam \in Beams /\ display \in Displays /\ frame \in {"running", "ending"}
  /\ sender \in [does : Games, room : 0..Room, wrote : Words]
  /\ parsed \in [last : Words, mixed : BOOLEAN]

\* Every command is given its own words, all of them and in order, and a part of one only what
\* belongs to it: no word is dropped by the full queue although there was room when its block
\* began, and none is left of a command that ended, was split over updates or was reset
\* (WriteCB, ProcessFIFO, CalcFIFOReadyBit).
CommandsKeepTheirWords == ~parsed.mixed

\* The queue always comes to have room again, so DMA and games that wait for it are served:
\* also after the last word of a block nothing stays behind that waits for another write
\* (ProcessFIFO does one command per call).
SenderIsServed == []<>CalcFIFOReadyBit(gpu)

\* Between two first lines the frame ends, whatever the game sets up meanwhile: the assertion
\* at line 0 holds, and retro_run returns once in a field.
EachFrameIsAField == ~beam.failed
==============================================================================

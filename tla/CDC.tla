--------------------------------- MODULE CDC ---------------------------------
(***************************************************************************)
(* The CD-ROM controller (mednafen/psx/cdc.cpp): commands and their        *)
(* arguments, the drive, the sectors that pass through its pipe, and the   *)
(* notifications it sends when the game has acknowledged the last one.     *)
(*                                                                         *)
(* Every counter of the code is TRUE while it runs and may end at any      *)
(* time, so that each timing of the code, in any order of the ends, is a   *)
(* behaviour: the controller must be right whatever its delays are. Bytes  *)
(* are left out: an argument stands for all the bytes of a command, the    *)
(* results, volumes, samples and error correction are not here, and the    *)
(* DMA buffer is DMA's. All discs have the same tracks.                    *)
(***************************************************************************)
EXTENDS Integers, Sequences

CONSTANTS
  CDs,          \* those that are inserted
  PSXDiscs,     \* of them, those whose licence string was found
  Leadout,      \* toc.tracks[100].lba
  TooFar,       \* where the drive gives up: 300 sectors further, at least
  FirstTrack, LastTrack,
  Start,        \* the first sector of each track
  AudioTracks,  \* tracks without the data bit of subchannel Q
  XA,           \* sectors that hold sound for the SPU
  BadQ,         \* sectors with an unreadable subchannel Q
  Winding,      \* 12, the sectors skipped in Forward and Backward
  MaxRetries,   \* 128, of a logical seek
  Names,        \* the commands the game uses
  Arguments,    \* what it writes as arguments: numbers
  LocOf,        \* the position one means for Setloc, if valid
  ModeOf,       \* the mode bits one means for Setmode
  MaxArgs,      \* bound: arguments that wait in the FIFO, and that a command is given
  Hasty         \* bound: those with which it interrupts commands that are not answered

AA == 170                         \* the "track" of the lead-out
NoMatch == -1
Pipe_Count == 2                   \* SectorPipe_Count
PauseBack == 4                    \* sectors that Pause goes back, at most

DATA_READY == 1
COMPLETE == 2
ACKNOWLEDGE == 3
DATA_END == 4
DISC_ERROR == 5

ModeBits == {"cdda", "autopause", "report", "strsnd"}
Tracks == FirstTrack..LastTrack

ASSUME CDCAssumption ==
  /\ PSXDiscs \subseteq CDs /\ Leadout \in Nat /\ TooFar \in Nat /\ TooFar >= Leadout
  /\ FirstTrack \in 1..99 /\ LastTrack \in FirstTrack..99
  /\ Start \in [Tracks -> 0..Leadout] /\ AudioTracks \subseteq Tracks
  /\ XA \subseteq Int /\ BadQ \subseteq Int /\ Winding \in Nat /\ MaxRetries \in Nat
  /\ \A v \in DOMAIN LocOf : LocOf[v] \in Int
  /\ Arguments \subseteq Int /\ MaxArgs \in 0..16 /\ Hasty \subseteq Names

VARIABLES
  cd,       \* the state of PS_CDC
  given,    \* the arguments the command in preparation is to get
  owed,     \* which answer of a command the game waits for: "no", "first", "second"
  stream,   \* what the game may expect of the sectors to come, if anything
  quiet     \* a command that ends reading was acknowledged, and none that begins it

cdcVars == <<cd, given, owed, stream, quiet>>

---------------------------------------------------------------------------
(* Subchannel Q, and what is known of the disc from it. *)

TrackAt(s) == IF s >= Leadout THEN AA
              ELSE CHOOSE t \in Tracks : /\ Start[t] <= s \/ t = FirstTrack
                                         /\ \A u \in Tracks : u > t => s < Start[u]
Q(s) == [track |-> TrackAt(s), data |-> (IF s >= Leadout THEN LastTrack ELSE TrackAt(s)) \notin AudioTracks]
NoQ == [track |-> 0, data |-> FALSE]

DecodeSubQ(c, s) == [c EXCEPT !.SubQ = IF s \in BadQ THEN @ ELSE Q(s), !.SubQChecksumOK = s \notin BadQ]

\* The first sector with a readable Q of those in the order of tries, the last if there is none.
Readable(c, tries) ==
  LET good == {i \in DOMAIN tries : tries[i] \notin BadQ} IN
  DecodeSubQ(c, IF good = {} THEN tries[Len(tries)] ELSE tries[CHOOSE i \in good : \A j \in good : i <= j])

Present(c) == c.disc # {} /\ ~c.DiscStartupDelay
IsPSXDisc(c) == c.disc # {} /\ c.disc \subseteq PSXDiscs
Moves(c) == c.DriveStatus \in {"SEEKING", "SEEKING_LOGICAL", "READING", "PLAYING"}

---------------------------------------------------------------------------
(* Interrupts and notifications. AIP is AsyncIRQPending. *)

WriteIRQ(c, v) == [c EXCEPT !.failed = @ \/ c.CDCReady \/ c.IRQ # 0, !.CDCReady = TRUE, !.IRQ = v]

ClearAIP(c) == [c EXCEPT !.AIP = 0]

\* Mutant: a notification does not wait for the last one to be acknowledged.
CheckAIP_Now(c) == IF c.AIP # 0 /\ c.IRQ # ACKNOWLEDGE THEN ClearAIP(WriteIRQ(c, c.AIP)) ELSE c
CheckAIP(c) == IF c.AIP # 0 /\ ~c.CDCReady THEN ClearAIP(WriteIRQ(c, c.AIP)) ELSE c

SetAIP(c, irq) == CheckAIP([c EXCEPT !.AIP = irq])

NoSectors(c) == [c EXCEPT !.SectorPipe = <<>>, !.SectorsRead = 0]

\* Mutant: the drive goes on without a disc.
DMForceStop_Running(c) ==
  LET stops == c.DriveStatus \notin {"PAUSED", "STOPPED"} \/ c.Phase >= 2
  IN NoSectors(ClearAIP([c EXCEPT !.PSR = FALSE, !.HeaderBufValid = FALSE,
                                  !.Command = IF stops THEN "none" ELSE @, !.Phase = IF stops THEN 0 ELSE @,
                                  !.Counter = @ /\ ~stops]))

DMForceStop(c) ==
  LET stops == c.DriveStatus \notin {"PAUSED", "STOPPED"} \/ c.Phase >= 2
  IN NoSectors(ClearAIP([c EXCEPT !.PSR = FALSE, !.HeaderBufValid = FALSE, !.DriveStatus = "STOPPED",
                                  !.Command = IF stops THEN "none" ELSE @, !.Phase = IF stops THEN 0 ELSE @,
                                  !.Counter = @ /\ ~stops]))

SetDisc(c, disc) ==
  IF disc = {} THEN DMForceStop([c EXCEPT !.disc = disc])
  ELSE [c EXCEPT !.disc = disc, !.HeaderBufValid = FALSE, !.DiscStartupDelay = TRUE]

---------------------------------------------------------------------------
(* The drive. *)

Notified(c) == c.SubQ.data /\ ~("strsnd" \in c.Mode /\ Head(c.SectorPipe) \in XA)

\* The oldest sector leaves the pipe: to the game, to the sound, or to nowhere.
Delivered(c) ==
  IF c.DriveStatus # "READING" \/ ~c.SubQ.data THEN c
  ELSE IF ~Notified(c) THEN [c EXCEPT !.HeaderBufValid = TRUE]
  ELSE SetAIP([c EXCEPT !.HeaderBufValid = TRUE], DATA_READY)

Pops(c) == Len(c.SectorPipe) >= Pipe_Count

Advanced(c) ==
  [c EXCEPT !.SectorPipe = Append(IF Pops(c) THEN Tail(@) ELSE @, c.CurSector),
            !.PSR = TRUE, !.SectorsRead = IF @ < PauseBack THEN @ + 1 ELSE @,
            !.CurSector = IF c.DriveStatus # "PLAYING" \/ (~c.Forward /\ ~c.Backward) THEN @ + 1
                          ELSE IF c.Forward THEN @ + Winding
                          ELSE IF @ < Winding THEN 0 ELSE @ - Winding]

LeadsOut(c) == c.SubQ.track = AA /\ (c.DriveStatus = "PLAYING" \/ (~c.SubQ.data /\ "cdda" \in c.Mode))

Matched(c) == [c EXCEPT !.PlayTrackMatch = IF c.DriveStatus = "PLAYING" /\ @ = NoMatch /\ c.SubQChecksumOK
                                           THEN c.SubQ.track ELSE @]
AutoPauses(c) == /\ c.DriveStatus = "PLAYING" /\ "autopause" \in c.Mode
                 /\ c.PlayTrackMatch # NoMatch /\ c.SubQ.track # c.PlayTrackMatch
Reports(c, due) == c.DriveStatus = "PLAYING" /\ "report" \in c.Mode /\ due /\ c.SubQChecksumOK

\* One sector is read; due: it is one of those that a report is made of.
HandlePlayRead(c, due) ==
  IF c.CurSector >= TooFar THEN NoSectors([c EXCEPT !.DriveStatus = "STOPPED"])
  ELSE LET read == DecodeSubQ(c, c.CurSector)
           matched == Matched(read)
           reported == IF Reports(matched, due) THEN SetAIP(matched, DATA_READY) ELSE matched
       IN IF LeadsOut(read)
          THEN SetAIP(NoSectors([read EXCEPT !.HeaderBufValid = FALSE, !.DriveStatus = "PAUSED"]), DATA_END)
          ELSE IF AutoPauses(matched)
          THEN NoSectors([SetAIP(matched, DATA_END) EXCEPT !.DriveStatus = "PAUSED", !.PSR = FALSE])
          ELSE Advanced(IF Pops(reported) THEN Delivered(reported) ELSE reported)

Arrived(c) == [c EXCEPT !.DriveStatus = c.StatusAfterSeek, !.PSR = c.StatusAfterSeek \notin {"PAUSED", "STANDBY"}]

SeekEnds(c) ==
  LET there == [c EXCEPT !.CurSector = c.SeekTarget] IN
  Arrived(Readable(there, [i \in 1..16 |-> c.SeekTarget - i]))

LogicalSeekEnds(c) ==
  LET there == DecodeSubQ([c EXCEPT !.CurSector = c.SeekTarget], c.SeekTarget) IN
  IF "cdda" \in c.Mode \/ there.SubQ.data THEN Arrived(there)
  ELSE IF there.SeekRetryCounter > 0 THEN [there EXCEPT !.SeekRetryCounter = @ - 1, !.PSR = TRUE]
  ELSE SetAIP([there EXCEPT !.DriveStatus = "STANDBY"], DISC_ERROR)

\* The notification is given now or, ClearAIP, never.
ResetEnds(c) ==
  ClearAIP(NoSectors([SetAIP(c, COMPLETE) EXCEPT !.Mode = {}, !.CurSector = 0, !.CommandLoc = 0,
                                                 !.DriveStatus = "PAUSED"]))

\* PSRCounter has ended.
DriveSteps(c, due) ==
  LET ended == [c EXCEPT !.PSR = FALSE] IN
  CASE c.DriveStatus = "RESETTING" -> ResetEnds(ended)
    [] c.DriveStatus = "SEEKING" -> SeekEnds(ended)
    [] c.DriveStatus = "SEEKING_LOGICAL" -> LogicalSeekEnds(ended)
    [] c.DriveStatus \in {"READING", "PLAYING"} -> HandlePlayRead(ended, due)
    [] OTHER -> ended

---------------------------------------------------------------------------
(* The commands: first parts get the arguments, second parts come later. A *)
(* part that returns a time to its successor lets Counter run.             *)

Ack(c) == WriteIRQ(c, ACKNOWLEDGE)
Error(c) == WriteIRQ(c, DISC_ERROR)
Later(c) == [c EXCEPT !.Counter = TRUE]

Command_Setloc(c, v) == IF v \in DOMAIN LocOf THEN Ack([c EXCEPT !.CommandLoc = LocOf[v], !.Dirty = TRUE]) ELSE Error(c)

\* The beginning of a seek, with PreSeekHack: the position is the target at once.
Seek(c, target, how, then) ==
  Readable([c EXCEPT !.SeekTarget = target, !.CurSector = target, !.SeekRetryCounter = MaxRetries, !.PSR = TRUE,
                     !.HeaderBufValid = FALSE, !.DriveStatus = how, !.StatusAfterSeek = then],
           [i \in 1..32 |-> target + i - 1])

Wanted(c) == IF c.Dirty THEN c.CommandLoc ELSE c.CurSector

Clamped(t) == IF t < FirstTrack THEN FirstTrack ELSE IF t > LastTrack THEN LastTrack ELSE t

Command_Play(c, args) ==
  LET a == [Ack(ClearAIP(c)) EXCEPT !.Forward = FALSE, !.Backward = FALSE]
      byTrack == args # <<>> /\ args[1] # 0
      b == IF byTrack
           THEN Seek([NoSectors(a) EXCEPT !.PlayTrackMatch = Clamped(args[1])], Start[Clamped(args[1])], "SEEKING", "PLAYING")
           ELSE IF c.Dirty \/ c.DriveStatus # "PLAYING"
           THEN Seek([NoSectors(a) EXCEPT !.PlayTrackMatch = NoMatch], Wanted(c), "SEEKING", "PLAYING")
           ELSE a
  IN [b EXCEPT !.Dirty = FALSE]

\* A read that is on its way there already goes on.
SeeksIt(c) == c.DriveStatus = "SEEKING_LOGICAL" /\ c.SeekTarget = c.CommandLoc /\ c.StatusAfterSeek = "READING"

ReadBase(c) ==
  LET a == Ack(c)
      b == IF ~SeeksIt(c) /\ (c.Dirty \/ c.DriveStatus # "READING")
           THEN Seek(NoSectors(ClearAIP(a)), Wanted(c), "SEEKING_LOGICAL", "READING") ELSE a
  IN IF IsPSXDisc(c) THEN [b EXCEPT !.Dirty = FALSE] ELSE Error(c)

Command_Stop(c) ==
  IF c.DriveStatus = "STOPPED" THEN Later(Ack(c))
  ELSE Later([NoSectors(ClearAIP(Ack(c))) EXCEPT !.DriveStatus = "STOPPED", !.HeaderBufValid = FALSE])

Command_Standby(c) ==
  IF c.DriveStatus # "STOPPED" THEN Error(c)
  ELSE Later([NoSectors(ClearAIP(Ack(c))) EXCEPT !.DriveStatus = "STANDBY"])

\* Mutant: the sectors in the pipe are forgotten.
Command_Pause_Forward(c) ==
  IF c.DriveStatus \in {"PAUSED", "STOPPED"} THEN Later(Ack(c))
  ELSE Later([NoSectors(ClearAIP(Ack(c))) EXCEPT !.DriveStatus = "PAUSED"])

\* Mutant: the drive pauses when the command ends, not when it begins.
Command_Pause_Late(c) ==
  IF c.DriveStatus \in {"PAUSED", "STOPPED"} THEN Later(Ack(c))
  ELSE Later([NoSectors(ClearAIP(Ack(c))) EXCEPT !.CurSector = @ - c.SectorsRead])

Command_Pause(c) ==
  IF c.DriveStatus \in {"PAUSED", "STOPPED"} THEN Later(Ack(c))
  ELSE Later([NoSectors(ClearAIP(Ack(c))) EXCEPT !.DriveStatus = "PAUSED", !.CurSector = @ - c.SectorsRead])

Command_Reset(c) ==
  IF c.DriveStatus = "RESETTING" THEN Ack(c)
  ELSE [Ack(c) EXCEPT !.HeaderBufValid = FALSE, !.DriveStatus = "RESETTING", !.PSR = TRUE]

Command_GetTD(c, v) == IF v \in Tracks \cup {0} THEN Ack(c) ELSE Error(c)

Command_Seek(c, how) == Later(ClearAIP(Seek(Ack(c), c.CommandLoc, how, "STANDBY")))

\* The drive is not stopped first, and without a disc both parts of the test answer.
Command_ReadTOC(c) ==
  LET a == Ack([c EXCEPT !.HeaderBufValid = FALSE]) IN
  Later(IF Present(c) THEN ClearAIP([a EXCEPT !.DriveStatus = "PAUSED"]) ELSE Error(a))

\* Sub-operations 0x51 and 0x75 have results and no interrupt; many are errors.
SilentTests == {16 * 5 + 1, 16 * 7 + 5}
KnownTests == 0..5 \cup 16..26 \cup 32..37
Command_Test(c, v) == IF v \in SilentTests THEN c ELSE IF v \in KnownTests THEN Ack(c) ELSE Error(c)

NeedDisc == {"Play", "Forward", "Backward", "ReadN", "ReadS", "Stop", "Standby", "Pause", "GetlocL", "GetlocP",
             "GetTN", "GetTD", "SeekL", "SeekP", "ID"}
OneArgument == {"Setloc", "Setfilter", "Setmode", "ReadT", "GetTD", "Test", "0x1D"}
TwoParts == {"Standby", "Stop", "Pause", "ReadT", "SeekL", "SeekP", "ID", "ReadTOC"}
Known == NeedDisc \cup OneArgument \cup TwoParts \cup {"Nop", "Reset", "Mute", "Demute", "Getparam", "Init"}

ArgumentsFit(name, n) == IF name = "Play" THEN n <= 1 ELSE n = (IF name \in OneArgument THEN 1 ELSE 0)

\* The row of the table Commands, without CommandCheckDiscPresent.
Perform(c, name, args) ==
  CASE name = "Setloc" -> Command_Setloc(c, args[1])
    [] name = "Play" -> Command_Play(c, args)
    [] name = "Forward" -> [Ack(c) EXCEPT !.Backward = FALSE, !.Forward = TRUE]
    [] name = "Backward" -> [Ack(c) EXCEPT !.Backward = TRUE, !.Forward = FALSE]
    [] name \in {"ReadN", "ReadS"} -> ReadBase(c)
    [] name = "Standby" -> Command_Standby(c)
    [] name = "Stop" -> Command_Stop(c)
    [] name = "Pause" -> Command_Pause(c)
    [] name = "Reset" -> Command_Reset(c)
    [] name = "Setmode" -> Ack([c EXCEPT !.Mode = ModeOf[args[1]]])
    [] name = "GetlocL" -> IF c.HeaderBufValid THEN Ack(c) ELSE Error(c)
    [] name = "GetTD" -> Command_GetTD(c, args[1])
    [] name = "SeekL" -> Command_Seek(c, "SEEKING_LOGICAL")
    [] name = "SeekP" -> Command_Seek(c, "SEEKING")
    [] name = "Test" -> Command_Test(c, args[1])
    [] name \in {"ID", "ReadT"} -> Later(Ack(c))
    [] name = "Init" -> c
    [] name = "ReadTOC" -> Command_ReadTOC(c)
    [] OTHER -> Ack(c)

\* Phase 1: the command and its arguments are there.
Execute(c) ==
  LET b == [c EXCEPT !.Received = <<>>] IN
  IF c.Command \notin Known \/ ~ArgumentsFit(c.Command, Len(c.Received)) THEN Error(b)
  ELSE [(IF c.Command \in NeedDisc /\ ~Present(c) THEN Error(b) ELSE Perform(b, c.Command, c.Received)) EXCEPT !.Phase = 2]

\* Phase 2, for the commands with a second part.
Finish(c) ==
  CASE c.Command \in {"Stop", "Standby", "Pause"} -> WriteIRQ([c EXCEPT !.PSR = FALSE], COMPLETE)
    [] c.Command \in {"SeekL", "SeekP"} -> IF c.DriveStatus = "STANDBY" THEN WriteIRQ(c, COMPLETE) ELSE Later(c)
    [] c.Command = "ID" -> WriteIRQ(c, IF IsPSXDisc(c) THEN COMPLETE ELSE DISC_ERROR)
    [] c.Command \in {"ReadT", "ReadTOC"} -> WriteIRQ(c, COMPLETE)
    [] OTHER -> [c EXCEPT !.failed = TRUE]      \* func2 is NULL

\* Phases -1 and 0: the next argument, or on to phase 1.
Receive(c) ==
  LET b == [c EXCEPT !.Received = IF c.Phase = 0 /\ Len(@) < 32 THEN Append(@, c.Latch) ELSE @] IN
  Later(IF c.Args = <<>> THEN [b EXCEPT !.Phase = 1]
        ELSE [b EXCEPT !.Latch = Head(c.Args), !.Args = Tail(@), !.Phase = 0])

\* Mutant: a command that finds a notification unacknowledged is dropped.
CommandSteps_Dropped(c) ==
  LET due == [c EXCEPT !.Counter = FALSE] IN
  IF c.CDCReady THEN due
  ELSE CASE c.Phase >= 2 -> Finish(due) [] c.Phase = 1 -> Execute(due) [] OTHER -> Receive(due)

\* PendingCommandCounter has ended: it begins again while the last interrupt is not settled.
CommandSteps(c) ==
  LET due == [c EXCEPT !.Counter = FALSE] IN
  IF c.CDCReady THEN c
  ELSE CASE c.Phase >= 2 -> Finish(due) [] c.Phase = 1 -> Execute(due) [] OTHER -> Receive(due)

---------------------------------------------------------------------------
(* Init and the registers. *)

SoftReset(c) ==
  NoSectors(ClearAIP(
    [c EXCEPT !.Args = <<>>, !.CDCReady = FALSE, !.IRQ = 0, !.SubQ = NoQ, !.SubQChecksumOK = FALSE,
              !.Command = "none", !.Phase = 0, !.Counter = FALSE, !.Mode = {}, !.HeaderBufValid = FALSE,
              !.DriveStatus = "STOPPED", !.StatusAfterSeek = "STOPPED", !.SeekRetryCounter = 0,
              !.Forward = FALSE, !.Backward = FALSE, !.PlayTrackMatch = 0, !.PSR = FALSE, !.CurSector = 0,
              !.SeekTarget = 0, !.CommandLoc = 0, !.Dirty = TRUE]))

Constructed ==
  [disc |-> {}, DiscStartupDelay |-> FALSE, DriveStatus |-> "STOPPED", StatusAfterSeek |-> "STOPPED", SeekTarget |-> 0,
   SeekRetryCounter |-> 0, CurSector |-> 0, SectorsRead |-> 0, CommandLoc |-> 0, Dirty |-> TRUE, SectorPipe |-> <<>>,
   SubQ |-> NoQ, SubQChecksumOK |-> FALSE, HeaderBufValid |-> FALSE, PlayTrackMatch |-> 0, Forward |-> FALSE,
   Backward |-> FALSE, Mode |-> {}, CDCReady |-> FALSE, IRQ |-> 0, AIP |-> 0, Command |-> "none", Phase |-> 0,
   Counter |-> FALSE, Args |-> <<>>, Latch |-> 0, Received |-> <<>>, PSR |-> FALSE, failed |-> FALSE]

\* InitCommon inserts the disc and then powers the console on.
CDC_Init ==
  /\ \E disc \in {{}} \cup {{d} : d \in CDs} :
       cd = [SoftReset(SetDisc(SetDisc(Constructed, {}), disc)) EXCEPT !.DiscStartupDelay = FALSE]
  /\ given = <<>> /\ owed = "no" /\ stream = {} /\ quiet = FALSE

Patient(c, name) == name \in Hasty \/ (c.IRQ = 0 /\ ~(c.Counter /\ c.Phase <= 1))

\* Mutant: the arguments of an interrupted command are kept for the next.
Started_Kept(c, name) == [c EXCEPT !.Command = name, !.Phase = -1, !.Counter = TRUE]
Started(c, name) == [c EXCEPT !.Command = name, !.Phase = -1, !.Counter = TRUE, !.Received = <<>>]

WriteCommand(name) ==
  /\ Patient(cd, name)
  /\ cd' = Started(cd, name)
  /\ given' = cd.Args /\ owed' = "first"
  /\ UNCHANGED <<stream, quiet>>

Receiving(c) == c.Counter /\ c.Phase < 1

WriteArgument(v) ==
  /\ Len(cd.Args) < MaxArgs /\ (Receiving(cd) => Len(given) < MaxArgs)
  /\ cd' = [cd EXCEPT !.Args = Append(@, v)]
  /\ given' = IF Receiving(cd) THEN Append(given, v) ELSE given
  /\ UNCHANGED <<owed, stream, quiet>>

\* The game acknowledges the interrupt, with all its bits (0x1f, 0x07), as games do; the code clears
\* the bits written, and one that clears only some of them would leave another interrupt behind.
Acknowledge ==
  /\ cd.IRQ # 0 /\ cd' = [cd EXCEPT !.IRQ = 0]
  /\ UNCHANGED <<given, owed, stream, quiet>>

ClearArguments ==
  /\ cd.Args # <<>> /\ cd' = [cd EXCEPT !.Args = <<>>]
  /\ given' = IF Receiving(cd) THEN SubSeq(given, 1, Len(given) - Len(cd.Args)) ELSE given
  /\ UNCHANGED <<owed, stream, quiet>>

ResetController ==
  /\ cd' = SoftReset(cd) /\ owed' = "no" /\ stream' = {} /\ quiet' = TRUE
  /\ UNCHANGED <<given>>

---------------------------------------------------------------------------
(* The ends of the counters, in Update. *)

StartupEnds ==
  /\ cd.DiscStartupDelay
  /\ cd' = CheckAIP([cd EXCEPT !.DiscStartupDelay = FALSE, !.DriveStatus = "PAUSED"])
  /\ UNCHANGED <<given, owed, stream, quiet>>

\* It counts only while no interrupt is unacknowledged.
ReadyEnds ==
  /\ cd.CDCReady /\ cd.IRQ = 0
  /\ cd' = CheckAIP([cd EXCEPT !.CDCReady = FALSE])
  /\ UNCHANGED <<given, owed, stream, quiet>>

\* What the game may expect when the drive has made a step.
StreamSteps ==
  IF cd.DriveStatus # "READING" THEN stream
  ELSE IF cd'.DriveStatus # "READING" THEN {}
  ELSE IF Pops(cd) THEN {[next |-> Head(cd.SectorPipe) + 1, slack |-> 0] : g \in stream} ELSE stream

DriveEnds(due) ==
  /\ cd.PSR /\ cd' = DriveSteps(CheckAIP(cd), due)
  /\ stream' = StreamSteps
  /\ UNCHANGED <<given, owed, quiet>>

\* What the game may expect when a command is acknowledged: a read begins at the position
\* that was set since the last one, or where that one was paused, a pipe of sectors before.
StreamAfter(name) ==
  CASE name \in {"ReadN", "ReadS"} -> IF cd.Dirty THEN {[next |-> cd.CommandLoc, slack |-> 0]}
                                      ELSE IF cd.DriveStatus = "PAUSED" THEN {[g EXCEPT !.slack = Pipe_Count] : g \in stream}
                                      ELSE stream
    [] name \in {"Play", "SeekL", "SeekP", "Stop", "Standby", "Reset", "ReadTOC"} -> {}
    [] OTHER -> stream

QuietAfter(name) ==
  CASE name \in {"ReadN", "ReadS", "Play"} -> FALSE
    [] name \in {"Pause", "Stop", "Standby", "SeekL", "SeekP", "Reset", "ReadTOC"} -> TRUE
    [] OTHER -> quiet

CommandEnds ==
  LET answers == cd'.IRQ # 0 /\ ~cd.CDCReady
      acknowledges == answers /\ cd.Phase = 1 /\ cd'.IRQ = ACKNOWLEDGE
  IN /\ cd.Counter /\ cd' = CommandSteps(CheckAIP(cd))
     /\ owed' = IF acknowledges /\ cd.Command \in TwoParts THEN "second"
                ELSE IF answers \/ (cd.Phase = 1 /\ ~cd.CDCReady) THEN "no" ELSE owed
     /\ stream' = IF acknowledges THEN StreamAfter(cd.Command) ELSE stream
     /\ quiet' = IF acknowledges THEN QuietAfter(cd.Command) ELSE quiet
     /\ UNCHANGED <<given>>

---------------------------------------------------------------------------
(* The frontend. *)

EjectDisc ==
  /\ cd.disc # {} /\ cd' = SetDisc(cd, {})
  /\ owed' = IF cd'.Counter THEN owed ELSE "no"
  /\ stream' = {}
  /\ UNCHANGED <<given, quiet>>

Insert(d) ==
  /\ cd.disc = {} /\ cd' = SetDisc(cd, {d})
  /\ UNCHANGED <<given, owed, stream, quiet>>

Power ==
  /\ cd' = [SoftReset(cd) EXCEPT !.DiscStartupDelay = FALSE]
  /\ owed' = "no" /\ stream' = {} /\ quiet' = TRUE
  /\ UNCHANGED <<given>>

\* All of the controller but the disc is in a state. SetDisc is called first, and what it did
\* is overwritten. A load takes the controller to where it was once, from where every step is
\* checked already, unless the disc is gone since: it is modelled as that of a state that
\* was saved a moment ago.
LoadState(disc) ==
  /\ disc \in {{}, cd.disc}
  /\ cd' = LET c == [cd EXCEPT !.disc = disc] IN IF disc = {} THEN DMForceStop(c) ELSE c
  /\ owed' = IF cd'.Counter THEN owed ELSE "no"
  /\ stream' = IF disc = {} THEN {} ELSE stream
  /\ UNCHANGED <<given, quiet>>

---------------------------------------------------------------------------
Game == \/ \E name \in Names : WriteCommand(name)
        \/ \E v \in Arguments : WriteArgument(v)
        \/ Acknowledge \/ ClearArguments \/ ResetController
CDC_Update == StartupEnds \/ ReadyEnds \/ (\E due \in BOOLEAN : DriveEnds(due)) \/ CommandEnds
Frontend == \/ EjectDisc \/ (\E d \in CDs : Insert(d)) \/ Power
            \/ (\E disc \in SUBSET CDs : LoadState(disc))

\* A failed assertion ends the program.
Aborted == cd.failed /\ UNCHANGED cdcVars

CDC_Next == \/ ~cd.failed /\ (Game \/ CDC_Update \/ Frontend)
            \/ Aborted

CDC_Spec == CDC_Init /\ [][CDC_Next]_cdcVars

---------------------------------------------------------------------------
(* Properties. *)

Statuses == {"STOPPED", "STANDBY", "PAUSED", "SEEKING", "SEEKING_LOGICAL", "READING", "PLAYING", "RESETTING"}

\* The types of what the control of the controller depends on.
CDC_TypeOK ==
  /\ cd.disc \in {{}} \cup {{d} : d \in CDs}
  /\ cd.DriveStatus \in Statuses /\ cd.StatusAfterSeek \in Statuses
  /\ cd.IRQ \in 0..5 /\ cd.AIP \in {0, DATA_READY, COMPLETE, DATA_END, DISC_ERROR} /\ cd.Phase \in -1..2
  /\ \A b \in {cd.DiscStartupDelay, cd.PSR, cd.Counter, cd.CDCReady, cd.failed, quiet} : b \in BOOLEAN
  /\ Len(cd.SectorPipe) <= Pipe_Count /\ cd.SectorsRead \in 0..PauseBack /\ cd.SeekRetryCounter \in 0..MaxRetries
  /\ owed \in {"no", "first", "second"}

\* The assertions of WriteIRQ hold (cdc.cpp:369-370): no interrupt is sent while the last one
\* is unacknowledged or was acknowledged a moment ago, by whichever of a command, its second
\* part and the drive comes first; and no second part is called that a command does not have.
\* There is one exception: ReadTOC without a disc in the drive, or with one that is not ready
\* yet, sends two interrupts at once (cdc.cpp:2308, then 2312 to 1529).
AssertionsHold == cd.failed => cd.Command = "ReadTOC" /\ cd.Phase = 2 /\ ~Present(cd)

\* What the assertion says without an exception, "assert(!(IRQBuffer & 0xF))" (cdc.cpp:370), and
\* of the very case a comment says: "ReadTOC doesn't error out if the tray is open" (cdc.cpp:2310).
NoAssertionFails == ~cd.failed

\* A drive that seeks, reads, plays or resets has its next step to come, and but for a reset
\* a disc, which it dereferences without a check (cdc.cpp:888): after ejections, states loaded
\* without the disc, errors and second parts of earlier commands, which stop the counter.
DriveRuns ==
  /\ Moves(cd) => cd.disc # {}
  /\ Moves(cd) \/ cd.DriveStatus = "RESETTING" => cd.PSR

\* A read that is acknowledged delivers the sectors in order and with none left out, each with
\* its notification: from the position set for it, or else from where the last read was paused,
\* whose sectors still in the pipe are read again (cdc.cpp:1879).
SectorsInOrder ==
  [][\A g \in stream : (cd.PSR /\ ~cd'.failed /\ cd.DriveStatus = "READING" /\ cd'.DriveStatus = "READING"
                         /\ cd'.SectorPipe # cd.SectorPipe /\ Pops(cd)) =>
       /\ Head(cd.SectorPipe) \in (g.next - g.slack)..g.next
       /\ cd'.SubQ.data /\ ~("strsnd" \in cd.Mode /\ Head(cd.SectorPipe) \in XA) =>
            cd'.HeaderBufValid /\ DATA_READY \in {cd'.AIP, cd'.IRQ}]_cdcVars

\* After the acknowledgement of a command that ends reading and playing, nothing is heard of
\* a sector, of the end of a track or of the disc, whatever was on its way, until a command that
\* begins to read is acknowledged ("Viewpoint flips out and crashes", cdc.cpp:1882).
DataStops == [][quiet /\ cd'.IRQ # cd.IRQ => cd'.IRQ \notin {DATA_READY, DATA_END}]_cdcVars

\* A command that is not answered, or not completely, will be: its counter runs, through
\* notifications that come first, ejections that leave it alone, and loaded states; and a seek whose
\* second answer waits for STANDBY (cdc.cpp:2126) is there or on its way.
AnswersAreOwed ==
  owed # "no" =>
    /\ cd.Counter /\ (owed = "second" <=> cd.Phase = 2)
    /\ owed = "second" /\ cd.Command \in {"SeekL", "SeekP"} =>
         \/ cd.DriveStatus = "STANDBY"
         \/ cd.DriveStatus \in {"SEEKING", "SEEKING_LOGICAL"} /\ cd.StatusAfterSeek = "STANDBY" /\ cd.PSR

\* A command is executed with the arguments that were in the FIFO when it was written, and
\* those written while it took them (cdc.cpp:1212-1241), whatever command it interrupted.
ArgumentsBelong == cd.Counter /\ cd.Phase = 1 => cd.Received = given

=============================================================================

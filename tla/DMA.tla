--------------------------------- MODULE DMA ---------------------------------
(***************************************************************************)
(* The DMA controller of dma.cpp.  RunChannel moves the words of a channel *)
(* until its clocks run out; it runs for every channel in DMA_Update, and  *)
(* for one channel when the CPU starts or stops it.  An iteration of its   *)
(* loop is one step, for the devices, the interrupt line and the registers *)
(* change with every word; nothing else happens until the call returns.    *)
(*                                                                         *)
(* The clocks are not counted: the loop may leave after any iteration.     *)
(* Addresses count words.                                                  *)
(***************************************************************************)
EXTENDS Integers

CONSTANTS
  Channels,  \* the channels modelled, of the seven: 0..6
  Half,      \* the addresses from here on are no memory: 0x800000 in the code
  Span,      \* 0x10000 in the code: a size or a number of blocks is below it, and 0 stands for it
  Header,    \* the main memory, as far as linked lists are concerned
  Bases, Blockings, Modes,  \* bound: what the CPU writes to the registers of each channel
  Controls   \* bound: the interrupt controls it writes

End == 2 * Half              \* 0xFFFFFF, the end of a list
Addresses == 0 .. End
Bad(a) == a >= Half

\* Of ChanControl: bits 24 and 28, the bits 9 and 10, bit 8 and bit 1.
ModeBits == [on : BOOLEAN, trigger : BOOLEAN, sync : 0..3, chop : BOOLEAN, back : BOOLEAN]

IntControls == [enable : SUBSET Channels, master : BOOLEAN, force : BOOLEAN]

ASSUME DMAAssumption ==
  /\ Channels \subseteq 0..6 /\ Channels # {}
  /\ Half \in Nat \ {0} /\ Span \in Nat \ {0, 1}
  /\ Header \in [0..(Half - 1) -> [count : 0..(Span - 1), next : Addresses]]
  /\ Bases \in [Channels -> SUBSET Addresses] /\ Modes \in [Channels -> SUBSET ModeBits]
  /\ Blockings \in [Channels -> SUBSET [size : 0..(Span - 1), blocks : 0..(Span - 1)]]
  /\ Controls \subseteq IntControls

VARIABLES
  DMACH,         \* the registers of the channels; BlockControl is Size and Blocks
  DMAIntControl, \* the channels that may interrupt, the master enable and the forced interrupt
  DMAIntStatus, IRQOut,
  Halted,        \* the CPU is halted
  pc, at,        \* the call under way, and the channel it has reached (else the first)
  log            \* history: of each channel, the transfer last started

vars == <<DMACH, DMAIntControl, DMAIntStatus, IRQOut, Halted, pc, at, log>>

------------------------------------------------------------------------------
(* Outputs of the controller.                                               *)

Requested(control, status) == (status # {} /\ control.master) \/ control.force

RecalcIRQOut == IRQOut' = Requested(DMAIntControl', DMAIntStatus')

\* A burst holds the bus; a chopped one and the other modes do not.
IsBurst(mode) == mode.sync = 0 /\ ~mode.chop

\* (Mutant: a channel that is off holds the bus as well.)
Bursting_Off(c) == IsBurst(c.mode) /\ c.WordCounter > 0
Bursting(c) == c.mode.on /\ IsBurst(c.mode) /\ c.WordCounter > 0

RecalcHalt == Halted' = \E ch \in Channels : Bursting(DMACH'[ch])

------------------------------------------------------------------------------
(* One iteration of RunChannel's loop.                                      *)

\* The device can take or give a block: MDEC and GPU are free to answer either way,
\* and when they cannot, the loop leaves.
ChCan(ch, mode) == ch # 5 /\ (ch = 6 => mode.trigger)

Reloaded(c) ==
  [c EXCEPT !.CurAddr = c.BaseAddr, !.WordCounter = c.Size,
            !.Blocks = IF c.mode.sync = 1 THEN (@ - 1) % Span ELSE @]
Listed(c) ==
  [c EXCEPT !.CurAddr = (c.BaseAddr + 1) % End,
            !.WordCounter = Header[c.BaseAddr].count, !.BaseAddr = Header[c.BaseAddr].next]
Chopped(c) == [c EXCEPT !.CurAddr = c.BaseAddr, !.WordCounter = c.Size]

\* (Mutant: a chopped transfer keeps its place in the channel only.)
Moved_Unsaved(c) ==
  [c EXCEPT !.CurAddr = (IF c.mode.back THEN @ - 1 ELSE @ + 1) % End, !.WordCounter = (@ - 1) % Span]
Moved(c) ==
  LET addr == (IF c.mode.back THEN c.CurAddr - 1 ELSE c.CurAddr + 1) % End
      left == (c.WordCounter - 1) % Span
  IN [c EXCEPT !.CurAddr = addr, !.WordCounter = left,
               !.BaseAddr = IF c.mode.chop THEN addr ELSE @, !.Size = IF c.mode.chop THEN left ELSE @]

Off(c) == [c EXCEPT !.mode.on = FALSE, !.mode.trigger = FALSE]

\* (Mutant: a block transfer ends with its first block.)
IsLast_Block(c) == c.mode.sync >= 2 => c.BaseAddr = End
IsLast(c) ==
  /\ c.mode.sync = 1 => c.Blocks = 0
  /\ c.mode.sync >= 2 => c.BaseAddr = End

\* The end of an iteration that leaves the channel as c.
EndCondition(ch, c) ==
  LET done == c.WordCounter = 0 /\ c.mode.on
      next == IF done /\ c.mode.sync = 1 THEN [c EXCEPT !.BaseAddr = c.CurAddr] ELSE c
  IN IF done /\ IsLast(next)
       THEN /\ DMACH' = [DMACH EXCEPT ![ch] = Off(next)]
            /\ DMAIntStatus' = DMAIntStatus \cup ({ch} \cap DMAIntControl.enable)
       ELSE DMACH' = [DMACH EXCEPT ![ch] = next] /\ UNCHANGED DMAIntStatus

\* The history of a channel: of a transfer that is followed, where it began, its words
\* and those moved; and whether an address error has stopped the channel since it started.
NoTransfer == [whole |-> FALSE, base |-> 0, words |-> 0, moved |-> 0, failed |-> FALSE]
Unfollowed(l) == [NoTransfer EXCEPT !.failed = l.failed]
Failed == [NoTransfer EXCEPT !.failed = TRUE]

AddressError(ch, c) ==
  /\ DMACH' = [DMACH EXCEPT ![ch] = Off(c)]
  /\ DMAIntControl' = [DMAIntControl EXCEPT !.force = TRUE]
  /\ log' = [log EXCEPT ![ch] = Failed]
  /\ UNCHANGED DMAIntStatus

Starts(ch) == DMACH[ch].WordCounter = 0 /\ DMACH[ch].mode.on /\ ChCan(ch, DMACH[ch].mode)

ReadHeader(ch) ==
  LET c == DMACH[ch]
  IN /\ Starts(ch) /\ c.mode.sync >= 2
     /\ IF Bad(c.BaseAddr)
          THEN AddressError(ch, [c EXCEPT !.CurAddr = c.BaseAddr])
          ELSE LET listed == Listed(c)
               IN /\ EndCondition(ch, IF c.mode.chop
                                        THEN [listed EXCEPT !.BaseAddr = listed.CurAddr, !.Size = listed.WordCounter]
                                        ELSE listed)
                  /\ UNCHANGED <<DMAIntControl, log>>

MoveWord(ch) ==
  LET c == IF DMACH[ch].WordCounter = 0 THEN Reloaded(DMACH[ch])
           ELSE IF DMACH[ch].mode.chop THEN Chopped(DMACH[ch]) ELSE DMACH[ch]
  IN /\ DMACH[ch].WordCounter = 0 => Starts(ch) /\ c.mode.sync < 2
     /\ IF Bad(c.CurAddr) THEN AddressError(ch, c)
        ELSE /\ EndCondition(ch, Moved(c))
             /\ log' = [log EXCEPT ![ch] = IF ~DMACH'[ch].mode.on THEN Unfollowed(log[ch])
                                          ELSE IF log[ch].whole THEN [log[ch] EXCEPT !.moved = @ + 1] ELSE log[ch]]
             /\ UNCHANGED DMAIntControl

Iterate(ch) ==
  /\ pc \in {"update", "stop", "start"} /\ at = ch
  /\ ReadHeader(ch) \/ MoveWord(ch)
  /\ RecalcIRQOut
  /\ UNCHANGED <<Halted, pc, at>>

------------------------------------------------------------------------------
(* The calls.  Every call ends with RecalcHalt.                             *)

Least(S) == CHOOSE ch \in S : \A other \in S : ch <= other
First == Least(Channels)
Later == {ch \in Channels : ch > at}

\* The event is due, or the CPU writes a register.
DMA_Update ==
  /\ pc = "rest" /\ pc' = "update"
  /\ UNCHANGED <<DMACH, DMAIntControl, DMAIntStatus, IRQOut, Halted, at, log>>

\* The loop leaves the channel and runs for the next one, or the update is done; the write
\* of a CPU that was running follows.
LeaveChannel ==
  /\ pc = "update"
  /\ UNCHANGED <<DMACH, DMAIntControl, DMAIntStatus, IRQOut, log>>
  /\ IF Later = {}
       THEN at' = First /\ (pc' = "rest" \/ (~Halted /\ pc' = "write")) /\ RecalcHalt
       ELSE at' = Least(Later) /\ UNCHANGED <<pc, Halted>>

\* What a program expects of a transfer that it starts and lets alone.  A list, and a
\* chopped transfer of blocks, are not followed.
Words(c) ==
  LET full(n) == IF n = 0 THEN Span ELSE n
  IN full(c.Size) * (IF c.mode.sync = 1 THEN full(c.Blocks) ELSE 1)
Transfer(c) ==
  IF c.mode.sync = 0 \/ (c.mode.sync = 1 /\ ~c.mode.chop)
    THEN [NoTransfer EXCEPT !.whole = TRUE, !.base = c.BaseAddr, !.words = Words(c)]
    ELSE NoTransfer

WriteRegister(ch, c) ==
  /\ DMACH' = [DMACH EXCEPT ![ch] = c]
  /\ log' = [log EXCEPT ![ch] = Unfollowed(@)]
  /\ pc' = "rest"
  /\ UNCHANGED <<DMAIntControl, DMAIntStatus, IRQOut, Halted, at>>

WriteChannel ==
  \E ch \in Channels :
     \/ \E base \in Bases[ch] : WriteRegister(ch, [DMACH[ch] EXCEPT !.BaseAddr = base])
     \/ \E blocking \in Blockings[ch] :
          WriteRegister(ch, [DMACH[ch] EXCEPT !.Size = blocking.size, !.Blocks = blocking.blocks])

WriteIntControl ==
  /\ \E control \in Controls, acknowledged \in SUBSET Channels :
       DMAIntControl' = control /\ DMAIntStatus' = DMAIntStatus \ acknowledged
  /\ RecalcIRQOut
  /\ pc' = "rest"
  /\ UNCHANGED <<DMACH, Halted, at, log>>

\* Channel 6 clears a table of the GPU backwards, whatever it is told.
Written(ch, mode) ==
  IF ch = 6 THEN [mode EXCEPT !.sync = 0, !.chop = FALSE, !.back = TRUE] ELSE mode

Started(c) == [c EXCEPT !.WordCounter = 0]

WriteChanControl ==
  \E ch \in Channels : \E mode \in Modes[ch] :
    LET c    == DMACH[ch]
        told == [c EXCEPT !.mode = Written(ch, mode)]
    IN \/ /\ ~c.mode.on /\ mode.on
          /\ DMACH' = [DMACH EXCEPT ![ch] = Started(told)]
          /\ log' = [log EXCEPT ![ch] = Transfer(told)]
          /\ pc' = "start" /\ at' = ch /\ UNCHANGED Halted
       \/ /\ c.mode.on /\ ~mode.on
          /\ DMACH' = [DMACH EXCEPT ![ch].mode.on = FALSE]
          /\ log' = [log EXCEPT ![ch] = NoTransfer]
          /\ pc' = "stop" /\ at' = ch /\ UNCHANGED Halted
       \/ /\ c.mode.on <=> mode.on
          /\ DMACH' = [DMACH EXCEPT ![ch] = told]
          /\ log' = [log EXCEPT ![ch] = Unfollowed(@)]
          /\ RecalcHalt
          /\ pc' = "rest" /\ UNCHANGED at

DMA_Write ==
  /\ pc = "write"
  /\ \/ WriteChannel
     \/ WriteIntControl
     \/ WriteChanControl /\ UNCHANGED <<DMAIntControl, DMAIntStatus, IRQOut>>

\* The channel that was started or stopped has run.
StartReturns ==
  /\ pc = "start" /\ pc' = "rest" /\ at' = First
  /\ UNCHANGED <<DMACH, DMAIntControl, DMAIntStatus, IRQOut, log>>
  /\ RecalcHalt

Stopped(c, mode) == [c EXCEPT !.mode = mode, !.WordCounter = 0]

StopReturns ==
  /\ pc = "stop" /\ pc' = "rest" /\ at' = First
  /\ \E mode \in Modes[at] :
       ~mode.on /\ DMACH' = [DMACH EXCEPT ![at] = Stopped(@, Written(at, mode))]
  /\ RecalcHalt
  /\ UNCHANGED <<DMAIntControl, DMAIntStatus, IRQOut, log>>

------------------------------------------------------------------------------
Idle ==
  [BaseAddr |-> 0, Size |-> 0, Blocks |-> 0, CurAddr |-> 0, WordCounter |-> 0,
   mode |-> [on |-> FALSE, trigger |-> FALSE, sync |-> 0, chop |-> FALSE, back |-> FALSE]]

Init ==
  /\ DMACH = [ch \in Channels |-> Idle]
  /\ DMAIntControl = [enable |-> {}, master |-> FALSE, force |-> FALSE]
  /\ DMAIntStatus = {} /\ IRQOut = FALSE /\ Halted = FALSE
  /\ pc = "rest" /\ at = First
  /\ log = [ch \in Channels |-> NoTransfer]

\* Power on forces every event, the DMA update among them, which releases the CPU.
DMA_Power ==
  /\ pc = "rest"
  /\ DMACH' = [ch \in Channels |-> Idle]
  /\ DMAIntControl' = [enable |-> {}, master |-> FALSE, force |-> FALSE]
  /\ DMAIntStatus' = {} /\ IRQOut' = FALSE /\ Halted' = FALSE
  /\ log' = [ch \in Channels |-> NoTransfer]
  /\ UNCHANGED <<pc, at>>

Next == DMA_Update \/ (\E ch \in Channels : Iterate(ch)) \/ LeaveChannel \/ DMA_Write
          \/ StartReturns \/ StopReturns \/ DMA_Power

\* The event of DMA is at most 128 clocks ahead, every update gives its clocks to
\* every channel, and every call returns.
Fairness ==
  /\ WF_vars(DMA_Update \/ LeaveChannel \/ DMA_Write \/ StartReturns \/ StopReturns)
  /\ \A ch \in Channels : SF_vars(Iterate(ch))

Spec == Init /\ [][Next]_vars /\ Fairness

------------------------------------------------------------------------------
(* Properties.                                                              *)

ChannelState ==
  [BaseAddr : Addresses, Size : 0..(Span - 1), Blocks : 0..(Span - 1), CurAddr : Addresses,
   WordCounter : 0..(Span - 1), mode : ModeBits]

\* Every register keeps within its width.
TypeOK ==
  /\ DMACH \in [Channels -> ChannelState]
  /\ DMAIntControl \in IntControls
  /\ DMAIntStatus \subseteq Channels /\ IRQOut \in BOOLEAN /\ Halted \in BOOLEAN
  /\ pc \in {"rest", "update", "write", "start", "stop"} /\ at \in Channels
  /\ log \in [Channels -> [whole : BOOLEAN, base : Addresses, words : Nat, moved : Nat, failed : BOOLEAN]]

\* A transfer that the CPU starts and lets alone moves as many words as it was told, a
\* size of zero being 0x10000, at consecutive addresses, whatever blocks and updates it
\* is cut into, and a channel that is not finished stays on (RunChannel).
TransfersAreExact ==
  \A ch \in Channels :
    LET c == DMACH[ch]
    IN log[ch].whole =>
         /\ log[ch].moved < log[ch].words
         /\ log[ch].moved > 0 =>
              c.CurAddr = (log[ch].base + (IF c.mode.back THEN - log[ch].moved ELSE log[ch].moved)) % End

\* dma.cpp:347-349: the CPU is not released before the end of a burst is signalled: as
\* long as a burst has begun and its channel is on, the CPU is halted; and nothing else
\* halts it.  The interrupt line follows the registers.
OutputsAreCurrent ==
  /\ pc = "rest" =>
       /\ \A ch \in Channels :
            DMACH[ch].mode.on /\ IsBurst(DMACH[ch].mode) /\ log[ch].whole /\ log[ch].moved > 0 => Halted
       /\ Halted => \E ch \in Channels : DMACH[ch].mode.on /\ IsBurst(DMACH[ch].mode)
  /\ IRQOut <=> Requested(DMAIntControl, DMAIntStatus)

\* A channel turns itself off when its words are moved or an address is no memory, and
\* says so in the same step.
EndsAreSignalled ==
  [][\A ch \in Channels :
       DMACH[ch].mode.on /\ ~DMACH'[ch].mode.on /\ pc \in {"update", "start"} =>
         \/ /\ log[ch].whole => log[ch].moved + 1 = log[ch].words
            /\ ch \in DMAIntControl.enable => ch \in DMAIntStatus'
            /\ ch \in DMAIntControl.enable /\ DMAIntControl.master => IRQOut'
         \/ Bad(DMACH'[ch].CurAddr) /\ DMAIntControl'.force]_vars

\* A channel that is off has nothing left to move, whichever way it was turned off,
\* unless an address error stopped it (dma.cpp:591: RunChannel would go on).
StoppedIsEmpty ==
  \A ch \in Channels :
    ~DMACH[ch].mode.on /\ ~(pc = "stop" /\ at = ch)
      => DMACH[ch].WordCounter = 0 \/ log[ch].failed

\* A halted CPU is released: only its burst can release it.
CPUIsReleased == Halted ~> ~Halted
==============================================================================

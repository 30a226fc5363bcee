# Verification of beetle-psx-libretro

beetle-psx-libretro is a PlayStation emulator, Mednafen's PSX module packaged as a
libretro core. This directory holds TLA+ models of its control logic, the TLC
configurations that check them, and TLAPS proofs about them. `PROJECT.json` is the index:
components, runs, the mutants that show each property can fail, the lines of source every
definition stands for, hazards and theorems.

    tlc -workers 2 -config CDIF_MT.cfg MCCDIF_MT     # a run: module and cfg as in PROJECT.json
    tlapm DMA_proofs.tla                             # the proofs of a module

Contents: 1 the system, 2 modules and code, 3 runs, bounds and fairness, 4 proofs,
5 observations about the code, 6 what is not modelled, 7 plan.


## 1. The system

### Structure

The frontend calls `retro_run` once per frame. It runs the CPU (`PS_CPU::Run`), which
executes instructions until the earliest scheduled event of another component, lets
`PSX_EventHandler` bring that component up to date, and goes on, until the GPU asks for the
end of the frame. Every component counts time lazily: it has a `lastts` and is brought up to
the present when its event is due or when the CPU touches its registers. All of this is one
thread. The exception is the disc: `CDIF_MT` reads sectors ahead in a thread of its own.

    frontend --disk control, states--> libretro.cpp --events--> GPU, CDC, timers, DMA, FrontIO
                                          |   ^                    |  lines       |  |
                                          v   | registers          v              |  serial port
                    CDIF (threaded)  <-- CDC  CPU  <--halt-- DMA   irq.cpp --> CPU|  v
                                                              |                   |  pads, cards
                                                              +--> MDEC, GPU queue+

### Components

| Component | State | Operations | Interacts with | Hard behaviour | Correct when |
|---|---|---|---|---|---|
| CD interface, `cdromif.cpp` | read-ahead window, ring of sectors, two message queues, table of contents, tray | read, hint, eject/insert, destruction; read thread | CDC, disk control, disc readers | two threads, mutex and condition variables, data shared without the mutex | every call returns what the single-threaded interface would; no sector of another disc; no lost request or wake-up |
| Event loop, `libretro.cpp` | event list, `next_event_ts`, `Running`, every `lastts` | schedule, handle, register access, end of frame, rebase, state, power | all components | handlers reschedule inside the list that is walked | list stays ordered; nothing due while the CPU runs; time never goes back |
| Disk control, `libretro.cpp` | images, selection, tray, `eject_state`, the drive's interface | eject, select, replace, remove, add, save, load | frontend, CDIF, CDC | call sequences, states restored into another list | the drive holds the disc chosen, and a live one |
| Interrupt controller and CPU, `irq.cpp`, `cpu.cpp` | lines, status, mask; SR, CAUSE, EPC, `IPCache`, branch state | lines, register writes, instructions, exception, RFE, halt | all devices, DMA | a cached decision with six writers; interrupts in delay slots | the decision is fresh; the task does not notice; requests are answered |
| Timers, `timer.cpp` | counters, targets, modes, dividers, pending clocks | batch clocking, prediction of the event, register access, retraces | GPU, CPU, event loop | laziness: batches must equal single clocks | counters and interrupts as if clocked each cycle, never late |
| DMA, `dma.cpp` | seven channels, interrupt control and status | the word loop, updates, register writes, start and stop | CPU (halt), MDEC, GPU, SPU, CDC | transfers cut into blocks, chops and updates; CPU held | all words, consecutive addresses; CPU held exactly for bursts; ends signalled |
| CD-ROM controller, `cdc.cpp` | command phases, arguments, pending interrupts, drive, two-sector pipe | commands, second answers, sectors, reset, eject | CDIF, SPU, IRQ, DMA | answers race acknowledgements, seeks, pauses and swaps | every command is answered once, the drive reads on in order or has a reason not to |
| FrontIO, `frontio.cpp` | shift registers, acknowledge and pulse delays, event | register accesses, bit clock, lines, gun pulses, end of frame, states | devices, IRQ, GPU, event loop | five counters behind one event, restarted and rebased | every exchange whole, every acknowledge heard, nothing late |
| Memory cards, multitap, pads, `input/` | position in a protocol, contents, dirty count, modes | byte exchange, selection, power, saving, states | FrontIO, frontend | broken transfers, options changed in mid-transfer, delayed saving | answers are those of the device's contents; writes all or nothing; unsaved data is on its way |
| MDEC, `mdec.cpp` | coroutine over two FIFOs, macroblock state, clock | decode, registers, DMA | DMA, game | a coroutine that waits for words, clocks and room in turn | every block in place, no waiting in a circle with DMA |
| GPU, `gpu.cpp` | command queue, commands in parts, drawing time, scanline counters | command and data words, resets, updates, end of frame | DMA, timers, IRQ, event loop | commands spread over words, parts and drawing time; a game that changes the display in mid-field | commands keep their words, the sender gets on, each frame is a field |
| SPU, `spu.cpp` | voices, envelopes, FIFO to RAM | envelopes, sweep, IRQ, DMA | CDC, DMA, IRQ | saturating integer arithmetic | (planned) levels stay in range |
| GTE, `gte.cpp` | registers, flags | arithmetic | CPU | saturation and flags | (planned) against a reference |
| Save states, `state.cpp` | named chunks | save, load | all | old and truncated states | (planned) round trip, unknown chunks skipped |
| Disc readers, CD utilities | tables, positions | parse, read, convert | CDIF | MSF/BCD arithmetic, decompression | (planned) conversions invert each other |
| Glue, settings, streams, cheats, debugger, renderers, vendored code | | | | data, files, graphics | not modelled, see section 6 |


## 2. Modules and code

| Module | Code | State and actions |
|---|---|---|
| `CDAccess` | what `CDAccess_*` show to `cdromif.cpp` | operators: discs, tables of contents good and bad, sectors or read errors, the disc a PBP file switches to on insertion |
| `CDIF_ST` | `CDIF_ST`, and the client in `libretro.cpp`/`cdc.cpp` | a call is three steps (made, takes effect, returns), so that a concurrent implementation can refine it |
| `CDIF_MT` | `CDIF_MT`: read thread, `ReadRawSector`, `Eject`, constructor, destructor | both program counters; queue operations are one step; a critical section is lock, body, unlock; spurious wake-ups; `disc_toc` and the tray changed without the mutex as in the code |
| `CDIF_Queue` | `CDIF_Queue::Read/Write` | mutex, condition variable, sleeping and woken reader; justifies the one-step queue operations of `CDIF_MT` |
| `CDIF_FIFO` | (abstract) | a FIFO with blocking and non-blocking reads |
| `EventLoop` | `PSX_SetEventNT`, `PSX_EventHandler`, `MemRW`'s updates, `PSX_RequestMLExit`, `retro_run`, `RebaseTS`, `StateAction`, `PSX_Power` | the doubly linked list with its nested relinking, every component's `lastts`, the CPU's copy of the next event |
| `DiscControl` | `disk_*`, `CDInsertEject`, `CDSelect`, `SetDisc` use, disc part of `StateAction` | lists, selection and tray; undefined behaviour (index out of range, null interface) is recorded in `fault` and ends the run of calls; `chosen` is history: what the frontend chose, or how the core lost it |
| `Interrupts` | `irq.cpp`; of `cpu.cpp` `RecalcIPCache`, `AssertIRQ`, `SetHalt`, `Exception`, branches, MTC0, RFE | one action per instruction or device act; memory holds a task and a handler |
| `ProgramOrder`, `Uninterrupted` | (abstract) | the task as its author sees it, one instruction after the other |
| `TimerRegisters` | registers and modes of `timer.cpp`, what the GPU tells | shared by the two timer modules |
| `Timer` | `ClockTimer`, `TIMER_Update`, `CalcNextEvent`, register access, `SetVBlank`, `SetHRetrace`, dot clocks of `gpu.cpp` | timers counted in batches of the time that passed (`behind`), event `due` ahead |
| `RootCounters` | (abstract) | the same timers clocked once per cycle, but for the clocks that a batch past target and end loses |
| `DMA` | `dma.cpp` | one iteration of `RunChannel`'s loop is one step; `pc`/`at` say which call is under way and at which channel; `log` is history |
| `CDC` | `cdc.cpp`: command phases and their arguments, all commands that move the drive, `HandlePlayRead`, sector pipe, `RecalcIRQ`/async interrupts, resets, `SetDisc`, states | the controller is one record `cd`; one action for each counter that ends in `Update`, each register access and each call of the frontend; a failed assertion stops it (`failed`, `Aborted`); `owed`, `quiet`, `stream` and `given` are history |
| `FrontIO` | `frontio.cpp`: registers, `Update`'s bit clock, acknowledges, `GPULineHook`, event, `ResetTS`, `Power`, states | bits go to all selected lines at once; `io.lastts`, `now` and `due` are its place in time |
| `Memcard` | `input/memcard.cpp` | operators: a byte and a selection, with the frame that is written |
| `Pads`, `DualShock` | `input/gamepad.cpp`, `dualanalog.cpp`, `negcon.cpp`, `mouse.cpp`, `guncon.cpp`, `justifier.cpp`; `dualshock.cpp` | operators: what each device answers, keeps and forgets; the configuration protocol, analog mode and motors |
| `Multitap` | `input/multitap.cpp` | operators: direct and full mode over the slots' own pads and cards |
| `SerialPort` | the port of `frontio.cpp` byte by byte; cards and their files in `libretro.cpp` | composes `Multitap`, `Pads`, `DualShock` and `Memcard` with the game, the frontend, the file and its delayed writing |
| `MDEC` | `mdec.cpp`; of `dma.cpp` channels 0 and 1 | a stretch of the coroutine from one wait to the next is one step; the two channels and the game that feeds and empties it |
| `Beam` | of `gpu.cpp` the line loop of `Update`, the line counts and end-of-frame requests | operators: the next half line of a display |
| `GPU` | of `gpu.cpp` `ProcessFIFO`, `WriteCB`, `CalcFIFOReadyBit`, `Write`, `ReadData`, resets, `StartFrame`, `Update`; parts of `gpu_polygon`, `gpu_sprite` and `gpu_line` that consume words | extends `Beam`; a word is the command it was written for and its place there, so that taking another command's word shows |
| `MC*` | | model values for the runs; `MCDisc`, `MCLoopMDEC`, `MCGPUFrontIO` and `MCTimerQueue` check two modules in one run |
| `*_proofs` | | theorems about the module in their name, and about those it works with: `DMA_proofs` also `MDEC`, `Peripherals_proofs` the timers and the serial port, `Multitap_proofs` the multitap in a full transfer, `Libretro_proofs` the event loop and disc control, `CDROM_proofs` the CD-ROM controller, the CD interface and its queues |

Every definition that models code is in `PROJECT.json` under `map` with its lines. Definitions
whose comment says "mutant" are changed versions of the definition after them, as a plausible
bug would change it; `PROJECT.json` lists which property each one breaks.

Composition and refinement:

- `CDIF_MT` implements `CDIF_ST` (`ImplementsST`), `CDIF_Queue` implements `CDIF_FIFO`
  (`ImplementsFIFO`), `Interrupts` implements `Uninterrupted` (`TaskIsUndisturbed`), `Timer`
  implements `RootCounters` (`CountsEveryClock`).
- `SerialPort` composes `Multitap`, `Memcard`, `Pads` and `DualShock`, whole bytes at a time.
  `FrontIO`, which clocks single bits to devices that answer anything, justifies that with
  `ExchangesAreWhole`: a device and the controller see the same bytes.
- `MDEC` composes the decoder with its two DMA channels and the game. `GPU` composes the queue
  and the beam; its sender is a DMA channel that asks `DMACanWrite` or a game that polls the
  ready bit. `DMA` has the channels in general, with MDEC and GPU accepting as they like.
- The end of the frame that `GPU` requests is what `EventLoop` handles; there the line loop is an
  event like others.
- `DMA` and `Interrupts` meet at `SetHalt`: `DMA` shows when the CPU is halted and that it is
  released, `Interrupts` what a halt at any instruction does.
- `CDC` reads and ejects through the interface that `CDIF_MT` implements; `DiscControl` has the
  frontend's side of the tray.

Abstractions worth knowing:

- `CDIF_MT`: a sector is its disc, its LBA and whether the read failed. A table of contents is
  its disc, its lead-out and whether it passed the checks. An image that is no PBP file is the
  case of one disc.
- `EventLoop`: what a component does in an update is the events it schedules, its timestamp and
  the end of the frame.
- `Interrupts`: registers are the stack of enable bits, the mask and cause bits of two causes,
  and one register `k` for the handler.
- `Timer`: widths are parameters (`Wrap` is 0x10000 in the code, `Divider` 8, `Cap` 1024).
- `DMA`: clocks are not counted, the loop may leave after any iteration; that covers every clock
  budget. Whether MDEC or GPU accept a word is free. Addresses count words, 0x800000 is `Half`,
  0x10000 is `Span`.
- `CDC`: a counter runs or not and may end at any time, so every delay of the code and any order
  of their ends is covered. An argument stands for the bytes of a command's arguments, a sector
  for its number; loading a state means loading one just saved, with its disc or without.
- `SerialPort`: bytes are what the protocols tell apart, the checksum of a card is the parameter
  `Xor`, a frame has two bytes; buttons and crosshairs are data.
- `MDEC`: a coefficient is the number it skips, a pixel word its block and place.
- `GPU`: a drawing command costs any of `Costs` of time; a block of words begins only when the
  ready bit is set and is written without asking again, as `ChCan` of dma.cpp allows.


## 3. Runs

Eight runs pass; four more are expected to find a violation, each of what the repository says of
the code: `PROJECT.json` quotes the line under `findings`. Sizes are in distinct states, times on
two workers. Deadlock is checked in all of them.

Four runs take two modules that share no state: a variable `part`, chosen at first, says which one
moves, the other rests in an initial state. A run asks then what two runs would.

| Run | Question | Instance | Size |
|---|---|---|---|
| `cdif_mt` | do the threads implement the plain interface, safety and liveness? | two discs, the first longer than the ring; ring of 2 slots, read-ahead 1; LBAs to 2; 2 requests queued | 623,034, about 1 min |
| `loop_mdec` | is the event list sound, the CPU never late, the handler's loop finite? do the decoder and DMA hand over whole blocks, and finish? | delays 1 and 2, frame of 2, instructions up to 2; FIFOs of 4 words, blocks of two rows and three coefficients | 1,183,250, about 3.5 min |
| `interrupts` | is the cached decision fresh, does the task not notice, is every request answered? | one line (also DMA's own), task of 11 and handler of 5 instructions, states saved and loaded anywhere | 258,064, about 2 min |
| `timer_queue` | do batches equal single clocks, are interrupts in time? does mutex + condition variable implement a FIFO? | three timers, one used at a time, counters of 5, targets 0, 3 and 4, divider 2, events at most 2 ahead; two messages, three in the queue | 49,406, about 3 min |
| `dma` | are transfers exact, the CPU held exactly for bursts, ends signalled? | channels 2 and 6, memory of 4 words, sizes and blocks below 2 (0 stands for 2) | 507,763, about 2 min |
| `disc` | does every command get its answers in turn, does the drive run on, do sectors come in order? does the drive hold the disc that was chosen, and when can the core run into undefined behaviour? | one disc, lead-out at 5, a data track 0-3 and an audio track, nine commands; 2 images at first, up to 4 at once and 5 opened, every call libretro.h permits | 2,003,273, about 3.5 min |
| `gpu_frontio` | do commands keep their words, is the sender served, is each frame a field? are bytes whole, acknowledges heard, pulses seen, is the event never late? | queue of 6, seven commands, lines 4 (NTSC) and 7 (PAL); bytes of 2 bits, two lines, two rates, one gun, frames of two lines | 383,089, about 3 min |
| `serial_devices` | do the devices answer what they hold, are card writes whole and saved, do modes and slots stay apart? | six setups (card, pads, mouse, guns, DualShock, multitap); cards of two frames of two bytes; two sub-ports | 1,798,864, about 3 min |

| Run expected to fail | What the repository says | What the code does |
|---|---|---|
| `disc_loads` | 'If ejected is true, "ejects" the virtual disk tray' (libretro.h:1586) | a state saved with the tray closed and loaded while it is ejected puts a disc into the drive; `eject_state` is not restored (libretro.cpp:1761) |
| `disc_removes` | a NULL image "will remove the disk image from the internal list" (libretro.h:1614) | after the selected last image is removed an insertion indexes past the list (libretro.cpp:2331, 1815) |
| `cdc_read_toc` | `assert(!(IRQBuffer & 0xF))` (cdc.cpp:370); "ReadTOC doesn't error out if the tray is open" (cdc.cpp:2310) | ReadTOC without a disc sends an acknowledgement and an error at once, and the assertion fails |
| `timer_overflow` | the overflow flag is "Set when counter overflows from 0xFFFF->0" (timer.cpp:53) | in target mode it is not set (timer.cpp:213) |

What the properties say is written above each of them in the modules. In a sentence each:

- CD interface: `ImplementsST` (every call has the effect and the result of the single-threaded
  interface and returns), `TrayChangeIsExclusive` (nothing reads the table of contents or the
  ring while it is rewritten without the mutex), `NoStaleSector`, `RequestNotLost`;
  `ImplementsFIFO` (queue).
- Event loop: `WellLinked`, `NothingDueWhileRunning`, `TimeOnlyAdvances`, `HandlerProgresses`.
- Disc control: `FaultsAreForeseen` (undefined behaviour only where an index was added and not
  filled, or the selected image removed), `DriveHoldsChoice` (where the core's tray is what the
  frontend sees, the drive holds the disc chosen). `EjectedDriveIsEmpty` and `NoUndefinedBehaviour`
  are what libretro.h says, and fail.
- Interrupts: `DecisionIsFresh`, `TaskIsUndisturbed` (a refinement), `RequestsAreAnswered`.
- Timers: `CountsEveryClock` (a refinement; `RootCounters` says which clocks a timer with a target
  close to the end may lose), `NoLateInterrupt`; `OverflowIsFlagged` fails.
- DMA: `TransfersAreExact`, `EndsAreSignalled`, `CPUIsReleased`.
- CDC: `AssertionsHold` (the interrupt register is free whenever it is written, except by ReadTOC
  without a disc, where `NoAssertionFails` fails), `DriveRuns` (a
  drive that plays, reads or seeks has a counter that moves it), `AnswersAreOwed` (a command that
  has not been answered still has what will answer it), `ArgumentsBelong` (a command is executed
  with the arguments written for it), `SectorsInOrder` (what the game is told of are consecutive
  sectors, across pauses), `DataStops` (after the Pause or Stop was answered no sector is announced).
- FrontIO: `NothingIsLate`, `ShotsArrive`, `ExchangesAreWhole`, `AcksAreHeard`.
- Serial port: `AnswersAreTrue` (every answered transfer is what its device held, one talker at a
  time), `WritesAreWhole`, `UnsavedIsPending`, `AcksMatchId` (a pad acknowledges as many bytes as
  the identification it gave announces, if there is a pad), `SlotsAreOwn` (the multitap gives each slot its
  own pad, and each pad the command and the motors the game last sent for its slot).
- MDEC: `BlocksFit`, `PictureIsWhole`, `CommandsEnd`.
- GPU: `CommandsKeepTheirWords`, `SenderIsServed`, `EachFrameIsAField`.

### Bounds, and why they are enough

- `CDIF_MT`: with two slots and a read-ahead of one, the ring wraps after two sectors and the
  window slides, so overwriting a sector that is wanted, re-requesting the last LBA, reading up
  to the lead-out and past the shorter disc after a swap all occur. `MaxQueue` bounds requests
  posted and not yet taken; the code has no bound, two suffice for a request behind a hint.
- `EventLoop`: delays of one and two let events tie, overtake each other, and fall on and after
  the end of the frame; components are not symmetric (the GPU schedules others), so all five
  are kept.
- `DiscControl`: three images is the least in which the selected one can be before, at and after
  the one removed; a fourth in the list and a fifth opened make a replaced interface distinguishable
  from the old one, and let an index wait unfilled beside them. The frontend makes every call
  libretro.h permits: states are loaded with the tray open (`LoadsWhileEjected`), the selected image
  is removed (`RemovesSelected`), added indices are left unfilled (`LeavesUnfilled`). `disc_loads`
  and `disc_removes` allow one of them alone, so that the violation is that one's. The run has a
  list of images; a PBP file, whose insertions may fail (`TocCanFail`), is the theorem's.
  `DiscView` takes every negative selection for the same "no disc".
- `Interrupts`: one line with a software interrupt beside it gives two sources; the program has
  each kind of place an interrupt can strike (branch, delay slot, GTE, critical section, store
  to the mask). A state may be saved and loaded at any step.
- `Timer`: `Wrap` of 5 above `Cap` of 2 keeps the code's relation (a batch is shorter than a
  turn of the counter); a target of zero, one away from the end by a batch (3) and one closer to it
  (4), where clocks are lost; divided clocks carry remainders over batches. One timer is used at a
  time (`MaxUsed`) because timers meet only in the event's minimum.
- `DMA`: a size and a number of blocks of one and of zero (which stands for the most) cross both
  boundaries; the list has two entries, one with a word and one without, and one that leads out
  of memory. Two channels show one channel's burst while the other ends.
- `CDC`: five sectors hold the two of the pipe, a track change and the run into the lead-out. One
  waiting argument besides the command's own, one retry of a seek (`MaxRetries`). The nine commands
  are one of each kind: with arguments and without, one answer and two, moving the drive, reading,
  stopping, resetting, winding. Only `Pause` may interrupt a command that is not answered yet
  (`Hasty`); every command may follow an answered one at once, `ReadTOC` with the tray open, too.
- `FrontIO`: two bits distinguish the first, the last and a middle of a transfer. Rates of one and
  two and acknowledges before and after the next bit give every order of the two counters. A frame
  of two lines ends with every combination of pending counters.
- `SerialPort`: transfers are of full length. `QuietFrames`, `ComboFrames` and `SaveDelay` are
  cut to one or two frames, `MaxWrites` bounds the dirty count between two savings,
  `MaxOverheard` the bytes of a transfer meant for somebody else. Frames end between transfers and
  within one at `FrameEnds`.
- `MDEC`: with a FIFO of four words and blocks of 2, 6 and 4 words (one for each way of packing
  pixels) both FIFOs run full and empty in the middle of a block; one macroblock and a bit, both
  kinds of tables, and data that ends inside a block and fills it are there.
- `GPU`: the seven commands are one of each way a command takes its words: mode,
  interrupt, a fill, a quad whose second part waits, a polyline of three points, images up and down
  with an odd number of pixels. Copies, sprites and triangles differ from the fill in their numbers
  of words only. A block of 6 words holds several short commands and ends within the longer ones.
  A game either draws within a line or shows without drawing: queue and beam meet only in
  `GPU_Update`, and are both in its step.

`LiveView` in `MCGPUFrontIO`, `MCCDC` and `MCSerialPort` leaves out only fields that are
overwritten before they are read again. `MCView` in the runs of two modules leaves out the one that
rests, which is always in the same state.

### Fairness

- `CDIF_MT`: weak fairness for each thread (the operating system schedules them) and strong
  fairness for the read thread's acquisition of `SBMutex`: without it spurious wake-ups of the
  other thread could take the mutex each time. No call has to be made. `CDIF_Queue` likewise.
- `Interrupts`: strong fairness of `Step`, since DMA can halt and release the CPU in turn, and
  an update of DMA that leaves the CPU running is followed by at least one instruction before
  the next; weak fairness of the release, which `CPUIsReleased` of `DMA` supports.
- `DMA`: weak fairness of the calls (the event is at most 128 clocks ahead, and every call
  returns) and strong fairness of a channel's iterations (each update gives every channel clocks,
  but MDEC and GPU may refuse in between).
- `MDEC`: weak fairness of the coroutine's next stretch, of DMA's update (the event is at most 128
  clocks ahead, and brings the decoder its clocks), and of the game that supplies and takes the
  blocks of a command it has begun.
- `GPU`: weak fairness of `GPU_Update` (at most 128 clocks apart) and of a game that goes on with the
  command it has begun while there is room, and that reads the image it asked for. Nothing says
  that it begins another.
- `CDIF_ST`, `CDIF_FIFO`: a call that was made is carried on.
- `EventLoop`, `DiscControl`, `Timer`, `CDC`, `FrontIO` and `SerialPort` state safety and progress
  as invariants and action properties and assume no fairness.
- In a run of two modules the fairness of the one that has any is asked for while it moves
  (`MCFairness`): `part` never changes, so that this is the module's own fairness. `CDIF_Queue`'s is
  taken as it is, since a queue at rest has nothing to do.


## 4. Proofs

TLAPS proves, for every value of the constants that meets the named assumptions:

**CD interface** (`CDROM_proofs`). The inductive invariant is `Typed /\ Control /\ Window /\
Tray`: types; what the position of one thread implies for the other, the queues and the mutex;
where the read-ahead window lies relative to the last request and what the ring holds of it;
and whose disc the buffered sectors and the table of contents belong to. No part is inductive
alone: that a sector is not stale (`Tray`) needs that the ring was cleared while the client was
blocked (`Control`), and that a request is not lost needs that the window starts at the last
request (`Window`). It gives `TypeCorrect`, `TrayChangesAreExclusive` (with `OneReplyPerCall`),
`SectorsAreNotStale`, `ReadAheadIsBounded`, `RequestsAreNotLost`, `RingIsHeldStill`. With what
failed insertions leave added (`ErrorsInv`) it gives `ThreadsImplementST`: every step is a step of
`CDIF_ST` or a stutter. Assumptions: `ReadAheadAssumption` (weaker than the code's assertion
`max_ra < SBSize / 4`), `BoundsAssumption`, and those of `CDAccess`.

**Queue** (the last section of `CDROM_proofs`). `QueueTypeCorrect`, `WakeupsAreNotLost` (a sleeping reader and a message mean that the
writer still has to signal) and the refinement `QueueImplementsFIFO`. Assumption: no message is
the value that stands for none.

**Event loop** (`Libretro_proofs`). The invariant `IInv` says that the events are a list
(`IsList`: there are places `p` such that the links of both directions follow the places and the
times ascend with them, from SYNFIRST's to SYNLAST's); that no component's `lastts` is after the
time of any event; that `next_event_ts` is the first event's time while `Running` and 0 otherwise
(`Fresh`); and that a running frame's GPU event comes within one scheduling distance of the
frame's end (`Watched`), which is what bounds `timestamp`: without it an event could be put behind
SYNLAST. `RelinkMoves` is the heart: the walks, recursive functions, end at the right place
because places go down (up) with every step (`WalkEnds`, by the least counterexample), and linking
there moves the places of the events between. Whatever an update does, nested or not, is `Moves`
(components advance to its time only, events move ahead of it only, a frame may end and not begin),
which is transitive. It gives `TypeCorrect`, `ListStaysLinked`, `NothingIsDue`,
`ComponentsOnlyAdvance` and `TurnsProgress`. Assumption: `TimesAssumption`: a component schedules at
most `PSX_EVENT_MAXTS` ahead (the code at most half of it), and a frame with its last access is
shorter than `PSX_EVENT_MAXTS` (under a million clocks of 0x20000000).

**Disc control** (`Libretro_proofs` too, which is why `DiscControl` names its `DiscInit`,
`DiscNext` and `DiscSpec` so). `ListSound` says that the selection is below the number of images,
that an interface is in the list once (so that at most one index is not filled yet) and that
`cdifs_scex_ids` is as long as the list unless one is, while the selected image was not removed.
`DriveFollows` says that an open tray has no interface at the CDC; that a closed one has, where the
two flags of the tray agree, the interface of the selection, or none; and that `chosen`, if it is not
lost, is the selected disc. The invariant is that both hold, or that undefined behaviour has ended
the calls in one of the two foreseen ways (`Foreseen`). It gives `FaultsDoComeForeseen` for PBP
files and lists of images, and `DriveDoesHoldChoice`, both without a hypothesis on what the frontend
does. Distinct interfaces are the heart: an image removed or replaced is the chosen one only if its
index is selected. Assumption: `DiscControlAssumption`.

**Interrupts** (`Interrupts_proofs`). The invariant is `Good` of the running machine and of the
saved one: `Typed`; `Connected` (the hard cause bit is the controller's output); `Cached`
(`IPCache` is the decision); `Flow`, which says of the place the machine is in that the task can
be resumed there (`InOrder`, `Resumable`). It gives `TypeCorrect`, `DecisionsAreFresh`,
`RequestsAreRisingEdges` and the refinement `InterruptsAreInvisible`. Assumptions:
`LinesAssumption`, `AddressAssumption`, `TaskAssumption` (no branch in a delay slot: on a MIPS
that is undefined) and `HandlerAssumption` (a straight line ending in JR/RFE).

**Timers** (`Peripherals_proofs`). The invariant is `TypeOK` with `OnTime`: no timer on the system
clock that may interrupt reaches its goal before the event. `TypeCorrect` also gives the
assertions at timer.cpp:142 and 148. Assumptions: those of `TimerRegisters`, and
`CapAssumption` (`Cap < Wrap`).

**Serial port** (`Peripherals_proofs` too). `PortInv` says that every device is in a state of its
own (`IsMachine`; of a card: that a phase with an address has one within the frames, `WellCards`),
that the file holds frames, and `IsPending`: what the card has and the file has not is counted, and
the delay runs or starts with the end of the frame. Every byte counts what it changes (`CountsOn`).
It gives `ChangesAreSaved`. For what is said `PortFollows` says how the devices stand to the bytes
of the transfer, of the running machine and of the saved one, as long as the frontend has not
changed a device in the middle of it (`odd`): the devices are selected together (`Even`); the tap
sends the bytes where the first of them said (`TapAt`); in each place the address leaves one of pad
and card talking, the other waits for the next selection (`Apart`); and the card that gets the bytes
is where they have brought it (`CardAt`: its phase, address, checksum and buffer after so many of
them), so that what was heard is what the card holds (`HeardRight`). The checksum of the code is
taken byte by byte and that of the properties is the fold of a whole frame: `SumsOf`, the checksums
of the beginnings of a frame, is what relates them. A pad's commands are many and matter here in one
way only: a pad that was not addressed stays quiet. It gives `AnswersDoHold` and `WritesDoStore`, for
every setup, number and length of frames, checksum and sequence of bytes. `AcksDoMatch` needs the
pads too: `PortTalks` says where the bytes have brought the pad of a port without a tap (`PadAt`:
fresh before the address, quiet after another's, and after its own with the phase of its command and
just as much left to send as its identification promises, `Rest`), for the pads with one mode, for a
poll and for each command of the configuration mode of a DualShock (`ConfigAt`). Its modes, which
choose the identification, stay what they are until the length of the answer is settled (`ModesOf`):
the mode's button waits for the end of the transfer, the commands that change a mode (0x43, 0x44)
have their answer laid out by then, and the option that sets the mode makes the transfer `odd`.

**Multitap** (`Multitap_proofs`). `SlotsAreOwn` is about a full transfer, in which the tap sends each
pad its eight bytes and gathers what it answers, and sends in the next one what this one brought.
`PortMotors` says that every DualShock has its two motors, and `PortTaps` that the rows of the tap
are whole and that it keeps what it has gathered (`again`) only from a full transfer that came to its
end. `PortSlots` follows the bytes, for the pads that are polled: what a transfer tells each pad is
what the last one brought for its slot (`told`), or a plain poll if that one was broken off
(`Between`); of the places of the rows, those the transfer has passed hold what was said and the
others still what is told (`Bytes`), which are the same places in the order of the slots; each pad is
where a poll of its own has brought it (`SlotAt`), although its bytes are clocked while another's are
answered; and its identification has come into its row and from there to the game (`HeardFrom`). A
tap that gives up in the middle sends nothing and keeps nothing (`Going`), and one that does not
hears every pad. It gives `SlotsDoHold` for every setup with a multitap, through transfers broken off
at any byte, saved, loaded and reset anywhere.

Assumptions of both:
`PortAssumption`, `CardAssumption`, `PadAssumption`, `ComboAssumption` and `SubPortsAssumption`.

**DMA** (`DMA_proofs`). The properties are not inductive: that a transfer ends with its last
word depends on what its counters mean. The invariant adds `Follows`: while a transfer is
followed, the words moved and `Left`, the words that `WordCounter`, the size and the remaining
blocks stand for, add up to the words it was told; and the next address is where the loop will
look for it, in `CurAddr` within a block and in `BaseAddr` between blocks and chops. With it
`HaltFollows`, `LineFollows` and `StopHolds` (a channel being stopped is off) tie the outputs to
the channels. `TransferStep` is the heart: moving a word takes one from `Left`, through the
wrapping counters. It gives `TypeCorrect`, `TransfersExact`, `OutputsCurrent`, `StoppedEmpty`
and `EndsSignalled` for every memory, every set of channels and every sequence of writes.
Assumption: `DMAAssumption`.

**MDEC** (`DMA_proofs`). Neither property is inductive: that a block fits depends on the counter of
words the decoder checks when the block begins, and that a picture is whole on everything a word
passes on its way. `PictureInv` follows one command. The game has sent it (`Sent`), the coroutine has
taken it (`Begun`), works on it (`Works`), or is done and skips the padding of the last block
(`Over`); at each stage `Supplied` says how many of the words in the FIFO are the command's and how
many the game still owes. `Linked` is `BlocksFit` with what it rests on: a channel is on only for a
command, the output only for a picture, and what is left of a block fits. `Unread` is why emptying
the output at the start of a command takes no word from a block: the channel has not begun one.
`InStream` says that the words in the output FIFO, then those of the block being given out, go on
where the picture ends, and that the number of blocks encoded accounts for all of them; `InRow` that
`RAMOffsetY` and `RAMOffsetCounter` are the row and the place of the next word. `OffsetIsPlace`, with
`RowsRepeat` for the wrapping of the row counter, shows that the offset of that row brings the word
to its place in the square of four blocks. Each stretch of the coroutine keeps all of it
(`AdvanceKeeps`), and so does each call of a channel or of the game. It gives `BlocksDoFit` and
`PicturesAreWhole` for every size of the FIFOs, number of rows, set of commands and words, and every
timing. Assumption: `MDECAssumption`; it asks that the rows of two blocks divide 256 and that the
words of a row fit a byte, since the row counters are bytes (mdec.cpp:108), and that the words of a
table fit the counter of 16 bits.

**Front panel** (`FrontIO_proofs`). The invariant is `TypeOK /\ Timely /\ SavedTimely`: the event
is not after any of the five counters behind it, counted from `lastts`, and the same of a saved
state relative to the event that loading it sets. `SavedTimely` is needed because a state is
loaded at another time than it was saved. It gives `TypeCorrect`, `NothingLate` and
`ShotsDoArrive` for every length of a byte, every set of lines, rates and delays.
`ExchangesStayWhole` and `AcksDoArrive` rest on more (`StepInv`). `Whole` says that what the game
triggered is settled (no trigger is left over, and a busy controller has its transmitter or its
receiver enabled) and that an undisturbed transfer is `InStep`: the devices that listen are the
selected ones; their position, the transmit counter and the receive counter are at the same bit;
and the bits heard and received so far are those sent and said. `Acked` says that an acknowledge to
come is due at `lastts` plus what is left of its delay. `SavedWhole` says the same of a saved state,
since the clock keeps running between saving and loading. Neither invariant is visible in the
properties, which only speak of a byte's end.
Assumption: `FrontIOAssumption` (delays are shorter than the far end of time).

**CD-ROM controller** (`CDROM_proofs` too, which is why `CDC` names its
`CDC_Init`, `CDC_Next` and `CDC_Spec` apart). The invariant is `Sound(cd) /\ Answering(cd, owed) /\
(quiet => Hushed(cd))`. `Sound` gathers what every procedure of the controller may rely on:
`Calm` (what waits for the interrupt register waits alone, and the register is free when a
counter ends that writes it), `Runs` (a moving drive has a running counter), a moving drive has a
disc, and a second answer's preconditions still hold when it comes. Neither is inductive by itself:
an answer may be sent because the command that awaits it excluded the notification of the drive,
which the phase of the drive says. Each procedure has a lemma that it keeps `Sound`, each action
one that it keeps the invariant. It gives `AssertionsDoHold`, `DriveDoesRun`, `AnswersDoCome`
and the action property `DataDoesStop`, for every disc, every set of commands and arguments.
`ArgumentsDoBelong` adds `Belonging`: what the game wrote for a command is the FIFO before the
transfer, what was received with the latch and the FIFO during it, and what was received at its
end. The arguments fit the buffer of 32 bytes since `MaxArgs` is at most 16, the FIFO's size.
`SectorsDoComeInOrder` adds `StreamInv`: the pipe holds the sectors before the current one
(`Piped`), a read that seeks has an empty pipe and is at its target, and what the game expects next
is, in each state of the drive, what the drive will deliver next (`Expected`): the target of the
seek, the oldest sector of the pipe, or after a pause a sector the drive went back to. A pause goes
back by what was read since the seek, which the pipe exceeds only once it delivers: that is why
nothing is left out. A command is one of six things to a read (`Obeys`: it leaves it alone, ends
it, goes back, sets a position, begins one, or lets it go on), and each keeps `StreamInv`.
A failed assertion stops the controller where it was (`Dead`, `Fails`): that only ReadTOC without a
disc gets there is part of the invariant. Assumption: `CDCAssumption`.

**GPU** (`GPU_proofs`). The invariant is `TypeOK /\ QueueInv /\ BeamInv`. `QueueInv` says that
the words in the queue go on where the last word taken stopped and that the sender goes on where
they end (`InOrder`, `Between`); that what the queue is at is a part of the command of the last
word (`AtPart`: the pixels left of an image, the second half of a quad, the point of a polyline);
and that a block still has the room its sender saw (`HasRoom`), without which a word could be
dropped. `BeamInv` says that a running frame that has seen line 0 is not at its last line. Both
need the other's frame only through the resets. It gives `TypeCorrect`,
`CommandsDoKeepTheirWords` and `FramesAreFields`, for every set of commands, every size of the
queue, and every timing. Assumptions: `GPUAssumption` and `BeamAssumption`.

Only model-checked: liveness (`ImplementsST` and `ImplementsFIFO` beyond safety,
`RequestsAreAnswered`, `CPUIsReleased`, `CommandsEnd`, `SenderIsServed`), which needs ENABLED;
`CountsEveryClock`, whose abstract counters are stepped clock by clock within one update. Every invariant that a run
checks has a theorem.
What holds up to an exception states it: the runs expected to fail show the exceptions. Where a
`TypeOK` is not in a run's configuration it is either proved (`CDIF_MT`, `CDIF_Queue`,
`EventLoop`, `Interrupts`, `Timer`, `DMA`, `FrontIO`, `GPU`) or states the types for the reader.


## 5. Observations about the code

Met while modelling. The four findings have a run that shows them (section 3); a property that one
of them breaks says so in its comment. The others are outside of what the properties speak of.

Discs:

- After an insertion failed, trying again reports success with the table of contents that failed
  (cdromif.cpp:257 and 728); the header says "an exception will be thrown" and that one "can try
  again" (cdromif.h:46).
- `disk_set_eject_state` records the state asked for also when the insertion fails, so that
  `eject_state` and the tray differ (libretro.cpp:2262).
- Finding `disc_loads`: a state saved with the tray closed and loaded with it open leaves the drive
  reading an image that the frontend may then replace, and its interface is deleted
  (libretro.cpp:1761; the frontend is told that the tray is open).
- Finding `disc_removes`: removing the selected last image leaves a selection past the end of the
  list, which the next insertion dereferences (libretro.cpp:2331).
- An index that was added and not filled is a null pointer in the list: each insertion and ejection
  dereferences every entry (libretro.cpp:1795), and so does a removal (CalcDiscSCEx). libretro.h
  only says that it "cannot be used".
- Loading a state compares the selected disc with the number of interfaces, which is one for a PBP
  file: a state saved with its second disc in the drive loads with none (libretro.cpp:1758).
- `sthread_create` may return null; the constructor then waits for ever (cdromif.cpp:418).

CD-ROM controller:

- Finding `cdc_read_toc`: `ReadTOC` without a disc sends an acknowledgement and then an error at once,
  which the assertion at cdc.cpp:370 forbids (cdc.cpp:2308 and 2312; `NDEBUG` is only set in
  jni/Android.mk:53).
- Reset's COMPLETE is lost when an interrupt is unacknowledged as it completes, or when the start-up
  delay ends meanwhile. An eject in the start-up delay leaves the drive paused with its tray open.
  An eject drops the command that was not answered yet.
- Announcements of sectors are skipped when the game acknowledges slowly. The subchannel of the
  newest sector decides about the older one that is delivered. Reading past the lead-out stops
  without a word.
- Stop or ReadTOC while reading, then ReadN without Setloc, skips the two sectors in the pipe; Pause
  goes back for them.
- A failed SeekL also completes with COMPLETE. Arguments left over go to the next command. Init and
  Test with 0x51 or 0x75 never answer. Backward and then Pause can make `CurSector` negative.

Serial port:

- A memory card file is written without a look at what was written (`frontio.cpp:926`: a short write
  counts as a whole one, and the dirty count is reset after it).
- The dirty flag `data_used` stays false for a card that was loaded from a file, so states omit its
  contents (memcard.cpp:61). A write that is broken off stores nothing, and restarts the delay of
  saving all the same.
- A poll that is broken off after its identification loses the presses and the movement gathered
  since the last. The GunCon loses a press made during an off-screen shot.
- `dtr` of the multitap is neither initialised nor reset by `FrontIO::Power`; the neGcon has no
  `StateAction`. A digital DualShock with a third motor byte mapped sends bytes beyond its length.
- `SetAMCT` changes the mode in the middle of a transfer. `SetInput` leaves the acknowledge of the
  device it removes (frontio.cpp:823).

Timers, DMA, interrupts, CPU:

- A repeating timer with a target of zero resets its IRQ done flag and interrupts at every update
  (timer.cpp:185-190, against the comment at timer.cpp:57-58).
- Finding `timer_overflow`: the overflow flag 0x1000, "Set when counter overflows from 0xFFFF->0"
  (timer.cpp:53), is not set in target mode, in which a counter started above its target does
  overflow (timer.cpp:213).
- A timer with a target within 1024 of 0x10000, and without its interrupt, loses the clocks between
  target and end when one batch takes it past both (timer.cpp:209-219). `RootCounters` allows that
  (`Restarts`), and only that.
- After an address error a DMA channel's counter stays above zero: every update raises the
  forced interrupt again, and a chopped channel moves words while it is off once its base address
  is rewritten (`failed` in `DMA`'s history exempts them from `StoppedIsEmpty`).
- A chopped transfer of blocks (sync 1 with bit 8) treats the blocks after the first as 0x10000
  words, because the saved counter is zero; no document says what it should do, and the model does
  not follow it.
- A byte written to an odd address of the interrupt registers is shifted, and the byte below it is
  written as zero (irq.cpp:79). A GTE instruction runs although the CPU is halted (cpu.cpp:696).

MDEC and GPU:

- A decode command with a count of zero means 65536 words, but `MDEC_DMACanWrite` refuses the first
  of them, since `InCounter` is then 0xFFFF (mdec.cpp:708). Less than a block of words left of a
  picture stays readable until the next command. `MDEC_Read` of data neither advances `RAMOffset`
  nor lets the coroutine go on.
- `InQuad_clut` is not in the saved state: one that is saved between the two halves of a quad loads
  with the palette of another. The texture cache is copied to `TexCache_Tag` and `TexCache_Data`
  before saving and back after loading, but they are not in `StateRegs` (gpu.cpp:1697-1864): after a
  load the cache holds texels of the memory before it, until something invalidates it.
- A block that ends inside a command past its `fifo_fb_len` words leaves the ready bit off, and DMA
  does not go on: a list of packets must end each with a whole command (`MayPause`). A packet
  longer than 0x10 words is not checked again (dma.cpp:357) and overflows the queue silently
  while drawing waits.
- A display whose `VertStart` and `VertEnd` are equal never has a vertical blank.


## 6. Not modelled

- Data: pixels, textures, samples, sector contents, the words DMA moves, instruction results,
  caches and the load delay slot of the CPU; exceptions other than interrupts, and the BEV vector.
- Timers: saved states, the debugger's writes, byte lanes. DMA: clocks, cycle stealing, MDEC's write
  offsets, the DMAControl register (which has no effect in the code), saved states.
- CDC: the results FIFO, acknowledging single bits of the interrupt register, its mask and bit
  0x10, volumes and XA decoding, the DMA buffer. Loading a state is loading one that was just
  saved, with its disc still there or gone.
- Front panel: ports that are connected crosswise, crosshairs; `sio.cpp` is a stub. `FrontIO`'s
  devices are pads, which `FrontIO::Power` powers; a multitap it leaves as it is, which `SerialPort`
  has.
- MDEC: saved states, a reset in the middle of a running block of DMA, blocks of more than 0x20
  words, colours and coefficients. GPU: rasterisation and the readout of lines, the data registers
  of GP1 (0x03, 0x04, 0x05, 0x09, 0x10), saved states, games that write GP0 without waiting.
- Of `CDIF`: `CDIF_Stream_Thing` and `ReadSector`, loops over `ReadRawSector`. The failure of
  `sthread_create`.
- SPU, GTE, state chunks, `SimpleFIFO`/`FastFIFO`, the parsing of disc images and CD utilities are
  sequential computation over data; section 7 has what of them is worth stating.
- Files, settings, cheats, debugger, renderers and vendored libraries: input and output, data, or
  other people's code. `rthreads` is used with the promises its callers rely on. They are most
  of the repository's lines.


## 7. Plan

Done, in the order the system needs them: (1) CD interface with its queue; (2) event loop;
(3) disk control; (4) interrupts; (5) timers; (6) DMA; (7) front panel with pads, cards and
multitap; (8) CD-ROM controller; (9) MDEC with its channels; (10) the GPU's queue and beam.

Next:

11. Saved states of the GPU between two parts of a command, and of MDEC in the middle of a
    macroblock; the SPU's transfer FIFO and interrupt; its envelopes as operators against a
    reference.
12. `SimpleFIFO`/`FastFIFO` as refinements of a bounded queue; `CDUtility` conversions; `State`
    chunks with old and truncated states; the GTE's flags.

Theorems to come: the step correspondence of `CountsEveryClock` for one update.

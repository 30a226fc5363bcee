------------------------------- MODULE CDIF_MT -------------------------------
(***************************************************************************)
(* The threaded CD interface of mednafen/cdrom/cdromif.cpp: the emulation  *)
(* thread (the client) asks for sectors and tray changes; a read thread    *)
(* owns the CDAccess object, reads ahead of the client and publishes what  *)
(* it reads in a ring of sector buffers.                                   *)
(*                                                                         *)
(* The two threads share                                                   *)
(*   - ReadThreadQueue, messages to the read thread, and EmuThreadQueue,   *)
(*     its replies,                                                        *)
(*   - SectorBuffers, guarded by SBMutex/SBCond while sectors flow,        *)
(*   - disc_toc, the tray and (on a tray change) SectorBuffers again,      *)
(*     guarded by nothing but the order of the messages.                   *)
(*                                                                         *)
(* A queue operation is one step (module CDIF_Queue shows that the mutex   *)
(* and condition variable of a queue implement that); a critical section   *)
(* on SBMutex is a lock step, a body step and an unlock step.              *)
(***************************************************************************)
EXTENDS CDAccess, Sequences

CONSTANTS
  MaxLBA,       \* bound: the highest LBA a client asks for
  MaxQueue,     \* bound: requests pending when another is posted (the code has none:
                \* a read that hits the ring returns before its request is taken)
  SBSize,       \* slots in SectorBuffers (256 in the code)
  max_ra,       \* furthest read-ahead (16 in the code)
  initial_ra,   \* sectors read after a seek (1 in the code)
  speedmult_ra  \* sectors read per sequential request (2 in the code)

ASSUME BoundsAssumption == MaxLBA \in Nat /\ MaxQueue \in Nat
\* The code asserts max_ra < SBSize / 4; only this much of it is needed.
ASSUME ReadAheadAssumption == /\ SBSize \in Nat /\ max_ra \in Nat
                              /\ max_ra < SBSize
                              /\ initial_ra \in 1 .. max_ra + 1
                              /\ speedmult_ra \in Nat \ {0}

VARIABLES
  emu_pc,           \* where the emulation thread is inside a CDIF_MT call
  emu_arg,          \* the argument of that call: an LBA, or 1/0 for eject/insert
  buf,              \* the sector the current read has copied out of the ring
  tray_open,        \* the client's view of the tray (CD_TrayOpen of libretro.cpp)
  CD_SelectedDisc,  \* the disc a PBP file switches to on the next insert, -1 for none
  rt_pc,            \* where the read thread is
  tmpbuf,           \* the sector read from the disc and not yet published
  Running, ra_lba, ra_count, last_read_lba,
  ReadThreadQueue, EmuThreadQueue,
  SBMutex,          \* the thread that holds it
  SectorBuffers, SBWritePos,
  disc_toc, DiscEjected,
  cda_disc          \* the disc the CDAccess object reads sectors from

emuVars  == <<emu_pc, emu_arg, buf, tray_open, CD_SelectedDisc>>
raVars   == <<ra_lba, ra_count, last_read_lba>>
sbVars   == <<SectorBuffers, SBWritePos>>
discVars == <<disc_toc, DiscEjected, cda_disc>>
rtVars   == <<rt_pc, tmpbuf, Running>>
queues   == <<ReadThreadQueue, EmuThreadQueue>>
vars     == <<emuVars, raVars, sbVars, discVars, rtVars, queues, SBMutex>>

------------------------------------------------------------------------------
LBAs  == 0 .. MaxLBA
NoLBA == -1                     \* ~0U: nothing asked for yet
Slots == 0 .. SBSize - 1

READ_SECTOR(lba) == [message |-> "READ_SECTOR", arg |-> lba]
EJECT(status)    == [message |-> "EJECT", arg |-> status]
DIEDIEDIE        == [message |-> "DIEDIEDIE", arg |-> 0]
Messages == [message : {"READ_SECTOR"}, arg : LBAs]
              \cup [message : {"EJECT"}, arg : {0, 1}] \cup {DIEDIEDIE}
Replies  == {"DONE", "FATAL_ERROR"}

MinOf(a, b) == IF a < b THEN a ELSE b

\* The slots ReadRawSector accepts for lba, and the one its loop copies last.
Holding(lba)  == {i \in Slots : SectorBuffers[i].valid /\ SectorBuffers[i].lba = lba}
LastOf(slots) == CHOOSE i \in slots : \A j \in slots : j <= i

Init ==
  /\ emu_pc = "ctor" /\ emu_arg = 0 /\ buf = EmptySector
  /\ tray_open = FALSE /\ CD_SelectedDisc = 0 /\ cda_disc = 0
  /\ rt_pc = "start" /\ tmpbuf = EmptySector /\ Running = TRUE
  /\ ra_lba = 0 /\ ra_count = 0 /\ last_read_lba = NoLBA
  /\ ReadThreadQueue = <<>> /\ EmuThreadQueue = <<>>
  /\ SBMutex = "none" /\ SBWritePos = 0
  /\ SectorBuffers = [i \in Slots |-> EmptySector]
  /\ disc_toc = EmptyToc
  /\ DiscEjected = FALSE

------------------------------------------------------------------------------
(***************************************************************************)
(* The read thread.                                                        *)
(***************************************************************************)
Reply(msg) == EmuThreadQueue' = Append(EmuThreadQueue, msg)
\* CDIF_Queue::Read by the emulation thread.
TakeReply == EmuThreadQueue' = Tail(EmuThreadQueue)

\* The tail of RT_EjectDisc: forget every request and every buffered sector.
\* (Mutants: the memset is dropped; the last request is remembered.)
ForgetSectors_KeepBuffers ==
  /\ SBWritePos' = 0 /\ ra_lba' = 0 /\ ra_count' = 0 /\ last_read_lba' = NoLBA
  /\ UNCHANGED SectorBuffers
ForgetSectors_KeepRequest ==
  /\ SBWritePos' = 0 /\ ra_lba' = 0 /\ ra_count' = 0
  /\ SectorBuffers' = [i \in Slots |-> EmptySector]
  /\ UNCHANGED last_read_lba
ForgetSectors ==
  /\ SBWritePos' = 0 /\ ra_lba' = 0 /\ ra_count' = 0 /\ last_read_lba' = NoLBA
  /\ SectorBuffers' = [i \in Slots |-> EmptySector]

\* Read_TOC on disc d succeeds and its track numbers are in order ...
TocGood(d) ==
  /\ disc_toc' = GoodToc(d)
  /\ ForgetSectors
\* ... or something throws, and the rest of the function is skipped.
TocBad(d) ==
  /\ disc_toc' \in BadTocs(d)
  /\ UNCHANGED <<raVars, sbVars>>

\* The thread starts by inserting the disc the CDAccess object was opened with.
RT_Start ==
  /\ rt_pc = "start"
  /\ DiscEjected' = FALSE
  /\ \/ TocGood(cda_disc) /\ Reply("DONE") /\ rt_pc' = "fetch"
     \/ TocBad(cda_disc) /\ Reply("FATAL_ERROR") /\ rt_pc' = "done"
  /\ UNCHANGED <<emuVars, cda_disc, tmpbuf, Running, ReadThreadQueue, SBMutex>>

\* How many sectors to read after a sequential request.
SequentialCount(how_far_ahead) ==
  IF how_far_ahead <= max_ra
    THEN MinOf(speedmult_ra, 1 + max_ra - how_far_ahead)
    ELSE ra_count + 1

\* What a READ_SECTOR message does to the read-ahead window.
RequestSector(new_lba) ==
  /\ last_read_lba' = new_lba
  /\ \/ /\ last_read_lba # NoLBA /\ new_lba = last_read_lba + 1
        /\ ra_count' = SequentialCount(ra_lba - new_lba)
        /\ UNCHANGED ra_lba
     \/ /\ ~(last_read_lba # NoLBA /\ new_lba = last_read_lba + 1)
        /\ new_lba # last_read_lba
        /\ ra_lba' = new_lba /\ ra_count' = initial_ra
     \/ /\ new_lba = last_read_lba
        /\ UNCHANGED <<ra_lba, ra_count>>

\* Take a message; block for one only when there is nothing to read ahead.
RT_Fetch ==
  /\ rt_pc = "fetch"
  /\ \/ /\ ReadThreadQueue = <<>> /\ ra_count > 0
        /\ rt_pc' = "check"
        /\ UNCHANGED <<ReadThreadQueue, raVars, Running>>
     \/ /\ ReadThreadQueue # <<>>
        /\ ReadThreadQueue' = Tail(ReadThreadQueue)
        /\ LET msg == Head(ReadThreadQueue)
           IN \/ /\ msg.message = "DIEDIEDIE"
                 /\ Running' = FALSE /\ rt_pc' = "check"
                 /\ UNCHANGED raVars
              \/ /\ msg.message = "EJECT"
                 /\ rt_pc' = IF msg.arg = 1 THEN "eject" ELSE "insert"
                 /\ UNCHANGED <<Running, raVars>>
              \/ /\ msg.message = "READ_SECTOR"
                 /\ RequestSector(msg.arg) /\ rt_pc' = "check"
                 /\ UNCHANGED Running
  /\ UNCHANGED <<emuVars, sbVars, discVars, tmpbuf, EmuThreadQueue, SBMutex>>

\* RT_EjectDisc and its reply.  None of this is done under SBMutex.
RT_EjectDisc(eject_status) ==
  /\ rt_pc = IF eject_status THEN "eject" ELSE "insert"
  /\ DiscEjected' = eject_status
  /\ cda_disc' = IF DiscEjected # eject_status
                   THEN DiscAfterEject(eject_status, CD_SelectedDisc, cda_disc)
                   ELSE cda_disc
  /\ \/ /\ DiscEjected = eject_status
        /\ Reply("DONE")
        /\ UNCHANGED <<disc_toc, raVars, sbVars>>
     \/ /\ ~DiscEjected /\ eject_status
        /\ ForgetSectors /\ Reply("DONE")
        /\ UNCHANGED disc_toc
     \/ /\ DiscEjected /\ ~eject_status
        /\ \/ TocGood(cda_disc') /\ Reply("DONE")
           \/ TocBad(cda_disc') /\ Reply("FATAL_ERROR")
  /\ rt_pc' = "check"
  /\ UNCHANGED <<emuVars, tmpbuf, Running, ReadThreadQueue, SBMutex>>

NextIteration(running) == rt_pc' = IF running THEN "fetch" ELSE "done"

\* Stop at the lead-out; otherwise read the next sector, which may fail.
RT_ReadAhead ==
  /\ rt_pc = "check"
  /\ \/ /\ ra_count = 0 \/ ra_lba = disc_toc.end
        /\ ra_count' = 0
        /\ NextIteration(Running)
        /\ UNCHANGED tmpbuf
     \/ /\ ra_count > 0 /\ ra_lba # disc_toc.end
        /\ tmpbuf' \in SectorsRead(cda_disc, ra_lba)
        /\ rt_pc' = "lock"
        /\ UNCHANGED ra_count
  /\ UNCHANGED <<emuVars, ra_lba, last_read_lba, sbVars, discVars, Running, queues, SBMutex>>

RT_Lock ==
  /\ rt_pc = "lock" /\ SBMutex = "none"
  /\ SBMutex' = "rt" /\ rt_pc' = "store"
  /\ UNCHANGED <<emuVars, raVars, sbVars, discVars, tmpbuf, Running, queues>>

NextSlot(i)        == (i + 1) % SBSize

\* scond_signal(SBCond): the waiter goes on to take the mutex again (mutant: lost).
SignalBuffers_Lost == UNCHANGED emu_pc
SignalBuffers      == emu_pc' = IF emu_pc = "sbwait" THEN "sblock" ELSE emu_pc

\* Fill the slot and signal SBCond while the mutex is held.
RT_Store ==
  /\ rt_pc = "store" /\ rt_pc' = "unlock"
  /\ SectorBuffers' = [SectorBuffers EXCEPT ![SBWritePos] = tmpbuf]
  /\ SBWritePos' = NextSlot(SBWritePos)
  /\ SignalBuffers
  /\ UNCHANGED <<emu_arg, buf, tray_open, CD_SelectedDisc, raVars, discVars,
                 tmpbuf, Running, queues, SBMutex>>

RT_Unlock ==
  /\ rt_pc = "unlock"
  /\ SBMutex' = "none"
  /\ ra_lba' = ra_lba + 1 /\ ra_count' = ra_count - 1
  /\ tmpbuf' = EmptySector          \* out of scope
  /\ NextIteration(Running)
  /\ UNCHANGED <<emuVars, last_read_lba, sbVars, discVars, Running, queues>>

ReadThread == \/ RT_Start \/ RT_Fetch
              \/ \E eject_status \in BOOLEAN : RT_EjectDisc(eject_status)
              \/ RT_ReadAhead \/ RT_Lock \/ RT_Store \/ RT_Unlock

------------------------------------------------------------------------------
(***************************************************************************)
(* The emulation thread: one CDIF_MT call at a time.                       *)
(***************************************************************************)
Post(msg) == ReadThreadQueue' = Append(ReadThreadQueue, msg)

\* The rest of the constructor: wait for the read thread's first reply.
Constructor ==
  /\ emu_pc = "ctor" /\ EmuThreadQueue # <<>>
  /\ TakeReply
  /\ emu_pc' = IF Head(EmuThreadQueue) = "DONE" THEN "idle" ELSE "join"
  /\ UNCHANGED <<emu_arg, buf, tray_open, CD_SelectedDisc, raVars, sbVars,
                 discVars, rtVars, ReadThreadQueue, SBMutex>>

\* CDSelect: with the tray open, choose the disc of the next insert.
SelectDisc ==
  /\ emu_pc = "idle" /\ tray_open
  /\ CD_SelectedDisc' \in -1 .. DiscCount - 1
  /\ UNCHANGED <<emu_pc, emu_arg, buf, tray_open, raVars, sbVars, discVars,
                 rtVars, queues, SBMutex>>

\* SetDisc gives the drive no disc while the tray is open or none is selected; only the
\* licence check of a replaced image (never a PBP file) reads one then.
MayRead == CD_IsPBP => ~tray_open /\ CD_SelectedDisc >= 0

HintReadSector(lba) ==
  /\ emu_pc = "idle" /\ MayRead /\ Len(ReadThreadQueue) < MaxQueue
  /\ Post(READ_SECTOR(lba))
  /\ UNCHANGED <<emuVars, raVars, sbVars, discVars, rtVars, EmuThreadQueue, SBMutex>>

\* ReadRawSector, and ReadRawSectorPWOnly around it.
ReadRawSector(lba) ==
  /\ emu_pc = "idle" /\ MayRead /\ Len(ReadThreadQueue) < MaxQueue
  /\ lba < disc_toc.end           \* at or past the lead-out it only returns FALSE
  /\ Post(READ_SECTOR(lba))
  /\ emu_arg' = lba /\ emu_pc' = "sblock"
  /\ UNCHANGED <<buf, tray_open, CD_SelectedDisc, raVars, sbVars, discVars, rtVars,
                 EmuThreadQueue, SBMutex>>

LockBuffers ==
  /\ emu_pc = "sblock" /\ SBMutex = "none"
  /\ SBMutex' = "emu" /\ emu_pc' = "scan"
  /\ UNCHANGED <<emu_arg, buf, tray_open, CD_SelectedDisc, raVars, sbVars,
                 discVars, rtVars, queues>>

\* One pass over the ring: copy the sector out, or give the mutex up and wait.
ScanBuffers ==
  /\ emu_pc = "scan"
  /\ \/ /\ Holding(emu_arg) # {}
        /\ buf' = SectorBuffers[LastOf(Holding(emu_arg))]
        /\ emu_pc' = "sbunlock" /\ UNCHANGED SBMutex
     \/ /\ Holding(emu_arg) = {}
        /\ emu_pc' = "sbwait" /\ SBMutex' = "none" /\ UNCHANGED buf
  /\ UNCHANGED <<emu_arg, tray_open, CD_SelectedDisc, raVars, sbVars, discVars, rtVars, queues>>

\* A condition variable may wake its waiter without a signal.
SpuriousWakeup ==
  /\ emu_pc = "sbwait" /\ emu_pc' = "sblock"
  /\ UNCHANGED <<emu_arg, buf, tray_open, CD_SelectedDisc, raVars, sbVars,
                 discVars, rtVars, queues, SBMutex>>

ReturnSector ==
  /\ emu_pc = "sbunlock"
  /\ SBMutex' = "none" /\ emu_pc' = "idle"
  /\ emu_arg' = 0 /\ buf' = EmptySector
  /\ UNCHANGED <<tray_open, CD_SelectedDisc, raVars, sbVars,
                 discVars, rtVars, queues>>

\* Eject(eject_status) posts its message and blocks for the reply ...
\* (Mutant: it does not block.)
Eject_NoWait(eject_status) ==
  /\ emu_pc = "idle"
  /\ Post(EJECT(eject_status))
  /\ tray_open' = (eject_status = 1)
  /\ UNCHANGED <<emu_pc, emu_arg, buf, CD_SelectedDisc, raVars, sbVars, discVars,
                 rtVars, EmuThreadQueue, SBMutex>>
Eject(eject_status) ==
  /\ emu_pc = "idle"
  /\ Post(EJECT(eject_status))
  /\ emu_arg' = eject_status /\ emu_pc' = "msgwait"
  /\ UNCHANGED <<buf, tray_open, CD_SelectedDisc, raVars, sbVars, discVars,
                 rtVars, EmuThreadQueue, SBMutex>>

\* ... CDInsertEject then moves its own tray flag only if the call succeeded.
EjectReturns ==
  /\ emu_pc = "msgwait" /\ EmuThreadQueue # <<>>
  /\ TakeReply
  /\ tray_open' = IF Head(EmuThreadQueue) = "DONE" THEN emu_arg = 1 ELSE tray_open
  /\ emu_pc' = "idle" /\ emu_arg' = 0
  /\ UNCHANGED <<buf, CD_SelectedDisc, raVars, sbVars, discVars, rtVars,
                 ReadThreadQueue, SBMutex>>

\* The destructor.
Destroy ==
  /\ emu_pc = "idle"
  /\ Post(DIEDIEDIE) /\ emu_pc' = "join"
  /\ UNCHANGED <<emu_arg, buf, tray_open, CD_SelectedDisc, raVars, sbVars,
                 discVars, rtVars, EmuThreadQueue, SBMutex>>

JoinThread ==
  /\ emu_pc = "join" /\ rt_pc = "done"
  /\ emu_pc' = "gone"
  /\ UNCHANGED <<emu_arg, buf, tray_open, CD_SelectedDisc, raVars, sbVars,
                 discVars, rtVars, queues, SBMutex>>

\* The object is destroyed: nothing more happens.
Gone == emu_pc = "gone" /\ UNCHANGED vars

EmuContinues == Constructor \/ LockBuffers \/ ScanBuffers \/ ReturnSector
                  \/ EjectReturns \/ JoinThread

EmuCalls == \/ SelectDisc
            \/ \E lba \in LBAs : HintReadSector(lba) \/ ReadRawSector(lba)
            \/ \E eject_status \in {0, 1} : Eject(eject_status)
            \/ Destroy

Next == ReadThread \/ EmuContinues \/ EmuCalls \/ SpuriousWakeup \/ Gone

\* Both threads are scheduled; nobody has to start another call, and no wakeup
\* has to be spurious.  However often one is, the read thread gets the mutex in
\* the end: without this, spurious wakeups could keep it away for ever.
Fairness == WF_vars(ReadThread) /\ WF_vars(EmuContinues) /\ SF_vars(RT_Lock)

Spec == Init /\ [][Next]_vars /\ Fairness

------------------------------------------------------------------------------
TypeOK ==
  /\ emu_pc \in {"ctor", "idle", "sblock", "scan", "sbwait", "sbunlock", "msgwait", "join", "gone"}
  /\ emu_arg \in LBAs \cup {0, 1}
  /\ buf \in Sector
  /\ tray_open \in BOOLEAN /\ CD_SelectedDisc \in -1 .. DiscCount - 1
  /\ rt_pc \in {"start", "fetch", "eject", "insert", "check", "lock", "store", "unlock", "done"}
  /\ tmpbuf \in Sector /\ Running \in BOOLEAN
  /\ ra_lba \in Nat /\ ra_count \in Nat /\ last_read_lba \in LBAs \cup {NoLBA}
  /\ ReadThreadQueue \in Seq(Messages) /\ EmuThreadQueue \in Seq(Replies)
  /\ SBMutex \in {"none", "emu", "rt"}
  /\ SectorBuffers \in [Slots -> Sector] /\ SBWritePos \in Slots
  /\ disc_toc \in Tocs /\ DiscEjected \in BOOLEAN /\ cda_disc \in Discs

(***************************************************************************)
(* RT_EjectDisc rewrites the table of contents, the tray and all sector    *)
(* buffers without SBMutex.  That is safe only because the one thread that *)
(* could look at them is blocked until the reply: whenever the read thread *)
(* is inside RT_EjectDisc, the emulation thread is waiting for a message.  *)
(***************************************************************************)
TrayChangeIsExclusive ==
  /\ rt_pc = "start" => emu_pc = "ctor"
  /\ rt_pc \in {"eject", "insert"} => emu_pc = "msgwait"

(***************************************************************************)
(* While the emulation thread holds SBMutex to scan and copy, no step of   *)
(* the read thread, under the mutex or not, moves the ring under it.       *)
(***************************************************************************)
RingHeldStill == [][SBMutex = "emu" => UNCHANGED sbVars]_vars

(***************************************************************************)
(* The reply in EmuThreadQueue always answers the call that is waiting for *)
(* one: there is at most one, and none is left over for the next call.     *)
(***************************************************************************)
OneReplyPerCall ==
  /\ Len(EmuThreadQueue) <= 1
  /\ EmuThreadQueue # <<>> => emu_pc \in {"ctor", "msgwait"}

(***************************************************************************)
(* While the emulation thread looks or waits for a sector, its request is  *)
(* still queued, or the sector is in the ring, or the read thread is about *)
(* to read or publish it: a request for the sector last asked for is       *)
(* dropped by the read thread, so that one must never have left the ring.  *)
(***************************************************************************)
RequestNotLost ==
  emu_pc \in {"sblock", "scan", "sbwait"} =>
    \/ \E i \in DOMAIN ReadThreadQueue : ReadThreadQueue[i] = READ_SECTOR(emu_arg)
    \/ Holding(emu_arg) # {}
    \/ rt_pc \in {"check", "lock", "store"} /\ ra_lba = emu_arg /\ ra_count > 0

(***************************************************************************)
(* The read-ahead window: between two iterations the read thread has no    *)
(* more than max_ra + 1 sectors, read or to be read, past the last request *)
(* (so the ra_count++ branch for "too far ahead" is never reached).        *)
(***************************************************************************)
ReadAheadBounded ==
  rt_pc \in {"fetch", "check"} /\ last_read_lba # NoLBA =>
    ra_lba + ra_count <= last_read_lba + max_ra + 1

(***************************************************************************)
(* A sector handed to the client comes from the disc that is in the drive, *)
(* whatever discs were swapped since it was buffered.                      *)
(***************************************************************************)
NoStaleSector ==
  emu_pc = "sbunlock" => buf.disc = cda_disc /\ buf.lba = emu_arg

(***************************************************************************)
(* The threads implement the single-threaded interface: each call takes    *)
(* effect once, on the disc then in the drive, with a result CDIF_ST could *)
(* return, and is carried on whenever that one is.                         *)
(***************************************************************************)
STpc ==
  CASE emu_pc = "ctor"    -> IF EmuThreadQueue = <<>> THEN "ctor" ELSE "constructed"
    [] emu_pc \in {"sblock", "scan", "sbwait"} -> "read"
    [] emu_pc = "sbunlock" -> "have sector"
    [] emu_pc = "msgwait" -> IF EmuThreadQueue = <<>> THEN "eject" ELSE "ejected"
    [] emu_pc = "join"    -> "closing"
    [] OTHER              -> emu_pc

ST == INSTANCE CDIF_ST WITH
        pc <- STpc, arg <- emu_arg,
        result <- (EmuThreadQueue = <<>> \/ Head(EmuThreadQueue) = "DONE")

ImplementsST == ST!Spec

==============================================================================

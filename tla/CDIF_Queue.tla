----------------------------- MODULE CDIF_Queue -----------------------------
(***************************************************************************)
(* CDIF_Queue::Read and CDIF_Queue::Write of mednafen/cdrom/cdromif.cpp, a *)
(* mutex and a condition variable around a std::queue, called by one       *)
(* thread that reads (for ReadThreadQueue the read thread, for             *)
(* EmuThreadQueue the emulation thread) and one that writes.  Module       *)
(* CDIF_MT uses a queue operation as one step; ImplementsFIFO is why.      *)
(***************************************************************************)
EXTENDS Naturals, Sequences

CONSTANTS Posted, NoMessage,
          MaxPosted   \* bound: messages in the queue when another is written

ASSUME QueueAssumption == NoMessage \notin Posted /\ MaxPosted \in Nat

VARIABLES
  ze_queue,
  ze_mutex,    \* the thread that holds it: "none", "reader" or "writer"
  rd_pc,       \* where the reader is: "asleep" on ze_cond, and "woken" from it
               \* but still without the mutex
  blocking, message,
  wr_pc, written

queueVars == <<ze_queue, ze_mutex, rd_pc, blocking, message, wr_pc, written>>

Queue_Init ==
  /\ ze_queue = <<>> /\ ze_mutex = "none"
  /\ rd_pc = "idle" /\ blocking = FALSE /\ message = NoMessage
  /\ wr_pc = "idle" /\ written = NoMessage

------------------------------------------------------------------------------
\* CDIF_Queue::Read
Queue_Read(may_block) ==
  /\ rd_pc = "idle"
  /\ rd_pc' = "lock" /\ blocking' = may_block
  /\ UNCHANGED <<ze_queue, ze_mutex, message, wr_pc, written>>

ReadLock ==
  /\ rd_pc = "lock" /\ ze_mutex = "none"
  /\ ze_mutex' = "reader" /\ rd_pc' = IF blocking THEN "while" ELSE "take"
  /\ UNCHANGED <<ze_queue, blocking, message, wr_pc, written>>

\* scond_wait gives the mutex up and sleeps in one step.
Sleep == rd_pc' = "asleep" /\ ze_mutex' = "none"

Wait ==
  /\ rd_pc = "while"
  /\ \/ ze_queue = <<>> /\ Sleep
     \/ ze_queue # <<>> /\ rd_pc' = "take" /\ UNCHANGED ze_mutex
  /\ UNCHANGED <<ze_queue, blocking, message, wr_pc, written>>

\* scond_wait may return without a signal ...
WakesUnasked ==
  /\ rd_pc = "asleep" /\ rd_pc' = "woken"
  /\ UNCHANGED <<ze_queue, ze_mutex, blocking, message, wr_pc, written>>

\* ... and returns with the mutex, to the head of the loop (mutant: "just if").
Relocked_If == "take"
Relocked    == "while"

Relock ==
  /\ rd_pc = "woken" /\ ze_mutex = "none"
  /\ ze_mutex' = "reader" /\ rd_pc' = Relocked
  /\ UNCHANGED <<ze_queue, blocking, message, wr_pc, written>>

Take ==
  /\ rd_pc = "take"
  /\ \/ ze_queue = <<>> /\ message' = NoMessage /\ UNCHANGED ze_queue
     \/ ze_queue # <<>> /\ message' = Head(ze_queue) /\ ze_queue' = Tail(ze_queue)
  /\ rd_pc' = "unlock"
  /\ UNCHANGED <<ze_mutex, blocking, wr_pc, written>>

ReadUnlock ==
  /\ rd_pc = "unlock" /\ rd_pc' = "idle" /\ ze_mutex' = "none"
  /\ UNCHANGED <<ze_queue, blocking, message, wr_pc, written>>

------------------------------------------------------------------------------
\* CDIF_Queue::Write
Queue_Write(msg) ==
  /\ wr_pc = "idle" /\ Len(ze_queue) < MaxPosted
  /\ wr_pc' = "lock" /\ written' = msg
  /\ UNCHANGED <<ze_queue, ze_mutex, rd_pc, blocking, message>>

WriteLock ==
  /\ wr_pc = "lock" /\ ze_mutex = "none"
  /\ ze_mutex' = "writer" /\ wr_pc' = "push"
  /\ UNCHANGED <<ze_queue, rd_pc, blocking, message, written>>

Push ==
  /\ wr_pc = "push" /\ ze_queue' = Append(ze_queue, written) /\ wr_pc' = "signal"
  /\ UNCHANGED <<ze_mutex, rd_pc, blocking, message, written>>

\* scond_signal, with the mutex held.
Wakes == rd_pc = "asleep"

Signal ==
  /\ wr_pc = "signal" /\ wr_pc' = "unlock"
  /\ rd_pc' = IF Wakes THEN "woken" ELSE rd_pc
  /\ UNCHANGED <<ze_queue, ze_mutex, blocking, message, written>>

WriteUnlock ==
  /\ wr_pc = "unlock" /\ wr_pc' = "idle" /\ ze_mutex' = "none"
  /\ UNCHANGED <<ze_queue, rd_pc, blocking, message, written>>

------------------------------------------------------------------------------
Reader == ReadLock \/ Wait \/ Relock \/ Take \/ ReadUnlock
Writer == WriteLock \/ Push \/ Signal \/ WriteUnlock
Queue_Next ==
  \/ Reader \/ Writer \/ WakesUnasked
  \/ \E may_block \in BOOLEAN : Queue_Read(may_block)
  \/ \E msg \in Posted : Queue_Write(msg)

\* A thread inside a call goes on, and gets a mutex that keeps becoming free.
Queue_Fairness ==
  /\ WF_queueVars(Reader) /\ SF_queueVars(ReadLock) /\ SF_queueVars(Relock)
  /\ WF_queueVars(Writer) /\ SF_queueVars(WriteLock)
Queue_Spec == Queue_Init /\ [][Queue_Next]_queueVars /\ Queue_Fairness

------------------------------------------------------------------------------
\* The steps of each thread that it takes with the mutex held.
ReaderHolds == rd_pc \in {"while", "take", "unlock"}
WriterHolds == wr_pc \in {"push", "signal", "unlock"}

(***************************************************************************)
(* Types, and the mutex: a thread holds it exactly between its slock_lock  *)
(* (or its return from scond_wait) and its slock_unlock (or scond_wait).   *)
(***************************************************************************)
Queue_TypeOK ==
  /\ ze_queue \in Seq(Posted) /\ blocking \in BOOLEAN
  /\ {message, written} \subseteq Posted \cup {NoMessage}
  /\ rd_pc \in {"idle", "lock", "while", "asleep", "woken", "take", "unlock"}
  /\ wr_pc \in {"idle", "lock", "push", "signal", "unlock"}
  /\ wr_pc # "idle" => written # NoMessage
  /\ ze_mutex \in {"none", "reader", "writer"}
  /\ ReaderHolds <=> ze_mutex = "reader"
  /\ WriterHolds <=> ze_mutex = "writer"

(***************************************************************************)
(* The reader never sleeps beside a message, except while the writer that  *)
(* pushed it is about to signal.                                           *)
(***************************************************************************)
NoLostWakeup == rd_pc = "asleep" /\ ze_queue # <<>> => wr_pc = "signal"

(***************************************************************************)
(* The two functions implement CDIF_FIFO: "Will always return TRUE if      *)
(* "blocking" is set" (cdromif.cpp), and every read is answered that the   *)
(* FIFO answers.                                                           *)
(***************************************************************************)
FIFO == INSTANCE CDIF_FIFO WITH
  Messages <- Posted, queue <- ze_queue,
  asked <- IF rd_pc \in {"idle", "unlock"} THEN "none" ELSE IF blocking THEN "block" ELSE "poll"
ImplementsFIFO == FIFO!Spec
==============================================================================

------------------------------ MODULE CDIF_FIFO ------------------------------
(***************************************************************************)
(* What a CDIF_Queue (mednafen/cdrom/cdromif.h) promises its two threads,  *)
(* one that writes and one that reads: messages come out whole, once and   *)
(* in order; a read that may not block answers at once, and a read that    *)
(* may block answers when there is a message, never without one.           *)
(***************************************************************************)
EXTENDS Sequences

CONSTANTS Messages, NoMessage

VARIABLES
  queue,
  asked,    \* the read under way: "none", "poll" or "block"
  message   \* what the last read returned, NoMessage if it returned false

vars == <<queue, asked, message>>

Init == queue = <<>> /\ asked = "none" /\ message = NoMessage

Post(msg) == queue' = Append(queue, msg) /\ UNCHANGED <<asked, message>>

Ask(blocking) ==
  /\ asked = "none" /\ asked' = (IF blocking THEN "block" ELSE "poll")
  /\ UNCHANGED <<queue, message>>

Take == /\ asked # "none" /\ queue # <<>>
        /\ asked' = "none" /\ message' = Head(queue) /\ queue' = Tail(queue)

Refuse == /\ asked = "poll" /\ queue = <<>>
          /\ asked' = "none" /\ message' = NoMessage
          /\ UNCHANGED queue

Answer == Take \/ Refuse
Next == Answer \/ (\E msg \in Messages : Post(msg)) \/ (\E blocking \in BOOLEAN : Ask(blocking))

Spec == Init /\ [][Next]_vars /\ WF_vars(Answer)
==============================================================================

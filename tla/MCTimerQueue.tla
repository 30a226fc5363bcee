----------------------------- MODULE MCTimerQueue -----------------------------
(***************************************************************************)
(* Timer and CDIF_Queue share no state and are checked in one run: part    *)
(* says which one moves, the other rests in its initial state.  Only the   *)
(* queue has fairness, and a queue at rest has nothing it is asked to do.  *)
(* The run that expects a violation takes Timer alone.                     *)
(***************************************************************************)
EXTENDS MCTimer, CDIF_Queue

VARIABLE part  \* "timer" or "queue"

MCInit == Init /\ Queue_Init /\ part \in {"timer", "queue"}

MCNext ==
  /\ UNCHANGED part
  /\ \/ part = "timer" /\ Next       /\ UNCHANGED queueVars
     \/ part = "queue" /\ Queue_Next /\ UNCHANGED vars

MCSpec == MCInit /\ [][MCNext]_<<vars, queueVars, part>> /\ Queue_Fairness

\* What rests is always the same.
MCView == IF part = "timer" THEN vars ELSE queueVars
===============================================================================

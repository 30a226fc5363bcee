----------------------------- MODULE RootCounters -----------------------------
(***************************************************************************)
(* The abstract timers: each is clocked at every cycle, one clock at a     *)
(* time, and interrupts in the cycle in which it reaches its goal.  No     *)
(* event, no time stamp: this is what a program sees of a timer, and       *)
(* Timer, which counts in batches, is checked to implement it.             *)
(*                                                                         *)
(* But for two things these are ideal timers.  A batch that passes both    *)
(* its target and the end of the counter loses the clocks between the two, *)
(* which Restarts and Counted allow.  And the status is the code's: the    *)
(* overflow flag is not set in target mode, and a timer that repeats at a  *)
(* target of zero interrupts at every clock; the notes at the head of      *)
(* timer.cpp say otherwise (OverflowIsFlagged in Timer).                   *)
(***************************************************************************)
EXTENDS TimerRegisters

CONSTANT Batch   \* the most clocks that are counted at once

VARIABLES Timers, vblank, hretrace, LinePhase

vars == <<Timers, vblank, hretrace, LinePhase>>

\* A timer whose goal is zero has reached it for as long as it is at zero.
Settled(t) == IF ~t.Mode.gpu /\ AtZeroTarget(t) THEN Fire(t) ELSE t

Rearmed(t) == [t EXCEPT !.IRQDone = @ /\ ~t.Mode.repeat]

Count(t) ==
  IF AtZeroTarget(t) THEN Fire(Rearmed(t))
  ELSE IF t.Counter + 1 \in {Goal(t), Wrap}
    THEN Fire([Rearmed(t) EXCEPT !.Counter = 0, !.overflow = @ \/ ~t.Mode.toTarget])
    ELSE [Rearmed(t) EXCEPT !.Counter = @ + 1]

\* One clock, which timer 2 may divide first; a timer that does not run only
\* notices that it is at a goal of zero.
Clock(i, t) ==
  LET divided == IF i = 2 /\ t.DoZeCounting > 0
                   THEN [t EXCEPT !.Div8Counter = (@ + 1) % Divider] ELSE t
      counts  == t.DoZeCounting > 0 /\ ~Stopped(i, t)
                   /\ (i = 2 /\ t.Mode.div8 => t.Div8Counter = Divider - 1)
  IN IF counts THEN Count(divided) ELSE IF AtZeroTarget(t) THEN Fire(divided) ELSE divided

\* The end of the counter is counted as the end of a batch that had passed the target, which
\* only a timer without an event at its target does: the clocks since then are lost.
Restarts(t) ==
  /\ t.Mode.toTarget /\ ~t.Mode.irq /\ Wrap - t.Target < Batch
  /\ t.Counter + 1 = Wrap - t.Target

Init ==
  /\ Timers = [i \in Present |-> Cleared]
  /\ vblank = TRUE /\ hretrace = FALSE /\ LinePhase = 0

Tick ==
  /\ \E late \in SUBSET {i \in Present : Restarts(Timers[i])} :
       Timers' = [i \in Present |->
                    LET next == Clock(i, Timers[i])
                    IN IF Timers[i].Mode.gpu THEN Timers[i]
                       ELSE IF i \in late /\ next.Counter # Timers[i].Counter
                         THEN Fire([next EXCEPT !.Counter = 0]) ELSE next]
  /\ UNCHANGED <<vblank, hretrace, LinePhase>>

\* What an access of the CPU may leave in a timer.
Accessed(i, t) ==
  {ReadMode(t), Acknowledge(t)} \cup {WriteCount(t, v) : v \in Values}
    \cup {WriteTarget(t, v) : v \in Values} \cup {WriteMode(i, t, mode, vblank) : mode \in Modes[i]}

CPU ==
  /\ LET timers == Timers
     IN \E i \in Present :
          Timers' \in {[timers EXCEPT ![i] = Settled(t)] : t \in Accessed(i, timers[i])}
  /\ UNCHANGED <<vblank, hretrace, LinePhase>>

\* The dot clocks of a batch that are not lost.
Counted(t, n) ==
  IF t.Mode.toTarget /\ t.Counter < t.Target /\ t.Counter + n >= Wrap THEN n - (Wrap - t.Target) ELSE n

\* Timer 0 after n dot clocks.
Dotted(timers, n) ==
  LET after[k \in 0..n] == IF k = 0 THEN (IF AtZeroTarget(timers[0]) THEN Fire(timers[0]) ELSE timers[0])
                                    ELSE Clock(0, after[k - 1])
  IN [i \in Present |-> IF i = 0 /\ timers[i].Mode.gpu THEN after[Counted(timers[0], n)] ELSE timers[i]]

Dots(n) == Timers' = Dotted(Timers, n) /\ UNCHANGED <<vblank, hretrace, LinePhase>>

RetraceBegins(n) ==
  /\ LinePhase = 0 /\ LinePhase' = 1 /\ hretrace' = TRUE
  /\ LET dotted == Dotted(Timers, n)
     IN Timers' = [i \in Present |->
                     IF i = 1 /\ dotted[i].Mode.gpu THEN Clock(i, dotted[i]) ELSE dotted[i]]
  /\ UNCHANGED vblank

RetraceEnds(n, status) ==
  /\ LinePhase = 1 /\ LinePhase' = 0 /\ hretrace' = FALSE /\ vblank' = status
  /\ LET dotted == Dotted(Timers, n)
     IN Timers' = [i \in Present |->
                     Settled(SetVBlank(i, SetHRetrace(i, dotted[i], hretrace, FALSE), vblank, status))]

GPU ==
  \E n \in 0..MaxDots :
     Dots(n) \/ RetraceBegins(n) \/ \E status \in BOOLEAN : RetraceEnds(n, status)

Power ==
  /\ Timers' = [i \in Present |-> Cleared]
  /\ vblank' = TRUE /\ hretrace' = FALSE /\ LinePhase' = 0

Next == Tick \/ CPU \/ GPU \/ Power
Spec == Init /\ [][Next]_vars
==============================================================================

-------------------------------- MODULE Timer --------------------------------
(***************************************************************************)
(* The root counters as timer.cpp implements them: a timer is not clocked  *)
(* until its event is due, the CPU touches it or the GPU ends a line, and  *)
(* is then clocked by all the time that passed at once.  The event is      *)
(* predicted so that no interrupt is missed.  Time is relative: how far    *)
(* the timers are behind, and how far the event is ahead.                  *)
(***************************************************************************)
EXTENDS TimerRegisters, FiniteSets

CONSTANTS
  Cap,     \* the event is never further ahead: 1024 in the code
  MaxUsed  \* bound: the timers a program uses at once

ASSUME CapAssumption == Cap \in Nat \ {0} /\ Cap < Wrap

VARIABLES
  Timers,
  vblank, hretrace,   \* what the GPU told last
  LinePhase,          \* the GPU's, 1 in the horizontal retrace
  behind,             \* timestamp - lastts
  due                 \* the time of PSX_EVENT_TIMER - timestamp

vars == <<Timers, vblank, hretrace, LinePhase, behind, due>>

------------------------------------------------------------------------------
(* Counting.                                                                *)

\* The counts that n clocks make.
Counts(i, t, n) ==
  IF t.DoZeCounting <= 0 \/ Stopped(i, t) THEN 0
  ELSE IF i = 2 /\ t.Mode.div8 THEN (t.Div8Counter + n) \div Divider
  ELSE n

Divided(i, t, n) ==
  IF i = 2 /\ t.DoZeCounting > 0 THEN (t.Div8Counter + n) % Divider ELSE t.Div8Counter

\* (Mutant: the counter starts again at zero, whatever it counted past its goal.)
Remainder_Zero(t, count) == 0
Remainder(t, count) ==
  LET wrapped == IF count < Wrap THEN count ELSE IF Goal(t) = 0 THEN 0 ELSE count - Wrap
  IN IF Goal(t) = 0 THEN wrapped ELSE wrapped % Goal(t)

ClockTimer(i, t, n) ==
  LET clocks == Counts(i, t, n)
      count  == IF AtZeroTarget(t) THEN 0 ELSE t.Counter + clocks
      rearms == clocks > 0 /\ t.Mode.repeat
      moved  == [t EXCEPT !.Counter = count, !.Div8Counter = Divided(i, t, n),
                          !.IRQDone = @ /\ ~rearms]
      left   == Remainder(t, count)
      fired  == Fire([moved EXCEPT !.Counter = left,
                                   !.overflow = @ \/ (count >= Wrap /\ Goal(t) = Wrap)])
  IN IF AtZeroTarget(t) \/ (t.Counter < Goal(t) /\ count >= Goal(t)) \/ count >= Wrap
       THEN [fired EXCEPT !.IRQDone = @ /\ ~(left # 0 /\ t.Mode.repeat)]
       ELSE moved

TIMER_Update(timers) ==
  [i \in Present |-> IF timers[i].Mode.gpu THEN timers[i] ELSE ClockTimer(i, timers[i], behind)]

------------------------------------------------------------------------------
(* The event.                                                               *)

Predicted(i, t) == t.Mode.irq /\ ~(i \in {0, 1} /\ t.Mode.gpu)

\* The next value at which the timer interrupts, and the clocks until then.
Ahead(t) == IF t.Mode.toTarget /\ t.Counter < t.Target THEN t.Target ELSE Wrap

\* (Mutant: the clocks already in the divider are forgotten.)
Clocks_Undivided(i, t) ==
  LET counts == Ahead(t) - t.Counter
  IN IF i = 2 /\ t.Mode.div8 THEN counts * Divider ELSE counts
Clocks(i, t) ==
  LET counts == Ahead(t) - t.Counter
  IN IF i = 2 /\ t.Mode.div8 THEN (counts - 1) * Divider + (Divider - t.Div8Counter) ELSE counts

Horizons(timers) ==
  LET soon == {i \in Present : Predicted(i, timers[i]) /\ AtZeroTarget(timers[i]) /\ ~timers[i].IRQDone}
  IN {Cap} \cup {1 : i \in soon}
       \cup {Clocks(i, timers[i]) : i \in {j \in Present \ soon :
                  Predicted(j, timers[j]) /\ timers[j].DoZeCounting > 0 /\ ~Stopped(j, timers[j])}}

CalcNextEvent(next) == next \in Horizons(Timers') /\ \A h \in Horizons(Timers') : next <= h

\* PSX_SetEventNT: the event is moved to the time CalcNextEvent finds.
Schedule == behind' = 0 /\ \E next \in Horizons(Timers') : CalcNextEvent(next) /\ due' = next

------------------------------------------------------------------------------
(* Time passes and the event is due.                                        *)

\* The CPU is stopped at an event, so that time never passes it.
Tick ==
  /\ due > 0
  /\ behind' = behind + 1 /\ due' = due - 1
  /\ UNCHANGED <<Timers, vblank, hretrace, LinePhase>>

\* PSX_EventHandler when the event is due, ForceEventUpdates at the end of a frame.
Update ==
  /\ Timers' = TIMER_Update(Timers)
  /\ Schedule
  /\ UNCHANGED <<vblank, hretrace, LinePhase>>

------------------------------------------------------------------------------
(* The CPU.  A write first waits for the event; a read takes a cycle after  *)
(* waiting and may find it due.  A read does not move the event.            *)

Read(i, t) ==
  /\ Timers' = [TIMER_Update(Timers) EXCEPT ![i] = t]
  /\ behind' = 0
  /\ UNCHANGED <<vblank, hretrace, LinePhase, due>>

TIMER_Read ==
  \E i \in Present :
     \/ Read(i, TIMER_Update(Timers)[i])                  \* the counter or the target
     \/ Read(i, ReadMode(TIMER_Update(Timers)[i]))

Write(i, t) ==
  /\ due > 0
  /\ Timers' = [TIMER_Update(Timers) EXCEPT ![i] = t]
  /\ Schedule
  /\ UNCHANGED <<vblank, hretrace, LinePhase>>

TIMER_Write ==
  \E i \in Present :
     LET t == TIMER_Update(Timers)[i]
     IN /\ Cardinality({j \in Present \ {i} : Timers[j] # Cleared}) < MaxUsed
        /\ \/ \E v \in Values : Write(i, WriteCount(t, v)) \/ Write(i, WriteTarget(t, v))
           \/ \E mode \in Modes[i] : Write(i, WriteMode(i, t, mode, vblank))

IRQ_Write ==
  /\ due > 0
  /\ \E i \in Present : Timers' = [Timers EXCEPT ![i] = Acknowledge(@)]
  /\ UNCHANGED <<vblank, hretrace, LinePhase, behind, due>>

------------------------------------------------------------------------------
(* The GPU: dot clocks, and the two halves of a line.                       *)

\* (Mutant: dot clocks are counted whatever clocks the timer.)
AddDotClocks_Always(timers, n) ==
  [i \in Present |-> IF i = 0 THEN ClockTimer(i, timers[i], n) ELSE timers[i]]
AddDotClocks(timers, n) ==
  [i \in Present |-> IF i = 0 /\ timers[i].Mode.gpu THEN ClockTimer(i, timers[i], n) ELSE timers[i]]

Dots(n) ==
  /\ Timers' = AddDotClocks(Timers, n)
  /\ UNCHANGED <<vblank, hretrace, LinePhase, behind, due>>

\* The second TIMER_Update of a line, with no time to catch up with.
Again(timers) ==
  [i \in Present |-> IF timers[i].Mode.gpu THEN timers[i] ELSE ClockTimer(i, timers[i], 0)]

RetraceBegins(n) ==
  /\ LinePhase = 0 /\ LinePhase' = 1 /\ hretrace' = TRUE
  /\ LET caught == TIMER_Update(AddDotClocks(Timers, n))
     IN Timers' = Again([i \in Present |->
                           IF i = 1 /\ caught[i].Mode.gpu THEN ClockTimer(i, caught[i], 1) ELSE caught[i]])
  /\ Schedule
  /\ UNCHANGED vblank

\* (Mutants: the timers catch up only after the GPU's change; the event is not moved
\* after it.)
RetraceEnds_Late(n, status) ==
  /\ LinePhase = 1 /\ LinePhase' = 0 /\ hretrace' = FALSE /\ vblank' = status
  /\ LET dotted == AddDotClocks(Timers, n)
     IN Timers' = TIMER_Update([i \in Present |->
                     SetVBlank(i, SetHRetrace(i, dotted[i], hretrace, FALSE), vblank, status)])
  /\ Schedule
RetraceEnds_Unscheduled(n, status) ==
  /\ LinePhase = 1 /\ LinePhase' = 0 /\ hretrace' = FALSE /\ vblank' = status
  /\ LET caught == TIMER_Update(AddDotClocks(Timers, n))
     IN Timers' = [i \in Present |->
                     SetVBlank(i, SetHRetrace(i, caught[i], hretrace, FALSE), vblank, status)]
  /\ behind' = 0 /\ UNCHANGED due
RetraceEnds(n, status) ==
  /\ LinePhase = 1 /\ LinePhase' = 0 /\ hretrace' = FALSE /\ vblank' = status
  /\ LET caught == TIMER_Update(AddDotClocks(Timers, n))
     IN Timers' = Again([i \in Present |->
                           SetVBlank(i, SetHRetrace(i, caught[i], hretrace, FALSE), vblank, status)])
  /\ Schedule

GPU ==
  \E n \in 0..MaxDots :
     Dots(n) \/ RetraceBegins(n) \/ \E status \in BOOLEAN : RetraceEnds(n, status)

------------------------------------------------------------------------------
Init ==
  /\ Timers = [i \in Present |-> Cleared]
  /\ vblank = TRUE /\ hretrace = FALSE /\ LinePhase = 0     \* GPU->Power ends in a vertical blank
  /\ behind = 0 /\ due = Cap

TIMER_Power ==
  /\ Timers' = [i \in Present |-> Cleared]
  /\ vblank' = TRUE /\ hretrace' = FALSE /\ LinePhase' = 0
  /\ Schedule

Next == Tick \/ Update \/ TIMER_Read \/ TIMER_Write \/ IRQ_Write \/ GPU \/ TIMER_Power
Spec == Init /\ [][Next]_vars

------------------------------------------------------------------------------
(* Properties.                                                              *)

\* The counters stay below 0x10000 and the divider below 8 however far the timers
\* are behind, and time never passes the event (ClockTimer, CalcNextEvent).
TypeOK ==
  /\ Timers \in [Present -> TimerState]
  /\ vblank \in BOOLEAN /\ hretrace \in BOOLEAN /\ LinePhase \in {0, 1}
  /\ behind \in 0..Cap /\ due \in 0..Cap /\ behind + due <= Cap

\* Catching up with the time that passed would interrupt.
Owes(i) == ~Timers[i].Mode.gpu /\ ClockTimer(i, [Timers[i] EXCEPT !.pending = FALSE], behind).pending

\* No interrupt is late: while the event is not due, no timer the CPU clocks has
\* reached its goal without having interrupted (CalcNextEvent after every change,
\* and none after TIMER_Read).  A timer at a target of zero has its event in the
\* next cycle; one that repeats there is left out.
NoLateInterrupt ==
  \A i \in Present :
     LET zero == AtZeroTarget(Timers[i])
     IN Owes(i) /\ ~(zero /\ Timers[i].Mode.repeat) => due <= (IF zero THEN 1 ELSE 0)

\* What a program sees of the timers - counters, status and interrupts - is what
\* timers clocked one clock at a time would show: it cannot tell when a timer was
\* brought up to date (TIMER_Update).  There is one exception, in RootCounters: a timer
\* whose target is less than a batch (1024 clocks) below the end of the counter, and that
\* has no event there, may lose the clocks between the two when it is clocked past both
\* at once.  It is then behind by that many.
Counters == INSTANCE RootCounters WITH Timers <- TIMER_Update(Timers), Batch <- Cap
CountsEveryClock == Counters!Spec

\* What timer.cpp says of the status: the overflow flag is "Set when counter overflows from
\* 0xFFFF->0."  So it is, when a clock takes a counter from its last value to zero.  The code
\* sets it only without target mode, though a counter above its target overflows, too.
OverflowIsFlagged ==
  [][\A i \in Present :
       Timers[i].Counter = Wrap - 1 /\ Update /\ Timers'[i].Counter # Wrap - 1 => Timers'[i].overflow]_vars
==============================================================================

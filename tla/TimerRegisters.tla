---------------------------- MODULE TimerRegisters ----------------------------
(***************************************************************************)
(* A root counter of timer.cpp: its registers, what a write or a retrace   *)
(* does to it and how it interrupts.  How it is clocked is left to the     *)
(* modules that extend this one.                                           *)
(***************************************************************************)
EXTENDS Integers

CONSTANTS
  Present,   \* the timers modelled, of 0 (dot clock), 1 (hretrace) and 2 (system clock / 8)
  Modes,     \* bound: the modes the CPU writes to each timer
  Values,    \* bound: the counter and target values the CPU writes
  Wrap,      \* 0x10000 in the code
  Divider,   \* 8 in the code
  MaxDots    \* bound: the most dot clocks of one GPU update

ModeBits == [sync : 0..7, toTarget : BOOLEAN, irq : BOOLEAN, repeat : BOOLEAN, gpu : BOOLEAN, div8 : BOOLEAN]

ASSUME TimersAssumption ==
  /\ Present \subseteq 0..2 /\ Modes \in [Present -> SUBSET ModeBits]
  /\ Wrap \in Nat \ {0} /\ Divider \in Nat \ {0} /\ MaxDots \in 0..Wrap
  /\ Values \subseteq 0..(Wrap - 1)

\* "reached" and "overflow" are the status bits 0x800 and 0x1000 of Mode; "pending" is
\* the timer's bit in the status of the interrupt controller.
TimerState ==
  [Mode : ModeBits, reached : BOOLEAN, overflow : BOOLEAN, Counter : 0..(Wrap - 1),
   Target : 0..(Wrap - 1), Div8Counter : 0..(Divider - 1), IRQDone : BOOLEAN,
   DoZeCounting : {-1, 0, 1}, pending : BOOLEAN]

Cleared ==
  [Mode |-> [sync |-> 0, toTarget |-> FALSE, irq |-> FALSE, repeat |-> FALSE, gpu |-> FALSE, div8 |-> FALSE],
   reached |-> FALSE, overflow |-> FALSE, Counter |-> 0, Target |-> 0, Div8Counter |-> 0,
   IRQDone |-> FALSE, DoZeCounting |-> 0, pending |-> FALSE]

Goal(t) == IF t.Mode.toTarget THEN t.Target ELSE Wrap
AtZeroTarget(t) == Goal(t) = 0 /\ t.Counter = 0
Stopped(i, t) == i = 2 /\ t.Mode.sync % 2 = 1

Fire(t) ==
  [t EXCEPT !.reached = TRUE,
            !.pending = @ \/ (t.Mode.irq /\ ~t.IRQDone),
            !.IRQDone = @ \/ t.Mode.irq]

------------------------------------------------------------------------------
(* What the CPU does to a timer.                                            *)

WriteCount(t, v) ==
  LET armed == [t EXCEPT !.IRQDone = FALSE]
  IN [(IF t.Counter # 0 /\ v = 0 THEN Fire(armed) ELSE armed) EXCEPT !.Counter = v]

CountingStart(i, mode, blank) ==
  CASE i = 1 /\ mode.sync = 1 -> IF blank THEN 0 ELSE 1
    [] i = 1 /\ mode.sync = 5 -> IF blank THEN 1 ELSE 0
    [] i = 1 /\ mode.sync = 7 -> -1
    [] OTHER -> 1

WriteMode(i, t, mode, blank) ==
  LET armed == [t EXCEPT !.Mode = mode, !.IRQDone = FALSE]
  IN [(IF t.Counter # 0 THEN Fire(armed) ELSE armed)
        EXCEPT !.Counter = 0, !.DoZeCounting = CountingStart(i, mode, blank)]

WriteTarget(t, v) == [t EXCEPT !.Target = v]
ReadMode(t) == [t EXCEPT !.reached = FALSE, !.overflow = FALSE]
Acknowledge(t) == [t EXCEPT !.pending = FALSE]

------------------------------------------------------------------------------
(* What the retraces of the GPU do to a timer.                              *)

SetVBlank(i, t, was, status) ==
  LET reset == [t EXCEPT !.Counter = IF was /\ ~status THEN 0 ELSE @]
      counts(on) == IF on THEN 1 ELSE 0
  IN CASE i = 1 /\ t.Mode.sync = 1 -> [t EXCEPT !.DoZeCounting = counts(~status)]
       [] i = 1 /\ t.Mode.sync = 3 -> reset
       [] i = 1 /\ t.Mode.sync = 5 -> [reset EXCEPT !.DoZeCounting = counts(status)]
       [] i = 1 /\ t.Mode.sync = 7 /\ t.DoZeCounting = -1 /\ ~was /\ status ->
            [t EXCEPT !.DoZeCounting = 0]
       [] i = 1 /\ t.Mode.sync = 7 /\ t.DoZeCounting = 0 /\ was /\ ~status ->
            [t EXCEPT !.DoZeCounting = 1]
       [] OTHER -> t

SetHRetrace(i, t, was, status) ==
  IF i = 0 /\ t.Mode.sync = 3 /\ was /\ ~status THEN [t EXCEPT !.Counter = 0] ELSE t
==============================================================================

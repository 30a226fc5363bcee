------------------------------- MODULE MCTimer -------------------------------
(* Modes for Timer: a program that counts to a target or to the end, once   *)
(* or repeatedly, on every clock of the timer.                              *)
EXTENDS Timer

Mode(sync, toTarget, irq, repeat) ==
  [sync |-> sync, toTarget |-> toTarget, irq |-> irq, repeat |-> repeat, gpu |-> FALSE, div8 |-> FALSE]
OnGPU(mode) == [mode EXCEPT !.gpu = TRUE]
By8(mode) == [mode EXCEPT !.div8 = TRUE]

SystemModes ==
  {Mode(0, TRUE, TRUE, TRUE), By8(Mode(0, TRUE, TRUE, FALSE)), By8(Mode(0, FALSE, TRUE, TRUE)),
   Mode(1, TRUE, TRUE, FALSE), Mode(0, TRUE, FALSE, FALSE)}
LineModes ==
  {Mode(sync, TRUE, TRUE, sync = 3) : sync \in {1, 3, 5, 7}} \cup {OnGPU(Mode(0, FALSE, TRUE, TRUE))}
DotModes == {Mode(3, FALSE, TRUE, FALSE), OnGPU(Mode(3, TRUE, TRUE, TRUE)), OnGPU(Mode(0, FALSE, TRUE, FALSE))}
MCModes == [i \in Present |-> CASE i = 0 -> DotModes [] i = 1 -> LineModes [] OTHER -> SystemModes]
==============================================================================

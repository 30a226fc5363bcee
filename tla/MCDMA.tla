-------------------------------- MODULE MCDMA --------------------------------
(* Channels and main memory for DMA: channel 2 in every mode, the table of  *)
(* channel 6 backwards, a list of two entries and one that leads out of the memory. *)
EXTENDS DMA

Mode(on, sync, chop) == [on |-> on, trigger |-> on, sync |-> sync, chop |-> chop, back |-> FALSE]

MCModes ==
  [ch \in Channels |->
     {Mode(TRUE, 0, FALSE)} \cup
       (IF ch = 6 THEN {}
        ELSE {Mode(FALSE, 0, FALSE), Mode(TRUE, 0, TRUE), Mode(TRUE, 1, FALSE), Mode(TRUE, 2, FALSE)})]
MCBases == [ch \in Channels |-> IF ch = 6 THEN {3} ELSE {1}]
MCBlockings == [ch \in Channels |-> IF ch = 6 THEN {} ELSE {[size |-> 1, blocks |-> 0]}]
MCControls == {[enable |-> {2}, master |-> TRUE, force |-> FALSE]}
MCHeader ==
  [a \in 0..(Half - 1) |-> CASE a = 0 -> [count |-> 0, next |-> Half] [] a = 1 -> [count |-> 1, next |-> 2]
                        [] OTHER -> [count |-> 0, next |-> End]]
==============================================================================

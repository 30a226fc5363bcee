---------------------------- MODULE Uninterrupted ----------------------------
(***************************************************************************)
(* The task a PlayStation program runs, as its author sees it: one         *)
(* instruction after the other, each branch taken after its delay slot,    *)
(* and no interrupts. The machine can be switched off and on, and its      *)
(* position saved and loaded.                                              *)
(***************************************************************************)
EXTENDS ProgramOrder

VARIABLES
  at,    \* the position: [pc |-> the next instruction, then |-> the one after it]
  kept   \* the position saved last

vars == <<at, kept>>

Init == at = Position(Start, Start + 1) /\ kept = at

Execute == at' = Position(at.then, Target(at.pc, at.then)) /\ UNCHANGED kept
PowerOn == at' = Position(Start, Start + 1) /\ UNCHANGED kept
Keep == kept' = at /\ UNCHANGED at
Return == at' = kept /\ UNCHANGED kept

Next == Execute \/ PowerOn \/ Keep \/ Return
Spec == Init /\ [][Next]_vars
==============================================================================

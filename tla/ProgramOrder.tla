----------------------------- MODULE ProgramOrder -----------------------------
(***************************************************************************)
(* The order in which a MIPS program's instructions follow each other.     *)
(***************************************************************************)
EXTENDS Integers

CONSTANTS
  Program,  \* the instruction at each address: [op |-> its operation, arg |-> its operand]
  Start     \* the address of the first instruction after a reset

Position(pc, then) == [pc |-> pc, then |-> then]

\* Where the instruction at pc sends the program once its successor (the
\* delay slot, if it is a branch) has run.
Target(pc, successor) ==
  CASE Program[pc].op = "branch" -> successor + Program[pc].arg
    [] Program[pc].op = "jump" -> Program[pc].arg
    [] OTHER -> successor + 1
==============================================================================

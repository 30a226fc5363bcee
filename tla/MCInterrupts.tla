----------------------------- MODULE MCInterrupts -----------------------------
(***************************************************************************)
(* A task for Interrupts: a loop with a GTE instruction, a taken branch, a *)
(* section with interrupts disabled that raises a software interrupt, and  *)
(* a jump back; and a handler that acknowledges what it has read.          *)
(***************************************************************************)
EXTENDS Interrupts

I(op, arg) == [op |-> op, arg |-> arg]
Set(ie) == [IE |-> [c |-> ie, p |-> FALSE, o |-> FALSE], IM |-> {"soft", "hard"}]
Write(register, value, offset) == [register |-> register, value |-> value, offset |-> offset]

MCProgram ==
  [pc \in 0..15 |->
    <<I("write", Write("mask", Lines, 0)), I("mtc0_sr", Set(TRUE)),
      I("gte", 0), I("branch", 2), I("plain", 0), I("plain", 0),
      I("mtc0_sr", Set(FALSE)), I("mtc0_cause", {"soft"}), I("write", Write("mask", High, 1)),
      I("jump", 0), I("gte", 0),
      I("read", 0), I("acknowledge", 0), I("mtc0_cause", {}), I("jr_epc", 0), I("rfe", 0)>>[pc + 1]]
==============================================================================

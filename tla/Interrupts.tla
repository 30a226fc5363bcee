------------------------------ MODULE Interrupts ------------------------------
(***************************************************************************)
(* The interrupt controller (mednafen/psx/irq.cpp) and the part of the CPU *)
(* (mednafen/psx/cpu.cpp) that takes interrupts: the status and cause      *)
(* registers of coprocessor 0, the cached decision IPCache, branches and   *)
(* their delay slots, exceptions and the return from them, and the halting *)
(* of the CPU by the DMA controller.                                       *)
(*                                                                         *)
(* The devices raise and lower their lines, and DMA halts and releases the *)
(* CPU, between any two instructions. Memory holds a task and an interrupt *)
(* handler. Addresses count instructions; the register file is reduced to  *)
(* the register the handler keeps the requests in, and SR to its stack of  *)
(* interrupt-enable bits and the mask of the two cause bits used.          *)
(***************************************************************************)
EXTENDS ProgramOrder, Sequences

CONSTANTS
  Lines,      \* the interrupt lines of the controller
  High,       \* those in the upper byte of its registers
  Handler,    \* the address of the exception handler; all above belongs to it
  Saving      \* whether states are saved and loaded

InTask(pc) == pc < Handler
Addresses == DOMAIN Program
IsBranch(pc) == Program[pc].op \in {"branch", "jump", "jr_epc"}
DelaySlot(pc) == pc - 1 \in Addresses /\ IsBranch(pc - 1)

Causes == {"soft", "hard"}
Stacks == [c : BOOLEAN, p : BOOLEAN, o : BOOLEAN]  \* current, previous, old: IEc, IEp, IEo
StatusRegisters == [IE : Stacks, IM : SUBSET Causes]

Operand(op) ==
  CASE op \in {"branch", "jump"} -> Int
    [] op = "mtc0_sr" -> StatusRegisters
    [] op = "mtc0_cause" -> SUBSET {"soft"}
    [] op = "write" -> [register : {"status", "mask"}, value : SUBSET Lines, offset : 0..3]
    [] op \in {"plain", "gte", "jr_epc", "rfe", "read", "acknowledge"} -> {0}
    [] OTHER -> {}

ASSUME LinesAssumption == High \subseteq Lines
ASSUME SavingAssumption == Saving \in BOOLEAN
ASSUME AddressAssumption ==
  /\ Addresses \subseteq Int /\ {0, Start, Handler} \subseteq Addresses /\ InTask(Start)
  /\ ~DelaySlot(Start) /\ ~DelaySlot(Handler)
  /\ \A pc \in Addresses : Program[pc].arg \in Operand(Program[pc].op)

\* The task has no branch in a delay slot, and leaves the registers of the handler alone.
ASSUME TaskAssumption ==
  \A pc \in {a \in Addresses : InTask(a)} :
    /\ Program[pc].op \notin {"jr_epc", "rfe"}
    /\ IF IsBranch(pc)
       THEN /\ pc + 1 \in Addresses /\ InTask(pc + 1) /\ ~IsBranch(pc + 1)
            /\ LET to == Target(pc, pc + 1) IN to \in Addresses /\ InTask(to) /\ ~DelaySlot(to)
       ELSE DelaySlot(pc) \/ (pc + 1 \in Addresses /\ InTask(pc + 1))

\* The handler is a straight line that ends in JR to EPC with RFE in its delay slot.
ASSUME HandlerAssumption ==
  \A pc \in {a \in Addresses : ~InTask(a)} :
    /\ Program[pc].op \notin {"branch", "jump", "mtc0_sr"}
    /\ Program[pc].op = "rfe" <=> DelaySlot(pc)
    /\ Program[pc].op # "rfe" => pc + 1 \in Addresses

VARIABLES
  irq,     \* the controller: Asserted, Mask, Status, each a set of lines
  cpu,     \* PC, new_PC, new_PC_mask; SR, CAUSE, EPC; IPCache; Halted; k
  resumed, \* whether the task's next instruction is a branch that already ran (history)
  saved    \* the state saved last

vars == <<irq, cpu, resumed, saved>>

(***************************************************************************)
(* The CPU's view of the interrupts.                                       *)
(***************************************************************************)
Requested(c) == c.SR.IE.c /\ c.SR.IM \cap c.CAUSE # {}

\* (mutant: a halted CPU is not held)
RecalcIPCache_NoHalt(c) == [c EXCEPT !.IPCache = Requested(c)]
RecalcIPCache(c) == [c EXCEPT !.IPCache = Requested(c) \/ c.Halted]

AssertIRQ(c, asserted) ==
  RecalcIPCache([c EXCEPT !.CAUSE = (@ \ {"hard"}) \cup (IF asserted THEN {"hard"} ELSE {})])

SetHalt(status) == cpu' = RecalcIPCache([cpu EXCEPT !.Halted = status])

Recalc(i, c) == irq' = i /\ cpu' = AssertIRQ(c, i.Status \cap i.Mask # {})

(***************************************************************************)
(* The controller: a line that rises is latched in Status until software   *)
(* clears the bit, whatever the line does meanwhile.                       *)
(***************************************************************************)
Quiet == [Asserted |-> {}, Mask |-> {}, Status |-> {}]

Edge(old, new, which) == (new \ old) \cap {which}

IRQ_Assert(which, status) ==
  LET new == IF status THEN irq.Asserted \cup {which} ELSE irq.Asserted \ {which}
  IN  Recalc([irq EXCEPT !.Asserted = new, !.Status = @ \cup Edge(irq.Asserted, new, which)], cpu)

\* What a byte written at an offset leaves of the 16 bits of a register: at 1 it is shifted into
\* the upper byte and the lower one is zero, beyond that it is shifted out.
Shifted(V, offset) == IF offset = 0 THEN V ELSE IF offset = 1 THEN V \cap High ELSE {}

\* Zeroes acknowledge (mutant: ones do).
Written_Ones(i, register, V) ==
  IF register = "mask" THEN [i EXCEPT !.Mask = V] ELSE [i EXCEPT !.Status = @ \ V]
Written(i, register, V) ==
  IF register = "mask" THEN [i EXCEPT !.Mask = V] ELSE [i EXCEPT !.Status = @ \cap V]

\* (mutant: the CPU is not told)
IRQ_Write_NoRecalc(c, register, V, offset) == irq' = Written(irq, register, Shifted(V, offset)) /\ cpu' = c
IRQ_Write(c, register, V, offset) == Recalc(Written(irq, register, Shifted(V, offset)), c)

(***************************************************************************)
(* Instructions. new_PC_mask is "all" after an ordinary instruction; its   *)
(* lower bits are clear in a delay slot: "relative" keeps PC and           *)
(* "absolute" does not.                                                    *)
(***************************************************************************)
AfterBranchInstr(c) == c.new_PC_mask # "all"
NextPC(c) == (IF c.new_PC_mask = "absolute" THEN 0 ELSE c.PC) + c.new_PC

OpDone(c) == [c EXCEPT !.PC = NextPC(c), !.new_PC = 1, !.new_PC_mask = "all"]

DoBranch(c, offset, mask) == [c EXCEPT !.PC = NextPC(c), !.new_PC = offset, !.new_PC_mask = mask]

\* The address to return to: in a delay slot, the branch (mutant: the delay slot).
ReturnAddress_Slot(c) == c.PC
ReturnAddress(c) == IF AfterBranchInstr(c) THEN c.PC - 1 ELSE c.PC

Pushed(IE) == [c |-> FALSE, p |-> IE.c, o |-> IE.p]
Popped(IE) == [c |-> IE.p, p |-> IE.o, o |-> IE.o]

Exception(c) ==
  RecalcIPCache([c EXCEPT !.EPC = ReturnAddress(c), !.SR.IE = Pushed(@),
                          !.new_PC = Handler, !.new_PC_mask = "absolute"])

\* Only GTE instructions run when IPCache is set: the table of operations has no interrupt for them.
Blocked == cpu.IPCache /\ Program[cpu.PC].op # "gte"

Interrupt ==
  /\ Blocked /\ ~cpu.Halted
  /\ cpu' = OpDone(Exception(cpu))
  /\ resumed' = IF InTask(cpu.PC) THEN AfterBranchInstr(cpu) \/ resumed ELSE resumed
  /\ UNCHANGED <<irq, saved>>

\* What one instruction does to the CPU and the controller.
Operation(op, arg) ==
  \/ op \in {"plain", "gte"} /\ cpu' = OpDone(cpu) /\ UNCHANGED irq
  \/ op = "branch" /\ cpu' = DoBranch(cpu, arg, "relative") /\ UNCHANGED irq
  \/ op = "jump" /\ cpu' = DoBranch(cpu, arg, "absolute") /\ UNCHANGED irq
  \/ op = "jr_epc" /\ cpu' = DoBranch(cpu, cpu.EPC, "absolute") /\ UNCHANGED irq
  \/ op = "mtc0_sr" /\ cpu' = OpDone(RecalcIPCache([cpu EXCEPT !.SR = arg])) /\ UNCHANGED irq
  \/ op = "mtc0_cause" /\ UNCHANGED irq
     /\ cpu' = OpDone(RecalcIPCache([cpu EXCEPT !.CAUSE = (@ \ {"soft"}) \cup arg]))
  \/ op = "rfe" /\ UNCHANGED irq
     /\ cpu' = OpDone(RecalcIPCache([cpu EXCEPT !.SR.IE = Popped(@)]))
  \/ op = "read" /\ cpu' = OpDone([cpu EXCEPT !.k = irq.Status \cap irq.Mask]) /\ UNCHANGED irq
  \/ op = "acknowledge" /\ IRQ_Write(OpDone(cpu), "status", Lines \ cpu.k, 0)
  \/ op = "write" /\ IRQ_Write(OpDone(cpu), arg.register, arg.value, arg.offset)

Execute ==
  /\ ~Blocked
  /\ Operation(Program[cpu.PC].op, Program[cpu.PC].arg)
  /\ resumed' = (resumed /\ ~InTask(cpu.PC))
  /\ UNCHANGED saved

\* A halted CPU lets the time pass at the instruction it has reached.
Step == Interrupt \/ Execute

(***************************************************************************)
(* Power, states, and the whole system.                                    *)
(***************************************************************************)
Reset(halted) ==
  RecalcIPCache([PC |-> Start, new_PC |-> 1, new_PC_mask |-> "all",
                 SR |-> [IE |-> [c |-> FALSE, p |-> FALSE, o |-> FALSE], IM |-> {}], CAUSE |-> {}, EPC |-> 0,
                 IPCache |-> FALSE, Halted |-> halted, k |-> {}])

Init ==
  /\ irq = Quiet /\ cpu = AssertIRQ(Reset(FALSE), FALSE) /\ resumed = FALSE
  /\ saved = [irq |-> irq, cpu |-> cpu, resumed |-> resumed]

\* The last thing PSX_Power does is an update of DMA, which has no transfer and releases the CPU.
Power ==
  /\ irq' = Quiet
  /\ cpu' = RecalcIPCache([AssertIRQ(Reset(cpu.Halted), FALSE) EXCEPT !.Halted = FALSE])
  /\ resumed' = FALSE /\ UNCHANGED saved

SaveState == Saving /\ saved' = [irq |-> irq, cpu |-> cpu, resumed |-> resumed] /\ UNCHANGED <<irq, cpu, resumed>>

\* The CPU's registers come first, the controller's last.
LoadState == Saving /\ Recalc(saved.irq, saved.cpu) /\ resumed' = saved.resumed /\ UNCHANGED saved

Device == /\ \E which \in Lines, status \in BOOLEAN : IRQ_Assert(which, status)
          /\ UNCHANGED <<resumed, saved>>

DMA == (\E status \in BOOLEAN : SetHalt(status)) /\ UNCHANGED <<irq, resumed, saved>>

\* DMA releases the CPU when its block is done, and an update of DMA that leaves
\* the CPU running is followed by an instruction before the next update.
Fairness == SF_vars(Step) /\ WF_vars(cpu.Halted /\ DMA)

Next == Step \/ Device \/ DMA \/ Power \/ SaveState \/ LoadState
Spec == Init /\ [][Next]_vars /\ Fairness

(***************************************************************************)
(* Properties.                                                             *)
(***************************************************************************)
Controllers == [Asserted : SUBSET Lines, Mask : SUBSET Lines, Status : SUBSET Lines]
CPUs == [PC : Addresses, new_PC : Int, new_PC_mask : {"all", "relative", "absolute"},
         SR : StatusRegisters, CAUSE : SUBSET Causes, EPC : Addresses,
         IPCache : BOOLEAN, Halted : BOOLEAN, k : SUBSET Lines]

\* Every register holds a value of its type, PC and EPC
\* addresses of the program: neither an interrupt nor the return from it leads outside.
TypeOK ==
  /\ irq \in Controllers /\ cpu \in CPUs /\ resumed \in BOOLEAN
  /\ saved \in [irq : Controllers, cpu : CPUs, resumed : BOOLEAN]

\* The decision the CPU caches (IPCache, cpu.cpp:86) is the one it would take from
\* the registers as they are now, the controller's included, whatever changed last:
\* a device, an acknowledgement, a mask, SR, a return, DMA, a loaded state or power.
Fresh(i, c) ==
  LET requested == \/ "hard" \in c.SR.IM /\ i.Status \cap i.Mask # {}
                   \/ "soft" \in c.SR.IM \cap c.CAUSE
  IN  c.IPCache <=> (c.Halted \/ (c.SR.IE.c /\ requested))
DecisionIsFresh == Fresh(irq, cpu)

\* Outside a loaded state, a request appears in Status exactly when a line rises
\* (irq.cpp:69): a line that stays high after its acknowledgement asks nothing again.
RequestsAreEdges ==
  [][LoadState \/ (/\ irq'.Status \ irq.Status \subseteq irq'.Asserted \ irq.Asserted
                   /\ irq'.Asserted \ irq.Asserted \subseteq irq'.Status)]_vars

\* Interrupts are invisible to the task (cpu.cpp:405): through any number of them,
\* in delay slots, around GTE instructions, with the CPU halted or a state loaded,
\* the task's instructions follow each other as if there were none, except that a
\* branch interrupted in its delay slot runs again.
PositionOf(c, again) ==
  LET pc == IF InTask(c.PC) THEN c.PC ELSE c.EPC
  IN  IF again THEN Position(pc + 1, Target(pc, pc + 1))
      ELSE Position(pc, IF InTask(c.PC) THEN NextPC(c) ELSE pc + 1)

Uninterrupted == INSTANCE Uninterrupted
  WITH at <- PositionOf(cpu, resumed), kept <- PositionOf(saved.cpu, saved.resumed)

TaskIsUndisturbed == Uninterrupted!Spec

\* Once no more states are loaded, every unmasked request is eventually acknowledged,
\* masked or reset, as long as the task keeps enabling interrupts.
RequestsAreAnswered ==
  <>[][~LoadState]_vars =>
    \A which \in Lines : which \in irq.Status \cap irq.Mask ~> which \notin irq.Status \cap irq.Mask
==============================================================================

-------------------------- MODULE Interrupts_proofs --------------------------
(***************************************************************************)
(* Proofs about Interrupts, for every set of lines and every program that  *)
(* meets its assumptions.                                                  *)
(***************************************************************************)
EXTENDS Interrupts, TLAPS

(***************************************************************************)
(* The inductive invariant, for the running state and for the saved one.   *)
(***************************************************************************)
Typed(i, c, again) == i \in Controllers /\ c \in CPUs /\ again \in BOOLEAN

\* CAUSE shows the controller's line, and IPCache what the registers say.
Connected(i, c) == "hard" \in c.CAUSE <=> i.Status \cap i.Mask # {}
Cached(c) == c.IPCache <=> (Requested(c) \/ c.Halted)

\* Where the next instructions come from, outside and inside a delay slot.
InOrder(c) ==
  IF AfterBranchInstr(c)
  THEN /\ DelaySlot(c.PC)
       /\ IF InTask(c.PC) THEN InTask(c.PC - 1) /\ NextPC(c) = Target(c.PC - 1, c.PC)
          ELSE NextPC(c) = c.EPC
  ELSE c.new_PC = 1 /\ ~DelaySlot(c.PC)

\* The handler runs with interrupts off, and EPC is where the task goes on.
Resumable(c, again) ==
  IF InTask(c.PC) THEN again => IsBranch(c.PC)
  ELSE /\ ~c.SR.IE.c
       /\ c.EPC \in Addresses /\ InTask(c.EPC) /\ ~DelaySlot(c.EPC)
       /\ again => IsBranch(c.EPC)

Flow(c, again) == c.PC \in Addresses /\ InOrder(c) /\ Resumable(c, again)

Good(i, c, again) == Typed(i, c, again) /\ Connected(i, c) /\ Cached(c) /\ Flow(c, again)

IInv ==
  /\ Good(irq, cpu, resumed)
  /\ saved \in [irq : Controllers, cpu : CPUs, resumed : BOOLEAN]
  /\ Good(saved.irq, saved.cpu, saved.resumed)

(***************************************************************************)
(* The helpers on CPUs.                                                    *)
(***************************************************************************)
SameFlow(c, d) ==
  /\ d.PC = c.PC /\ d.new_PC = c.new_PC /\ d.new_PC_mask = c.new_PC_mask /\ d.EPC = c.EPC

LEMMA RecalcProps ==
  ASSUME NEW c \in CPUs
  PROVE  /\ RecalcIPCache(c) \in CPUs /\ Cached(RecalcIPCache(c)) /\ SameFlow(c, RecalcIPCache(c))
         /\ RecalcIPCache(c).SR = c.SR /\ RecalcIPCache(c).CAUSE = c.CAUSE /\ RecalcIPCache(c).Halted = c.Halted
<1>1. c.SR.IE.c \in BOOLEAN
  BY DEF CPUs, StatusRegisters, Stacks
<1>2. (Requested(c) \/ c.Halted) \in BOOLEAN
  BY <1>1 DEF Requested, CPUs
<1>. QED  BY <1>2 DEF RecalcIPCache, CPUs, Cached, Requested, SameFlow

LEMMA AssertProps ==
  ASSUME NEW c \in CPUs, NEW i \in Controllers, NEW d, d = AssertIRQ(c, i.Status \cap i.Mask # {})
  PROVE  d \in CPUs /\ Cached(d) /\ SameFlow(c, d) /\ d.SR = c.SR /\ Connected(i, d)
<1>. DEFINE cause == (c.CAUSE \ {"hard"}) \cup (IF i.Status \cap i.Mask # {} THEN {"hard"} ELSE {})
            e == [c EXCEPT !.CAUSE = cause]
<1>1. cause \in SUBSET Causes /\ ("hard" \in cause <=> i.Status \cap i.Mask # {})
  BY DEF CPUs, Causes
<1>2. e \in CPUs /\ e.CAUSE = cause /\ SameFlow(c, e) /\ e.SR = c.SR
  BY <1>1 DEF CPUs, SameFlow
<1>3. d = RecalcIPCache(e)
  BY DEF AssertIRQ
<1>. HIDE DEF cause, e
<1>4. d \in CPUs /\ Cached(d) /\ SameFlow(e, d) /\ d.SR = e.SR /\ d.CAUSE = e.CAUSE
  BY <1>2, <1>3, RecalcProps
<1>. QED  BY <1>1, <1>2, <1>4 DEF Connected, SameFlow

LEMMA FlowKept ==
  ASSUME NEW c, NEW d, NEW again, SameFlow(c, d), d.SR = c.SR, Flow(c, again)
  PROVE  Flow(d, again)
BY DEF SameFlow, Flow, InOrder, Resumable, AfterBranchInstr, NextPC

LEMMA ResetProps ==
  ASSUME NEW halted \in BOOLEAN
  PROVE  Reset(halted) \in CPUs /\ Flow(Reset(halted), FALSE) /\ Reset(halted).PC = Start /\ Reset(halted).new_PC = 1
         /\ Reset(halted).new_PC_mask = "all" /\ Reset(halted).SR.IE.c = FALSE
<1>. DEFINE sr == [IE |-> [c |-> FALSE, p |-> FALSE, o |-> FALSE], IM |-> {}]
            e == [PC |-> Start, new_PC |-> 1, new_PC_mask |-> "all", SR |-> sr, CAUSE |-> {}, EPC |-> 0,
                  IPCache |-> FALSE, Halted |-> halted, k |-> {}]
<1>1. sr \in StatusRegisters
  BY DEF StatusRegisters, Stacks
<1>2. Start \in Int /\ Start \in Addresses /\ 0 \in Addresses
  BY AddressAssumption
<1>3. e \in CPUs
  BY <1>1, <1>2 DEF CPUs
<1>4. Reset(halted) = RecalcIPCache(e)
  BY DEF Reset
<1>5. Flow(e, FALSE)
  BY AddressAssumption DEF Flow, InOrder, Resumable, AfterBranchInstr
<1>6. SameFlow(e, Reset(halted)) /\ Reset(halted).SR = e.SR /\ Reset(halted) \in CPUs
  BY <1>3, <1>4, RecalcProps
<1>7. e.PC = Start /\ e.new_PC = 1 /\ e.new_PC_mask = "all" /\ e.SR.IE.c = FALSE
  OBVIOUS
<1>. HIDE DEF e
<1>8. Flow(Reset(halted), FALSE)
  BY <1>5, <1>6, FlowKept
<1>. QED  BY <1>6, <1>7, <1>8 DEF SameFlow

(***************************************************************************)
(* The initial state and the actions of the environment.                   *)
(***************************************************************************)
LEMMA QuietProps == Quiet \in Controllers /\ Quiet.Status \cap Quiet.Mask = {}
BY DEF Quiet, Controllers

LEMMA AssertGood ==
  ASSUME NEW i \in Controllers, NEW c \in CPUs, NEW again \in BOOLEAN, Flow(c, again)
  PROVE  Good(i, AssertIRQ(c, i.Status \cap i.Mask # {}), again)
BY AssertProps, FlowKept DEF Good, Typed

LEMMA InitGood == Init => IInv
<1>. SUFFICES ASSUME Init PROVE IInv
  OBVIOUS
<1>2. cpu = AssertIRQ(Reset(FALSE), irq.Status \cap irq.Mask # {}) /\ irq \in Controllers
  BY QuietProps DEF Init
<1>3. Good(irq, cpu, resumed)
  <2>1. Reset(FALSE) \in CPUs /\ Flow(Reset(FALSE), FALSE)
    BY ResetProps
  <2>. QED  BY <1>2, <2>1, AssertGood DEF Init
<1>. QED  BY <1>3 DEF Init, IInv, Good, Typed

LEMMA DeviceGood ==
  ASSUME IInv, Device
  PROVE  IInv'
<1>1. PICK which \in Lines, status \in BOOLEAN : IRQ_Assert(which, status)
  BY DEF Device
<1>2. irq' \in Controllers /\ cpu' = AssertIRQ(cpu, irq'.Status \cap irq'.Mask # {})
  BY <1>1 DEF IRQ_Assert, Recalc, IInv, Good, Typed, Controllers, Edge
<1>3. Good(irq', cpu', resumed')
  BY <1>2, AssertGood DEF IInv, Good, Typed, Device
<1>. QED  BY <1>3 DEF IInv, Device

LEMMA DMAGood ==
  ASSUME IInv, DMA
  PROVE  IInv'
<1>1. PICK status \in BOOLEAN : cpu' = RecalcIPCache([cpu EXCEPT !.Halted = status])
  BY DEF DMA, SetHalt
<1>. DEFINE e == [cpu EXCEPT !.Halted = status]
<1>2. e \in CPUs /\ SameFlow(cpu, e) /\ e.SR = cpu.SR /\ e.CAUSE = cpu.CAUSE
  BY DEF IInv, Good, Typed, CPUs, SameFlow
<1>3. Flow(e, resumed)
  BY <1>2, FlowKept DEF IInv, Good
<1>4. Good(irq, cpu', resumed)
  BY <1>1, <1>2, <1>3, RecalcProps, FlowKept DEF IInv, Good, Typed, Connected
<1>. QED  BY <1>4 DEF IInv, DMA

LEMMA PowerGood ==
  ASSUME IInv, Power
  PROVE  IInv'
<1>. DEFINE d == AssertIRQ(Reset(cpu.Halted), FALSE)
            e == [d EXCEPT !.Halted = FALSE]
<1>1. cpu.Halted \in BOOLEAN
  BY DEF IInv, Good, Typed, CPUs
<1>2. d = AssertIRQ(Reset(cpu.Halted), Quiet.Status \cap Quiet.Mask # {})
  BY QuietProps
<1>3. d \in CPUs /\ Connected(Quiet, d) /\ Flow(d, FALSE)
  <2>1. Reset(cpu.Halted) \in CPUs /\ Flow(Reset(cpu.Halted), FALSE)
    BY <1>1, ResetProps
  <2>2. d \in CPUs /\ SameFlow(Reset(cpu.Halted), d) /\ d.SR = Reset(cpu.Halted).SR /\ Connected(Quiet, d)
    BY <1>2, <2>1, AssertProps, QuietProps
  <2>. QED  BY <2>1, <2>2, FlowKept
<1>4. e \in CPUs /\ SameFlow(d, e) /\ e.SR = d.SR /\ e.CAUSE = d.CAUSE
  BY <1>3 DEF CPUs, SameFlow
<1>5. Flow(e, FALSE)
  BY <1>3, <1>4, FlowKept
<1>6. Good(irq', cpu', resumed')
  BY <1>3, <1>4, <1>5, RecalcProps, FlowKept, QuietProps DEF Power, Good, Typed, Connected
<1>. QED  BY <1>6 DEF IInv, Power

LEMMA StatesGood ==
  ASSUME IInv, SaveState \/ LoadState
  PROVE  IInv'
<1>1. CASE SaveState
  BY <1>1 DEF SaveState, IInv, Good, Typed
<1>2. CASE LoadState
  <2>1. irq' \in Controllers /\ cpu' = AssertIRQ(saved.cpu, irq'.Status \cap irq'.Mask # {})
    BY <1>2 DEF LoadState, Recalc, IInv, Good, Typed
  <2>2. Good(irq', cpu', resumed')
    BY <1>2, <2>1, AssertGood DEF LoadState, Recalc, IInv, Good, Typed
  <2>. QED  BY <1>2, <2>2 DEF LoadState, IInv
<1>. QED  BY <1>1, <1>2

(***************************************************************************)
(* Where an instruction leads.                                             *)
(***************************************************************************)
LEMMA AddressFacts == Addresses \subseteq Int /\ Handler \in Addresses /\ Handler \in Int
BY AddressAssumption

LEMMA NextPrevious == \A pc \in Int : (pc - 1) + 1 = pc /\ (pc + 1) - 1 = pc
OBVIOUS

LEMMA OperandTyped ==
  ASSUME NEW pc \in Addresses
  PROVE  /\ Program[pc].op \in {"branch", "jump"} => Program[pc].arg \in Int
         /\ Program[pc].op = "mtc0_sr" => Program[pc].arg \in StatusRegisters
         /\ Program[pc].op = "mtc0_cause" => Program[pc].arg \subseteq {"soft"}
         /\ Program[pc].op = "write" => Program[pc].arg.register \in {"status", "mask"}
                                       /\ Program[pc].arg.value \subseteq Lines
BY AddressAssumption DEF Operand

\* After an ordinary instruction the program goes on in its part, outside any delay slot.
LEMMA OrdinaryNext ==
  ASSUME NEW c \in CPUs, NEW again \in BOOLEAN, Flow(c, again), ~IsBranch(c.PC)
  PROVE  /\ NextPC(c) \in Addresses /\ ~DelaySlot(NextPC(c))
         /\ InTask(c.PC) => InTask(NextPC(c))
         /\ ~InTask(c.PC) /\ Program[c.PC].op = "rfe" => NextPC(c) = c.EPC
         /\ ~InTask(c.PC) /\ Program[c.PC].op # "rfe" => ~InTask(NextPC(c))
<1>1. c.PC \in Addresses /\ c.PC \in Int
  BY AddressFacts DEF Flow
<1>2. CASE InTask(c.PC) /\ AfterBranchInstr(c)
  <2>1. c.PC - 1 \in Addresses /\ IsBranch(c.PC - 1) /\ InTask(c.PC - 1) /\ NextPC(c) = Target(c.PC - 1, c.PC)
    BY <1>2 DEF Flow, InOrder, DelaySlot
  <2>2. (c.PC - 1) + 1 = c.PC
    BY <1>1
  <2>. QED  BY <1>2, <2>1, <2>2, TaskAssumption
<1>3. CASE ~AfterBranchInstr(c)
  <2>1. NextPC(c) = c.PC + 1 /\ ~DelaySlot(c.PC)
    BY <1>3 DEF Flow, InOrder, AfterBranchInstr, NextPC
  <2>2. (c.PC + 1) - 1 = c.PC
    BY <1>1
  <2>3. ~DelaySlot(c.PC + 1)
    BY <2>2 DEF DelaySlot
  <2>4. CASE InTask(c.PC)
    BY <1>1, <2>1, <2>3, <2>4, TaskAssumption
  <2>5. CASE ~InTask(c.PC)
    <3>1. Program[c.PC].op # "rfe" /\ c.PC + 1 \in Addresses
      BY <1>1, <2>1, <2>5, HandlerAssumption
    <3>2. ~InTask(c.PC + 1)
      BY <1>1, <2>5, AddressFacts DEF InTask
    <3>. QED  BY <2>1, <2>3, <2>5, <3>1, <3>2
  <2>. QED  BY <2>4, <2>5
<1>4. CASE ~InTask(c.PC) /\ AfterBranchInstr(c)
  <2>1. NextPC(c) = c.EPC /\ Program[c.PC].op = "rfe"
    BY <1>1, <1>4, HandlerAssumption DEF Flow, InOrder
  <2>. QED  BY <1>4, <2>1 DEF Flow, Resumable
<1>. QED  BY <1>2, <1>3, <1>4

\* What an instruction does to the position.
Advances(c, d) ==
  /\ d.PC = NextPC(c) /\ d.EPC = c.EPC
  /\ IF IsBranch(c.PC) THEN InTask(c.PC) => NextPC(d) = Target(c.PC, c.PC + 1)
     ELSE d.new_PC = 1 /\ d.new_PC_mask = "all"

LEMMA OrdinaryFlow ==
  ASSUME NEW c \in CPUs, NEW d \in CPUs, NEW again \in BOOLEAN, Flow(c, again), SameFlow(c, d),
         ~IsBranch(c.PC), ~InTask(c.PC) /\ Program[c.PC].op # "rfe" => ~d.SR.IE.c
  PROVE  OpDone(d) \in CPUs /\ Flow(OpDone(d), again /\ ~InTask(c.PC)) /\ Advances(c, OpDone(d))
<1>. DEFINE e == OpDone(d)
<1>1. NextPC(d) = NextPC(c) /\ NextPC(c) \in Addresses
  BY OrdinaryNext DEF SameFlow, NextPC
<1>2. /\ e \in CPUs /\ e.PC = NextPC(c) /\ e.new_PC = 1 /\ e.new_PC_mask = "all"
      /\ e.EPC = c.EPC /\ e.SR = d.SR
  <2>1. e = [d EXCEPT !.PC = NextPC(c), !.new_PC = 1, !.new_PC_mask = "all"]
    BY <1>1 DEF OpDone
  <2>2. \A n \in Addresses, i \in Int, mask \in {"all", "relative", "absolute"} :
          [d EXCEPT !.PC = n, !.new_PC = i, !.new_PC_mask = mask] \in CPUs
    BY DEF CPUs
  <2>. HIDE DEF e
  <2>4. e \in CPUs
    <3>1. 1 \in Int /\ "all" \in {"all", "relative", "absolute"}
      OBVIOUS
    <3>2. [d EXCEPT !.PC = NextPC(c), !.new_PC = 1, !.new_PC_mask = "all"] \in CPUs
      BY <1>1, <2>2, <3>1
    <3>. QED  BY <2>1, <3>2
  <2>3. e.PC = NextPC(c) /\ e.new_PC = 1 /\ e.new_PC_mask = "all" /\ e.EPC = d.EPC /\ e.SR = d.SR
    BY <2>1 DEF CPUs
  <2>. QED  BY <2>4, <2>3 DEF SameFlow
<1>. HIDE DEF e
<1>3. InOrder(e)
  BY <1>2, OrdinaryNext DEF InOrder, AfterBranchInstr
<1>4. Resumable(e, again /\ ~InTask(c.PC))
  BY <1>2, OrdinaryNext DEF Resumable, Flow
<1>5. Advances(c, e)
  BY <1>2 DEF Advances
<1>. QED  BY <1>1, <1>2, <1>3, <1>4, <1>5 DEF Flow, e

\* The rest of the invariant does not depend on the position.
LEMMA OrdinaryGood ==
  ASSUME NEW c \in CPUs, NEW d \in CPUs, NEW again \in BOOLEAN, NEW i \in Controllers,
         Flow(c, again), SameFlow(c, d), ~IsBranch(c.PC), Cached(d), Connected(i, d),
         ~InTask(c.PC) /\ Program[c.PC].op # "rfe" => ~d.SR.IE.c
  PROVE  Good(i, OpDone(d), again /\ ~InTask(c.PC)) /\ Advances(c, OpDone(d))
<1>. DEFINE e == OpDone(d)
<1>1. e \in CPUs /\ Flow(e, again /\ ~InTask(c.PC)) /\ Advances(c, e)
  BY OrdinaryFlow
<1>2. e.SR = d.SR /\ e.CAUSE = d.CAUSE /\ e.IPCache = d.IPCache /\ e.Halted = d.Halted
  BY DEF OpDone, CPUs
<1>. HIDE DEF e
<1>3. Cached(e) /\ Connected(i, e)
  BY <1>2 DEF Cached, Connected, Requested
<1>4. (again /\ ~InTask(c.PC)) \in BOOLEAN
  OBVIOUS
<1>. QED  BY <1>1, <1>3, <1>4 DEF Good, Typed, e

\* A branch is never in a delay slot, and its successor is one.
LEMMA BranchNext ==
  ASSUME NEW c \in CPUs, NEW again \in BOOLEAN, Flow(c, again), IsBranch(c.PC)
  PROVE  /\ ~AfterBranchInstr(c) /\ NextPC(c) = c.PC + 1 /\ c.PC + 1 \in Addresses /\ DelaySlot(c.PC + 1)
         /\ InTask(c.PC + 1) <=> InTask(c.PC)
<1>1. c.PC \in Addresses /\ c.PC \in Int /\ (c.PC - 1) + 1 = c.PC /\ (c.PC + 1) - 1 = c.PC /\ Handler \in Int
  <2>1. c.PC \in Addresses /\ c.PC \in Int
    BY AddressFacts DEF Flow
  <2>. QED  BY <2>1, AddressFacts, NextPrevious
<1>2. ~AfterBranchInstr(c)
  <2>. SUFFICES ASSUME AfterBranchInstr(c) PROVE FALSE
    OBVIOUS
  <2>1. DelaySlot(c.PC) /\ c.PC - 1 \in Addresses /\ IsBranch(c.PC - 1)
    BY DEF Flow, InOrder, DelaySlot
  <2>2. CASE InTask(c.PC)
    BY <1>1, <2>1, <2>2, TaskAssumption DEF Flow, InOrder
  <2>3. CASE ~InTask(c.PC)
    BY <1>1, <2>1, <2>3, HandlerAssumption DEF IsBranch
  <2>. QED  BY <2>2, <2>3
<1>3. NextPC(c) = c.PC + 1
  BY <1>2 DEF Flow, InOrder, NextPC, AfterBranchInstr
<1>4. DelaySlot(c.PC + 1)
  BY <1>1 DEF DelaySlot
<1>5. CASE InTask(c.PC)
  BY <1>1, <1>2, <1>3, <1>4, <1>5, TaskAssumption
<1>6. CASE ~InTask(c.PC)
  <2>1. c.PC + 1 \in Addresses
    BY <1>1, <1>6, HandlerAssumption DEF IsBranch
  <2>2. ~InTask(c.PC + 1)
    BY <1>1, <1>6 DEF InTask
  <2>. QED  BY <1>2, <1>3, <1>4, <1>6, <2>1, <2>2
<1>. QED  BY <1>5, <1>6

LEMMA BranchFlow ==
  ASSUME NEW c \in CPUs, NEW again \in BOOLEAN, Flow(c, again), IsBranch(c.PC),
         NEW offset \in Int, NEW mask \in {"relative", "absolute"},
         IF InTask(c.PC) THEN Target(c.PC, c.PC + 1) = (IF mask = "absolute" THEN 0 ELSE c.PC + 1) + offset
         ELSE mask = "absolute" /\ offset = c.EPC
  PROVE  DoBranch(c, offset, mask) \in CPUs /\ Flow(DoBranch(c, offset, mask), again /\ ~InTask(c.PC))
         /\ Advances(c, DoBranch(c, offset, mask))
<1>. DEFINE e == DoBranch(c, offset, mask)
<1>1. c.PC \in Int /\ c.EPC \in Int /\ (c.PC + 1) - 1 = c.PC
  <2>1. c.PC \in Addresses /\ c.EPC \in Addresses
    BY DEF CPUs
  <2>2. c.PC \in Int /\ c.EPC \in Int
    BY <2>1, AddressFacts
  <2>. QED  BY <2>2, NextPrevious
<1>2. /\ e \in CPUs /\ e.PC = c.PC + 1 /\ e.new_PC = offset /\ e.new_PC_mask = mask
      /\ e.EPC = c.EPC /\ e.SR = c.SR
  BY BranchNext DEF DoBranch, CPUs
<1>. HIDE DEF e
<1>3. AfterBranchInstr(e) /\ NextPC(e) = (IF mask = "absolute" THEN 0 ELSE c.PC + 1) + offset
  BY <1>1, <1>2 DEF AfterBranchInstr, NextPC
<1>4. InOrder(e)
  BY <1>1, <1>2, <1>3, BranchNext DEF InOrder
<1>5. Resumable(e, again /\ ~InTask(c.PC))
  BY <1>2, BranchNext DEF Resumable, Flow
<1>6. Advances(c, e)
  BY <1>2, <1>3, BranchNext DEF Advances
<1>. QED  BY <1>2, <1>4, <1>5, <1>6, BranchNext DEF Flow, e

LEMMA BranchGood ==
  ASSUME NEW c \in CPUs, NEW again \in BOOLEAN, NEW i \in Controllers, Good(i, c, again), IsBranch(c.PC),
         NEW offset \in Int, NEW mask \in {"relative", "absolute"},
         IF InTask(c.PC) THEN Target(c.PC, c.PC + 1) = (IF mask = "absolute" THEN 0 ELSE c.PC + 1) + offset
         ELSE mask = "absolute" /\ offset = c.EPC
  PROVE  Good(i, DoBranch(c, offset, mask), again /\ ~InTask(c.PC)) /\ Advances(c, DoBranch(c, offset, mask))
<1>. DEFINE e == DoBranch(c, offset, mask)
<1>1. e \in CPUs /\ Flow(e, again /\ ~InTask(c.PC)) /\ Advances(c, e)
  BY BranchFlow DEF Good
<1>2. e.SR = c.SR /\ e.CAUSE = c.CAUSE /\ e.IPCache = c.IPCache /\ e.Halted = c.Halted
  BY DEF DoBranch, CPUs
<1>. HIDE DEF e
<1>3. Cached(e) /\ Connected(i, e)
  BY <1>2 DEF Cached, Connected, Requested, Good
<1>4. (again /\ ~InTask(c.PC)) \in BOOLEAN
  OBVIOUS
<1>. QED  BY <1>1, <1>3, <1>4 DEF Good, Typed, e

(***************************************************************************)
(* The CPU's steps.                                                        *)
(***************************************************************************)
LEMMA InterruptGood ==
  ASSUME IInv, Interrupt
  PROVE  IInv' /\ InTask(cpu.PC) /\ ~InTask(cpu'.PC)
         /\ cpu'.EPC = ReturnAddress(cpu) /\ resumed' = (AfterBranchInstr(cpu) \/ resumed)
<1>. DEFINE ra == ReturnAddress(cpu)
            e == [cpu EXCEPT !.EPC = ra, !.SR.IE = Pushed(@), !.new_PC = Handler, !.new_PC_mask = "absolute"]
            f == RecalcIPCache(e)
<1>1. cpu \in CPUs /\ resumed \in BOOLEAN /\ Flow(cpu, resumed) /\ Cached(cpu) /\ Connected(irq, cpu) /\ irq \in Controllers
  BY DEF IInv, Good, Typed
<1>2. cpu.SR.IE.c
  BY <1>1 DEF Interrupt, Blocked, Cached, Requested
<1>3. InTask(cpu.PC) /\ cpu.PC \in Addresses /\ cpu.PC \in Int
  BY <1>1, <1>2, AddressFacts DEF Flow, Resumable
<1>4. ra \in Addresses /\ InTask(ra) /\ ~DelaySlot(ra) /\ (AfterBranchInstr(cpu) \/ resumed => IsBranch(ra))
  <2>1. CASE AfterBranchInstr(cpu)
    <3>1. ra = cpu.PC - 1 /\ ra \in Addresses /\ IsBranch(ra) /\ InTask(ra)
      BY <1>1, <1>3, <2>1 DEF Flow, InOrder, DelaySlot, ReturnAddress
    <3>2. ~DelaySlot(ra)
      <4>1. SUFFICES ASSUME ra - 1 \in Addresses, IsBranch(ra - 1) PROVE FALSE
        BY DEF DelaySlot
      <4>2. InTask(ra - 1) /\ (ra - 1) + 1 = ra
        BY <1>3, <3>1, AddressFacts, NextPrevious DEF InTask
      <4>. QED  BY <3>1, <4>1, <4>2, TaskAssumption
    <3>. QED  BY <3>1, <3>2
  <2>2. CASE ~AfterBranchInstr(cpu)
    BY <1>1, <1>3, <2>2 DEF Flow, InOrder, Resumable, ReturnAddress
  <2>. QED  BY <2>1, <2>2
<1>. HIDE DEF ra
<1>5. /\ e \in CPUs /\ e.EPC = ra /\ e.new_PC = Handler /\ e.new_PC_mask = "absolute" /\ ~e.SR.IE.c
      /\ e.CAUSE = cpu.CAUSE
  <2>1. cpu.SR \in StatusRegisters /\ Pushed(cpu.SR.IE) \in Stacks /\ ~Pushed(cpu.SR.IE).c
    BY <1>1 DEF CPUs, StatusRegisters, Stacks, Pushed
  <2>2. [cpu.SR EXCEPT !.IE = Pushed(cpu.SR.IE)] \in StatusRegisters
    BY <2>1 DEF StatusRegisters
  <2>3. e = [cpu EXCEPT !.EPC = ra, !.SR = [cpu.SR EXCEPT !.IE = Pushed(cpu.SR.IE)],
                        !.new_PC = Handler, !.new_PC_mask = "absolute"]
    BY <1>1 DEF CPUs
  <2>4. \A sr \in StatusRegisters, mask \in {"all", "relative", "absolute"}, h \in Int :
          [cpu EXCEPT !.EPC = ra, !.SR = sr, !.new_PC = h, !.new_PC_mask = mask] \in CPUs
    BY <1>1, <1>4 DEF CPUs
  <2>5. "absolute" \in {"all", "relative", "absolute"}
    OBVIOUS
  <2>6. e \in CPUs
    BY <2>2, <2>3, <2>4, <2>5, AddressFacts
  <2>7. [cpu.SR EXCEPT !.IE = Pushed(cpu.SR.IE)].IE = Pushed(cpu.SR.IE)
    BY <2>1 DEF StatusRegisters
  <2>. DEFINE sr == [cpu.SR EXCEPT !.IE = Pushed(cpu.SR.IE)]
  <2>. HIDE DEF sr
  <2>8. e = [cpu EXCEPT !.EPC = ra, !.SR = sr, !.new_PC = Handler, !.new_PC_mask = "absolute"]
    BY <2>3 DEF sr
  <2>. HIDE DEF e
  <2>9. /\ e.EPC = ra /\ e.new_PC = Handler /\ e.new_PC_mask = "absolute" /\ e.SR = sr
        /\ e.CAUSE = cpu.CAUSE
    BY <1>1, <2>8 DEF CPUs
  <2>. QED  BY <2>1, <2>6, <2>7, <2>9 DEF sr
<1>. HIDE DEF e
<1>6. f \in CPUs /\ Cached(f) /\ SameFlow(e, f) /\ f.SR = e.SR /\ f.CAUSE = e.CAUSE
  BY <1>5, RecalcProps
<1>. HIDE DEF f
<1>7. cpu' = [f EXCEPT !.PC = Handler, !.new_PC = 1, !.new_PC_mask = "all"]
  <2>1. cpu' = OpDone(f)
    BY DEF Interrupt, Exception, f, e, ra
  <2>2. NextPC(f) = Handler
    BY <1>5, <1>6, AddressFacts DEF NextPC, SameFlow
  <2>. QED  BY <2>1, <2>2 DEF OpDone
<1>8. cpu' \in CPUs
  <2>1. \A i \in Int, mask \in {"all", "relative", "absolute"} :
          [f EXCEPT !.PC = Handler, !.new_PC = i, !.new_PC_mask = mask] \in CPUs
    BY <1>6, AddressFacts DEF CPUs
  <2>2. 1 \in Int /\ "all" \in {"all", "relative", "absolute"}
    OBVIOUS
  <2>3. [f EXCEPT !.PC = Handler, !.new_PC = 1, !.new_PC_mask = "all"] \in CPUs
    BY <2>1, <2>2
  <2>. QED  BY <1>7, <2>3
<1>9. /\ cpu'.PC = Handler /\ cpu'.new_PC = 1 /\ cpu'.new_PC_mask = "all" /\ cpu'.EPC = ra
      /\ cpu'.SR = e.SR /\ cpu'.CAUSE = cpu.CAUSE /\ cpu'.IPCache = f.IPCache /\ cpu'.Halted = f.Halted
  BY <1>5, <1>6, <1>7 DEF CPUs, SameFlow
<1>10. ~InTask(Handler)
  BY AddressFacts DEF InTask
<1>11. resumed' = (AfterBranchInstr(cpu) \/ resumed) /\ resumed' \in BOOLEAN
  BY <1>1, <1>3 DEF Interrupt, AfterBranchInstr
<1>12. Flow(cpu', resumed')
  <2>1. InOrder(cpu')
    BY <1>9, AddressAssumption DEF InOrder, AfterBranchInstr
  <2>2. Resumable(cpu', resumed')
    BY <1>4, <1>5, <1>9, <1>10, <1>11 DEF Resumable
  <2>. QED  BY <1>9, <2>1, <2>2, AddressFacts DEF Flow
<1>13. Cached(cpu') /\ Connected(irq, cpu')
  <2>1. Connected(irq, cpu')
    BY <1>1, <1>9 DEF Connected
  <2>2. cpu'.SR = f.SR /\ cpu'.CAUSE = f.CAUSE /\ cpu'.IPCache = f.IPCache /\ cpu'.Halted = f.Halted
    BY <1>5, <1>6, <1>9
  <2>3. Cached(cpu')
    BY <1>6, <2>2 DEF Cached, Requested
  <2>. QED  BY <2>1, <2>3
<1>14. Good(irq', cpu', resumed')
  BY <1>1, <1>8, <1>11, <1>12, <1>13 DEF Good, Typed, Interrupt
<1>15. IInv'
  BY <1>14 DEF IInv, Interrupt
<1>. QED  BY <1>3, <1>9, <1>10, <1>11, <1>15 DEF ra

LEMMA ExecuteGood ==
  ASSUME IInv, Execute
  PROVE  IInv' /\ Advances(cpu, cpu')
<1>. DEFINE op == Program[cpu.PC].op
            arg == Program[cpu.PC].arg
            again == resumed /\ ~InTask(cpu.PC)
<1>1. /\ cpu \in CPUs /\ resumed \in BOOLEAN /\ Flow(cpu, resumed) /\ Cached(cpu)
      /\ Connected(irq, cpu) /\ irq \in Controllers /\ Good(irq, cpu, resumed)
  BY DEF IInv, Good, Typed
<1>2. cpu.PC \in Addresses /\ cpu.PC \in Int /\ cpu.EPC \in Int
  <2>1. cpu.PC \in Addresses /\ cpu.EPC \in Addresses
    BY <1>1 DEF CPUs
  <2>. QED  BY <2>1, AddressFacts
<1>3. InTask(cpu.PC) => op \notin {"jr_epc", "rfe"}
  BY <1>2, TaskAssumption
<1>4. ~InTask(cpu.PC) => op \notin {"branch", "jump", "mtc0_sr"} /\ ~cpu.SR.IE.c
  BY <1>1, <1>2, HandlerAssumption DEF Flow, Resumable
<1>5. resumed' = again /\ again \in BOOLEAN /\ saved' = saved
  BY <1>1 DEF Execute
<1>6. SUFFICES Good(irq', cpu', again) /\ Advances(cpu, cpu')
  BY <1>5 DEF IInv, Good, Typed
<1>7. CASE op \in {"plain", "gte"} /\ cpu' = OpDone(cpu) /\ irq' = irq
  BY <1>1, <1>4, <1>7, OrdinaryGood DEF SameFlow, IsBranch
<1>8. CASE op = "branch" /\ cpu' = DoBranch(cpu, arg, "relative") /\ irq' = irq
  <2>1. InTask(cpu.PC) /\ arg \in Int /\ IsBranch(cpu.PC) /\ Target(cpu.PC, cpu.PC + 1) = (cpu.PC + 1) + arg
    BY <1>2, <1>4, <1>8, OperandTyped DEF IsBranch, Target
  <2>. QED  BY <1>1, <1>8, <2>1, BranchGood
<1>9. CASE op = "jump" /\ cpu' = DoBranch(cpu, arg, "absolute") /\ irq' = irq
  <2>1. InTask(cpu.PC) /\ arg \in Int /\ IsBranch(cpu.PC) /\ Target(cpu.PC, cpu.PC + 1) = 0 + arg
    BY <1>2, <1>4, <1>9, OperandTyped DEF IsBranch, Target
  <2>. QED  BY <1>1, <1>9, <2>1, BranchGood
<1>10. CASE op = "jr_epc" /\ cpu' = DoBranch(cpu, cpu.EPC, "absolute") /\ irq' = irq
  <2>1. ~InTask(cpu.PC) /\ IsBranch(cpu.PC)
    BY <1>3, <1>10 DEF IsBranch
  <2>. QED  BY <1>1, <1>2, <1>10, <2>1, BranchGood
<1>11. CASE op = "mtc0_sr" /\ cpu' = OpDone(RecalcIPCache([cpu EXCEPT !.SR = arg])) /\ irq' = irq
  <2>. DEFINE d == [cpu EXCEPT !.SR = arg]
  <2>1. InTask(cpu.PC) /\ ~IsBranch(cpu.PC) /\ arg \in StatusRegisters
    BY <1>2, <1>4, <1>11, OperandTyped DEF IsBranch
  <2>2. d \in CPUs /\ SameFlow(cpu, d) /\ d.CAUSE = cpu.CAUSE
    BY <1>1, <2>1 DEF CPUs, SameFlow
  <2>. HIDE DEF d
  <2>3. RecalcIPCache(d) \in CPUs /\ Cached(RecalcIPCache(d)) /\ SameFlow(cpu, RecalcIPCache(d)) /\ Connected(irq, RecalcIPCache(d))
    BY <1>1, <2>2, RecalcProps DEF SameFlow, Connected
  <2>4. Good(irq, OpDone(RecalcIPCache(d)), again) /\ Advances(cpu, OpDone(RecalcIPCache(d)))
    BY <1>1, <2>1, <2>3, OrdinaryGood
  <2>. QED  BY <1>11, <2>4 DEF d
<1>12. CASE op = "mtc0_cause" /\ irq' = irq
            /\ cpu' = OpDone(RecalcIPCache([cpu EXCEPT !.CAUSE = (@ \ {"soft"}) \cup arg]))
  <2>. DEFINE cause == (cpu.CAUSE \ {"soft"}) \cup arg
              d == [cpu EXCEPT !.CAUSE = cause]
  <2>1. ~IsBranch(cpu.PC) /\ arg \subseteq {"soft"}
    BY <1>2, <1>12, OperandTyped DEF IsBranch
  <2>2. cause \in SUBSET Causes /\ ("hard" \in cause <=> "hard" \in cpu.CAUSE)
    BY <1>1, <2>1 DEF CPUs, Causes
  <2>3. d \in CPUs /\ SameFlow(cpu, d) /\ d.CAUSE = cause /\ d.SR = cpu.SR
    BY <1>1, <2>2 DEF CPUs, SameFlow
  <2>. HIDE DEF d, cause
  <2>4. /\ RecalcIPCache(d) \in CPUs /\ Cached(RecalcIPCache(d)) /\ SameFlow(cpu, RecalcIPCache(d))
        /\ Connected(irq, RecalcIPCache(d)) /\ RecalcIPCache(d).SR = cpu.SR
    BY <1>1, <2>2, <2>3, RecalcProps DEF SameFlow, Connected
  <2>5. Good(irq, OpDone(RecalcIPCache(d)), again) /\ Advances(cpu, OpDone(RecalcIPCache(d)))
    BY <1>1, <1>4, <2>1, <2>4, OrdinaryGood
  <2>. QED  BY <1>12, <2>5 DEF d, cause
<1>13. CASE op = "rfe" /\ irq' = irq
            /\ cpu' = OpDone(RecalcIPCache([cpu EXCEPT !.SR.IE = Popped(@)]))
  <2>. DEFINE sr == [cpu.SR EXCEPT !.IE = Popped(cpu.SR.IE)]
              d == [cpu EXCEPT !.SR = sr]
  <2>1. cpu' = OpDone(RecalcIPCache(d))
    BY <1>1, <1>13 DEF CPUs
  <2>2. sr \in StatusRegisters
    BY <1>1 DEF CPUs, StatusRegisters, Stacks, Popped
  <2>3. d \in CPUs /\ SameFlow(cpu, d) /\ d.CAUSE = cpu.CAUSE
    BY <1>1, <2>2 DEF CPUs, SameFlow
  <2>. HIDE DEF d, sr
  <2>4. RecalcIPCache(d) \in CPUs /\ Cached(RecalcIPCache(d)) /\ SameFlow(cpu, RecalcIPCache(d)) /\ Connected(irq, RecalcIPCache(d))
    BY <1>1, <2>3, RecalcProps DEF SameFlow, Connected
  <2>5. Good(irq, OpDone(RecalcIPCache(d)), again) /\ Advances(cpu, OpDone(RecalcIPCache(d)))
    BY <1>1, <1>13, <2>4, OrdinaryGood DEF IsBranch
  <2>. QED  BY <1>13, <2>1, <2>5
<1>14. CASE op = "read" /\ cpu' = OpDone([cpu EXCEPT !.k = irq.Status \cap irq.Mask]) /\ irq' = irq
  <2>. DEFINE d == [cpu EXCEPT !.k = irq.Status \cap irq.Mask]
  <2>1. irq.Status \cap irq.Mask \in SUBSET Lines
    BY <1>1 DEF Controllers
  <2>2. /\ d \in CPUs /\ SameFlow(cpu, d) /\ d.SR = cpu.SR /\ d.CAUSE = cpu.CAUSE
        /\ d.IPCache = cpu.IPCache /\ d.Halted = cpu.Halted
    BY <1>1, <2>1 DEF CPUs, SameFlow
  <2>. HIDE DEF d
  <2>3. Cached(d) /\ Connected(irq, d)
    BY <1>1, <2>2 DEF Cached, Connected, Requested
  <2>4. Good(irq, OpDone(d), again) /\ Advances(cpu, OpDone(d))
    BY <1>1, <1>4, <1>14, <2>2, <2>3, OrdinaryGood DEF IsBranch
  <2>. QED  BY <1>14, <2>4 DEF d
<1>15. CASE op \in {"acknowledge", "write"} /\ irq' \in Controllers
            /\ cpu' = AssertIRQ(OpDone(cpu), irq'.Status \cap irq'.Mask # {})
  <2>1. Good(irq, OpDone(cpu), again) /\ Advances(cpu, OpDone(cpu))
    BY <1>1, <1>4, <1>15, OrdinaryGood DEF SameFlow, IsBranch
  <2>2. OpDone(cpu) \in CPUs /\ Flow(OpDone(cpu), again)
    BY <2>1 DEF Good, Typed
  <2>3. Good(irq', cpu', again) /\ SameFlow(OpDone(cpu), cpu')
    BY <1>5, <1>15, <2>2, AssertGood, AssertProps
  <2>4. ~IsBranch(cpu.PC)
    BY <1>15 DEF IsBranch
  <2>. QED  BY <2>1, <2>3, <2>4 DEF Advances, SameFlow
<1>16. op = "acknowledge" /\ IRQ_Write(OpDone(cpu), "status", Lines \ cpu.k, 0)
       => irq' \in Controllers /\ cpu' = AssertIRQ(OpDone(cpu), irq'.Status \cap irq'.Mask # {})
  BY <1>1 DEF IRQ_Write, Recalc, Written, Shifted, Controllers
<1>17. op = "write" /\ IRQ_Write(OpDone(cpu), arg.register, arg.value, arg.offset)
       => irq' \in Controllers /\ cpu' = AssertIRQ(OpDone(cpu), irq'.Status \cap irq'.Mask # {})
  <2>1. op = "write" => Shifted(arg.value, arg.offset) \in SUBSET Lines
    BY <1>2, OperandTyped DEF Shifted
  <2>. QED  BY <1>1, <2>1 DEF IRQ_Write, Recalc, Written, Controllers
<1>18. Operation(op, arg)
  BY DEF Execute
<1>. HIDE DEF op, arg
<1>. QED  BY <1>7, <1>8, <1>9, <1>10, <1>11, <1>12, <1>13, <1>14, <1>15, <1>16, <1>17, <1>18 DEF Operation

(***************************************************************************)
(* The theorems.                                                           *)
(***************************************************************************)
LEMMA NextGood == IInv /\ [Next]_vars => IInv'
<1>. SUFFICES ASSUME IInv, [Next]_vars PROVE IInv'
  OBVIOUS
<1>1. CASE Step
  BY <1>1, InterruptGood, ExecuteGood DEF Step
<1>2. CASE Device
  BY <1>2, DeviceGood
<1>3. CASE DMA
  BY <1>3, DMAGood
<1>4. CASE Power
  BY <1>4, PowerGood
<1>5. CASE SaveState \/ LoadState
  BY <1>5, StatesGood
<1>6. CASE UNCHANGED vars
  BY <1>6 DEF IInv, vars
<1>. QED  BY <1>1, <1>2, <1>3, <1>4, <1>5, <1>6 DEF Next

LEMMA Invariance == Spec => []IInv
<1>1. Init => IInv
  BY InitGood
<1>2. IInv /\ [Next]_vars => IInv'
  BY NextGood
<1>. QED  BY <1>1, <1>2, PTL DEF Spec

\* Registers keep their types, and PC and EPC stay in the program (cpu.cpp:405).
THEOREM TypeCorrect == Spec => []TypeOK
<1>1. IInv => TypeOK
  BY DEF IInv, Good, Typed, TypeOK
<1>. QED  BY <1>1, Invariance, PTL

\* The cached decision of the CPU (cpu.cpp:86) is never stale.
THEOREM DecisionsAreFresh == Spec => []DecisionIsFresh
<1>1. IInv => DecisionIsFresh
  <2>. SUFFICES ASSUME IInv PROVE DecisionIsFresh
    OBVIOUS
  <2>1. Cached(cpu) /\ Connected(irq, cpu) /\ cpu.CAUSE \subseteq {"soft", "hard"} /\ cpu.SR.IM \subseteq {"soft", "hard"}
    BY DEF IInv, Good, Typed, CPUs, StatusRegisters, Causes
  <2>. QED  BY <2>1 DEF DecisionIsFresh, Fresh, Cached, Connected, Requested
<1>. QED  BY <1>1, Invariance, PTL

\* Outside a loaded state, requests are the rising edges of the lines (irq.cpp:69).
THEOREM RequestsAreRisingEdges == Spec => RequestsAreEdges
<1>. DEFINE Edges == /\ irq'.Status \ irq.Status \subseteq irq'.Asserted \ irq.Asserted
                     /\ irq'.Asserted \ irq.Asserted \subseteq irq'.Status
<1>1. ASSUME IInv, [Next]_vars PROVE [LoadState \/ Edges]_vars
  <2>1. irq \in Controllers
    BY <1>1 DEF IInv, Good, Typed
  <2>2. CASE irq' = irq
    BY <2>1, <2>2 DEF Controllers
  <2>3. CASE Device
    BY <2>1, <2>3 DEF Device, IRQ_Assert, Recalc, Edge, Controllers
  <2>4. CASE Power
    BY <2>1, <2>4 DEF Power, Quiet, Controllers
  <2>5. ASSUME NEW register, NEW V, Recalc(Written(irq, register, V), OpDone(cpu)) PROVE Edges
    BY <2>1, <2>5 DEF Recalc, Written, Controllers
  <2>6. CASE Execute
    BY <2>2, <2>5, <2>6 DEF Execute, Operation, IRQ_Write
  <2>. QED  BY <1>1, <2>2, <2>3, <2>4, <2>6 DEF Next, Step, Interrupt, DMA, SaveState, vars
<1>. QED  BY <1>1, Invariance, PTL DEF Spec, RequestsAreEdges

(***************************************************************************)
(* The refinement of the program without interrupts.                       *)
(***************************************************************************)
LEMMA PositionKept ==
  ASSUME NEW c \in CPUs, NEW d \in CPUs, NEW again \in BOOLEAN, SameFlow(c, d)
  PROVE  PositionOf(d, again) = PositionOf(c, again)
BY DEF PositionOf, SameFlow, NextPC

LEMMA ResetPosition ==
  ASSUME NEW c \in CPUs, NEW halted \in BOOLEAN, SameFlow(Reset(halted), c)
  PROVE  PositionOf(c, FALSE) = Position(Start, Start + 1)
<1>1. c.PC = Start /\ c.new_PC = 1 /\ c.new_PC_mask = "all"
  BY ResetProps DEF SameFlow
<1>. QED  BY <1>1, AddressAssumption DEF PositionOf, NextPC

LEMMA InterruptPosition ==
  ASSUME IInv, Interrupt
  PROVE  PositionOf(cpu', resumed') = PositionOf(cpu, resumed)
<1>1. /\ cpu \in CPUs /\ Flow(cpu, resumed) /\ resumed \in BOOLEAN
      /\ cpu.PC \in Int /\ (cpu.PC - 1) + 1 = cpu.PC
  <2>1. cpu \in CPUs /\ Flow(cpu, resumed) /\ resumed \in BOOLEAN /\ cpu.PC \in Int
    BY AddressFacts DEF IInv, Good, Typed, Flow
  <2>. QED  BY <2>1, NextPrevious
<1>2. /\ InTask(cpu.PC) /\ ~InTask(cpu'.PC) /\ cpu'.EPC = ReturnAddress(cpu)
      /\ resumed' = (AfterBranchInstr(cpu) \/ resumed)
  BY InterruptGood
<1>3. CASE AfterBranchInstr(cpu)
  <2>1. ~resumed
    <3>1. resumed => IsBranch(cpu.PC)
      BY <1>1, <1>2 DEF Flow, Resumable
    <3>. QED  BY <1>1, <1>3, <3>1, BranchNext
  <2>2. NextPC(cpu) = Target(cpu.PC - 1, cpu.PC)
    BY <1>1, <1>2, <1>3 DEF Flow, InOrder
  <2>3. PositionOf(cpu, resumed) = Position(cpu.PC, NextPC(cpu))
    BY <1>2, <2>1 DEF PositionOf
  <2>4. PositionOf(cpu', resumed') = Position((cpu.PC - 1) + 1, Target(cpu.PC - 1, (cpu.PC - 1) + 1))
    BY <1>2, <1>3 DEF PositionOf, ReturnAddress
  <2>. QED  BY <1>1, <2>2, <2>3, <2>4
<1>4. CASE ~AfterBranchInstr(cpu)
  <2>1. NextPC(cpu) = cpu.PC + 1
    BY <1>1, <1>4 DEF Flow, InOrder, AfterBranchInstr, NextPC
  <2>2. cpu'.EPC = cpu.PC /\ resumed' = resumed
    BY <1>1, <1>2, <1>4 DEF ReturnAddress
  <2>. QED  BY <1>2, <2>1, <2>2 DEF PositionOf
<1>. QED  BY <1>3, <1>4

LEMMA ExecutePosition ==
  ASSUME IInv, Execute
  PROVE  \/ PositionOf(cpu', resumed') = PositionOf(cpu, resumed)
         \/ PositionOf(cpu', resumed') = Position(PositionOf(cpu, resumed).then,
                                                 Target(PositionOf(cpu, resumed).pc, PositionOf(cpu, resumed).then))
<1>1. /\ cpu \in CPUs /\ Flow(cpu, resumed) /\ resumed \in BOOLEAN /\ cpu.PC \in Addresses
      /\ Advances(cpu, cpu') /\ Flow(cpu', resumed') /\ resumed' = (resumed /\ ~InTask(cpu.PC))
  BY ExecuteGood DEF IInv, Good, Typed, Flow, Execute
<1>2. CASE InTask(cpu.PC) /\ IsBranch(cpu.PC)
  <2>1. NextPC(cpu) = cpu.PC + 1 /\ InTask(cpu.PC + 1)
    BY <1>1, <1>2, BranchNext
  <2>2. cpu'.PC = cpu.PC + 1 /\ NextPC(cpu') = Target(cpu.PC, cpu.PC + 1) /\ ~resumed'
    BY <1>1, <1>2, <2>1 DEF Advances
  <2>3. PositionOf(cpu', resumed') = Position(cpu.PC + 1, Target(cpu.PC, cpu.PC + 1))
    BY <2>1, <2>2 DEF PositionOf
  <2>4. CASE resumed
    BY <1>2, <2>3, <2>4 DEF PositionOf
  <2>5. CASE ~resumed
    <3>1. PositionOf(cpu, resumed) = Position(cpu.PC, cpu.PC + 1)
      BY <1>2, <2>1, <2>5 DEF PositionOf
    <3>. QED  BY <2>3, <3>1 DEF Position
  <2>. QED  BY <1>1, <2>4, <2>5
<1>3. CASE InTask(cpu.PC) /\ ~IsBranch(cpu.PC)
  <2>1. ~resumed /\ ~resumed' /\ InTask(NextPC(cpu))
    BY <1>1, <1>3, OrdinaryNext DEF Flow, Resumable
  <2>2. cpu'.PC = NextPC(cpu) /\ cpu'.new_PC = 1 /\ cpu'.new_PC_mask = "all"
    BY <1>1, <1>3 DEF Advances
  <2>3. PositionOf(cpu', resumed') = Position(NextPC(cpu), NextPC(cpu) + 1)
    BY <2>1, <2>2 DEF PositionOf, NextPC
  <2>4. PositionOf(cpu, resumed) = Position(cpu.PC, NextPC(cpu))
    BY <1>3, <2>1 DEF PositionOf
  <2>5. Target(cpu.PC, NextPC(cpu)) = NextPC(cpu) + 1
    BY <1>3 DEF Target, IsBranch
  <2>. QED  BY <2>3, <2>4, <2>5 DEF Position
<1>4. CASE ~InTask(cpu.PC)
  <2>1. resumed' = resumed /\ cpu'.EPC = cpu.EPC
    BY <1>1, <1>4 DEF Advances
  <2>2. CASE ~InTask(cpu'.PC)
    BY <1>4, <2>1, <2>2 DEF PositionOf
  <2>3. CASE InTask(cpu'.PC)
    <3>1. ~IsBranch(cpu.PC)
      BY <1>1, <1>4, <2>3, BranchNext DEF Advances
    <3>2. cpu'.PC = cpu.EPC /\ cpu'.new_PC = 1 /\ cpu'.new_PC_mask = "all"
      BY <1>1, <1>4, <2>3, <3>1, OrdinaryNext DEF Advances
    <3>3. NextPC(cpu') = cpu.EPC + 1
      BY <3>2 DEF NextPC
    <3>. QED  BY <1>4, <2>1, <2>3, <3>2, <3>3 DEF PositionOf
  <2>. QED  BY <2>2, <2>3
<1>. QED  BY <1>2, <1>3, <1>4

\* The task runs as if there were no interrupts: every step of the machine is a step
\* of the program without interrupts, or changes nothing of the task's position.
THEOREM InterruptsAreInvisible == Spec => TaskIsUndisturbed
<1>. DEFINE at == PositionOf(cpu, resumed)
            kept == PositionOf(saved.cpu, saved.resumed)
<1>1. Init => at = Position(Start, Start + 1) /\ kept = at
  <2>. SUFFICES ASSUME Init PROVE at = Position(Start, Start + 1) /\ kept = at
    OBVIOUS
  <2>1. cpu = AssertIRQ(Reset(FALSE), Quiet.Status \cap Quiet.Mask # {}) /\ resumed = FALSE
    BY QuietProps DEF Init
  <2>2. cpu \in CPUs /\ SameFlow(Reset(FALSE), cpu)
    BY <2>1, AssertProps, ResetProps, QuietProps
  <2>. QED  BY <2>1, <2>2, ResetPosition DEF Init
<1>2. ASSUME IInv, [Next]_vars PROVE Uninterrupted!Next \/ (at' = at /\ kept' = kept)
  <2>1. cpu \in CPUs /\ resumed \in BOOLEAN /\ cpu' \in CPUs /\ resumed' \in BOOLEAN
        /\ saved.cpu \in CPUs /\ saved.resumed \in BOOLEAN
    BY <1>2, NextGood DEF IInv, Good, Typed
  <2>2. saved' = saved => kept' = kept
    OBVIOUS
  <2>3. CASE Interrupt
    BY <1>2, <2>2, <2>3, InterruptPosition DEF Interrupt
  <2>4. CASE Execute
    <3>1. saved' = saved
      BY <2>4 DEF Execute
    <3>2. \/ at' = at
          \/ at' = Position(at.then, Target(at.pc, at.then))
      BY <1>2, <2>4, ExecutePosition
    <3>. QED  BY <2>2, <3>1, <3>2 DEF Uninterrupted!Next, Uninterrupted!Execute, Uninterrupted!Position,
                 Uninterrupted!Target, Position, Target
  <2>5. CASE Device
    <3>1. PICK i \in Controllers : cpu' = AssertIRQ(cpu, i.Status \cap i.Mask # {})
      <4>1. PICK which \in Lines, status \in BOOLEAN : IRQ_Assert(which, status)
        BY <2>5 DEF Device
      <4>2. irq' \in Controllers /\ cpu' = AssertIRQ(cpu, irq'.Status \cap irq'.Mask # {})
        BY <1>2, <4>1 DEF IRQ_Assert, Recalc, IInv, Good, Typed, Controllers, Edge
      <4>. QED  BY <4>2
    <3>2. SameFlow(cpu, cpu')
      BY <2>1, <3>1, AssertProps
    <3>. QED  BY <2>1, <2>2, <2>5, <3>2, PositionKept DEF Device
  <2>6. CASE DMA
    <3>1. PICK status \in BOOLEAN : cpu' = RecalcIPCache([cpu EXCEPT !.Halted = status])
      BY <2>6 DEF DMA, SetHalt
    <3>. DEFINE e == [cpu EXCEPT !.Halted = status]
    <3>2. e \in CPUs /\ SameFlow(cpu, e)
      BY <2>1 DEF CPUs, SameFlow
    <3>. HIDE DEF e
    <3>3. SameFlow(cpu, cpu')
      BY <3>1, <3>2, RecalcProps DEF SameFlow, e
    <3>. QED  BY <2>1, <2>2, <2>6, <3>3, PositionKept DEF DMA
  <2>7. CASE Power
    <3>. DEFINE d == AssertIRQ(Reset(cpu.Halted), FALSE)
                e == [d EXCEPT !.Halted = FALSE]
    <3>1. cpu.Halted \in BOOLEAN /\ d = AssertIRQ(Reset(cpu.Halted), Quiet.Status \cap Quiet.Mask # {})
      BY <2>1, QuietProps DEF CPUs
    <3>2. d \in CPUs /\ SameFlow(Reset(cpu.Halted), d)
      BY <3>1, AssertProps, ResetProps, QuietProps
    <3>3. e \in CPUs /\ SameFlow(d, e)
      BY <3>2 DEF CPUs, SameFlow
    <3>4. SameFlow(e, cpu')
      BY <2>7, <3>3, RecalcProps DEF Power
    <3>5. SameFlow(Reset(cpu.Halted), cpu')
      BY <3>2, <3>3, <3>4 DEF SameFlow
    <3>6. at' = Position(Start, Start + 1)
      BY <2>1, <2>7, <3>1, <3>5, ResetPosition DEF Power
    <3>. QED  BY <2>2, <2>7, <3>6 DEF Power, Uninterrupted!Next, Uninterrupted!PowerOn, Uninterrupted!Position, Position
  <2>8. CASE SaveState
    BY <2>8 DEF SaveState, Uninterrupted!Next, Uninterrupted!Keep
  <2>9. CASE LoadState
    <3>1. cpu' = AssertIRQ(saved.cpu, saved.irq.Status \cap saved.irq.Mask # {}) /\ saved.irq \in Controllers
      BY <1>2, <2>9 DEF LoadState, Recalc, IInv, Good, Typed
    <3>2. SameFlow(saved.cpu, cpu')
      BY <2>1, <3>1, AssertProps
    <3>3. at' = kept
      BY <2>1, <2>9, <3>2, PositionKept DEF LoadState
    <3>. QED  BY <2>2, <2>9, <3>3 DEF LoadState, Uninterrupted!Next, Uninterrupted!Return
  <2>10. CASE UNCHANGED vars
    BY <2>10 DEF vars
  <2>. QED  BY <1>2, <2>3, <2>4, <2>5, <2>6, <2>7, <2>8, <2>9, <2>10 DEF Next, Step
<1>3. Init => Uninterrupted!Init
  BY <1>1 DEF Uninterrupted!Init, Uninterrupted!Position, Position
<1>4. IInv /\ [Next]_vars => [Uninterrupted!Next]_(Uninterrupted!vars)
  BY <1>2 DEF Uninterrupted!vars
<1>. QED  BY <1>3, <1>4, Invariance, PTL DEF Spec, TaskIsUndisturbed, Uninterrupted!Spec
==============================================================================

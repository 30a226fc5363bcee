---------------------------- MODULE MCGPUFrontIO ----------------------------
(***************************************************************************)
(* GPU and FrontIO share no state and are checked in one run: part says    *)
(* which one moves, the other rests in an initial state.  The fairness of  *)
(* the GPU is asked for while it is the one that moves.                    *)
(***************************************************************************)
EXTENDS GPU, FrontIO

(* A queue that just holds the longest command, fields of four lines (NTSC), *)
(* seven or six (PAL).                                                       *)
Order(family, shaded, textured, more, width, height) ==
  [family |-> family, shaded |-> shaded, textured |-> textured, more |-> more,
   width |-> width, height |-> height]
Plain(family) == Order(family, FALSE, FALSE, 0, 0, 0)

MCOrders == {Plain("mode"), Plain("irq"), Plain("fill"),
               Order("polygon", FALSE, FALSE, 1, 0, 0), Order("line", FALSE, FALSE, 2, 0, 0),
               Order("upload", FALSE, FALSE, 0, 0, 0), Order("readback", FALSE, FALSE, 0, 0, 1)}

Show(interlaced, pal, vstart, vend) ==
  [interlaced |-> interlaced, pal |-> pal, vstart |-> vstart, vend |-> vend]
MCDefault == Show(FALSE, FALSE, 1, 3)
MCSettings == {Show(interlaced, pal, vstart, vend) :
                 interlaced \in BOOLEAN, pal \in BOOLEAN, vstart \in {0, 2}, vend \in {0, 2, 3, 9}}

(* Two pads, bytes of two bits, times of a few bits.                         *)
Bits2(a, b) == [i \in 0..1 |-> IF i = 0 THEN a ELSE b]
MCBytes == {Bits2(1, 0)}
MCReplies == {[says |-> Bits2(1, 1), ack |-> 0], [says |-> Bits2(0, 1), ack |-> 3]}
MCControls == {{"tx", "dtr", "dsrirq"}, {"tx", "rx", "dtr", "rxirq"}, {"tx", "dtr", "second"}, {}}
\* The only states saved are those with an acknowledge and a light gun's pulse to come.
MCSaves(f) == /\ Idle(f) /\ ~f.ReceivePending /\ ~f.istatus /\ "dsrirq" \in f.Control
              /\ f.dsr_pulse_delay[0] = 2 /\ f.irq10_pulse_ts[0] = 1
              /\ f.TransmitBitCounter = 0 /\ f.ReceiveBitCounter = 0

\* What the future depends on: times as such and not as what is left of them, and no bits
\* that are overwritten before anyone looks at them.
Live(f) ==
  <<IF f.ClockDivider > 0 THEN f.lastts + f.ClockDivider ELSE 0,
    [i \in Lines |-> IF f.dsr_pulse_delay[i] > 0 THEN f.lastts + f.dsr_pulse_delay[i] ELSE 0],
    f.irq10_pulse_ts, f.rate, f.Control, f.istatus, Busy(f), f.TransmitInProgress, f.TransmitPending, f.ReceivePending,
    IF f.TransmitInProgress \/ f.TransmitPending THEN f.TransmitBuffer ELSE {},
    IF f.ReceiveInProgress THEN [b \in 0..(f.ReceiveBitCounter - 1) |-> f.ReceiveBuffer[b]] ELSE <<>>,
    f.TransmitBitCounter, f.ReceiveBitCounter,
    [i \in Lines |-> IF f.dev[i].dtr THEN <<f.dev[i].pos, f.dev[i].says, [b \in 0..(f.dev[i].pos - 1) |-> f.dev[i].heard[b]]>>
                     ELSE <<>>]>>
LiveView == <<pc, now, hooked, Live(io), due, {<<Live(s.io), s.disturbed, s.acks, s.shots>> : s \in saved}, disturbed, acks, shots>>

-----------------------------------------------------------------------------

VARIABLE part  \* "gpu" or "frontio"

MCInit ==
  /\ GPU_Init /\ Init /\ part \in {"gpu", "frontio"}
  /\ part = "gpu" \/ sender.does = "draws"

MCNext ==
  /\ UNCHANGED part
  /\ \/ part = "gpu"     /\ GPU_Next /\ UNCHANGED vars
     \/ part = "frontio" /\ Next     /\ UNCHANGED gpuVars

MCFairness ==
  LET InGPU(A) == part = "gpu" /\ A
  IN WF_gpuVars(InGPU(GPU_Update)) /\ WF_gpuVars(InGPU(SendNext)) /\ WF_gpuVars(InGPU(GPU_ReadData))

MCSpec == MCInit /\ [][MCNext]_<<gpuVars, vars, part>> /\ MCFairness

\* What rests is always the same.
MCView == IF part = "gpu" THEN gpuVars ELSE LiveView
==============================================================================

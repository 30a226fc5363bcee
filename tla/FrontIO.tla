------------------------------- MODULE FrontIO -------------------------------
(***************************************************************************)
(* The serial controller of the front panel (mednafen/psx/frontio.cpp) and *)
(* what it schedules: bits that are clocked to and from the four devices,  *)
(* the acknowledge a device gives some time after a byte, the interrupt    *)
(* that follows, the pulses of light guns, and the event that brings all   *)
(* of it up to date.                                                       *)
(*                                                                         *)
(* Line i of a device belongs to port i % 2: 0 and 1 are the pads, 2 and 3 *)
(* the memory cards. A device here is what all of input/ have in common: a *)
(* position in the byte, the bits it heard, the byte it says; after a byte *)
(* it answers with any of Replies. SerialPort has the devices themselves   *)
(* and exchanges whole bytes, which ExchangesAreWhole justifies. Time runs *)
(* in units of the shortest bit (0x20 clocks) and starts at 0 in each      *)
(* frame. istatus stands for the line IRQ_SIO too: each assignment of it   *)
(* is followed by IRQ_Assert, or by the controller's own power or state.   *)
(***************************************************************************)
EXTENDS Integers

CONSTANTS
  Bits,       \* in a byte: 8
  Lines,      \* the devices connected, among 0..3
  Bytes,      \* those the game writes
  Replies,    \* what a device may say and when it acknowledges, 0 for never
  Rates,      \* the lengths of a bit that Baudrate and Mode can set
  Controls,   \* the words the game writes to Control
  LineTime,   \* between two calls of GPULineHook
  FrameTime,  \* at which a frame ends
  Guns,       \* the ports with a light gun
  Shots,      \* the delays after which it sees the beam
  MaxTS,      \* PSX_EVENT_MAXTS, later than anything
  Far,        \* 0x10000000, for no event of its own
  Saves(_)    \* which states of the controller are saved

Pulse == 1    \* the length of an acknowledge: 32 clocks
Ones == [b \in 0..(Bits - 1) |-> 1]
Byte == [0..(Bits - 1) -> {0, 1}]
ControlBits == {"tx", "dtr", "rx", "txirq", "rxirq", "dsrirq", "second"}

ASSUME FrontIOAssumption ==
  /\ Bits \in Nat \ {0} /\ Lines \subseteq 0..3
  /\ Bytes \subseteq Byte /\ Replies \subseteq [says : Byte, ack : Nat]
  /\ Rates \subseteq Nat \ {0} /\ 1 \in Rates /\ Controls \subseteq SUBSET ControlBits
  /\ LineTime \in Nat \ {0} /\ FrameTime \in Nat \ {0} /\ FrameTime % LineTime = 0
  /\ Far \in Nat /\ \A r \in Rates \cup Shots \cup {a.ack : a \in Replies} : r < Far
  /\ Guns \subseteq 0..1 /\ Shots \subseteq 0..(LineTime - 1) /\ MaxTS \in Nat /\ MaxTS > FrameTime + Far

VARIABLES
  pc,        \* "run" inside of retro_run, "frontend" between two
  now,       \* the time of whoever runs: the CPU or the event handler
  hooked,    \* the GPU has reported the line that ends now
  io,        \* the registers, and the devices as the controller reaches them
  due,       \* the time of the event PSX_EVENT_FIO
  saved,     \* the state kept by the frontend
  disturbed, \* the game touched the controller during a transfer
  acks,      \* when the acknowledge of a device is to come, MaxTS for never
  shots      \* when the light gun of a port is to pulse IRQ_PIO

vars == <<pc, now, hooked, io, due, saved, disturbed, acks, shots>>

Less(a, b) == IF a < b THEN a ELSE b
Earliest(a, bs) == CHOOSE t \in bs \cup {a} : \A u \in bs \cup {a} : t <= u

Port(i) == i % 2
Selected(control, i) == "dtr" \in control /\ (Port(i) = 1 <=> "second" \in control)
Busy(f) == f.TransmitInProgress \/ f.ReceiveInProgress
Idle(f) == ~Busy(f) /\ ~f.TransmitPending

---------------------------------------------------------------------------
(* What the devices have in common. *)

Device == [dtr : BOOLEAN, pos : 0..(Bits - 1), heard : Byte, says : Byte]
NewDevice == [dtr |-> FALSE, pos |-> 0, heard |-> Ones, says |-> Ones]

Device_SetDTR(d, dtr) ==
  [d EXCEPT !.dtr = dtr, !.pos = IF dtr /\ ~d.dtr THEN 0 ELSE @, !.says = IF dtr /\ ~d.dtr THEN Ones ELSE @]

LastBit(d) == d.dtr /\ d.pos = Bits - 1

Device_Clock(d, txd, reply) ==
  IF ~d.dtr THEN d
  ELSE [d EXCEPT !.pos = (@ + 1) % Bits, !.heard[d.pos] = txd,
                 !.says = IF LastBit(d) THEN reply.says ELSE @]

Device_Sends(d) == IF d.dtr THEN d.says[d.pos] ELSE 1
Device_Acks(d, reply) == IF LastBit(d) THEN reply.ack ELSE 0

---------------------------------------------------------------------------
(* The parts of the handlers. *)

\* Mutant: the event forgets the acknowledges.
CalcNextEventTS_Own(f, t) ==
  Earliest(Less(f.irq10_pulse_ts[0], f.irq10_pulse_ts[1]),
           {t + Far} \cup {t + f.ClockDivider : x \in {y \in {0} : f.ClockDivider > 0}})

CalcNextEventTS(f, t) ==
  Earliest(Less(f.irq10_pulse_ts[0], f.irq10_pulse_ts[1]),
           {t + Far} \cup {t + f.ClockDivider : x \in {y \in {0} : f.ClockDivider > 0}}
                     \cup {t + f.dsr_pulse_delay[i] : i \in {j \in Lines : f.dsr_pulse_delay[j] > 0}})

\* Mutant: a transfer resumes at the bit where the last one was broken off.
CheckStartStopPending_Resumes(f) ==
  LET trigger == (f.ReceivePending /\ "rx" \in f.Control) \/ (f.TransmitPending /\ "tx" \in f.Control)
      receive == trigger /\ f.ReceivePending
      transmit == trigger /\ f.TransmitPending
      enabled == f.Control \cap {"tx", "rx"} # {}
      on == [rx |-> enabled /\ (receive \/ f.ReceiveInProgress), tx |-> enabled /\ (transmit \/ f.TransmitInProgress)]
  IN [f EXCEPT !.ReceivePending = @ /\ ~receive, !.TransmitPending = @ /\ ~transmit,
               !.ReceiveBufferAvail = @ /\ ~receive, !.ReceiveBuffer = IF receive THEN [b \in 0..(Bits - 1) |-> 0] ELSE @,
               !.ReceiveInProgress = on.rx, !.TransmitInProgress = on.tx,
               !.ClockDivider = IF ~on.rx /\ ~on.tx THEN 0 ELSE IF trigger THEN f.rate ELSE @]

CheckStartStopPending(f) ==
  LET trigger == (f.ReceivePending /\ "rx" \in f.Control) \/ (f.TransmitPending /\ "tx" \in f.Control)
      receive == trigger /\ f.ReceivePending
      transmit == trigger /\ f.TransmitPending
      enabled == f.Control \cap {"tx", "rx"} # {}
      on == [rx |-> enabled /\ (receive \/ f.ReceiveInProgress), tx |-> enabled /\ (transmit \/ f.TransmitInProgress)]
  IN [f EXCEPT !.ReceivePending = @ /\ ~receive, !.TransmitPending = @ /\ ~transmit,
               !.ReceiveBufferAvail = @ /\ ~receive, !.ReceiveBuffer = IF receive THEN [b \in 0..(Bits - 1) |-> 0] ELSE @,
               !.ReceiveBitCounter = IF receive THEN 0 ELSE @, !.TransmitBitCounter = IF transmit THEN 0 ELSE @,
               !.ReceiveInProgress = on.rx, !.TransmitInProgress = on.tx,
               !.ClockDivider = IF ~on.rx /\ ~on.tx THEN 0 ELSE IF trigger THEN f.rate ELSE @]

\* Delays that have passed become pulses, and interrupts where they are enabled.
Acknowledged(f, t) ==
  LET clocks == t - f.lastts
      over == {i \in Lines : f.dsr_pulse_delay[i] > 0 /\ f.dsr_pulse_delay[i] <= clocks}
  IN [f EXCEPT !.dsr_pulse_delay = [i \in Lines |-> IF @[i] > 0 THEN @[i] - clocks ELSE @[i]],
               !.dsr_active_until_ts = [i \in Lines |-> IF i \in over THEN t + Pulse + f.dsr_pulse_delay[i] - clocks
                                                        ELSE @[i]],
               !.istatus = @ \/ (over # {} /\ "dsrirq" \in f.Control)]

ShotsPulsed(f, t) == [f EXCEPT !.irq10_pulse_ts = [i \in 0..1 |-> IF t >= @[i] THEN MaxTS ELSE @[i]]]

\* One bit, to every device and from every device. An update comes no later than the
\* event, which is when the next bit is due: the loop of the code runs at most once.
BitClocked(f, reply) ==
  LET txd == IF f.TransmitInProgress THEN f.TransmitBuffer[f.TransmitBitCounter] ELSE 0
      rxd == IF \A i \in Lines : Device_Sends(f.dev[i]) = 1 THEN 1 ELSE 0
      sent == f.TransmitInProgress /\ f.TransmitBitCounter = Bits - 1
      received == f.ReceiveInProgress /\ f.ReceiveBitCounter = Bits - 1
  IN [f EXCEPT !.TransmitBitCounter = IF f.TransmitInProgress THEN (@ + 1) % Bits ELSE @,
               !.TransmitInProgress = @ /\ ~sent,
               !.dev = [i \in Lines |-> Device_Clock(@[i], txd, reply[i])],
               !.dsr_pulse_delay = [i \in Lines |-> Device_Acks(f.dev[i], reply[i])],
               !.ReceiveBuffer = IF f.ReceiveInProgress THEN [@ EXCEPT ![f.ReceiveBitCounter] = rxd] ELSE @,
               !.ReceiveBitCounter = IF f.ReceiveInProgress THEN (@ + 1) % Bits ELSE @,
               !.ReceiveInProgress = @ /\ ~received, !.ReceiveBufferAvail = @ \/ received,
               !.istatus = @ \/ (sent /\ "txirq" \in f.Control) \/ (received /\ "rxirq" \in f.Control),
               !.ClockDivider = @ + f.rate]

BitIsDue(f, t) == f.ClockDivider > 0 /\ f.ClockDivider <= t - f.lastts /\ Busy(f)

\* Mutant: bits are clocked before the delays are counted down, also the ones they begin.
Update_BitFirst(f, t, reply) ==
  LET passed == [f EXCEPT !.ClockDivider = IF @ > 0 THEN @ - (t - f.lastts) ELSE @]
      bit == IF BitIsDue(f, t) THEN BitClocked(passed, reply) ELSE passed
      ended == (f.TransmitInProgress /\ ~bit.TransmitInProgress) \/ (f.ReceiveInProgress /\ ~bit.ReceiveInProgress)
      updated == [ShotsPulsed(Acknowledged(bit, t), t) EXCEPT !.lastts = t]
  IN IF ended THEN CheckStartStopPending(updated) ELSE updated

Update(f, t, reply) ==
  LET waited == ShotsPulsed(Acknowledged(f, t), t)
      passed == [waited EXCEPT !.ClockDivider = IF @ > 0 THEN @ - (t - f.lastts) ELSE @]
      bit == IF BitIsDue(f, t) THEN BitClocked(passed, reply) ELSE passed
      ended == (f.TransmitInProgress /\ ~bit.TransmitInProgress) \/ (f.ReceiveInProgress /\ ~bit.ReceiveInProgress)
      updated == [bit EXCEPT !.lastts = t]
  IN IF ended THEN CheckStartStopPending(updated) ELSE updated

\* The acknowledges that devices give in an update, and the ones that are over with it.
AcksAfter(f, g, t) ==
  [i \in Lines |-> IF BitIsDue(f, t) THEN (IF g.dsr_pulse_delay[i] > 0 THEN t + g.dsr_pulse_delay[i] ELSE MaxTS)
                   ELSE IF acks[i] <= t THEN MaxTS ELSE acks[i]]

---------------------------------------------------------------------------
PowerOn == [ClockDivider |-> 0, rate |-> 1, lastts |-> 0,
            ReceivePending |-> FALSE, TransmitPending |-> FALSE, ReceiveInProgress |-> FALSE,
            TransmitInProgress |-> FALSE, ReceiveBufferAvail |-> FALSE,
            ReceiveBuffer |-> [b \in 0..(Bits - 1) |-> 0], TransmitBuffer |-> [b \in 0..(Bits - 1) |-> 0],
            ReceiveBitCounter |-> 0, TransmitBitCounter |-> 0, Control |-> {}, istatus |-> FALSE,
            dsr_pulse_delay |-> [i \in Lines |-> 0], dsr_active_until_ts |-> [i \in Lines |-> -1],
            irq10_pulse_ts |-> [i \in 0..1 |-> MaxTS], dev |-> [i \in Lines |-> NewDevice]]

NoAcks == [i \in Lines |-> MaxTS]
NoShots == [i \in 0..1 |-> MaxTS]

Init ==
  /\ pc = "frontend" /\ now = 0 /\ hooked = TRUE
  /\ io = PowerOn /\ due = Far /\ saved = {}
  /\ disturbed = FALSE /\ acks = NoAcks /\ shots = NoShots

\* The CPU runs between events only (NothingDueWhileRunning of EventLoop).
CPURuns == pc = "run" /\ now < due

\* So no bit is due in a register access, and no device answers.
Silence == [i \in Lines |-> [says |-> Ones, ack |-> 0]]

\* The end of every register access that changes something.
Checked(f) ==
  LET g == CheckStartStopPending(f) IN
  /\ io' = g /\ due' = CalcNextEventTS(g, now)

\* The game writes a byte to send (register 0).
WriteData(v) ==
  /\ CPURuns
  /\ Checked([Update(io, now, Silence) EXCEPT !.TransmitBuffer = v, !.TransmitPending = TRUE, !.TransmitInProgress = FALSE])
  /\ disturbed' = (disturbed \/ ~Idle(io))
  /\ UNCHANGED <<pc, now, hooked, saved, acks, shots>>

\* The game reads what was received (register 0).
ReadData ==
  /\ CPURuns
  /\ Checked([Update(io, now, Silence) EXCEPT !.ReceiveBufferAvail = FALSE, !.ReceivePending = TRUE, !.ReceiveInProgress = FALSE])
  /\ disturbed' = (disturbed \/ ~Idle(io))
  /\ UNCHANGED <<pc, now, hooked, saved, acks, shots>>

\* The game reads another register, say the status: the event stays where it is.
ReadOther ==
  /\ CPURuns /\ io' = Update(io, now, Silence)
  /\ UNCHANGED <<pc, now, hooked, due, saved, disturbed, acks, shots>>

\* The game sets the length of a bit (registers 8 and 0xe).
WriteRate(r) ==
  /\ CPURuns
  /\ Checked([Update(io, now, Silence) EXCEPT !.rate = r])
  /\ UNCHANGED <<pc, now, hooked, saved, disturbed, acks, shots>>

\* What Control does to the devices: the selected ones hear of it, the others are silenced.
Select(f, control) ==
  [f EXCEPT !.Control = control,
            !.dev = [i \in Lines |-> Device_SetDTR(@[i], Selected(control, i))],
            !.dsr_pulse_delay = [i \in Lines |-> IF Selected(control, i) THEN @[i] ELSE 0],
            !.dsr_active_until_ts = [i \in Lines |-> IF Selected(control, i) THEN @[i] ELSE -1]]

\* The controller after bit 0x40 of Control: the devices stay for Select to inform.
Cleared(f) ==
  [PowerOn EXCEPT !.lastts = f.lastts, !.dev = f.dev, !.dsr_pulse_delay = f.dsr_pulse_delay,
                  !.dsr_active_until_ts = f.dsr_active_until_ts, !.irq10_pulse_ts = f.irq10_pulse_ts]

\* The game writes Control (register 0xa): acknowledge is bit 0x10, reset bit 0x40.
WriteControl(control, acknowledge, reset) ==
  /\ CPURuns
  /\ LET f == Update(io, now, Silence)
         g == IF reset THEN Cleared(f) ELSE [f EXCEPT !.istatus = @ /\ ~acknowledge]
         chosen == IF reset THEN {} ELSE control
     IN /\ Checked(Select(g, chosen))
        /\ disturbed' = (~reset /\ (disturbed \/ Busy(f)) /\ ~(Idle(f) /\ \A i \in Lines : ~Selected(chosen, i)))
        /\ acks' = [i \in Lines |-> IF Selected(chosen, i) THEN acks[i] ELSE MaxTS]
  /\ UNCHANGED <<pc, now, hooked, saved, shots>>

\* PSX_EventHandler reaches the event.
Event(reply) ==
  /\ pc = "run" /\ now = due
  /\ io' = Update(io, now, reply) /\ due' = CalcNextEventTS(io', now)
  /\ acks' = AcksAfter(io, io', now)
  /\ shots' = [i \in 0..1 |-> IF io'.irq10_pulse_ts[i] = MaxTS THEN MaxTS ELSE shots[i]]
  /\ UNCHANGED <<pc, now, hooked, saved, disturbed>>

\* The GPU reports a line: light guns say when they see the beam, in this line or never.
GPULineHook(seen, reply) ==
  /\ pc = "run" /\ now % LineTime = 0 /\ ~hooked /\ now <= due
  /\ LET f == Update(io, now, reply) IN
     /\ io' = [f EXCEPT !.irq10_pulse_ts = [i \in 0..1 |-> IF seen[i] <= now THEN MaxTS ELSE seen[i]]]
     /\ shots' = [i \in 0..1 |-> IF f.irq10_pulse_ts[i] # MaxTS THEN shots[i]
                                 ELSE IF seen[i] <= now THEN MaxTS ELSE seen[i]]
     /\ acks' = AcksAfter(io, f, now)
  /\ due' = CalcNextEventTS(io', now) /\ hooked' = TRUE
  /\ UNCHANGED <<pc, now, saved, disturbed>>

Tick ==
  /\ pc = "run" /\ now < due /\ now < FrameTime /\ hooked
  /\ now' = now + 1 /\ hooked' = (now' % LineTime # 0)
  /\ UNCHANGED <<pc, io, due, saved, disturbed, acks, shots>>

\* Mutant: the pulses of light guns stay in the time of the frame that ended.
Rebased_Acks(f, t) ==
  [f EXCEPT !.dsr_active_until_ts = [i \in Lines |-> IF @[i] >= 0 THEN @[i] - t ELSE @[i]], !.lastts = 0]

Rebased(f, t) ==
  [f EXCEPT !.irq10_pulse_ts = [i \in 0..1 |-> IF @[i] # MaxTS THEN @[i] - t ELSE @[i]],
            !.dsr_active_until_ts = [i \in Lines |-> IF @[i] >= 0 THEN @[i] - t ELSE @[i]],
            !.lastts = 0]

\* The frame ends: ForceEventUpdates, then ResetTS, then the events are rebased.
EndFrame(reply) ==
  /\ pc = "run" /\ now = FrameTime /\ hooked /\ now <= due
  /\ LET f == Update(io, now, reply) IN
     /\ io' = Rebased(f, f.lastts) /\ due' = CalcNextEventTS(f, now) - now
     /\ acks' = [i \in Lines |-> LET a == AcksAfter(io, f, now)[i] IN IF a = MaxTS THEN a ELSE a - now]
     /\ shots' = [i \in 0..1 |-> IF f.irq10_pulse_ts[i] = MaxTS THEN MaxTS ELSE shots[i] - now]
  /\ pc' = "frontend" /\ now' = 0
  /\ UNCHANGED <<hooked, saved, disturbed>>

BeginFrame == /\ pc = "frontend" /\ pc' = "run"
              /\ UNCHANGED <<now, hooked, io, due, saved, disturbed, acks, shots>>

\* The frontend plugs another device into a port.
SetInput(port) ==
  /\ pc = "frontend" /\ port \in Lines
  /\ io' = [io EXCEPT !.irq10_pulse_ts[port] = MaxTS, !.dev[port] = NewDevice]
  /\ shots' = [shots EXCEPT ![port] = MaxTS] /\ disturbed' = TRUE
  /\ UNCHANGED <<pc, now, hooked, due, saved, acks>>

\* retro_reset: FrontIO::Power, then the interrupt controller, then ForceEventUpdates(0). Pads are
\* powered, a multitap is not (it is in DevicesTap): the devices of this module are pads.
Power ==
  /\ pc = "frontend"
  /\ io' = PowerOn /\ due' = CalcNextEventTS(PowerOn, 0)
  /\ disturbed' = FALSE /\ acks' = NoAcks /\ shots' = NoShots
  /\ UNCHANGED <<pc, now, hooked, saved>>

SaveState ==
  /\ pc = "frontend" /\ saved = {} /\ Saves(io)
  /\ saved' = {[io |-> io, disturbed |-> disturbed, acks |-> acks, shots |-> shots]}
  /\ UNCHANGED <<pc, now, hooked, io, due, disturbed, acks, shots>>

\* The interrupt controller is loaded after FrontIO, and ForceEventUpdates(0) ends it. lastts
\* is in no state: it is 0 between two frames.
LoadState ==
  /\ pc = "frontend"
  /\ \E s \in saved :
       /\ io' = [s.io EXCEPT !.lastts = io.lastts] /\ due' = CalcNextEventTS(io', 0)
       /\ disturbed' = s.disturbed /\ acks' = s.acks /\ shots' = s.shots
  /\ UNCHANGED <<pc, now, hooked, saved>>

---------------------------------------------------------------------------
Answers == [Lines -> Replies]
Sightings == {seen \in [0..1 -> {now + s : s \in Shots} \cup {MaxTS}] : \A i \in 0..1 : i \notin Guns => seen[i] = MaxTS}

Game == \/ \E v \in Bytes : WriteData(v)
        \/ ReadData \/ ReadOther
        \/ \E r \in Rates : WriteRate(r)
        \/ \E c \in Controls, ack, reset \in BOOLEAN : WriteControl(c, ack, reset)
Updates == \E r \in Answers : Event(r)
Hook == \E r \in Answers : \E seen \in Sightings : GPULineHook(seen, r)
Frame == BeginFrame \/ \E r \in Answers : EndFrame(r)
Frontend == (\E port \in 0..1 : SetInput(port)) \/ Power \/ SaveState \/ LoadState

Next == Game \/ Updates \/ Hook \/ Tick \/ Frame \/ Frontend

Spec == Init /\ [][Next]_vars

---------------------------------------------------------------------------
(* Properties. *)

Registers ==
  [ClockDivider : Nat, rate : Rates, lastts : Nat, ReceivePending : BOOLEAN, TransmitPending : BOOLEAN,
   ReceiveInProgress : BOOLEAN, TransmitInProgress : BOOLEAN, ReceiveBufferAvail : BOOLEAN,
   ReceiveBuffer : Byte, TransmitBuffer : Byte, ReceiveBitCounter : 0..(Bits - 1),
   TransmitBitCounter : 0..(Bits - 1), Control : SUBSET ControlBits, istatus : BOOLEAN,
   dsr_pulse_delay : [Lines -> Nat], dsr_active_until_ts : [Lines -> Int],
   irq10_pulse_ts : [0..1 -> Nat], dev : [Lines -> Device]]

States == [io : Registers, disturbed : BOOLEAN, acks : [Lines -> Nat], shots : [0..1 -> Nat]]

\* The types of the variables.
TypeOK ==
  /\ pc \in {"run", "frontend"} /\ now \in 0..FrameTime /\ hooked \in BOOLEAN
  /\ io \in Registers /\ due \in Nat /\ saved \subseteq States
  /\ disturbed \in BOOLEAN /\ acks \in [Lines -> Nat] /\ shots \in [0..1 -> Nat]

\* Neither a bit nor an acknowledge nor a light gun's pulse is ever late: whatever a register
\* access, a line of the GPU, a loaded state or the end of a frame changed, the event of the
\* controller was moved to the first of them (frontio.cpp:392), in the new frame's time; and a transfer
\* in progress has a clock, which a second trigger, a stop or a loaded state could take away.
NothingIsLate ==
  /\ now <= due /\ io.lastts <= now
  /\ Busy(io) => io.ClockDivider > 0
  /\ io.ClockDivider > 0 => now <= io.lastts + io.ClockDivider
  /\ \A i \in Lines : io.dsr_pulse_delay[i] > 0 => now <= io.lastts + io.dsr_pulse_delay[i]
  /\ \A i \in 0..1 : now <= io.irq10_pulse_ts[i]

\* A transfer that the game leaves alone carries the whole byte it wrote to every selected
\* device and leaves them between two bytes, and brings back what they said, whatever broken
\* transfers there were before the devices were last deselected or the controller reset: the
\* bit counters of both directions and of the devices (frontio.cpp:434-447) are in step.
ExchangesAreWhole ==
  [][(/\ pc = "run" /\ io.TransmitInProgress /\ ~io'.TransmitInProgress
      /\ ~disturbed /\ ~disturbed' /\ io'.Control = io.Control)
     => /\ \A i \in Lines : Selected(io.Control, i) => /\ io'.dev[i].heard = io.TransmitBuffer
                                                       /\ io'.dev[i].pos = 0
        /\ io.ReceiveInProgress =>
             /\ io'.ReceiveBufferAvail
             /\ \A b \in 0..(Bits - 1) :
                  io'.ReceiveBuffer[b] = 1 <=> \A i \in Lines : io.dev[i].dtr => io.dev[i].says[b] = 1]_vars

\* An acknowledge comes when the device said, as a pulse and as an interrupt if it is enabled
\* (frontio.cpp:640-648); it is lost only to a game that deselects the device, or that begins
\* the next byte without waiting for it.
AcksAreHeard ==
  [][\A i \in Lines : pc = "run" /\ acks[i] # MaxTS /\ (acks'[i] = MaxTS \/ (BitIsDue(io, now) /\ io' # io)) =>
       IF acks[i] = now
       THEN (io'.dsr_active_until_ts[i] - now' = Pulse /\ ("dsrirq" \in io.Control => io'.istatus))
            \/ ~Selected(io'.Control, i)
       ELSE now < acks[i] /\ (BitIsDue(io, now) \/ ~Selected(io'.Control, i))]_vars

\* A light gun that sees the beam pulses IRQ_PIO at that time: the next line's report, the
\* end of the frame and states leave a pulse that is to come where it is.
ShotsArrive == \A i \in 0..1 : shots[i] # MaxTS => now <= shots[i] /\ io.irq10_pulse_ts[i] = shots[i]

=============================================================================

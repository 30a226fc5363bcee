---------------------------- MODULE FrontIO_proofs ----------------------------
(***************************************************************************)
(* Type correctness of FrontIO; that the event of the controller is never  *)
(* later than a bit, an acknowledge or a light gun's pulse; that exchanges *)
(* of bytes are whole and acknowledges are heard: for bytes of any length, *)
(* any devices, bit lengths, delays, frames and saved states.              *)
(***************************************************************************)
EXTENDS FrontIO, TLAPS

------------------------------------------------------------------------------
(* The earliest of a set of times.                                          *)

HasLeast(T) == T = {} \/ \E t \in T : \A u \in T : t <= u

\* One more time at most.
LEMMA OneMore ==
  ASSUME NEW T \in SUBSET Nat, HasLeast(T), NEW x \in Nat, NEW C \in SUBSET {x}
  PROVE  HasLeast(T \cup C)
<1>1. CASE C = {}
  BY <1>1
<1>2. CASE C = {x}
  <2>1. CASE T = {}
    BY <1>2, <2>1 DEF HasLeast
  <2>2. CASE T # {}
    <3>1. PICK t \in T : \A u \in T : t <= u
      BY <2>2 DEF HasLeast
    <3>2. CASE t <= x
      BY <1>2, <3>1, <3>2 DEF HasLeast
    <3>3. CASE ~(t <= x)
      <4>1. \A u \in T : x <= u
        BY <3>1, <3>3
      <4> QED BY <1>2, <4>1 DEF HasLeast
    <3> QED BY <3>2, <3>3
  <2> QED BY <2>1, <2>2
<1> QED BY <1>1, <1>2

LEMMA EarliestOf ==
  ASSUME NEW a \in Nat, NEW bs \in SUBSET Nat, HasLeast(bs)
  PROVE  /\ Earliest(a, bs) \in Nat
         /\ Earliest(a, bs) \in bs \cup {a}
         /\ \A u \in bs \cup {a} : Earliest(a, bs) <= u
<1>1. HasLeast(bs \cup {a})
  BY OneMore
<1>2. \E t \in bs \cup {a} : \A u \in bs \cup {a} : t <= u
  BY <1>1 DEF HasLeast
<1> QED BY <1>2 DEF Earliest

------------------------------------------------------------------------------
(* States of the controller that no update has missed anything of at t.     *)

LEMMA Constants ==
  /\ Bits \in Nat \ {0} /\ Lines \subseteq 0..3 /\ Bytes \subseteq Byte
  /\ Replies \subseteq [says : Byte, ack : Nat]
  /\ Rates \subseteq Nat \ {0} /\ 1 \in Rates /\ Controls \subseteq SUBSET ControlBits
  /\ LineTime \in Nat \ {0} /\ FrameTime \in Nat \ {0} /\ Far \in Nat
  /\ Shots \subseteq 0..(LineTime - 1) /\ MaxTS \in Nat /\ MaxTS > FrameTime + Far
  BY FrontIOAssumption

LEMMA RateTypes ==
  \A r \in Rates : r \in Nat /\ r > 0
<1>1. Rates \subseteq Nat \ {0}
  BY Constants
<1>2. \A n \in Nat \ {0} : n > 0
  OBVIOUS
<1> QED BY <1>1, <1>2

\* A transfer in progress has a clock.
Clocked(f) == Busy(f) => f.ClockDivider > 0

\* Nothing of f is due before t.
Before(f, t) ==
  /\ f.ClockDivider > 0 => t <= f.lastts + f.ClockDivider
  /\ \A i \in Lines : f.dsr_pulse_delay[i] > 0 => t <= f.lastts + f.dsr_pulse_delay[i]
  /\ \A i \in 0..1 : t <= f.irq10_pulse_ts[i]

Sound(f) == f \in Registers /\ Clocked(f)

\* The event is set to the first of what is to come, and not before the present.
LEMMA EventIsFirst ==
  ASSUME NEW f \in Registers, NEW t \in Nat, f.lastts = t, \A i \in 0..1 : t <= f.irq10_pulse_ts[i]
  PROVE  LET d == CalcNextEventTS(f, t) IN
         d \in Nat /\ t <= d /\ d <= t + Far /\ Before(f, d)
<1> DEFINE p == f.irq10_pulse_ts
           a == Less(p[0], p[1])
           D == {t + f.ClockDivider : x \in {y \in {0} : f.ClockDivider > 0}}
           L == {t + f.dsr_pulse_delay[i] : i \in {j \in Lines : f.dsr_pulse_delay[j] > 0}}
           C(k) == {u \in L : k \in Lines /\ u = t + f.dsr_pulse_delay[k]}
           bs == {t + Far} \cup D \cup L
<1>1. /\ f.ClockDivider \in Nat /\ \A i \in Lines : f.dsr_pulse_delay[i] \in Nat
      /\ p[0] \in Nat /\ p[1] \in Nat /\ Far \in Nat /\ Lines \subseteq 0..3
  BY Constants DEF Registers
<1>2. a \in Nat /\ a <= p[0] /\ a <= p[1] /\ t <= a
  BY <1>1 DEF Less
<1>3. L \in SUBSET Nat /\ \A u \in L : t <= u
  <2>1. \A n \in Nat : t + n \in Nat /\ t <= t + n
    OBVIOUS
  <2>2. \A i \in Lines : t + f.dsr_pulse_delay[i] \in Nat /\ t <= t + f.dsr_pulse_delay[i]
    BY <1>1, <2>1
  <2> QED BY <2>2
<1>4. HasLeast(L)
  <2>1. \A k \in Lines : t + f.dsr_pulse_delay[k] \in Nat
    BY <1>1
  <2>2. \A k \in 0..3 : \E x \in Nat : C(k) \subseteq {x}
    <3>1. SUFFICES ASSUME NEW k \in 0..3 PROVE \E x \in Nat : C(k) \subseteq {x}
      OBVIOUS
    <3>2. CASE k \in Lines
      BY <2>1, <3>2
    <3>3. CASE k \notin Lines
      <4>1. C(k) \subseteq {0}
        BY <3>3
      <4> QED BY <4>1
    <3> QED BY <3>2, <3>3
  <2>3. \A k \in 0..3 : \A T \in SUBSET Nat : HasLeast(T) => HasLeast(T \cup C(k))
    <3>1. SUFFICES ASSUME NEW k \in 0..3, NEW T \in SUBSET Nat, HasLeast(T) PROVE HasLeast(T \cup C(k))
      OBVIOUS
    <3>2. PICK x \in Nat : C(k) \subseteq {x}
      BY <2>2
    <3> HIDE DEF C
    <3> QED BY <3>1, <3>2, OneMore
  <2>4. L = C(0) \cup C(1) \cup C(2) \cup C(3)
    BY <1>1
  <2>5. \A k \in 0..3 : C(k) \in SUBSET Nat
    BY <1>3
  <2> HIDE DEF C, L
  <2>6. HasLeast({})
    BY DEF HasLeast
  <2>7. HasLeast({} \cup C(0))
    BY <2>3, <2>6
  <2>8. HasLeast({} \cup C(0) \cup C(1))
    BY <2>3, <2>5, <2>7
  <2>9. HasLeast({} \cup C(0) \cup C(1) \cup C(2))
    BY <2>3, <2>5, <2>8
  <2>10. HasLeast({} \cup C(0) \cup C(1) \cup C(2) \cup C(3))
    BY <2>3, <2>5, <2>9
  <2> QED BY <2>4, <2>10
<1>5. bs \in SUBSET Nat /\ HasLeast(bs)
  <2>1. D \subseteq {t + f.ClockDivider} /\ t + f.ClockDivider \in Nat /\ t + Far \in Nat
    BY <1>1
  <2> HIDE DEF D, L
  <2>2. HasLeast(L \cup D) /\ L \cup D \in SUBSET Nat
    BY <1>3, <1>4, <2>1, OneMore
  <2>3. HasLeast((L \cup D) \cup {t + Far})
    BY <2>1, <2>2, OneMore
  <2>4. bs = (L \cup D) \cup {t + Far}
    OBVIOUS
  <2> QED BY <2>1, <2>2, <2>3, <2>4
<1>6. \A u \in bs : t <= u
  BY <1>1, <1>3
<1> DEFINE d == Earliest(a, bs)
<1>7. d \in Nat /\ d \in bs \cup {a} /\ \A u \in bs \cup {a} : d <= u
  <2> HIDE DEF a, bs
  <2> QED BY <1>2, <1>5, EarliestOf
<1>8. CalcNextEventTS(f, t) = d
  BY DEF CalcNextEventTS
<1>9. t <= d
  <2> HIDE DEF a, bs, d
  <2> QED BY <1>2, <1>6, <1>7
<1>10. d <= t + Far
  <2> HIDE DEF d, D, L
  <2> QED BY <1>7
<1>11. d <= a
  <2> HIDE DEF d, a, bs
  <2> QED BY <1>7
<1>12. f.ClockDivider > 0 => d <= t + f.ClockDivider
  <2>1. f.ClockDivider > 0 => t + f.ClockDivider \in bs
    OBVIOUS
  <2> HIDE DEF d, bs
  <2> QED BY <1>7, <2>1
<1>13. \A i \in Lines : f.dsr_pulse_delay[i] > 0 => d <= t + f.dsr_pulse_delay[i]
  <2>1. \A i \in Lines : f.dsr_pulse_delay[i] > 0 => t + f.dsr_pulse_delay[i] \in bs
    OBVIOUS
  <2> HIDE DEF d, bs
  <2> QED BY <1>7, <2>1
<1>14. \A i \in 0..1 : d <= p[i]
  <2>1. \A i \in 0..1 : i = 0 \/ i = 1
    OBVIOUS
  <2> HIDE DEF d, a
  <2> QED BY <1>1, <1>2, <1>7, <1>11, <2>1
<1> HIDE DEF d
<1> QED BY <1>7, <1>8, <1>9, <1>10, <1>12, <1>13, <1>14 DEF Before

------------------------------------------------------------------------------
(* The parts of an update.                                                  *)

\* What does not concern the clock stays.
SameTimes(f, g) ==
  /\ g.lastts = f.lastts /\ g.irq10_pulse_ts = f.irq10_pulse_ts
  /\ g.dsr_pulse_delay = f.dsr_pulse_delay

LEMMA ByteTypes ==
  /\ Ones \in Byte /\ [b \in 0..(Bits - 1) |-> 0] \in Byte /\ 0 \in 0..(Bits - 1)
  /\ NewDevice \in Device /\ [i \in Lines |-> NewDevice] \in [Lines -> Device]
  BY Constants DEF Ones, Byte, NewDevice, Device

\* Starting and stopping transfers takes the clock only from a controller that has none.
LEMMA CheckKeeps ==
  ASSUME NEW f \in Registers, Clocked(f)
  PROVE  LET g == CheckStartStopPending(f) IN Sound(g) /\ SameTimes(f, g)
<1> DEFINE g == CheckStartStopPending(f)
           trigger == (f.ReceivePending /\ "rx" \in f.Control) \/ (f.TransmitPending /\ "tx" \in f.Control)
           receive == trigger /\ f.ReceivePending
           transmit == trigger /\ f.TransmitPending
           enabled == f.Control \cap {"tx", "rx"} # {}
           rx == enabled /\ (receive \/ f.ReceiveInProgress)
           tx == enabled /\ (transmit \/ f.TransmitInProgress)
           clock == IF ~rx /\ ~tx THEN 0 ELSE IF trigger THEN f.rate ELSE f.ClockDivider
           wantsR == f.ReceivePending /\ ~receive
           wantsT == f.TransmitPending /\ ~transmit
           avail == f.ReceiveBufferAvail /\ ~receive
           buffer == IF receive THEN [b \in 0..(Bits - 1) |-> 0] ELSE f.ReceiveBuffer
           counterR == IF receive THEN 0 ELSE f.ReceiveBitCounter
           counterT == IF transmit THEN 0 ELSE f.TransmitBitCounter
<1>1. g = [f EXCEPT !.ReceivePending = wantsR, !.TransmitPending = wantsT,
               !.ReceiveBufferAvail = avail, !.ReceiveBuffer = buffer,
               !.ReceiveBitCounter = counterR, !.TransmitBitCounter = counterT,
               !.ReceiveInProgress = rx, !.TransmitInProgress = tx,
               !.ClockDivider = clock]
  BY DEF CheckStartStopPending, Registers
<1>2. /\ rx \in BOOLEAN /\ tx \in BOOLEAN
      /\ wantsR \in BOOLEAN /\ wantsT \in BOOLEAN /\ avail \in BOOLEAN
  OBVIOUS
<1>3. f.ClockDivider \in Nat /\ f.rate \in Nat /\ f.rate > 0
  <2>1. f.ClockDivider \in Nat /\ f.rate \in Rates
    BY DEF Registers
  <2> QED BY <2>1, RateTypes
<1>4. clock \in Nat
  BY <1>3
<1>5. rx \/ tx => clock > 0
  <2>1. SUFFICES ASSUME rx \/ tx, ~trigger PROVE f.ClockDivider > 0
    BY <1>3
  <2>2. f.ReceiveInProgress \/ f.TransmitInProgress
    BY <2>1
  <2> QED BY <2>2 DEF Clocked, Busy
<1>6. buffer \in Byte /\ counterR \in 0..(Bits - 1) /\ counterT \in 0..(Bits - 1)
  BY ByteTypes DEF Registers
<1> HIDE DEF rx, tx, clock, wantsR, wantsT, avail, buffer, counterR, counterT
<1>7. g \in Registers
  <2> DEFINE h == [f EXCEPT !.ReceivePending = wantsR, !.TransmitPending = wantsT,
                            !.ReceiveBufferAvail = avail, !.ReceiveBuffer = buffer]
             k == [h EXCEPT !.ReceiveBitCounter = counterR, !.TransmitBitCounter = counterT]
  <2>1. h \in Registers
    BY <1>2, <1>6 DEF Registers
  <2>2. g = [k EXCEPT !.ReceiveInProgress = rx, !.TransmitInProgress = tx, !.ClockDivider = clock]
    BY <1>1
  <2> HIDE DEF h
  <2>3. k \in Registers
    BY <1>6, <2>1 DEF Registers
  <2> HIDE DEF k
  <2> QED BY <1>2, <1>4, <2>2, <2>3 DEF Registers
<1>8. SameTimes(f, g)
  BY <1>1 DEF Registers, SameTimes
<1>9. g.ReceiveInProgress = rx /\ g.TransmitInProgress = tx /\ g.ClockDivider = clock
  BY <1>1 DEF Registers
<1>10. Clocked(g)
  BY <1>5, <1>9 DEF Clocked, Busy
<1> QED BY <1>7, <1>8, <1>10 DEF Sound

\* Delays are counted down, and pulses are over or to come.
Waited(f, w, t) ==
  /\ w \in Registers /\ w.lastts = f.lastts /\ w.ClockDivider = f.ClockDivider
  /\ w.TransmitInProgress = f.TransmitInProgress /\ w.ReceiveInProgress = f.ReceiveInProgress
  /\ \A i \in Lines : w.dsr_pulse_delay[i] =
       IF f.dsr_pulse_delay[i] > 0 THEN f.dsr_pulse_delay[i] - (t - f.lastts) ELSE 0
  /\ \A i \in 0..1 : w.irq10_pulse_ts[i] = IF t >= f.irq10_pulse_ts[i] THEN MaxTS ELSE f.irq10_pulse_ts[i]

LEMMA DelaysPass ==
  ASSUME NEW f \in Registers, NEW t \in Nat, f.lastts <= t, Before(f, t)
  PROVE  Waited(f, ShotsPulsed(Acknowledged(f, t), t), t)
<1> DEFINE a == Acknowledged(f, t)
           w == ShotsPulsed(a, t)
           clocks == t - f.lastts
           over == {i \in Lines : f.dsr_pulse_delay[i] > 0 /\ f.dsr_pulse_delay[i] <= clocks}
           delays == [i \in Lines |-> IF f.dsr_pulse_delay[i] > 0 THEN f.dsr_pulse_delay[i] - clocks
                                      ELSE f.dsr_pulse_delay[i]]
           until == [i \in Lines |-> IF i \in over THEN t + Pulse + f.dsr_pulse_delay[i] - clocks
                                     ELSE f.dsr_active_until_ts[i]]
           status == f.istatus \/ (over # {} /\ "dsrirq" \in f.Control)
           pulses == [i \in 0..1 |-> IF t >= f.irq10_pulse_ts[i] THEN MaxTS ELSE f.irq10_pulse_ts[i]]
<1>1. a = [f EXCEPT !.dsr_pulse_delay = delays, !.dsr_active_until_ts = until, !.istatus = status]
  BY DEF Acknowledged, Registers
<1>2. /\ f.lastts \in Nat /\ f.dsr_pulse_delay \in [Lines -> Nat]
      /\ f.dsr_active_until_ts \in [Lines -> Int] /\ f.irq10_pulse_ts \in [0..1 -> Nat]
  BY DEF Registers
<1>3. delays \in [Lines -> Nat]
  <2>1. \A i \in Lines : f.dsr_pulse_delay[i] > 0 => f.dsr_pulse_delay[i] - clocks \in Nat
    BY <1>2 DEF Before
  <2> QED BY <1>2, <2>1
<1>4. until \in [Lines -> Int]
  BY <1>2 DEF Pulse
<1>5. pulses \in [0..1 -> Nat]
  BY <1>2, Constants
<1>6. \A i \in Lines : delays[i] = IF f.dsr_pulse_delay[i] > 0 THEN f.dsr_pulse_delay[i] - clocks ELSE 0
  <2>1. \A i \in Lines : f.dsr_pulse_delay[i] \in Nat
    BY <1>2
  <2>2. \A i \in Lines : ~(f.dsr_pulse_delay[i] > 0) => f.dsr_pulse_delay[i] = 0
    BY <2>1
  <2> QED BY <2>2
<1> HIDE DEF delays, until, status
<1>7. a.irq10_pulse_ts = f.irq10_pulse_ts
  BY <1>1 DEF Registers
<1>8. w = [a EXCEPT !.irq10_pulse_ts = pulses]
  BY <1>1, <1>7 DEF ShotsPulsed, Registers
<1>9. \A i \in 0..1 : pulses[i] = IF t >= f.irq10_pulse_ts[i] THEN MaxTS ELSE f.irq10_pulse_ts[i]
  OBVIOUS
<1> HIDE DEF pulses, w, a
<1>10. status \in BOOLEAN
  BY DEF status, Registers
<1>11. w = [f EXCEPT !.dsr_pulse_delay = delays, !.dsr_active_until_ts = until, !.istatus = status,
                     !.irq10_pulse_ts = pulses]
  BY <1>1, <1>8 DEF Registers
<1>12. w \in Registers
  BY <1>3, <1>4, <1>5, <1>10, <1>11 DEF Registers
<1>13. /\ w.lastts = f.lastts /\ w.ClockDivider = f.ClockDivider
       /\ w.TransmitInProgress = f.TransmitInProgress /\ w.ReceiveInProgress = f.ReceiveInProgress
       /\ w.dsr_pulse_delay = delays /\ w.irq10_pulse_ts = pulses
  BY <1>11 DEF Registers
<1>14. Waited(f, w, t)
  BY <1>6, <1>9, <1>12, <1>13 DEF Waited
<1> QED BY <1>14 DEF w, a

\* A device between two bits, and what it says next.
LEMMA DeviceTypes ==
  ASSUME NEW d \in Device, NEW r \in [says : Byte, ack : Nat], NEW bit \in {0, 1}
  PROVE  /\ Device_Clock(d, bit, r) \in Device
         /\ Device_Acks(d, r) \in Nat
         /\ \A b \in BOOLEAN : Device_SetDTR(d, b) \in Device
<1>1. /\ d.dtr \in BOOLEAN /\ d.pos \in 0..(Bits - 1) /\ d.heard \in Byte /\ d.says \in Byte
      /\ r.says \in Byte /\ r.ack \in Nat /\ Bits \in Nat \ {0}
  BY Constants DEF Device
<1>2. (d.pos + 1) % Bits \in 0..(Bits - 1)
  BY <1>1
<1>3. [d.heard EXCEPT ![d.pos] = bit] \in Byte
  BY <1>1 DEF Byte
<1> DEFINE says == IF LastBit(d) THEN r.says ELSE d.says
           heard == [d.heard EXCEPT ![d.pos] = bit]
           next == (d.pos + 1) % Bits
<1>4. says \in Byte
  BY <1>1
<1>5. Device_Clock(d, bit, r) = IF ~d.dtr THEN d ELSE [d EXCEPT !.pos = next, !.heard = heard, !.says = says]
  BY DEF Device_Clock, Device
<1>6. Device_Clock(d, bit, r) \in Device
  <2> HIDE DEF says, heard, next
  <2> QED BY <1>2, <1>3, <1>4, <1>5 DEF Device, heard, next
<1>7. Device_Acks(d, r) \in Nat
  BY <1>1 DEF Device_Acks
<1>8. \A b \in BOOLEAN : Device_SetDTR(d, b) \in Device
  <2>1. SUFFICES ASSUME NEW b \in BOOLEAN PROVE Device_SetDTR(d, b) \in Device
    OBVIOUS
  <2> DEFINE pos == IF b /\ ~d.dtr THEN 0 ELSE d.pos
             said == IF b /\ ~d.dtr THEN Ones ELSE d.says
  <2>2. pos \in 0..(Bits - 1) /\ said \in Byte
    BY <1>1, ByteTypes
  <2>3. Device_SetDTR(d, b) = [d EXCEPT !.dtr = b, !.pos = pos, !.says = said]
    BY DEF Device_SetDTR, Device
  <2> HIDE DEF pos, said
  <2> QED BY <2>2, <2>3 DEF Device
<1> QED BY <1>6, <1>7, <1>8

Answering == [Lines -> [says : Byte, ack : Nat]]

WithReceived(h, counter, going, avail, status, clock) ==
  [h EXCEPT !.ReceiveBitCounter = counter, !.ReceiveInProgress = going, !.ReceiveBufferAvail = avail,
            !.istatus = status, !.ClockDivider = clock]

LEMMA ReceivedTypes ==
  ASSUME NEW h \in Registers, NEW counter \in 0..(Bits - 1), NEW going \in BOOLEAN, NEW avail \in BOOLEAN,
         NEW status \in BOOLEAN, NEW clock \in Nat
  PROVE  LET g == WithReceived(h, counter, going, avail, status, clock)
         IN /\ g \in Registers /\ g.ClockDivider = clock /\ g.lastts = h.lastts
            /\ g.irq10_pulse_ts = h.irq10_pulse_ts
  BY DEF Registers, WithReceived

\* A bit sets the clock to the next one, also when it was the last.
LEMMA BitKeeps ==
  ASSUME NEW f \in Registers, NEW reply \in Answering
  PROVE  LET g == BitClocked(f, reply) IN
         /\ g \in Registers /\ g.ClockDivider > 0
         /\ g.lastts = f.lastts /\ g.irq10_pulse_ts = f.irq10_pulse_ts
<1> DEFINE txd == IF f.TransmitInProgress THEN f.TransmitBuffer[f.TransmitBitCounter] ELSE 0
           rxd == IF \A i \in Lines : Device_Sends(f.dev[i]) = 1 THEN 1 ELSE 0
           sent == f.TransmitInProgress /\ f.TransmitBitCounter = Bits - 1
           received == f.ReceiveInProgress /\ f.ReceiveBitCounter = Bits - 1
           counterT == IF f.TransmitInProgress THEN (f.TransmitBitCounter + 1) % Bits ELSE f.TransmitBitCounter
           counterR == IF f.ReceiveInProgress THEN (f.ReceiveBitCounter + 1) % Bits ELSE f.ReceiveBitCounter
           tx == f.TransmitInProgress /\ ~sent
           rx == f.ReceiveInProgress /\ ~received
           devs == [i \in Lines |-> Device_Clock(f.dev[i], txd, reply[i])]
           delays == [i \in Lines |-> Device_Acks(f.dev[i], reply[i])]
           buffer == IF f.ReceiveInProgress THEN [f.ReceiveBuffer EXCEPT ![f.ReceiveBitCounter] = rxd] ELSE f.ReceiveBuffer
           avail == f.ReceiveBufferAvail \/ received
           status == f.istatus \/ (sent /\ "txirq" \in f.Control) \/ (received /\ "rxirq" \in f.Control)
           clock == f.ClockDivider + f.rate
           g == BitClocked(f, reply)
<1>1. /\ f.TransmitBuffer \in Byte /\ f.ReceiveBuffer \in Byte /\ f.dev \in [Lines -> Device]
      /\ f.TransmitBitCounter \in 0..(Bits - 1) /\ f.ReceiveBitCounter \in 0..(Bits - 1)
      /\ f.ClockDivider \in Nat /\ f.rate \in Nat /\ f.rate > 0 /\ Bits \in Nat \ {0}
  BY Constants, RateTypes DEF Registers
<1>2. txd \in {0, 1} /\ rxd \in {0, 1}
  BY <1>1 DEF Byte
<1>3. counterT \in 0..(Bits - 1) /\ counterR \in 0..(Bits - 1)
  BY <1>1
<1>4. tx \in BOOLEAN /\ rx \in BOOLEAN /\ avail \in BOOLEAN /\ status \in BOOLEAN
  BY DEF Registers
<1>5. buffer \in Byte
  BY <1>1, <1>2 DEF Byte
<1>6. devs \in [Lines -> Device] /\ delays \in [Lines -> Nat]
  <2> HIDE DEF txd
  <2> QED BY <1>1, <1>2, DeviceTypes DEF Answering
<1>7. clock \in Nat /\ clock > 0
  BY <1>1
<1> DEFINE h == [f EXCEPT !.TransmitBitCounter = counterT, !.TransmitInProgress = tx, !.dev = devs,
                          !.dsr_pulse_delay = delays, !.ReceiveBuffer = buffer]
<1>8. g = WithReceived(h, counterR, rx, avail, status, clock)
  BY DEF BitClocked, Registers, WithReceived
<1> HIDE DEF txd, rxd, sent, received, tx, rx, devs, delays, buffer, avail, status, clock, counterT, counterR, g
<1>9. h \in Registers /\ h.lastts = f.lastts /\ h.irq10_pulse_ts = f.irq10_pulse_ts
  BY <1>3, <1>4, <1>5, <1>6 DEF Registers
<1> HIDE DEF h
<1>10. /\ g \in Registers /\ g.ClockDivider = clock /\ g.lastts = h.lastts
       /\ g.irq10_pulse_ts = h.irq10_pulse_ts
  <2>1. rx \in BOOLEAN /\ avail \in BOOLEAN /\ status \in BOOLEAN
    BY <1>4
  <2>2. counterR \in 0..(Bits - 1) /\ clock \in Nat
    BY <1>3, <1>7
  <2>3. h \in Registers
    BY <1>9
  <2>4. WithReceived(h, counterR, rx, avail, status, clock) \in Registers
    BY <2>1, <2>2, <2>3, ReceivedTypes
  <2> QED BY <1>8, <2>1, <2>2, <2>3, ReceivedTypes
<1> QED BY <1>7, <1>9, <1>10 DEF g

\* What an update to t leaves: every delay counted from t, and only pulses to come.
Updated(f, u, t) ==
  /\ Sound(u) /\ u.lastts = t
  /\ \A i \in 0..1 : u.irq10_pulse_ts[i] = IF t >= f.irq10_pulse_ts[i] THEN MaxTS ELSE f.irq10_pulse_ts[i]

LEMMA UpdateKeeps ==
  ASSUME NEW f, Sound(f), NEW t \in Nat, f.lastts <= t, Before(f, t), NEW reply \in Answering
  PROVE  Updated(f, Update(f, t, reply), t)
<1> DEFINE w == ShotsPulsed(Acknowledged(f, t), t)
           left == IF w.ClockDivider > 0 THEN w.ClockDivider - (t - f.lastts) ELSE w.ClockDivider
           p == [w EXCEPT !.ClockDivider = left]
           b == IF BitIsDue(f, t) THEN BitClocked(p, reply) ELSE p
           ended == (f.TransmitInProgress /\ ~b.TransmitInProgress) \/ (f.ReceiveInProgress /\ ~b.ReceiveInProgress)
           u == [b EXCEPT !.lastts = t]
<1>1. f \in Registers /\ Clocked(f) /\ f.ClockDivider \in Nat /\ f.lastts \in Nat
  BY DEF Sound, Registers
<1>2. Waited(f, w, t)
  BY <1>1, DelaysPass
<1>3. w \in Registers /\ w.ClockDivider = f.ClockDivider /\ left \in Nat
  BY <1>1, <1>2 DEF Waited, Before
<1>4. Update(f, t, reply) = IF ended THEN CheckStartStopPending(u) ELSE u
  BY <1>3 DEF Update, Registers
<1>5. left > 0 <=> (f.ClockDivider > 0 /\ ~(f.ClockDivider <= t - f.lastts))
  BY <1>1, <1>2 DEF Waited
<1> HIDE DEF w, left
<1>6. /\ p \in Registers /\ p.ClockDivider = left
      /\ p.irq10_pulse_ts = w.irq10_pulse_ts /\ p.lastts = w.lastts
      /\ p.TransmitInProgress = w.TransmitInProgress /\ p.ReceiveInProgress = w.ReceiveInProgress
  BY <1>3 DEF Registers
<1> HIDE DEF p
<1>7. b \in Registers /\ b.irq10_pulse_ts = w.irq10_pulse_ts
  BY <1>6, BitKeeps
<1>8. Clocked(b)
  <2>1. CASE BitIsDue(f, t)
    <3>1. b = BitClocked(p, reply)
      BY <2>1
    <3>2. b.ClockDivider > 0
      BY <1>6, <3>1, BitKeeps
    <3> QED BY <3>2 DEF Clocked
  <2>2. CASE ~BitIsDue(f, t)
    <3>1. b = p
      BY <2>2
    <3>2. Busy(p) => Busy(f)
      BY <1>2, <1>6 DEF Busy, Waited
    <3>3. Busy(f) => f.ClockDivider > 0 /\ ~(f.ClockDivider <= t - f.lastts)
      BY <1>1, <2>2 DEF BitIsDue, Clocked
    <3> QED BY <1>5, <1>6, <3>1, <3>2, <3>3 DEF Clocked
  <2> QED BY <2>1, <2>2
<1> HIDE DEF b, ended
<1>9. /\ u \in Registers /\ u.lastts = t /\ u.irq10_pulse_ts = b.irq10_pulse_ts
      /\ u.ClockDivider = b.ClockDivider
      /\ u.TransmitInProgress = b.TransmitInProgress /\ u.ReceiveInProgress = b.ReceiveInProgress
  BY <1>7 DEF Registers
<1>10. Clocked(u)
  BY <1>8, <1>9 DEF Clocked, Busy
<1> HIDE DEF u
<1>11. /\ Sound(Update(f, t, reply)) /\ Update(f, t, reply).lastts = t
       /\ Update(f, t, reply).irq10_pulse_ts = w.irq10_pulse_ts
  <2>1. CASE ended
    <3>1. Update(f, t, reply) = CheckStartStopPending(u)
      BY <1>4, <2>1
    <3> QED BY <1>7, <1>9, <1>10, <3>1, CheckKeeps DEF SameTimes
  <2>2. CASE ~ended
    BY <1>4, <1>7, <1>9, <1>10, <2>2 DEF Sound
  <2> QED BY <2>1, <2>2
<1> QED BY <1>2, <1>11 DEF Updated, Waited

\* Before the event an update only counts down: no bit is due and no delay is over.
LEMMA EarlyUpdate ==
  ASSUME NEW f, Sound(f), NEW t \in Nat, NEW d \in Nat, t < d, f.lastts <= t, Before(f, d)
  PROVE  /\ Updated(f, Update(f, t, Silence), t)
         /\ Before(Update(f, t, Silence), d)
         /\ Update(f, t, Silence).irq10_pulse_ts = f.irq10_pulse_ts
<1> DEFINE w == ShotsPulsed(Acknowledged(f, t), t)
           left == IF w.ClockDivider > 0 THEN w.ClockDivider - (t - f.lastts) ELSE w.ClockDivider
           p == [w EXCEPT !.ClockDivider = left]
           u == [p EXCEPT !.lastts = t]
<1>1. f \in Registers /\ f.ClockDivider \in Nat /\ f.lastts \in Nat /\ f.irq10_pulse_ts \in [0..1 -> Nat]
      /\ f.dsr_pulse_delay \in [Lines -> Nat] /\ f.TransmitInProgress \in BOOLEAN /\ f.ReceiveInProgress \in BOOLEAN
  BY DEF Sound, Registers
<1>2. Before(f, t)
  <2>1. \A i \in Lines : f.dsr_pulse_delay[i] \in Nat
    BY <1>1
  <2>2. \A i \in 0..1 : f.irq10_pulse_ts[i] \in Nat
    BY <1>1
  <2> QED BY <1>1, <2>1, <2>2 DEF Before
<1>3. Silence \in Answering
  BY ByteTypes DEF Silence, Answering
<1>4. Updated(f, Update(f, t, Silence), t)
  BY <1>2, <1>3, UpdateKeeps
<1>5. ~BitIsDue(f, t)
  BY <1>1 DEF BitIsDue, Before
<1>6. Waited(f, w, t)
  BY <1>1, <1>2, DelaysPass
<1>7. w \in Registers /\ w.ClockDivider = f.ClockDivider
      /\ w.TransmitInProgress = f.TransmitInProgress /\ w.ReceiveInProgress = f.ReceiveInProgress
      /\ w.irq10_pulse_ts \in [0..1 -> Nat] /\ w.dsr_pulse_delay \in [Lines -> Nat]
  BY <1>6 DEF Waited, Registers
<1>8. Update(f, t, Silence) = u
  <2>1. p.TransmitInProgress = f.TransmitInProgress /\ p.ReceiveInProgress = f.ReceiveInProgress
    BY <1>7 DEF Registers
  <2>2. Update(f, t, Silence) =
          IF (f.TransmitInProgress /\ ~p.TransmitInProgress) \/ (f.ReceiveInProgress /\ ~p.ReceiveInProgress)
          THEN CheckStartStopPending(u) ELSE u
    BY <1>5, <1>7 DEF Update, Registers
  <2> QED BY <2>1, <2>2
<1>9. left = IF f.ClockDivider > 0 THEN f.ClockDivider - (t - f.lastts) ELSE 0
  BY <1>1, <1>7
<1> HIDE DEF w, left
<1>10. /\ u.ClockDivider = left /\ u.lastts = t /\ u.irq10_pulse_ts = w.irq10_pulse_ts
       /\ u.dsr_pulse_delay = w.dsr_pulse_delay
  BY <1>7 DEF Registers
<1>11. u.irq10_pulse_ts = f.irq10_pulse_ts
  <2>1. \A i \in 0..1 : f.irq10_pulse_ts[i] \in Nat /\ d <= f.irq10_pulse_ts[i]
    BY <1>1 DEF Before
  <2>2. \A i \in 0..1 : ~(t >= f.irq10_pulse_ts[i])
    BY <2>1
  <2>3. \A i \in 0..1 : w.irq10_pulse_ts[i] = f.irq10_pulse_ts[i]
    BY <1>6, <2>2 DEF Waited
  <2> QED BY <1>1, <1>7, <1>10, <2>3
<1> HIDE DEF u
<1>12. Before(u, d)
  <2>1. u.ClockDivider > 0 => d <= u.lastts + u.ClockDivider
    BY <1>1, <1>9, <1>10 DEF Before
  <2>2. ASSUME NEW i \in Lines, u.dsr_pulse_delay[i] > 0 PROVE d <= u.lastts + u.dsr_pulse_delay[i]
    <3>1. u.dsr_pulse_delay[i] = IF f.dsr_pulse_delay[i] > 0 THEN f.dsr_pulse_delay[i] - (t - f.lastts) ELSE 0
      BY <1>6, <1>10 DEF Waited
    <3>2. f.dsr_pulse_delay[i] > 0 => d <= f.lastts + f.dsr_pulse_delay[i]
      BY DEF Before
    <3>3. f.dsr_pulse_delay[i] \in Nat
      BY <1>1
    <3> QED BY <1>1, <1>10, <2>2, <3>1, <3>2, <3>3
  <2>3. \A i \in 0..1 : d <= u.irq10_pulse_ts[i]
    BY <1>11 DEF Before
  <2> QED BY <2>1, <2>2, <2>3 DEF Before
<1> QED BY <1>4, <1>8, <1>11, <1>12

------------------------------------------------------------------------------
(* The inductive invariant.                                                 *)

\* The end of the line in which the pulses to come are.
LineEnd(n, h) == IF h THEN (n - (n % LineTime)) + LineTime ELSE n

InLine(pulses, end) == \A i \in 0..1 : pulses[i] # MaxTS => pulses[i] < end

\* The event comes first, the clock runs, and a line's pulses are over before the next line.
Timely ==
  /\ Clocked(io) /\ io.lastts <= now /\ now <= due /\ due <= FrameTime + Far /\ Before(io, due)
  /\ shots = io.irq10_pulse_ts /\ InLine(shots, LineEnd(now, hooked))
  /\ pc = "frontend" => now = 0 /\ hooked

\* A state is one that the controller had between two frames.
SavedTimely ==
  \A s \in saved : /\ Clocked(s.io) /\ s.shots = s.io.irq10_pulse_ts
                   /\ InLine(s.shots, LineTime)

IInv == TypeOK /\ Timely /\ SavedTimely

LEMMA Division ==
  ASSUME NEW D \in Nat \ {0}, NEW x \in Nat
  PROVE  /\ x \div D \in Nat /\ x % D \in 0..(D - 1)
         /\ x = D * (x \div D) + (x % D)
  OBVIOUS

\* The line ends LineTime after its beginning.
LEMMA LineGoesOn ==
  ASSUME NEW n \in Nat
  PROVE  LineEnd(n + 1, (n + 1) % LineTime # 0) = LineEnd(n, TRUE)
<1> DEFINE L == LineTime
           q == n \div L
           r == n % L
           p == (n + 1) \div L
           s == (n + 1) % L
<1>1. L \in Nat \ {0}
  BY Constants
<1>2. q \in Nat /\ r \in 0..(L - 1) /\ n = L * q + r
  BY <1>1, Division
<1>3. p \in Nat /\ s \in 0..(L - 1) /\ n + 1 = L * p + s
  <2>1. n + 1 \in Nat
    OBVIOUS
  <2>2. \A x \in Nat : /\ x \div L \in Nat /\ x % L \in 0..(L - 1)
                       /\ x = L * (x \div L) + (x % L)
    BY <1>1, Division
  <2> QED BY <2>1, <2>2
<1>4. LineEnd(n + 1, (n + 1) % LineTime # 0) = IF s # 0 THEN ((n + 1) - s) + L ELSE n + 1
  BY DEF LineEnd
<1>5. LineEnd(n, TRUE) = (n - r) + L
  BY DEF LineEnd
<1> HIDE DEF L, q, r, p, s
<1>6. L * q + r + 1 = L * p + s
  <2>1. L * q \in Nat /\ L * p \in Nat
    BY <1>1, <1>2, <1>3
  <2> QED BY <1>1, <1>2, <1>3, <2>1
<1>7. p = q \/ p = q + 1
  <2>1. ~(p < q)
    <3>1. SUFFICES ASSUME p < q PROVE FALSE
      OBVIOUS
    <3>2. PICK k \in Nat : q = p + 1 + k
      <4>1. q - p - 1 \in Nat /\ q = p + 1 + (q - p - 1)
        BY <1>2, <1>3, <3>1
      <4> QED BY <4>1
    <3>3. L * q = L * p + L + L * k
      BY <1>1, <1>3, <3>2
    <3>4. L * k \in Nat /\ L * p \in Nat
      BY <1>1, <1>3, <3>2
    <3> QED BY <1>1, <1>2, <1>3, <1>6, <3>3, <3>4
  <2>2. ~(p > q + 1)
    <3>1. SUFFICES ASSUME p > q + 1 PROVE FALSE
      OBVIOUS
    <3>2. PICK k \in Nat : p = q + 2 + k
      <4>1. p - q - 2 \in Nat /\ p = q + 2 + (p - q - 2)
        BY <1>2, <1>3, <3>1
      <4> QED BY <4>1
    <3>3. L * p = L * q + L + L + L * k
      BY <1>1, <1>2, <3>2
    <3>4. L * k \in Nat /\ L * q \in Nat
      BY <1>1, <1>2, <3>2
    <3> QED BY <1>1, <1>2, <1>3, <1>6, <3>3, <3>4
  <2> QED BY <1>2, <1>3, <2>1, <2>2
<1>8. CASE p = q
  <2>1. s = r + 1
    <3>1. L * q \in Nat
      BY <1>1, <1>2
    <3> QED BY <1>2, <1>3, <1>6, <1>8, <3>1
  <2>2. s # 0 /\ (n + 1) - s = n - r
    BY <1>2, <1>3, <2>1
  <2> QED BY <1>4, <1>5, <2>2
<1>9. CASE p = q + 1
  <2>1. L * p = L * q + L
    BY <1>1, <1>2, <1>9
  <2>2. r + 1 = L + s
    <3>1. L * q \in Nat
      BY <1>1, <1>2
    <3> QED BY <1>1, <1>2, <1>3, <1>6, <2>1, <3>1
  <2>3. s = 0 /\ r + 1 = L
    BY <1>1, <1>2, <1>3, <2>2
  <2>4. n + 1 = (n - r) + L
    BY <1>1, <1>2, <2>3
  <2> QED BY <1>4, <1>5, <2>3, <2>4
<1> QED BY <1>7, <1>8, <1>9

LEMMA PowerOnSound ==
  /\ PowerOn \in Registers /\ Clocked(PowerOn) /\ PowerOn.lastts = 0
  /\ \A i \in 0..1 : PowerOn.irq10_pulse_ts[i] = MaxTS
  /\ PowerOn.irq10_pulse_ts = NoShots /\ NoShots \in [0..1 -> Nat] /\ NoAcks \in [Lines -> Nat]
  /\ \A d \in Nat : d <= MaxTS => Before(PowerOn, d)
<1>1. PowerOn \in Registers
  BY ByteTypes, Constants DEF PowerOn, Registers
<1>2. /\ PowerOn.ClockDivider = 0 /\ PowerOn.lastts = 0 /\ PowerOn.TransmitInProgress = FALSE
      /\ PowerOn.ReceiveInProgress = FALSE /\ PowerOn.irq10_pulse_ts = [i \in 0..1 |-> MaxTS]
      /\ PowerOn.dsr_pulse_delay = [i \in Lines |-> 0]
  BY DEF PowerOn
<1> QED BY <1>1, <1>2, Constants DEF Clocked, Busy, NoShots, NoAcks, Before

LEMMA InitHolds == Init => IInv
<1>1. SUFFICES ASSUME Init PROVE IInv
  OBVIOUS
<1>2. /\ pc = "frontend" /\ now = 0 /\ hooked = TRUE /\ io = PowerOn /\ due = Far /\ saved = {}
      /\ disturbed = FALSE /\ acks = NoAcks /\ shots = NoShots
  BY <1>1 DEF Init
<1>3. TypeOK
  <2>1. 0 \in 0..FrameTime /\ Far \in Nat
    BY Constants
  <2>2. saved \subseteq States
    BY <1>2
  <2> QED BY <1>2, <2>1, <2>2, PowerOnSound DEF TypeOK
<1>4. Timely
  BY <1>2, PowerOnSound, Constants DEF Timely, InLine, NoShots
<1> QED BY <1>2, <1>3, <1>4 DEF IInv, SavedTimely

------------------------------------------------------------------------------
(* The CPU's accesses.                                                      *)

\* What an access leaves: the pulses as they were, and an event that is in time.
Accessed ==
  /\ Sound(io') /\ io'.lastts = now /\ io'.irq10_pulse_ts = io.irq10_pulse_ts
  /\ due' \in Nat /\ now <= due' /\ due' <= FrameTime + Far /\ Before(io', due')
  /\ disturbed' \in BOOLEAN /\ acks' \in [Lines -> Nat]
  /\ UNCHANGED <<pc, now, hooked, saved, shots>>

LEMMA AccessKeeps == IInv /\ Accessed => IInv'
<1>1. SUFFICES ASSUME IInv, Accessed PROVE IInv'
  OBVIOUS
<1>2. UNCHANGED <<pc, now, hooked, saved, shots>>
  BY <1>1 DEF Accessed
<1>3. TypeOK'
  <2>1. io' \in Registers /\ due' \in Nat /\ disturbed' \in BOOLEAN /\ acks' \in [Lines -> Nat]
    BY <1>1 DEF Accessed, Sound
  <2>2. TypeOK
    BY <1>1 DEF IInv
  <2> QED BY <1>2, <2>1, <2>2 DEF TypeOK
<1>4. Timely'
  <2>1. /\ Clocked(io') /\ io'.lastts = now /\ io'.irq10_pulse_ts = io.irq10_pulse_ts
        /\ now <= due' /\ due' <= FrameTime + Far /\ Before(io', due')
    BY <1>1 DEF Accessed, Sound
  <2>2. Timely /\ now \in Nat
    BY <1>1, Constants DEF IInv, TypeOK
  <2> QED BY <1>2, <2>1, <2>2 DEF Timely, InLine, LineEnd
<1>5. SavedTimely'
  BY <1>1, <1>2 DEF IInv, SavedTimely
<1> QED BY <1>3, <1>4, <1>5 DEF IInv

\* The facts of a CPU that runs before the event.
LEMMA CPUFacts ==
  ASSUME IInv, CPURuns
  PROVE  /\ Sound(io) /\ now \in Nat /\ now <= FrameTime /\ due \in Nat /\ now < due /\ io.lastts <= now
         /\ due <= FrameTime + Far /\ Before(io, due)
         /\ Updated(io, Update(io, now, Silence), now)
         /\ Before(Update(io, now, Silence), due)
         /\ Update(io, now, Silence).irq10_pulse_ts = io.irq10_pulse_ts
         /\ \A i \in 0..1 : now <= io.irq10_pulse_ts[i]
<1>1. /\ Sound(io) /\ now \in Nat /\ now <= FrameTime /\ due \in Nat /\ now < due /\ io.lastts <= now
      /\ due <= FrameTime + Far /\ Before(io, due)
  BY Constants DEF IInv, TypeOK, Timely, CPURuns, Sound
<1>2. \A i \in 0..1 : io.irq10_pulse_ts[i] \in Nat /\ due <= io.irq10_pulse_ts[i]
  BY <1>1 DEF Sound, Registers, Before
<1>3. \A i \in 0..1 : now <= io.irq10_pulse_ts[i]
  BY <1>1, <1>2
<1> QED BY <1>1, <1>3, EarlyUpdate

LEMMA CheckedKeeps ==
  ASSUME IInv, CPURuns, NEW h \in Registers, Clocked(h), h.lastts = now,
         h.irq10_pulse_ts = io.irq10_pulse_ts, Checked(h)
  PROVE  /\ Sound(io') /\ io'.lastts = now /\ io'.irq10_pulse_ts = io.irq10_pulse_ts
         /\ due' \in Nat /\ now <= due' /\ due' <= FrameTime + Far /\ Before(io', due')
<1>1. io' = CheckStartStopPending(h) /\ due' = CalcNextEventTS(io', now)
  BY DEF Checked
<1>2. Sound(io') /\ io'.lastts = now /\ io'.irq10_pulse_ts = io.irq10_pulse_ts
  BY <1>1, CheckKeeps DEF SameTimes
<1>3. now \in Nat /\ now <= FrameTime /\ \A i \in 0..1 : now <= io'.irq10_pulse_ts[i]
  BY <1>2, CPUFacts
<1>4. due' \in Nat /\ now <= due' /\ due' <= now + Far /\ Before(io', due')
  BY <1>1, <1>2, <1>3, EventIsFirst DEF Sound
<1> QED BY <1>2, <1>3, <1>4, Constants

LEMMA GameTypes ==
  ASSUME IInv
  PROVE  /\ disturbed \in BOOLEAN /\ acks \in [Lines -> Nat]
         /\ Busy(io) \in BOOLEAN /\ Idle(io) \in BOOLEAN
  BY DEF IInv, TypeOK, Busy, Idle, Registers

LEMMA WriteDataKeeps ==
  ASSUME IInv, NEW v \in Bytes, WriteData(v) PROVE IInv'
<1> DEFINE f == Update(io, now, Silence)
           h == [f EXCEPT !.TransmitBuffer = v, !.TransmitPending = TRUE, !.TransmitInProgress = FALSE]
<1>1. CPURuns /\ Checked(h)
  BY DEF WriteData
<1>2. f \in Registers /\ Clocked(f) /\ f.lastts = now /\ f.irq10_pulse_ts = io.irq10_pulse_ts
  BY <1>1, CPUFacts DEF Updated, Sound
<1> HIDE DEF f
<1>3. h \in Registers /\ h.lastts = now /\ h.irq10_pulse_ts = io.irq10_pulse_ts
  <2>1. v \in Byte
    BY Constants
  <2> QED BY <1>2, <2>1 DEF Registers
<1>4. Clocked(h)
  BY <1>2 DEF Clocked, Busy, Registers
<1> HIDE DEF h
<1>5. disturbed' \in BOOLEAN /\ acks' \in [Lines -> Nat] /\ UNCHANGED <<pc, now, hooked, saved, shots>>
  BY GameTypes DEF WriteData
<1>6. Accessed
  BY <1>1, <1>3, <1>4, <1>5, CheckedKeeps DEF Accessed
<1> QED BY <1>6, AccessKeeps

LEMMA ReadDataKeeps ==
  ASSUME IInv, ReadData PROVE IInv'
<1> DEFINE f == Update(io, now, Silence)
           h == [f EXCEPT !.ReceiveBufferAvail = FALSE, !.ReceivePending = TRUE, !.ReceiveInProgress = FALSE]
<1>1. CPURuns /\ Checked(h)
  BY DEF ReadData
<1>2. f \in Registers /\ Clocked(f) /\ f.lastts = now /\ f.irq10_pulse_ts = io.irq10_pulse_ts
  BY <1>1, CPUFacts DEF Updated, Sound
<1> HIDE DEF f
<1>3. h \in Registers /\ h.lastts = now /\ h.irq10_pulse_ts = io.irq10_pulse_ts
  BY <1>2 DEF Registers
<1>4. Clocked(h)
  BY <1>2 DEF Clocked, Busy, Registers
<1> HIDE DEF h
<1>5. disturbed' \in BOOLEAN /\ acks' \in [Lines -> Nat] /\ UNCHANGED <<pc, now, hooked, saved, shots>>
  BY GameTypes DEF ReadData
<1>6. Accessed
  BY <1>1, <1>3, <1>4, <1>5, CheckedKeeps DEF Accessed
<1> QED BY <1>6, AccessKeeps

LEMMA ReadOtherKeeps ==
  ASSUME IInv, ReadOther PROVE IInv'
<1>1. CPURuns /\ io' = Update(io, now, Silence) /\ UNCHANGED <<pc, now, hooked, due, saved, disturbed, acks, shots>>
  BY DEF ReadOther
<1>2. /\ Sound(io') /\ io'.lastts = now /\ io'.irq10_pulse_ts = io.irq10_pulse_ts /\ Before(io', due')
      /\ due' \in Nat /\ now <= due' /\ due' <= FrameTime + Far
  BY <1>1, CPUFacts DEF Updated
<1>3. disturbed' \in BOOLEAN /\ acks' \in [Lines -> Nat]
  BY <1>1, GameTypes
<1>4. Accessed
  BY <1>1, <1>2, <1>3 DEF Accessed
<1> QED BY <1>4, AccessKeeps

LEMMA WriteRateKeeps ==
  ASSUME IInv, NEW r \in Rates, WriteRate(r) PROVE IInv'
<1> DEFINE f == Update(io, now, Silence)
           h == [f EXCEPT !.rate = r]
<1>1. CPURuns /\ Checked(h)
  BY DEF WriteRate
<1>2. f \in Registers /\ Clocked(f) /\ f.lastts = now /\ f.irq10_pulse_ts = io.irq10_pulse_ts
  BY <1>1, CPUFacts DEF Updated, Sound
<1> HIDE DEF f
<1>3. h \in Registers /\ h.lastts = now /\ h.irq10_pulse_ts = io.irq10_pulse_ts
  BY <1>2 DEF Registers
<1>4. Clocked(h)
  BY <1>2 DEF Clocked, Busy, Registers
<1> HIDE DEF h
<1>5. disturbed' \in BOOLEAN /\ acks' \in [Lines -> Nat] /\ UNCHANGED <<pc, now, hooked, saved, shots>>
  BY GameTypes DEF WriteRate
<1>6. Accessed
  BY <1>1, <1>3, <1>4, <1>5, CheckedKeeps DEF Accessed
<1> QED BY <1>6, AccessKeeps

LEMMA SelectKeeps ==
  ASSUME NEW f \in Registers, NEW control \in SUBSET ControlBits
  PROVE  LET g == Select(f, control) IN
         /\ g \in Registers /\ g.lastts = f.lastts /\ g.irq10_pulse_ts = f.irq10_pulse_ts
         /\ Clocked(f) => Clocked(g)
<1> DEFINE devs == [i \in Lines |-> Device_SetDTR(f.dev[i], Selected(control, i))]
           delays == [i \in Lines |-> IF Selected(control, i) THEN f.dsr_pulse_delay[i] ELSE 0]
           until == [i \in Lines |-> IF Selected(control, i) THEN f.dsr_active_until_ts[i] ELSE -1]
           g == Select(f, control)
<1>1. /\ f.dev \in [Lines -> Device] /\ f.dsr_pulse_delay \in [Lines -> Nat]
      /\ f.dsr_active_until_ts \in [Lines -> Int]
  BY DEF Registers
<1>2. devs \in [Lines -> Device]
  <2>1. \A i \in Lines : Selected(control, i) \in BOOLEAN
    BY DEF Selected
  <2>2. \A d \in Device : \A b \in BOOLEAN : Device_SetDTR(d, b) \in Device
    <3>1. [says |-> Ones, ack |-> 0] \in [says : Byte, ack : Nat]
      BY ByteTypes
    <3> QED BY <3>1, DeviceTypes
  <2> QED BY <1>1, <2>1, <2>2
<1>3. delays \in [Lines -> Nat] /\ until \in [Lines -> Int]
  BY <1>1
<1>4. g = [f EXCEPT !.Control = control, !.dev = devs, !.dsr_pulse_delay = delays, !.dsr_active_until_ts = until]
  BY DEF Select, Registers
<1> HIDE DEF devs, delays, until, g
<1>5. g \in Registers
  BY <1>2, <1>3, <1>4 DEF Registers
<1>6. /\ g.lastts = f.lastts /\ g.irq10_pulse_ts = f.irq10_pulse_ts /\ g.ClockDivider = f.ClockDivider
      /\ g.TransmitInProgress = f.TransmitInProgress /\ g.ReceiveInProgress = f.ReceiveInProgress
  BY <1>4 DEF Registers
<1> QED BY <1>5, <1>6 DEF Clocked, Busy, g

LEMMA ClearedKeeps ==
  ASSUME NEW f \in Registers
  PROVE  LET g == Cleared(f) IN
         g \in Registers /\ Clocked(g) /\ g.lastts = f.lastts /\ g.irq10_pulse_ts = f.irq10_pulse_ts
<1> DEFINE g == Cleared(f)
           p == PowerOn
<1>1. p \in Registers /\ p.TransmitInProgress = FALSE /\ p.ReceiveInProgress = FALSE
  BY PowerOnSound DEF PowerOn
<1>2. g = [p EXCEPT !.lastts = f.lastts, !.dev = f.dev, !.dsr_pulse_delay = f.dsr_pulse_delay,
                    !.dsr_active_until_ts = f.dsr_active_until_ts, !.irq10_pulse_ts = f.irq10_pulse_ts]
  BY DEF Cleared
<1> HIDE DEF g, p
<1>3. g \in Registers /\ g.lastts = f.lastts /\ g.irq10_pulse_ts = f.irq10_pulse_ts
  BY <1>1, <1>2 DEF Registers
<1>4. g.TransmitInProgress = FALSE /\ g.ReceiveInProgress = FALSE
  BY <1>1, <1>2 DEF Registers
<1> QED BY <1>3, <1>4 DEF Clocked, Busy, g

LEMMA WriteControlKeeps ==
  ASSUME IInv, NEW control \in Controls, NEW acknowledge \in BOOLEAN, NEW reset \in BOOLEAN,
         WriteControl(control, acknowledge, reset)
  PROVE  IInv'
<1> DEFINE f == Update(io, now, Silence)
           calm == [f EXCEPT !.istatus = @ /\ ~acknowledge]
           g == IF reset THEN Cleared(f) ELSE calm
           chosen == IF reset THEN {} ELSE control
           h == Select(g, chosen)
<1>1. CPURuns /\ Checked(h)
  BY DEF WriteControl
<1>2. f \in Registers /\ Clocked(f) /\ f.lastts = now /\ f.irq10_pulse_ts = io.irq10_pulse_ts
  BY <1>1, CPUFacts DEF Updated, Sound
<1>3. disturbed' \in BOOLEAN /\ acks' \in [Lines -> Nat] /\ UNCHANGED <<pc, now, hooked, saved, shots>>
  <2>1. \A i \in Lines : (IF Selected(chosen, i) THEN acks[i] ELSE MaxTS) \in Nat
    BY GameTypes, Constants
  <2>2. acks' = [i \in Lines |-> IF Selected(chosen, i) THEN acks[i] ELSE MaxTS]
    BY DEF WriteControl
  <2>3. disturbed' \in BOOLEAN
    BY DEF WriteControl
  <2> QED BY <2>1, <2>2, <2>3 DEF WriteControl
<1> HIDE DEF f
<1>4. calm \in Registers /\ calm.lastts = now /\ calm.irq10_pulse_ts = io.irq10_pulse_ts /\ Clocked(calm)
  <2>1. (f.istatus /\ ~acknowledge) \in BOOLEAN
    OBVIOUS
  <2>2. /\ calm \in Registers /\ calm.lastts = f.lastts /\ calm.irq10_pulse_ts = f.irq10_pulse_ts
        /\ calm.ClockDivider = f.ClockDivider
        /\ calm.TransmitInProgress = f.TransmitInProgress /\ calm.ReceiveInProgress = f.ReceiveInProgress
    BY <1>2, <2>1 DEF Registers
  <2> HIDE DEF calm
  <2> QED BY <1>2, <2>2 DEF Clocked, Busy
<1> HIDE DEF calm
<1>5. g \in Registers /\ g.lastts = now /\ g.irq10_pulse_ts = io.irq10_pulse_ts /\ Clocked(g)
  BY <1>2, <1>4, ClearedKeeps
<1>6. chosen \in SUBSET ControlBits
  BY Constants
<1> HIDE DEF g, chosen
<1>7. h \in Registers /\ h.lastts = now /\ h.irq10_pulse_ts = io.irq10_pulse_ts /\ Clocked(h)
  BY <1>5, <1>6, SelectKeeps
<1> HIDE DEF h
<1>8. Accessed
  BY <1>1, <1>3, <1>7, CheckedKeeps DEF Accessed
<1> QED BY <1>8, AccessKeeps

------------------------------------------------------------------------------
(* The event handler, the GPU and the end of the frame.                     *)

LEMMA UpdateFacts ==
  ASSUME IInv, now <= due, NEW reply \in Answers
  PROVE  LET f == Update(io, now, reply) IN
         /\ now \in Nat /\ now <= FrameTime /\ Updated(io, f, now)
         /\ \A i \in 0..1 : /\ f.irq10_pulse_ts[i] \in Nat /\ now < f.irq10_pulse_ts[i]
                            /\ io.irq10_pulse_ts[i] \in Nat /\ now <= io.irq10_pulse_ts[i]
         /\ AcksAfter(io, f, now) \in [Lines -> Nat]
         /\ \A i \in Lines : AcksAfter(io, f, now)[i] >= now
<1> DEFINE f == Update(io, now, reply)
<1>1. /\ Sound(io) /\ now \in Nat /\ now <= FrameTime /\ due \in Nat /\ io.lastts <= now
      /\ Before(io, due) /\ acks \in [Lines -> Nat]
  BY Constants DEF IInv, TypeOK, Timely, Sound
<1>2. reply \in Answering
  BY Constants DEF Answers, Answering
<1>3. \A i \in 0..1 : io.irq10_pulse_ts[i] \in Nat /\ due <= io.irq10_pulse_ts[i]
  BY <1>1 DEF Sound, Registers, Before
<1>4. Before(io, now)
  <2>1. \A i \in Lines : io.dsr_pulse_delay[i] \in Nat
    BY <1>1 DEF Sound, Registers
  <2>2. io.ClockDivider \in Nat /\ io.lastts \in Nat
    BY <1>1 DEF Sound, Registers
  <2> QED BY <1>1, <1>3, <2>1, <2>2 DEF Before
<1>5. Updated(io, f, now)
  BY <1>1, <1>2, <1>4, UpdateKeeps
<1> HIDE DEF f
<1>6. \A i \in 0..1 : now <= io.irq10_pulse_ts[i]
  BY <1>1, <1>3
<1>7. MaxTS \in Nat /\ now < MaxTS
  BY <1>1, Constants
<1>8. \A i \in 0..1 : f.irq10_pulse_ts[i] \in Nat /\ now < f.irq10_pulse_ts[i]
  BY <1>1, <1>3, <1>5, <1>7 DEF Updated
<1>9. \A i \in Lines : f.dsr_pulse_delay[i] \in Nat
  BY <1>5 DEF Updated, Sound, Registers
<1>10. \A i \in Lines : AcksAfter(io, f, now)[i] \in Nat /\ AcksAfter(io, f, now)[i] >= now
  BY <1>1, <1>7, <1>9 DEF AcksAfter
<1>11. AcksAfter(io, f, now) \in [Lines -> Nat]
  BY <1>10 DEF AcksAfter
<1> QED BY <1>1, <1>3, <1>5, <1>6, <1>8, <1>10, <1>11 DEF f

LEMMA EventKeeps ==
  ASSUME IInv, NEW reply \in Answers, Event(reply) PROVE IInv'
<1>1. /\ pc = "run" /\ now = due /\ io' = Update(io, now, reply) /\ due' = CalcNextEventTS(io', now)
      /\ acks' = AcksAfter(io, io', now)
      /\ shots' = [i \in 0..1 |-> IF io'.irq10_pulse_ts[i] = MaxTS THEN MaxTS ELSE shots[i]]
      /\ UNCHANGED <<pc, now, hooked, saved, disturbed>>
  BY DEF Event
<1>2. TypeOK /\ Timely /\ SavedTimely
  BY DEF IInv
<1>3. /\ now \in Nat /\ now <= FrameTime /\ Updated(io, io', now) /\ acks' \in [Lines -> Nat]
      /\ \A i \in 0..1 : /\ io'.irq10_pulse_ts[i] \in Nat /\ now < io'.irq10_pulse_ts[i]
                         /\ io.irq10_pulse_ts[i] \in Nat /\ now <= io.irq10_pulse_ts[i]
  <2>1. now <= due
    BY <1>1, <1>2 DEF TypeOK
  <2> QED BY <1>1, <2>1, UpdateFacts
<1>4. io' \in Registers /\ Clocked(io') /\ io'.lastts = now
  BY <1>3 DEF Updated, Sound
<1>5. due' \in Nat /\ now <= due' /\ due' <= FrameTime + Far /\ Before(io', due')
  <2>1. \A i \in 0..1 : now <= io'.irq10_pulse_ts[i]
    BY <1>3
  <2>2. due' \in Nat /\ now <= due' /\ due' <= now + Far /\ Before(io', due')
    BY <1>1, <1>3, <1>4, <2>1, EventIsFirst
  <2> QED BY <1>3, <2>2, Constants
<1>6. shots' = io'.irq10_pulse_ts /\ \A i \in 0..1 : shots'[i] = MaxTS \/ shots'[i] = shots[i]
  <2>1. shots = io.irq10_pulse_ts /\ io'.irq10_pulse_ts \in [0..1 -> Nat]
    BY <1>2, <1>4 DEF Timely, Registers
  <2>2. \A i \in 0..1 : io'.irq10_pulse_ts[i] = MaxTS \/ io'.irq10_pulse_ts[i] = io.irq10_pulse_ts[i]
    BY <1>3 DEF Updated
  <2>3. \A i \in 0..1 : shots'[i] = io'.irq10_pulse_ts[i]
    BY <1>1, <2>1, <2>2
  <2> QED BY <1>1, <2>1, <2>2, <2>3
<1>7. TypeOK'
  <2>1. shots' \in [0..1 -> Nat]
    BY <1>4, <1>6 DEF Registers
  <2> QED BY <1>1, <1>2, <1>3, <1>4, <1>5, <2>1 DEF TypeOK
<1>8. Timely'
  <2>1. InLine(shots', LineEnd(now, hooked))
    BY <1>2, <1>6 DEF Timely, InLine
  <2> QED BY <1>1, <1>2, <1>3, <1>4, <1>5, <1>6, <2>1 DEF Timely, InLine, LineEnd
<1>9. SavedTimely'
  BY <1>1, <1>2 DEF SavedTimely
<1> QED BY <1>7, <1>8, <1>9 DEF IInv

\* When a line ends no pulse of it is to come, and those of the next are within it.
LEMMA HookKeeps ==
  ASSUME IInv, NEW seen \in Sightings, NEW reply \in Answers, GPULineHook(seen, reply) PROVE IInv'
<1> DEFINE f == Update(io, now, reply)
           pulses == [i \in 0..1 |-> IF seen[i] <= now THEN MaxTS ELSE seen[i]]
<1>1. /\ pc = "run" /\ now % LineTime = 0 /\ ~hooked /\ now <= due
      /\ io' = [f EXCEPT !.irq10_pulse_ts = pulses]
      /\ shots' = [i \in 0..1 |-> IF f.irq10_pulse_ts[i] # MaxTS THEN shots[i]
                                  ELSE IF seen[i] <= now THEN MaxTS ELSE seen[i]]
      /\ acks' = AcksAfter(io, f, now)
      /\ due' = CalcNextEventTS(io', now) /\ hooked' = TRUE
      /\ UNCHANGED <<pc, now, saved, disturbed>>
  BY DEF GPULineHook
<1>2. TypeOK /\ Timely /\ SavedTimely
  BY DEF IInv
<1>3. /\ now \in Nat /\ now <= FrameTime /\ Updated(io, f, now) /\ acks' \in [Lines -> Nat]
      /\ \A i \in 0..1 : /\ f.irq10_pulse_ts[i] \in Nat /\ now < f.irq10_pulse_ts[i]
                         /\ io.irq10_pulse_ts[i] \in Nat /\ now <= io.irq10_pulse_ts[i]
  BY <1>1, UpdateFacts
<1>4. f \in Registers /\ Clocked(f) /\ f.lastts = now
  BY <1>3 DEF Updated, Sound
<1>5. \A i \in 0..1 : f.irq10_pulse_ts[i] = MaxTS
  <2>1. shots = io.irq10_pulse_ts /\ LineEnd(now, hooked) = now
    BY <1>1, <1>2 DEF Timely, LineEnd
  <2>2. \A i \in 0..1 : io.irq10_pulse_ts[i] # MaxTS => io.irq10_pulse_ts[i] < now
    BY <1>2, <2>1 DEF Timely, InLine
  <2>3. \A i \in 0..1 : io.irq10_pulse_ts[i] = MaxTS
    BY <1>3, <2>2
  <2> QED BY <1>3, <2>3 DEF Updated
<1> HIDE DEF f
<1>6. \A i \in 0..1 : /\ pulses[i] \in Nat /\ now <= pulses[i]
                      /\ pulses[i] # MaxTS => pulses[i] < now + LineTime
  <2>1. SUFFICES ASSUME NEW i \in 0..1
                 PROVE  /\ pulses[i] \in Nat /\ now <= pulses[i]
                        /\ pulses[i] # MaxTS => pulses[i] < now + LineTime
    OBVIOUS
  <2>2. seen[i] \in {now + s : s \in Shots} \cup {MaxTS}
    BY DEF Sightings
  <2>3. \A s \in Shots : s \in Nat /\ s < LineTime
    BY Constants
  <2>4. MaxTS \in Nat /\ now <= MaxTS
    BY <1>3, Constants
  <2>5. CASE seen[i] = MaxTS
    BY <2>4, <2>5
  <2>6. CASE seen[i] # MaxTS
    <3>1. PICK s \in Shots : seen[i] = now + s
      BY <2>2, <2>6
    <3>2. LineTime \in Nat
      BY Constants
    <3> QED BY <1>3, <2>3, <2>4, <3>1, <3>2
  <2> QED BY <2>5, <2>6
<1>7. pulses \in [0..1 -> Nat] /\ shots' = pulses
  BY <1>1, <1>5, <1>6
<1> HIDE DEF pulses
<1>8. io' \in Registers /\ Clocked(io') /\ io'.lastts = now /\ io'.irq10_pulse_ts = pulses
  BY <1>1, <1>4, <1>7 DEF Registers, Clocked, Busy
<1>9. due' \in Nat /\ now <= due' /\ due' <= FrameTime + Far /\ Before(io', due')
  <2>1. \A i \in 0..1 : now <= io'.irq10_pulse_ts[i]
    BY <1>6, <1>8
  <2>2. due' \in Nat /\ now <= due' /\ due' <= now + Far /\ Before(io', due')
    BY <1>1, <1>3, <1>8, <2>1, EventIsFirst
  <2> QED BY <1>3, <2>2, Constants
<1>10. TypeOK'
  BY <1>1, <1>2, <1>3, <1>7, <1>8, <1>9 DEF TypeOK
<1>11. Timely'
  <2>1. LineEnd(now', hooked') = now + LineTime
    BY <1>1, <1>3, Constants DEF LineEnd
  <2>2. InLine(shots', LineEnd(now', hooked'))
    BY <1>6, <1>7, <2>1 DEF InLine
  <2>3. now' = now /\ pc' = "run" /\ io'.lastts <= now' /\ now' <= due'
    BY <1>1, <1>3, <1>8, <1>9
  <2>4. shots' = io'.irq10_pulse_ts
    BY <1>7, <1>8
  <2> QED BY <1>8, <1>9, <2>2, <2>3, <2>4 DEF Timely
<1>12. SavedTimely'
  BY <1>1, <1>2 DEF SavedTimely
<1> QED BY <1>10, <1>11, <1>12 DEF IInv

LEMMA TickKeeps ==
  ASSUME IInv, Tick PROVE IInv'
<1>1. /\ pc = "run" /\ now < due /\ now < FrameTime /\ hooked = TRUE
      /\ now' = now + 1 /\ hooked' = ((now + 1) % LineTime # 0)
      /\ UNCHANGED <<pc, io, due, saved, disturbed, acks, shots>>
  BY DEF Tick, IInv, TypeOK
<1>2. TypeOK /\ Timely /\ SavedTimely
  BY DEF IInv
<1>3. now \in Nat /\ due \in Nat /\ io.lastts \in Nat /\ FrameTime \in Nat
  BY <1>2, Constants DEF TypeOK, Registers
<1>4. TypeOK'
  BY <1>1, <1>2, <1>3 DEF TypeOK
<1>5. Timely'
  <2>1. LineEnd(now', hooked') = LineEnd(now, hooked)
    BY <1>1, <1>3, LineGoesOn
  <2>2. InLine(shots', LineEnd(now', hooked'))
    BY <1>1, <1>2, <2>1 DEF Timely
  <2>3. io.lastts <= now + 1 /\ now + 1 <= due
    BY <1>1, <1>2, <1>3 DEF Timely
  <2>4. Clocked(io') /\ Before(io', due') /\ due' <= FrameTime + Far /\ shots' = io'.irq10_pulse_ts
    BY <1>1, <1>2 DEF Timely
  <2> QED BY <1>1, <2>2, <2>3, <2>4 DEF Timely
<1>6. SavedTimely'
  BY <1>1, <1>2 DEF SavedTimely
<1> QED BY <1>4, <1>5, <1>6 DEF IInv

\* The new frame begins at 0: what is to come is that much earlier.
LEMMA EndFrameKeeps ==
  ASSUME IInv, NEW reply \in Answers, EndFrame(reply) PROVE IInv'
<1> DEFINE f == Update(io, now, reply)
           d == CalcNextEventTS(f, now)
           pulses == [i \in 0..1 |-> IF f.irq10_pulse_ts[i] # MaxTS THEN f.irq10_pulse_ts[i] - now
                                     ELSE f.irq10_pulse_ts[i]]
           until == [i \in Lines |-> IF f.dsr_active_until_ts[i] >= 0 THEN f.dsr_active_until_ts[i] - now
                                     ELSE f.dsr_active_until_ts[i]]
<1>1. /\ pc = "run" /\ now = FrameTime /\ hooked /\ now <= due
      /\ io' = Rebased(f, f.lastts) /\ due' = d - now
      /\ acks' = [i \in Lines |-> LET a == AcksAfter(io, f, now)[i] IN IF a = MaxTS THEN a ELSE a - now]
      /\ shots' = [i \in 0..1 |-> IF f.irq10_pulse_ts[i] = MaxTS THEN MaxTS ELSE shots[i] - now]
      /\ pc' = "frontend" /\ now' = 0 /\ UNCHANGED <<hooked, saved, disturbed>>
  BY DEF EndFrame
<1>2. TypeOK /\ Timely /\ SavedTimely
  BY DEF IInv
<1>3. /\ now \in Nat /\ now <= FrameTime /\ Updated(io, f, now)
      /\ \A i \in 0..1 : /\ f.irq10_pulse_ts[i] \in Nat /\ now < f.irq10_pulse_ts[i]
                         /\ io.irq10_pulse_ts[i] \in Nat /\ now <= io.irq10_pulse_ts[i]
      /\ AcksAfter(io, f, now) \in [Lines -> Nat]
      /\ \A i \in Lines : AcksAfter(io, f, now)[i] >= now
  BY <1>1, UpdateFacts
<1>4. f \in Registers /\ Clocked(f) /\ f.lastts = now
  BY <1>3 DEF Updated, Sound
<1> HIDE DEF f
<1>5. d \in Nat /\ now <= d /\ d <= now + Far /\ Before(f, d)
  <2>1. \A i \in 0..1 : now <= f.irq10_pulse_ts[i]
    BY <1>3
  <2> QED BY <1>3, <1>4, <2>1, EventIsFirst
<1> HIDE DEF d
<1>6. io' = [f EXCEPT !.irq10_pulse_ts = pulses, !.dsr_active_until_ts = until, !.lastts = 0]
  BY <1>1, <1>4 DEF Rebased, Registers
<1>7. pulses \in [0..1 -> Nat] /\ until \in [Lines -> Int]
  <2>1. \A i \in Lines : f.dsr_active_until_ts[i] \in Int
    BY <1>4 DEF Registers
  <2>2. \A i \in 0..1 : pulses[i] \in Nat
    BY <1>3
  <2>3. \A i \in Lines : until[i] \in Int
    BY <1>3, <2>1
  <2> QED BY <2>2, <2>3
<1>8. \A i \in 0..1 : pulses[i] = IF f.irq10_pulse_ts[i] # MaxTS THEN f.irq10_pulse_ts[i] - now ELSE MaxTS
  OBVIOUS
<1> HIDE DEF pulses, until
<1>9. /\ io' \in Registers /\ io'.lastts = 0 /\ io'.irq10_pulse_ts = pulses
      /\ io'.ClockDivider = f.ClockDivider /\ io'.dsr_pulse_delay = f.dsr_pulse_delay
      /\ io'.TransmitInProgress = f.TransmitInProgress /\ io'.ReceiveInProgress = f.ReceiveInProgress
  BY <1>4, <1>6, <1>7 DEF Registers
<1>10. Clocked(io')
  BY <1>4, <1>9 DEF Clocked, Busy
<1>11. due' \in Nat /\ 0 <= due' /\ due' <= Far
  BY <1>1, <1>3, <1>5, Constants
<1>12. Before(io', due')
  <2>1. io'.ClockDivider > 0 => due' <= io'.lastts + io'.ClockDivider
    <3>1. f.ClockDivider \in Nat
      BY <1>4 DEF Registers
    <3> QED BY <1>1, <1>3, <1>4, <1>5, <1>9, <3>1 DEF Before
  <2>2. \A i \in Lines : io'.dsr_pulse_delay[i] > 0 => due' <= io'.lastts + io'.dsr_pulse_delay[i]
    <3>1. \A i \in Lines : f.dsr_pulse_delay[i] \in Nat
      BY <1>4 DEF Registers
    <3> QED BY <1>1, <1>3, <1>4, <1>5, <1>9, <3>1 DEF Before
  <2>3. \A i \in 0..1 : due' <= io'.irq10_pulse_ts[i]
    <3>1. Far \in Nat /\ MaxTS \in Nat /\ Far <= MaxTS
      BY Constants
    <3>2. \A i \in 0..1 : d <= f.irq10_pulse_ts[i]
      BY <1>5 DEF Before
    <3> QED BY <1>1, <1>3, <1>5, <1>8, <1>9, <1>11, <3>1, <3>2
  <2> QED BY <2>1, <2>2, <2>3 DEF Before
<1>13. shots' = pulses /\ InLine(pulses, LineTime)
  <2>1. shots = io.irq10_pulse_ts
    BY <1>2 DEF Timely
  <2>2. \A i \in 0..1 : f.irq10_pulse_ts[i] # MaxTS => f.irq10_pulse_ts[i] = shots[i]
    BY <1>3, <2>1 DEF Updated
  <2>3. \A i \in 0..1 : shots'[i] = pulses[i]
    BY <1>1, <1>8, <2>2
  <2>4. LineEnd(now, hooked) = now + LineTime
    BY <1>1, <1>3, FrontIOAssumption DEF LineEnd
  <2>5. \A i \in 0..1 : f.irq10_pulse_ts[i] # MaxTS => f.irq10_pulse_ts[i] < now + LineTime
    BY <1>2, <2>2, <2>4 DEF Timely, InLine
  <2>6. \A i \in 0..1 : pulses[i] # MaxTS => pulses[i] < LineTime
    BY <1>3, <1>8, <2>5, Constants
  <2> QED BY <1>1, <1>7, <2>3, <2>6 DEF InLine
<1>14. acks' \in [Lines -> Nat]
  <2>1. \A i \in Lines : AcksAfter(io, f, now)[i] \in Nat /\ AcksAfter(io, f, now)[i] - now \in Nat
    BY <1>3
  <2> QED BY <1>1, <2>1
<1>15. TypeOK'
  <2>1. 0 \in 0..FrameTime
    BY Constants
  <2> QED BY <1>1, <1>2, <1>7, <1>9, <1>11, <1>13, <1>14, <2>1 DEF TypeOK
<1>16. Timely'
  <2>1. LineEnd(now', hooked') = LineTime
    BY <1>1, Constants DEF LineEnd
  <2>2. due' <= FrameTime + Far
    BY <1>11, Constants
  <2>3. InLine(shots', LineEnd(now', hooked'))
    BY <1>13, <2>1
  <2>4. hooked' /\ now' = 0
    BY <1>1
  <2> QED BY <1>9, <1>10, <1>11, <1>12, <1>13, <2>2, <2>3, <2>4 DEF Timely
<1>17. SavedTimely'
  BY <1>1, <1>2 DEF SavedTimely
<1> QED BY <1>15, <1>16, <1>17 DEF IInv

------------------------------------------------------------------------------
(* The frontend.                                                            *)

LEMMA BeginFrameKeeps ==
  ASSUME IInv, BeginFrame PROVE IInv'
<1>1. pc = "frontend" /\ pc' = "run" /\ UNCHANGED <<now, hooked, io, due, saved, disturbed, acks, shots>>
  BY DEF BeginFrame
<1>2. TypeOK /\ Timely /\ SavedTimely
  BY DEF IInv
<1>3. TypeOK'
  BY <1>1, <1>2 DEF TypeOK
<1>4. Timely'
  BY <1>1, <1>2 DEF Timely, InLine, LineEnd
<1>5. SavedTimely'
  BY <1>1, <1>2 DEF SavedTimely
<1> QED BY <1>3, <1>4, <1>5 DEF IInv

LEMMA SetInputKeeps ==
  ASSUME IInv, NEW port \in 0..1, SetInput(port) PROVE IInv'
<1> DEFINE pulses == [io.irq10_pulse_ts EXCEPT ![port] = MaxTS]
           devs == [io.dev EXCEPT ![port] = NewDevice]
<1>1. /\ pc = "frontend" /\ io' = [io EXCEPT !.irq10_pulse_ts = pulses, !.dev = devs]
      /\ shots' = [shots EXCEPT ![port] = MaxTS] /\ disturbed' = TRUE
      /\ UNCHANGED <<pc, now, hooked, due, saved, acks>>
  BY DEF SetInput, IInv, TypeOK, Registers
<1>2. TypeOK /\ Timely /\ SavedTimely
  BY DEF IInv
<1>3. io \in Registers /\ io.irq10_pulse_ts \in [0..1 -> Nat] /\ io.dev \in [Lines -> Device]
  BY <1>2 DEF TypeOK, Registers
<1>4. MaxTS \in Nat
  BY Constants
<1>5. /\ pulses \in [0..1 -> Nat] /\ devs \in [Lines -> Device]
      /\ \A i \in 0..1 : pulses[i] = MaxTS \/ pulses[i] = io.irq10_pulse_ts[i]
  BY <1>3, <1>4, ByteTypes
<1>6. shots' = pulses
  BY <1>1, <1>2 DEF Timely
<1> HIDE DEF pulses, devs
<1>7. /\ io' \in Registers /\ io'.lastts = io.lastts /\ io'.irq10_pulse_ts = pulses
      /\ io'.ClockDivider = io.ClockDivider /\ io'.dsr_pulse_delay = io.dsr_pulse_delay
      /\ io'.TransmitInProgress = io.TransmitInProgress /\ io'.ReceiveInProgress = io.ReceiveInProgress
  BY <1>1, <1>3, <1>5 DEF Registers
<1>8. Clocked(io') /\ io'.lastts <= now' /\ now' <= due' /\ due' <= FrameTime + Far /\ now' = 0 /\ hooked'
  BY <1>1, <1>2, <1>7 DEF Timely, Clocked, Busy
<1>9. Before(io', due')
  <2>1. due \in Nat /\ due <= MaxTS
    BY <1>2, Constants DEF TypeOK, Timely
  <2>2. \A i \in 0..1 : due <= io.irq10_pulse_ts[i]
    BY <1>2 DEF Timely, Before
  <2>3. \A i \in 0..1 : due <= pulses[i]
    BY <1>5, <2>1, <2>2
  <2> QED BY <1>1, <1>2, <1>7, <2>3 DEF Timely, Before
<1>10. InLine(shots', LineEnd(now', hooked'))
  <2>1. InLine(shots, LineEnd(now, hooked)) /\ shots = io.irq10_pulse_ts
    BY <1>2 DEF Timely
  <2> QED BY <1>1, <1>5, <1>6, <2>1 DEF InLine
<1>11. TypeOK'
  BY <1>1, <1>2, <1>5, <1>6, <1>7 DEF TypeOK
<1>12. Timely'
  BY <1>6, <1>7, <1>8, <1>9, <1>10 DEF Timely
<1>13. SavedTimely'
  BY <1>1, <1>2 DEF SavedTimely
<1> QED BY <1>11, <1>12, <1>13 DEF IInv

LEMMA PowerKeeps ==
  ASSUME IInv, Power PROVE IInv'
<1>1. /\ pc = "frontend" /\ io' = PowerOn /\ due' = CalcNextEventTS(PowerOn, 0)
      /\ disturbed' = FALSE /\ acks' = NoAcks /\ shots' = NoShots
      /\ UNCHANGED <<pc, now, hooked, saved>>
  BY DEF Power
<1>2. TypeOK /\ Timely /\ SavedTimely /\ now = 0 /\ hooked
  BY <1>1 DEF IInv, Timely
<1>3. due' \in Nat /\ 0 <= due' /\ due' <= 0 + Far /\ Before(PowerOn, due')
  <2>1. \A i \in 0..1 : 0 <= PowerOn.irq10_pulse_ts[i]
    BY PowerOnSound, Constants
  <2>2. 0 \in Nat
    OBVIOUS
  <2> HIDE DEF PowerOn
  <2> QED BY <1>1, <2>1, <2>2, PowerOnSound, EventIsFirst
<1>4. TypeOK'
  BY <1>1, <1>2, <1>3, PowerOnSound DEF TypeOK
<1>5. Timely'
  <2>1. InLine(shots', LineEnd(now', hooked'))
    BY <1>1 DEF InLine, NoShots
  <2>2. due' <= FrameTime + Far
    BY <1>3, Constants
  <2>3. io'.lastts <= now' /\ now' <= due' /\ now' = 0 /\ hooked'
    BY <1>1, <1>2, <1>3, PowerOnSound
  <2> QED BY <1>1, <1>3, <2>1, <2>2, <2>3, PowerOnSound DEF Timely
<1>6. SavedTimely'
  BY <1>1, <1>2 DEF SavedTimely
<1> QED BY <1>4, <1>5, <1>6 DEF IInv

LEMMA SaveStateKeeps ==
  ASSUME IInv, SaveState PROVE IInv'
<1> DEFINE s == [io |-> io, disturbed |-> disturbed, acks |-> acks, shots |-> shots]
<1>1. pc = "frontend" /\ saved' = {s} /\ UNCHANGED <<pc, now, hooked, io, due, disturbed, acks, shots>>
  BY DEF SaveState
<1>2. TypeOK /\ Timely /\ now = 0 /\ hooked
  BY <1>1 DEF IInv, Timely
<1>3. s \in States
  BY <1>2 DEF TypeOK, States
<1>4. TypeOK'
  BY <1>1, <1>2, <1>3 DEF TypeOK
<1>5. Timely'
  BY <1>1, <1>2 DEF Timely, InLine, LineEnd
<1>6. SavedTimely'
  <2>1. LineEnd(now, hooked) = LineTime
    BY <1>2, Constants DEF LineEnd
  <2>2. Clocked(s.io) /\ s.shots = s.io.irq10_pulse_ts /\ InLine(s.shots, LineTime)
    BY <1>2, <2>1 DEF Timely
  <2> QED BY <1>1, <2>2 DEF SavedTimely
<1> QED BY <1>4, <1>5, <1>6 DEF IInv

\* A loaded state is of a frame that is yet to come, as the one it replaces.
LEMMA LoadStateKeeps ==
  ASSUME IInv, LoadState PROVE IInv'
<1>1. /\ pc = "frontend" /\ UNCHANGED <<pc, now, hooked, saved>>
  BY DEF LoadState
<1>2. PICK s \in saved : /\ io' = [s.io EXCEPT !.lastts = io.lastts] /\ due' = CalcNextEventTS(io', 0)
                         /\ disturbed' = s.disturbed /\ acks' = s.acks /\ shots' = s.shots
  BY DEF LoadState
<1>3. TypeOK /\ Timely /\ SavedTimely /\ now = 0 /\ hooked
  BY <1>1 DEF IInv, Timely
<1>4. io.lastts = 0
  <2>1. io.lastts \in Nat /\ io.lastts <= now
    BY <1>3 DEF TypeOK, Registers, Timely
  <2> QED BY <1>3, <2>1
<1>5. /\ s.io \in Registers /\ s.disturbed \in BOOLEAN /\ s.acks \in [Lines -> Nat] /\ s.shots \in [0..1 -> Nat]
      /\ Clocked(s.io) /\ s.shots = s.io.irq10_pulse_ts /\ InLine(s.shots, LineTime)
  <2>1. s \in States
    BY <1>3 DEF TypeOK
  <2> QED BY <1>3, <2>1 DEF States, SavedTimely
<1> DEFINE f == s.io
<1> HIDE DEF f
<1>6. io' = [f EXCEPT !.lastts = 0] /\ f \in Registers /\ Clocked(f) /\ s.shots = f.irq10_pulse_ts
  BY <1>2, <1>4, <1>5 DEF f
<1>7. /\ io' \in Registers /\ io'.lastts = 0 /\ io'.irq10_pulse_ts = f.irq10_pulse_ts
      /\ io'.ClockDivider = f.ClockDivider
      /\ io'.TransmitInProgress = f.TransmitInProgress /\ io'.ReceiveInProgress = f.ReceiveInProgress
  BY <1>6 DEF Registers
<1>8. Clocked(io')
  BY <1>6, <1>7 DEF Clocked, Busy
<1>9. due' \in Nat /\ 0 <= due' /\ due' <= 0 + Far /\ Before(io', due')
  <2>1. \A i \in 0..1 : 0 <= io'.irq10_pulse_ts[i]
    BY <1>7 DEF Registers
  <2>2. 0 \in Nat
    OBVIOUS
  <2> QED BY <1>2, <1>7, <2>1, <2>2, EventIsFirst
<1>10. TypeOK'
  BY <1>1, <1>2, <1>3, <1>5, <1>7, <1>9 DEF TypeOK
<1>11. Timely'
  <2>1. LineEnd(now', hooked') = LineTime
    BY <1>1, <1>3, Constants DEF LineEnd
  <2>2. InLine(shots', LineEnd(now', hooked')) /\ shots' = io'.irq10_pulse_ts
    BY <1>2, <1>5, <1>6, <1>7, <2>1
  <2>3. due' <= FrameTime + Far
    BY <1>9, Constants
  <2>4. io'.lastts <= now' /\ now' <= due' /\ now' = 0 /\ hooked'
    BY <1>1, <1>3, <1>7, <1>9
  <2> QED BY <1>8, <1>9, <2>2, <2>3, <2>4 DEF Timely
<1>12. SavedTimely'
  BY <1>1, <1>3 DEF SavedTimely
<1> QED BY <1>10, <1>11, <1>12 DEF IInv

------------------------------------------------------------------------------
(* The theorems.                                                            *)

LEMMA Inductive == IInv /\ [Next]_vars => IInv'
<1> SUFFICES ASSUME IInv, [Next]_vars PROVE IInv'
  OBVIOUS
<1>1. CASE Game
  <2>1. CASE \E v \in Bytes : WriteData(v)
    BY <2>1, WriteDataKeeps
  <2>2. CASE ReadData
    BY <2>2, ReadDataKeeps
  <2>3. CASE ReadOther
    BY <2>3, ReadOtherKeeps
  <2>4. CASE \E r \in Rates : WriteRate(r)
    BY <2>4, WriteRateKeeps
  <2>5. CASE \E c \in Controls, ack, reset \in BOOLEAN : WriteControl(c, ack, reset)
    BY <2>5, WriteControlKeeps
  <2> QED BY <1>1, <2>1, <2>2, <2>3, <2>4, <2>5 DEF Game
<1>2. CASE Updates
  BY <1>2, EventKeeps DEF Updates
<1>3. CASE Hook
  BY <1>3, HookKeeps DEF Hook
<1>4. CASE Tick
  BY <1>4, TickKeeps
<1>5. CASE Frame
  BY <1>5, BeginFrameKeeps, EndFrameKeeps DEF Frame
<1>6. CASE Frontend
  BY <1>6, SetInputKeeps, PowerKeeps, SaveStateKeeps, LoadStateKeeps DEF Frontend
<1>7. CASE UNCHANGED vars
  BY <1>7 DEF vars, IInv, TypeOK, Timely, SavedTimely, InLine, LineEnd
<1> QED BY <1>1, <1>2, <1>3, <1>4, <1>5, <1>6, <1>7 DEF Next

LEMMA Invariance == Spec => []IInv
<1>1. Init => IInv
  BY InitHolds
<1>2. IInv /\ [Next]_vars => IInv'
  BY Inductive
<1> QED BY <1>1, <1>2, PTL DEF Spec

\* The registers keep their types: whatever the game, the GPU and the frontend do, no counter
\* of bits leaves its byte and no delay is counted below zero (frontio.cpp:Update).
THEOREM TypeCorrect == Spec => []TypeOK
<1>1. IInv => TypeOK
  BY DEF IInv
<1> QED BY <1>1, Invariance, PTL

\* The event is never later than a bit, an acknowledge or a pulse, and a transfer in progress
\* has a clock (frontio.cpp:CalcNextEventTS and its callers).
THEOREM NothingLate == Spec => []NothingIsLate
<1>1. IInv => NothingIsLate
  <2> SUFFICES ASSUME IInv PROVE NothingIsLate
    OBVIOUS
  <2>1. /\ now \in Nat /\ due \in Nat /\ now <= due /\ io.lastts <= now /\ io \in Registers
        /\ Before(io, due) /\ Clocked(io)
    BY Constants DEF IInv, TypeOK, Timely
  <2>2. /\ io.ClockDivider \in Nat /\ io.lastts \in Nat
        /\ \A i \in Lines : io.dsr_pulse_delay[i] \in Nat
        /\ \A i \in 0..1 : io.irq10_pulse_ts[i] \in Nat
    BY <2>1 DEF Registers
  <2>3. io.ClockDivider > 0 => now <= io.lastts + io.ClockDivider
    BY <2>1, <2>2 DEF Before
  <2>4. \A i \in Lines : io.dsr_pulse_delay[i] > 0 => now <= io.lastts + io.dsr_pulse_delay[i]
    BY <2>1, <2>2 DEF Before
  <2>5. \A i \in 0..1 : now <= io.irq10_pulse_ts[i]
    BY <2>1, <2>2 DEF Before
  <2> QED BY <2>1, <2>3, <2>4, <2>5 DEF NothingIsLate, Clocked
<1> QED BY <1>1, Invariance, PTL

\* A light gun's pulse stays where it was put, however many reports, frames and states come
\* before it: no report of a line finds one of the last line pending (frontio.cpp:GPULineHook).
THEOREM ShotsDoArrive == Spec => []ShotsArrive
<1>1. IInv => ShotsArrive
  <2> SUFFICES ASSUME IInv PROVE ShotsArrive
    OBVIOUS
  <2>1. /\ now \in Nat /\ due \in Nat /\ now <= due /\ io \in Registers
        /\ Before(io, due) /\ shots = io.irq10_pulse_ts
    BY Constants DEF IInv, TypeOK, Timely
  <2>2. \A i \in 0..1 : io.irq10_pulse_ts[i] \in Nat
    BY <2>1 DEF Registers
  <2>3. \A i \in 0..1 : now <= shots[i] /\ io.irq10_pulse_ts[i] = shots[i]
    BY <2>1, <2>2 DEF Before
  <2> QED BY <2>3 DEF ShotsArrive
<1> QED BY <1>1, Invariance, PTL

------------------------------------------------------------------------------
(* What an update does to a transfer and to acknowledges.                   *)

Txd(f) == IF f.TransmitInProgress THEN f.TransmitBuffer[f.TransmitBitCounter] ELSE 0
Rxd(f) == IF \A i \in Lines : Device_Sends(f.dev[i]) = 1 THEN 1 ELSE 0
Following(b) == (b + 1) % Bits

\* What no update changes.
Untouched(f, g) ==
  /\ g.Control = f.Control /\ g.TransmitBuffer = f.TransmitBuffer
  /\ g.ReceivePending = f.ReceivePending /\ g.TransmitPending = f.TransmitPending

\* The transfer is where it was.
Resting(f, g) ==
  /\ g.TransmitInProgress = f.TransmitInProgress /\ g.ReceiveInProgress = f.ReceiveInProgress
  /\ g.TransmitBitCounter = f.TransmitBitCounter /\ g.ReceiveBitCounter = f.ReceiveBitCounter
  /\ g.ReceiveBuffer = f.ReceiveBuffer /\ g.ReceiveBufferAvail = f.ReceiveBufferAvail
  /\ g.dev = f.dev

\* One bit of it was clocked.
Clocks(f, g, reply) ==
  /\ g.TransmitInProgress <=> (f.TransmitInProgress /\ f.TransmitBitCounter # Bits - 1)
  /\ g.ReceiveInProgress <=> (f.ReceiveInProgress /\ f.ReceiveBitCounter # Bits - 1)
  /\ f.TransmitInProgress => g.TransmitBitCounter = Following(f.TransmitBitCounter)
  /\ f.ReceiveInProgress =>
       /\ g.ReceiveBitCounter = Following(f.ReceiveBitCounter)
       /\ g.ReceiveBuffer = [f.ReceiveBuffer EXCEPT ![f.ReceiveBitCounter] = Rxd(f)]
       /\ f.ReceiveBitCounter = Bits - 1 => g.ReceiveBufferAvail = TRUE
  /\ \A i \in Lines : g.dev[i] = Device_Clock(f.dev[i], Txd(f), reply[i])
  /\ \A i \in Lines : g.dsr_pulse_delay[i] = Device_Acks(f.dev[i], reply[i])

\* A delay that is over has become a pulse, and an interrupt if it is enabled.
Over(f, t) == {i \in Lines : f.dsr_pulse_delay[i] > 0 /\ f.dsr_pulse_delay[i] <= t - f.lastts}
Pulses(f, g, t) ==
  /\ \A i \in Over(f, t) : g.dsr_active_until_ts[i] = t + Pulse + f.dsr_pulse_delay[i] - (t - f.lastts)
  /\ Over(f, t) # {} /\ "dsrirq" \in f.Control => g.istatus = TRUE

LEMMA WaitingMoves ==
  ASSUME NEW f \in Registers, NEW t \in Nat
  PROVE  LET w == ShotsPulsed(Acknowledged(f, t), t)
         IN Untouched(f, w) /\ Resting(f, w) /\ Pulses(f, w, t)
<1> DEFINE a == Acknowledged(f, t)
           w == ShotsPulsed(a, t)
           clocks == t - f.lastts
           over == Over(f, t)
           delays == [i \in Lines |-> IF f.dsr_pulse_delay[i] > 0 THEN f.dsr_pulse_delay[i] - clocks
                                      ELSE f.dsr_pulse_delay[i]]
           until == [i \in Lines |-> IF i \in over THEN t + Pulse + f.dsr_pulse_delay[i] - clocks
                                     ELSE f.dsr_active_until_ts[i]]
           status == f.istatus \/ (over # {} /\ "dsrirq" \in f.Control)
           pulses == [i \in 0..1 |-> IF t >= a.irq10_pulse_ts[i] THEN MaxTS ELSE a.irq10_pulse_ts[i]]
<1>1. a = [f EXCEPT !.dsr_pulse_delay = delays, !.dsr_active_until_ts = until, !.istatus = status]
  BY DEF Acknowledged, Registers, Over
<1>2. w = [a EXCEPT !.irq10_pulse_ts = pulses]
  BY <1>1 DEF ShotsPulsed, Registers
<1>3. \A i \in over : until[i] = t + Pulse + f.dsr_pulse_delay[i] - clocks
  BY DEF Over
<1>4. status \in BOOLEAN /\ (over # {} /\ "dsrirq" \in f.Control => status)
  BY DEF Registers
<1> HIDE DEF a, w, over, delays, until, status, pulses
<1>5. w = [f EXCEPT !.dsr_pulse_delay = delays, !.dsr_active_until_ts = until, !.istatus = status,
                    !.irq10_pulse_ts = pulses]
  BY <1>1, <1>2 DEF Registers
<1>6. Untouched(f, w)
  BY <1>5 DEF Registers, Untouched
<1>7. Resting(f, w)
  BY <1>5 DEF Registers, Resting
<1>8. w.dsr_active_until_ts = until /\ w.istatus = status
  BY <1>5 DEF Registers
<1>9. Pulses(f, w, t)
  BY <1>3, <1>4, <1>8 DEF Pulses, over
<1> QED BY <1>6, <1>7, <1>9 DEF w, a

LEMMA BitMoves ==
  ASSUME NEW f \in Registers, NEW reply \in Answering
  PROVE  LET g == BitClocked(f, reply)
         IN /\ Untouched(f, g) /\ Clocks(f, g, reply)
            /\ g.dsr_active_until_ts = f.dsr_active_until_ts /\ (f.istatus = TRUE => g.istatus = TRUE)
<1> DEFINE sent == f.TransmitInProgress /\ f.TransmitBitCounter = Bits - 1
           received == f.ReceiveInProgress /\ f.ReceiveBitCounter = Bits - 1
           counterT == IF f.TransmitInProgress THEN Following(f.TransmitBitCounter) ELSE f.TransmitBitCounter
           counterR == IF f.ReceiveInProgress THEN Following(f.ReceiveBitCounter) ELSE f.ReceiveBitCounter
           tx == f.TransmitInProgress /\ ~sent
           rx == f.ReceiveInProgress /\ ~received
           devs == [i \in Lines |-> Device_Clock(f.dev[i], Txd(f), reply[i])]
           delays == [i \in Lines |-> Device_Acks(f.dev[i], reply[i])]
           buffer == IF f.ReceiveInProgress THEN [f.ReceiveBuffer EXCEPT ![f.ReceiveBitCounter] = Rxd(f)] ELSE f.ReceiveBuffer
           avail == f.ReceiveBufferAvail \/ received
           status == f.istatus \/ (sent /\ "txirq" \in f.Control) \/ (received /\ "rxirq" \in f.Control)
           clock == f.ClockDivider + f.rate
           h == [f EXCEPT !.TransmitBitCounter = counterT, !.TransmitInProgress = tx, !.dev = devs,
                          !.dsr_pulse_delay = delays, !.ReceiveBuffer = buffer]
           g == BitClocked(f, reply)
<1>1. g = WithReceived(h, counterR, rx, avail, status, clock)
  BY DEF BitClocked, Registers, WithReceived, Txd, Rxd, Following
<1>2. /\ tx \in BOOLEAN /\ rx \in BOOLEAN /\ avail \in BOOLEAN /\ status \in BOOLEAN
      /\ (f.istatus = TRUE => status = TRUE) /\ (received => avail = TRUE)
      /\ tx <=> (f.TransmitInProgress /\ f.TransmitBitCounter # Bits - 1)
      /\ rx <=> (f.ReceiveInProgress /\ f.ReceiveBitCounter # Bits - 1)
  BY DEF Registers
<1>3. /\ f.TransmitInProgress => counterT = Following(f.TransmitBitCounter)
      /\ f.ReceiveInProgress => counterR = Following(f.ReceiveBitCounter)
      /\ f.ReceiveInProgress => buffer = [f.ReceiveBuffer EXCEPT ![f.ReceiveBitCounter] = Rxd(f)]
      /\ f.ReceiveInProgress /\ f.ReceiveBitCounter = Bits - 1 => received
      /\ \A i \in Lines : devs[i] = Device_Clock(f.dev[i], Txd(f), reply[i])
      /\ \A i \in Lines : delays[i] = Device_Acks(f.dev[i], reply[i])
  OBVIOUS
<1> HIDE DEF sent, received, tx, rx, devs, delays, buffer, avail, status, clock, counterT, counterR, g
<1>4. /\ h.TransmitBitCounter = counterT /\ h.TransmitInProgress = tx /\ h.dev = devs
      /\ h.dsr_pulse_delay = delays /\ h.ReceiveBuffer = buffer /\ Untouched(f, h)
      /\ h.dsr_active_until_ts = f.dsr_active_until_ts
      /\ DOMAIN h = DOMAIN f
  BY DEF Registers, Untouched
<1> HIDE DEF h
<1>5. /\ g.ReceiveBitCounter = counterR /\ g.ReceiveInProgress = rx /\ g.ReceiveBufferAvail = avail
      /\ g.istatus = status /\ Untouched(h, g)
      /\ g.TransmitBitCounter = h.TransmitBitCounter /\ g.TransmitInProgress = h.TransmitInProgress
      /\ g.dev = h.dev /\ g.dsr_pulse_delay = h.dsr_pulse_delay /\ g.ReceiveBuffer = h.ReceiveBuffer
      /\ g.dsr_active_until_ts = h.dsr_active_until_ts
  BY <1>1, <1>4 DEF Registers, WithReceived, Untouched
<1>6. Untouched(f, g)
  BY <1>4, <1>5 DEF Untouched
<1>7. Clocks(f, g, reply)
  <2>1. /\ g.TransmitBitCounter = counterT /\ g.TransmitInProgress = tx /\ g.dev = devs
        /\ g.dsr_pulse_delay = delays /\ g.ReceiveBuffer = buffer
    BY <1>4, <1>5, Zenon
  <2> QED BY <1>2, <1>3, <1>5, <2>1 DEF Clocks
<1> QED BY <1>2, <1>4, <1>5, <1>6, <1>7 DEF g

\* Transfers that the game began or ended are as it left them.
Triggered(f) == (f.ReceivePending /\ "rx" \in f.Control) \/ (f.TransmitPending /\ "tx" \in f.Control)
Settled(f) == ~Triggered(f) /\ (Busy(f) => f.Control \cap {"tx", "rx"} # {})

\* A transfer that begins does so with its first bit.
Fresh(f) == /\ f.TransmitInProgress => f.TransmitBitCounter = 0
            /\ f.ReceiveInProgress => f.ReceiveBitCounter = 0

Kept(f, g) ==
  /\ g.Control = f.Control /\ g.TransmitBuffer = f.TransmitBuffer /\ g.dev = f.dev
  /\ g.dsr_pulse_delay = f.dsr_pulse_delay /\ g.dsr_active_until_ts = f.dsr_active_until_ts
  /\ g.istatus = f.istatus /\ g.lastts = f.lastts

LEMMA CheckMoves ==
  ASSUME NEW f \in Registers
  PROVE  LET g == CheckStartStopPending(f)
         IN /\ Kept(f, g) /\ Settled(g)
            /\ ~Busy(f) => Fresh(g)
            /\ Settled(f) => Untouched(f, g) /\ Resting(f, g)
<1> DEFINE g == CheckStartStopPending(f)
           trigger == Triggered(f)
           receive == trigger /\ f.ReceivePending
           transmit == trigger /\ f.TransmitPending
           enabled == f.Control \cap {"tx", "rx"} # {}
           rx == enabled /\ (receive \/ f.ReceiveInProgress)
           tx == enabled /\ (transmit \/ f.TransmitInProgress)
           clock == IF ~rx /\ ~tx THEN 0 ELSE IF trigger THEN f.rate ELSE f.ClockDivider
           wantsR == f.ReceivePending /\ ~receive
           wantsT == f.TransmitPending /\ ~transmit
           avail == f.ReceiveBufferAvail /\ ~receive
           buffer == IF receive THEN [b \in 0..(Bits - 1) |-> 0] ELSE f.ReceiveBuffer
           counterR == IF receive THEN 0 ELSE f.ReceiveBitCounter
           counterT == IF transmit THEN 0 ELSE f.TransmitBitCounter
<1>1. g = [f EXCEPT !.ReceivePending = wantsR, !.TransmitPending = wantsT,
               !.ReceiveBufferAvail = avail, !.ReceiveBuffer = buffer,
               !.ReceiveBitCounter = counterR, !.TransmitBitCounter = counterT,
               !.ReceiveInProgress = rx, !.TransmitInProgress = tx,
               !.ClockDivider = clock]
  BY DEF CheckStartStopPending, Registers, Triggered
<1>2. /\ f.ReceivePending \in BOOLEAN /\ f.TransmitPending \in BOOLEAN /\ f.ReceiveBufferAvail \in BOOLEAN
      /\ f.ReceiveInProgress \in BOOLEAN /\ f.TransmitInProgress \in BOOLEAN
  BY DEF Registers
<1>3. /\ ~((wantsR /\ "rx" \in f.Control) \/ (wantsT /\ "tx" \in f.Control))
      /\ rx \/ tx => f.Control \cap {"tx", "rx"} # {}
  BY DEF Triggered
<1>4. ~Busy(f) => (tx => counterT = 0) /\ (rx => counterR = 0)
  BY DEF Busy
<1>5. Settled(f) => /\ wantsR = f.ReceivePending /\ wantsT = f.TransmitPending
                    /\ avail = f.ReceiveBufferAvail /\ buffer = f.ReceiveBuffer
                    /\ counterR = f.ReceiveBitCounter /\ counterT = f.TransmitBitCounter
                    /\ rx = f.ReceiveInProgress /\ tx = f.TransmitInProgress
  BY <1>2 DEF Settled, Busy
<1> HIDE DEF g, rx, tx, clock, wantsR, wantsT, avail, buffer, counterR, counterT
<1>6. Kept(f, g)
  BY <1>1 DEF Registers, Kept
<1>7. /\ g.ReceivePending = wantsR /\ g.TransmitPending = wantsT
      /\ g.ReceiveBufferAvail = avail /\ g.ReceiveBuffer = buffer
      /\ g.ReceiveBitCounter = counterR /\ g.TransmitBitCounter = counterT
      /\ g.ReceiveInProgress = rx /\ g.TransmitInProgress = tx
  BY <1>1 DEF Registers
<1>8. Settled(g)
  BY <1>3, <1>6, <1>7 DEF Settled, Triggered, Busy, Kept
<1>9. ~Busy(f) => Fresh(g)
  BY <1>4, <1>7 DEF Fresh
<1>10. Settled(f) => Untouched(f, g) /\ Resting(f, g)
  BY <1>5, <1>6, <1>7 DEF Kept, Untouched, Resting
<1> QED BY <1>6, <1>8, <1>9, <1>10 DEF g

\* An update counts down, or clocks one bit and counts down; it settles what it ends.
Moved(f, u, t, reply) ==
  /\ Untouched(f, u) /\ Settled(u) /\ u.lastts = t /\ Pulses(f, u, t)
  /\ BitIsDue(f, t) => Clocks(f, u, reply)
  /\ ~BitIsDue(f, t) =>
       /\ Resting(f, u)
       /\ \A i \in Lines : u.dsr_pulse_delay[i] = IF f.dsr_pulse_delay[i] > 0 THEN f.dsr_pulse_delay[i] - (t - f.lastts) ELSE 0

LEMMA UpdateMoves ==
  ASSUME NEW f, Sound(f), Settled(f), NEW t \in Nat, f.lastts <= t, Before(f, t), NEW reply \in Answering
  PROVE  Moved(f, Update(f, t, reply), t, reply)
<1> DEFINE w == ShotsPulsed(Acknowledged(f, t), t)
           left == IF w.ClockDivider > 0 THEN w.ClockDivider - (t - f.lastts) ELSE w.ClockDivider
           p == [w EXCEPT !.ClockDivider = left]
           b == IF BitIsDue(f, t) THEN BitClocked(p, reply) ELSE p
           ended == (f.TransmitInProgress /\ ~b.TransmitInProgress) \/ (f.ReceiveInProgress /\ ~b.ReceiveInProgress)
           u == [b EXCEPT !.lastts = t]
<1>1. f \in Registers /\ Clocked(f) /\ f.ClockDivider \in Nat /\ f.lastts \in Nat
  BY DEF Sound, Registers
<1>2. Waited(f, w, t)
  BY <1>1, DelaysPass
<1>3. w \in Registers /\ w.ClockDivider = f.ClockDivider /\ left \in Nat
  BY <1>1, <1>2 DEF Waited, Before
<1>4. Update(f, t, reply) = IF ended THEN CheckStartStopPending(u) ELSE u
  BY <1>3 DEF Update, Registers
<1>5. Untouched(f, w) /\ Resting(f, w) /\ Pulses(f, w, t)
  BY <1>1, WaitingMoves
<1> HIDE DEF w, left
<1>6. /\ p \in Registers /\ Untouched(w, p) /\ Resting(w, p) /\ p.dsr_pulse_delay = w.dsr_pulse_delay
      /\ p.dsr_active_until_ts = w.dsr_active_until_ts /\ p.istatus = w.istatus
  BY <1>3 DEF Registers, Untouched, Resting
<1> HIDE DEF p
<1>7. Untouched(f, p) /\ Resting(f, p) /\ Pulses(f, p, t)
  <2>1. Untouched(f, p)
    BY <1>5, <1>6 DEF Untouched
  <2>2. Resting(f, p)
    BY <1>5, <1>6 DEF Resting
  <2>3. Pulses(f, p, t)
    BY <1>5, <1>6 DEF Pulses
  <2> QED BY <2>1, <2>2, <2>3
<1>8. b \in Registers /\ Untouched(f, b) /\ Pulses(f, b, t)
  <2>1. CASE BitIsDue(f, t)
    <3>1. b = BitClocked(p, reply)
      BY <2>1
    <3> HIDE DEF b
    <3>2. /\ b \in Registers /\ Untouched(p, b) /\ b.dsr_active_until_ts = p.dsr_active_until_ts
          /\ (p.istatus = TRUE => b.istatus = TRUE)
      BY <1>6, <3>1, BitKeeps, BitMoves
    <3>3. Untouched(f, b)
      BY <1>7, <3>2 DEF Untouched
    <3>4. Pulses(f, b, t)
      BY <1>7, <3>2 DEF Pulses
    <3> QED BY <3>2, <3>3, <3>4
  <2>2. CASE ~BitIsDue(f, t)
    BY <1>6, <1>7, <2>2
  <2> QED BY <2>1, <2>2
<1>9. BitIsDue(f, t) => Clocks(f, b, reply)
  <2>1. SUFFICES ASSUME BitIsDue(f, t) PROVE Clocks(f, b, reply)
    OBVIOUS
  <2>2. b = BitClocked(p, reply)
    BY <2>1
  <2> HIDE DEF b
  <2>3. Clocks(p, b, reply)
    BY <1>6, <2>2, BitMoves
  <2>4. Txd(p) = Txd(f) /\ Rxd(p) = Rxd(f)
    BY <1>7 DEF Txd, Rxd, Untouched, Resting
  <2>5. /\ p.TransmitInProgress = f.TransmitInProgress /\ p.ReceiveInProgress = f.ReceiveInProgress
        /\ p.TransmitBitCounter = f.TransmitBitCounter /\ p.ReceiveBitCounter = f.ReceiveBitCounter
        /\ p.ReceiveBuffer = f.ReceiveBuffer /\ p.dev = f.dev
    BY <1>7 DEF Resting
  <2> QED BY <2>3, <2>4, <2>5 DEF Clocks
<1>10. ~BitIsDue(f, t) => Resting(f, b) /\ b.dsr_pulse_delay = w.dsr_pulse_delay
  BY <1>6, <1>7
<1>11. Settled(b)
  <2>1. Busy(b) => Busy(f)
    <3>1. CASE BitIsDue(f, t)
      BY <1>9, <3>1 DEF Clocks, Busy
    <3>2. CASE ~BitIsDue(f, t)
      BY <1>10, <3>2 DEF Resting, Busy
    <3> QED BY <3>1, <3>2
  <2> HIDE DEF b
  <2> QED BY <1>8, <2>1 DEF Settled, Triggered, Untouched
<1> HIDE DEF b, ended
<1>12. /\ u \in Registers /\ u.lastts = t /\ Untouched(b, u) /\ Resting(b, u)
       /\ u.dsr_pulse_delay = b.dsr_pulse_delay
       /\ u.dsr_active_until_ts = b.dsr_active_until_ts /\ u.istatus = b.istatus
  BY <1>8 DEF Registers, Untouched, Resting
<1>13. Settled(u)
  BY <1>11, <1>12 DEF Settled, Triggered, Busy, Untouched, Resting
<1> HIDE DEF u
<1> DEFINE g == Update(f, t, reply)
<1>14. /\ g.lastts = t /\ Untouched(u, g) /\ Resting(u, g) /\ Settled(g)
       /\ g.dsr_pulse_delay = u.dsr_pulse_delay
       /\ g.dsr_active_until_ts = u.dsr_active_until_ts /\ g.istatus = u.istatus
  <2>1. CASE ended
    <3>1. g = CheckStartStopPending(u)
      BY <1>4, <2>1
    <3> HIDE DEF g
    <3>2. Kept(u, g) /\ Settled(g) /\ Untouched(u, g) /\ Resting(u, g)
      BY <1>12, <1>13, <3>1, CheckMoves
    <3> QED BY <1>12, <3>2 DEF Kept
  <2>2. CASE ~ended
    <3>1. g = u
      BY <1>4, <2>2
    <3> HIDE DEF g
    <3> QED BY <1>12, <1>13, <3>1 DEF Untouched, Resting
  <2> QED BY <2>1, <2>2
<1> HIDE DEF g
<1>15. Untouched(f, g)
  BY <1>8, <1>12, <1>14 DEF Untouched
<1>16. Pulses(f, g, t)
  BY <1>8, <1>12, <1>14 DEF Pulses
<1>17. Resting(b, g) /\ g.dsr_pulse_delay = b.dsr_pulse_delay
  BY <1>12, <1>14 DEF Resting
<1>18. BitIsDue(f, t) => Clocks(f, g, reply)
  BY <1>9, <1>17 DEF Clocks, Resting
<1>19. ~BitIsDue(f, t) =>
         /\ Resting(f, g)
         /\ \A i \in Lines : g.dsr_pulse_delay[i] = IF f.dsr_pulse_delay[i] > 0 THEN f.dsr_pulse_delay[i] - (t - f.lastts) ELSE 0
  <2>1. SUFFICES ASSUME ~BitIsDue(f, t)
                 PROVE  /\ Resting(f, g)
                        /\ \A i \in Lines : g.dsr_pulse_delay[i] = IF f.dsr_pulse_delay[i] > 0 THEN f.dsr_pulse_delay[i] - (t - f.lastts) ELSE 0
    OBVIOUS
  <2>2. Resting(f, g)
    BY <1>10, <1>17, <2>1 DEF Resting
  <2>3. g.dsr_pulse_delay = w.dsr_pulse_delay
    BY <1>10, <1>17, <2>1
  <2> QED BY <1>2, <2>2, <2>3 DEF Waited
<1>20. Moved(f, g, t, reply)
  BY <1>14, <1>15, <1>16, <1>18, <1>19 DEF Moved
<1> QED BY <1>20 DEF g

------------------------------------------------------------------------------
(* A transfer in step with the devices.                                     *)

\* The bit of the byte at which everyone is.
At(f) == IF f.TransmitInProgress THEN f.TransmitBitCounter
         ELSE IF f.ReceiveInProgress THEN f.ReceiveBitCounter ELSE 0

Heard(f, n) == \A i \in Lines : f.dev[i].dtr => \A b \in 0..(Bits - 1) : b < n => f.dev[i].heard[b] = f.TransmitBuffer[b]
Said(f, b) == \A i \in Lines : f.dev[i].dtr => f.dev[i].says[b] = 1
Received(f, n) == \A b \in 0..(Bits - 1) : b < n => (f.ReceiveBuffer[b] = 1 <=> Said(f, b))

\* The devices listen that the game selected, and are where the controller is; so is what the
\* two exchanged so far.
InStep(f) ==
  /\ \A i \in Lines : f.dev[i].dtr <=> Selected(f.Control, i)
  /\ \A i \in Lines : f.dev[i].dtr => f.dev[i].pos = At(f)
  /\ f.TransmitInProgress => Heard(f, At(f))
  /\ f.TransmitInProgress /\ f.ReceiveInProgress => f.ReceiveBitCounter = At(f) /\ Received(f, At(f))

LEMMA FollowingIs ==
  /\ Bits - 1 \in 0..(Bits - 1)
  /\ \A b \in 0..(Bits - 1) : Following(b) = IF b = Bits - 1 THEN 0 ELSE b + 1
<1>1. Bits \in Nat /\ Bits > 0
  BY Constants
<1> QED BY <1>1 DEF Following

Hears(d, e, bit) ==
  /\ e.dtr = d.dtr
  /\ d.dtr => /\ e.pos = Following(d.pos) /\ e.heard = [d.heard EXCEPT ![d.pos] = bit]
              /\ d.pos # Bits - 1 => e.says = d.says

LEMMA ClockIs ==
  ASSUME NEW d \in Device, NEW bit, NEW r PROVE Hears(d, Device_Clock(d, bit, r), bit)
<1> DEFINE said == IF LastBit(d) THEN r.says ELSE d.says
           heard == [d.heard EXCEPT ![d.pos] = bit]
           e == Device_Clock(d, bit, r)
<1>1. CASE d.dtr
  <2>1. e = [d EXCEPT !.pos = Following(d.pos), !.heard = heard, !.says = said]
    BY <1>1 DEF Device_Clock, Device, Following
  <2>2. d.pos # Bits - 1 => said = d.says
    BY DEF LastBit
  <2> HIDE DEF said, heard, e
  <2>3. e.dtr = d.dtr /\ e.pos = Following(d.pos) /\ e.heard = heard /\ e.says = said
    BY <2>1 DEF Device
  <2> QED BY <2>2, <2>3 DEF Hears, heard, e
<1>2. CASE ~d.dtr
  BY <1>2 DEF Device_Clock, Hears
<1> QED BY <1>1, <1>2

\* Where everyone is, is a bit of the byte, and a byte that was heard is known in full.
LEMMA AtIs ==
  ASSUME NEW f \in Registers
  PROVE  /\ At(f) \in 0..(Bits - 1)
         /\ f.dev \in [Lines -> Device] /\ f.TransmitBuffer \in Byte /\ f.ReceiveBuffer \in Byte
         /\ f.TransmitBitCounter \in 0..(Bits - 1) /\ f.ReceiveBitCounter \in 0..(Bits - 1)
         /\ \A i \in Lines : f.dev[i].heard \in Byte /\ f.dev[i].pos \in 0..(Bits - 1)
<1>1. 0 \in 0..(Bits - 1)
  BY ByteTypes
<1>2. /\ f.dev \in [Lines -> Device] /\ f.TransmitBuffer \in Byte /\ f.ReceiveBuffer \in Byte
      /\ f.TransmitBitCounter \in 0..(Bits - 1) /\ f.ReceiveBitCounter \in 0..(Bits - 1)
  BY DEF Registers
<1>3. \A i \in Lines : f.dev[i].heard \in Byte /\ f.dev[i].pos \in 0..(Bits - 1)
  BY <1>2 DEF Device
<1> QED BY <1>1, <1>2, <1>3 DEF At

\* After a bit one more has been heard and received; after the last, all of them.
LEMMA OneBitMore ==
  ASSUME NEW f \in Registers, InStep(f), Busy(f), NEW u, NEW reply, Clocks(f, u, reply), Untouched(f, u)
  PROVE  /\ \A i \in Lines : u.dev[i].dtr = f.dev[i].dtr
         /\ \A i \in Lines : f.dev[i].dtr => /\ u.dev[i].pos = Following(At(f))
                                             /\ At(f) # Bits - 1 => u.dev[i].says = f.dev[i].says
         /\ f.TransmitInProgress => \A i \in Lines : f.dev[i].dtr =>
              \A b \in 0..(Bits - 1) : b <= At(f) => u.dev[i].heard[b] = f.TransmitBuffer[b]
         /\ f.TransmitInProgress /\ f.ReceiveInProgress =>
              \A b \in 0..(Bits - 1) : b <= At(f) => (u.ReceiveBuffer[b] = 1 <=> Said(f, b))
<1> DEFINE k == At(f)
<1>1. k \in 0..(Bits - 1) /\ f.dev \in [Lines -> Device] /\ f.ReceiveBuffer \in Byte
      /\ \A i \in Lines : f.dev[i].heard \in Byte
  BY AtIs
<1>2. \A i \in Lines : f.dev[i].dtr => f.dev[i].pos = k
  BY DEF InStep
<1>3. \A i \in Lines : u.dev[i] = Device_Clock(f.dev[i], Txd(f), reply[i])
  BY DEF Clocks
<1>4. f.TransmitInProgress => Txd(f) = f.TransmitBuffer[k]
  BY DEF Txd, At
<1>5. \A i \in Lines : /\ u.dev[i].dtr = f.dev[i].dtr
                       /\ f.dev[i].dtr => /\ u.dev[i].pos = Following(k)
                                          /\ u.dev[i].heard = [f.dev[i].heard EXCEPT ![k] = Txd(f)]
                                          /\ k # Bits - 1 => u.dev[i].says = f.dev[i].says
  <2>1. SUFFICES ASSUME NEW i \in Lines
                 PROVE  /\ u.dev[i].dtr = f.dev[i].dtr
                        /\ f.dev[i].dtr => /\ u.dev[i].pos = Following(k)
                                           /\ u.dev[i].heard = [f.dev[i].heard EXCEPT ![k] = Txd(f)]
                                           /\ k # Bits - 1 => u.dev[i].says = f.dev[i].says
    OBVIOUS
  <2>2. f.dev[i] \in Device /\ u.dev[i] = Device_Clock(f.dev[i], Txd(f), reply[i])
    BY <1>1, <1>3
  <2> HIDE DEF k
  <2>3. Hears(f.dev[i], u.dev[i], Txd(f))
    <3>1. Hears(f.dev[i], Device_Clock(f.dev[i], Txd(f), reply[i]), Txd(f))
      BY <2>2, ClockIs
    <3> QED BY <2>2, <3>1, Zenon
  <2> QED BY <1>2, <2>3 DEF Hears
<1>6. f.TransmitInProgress => \A i \in Lines : f.dev[i].dtr =>
        \A b \in 0..(Bits - 1) : b <= k => u.dev[i].heard[b] = f.TransmitBuffer[b]
  <2>1. SUFFICES ASSUME f.TransmitInProgress, NEW i \in Lines, f.dev[i].dtr, NEW b \in 0..(Bits - 1), b <= k
                 PROVE  u.dev[i].heard[b] = f.TransmitBuffer[b]
    OBVIOUS
  <2>2. u.dev[i].heard = [f.dev[i].heard EXCEPT ![k] = f.TransmitBuffer[k]]
    BY <1>4, <1>5, <2>1
  <2>3. Heard(f, k)
    BY <2>1 DEF InStep
  <2> HIDE DEF k
  <2>4. b < k => f.dev[i].heard[b] = f.TransmitBuffer[b]
    BY <2>1, <2>3 DEF Heard
  <2>5. f.dev[i].heard \in [0..(Bits - 1) -> {0, 1}]
    BY <1>1 DEF Byte
  <2>6. b = k \/ b < k
    BY <1>1, <2>1
  <2> QED BY <1>1, <2>2, <2>4, <2>5, <2>6
<1>7. f.TransmitInProgress /\ f.ReceiveInProgress =>
        \A b \in 0..(Bits - 1) : b <= k => (u.ReceiveBuffer[b] = 1 <=> Said(f, b))
  <2>1. SUFFICES ASSUME f.TransmitInProgress, f.ReceiveInProgress, NEW b \in 0..(Bits - 1), b <= k
                 PROVE  u.ReceiveBuffer[b] = 1 <=> Said(f, b)
    OBVIOUS
  <2>2. f.ReceiveBitCounter = k /\ Received(f, k)
    BY <2>1 DEF InStep
  <2>3. u.ReceiveBuffer = [f.ReceiveBuffer EXCEPT ![k] = Rxd(f)]
    BY <2>1, <2>2 DEF Clocks
  <2>4. Rxd(f) = 1 <=> Said(f, k)
    BY <1>2 DEF Rxd, Said, Device_Sends
  <2> HIDE DEF k
  <2>5. b < k => (f.ReceiveBuffer[b] = 1 <=> Said(f, b))
    BY <2>1, <2>2 DEF Received
  <2>6. f.ReceiveBuffer \in [0..(Bits - 1) -> {0, 1}]
    BY <1>1 DEF Byte
  <2>7. b = k \/ b < k
    BY <1>1, <2>1
  <2> QED BY <1>1, <2>3, <2>4, <2>5, <2>6, <2>7
<1> QED BY <1>5, <1>6, <1>7

\* The counters of both directions run out together.
LEMMA CountersMove ==
  ASSUME NEW f \in Registers, InStep(f), Busy(f), NEW u, NEW reply, Clocks(f, u, reply)
  PROVE  /\ At(u) = Following(At(f))
         /\ At(f) = Bits - 1 => ~Busy(u)
         /\ u.TransmitInProgress => f.TransmitInProgress
         /\ u.ReceiveInProgress => f.ReceiveInProgress
         /\ f.TransmitInProgress /\ ~u.TransmitInProgress => At(f) = Bits - 1
         /\ u.TransmitInProgress /\ u.ReceiveInProgress => u.ReceiveBitCounter = At(u)
<1>1. f.TransmitInProgress /\ f.ReceiveInProgress => f.ReceiveBitCounter = At(f)
  BY DEF InStep
<1>2. /\ u.TransmitInProgress <=> (f.TransmitInProgress /\ f.TransmitBitCounter # Bits - 1)
      /\ u.ReceiveInProgress <=> (f.ReceiveInProgress /\ f.ReceiveBitCounter # Bits - 1)
      /\ f.TransmitInProgress => u.TransmitBitCounter = Following(f.TransmitBitCounter)
      /\ f.ReceiveInProgress => u.ReceiveBitCounter = Following(f.ReceiveBitCounter)
  BY DEF Clocks
<1>3. At(f) = Bits - 1 => Following(At(f)) = 0
  BY FollowingIs
<1>4. CASE f.TransmitInProgress
  <2>1. At(f) = f.TransmitBitCounter
    BY <1>4 DEF At
  <2>2. u.ReceiveInProgress => u.TransmitInProgress
    BY <1>1, <1>2, <1>4, <2>1
  <2>3. u.TransmitInProgress => At(u) = Following(At(f))
    BY <1>2, <1>4, <2>1 DEF At
  <2>4. ~u.TransmitInProgress => At(u) = 0 /\ At(f) = Bits - 1
    BY <1>2, <1>4, <2>1, <2>2 DEF At
  <2> QED BY <1>1, <1>2, <1>3, <1>4, <2>1, <2>2, <2>3, <2>4 DEF Busy
<1>5. CASE ~f.TransmitInProgress
  <2>1. f.ReceiveInProgress /\ At(f) = f.ReceiveBitCounter /\ ~u.TransmitInProgress
    BY <1>2, <1>5 DEF At, Busy
  <2>2. u.ReceiveInProgress => At(u) = Following(At(f))
    BY <1>2, <2>1 DEF At
  <2>3. ~u.ReceiveInProgress => At(u) = 0 /\ At(f) = Bits - 1
    BY <1>2, <2>1 DEF At
  <2> QED BY <1>2, <1>3, <1>5, <2>1, <2>2, <2>3 DEF Busy
<1> QED BY <1>4, <1>5

LEMMA UpdateInStep ==
  ASSUME NEW f \in Registers, InStep(f), NEW t, NEW u, NEW reply, Moved(f, u, t, reply)
  PROVE  InStep(u)
<1>1. Untouched(f, u)
  BY DEF Moved
<1>2. CASE ~BitIsDue(f, t)
  <2>1. Resting(f, u)
    BY <1>2 DEF Moved
  <2>2. At(u) = At(f)
    BY <2>1 DEF Resting, At
  <2>3. u.dev = f.dev /\ u.Control = f.Control /\ u.TransmitBuffer = f.TransmitBuffer /\ u.ReceiveBuffer = f.ReceiveBuffer
        /\ u.TransmitInProgress = f.TransmitInProgress /\ u.ReceiveInProgress = f.ReceiveInProgress
        /\ u.ReceiveBitCounter = f.ReceiveBitCounter
    BY <1>1, <2>1 DEF Resting, Untouched
  <2> QED BY <2>2, <2>3 DEF InStep, Heard, Received, Said
<1>3. CASE BitIsDue(f, t)
  <2>1. Busy(f) /\ Clocks(f, u, reply)
    BY <1>3 DEF Moved, BitIsDue
  <2>2. /\ At(u) = Following(At(f))
        /\ At(f) = Bits - 1 => ~Busy(u)
        /\ u.TransmitInProgress => f.TransmitInProgress
        /\ u.ReceiveInProgress => f.ReceiveInProgress
        /\ u.TransmitInProgress /\ u.ReceiveInProgress => u.ReceiveBitCounter = At(u)
    BY <2>1, CountersMove
  <2>3. /\ \A i \in Lines : u.dev[i].dtr = f.dev[i].dtr
        /\ \A i \in Lines : f.dev[i].dtr => /\ u.dev[i].pos = Following(At(f))
                                            /\ At(f) # Bits - 1 => u.dev[i].says = f.dev[i].says
        /\ f.TransmitInProgress => \A i \in Lines : f.dev[i].dtr =>
             \A b \in 0..(Bits - 1) : b <= At(f) => u.dev[i].heard[b] = f.TransmitBuffer[b]
        /\ f.TransmitInProgress /\ f.ReceiveInProgress =>
             \A b \in 0..(Bits - 1) : b <= At(f) => (u.ReceiveBuffer[b] = 1 <=> Said(f, b))
    BY <1>1, <2>1, OneBitMore
  <2>4. u.Control = f.Control /\ u.TransmitBuffer = f.TransmitBuffer
    BY <1>1 DEF Untouched
  <2>5. Busy(u) => At(u) = At(f) + 1 /\ At(f) # Bits - 1
    BY <2>2, AtIs, FollowingIs
  <2>6. \A i \in Lines : u.dev[i].dtr <=> Selected(u.Control, i)
    BY <2>3, <2>4 DEF InStep
  <2>7. \A i \in Lines : u.dev[i].dtr => u.dev[i].pos = At(u)
    BY <2>2, <2>3
  <2>8. \A b \in 0..(Bits - 1) : b < At(f) + 1 => b <= At(f)
    BY AtIs
  <2>9. u.TransmitInProgress => Heard(u, At(u))
    BY <2>2, <2>3, <2>4, <2>5, <2>8 DEF Heard, Busy
  <2>10. u.TransmitInProgress /\ u.ReceiveInProgress => Received(u, At(u))
    <3>1. SUFFICES ASSUME u.TransmitInProgress, u.ReceiveInProgress PROVE Received(u, At(u))
      OBVIOUS
    <3>2. \A b \in 0..(Bits - 1) : Said(u, b) <=> Said(f, b)
      BY <2>3, <2>5, <3>1 DEF Said, Busy
    <3> QED BY <2>2, <2>3, <2>5, <2>8, <3>1, <3>2 DEF Received, Busy
  <2> QED BY <2>2, <2>6, <2>7, <2>9, <2>10 DEF InStep
<1> QED BY <1>2, <1>3

------------------------------------------------------------------------------
(* The invariant of transfers and acknowledges.                             *)

Whole(f, d) == Settled(f) /\ (~d => InStep(f))

\* An acknowledge that is to come is one that is counted down to.
Acked(f, a) ==
  \A i \in Lines : /\ a[i] <= MaxTS
                   /\ a[i] # MaxTS => f.dsr_pulse_delay[i] > 0 /\ a[i] = f.lastts + f.dsr_pulse_delay[i]

SavedWhole == \A s \in saved : s.io.lastts = 0 /\ Whole(s.io, s.disturbed) /\ Acked(s.io, s.acks)

StepInv == IInv /\ Whole(io, disturbed) /\ Acked(io, acks) /\ SavedWhole

\* The transfer of a game that leaves it alone is over.
Finishes ==
  /\ pc = "run" /\ io.TransmitInProgress /\ ~io'.TransmitInProgress
  /\ ~disturbed /\ ~disturbed' /\ io'.Control = io.Control

Exchange ==
  Finishes =>
    /\ \A i \in Lines : Selected(io.Control, i) => /\ io'.dev[i].heard = io.TransmitBuffer
                                                   /\ io'.dev[i].pos = 0
    /\ io.ReceiveInProgress =>
         /\ io'.ReceiveBufferAvail
         /\ \A b \in 0..(Bits - 1) :
              io'.ReceiveBuffer[b] = 1 <=> \A i \in Lines : io.dev[i].dtr => io.dev[i].says[b] = 1

Acknowledge ==
  \A i \in Lines : pc = "run" /\ acks[i] # MaxTS /\ (acks'[i] = MaxTS \/ (BitIsDue(io, now) /\ io' # io)) =>
    IF acks[i] = now
    THEN (io'.dsr_active_until_ts[i] - now' = Pulse /\ ("dsrirq" \in io.Control => io'.istatus))
         \/ ~Selected(io'.Control, i)
    ELSE now < acks[i] /\ (BitIsDue(io, now) \/ ~Selected(io'.Control, i))

\* A step that keeps what is true of transfers and acknowledges, and the promises about them.
Faithful == Whole(io', disturbed') /\ Acked(io', acks') /\ Exchange /\ Acknowledge

\* The acknowledges of f are to come at the same times in g.
Ahead(f, g) ==
  \A i \in Lines : f.dsr_pulse_delay[i] > 0 =>
    g.dsr_pulse_delay[i] > 0 /\ g.lastts + g.dsr_pulse_delay[i] = f.lastts + f.dsr_pulse_delay[i]

LEMMA AckedAhead ==
  ASSUME NEW f, NEW g, NEW a, Acked(f, a), Ahead(f, g) PROVE Acked(g, a)
  BY DEF Acked, Ahead

\* A transfer that begins, begins in step with devices that wait for a byte.
LEMMA FreshInStep ==
  ASSUME NEW h \in Registers, ~Busy(h), InStep(h), NEW g, Kept(h, g), Fresh(g) PROVE InStep(g)
<1>1. At(h) = 0
  BY DEF At, Busy
<1>2. At(g) = 0
  BY DEF At, Fresh
<1>3. g.dev = h.dev /\ g.Control = h.Control
  BY DEF Kept
<1>4. \A n \in 0..(Bits - 1) : ~(n < 0)
  BY Constants
<1>5. Heard(g, 0) /\ Received(g, 0)
  BY <1>4 DEF Heard, Received
<1> QED BY <1>1, <1>2, <1>3, <1>5 DEF InStep, Fresh

LEMMA RestingInStep ==
  ASSUME NEW f, NEW u, Untouched(f, u), Resting(f, u) PROVE InStep(f) => InStep(u)
<1>1. At(u) = At(f)
  BY DEF Resting, At
<1>2. u.dev = f.dev /\ u.Control = f.Control /\ u.TransmitBuffer = f.TransmitBuffer /\ u.ReceiveBuffer = f.ReceiveBuffer
      /\ u.TransmitInProgress = f.TransmitInProgress /\ u.ReceiveInProgress = f.ReceiveInProgress
      /\ u.ReceiveBitCounter = f.ReceiveBitCounter
  BY DEF Resting, Untouched
<1> QED BY <1>1, <1>2 DEF InStep, Heard, Received, Said

\* The end of an access keeps a transfer that it found, and begins one in step.
LEMMA CheckedWhole ==
  ASSUME NEW h \in Registers, NEW d \in BOOLEAN, d \/ (InStep(h) /\ (~Busy(h) \/ Settled(h)))
  PROVE  Whole(CheckStartStopPending(h), d)
<1> DEFINE g == CheckStartStopPending(h)
<1>1. Kept(h, g) /\ Settled(g) /\ (~Busy(h) => Fresh(g)) /\ (Settled(h) => Untouched(h, g) /\ Resting(h, g))
  BY CheckMoves
<1> HIDE DEF g
<1>2. ~d => InStep(g)
  <2>1. CASE ~Busy(h)
    BY <1>1, <2>1, FreshInStep
  <2>2. CASE Settled(h)
    BY <1>1, <2>2, RestingInStep
  <2> QED BY <2>1, <2>2
<1>3. Whole(g, d)
  BY <1>1, <1>2 DEF Whole
<1> QED BY <1>3 DEF g

LEMMA CPUMoves ==
  ASSUME IInv, Whole(io, disturbed), CPURuns
  PROVE  LET f == Update(io, now, Silence)
         IN /\ ~BitIsDue(io, now) /\ f \in Registers /\ f.lastts = now
            /\ Untouched(io, f) /\ Resting(io, f) /\ Settled(f) /\ Ahead(io, f)
            /\ \A i \in Lines : io.dsr_pulse_delay[i] > 0 => now < io.lastts + io.dsr_pulse_delay[i]
<1> DEFINE f == Update(io, now, Silence)
<1>1. /\ Sound(io) /\ now \in Nat /\ due \in Nat /\ now < due /\ io.lastts <= now
      /\ Before(io, due) /\ Updated(io, f, now)
      /\ \A i \in 0..1 : now <= io.irq10_pulse_ts[i]
  BY CPUFacts
<1>2. io.ClockDivider \in Nat /\ io.lastts \in Nat /\ \A i \in Lines : io.dsr_pulse_delay[i] \in Nat
  BY <1>1 DEF Sound, Registers
<1>3. \A i \in Lines : io.dsr_pulse_delay[i] > 0 => now < io.lastts + io.dsr_pulse_delay[i]
  BY <1>1, <1>2 DEF Before
<1>4. Before(io, now)
  BY <1>1, <1>2, <1>3 DEF Before
<1>5. ~BitIsDue(io, now)
  BY <1>1, <1>2 DEF BitIsDue, Before
<1>6. Silence \in Answering
  BY ByteTypes DEF Silence, Answering
<1>7. Moved(io, f, now, Silence)
  BY <1>1, <1>4, <1>6, UpdateMoves DEF Whole
<1> HIDE DEF f
<1>8. f \in Registers /\ f.lastts = now
  BY <1>1 DEF Updated, Sound
<1>9. /\ Untouched(io, f) /\ Resting(io, f) /\ Settled(f)
      /\ \A i \in Lines : f.dsr_pulse_delay[i] = IF io.dsr_pulse_delay[i] > 0 THEN io.dsr_pulse_delay[i] - (now - io.lastts) ELSE 0
  BY <1>5, <1>7 DEF Moved
<1>10. Ahead(io, f)
  <2>1. SUFFICES ASSUME NEW i \in Lines, io.dsr_pulse_delay[i] > 0
                 PROVE  f.dsr_pulse_delay[i] > 0 /\ f.lastts + f.dsr_pulse_delay[i] = io.lastts + io.dsr_pulse_delay[i]
    BY DEF Ahead
  <2>2. f.dsr_pulse_delay[i] = io.dsr_pulse_delay[i] - (now - io.lastts) /\ now < io.lastts + io.dsr_pulse_delay[i]
    BY <1>3, <1>9, <2>1
  <2>3. io.dsr_pulse_delay[i] \in Nat
    BY <1>2
  <2> DEFINE x == io.dsr_pulse_delay[i]
             y == f.dsr_pulse_delay[i]
             l == io.lastts
  <2> HIDE DEF x, y, l
  <2>4. y = x - (now - l) /\ now < l + x /\ x \in Nat /\ l \in Nat
    BY <1>2, <2>2, <2>3 DEF x, y, l
  <2>5. y > 0 /\ now + y = l + x
    BY <1>1, <2>4
  <2> QED BY <1>8, <2>5 DEF x, y, l
<1> QED BY <1>3, <1>5, <1>8, <1>9, <1>10 DEF f

\* An access that leaves the acknowledges alone and does not end an exchange.
LEMMA AccessFaithful ==
  ASSUME StepInv, CPURuns, acks' = acks, Whole(io', disturbed'), Ahead(io, io'), ~Finishes
  PROVE  Faithful
<1>1. Acked(io', acks')
  BY AckedAhead DEF StepInv
<1>2. ~BitIsDue(io, now)
  BY CPUMoves DEF StepInv
<1>3. Exchange
  BY DEF Exchange
<1>4. Acknowledge
  BY <1>2 DEF Acknowledge
<1> QED BY <1>1, <1>3, <1>4 DEF Faithful

LEMMA CheckedAhead ==
  ASSUME NEW f, Ahead(io, f), NEW h \in Registers, h.dsr_pulse_delay = f.dsr_pulse_delay, h.lastts = f.lastts
  PROVE  Ahead(io, CheckStartStopPending(h))
<1> DEFINE g == CheckStartStopPending(h)
<1>1. Kept(h, g)
  BY CheckMoves
<1> HIDE DEF g
<1>2. Ahead(io, g)
  BY <1>1 DEF Kept, Ahead
<1> QED BY <1>2 DEF g

LEMMA WriteDataFaithful ==
  ASSUME StepInv, NEW v \in Bytes, WriteData(v) PROVE Faithful
<1> DEFINE f == Update(io, now, Silence)
           h == [f EXCEPT !.TransmitBuffer = v, !.TransmitPending = TRUE, !.TransmitInProgress = FALSE]
<1>1. CPURuns /\ io' = CheckStartStopPending(h) /\ acks' = acks /\ disturbed' = (disturbed \/ ~Idle(io))
  BY DEF WriteData, Checked
<1>2. IInv /\ Whole(io, disturbed) /\ disturbed \in BOOLEAN
  BY DEF StepInv, IInv, TypeOK
<1>3. f \in Registers /\ Untouched(io, f) /\ Resting(io, f) /\ Ahead(io, f)
  BY <1>1, <1>2, CPUMoves
<1> HIDE DEF f
<1>4. /\ h \in Registers /\ h.dsr_pulse_delay = f.dsr_pulse_delay /\ h.lastts = f.lastts
      /\ h.dev = f.dev /\ h.Control = f.Control /\ h.TransmitInProgress = FALSE
      /\ h.ReceiveInProgress = f.ReceiveInProgress
  <2>1. v \in Byte
    BY Constants
  <2> QED BY <1>3, <2>1 DEF Registers
<1> HIDE DEF h
<1>5. ~disturbed' => InStep(h) /\ ~Busy(h)
  <2>1. SUFFICES ASSUME ~disturbed, Idle(io) PROVE InStep(h) /\ ~Busy(h)
    BY <1>1
  <2>2. InStep(io) /\ InStep(f)
    BY <1>2, <1>3, <2>1, RestingInStep DEF Whole
  <2>3. ~f.TransmitInProgress /\ ~f.ReceiveInProgress
    BY <1>3, <2>1 DEF Idle, Busy, Resting
  <2>4. At(h) = 0 /\ At(f) = 0
    BY <1>4, <2>3 DEF At
  <2> QED BY <1>4, <2>2, <2>3, <2>4 DEF InStep, Busy
<1>6. Whole(io', disturbed')
  BY <1>1, <1>2, <1>4, <1>5, CheckedWhole
<1>7. Ahead(io, io')
  BY <1>1, <1>3, <1>4, CheckedAhead
<1>8. ~Finishes
  BY <1>1 DEF Finishes, Idle, Busy
<1> QED BY <1>1, <1>6, <1>7, <1>8, AccessFaithful

LEMMA ReadDataFaithful ==
  ASSUME StepInv, ReadData PROVE Faithful
<1> DEFINE f == Update(io, now, Silence)
           h == [f EXCEPT !.ReceiveBufferAvail = FALSE, !.ReceivePending = TRUE, !.ReceiveInProgress = FALSE]
<1>1. CPURuns /\ io' = CheckStartStopPending(h) /\ acks' = acks /\ disturbed' = (disturbed \/ ~Idle(io))
  BY DEF ReadData, Checked
<1>2. IInv /\ Whole(io, disturbed) /\ disturbed \in BOOLEAN
  BY DEF StepInv, IInv, TypeOK
<1>3. f \in Registers /\ Untouched(io, f) /\ Resting(io, f) /\ Ahead(io, f)
  BY <1>1, <1>2, CPUMoves
<1> HIDE DEF f
<1>4. /\ h \in Registers /\ h.dsr_pulse_delay = f.dsr_pulse_delay /\ h.lastts = f.lastts
      /\ h.dev = f.dev /\ h.Control = f.Control /\ h.ReceiveInProgress = FALSE
      /\ h.TransmitInProgress = f.TransmitInProgress
  BY <1>3 DEF Registers
<1> HIDE DEF h
<1>5. ~disturbed' => InStep(h) /\ ~Busy(h)
  <2>1. SUFFICES ASSUME ~disturbed, Idle(io) PROVE InStep(h) /\ ~Busy(h)
    BY <1>1
  <2>2. InStep(io) /\ InStep(f)
    BY <1>2, <1>3, <2>1, RestingInStep DEF Whole
  <2>3. ~f.TransmitInProgress /\ ~f.ReceiveInProgress
    BY <1>3, <2>1 DEF Idle, Busy, Resting
  <2>4. At(h) = 0 /\ At(f) = 0
    BY <1>4, <2>3 DEF At
  <2> QED BY <1>4, <2>2, <2>3, <2>4 DEF InStep, Busy
<1>6. Whole(io', disturbed')
  BY <1>1, <1>2, <1>4, <1>5, CheckedWhole
<1>7. Ahead(io, io')
  BY <1>1, <1>3, <1>4, CheckedAhead
<1>8. ~Finishes
  BY <1>1 DEF Finishes, Idle, Busy
<1> QED BY <1>1, <1>6, <1>7, <1>8, AccessFaithful

LEMMA ReadOtherFaithful ==
  ASSUME StepInv, ReadOther PROVE Faithful
<1>1. CPURuns /\ io' = Update(io, now, Silence) /\ acks' = acks /\ disturbed' = disturbed
  BY DEF ReadOther
<1>2. IInv /\ Whole(io, disturbed)
  BY DEF StepInv
<1>3. Untouched(io, io') /\ Resting(io, io') /\ Ahead(io, io') /\ Settled(io')
  BY <1>1, <1>2, CPUMoves
<1>4. Whole(io', disturbed')
  BY <1>1, <1>2, <1>3, RestingInStep DEF Whole
<1>5. ~Finishes
  BY <1>3 DEF Finishes, Resting
<1> QED BY <1>1, <1>3, <1>4, <1>5, AccessFaithful

\* A new bit length is that of the next transfer, or of the next bit.
LEMMA WriteRateFaithful ==
  ASSUME StepInv, NEW r \in Rates, WriteRate(r) PROVE Faithful
<1> DEFINE f == Update(io, now, Silence)
           h == [f EXCEPT !.rate = r]
           g == CheckStartStopPending(h)
<1>1. CPURuns /\ io' = g /\ acks' = acks /\ disturbed' = disturbed
  BY DEF WriteRate, Checked
<1>2. IInv /\ Whole(io, disturbed) /\ disturbed \in BOOLEAN
  BY DEF StepInv, IInv, TypeOK
<1>3. f \in Registers /\ Untouched(io, f) /\ Resting(io, f) /\ Ahead(io, f) /\ Settled(f)
  BY <1>1, <1>2, CPUMoves
<1> HIDE DEF f
<1>4. /\ h \in Registers /\ h.dsr_pulse_delay = f.dsr_pulse_delay /\ h.lastts = f.lastts
      /\ Untouched(f, h) /\ Resting(f, h)
  BY <1>3 DEF Registers, Untouched, Resting
<1> HIDE DEF h
<1>5. Settled(h) /\ (InStep(f) => InStep(h))
  BY <1>3, <1>4, RestingInStep DEF Settled, Triggered, Busy, Untouched, Resting
<1>6. Untouched(h, g) /\ Resting(h, g)
  BY <1>4, <1>5, CheckMoves
<1>7. Whole(io', disturbed')
  <2>1. ~disturbed => InStep(h)
    BY <1>2, <1>3, <1>5, RestingInStep DEF Whole
  <2> QED BY <1>1, <1>2, <1>4, <1>5, <2>1, CheckedWhole
<1>8. Ahead(io, io')
  BY <1>1, <1>3, <1>4, CheckedAhead
<1> HIDE DEF g
<1>9. ~Finishes
  BY <1>1, <1>3, <1>4, <1>6 DEF Finishes, Resting
<1> QED BY <1>1, <1>7, <1>8, <1>9, AccessFaithful

\* What Control does to the devices and leaves of the controller.
Selects(f, g, control) ==
  /\ g.Control = control /\ g.lastts = f.lastts
  /\ g.TransmitInProgress = f.TransmitInProgress /\ g.ReceiveInProgress = f.ReceiveInProgress
  /\ \A i \in Lines : g.dev[i] = Device_SetDTR(f.dev[i], Selected(control, i))
  /\ \A i \in Lines : Selected(control, i) => g.dsr_pulse_delay[i] = f.dsr_pulse_delay[i]

LEMMA SelectMoves ==
  ASSUME NEW f \in Registers, NEW control \in SUBSET ControlBits
  PROVE  Selects(f, Select(f, control), control)
<1> DEFINE devs == [i \in Lines |-> Device_SetDTR(f.dev[i], Selected(control, i))]
           delays == [i \in Lines |-> IF Selected(control, i) THEN f.dsr_pulse_delay[i] ELSE 0]
           until == [i \in Lines |-> IF Selected(control, i) THEN f.dsr_active_until_ts[i] ELSE -1]
           g == Select(f, control)
<1>1. g = [f EXCEPT !.Control = control, !.dev = devs, !.dsr_pulse_delay = delays, !.dsr_active_until_ts = until]
  BY DEF Select, Registers
<1>2. /\ \A i \in Lines : devs[i] = Device_SetDTR(f.dev[i], Selected(control, i))
      /\ \A i \in Lines : Selected(control, i) => delays[i] = f.dsr_pulse_delay[i]
  OBVIOUS
<1> HIDE DEF devs, delays, until, g
<1>3. /\ g.Control = control /\ g.lastts = f.lastts /\ g.dev = devs /\ g.dsr_pulse_delay = delays
      /\ g.TransmitInProgress = f.TransmitInProgress /\ g.ReceiveInProgress = f.ReceiveInProgress
  BY <1>1 DEF Registers
<1> QED BY <1>2, <1>3 DEF Selects, g

Listens(d, e, dtr) == /\ e.dtr = dtr
                      /\ dtr => e.pos = IF d.dtr THEN d.pos ELSE 0

LEMMA SetDTRIs ==
  ASSUME NEW d \in Device, NEW dtr \in BOOLEAN PROVE Listens(d, Device_SetDTR(d, dtr), dtr)
<1> DEFINE pos == IF dtr /\ ~d.dtr THEN 0 ELSE d.pos
           said == IF dtr /\ ~d.dtr THEN Ones ELSE d.says
           e == Device_SetDTR(d, dtr)
<1>1. e = [d EXCEPT !.dtr = dtr, !.pos = pos, !.says = said]
  BY DEF Device_SetDTR, Device
<1>2. dtr => pos = IF d.dtr THEN d.pos ELSE 0
  OBVIOUS
<1> HIDE DEF pos, said, e
<1>3. e.dtr = dtr /\ e.pos = pos
  BY <1>1 DEF Device
<1> QED BY <1>2, <1>3 DEF Listens, e

\* Devices that listen after Control was written between two transfers are between two bytes,
\* if those were that listened before, or if there are none.
LEMMA SelectInStep ==
  ASSUME NEW f \in Registers, NEW control \in SUBSET ControlBits, NEW g, Selects(f, g, control), ~Busy(f),
         \/ \A i \in Lines : f.dev[i].dtr => f.dev[i].pos = 0
         \/ \A i \in Lines : ~Selected(control, i)
  PROVE  InStep(g) /\ ~Busy(g)
<1>1. ~Busy(g) /\ At(g) = 0
  BY DEF Selects, Busy, At
<1>2. \A i \in Lines : Listens(f.dev[i], g.dev[i], Selected(control, i))
  <2>1. SUFFICES ASSUME NEW i \in Lines PROVE Listens(f.dev[i], g.dev[i], Selected(control, i))
    OBVIOUS
  <2>2. f.dev[i] \in Device /\ Selected(control, i) \in BOOLEAN
    BY DEF Registers, Selected
  <2>3. g.dev[i] = Device_SetDTR(f.dev[i], Selected(control, i))
    BY DEF Selects
  <2>4. Listens(f.dev[i], Device_SetDTR(f.dev[i], Selected(control, i)), Selected(control, i))
    BY <2>2, SetDTRIs
  <2> QED BY <2>3, <2>4, Zenon
<1>3. \A i \in Lines : g.dev[i].dtr = Selected(control, i)
  BY <1>2 DEF Listens
<1>4. \A i \in Lines : g.dev[i].dtr => g.dev[i].pos = 0
  BY <1>2, <1>3 DEF Listens
<1>5. g.Control = control
  BY DEF Selects
<1> QED BY <1>1, <1>3, <1>4, <1>5 DEF InStep, Busy

LEMMA ClearedMoves ==
  ASSUME NEW f \in Registers
  PROVE  LET g == Cleared(f)
         IN ~Busy(g) /\ g.dsr_pulse_delay = f.dsr_pulse_delay /\ g.lastts = f.lastts
<1> DEFINE g == Cleared(f)
           p == PowerOn
<1>1. p \in Registers /\ p.TransmitInProgress = FALSE /\ p.ReceiveInProgress = FALSE
  BY PowerOnSound DEF PowerOn
<1>2. g = [p EXCEPT !.lastts = f.lastts, !.dev = f.dev, !.dsr_pulse_delay = f.dsr_pulse_delay,
                    !.dsr_active_until_ts = f.dsr_active_until_ts, !.irq10_pulse_ts = f.irq10_pulse_ts]
  BY DEF Cleared
<1> HIDE DEF g, p
<1>3. g.dsr_pulse_delay = f.dsr_pulse_delay /\ g.lastts = f.lastts
  BY <1>1, <1>2 DEF Registers
<1>4. g.TransmitInProgress = FALSE /\ g.ReceiveInProgress = FALSE
  BY <1>1, <1>2 DEF Registers
<1> QED BY <1>3, <1>4 DEF Busy, g

LEMMA WriteControlFaithful ==
  ASSUME StepInv, NEW control \in Controls, NEW acknowledge \in BOOLEAN, NEW reset \in BOOLEAN,
         WriteControl(control, acknowledge, reset)
  PROVE  Faithful
<1> DEFINE f == Update(io, now, Silence)
           calm == [f EXCEPT !.istatus = @ /\ ~acknowledge]
           g == IF reset THEN Cleared(f) ELSE calm
           chosen == IF reset THEN {} ELSE control
           h == Select(g, chosen)
<1>1. /\ CPURuns /\ io' = CheckStartStopPending(h)
      /\ disturbed' = (~reset /\ (disturbed \/ Busy(f)) /\ ~(Idle(f) /\ \A i \in Lines : ~Selected(chosen, i)))
      /\ acks' = [i \in Lines |-> IF Selected(chosen, i) THEN acks[i] ELSE MaxTS]
  BY DEF WriteControl, Checked
<1>2. IInv /\ Whole(io, disturbed) /\ disturbed \in BOOLEAN /\ Acked(io, acks)
  BY DEF StepInv, IInv, TypeOK
<1>3. /\ f \in Registers /\ Untouched(io, f) /\ Resting(io, f) /\ Ahead(io, f) /\ ~BitIsDue(io, now)
      /\ \A i \in Lines : io.dsr_pulse_delay[i] > 0 => now < io.lastts + io.dsr_pulse_delay[i]
  BY <1>1, <1>2, CPUMoves
<1>4. reset => chosen = {} /\ \A i \in Lines : ~Selected(chosen, i)
  BY DEF Selected
<1> HIDE DEF f
<1>5. ~reset => /\ calm \in Registers /\ calm.lastts = f.lastts /\ calm.dsr_pulse_delay = f.dsr_pulse_delay
                /\ calm.dev = f.dev /\ calm.TransmitInProgress = f.TransmitInProgress
                /\ calm.ReceiveInProgress = f.ReceiveInProgress
  <2>1. (f.istatus /\ ~acknowledge) \in BOOLEAN
    OBVIOUS
  <2> QED BY <1>3, <2>1 DEF Registers
<1> HIDE DEF calm
<1>6. /\ g \in Registers /\ g.lastts = f.lastts /\ g.dsr_pulse_delay = f.dsr_pulse_delay
      /\ reset => ~Busy(g)
      /\ ~reset => g.dev = f.dev /\ (Busy(g) <=> Busy(f))
  BY <1>3, <1>5, ClearedKeeps, ClearedMoves DEF Busy
<1>7. chosen \in SUBSET ControlBits
  BY Constants
<1> HIDE DEF g, chosen
<1>8. h \in Registers /\ Selects(g, h, chosen)
  BY <1>6, <1>7, SelectKeeps, SelectMoves
<1> HIDE DEF h
<1>9. ~disturbed' => InStep(h) /\ ~Busy(h)
  <2>1. CASE reset
    BY <1>4, <1>6, <1>7, <1>8, <2>1, SelectInStep
  <2>2. CASE ~reset /\ Idle(f) /\ \A i \in Lines : ~Selected(chosen, i)
    <3>1. ~Busy(g)
      BY <1>6, <2>2 DEF Idle
    <3> QED BY <1>6, <1>7, <1>8, <2>2, <3>1, SelectInStep
  <2>3. CASE ~reset /\ ~disturbed /\ ~Busy(f)
    <3>1. ~Busy(g)
      BY <1>6, <2>3
    <3>2. InStep(f)
      BY <1>2, <1>3, <2>3, RestingInStep DEF Whole
    <3>3. \A i \in Lines : g.dev[i].dtr => g.dev[i].pos = 0
      BY <1>6, <2>3, <3>2 DEF InStep, At, Busy
    <3> QED BY <1>6, <1>7, <1>8, <3>1, <3>3, SelectInStep
  <2> QED BY <1>1, <2>1, <2>2, <2>3
<1>10. Whole(io', disturbed')
  <2>1. disturbed' \in BOOLEAN
    BY <1>1
  <2> QED BY <1>1, <1>8, <1>9, <2>1, CheckedWhole
<1> DEFINE k == CheckStartStopPending(h)
<1>11. io' = k /\ Kept(h, k)
  BY <1>1, <1>8, CheckMoves
<1> HIDE DEF k
<1>12. /\ io'.Control = chosen /\ io'.lastts = f.lastts
       /\ \A i \in Lines : Selected(chosen, i) => io'.dsr_pulse_delay[i] = f.dsr_pulse_delay[i]
  BY <1>6, <1>8, <1>11 DEF Kept, Selects
<1>13. Acked(f, acks)
  BY <1>2, <1>3, AckedAhead
<1>14. Acked(io', acks')
  <2>1. MaxTS <= MaxTS
    BY Constants
  <2> QED BY <1>1, <1>12, <1>13, <2>1 DEF Acked
<1>15. ~Finishes
  <2>1. SUFFICES ASSUME Finishes PROVE FALSE
    OBVIOUS
  <2>2. Busy(io) /\ Busy(f) /\ ~disturbed'
    BY <1>3, <2>1 DEF Finishes, Busy, Resting
  <2>3. reset
    BY <1>1, <2>2 DEF Idle
  <2>4. io.Control = {}
    BY <1>4, <1>12, <2>1, <2>3 DEF Finishes
  <2> QED BY <1>2, <2>2, <2>4 DEF Whole, Settled
<1>16. Acknowledge
  <2>1. SUFFICES ASSUME NEW i \in Lines, acks[i] # MaxTS, acks'[i] = MaxTS
                 PROVE  ~Selected(io'.Control, i) /\ now < acks[i]
    BY <1>3 DEF Acknowledge
  <2>2. ~Selected(chosen, i)
    BY <1>1, <2>1
  <2>3. now < acks[i]
    BY <1>2, <1>3, <2>1 DEF Acked
  <2> QED BY <1>12, <2>2, <2>3
<1> QED BY <1>10, <1>14, <1>15, <1>16 DEF Faithful, Exchange

------------------------------------------------------------------------------
(* The event, a line and the end of a frame.                                *)

\* What is true of the controller after an update, and of the acknowledges.
Passed(u, a) ==
  /\ u \in Registers /\ Whole(u, disturbed) /\ Acked(u, a) /\ u.lastts = now
  /\ u.Control = io.Control
  /\ ~disturbed /\ io.TransmitInProgress /\ ~u.TransmitInProgress =>
       /\ \A i \in Lines : Selected(io.Control, i) => u.dev[i].heard = io.TransmitBuffer /\ u.dev[i].pos = 0
       /\ io.ReceiveInProgress => u.ReceiveBufferAvail = TRUE /\ \A b \in 0..(Bits - 1) : u.ReceiveBuffer[b] = 1 <=> Said(io, b)
  /\ \A i \in Lines : acks[i] # MaxTS /\ (a[i] = MaxTS \/ BitIsDue(io, now)) =>
       IF acks[i] = now THEN u.dsr_active_until_ts[i] = now + Pulse /\ ("dsrirq" \in io.Control => u.istatus = TRUE)
       ELSE now < acks[i] /\ BitIsDue(io, now)
  /\ \A i \in Lines : a[i] \in Nat

LEMMA BytesEqual ==
  ASSUME NEW x \in Byte, NEW y \in Byte, \A b \in 0..(Bits - 1) : x[b] = y[b] PROVE x = y
<1>1. x = [b \in 0..(Bits - 1) |-> x[b]] /\ y = [b \in 0..(Bits - 1) |-> y[b]]
  BY Zenon DEF Byte
<1>2. [b \in 0..(Bits - 1) |-> x[b]] = [b \in 0..(Bits - 1) |-> y[b]]
  OBVIOUS
<1> QED BY <1>1, <1>2, Zenon

\* The last bit ends a byte.
LEMMA LastBitEnds ==
  ASSUME NEW f \in Registers, InStep(f), NEW t, NEW u, NEW reply, Moved(f, u, t, reply),
         f.TransmitInProgress, ~u.TransmitInProgress, u \in Registers
  PROVE  /\ \A i \in Lines : Selected(f.Control, i) => u.dev[i].heard = f.TransmitBuffer /\ u.dev[i].pos = 0
         /\ f.ReceiveInProgress => u.ReceiveBufferAvail = TRUE /\ \A b \in 0..(Bits - 1) : u.ReceiveBuffer[b] = 1 <=> Said(f, b)
<1>1. BitIsDue(f, t)
  BY DEF Moved, Resting
<1>2. Busy(f) /\ Clocks(f, u, reply) /\ Untouched(f, u)
  BY <1>1 DEF Moved, BitIsDue
<1>3. At(f) = Bits - 1
  BY <1>2, CountersMove
<1>4. \A b \in 0..(Bits - 1) : b <= At(f)
  BY <1>3, Constants
<1>5. Following(At(f)) = 0
  BY <1>3, FollowingIs
<1>6. /\ \A i \in Lines : f.dev[i].dtr => /\ u.dev[i].pos = 0
                                          /\ \A b \in 0..(Bits - 1) : u.dev[i].heard[b] = f.TransmitBuffer[b]
      /\ f.ReceiveInProgress => \A b \in 0..(Bits - 1) : (u.ReceiveBuffer[b] = 1 <=> Said(f, b))
  BY <1>2, <1>4, <1>5, OneBitMore
<1>7. \A i \in Lines : f.dev[i].dtr => u.dev[i].heard = f.TransmitBuffer
  <2>1. SUFFICES ASSUME NEW i \in Lines, f.dev[i].dtr PROVE u.dev[i].heard = f.TransmitBuffer
    OBVIOUS
  <2>2. u.dev[i].heard \in Byte /\ f.TransmitBuffer \in Byte
    BY AtIs
  <2>3. \A b \in 0..(Bits - 1) : u.dev[i].heard[b] = f.TransmitBuffer[b]
    BY <1>6, <2>1
  <2> QED BY <2>2, <2>3, BytesEqual
<1>8. f.ReceiveInProgress => u.ReceiveBufferAvail = TRUE
  <2>1. f.ReceiveInProgress => f.ReceiveBitCounter = Bits - 1
    BY <1>3 DEF InStep
  <2> QED BY <1>2, <2>1 DEF Clocks
<1>9. \A i \in Lines : Selected(f.Control, i) => f.dev[i].dtr
  BY DEF InStep
<1> QED BY <1>6, <1>7, <1>8, <1>9

LEMMA UpdatePasses ==
  ASSUME StepInv, now <= due, NEW reply \in Answers
  PROVE  LET u == Update(io, now, reply) IN Passed(u, AcksAfter(io, u, now))
<1> DEFINE u == Update(io, now, reply)
           a == AcksAfter(io, u, now)
<1>1. /\ Sound(io) /\ now \in Nat /\ now <= FrameTime /\ due \in Nat /\ io.lastts <= now
      /\ Before(io, due) /\ acks \in [Lines -> Nat] /\ disturbed \in BOOLEAN
  BY Constants DEF StepInv, IInv, TypeOK, Timely, Sound
<1>2. IInv /\ Whole(io, disturbed) /\ Acked(io, acks)
  BY DEF StepInv
<1>3. reply \in Answering
  BY Constants DEF Answers, Answering
<1>4. io.ClockDivider \in Nat /\ io.lastts \in Nat /\ \A i \in Lines : io.dsr_pulse_delay[i] \in Nat
  BY <1>1 DEF Sound, Registers
<1>5. \A i \in 0..1 : io.irq10_pulse_ts[i] \in Nat /\ due <= io.irq10_pulse_ts[i]
  BY <1>1 DEF Sound, Registers, Before
<1>6. Before(io, now)
  BY <1>1, <1>4, <1>5 DEF Before
<1>7. Moved(io, u, now, reply)
  BY <1>1, <1>2, <1>3, <1>6, UpdateMoves DEF Whole
<1>8. u \in Registers /\ \A i \in Lines : a[i] \in Nat
  <2>1. Updated(io, u, now) /\ a \in [Lines -> Nat]
    BY <1>2, UpdateFacts
  <2> HIDE DEF a, u
  <2> QED BY <2>1 DEF Updated, Sound
<1>9. \A i \in Lines : a[i] = IF BitIsDue(io, now) THEN (IF u.dsr_pulse_delay[i] > 0 THEN now + u.dsr_pulse_delay[i] ELSE MaxTS)
                              ELSE IF acks[i] <= now THEN MaxTS ELSE acks[i]
  BY DEF AcksAfter
<1> HIDE DEF u, a
<1>10. Whole(u, disturbed) /\ u.lastts = now /\ u.Control = io.Control
  <2>1. Settled(u) /\ u.lastts = now /\ Untouched(io, u)
    BY <1>7 DEF Moved
  <2>2. ~disturbed => InStep(u)
    BY <1>1, <1>2, <1>7, UpdateInStep DEF Whole, Sound
  <2> QED BY <2>1, <2>2 DEF Whole, Untouched
<1>11. \A i \in Lines : u.dsr_pulse_delay[i] \in Nat
  BY <1>8 DEF Registers
<1>12. BitIsDue(io, now) => \A i \in Lines : now + u.dsr_pulse_delay[i] <= MaxTS
  <2>1. SUFFICES ASSUME BitIsDue(io, now), NEW i \in Lines PROVE now + u.dsr_pulse_delay[i] <= MaxTS
    OBVIOUS
  <2>2. u.dsr_pulse_delay[i] = Device_Acks(io.dev[i], reply[i])
    BY <1>7, <2>1 DEF Moved, Clocks
  <2>3. reply[i] \in Replies
    BY DEF Answers
  <2>4. reply[i].ack < Far
    BY <2>3, FrontIOAssumption
  <2>5. reply[i].ack \in Nat
    BY <2>3, Constants
  <2>6. u.dsr_pulse_delay[i] <= Far
    BY <2>2, <2>4, <2>5, Constants DEF Device_Acks
  <2> QED BY <1>1, <1>11, <2>6, Constants
<1>13. ~BitIsDue(io, now) => \A i \in Lines : acks[i] # MaxTS /\ ~(acks[i] <= now) =>
         u.dsr_pulse_delay[i] > 0 /\ acks[i] = now + u.dsr_pulse_delay[i]
  <2>1. SUFFICES ASSUME ~BitIsDue(io, now), NEW i \in Lines, acks[i] # MaxTS, ~(acks[i] <= now)
                 PROVE  u.dsr_pulse_delay[i] > 0 /\ acks[i] = now + u.dsr_pulse_delay[i]
    OBVIOUS
  <2>2. io.dsr_pulse_delay[i] > 0 /\ acks[i] = io.lastts + io.dsr_pulse_delay[i]
    BY <1>2, <2>1 DEF Acked
  <2>3. u.dsr_pulse_delay[i] = io.dsr_pulse_delay[i] - (now - io.lastts)
    BY <1>7, <2>1, <2>2 DEF Moved
  <2>4. \A x, y, l, n, c \in Int : c = l + x /\ y = x - (n - l) /\ ~(c <= n) => y > 0 /\ c = n + y
    OBVIOUS
  <2>5. acks[i] \in Int /\ io.dsr_pulse_delay[i] \in Int /\ io.lastts \in Int /\ now \in Int /\ u.dsr_pulse_delay[i] \in Int
    BY <1>1, <1>4, <1>11
  <2> QED BY <2>1, <2>2, <2>3, <2>4, <2>5
<1>14. Acked(u, a)
  <2>1. SUFFICES ASSUME NEW i \in Lines
                 PROVE  a[i] <= MaxTS /\ (a[i] # MaxTS => u.dsr_pulse_delay[i] > 0 /\ a[i] = now + u.dsr_pulse_delay[i])
    BY <1>10 DEF Acked
  <2>2. acks[i] <= MaxTS /\ acks[i] \in Nat /\ MaxTS \in Nat
    BY <1>1, <1>2, Constants DEF Acked
  <2>3. CASE BitIsDue(io, now)
    BY <1>9, <1>12, <2>2, <2>3
  <2>4. CASE ~BitIsDue(io, now)
    BY <1>9, <1>13, <2>2, <2>4
  <2> QED BY <2>3, <2>4
<1>15. ~disturbed /\ io.TransmitInProgress /\ ~u.TransmitInProgress =>
         /\ \A i \in Lines : Selected(io.Control, i) => u.dev[i].heard = io.TransmitBuffer /\ u.dev[i].pos = 0
         /\ io.ReceiveInProgress => u.ReceiveBufferAvail = TRUE /\ \A b \in 0..(Bits - 1) : u.ReceiveBuffer[b] = 1 <=> Said(io, b)
  BY <1>1, <1>2, <1>7, <1>8, LastBitEnds DEF Whole, Sound
<1>16. \A i \in Lines : acks[i] # MaxTS /\ (a[i] = MaxTS \/ BitIsDue(io, now)) =>
         IF acks[i] = now THEN u.dsr_active_until_ts[i] = now + Pulse /\ ("dsrirq" \in io.Control => u.istatus = TRUE)
         ELSE now < acks[i] /\ BitIsDue(io, now)
  <2>1. SUFFICES ASSUME NEW i \in Lines, acks[i] # MaxTS, a[i] = MaxTS \/ BitIsDue(io, now)
                 PROVE  IF acks[i] = now THEN u.dsr_active_until_ts[i] = now + Pulse /\ ("dsrirq" \in io.Control => u.istatus = TRUE)
                        ELSE now < acks[i] /\ BitIsDue(io, now)
    OBVIOUS
  <2>2. io.dsr_pulse_delay[i] > 0 /\ acks[i] = io.lastts + io.dsr_pulse_delay[i]
    BY <1>2, <2>1 DEF Acked
  <2>3. now <= acks[i]
    BY <1>6, <2>2 DEF Before
  <2>4. acks[i] \in Int /\ io.dsr_pulse_delay[i] \in Int /\ io.lastts \in Int /\ now \in Int
    BY <1>1, <1>4
  <2>5. CASE acks[i] = now
    <3>1. io.dsr_pulse_delay[i] = now - io.lastts
      BY <2>2, <2>4, <2>5
    <3>2. i \in Over(io, now)
      BY <2>2, <2>4, <3>1 DEF Over
    <3>3. Pulses(io, u, now)
      BY <1>7 DEF Moved
    <3>4. u.dsr_active_until_ts[i] = now + Pulse + io.dsr_pulse_delay[i] - (now - io.lastts)
      BY <3>2, <3>3 DEF Pulses
    <3>5. u.dsr_active_until_ts[i] = now + Pulse
      BY <2>4, <3>1, <3>4 DEF Pulse
    <3>6. "dsrirq" \in io.Control => u.istatus = TRUE
      BY <3>2, <3>3 DEF Pulses
    <3> QED BY <2>5, <3>5, <3>6
  <2>6. CASE acks[i] # now
    <3>1. now < acks[i]
      BY <2>3, <2>4, <2>6
    <3>2. BitIsDue(io, now)
      <4>1. SUFFICES ASSUME ~BitIsDue(io, now) PROVE FALSE
        OBVIOUS
      <4>2. a[i] = acks[i]
        BY <1>9, <2>4, <3>1, <4>1
      <4> QED BY <2>1, <4>1, <4>2
    <3> QED BY <2>6, <3>1, <3>2
  <2> QED BY <2>5, <2>6
<1>17. Passed(u, a)
  BY <1>8, <1>10, <1>14, <1>15, <1>16 DEF Passed
<1> QED BY <1>17 DEF u, a

\* What is made of an update is the same transfer, at whatever time.
Alike(u, g) == Untouched(u, g) /\ Resting(u, g) /\ g.istatus = u.istatus /\ g.dsr_pulse_delay = u.dsr_pulse_delay

LEMMA AlikeWhole ==
  ASSUME NEW u, NEW g, Alike(u, g), NEW d, Whole(u, d) PROVE Whole(g, d)
<1>1. Untouched(u, g) /\ Resting(u, g)
  BY DEF Alike
<1>2. InStep(u) => InStep(g)
  BY <1>1, RestingInStep
<1>3. Settled(u) => Settled(g)
  BY <1>1 DEF Settled, Triggered, Busy, Untouched, Resting
<1> QED BY <1>2, <1>3 DEF Whole

LEMMA PassedExchange ==
  ASSUME NEW u, NEW a, Passed(u, a), Alike(u, io'), disturbed' = disturbed
  PROVE  Exchange /\ Whole(io', disturbed')
<1>1. Whole(io', disturbed')
  BY AlikeWhole DEF Passed
<1>2. ASSUME Finishes
      PROVE  /\ \A i \in Lines : Selected(io.Control, i) => io'.dev[i].heard = io.TransmitBuffer /\ io'.dev[i].pos = 0
             /\ io.ReceiveInProgress => io'.ReceiveBufferAvail = TRUE /\ \A b \in 0..(Bits - 1) : io'.ReceiveBuffer[b] = 1 <=> Said(io, b)
  <2>1. /\ io'.TransmitInProgress = u.TransmitInProgress /\ io'.dev = u.dev
        /\ io'.ReceiveBuffer = u.ReceiveBuffer /\ io'.ReceiveBufferAvail = u.ReceiveBufferAvail
    BY DEF Alike, Resting
  <2>2. ~disturbed /\ io.TransmitInProgress /\ ~u.TransmitInProgress
    BY <1>2, <2>1 DEF Finishes
  <2> QED BY <2>1, <2>2 DEF Passed
<1>3. Exchange
  BY <1>2 DEF Exchange, Said
<1> QED BY <1>1, <1>3

LEMMA UpdatedFaithful ==
  ASSUME StepInv, NEW u, Passed(u, acks'), Alike(u, io'), io'.lastts = now,
         io'.dsr_active_until_ts = u.dsr_active_until_ts, UNCHANGED <<now, disturbed>>
  PROVE  Faithful
<1>1. Exchange /\ Whole(io', disturbed')
  BY PassedExchange
<1>2. Acked(io', acks')
  BY DEF Passed, Acked, Alike
<1>3. Acknowledge
  <2>1. SUFFICES ASSUME NEW i \in Lines, acks[i] # MaxTS, acks'[i] = MaxTS \/ BitIsDue(io, now)
                 PROVE  IF acks[i] = now
                        THEN io'.dsr_active_until_ts[i] - now' = Pulse /\ ("dsrirq" \in io.Control => io'.istatus)
                        ELSE now < acks[i] /\ BitIsDue(io, now)
    BY DEF Acknowledge
  <2>2. IF acks[i] = now THEN u.dsr_active_until_ts[i] = now + Pulse /\ ("dsrirq" \in io.Control => u.istatus = TRUE)
        ELSE now < acks[i] /\ BitIsDue(io, now)
    BY <2>1 DEF Passed
  <2>3. io'.istatus = u.istatus
    BY DEF Alike
  <2>4. now \in Nat
    BY DEF StepInv, IInv, TypeOK
  <2>5. acks[i] = now => u.dsr_active_until_ts[i] - now = Pulse
    BY <2>2, <2>4 DEF Pulse
  <2> QED BY <2>2, <2>3, <2>5
<1> QED BY <1>1, <1>2, <1>3 DEF Faithful

LEMMA EventFaithful ==
  ASSUME StepInv, NEW reply \in Answers, Event(reply) PROVE Faithful
<1>1. /\ now = due /\ io' = Update(io, now, reply) /\ acks' = AcksAfter(io, io', now)
      /\ UNCHANGED <<now, disturbed>>
  BY DEF Event
<1>2. now <= due
  BY <1>1 DEF StepInv, IInv, TypeOK
<1>3. Passed(io', acks')
  BY <1>1, <1>2, UpdatePasses
<1>4. Alike(io', io') /\ io'.lastts = now
  BY <1>3 DEF Alike, Untouched, Resting, Passed
<1> QED BY <1>1, <1>3, <1>4, UpdatedFaithful

LEMMA HookFaithful ==
  ASSUME StepInv, NEW seen \in Sightings, NEW reply \in Answers, GPULineHook(seen, reply) PROVE Faithful
<1> DEFINE u == Update(io, now, reply)
           pulses == [i \in 0..1 |-> IF seen[i] <= now THEN MaxTS ELSE seen[i]]
<1>1. /\ now <= due /\ io' = [u EXCEPT !.irq10_pulse_ts = pulses] /\ acks' = AcksAfter(io, u, now)
      /\ UNCHANGED <<now, disturbed>>
  BY DEF GPULineHook
<1>2. Passed(u, acks')
  BY <1>1, UpdatePasses
<1> HIDE DEF u, pulses
<1>3. Alike(u, io') /\ io'.lastts = now /\ io'.dsr_active_until_ts = u.dsr_active_until_ts
  <2>1. u \in Registers /\ u.lastts = now
    BY <1>2 DEF Passed
  <2> QED BY <1>1, <2>1 DEF Registers, Alike, Untouched, Resting
<1> QED BY <1>1, <1>2, <1>3, UpdatedFaithful

\* At the end of a frame what is to come is that much earlier.
LEMMA EndFrameFaithful ==
  ASSUME StepInv, NEW reply \in Answers, EndFrame(reply) PROVE Faithful
<1> DEFINE u == Update(io, now, reply)
           a == AcksAfter(io, u, now)
           pulses == [i \in 0..1 |-> IF u.irq10_pulse_ts[i] # MaxTS THEN u.irq10_pulse_ts[i] - u.lastts
                                     ELSE u.irq10_pulse_ts[i]]
           until == [i \in Lines |-> IF u.dsr_active_until_ts[i] >= 0 THEN u.dsr_active_until_ts[i] - u.lastts
                                     ELSE u.dsr_active_until_ts[i]]
<1>1. /\ now = FrameTime /\ now <= due /\ io' = Rebased(u, u.lastts)
      /\ acks' = [i \in Lines |-> IF a[i] = MaxTS THEN a[i] ELSE a[i] - now]
      /\ now' = 0 /\ disturbed' = disturbed
  BY DEF EndFrame
<1>2. Passed(u, a)
  BY <1>1, UpdatePasses
<1> HIDE DEF u, a
<1>3. u \in Registers /\ u.lastts = now /\ Acked(u, a) /\ \A i \in Lines : a[i] \in Nat
  BY <1>2 DEF Passed
<1>4. io' = [u EXCEPT !.irq10_pulse_ts = pulses, !.dsr_active_until_ts = until, !.lastts = 0]
  BY <1>1, <1>3 DEF Rebased, Registers
<1>5. \A i \in Lines : until[i] = IF u.dsr_active_until_ts[i] >= 0 THEN u.dsr_active_until_ts[i] - now
                                  ELSE u.dsr_active_until_ts[i]
  BY <1>3
<1> HIDE DEF pulses, until
<1>6. Alike(u, io') /\ io'.lastts = 0 /\ io'.dsr_active_until_ts = until
  BY <1>3, <1>4 DEF Registers, Alike, Untouched, Resting
<1>7. Exchange /\ Whole(io', disturbed')
  BY <1>1, <1>2, <1>6, PassedExchange
<1>8. now \in Nat /\ now > 0 /\ MaxTS \in Nat
  BY <1>1, Constants
<1>9. Acked(io', acks')
  <2>1. SUFFICES ASSUME NEW i \in Lines
                 PROVE  /\ acks'[i] <= MaxTS
                        /\ acks'[i] # MaxTS => u.dsr_pulse_delay[i] > 0 /\ acks'[i] = 0 + u.dsr_pulse_delay[i]
    BY <1>6 DEF Acked, Alike
  <2>2. acks'[i] = IF a[i] = MaxTS THEN a[i] ELSE a[i] - now
    BY <1>1
  <2>3. a[i] \in Nat /\ a[i] <= MaxTS /\ u.dsr_pulse_delay[i] \in Nat
        /\ (a[i] # MaxTS => u.dsr_pulse_delay[i] > 0 /\ a[i] = now + u.dsr_pulse_delay[i])
    BY <1>3 DEF Acked, Registers
  <2> QED BY <1>8, <2>2, <2>3
<1>10. Acknowledge
  <2>1. SUFFICES ASSUME NEW i \in Lines, acks[i] # MaxTS, acks'[i] = MaxTS \/ BitIsDue(io, now)
                 PROVE  IF acks[i] = now
                        THEN io'.dsr_active_until_ts[i] - now' = Pulse /\ ("dsrirq" \in io.Control => io'.istatus)
                        ELSE now < acks[i] /\ BitIsDue(io, now)
    BY DEF Acknowledge
  <2>2. acks'[i] = MaxTS => a[i] = MaxTS
    <3>1. a[i] \in Nat /\ a[i] <= MaxTS /\ acks'[i] = IF a[i] = MaxTS THEN a[i] ELSE a[i] - now
      BY <1>1, <1>3 DEF Acked
    <3> QED BY <1>8, <3>1
  <2>3. IF acks[i] = now THEN u.dsr_active_until_ts[i] = now + Pulse /\ ("dsrirq" \in io.Control => u.istatus = TRUE)
        ELSE now < acks[i] /\ BitIsDue(io, now)
    BY <1>2, <2>1, <2>2 DEF Passed
  <2>4. io'.istatus = u.istatus
    BY <1>6 DEF Alike
  <2>5. u.dsr_active_until_ts[i] = now + Pulse => until[i] = Pulse
    BY <1>5, <1>8 DEF Pulse
  <2> QED BY <1>1, <1>6, <2>3, <2>4, <2>5 DEF Pulse
<1> QED BY <1>7, <1>9, <1>10 DEF Faithful

------------------------------------------------------------------------------
(* The frontend, and the CPU between two accesses.                          *)

LEMMA IdleFaithful ==
  ASSUME StepInv, UNCHANGED <<io, disturbed, acks>> PROVE Faithful
<1>1. Whole(io', disturbed') /\ Acked(io', acks')
  BY DEF StepInv, Whole, Acked
<1>2. Exchange
  BY DEF Exchange, Finishes
<1>3. Acknowledge
  BY DEF Acknowledge
<1> QED BY <1>1, <1>2, <1>3 DEF Faithful

LEMMA FrontendFaithful ==
  ASSUME pc = "frontend", Whole(io', disturbed'), Acked(io', acks') PROVE Faithful
  BY DEF Faithful, Exchange, Finishes, Acknowledge

LEMMA SetInputFaithful ==
  ASSUME StepInv, NEW port \in 0..1, SetInput(port) PROVE Faithful
<1> DEFINE pulses == [io.irq10_pulse_ts EXCEPT ![port] = MaxTS]
           devs == [io.dev EXCEPT ![port] = NewDevice]
<1>1. /\ pc = "frontend" /\ io' = [io EXCEPT !.irq10_pulse_ts = pulses, !.dev = devs]
      /\ disturbed' = TRUE /\ acks' = acks
  BY DEF SetInput, StepInv, IInv, TypeOK, Registers
<1>2. io \in Registers /\ Settled(io) /\ Acked(io, acks)
  BY DEF StepInv, IInv, TypeOK, Whole
<1> HIDE DEF pulses, devs
<1>3. /\ Untouched(io, io') /\ io'.dsr_pulse_delay = io.dsr_pulse_delay /\ io'.lastts = io.lastts
      /\ io'.TransmitInProgress = io.TransmitInProgress /\ io'.ReceiveInProgress = io.ReceiveInProgress
  BY <1>1, <1>2 DEF Registers, Untouched
<1>4. Whole(io', disturbed')
  BY <1>1, <1>2, <1>3 DEF Whole, Settled, Triggered, Busy, Untouched
<1>5. Acked(io', acks')
  BY <1>1, <1>2, <1>3 DEF Acked
<1> QED BY <1>1, <1>4, <1>5, FrontendFaithful

\* Devices that no byte was sent to wait for one.
LEMMA PowerOnWhole ==
  Whole(PowerOn, FALSE) /\ Acked(PowerOn, NoAcks)
<1>1. /\ PowerOn.TransmitInProgress = FALSE /\ PowerOn.ReceiveInProgress = FALSE
      /\ PowerOn.TransmitPending = FALSE /\ PowerOn.ReceivePending = FALSE /\ PowerOn.Control = {}
      /\ PowerOn.dev = [i \in Lines |-> NewDevice]
  BY DEF PowerOn
<1>2. \A i \in Lines : PowerOn.dev[i].dtr = FALSE
  BY <1>1 DEF NewDevice
<1>3. \A i \in Lines : ~Selected(PowerOn.Control, i)
  BY <1>1 DEF Selected
<1>4. Whole(PowerOn, FALSE)
  BY <1>1, <1>2, <1>3 DEF Whole, Settled, Triggered, Busy, InStep
<1>5. Acked(PowerOn, NoAcks)
  BY Constants DEF Acked, NoAcks
<1> QED BY <1>4, <1>5

LEMMA PowerFaithful ==
  ASSUME Power PROVE Faithful
<1>1. pc = "frontend" /\ io' = PowerOn /\ disturbed' = FALSE /\ acks' = NoAcks
  BY DEF Power
<1>2. Whole(io', disturbed') /\ Acked(io', acks')
  BY <1>1, PowerOnWhole
<1> QED BY <1>1, <1>2, FrontendFaithful

LEMMA LoadStateFaithful ==
  ASSUME StepInv, LoadState PROVE Faithful
<1>1. pc = "frontend"
  BY DEF LoadState
<1>2. PICK s \in saved : /\ io' = [s.io EXCEPT !.lastts = io.lastts]
                         /\ disturbed' = s.disturbed /\ acks' = s.acks
  BY DEF LoadState
<1> DEFINE f == s.io
<1>3. f.lastts = 0 /\ Whole(f, s.disturbed) /\ Acked(f, s.acks)
  BY DEF StepInv, SavedWhole
<1>4. f \in Registers
  BY DEF StepInv, IInv, TypeOK, States
<1>5. io.lastts = 0
  BY <1>1 DEF StepInv, IInv, TypeOK, Timely, Registers
<1> HIDE DEF f
<1>6. io' = [f EXCEPT !.lastts = 0]
  BY <1>2, <1>5 DEF f
<1>7. Alike(f, io') /\ io'.lastts = 0
  BY <1>4, <1>6 DEF Registers, Alike, Untouched, Resting
<1>8. Whole(io', disturbed')
  BY <1>2, <1>3, <1>7, AlikeWhole
<1>9. Acked(io', acks')
  BY <1>2, <1>3, <1>7 DEF Acked, Alike
<1> QED BY <1>1, <1>8, <1>9, FrontendFaithful

\* What is saved was true between two frames.
LEMMA SavedStaysWhole ==
  ASSUME StepInv, [Next]_vars PROVE SavedWhole'
<1>1. CASE saved' = saved
  BY <1>1 DEF StepInv, SavedWhole
<1>2. CASE SaveState
  <2> DEFINE s == [io |-> io, disturbed |-> disturbed, acks |-> acks, shots |-> shots]
  <2>1. pc = "frontend" /\ saved' = {s}
    BY <1>2 DEF SaveState
  <2>2. io.lastts = 0
    BY <2>1 DEF StepInv, IInv, TypeOK, Timely, Registers
  <2>3. s.io = io /\ s.disturbed = disturbed /\ s.acks = acks
    OBVIOUS
  <2> HIDE DEF s
  <2> QED BY <2>1, <2>2, <2>3 DEF StepInv, SavedWhole
<1>3. saved' = saved \/ SaveState
  <2>1. CASE Game
    BY <2>1 DEF Game, WriteData, ReadData, ReadOther, WriteRate, WriteControl
  <2>2. CASE Updates \/ Hook \/ Tick
    BY <2>2 DEF Updates, Hook, Tick, Event, GPULineHook
  <2>3. CASE Frame
    BY <2>3 DEF Frame, BeginFrame, EndFrame
  <2>4. CASE Frontend
    BY <2>4 DEF Frontend, SetInput, Power, LoadState
  <2>5. CASE UNCHANGED vars
    BY <2>5 DEF vars
  <2> QED BY <2>1, <2>2, <2>3, <2>4, <2>5 DEF Next
<1> QED BY <1>1, <1>2, <1>3

LEMMA StepsFaithful ==
  ASSUME StepInv, [Next]_vars PROVE Faithful
<1>1. CASE Game
  <2>1. CASE \E v \in Bytes : WriteData(v)
    BY <2>1, WriteDataFaithful
  <2>2. CASE ReadData
    BY <2>2, ReadDataFaithful
  <2>3. CASE ReadOther
    BY <2>3, ReadOtherFaithful
  <2>4. CASE \E r \in Rates : WriteRate(r)
    BY <2>4, WriteRateFaithful
  <2>5. CASE \E c \in Controls, ack, reset \in BOOLEAN : WriteControl(c, ack, reset)
    BY <2>5, WriteControlFaithful
  <2> QED BY <1>1, <2>1, <2>2, <2>3, <2>4, <2>5 DEF Game
<1>2. CASE Updates
  BY <1>2, EventFaithful DEF Updates
<1>3. CASE Hook
  BY <1>3, HookFaithful DEF Hook
<1>4. CASE Tick
  BY <1>4, IdleFaithful DEF Tick
<1>5. CASE Frame
  <2>1. CASE BeginFrame
    BY <2>1, IdleFaithful DEF BeginFrame
  <2> QED BY <1>5, <2>1, EndFrameFaithful DEF Frame
<1>6. CASE Frontend
  <2>1. CASE SaveState
    BY <2>1, IdleFaithful DEF SaveState
  <2> QED BY <1>6, <2>1, SetInputFaithful, PowerFaithful, LoadStateFaithful DEF Frontend
<1>7. CASE UNCHANGED vars
  BY <1>7, IdleFaithful DEF vars
<1> QED BY <1>1, <1>2, <1>3, <1>4, <1>5, <1>6, <1>7 DEF Next

LEMMA StepInvariance == Spec => []StepInv
<1>1. Init => StepInv
  BY InitHolds, PowerOnWhole DEF Init, StepInv, SavedWhole
<1>2. StepInv /\ [Next]_vars => StepInv'
  <2>1. SUFFICES ASSUME StepInv, [Next]_vars PROVE StepInv'
    OBVIOUS
  <2>2. IInv'
    BY <2>1, Inductive DEF StepInv
  <2>3. Faithful
    BY <2>1, StepsFaithful
  <2>4. SavedWhole'
    BY <2>1, SavedStaysWhole
  <2> QED BY <2>2, <2>3, <2>4 DEF StepInv, Faithful
<1> QED BY <1>1, <1>2, PTL DEF Spec

\* A transfer that the game leaves alone carries the whole byte to every selected device and
\* brings back what they said, whatever the game broke off, the frontend plugged in or loaded
\* before the devices were last deselected (frontio.cpp:Update, CheckStartStopPending, Write).
THEOREM ExchangesStayWhole == Spec => ExchangesAreWhole
<1>1. StepInv /\ [Next]_vars => Exchange
  BY StepsFaithful DEF Faithful
<1> QED BY <1>1, StepInvariance, PTL DEF Spec, ExchangesAreWhole, Exchange, Finishes

\* An acknowledge comes at the time that the device said, across the end of a frame and a
\* loaded state, and is lost only to a game that deselects the device or does not wait for it
\* (frontio.cpp:Update, EndFrame, StateAction).
THEOREM AcksDoArrive == Spec => AcksAreHeard
<1>1. StepInv /\ [Next]_vars => Acknowledge
  BY StepsFaithful DEF Faithful
<1> QED BY <1>1, StepInvariance, PTL DEF Spec, AcksAreHeard, Acknowledge
==============================================================================

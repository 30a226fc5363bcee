---------------------------- MODULE Peripherals_proofs ----------------------------
(***************************************************************************)
(* The timers: type correctness, and that no interrupt of a timer is late, *)
(* for every width of the counters, divider, horizon, mode and value.      *)
(*                                                                         *)
(* The devices of a serial port: what a memory card holds reaches its file,*)
(* is what the game hears of it, and changes only by whole writes, for     *)
(* every card, set of devices, delay and sequence of bytes.                *)
(***************************************************************************)
EXTENDS Timer, SerialPort, SequenceTheorems, WellFoundedInduction, TLAPS

------------------------------------------------------------------------------
(* Arithmetic of the divider.                                               *)

\* n clocks and what the divider held make a whole number of counts and a rest
\* that stays in the divider (the shift by 3 in ClockTimer).
LEMMA Division ==
  ASSUME NEW D \in Nat \ {0}, NEW x \in Nat
  PROVE  /\ x \div D \in Nat /\ x % D \in 0..(D - 1)
         /\ x = D * (x \div D) + (x % D)
  OBVIOUS

\* No more counts than clocks.
LEMMA FewerCounts ==
  ASSUME NEW D \in Nat \ {0}, NEW d \in 0..(D - 1), NEW n \in Nat
  PROVE  (d + n) \div D \in 0..n
<1> DEFINE q == (d + n) \div D
           r == (d + n) % D
<1>1. q \in Nat /\ r \in 0..(D - 1) /\ d + n = D * q + r
  <2>1. d + n \in Nat
    OBVIOUS
  <2>2. \A x \in Nat : /\ x \div D \in Nat /\ x % D \in 0..(D - 1)
                       /\ x = D * (x \div D) + (x % D)
    BY Division
  <2> QED BY <2>1, <2>2
<1> HIDE DEF q, r
<1>2. SUFFICES ASSUME q > n PROVE FALSE
  BY <1>1 DEF q
<1>3. PICK k \in Nat : q = n + 1 + k
  <2>1. q - n - 1 \in Nat /\ q = n + 1 + (q - n - 1)
    BY <1>1, <1>2
  <2> QED BY <2>1
<1>4. D * q = D * n + D + D * k
  BY <1>1, <1>3
<1>5. D * n \in Nat /\ D * k \in Nat /\ D * n >= n
  BY <1>3
<1> QED BY <1>1, <1>4, <1>5

------------------------------------------------------------------------------
(* Types.                                                                   *)

LEMMA Constants ==
  /\ Wrap \in Nat /\ Wrap > 0 /\ Divider \in Nat \ {0} /\ Cap \in Nat /\ Cap > 0 /\ Cap < Wrap
  /\ MaxDots \in Nat /\ MaxDots <= Wrap
  BY TimersAssumption, CapAssumption

LEMMA ClearedType == Cleared \in TimerState
  BY Constants DEF Cleared, TimerState, ModeBits

LEMMA FireType == ASSUME NEW t \in TimerState PROVE Fire(t) \in TimerState
  BY DEF Fire, TimerState, ModeBits

\* A batch of at most 0x10000 clocks leaves the counter and the divider in range.
LEMMA ClockTimerType ==
  ASSUME NEW i \in Present, NEW t \in TimerState, NEW n \in 0..Wrap
  PROVE  ClockTimer(i, t, n) \in TimerState
<1> DEFINE clocks == Counts(i, t, n)
           count  == IF AtZeroTarget(t) THEN 0 ELSE t.Counter + clocks
           rearms == clocks > 0 /\ t.Mode.repeat
           moved  == [t EXCEPT !.Counter = count, !.Div8Counter = Divided(i, t, n),
                               !.IRQDone = @ /\ ~rearms]
           left   == Remainder(t, count)
           over   == [moved EXCEPT !.Counter = left,
                                   !.overflow = @ \/ (count >= Wrap /\ Goal(t) = Wrap)]
           hit    == AtZeroTarget(t) \/ (t.Counter < Goal(t) /\ count >= Goal(t)) \/ count >= Wrap
<1>1. clocks \in 0..n
  <2>1. t.Div8Counter \in 0..(Divider - 1) /\ n \in Nat /\ Divider \in Nat \ {0}
    BY Constants DEF TimerState
  <2>2. (t.Div8Counter + n) \div Divider \in 0..n
    BY <2>1, FewerCounts
  <2> QED BY <2>1, <2>2 DEF Counts
<1>2. Divided(i, t, n) \in 0..(Divider - 1)
  <2>1. t.Div8Counter \in 0..(Divider - 1)
    BY DEF TimerState
  <2>2. t.Div8Counter + n \in Nat
    BY <2>1, Constants
  <2>3. (t.Div8Counter + n) % Divider \in 0..(Divider - 1)
    BY <2>2, Constants, Division
  <2> QED BY <2>1, <2>3 DEF Divided
<1>3. Goal(t) \in 0..Wrap /\ t.Counter \in 0..(Wrap - 1)
  BY Constants DEF Goal, TimerState, ModeBits
<1>4. count \in Nat /\ count < Wrap + Wrap /\ (Goal(t) = 0 /\ hit => count = 0 \/ count >= Wrap)
  BY <1>1, <1>3, Constants DEF AtZeroTarget
<1>5. hit => left \in 0..(Wrap - 1)
  <2> DEFINE wrapped == IF count < Wrap THEN count ELSE IF Goal(t) = 0 THEN 0 ELSE count - Wrap
  <2> SUFFICES ASSUME hit PROVE left \in 0..(Wrap - 1)
    OBVIOUS
  <2>1. wrapped \in 0..(Wrap - 1) /\ (Goal(t) # 0 => Goal(t) \in Nat \ {0})
    BY <1>3, <1>4, Constants
  <2> HIDE DEF wrapped, count
  <2>2. Goal(t) # 0 => wrapped % Goal(t) \in 0..(Goal(t) - 1)
    BY <2>1, Division
  <2>3. left = IF Goal(t) = 0 THEN wrapped ELSE wrapped % Goal(t)
    BY DEF Remainder, wrapped
  <2> QED BY <1>3, <2>1, <2>2, <2>3, Constants
<1>6. ~hit => count \in 0..(Wrap - 1)
  BY <1>4, Constants
<1>7. ClockTimer(i, t, n) =
        IF hit THEN [Fire(over) EXCEPT !.IRQDone = @ /\ ~(left # 0 /\ t.Mode.repeat)] ELSE moved
  BY DEF ClockTimer
<1> HIDE DEF clocks, count, left, hit
<1>8. CASE ~hit
  BY <1>2, <1>6, <1>7, <1>8 DEF TimerState
<1>9. CASE hit
  <2>1. over \in TimerState
    BY <1>2, <1>5, <1>9 DEF TimerState
  <2> HIDE DEF over
  <2> QED BY <1>7, <1>9, <2>1, FireType DEF TimerState
<1> QED BY <1>8, <1>9

LEMMA WriteType ==
  ASSUME NEW t \in TimerState, NEW v \in Values
  PROVE  WriteCount(t, v) \in TimerState /\ WriteTarget(t, v) \in TimerState
<1>1. v \in 0..(Wrap - 1)
  BY TimersAssumption
<1>2. [t EXCEPT !.IRQDone = FALSE] \in TimerState
  BY DEF TimerState
<1>3. \A u \in TimerState : [u EXCEPT !.Counter = v] \in TimerState
  BY <1>1 DEF TimerState
<1> QED BY <1>1, <1>2, <1>3, FireType DEF WriteCount, WriteTarget, TimerState

LEMMA ModeType ==
  ASSUME NEW i \in Present, NEW t \in TimerState, NEW mode \in Modes[i], NEW blank \in BOOLEAN
  PROVE  WriteMode(i, t, mode, blank) \in TimerState
<1>1. [t EXCEPT !.Mode = mode, !.IRQDone = FALSE] \in TimerState
  BY TimersAssumption DEF TimerState
<1>2. CountingStart(i, mode, blank) \in {-1, 0, 1}
  BY DEF CountingStart
<1>3. \A u \in TimerState : \A c \in {-1, 0, 1}, z \in 0..(Wrap - 1) :
        [u EXCEPT !.Counter = z, !.DoZeCounting = c] \in TimerState
  BY DEF TimerState
<1>4. 0 \in 0..(Wrap - 1)
  BY Constants
<1> QED BY <1>1, <1>2, <1>3, <1>4, FireType DEF WriteMode

LEMMA RetraceType ==
  ASSUME NEW i \in Present, NEW t \in TimerState, NEW was \in BOOLEAN, NEW status \in BOOLEAN
  PROVE  SetVBlank(i, t, was, status) \in TimerState /\ SetHRetrace(i, t, was, status) \in TimerState
<1>1. \A z \in 0..(Wrap - 1), c \in {-1, 0, 1} :
        /\ [t EXCEPT !.Counter = z] \in TimerState
        /\ [t EXCEPT !.DoZeCounting = c] \in TimerState
        /\ [[t EXCEPT !.Counter = z] EXCEPT !.DoZeCounting = c] \in TimerState
  BY DEF TimerState
<1>2. 0 \in 0..(Wrap - 1) /\ t.Counter \in 0..(Wrap - 1)
  BY Constants DEF TimerState
<1>3. SetHRetrace(i, t, was, status) \in TimerState
  BY <1>1, <1>2 DEF SetHRetrace
<1>4. SetVBlank(i, t, was, status) \in TimerState
  BY <1>1, <1>2 DEF SetVBlank
<1> QED BY <1>3, <1>4

LEMMA UpdateType ==
  ASSUME NEW timers \in [Present -> TimerState], behind \in 0..Cap
  PROVE  TIMER_Update(timers) \in [Present -> TimerState] /\ Again(timers) \in [Present -> TimerState]
  BY ClockTimerType, Constants DEF TIMER_Update, Again

LEMMA DotsType ==
  ASSUME NEW timers \in [Present -> TimerState], NEW n \in 0..MaxDots
  PROVE  AddDotClocks(timers, n) \in [Present -> TimerState]
  BY ClockTimerType, Constants DEF AddDotClocks

\* Whatever the timers, the event is put in the future and at most 1024 ahead.
LEMMA ScheduleType ==
  ASSUME Timers' \in [Present -> TimerState], Schedule
  PROVE  behind' = 0 /\ behind' \in 0..Cap /\ due' \in 0..Cap /\ behind' + due' <= Cap
<1>1. \A h \in Horizons(Timers') : h \in Int /\ h >= 0
  <2>1. \A i \in Present, t \in TimerState : Clocks(i, t) \in Int /\ Clocks(i, t) >= 0
    <3> SUFFICES ASSUME NEW i \in Present, NEW t \in TimerState
                 PROVE  Clocks(i, t) \in Int /\ Clocks(i, t) >= 0
      OBVIOUS
    <3>1. Ahead(t) - t.Counter \in Nat \ {0} /\ t.Div8Counter \in 0..(Divider - 1)
      BY Constants DEF Ahead, TimerState, ModeBits
    <3>2. \A c \in Nat \ {0} : (c - 1) * Divider \in Nat
      BY Constants
    <3> QED BY <3>1, <3>2, Constants DEF Clocks
  <2> QED BY <2>1, Constants DEF Horizons
<1>2. Cap \in Horizons(Timers')
  BY DEF Horizons
<1>3. behind' = 0 /\ due' \in 0..Cap
  BY <1>1, <1>2, Constants DEF Schedule, CalcNextEvent
<1>4. \A d \in 0..Cap : 0 \in 0..Cap /\ 0 + d <= Cap
  BY Constants
<1> QED BY <1>3, <1>4, Zenon

LEMMA TypeInit == Init => TypeOK
<1> SUFFICES ASSUME Init PROVE TypeOK
  OBVIOUS
<1>1. vblank \in BOOLEAN /\ hretrace \in BOOLEAN /\ LinePhase \in {0, 1}
  BY Zenon DEF Init
<1>2. Timers \in [Present -> TimerState]
  BY ClearedType DEF Init
<1>3. behind \in 0..Cap /\ due \in 0..Cap /\ behind + due <= Cap
  BY Constants DEF Init
<1> QED BY <1>1, <1>2, <1>3 DEF TypeOK

LEMMA TypeStep == TypeOK /\ [Next]_vars => TypeOK'
<1> SUFFICES ASSUME TypeOK, [Next]_vars PROVE TypeOK'
  OBVIOUS
<1> USE DEF TypeOK
<1>1. TIMER_Update(Timers) \in [Present -> TimerState]
  BY UpdateType
<1>2. CASE UNCHANGED vars
  BY <1>2 DEF vars
<1>3. CASE Tick
  BY <1>3, Constants DEF Tick
<1>4. CASE Update
  BY <1>1, <1>4, ScheduleType, Constants DEF Update
<1>5. ASSUME NEW i \in Present, NEW t \in TimerState, Read(i, t) PROVE TypeOK'
  <2>1. Timers' \in [Present -> TimerState]
    BY <1>1, <1>5 DEF Read
  <2> QED BY <1>5, <2>1, Constants DEF Read
<1>6. CASE TIMER_Read
  <2>1. \A i \in Present : TIMER_Update(Timers)[i] \in TimerState
                           /\ ReadMode(TIMER_Update(Timers)[i]) \in TimerState
    BY <1>1, ZenonT(40) DEF ReadMode, TimerState
  <2> QED BY <1>5, <1>6, <2>1 DEF TIMER_Read
<1>7. ASSUME NEW i \in Present, NEW t \in TimerState, Write(i, t) PROVE TypeOK'
  <2>1. Timers' \in [Present -> TimerState]
    BY <1>1, <1>7 DEF Write
  <2> QED BY <1>7, <2>1, ScheduleType, Constants DEF Write
<1>8. CASE TIMER_Write
  <2> PICK i \in Present :
        LET t == TIMER_Update(Timers)[i]
        IN \/ \E v \in Values : Write(i, WriteCount(t, v)) \/ Write(i, WriteTarget(t, v))
           \/ \E mode \in Modes[i] : Write(i, WriteMode(i, t, mode, vblank))
    BY <1>8 DEF TIMER_Write
  <2>1. TIMER_Update(Timers)[i] \in TimerState
    BY <1>1
  <2>2. CASE \E v \in Values : Write(i, WriteCount(TIMER_Update(Timers)[i], v))
                               \/ Write(i, WriteTarget(TIMER_Update(Timers)[i], v))
    <3>1. \A v \in Values : /\ WriteCount(TIMER_Update(Timers)[i], v) \in TimerState
                            /\ WriteTarget(TIMER_Update(Timers)[i], v) \in TimerState
      BY <2>1, WriteType
    <3> QED BY <1>7, <2>2, <3>1
  <2>3. CASE \E mode \in Modes[i] : Write(i, WriteMode(i, TIMER_Update(Timers)[i], mode, vblank))
    <3> PICK mode \in Modes[i] : Write(i, WriteMode(i, TIMER_Update(Timers)[i], mode, vblank))
      BY <2>3
    <3>1. WriteMode(i, TIMER_Update(Timers)[i], mode, vblank) \in TimerState
      BY <2>1, ModeType
    <3> QED BY <1>7, <3>1
  <2> QED BY <2>2, <2>3
<1>9. CASE IRQ_Write
  <2> PICK i \in Present : Timers' = [Timers EXCEPT ![i] = Acknowledge(@)]
    BY <1>9 DEF IRQ_Write
  <2>1. Acknowledge(Timers[i]) \in TimerState
    BY DEF Acknowledge, TimerState
  <2> QED BY <1>9, <2>1 DEF IRQ_Write
<1>10. CASE GPU
  <2> PICK n \in 0..MaxDots :
        Dots(n) \/ RetraceBegins(n) \/ \E status \in BOOLEAN : RetraceEnds(n, status)
    BY <1>10 DEF GPU
  <2>1. AddDotClocks(Timers, n) \in [Present -> TimerState]
    BY DotsType
  <2> DEFINE caught == TIMER_Update(AddDotClocks(Timers, n))
  <2>2. caught \in [Present -> TimerState]
    BY <2>1, UpdateType
  <2> HIDE DEF caught
  <2>3. CASE Dots(n)
    BY <2>1, <2>3 DEF Dots
  <2>4. CASE RetraceBegins(n)
    <3> DEFINE clocked == [i \in Present |->
                             IF i = 1 /\ caught[i].Mode.gpu THEN ClockTimer(i, caught[i], 1) ELSE caught[i]]
    <3>1. clocked \in [Present -> TimerState]
      BY <2>2, ClockTimerType, Constants
    <3> HIDE DEF clocked
    <3>2. Again(clocked) \in [Present -> TimerState]
      BY <3>1, UpdateType
    <3>3. Timers' = Again(clocked)
      BY <2>4 DEF RetraceBegins, caught, clocked
    <3>4. vblank' \in BOOLEAN /\ hretrace' \in BOOLEAN /\ LinePhase' \in {0, 1}
      BY <2>4, Zenon DEF RetraceBegins
    <3>5. Schedule
      BY <2>4 DEF RetraceBegins
    <3>6. behind' \in 0..Cap /\ due' \in 0..Cap /\ behind' + due' <= Cap
      BY <3>2, <3>3, <3>5, ScheduleType
    <3> QED BY <3>2, <3>3, <3>4, <3>6
  <2>5. ASSUME NEW status \in BOOLEAN, RetraceEnds(n, status) PROVE TypeOK'
    <3> DEFINE changed == [i \in Present |->
                SetVBlank(i, SetHRetrace(i, caught[i], hretrace, FALSE), vblank, status)]
    <3>1. changed \in [Present -> TimerState]
      BY <2>2, RetraceType
    <3> HIDE DEF changed
    <3>2. Again(changed) \in [Present -> TimerState]
      BY <3>1, UpdateType
    <3>3. Timers' = Again(changed)
      BY <2>5 DEF RetraceEnds, caught, changed
    <3>4. vblank' \in BOOLEAN /\ hretrace' \in BOOLEAN /\ LinePhase' \in {0, 1}
      BY <2>5, Zenon DEF RetraceEnds
    <3>5. Schedule
      BY <2>5 DEF RetraceEnds
    <3>6. behind' \in 0..Cap /\ due' \in 0..Cap /\ behind' + due' <= Cap
      BY <3>2, <3>3, <3>5, ScheduleType
    <3> QED BY <3>2, <3>3, <3>4, <3>6
  <2> QED BY <2>3, <2>4, <2>5
<1>11. CASE TIMER_Power
  <2>1. Timers' \in [Present -> TimerState]
    BY <1>11, ClearedType DEF TIMER_Power
  <2>2. vblank' \in BOOLEAN /\ hretrace' \in BOOLEAN /\ LinePhase' \in {0, 1}
    BY <1>11, Zenon DEF TIMER_Power
  <2>3. behind' \in 0..Cap /\ due' \in 0..Cap /\ behind' + due' <= Cap
    BY <1>11, <2>1, ScheduleType DEF TIMER_Power
  <2> QED BY <2>1, <2>2, <2>3
<1> QED BY <1>2, <1>3, <1>4, <1>6, <1>8, <1>9, <1>10, <1>11 DEF Next

\* The counters, the divider and the time until the event stay in range however far
\* the timers are behind (ClockTimer, CalcNextEvent).
THEOREM TypeCorrect == Spec => []TypeOK
  BY TypeInit, TypeStep, PTL DEF Spec

------------------------------------------------------------------------------
(* The prediction.                                                          *)

\* Fewer clocks than it takes to make "a" counts make fewer, and those still to come
\* are the ones predicted less the ones that passed (CalcNextEvent with the divider).
LEMMA DividedClocks ==
  ASSUME NEW D \in Nat \ {0}, NEW d \in 0..(D - 1), NEW n \in Nat, NEW a \in Nat \ {0},
         n < (a - 1) * D + (D - d)
  PROVE  /\ (d + n) \div D \in 0..(a - 1)
         /\ (a - ((d + n) \div D) - 1) * D + (D - ((d + n) % D)) = ((a - 1) * D + (D - d)) - n
<1> DEFINE q == (d + n) \div D
           r == (d + n) % D
<1>1. q \in Nat /\ r \in 0..(D - 1) /\ d + n = D * q + r
  <2>1. d + n \in Nat
    OBVIOUS
  <2>2. \A x \in Nat : /\ x \div D \in Nat /\ x % D \in 0..(D - 1)
                       /\ x = D * (x \div D) + (x % D)
    BY Division
  <2> QED BY <2>1, <2>2
<1> HIDE DEF q, r
<1>2. (a - 1) * D + D = a * D /\ a * D \in Nat
  OBVIOUS
<1>3. q < a
  <2> SUFFICES ASSUME q >= a PROVE FALSE
    BY <1>1
  <2>1. PICK k \in Nat : q = a + k
    <3>1. q - a \in Nat /\ q = a + (q - a)
      BY <1>1
    <3> QED BY <3>1
  <2>2. D * q = a * D + D * k /\ D * k \in Nat
    BY <1>1, <2>1
  <2>3. d + n < a * D
    BY <1>2
  <2> QED BY <1>1, <1>2, <2>2, <2>3
<1>4. (a - q - 1) * D + (D - r) = ((a - 1) * D + (D - d)) - n
  <2>1. (a - q - 1) * D = (a - 1) * D - D * q
    BY <1>1
  <2>2. (a - 1) * D \in Int /\ D * q \in Int
    BY <1>1
  <2> QED BY <1>1, <2>1, <2>2
<1> QED BY <1>1, <1>3, <1>4 DEF q, r

Counting(i, t) == t.DoZeCounting > 0 /\ ~Stopped(i, t)

\* An event d clocks after the timer was brought up to date comes no later than the
\* timer's interrupt.
Covers(i, t, d) ==
  Predicted(i, t) =>
    /\ AtZeroTarget(t) /\ ~t.IRQDone => d <= 1
    /\ Counting(i, t) /\ ~AtZeroTarget(t) => d <= Clocks(i, t)

OnTime == \A i \in Present : Covers(i, Timers[i], behind + due)

IInv == TypeOK /\ OnTime

LEMMA ClocksType ==
  ASSUME NEW i \in Present, NEW t \in TimerState
  PROVE  /\ Ahead(t) \in 0..Wrap /\ t.Counter \in Nat /\ Ahead(t) - t.Counter \in Nat \ {0}
         /\ t.Div8Counter \in 0..(Divider - 1)
         /\ Clocks(i, t) \in Nat
<1>1. /\ Ahead(t) \in 0..Wrap /\ t.Counter \in Nat /\ Ahead(t) - t.Counter \in Nat \ {0}
      /\ t.Div8Counter \in 0..(Divider - 1)
  BY Constants DEF Ahead, TimerState, ModeBits
<1>2. \A c \in Nat \ {0} : (c - 1) * Divider \in Nat
  BY Constants
<1> QED BY <1>1, <1>2, Constants DEF Clocks

\* Before the predicted time a timer only counts: it reaches no goal, and as many
\* clocks are left as were predicted less the ones that passed.
LEMMA NotYet ==
  ASSUME NEW i \in Present, NEW t \in TimerState, NEW n \in Nat,
         Counting(i, t), ~AtZeroTarget(t), n < Clocks(i, t)
  PROVE  /\ Counts(i, t, n) \in Nat
         /\ ClockTimer(i, t, n).Counter = t.Counter + Counts(i, t, n)
         /\ ClockTimer(i, t, n).pending = t.pending
         /\ Clocks(i, ClockTimer(i, t, n)) = Clocks(i, t) - n
<1> DEFINE a == Ahead(t) - t.Counter
           c == Counts(i, t, n)
           d == Divided(i, t, n)
           moved == [t EXCEPT !.Counter = t.Counter + c, !.Div8Counter = d,
                              !.IRQDone = @ /\ ~(c > 0 /\ t.Mode.repeat)]
           divides == i = 2 /\ t.Mode.div8
<1>1. /\ a \in Nat \ {0} /\ t.Counter \in Nat /\ t.Counter + a = Ahead(t) /\ Ahead(t) \in 0..Wrap
      /\ t.Div8Counter \in 0..(Divider - 1)
  BY ClocksType, Constants
<1>2. c \in 0..(a - 1)
      /\ (IF divides THEN (a - c - 1) * Divider + (Divider - d) ELSE a - c) = Clocks(i, t) - n
  <2>1. CASE divides
    <3>1. c = (t.Div8Counter + n) \div Divider /\ d = (t.Div8Counter + n) % Divider
      BY <2>1 DEF Counts, Divided, Counting, TimerState
    <3>2. Clocks(i, t) = (a - 1) * Divider + (Divider - t.Div8Counter)
      BY <2>1 DEF Clocks
    <3> HIDE DEF a, c, d
    <3>3. n < (a - 1) * Divider + (Divider - t.Div8Counter)
      BY <3>2
    <3>4. /\ c \in 0..(a - 1)
          /\ (a - c - 1) * Divider + (Divider - d)
               = ((a - 1) * Divider + (Divider - t.Div8Counter)) - n
      <4>1. Divider \in Nat \ {0}
        BY Constants
      <4> QED BY <1>1, <3>1, <3>3, <4>1, DividedClocks, ZenonT(40)
    <3>5. (IF divides THEN (a - c - 1) * Divider + (Divider - d) ELSE a - c)
            = (a - c - 1) * Divider + (Divider - d)
      BY <2>1
    <3>6. (a - c - 1) * Divider + (Divider - d) = Clocks(i, t) - n
      BY <3>2, <3>4
    <3> HIDE DEF divides
    <3> QED BY <3>4, <3>5, <3>6
  <2>2. CASE ~divides
    <3>1. c = n
      BY <2>2 DEF Counts, Counting, TimerState
    <3>2. Clocks(i, t) = a
      BY <2>2 DEF Clocks
    <3> HIDE DEF a, c, d
    <3> QED BY <1>1, <2>2, <3>1, <3>2
  <2> QED BY <2>1, <2>2
<1> HIDE DEF a, c, d
<1>3. t.Counter + c < Ahead(t)
  BY <1>1, <1>2
<1>4. ~((t.Counter < Goal(t) /\ t.Counter + c >= Goal(t)) \/ t.Counter + c >= Wrap)
  BY <1>1, <1>2, <1>3, Constants DEF Ahead, Goal, TimerState, ModeBits
<1>5. ClockTimer(i, t, n) = moved
  BY <1>4 DEF ClockTimer, c, d
<1>6. /\ moved.Mode = t.Mode /\ moved.Target = t.Target /\ moved.Counter = t.Counter + c
      /\ moved.Div8Counter = d /\ moved.pending = t.pending
  BY DEF TimerState
<1> HIDE DEF moved
<1>7. Ahead(moved) = Ahead(t)
  BY <1>1, <1>2, <1>3, <1>6 DEF Ahead, TimerState, ModeBits
<1>8. Ahead(moved) - moved.Counter = a - c
  BY <1>1, <1>2, <1>6, <1>7
<1>9. Clocks(i, moved) = Clocks(i, t) - n
  BY <1>2, <1>6, <1>8 DEF Clocks
<1> QED BY <1>2, <1>5, <1>6, <1>9 DEF c

LEMMA SameMode ==
  ASSUME NEW i \in Present, NEW t \in TimerState, NEW n \in 0..Wrap
  PROVE  /\ ClockTimer(i, t, n).Mode = t.Mode /\ ClockTimer(i, t, n).Target = t.Target
         /\ ClockTimer(i, t, n).DoZeCounting = t.DoZeCounting
  BY DEF ClockTimer, Fire, TimerState

\* Bringing a timer up to date does not bring its interrupt closer than the event.
LEMMA CatchUp ==
  ASSUME NEW i \in Present, NEW t \in TimerState, NEW n \in 0..Cap, NEW d \in Nat,
         Covers(i, t, n + d)
  PROVE  Covers(i, ClockTimer(i, t, n), d)
<1> DEFINE u == ClockTimer(i, t, n)
<1>1. n \in 0..Wrap /\ n \in Nat
  BY Constants
<1>2. u \in TimerState /\ u.Mode = t.Mode /\ u.Target = t.Target /\ u.DoZeCounting = t.DoZeCounting
  BY <1>1, ClockTimerType, SameMode
<1> SUFFICES ASSUME Predicted(i, u)
             PROVE  /\ AtZeroTarget(u) /\ ~u.IRQDone => d <= 1
                    /\ Counting(i, u) /\ ~AtZeroTarget(u) => d <= Clocks(i, u)
  BY DEF Covers
<1>3. Predicted(i, t) /\ t.Mode.irq /\ (Counting(i, u) <=> Counting(i, t))
  BY <1>2 DEF Predicted, Counting, Stopped
<1>4. Clocks(i, u) \in Nat
  BY <1>2, ClocksType
<1>5. CASE AtZeroTarget(t)
  <2>1. u.Counter = 0 /\ u.IRQDone
    BY <1>3, <1>5, Constants DEF ClockTimer, Fire, Remainder, AtZeroTarget, TimerState
  <2>2. AtZeroTarget(u)
    BY <1>2, <1>5, <2>1 DEF AtZeroTarget, Goal
  <2> QED BY <2>1, <2>2
<1>6. CASE ~AtZeroTarget(t) /\ ~Counting(i, t)
  <2>1. Counts(i, t, n) = 0
    BY <1>6 DEF Counting, Counts, TimerState
  <2>2. u.Counter = t.Counter
    BY <1>6, <2>1, Constants DEF ClockTimer, Goal, TimerState, ModeBits
  <2>3. ~AtZeroTarget(u)
    BY <1>2, <1>6, <2>2 DEF AtZeroTarget, Goal
  <2> QED BY <1>3, <1>6, <2>3
<1>7. CASE ~AtZeroTarget(t) /\ Counting(i, t) /\ n < Clocks(i, t)
  <2>1. n + d <= Clocks(i, t) /\ Clocks(i, t) \in Nat
    BY <1>3, <1>7, ClocksType DEF Covers
  <2>2. Clocks(i, u) = Clocks(i, t) - n /\ Counts(i, t, n) \in Nat
        /\ u.Counter = t.Counter + Counts(i, t, n)
    <3>1. Counting(i, t) /\ ~AtZeroTarget(t) /\ n < Clocks(i, t) /\ n \in Nat
      BY <1>1, <1>7
    <3> QED BY <3>1, NotYet
  <2>3. d <= Clocks(i, u)
    BY <1>1, <2>1, <2>2
  <2>4. ~AtZeroTarget(u)
    <3>1. u.Counter = t.Counter + Counts(i, t, n) /\ Counts(i, t, n) \in Nat
      BY <2>2 DEF TimerState
    <3> QED BY <1>2, <1>7, <3>1 DEF AtZeroTarget, Goal, TimerState
  <2> QED BY <2>3, <2>4
<1>8. CASE ~AtZeroTarget(t) /\ Counting(i, t) /\ ~(n < Clocks(i, t))
  <2>1. n + d <= Clocks(i, t) /\ Clocks(i, t) \in Nat
    BY <1>3, <1>8, ClocksType DEF Covers
  <2>2. d = 0
    BY <1>1, <1>8, <2>1
  <2> QED BY <1>4, <2>2
<1> QED BY <1>5, <1>6, <1>7, <1>8

LEMMA ScheduleCovers ==
  ASSUME Timers' \in [Present -> TimerState], Schedule
  PROVE  OnTime'
<1>1. behind' = 0 /\ due' \in 0..Cap
  BY ScheduleType
<1>2. \A h \in Horizons(Timers') : due' <= h
  BY DEF Schedule, CalcNextEvent
<1> SUFFICES ASSUME NEW i \in Present PROVE Covers(i, Timers'[i], due')
  BY <1>1, Constants DEF OnTime
<1> DEFINE t == Timers'[i]
<1> SUFFICES ASSUME Predicted(i, t)
             PROVE  /\ AtZeroTarget(t) /\ ~t.IRQDone => due' <= 1
                    /\ Counting(i, t) /\ ~AtZeroTarget(t) => due' <= Clocks(i, t)
  BY DEF Covers
<1>3. CASE AtZeroTarget(t) /\ ~t.IRQDone
  <2>1. 1 \in Horizons(Timers')
    BY <1>3 DEF Horizons
  <2> QED BY <1>2, <1>3, <2>1
<1>4. CASE ~AtZeroTarget(t) /\ Counting(i, t)
  <2>1. Clocks(i, t) \in Horizons(Timers')
    BY <1>4 DEF Horizons, Counting
  <2> QED BY <1>2, <1>4, <2>1
<1> QED BY <1>3, <1>4

LEMMA OnTimeInit == Init => OnTime
  BY Constants DEF Init, OnTime, Covers, Predicted, Cleared

LEMMA OnTimeStep == TypeOK /\ TypeOK' /\ OnTime /\ [Next]_vars => OnTime'
<1> SUFFICES ASSUME TypeOK, TypeOK', OnTime, [Next]_vars PROVE OnTime'
  OBVIOUS
<1>1. behind \in 0..Cap /\ due \in Nat /\ Timers \in [Present -> TimerState]
      /\ Timers' \in [Present -> TimerState]
  BY Constants DEF TypeOK
<1>2. \A i \in Present : Covers(i, TIMER_Update(Timers)[i], due)
  <2> SUFFICES ASSUME NEW i \in Present PROVE Covers(i, TIMER_Update(Timers)[i], due)
    OBVIOUS
  <2>1. Covers(i, Timers[i], behind + due)
    BY DEF OnTime
  <2>2. CASE Timers[i].Mode.gpu
    <3>1. Covers(i, Timers[i], due)
      BY <1>1, <2>1, ClocksType, Constants DEF Covers
    <3> QED BY <2>2, <3>1 DEF TIMER_Update
  <2>3. CASE ~Timers[i].Mode.gpu
    BY <1>1, <2>1, <2>3, CatchUp DEF TIMER_Update
  <2> QED BY <2>2, <2>3
\* What Covers looks at: a change of anything else keeps it.
<1>3. ASSUME NEW i \in Present, NEW t \in TimerState, NEW u, NEW d,
             u.Mode = t.Mode, u.Target = t.Target, u.Counter = t.Counter, u.IRQDone = t.IRQDone,
             u.DoZeCounting = t.DoZeCounting, u.Div8Counter = t.Div8Counter, Covers(i, t, d)
      PROVE  Covers(i, u, d)
  BY <1>3 DEF Covers, Predicted, AtZeroTarget, Goal, Counting, Stopped, Clocks, Ahead
<1>4. CASE UNCHANGED vars
  BY <1>4 DEF vars, OnTime
<1>5. CASE Tick
  <2>1. Timers' = Timers /\ behind' + due' = behind + due
    BY <1>1, <1>5 DEF Tick
  <2> QED BY <2>1 DEF OnTime
<1>6. CASE Update \/ TIMER_Write \/ TIMER_Power
  BY <1>1, <1>6, ScheduleCovers DEF Update, TIMER_Write, Write, TIMER_Power
<1>7. CASE TIMER_Read
  <2> PICK i \in Present : \/ Read(i, TIMER_Update(Timers)[i])
                           \/ Read(i, ReadMode(TIMER_Update(Timers)[i]))
    BY <1>7 DEF TIMER_Read
  <2>1. TIMER_Update(Timers) \in [Present -> TimerState] /\ behind' = 0 /\ due' = due
    BY <1>1, UpdateType DEF Read
  <2>2. \A j \in Present : Timers'[j] \in {TIMER_Update(Timers)[j], ReadMode(TIMER_Update(Timers)[j])}
    BY <2>1 DEF Read
  <2>3. \A j \in Present : Covers(j, ReadMode(TIMER_Update(Timers)[j]), due)
    <3> SUFFICES ASSUME NEW j \in Present PROVE Covers(j, ReadMode(TIMER_Update(Timers)[j]), due)
      OBVIOUS
    <3> DEFINE t == TIMER_Update(Timers)[j]
               u == ReadMode(t)
    <3>1. t \in TimerState /\ Covers(j, t, due)
      BY <1>2, <2>1
    <3> HIDE DEF t
    <3>2. /\ u.Mode = t.Mode /\ u.Target = t.Target /\ u.Counter = t.Counter /\ u.IRQDone = t.IRQDone
          /\ u.DoZeCounting = t.DoZeCounting /\ u.Div8Counter = t.Div8Counter
      BY <3>1 DEF ReadMode, TimerState
    <3> HIDE DEF u
    <3>3. Covers(j, u, due)
      BY <1>3, <3>1, <3>2
    <3> QED BY <3>3 DEF u, t
  <2>4. \A j \in Present : Covers(j, Timers'[j], due)
    BY <1>2, <2>2, <2>3
  <2> QED BY <1>1, <2>1, <2>4 DEF OnTime
<1>8. CASE IRQ_Write
  <2> PICK i \in Present : Timers' = [Timers EXCEPT ![i] = Acknowledge(@)]
    BY <1>8 DEF IRQ_Write
  <2>1. behind' = behind /\ due' = due
    BY <1>8 DEF IRQ_Write
  <2> SUFFICES ASSUME NEW j \in Present PROVE Covers(j, Timers'[j], behind + due)
    BY <2>1 DEF OnTime
  <2> DEFINE t == Timers[j]
             u == Timers'[j]
  <2>2. t \in TimerState /\ Covers(j, t, behind + due)
    BY <1>1 DEF OnTime
  <2>3. u = t \/ u = Acknowledge(t)
    BY <1>1
  <2> HIDE DEF t, u
  <2>4. /\ u.Mode = t.Mode /\ u.Target = t.Target /\ u.Counter = t.Counter /\ u.IRQDone = t.IRQDone
        /\ u.DoZeCounting = t.DoZeCounting /\ u.Div8Counter = t.Div8Counter
    BY <2>2, <2>3 DEF Acknowledge, TimerState
  <2>5. Covers(j, u, behind + due)
    BY <1>3, <2>2, <2>4
  <2> QED BY <2>5 DEF u
<1>9. CASE GPU
  <2> PICK n \in 0..MaxDots :
        Dots(n) \/ RetraceBegins(n) \/ \E status \in BOOLEAN : RetraceEnds(n, status)
    BY <1>9 DEF GPU
  <2>1. CASE Dots(n)
    <3>1. Timers' = AddDotClocks(Timers, n) /\ behind' = behind /\ due' = due
      BY <2>1 DEF Dots
    <3> SUFFICES ASSUME NEW j \in Present PROVE Covers(j, Timers'[j], behind + due)
      BY <3>1 DEF OnTime
    <3>2. CASE j = 0 /\ Timers[j].Mode.gpu
      <4>1. Timers'[j] = ClockTimer(j, Timers[j], n)
        BY <3>1, <3>2 DEF AddDotClocks
      <4>2. n \in 0..Wrap
        BY Constants
      <4>3. Timers'[j].Mode = Timers[j].Mode
        BY <1>1, <4>1, <4>2, SameMode
      <4> QED BY <3>2, <4>3 DEF Covers, Predicted
    <3>3. CASE ~(j = 0 /\ Timers[j].Mode.gpu)
      <4>1. Timers'[j] = Timers[j]
        BY <3>1, <3>3 DEF AddDotClocks
      <4> QED BY <4>1 DEF OnTime
    <3> QED BY <3>2, <3>3
  <2>2. CASE RetraceBegins(n) \/ \E status \in BOOLEAN : RetraceEnds(n, status)
    <3>1. Schedule
      BY <2>2 DEF RetraceBegins, RetraceEnds
    <3> QED BY <1>1, <3>1, ScheduleCovers
  <2> QED BY <2>1, <2>2
<1> QED BY <1>4, <1>5, <1>6, <1>7, <1>8, <1>9 DEF Next

LEMMA OnTimeNotLate == TypeOK /\ OnTime => NoLateInterrupt
<1> SUFFICES ASSUME TypeOK, OnTime, NEW i \in Present, Owes(i),
                    ~(AtZeroTarget(Timers[i]) /\ Timers[i].Mode.repeat)
             PROVE  due <= (IF AtZeroTarget(Timers[i]) THEN 1 ELSE 0)
  BY DEF NoLateInterrupt
<1> DEFINE t == [Timers[i] EXCEPT !.pending = FALSE]
<1>1. /\ behind \in Nat /\ due \in Nat /\ Timers[i] \in TimerState
      /\ Covers(i, Timers[i], behind + due)
  BY Constants DEF TypeOK, OnTime
<1>2. /\ t \in TimerState /\ ~t.pending /\ ~t.Mode.gpu /\ ClockTimer(i, t, behind).pending
      /\ t.Mode = Timers[i].Mode /\ t.Target = Timers[i].Target /\ t.Counter = Timers[i].Counter
      /\ t.IRQDone = Timers[i].IRQDone /\ t.DoZeCounting = Timers[i].DoZeCounting
      /\ t.Div8Counter = Timers[i].Div8Counter
  BY <1>1 DEF Owes, TimerState
<1> HIDE DEF t
<1>3. /\ AtZeroTarget(t) <=> AtZeroTarget(Timers[i])
      /\ Covers(i, t, behind + due)
  BY <1>1, <1>2 DEF Covers, Predicted, AtZeroTarget, Goal, Counting, Stopped, Clocks, Ahead
<1>4. t.Mode.irq
  BY <1>2 DEF ClockTimer, Fire, TimerState
<1>5. Predicted(i, t)
  BY <1>2, <1>4 DEF Predicted
<1>6. CASE AtZeroTarget(t)
  <2>1. ~t.Mode.repeat
    BY <1>2, <1>3, <1>6
  <2>2. ~t.IRQDone
    BY <1>2, <1>6, <2>1 DEF ClockTimer, Fire, TimerState
  <2>3. behind + due <= 1
    BY <1>3, <1>5, <1>6, <2>2 DEF Covers
  <2> QED BY <1>1, <1>3, <1>6, <2>3
<1>7. CASE ~AtZeroTarget(t) /\ ~Counting(i, t)
  <2>1. Counts(i, t, behind) = 0
    BY <1>2, <1>7 DEF Counting, Counts, TimerState
  <2>2. ClockTimer(i, t, behind).pending = t.pending
    BY <1>2, <1>7, <2>1, Constants DEF ClockTimer, Goal, TimerState, ModeBits
  <2> QED BY <1>2, <2>2
<1>8. CASE ~AtZeroTarget(t) /\ Counting(i, t)
  <2>1. ~(behind < Clocks(i, t))
    <3> SUFFICES ASSUME behind < Clocks(i, t) PROVE FALSE
      OBVIOUS
    <3>1. ClockTimer(i, t, behind).pending = t.pending
      BY <1>1, <1>2, <1>8, NotYet
    <3> QED BY <1>2, <3>1
  <2>2. behind + due <= Clocks(i, t) /\ Clocks(i, t) \in Nat
    BY <1>2, <1>3, <1>5, <1>8, ClocksType DEF Covers
  <2>3. due = 0
    BY <1>1, <2>1, <2>2
  <2> QED BY <2>3
<1> QED BY <1>6, <1>7, <1>8

\* No interrupt is late: while the event is not due, no timer the CPU clocks has
\* reached its goal without having interrupted (CalcNextEvent, TIMER_Read).
THEOREM InterruptsAreNotLate == Spec => []NoLateInterrupt
<1>1. Init => IInv
  BY TypeInit, OnTimeInit DEF IInv
<1>2. IInv /\ [Next]_vars => IInv'
  BY TypeStep, OnTimeStep DEF IInv
<1>3. IInv => NoLateInterrupt
  BY OnTimeNotLate DEF IInv
<1> QED BY <1>1, <1>2, <1>3, PTL DEF Spec

------------------------------------------------------------------------------
(* The memory card of a serial port.                                          *)

(* A card in a state that the program can have it in: the address of a frame is
   complete before it is used, and is one that there is or the one past the end. *)
CardIsWell(c) ==
    /\ c \in Card
    /\ c.phase \in {1001, 2001} => c.addr <= 65280
    /\ c.phase \in {1003, 1004} => c.addr < Frames \/ c.addr = NoFrame
    /\ c.phase \in 1024..(1025 + FrameLen) => c.addr < Frames

\* What a byte leaves of a card that goes on with its transfer: all but the byte it will
\* send, the phase, the address and the checksum.
Puts(c, d, tx, phase, addr, xor) ==
    /\ d \in Card /\ d.sending = TRUE
    /\ d.tx = tx /\ d.phase = phase /\ d.addr = addr /\ d.xor = xor
    /\ d.dtr = c.dtr /\ d.command = c.command /\ d.wxor = c.wxor /\ d.rw = c.rw
    /\ d.isnew = c.isnew /\ d.data = c.data /\ d.used = c.used /\ d.dirty = c.dirty

\* A card that gives up.
Drops(c, d) ==
    /\ d \in Card /\ d.sending = c.sending /\ d.phase = -1 /\ d.dtr = c.dtr
    /\ d.data = c.data /\ d.dirty = c.dirty

\* A range is given to the provers by its bounds, and not number by number.
LEMMA RangeIs ==
  ASSUME NEW lo \in Int, NEW hi \in Int
  PROVE  \A x : x \in lo..hi <=> x \in Int /\ lo <= x /\ x <= hi
OBVIOUS

LEMMA ByteIs == \A x : x \in Byte <=> x \in Int /\ 0 <= x /\ x <= 255
<1>1. 0 \in Int /\ 255 \in Int
  OBVIOUS
<1>2. QED
  BY <1>1, RangeIs, ZenonT(40) DEF Byte

LEMMA AddrIs == \A x : x \in Addr <=> x \in Int /\ 0 <= x /\ x <= 65535
<1>1. 0 \in Int /\ NoFrame \in Int
  BY DEF NoFrame
<1>2. \A x : x \in Addr <=> x \in Int /\ 0 <= x /\ x <= NoFrame
  BY <1>1, RangeIs, Zenon DEF Addr
<1>3. QED
  BY <1>2 DEF NoFrame

LEMMA CardBytes ==
  /\ \A b \in Byte : b * 256 \in Addr /\ b * 256 <= 65280
  /\ \A a \in Addr, b \in Byte : a <= 65280 => a + b \in Addr
  /\ 0 \in Byte /\ 71 \in Byte /\ 78 \in Byte /\ 92 \in Byte /\ 93 \in Byte /\ 255 \in Byte
BY ByteIs, AddrIs

LEMMA HighLow == \A a \in Addr : High(a) \in Byte /\ Low(a) \in Byte
BY ByteIs, AddrIs DEF High, Low

LEMMA SmallFrames == FrameLen \in 1..128 /\ Frames \in 1..1024
BY CardAssumption

LEMMA FramesAreNat == FrameLen \in Nat /\ Frames \in Nat
BY SmallFrames

LEMMA CardFields ==
  ASSUME NEW c \in Card
  PROVE  /\ c.dtr \in BOOLEAN /\ c.phase \in CardPhase /\ c.sending \in BOOLEAN /\ c.tx \in Byte
         /\ c.command \in Byte /\ c.addr \in Addr /\ c.xor \in Byte /\ c.wxor \in Byte
         /\ c.rw \in Frame /\ c.isnew \in BOOLEAN /\ c.data \in Contents /\ c.used \in BOOLEAN
         /\ c.dirty \in Nat
BY DEF Card

LEMMA SaysDoes ==
  ASSUME NEW c \in Card, NEW b \in Byte, NEW p \in CardPhase
  PROVE  Puts(c, Says(c, b, p), b, p, c.addr, c.xor)
BY DEF Card, Says, Puts

\* The same when the address or the checksum has just been set.
LEMMA SaysThere ==
  ASSUME NEW c \in Card, NEW a \in Addr, NEW b \in Byte, NEW p \in CardPhase
  PROVE  Puts(c, Says([c EXCEPT !.addr = a], b, p), b, p, a, c.xor)
BY DEF Card, Says, Puts

LEMMA SaysSummed ==
  ASSUME NEW c \in Card, NEW x \in Byte, NEW b \in Byte, NEW p \in CardPhase
  PROVE  Puts(c, Says([c EXCEPT !.xor = x], b, p), b, p, c.addr, x)
BY DEF Card, Says, Puts

SetsBoth(c, a, x, b, p) == Says([c EXCEPT !.addr = a, !.xor = x], b, p)
SumsThere(c, a, x, b, p) == Says([c EXCEPT !.xor = x, !.addr = a], b, p)

LEMMA SaysBoth ==
  ASSUME NEW c \in Card, NEW a \in Addr, NEW x \in Byte, NEW b \in Byte, NEW p \in CardPhase
  PROVE  /\ Puts(c, SetsBoth(c, a, x, b, p), b, p, a, x)
         /\ Puts(c, SumsThere(c, a, x, b, p), b, p, a, x)
<1>1. Puts(c, SetsBoth(c, a, x, b, p), b, p, a, x)
  BY DEF Card, Says, Puts, SetsBoth
<1>2. Puts(c, SumsThere(c, a, x, b, p), b, p, a, x)
  BY DEF Card, Says, Puts, SumsThere
<1>3. QED
  BY <1>1, <1>2, Zenon

LEMMA SelectDoes ==
  ASSUME NEW c \in Card, NEW b \in Byte
  PROVE  /\ b = 129 => \E v \in {0, 8} : Puts(c, Select(c, b), v, 1, c.addr, c.xor)
         /\ b # 129 => Drops(c, Select(c, b))
<1>1. CASE b = 129
  <2>1. 0 \in Byte /\ 8 \in Byte /\ 1 \in CardPhase
    BY SmallFrames, ByteIs DEF CardPhase
  <2>2. PICK v \in {0, 8} : Select(c, b) = Says(c, v, 1)
    BY <1>1 DEF Select
  <2>3. Puts(c, Says(c, v, 1), v, 1, c.addr, c.xor)
    BY <2>1, SaysDoes
  <2>4. QED
    BY <1>1, <2>2, <2>3, Zenon
<1>2. CASE b # 129
  <2>1. Select(c, b) = [c EXCEPT !.phase = -1]
    BY <1>2 DEF Select
  <2>2. -1 \in CardPhase
    BY ByteIs DEF CardPhase
  <2>3. Drops(c, [c EXCEPT !.phase = -1])
    BY <2>2 DEF Card, Drops
  <2>4. QED
    BY <1>2, <2>1, <2>3, Zenon
<1>3. QED
  BY <1>1, <1>2

\* The command is kept.
\* The commands a card knows, 'R' and 'W'.
Supported == {82, 87}

LEMMA CommandDoes ==
  ASSUME NEW c \in Card, NEW b \in Byte
  PROVE  /\ b \in Supported => Puts([c EXCEPT !.command = b], Command(c, b), 90, 2, c.addr, c.xor)
         /\ b \notin Supported => Drops(c, Command(c, b))
<1>1. CASE b \in Supported
  <2> DEFINE k == [c EXCEPT !.command = b]
  <2>1. k \in Card /\ k.addr = c.addr /\ k.xor = c.xor
    BY DEF Card
  <2>2. Command(c, b) = Says(k, 90, 2)
    BY <1>1 DEF Command, Supported
  <2>3. 90 \in Byte /\ 2 \in CardPhase
    BY ByteIs DEF CardPhase
  <2> HIDE DEF k
  <2>4. Puts(k, Says(k, 90, 2), 90, 2, k.addr, k.xor)
    BY <2>1, <2>3, SaysDoes
  <2>5. Puts(k, Command(c, b), 90, 2, c.addr, c.xor)
    BY <2>1, <2>2, <2>4, Zenon
  <2>6. QED
    BY <1>1, <2>5 DEF k
<1>2. CASE b \notin Supported
  <2>1. Command(c, b) = [c EXCEPT !.command = b, !.phase = -1, !.tx = 0]
    BY <1>2 DEF Command, Supported
  <2>2. -1 \in CardPhase /\ 0 \in Byte
    BY ByteIs DEF CardPhase
  <2>3. Drops(c, [c EXCEPT !.command = b, !.phase = -1, !.tx = 0])
    BY <2>2 DEF Card, Drops
  <2>4. QED
    BY <1>2, <2>1, <2>3, Zenon
<1>3. QED
  BY <1>1, <1>2

LEMMA IdentifyDoes ==
  ASSUME NEW c \in Card
  PROVE  /\ c.phase = 2 => Puts(c, Identify(c), 93, 3, c.addr, c.xor)
         /\ c.phase # 2 => Puts(c, Identify(c), 0, IF c.command = 82 THEN 1000 ELSE 2000, c.addr, c.xor)
<1>1. 93 \in Byte /\ 0 \in Byte /\ 3 \in CardPhase /\ 1000 \in CardPhase /\ 2000 \in CardPhase
  BY ByteIs DEF CardPhase
<1>2. CASE c.phase = 2
  <2>1. Identify(c) = Says(c, 93, 3)
    BY <1>2 DEF Identify
  <2>2. Puts(c, Says(c, 93, 3), 93, 3, c.addr, c.xor)
    BY <1>1, SaysDoes
  <2>3. QED
    BY <1>2, <2>1, <2>2, Zenon
<1>3. CASE c.phase # 2
  <2> DEFINE p == IF c.command = 82 THEN 1000 ELSE 2000
  <2>1. p \in CardPhase
    BY <1>1
  <2>2. Identify(c) = Says(c, 0, p)
    BY <1>3 DEF Identify
  <2> HIDE DEF p
  <2>3. Puts(c, Says(c, 0, p), 0, p, c.addr, c.xor)
    BY <1>1, <2>1, SaysDoes
  <2>4. Puts(c, Identify(c), 0, p, c.addr, c.xor)
    BY <2>2, <2>3, Zenon
  <2>5. QED
    BY <1>3, <2>4 DEF p
<1>4. QED
  BY <1>2, <1>3

LEMMA CardPhases ==
  /\ -1 \in CardPhase /\ 1001 \in CardPhase /\ 1002 \in CardPhase /\ 1003 \in CardPhase
  /\ 1004 \in CardPhase /\ 1024 \in CardPhase /\ 2001 \in CardPhase /\ 2048 \in CardPhase
  /\ \A p \in ReadData : p + 1 \in CardPhase
  /\ \A p \in WriteData : p + 1 \in CardPhase
<1>1. -1 \in CardPhase /\ 1001 \in CardPhase /\ 1002 \in CardPhase /\ 1003 \in CardPhase
        /\ 1004 \in CardPhase /\ 2001 \in CardPhase
  BY ByteIs DEF CardPhase
<1>2. 1024 \in CardPhase /\ 2048 \in CardPhase
  BY SmallFrames DEF CardPhase
<1>3. \A p \in ReadData : p + 1 \in CardPhase
  BY SmallFrames DEF CardPhase, ReadData
<1>4. \A p \in WriteData : p + 1 \in CardPhase
  BY SmallFrames DEF CardPhase, WriteData
<1>5. QED
  BY <1>1, <1>2, <1>3, <1>4

\* Where a card looks the frame up.
Looked(a) == IF a >= Frames THEN NoFrame ELSE a

(* A read, phase by phase.                                                   *)
LEMMA ReadingAddress ==
  ASSUME NEW c \in Card, CardIsWell(c), NEW b \in Byte
  PROVE  /\ c.phase = 1000 => Puts(c, Reading(c, b), b, 1001, b * 256, c.xor)
         /\ c.phase = 1001 => Puts(c, Reading(c, b), 92, 1002, c.addr + b, c.xor)
         /\ c.phase = 1002 => Puts(c, Reading(c, b), 93, 1003, Looked(c.addr), 0)
<1>1. CASE c.phase = 1000
  <2>1. Reading(c, b) = Says([c EXCEPT !.addr = b * 256], b, 1001)
    BY <1>1, SmallFrames DEF Reading, ReadData
  <2>0. b * 256 \in Addr /\ 1001 \in CardPhase
    BY CardBytes, CardPhases
  <2>2. Puts(c, Says([c EXCEPT !.addr = b * 256], b, 1001), b, 1001, b * 256, c.xor)
    BY <2>0, SaysThere
  <2>3. QED
    BY <1>1, <2>1, <2>2
<1>2. CASE c.phase = 1001
  <2>1. Reading(c, b) = Says([c EXCEPT !.addr = c.addr + b], 92, 1002)
    BY <1>2, SmallFrames DEF Reading, ReadData
  <2>2. c.addr + b \in Addr
    BY <1>2, AddrIs, ByteIs, CardFields DEF CardIsWell
  <2>0. 92 \in Byte /\ 1002 \in CardPhase
    BY CardBytes, CardPhases
  <2>3. Puts(c, Says([c EXCEPT !.addr = c.addr + b], 92, 1002), 92, 1002, c.addr + b, c.xor)
    BY <2>0, <2>2, SaysThere
  <2>4. QED
    BY <1>2, <2>1, <2>3
<1>3. CASE c.phase = 1002
  <2>1. Reading(c, b) = SetsBoth(c, Looked(c.addr), 0, 93, 1003)
    BY <1>3, SmallFrames DEF Reading, ReadData, Located, Looked, SetsBoth
  <2>2. Looked(c.addr) \in Addr
    BY CardFields, AddrIs DEF Looked, NoFrame
  <2>3. 0 \in Byte /\ 93 \in Byte /\ 1003 \in CardPhase
    BY CardBytes, CardPhases
  <2>4. Puts(c, SetsBoth(c, Looked(c.addr), 0, 93, 1003), 93, 1003, Looked(c.addr), 0)
    BY <2>2, <2>3, SaysBoth
  <2>5. QED
    BY <1>3, <2>1, <2>4
<1>4. QED
  BY <1>1, <1>2, <1>3

LEMMA ReadingEcho ==
  ASSUME NEW c \in Card, CardIsWell(c), NEW b \in Byte
  PROVE  /\ c.phase = 1003 => Puts(c, Reading(c, b), High(c.addr), 1004, c.addr, Xor(c.xor, High(c.addr)))
         /\ c.phase = 1004 => Puts(c, Reading(c, b), Low(c.addr), IF c.addr = NoFrame THEN -1 ELSE 1024,
                                   c.addr, Xor(c.xor, Low(c.addr)))
<1>1. /\ c.xor \in Byte /\ High(c.addr) \in Byte /\ Low(c.addr) \in Byte
      /\ Xor(c.xor, High(c.addr)) \in Byte /\ Xor(c.xor, Low(c.addr)) \in Byte
  <2>1. c.xor \in Byte /\ c.addr \in Addr
    BY CardFields
  <2>2. High(c.addr) \in Byte /\ Low(c.addr) \in Byte
    BY <2>1, HighLow, Zenon
  <2>3. QED
    BY <2>1, <2>2, CardAssumption
<1>2. CASE c.phase = 1003
  <2>1. Reading(c, b) = Says([c EXCEPT !.xor = Xor(c.xor, High(c.addr))], High(c.addr), 1004)
    BY <1>2, SmallFrames DEF Reading, ReadData
  <2>2. Puts(c, Says([c EXCEPT !.xor = Xor(c.xor, High(c.addr))], High(c.addr), 1004),
             High(c.addr), 1004, c.addr, Xor(c.xor, High(c.addr)))
    BY <1>1, SaysSummed, CardPhases
  <2>3. QED
    BY <1>2, <2>1, <2>2
<1>3. CASE c.phase = 1004
  <2> DEFINE p == IF c.addr = NoFrame THEN -1 ELSE 1024
  <2>1. p \in CardPhase
    BY CardPhases, SmallFrames
  <2>2. Reading(c, b) = Says([c EXCEPT !.xor = Xor(c.xor, Low(c.addr))], Low(c.addr), p)
    BY <1>3, SmallFrames DEF Reading, ReadData
  <2> HIDE DEF p
  <2>3. Puts(c, Says([c EXCEPT !.xor = Xor(c.xor, Low(c.addr))], Low(c.addr), p),
             Low(c.addr), p, c.addr, Xor(c.xor, Low(c.addr)))
    BY <1>1, <2>1, SaysSummed
  <2>4. Puts(c, Reading(c, b), Low(c.addr), p, c.addr, Xor(c.xor, Low(c.addr)))
    BY <2>2, <2>3, Zenon
  <2>5. QED
    BY <1>3, <2>4 DEF p
<1>4. QED
  BY <1>2, <1>3

\* The byte of the frame that a card in this phase of a read sends.
DataByte(c) == c.data[c.addr][c.phase - 1023]

LEMMA ReadingData ==
  ASSUME NEW c \in Card, CardIsWell(c), NEW b \in Byte
  PROVE  /\ c.phase \in ReadData => /\ DataByte(c) \in Byte
                                    /\ Puts(c, Reading(c, b), DataByte(c), c.phase + 1, c.addr, Xor(c.xor, DataByte(c)))
         /\ c.phase = 1024 + FrameLen => Puts(c, Reading(c, b), c.xor, c.phase + 1, c.addr, c.xor)
         /\ c.phase = 1025 + FrameLen => Puts(c, Reading(c, b), 71, -1, c.addr, c.xor)
<1>0. c.xor \in Byte
  BY CardFields
<1>1. CASE c.phase \in ReadData
  <2>1. c.addr \in 0..(Frames - 1) /\ c.phase - 1023 \in 1..FrameLen
    BY <1>1, SmallFrames, CardFields, AddrIs DEF CardIsWell, ReadData
  <2>2. DataByte(c) \in Byte
    <3>1. c.data \in [0..(Frames - 1) -> [1..FrameLen -> Byte]]
      BY CardFields, Zenon DEF Contents, Frame
    <3>2. c.data[c.addr] \in [1..FrameLen -> Byte]
      BY <2>1, <3>1
    <3> DEFINE f == c.data[c.addr]
    <3> DEFINE i == c.phase - 1023
    <3> HIDE DEF f, i
    <3>3. f[i] \in Byte
      <4>1. f \in [1..FrameLen -> Byte] /\ i \in 1..FrameLen
        BY <2>1, <3>2 DEF f, i
      <4>2. QED
        BY <4>1
    <3>4. QED
      BY <3>3, Zenon DEF DataByte, f, i
  <2>3. Xor(c.xor, DataByte(c)) \in Byte
    BY <1>0, <2>2, CardAssumption
  <2>4. Reading(c, b) = Says([c EXCEPT !.xor = Xor(c.xor, DataByte(c))], DataByte(c), c.phase + 1)
    BY <1>1, SmallFrames DEF Reading, ReadData, DataByte
  <2>5. Puts(c, Says([c EXCEPT !.xor = Xor(c.xor, DataByte(c))], DataByte(c), c.phase + 1),
             DataByte(c), c.phase + 1, c.addr, Xor(c.xor, DataByte(c)))
    BY <1>1, <2>2, <2>3, SaysSummed, CardPhases
  <2>6. QED
    BY <1>1, <2>2, <2>4, <2>5, SmallFrames DEF ReadData
<1>2. CASE c.phase = 1024 + FrameLen
  <2>1. Reading(c, b) = Says(c, c.xor, c.phase + 1)
    BY <1>2, SmallFrames DEF Reading, ReadData
  <2>2. c.phase + 1 \in CardPhase
    BY <1>2, SmallFrames DEF CardPhase
  <2>3. Puts(c, Says(c, c.xor, c.phase + 1), c.xor, c.phase + 1, c.addr, c.xor)
    BY <1>0, <2>2, SaysDoes
  <2>4. QED
    BY <1>2, <2>1, <2>3, SmallFrames DEF ReadData
<1>3. CASE c.phase = 1025 + FrameLen
  <2>1. Reading(c, b) = Says(c, 71, -1)
    BY <1>3, SmallFrames DEF Reading, ReadData
  <2>2. Puts(c, Says(c, 71, -1), 71, -1, c.addr, c.xor)
    BY SaysDoes, CardBytes, CardPhases
  <2>3. QED
    BY <1>3, <2>1, <2>2, SmallFrames DEF ReadData
<1>4. QED
  BY <1>1, <1>2, <1>3

(* A write, phase by phase.                                                  *)
LEMMA WritingAddress ==
  ASSUME NEW c \in Card, CardIsWell(c), NEW b \in Byte
  PROVE  /\ c.phase = 2000 => Puts(c, Writing(c, b), b, 2001, b * 256, b)
         /\ c.phase = 2001 => Puts(c, Writing(c, b), b, 2048, c.addr + b, Xor(c.xor, b))
<1>1. CASE c.phase = 2000
  <2>1. Writing(c, b) = SumsThere(c, b * 256, b, b, 2001)
    BY <1>1, SmallFrames DEF Writing, WriteData, SumsThere
  <2>2. b * 256 \in Addr /\ 2001 \in CardPhase
    BY CardBytes, CardPhases
  <2>3. Puts(c, SumsThere(c, b * 256, b, b, 2001), b, 2001, b * 256, b)
    BY <2>2, SaysBoth
  <2>4. QED
    BY <1>1, <2>1, <2>3
<1>2. CASE c.phase = 2001
  <2>1. Writing(c, b) = SumsThere(c, c.addr + b, Xor(c.xor, b), b, 2048)
    BY <1>2, SmallFrames DEF Writing, WriteData, SumsThere
  <2>2. c.addr + b \in Addr
    BY <1>2, AddrIs, ByteIs, CardFields DEF CardIsWell
  <2>3. Xor(c.xor, b) \in Byte /\ 2048 \in CardPhase
    BY CardFields, CardAssumption, CardPhases
  <2>4. Puts(c, SumsThere(c, c.addr + b, Xor(c.xor, b), b, 2048), b, 2048, c.addr + b, Xor(c.xor, b))
    BY <2>2, <2>3, SaysBoth
  <2>5. QED
    BY <1>2, <2>1, <2>4
<1>3. QED
  BY <1>1, <1>2

\* The card has taken a byte of the frame, or the checksum.
Gathers(c, d, tx, phase, xor, rw, wxor) ==
    /\ d \in Card /\ d.sending = TRUE /\ d.tx = tx /\ d.phase = phase
    /\ d.xor = xor /\ d.rw = rw /\ d.wxor = wxor
    /\ d.addr = c.addr /\ d.dtr = c.dtr /\ d.data = c.data /\ d.dirty = c.dirty

TakesByte(c, b) ==
    Says([c EXCEPT !.xor = Xor(c.xor, b), !.rw = [c.rw EXCEPT ![c.phase - 2047] = b]], b, c.phase + 1)

LEMMA RowTakes ==
  ASSUME NEW f \in Frame, NEW i, NEW b \in Byte
  PROVE  [f EXCEPT ![i] = b] \in Frame
<1>1. f \in [1..FrameLen -> Byte]
  BY Zenon DEF Frame
<1>2. [f EXCEPT ![i] = b] \in [1..FrameLen -> Byte]
  BY <1>1
<1>3. QED
  BY <1>2, Zenon DEF Frame

LEMMA WritingData ==
  ASSUME NEW c \in Card, NEW b \in Byte, c.phase \in WriteData
  PROVE  Gathers(c, Writing(c, b), b, c.phase + 1, Xor(c.xor, b),
                 [c.rw EXCEPT ![c.phase - 2047] = b], c.wxor)
<1> DEFINE x == Xor(c.xor, b)
<1> DEFINE row == [c.rw EXCEPT ![c.phase - 2047] = b]
<1> DEFINE p == c.phase + 1
<1>1. x \in Byte
  BY CardFields, CardAssumption
<1>2. row \in Frame
  <2> DEFINE i == c.phase - 2047
  <2> HIDE DEF i
  <2>1. [c.rw EXCEPT ![i] = b] \in Frame
    BY CardFields, RowTakes, Zenon
  <2>2. QED
    BY <2>1 DEF i
<1>3. p \in CardPhase
  BY CardPhases
<1>4. Writing(c, b) = TakesByte(c, b)
  BY SmallFrames DEF Writing, WriteData, TakesByte
<1>5. TakesByte(c, b) = Says([c EXCEPT !.xor = x, !.rw = row], b, p)
  BY Zenon DEF TakesByte
<1> HIDE DEF x, row, p
<1>6. Gathers(c, Says([c EXCEPT !.xor = x, !.rw = row], b, p), b, p, x, row, c.wxor)
  BY <1>1, <1>2, <1>3 DEF Card, Says, Gathers
<1>7. Gathers(c, Writing(c, b), b, p, x, row, c.wxor)
  BY <1>4, <1>5, <1>6, Zenon
<1>8. QED
  BY <1>7 DEF x, row, p

LEMMA SaysGathered ==
  ASSUME NEW c \in Card, NEW b \in Byte, NEW p \in CardPhase
  PROVE  Gathers(c, Says(c, b, p), b, p, c.xor, c.rw, c.wxor)
BY DEF Card, Says, Gathers

LEMMA SaysChecked ==
  ASSUME NEW c \in Card, NEW w \in Byte, NEW b \in Byte, NEW p \in CardPhase
  PROVE  Gathers(c, Says([c EXCEPT !.wxor = w], b, p), b, p, c.xor, c.rw, w)
BY DEF Card, Says, Gathers

LEMMA WritingSum ==
  ASSUME NEW c \in Card, NEW b \in Byte
  PROVE  /\ c.phase = 2048 + FrameLen =>
              Gathers(c, Writing(c, b), 92, 2049 + FrameLen, c.xor, c.rw, b)
         /\ c.phase = 2049 + FrameLen =>
              Gathers(c, Writing(c, b), 93, 2050 + FrameLen, c.xor, c.rw, c.wxor)
<1>1. /\ 92 \in Byte /\ 93 \in Byte
      /\ 2049 + FrameLen \in CardPhase /\ 2050 + FrameLen \in CardPhase
  BY CardBytes, SmallFrames DEF CardPhase
<1>2. CASE c.phase = 2048 + FrameLen
  <2>1. Writing(c, b) = Says([c EXCEPT !.wxor = b], 92, 2049 + FrameLen)
    BY <1>2, SmallFrames DEF Writing, WriteData
  <2> DEFINE p == 2049 + FrameLen
  <2>2. p \in CardPhase
    BY <1>1
  <2> HIDE DEF p
  <2>3. Gathers(c, Says([c EXCEPT !.wxor = b], 92, p), 92, p, c.xor, c.rw, b)
    BY <1>1, <2>2, SaysChecked
  <2>4. QED
    BY <1>2, <2>1, <2>3, SmallFrames DEF p
<1>3. CASE c.phase = 2049 + FrameLen
  <2>1. Writing(c, b) = Says(c, 93, 2050 + FrameLen)
    BY <1>3, SmallFrames DEF Writing, WriteData
  <2> DEFINE p == 2050 + FrameLen
  <2>2. p \in CardPhase
    BY <1>1
  <2> HIDE DEF p
  <2>3. Gathers(c, Says(c, 93, p), 93, p, c.xor, c.rw, c.wxor)
    BY <1>1, <2>2, SaysGathered
  <2>4. QED
    BY <1>3, <2>1, <2>3, SmallFrames DEF p
<1>4. QED
  BY <1>2, <1>3

\* The frame is on the card, and counts as a change if it is one.
Takes(c, d) ==
    /\ d \in Card /\ d.sending = TRUE /\ d.tx = 71 /\ d.phase = -1 /\ d.dtr = c.dtr
    /\ d.data = [c.data EXCEPT ![c.addr] = c.rw]
    /\ d.dirty >= c.dirty /\ (d.data = c.data \/ d.dirty > c.dirty)

LEMMA CommitDoes ==
  ASSUME NEW c \in Card
  PROVE  /\ c.xor # c.wxor => Puts(c, Commit(c), 78, -1, c.addr, c.xor)
         /\ c.xor = c.wxor /\ c.addr >= Frames => Puts(c, Commit(c), 255, -1, c.addr, c.xor)
         /\ c.xor = c.wxor /\ c.addr < Frames => Takes(c, Commit(c))
<1>0. 71 \in Byte /\ 78 \in Byte /\ 255 \in Byte /\ -1 \in CardPhase
  BY CardBytes, CardPhases
<1>1. CASE c.xor # c.wxor
  <2>1. Commit(c) = Says(c, 78, -1)
    BY <1>1 DEF Commit
  <2>2. Puts(c, Says(c, 78, -1), 78, -1, c.addr, c.xor)
    BY <1>0, SaysDoes
  <2>3. QED
    BY <1>1, <2>1, <2>2
<1>2. CASE c.xor = c.wxor /\ c.addr >= Frames
  <2>1. Commit(c) = Says(c, 255, -1)
    BY <1>2 DEF Commit
  <2>2. Puts(c, Says(c, 255, -1), 255, -1, c.addr, c.xor)
    BY <1>0, SaysDoes
  <2>3. ~ (c.addr < Frames)
    BY <1>2, CardFields, AddrIs, SmallFrames
  <2>4. QED
    BY <1>2, <2>1, <2>2, <2>3
<1>3. CASE c.xor = c.wxor /\ c.addr < Frames
  <2>1. /\ c.addr \in 0..(Frames - 1) /\ ~ (c.addr >= Frames) /\ c.dirty \in Nat
        /\ c.rw \in Frame /\ c.data \in [0..(Frames - 1) -> Frame]
    BY <1>3, CardFields, AddrIs, SmallFrames DEF Contents
  <2>2. CASE c.data[c.addr] = c.rw
    <3> DEFINE k == [c EXCEPT !.isnew = FALSE]
    <3>1. Commit(c) = Says(k, 71, -1)
      BY <1>3, <2>1, <2>2 DEF Commit
    <3>2. k \in Card /\ k.dtr = c.dtr /\ k.data = c.data /\ k.dirty = c.dirty
      BY DEF Card
    <3>3. c.data = [c.data EXCEPT ![c.addr] = c.rw]
      BY <2>1, <2>2
    <3> HIDE DEF k
    <3>4. Puts(k, Says(k, 71, -1), 71, -1, k.addr, k.xor)
      BY <1>0, <3>2, SaysDoes
    <3>5. Takes(c, Says(k, 71, -1))
      BY <2>1, <3>2, <3>3, <3>4 DEF Puts, Takes
    <3>6. QED
      BY <1>3, <2>1, <3>1, <3>5
  <2>3. CASE c.data[c.addr] # c.rw
    <3> DEFINE n == c.dirty + 1
    <3> DEFINE data == [c.data EXCEPT ![c.addr] = c.rw]
    <3> DEFINE k == [c EXCEPT !.isnew = FALSE, !.data = data, !.dirty = n, !.used = TRUE]
    <3>1. Commit(c) = Says([c EXCEPT !.isnew = FALSE, !.data[c.addr] = c.rw,
                                     !.dirty = c.dirty + 1, !.used = TRUE], 71, -1)
      BY <1>3, <2>1, <2>3 DEF Commit
    <3>2. Commit(c) = Says(k, 71, -1)
      BY <3>1, Zenon
    <3>3. n \in Nat /\ n > c.dirty /\ data \in Contents
      BY <2>1 DEF Contents
    <3> HIDE DEF n, data
    <3>4. k \in Card /\ k.dtr = c.dtr /\ k.data = data /\ k.dirty = n
      BY <3>3 DEF Card
    <3> HIDE DEF k
    <3>5. Puts(k, Says(k, 71, -1), 71, -1, k.addr, k.xor)
      BY <1>0, <3>4, SaysDoes
    <3>6. Takes(c, Says(k, 71, -1))
      BY <2>1, <3>3, <3>4, <3>5 DEF Puts, Takes, data
    <3>7. QED
      BY <1>3, <2>1, <3>2, <3>6
  <2>4. QED
    BY <2>2, <2>3
<1>4. c.addr \in Int /\ Frames \in Int
  BY CardFields, AddrIs, SmallFrames
<1>5. QED
  BY <1>1, <1>2, <1>3, <1>4

(* What any byte does to a card: it stays well, and counts every change.     *)
CardStep(c, d) ==
    /\ CardIsWell(d) /\ d.dtr = c.dtr
    /\ d.dirty >= c.dirty /\ (d.data = c.data \/ d.dirty > c.dirty)

AddrFits(p, a) ==
    /\ p \in {1001, 2001} => a <= 65280
    /\ p \in {1003, 1004} => a < Frames \/ a = NoFrame
    /\ p \in 1024..(1025 + FrameLen) => a < Frames

LEMMA PutsSteps ==
  ASSUME NEW c \in Card, NEW d, NEW t, NEW p, NEW a, NEW x, Puts(c, d, t, p, a, x), AddrFits(p, a)
  PROVE  CardStep(c, d)
<1>1. d \in Card /\ d.phase = p /\ d.addr = a
  BY Zenon DEF Puts
<1>2. CardIsWell(d)
  BY <1>1 DEF CardIsWell, AddrFits
<1>3. d.dtr = c.dtr /\ d.dirty = c.dirty /\ d.data = c.data
  BY Zenon DEF Puts
<1>4. c.dirty \in Nat
  BY CardFields
<1>5. d.dirty >= c.dirty
  BY <1>3, <1>4
<1>6. QED
  BY <1>2, <1>3, <1>5, Zenon DEF CardStep

\* A phase in which the address does not matter any more.
Beyond(p) == p \in Int /\ (p < 1000 \/ p > 2001)

LEMMA EndSteps ==
  ASSUME NEW c \in Card, NEW d, d \in Card, Beyond(d.phase),
         d.dtr = c.dtr, d.dirty >= c.dirty, d.data = c.data \/ d.dirty > c.dirty
  PROVE  CardStep(c, d)
<1>1. CardIsWell(d)
  <2>1. /\ ~ (d.phase \in {1001, 2001}) /\ ~ (d.phase \in {1003, 1004})
        /\ ~ (d.phase \in 1024..(1025 + FrameLen))
    BY SmallFrames DEF Beyond
  <2>2. QED
    BY <2>1 DEF CardIsWell
<1>2. QED
  BY <1>1, Zenon DEF CardStep

LEMMA DropsSteps ==
  ASSUME NEW c \in Card, NEW d, Drops(c, d)
  PROVE  CardStep(c, d)
<1>1. d \in Card /\ d.phase = -1 /\ d.dtr = c.dtr /\ d.data = c.data /\ d.dirty = c.dirty
  BY DEF Drops
<1>2. Beyond(d.phase) /\ d.dirty >= c.dirty
  BY <1>1, CardFields DEF Beyond
<1>3. QED
  BY <1>1, <1>2, EndSteps, Zenon

LEMMA GathersSteps ==
  ASSUME NEW c \in Card, NEW d, NEW t, NEW p, NEW x, NEW r, NEW w, Gathers(c, d, t, p, x, r, w), Beyond(p)
  PROVE  CardStep(c, d)
<1>1. /\ d \in Card /\ d.phase = p /\ d.dtr = c.dtr /\ d.data = c.data /\ d.dirty = c.dirty
  BY Zenon DEF Gathers
<1>2. c.dirty \in Nat
  BY CardFields
<1>3. d.dirty >= c.dirty
  BY <1>1, <1>2
<1>4. QED
  BY <1>1, <1>3, EndSteps, Zenon

LEMMA DataSteps ==
  ASSUME NEW c \in Card, NEW b \in Byte, c.phase \in WriteData
  PROVE  CardStep(c, Writing(c, b))
<1> DEFINE row == [c.rw EXCEPT ![c.phase - 2047] = b]
<1> DEFINE p == c.phase + 1
<1> DEFINE x == Xor(c.xor, b)
<1>1. Beyond(p)
  BY SmallFrames DEF WriteData, Beyond
<1>2. Gathers(c, Writing(c, b), b, p, x, row, c.wxor)
  BY WritingData
<1> HIDE DEF row, p, x
<1>3. QED
  BY <1>1, <1>2, GathersSteps

LEMMA ReadingSteps ==
  ASSUME NEW c \in Card, CardIsWell(c), NEW b \in Byte,
         c.phase \in 1000..1004 \cup 1024..(1025 + FrameLen)
  PROVE  CardStep(c, Reading(c, b))
<1>0. c.addr \in Addr /\ Looked(c.addr) <= NoFrame
  BY CardFields, AddrIs DEF Looked, NoFrame
<1>1. CASE c.phase = 1000
  <2>1. AddrFits(1001, b * 256)
    BY CardBytes, SmallFrames DEF AddrFits
  <2>2. QED
    BY <1>1, <2>1, ReadingAddress, PutsSteps
<1>2. CASE c.phase = 1001
  <2>1. AddrFits(1002, c.addr + b)
    BY SmallFrames DEF AddrFits
  <2>2. QED
    BY <1>2, <2>1, ReadingAddress, PutsSteps
<1>3. CASE c.phase = 1002
  <2>1. AddrFits(1003, Looked(c.addr))
    BY <1>0, SmallFrames, AddrIs DEF AddrFits, Looked
  <2>2. QED
    BY <1>3, <2>1, ReadingAddress, PutsSteps
<1>4. CASE c.phase = 1003
  <2>1. AddrFits(1004, c.addr)
    BY <1>4, SmallFrames DEF AddrFits, CardIsWell
  <2>2. QED
    BY <1>4, <2>1, ReadingEcho, PutsSteps
<1>5. CASE c.phase = 1004
  <2>1. AddrFits(IF c.addr = NoFrame THEN -1 ELSE 1024, c.addr)
    BY <1>5, SmallFrames DEF AddrFits, CardIsWell
  <2>2. QED
    BY <1>5, <2>1, ReadingEcho, PutsSteps
<1>6. CASE c.phase \in ReadData
  <2>1. AddrFits(c.phase + 1, c.addr)
    BY <1>6, SmallFrames DEF AddrFits, CardIsWell, ReadData
  <2>2. QED
    BY <1>6, <2>1, ReadingData, PutsSteps
<1>7. CASE c.phase = 1024 + FrameLen
  <2>1. AddrFits(c.phase + 1, c.addr)
    BY <1>7, SmallFrames DEF AddrFits, CardIsWell
  <2>2. QED
    BY <1>7, <2>1, ReadingData, PutsSteps
<1>8. CASE c.phase = 1025 + FrameLen
  <2>1. AddrFits(-1, c.addr)
    BY SmallFrames DEF AddrFits
  <2>2. QED
    BY <1>8, <2>1, ReadingData, PutsSteps
<1>9. QED
  BY <1>1, <1>2, <1>3, <1>4, <1>5, <1>6, <1>7, <1>8, SmallFrames DEF ReadData

LEMMA WritingSteps ==
  ASSUME NEW c \in Card, CardIsWell(c), NEW b \in Byte,
         c.phase \in {2000, 2001} \cup 2048..(2050 + FrameLen)
  PROVE  CardStep(c, Writing(c, b))
<1>0. c.dirty \in Nat /\ c.dirty >= c.dirty
  BY CardFields
<1>1. CASE c.phase = 2000
  <2>1. AddrFits(2001, b * 256)
    BY CardBytes, SmallFrames DEF AddrFits
  <2>2. QED
    BY <1>1, <2>1, WritingAddress, PutsSteps
<1>2. CASE c.phase = 2001
  <2>1. AddrFits(2048, c.addr + b)
    BY SmallFrames DEF AddrFits
  <2>2. QED
    BY <1>2, <2>1, WritingAddress, PutsSteps
<1>3. CASE c.phase \in 2048..(2049 + FrameLen)
  <2>1. c.phase \in WriteData \/ c.phase = 2048 + FrameLen \/ c.phase = 2049 + FrameLen
    BY <1>3, SmallFrames DEF WriteData
  <2>2. Beyond(2049 + FrameLen) /\ Beyond(2050 + FrameLen)
    BY SmallFrames DEF Beyond
  <2>3. CASE c.phase = 2048 + FrameLen
    BY <2>2, <2>3, WritingSum, GathersSteps
  <2>4. CASE c.phase = 2049 + FrameLen
    BY <2>2, <2>4, WritingSum, GathersSteps
  <2>5. QED
    BY <2>1, <2>3, <2>4, DataSteps
<1>4. CASE c.phase = 2050 + FrameLen
  <2>1. Writing(c, b) = Commit(c)
    BY <1>4, SmallFrames DEF Writing, WriteData
  <2>2. AddrFits(-1, c.addr)
    BY SmallFrames DEF AddrFits
  <2>3. CASE Takes(c, Commit(c))
    <3>1. /\ Commit(c) \in Card /\ Commit(c).phase = -1 /\ Commit(c).dtr = c.dtr
          /\ Commit(c).dirty >= c.dirty /\ (Commit(c).data = c.data \/ Commit(c).dirty > c.dirty)
      BY <2>3 DEF Takes
    <3>2. Beyond(Commit(c).phase)
      BY <3>1 DEF Beyond
    <3>3. CardStep(c, Commit(c))
      BY <3>1, <3>2, EndSteps
    <3>4. QED
      BY <2>1, <3>3
  <2>4. CASE ~ (c.xor = c.wxor /\ c.addr < Frames)
    <3>1. c.addr \in Int /\ Frames \in Int
      BY CardFields, AddrIs, SmallFrames
    <3>2. \E t : Puts(c, Commit(c), t, -1, c.addr, c.xor)
      BY <2>4, <3>1, CommitDoes
    <3>3. QED
      BY <2>1, <2>2, <3>2, PutsSteps
  <2>5. QED
    BY <2>3, <2>4, CommitDoes
<1>5. QED
  BY <1>1, <1>2, <1>3, <1>4, SmallFrames

Unsent(card) == [card EXCEPT !.sending = FALSE]

LEMMA UnsentDoes ==
  ASSUME NEW c \in Card
  PROVE  /\ Unsent(c) \in Card /\ Unsent(c).sending = FALSE
         /\ Unsent(c).phase = c.phase /\ Unsent(c).dtr = c.dtr /\ Unsent(c).tx = c.tx
         /\ Unsent(c).command = c.command /\ Unsent(c).addr = c.addr /\ Unsent(c).xor = c.xor
         /\ Unsent(c).wxor = c.wxor /\ Unsent(c).rw = c.rw /\ Unsent(c).data = c.data
         /\ Unsent(c).dirty = c.dirty /\ Unsent(c).isnew = c.isnew
BY DEF Card, Unsent

LEMMA UnsentIsWell ==
  ASSUME NEW c \in Card, CardIsWell(c)
  PROVE  CardIsWell(Unsent(c))
<1>1. Unsent(c) \in Card /\ Unsent(c).phase = c.phase /\ Unsent(c).addr = c.addr
  BY UnsentDoes
<1>2. QED
  BY <1>1 DEF CardIsWell

\* Which part of the card takes a byte.
LEMMA ClockIs ==
  ASSUME NEW c \in Card, NEW b \in Byte
  PROVE  /\ ~c.dtr => Card_Clock(c, b) = c
         /\ c.dtr => /\ c.phase = -1 => Card_Clock(c, b) = Unsent(c)
                     /\ c.phase = 0 => Card_Clock(c, b) = Select(Unsent(c), b)
                     /\ c.phase = 1 => Card_Clock(c, b) = Command(Unsent(c), b)
                     /\ c.phase \in {2, 3} => Card_Clock(c, b) = Identify(Unsent(c))
                     /\ c.phase \in 1000..1004 \cup 1024..(1025 + FrameLen) =>
                          Card_Clock(c, b) = Reading(Unsent(c), b)
                     /\ c.phase \in {2000, 2001} \cup 2048..(2050 + FrameLen) =>
                          Card_Clock(c, b) = Writing(Unsent(c), b)
<1> DEFINE k == Unsent(c)
<1>1. k.phase = c.phase /\ c.dtr \in BOOLEAN
  BY UnsentDoes, CardFields
<1>2. Card_Clock(c, b) =
        CASE ~c.dtr -> c
          [] c.dtr /\ k.phase = -1 -> k
          [] c.dtr /\ k.phase = 0 -> Select(k, b)
          [] c.dtr /\ k.phase = 1 -> Command(k, b)
          [] c.dtr /\ k.phase \in {2, 3} -> Identify(k)
          [] c.dtr /\ k.phase \in 1000..(1025 + FrameLen) -> Reading(k, b)
          [] c.dtr /\ k.phase >= 2000 -> Writing(k, b)
  BY DEF Card_Clock, Unsent
<1> HIDE DEF k
<1>3. /\ ~c.dtr => Card_Clock(c, b) = c
      /\ c.dtr /\ c.phase = -1 => Card_Clock(c, b) = k
      /\ c.dtr /\ c.phase = 0 => Card_Clock(c, b) = Select(k, b)
      /\ c.dtr /\ c.phase = 1 => Card_Clock(c, b) = Command(k, b)
      /\ c.dtr /\ c.phase \in {2, 3} => Card_Clock(c, b) = Identify(k)
  BY <1>1, <1>2, SmallFrames
<1>4. /\ c.dtr /\ c.phase \in 1000..1004 \cup 1024..(1025 + FrameLen) => Card_Clock(c, b) = Reading(k, b)
      /\ c.dtr /\ c.phase \in {2000, 2001} \cup 2048..(2050 + FrameLen) => Card_Clock(c, b) = Writing(k, b)
  BY <1>1, <1>2, SmallFrames
<1>5. QED
  BY <1>3, <1>4 DEF k

LEMMA ClockSteps ==
  ASSUME NEW c \in Card, CardIsWell(c), NEW b \in Byte
  PROVE  CardStep(c, Card_Clock(c, b))
<1> DEFINE k == Unsent(c)
<1>1. k \in Card /\ k.phase = c.phase /\ k.dtr = c.dtr /\ k.data = c.data /\ k.dirty = c.dirty
  BY UnsentDoes
<1>2. CardIsWell(k) /\ c.phase \in CardPhase /\ c.dirty >= c.dirty
  BY UnsentIsWell, CardFields
<1>3. \A d : CardStep(k, d) => CardStep(c, d)
  BY <1>1 DEF CardStep
<1>4. CardStep(c, c)
  BY <1>2 DEF CardStep
<1>5. CardStep(c, k)
  BY <1>1, <1>2 DEF CardStep
<1> HIDE DEF k
<1>6. CASE ~c.dtr \/ c.phase = -1
  BY <1>4, <1>5, <1>6, ClockIs DEF k
<1>7. CASE c.dtr /\ c.phase = 0
  <2>1. AddrFits(1, k.addr)
    BY SmallFrames DEF AddrFits
  <2>2. CASE b = 129
    BY <1>1, <2>1, <2>2, SelectDoes, PutsSteps, <1>3, <1>7, ClockIs DEF k
  <2>3. CASE b # 129
    BY <1>1, <2>3, SelectDoes, DropsSteps, <1>3, <1>7, ClockIs DEF k
  <2>4. QED
    BY <2>2, <2>3
<1>8. CASE c.dtr /\ c.phase = 1
  <2>1. CASE b \in Supported
    <3> DEFINE n == [k EXCEPT !.command = b]
    <3>1. n \in Card /\ n.dtr = k.dtr /\ n.data = k.data /\ n.dirty = k.dirty
      BY <1>1 DEF Card
    <3>2. Puts(n, Command(k, b), 90, 2, k.addr, k.xor)
      BY <1>1, <2>1, CommandDoes
    <3> HIDE DEF n
    <3>3. AddrFits(2, k.addr)
      BY SmallFrames DEF AddrFits
    <3>4. CardStep(n, Command(k, b))
      BY <3>1, <3>2, <3>3, PutsSteps
    <3>5. CardStep(k, Command(k, b))
      BY <3>1, <3>4 DEF CardStep
    <3>6. QED
      BY <1>3, <1>8, <3>5, ClockIs DEF k
  <2>2. CASE b \notin Supported
    <3>1. Drops(k, Command(k, b))
      BY <1>1, <2>2, CommandDoes, Zenon
    <3>2. CardStep(k, Command(k, b))
      BY <1>1, <3>1, DropsSteps
    <3>3. QED
      BY <1>3, <1>8, <3>2, ClockIs DEF k
  <2>3. QED
    BY <2>1, <2>2
<1>9. CASE c.dtr /\ c.phase \in {2, 3}
  <2>1. AddrFits(3, k.addr) /\ AddrFits(1000, k.addr) /\ AddrFits(2000, k.addr)
    BY SmallFrames DEF AddrFits
  <2>2. CardStep(k, Identify(k))
    BY <1>1, <2>1, IdentifyDoes, PutsSteps
  <2>3. QED
    BY <1>3, <1>9, <2>2, ClockIs DEF k
<1>10. CASE c.dtr /\ c.phase \in 1000..1004 \cup 1024..(1025 + FrameLen)
  <2>1. CardStep(k, Reading(k, b))
    BY <1>1, <1>2, <1>10, ReadingSteps
  <2>2. QED
    BY <1>3, <1>10, <2>1, ClockIs DEF k
<1>11. CASE c.dtr /\ c.phase \in {2000, 2001} \cup 2048..(2050 + FrameLen)
  <2>1. CardStep(k, Writing(k, b))
    BY <1>1, <1>2, <1>11, WritingSteps
  <2>2. QED
    BY <1>3, <1>11, <2>1, ClockIs DEF k
<1>12. QED
  BY <1>2, <1>6, <1>7, <1>8, <1>9, <1>10, <1>11 DEF CardPhase

WellCards == {c \in Card : CardIsWell(c)}

LEMMA SelectionSteps ==
  ASSUME NEW c \in WellCards, NEW dtr \in BOOLEAN
  PROVE  /\ Card_SetDTR(c, dtr) \in WellCards /\ Card_SetDTR(c, dtr).dtr = dtr
         /\ Card_SetDTR(c, dtr).data = c.data /\ Card_SetDTR(c, dtr).dirty = c.dirty
         /\ dtr = c.dtr => Card_SetDTR(c, dtr).phase = c.phase
         /\ dtr /\ ~c.dtr => Card_SetDTR(c, dtr).phase = 0 /\ Card_SetDTR(c, dtr).sending = FALSE
<1>1. c \in Card /\ CardIsWell(c) /\ 0 \in CardPhase
  BY DEF WellCards, CardPhase
<1>2. CASE dtr /\ ~c.dtr
  <2> DEFINE d == [c EXCEPT !.dtr = TRUE, !.phase = 0, !.sending = FALSE]
  <2>1. Card_SetDTR(c, dtr) = d
    BY <1>2 DEF Card_SetDTR
  <2>2. d \in Card /\ d.dtr = TRUE /\ d.phase = 0 /\ d.data = c.data /\ d.dirty = c.dirty /\ d.sending = FALSE
    BY <1>1 DEF Card
  <2> HIDE DEF d
  <2>3. CardIsWell(d)
    BY <2>2, SmallFrames DEF CardIsWell
  <2>4. QED
    BY <1>2, <2>1, <2>2, <2>3 DEF WellCards
<1>3. CASE ~(dtr /\ ~c.dtr)
  <2> DEFINE d == [c EXCEPT !.dtr = dtr]
  <2>1. Card_SetDTR(c, dtr) = d
    BY <1>3 DEF Card_SetDTR
  <2>2. d \in Card /\ d.dtr = dtr /\ d.phase = c.phase /\ d.data = c.data /\ d.dirty = c.dirty /\ d.addr = c.addr
    BY <1>1 DEF Card
  <2> HIDE DEF d
  <2>3. CardIsWell(d)
    BY <1>1, <2>2 DEF CardIsWell
  <2>4. QED
    BY <1>3, <2>1, <2>2, <2>3 DEF WellCards
<1>4. QED
  BY <1>2, <1>3

LEMMA PowerSteps ==
  ASSUME NEW c \in WellCards
  PROVE  /\ Card_Power(c) \in WellCards /\ Card_Power(c).dtr = FALSE
         /\ Card_Power(c).data = c.data /\ Card_Power(c).dirty = c.dirty
<1>1. c \in Card /\ 0 \in CardPhase /\ 0 \in Byte /\ 0 \in Addr
  BY ByteIs, AddrIs DEF WellCards, CardPhase
<1> DEFINE d == Card_Power(c)
<1>2. d \in Card /\ d.dtr = FALSE /\ d.phase = 0 /\ d.data = c.data /\ d.dirty = c.dirty
  BY <1>1 DEF Card, Card_Power
<1> HIDE DEF d
<1>3. CardIsWell(d)
  BY <1>2, SmallFrames DEF CardIsWell
<1>4. QED
  BY <1>2, <1>3 DEF WellCards, d

\* A card that is loaded has the data of the state or its own, and counts the former.
LEMMA LoadSteps ==
  ASSUME NEW c \in WellCards, NEW s \in WellCards
  PROVE  /\ Card_Load(c, s) \in WellCards
         /\ Card_Load(c, s).dirty >= c.dirty
         /\ Card_Load(c, s).data = c.data \/ Card_Load(c, s).dirty > c.dirty
<1>1. c \in Card /\ s \in Card /\ CardIsWell(s)
  BY DEF WellCards
<1> DEFINE data == IF s.used THEN s.data ELSE c.data
<1> DEFINE dirty == IF s.used THEN c.dirty + 1 ELSE c.dirty
<1> DEFINE d == [s EXCEPT !.data = data, !.dirty = dirty]
<1>2. Card_Load(c, s) = d
  BY DEF Card_Load
<1>3. data \in Contents /\ dirty \in Nat /\ dirty >= c.dirty /\ (data = c.data \/ dirty > c.dirty)
  BY <1>1, CardFields
<1> HIDE DEF data, dirty
<1>4. d \in Card /\ d.data = data /\ d.dirty = dirty /\ d.phase = s.phase /\ d.addr = s.addr
  BY <1>1, <1>3 DEF Card
<1> HIDE DEF d
<1>5. CardIsWell(d)
  BY <1>1, <1>4 DEF CardIsWell
<1>6. QED
  BY <1>2, <1>3, <1>4, <1>5 DEF WellCards

\* A card as LoadMemcard leaves it has what the file holds, as far as it goes.
FileContents(frames) ==
    [i \in 0..(Frames - 1) |-> IF i \in DOMAIN frames THEN frames[i] ELSE Formatted[i]]

LEMMA LoadFileSteps ==
  ASSUME NEW frames, IsFile(frames)
  PROVE  /\ Card_LoadFile(frames) \in WellCards /\ Card_LoadFile(frames).dtr = FALSE
         /\ Card_LoadFile(frames).data = FileContents(frames)
         /\ DOMAIN frames = 0..(Frames - 1) => frames = FileContents(frames)
<1> DEFINE v == FileContents(frames)
<1>1. PICK n \in 0..Frames : frames \in [0..(n - 1) -> Frame]
  BY DEF IsFile
<1>2. Formatted \in [0..(Frames - 1) -> Frame]
  BY PortAssumption DEF Contents
<1>3. v \in Contents
  BY <1>1, <1>2, SmallFrames DEF Contents, FileContents
<1>4. DOMAIN frames = 0..(Frames - 1) => frames = v
  BY <1>1, <1>3 DEF Contents, FileContents
<1> HIDE DEF v
<1>5. 0 \in CardPhase /\ 0 \in Byte /\ 0 \in Addr /\ 0 \in Nat
  BY ByteIs, AddrIs DEF CardPhase
<1>6. [i \in 1..FrameLen |-> 0] \in Frame
  BY <1>5 DEF Frame
<1>7. Card_New(v) \in Card /\ Card_New(v).dtr = FALSE /\ Card_New(v).phase = 0
  BY <1>3, <1>5, <1>6 DEF Card, Card_New
<1> DEFINE c == Card_New(v)
<1> DEFINE u == c.used \/ c.data # v
<1> DEFINE w == [c EXCEPT !.dirty = c.dirty + 1, !.used = u, !.data = v]
<1> DEFINE d == [w EXCEPT !.dirty = 0]
<1>8. Card_LoadFile(frames) = d
  BY DEF Card_LoadFile, FileContents, Card_WriteNV, v
<1>9. u \in BOOLEAN /\ c.dirty + 1 \in Nat
  BY <1>7, CardFields
<1> HIDE DEF c, u
<1>10. w \in Card /\ w.dtr = FALSE /\ w.phase = 0 /\ w.data = v
  BY <1>3, <1>7, <1>9 DEF Card, c
<1> HIDE DEF w
<1>11. d \in Card /\ d.dtr = FALSE /\ d.phase = 0 /\ d.data = v
  BY <1>5, <1>10 DEF Card
<1> HIDE DEF d
<1>12. CardIsWell(d)
  BY <1>11, SmallFrames DEF CardIsWell
<1>13. QED
  BY <1>4, <1>8, <1>11, <1>12 DEF WellCards, v

(* The tap.  What its rows hold does not matter here.                        *)
TapIsWell(t) ==
    t \in [dtr : BOOLEAN, selected : Int, count : Nat, full : BOOLEAN, setting : BOOLEAN,
           cardMode : BOOLEAN, again : BOOLEAN, error : BOOLEAN, answering : {t.answering},
           sb : {t.sb}, fm : {t.fm}]

LEMMA TapFields ==
  ASSUME NEW t, TapIsWell(t)
  PROVE  /\ t.dtr \in BOOLEAN /\ t.selected \in Int /\ t.count \in Nat /\ t.full \in BOOLEAN
         /\ t.setting \in BOOLEAN /\ t.cardMode \in BOOLEAN /\ t.again \in BOOLEAN /\ t.error \in BOOLEAN
BY DEF TapIsWell

\* What picks the devices that get a byte.
Routes(t, u) == u.dtr = t.dtr /\ u.full = t.full /\ u.selected = t.selected

LEMMA ModeDoes ==
  ASSUME NEW t, TapIsWell(t), NEW b \in Byte
  PROVE  LET u == ModeOf(t, b) IN
         /\ TapIsWell(u) /\ u.count = t.count /\ u.dtr = t.dtr /\ u.error = t.error
         /\ t.count # 0 => u = t
         /\ t.count = 0 => /\ u.full = (t.full /\ b < 16)
                           /\ u.selected = IF u.full THEN 0 ELSE ((b % 16) - 1) % 256
<1> DEFINE u == ModeOf(t, b)
<1>1. CASE t.count # 0
  <2>1. u = t
    BY <1>1 DEF ModeOf
  <2>2. QED
    BY <1>1, <2>1
<1>2. CASE t.count = 0
  <2> DEFINE card == b >= 16
  <2> DEFINE full == t.full /\ ~card
  <2> DEFINE fm == IF full THEN Rows(255) ELSE t.fm
  <2> DEFINE sel == IF full THEN 0 ELSE ((b % 16) - 1) % 256
  <2>1. u = [t EXCEPT !.cardMode = card, !.full = full, !.fm = fm, !.selected = sel]
    BY <1>2 DEF ModeOf
  <2>2. card \in BOOLEAN /\ full \in BOOLEAN /\ sel \in Int
    BY ByteIs
  <2>3. full = (t.full /\ b < 16)
    BY ByteIs
  <2> HIDE DEF card, full, fm, sel, u
  <2> DEFINE w == [t EXCEPT !.cardMode = card, !.full = full]
  <2>4. TapIsWell(w) /\ w.full = full /\ w.dtr = t.dtr /\ w.count = t.count /\ w.error = t.error
    BY <2>2 DEF TapIsWell
  <2>5. u = [w EXCEPT !.fm = fm, !.selected = sel]
    BY <2>1
  <2> HIDE DEF w
  <2>6. TapIsWell(u) /\ u.full = full /\ u.dtr = t.dtr /\ u.count = t.count /\ u.selected = sel /\ u.error = t.error
    BY <2>2, <2>4, <2>5 DEF TapIsWell
  <2>7. sel = IF full THEN 0 ELSE ((b % 16) - 1) % 256
    BY DEF sel
  <2>8. QED
    BY <1>2, <2>3, <2>6, <2>7 DEF u
<1>3. QED
  BY <1>1, <1>2

LEMMA SettingsDo ==
  ASSUME NEW t, TapIsWell(t), NEW b \in Byte
  PROVE  LET u == Stored(SettingOf(CommandOf(t, b), b), b) IN
         TapIsWell(u) /\ Routes(t, u) /\ u.count = t.count
<1> DEFINE c == CommandOf(t, b)
<1> DEFINE s == SettingOf(c, b)
<1> DEFINE u == Stored(s, b)
<1>1. TapIsWell(c) /\ Routes(t, c) /\ c.count = t.count
  <2>1. CASE t.count # 1
    BY <2>1 DEF CommandOf, Routes
  <2>2. CASE t.count = 1
    <3> DEFINE e == t.full /\ b # 66
    <3>1. c = [t EXCEPT !.error = e]
      BY <2>2 DEF CommandOf
    <3>2. e \in BOOLEAN
      OBVIOUS
    <3> HIDE DEF e, c
    <3>3. QED
      BY <3>1, <3>2 DEF TapIsWell, Routes
  <2>3. QED
    BY <2>1, <2>2
<1> HIDE DEF c
<1>2. TapIsWell(s) /\ Routes(c, s) /\ s.count = c.count
  <2> DEFINE e == b % 2 = 1
  <2>1. s = c \/ s = [c EXCEPT !.setting = e]
    BY DEF SettingOf
  <2>2. e \in BOOLEAN
    OBVIOUS
  <2> HIDE DEF e, s
  <2>3. QED
    BY <1>1, <2>1, <2>2 DEF TapIsWell, Routes
<1> HIDE DEF s
<1>3. TapIsWell(u) /\ Routes(s, u) /\ u.count = s.count
  <2>1. CASE InFullData(s)
    <3> DEFINE sb == [s.sb EXCEPT ![(s.count - 3) \div 8][((s.count - 3) % 8) + 1] = b]
    <3> DEFINE a == s.again \/ s.count = FullLen - 2
    <3>1. u = [s EXCEPT !.sb = sb, !.again = a]
      BY <2>1 DEF Stored
    <3>2. a \in BOOLEAN
      BY <1>2, TapFields
    <3> HIDE DEF sb, a, u
    <3>3. QED
      BY <1>2, <3>1, <3>2 DEF TapIsWell, Routes
  <2>2. CASE ~InFullData(s)
    BY <1>2, <2>2 DEF Stored, Routes
  <2>3. QED
    BY <2>1, <2>2
<1> HIDE DEF u
<1>4. TapIsWell(u) /\ Routes(t, u) /\ u.count = t.count
  BY <1>1, <1>2, <1>3, Zenon DEF Routes
<1>5. QED
  BY <1>4, Zenon DEF u, s, c

LEMMA FullAckDoes ==
  ASSUME NEW t, TapIsWell(t), NEW pads
  PROVE  LET u == FullAck(t, pads)[1] IN
         TapIsWell(u) /\ Routes(t, u) /\ u.count \in {t.count, 255}
<1> DEFINE u == FullAck(t, pads)[1]
<1> DEFINE answering == {s \in Sub : Dev_Acks(pads[s])}
<1>1. CASE t.count = 0
  <2>1. u = [t EXCEPT !.answering = answering]
    BY <1>1 DEF FullAck
  <2> HIDE DEF u, answering
  <2>2. TapIsWell(u) /\ Routes(t, u) /\ u.count = t.count
    BY <2>1 DEF TapIsWell, Routes
  <2>3. QED
    BY <2>2 DEF u
<1>2. CASE t.count = 1 \/ t.count > 3
  <2>1. u = t
    BY <1>2, TapFields DEF FullAck
  <2>2. QED
    BY <2>1 DEF Routes
<1>3. CASE t.count = 2
  <2>1. u = t \/ u = [t EXCEPT !.count = 255]
    BY <1>3 DEF FullAck
  <2> HIDE DEF u
  <2>2. TapIsWell(u) /\ Routes(t, u) /\ u.count \in {t.count, 255}
    <3>1. CASE u = t
      BY <3>1 DEF Routes
    <3>2. CASE u = [t EXCEPT !.count = 255]
      BY <3>2 DEF TapIsWell, Routes
    <3>3. QED
      BY <2>1, <3>1, <3>2
  <2>3. QED
    BY <2>2 DEF u
<1>4. CASE t.count = 3
  <2>1. u = t \/ u = [t EXCEPT !.error = TRUE, !.count = 255]
    BY <1>4 DEF FullAck
  <2> HIDE DEF u
  <2>2. TapIsWell(u) /\ Routes(t, u) /\ u.count \in {t.count, 255}
    <3>1. CASE u = t
      BY <3>1 DEF Routes
    <3>2. CASE u = [t EXCEPT !.error = TRUE, !.count = 255]
      <4> DEFINE w == [t EXCEPT !.error = TRUE]
      <4>1. TapIsWell(w) /\ Routes(t, w)
        BY DEF TapIsWell, Routes
      <4>2. u = [w EXCEPT !.count = 255]
        BY <3>2
      <4> HIDE DEF w
      <4>3. TapIsWell(u) /\ Routes(w, u) /\ u.count = 255
        BY <4>1, <4>2 DEF TapIsWell, Routes
      <4>4. QED
        BY <4>1, <4>3 DEF Routes
    <3>3. QED
      BY <2>1, <3>1, <3>2
  <2>3. QED
    BY <2>2 DEF u
<1>5. QED
  BY <1>1, <1>2, <1>3, <1>4, TapFields

\* The tap after a byte: what it routes by is set by the first byte and by no other.
TapGoes(t, u, b) ==
    /\ TapIsWell(u) /\ u.dtr = t.dtr /\ u.count > 0
    /\ t.count # 0 => u.full = t.full /\ u.selected = t.selected
    /\ t.count = 0 => /\ u.full = (t.full /\ b < 16)
                      /\ u.selected = IF u.full THEN 0 ELSE ((b % 16) - 1) % 256

LEMMA SettledDoes ==
  ASSUME NEW x, TapIsWell(x.tap), NEW b \in Byte
  PROVE  TapGoes(x.tap, Counted(Settled(x, b)[1]), b)
<1> DEFINE o == ModeOf(x.tap, b)
<1> DEFINE t == Stored(SettingOf(CommandOf(o, b), b), b)
<1> DEFINE u == Settled(x, b)[1]
<1> DEFINE v == Counted(u)
<1>1. /\ TapIsWell(o) /\ o.count = x.tap.count /\ o.dtr = x.tap.dtr
      /\ x.tap.count # 0 => o = x.tap
      /\ x.tap.count = 0 => /\ o.full = (x.tap.full /\ b < 16)
                            /\ o.selected = IF o.full THEN 0 ELSE ((b % 16) - 1) % 256
  BY ModeDoes
<1>2. TapIsWell(t) /\ Routes(o, t) /\ t.count = o.count
  <2> HIDE DEF o
  <2>1. QED
    BY <1>1, SettingsDo
<1>3. TapIsWell(u) /\ Routes(t, u) /\ u.count \in {t.count, 255}
  <2>1. u = (IF t.full THEN FullAck(t, x.pads) ELSE ManualAck(t, x))[1]
    BY DEF Settled
  <2> HIDE DEF t, u
  <2>2. CASE t.full
    BY <1>2, <2>1, <2>2, FullAckDoes
  <2>3. CASE ~t.full
    <3>1. u = t
      BY <2>1, <2>3 DEF ManualAck
    <3>2. QED
      BY <1>2, <3>1 DEF Routes
  <2>4. QED
    BY <2>2, <2>3
<1> HIDE DEF o, t, u
<1>4. TapIsWell(v) /\ Routes(u, v) /\ v.count > 0
  <2>1. u.count \in Nat
    BY <1>3, TapFields
  <2>2. CASE u.count < 255
    <3>1. v = [u EXCEPT !.count = u.count + 1]
      BY <2>2 DEF Counted
    <3> HIDE DEF v
    <3>2. QED
      BY <1>3, <2>1, <3>1 DEF TapIsWell, Routes
  <2>3. CASE ~(u.count < 255)
    <3>1. v = u
      BY <2>3 DEF Counted
    <3>2. QED
      BY <1>3, <2>1, <2>3, <3>1 DEF Routes
  <2>4. QED
    BY <2>2, <2>3
<1> HIDE DEF v
<1>8. o.dtr = x.tap.dtr
  BY <1>1
<1>9. Routes(t, u)
  BY <1>3
<1>5. v.dtr = x.tap.dtr /\ v.full = o.full /\ v.selected = o.selected
  BY <1>2, <1>4, <1>8, <1>9 DEF Routes
<1>6. TapGoes(x.tap, v, b)
  BY <1>1, <1>4, <1>5 DEF TapGoes
<1>7. QED
  BY <1>6, Zenon DEF v, u

(* A machine: the tap, the pads and the cards in their places.               *)
IsMachine(x) ==
    /\ x \in [tap : {x.tap}, pads : {x.pads}, cards : [Sub -> WellCards]]
    /\ TapIsWell(x.tap)

\* The address as all devices get it.
Mangled(b) == (b \div 16) * 16 + 1

LEMMA MangledIs == \A b \in Byte : Mangled(b) \in Byte
BY ByteIs DEF Mangled

\* The cards after a byte that passes through the tap.
CardsGo(x, y, b) ==
    /\ x.tap.count = 0 => y.cards = [s \in Sub |-> Card_Clock(x.cards[s], Mangled(b))]
    /\ x.tap.count # 0 /\ (x.tap.full \/ x.tap.selected \notin Sub) => y.cards = x.cards
    /\ x.tap.count # 0 /\ ~x.tap.full /\ x.tap.selected \in Sub =>
         y.cards = [x.cards EXCEPT ![x.tap.selected] = Card_Clock(x.cards[x.tap.selected], b)]

LEMMA ClockedDoes ==
  ASSUME NEW x, IsMachine(x), NEW b \in Byte
  PROVE  LET y == Clocked(x, b) IN
         /\ IsMachine(y) /\ CardsGo(x, y, b)
         /\ y.tap.count = x.tap.count /\ Routes(x.tap, y.tap)
<1> DEFINE y == Clocked(x, b)
<1>0. x.tap.count \in Nat /\ x.tap.full \in BOOLEAN /\ x.cards \in [Sub -> WellCards]
  BY TapFields DEF IsMachine
<1>5. \A c \in WellCards, v \in Byte : Card_Clock(c, v) \in WellCards
  BY ClockSteps DEF WellCards, CardStep, CardIsWell
<1>1. CASE x.tap.count = 0
  <2> DEFINE pads == [s \in Sub |-> Dev_Clock(x.pads[s], Mangled(b))]
  <2> DEFINE cards == [s \in Sub |-> Card_Clock(x.cards[s], Mangled(b))]
  <2>1. y = [x EXCEPT !.pads = pads, !.cards = cards]
    BY <1>1 DEF Clocked, Addressed, Mangled
  <2>2. cards \in [Sub -> WellCards]
    BY <1>0, <1>5, MangledIs
  <2> HIDE DEF pads, y
  <2>3. y \in [tap : {x.tap}, pads : {pads}, cards : {cards}]
    BY <2>1 DEF IsMachine
  <2>4. IsMachine(y) /\ y.tap = x.tap /\ y.cards = cards
    <3> HIDE DEF cards
    <3>1. QED
      BY <2>2, <2>3 DEF IsMachine
  <2>5. CardsGo(x, y, b)
    BY <1>1, <2>4 DEF CardsGo
  <2>6. QED
    BY <2>4, <2>5 DEF y, Routes
<1>2. CASE x.tap.count # 0 /\ x.tap.full
  <2>1. y = FullClocked(x)
    BY <1>0, <1>2 DEF Clocked
  <2>2. CASE ~Exchanging(x.tap)
    <3>1. y = x
      BY <2>1, <2>2 DEF FullClocked
    <3>2. QED
      BY <1>2, <3>1 DEF CardsGo, Routes
  <2>3. CASE Exchanging(x.tap)
    <3> DEFINE i == x.tap.count - 2
    <3> DEFINE fm == [s \in Sub |-> [x.tap.fm[s] EXCEPT ![i] = Dev_Sends(x.pads[s])]]
    <3> DEFINE pads == [s \in Sub |-> Dev_Clock(x.pads[s], x.tap.sb[s][i])]
    <3>1. y = [x EXCEPT !.tap.fm = fm, !.pads = pads]
      BY <2>1, <2>3 DEF FullClocked
    <3> HIDE DEF fm, pads, y
    <3> DEFINE t == [x.tap EXCEPT !.fm = fm]
    <3>2. y = [x EXCEPT !.tap = t, !.pads = pads]
      BY <3>1
    <3>3. TapIsWell(t) /\ t.count = x.tap.count /\ Routes(x.tap, t)
      BY DEF IsMachine, TapIsWell, Routes
    <3> HIDE DEF t
    <3>4. y \in [tap : {t}, pads : {pads}, cards : {x.cards}]
      BY <3>2 DEF IsMachine
    <3>5. IsMachine(y) /\ y.tap = t /\ y.cards = x.cards
      BY <1>0, <3>3, <3>4 DEF IsMachine
    <3>6. CardsGo(x, y, b)
      BY <1>2, <3>5 DEF CardsGo
    <3>7. QED
      BY <3>3, <3>5, <3>6 DEF y
  <2>4. QED
    BY <2>2, <2>3
<1>3. CASE x.tap.count # 0 /\ ~x.tap.full
  <2>1. y = ManualClocked(x, b)
    BY <1>0, <1>3 DEF Clocked
  <2>2. CASE x.tap.selected \notin Sub
    <3>1. y = x
      BY <2>1, <2>2 DEF ManualClocked
    <3>2. QED
      BY <1>3, <2>2, <3>1 DEF CardsGo, Routes
  <2>3. CASE x.tap.selected \in Sub
    <3> DEFINE n == x.tap.selected
    <3> DEFINE pads == [x.pads EXCEPT ![n] = Dev_Clock(x.pads[n], b)]
    <3> DEFINE cards == [x.cards EXCEPT ![n] = Card_Clock(x.cards[n], b)]
    <3>1. y = [x EXCEPT !.pads = pads, !.cards = cards]
      BY <2>1, <2>3 DEF ManualClocked
    <3>2. cards \in [Sub -> WellCards]
      <4> HIDE DEF n
      <4>1. n \in Sub
        BY <2>3 DEF n
      <4>2. x.cards[n] \in WellCards
        BY <1>0, <4>1
      <4>3. Card_Clock(x.cards[n], b) \in WellCards
        BY <1>5, <4>2
      <4>4. QED
        BY <1>0, <4>3
    <3> HIDE DEF pads, cards, y
    <3>3. y \in [tap : {x.tap}, pads : {pads}, cards : {cards}]
      BY <3>1 DEF IsMachine
    <3>4. IsMachine(y) /\ y.tap = x.tap /\ y.cards = cards
      BY <3>2, <3>3 DEF IsMachine
    <3>5. CardsGo(x, y, b)
      BY <1>3, <2>3, <3>4 DEF CardsGo, cards
    <3>6. QED
      BY <3>4, <3>5 DEF y, Routes
  <2>4. QED
    BY <2>2, <2>3
<1>4. QED
  BY <1>0, <1>1, <1>2, <1>3

LEMMA PadsOnly ==
  ASSUME NEW x, IsMachine(x), NEW p
  PROVE  LET y == [x EXCEPT !.pads = p] IN
         IsMachine(y) /\ y.tap = x.tap /\ y.cards = x.cards /\ y.pads = p
<1> DEFINE y == [x EXCEPT !.pads = p]
<1>1. y \in [tap : {x.tap}, pads : {p}, cards : {x.cards}]
  BY DEF IsMachine
<1> HIDE DEF y
<1>2. IsMachine(y) /\ y.tap = x.tap /\ y.cards = x.cards /\ y.pads = p
  BY <1>1 DEF IsMachine
<1>3. QED
  BY <1>2, Zenon DEF y

LEMMA CardsAreTyped ==
  ASSUME NEW x, IsMachine(x)
  PROVE  x.cards \in [Sub -> WellCards] /\ 0 \in Sub /\ x.cards[0] \in WellCards /\ x.cards[0] \in Card
<1>1. x.cards \in [Sub -> WellCards]
  BY DEF IsMachine
<1>2. 0 \in Sub
  BY SubPortsAssumption DEF Sub
<1>3. QED
  BY <1>1, <1>2 DEF WellCards

LEMMA CardOnly ==
  ASSUME NEW x, IsMachine(x), NEW v, v \in [Sub -> WellCards]
  PROVE  LET y == [x EXCEPT !.cards = v] IN
         IsMachine(y) /\ y.tap = x.tap /\ y.cards = v /\ y.pads = x.pads
<1> DEFINE y == [x EXCEPT !.cards = v]
<1>1. y \in [tap : {x.tap}, pads : {x.pads}, cards : {v}]
  BY DEF IsMachine
<1> HIDE DEF y
<1>2. IsMachine(y) /\ y.tap = x.tap /\ y.cards = v /\ y.pads = x.pads
  BY <1>1 DEF IsMachine
<1>3. QED
  BY <1>2, Zenon DEF y

\* The card in sub-port 0 between two states of the machine.
CountsOn(x, y) ==
    /\ y.cards[0].dirty >= x.cards[0].dirty
    /\ y.cards[0].data = x.cards[0].data \/ y.cards[0].dirty > x.cards[0].dirty

LEMMA ClockStays ==
  ASSUME NEW c \in WellCards, NEW b \in Byte
  PROVE  /\ Card_Clock(c, b) \in WellCards /\ Card_Clock(c, b).dtr = c.dtr
         /\ Card_Clock(c, b).dirty >= c.dirty
         /\ Card_Clock(c, b).data = c.data \/ Card_Clock(c, b).dirty > c.dirty
BY ClockSteps DEF WellCards, CardStep, CardIsWell

LEMMA SameCounts ==
  ASSUME NEW x, IsMachine(x), NEW y, y.cards[0] = x.cards[0]
  PROVE  CountsOn(x, y)
BY CardsAreTyped, CardFields DEF CountsOn

LEMMA TapClockDoes ==
  ASSUME NEW x, IsMachine(x), NEW b \in Byte
  PROVE  LET y == Tap_Clock(x, b) IN
         /\ IsMachine(y)
         /\ ~x.tap.dtr => y = x
         /\ x.tap.dtr => TapGoes(x.tap, y.tap, b) /\ CardsGo(x, y, b)
<1> DEFINE y == Tap_Clock(x, b)
<1> DEFINE c == Clocked(x, b)
<1>1. x.tap.dtr \in BOOLEAN
  BY TapFields DEF IsMachine
<1>2. CASE ~x.tap.dtr
  <2>1. y = x
    BY <1>2 DEF Tap_Clock
  <2>2. QED
    BY <1>2, <2>1
<1>3. CASE x.tap.dtr
  <2> DEFINE t == Counted(Settled(c, b)[1])
  <2>1. y = [c EXCEPT !.tap = t]
    BY <1>3 DEF Tap_Clock
  <2>2. IsMachine(c) /\ CardsGo(x, c, b) /\ c.tap.count = x.tap.count /\ Routes(x.tap, c.tap)
    BY ClockedDoes
  <2>3. TapGoes(c.tap, t, b)
    <3> HIDE DEF c
    <3>1. QED
      BY <2>2, SettledDoes DEF IsMachine
  <2> HIDE DEF c, t, y
  <2>4. TapIsWell(t)
    BY <2>3 DEF TapGoes
  <2>5. y \in [tap : {t}, pads : {c.pads}, cards : {c.cards}]
    BY <2>1, <2>2 DEF IsMachine
  <2>6. y.cards = c.cards /\ y.tap = t
    BY <2>5
  <2>7. c.cards \in [Sub -> WellCards]
    BY <2>2, CardsAreTyped
  <2>8. IsMachine(y)
    BY <2>4, <2>5, <2>7 DEF IsMachine
  <2>9. TapGoes(x.tap, y.tap, b)
    BY <2>2, <2>3, <2>6 DEF TapGoes, Routes
  <2>10. CardsGo(x, y, b)
    BY <2>2, <2>6, Zenon DEF CardsGo
  <2>11. QED
    BY <1>3, <2>8, <2>9, <2>10 DEF y
<1>4. QED
  BY <1>1, <1>2, <1>3

LEMMA TapClockCounts ==
  ASSUME NEW x, IsMachine(x), NEW b \in Byte
  PROVE  CountsOn(x, Tap_Clock(x, b))
<1> DEFINE y == Tap_Clock(x, b)
<1>1. /\ IsMachine(y)
      /\ ~x.tap.dtr => y = x
      /\ x.tap.dtr => CardsGo(x, y, b)
  BY TapClockDoes
<1>2. /\ x.tap.dtr \in BOOLEAN /\ x.tap.full \in BOOLEAN /\ x.cards \in [Sub -> WellCards] /\ 0 \in Sub
      /\ x.cards[0] \in WellCards
  BY TapFields, CardsAreTyped DEF IsMachine
<1>3. Mangled(b) \in Byte
  BY MangledIs
<1> HIDE DEF y
<1>4. y.cards[0] = x.cards[0] \/ \E v \in Byte : y.cards[0] = Card_Clock(x.cards[0], v)
  <2>1. CASE ~x.tap.dtr
    BY <1>1, <2>1
  <2>2. CASE x.tap.dtr /\ x.tap.count = 0
    BY <1>1, <1>2, <1>3, <2>2 DEF CardsGo
  <2>3. CASE x.tap.dtr /\ x.tap.count # 0 /\ (x.tap.full \/ x.tap.selected \notin Sub)
    BY <1>1, <2>3 DEF CardsGo
  <2>4. CASE x.tap.dtr /\ x.tap.count # 0 /\ ~x.tap.full /\ x.tap.selected \in Sub
    <3>1. y.cards = [x.cards EXCEPT ![x.tap.selected] = Card_Clock(x.cards[x.tap.selected], b)]
      BY <1>1, <2>4 DEF CardsGo
    <3>2. CASE x.tap.selected = 0
      BY <1>2, <3>1, <3>2
    <3>3. CASE x.tap.selected # 0
      BY <1>2, <3>1, <3>3
    <3>4. QED
      BY <3>2, <3>3
  <2>5. QED
    BY <1>2, <2>1, <2>2, <2>3, <2>4
<1>5. CASE y.cards[0] = x.cards[0]
  BY <1>5, SameCounts DEF y
<1>6. ASSUME NEW v \in Byte, y.cards[0] = Card_Clock(x.cards[0], v)
      PROVE  CountsOn(x, y)
  BY <1>2, <1>6, ClockStays DEF CountsOn
<1>7. CountsOn(x, y)
  BY <1>4, <1>5, <1>6, SameCounts
<1>8. QED
  BY <1>7 DEF y

LEMMA SelectMachine ==
  ASSUME setup \in Setups, NEW x, IsMachine(x), NEW dtr \in BOOLEAN
  PROVE  LET y == Devices_SetDTR(x, dtr) IN
         /\ IsMachine(y)
         /\ y.tap = IF setup.tap THEN Tap_SetDTR(x.tap, dtr) ELSE x.tap
         /\ y.pads = [s \in Sub |-> Dev_SetDTR(x.pads[s], dtr)]
         /\ y.cards = [s \in Sub |-> IF s \in setup.cards THEN Card_SetDTR(x.cards[s], dtr) ELSE x.cards[s]]
<1> DEFINE y == Devices_SetDTR(x, dtr)
<1> DEFINE t == IF setup.tap THEN Tap_SetDTR(x.tap, dtr) ELSE x.tap
<1> DEFINE pads == [s \in Sub |-> Dev_SetDTR(x.pads[s], dtr)]
<1> DEFINE cards == [s \in Sub |-> IF s \in setup.cards THEN Card_SetDTR(x.cards[s], dtr) ELSE x.cards[s]]
<1>1. y = [x EXCEPT !.tap = t, !.pads = pads, !.cards = cards]
  BY DEF Devices_SetDTR
<1>2. TapIsWell(x.tap)
  BY DEF IsMachine
<1>3. TapIsWell(t)
  <2>1. CASE ~setup.tap \/ (dtr /\ x.tap.dtr)
    BY <1>2, <2>1 DEF Tap_SetDTR
  <2>2. CASE setup.tap /\ ~dtr
    <3> DEFINE w == [x.tap EXCEPT !.dtr = FALSE, !.selected = -1, !.cardMode = FALSE]
    <3>1. t = [w EXCEPT !.full = FALSE]
      BY <2>2 DEF Tap_SetDTR
    <3>2. TapIsWell(w)
      <4> DEFINE v == [x.tap EXCEPT !.dtr = FALSE]
      <4>1. TapIsWell(v)
        BY <1>2 DEF TapIsWell
      <4> DEFINE z == [v EXCEPT !.selected = -1]
      <4>2. w = [z EXCEPT !.cardMode = FALSE]
        OBVIOUS
      <4> HIDE DEF v, w
      <4>5. TapIsWell(z)
        BY <4>1 DEF TapIsWell
      <4> HIDE DEF z
      <4>3. TapIsWell(w)
        BY <4>2, <4>5 DEF TapIsWell
      <4>4. QED
        BY <4>3 DEF w
    <3> HIDE DEF w, t
    <3>3. TapIsWell(t)
      BY <3>1, <3>2 DEF TapIsWell
    <3>4. QED
      BY <3>3 DEF t
  <2>3. CASE setup.tap /\ dtr /\ ~x.tap.dtr
    <3> DEFINE sb == IF x.tap.again THEN x.tap.sb ELSE PollRows
    <3> DEFINE w == [x.tap EXCEPT !.dtr = TRUE, !.full = x.tap.setting, !.count = 0]
    <3>1. t = [w EXCEPT !.sb = sb, !.again = FALSE]
      BY <2>3 DEF Tap_SetDTR
    <3>2. TapIsWell(w)
      <4> DEFINE v == [x.tap EXCEPT !.dtr = TRUE]
      <4>1. TapIsWell(v) /\ v.setting = x.tap.setting
        BY <1>2 DEF TapIsWell
      <4>2. w = [v EXCEPT !.full = x.tap.setting, !.count = 0]
        OBVIOUS
      <4>3. x.tap.setting \in BOOLEAN
        BY <1>2, TapFields
      <4> HIDE DEF v, w
      <4>4. TapIsWell(w)
        BY <4>1, <4>2, <4>3 DEF TapIsWell
      <4>5. QED
        BY <4>4 DEF w
    <3> HIDE DEF w, t, sb
    <3>3. TapIsWell(t)
      BY <3>1, <3>2 DEF TapIsWell
    <3>4. QED
      BY <3>3 DEF t
  <2>4. setup.tap \in BOOLEAN /\ x.tap.dtr \in BOOLEAN
    BY <1>2, TapFields, PortAssumption
  <2>5. QED
    BY <2>1, <2>2, <2>3, <2>4
<1>4. cards \in [Sub -> WellCards]
  BY CardsAreTyped, SelectionSteps
<1> HIDE DEF t, pads, cards, y
<1>5. y \in [tap : {t}, pads : {pads}, cards : {cards}]
  BY <1>1 DEF IsMachine
<1>6. IsMachine(y) /\ y.tap = t /\ y.pads = pads /\ y.cards = cards
  BY <1>3, <1>4, <1>5 DEF IsMachine
<1>7. QED
  BY <1>6, Zenon DEF y, t, pads, cards

LEMMA SelectCounts ==
  ASSUME setup \in Setups, NEW x, IsMachine(x), NEW dtr \in BOOLEAN
  PROVE  CountsOn(x, Devices_SetDTR(x, dtr))
<1> DEFINE y == Devices_SetDTR(x, dtr)
<1>1. y.cards = [s \in Sub |-> IF s \in setup.cards THEN Card_SetDTR(x.cards[s], dtr) ELSE x.cards[s]]
  BY SelectMachine
<1> HIDE DEF y
<1>2. 0 \in Sub /\ x.cards[0] \in WellCards /\ x.cards[0].dirty \in Nat
  BY CardsAreTyped, CardFields
<1>5. y.cards[0] = Card_SetDTR(x.cards[0], dtr) \/ y.cards[0] = x.cards[0]
  BY <1>1, <1>2
<1>6. /\ Card_SetDTR(x.cards[0], dtr).dirty = x.cards[0].dirty
      /\ Card_SetDTR(x.cards[0], dtr).data = x.cards[0].data
  BY <1>2, SelectionSteps
<1>3. y.cards[0].dirty = x.cards[0].dirty /\ y.cards[0].data = x.cards[0].data
  BY <1>5, <1>6, Zenon
<1>4. QED
  BY <1>2, <1>3 DEF CountsOn, y

LEMMA DirectDoes ==
  ASSUME IsMachine(m), NEW b \in Byte
  PROVE  LET y == DirectClock(b) IN
         /\ IsMachine(y) /\ CountsOn(m, y) /\ y.tap = m.tap
         /\ y.pads = [m.pads EXCEPT ![0] = Dev_Clock(m.pads[0], b)]
         /\ y.cards = [m.cards EXCEPT ![0] = Card_Clock(m.cards[0], b)]
<1> DEFINE y == DirectClock(b)
<1> DEFINE pads == [m.pads EXCEPT ![0] = Dev_Clock(m.pads[0], b)]
<1> DEFINE cards == [m.cards EXCEPT ![0] = Card_Clock(m.cards[0], b)]
<1>1. y = [m EXCEPT !.pads = pads, !.cards = cards]
  BY DEF DirectClock
<1>2. 0 \in Sub /\ m.cards \in [Sub -> WellCards] /\ m.cards[0] \in WellCards
  BY CardsAreTyped
<1>3. Card_Clock(m.cards[0], b) \in WellCards
  BY <1>2, ClockStays
<1>4. cards \in [Sub -> WellCards] /\ cards[0] = Card_Clock(m.cards[0], b)
  BY <1>2, <1>3
<1> HIDE DEF pads, cards, y
<1>5. y \in [tap : {m.tap}, pads : {pads}, cards : {cards}]
  BY <1>1 DEF IsMachine
<1>6. IsMachine(y) /\ y.tap = m.tap /\ y.pads = pads /\ y.cards = cards
  BY <1>4, <1>5 DEF IsMachine
<1>7. CountsOn(m, y)
  BY <1>2, <1>4, <1>6, ClockStays DEF CountsOn
<1>8. QED
  BY <1>6, <1>7 DEF y, pads, cards
-----------------------------------------------------------------------------
(* The frontend's part of the invariant: the files and the delay of the card.   *)
DelayIsWell == prevDC \in Nat /\ delay \in Int /\ delay >= -1

\* A file that was written whole has what the card holds unless the card is dirty, and
\* a delay that does not run has forgotten the last change.
IsPending ==
    pc # "off" => /\ Whole => file = Card0.data \/ Card0.dirty > 0
                  /\ delay < 0 => prevDC = 0

PortInv ==
    /\ setup \in Setups /\ pc \in {"run", "out", "off"}
    /\ IsMachine(m) /\ \A s \in saved : IsMachine(s.m)
    /\ IsFile(file) /\ DelayIsWell /\ IsPending

\* A step that leaves the file and the delay alone and loses no change of the card.
LEMMA KeepsDisk ==
  ASSUME PortInv, setup' = setup, pc' \in {"run", "out", "off"}, pc' # "off" => pc # "off",
         IsMachine(m'), CountsOn(m, m'), saved' = saved,
         file' = file, prevDC' = prevDC, delay' = delay
  PROVE  PortInv'
<1>1. Card0.dirty \in Nat /\ Card0'.dirty \in Nat
  BY CardsAreTyped, CardFields DEF PortInv, Card0
<1>2. IsPending'
  BY <1>1 DEF PortInv, IsPending, CountsOn, Card0, Whole
<1>3. QED
  BY <1>2 DEF PortInv, DelayIsWell

\* A machine whose cards stay as they are.
LEMMA PadStep ==
  ASSUME PortInv, NEW p, m' = [m EXCEPT !.pads = p], UNCHANGED <<setup, file, prevDC, delay, saved>>,
         pc \in {"run", "out"}, pc' \in {"run", "out"}
  PROVE  PortInv'
<1>1. IsMachine(m') /\ m'.cards = m.cards
  BY PadsOnly DEF PortInv
<1>2. CountsOn(m, m')
  BY <1>1, SameCounts DEF PortInv
<1>3. QED
  BY <1>1, <1>2, KeepsDisk

LEMMA PadKept ==
  ASSUME PortInv, NEW s \in Sub, NEW p, m' = [m EXCEPT !.pads[s] = p],
         UNCHANGED <<setup, file, prevDC, delay, saved>>,
         pc \in {"run", "out"}, pc' \in {"run", "out"}
  PROVE  PortInv'
<1> DEFINE pads == [m.pads EXCEPT ![s] = p]
<1>1. m' = [m EXCEPT !.pads = pads]
  OBVIOUS
<1> HIDE DEF pads
<1>2. QED
  BY <1>1, PadStep

LEMMA NewMachineIs ==
  ASSUME NEW f, IsFile(f), NEW dtr \in BOOLEAN
  PROVE  /\ IsMachine(NewMachine(f, dtr))
         /\ NewMachine(f, dtr).cards[0].data = FileContents(f)
         /\ NewMachine(f, dtr).pads = [s \in Sub |-> NewPad(setup.pads[s])]
         /\ NewMachine(f, dtr).tap = Tap_New(dtr)
         /\ \A s \in Sub : NewMachine(f, dtr).cards[s].dtr = FALSE
<1> DEFINE t == Tap_New(dtr)
<1> DEFINE pads == [s \in Sub |-> NewPad(setup.pads[s])]
<1> DEFINE c == Card_LoadFile(f)
<1> DEFINE cards == [s \in Sub |-> c]
<1> DEFINE x == NewMachine(f, dtr)
<1>1. x = [tap |-> t, pads |-> pads, cards |-> cards]
  BY DEF NewMachine
<1>2. TapIsWell(t)
  BY DEF TapIsWell, Tap_New
<1>3. c \in WellCards /\ c.dtr = FALSE /\ c.data = FileContents(f)
  BY LoadFileSteps
<1>4. 0 \in Sub
  BY SubPortsAssumption DEF Sub
<1> HIDE DEF t, pads, c, x
<1>5. cards \in [Sub -> WellCards] /\ cards[0] = c /\ \A s \in Sub : cards[s] = c
  BY <1>3, <1>4
<1> HIDE DEF cards
<1>6. x.tap = t /\ x.pads = pads /\ x.cards = cards /\ x \in [tap : {t}, pads : {pads}, cards : {cards}]
  BY <1>1
<1>7. IsMachine(x)
  BY <1>2, <1>5, <1>6 DEF IsMachine
<1>8. QED
  BY <1>3, <1>5, <1>6, <1>7 DEF x, t, pads

LEMMA PortInit == Port_Init => PortInv
<1> SUFFICES ASSUME Port_Init PROVE PortInv
  OBVIOUS
<1>1. PICK dtr \in {FALSE, setup.tap} : m = NewMachine(file, dtr)
  BY DEF Port_Init
<1>2. setup \in Setups /\ setup.tap \in BOOLEAN /\ IsFile(file) /\ dtr \in BOOLEAN
  BY PortAssumption DEF Port_Init
<1>3. IsMachine(m) /\ Card0.data = FileContents(file)
  BY <1>1, <1>2, NewMachineIs DEF Card0
<1>4. Whole => file = FileContents(file)
  BY <1>2, LoadFileSteps DEF Whole
<1>5. QED
  BY <1>2, <1>3, <1>4 DEF Port_Init, PortInv, IsPending, DelayIsWell

LEMMA SetDTRKeeps ==
  ASSUME PortInv, NEW dtr \in BOOLEAN, SetDTR(dtr)
  PROVE  PortInv'
<1>1. m' = Devices_SetDTR(m, dtr) /\ pc = "run" /\ UNCHANGED <<setup, frontend>>
  BY DEF SetDTR
<1>2. IsMachine(m') /\ CountsOn(m, m')
  BY <1>1, SelectMachine, SelectCounts DEF PortInv
<1>3. QED
  BY <1>1, <1>2, KeepsDisk DEF frontend

LEMMA ExchangeKeeps ==
  ASSUME PortInv, NEW b \in Byte, Exchange(b)
  PROVE  PortInv'
<1>1. m' = (IF setup.tap THEN Tap_Clock(m, b) ELSE DirectClock(b)) /\ pc = "run" /\ UNCHANGED <<setup, frontend>>
  BY DEF Exchange
<1>0. IsMachine(m)
  BY DEF PortInv
<1>2. IsMachine(m') /\ CountsOn(m, m')
  <2>1. CASE setup.tap
    BY <1>0, <1>1, <2>1, TapClockDoes, TapClockCounts
  <2>2. CASE ~setup.tap
    BY <1>0, <1>1, <2>2, DirectDoes
  <2>3. QED
    BY <2>1, <2>2
<1>3. QED
  BY <1>1, <1>2, KeepsDisk DEF frontend

LEMMA OverhearKeeps ==
  ASSUME PortInv, NEW b \in Byte, Overhear(b)
  PROVE  PortInv'
<1>1. m' = Tap_Clock(m, b) /\ pc = "run" /\ UNCHANGED <<setup, frontend>>
  BY DEF Overhear
<1>2. IsMachine(m') /\ CountsOn(m, m')
  BY <1>1, TapClockDoes, TapClockCounts DEF PortInv
<1>3. QED
  BY <1>1, <1>2, KeepsDisk DEF frontend

LEMMA PadsKeep ==
  ASSUME PortInv,
         \/ BeginFrame
         \/ \E s \in Sub : SeeBeam(s)
         \/ \E enabled \in BOOLEAN : SetAMCT(enabled)
  PROVE  PortInv'
<1>1. CASE BeginFrame
  <2>1. PICK in \in Inputs(setup) :
          m' = [m EXCEPT !.pads = [s \in Sub |-> UpdateInput(@[s], in.held[s], in.move, in.flag)]]
    BY <1>1 DEF BeginFrame
  <2> DEFINE p == [s \in Sub |-> UpdateInput(m.pads[s], in.held[s], in.move, in.flag)]
  <2>2. m' = [m EXCEPT !.pads = p]
    BY <2>1
  <2> HIDE DEF p
  <2>3. QED
    BY <1>1, <2>2, PadStep DEF BeginFrame
<1>2. ASSUME NEW s \in Sub, SeeBeam(s) PROVE PortInv'
  <2> DEFINE p == Pad_SeesBeam(m.pads[s])
  <2>1. m' = [m EXCEPT !.pads[s] = p]
    BY <1>2 DEF SeeBeam
  <2> HIDE DEF p
  <2>2. QED
    BY <1>2, <2>1, PadKept DEF SeeBeam, frontend
<1>3. ASSUME NEW enabled \in BOOLEAN, SetAMCT(enabled) PROVE PortInv'
  <2> DEFINE p == [s \in Sub |-> IF IsShock(m.pads[s]) THEN Shock_SetAMCT(m.pads[s], enabled)
                                 ELSE m.pads[s]]
  <2>1. m' = [m EXCEPT !.pads = p]
    BY <1>3 DEF SetAMCT
  <2> HIDE DEF p
  <2>2. QED
    BY <1>3, <2>1, PadStep DEF SetAMCT, frontend
<1>4. QED
  BY <1>1, <1>2, <1>3

\* What SaveMemcard leaves is a file, and if it is whole it is what the card holds.
LEMMA SavedFile ==
  ASSUME IsMachine(m), IsFile(file), SaveMemcard(Amounts)
  PROVE  /\ IsFile(file')
         /\ Card0.dirty = 0 => file' = file
         /\ Card0.dirty # 0 /\ DOMAIN file' = 0..(Frames - 1) => file' = Card0.data
<1> DEFINE data == Card0.data
<1>1. data \in [0..(Frames - 1) -> Frame]
  BY CardsAreTyped, CardFields DEF Card0, Contents
<1> HIDE DEF data
<1>2. CASE Card0.dirty = 0
  BY <1>2 DEF SaveMemcard
<1>3. CASE Card0.dirty # 0
  <2>1. file' \in Written(Amounts)
    BY <1>3 DEF SaveMemcard
  <2>2. PICK k \in 0..Frames : file' = [i \in 0..(k - 1) |-> data[i]]
    BY <2>1 DEF Written, Amounts, data
  <2>3. 0..(k - 1) \subseteq 0..(Frames - 1)
    BY SmallFrames
  <2>4. file' \in [0..(k - 1) -> Frame]
    BY <1>1, <2>2, <2>3
  <2>5. IsFile(file')
    BY <2>4 DEF IsFile
  <2>6. DOMAIN file' = 0..(Frames - 1) => file' = data
    <3>1. SUFFICES ASSUME DOMAIN file' = 0..(Frames - 1) PROVE file' = data
      OBVIOUS
    <3> DEFINE D == 0..(Frames - 1)
    <3>2. 0..(k - 1) = D
      BY <2>2, <3>1
    <3>3. file' = [i \in D |-> data[i]]
      BY <2>2, <3>2
    <3>4. data \in [D -> Frame]
      BY <1>1
    <3> HIDE DEF D
    <3>5. QED
      BY <3>3, <3>4
  <2>7. QED
    BY <1>3, <2>5, <2>6 DEF data
<1>4. QED
  BY <1>2, <1>3

\* The end of a frame leaves the cards alone, but that card 0 may no longer be dirty.
LEMMA EndFrameDoes ==
  ASSUME PortInv, EndFrame(Amounts)
  PROVE  /\ IsMachine(m') /\ m'.tap = m.tap /\ m'.pads = [s \in Sub |-> Dev_Frame(m.pads[s])]
         /\ m'.cards[0].data = Card0.data
         /\ m'.cards[0].dirty = IF SaveIsDue THEN 0 ELSE Card0.dirty
         /\ \A s \in Sub : m'.cards[s] = [m.cards[s] EXCEPT !.dirty = m'.cards[s].dirty]
<1> DEFINE n == IF SaveIsDue THEN 0 ELSE Card0.dirty
<1> DEFINE c == [m.cards[0] EXCEPT !.dirty = n]
<1> DEFINE cards == [m.cards EXCEPT ![0] = c]
<1>1. 0 \in Sub /\ m.cards \in [Sub -> WellCards] /\ m.cards[0] \in WellCards /\ m.cards[0] \in Card
  BY CardsAreTyped DEF PortInv
<1>2. n \in Nat
  BY <1>1, CardFields DEF Card0
<1>3. IsMachine(Rested) /\ Rested.tap = m.tap /\ Rested.cards = m.cards
        /\ Rested.pads = [s \in Sub |-> Dev_Frame(m.pads[s])]
  BY PadsOnly DEF PortInv, Rested
<1>4. m' = [Rested EXCEPT !.cards[0].dirty = n]
  BY <1>3 DEF EndFrame, Card0
<1> HIDE DEF n
<1>5. m' = [Rested EXCEPT !.cards = cards]
  BY <1>3, <1>4
<1>6. c \in Card /\ c.data = Card0.data /\ c.dirty = n /\ c.phase = m.cards[0].phase /\ c.addr = m.cards[0].addr
  BY <1>1, <1>2 DEF Card, Card0
<1>7. c \in WellCards
  <2> HIDE DEF c
  <2>1. QED
    BY <1>1, <1>6 DEF WellCards, CardIsWell
<1>8. cards \in [Sub -> WellCards] /\ cards[0] = c /\ \A s \in Sub \ {0} : cards[s] = m.cards[s]
  <2> HIDE DEF c
  <2>1. QED
    BY <1>1, <1>7
<1> HIDE DEF cards
<1>9. IsMachine(m') /\ m'.tap = Rested.tap /\ m'.cards = cards /\ m'.pads = Rested.pads
  BY <1>3, <1>5, <1>8, CardOnly
<1>10. \A s \in Sub : m'.cards[s] = [m.cards[s] EXCEPT !.dirty = m'.cards[s].dirty]
  <2>1. TAKE s \in Sub
  <2>2. CASE s = 0
    <3>1. m'.cards[0] = c /\ c.dirty = n
      BY <1>6, <1>8, <1>9
    <3>2. QED
      BY <2>2, <3>1, Zenon DEF c
  <2>3. CASE s # 0
    <3>1. m'.cards[s] = m.cards[s] /\ m.cards[s] \in Card
      BY <1>1, <1>8, <1>9, <2>3 DEF WellCards
    <3>2. \A d \in Card : d = [d EXCEPT !.dirty = d.dirty]
      BY DEF Card
    <3>3. QED
      BY <3>1, <3>2
  <2>4. QED
    BY <2>2, <2>3
<1>11. QED
  BY <1>3, <1>6, <1>8, <1>9, <1>10 DEF n

LEMMA EndFrameKeeps ==
  ASSUME PortInv, EndFrame(Amounts)
  PROVE  PortInv'
<1>1. /\ IsMachine(m') /\ m'.cards[0].data = Card0.data
      /\ m'.cards[0].dirty = IF SaveIsDue THEN 0 ELSE Card0.dirty
  BY EndFrameDoes
<1>2. Card0.dirty \in Nat /\ prevDC \in Nat /\ delay \in Int /\ delay >= -1
  BY CardsAreTyped, CardFields DEF PortInv, Card0, DelayIsWell
<1>3. pc = "run" /\ pc' = "out" /\ UNCHANGED <<setup, saved>>
  BY DEF EndFrame
<1>4. CASE SaveIsDue
  <2>1. SaveMemcard(Amounts) /\ delay' = -1 /\ prevDC' = 0 /\ m'.cards[0].dirty = 0
    BY <1>1, <1>4 DEF EndFrame
  <2>2. /\ IsFile(file') /\ (Card0.dirty = 0 => file' = file)
        /\ Card0.dirty # 0 /\ DOMAIN file' = 0..(Frames - 1) => file' = Card0.data
    BY <2>1, SavedFile DEF PortInv
  <2>3. Whole' => file' = Card0.data
    BY <1>2, <1>3, <2>2 DEF PortInv, IsPending, Whole
  <2>4. IsPending'
    BY <1>1, <2>1, <2>3 DEF IsPending, Card0
  <2>5. QED
    BY <1>1, <1>3, <2>1, <2>2, <2>4 DEF PortInv, DelayIsWell
<1>5. CASE ~SaveIsDue
  <2>1. /\ file' = file /\ delay' = Waited /\ m'.cards[0].dirty = Card0.dirty
        /\ prevDC' = IF Card0.dirty > prevDC THEN Card0.dirty ELSE prevDC
    BY <1>1, <1>5 DEF EndFrame
  <2>2. /\ Waited \in Int /\ Waited >= -1
        /\ Waited < 0 => delay < 0 /\ ~(Card0.dirty > prevDC)
    BY <1>2 DEF Waited
  <2>3. IsPending'
    BY <1>1, <1>2, <1>3, <2>1, <2>2 DEF PortInv, IsPending, Card0, Whole
  <2>4. DelayIsWell'
    BY <1>2, <2>1, <2>2 DEF DelayIsWell
  <2>5. QED
    BY <1>1, <1>3, <2>1, <2>3, <2>4 DEF PortInv
<1>6. QED
  BY <1>4, <1>5

LEMMA StatesKeep ==
  ASSUME PortInv, SaveFails \/ SaveState \/ CloseGame(Amounts)
  PROVE  PortInv'
<1>1. CASE SaveFails
  BY <1>1 DEF SaveFails, PortInv, IsPending, DelayIsWell
<1>2. CASE SaveState
  BY <1>2 DEF SaveState, PortInv, IsPending, DelayIsWell, Card0, Whole
<1>3. CASE CloseGame(Amounts)
  <2>1. IsFile(file')
    BY <1>3, SavedFile DEF CloseGame, PortInv
  <2>2. QED
    BY <1>3, <2>1 DEF CloseGame, PortInv, IsPending, DelayIsWell
<1>4. QED
  BY <1>1, <1>2, <1>3

LEMMA LoadStateDoes ==
  ASSUME PortInv, NEW s \in saved,
         m' = [tap   |-> s.m.tap,
               pads  |-> [i \in Sub |-> Dev_Load(m.pads[i], s.m.pads[i])],
               cards |-> [i \in Sub |-> Card_Load(m.cards[i], s.m.cards[i])]]
  PROVE  IsMachine(m') /\ CountsOn(m, m')
<1> DEFINE t == s.m.tap
<1> DEFINE pads == [i \in Sub |-> Dev_Load(m.pads[i], s.m.pads[i])]
<1> DEFINE cards == [i \in Sub |-> Card_Load(m.cards[i], s.m.cards[i])]
<1>1. IsMachine(m) /\ IsMachine(s.m)
  BY DEF PortInv
<1>2. TapIsWell(t)
  BY <1>1 DEF IsMachine
<1>3. m.cards \in [Sub -> WellCards] /\ s.m.cards \in [Sub -> WellCards] /\ 0 \in Sub
  BY <1>1, CardsAreTyped
<1>4. cards \in [Sub -> WellCards] /\ cards[0] = Card_Load(m.cards[0], s.m.cards[0])
  BY <1>3, LoadSteps
<1>5. /\ cards[0].dirty >= m.cards[0].dirty
      /\ cards[0].data = m.cards[0].data \/ cards[0].dirty > m.cards[0].dirty
  <2> HIDE DEF cards
  <2>1. m.cards[0] \in WellCards /\ s.m.cards[0] \in WellCards
    BY <1>3
  <2>2. QED
    BY <1>4, <2>1, LoadSteps
<1> HIDE DEF t, pads, cards
<1>6. m' = [tap |-> t, pads |-> pads, cards |-> cards]
  BY DEF t, pads, cards
<1>7. m'.tap = t /\ m'.cards = cards /\ m' \in [tap : {t}, pads : {pads}, cards : {cards}]
  BY <1>6
<1>8. QED
  BY <1>2, <1>4, <1>5, <1>7 DEF IsMachine, CountsOn

LEMMA LoadStateKeeps ==
  ASSUME PortInv, LoadState
  PROVE  PortInv'
<1>1. PICK s \in saved :
        m' = [tap   |-> s.m.tap,
              pads  |-> [i \in Sub |-> Dev_Load(m.pads[i], s.m.pads[i])],
              cards |-> [i \in Sub |-> Card_Load(m.cards[i], s.m.cards[i])]]
  BY DEF LoadState
<1>2. IsMachine(m') /\ CountsOn(m, m')
  BY <1>1, LoadStateDoes
<1>3. QED
  BY <1>2, KeepsDisk DEF LoadState

LEMMA StartKeeps ==
  ASSUME PortInv, Start
  PROVE  PortInv'
<1>1. PICK dtr \in {FALSE, setup.tap} : m' = NewMachine(file, dtr)
  BY DEF Start
<1>2. dtr \in BOOLEAN /\ IsFile(file)
  BY PortAssumption DEF PortInv
<1>3. IsMachine(m') /\ m'.cards[0].data = FileContents(file)
  BY <1>1, <1>2, NewMachineIs
<1>4. Whole => file = FileContents(file)
  BY <1>2, LoadFileSteps DEF Whole
<1>5. QED
  BY <1>2, <1>3, <1>4 DEF Start, PortInv, IsPending, DelayIsWell, Whole, Card0

LEMMA ResetDoes ==
  ASSUME IsMachine(m), Reset
  PROVE  /\ IsMachine(m') /\ CountsOn(m, m') /\ m'.tap = m.tap
         /\ m'.pads = [s \in Sub |-> Dev_Power(m.pads[s])]
         /\ m'.cards = [s \in Sub |-> Card_Power(m.cards[s])]
<1> DEFINE pads == [s \in Sub |-> Dev_Power(m.pads[s])]
<1> DEFINE cards == [s \in Sub |-> Card_Power(m.cards[s])]
<1>1. m.cards \in [Sub -> WellCards] /\ 0 \in Sub /\ m.cards[0] \in WellCards
  BY CardsAreTyped
<1>2. cards \in [Sub -> WellCards] /\ cards[0] = Card_Power(m.cards[0])
  BY <1>1, PowerSteps
<1>3. cards[0].dirty = m.cards[0].dirty /\ cards[0].data = m.cards[0].data /\ m.cards[0].dirty \in Nat
  BY <1>1, <1>2, PowerSteps, CardsAreTyped, CardFields
<1>4. m' = [m EXCEPT !.pads = pads, !.cards = cards]
  BY DEF Reset
<1> HIDE DEF pads, cards
<1>5. m'.tap = m.tap /\ m'.pads = pads /\ m'.cards = cards /\ m' \in [tap : {m.tap}, pads : {pads}, cards : {cards}]
  BY <1>4 DEF IsMachine
<1>6. IsMachine(m') /\ CountsOn(m, m')
  BY <1>2, <1>3, <1>5 DEF IsMachine, CountsOn
<1>7. QED
  BY <1>5, <1>6 DEF pads, cards

LEMMA ResetKeeps ==
  ASSUME PortInv, Reset
  PROVE  PortInv'
<1>1. IsMachine(m') /\ CountsOn(m, m')
  BY ResetDoes DEF PortInv
<1>2. QED
  BY <1>1, KeepsDisk DEF Reset, frontend

LEMMA PortStep == PortInv /\ [Port_Next]_portVars => PortInv'
<1> SUFFICES ASSUME PortInv, [Port_Next]_portVars PROVE PortInv'
  OBVIOUS
<1>1. ASSUME NEW dtr \in BOOLEAN, SetDTR(dtr) PROVE PortInv'
  BY <1>1, SetDTRKeeps
<1>2. ASSUME NEW b \in Sends(setup, said) \cap Byte, Exchange(b) PROVE PortInv'
  BY <1>2, ExchangeKeeps
<1>3. ASSUME NEW b \in {1, 66}, Overhear(b) PROVE PortInv'
  <2>1. b \in Byte
    BY ByteIs
  <2>2. QED
    BY <1>3, <2>1, OverhearKeeps
<1>4. CASE BeginFrame \/ (\E s \in Sub : SeeBeam(s)) \/ (\E enabled \in BOOLEAN : SetAMCT(enabled))
  BY <1>4, PadsKeep
<1>5. CASE EndFrame(Amounts)
  BY <1>5, EndFrameKeeps
<1>6. CASE SaveFails \/ SaveState \/ CloseGame(Amounts)
  BY <1>6, StatesKeep
<1>7. CASE LoadState
  BY <1>7, LoadStateKeeps
<1>8. CASE Start
  BY <1>8, StartKeeps
<1>9. CASE Reset
  BY <1>9, ResetKeeps
<1>10. CASE UNCHANGED portVars
  BY <1>10 DEF portVars, PortInv, IsPending, DelayIsWell, Whole, Card0
<1>11. QED
  BY <1>1, <1>2, <1>3, <1>4, <1>5, <1>6, <1>7, <1>8, <1>9, <1>10 DEF Port_Next

LEMMA PortInvariance == Port_Spec => []PortInv
<1>1. PortInv /\ [Port_Next]_portVars => PortInv'
  BY PortStep
<1>2. QED
  BY PortInit, <1>1, PTL DEF Port_Spec

(* What is on the card and not in its file is never forgotten: as long as the game
   is loaded the card is dirty, and its delay is running or starts with the end of
   this frame (SaveMemcard and the delay in retro_run).                       *)
THEOREM ChangesAreSaved == Port_Spec => []UnsavedIsPending
<1>1. PortInv => UnsavedIsPending
  <2> SUFFICES ASSUME PortInv PROVE UnsavedIsPending
    OBVIOUS
  <2>1. delay \in Int /\ prevDC \in Nat
    BY DEF PortInv, DelayIsWell
  <2>2. QED
    BY <2>1 DEF PortInv, IsPending, UnsavedIsPending
<1>2. QED
  BY <1>1, PortInvariance, PTL
-----------------------------------------------------------------------------
(* The checksum.                                                             *)
LEMMA LeastOf ==
  ASSUME NEW T, T \subseteq Nat, T # {}
  PROVE  \E n \in T : \A k \in T : n <= k
<1> DEFINE R == OpToRel(<, Nat)
<1>0. T \subseteq Nat /\ T # {}
  OBVIOUS
<1>1. PICK n \in T : \A k \in T : ~ (<<k, n>> \in R)
  BY <1>0, NatLessThanWellFounded, WFMin, Zenon
<1>2. \A k \in T : n <= k
  <2> SUFFICES ASSUME NEW k \in T PROVE n <= k
    OBVIOUS
  <2>1. n \in Nat /\ k \in Nat
    OBVIOUS
  <2>2. k < n => <<k, n>> \in R
    BY <2>1 DEF OpToRel
  <2> HIDE DEF R
  <2>3. ~(k < n)
    BY <1>1, <2>2, Zenon
  <2> QED BY <2>1, <2>3
<1> QED BY <1>2

Sums(first, second, frame, n, f) ==
    f = [i \in 0..n |-> IF i = 0 THEN Xor(first, second) ELSE Xor(f[i - 1], frame[i])]

LEMMA MoreSums ==
  ASSUME NEW first, NEW second, NEW frame, NEW n \in Nat, NEW f, Sums(first, second, frame, n, f)
  PROVE  \E g : Sums(first, second, frame, n + 1, g)
<1> DEFINE g == [i \in 0..(n + 1) |-> IF i = n + 1 THEN Xor(f[n], frame[n + 1]) ELSE f[i]]
<1> DEFINE h == [i \in 0..(n + 1) |-> IF i = 0 THEN Xor(first, second) ELSE Xor(g[i - 1], frame[i])]
<1>1. \A i \in 0..n : f[i] = IF i = 0 THEN Xor(first, second) ELSE Xor(f[i - 1], frame[i])
  BY DEF Sums
<1>2. ASSUME NEW i \in 0..(n + 1) PROVE g[i] = h[i]
  <2>1. CASE i = n + 1
    BY <2>1
  <2>2. CASE i = 0
    BY <2>2, <1>1
  <2>3. CASE i # n + 1 /\ i # 0
    <3>1. i \in 0..n /\ i - 1 \in 0..n /\ i - 1 # n + 1 /\ i - 1 \in 0..(n + 1)
      BY <2>3
    <3>2. g[i] = f[i] /\ g[i - 1] = f[i - 1] /\ h[i] = Xor(g[i - 1], frame[i])
      BY <2>3, <3>1
    <3>3. QED
      BY <1>1, <2>3, <3>1, <3>2
  <2>4. QED
    BY <2>1, <2>2, <2>3
<1>3. g = h
  <2> SUFFICES DOMAIN g = DOMAIN h /\ \A i \in DOMAIN g : g[i] = h[i]
    OBVIOUS
  <2> QED BY <1>2
<1>4. Sums(first, second, frame, n + 1, g)
  BY <1>3, Zenon DEF Sums
<1>5. QED
  BY <1>4

LEMMA SumsExist ==
  ASSUME NEW first, NEW second, NEW frame, NEW n \in Nat
  PROVE  \E f : Sums(first, second, frame, n, f)
<1> DEFINE Bad == {k \in Nat : ~\E f : Sums(first, second, frame, k, f)}
<1> SUFFICES ASSUME Bad # {} PROVE FALSE
  OBVIOUS
<1>1. PICK k \in Bad : \A j \in Bad : k <= j
  BY LeastOf
<1>2. CASE k = 0
  <2> DEFINE f == [i \in 0..0 |-> Xor(first, second)]
  <2>1. Sums(first, second, frame, 0, f)
    <3>1. f = [i \in 0..0 |-> IF i = 0 THEN Xor(first, second) ELSE Xor(f[i - 1], frame[i])]
      OBVIOUS
    <3>2. QED
      BY <3>1, Zenon DEF Sums
  <2>2. QED
    BY <1>2, <2>1
<1>3. CASE k # 0
  <2>1. k - 1 \in Nat /\ k - 1 \notin Bad
    BY <1>1, <1>3
  <2>2. PICK f : Sums(first, second, frame, k - 1, f)
    BY <2>1
  <2>3. \E g : Sums(first, second, frame, (k - 1) + 1, g)
    BY <2>1, <2>2, MoreSums
  <2>4. (k - 1) + 1 = k
    BY <2>1
  <2>5. QED
    BY <2>3, <2>4
<1>4. QED
  BY <1>2, <1>3

LEMMA SumsAre ==
  ASSUME NEW first, NEW second, NEW frame
  PROVE  /\ SumsOf(first, second, frame)[0] = Xor(first, second)
         /\ \A i \in 0..(FrameLen - 1) :
              SumsOf(first, second, frame)[i + 1] = Xor(SumsOf(first, second, frame)[i], frame[i + 1])
<1> DEFINE f == CHOOSE f : Sums(first, second, frame, FrameLen, f)
<1>1. FrameLen \in Nat
  BY SmallFrames
<1>2. Sums(first, second, frame, FrameLen, f)
  BY <1>1, SumsExist
<1>3. SumsOf(first, second, frame) = f
  BY DEF SumsOf, Sums
<1> HIDE DEF f
<1>4. \A i \in 0..FrameLen : f[i] = IF i = 0 THEN Xor(first, second) ELSE Xor(f[i - 1], frame[i])
  BY <1>2 DEF Sums
<1>5. f[0] = Xor(first, second)
  BY <1>1, <1>4
<1>6. ASSUME NEW i \in 0..(FrameLen - 1) PROVE f[i + 1] = Xor(f[i], frame[i + 1])
  <2>1. i + 1 \in 0..FrameLen /\ i + 1 # 0 /\ (i + 1) - 1 = i
    BY <1>1
  <2>2. f[i + 1] = Xor(f[(i + 1) - 1], frame[i + 1])
    BY <1>4, <2>1
  <2>3. QED
    BY <2>1, <2>2
<1>7. QED
  BY <1>3, <1>5, <1>6
-----------------------------------------------------------------------------
(* What a card has made of the first n bytes of a transfer, all of which it got.   *)

\* The n + 1 bytes of t are the n of s and then b.
Grows(s, n, b, t) ==
    /\ n \in Nat /\ b \in Byte /\ Len(t) = n + 1
    /\ t[n + 1] = b
    /\ \A i \in 1..n : s[i] \in Byte /\ t[i] = s[i]

\* A read of a frame there is: the confirmed address, the data, the checksum and 'G'.
Speaks(c, s, n) ==
    LET f == c.data[FrameOf(s)]
        sums == SumsOf(s[5], s[6], f)
    IN  /\ n <= 9 + FrameLen => c.phase = 1015 + n /\ c.addr = FrameOf(s) /\ c.xor = sums[n - 9]
        /\ n \in 10..(9 + FrameLen) => c.sending /\ c.tx = f[n - 9]
        /\ n = 10 + FrameLen => c.phase = 1025 + FrameLen /\ c.sending /\ c.tx = sums[FrameLen]
        /\ n = 11 + FrameLen => c.sending /\ c.tx = 71
        /\ n >= 11 + FrameLen => c.phase = -1

Finds(c, s, n) ==
    /\ n \in {7, 8} => c.phase = 996 + n /\ c.addr = Looked(FrameOf(s))
    /\ n = 7 => c.xor = 0
    /\ n = 8 => c.xor = High(Looked(FrameOf(s)))
    /\ n >= 9 /\ FrameOf(s) >= Frames => c.phase = -1
    /\ n >= 9 /\ FrameOf(s) < Frames => Speaks(c, s, n)

Reads(c, s, n) ==
    /\ n = 4 => c.phase = 1000
    /\ n = 5 => c.phase = 1001 /\ c.addr = s[5] * 256
    /\ n = 6 => c.phase = 1002 /\ c.addr = FrameOf(s)
    /\ n >= 7 => Finds(c, s, n)

\* The card has the first k bytes of the frame, and the checksum up to them.
Gathered(c, s, k) ==
    /\ \A i \in 1..k : c.rw[i] = s[6 + i]
    /\ \A f \in Frame : (\A i \in 1..k : f[i] = s[6 + i]) => c.xor = SumsOf(s[5], s[6], f)[k]

Verdict(s) == IF ~RightSum(s) THEN 78 ELSE IF FrameOf(s) < Frames THEN 71 ELSE 255

Listens(c, s, n) ==
    /\ n <= 8 + FrameLen => c.phase = 2042 + n /\ c.addr = FrameOf(s)
    /\ n <= 6 + FrameLen => Gathered(c, s, n - 6)
    /\ n \in {7 + FrameLen, 8 + FrameLen} => Gathered(c, s, FrameLen) /\ c.wxor = s[7 + FrameLen]
    /\ n = 9 + FrameLen => c.sending /\ c.tx = Verdict(s)
    /\ n >= 9 + FrameLen => c.phase = -1

Writes(c, s, n) ==
    /\ n = 4 => c.phase = 2000
    /\ n = 5 => c.phase = 2001 /\ c.addr = s[5] * 256 /\ c.xor = s[5]
    /\ n >= 6 => Listens(c, s, n)

Asked(c, s, n) ==
    /\ n = 1 => c.phase = 1
    /\ n >= 2 /\ s[2] \notin Supported => c.phase = -1
    /\ n \in {2, 3} /\ s[2] \in Supported => c.phase = n /\ c.command = s[2]
    /\ n >= 4 /\ s[2] = 82 => Reads(c, s, n)
    /\ n >= 4 /\ s[2] = 87 => Writes(c, s, n)

CardAt(c, s, n) ==
    /\ n = 0 => c.phase = 0
    /\ n >= 1 /\ s[1] # 129 => c.phase = -1
    /\ n >= 1 /\ s[1] = 129 => Asked(c, s, n)

\* A byte stores what was sent if it completes a write that must be stored, or nothing.
StoresRight(c, d, t) ==
    d.data = IF Stores(t) THEN [c.data EXCEPT ![FrameOf(t)] = FrameSent(t)] ELSE c.data

ByteDone(c, d, t, n) == CardAt(d, t, n) /\ StoresRight(c, d, t)

\* A byte that is not the last of a write stores nothing.
LEMMA NothingStored ==
  ASSUME NEW c, NEW d, NEW t, d.data = c.data,
         Len(t) # 9 + FrameLen \/ t[1] # 129 \/ t[2] # 87
  PROVE  StoresRight(c, d, t)
BY DEF StoresRight, Stores, Begins

LEMMA SaidGrows ==
  ASSUME NEW s, NEW n, NEW b, NEW t, Grows(s, n, b, t)
  PROVE  /\ n \in Nat /\ Len(t) = n + 1 /\ b \in Byte
         /\ n = 0 => t[1] = b
         /\ n = 1 => t[2] = b
         /\ n >= 1 => t[1] = s[1] /\ s[1] \in Byte
         /\ n >= 2 => t[2] = s[2] /\ s[2] \in Byte
         /\ n >= 5 => t[5] = s[5] /\ s[5] \in Byte
         /\ n >= 6 => t[6] = s[6] /\ s[6] \in Byte /\ FrameOf(t) = FrameOf(s)
         /\ t[n + 1] = b
BY DEF Grows, FrameOf

(* The start of a transfer.                                                  *)
LEMMA FirstByte ==
  ASSUME NEW c \in WellCards, c.dtr, NEW s, NEW n, NEW b, NEW t, Grows(s, n, b, t), CardAt(c, s, n), n = 0
  PROVE  ByteDone(c, Card_Clock(c, b), t, n + 1)
<1> DEFINE k == Unsent(c)
           d == Card_Clock(c, b)
<1>1. c \in Card /\ b \in Byte /\ k \in Card /\ k.data = c.data /\ c.phase = 0
  BY UnsentDoes DEF WellCards, Grows, CardAt
<1>2. d = Select(k, b)
  BY <1>1, ClockIs
<1> HIDE DEF k, d
<1>3. d.data = c.data /\ d.phase = IF b = 129 THEN 1 ELSE -1
  BY <1>1, <1>2, SelectDoes DEF Puts, Drops
<1>4. n = 0 /\ Len(t) = 1 /\ t[1] = b
  BY SaidGrows DEF Grows
<1>5. CardAt(d, t, n + 1)
  BY <1>3, <1>4 DEF CardAt, Asked
<1>6. StoresRight(c, d, t)
  BY <1>3, <1>4, NothingStored, SmallFrames
<1>7. QED
  BY <1>5, <1>6 DEF ByteDone, d

\* A card that has given up does so until it is selected again.
LEMMA GivenUp ==
  ASSUME NEW c \in WellCards, c.dtr, NEW b \in Byte, c.phase = -1
  PROVE  /\ Card_Clock(c, b).phase = -1 /\ Card_Clock(c, b).data = c.data
         /\ Card_Clock(c, b).sending = FALSE
<1>1. c \in Card
  BY DEF WellCards
<1>2. Card_Clock(c, b) = Unsent(c)
  BY <1>1, ClockIs
<1>3. Unsent(c).phase = -1 /\ Unsent(c).data = c.data /\ Unsent(c).sending = FALSE
  BY <1>1, UnsentDoes
<1>4. QED
  BY <1>2, <1>3, Zenon

LEMMA Unasked ==
  ASSUME NEW c \in WellCards, c.dtr, NEW s, NEW n, NEW b, NEW t, Grows(s, n, b, t), CardAt(c, s, n),
         n >= 1, s[1] # 129
  PROVE  ByteDone(c, Card_Clock(c, b), t, n + 1)
<1> DEFINE d == Card_Clock(c, b)
<1>0. c.phase = -1 /\ b \in Byte
  BY DEF CardAt, Grows
<1>1. d.phase = -1 /\ d.data = c.data
  BY <1>0, GivenUp, Zenon
<1> HIDE DEF d
<1>2. n + 1 >= 1 /\ t[1] # 129
  BY SaidGrows DEF Grows
<1>3. CardAt(d, t, n + 1)
  BY <1>1, <1>2 DEF CardAt
<1>4. StoresRight(c, d, t)
  BY <1>1, <1>2, NothingStored
<1>5. QED
  BY <1>3, <1>4 DEF ByteDone, d

LEMMA SecondByte ==
  ASSUME NEW c \in WellCards, c.dtr, NEW s, NEW n, NEW b, NEW t, Grows(s, n, b, t), CardAt(c, s, n),
         n = 1, s[1] = 129
  PROVE  ByteDone(c, Card_Clock(c, b), t, n + 1)
<1> DEFINE k == Unsent(c)
           d == Card_Clock(c, b)
<1>0. c.phase = 1 /\ c \in Card /\ b \in Byte
  BY DEF WellCards, Grows, CardAt, Asked
<1>1. c \in Card /\ b \in Byte /\ k \in Card /\ k.data = c.data /\ c.phase = 1
  BY <1>0, UnsentDoes
<1>2. d = Command(k, b)
  BY <1>1, ClockIs
<1>4. n = 1 /\ Len(t) = 2 /\ t[1] = 129 /\ t[2] = b
  BY SaidGrows DEF Grows
<1>3. d.data = c.data /\ (b \notin Supported => d.phase = -1) /\ (b \in Supported => d.phase = 2 /\ d.command = b)
  <2> HIDE DEF d
  <2>1. CASE b \in Supported
    <3> DEFINE o == [k EXCEPT !.command = b]
    <3> HIDE DEF k
    <3>1. o \in Card /\ o.command = b /\ o.data = k.data
      BY <1>1 DEF Card
    <3>2. Puts(o, Command(k, b), 90, 2, k.addr, k.xor)
      BY <1>1, <2>1, CommandDoes
    <3> HIDE DEF o
    <3>3. QED
      BY <1>1, <1>2, <2>1, <3>1, <3>2 DEF Puts
  <2>2. CASE b \notin Supported
    <3> HIDE DEF k
    <3>1. Drops(k, Command(k, b))
      BY <1>1, <2>2, CommandDoes, Zenon
    <3>2. d.phase = -1 /\ d.data = k.data
      BY <1>2, <3>1 DEF Drops
    <3>3. QED
      BY <1>1, <2>2, <3>2
  <2>3. QED
    BY <2>1, <2>2
<1> HIDE DEF k, d
<1>5. CardAt(d, t, n + 1)
  BY <1>3, <1>4 DEF CardAt, Asked
<1>8. Len(t) # 9 + FrameLen /\ d.data = c.data
  BY <1>3, <1>4, SmallFrames
<1>6. StoresRight(c, d, t)
  BY <1>8, NothingStored, Zenon
<1>7. QED
  BY <1>5, <1>6 DEF ByteDone, d

LEMMA BadCommand ==
  ASSUME NEW c \in WellCards, c.dtr, NEW s, NEW n, NEW b, NEW t, Grows(s, n, b, t), CardAt(c, s, n),
         n >= 2, s[1] = 129, s[2] \notin Supported
  PROVE  ByteDone(c, Card_Clock(c, b), t, n + 1)
<1> DEFINE d == Card_Clock(c, b)
<1>0. c.phase = -1 /\ b \in Byte
  BY DEF CardAt, Asked, Grows
<1>1. d.phase = -1 /\ d.data = c.data
  BY <1>0, GivenUp, ZenonT(40)
<1> HIDE DEF d
<1>2. n + 1 >= 3 /\ t[1] = 129 /\ t[2] \notin Supported
  BY SaidGrows DEF Grows
<1>6. t[2] # 82 /\ t[2] # 87
  BY <1>2 DEF Supported
<1>3. CardAt(d, t, n + 1)
  BY <1>1, <1>2, <1>6 DEF CardAt, Asked
<1>4. StoresRight(c, d, t)
  BY <1>1, <1>6 DEF StoresRight, Stores, Begins
<1>5. QED
  BY <1>3, <1>4 DEF ByteDone, d

LEMMA Identified ==
  ASSUME NEW c \in WellCards, c.dtr, NEW s, NEW n, NEW b, NEW t, Grows(s, n, b, t), CardAt(c, s, n),
         n \in {2, 3}, s[1] = 129, s[2] \in Supported
  PROVE  ByteDone(c, Card_Clock(c, b), t, n + 1)
<1> DEFINE k == Unsent(c)
           d == Card_Clock(c, b)
<1>1. c \in Card /\ b \in Byte /\ k \in Card /\ k.data = c.data /\ k.phase = c.phase /\ k.command = c.command
  BY UnsentDoes DEF WellCards, Grows
<1>2. c.phase = n /\ c.command = s[2]
  BY DEF CardAt, Asked
<1>3. d = Identify(k)
  BY <1>1, <1>2, ClockIs
<1>4. Len(t) = n + 1 /\ t[1] = 129 /\ t[2] = s[2]
  BY SaidGrows DEF Grows
<1> HIDE DEF k, d
<1>9. /\ k.phase = 2 => Puts(k, d, 93, 3, k.addr, k.xor)
      /\ k.phase # 2 => Puts(k, d, 0, IF k.command = 82 THEN 1000 ELSE 2000, k.addr, k.xor)
  BY <1>1, <1>3, IdentifyDoes
<1>5. /\ n = 2 => d.phase = 3 /\ d.command = s[2] /\ d.data = c.data
      /\ n = 3 => d.phase = (IF s[2] = 82 THEN 1000 ELSE 2000) /\ d.data = c.data
  BY <1>1, <1>2, <1>9 DEF Puts
<1>6. CardAt(d, t, n + 1)
  BY <1>4, <1>5 DEF CardAt, Asked, Reads, Writes, Supported
<1>7. StoresRight(c, d, t)
  BY <1>4, <1>5, NothingStored, SmallFrames, SMTT(30)
<1>8. QED
  BY <1>6, <1>7 DEF ByteDone, d

(* A read, after the command.                                                *)
LEMMA AddressIs ==
  ASSUME NEW s, s[5] \in Byte, s[6] \in Byte
  PROVE  /\ FrameOf(s) \in Addr /\ FrameOf(s) \in Nat
         /\ High(FrameOf(s)) = s[5] /\ Low(FrameOf(s)) = s[6]
<1> DEFINE x == s[5]
           y == s[6]
<1>1. x \in Int /\ 0 <= x /\ x <= 255 /\ y \in Int /\ 0 <= y /\ y <= 255
  BY ByteIs
<1> HIDE DEF x, y
<1>2. /\ x * 256 + y \in Int /\ 0 <= x * 256 + y /\ x * 256 + y <= 65535
      /\ (x * 256 + y) \div 256 = x /\ (x * 256 + y) % 256 = y
  BY <1>1
<1>3. x * 256 + y \in Addr
  BY <1>2, AddrIs
<1>4. QED
  BY <1>2, <1>3 DEF FrameOf, High, Low, x, y

ReadPhase(p) == p \in 1000..1004 \cup 1024..(1025 + FrameLen)

\* A card in the middle of a read answers a byte with Reading.
LEMMA ReadsNow ==
  ASSUME NEW c \in WellCards, c.dtr, NEW b \in Byte,
         ReadPhase(c.phase)
  PROVE  LET k == Unsent(c) IN
         /\ Card_Clock(c, b) = Reading(k, b) /\ k \in Card /\ CardIsWell(k)
         /\ k.phase = c.phase /\ k.addr = c.addr /\ k.xor = c.xor /\ k.data = c.data
<1>1. c \in Card /\ CardIsWell(c)
  BY DEF WellCards
<1>2. Card_Clock(c, b) = Reading(Unsent(c), b)
  BY <1>1, ClockIs DEF ReadPhase
<1>3. /\ Unsent(c) \in Card /\ Unsent(c).phase = c.phase /\ Unsent(c).addr = c.addr
      /\ Unsent(c).xor = c.xor /\ Unsent(c).data = c.data
  BY <1>1, UnsentDoes
<1>4. CardIsWell(Unsent(c))
  BY <1>1, UnsentIsWell
<1>5. QED
  BY <1>2, <1>3, <1>4, Zenon

LEMMA ReadByte ==
  ASSUME NEW c \in WellCards, c.dtr, NEW s, NEW n, NEW b, NEW t, Grows(s, n, b, t), Reads(c, s, n),
         n \in 4..6
  PROVE  Reads(Card_Clock(c, b), t, n + 1) /\ Card_Clock(c, b).data = c.data
<1> DEFINE k == Unsent(c)
           d == Card_Clock(c, b)
<1>1. c.phase = 996 + n /\ b \in Byte /\ Len(t) = n + 1
  BY DEF Reads, Grows
<1>2. d = Reading(k, b) /\ k \in Card /\ CardIsWell(k)
        /\ k.phase = c.phase /\ k.addr = c.addr /\ k.xor = c.xor /\ k.data = c.data
  BY <1>1, ReadsNow DEF ReadPhase
<1> HIDE DEF k, d
<1>3. CASE n = 4
  <2>1. Puts(k, d, b, 1001, b * 256, k.xor)
    BY <1>1, <1>2, <1>3, ReadingAddress
  <2>2. t[5] = b
    BY <1>3 DEF Grows
  <2>3. d.phase = 1001 /\ d.addr = b * 256 /\ d.data = c.data
    BY <1>2, <2>1 DEF Puts
  <2>4. Reads(d, t, 5)
    BY <2>2, <2>3 DEF Reads
  <2>5. QED
    BY <1>3, <2>3, <2>4 DEF d
<1>4. CASE n = 5
  <2>1. Puts(k, d, 92, 1002, k.addr + b, k.xor)
    BY <1>1, <1>2, <1>4, ReadingAddress
  <2>2. t[6] = b /\ t[5] = s[5]
    BY <1>4 DEF Grows
  <2>3. k.addr = s[5] * 256
    BY <1>2, <1>4 DEF Reads
  <2>4. d.phase = 1002 /\ d.addr = FrameOf(t) /\ d.data = c.data
    BY <1>2, <2>1, <2>2, <2>3 DEF Puts, FrameOf
  <2>5. Reads(d, t, 6)
    BY <2>4 DEF Reads
  <2>6. QED
    BY <1>4, <2>4, <2>5 DEF d
<1>5. CASE n = 6
  <2>1. Puts(k, d, 93, 1003, Looked(k.addr), 0)
    BY <1>1, <1>2, <1>5, ReadingAddress
  <2>2. FrameOf(t) = FrameOf(s)
    BY <1>5, SaidGrows
  <2>3. k.addr = FrameOf(s)
    BY <1>2, <1>5 DEF Reads
  <2>4. d.phase = 1003 /\ d.addr = Looked(FrameOf(t)) /\ d.data = c.data /\ d.xor = 0
    BY <1>2, <2>1, <2>2, <2>3 DEF Puts
  <2>5. Reads(d, t, 7)
    BY <2>4 DEF Reads, Finds
  <2>6. QED
    BY <1>5, <2>4, <2>5 DEF d
<1>6. QED
  BY <1>3, <1>4, <1>5

\* The confirmed address: its two bytes are the first that the checksum takes.
LEMMA LookedIs ==
  ASSUME NEW s, s[5] \in Byte, s[6] \in Byte
  PROVE  /\ Looked(FrameOf(s)) \in Addr
         /\ FrameOf(s) >= Frames => Looked(FrameOf(s)) = NoFrame
         /\ FrameOf(s) < Frames => /\ Looked(FrameOf(s)) = FrameOf(s) /\ FrameOf(s) # NoFrame
                                   /\ FrameOf(s) \in 0..(Frames - 1)
<1>1. FrameOf(s) \in Addr /\ FrameOf(s) \in Nat
  BY AddressIs
<1>2. NoFrame \in Addr /\ NoFrame > Frames
  BY AddrIs, SmallFrames DEF NoFrame
<1>3. QED
  BY <1>1, <1>2, SmallFrames DEF Looked

LEMMA ReadHigh ==
  ASSUME NEW c \in WellCards, c.dtr, NEW s, NEW b, NEW t, Grows(s, 7, b, t), Reads(c, s, 7)
  PROVE  Reads(Card_Clock(c, b), t, 8) /\ Card_Clock(c, b).data = c.data
<1> DEFINE k == Unsent(c)
           d == Card_Clock(c, b)
           a == Looked(FrameOf(s))
<1>1. c.phase = 1003 /\ c.addr = a /\ c.xor = 0 /\ b \in Byte
  BY DEF Reads, Finds, Grows
<1>2. d = Reading(k, b) /\ k \in Card /\ CardIsWell(k)
        /\ k.phase = c.phase /\ k.addr = c.addr /\ k.xor = c.xor /\ k.data = c.data
  BY <1>1, ReadsNow DEF ReadPhase
<1> HIDE DEF k, d
<1>3. Puts(k, d, High(k.addr), 1004, k.addr, Xor(k.xor, High(k.addr)))
  BY <1>1, <1>2, ReadingEcho
<1>4. FrameOf(t) = FrameOf(s) /\ s[5] \in Byte /\ s[6] \in Byte
  BY SaidGrows
<1>5. a \in Addr
  BY <1>4, LookedIs
<1>6. Xor(0, High(a)) = High(a)
  BY <1>5, HighLow, CardAssumption
<1>7. d.phase = 1004 /\ d.addr = a /\ d.xor = High(a) /\ d.data = c.data
  <2> HIDE DEF a
  <2>1. QED
    BY <1>1, <1>2, <1>3, <1>6 DEF Puts
<1>8. Reads(d, t, 8)
  BY <1>4, <1>7 DEF Reads, Finds
<1>9. QED
  BY <1>7, <1>8 DEF d

LEMMA ReadLow ==
  ASSUME NEW c \in WellCards, c.dtr, NEW s, NEW b, NEW t, Grows(s, 8, b, t), Reads(c, s, 8)
  PROVE  Reads(Card_Clock(c, b), t, 9) /\ Card_Clock(c, b).data = c.data
<1> DEFINE k == Unsent(c)
           d == Card_Clock(c, b)
           a == Looked(FrameOf(s))
           f == c.data[FrameOf(s)]
<1>1. c.phase = 1004 /\ c.addr = a /\ c.xor = High(a) /\ b \in Byte
  BY DEF Reads, Finds, Grows
<1>2. d = Reading(k, b) /\ k \in Card /\ CardIsWell(k)
        /\ k.phase = c.phase /\ k.addr = c.addr /\ k.xor = c.xor /\ k.data = c.data
  BY <1>1, ReadsNow DEF ReadPhase
<1> HIDE DEF k, d
<1>3. Puts(k, d, Low(k.addr), IF k.addr = NoFrame THEN -1 ELSE 1024, k.addr, Xor(k.xor, Low(k.addr)))
  BY <1>1, <1>2, ReadingEcho
<1>4. FrameOf(t) = FrameOf(s) /\ s[5] \in Byte /\ s[6] \in Byte /\ t[5] = s[5] /\ t[6] = s[6]
  BY SaidGrows
<1>5. /\ FrameOf(s) >= Frames => a = NoFrame
      /\ FrameOf(s) < Frames => a = FrameOf(s) /\ FrameOf(s) # NoFrame
      /\ FrameOf(s) \in Nat
  BY <1>4, LookedIs, AddressIs
<1> HIDE DEF a
<1>6. /\ d.data = c.data /\ d.phase = (IF a = NoFrame THEN -1 ELSE 1024)
      /\ d.addr = a /\ d.xor = Xor(High(a), Low(a))
  BY <1>1, <1>2, <1>3 DEF Puts
<1>7. CASE FrameOf(s) >= Frames
  <2>1. d.phase = -1
    BY <1>5, <1>6, <1>7
  <2>2. Finds(d, t, 9)
    BY <1>4, <1>5, <1>7, <2>1, SmallFrames DEF Finds
  <2>3. Reads(d, t, 9)
    BY <2>2 DEF Reads
  <2>4. QED
    BY <1>6, <2>3 DEF d
<1>8. CASE FrameOf(s) < Frames
  <2>1. d.phase = 1024 /\ d.addr = FrameOf(s)
    BY <1>5, <1>6, <1>8
  <2>2. d.xor = SumsOf(t[5], t[6], d.data[FrameOf(t)])[0]
    <3>1. High(a) = s[5] /\ Low(a) = s[6]
      BY <1>4, <1>5, <1>8, AddressIs
    <3>2. d.xor = Xor(s[5], s[6])
      BY <1>6, <3>1
    <3>3. QED
      BY <1>4, <3>2, SumsAre
  <2>3. Speaks(d, t, 9)
    BY <1>4, <2>1, <2>2, SmallFrames DEF Speaks
  <2>4. Finds(d, t, 9)
    BY <1>4, <1>5, <1>8, <2>3, SmallFrames DEF Finds
  <2>5. Reads(d, t, 9)
    BY <2>4 DEF Reads
  <2>6. QED
    BY <1>6, <2>5 DEF d
<1>9. QED
  BY <1>5, <1>7, <1>8, SmallFrames

LEMMA ReadOn ==
  ASSUME NEW c \in WellCards, c.dtr, NEW s, NEW n, NEW b, NEW t, Grows(s, n, b, t), Reads(c, s, n),
         n >= 9, FrameOf(s) < Frames
  PROVE  Reads(Card_Clock(c, b), t, n + 1) /\ Card_Clock(c, b).data = c.data
<1> DEFINE k == Unsent(c)
           d == Card_Clock(c, b)
           f == c.data[FrameOf(s)]
           sums == SumsOf(s[5], s[6], f)
<1>8. n \in Nat /\ b \in Byte
  BY Zenon DEF Grows
<1>0. n \in Nat /\ b \in Byte /\ FrameLen \in Nat /\ FrameLen >= 1
  BY <1>8, SmallFrames
<1>1. Speaks(c, s, n)
  BY <1>0 DEF Reads, Finds
<1>2. /\ FrameOf(t) = FrameOf(s) /\ t[5] = s[5] /\ t[6] = s[6] /\ FrameOf(s) \in 0..(Frames - 1)
      /\ FrameOf(s) \in Nat
  BY <1>0, SaidGrows, LookedIs, AddressIs
<1>9. FrameOf(t) < Frames /\ ~(FrameOf(t) >= Frames)
  BY <1>2, SmallFrames
<1>3. /\ n <= 9 + FrameLen => c.phase = 1015 + n /\ c.addr = FrameOf(s) /\ c.xor = sums[n - 9]
      /\ n = 10 + FrameLen => c.phase = 1025 + FrameLen
      /\ n >= 11 + FrameLen => c.phase = -1
  BY <1>1 DEF Speaks
<1> HIDE DEF sums
<1>4. CASE n \in 9..(8 + FrameLen)
  <2>1. c.phase = 1015 + n /\ c.phase \in ReadData
    BY <1>0, <1>3, <1>4 DEF ReadData
  <2>2. d = Reading(k, b) /\ k \in Card /\ CardIsWell(k)
          /\ k.phase = c.phase /\ k.addr = c.addr /\ k.xor = c.xor /\ k.data = c.data
    BY <1>0, <2>1, ReadsNow DEF ReadPhase, ReadData
  <2> HIDE DEF k, d
  <2>3. DataByte(k) = f[n - 8]
    <3>1. k.data[k.addr] = f /\ k.phase - 1023 = n - 8
      BY <1>0, <1>3, <1>4, <2>1, <2>2
    <3>2. QED
      BY <3>1 DEF DataByte
  <2>4. Puts(k, d, DataByte(k), k.phase + 1, k.addr, Xor(k.xor, DataByte(k)))
    BY <1>0, <2>1, <2>2, ReadingData
  <2>5. /\ d.sending /\ d.tx = f[n - 8] /\ d.phase = 1016 + n /\ d.addr = FrameOf(s)
        /\ d.xor = Xor(sums[n - 9], f[n - 8]) /\ d.data = c.data
    BY <1>0, <1>3, <1>4, <2>1, <2>2, <2>3, <2>4 DEF Puts
  <2>6. sums[n - 8] = Xor(sums[n - 9], f[n - 8])
    <3>1. n - 9 \in 0..(FrameLen - 1) /\ (n - 9) + 1 = n - 8
      BY <1>0, <1>4
    <3>2. sums[(n - 9) + 1] = Xor(sums[n - 9], f[(n - 9) + 1])
      BY <3>1, SumsAre DEF sums
    <3>3. QED
      BY <3>1, <3>2
  <2>7. (n + 1) - 9 = n - 8 /\ n + 1 <= 9 + FrameLen /\ 1015 + (n + 1) = 1016 + n
    BY <1>0, <1>4
  <2>8. Speaks(d, t, n + 1)
    <3>1. SumsOf(t[5], t[6], d.data[FrameOf(t)]) = sums /\ d.data[FrameOf(t)] = f /\ d.addr = FrameOf(t)
      BY <1>2, <2>5 DEF sums
    <3> HIDE DEF f
    <3>2. QED
      BY <1>0, <1>4, <2>5, <2>6, <2>7, <3>1 DEF Speaks
  <2>9. Finds(d, t, n + 1)
    BY <1>0, <1>9, <1>4, <2>8 DEF Finds
  <2>10. Reads(d, t, n + 1)
    BY <1>0, <1>4, <2>9 DEF Reads
  <2>11. QED
    BY <2>5, <2>10 DEF d
<1>5. CASE n \in {9 + FrameLen, 10 + FrameLen}
  <2>1. c.phase = 1015 + n
    BY <1>0, <1>3, <1>5
  <2>2. d = Reading(k, b) /\ k \in Card /\ CardIsWell(k)
          /\ k.phase = c.phase /\ k.addr = c.addr /\ k.xor = c.xor /\ k.data = c.data
    BY <1>0, <1>5, <2>1, ReadsNow DEF ReadPhase
  <2> HIDE DEF k, d
  <2>3. CASE n = 9 + FrameLen
    <3>1. Puts(k, d, k.xor, k.phase + 1, k.addr, k.xor)
      BY <1>0, <2>1, <2>2, <2>3, ReadingData
    <3>2. d.sending /\ d.tx = sums[FrameLen] /\ d.phase = 1025 + FrameLen /\ d.data = c.data
      BY <1>0, <1>3, <2>1, <2>2, <2>3, <3>1 DEF Puts
    <3>3. Speaks(d, t, n + 1)
      BY <1>0, <1>2, <2>3, <3>2 DEF Speaks, sums
    <3>4. Finds(d, t, n + 1)
      BY <1>0, <1>9, <1>5, <3>3 DEF Finds
    <3>5. Reads(d, t, n + 1)
      BY <1>0, <1>5, <3>4 DEF Reads
    <3>6. QED
      BY <3>2, <3>5 DEF d
  <2>4. CASE n = 10 + FrameLen
    <3>1. Puts(k, d, 71, -1, k.addr, k.xor)
      BY <1>0, <2>1, <2>2, <2>4, ReadingData
    <3>2. d.sending /\ d.tx = 71 /\ d.phase = -1 /\ d.data = c.data
      BY <2>2, <3>1 DEF Puts
    <3>3. Speaks(d, t, n + 1)
      BY <1>0, <1>2, <2>4, <3>2 DEF Speaks
    <3>4. Finds(d, t, n + 1)
      BY <1>0, <1>9, <1>5, <3>3 DEF Finds
    <3>5. Reads(d, t, n + 1)
      BY <1>0, <1>5, <3>4 DEF Reads
    <3>6. QED
      BY <3>2, <3>5 DEF d
  <2>5. QED
    BY <1>5, <2>3, <2>4
<1>6. CASE n >= 11 + FrameLen
  <2>1. d.phase = -1 /\ d.data = c.data
    <3>1. c.phase = -1
      BY <1>3, <1>6
    <3>2. QED
      BY <1>0, <3>1, GivenUp
  <2> HIDE DEF d
  <2>2. Speaks(d, t, n + 1)
    BY <1>0, <1>2, <1>6, <2>1 DEF Speaks
  <2>3. Finds(d, t, n + 1)
    BY <1>0, <1>9, <1>6, <2>2 DEF Finds
  <2>4. Reads(d, t, n + 1)
    BY <1>0, <1>6, <2>3 DEF Reads
  <2>5. QED
    BY <2>1, <2>4 DEF d
<1>7. QED
  BY <1>0, <1>4, <1>5, <1>6

(* A write, after the command.                                               *)
WritePhase(p) == p \in {2000, 2001} \cup 2048..(2050 + FrameLen)

LEMMA WritesNow ==
  ASSUME NEW c \in WellCards, c.dtr, NEW b \in Byte, WritePhase(c.phase)
  PROVE  LET k == Unsent(c) IN
         /\ Card_Clock(c, b) = Writing(k, b) /\ k \in Card /\ CardIsWell(k)
         /\ k.phase = c.phase /\ k.addr = c.addr /\ k.xor = c.xor /\ k.data = c.data
         /\ k.rw = c.rw /\ k.wxor = c.wxor
<1>1. c \in Card /\ CardIsWell(c)
  BY DEF WellCards
<1>2. Card_Clock(c, b) = Writing(Unsent(c), b)
  BY <1>1, ClockIs DEF WritePhase
<1>3. /\ Unsent(c) \in Card /\ Unsent(c).phase = c.phase /\ Unsent(c).addr = c.addr
      /\ Unsent(c).xor = c.xor /\ Unsent(c).data = c.data /\ Unsent(c).rw = c.rw /\ Unsent(c).wxor = c.wxor
  BY <1>1, UnsentDoes
<1>4. CardIsWell(Unsent(c))
  BY <1>1, UnsentIsWell
<1>5. QED
  BY <1>2, <1>3, <1>4, Zenon

LEMMA WriteAddress ==
  ASSUME NEW c \in WellCards, c.dtr, NEW s, NEW n, NEW b, NEW t, Grows(s, n, b, t), Writes(c, s, n),
         n \in {4, 5}
  PROVE  Writes(Card_Clock(c, b), t, n + 1) /\ Card_Clock(c, b).data = c.data
<1> DEFINE k == Unsent(c)
           d == Card_Clock(c, b)
<1>1. c.phase = 1996 + n /\ b \in Byte
  BY DEF Writes, Grows
<1>2. d = Writing(k, b) /\ k \in Card /\ CardIsWell(k)
        /\ k.phase = c.phase /\ k.addr = c.addr /\ k.xor = c.xor /\ k.data = c.data
  BY <1>1, WritesNow DEF WritePhase
<1> HIDE DEF k, d
<1>3. CASE n = 4
  <2>1. Puts(k, d, b, 2001, b * 256, b)
    BY <1>1, <1>2, <1>3, WritingAddress
  <2>2. t[5] = b
    BY <1>3 DEF Grows
  <2>3. d.phase = 2001 /\ d.addr = b * 256 /\ d.xor = b /\ d.data = c.data
    BY <1>2, <2>1 DEF Puts
  <2>4. Writes(d, t, 5)
    BY <2>2, <2>3 DEF Writes
  <2>5. QED
    BY <1>3, <2>3, <2>4 DEF d
<1>4. CASE n = 5
  <2>1. Puts(k, d, b, 2048, k.addr + b, Xor(k.xor, b))
    BY <1>1, <1>2, <1>4, WritingAddress
  <2>2. t[6] = b /\ t[5] = s[5]
    BY <1>4 DEF Grows
  <2>3. k.addr = s[5] * 256 /\ k.xor = s[5]
    BY <1>2, <1>4 DEF Writes
  <2>4. d.phase = 2048 /\ d.addr = FrameOf(t) /\ d.xor = Xor(t[5], t[6]) /\ d.data = c.data
    BY <1>2, <2>1, <2>2, <2>3 DEF Puts, FrameOf
  <2>5. Gathered(d, t, 0)
    BY <2>4, SumsAre DEF Gathered
  <2>6. Listens(d, t, 6)
    BY <2>4, <2>5, SmallFrames DEF Listens
  <2>7. Writes(d, t, 6)
    BY <2>6 DEF Writes
  <2>8. QED
    BY <1>4, <2>4, <2>7 DEF d
<1>5. QED
  BY <1>3, <1>4

LEMMA GatherMore ==
  ASSUME NEW c \in Card, NEW s, NEW n, NEW b, NEW t, Grows(s, n, b, t), n \in 6..(5 + FrameLen),
         Gathered(c, s, n - 6), NEW d, d.rw = [c.rw EXCEPT ![n - 5] = b], d.xor = Xor(c.xor, b)
  PROVE  Gathered(d, t, n - 5)
<1>9. n \in Nat /\ b \in Byte
  BY Zenon DEF Grows
<1>0. n \in Nat /\ b \in Byte /\ FrameLen \in Nat
  BY <1>9, SmallFrames
<1>1. n - 5 \in 1..FrameLen /\ n - 6 \in 0..(FrameLen - 1) /\ (n - 6) + 1 = n - 5 /\ 6 + (n - 5) = n + 1
  BY <1>0
<1>2. t[5] = s[5] /\ t[6] = s[6] /\ t[n + 1] = b
  BY SaidGrows
<1>3. \A i \in 1..(n - 6) : i \in 1..(n - 5) /\ i # n - 5 /\ i \in 1..FrameLen /\ t[6 + i] = s[6 + i]
  BY <1>0 DEF Grows
<1>4. \A i \in 1..(n - 5) : i \in 1..(n - 6) \/ i = n - 5
  BY <1>0
<1>5. c.rw \in [1..FrameLen -> Byte]
  BY CardFields DEF Frame
<1>6. \A i \in 1..(n - 5) : d.rw[i] = t[6 + i]
  <2>1. ASSUME NEW i \in 1..(n - 6) PROVE d.rw[i] = t[6 + i]
    <3>1. d.rw[i] = c.rw[i]
      BY <1>3, <1>5
    <3>2. c.rw[i] = s[6 + i]
      BY DEF Gathered
    <3>3. QED
      BY <1>3, <3>1, <3>2
  <2>2. d.rw[n - 5] = t[6 + (n - 5)]
    BY <1>1, <1>2, <1>5
  <2>3. QED
    BY <1>4, <2>1, <2>2
<1>7. ASSUME NEW f \in Frame, \A i \in 1..(n - 5) : f[i] = t[6 + i]
      PROVE  d.xor = SumsOf(t[5], t[6], f)[n - 5]
  <2>1. \A i \in 1..(n - 6) : f[i] = s[6 + i]
    BY <1>3, <1>7
  <2>2. c.xor = SumsOf(s[5], s[6], f)[n - 6]
    BY <2>1 DEF Gathered
  <2>3. f[n - 5] = b
    <3>1. n - 5 \in 1..(n - 5)
      BY <1>0, <1>1
    <3>2. QED
      BY <1>1, <1>2, <1>7, <3>1
  <2> DEFINE sums == SumsOf(s[5], s[6], f)
  <2>4. sums[(n - 6) + 1] = Xor(sums[n - 6], f[(n - 6) + 1])
    BY <1>1, SumsAre
  <2>5. sums[n - 5] = Xor(c.xor, b)
    BY <1>1, <2>2, <2>3, <2>4
  <2>6. QED
    BY <1>2, <2>5
<1>8. QED
  BY <1>6, <1>7 DEF Gathered

LEMMA WriteDataByte ==
  ASSUME NEW c \in WellCards, c.dtr, NEW s, NEW n, NEW b, NEW t, Grows(s, n, b, t), Writes(c, s, n),
         n \in 6..(5 + FrameLen)
  PROVE  Writes(Card_Clock(c, b), t, n + 1) /\ Card_Clock(c, b).data = c.data
<1> DEFINE k == Unsent(c)
           d == Card_Clock(c, b)
<1>8. n \in Nat /\ b \in Byte
  BY Zenon DEF Grows
<1>0. n \in Nat /\ b \in Byte /\ FrameLen \in Nat /\ n >= 6 /\ n <= 5 + FrameLen
  BY <1>8, SmallFrames
<1>1. Listens(c, s, n)
  BY <1>0 DEF Writes
<1>2. c.phase = 2042 + n /\ c.addr = FrameOf(s) /\ Gathered(c, s, n - 6)
  BY <1>0, <1>1 DEF Listens
<1>3. d = Writing(k, b) /\ k \in Card
        /\ k.phase = c.phase /\ k.addr = c.addr /\ k.xor = c.xor /\ k.data = c.data /\ k.rw = c.rw
  BY <1>0, <1>2, WritesNow DEF WritePhase
<1> HIDE DEF k, d
<1>4. k.phase \in WriteData /\ k.phase - 2047 = n - 5
  BY <1>0, <1>2, <1>3 DEF WriteData
<1>5. Gathers(k, d, b, k.phase + 1, Xor(k.xor, b), [k.rw EXCEPT ![k.phase - 2047] = b], k.wxor)
  BY <1>0, <1>3, <1>4, WritingData
<1>6. /\ d.phase = 2043 + n /\ d.addr = FrameOf(s) /\ d.data = c.data
      /\ d.xor = Xor(k.xor, b) /\ d.rw = [k.rw EXCEPT ![n - 5] = b]
  BY <1>0, <1>2, <1>3, <1>4, <1>5 DEF Gathers
<1>7. Gathered(k, s, n - 6)
  BY <1>2, <1>3 DEF Gathered
<1>9. Gathered(d, t, n - 5)
  <2>1. n \in 6..(5 + FrameLen)
    BY <1>0
  <2>2. d.xor = Xor(k.xor, b) /\ d.rw = [k.rw EXCEPT ![n - 5] = b] /\ k \in Card
    BY <1>3, <1>6
  <2> HIDE <1>0, <1>3, <1>6
  <2>3. QED
    BY <1>7, <2>1, <2>2, GatherMore, Zenon
<1>10. FrameOf(t) = FrameOf(s)
  BY <1>0, SaidGrows
<1>11. n + 1 <= 6 + FrameLen /\ (n + 1) - 6 = n - 5 /\ 2042 + (n + 1) = 2043 + n
  BY <1>0
<1>12. Listens(d, t, n + 1)
  BY <1>0, <1>6, <1>9, <1>10, <1>11 DEF Listens
<1>13. Writes(d, t, n + 1)
  BY <1>0, <1>12 DEF Writes
<1>14. QED
  BY <1>6, <1>13 DEF d

LEMMA GatheredStays ==
  ASSUME NEW c, NEW d, NEW s, NEW n, NEW b, NEW t, Grows(s, n, b, t), n >= 6 + FrameLen,
         d.rw = c.rw, d.xor = c.xor, Gathered(c, s, FrameLen)
  PROVE  Gathered(d, t, FrameLen)
<1>0. n \in Nat /\ \A i \in 1..n : t[i] = s[i]
  BY Zenon DEF Grows
<1>1. n \in Nat /\ FrameLen \in Nat
  BY <1>0, SmallFrames
<1>5. \A i \in 1..FrameLen : 6 + i \in 1..n
  BY <1>1
<1>2. \A i \in 1..FrameLen : t[6 + i] = s[6 + i]
  BY <1>0, <1>5
<1>3. t[5] = s[5] /\ t[6] = s[6]
  BY <1>1, SaidGrows
<1>4. QED
  BY <1>2, <1>3 DEF Gathered

LEMMA WriteSum ==
  ASSUME NEW c \in WellCards, c.dtr, NEW s, NEW n, NEW b, NEW t, Grows(s, n, b, t), Writes(c, s, n),
         n \in {6 + FrameLen, 7 + FrameLen}
  PROVE  Writes(Card_Clock(c, b), t, n + 1) /\ Card_Clock(c, b).data = c.data
<1> DEFINE k == Unsent(c)
           d == Card_Clock(c, b)
<1>8. n \in Nat /\ b \in Byte
  BY Zenon DEF Grows
<1>0. n \in Nat /\ b \in Byte /\ FrameLen \in Nat /\ FrameLen >= 1
  BY <1>8, SmallFrames
<1>1. Listens(c, s, n)
  BY <1>0 DEF Writes
<1>2. /\ c.phase = 2042 + n /\ c.addr = FrameOf(s) /\ Gathered(c, s, FrameLen)
      /\ n = 7 + FrameLen => c.wxor = s[7 + FrameLen]
  <2>1. n = 6 + FrameLen => n - 6 = FrameLen
    BY <1>0
  <2>2. QED
    BY <1>0, <1>1, <2>1 DEF Listens
<1>3. d = Writing(k, b) /\ k \in Card
        /\ k.phase = c.phase /\ k.addr = c.addr /\ k.xor = c.xor /\ k.data = c.data /\ k.rw = c.rw
        /\ k.wxor = c.wxor
  BY <1>0, <1>2, WritesNow DEF WritePhase
<1> HIDE DEF k, d
<1>9. t[n + 1] = b /\ \A i \in 1..n : t[i] = s[i]
  BY Zenon DEF Grows
<1>4. FrameOf(t) = FrameOf(s) /\ t[n + 1] = b /\ (n = 7 + FrameLen => t[7 + FrameLen] = s[7 + FrameLen])
  <2>1. FrameOf(t) = FrameOf(s)
    BY <1>0, SaidGrows
  <2>2. n = 7 + FrameLen => 7 + FrameLen \in 1..n
    BY <1>0
  <2>3. QED
    BY <1>9, <2>1, <2>2
<1>5. CASE n = 6 + FrameLen
  <2>1. Gathers(k, d, 92, 2049 + FrameLen, k.xor, k.rw, b)
    BY <1>0, <1>2, <1>3, <1>5, WritingSum
  <2>2. /\ d.phase = 2049 + FrameLen /\ d.addr = FrameOf(s) /\ d.data = c.data
        /\ d.xor = c.xor /\ d.rw = c.rw /\ d.wxor = b
    BY <1>2, <1>3, <2>1 DEF Gathers
  <2>3. Gathered(d, t, FrameLen)
    BY <1>0, <1>2, <1>5, <2>2, GatheredStays
  <2>4. n + 1 = 7 + FrameLen
    BY <1>0, <1>5
  <2>5. Listens(d, t, 7 + FrameLen)
    BY <1>0, <1>4, <2>2, <2>3, <2>4 DEF Listens
  <2>6. Writes(d, t, n + 1)
    BY <1>0, <2>4, <2>5 DEF Writes
  <2>7. QED
    BY <2>2, <2>6 DEF d
<1>6. CASE n = 7 + FrameLen
  <2>1. Gathers(k, d, 93, 2050 + FrameLen, k.xor, k.rw, k.wxor)
    BY <1>0, <1>2, <1>3, <1>6, WritingSum
  <2>2. /\ d.phase = 2050 + FrameLen /\ d.addr = FrameOf(s) /\ d.data = c.data
        /\ d.xor = c.xor /\ d.rw = c.rw /\ d.wxor = s[7 + FrameLen]
    BY <1>2, <1>3, <1>6, <2>1 DEF Gathers
  <2>3. Gathered(d, t, FrameLen)
    BY <1>0, <1>2, <1>6, <2>2, GatheredStays
  <2>4. n + 1 = 8 + FrameLen
    BY <1>0, <1>6
  <2>5. Listens(d, t, 8 + FrameLen)
    BY <1>0, <1>4, <1>6, <2>2, <2>3 DEF Listens
  <2>6. Writes(d, t, n + 1)
    BY <1>0, <2>4, <2>5 DEF Writes
  <2>7. QED
    BY <2>2, <2>6 DEF d
<1>7. QED
  BY <1>5, <1>6

LEMMA SameFrame ==
  ASSUME NEW f \in Frame, NEW g \in Frame, \A i \in 1..FrameLen : f[i] = g[i]
  PROVE  f = g
<1>1. f = [i \in 1..FrameLen |-> f[i]] /\ g = [i \in 1..FrameLen |-> g[i]]
  BY Zenon DEF Frame
<1>2. QED
  BY <1>1, Zenon

LEMMA WriteEnds ==
  ASSUME NEW c \in WellCards, c.dtr, NEW s, NEW n, NEW b, NEW t, Grows(s, n, b, t), Writes(c, s, n),
         n = 8 + FrameLen, t[1] = 129, t[2] = 87
  PROVE  Writes(Card_Clock(c, b), t, n + 1) /\ StoresRight(c, Card_Clock(c, b), t)
<1> DEFINE k == Unsent(c)
           d == Card_Clock(c, b)
           sent == FrameSent(t)
<1>8. n \in Nat /\ b \in Byte
  BY Zenon DEF Grows
<1>0. n \in Nat /\ b \in Byte /\ FrameLen \in Nat /\ FrameLen >= 1
  BY <1>8, SmallFrames
<1>1. Listens(c, s, n)
  BY <1>0 DEF Writes
<1>2. c.phase = 2050 + FrameLen /\ c.addr = FrameOf(s) /\ Gathered(c, s, FrameLen) /\ c.wxor = s[7 + FrameLen]
  BY <1>0, <1>1 DEF Listens
<1>3. d = Writing(k, b) /\ k \in Card
        /\ k.phase = c.phase /\ k.addr = c.addr /\ k.xor = c.xor /\ k.data = c.data /\ k.rw = c.rw
        /\ k.wxor = c.wxor
  BY <1>0, <1>2, WritesNow DEF WritePhase
<1> HIDE DEF k, d
<1>4. Writing(k, b) = Commit(k)
  BY <1>0, <1>2, <1>3, SmallFrames DEF Writing, WriteData
<1>18. \A i \in 1..n : s[i] \in Byte /\ t[i] = s[i]
  BY Zenon DEF Grows
<1>5. /\ FrameOf(t) = FrameOf(s) /\ t[5] = s[5] /\ t[6] = s[6] /\ t[7 + FrameLen] = s[7 + FrameLen]
      /\ Len(t) = 9 + FrameLen /\ FrameOf(s) \in Nat
  <2>1. /\ FrameOf(t) = FrameOf(s) /\ t[5] = s[5] /\ t[6] = s[6] /\ Len(t) = n + 1
        /\ s[5] \in Byte /\ s[6] \in Byte
    BY <1>0, SaidGrows
  <2>2. FrameOf(s) \in Nat
    BY <2>1, AddressIs
  <2>3. 7 + FrameLen \in 1..n /\ n + 1 = 9 + FrameLen
    BY <1>0
  <2>4. QED
    BY <1>18, <2>1, <2>2, <2>3
<1>6. \A i \in 1..FrameLen : t[6 + i] = s[6 + i] /\ s[6 + i] \in Byte
  <2>1. \A i \in 1..FrameLen : 6 + i \in 1..n
    BY <1>0
  <2>2. QED
    BY <1>18, <2>1
<1>7. sent \in Frame /\ \A i \in 1..FrameLen : sent[i] = s[6 + i]
  BY <1>6 DEF Frame, FrameSent
<1>9. k.rw = sent
  <2>1. k.rw \in Frame /\ sent \in Frame
    BY <1>3, <1>7, CardFields
  <2>2. \A i \in 1..FrameLen : k.rw[i] = sent[i]
    BY <1>2, <1>3, <1>7 DEF Gathered
  <2> HIDE DEF sent
  <2>3. QED
    BY <2>1, <2>2, SameFrame
<1>10. k.xor = Checksum(t[5], t[6], sent)
  BY <1>2, <1>3, <1>5, <1>7 DEF Gathered, Checksum
<1>11. RightSum(t) <=> k.xor = k.wxor
  BY <1>2, <1>3, <1>5, <1>10 DEF RightSum
<1>12. Stores(t) <=> RightSum(t) /\ FrameOf(t) < Frames
  <2>1. Len(t) = 9 + FrameLen /\ Len(t) >= 6
    BY <1>0, <1>5
  <2> HIDE <1>0, <1>5
  <2>2. QED
    BY <2>1, Zenon DEF Stores, Begins
<1>13. k.addr = FrameOf(t) /\ Frames \in Nat
  <2>1. k.addr = FrameOf(t)
    BY <1>2, <1>3, <1>5
  <2>2. Frames \in Nat
    BY Zenon, FramesAreNat
  <2>3. QED
    BY <2>1, <2>2
<1> HIDE DEF sent
<1>14. CASE ~RightSum(t)
  <2>1. Puts(k, d, 78, -1, k.addr, k.xor)
    BY <1>3, <1>4, <1>11, <1>14, CommitDoes
  <2>2. d.sending /\ d.tx = 78 /\ d.phase = -1 /\ d.data = c.data
    BY <1>3, <2>1 DEF Puts
  <2>3. Listens(d, t, 9 + FrameLen)
    BY <1>0, <1>14, <2>2 DEF Listens, Verdict
  <2>4. StoresRight(c, d, t)
    BY <1>12, <1>14, <2>2 DEF StoresRight
  <2>5. QED
    BY <1>0, <2>3, <2>4 DEF Writes, d
<1>15. CASE RightSum(t) /\ ~(FrameOf(t) < Frames)
  <2>1. Puts(k, d, 255, -1, k.addr, k.xor)
    <3>1. k.addr >= Frames /\ k.xor = k.wxor
      BY <1>5, <1>11, <1>13, <1>15
    <3>2. QED
      BY <1>3, <1>4, <3>1, CommitDoes
  <2>2. d.sending /\ d.tx = 255 /\ d.phase = -1 /\ d.data = c.data
    BY <1>3, <2>1 DEF Puts
  <2>3. Listens(d, t, 9 + FrameLen)
    BY <1>0, <1>15, <2>2 DEF Listens, Verdict
  <2>4. StoresRight(c, d, t)
    BY <1>12, <1>15, <2>2 DEF StoresRight
  <2>5. QED
    BY <1>0, <2>3, <2>4 DEF Writes, d
<1>16. CASE RightSum(t) /\ FrameOf(t) < Frames
  <2>1. Takes(k, d)
    <3>1. k.addr < Frames /\ k.xor = k.wxor
      BY <1>5, <1>11, <1>13, <1>16
    <3>2. QED
      BY <1>3, <1>4, <3>1, CommitDoes
  <2>2. d.sending /\ d.tx = 71 /\ d.phase = -1 /\ d.data = [c.data EXCEPT ![FrameOf(t)] = sent]
    BY <1>3, <1>9, <1>13, <2>1 DEF Takes
  <2>3. Listens(d, t, 9 + FrameLen)
    BY <1>0, <1>16, <2>2 DEF Listens, Verdict
  <2>4. StoresRight(c, d, t)
    BY <1>12, <1>16, <2>2 DEF StoresRight, sent
  <2>5. QED
    BY <1>0, <2>3, <2>4 DEF Writes, d
<1>17. QED
  BY <1>14, <1>15, <1>16

LEMMA ReadFollows ==
  ASSUME NEW c \in WellCards, c.dtr, NEW s, NEW n, NEW b, NEW t, Grows(s, n, b, t), Reads(c, s, n),
         n >= 4
  PROVE  Reads(Card_Clock(c, b), t, n + 1) /\ Card_Clock(c, b).data = c.data
<1> DEFINE d == Card_Clock(c, b)
<1>0. n \in Nat /\ b \in Byte
  BY Zenon DEF Grows
<1>1. CASE n \in 4..6
  BY <1>1, ReadByte
<1>2. CASE n = 7
  BY <1>2, ReadHigh
<1>3. CASE n = 8
  BY <1>3, ReadLow
<1>4. CASE n >= 9
  <2>1. FrameOf(t) = FrameOf(s) /\ s[5] \in Byte /\ s[6] \in Byte
    BY <1>0, <1>4, SaidGrows
  <2>2. FrameOf(s) \in Nat /\ Frames \in Nat
    BY <2>1, AddressIs, SmallFrames
  <2>3. CASE FrameOf(s) < Frames
    BY <1>4, <2>3, ReadOn
  <2>4. CASE FrameOf(s) >= Frames
    <3>1. c.phase = -1
      BY <1>0, <1>4, <2>4 DEF Reads, Finds
    <3>2. d.phase = -1 /\ d.data = c.data
      BY <1>0, <3>1, GivenUp
    <3> HIDE DEF d
    <3>3. Reads(d, t, n + 1)
      BY <1>0, <1>4, <2>1, <2>2, <2>4, <3>2 DEF Reads, Finds
    <3>4. QED
      BY <3>2, <3>3 DEF d
  <2>5. QED
    BY <2>2, <2>3, <2>4
<1>5. QED
  BY <1>0, <1>1, <1>2, <1>3, <1>4

LEMMA WriteFollows ==
  ASSUME NEW c \in WellCards, c.dtr, NEW s, NEW n, NEW b, NEW t, Grows(s, n, b, t), Writes(c, s, n),
         n >= 4, t[1] = 129, t[2] = 87
  PROVE  Writes(Card_Clock(c, b), t, n + 1) /\ StoresRight(c, Card_Clock(c, b), t)
<1> DEFINE d == Card_Clock(c, b)
<1>9. n \in Nat /\ b \in Byte /\ Len(t) = n + 1
  BY Zenon DEF Grows
<1>0. n \in Nat /\ b \in Byte /\ Len(t) = n + 1 /\ FrameLen \in Nat /\ FrameLen >= 1
  BY <1>9, SmallFrames
<1>1. ASSUME Writes(d, t, n + 1), d.data = c.data, n # 8 + FrameLen
      PROVE  Writes(d, t, n + 1) /\ StoresRight(c, d, t)
  <2> HIDE DEF d
  <2>1. Len(t) # 9 + FrameLen
    BY <1>0, <1>1
  <2>2. QED
    BY <1>1, <2>1, NothingStored
<1>2. CASE n \in {4, 5}
  <2>1. Writes(d, t, n + 1) /\ d.data = c.data
    BY <1>2, WriteAddress
  <2>2. n # 8 + FrameLen
    BY <1>0, <1>2
  <2>3. QED
    BY <1>1, <2>1, <2>2, Zenon
<1>3. CASE n \in 6..(5 + FrameLen)
  <2>1. Writes(d, t, n + 1) /\ d.data = c.data
    BY <1>3, WriteDataByte
  <2>2. n # 8 + FrameLen
    BY <1>0, <1>3
  <2>3. QED
    BY <1>1, <2>1, <2>2, Zenon
<1>4. CASE n \in {6 + FrameLen, 7 + FrameLen}
  <2>1. Writes(d, t, n + 1) /\ d.data = c.data
    BY <1>4, WriteSum
  <2>2. n # 8 + FrameLen
    BY <1>0, <1>4
  <2>3. QED
    BY <1>1, <2>1, <2>2, Zenon
<1>5. CASE n = 8 + FrameLen
  BY <1>5, WriteEnds
<1>6. CASE n >= 9 + FrameLen
  <2>1. c.phase = -1
    BY <1>0, <1>6 DEF Writes, Listens
  <2>2. d.phase = -1 /\ d.data = c.data
    BY <1>0, <2>1, GivenUp, ZenonT(40)
  <2>3. Writes(d, t, n + 1)
    <3> HIDE DEF d
    <3>1. Listens(d, t, n + 1)
      BY <1>0, <1>6, <2>2 DEF Listens
    <3>2. QED
      BY <1>0, <1>6, <3>1 DEF Writes
  <2>4. n # 8 + FrameLen
    BY <1>0, <1>6
  <2>5. QED
    BY <1>1, <2>2, <2>3, <2>4, Zenon
<1>7. QED
  BY <1>0, <1>2, <1>3, <1>4, <1>5, <1>6

(* A card tells by its phase where the transfer is, and stores what a write sent.   *)
LEMMA CardFollows ==
  ASSUME NEW c \in WellCards, c.dtr, NEW s, NEW n, NEW b, NEW t, Grows(s, n, b, t), CardAt(c, s, n)
  PROVE  ByteDone(c, Card_Clock(c, b), t, n + 1)
<1> DEFINE d == Card_Clock(c, b)
<1>0. n \in Nat /\ b \in Byte /\ Len(t) = n + 1 /\ FrameLen \in Nat /\ FrameLen >= 1
  <2>1. n \in Nat /\ b \in Byte /\ Len(t) = n + 1
    BY Zenon DEF Grows
  <2>2. QED
    BY <2>1, SmallFrames
<1>1. CASE n = 0
  BY <1>1, FirstByte
<1>2. CASE n >= 1 /\ s[1] # 129
  BY <1>2, Unasked
<1>3. CASE n = 1 /\ s[1] = 129
  BY <1>3, SecondByte
<1>4. CASE n >= 2 /\ s[1] = 129 /\ s[2] \notin Supported
  BY <1>4, BadCommand
<1>5. CASE n \in {2, 3} /\ s[1] = 129 /\ s[2] \in Supported
  BY <1>5, Identified
<1>6. CASE n >= 4 /\ s[1] = 129 /\ s[2] = 82
  <2>1. Reads(c, s, n)
    BY <1>0, <1>6 DEF CardAt, Asked
  <2>2. t[1] = 129 /\ t[2] = 82
    BY <1>0, <1>6, SaidGrows
  <2>3. Reads(d, t, n + 1) /\ d.data = c.data
    BY <1>0, <1>6, <2>1, ReadFollows
  <2> HIDE DEF d
  <2>4. Asked(d, t, n + 1)
    <3>1. t[2] \in Supported /\ t[2] # 87
      BY <2>2 DEF Supported
    <3>2. n + 1 >= 4 /\ n + 1 \notin {1, 2, 3}
      BY <1>0, <1>6
    <3>3. QED
      BY <2>3, <3>1, <3>2 DEF Asked
  <2>5. CardAt(d, t, n + 1)
    BY <1>0, <1>6, <2>2, <2>4 DEF CardAt
  <2>6. t[2] # 87
    BY <2>2
  <2>7. StoresRight(c, d, t)
    BY <2>3, <2>6 DEF StoresRight, Stores, Begins
  <2>8. QED
    BY <2>5, <2>7 DEF ByteDone, d
<1>7. CASE n >= 4 /\ s[1] = 129 /\ s[2] = 87
  <2>1. Writes(c, s, n)
    BY <1>0, <1>7 DEF CardAt, Asked
  <2>2. t[1] = 129 /\ t[2] = 87
    BY <1>0, <1>7, SaidGrows
  <2>3. Writes(d, t, n + 1) /\ StoresRight(c, d, t)
    BY <1>0, <1>7, <2>1, <2>2, WriteFollows
  <2> HIDE DEF d
  <2>4. Asked(d, t, n + 1)
    <3>1. t[2] \in Supported /\ t[2] # 82
      BY <2>2 DEF Supported
    <3>2. n + 1 >= 4 /\ n + 1 \notin {1, 2, 3}
      BY <1>0, <1>7
    <3>3. QED
      BY <2>3, <3>1, <3>2 DEF Asked
  <2>5. CardAt(d, t, n + 1)
    BY <1>0, <1>7, <2>2, <2>4 DEF CardAt
  <2>6. QED
    BY <2>3, <2>5 DEF ByteDone, d
<1>8. QED
  BY <1>0, <1>1, <1>2, <1>3, <1>4, <1>5, <1>6, <1>7 DEF Supported
-----------------------------------------------------------------------------
(* What is plugged in stays what it is, and answers only with what it has.         *)

\* The steps of a command that a DualShock may be at.
ShockPhase(p) ==
    \/ p.phase \in {-1, 0, 1, 2, 101} \cup At(66, 0)..At(66, 6)
    \/ p.command \in Int /\ \E n \in 0..2 : p.phase = At(p.command, n)
    \/ p.command = 77 /\ \E n \in 0..6 : p.phase = At(77, n)

\* A DualShock's modes and the mapping of its motors.
HasModes(p) == {"config", "analog", "magic"} \subseteq DOMAIN p

PadIsWell(p) ==
    /\ {"kind", "dtr", "phase", "tx"} \subseteq DOMAIN p
    /\ p.kind \in Kinds /\ p.dtr \in BOOLEAN
    /\ p.kind = "none" => ~p.dtr
    /\ IsShock(p) => "command" \in DOMAIN p /\ HasModes(p) /\ ShockPhase(p)

\* A pad that was addressed, and not it, or that is done; and one not addressed yet.
QuietPad(p)  == p.phase = -1 /\ p.tx = << >>
FreshPad(p)  == p.phase = 0 /\ p.tx = << >>

\* What a pad may become without being selected or deselected.
Goes(p, q) == PadIsWell(q) /\ q.kind = p.kind /\ q.dtr = p.dtr

\* The same record but for what the serial line does not tell.
Alters(p, q) == DOMAIN q = DOMAIN p /\ q.kind = p.kind /\ q.dtr = p.dtr

LEMMA ShockGoes ==
  ASSUME NEW d, PadIsWell(d), IsShock(d), NEW q, Alters(d, q), ShockPhase(q)
  PROVE  Goes(d, q)
BY DEF PadIsWell, HasModes, Goes, Alters, IsShock

LEMMA PlainGoes ==
  ASSUME NEW p, PadIsWell(p), ~IsShock(p), NEW q, Alters(p, q)
  PROVE  Goes(p, q)
BY DEF PadIsWell, Goes, Alters, IsShock

LEMMA SameGoes ==
  ASSUME NEW p, PadIsWell(p), NEW q, Alters(p, q), q.phase = p.phase, IsShock(p) => q.command = p.command
  PROVE  Goes(p, q)
<1>1. CASE IsShock(p)
  <2>1. ShockPhase(q)
    BY <1>1 DEF PadIsWell, ShockPhase
  <2>2. QED
    BY <1>1, <2>1, ShockGoes
<1>2. CASE ~IsShock(p)
  BY <1>2, PlainGoes
<1>3. QED
  BY <1>1, <1>2

(* The DualShock.                                                            *)
ShockIs(d) == PadIsWell(d) /\ IsShock(d)

LEMMA AddressingGoes ==
  ASSUME NEW d, ShockIs(d), NEW b
  PROVE  Goes(d, Addressing(d, b)) /\ (b # 1 => Addressing(d, b).phase = -1 /\ Addressing(d, b).tx = d.tx)
<1> DEFINE q == Addressing(d, b)
<1>1. {"kind", "dtr", "phase", "tx", "command"} \subseteq DOMAIN d
  BY DEF ShockIs, PadIsWell
<1>2. Alters(d, q) /\ q.phase \in {-1, 1, 101} /\ (b # 1 => q.phase = -1 /\ q.tx = d.tx)
  BY <1>1 DEF Addressing, Alters
<1> HIDE DEF q
<1>3. ShockPhase(q)
  BY <1>2 DEF ShockPhase
<1>4. QED
  BY <1>2, <1>3, ShockGoes DEF q, ShockIs

LEMMA CommandedGoes ==
  ASSUME NEW d, ShockIs(d), NEW b
  PROVE  Goes(d, Commanded(d, b))
<1> DEFINE q == Commanded(d, b)
<1>1. {"kind", "dtr", "phase", "tx", "command"} \subseteq DOMAIN d
  BY DEF ShockIs, PadIsWell
<1>2. Alters(d, q) /\ q.phase \in {-1, 2, At(66, 0)}
  BY <1>1 DEF Commanded, Alters
<1> HIDE DEF q
<1>3. ShockPhase(q)
  BY <1>2 DEF ShockPhase, At
<1>4. QED
  BY <1>2, <1>3, ShockGoes DEF q, ShockIs

LEMMA MayEnterGoes ==
  ASSUME NEW d, ShockIs(d), NEW b, d.phase = 2
  PROVE  Goes(d, MayEnter(d, b))
<1> DEFINE q == MayEnter(d, b)
<1>1. {"kind", "dtr", "phase", "tx", "command"} \subseteq DOMAIN d
  BY DEF ShockIs, PadIsWell
<1>2. Alters(d, q) /\ q.phase \in {-1, 2}
  BY <1>1 DEF MayEnter, Alters
<1> HIDE DEF q
<1>3. ShockPhase(q)
  BY <1>2 DEF ShockPhase
<1>4. QED
  BY <1>2, <1>3, ShockGoes DEF q, ShockIs

LEMMA ConfigCommandGoes ==
  ASSUME NEW d, ShockIs(d), NEW b
  PROVE  Goes(d, ConfigCommand(d, b))
<1> DEFINE q == ConfigCommand(d, b)
<1>1. {"kind", "dtr", "phase", "tx", "command"} \subseteq DOMAIN d
  BY DEF ShockIs, PadIsWell
<1>2. Alters(d, q) /\ (q.phase = -1 \/ (b \in Int /\ q.command = b /\ q.phase = At(b, 0)))
  <2>1. Alters(d, q)
    BY <1>1, Zenon DEF ConfigCommand, Alters
  <2>2. CASE b \in Commands
    <3>1. b \in Int
      BY <2>2 DEF Commands
    <3>2. q.command = b /\ q.phase = At(b, 0)
      BY <1>1, <2>2, Zenon DEF ConfigCommand
    <3>3. QED
      BY <2>1, <3>1, <3>2
  <2>3. CASE b \notin Commands
    <3>1. q.phase = -1
      BY <1>1, <2>3, Zenon DEF ConfigCommand
    <3> HIDE DEF q
    <3>2. QED
      BY <2>1, <3>1
  <2>4. QED
    BY <2>2, <2>3
<1> HIDE DEF q
<1>3. ShockPhase(q)
  BY <1>2 DEF ShockPhase
<1>4. QED
  BY <1>2, <1>3, ShockGoes DEF q, ShockIs

PollPhase(p) == p \in At(66, 0)..At(66, 6)

LEMMA PollGoes ==
  ASSUME NEW d, ShockIs(d), NEW b, PollPhase(d.phase)
  PROVE  Goes(d, Poll(d, b))
<1> DEFINE q == Poll(d, b)
<1>1. {"kind", "dtr", "phase", "tx", "command"} \subseteq DOMAIN d
  BY DEF ShockIs, PadIsWell
<1>5. d.phase \in Int
  BY DEF PollPhase, At
<1>2. Alters(d, q) /\ PollPhase(q.phase)
  <2>1. CASE d.phase = At(66, 0)
    <3>1. q = PollData(d)
      BY <2>1 DEF Poll, At
    <3> HIDE DEF q
    <3>2. Alters(d, q) /\ q.phase = d.phase + 1
      BY <1>1, <3>1, Zenon DEF PollData, Alters
    <3>3. QED
      BY <2>1, <3>2 DEF PollPhase, At
  <2>2. CASE d.phase = At(66, 1)
    <3>1. q = [d EXCEPT !.param = Motors(d, b, 1), !.phase = @ + 1]
      BY <2>2 DEF Poll, At
    <3> HIDE DEF q
    <3>2. Alters(d, q) /\ q.phase = d.phase + 1
      BY <1>1, <3>1, Zenon DEF Alters
    <3>3. QED
      BY <2>2, <3>2 DEF PollPhase, At
  <2>3. CASE d.phase = At(66, 2)
    <3>1. q = [d EXCEPT !.param = Motors(d, b, 2), !.phase = @ + 1]
      BY <2>3 DEF Poll, At
    <3> HIDE DEF q
    <3>2. Alters(d, q) /\ q.phase = d.phase + 1
      BY <1>1, <3>1, Zenon DEF Alters
    <3>3. QED
      BY <2>3, <3>2 DEF PollPhase, At
  <2>4. CASE d.phase = At(66, 3)
    <3>1. q = [d EXCEPT !.param = IF ~d.compat /\ d.magic[2] = 0 /\ d.magic[3] = 1
                                       THEN [@ EXCEPT ![2] = b] ELSE @,
                            !.phase = @ + 1]
      BY <2>4 DEF Poll, At
    <3> HIDE DEF q
    <3>2. Alters(d, q) /\ q.phase = d.phase + 1
      BY <1>1, <3>1, Zenon DEF Alters
    <3>3. QED
      BY <2>4, <3>2 DEF PollPhase, At
  <2>5. CASE d.phase \notin {At(66, 0), At(66, 1), At(66, 2), At(66, 3)}
    BY <1>1, <2>5 DEF Poll, Alters
  <2>6. QED
    BY <2>1, <2>2, <2>3, <2>4, <2>5
<1> HIDE DEF q
<1>3. ShockPhase(q)
  BY <1>2 DEF ShockPhase, PollPhase
<1>4. QED
  BY <1>2, <1>3, ShockGoes DEF q, ShockIs

\* The steps of a command in configuration mode.
ConfigPhase(d) ==
    /\ d.command \in Int
    /\ \/ \E n \in 0..2 : d.phase = At(d.command, n)
       \/ d.command = 77 /\ \E n \in 0..6 : d.phase = At(77, n)

LEMMA ConfigGoes ==
  ASSUME NEW d, ShockIs(d), NEW b, ConfigPhase(d)
  PROVE  Goes(d, Config(d, b))
<1> DEFINE q == Config(d, b)
<1> DEFINE n == d.phase - At(d.command, 0)
<1>1. {"kind", "dtr", "phase", "tx", "command"} \subseteq DOMAIN d
  BY DEF ShockIs, PadIsWell
<1>5. /\ d.command \in Int /\ n \in 0..6 /\ d.phase = At(d.command, n) /\ d.phase \in Int
      /\ d.command # 77 => n \in 0..2
  BY DEF ConfigPhase, At
<1>2. /\ Alters(d, q)
      /\ \/ q.phase = -1
         \/ q.command = d.command /\ \E k \in 0..2 : q.phase = At(q.command, k)
         \/ q.command = 77 /\ \E k \in 0..6 : q.phase = At(77, k)
  <2>1. CASE n = 0
    <3>1. q = IF b = 0 THEN [d EXCEPT !.tx = <<First(d)>>, !.phase = @ + 1] ELSE [d EXCEPT !.phase = -1]
      BY <2>1 DEF Config
    <3> HIDE DEF q
    <3>2. d.phase + 1 = At(d.command, 1)
      BY <1>5, <2>1 DEF At
    <3>3. Alters(d, q) /\ q.command = d.command
      BY <1>1, <3>1, Zenon DEF Alters
    <3>5. q.phase = IF b = 0 THEN d.phase + 1 ELSE -1
      BY <1>1, <3>1, Zenon
    <3>4. QED
      BY <3>2, <3>3, <3>5
  <2>2. CASE n > 0 /\ d.command = 77
    <3> DEFINE i == d.phase - At(77, 0)
    <3>1. q = Magic(d, b) /\ i \in 1..6 /\ d.phase = At(77, i)
      BY <1>5, <2>2 DEF Config
    <3>2. i < 6 => d.phase + 1 = At(77, i + 1) /\ i + 1 \in 0..6
      BY <1>5, <3>1 DEF At
    <3>3. Alters(d, q) /\ (q.phase = -1 \/ (i < 6 /\ q.command = 77 /\ q.phase = d.phase + 1))
      <4> HIDE DEF q
      <4>1. q = [d EXCEPT !.magic[i] = b, !.tx = IF i < 6 THEN <<d.magic[i + 1]>> ELSE @,
                          !.phase = IF i < 6 THEN @ + 1 ELSE -1]
        BY <3>1 DEF Magic
      <4> HIDE DEF i
      <4>2. q.command = d.command
        BY <1>1, <4>1, Zenon
      <4>3. Alters(d, q) /\ (i < 6 => q.phase = d.phase + 1) /\ (~(i < 6) => q.phase = -1)
        BY <1>1, <4>1, Zenon DEF Alters
      <4>4. q.command = 77
        BY <2>2, <4>2
      <4>5. QED
        BY <4>3, <4>4, Zenon
    <3> HIDE DEF q, i
    <3>4. QED
      BY <3>2, <3>3
  <2>3. CASE n = 1 /\ d.command # 77
    <3>1. q = Second(d, b)
      BY <1>5, <2>3 DEF Config
    <3> HIDE DEF q
    <3>2. d.phase + 1 = At(d.command, 2)
      BY <1>5, <2>3 DEF At
    <3>3. Alters(d, q) /\ q.command = d.command /\ (q.phase = -1 \/ q.phase = d.phase + 1)
      BY <1>1, <3>1, Zenon DEF Second, Alters
    <3>4. QED
      BY <3>2, <3>3
  <2>4. CASE n = 2 /\ d.command # 77
    <3>1. q = Lock(d, b)
      BY <1>5, <2>4 DEF Config
    <3> HIDE DEF q
    <3>2. Alters(d, q) /\ q.phase = -1
      BY <1>1, <3>1 DEF Lock, Alters
    <3>3. QED
      BY <3>2
  <2>5. QED
    BY <1>5, <2>1, <2>2, <2>3, <2>4
<1> HIDE DEF q
<1>3. ShockPhase(q)
  BY <1>2, <1>5 DEF ShockPhase
<1>4. QED
  BY <1>2, <1>3, ShockGoes DEF q, ShockIs

\* What one byte does to a pad.
ClockedPad(p, q, b) ==
    /\ Goes(p, q)
    /\ ~p.dtr => q = p
    /\ QuietPad(p) => QuietPad(q)
    /\ FreshPad(p) /\ p.dtr /\ b # 1 => QuietPad(q)

LEMMA ShockClock ==
  ASSUME NEW p, ShockIs(p), NEW b
  PROVE  ClockedPad(p, Shock_Clock(p, b), b)
<1> DEFINE q == Shock_Clock(p, b)
           d == [p EXCEPT !.tx = IF @ = << >> THEN @ ELSE Tail(@),
                          !.sent = IF p.phase # 2 THEN 0 ELSE IF p.tx = << >> THEN @ ELSE @ + 1]
<1>1. PadIsWell(p) /\ IsShock(p) /\ {"kind", "dtr", "phase", "tx", "command"} \subseteq DOMAIN p
  BY DEF ShockIs, PadIsWell
<1>2. /\ Alters(p, d) /\ d.phase = p.phase /\ d.command = p.command
      /\ p.tx = << >> => d.tx = << >>
  BY <1>1, Zenon DEF Alters
<1>3. q = CASE ~p.dtr -> p
            [] p.dtr /\ d.phase = -1 -> d
            [] p.dtr /\ d.phase = 0 -> Addressing(d, b)
            [] p.dtr /\ d.phase = 1 -> Commanded(d, b)
            [] p.dtr /\ d.phase = 2 -> MayEnter(d, b)
            [] p.dtr /\ d.phase = 101 -> ConfigCommand(d, b)
            [] p.dtr /\ d.phase \in At(66, 0)..At(66, 6) -> Poll(d, b)
            [] OTHER -> Config(d, b)
  BY Zenon DEF Shock_Clock
<1> HIDE DEF d, q
<1>4. Goes(p, d)
  BY <1>1, <1>2, SameGoes
<1>5. ShockIs(d) /\ d.kind = p.kind /\ d.dtr = p.dtr
  BY <1>1, <1>4 DEF ShockIs, Goes, IsShock
<1>6. p.dtr \in BOOLEAN /\ ShockPhase(d)
  BY <1>1, <1>5 DEF PadIsWell, ShockIs
<1>7. \A e : Goes(d, e) => Goes(p, e)
  BY <1>5 DEF Goes
<1>8. CASE ~p.dtr
  <2>1. q = p
    BY <1>3, <1>6, <1>8
  <2>2. QED
    BY <1>1, <1>8, <2>1 DEF Goes, ClockedPad, q
<1>9. CASE p.dtr /\ d.phase = -1
  <2>1. q = d
    BY <1>3, <1>6, <1>9 DEF At
  <2>2. QED
    BY <1>2, <1>4, <1>9, <2>1 DEF ClockedPad, QuietPad, FreshPad, q
<1>10. CASE p.dtr /\ d.phase = 0
  <2>1. q = Addressing(d, b)
    BY <1>3, <1>6, <1>10 DEF At
  <2>2. Goes(d, q) /\ (b # 1 => q.phase = -1 /\ q.tx = d.tx)
    BY <1>5, <2>1, AddressingGoes
  <2>3. QED
    BY <1>2, <1>7, <1>10, <2>2 DEF ClockedPad, QuietPad, FreshPad, q
<1>11. CASE p.dtr /\ d.phase = 1
  <2>1. q = Commanded(d, b)
    BY <1>3, <1>6, <1>11 DEF At
  <2>2. Goes(d, q)
    BY <1>5, <2>1, CommandedGoes
  <2>3. QED
    BY <1>2, <1>7, <1>11, <2>2 DEF ClockedPad, QuietPad, FreshPad, q
<1>12. CASE p.dtr /\ d.phase = 2
  <2>1. q = MayEnter(d, b)
    BY <1>3, <1>6, <1>12 DEF At
  <2>2. Goes(d, q)
    BY <1>5, <1>12, <2>1, MayEnterGoes
  <2>3. QED
    BY <1>2, <1>7, <1>12, <2>2 DEF ClockedPad, QuietPad, FreshPad, q
<1>13. CASE p.dtr /\ d.phase = 101
  <2>1. q = ConfigCommand(d, b)
    BY <1>3, <1>6, <1>13 DEF At
  <2>2. Goes(d, q)
    BY <1>5, <2>1, ConfigCommandGoes
  <2>3. QED
    BY <1>2, <1>7, <1>13, <2>2 DEF ClockedPad, QuietPad, FreshPad, q
<1>14. CASE p.dtr /\ d.phase \in At(66, 0)..At(66, 6)
  <2>1. d.phase \notin {-1, 0, 1, 2, 101}
    BY <1>14 DEF At
  <2>2. q = Poll(d, b)
    BY <1>3, <1>6, <1>14, <2>1
  <2>3. Goes(d, q)
    BY <1>5, <1>14, <2>2, PollGoes DEF PollPhase
  <2>4. QED
    BY <1>2, <1>7, <1>14, <2>1, <2>3 DEF ClockedPad, QuietPad, FreshPad, q
<1>15. CASE p.dtr /\ d.phase \notin {-1, 0, 1, 2, 101} /\ d.phase \notin At(66, 0)..At(66, 6)
  <2>1. q = Config(d, b)
    BY <1>3, <1>6, <1>15
  <2>2. ConfigPhase(d)
    BY <1>6, <1>15 DEF ShockPhase, ConfigPhase
  <2>3. Goes(d, q)
    BY <1>5, <2>1, <2>2, ConfigGoes
  <2>4. QED
    BY <1>2, <1>7, <1>15, <2>3 DEF ClockedPad, QuietPad, FreshPad, q
<1>16. QED
  BY <1>6, <1>8, <1>9, <1>10, <1>11, <1>12, <1>13, <1>14, <1>15

\* The other pads.
PlainIs(p) == PadIsWell(p) /\ ~IsShock(p)

LEMMA AfterPollAlters ==
  ASSUME NEW p, PlainIs(p), p.kind # "none"
  PROVE  Alters(p, AfterPoll(p))
<1>1. {"kind", "dtr", "phase", "tx"} \subseteq DOMAIN p /\ p.kind \in Polled \ {"none"}
  BY DEF PlainIs, PadIsWell, IsShock, Kinds
<1>2. CASE p.kind = "gamepad"
  <2>1. AfterPoll(p) = GamepadPolled(p)
    BY <1>2 DEF AfterPoll, Mice
  <2>2. QED
    BY <1>1, <2>1, Zenon DEF GamepadPolled, Alters
<1>3. CASE p.kind \in {"dualanalog", "analogjoy"}
  <2>1. AfterPoll(p) = DualAnalogPolled(p)
    BY <1>3 DEF AfterPoll, Mice
  <2>2. QED
    BY <1>1, <2>1, Zenon DEF DualAnalogPolled, Alters
<1>4. CASE p.kind = "negcon"
  <2>1. AfterPoll(p) = NegconPolled(p)
    BY <1>4 DEF AfterPoll, Mice
  <2>2. QED
    BY <1>1, <2>1, Zenon DEF NegconPolled, Alters
<1>5. CASE p.kind = "mouse"
  <2>1. AfterPoll(p) = MousePolled(p)
    BY <1>5 DEF AfterPoll, Mice
  <2> DEFINE v == <<90, 255, IF p.pressed THEN 248 ELSE 252, Reported(p) % 256, 0>>
  <2>2. MousePolled(p) = [p EXCEPT !.tx = v, !.moved = @ - Reported(p), !.pressed = p.held /\ @, !.quiet = 0]
    BY Zenon DEF MousePolled
  <2> HIDE DEF v
  <2>3. QED
    BY <1>1, <2>1, <2>2, Zenon DEF Alters
<1>6. CASE p.kind = "guncon"
  <2>1. AfterPoll(p) = GunConPolled(p)
    BY <1>6 DEF AfterPoll, Mice
  <2>2. QED
    BY <1>1, <2>1, ZenonT(40) DEF GunConPolled, Alters
<1>7. CASE p.kind = "justifier"
  <2>1. AfterPoll(p) = JustifierPolled(p)
    BY <1>7 DEF AfterPoll, Mice
  <2>2. QED
    BY <1>1, <2>1, ZenonT(40) DEF JustifierPolled, Alters
<1>8. QED
  BY <1>1, <1>2, <1>3, <1>6, <1>4, <1>5, <1>6, <1>7 DEF Polled, Mice, Guns

LEMMA PlainClock ==
  ASSUME NEW pad, PlainIs(pad), NEW b
  PROVE  ClockedPad(pad, Pad_Clock(pad, b), b)
<1> DEFINE q == Pad_Clock(pad, b)
           p == [pad EXCEPT !.tx = IF @ = << >> THEN @ ELSE Tail(@)]
           a == AfterPoll(p)
<1>1. PadIsWell(pad) /\ ~IsShock(pad) /\ {"kind", "dtr", "phase", "tx"} \subseteq DOMAIN pad
  BY DEF PlainIs, PadIsWell
<1>2. /\ Alters(pad, p) /\ p.phase = pad.phase
      /\ pad.tx = << >> => p.tx = << >>
  BY <1>1, Zenon DEF Alters
<1>3. q = CASE ~pad.dtr \/ pad.kind = "none" -> pad
            [] pad.dtr /\ p.phase = 0 ->
                 IF b = 1 THEN [p EXCEPT !.tx = <<Id(p.kind)>>, !.phase = 1]
                 ELSE [p EXCEPT !.phase = -1]
            [] pad.dtr /\ p.phase = 1 ->
                 IF b = 66 THEN [a EXCEPT !.phase = 2]
                 ELSE [p EXCEPT !.tx = << >>, !.phase = -1]
            [] pad.dtr /\ p.phase \in {2, 3} /\ p.kind = "justifier" ->
                 [p EXCEPT !.phase = @ + 1,
                           !.detect = IF p.phase = 3 THEN (b \div 16) % 2 = 1 ELSE @]
            [] OTHER -> p
  BY Zenon DEF Pad_Clock
<1> HIDE DEF p, q
<1>4. Goes(pad, p)
  BY <1>1, <1>2, PlainGoes
<1>5. PlainIs(p) /\ p.kind = pad.kind /\ p.dtr = pad.dtr
  BY <1>1, <1>4 DEF PlainIs, Goes, IsShock
<1>6. /\ pad.dtr \in BOOLEAN /\ {"kind", "dtr", "phase", "tx"} \subseteq DOMAIN p
      /\ pad.kind = "none" => ~pad.dtr
  BY <1>1, <1>5 DEF PadIsWell, PlainIs
<1>7. \A e : Alters(p, e) => Goes(pad, e)
  <2>1. ASSUME NEW e, Alters(p, e) PROVE Goes(pad, e)
    <3>1. Alters(pad, e)
      BY <1>2, <2>1 DEF Alters
    <3>2. QED
      BY <1>1, <3>1, PlainGoes
  <2>2. QED
    BY <2>1
<1>8. CASE ~pad.dtr
  <2>1. q = pad
    BY <1>3, <1>6, <1>8
  <2>2. QED
    BY <1>1, <1>8, <2>1 DEF Goes, ClockedPad, q
<1>9. CASE pad.dtr /\ p.phase = 0 /\ b = 1
  <2>1. q = [p EXCEPT !.tx = <<Id(p.kind)>>, !.phase = 1]
    BY <1>3, <1>6, <1>9
  <2>2. Alters(p, q)
    BY <1>6, <2>1, Zenon DEF Alters
  <2>3. QED
    BY <1>2, <1>7, <1>9, <2>2 DEF ClockedPad, QuietPad, FreshPad, q
<1>10. CASE pad.dtr /\ p.phase = 0 /\ b # 1
  <2>1. q = [p EXCEPT !.phase = -1]
    BY <1>3, <1>6, <1>10
  <2>2. Alters(p, q) /\ q.phase = -1 /\ q.tx = p.tx
    BY <1>6, <2>1, Zenon DEF Alters
  <2>3. QED
    BY <1>2, <1>7, <1>10, <2>2 DEF ClockedPad, QuietPad, FreshPad, q
<1>11. CASE pad.dtr /\ p.phase = 1 /\ b = 66
  <2>1. q = [a EXCEPT !.phase = 2]
    BY <1>3, <1>6, <1>11
  <2>2. Alters(p, a)
    BY <1>5, <1>6, <1>11, AfterPollAlters
  <2> HIDE DEF a
  <2>3. Alters(a, q)
    BY <1>6, <2>1, <2>2, Zenon DEF Alters
  <2>4. Alters(p, q)
    BY <2>2, <2>3 DEF Alters
  <2>5. QED
    BY <1>2, <1>7, <1>11, <2>4 DEF ClockedPad, QuietPad, FreshPad, q
<1>12. CASE pad.dtr /\ p.phase = 1 /\ b # 66
  <2>1. q = [p EXCEPT !.tx = << >>, !.phase = -1]
    BY <1>3, <1>6, <1>12
  <2>2. Alters(p, q)
    BY <1>6, <2>1, Zenon DEF Alters
  <2>3. QED
    BY <1>2, <1>7, <1>12, <2>2 DEF ClockedPad, QuietPad, FreshPad, q
<1>13. CASE pad.dtr /\ p.phase \in {2, 3} /\ p.kind = "justifier"
  <2>1. q = [p EXCEPT !.phase = @ + 1, !.detect = IF p.phase = 3 THEN (b \div 16) % 2 = 1 ELSE @]
    BY <1>3, <1>6, <1>13
  <2>2. Alters(p, q)
    BY <1>6, <2>1, Zenon DEF Alters
  <2>3. p.phase \notin {-1, 0}
    BY <1>13
  <2>4. QED
    BY <1>2, <1>7, <1>13, <2>2, <2>3 DEF ClockedPad, QuietPad, FreshPad, q
<1>14. CASE pad.dtr /\ p.phase \notin {0, 1} /\ ~(p.phase \in {2, 3} /\ p.kind = "justifier")
  <2>1. q = p
    BY <1>3, <1>6, <1>14
  <2>2. QED
    BY <1>2, <1>4, <1>14, <2>1 DEF ClockedPad, QuietPad, FreshPad, q
<1>15. QED
  BY <1>6, <1>8, <1>9, <1>10, <1>11, <1>12, <1>13, <1>14

LEMMA PadClocked ==
  ASSUME NEW p, PadIsWell(p), NEW b
  PROVE  ClockedPad(p, Dev_Clock(p, b), b)
<1>1. CASE IsShock(p)
  <2>1. Dev_Clock(p, b) = Shock_Clock(p, b)
    BY <1>1 DEF Dev_Clock
  <2>2. QED
    BY <1>1, <2>1, ShockClock DEF ShockIs
<1>2. CASE ~IsShock(p)
  <2>1. Dev_Clock(p, b) = Pad_Clock(p, b)
    BY <1>2 DEF Dev_Clock
  <2>2. QED
    BY <1>2, <2>1, PlainClock DEF PlainIs
<1>3. QED
  BY <1>1, <1>2

\* What the frontend and the end of a frame do to a pad: nothing of what it says.
Keeps(p, q) == Goes(p, q) /\ q.phase = p.phase /\ q.tx = p.tx

LEMMA AltersKeeps ==
  ASSUME NEW p, PadIsWell(p), NEW q, Alters(p, q), q.phase = p.phase, q.tx = p.tx,
         IsShock(p) => q.command = p.command
  PROVE  Keeps(p, q)
BY SameGoes DEF Keeps

LEMMA Fields ==
  ASSUME NEW p, PadIsWell(p)
  PROVE  /\ {"kind", "dtr", "phase", "tx"} \subseteq DOMAIN p
         /\ IsShock(p) => "command" \in DOMAIN p
         /\ p.kind \in Kinds /\ p.dtr \in BOOLEAN
BY DEF PadIsWell

LEMMA SamePad ==
  ASSUME NEW p, PadIsWell(p)
  PROVE  Keeps(p, p)
BY DEF Keeps, Goes

LEMMA CheckModeKeeps ==
  ASSUME NEW d, ShockIs(d)
  PROVE  Keeps(d, CheckMode(d))
<1> DEFINE q == CheckMode(d)
<1>1. PadIsWell(d) /\ {"kind", "dtr", "phase", "tx", "command"} \subseteq DOMAIN d
  BY DEF ShockIs, PadIsWell
<1>2. CASE d.dtr
  BY <1>1, <1>2, SamePad DEF CheckMode
<1>3. CASE ~d.dtr
  <2> DEFINE v == CASE ~d.toggles \/ ~d.held -> -1
                    [] ComboDone(d)          -> -2
                    [] d.toggles /\ d.held /\ d.combo = -1 -> 0
                    [] OTHER                 -> d.combo
             w == IF (ComboDone(d) \/ ButtonPushed(d)) /\ ~d.locked THEN ~d.analog ELSE d.analog
             z == d.button
  <2>1. q = [d EXCEPT !.combo = v, !.analog = w, !.was = z]
    BY <1>3, Zenon DEF CheckMode
  <2> HIDE DEF q, v, w, z
  <2>2. Alters(d, q) /\ q.phase = d.phase /\ q.tx = d.tx /\ q.command = d.command
    BY <1>1, <2>1, Zenon DEF Alters
  <2>3. QED
    BY <1>1, <2>2, AltersKeeps DEF q
<1>4. QED
  BY <1>2, <1>3

\* Selecting and deselecting.
Switched(p, q, dtr) ==
    /\ PadIsWell(q) /\ q.kind = p.kind
    /\ q.dtr = (dtr /\ p.kind # "none")
    /\ dtr /\ ~p.dtr /\ p.kind # "none" => FreshPad(q)
    /\ dtr /\ p.dtr => q.phase = p.phase /\ q.tx = p.tx
    /\ p.kind = "none" => q = p

LEMMA ShockSwitched ==
  ASSUME NEW p, ShockIs(p), NEW dtr \in BOOLEAN
  PROVE  Switched(p, Shock_SetDTR(p, dtr), dtr)
<1> DEFINE q == Shock_SetDTR(p, dtr)
<1>1. /\ PadIsWell(p) /\ {"kind", "dtr", "phase", "tx", "command"} \subseteq DOMAIN p
      /\ p.dtr \in BOOLEAN /\ p.kind = "dualshock" /\ IsShock(p)
  BY DEF ShockIs, PadIsWell, IsShock
<1>2. CASE dtr /\ ~p.dtr
  <2>1. q = [p EXCEPT !.dtr = TRUE, !.phase = 0, !.tx = << >>]
    BY <1>2, Zenon DEF Shock_SetDTR
  <2> HIDE DEF q
  <2>2. DOMAIN q = DOMAIN p /\ q.kind = p.kind /\ q.dtr = TRUE /\ q.phase = 0 /\ q.tx = << >>
    BY <1>1, <2>1, Zenon
  <2>3. PadIsWell(q)
    BY <1>1, <2>2 DEF PadIsWell, HasModes, ShockPhase, Kinds
  <2>4. QED
    BY <1>1, <1>2, <2>2, <2>3 DEF Switched, FreshPad, q
<1>3. CASE ~dtr /\ p.dtr
  <2> DEFINE d == [p EXCEPT !.dtr = FALSE]
  <2>1. q = CheckMode(d)
    BY <1>3 DEF Shock_SetDTR
  <2>2. /\ DOMAIN d = DOMAIN p /\ d.kind = p.kind /\ d.dtr = FALSE /\ d.phase = p.phase
        /\ d.tx = p.tx /\ d.command = p.command
    BY <1>1, Zenon
  <2> HIDE DEF d, q
  <2>3. ShockIs(d)
    <3>1. ShockPhase(p)
      BY <1>1 DEF PadIsWell
    <3>2. ShockPhase(d)
      BY <2>2, <3>1, ZenonT(40) DEF ShockPhase
    <3>3. QED
      BY <1>1, <2>2, <3>2 DEF ShockIs, PadIsWell, HasModes, IsShock, Kinds
  <2>4. Keeps(d, q)
    BY <2>1, <2>3, CheckModeKeeps
  <2>5. QED
    BY <1>1, <1>3, <2>2, <2>4 DEF Keeps, Goes, Switched, q
<1>4. CASE dtr = p.dtr
  <2>1. q = p
    BY <1>1, <1>4 DEF Shock_SetDTR
  <2>2. QED
    BY <1>1, <1>4, <2>1 DEF Switched, q
<1>5. QED
  BY <1>1, <1>2, <1>3, <1>4

LEMMA PlainSwitched ==
  ASSUME NEW p, PlainIs(p), NEW dtr \in BOOLEAN
  PROVE  Switched(p, Pad_SetDTR(p, dtr), dtr)
<1> DEFINE q == Pad_SetDTR(p, dtr)
<1>1. /\ PadIsWell(p) /\ {"kind", "dtr", "phase", "tx"} \subseteq DOMAIN p
      /\ p.dtr \in BOOLEAN /\ ~IsShock(p) /\ (p.kind = "none" => ~p.dtr)
  BY DEF PlainIs, PadIsWell
<1>2. CASE p.kind = "none"
  <2>1. q = p
    BY <1>2 DEF Pad_SetDTR
  <2>2. QED
    BY <1>1, <1>2, <2>1 DEF Switched, q
<1>3. CASE p.kind # "none" /\ dtr /\ ~p.dtr
  <2>1. q = [p EXCEPT !.dtr = TRUE, !.phase = 0, !.tx = << >>]
    BY <1>3, Zenon DEF Pad_SetDTR
  <2> HIDE DEF q
  <2>2. DOMAIN q = DOMAIN p /\ q.kind = p.kind /\ q.dtr = TRUE /\ q.phase = 0 /\ q.tx = << >>
    BY <1>1, <2>1, Zenon
  <2>3. PadIsWell(q)
    BY <1>1, <1>3, <2>2 DEF PadIsWell, IsShock
  <2>4. QED
    BY <1>1, <1>3, <2>2, <2>3 DEF Switched, FreshPad, q
<1>4. CASE p.kind # "none" /\ ~(dtr /\ ~p.dtr)
  <2>1. q = [p EXCEPT !.dtr = dtr]
    BY <1>4, Zenon DEF Pad_SetDTR
  <2> HIDE DEF q
  <2>2. DOMAIN q = DOMAIN p /\ q.kind = p.kind /\ q.dtr = dtr /\ q.phase = p.phase /\ q.tx = p.tx
    BY <1>1, <2>1, Zenon
  <2>3. PadIsWell(q)
    BY <1>1, <1>4, <2>2 DEF PadIsWell, IsShock
  <2>4. QED
    BY <1>1, <1>4, <2>2, <2>3 DEF Switched, q
<1>5. QED
  BY <1>2, <1>3, <1>4

LEMMA PadSwitched ==
  ASSUME NEW p, PadIsWell(p), NEW dtr \in BOOLEAN
  PROVE  Switched(p, Dev_SetDTR(p, dtr), dtr)
<1>1. CASE IsShock(p)
  <2>1. Dev_SetDTR(p, dtr) = Shock_SetDTR(p, dtr)
    BY <1>1 DEF Dev_SetDTR
  <2>2. QED
    BY <1>1, <2>1, ShockSwitched DEF ShockIs
<1>2. CASE ~IsShock(p)
  <2>1. Dev_SetDTR(p, dtr) = Pad_SetDTR(p, dtr)
    BY <1>2 DEF Dev_SetDTR
  <2>2. QED
    BY <1>2, <2>1, PlainSwitched DEF PlainIs
<1>3. QED
  BY <1>1, <1>2

LEMMA UpdateInputKeeps ==
  ASSUME NEW p, PadIsWell(p), NEW held, NEW move, NEW flag
  PROVE  Keeps(p, UpdateInput(p, held, move, flag))
<1> DEFINE q == UpdateInput(p, held, move, flag)
<1>1. CASE IsShock(p)
  <2> DEFINE d == [p EXCEPT !.held = held, !.button = flag]
  <2>1. q = CheckMode(d)
    BY <1>1 DEF UpdateInput, Shock_UpdateInput
  <2>2. {"kind", "dtr", "phase", "tx", "command"} \subseteq DOMAIN p
    BY <1>1, Fields
  <2>3. Alters(p, d) /\ d.phase = p.phase /\ d.tx = p.tx /\ d.command = p.command
    BY <2>2, Zenon DEF Alters
  <2> HIDE DEF d, q
  <2>4. Keeps(p, d)
    BY <2>3, AltersKeeps
  <2>5. ShockIs(d)
    BY <1>1, <2>4 DEF Keeps, Goes, ShockIs, IsShock
  <2>6. Keeps(d, q)
    BY <2>1, <2>5, CheckModeKeeps
  <2>7. QED
    BY <2>4, <2>6 DEF Keeps, Goes, q
<1>2. CASE ~IsShock(p)
  <2>1. q = Pad_UpdateInput(p, held, move, flag)
    BY <1>2 DEF UpdateInput
  <2>2. {"kind", "dtr", "phase", "tx"} \subseteq DOMAIN p
    BY Fields
  <2>3. Alters(p, q) /\ q.phase = p.phase /\ q.tx = p.tx
    <3>1. CASE p.kind \in Mice
      <4> DEFINE v == Clamp(p.moved + move, (-MoveMax - 1) * MoveTurns, MoveMax * MoveTurns)
      <4>3. q = MouseInput(p, held, move)
        BY <2>1, <3>1 DEF Pad_UpdateInput, Mice, Guns
      <4>1. q = [p EXCEPT !.held = held, !.pressed = @ \/ held, !.moved = v]
        BY <4>3, Zenon DEF MouseInput
      <4> HIDE DEF v, q
      <4>2. QED
        BY <2>2, <4>1, Zenon DEF Alters
    <3>2. CASE p.kind \in Guns
      <4> DEFINE c == IF p.shot > 0 THEN p.shot - 1 ELSE 0
                 v == IF flag /\ ~p.aimedOff /\ c = 0 THEN IF p.kind = "guncon" THEN 4 ELSE 10 ELSE c
      <4>1. p.kind \notin Mice
        BY <3>2 DEF Guns, Mice
      <4>2. q = [p EXCEPT !.held = held, !.pressed = @ \/ held, !.aimedOff = flag, !.shot = v]
        BY <2>1, <3>2, <4>1 DEF Pad_UpdateInput, GunInput
      <4> HIDE DEF v, q
      <4>3. QED
        BY <2>2, <4>2, Zenon DEF Alters
    <3>3. CASE p.kind \notin Mice /\ p.kind \notin Guns
      <4>1. q = [p EXCEPT !.held = held]
        BY <2>1, <3>3 DEF Pad_UpdateInput
      <4> HIDE DEF q
      <4>2. QED
        BY <2>2, <4>1, Zenon DEF Alters
    <3>4. QED
      BY <3>1, <3>2, <3>3, Zenon
  <2> HIDE DEF q
  <2>4. QED
    BY <1>2, <2>3, AltersKeeps DEF q
<1>3. QED
  BY <1>1, <1>2

LEMMA SeesBeamKeeps ==
  ASSUME NEW p, PadIsWell(p), p.kind \in Guns
  PROVE  Keeps(p, Pad_SeesBeam(p))
<1>1. CASE p.kind = "guncon"
  <2> DEFINE q == [p EXCEPT !.hit = TRUE]
  <2>1. Pad_SeesBeam(p) = q
    BY <1>1 DEF Pad_SeesBeam
  <2>2. {"kind", "dtr", "phase", "tx"} \subseteq DOMAIN p
    BY Fields
  <2>3. Alters(p, q) /\ q.phase = p.phase /\ q.tx = p.tx
    BY <2>2, Zenon DEF Alters
  <2> HIDE DEF q
  <2>4. ~IsShock(p)
    BY <1>1 DEF IsShock
  <2>5. QED
    BY <2>1, <2>3, <2>4, AltersKeeps
<1>2. CASE p.kind # "guncon"
  BY <1>2, SamePad DEF Pad_SeesBeam
<1>3. QED
  BY <1>1, <1>2

LEMMA FrameKeeps ==
  ASSUME NEW p, PadIsWell(p)
  PROVE  Keeps(p, Dev_Frame(p))
<1>1. CASE IsShock(p)
  <2> DEFINE q == Shock_Frame(p)
  <2>1. {"kind", "dtr", "phase", "tx", "command"} \subseteq DOMAIN p
    BY <1>1, Fields
  <2>2. Alters(p, q) /\ q.phase = p.phase /\ q.tx = p.tx /\ q.command = p.command
    BY <2>1, Zenon DEF Alters, Shock_Frame
  <2> HIDE DEF q
  <2>3. Keeps(p, q)
    BY <2>2, AltersKeeps
  <2>4. QED
    BY <1>1, <2>3 DEF Dev_Frame, q
<1>2. CASE ~IsShock(p)
  <2> DEFINE q == Pad_Frame(p)
  <2>1. {"kind", "dtr", "phase", "tx"} \subseteq DOMAIN p
    BY Fields
  <2>2. Alters(p, q) /\ q.phase = p.phase /\ q.tx = p.tx
    BY <2>1, Zenon DEF Alters, Pad_Frame
  <2> HIDE DEF q
  <2>3. Keeps(p, q)
    BY <1>2, <2>2, AltersKeeps
  <2>4. QED
    BY <1>2, <2>3 DEF Dev_Frame, q
<1>3. QED
  BY <1>1, <1>2

LEMMA SetAMCTKeeps ==
  ASSUME NEW p, ShockIs(p), NEW enabled
  PROVE  Keeps(p, Shock_SetAMCT(p, enabled))
<1> DEFINE q == Shock_SetAMCT(p, enabled)
<1>1. PadIsWell(p) /\ {"kind", "dtr", "phase", "tx", "command"} \subseteq DOMAIN p
  BY DEF ShockIs, PadIsWell
<1>2. Alters(p, q) /\ q.phase = p.phase /\ q.tx = p.tx /\ q.command = p.command
  BY <1>1, Zenon DEF Alters, Shock_SetAMCT
<1> HIDE DEF q
<1>3. QED
  BY <1>1, <1>2, AltersKeeps DEF q

\* A pad that is new, or was reset.
Rests(q, kind) == PadIsWell(q) /\ q.kind = kind /\ ~q.dtr

LEMMA NewShockRests ==
  ASSUME NEW toggles
  PROVE  Rests(Shock_New(toggles), "dualshock")
<1> DEFINE q == Shock_New(toggles)
<1>1. /\ q.kind = "dualshock" /\ q.dtr = FALSE /\ q.phase = 0
      /\ {"kind", "dtr", "phase", "tx", "command"} \subseteq DOMAIN q /\ HasModes(q)
  BY DEF Shock_New, HasModes
<1> HIDE DEF q
<1>2. QED
  BY <1>1 DEF Rests, PadIsWell, ShockPhase, Kinds, q

LEMMA NewPlainRests ==
  ASSUME NEW kind \in Polled
  PROVE  Rests(Pad_New(kind), kind)
<1> DEFINE q == Pad_New(kind)
<1>1. /\ q.kind = kind /\ q.dtr = FALSE
      /\ {"kind", "dtr", "phase", "tx"} \subseteq DOMAIN q
  BY DEF Pad_New
<1> HIDE DEF q
<1>2. kind # "dualshock"
  BY DEF Polled, Mice, Guns
<1>3. QED
  BY <1>1, <1>2 DEF Rests, PadIsWell, Kinds, IsShock, q

LEMMA NewPadRests ==
  ASSUME NEW kind \in Kinds
  PROVE  Rests(NewPad(kind), kind)
<1>1. CASE kind = "dualshock"
  BY <1>1, NewShockRests DEF NewPad
<1>2. CASE kind # "dualshock"
  BY <1>2, NewPlainRests DEF NewPad, Kinds
<1>3. QED
  BY <1>1, <1>2

LEMMA PowerRests ==
  ASSUME NEW p, PadIsWell(p)
  PROVE  Rests(Dev_Power(p), p.kind)
<1>1. CASE IsShock(p)
  <2> DEFINE n == Shock_New(p.toggles)
             q == [n EXCEPT !.analog = p.analog, !.button = p.button]
  <2>1. Dev_Power(p) = q
    BY <1>1 DEF Dev_Power, Shock_Power
  <2>2. Rests(n, "dualshock")
    BY NewShockRests
  <2> HIDE DEF n
  <2>3. PadIsWell(n) /\ n.kind = "dualshock" /\ ~n.dtr /\ {"kind", "dtr", "phase", "tx"} \subseteq DOMAIN n
    BY <2>2 DEF Rests, PadIsWell
  <2>4. "command" \in DOMAIN n
    BY <2>3 DEF PadIsWell, IsShock
  <2>5. Alters(n, q) /\ q.phase = n.phase /\ q.tx = n.tx /\ q.command = n.command
    BY <2>3, <2>4, Zenon DEF Alters
  <2> HIDE DEF q
  <2>6. Keeps(n, q)
    BY <2>3, <2>5, AltersKeeps
  <2>7. QED
    BY <1>1, <2>1, <2>3, <2>6 DEF Keeps, Goes, Rests, IsShock
<1>2. CASE ~IsShock(p)
  <2>1. p.kind \in Polled
    BY <1>2, Fields DEF Kinds, IsShock
  <2>2. QED
    BY <1>2, <2>1, NewPlainRests DEF Dev_Power, Pad_Power
<1>3. QED
  BY <1>1, <1>2

LEMMA LoadGoes ==
  ASSUME NEW p, PadIsWell(p), NEW s, PadIsWell(s), s.kind = p.kind
  PROVE  PadIsWell(Dev_Load(p, s)) /\ Dev_Load(p, s).kind = p.kind
<1>1. CASE IsShock(p)
  <2> DEFINE q == Shock_Load(p, s)
  <2>1. {"kind", "dtr", "phase", "tx", "command"} \subseteq DOMAIN s
    BY <1>1, Fields DEF IsShock
  <2>2. Alters(s, q) /\ q.phase = s.phase /\ q.tx = s.tx /\ q.command = s.command
    BY <2>1, Zenon DEF Alters, Shock_Load
  <2> HIDE DEF q
  <2>3. Keeps(s, q)
    BY <2>2, AltersKeeps
  <2>4. QED
    BY <1>1, <2>3 DEF Dev_Load, Keeps, Goes, q
<1>2. CASE ~IsShock(p)
  BY <1>2 DEF Dev_Load, Pad_Load
<1>3. QED
  BY <1>1, <1>2

-----------------------------------------------------------------------------
(* The port: who is selected, and what the bytes of a transfer have made of the
   devices.                                                                   *)
Wired(u, x) ==
    /\ x.pads = [s \in Sub |-> x.pads[s]]
    /\ \A s \in Sub : /\ PadIsWell(x.pads[s]) /\ x.pads[s].kind = u.pads[s]
                      /\ s \notin u.cards => ~x.cards[s].dtr

Chosen(x) == \E s \in Sub : x.pads[s].dtr \/ x.cards[s].dtr

\* All devices are selected, or none.
IsOn(d) == d.dtr

Even(u, x) ==
    Chosen(x) => \A s \in Sub : /\ u.pads[s] # "none" => IsOn(x.pads[s])
                                /\ s \in u.cards => IsOn(x.cards[s])

\* The tap sends the bytes where the first of them said.
TapAt(t, s) ==
    /\ t.dtr
    /\ t.count = 0 <=> s = << >>
    /\ s # << >> /\ t.full => s[1] < 16
    /\ s # << >> /\ ~t.full => t.selected = ((s[1] % 16) - 1) % 256

\* A card that was addressed, and not it, or that is done; and one not addressed yet.
QuietCard(c) == c.phase = -1 /\ ~c.sending
FreshCard(c) == c.phase = 0 /\ ~c.sending

\* In a place of its own each device waits; the address leaves one of the two of a place.
Placed(p, c, s, addressed) ==
    /\ s = << >> \/ ~addressed => (p.dtr => FreshPad(p)) /\ (c.dtr => FreshCard(c))
    /\ s # << >> => ~p.dtr \/ ~c.dtr \/ ~addressed \/ QuietPad(p) \/ QuietCard(c)
    /\ s # << >> /\ addressed /\ s[1] = 129 => ~p.dtr \/ QuietPad(p)

Apart(u, x, s) == \A i \in Sub : Placed(x.pads[i], x.cards[i], s, u.tap \/ i = 0)

\* The tap sends the bytes to another place than the first.
Elsewhere(u, t, s) == u.tap /\ s # << >> /\ s[1] # 129 /\ ~t.full /\ t.selected # 0

\* Card 0 is where the n bytes have brought it.
CardIsAt(u, x, s, n) == CardAt(x.cards[0], s, n) \/ Elsewhere(u, x.tap, s)

\* What was heard of a read and of a write, in n bytes.
HeardOfRead(c, s, h, n) ==
    LET frame == c.data[FrameOf(s)]
    IN  /\ \A i \in 1..FrameLen : 10 + i <= n => h[10 + i] = frame[i]
        /\ n >= 11 + FrameLen => h[11 + FrameLen] = SumsOf(s[5], s[6], frame)[FrameLen]
        /\ n >= 12 + FrameLen => h[12 + FrameLen] = 71

HeardRight(c, s, h, n) ==
    /\ n >= 6 /\ s[1] = 129 /\ s[2] = 82 /\ FrameOf(s) < Frames => HeardOfRead(c, s, h, n)
    /\ n >= 10 + FrameLen /\ s[1] = 129 /\ s[2] = 87 => h[10 + FrameLen] = Verdict(s)

IsSequence(q, n) == n \in Nat /\ Len(q) = n /\ q = [i \in 1..n |-> q[i]]

(* The devices of a port that the frontend has left alone since it was selected.  *)
Follows(u, x, s, h, n) ==
    /\ s \in Seq(Byte) /\ Len(s) = n /\ IsSequence(h, n)
    /\ Even(u, x)
    /\ ~Chosen(x) => s = << >>
    /\ Chosen(x) => /\ u.tap => TapAt(x.tap, s)
                    /\ Apart(u, x, s)
                    /\ 0 \in u.cards => CardIsAt(u, x, s, n)
    /\ 0 \in u.cards => HeardRight(x.cards[0], s, h, n)

PortFollows ==
    /\ Wired(setup, m) /\ (~odd => Follows(setup, m, said, heard, Len(said)))
    /\ \A s \in saved : Wired(setup, s.m) /\ (~s.odd => Follows(setup, s.m, s.said, s.heard, Len(s.said)))

\* No device is selected.
Off(x) == \A i \in Sub : ~x.pads[i].dtr /\ ~x.cards[i].dtr

LEMMA OffIs ==
  ASSUME NEW x
  PROVE  ~Chosen(x) <=> Off(x)
BY DEF Chosen, Off

LEMMA EmptySequence == IsSequence(<< >>, 0) /\ << >> \in Seq(Byte) /\ Len(<< >>) = 0
BY DEF IsSequence

\* A port that nobody selected.
LEMMA OffFollows ==
  ASSUME NEW u, NEW x, Off(x), NEW h, IsSequence(h, 0)
  PROVE  Follows(u, x, << >>, h, 0)
<1>1. ~Chosen(x)
  BY OffIs
<1>2. Even(u, x)
  BY <1>1 DEF Even
<1>3. HeardRight(x.cards[0], << >>, h, 0)
  BY FramesAreNat DEF HeardRight
<1>4. QED
  BY <1>1, <1>2, <1>3, EmptySequence DEF Follows

\* A port that has just been selected.
LEMMA FreshFollows ==
  ASSUME NEW u, NEW x,
         \A i \in Sub : /\ x.pads[i].dtr <=> u.pads[i] # "none"
                        /\ x.cards[i].dtr <=> i \in u.cards
                        /\ x.pads[i].dtr => FreshPad(x.pads[i])
                        /\ x.cards[i].dtr => FreshCard(x.cards[i]),
         u.tap => x.tap.dtr /\ x.tap.count = 0
  PROVE  Follows(u, x, << >>, << >>, 0)
<1>1. Even(u, x)
  BY DEF Even, IsOn
<1>2. HeardRight(x.cards[0], << >>, << >>, 0)
  BY FramesAreNat DEF HeardRight
<1>3. u.tap => TapAt(x.tap, << >>)
  BY DEF TapAt
<1>4. Apart(u, x, << >>)
  BY DEF Apart, Placed
<1>5. 0 \in u.cards => CardIsAt(u, x, << >>, 0)
  <2>1. 0 \in Sub
    BY SubPortsAssumption DEF Sub
  <2>2. 0 \in u.cards => x.cards[0].phase = 0
    BY <2>1 DEF FreshCard
  <2>3. QED
    BY <2>2 DEF CardIsAt, CardAt
<1>6. QED
  BY <1>1, <1>2, <1>3, <1>4, <1>5, EmptySequence DEF Follows

\* What the serial line tells of a card, but for its data.
Alike(c, d) ==
    /\ d.dtr = c.dtr /\ d.phase = c.phase /\ d.sending = c.sending /\ d.tx = c.tx
    /\ d.command = c.command /\ d.addr = c.addr /\ d.xor = c.xor /\ d.wxor = c.wxor /\ d.rw = c.rw

LEMMA AlikeAt ==
  ASSUME NEW c, NEW d, Alike(c, d), d.data = c.data, NEW s, NEW n, CardAt(c, s, n)
  PROVE  CardAt(d, s, n)
<1>0. /\ d.phase = c.phase /\ d.sending = c.sending /\ d.tx = c.tx /\ d.data = c.data
      /\ d.command = c.command /\ d.addr = c.addr /\ d.xor = c.xor /\ d.wxor = c.wxor /\ d.rw = c.rw
  BY DEF Alike
<1>1. Asked(c, s, n) => Asked(d, s, n)
  <2>1. Speaks(c, s, n) => Speaks(d, s, n)
    BY <1>0 DEF Speaks
  <2>2. Finds(c, s, n) => Finds(d, s, n)
    BY <1>0, <2>1 DEF Finds
  <2>3. Reads(c, s, n) => Reads(d, s, n)
    BY <1>0, <2>2 DEF Reads
  <2>4. \A k : Gathered(c, s, k) => Gathered(d, s, k)
    BY Zenon DEF Gathered, Alike
  <2>5. Listens(c, s, n) => Listens(d, s, n)
    BY <1>0, <2>4 DEF Listens
  <2>6. Writes(c, s, n) => Writes(d, s, n)
    BY <1>0, <2>5 DEF Writes
  <2>7. QED
    BY <2>3, <2>6, Zenon DEF Asked, Alike
<1>2. QED
  BY <1>1, Zenon DEF CardAt, Alike

\* What the serial line tells of a machine.
SameOnWire(x, y) ==
    /\ y.tap = x.tap
    /\ \A i \in Sub : /\ Keeps(x.pads[i], y.pads[i]) /\ Alike(x.cards[i], y.cards[i])
    /\ y.cards[0].data = x.cards[0].data

LEMMA SameFollows ==
  ASSUME NEW u, NEW x, NEW y, SameOnWire(x, y), NEW s, NEW h, NEW n, Follows(u, x, s, h, n)
  PROVE  Follows(u, y, s, h, n)
<1>1. \A i \in Sub : /\ y.pads[i].dtr = x.pads[i].dtr /\ y.cards[i].dtr = x.cards[i].dtr
                     /\ y.pads[i].phase = x.pads[i].phase /\ y.pads[i].tx = x.pads[i].tx
                     /\ y.cards[i].phase = x.cards[i].phase /\ y.cards[i].sending = x.cards[i].sending
  BY DEF SameOnWire, Keeps, Goes, Alike
<1>2. Chosen(x) = Chosen(y)
  BY <1>1, Zenon DEF Chosen
<1>3. Even(u, y)
  BY <1>1, <1>2, Zenon DEF Even, IsOn, Follows
<1>4. Apart(u, x, s) => Apart(u, y, s)
  <2>1. ASSUME NEW i \in Sub, NEW a, Placed(x.pads[i], x.cards[i], s, a)
        PROVE  Placed(y.pads[i], y.cards[i], s, a)
    BY <1>1, <2>1 DEF Placed, FreshPad, FreshCard, QuietPad, QuietCard
  <2>2. QED
    BY <2>1, Zenon DEF Apart
<1>5. 0 \in Sub
  BY SubPortsAssumption DEF Sub
<1>6. CardIsAt(u, x, s, n) => CardIsAt(u, y, s, n)
  BY <1>5, AlikeAt, Zenon DEF CardIsAt, SameOnWire
<1>7. HeardRight(x.cards[0], s, h, n) => HeardRight(y.cards[0], s, h, n)
  <2>1. y.cards[0].data = x.cards[0].data
    BY DEF SameOnWire
  <2>2. HeardOfRead(x.cards[0], s, h, n) => HeardOfRead(y.cards[0], s, h, n)
    BY <2>1, Zenon DEF HeardOfRead
  <2>3. QED
    BY <2>2, Zenon DEF HeardRight
<1>8. y.tap = x.tap
  BY DEF SameOnWire
<1>9. QED
  BY <1>2, <1>3, <1>4, <1>6, <1>7, <1>8, Zenon DEF Follows

\* A machine stays wired if its pads stay what they are.
LEMMA StaysWired ==
  ASSUME NEW u, NEW x, NEW y, Wired(u, x), y.pads = [s \in Sub |-> y.pads[s]],
         \A i \in Sub : /\ PadIsWell(y.pads[i]) /\ y.pads[i].kind = x.pads[i].kind
                        /\ i \notin u.cards => (y.cards[i].dtr => x.cards[i].dtr)
  PROVE  Wired(u, y)
BY DEF Wired

LEMMA SameWired ==
  ASSUME NEW u, NEW x, NEW y, Wired(u, x), y.pads = [s \in Sub |-> y.pads[s]], SameOnWire(x, y)
  PROVE  Wired(u, y)
BY DEF Wired, SameOnWire, Keeps, Goes, Alike

-----------------------------------------------------------------------------
(* Selecting and deselecting the port.                                       *)
LEMMA NowFollows ==
  ASSUME PortFollows, setup' = setup, saved' = saved, Wired(setup, m'),
         ~odd' => Follows(setup, m', said', heard', Len(said'))
  PROVE  PortFollows'
BY DEF PortFollows

LEMMA CardAgain ==
  ASSUME NEW c \in WellCards, NEW dtr, dtr = c.dtr
  PROVE  Card_SetDTR(c, dtr) = c
<1>1. c \in Card
  BY DEF WellCards
<1>2. Card_SetDTR(c, dtr) = [c EXCEPT !.dtr = c.dtr]
  BY DEF Card_SetDTR
<1>3. [c EXCEPT !.dtr = c.dtr] = c
  BY <1>1 DEF Card
<1>4. QED
  BY <1>2, <1>3, Zenon

\* The devices after SetDTR.
DevicesSwitch(u, x, y, dtr) ==
    \A i \in Sub :
      /\ Switched(x.pads[i], y.pads[i], dtr)
      /\ i \notin u.cards => y.cards[i] = x.cards[i]
      /\ i \in u.cards => /\ y.cards[i].dtr = dtr
                          /\ dtr = x.cards[i].dtr => y.cards[i] = x.cards[i]
                          /\ dtr /\ ~x.cards[i].dtr => FreshCard(y.cards[i])
                          /\ y.cards[i].data = x.cards[i].data

LEMMA DevicesSwitched ==
  ASSUME setup \in Setups, NEW x, IsMachine(x), Wired(setup, x), NEW dtr \in BOOLEAN
  PROVE  LET y == Devices_SetDTR(x, dtr) IN
         DevicesSwitch(setup, x, y, dtr) /\ y.pads = [s \in Sub |-> y.pads[s]]
<1> DEFINE y == Devices_SetDTR(x, dtr)
<1>1. /\ y.pads = [s \in Sub |-> Dev_SetDTR(x.pads[s], dtr)]
      /\ y.cards = [s \in Sub |-> IF s \in setup.cards THEN Card_SetDTR(x.cards[s], dtr) ELSE x.cards[s]]
  BY SelectMachine
<1>2. x.cards \in [Sub -> WellCards]
  BY CardsAreTyped
<1> HIDE DEF y
<1>3. ASSUME NEW i \in Sub
      PROVE  /\ Switched(x.pads[i], y.pads[i], dtr)
             /\ i \notin setup.cards => y.cards[i] = x.cards[i]
             /\ i \in setup.cards => /\ y.cards[i].dtr = dtr
                                     /\ dtr = x.cards[i].dtr => y.cards[i] = x.cards[i]
                                     /\ dtr /\ ~x.cards[i].dtr => FreshCard(y.cards[i])
                                     /\ y.cards[i].data = x.cards[i].data
  <2>1. Switched(x.pads[i], y.pads[i], dtr)
    <3>1. y.pads[i] = Dev_SetDTR(x.pads[i], dtr)
      BY <1>1
    <3>2. PadIsWell(x.pads[i])
      BY DEF Wired
    <3>3. QED
      BY <3>1, <3>2, PadSwitched
  <2>2. x.cards[i] \in WellCards
    BY <1>2
  <2>3. i \notin setup.cards => y.cards[i] = x.cards[i]
    BY <1>1
  <2>4. i \in setup.cards => y.cards[i] = Card_SetDTR(x.cards[i], dtr)
    BY <1>1
  <2>5. Card_SetDTR(x.cards[i], dtr).dtr = dtr
    BY <2>2, SelectionSteps
  <2>6. Card_SetDTR(x.cards[i], dtr).data = x.cards[i].data
    BY <2>2, SelectionSteps
  <2>7. dtr = x.cards[i].dtr => Card_SetDTR(x.cards[i], dtr) = x.cards[i]
    BY <2>2, CardAgain
  <2>8. dtr /\ ~x.cards[i].dtr => FreshCard(Card_SetDTR(x.cards[i], dtr))
    BY <2>2, SelectionSteps DEF FreshCard
  <2>9. QED
    BY <2>1, <2>3, <2>4, <2>5, <2>6, <2>7, <2>8
<1>4. DevicesSwitch(setup, x, y, dtr)
  BY <1>3, Zenon DEF DevicesSwitch
<1>5. y.pads = [s \in Sub |-> y.pads[s]]
  BY <1>1
<1>6. QED
  BY <1>4, <1>5 DEF y

\* A device that is selected again goes on.
LEMMA SelectedAgain ==
  ASSUME NEW u, NEW x, IsMachine(x), Wired(u, x), NEW y, DevicesSwitch(u, x, y, TRUE),
         Even(u, x), Chosen(x), y.tap = x.tap
  PROVE  SameOnWire(x, y)
<1>1. ASSUME NEW i \in Sub PROVE Keeps(x.pads[i], y.pads[i]) /\ Alike(x.cards[i], y.cards[i])
  <2>1. Switched(x.pads[i], y.pads[i], TRUE) /\ PadIsWell(x.pads[i]) /\ x.pads[i].kind = u.pads[i]
    BY DEF DevicesSwitch, Wired
  <2>2. x.pads[i].kind # "none" => x.pads[i].dtr
    <3>1. u.pads[i] # "none" => x.pads[i].dtr
      <4>1. u.pads[i] # "none" => IsOn(x.pads[i])
        BY Zenon DEF Even
      <4>2. QED
        BY <4>1 DEF IsOn
    <3>2. QED
      BY <2>1, <3>1
  <2>3. Keeps(x.pads[i], y.pads[i])
    <3>1. CASE x.pads[i].kind = "none"
      BY <2>1, <3>1, SamePad DEF Switched
    <3>2. CASE x.pads[i].kind # "none"
      <4>1. x.pads[i].dtr = TRUE
        BY <2>1, <2>2, <3>2, Fields
      <4>2. QED
        BY <2>1, <3>2, <4>1 DEF Switched, Keeps, Goes
    <3>3. QED
      BY <3>1, <3>2
  <2>4. y.cards[i] = x.cards[i]
    <3>1. CASE i \notin u.cards
      BY <3>1 DEF DevicesSwitch
    <3>2. CASE i \in u.cards
      <4>0. IsOn(x.cards[i])
        BY <3>2, Zenon DEF Even
      <4>1. x.cards[i].dtr
        BY <4>0 DEF IsOn
      <4>2. x.cards[i] \in Card
        BY CardsAreTyped DEF WellCards
      <4>3. x.cards[i].dtr = TRUE
        BY <4>1, <4>2, CardFields
      <4>4. QED
        BY <3>2, <4>3 DEF DevicesSwitch
    <3>3. QED
      BY <3>1, <3>2
  <2>5. QED
    BY <2>3, <2>4 DEF Alike
<1>2. 0 \in Sub
  BY SubPortsAssumption DEF Sub
<1>3. y.cards[0].data = x.cards[0].data
  BY <1>2 DEF DevicesSwitch
<1>4. QED
  BY <1>1, <1>3 DEF SameOnWire

LEMMA DeselectedOff ==
  ASSUME NEW u, NEW x, Wired(u, x), NEW y, DevicesSwitch(u, x, y, FALSE)
  PROVE  Off(y)
<1>1. ASSUME NEW i \in Sub PROVE ~y.pads[i].dtr /\ ~y.cards[i].dtr
  <2>1. Switched(x.pads[i], y.pads[i], FALSE)
    BY DEF DevicesSwitch
  <2>2. ~y.pads[i].dtr
    BY <2>1 DEF Switched
  <2>3. ~y.cards[i].dtr
    BY DEF DevicesSwitch, Wired
  <2>4. QED
    BY <2>2, <2>3
<1>2. QED
  BY <1>1 DEF Off

LEMMA SelectedFresh ==
  ASSUME NEW u, NEW x, Wired(u, x), Off(x), NEW y, DevicesSwitch(u, x, y, TRUE),
         u.tap => y.tap.dtr /\ y.tap.count = 0
  PROVE  Follows(u, y, << >>, << >>, 0)
<1>1. ASSUME NEW i \in Sub
      PROVE  /\ y.pads[i].dtr <=> u.pads[i] # "none"
             /\ y.cards[i].dtr <=> i \in u.cards
             /\ y.pads[i].dtr => FreshPad(y.pads[i])
             /\ y.cards[i].dtr => FreshCard(y.cards[i])
  <2>1. Switched(x.pads[i], y.pads[i], TRUE) /\ ~x.pads[i].dtr /\ ~x.cards[i].dtr /\ x.pads[i].kind = u.pads[i]
    BY DEF DevicesSwitch, Off, Wired
  <2>2. /\ y.pads[i].dtr <=> u.pads[i] # "none"
        /\ y.pads[i].dtr => FreshPad(y.pads[i])
    BY <2>1 DEF Switched
  <2>3. /\ y.cards[i].dtr <=> i \in u.cards
        /\ y.cards[i].dtr => FreshCard(y.cards[i])
    BY <2>1 DEF DevicesSwitch
  <2>4. QED
    BY <2>2, <2>3
<1>2. QED
  BY <1>1, FreshFollows

LEMMA SelectFollows ==
  ASSUME PortInv, PortFollows, NEW dtr \in BOOLEAN, SetDTR(dtr)
  PROVE  PortFollows' /\ m'.cards[0].data = m.cards[0].data
<1>0. /\ IsMachine(m) /\ setup \in Setups /\ Wired(setup, m) /\ setup.tap \in BOOLEAN
      /\ TapIsWell(m.tap) /\ m.tap.dtr \in BOOLEAN
  BY PortAssumption, TapFields DEF PortInv, PortFollows, IsMachine
<1>1. m' = Devices_SetDTR(m, dtr) /\ setup' = setup /\ saved' = saved
  BY DEF SetDTR, frontend
<1>2. DevicesSwitch(setup, m, m', dtr) /\ m'.pads = [s \in Sub |-> m'.pads[s]]
  BY <1>0, <1>1, DevicesSwitched
<1>3. m'.tap = IF setup.tap THEN Tap_SetDTR(m.tap, dtr) ELSE m.tap
  BY <1>0, <1>1, SelectMachine
<1>4. Wired(setup, m')
  <2>1. ASSUME NEW i \in Sub
        PROVE  /\ PadIsWell(m'.pads[i]) /\ m'.pads[i].kind = m.pads[i].kind
               /\ i \notin setup.cards => (m'.cards[i].dtr => m.cards[i].dtr)
    <3>1. Switched(m.pads[i], m'.pads[i], dtr) /\ (i \notin setup.cards => m'.cards[i] = m.cards[i])
      BY <1>2 DEF DevicesSwitch
    <3>2. QED
      BY <3>1 DEF Switched
  <2>2. QED
    BY <1>0, <1>2, <2>1, StaysWired
<1>5. Selected <=> Chosen(m)
  BY DEF Selected, Chosen
<1>6. ASSUME ~odd' PROVE Follows(setup, m', said', heard', Len(said'))
  <2>1. CASE dtr = Selected /\ dtr
    <3>1. said' = said /\ heard' = heard /\ odd' = odd
      BY <2>1 DEF SetDTR
    <3>2. Follows(setup, m, said, heard, Len(said)) /\ Chosen(m)
      BY <1>5, <1>6, <2>1, <3>1 DEF PortFollows
    <3>3. m'.tap = m.tap
      BY <1>3, <2>1, <3>2 DEF Follows, TapAt, Tap_SetDTR
    <3>4. DevicesSwitch(setup, m, m', TRUE)
      BY <1>2, <2>1
    <3>5. SameOnWire(m, m')
      BY <1>0, <3>2, <3>3, <3>4, SelectedAgain DEF Follows
    <3>6. QED
      BY <3>1, <3>2, <3>5, SameFollows
  <2>2. CASE dtr = Selected /\ ~dtr
    <3>1. said' = said /\ heard' = heard /\ odd' = odd
      BY <2>2 DEF SetDTR
    <3>2. Follows(setup, m, said, heard, Len(said)) /\ ~Chosen(m)
      BY <1>5, <1>6, <2>2, <3>1 DEF PortFollows
    <3>3. said = << >> /\ Len(said) = 0 /\ IsSequence(heard, 0)
      BY <3>2, EmptySequence DEF Follows
    <3>4. Off(m')
      BY <1>0, <1>2, <2>2, DeselectedOff
    <3>5. QED
      BY <3>1, <3>3, <3>4, OffFollows
  <2>3. CASE dtr # Selected
    <3>1. said' = << >> /\ heard' = << >> /\ odd' = (dtr /\ Deaf)
      BY <2>3 DEF SetDTR
    <3>2. CASE ~dtr
      <4>1. Off(m')
        BY <1>0, <1>2, <3>2, DeselectedOff
      <4>2. QED
        BY <3>1, <4>1, OffFollows, EmptySequence
    <3>3. CASE dtr
      <4>1. Off(m) /\ ~Deaf
        BY <1>5, <1>6, <2>3, <3>1, <3>3, OffIs
      <4>2. setup.tap => m'.tap.dtr /\ m'.tap.count = 0
        <5>1. setup.tap => ~m.tap.dtr
          BY <4>1 DEF Deaf
        <5>2. setup.tap => m'.tap = [m.tap EXCEPT !.dtr = TRUE, !.full = m.tap.setting, !.count = 0,
                                     !.sb = IF m.tap.again THEN @ ELSE PollRows, !.again = FALSE]
          BY <1>0, <1>3, <3>3, <5>1 DEF Tap_SetDTR
        <5>3. {"dtr", "count"} \subseteq DOMAIN m.tap
          BY <1>0 DEF TapIsWell
        <5>4. QED
          BY <5>2, <5>3, Zenon
      <4>3. DevicesSwitch(setup, m, m', TRUE)
        BY <1>2, <3>3
      <4>4. QED
        BY <1>0, <3>1, <4>1, <4>2, <4>3, SelectedFresh, EmptySequence
    <3>4. QED
      BY <3>2, <3>3
  <2>4. QED
    BY <2>1, <2>2, <2>3
<1>7. m'.cards[0].data = m.cards[0].data
  <2>1. 0 \in Sub
    BY SubPortsAssumption DEF Sub
  <2>2. QED
    BY <1>2, <2>1 DEF DevicesSwitch
<1>8. QED
  BY <1>1, <1>4, <1>6, <1>7, NowFollows

-----------------------------------------------------------------------------
(* A byte passes through the port: what it makes of the two devices of a place.  *)
LEMMA QuietCardStays ==
  ASSUME NEW c \in WellCards, NEW b \in Byte, QuietCard(c)
  PROVE  QuietCard(Card_Clock(c, b))
<1>1. CASE c.dtr
  BY <1>1, GivenUp DEF QuietCard
<1>2. CASE ~c.dtr
  BY <1>2, ClockIs DEF QuietCard, WellCards
<1>3. QED
  BY <1>1, <1>2

\* An address that is not the card's.
LEMMA NotTheCard ==
  ASSUME NEW c \in WellCards, c.dtr, FreshCard(c), NEW b \in Byte, b # 129
  PROVE  QuietCard(Card_Clock(c, b))
<1> DEFINE k == Unsent(c)
<1>1. c \in Card /\ k \in Card /\ k.sending = FALSE /\ Card_Clock(c, b) = Select(k, b)
  BY UnsentDoes, ClockIs DEF WellCards, FreshCard
<1> HIDE DEF k
<1>2. Drops(k, Select(k, b))
  BY <1>1, SelectDoes
<1>3. QED
  BY <1>1, <1>2 DEF Drops, QuietCard

LEMMA PlaceFirst ==
  ASSUME NEW p, PadIsWell(p), NEW c \in WellCards, p.dtr => FreshPad(p), c.dtr => FreshCard(c),
         NEW v \in Byte, NEW t, t # << >>, t[1] = 129 => v # 1
  PROVE  Placed(Dev_Clock(p, v), Card_Clock(c, v), t, TRUE)
<1> DEFINE q == Dev_Clock(p, v)
           d == Card_Clock(c, v)
<1>1. ClockedPad(p, q, v) /\ p.dtr \in BOOLEAN
  BY PadClocked, Fields
<1>2. d.dtr = c.dtr
  BY ClockStays
<1>3. v # 129 => ~d.dtr \/ QuietCard(d)
  BY <1>2, NotTheCard
<1> HIDE DEF q, d
<1>4. v # 1 => ~q.dtr \/ QuietPad(q)
  BY <1>1 DEF ClockedPad, Goes
<1>5. Placed(q, d, t, TRUE)
  BY <1>3, <1>4 DEF Placed
<1>6. QED
  BY <1>5 DEF q, d

\* What a device has become with a byte or without.
PadGoesOn(p, q) == q = p \/ \E v : q = Dev_Clock(p, v)
CardGoesOn(c, d) == d = c \/ \E v \in Byte : d = Card_Clock(c, v)

LEMMA PadOn ==
  ASSUME NEW p, PadIsWell(p), NEW q, PadGoesOn(p, q)
  PROVE  Goes(p, q) /\ (QuietPad(p) => QuietPad(q))
<1>1. CASE q = p
  BY <1>1, SamePad DEF Keeps
<1>2. ASSUME NEW v, q = Dev_Clock(p, v) PROVE Goes(p, q) /\ (QuietPad(p) => QuietPad(q))
  BY <1>2, PadClocked DEF ClockedPad
<1>3. QED
  BY <1>1, <1>2 DEF PadGoesOn

LEMMA CardOn ==
  ASSUME NEW c \in WellCards, NEW d, CardGoesOn(c, d)
  PROVE  d \in WellCards /\ d.dtr = c.dtr /\ (QuietCard(c) => QuietCard(d))
<1>1. ASSUME NEW v \in Byte, d = Card_Clock(c, v)
      PROVE  d \in WellCards /\ d.dtr = c.dtr /\ (QuietCard(c) => QuietCard(d))
  BY <1>1, ClockStays, QuietCardStays
<1>2. QED
  BY <1>1 DEF CardGoesOn

LEMMA PlaceLater ==
  ASSUME NEW p, PadIsWell(p), NEW c \in WellCards, NEW s, s # << >>, Placed(p, c, s, TRUE),
         NEW q, PadGoesOn(p, q), NEW d, CardGoesOn(c, d), NEW t, t # << >>, t[1] = s[1]
  PROVE  Placed(q, d, t, TRUE)
<1>1. q.dtr = p.dtr /\ (QuietPad(p) => QuietPad(q))
  BY PadOn DEF Goes
<1>2. d.dtr = c.dtr /\ (QuietCard(c) => QuietCard(d))
  BY CardOn
<1>3. QED
  BY <1>1, <1>2 DEF Placed

\* A machine that a byte passed through has the same devices selected.
DevicesGoOn(x, y) ==
    /\ y.pads = [i \in Sub |-> y.pads[i]]
    /\ \A i \in Sub : PadGoesOn(x.pads[i], y.pads[i]) /\ CardGoesOn(x.cards[i], y.cards[i])

LEMMA ByteWires ==
  ASSUME NEW u, NEW x, IsMachine(x), Wired(u, x), NEW y, DevicesGoOn(x, y)
  PROVE  /\ Wired(u, y)
         /\ Chosen(x) = Chosen(y)
         /\ Even(u, x) => Even(u, y)
<1>1. \A i \in Sub : PadIsWell(x.pads[i]) /\ x.cards[i] \in WellCards
  BY CardsAreTyped DEF Wired
<1>2. \A i \in Sub : Goes(x.pads[i], y.pads[i]) /\ y.cards[i].dtr = x.cards[i].dtr
  BY <1>1, PadOn, CardOn DEF DevicesGoOn
<1>3. Wired(u, y)
  BY <1>2, StaysWired DEF DevicesGoOn, Goes
<1>4. \A i \in Sub : y.pads[i].dtr = x.pads[i].dtr /\ y.cards[i].dtr = x.cards[i].dtr
  BY <1>2 DEF Goes
<1>5. Chosen(x) = Chosen(y)
  BY <1>4, Zenon DEF Chosen
<1>6. Even(u, x) => Even(u, y)
  BY <1>4, <1>5, Zenon DEF Even, IsOn
<1>7. QED
  BY <1>3, <1>5, <1>6

-----------------------------------------------------------------------------
(* The pads after a byte that passes through the tap.                          *)
PadsGo(x, y, b) ==
    /\ y.pads = [i \in Sub |-> y.pads[i]]
    /\ x.tap.count = 0 => \A i \in Sub : y.pads[i] = Dev_Clock(x.pads[i], Mangled(b))
    /\ \A i \in Sub : PadGoesOn(x.pads[i], y.pads[i])

LEMMA ClockedPads ==
  ASSUME NEW x, IsMachine(x), x.pads = [i \in Sub |-> x.pads[i]], NEW b \in Byte
  PROVE  PadsGo(x, Clocked(x, b), b)
<1> DEFINE y == Clocked(x, b)
<1>0. x.tap.count \in Nat /\ x.tap.full \in BOOLEAN /\ {"tap", "pads", "cards"} \subseteq DOMAIN x
        /\ DOMAIN x = {"tap", "pads", "cards"}
  BY TapFields DEF IsMachine
<1>1. CASE x.tap.count = 0
  <2> DEFINE pads == [i \in Sub |-> Dev_Clock(x.pads[i], Mangled(b))]
             cards == [i \in Sub |-> Card_Clock(x.cards[i], Mangled(b))]
  <2>1. y = [x EXCEPT !.pads = pads, !.cards = cards]
    BY <1>1 DEF Clocked, Addressed, Mangled
  <2>2. pads = [i \in Sub |-> pads[i]] /\ \A i \in Sub : pads[i] = Dev_Clock(x.pads[i], Mangled(b))
    OBVIOUS
  <2> HIDE DEF pads, cards, y
  <2>3. y.pads = pads
    BY <1>0, <2>1
  <2>4. PadsGo(x, y, b)
    BY <2>2, <2>3, Zenon DEF PadsGo, PadGoesOn
  <2>5. QED
    BY <2>4 DEF y
<1>9. ASSUME y = x, x.tap.count # 0 PROVE PadsGo(x, y, b)
  BY <1>9, Zenon DEF PadsGo, PadGoesOn
<1>2. CASE x.tap.count # 0 /\ x.tap.full
  <2>1. y = FullClocked(x)
    BY <1>0, <1>2 DEF Clocked
  <2>2. CASE ~Exchanging(x.tap)
    BY <1>2, <1>9, <2>1, <2>2 DEF FullClocked
  <2>3. CASE Exchanging(x.tap)
    <3> DEFINE n == x.tap.count - 2
               fm == [i \in Sub |-> [x.tap.fm[i] EXCEPT ![n] = Dev_Sends(x.pads[i])]]
               pads == [i \in Sub |-> Dev_Clock(x.pads[i], x.tap.sb[i][n])]
    <3>1. y = [x EXCEPT !.tap.fm = fm, !.pads = pads]
      BY <2>1, <2>3 DEF FullClocked
    <3>2. pads = [i \in Sub |-> pads[i]] /\ \A i \in Sub : PadGoesOn(x.pads[i], pads[i])
      BY DEF PadGoesOn
    <3> HIDE DEF pads, fm, y
    <3>3. y.pads = pads
      BY <1>0, <3>1
    <3>4. PadsGo(x, y, b)
      BY <1>2, <3>2, <3>3, Zenon DEF PadsGo
    <3>5. QED
      BY <3>4 DEF y
  <2>4. QED
    BY <2>2, <2>3
<1>3. CASE x.tap.count # 0 /\ ~x.tap.full
  <2>1. y = ManualClocked(x, b)
    BY <1>0, <1>3 DEF Clocked
  <2>2. CASE x.tap.selected \notin Sub
    BY <1>3, <1>9, <2>1, <2>2 DEF ManualClocked
  <2>3. CASE x.tap.selected \in Sub
    <3> DEFINE n == x.tap.selected
               pads == [x.pads EXCEPT ![n] = Dev_Clock(x.pads[n], b)]
               cards == [x.cards EXCEPT ![n] = Card_Clock(x.cards[n], b)]
    <3>1. y = [x EXCEPT !.pads = pads, !.cards = cards]
      BY <2>1, <2>3 DEF ManualClocked
    <3>2. pads = [i \in Sub |-> pads[i]] /\ \A i \in Sub : PadGoesOn(x.pads[i], pads[i])
      <4> HIDE DEF n
      <4>1. \A i \in Sub : pads[i] = IF i = n THEN Dev_Clock(x.pads[n], b) ELSE x.pads[i]
        OBVIOUS
      <4>2. pads = [i \in Sub |-> pads[i]]
        OBVIOUS
      <4> HIDE DEF pads
      <4>3. QED
        BY <4>1, <4>2 DEF PadGoesOn
    <3> HIDE DEF pads, cards, y
    <3>3. y.pads = pads
      BY <1>0, <3>1
    <3>4. PadsGo(x, y, b)
      BY <1>3, <3>2, <3>3, Zenon DEF PadsGo
    <3>5. QED
      BY <3>4 DEF y
  <2>4. QED
    BY <2>2, <2>3
<1>4. QED
  BY <1>0, <1>1, <1>2, <1>3

LEMMA TapClockPads ==
  ASSUME NEW x, IsMachine(x), x.tap.dtr, x.pads = [i \in Sub |-> x.pads[i]], NEW b \in Byte
  PROVE  PadsGo(x, Tap_Clock(x, b), b)
<1> DEFINE c == Clocked(x, b)
           t == Counted(Settled(c, b)[1])
           y == Tap_Clock(x, b)
<1>1. y = [c EXCEPT !.tap = t]
  BY DEF Tap_Clock
<1>2. IsMachine(c) /\ PadsGo(x, c, b)
  BY ClockedDoes, ClockedPads
<1> HIDE DEF c, t, y
<1>3. y.pads = c.pads
  BY <1>1, <1>2 DEF IsMachine
<1>4. PadsGo(x, y, b)
  BY <1>2, <1>3, Zenon DEF PadsGo
<1>5. QED
  BY <1>4 DEF y

LEMMA TapDevices ==
  ASSUME NEW x, IsMachine(x), x.tap.dtr, x.pads = [i \in Sub |-> x.pads[i]], NEW b \in Byte
  PROVE  DevicesGoOn(x, Tap_Clock(x, b))
<1> DEFINE y == Tap_Clock(x, b)
<1>1. PadsGo(x, y, b) /\ CardsGo(x, y, b)
  BY TapClockPads, TapClockDoes
<1>2. x.cards \in [Sub -> WellCards] /\ Mangled(b) \in Byte
  BY CardsAreTyped, MangledIs
<1> HIDE DEF y
<1>3. ASSUME NEW i \in Sub PROVE CardGoesOn(x.cards[i], y.cards[i])
  <2>1. CASE x.tap.count = 0
    <3>1. y.cards[i] = Card_Clock(x.cards[i], Mangled(b))
      BY <1>1, <2>1 DEF CardsGo
    <3>2. QED
      BY <1>2, <3>1 DEF CardGoesOn
  <2>2. CASE x.tap.count # 0 /\ (x.tap.full \/ x.tap.selected \notin Sub)
    BY <1>1, <2>2 DEF CardsGo, CardGoesOn
  <2>3. CASE x.tap.count # 0 /\ ~x.tap.full /\ x.tap.selected \in Sub
    <3> DEFINE n == x.tap.selected
    <3>1. y.cards = [x.cards EXCEPT ![n] = Card_Clock(x.cards[n], b)]
      BY <1>1, <2>3 DEF CardsGo
    <3> HIDE DEF n
    <3>2. y.cards[i] = IF i = n THEN Card_Clock(x.cards[i], b) ELSE x.cards[i]
      BY <1>2, <3>1
    <3>3. QED
      BY <3>2 DEF CardGoesOn
  <2>4. QED
    BY <2>1, <2>2, <2>3
<1>4. QED
  BY <1>1, <1>3, Zenon DEF DevicesGoOn, PadsGo, y

-----------------------------------------------------------------------------
(* The bytes of a transfer and one more.                                        *)
OneMore(s, n, b, t) == IsSequence(t, n + 1) /\ t[n + 1] = b /\ \A i \in 1..n : t[i] = s[i]

LEMMA Appended ==
  ASSUME NEW s, NEW n, IsSequence(s, n), NEW b
  PROVE  OneMore(s, n, b, Append(s, b))
<1> DEFINE S == {s[i] : i \in 1..n} \cup {b}
           t == Append(s, b)
<1>1. n \in Nat /\ Len(s) = n /\ s = [i \in 1..n |-> s[i]]
  BY Zenon DEF IsSequence
<1>2. s \in Seq(S) /\ b \in S
  <2>1. s \in [1..n -> S]
    BY <1>1
  <2>2. QED
    BY <1>1, <2>1
<1> HIDE DEF S
<1>3. t \in Seq(S) /\ Len(t) = n + 1 /\ t[n + 1] = b /\ \A i \in 1..n : t[i] = s[i]
  BY <1>1, <1>2, AppendProperties
<1> HIDE DEF t
<1>4. IsSequence(t, n + 1)
  BY <1>1, <1>3 DEF IsSequence
<1>5. OneMore(s, n, b, t)
  BY <1>3, <1>4 DEF OneMore
<1>6. QED
  BY <1>5 DEF t

LEMMA Said ==
  ASSUME NEW s \in Seq(Byte), NEW n, Len(s) = n, NEW b \in Byte
  PROVE  /\ Append(s, b) \in Seq(Byte) /\ Append(s, b) # << >>
         /\ Grows(s, n, b, Append(s, b))
         /\ s = << >> <=> n = 0
         /\ s = << >> => Append(s, b)[1] = b
         /\ s # << >> => Append(s, b)[1] = s[1] /\ s[1] \in Byte
<1>1. n \in Nat /\ \A i \in 1..n : s[i] \in Byte
  BY LenProperties, ElementOfSeq
<1>2. /\ Append(s, b) \in Seq(Byte) /\ Len(Append(s, b)) = n + 1
      /\ Append(s, b)[n + 1] = b /\ \A i \in 1..n : Append(s, b)[i] = s[i]
  BY AppendProperties
<1>3. s = << >> <=> n = 0
  BY EmptySeq
<1>4. Append(s, b) # << >>
  BY <1>1, <1>2, EmptySequence
<1>5. s # << >> => Append(s, b)[1] = s[1] /\ s[1] \in Byte
  BY <1>1, <1>2, <1>3
<1>6. s = << >> => Append(s, b)[1] = b
  BY <1>2, <1>3
<1>7. QED
  BY <1>1, <1>2, <1>3, <1>4, <1>5, <1>6 DEF Grows

\* Every place has an address of its own, or that of all of them.
LEMMA ApartTap ==
  ASSUME NEW u, NEW x, IsMachine(x), Wired(u, x), u.tap = TRUE, NEW s, x.tap.count = 0 <=> s = << >>,
         Apart(u, x, s), NEW b \in Byte, NEW y, PadsGo(x, y, b), CardsGo(x, y, b), DevicesGoOn(x, y),
         NEW t, t # << >>, s = << >> => t[1] = b, s # << >> => t[1] = s[1]
  PROVE  Apart(u, y, t)
<1>1. \A i \in Sub : PadIsWell(x.pads[i]) /\ x.cards[i] \in WellCards
  BY CardsAreTyped DEF Wired
<1>2. \A i \in Sub : Placed(x.pads[i], x.cards[i], s, TRUE)
  <2>1. TAKE i \in Sub
  <2>2. (u.tap \/ i = 0) = TRUE
    OBVIOUS
  <2>3. QED
    BY <2>2, Zenon DEF Apart
<1>3. ASSUME NEW i \in Sub PROVE Placed(y.pads[i], y.cards[i], t, TRUE)
  <2>1. CASE s = << >>
    <3>1. Mangled(b) \in Byte /\ (b = 129 => Mangled(b) # 1)
      BY MangledIs, ByteIs DEF Mangled
    <3>2. /\ y.pads[i] = Dev_Clock(x.pads[i], Mangled(b))
          /\ y.cards[i] = Card_Clock(x.cards[i], Mangled(b))
      BY <2>1 DEF PadsGo, CardsGo
    <3>3. /\ x.pads[i].dtr => FreshPad(x.pads[i])
          /\ x.cards[i].dtr => FreshCard(x.cards[i])
      BY <1>2, <2>1 DEF Placed
    <3>4. QED
      BY <1>1, <2>1, <3>1, <3>2, <3>3, PlaceFirst
  <2>2. CASE s # << >>
    BY <1>1, <1>2, <2>2, PlaceLater DEF DevicesGoOn
  <2>3. QED
    BY <2>1, <2>2
<1>4. \A i \in Sub : (u.tap \/ i = 0) = TRUE
  OBVIOUS
<1>5. QED
  BY <1>3, <1>4, Zenon DEF Apart

\* The tap goes on as its first byte said.
LEMMA TapAtNext ==
  ASSUME NEW x, x.tap.count \in Nat, NEW s, TapAt(x.tap, s), NEW b \in Byte, NEW y, TapGoes(x.tap, y.tap, b),
         NEW t, t # << >>, s = << >> => t[1] = b, s # << >> => t[1] = s[1]
  PROVE  TapAt(y.tap, t)
<1> DEFINE o == x.tap
           n == y.tap
<1>1. /\ n.dtr = o.dtr /\ n.count > 0 /\ n.count \in Nat
      /\ o.count # 0 => n.full = o.full /\ n.selected = o.selected
      /\ o.count = 0 => /\ n.full = (o.full /\ b < 16)
                        /\ n.selected = IF n.full THEN 0 ELSE ((b % 16) - 1) % 256
      /\ n.full \in BOOLEAN
  BY TapFields DEF TapGoes
<1>2. o.dtr /\ (o.count = 0 <=> s = << >>)
  BY DEF TapAt
<1>3. CASE s = << >>
  <2>1. n.dtr /\ n.count # 0 /\ n.full = (o.full /\ b < 16) /\ t[1] = b
        /\ n.selected = IF n.full THEN 0 ELSE ((b % 16) - 1) % 256
    BY <1>1, <1>2, <1>3
  <2> HIDE DEF o, n
  <2>2. TapAt(n, t)
    BY <2>1 DEF TapAt
  <2>3. QED
    BY <2>2 DEF n
<1>4. CASE s # << >>
  <2>1. n.dtr /\ n.count # 0 /\ n.full = o.full /\ n.selected = o.selected /\ t[1] = s[1]
    BY <1>1, <1>2, <1>4
  <2>2. (o.full => s[1] < 16) /\ (~o.full => o.selected = ((s[1] % 16) - 1) % 256)
    BY <1>4 DEF TapAt
  <2> HIDE DEF o, n
  <2>3. TapAt(n, t)
    BY <2>1, <2>2 DEF TapAt
  <2>4. QED
    BY <2>3 DEF n
<1>5. QED
  BY <1>3, <1>4

LEMMA FirstOfAll ==
  ASSUME NEW a \in Byte
  PROVE  /\ Mangled(129) = 129
         /\ a # 129 /\ Mangled(a) = 129 => a >= 16 /\ ((a % 16) - 1) % 256 # 0
         /\ a < 16 => a # 129
         /\ ((a % 16) - 1) % 256 = 0 <=> a % 16 = 1
BY ByteIs DEF Mangled

\* Card 0 gets the bytes of its transfer, and no others if there are any for it.
LEMMA TapCard ==
  ASSUME NEW u, u.tap = TRUE, NEW x, IsMachine(x), x.cards[0].dtr, NEW s \in Seq(Byte), NEW n, Len(s) = n,
         TapAt(x.tap, s), CardIsAt(u, x, s, n), NEW b \in Byte,
         NEW y, CardsGo(x, y, b), TapGoes(x.tap, y.tap, b)
  PROVE  /\ CardIsAt(u, y, Append(s, b), n + 1)
         /\ StoresRight(x.cards[0], y.cards[0], Append(s, b))
<1> DEFINE t == Append(s, b)
           c == x.cards[0]
           d == y.cards[0]
<1>1. /\ t # << >> /\ Grows(s, n, b, t) /\ (s = << >> <=> n = 0) /\ (s = << >> => t[1] = b)
      /\ s # << >> => t[1] = s[1] /\ s[1] \in Byte
  BY Said
<1>2. n \in Nat /\ Len(t) = n + 1
  BY <1>1, SaidGrows
<1>3. x.cards \in [Sub -> WellCards] /\ 0 \in Sub /\ c \in WellCards /\ c \in Card /\ x.tap.count \in Nat
        /\ x.tap.full \in BOOLEAN /\ Mangled(b) \in Byte
  BY CardsAreTyped, TapFields, MangledIs DEF IsMachine
<1> HIDE DEF t, c, d
<1>4. TapAt(y.tap, t)
  <2>1. x.tap.count \in Nat /\ t # << >> /\ (s = << >> => t[1] = b) /\ (s # << >> => t[1] = s[1])
    BY <1>1, <1>3
  <2>2. QED
    BY <2>1, TapAtNext
<1>5. x.tap.count = 0 <=> s = << >>
  BY DEF TapAt
<1>6. ASSUME CardAt(c, s, n), d = Card_Clock(c, b)
      PROVE  CardIsAt(u, y, t, n + 1) /\ StoresRight(c, d, t)
  <2>1. ByteDone(c, d, t, n + 1)
    BY <1>1, <1>3, <1>6, CardFollows DEF c
  <2>2. QED
    BY <2>1 DEF ByteDone, CardIsAt, d
<1>7. ASSUME d.data = c.data, t[1] # 129
      PROVE  StoresRight(c, d, t)
  BY <1>7, NothingStored
<1>8. CASE s = << >>
  <2>1. CardAt(c, s, n) /\ t[1] = b /\ n = 0
    BY <1>1, <1>8 DEF CardIsAt, Elsewhere, c
  <2>2. d = Card_Clock(c, Mangled(b))
    BY <1>3, <1>5, <1>8 DEF CardsGo, c, d
  <2>3. CASE b = 129
    <3>1. d = Card_Clock(c, b)
      BY <2>2, <2>3, FirstOfAll
    <3>2. QED
      BY <1>6, <2>1, <3>1 DEF c, d, t
  <2>4. CASE b # 129
    <3> DEFINE k == Unsent(c)
    <3>1. c.phase = 0 /\ c.dtr
      BY <2>1 DEF CardAt, c
    <3>2. k \in Card /\ k.data = c.data /\ d = Select(k, Mangled(b))
      BY <1>3, <2>2, <3>1, UnsentDoes, ClockIs
    <3> HIDE DEF k
    <3>3. d.data = c.data /\ (Mangled(b) # 129 => d.phase = -1)
      BY <1>3, <3>2, SelectDoes DEF Puts, Drops
    <3>4. CASE Mangled(b) # 129
      <4>1. CardAt(d, t, n + 1)
        BY <2>1, <2>4, <3>3, <3>4 DEF CardAt
      <4>2. QED
        BY <1>7, <2>1, <2>4, <3>3, <4>1 DEF CardIsAt, c, d, t
    <3>5. CASE Mangled(b) = 129
      <4>1. b >= 16 /\ ((b % 16) - 1) % 256 # 0
        BY <2>4, <3>5, FirstOfAll
      <4>2. b \in Int
        BY ByteIs
      <4>3. ~y.tap.full /\ y.tap.selected # 0
        BY <1>1, <1>4, <2>1, <4>1, <4>2 DEF TapAt
      <4>4. Elsewhere(u, y.tap, t)
        BY <1>1, <2>1, <2>4, <4>3 DEF Elsewhere, t
      <4>5. QED
        BY <1>7, <2>1, <2>4, <3>3, <4>4 DEF CardIsAt, c, d, t
    <3>6. QED
      BY <3>4, <3>5
  <2>5. QED
    BY <2>3, <2>4
<1>9. CASE s # << >> /\ x.tap.full
  <2>1. d = c /\ s[1] < 16
    BY <1>5, <1>9 DEF CardsGo, TapAt, c, d
  <2>2. t[1] # 129 /\ s[1] # 129
    BY <1>1, <1>9, <2>1, FirstOfAll DEF t
  <2>3. CardAt(c, s, n) /\ n >= 1
    BY <1>1, <1>2, <1>9 DEF CardIsAt, Elsewhere, c
  <2>4. CardAt(d, t, n + 1)
    BY <1>2, <2>1, <2>2, <2>3 DEF CardAt
  <2>5. QED
    BY <1>7, <2>1, <2>2, <2>4 DEF CardIsAt, c, d, t
<1>10. CASE s # << >> /\ ~x.tap.full /\ x.tap.selected = 0
  <2>1. CardAt(c, s, n)
    BY <1>10 DEF CardIsAt, Elsewhere, c
  <2>2. y.cards = [x.cards EXCEPT ![0] = Card_Clock(x.cards[0], b)]
    BY <1>3, <1>5, <1>10 DEF CardsGo
  <2>3. d = Card_Clock(c, b)
    BY <1>3, <2>2 DEF c, d
  <2>4. QED
    BY <1>6, <2>1, <2>3 DEF c, d, t
<1>11. CASE s # << >> /\ ~x.tap.full /\ x.tap.selected # 0
  <2>1. d = c
    <3> DEFINE i == x.tap.selected
    <3>1. CASE i \notin Sub
      BY <1>5, <1>11, <3>1 DEF CardsGo, c, d
    <3>2. CASE i \in Sub
      <4>1. y.cards = [x.cards EXCEPT ![i] = Card_Clock(x.cards[i], b)]
        BY <1>5, <1>11, <3>2 DEF CardsGo
      <4> HIDE DEF i
      <4>2. i # 0
        BY <1>11 DEF i
      <4>3. QED
        BY <1>3, <4>1, <4>2 DEF c, d
    <3>3. QED
      BY <3>1, <3>2
  <2>2. x.tap.selected = ((s[1] % 16) - 1) % 256
    BY <1>11 DEF TapAt
  <2>3. s[1] # 129
    BY <1>11, <2>2
  <2>4. y.tap.selected = x.tap.selected /\ y.tap.full = x.tap.full
    BY <1>5, <1>11 DEF TapGoes
  <2>5. Elsewhere(u, y.tap, t) /\ t[1] # 129
    BY <1>1, <1>11, <2>3, <2>4 DEF Elsewhere, t
  <2>6. QED
    BY <1>7, <2>1, <2>5 DEF CardIsAt, c, d, t
<1>12. QED
  BY <1>3, <1>8, <1>9, <1>10, <1>11 DEF c, d, t

-----------------------------------------------------------------------------
(* What the game hears.                                                         *)
LEMMA VerdictStays ==
  ASSUME NEW s, NEW n, NEW b, NEW t, Grows(s, n, b, t), n >= 9 + FrameLen
  PROVE  Verdict(t) = Verdict(s) /\ FrameOf(t) = FrameOf(s)
<1>0. n \in Nat
  BY Zenon DEF Grows
<1>1. n \in Nat /\ FrameLen \in Nat /\ FrameLen >= 1
  BY <1>0, SmallFrames
<1>2. \A i \in 1..n : t[i] = s[i]
  BY Zenon DEF Grows
<1>3. t[5] = s[5] /\ t[6] = s[6] /\ t[7 + FrameLen] = s[7 + FrameLen]
  BY <1>1, <1>2
<1>4. FrameSent(t) = FrameSent(s)
  BY <1>1, <1>2 DEF FrameSent
<1>5. FrameOf(t) = FrameOf(s)
  BY <1>3, Zenon DEF FrameOf
<1>6. RightSum(t) <=> RightSum(s)
  BY <1>3, <1>4, Zenon DEF RightSum
<1>7. QED
  BY <1>5, <1>6 DEF Verdict

LEMMA HeardReadNext ==
  ASSUME NEW c, c.dtr, NEW s, NEW n, NEW b, NEW t, Grows(s, n, b, t), CardAt(c, s, n),
         NEW h, NEW k, k[n + 1] = Card_Sends(c), \A i \in 1..n : k[i] = h[i],
         n + 1 >= 6, t[1] = 129, t[2] = 82, FrameOf(t) < Frames, HeardRight(c, s, h, n)
  PROVE  HeardOfRead(c, t, k, n + 1)
<1> DEFINE f == c.data[FrameOf(t)]
           sums == SumsOf(t[5], t[6], f)
<1>1. n \in Nat /\ FrameLen \in Nat /\ FrameLen >= 1 /\ s[1] = 129 /\ s[2] = 82
  BY SaidGrows, SmallFrames DEF Grows
<1>2. ASSUME n >= 6 PROVE FrameOf(s) = FrameOf(t) /\ t[5] = s[5] /\ t[6] = s[6]
  BY <1>1, <1>2, SaidGrows
<1>3. ASSUME n >= 6 PROVE HeardOfRead(c, s, h, n)
  BY <1>1, <1>2, <1>3 DEF HeardRight
<1>4. ASSUME n >= 9 PROVE Speaks(c, s, n)
  BY <1>1, <1>2, <1>4 DEF CardAt, Asked, Reads, Finds
<1>5. c.sending => Card_Sends(c) = c.tx
  BY DEF Card_Sends
<1>6. ASSUME NEW i \in 1..FrameLen, 10 + i <= n + 1 PROVE k[10 + i] = f[i]
  <2>1. n >= 10
    BY <1>1, <1>6
  <2>2. CASE 10 + i <= n
    <3>1. k[10 + i] = h[10 + i]
      BY <1>1, <2>2
    <3>2. h[10 + i] = f[i]
      BY <1>1, <1>2, <1>3, <2>1, <2>2 DEF HeardOfRead
    <3>3. QED
      BY <3>1, <3>2
  <2>3. CASE 10 + i = n + 1
    <3>1. n \in 10..(9 + FrameLen) /\ n - 9 = i
      BY <1>1, <2>3
    <3>2. c.sending /\ c.tx = f[i]
      BY <1>2, <1>4, <2>1, <3>1 DEF Speaks
    <3>3. QED
      BY <1>5, <2>3, <3>2
  <2>4. QED
    BY <1>1, <1>6, <2>2, <2>3
<1>7. ASSUME n + 1 >= 11 + FrameLen PROVE k[11 + FrameLen] = sums[FrameLen]
  <2>1. n >= 10
    BY <1>1, <1>7
  <2>2. CASE n >= 11 + FrameLen
    <3>1. k[11 + FrameLen] = h[11 + FrameLen]
      BY <1>1, <2>2
    <3>2. n >= 6 /\ HeardOfRead(c, s, h, n)
      BY <1>1, <1>3, <2>1
    <3>3. h[11 + FrameLen] = SumsOf(s[5], s[6], c.data[FrameOf(s)])[FrameLen]
      BY <2>2, <3>2, Zenon DEF HeardOfRead
    <3>4. h[11 + FrameLen] = sums[FrameLen]
      BY <1>2, <3>2, <3>3
    <3>5. QED
      BY <3>1, <3>4
  <2>3. CASE n = 10 + FrameLen
    <3>1. c.sending /\ c.tx = sums[FrameLen]
      BY <1>2, <1>4, <2>1, <2>3 DEF Speaks
    <3>2. n + 1 = 11 + FrameLen
      BY <1>1, <2>3
    <3>3. QED
      BY <1>5, <3>1, <3>2
  <2>4. QED
    BY <1>1, <1>7, <2>2, <2>3
<1>8. ASSUME n + 1 >= 12 + FrameLen PROVE k[12 + FrameLen] = 71
  <2>1. n >= 10
    BY <1>1, <1>8
  <2>2. CASE n >= 12 + FrameLen
    <3>1. k[12 + FrameLen] = h[12 + FrameLen]
      BY <1>1, <2>2
    <3>2. HeardOfRead(c, s, h, n)
      BY <1>1, <1>3, <2>1
    <3>3. h[12 + FrameLen] = 71
      BY <2>2, <3>2, Zenon DEF HeardOfRead
    <3>4. QED
      BY <3>1, <3>3
  <2>3. CASE n = 11 + FrameLen
    <3>1. c.sending /\ c.tx = 71
      BY <1>4, <2>1, <2>3 DEF Speaks
    <3>2. n + 1 = 12 + FrameLen
      BY <1>1, <2>3
    <3>3. QED
      BY <1>5, <3>1, <3>2
  <2>4. QED
    BY <1>1, <1>8, <2>2, <2>3
<1>9. QED
  BY <1>6, <1>7, <1>8 DEF HeardOfRead

LEMMA HeardWriteNext ==
  ASSUME NEW c, c.dtr, NEW s, NEW n, NEW b, NEW t, Grows(s, n, b, t), CardAt(c, s, n),
         NEW h, NEW k, k[n + 1] = Card_Sends(c), \A i \in 1..n : k[i] = h[i],
         n + 1 >= 10 + FrameLen, t[1] = 129, t[2] = 87, HeardRight(c, s, h, n)
  PROVE  k[10 + FrameLen] = Verdict(t)
<1>1. n \in Nat /\ FrameLen \in Nat /\ FrameLen >= 1 /\ s[1] = 129 /\ s[2] = 87
  BY SaidGrows, SmallFrames DEF Grows
<1>2. Verdict(t) = Verdict(s)
  BY <1>1, VerdictStays
<1>3. CASE n >= 10 + FrameLen
  <2>1. k[10 + FrameLen] = h[10 + FrameLen]
    BY <1>1, <1>3
  <2>2. h[10 + FrameLen] = Verdict(s)
    BY <1>1, <1>3 DEF HeardRight
  <2>3. QED
    BY <1>2, <2>1, <2>2
<1>4. CASE n = 9 + FrameLen
  <2>1. Listens(c, s, n)
    BY <1>1, <1>4 DEF CardAt, Asked, Writes
  <2>2. c.sending /\ c.tx = Verdict(s)
    BY <1>4, <2>1 DEF Listens
  <2>3. n + 1 = 10 + FrameLen
    BY <1>1, <1>4
  <2>4. QED
    BY <1>2, <2>2, <2>3 DEF Card_Sends
<1>5. QED
  BY <1>1, <1>3, <1>4

LEMMA HeardNext ==
  ASSUME NEW c, c.dtr, NEW s, NEW n, NEW b, NEW t, Grows(s, n, b, t),
         NEW h, NEW v, NEW k, k[n + 1] = v, \A i \in 1..n : k[i] = h[i],
         n >= 1 /\ s[1] = 129 => CardAt(c, s, n) /\ v = Card_Sends(c),
         NEW d, StoresRight(c, d, t), HeardRight(c, s, h, n)
  PROVE  HeardRight(d, t, k, n + 1)
<1>0. n \in Nat /\ (n >= 1 => t[1] = s[1])
  BY SaidGrows
<1>1. n \in Nat /\ FrameLen \in Nat /\ FrameLen >= 1 /\ (n >= 1 => t[1] = s[1])
  BY <1>0, SmallFrames
<1>2. ASSUME n + 1 >= 6, t[1] = 129, t[2] = 82, FrameOf(t) < Frames PROVE HeardOfRead(d, t, k, n + 1)
  <2>1. CardAt(c, s, n) /\ k[n + 1] = Card_Sends(c)
    BY <1>1, <1>2
  <2>2. HeardOfRead(c, t, k, n + 1)
    BY <1>2, <2>1, HeardReadNext
  <2>3. d.data = c.data
    BY <1>2 DEF StoresRight, Stores, Begins
  <2>4. QED
    BY <2>2, <2>3, Zenon DEF HeardOfRead
<1>3. ASSUME n + 1 >= 10 + FrameLen, t[1] = 129, t[2] = 87 PROVE k[10 + FrameLen] = Verdict(t)
  <2>1. CardAt(c, s, n) /\ k[n + 1] = Card_Sends(c)
    BY <1>1, <1>3
  <2>2. QED
    BY <1>3, <2>1, HeardWriteNext
<1>4. QED
  BY <1>2, <1>3 DEF HeardRight

-----------------------------------------------------------------------------
(* A byte of the game.                                                          *)
Hears(u, x) == IF u.tap THEN Tap_Sends(x) ELSE Together(Dev_Sends(x.pads[0]), Card_Sends(x.cards[0]))

LEMMA HearsTheCard ==
  ASSUME NEW u, u.tap \in BOOLEAN, NEW x, IsMachine(x), NEW s \in Seq(Byte), s # << >>, s[1] = 129,
         u.tap => TapAt(x.tap, s), Apart(u, x, s)
  PROVE  Hears(u, x) = Card_Sends(x.cards[0])
<1>1. 0 \in Sub
  BY CardsAreTyped
<1>2. Placed(x.pads[0], x.cards[0], s, TRUE)
  <2>1. (u.tap \/ 0 = 0) = TRUE
    OBVIOUS
  <2>2. QED
    BY <1>1, <2>1, Zenon DEF Apart
<1>3. Together(Dev_Sends(x.pads[0]), Card_Sends(x.cards[0])) = Card_Sends(x.cards[0])
  <2>1. Dev_Sends(x.pads[0]) = 255
    BY <1>2 DEF Placed, QuietPad, Dev_Sends
  <2>2. QED
    BY <2>1 DEF Together
<1>4. CASE ~u.tap
  BY <1>3, <1>4 DEF Hears
<1>5. CASE u.tap
  <2>1. x.tap.dtr /\ x.tap.count # 0 /\ ~x.tap.full /\ x.tap.selected = 0
    BY <1>5 DEF TapAt
  <2>2. x.tap.count \in Nat
    BY TapFields DEF IsMachine
  <2>3. Tap_Sends(x) = Together(Dev_Sends(x.pads[0]), Card_Sends(x.cards[0]))
    BY <1>1, <2>1, <2>2 DEF Tap_Sends
  <2>4. QED
    BY <1>3, <1>5, <2>3 DEF Hears
<1>6. QED
  BY <1>4, <1>5

LEMMA DirectDevices ==
  ASSUME IsMachine(m), m.pads = [i \in Sub |-> m.pads[i]], NEW b \in Byte
  PROVE  LET y == DirectClock(b) IN
         /\ DevicesGoOn(m, y) /\ y.pads[0] = Dev_Clock(m.pads[0], b) /\ y.cards[0] = Card_Clock(m.cards[0], b)
         /\ \A i \in Sub \ {0} : y.pads[i] = m.pads[i] /\ y.cards[i] = m.cards[i]
<1> DEFINE y == DirectClock(b)
           q == Dev_Clock(m.pads[0], b)
           d == Card_Clock(m.cards[0], b)
<1>1. y.pads = [m.pads EXCEPT ![0] = q] /\ y.cards = [m.cards EXCEPT ![0] = d]
  BY DirectDoes
<1>2. 0 \in Sub /\ m.cards \in [Sub -> WellCards]
  BY CardsAreTyped
<1>3. PadGoesOn(m.pads[0], q) /\ CardGoesOn(m.cards[0], d)
  BY DEF PadGoesOn, CardGoesOn
<1> HIDE DEF y, q, d
<1>4. y.pads[0] = q /\ y.cards[0] = d /\ \A i \in Sub \ {0} : y.pads[i] = m.pads[i] /\ y.cards[i] = m.cards[i]
  BY <1>1, <1>2
<1>5. y.pads = [i \in Sub |-> y.pads[i]]
  BY <1>1
<1>6. ASSUME NEW i \in Sub PROVE PadGoesOn(m.pads[i], y.pads[i]) /\ CardGoesOn(m.cards[i], y.cards[i])
  <2>1. CASE i = 0
    BY <1>3, <1>4, <2>1
  <2>2. CASE i # 0
    BY <1>4, <2>2 DEF PadGoesOn, CardGoesOn
  <2>3. QED
    BY <2>1, <2>2
<1>7. DevicesGoOn(m, y)
  BY <1>5, <1>6, Zenon DEF DevicesGoOn
<1>8. QED
  BY <1>4, <1>7 DEF y, q, d

GoesToFirst(x, y, b) ==
    /\ y.pads[0] = Dev_Clock(x.pads[0], b) /\ y.cards[0] = Card_Clock(x.cards[0], b)
    /\ \A i \in Sub \ {0} : y.pads[i] = x.pads[i] /\ y.cards[i] = x.cards[i]

Begun(s, b, t) == t # << >> /\ (s = << >> => t[1] = b) /\ (s # << >> => t[1] = s[1])

LEMMA ApartDirect ==
  ASSUME NEW u, NEW x, IsMachine(x), Wired(u, x), u.tap = FALSE, NEW s, Apart(u, x, s), NEW b \in Byte,
         NEW y, GoesToFirst(x, y, b), NEW t, Begun(s, b, t)
  PROVE  Apart(u, y, t)
<1>0. /\ y.pads[0] = Dev_Clock(x.pads[0], b) /\ y.cards[0] = Card_Clock(x.cards[0], b)
      /\ \A i \in Sub \ {0} : y.pads[i] = x.pads[i] /\ y.cards[i] = x.cards[i]
      /\ t # << >> /\ (s = << >> => t[1] = b) /\ (s # << >> => t[1] = s[1])
  BY DEF GoesToFirst, Begun
<1>1. \A i \in Sub : PadIsWell(x.pads[i]) /\ x.cards[i] \in WellCards
  BY CardsAreTyped DEF Wired
<1>2. 0 \in Sub
  BY CardsAreTyped
<1>3. Placed(x.pads[0], x.cards[0], s, TRUE)
  <2>1. (u.tap \/ 0 = 0) = TRUE
    OBVIOUS
  <2>2. QED
    BY <1>2, <2>1, Zenon DEF Apart
<1>4. Placed(y.pads[0], y.cards[0], t, TRUE)
  <2>1. CASE s = << >>
    <3>1. /\ x.pads[0].dtr => FreshPad(x.pads[0])
          /\ x.cards[0].dtr => FreshCard(x.cards[0])
      BY <1>3, <2>1 DEF Placed
    <3>2. PadIsWell(x.pads[0]) /\ x.cards[0] \in WellCards /\ t # << >> /\ (t[1] = 129 => b # 1)
      BY <1>0, <1>1, <1>2, <2>1
    <3>3. Placed(Dev_Clock(x.pads[0], b), Card_Clock(x.cards[0], b), t, TRUE)
      BY <3>1, <3>2, PlaceFirst, Zenon
    <3>4. QED
      BY <1>0, <3>3, Zenon
  <2>2. CASE s # << >>
    <3>1. PadGoesOn(x.pads[0], y.pads[0]) /\ CardGoesOn(x.cards[0], y.cards[0])
      BY <1>0 DEF PadGoesOn, CardGoesOn
    <3>2. QED
      BY <1>0, <1>1, <1>2, <1>3, <2>2, <3>1, PlaceLater
  <2>3. QED
    BY <2>1, <2>2
<1>5. ASSUME NEW i \in Sub, i # 0 PROVE Placed(y.pads[i], y.cards[i], t, FALSE)
  <2>1. Placed(x.pads[i], x.cards[i], s, FALSE)
    <3>1. (u.tap \/ i = 0) = FALSE
      BY <1>0, <1>5
    <3>2. QED
      BY <3>1, Zenon DEF Apart
  <2>2. y.pads[i] = x.pads[i] /\ y.cards[i] = x.cards[i]
    BY <1>0, <1>5
  <2>3. QED
    BY <2>1, <2>2 DEF Placed
<1>6. ASSUME NEW i \in Sub PROVE Placed(y.pads[i], y.cards[i], t, u.tap \/ i = 0)
  <2>1. CASE i = 0
    <3>1. (u.tap \/ i = 0) = TRUE
      BY <2>1
    <3>2. QED
      BY <1>4, <2>1, <3>1, Zenon
  <2>2. CASE i # 0
    <3>1. (u.tap \/ i = 0) = FALSE
      BY <2>2
    <3>2. QED
      BY <1>5, <2>2, <3>1, Zenon
  <2>3. QED
    BY <2>1, <2>2
<1>7. QED
  BY <1>6, Zenon DEF Apart

\* The devices after a byte, and what card 0 has made of it.
ByteFollows(u, x, y, s, b, n) ==
    /\ DevicesGoOn(x, y)
    /\ Apart(u, y, Append(s, b))
    /\ u.tap => TapAt(y.tap, Append(s, b))
    /\ 0 \in u.cards => /\ CardIsAt(u, y, Append(s, b), n + 1)
                        /\ StoresRight(x.cards[0], y.cards[0], Append(s, b))

LEMMA DirectFollows ==
  ASSUME NEW u, u.tap = FALSE, IsMachine(m), Wired(u, m), NEW s, NEW h, NEW n, Follows(u, m, s, h, n),
         Chosen(m), 0 \in u.cards => m.cards[0].dtr, NEW b \in Byte
  PROVE  ByteFollows(u, m, DirectClock(b), s, b, n)
<1> DEFINE y == DirectClock(b)
           t == Append(s, b)
<1>1. s \in Seq(Byte) /\ Len(s) = n /\ Apart(u, m, s) /\ (0 \in u.cards => CardIsAt(u, m, s, n))
  BY DEF Follows
<1>2. /\ t # << >> /\ Grows(s, n, b, t) /\ (s = << >> => t[1] = b) /\ (s # << >> => t[1] = s[1])
  BY <1>1, Said
<1>3. /\ DevicesGoOn(m, y) /\ y.pads[0] = Dev_Clock(m.pads[0], b) /\ y.cards[0] = Card_Clock(m.cards[0], b)
      /\ \A i \in Sub \ {0} : y.pads[i] = m.pads[i] /\ y.cards[i] = m.cards[i]
  BY DirectDevices DEF Wired
<1> HIDE DEF y, t
<1>4. Apart(u, y, t)
  <2>1. GoesToFirst(m, y, b) /\ Begun(s, b, t)
    BY <1>2, <1>3 DEF GoesToFirst, Begun
  <2>2. QED
    BY <1>1, <2>1, ApartDirect
<1>5. ASSUME 0 \in u.cards PROVE CardIsAt(u, y, t, n + 1) /\ StoresRight(m.cards[0], y.cards[0], t)
  <2>1. CardAt(m.cards[0], s, n)
    BY <1>1, <1>5 DEF CardIsAt, Elsewhere
  <2>2. m.cards[0] \in WellCards
    BY CardsAreTyped
  <2>3. ByteDone(m.cards[0], Card_Clock(m.cards[0], b), t, n + 1)
    BY <1>2, <1>5, <2>1, <2>2, CardFollows
  <2>4. QED
    BY <1>3, <2>3 DEF ByteDone, CardIsAt
<1>6. QED
  BY <1>3, <1>4, <1>5, Zenon DEF ByteFollows, y, t

LEMMA TapFollows ==
  ASSUME NEW u, u.tap = TRUE, NEW x, IsMachine(x), Wired(u, x), NEW s, NEW h, NEW n, Follows(u, x, s, h, n),
         Chosen(x), 0 \in u.cards => x.cards[0].dtr, NEW b \in Byte
  PROVE  ByteFollows(u, x, Tap_Clock(x, b), s, b, n)
<1> DEFINE y == Tap_Clock(x, b)
           t == Append(s, b)
<1>1. /\ s \in Seq(Byte) /\ Len(s) = n /\ Apart(u, x, s) /\ (0 \in u.cards => CardIsAt(u, x, s, n))
      /\ TapAt(x.tap, s)
  BY DEF Follows
<1>2. /\ t # << >> /\ Grows(s, n, b, t) /\ (s = << >> => t[1] = b) /\ (s # << >> => t[1] = s[1])
  BY <1>1, Said
<1>3. x.tap.dtr /\ (x.tap.count = 0 <=> s = << >>)
  BY <1>1 DEF TapAt
<1>4. x.tap.count \in Nat /\ x.pads = [i \in Sub |-> x.pads[i]]
  BY TapFields DEF IsMachine, Wired
<1>5. TapGoes(x.tap, y.tap, b) /\ CardsGo(x, y, b)
  BY <1>3, TapClockDoes
<1>6. PadsGo(x, y, b) /\ DevicesGoOn(x, y)
  BY <1>3, <1>4, TapClockPads, TapDevices
<1>7. 0 \in u.cards => CardIsAt(u, y, t, n + 1) /\ StoresRight(x.cards[0], y.cards[0], t)
  BY <1>1, <1>5, TapCard
<1> HIDE DEF y, t
<1>8. Apart(u, y, t)
  BY <1>1, <1>2, <1>3, <1>5, <1>6, ApartTap
<1>9. TapAt(y.tap, t)
  BY <1>1, <1>2, <1>4, <1>5, TapAtNext
<1>10. QED
  BY <1>6, <1>7, <1>8, <1>9, Zenon DEF ByteFollows, y, t

LEMMA ByteKeepsFollowing ==
  ASSUME NEW u, u.tap \in BOOLEAN, NEW x, IsMachine(x), Wired(u, x), NEW s, NEW h, NEW n, Follows(u, x, s, h, n),
         Chosen(x), 0 \in u.cards => x.cards[0].dtr, NEW b \in Byte, NEW y, ByteFollows(u, x, y, s, b, n)
  PROVE  Follows(u, y, Append(s, b), Append(h, Hears(u, x)), n + 1)
<1> DEFINE t == Append(s, b)
           v == Hears(u, x)
           k == Append(h, v)
<1> HIDE DEF v
<1>1. s \in Seq(Byte) /\ Len(s) = n /\ IsSequence(h, n) /\ Even(u, x) /\ Apart(u, x, s) /\ (u.tap => TapAt(x.tap, s))
  BY DEF Follows
<1>2. /\ t \in Seq(Byte) /\ t # << >> /\ Grows(s, n, b, t) /\ (s = << >> <=> n = 0)
      /\ Len(t) = n + 1
  BY <1>1, Said DEF Grows
<1>3. IsSequence(k, n + 1) /\ k[n + 1] = v /\ \A i \in 1..n : k[i] = h[i]
  <2>1. IsSequence(h, n)
    BY <1>1
  <2> HIDE <1>1, <1>2
  <2>2. OneMore(h, n, v, k)
    BY <2>1, Appended
  <2> HIDE DEF k
  <2>3. QED
    BY <2>2 DEF OneMore
<1>4. Chosen(y) /\ Even(u, y)
  BY <1>1, ByteWires DEF ByteFollows
<1> HIDE DEF t, k
<1>5. ASSUME 0 \in u.cards PROVE HeardRight(y.cards[0], t, k, n + 1)
  <2>1. ASSUME n >= 1, s[1] = 129 PROVE CardAt(x.cards[0], s, n) /\ v = Card_Sends(x.cards[0])
    <3>1. s # << >>
      BY <1>2, <2>1
    <3>2. v = Card_Sends(x.cards[0])
      BY <1>1, <2>1, <3>1, HearsTheCard DEF v
    <3>3. CardAt(x.cards[0], s, n)
      BY <1>5, <2>1 DEF Follows, CardIsAt, Elsewhere
    <3>4. QED
      BY <3>2, <3>3
  <2>2. StoresRight(x.cards[0], y.cards[0], t)
    BY <1>5 DEF ByteFollows, t
  <2>3. HeardRight(x.cards[0], s, h, n)
    BY <1>5 DEF Follows
  <2>4. QED
    BY <1>2, <1>3, <1>5, <2>1, <2>2, <2>3, HeardNext
<1>6. /\ u.tap => TapAt(y.tap, t)
      /\ Apart(u, y, t)
      /\ 0 \in u.cards => CardIsAt(u, y, t, n + 1)
  BY DEF ByteFollows, t
<1>7. Follows(u, y, t, k, n + 1)
  BY <1>2, <1>3, <1>4, <1>5, <1>6 DEF Follows
<1>8. QED
  BY <1>7 DEF t, k, v


\* A card that is not plugged in is never selected.
LEMMA CardAside ==
  ASSUME NEW c \in WellCards, ~c.dtr, NEW d, CardGoesOn(c, d)
  PROVE  d = c
<1>1. ASSUME NEW v \in Byte, d = Card_Clock(c, v) PROVE d = c
  BY <1>1, ClockIs DEF WellCards
<1>2. QED
  BY <1>1 DEF CardGoesOn

\* What WritesAreWhole says of a step.
CardStores ==
    Card0.data' = IF said' # said /\ 0 \in setup.cards /\ Stores(said')
                  THEN [Card0.data EXCEPT ![FrameOf(said')] = FrameSent(said')]
                  ELSE Card0.data

LEMMA ExchangeWires ==
  ASSUME PortInv, PortFollows, NEW b \in Byte, Exchange(b)
  PROVE  Wired(setup, m')
<1>1. IsMachine(m) /\ Wired(setup, m) /\ m.pads = [i \in Sub |-> m.pads[i]] /\ m.tap.dtr \in BOOLEAN
  BY TapFields DEF PortInv, PortFollows, Wired, IsMachine
<1>2. m' = IF setup.tap THEN Tap_Clock(m, b) ELSE DirectClock(b)
  BY DEF Exchange
<1>3. CASE ~setup.tap
  <2>1. DevicesGoOn(m, m')
    BY <1>1, <1>2, <1>3, DirectDevices
  <2>2. QED
    BY <1>1, <2>1, ByteWires
<1>4. CASE setup.tap /\ m.tap.dtr
  <2>1. DevicesGoOn(m, m')
    BY <1>1, <1>2, <1>4, TapDevices
  <2>2. QED
    BY <1>1, <2>1, ByteWires
<1>5. CASE setup.tap /\ ~m.tap.dtr
  BY <1>1, <1>2, <1>5 DEF Tap_Clock
<1>6. QED
  BY <1>1, <1>3, <1>4, <1>5

LEMMA ExchangeFollows ==
  ASSUME PortInv, PortFollows, NEW b \in Byte, Exchange(b)
  PROVE  PortFollows' /\ (~odd => CardStores)
<1>1. /\ IsMachine(m) /\ Wired(setup, m) /\ setup.tap \in BOOLEAN
  BY PortAssumption DEF PortInv, PortFollows
<1>2. /\ m' = IF setup.tap THEN Tap_Clock(m, b) ELSE DirectClock(b)
      /\ heard' = Append(heard, Hears(setup, m)) /\ said' = Append(said, b)
      /\ odd' = odd /\ setup' = setup /\ saved' = saved /\ Chosen(m)
  BY DEF Exchange, frontend, Hears, Card0, Selected, Chosen
<1>3. Wired(setup, m')
  BY ExchangeWires
<1>4. ASSUME ~odd
      PROVE  Follows(setup, m', said', heard', Len(said')) /\ CardStores
  <2> DEFINE n == Len(said)
  <2>1. Follows(setup, m, said, heard, n)
    BY <1>4 DEF PortFollows
  <2>2. 0 \in Sub /\ m.cards[0] \in WellCards
    BY <1>1, CardsAreTyped
  <2>3. 0 \in setup.cards => m.cards[0].dtr
    <3>1. 0 \in setup.cards => IsOn(m.cards[0])
      BY <1>2, <2>1, <2>2, Zenon DEF Follows, Even
    <3>2. QED
      BY <3>1 DEF IsOn
  <2>4. ByteFollows(setup, m, m', said, b, n)
    <3>1. CASE ~setup.tap
      BY <1>1, <1>2, <2>1, <2>3, <3>1, DirectFollows
    <3>2. CASE setup.tap
      BY <1>1, <1>2, <2>1, <2>3, <3>2, TapFollows
    <3>3. QED
      BY <3>1, <3>2
  <2>5. said \in Seq(Byte) /\ n \in Nat
    BY <2>1, LenProperties DEF Follows
  <2>6. Len(said') = n + 1 /\ Len(said') # n
    <3>1. Grows(said, n, b, Append(said, b))
      BY <2>5, Said
    <3>2. QED
      BY <1>2, <2>5, <3>1 DEF Grows
  <2>7. Follows(setup, m', said', heard', n + 1)
    <3> HIDE DEF n
    <3>1. Follows(setup, m', Append(said, b), Append(heard, Hears(setup, m)), n + 1)
      BY <1>1, <1>2, <2>1, <2>3, <2>4, ByteKeepsFollowing
    <3>2. QED
      BY <1>2, <3>1
  <2>8. CardStores
    <3>1. CASE 0 \in setup.cards
      <4>1. StoresRight(m.cards[0], m'.cards[0], said')
        BY <1>2, <2>4, <3>1 DEF ByteFollows
      <4>2. said' # said
        BY <2>6
      <4>3. QED
        BY <3>1, <4>1, <4>2 DEF StoresRight, CardStores, Card0
    <3>2. CASE 0 \notin setup.cards
      <4>1. CardGoesOn(m.cards[0], m'.cards[0]) /\ ~m.cards[0].dtr
        BY <1>1, <2>2, <2>4, <3>2 DEF ByteFollows, DevicesGoOn, Wired
      <4>2. m'.cards[0] = m.cards[0]
        BY <2>2, <4>1, CardAside
      <4>3. QED
        BY <3>2, <4>2 DEF CardStores, Card0
    <3>3. QED
      BY <3>1, <3>2
  <2>9. QED
    BY <2>6, <2>7, <2>8
<1>5. QED
  BY <1>2, <1>3, <1>4, NowFollows

-----------------------------------------------------------------------------
(* Steps of the frontend and of the pads, which the serial line does not tell.   *)
LEMMA UnheardFollows ==
  ASSUME PortFollows, setup' = setup, saved' = saved, said' = said, heard' = heard, odd => odd',
         m'.pads = [i \in Sub |-> m'.pads[i]], SameOnWire(m, m')
  PROVE  PortFollows'
<1>1. Wired(setup, m')
  BY SameWired DEF PortFollows
<1>2. ASSUME ~odd' PROVE Follows(setup, m', said', heard', Len(said'))
  <2>1. Follows(setup, m, said, heard, Len(said))
    BY <1>2 DEF PortFollows
  <2>2. QED
    BY <2>1, SameFollows
<1>3. QED
  BY <1>1, <1>2, NowFollows

\* New pads in their places, whose cards are as they were.
LEMMA PadsFollow ==
  ASSUME PortInv, PortFollows, NEW p, p = [i \in Sub |-> p[i]], \A i \in Sub : Keeps(m.pads[i], p[i]),
         m' = [m EXCEPT !.pads = p],
         setup' = setup, saved' = saved, said' = said, heard' = heard, odd => odd'
  PROVE  PortFollows' /\ m'.cards[0] = m.cards[0]
<1>1. m'.tap = m.tap /\ m'.cards = m.cards /\ m'.pads = p
  BY PadsOnly DEF PortInv
<1>2. SameOnWire(m, m')
  BY <1>1 DEF SameOnWire, Alike
<1>3. QED
  BY <1>1, <1>2, UnheardFollows

LEMMA InputFollows ==
  ASSUME PortInv, PortFollows, BeginFrame
  PROVE  PortFollows'
<1>1. PICK in \in Inputs(setup) :
        m' = [m EXCEPT !.pads = [s \in Sub |-> UpdateInput(@[s], in.held[s], in.move, in.flag)]]
  BY DEF BeginFrame
<1> DEFINE p == [s \in Sub |-> UpdateInput(m.pads[s], in.held[s], in.move, in.flag)]
<1>2. m' = [m EXCEPT !.pads = p] /\ p = [i \in Sub |-> p[i]]
  BY <1>1
<1>3. \A i \in Sub : Keeps(m.pads[i], p[i])
  BY UpdateInputKeeps DEF PortFollows, Wired
<1>4. setup' = setup /\ saved' = saved /\ said' = said /\ heard' = heard /\ odd' = odd
  BY DEF BeginFrame, transfer
<1> HIDE DEF p
<1>5. QED
  BY <1>2, <1>3, <1>4, PadsFollow

LEMMA BeamFollows ==
  ASSUME PortInv, PortFollows, NEW s \in Sub, SeeBeam(s)
  PROVE  PortFollows' /\ m'.cards[0] = m.cards[0]
<1> DEFINE q == Pad_SeesBeam(m.pads[s])
           p == [m.pads EXCEPT ![s] = q]
<1>1. m' = [m EXCEPT !.pads = p]
  BY DEF SeeBeam
<1>2. Keeps(m.pads[s], q) /\ m.pads = [i \in Sub |-> m.pads[i]] /\ \A i \in Sub : PadIsWell(m.pads[i])
  BY SeesBeamKeeps DEF PortFollows, Wired, SeeBeam
<1> HIDE DEF q
<1>3. p = [i \in Sub |-> p[i]] /\ \A i \in Sub : p[i] = IF i = s THEN q ELSE m.pads[i]
  BY <1>2
<1> HIDE DEF p
<1>4. ASSUME NEW i \in Sub PROVE Keeps(m.pads[i], p[i])
  BY <1>2, <1>3, SamePad
<1>5. setup' = setup /\ saved' = saved /\ said' = said /\ heard' = heard /\ odd' = odd
  BY DEF SeeBeam, transfer, frontend
<1>6. QED
  BY <1>1, <1>3, <1>4, <1>5, PadsFollow

LEMMA ModeFollows ==
  ASSUME PortInv, PortFollows, NEW enabled, SetAMCT(enabled)
  PROVE  PortFollows'
<1> DEFINE p == [s \in Sub |-> IF IsShock(m.pads[s]) THEN Shock_SetAMCT(m.pads[s], enabled) ELSE m.pads[s]]
<1>1. m' = [m EXCEPT !.pads = p] /\ p = [i \in Sub |-> p[i]]
  BY DEF SetAMCT
<1>2. ASSUME NEW i \in Sub PROVE Keeps(m.pads[i], p[i])
  <2>1. PadIsWell(m.pads[i])
    BY DEF PortFollows, Wired
  <2>2. CASE IsShock(m.pads[i])
    <3>1. p[i] = Shock_SetAMCT(m.pads[i], enabled)
      BY <2>2
    <3>2. QED
      BY <2>1, <2>2, <3>1, SetAMCTKeeps DEF ShockIs
  <2>3. CASE ~IsShock(m.pads[i])
    BY <2>1, <2>3, SamePad
  <2>4. QED
    BY <2>2, <2>3
<1>3. setup' = setup /\ saved' = saved /\ said' = said /\ heard' = heard /\ (odd => odd')
  BY DEF SetAMCT, frontend
<1> HIDE DEF p
<1>4. QED
  BY <1>1, <1>2, <1>3, PadsFollow

LEMMA DirtyAlike ==
  ASSUME NEW c \in WellCards, NEW d, NEW n, d = [c EXCEPT !.dirty = n]
  PROVE  Alike(c, d)
BY DEF WellCards, Card, Alike

LEMMA FrameFollows ==
  ASSUME PortInv, PortFollows, EndFrame(Amounts)
  PROVE  PortFollows'
<1>1. /\ m'.tap = m.tap /\ m'.pads = [s \in Sub |-> Dev_Frame(m.pads[s])]
      /\ m'.cards[0].data = m.cards[0].data
      /\ \A s \in Sub : m'.cards[s] = [m.cards[s] EXCEPT !.dirty = m'.cards[s].dirty]
  BY EndFrameDoes DEF Card0
<1>2. \A i \in Sub : m.cards[i] \in WellCards /\ PadIsWell(m.pads[i])
  BY CardsAreTyped DEF PortInv, PortFollows, Wired
<1>3. ASSUME NEW i \in Sub PROVE Keeps(m.pads[i], m'.pads[i]) /\ Alike(m.cards[i], m'.cards[i])
  <2>1. Keeps(m.pads[i], m'.pads[i])
    BY <1>1, <1>2, FrameKeeps
  <2>2. Alike(m.cards[i], m'.cards[i])
    BY <1>1, <1>2, DirtyAlike
  <2>3. QED
    BY <2>1, <2>2
<1>4. SameOnWire(m, m')
  BY <1>1, <1>3 DEF SameOnWire
<1>5. setup' = setup /\ saved' = saved /\ said' = said /\ heard' = heard /\ odd' = odd
  BY DEF EndFrame, transfer
<1>6. m'.pads = [i \in Sub |-> m'.pads[i]]
  BY <1>1
<1>7. QED
  BY <1>4, <1>5, <1>6, UnheardFollows

LEMMA SaveFollows ==
  ASSUME PortInv, PortFollows, SaveFails \/ SaveState \/ CloseGame(Amounts)
  PROVE  PortFollows'
<1>1. setup' = setup /\ m' = m /\ said' = said /\ heard' = heard /\ odd' = odd
  BY DEF SaveFails, SaveState, CloseGame, transfer
<1>2. CASE saved' = saved
  BY <1>1, <1>2, NowFollows DEF PortFollows
<1>3. CASE SaveState
  <2> DEFINE w == [m |-> m, said |-> said, heard |-> heard, acked |-> acked, odd |-> odd, told |-> told]
  <2>1. saved' = {w} /\ w.m = m /\ w.said = said /\ w.heard = heard /\ w.odd = odd
    BY <1>3 DEF SaveState
  <2> HIDE DEF w
  <2>2. \A s \in saved' : s = w
    BY <2>1
  <2>3. ASSUME NEW s \in saved'
        PROVE  Wired(setup, s.m) /\ (~s.odd => Follows(setup, s.m, s.said, s.heard, Len(s.said)))
    BY <2>1, <2>2 DEF PortFollows
  <2>4. QED
    BY <1>1, <2>3 DEF PortFollows
<1>4. QED
  BY <1>2, <1>3 DEF SaveFails, CloseGame

LEMMA LoadAlike ==
  ASSUME NEW c \in WellCards, NEW s \in WellCards
  PROVE  Alike(s, Card_Load(c, s))
<1> DEFINE data == IF s.used THEN s.data ELSE c.data
           dirty == IF s.used THEN c.dirty + 1 ELSE c.dirty
           d == [s EXCEPT !.data = data, !.dirty = dirty]
<1>1. Card_Load(c, s) = d
  BY DEF Card_Load
<1> HIDE DEF data, dirty
<1>2. s \in Card
  BY DEF WellCards
<1>3. Alike(s, d)
  BY <1>2 DEF Card, Alike
<1>4. QED
  BY <1>1, <1>3

LEMMA LoadFollows ==
  ASSUME PortInv, PortFollows, LoadState
  PROVE  PortFollows'
<1>1. PICK s \in saved :
        /\ m' = [tap   |-> s.m.tap,
                 pads  |-> [i \in Sub |-> Dev_Load(m.pads[i], s.m.pads[i])],
                 cards |-> [i \in Sub |-> Card_Load(m.cards[i], s.m.cards[i])]]
        /\ said' = s.said /\ heard' = s.heard /\ setup' = setup /\ saved' = saved
        /\ odd' = (s.odd \/ m'.cards[0].data # s.m.cards[0].data \/ m'.pads # s.m.pads)
  BY DEF LoadState
<1> DEFINE x == s.m
<1>2. IsMachine(m) /\ IsMachine(x) /\ Wired(setup, m) /\ Wired(setup, x)
        /\ (~s.odd => Follows(setup, x, s.said, s.heard, Len(s.said)))
  BY DEF PortInv, PortFollows
<1> HIDE DEF x
<1>3. /\ m'.tap = x.tap
      /\ m'.pads = [i \in Sub |-> Dev_Load(m.pads[i], x.pads[i])]
      /\ m'.cards = [i \in Sub |-> Card_Load(m.cards[i], x.cards[i])]
  BY <1>1 DEF x
<1>4. \A i \in Sub : Alike(x.cards[i], m'.cards[i])
  BY <1>2, <1>3, LoadAlike, CardsAreTyped
<1>5. m'.pads = [i \in Sub |-> m'.pads[i]]
  BY <1>3
<1>6. Wired(setup, m')
  <2>1. ASSUME NEW i \in Sub
        PROVE  /\ PadIsWell(m'.pads[i]) /\ m'.pads[i].kind = x.pads[i].kind
               /\ i \notin setup.cards => (m'.cards[i].dtr => x.cards[i].dtr)
    <3>1. /\ PadIsWell(m.pads[i]) /\ PadIsWell(x.pads[i])
          /\ m.pads[i].kind = setup.pads[i] /\ x.pads[i].kind = setup.pads[i]
      BY <1>2 DEF Wired
    <3>2. m'.pads[i] = Dev_Load(m.pads[i], x.pads[i])
      BY <1>3
    <3>3. PadIsWell(m'.pads[i]) /\ m'.pads[i].kind = x.pads[i].kind
      BY <3>1, <3>2, LoadGoes
    <3>4. m'.cards[i].dtr = x.cards[i].dtr
      BY <1>4 DEF Alike
    <3>5. QED
      BY <3>3, <3>4
  <2>2. QED
    BY <1>2, <1>5, <2>1, StaysWired
<1>7. ASSUME ~odd' PROVE Follows(setup, m', said', heard', Len(said'))
  <2>1. ~s.odd /\ m'.cards[0].data = x.cards[0].data /\ m'.pads = x.pads
    BY <1>1, <1>7 DEF x
  <2>2. \A i \in Sub : Keeps(x.pads[i], m'.pads[i])
    BY <1>2, <2>1, SamePad DEF Wired
  <2>3. SameOnWire(x, m')
    BY <1>3, <1>4, <2>1, <2>2 DEF SameOnWire
  <2>4. Follows(setup, m', s.said, s.heard, Len(s.said))
    BY <1>2, <2>1, <2>3, SameFollows
  <2>5. QED
    BY <1>1, <2>4
<1>8. QED
  BY <1>1, <1>6, <1>7, NowFollows

-----------------------------------------------------------------------------
(* A port that is started, reset, or hears the bytes of the other one.           *)
LEMMA NewIsOff ==
  ASSUME setup \in Setups, NEW f, IsFile(f), NEW dtr \in BOOLEAN, NEW x, x = NewMachine(f, dtr)
  PROVE  Wired(setup, x) /\ Off(x)
<1>1. x.pads = [s \in Sub |-> NewPad(setup.pads[s])] /\ \A s \in Sub : x.cards[s].dtr = FALSE
  BY NewMachineIs
<1>2. setup.pads \in [Sub -> Kinds]
  BY PortAssumption
<1>3. ASSUME NEW i \in Sub
      PROVE  PadIsWell(x.pads[i]) /\ x.pads[i].kind = setup.pads[i] /\ ~x.pads[i].dtr
  <2>1. setup.pads[i] \in Kinds /\ x.pads[i] = NewPad(setup.pads[i])
    BY <1>1, <1>2
  <2>2. QED
    BY <2>1, NewPadRests DEF Rests
<1>4. x.pads = [s \in Sub |-> x.pads[s]]
  BY <1>1
<1>5. QED
  BY <1>1, <1>3, <1>4 DEF Wired, Off

LEMMA InitFollows == Port_Init => PortFollows
<1> SUFFICES ASSUME Port_Init PROVE PortFollows
  OBVIOUS
<1>1. PICK dtr \in {FALSE, setup.tap} : m = NewMachine(file, dtr)
  BY DEF Port_Init
<1>2. setup \in Setups /\ IsFile(file) /\ dtr \in BOOLEAN
  BY PortAssumption DEF Port_Init
<1>3. Wired(setup, m) /\ Off(m)
  BY <1>1, <1>2, NewIsOff
<1>4. said = << >> /\ heard = << >> /\ saved = {}
  BY DEF Port_Init
<1>5. Follows(setup, m, said, heard, Len(said))
  BY <1>3, <1>4, OffFollows, EmptySequence
<1>6. QED
  BY <1>3, <1>4, <1>5 DEF PortFollows

LEMMA StartFollows ==
  ASSUME PortInv, Start
  PROVE  PortFollows'
<1>1. PICK dtr \in {FALSE, setup.tap} : m' = NewMachine(file, dtr)
  BY DEF Start
<1>2. setup \in Setups /\ IsFile(file) /\ dtr \in BOOLEAN
  BY PortAssumption DEF PortInv
<1>3. Wired(setup, m') /\ Off(m')
  BY <1>1, <1>2, NewIsOff
<1>4. said' = << >> /\ heard' = << >> /\ saved' = {} /\ setup' = setup
  BY DEF Start
<1>5. Follows(setup, m', said', heard', Len(said'))
  BY <1>3, <1>4, OffFollows, EmptySequence
<1>6. QED
  BY <1>3, <1>4, <1>5 DEF PortFollows

LEMMA ResetFollows ==
  ASSUME PortInv, PortFollows, Reset
  PROVE  PortFollows'
<1>1. /\ m'.pads = [s \in Sub |-> Dev_Power(m.pads[s])]
      /\ m'.cards = [s \in Sub |-> Card_Power(m.cards[s])]
  BY ResetDoes DEF PortInv
<1>2. \A i \in Sub : m.cards[i] \in WellCards /\ PadIsWell(m.pads[i])
  BY CardsAreTyped DEF PortInv, PortFollows, Wired
<1>3. ASSUME NEW i \in Sub
      PROVE  /\ PadIsWell(m'.pads[i]) /\ m'.pads[i].kind = m.pads[i].kind
             /\ ~m'.pads[i].dtr /\ ~m'.cards[i].dtr
  <2>1. Rests(m'.pads[i], m.pads[i].kind)
    BY <1>1, <1>2, PowerRests
  <2>2. m'.cards[i].dtr = FALSE
    <3>1. m'.cards[i] = Card_Power(m.cards[i])
      BY <1>1
    <3>2. m.cards[i] \in WellCards
      BY <1>2
    <3>3. QED
      BY <3>1, <3>2, PowerSteps
  <2>3. QED
    BY <2>1, <2>2 DEF Rests
<1>4. m'.pads = [i \in Sub |-> m'.pads[i]]
  BY <1>1
<1>5. Wired(setup, m') /\ Off(m')
  BY <1>3, <1>4, StaysWired DEF PortFollows, Off
<1>6. said' = << >> /\ heard' = << >> /\ setup' = setup /\ saved' = saved
  BY DEF Reset, frontend
<1>7. Follows(setup, m', said', heard', Len(said'))
  BY <1>5, <1>6, OffFollows, EmptySequence
<1>8. QED
  BY <1>5, <1>6, <1>7, NowFollows

LEMMA OverhearFollows ==
  ASSUME PortInv, PortFollows, NEW b \in Byte, Overhear(b)
  PROVE  PortFollows' /\ m'.cards[0] = m.cards[0]
<1>1. /\ m' = Tap_Clock(m, b) /\ m.tap.dtr /\ ~Chosen(m)
      /\ setup' = setup /\ saved' = saved /\ said' = said /\ heard' = heard /\ odd' = odd
  BY DEF Overhear, Deaf, Selected, Chosen, transfer, frontend
<1>2. IsMachine(m) /\ Wired(setup, m) /\ m.pads = [i \in Sub |-> m.pads[i]]
  BY DEF PortInv, PortFollows, Wired
<1>3. DevicesGoOn(m, m')
  BY <1>1, <1>2, TapDevices
<1>4. Wired(setup, m') /\ Chosen(m) = Chosen(m')
  BY <1>2, <1>3, ByteWires
<1>5. Off(m) /\ Off(m')
  BY <1>1, <1>4, OffIs
<1>6. ASSUME ~odd' PROVE Follows(setup, m', said', heard', Len(said'))
  <2>1. said = << >> /\ Len(said) = 0 /\ IsSequence(heard, 0)
    BY <1>1, <1>6, EmptySequence DEF PortFollows, Follows
  <2>2. QED
    BY <1>1, <1>5, <2>1, OffFollows
<1>7. m'.cards[0] = m.cards[0]
  <2>1. 0 \in Sub /\ m.cards[0] \in WellCards
    BY <1>2, CardsAreTyped
  <2>2. CardGoesOn(m.cards[0], m'.cards[0]) /\ ~m.cards[0].dtr
    BY <1>3, <1>5, <2>1 DEF DevicesGoOn, Off
  <2>3. QED
    BY <2>1, <2>2, CardAside
<1>8. QED
  BY <1>1, <1>4, <1>6, <1>7, NowFollows

LEMMA FollowsStep == PortInv /\ PortFollows /\ [Port_Next]_portVars => PortFollows'
<1> SUFFICES ASSUME PortInv, PortFollows, [Port_Next]_portVars PROVE PortFollows'
  OBVIOUS
<1>1. ASSUME NEW dtr \in BOOLEAN, SetDTR(dtr) PROVE PortFollows'
  BY <1>1, SelectFollows
<1>2. ASSUME NEW b \in Sends(setup, said) \cap Byte, Exchange(b) PROVE PortFollows'
  BY <1>2, ExchangeFollows
<1>3. ASSUME NEW b \in {1, 66}, Overhear(b) PROVE PortFollows'
  <2>1. b \in Byte
    BY ByteIs
  <2>2. QED
    BY <1>3, <2>1, OverhearFollows
<1>4. ASSUME NEW s \in Sub, SeeBeam(s) PROVE PortFollows'
  BY <1>4, BeamFollows
<1>5. ASSUME NEW enabled \in BOOLEAN, SetAMCT(enabled) PROVE PortFollows'
  BY <1>5, ModeFollows
<1>6. CASE BeginFrame
  BY <1>6, InputFollows
<1>7. CASE EndFrame(Amounts)
  BY <1>7, FrameFollows
<1>8. CASE SaveFails \/ SaveState \/ CloseGame(Amounts)
  BY <1>8, SaveFollows
<1>9. CASE LoadState
  BY <1>9, LoadFollows
<1>10. CASE Start
  BY <1>10, StartFollows
<1>11. CASE Reset
  BY <1>11, ResetFollows
<1>12. CASE UNCHANGED portVars
  BY <1>12 DEF portVars, PortFollows
<1>13. QED
  BY <1>1, <1>2, <1>3, <1>4, <1>5, <1>6, <1>7, <1>8, <1>9, <1>10, <1>11, <1>12 DEF Port_Next

LEMMA FollowsInvariance == Port_Spec => [](PortInv /\ PortFollows)
<1>1. Port_Init => PortInv /\ PortFollows
  BY PortInit, InitFollows
<1>2. (PortInv /\ PortFollows) /\ [Port_Next]_portVars => (PortInv /\ PortFollows)'
  BY PortStep, FollowsStep
<1>3. QED
  BY <1>1, <1>2, PTL DEF Port_Spec

LEMMA OneTalks ==
  ASSUME NEW p, NEW c, NEW s, NEW addressed \in BOOLEAN, Placed(p, c, s, addressed)
  PROVE  ~(Dev_Acks(p) /\ Card_Acks(c))
BY DEF Placed, QuietPad, QuietCard, FreshPad, FreshCard, Dev_Acks, Card_Acks

(* What the game hears of a memory card is what the card holds, and nobody speaks
   in between (InputDevice_Memcard::Clock and the pads' Clock).                *)
THEOREM AnswersDoHold == Port_Spec => []AnswersAreTrue
<1>1. PortInv /\ PortFollows => AnswersAreTrue
  <2> SUFFICES ASSUME PortInv, PortFollows, ~odd PROVE AnswersAreTrue
    BY DEF AnswersAreTrue
  <2> DEFINE n == Len(said)
             c == m.cards[0]
  <2>1. Follows(setup, m, said, heard, n)
    BY DEF PortFollows
  <2>2. OneTalker
    <3> SUFFICES ASSUME NEW s \in Sub, Dev_Acks(m.pads[s]), Card_Acks(m.cards[s]) PROVE FALSE
      BY DEF OneTalker
    <3>1. Chosen(m)
      BY DEF Chosen, Dev_Acks
    <3>2. Apart(setup, m, said)
      BY <2>1, <3>1 DEF Follows
    <3>3. Placed(m.pads[s], m.cards[s], said, setup.tap \/ s = 0)
      BY <3>2, Zenon DEF Apart
    <3>4. (setup.tap \/ s = 0) \in BOOLEAN
      OBVIOUS
    <3>5. QED
      BY <3>3, <3>4, OneTalks
  <2>3. Len(heard) = n
    BY <2>1 DEF Follows, IsSequence
  <2>4. 0 \in setup.cards => HeardRight(c, said, heard, n)
    BY <2>1 DEF Follows
  <2>5. n \in Nat /\ FrameLen \in Nat
    BY <2>1, FramesAreNat DEF Follows, IsSequence
  <2> HIDE DEF n, c
  <2>6. ASSUME 0 \in setup.cards, Begins(said, 129, 82), FrameOf(said) < Frames
        PROVE  LET frame == Card0.data[FrameOf(said)]
               IN  /\ \A i \in 1..FrameLen : 10 + i <= Len(heard) => heard[10 + i] = frame[i]
                   /\ Len(heard) >= 11 + FrameLen =>
                        heard[11 + FrameLen] = Checksum(said[5], said[6], frame)
                   /\ Len(heard) >= 12 + FrameLen => heard[12 + FrameLen] = 71
    <3>1. HeardOfRead(c, said, heard, n)
      BY <2>4, <2>6 DEF HeardRight, Begins, n
    <3>2. Card0 = c
      BY DEF Card0, c
    <3>3. QED
      BY <2>3, <3>1, <3>2 DEF HeardOfRead, Checksum
  <2>7. ASSUME 0 \in setup.cards, Begins(said, 129, 87), Len(heard) >= 10 + FrameLen
        PROVE  heard[10 + FrameLen] = IF ~RightSum(said) THEN 78
                                      ELSE IF FrameOf(said) < Frames THEN 71 ELSE 255
    BY <2>3, <2>4, <2>7 DEF HeardRight, Begins, Verdict
  <2>8. QED
    BY <2>2, <2>6, <2>7, Zenon DEF AnswersAreTrue
<1>2. QED
  BY <1>1, FollowsInvariance, PTL

\* A step in a frame either is a byte or leaves the card's data alone.
LEMMA InFrameStores ==
  ASSUME PortInv, PortFollows, [Port_Next]_portVars, pc = "run", pc' = "run", ~odd
  PROVE  CardStores
<1>0. ASSUME Card0'.data = Card0.data, said' = said \/ said' = << >> PROVE CardStores
  <2>1. ~Stores(<< >>)
    BY EmptySequence, FramesAreNat DEF Stores
  <2>2. QED
    BY <1>0, <2>1 DEF CardStores
<1>1. ASSUME NEW dtr \in BOOLEAN, SetDTR(dtr) PROVE CardStores
  <2>1. m'.cards[0].data = m.cards[0].data
    BY <1>1, SelectFollows
  <2>2. said' = said \/ said' = << >>
    BY <1>1 DEF SetDTR
  <2>3. QED
    BY <1>0, <2>1, <2>2 DEF Card0
<1>2. ASSUME NEW b \in Sends(setup, said) \cap Byte, Exchange(b) PROVE CardStores
  BY <1>2, ExchangeFollows
<1>3. ASSUME NEW b \in {1, 66}, Overhear(b) PROVE CardStores
  <2>1. b \in Byte
    BY ByteIs
  <2>2. m'.cards[0] = m.cards[0]
    BY <1>3, <2>1, OverhearFollows
  <2>3. QED
    BY <1>0, <1>3, <2>2 DEF Overhear, transfer, Card0
<1>4. ASSUME NEW s \in Sub, SeeBeam(s) PROVE CardStores
  <2>1. m'.cards[0] = m.cards[0]
    BY <1>4, BeamFollows
  <2>2. QED
    BY <1>0, <1>4, <2>1 DEF SeeBeam, transfer, Card0
<1>5. CASE UNCHANGED portVars
  BY <1>0, <1>5 DEF portVars, Card0
<1>6. QED
  BY <1>1, <1>2, <1>3, <1>4, <1>5
     DEF Port_Next, SetAMCT, BeginFrame, EndFrame, SaveFails, SaveState, LoadState, CloseGame, Start, Reset

(* In a frame a card changes only by a write that was sent whole and whose checksum
   is right, and then takes what was sent (InputDevice_Memcard::Clock).        *)
THEOREM WritesDoStore == Port_Spec => WritesAreWhole
<1>1. (PortInv /\ PortFollows) /\ [Port_Next]_portVars => (pc = "run" /\ pc' = "run" /\ ~odd => CardStores)
  BY InFrameStores
<1>2. QED
  BY <1>1, FollowsInvariance, PTL DEF Port_Spec, WritesAreWhole, CardStores

-----------------------------------------------------------------------------
(* How many bytes a pad has left to send.                                      *)

\* A sequence of k elements, whatever they are.
Holds(q, k) == \E S : q \in Seq(S) /\ Len(q) = k

\* A device drops the byte that was sent, if there was one.
Sent(q) == IF q = << >> THEN q ELSE Tail(q)
OneLess(k) == IF k > 0 THEN k - 1 ELSE 0

LEMMA HoldsMany ==
  ASSUME NEW q, NEW k, Holds(q, k)
  PROVE  k \in Nat /\ (q # << >> <=> k > 0)
<1>1. PICK S : q \in Seq(S) /\ Len(q) = k
  BY DEF Holds
<1>2. QED
  BY <1>1

LEMMA SentHolds ==
  ASSUME NEW q, NEW k, Holds(q, k)
  PROVE  Holds(Sent(q), OneLess(k))
<1>1. PICK S : q \in Seq(S) /\ Len(q) = k
  BY DEF Holds
<1>2. CASE q = << >>
  BY <1>1, <1>2 DEF Holds, Sent, OneLess
<1>3. CASE q # << >>
  <2>1. Tail(q) \in Seq(S) /\ Len(Tail(q)) = k - 1 /\ k > 0
    BY <1>1, <1>3
  <2>2. Sent(q) = Tail(q) /\ OneLess(k) = k - 1
    BY <1>3, <2>1 DEF Sent, OneLess
  <2>3. QED
    BY <2>1, <2>2, Zenon DEF Holds
<1>4. QED
  BY <1>2, <1>3

LEMMA HoldsBoth ==
  ASSUME NEW q, NEW j, Holds(q, j), NEW r, NEW k, Holds(r, k)
  PROVE  Holds(q \o r, j + k)
<1>1. PICK S : q \in Seq(S) /\ Len(q) = j
  BY DEF Holds
<1>2. PICK T : r \in Seq(T) /\ Len(r) = k
  BY DEF Holds
<1>3. q \in Seq(S \cup T) /\ r \in Seq(S \cup T)
  BY <1>1, <1>2, SeqMonotonic
<1>4. q \o r \in Seq(S \cup T) /\ Len(q \o r) = j + k
  BY <1>1, <1>2, <1>3
<1>5. QED
  BY <1>4, Zenon DEF Holds

LEMMA HoldsNone == Holds(<< >>, 0)
<1>1. << >> \in Seq({0}) /\ Len(<< >>) = 0
  OBVIOUS
<1>2. QED
  BY <1>1, Zenon DEF Holds

LEMMA HoldsOne == \A a : Holds(<<a>>, 1)
<1> TAKE a
<1>1. <<a>> \in Seq({a}) /\ Len(<<a>>) = 1
  OBVIOUS
<1>2. QED
  BY <1>1, Zenon DEF Holds

LEMMA HoldsTwo == \A a, b : Holds(<<a, b>>, 2)
<1> TAKE a, b
<1>1. <<a, b>> \in Seq({a, b}) /\ Len(<<a, b>>) = 2
  OBVIOUS
<1>2. QED
  BY <1>1, Zenon DEF Holds

LEMMA HoldsThree == \A a, b, c : Holds(<<a, b, c>>, 3)
<1> TAKE a, b, c
<1>1. <<a, b, c>> \in Seq({a, b, c}) /\ Len(<<a, b, c>>) = 3
  OBVIOUS
<1>2. QED
  BY <1>1, Zenon DEF Holds

LEMMA HoldsFour == \A a, b, c, d : Holds(<<a, b, c, d>>, 4)
<1> TAKE a, b, c, d
<1>1. <<a, b, c, d>> \in Seq({a, b, c, d}) /\ Len(<<a, b, c, d>>) = 4
  OBVIOUS
<1>2. QED
  BY <1>1, Zenon DEF Holds

LEMMA HoldsFive == \A a, b, c, d, e : Holds(<<a, b, c, d, e>>, 5)
<1> TAKE a, b, c, d, e
<1>1. <<a, b, c, d, e>> \in Seq({a, b, c, d, e}) /\ Len(<<a, b, c, d, e>>) = 5
  OBVIOUS
<1>2. QED
  BY <1>1, Zenon DEF Holds

\* Of an answer of d pairs of bytes, those that are left after n bytes.
Rest(d, n) == IF n <= 2 + 2 * d THEN 3 + 2 * d - n ELSE 0

LEMMA RestGoesOn ==
  ASSUME NEW d \in Nat, NEW n \in Nat, n > 1
  PROVE  Rest(d, n + 1) = OneLess(Rest(d, n)) /\ Rest(d, n) \in Nat /\ (Rest(d, n) > 0 <=> n <= 2 + 2 * d)
BY DEF Rest, OneLess

-----------------------------------------------------------------------------
(* The pads with one mode: their identification, the answer to a poll, a byte of it.  *)
LEMMA ButtonsHold == \A down : Holds(Buttons(down), 2)
BY HoldsTwo DEF Buttons

LEMMA NinetyAndTwo ==
  ASSUME NEW down PROVE Holds(<<90>> \o Buttons(down), 3)
<1>1. Holds(<<90>>, 1) /\ Holds(Buttons(down), 2)
  BY HoldsOne, ButtonsHold
<1>2. Holds(<<90>> \o Buttons(down), 1 + 2)
  BY <1>1, HoldsBoth, Zenon
<1>3. QED
  BY <1>2

\* The pairs of bytes that the kind's identification promises.
Pairs(i) == i % 16

LEMMA AnswerLength ==
  ASSUME NEW p, PlainIs(p), p.kind # "none"
  PROVE  Holds(AfterPoll(p).tx, 1 + 2 * Pairs(Id(p.kind)))
<1>1. {"kind", "dtr", "phase", "tx"} \subseteq DOMAIN p /\ p.kind \in Polled \ {"none"}
  BY DEF PlainIs, PadIsWell, IsShock, Kinds
<1>2. CASE p.kind = "gamepad"
  <2>1. AfterPoll(p) = GamepadPolled(p) /\ Id(p.kind) = 65
    BY <1>2 DEF AfterPoll, Mice, Id
  <2>2. GamepadPolled(p).tx = <<90>> \o Buttons(p.held)
    BY <1>1, Zenon DEF GamepadPolled
  <2>3. Holds(AfterPoll(p).tx, 3)
    BY <2>1, <2>2, NinetyAndTwo
  <2>4. QED
    BY <2>1, <2>3 DEF Pairs
<1>3. ASSUME NEW r, Holds(r, 4) PROVE Holds((<<90>> \o Buttons(p.held)) \o r, 7)
  <2>1. Holds((<<90>> \o Buttons(p.held)) \o r, 3 + 4)
    BY <1>3, NinetyAndTwo, HoldsBoth, Zenon
  <2>2. QED
    BY <2>1
<1>4. CASE p.kind \in {"dualanalog", "analogjoy"}
  <2>1. AfterPoll(p) = DualAnalogPolled(p) /\ Id(p.kind) \in {115, 83}
    BY <1>4 DEF AfterPoll, Mice, Id
  <2>2. DualAnalogPolled(p).tx = (<<90>> \o Buttons(p.held)) \o Sticks
    BY <1>1, Zenon DEF DualAnalogPolled
  <2>3. Holds(Sticks, 4)
    BY HoldsFour DEF Sticks
  <2>4. Holds(AfterPoll(p).tx, 7)
    BY <1>3, <2>1, <2>2, <2>3
  <2>5. QED
    BY <2>1, <2>4 DEF Pairs
<1>5. CASE p.kind = "negcon"
  <2>1. AfterPoll(p) = NegconPolled(p) /\ Id(p.kind) = 35
    BY <1>5 DEF AfterPoll, Mice, Id
  <2>2. NegconPolled(p).tx = (<<90>> \o Buttons(p.held)) \o <<128, 0, 0, 0>>
    BY <1>1, Zenon DEF NegconPolled
  <2>3. Holds(<<128, 0, 0, 0>>, 4)
    BY HoldsFour
  <2>4. Holds(AfterPoll(p).tx, 7)
    BY <1>3, <2>1, <2>2, <2>3
  <2>5. QED
    BY <2>1, <2>4 DEF Pairs
<1>6. CASE p.kind = "mouse"
  <2>1. AfterPoll(p) = MousePolled(p) /\ Id(p.kind) = 18
    BY <1>6 DEF AfterPoll, Mice, Id
  <2> DEFINE w == IF p.pressed THEN 248 ELSE 252
             z == Reported(p) % 256
  <2>2. MousePolled(p) = [p EXCEPT !.tx = <<90, 255, w, z, 0>>, !.moved = @ - Reported(p),
                                   !.pressed = p.held /\ @, !.quiet = 0]
    BY Zenon DEF MousePolled
  <2> HIDE DEF w, z
  <2>3. MousePolled(p).tx = <<90, 255, w, z, 0>>
    BY <1>1, <2>2, Zenon
  <2>4. Holds(AfterPoll(p).tx, 5)
    BY <2>1, <2>3, HoldsFive
  <2>5. QED
    BY <2>1, <2>4 DEF Pairs
<1>7. CASE p.kind = "guncon"
  <2>1. AfterPoll(p) = GunConPolled(p) /\ Id(p.kind) = 99
    BY <1>7 DEF AfterPoll, Mice, Id
  <2> DEFINE w == Trigger(p, 32, {2, 3})
             r == IF p.hit /\ p.shot = 0 THEN <<2, 0, 20, 0>> ELSE <<1, 0, 10, 0>>
  <2>2. GunConPolled(p) = [p EXCEPT !.tx = <<90, 255, w>> \o r, !.pressed = p.held, !.hit = FALSE]
    BY Zenon DEF GunConPolled
  <2>3. Holds(r, 4)
    BY HoldsFour
  <2> HIDE DEF w, r
  <2>4. GunConPolled(p).tx = <<90, 255, w>> \o r
    BY <1>1, <2>2, Zenon
  <2>5. Holds(<<90, 255, w>>, 3)
    BY HoldsThree
  <2>6. Holds(<<90, 255, w>> \o r, 3 + 4)
    BY <2>3, <2>5, HoldsBoth, Zenon
  <2>7. QED
    BY <2>1, <2>4, <2>6 DEF Pairs
<1>8. CASE p.kind = "justifier"
  <2>1. AfterPoll(p) = JustifierPolled(p) /\ Id(p.kind) = 49
    BY <1>8 DEF AfterPoll, Mice, Id
  <2> DEFINE w == Trigger(p, 128, {5, 6})
  <2>2. JustifierPolled(p).tx = <<90, 255, w>>
    BY <1>1, Zenon DEF JustifierPolled
  <2> HIDE DEF w
  <2>3. Holds(AfterPoll(p).tx, 3)
    BY <2>1, <2>2, HoldsThree
  <2>4. QED
    BY <2>1, <2>3 DEF Pairs
<1>9. QED
  BY <1>1, <1>2, <1>4, <1>5, <1>6, <1>7, <1>8 DEF Polled, Mice, Guns

\* Where a pad with one mode is in its answer to a poll.
InAnswer(p, k) == p.phase \in {2, 3, 4} /\ Holds(p.tx, k)

LEMMA PlainTalks ==
  ASSUME NEW pad, PlainIs(pad), pad.dtr, NEW b
  PROVE  LET q == Pad_Clock(pad, b) IN
         /\ pad.phase = 0 /\ b = 1 => q.phase = 1 /\ q.tx = <<Id(pad.kind)>>
         /\ pad.phase = 1 /\ b = 66 => InAnswer(q, 1 + 2 * Pairs(Id(pad.kind)))
         /\ \A k : InAnswer(pad, k) => InAnswer(q, OneLess(k))
<1> DEFINE q == Pad_Clock(pad, b)
           p == [pad EXCEPT !.tx = IF @ = << >> THEN @ ELSE Tail(@)]
           a == AfterPoll(p)
<1>1. /\ {"kind", "dtr", "phase", "tx"} \subseteq DOMAIN pad /\ pad.dtr = TRUE /\ pad.kind # "none"
      /\ PadIsWell(pad) /\ ~IsShock(pad)
  BY DEF PlainIs, PadIsWell
<1>2. Alters(pad, p) /\ p.phase = pad.phase /\ p.tx = Sent(pad.tx)
  BY <1>1, Zenon DEF Alters, Sent
<1>3. q = CASE ~pad.dtr \/ pad.kind = "none" -> pad
            [] pad.dtr /\ p.phase = 0 ->
                 IF b = 1 THEN [p EXCEPT !.tx = <<Id(p.kind)>>, !.phase = 1]
                 ELSE [p EXCEPT !.phase = -1]
            [] pad.dtr /\ p.phase = 1 ->
                 IF b = 66 THEN [a EXCEPT !.phase = 2]
                 ELSE [p EXCEPT !.tx = << >>, !.phase = -1]
            [] pad.dtr /\ p.phase \in {2, 3} /\ p.kind = "justifier" ->
                 [p EXCEPT !.phase = @ + 1,
                           !.detect = IF p.phase = 3 THEN (b \div 16) % 2 = 1 ELSE @]
            [] OTHER -> p
  BY Zenon DEF Pad_Clock
<1> HIDE DEF p, q
<1>4. PlainIs(p) /\ p.kind = pad.kind /\ {"kind", "dtr", "phase", "tx"} \subseteq DOMAIN p
  BY <1>1, <1>2, PlainGoes DEF PlainIs, Goes, IsShock, Alters
<1>5. ASSUME pad.phase = 0, b = 1 PROVE q.phase = 1 /\ q.tx = <<Id(pad.kind)>>
  <2>1. q = [p EXCEPT !.tx = <<Id(p.kind)>>, !.phase = 1]
    BY <1>1, <1>2, <1>3, <1>5
  <2>2. QED
    BY <1>4, <2>1, Zenon
<1>6. ASSUME pad.phase = 1, b = 66 PROVE InAnswer(q, 1 + 2 * Pairs(Id(pad.kind)))
  <2>1. q = [a EXCEPT !.phase = 2]
    BY <1>1, <1>2, <1>3, <1>6
  <2>2. Alters(p, a) /\ Holds(a.tx, 1 + 2 * Pairs(Id(p.kind)))
    BY <1>1, <1>4, AfterPollAlters, AnswerLength
  <2> HIDE DEF a
  <2>3. {"phase", "tx"} \subseteq DOMAIN a
    BY <1>4, <2>2 DEF Alters
  <2>4. q.phase = 2 /\ q.tx = a.tx
    BY <2>1, <2>3, Zenon
  <2>5. QED
    BY <1>4, <2>2, <2>4, Zenon DEF InAnswer
<1>7. ASSUME NEW k, InAnswer(pad, k) PROVE InAnswer(q, OneLess(k))
  <2>1. Holds(p.tx, OneLess(k)) /\ p.phase \in {2, 3, 4}
    BY <1>2, <1>7, SentHolds DEF InAnswer
  <2>2. CASE p.phase \in {2, 3} /\ p.kind = "justifier"
    <3>1. q = [p EXCEPT !.phase = @ + 1, !.detect = IF p.phase = 3 THEN (b \div 16) % 2 = 1 ELSE @]
      BY <1>1, <1>3, <2>2
    <3>2. q.phase = p.phase + 1 /\ q.tx = p.tx
      BY <1>4, <3>1, Zenon
    <3>3. QED
      BY <2>1, <2>2, <3>2 DEF InAnswer
  <2>3. CASE ~(p.phase \in {2, 3} /\ p.kind = "justifier")
    <3>1. q = p
      BY <1>1, <1>3, <2>1, <2>3
    <3>2. QED
      BY <2>1, <3>1 DEF InAnswer
  <2>4. QED
    BY <2>2, <2>3
<1>8. QED
  BY <1>5, <1>6, <1>7 DEF q


-----------------------------------------------------------------------------
(* The DualShock: its modes stay what they are, and its answers have their length.  *)
ModesOf(d) == <<d.config, d.analog, d.magic>>
IdOf(d) == IF d.config THEN 243 ELSE IF d.analog THEN 115 ELSE 65

\* The pad with the byte that was sent dropped: what its Clock starts from.
Dropped(p) ==
    [p EXCEPT !.tx = IF @ = << >> THEN @ ELSE Tail(@),
              !.sent = IF p.phase # 2 THEN 0 ELSE IF p.tx = << >> THEN @ ELSE @ + 1]

LEMMA DroppedDoes ==
  ASSUME NEW p, ShockIs(p)
  PROVE  LET d == Dropped(p) IN
         /\ ShockIs(d) /\ d.dtr = p.dtr /\ d.phase = p.phase /\ d.command = p.command
         /\ ModesOf(d) = ModesOf(p) /\ d.tx = Sent(p.tx)
<1> DEFINE d == Dropped(p)
<1>1. /\ PadIsWell(p) /\ IsShock(p)
      /\ {"kind", "dtr", "phase", "tx", "command", "config", "analog", "magic"} \subseteq DOMAIN p
  BY DEF ShockIs, PadIsWell, HasModes
<1>2. /\ Alters(p, d) /\ d.phase = p.phase /\ d.command = p.command /\ d.tx = Sent(p.tx)
      /\ ModesOf(d) = ModesOf(p)
  BY <1>1, Zenon DEF Alters, Dropped, Sent, ModesOf
<1> HIDE DEF d
<1>3. Goes(p, d)
  BY <1>1, <1>2, SameGoes
<1>4. ShockIs(d) /\ d.dtr = p.dtr
  BY <1>1, <1>3 DEF ShockIs, Goes, IsShock
<1>5. QED
  BY <1>2, <1>4 DEF d

LEMMA ShockDomain ==
  ASSUME NEW d, ShockIs(d)
  PROVE  {"kind", "dtr", "phase", "tx", "command", "config", "analog", "magic"} \subseteq DOMAIN d
BY DEF ShockIs, PadIsWell, HasModes

\* What a phase leaves to do.
LEMMA ShockClockIs ==
  ASSUME NEW p, ShockIs(p), p.dtr, NEW b
  PROVE  LET q == Shock_Clock(p, b)
             d == Dropped(p)
         IN  /\ p.phase = -1 => q = d
             /\ p.phase = 0 => q = Addressing(d, b)
             /\ p.phase = 1 => q = Commanded(d, b)
             /\ p.phase = 2 => q = MayEnter(d, b)
             /\ p.phase = 101 => q = ConfigCommand(d, b)
             /\ p.phase \in At(66, 0)..At(66, 6) => q = Poll(d, b)
             /\ p.phase \in Int /\ p.phase > 101 /\ p.phase \notin At(66, 0)..At(66, 6) => q = Config(d, b)
<1> DEFINE q == Shock_Clock(p, b)
           d == Dropped(p)
<1>1. q = CASE ~p.dtr -> p
            [] p.dtr /\ d.phase = -1 -> d
            [] p.dtr /\ d.phase = 0 -> Addressing(d, b)
            [] p.dtr /\ d.phase = 1 -> Commanded(d, b)
            [] p.dtr /\ d.phase = 2 -> MayEnter(d, b)
            [] p.dtr /\ d.phase = 101 -> ConfigCommand(d, b)
            [] p.dtr /\ d.phase \in At(66, 0)..At(66, 6) -> Poll(d, b)
            [] OTHER -> Config(d, b)
  BY Zenon DEF Shock_Clock, Dropped
<1>2. d.phase = p.phase /\ p.dtr = TRUE
  BY DroppedDoes DEF ShockIs, PadIsWell
<1> HIDE DEF q, d
<1>3. QED
  BY <1>1, <1>2 DEF q, d, At

\* The identification.
Named(p, i) ==
    IF IsShock(p) THEN i = IdOf(p) /\ p.phase = (IF p.config THEN 101 ELSE 1)
    ELSE i = Id(p.kind) /\ p.phase = 1

LEMMA ShockNamed ==
  ASSUME NEW p, ShockIs(p), p.dtr, p.phase = 0
  PROVE  LET q == Shock_Clock(p, 1) IN Named(q, IdOf(q)) /\ q.tx = <<IdOf(q)>>
<1> DEFINE q == Shock_Clock(p, 1)
           d == Dropped(p)
<1>1. q = Addressing(d, 1) /\ ShockIs(d)
  BY ShockClockIs, DroppedDoes
<1> HIDE DEF q, d
<1>2. {"kind", "dtr", "phase", "tx", "config", "analog"} \subseteq DOMAIN d /\ IsShock(d)
  BY <1>1, ShockDomain DEF ShockIs
<1>3. CASE d.config
  <2>1. q = [d EXCEPT !.tx = <<243>>, !.phase = 101]
    BY <1>1, <1>3 DEF Addressing
  <2>2. q.tx = <<243>> /\ q.phase = 101 /\ q.config = d.config /\ q.kind = d.kind
    BY <1>2, <2>1, Zenon
  <2>3. QED
    BY <1>2, <1>3, <2>2 DEF Named, IdOf, IsShock, q
<1>4. CASE ~d.config
  <2>1. q = [d EXCEPT !.tx = <<IF d.analog THEN 115 ELSE 65>>, !.phase = 1]
    BY <1>1, <1>4 DEF Addressing
  <2>2. /\ q.tx = <<IF d.analog THEN 115 ELSE 65>> /\ q.phase = 1 /\ q.config = d.config
        /\ q.analog = d.analog /\ q.kind = d.kind
    BY <1>2, <2>1, Zenon
  <2>3. QED
    BY <1>2, <1>4, <2>2 DEF Named, IdOf, IsShock, q
<1>5. QED
  BY <1>3, <1>4

LEMMA AnswerHolds ==
  ASSUME NEW d, NEW wide
  PROVE  Holds(Answer(d, wide), IF wide THEN 6 ELSE 2)
<1> DEFINE v == IF d.held THEN 246 ELSE 255
           w == IF d.held THEN 240 ELSE 255
           r == IF wide THEN <<128, 128, 128, 128>> ELSE << >>
<1>1. Answer(d, wide) = <<v, w>> \o r
  BY Zenon DEF Answer
<1>2. Holds(r, IF wide THEN 4 ELSE 0)
  BY HoldsFour, HoldsNone
<1> HIDE DEF v, w, r
<1>3. Holds(<<v, w>>, 2)
  BY HoldsTwo
<1>4. Holds(<<v, w>> \o r, 2 + (IF wide THEN 4 ELSE 0))
  BY <1>2, <1>3, HoldsBoth, Zenon
<1>5. QED
  BY <1>1, <1>4

\* A poll: the pad knows how much it sends when the byte after the command comes.
Polls(p) == p.phase = At(66, 0) /\ Holds(p.tx, 1)
InPoll(p, k) == p.phase \in At(66, 1)..At(66, 4) /\ (~LongAnswer(p) => Holds(p.tx, k))

\* A poll that may enter the configuration mode: its length is set by the command.
MayConfigure(p, k) == p.phase \in {-1, 2} /\ Holds(p.tx, k)

LEMMA ShockCommanded ==
  ASSUME NEW p, ShockIs(p), p.dtr, p.phase = 1, ~p.config
  PROVE  /\ Polls(Shock_Clock(p, 66)) /\ ModesOf(Shock_Clock(p, 66)) = ModesOf(p)
         /\ MayConfigure(Shock_Clock(p, 67), 1 + 2 * Pairs(IdOf(p)))
<1> DEFINE d == Dropped(p)
<1>1. /\ ShockIs(d) /\ ModesOf(d) = ModesOf(p)
      /\ Shock_Clock(p, 66) = Commanded(d, 66) /\ Shock_Clock(p, 67) = Commanded(d, 67)
  BY ShockClockIs, DroppedDoes
<1> HIDE DEF d
<1>2. {"phase", "tx", "command", "config", "analog", "magic"} \subseteq DOMAIN d
  BY <1>1, ShockDomain
<1>3. Polls(Commanded(d, 66)) /\ ModesOf(Commanded(d, 66)) = ModesOf(p)
  <2> DEFINE q == Commanded(d, 66)
  <2>1. q = [d EXCEPT !.command = 66, !.tx = <<90>>, !.phase = At(66, 0)]
    BY DEF Commanded
  <2> HIDE DEF q
  <2>2. q.tx = <<90>> /\ q.phase = At(66, 0) /\ ModesOf(q) = ModesOf(d)
    BY <1>2, <2>1, Zenon DEF ModesOf
  <2>3. QED
    BY <1>1, <2>2, HoldsOne DEF Polls, q
<1>4. MayConfigure(Commanded(d, 67), 1 + 2 * Pairs(IdOf(p)))
  <2> DEFINE q == Commanded(d, 67)
  <2>1. q = [d EXCEPT !.command = 67, !.tx = <<90>> \o Answer(d, d.analog), !.phase = 2]
    BY DEF Commanded
  <2> HIDE DEF q
  <2>2. q.tx = <<90>> \o Answer(d, d.analog) /\ q.phase = 2
    BY <1>2, <2>1, Zenon
  <2>3. d.analog = p.analog
    BY <1>1 DEF ModesOf
  <2>4. Holds(<<90>>, 1) /\ Holds(Answer(d, p.analog), IF p.analog THEN 6 ELSE 2)
    BY HoldsOne, AnswerHolds
  <2>5. Holds(<<90>> \o Answer(d, p.analog), 1 + (IF p.analog THEN 6 ELSE 2))
    BY <2>4, HoldsBoth, Zenon
  <2>6. 1 + (IF p.analog THEN 6 ELSE 2) = 1 + 2 * Pairs(IdOf(p))
    BY DEF Pairs, IdOf
  <2>7. QED
    BY <2>2, <2>3, <2>5, <2>6 DEF MayConfigure, q
<1>5. QED
  BY <1>1, <1>3, <1>4

LEMMA ShockMayEnter ==
  ASSUME NEW p, ShockIs(p), p.dtr, NEW k, MayConfigure(p, k), NEW b
  PROVE  MayConfigure(Shock_Clock(p, b), OneLess(k))
<1> DEFINE q == Shock_Clock(p, b)
           d == Dropped(p)
<1>1. /\ ShockIs(d) /\ d.phase = p.phase /\ d.tx = Sent(p.tx)
      /\ p.phase = -1 => q = d
      /\ p.phase = 2 => q = MayEnter(d, b)
  BY ShockClockIs, DroppedDoes
<1> HIDE DEF q, d
<1>2. {"phase", "tx", "config"} \subseteq DOMAIN d
  BY <1>1, ShockDomain
<1>3. Holds(d.tx, OneLess(k)) /\ p.phase \in {-1, 2}
  BY <1>1, SentHolds DEF MayConfigure
<1>4. CASE p.phase = -1
  BY <1>1, <1>3, <1>4 DEF MayConfigure, q
<1>5. CASE p.phase = 2
  <2>1. q = MayEnter(d, b)
    BY <1>1, <1>5
  <2>2. CASE d.command = 67 /\ d.sent = 2 /\ b = 1
    <3> DEFINE w == IF d.compat THEN [i \in 1..2 |-> 0] ELSE d.param
    <3>1. q = [d EXCEPT !.config = TRUE, !.phase = -1, !.compat = FALSE, !.param = w]
      BY <2>1, <2>2, Zenon DEF MayEnter
    <3> HIDE DEF w
    <3>2. q.phase = -1 /\ q.tx = d.tx
      BY <1>2, <3>1, Zenon
    <3>3. QED
      BY <1>3, <3>2 DEF MayConfigure, q
  <2>3. CASE ~(d.command = 67 /\ d.sent = 2 /\ b = 1)
    <3>1. q = d
      BY <2>1, <2>3, Zenon DEF MayEnter
    <3>2. QED
      BY <1>1, <1>3, <3>1 DEF MayConfigure, q
  <2>4. QED
    BY <2>2, <2>3
<1>6. QED
  BY <1>3, <1>4, <1>5

LEMMA PollBegins ==
  ASSUME NEW d, d.phase = At(66, 0), NEW b PROVE Poll(d, b) = PollData(d)
<1> DEFINE q == Poll(d, b)
           w1 == [d EXCEPT !.param = Motors(d, b, 1), !.phase = @ + 1]
           w2 == [d EXCEPT !.param = Motors(d, b, 2), !.phase = @ + 1]
           w3 == [d EXCEPT !.param = IF ~d.compat /\ d.magic[2] = 0 /\ d.magic[3] = 1
                                     THEN [@ EXCEPT ![2] = b] ELSE @,
                           !.phase = @ + 1]
<1>1. q = CASE d.phase = At(66, 0) -> PollData(d)
            [] d.phase = At(66, 1) -> w1
            [] d.phase = At(66, 2) -> w2
            [] d.phase = At(66, 3) -> w3
            [] OTHER -> d
  BY Zenon DEF Poll
<1> HIDE DEF q, w1, w2, w3
<1>2. At(66, 0) # At(66, 1) /\ At(66, 0) # At(66, 2) /\ At(66, 0) # At(66, 3)
  BY DEF At
<1>3. QED
  BY <1>1, <1>2 DEF q

LEMMA ShockPolled ==
  ASSUME NEW p, ShockIs(p), p.dtr, Polls(p), NEW b
  PROVE  InPoll(Shock_Clock(p, b), 2 * Pairs(IdOf(p))) /\ ModesOf(Shock_Clock(p, b)) = ModesOf(p)
<1> DEFINE q == Shock_Clock(p, b)
           d == Dropped(p)
<1>1. ShockIs(d) /\ d.phase = p.phase /\ ModesOf(d) = ModesOf(p) /\ d.kind = p.kind /\ d.kind = "dualshock"
  BY DroppedDoes DEF ShockIs, IsShock
<1>2. p.phase = At(66, 0) /\ p.phase \in At(66, 0)..At(66, 6)
  BY DEF Polls, At
<1>3. q = Poll(d, b)
  BY <1>2, ShockClockIs
<1> HIDE DEF q, d
<1>4. q = PollData(d)
  BY <1>1, <1>2, <1>3, PollBegins
<1>5. {"kind", "phase", "tx", "config", "analog", "magic"} \subseteq DOMAIN d
  BY <1>1, ShockDomain
<1> DEFINE wide == d.analog \/ d.config
           more == IF ~wide /\ d.magic[3] \in {0, 1} THEN <<0, 0>> ELSE << >>
<1>6. q = [d EXCEPT !.tx = Answer(d, wide) \o more, !.phase = @ + 1]
  BY <1>4, Zenon DEF PollData
<1> HIDE DEF wide, more
<1>7. /\ q.tx = Answer(d, wide) \o more /\ q.phase = d.phase + 1 /\ ModesOf(q) = ModesOf(d) /\ q.kind = d.kind
  BY <1>5, <1>6, Zenon DEF ModesOf
<1>8. q.phase \in At(66, 1)..At(66, 4)
  BY <1>1, <1>2, <1>7 DEF At
<1>9. ASSUME ~LongAnswer(q) PROVE Holds(q.tx, 2 * Pairs(IdOf(p)))
  <2>1. d.config = p.config /\ d.analog = p.analog /\ d.magic = q.magic /\ q.config = p.config /\ q.analog = p.analog
    BY <1>1, <1>7 DEF ModesOf
  <2>2. (IF wide THEN 6 ELSE 2) = 2 * Pairs(IdOf(p))
    BY <2>1 DEF wide, Pairs, IdOf
  <2>3. more = << >>
    <3>1. CASE wide
      BY <3>1 DEF more
    <3>2. CASE ~wide
      <4>1. ~q.config /\ ~q.analog
        BY <2>1, <3>2 DEF wide
      <4>2. d.magic[3] \notin {0, 1}
        BY <1>1, <1>7, <1>9, <2>1, <4>1, Zenon DEF LongAnswer, IsShock
      <4>3. QED
        BY <4>2 DEF more
    <3>3. QED
      BY <3>1, <3>2
  <2>4. Holds(Answer(d, wide), IF wide THEN 6 ELSE 2) /\ Holds(<< >>, 0)
    BY <2>2, AnswerHolds, HoldsNone
  <2>5. Holds(Answer(d, wide) \o << >>, (IF wide THEN 6 ELSE 2) + 0)
    BY <2>4, HoldsBoth, Zenon
  <2>6. (IF wide THEN 6 ELSE 2) + 0 = 2 * Pairs(IdOf(p))
    BY <2>2
  <2>7. QED
    BY <1>7, <2>3, <2>5, <2>6
<1>10. QED
  BY <1>1, <1>7, <1>8, <1>9 DEF InPoll, q

LEMMA ShockInPoll ==
  ASSUME NEW p, ShockIs(p), p.dtr, NEW k, InPoll(p, k), NEW b
  PROVE  InPoll(Shock_Clock(p, b), OneLess(k)) /\ ModesOf(Shock_Clock(p, b)) = ModesOf(p)
<1> DEFINE q == Shock_Clock(p, b)
           d == Dropped(p)
<1>1. /\ ShockIs(d) /\ d.phase = p.phase /\ ModesOf(d) = ModesOf(p) /\ d.tx = Sent(p.tx)
      /\ d.kind = "dualshock" /\ p.kind = "dualshock"
  BY DroppedDoes DEF ShockIs, IsShock
<1>2. p.phase \in At(66, 1)..At(66, 4) /\ p.phase \in At(66, 0)..At(66, 6)
  BY DEF InPoll, At
<1>3. q = Poll(d, b)
  BY <1>2, ShockClockIs
<1> HIDE DEF q, d
<1>4. {"kind", "phase", "tx", "config", "analog", "magic"} \subseteq DOMAIN d
  BY <1>1, ShockDomain
<1>5. /\ q.tx = d.tx /\ ModesOf(q) = ModesOf(d) /\ q.kind = d.kind
      /\ q.phase = IF d.phase = At(66, 4) THEN d.phase ELSE d.phase + 1
  <2>1. ASSUME NEW w, q = [d EXCEPT !.param = w, !.phase = @ + 1]
        PROVE  q.tx = d.tx /\ ModesOf(q) = ModesOf(d) /\ q.kind = d.kind /\ q.phase = d.phase + 1
    BY <1>4, <2>1, Zenon DEF ModesOf
  <2> DEFINE w1 == Motors(d, b, 1)
             w2 == Motors(d, b, 2)
             w3 == IF ~d.compat /\ d.magic[2] = 0 /\ d.magic[3] = 1 THEN [d.param EXCEPT ![2] = b] ELSE d.param
  <2>7. q = CASE d.phase = At(66, 0) -> PollData(d)
              [] d.phase = At(66, 1) -> [d EXCEPT !.param = w1, !.phase = @ + 1]
              [] d.phase = At(66, 2) -> [d EXCEPT !.param = w2, !.phase = @ + 1]
              [] d.phase = At(66, 3) -> [d EXCEPT !.param = w3, !.phase = @ + 1]
              [] OTHER -> d
    BY <1>3, Zenon DEF Poll
  <2> HIDE DEF w1, w2, w3
  <2>8. \A i \in 0..4 : \A j \in 0..4 : At(66, i) = At(66, j) => i = j
    BY DEF At
  <2>2. CASE d.phase = At(66, 1)
    <3>1. q = [d EXCEPT !.param = w1, !.phase = @ + 1]
      BY <2>2, <2>7, <2>8
    <3>2. q.tx = d.tx /\ ModesOf(q) = ModesOf(d) /\ q.kind = d.kind /\ q.phase = d.phase + 1
      BY <2>1, <3>1, Zenon
    <3>3. QED
      BY <2>2, <2>8, <3>2
  <2>3. CASE d.phase = At(66, 2)
    <3>1. q = [d EXCEPT !.param = w2, !.phase = @ + 1]
      BY <2>3, <2>7, <2>8
    <3>2. q.tx = d.tx /\ ModesOf(q) = ModesOf(d) /\ q.kind = d.kind /\ q.phase = d.phase + 1
      BY <2>1, <3>1, Zenon
    <3>3. QED
      BY <2>3, <2>8, <3>2
  <2>4. CASE d.phase = At(66, 3)
    <3>1. q = [d EXCEPT !.param = w3, !.phase = @ + 1]
      BY <2>4, <2>7, <2>8
    <3>2. q.tx = d.tx /\ ModesOf(q) = ModesOf(d) /\ q.kind = d.kind /\ q.phase = d.phase + 1
      BY <2>1, <3>1, Zenon
    <3>3. QED
      BY <2>4, <2>8, <3>2
  <2>5. CASE d.phase = At(66, 4)
    <3>1. q = d
      BY <2>5, <2>7, <2>8
    <3>2. QED
      BY <2>5, <3>1
  <2>6. QED
    BY <1>1, <1>2, <2>2, <2>3, <2>4, <2>5 DEF At
<1>6. q.phase \in At(66, 1)..At(66, 4)
  BY <1>1, <1>2, <1>5 DEF At
<1>7. ASSUME ~LongAnswer(q) PROVE Holds(q.tx, OneLess(k))
  <2>1. ModesOf(q) = ModesOf(p) /\ q.kind = p.kind
    BY <1>1, <1>5
  <2>2. q.config = p.config /\ q.analog = p.analog /\ q.magic = p.magic
    BY <2>1 DEF ModesOf
  <2>3. ~LongAnswer(p)
    BY <1>7, <2>1, <2>2 DEF LongAnswer, IsShock
  <2>4. QED
    BY <1>1, <1>5, <2>3, SentHolds DEF InPoll
<1>8. QED
  BY <1>1, <1>5, <1>6, <1>7 DEF InPoll, q


(* The configuration mode: every command is answered with as many bytes.       *)

\* After n bytes, the third of them a zero, where a command c has brought the pad.
ConfigAt(p, c, n) ==
    /\ n \in {2, 3} => p.command = c /\ p.phase = At(c, n - 2) /\ Holds(p.tx, 1)
    /\ c = 77 /\ n \in 4..8 => p.command = 77 /\ p.phase = At(77, n - 2) /\ Holds(p.tx, 1)
    /\ c = 77 /\ n > 8 => p.phase = -1 /\ Holds(p.tx, 0)
    /\ c # 77 /\ n > 3 => /\ Holds(p.tx, Rest(3, n))
                          /\ p.phase = -1 \/ (n = 4 /\ p.command = 68 /\ p.phase = At(68, 2))

LEMMA ShockConfigured ==
  ASSUME NEW p, ShockIs(p), p.dtr, p.phase = 101, NEW b \in Commands
  PROVE  LET q == Shock_Clock(p, b) IN
         /\ q.command = b /\ q.phase = At(b, 0) /\ Holds(q.tx, 1) /\ ModesOf(q) = ModesOf(p)
<1> DEFINE q == Shock_Clock(p, b)
           d == Dropped(p)
<1>1. ShockIs(d) /\ ModesOf(d) = ModesOf(p) /\ q = ConfigCommand(d, b)
  BY ShockClockIs, DroppedDoes
<1> HIDE DEF q, d
<1>2. {"phase", "tx", "command", "config", "analog", "magic"} \subseteq DOMAIN d
  BY <1>1, ShockDomain
<1>3. q = [d EXCEPT !.command = b, !.tx = <<90>>, !.phase = At(b, 0)]
  BY <1>1, Zenon DEF ConfigCommand
<1>4. q.command = b /\ q.tx = <<90>> /\ q.phase = At(b, 0) /\ ModesOf(q) = ModesOf(d)
  BY <1>2, <1>3, Zenon DEF ModesOf
<1>5. QED
  BY <1>1, <1>4, HoldsOne DEF q

LEMMA FiveHold == \A d, b : Holds(Five(d, b), 5)
<1> TAKE d, b
<1> DEFINE w == IF d.analog THEN 1 ELSE 0
           v == d.param[b + 1]
<1>1. \/ Five(d, b) = <<2, w, 2, 1, 0>>
      \/ Five(d, b) = <<0, 1, 2, 0, 10>>
      \/ Five(d, b) = <<0, 1, 1, 1, 20>>
      \/ Five(d, b) = <<0, 2, 0, 1, 0>>
      \/ Five(d, b) = <<0, 0, 0, 1, v>>
      \/ Five(d, b) = <<0, 0, 4, 0, 0>>
      \/ Five(d, b) = <<0, 0, 7, 0, 0>>
      \/ Five(d, b) = <<0, 0, 0, 0, 0>>
  <2>1. Five(d, b) = CASE d.command = 69 -> <<2, w, 2, 1, 0>>
                       [] d.command = 70 /\ b = 0 -> <<0, 1, 2, 0, 10>>
                       [] d.command = 70 /\ b = 1 -> <<0, 1, 1, 1, 20>>
                       [] d.command = 71 /\ b = 0 -> <<0, 2, 0, 1, 0>>
                       [] d.command = 72 /\ b \in {0, 1} -> <<0, 0, 0, 1, v>>
                       [] d.command = 76 /\ b = 0 -> <<0, 0, 4, 0, 0>>
                       [] d.command = 76 /\ b = 1 -> <<0, 0, 7, 0, 0>>
                       [] OTHER -> <<0, 0, 0, 0, 0>>
    BY Zenon DEF Five
  <2> HIDE DEF w, v
  <2>2. QED
    BY <2>1
<1> HIDE DEF w, v
<1>2. QED
  BY <1>1, HoldsFive, Zenon

\* What the configuration mode makes of a byte, at each step of a command.
ConfigDoes(q, d, c, j, b) ==
    /\ j = 0 /\ b = 0 => q = [d EXCEPT !.tx = <<First(d)>>, !.phase = @ + 1]
    /\ j > 0 /\ c = 77 => q = Magic(d, b)
    /\ j = 1 /\ c # 77 => q = Second(d, b)
    /\ j = 2 /\ c # 77 => q = Lock(d, b)

LEMMA ConfigIs ==
  ASSUME NEW p, ShockIs(p), p.dtr, NEW c \in Commands \ {66}, p.command = c, NEW j \in 0..6,
         p.phase = At(c, j), NEW b
  PROVE  ConfigDoes(Shock_Clock(p, b), Dropped(p), c, j, b)
<1> DEFINE q == Shock_Clock(p, b)
           d == Dropped(p)
           z == [d EXCEPT !.tx = <<First(d)>>, !.phase = @ + 1]
           y == [d EXCEPT !.phase = -1]
<1>1. d.phase = At(c, j) /\ d.command = c
  BY DroppedDoes
<1>2. p.phase \in Int /\ p.phase > 101 /\ p.phase \notin At(66, 0)..At(66, 6)
  BY DEF At, Commands
<1>3. q = Config(d, b)
  BY <1>2, ShockClockIs
<1> HIDE DEF q, d
<1> DEFINE n == d.phase - At(d.command, 0)
<1>4. n = j
  BY <1>1 DEF At, Commands
<1>5. q = CASE n = 0 -> (IF b = 0 THEN z ELSE y)
            [] n > 0 /\ d.command = 77 -> Magic(d, b)
            [] n = 1 /\ d.command # 77 -> Second(d, b)
            [] n = 2 /\ d.command # 77 -> Lock(d, b)
  BY <1>3, Zenon DEF Config
<1> HIDE DEF n, z
<1>6. /\ j = 0 /\ b = 0 => q = z
      /\ j > 0 /\ c = 77 => q = Magic(d, b)
      /\ j = 1 /\ c # 77 => q = Second(d, b)
      /\ j = 2 /\ c # 77 => q = Lock(d, b)
  BY <1>1, <1>4, <1>5
<1>7. QED
  BY <1>6 DEF ConfigDoes, q, d, z

LEMMA ConfigFirst ==
  ASSUME NEW p, ShockIs(p), p.dtr, NEW c \in Commands \ {66}, ConfigAt(p, c, 2)
  PROVE  ConfigAt(Shock_Clock(p, 0), c, 3)
<1> DEFINE q == Shock_Clock(p, 0)
           d == Dropped(p)
<1>1. p.command = c /\ p.phase = At(c, 0)
  BY DEF ConfigAt
<1>2. ConfigDoes(q, d, c, 0, 0)
  <2>1. 0 \in 0..6
    OBVIOUS
  <2>2. QED
    BY <1>1, <2>1, ConfigIs
<1>3. d.command = c /\ d.phase = At(c, 0) /\ ShockIs(d)
  BY <1>1, DroppedDoes
<1> HIDE DEF q, d
<1>4. {"phase", "tx", "command"} \subseteq DOMAIN d
  BY <1>3, ShockDomain
<1> DEFINE w == First(d)
<1> HIDE DEF w
<1>5. q = [d EXCEPT !.tx = <<w>>, !.phase = @ + 1]
  BY <1>2 DEF ConfigDoes, w
<1>6. q.command = d.command /\ q.tx = <<w>> /\ q.phase = d.phase + 1
  BY <1>4, <1>5, Zenon
<1>7. q.phase = At(c, 1)
  BY <1>3, <1>6 DEF At, Commands
<1>8. Holds(q.tx, 1)
  BY <1>6, HoldsOne
<1>9. QED
  BY <1>3, <1>6, <1>7, <1>8 DEF ConfigAt, q

LEMMA ConfigMagic ==
  ASSUME NEW p, ShockIs(p), p.dtr, NEW n \in 3..8, ConfigAt(p, 77, n), NEW b
  PROVE  ConfigAt(Shock_Clock(p, b), 77, n + 1)
<1> DEFINE q == Shock_Clock(p, b)
           d == Dropped(p)
           j == n - 2
<1>1. p.command = 77 /\ p.phase = At(77, j) /\ Holds(p.tx, 1) /\ j \in 1..6
  BY DEF ConfigAt
<1>2. d.command = 77 /\ d.phase = At(77, j) /\ ShockIs(d) /\ d.tx = Sent(p.tx)
  BY <1>1, DroppedDoes
<1>3. ConfigDoes(q, d, 77, j, b)
  <2>1. 77 \in Commands \ {66} /\ j \in 0..6
    BY <1>1 DEF Commands
  <2> HIDE DEF j
  <2>2. QED
    BY <1>1, <2>1, ConfigIs
<1> HIDE DEF q, d
<1>4. {"phase", "tx", "command", "magic"} \subseteq DOMAIN d
  BY <1>2, ShockDomain
<1>5. d.phase - At(77, 0) = j
  BY <1>1, <1>2 DEF At
<1> HIDE DEF j
<1> DEFINE w == d.magic[j + 1]
<1>6. q = [d EXCEPT !.magic[j] = b, !.tx = IF j < 6 THEN <<w>> ELSE @, !.phase = IF j < 6 THEN @ + 1 ELSE -1]
  <2>1. q = Magic(d, b)
    BY <1>1, <1>3 DEF ConfigDoes, j
  <2>2. QED
    BY <1>5, <2>1 DEF Magic
<1> HIDE DEF w
<1>7. /\ q.command = d.command
      /\ j < 6 => q.tx = <<w>> /\ q.phase = d.phase + 1
      /\ ~(j < 6) => q.tx = d.tx /\ q.phase = -1
  BY <1>4, <1>6, Zenon
<1>8. Holds(d.tx, 0)
  <2>1. Holds(d.tx, OneLess(1))
    BY <1>1, <1>2, SentHolds
  <2>2. OneLess(1) = 0
    BY DEF OneLess
  <2>3. QED
    BY <2>1, <2>2
<1>9. CASE j < 6
  <2>1. q.command = 77 /\ q.phase = At(77, (n + 1) - 2) /\ n + 1 \in 4..8
    BY <1>1, <1>2, <1>7, <1>9 DEF At, j
  <2>2. Holds(q.tx, 1)
    BY <1>7, <1>9, HoldsOne
  <2>3. QED
    BY <2>1, <2>2 DEF ConfigAt, q
<1>10. CASE ~(j < 6)
  <2>1. n + 1 = 9 /\ q.phase = -1 /\ Holds(q.tx, 0)
    BY <1>1, <1>7, <1>8, <1>10 DEF j
  <2>2. QED
    BY <2>1 DEF ConfigAt, q
<1>11. QED
  BY <1>9, <1>10

LEMMA ConfigSecond ==
  ASSUME NEW p, ShockIs(p), p.dtr, NEW c \in Commands \ {66, 77}, ConfigAt(p, c, 3), NEW b
  PROVE  ConfigAt(Shock_Clock(p, b), c, 4)
<1> DEFINE q == Shock_Clock(p, b)
           d == Dropped(p)
<1>1. p.command = c /\ p.phase = At(c, 1)
  BY DEF ConfigAt
<1>2. d.command = c /\ d.phase = At(c, 1) /\ ShockIs(d)
  BY <1>1, DroppedDoes
<1>3. ConfigDoes(q, d, c, 1, b)
  <2>1. 1 \in 0..6
    OBVIOUS
  <2>2. QED
    BY <1>1, <2>1, ConfigIs
<1> HIDE DEF q, d
<1>4. {"phase", "tx", "command", "config", "analog"} \subseteq DOMAIN d
  BY <1>2, ShockDomain
<1>5. /\ q.tx = Five(d, b) /\ q.command = d.command
      /\ q.phase = IF d.command = 68 THEN d.phase + 1 ELSE -1
  <2>1. q = Second(d, b)
    BY <1>3 DEF ConfigDoes
  <2>2. QED
    BY <1>4, <2>1, Zenon DEF Second
<1>6. Holds(q.tx, Rest(3, 4))
  <2>1. Rest(3, 4) = 5
    BY DEF Rest
  <2>2. QED
    BY <1>5, <2>1, FiveHold
<1>7. q.phase = -1 \/ (q.command = 68 /\ q.phase = At(68, 2))
  BY <1>2, <1>5 DEF At
<1>8. QED
  BY <1>6, <1>7 DEF ConfigAt, q

LEMMA ConfigEnds ==
  ASSUME NEW p, ShockIs(p), p.dtr, NEW c \in Commands \ {66}, NEW n \in Nat,
         n > 3, c = 77 => n > 8, ConfigAt(p, c, n), NEW b
  PROVE  ConfigAt(Shock_Clock(p, b), c, n + 1)
<1> DEFINE q == Shock_Clock(p, b)
           d == Dropped(p)
<1>1. ShockIs(d) /\ d.tx = Sent(p.tx) /\ d.phase = p.phase /\ (p.phase = -1 => q = d)
  BY ShockClockIs, DroppedDoes
<1>2. CASE p.phase = At(68, 2) /\ p.command = 68 /\ c # 77
  <2>1. q = Lock(d, b)
    <3>1. 68 \in Commands \ {66} /\ 2 \in 0..6
      BY DEF Commands
    <3>2. ConfigDoes(q, d, 68, 2, b)
      BY <1>2, <3>1, ConfigIs
    <3> HIDE DEF q, d
    <3>3. QED
      BY <3>2 DEF ConfigDoes
  <2> HIDE DEF q, d
  <2>2. {"phase", "tx"} \subseteq DOMAIN d
    BY <1>1, ShockDomain
  <2>3. q.phase = -1 /\ q.tx = d.tx
    BY <2>1, <2>2, Zenon DEF Lock
  <2>4. Holds(q.tx, Rest(3, n + 1))
    BY <1>1, <1>2, <2>3, SentHolds, RestGoesOn DEF ConfigAt
  <2>5. QED
    BY <1>2, <2>3, <2>4 DEF ConfigAt, q
<1>3. CASE p.phase = -1
  <2> HIDE DEF d
  <2>1. q = d /\ q.phase = -1
    BY <1>1, <1>3
  <2> HIDE DEF q
  <2>2. CASE c = 77
    <3>1. Holds(q.tx, OneLess(0)) /\ OneLess(0) = 0
      BY <1>1, <2>1, <2>2, SentHolds DEF ConfigAt, OneLess
    <3>2. QED
      BY <2>1, <2>2, <3>1 DEF ConfigAt, q
  <2>3. CASE c # 77
    <3>1. Holds(q.tx, Rest(3, n + 1))
      BY <1>1, <2>1, <2>3, SentHolds, RestGoesOn DEF ConfigAt
    <3>2. QED
      BY <2>1, <2>3, <3>1 DEF ConfigAt, q
  <2>4. QED
    BY <2>2, <2>3
<1>4. QED
  BY <1>2, <1>3 DEF ConfigAt

LEMMA ConfigGoesOn ==
  ASSUME NEW p, ShockIs(p), p.dtr, NEW c \in Commands \ {66}, NEW n \in Nat, n > 1,
         ConfigAt(p, c, n), NEW b, n = 2 => b = 0
  PROVE  ConfigAt(Shock_Clock(p, b), c, n + 1)
<1>1. CASE n = 2
  BY <1>1, ConfigFirst
<1>2. CASE c = 77 /\ n \in 3..8
  BY <1>2, ConfigMagic
<1>3. CASE n = 3 /\ c # 77
  BY <1>3, ConfigSecond
<1>4. CASE n > 3 /\ (c = 77 => n > 8)
  BY <1>4, ConfigEnds
<1>5. QED
  BY <1>1, <1>2, <1>3, <1>4


(* Where n bytes of a transfer have brought a pad that has identified itself as i.  *)
PolledAt(p, i, n) ==
    /\ i = IdOf(p)
    /\ n = 2 => Polls(p)
    /\ n > 2 => InPoll(p, Rest(Pairs(i), n))

ShockAnswers(p, s, i, n) ==
    /\ i \in {65, 115, 243}
    /\ i # 243 /\ s[2] = 66 => PolledAt(p, i, n)
    /\ i # 243 /\ s[2] = 67 => MayConfigure(p, Rest(Pairs(i), n))
    /\ i = 243 /\ s[2] \in Commands /\ (n > 2 => s[3] = 0) =>
         IF s[2] = 66 THEN PolledAt(p, i, n) ELSE ConfigAt(p, s[2], n)

PlainAnswers(p, s, i, n) ==
    /\ i = Id(p.kind)
    /\ s[2] = 66 => InAnswer(p, Rest(Pairs(i), n))

Answers(p, s, i, n) == IF IsShock(p) THEN ShockAnswers(p, s, i, n) ELSE PlainAnswers(p, s, i, n)

PadAt(p, s, h, n) ==
    /\ n = 0 => FreshPad(p)
    /\ n > 0 /\ s[1] # 1 => QuietPad(p)
    /\ n = 1 /\ s[1] = 1 => \E i : Named(p, i) /\ p.tx = <<i>>
    /\ n > 1 /\ s[1] = 1 => Answers(p, s, h[2], n)

LEMMA SameModes ==
  ASSUME NEW p, NEW q, ModesOf(q) = ModesOf(p)
  PROVE  IdOf(q) = IdOf(p)
BY DEF ModesOf, IdOf

LEMMA PolledOn ==
  ASSUME NEW p, ShockIs(p), p.dtr, NEW i \in {65, 115, 243}, NEW n \in Nat, n > 1, PolledAt(p, i, n), NEW b
  PROVE  PolledAt(Shock_Clock(p, b), i, n + 1)
<1> DEFINE q == Shock_Clock(p, b)
           k == Rest(Pairs(i), n)
<1>1. Pairs(i) \in Nat /\ i = IdOf(p)
  BY DEF Pairs, PolledAt
<1>2. CASE n = 2
  <2>1. InPoll(q, 2 * Pairs(IdOf(p))) /\ ModesOf(q) = ModesOf(p)
    BY <1>2, ShockPolled DEF PolledAt
  <2>2. Rest(Pairs(i), n + 1) = 2 * Pairs(i)
    BY <1>1, <1>2 DEF Rest
  <2>3. QED
    BY <1>1, <1>2, <2>1, <2>2, SameModes DEF PolledAt
<1>3. CASE n > 2
  <2>1. InPoll(p, k)
    BY <1>3 DEF PolledAt
  <2>2. InPoll(q, OneLess(k)) /\ ModesOf(q) = ModesOf(p)
    BY <2>1, ShockInPoll
  <2>3. Rest(Pairs(i), n + 1) = OneLess(k)
    BY <1>1, RestGoesOn
  <2>4. QED
    BY <1>1, <1>3, <2>2, <2>3, SameModes DEF PolledAt
<1>4. QED
  BY <1>2, <1>3

\* What was said, with a byte more.
Longer(s, n, b, t) == /\ \A j \in 1..n : t[j] = s[j]
                      /\ t[n + 1] = b

LEMMA ShockBegins ==
  ASSUME NEW p, ShockIs(p), p.dtr, NEW i, Named(p, i), NEW b, NEW t, t[2] = b
  PROVE  ShockAnswers(Shock_Clock(p, b), t, i, 2)
<1> DEFINE q == Shock_Clock(p, b)
<1>1. i = IdOf(p) /\ p.phase = (IF p.config THEN 101 ELSE 1) /\ i \in {65, 115, 243} /\ (i = 243 <=> p.config)
  BY DEF Named, IdOf, ShockIs
<1>2. ASSUME i # 243, b = 66 PROVE PolledAt(q, i, 2)
  <2>1. Polls(q) /\ ModesOf(q) = ModesOf(p)
    BY <1>1, <1>2, ShockCommanded
  <2>2. QED
    BY <1>1, <2>1, SameModes DEF PolledAt
<1>3. ASSUME i # 243, b = 67 PROVE MayConfigure(q, Rest(Pairs(i), 2))
  <2>1. MayConfigure(q, 1 + 2 * Pairs(i))
    BY <1>1, <1>3, ShockCommanded
  <2>2. Rest(Pairs(i), 2) = 1 + 2 * Pairs(i)
    BY <1>1 DEF Rest, Pairs
  <2>3. QED
    BY <2>1, <2>2
<1>4. ASSUME i = 243, b \in Commands PROVE IF b = 66 THEN PolledAt(q, i, 2) ELSE ConfigAt(q, b, 2)
  <2>1. q.command = b /\ q.phase = At(b, 0) /\ Holds(q.tx, 1) /\ ModesOf(q) = ModesOf(p)
    BY <1>1, <1>4, ShockConfigured
  <2>2. CASE b = 66
    BY <1>1, <2>1, <2>2, SameModes DEF PolledAt, Polls
  <2>3. CASE b # 66
    BY <2>1, <2>3 DEF ConfigAt
  <2>4. QED
    BY <2>2, <2>3
<1>5. QED
  BY <1>1, <1>2, <1>3, <1>4 DEF ShockAnswers, q

LEMMA ShockAnswersOn ==
  ASSUME NEW p, ShockIs(p), p.dtr, NEW s, NEW i, NEW n \in Nat, n > 1, ShockAnswers(p, s, i, n),
         NEW b, NEW t, Longer(s, n, b, t)
  PROVE  ShockAnswers(Shock_Clock(p, b), t, i, n + 1)
<1> DEFINE q == Shock_Clock(p, b)
           k == Rest(Pairs(i), n)
<1>1. i \in {65, 115, 243} /\ t[2] = s[2]
  BY DEF ShockAnswers, Longer
<1>2. ASSUME i # 243, s[2] = 66 PROVE PolledAt(q, i, n + 1)
  BY <1>1, <1>2, PolledOn DEF ShockAnswers
<1>3. ASSUME i # 243, s[2] = 67 PROVE MayConfigure(q, Rest(Pairs(i), n + 1))
  <2>1. MayConfigure(p, k)
    BY <1>3 DEF ShockAnswers
  <2>2. MayConfigure(q, OneLess(k))
    BY <2>1, ShockMayEnter
  <2>3. Pairs(i) \in Nat
    BY <1>1 DEF Pairs
  <2>4. Rest(Pairs(i), n + 1) = OneLess(k)
    BY <2>3, RestGoesOn
  <2>5. QED
    BY <2>2, <2>4
<1>4. ASSUME i = 243, s[2] \in Commands, t[3] = 0
      PROVE  IF s[2] = 66 THEN PolledAt(q, i, n + 1) ELSE ConfigAt(q, s[2], n + 1)
  <2>1. (n > 2 => s[3] = 0) /\ (n = 2 => b = 0)
    BY <1>4 DEF Longer
  <2>2. IF s[2] = 66 THEN PolledAt(p, i, n) ELSE ConfigAt(p, s[2], n)
    BY <1>4, <2>1 DEF ShockAnswers
  <2>3. CASE s[2] = 66
    BY <1>1, <2>2, <2>3, PolledOn
  <2>4. CASE s[2] # 66
    <3>1. ConfigAt(p, s[2], n) /\ s[2] \in Commands \ {66}
      BY <1>4, <2>2, <2>4
    <3>2. ConfigAt(q, s[2], n + 1)
      BY <2>1, <3>1, ConfigGoesOn
    <3>3. QED
      BY <2>4, <3>2
  <2>5. QED
    BY <2>3, <2>4
<1>5. QED
  BY <1>1, <1>2, <1>3, <1>4 DEF ShockAnswers, q

LEMMA IdIs ==
  ASSUME NEW p, PlainIs(p), p.kind # "none"
  PROVE  Id(p.kind) \in {18, 35, 49, 65, 83, 99, 115}
<1>1. p.kind \in Polled \ {"none"}
  BY DEF PlainIs, PadIsWell, IsShock, Kinds
<1>2. QED
  BY <1>1 DEF Id, Polled, Mice, Guns

LEMMA PlainAnswersOn ==
  ASSUME NEW p, PlainIs(p), p.dtr, NEW n \in Nat, NEW b, NEW s, NEW t, Longer(s, n, b, t), NEW i
  PROVE  LET q == Pad_Clock(p, b) IN
         /\ n = 1 /\ Named(p, i) => PlainAnswers(q, t, i, 2)
         /\ n > 1 /\ PlainAnswers(p, s, i, n) => PlainAnswers(q, t, i, n + 1)
<1> DEFINE q == Pad_Clock(p, b)
           k == Rest(Pairs(i), n)
<1>1. PadIsWell(p) /\ p.kind # "none" /\ ~IsShock(p) /\ Id(p.kind) \in {18, 35, 49, 65, 83, 99, 115}
  BY IdIs DEF PlainIs, PadIsWell
<1>2. q.kind = p.kind
  BY PlainClock DEF ClockedPad, Goes
<1>3. /\ p.phase = 1 /\ b = 66 => InAnswer(q, 1 + 2 * Pairs(Id(p.kind)))
      /\ InAnswer(p, k) => InAnswer(q, OneLess(k))
  BY PlainTalks
<1> HIDE DEF q
<1>4. ASSUME n = 1, Named(p, i) PROVE PlainAnswers(q, t, i, 2)
  <2>1. i = Id(p.kind) /\ p.phase = 1 /\ t[2] = b
    BY <1>1, <1>4 DEF Named, Longer
  <2>2. Rest(Pairs(i), 2) = 1 + 2 * Pairs(i)
    BY <1>1, <2>1 DEF Rest, Pairs
  <2>3. QED
    BY <1>2, <1>3, <2>1, <2>2 DEF PlainAnswers
<1>5. ASSUME n > 1, PlainAnswers(p, s, i, n) PROVE PlainAnswers(q, t, i, n + 1)
  <2>1. i = Id(p.kind) /\ t[2] = s[2] /\ (s[2] = 66 => InAnswer(p, k))
    BY <1>5 DEF PlainAnswers, Longer
  <2>2. Pairs(i) \in Nat
    BY <1>1, <2>1 DEF Pairs
  <2>3. Rest(Pairs(i), n + 1) = OneLess(k)
    BY <1>5, <2>2, RestGoesOn
  <2>4. QED
    BY <1>2, <1>3, <2>1, <2>3 DEF PlainAnswers
<1>6. QED
  BY <1>4, <1>5 DEF q

LEMMA NamedFirst ==
  ASSUME NEW p, PadIsWell(p), p.dtr, FreshPad(p)
  PROVE  LET q == Dev_Clock(p, 1) IN \E i : Named(q, i) /\ q.tx = <<i>>
<1> DEFINE q == Dev_Clock(p, 1)
<1>1. CASE IsShock(p)
  <2>1. q = Shock_Clock(p, 1) /\ ShockIs(p) /\ p.phase = 0
    BY <1>1 DEF Dev_Clock, ShockIs, FreshPad
  <2>2. Named(q, IdOf(q)) /\ q.tx = <<IdOf(q)>>
    BY <2>1, ShockNamed
  <2>3. QED
    BY <2>2
<1>2. CASE ~IsShock(p)
  <2>1. q = Pad_Clock(p, 1) /\ PlainIs(p) /\ p.phase = 0 /\ p.kind # "none"
    BY <1>2 DEF Dev_Clock, PlainIs, PadIsWell, FreshPad
  <2>2. q.phase = 1 /\ q.tx = <<Id(p.kind)>>
    BY <2>1, PlainTalks
  <2>3. q.kind = p.kind
    BY <2>1, PlainClock DEF ClockedPad, Goes
  <2> HIDE DEF q
  <2>4. Named(q, Id(p.kind))
    BY <1>2, <2>2, <2>3 DEF Named, IsShock
  <2>5. QED
    BY <2>2, <2>4 DEF q
<1>3. QED
  BY <1>1, <1>2

LEMMA PadTalksOn ==
  ASSUME NEW p, PadIsWell(p), p.dtr, NEW n \in Nat, NEW s, NEW h, PadAt(p, s, h, n),
         NEW b, NEW t, Longer(s, n, b, t), NEW g,
         n = 1 /\ s[1] = 1 => g[2] = Dev_Sends(p), n > 1 => g[2] = h[2]
  PROVE  PadAt(Dev_Clock(p, b), t, g, n + 1)
<1> DEFINE q == Dev_Clock(p, b)
<1>1. ClockedPad(p, q, b) /\ Goes(p, q)
  BY PadClocked DEF ClockedPad
<1>2. IsShock(q) <=> IsShock(p)
  BY <1>1 DEF Goes, IsShock
<1>3. CASE n = 0
  <2>1. FreshPad(p) /\ t[1] = b
    BY <1>3 DEF PadAt, Longer
  <2>2. b # 1 => QuietPad(q)
    BY <1>1, <2>1 DEF ClockedPad
  <2>3. b = 1 => \E i : Named(q, i) /\ q.tx = <<i>>
    BY <2>1, NamedFirst
  <2> HIDE DEF q
  <2>4. QED
    BY <1>3, <2>1, <2>2, <2>3 DEF PadAt, q
<1>4. CASE n > 0 /\ s[1] # 1
  <2>1. QuietPad(q) /\ t[1] = s[1]
    BY <1>1, <1>4 DEF ClockedPad, PadAt, Longer
  <2> HIDE DEF q
  <2>2. QED
    BY <1>4, <2>1 DEF PadAt, q
<1>5. ASSUME n > 0, s[1] = 1, NEW i, IF n = 1 THEN Named(p, i) ELSE Answers(p, s, i, n)
      PROVE  Answers(q, t, i, n + 1)
  <2>1. CASE IsShock(p)
    <3>1. q = Shock_Clock(p, b) /\ ShockIs(p)
      BY <2>1 DEF Dev_Clock, ShockIs
    <3>2. CASE n = 1
      <4>1. Named(p, i) /\ t[2] = b /\ n + 1 = 2
        BY <1>5, <3>2 DEF Longer
      <4>2. ShockAnswers(q, t, i, n + 1)
        BY <3>1, <4>1, ShockBegins
      <4>3. QED
        BY <1>2, <2>1, <4>2 DEF Answers
    <3>3. CASE n > 1
      <4>1. ShockAnswers(p, s, i, n)
        BY <1>5, <2>1, <3>3 DEF Answers
      <4>2. ShockAnswers(q, t, i, n + 1)
        BY <3>1, <3>3, <4>1, ShockAnswersOn
      <4>3. QED
        BY <1>2, <2>1, <4>2 DEF Answers
    <3>4. QED
      BY <1>5, <3>2, <3>3
  <2>2. CASE ~IsShock(p)
    <3>1. q = Pad_Clock(p, b) /\ PlainIs(p)
      BY <2>2 DEF Dev_Clock, PlainIs
    <3>2. /\ n = 1 /\ Named(p, i) => PlainAnswers(q, t, i, 2)
          /\ n > 1 /\ PlainAnswers(p, s, i, n) => PlainAnswers(q, t, i, n + 1)
      BY <3>1, PlainAnswersOn
    <3> HIDE DEF q
    <3>3. PlainAnswers(q, t, i, n + 1)
      BY <1>5, <2>2, <3>2 DEF Answers
    <3>4. QED
      BY <1>2, <2>2, <3>3 DEF Answers
  <2>3. QED
    BY <2>1, <2>2
<1>6. CASE n = 1 /\ s[1] = 1
  <2>1. PICK i : Named(p, i) /\ p.tx = <<i>>
    BY <1>6 DEF PadAt
  <2>2. g[2] = i
    BY <1>6, <2>1 DEF Dev_Sends
  <2>3. Answers(q, t, i, n + 1) /\ t[1] = s[1]
    BY <1>5, <1>6, <2>1 DEF Longer
  <2> HIDE DEF q
  <2>4. QED
    BY <1>6, <2>2, <2>3 DEF PadAt, q
<1>7. CASE n > 1 /\ s[1] = 1
  <2>1. Answers(q, t, h[2], n + 1) /\ t[1] = s[1] /\ g[2] = h[2]
    BY <1>5, <1>7 DEF PadAt, Longer
  <2> HIDE DEF q
  <2>2. QED
    BY <1>7, <2>1 DEF PadAt, q
<1>8. QED
  BY <1>3, <1>4, <1>6, <1>7


-----------------------------------------------------------------------------
(* A pad has something to send as long as its identification promises.          *)
Fits(p, i, n) == p.tx # << >> <=> n <= 2 + 2 * Pairs(i)

LEMMA HeldFits ==
  ASSUME NEW p, NEW i, Pairs(i) \in Nat, NEW n \in Nat, n > 1, Holds(p.tx, Rest(Pairs(i), n))
  PROVE  Fits(p, i, n)
<1>1. p.tx # << >> <=> Rest(Pairs(i), n) > 0
  BY HoldsMany
<1>2. Rest(Pairs(i), n) > 0 <=> n <= 2 + 2 * Pairs(i)
  BY RestGoesOn
<1>3. QED
  BY <1>1, <1>2 DEF Fits

LEMMA OneFits ==
  ASSUME NEW p, NEW i, Pairs(i) \in Nat, NEW n \in Nat, n <= 2 + 2 * Pairs(i), Holds(p.tx, 1)
  PROVE  Fits(p, i, n)
<1>1. p.tx # << >>
  BY HoldsMany
<1>2. QED
  BY <1>1 DEF Fits

LEMMA PolledFits ==
  ASSUME NEW p, ~LongAnswer(p), NEW i \in {65, 115, 243}, NEW n \in Nat, n > 1, PolledAt(p, i, n)
  PROVE  Fits(p, i, n)
<1>1. Pairs(i) \in Nat
  BY DEF Pairs
<1>2. CASE n = 2
  <2>1. Holds(p.tx, 1) /\ n <= 2 + 2 * Pairs(i)
    BY <1>1, <1>2 DEF PolledAt, Polls
  <2>2. QED
    BY <1>1, <2>1, OneFits
<1>3. CASE n > 2
  <2>1. Holds(p.tx, Rest(Pairs(i), n))
    BY <1>3 DEF PolledAt, InPoll
  <2>2. QED
    BY <1>1, <2>1, HeldFits
<1>4. QED
  BY <1>2, <1>3

LEMMA ConfigFits ==
  ASSUME NEW p, NEW c, NEW n \in Nat, n > 1, ConfigAt(p, c, n)
  PROVE  Fits(p, 243, n)
<1>1. Pairs(243) = 3
  BY DEF Pairs
<1>2. CASE n \in {2, 3} \/ (c = 77 /\ n \in 4..8)
  <2>1. Holds(p.tx, 1) /\ n <= 2 + 2 * Pairs(243)
    BY <1>1, <1>2 DEF ConfigAt
  <2>2. QED
    BY <1>1, <2>1, OneFits
<1>3. CASE c = 77 /\ n > 8
  <2>1. Holds(p.tx, 0)
    BY <1>3 DEF ConfigAt
  <2>2. p.tx = << >>
    BY <2>1, HoldsMany
  <2>3. QED
    BY <1>1, <1>3, <2>2 DEF Fits
<1>4. CASE c # 77 /\ n > 3
  <2>1. Holds(p.tx, Rest(Pairs(243), n))
    BY <1>1, <1>4 DEF ConfigAt
  <2>2. QED
    BY <1>1, <2>1, HeldFits
<1>5. QED
  BY <1>2, <1>3, <1>4

\* The command is one that the pad answers in its mode.
Answered(p, s, i, n) ==
    /\ i = 243 => s[2] \in Commands /\ (n > 2 => s[3] = 0)
    /\ i # 243 => s[2] = 66 \/ (IsShock(p) /\ s[2] = 67)

LEMMA AnswersFit ==
  ASSUME NEW p, PadIsWell(p), p.kind # "none", ~LongAnswer(p), NEW s, NEW i, NEW n \in Nat, n > 1,
         Answers(p, s, i, n), Answered(p, s, i, n)
  PROVE  Fits(p, i, n)
<1>1. CASE IsShock(p)
  <2>1. ShockAnswers(p, s, i, n)
    BY <1>1 DEF Answers
  <2>2. i \in {65, 115, 243} /\ Pairs(i) \in Nat
    BY <2>1 DEF ShockAnswers, Pairs
  <2>3. CASE i # 243 /\ s[2] = 67
    <3>1. Holds(p.tx, Rest(Pairs(i), n))
      BY <2>1, <2>3 DEF ShockAnswers, MayConfigure
    <3>2. QED
      BY <2>2, <3>1, HeldFits
  <2>4. CASE i # 243 /\ s[2] = 66
    <3>1. PolledAt(p, i, n)
      BY <2>1, <2>4 DEF ShockAnswers
    <3>2. QED
      BY <2>2, <3>1, PolledFits
  <2>5. CASE i = 243
    <3>1. IF s[2] = 66 THEN PolledAt(p, i, n) ELSE ConfigAt(p, s[2], n)
      BY <2>1, <2>5 DEF ShockAnswers, Answered
    <3>2. CASE s[2] = 66
      BY <2>2, <3>1, <3>2, PolledFits
    <3>3. CASE s[2] # 66
      BY <2>5, <3>1, <3>3, ConfigFits
    <3>4. QED
      BY <3>2, <3>3
  <2>6. QED
    BY <2>3, <2>4, <2>5 DEF Answered
<1>2. CASE ~IsShock(p)
  <2>1. PlainIs(p) /\ PlainAnswers(p, s, i, n)
    BY <1>2 DEF Answers, PlainIs
  <2>2. i \in {18, 35, 49, 65, 83, 99, 115}
    BY <2>1, IdIs DEF PlainAnswers
  <2>3. Pairs(i) \in Nat /\ s[2] = 66
    BY <1>2, <2>2 DEF Pairs, Answered
  <2>4. Holds(p.tx, Rest(Pairs(i), n))
    BY <2>1, <2>3 DEF PlainAnswers, InAnswer
  <2>5. QED
    BY <2>3, <2>4, HeldFits
<1>3. QED
  BY <1>1, <1>2

-----------------------------------------------------------------------------
(* A selected pad that keeps what it has said and what it is about to say.       *)
Stays(p, q) ==
    /\ Keeps(p, q)
    /\ IsShock(p) /\ p.dtr => q.command = p.command /\ ModesOf(q) = ModesOf(p)

LEMMA SameStays ==
  ASSUME NEW p, PadIsWell(p)
  PROVE  Stays(p, p)
BY SamePad DEF Stays


LEMMA StaysAt ==
  ASSUME NEW p, PadIsWell(p), p.dtr, NEW q, Stays(p, q), NEW s, NEW h, NEW n, PadAt(p, s, h, n)
  PROVE  PadAt(q, s, h, n)
<1>1. q.kind = p.kind /\ q.phase = p.phase /\ q.tx = p.tx /\ (IsShock(q) <=> IsShock(p))
  BY DEF Stays, Keeps, Goes, IsShock
<1>2. (FreshPad(p) => FreshPad(q)) /\ (QuietPad(p) => QuietPad(q))
  BY <1>1 DEF FreshPad, QuietPad
<1>3. IsShock(p) => q.command = p.command /\ q.config = p.config /\ q.analog = p.analog /\ q.magic = p.magic
  BY DEF Stays, ModesOf
<1>4. IsShock(p) => IdOf(q) = IdOf(p) /\ (LongAnswer(q) <=> LongAnswer(p))
  BY <1>1, <1>3 DEF IdOf, LongAnswer
<1>5. \A i : Named(p, i) => Named(q, i)
  BY <1>1, <1>3, <1>4 DEF Named
<1>6. ASSUME NEW i, IsShock(p), ShockAnswers(p, s, i, n) PROVE ShockAnswers(q, s, i, n)
  <2>1. \A k : InPoll(p, k) => InPoll(q, k)
    BY <1>1, <1>4, <1>6 DEF InPoll
  <2>2. PolledAt(p, i, n) => PolledAt(q, i, n)
    BY <1>1, <1>4, <1>6, <2>1 DEF PolledAt, Polls
  <2>3. \A k : MayConfigure(p, k) => MayConfigure(q, k)
    BY <1>1 DEF MayConfigure
  <2>4. \A c : ConfigAt(p, c, n) => ConfigAt(q, c, n)
    BY <1>1, <1>3, <1>6, ZenonT(40) DEF ConfigAt
  <2>5. QED
    BY <1>6, <2>2, <2>3, <2>4 DEF ShockAnswers
<1>7. \A i : Answers(p, s, i, n) => Answers(q, s, i, n)
  BY <1>1, <1>6 DEF Answers, PlainAnswers, InAnswer
<1>8. QED
  BY <1>1, <1>2, <1>5, <1>7 DEF PadAt

LEMMA InputStays ==
  ASSUME NEW p, PadIsWell(p), NEW held, NEW move, NEW flag
  PROVE  Stays(p, UpdateInput(p, held, move, flag))
<1> DEFINE q == UpdateInput(p, held, move, flag)
<1>1. Keeps(p, q)
  BY UpdateInputKeeps
<1>2. ASSUME IsShock(p), p.dtr PROVE q.command = p.command /\ ModesOf(q) = ModesOf(p)
  <2> DEFINE d == [p EXCEPT !.held = held, !.button = flag]
  <2>1. {"dtr", "command", "config", "analog", "magic"} \subseteq DOMAIN p
    BY <1>2, ShockDomain DEF ShockIs
  <2>2. d.dtr = p.dtr /\ d.command = p.command /\ ModesOf(d) = ModesOf(p)
    BY <2>1, Zenon DEF ModesOf
  <2>3. q = CheckMode(d)
    BY <1>2 DEF UpdateInput, Shock_UpdateInput
  <2> HIDE DEF d, q
  <2>4. q = d
    BY <1>2, <2>2, <2>3 DEF CheckMode
  <2>5. QED
    BY <2>2, <2>4
<1>3. QED
  BY <1>1, <1>2 DEF Stays

LEMMA BeamStays ==
  ASSUME NEW p, PadIsWell(p), p.kind \in Guns
  PROVE  Stays(p, Pad_SeesBeam(p))
<1>1. ~IsShock(p)
  BY DEF Guns, IsShock
<1>2. QED
  BY <1>1, SeesBeamKeeps DEF Stays

LEMMA FrameStays ==
  ASSUME NEW p, PadIsWell(p)
  PROVE  Stays(p, Dev_Frame(p))
<1>1. Keeps(p, Dev_Frame(p))
  BY FrameKeeps
<1>2. ASSUME IsShock(p) PROVE Dev_Frame(p).command = p.command /\ ModesOf(Dev_Frame(p)) = ModesOf(p)
  <2> DEFINE q == Shock_Frame(p)
  <2>1. {"command", "config", "analog", "magic"} \subseteq DOMAIN p
    BY <1>2, ShockDomain DEF ShockIs
  <2>2. q.command = p.command /\ ModesOf(q) = ModesOf(p)
    BY <2>1, Zenon DEF ModesOf, Shock_Frame
  <2>3. QED
    BY <1>2, <2>2 DEF Dev_Frame
<1>3. QED
  BY <1>1, <1>2 DEF Stays

LEMMA AgainStays ==
  ASSUME NEW p, PadIsWell(p), p.dtr
  PROVE  Stays(p, Dev_SetDTR(p, TRUE))
<1> DEFINE q == Dev_SetDTR(p, TRUE)
<1>1. p.dtr = TRUE /\ p.kind # "none"
  BY DEF PadIsWell
<1>2. Switched(p, q, TRUE)
  BY PadSwitched
<1>3. Keeps(p, q)
  BY <1>1, <1>2 DEF Switched, Keeps, Goes
<1>4. IsShock(p) => q = p
  BY <1>1 DEF Dev_SetDTR, Shock_SetDTR
<1>5. QED
  BY <1>3, <1>4 DEF Stays

-----------------------------------------------------------------------------
(* The port without a tap: what the pad is about to send, and that it is the pad's. *)
Talks(u, x, s, h, a, n) ==
    ~u.tap /\ u.pads[0] # "none" =>
      /\ Chosen(x) => /\ PadAt(x.pads[0], s, h, n)
                      /\ n > 0 /\ s[1] # 129 => ~x.cards[0].dtr \/ QuietCard(x.cards[0])
      /\ n > 0 => (a <=> Dev_Acks(x.pads[0]) \/ Card_Acks(x.cards[0]))

PortTalks ==
    /\ ~odd => Talks(setup, m, said, heard, acked, Len(said))
    /\ \A s \in saved : ~s.odd => Talks(setup, s.m, s.said, s.heard, s.acked, Len(s.said))

LEMMA NowTalks ==
  ASSUME PortTalks, setup' = setup, saved' = saved,
         ~odd' => Talks(setup, m', said', heard', acked', Len(said'))
  PROVE  PortTalks'
BY DEF PortTalks

LEMMA OffTalks ==
  ASSUME NEW u, NEW x, Off(x), NEW s, NEW h, NEW a
  PROVE  Talks(u, x, s, h, a, 0)
<1>1. ~Chosen(x)
  BY OffIs
<1>2. QED
  BY <1>1 DEF Talks

\* In a port that is selected its pad is.
LEMMA PadIsOn ==
  ASSUME NEW u, u.pads[0] # "none", NEW x, Wired(u, x), Even(u, x), Chosen(x)
  PROVE  0 \in Sub /\ PadIsWell(x.pads[0]) /\ x.pads[0].dtr /\ x.pads[0].kind = u.pads[0]
<1>1. 0 \in Sub
  BY SubPortsAssumption DEF Sub
<1>2. IsOn(x.pads[0])
  BY <1>1, Zenon DEF Even
<1>3. QED
  BY <1>1, <1>2 DEF IsOn, Wired

LEMMA SameTalks ==
  ASSUME NEW u, NEW x, Wired(u, x), Even(u, x), NEW y, SameOnWire(x, y), Stays(x.pads[0], y.pads[0]),
         NEW s, NEW h, NEW a, NEW n, Talks(u, x, s, h, a, n)
  PROVE  Talks(u, y, s, h, a, n)
<1> SUFFICES ASSUME ~u.tap, u.pads[0] # "none"
             PROVE  /\ Chosen(y) => /\ PadAt(y.pads[0], s, h, n)
                                    /\ n > 0 /\ s[1] # 129 => ~y.cards[0].dtr \/ QuietCard(y.cards[0])
                    /\ n > 0 => (a <=> Dev_Acks(y.pads[0]) \/ Card_Acks(y.cards[0]))
  BY DEF Talks
<1>1. 0 \in Sub
  BY SubPortsAssumption DEF Sub
<1>2. \A i \in Sub : /\ y.pads[i].dtr = x.pads[i].dtr /\ y.pads[i].tx = x.pads[i].tx
                     /\ y.cards[i].dtr = x.cards[i].dtr
                     /\ y.cards[i].phase = x.cards[i].phase /\ y.cards[i].sending = x.cards[i].sending
  BY DEF SameOnWire, Keeps, Goes, Alike
<1>3. Chosen(x) = Chosen(y)
  BY <1>2, Zenon DEF Chosen
<1>4. Chosen(x) => PadAt(y.pads[0], s, h, n)
  <2>1. Chosen(x) => PadAt(x.pads[0], s, h, n) /\ PadIsWell(x.pads[0]) /\ x.pads[0].dtr
    BY PadIsOn DEF Talks
  <2>2. QED
    BY <2>1, StaysAt
<1>5. QED
  BY <1>1, <1>2, <1>3, <1>4 DEF Talks, QuietCard, Dev_Acks, Card_Acks


\* A pad that has just been selected has nothing to say yet.
LEMMA FreshTalks ==
  ASSUME NEW u, NEW x, NEW h, NEW a, u.pads[0] # "none" => FreshPad(x.pads[0])
  PROVE  Talks(u, x, << >>, h, a, 0)
BY DEF Talks, PadAt

LEMMA SelectTalks ==
  ASSUME PortInv, PortFollows, PortTalks, NEW dtr \in BOOLEAN, SetDTR(dtr)
  PROVE  PortTalks'
<1>0. IsMachine(m) /\ setup \in Setups /\ Wired(setup, m) /\ setup.tap \in BOOLEAN
  BY PortAssumption DEF PortInv, PortFollows
<1>1. m' = Devices_SetDTR(m, dtr) /\ setup' = setup /\ saved' = saved
  BY DEF SetDTR, frontend
<1>2. DevicesSwitch(setup, m, m', dtr)
  BY <1>0, <1>1, DevicesSwitched
<1>3. /\ m'.tap = IF setup.tap THEN Tap_SetDTR(m.tap, dtr) ELSE m.tap
      /\ m'.pads = [s \in Sub |-> Dev_SetDTR(m.pads[s], dtr)]
  BY <1>0, <1>1, SelectMachine
<1>4. 0 \in Sub
  BY SubPortsAssumption DEF Sub
<1>5. Selected <=> Chosen(m)
  BY DEF Selected, Chosen
<1>6. ASSUME ~odd', ~setup.tap, setup.pads[0] # "none"
      PROVE  Talks(setup, m', said', heard', acked', Len(said'))
  <2>1. CASE dtr = Selected /\ dtr
    <3>1. said' = said /\ heard' = heard /\ acked' = acked /\ odd' = odd
      BY <2>1 DEF SetDTR
    <3>2. /\ Talks(setup, m, said, heard, acked, Len(said)) /\ Even(setup, m) /\ Chosen(m)
      BY <1>5, <1>6, <2>1, <3>1 DEF PortTalks, PortFollows, Follows
    <3>3. DevicesSwitch(setup, m, m', TRUE) /\ m'.tap = m.tap
      BY <1>2, <1>3, <1>6, <2>1
    <3>4. SameOnWire(m, m')
      BY <1>0, <3>2, <3>3, SelectedAgain
    <3>5. PadIsWell(m.pads[0]) /\ m.pads[0].dtr
      BY <1>0, <1>6, <3>2, PadIsOn
    <3>6. m'.pads[0] = Dev_SetDTR(m.pads[0], TRUE)
      BY <1>3, <1>4, <2>1
    <3>7. Stays(m.pads[0], m'.pads[0])
      BY <3>5, <3>6, AgainStays
    <3>8. QED
      BY <1>0, <3>1, <3>2, <3>4, <3>7, SameTalks
  <2>2. CASE dtr = Selected /\ ~dtr
    <3>1. said' = said /\ odd' = odd
      BY <2>2 DEF SetDTR
    <3>2. said = << >> /\ Len(said) = 0
      BY <1>5, <1>6, <2>2, <3>1, EmptySequence DEF PortFollows, Follows
    <3>3. Off(m')
      BY <1>0, <1>2, <2>2, DeselectedOff
    <3>4. Talks(setup, m', said', heard', acked', 0)
      BY <3>3, OffTalks
    <3>5. QED
      BY <3>1, <3>2, <3>4
  <2>3. CASE dtr # Selected
    <3>1. said' = << >> /\ Len(said') = 0
      BY <2>3, EmptySequence DEF SetDTR
    <3>2. CASE ~dtr
      <4>1. Off(m')
        BY <1>0, <1>2, <3>2, DeselectedOff
      <4>2. Talks(setup, m', said', heard', acked', 0)
        BY <4>1, OffTalks
      <4>3. QED
        BY <3>1, <4>2
    <3>3. CASE dtr
      <4>1. Off(m)
        BY <1>5, <2>3, <3>3, OffIs
      <4>2. Switched(m.pads[0], m'.pads[0], TRUE) /\ ~m.pads[0].dtr /\ m.pads[0].kind = setup.pads[0]
        BY <1>0, <1>2, <1>4, <3>3, <4>1 DEF DevicesSwitch, Off, Wired
      <4>3. FreshPad(m'.pads[0])
        BY <1>6, <4>2 DEF Switched
      <4>4. Talks(setup, m', << >>, heard', acked', 0)
        BY <4>3, FreshTalks
      <4>5. QED
        BY <3>1, <4>4
    <3>4. QED
      BY <3>2, <3>3
  <2>4. QED
    BY <2>1, <2>2, <2>3
<1>7. ~odd' => Talks(setup, m', said', heard', acked', Len(said'))
  BY <1>6 DEF Talks
<1>8. QED
  BY <1>1, <1>7, NowTalks

LEMMA CardKeepsQuiet ==
  ASSUME NEW c \in WellCards, NEW b \in Byte, ~c.dtr \/ QuietCard(c) \/ (FreshCard(c) /\ b # 129)
  PROVE  LET d == Card_Clock(c, b) IN ~d.dtr \/ QuietCard(d)
<1>1. Card_Clock(c, b).dtr = c.dtr
  BY ClockStays
<1>2. QED
  BY <1>1, QuietCardStays, NotTheCard

LEMMA ExchangeTalks ==
  ASSUME PortInv, PortFollows, PortTalks, NEW b \in Byte, Exchange(b)
  PROVE  PortTalks'
<1>1. /\ IsMachine(m) /\ Wired(setup, m) /\ setup.tap \in BOOLEAN
  BY PortAssumption DEF PortInv, PortFollows
<1>2. odd' = odd /\ setup' = setup /\ saved' = saved /\ said' = Append(said, b) /\ Chosen(m)
  BY DEF Exchange, frontend, Selected, Chosen
<1>3. ASSUME ~odd, ~setup.tap, setup.pads[0] # "none"
      PROVE  Talks(setup, m', said', heard', acked', Len(said'))
  <2> DEFINE n == Len(said)
             p == m.pads[0]
             c == m.cards[0]
             v == Together(Dev_Sends(p), Card_Sends(c))
  <2>1. /\ m' = DirectClock(b) /\ heard' = Append(heard, v)
        /\ acked' = (Dev_Acks(m'.pads[0]) \/ Card_Acks(m'.cards[0]))
    BY <1>3 DEF Exchange, Card0
  <2>2. m'.pads[0] = Dev_Clock(p, b) /\ m'.cards[0] = Card_Clock(c, b)
    BY <1>1, <2>1, DirectDevices DEF Wired
  <2>3. Follows(setup, m, said, heard, n) /\ Talks(setup, m, said, heard, acked, n)
    BY <1>3 DEF PortFollows, PortTalks
  <2>4. 0 \in Sub /\ PadIsWell(p) /\ p.dtr /\ c \in WellCards
    BY <1>1, <1>2, <1>3, <2>3, PadIsOn, CardsAreTyped DEF Follows
  <2>5. PadAt(p, said, heard, n) /\ (n > 0 /\ said[1] # 129 => ~c.dtr \/ QuietCard(c))
    BY <1>2, <1>3, <2>3 DEF Talks
  <2>6. /\ said \in Seq(Byte) /\ n \in Nat /\ IsSequence(heard, n)
    BY <2>3, LenProperties DEF Follows
  <2>7. /\ Grows(said, n, b, said') /\ (said = << >> <=> n = 0)
    BY <1>2, <2>6, Said
  <2>8. Longer(said, n, b, said') /\ Len(said') = n + 1
    BY <2>7 DEF Grows, Longer
  <2>9. OneMore(heard, n, v, heard')
    BY <2>1, <2>6, Appended
  <2>10. n = 0 => (c.dtr => FreshCard(c))
    <3>1. Apart(setup, m, said)
      BY <1>2, <2>3 DEF Follows
    <3>2. (setup.tap \/ 0 = 0) = TRUE
      OBVIOUS
    <3>3. Placed(p, c, said, TRUE)
      BY <2>4, <3>1, <3>2, Zenon DEF Apart
    <3>4. QED
      BY <2>7, <3>3 DEF Placed
  <2>11. n = 1 /\ said[1] = 1 => heard'[2] = Dev_Sends(p)
    <3> SUFFICES ASSUME n = 1, said[1] = 1 PROVE heard'[2] = Dev_Sends(p)
      OBVIOUS
    <3>1. Card_Sends(c) = 255
      BY <2>5 DEF QuietCard, Card_Sends
    <3>2. v = Dev_Sends(p)
      BY <3>1 DEF Together
    <3>3. heard'[2] = v
      BY <2>9 DEF OneMore
    <3>4. QED
      BY <3>2, <3>3
  <2>12. n > 1 => heard'[2] = heard[2]
    BY <2>6, <2>9 DEF OneMore
  <2> HIDE DEF n, p, c, v
  <2>13. PadAt(m'.pads[0], said', heard', n + 1)
    BY <2>2, <2>4, <2>5, <2>6, <2>8, <2>11, <2>12, PadTalksOn
  <2>14. said'[1] # 129 => ~m'.cards[0].dtr \/ QuietCard(m'.cards[0])
    <3> SUFFICES ASSUME said'[1] # 129 PROVE ~m'.cards[0].dtr \/ QuietCard(m'.cards[0])
      OBVIOUS
    <3>1. ~c.dtr \/ QuietCard(c) \/ (FreshCard(c) /\ b # 129)
      <4>1. CASE n = 0
        BY <2>8, <2>10, <4>1 DEF Longer
      <4>2. CASE n > 0
        BY <2>5, <2>6, <2>8, <4>2 DEF Longer
      <4>3. QED
        BY <2>6, <4>1, <4>2
    <3>2. QED
      BY <2>2, <2>4, <3>1, CardKeepsQuiet
  <2>15. QED
    BY <2>1, <2>8, <2>13, <2>14 DEF Talks
<1>4. ~odd => Talks(setup, m', said', heard', acked', Len(said'))
  BY <1>1, <1>3 DEF Talks
<1>5. QED
  BY <1>2, <1>4, NowTalks

-----------------------------------------------------------------------------
(* The steps that the serial line does not tell.                              *)
LEMMA UnheardTalks ==
  ASSUME PortFollows, PortTalks, setup' = setup, saved' = saved, said' = said, heard' = heard,
         acked' = acked, odd' = odd, SameOnWire(m, m'), Stays(m.pads[0], m'.pads[0])
  PROVE  PortTalks'
<1>1. ASSUME ~odd' PROVE Talks(setup, m', said', heard', acked', Len(said'))
  <2>1. Talks(setup, m, said, heard, acked, Len(said)) /\ Wired(setup, m) /\ Even(setup, m)
    BY <1>1 DEF PortTalks, PortFollows, Follows
  <2>2. QED
    BY <2>1, SameTalks
<1>2. QED
  BY <1>1, NowTalks

\* New pads in their places.
LEMMA PadsStay ==
  ASSUME PortInv, NEW p, \A i \in Sub : Stays(m.pads[i], p[i]), m' = [m EXCEPT !.pads = p]
  PROVE  SameOnWire(m, m') /\ \A i \in Sub : Stays(m.pads[i], m'.pads[i])
<1>1. m'.tap = m.tap /\ m'.cards = m.cards /\ m'.pads = p
  BY PadsOnly DEF PortInv
<1>2. SameOnWire(m, m')
  BY <1>1 DEF SameOnWire, Alike, Stays
<1>3. QED
  BY <1>1, <1>2

LEMMA QuietStays ==
  ASSUME PortInv, PortFollows, BeginFrame \/ (\E s \in Sub : SeeBeam(s)) \/ EndFrame(Amounts)
  PROVE  SameOnWire(m, m') /\ \A i \in Sub : Stays(m.pads[i], m'.pads[i])
<1>0. m.pads = [i \in Sub |-> m.pads[i]] /\ \A i \in Sub : PadIsWell(m.pads[i]) /\ m.cards[i] \in WellCards
  BY CardsAreTyped DEF PortInv, PortFollows, Wired
<1>1. CASE BeginFrame
  <2>1. PICK in \in Inputs(setup) :
          m' = [m EXCEPT !.pads = [s \in Sub |-> UpdateInput(@[s], in.held[s], in.move, in.flag)]]
    BY <1>1 DEF BeginFrame
  <2> DEFINE p == [s \in Sub |-> UpdateInput(m.pads[s], in.held[s], in.move, in.flag)]
  <2>2. m' = [m EXCEPT !.pads = p]
    BY <2>1
  <2>3. \A i \in Sub : Stays(m.pads[i], p[i])
    BY <1>0, InputStays
  <2> HIDE DEF p
  <2>4. QED
    BY <2>2, <2>3, PadsStay
<1>2. ASSUME NEW s \in Sub, SeeBeam(s)
      PROVE  SameOnWire(m, m') /\ \A i \in Sub : Stays(m.pads[i], m'.pads[i])
  <2> DEFINE q == Pad_SeesBeam(m.pads[s])
             p == [m.pads EXCEPT ![s] = q]
  <2>1. m' = [m EXCEPT !.pads = p]
    BY <1>2 DEF SeeBeam
  <2>2. Stays(m.pads[s], q)
    BY <1>0, <1>2, BeamStays DEF SeeBeam
  <2> HIDE DEF q
  <2>3. \A i \in Sub : p[i] = IF i = s THEN q ELSE m.pads[i]
    BY <1>0
  <2> HIDE DEF p
  <2>4. ASSUME NEW i \in Sub PROVE Stays(m.pads[i], p[i])
    BY <1>0, <2>2, <2>3, SameStays
  <2>5. QED
    BY <2>1, <2>4, PadsStay
<1>3. CASE EndFrame(Amounts)
  <2>1. /\ m'.tap = m.tap /\ m'.pads = [s \in Sub |-> Dev_Frame(m.pads[s])]
        /\ m'.cards[0].data = m.cards[0].data
        /\ \A s \in Sub : m'.cards[s] = [m.cards[s] EXCEPT !.dirty = m'.cards[s].dirty]
    BY <1>3, EndFrameDoes DEF Card0
  <2>2. ASSUME NEW i \in Sub PROVE Stays(m.pads[i], m'.pads[i]) /\ Alike(m.cards[i], m'.cards[i])
    BY <1>0, <2>1, FrameStays, DirtyAlike
  <2>3. QED
    BY <2>1, <2>2 DEF SameOnWire, Stays
<1>4. QED
  BY <1>1, <1>2, <1>3

LEMMA QuietTalks ==
  ASSUME PortInv, PortFollows, PortTalks,
         BeginFrame \/ (\E s \in Sub : SeeBeam(s)) \/ EndFrame(Amounts)
  PROVE  PortTalks'
<1>1. SameOnWire(m, m') /\ \A i \in Sub : Stays(m.pads[i], m'.pads[i])
  BY QuietStays
<1>2. setup' = setup /\ saved' = saved /\ said' = said /\ heard' = heard /\ acked' = acked /\ odd' = odd
  BY DEF BeginFrame, SeeBeam, EndFrame, transfer, frontend
<1>3. 0 \in Sub
  BY SubPortsAssumption DEF Sub
<1>4. QED
  BY <1>1, <1>2, <1>3, UnheardTalks

\* A mode that is set while the pad is selected makes the transfer odd.
LEMMA ModeTalks ==
  ASSUME PortInv, PortFollows, PortTalks, NEW enabled, SetAMCT(enabled)
  PROVE  PortTalks'
<1> DEFINE p == [s \in Sub |-> IF IsShock(m.pads[s]) THEN Shock_SetAMCT(m.pads[s], enabled) ELSE m.pads[s]]
<1>1. m' = [m EXCEPT !.pads = p]
  BY DEF SetAMCT
<1>2. ASSUME NEW i \in Sub PROVE p[i].dtr = m.pads[i].dtr
  <2>1. PadIsWell(m.pads[i])
    BY DEF PortFollows, Wired
  <2>2. CASE IsShock(m.pads[i])
    <3>1. p[i] = Shock_SetAMCT(m.pads[i], enabled)
      BY <2>2
    <3>2. QED
      BY <2>1, <2>2, <3>1, SetAMCTKeeps DEF ShockIs, Keeps, Goes
  <2>3. CASE ~IsShock(m.pads[i])
    BY <2>3
  <2>4. QED
    BY <2>2, <2>3
<1>3. setup' = setup /\ saved' = saved /\ said' = said /\ odd' = (odd \/ Selected)
  BY DEF SetAMCT, frontend
<1> HIDE DEF p
<1>4. m'.pads = p /\ m'.cards = m.cards
  BY <1>1, PadsOnly DEF PortInv
<1>5. ASSUME ~odd' PROVE Talks(setup, m', said', heard', acked', Len(said'))
  <2>1. ~odd /\ ~Chosen(m)
    BY <1>3, <1>5 DEF Selected, Chosen
  <2>2. said' = << >> /\ Len(said') = 0
    BY <1>3, <2>1, EmptySequence DEF PortFollows, Follows
  <2>3. Off(m')
    BY <1>2, <1>4, <2>1, OffIs DEF Off
  <2>4. Talks(setup, m', said', heard', acked', 0)
    BY <2>3, OffTalks
  <2>5. QED
    BY <2>2, <2>4
<1>6. QED
  BY <1>3, <1>5, NowTalks

LEMMA SaveTalks ==
  ASSUME PortInv, PortFollows, PortTalks, SaveFails \/ SaveState \/ CloseGame(Amounts)
  PROVE  PortTalks'
<1>1. setup' = setup /\ m' = m /\ said' = said /\ heard' = heard /\ acked' = acked /\ odd' = odd
  BY DEF SaveFails, SaveState, CloseGame, transfer
<1>2. CASE saved' = saved
  BY <1>1, <1>2, NowTalks DEF PortTalks
<1>3. CASE SaveState
  <2> DEFINE w == [m |-> m, said |-> said, heard |-> heard, acked |-> acked, odd |-> odd, told |-> told]
  <2>1. saved' = {w} /\ w.m = m /\ w.said = said /\ w.heard = heard /\ w.acked = acked /\ w.odd = odd
    BY <1>3 DEF SaveState
  <2> HIDE DEF w
  <2>2. \A s \in saved' : s = w
    BY <2>1
  <2>3. ASSUME NEW s \in saved', ~s.odd
        PROVE  Talks(setup, s.m, s.said, s.heard, s.acked, Len(s.said))
    BY <2>1, <2>2, <2>3 DEF PortTalks
  <2>4. QED
    BY <1>1, <2>3 DEF PortTalks
<1>4. QED
  BY <1>2, <1>3 DEF SaveFails, CloseGame

LEMMA LoadTalks ==
  ASSUME PortInv, PortFollows, PortTalks, LoadState
  PROVE  PortTalks'
<1>1. PICK s \in saved :
        /\ m' = [tap   |-> s.m.tap,
                 pads  |-> [i \in Sub |-> Dev_Load(m.pads[i], s.m.pads[i])],
                 cards |-> [i \in Sub |-> Card_Load(m.cards[i], s.m.cards[i])]]
        /\ said' = s.said /\ heard' = s.heard /\ acked' = s.acked /\ setup' = setup /\ saved' = saved
        /\ odd' = (s.odd \/ m'.cards[0].data # s.m.cards[0].data \/ m'.pads # s.m.pads)
  BY DEF LoadState
<1> DEFINE x == s.m
<1>2. IsMachine(m) /\ IsMachine(x) /\ Wired(setup, x)
        /\ (~s.odd => Even(setup, x) /\ Talks(setup, x, s.said, s.heard, s.acked, Len(s.said)))
  BY DEF PortInv, PortFollows, PortTalks, Follows
<1> HIDE DEF x
<1>3. m'.tap = x.tap /\ m'.cards = [i \in Sub |-> Card_Load(m.cards[i], x.cards[i])]
  BY <1>1 DEF x
<1>4. \A i \in Sub : Alike(x.cards[i], m'.cards[i])
  BY <1>2, <1>3, LoadAlike, CardsAreTyped
<1>5. ASSUME ~odd' PROVE Talks(setup, m', said', heard', acked', Len(said'))
  <2>1. ~s.odd /\ m'.cards[0].data = x.cards[0].data /\ m'.pads = x.pads
    BY <1>1, <1>5 DEF x
  <2>2. \A i \in Sub : Stays(x.pads[i], m'.pads[i])
    BY <1>2, <2>1, SameStays DEF Wired
  <2>3. SameOnWire(x, m')
    BY <1>3, <1>4, <2>1, <2>2 DEF SameOnWire, Stays
  <2>4. 0 \in Sub
    BY SubPortsAssumption DEF Sub
  <2>5. Talks(setup, m', s.said, s.heard, s.acked, Len(s.said))
    BY <1>2, <2>1, <2>2, <2>3, <2>4, SameTalks
  <2>6. QED
    BY <1>1, <2>5
<1>6. QED
  BY <1>1, <1>5, NowTalks

LEMMA RestTalks ==
  ASSUME PortInv, PortFollows, PortTalks, Start \/ Reset
  PROVE  PortTalks'
<1>1. said' = << >> /\ Len(said') = 0 /\ setup' = setup
  BY EmptySequence DEF Start, Reset, frontend
<1>2. CASE Start
  <2>1. PICK dtr \in {FALSE, setup.tap} : m' = NewMachine(file, dtr)
    BY <1>2 DEF Start
  <2>2. setup \in Setups /\ IsFile(file) /\ dtr \in BOOLEAN
    BY PortAssumption DEF PortInv
  <2>3. Off(m') /\ saved' = {}
    BY <1>2, <2>1, <2>2, NewIsOff DEF Start
  <2>4. QED
    BY <1>1, <2>3, OffTalks DEF PortTalks
<1>3. CASE Reset
  <2>1. /\ m'.pads = [s \in Sub |-> Dev_Power(m.pads[s])]
        /\ m'.cards = [s \in Sub |-> Card_Power(m.cards[s])]
    BY <1>3, ResetDoes DEF PortInv
  <2>2. \A i \in Sub : m.cards[i] \in WellCards /\ PadIsWell(m.pads[i])
    BY CardsAreTyped DEF PortInv, PortFollows, Wired
  <2>3. ASSUME NEW i \in Sub PROVE ~m'.pads[i].dtr /\ ~m'.cards[i].dtr
    <3>1. Rests(m'.pads[i], m.pads[i].kind)
      BY <2>1, <2>2, PowerRests
    <3>2. m'.cards[i] = Card_Power(m.cards[i]) /\ m.cards[i] \in WellCards
      BY <2>1, <2>2
    <3>3. m'.cards[i].dtr = FALSE
      BY <3>2, PowerSteps
    <3>4. QED
      BY <3>1, <3>3 DEF Rests
  <2>4. Off(m') /\ saved' = saved
    BY <1>3, <2>3 DEF Off, Reset, frontend
  <2>5. QED
    BY <1>1, <2>4, OffTalks, NowTalks
<1>4. QED
  BY <1>2, <1>3

LEMMA OverhearTalks ==
  ASSUME PortInv, PortTalks, NEW b, Overhear(b)
  PROVE  PortTalks'
<1>1. setup.tap /\ setup' = setup /\ saved' = saved
  BY DEF Overhear, Deaf, frontend
<1>2. QED
  BY <1>1, NowTalks DEF Talks

LEMMA TalksInit == Port_Init => PortTalks
<1> SUFFICES ASSUME Port_Init PROVE PortTalks
  OBVIOUS
<1>1. PICK dtr \in {FALSE, setup.tap} : m = NewMachine(file, dtr)
  BY DEF Port_Init
<1>2. setup \in Setups /\ IsFile(file) /\ dtr \in BOOLEAN
  BY PortAssumption DEF Port_Init
<1>3. Off(m) /\ Len(said) = 0 /\ saved = {}
  BY <1>1, <1>2, NewIsOff, EmptySequence DEF Port_Init
<1>4. QED
  BY <1>3, OffTalks DEF PortTalks

LEMMA TalksStep == PortInv /\ PortFollows /\ PortTalks /\ [Port_Next]_portVars => PortTalks'
<1> SUFFICES ASSUME PortInv, PortFollows, PortTalks, [Port_Next]_portVars PROVE PortTalks'
  OBVIOUS
<1>1. ASSUME NEW dtr \in BOOLEAN, SetDTR(dtr) PROVE PortTalks'
  BY <1>1, SelectTalks
<1>2. ASSUME NEW b \in Sends(setup, said) \cap Byte, Exchange(b) PROVE PortTalks'
  BY <1>2, ExchangeTalks
<1>3. ASSUME NEW b \in {1, 66}, Overhear(b) PROVE PortTalks'
  BY <1>3, OverhearTalks
<1>4. CASE BeginFrame \/ (\E s \in Sub : SeeBeam(s)) \/ EndFrame(Amounts)
  BY <1>4, QuietTalks
<1>5. ASSUME NEW enabled \in BOOLEAN, SetAMCT(enabled) PROVE PortTalks'
  BY <1>5, ModeTalks
<1>6. CASE SaveFails \/ SaveState \/ CloseGame(Amounts)
  BY <1>6, SaveTalks
<1>7. CASE LoadState
  BY <1>7, LoadTalks
<1>8. CASE Start \/ Reset
  BY <1>8, RestTalks
<1>9. CASE UNCHANGED portVars
  BY <1>9 DEF portVars, PortTalks
<1>10. QED
  BY <1>1, <1>2, <1>3, <1>4, <1>5, <1>6, <1>7, <1>8, <1>9 DEF Port_Next

LEMMA TalksInvariance == Port_Spec => [](PortInv /\ PortFollows /\ PortTalks)
<1>1. Port_Init => PortTalks
  BY TalksInit
<1>2. (PortInv /\ PortFollows) /\ PortTalks /\ [Port_Next]_portVars => PortTalks'
  BY TalksStep
<1>3. QED
  BY <1>1, <1>2, FollowsInvariance, PTL DEF Port_Spec


(* A pad acknowledges as many bytes as its identification promises and not one
   more (InputDevice_Gamepad::Clock, InputDevice_DualShock::Clock and the other
   pads').                                                                    *)
THEOREM AcksDoMatch == Port_Spec => []AcksMatchId
<1>1. PortInv /\ PortFollows /\ PortTalks => AcksMatchId
  <2> DEFINE n == Len(said)
             p == m.pads[0]
             c == m.cards[0]
             i == heard[2]
  <2> SUFFICES ASSUME PortInv, PortFollows, PortTalks, ~setup.tap, setup.pads[0] # "none", ~odd,
                      n >= 2, said[1] = 1, said[2] \in Known(i), i = 243 /\ n >= 3 => said[3] = 0,
                      ~LongAnswer(p)
               PROVE  acked <=> n <= 2 + 2 * (i % 16)
    BY Zenon DEF AcksMatchId
  <2>1. Follows(setup, m, said, heard, n) /\ Talks(setup, m, said, heard, acked, n) /\ Wired(setup, m)
    BY DEF PortFollows, PortTalks
  <2>2. n \in Nat /\ n > 1
    BY <2>1 DEF Follows, IsSequence
  <2>3. Chosen(m)
    BY <2>1, <2>2, EmptySequence DEF Follows
  <2>4. PadIsWell(p) /\ p.dtr /\ p.kind # "none"
    BY <2>1, <2>3, PadIsOn DEF Follows
  <2>5. /\ PadAt(p, said, heard, n) /\ (~c.dtr \/ QuietCard(c))
        /\ acked <=> Dev_Acks(p) \/ Card_Acks(c)
    BY <2>1, <2>2, <2>3 DEF Talks
  <2> HIDE DEF n, p, c
  <2>6. Answers(p, said, i, n)
    BY <2>2, <2>5 DEF PadAt
  <2>7. Answered(p, said, i, n)
    BY <2>2 DEF Answered, Known, Commands, p
  <2>8. Fits(p, i, n)
    BY <2>2, <2>4, <2>6, <2>7, AnswersFit
  <2>9. acked <=> p.tx # << >>
    BY <2>4, <2>5 DEF Dev_Acks, Card_Acks, QuietCard
  <2>10. QED
    BY <2>8, <2>9 DEF Fits, Pairs, n
<1>2. QED
  BY <1>1, TalksInvariance, PTL
=============================================================================

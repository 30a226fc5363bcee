------------------------------ MODULE EventLoop ------------------------------
(***************************************************************************)
(* The scheduler of libretro.cpp: the CPU runs ahead until the earliest    *)
(* event of the other components; a doubly linked list keeps their events  *)
(* in order; components are brought up to date lazily, when their event is *)
(* due or when the CPU touches them.  What a component does in an update   *)
(* is left out, except the events it schedules, its own time stamp and the *)
(* end of the frame, which the GPU requests.                               *)
(***************************************************************************)
EXTENDS Integers, Sequences

CONSTANTS
  Delays,       \* how far ahead a component schedules its next event
  FrameLength,  \* bound: by then the GPU has asked for the end of the frame
  MaxStep,      \* bound: the most time one instruction takes
  CDCReadTime,  \* what a read of a CDC register costs (6 per byte in the code)
  PSX_EVENT_MAXTS

ASSUME TimesAssumption ==
  /\ PSX_EVENT_MAXTS \in Nat
  \* Every component returns a later time (0x10000000 later at most, of 0x20000000).
  /\ Delays # {} /\ Delays \subseteq 1 .. PSX_EVENT_MAXTS
  /\ FrameLength \in Nat \ {0} /\ MaxStep \in Nat \ {0} /\ CDCReadTime \in Nat \ {0}
  /\ FrameLength + MaxStep + CDCReadTime <= PSX_EVENT_MAXTS

Components == {"GPU", "CDC", "TIMER", "DMA", "FIO"}
SYNFIRST   == "SYNFIRST"
SYNLAST    == "SYNLAST"
Events     == Components \cup {SYNFIRST, SYNLAST}
Never      == 4 * PSX_EVENT_MAXTS - 1  \* 0x7FFFFFFF, SYNLAST's time

VARIABLES
  phase,       \* "cpu": in CPU->Run; "access": MemRW brings events up to date first;
               \* "handler": PSX_EventHandler after the instruction loop;
               \* "update", "rebase", "between": the end of the frame in retro_run
  timestamp,
  access,      \* the register access that waits for due events
  sys          \* events, next_event_ts (of the CPU), Running, and each component's lastts

loopVars == <<phase, timestamp, access, sys>>

------------------------------------------------------------------------------
(***************************************************************************)
(* The event list.                                                         *)
(***************************************************************************)
Order == <<SYNFIRST, "GPU", "CDC", "TIMER", "DMA", "FIO", SYNLAST>>

EventReset ==
  [e \in Events |->
     LET i == CHOOSE i \in DOMAIN Order : Order[i] = e
     IN [event_time |-> CASE e = SYNFIRST -> 0 [] e = SYNLAST -> Never [] OTHER -> PSX_EVENT_MAXTS,
         prev |-> IF i = 1 THEN "none" ELSE Order[i - 1],
         next |-> IF i = Len(Order) THEN "none" ELSE Order[i + 1]]]

Unlink(events, e) ==
  [events EXCEPT ![events[e].prev].next = events[e].next,
                 ![events[e].next].prev = events[e].prev]

LinkAfter(events, fe, e, time) ==
  LET next == events[fe].next
  IN [events EXCEPT ![e] = [event_time |-> time, prev |-> fe, next |-> next],
                    ![next].prev = e, ![fe].next = e]

\* The walks for the place of an event whose time moves: back to one that is not
\* later, or on to one that is not earlier.
WalkBack(events, from, time) ==
  LET walk[f \in Events] == IF time < events[f].event_time THEN walk[events[f].prev] ELSE f
  IN walk[from]
WalkOn(events, from, time) ==
  LET walk[f \in Events] == IF time > events[f].event_time THEN walk[events[f].next] ELSE f
  IN walk[from]

\* (Mutant: the event keeps its place in the list when it is put off.)
Relink_Earlier(events, e, time) ==
  LET rest == Unlink(events, e)
  IN IF time < events[e].event_time
       THEN LinkAfter(rest, WalkBack(events, events[e].prev, time), e, time)
       ELSE [events EXCEPT ![e].event_time = time]
Relink(events, e, time) ==
  LET rest == Unlink(events, e)
  IN CASE time < events[e].event_time ->
            LinkAfter(rest, WalkBack(events, events[e].prev, time), e, time)
       [] time > events[e].event_time ->
            LinkAfter(rest, rest[WalkOn(events, events[e].next, time)].prev, e, time)
       [] OTHER -> events

First(events) == events[SYNFIRST].next
NextTime(events) == events[First(events)].event_time

------------------------------------------------------------------------------
(***************************************************************************)
(* The system: each operator takes and returns a value of sys, or a set of *)
(* them where a component may act in several ways.                         *)
(***************************************************************************)
\* PSX_SetEventNT: "event_time & Running" keeps the CPU from running on after an exit.
\* (Mutant: without "& Running".)
PSX_SetEventNT_Runs(s, e, time) ==
  LET events == Relink(s.events, e, time)
  IN [s EXCEPT !.events = events, !.next_event_ts = NextTime(events)]
PSX_SetEventNT(s, e, time) ==
  LET events == Relink(s.events, e, time)
  IN [s EXCEPT !.events = events,
               !.next_event_ts = IF s.Running THEN NextTime(events) ELSE 0]

PSX_RequestMLExit(s) == [s EXCEPT !.Running = FALSE, !.next_event_ts = 0]

Touch(s, c, t) == [s EXCEPT !.lastts[c] = t]

\* Bring a component up to date and schedule what it returns.
UpdateTo(s, c, t) == {PSX_SetEventNT(Touch(s, c, t), c, t + d) : d \in Delays}

\* GPU->Update: at the end of a scanline it updates the timers, lets FrontIO look for
\* light guns, and may ask for the end of the frame.
GPU_Update(s, t) ==
  LET gpu       == Touch(s, "GPU", t)
      exit(r)   == {PSX_RequestMLExit(r)} \cup (IF t < FrameLength THEN {r} ELSE {})
      lineHook(r) == {r} \cup UpdateTo(r, "FIO", t)
      lineEnd   == UNION {UNION {UNION {UpdateTo(q, "TIMER", t)
                     : q \in lineHook(r)} : r \in exit(u)} : u \in UpdateTo(gpu, "TIMER", t)}
  IN IF t = s.lastts["GPU"] THEN {gpu}
     ELSE lineEnd \cup (IF t < FrameLength THEN {gpu} ELSE {})

\* Update of any component, without the event of its own; DMA runs the GPU first.
UpdateOf(s, c, t) ==
  CASE c = "GPU" -> GPU_Update(s, t)
    [] c = "DMA" -> GPU_Update(Touch(s, c, t), t)
    [] OTHER     -> {Touch(s, c, t)}

\* (Mutant: what it returns is not scheduled.)
UpdateAndSchedule_Forgotten(s, c, t) == UpdateOf(s, c, t)
UpdateAndSchedule(s, c, t) ==
  UNION {{PSX_SetEventNT(u, c, t + d) : d \in Delays} : u \in UpdateOf(s, c, t)}

\* ForceEventUpdates: all of them in this order, and the CPU goes on to the first event.
ForceEventUpdates(s, t) ==
  LET gpu   == UpdateAndSchedule(s, "GPU", t)
      cdc   == UNION {UpdateAndSchedule(u, "CDC", t) : u \in gpu}
      timer == UNION {UpdateAndSchedule(u, "TIMER", t) : u \in cdc}
      dma   == UNION {UpdateAndSchedule(u, "DMA", t) : u \in timer}
      fio   == UNION {UpdateAndSchedule(u, "FIO", t) : u \in dma}
  IN {[u EXCEPT !.next_event_ts = NextTime(u.events)] : u \in fio}

------------------------------------------------------------------------------
NoAccess == [dev |-> "none", write |-> FALSE]
Accesses == [dev : Components \ {"GPU"}, write : BOOLEAN]

Zero == [c \in Components |-> 0]

\* PSX_Power: the list is reset, everything is up to date at time 0.
Powered(running) ==
  ForceEventUpdates([events |-> EventReset, lastts |-> Zero,
                     Running |-> running, next_event_ts |-> 0], 0)

Loop_Init ==
  /\ phase = "between" /\ timestamp = 0 /\ access = NoAccess
  /\ sys \in Powered(FALSE)

\* retro_run: the CPU starts at time 0.
StartFrame ==
  /\ phase = "between" /\ phase' = "cpu"
  /\ sys' = [sys EXCEPT !.Running = TRUE]
  /\ UNCHANGED <<timestamp, access>>

\* Loading a state, between two frames, replaces what the components will do next.
StateAction ==
  /\ phase = "between"
  /\ sys' \in ForceEventUpdates(sys, 0)
  /\ UNCHANGED <<phase, timestamp, access>>

PSX_Power ==
  /\ phase = "between"
  /\ sys' \in Powered(sys.Running)
  /\ UNCHANGED <<phase, timestamp, access>>

\* An instruction that touches no component.
Instruction(d) ==
  /\ phase = "cpu" /\ timestamp < sys.next_event_ts
  /\ timestamp' = timestamp + d
  /\ UNCHANGED <<phase, access, sys>>

\* An instruction that accesses a register, d (fetch, DMA cycle steal) later.
StartAccess(a, d) ==
  /\ phase = "cpu" /\ timestamp < sys.next_event_ts
  /\ phase' = "access" /\ access' = a /\ timestamp' = timestamp + d
  /\ UNCHANGED sys

\* PSX_EventHandler: one turn of its loop, on the first event of the list.
HandleEvent ==
  /\ phase \in {"access", "handler"}
  /\ timestamp >= NextTime(sys.events)
  /\ LET e == First(sys.events)
     IN /\ e \in Components        \* or abort()
        /\ sys' \in UpdateAndSchedule(sys, e, sys.events[e].event_time)
  /\ UNCHANGED <<phase, timestamp, access>>

\* MemRW goes on to the register (mutant: without looking for due events).
UpToDate_Unchecked == TRUE
UpToDate           == timestamp < NextTime(sys.events)

ReadTime(dev) == IF dev = "CDC" THEN CDCReadTime ELSE 1

\* What a register access schedules; a read comes after its own delay.
\* (Not in the model: registers that update nothing, as DMA's and the CDC's reads do.)
AccessOf(a, t) ==
  CASE a.dev \in {"TIMER", "CDC"} /\ a.write -> UpdateAndSchedule(sys, a.dev, t)
    [] a.dev = "DMA" /\ a.write -> UpdateOf(sys, "DMA", t) \cup UpdateAndSchedule(sys, "DMA", t)
    [] a.dev = "FIO" -> UpdateAndSchedule(sys, "FIO", t)
                          \cup (IF a.write THEN {} ELSE UpdateOf(sys, "FIO", t))
    [] a.dev = "TIMER" /\ ~a.write -> UpdateOf(sys, "TIMER", t)
    [] OTHER -> {sys}

Access ==
  /\ phase = "access" /\ UpToDate
  /\ LET t == timestamp + (IF access.write THEN 0 ELSE ReadTime(access.dev))
     IN timestamp' = t /\ sys' \in AccessOf(access, t)
  /\ phase' = "cpu" /\ access' = NoAccess

\* The instruction loop ends at the next event ...
LeaveLoop ==
  /\ phase = "cpu" /\ timestamp >= sys.next_event_ts
  /\ phase' = "handler"
  /\ UNCHANGED <<timestamp, access, sys>>

\* ... and CPU->Run when the handler says so.
HandlerReturns ==
  /\ phase = "handler" /\ timestamp < NextTime(sys.events)
  /\ phase' = IF sys.Running THEN "cpu" ELSE "update"
  /\ UNCHANGED <<timestamp, access, sys>>

UpdateAll ==
  /\ phase = "update" /\ phase' = "rebase"
  /\ sys' \in ForceEventUpdates(sys, timestamp)
  /\ UNCHANGED <<timestamp, access>>

\* The components' ResetTS and RebaseTS (mutant: RebaseTS forgets an
\* event).
Rebased_NotFIO(events) ==
  [e \in Events |-> [events[e] EXCEPT
     !.event_time = IF e \in Components \ {"FIO"} THEN @ - timestamp ELSE @]]
RebasedEvents(events) ==
  [e \in Events |-> [events[e] EXCEPT !.event_time = IF e \in Components THEN @ - timestamp ELSE @]]

RebaseTS ==
  /\ phase = "rebase" /\ phase' = "between"
  /\ sys' = LET events == RebasedEvents(sys.events)
            IN [sys EXCEPT !.events = events, !.lastts = Zero, !.next_event_ts = NextTime(events)]
  /\ timestamp' = 0
  /\ UNCHANGED access

Loop_Next ==
  \/ StartFrame \/ StateAction \/ PSX_Power
  \/ \E d \in 1 .. MaxStep : Instruction(d)
  \/ \E a \in Accesses, d \in 0 .. MaxStep : StartAccess(a, d)
  \/ HandleEvent \/ Access \/ LeaveLoop \/ HandlerReturns \/ UpdateAll \/ RebaseTS

Loop_Spec == Loop_Init /\ [][Loop_Next]_loopVars

------------------------------------------------------------------------------
Times == 0 .. Never
Loop_TypeOK ==
  /\ phase \in {"cpu", "access", "handler", "update", "rebase", "between"}
  /\ timestamp \in Nat /\ access \in Accesses \cup {NoAccess}
  /\ sys.events \in [Events -> [event_time : Times, prev : Events \cup {"none"},
                                next : Events \cup {"none"}]]
  /\ sys.lastts \in [Components -> Nat]
  /\ sys.Running \in BOOLEAN /\ sys.next_event_ts \in Times

(***************************************************************************)
(* Through every nested PSX_SetEventNT (the GPU schedules the timers and   *)
(* FrontIO from inside its own event) the list stays a list: it runs from  *)
(* SYNFIRST to SYNLAST over all events, back links match, times ascend.    *)
(***************************************************************************)
WellLinked ==
  LET events == sys.events
      reach[n \in 0 .. Len(Order)] ==
        IF n = 0 THEN {SYNFIRST}
        ELSE LET before == reach[n - 1] IN before \cup {events[e].next : e \in before \ {SYNLAST}}
  IN /\ reach[Len(Order)] = Events
     /\ \A e \in Events \ {SYNLAST} :
          LET next == events[e].next
          IN events[next].prev = e /\ events[e].event_time <= events[next].event_time

(***************************************************************************)
(* No instruction starts at or after the time of an event, or once the GPU *)
(* has asked for the end of the frame, whatever is scheduled after that:   *)
(* next_event_ts, the CPU's copy of the earliest time, is never stale.     *)
(* And no event lies before the end of the frame when RebaseTS asserts it. *)
(***************************************************************************)
NothingDueWhileRunning ==
  /\ phase = "cpu" /\ timestamp < sys.next_event_ts => sys.Running
  /\ (phase = "cpu" /\ timestamp < sys.next_event_ts) \/ phase = "rebase" =>
       \A c \in Components : timestamp < sys.events[c].event_time

(***************************************************************************)
(* No component is ever updated to an earlier time than the last one: it   *)
(* would count negative clocks.  (Its event, a register access, the GPU    *)
(* inside DMA's update and the end of the frame all update it.)            *)
(***************************************************************************)
TimeOnlyAdvances ==
  [][phase # "rebase" => \A c \in Components : sys'.lastts[c] >= sys.lastts[c]]_loopVars

(***************************************************************************)
(* PSX_EventHandler returns: each turn of its loop puts the event it       *)
(* handled later than the time of the turn and leaves no other before that *)
(* time, so no more than finitely many turns are due at one timestamp.     *)
(***************************************************************************)
HandlerProgresses ==
  [][(phase \in {"handler", "access"} /\ phase' = phase) =>
       LET e == First(sys.events)
           t == sys.events[e].event_time
       IN /\ sys'.events[e].event_time > t
          /\ \A c \in Components : sys'.events[c].event_time >= t]_loopVars
==============================================================================

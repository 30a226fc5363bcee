------------------------------- MODULE Pads --------------------------------
(* The controllers that answer polls: input/gamepad.cpp, dualanalog.cpp,
   mouse.cpp, negcon.cpp, guncon.cpp and justifier.cpp, one byte at a time (see
   Memcard).  They share a protocol: the address 1 is answered with the kind's
   identification, the command 0x42 with 0x5A and the state of the inputs, and
   anything else ends the transfer.  transmit_buffer, transmit_pos and
   transmit_count are tx, the bytes that are still to be sent.

   Of the inputs the model keeps the buttons that are held, the presses that are
   kept until a poll, and what a mouse has moved along one axis.              *)
EXTENDS Integers, Sequences

CONSTANTS MoveMax,      \* largest movement a mouse reports (127)
          MoveTurns,    \* reports the mouse can be behind (30)
          QuietFrames   \* frames without a poll until it forgets (a quarter second)

ASSUME PadAssumption == /\ MoveMax \in 1..127
                        /\ MoveTurns \in Nat \ {0}
                        /\ QuietFrames \in Nat \ {0}

Mice == {"mouse"}
Guns == {"guncon", "justifier"}
Polled == {"none", "gamepad", "dualanalog", "analogjoy", "negcon"} \cup Mice \cup Guns

\* The byte that answers the address; its low digit counts pairs of data bytes.
Id(kind) == CASE kind = "gamepad"    -> 65
              [] kind = "dualanalog" -> 115
              [] kind = "analogjoy"  -> 83
              [] kind = "negcon"     -> 35
              [] kind = "mouse"      -> 18
              [] kind = "guncon"     -> 99
              [] kind = "justifier"  -> 49

Moves == ((-MoveMax - 1) * MoveTurns)..(MoveMax * MoveTurns)

(* held is what the player holds (button_post_mask, trigger_noclear, buttons),
   pressed what was held since the last poll (button, trigger_eff), moved the
   movement not yet reported (accum_xdelta), quiet the frames since the last
   poll, shot the count of a shot off the screen, hit whether the gun saw the
   beam, detect need_hit_detect.                                             *)
Pad == [kind : Polled, dtr : BOOLEAN, phase : {-1, 0, 1, 2, 3, 4},
        tx : Seq(0..255), held : BOOLEAN, pressed : BOOLEAN, moved : Moves,
        quiet : Nat, shot : 0..10, aimedOff : BOOLEAN, hit : BOOLEAN, detect : BOOLEAN]

Pad_New(kind) ==
    [kind |-> kind, dtr |-> FALSE, phase |-> 0, tx |-> << >>, held |-> FALSE,
     pressed |-> FALSE, moved |-> 0, quiet |-> 0, shot |-> 0, aimedOff |-> FALSE,
     hit |-> FALSE, detect |-> FALSE]

Pad_Power(p) == Pad_New(p.kind)

Pad_SetDTR(p, dtr) ==
    IF p.kind = "none" THEN p
    ELSE IF dtr /\ ~p.dtr THEN [p EXCEPT !.dtr = TRUE, !.phase = 0, !.tx = << >>]
         ELSE [p EXCEPT !.dtr = dtr]

-----------------------------------------------------------------------------
(* The answers to a poll, after 0x5A, by each pad's Clock.  A button that is held
   reads as zero, sticks rest in the middle.                                 *)
Clamp(x, lo, hi) == IF x < lo THEN lo ELSE IF x > hi THEN hi ELSE x
Buttons(down) == <<IF down THEN 247 ELSE 255, 255>>
Sticks == <<128, 128, 128, 128>>

GamepadPolled(p)    == [p EXCEPT !.tx = <<90>> \o Buttons(p.held)]
DualAnalogPolled(p) == [p EXCEPT !.tx = <<90>> \o Buttons(p.held) \o Sticks]
NegconPolled(p)     == [p EXCEPT !.tx = <<90>> \o Buttons(p.held) \o <<128, 0, 0, 0>>]

Reported(p) == Clamp(p.moved, -MoveMax - 1, MoveMax)

\* The mouse's movement along its one axis; the other one does not move.
MousePolled(p) ==
    [p EXCEPT !.tx = <<90, 255, IF p.pressed THEN 248 ELSE 252, Reported(p) % 256, 0>>,
              !.moved = @ - Reported(p), !.pressed = p.held /\ @, !.quiet = 0]

\* A shot off the screen hides the trigger but for two frames of it.
Trigger(p, bit, shown) ==
    IF (p.shot > 0 /\ p.shot \in shown) \/ (p.shot = 0 /\ p.pressed) THEN 255 - bit ELSE 255

\* Where the GunCon saw the beam, or that it did not.
GunConPolled(p) ==
    LET seen == p.hit /\ p.shot = 0
    IN  [p EXCEPT !.tx = <<90, 255, Trigger(p, 32, {2, 3})>>
                           \o IF seen THEN <<2, 0, 20, 0>> ELSE <<1, 0, 10, 0>>,
                  !.pressed = p.held, !.hit = FALSE]

JustifierPolled(p) ==
    [p EXCEPT !.tx = <<90, 255, Trigger(p, 128, {5, 6})>>, !.pressed = p.held]

AfterPoll(p) == CASE p.kind = "gamepad"   -> GamepadPolled(p)
                  [] p.kind \in {"dualanalog", "analogjoy"} -> DualAnalogPolled(p)
                  [] p.kind = "negcon"    -> NegconPolled(p)
                  [] p.kind \in Mice      -> MousePolled(p)
                  [] p.kind = "guncon"    -> GunConPolled(p)
                  [] p.kind = "justifier" -> JustifierPolled(p)

(* Clock, for the eight bits of b.                                           *)
Pad_Clock(pad, b) ==
    LET p == [pad EXCEPT !.tx = IF @ = << >> THEN @ ELSE Tail(@)]
    IN  CASE ~pad.dtr \/ pad.kind = "none" -> pad
          [] pad.dtr /\ p.phase = 0 ->
                 IF b = 1 THEN [p EXCEPT !.tx = <<Id(p.kind)>>, !.phase = 1]
                 ELSE [p EXCEPT !.phase = -1]
          [] pad.dtr /\ p.phase = 1 ->
                 IF b = 66 THEN [AfterPoll(p) EXCEPT !.phase = 2]
                 ELSE [p EXCEPT !.tx = << >>, !.phase = -1]
          [] pad.dtr /\ p.phase \in {2, 3} /\ p.kind = "justifier" ->
                 [p EXCEPT !.phase = @ + 1,
                           !.detect = IF p.phase = 3 THEN (b \div 16) % 2 = 1 ELSE @]
          [] OTHER -> p

Pad_Sends(p) == IF p.dtr /\ p.tx # << >> THEN p.tx[1] ELSE 255
Pad_Acks(p)  == p.dtr /\ p.tx # << >>

-----------------------------------------------------------------------------
(* UpdateInput, once a frame: what the player holds, how far the mouse moved,
   whether a gun is fired off the screen.  Presses add up until they are
   reported, movement up to MoveTurns reports.                               *)
MouseInput(p, held, move) ==
    [p EXCEPT !.held = held, !.pressed = @ \/ held,
              !.moved = Clamp(@ + move, (-MoveMax - 1) * MoveTurns, MoveMax * MoveTurns)]

GunInput(p, held, off) ==
    LET count == IF p.shot > 0 THEN p.shot - 1 ELSE 0
    IN  [p EXCEPT !.held = held, !.pressed = @ \/ held, !.aimedOff = off,
                  !.shot = IF off /\ ~p.aimedOff /\ count = 0
                           THEN IF p.kind = "guncon" THEN 4 ELSE 10
                           ELSE count]

Pad_UpdateInput(p, held, move, off) ==
    CASE p.kind \in Mice -> MouseInput(p, held, move)
      [] p.kind \in Guns -> GunInput(p, held, off)
      [] OTHER -> [p EXCEPT !.held = held]

\* The end of a frame: Update and ResetTS; a mouse that is not polled forgets.
Pad_Frame(p) ==
    IF p.kind \notin Mice THEN p
    ELSE IF p.quiet + 1 >= QuietFrames
         THEN [p EXCEPT !.quiet = 0, !.moved = 0, !.pressed = @ /\ p.held]
         ELSE [p EXCEPT !.quiet = @ + 1]

(* GPULineHook, at a line of the picture where the gun points: the GunCon keeps
   where it saw the beam; the Justifier pulls the IRQ line if it was asked to
   (detect) and is not fired off the screen, which is FrontIO's.             *)
Pad_SeesBeam(p)   == IF p.kind = "guncon" THEN [p EXCEPT !.hit = TRUE] ELSE p

(* StateAction: everything but a neGcon and an empty port, which have none.   *)
Pad_Load(p, s) == IF p.kind \in {"negcon", "none"} THEN p ELSE s
=============================================================================

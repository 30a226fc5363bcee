----------------------------- MODULE DualShock ------------------------------
(* The DualShock, input/dualshock.cpp, one byte at a time (see Memcard): a pad
   with a digital and an analog mode, a button or combination that switches
   between them, a configuration mode ("mad munchkins") with commands of its
   own, and two motors.                                                      *)
EXTENDS Integers, Sequences

CONSTANT ComboFrames    \* frames the combination is held to switch (one second)

ASSUME ComboAssumption == ComboFrames \in Nat \ {0}

Commands == 64..79

(* Command phases: -1 ignores the rest of a transfer, 101 awaits a command in
   configuration mode, and (command << 8) + n is the n-th step of a command.  *)
At(command, n) == command * 256 + n

DSPhase == {-1, 0, 1, 2, 101} \cup {At(c, n) : c \in Commands, n \in 0..6}

(* combo is combo_anatoggle_counter in frames, -1 the combination is not held,
   -2 it switched already; button and was the analog button now and before;
   toggles tells amct_enabled, that the combination is used, not the button;
   sent counts the bytes of an answer to 0x43 (transmit_pos).                 *)
Shock == [kind : {"dualshock"}, dtr : BOOLEAN, phase : DSPhase, tx : Seq(0..255),
          sent : 0..8, command : 0..255, analog : BOOLEAN, locked : BOOLEAN, config : BOOLEAN,
          magic : [1..6 -> 0..255], param : [1..2 -> 0..255], compat : BOOLEAN,
          combo : -2..ComboFrames, held : BOOLEAN, button : BOOLEAN, was : BOOLEAN,
          toggles : BOOLEAN]

Shock_New(toggles) ==
    [kind |-> "dualshock", dtr |-> FALSE, phase |-> 0, tx |-> << >>, sent |-> 0,
     command |-> 0, analog |-> ~toggles, locked |-> FALSE,
     config |-> FALSE, magic |-> [i \in 1..6 |-> 255], param |-> [i \in 1..2 |-> 0], compat |-> TRUE,
     combo |-> -2, held |-> FALSE, button |-> FALSE, was |-> FALSE, toggles |-> toggles]

\* Power keeps the mode and the analog button.
Shock_Power(d) ==
    [Shock_New(d.toggles) EXCEPT !.analog = d.analog, !.button = d.button]

\* SetAMCT also sets the mode, whatever transfer is under way.
Shock_SetAMCT(d, enabled) == [d EXCEPT !.toggles = enabled, !.analog = ~enabled]

(* CheckManualAnaModeChange: while the pad is not selected, holding the
   combination long enough or pressing the button switches the mode, unless the
   game has locked it.                                                       *)
ComboDone(d) == d.toggles /\ d.held /\ d.combo >= ComboFrames
ButtonPushed(d) == ~d.toggles /\ d.button /\ ~d.was

CheckMode(d) ==
    IF d.dtr THEN d
    ELSE [d EXCEPT !.combo = CASE ~d.toggles \/ ~d.held -> -1
                               [] ComboDone(d)          -> -2
                               [] d.toggles /\ d.held /\ d.combo = -1 -> 0
                               [] OTHER                 -> @,
                   !.analog = IF (ComboDone(d) \/ ButtonPushed(d)) /\ ~d.locked
                              THEN ~@ ELSE @,
                   !.was = d.button]

\* A mutant: a transfer goes on where the last one was deselected.
Shock_SetDTR_Resumes(d, dtr) ==
    CASE dtr /\ ~d.dtr -> [d EXCEPT !.dtr = TRUE, !.tx = << >>]
      [] ~dtr /\ d.dtr -> CheckMode([d EXCEPT !.dtr = FALSE])
      [] OTHER -> d

Shock_SetDTR(d, dtr) ==
    CASE dtr /\ ~d.dtr -> [d EXCEPT !.dtr = TRUE, !.phase = 0, !.tx = << >>]
      [] ~dtr /\ d.dtr -> CheckMode([d EXCEPT !.dtr = FALSE])
      [] OTHER -> d

-----------------------------------------------------------------------------
Answer(d, wide) ==
    <<IF d.held THEN 246 ELSE 255, IF d.held THEN 240 ELSE 255>>
        \o (IF wide THEN <<128, 128, 128, 128>> ELSE << >>)

Addressing(d, b) ==
    CASE b # 1              -> [d EXCEPT !.phase = -1]
      [] b = 1 /\ d.config  -> [d EXCEPT !.tx = <<243>>, !.phase = 101]
      [] b = 1 /\ ~d.config -> [d EXCEPT !.tx = <<IF d.analog THEN 115 ELSE 65>>, !.phase = 1]

\* Outside configuration: 0x42 polls, 0x43 polls and may enter configuration.
Commanded(d, b) ==
    CASE b = 66 -> [d EXCEPT !.command = b, !.tx = <<90>>, !.phase = At(66, 0)]
      [] b = 67 -> [d EXCEPT !.command = b, !.tx = <<90>> \o Answer(d, d.analog), !.phase = 2]
      [] OTHER  -> [d EXCEPT !.command = b, !.tx = << >>, !.phase = -1]

\* The byte received while the second one of the answer is sent decides.
MayEnter(d, b) ==
    IF d.command = 67 /\ d.sent = 2 /\ b = 1
    THEN [d EXCEPT !.config = TRUE, !.phase = -1, !.compat = FALSE,
                   !.param = IF d.compat THEN [i \in 1..2 |-> 0] ELSE @]
    ELSE d

(* A poll, 0x42: what was held when it began, and the motors' parameters from
   the bytes that follow, as the motors are mapped.                          *)
PollData(d) ==
    LET wide == d.analog \/ d.config
        more == IF ~wide /\ d.magic[3] \in {0, 1} THEN <<0, 0>> ELSE << >>
    IN  [d EXCEPT !.tx = Answer(d, wide) \o more, !.phase = @ + 1]

MagicSet(d) == \A i \in 3..6 : d.magic[i] # 0

Motors(d, b, n) ==
    CASE d.compat -> [d.param EXCEPT ![n] = b]
      [] ~d.compat /\ n = 1 ->
             IF d.magic[1] = 0 /\ MagicSet(d) THEN [d.param EXCEPT ![1] = b] ELSE d.param
      [] ~d.compat /\ n = 2 ->
             IF d.magic[2] = 1 THEN [d.param EXCEPT ![2] = b]
             ELSE IF d.magic[2] = 0 /\ MagicSet(d) THEN [d.param EXCEPT ![1] = b]
             ELSE d.param

Poll(d, b) ==
    CASE d.phase = At(66, 0) -> PollData(d)
      [] d.phase = At(66, 1) -> [d EXCEPT !.param = Motors(d, b, 1), !.phase = @ + 1]
      [] d.phase = At(66, 2) -> [d EXCEPT !.param = Motors(d, b, 2), !.phase = @ + 1]
      [] d.phase = At(66, 3) ->
             [d EXCEPT !.param = IF ~d.compat /\ d.magic[2] = 0 /\ d.magic[3] = 1
                                 THEN [@ EXCEPT ![2] = b] ELSE @,
                       !.phase = @ + 1]
      [] OTHER -> d

(* Configuration commands.  Each wants a zero first, answers one byte, and then
   five more that depend on the next byte.                                   *)
ConfigCommand(d, b) ==
    IF b \in Commands
    THEN [d EXCEPT !.command = b, !.tx = <<90>>, !.phase = At(b, 0)]
    ELSE [d EXCEPT !.command = b, !.tx = << >>, !.phase = -1]

First(d) == CASE d.command = 69 -> 1
                    [] d.command = 77 -> d.magic[1]
                    [] OTHER          -> 0

Five(d, b) ==
    CASE d.command = 69 -> <<2, IF d.analog THEN 1 ELSE 0, 2, 1, 0>>
      [] d.command = 70 /\ b = 0 -> <<0, 1, 2, 0, 10>>
      [] d.command = 70 /\ b = 1 -> <<0, 1, 1, 1, 20>>
      [] d.command = 71 /\ b = 0 -> <<0, 2, 0, 1, 0>>
      [] d.command = 72 /\ b \in {0, 1} -> <<0, 0, 0, 1, d.param[b + 1]>>
      [] d.command = 76 /\ b = 0 -> <<0, 0, 4, 0, 0>>
      [] d.command = 76 /\ b = 1 -> <<0, 0, 7, 0, 0>>
      [] OTHER -> <<0, 0, 0, 0, 0>>

\* 0x43 leaves configuration, 0x44 sets the mode, locked or not.
Second(d, b) ==
    [d EXCEPT !.tx = Five(d, b),
              !.config = IF d.command = 67 /\ b = 0 THEN FALSE ELSE @,
              !.analog = IF d.command = 68 /\ b \in {0, 1} THEN b = 1 ELSE @,
              !.phase = IF d.command = 68 THEN @ + 1 ELSE -1]

Lock(d, b) ==
    [d EXCEPT !.locked = IF b \in {2, 3} THEN b = 3 ELSE @, !.phase = -1]

\* 0x4D exchanges the six bytes of rumble_magic.
Magic(d, b) ==
    LET i == d.phase - At(77, 0)
    IN  [d EXCEPT !.magic[i] = b,
                  !.tx = IF i < 6 THEN <<d.magic[i + 1]>> ELSE @,
                  !.phase = IF i < 6 THEN @ + 1 ELSE -1]

Config(d, b) ==
    LET n == d.phase - At(d.command, 0)
    IN  CASE n = 0 -> IF b = 0 THEN [d EXCEPT !.tx = <<First(d)>>, !.phase = @ + 1]
                      ELSE [d EXCEPT !.phase = -1]
          [] n > 0 /\ d.command = 77 -> Magic(d, b)
          [] n = 1 /\ d.command # 77 -> Second(d, b)
          [] n = 2 /\ d.command # 77 -> Lock(d, b)

(* Clock, for the eight bits of b.                                           *)
Shock_Clock(shock, b) ==
    LET d == [shock EXCEPT !.tx = IF @ = << >> THEN @ ELSE Tail(@),
                           !.sent = IF shock.phase # 2 THEN 0
                                    ELSE IF shock.tx = << >> THEN @ ELSE @ + 1]
    IN  CASE ~shock.dtr -> shock
          [] shock.dtr /\ d.phase = -1 -> d
          [] shock.dtr /\ d.phase = 0 -> Addressing(d, b)
          [] shock.dtr /\ d.phase = 1 -> Commanded(d, b)
          [] shock.dtr /\ d.phase = 2 -> MayEnter(d, b)
          [] shock.dtr /\ d.phase = 101 -> ConfigCommand(d, b)
          [] shock.dtr /\ d.phase \in At(66, 0)..At(66, 6) -> Poll(d, b)
          [] OTHER -> Config(d, b)

-----------------------------------------------------------------------------
\* UpdateInput, once a frame.
Shock_UpdateInput(d, held, button) == CheckMode([d EXCEPT !.held = held, !.button = button])

\* ResetTS at the end of a frame: the combination has been held a frame longer.
Shock_Frame(d) ==
    [d EXCEPT !.combo = IF @ >= 0 /\ @ < ComboFrames THEN @ + 1 ELSE @]

\* What a state restores: all but the frontend's choice of how to switch.
Shock_Load(d, s) == [s EXCEPT !.toggles = d.toggles]
=============================================================================

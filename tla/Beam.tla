--------------------------------- MODULE Beam ---------------------------------
(***************************************************************************)
(* The scanlines of gpu.cpp: what the end of half a line does to the       *)
(* picture's timing, and where it asks for the end of the frontend's frame.*)
(* Pixels, dot clocks and the lengths of lines are data.                   *)
(***************************************************************************)
EXTENDS Integers

CONSTANTS
  LinesNTSC,  \* lines in a field of NTSC (263)
  LinesPAL,   \* lines in a field of PAL that is not interlaced (314)
  FirstExit,  \* the first line whose retrace may end the frame (232, or 260 on PAL hardware)
  SafeExit    \* the line at which the frame ends if it has not (256, or 308 on PAL hardware)

ASSUME BeamAssumption ==
  /\ LinesNTSC \in Nat /\ LinesNTSC > 2 /\ LinesPAL \in Nat /\ LinesPAL > LinesNTSC
  /\ FirstExit \in Nat \ {0} /\ SafeExit \in Nat \ {0}

\* Registers that the game sets: part of DisplayMode, VertStart and VertEnd.
Displays == [interlaced : BOOLEAN, pal : BOOLEAN, vstart : Nat, vend : Nat]
Beams == [linephase : 0..1, scanline : Nat, lines : Nat \ {0}, field : 0..1, invblank : BOOLEAN,
          reached : BOOLEAN,  \* sl_zero_reached
          failed : BOOLEAN]   \* history: its assertion at line 0 has failed

\* The lines of the field that begins.
LinesPerField(display, field) ==
  CASE display.interlaced /\ display.pal   -> LinesPAL - 1 - field
    [] display.interlaced /\ ~display.pal  -> LinesNTSC - field
    [] ~display.interlaced /\ display.pal  -> LinesPAL
    [] ~display.interlaced /\ ~display.pal -> LinesNTSC

FieldAfter(b, display, line) ==
  CASE line = b.lines - 1 -> IF display.interlaced THEN 1 - b.field ELSE 0
    [] line # b.lines - 1 /\ line = 0 -> IF display.interlaced THEN b.field ELSE 0
    [] line # b.lines - 1 /\ line # 0 -> b.field

\* VertEnd is looked at before VertStart.
InVBlank(b, display, line) == line # display.vstart /\ (b.invblank \/ line = display.vend)

\* The end of a line: the next one begins.
NextLine(b, display) ==
  LET line  == (b.scanline + 1) % b.lines
      field == FieldAfter(b, display, line)
  IN [b EXCEPT !.linephase = 0, !.scanline = line, !.field = field,
               !.lines    = IF line = 0 THEN LinesPerField(display, field) ELSE @,
               !.failed   = @ \/ (line = 0 /\ b.reached),
               !.reached  = @ \/ line = 0,
               !.invblank = InVBlank(b, display, line)]

\* Does the line that has begun ask for the end of the frame?  (Mutant: the last line of a
\* field does not.)
RequestsExit_NotLast(b, display, line) ==
  b.reached /\ (line = SafeExit \/ (line = display.vend /\ ~b.invblank /\ line >= FirstExit))
RequestsExit(b, display, line) ==
  b.reached /\ \/ line = SafeExit
               \/ line = b.lines - 1
               \/ line = display.vend /\ ~b.invblank /\ line >= FirstExit

StartsLine(b) == b.linephase = 1
HalfLine(b, display) ==
  IF StartsLine(b) THEN NextLine(b, display) ELSE [b EXCEPT !.linephase = 1]
ExitsAt(b, display) ==
  StartsLine(b) /\ RequestsExit(b, display, (b.scanline + 1) % b.lines)
==============================================================================

CONSTANTS
  FrameLen = 2
  Frames = 2
  Xor <- MCXor
  MoveMax = 2
  MoveTurns = 2
  QuietFrames = 2
  ComboFrames = 1
  SubPorts = 2
  Plugged = {"card", "pads", "mouse", "guns", "shock", "tap"}
  Setups <- MCPlugged
  Starts <- MCStarts
  Formatted <- Blank
  Sends <- MCSends
  Saves <- MCSaves
  FrameEnds = {8}
  MaxWrites = 2
  MaxOverheard = 2
  SaveDelay = 2
  Inputs <- MCInputs
VIEW LiveView
SPECIFICATION Port_Spec
INVARIANTS
  AnswersAreTrue
  UnsavedIsPending
  AcksMatchId
  SlotsAreOwn
PROPERTIES
  WritesAreWhole

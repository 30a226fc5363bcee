SPECIFICATION MCSpec
CONSTANTS
  Delays         <- MCDelays
  FrameLength     = 2
  MaxStep         = 2
  CDCReadTime     = 2
  PSX_EVENT_MAXTS = 20
  Size        = 4
  Rows        = 2
  Width      <- MCWidth
  Coeffs      = 3
  MaxClock    = 2
  BlockClocks = 3
  Clocks      = {2}
  Commands   <- MCCommands
  Data       <- MCData
VIEW MCView
INVARIANTS
  WellLinked
  NothingDueWhileRunning
  BlocksFit
  PictureIsWhole
PROPERTIES
  TimeOnlyAdvances
  HandlerProgresses
  CommandsEnd

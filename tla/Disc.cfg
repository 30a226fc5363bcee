SPECIFICATION MCSpec
CONSTANTS
  CDs = {d}
  PSXDiscs = {d}
  Leadout = 5
  TooFar = 6
  FirstTrack = 1
  LastTrack = 2
  Start <- MCStart
  AudioTracks = {2}
  XA = {2}
  BadQ = {}
  Winding = 3
  MaxRetries = 1
  Names = {"Setloc", "ReadN", "Pause", "SeekL", "Play", "Setmode", "ReadTOC", "Reset", "Forward"}
  Arguments = {0, 1}
  LocOf <- MCLocOf
  ModeOf <- MCModeOf
  MaxArgs = 1
  Hasty = {"Pause"}
  CD_IsPBP          = FALSE
  DiscCount         = 2
  TocCanFail        = FALSE
  LoadsWhileEjected = TRUE
  RemovesSelected   = TRUE
  LeavesUnfilled    = TRUE
  MaxImages         = 4
  MaxOpened         = 5
VIEW MCView
INVARIANTS
  AssertionsHold
  DriveRuns
  AnswersAreOwed
  ArgumentsBelong
  FaultsAreForeseen
  DriveHoldsChoice
PROPERTIES
  SectorsInOrder
  DataStops

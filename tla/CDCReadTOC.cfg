CONSTANTS
  CDs = {d}
  PSXDiscs = {d}
  Leadout = 5
  TooFar = 6
  FirstTrack = 1
  LastTrack = 2
  Start <- MCStart
  AudioTracks = {2}
  XA = {2}
  BadQ = {}
  Winding = 3
  MaxRetries = 1
  Names = {"Setloc", "ReadN", "Pause", "SeekL", "Play", "Setmode", "ReadTOC", "Reset", "Forward"}
  Arguments = {0, 1}
  LocOf <- MCLocOf
  ModeOf <- MCModeOf
  MaxArgs = 1
  Hasty = {"Pause"}
VIEW LiveView
SPECIFICATION CDC_Spec
INVARIANT
  NoAssertionFails

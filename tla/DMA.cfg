SPECIFICATION Spec
CONSTANTS
  Channels = {2, 6}
  Half = 4
  Span = 2
  Header <- MCHeader
  Bases <- MCBases
  Blockings <- MCBlockings
  Modes <- MCModes
  Controls <- MCControls
INVARIANTS
  TransfersAreExact
PROPERTIES
  EndsAreSignalled
  CPUIsReleased

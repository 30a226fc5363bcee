SPECIFICATION MCSpec
CONSTANTS
  Present = {0, 1, 2}
  Modes <- MCModes
  Values = {0, 3, 4}
  Wrap = 5
  Divider = 2
  MaxDots = 2
  Cap = 2
  MaxUsed = 1
  Posted    = {m1, m2}
  NoMessage = none
  MaxPosted = 3
VIEW MCView
INVARIANTS
  NoLateInterrupt
PROPERTIES
  CountsEveryClock
  ImplementsFIFO

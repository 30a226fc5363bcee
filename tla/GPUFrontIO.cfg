SPECIFICATION MCSpec
CONSTANTS
  LinesNTSC  = 4
  LinesPAL   = 7
  FirstExit  = 2
  SafeExit   = 5
  Room       = 6
  Wide       = 3
  High       = 1
  MaxTime    = 2
  GP0Commands  <- MCOrders
  Costs      = {2, 4}
  GPUClocks     = {1}
  Default   <- MCDefault
  Settings  <- MCSettings
  Games      = {"draws", "shows"}
  Bits = 2
  Lines = {0, 1}
  Bytes <- MCBytes
  Replies <- MCReplies
  Rates = {1, 2}
  Controls <- MCControls
  LineTime = 2
  FrameTime = 2
  Guns = {0}
  Shots = {1}
  MaxTS = 1000
  Far = 100
  Saves <- MCSaves
VIEW MCView
INVARIANTS
  CommandsKeepTheirWords
  EachFrameIsAField
  NothingIsLate
  ShotsArrive
PROPERTIES
  SenderIsServed
  ExchangesAreWhole
  AcksAreHeard

SPECIFICATION Spec
CONSTANTS
  CD_IsPBP     = TRUE
  DiscCount    = 2
  LeadOut     <- MCLeadOut
  TocCanFail   = TRUE
  ReadCanFail  = TRUE
  MaxLBA       = 2
  MaxQueue     = 2
  SBSize       = 2
  max_ra       = 1
  initial_ra   = 1
  speedmult_ra = 2
INVARIANTS
  TrayChangeIsExclusive
  NoStaleSector
  RequestNotLost
PROPERTIES
  ImplementsST

SPECIFICATION DiscSpec
CONSTANTS
  CD_IsPBP          = FALSE
  DiscCount         = 2
  TocCanFail        = FALSE
  LoadsWhileEjected = FALSE
  RemovesSelected   = TRUE
  LeavesUnfilled    = FALSE
  MaxImages         = 4
  MaxOpened         = 5
VIEW DiscView
INVARIANT NoUndefinedBehaviour

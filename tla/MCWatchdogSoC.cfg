CONSTANTS
  Half = 4
  LoadValues <- MCLoadOne
  ItcrValues = {TRUE, FALSE}
  ItopValues <- MCItop
  ReadRegisters = {}
  ClearMasks <- MCClearBoth
SPECIFICATION SocFairSpec
INVARIANT SocTypeOK
PROPERTIES
  CauseIsRecorded
  HangIsRestarted

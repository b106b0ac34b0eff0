CONSTANTS
  NMasters = 3
  NSlaves = 2
  Requests <- ContendingRequests
  Idles <- ContendingIdles
  Busy = TRUE
  Values = {0}
  Responses = {"wait", "okay"}
  MaxIncr = 3
SPECIFICATION FairSpec
INVARIANTS
  BurstsStayWhole
  LocksExclude
  DataPhasesAgree
PROPERTY Responds

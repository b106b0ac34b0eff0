CONSTANTS
  NMasters = 2
  NSlaves = 2
  Requests <- SharingRequests
  Idles <- SharingIdles
  Busy = FALSE
  Values = {0, 1}
  Responses = {"wait", "okay", "error"}
  MaxIncr = 1
SPECIFICATION Spec
INVARIANT TypeOK DataPhasesAgree
PROPERTY SharedSlavesSpec

CONSTANTS
  Words = {0}
  Bytes = {0, 1}
  Transfers <- MCTransfers
  REGISTER_RDATA = TRUE
  REGISTER_WDATA = FALSE
SPECIFICATION FairSpec
INVARIANT TypeOK
PROPERTIES
  DeviceSpec
  ApbProtocol
  Responds

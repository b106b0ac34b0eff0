CONSTANTS
  Words = {0, 1}
  Bytes = {0, 1}
  Transfers <- MCTransfers
  Upper = {1}
  PowerUp <- MCPowerUp
SPECIFICATION Spec
INVARIANT TypeOK
PROPERTY MemorySpec

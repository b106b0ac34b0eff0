CONSTANTS
  Words = {0, 1}
  Bytes = {0, 1}
  Transfers <- MCTransfers
  Configs <- MCConfigs
  PowerUp <- MCPowerUp
SPECIFICATION FairSpec
INVARIANTS
  TypeOK
  BusTurnsAround
PROPERTIES
  MemorySpec
  WriteIsStable
  Responds

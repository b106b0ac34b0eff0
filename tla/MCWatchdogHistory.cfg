CONSTANTS
  Half = 4
  LoadValues <- MCLoadValues
  ItcrValues = {}
  ItopValues = {}
  ReadRegisters = {"LOAD", "VALUE", "CTRL", "RIS", "MIS", "LOCK", "ITCR"}
SPECIFICATION HistSpec
INVARIANTS
  TypeOK
  CarriesMatchCount
PROPERTIES
  OneCounter
  TimerSpec
  ServiceWindow

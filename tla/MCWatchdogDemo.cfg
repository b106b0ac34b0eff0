CONSTANTS
  Half = 16
  LoadValues <- MCLoadValues
  ItcrValues = {TRUE, FALSE}
  ItopValues <- MCItop
  ReadRegisters = {"VALUE"}
  ClearMasks <- MCClear
  Long <- MCLong
  Short <- MCShort
  Filler <- MCFiller
  Threshold = 64
  Repeats = 3
  MaxLag = 3
SPECIFICATION DemoSpec
INVARIANT DemoTypeOK
PROPERTY DemoPasses

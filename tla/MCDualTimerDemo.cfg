CONSTANTS
  Half = 16
  Fast = 2
  Slow = 4
  LoadValues <- MCLoadValues
  CtrlValues <- MCCtrlValues
  ItcrValues = {FALSE}
  ItopValues = {{}}
  Accessed = {"timer1"}
  Cycles <- MCCycles
  MaxLag = 1
SPECIFICATION DemoSpec
INVARIANTS
  DemoTypeOK
  CarriesMatchCount
PROPERTIES
  IntervalSpec
  DemoPasses

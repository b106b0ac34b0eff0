CONSTANTS
  Half = 4
  LoadValues = {}
  ItcrValues = {}
  ItopValues = {}
  ReadRegisters = {}
SPECIFICATION ToSpec
PROPERTY ResetNeedsTwoTimeouts

CONSTANTS
  Chars = {"h", "e", "l", "o", " ", "w", "r", "d", "end", "a"}
  Zero = "end"
  Dividers = {0, 32}
  AnyChars = {"h", "a"}
  AnyCtrl <- MCCtrl
  Senders = {"UART2"}
  TimerMax = 40
  Pins = {1, 7, 8, 9, 10}
  Divider = 32
  CallTime = 3
  transmit <- MCtransmit
  Letter = "a"
  DemoReload = 5
  Scaled <- MCScaled
  CharsPerFrame = 20
  MaxLag = 1
SPECIFICATION Spec
INVARIANTS TypeOK ConfiguredWhenQuiet StringsInBounds EdgesAreCurrent
PROPERTIES OneEntryPerTrigger ChannelSpec ProgramsPass

SPECIFICATION Spec
CONSTANTS
  MaxShown = 2
  PinMod = 4
  Word = 16384
  Page = 64
  PitchAlign = 8
  MaxDim = 32
  GartSizes <- MCGartSizes
  Panels <- MCPanels
  Monitors <- MCMonitors
  Surfaces <- MCSurfaces
  Pictures <- MCPictures
INVARIANTS
  TypeOK
  HandlerSafe
  
  ConsoleLeavesFirst
  ConsoleBacked
  OfferedFits
  BufferHoldsPicture
CHECK_DEADLOCK FALSE

SPECIFICATION Spec
CONSTANTS
  MaxShown = 1
  PinMod = 3
  Word = 16384
  Page = 64
  PitchAlign = 8
  MaxDim = 32
  GartSizes <- MCGartSizes
  Panels <- MCPanels
  Monitors <- MCMonitors
  Surfaces <- MCSurfaces
  Pictures <- MCPictures
INVARIANT
  CleanupDoesTheRest
CHECK_DEADLOCK FALSE

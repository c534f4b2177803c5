SPECIFICATION Spec
CONSTANTS
  Objs = {o1, o2}
  Threads = {t1, t2}
  AperPages = 1
  Sizes = {1}
  PinMod = 3
  EarlyClose = FALSE
  None = None
  NoThread = NoThread
  Invalid = Invalid
  Empty = Empty
SYMMETRY Symmetry
INVARIANTS
  TypeOK
  NoUseAfterFree
  UserPteSound
  DeviceSafe
PROPERTIES
  PinnedStays
  ImplementsLife

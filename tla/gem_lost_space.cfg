SPECIFICATION Spec
CONSTANTS
  Objs = {o1}
  Threads = {t1}
  AperPages = 2
  Sizes = {1, 2}
  PinMod = 4
  EarlyClose = FALSE
  None = None
  NoThread = NoThread
  Invalid = Invalid
  Empty = Empty
INVARIANTS
  LostOnlyIfPinned

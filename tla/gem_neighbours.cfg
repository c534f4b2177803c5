SPECIFICATION Spec
CONSTANTS
  Objs = {o1, o2}
  Threads = {t1}
  AperPages = 2
  Sizes = {1, 2}
  PinMod = 3
  EarlyClose = FALSE
  None = None
  NoThread = NoThread
  Invalid = Invalid
  Empty = Empty
SYMMETRY Symmetry
INVARIANTS
  BindAssertions
  BindingVisible
PROPERTIES
  ImplementsAperture

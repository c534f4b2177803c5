SPECIFICATION Spec
CONSTANTS
  Crtcs = {c1}
  o1 = o1
  o2 = o2
  o3 = o3
  Objs = {o1, o2, o3}
  AperPages = 4
  PinMod = 5
  Size <- MCSize
  Modes = {m1, m2}
  Pans = {0, 1}
  Misaligned = {}
  Console = o1
  Clients = {"flip", "blank"}
  None = None
INVARIANTS
  PinCountMeansPinned

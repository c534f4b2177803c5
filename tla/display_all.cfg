SPECIFICATION Spec
CONSTANTS
  Crtcs = {c1}
  o1 = o1
  o2 = o2
  o3 = o3
  Objs = {o1, o2}
  AperPages = 2
  PinMod = 4
  Size <- MCSize
  Modes = {m1, m2}
  Pans = {0, 1}
  Misaligned <- MCMisaligned
  Console = None
  Clients = {"flip", "off", "remode", "blank"}
  None = None
INVARIANTS
  TypeOK
  DeviceMatchesDriver
  ScanCoherent

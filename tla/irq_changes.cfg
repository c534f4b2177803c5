SPECIFICATION Spec
CONSTANTS
  NCrtcs = 2
  Always = {"onscreen"}
INVARIANTS
  TypeOK
  ReportedOnce
  ClaimsItsOwn
PROPERTIES
  ClearsOnlyReported

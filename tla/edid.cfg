SPECIFICATION FairSpec
CONSTANTS
  Monitors = {m1, m2}
  Bad = {m2}
  Words = 2
  MaxReads = 3
  None = None
INVARIANTS
  TypeOK
  CopiesOneAnswer
  GivesUpUnanswered
  AdvertisesCache
PROPERTIES
  GetEdidAdvances
  GetEdidReturns

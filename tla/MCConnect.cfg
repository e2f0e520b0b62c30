SPECIFICATION FairSpec
CONSTANTS
  r1 = r1
  r2 = r2
  r3 = r3
  Ids = {r1, r2, r3}
  Readable = {r1, r2}
  NoId = NoId
  MaxWindows = 3
INVARIANTS
  SignedAsShown
  NobodyWaitsUnseen
PROPERTIES
  EveryRequestSettles
CHECK_DEADLOCK FALSE

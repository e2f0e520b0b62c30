SPECIFICATION PayFairSpec
CONSTANTS
  p1 = p1
  p2 = p2
  NoOne = NoOne
  Payees = {p1, p2}
  Registered = {p1, p2}
  Contacts = {p1}
  MaxSends = 2
  MaxIds = 2
INVARIANTS
  ReceiptsProve
  PaidAsNamed
PROPERTIES
  SendingEnds
CHECK_DEADLOCK FALSE

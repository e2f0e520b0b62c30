SPECIFICATION FairSpec
CONSTANTS
  o1 = o1
  o2 = o2
  o3 = o3
  h1 = h1
  h2 = h2
  g1 = g1
  r1 = r1
  Offices = {o1, o2, o3}
  GenesisOffices = {o1, o2, o3}
  People = {h1, h2}
  Grounds = {g1}
  References = {r1}
  GenesisParams <- Launch
  ParamChoices <- MCChanges
  NoOffice = NoOffice
  OfficeMoves = {o1}
  MaxTransfers = 2
  MaxFreezes = 1
  MaxTime = 3
INVARIANTS
  OneSaleAtATime
PROPERTIES
  TitleNeedsMany
  NobodyCanRefuse

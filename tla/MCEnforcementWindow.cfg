SPECIFICATION FairSpec
CONSTANTS
  t1 = t1
  t2 = t2
  v = v
  m = m
  Targets = {t1, t2}
  Validators = {v}
  Offices = {m}
  Nobody = Nobody
  Destination = Destination
  Perimeter <- MCPerimeter
  AboveCeiling = {}
  Settlements <- MCSettlements
  MaxSeizureDelay = 2
  ParamChoices <- MCLater
  GenesisParams <- MCTwo
  PowerTables <- MCPower
  InitialFunds = 1
  InitialStake = 1
  InitialRoles = {v}
  RoleMoves = {}
  Flows = {}
  Restarts = FALSE
  MaxCases = 2
  MaxHeight = 9
  MaxFunds = 1
  LastOpening = 1
INVARIANTS
  FreezeIsAnsweredFor
  WindowLimitsHold
PROPERTIES
  TakenOnlyWhileOrdered
  SeizureWaits
  HeldSeizuresEnd

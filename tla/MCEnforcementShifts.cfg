SPECIFICATION FairSpec
CONSTANTS
  t1 = t1
  t2 = t2
  v1 = v1
  v2 = v2
  m = m
  Targets = {t1}
  Validators = {v1, v2}
  Offices = {m}
  Nobody = Nobody
  Destination = Destination
  Perimeter <- MCPerimeter
  AboveCeiling = {}
  Settlements <- MCSettlements
  MaxSeizureDelay = 2
  ParamChoices <- MCAll
  GenesisParams <- MCOne
  PowerTables <- MCPower
  InitialFunds = 1
  InitialStake = 0
  InitialRoles = {v1}
  RoleMoves = {v1}
  Flows = {"deposit", "spend", "delegate", "undelegate", "mature"}
  Restarts = TRUE
  MaxCases = 1
  MaxHeight = 5
  MaxFunds = 2
  LastOpening = 1
INVARIANTS
  ProvisionalMeansUndecided
  RestartKeepsState
PROPERTIES
  StoppedForGood
  VotesEnd
  FrozenFundsStay

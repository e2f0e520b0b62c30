SPECIFICATION FairSpec
CONSTANTS
  a = a
  b = b
  Participants = {a, b}
  Denoms <- MCDenoms
  MaxCycle = 3
  HeightPeriod = 2
  MaxObligations = 3
  Amounts <- MCAmounts
  InitialBalance = 2
  MaxSlices = 1
  MaxCycleBlocks = 2
  ParamChoices <- PolicyChanges
  Genesis <- MCGenesis
  Restarts = TRUE
  Applicants = {a}
INVARIANTS
  CommittedIsOwed
  SettlementCannotFail
  ExportIsImportable
  Collateralised
  CustodyBacksReserves
PROPERTIES
  NettedWithinCeiling
  WindowsSettle

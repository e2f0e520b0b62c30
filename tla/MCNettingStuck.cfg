SPECIFICATION StuckSpec
CONSTANTS
  a = a
  b = b
  c = c
  Participants = {a, b, c}
  Denoms <- MCDenoms
  MaxCycle = 6
  HeightPeriod = 2
  MaxObligations = 4
  Amounts <- MCAmounts
  InitialBalance = 0
  MaxSlices = 1
  MaxCycleBlocks = 2
  ParamChoices <- MCParams
  Genesis <- MCGenesis
  Restarts = FALSE
  Applicants = {}
INVARIANTS
  QueueMatchesRecord
PROPERTIES
  KeepsPromise
  FundedHoldsClear
  OverdueReported

SPECIFICATION Spec
CONSTANTS
  a = a
  b = b
  m = m
  x = x
  Accounts = {a, b, m, x}
  Blocked = {x}
  Governance = m
  Denoms = {1}
  Amounts = {1, 3}
  Officers = {a}
  Payees = {b, x}
  Grants <- MCGrants
  Schedules <- MCSchedules
  Policies <- MCPolicies
  Deals <- MCDeals
  ParamChoices <- MCParams
  GenesisParams <- Launch
  Supply <- MCSupply
  None = None
  MaxTreasuries = 1
  MaxLocks = 2
  MaxTime = 4
INVARIANTS
  LedgerAgrees
  SpendingIsLimited
PROPERTIES
  KeepsPromises

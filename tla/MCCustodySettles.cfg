SPECIFICATION Spec
CONSTANTS
  x1 = x1
  x2 = x2
  a1 = a1
  a2 = a2
  a3 = a3
  Denoms = {1}
  Refs = {x1, x2}
  y1 = y1
  Payouts = {y1}
  AttestorIds = {a1, a2, a3}
  Amounts = {1, 2}
  Holdings = {1, 3}
  ParamChoices <- MCNoChanges
  GenesisParams <- Launch
  None = None
  MaxRedemptions = 1
  MaxHeight = 2
SYMMETRY Symmetry
INVARIANTS
  ConfirmedIsSettled

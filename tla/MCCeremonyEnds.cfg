SPECIFICATION FairSpec
CONSTANTS
  n1 = n1
  n2 = n2
  n3 = n3
  t1 = t1
  t2 = t2
  t3 = t3
  t4 = t4
  Custodians = {n1, n2, n3}
  Tabs = {t1, t2, t3}
  Owner <- MCOwner
  NoOne = NoOne
  Unlucky = {n1}
  MaxSetups = 1
  MaxIssues = 2
  MaxMishaps = 1
PROPERTIES
  EveryoneAttests

SPECIFICATION Spec
CONSTANTS
  c1 = c1
  c2 = c2
  s1 = s1
  s2 = s2
  Skbs = {s1, s2}
  NoSkb = NoSkb
  Setups <- OneOrTwo
  Size = 3
  TxBudget = 1
CHECK_DEADLOCK FALSE
PROPERTIES StampsMatch RefsKept Drains

SPECIFICATION CallSpec
CONSTANTS
  None = None
  Scenarios <- AllScenarios
  FastStart = {TRUE, FALSE}
  Majors = {1, 3}
  CntMod = 3
  MaxPkts = 2
  TidMod = 2
INVARIANTS FreshFirmware  StatsHonest
PROPERTIES AnswerIsFresh RequestIntact CallsReturn
CHECK_DEADLOCK FALSE

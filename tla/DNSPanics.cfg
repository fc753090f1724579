SPECIFICATION Spec
CONSTANTS
  Records = {r1, r2}  Workers = {w1, w2}  NoKey = NoKey
  MaxChanges = 2  MaxKills = 0
PROPERTIES OtherWorkersGoOn
CHECK_DEADLOCK FALSE

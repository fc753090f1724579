SPECIFICATION FairSpec
CONSTANTS
  Records = {r1, r2}  Workers = {w1, w2}  NoKey = NoKey
  MaxChanges = 4  MaxKills = 1
INVARIANTS TypeOK NothingForgotten NoCrashLoop
PROPERTIES EventuallyReconciled
CHECK_DEADLOCK FALSE

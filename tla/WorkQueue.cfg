SPECIFICATION FairSpec
CONSTANTS
  Keys = {k1, k2, k3}
  Workers = {w1, w2}
  MaxRetries = 1
  NoKey = NoKey
INVARIANTS
  TypeOK
  ReadyIsDirtyAndIdle
  OneWorkerPerKey
  RetriesBounded
PROPERTIES
  ImplementsKeyQueue

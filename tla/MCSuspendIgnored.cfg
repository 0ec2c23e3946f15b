SPECIFICATION Spec
CONSTANTS
  w1 = w1
  w2 = w2
  w3 = w3
  NULL = NULL
  Worker <- PlainWorker
  Late <- Nobody
  AppSuspended <- Nobody
  Failures <- OnlyMalloc
  MaxTries = 3
  MaxMisses <- NoMisses
INVARIANT
  NobodyInTheWay

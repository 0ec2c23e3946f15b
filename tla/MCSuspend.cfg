SPECIFICATION Spec
CONSTANTS
  w1 = w1
  w2 = w2
  w3 = w3
  NULL = NULL
  Worker <- MCWorker
  Late <- MCLate
  AppSuspended <- MCAppSuspended
  Failures <- AllFailures
  MaxTries = 1
  MaxMisses <- MCMisses
INVARIANTS
  SuspendBalance
  QuietWhilePatching
  NoCrashWhenClean
  HookFindsOriginal
PROPERTY
  SuspendedIsResumed

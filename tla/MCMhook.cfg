SPECIFICATION Spec
CONSTANTS
  fun = fun
  tiny = tiny
  thk = thk
  h1 = h1
  h2 = h2
  h3 = h3
  c1 = c1
  c2 = c2
  p1 = p1
  p2 = p2
  p3 = p3
  b1 = b1
  b2 = b2
  b3 = b3
  NULL = NULL
  Routine <- MCRoutine
  Block <- MCBlock
  Thunk <- MCThunk
  Short <- MCShort
  Region <- MCRegion
  Caller <- MCCaller
  PtrsOf <- MCPtrsOf
  Ptr <- MCPtr
  PtrInit <- MCPtrInit
  HooksOf <- MCHooksOf
  MaxHooks = 2
  SerialFirstUse = TRUE
INVARIANTS
  MutualExclusion
  SlotAccounting
  NothingHalfDone
  NothingFreedIsReachable
  AnswerIsTrue
PROPERTIES
  LockIsReleased
  ImplementsHookApi

SPECIFICATION DllSpec
CONSTANTS
  StartDocA = StartDocA
  StartDocW = StartDocW
  GefStartDocA = GefStartDocA
  GefStartDocW = GefStartDocW
  pA = pA
  pW = pW
  b1 = b1
  b2 = b2
  b3 = b3
  b4 = b4
  t1 = t1
  t2 = t2
  t3 = t3
  Routine <- MCRoutine
  Block <- MCBlock
  Thunk <- MCThunk
  Short = {}
  Region <- MCRegion
  Thread <- MCThread
  Ptr <- MCPtr
  PtrInit <- MCPtrInit
  Gef <- MCGef
  HooksOf <- MCHooksOf
  Order <- MCOrder
  MaxHooks = 3
  MaxLoads = 2
SYMMETRY MCSymmetry
CHECK_DEADLOCK FALSE
INVARIANTS
  CallbacksNeverHook
  BlockedWhileHooked
  CrashCause

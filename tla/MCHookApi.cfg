SPECIFICATION Spec
CONSTANTS
  f = f
  g = g
  s = s
  t = t
  h1 = h1
  h2 = h2
  h3 = h3
  h4 = h4
  h5 = h5
  p1 = p1
  p2 = p2
  p3 = p3
  p4 = p4
  b1 = b1
  b2 = b2
  b3 = b3
  b4 = b4
  Routine <- MCRoutine
  Block <- MCBlock
  Thunk <- MCThunk
  Short <- MCShort
  Region <- MCRegion
  Ptr <- MCPtr
  PtrInit <- MCPtrInit
  HooksOf <- MCHooksOf
  MaxHooks = 3
SYMMETRY MCSymmetry
CHECK_DEADLOCK FALSE
INVARIANTS
  HookInPlace
  OneTrampolinePerFunction
  Conservation
  OriginalReachable
  HookedExactly
  NoJumpCycle

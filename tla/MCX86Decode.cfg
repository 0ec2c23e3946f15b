SPECIFICATION Spec
CONSTANTS
  Archs = {"x86", "x64"}
  PrefixBytes <- MCPrefixBytes
  OpcodeBytes <- Byte
  SecondBytes <- Byte
  ModRMBytes <- MCModRMBytes
  SIBBytes <- MCSIBBytes
  SuffixBytes <- MCSuffixBytes
  MaxPrefixes = 16
CONSTRAINT Scope
CHECK_DEADLOCK FALSE
INVARIANTS
  LengthIsReference
  RelativeToEnd
  LockOnlyWhereLegal
  SseTakesItsPrefix
  AssertionsHold

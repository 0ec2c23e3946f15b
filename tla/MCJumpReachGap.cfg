SPECIFICATION ReachSpec
CONSTANTS
  Gran = 128
  Page = 8
  Half <- MCHalf
  Top <- MCTop
  OffStub = 24
  OffTramp = 56
  CodeBytes = 32
  LongJump = 14
  Function <- MCFunction
  Hook <- AllHooks
  Target <- MCTarget
  Lengths <- MCLengths
  RipForms <- MCRipForms
  Region <- MCRegion
CHECK_DEADLOCK FALSE
INVARIANT
  EntryJumpIsShort

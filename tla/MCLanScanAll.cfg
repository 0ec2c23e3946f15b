SPECIFICATION Spec
CONSTANTS
  HostBits <- MCHostBits
  Device <- MCDevice
  MaxDelay = 3
  Grace = 3
  Self = 1
  Stranger = 9
  MaxChatter = 1
  MaxErrors = 1
  Failures <- NoneFails
CHECK_DEADLOCK FALSE
INVARIANT
  AllHostsAsked

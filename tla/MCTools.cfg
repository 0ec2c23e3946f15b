SPECIFICATION Spec
CONSTANTS
  BufferSize = 48
  PacketSizes <- MCPacketSizes
  BlockTypes <- MCBlockTypes
  BlockLengths <- MCBlockLengths
  Windows = {w1, w2, w3}
  MaxChanges = 3
  Rounds = 2
  Processes = 2
  Drives = 4
  DeviceOf <- MCDeviceOf
  Volumes <- MCVolumes
  MaxRoutes = 3
  MaxReroutes = 2
  DeviceLists <- MCDeviceLists
  Typed = {0, 1, 2, 3}
CHECK_DEADLOCK FALSE
INVARIANTS
  OverreadsOnlyMalformed
  StayingVisitedOnce
  OwnDriveUnlessShadowed
  TableFitsOrGrew
  EverythingReleased
PROPERTY
  ToolsEnd

SPECIFICATION SdSpec
CONSTANTS
  SdBlkNum = 3
  SdBlkSize = 4
  SdSectorSize = 2
  SdSize = 4
  SdNumEvents = 6
  SdImages <- PastTheEnd
  SdPackets = {3, 4}
  MaxSdImages = 1
  MaxSdFaults = 0
  MaxSdResends = 0
CHECK_DEADLOCK FALSE
INVARIANT WriteErrorTold

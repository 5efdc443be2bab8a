SPECIFICATION Spec
CONSTANTS
  LOAD_BLK_NUM = 3
  LOAD_BLK_SIZE = 2
  PROCESS_CONF_NUMEVENTS = 6
  SPIROM_BLK32_SIZE = 4
  SPIROM_BLK64_SIZE = 8
  FlashSize = 16
  Timeout = 2
  Images <- TwoImages
  Regions <- NoRegion
  EraseChip = TRUE
  Packets = {2, 3}
  MaxOps = 2
  MaxFaults = 0
  MaxResends = 0
  Restart = FALSE
CHECK_DEADLOCK FALSE
INVARIANT ChipIsErased

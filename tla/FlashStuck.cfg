SPECIFICATION Spec
CONSTANTS
  LOAD_BLK_NUM = 3
  LOAD_BLK_SIZE = 2
  PROCESS_CONF_NUMEVENTS = 6
  SPIROM_BLK32_SIZE = 4
  SPIROM_BLK64_SIZE = 8
  FlashSize = 8
  Timeout = 2
  Images <- SmallImages
  Regions <- OneRegion
  EraseChip = FALSE
  Packets = {1, 2}
  MaxOps = 2
  MaxFaults = 1
  MaxResends = 0
  Restart = TRUE
CHECK_DEADLOCK FALSE
PROPERTY EveryCommandAnswered

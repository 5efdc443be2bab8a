SPECIFICATION DriversSpec
CONSTANTS
  LOAD_BLK_NUM = 3
  LOAD_BLK_SIZE = 2
  PROCESS_CONF_NUMEVENTS = 6
  SPIROM_BLK32_SIZE = 4
  SPIROM_BLK64_SIZE = 8
  FlashSize = 8
  Timeout = 2
  Images <- LongImage
  Regions <- OneRegion
  EraseChip = FALSE
  Packets = {2, 3}
  MaxOps = 3
  MaxFaults = 1
  MaxResends = 0
  Restart = TRUE
  Bauds <- Rates
  PllRequests <- Requests
  MaxCommands = 3
  MaxCalls = 2
  Channels = {0, 1}
  MAX_BLK_TS = 2
  Ports <- SomePorts
  Amounts = {1, 2, 3}
  Transfers <- SomeTransfers
  Lists <- SomeLists
  MaxTransfers = 2
  MaxFails = 1
  SdBlkNum = 3
  SdBlkSize = 4
  SdSectorSize = 2
  SdSize = 7
  SdNumEvents = 6
  SdImages <- CardImages
  SdPackets = {3}
  MaxSdImages = 2
  MaxSdFaults = 1
  MaxSdResends = 1
  CardBlocks = 3
  SdOps <- SomeSdOps
  MaxSdOps = 3
  MaxCardFaults = 2
CHECK_DEADLOCK FALSE
PROPERTY NoLostWakeup
INVARIANT QueueNeverFull
PROPERTY RingRefined
INVARIANT ReportsAsAsked
INVARIANT BusesWithinLimits
INVARIANT ConfiguredMeansRate
INVARIANT MovedAsAsked
INVARIANT RunsForItsOwner
INVARIANT BusyWillEnd
INVARIANT SdAckedIsWritten
INVARIANT HandlerReturns
PROPERTY SdStoreImplemented

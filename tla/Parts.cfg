SPECIFICATION PartsSpec
CONSTANTS
  FlashSize = 32
  SPIROM_SECTOR_SIZE = 4
  SPIROM_PAGE_SIZE = 4
  SPIROM_BLK32_SIZE = 8
  SPIROM_BLK64_SIZE = 16
  WordSize = 2
  Blank = Blank
  Garbage = Garbage
  Timeout = 3
  Calls <- SomeCalls
  MaxCalls = 2
  MaxFaults = 1
  SDCARD_IMAGE_OFFSET_SECTOR = 4
  SampledBlocks = 2
  NoRun = NoRun
  BootImages <- SomeImages
  Devices <- SomeDevices
  Packets <- SomePackets
  MAX_WRITE_BLOCK = 9
  BlockSize = 5
  HeaderSize = 4
  ExtraBytes = 4
  uart_time_out_max = 2
  HalfQueue = 1
  FifoSize = 1
  MaxHurt = 1
  MaxPauses = 1
  MaxAfter = 1
CHECK_DEADLOCK FALSE
PROPERTY StoreImplemented
PROPERTY CallReturns
INVARIANT RunIsVerified
INVARIANT UpgradeIsLastResort
PROPERTY BootDecides
INVARIANT DealtOnce
INVARIANT AnswerUndisturbed
PROPERTY FrameAnswered

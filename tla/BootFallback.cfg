SPECIFICATION BootSpec
CONSTANTS
  SDCARD_IMAGE_OFFSET_SECTOR = 4
  SampledBlocks = 2
  NoRun = NoRun
  BootImages <- SomeImages
  Devices <- SomeDevices
CHECK_DEADLOCK FALSE
INVARIANT FallbackToFlash

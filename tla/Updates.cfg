CONSTANTS
  PROCESS_CONF_NUMEVENTS = 2
  NumProcs = 2
  Ev <- MCEv
  Data <- MCData
  MainEvent <- MCMainEvent
  IsrEvent <- MCIsrEvent
  IsrPolled <- MCIsrPolled
  NoEvent = NoEvent
  MaxCalls = 1
  FlashSize = 14
  SPIROM_SECTOR_SIZE = 2
  Blank = Blank
  Garbage = Garbage
  Setups <- Products
  Images <- Files
  Packets <- Parts
  Sizes = {4, 6}
  Sampled = 2
  MaxStarts = 2
  MaxWrites = 2
  MaxErrors = 1
  MaxResets = 1
SPECIFICATION UpdatesSpec
CHECK_DEADLOCK FALSE
INVARIANT TypeOK
INVARIANT PollNotLost
PROPERTY PollServed
INVARIANT OtaTypeOK
INVARIANT FlaggedIsComplete
INVARIANT ConfirmedIsFound
PROPERTY NewestSurvives
PROPERTY OverwriteConfined

CONSTANTS
  PROCESS_CONF_NUMEVENTS = 3
  NumProcs = 2
  Ev <- MCEv
  Data <- MCData
  MainEvent <- MCMainEvent
  IsrEvent <- MCIsrEvent
  IsrPolled <- MCIsrPolled
  NoEvent = NoEvent
  MaxCalls = 1
SPECIFICATION QuietSpec
PROPERTY ImplementsFifo
PROPERTY EventServed

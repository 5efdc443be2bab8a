CONSTANTS
  PROCESS_CONF_NUMEVENTS = 2
  NumProcs = 2
  Ev <- MCEv
  Data <- MCData
  MainEvent <- MCMainEvent
  IsrEvent <- MCIsrEvent
  IsrPolled <- MCIsrPolled
  NoEvent = NoEvent
  MaxCalls = 1
SPECIFICATION Spec
PROPERTY AcceptedIsQueued

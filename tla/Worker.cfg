SPECIFICATION Spec
CONSTANTS
  MaxUploads = 3
  MaxHandlers = 2
  MaxFaults = 2
  MaxStops = 2
  Faulty = {"drain", "process", "reread", "rereading", "finish"}
INVARIANTS
  TypeOK
  NoLostWakeup
PROPERTIES
  EveryRereadTaken
  ShutdownReturns
  ImplementsQueue

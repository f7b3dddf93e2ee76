SPECIFICATION Spec
CONSTANTS
  MaxUploads = 3
  MaxHandlers = 2
  MaxFaults = 1
  MaxStops = 1
  Faulty = {"requeue"}
PROPERTIES
  DrainsWhileRunning
CHECK_DEADLOCK FALSE

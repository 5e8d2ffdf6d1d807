SPECIFICATION FairSpec
CONSTANTS
  c1 = c1
  c2 = c2
  Collectors <- OneCollector
  Cap = 2
  BatchSize = 2
  MaxQueue = 8
  Burst = 1
  Severe <- NoSevere
  Development = TRUE
  CoarseClock = FALSE
  DiskFaults = FALSE
  MaxEvents = 1
  MaxStarts = 2
  MaxAdrift = 0
PROPERTY FlushedEventsArrive
CHECK_DEADLOCK FALSE

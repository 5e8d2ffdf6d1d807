SPECIFICATION FairSpec
CONSTANTS
  c1 = c1
  c2 = c2
  Collectors <- OneCollector
  Cap = 2
  BatchSize = 1
  MaxQueue = 8
  Burst = 3
  Severe <- SevereEvents
  Development = TRUE
  CoarseClock = FALSE
  DiskFaults = FALSE
  MaxEvents = 3
  MaxStarts = 1
  MaxAdrift = 0
PROPERTY StopsGracefully
CHECK_DEADLOCK FALSE

SPECIFICATION FairSpec
CONSTANTS
  c1 = c1
  c2 = c2
  Collectors <- TwoCollectors
  Cap = 2
  BatchSize = 2
  MaxQueue = 8
  Burst = 2
  Severe <- SevereEvents
  Development = TRUE
  CoarseClock = FALSE
  DiskFaults = FALSE
  MaxEvents = 3
  MaxStarts = 1
  MaxAdrift = 0
PROPERTIES
  SenderReturns
  StopsWhileRoom
  NoStarvation
CHECK_DEADLOCK FALSE

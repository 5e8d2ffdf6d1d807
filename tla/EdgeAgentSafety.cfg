SPECIFICATION Spec
CONSTANTS
  c1 = c1
  c2 = c2
  Collectors <- OneCollector
  Cap = 2
  BatchSize = 2
  MaxQueue = 2
  Burst = 2
  Severe <- SevereEvents
  Development = TRUE
  CoarseClock = TRUE
  DiskFaults = TRUE
  MaxEvents = 3
  MaxStarts = 2
  MaxAdrift = 1
INVARIANTS
  TypeOK
  NoSilentLoss
  HeldOnce
  DuplicateNeedsLostReply
  ResendsOnlyUnsure
  QueueBound
PROPERTY KeepsPromise
CHECK_DEADLOCK FALSE

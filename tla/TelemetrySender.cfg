SPECIFICATION FairSpec
CONSTANTS
  MaxQueue = 2
  Severe <- SevereEvents
  MaxEvents = 4
  MaxStarts = 2
  MaxAdrift = 1
INVARIANTS
  TypeOK
  HeldOnce
  DuplicateNeedsLostReply
PROPERTIES
  KeepsPromise
  NoStarvation
CHECK_DEADLOCK FALSE

SPECIFICATION Spec
CONSTANTS
  MaxQueue = 2
  Severe <- SevereEvents
  MaxEvents = 4
  MaxStarts = 1
  MaxAdrift = 0
PROPERTY OldestDropped
CHECK_DEADLOCK FALSE

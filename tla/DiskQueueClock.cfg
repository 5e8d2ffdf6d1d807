SPECIFICATION Spec
CONSTANTS
  MaxQueue = 5
  Bodies <- TwoBodies
  Clock <- Readings
  StepsBack = TRUE
  WriteFaults = FALSE
PROPERTY KeepsOrder
CHECK_DEADLOCK FALSE

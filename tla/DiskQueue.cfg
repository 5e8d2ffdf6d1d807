SPECIFICATION Spec
CONSTANTS
  MaxQueue = 5
  Bodies <- TwoBodies
  Clock <- Readings
  StepsBack = FALSE
  WriteFaults = TRUE
INVARIANTS
  TypeOK
  StepsAddUp
PROPERTY KeepsOrder
CHECK_DEADLOCK FALSE

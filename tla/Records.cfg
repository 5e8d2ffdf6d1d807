SPECIFICATION Spec
CONSTANTS
  Requests = {r1, r2, r3}
  Mixes <- MCMixes
  OldCase = OldCase
  OldAlert = OldAlert
  OldDevice = OldDevice
  OldPolicy = OldPolicy
  OldAction = OldAction
  OldUser = OldUser
  Bad = Bad
  Names = {n1, n2}
  OldName = n1
  Texts = {t1, t2}
  Hosts <- MCHosts
SYMMETRY Symmetry
CHECK_DEADLOCK FALSE
INVARIANTS TypeOK FailedLeavesNoTrace FailuresExplained EntriesKept FindingsAgree CountsExplained
PROPERTIES ReopenNeedsEntry StatusAsAsked HeartbeatKeepsStatus

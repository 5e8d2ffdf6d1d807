SPECIFICATION Spec
CONSTANTS
  Procs = {w1, w2}
  LocalProc = w1
  Users = {u1}
  AccessLife = 1
  RefreshLife = 2
  MaxTime = 3
  MaxRestarts = 2
  MaxTokens = 4
  Workers = {w1, w2}
  MaxVersion = 4
  MaxUploads = 5
  MaxRequests = 2
  Window = 3
  MaxAsked = 7
  MaxClock = 9
  Nodes = {n1, n2}
  Batches = {b1}
  Payloads <- MCPayloads
  Sockets = {s1, s2}
  ColumnSets <- SourceColumns
  MaxDeliveries = 2
  MaxStarts = 2
  Parts = {"stream"}
SYMMETRY Symmetry
CHECK_DEADLOCK FALSE
INVARIANT AllClientsHear

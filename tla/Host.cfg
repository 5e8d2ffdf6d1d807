SPECIFICATION Spec
CONSTANTS
  Paths = {f1, f2}
  Contents = {c1, c2}
  Devices = {d1}
  Media = {m1, m2}
  None = None
  MaxRuns = 3
  Pids = {p1, p2, p3}
  Programs = {x1, x2, x4}
  Guarded = {x4}
  NoProgram = NoProgram
  NoRunes = {p2, p3}
  Suspects = {x1, x2}
  MaxAgents = 2
  Ips = {a1, a2}
  MaxRules = 2
  MaxManagers = 3
SYMMETRY Symmetry
INVARIANTS TypeOK HostReported ProcessesAccounted BlockedMatchesRules

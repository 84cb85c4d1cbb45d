SPECIFICATION Spec
CONSTANTS
  p1 = p1
  p2 = p2
  s1 = s1
  s2 = s2
  Null = Null
  SlotIds = {i1, i2}
  Profiles = {p1}
  Sandboxes = {s1, s2}
  Forks = {s2}
  RuntimeIds = {r1, r2}
  Threads = {t1, t2}
  Deployments <- BootedEmpty
  CleanupMayFail = FALSE
  MaxApply = 1
SYMMETRY Symmetry
INVARIANTS
  FreeSlotIsClean
  OneRestoreAtATime
PROPERTIES
  KeepsWorkerContract

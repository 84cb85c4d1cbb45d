SPECIFICATION SchedulerSpec
CONSTANTS
  p1 = p1
  p2 = p2
  u1 = u1
  u2 = u2
  Null = Null
  Workers = {1, 2}
  SlotIds = {0, 1}
  Profiles = {p1, p2}
  Sandboxes = {u1, u2}
  Wants <- BothWantOne
SYMMETRY Symmetry
INVARIANTS
  SchedulerTypeOK
  NoDoubleAssignment
PROPERTIES
  PacksUsedWorkersFirst

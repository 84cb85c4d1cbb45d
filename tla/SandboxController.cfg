SPECIFICATION Spec
CONSTANTS
  p1 = p1
  Null = Null
  Workers = {1}
  SlotIds = {0}
  Profiles = {p1}
  Sandboxes = {u1, u2}
  Wants <- AllWantOne
  ProfileAt <- OneProfile
  FlakyPolls = TRUE
  Conns = {}
  MaxDisruptions = 0
SYMMETRY Symmetry
INVARIANTS
  AssignmentsExclusive
  LiveOwnerIsAssigned
PROPERTIES
  SchedulerSpec

SPECIFICATION Spec
CONSTANTS
  p1 = p1
  Null = Null
  Workers = {1}
  SlotIds = {0}
  Profiles = {p1}
  Sandboxes = {u1}
  Wants <- AllWantOne
  ProfileAt <- OneProfile
  FlakyPolls = FALSE
  Conns = {}
  MaxDisruptions = 1
SYMMETRY Symmetry
INVARIANTS
  OwnerExists

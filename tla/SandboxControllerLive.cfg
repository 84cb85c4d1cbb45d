SPECIFICATION FairSpec
CONSTANTS
  p1 = p1
  Null = Null
  Workers = {1}
  SlotIds = {0}
  Profiles = {p1}
  Sandboxes = {u1}
  Wants <- AllWantOne
  ProfileAt <- OneProfile
  FlakyPolls = FALSE
  Conns = {c1}
  MaxDisruptions = 1
PROPERTIES
  EventuallyRunning
  DeletionCompletes

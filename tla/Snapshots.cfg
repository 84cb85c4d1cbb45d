SPECIFICATION Spec
CONSTANTS
  Null = Null
  Files = {f1, f2}
  Children = {c1, c2}
  Others = {c2}
  Kata = FALSE
  StaleCache = FALSE
  MaxSaves = 3
  MaxFaults = 2
INVARIANTS
  ReadyIsComplete
  ChildFromOneSave
PROPERTIES
  ForkEnds
  DeletionCompletes
  ErasedOnRemoval
CHECK_DEADLOCK FALSE

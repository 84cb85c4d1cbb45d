SPECIFICATION Spec
CONSTANTS
  Null = Null
  Files = {f1, f2}
  Children = {c1}
  Others = {}
  Kata = TRUE
  StaleCache = TRUE
  MaxSaves = 2
  MaxFaults = 0
INVARIANTS
  ReadyIsComplete
CHECK_DEADLOCK FALSE

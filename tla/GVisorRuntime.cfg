SPECIFICATION Spec
CONSTANTS
  Null = Null
  a = a  b = b  c = c
  Sandboxes = {a, b, c}
  From <- ForkFrom
  SlotOf <- TwoSlots
  HangUps = TRUE
  MaxFaults = 3
INVARIANTS RestoredIsWhole NoFilesOutlive
PROPERTIES NetworkLeavesByOwnCall RestoresEnd
CHECK_DEADLOCK FALSE

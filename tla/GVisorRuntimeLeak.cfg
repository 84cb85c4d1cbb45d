SPECIFICATION Spec
CONSTANTS
  Null = Null
  a = a  b = b  c = c
  Sandboxes = {a, b, c}
  From <- ForkFrom
  SlotOf <- TwoSlots
  HangUps = TRUE
  MaxFaults = 1
INVARIANTS NothingOutlives
CHECK_DEADLOCK FALSE

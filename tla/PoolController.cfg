SPECIFICATION Spec
CONSTANTS
  Null = Null
  Profiles = {1, 2}
  Size <- UnitSize
  Cri = TRUE
  Allowance = 1
  Specs <- PoolSpecs
  Edits <- PoolEdits
  MaxWorkers = 2
  MaxEdits = 1
  MaxFaults = 1
  MaxOccupied = 1
INVARIANTS
  SettledStatusIsTrue
PROPERTIES
  TopologyConverges
  CapacityIsOffered

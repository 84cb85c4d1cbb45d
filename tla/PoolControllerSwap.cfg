SPECIFICATION Spec
CONSTANTS
  Null = Null
  Profiles = {1, 2}
  Size <- UnitSize
  Cri = FALSE
  Allowance = 1
  Specs <- SwapSpecs
  Edits <- SwapEdits
  MaxWorkers = 1
  MaxEdits = 1
  MaxFaults = 0
  MaxOccupied = 0
PROPERTIES
  TopologyMatches

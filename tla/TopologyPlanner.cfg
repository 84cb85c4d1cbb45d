SPECIFICATION Spec
CONSTANTS
  Profiles = {1, 2}
  MaxId = 2
  MaxCount = 2
INVARIANTS
  PlanUniqueIds
  PlanKeepsBusy
  PlanMeetsCounts
  DropsHighestFirst
  PlanIsStable
CHECK_DEADLOCK FALSE

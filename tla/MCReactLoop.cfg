\* Two threads, whose runs may overlap.
SPECIFICATION Spec
CONSTANTS
  Default = d
  Threads = {d, e}
  Nobody = Nobody
  MaxNudges = 2
  MaxRetries = 2
  RecursionLimit = 6
  MaxCalls = 1
  MaxTurns = 2
  MaxFaults = 1
INVARIANTS
  OwnPlan
  NudgesJustified
  PlansSurvive
PROPERTIES
  RunsEnd
CHECK_DEADLOCK FALSE

SPECIFICATION Spec
CONSTANTS
  Area = {"A", "B", "C", "M", "N"}
  Cfgs <- MCCfgs
  Chips = 2
  Hidden = {2}
  MaxAsks = 2
  MaxRuns = 3
  MaxFailures = 1
INVARIANTS StartedAsAsked NeverStuck SavedFirst ReadsRight InjectRight
CHECK_DEADLOCK FALSE

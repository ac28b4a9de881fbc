CONSTANTS
  AdcVals = {128}
  QueueSz = 5
  Burst = 1
  Disturbances = {"reset", "unset_config", "halt"}
  MaxDisturb = 1
SPECIFICATION Spec
INVARIANTS TypeOK ClaimProtects ReportsMeasured QueueSuffices
PROPERTIES ControlCompletes ReportsFlow

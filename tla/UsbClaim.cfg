CONSTANTS
  AdcVals = {128}
  QueueSz = 5
  Burst = 1
  Disturbances = {"reset"}
  MaxDisturb = 1
SPECIFICATION SafeSpec
INVARIANT ClaimsReleased

CONSTANTS
  Period = 3
  CntMod = 3
  MaxPresses = 5
SPECIFICATION Spec
INVARIANTS TypeOK ReportedOnce
PROPERTY HeldIsSeen

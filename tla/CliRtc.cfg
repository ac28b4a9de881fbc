CONSTANTS
  Lines <- MCLines
  MaxTicks = 3
  MaxResets = 2
SPECIFICATION Spec
INVARIANTS TypeOK CalendarValid CalendarRuns
PROPERTIES CalendarKept StoppedClockStays SetAsTyped TimeAsStored

CONSTANTS
  Tasks = {"low", "recv", "high"}
  Idle = "idle"
  Priority <- MCPriority
  Program <- MCProgram
  Queues = {"lock", "sem", "queue"}
  Mutexes = {"lock"}
  Length <- MCLength
  TickMod = 4
  MaxPended = 1
SPECIFICATION Spec
INVARIANTS
  TypeOK
  HighestRuns
  NoLostWakeup
  InheritsPriority
  OnlyHoldersRaised
  DelaysExact
PROPERTY UrgentRuns

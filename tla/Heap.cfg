CONSTANTS
  Tasks = {cli, led, tty}
  HeapSize = 3
  Incrs = {1, 2}
  MaxDepth = 2
SPECIFICATION Spec
CHECK_DEADLOCK FALSE
INVARIANTS TypeOK BlocksDisjoint BlocksInHeap IndInv

CONSTANTS
  cli = cli
  led = led
  Tty = tty
  Tasks = {cli, led, tty}
  NoTask = NoTask
  MaxLen = 1
  Readers = {cli}
  Prio <- MCPrio
  QueueLen = 2
  CntMod = 4
  RxSizes = {4}
  Chars = {a}
  MaxBytes = 4
  MaxPrints = 0
CHECK_DEADLOCK FALSE
SPECIFICATION SafeSpec
INVARIANT StopsWhenFull

CONSTANTS
  cli = cli
  led = led
  Tty = tty
  Tasks = {cli, led, tty}
  NoTask = NoTask
  MaxLen = 2
  Readers = {cli}
  Prio <- MCPrio
  QueueLen = 1
  CntMod = 4
  RxSizes = {2}
  Chars = {a}
  MaxBytes = 0
  MaxPrints = 2
CHECK_DEADLOCK FALSE
SPECIFICATION SafeSpec
INVARIANT TxReturnsCount

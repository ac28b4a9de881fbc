CONSTANTS
  cli = cli
  led = led
  Tty = tty
  Tasks = {cli, led, tty}
  NoTask = NoTask
  MaxLen = 1
  Readers = {cli}
  Prio <- MCPrio
  QueueLen = 1
  CntMod = 4
  RxSizes = {2}
  Chars = {a}
  MaxBytes = 2
  MaxPrints = 1
CHECK_DEADLOCK FALSE
SPECIFICATION Spec
INVARIANTS TypeOK StoresInLiveBuffer HandshakeClean IndInv
PROPERTIES KeepsTransmitHalf WritesReturn ImplementsLineInput

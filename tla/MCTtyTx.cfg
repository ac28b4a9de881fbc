CONSTANTS
  Tasks = {cli, led, tty}
  NoTask = NoTask
  MaxLen = 2
SPECIFICATION Spec
INVARIANT TypeOK
INVARIANT IsrReadsLiveBuffer
INVARIANT TokenIsFresh
INVARIANT IndInv
PROPERTY FrozenWhileSending
PROPERTY ImplementsService

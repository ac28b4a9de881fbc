# Verification of the tanenbaum firmware

TLA+ models of the firmware for the STM32F407 board, checked with TLC on small
instances, and proofs about them checked with TLAPS. Paths are relative to the
repository; `U` below is `Src/usart1_driver.c`.

## The system

`main` (Src/main.c) sets up clocks and the real-time clock, creates the tasks
and starts FreeRTOS. Tasks run by fixed priority and preempt each other.

| part | code | priority | talks to |
|---|---|---|---|
| command line `cli_task` | Src/cli.c | 2 | tty (through newlib), RTC, LED1 |
| `BlinkLed_Task` | Src/main.c | 3 | tty (printf), button, LED2 |
| `TTY_Task` and USART1 handler | U | 30 | every task that prints or reads |
| `usb_hid_task` | Src/usb_device.c | 39 | ADC, tinyusb |
| `usb_device_task` | Src/usb_device.c | 40 | tinyusb, OTG_FS handler |
| newlib system calls | Src/newlib_syscalls.c | of the caller | tty, heap in CCMRAM |
| RTC start-up | Src/main.c, LL driver | before the scheduler | backup domain |
| I2C flash | Src/i2c_flash.c | never called | |
| FreeRTOS, tinyusb, LwIP, LL drivers, CMSIS | third-party | | LwIP is linked, not used |

`PROJECT.json` lists the parts with their status, the map from definitions to
source lines, the runs, mutants, findings, hazards and theorems.

## Modules

**TtyTx** is the transmit half of the driver. `pc[t]` is the next statement of
task t in `tty_driver_tx`; every statement that touches `tty` is an action
(`TakeLock` ... `Return`), and tasks interleave in any order. `IsrTxe` is the
transmit branch of `USART1_IRQHandler`, one step because no task runs until the
handler returns. `ShiftOut` is the hardware emptying the data register. A buffer
is named by the task that passed it, and a byte by its buffer and index.

**TxService** is what that half promises: one message at a time goes out whole,
in order, and a call returns after its last byte. `TtyTx!ImplementsService` maps
the driver to it; the number of bytes sent is `tx_ind` until the handler resets it.

**TtyDriver** is the whole driver. It instantiates TtyTx and adds `tty_driver_rx`
(`RxTakeLock` ... `RxReturn`), the statements of `TTY_Task` (`tpc`), the receive
branch of the handler (`ReceiveIrq`) with the queue, and the data register with
overrun (`ShiftIn`). A task steps only if it `Runs`: it is ready and no wanting
task has a higher priority, where the holder of a mutex has the priority of those
waiting for it (FreeRTOS tasks.c and queue.c). Whether a `printf` reaches
`_write` at once depends on the `st_mode` that `_fstat` leaves uninitialised, so
`Stdout` allows both. `mem` is what has been stored at `tty.rx_buf`.

**LineInput** is what a reader is promised: an open line collects characters, a
backspace removes the last, Enter or a full buffer completes it, and a complete
line is delivered with its length. `TtyDriver!ImplementsLineInput` maps to it.

**NewlibHeap** is `_sbrk` under task switches: `SuspendAll`, `ReadEnd`,
`NoMemory` (the error path), `Grow`, `ResumeAll`; `Wait` is any later wait for a
semaphore, with the kernel's assertion.

**RtcFormat** holds the pure conversions between typed digits, BCD and the words
of TR and DR, with the meaning of those words to the hardware as reference.

**CliRtc** is the RTC from power-on: the steps of `SystemClock_Config` and
`rtc_init` (`bpc`), the commands of cli.c (`cpc`), the calendar counting between
any two steps (`Tick`), and `Reset` and `PowerLoss` at any moment. A line is the
words the matchers compare. The backup domain (`lseon` ... `dr`) survives `Reset`.

**BlinkLed** is `BlinkLed_Task`, with the button changing between any two of its
statements.

**Kernel** is the part of FreeRTOS all of this rests on. Every task runs a
program of calls (`take`, `give`, `delay`, `sbrk`) over and over; `step` is where
in the call it is. `xQueueSemaphoreTake` and `xQueueReceive` are `Take`,
`SuspendAll`, `LockQueue`, `IsQueueEmpty`, `PriorityInherit`, `PlaceOnEventList`,
`BlockForEver`, `UnlockQueue`, `Resume`/`Yield` or `ResumeRetry`: a critical
section is one step and an interrupt may come between any two. `GiveFromISR` is a
handler's give and its `portYIELD_FROM_ISR`; since `USART1_IRQHandler` never
initialises `xHigherPriorityTaskWoken`, it may pend a switch with nobody woken.
`Tick` is SysTick over a count that wraps, with both delayed lists and the ticks
pended while the scheduler is suspended; `SwitchContext` is PendSV. While PendSV
is pended (`pendsv`) no task takes a step.

**UsbHid** is the mouse: the statements of `usb_hid_task` down through
`tud_hid_n_report`, `tu_edpt_claim` and `usbd_edpt_xfer` (`hpc`; setting a bit of
the endpoint's state byte is a load and a store), the device task of tinyusb
(`On...`, one step per event, as it has the higher priority), the interrupts of
the controller with the event queue, and a host that enumerates, polls, sends
requests and may reset, unconfigure or halt the device. `get` stands for every
request answered with data, `unsupported` for every request that is stalled.

`MC*` modules give constants their values; `*Proofs` modules and KernelInv hold the
theorems.

## What the runs check

Runs that hold:

| run | question | states |
|---|---|---|
| tty_tx | Does the transmit half hold up under every scheduling of three tasks? The handler reads only the buffer of the task blocked on it (`IsrReadsLiveBuffer`), buffer and length are frozen under it, a completion is never taken for another (`TokenIsFresh`), and the service is implemented, including that a transfer ends. | 212,097 |
| tty | The whole driver under the firmware's priorities: does `TTY_Task` store only into the buffer of the blocked reader and inside it; is the hand-over clean for the next read; does the transmit half still behave as TtyTx; does every write return; does the reader get the edited line and its length, and is a complete line delivered? | 104,432 |
| heap | Is what `_sbrk` hands out disjoint and inside the array, with failing calls among the others? | 34,587 |
| cli_rtc | Is the calendar valid, running at the prompt, untouched by start-up after a reset, at rest while it has no clock, and as typed? Is the time shown the time stored? | 20,881 |
| blink | Is a press reported at most once, and a held button seen? | 1,764 |
| usb_hid | Two tasks report on one endpoint: is a report sent only on the open endpoint and never overwritten or overtaken by the echo (`ClaimProtects`)? Does it carry measured samples of both axes? Does the event queue suffice, does every control transfer end, also while `usb_hid_task` transfers on endpoint 0, and do reports keep coming? | 116,788 |
| kernel | Is no wake-up lost between finding a queue empty and waiting on it? Does the most urgent ready task run? Is a mutex's holder raised to its waiters, and only a holder? Does a delay last exactly its ticks? Does the most urgent task get its turn while a middle one never sleeps? | 211,364 |

Runs that fail, each a disagreement between the code and what the repository
says of it (`findings` in PROJECT.json quotes the lines):

- **tx_count**: `tty_driver_tx` reads `tty.tx_num` after giving the mutex back and
  may return the length of another task's call. newlib takes a short count for a
  partial write, and a long one for more bytes than it has.
- **rx_wrap**: `cnt` is a `uint8_t`; with a buffer of 256 bytes or more (newlib
  asks for 1024 by default) it wraps before the buffer is full.
- **heap_suspend**: `_sbrk` leaves the scheduler suspended when memory runs out,
  and the next semaphore wait fails a kernel assertion.
- **rtc_stale**: `date get` after `time get` prints the date of the `time get`.
- **usb_claim**: `tud_hid_n_report` reads `p_hid->ep_in` for the claim and again for
  the transfer. A bus reset that the device task handles in between leaves the HID
  endpoint claimed with no transfer to release it, and the mouse is silent until
  the next reset. (Halting the endpoint and clearing the halt has the same end, with
  no race: `usbd_edpt_clear_stall` clears `busy` and not `claimed`.)

How far each of these promises does hold is proved (below): `UrgentCount`,
`FullBufferEnds`, `HaltsOnlyWhenExhausted`, `DateFresh` and `EndpointServed`.

Four more disagreements need no exploration. On the first start after a loss of
power `rtc_init` resets the backup domain, and with it LSE, which
`SystemClock_Config` had just enabled: the RTC has no clock until the next reset,
although README.md:22 calls it clocked by LSE. `StoppedClockStays` shows, and
`StoppedUntilReset` proves, that nothing typed starts it. The heap array and the main stack
share all of CCMRAM (`HEAP_SIZE` in `_sbrk`, `_estack` in the linker script),
although the script speaks of a link error when they do not fit. The weekday
written with a date is 0 for every date (theorem `NoWeekday`), where the comment
in cli.c means Monday. The help text offers `date set YY::MM:DD` and `i2c`, which
the matchers reject.

Every property of a passing run has a mutant: a plausible bug, written beside
the definition it changes, under which TLC finds the property violated.

### Bounds

The tty runs have the firmware's three tasks and priorities, one reader,
messages of one byte in `tty` and of up to two in tty_tx (the handler's first and
last byte differ at two), read buffers of two bytes (a line is ended by Enter or
by a full buffer), a queue of one byte (it overflows), two bytes from the terminal,
and `CntMod` 4 for the 256 values of `cnt`: what matters is whether the buffer is
smaller than that range (tty) or not (rx_wrap). The proofs cover all other values
for the safety properties. Deadlock is not checked there, since the bounded
terminal falls silent and the reader then rightly waits for ever; `WritesReturn`
and `ImplementsLineInput` state the progress that matters. The heap has three
bytes, so it runs out after two or three calls, and suspension nests to depth two;
a halted system stops, so deadlock is not checked. cli_rtc types lines on both
sides of every limit of the parser, lets three seconds pass (23:59:58 on 31
December 99 reaches the next year) and allows two resets. blink has a period of 3
and 5 presses, more than `CntMod`, so the counter wraps.

kernel has three tasks with the shapes the firmware's tasks have (one that holds
the lock while it waits for an interrupt and then sleeps, one that receives,
allocates and takes the lock, one that takes the lock and sleeps), so all three
meet at the lock and inheritance happens; a tick count that wraps at 4, so delays
of 1 and 2 cross the wrap; one pended tick. usb_hid has one joystick position
(128, whose delta 0 differs from the -3 of a register's reset value), one bus event
during the making of a report (`Burst`: a report takes microseconds, a transaction
tens of them), one disturbance, and a queue of 5 where the code has 16: if 5 are
never filled, 16 are not. `QueueNeverFull` proves it for eight and more without a
bound on bursts and disturbances.

### Fairness

- TtyTx: weak fairness of each statement of a task past the mutex, of the handler
  and of the transmitter. The kernel never drops a ready task, and priority
  inheritance keeps a holder schedulable.
- TtyDriver: weak fairness of the statements of each task, which may be taken only
  when the task runs under the priorities, of the handler and of the hardware.
  Nothing is assumed of the terminal or of when a task writes or reads. run tty
  bounds the writes and the bytes: under an endless stream of input `TTY_Task`
  may starve the tasks below it, as in any priority system.
- BlinkLed: the task always takes another step. Its delay is 50 ms, and its
  `printf` returns by `WritesReturn`.
- UsbHid: the tasks run (strong for `usb_hid_task`, which runs whenever the device
  task waits, weak for the device task, the more urgent one), a conversion ends,
  and the host completes the control transfers it starts and polls the endpoint,
  each again and again possible between the steps of a report. It need not start
  any.
- Kernel: PendSV is taken, the running task runs between interrupts, the timer
  ticks and the devices interrupt again. Nothing is assumed of any one task: that
  the most urgent gets its turn is what `UrgentRuns` checks.
- NewlibHeap and CliRtc state safety only.

## What is proved

For every value of the constants, from the named assumptions only (types of the
constants; `NoTask` is not a task; where stated, how programs use mutexes, or bounds
on the queue and the burst):

- **TtyTxProofs**: `IndInvHolds`, and from it `TypeCorrect`, `IsrSafety`,
  `TokenSafety`, `FrozenSafety`. `IsrReadsLiveBuffer` is not inductive: it needs
  that the mutex is held exactly between its two calls (`LockInv`), that each
  field of `tty` agrees with the holder's arguments from the statement that sets
  it on, and that a blocked holder has its interrupt on or its token waiting
  (`SetupInv`), and that `tx_ind` is 0 between transfers.
  `ImplementsServiceSafely` maps each step to a step of TxService or a stutter.
- **TtyDriverProofs**: `IndInvHolds`, and from it `StoreSafety`, `HandshakeSafety`,
  `FullBufferEnds`, `TransmitHalfKept` and `ImplementsLineInputSafely`. The
  invariant ties the place of the reader in `tty_driver_rx` and of `TTY_Task` in
  its loop to `rx_enable`, the semaphore and the stored characters: `cnt` counts
  them while a line is open, and only one of the two is in the middle of the
  hand-over. `FullBufferEnds` and the implementation need every buffer smaller
  than the range of `cnt` (`NoWrap`); rx_wrap shows that they need it.
  `UrgentCount`: the most urgent of the writing tasks, in the firmware `TTY_Task`,
  always gets the length of its own message back. From its last semaphore call to
  its return it is ready and waits for nobody, so no other task runs and
  `tty.tx_num` is still its own (`CountInv`). tx_count fails for the others only.
- **NewlibHeapProofs**: `HeapIndInv`, `HeapDisjoint`, `HeapBounded`. The
  strengthening says that a task between the two kernel calls is the running one
  with the scheduler suspended, so its `prev_heap_end` is exact.
  `HaltsOnlyWhenExhausted`: as long as every request still fits, suspensions and
  resumptions balance (`BalanceInv`) and nobody waits for a semaphore with the
  scheduler suspended. The error path that heap_suspend takes is the only way there.
- **BlinkLedProofs**: `ReportedOnceHolds`. Inductive with: an unnoticed press has
  not been reported.
- **CliRtcProofs**: `CalendarAlwaysValid`, `CalendarAlwaysRuns`,
  `CalendarAlwaysKept`, `StoppedUntilReset`, `AlwaysSetAsTyped` and
  `TimeAlwaysAsStored`, for every set of lines and any number of seconds and
  resets. `RtcInv` says that TR and DR are the words of a time and a date, that a
  word about to be written is one too, that commands run only after start-up, that
  the backup domain is reset only when LSE is not selected, and that a clocked RTC
  is in initialisation mode only inside a set command or before start-up ends.
  `DateFresh`: a `date get` after a `time set`, a `date set` or a `date get` prints
  the date in DR, whatever midnights passed; only a `time get` before it, as in
  rtc_stale, makes it an old one. `PrintedDateValid`: even then it is a date. Both
  rest on `ShadowInv`, which says when the shadow of DR is locked and that what is
  locked in it is the word of a date.
  About RtcFormat: `TimeRoundTrip`, `DateRoundTrip`, `TimeDigits` and `NoWeekday`,
  for all times and dates the parser accepts.
- **UsbHidProofs**: four invariants, one on top of the other where they meet.
  - `MeasuredSafety`: a report is on the wire only after a configuration, which
    comes after a reset that lasts longer than two sleeps, and so after both ranks
    were converted; the invariant counts along. With it `DeltaSymmetric` and
    `DeltaMonotone` about `get_delta_by_adc_val`.
  - `QueueNeverFull`: a queue of eight or more never fills up, for any `Burst` and
    any number of disturbances. Counting events is not inductive. What is, is the
    order they are in (`Shape`): one SETUP packet at most, nothing of ep0 in behind
    it, ep0 out at most twice and twice only around a SETUP packet, the HID endpoint
    at most twice, a bus reset only in front. That makes seven at most
    (`ShapeBound`). The order is kept because the host goes on with a control
    transfer only when the device task has scheduled the next stage (`StageInv`),
    because an endpoint completes only what was armed (`PollInv`), and because
    device, host and queue agree about the configuration (`ConfigInv`).
  - `ClaimSafety`: `ClaimProtects`, if the queue has eight places and `Burst` is at
    most 4. Between the check under the mutex and the arming of the endpoint nobody
    else changes its state byte or puts an echo into its buffer (`ClaimInv`): the
    echo of the device task finds it claimed, or waits for the mutex and then finds
    it claimed. The bound on `Burst` is needed for a report that began with `ep_in`
    0: if the device is configured before `p_hid->ep_in` is read again, the report
    goes to an endpoint that was never claimed. An echo takes five bus events from
    there (SET_CONFIGURATION, its status stage, the three stages of SET_REPORT), and
    the invariant counts them (`Early`). With `Burst` 5 TLC finds `ClaimProtects` violated.
  - `EndpointServed`: with an undisturbed host and a queue of eight, a busy or claimed
    HID endpoint has a transfer scheduled, queued or about to be scheduled, and
    `ClaimsReleased` holds, so the mouse does not fall silent. This needs no bound on
    `Burst`. `ServedInv` is weaker than `ClaimInv` for that reason: it lets an echo
    come between a report's test of `busy` and its transfer, and keeps only that
    `busy` is never set without a transfer to clear it. usb_claim shows that one
    disturbance breaks it.
- **KernelInv** and **KernelProofs**: `Delays`, `PrioritiesReturned`, `Scheduling`,
  `Inheritance` and `Wakeups`, for any tasks with distinct priorities, any programs,
  queues and mutexes, and any width of the tick count. The invariant has two parts.
  - `Base` (KernelInv) says where every task is: which step of which call, on which
    state list and event list, what the locks and the suspension count are then, and
    for a sleeping task how the wake time, the list it is on and the tick count give
    the ticks it has left. `KernelTypes`, `Delays` and `PrioritiesReturned` follow.
    `ReplayTicks`, the loop of `xTaskResumeAll`, is a recursive function; what it
    does for every number of pended ticks is proved from the least number for which
    it would fail.
  - `Urgency`, `HeldInv` and `HighestInv` (KernelProofs) make the other three
    inductive. A woken task may find its item gone, so `NoLostWakeup` counts: for
    every waiter w there are as many tasks as urgent as w on their way to take as
    there are items, posts to the locked queue included (`Served`). Event lists stay
    in order of priority though priorities change, because a raised task waits alone
    (`OrderInv`). A switch that is due while the scheduler is suspended is remembered
    in `xYieldPending` (`HighestInv`).

  The second part needs `ProgramAssumption`: a task holds one mutex at a time and
  gives it back, and all waits for one semaphore are made under the same mutex, or
  under none. The drivers do that. It is needed: with nested mutexes TLC finds
  `HighestRuns` and `InheritsPriority` violated, since FreeRTOS gives a lent
  priority back only with the last mutex, and does not lend on along a chain of
  holders. The first part, and with it `PrioritiesReturned`, does not use it.

Type correctness is proved for every state machine: `TypeCorrect` (TtyTx),
`DriverTypes`, `HeapTypes`, `BlinkTypes`, `RtcTypes`, `UsbTypes` and `KernelTypes`.
For the driver, `_sbrk`, the LED task and the clock it follows from the inductive
invariant with the widths of the remaining variables.

Only model-checked is liveness: `ImplementsService` and `ImplementsLineInput` with
their fairness, `WritesReturn`, `HeldIsSeen`, `ControlCompletes`, `ReportsFlow` and
`UrgentRuns`. Their fairness is beyond the proof system. The safety part of the two
implementations is proved.

## Assumptions about code and hardware outside the repository

The RTC counts when LSE runs, is selected and the RTC is enabled; initialisation
mode stops it and is entered at once when it is clocked; a read of TR locks the
shadow of DR until DR is read or initialisation mode is entered; a backup-domain
reset clears LSEON. From a day past the end of its month the calendar goes to the
first of the next month. newlib never shrinks the heap. These are marked external
in the map or follow from how the code uses the hardware. The ADC in discontinuous mode converts
one rank per trigger, in microseconds. A USB reset lasts 50 ms (`ResetWakes`
sleeps of 10 ms); a SETUP packet makes the controller NAK the OUT side of endpoint
0 until a transfer is scheduled; the interrupt handler runs at once with the bus
event, and the transmit FIFO is filled when a transfer is scheduled.

## Not modelled

- The overrun flag ORE of USART1: the lost byte is modelled, the flag is not. It
  would need the handler split below its statements.
- malloc's own lists (newlib, not in the repository), and with them the absence of
  `__malloc_lock`.
- FreeRTOS: timeouts (the firmware passes portMAX_DELAY only), notifications,
  timers, event groups, stream buffers and deletion of tasks (not used), creation
  of tasks (the initial state), sending to a full queue from a task (no task
  sends). The order of equal priorities is a free choice, which covers the round
  robin; base priorities are distinct, as in Inc/main.h. The failing `_sbrk`, which
  never resumes the scheduler, is in NewlibHeap and not in Kernel.
- tinyusb: unplugging (handled as a bus reset is), suspend, resume and SOF (they
  change no endpoint state);
  control data of more than one packet; vendor requests and other classes; the
  content of the descriptors.
- I2C flash (a stub nothing calls), fault handlers (endless loops), vendor
  start-up code, the LL drivers except the RTC's (register accessors), LwIP (never
  called).
- The tty and the command line composed with Kernel and UsbHid in one model: they
  share nothing but the processor, and their product is out of TLC's reach. Each
  uses the kernel's promises that Kernel checks.

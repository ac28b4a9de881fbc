------------------------------ MODULE TtyDriver ------------------------------
(***************************************************************************)
(* The whole tty driver (Src/usart1_driver.c) as the firmware runs it:     *)
(* TTY_Task, the tasks that call tty_driver_tx and tty_driver_rx, both     *)
(* branches of USART1_IRQHandler and the registers of USART1, under the    *)
(* preemptive fixed-priority scheduler of FreeRTOS.                        *)
(*                                                                         *)
(* The transmit half is module TtyTx; this module adds the receive half    *)
(* and lets a task step only when no task of higher priority is ready.     *)
(* The bytes of the terminal are characters, carriage return, backspace    *)
(* and bytes that are not ASCII.                                           *)
(***************************************************************************)
EXTENDS Integers, Sequences, FiniteSets

CONSTANTS
  Tasks, NoTask, MaxLen,  \* as in TtyTx
  Tty,        \* TTY_Task
  Readers,    \* the tasks that call tty_driver_rx (cli_task)
  Prio,       \* Prio[t]: base priority of task t
  QueueLen,   \* capacity of tty.q_rx (16)
  CntMod,     \* number of values of TTY_Task's uint8_t cnt (256)
  RxSizes,    \* the buffer sizes passed to tty_driver_rx
  Chars,      \* ASCII characters other than CR and the two backspaces
  MaxBytes,   \* bound on the bytes the terminal sends
  MaxPrints   \* bound on the writes of the application tasks

CR == "cr"
BS == "bs"
NL == "nl"
NonAscii == "non-ascii"
Bytes == Chars \cup {CR, BS, NonAscii}
Empty == "empty"

ASSUME DriverAssumption ==
  /\ NoTask \notin Tasks
  /\ MaxLen \in Nat \ {0}
  /\ Tty \in Tasks
  /\ Readers \subseteq Tasks \ {Tty}
  /\ Prio \in [Tasks -> Nat]
  /\ QueueLen \in Nat \ {0}
  /\ CntMod \in Nat \ {0, 1}
  /\ RxSizes \subseteq Nat \ {0}
  /\ Chars \cap {CR, BS, NL, NonAscii, Empty} = {}
  /\ MaxBytes \in Nat
  /\ MaxPrints \in Nat

VARIABLES
  pc, num, ret, lock_tx, sem_tx, tx_num, tx_buf, tx_ind, txeie, txe, dr,
  rpc,        \* rpc[t]: the next statement of t inside tty_driver_rx
  size,       \* size[t]: the argument num of t's last read
  rret,       \* rret[t]: what t's last read returned
  lock_rx,    \* holder of the mutex tty.lock_rx
  sem_rx,     \* count of the binary semaphore tty.sem_rx
  rx_buf,     \* tty.rx_buf: the task whose buffer it is
  rx_num,     \* tty.rx_num
  rx_enable,  \* tty.rx_enable
  mem,        \* what was stored at tty.rx_buf[0..], as far as it is defined
  q_rx,       \* the queue tty.q_rx
  rxneie,     \* USART1 CR1.RXNEIE: the receive interrupt is enabled
  rdr,        \* USART1 receive data register, Empty when SR.RXNE is clear
  tpc,        \* the next statement of TTY_Task's own code
  byte,       \* TTY_Task's byte
  cnt,        \* TTY_Task's uint8_t cnt
  bytesLeft,  \* bytes the terminal may still send
  printsLeft  \* writes the application tasks may still make

txvars == <<pc, num, ret, lock_tx, sem_tx, tx_num, tx_buf, tx_ind, txeie, txe, dr>>
callvars == <<rpc, size, rret, lock_rx>>
ttyvars == <<sem_rx, rx_buf, rx_num, rx_enable, mem>>
taskvars == <<tpc, byte, cnt>>
rxhwvars == <<q_rx, rxneie, rdr>>
envvars == <<bytesLeft, printsLeft>>

vars == <<txvars, callvars, ttyvars, taskvars, rxhwvars, envvars>>

Tx == INSTANCE TtyTx

Init ==
  /\ Tx!Init
  /\ rpc = [t \in Readers |-> "idle"]
  /\ size = [t \in Readers |-> 0]
  /\ rret = [t \in Readers |-> 0]
  /\ lock_rx = NoTask
  /\ sem_rx = 0
  /\ rx_buf = NoTask
  /\ rx_num = 0
  /\ rx_enable = FALSE
  /\ mem = <<>>
  /\ q_rx = <<>>
  /\ rxneie = FALSE
  /\ rdr = Empty
  /\ tpc = "start"
  /\ byte = CR
  /\ cnt = 0
  /\ bytesLeft = MaxBytes
  /\ printsLeft = MaxPrints

-----------------------------------------------------------------------------
(* The scheduler.  A task is ready unless it is blocked in a FreeRTOS call; *)
(* a mutex holder inherits the priority of the tasks waiting for the mutex. *)

InRead(t) == t \in Readers /\ rpc[t] # "idle"

Ready(t) ==
  /\ pc[t] = "take_lock" => lock_tx = NoTask
  /\ pc[t] = "take_sem" => sem_tx = 1
  /\ InRead(t) /\ rpc[t] = "take_lock" => lock_rx = NoTask
  /\ InRead(t) /\ rpc[t] = "take_sem" => sem_rx = 1
  /\ t = Tty /\ pc[t] = "idle" /\ tpc = "recv" => q_rx # <<>>

(* A task that is neither in a driver call nor TTY_Task runs code of its   *)
(* own or is delayed; it holds up nobody in this model.                    *)
Wants(t) == Ready(t) /\ (pc[t] # "idle" \/ InRead(t) \/ t = Tty)

Donors(t) ==
  {t} \cup {u \in Tasks : lock_tx = t /\ pc[u] = "take_lock"}
      \cup {u \in Readers : lock_rx = t /\ rpc[u] = "take_lock"}

Runs(t) ==
  /\ Ready(t)
  /\ \A u \in Tasks \ {t} :
       Wants(u) => \A e \in Donors(u) : \E d \in Donors(t) : Prio[e] <= Prio[d]

-----------------------------------------------------------------------------
(* Application tasks in tty_driver_tx *)

AppWrite(t) ==
  /\ t # Tty /\ ~InRead(t) /\ Runs(t)
  /\ printsLeft > 0
  /\ printsLeft' = printsLeft - 1
  /\ Tx!CallEmpty(t) \/ \E n \in 1..MaxLen : Tx!Call(t, n)
  /\ UNCHANGED <<callvars, ttyvars, taskvars, rxhwvars, bytesLeft>>

(* A statement inside tty_driver_tx, of whichever task called it. *)
TxStep(t) ==
  /\ Runs(t)
  /\ Tx!Inside(t)
  /\ UNCHANGED <<callvars, ttyvars, taskvars, rxhwvars, envvars>>

-----------------------------------------------------------------------------
(* tty_driver_rx *)

RxGoto(t, from, to) ==
  /\ pc[t] = "idle" /\ rpc[t] = from
  /\ Runs(t)
  /\ rpc' = [rpc EXCEPT ![t] = to]
  /\ UNCHANGED <<txvars, taskvars, rxhwvars, envvars>>

ReadEmpty(t) ==
  /\ pc[t] = "idle" /\ rpc[t] = "idle" /\ Runs(t)
  /\ rret' = [rret EXCEPT ![t] = 0]
  /\ UNCHANGED <<txvars, rpc, size, lock_rx, ttyvars, taskvars, rxhwvars, envvars>>

Read(t, n) ==
  /\ RxGoto(t, "idle", "take_lock")
  /\ size' = [size EXCEPT ![t] = n]
  /\ UNCHANGED <<rret, lock_rx, ttyvars>>

RxTakeLock(t) ==
  /\ lock_rx = NoTask
  /\ RxGoto(t, "take_lock", "set_buf")
  /\ lock_rx' = t
  /\ UNCHANGED <<size, rret, ttyvars>>

RxSetBuf(t) ==
  /\ RxGoto(t, "set_buf", "set_num")
  /\ rx_buf' = t
  /\ mem' = <<>>
  /\ UNCHANGED <<size, rret, lock_rx, sem_rx, rx_num, rx_enable>>

RxSetNum(t) ==
  /\ RxGoto(t, "set_num", "enable")
  /\ rx_num' = size[t]
  /\ UNCHANGED <<size, rret, lock_rx, sem_rx, rx_buf, rx_enable, mem>>

RxEnable(t) ==
  /\ RxGoto(t, "enable", "take_sem")
  /\ rx_enable' = TRUE
  /\ UNCHANGED <<size, rret, lock_rx, sem_rx, rx_buf, rx_num, mem>>

RxTakeSem(t) ==
  /\ sem_rx = 1
  /\ RxGoto(t, "take_sem", "give_lock")
  /\ sem_rx' = 0
  /\ UNCHANGED <<size, rret, lock_rx, rx_buf, rx_num, rx_enable, mem>>

RxGiveLock(t) ==
  /\ RxGoto(t, "give_lock", "return")
  /\ lock_rx' = NoTask
  /\ UNCHANGED <<size, rret, ttyvars>>

(* return tty.rx_num, read after the mutex was given back *)
RxReturn(t) ==
  /\ RxGoto(t, "return", "idle")
  /\ rret' = [rret EXCEPT ![t] = rx_num]
  /\ UNCHANGED <<size, lock_rx, ttyvars>>

RxStep(t) ==
  \/ RxTakeLock(t) \/ RxSetBuf(t) \/ RxSetNum(t) \/ RxEnable(t)
  \/ RxTakeSem(t) \/ RxGiveLock(t) \/ RxReturn(t)

-----------------------------------------------------------------------------
(* TTY_Task: its own statements, between the calls of tty_driver_tx *)

TtyGoto(from, to) ==
  /\ pc[Tty] = "idle" /\ tpc = from
  /\ Runs(Tty)
  /\ tpc' = to
  /\ UNCHANGED <<callvars, envvars>>

Start ==
  /\ TtyGoto("start", "hello")
  /\ rxneie' = TRUE
  /\ UNCHANGED <<txvars, ttyvars, byte, cnt, q_rx, rdr>>

(* stdout is line buffered if _isatty and the st_mode of _fstat say so, but *)
(* _fstat leaves st_mode uninitialised: a text is written now or kept.      *)
Stdout == (\E n \in 1..MaxLen : Tx!Call(Tty, n)) \/ UNCHANGED txvars

Printf(from, to) ==
  /\ TtyGoto(from, to)
  /\ Stdout
  /\ UNCHANGED <<ttyvars, byte, cnt, rxhwvars>>

(* printf followed by fflush: the text is written now. *)
Redraw ==
  /\ TtyGoto("redraw", "recv")
  /\ \E n \in 1..MaxLen : Tx!Call(Tty, n)
  /\ UNCHANGED <<ttyvars, byte, cnt, rxhwvars>>

(* xQueueReceive(tty.q_rx, &byte, portMAX_DELAY) *)
Receive ==
  /\ q_rx # <<>>
  /\ TtyGoto("recv", "echo")
  /\ byte' = Head(q_rx)
  /\ q_rx' = Tail(q_rx)
  /\ UNCHANGED <<txvars, ttyvars, cnt, rxneie, rdr>>

Echo ==
  /\ TtyGoto("echo", "check")
  /\ Tx!Call(Tty, 1)
  /\ UNCHANGED <<ttyvars, byte, cnt, rxhwvars>>

(* tty.rx_buf[cnt++] = c, with cnt of type uint8_t *)
Store(c) ==
  /\ mem' = Append(SubSeq(mem, 1, cnt), c)
  /\ cnt' = (cnt + 1) % CntMod

Discard ==
  /\ ~rx_enable \/ (byte = BS /\ cnt = 0)
  /\ TtyGoto("check", "recv")
  /\ UNCHANGED <<txvars, ttyvars, byte, cnt, rxhwvars>>

(* Mutant: the newline is stored but not counted. *)
EnterKeyUncounted ==
  /\ rx_enable /\ byte = CR
  /\ TtyGoto("check", "crlf")
  /\ mem' = Append(SubSeq(mem, 1, cnt), NL)
  /\ UNCHANGED <<txvars, sem_rx, rx_buf, rx_num, rx_enable, byte, cnt, rxhwvars>>

EnterKey ==
  /\ rx_enable /\ byte = CR
  /\ TtyGoto("check", "crlf")
  /\ Store(NL)
  /\ UNCHANGED <<txvars, sem_rx, rx_buf, rx_num, rx_enable, byte, rxhwvars>>

(* Mutant: backspace on an empty line is not ignored. *)
BackspaceUnguarded ==
  /\ rx_enable /\ byte = BS
  /\ TtyGoto("check", "redraw")
  /\ cnt' = cnt - 1
  /\ mem' = SubSeq(mem, 1, cnt - 1)
  /\ UNCHANGED <<txvars, sem_rx, rx_buf, rx_num, rx_enable, byte, rxhwvars>>

Backspace ==
  /\ rx_enable /\ byte = BS /\ cnt > 0
  /\ TtyGoto("check", "redraw")
  /\ cnt' = cnt - 1
  /\ mem' = SubSeq(mem, 1, cnt - 1)
  /\ UNCHANGED <<txvars, sem_rx, rx_buf, rx_num, rx_enable, byte, rxhwvars>>

(* Mutant: a full buffer does not end the line. *)
CharKeyNeverFull ==
  /\ rx_enable /\ byte \in Chars
  /\ Store(byte)
  /\ TtyGoto("check", "recv")
  /\ UNCHANGED <<txvars, sem_rx, rx_buf, rx_num, rx_enable, byte, rxhwvars>>

CharKey ==
  /\ rx_enable /\ byte \in Chars
  /\ Store(byte)
  /\ TtyGoto("check", IF cnt' = rx_num THEN "fin_num" ELSE "recv")
  /\ UNCHANGED <<txvars, sem_rx, rx_buf, rx_num, rx_enable, byte, rxhwvars>>

UnknownKey ==
  /\ rx_enable /\ byte = NonAscii
  /\ TtyGoto("check", "unknown")
  /\ UNCHANGED <<txvars, ttyvars, byte, cnt, rxhwvars>>

FinNum ==
  /\ TtyGoto("fin_num", "fin_enable")
  /\ rx_num' = cnt
  /\ UNCHANGED <<txvars, sem_rx, rx_buf, rx_enable, mem, byte, cnt, rxhwvars>>

(* Mutant: cnt keeps its value for the next line. *)
FinEnableKeepsCnt ==
  /\ TtyGoto("fin_enable", "fin_give")
  /\ rx_enable' = FALSE
  /\ UNCHANGED <<txvars, sem_rx, rx_buf, rx_num, mem, byte, cnt, rxhwvars>>

FinEnable ==
  /\ TtyGoto("fin_enable", "fin_give")
  /\ rx_enable' = FALSE
  /\ cnt' = 0
  /\ UNCHANGED <<txvars, sem_rx, rx_buf, rx_num, mem, byte, rxhwvars>>

(* Mutant: the other semaphore is given. *)
FinGiveWrongSemaphore ==
  /\ TtyGoto("fin_give", "recv")
  /\ sem_tx' = 1
  /\ UNCHANGED <<pc, num, ret, lock_tx, tx_num, tx_buf, tx_ind, txeie, txe, dr>>
  /\ UNCHANGED <<ttyvars, byte, cnt, rxhwvars>>

(* xSemaphoreGive(tty.sem_rx) *)
FinGive ==
  /\ TtyGoto("fin_give", "recv")
  /\ sem_rx' = 1
  /\ UNCHANGED <<txvars, rx_buf, rx_num, rx_enable, mem, byte, cnt, rxhwvars>>

TtyStep ==
  \/ Start \/ Receive \/ Echo \/ Redraw
  \/ Printf("hello", "recv") \/ Printf("crlf", "fin_num") \/ Printf("unknown", "recv")
  \/ Discard \/ EnterKey \/ Backspace \/ CharKey \/ UnknownKey
  \/ FinNum \/ FinEnable \/ FinGive

-----------------------------------------------------------------------------
(* USART1 and its interrupt handler *)

TransmitIrq ==
  /\ Tx!IsrTxe
  /\ UNCHANGED <<callvars, ttyvars, taskvars, rxhwvars, envvars>>

(* The receive branch runs only when the transmit branch did not return;   *)
(* xQueueSendFromISR fails on a full queue and its result is ignored.       *)
ReceiveIrq ==
  /\ ~(txe /\ txeie)
  /\ rxneie /\ rdr # Empty
  /\ rdr' = Empty
  /\ q_rx' = IF Len(q_rx) < QueueLen THEN Append(q_rx, rdr) ELSE q_rx
  /\ UNCHANGED <<txvars, callvars, ttyvars, taskvars, rxneie, envvars>>

ShiftOut ==
  /\ Tx!ShiftOut
  /\ UNCHANGED <<callvars, ttyvars, taskvars, rxhwvars, envvars>>

(* A byte arrives; while the previous one is unread it is lost (overrun). *)
ShiftIn ==
  /\ bytesLeft > 0
  /\ bytesLeft' = bytesLeft - 1
  /\ IF rdr = Empty THEN rdr' \in Bytes ELSE UNCHANGED rdr
  /\ UNCHANGED <<txvars, callvars, ttyvars, taskvars, q_rx, rxneie, printsLeft>>

-----------------------------------------------------------------------------
Next ==
  \/ \E t \in Tasks : AppWrite(t) \/ TxStep(t)
  \/ \E t \in Readers : ReadEmpty(t) \/ (\E n \in RxSizes : Read(t, n)) \/ RxStep(t)
  \/ TtyStep
  \/ TransmitIrq \/ ReceiveIrq \/ ShiftOut \/ ShiftIn

(* The running task runs, interrupts are taken and the transmitter drains; *)
(* neither the application nor the terminal has to do anything.            *)
Fairness ==
  /\ \A t \in Tasks : WF_vars(TxStep(t))
  /\ \A t \in Readers : WF_vars(RxStep(t))
  /\ WF_vars(TtyStep)
  /\ WF_vars(TransmitIrq)
  /\ WF_vars(ReceiveIrq)
  /\ WF_vars(ShiftOut)

SafeSpec == Init /\ [][Next]_vars

Spec == SafeSpec /\ Fairness

-----------------------------------------------------------------------------
RxLabels ==
  {"idle", "take_lock", "set_buf", "set_num", "enable", "take_sem", "give_lock", "return"}

TtyLabels ==
  {"start", "hello", "recv", "echo", "check", "crlf", "redraw", "unknown",
   "fin_num", "fin_enable", "fin_give"}

RxTypeOK ==
  /\ rpc \in [Readers -> RxLabels]
  /\ size \in [Readers -> RxSizes \cup {0}]
  /\ rret \in [Readers -> Nat]
  /\ lock_rx \in Readers \cup {NoTask}
  /\ sem_rx \in {0, 1}
  /\ rx_buf \in Readers \cup {NoTask}
  /\ rx_num \in Nat
  /\ rx_enable \in BOOLEAN
  /\ mem \in Seq(Chars \cup {NL})
  /\ q_rx \in Seq(Bytes) /\ Len(q_rx) <= QueueLen
  /\ rxneie \in BOOLEAN
  /\ rdr \in Bytes \cup {Empty}
  /\ tpc \in TtyLabels
  /\ byte \in Bytes
  /\ cnt \in 0..CntMod - 1
  /\ bytesLeft \in 0..MaxBytes
  /\ printsLeft \in 0..MaxPrints

(* The types of both halves of the driver; cnt stays below CntMod. *)
TypeOK == Tx!TypeOK /\ RxTypeOK

(* While a read is enabled, its caller is blocked on tty.sem_rx, tty.rx_buf *)
(* is that caller's buffer, and until the line is complete the next index   *)
(* TTY_Task would store at is inside it: TTY_Task never writes to a buffer  *)
(* whose owner has left tty_driver_rx, nor past its end.                    *)
StoresInLiveBuffer ==
  rx_enable =>
    /\ lock_rx \in Readers
    /\ rx_buf = lock_rx
    /\ rpc[lock_rx] = "take_sem"
    /\ sem_rx = 0
    /\ tpc \notin {"crlf", "fin_num", "fin_enable"} => cnt < size[lock_rx]

(* Whenever a read is not enabled TTY_Task starts the next line at index 0, *)
(* and a token in tty.sem_rx belongs to the read now blocked on it.         *)
HandshakeClean ==
  /\ ~rx_enable => cnt = 0
  /\ sem_rx = 1 => /\ ~rx_enable
                   /\ lock_rx \in Readers
                   /\ rpc[lock_rx] = "take_sem"

(* The header promises that tty_driver_tx "returns number of transmitted   *)
(* bytes": between calls, the last result is the length that was asked for. *)
TxReturnsCount == \A t \in Tasks : pc[t] = "idle" => ret[t] = num[t]

(* TTY_Task's comment: it "reads up to tty.rx_num bytes": once the buffer   *)
(* of the enabled read is full, the line is being completed.                *)
StopsWhenFull ==
  rx_enable /\ Len(mem) >= rx_num => tpc \in {"crlf", "fin_num", "fin_enable"}

(* What the inductive argument for the receive half needs besides the       *)
(* properties above: the mutex protects the region between the semaphore    *)
(* calls, the shared fields agree with the arguments of the read that owns  *)
(* them, what TTY_Task has stored reaches up to cnt, and while TTY_Task     *)
(* completes a line its reader stays blocked.                               *)
RxHolding == {"set_buf", "set_num", "enable", "take_sem", "give_lock"}

Ending == {"crlf", "fin_num", "fin_enable"}

RxLockInv == \A t \in Readers : rpc[t] \in RxHolding <=> lock_rx = t

RxSetupInv ==
  \A t \in Readers :
    /\ rpc[t] # "idle" => size[t] \in RxSizes
    /\ rpc[t] \in RxHolding \ {"set_buf"} => rx_buf = t
    /\ rpc[t] \in {"set_num", "enable"} => mem = <<>>
    /\ rpc[t] = "enable" => rx_num = size[t]

NoWrap == \A n \in RxSizes : n < CntMod

LineInv ==
  /\ rx_enable =>
       /\ cnt <= Len(mem)
       /\ NoWrap => cnt = Len(mem)
       /\ tpc # "fin_enable" => rx_num = size[lock_rx]
  /\ tpc \in Ending => rx_enable
  /\ tpc = "fin_enable" => rx_num = cnt
  /\ tpc = "fin_give" => /\ ~rx_enable /\ sem_rx = 0
                         /\ lock_rx \in Readers /\ rpc[lock_rx] = "take_sem"

(* The inductive invariant of the receive half. *)
IndInv ==
  /\ RxTypeOK /\ RxLockInv /\ RxSetupInv /\ LineInv
  /\ StoresInLiveBuffer /\ HandshakeClean

(* The driver, priorities and receive half included, still transmits as    *)
(* the transmit half alone does.                                           *)
KeepsTransmitHalf == Tx!SafeSpec

(* Once the terminal and the button are quiet, every tty_driver_tx call,   *)
(* also of the lowest-priority task, returns.                              *)
WritesReturn == \A t \in Tasks : pc[t] # "idle" ~> pc[t] = "idle"

-----------------------------------------------------------------------------
(* The line the reader is promised.  It is complete from the last key on,  *)
(* and its length is cnt until TTY_Task publishes it in tty.rx_num.        *)

Complete ==
  \/ tpc \in {"crlf", "fin_num", "fin_enable", "fin_give"}
  \/ sem_rx = 1
  \/ \E r \in Readers : rpc[r] \in {"give_lock", "return"}

LineState == IF Complete THEN "ready" ELSE IF rx_enable THEN "open" ELSE "closed"

LineLength ==
  IF tpc \in {"crlf", "fin_num"} \/ ~Complete THEN cnt ELSE rx_num

Line == INSTANCE LineInput
          WITH state  <- LineState,
               owner  <- IF LineState = "closed" THEN NoTask ELSE rx_buf,
               want   <- IF LineState = "closed" THEN 0 ELSE size[rx_buf],
               text   <- IF LineState = "closed" THEN <<>> ELSE SubSeq(mem, 1, LineLength),
               result <- rret

(* tty_driver_rx and TTY_Task implement line input: the caller gets the    *)
(* line as typed and edited and its length, and a complete line is         *)
(* delivered.                                                              *)
ImplementsLineInput == Line!Spec

==============================================================================

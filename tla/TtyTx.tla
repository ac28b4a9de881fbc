-------------------------------- MODULE TtyTx --------------------------------
(***************************************************************************)
(* The transmit half of the tty driver (Src/usart1_driver.c): tasks that   *)
(* call tty_driver_tx, the transmit branch of USART1_IRQHandler and the    *)
(* data register of USART1.                                                *)
(*                                                                         *)
(* Every statement of tty_driver_tx that touches shared state is a step of *)
(* its own, in any interleaving of the tasks, so that what holds here      *)
(* holds under every scheduling policy.  The interrupt handler is one      *)
(* step: no task runs until it returns.  A buffer is named by the task     *)
(* that passed it, so the byte ptr[i] of task t is [buf |-> t, idx |-> i]. *)
(***************************************************************************)
EXTENDS Integers

CONSTANTS
  Tasks,      \* the tasks that may call tty_driver_tx
  NoTask,     \* no task, and the initial (null) tty.tx_buf
  MaxLen      \* bound on num, the length of a message

ASSUME TxAssumption == NoTask \notin Tasks /\ MaxLen \in Nat

VARIABLES
  pc,         \* pc[t]: the next statement of t inside tty_driver_tx
  num,        \* num[t]: the argument num of t's last call
  ret,        \* ret[t]: what t's last call returned
  lock_tx,    \* holder of the mutex tty.lock_tx
  sem_tx,     \* count of the binary semaphore tty.sem_tx
  tx_num,     \* tty.tx_num
  tx_buf,     \* tty.tx_buf
  tx_ind,     \* the handler's static tx_ind
  txeie,      \* USART1 CR1.TXEIE: the transmit interrupt is enabled
  txe,        \* USART1 SR.TXE: the data register is empty
  dr          \* the byte last written to the data register

vars == <<pc, num, ret, lock_tx, sem_tx, tx_num, tx_buf, tx_ind, txeie, txe, dr>>

NoByte == [buf |-> NoTask, idx |-> 0]

(* The state tty_driver_init leaves: mutex free, semaphore empty, tty zeroed. *)
Init ==
  /\ pc = [t \in Tasks |-> "idle"]
  /\ num = [t \in Tasks |-> 0]
  /\ ret = [t \in Tasks |-> 0]
  /\ lock_tx = NoTask
  /\ sem_tx = 0
  /\ tx_num = 0
  /\ tx_buf = NoTask
  /\ tx_ind = 0
  /\ txeie = FALSE
  /\ txe = TRUE
  /\ dr = NoByte

Goto(t, from, to) ==
  /\ pc[t] = from
  /\ pc' = [pc EXCEPT ![t] = to]

-----------------------------------------------------------------------------
(* tty_driver_tx *)

CallEmpty(t) ==
  /\ pc[t] = "idle"
  /\ num' = [num EXCEPT ![t] = 0]
  /\ ret' = [ret EXCEPT ![t] = 0]
  /\ UNCHANGED <<pc, lock_tx, sem_tx, tx_num, tx_buf, tx_ind, txeie, txe, dr>>

Call(t, n) ==
  /\ n > 0
  /\ Goto(t, "idle", "take_lock")
  /\ num' = [num EXCEPT ![t] = n]
  /\ UNCHANGED <<ret, lock_tx, sem_tx, tx_num, tx_buf, tx_ind, txeie, txe, dr>>

(* Mutant: the mutex is not waited for. *)
TakeLockNoWait(t) ==
  /\ Goto(t, "take_lock", "set_num")
  /\ lock_tx' = t
  /\ UNCHANGED <<num, ret, sem_tx, tx_num, tx_buf, tx_ind, txeie, txe, dr>>

(* xSemaphoreTake(tty.lock_tx, portMAX_DELAY) *)
TakeLock(t) ==
  /\ lock_tx = NoTask
  /\ Goto(t, "take_lock", "set_num")
  /\ lock_tx' = t
  /\ UNCHANGED <<num, ret, sem_tx, tx_num, tx_buf, tx_ind, txeie, txe, dr>>

SetNum(t) ==
  /\ Goto(t, "set_num", "set_buf")
  /\ tx_num' = num[t]
  /\ UNCHANGED <<num, ret, lock_tx, sem_tx, tx_buf, tx_ind, txeie, txe, dr>>

SetBuf(t) ==
  /\ Goto(t, "set_buf", "enable")
  /\ tx_buf' = t
  /\ UNCHANGED <<num, ret, lock_tx, sem_tx, tx_num, tx_ind, txeie, txe, dr>>

(* LL_USART_EnableIT_TXE *)
EnableTxe(t) ==
  /\ Goto(t, "enable", "take_sem")
  /\ txeie' = TRUE
  /\ UNCHANGED <<num, ret, lock_tx, sem_tx, tx_num, tx_buf, tx_ind, txe, dr>>

(* Mutant: the wait for the end of the transfer may time out. *)
TakeSemTimeout(t) ==
  /\ Goto(t, "take_sem", "give_lock")
  /\ sem_tx' = 0
  /\ UNCHANGED <<num, ret, lock_tx, tx_num, tx_buf, tx_ind, txeie, txe, dr>>

(* xSemaphoreTake(tty.sem_tx, portMAX_DELAY) *)
TakeSem(t) ==
  /\ sem_tx = 1
  /\ Goto(t, "take_sem", "give_lock")
  /\ sem_tx' = 0
  /\ UNCHANGED <<num, ret, lock_tx, tx_num, tx_buf, tx_ind, txeie, txe, dr>>

(* Mutant: the mutex is not given back. *)
GiveLockForgotten(t) ==
  /\ Goto(t, "give_lock", "return")
  /\ UNCHANGED <<num, ret, lock_tx, sem_tx, tx_num, tx_buf, tx_ind, txeie, txe, dr>>

(* xSemaphoreGive(tty.lock_tx) *)
GiveLock(t) ==
  /\ Goto(t, "give_lock", "return")
  /\ lock_tx' = NoTask
  /\ UNCHANGED <<num, ret, sem_tx, tx_num, tx_buf, tx_ind, txeie, txe, dr>>

(* return tty.tx_num, read after the mutex was given back *)
Return(t) ==
  /\ Goto(t, "return", "idle")
  /\ ret' = [ret EXCEPT ![t] = tx_num]
  /\ UNCHANGED <<num, lock_tx, sem_tx, tx_num, tx_buf, tx_ind, txeie, txe, dr>>

-----------------------------------------------------------------------------
(* Mutants of the handler: the index is not reset after the last byte, the *)
(* semaphore is given for every byte, the last byte is tested before the   *)
(* index is incremented, and the semaphore is not given.                   *)
IsrTxeKeepsIndex ==
  /\ txe /\ txeie
  /\ dr' = [buf |-> tx_buf, idx |-> tx_ind]
  /\ txe' = FALSE
  /\ tx_ind' = tx_ind + 1
  /\ IF tx_ind + 1 = tx_num
       THEN txeie' = FALSE /\ sem_tx' = 1
       ELSE UNCHANGED <<txeie, sem_tx>>
  /\ UNCHANGED <<pc, num, ret, lock_tx, tx_num, tx_buf>>

IsrTxeGivesEachByte ==
  /\ txe /\ txeie
  /\ dr' = [buf |-> tx_buf, idx |-> tx_ind]
  /\ txe' = FALSE
  /\ sem_tx' = 1
  /\ IF tx_ind + 1 = tx_num
       THEN tx_ind' = 0 /\ txeie' = FALSE
       ELSE tx_ind' = tx_ind + 1 /\ UNCHANGED txeie
  /\ UNCHANGED <<pc, num, ret, lock_tx, tx_num, tx_buf>>

IsrTxeOffByOne ==
  /\ txe /\ txeie
  /\ dr' = [buf |-> tx_buf, idx |-> tx_ind]
  /\ txe' = FALSE
  /\ IF tx_ind = tx_num
       THEN tx_ind' = 0 /\ txeie' = FALSE /\ sem_tx' = 1
       ELSE tx_ind' = tx_ind + 1 /\ UNCHANGED <<txeie, sem_tx>>
  /\ UNCHANGED <<pc, num, ret, lock_tx, tx_num, tx_buf>>

IsrTxeNoGive ==
  /\ txe /\ txeie
  /\ dr' = [buf |-> tx_buf, idx |-> tx_ind]
  /\ txe' = FALSE
  /\ IF tx_ind + 1 = tx_num
       THEN tx_ind' = 0 /\ txeie' = FALSE
       ELSE tx_ind' = tx_ind + 1 /\ UNCHANGED txeie
  /\ UNCHANGED <<pc, num, ret, lock_tx, sem_tx, tx_num, tx_buf>>

(* The transmit branch of USART1_IRQHandler; the handler's last byte turns  *)
(* the interrupt off and gives the semaphore.                               *)
IsrTxe ==
  /\ txe /\ txeie
  /\ dr' = [buf |-> tx_buf, idx |-> tx_ind]
  /\ txe' = FALSE
  /\ IF tx_ind + 1 = tx_num
       THEN tx_ind' = 0 /\ txeie' = FALSE /\ sem_tx' = 1
       ELSE tx_ind' = tx_ind + 1 /\ UNCHANGED <<txeie, sem_tx>>
  /\ UNCHANGED <<pc, num, ret, lock_tx, tx_num, tx_buf>>

(* USART1 moves the data register into its shift register. *)
ShiftOut ==
  /\ ~txe
  /\ txe' = TRUE
  /\ UNCHANGED <<pc, num, ret, lock_tx, sem_tx, tx_num, tx_buf, tx_ind, txeie, dr>>

Inside(t) ==
  \/ TakeLock(t) \/ SetNum(t) \/ SetBuf(t) \/ EnableTxe(t)
  \/ TakeSem(t) \/ GiveLock(t) \/ Return(t)

Next ==
  \/ \E t \in Tasks : CallEmpty(t) \/ (\E n \in 1..MaxLen : Call(t, n)) \/ Inside(t)
  \/ IsrTxe
  \/ ShiftOut

(* A task that holds the mutex keeps running or is woken (the kernel never *)
(* drops a ready task and priority inheritance keeps a holder schedulable), *)
(* the transmitter drains, and an enabled interrupt is taken. *)
Fairness ==
  /\ \A t \in Tasks :
       /\ WF_vars(SetNum(t)) /\ WF_vars(SetBuf(t)) /\ WF_vars(EnableTxe(t))
       /\ WF_vars(TakeSem(t)) /\ WF_vars(GiveLock(t)) /\ WF_vars(Return(t))
  /\ WF_vars(IsrTxe)
  /\ WF_vars(ShiftOut)

SafeSpec == Init /\ [][Next]_vars

Spec == SafeSpec /\ Fairness

-----------------------------------------------------------------------------
(* The statements between taking and giving tty.lock_tx. *)
Holding == {"set_num", "set_buf", "enable", "take_sem", "give_lock"}

Labels == Holding \cup {"idle", "take_lock", "return"}

(* The fields of tty, the statements and tx_ind keep their types. *)
TypeOK ==
  /\ pc \in [Tasks -> Labels]
  /\ num \in [Tasks -> 0..MaxLen]
  /\ ret \in [Tasks -> 0..MaxLen]
  /\ lock_tx \in Tasks \cup {NoTask}
  /\ sem_tx \in {0, 1}
  /\ tx_num \in 0..MaxLen
  /\ tx_buf \in Tasks \cup {NoTask}
  /\ tx_ind \in 0..MaxLen
  /\ txeie \in BOOLEAN
  /\ txe \in BOOLEAN
  /\ dr \in [buf : Tasks \cup {NoTask}, idx : 0..MaxLen]

(* Whenever the transmit interrupt can fire, the task that set up the       *)
(* transfer is blocked on tty.sem_tx, tty.tx_buf and tty.tx_num are that    *)
(* task's arguments and the handler's next index is inside the buffer: the  *)
(* handler never reads a buffer whose owner has moved on, nor past its end. *)
IsrReadsLiveBuffer ==
  txeie => /\ lock_tx \in Tasks
           /\ pc[lock_tx] = "take_sem"
           /\ tx_buf = lock_tx
           /\ tx_num = num[lock_tx]
           /\ tx_ind < tx_num

(* A token in tty.sem_tx stands for exactly one finished transfer: there is *)
(* none while a transfer is being set up or is running, so no call can be   *)
(* woken by the completion of an earlier one.                               *)
TokenIsFresh ==
  sem_tx = 1 => /\ ~txeie
                /\ tx_ind = 0
                /\ lock_tx \in Tasks
                /\ pc[lock_tx] = "take_sem"

(* From enabling the interrupt until the last byte, no step of any task     *)
(* changes the buffer pointer or the length under the handler.              *)
FrozenWhileSending == [][txeie => UNCHANGED <<tx_num, tx_buf>>]_vars

(* The mutex protects the region between the two semaphore calls. *)
LockInv == \A t \in Tasks : pc[t] \in Holding <=> lock_tx = t

(* What the inductive argument needs besides the properties above: where    *)
(* each shared field agrees with the caller's arguments.                    *)
SetupInv ==
  \A t \in Tasks :
    /\ pc[t] # "idle" => num[t] > 0
    /\ pc[t] \in {"set_buf", "enable", "take_sem", "give_lock"} => tx_num = num[t]
    /\ pc[t] \in {"enable", "take_sem"} => tx_buf = t
    /\ pc[t] = "take_sem" => txeie \/ sem_tx = 1

(* The inductive invariant of the transmit half. *)
IndInv ==
  /\ TypeOK
  /\ LockInv
  /\ SetupInv
  /\ IsrReadsLiveBuffer
  /\ TokenIsFresh
  /\ ~txeie => tx_ind = 0

-----------------------------------------------------------------------------
(* The service this half implements. A call is waiting until it owns the   *)
(* mutex; the number of bytes it has put on the line is tx_ind until the    *)
(* handler resets it, and all of them from then on.                        *)
TxPhase ==
  [t \in Tasks |-> CASE pc[t] = "idle"      -> "idle"
                     [] pc[t] = "take_lock" -> "waiting"
                     [] pc[t] = "return"    -> "sent"
                     [] OTHER               -> "sending"]

TxNext ==
  IF lock_tx = NoTask THEN 0
  ELSE IF sem_tx = 1 \/ pc[lock_tx] = "give_lock" THEN num[lock_tx]
  ELSE tx_ind

Service == INSTANCE TxService
             WITH phase <- TxPhase, size <- num, owner <- lock_tx, next <- TxNext

(* tty_driver_tx implements the transmit service: whole messages, in order, *)
(* one at a time, and no return before the last byte is out; a transfer     *)
(* that was begun always ends.                                              *)
ImplementsService == Service!Spec

==============================================================================

----------------------------- MODULE TtyTxProofs -----------------------------
(***************************************************************************)
(* Proofs about the transmit half of the tty driver, for any set of tasks, *)
(* any message length and any scheduling policy.                           *)
(***************************************************************************)
EXTENDS TtyTx, TLAPS

(* The state left by tty_driver_init satisfies the inductive invariant. *)
LEMMA InitIndInv == Init => IndInv
<1> SUFFICES ASSUME Init PROVE IndInv
  OBVIOUS
<1> USE TxAssumption DEF Init
<1>1. TypeOK
  <2>1. txeie \in BOOLEAN /\ txe \in BOOLEAN
    BY Zenon
  <2>2. dr \in [buf : Tasks \cup {NoTask}, idx : 0..MaxLen]
    BY DEF NoByte
  <2> QED
    BY <2>1, <2>2 DEF TypeOK, Labels, Holding
<1>2. LockInv /\ SetupInv
  BY DEF LockInv, SetupInv, Holding
<1>3. IsrReadsLiveBuffer /\ TokenIsFresh /\ (~txeie => tx_ind = 0)
  BY SMTT(30) DEF IsrReadsLiveBuffer, TokenIsFresh
<1> QED
  BY <1>1, <1>2, <1>3 DEF IndInv

(* The statements a task executes inside tty_driver_tx preserve it. *)
LEMMA TaskKeepsIndInv ==
  ASSUME IndInv, NEW t \in Tasks,
         CallEmpty(t) \/ (\E n \in 1..MaxLen : Call(t, n)) \/ Inside(t)
  PROVE  IndInv'
<1> USE TxAssumption DEF IndInv, TypeOK, LockInv, SetupInv, IsrReadsLiveBuffer,
        TokenIsFresh, Labels, Holding, Goto
<1>1. CASE CallEmpty(t)
  BY <1>1 DEF CallEmpty
<1>2. CASE \E n \in 1..MaxLen : Call(t, n)
  BY <1>2 DEF Call
<1>3. CASE TakeLock(t)
  BY <1>3 DEF TakeLock
<1>4. CASE SetNum(t)
  BY <1>4 DEF SetNum
<1>5. CASE SetBuf(t)
  BY <1>5 DEF SetBuf
<1>6. CASE EnableTxe(t)
  BY <1>6 DEF EnableTxe
<1>7. CASE TakeSem(t)
  BY <1>7 DEF TakeSem
<1>8. CASE GiveLock(t)
  BY <1>8 DEF GiveLock
<1>9. CASE Return(t)
  BY <1>9 DEF Return
<1> QED
  BY <1>1, <1>2, <1>3, <1>4, <1>5, <1>6, <1>7, <1>8, <1>9 DEF Inside

(* The interrupt handler preserves it. *)
LEMMA IsrKeepsIndInv == IndInv /\ IsrTxe => IndInv'
<1> SUFFICES ASSUME IndInv, IsrTxe PROVE IndInv'
  OBVIOUS
<1> USE TxAssumption DEF IndInv, IsrTxe, IsrReadsLiveBuffer
<1>1. TypeOK'
  <2>1. txeie' \in BOOLEAN /\ txe' \in BOOLEAN
    BY Zenon DEF TypeOK
  <2>2. dr' \in [buf : Tasks \cup {NoTask}, idx : 0..MaxLen]
    BY DEF TypeOK
  <2>3. tx_ind' \in 0..MaxLen /\ sem_tx' \in {0, 1}
    <3>1. tx_ind < tx_num
      BY Zenon
    <3>2. \/ tx_ind' = 0 /\ sem_tx' = 1
          \/ tx_ind' = tx_ind + 1 /\ sem_tx' = sem_tx
      BY Zenon
    <3>3. tx_ind \in Nat /\ tx_num \in 0..MaxLen /\ sem_tx \in {0, 1}
      BY DEF TypeOK
    <3> HIDE DEF IndInv, IsrTxe, IsrReadsLiveBuffer
    <3> QED
      BY <3>1, <3>2, <3>3
  <2> QED
    BY <2>1, <2>2, <2>3 DEF TypeOK
<1>2. LockInv'
  BY DEF LockInv
<1>3. SetupInv'
  BY DEF SetupInv, LockInv, Holding, TypeOK
<1>4. IsrReadsLiveBuffer'
  BY DEF TypeOK
<1>5. TokenIsFresh'
  BY DEF TokenIsFresh
<1>6. (~txeie => tx_ind = 0)'
  OBVIOUS
<1> QED
  BY <1>1, <1>2, <1>3, <1>4, <1>5, <1>6

(* Every step preserves it. *)
LEMMA NextKeepsIndInv == IndInv /\ [Next]_vars => IndInv'
<1> SUFFICES ASSUME IndInv, [Next]_vars PROVE IndInv'
  OBVIOUS
<1>1. CASE IsrTxe
  BY <1>1, IsrKeepsIndInv
<1>2. CASE ShiftOut
  BY <1>2 DEF ShiftOut, IndInv, TypeOK, LockInv, SetupInv, IsrReadsLiveBuffer, TokenIsFresh
<1>3. CASE UNCHANGED vars
  BY <1>3 DEF vars, IndInv, TypeOK, LockInv, SetupInv, IsrReadsLiveBuffer, TokenIsFresh
<1> QED
  BY <1>1, <1>2, <1>3, TaskKeepsIndInv DEF Next

(* The inductive invariant holds in every reachable state. *)
THEOREM IndInvHolds == SafeSpec => []IndInv
  BY InitIndInv, NextKeepsIndInv, PTL DEF SafeSpec

(* The variables of the driver keep their types: in particular the binary  *)
(* semaphore never counts past one and tx_ind never leaves the buffer.     *)
THEOREM TypeCorrect == SafeSpec => []TypeOK
  BY IndInvHolds, PTL DEF IndInv

(* USART1_IRQHandler only ever transmits from the buffer of the task that  *)
(* is blocked inside tty_driver_tx, and inside that buffer's bounds.       *)
THEOREM IsrSafety == SafeSpec => []IsrReadsLiveBuffer
  BY IndInvHolds, PTL DEF IndInv

(* No stale completion token: tty.sem_tx is full only when the transfer of *)
(* the task now blocked on it has just ended.                              *)
THEOREM TokenSafety == SafeSpec => []TokenIsFresh
  BY IndInvHolds, PTL DEF IndInv

(* No task changes tty.tx_buf or tty.tx_num under the running handler. *)
THEOREM FrozenSafety == SafeSpec => FrozenWhileSending
<1>1. IndInv /\ [Next]_vars => [txeie => UNCHANGED <<tx_num, tx_buf>>]_vars
  BY TxAssumption
  DEF IndInv, LockInv, IsrReadsLiveBuffer, Holding, Goto, Next, Inside, CallEmpty, Call,
      TakeLock, SetNum, SetBuf, EnableTxe, TakeSem, GiveLock, Return, IsrTxe, ShiftOut, vars
<1> QED
  BY <1>1, IndInvHolds, PTL DEF SafeSpec, FrozenWhileSending

-----------------------------------------------------------------------------
(* The initial state is an initial state of the service. *)
LEMMA InitService == Init => Service!Init
  BY DEF Init, Service!Init, TxPhase, TxNext, NoByte

(* Every statement of tty_driver_tx is a step of the service or no step. *)
LEMMA TaskSteps ==
  ASSUME IndInv, NEW t \in Tasks,
         CallEmpty(t) \/ (\E n \in 1..MaxLen : Call(t, n)) \/ Inside(t)
  PROVE  [Service!Next]_(Service!vars)
<1> USE TxAssumption DEF IndInv, TypeOK, LockInv, SetupInv, IsrReadsLiveBuffer,
        TokenIsFresh, Labels, Holding, Goto, TxPhase, TxNext
<1>1. CASE CallEmpty(t)
  <2>1. TxPhase' = [TxPhase EXCEPT ![t] = "idle"]
    BY <1>1 DEF CallEmpty
  <2>2. Service!Request(t, 0)
    BY <1>1, <2>1 DEF CallEmpty, Service!Request
  <2> QED BY <2>2 DEF Service!Next
<1>2. CASE \E n \in 1..MaxLen : Call(t, n)
  <2>1. PICK n \in 1..MaxLen : Call(t, n)
    BY <1>2
  <2>2. TxPhase[t] = "idle" /\ TxPhase' = [TxPhase EXCEPT ![t] = "waiting"]
    BY <2>1 DEF Call
  <2>3. TxNext' = TxNext
    BY <2>1 DEF Call
  <2>4. Service!Request(t, n)
    <3> HIDE DEF TxPhase, TxNext
    <3>1. (IF n = 0 THEN "idle" ELSE "waiting") = "waiting"
      OBVIOUS
    <3> QED BY <2>1, <2>2, <2>3, <3>1, Zenon DEF Call, Service!Request
  <2> QED BY <2>4 DEF Service!Next
<1>3. CASE TakeLock(t)
  <2>1. Service!Begin(t)
    BY <1>3 DEF TakeLock, Service!Begin
  <2> QED BY <2>1 DEF Service!Next
<1>4. CASE SetNum(t) \/ SetBuf(t) \/ EnableTxe(t) \/ TakeSem(t)
  BY <1>4 DEF SetNum, SetBuf, EnableTxe, TakeSem, Service!vars
<1>5. CASE GiveLock(t)
  <2>1. Service!Finish(t)
    BY <1>5 DEF GiveLock, Service!Finish
  <2> QED BY <2>1 DEF Service!Next
<1>6. CASE Return(t)
  <2>1. Service!Return(t)
    BY <1>6 DEF Return, Service!Return
  <2> QED BY <2>1 DEF Service!Next
<1> QED
  BY <1>1, <1>2, <1>3, <1>4, <1>5, <1>6 DEF Inside

(* The interrupt handler puts exactly the owner's next byte on the line. *)
LEMMA IsrStep == IndInv /\ IsrTxe => Service!Emit(lock_tx)
  BY TxAssumption
  DEF IndInv, TypeOK, LockInv, SetupInv, IsrReadsLiveBuffer, TokenIsFresh, Labels, Holding,
      TxPhase, TxNext, IsrTxe, Service!Emit

(* The transmit half implements the safety part of the service: messages   *)
(* go out whole, in order and one at a time, and a call returns only after *)
(* its last byte.                                                          *)
THEOREM ImplementsServiceSafely == SafeSpec => Service!SafeSpec
<1>1. IndInv /\ [Next]_vars => [Service!Next]_(Service!vars)
  <2> SUFFICES ASSUME IndInv, [Next]_vars PROVE [Service!Next]_(Service!vars)
    OBVIOUS
  <2>1. CASE IsrTxe
    <3>1. lock_tx \in Tasks
      BY <2>1 DEF IsrTxe, IndInv, IsrReadsLiveBuffer
    <3> QED BY <2>1, <3>1, IsrStep DEF Service!Next
  <2>2. CASE ShiftOut \/ UNCHANGED vars
    BY <2>2 DEF ShiftOut, vars, Service!vars, TxPhase, TxNext
  <2> QED
    BY <2>1, <2>2, TaskSteps DEF Next
<1> QED
  BY <1>1, InitService, IndInvHolds, PTL DEF SafeSpec, Service!SafeSpec
==============================================================================

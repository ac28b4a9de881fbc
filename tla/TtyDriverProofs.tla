--------------------------- MODULE TtyDriverProofs ---------------------------
(***************************************************************************)
(* Proofs about the whole tty driver: for any number of tasks and readers, *)
(* any priorities, queue length and buffer sizes.                          *)
(***************************************************************************)
EXTENDS TtyDriver, SequenceTheorems, TLAPS

(* The state tty_driver_init leaves satisfies the inductive invariant. *)
LEMMA InitIndInv == Init => IndInv
<1> SUFFICES ASSUME Init PROVE IndInv
  OBVIOUS
<1> USE DriverAssumption DEF Init
<1>1. RxTypeOK
  <2>1. rx_enable \in BOOLEAN /\ rxneie \in BOOLEAN
    BY Zenon
  <2> QED
    BY <2>1 DEF RxTypeOK, RxLabels, TtyLabels, Bytes
<1>2. RxLockInv /\ RxSetupInv
  BY DEF RxLockInv, RxSetupInv, RxHolding
<1>3. LineInv /\ StoresInLiveBuffer /\ HandshakeClean
  BY SMTT(30) DEF LineInv, StoresInLiveBuffer, HandshakeClean, Ending
<1> QED
  BY <1>1, <1>2, <1>3 DEF IndInv

(* The statements of tty_driver_rx preserve it. *)
LEMMA ReaderKeepsIndInv ==
  ASSUME IndInv, NEW t \in Readers,
         ReadEmpty(t) \/ (\E n \in RxSizes : Read(t, n)) \/ RxStep(t)
  PROVE  IndInv'
<1> USE DriverAssumption DEF IndInv, RxTypeOK, RxLockInv, RxSetupInv, LineInv,
        StoresInLiveBuffer, HandshakeClean, RxHolding, Ending, RxLabels, TtyLabels,
        RxGoto, callvars, ttyvars, taskvars, rxhwvars, envvars
<1>1. CASE ReadEmpty(t)
  BY <1>1 DEF ReadEmpty
<1>2. CASE \E n \in RxSizes : Read(t, n)
  BY <1>2 DEF Read
<1>3. CASE RxTakeLock(t)
  BY <1>3 DEF RxTakeLock
<1>4. CASE RxSetBuf(t)
  BY <1>4 DEF RxSetBuf
<1>5. CASE RxSetNum(t)
  <2>1. /\ rpc[t] = "set_num" /\ rpc' = [rpc EXCEPT ![t] = "enable"] /\ rx_num' = size[t]
        /\ UNCHANGED <<size, rret, lock_rx, sem_rx, rx_buf, rx_enable, mem, taskvars, rxhwvars,
                       envvars>>
    BY <1>5, Zenon DEF RxSetNum
  <2>2. lock_rx = t /\ ~rx_enable /\ tpc \notin Ending
    BY <2>1
  <2> QED
    BY <2>1, <2>2
<1>6. CASE RxEnable(t)
  BY <1>6 DEF RxEnable
<1>7. CASE RxTakeSem(t)
  BY <1>7 DEF RxTakeSem
<1>8. CASE RxGiveLock(t)
  BY <1>8 DEF RxGiveLock
<1>9. CASE RxReturn(t)
  BY <1>9 DEF RxReturn
<1> QED
  BY <1>1, <1>2, <1>3, <1>4, <1>5, <1>6, <1>7, <1>8, <1>9, Zenon DEF RxStep

(* What storing a byte at index cnt, and dropping the last one, do to the   *)
(* line: it stays a sequence, one longer or one shorter than cnt.           *)
LEMMA StoreLength ==
  ASSUME NEW S, NEW m \in Seq(S), NEW n \in Nat, n <= Len(m), NEW c \in S
  PROVE  /\ Append(SubSeq(m, 1, n), c) \in Seq(S)
         /\ Len(Append(SubSeq(m, 1, n), c)) = n + 1
<1>1. SubSeq(m, 1, n) \in Seq(S) /\ Len(SubSeq(m, 1, n)) = n
  BY SubSeqProperties
<1> QED
  BY <1>1, AppendProperties

LEMMA EraseLength ==
  ASSUME NEW S, NEW m \in Seq(S), NEW n \in Nat, n > 0, n <= Len(m)
  PROVE  SubSeq(m, 1, n - 1) \in Seq(S) /\ Len(SubSeq(m, 1, n - 1)) = n - 1
  BY SubSeqProperties

(* A step that leaves the reader's calls, the tty structure and cnt alone   *)
(* and neither begins nor ends the completion of a line preserves it.       *)
LEMMA FrameKeepsIndInv ==
  ASSUME IndInv, UNCHANGED <<callvars, ttyvars, cnt>>, RxTypeOK',
         \/ tpc' = tpc
         \/ /\ tpc' \in Ending <=> tpc \in Ending
            /\ tpc \notin {"fin_enable", "fin_give"} /\ tpc' \notin {"fin_enable", "fin_give"}
  PROVE  IndInv'
<1> USE DEF IndInv, callvars, ttyvars
<1>1. RxLockInv' /\ RxSetupInv'
  BY DEF RxLockInv, RxSetupInv
<1>2. LineInv'
  BY DEF LineInv, NoWrap, Ending
<1>3. StoresInLiveBuffer'
  BY DEF StoresInLiveBuffer, Ending
<1>4. HandshakeClean'
  BY DEF HandshakeClean
<1> QED
  BY <1>1, <1>2, <1>3, <1>4

(* The statements of TTY_Task outside the editing of a line preserve it. *)
LEMMA TtyOtherKeepsIndInv ==
  ASSUME IndInv,
         \/ Start \/ Receive \/ Echo \/ Redraw \/ Discard \/ UnknownKey
         \/ Printf("hello", "recv") \/ Printf("crlf", "fin_num") \/ Printf("unknown", "recv")
  PROVE  IndInv'
<1> USE DriverAssumption DEF TtyGoto
<1>1. CASE Start
  <2>1. RxTypeOK'
    <3>1. rxneie' \in BOOLEAN
      BY <1>1, Zenon DEF Start
    <3> QED
      BY <1>1, <3>1 DEF Start, IndInv, RxTypeOK, callvars, ttyvars, envvars, TtyLabels
  <2> QED
    BY <1>1, <2>1, FrameKeepsIndInv DEF Start, Ending
<1>2. CASE Receive
  <2>1. RxTypeOK'
    BY <1>2, HeadTailProperties
    DEF Receive, IndInv, RxTypeOK, callvars, ttyvars, envvars, TtyLabels
  <2> QED
    BY <1>2, <2>1, FrameKeepsIndInv DEF Receive, Ending
<1>3. ASSUME NEW from \in TtyLabels, NEW to \in TtyLabels, TtyGoto(from, to),
             UNCHANGED <<ttyvars, byte, cnt, rxhwvars>>,
             from \in Ending <=> to \in Ending,
             from \notin {"fin_enable", "fin_give"}, to \notin {"fin_enable", "fin_give"}
      PROVE  IndInv'
  <2>1. RxTypeOK'
    BY <1>3 DEF IndInv, RxTypeOK, callvars, ttyvars, rxhwvars, envvars
  <2> QED
    BY <1>3, <2>1, FrameKeepsIndInv
<1>4. CASE Echo
  BY <1>4, <1>3 DEF Echo, TtyLabels, Ending
<1>5. CASE Redraw
  BY <1>5, <1>3 DEF Redraw, TtyLabels, Ending
<1>6. CASE Discard
  BY <1>6, <1>3 DEF Discard, TtyLabels, Ending
<1>7. CASE UnknownKey
  BY <1>7, <1>3 DEF UnknownKey, TtyLabels, Ending
<1>8. CASE Printf("hello", "recv")
  BY <1>8, <1>3 DEF Printf, TtyLabels, Ending
<1>9. CASE Printf("crlf", "fin_num")
  BY <1>9, <1>3 DEF Printf, TtyLabels, Ending
<1>10. CASE Printf("unknown", "recv")
  BY <1>10, <1>3 DEF Printf, TtyLabels, Ending
<1> QED
  BY <1>1, <1>2, <1>4, <1>5, <1>6, <1>7, <1>8, <1>9, <1>10, Zenon

(* cnt + 1 in cnt's uint8_t range. *)
LEMMA IncrementModulo ==
  ASSUME NEW c \in 0..CntMod - 1
  PROVE  /\ (c + 1) % CntMod \in 0..CntMod - 1
         /\ (c + 1) % CntMod <= c + 1
         /\ c + 1 < CntMod => (c + 1) % CntMod = c + 1
<1>1. CASE c + 1 < CntMod
  BY <1>1, DriverAssumption
<1>2. CASE c + 1 = CntMod
  <2>1. CntMod % CntMod = 0
    BY DriverAssumption, Z3
  <2> QED
    BY <1>2, <2>1, DriverAssumption
<1> QED
  BY <1>1, <1>2, DriverAssumption

(* Editing and completing a line preserve it. *)
LEMMA EditKeepsIndInv ==
  ASSUME IndInv, EnterKey \/ Backspace \/ CharKey \/ FinNum \/ FinEnable \/ FinGive
  PROVE  IndInv'
<1> USE DriverAssumption DEF IndInv, TtyGoto, callvars, envvars
<1>1. CASE EnterKey
  <2> USE <1>1 DEF EnterKey, rxhwvars
  <2>1. rx_enable /\ tpc = "check" /\ tpc' = "crlf"
    OBVIOUS
  <2>2. cnt \in Nat /\ cnt <= Len(mem) /\ mem \in Seq(Chars \cup {NL})
    BY <2>1 DEF RxTypeOK, LineInv
  <2>3. mem' \in Seq(Chars \cup {NL}) /\ Len(mem') = cnt + 1 /\ cnt' = (cnt + 1) % CntMod
    BY <2>2, StoreLength DEF Store
  <2>4. cnt < size[lock_rx] /\ lock_rx \in Readers /\ size[lock_rx] \in RxSizes
    BY <2>1 DEF StoresInLiveBuffer, RxSetupInv, Ending
  <2>5. cnt' \in 0..CntMod - 1 /\ cnt' <= cnt + 1 /\ (NoWrap => cnt' = cnt + 1)
    <3>1. cnt \in 0..CntMod - 1 /\ size[lock_rx] \in Nat
      BY <2>4, Zenon DEF RxTypeOK
    <3>2. NoWrap => cnt + 1 < CntMod
      BY <2>4, <3>1 DEF NoWrap
    <3> QED
      BY <2>3, <2>4, <3>1, <3>2, IncrementModulo
  <2>6. RxTypeOK'
    BY <2>1, <2>3, <2>5 DEF RxTypeOK, TtyLabels
  <2>7. RxLockInv' /\ RxSetupInv'
    BY <2>1, <2>3 DEF RxLockInv, RxSetupInv, StoresInLiveBuffer, RxHolding
  <2>8. LineInv'
    BY <2>1, <2>3, <2>5 DEF LineInv, NoWrap, Ending
  <2>9. StoresInLiveBuffer' /\ HandshakeClean'
    BY <2>1 DEF StoresInLiveBuffer, HandshakeClean
  <2> QED
    BY <2>6, <2>7, <2>8, <2>9
<1>2. CASE Backspace
  <2> USE <1>2 DEF Backspace, rxhwvars
  <2>1. rx_enable /\ tpc = "check" /\ tpc' = "redraw" /\ cnt > 0
    OBVIOUS
  <2>2. cnt \in 0..CntMod - 1 /\ cnt <= Len(mem) /\ mem \in Seq(Chars \cup {NL})
    BY <2>1 DEF RxTypeOK, LineInv
  <2>3. mem' \in Seq(Chars \cup {NL}) /\ Len(mem') = cnt - 1 /\ cnt' = cnt - 1
    BY <2>1, <2>2, EraseLength
  <2>4. cnt' \in 0..CntMod - 1 /\ cnt' < cnt
    BY <2>1, <2>2, <2>3
  <2>5. RxTypeOK'
    BY <2>1, <2>3, <2>4 DEF RxTypeOK, TtyLabels
  <2>6. RxLockInv' /\ RxSetupInv'
    BY <2>1 DEF RxLockInv, RxSetupInv, StoresInLiveBuffer, RxHolding
  <2>7. LineInv'
    BY <2>1, <2>3, <2>4 DEF LineInv, NoWrap, Ending
  <2>8. StoresInLiveBuffer' /\ HandshakeClean'
    <3>1. lock_rx \in Readers /\ size[lock_rx] \in RxSizes /\ cnt < size[lock_rx]
      BY <2>1 DEF StoresInLiveBuffer, RxSetupInv, Ending
    <3>2. cnt' < size'[lock_rx']
      <4>1. size[lock_rx] \in Nat
        BY <3>1, Zenon
      <4> QED
        BY <2>2, <2>4, <3>1, <4>1
    <3> QED
      BY <2>1, <3>2 DEF StoresInLiveBuffer, HandshakeClean
  <2> QED
    BY <2>5, <2>6, <2>7, <2>8
<1>3. CASE CharKey
  <2> USE <1>3 DEF CharKey, rxhwvars
  <2>1. /\ rx_enable /\ tpc = "check" /\ tpc' = IF cnt' = rx_num THEN "fin_num" ELSE "recv"
        /\ byte \in Chars
    OBVIOUS
  <2>2. cnt \in Nat /\ cnt <= Len(mem) /\ mem \in Seq(Chars \cup {NL})
    BY <2>1 DEF RxTypeOK, LineInv
  <2>3. mem' \in Seq(Chars \cup {NL}) /\ Len(mem') = cnt + 1 /\ cnt' = (cnt + 1) % CntMod
    BY <2>1, <2>2, StoreLength DEF Store
  <2>4. /\ cnt < size[lock_rx] /\ lock_rx \in Readers /\ size[lock_rx] \in RxSizes
        /\ rx_num = size[lock_rx]
    BY <2>1 DEF StoresInLiveBuffer, RxSetupInv, LineInv, Ending
  <2>5. /\ cnt' \in 0..CntMod - 1 /\ cnt' <= cnt + 1 /\ (NoWrap => cnt' = cnt + 1)
        /\ cnt' # rx_num => cnt' < size[lock_rx]
    <3>1. cnt \in 0..CntMod - 1 /\ size[lock_rx] \in Nat
      BY <2>4, Zenon DEF RxTypeOK
    <3>2. NoWrap => cnt + 1 < CntMod
      BY <2>4, <3>1 DEF NoWrap
    <3> QED
      BY <2>3, <2>4, <3>1, <3>2, IncrementModulo
  <2>6. RxTypeOK'
    BY <2>1, <2>3, <2>5 DEF RxTypeOK, TtyLabels
  <2>7. RxLockInv' /\ RxSetupInv'
    BY <2>1, <2>3 DEF RxLockInv, RxSetupInv, StoresInLiveBuffer, RxHolding
  <2>8. LineInv'
    BY <2>1, <2>3, <2>4, <2>5 DEF LineInv, NoWrap, Ending
  <2>9. StoresInLiveBuffer' /\ HandshakeClean'
    BY <2>1, <2>5 DEF StoresInLiveBuffer, HandshakeClean
  <2> QED
    BY <2>6, <2>7, <2>8, <2>9
<1>4. CASE FinNum
  <2> USE <1>4 DEF FinNum, rxhwvars
  <2>1. RxTypeOK'
    BY DEF RxTypeOK, TtyLabels
  <2>2. RxLockInv' /\ RxSetupInv'
    BY DEF RxLockInv, RxSetupInv, StoresInLiveBuffer, LineInv, RxHolding, Ending
  <2>3. LineInv'
    BY DEF LineInv, NoWrap, Ending
  <2>4. StoresInLiveBuffer' /\ HandshakeClean'
    BY DEF StoresInLiveBuffer, HandshakeClean
  <2> QED
    BY <2>1, <2>2, <2>3, <2>4
<1>5. CASE FinEnable
  <2> USE <1>5 DEF FinEnable, rxhwvars
  <2>0. rx_enable /\ ~rx_enable' /\ cnt' = 0
    BY Zenon DEF LineInv, Ending
  <2>1. RxTypeOK'
    <3>1. rx_enable' \in BOOLEAN
      BY Zenon
    <3> QED
      BY <3>1 DEF RxTypeOK, TtyLabels
  <2>2. RxLockInv' /\ RxSetupInv'
    BY DEF RxLockInv, RxSetupInv
  <2>3. LineInv'
    BY <2>0 DEF LineInv, NoWrap, Ending, StoresInLiveBuffer
  <2>4. StoresInLiveBuffer' /\ HandshakeClean'
    BY <2>0 DEF StoresInLiveBuffer, HandshakeClean
  <2> QED
    BY <2>1, <2>2, <2>3, <2>4
<1>6. CASE FinGive
  <2> USE <1>6 DEF FinGive, rxhwvars
  <2>0. /\ ~rx_enable /\ ~rx_enable' /\ sem_rx' = 1 /\ tpc' = "recv"
        /\ lock_rx \in Readers /\ rpc[lock_rx] = "take_sem"
    BY Zenon DEF LineInv
  <2>1. RxTypeOK'
    BY DEF RxTypeOK, TtyLabels
  <2>2. RxLockInv' /\ RxSetupInv'
    BY DEF RxLockInv, RxSetupInv
  <2>3. LineInv'
    BY <2>0 DEF LineInv, NoWrap, Ending
  <2>4. StoresInLiveBuffer' /\ HandshakeClean'
    BY <2>0 DEF StoresInLiveBuffer, HandshakeClean
  <2> QED
    BY <2>1, <2>2, <2>3, <2>4
<1> QED
  BY <1>1, <1>2, <1>3, <1>4, <1>5, <1>6, Zenon

(* Interrupts, the line and the transmit half preserve it. *)
LEMMA OtherKeepsIndInv ==
  ASSUME IndInv,
         \/ \E t \in Tasks : AppWrite(t) \/ TxStep(t)
         \/ TransmitIrq \/ ReceiveIrq \/ ShiftOut \/ ShiftIn
         \/ UNCHANGED vars
  PROVE  IndInv'
<1> USE DriverAssumption DEF callvars, ttyvars, taskvars, rxhwvars, envvars
<1>1. ASSUME UNCHANGED <<callvars, ttyvars, taskvars>>, RxTypeOK' PROVE IndInv'
  BY <1>1, FrameKeepsIndInv
<1>2. ASSUME UNCHANGED <<callvars, ttyvars, taskvars, rxhwvars, bytesLeft>>,
             printsLeft' \in 0..MaxPrints
      PROVE  IndInv'
  BY <1>1, <1>2 DEF IndInv, RxTypeOK
<1>3. ASSUME NEW t \in Tasks, AppWrite(t) PROVE IndInv'
  <2>1. printsLeft' \in 0..MaxPrints
    BY <1>3 DEF AppWrite, IndInv, RxTypeOK
  <2> QED
    BY <1>2, <1>3, <2>1 DEF AppWrite
<1>4. ASSUME NEW t \in Tasks, TxStep(t) PROVE IndInv'
  BY <1>2, <1>4, Zenon DEF TxStep, IndInv, RxTypeOK
<1>5. CASE TransmitIrq \/ ShiftOut \/ UNCHANGED vars
  BY <1>2, <1>5, Zenon DEF TransmitIrq, ShiftOut, vars, IndInv, RxTypeOK
<1>6. CASE ReceiveIrq
  <2>1. q_rx' \in Seq(Bytes) /\ Len(q_rx') <= QueueLen
    BY <1>6, AppendProperties DEF ReceiveIrq, IndInv, RxTypeOK
  <2>2. RxTypeOK'
    BY <1>6, <2>1 DEF ReceiveIrq, IndInv, RxTypeOK
  <2>3. UNCHANGED <<callvars, ttyvars, taskvars>>
    BY <1>6, Zenon DEF ReceiveIrq
  <2> QED
    BY <1>1, <2>2, <2>3, Zenon
<1>7. CASE ShiftIn
  <2>1. RxTypeOK'
    BY <1>7 DEF ShiftIn, IndInv, RxTypeOK
  <2>2. UNCHANGED <<callvars, ttyvars, taskvars>>
    BY <1>7, Zenon DEF ShiftIn
  <2> QED
    BY <1>1, <2>1, <2>2, Zenon
<1> QED
  BY <1>3, <1>4, <1>5, <1>6, <1>7, Zenon

(* Every step preserves it. *)
LEMMA NextKeepsIndInv == IndInv /\ [Next]_vars => IndInv'
<1> SUFFICES ASSUME IndInv, [Next]_vars PROVE IndInv'
  OBVIOUS
<1>1. CASE TtyStep
  BY <1>1, TtyOtherKeepsIndInv, EditKeepsIndInv, Zenon DEF TtyStep
<1>2. CASE \E t \in Readers :
             ReadEmpty(t) \/ (\E n \in RxSizes : Read(t, n)) \/ RxStep(t)
  BY <1>2, ReaderKeepsIndInv, Zenon
<1> QED
  BY <1>1, <1>2, OtherKeepsIndInv, Zenon DEF Next

(* The inductive invariant holds in every reachable state. *)
THEOREM IndInvHolds == SafeSpec => []IndInv
  BY InitIndInv, NextKeepsIndInv, PTL DEF SafeSpec

(* TTY_Task stores only into the buffer of the task that is blocked inside *)
(* tty_driver_rx, and inside that buffer's bounds, for every buffer size.  *)
THEOREM StoreSafety == SafeSpec => []StoresInLiveBuffer
  BY IndInvHolds, PTL DEF IndInv

(* A line starts at index 0, and a completed read wakes its own caller. *)
THEOREM HandshakeSafety == SafeSpec => []HandshakeClean
  BY IndInvHolds, PTL DEF IndInv

(* With buffers smaller than the range of TTY_Task's uint8_t cnt, a full   *)
(* buffer ends the line, as TTY_Task's comment says.                       *)
THEOREM FullBufferEnds ==
  ASSUME NoWrap
  PROVE  SafeSpec => []StopsWhenFull
<1>1. IndInv => StopsWhenFull
  BY DriverAssumption
  DEF IndInv, RxTypeOK, LineInv, StoresInLiveBuffer, StopsWhenFull, Ending
<1> QED
  BY <1>1, IndInvHolds, PTL

-----------------------------------------------------------------------------
(* The transmit half inside the whole driver *)

(* Whatever the priorities, the reads and TTY_Task do, the driver makes    *)
(* only the steps of the transmit half, so every theorem about that half   *)
(* holds of the driver.                                                    *)
THEOREM TransmitHalfKept == SafeSpec => KeepsTransmitHalf
<1> USE DEF txvars, callvars, envvars
<1>1. Init => Tx!Init
  BY DEF Init
<1>2. [Next]_vars => [Tx!Next]_(Tx!vars)
  <2> SUFFICES ASSUME [Next]_vars PROVE Tx!Next \/ UNCHANGED txvars
    BY Zenon DEF Tx!vars
  <2>1. ASSUME NEW t \in Tasks, AppWrite(t) \/ TxStep(t) PROVE Tx!Next
    BY <2>1, Zenon DEF AppWrite, TxStep, Tx!Next
  <2>2. ASSUME NEW t \in Readers,
               ReadEmpty(t) \/ (\E n \in RxSizes : Read(t, n)) \/ RxStep(t)
        PROVE  UNCHANGED txvars
    BY <2>2, Zenon
    DEF ReadEmpty, Read, RxStep, RxGoto, RxTakeLock, RxSetBuf, RxSetNum, RxEnable,
        RxTakeSem, RxGiveLock, RxReturn
  <2>3. CASE TtyStep
    <3>1. ASSUME Echo \/ Redraw \/ Stdout PROVE Tx!Next \/ UNCHANGED txvars
      <4>1. 1 \in 1..MaxLen
        BY DriverAssumption
      <4> QED
        BY <3>1, <4>1, DriverAssumption, Zenon DEF Echo, Redraw, Stdout, Tx!Next
    <3>2. CASE \/ Start \/ Receive \/ Discard \/ EnterKey \/ Backspace \/ CharKey
               \/ UnknownKey \/ FinNum \/ FinEnable \/ FinGive
      BY <3>2, Zenon
      DEF Start, Receive, Discard, EnterKey, Backspace, CharKey, UnknownKey, FinNum,
          FinEnable, FinGive
    <3> QED
      BY <2>3, <3>1, <3>2, Zenon DEF TtyStep, Printf
  <2>4. CASE TransmitIrq \/ ReceiveIrq \/ ShiftOut \/ ShiftIn \/ UNCHANGED vars
    BY <2>4, Zenon DEF TransmitIrq, ReceiveIrq, ShiftOut, ShiftIn, vars, Tx!Next
  <2> QED
    BY <2>1, <2>2, <2>3, <2>4, Zenon DEF Next
<1> QED
  BY <1>1, <1>2, PTL DEF SafeSpec, KeepsTransmitHalf, Tx!SafeSpec

TxProofs == INSTANCE TtyTxProofs

(* The transmit half as TtyDriver and as TtyTxProofs instantiate it. *)
LEMMA SameTxHalf ==
  /\ Tx!Init <=> TxProofs!Init
  /\ [Tx!Next]_(Tx!vars) <=> [TxProofs!Next]_(TxProofs!vars)
  /\ Tx!TypeOK <=> TxProofs!TypeOK
  /\ Tx!IndInv <=> TxProofs!IndInv
<1>1. Tx!Init <=> TxProofs!Init
  BY Zenon DEF Tx!Init, TxProofs!Init, Tx!NoByte, TxProofs!NoByte
<1>2. Tx!TypeOK <=> TxProofs!TypeOK
  BY Zenon
  DEF Tx!TypeOK, TxProofs!TypeOK, Tx!Labels, TxProofs!Labels, Tx!Holding, TxProofs!Holding
<1>3. [Tx!Next]_(Tx!vars) <=> [TxProofs!Next]_(TxProofs!vars)
  BY Zenon
  DEF Tx!Goto, TxProofs!Goto, Tx!CallEmpty, TxProofs!CallEmpty, Tx!Call,
      TxProofs!Call, Tx!TakeLock, TxProofs!TakeLock, Tx!SetNum, TxProofs!SetNum,
      Tx!SetBuf, TxProofs!SetBuf, Tx!EnableTxe, TxProofs!EnableTxe, Tx!TakeSem,
      TxProofs!TakeSem, Tx!GiveLock, TxProofs!GiveLock, Tx!Return,
      TxProofs!Return, Tx!IsrTxe, TxProofs!IsrTxe, Tx!ShiftOut,
      TxProofs!ShiftOut, Tx!Inside, TxProofs!Inside, Tx!Next, TxProofs!Next,
      Tx!vars, TxProofs!vars
<1>4. Tx!LockInv <=> TxProofs!LockInv
  BY Zenon DEF Tx!LockInv, TxProofs!LockInv, Tx!Holding, TxProofs!Holding
<1>5. Tx!SetupInv <=> TxProofs!SetupInv
  BY Zenon DEF Tx!SetupInv, TxProofs!SetupInv
<1>6. Tx!IsrReadsLiveBuffer <=> TxProofs!IsrReadsLiveBuffer
  BY Zenon DEF Tx!IsrReadsLiveBuffer, TxProofs!IsrReadsLiveBuffer
<1>7. Tx!TokenIsFresh <=> TxProofs!TokenIsFresh
  BY Zenon DEF Tx!TokenIsFresh, TxProofs!TokenIsFresh
<1>8. Tx!IndInv <=> TxProofs!IndInv
  BY <1>2, <1>4, <1>5, <1>6, <1>7, Zenon DEF Tx!IndInv, TxProofs!IndInv
<1> QED
  BY <1>1, <1>2, <1>3, <1>8, Zenon

(* The types of both halves, the driver as a whole: the two semaphores stay *)
(* binary, tx_ind stays inside its buffer and tty.q_rx within its capacity. *)
THEOREM DriverTypes == SafeSpec => []TypeOK
<1>1. NoTask \notin Tasks /\ MaxLen \in Nat
  BY DriverAssumption
<1>2. TxProofs!SafeSpec => []TxProofs!TypeOK
  BY <1>1, TxProofs!TypeCorrect
<1> QED
  BY <1>2, SameTxHalf, TransmitHalfKept, IndInvHolds, PTL
  DEF TypeOK, IndInv, KeepsTransmitHalf, Tx!SafeSpec, TxProofs!SafeSpec

-----------------------------------------------------------------------------
(* Which calls of tty_driver_tx return their length *)

(* Every other task is less urgent; in the firmware that is TTY_Task. *)
MostUrgent(u) == \A t \in Tasks \ {u} : Prio[t] < Prio[u]

(* Between its last semaphore call and its return the most urgent task is   *)
(* ready, waits for nobody, and so nobody else runs.                        *)
LEMMA UrgentRunsOn ==
  ASSUME NEW u \in Tasks, MostUrgent(u), pc[u] = "return", ~InRead(u),
         NEW t \in Tasks, t # u
  PROVE  ~Runs(t)
<1> SUFFICES ASSUME Runs(t) PROVE FALSE
  OBVIOUS
<1>1. Wants(u)
  BY DEF Wants, Ready
<1>2. u \in Donors(u)
  BY DEF Donors
<1>3. PICK d \in Donors(t) : Prio[u] <= Prio[d]
  BY <1>1, <1>2, Zenon DEF Runs
<1>4. d \in Tasks /\ d # u
  BY <1>3, DriverAssumption DEF Donors, InRead
<1> QED
  BY <1>3, <1>4, DriverAssumption DEF MostUrgent

(* What the most urgent task will return, and has returned, is the length   *)
(* it asked for; it is not inside both calls of the driver.                 *)
CountInv(u) ==
  /\ pc[u] # "idle" => ~InRead(u)
  /\ pc[u] = "return" => tx_num = num[u]
  /\ pc[u] = "idle" => ret[u] = num[u]

(* The statements of tty_driver_tx keep it. *)
LEMMA TxKeepsCount ==
  ASSUME NEW u \in Tasks, MostUrgent(u), Tx!IndInv, CountInv(u), NEW t \in Tasks, TxStep(t)
  PROVE  CountInv(u)'
<1>0. /\ pc \in [Tasks -> Tx!Labels] /\ num \in [Tasks -> 0..MaxLen] /\ ret \in [Tasks -> 0..MaxLen]
      /\ pc[u] = "give_lock" => tx_num = num[u]
  BY DEF Tx!IndInv, Tx!TypeOK, Tx!SetupInv
<1>1. Runs(t) /\ Tx!Inside(t) /\ UNCHANGED rpc
  BY Zenon DEF TxStep, callvars
<1>2. InRead(u)' <=> InRead(u)
  BY <1>1 DEF InRead
<1> USE DEF CountInv, Tx!Goto
<1>3. CASE t = u
  <2>1. CASE Tx!TakeLock(t) \/ Tx!SetNum(t) \/ Tx!SetBuf(t) \/ Tx!EnableTxe(t) \/ Tx!TakeSem(t)
    BY <2>1, <1>0, <1>2, <1>3 DEF Tx!TakeLock, Tx!SetNum, Tx!SetBuf, Tx!EnableTxe, Tx!TakeSem
  <2>2. CASE Tx!GiveLock(t)
    BY <2>2, <1>0, <1>2, <1>3 DEF Tx!GiveLock
  <2>3. CASE Tx!Return(t)
    BY <2>3, <1>0, <1>3 DEF Tx!Return
  <2> QED
    BY <1>1, <2>1, <2>2, <2>3, Zenon DEF Tx!Inside
<1>4. CASE t # u
  <2>1. pc'[u] = pc[u] /\ num'[u] = num[u] /\ ret'[u] = ret[u]
    BY <1>0, <1>1, <1>4
    DEF Tx!Inside, Tx!TakeLock, Tx!SetNum, Tx!SetBuf, Tx!EnableTxe, Tx!TakeSem, Tx!GiveLock,
        Tx!Return
  <2>2. pc[u] # "return"
    BY <1>1, <1>4, UrgentRunsOn
  <2> QED
    BY <2>1, <2>2, <1>2
<1> QED
  BY <1>3, <1>4

(* A call begins outside tty_driver_rx. *)
LEMMA CallKeepsCount ==
  ASSUME NEW u \in Tasks, Tx!IndInv, CountInv(u), NEW t \in Tasks, UNCHANGED rpc,
         t = u => ~InRead(u),
         Tx!CallEmpty(t) \/ \E n \in 1..MaxLen : Tx!Call(t, n)
  PROVE  CountInv(u)'
<1>0. pc \in [Tasks -> Tx!Labels] /\ num \in [Tasks -> 0..MaxLen] /\ ret \in [Tasks -> 0..MaxLen]
  BY DEF Tx!IndInv, Tx!TypeOK
<1>1. InRead(u)' <=> InRead(u)
  BY DEF InRead
<1>2. CASE t # u
  <2>1. pc'[u] = pc[u] /\ num'[u] = num[u] /\ ret'[u] = ret[u] /\ tx_num' = tx_num
    BY <1>0, <1>2 DEF Tx!CallEmpty, Tx!Call, Tx!Goto
  <2> QED
    BY <1>1, <2>1 DEF CountInv
<1>3. CASE t = u /\ Tx!CallEmpty(u)
  BY <1>0, <1>3 DEF CountInv, Tx!CallEmpty
<1>4. CASE t = u /\ \E n \in 1..MaxLen : Tx!Call(u, n)
  <2>1. pc'[u] = "take_lock"
    BY <1>0, <1>4 DEF Tx!Call, Tx!Goto
  <2> QED
    BY <1>1, <1>4, <2>1 DEF CountInv
<1> QED
  BY <1>2, <1>3, <1>4

(* Steps that do not transmit keep it. *)
LEMMA RestKeepsCount ==
  ASSUME NEW u \in Tasks, CountInv(u), UNCHANGED txvars,
         pc[u] = "idle" \/ (u \in Readers => rpc'[u] = rpc[u])
  PROVE  CountInv(u)'
<1>1. UNCHANGED <<pc, num, ret, tx_num>>
  BY Zenon DEF txvars
<1>2. pc[u] # "idle" => (InRead(u)' <=> InRead(u))
  BY <1>1 DEF InRead
<1> QED
  BY <1>1, <1>2 DEF CountInv

(* So does every step. *)
LEMMA NextKeepsCount ==
  ASSUME NEW u \in Tasks, MostUrgent(u), IndInv, Tx!IndInv, CountInv(u), [Next]_vars
  PROVE  CountInv(u)'
<1>1. ASSUME NEW t \in Tasks, AppWrite(t) PROVE CountInv(u)'
  <2>1. UNCHANGED rpc /\ ~InRead(t) /\ (Tx!CallEmpty(t) \/ \E n \in 1..MaxLen : Tx!Call(t, n))
    BY <1>1, Zenon DEF AppWrite, callvars
  <2> QED
    BY <2>1, CallKeepsCount
<1>2. ASSUME NEW t \in Tasks, TxStep(t) PROVE CountInv(u)'
  BY <1>2, TxKeepsCount, Zenon
<1>3. ASSUME NEW t \in Readers,
             ReadEmpty(t) \/ (\E n \in RxSizes : Read(t, n)) \/ RxStep(t)
      PROVE  CountInv(u)'
  <2>1. UNCHANGED txvars /\ pc[t] = "idle" /\ (rpc' = rpc \/ \E l : rpc' = [rpc EXCEPT ![t] = l])
    BY <1>3, Zenon
    DEF ReadEmpty, Read, RxStep, RxGoto, RxTakeLock, RxSetBuf, RxSetNum, RxEnable,
        RxTakeSem, RxGiveLock, RxReturn
  <2>2. DOMAIN rpc = Readers
    BY DEF IndInv, RxTypeOK
  <2>3. pc[u] = "idle" \/ (u \in Readers => rpc'[u] = rpc[u])
    BY <2>1, <2>2
  <2> QED
    BY <2>1, <2>3, RestKeepsCount, Zenon
<1>4. CASE TtyStep
  <2>1. UNCHANGED rpc
    BY <1>4, Zenon
    DEF TtyStep, Start, Receive, Echo, Redraw, Printf, Discard, EnterKey, Backspace, CharKey,
        UnknownKey, FinNum, FinEnable, FinGive, TtyGoto, callvars
  <2>2. 1 \in 1..MaxLen /\ Tty \in Tasks /\ ~InRead(Tty)
    BY DriverAssumption DEF InRead
  <2>3. ASSUME \E n \in 1..MaxLen : Tx!Call(Tty, n) PROVE CountInv(u)'
    BY <2>1, <2>2, <2>3, CallKeepsCount
  <2>4. CASE Echo \/ Redraw
    BY <2>2, <2>3, <2>4, Zenon DEF Echo, Redraw
  <2>5. CASE Printf("hello", "recv") \/ Printf("crlf", "fin_num") \/ Printf("unknown", "recv")
    BY <2>1, <2>3, <2>5, RestKeepsCount, Zenon DEF Printf, Stdout
  <2>6. CASE \/ Start \/ Receive \/ Discard \/ EnterKey \/ Backspace \/ CharKey
             \/ UnknownKey \/ FinNum \/ FinEnable \/ FinGive
    <3>1. UNCHANGED txvars
      BY <2>6, Zenon
      DEF Start, Receive, Discard, EnterKey, Backspace, CharKey, UnknownKey, FinNum,
          FinEnable, FinGive
    <3> QED
      BY <2>1, <3>1, RestKeepsCount, Zenon
  <2> QED
    BY <1>4, <2>4, <2>5, <2>6, Zenon DEF TtyStep
<1>5. CASE TransmitIrq \/ ShiftOut
  <2>1. UNCHANGED <<rpc, pc, num, ret, tx_num>>
    BY <1>5, Zenon DEF TransmitIrq, ShiftOut, Tx!IsrTxe, Tx!ShiftOut, callvars
  <2> QED
    BY <2>1, Zenon DEF CountInv, InRead
<1>6. CASE ReceiveIrq \/ ShiftIn \/ UNCHANGED vars
  <2>1. UNCHANGED <<rpc, txvars>>
    BY <1>6, Zenon DEF ReceiveIrq, ShiftIn, vars, callvars
  <2> QED
    BY <2>1, RestKeepsCount, Zenon
<1> QED
  BY <1>1, <1>2, <1>3, <1>4, <1>5, <1>6, Zenon DEF Next

(* tty_driver_tx reads tty.tx_num after it gave the mutex back, and tx_count *)
(* shows that the result may be the length of another task's call.  The most *)
(* urgent task of those that write always gets its own: no other task runs   *)
(* before it has returned.                                                   *)
THEOREM UrgentCount ==
  ASSUME NEW u \in Tasks, MostUrgent(u)
  PROVE  SafeSpec => [](pc[u] = "idle" => ret[u] = num[u])
<1>1. Init => CountInv(u)
  BY DEF Init, Tx!Init, CountInv
<1>2. IndInv /\ Tx!IndInv /\ CountInv(u) /\ [Next]_vars => CountInv(u)'
  BY NextKeepsCount
<1>3. SafeSpec => []Tx!IndInv
  <2>1. NoTask \notin Tasks /\ MaxLen \in Nat
    BY DriverAssumption
  <2>2. TxProofs!SafeSpec => []TxProofs!IndInv
    BY <2>1, TxProofs!IndInvHolds
  <2> QED
    BY <2>2, SameTxHalf, TransmitHalfKept, PTL
    DEF KeepsTransmitHalf, Tx!SafeSpec, TxProofs!SafeSpec
<1>4. CountInv(u) => (pc[u] = "idle" => ret[u] = num[u])
  BY DEF CountInv
<1> QED
  BY <1>1, <1>2, <1>3, <1>4, IndInvHolds, PTL DEF SafeSpec

-----------------------------------------------------------------------------
(* The line tty_driver_rx promises its one caller *)

(* The firmware's only reader is cli_task. *)
OneReader == \A r, s \in Readers : r = s

(* From the end of the completion until its caller returns, tty.rx_num is  *)
(* the length of the line and tty.rx_buf still the caller's buffer.        *)
Published ==
  tpc = "fin_give" \/ sem_rx = 1 \/ \E r \in Readers : rpc[r] \in {"give_lock", "return"}

ReadyInv ==
  /\ Published => rx_num = Len(mem)
  /\ \A r \in Readers : rpc[r] = "return" => rx_buf = r

(* With one reader, a reader that is not between enabling the read and the *)
(* return has no line, and one that was woken finds TTY_Task elsewhere.    *)
LEMMA ReaderPhase ==
  ASSUME IndInv, OneReader, NEW r \in Readers
  PROVE  /\ rpc[r] \notin {"take_sem", "give_lock", "return"} =>
              /\ ~Complete /\ ~rx_enable /\ LineState = "closed"
         /\ rpc[r] \in {"give_lock", "return"} =>
              /\ ~rx_enable /\ sem_rx # 1
              /\ tpc \notin {"crlf", "fin_num", "fin_enable", "fin_give"}
  BY DEF IndInv, OneReader, LineInv, StoresInLiveBuffer, HandshakeClean, Complete,
         LineState, Ending

(* The steps of the reader preserve ReadyInv. *)
LEMMA ReaderKeepsReady ==
  ASSUME OneReader, IndInv, ReadyInv, NEW t \in Readers,
         ReadEmpty(t) \/ (\E n \in RxSizes : Read(t, n)) \/ RxStep(t)
  PROVE  ReadyInv'
<1> USE DEF ReadyInv, Published, ttyvars, taskvars
<1>0. rpc \in [Readers -> RxLabels]
  BY DEF IndInv, RxTypeOK
<1>1. CASE RxTakeSem(t) \/ RxGiveLock(t)
  <2>1. rx_buf = t
    BY <1>1 DEF IndInv, RxSetupInv, RxHolding, RxTakeSem, RxGiveLock, RxGoto
  <2> QED
    BY <1>0, <1>1, <2>1 DEF OneReader, RxTakeSem, RxGiveLock, RxGoto
<1>2. CASE ReadEmpty(t)
  BY <1>0, <1>2 DEF ReadEmpty
<1>3. CASE (\E n \in RxSizes : Read(t, n)) \/ RxTakeLock(t) \/ RxReturn(t)
  <2>1. rpc' = [rpc EXCEPT ![t] = rpc'[t]] /\ rpc'[t] \notin {"give_lock", "return"}
    BY <1>0, <1>3 DEF Read, RxTakeLock, RxReturn, RxGoto
  <2>2. UNCHANGED <<tpc, sem_rx, rx_num, mem, rx_buf>>
    BY <1>3 DEF Read, RxTakeLock, RxReturn, RxGoto
  <2> QED
    BY <1>0, <2>1, <2>2 DEF OneReader
<1>4. CASE RxSetBuf(t) \/ RxSetNum(t) \/ RxEnable(t)
  <2>1. /\ rpc' = [rpc EXCEPT ![t] = rpc'[t]] /\ rpc'[t] \notin {"give_lock", "return"}
        /\ rpc[t] \notin {"take_sem", "give_lock", "return"}
        /\ UNCHANGED <<tpc, sem_rx>>
    BY <1>0, <1>4 DEF RxSetBuf, RxSetNum, RxEnable, RxGoto
  <2>2. ~Complete
    BY <2>1, ReaderPhase
  <2>3. tpc' # "fin_give" /\ sem_rx' # 1
    BY <2>1, <2>2 DEF Complete
  <2> QED
    BY <1>0, <2>1, <2>3 DEF OneReader
<1> QED
  BY <1>1, <1>2, <1>3, <1>4, Zenon DEF RxStep

(* So do the other steps. *)
LEMMA ReadyInvKept ==
  ASSUME NoWrap, OneReader, IndInv, ReadyInv, [Next]_vars
  PROVE  ReadyInv'
<1> USE DEF TtyGoto, txvars, callvars, ttyvars, taskvars, rxhwvars, envvars
<1>1. ASSUME UNCHANGED <<rpc, sem_rx, rx_num, mem, rx_buf>>,
             tpc' = "fin_give" => tpc = "fin_give"
      PROVE  ReadyInv'
  BY <1>1 DEF ReadyInv, Published
<1>2. CASE EnterKey \/ Backspace \/ CharKey
  <2>1. /\ rx_enable /\ UNCHANGED <<rpc, sem_rx, rx_buf>> /\ tpc' # "fin_give"
    BY <1>2 DEF EnterKey, Backspace, CharKey
  <2>2. sem_rx # 1 /\ \A r \in Readers : rpc[r] \notin {"give_lock", "return"}
    BY <2>1, ReaderPhase DEF IndInv, StoresInLiveBuffer
  <2> QED
    BY <2>1, <2>2 DEF ReadyInv, Published
<1>3. CASE FinNum
  <2>1. /\ rx_enable /\ UNCHANGED <<rpc, sem_rx, rx_buf>> /\ tpc' # "fin_give"
    BY <1>3, Zenon DEF FinNum, IndInv, LineInv, Ending
  <2>2. sem_rx # 1 /\ \A r \in Readers : rpc[r] \notin {"give_lock", "return"}
    BY <2>1, ReaderPhase DEF IndInv, StoresInLiveBuffer
  <2> QED
    BY <2>1, <2>2 DEF ReadyInv, Published
<1>4. CASE FinEnable
  <2>1. rx_num = Len(mem)
    BY <1>4 DEF FinEnable, IndInv, LineInv, Ending
  <2> QED
    BY <1>4, <2>1 DEF FinEnable, ReadyInv, Published
<1>5. CASE FinGive
  BY <1>5 DEF FinGive, ReadyInv, Published
<1>6. CASE \/ Start \/ Receive \/ Echo \/ Redraw
           \/ Printf("hello", "recv") \/ Printf("crlf", "fin_num")
           \/ Printf("unknown", "recv") \/ Discard \/ UnknownKey
  BY <1>1, <1>6, Zenon DEF Start, Receive, Echo, Redraw, Printf, Discard, UnknownKey
<1>7. CASE \E t \in Tasks : AppWrite(t) \/ TxStep(t)
  BY <1>1, <1>7, Zenon DEF AppWrite, TxStep
<1>8. CASE TransmitIrq \/ ReceiveIrq \/ ShiftOut \/ ShiftIn \/ UNCHANGED vars
  BY <1>1, <1>8, Zenon DEF TransmitIrq, ReceiveIrq, ShiftOut, ShiftIn, vars
<1>9. CASE \E t \in Readers :
             ReadEmpty(t) \/ (\E n \in RxSizes : Read(t, n)) \/ RxStep(t)
  BY <1>9, ReaderKeepsReady, Zenon
<1>10. CASE TtyStep
  BY <1>10, <1>2, <1>3, <1>4, <1>5, <1>6, Zenon DEF TtyStep
<1> QED
  BY <1>7, <1>8, <1>9, <1>10, Zenon DEF Next

(* While there is a line, its text is everything stored. *)
LEMMA TextIsStored ==
  ASSUME NoWrap, IndInv, ReadyInv
  PROVE  LineState # "closed" => SubSeq(mem, 1, LineLength) = mem
<1>1. LineState # "closed" => LineLength = Len(mem)
  BY DEF IndInv, ReadyInv, Published, LineInv, LineState, LineLength, Complete, Ending
<1>2. mem \in Seq(Chars \cup {NL})
  BY DEF IndInv, RxTypeOK
<1>3. SubSeq(mem, 1, Len(mem)) = mem
  BY <1>2, SubSeqFull
<1> QED
  BY <1>1, <1>3, Zenon

(* The two facts above in the next state as well. *)
LEMMA TextIsStoredNext ==
  ASSUME NoWrap
  PROVE  (IndInv /\ ReadyInv => (LineState # "closed" => SubSeq(mem, 1, LineLength) = mem))'
<1>1. IndInv /\ ReadyInv => (LineState # "closed" => SubSeq(mem, 1, LineLength) = mem)
  BY TextIsStored, Zenon
<1> QED
  BY <1>1, PTL

LEMMA ReaderPhaseNext ==
  ASSUME OneReader, NEW r \in Readers
  PROVE  (IndInv => (rpc[r] \notin {"take_sem", "give_lock", "return"} => LineState = "closed"))'
<1>1. IndInv => (rpc[r] \notin {"take_sem", "give_lock", "return"} => LineState = "closed")
  BY ReaderPhase, Zenon
<1> QED
  BY <1>1, PTL

(* A step that neither opens, changes nor delivers the line is a stutter. *)
LEMMA LineStutters ==
  ASSUME NoWrap, IndInv, ReadyInv, IndInv', ReadyInv',
         LineState' = LineState, rret' = rret,
         LineState = "closed" \/ UNCHANGED <<size, rx_buf, mem>>
  PROVE  UNCHANGED Line!vars
<1>1. LineState # "closed" =>
        SubSeq(mem, 1, LineLength) = mem /\ (SubSeq(mem, 1, LineLength) = mem)'
  BY TextIsStored, TextIsStoredNext, Zenon
<1> QED
  BY <1>1, Zenon DEF Line!vars

(* Opening and delivering: the steps of tty_driver_rx. *)
LEMMA ReaderSteps ==
  ASSUME NoWrap, OneReader, IndInv, ReadyInv, IndInv', ReadyInv', NEW t \in Readers,
         ReadEmpty(t) \/ (\E n \in RxSizes : Read(t, n)) \/ RxStep(t)
  PROVE  [Line!Next]_(Line!vars)
<1> USE DriverAssumption DEF ttyvars, taskvars
<1>0. rpc \in [Readers -> RxLabels] /\ size \in [Readers -> RxSizes \cup {0}]
  BY Zenon DEF IndInv, RxTypeOK
<1>1. CASE ReadEmpty(t)
  <2>1. LineState = "closed" /\ LineState' = "closed"
    BY <1>1, ReaderPhase, ReaderPhaseNext, Zenon DEF ReadEmpty
  <2>2. Line!ReadNothing(t)
    BY <1>1, <2>1, Zenon DEF ReadEmpty, Line!ReadNothing
  <2> QED
    BY <2>2, Zenon DEF Line!Next
<1>2. CASE (\E n \in RxSizes : Read(t, n)) \/ RxTakeLock(t) \/ RxSetBuf(t) \/ RxSetNum(t)
  <2>1. /\ rpc[t] \notin {"take_sem", "give_lock", "return"}
        /\ rpc'[t] \notin {"take_sem", "give_lock", "return"}
        /\ rret' = rret
    BY <1>0, <1>2 DEF Read, RxTakeLock, RxSetBuf, RxSetNum, RxGoto
  <2>2. LineState = "closed" /\ LineState' = "closed"
    BY <2>1, ReaderPhase, ReaderPhaseNext, Zenon
  <2> QED
    BY <2>1, <2>2, LineStutters, Zenon
<1>3. CASE RxEnable(t)
  <2>1. LineState = "closed" /\ ~Complete /\ ~rx_enable
    BY <1>3, ReaderPhase DEF RxEnable, RxGoto
  <2>2. LineState' = "open"
    <3>1. rpc' = [rpc EXCEPT ![t] = "take_sem"] /\ tpc' = tpc /\ sem_rx' = sem_rx
      BY <1>3, Zenon DEF RxEnable, RxGoto
    <3>2. ~Complete'
      BY <1>0, <2>1, <3>1 DEF Complete
    <3> QED
      BY <1>3, <3>2, Zenon DEF LineState, RxEnable
  <2>3. rx_buf = t /\ mem = <<>> /\ size[t] \in RxSizes
    BY <1>3, Zenon DEF RxEnable, RxGoto, IndInv, RxSetupInv, RxHolding
  <2>4. SubSeq(mem', 1, LineLength') = <<>>
    BY <1>3, <2>2, <2>3, TextIsStoredNext DEF RxEnable
  <2>5. size'[rx_buf'] \in Nat \ {0} /\ rx_buf' = t /\ rret' = rret
    BY <1>3, <2>3, Zenon DEF RxEnable
  <2>6. Line!Open(t)
    BY <2>1, <2>2, <2>4, <2>5 DEF Line!Open
  <2> QED
    BY <2>6, Zenon DEF Line!Next
<1>4. CASE RxTakeSem(t) \/ RxGiveLock(t)
  <2>1. Complete
    BY <1>4 DEF Complete, RxTakeSem, RxGiveLock, RxGoto
  <2>2. Complete'
    BY <1>0, <1>4 DEF Complete, RxTakeSem, RxGiveLock, RxGoto
  <2>3. LineState' = LineState
    BY <2>1, <2>2 DEF LineState
  <2>4. UNCHANGED <<size, rx_buf, mem, rret>>
    BY <1>4 DEF RxTakeSem, RxGiveLock
  <2> QED
    BY <2>3, <2>4, LineStutters, Zenon
<1>5. CASE RxReturn(t)
  <2>1. rpc[t] = "return" /\ rpc'[t] = "idle" /\ rret' = [rret EXCEPT ![t] = rx_num]
    BY <1>0, <1>5 DEF RxReturn, RxGoto
  <2>2. LineState = "ready" /\ LineState' = "closed"
    BY <2>1, ReaderPhaseNext DEF LineState, Complete
  <2>3. rx_buf = t /\ SubSeq(mem, 1, LineLength) = mem /\ rx_num = Len(mem)
    BY <2>1, <2>2, TextIsStored DEF ReadyInv, Published
  <2>4. Line!Deliver(t)
    BY <2>1, <2>2, <2>3, Zenon DEF Line!Deliver
  <2> QED
    BY <2>4, Zenon DEF Line!Next
<1> QED
  BY <1>1, <1>2, <1>3, <1>4, <1>5, Zenon DEF RxStep

(* Typing, erasing and entering: the editing steps of TTY_Task. *)
LEMMA EditSteps ==
  ASSUME NoWrap, OneReader, IndInv, ReadyInv, IndInv', ReadyInv',
         EnterKey \/ Backspace \/ CharKey
  PROVE  Line!Next
<1> USE DriverAssumption DEF TtyGoto, callvars
<1>1. rx_enable /\ tpc = "check" /\ UNCHANGED <<rpc, size, rret, rx_buf, sem_rx, rx_enable>>
  BY DEF EnterKey, Backspace, CharKey
<1>2. /\ lock_rx \in Readers /\ rx_buf = lock_rx /\ sem_rx = 0
      /\ \A r \in Readers : rpc[r] \notin {"give_lock", "return"}
  BY <1>1, ReaderPhase DEF IndInv, StoresInLiveBuffer
<1>3. LineState = "open"
  BY <1>1, <1>2 DEF LineState, Complete
<1>4. LineState' = IF tpc' \in {"crlf", "fin_num"} THEN "ready" ELSE "open"
  <2>1. tpc' \in {"crlf", "redraw", "recv", "fin_num"}
    BY DEF EnterKey, Backspace, CharKey
  <2> QED
    BY <1>1, <1>2, <2>1 DEF LineState, Complete
<1>5. SubSeq(mem, 1, LineLength) = mem /\ SubSeq(mem', 1, LineLength') = mem'
  BY <1>3, <1>4, TextIsStored, TextIsStoredNext
<1>6. /\ mem \in Seq(Chars \cup {NL}) /\ cnt = Len(mem) /\ SubSeq(mem, 1, cnt) = mem
  <2>1. mem \in Seq(Chars \cup {NL}) /\ cnt = Len(mem)
    BY <1>1, Zenon DEF IndInv, RxTypeOK, LineInv
  <2> QED
    BY <2>1, SubSeqFull
<1>7. CASE EnterKey
  <2>1. mem' = Append(mem, NL) /\ tpc' = "crlf"
    BY <1>6, <1>7 DEF EnterKey, Store
  <2>2. Line!Enter
    BY <1>1, <1>3, <1>4, <1>5, <2>1, Zenon DEF Line!Enter
  <2> QED
    BY <2>2, Zenon DEF Line!Next
<1>8. CASE Backspace
  <2>1. mem' = SubSeq(mem, 1, Len(mem) - 1) /\ mem # <<>> /\ tpc' = "redraw"
    BY <1>6, <1>8 DEF Backspace
  <2>2. Line!Erase
    BY <1>1, <1>3, <1>4, <1>5, <2>1, Zenon DEF Line!Erase
  <2> QED
    BY <2>2, Zenon DEF Line!Next
<1>9. CASE CharKey
  <2>1. mem' = Append(mem, byte) /\ byte \in Chars
    BY <1>6, <1>9 DEF CharKey, Store
  <2>2. tpc' = IF Len(mem) + 1 = size[rx_buf] THEN "fin_num" ELSE "recv"
    <3>1. cnt' = Len(mem')
      BY <1>1 DEF IndInv, LineInv
    <3>2. rx_num = size[rx_buf]
      BY <1>1, <1>2 DEF IndInv, LineInv
    <3>3. Len(mem') = Len(mem) + 1
      BY <1>6, <2>1, AppendProperties
    <3> QED
      BY <1>9, <3>1, <3>2, <3>3 DEF CharKey
  <2>3. Line!Type(byte)
    BY <1>1, <1>3, <1>4, <1>5, <2>1, <2>2, Zenon DEF Line!Type
  <2> QED
    BY <2>1, <2>3, Zenon DEF Line!Next
<1> QED
  BY <1>7, <1>8, <1>9

(* tty_driver_rx and TTY_Task implement line input, safety part: with       *)
(* buffers below cnt's range and cli_task the only reader, every step of    *)
(* the driver is a step of LineInput or leaves the line as it is.           *)
THEOREM ImplementsLineInputSafely ==
  ASSUME NoWrap, OneReader
  PROVE  SafeSpec => Line!SafeSpec
<1> USE DEF TtyGoto, txvars, callvars, ttyvars, taskvars, rxhwvars, envvars
<1>1. Init => ReadyInv /\ Line!Init
  <2> SUFFICES ASSUME Init PROVE ReadyInv /\ Line!Init
    OBVIOUS
  <2>1. ReadyInv
    BY DEF Init, ReadyInv, Published
  <2>2. LineState = "closed" /\ rret = [r \in Readers |-> 0]
    BY DEF Init, LineState, Complete
  <2> QED
    BY <2>1, <2>2, Zenon DEF Line!Init
<1>2. ASSUME IndInv, ReadyInv, IndInv', ReadyInv', [Next]_vars
      PROVE  [Line!Next]_(Line!vars)
  <2> DEFINE Done == {"crlf", "fin_num", "fin_enable", "fin_give"}
  <2>1. ASSUME UNCHANGED <<rpc, size, rret, sem_rx, rx_buf, rx_enable, mem>>,
               tpc' \in Done <=> tpc \in Done
        PROVE  UNCHANGED Line!vars
    <3>1. LineState' = LineState
      BY <2>1 DEF LineState, Complete
    <3> QED
      BY <1>2, <2>1, <3>1, LineStutters, Zenon
  <2>2. CASE \/ Start \/ Receive \/ Echo \/ Redraw
             \/ Printf("hello", "recv") \/ Printf("crlf", "fin_num")
             \/ Printf("unknown", "recv") \/ Discard \/ UnknownKey \/ FinNum
    BY <2>1, <2>2, Zenon DEF Start, Receive, Echo, Redraw, Printf, Discard, UnknownKey, FinNum
  <2>3. CASE FinEnable \/ FinGive
    <3>1. Complete /\ Complete' /\ UNCHANGED <<size, rret, rx_buf, mem>>
      BY <2>3 DEF Complete, FinEnable, FinGive
    <3>2. LineState' = LineState
      BY <3>1 DEF LineState
    <3> QED
      BY <1>2, <3>1, <3>2, LineStutters, Zenon
  <2>4. CASE EnterKey \/ Backspace \/ CharKey
    BY <1>2, <2>4, EditSteps, Zenon
  <2>5. CASE TtyStep
    BY <2>5, <2>2, <2>3, <2>4, Zenon DEF TtyStep
  <2>6. CASE \E t \in Readers :
               ReadEmpty(t) \/ (\E n \in RxSizes : Read(t, n)) \/ RxStep(t)
    BY <1>2, <2>6, ReaderSteps, Zenon
  <2>7. CASE \E t \in Tasks : AppWrite(t) \/ TxStep(t)
    BY <2>1, <2>7, Zenon DEF AppWrite, TxStep
  <2>8. CASE TransmitIrq \/ ReceiveIrq \/ ShiftOut \/ ShiftIn \/ UNCHANGED vars
    BY <2>1, <2>8, Zenon DEF TransmitIrq, ReceiveIrq, ShiftOut, ShiftIn, vars
  <2> QED
    BY <1>2, <2>5, <2>6, <2>7, <2>8, Zenon DEF Next
<1>3. IndInv /\ ReadyInv /\ [Next]_vars => ReadyInv'
  BY ReadyInvKept, Zenon
<1> QED
  BY <1>1, <1>2, <1>3, IndInvHolds, PTL DEF SafeSpec, Line!SafeSpec
==============================================================================

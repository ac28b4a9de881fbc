-------------------------- MODULE NewlibHeapProofs --------------------------
(* Proofs about NewlibHeap, for any tasks, heap size and increments.       *)
EXTENDS NewlibHeap, TLAPS

USE HeapAssumption

(* Before the scheduler starts nothing was handed out. *)
LEMMA InitIndInv == Init => IndInv
<1> SUFFICES ASSUME Init PROVE IndInv
  OBVIOUS
<1>1. TypeOK
  BY DEF Init, TypeOK
<1>2. BlocksInHeap /\ BlocksDisjoint
  BY DEF Init, BlocksInHeap, BlocksDisjoint
<1>3. \A t \in Tasks : pc[t] = "app"
  BY DEF Init
<1> QED
  BY <1>1, <1>2, <1>3 DEF IndInv

(* Statements of _sbrk that leave heap_end and the blocks alone. *)
LEMMA QuietSteps ==
  ASSUME IndInv, NEW t \in Tasks,
         \/ \E n \in Incrs : Call(t, n)
         \/ SuspendAll(t) \/ ReadEnd(t) \/ NoMemory(t)
  PROVE  IndInv'
<1> USE DEF IndInv, TypeOK, BlocksInHeap, BlocksDisjoint, End, Step
<1>1. CASE \E n \in Incrs : Call(t, n)
  BY <1>1 DEF Call
<1>2. CASE SuspendAll(t)
  BY <1>2 DEF SuspendAll
<1>3. CASE ReadEnd(t)
  BY <1>3 DEF ReadEnd
<1>4. CASE NoMemory(t)
  BY <1>4 DEF NoMemory
<1> QED
  BY <1>1, <1>2, <1>3, <1>4

(* heap_end grows by the increment after the check. *)
LEMMA GrowKeepsIndInv ==
  ASSUME IndInv, NEW t \in Tasks, Grow(t)
  PROVE  IndInv'
  BY DEF Grow, Step, IndInv, TypeOK, BlocksInHeap, BlocksDisjoint, End

(* The new block starts where all the others have ended. *)
LEMMA ResumeKeepsIndInv ==
  ASSUME IndInv, NEW t \in Tasks, ResumeAll(t)
  PROVE  IndInv'
<1> DEFINE new == [task |-> t, start |-> prev[t], size |-> incr[t]]
<1>1. /\ new \in [task : Tasks, start : Nat, size : Nat]
      /\ End(new) = heap_end
      /\ \A b \in blocks : End(b) <= new.start
  BY DEF ResumeAll, Step, IndInv, TypeOK, End
<1>2. blocks' = blocks \cup {new}
  BY DEF ResumeAll
<1>3. \A b \in blocks : b.start \in Nat /\ b.size \in Nat /\ End(b) \in Nat
  BY DEF IndInv, TypeOK, End
<1> HIDE DEF new
<1>4. BlocksDisjoint'
  BY <1>1, <1>2, <1>3 DEF IndInv, BlocksDisjoint, End
<1>5. BlocksInHeap'
  BY <1>1, <1>2, <1>3 DEF IndInv, BlocksInHeap, ResumeAll, End, TypeOK
<1>6. TypeOK'
  BY <1>1, <1>2 DEF IndInv, TypeOK, ResumeAll, Step
<1>7. \A u \in Tasks \ {t} : pc'[u] = pc[u] /\ pc[u] \in {"app", "suspend"}
  BY DEF IndInv, TypeOK, ResumeAll, Step
<1>8. pc'[t] = "app"
  BY DEF IndInv, TypeOK, ResumeAll, Step
<1> QED
  BY <1>4, <1>5, <1>6, <1>7, <1>8 DEF IndInv

(* The scheduler and the application. *)
LEMMA OtherSteps ==
  ASSUME IndInv, NEW t \in Tasks, Switch(t) \/ Wait(t)
  PROVE  IndInv'
<1> USE DEF IndInv, TypeOK, BlocksInHeap, BlocksDisjoint, End
<1>1. CASE Switch(t)
  BY <1>1 DEF Switch
<1>2. CASE Wait(t)
  BY <1>2 DEF Wait
<1> QED
  BY <1>1, <1>2

(* The inductive invariant holds in every reachable state: the scheduler    *)
(* lock of _sbrk excludes every other task.                                 *)
THEOREM HeapIndInv == Spec => []IndInv
<1>1. ASSUME IndInv, [Next]_vars PROVE IndInv'
  <2>1. CASE UNCHANGED vars
    BY <1>1, <2>1 DEF vars, IndInv, TypeOK, BlocksInHeap, BlocksDisjoint, End
  <2>2. CASE Next
    BY <1>1, <2>2, QuietSteps, GrowKeepsIndInv, ResumeKeepsIndInv, OtherSteps
       DEF Next, Sbrk
  <2> QED
    BY <1>1, <2>1, <2>2
<1> QED
  BY InitIndInv, <1>1, PTL DEF Spec

(* The suspension count is never negative: no xTaskResumeAll of _sbrk is    *)
(* without its vTaskSuspendAll.                                             *)
THEOREM HeapTypes == Spec => []TypeOK
<1>1. IndInv => TypeOK
  BY DEF IndInv
<1> QED
  BY HeapIndInv, <1>1, PTL

(* The memory _sbrk hands out never overlaps, for any tasks and any calls. *)
THEOREM HeapDisjoint == Spec => []BlocksDisjoint
<1>1. IndInv => BlocksDisjoint
  BY DEF IndInv
<1> QED
  BY HeapIndInv, <1>1, PTL

(* The memory _sbrk hands out is inside the array heap. *)
THEOREM HeapBounded == Spec => []BlocksInHeap
<1>1. IndInv => BlocksInHeap
  BY DEF IndInv
<1> QED
  BY HeapIndInv, <1>1, PTL
(* A request malloc makes does not fit any more. *)
Exhausted == \E n \in Incrs : heap_end + n > HeapSize

InSbrk(t) == pc[t] \in {"read", "check", "resume"}

(* heap_suspend shows that NeverBlocksSuspended fails once memory has run   *)
(* out.  Until then the calls of _sbrk balance: the scheduler is suspended  *)
(* once while a task is between the two kernel calls, and not otherwise.    *)
BalanceInv ==
  /\ \A t \in Tasks : pc[t] # "app" => incr[t] \in Incrs
  /\ \/ Exhausted
     \/ /\ ~halted
        /\ \A t \in Tasks : InSbrk(t) => suspended = 1
        /\ (\A t \in Tasks : ~InSbrk(t)) => suspended = 0

(* heap_end only grows, so memory that has run out stays so. *)
LEMMA StaysExhausted ==
  ASSUME IndInv, Next, Exhausted
  PROVE  Exhausted'
<1>1. heap_end' >= heap_end
  BY DEF IndInv, TypeOK, Next, Switch, Call, Sbrk, SuspendAll, ReadEnd, NoMemory, Grow,
         ResumeAll, Wait, Step
<1>2. heap_end \in Nat /\ heap_end' \in Nat
  BY DEF IndInv, TypeOK, Next, Switch, Call, Sbrk, SuspendAll, ReadEnd, NoMemory, Grow,
         ResumeAll, Wait, Step
<1>3. PICK n \in Incrs : heap_end + n > HeapSize
  BY DEF Exhausted
<1>4. n \in Nat /\ HeapSize \in Nat
  OBVIOUS
<1>5. \A a, b, c, d \in Nat : b >= a /\ a + c > d => b + c > d
  OBVIOUS
<1>6. heap_end' + n > HeapSize
  BY <1>1, <1>2, <1>3, <1>4, <1>5
<1> QED
  BY <1>6 DEF Exhausted

(* Every step of a task keeps the calls balanced. *)
LEMMA StepsBalance ==
  ASSUME IndInv, BalanceInv, Next
  PROVE  BalanceInv'
<1>1. PICK t \in Tasks : Switch(t) \/ (\E n \in Incrs : Call(t, n)) \/ Sbrk(t) \/ Wait(t)
  BY DEF Next
<1>2. \A u \in Tasks : InSbrk(u) => current = u
  BY DEF IndInv, InSbrk
<1>3. pc \in [Tasks -> {"app", "suspend", "read", "check", "resume"}] /\ incr \in [Tasks -> Nat]
  BY DEF IndInv, TypeOK
<1>4. Exhausted => Exhausted'
  BY StaysExhausted
<1> USE DEF BalanceInv, InSbrk, Step
<1>5. CASE Switch(t)
  BY <1>4, <1>5 DEF Switch
<1>6. CASE \E n \in Incrs : Call(t, n)
  BY <1>3, <1>4, <1>6 DEF Call
<1>7. CASE SuspendAll(t)
  BY <1>2, <1>3, <1>4, <1>7 DEF SuspendAll
<1>8. CASE ReadEnd(t)
  BY <1>3, <1>4, <1>8 DEF ReadEnd
<1>9. CASE NoMemory(t)
  <2>1. Exhausted
    BY <1>9 DEF NoMemory, Exhausted
  <2> QED
    BY <1>3, <1>4, <1>9, <2>1 DEF NoMemory
<1>10. CASE Grow(t)
  BY <1>3, <1>4, <1>10 DEF Grow
<1>11. CASE ResumeAll(t)
  BY <1>2, <1>3, <1>4, <1>11 DEF ResumeAll
<1>12. CASE Wait(t)
  <2>1. pc[t] = "app" /\ current = t
    BY <1>12 DEF Wait
  <2>2. \A u \in Tasks : ~InSbrk(u)
    BY <2>1, <1>2
  <2> QED
    BY <1>4, <1>12, <2>2 DEF Wait
<1> QED
  BY <1>1, <1>5, <1>6, <1>7, <1>8, <1>9, <1>10, <1>11, <1>12 DEF Sbrk

(* As long as every request still fits, no semaphore is waited for with the *)
(* scheduler suspended: the assertion of xQueueSemaphoreTake fails only     *)
(* through the error path of _sbrk.                                         *)
THEOREM HaltsOnlyWhenExhausted == Spec => [](NeverBlocksSuspended \/ Exhausted)
<1>1. Init => BalanceInv
  BY DEF Init, BalanceInv, InSbrk
<1>2. ASSUME IndInv, BalanceInv, [Next]_vars PROVE BalanceInv'
  <2>1. CASE UNCHANGED vars
    BY <1>2, <2>1 DEF vars, BalanceInv, InSbrk, Exhausted
  <2> QED
    BY <1>2, <2>1, StepsBalance
<1>3. BalanceInv => NeverBlocksSuspended \/ Exhausted
  BY DEF BalanceInv, NeverBlocksSuspended
<1> QED
  BY <1>1, <1>2, <1>3, HeapIndInv, PTL DEF Spec
==============================================================================

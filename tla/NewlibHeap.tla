----------------------------- MODULE NewlibHeap -----------------------------
(***************************************************************************)
(* _sbrk of Src/newlib_syscalls.c, which gives newlib's malloc its memory  *)
(* from the array heap in CCMRAM, called by several tasks.  It protects    *)
(* heap_end by suspending the FreeRTOS scheduler.                          *)
(***************************************************************************)
EXTENDS Integers

CONSTANTS
  Tasks,      \* the tasks that allocate
  HeapSize,   \* HEAP_SIZE (64 KB), the size of CCMRAM
  Incrs,      \* the increments malloc asks for; newlib never shrinks this heap
  MaxDepth    \* bound on the nesting of vTaskSuspendAll

ASSUME HeapAssumption ==
  /\ HeapSize \in Nat
  /\ Incrs \subseteq Nat
  /\ MaxDepth \in Nat

VARIABLES
  pc,         \* pc[t]: the next statement of t inside _sbrk
  incr,       \* incr[t]: the argument of t's last call
  prev,       \* prev[t]: t's local prev_heap_end
  heap_end,   \* offset of heap_end in heap
  suspended,  \* FreeRTOS's uxSchedulerSuspended
  current,    \* the running task
  halted,     \* a configASSERT failed
  blocks      \* the memory handed out so far

vars == <<pc, incr, prev, heap_end, suspended, current, halted, blocks>>

Init ==
  /\ pc = [t \in Tasks |-> "app"]
  /\ incr = [t \in Tasks |-> 0]
  /\ prev = [t \in Tasks |-> 0]
  /\ heap_end = 0
  /\ suspended = 0
  /\ current \in Tasks
  /\ halted = FALSE
  /\ blocks = {}

Step(t, from, to) ==
  /\ ~halted
  /\ current = t
  /\ pc[t] = from
  /\ pc' = [pc EXCEPT ![t] = to]
  /\ UNCHANGED <<current, halted>>

(* Mutant: the kernel switches tasks although the scheduler is suspended. *)
SwitchAlways(t) ==
  /\ ~halted
  /\ current' = t
  /\ UNCHANGED <<pc, incr, prev, heap_end, suspended, halted, blocks>>

(* The kernel switches tasks only while the scheduler is not suspended. *)
Switch(t) ==
  /\ ~halted
  /\ suspended = 0
  /\ current' = t
  /\ UNCHANGED <<pc, incr, prev, heap_end, suspended, halted, blocks>>

Call(t, n) ==
  /\ suspended < MaxDepth
  /\ Step(t, "app", "suspend")
  /\ incr' = [incr EXCEPT ![t] = n]
  /\ UNCHANGED <<prev, heap_end, suspended, blocks>>

(* Mutant: the scheduler is not suspended. *)
SuspendAllForgotten(t) ==
  /\ Step(t, "suspend", "read")
  /\ UNCHANGED <<incr, prev, heap_end, suspended, blocks>>

(* vTaskSuspendAll *)
SuspendAll(t) ==
  /\ Step(t, "suspend", "read")
  /\ suspended' = suspended + 1
  /\ UNCHANGED <<incr, prev, heap_end, blocks>>

ReadEnd(t) ==
  /\ Step(t, "read", "check")
  /\ prev' = [prev EXCEPT ![t] = heap_end]
  /\ UNCHANGED <<incr, heap_end, suspended, blocks>>

(* The error path returns without xTaskResumeAll. *)
NoMemory(t) ==
  /\ heap_end + incr[t] > HeapSize
  /\ Step(t, "check", "app")
  /\ UNCHANGED <<incr, prev, heap_end, suspended, blocks>>

(* Mutant: only the old end is compared with the limit. *)
GrowUnchecked(t) ==
  /\ heap_end <= HeapSize
  /\ Step(t, "check", "resume")
  /\ heap_end' = heap_end + incr[t]
  /\ UNCHANGED <<incr, prev, suspended, blocks>>

Grow(t) ==
  /\ heap_end + incr[t] <= HeapSize
  /\ Step(t, "check", "resume")
  /\ heap_end' = heap_end + incr[t]
  /\ UNCHANGED <<incr, prev, suspended, blocks>>

(* xTaskResumeAll, and the return of prev_heap_end *)
ResumeAll(t) ==
  /\ Step(t, "resume", "app")
  /\ suspended' = suspended - 1
  /\ blocks' = blocks \cup {[task |-> t, start |-> prev[t], size |-> incr[t]]}
  /\ UNCHANGED <<incr, prev, heap_end>>

(* Any write to the terminal takes a semaphore with a timeout, which        *)
(* asserts that the scheduler is not suspended and may let another task run. *)
Wait(t) ==
  /\ ~halted
  /\ current = t
  /\ pc[t] = "app"
  /\ IF suspended = 0
       THEN current' \in Tasks /\ UNCHANGED halted
       ELSE halted' = TRUE /\ UNCHANGED current
  /\ UNCHANGED <<pc, incr, prev, heap_end, suspended, blocks>>

Sbrk(t) ==
  \/ SuspendAll(t) \/ ReadEnd(t) \/ NoMemory(t) \/ Grow(t) \/ ResumeAll(t)

Next ==
  \E t \in Tasks : Switch(t) \/ (\E n \in Incrs : Call(t, n)) \/ Sbrk(t) \/ Wait(t)

Spec == Init /\ [][Next]_vars

-----------------------------------------------------------------------------
(* The calls of _sbrk keep their types; the suspension count is never negative. *)
TypeOK ==
  /\ pc \in [Tasks -> {"app", "suspend", "read", "check", "resume"}]
  /\ incr \in [Tasks -> Nat]
  /\ prev \in [Tasks -> Nat]
  /\ heap_end \in Nat
  /\ suspended \in Nat
  /\ current \in Tasks
  /\ halted \in BOOLEAN
  /\ blocks \subseteq [task : Tasks, start : Nat, size : Nat]

End(b) == b.start + b.size

(* No two pieces of memory that _sbrk handed out overlap, whatever tasks    *)
(* were in it together.                                                     *)
BlocksDisjoint ==
  \A b, c \in blocks : b # c => End(b) <= c.start \/ End(c) <= b.start

(* Everything handed out lies below heap_end, which never passes the end of *)
(* the array, also after calls that failed with ENOMEM.                     *)
BlocksInHeap ==
  /\ heap_end <= HeapSize
  /\ \A b \in blocks : End(b) <= heap_end

(* xQueueSemaphoreTake asserts that it is not asked to block while the      *)
(* scheduler is suspended.                                                  *)
NeverBlocksSuspended == ~halted

(* A task between the two kernel calls is the running one and the scheduler *)
(* is suspended; its view of heap_end is exact, and when it returns its     *)
(* block starts where the blocks before it end.                             *)
IndInv ==
  /\ TypeOK
  /\ BlocksInHeap
  /\ BlocksDisjoint
  /\ \A t \in Tasks :
       /\ pc[t] \in {"read", "check", "resume"} => current = t /\ suspended > 0
       /\ pc[t] = "check" => prev[t] = heap_end
       /\ pc[t] = "resume" =>
            /\ prev[t] + incr[t] = heap_end
            /\ \A b \in blocks : End(b) <= prev[t]

==============================================================================

------------------------------- MODULE Kernel -------------------------------
(***************************************************************************)
(* The parts of the FreeRTOS kernel (V10.5.1, src/FreeRTOS) every driver   *)
(* of the firmware rests on: blocking on a semaphore, a mutex or a queue   *)
(* without a timeout (portMAX_DELAY is the only one the firmware passes),  *)
(* giving one from an interrupt handler, mutexes with priority             *)
(* inheritance, vTaskDelay over a tick count that wraps, suspending the    *)
(* scheduler, and the context switch.                                      *)
(*                                                                         *)
(* A critical section is one step.  Between two steps of the running task  *)
(* any interrupt may come, and after a step that pends PendSV the task     *)
(* takes no further step until the switch is made.                         *)
(***************************************************************************)
EXTENDS Integers, Sequences, FiniteSets, FiniteSetsExt

CONSTANTS
  Tasks,        \* the application tasks
  Idle,         \* the idle task, always ready
  Priority,     \* uxBasePriority of each task
  Program,      \* the calls each task makes, over and over: a sequence of
                \* records [op, arg]
  Queues,       \* semaphores, mutexes and queues: all are Queue_t
  Mutexes,      \* the ones of type queueQUEUE_IS_MUTEX
  Length,       \* uxLength of each
  TickMod,      \* TickType_t wraps at this value (2^32 in the code)
  MaxPended     \* bound: ticks that come while the scheduler is suspended

All == Tasks \union {Idle}

\* portMAX_DELAY, "no task is delayed" in xNextTaskUnblockTime.
MaxDelay == TickMod - 1

NoTask == "none"

Calls ==
  [op : {"take"}, arg : Queues] \union [op : {"give"}, arg : Mutexes]
    \union [op : {"delay"}, arg : 1 .. MaxDelay] \union [op : {"sbrk"}, arg : {0}]

ASSUME KernelAssumption ==
  /\ Idle \notin Tasks /\ NoTask \notin All /\ IsFiniteSet(Tasks)
  /\ Priority \in [All -> Nat]
  /\ \A t \in Tasks : Priority[t] > Priority[Idle]
  /\ \A t, u \in Tasks : t # u => Priority[t] # Priority[u]
  /\ Program \in [Tasks -> Seq(Calls)] /\ \A t \in Tasks : Program[t] # <<>>
  /\ Mutexes \subseteq Queues
  /\ Length \in [Queues -> Nat \ {0}] /\ \A m \in Mutexes : Length[m] = 1
  /\ TickMod \in Nat \ {0, 1} /\ MaxPended \in Nat

\* The mutexes t holds on its way to the i-th call of its program.
Held(t, i) ==
  {m \in Mutexes :
     \E j \in 1 .. i - 1 :
       /\ Program[t][j] = [op |-> "take", arg |-> m]
       /\ \A k \in j + 1 .. i - 1 : Program[t][k] # [op |-> "give", arg |-> m]}

\* How the drivers use mutexes: a task holds at most one, gives only the one
\* it holds, and has given it back at the end; and all waits for a semaphore
\* are made under the same mutex (tty.sem_tx under tty.lock_tx, tty.sem_rx
\* under tty.lock_rx) or all under none (the queues).
ASSUME ProgramAssumption ==
  /\ \A t \in Tasks :
       /\ Held(t, Len(Program[t]) + 1) = {}
       /\ \A i \in 1 .. Len(Program[t]) :
            LET c == Program[t][i] IN
              /\ c.op = "take" /\ c.arg \in Mutexes => Held(t, i) = {}
              /\ c.op = "give" => Held(t, i) = {c.arg}
  /\ \A t, u \in Tasks : \A i \in 1 .. Len(Program[t]), j \in 1 .. Len(Program[u]) :
       Program[t][i].op = "take" /\ Program[u][j] = Program[t][i] => Held(t, i) = Held(u, j)

VARIABLES
  pc,                   \* the call of its program each task is in
  step,                 \* where in that call it is
  pxCurrentTCB,         \* the running task
  state,                \* the list a task's xStateListItem is in
  wake,                 \* the item's value when that is a delayed list
  uxPriority,           \* priorities, inherited ones included
  waiting,              \* xTasksWaitingToReceive of each queue
  pendingReady,         \* xPendingReadyList
  uxMessagesWaiting,    \* items in each queue; 1 for a free mutex
  xMutexHolder,
  cTxLock,              \* -1: unlocked, else items posted while locked
  uxSchedulerSuspended,
  xYieldPending,
  pendsv,               \* a context switch is pended
  xTickCount, xNextTaskUnblockTime, xPendedTicks,
  left                  \* history: ticks a delayed task has still to sleep

taskVars == <<pc, step>>
listVars == <<state, wake, left, waiting, pendingReady>>
queueVars == <<uxMessagesWaiting, xMutexHolder, cTxLock>>
timeVars == <<xTickCount, xNextTaskUnblockTime, xPendedTicks>>
vars == <<taskVars, listVars, queueVars, timeVars, pxCurrentTCB, uxPriority,
          uxSchedulerSuspended, xYieldPending, pendsv>>

Steps == {"call", "suspend", "suspended", "locked", "inherit", "insert", "block", "unlock",
          "resume", "yield", "unlock_retry", "resume_retry", "delay", "sbrk"}

Lists == {"ready", "suspended", "delayed", "overflow"}

-----------------------------------------------------------------------------
(* Helpers *)

Call(t) == Program[t][pc[t]]

Next1(t) == [pc EXCEPT ![t] = (@ % Len(Program[t])) + 1]

Goto(t, s) == step' = [step EXCEPT ![t] = s]

ReadyTasks == {t \in All : state[t] = "ready"}

\* vListInsert into an event list, kept in descending order of priority:
\* the new item goes after those of the same priority.
ListInsert(list, t) ==
  LET place == CHOOSE i \in 1 .. Len(list) + 1 :
                 /\ \A j \in 1 .. i - 1 : uxPriority[list[j]] >= uxPriority[t]
                 /\ i <= Len(list) => uxPriority[list[i]] < uxPriority[t]
  IN SubSeq(list, 1, place - 1) \o <<t>> \o SubSeq(list, place, Len(list))

\* prvResetNextTaskUnblockTime: the head of the delayed list, which is in
\* order of wake time.
ResetNextTaskUnblockTime(st) ==
  LET times == {wake[t] : t \in {u \in Tasks : st[u] = "delayed"}}
  IN IF times = {} THEN MaxDelay ELSE Min(times)

\* taskSWITCH_DELAYED_LISTS swaps the two lists.
SwitchDelayedLists(st) ==
  [t \in All |-> CASE st[t] = "delayed" -> "overflow"
                   [] st[t] = "overflow" -> "delayed"
                   [] OTHER -> st[t]]

\* xTaskIncrementTick with the scheduler running, as a function of the lists
\* and times it changes; "switch" is what it returns.
IncrementTick(k, yielding) ==
  LET tick == (k.tick + 1) % TickMod
      st   == IF tick = 0 THEN SwitchDelayedLists(k.state) ELSE k.state
      next == IF tick = 0 THEN ResetNextTaskUnblockTime(st) ELSE k.next
      due  == {t \in Tasks : tick >= next /\ st[t] = "delayed" /\ wake[t] <= tick}
      st2  == [t \in All |-> IF t \in due THEN "ready" ELSE st[t]]
      mine == uxPriority[pxCurrentTCB]
  IN [state |-> st2,
      left  |-> [t \in Tasks |-> IF k.left[t] > 0 THEN k.left[t] - 1 ELSE 0],
      tick  |-> tick,
      next  |-> IF tick >= next THEN ResetNextTaskUnblockTime(st2) ELSE next,
      switch |-> \/ \E t \in due : uxPriority[t] > mine
                 \/ Cardinality({t \in All : st2[t] = "ready" /\ uxPriority[t] = mine}) > 1
                 \/ yielding]

\* The ticks that came while the scheduler was suspended, replayed.
ReplayTicks(k, yielding) ==
  LET after[n \in 0 .. MaxPended] ==
        IF n = 0 THEN [k EXCEPT !.switch = yielding]
        ELSE IncrementTick(after[n - 1], after[n - 1].switch)
  IN after[xPendedTicks]

\* The wake time of a task no delayed list holds any more is dropped.
SetTimes(k) ==
  /\ state' = k.state /\ left' = k.left
  /\ wake' = [t \in Tasks |-> IF k.state[t] \in {"delayed", "overflow"} THEN wake[t] ELSE 0]
  /\ xTickCount' = k.tick /\ xNextTaskUnblockTime' = k.next

Times(st) == [state |-> st, left |-> left, tick |-> xTickCount,
              next |-> xNextTaskUnblockTime, switch |-> FALSE]

\* xTaskRemoveFromEventList, with its test of an empty list in the callers:
\* the head waiter of q becomes ready, or is held on xPendingReadyList while
\* the scheduler is suspended.  prio is the priorities in force.
Woken(q) == IF waiting[q] = <<>> THEN <<>> ELSE <<Head(waiting[q])>>

Outranks(q, prio) == \E t \in Range(Woken(q)) : prio[t] > prio[pxCurrentTCB]

RemoveFromEventList(q) ==
  /\ waiting' = [waiting EXCEPT ![q] = IF @ = <<>> THEN @ ELSE Tail(@)]
  /\ IF uxSchedulerSuspended = 0
       THEN /\ state' = [t \in All |-> IF t \in Range(Woken(q)) THEN "ready" ELSE state[t]]
            /\ UNCHANGED pendingReady
       ELSE /\ pendingReady' = pendingReady \o Woken(q)
            /\ UNCHANGED state

-----------------------------------------------------------------------------
(* A task's calls *)

\* xQueueSemaphoreTake and xQueueReceive, first critical section: take an
\* item if there is one, else go and block.
Take(t) ==
  /\ step[t] = "call" /\ Call(t).op = "take"
  /\ LET q == Call(t).arg IN
       IF uxMessagesWaiting[q] > 0
         THEN /\ uxMessagesWaiting' = [uxMessagesWaiting EXCEPT ![q] = @ - 1]
              /\ xMutexHolder' = IF q \in Mutexes THEN [xMutexHolder EXCEPT ![q] = t]
                                 ELSE xMutexHolder
              /\ pc' = Next1(t)
              /\ UNCHANGED step
         ELSE /\ Goto(t, "suspend")
              /\ UNCHANGED <<pc, uxMessagesWaiting, xMutexHolder>>
  /\ UNCHANGED <<listVars, cTxLock, timeVars, pxCurrentTCB, uxPriority,
                 uxSchedulerSuspended, xYieldPending, pendsv>>

\* vTaskSuspendAll, on the way to block, to sleep or into _sbrk_r, which
\* suspends the scheduler while it moves the heap's end.
SuspendAll(t) ==
  /\ \/ step[t] = "suspend" /\ Goto(t, "suspended")
     \/ step[t] = "call" /\ Call(t).op \in {"delay", "sbrk"} /\ Goto(t, Call(t).op)
  /\ uxSchedulerSuspended' = 1
  /\ UNCHANGED <<pc, listVars, queueVars, timeVars, pxCurrentTCB, uxPriority,
                 xYieldPending, pendsv>>

\* prvLockQueue.
LockQueue(t) ==
  /\ step[t] = "suspended"
  /\ LET q == Call(t).arg IN
       cTxLock' = [cTxLock EXCEPT ![q] = IF @ = -1 THEN 0 ELSE @]
  /\ Goto(t, "locked")
  /\ UNCHANGED <<pc, listVars, uxMessagesWaiting, xMutexHolder, timeVars, pxCurrentTCB,
                 uxPriority, uxSchedulerSuspended, xYieldPending, pendsv>>

\* prvIsQueueEmpty: an item may have come since the first look.
IsQueueEmpty(t) ==
  /\ step[t] = "locked"
  /\ LET q == Call(t).arg IN
       Goto(t, IF uxMessagesWaiting[q] > 0 THEN "unlock_retry"
               ELSE IF q \in Mutexes THEN "inherit" ELSE "insert")
  /\ UNCHANGED <<pc, listVars, queueVars, timeVars, pxCurrentTCB, uxPriority,
                 uxSchedulerSuspended, xYieldPending, pendsv>>

\* Mutant: a mutex without priority inheritance.
PriorityInheritNever(t) ==
  /\ step[t] = "inherit"
  /\ UNCHANGED uxPriority
  /\ Goto(t, "insert")
  /\ UNCHANGED <<pc, listVars, queueVars, timeVars, pxCurrentTCB,
                 uxSchedulerSuspended, xYieldPending, pendsv>>

\* xTaskPriorityInherit: the holder runs at the priority of the waiter.
PriorityInherit(t) ==
  /\ step[t] = "inherit"
  /\ LET h == xMutexHolder[Call(t).arg] IN
       uxPriority' = IF h # NoTask /\ uxPriority[h] < uxPriority[t]
                     THEN [uxPriority EXCEPT ![h] = uxPriority[t]] ELSE uxPriority
  /\ Goto(t, "insert")
  /\ UNCHANGED <<pc, listVars, queueVars, timeVars, pxCurrentTCB,
                 uxSchedulerSuspended, xYieldPending, pendsv>>

\* vTaskPlaceOnEventList, the event list item.
PlaceOnEventList(t) ==
  /\ step[t] = "insert"
  /\ LET q == Call(t).arg IN waiting' = [waiting EXCEPT ![q] = ListInsert(@, t)]
  /\ Goto(t, "block")
  /\ UNCHANGED <<pc, state, wake, left, pendingReady, queueVars, timeVars, pxCurrentTCB,
                 uxPriority, uxSchedulerSuspended, xYieldPending, pendsv>>

\* prvAddCurrentTaskToDelayedList with portMAX_DELAY: the suspended list.
BlockForEver(t) ==
  /\ step[t] = "block"
  /\ state' = [state EXCEPT ![t] = "suspended"]
  /\ Goto(t, "unlock")
  /\ UNCHANGED <<pc, wake, left, waiting, pendingReady, queueVars, timeVars,
                 pxCurrentTCB, uxPriority, uxSchedulerSuspended, xYieldPending, pendsv>>

\* Mutant: items posted while the queue was locked wake nobody.
UnlockQueueForgets(t) ==
  /\ step[t] \in {"unlock", "unlock_retry"}
  /\ LET q == Call(t).arg
         n == 0
         woken == SubSeq(waiting[q], 1, n)
     IN /\ waiting' = [waiting EXCEPT ![q] = SubSeq(@, n + 1, Len(@))]
        /\ pendingReady' = pendingReady \o woken
        /\ xYieldPending' = \/ xYieldPending
                            \/ \E i \in 1 .. n : uxPriority[woken[i]] > uxPriority[t]
        /\ cTxLock' = [cTxLock EXCEPT ![q] = -1]
  /\ Goto(t, IF step[t] = "unlock" THEN "resume" ELSE "resume_retry")
  /\ UNCHANGED <<pc, state, wake, left, uxMessagesWaiting, xMutexHolder, timeVars,
                 pxCurrentTCB, uxPriority, uxSchedulerSuspended, pendsv>>

\* prvUnlockQueue: one waiter is woken for every item posted while the queue
\* was locked.
UnlockQueue(t) ==
  /\ step[t] \in {"unlock", "unlock_retry"}
  /\ LET q == Call(t).arg
         n == IF cTxLock[q] <= Len(waiting[q]) THEN cTxLock[q] ELSE Len(waiting[q])
         woken == SubSeq(waiting[q], 1, n)
     IN /\ waiting' = [waiting EXCEPT ![q] = SubSeq(@, n + 1, Len(@))]
        /\ pendingReady' = pendingReady \o woken
        /\ xYieldPending' = \/ xYieldPending
                            \/ \E i \in 1 .. n : uxPriority[woken[i]] > uxPriority[t]
        /\ cTxLock' = [cTxLock EXCEPT ![q] = -1]
  /\ Goto(t, IF step[t] = "unlock" THEN "resume" ELSE "resume_retry")
  /\ UNCHANGED <<pc, state, wake, left, uxMessagesWaiting, xMutexHolder, timeVars,
                 pxCurrentTCB, uxPriority, uxSchedulerSuspended, pendsv>>

\* Mutant: tasks readied meanwhile do not pre-empt.
ResumeAllNoYield ==
  LET moved == Range(pendingReady)
      st    == [t \in All |-> IF t \in moved THEN "ready" ELSE state[t]]
      yield == FALSE
      k0    == [Times(st) EXCEPT !.next = IF moved = {} THEN @
                                          ELSE ResetNextTaskUnblockTime(st)]
  IN /\ uxSchedulerSuspended' = 0
     /\ pendingReady' = <<>>
     /\ xPendedTicks' = 0
     /\ \E k \in {ReplayTicks(k0, yield)} :
          /\ SetTimes(k)
          /\ xYieldPending' = k.switch
          /\ pendsv' = (pendsv \/ k.switch)
     /\ UNCHANGED <<waiting, queueVars, pxCurrentTCB, uxPriority>>

\* xTaskResumeAll: tasks readied meanwhile enter the ready lists, ticks that
\* came meanwhile are replayed, and a switch is pended if either asks for it.
ResumeAll ==
  LET moved == Range(pendingReady)
      st    == [t \in All |-> IF t \in moved THEN "ready" ELSE state[t]]
      yield == \/ xYieldPending
               \/ \E t \in moved : uxPriority[t] >= uxPriority[pxCurrentTCB]
      k0    == [Times(st) EXCEPT !.next = IF moved = {} THEN @
                                          ELSE ResetNextTaskUnblockTime(st)]
  IN /\ uxSchedulerSuspended' = 0
     /\ pendingReady' = <<>>
     /\ xPendedTicks' = 0
     /\ \E k \in {ReplayTicks(k0, yield)} :
          /\ SetTimes(k)
          /\ xYieldPending' = k.switch
          /\ pendsv' = (pendsv \/ k.switch)
     /\ UNCHANGED <<waiting, queueVars, pxCurrentTCB, uxPriority>>

\* A task that put itself to sleep yields unless xTaskResumeAll already did;
\* a sleeping task goes on with its program when it wakes, a waiting one goes
\* back for the item.
Resume(t) ==
  /\ step[t] = "resume"
  /\ ResumeAll
  /\ Goto(t, IF xYieldPending' THEN "call" ELSE "yield")
  /\ pc' = IF xYieldPending' /\ Call(t).op = "delay" THEN Next1(t) ELSE pc

Yield(t) ==
  /\ step[t] = "yield"
  /\ pendsv' = TRUE
  /\ Goto(t, "call")
  /\ pc' = IF Call(t).op = "delay" THEN Next1(t) ELSE pc
  /\ UNCHANGED <<listVars, queueVars, timeVars, pxCurrentTCB, uxPriority,
                 uxSchedulerSuspended, xYieldPending>>

ResumeRetry(t) ==
  /\ step[t] = "resume_retry"
  /\ ResumeAll
  /\ Goto(t, "call")
  /\ UNCHANGED pc

\* Mutant: the inherited priority outlives the mutex.
PriorityDisinheritNever(t, m) == uxPriority

\* xTaskPriorityDisinherit: the priorities once t has given mutex m back.
PriorityDisinherit(t, m) ==
  IF \E n \in Mutexes \ {m} : xMutexHolder[n] = t THEN uxPriority
  ELSE [uxPriority EXCEPT ![t] = Priority[t]]

\* xQueueGenericSend of a mutex by its holder: the priority is given back, the
\* head waiter is woken, and the task yields if it lost its right to run.
Give(t) ==
  /\ step[t] = "call" /\ Call(t).op = "give"
  /\ LET m    == Call(t).arg
         prio == PriorityDisinherit(t, m)
     IN /\ xMutexHolder[m] = t
        /\ uxMessagesWaiting' = [uxMessagesWaiting EXCEPT ![m] = @ + 1]
        /\ xMutexHolder' = [xMutexHolder EXCEPT ![m] = NoTask]
        /\ uxPriority' = prio
        /\ RemoveFromEventList(m)
        /\ xYieldPending' = (xYieldPending \/ Outranks(m, prio))
        /\ pendsv' = (pendsv \/ Outranks(m, prio)
                        \/ (Woken(m) = <<>> /\ prio # uxPriority))
  /\ pc' = Next1(t)
  /\ UNCHANGED <<step, wake, left, cTxLock, timeVars, pxCurrentTCB, uxSchedulerSuspended>>

\* Mutant: a wake time that wraps is not told apart.
AddToDelayedListOnly(t) ==
  /\ step[t] = "delay"
  /\ LET time == (xTickCount + Call(t).arg) % TickMod
     IN /\ wake' = [wake EXCEPT ![t] = time]
        /\ left' = [left EXCEPT ![t] = Call(t).arg]
        /\ state' = [state EXCEPT ![t] = "delayed"]
        /\ xNextTaskUnblockTime' = IF time < xNextTaskUnblockTime THEN time
                                   ELSE xNextTaskUnblockTime
  /\ Goto(t, "resume")
  /\ UNCHANGED <<pc, waiting, pendingReady, queueVars, xTickCount, xPendedTicks,
                 pxCurrentTCB, uxPriority, uxSchedulerSuspended, xYieldPending, pendsv>>

\* prvAddCurrentTaskToDelayedList with a number of ticks: a wake time that
\* wraps goes to the overflow list.
AddCurrentTaskToDelayedList(t) ==
  /\ step[t] = "delay"
  /\ LET time == (xTickCount + Call(t).arg) % TickMod
     IN /\ wake' = [wake EXCEPT ![t] = time]
        /\ left' = [left EXCEPT ![t] = Call(t).arg]
        /\ IF time < xTickCount
             THEN /\ state' = [state EXCEPT ![t] = "overflow"]
                  /\ UNCHANGED xNextTaskUnblockTime
             ELSE /\ state' = [state EXCEPT ![t] = "delayed"]
                  /\ xNextTaskUnblockTime' = IF time < xNextTaskUnblockTime THEN time
                                             ELSE xNextTaskUnblockTime
  /\ Goto(t, "resume")
  /\ UNCHANGED <<pc, waiting, pendingReady, queueVars, xTickCount, xPendedTicks,
                 pxCurrentTCB, uxPriority, uxSchedulerSuspended, xYieldPending, pendsv>>

\* The end of _sbrk_r, which a task may call any number of times in a row.
SbrkDone(t) ==
  /\ step[t] = "sbrk"
  /\ ResumeAll
  /\ Goto(t, "call")
  /\ pc' \in {pc, Next1(t)}

TaskStep(t) ==
  \/ Take(t) \/ SuspendAll(t) \/ LockQueue(t) \/ IsQueueEmpty(t) \/ PriorityInherit(t)
  \/ PlaceOnEventList(t) \/ BlockForEver(t) \/ UnlockQueue(t)
  \/ Resume(t) \/ Yield(t) \/ ResumeRetry(t)
  \/ Give(t) \/ AddCurrentTaskToDelayedList(t) \/ SbrkDone(t)

\* The running task executes; not while PendSV is about to switch it out.
Run ==
  /\ ~pendsv /\ pxCurrentTCB \in Tasks
  /\ TaskStep(pxCurrentTCB)

-----------------------------------------------------------------------------
(* Interrupts *)

\* Mutant: an item is added to a full queue.
GiveFromISRUnchecked(q) ==
  /\ q \in Queues \ Mutexes
  /\ \/ /\ cTxLock[q] = -1
        /\ uxMessagesWaiting' = [uxMessagesWaiting EXCEPT ![q] = @ + 1]
        /\ RemoveFromEventList(q)
        /\ xYieldPending' = (xYieldPending \/ Outranks(q, uxPriority))
        /\ pendsv' \in {pendsv \/ Outranks(q, uxPriority), TRUE}
        /\ UNCHANGED cTxLock
     \/ /\ cTxLock[q] # -1
        /\ uxMessagesWaiting' = [uxMessagesWaiting EXCEPT ![q] = @ + 1]
        /\ cTxLock' = [cTxLock EXCEPT ![q] = IF @ < Cardinality(All) THEN @ + 1 ELSE @]
        /\ pendsv' \in {pendsv, TRUE}
        /\ UNCHANGED <<waiting, state, pendingReady, xYieldPending>>
  /\ UNCHANGED <<taskVars, wake, left, xMutexHolder, timeVars, pxCurrentTCB, uxPriority,
                 uxSchedulerSuspended>>

\* xQueueGiveFromISR and xQueueSendFromISR, and the portYIELD_FROM_ISR that
\* follows: the handler's xHigherPriorityTaskWoken is never initialised, so
\* it may yield with no task woken.
GiveFromISR(q) ==
  /\ q \in Queues \ Mutexes
  /\ \/ /\ uxMessagesWaiting[q] < Length[q] /\ cTxLock[q] = -1
        /\ uxMessagesWaiting' = [uxMessagesWaiting EXCEPT ![q] = @ + 1]
        /\ RemoveFromEventList(q)
        /\ xYieldPending' = (xYieldPending \/ Outranks(q, uxPriority))
        /\ pendsv' \in {pendsv \/ Outranks(q, uxPriority), TRUE}
        /\ UNCHANGED cTxLock
     \/ /\ uxMessagesWaiting[q] < Length[q] /\ cTxLock[q] # -1
        /\ uxMessagesWaiting' = [uxMessagesWaiting EXCEPT ![q] = @ + 1]
        /\ cTxLock' = [cTxLock EXCEPT ![q] = IF @ < Cardinality(All) THEN @ + 1 ELSE @]
        /\ pendsv' \in {pendsv, TRUE}
        /\ UNCHANGED <<waiting, state, pendingReady, xYieldPending>>
     \/ /\ uxMessagesWaiting[q] = Length[q]
        /\ pendsv' \in {pendsv, TRUE}
        /\ UNCHANGED <<uxMessagesWaiting, cTxLock, waiting, state, pendingReady,
                       xYieldPending>>
  /\ UNCHANGED <<taskVars, wake, left, xMutexHolder, timeVars, pxCurrentTCB, uxPriority,
                 uxSchedulerSuspended>>

\* SysTick: xTaskIncrementTick, pended while the scheduler is suspended.
Tick ==
  /\ IF uxSchedulerSuspended # 0
       THEN /\ xPendedTicks < MaxPended
            /\ xPendedTicks' = xPendedTicks + 1
            /\ UNCHANGED <<state, wake, left, xTickCount, xNextTaskUnblockTime, pendsv>>
       ELSE \E k \in {IncrementTick(Times(state), xYieldPending)} :
              /\ SetTimes(k)
              /\ pendsv' = (pendsv \/ k.switch)
              /\ UNCHANGED xPendedTicks
  /\ UNCHANGED <<taskVars, waiting, pendingReady, queueVars, pxCurrentTCB,
                 uxPriority, uxSchedulerSuspended, xYieldPending>>

\* PendSV: vTaskSwitchContext picks a ready task of the highest priority,
\* unless the scheduler is suspended.
SwitchContext ==
  /\ pendsv /\ pendsv' = FALSE
  /\ IF uxSchedulerSuspended # 0
       THEN xYieldPending' = TRUE /\ UNCHANGED pxCurrentTCB
       ELSE /\ xYieldPending' = FALSE
            /\ pxCurrentTCB' \in {t \in ReadyTasks :
                                   \A u \in ReadyTasks : uxPriority[u] <= uxPriority[t]}
  /\ UNCHANGED <<taskVars, listVars, queueVars, timeVars, uxPriority, uxSchedulerSuspended>>

-----------------------------------------------------------------------------
\* vTaskStartScheduler: every task has been created and is ready, semaphores
\* are empty and mutexes free, and the first task is the most urgent.
Init ==
  /\ pc = [t \in Tasks |-> 1] /\ step = [t \in Tasks |-> "call"]
  /\ pxCurrentTCB \in {t \in All : \A u \in All : Priority[u] <= Priority[t]}
  /\ state = [t \in All |-> "ready"] /\ wake = [t \in Tasks |-> 0]
  /\ left = [t \in Tasks |-> 0]
  /\ uxPriority = Priority
  /\ waiting = [q \in Queues |-> <<>>] /\ pendingReady = <<>>
  /\ uxMessagesWaiting = [q \in Queues |-> IF q \in Mutexes THEN 1 ELSE 0]
  /\ xMutexHolder = [m \in Mutexes |-> NoTask]
  /\ cTxLock = [q \in Queues |-> -1]
  /\ uxSchedulerSuspended = 0 /\ xYieldPending = FALSE /\ pendsv = FALSE
  /\ xTickCount = 0 /\ xNextTaskUnblockTime = MaxDelay /\ xPendedTicks = 0

Next == Run \/ Tick \/ SwitchContext \/ \E q \in Queues : GiveFromISR(q)

SafeSpec == Init /\ [][Next]_vars

\* The processor returns from interrupt handlers to the running task, and
\* the timer and the devices go on interrupting.  The first and third
\* conjuncts are SF_vars(Run) and WF_vars(Tick) with ENABLED written out.
CanRun == ~pendsv /\ pxCurrentTCB \in Tasks

CanTick == uxSchedulerSuspended = 0 \/ xPendedTicks < MaxPended

Fairness ==
  /\ []<>CanRun => []<><<Run>>_vars
  /\ WF_vars(SwitchContext)
  /\ <>[]CanTick => []<><<Tick>>_vars
  /\ \A q \in Queues \ Mutexes : WF_vars(GiveFromISR(q))

Spec == SafeSpec /\ Fairness

-----------------------------------------------------------------------------
\* The kernel's variables keep their types: no queue holds more than its
\* length, and the lock count stays within what unlocking expects.
TypeOK ==
  /\ pc \in [Tasks -> Nat \ {0}] /\ step \in [Tasks -> Steps]
  /\ pxCurrentTCB \in All /\ state \in [All -> Lists]
  /\ wake \in [Tasks -> 0 .. MaxDelay] /\ left \in [Tasks -> 0 .. MaxDelay]
  /\ uxPriority \in [All -> Nat]
  /\ waiting \in [Queues -> Seq(Tasks)] /\ pendingReady \in Seq(Tasks)
  /\ \A q \in Queues : uxMessagesWaiting[q] \in 0 .. Length[q]
  /\ xMutexHolder \in [Mutexes -> Tasks \union {NoTask}]
  /\ cTxLock \in [Queues -> -1 .. Cardinality(All)]
  /\ uxSchedulerSuspended \in 0 .. 1
  /\ xYieldPending \in BOOLEAN /\ pendsv \in BOOLEAN
  /\ xTickCount \in 0 .. MaxDelay /\ xNextTaskUnblockTime \in 0 .. MaxDelay
  /\ xPendedTicks \in 0 .. MaxPended

\* A ready task of higher priority than the running one does not wait: at
\* every moment the running task is one of the most urgent ready tasks, or a
\* switch is pended, or the scheduler is suspended, or the running task has
\* just put itself to sleep and is about to yield.
HighestRuns ==
  \/ pendsv \/ uxSchedulerSuspended # 0
  \/ pxCurrentTCB \in Tasks /\ step[pxCurrentTCB] = "yield"
  \/ /\ pxCurrentTCB \in ReadyTasks
     /\ \A t \in ReadyTasks : uxPriority[t] <= uxPriority[pxCurrentTCB]

\* No wake-up is lost: when a task waits for an item that is there, either
\* the queue is locked and its unlocking will wake the task, or a task at
\* least as urgent as every waiter has been woken and is on its way to take
\* the item.
NoLostWakeup ==
  \A q \in Queues :
    waiting[q] # <<>> /\ uxMessagesWaiting[q] > 0 =>
      \/ cTxLock[q] > 0
      \/ \E t \in Tasks \ Range(waiting[q]) :
           /\ Call(t) = [op |-> "take", arg |-> q]
           /\ state[t] = "ready" \/ t \in Range(pendingReady)
           /\ \A u \in Range(waiting[q]) : uxPriority[u] <= uxPriority[t]

\* A task waiting for a mutex never waits behind less urgent work: the
\* holder runs at the waiter's priority or above.
InheritsPriority ==
  \A m \in Mutexes, t \in Tasks :
    t \in Range(waiting[m]) /\ xMutexHolder[m] # NoTask =>
      uxPriority[t] <= uxPriority[xMutexHolder[m]]

\* An inherited priority is not kept: only a task that holds a mutex runs at
\* another priority than its own, however mutexes are nested.
OnlyHoldersRaised ==
  \A t \in Tasks : uxPriority[t] # Priority[t] => \E m \in Mutexes : xMutexHolder[m] = t

\* vTaskDelay(n) sleeps through exactly n ticks, across the wrap of the tick
\* count, ticks pended while the scheduler was suspended and the sleep of
\* other tasks; and the delayed list is empty when the lists are swapped, as
\* taskSWITCH_DELAYED_LISTS asserts.
DelaysExact ==
  /\ \A t \in Tasks : state[t] \in {"delayed", "overflow"} <=> left[t] > 0
  /\ xTickCount = MaxDelay => \A t \in Tasks : state[t] # "delayed"

\* The most urgent task completes its loop again and again: it is woken from
\* every delay and gets every mutex, even one held by the least urgent task
\* while a third task never sleeps.
UrgentRuns ==
  LET urgent == CHOOSE t \in Tasks : \A u \in Tasks : Priority[u] <= Priority[t]
  IN []<>(pc[urgent] = 1) /\ []<>(pc[urgent] # 1)
=============================================================================

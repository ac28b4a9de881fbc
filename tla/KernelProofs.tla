---------------------------- MODULE KernelProofs ----------------------------
(***************************************************************************)
(* The kernel schedules the most urgent task, loses no wake-up, lends and  *)
(* takes back priorities, and delays exactly, for any tasks, priorities,   *)
(* programs, queues and mutexes, and any width of the tick count.          *)
(*                                                                         *)
(* KernelInv says where tasks are.  Here the invariant is completed with   *)
(* what mutexes are held, which priorities are lent, and which tasks are   *)
(* on their way to take the items there are.                               *)
(***************************************************************************)
EXTENDS KernelInv

-----------------------------------------------------------------------------
(* Mutexes held *)

(* A task on an event list, or about to be put on it. *)
Waits(w, q) == w \in Range(waiting[q]) \/ (step[w] = "insert" /\ Takes(w, q))

(* A task that has found the queue empty. *)
Wants(w, q) == Waits(w, q) \/ (step[w] = "inherit" /\ Takes(w, q))

(* Tasks on their way to take an item of q, and those not less urgent than w. *)
Awake(q) == {t \in Tasks : /\ Takes(t, q) /\ t \notin Range(waiting[q])
                           /\ step[t] \notin {"inherit", "insert"}
                           /\ state[t] = "ready" \/ t \in Range(pendingReady)}

(* Those of them that are not less urgent than w. *)
Ahead(q, w) == {t \in Awake(q) : uxPriority[t] >= uxPriority[w]}

(* A task holds the mutexes its program says it does. *)
HeldInv == \A t \in Tasks, m \in Mutexes : xMutexHolder[m] = t <=> m \in Held(t, pc[t])

(* A list in descending order of priority. *)
Sorted(s) == \A i, j \in 1 .. Len(s) : i < j => uxPriority[s[i]] >= uxPriority[s[j]]

(* Event lists stay in order, although priorities change: a task whose   *)
(* priority is raised holds a mutex, and is alone in waiting for what it *)
(* waits for.                                                            *)
OrderInv == \A q \in Queues : Sorted(waiting[q])

(* A raised priority is that of a task waiting for a mutex held. *)
RaisedInv ==
  \A t \in Tasks :
    /\ uxPriority[t] >= Priority[t]
    /\ uxPriority[t] # Priority[t] =>
         \E m \in Mutexes, u \in Tasks :
           xMutexHolder[m] = t /\ Waits(u, m) /\ uxPriority[u] = uxPriority[t]

(* InheritsPriority, for tasks about to be put on the list as well. *)
InheritInv ==
  \A m \in Mutexes, w \in Tasks :
    Waits(w, m) /\ xMutexHolder[m] # NoTask => uxPriority[w] <= uxPriority[xMutexHolder[m]]

(* Items posted while the queue is locked. *)
Posted(q) == IF cTxLock[q] > 0 THEN cTxLock[q] ELSE 0

(* For every item there is a task as urgent as w on its way to take it, or *)
(* a wake-up that prvUnlockQueue still has to make.  A lock count at its   *)
(* limit, which the code does not raise further, wakes everybody.          *)
Served(q, w) ==
  \/ cTxLock[q] >= Cardinality(All)
  \/ uxMessagesWaiting[q] <= Cardinality(Ahead(q, w)) + Posted(q)

(* Counting items against woken tasks is what makes NoLostWakeup inductive: *)
(* a woken task may find its item gone.                                     *)
WakeInv == \A q \in Queues, w \in Tasks : Wants(w, q) => Served(q, w)

(* HighestRuns, and what becomes of it while the scheduler is suspended: a *)
(* wake-up that should pre-empt is remembered in xYieldPending.            *)
HighestInv ==
  \/ pendsv \/ (uxSchedulerSuspended = 1 /\ xYieldPending)
  \/ pxCurrentTCB \in Tasks /\ step[pxCurrentTCB] = "yield"
  \/ \A t \in ReadyTasks : uxPriority[t] <= uxPriority[pxCurrentTCB]

(* What a task holds one call further on. *)
LEMMA HeldNext ==
  ASSUME NEW t \in Tasks, NEW i \in 1 .. Len(Program[t]), NEW m \in Mutexes
  PROVE  m \in Held(t, i + 1) <=>
           \/ Program[t][i] = [op |-> "take", arg |-> m]
           \/ m \in Held(t, i) /\ Program[t][i] # [op |-> "give", arg |-> m]
<1> DEFINE T(j) == Program[t][j] = [op |-> "take", arg |-> m]
           G(k) == Program[t][k] = [op |-> "give", arg |-> m]
<1>1. i \in Nat /\ i >= 1
  BY KernelAssumption
<1>2. \A k \in Nat : m \in Held(t, k) <=> \E j \in 1 .. k - 1 : T(j) /\ \A n \in j + 1 .. k - 1 : ~G(n)
  BY Zenon DEF Held
<1>3. /\ m \in Held(t, i) <=> \E j \in 1 .. i - 1 : T(j) /\ \A n \in j + 1 .. i - 1 : ~G(n)
      /\ m \in Held(t, i + 1) <=> \E j \in 1 .. i : T(j) /\ \A n \in j + 1 .. i : ~G(n)
  <2>1. i + 1 \in Nat /\ (i + 1) - 1 = i
    BY <1>1
  <2> HIDE DEF T, G
  <2> QED
    BY <1>1, <1>2, <2>1
<1>4. T(i) => ~G(i)
  BY KernelAssumption
<1> SUFFICES m \in Held(t, i + 1) <=> T(i) \/ (m \in Held(t, i) /\ ~G(i))
  OBVIOUS
<1> HIDE DEF T, G
<1>5. ASSUME m \in Held(t, i + 1) PROVE T(i) \/ (m \in Held(t, i) /\ ~G(i))
  <2>1. PICK j \in 1 .. i : T(j) /\ \A n \in j + 1 .. i : ~G(n)
    BY <1>3, <1>5
  <2>2. CASE j = i
    BY <2>1, <2>2
  <2>3. CASE j # i
    <3>1. j \in 1 .. i - 1 /\ i \in j + 1 .. i /\ \A n \in j + 1 .. i - 1 : n \in j + 1 .. i
      BY <1>1, <2>3
    <3> QED
      BY <1>3, <2>1, <3>1
  <2> QED
    BY <2>2, <2>3
<1>6. ASSUME T(i) PROVE m \in Held(t, i + 1)
  <2>1. i \in 1 .. i /\ \A n \in i + 1 .. i : FALSE
    BY <1>1
  <2> QED
    BY <1>3, <1>6, <2>1
<1>7. ASSUME m \in Held(t, i), ~G(i) PROVE m \in Held(t, i + 1)
  <2>1. PICK j \in 1 .. i - 1 : T(j) /\ \A n \in j + 1 .. i - 1 : ~G(n)
    BY <1>3, <1>7
  <2>2. j \in 1 .. i /\ \A n \in j + 1 .. i : n \in j + 1 .. i - 1 \/ n = i
    BY <1>1
  <2> QED
    BY <1>3, <1>7, <2>1, <2>2
<1> QED
  BY <1>5, <1>6, <1>7

(* At the end of its program a task holds nothing, as at its start. *)
LEMMA HeldMoves ==
  ASSUME PlaceInv, NEW t \in Tasks, NEW m \in Mutexes
  PROVE  m \in Held(t, Next1(t)[t]) <=>
           \/ Call(t).op = "take" /\ Call(t).arg = m
           \/ m \in Held(t, pc[t]) /\ ~(Call(t).op = "give" /\ Call(t).arg = m)
<1> DEFINE i == pc[t]
           n == Len(Program[t])
<1>1. n \in Nat \ {0} /\ i \in 1 .. n /\ i \in Nat
  BY KernelAssumption DEF PlaceInv
<1>2. Next1(t)[t] = (i % n) + 1
  BY DEF Next1, PlaceInv
<1>3. Held(t, 1) = {} /\ Held(t, n + 1) = {}
  <2>1. Held(t, n + 1) = {}
    BY ProgramAssumption, Zenon
  <2>2. 1 .. 1 - 1 = {}
    OBVIOUS
  <2>3. Held(t, 1) = {}
    BY <2>2, Zenon DEF Held
  <2> QED
    BY <2>1, <2>3
<1>4. Held(t, Next1(t)[t]) = Held(t, i + 1)
  <2>1. CASE i = n
    <3>1. i % n = 0
      <4> HIDE DEF i, n
      <4> QED
        BY <1>1, <2>1
    <3>2. Next1(t)[t] = 1
      BY <1>1, <1>2, <3>1
    <3> QED
      BY <1>3, <2>1, <3>2, Zenon
  <2>2. CASE i # n
    <3>1. i \in 1 .. n - 1
      BY <1>1, <2>2
    <3>2. i % n = i
      BY <1>1, <3>1
    <3>3. Next1(t)[t] = i + 1
      BY <1>2, <3>2
    <3> QED
      BY <3>3
  <2> QED
    BY <2>1, <2>2
<1>5. Call(t) \in Calls /\ Call(t) = Program[t][i]
  BY KernelAssumption DEF PlaceInv, Call
<1>6. /\ Call(t) = [op |-> "take", arg |-> m] <=> Call(t).op = "take" /\ Call(t).arg = m
      /\ Call(t) = [op |-> "give", arg |-> m] <=> Call(t).op = "give" /\ Call(t).arg = m
  BY <1>5 DEF Calls
<1>7. m \in Held(t, i + 1) <=>
           \/ Program[t][i] = [op |-> "take", arg |-> m]
           \/ m \in Held(t, i) /\ Program[t][i] # [op |-> "give", arg |-> m]
  BY <1>1, HeldNext
<1> QED
  BY <1>4, <1>5, <1>6, <1>7, Zenon

(* Taking and giving keep them so. *)
LEMMA HeldKept ==
  ASSUME PlaceInv, HolderInv, HeldInv, NEW t \in Tasks, pc' \in {pc, Next1(t)},
         \/ pc' = pc /\ xMutexHolder' = xMutexHolder
         \/ pc' = Next1(t) /\ xMutexHolder' = xMutexHolder /\ Call(t).op \in {"delay", "sbrk"}
         \/ /\ pc' = Next1(t) /\ Call(t).op = "take" /\ uxMessagesWaiting[Call(t).arg] > 0
            /\ xMutexHolder' = IF Call(t).arg \in Mutexes THEN [xMutexHolder EXCEPT ![Call(t).arg] = t]
                               ELSE xMutexHolder
         \/ /\ pc' = Next1(t) /\ Call(t).op = "give" /\ xMutexHolder[Call(t).arg] = t
            /\ xMutexHolder' = [xMutexHolder EXCEPT ![Call(t).arg] = NoTask]
  PROVE  HeldInv'
<1> SUFFICES ASSUME NEW u \in Tasks, NEW m \in Mutexes
             PROVE  xMutexHolder'[m] = u <=> m \in Held(u, pc'[u])
  BY Zenon DEF HeldInv, Held
<1>1. xMutexHolder[m] = u <=> m \in Held(u, pc[u])
  BY DEF HeldInv
<1>2. CASE pc' = pc /\ xMutexHolder' = xMutexHolder
  BY <1>1, <1>2
<1>3. CASE pc' = Next1(t)
  <2>1. u # t => pc'[u] = pc[u]
    BY <1>3, NextCall
  <2>2. m \in Held(t, pc'[t]) <=>
           \/ Call(t).op = "take" /\ Call(t).arg = m
           \/ m \in Held(t, pc[t]) /\ ~(Call(t).op = "give" /\ Call(t).arg = m)
    BY <1>3, HeldMoves
  <2>3. xMutexHolder[m] = t <=> m \in Held(t, pc[t])
    BY DEF HeldInv
  <2>4. CASE xMutexHolder' = xMutexHolder /\ Call(t).op \in {"delay", "sbrk"}
    BY <1>1, <2>1, <2>2, <2>3, <2>4
  <2>5. CASE /\ Call(t).op = "take" /\ uxMessagesWaiting[Call(t).arg] > 0
             /\ xMutexHolder' = IF Call(t).arg \in Mutexes
                                THEN [xMutexHolder EXCEPT ![Call(t).arg] = t] ELSE xMutexHolder
    <3>1. Call(t).arg \in Mutexes => xMutexHolder[Call(t).arg] = NoTask
      BY <2>5 DEF HolderInv
    <3>2. xMutexHolder'[m] = IF m = Call(t).arg THEN t ELSE xMutexHolder[m]
      BY <2>5 DEF HolderInv
    <3> QED
      BY <1>1, <2>1, <2>2, <2>3, <2>5, <3>1, <3>2, ConstantFacts
  <2>6. CASE /\ Call(t).op = "give" /\ xMutexHolder[Call(t).arg] = t
             /\ xMutexHolder' = [xMutexHolder EXCEPT ![Call(t).arg] = NoTask]
    <3>1. xMutexHolder'[m] = IF m = Call(t).arg THEN NoTask ELSE xMutexHolder[m]
      BY <2>6 DEF HolderInv
    <3> QED
      BY <1>1, <2>1, <2>2, <2>3, <2>6, <3>1, ConstantFacts
  <2> QED
    BY <1>2, <1>3, <2>4, <2>5, <2>6
<1> QED
  BY <1>2, <1>3

(* How mutexes are used, in terms of the kernel's state. *)
LEMMA MutexUse ==
  ASSUME PlaceInv, HeldInv, NEW t \in Tasks, NEW m \in Mutexes, xMutexHolder[m] = t
  PROVE  /\ Call(t).op = "take" => Call(t).arg \notin Mutexes
         /\ Call(t).op = "give" => \A n \in Mutexes : xMutexHolder[n] = t => n = Call(t).arg
         /\ \A u \in Tasks, q \in Queues : Takes(t, q) /\ Takes(u, q) => u = t
<1>1. \A u \in Tasks : /\ pc[u] \in 1 .. Len(Program[u]) /\ Call(u) = Program[u][pc[u]]
                       /\ \A n \in Mutexes : xMutexHolder[n] = u <=> n \in Held(u, pc[u])
  BY Zenon DEF PlaceInv, Call, HeldInv
<1>a. \A i \in 1 .. Len(Program[t]) :
        /\ Program[t][i].op = "take" /\ Program[t][i].arg \in Mutexes => Held(t, i) = {}
        /\ Program[t][i].op = "give" => Held(t, i) = {Program[t][i].arg}
  BY ProgramAssumption, Zenon
<1>b. \A u \in Tasks : \A i \in 1 .. Len(Program[t]), j \in 1 .. Len(Program[u]) :
        Program[t][i].op = "take" /\ Program[u][j] = Program[t][i] => Held(t, i) = Held(u, j)
  BY ProgramAssumption, Zenon
<1>2. /\ Call(t).op = "take" /\ Call(t).arg \in Mutexes => Held(t, pc[t]) = {}
      /\ Call(t).op = "give" => Held(t, pc[t]) = {Call(t).arg}
  BY <1>1, <1>a, Zenon
<1>3. ASSUME NEW u \in Tasks, NEW q \in Queues, Takes(t, q), Takes(u, q) PROVE u = t
  <2>1. Call(t) = [op |-> "take", arg |-> q] /\ Call(u) = [op |-> "take", arg |-> q]
    BY <1>3, CallArgument DEF Takes
  <2>2. Program[t][pc[t]].op = "take" /\ Program[u][pc[u]] = Program[t][pc[t]]
    BY <1>1, <1>3, <2>1 DEF Takes
  <2>3. Held(t, pc[t]) = Held(u, pc[u])
    BY <1>1, <1>b, <2>2
  <2> QED
    BY <1>1, <2>3
<1> QED
  BY <1>1, <1>2, <1>3

-----------------------------------------------------------------------------
(* Priorities and wake-ups *)

(* The invariant about priorities and wake-ups. *)
Urgency == OrderInv /\ RaisedInv /\ InheritInv /\ WakeInv

(* A subset has no more elements. *)
LEMMA Subsets ==
  ASSUME NumberFacts, NEW S \in SUBSET Tasks, NEW R \in SUBSET S
  PROVE  Cardinality(R) \in Nat /\ Cardinality(S) \in Nat /\ Cardinality(R) <= Cardinality(S)
<1>1. R \in SUBSET Tasks
  OBVIOUS
<1> QED
  BY <1>1, Zenon DEF NumberFacts

(* The tasks ahead are among the tasks. *)
LEMMA AheadTasks ==
  ASSUME NEW q, NEW w
  PROVE  Ahead(q, w) \in SUBSET Tasks
  BY Zenon DEF Ahead, Awake

(* The same in the next state. *)
LEMMA AheadTasksNext ==
  ASSUME NEW q, NEW w
  PROVE  Ahead(q, w)' \in SUBSET Tasks
  BY Zenon DEF Ahead, Awake

(* An empty queue has no wake-up to lose. *)
LEMMA EmptyNext ==
  ASSUME NumberFacts, NEW q \in Queues, NEW w \in Tasks, uxMessagesWaiting'[q] = 0,
         cTxLock'[q] \in Int
  PROVE  Served(q, w)'
<1> DEFINE n == Cardinality(Ahead(q, w)')
<1>1. n \in Nat
  BY AheadTasksNext, Subsets
<1>2. Posted(q)' \in Nat
  BY DEF Posted
<1> HIDE DEF n
<1>3. uxMessagesWaiting'[q] <= n + Posted(q)'
  BY <1>1, <1>2
<1> QED
  BY <1>3, Zenon DEF n, Served

(* Tasks on their way stay on their way. *)
LEMMA ServedSame ==
  ASSUME NumberFacts, Base, NEW q \in Queues, NEW w \in Tasks, Served(q, w),
         uxMessagesWaiting'[q] = uxMessagesWaiting[q],
         cTxLock'[q] = cTxLock[q] \/ (cTxLock[q] = -1 /\ cTxLock'[q] = 0),
         Ahead(q, w) \subseteq Ahead(q, w)'
  PROVE  Served(q, w)'
<1>0. cTxLock[q] \in Int /\ cTxLock'[q] \in Int /\ uxMessagesWaiting[q] \in Int
  BY DEF Base, ListInv, HolderInv
<1> DEFINE a == Cardinality(Ahead(q, w))
           b == Cardinality(Ahead(q, w)')
           c == Cardinality(All)
<1>1. a \in Nat /\ b \in Nat /\ a <= b /\ c \in Nat
  BY AheadTasksNext, Subsets, AllFinite
<1>2. cTxLock[q] >= c \/ uxMessagesWaiting[q] <= a + Posted(q)
  BY Zenon DEF Served
<1> HIDE DEF a, b, c
<1>3. Posted(q)' = Posted(q) /\ Posted(q) \in Nat /\ (cTxLock[q] >= c => cTxLock'[q] >= c)
  BY <1>0, <1>1 DEF Posted
<1>4. cTxLock'[q] >= c \/ uxMessagesWaiting'[q] <= b + Posted(q)'
  BY <1>0, <1>1, <1>2, <1>3
<1> QED
  BY <1>4, Zenon DEF b, c, Served

(* Steps that leave priorities, holders and items alone, and nobody joins *)
(* or leaves a queue for a mutex.                                         *)
LEMMA CalmKeeps ==
  ASSUME NumberFacts, Base, Urgency, OrderInv',
         UNCHANGED <<uxPriority, xMutexHolder, uxMessagesWaiting>>,
         \A q \in Queues : cTxLock'[q] = cTxLock[q] \/ (cTxLock[q] = -1 /\ cTxLock'[q] = 0),
         \A u \in Tasks, m \in Mutexes : Waits(u, m)' <=> Waits(u, m),
         \A u \in Tasks, q \in Queues : uxMessagesWaiting[q] # 0 =>
           /\ Wants(u, q)' => Wants(u, q)
           /\ u \in Awake(q) => u \in Awake(q)'
  PROVE  Urgency'
<1>2. RaisedInv'
  BY Zenon DEF Urgency, RaisedInv
<1>3. InheritInv'
  BY Zenon DEF Urgency, InheritInv
<1>4. ASSUME NEW q \in Queues, NEW w \in Tasks, Wants(w, q)' PROVE Served(q, w)'
  <2>0. cTxLock'[q] \in Int
    BY DEF Base, ListInv
  <2>1. CASE uxMessagesWaiting[q] = 0
    BY <2>0, <2>1, EmptyNext
  <2>2. CASE uxMessagesWaiting[q] # 0
    <3>1. Wants(w, q) /\ \A u \in Tasks : u \in Awake(q) => u \in Awake(q)'
      BY <1>4, <2>2
    <3>2. Ahead(q, w) \subseteq Ahead(q, w)'
      <4>1. \A u \in Awake(q) : u \in Tasks
        BY Zenon DEF Awake
      <4>2. \A u \in Awake(q) : u \in Awake(q)'
        BY <3>1, <4>1
      <4> QED
        BY <4>2, Zenon DEF Ahead
    <3>3. Served(q, w)
      BY <3>1 DEF Urgency, WakeInv
    <3> QED
      BY <3>2, <3>3, ServedSame
  <2> QED
    BY <2>1, <2>2
<1>5. WakeInv'
  BY <1>4, Zenon DEF WakeInv
<1> QED
  BY <1>2, <1>3, <1>5 DEF Urgency

(* A task's step of this kind. *)
LEMMA CalmMove ==
  ASSUME NumberFacts, Base, Urgency, NEW t \in Tasks, NEW s, Moves(t, s),
         UNCHANGED <<uxPriority, waiting, xMutexHolder, uxMessagesWaiting>>,
         \A q \in Queues : cTxLock'[q] = cTxLock[q] \/ (cTxLock[q] = -1 /\ cTxLock'[q] = 0),
         step[t] \notin {"inherit", "insert"},
         \A u \in Tasks : state[u] = "ready" \/ u \in Range(pendingReady) =>
           \/ state'[u] = "ready" \/ u \in Range(pendingReady')
           \/ u = t /\ (Call(t).op # "take" \/ step[t] = "block"),
         \/ s \notin {"inherit", "insert"} /\ (pc' = pc \/ Call(t).op # "take")
         \/ /\ pc' = pc /\ Call(t).op = "take" /\ uxMessagesWaiting[Call(t).arg] = 0
            /\ s = "insert" => Call(t).arg \notin Mutexes
            /\ s \in {"inherit", "insert"}
  PROVE  Urgency'
<1>1. /\ step'[t] = s /\ (pc' = pc => Call(t)' = Call(t))
      /\ \A u \in Tasks \ {t} : step'[u] = step[u] /\ Call(u)' = Call(u)
  BY MoveFacts DEF Base
<1>2. /\ Call(t).op # "take" => \A q \in Queues : t \notin Range(waiting[q])
      /\ step[t] = "block" => Call(t).op = "take" /\ t \in Range(waiting[Call(t).arg])
  <2>1. LinkOK(t) /\ StepFits(Call(t), step[t])
    BY DEF Base, LinkInv, PlaceInv
  <2> QED
    BY <2>1 DEF LinkOK, Takes, StepFits, TakeSteps, LockSteps
<1>3. \A q \in Queues : waiting'[q] = waiting[q]
  OBVIOUS
<1>o. OrderInv'
  BY Zenon DEF Urgency, OrderInv, Sorted
<1>4. ASSUME NEW u \in Tasks, NEW m \in Mutexes PROVE Waits(u, m)' <=> Waits(u, m)
  <2>1. CASE u # t
    BY <1>1, <2>1 DEF Waits, Takes
  <2>2. CASE u = t
    BY <1>1, <2>2 DEF Waits, Takes
  <2> QED
    BY <2>1, <2>2
<1>5. ASSUME NEW u \in Tasks, NEW q \in Queues, uxMessagesWaiting[q] # 0
      PROVE  (Wants(u, q)' => Wants(u, q)) /\ (u \in Awake(q) => u \in Awake(q)')
  <2>1. CASE u # t
    BY <1>1, <2>1 DEF Wants, Waits, Takes, Awake
  <2>2. CASE u = t
    <3>1. Wants(t, q)' => Wants(t, q)
      BY <1>1, <1>5 DEF Wants, Waits, Takes
    <3>2. t \in Awake(q) => t \in Awake(q)'
      BY <1>1, <1>2, <1>5 DEF Takes, Awake
    <3> QED
      BY <2>2, <3>1, <3>2
  <2> QED
    BY <2>1, <2>2
<1> QED
  BY <1>4, <1>5, <1>o, CalmKeeps

(* A step of no task. *)
LEMMA CalmInterrupt ==
  ASSUME NumberFacts, Base, Urgency,
         UNCHANGED <<pc, step, uxPriority, waiting, xMutexHolder, uxMessagesWaiting, cTxLock, pendingReady>>,
         \A u \in Tasks : state[u] = "ready" => state'[u] = "ready"
  PROVE  Urgency'
<1>1. \A u \in Tasks, q \in Queues : Takes(u, q)' <=> Takes(u, q)
  BY DEF Takes, Call
<1>2. \A u \in Tasks, m \in Mutexes : Waits(u, m)' <=> Waits(u, m)
  BY <1>1, ConstantFacts DEF Waits
<1>3. \A u \in Tasks, q \in Queues : Wants(u, q)' <=> Wants(u, q)
  BY <1>1 DEF Wants, Waits
<1>4. \A u \in Tasks, q \in Queues : u \in Awake(q) => u \in Awake(q)'
  BY <1>1 DEF Awake
<1>o. OrderInv'
  BY Zenon DEF Urgency, OrderInv, Sorted
<1> QED
  BY <1>2, <1>3, <1>4, <1>o, CalmKeeps

(* The order of an event list. *)
LEMMA InsertSorted ==
  ASSUME NumberFacts, NEW s \in Seq(Tasks), NEW t \in Tasks, uxPriority \in [All -> Nat], Sorted(s)
  PROVE  Sorted(ListInsert(s, t))
<1>1. PICK p \in 1 .. Len(s) + 1 :
        /\ ListInsert(s, t) = InsertedAt(s, t, p)
        /\ \A j \in 1 .. p - 1 : uxPriority[s[j]] >= uxPriority[t]
        /\ p <= Len(s) => uxPriority[s[p]] < uxPriority[t]
  BY InsertPlace
<1> DEFINE r == InsertedAt(s, t, p)
<1>2. Len(r) = Len(s) + 1
  BY InsertList
<1>3. \A i \in 1 .. Len(s) + 1 : r[i] = IF i < p THEN s[i] ELSE IF i = p THEN t ELSE s[i - 1]
  BY InsertList
<1> HIDE DEF r
<1> DEFINE f(i) == uxPriority[s[i]]
           x == uxPriority[t]
<1>4. Len(s) \in Nat /\ x \in Nat /\ \A i \in 1 .. Len(s) : f(i) \in Nat
  BY TickFacts
<1>5. \A i, j \in 1 .. Len(s) : i < j => f(i) >= f(j)
  BY Zenon DEF Sorted
<1>6. (\A j \in 1 .. p - 1 : f(j) >= x) /\ (p <= Len(s) => f(p) < x)
  BY <1>1
<1>7. \A i \in 1 .. Len(s) + 1 :
        uxPriority[r[i]] = IF i < p THEN f(i) ELSE IF i = p THEN x ELSE f(i - 1)
  BY <1>3
<1> HIDE DEF f, x
<1>8. ASSUME NEW i \in 1 .. Len(s) + 1, NEW j \in 1 .. Len(s) + 1, i < j
      PROVE  uxPriority[r[i]] >= uxPriority[r[j]]
  <2>1. CASE j < p
    BY <1>4, <1>5, <1>7, <1>8, <2>1
  <2>2. CASE j = p
    BY <1>4, <1>6, <1>7, <1>8, <2>2
  <2>3. CASE j > p /\ i < p
    <3>1. uxPriority[r[j]] = f(j - 1) /\ uxPriority[r[i]] = f(i)
      BY <1>7, <1>8, <2>3
    <3>2. i \in 1 .. Len(s) /\ j - 1 \in 1 .. Len(s) /\ i < j - 1
      BY <1>4, <1>8, <2>3
    <3> QED
      BY <1>5, <3>1, <3>2
  <2>4. CASE j > p /\ i = p
    <3>1. uxPriority[r[j]] = f(j - 1) /\ uxPriority[r[i]] = x
      BY <1>7, <1>8, <2>4
    <3>2. p \in 1 .. Len(s) /\ j - 1 \in 1 .. Len(s) /\ p <= j - 1
      BY <1>4, <1>8, <2>4
    <3>3. f(p) >= f(j - 1)
      BY <1>4, <1>5, <3>2
    <3> QED
      BY <1>4, <1>6, <3>1, <3>2, <3>3
  <2>5. CASE j > p /\ i > p
    <3>1. uxPriority[r[j]] = f(j - 1) /\ uxPriority[r[i]] = f(i - 1)
      BY <1>7, <1>8, <2>5
    <3>2. i - 1 \in 1 .. Len(s) /\ j - 1 \in 1 .. Len(s) /\ i - 1 < j - 1
      BY <1>4, <1>8, <2>5
    <3> QED
      BY <1>5, <3>1, <3>2
  <2> QED
    BY <1>4, <2>1, <2>2, <2>3, <2>4, <2>5
<1> QED
  BY <1>1, <1>2, <1>8 DEF r, Sorted

(* The head of an event list is its most urgent task, and what remains    *)
(* after its first n tasks are woken is in order and no more urgent.      *)
LEMMA SortedSplit ==
  ASSUME NEW s \in Seq(Tasks), IsInjective(s), uxPriority \in [All -> Nat], Sorted(s), NEW n \in 0 .. Len(s)
  PROVE  LET a == SubSeq(s, 1, n)
             b == SubSeq(s, n + 1, Len(s))
         IN  /\ Sorted(b)
             /\ \A u \in Range(a), w \in Range(b) : uxPriority[u] >= uxPriority[w]
<1> DEFINE a == SubSeq(s, 1, n)
           b == SubSeq(s, n + 1, Len(s))
<1>1. a \in Seq(Tasks) /\ Len(a) = n /\ b \in Seq(Tasks) /\ Len(b) = Len(s) - n
  BY SplitList
<1>2. /\ \A i \in 1 .. n : a[i] = s[i]
      /\ \A i \in 1 .. Len(s) - n : b[i] = s[n + i]
  BY SplitList
<1> HIDE DEF a, b
<1>3. Len(s) \in Nat
  OBVIOUS
<1>4. \A i, j \in 1 .. Len(s) : i < j => uxPriority[s[i]] >= uxPriority[s[j]]
  BY Zenon DEF Sorted
<1>5. Sorted(b)
  <2> SUFFICES ASSUME NEW i \in 1 .. Len(s) - n, NEW j \in 1 .. Len(s) - n, i < j
               PROVE  uxPriority[b[i]] >= uxPriority[b[j]]
    BY <1>1, Zenon DEF Sorted
  <2>1. n + i \in 1 .. Len(s) /\ n + j \in 1 .. Len(s) /\ n + i < n + j
    BY <1>3
  <2> QED
    BY <1>2, <1>4, <2>1
<1>6. ASSUME NEW u \in Range(a), NEW w \in Range(b) PROVE uxPriority[u] >= uxPriority[w]
  <2>1. PICK i \in 1 .. n : a[i] = u
    BY <1>1, RangeOf
  <2>2. PICK j \in 1 .. Len(s) - n : b[j] = w
    BY <1>1, RangeOf
  <2>3. i \in 1 .. Len(s) /\ n + j \in 1 .. Len(s) /\ i < n + j
    BY <1>3
  <2> QED
    BY <1>2, <1>4, <2>1, <2>2, <2>3
<1> QED
  BY <1>5, <1>6 DEF a, b

(* A sorted list stays sorted without its head, which is the most urgent. *)
LEMMA SortedTail ==
  ASSUME NEW s \in Seq(Tasks), IsInjective(s), s # <<>>, uxPriority \in [All -> Nat], Sorted(s)
  PROVE  Sorted(Tail(s)) /\ \A w \in Range(s) : uxPriority[Head(s)] >= uxPriority[w]
<1> DEFINE b == Tail(s)
<1>1. /\ Head(s) = s[1] /\ Len(s) \in Nat /\ Len(s) >= 1 /\ b \in Seq(Tasks) /\ Len(b) = Len(s) - 1
      /\ \A i \in 1 .. Len(s) - 1 : b[i] = s[i + 1]
  BY TailList
<1>2. \A i, j \in 1 .. Len(s) : i < j => uxPriority[s[i]] >= uxPriority[s[j]]
  BY Zenon DEF Sorted
<1> HIDE DEF b
<1>3. Sorted(b)
  <2> SUFFICES ASSUME NEW i \in 1 .. Len(s) - 1, NEW j \in 1 .. Len(s) - 1, i < j
               PROVE  uxPriority[b[i]] >= uxPriority[b[j]]
    BY <1>1, Zenon DEF Sorted
  <2>1. i + 1 \in 1 .. Len(s) /\ j + 1 \in 1 .. Len(s) /\ i + 1 < j + 1
    BY <1>1
  <2> QED
    BY <1>1, <1>2, <2>1
<1>4. ASSUME NEW w \in Range(s) PROVE uxPriority[s[1]] >= uxPriority[w]
  <2>1. PICK j \in 1 .. Len(s) : s[j] = w
    BY RangeOf
  <2>2. uxPriority[s[1]] \in Nat
    BY <1>1, TickFacts
  <2>3. CASE j = 1
    BY <2>1, <2>2, <2>3
  <2>4. CASE j # 1
    <3>1. 1 \in 1 .. Len(s) /\ 1 < j
      BY <1>1, <2>4
    <3> QED
      BY <1>2, <2>1, <3>1
  <2> QED
    BY <2>3, <2>4
<1> QED
  BY <1>1, <1>3, <1>4 DEF b

(* vTaskPlaceOnEventList keeps the order. *)
LEMMA PlaceOnListKeepsUrgency ==
  ASSUME NumberFacts, Base, Urgency, NEW t \in Tasks, PlaceOnEventList(t), Moves(t, "block"), pc' = pc
  PROVE  Urgency'
<1> DEFINE q == Call(t).arg
<1>1. /\ step[t] = "insert" /\ waiting' = [waiting EXCEPT ![q] = ListInsert(@, t)]
      /\ UNCHANGED <<uxPriority, xMutexHolder, uxMessagesWaiting, cTxLock, state, pendingReady>>
  BY Zenon DEF PlaceOnEventList, queueVars
<1>2. q \in Queues /\ Takes(t, q) /\ \A p \in Queues : t \notin Range(waiting[p])
  <2>1. StepFits(Call(t), step[t]) /\ LinkOK(t)
    BY DEF Base, PlaceInv, LinkInv
  <2> QED
    BY <1>1, <2>1, CallArgument DEF Base, StepFits, TakeSteps, LockSteps, LinkOK, Takes
<1> HIDE DEF q
<1> DEFINE s == waiting[q]
<1>3. s \in Seq(Tasks) /\ IsInjective(s) /\ Sorted(s) /\ uxPriority \in [All -> Nat]
  BY <1>2 DEF Base, ListInv, HolderInv, Urgency, OrderInv
<1>4. Range(ListInsert(s, t)) = Range(s) \union {t}
  BY <1>2, <1>3, InsertInjective
<1>5. Sorted(ListInsert(s, t))
  BY <1>3, InsertSorted
<1>6. /\ waiting'[q] = ListInsert(s, t) /\ \A p \in Queues \ {q} : waiting'[p] = waiting[p]
  BY <1>1, <1>2 DEF Base, ListInv
<1>7. OrderInv'
  <2>1. \A p \in Queues : Sorted(waiting'[p])
    BY <1>5, <1>6, Zenon DEF Urgency, OrderInv
  <2> QED
    BY <1>1, <2>1, Zenon DEF OrderInv, Sorted
<1>8. \A u \in Tasks, p \in Queues :
        u \in Range(waiting'[p]) <=> u \in Range(waiting[p]) \/ (u = t /\ p = q)
  BY <1>4, <1>6
<1>9. /\ step'[t] = "block"
      /\ \A u \in Tasks : /\ u # t => step'[u] = step[u]
                          /\ Call(u)' = Call(u)
  BY MoveFacts DEF Base
<1>10. \A u \in Tasks, p \in Queues : Takes(u, p)' <=> Takes(u, p)
  BY <1>9 DEF Takes
<1>11. \A p \in Queues : Takes(t, p) <=> p = q
  BY <1>2 DEF Takes
<1>12. \A u \in Tasks, p \in Queues : Waits(u, p)' <=> Waits(u, p)
  BY <1>1, <1>2, <1>8, <1>9, <1>10, <1>11 DEF Waits
<1>13. \A u \in Tasks, p \in Queues : Wants(u, p)' <=> Wants(u, p)
  BY <1>1, <1>2, <1>9, <1>10, <1>12 DEF Wants
<1>14. \A u \in Tasks, p \in Queues : u \in Awake(p) => u \in Awake(p)'
  BY <1>1, <1>8, <1>9, <1>10 DEF Awake
<1> QED
  BY <1>1, <1>7, <1>12, <1>13, <1>14, ConstantFacts, CalmKeeps

(* A set without one element. *)
LEMMA OneLess ==
  ASSUME NumberFacts, NEW S \in SUBSET Tasks, NEW R \in SUBSET Tasks, NEW x \in Tasks, S \ {x} \subseteq R
  PROVE  Cardinality(S) \in Nat /\ Cardinality(R) \in Nat /\ Cardinality(S) <= Cardinality(R) + 1
<1> DEFINE D == S \ {x}
           E == D \union {x}
<1>1. D \in SUBSET Tasks /\ E \in SUBSET Tasks /\ D \in SUBSET R /\ S \in SUBSET E
      /\ {x} \in SUBSET Tasks /\ D \intersect {x} = {}
  OBVIOUS
<1>2. Cardinality(E) = Cardinality(D) + Cardinality({x}) /\ Cardinality({x}) = 1
  BY <1>1, Zenon DEF NumberFacts
<1>3. Cardinality(D) <= Cardinality(R) /\ Cardinality(R) \in Nat /\ Cardinality(D) \in Nat
  BY <1>1, Subsets, Zenon
<1>4. Cardinality(S) <= Cardinality(E) /\ Cardinality(S) \in Nat
  BY <1>1, Subsets, Zenon
<1> HIDE DEF D, E
<1> QED
  BY <1>2, <1>3, <1>4

(* The running task is the most urgent of the ready ones when it starts a *)
(* call.                                                                  *)
LEMMA MostUrgent ==
  ASSUME NumberFacts, Base, HighestInv, NEW t \in Tasks, t = pxCurrentTCB, ~pendsv, step[t] = "call"
  PROVE  /\ uxSchedulerSuspended = 0 /\ pendingReady = <<>> /\ Range(pendingReady) = {} /\ state[t] = "ready"
         /\ \A u \in Tasks : state[u] = "ready" => uxPriority[u] <= uxPriority[t]
         /\ \A p \in Queues : t \notin Range(waiting[p])
         /\ \A u \in Tasks : step[u] \notin {"inherit", "insert"}
<1>1. uxSchedulerSuspended = 0 /\ pendingReady = <<>> /\ state[t] = "ready"
  BY Running, StepSets
<1>2. \A u \in Tasks : state[u] = "ready" => uxPriority[u] <= uxPriority[t]
  BY <1>1, ConstantFacts DEF HighestInv, ReadyTasks
<1>3. \A p \in Queues : t \notin Range(waiting[p])
  BY <1>1 DEF Base, LinkInv, LinkOK
<1>4. \A u \in Tasks : step[u] \notin {"inherit", "insert"}
  BY <1>1, Others DEF Base
<1> QED
  BY <1>1, <1>2, <1>3, <1>4, EmptyRange

(* A task that takes an item is the most urgent ready task, so it is    *)
(* counted among the tasks ahead of every waiter: one item less and one *)
(* task less.                                                           *)
LEMMA TakeKeepsUrgency ==
  ASSUME NumberFacts, Base, Urgency, HighestInv, NEW t \in Tasks, t = pxCurrentTCB, ~pendsv, Take(t),
         Moves(t, "call")
  PROVE  Urgency'
<1> DEFINE q == Call(t).arg
<1>1. /\ step[t] = "call" /\ Call(t).op = "take"
      /\ UNCHANGED <<waiting, state, pendingReady, cTxLock, uxPriority>>
  BY Zenon DEF Take, listVars
<1>2. /\ uxMessagesWaiting[q] > 0
      /\ uxMessagesWaiting' = [uxMessagesWaiting EXCEPT ![q] = @ - 1]
      /\ xMutexHolder' = IF q \in Mutexes THEN [xMutexHolder EXCEPT ![q] = t] ELSE xMutexHolder
  <2>1. step'[t] = "call"
    BY MoveFacts DEF Base
  <2>2. step' = [step EXCEPT ![t] = "suspend"] => step'[t] = "suspend"
    BY DEF Base, PlaceInv
  <2> QED
    BY <2>1, <2>2, Zenon DEF Take, Goto
<1>3. q \in Queues /\ Takes(t, q) /\ \A p \in Queues : Takes(t, p) => p = q
  BY <1>1, CallArgument DEF Base, Takes
<1> HIDE DEF q
<1>4. /\ Range(pendingReady) = {} /\ state[t] = "ready"
      /\ \A u \in Tasks : state[u] = "ready" => uxPriority[u] <= uxPriority[t]
      /\ \A p \in Queues : t \notin Range(waiting[p])
      /\ \A u \in Tasks : step[u] \notin {"inherit", "insert"}
  BY <1>1, MostUrgent
<1>5. \A u \in Tasks : step'[u] = step[u] /\ (u # t => Call(u)' = Call(u))
  BY <1>1, MoveFacts DEF Base
<1>6. \A u \in Tasks, p \in Queues : Waits(u, p)' <=> Waits(u, p)
  BY <1>1, <1>4, <1>5 DEF Waits
<1>7. \A u \in Tasks, p \in Queues : Wants(u, p)' <=> Wants(u, p)
  BY <1>4, <1>5, <1>6 DEF Wants
<1>8. \A p \in Queues : \A u \in Awake(p) : u # t => u \in Awake(p)'
  BY <1>1, <1>4, <1>5 DEF Awake, Takes
<1>9. \A p \in Queues : p # q => t \notin Awake(p)
  BY <1>3 DEF Awake
<1>10. /\ uxMessagesWaiting[q] \in Int /\ uxMessagesWaiting'[q] = uxMessagesWaiting[q] - 1
       /\ \A p \in Queues \ {q} : uxMessagesWaiting'[p] = uxMessagesWaiting[p]
  BY <1>2, <1>3 DEF Base, HolderInv
<1>11. /\ q \in Mutexes => xMutexHolder[q] = NoTask /\ xMutexHolder'[q] = t
       /\ \A m \in Mutexes \ {q} : xMutexHolder'[m] = xMutexHolder[m]
  BY <1>2 DEF Base, HolderInv
<1>12. OrderInv'
  BY <1>1, Zenon DEF Urgency, OrderInv, Sorted
<1>13. RaisedInv'
  <2> SUFFICES ASSUME NEW u \in Tasks
               PROVE  /\ uxPriority[u] >= Priority[u]
                      /\ uxPriority[u] # Priority[u] =>
                           \E m \in Mutexes, w \in Tasks :
                             xMutexHolder'[m] = u /\ Waits(w, m)' /\ uxPriority[w] = uxPriority[u]
    BY <1>1, Zenon DEF RaisedInv
  <2>1. uxPriority[u] >= Priority[u]
    BY DEF Urgency, RaisedInv
  <2>2. ASSUME uxPriority[u] # Priority[u]
        PROVE  \E m \in Mutexes, w \in Tasks :
                 xMutexHolder'[m] = u /\ Waits(w, m)' /\ uxPriority[w] = uxPriority[u]
    <3>1. PICK m \in Mutexes, w \in Tasks :
            xMutexHolder[m] = u /\ Waits(w, m) /\ uxPriority[w] = uxPriority[u]
      BY <2>2, Zenon DEF Urgency, RaisedInv
    <3>2. xMutexHolder'[m] = u
      BY <1>11, <3>1, ConstantFacts
    <3> QED
      BY <1>6, <3>1, <3>2, ConstantFacts
  <2> QED
    BY <2>1, <2>2
<1>14. ASSUME q \in Mutexes, NEW w \in Tasks, Waits(w, q) PROVE uxPriority[w] <= uxPriority[t]
  <2> DEFINE c == Cardinality(All)
             a == Cardinality(Ahead(q, w))
  <2>1. c \in Nat /\ c >= 1 /\ a \in Nat /\ cTxLock[q] \in Int /\ cTxLock[q] <= 0
    BY <1>3, <1>14, AllFinite, AheadTasks, Subsets DEF Base, ListInv
  <2>2. cTxLock[q] >= c \/ uxMessagesWaiting[q] <= a + Posted(q)
    BY <1>3, <1>14, Zenon DEF Urgency, WakeInv, Wants, Served
  <2> HIDE DEF a, c
  <2>3. a # 0
    BY <1>2, <1>10, <2>1, <2>2 DEF Posted
  <2>4. Ahead(q, w) # {}
    BY <2>3, Zenon DEF NumberFacts, a
  <2>5. PICK u \in Ahead(q, w) : TRUE
    BY <2>4
  <2>6. u \in Tasks /\ state[u] = "ready" /\ uxPriority[u] >= uxPriority[w]
    BY <1>4, <2>5 DEF Ahead, Awake
  <2>7. uxPriority[u] \in Nat /\ uxPriority[w] \in Nat /\ uxPriority[t] \in Nat
    BY <2>6, ConstantFacts DEF Base, HolderInv
  <2> QED
    BY <1>4, <2>6, <2>7
<1>15. InheritInv'
  <2> SUFFICES ASSUME NEW m \in Mutexes, NEW w \in Tasks, Waits(w, m), xMutexHolder'[m] # NoTask
               PROVE  uxPriority[w] <= uxPriority[xMutexHolder'[m]]
    BY <1>1, <1>6, ConstantFacts DEF InheritInv
  <2>1. CASE m = q
    BY <1>11, <1>14, <2>1
  <2>2. CASE m # q
    BY <1>11, <2>2 DEF Urgency, InheritInv
  <2> QED
    BY <2>1, <2>2
<1>16. ASSUME NEW p \in Queues, NEW w \in Tasks, Wants(w, p) PROVE Served(p, w)'
  <2>1. Served(p, w)
    BY <1>16 DEF Urgency, WakeInv
  <2>2. CASE p # q
    <3>1. Ahead(p, w) \subseteq Ahead(p, w)'
      BY <1>1, <1>8, <1>9, <2>2 DEF Ahead
    <3> QED
      BY <1>1, <1>10, <2>1, <2>2, <3>1, ServedSame
  <2>3. CASE p = q
    <3> DEFINE a == Cardinality(Ahead(p, w))
               b == Cardinality(Ahead(p, w)')
               c == Cardinality(All)
    <3>1. Ahead(p, w) \ {t} \subseteq Ahead(p, w)'
      BY <1>1, <1>8 DEF Ahead
    <3>2. a \in Nat /\ b \in Nat /\ a <= b + 1
      BY <3>1, AheadTasks, AheadTasksNext, OneLess
    <3>3. cTxLock[p] >= c \/ uxMessagesWaiting[p] <= a + Posted(p)
      BY <2>1, Zenon DEF Served
    <3>4. Posted(p)' = Posted(p) /\ Posted(p) \in Int
      BY <1>1 DEF Posted, Base, ListInv
    <3> HIDE DEF a, b, c
    <3>5. cTxLock'[p] >= c \/ uxMessagesWaiting'[p] <= b + Posted(p)'
      BY <1>1, <1>10, <2>3, <3>2, <3>3, <3>4
    <3> QED
      BY <3>5, Zenon DEF b, c, Served
  <2> QED
    BY <2>2, <2>3
<1>17. WakeInv'
  BY <1>7, <1>16, Zenon DEF WakeInv
<1> QED
  BY <1>12, <1>13, <1>15, <1>17 DEF Urgency

(* A waiter lends the holder its priority. *)
LEMMA InheritKeepsUrgency ==
  ASSUME NumberFacts, Base, HeldInv, Urgency, NEW t \in Tasks, PriorityInherit(t), Moves(t, "insert"),
         pc' = pc
  PROVE  Urgency'
<1> DEFINE m == Call(t).arg
           h == xMutexHolder[m]
<1>1. /\ step[t] = "inherit"
      /\ uxPriority' = IF h # NoTask /\ uxPriority[h] < uxPriority[t]
                       THEN [uxPriority EXCEPT ![h] = uxPriority[t]] ELSE uxPriority
      /\ UNCHANGED <<waiting, state, pendingReady, cTxLock, xMutexHolder, uxMessagesWaiting>>
  BY Zenon DEF PriorityInherit, listVars, queueVars
<1>2. m \in Mutexes /\ m \in Queues /\ Takes(t, m) /\ \A p \in Queues : Takes(t, p) => p = m
  <2>1. StepFits(Call(t), step[t])
    BY DEF Base, PlaceInv
  <2> QED
    BY <1>1, <2>1, ConstantFacts DEF StepFits, TakeSteps, LockSteps, Takes
<1> HIDE DEF m
<1>3. uxPriority \in [All -> Nat] /\ h \in Tasks \union {NoTask} /\ Tasks \subseteq All
  BY <1>2, ConstantFacts DEF Base, HolderInv
<1> HIDE DEF h
<1>4. /\ \A u \in All : uxPriority'[u] \in Nat /\ uxPriority'[u] >= uxPriority[u]
      /\ \A u \in Tasks : uxPriority'[u] # uxPriority[u] => u = h /\ uxPriority'[u] = uxPriority[t]
      /\ h # NoTask => uxPriority'[h] >= uxPriority[t]
      /\ uxPriority'[t] = uxPriority[t]
  BY <1>1, <1>3
<1>5. /\ step'[t] = "insert"
      /\ \A u \in Tasks : (u # t => step'[u] = step[u]) /\ Call(u)' = Call(u)
  BY MoveFacts DEF Base
<1>6. \A u \in Tasks, p \in Queues : Takes(u, p)' <=> Takes(u, p)
  BY <1>5 DEF Takes
<1>7. \A u \in Tasks, p \in Queues : Waits(u, p)' <=> Waits(u, p) \/ (u = t /\ p = m)
  BY <1>1, <1>2, <1>5, <1>6 DEF Waits
<1>8. \A u \in Tasks, p \in Queues : Wants(u, p)' <=> Wants(u, p)
  BY <1>1, <1>2, <1>5, <1>6, <1>7 DEF Wants, Waits
<1>9. \A p \in Queues : Awake(p)' = Awake(p)
  BY <1>1, <1>5, <1>6 DEF Awake
<1>10. \A u \in Tasks, p \in Queues : Wants(u, p) => Takes(u, p) /\ u \notin Awake(p)
  BY DEF Base, LinkInv, LinkOK, Wants, Waits, Awake
<1>11. ASSUME h # NoTask
       PROVE  /\ \A p \in Mutexes : ~Waits(h, p)
              /\ \A u \in Tasks, p \in Queues : Takes(h, p) /\ Takes(u, p) => u = h
  <2>1. h \in Tasks /\ xMutexHolder[m] = h
    BY <1>3, <1>11 DEF h
  <2>2. /\ Call(h).op = "take" => Call(h).arg \notin Mutexes
        /\ \A u \in Tasks, p \in Queues : Takes(h, p) /\ Takes(u, p) => u = h
    BY <1>2, <2>1, MutexUse DEF Base
  <2>3. \A p \in Mutexes : Waits(h, p) => Takes(h, p)
    BY <1>10, <2>1, ConstantFacts DEF Wants
  <2> QED
    BY <2>2, <2>3 DEF Takes
<1>12. OrderInv'
  <2> SUFFICES ASSUME NEW p \in Queues, NEW i \in 1 .. Len(waiting[p]), NEW j \in 1 .. Len(waiting[p]), i < j
               PROVE  uxPriority'[waiting[p][i]] >= uxPriority'[waiting[p][j]]
    BY <1>1, Zenon DEF OrderInv, Sorted
  <2> DEFINE x == waiting[p][i]
             y == waiting[p][j]
  <2>1. waiting[p] \in Seq(Tasks) /\ IsInjective(waiting[p])
    BY DEF Base, ListInv
  <2>2. x \in Tasks /\ y \in Tasks /\ x # y /\ x \in Range(waiting[p]) /\ y \in Range(waiting[p])
    <3>1. DOMAIN waiting[p] = 1 .. Len(waiting[p])
      BY <2>1
    <3> QED
      BY <2>1, <3>1, RangeOf DEF IsInjective
  <2>3. uxPriority[x] >= uxPriority[y]
    BY DEF Urgency, OrderInv, Sorted
  <2> HIDE DEF x, y
  <2>4. Takes(x, p) /\ Takes(y, p)
    BY <2>2 DEF Base, LinkInv, LinkOK
  <2>5. uxPriority'[y] = uxPriority[y]
    <3> SUFFICES ASSUME y = h PROVE FALSE
      BY <1>4, <2>2
    <3>1. h # NoTask
      BY <2>2, ConstantFacts
    <3> QED
      BY <1>11, <2>2, <2>4, <3>1
  <2>6. uxPriority'[x] \in Nat /\ uxPriority[x] \in Nat /\ uxPriority[y] \in Nat /\ uxPriority'[x] >= uxPriority[x]
    BY <1>3, <1>4, <2>2
  <2> QED
    BY <2>3, <2>5, <2>6 DEF x, y
<1>13. ASSUME NEW p \in Mutexes, NEW u \in Tasks, Waits(u, p) PROVE uxPriority'[u] = uxPriority[u]
  <2> SUFFICES ASSUME u = h PROVE FALSE
    BY <1>4
  <2> QED
    BY <1>11, <1>13, ConstantFacts
<1>14. RaisedInv'
  <2> SUFFICES ASSUME NEW u \in Tasks
               PROVE  /\ uxPriority'[u] >= Priority[u]
                      /\ uxPriority'[u] # Priority[u] =>
                           \E n \in Mutexes, w \in Tasks :
                             xMutexHolder[n] = u /\ Waits(w, n)' /\ uxPriority'[w] = uxPriority'[u]
    BY <1>1, Zenon DEF RaisedInv
  <2>1. uxPriority'[u] >= Priority[u]
    <3>1. uxPriority[u] >= Priority[u] /\ uxPriority'[u] >= uxPriority[u]
      BY <1>3, <1>4 DEF Urgency, RaisedInv
    <3>2. uxPriority[u] \in Nat /\ uxPriority'[u] \in Nat /\ Priority[u] \in Nat
      BY <1>3, <1>4, ConstantFacts
    <3> QED
      BY <3>1, <3>2
  <2>2. ASSUME uxPriority'[u] # uxPriority[u]
        PROVE  \E n \in Mutexes, w \in Tasks :
                 xMutexHolder[n] = u /\ Waits(w, n)' /\ uxPriority'[w] = uxPriority'[u]
    <3>1. PICK n \in Mutexes : n = m
      BY <1>2
    <3>2. n \in Queues /\ u = xMutexHolder[n] /\ uxPriority'[t] = uxPriority'[u]
      BY <1>2, <1>4, <2>2, <3>1 DEF h
    <3>3. Waits(t, n)'
      BY <1>7, <3>1, <3>2
    <3> QED
      BY <3>2, <3>3
  <2>3. ASSUME uxPriority'[u] = uxPriority[u], uxPriority[u] # Priority[u]
        PROVE  \E n \in Mutexes, w \in Tasks :
                 xMutexHolder[n] = u /\ Waits(w, n)' /\ uxPriority'[w] = uxPriority'[u]
    <3>1. PICK n \in Mutexes, w \in Tasks :
            xMutexHolder[n] = u /\ Waits(w, n) /\ uxPriority[w] = uxPriority[u]
      BY <2>3, Zenon DEF Urgency, RaisedInv
    <3>2. Waits(w, n)' /\ uxPriority'[w] = uxPriority[w]
      BY <1>7, <1>13, <3>1, ConstantFacts
    <3> QED
      BY <2>3, <3>1, <3>2
  <2> QED
    BY <2>1, <2>2, <2>3
<1>15. InheritInv'
  <2> SUFFICES ASSUME NEW n \in Mutexes, NEW w \in Tasks, Waits(w, n)', xMutexHolder[n] # NoTask
               PROVE  uxPriority'[w] <= uxPriority'[xMutexHolder[n]]
    BY <1>1, Zenon DEF InheritInv
  <2>1. xMutexHolder[n] \in Tasks
    BY DEF Base, HolderInv
  <2>2. CASE Waits(w, n)
    <3>1. uxPriority'[w] = uxPriority[w] /\ uxPriority[w] <= uxPriority[xMutexHolder[n]]
      BY <1>13, <2>2 DEF Urgency, InheritInv
    <3>2. uxPriority'[xMutexHolder[n]] >= uxPriority[xMutexHolder[n]]
      BY <1>3, <1>4, <2>1
    <3>3. /\ uxPriority[w] \in Nat /\ uxPriority[xMutexHolder[n]] \in Nat
          /\ uxPriority'[xMutexHolder[n]] \in Nat
      BY <1>3, <1>4, <2>1
    <3> QED
      BY <3>1, <3>2, <3>3
  <2>3. CASE ~Waits(w, n)
    <3>1. w = t /\ n = m
      BY <1>7, <2>3, ConstantFacts
    <3>2. h # NoTask /\ xMutexHolder[n] = h
      BY <3>1 DEF h
    <3>3. uxPriority'[h] >= uxPriority[t] /\ uxPriority'[t] = uxPriority[t]
      BY <1>4, <3>2
    <3>4. uxPriority'[h] \in Nat /\ uxPriority[t] \in Nat
      BY <1>3, <1>4, <2>1, <3>2
    <3> QED
      BY <3>1, <3>2, <3>3, <3>4
  <2> QED
    BY <2>2, <2>3
<1>16. ASSUME NEW p \in Queues, NEW w \in Tasks, Wants(w, p) PROVE Served(p, w)'
  <2>1. Served(p, w)
    BY <1>16 DEF Urgency, WakeInv
  <2>2. Ahead(p, w) \subseteq Ahead(p, w)'
    <3>1. CASE uxPriority'[w] = uxPriority[w]
      <4> SUFFICES ASSUME NEW u \in Awake(p), uxPriority[u] >= uxPriority[w]
                   PROVE  uxPriority'[u] >= uxPriority'[w]
        BY <1>9 DEF Ahead
      <4>1. u \in Tasks
        BY DEF Awake
      <4>2. /\ uxPriority[u] \in Nat /\ uxPriority[w] \in Nat /\ uxPriority'[u] \in Nat
            /\ uxPriority'[u] >= uxPriority[u]
        BY <1>3, <1>4, <4>1
      <4> QED
        BY <3>1, <4>2
    <3>2. CASE uxPriority'[w] # uxPriority[w]
      <4>1. w = h /\ h # NoTask
        BY <1>4, <3>2, ConstantFacts
      <4>2. Takes(h, p) /\ h \notin Awake(p)
        BY <1>10, <1>16, <4>1
      <4>3. \A u \in Awake(p) : u = h
        BY <1>11, <4>1, <4>2 DEF Awake
      <4>4. Awake(p) = {}
        BY <4>2, <4>3
      <4> QED
        BY <4>4 DEF Ahead
    <3> QED
      BY <3>1, <3>2
  <2> QED
    BY <1>1, <2>1, <2>2, ServedSame
<1>17. WakeInv'
  BY <1>8, <1>16, Zenon DEF WakeInv
<1> QED
  BY <1>12, <1>14, <1>15, <1>17 DEF Urgency

(* Nobody joins or leaves the queue for a mutex. *)
LEMMA MutexCalm ==
  ASSUME Urgency, UNCHANGED <<uxPriority, xMutexHolder>>,
         \A u \in Tasks, m \in Mutexes : Waits(u, m)' <=> Waits(u, m)
  PROVE  RaisedInv' /\ InheritInv'
<1>1. RaisedInv'
  BY Zenon DEF Urgency, RaisedInv
<1>2. InheritInv'
  BY Zenon DEF Urgency, InheritInv
<1> QED
  BY <1>1, <1>2

(* n tasks are woken that waited. *)
LEMMA MoreAhead ==
  ASSUME NumberFacts, NEW S \in SUBSET Tasks, NEW R \in SUBSET Tasks, NEW W \in SUBSET Tasks,
         S \intersect W = {}, S \subseteq R, W \subseteq R
  PROVE  /\ Cardinality(S) \in Nat /\ Cardinality(W) \in Nat /\ Cardinality(R) \in Nat
         /\ Cardinality(S) + Cardinality(W) <= Cardinality(R)
<1>1. S \union W \in SUBSET R
  OBVIOUS
<1>2. Cardinality(S \union W) = Cardinality(S) + Cardinality(W)
  BY Zenon DEF NumberFacts
<1>3. Cardinality(S \union W) <= Cardinality(R)
  BY <1>1, Subsets, Zenon
<1>4. Cardinality(S) \in Nat /\ Cardinality(W) \in Nat /\ Cardinality(R) \in Nat
  BY Zenon DEF NumberFacts
<1> QED
  BY <1>2, <1>3, <1>4

(* prvUnlockQueue: the posted items are matched by the tasks it wakes, the *)
(* most urgent ones.                                                       *)
LEMMA UnlockKeepsUrgency ==
  ASSUME NumberFacts, Base, Urgency, NEW t \in Tasks, t = pxCurrentTCB, UnlockQueue(t), NEW s, Moves(t, s),
         pc' = pc, s \in {"resume", "resume_retry"}
  PROVE  Urgency'
<1>1. UNCHANGED <<uxPriority, xMutexHolder, uxMessagesWaiting, state>>
      /\ step[t] \in {"unlock", "unlock_retry"}
  BY Zenon DEF UnlockQueue
<1>2. PICK p \in Queues, n \in Nat, woken \in Seq(Tasks) :
           /\ Takes(t, p) /\ n = Len(woken) /\ n <= Len(waiting[p])
           /\ n = cTxLock[p] \/ (n <= cTxLock[p] /\ n = Len(waiting[p]))
           /\ woken = SubSeq(waiting[p], 1, n)
           /\ waiting' = [waiting EXCEPT ![p] = SubSeq(@, n + 1, Len(@))]
           /\ pendingReady' = pendingReady \o woken
           /\ cTxLock' = [cTxLock EXCEPT ![p] = -1]
  BY UnlockEffects, Zenon
<1>3. /\ \A q \in Queues \ {p} : waiting'[q] = waiting[q]
      /\ Range(waiting[p]) = Range(woken) \union Range(waiting'[p])
      /\ Range(woken) \intersect Range(waiting'[p]) = {}
      /\ Range(pendingReady') = Range(pendingReady) \union Range(woken)
  BY <1>2, UnlockLists
<1>4. /\ waiting[p] \in Seq(Tasks) /\ IsInjective(waiting[p]) /\ Sorted(waiting[p])
      /\ uxPriority \in [All -> Nat] /\ n \in 0 .. Len(waiting[p]) /\ Len(waiting[p]) \in Nat
      /\ waiting'[p] = SubSeq(waiting[p], n + 1, Len(waiting[p]))
  <2>1. waiting \in [Queues -> Seq(Tasks)] /\ IsInjective(waiting[p]) /\ uxPriority \in [All -> Nat]
    BY DEF Base, ListInv, HolderInv
  <2>2. Sorted(waiting[p])
    BY Zenon DEF Urgency, OrderInv
  <2>3. waiting[p] \in Seq(Tasks) /\ Len(waiting[p]) \in Nat /\ n <= Len(waiting[p])
    BY <1>2, <2>1
  <2>4. waiting'[p] = SubSeq(waiting[p], n + 1, Len(waiting[p]))
    BY <1>2, <2>1, Zenon
  <2> QED
    BY <2>1, <2>2, <2>3, <2>4
<1>5. Sorted(waiting'[p]) /\ \A u \in Range(woken), w \in Range(waiting'[p]) : uxPriority[u] >= uxPriority[w]
  <2>1. Sorted(waiting'[p])
    BY <1>4, SortedSplit
  <2>2. \A u \in Range(woken), w \in Range(waiting'[p]) : uxPriority[u] >= uxPriority[w]
    BY <1>2, <1>4, SortedSplit
  <2> QED
    BY <2>1, <2>2
<1>6. IsInjective(woken) /\ Len(waiting'[p]) = Len(waiting[p]) - n /\ waiting'[p] \in Seq(Tasks)
  <2>1. IsInjective(woken)
    <3>1. woken = SubSeq(waiting[p], 1, n)
      BY <1>2, Zenon
    <3>2. waiting[p] \in Seq(Tasks) /\ IsInjective(waiting[p]) /\ n \in 0 .. Len(waiting[p])
      BY <1>4, Zenon
    <3>3. IsInjective(SubSeq(waiting[p], 1, n))
      BY <3>2, SplitList, Zenon
    <3> QED
      BY <3>1, <3>3, Zenon
  <2>2. Len(waiting'[p]) = Len(waiting[p]) - n /\ waiting'[p] \in Seq(Tasks)
    <3> DEFINE a == waiting[p]
               b == SubSeq(a, n + 1, Len(a))
    <3>0. a \in Seq(Tasks) /\ n \in 0 .. Len(a)
      BY <1>4
    <3>2. waiting'[p] = b
      BY <1>4
    <3> HIDE DEF a
    <3>1. Len(b) = Len(a) - n /\ b \in Seq(Tasks)
      BY <3>0
    <3> HIDE DEF b
    <3> QED
      BY <3>1, <3>2 DEF a
  <2> QED
    BY <2>1, <2>2
<1>7. OrderInv'
  <2>1. \A q \in Queues : Sorted(waiting'[q])
    BY <1>3, <1>5, Zenon DEF Urgency, OrderInv
  <2> QED
    BY <1>1, <2>1, Zenon DEF OrderInv, Sorted
<1>8. /\ step'[t] = s /\ \A u \in Tasks : (u # t => step'[u] = step[u]) /\ Call(u)' = Call(u)
  BY MoveFacts DEF Base
<1>9. /\ \A u \in Tasks : step[u] \notin {"inherit", "insert"} /\ step'[u] \notin {"inherit", "insert"}
      /\ \A u \in Tasks, q \in Queues : Takes(u, q)' <=> Takes(u, q)
  <2>1. \A u \in Tasks : step[u] \notin {"inherit", "insert"}
    BY <1>1, Others DEF Base
  <2> QED
    BY <1>8, <2>1 DEF Takes
<1>10. \A u \in Tasks, q \in Queues : /\ Wants(u, q) <=> u \in Range(waiting[q])
                                      /\ Waits(u, q) <=> u \in Range(waiting[q])
                                      /\ Wants(u, q)' <=> u \in Range(waiting'[q])
                                      /\ Waits(u, q)' <=> u \in Range(waiting'[q])
  BY <1>9 DEF Wants, Waits
<1>11. /\ cTxLock[p] \in Int /\ cTxLock'[p] = -1
       /\ \A q \in Queues \ {p} : cTxLock'[q] = cTxLock[q]
  BY <1>2 DEF Base, ListInv
<1>12. \A u \in Tasks, m \in Mutexes : Waits(u, m)' <=> Waits(u, m)
  <2>1. ASSUME p \in Mutexes PROVE Range(woken) = {}
    <3>1. cTxLock[p] <= 0
      BY <2>1 DEF Base, ListInv
    <3>2. n = 0
      BY <1>2, <1>11, <3>1
    <3>3. woken = <<>>
      BY <1>2, <3>2
    <3> QED
      BY <3>3, EmptyRange
  <2> QED
    BY <1>3, <1>10, <2>1, ConstantFacts
<1>13. ASSUME NEW u \in Range(woken) PROVE u \in Tasks /\ u \notin Awake(p) /\ u \in Awake(p)'
  <2>1. u \in Tasks /\ u \in Range(waiting[p]) /\ u \notin Range(waiting'[p]) /\ u \in Range(pendingReady')
    BY <1>3, <1>4, RangeOf
  <2>2. Takes(u, p)
    BY <2>1 DEF Base, LinkInv, LinkOK
  <2> QED
    BY <1>9, <2>1, <2>2 DEF Awake
<1>14. ASSUME NEW q \in Queues, NEW u \in Awake(q) PROVE u \in Awake(q)'
  <2>1. u \in Tasks /\ u \notin Range(waiting'[q])
    BY <1>3 DEF Awake
  <2> QED
    BY <1>1, <1>3, <1>9, <2>1 DEF Awake
<1>15. ASSUME NEW q \in Queues, NEW w \in Tasks PROVE Ahead(q, w) \subseteq Ahead(q, w)'
  BY <1>1, <1>14 DEF Ahead
<1>16. ASSUME NEW q \in Queues, NEW w \in Tasks, Wants(w, q)' PROVE Served(q, w)'
  <2>1. Served(q, w)
    BY <1>3, <1>10, <1>16 DEF Urgency, WakeInv
  <2>2. CASE q # p
    <3>1. uxMessagesWaiting'[q] = uxMessagesWaiting[q] /\ cTxLock'[q] = cTxLock[q]
      BY <1>1, <1>11, <2>2
    <3> QED
      BY <1>15, <2>1, <3>1, ServedSame
  <2>3. CASE q = p
    <3>0. w \in Range(waiting'[p])
      BY <1>10, <1>16, <2>3
    <3>1. n = cTxLock[p] /\ n < Len(waiting[p])
      <4>1. Len(waiting'[p]) # 0
        BY <1>6, <3>0, RangeOf
      <4>2. n < Len(waiting[p])
        BY <1>4, <1>6, <4>1
      <4>3. n = cTxLock[p] \/ n = Len(waiting[p])
        BY <1>2, Zenon
      <4> QED
        BY <1>4, <4>2, <4>3
    <3> DEFINE W == Range(woken)
               a == Cardinality(Ahead(p, w))
               b == Cardinality(Ahead(p, w)')
               c == Cardinality(All)
               e == Cardinality(Tasks)
    <3>2. Cardinality(W) = n /\ Cardinality(Range(waiting[p])) = Len(waiting[p])
      BY <1>2, <1>4, <1>6, Zenon DEF NumberFacts
    <3>3. W \in SUBSET Tasks /\ Range(waiting[p]) \in SUBSET Tasks /\ Tasks \in SUBSET Tasks
      BY <1>4, RangeOf
    <3>4. Len(waiting[p]) <= e /\ c = e + 1 /\ e \in Nat
      BY <3>2, <3>3, Subsets DEF NumberFacts
    <3>5. W \subseteq Ahead(p, w)'
      BY <1>1, <1>5, <1>13, <3>0 DEF Ahead
    <3>6. Ahead(p, w) \intersect W = {}
      BY <1>13 DEF Ahead
    <3>7. Ahead(p, w) \in SUBSET Tasks /\ Ahead(p, w)' \in SUBSET Tasks /\ Ahead(p, w) \subseteq Ahead(p, w)'
      BY <1>15, AheadTasks, AheadTasksNext
    <3>8. a \in Nat /\ b \in Nat /\ a + n <= b
      BY <3>2, <3>3, <3>5, <3>6, <3>7, MoreAhead
    <3>9. cTxLock[p] >= c \/ uxMessagesWaiting[p] <= a + Posted(p)
      BY <2>1, <2>3, Zenon DEF Served
    <3> HIDE DEF a, b, c, e, W
    <3>10. Posted(p) = n /\ Posted(p)' = 0
      BY <1>11, <3>1 DEF Posted
    <3>11. uxMessagesWaiting[p] \in Int
      BY DEF Base, HolderInv
    <3>12. uxMessagesWaiting'[p] <= b + Posted(p)'
      BY <1>1, <1>4, <3>1, <3>4, <3>8, <3>9, <3>10, <3>11
    <3> QED
      BY <2>3, <3>12, Zenon DEF b, Served
  <2> QED
    BY <2>2, <2>3
<1>17. WakeInv'
  BY <1>16, Zenon DEF WakeInv
<1> QED
  BY <1>1, <1>7, <1>12, <1>17, MutexCalm DEF Urgency

(* The task xTaskRemoveFromEventList wakes is the most urgent waiter. *)
LEMMA RemoveSorted ==
  ASSUME Base, OrderInv, NEW q \in Queues, RemoveFromEventList(q)
  PROVE  /\ \A p \in Queues : Sorted(waiting'[p])
         /\ \A w \in Range(waiting'[q]) : \E h \in Tasks :
              Range(Woken(q)) = {h} /\ uxPriority[h] >= uxPriority[w]
<1> DEFINE s == waiting[q]
<1>1. s \in Seq(Tasks) /\ IsInjective(s) /\ Sorted(s) /\ uxPriority \in [All -> Nat]
  BY DEF Base, ListInv, HolderInv, OrderInv
<1>2. waiting'[q] = (IF s = <<>> THEN s ELSE Tail(s)) /\ \A p \in Queues \ {q} : waiting'[p] = waiting[p]
  BY DEF RemoveFromEventList, Base, ListInv
<1>3. CASE s = <<>>
  <2>1. waiting'[q] = waiting[q] /\ Range(waiting'[q]) = {}
    BY <1>2, <1>3, EmptyRange
  <2>2. \A p \in Queues : waiting'[p] = waiting[p]
    BY <1>2, <2>1
  <2> QED
    BY <2>1, <2>2, Zenon DEF OrderInv
<1>4. CASE s # <<>>
  <2>1. Sorted(Tail(s)) /\ \A w \in Range(s) : uxPriority[Head(s)] >= uxPriority[w]
    BY <1>1, <1>4, SortedTail
  <2>2. Head(s) \in Tasks /\ Range(Tail(s)) \subseteq Range(s)
    BY <1>1, <1>4, TailList
  <2>3. Woken(q) = <<Head(s)>> /\ waiting'[q] = Tail(s)
    BY <1>2, <1>4 DEF Woken
  <2>4. \A p \in Queues : Sorted(waiting'[p])
    BY <1>2, <2>1, <2>3, Zenon DEF OrderInv
  <2>5. PICK h \in Tasks : h = Head(s)
    BY <2>2
  <2>6. Range(<<h>>) = {h}
    BY DEF Range
  <2>7. Range(Woken(q)) = {h}
    BY <2>3, <2>5, <2>6
  <2>8. \A w \in Range(waiting'[q]) : uxPriority[h] >= uxPriority[w]
    BY <2>1, <2>2, <2>3, <2>5
  <2> QED
    BY <2>4, <2>7, <2>8
<1> QED
  BY <1>3, <1>4

(* A mutex is given back. *)
LEMMA GiveKeepsUrgency ==
  ASSUME NumberFacts, Base, HeldInv, Urgency, HighestInv, NEW t \in Tasks, t = pxCurrentTCB, ~pendsv,
         Give(t), Moves(t, "call")
  PROVE  Urgency'
<1>1. PICK m \in Mutexes : m = Call(t).arg
  BY CallArgument, Zenon DEF Base, Give
<1>2. /\ step[t] = "call" /\ Call(t).op = "give" /\ xMutexHolder[m] = t
      /\ uxMessagesWaiting' = [uxMessagesWaiting EXCEPT ![m] = @ + 1]
      /\ xMutexHolder' = [xMutexHolder EXCEPT ![m] = NoTask]
      /\ uxPriority' = PriorityDisinherit(t, m)
      /\ RemoveFromEventList(m) /\ UNCHANGED <<step, cTxLock>>
  BY <1>1, Zenon DEF Give
<1>3. /\ uxSchedulerSuspended = 0 /\ Range(pendingReady) = {} /\ m \in Queues
      /\ \A p \in Queues : t \notin Range(waiting[p])
      /\ \A u \in Tasks : step[u] \notin {"inherit", "insert"}
  BY <1>2, MostUrgent, ConstantFacts
<1>4. \A n \in Mutexes : xMutexHolder[n] = t => n = m
  BY <1>1, <1>2, MutexUse DEF Base
<1>5. /\ uxPriority'[t] = Priority[t] /\ \A u \in Tasks \ {t} : uxPriority'[u] = uxPriority[u]
      /\ uxPriority \in [All -> Nat]
  <2>1. uxPriority' = [uxPriority EXCEPT ![t] = Priority[t]]
    BY <1>2, <1>4, Zenon DEF PriorityDisinherit
  <2> QED
    BY <2>1, ConstantFacts DEF Base, HolderInv
<1> DEFINE W == Range(Woken(m))
<1>6. /\ \A p \in Queues \ {m} : waiting'[p] = waiting[p]
      /\ W \subseteq Range(waiting[m]) /\ Range(waiting'[m]) = Range(waiting[m]) \ W
      /\ waiting' \in [Queues -> Seq(Tasks)]
  BY <1>2, <1>3, RemoveEffects, Zenon
<1>7. /\ state' = [u \in All |-> IF u \in W THEN "ready" ELSE state[u]]
      /\ pendingReady' = pendingReady
  BY <1>2, <1>3, RemoveEffects, Zenon
<1>8. /\ \A p \in Queues : Sorted(waiting'[p])
      /\ \A w \in Range(waiting'[m]) : \E h \in Tasks : W = {h} /\ uxPriority[h] >= uxPriority[w]
  BY <1>2, <1>3, RemoveSorted DEF Urgency
<1> HIDE DEF W
<1>9. /\ \A u \in Tasks \ {t} : Call(u)' = Call(u)
      /\ \A u \in Tasks : step'[u] = step[u]
  BY <1>2, MoveFacts DEF Base
<1>10. \A u \in Tasks, q \in Queues : /\ Wants(u, q) <=> u \in Range(waiting[q])
                                      /\ Waits(u, q) <=> u \in Range(waiting[q])
                                      /\ Wants(u, q)' <=> u \in Range(waiting'[q])
                                      /\ Waits(u, q)' <=> u \in Range(waiting'[q])
  BY <1>3, <1>9 DEF Wants, Waits
<1>11. \A u \in Tasks, q \in Queues : /\ u \in Range(waiting'[q]) => u \in Range(waiting[q])
                                      /\ u \in Range(waiting[q]) => u # t
  BY <1>3, <1>6
<1>12. OrderInv'
  <2> SUFFICES ASSUME NEW p \in Queues, NEW i \in 1 .. Len(waiting'[p]), NEW j \in 1 .. Len(waiting'[p]), i < j
               PROVE  uxPriority'[waiting'[p][i]] >= uxPriority'[waiting'[p][j]]
    BY Zenon DEF OrderInv, Sorted
  <2>1. uxPriority[waiting'[p][i]] >= uxPriority[waiting'[p][j]]
    BY <1>8, Zenon DEF Sorted
  <2>2. waiting'[p] \in Seq(Tasks)
    BY <1>6
  <2>3. /\ waiting'[p][i] \in Tasks /\ waiting'[p][i] \in Range(waiting'[p])
        /\ waiting'[p][j] \in Tasks /\ waiting'[p][j] \in Range(waiting'[p])
    BY <2>2, RangeOf
  <2> QED
    BY <1>5, <1>11, <2>1, <2>3
<1>13. /\ xMutexHolder'[m] = NoTask
       /\ \A n \in Mutexes \ {m} : xMutexHolder'[n] = xMutexHolder[n] /\ xMutexHolder[n] # t
  BY <1>2, <1>4 DEF Base, HolderInv
<1>14. RaisedInv'
  <2> SUFFICES ASSUME NEW u \in Tasks
               PROVE  /\ uxPriority'[u] >= Priority[u]
                      /\ uxPriority'[u] # Priority[u] =>
                           \E n \in Mutexes, w \in Tasks :
                             xMutexHolder'[n] = u /\ Waits(w, n)' /\ uxPriority'[w] = uxPriority'[u]
    BY Zenon DEF RaisedInv
  <2>1. CASE u = t
    BY <1>5, <2>1, ConstantFacts
  <2>2. CASE u # t
    <3>1. uxPriority'[u] = uxPriority[u] /\ uxPriority[u] >= Priority[u]
      BY <1>5, <2>2 DEF Urgency, RaisedInv
    <3>2. ASSUME uxPriority[u] # Priority[u]
          PROVE  \E n \in Mutexes, w \in Tasks :
                   xMutexHolder'[n] = u /\ Waits(w, n)' /\ uxPriority'[w] = uxPriority'[u]
      <4>1. PICK n \in Mutexes, w \in Tasks :
              xMutexHolder[n] = u /\ Waits(w, n) /\ uxPriority[w] = uxPriority[u]
        BY <3>2, Zenon DEF Urgency, RaisedInv
      <4>2. n # m /\ n \in Queues
        BY <1>2, <2>2, <4>1, ConstantFacts
      <4>3. Waits(w, n)' /\ w # t /\ xMutexHolder'[n] = u
        BY <1>6, <1>10, <1>11, <1>13, <4>1, <4>2
      <4> QED
        BY <1>5, <3>1, <4>1, <4>3
    <3> QED
      BY <3>1, <3>2
  <2> QED
    BY <2>1, <2>2
<1>15. InheritInv'
  <2> SUFFICES ASSUME NEW n \in Mutexes, NEW w \in Tasks, Waits(w, n)', xMutexHolder'[n] # NoTask
               PROVE  uxPriority'[w] <= uxPriority'[xMutexHolder'[n]]
    BY Zenon DEF InheritInv
  <2>1. n # m /\ n \in Queues
    BY <1>13, ConstantFacts
  <2>2. Waits(w, n) /\ w # t
    BY <1>10, <1>11, <2>1
  <2>3. xMutexHolder'[n] = xMutexHolder[n] /\ xMutexHolder[n] \in Tasks \ {t}
    BY <1>13, <2>1 DEF Base, HolderInv
  <2>4. uxPriority[w] <= uxPriority[xMutexHolder[n]]
    BY <2>2, <2>3 DEF Urgency, InheritInv
  <2> QED
    BY <1>5, <2>2, <2>3, <2>4
<1>16. ASSUME NEW q \in Queues, NEW w \in Tasks, Wants(w, q)' PROVE Served(q, w)'
  <2>1. Served(q, w) /\ w # t /\ w \in Range(waiting'[q])
    BY <1>10, <1>11, <1>16 DEF Urgency, WakeInv
  <2>2. CASE q # m
    <3>1. Ahead(q, w) \subseteq Ahead(q, w)'
      <4> SUFFICES ASSUME NEW u \in Awake(q), uxPriority[u] >= uxPriority[w]
                   PROVE  u \in Awake(q)' /\ uxPriority'[u] >= uxPriority'[w]
        BY DEF Ahead
      <4>1. /\ u \in Tasks /\ Takes(u, q) /\ u \notin Range(waiting[q]) /\ state[u] = "ready"
            /\ step[u] \notin {"inherit", "insert"}
        BY <1>3 DEF Awake
      <4>2. u # t
        BY <1>2, <4>1 DEF Takes
      <4>3. Takes(u, q)' /\ step'[u] = step[u] /\ state'[u] = "ready" /\ waiting'[q] = waiting[q]
        BY <1>6, <1>7, <1>9, <2>2, <4>1, <4>2, TickFacts DEF Takes
      <4>4. u \in Awake(q)'
        BY <4>1, <4>3 DEF Awake
      <4> QED
        BY <1>5, <2>1, <4>1, <4>2, <4>4
    <3>2. uxMessagesWaiting'[q] = uxMessagesWaiting[q] /\ cTxLock'[q] = cTxLock[q]
      BY <1>2, <2>2 DEF Base, HolderInv
    <3> QED
      BY <2>1, <3>1, <3>2, ServedSame
  <2>3. CASE q = m
    <3>1. PICK h \in Tasks : W = {h} /\ uxPriority[h] >= uxPriority[w]
      BY <1>8, <2>1, <2>3
    <3>2. h \in Range(waiting[m]) /\ h \notin Range(waiting'[m]) /\ state'[h] = "ready" /\ h # t
      BY <1>6, <1>7, <1>11, <1>3, <3>1, TickFacts
    <3>3. Takes(h, m)
      BY <1>3, <3>2 DEF Base, LinkInv, LinkOK
    <3>4. Takes(h, m)' /\ step'[h] \notin {"inherit", "insert"}
      BY <1>3, <1>9, <3>2, <3>3 DEF Takes
    <3>5. h \in Ahead(m, w)'
      BY <1>5, <2>1, <3>1, <3>2, <3>4 DEF Ahead, Awake
    <3> DEFINE b == Cardinality(Ahead(m, w)')
               one == Cardinality({h})
    <3>6. one = 1 /\ b \in Nat /\ one <= b
      BY <3>5, AheadTasksNext, Subsets, Zenon DEF NumberFacts
    <3>7. uxMessagesWaiting'[m] = 1
      <4>1. uxMessagesWaiting \in [Queues -> Int] /\ uxMessagesWaiting[m] = 0 /\ m \in Queues
        BY <1>2, <1>3, ConstantFacts DEF Base, HolderInv
      <4> QED
        BY <1>2, <4>1
    <3>8. Posted(m)' \in Nat
      BY <1>2, <1>3 DEF Posted, Base, ListInv
    <3> HIDE DEF b, one
    <3>9. uxMessagesWaiting'[m] <= b + Posted(m)'
      BY <3>6, <3>7, <3>8
    <3> QED
      BY <2>3, <3>9, Zenon DEF b, Served
  <2> QED
    BY <2>2, <2>3
<1>17. WakeInv'
  BY <1>16, Zenon DEF WakeInv
<1> QED
  BY <1>12, <1>14, <1>15, <1>17 DEF Urgency

(* An interrupt handler posts an item. *)
LEMMA ISRKeepsUrgency ==
  ASSUME NumberFacts, Base, Urgency, NEW q \in Queues, GiveFromISR(q)
  PROVE  Urgency'
<1>1. q \notin Mutexes /\ UNCHANGED <<pc, step, uxPriority, xMutexHolder>>
  BY Zenon DEF GiveFromISR, taskVars
<1>2. \A u \in Tasks, p \in Queues : Takes(u, p)' <=> Takes(u, p)
  BY <1>1 DEF Takes, Call
<1>3. /\ uxMessagesWaiting \in [Queues -> Int] /\ cTxLock \in [Queues -> Int]
      /\ cTxLock[q] \in -1 .. Cardinality(All)
  BY DEF Base, HolderInv, ListInv
<1>4. ASSUME cTxLock[q] = -1, cTxLock' = cTxLock, RemoveFromEventList(q),
             uxMessagesWaiting' = [uxMessagesWaiting EXCEPT ![q] = @ + 1]
      PROVE  Urgency'
  <2> DEFINE W == Range(Woken(q))
  <2>1. /\ \A p \in Queues \ {q} : waiting'[p] = waiting[p]
        /\ W \subseteq Range(waiting[q]) /\ Range(waiting'[q]) = Range(waiting[q]) \ W
    BY <1>4, RemoveEffects, Zenon
  <2>2. /\ uxSchedulerSuspended = 0 =>
             /\ state' = [u \in All |-> IF u \in W THEN "ready" ELSE state[u]]
             /\ pendingReady' = pendingReady
        /\ uxSchedulerSuspended # 0 =>
              state' = state /\ Range(pendingReady') = Range(pendingReady) \union W
    BY <1>4, RemoveEffects, Zenon
  <2>3. /\ \A p \in Queues : Sorted(waiting'[p])
        /\ \A w \in Range(waiting'[q]) : \E h \in Tasks : W = {h} /\ uxPriority[h] >= uxPriority[w]
    BY <1>4, RemoveSorted DEF Urgency
  <2> HIDE DEF W
  <2>4. OrderInv'
    BY <1>1, <2>3, Zenon DEF OrderInv, Sorted
  <2>5. \A u \in Tasks, m \in Mutexes : Waits(u, m)' <=> Waits(u, m)
    BY <1>1, <1>2, <2>1, ConstantFacts DEF Waits
  <2>6. \A u \in Tasks : /\ state[u] = "ready" => state'[u] = "ready"
                         /\ u \in Range(pendingReady) => u \in Range(pendingReady')
                         /\ u \in W => state'[u] = "ready" \/ u \in Range(pendingReady')
    BY <2>2, TickFacts
  <2>7. \A p \in Queues : \A u \in Awake(p) : u \in Awake(p)'
    BY <1>1, <1>2, <2>1, <2>6 DEF Awake
  <2>8. \A p \in Queues, w \in Tasks : Ahead(p, w) \subseteq Ahead(p, w)'
    BY <1>1, <2>7 DEF Ahead
  <2>9. ASSUME NEW p \in Queues, NEW w \in Tasks, Wants(w, p)' PROVE Served(p, w)'
    <3>1. Wants(w, p)
      BY <1>1, <1>2, <2>1, <2>9 DEF Wants, Waits
    <3>2. Served(p, w)
      BY <3>1 DEF Urgency, WakeInv
    <3>3. CASE p # q
      <4>1. uxMessagesWaiting'[p] = uxMessagesWaiting[p] /\ cTxLock'[p] = cTxLock[p]
        BY <1>3, <1>4, <3>3
      <4> QED
        BY <2>8, <3>2, <4>1, ServedSame
    <3>4. CASE p = q
      <4>1. step[w] \in {"inherit", "insert"} => ~Takes(w, q)
        <5>1. step[w] \in {"inherit", "insert"} => step[w] \in LockSteps /\ w = pxCurrentTCB
          BY StepSets DEF Base, SchedInv
        <5> QED
          BY <1>4, <5>1 DEF Base, LockInv
      <4>2. w \in Range(waiting'[q])
        BY <1>1, <1>2, <2>9, <3>4, <4>1 DEF Wants, Waits
      <4>3. PICK h \in Tasks : W = {h} /\ uxPriority[h] >= uxPriority[w]
        BY <2>3, <4>2
      <4>4. h \in Range(waiting[q]) /\ h \notin Range(waiting'[q]) /\ Takes(h, q)
        BY <2>1, <4>3 DEF Base, LinkInv, LinkOK
      <4>5. step[h] \notin {"inherit", "insert"}
        BY <4>4 DEF Base, LinkInv, LinkOK
      <4>6. h \in Ahead(q, w)' /\ h \notin Ahead(q, w)
        BY <1>1, <1>2, <2>6, <4>3, <4>4, <4>5 DEF Ahead, Awake
      <4> DEFINE a == Cardinality(Ahead(q, w))
                 b == Cardinality(Ahead(q, w)')
                 one == Cardinality({h})
                 c == Cardinality(All)
      <4>7. Ahead(q, w) \in SUBSET Tasks /\ Ahead(q, w)' \in SUBSET Tasks /\ {h} \in SUBSET Tasks
            /\ Ahead(q, w) \intersect {h} = {} /\ {h} \subseteq Ahead(q, w)' /\ Ahead(q, w) \subseteq Ahead(q, w)'
        BY <2>8, <4>6, AheadTasks, AheadTasksNext
      <4>8. a \in Nat /\ b \in Nat /\ a + one <= b
        BY <4>7, MoreAhead
      <4>9. one = 1 /\ c \in Nat
        BY AllFinite DEF NumberFacts
      <4>10. cTxLock[q] >= c \/ uxMessagesWaiting[q] <= a + Posted(q)
        BY <3>2, <3>4, Zenon DEF Served
      <4> HIDE DEF a, b, c, one
      <4>11. Posted(q) = 0 /\ Posted(q)' = 0
        BY <1>4 DEF Posted
      <4>12. uxMessagesWaiting'[q] = uxMessagesWaiting[q] + 1 /\ uxMessagesWaiting[q] \in Int
        BY <1>3, <1>4
      <4>13. uxMessagesWaiting'[q] <= b + Posted(q)'
        BY <1>4, <4>8, <4>9, <4>10, <4>11, <4>12
      <4> QED
        BY <3>4, <4>13, Zenon DEF b, Served
    <3> QED
      BY <3>3, <3>4
  <2>10. WakeInv'
    BY <2>9, Zenon DEF WakeInv
  <2> QED
    BY <1>1, <2>4, <2>5, <2>10, MutexCalm DEF Urgency
<1>5. ASSUME cTxLock[q] # -1, UNCHANGED <<waiting, state, pendingReady>>,
             uxMessagesWaiting' = [uxMessagesWaiting EXCEPT ![q] = @ + 1],
             cTxLock' = [cTxLock EXCEPT ![q] = IF @ < Cardinality(All) THEN @ + 1 ELSE @]
      PROVE  Urgency'
  <2>1. OrderInv'
    BY <1>1, <1>5, Zenon DEF Urgency, OrderInv, Sorted
  <2>2. \A u \in Tasks, p \in Queues : (Waits(u, p)' <=> Waits(u, p)) /\ (Wants(u, p)' <=> Wants(u, p))
    BY <1>1, <1>2, <1>5 DEF Wants, Waits
  <2>3. \A p \in Queues : Awake(p)' = Awake(p)
    BY <1>1, <1>2, <1>5 DEF Awake
  <2>4. \A p \in Queues, w \in Tasks : Ahead(p, w)' = Ahead(p, w)
    BY <1>1, <2>3 DEF Ahead
  <2>5. ASSUME NEW p \in Queues, NEW w \in Tasks, Wants(w, p) PROVE Served(p, w)'
    <3>1. Served(p, w)
      BY <2>5 DEF Urgency, WakeInv
    <3>2. CASE p # q
      <4>1. uxMessagesWaiting'[p] = uxMessagesWaiting[p] /\ cTxLock'[p] = cTxLock[p]
        BY <1>3, <1>5, <3>2
      <4>2. Ahead(p, w) \subseteq Ahead(p, w)'
        BY <2>4
      <4> QED
        BY <3>1, <4>1, <4>2, ServedSame
    <3>3. CASE p = q
      <4> DEFINE a == Cardinality(Ahead(q, w))
                 c == Cardinality(All)
      <4>1. a \in Nat /\ c \in Nat
        BY AheadTasks, Subsets, AllFinite
      <4>2. cTxLock[q] >= c \/ uxMessagesWaiting[q] <= a + Posted(q)
        BY <3>1, <3>3, Zenon DEF Served
      <4>3. /\ cTxLock[q] \in -1 .. c /\ cTxLock'[q] = IF cTxLock[q] < c THEN cTxLock[q] + 1 ELSE cTxLock[q]
            /\ uxMessagesWaiting'[q] = uxMessagesWaiting[q] + 1 /\ uxMessagesWaiting[q] \in Int
        BY <1>3, <1>5
      <4> HIDE DEF a, c
      <4>4. cTxLock'[q] >= c \/ uxMessagesWaiting'[q] <= a + Posted(q)'
        BY <1>5, <4>1, <4>2, <4>3 DEF Posted
      <4>5. a = Cardinality(Ahead(q, w)')
        BY <2>4 DEF a
      <4> QED
        BY <3>3, <4>4, <4>5, Zenon DEF c, Served
    <3> QED
      BY <3>2, <3>3
  <2>6. WakeInv'
    BY <2>2, <2>5, Zenon DEF WakeInv
  <2> QED
    BY <1>1, <2>1, <2>2, <2>6, MutexCalm, ConstantFacts DEF Urgency
<1>6. ASSUME UNCHANGED <<uxMessagesWaiting, cTxLock, waiting, state, pendingReady>>
      PROVE  Urgency'
  BY <1>1, <1>6, CalmInterrupt
<1> QED
  BY <1>4, <1>5, <1>6, Zenon DEF GiveFromISR

-----------------------------------------------------------------------------
(* The most urgent task runs *)

(* The inductive invariant. *)
Inv == Base /\ HeldInv /\ Urgency /\ HighestInv

(* It holds when the scheduler starts. *)
LEMMA InitInv ==
  ASSUME NumberFacts, Init
  PROVE  Inv
<1>1. Base
  BY InitBase
<1>2. /\ \A t \in Tasks : pc[t] = 1 /\ step[t] = "call"
      /\ \A m \in Mutexes : xMutexHolder[m] = NoTask
      /\ \A q \in Queues : waiting[q] = <<>>
      /\ uxPriority = Priority
  BY DEF Init
<1>3. HeldInv
  <2>1. \A t \in Tasks : Held(t, 1) = {}
    <3>1. 1 .. 1 - 1 = {}
      OBVIOUS
    <3> QED
      BY <3>1, Zenon DEF Held
  <2> QED
    BY <1>2, <2>1, ConstantFacts DEF HeldInv
<1>4. \A u \in Tasks, q \in Queues : ~Wants(u, q) /\ ~Waits(u, q)
  BY <1>2, EmptyRange DEF Wants, Waits
<1>5. Urgency
  <2>1. OrderInv
    BY <1>2 DEF OrderInv, Sorted
  <2>2. RaisedInv
    BY <1>2, ConstantFacts DEF RaisedInv
  <2>3. InheritInv
    BY <1>2 DEF InheritInv
  <2>4. WakeInv
    BY <1>4, Zenon DEF WakeInv
  <2> QED
    BY <2>1, <2>2, <2>3, <2>4 DEF Urgency
<1>6. HighestInv
  BY <1>2 DEF Init, HighestInv, ReadyTasks
<1> QED
  BY <1>1, <1>3, <1>5, <1>6 DEF Inv

(* xTaskResumeAll: woken tasks are ready, and a switch is pended unless none *)
(* is more urgent than the running task.                                     *)
LEMMA ResumeReady ==
  ASSUME NumberFacts, Base, ResumeAll
  PROVE  /\ \A u \in Tasks : state[u] = "ready" \/ u \in Range(pendingReady) => state'[u] = "ready"
         /\ pendsv' = (pendsv \/ xYieldPending') /\ xYieldPending' \in BOOLEAN
         /\ (xYieldPending => xYieldPending') /\ uxSchedulerSuspended' = 0
         /\ ~xYieldPending' => \A u \in All : state'[u] = "ready" /\ state[u] # "ready" =>
                                 uxPriority[u] <= uxPriority[pxCurrentTCB]
         /\ UNCHANGED <<waiting, uxMessagesWaiting, xMutexHolder, cTxLock, uxPriority, pxCurrentTCB>>
<1>1. /\ xYieldPending' \in BOOLEAN /\ pendsv' = (pendsv \/ xYieldPending')
      /\ Later(Resumed, xYieldPending, state', xYieldPending')
      /\ ~xYieldPending' => \A t \in Range(pendingReady) : uxPriority[t] < uxPriority[pxCurrentTCB]
  BY PendingTasks, ResumeEffects
<1>2. UNCHANGED <<waiting, uxMessagesWaiting, xMutexHolder, cTxLock, uxPriority, pxCurrentTCB>>
      /\ uxSchedulerSuspended' = 0
  BY Zenon DEF ResumeAll, queueVars
<1>3. \A u \in All : Resumed[u] = IF u \in Range(pendingReady) THEN "ready" ELSE state[u]
  BY DEF Resumed
<1>4. \A u \in Tasks : state[u] = "ready" \/ u \in Range(pendingReady) => state'[u] = "ready"
  BY <1>1, <1>3, TickFacts DEF Later
<1>5. xYieldPending => xYieldPending'
  BY <1>1, Zenon DEF Later
<1>6. ASSUME ~xYieldPending', NEW u \in All, state'[u] = "ready", state[u] # "ready"
      PROVE  uxPriority[u] <= uxPriority[pxCurrentTCB]
  <2>1. uxPriority[u] \in Nat /\ uxPriority[pxCurrentTCB] \in Nat
    BY PendingTasks DEF RunOK
  <2>2. CASE u \in Range(pendingReady)
    BY <1>1, <1>6, <2>1, <2>2
  <2>3. CASE u \notin Range(pendingReady)
    BY <1>1, <1>3, <1>6, <2>3 DEF Later
  <2> QED
    BY <2>2, <2>3
<1> QED
  BY <1>1, <1>2, <1>4, <1>5, <1>6

(* A task's step keeps the order of urgency. *)
LEMMA TaskKeepsUrgency ==
  ASSUME NumberFacts, Inv, NEW t \in Tasks, t = pxCurrentTCB, ~pendsv, Goes(t)
  PROVE  Urgency'
<1>1. Base /\ HeldInv /\ Urgency /\ HighestInv /\ PlaceInv
  BY DEF Inv, Base
<1>a. StepFits(Call(t), step[t])
  BY <1>1 DEF PlaceInv
<1>2. CASE Take(t) /\ Moves(t, "call")
  BY <1>1, <1>2, TakeKeepsUrgency
<1>3. CASE Take(t) /\ Moves(t, "suspend") /\ pc' = pc
  <2>1. step'[t] = "suspend" /\ step[t] = "call"
    BY <1>1, <1>3, MoveFacts, Zenon DEF Take
  <2>2. step' # step
    BY <2>1
  <2>3. UNCHANGED <<uxPriority, waiting, xMutexHolder, uxMessagesWaiting, cTxLock, state, pendingReady>>
    BY <1>3, <2>2, Zenon DEF Take, listVars
  <2> QED
    BY <1>1, <1>3, <2>1, <2>3, CalmMove
<1>4. CASE SuspendAll(t) /\ pc' = pc /\ \E s \in {"suspended", "delay", "sbrk"} : Moves(t, s)
  <2>1. /\ UNCHANGED <<uxPriority, waiting, xMutexHolder, uxMessagesWaiting, cTxLock, state, pendingReady>>
        /\ step[t] \in {"suspend", "call"}
    BY <1>4, Zenon DEF SuspendAll, listVars, queueVars
  <2>2. PICK s \in {"suspended", "delay", "sbrk"} : Moves(t, s)
    BY <1>4
  <2>3. s \notin {"inherit", "insert"} /\ step[t] \notin {"inherit", "insert"}
    BY <2>1, <2>2
  <2> QED
    BY <1>1, <1>4, <2>1, <2>2, <2>3, CalmMove
<1>5. CASE LockQueue(t) /\ Moves(t, "locked") /\ pc' = pc
  <2>1. /\ UNCHANGED <<uxPriority, waiting, xMutexHolder, uxMessagesWaiting, state, pendingReady>>
        /\ cTxLock' = [cTxLock EXCEPT ![Call(t).arg] = IF @ = -1 THEN 0 ELSE @]
        /\ step[t] = "suspended"
    BY <1>5, Zenon DEF LockQueue, listVars
  <2>2. \A q \in Queues : cTxLock'[q] = cTxLock[q] \/ (cTxLock[q] = -1 /\ cTxLock'[q] = 0)
    BY <1>1, <2>1 DEF Base, ListInv
  <2>3. step[t] \notin {"inherit", "insert"}
    BY <2>1
  <2> QED
    BY <1>1, <1>5, <2>1, <2>2, <2>3, CalmMove
<1>6. CASE IsQueueEmpty(t) /\ pc' = pc /\ \E s \in {"unlock_retry", "inherit", "insert"} : Moves(t, s)
  <2>1. PICK s \in {"unlock_retry", "inherit", "insert"} : Moves(t, s)
    BY <1>6
  <2> DEFINE q == Call(t).arg
             r == IF uxMessagesWaiting[q] > 0 THEN "unlock_retry"
                  ELSE IF q \in Mutexes THEN "inherit" ELSE "insert"
  <2>2. /\ UNCHANGED <<uxPriority, waiting, xMutexHolder, uxMessagesWaiting, cTxLock, state, pendingReady>>
        /\ step' = [step EXCEPT ![t] = r] /\ step[t] = "locked"
    BY <1>6, Zenon DEF IsQueueEmpty, listVars, queueVars, Goto
  <2>3. s = r
    <3>1. step'[t] = s
      BY <1>1, <2>1, MoveFacts
    <3>2. step'[t] = r
      <4> HIDE DEF r
      <4> QED
        BY <1>1, <2>2 DEF PlaceInv
    <3> QED
      BY <3>1, <3>2
  <2>4. Call(t).op = "take" /\ q \in Queues
    BY <1>1, <1>a, <2>2, CallArgument DEF StepFits, TakeSteps, LockSteps
  <2>5. uxMessagesWaiting[q] \in Nat
    BY <1>1, <2>4, LengthFacts DEF Base, HolderInv
  <2>6. s \in {"inherit", "insert"} => uxMessagesWaiting[q] = 0 /\ (s = "insert" => q \notin Mutexes)
    BY <2>3, <2>5
  <2>7. step[t] \notin {"inherit", "insert"}
    BY <2>2
  <2> HIDE DEF r
  <2> QED
    BY <1>1, <1>6, <2>1, <2>2, <2>4, <2>6, <2>7, CalmMove
<1>7. CASE PriorityInherit(t) /\ Moves(t, "insert") /\ pc' = pc
  BY <1>1, <1>7, InheritKeepsUrgency
<1>8. CASE PlaceOnEventList(t) /\ Moves(t, "block") /\ pc' = pc
  BY <1>1, <1>8, PlaceOnListKeepsUrgency
<1>9. CASE BlockForEver(t) /\ Moves(t, "unlock") /\ pc' = pc
  <2>1. /\ UNCHANGED <<uxPriority, waiting, xMutexHolder, uxMessagesWaiting, cTxLock, pendingReady>>
        /\ step[t] = "block" /\ state' = [state EXCEPT ![t] = "suspended"]
    BY <1>9, Zenon DEF BlockForEver, queueVars
  <2>2. \A u \in Tasks : u # t => state'[u] = state[u]
    BY <1>1, <2>1, TickFacts DEF Base, TimeInv
  <2>3. step[t] \notin {"inherit", "insert"}
    BY <2>1
  <2> QED
    BY <1>1, <1>9, <2>1, <2>2, <2>3, CalmMove
<1>10. CASE UnlockQueue(t) /\ pc' = pc /\ \E s \in {"resume", "resume_retry"} : Moves(t, s)
  BY <1>1, <1>10, UnlockKeepsUrgency
<1>11. ASSUME ResumeAll, NEW s \in {"call", "yield"}, Moves(t, s), pc' = pc \/ Call(t).op # "take",
              step[t] \in {"resume", "resume_retry", "sbrk"}
       PROVE  Urgency'
  <2>1. /\ UNCHANGED <<uxPriority, waiting, xMutexHolder, uxMessagesWaiting, cTxLock>>
        /\ \A u \in Tasks : state[u] = "ready" \/ u \in Range(pendingReady) => state'[u] = "ready"
    BY <1>1, <1>11, ResumeReady
  <2>2. s \notin {"inherit", "insert"} /\ step[t] \notin {"inherit", "insert"}
    BY <1>11
  <2> QED
    BY <1>1, <1>11, <2>1, <2>2, CalmMove
<1>12. CASE Resume(t) /\ Moves(t, IF xYieldPending' THEN "call" ELSE "yield")
  <2>1. ResumeAll /\ step[t] = "resume" /\ (pc' = pc \/ Call(t).op = "delay")
    BY <1>12, Zenon DEF Resume
  <2>2. PICK s \in {"call", "yield"} : Moves(t, s)
    BY <1>12
  <2>3. pc' = pc \/ Call(t).op # "take"
    BY <2>1
  <2> QED
    BY <1>11, <2>1, <2>2, <2>3
<1>13. CASE ResumeRetry(t) /\ Moves(t, "call") /\ pc' = pc
  BY <1>11, <1>13 DEF ResumeRetry
<1>14. CASE SbrkDone(t) /\ Moves(t, "call")
  <2>1. ResumeAll /\ step[t] = "sbrk"
    BY <1>14, Zenon DEF SbrkDone
  <2>2. Call(t).op # "take"
    BY <1>a, <2>1 DEF StepFits
  <2> QED
    BY <1>11, <1>14, <2>1, <2>2
<1>15. CASE Yield(t) /\ Moves(t, "call")
  <2>1. /\ UNCHANGED <<uxPriority, waiting, xMutexHolder, uxMessagesWaiting, cTxLock, state, pendingReady>>
        /\ step[t] = "yield" /\ (pc' = pc \/ Call(t).op = "delay")
    BY <1>15, Zenon DEF Yield, listVars, queueVars
  <2>2. step[t] \notin {"inherit", "insert"} /\ (pc' = pc \/ Call(t).op # "take")
    BY <2>1
  <2> QED
    BY <1>1, <1>15, <2>1, <2>2, CalmMove
<1>16. CASE Give(t) /\ Moves(t, "call")
  BY <1>1, <1>16, GiveKeepsUrgency
<1>17. CASE AddCurrentTaskToDelayedList(t) /\ Moves(t, "resume") /\ pc' = pc
  <2>1. /\ UNCHANGED <<uxPriority, waiting, xMutexHolder, uxMessagesWaiting, cTxLock, pendingReady>>
        /\ step[t] = "delay" /\ \E x : state' = [state EXCEPT ![t] = x]
    BY <1>17, Zenon DEF AddCurrentTaskToDelayedList, queueVars
  <2>2. \A u \in Tasks : u # t => state'[u] = state[u]
    BY <1>1, <2>1, TickFacts DEF Base, TimeInv
  <2>3. step[t] \notin {"inherit", "insert"} /\ Call(t).op # "take"
    BY <1>a, <2>1 DEF StepFits
  <2> QED
    BY <1>1, <1>17, <2>1, <2>2, <2>3, CalmMove
<1> QED
  BY <1>2, <1>3, <1>4, <1>5, <1>6, <1>7, <1>8, <1>9, <1>10, <1>12, <1>13, <1>14, <1>15, <1>16, <1>17, Zenon
     DEF Goes

(* No task becomes ready. *)
LEMMA StaysHighest ==
  ASSUME HighestInv, NEW t \in Tasks, t = pxCurrentTCB, ~pendsv, step[t] # "yield",
         UNCHANGED <<pxCurrentTCB, uxPriority>>, xYieldPending => xYieldPending',
         uxSchedulerSuspended = 1 => uxSchedulerSuspended' = 1,
         \A u \in All : state'[u] = "ready" => state[u] = "ready"
  PROVE  HighestInv'
  BY DEF HighestInv, ReadyTasks

(* xTaskPriorityInherit raises the holder to the running task's priority. *)
LEMMA InheritKeepsHighest ==
  ASSUME HighestInv, Base, NEW t \in Tasks, t = pxCurrentTCB, ~pendsv, PriorityInherit(t)
  PROVE  HighestInv'
<1> DEFINE h == xMutexHolder[Call(t).arg]
<1>1. /\ step[t] = "inherit"
      /\ uxPriority' = IF h # NoTask /\ uxPriority[h] < uxPriority[t]
                       THEN [uxPriority EXCEPT ![h] = uxPriority[t]] ELSE uxPriority
      /\ UNCHANGED <<pxCurrentTCB, xYieldPending, uxSchedulerSuspended, state>>
  BY Zenon DEF PriorityInherit, listVars
<1>2. step[t] # "yield"
  BY <1>1
<1>3. uxPriority \in [All -> Nat] /\ t \in All
  BY ConstantFacts DEF Base, HolderInv
<1> HIDE DEF h
<1>4. uxPriority'[t] = uxPriority[t] /\ \A u \in All : uxPriority'[u] \in {uxPriority[u], uxPriority[t]}
  BY <1>1, <1>3
<1>5. CASE uxSchedulerSuspended = 1 /\ xYieldPending
  BY <1>1, <1>5, Zenon DEF HighestInv
<1>6. CASE \A u \in ReadyTasks : uxPriority[u] <= uxPriority[t]
  <2>1. \A u \in All : state[u] = "ready" => uxPriority'[u] <= uxPriority'[t]
    BY <1>3, <1>4, <1>6 DEF ReadyTasks
  <2> QED
    BY <1>1, <2>1, Zenon DEF HighestInv, ReadyTasks
<1> QED
  BY <1>2, <1>5, <1>6 DEF HighestInv

(* Giving a mutex back: a task that gives up an inherited priority wakes the *)
(* task it has it from, or one as urgent.                                    *)
LEMMA GiveKeepsHighest ==
  ASSUME NumberFacts, Inv, NEW t \in Tasks, t = pxCurrentTCB, ~pendsv, Give(t)
  PROVE  HighestInv'
<1>0. Base /\ HeldInv /\ Urgency /\ HighestInv /\ PlaceInv
  BY DEF Inv, Base
<1> DEFINE m == Call(t).arg
           prio == PriorityDisinherit(t, m)
<1>1. /\ step[t] = "call" /\ Call(t).op = "give" /\ xMutexHolder[m] = t
      /\ uxPriority' = prio /\ RemoveFromEventList(m)
      /\ pendsv' = (pendsv \/ Outranks(m, prio) \/ (Woken(m) = <<>> /\ prio # uxPriority))
      /\ UNCHANGED pxCurrentTCB
  BY Zenon DEF Give
<1>2. m \in Mutexes /\ m \in Queues
  BY <1>0, <1>1, CallArgument, ConstantFacts
<1>3. /\ uxSchedulerSuspended = 0
      /\ \A u \in Tasks : state[u] = "ready" => uxPriority[u] <= uxPriority[t]
      /\ \A u \in Tasks : step[u] \notin {"inherit", "insert"}
  BY <1>0, <1>1, MostUrgent
<1>4. \A n \in Mutexes : xMutexHolder[n] = t => n = m
  BY <1>0, <1>1, <1>2, MutexUse
<1>5. prio = [uxPriority EXCEPT ![t] = Priority[t]]
  BY <1>4 DEF PriorityDisinherit
<1>6. uxPriority \in [All -> Nat] /\ t \in All /\ Priority[t] \in Nat
  BY <1>0, ConstantFacts DEF Base, HolderInv
<1>7. /\ state' = [u \in All |-> IF u \in Range(Woken(m)) THEN "ready" ELSE state[u]]
      /\ Range(Woken(m)) \subseteq Range(waiting[m])
      /\ Range(waiting'[m]) = Range(waiting[m]) \ Range(Woken(m))
      /\ \A w \in Range(waiting'[m]) : \E h \in Tasks :
              Range(Woken(m)) = {h} /\ uxPriority[h] >= uxPriority[w]
  <2>1. OrderInv
    BY <1>0 DEF Urgency
  <2> HIDE DEF m, prio
  <2> QED
    BY <1>0, <1>1, <1>2, <1>3, <2>1, RemoveEffects, RemoveSorted
<1> HIDE DEF m, prio
<1> SUFFICES ASSUME ~pendsv' PROVE HighestInv'
  BY Zenon DEF HighestInv
<1>8. /\ \A u \in Range(Woken(m)) : ~(prio[u] > prio[t])
      /\ Woken(m) = <<>> => prio = uxPriority
  BY <1>1, Zenon DEF Outranks
<1>a. Range(waiting[m]) \subseteq Tasks
  BY <1>0, <1>2, RangeOf DEF Base, ListInv
<1>b. \A u \in Range(Woken(m)) : u \in All /\ u # t /\ prio[u] = uxPriority[u]
  BY <1>0, <1>1, <1>2, <1>5, <1>6, <1>7, <1>a, MostUrgent, ConstantFacts
<1>9. prio[t] = uxPriority[t]
  <2> SUFFICES ASSUME uxPriority[t] # Priority[t] PROVE FALSE
    BY <1>5, <1>6
  <2>1. PICK n \in Mutexes, u \in Tasks :
           xMutexHolder[n] = t /\ Waits(u, n) /\ uxPriority[u] = uxPriority[t]
    BY <1>0 DEF Urgency, RaisedInv
  <2>2. uxPriority[t] > Priority[t]
    BY <1>0, <1>6 DEF Urgency, RaisedInv
  <2>3. n = m /\ u \in Range(waiting[m])
    BY <1>3, <1>4, <2>1 DEF Waits
  <2>4. PICK h \in Range(Woken(m)) : uxPriority[h] >= uxPriority[u]
    <3>1. CASE u \in Range(Woken(m))
      BY <1>6, <3>1, <2>3, <1>a, ConstantFacts
    <3>2. CASE u \notin Range(Woken(m))
      BY <1>7, <2>3, <3>2
    <3> QED
      BY <3>1, <3>2
  <2>5. prio[h] = uxPriority[h] /\ h \in All
    BY <1>b, <2>4
  <2>6. prio[t] = Priority[t]
    BY <1>5, <1>6
  <2> QED
    BY <1>6, <1>8, <2>1, <2>2, <2>4, <2>5, <2>6, ConstantFacts
<1>c. \A u \in All : state'[u] = "ready" => uxPriority'[u] <= uxPriority'[t]
  <2> SUFFICES ASSUME NEW u \in All, state'[u] = "ready" PROVE prio[u] <= prio[t]
    BY <1>1
  <2>1. prio[u] \in Nat /\ prio[t] \in Nat /\ (u # t => prio[u] = uxPriority[u])
    BY <1>5, <1>6
  <2>2. CASE u \in Range(Woken(m))
    BY <1>8, <2>1, <2>2
  <2>3. CASE u \notin Range(Woken(m))
    <3>1. state[u] = "ready"
      BY <1>7, <2>3
    <3>2. uxPriority[u] <= uxPriority[t]
      <4>1. step[t] # "yield"
        BY <1>1
      <4> QED
        BY <1>0, <1>3, <3>1, <4>1 DEF HighestInv, ReadyTasks
    <3> QED
      BY <1>6, <1>9, <2>1, <3>2
  <2> QED
    BY <2>2, <2>3
<1> QED
  BY <1>1, <1>c, Zenon DEF HighestInv, ReadyTasks

(* Each of a task's steps keeps the most urgent task running. *)
LEMMA TaskKeepsHighest ==
  ASSUME NumberFacts, Inv, NEW t \in Tasks, t = pxCurrentTCB, ~pendsv, TaskStep(t)
  PROVE  HighestInv'
<1>1. Base /\ HighestInv /\ Tasks \subseteq All
  BY ConstantFacts DEF Inv
<1>a. state \in [All -> Lists] /\ uxPriority \in [All -> Nat]
  BY <1>1 DEF Base, TimeInv, HolderInv
<1>2. CASE Take(t) \/ SuspendAll(t) \/ LockQueue(t) \/ IsQueueEmpty(t) \/ PlaceOnEventList(t)
           \/ UnlockQueue(t)
  <2>1. UNCHANGED <<pxCurrentTCB, uxPriority, state>>
    BY <1>2, Zenon DEF Take, SuspendAll, LockQueue, IsQueueEmpty, PlaceOnEventList, UnlockQueue,
                       listVars
  <2>2. xYieldPending => xYieldPending'
    BY <1>2, Zenon DEF Take, SuspendAll, LockQueue, IsQueueEmpty, PlaceOnEventList, UnlockQueue
  <2>3. uxSchedulerSuspended = 1 => uxSchedulerSuspended' = 1
    BY <1>2, Zenon DEF Take, SuspendAll, LockQueue, IsQueueEmpty, PlaceOnEventList, UnlockQueue
  <2>4. step[t] \in {"call", "suspend", "suspended", "locked", "insert", "unlock", "unlock_retry"}
    BY <1>2, Zenon DEF Take, SuspendAll, LockQueue, IsQueueEmpty, PlaceOnEventList, UnlockQueue
  <2>5. step[t] # "yield"
    BY <2>4
  <2> QED
    BY <1>1, <2>1, <2>2, <2>3, <2>5, StaysHighest
<1>3. CASE BlockForEver(t) \/ AddCurrentTaskToDelayedList(t)
  <2>1. /\ UNCHANGED <<pxCurrentTCB, uxPriority, xYieldPending, uxSchedulerSuspended>>
        /\ \E x \in {"suspended", "delayed", "overflow"} : state' = [state EXCEPT ![t] = x]
        /\ step[t] \in {"block", "delay"}
    BY <1>3, Zenon DEF BlockForEver, AddCurrentTaskToDelayedList
  <2>2. step[t] # "yield"
    BY <2>1
  <2>3. \A u \in All : state'[u] = "ready" => state[u] = "ready"
    BY <1>1, <1>a, <2>1
  <2> QED
    BY <1>1, <2>1, <2>2, <2>3, StaysHighest
<1>4. CASE PriorityInherit(t)
  BY <1>1, <1>4, InheritKeepsHighest
<1>5. CASE Resume(t) \/ ResumeRetry(t) \/ SbrkDone(t)
  <2>1. ResumeAll /\ step[t] \in {"resume", "resume_retry", "sbrk"}
    BY <1>5, Zenon DEF Resume, ResumeRetry, SbrkDone
  <2>2. /\ pendsv' = (pendsv \/ xYieldPending')
        /\ (xYieldPending => xYieldPending')
        /\ ~xYieldPending' => \A u \in All : state'[u] = "ready" /\ state[u] # "ready" =>
                                 uxPriority[u] <= uxPriority[pxCurrentTCB]
        /\ UNCHANGED <<uxPriority, pxCurrentTCB>>
    BY <1>1, <2>1, ResumeReady
  <2>3. CASE xYieldPending'
    BY <2>2, <2>3, Zenon DEF HighestInv
  <2>4. CASE ~xYieldPending'
    <3>1. step[t] # "yield"
      BY <2>1
    <3>2. \A u \in All : state[u] = "ready" => uxPriority[u] <= uxPriority[t]
      BY <1>1, <2>2, <2>4, <3>1 DEF HighestInv, ReadyTasks
    <3> QED
      BY <2>2, <2>4, <3>2, Zenon DEF HighestInv, ReadyTasks
  <2> QED
    BY <2>3, <2>4
<1>6. CASE Yield(t)
  BY <1>6, Zenon DEF Yield, HighestInv
<1>7. CASE Give(t)
  BY <1>7, GiveKeepsHighest
<1> QED
  BY <1>2, <1>3, <1>4, <1>5, <1>6, <1>7, Zenon DEF TaskStep

(* Interrupts and the context switch keep it. *)
LEMMA InterruptKeepsHighest ==
  ASSUME NumberFacts, Inv,
         Tick \/ SwitchContext \/ (\E q \in Queues : GiveFromISR(q)) \/ UNCHANGED vars
  PROVE  HighestInv'
<1>0. Base /\ HighestInv
  BY DEF Inv
<1>a. RunOK /\ TimeInv /\ xYieldPending \in BOOLEAN /\ uxSchedulerSuspended \in {0, 1}
  BY <1>0, PendingTasks DEF Base, SchedInv, ListInv
<1>b. uxPriority \in [All -> Nat] /\ pxCurrentTCB \in All
  BY <1>0 DEF Base, HolderInv, SchedInv
<1>1. ASSUME UNCHANGED <<step, pxCurrentTCB, uxPriority, uxSchedulerSuspended>>,
             pendsv => pendsv', xYieldPending => xYieldPending',
             ~pendsv' => \A u \in All : state'[u] = "ready" /\ state[u] # "ready" =>
                            uxPriority[u] <= uxPriority[pxCurrentTCB]
      PROVE  HighestInv'
  <2>1. CASE \/ pendsv \/ (uxSchedulerSuspended = 1 /\ xYieldPending)
             \/ pxCurrentTCB \in Tasks /\ step[pxCurrentTCB] = "yield"
    BY <1>1, <2>1, Zenon DEF HighestInv
  <2>2. CASE \A u \in ReadyTasks : uxPriority[u] <= uxPriority[pxCurrentTCB]
    <3>1. ~pendsv' => \A u \in All : state'[u] = "ready" => uxPriority[u] <= uxPriority[pxCurrentTCB]
      BY <1>1, <2>2 DEF ReadyTasks
    <3> QED
      BY <1>1, <3>1, Zenon DEF HighestInv, ReadyTasks
  <2> QED
    BY <1>0, <2>1, <2>2, Zenon DEF HighestInv
<1>2. CASE Tick
  <2>1. UNCHANGED <<step, pxCurrentTCB, uxPriority, uxSchedulerSuspended, xYieldPending>>
    BY <1>2, Zenon DEF Tick, taskVars
  <2>2. CASE uxSchedulerSuspended # 0
    <3>1. UNCHANGED <<state, pendsv>>
      BY <1>2, <2>2, Zenon DEF Tick
    <3> QED
      BY <1>1, <2>1, <3>1, Zenon
  <2>3. CASE uxSchedulerSuspended = 0
    <3>1. \E z : Later(state, xYieldPending, state', z) /\ pendsv' = (pendsv \/ z)
      BY <1>2, <1>a, <2>3, TickEffects
    <3>2. PICK z : Later(state, xYieldPending, state', z) /\ pendsv' = (pendsv \/ z)
      BY <3>1
    <3>3. pendsv => pendsv'
      BY <3>2
    <3>4. ~pendsv' => \A u \in All : state'[u] = "ready" /\ state[u] # "ready" =>
                            uxPriority[u] <= uxPriority[pxCurrentTCB]
      BY <3>2 DEF Later
    <3> QED
      BY <1>1, <2>1, <3>3, <3>4, Zenon
  <2> QED
    BY <2>2, <2>3
<1>3. CASE SwitchContext
  <2>1. UNCHANGED <<state, step, uxPriority, uxSchedulerSuspended>>
    BY <1>3, Zenon DEF SwitchContext, taskVars, listVars
  <2>2. CASE uxSchedulerSuspended # 0
    <3>1. uxSchedulerSuspended' = 1 /\ xYieldPending'
      BY <1>3, <1>a, <2>1, <2>2 DEF SwitchContext
    <3> QED
      BY <3>1, Zenon DEF HighestInv
  <2>3. CASE uxSchedulerSuspended = 0
    <3>1. \A u \in ReadyTasks : uxPriority[u] <= uxPriority[pxCurrentTCB']
      BY <1>3, <2>3, Zenon DEF SwitchContext
    <3> QED
      BY <2>1, <3>1, Zenon DEF HighestInv, ReadyTasks
  <2> QED
    BY <2>2, <2>3
<1>4. ASSUME NEW q \in Queues, GiveFromISR(q) PROVE HighestInv'
  <2>1. UNCHANGED <<step, pxCurrentTCB, uxPriority, uxSchedulerSuspended>>
    BY <1>4, Zenon DEF GiveFromISR, taskVars
  <2>2. CASE pendsv' \in {pendsv, TRUE} /\ UNCHANGED <<state, xYieldPending>>
    <3>1. pendsv => pendsv'
      BY <2>2
    <3> QED
      BY <1>1, <2>1, <2>2, <3>1, Zenon
  <2>3. CASE /\ RemoveFromEventList(q)
             /\ xYieldPending' = (xYieldPending \/ Outranks(q, uxPriority))
             /\ pendsv' \in {pendsv \/ Outranks(q, uxPriority), TRUE}
    <3>1. (pendsv => pendsv') /\ (xYieldPending => xYieldPending') /\ (Outranks(q, uxPriority) => pendsv')
      BY <2>3, Zenon
    <3>2. ASSUME ~pendsv', NEW u \in All, state'[u] = "ready", state[u] # "ready"
          PROVE  uxPriority[u] <= uxPriority[pxCurrentTCB]
      <4>1. u \in Range(Woken(q))
        <5>1. uxSchedulerSuspended = 0 =>
                state' = [v \in All |-> IF v \in Range(Woken(q)) THEN "ready" ELSE state[v]]
          BY <2>3, Zenon DEF RemoveFromEventList
        <5>2. uxSchedulerSuspended # 0 => state' = state
          BY <2>3, Zenon DEF RemoveFromEventList
        <5> QED
          BY <3>2, <5>1, <5>2
      <4>2. ~(uxPriority[u] > uxPriority[pxCurrentTCB])
        BY <3>1, <3>2, <4>1, Zenon DEF Outranks
      <4> QED
        BY <1>b, <4>2
    <3> QED
      BY <1>1, <2>1, <3>1, <3>2, Zenon
  <2> QED
    BY <1>4, <2>2, <2>3, Zenon DEF GiveFromISR
<1>5. CASE UNCHANGED vars
  BY <1>0, <1>5, Zenon DEF HighestInv, ReadyTasks, vars, taskVars, listVars
<1> QED
  BY <1>2, <1>3, <1>4, <1>5

(* The mutexes held are those the program says. *)
LEMMA TaskKeepsHeld ==
  ASSUME Inv, NEW t \in Tasks, TaskStep(t)
  PROVE  HeldInv'
<1>0. PlaceInv /\ HolderInv /\ HeldInv
  BY DEF Inv, Base
<1>a. StepFits(Call(t), step[t])
  BY <1>0 DEF PlaceInv
<1>1. CASE Take(t)
  <2>1. \/ UNCHANGED <<pc, xMutexHolder>>
        \/ /\ pc' = Next1(t) /\ Call(t).op = "take" /\ uxMessagesWaiting[Call(t).arg] > 0
           /\ xMutexHolder' = IF Call(t).arg \in Mutexes THEN [xMutexHolder EXCEPT ![Call(t).arg] = t]
                              ELSE xMutexHolder
    BY <1>1, Zenon DEF Take
  <2> QED
    BY <1>0, <2>1, HeldKept, Zenon
<1>2. CASE Give(t)
  <2>1. /\ pc' = Next1(t) /\ Call(t).op = "give" /\ xMutexHolder[Call(t).arg] = t
        /\ xMutexHolder' = [xMutexHolder EXCEPT ![Call(t).arg] = NoTask]
    BY <1>2, Zenon DEF Give
  <2> QED
    BY <1>0, <2>1, HeldKept, Zenon
<1>3. CASE \/ SuspendAll(t) \/ LockQueue(t) \/ IsQueueEmpty(t) \/ PriorityInherit(t)
           \/ PlaceOnEventList(t) \/ BlockForEver(t) \/ UnlockQueue(t) \/ ResumeRetry(t)
           \/ AddCurrentTaskToDelayedList(t)
  <2>1. UNCHANGED <<pc, xMutexHolder>>
    BY <1>3, Zenon DEF SuspendAll, LockQueue, IsQueueEmpty, PriorityInherit, PlaceOnEventList,
       BlockForEver, UnlockQueue, ResumeRetry, ResumeAll, AddCurrentTaskToDelayedList, queueVars
  <2> QED
    BY <1>0, <2>1, HeldKept, Zenon
<1>4. CASE Resume(t) \/ Yield(t) \/ SbrkDone(t)
  <2>1. /\ xMutexHolder' = xMutexHolder /\ pc' \in {pc, Next1(t)}
        /\ pc' = pc \/ Call(t).op = "delay" \/ step[t] = "sbrk"
    BY <1>4, Zenon DEF Resume, Yield, SbrkDone, ResumeAll, queueVars
  <2>2. step[t] = "sbrk" => Call(t).op = "sbrk"
    BY <1>a DEF StepFits
  <2> QED
    BY <1>0, <2>1, <2>2, HeldKept, Zenon
<1> QED
  BY <1>1, <1>2, <1>3, <1>4, Zenon DEF TaskStep

(* The invariant is inductive. *)
LEMMA NextKeepsInv ==
  ASSUME NumberFacts, Inv, [Next]_vars
  PROVE  Inv'
<1>0. Base /\ HeldInv /\ Urgency /\ HighestInv /\ PlaceInv
  BY DEF Inv, Base
<1>1. Base'
  BY <1>0, NextKeepsBase
<1>2. CASE Run
  <2>1. PICK t \in Tasks : t = pxCurrentTCB /\ ~pendsv /\ TaskStep(t)
    BY <1>2 DEF Run
  <2>2. Goes(t)
    BY <1>0, <2>1, TaskGoes
  <2>3. HeldInv'
    BY <2>1, TaskKeepsHeld
  <2>4. Urgency'
    BY <2>1, <2>2, TaskKeepsUrgency
  <2>5. HighestInv'
    BY <2>1, TaskKeepsHighest, Zenon
  <2> QED
    BY <1>1, <2>3, <2>4, <2>5, Zenon DEF Inv
<1>3. ASSUME UNCHANGED <<pc, xMutexHolder>> PROVE HeldInv'
  <2> SUFFICES ASSUME NEW t \in Tasks, NEW m \in Mutexes
               PROVE  xMutexHolder'[m] = t <=> m \in Held(t, pc'[t])
    BY Zenon DEF HeldInv, Held
  <2> QED
    BY <1>0, <1>3, Zenon DEF HeldInv
<1>4. CASE Tick
  <2>1. /\ UNCHANGED <<pc, step, uxPriority, waiting, xMutexHolder, uxMessagesWaiting, cTxLock, pendingReady>>
    BY <1>4, Zenon DEF Tick, taskVars, queueVars
  <2>2. \A u \in Tasks : state[u] = "ready" => state'[u] = "ready"
    <3>1. CASE uxSchedulerSuspended # 0
      BY <1>4, <3>1, Zenon DEF Tick
    <3>2. CASE uxSchedulerSuspended = 0
      <4>1. RunOK /\ TimeInv /\ xYieldPending \in BOOLEAN
        BY <1>0, PendingTasks DEF Base, ListInv
      <4>2. \E z : Later(state, xYieldPending, state', z)
        BY <1>4, <3>2, <4>1, TickEffects
      <4> QED
        BY <4>2, ConstantFacts DEF Later
    <3> QED
      BY <3>1, <3>2
  <2>3. Urgency'
    BY <1>0, <2>1, <2>2, CalmInterrupt
  <2>4. HeldInv' /\ HighestInv'
    BY <1>3, <1>4, <2>1, InterruptKeepsHighest, Zenon
  <2> QED
    BY <1>1, <2>3, <2>4, Zenon DEF Inv
<1>5. CASE SwitchContext \/ UNCHANGED vars
  <2>1. /\ UNCHANGED <<pc, step, uxPriority, waiting, xMutexHolder, uxMessagesWaiting, cTxLock, pendingReady, state>>
    BY <1>5, Zenon DEF SwitchContext, vars, taskVars, listVars, queueVars
  <2>2. Urgency'
    BY <1>0, <2>1, CalmInterrupt
  <2>3. HeldInv' /\ HighestInv'
    BY <1>3, <1>5, <2>1, InterruptKeepsHighest, Zenon
  <2> QED
    BY <1>1, <2>2, <2>3, Zenon DEF Inv
<1>6. ASSUME NEW q \in Queues, GiveFromISR(q) PROVE Inv'
  <2>1. UNCHANGED <<pc, xMutexHolder>>
    BY <1>6, Zenon DEF GiveFromISR, taskVars
  <2>2. Urgency'
    BY <1>0, <1>6, ISRKeepsUrgency
  <2>3. HeldInv' /\ HighestInv'
    BY <1>3, <1>6, <2>1, InterruptKeepsHighest, Zenon
  <2> QED
    BY <1>1, <2>2, <2>3, Zenon DEF Inv
<1> QED
  BY <1>2, <1>4, <1>5, <1>6, Zenon DEF Next

(* What it says of the scheduler, of priorities and of wake-ups. *)
LEMMA InvHighest == Inv => HighestRuns
<1> SUFFICES ASSUME Inv PROVE HighestRuns
  OBVIOUS
<1>1. HighestInv /\ SchedInv
  BY DEF Inv, Base
<1> QED
  BY <1>1 DEF HighestInv, SchedInv, HighestRuns, ReadyTasks

(* A waiter lends its priority to the holder. *)
LEMMA InvInherits == Inv => InheritsPriority
  BY DEF Inv, Urgency, InheritInv, InheritsPriority, Waits

(* Some task is on its way to take an item that is there: the most urgent *)
(* waiter counts at least one task ahead of it.                           *)
LEMMA InvWakeup ==
  ASSUME NumberFacts, Inv
  PROVE  NoLostWakeup
<1>0. Base /\ Urgency /\ PlaceInv
  BY DEF Inv, Base
<1> SUFFICES ASSUME NEW q \in Queues, waiting[q] # <<>>, uxMessagesWaiting[q] > 0, ~(cTxLock[q] > 0)
             PROVE  \E t \in Tasks \ Range(waiting[q]) :
                      /\ Call(t) = [op |-> "take", arg |-> q]
                      /\ state[t] = "ready" \/ t \in Range(pendingReady)
                      /\ \A u \in Range(waiting[q]) : uxPriority[u] <= uxPriority[t]
  BY DEF NoLostWakeup
<1>1. waiting[q] \in Seq(Tasks) /\ Sorted(waiting[q]) /\ uxPriority \in [All -> Nat] /\ Tasks \subseteq All
  BY <1>0, ConstantFacts DEF Base, ListInv, HolderInv, Urgency, OrderInv
<1>2. PICK w \in Tasks : w \in Range(waiting[q]) /\ \A u \in Range(waiting[q]) : uxPriority[u] <= uxPriority[w]
  <2> DEFINE s == waiting[q]
  <2>1. s \in Seq(Tasks) /\ s # <<>> /\ Sorted(s)
    BY <1>1
  <2> HIDE DEF s
  <2>2. Len(s) \in Nat /\ Len(s) >= 1 /\ \A i \in 1 .. Len(s) : s[i] \in Tasks
    BY <2>1
  <2>3. \A v : v \in Range(s) <=> \E i \in 1 .. Len(s) : s[i] = v
    BY <2>1, RangeOf, Zenon
  <2>4. s[1] \in Tasks /\ s[1] \in Range(s) /\ \A i \in 1 .. Len(s) : uxPriority[s[i]] <= uxPriority[s[1]]
    <3>1. \A i \in 1 .. Len(s) : uxPriority[s[i]] \in Nat
      BY <1>1, <2>2
    <3> QED
      BY <2>1, <2>2, <2>3, <3>1 DEF Sorted
  <2>5. \E w \in Tasks : w \in Range(s) /\ \A u \in Range(s) : uxPriority[u] <= uxPriority[w]
    BY <2>3, <2>4
  <2> QED
    BY <2>5 DEF s
<1>3. Wants(w, q)
  BY <1>2 DEF Wants, Waits
<1>4. Served(q, w)
  BY <1>0, <1>3 DEF Urgency, WakeInv
<1>5. cTxLock[q] \in Int /\ uxMessagesWaiting[q] \in Int
  BY <1>0 DEF Base, ListInv, HolderInv
<1>6. Cardinality(All) \in Nat /\ Cardinality(All) >= 1
  BY AllFinite
<1>7. Ahead(q, w) \in SUBSET Tasks
  BY DEF Ahead, Awake
<1>8. Cardinality(Ahead(q, w)) \in Nat
  BY <1>7, Zenon DEF NumberFacts
<1>9. Cardinality(Ahead(q, w)) >= 1
  <2>1. uxMessagesWaiting[q] <= Cardinality(Ahead(q, w)) + 0
    BY <1>4, <1>5, <1>6 DEF Served, Posted
  <2> QED
    BY <1>5, <1>8, <2>1
<1>10. Ahead(q, w) # {}
  <2>1. Cardinality({}) = 0
    BY DEF NumberFacts
  <2>2. Cardinality(Ahead(q, w)) # 0
    BY <1>8, <1>9
  <2> QED
    BY <2>1, <2>2
<1>11. PICK t \in Ahead(q, w) : TRUE
  BY <1>10
<1>12. /\ t \in Tasks /\ Takes(t, q) /\ t \notin Range(waiting[q])
       /\ state[t] = "ready" \/ t \in Range(pendingReady)
       /\ uxPriority[t] >= uxPriority[w]
  BY DEF Ahead, Awake
<1>13. Call(t) = [op |-> "take", arg |-> q]
  BY <1>0, <1>12, CallArgument DEF Takes
<1>14. \A u \in Range(waiting[q]) : uxPriority[u] <= uxPriority[t]
  <2>1. Range(waiting[q]) \subseteq Tasks
    BY <1>1, RangeOf
  <2> QED
    BY <1>1, <1>2, <1>12, <2>1
<1> QED
  BY <1>12, <1>13, <1>14

-----------------------------------------------------------------------------
(* The theorems *)

INSTANCE WellFoundedInduction
INSTANCE FiniteSetTheorems

(* The facts about numbers and finite sets hold. *)
LEMMA NumbersHold == NumberFacts
<1>0. IsFiniteSet(Tasks) /\ Idle \notin Tasks
  BY KernelAssumption
<1>1. \A T \in SUBSET Nat : T # {} => \E x \in T : \A y \in T : x <= y
  <2> SUFFICES ASSUME NEW T \in SUBSET Nat, T # {} PROVE \E x \in T : \A y \in T : x <= y
    OBVIOUS
  <2>1. PICK x \in T : \A y \in T : ~(<<y, x>> \in OpToRel(<, Nat))
    BY NatLessThanWellFounded, WFMin
  <2>2. \A y \in T : ~(y < x)
    BY <2>1 DEF OpToRel
  <2> QED
    BY <2>2
<1>2. \A S \in SUBSET Tasks : IsFiniteSet(S) /\ Cardinality(S) \in Nat
  BY <1>0, FS_Subset, FS_CardinalityType
<1>3. \A S \in SUBSET Tasks : \A R \in SUBSET S : Cardinality(R) <= Cardinality(S)
  BY <1>2, FS_Subset
<1>4. \A S, R \in SUBSET Tasks :
        S \intersect R = {} => Cardinality(S \union R) = Cardinality(S) + Cardinality(R)
  <2> SUFFICES ASSUME NEW S \in SUBSET Tasks, NEW R \in SUBSET Tasks, S \intersect R = {}
               PROVE  Cardinality(S \union R) = Cardinality(S) + Cardinality(R)
    OBVIOUS
  <2>1. Cardinality(S \union R) = Cardinality(S) + Cardinality(R) - Cardinality(S \intersect R)
    BY <1>2, FS_Union
  <2>2. Cardinality(S \intersect R) = 0
    BY FS_EmptySet
  <2>3. Cardinality(S) \in Nat /\ Cardinality(R) \in Nat
    BY <1>2
  <2> QED
    BY <2>1, <2>2, <2>3
<1>5. \A s \in Seq(Tasks) : IsInjective(s) => Cardinality(Range(s)) = Len(s)
  <2> SUFFICES ASSUME NEW s \in Seq(Tasks), IsInjective(s) PROVE Cardinality(Range(s)) = Len(s)
    OBVIOUS
  <2> DEFINE n == Len(s)
  <2>1. n \in Nat /\ DOMAIN s = 1 .. n /\ s \in [1 .. n -> Tasks]
    OBVIOUS
  <2>2. s \in Bijection(1 .. n, Range(s))
    BY <2>1 DEF IsInjective, Range, Bijection, Injection, Surjection, IsInjective
  <2>3. ExistsBijection(1 .. n, Range(s))
    BY <2>2 DEF ExistsBijection
  <2>4. IsFiniteSet(1 .. n) /\ Cardinality(1 .. n) = n
    BY <2>1, FS_Interval
  <2> QED
    BY <2>3, <2>4, FS_Bijection
<1>6. (\A x \in Tasks : Cardinality({x}) = 1) /\ Cardinality({}) = 0
  BY FS_Singleton, FS_EmptySet
<1>7. Cardinality(All) = Cardinality(Tasks) + 1
  BY <1>0, FS_AddElement DEF All
<1> QED
  BY <1>1, <1>2, <1>3, <1>4, <1>5, <1>6, <1>7 DEF NumberFacts

(* Tasks, lists, locks, times and flags agree in every state the kernel can *)
(* reach, for any programs, however they nest their mutexes.                *)
THEOREM BaseInvariance == SafeSpec => []Base
<1>1. Init => Base
  BY InitBase, NumbersHold
<1>2. Base /\ [Next]_vars => Base'
  BY NextKeepsBase, NumbersHold
<1> QED
  BY <1>1, <1>2, PTL DEF SafeSpec

(* The whole invariant does too, for programs that use mutexes as the *)
(* drivers do (ProgramAssumption).                                    *)
THEOREM Invariance == SafeSpec => []Inv
<1>1. Init => Inv
  BY InitInv, NumbersHold
<1>2. Inv /\ [Next]_vars => Inv'
  BY NextKeepsInv, NumbersHold
<1> QED
  BY <1>1, <1>2, PTL DEF SafeSpec

(* Queues never hold more than their length, lock counts stay within what *)
(* prvUnlockQueue expects, and every variable keeps its type, for any     *)
(* tasks, programs, queues and width of the tick count.                   *)
THEOREM KernelTypes == SafeSpec => []TypeOK
  BY BaseTypes, BaseInvariance, PTL

(* vTaskDelay(n) sleeps through exactly n ticks, and the delayed list is *)
(* empty when taskSWITCH_DELAYED_LISTS swaps the lists, whatever else    *)
(* happens and wherever the tick count wraps.                            *)
THEOREM Delays == SafeSpec => []DelaysExact
  BY BaseTypes, BaseInvariance, PTL

(* Only a task that holds a mutex runs at another priority than its own: *)
(* xTaskPriorityDisinherit gives back what xTaskPriorityInherit lent,    *)
(* however programs nest their mutexes.                                  *)
THEOREM PrioritiesReturned == SafeSpec => []OnlyHoldersRaised
<1>1. Base => OnlyHoldersRaised
  BY Zenon DEF Base, HolderInv
<1> QED
  BY <1>1, BaseInvariance, PTL

(* The running task is one of the most urgent ready tasks, or a switch is   *)
(* pended, or the scheduler is suspended, or the task is about to yield: no *)
(* path through xTaskRemoveFromEventList, prvUnlockQueue, xTaskResumeAll,   *)
(* xTaskIncrementTick or a mutex given back forgets to ask for a switch.    *)
THEOREM Scheduling == SafeSpec => []HighestRuns
  BY InvHighest, Invariance, PTL

(* The holder of a mutex runs at the priority of every waiter or above. *)
THEOREM Inheritance == SafeSpec => []InheritsPriority
  BY InvInherits, Invariance, PTL

(* A task never waits for an item that is there with nobody on the way to  *)
(* take it: no interleaving of the two critical sections of a take with    *)
(* xQueueGiveFromISR, the queue locks and the scheduler's suspension loses *)
(* a wake-up.                                                              *)
THEOREM Wakeups == SafeSpec => []NoLostWakeup
<1>1. Inv => NoLostWakeup
  BY InvWakeup, NumbersHold
<1> QED
  BY <1>1, Invariance, PTL
=============================================================================

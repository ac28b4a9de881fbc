------------------------------ MODULE MCKernel ------------------------------
(* Three tasks with the calls the firmware's tasks make: a low one that     *)
(* writes to the terminal (lock, wait for the transmit interrupt, unlock)   *)
(* and sleeps, a middle one that receives from a queue an interrupt fills,  *)
(* allocates and takes the lock, and an urgent one that takes the lock and  *)
(* sleeps.                                                                  *)
EXTENDS Kernel

MCPriority == [idle |-> 0, low |-> 1, recv |-> 2, high |-> 3]

Op(o, a) == [op |-> o, arg |-> a]

MCProgram ==
  [low  |-> <<Op("take", "lock"), Op("take", "sem"), Op("give", "lock"), Op("delay", 1)>>,
   recv |-> <<Op("take", "queue"), Op("sbrk", 0), Op("take", "lock"), Op("give", "lock")>>,
   high |-> <<Op("take", "lock"), Op("give", "lock"), Op("delay", 2)>>]

MCLength == [lock |-> 1, sem |-> 1, queue |-> 2]
=============================================================================

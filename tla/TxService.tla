------------------------------ MODULE TxService ------------------------------
(***************************************************************************)
(* What tty_driver_tx promises, without semaphores, interrupts or the      *)
(* shared tty structure: the serial line serves one call at a time, puts   *)
(* the bytes of that call on the line in order and without another call's  *)
(* bytes between them, and a call returns only after its last byte was     *)
(* handed to the transmitter.                                              *)
(***************************************************************************)
EXTENDS Integers

CONSTANTS
  Tasks,      \* the tasks that may call tty_driver_tx
  NoTask,     \* no task
  MaxLen      \* longest message

VARIABLES
  phase,      \* phase[t]: where the call of task t is
  size,       \* size[t]: number of bytes of t's last call
  owner,      \* the task whose bytes are on the line, or NoTask
  next,       \* index of the owner's next byte
  dr          \* the byte last handed to the transmitter

vars == <<phase, size, owner, next, dr>>

Init ==
  /\ phase = [t \in Tasks |-> "idle"]
  /\ size = [t \in Tasks |-> 0]
  /\ owner = NoTask
  /\ next = 0
  /\ dr = [buf |-> NoTask, idx |-> 0]

(* A call with nothing to send returns at once; any other has to wait. *)
Request(t, n) ==
  /\ phase[t] = "idle"
  /\ size' = [size EXCEPT ![t] = n]
  /\ phase' = [phase EXCEPT ![t] = IF n = 0 THEN "idle" ELSE "waiting"]
  /\ UNCHANGED <<owner, next, dr>>

Begin(t) ==
  /\ phase[t] = "waiting"
  /\ owner = NoTask
  /\ owner' = t
  /\ phase' = [phase EXCEPT ![t] = "sending"]
  /\ UNCHANGED <<size, next, dr>>

Emit(t) ==
  /\ owner = t
  /\ next < size[t]
  /\ dr' = [buf |-> t, idx |-> next]
  /\ next' = next + 1
  /\ UNCHANGED <<phase, size, owner>>

Finish(t) ==
  /\ owner = t
  /\ next = size[t]
  /\ owner' = NoTask
  /\ next' = 0
  /\ phase' = [phase EXCEPT ![t] = "sent"]
  /\ UNCHANGED <<size, dr>>

Return(t) ==
  /\ phase[t] = "sent"
  /\ phase' = [phase EXCEPT ![t] = "idle"]
  /\ UNCHANGED <<size, owner, next, dr>>

Next ==
  \E t \in Tasks :
    \/ \E n \in 0..MaxLen : Request(t, n)
    \/ Begin(t)
    \/ Emit(t)
    \/ Finish(t)
    \/ Return(t)

(* A transmission that was begun is carried through, and its call returns. *)
Fairness ==
  \A t \in Tasks : WF_vars(Emit(t)) /\ WF_vars(Finish(t)) /\ WF_vars(Return(t))

SafeSpec == Init /\ [][Next]_vars

Spec == SafeSpec /\ Fairness
==============================================================================

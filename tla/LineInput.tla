------------------------------ MODULE LineInput ------------------------------
(***************************************************************************)
(* What tty_driver_rx promises its caller: a line typed at the terminal,   *)
(* edited with backspace, ended by Enter or by the buffer being full, and  *)
(* the number of bytes it holds.  A read is opened, edited, becomes ready  *)
(* and is delivered; the line only ever changes by one key.                *)
(***************************************************************************)
EXTENDS Integers, Sequences

CONSTANTS
  Readers,    \* the tasks that may read
  NoTask,     \* no task
  Chars,      \* ASCII characters other than CR and the two backspaces
  NL          \* the newline that ends a line

VARIABLES
  state,      \* "closed", "open" (being typed) or "ready" (complete)
  owner,      \* the task the line is for
  want,       \* size of its buffer
  text,       \* the line so far
  result      \* result[r]: the count r's last read returned

vars == <<state, owner, want, text, result>>

Init ==
  /\ state = "closed"
  /\ owner = NoTask
  /\ want = 0
  /\ text = <<>>
  /\ result = [r \in Readers |-> 0]

Open(r) ==
  /\ state = "closed"
  /\ state' = "open"
  /\ owner' = r
  /\ want' \in Nat \ {0}
  /\ text' = <<>>
  /\ UNCHANGED result

Type(c) ==
  /\ state = "open"
  /\ text' = Append(text, c)
  /\ state' = IF Len(text) + 1 = want THEN "ready" ELSE "open"
  /\ UNCHANGED <<owner, want, result>>

Erase ==
  /\ state = "open"
  /\ text # <<>>
  /\ text' = SubSeq(text, 1, Len(text) - 1)
  /\ UNCHANGED <<state, owner, want, result>>

Enter ==
  /\ state = "open"
  /\ text' = Append(text, NL)
  /\ state' = "ready"
  /\ UNCHANGED <<owner, want, result>>

Deliver(r) ==
  /\ state = "ready"
  /\ owner = r
  /\ result' = [result EXCEPT ![r] = Len(text)]
  /\ state' = "closed"
  /\ owner' = NoTask
  /\ want' = 0
  /\ text' = <<>>

(* A read with no room returns zero at once. *)
ReadNothing(r) ==
  /\ state = "closed"
  /\ result' = [result EXCEPT ![r] = 0]
  /\ UNCHANGED <<state, owner, want, text>>

Next ==
  \/ \E r \in Readers : Open(r) \/ Deliver(r) \/ ReadNothing(r)
  \/ \E c \in Chars : Type(c)
  \/ Erase
  \/ Enter

SafeSpec == Init /\ [][Next]_vars

(* A complete line is delivered. *)
Spec == SafeSpec /\ \A r \in Readers : WF_vars(Deliver(r))
==============================================================================

------------------------------- MODULE MCTtyTx -------------------------------
(* TtyTx for TLC: three tasks, messages of up to two bytes. *)
EXTENDS TtyTx, TLC
==============================================================================

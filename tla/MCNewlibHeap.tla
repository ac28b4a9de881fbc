---------------------------- MODULE MCNewlibHeap ----------------------------
(* NewlibHeap for TLC: a heap of a few bytes that runs out after a few calls. *)
EXTENDS NewlibHeap, TLC
==============================================================================

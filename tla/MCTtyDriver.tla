----------------------------- MODULE MCTtyDriver -----------------------------
(* TtyDriver for TLC: the three tasks of the firmware that use the tty,    *)
(* with the priorities of Inc/main.h.                                      *)
EXTENDS TtyDriver, TLC

CONSTANTS cli, led

MCPrio == (cli :> 2) @@ (led :> 3) @@ (Tty :> 30)
==============================================================================

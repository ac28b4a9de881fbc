----------------------------- MODULE MCBlinkLed -----------------------------
(* BlinkLed for TLC. *)
EXTENDS BlinkLed, TLC
==============================================================================

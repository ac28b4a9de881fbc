------------------------------ MODULE BlinkLed ------------------------------
(***************************************************************************)
(* BlinkLed_Task of Src/main.c: it polls a button that is low while it is  *)
(* pressed, reports each press once and blinks an LED.  The pin is read    *)
(* twice in an iteration and may change between any two statements, also   *)
(* while the task is blocked in printf.                                    *)
(***************************************************************************)
EXTENDS Integers

CONSTANTS
  Period,     \* iterations between two toggles of the LED (10)
  CntMod,     \* number of values of the uint16_t cnt (65536)
  MaxPresses  \* bound on how often the button is pressed

ASSUME BlinkAssumption ==
  /\ Period \in Nat \ {0}
  /\ CntMod \in Nat \ {0}
  /\ MaxPresses \in Nat

VARIABLES
  pc,         \* the next statement of the task
  i,          \* its iteration counter
  cnt,        \* its uint16_t cnt
  was_pressed,\* its button_was_pressed
  led,        \* LED2 (pin 14) is driven high
  pressed,    \* the button is down: pin 10 is low
  presses,    \* how often it went down
  reports     \* how often the task reported a press

vars == <<pc, i, cnt, was_pressed, led, pressed, presses, reports>>

(* After gpio_init: the output pins are high, which leaves the LEDs dark. *)
Init ==
  /\ pc = "toggle"
  /\ i = 0
  /\ cnt = 0
  /\ was_pressed = FALSE
  /\ led = TRUE
  /\ pressed = FALSE
  /\ presses = 0
  /\ reports = 0

Goto(from, to) ==
  /\ pc = from
  /\ pc' = to
  /\ UNCHANGED <<pressed, presses>>

(* Mutant: the counter is compared before it is incremented. *)
ToggleLate ==
  /\ Goto("toggle", "read")
  /\ i' = IF i = Period THEN 0 ELSE i + 1
  /\ led' = IF i = Period THEN ~led ELSE led
  /\ UNCHANGED <<cnt, was_pressed, reports>>

Toggle ==
  /\ Goto("toggle", "read")
  /\ i' = IF i + 1 = Period THEN 0 ELSE i + 1
  /\ led' = IF i + 1 = Period THEN ~led ELSE led
  /\ UNCHANGED <<cnt, was_pressed, reports>>

(* Mutant: a press that was reported is reported again. *)
ReadPressedAlways ==
  /\ Goto("read", IF pressed THEN "report" ELSE "reread")
  /\ UNCHANGED <<i, cnt, was_pressed, led, reports>>

(* Mutant: the test of button_was_pressed is not negated. *)
ReadPressedTwice ==
  /\ Goto("read", IF pressed /\ was_pressed THEN "report" ELSE "reread")
  /\ UNCHANGED <<i, cnt, was_pressed, led, reports>>

(* The first read of the pin *)
ReadPressed ==
  /\ Goto("read", IF pressed /\ ~was_pressed THEN "report" ELSE "reread")
  /\ UNCHANGED <<i, cnt, was_pressed, led, reports>>

(* printf with ++cnt, and button_was_pressed = true *)
Report ==
  /\ Goto("report", "reread")
  /\ cnt' = (cnt + 1) % CntMod
  /\ reports' = reports + 1
  /\ was_pressed' = TRUE
  /\ UNCHANGED <<i, led>>

(* The second read of the pin *)
ReadReleased ==
  /\ Goto("reread", "delay")
  /\ was_pressed' = (pressed /\ was_pressed)
  /\ UNCHANGED <<i, cnt, led, reports>>

(* vTaskDelay *)
Delay ==
  /\ Goto("delay", "toggle")
  /\ UNCHANGED <<i, cnt, was_pressed, led, reports>>

Task == Toggle \/ ReadPressed \/ Report \/ ReadReleased \/ Delay

Press ==
  /\ ~pressed
  /\ presses < MaxPresses
  /\ pressed' = TRUE
  /\ presses' = presses + 1
  /\ UNCHANGED <<pc, i, cnt, was_pressed, led, reports>>

Release ==
  /\ pressed
  /\ pressed' = FALSE
  /\ UNCHANGED <<pc, i, cnt, was_pressed, led, presses, reports>>

Next == Task \/ Press \/ Release

(* The task is delayed for 50 ms at a time and always runs again. *)
Spec == Init /\ [][Next]_vars /\ WF_vars(Task)

-----------------------------------------------------------------------------
(* The variables of the task and the button keep their types. *)
TypeOK ==
  /\ pc \in {"toggle", "read", "report", "reread", "delay"}
  /\ i \in 0..Period - 1
  /\ cnt \in 0..CntMod - 1
  /\ was_pressed \in BOOLEAN /\ led \in BOOLEAN /\ pressed \in BOOLEAN
  /\ presses \in 0..MaxPresses
  /\ reports \in Nat

(* However the pin changes between the two reads, no press is reported      *)
(* twice: there are never more reports than presses, not even when one is   *)
(* about to be made.                                                        *)
ReportedOnce == reports + (IF pc = "report" THEN 1 ELSE 0) <= presses

(* Inductive: a press that was not yet noticed has not been reported. *)
IndInv ==
  /\ TypeOK
  /\ ReportedOnce
  /\ pressed /\ ~was_pressed => reports < presses

(* A button that is held down is eventually taken for pressed, and stays so. *)
HeldIsSeen == <>[]pressed => <>[](was_pressed /\ reports > 0)
==============================================================================

--------------------------- MODULE BlinkLedProofs ---------------------------
(* Proofs about BlinkLed, for any period and any number of presses.        *)
EXTENDS BlinkLed, TLAPS

USE BlinkAssumption

(* Every step of the task and of the button keeps the variables in range. *)
LEMMA TypeInductive == TypeOK /\ [Next]_vars => TypeOK'
<1> SUFFICES ASSUME TypeOK, [Next]_vars PROVE TypeOK'
  OBVIOUS
<1>1. /\ pc' \in {"toggle", "read", "report", "reread", "delay"}
      /\ i' \in 0..Period - 1
      /\ cnt' \in 0..CntMod - 1
      /\ presses' \in 0..MaxPresses
      /\ reports' \in Nat
  BY DEF TypeOK, Next, Task, Goto, Toggle, ReadPressed, Report, ReadReleased,
         Delay, Press, Release, vars
<1>2. led' \in BOOLEAN
  BY Zenon DEF TypeOK, Next, Task, Goto, Toggle, ReadPressed, Report, ReadReleased,
         Delay, Press, Release, vars
<1>3. pressed' \in BOOLEAN
  BY Zenon DEF TypeOK, Next, Task, Goto, Toggle, ReadPressed, Report, ReadReleased,
         Delay, Press, Release, vars
<1>4. was_pressed' \in BOOLEAN
  BY Zenon DEF TypeOK, Next, Task, Goto, Toggle, ReadPressed, Report, ReadReleased,
         Delay, Press, Release, vars
<1> QED
  BY <1>1, <1>2, <1>3, <1>4 DEF TypeOK

(* The invariant is kept by the task's five statements and by the button. *)
LEMMA CountInductive == IndInv /\ [Next]_vars => IndInv'
<1> SUFFICES ASSUME IndInv, [Next]_vars PROVE IndInv'
  OBVIOUS
<1>1. TypeOK'
  BY TypeInductive DEF IndInv
<1> DEFINE Counts == ReportedOnce /\ (pressed /\ ~was_pressed => reports < presses)
<1>2. ASSUME Toggle \/ Delay \/ UNCHANGED vars PROVE Counts'
  BY <1>2 DEF IndInv, TypeOK, ReportedOnce, Goto, Toggle, Delay, vars
<1>3. CASE ReadPressed
  BY <1>1, <1>3 DEF IndInv, TypeOK, ReportedOnce, Goto, ReadPressed
<1>4. CASE Report
  BY <1>1, <1>4 DEF IndInv, TypeOK, ReportedOnce, Goto, Report
<1>5. CASE ReadReleased
  BY <1>1, <1>5 DEF IndInv, TypeOK, ReportedOnce, Goto, ReadReleased
<1>6. CASE Press
  BY <1>1, <1>6 DEF IndInv, TypeOK, ReportedOnce, Press
<1>7. CASE Release
  BY <1>1, <1>7 DEF IndInv, TypeOK, ReportedOnce, Release
<1> QED
  BY <1>1, <1>2, <1>3, <1>4, <1>5, <1>6, <1>7 DEF Next, Task, IndInv

(* The invariant holds when the task starts. *)
LEMMA InitCounts == Init => IndInv
<1> SUFFICES ASSUME Init PROVE IndInv
  OBVIOUS
<1>1. /\ i \in 0..Period - 1 /\ cnt \in 0..CntMod - 1
      /\ presses \in 0..MaxPresses /\ reports \in Nat
  BY DEF Init
<1>2. /\ pc \in {"toggle", "read", "report", "reread", "delay"}
      /\ was_pressed \in BOOLEAN /\ led \in BOOLEAN /\ pressed \in BOOLEAN
  BY Zenon DEF Init
<1>3. ReportedOnce
  BY DEF Init, ReportedOnce
<1>4. ~pressed
  BY Zenon DEF Init
<1> QED
  BY <1>1, <1>2, <1>3, <1>4, Zenon DEF IndInv, TypeOK

(* The iteration counter of BlinkLed_Task stays below the period and its    *)
(* uint16_t count of presses in its range.                                  *)
THEOREM BlinkTypes == Spec => []TypeOK
<1>1. IndInv => TypeOK
  BY DEF IndInv
<1> QED
  BY <1>1, InitCounts, CountInductive, PTL DEF Spec

(* BlinkLed_Task reports no press twice, whatever the pin does between its *)
(* two reads.                                                              *)
THEOREM ReportedOnceHolds == Spec => []ReportedOnce
<1>1. IndInv => ReportedOnce
  BY DEF IndInv
<1> QED
  BY <1>1, InitCounts, CountInductive, PTL DEF Spec
==============================================================================

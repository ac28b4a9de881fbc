---------------------------- MODULE UsbHidProofs ----------------------------
(***************************************************************************)
(* Proofs about the USB mouse: for every set of joystick values, event     *)
(* queue, burst of bus events and number of resets, unconfigurations and   *)
(* halts.                                                                  *)
(***************************************************************************)
EXTENDS UsbHid, TLAPS

(* get_delta_by_adc_val treats both directions of an axis alike. *)
THEOREM DeltaSymmetric ==
  ASSUME NEW v \in 0..255
  PROVE  get_delta_by_adc_val(255 - v) = -get_delta_by_adc_val(v)
  BY DEF get_delta_by_adc_val

(* The further the stick, the faster the pointer, and never more than three *)
(* points a report.                                                         *)
THEOREM DeltaMonotone ==
  ASSUME NEW v \in 0..255, NEW w \in 0..255, v <= w
  PROVE  /\ get_delta_by_adc_val(v) <= get_delta_by_adc_val(w)
         /\ get_delta_by_adc_val(v) \in -3..3
  BY DEF get_delta_by_adc_val

-----------------------------------------------------------------------------
(* Reports carry converted samples *)

Deltas == {get_delta_by_adc_val(v) : v \in AdcVals}

(* At least one, and at least two, channels have been converted. *)
Converted1 == jdr1 \in AdcVals /\ (rank = 1 => jdr2 \in AdcVals)

Converted2 == jdr1 \in AdcVals /\ jdr2 \in AdcVals

(* Both channels, and the sample usb_hid_task works on is one of them. *)
Sampled == Converted2 /\ (hpc # "sleep" => x \in Deltas /\ y \in Deltas)

(* The host can have got hold of the device, or will by what is queued. *)
Reached ==
  \/ wakes = ResetWakes \/ bus \notin {"off", "reset"} \/ events # <<>> \/ mounted
  \/ ep_in = HidIn \/ target = HidIn

(* A sample is made before the first trigger's conversions are complete,   *)
(* and the device is then still without a host: the reset that starts the  *)
(* enumeration outlasts two wake-ups of usb_hid_task.                      *)
MeasuredInv ==
  /\ rank \in {1, 2} /\ wakes \in 0..ResetWakes
  /\ rank = 2 => jdr1 \in AdcVals
  /\ hpc = "start" => wakes = 0
  /\ hpc = "sleep" \/ wakes >= 1 => Converted1
  /\ hpc = "sleep" /\ wakes >= 1 => Converted2
  /\ Reached => Sampled
  /\ hpc \in {"submit", "test", "busy_load", "busy_store", "arm"} /\ buf.by = "mouse" =>
       buf.x = x /\ buf.y = y
  /\ ReportsMeasured

LEMMA DistinctEndpoints == HidIn # CtlOut /\ HidIn # CtlIn /\ CtlIn # CtlOut
  BY Zenon DEF HidIn, CtlIn, CtlOut

LEMMA InitMeasured == Init => MeasuredInv
<1> SUFFICES ASSUME Init PROVE MeasuredInv
  OBVIOUS
<1>1. wakes = 0 /\ rank = 1 /\ hpc = "start" /\ armed = {}
  BY DEF Init
<1>2. bus = "off" /\ events = <<>> /\ ~mounted /\ ep_in = CtlOut /\ target = CtlOut
  BY Zenon DEF Init
<1>3. ~Reached
  BY <1>1, <1>2, DistinctEndpoints DEF Reached, ResetWakes
<1> QED
  BY <1>1, <1>3 DEF MeasuredInv, ReportsMeasured, ResetWakes

(* Steps of the device task, the controller and the host leave the sample,  *)
(* the data registers and the place of usb_hid_task alone.                  *)
Quiet == UNCHANGED <<hpc, x, y, target, adcvars>>

LEMMA QuietKeepsMeasured ==
  ASSUME MeasuredInv, Quiet,
         wakes' = wakes \/ (wakes' = 0),
         Reached' => Reached,
         buf' = buf \/ buf'.by # "mouse",
         wire' = wire \/ wire'.by # "mouse",
         HidIn \in armed' => HidIn \in armed \/ wire'.by # "mouse"
  PROVE  MeasuredInv'
<1> USE DEF MeasuredInv, Quiet, adcvars
<1>1. /\ (Converted1' <=> Converted1) /\ (Converted2' <=> Converted2)
      /\ (Sampled' <=> Sampled)
  BY DEF Converted1, Converted2, Sampled
<1>2. ReportsMeasured'
  BY DEF ReportsMeasured
<1> QED
  BY <1>1, <1>2 DEF ResetWakes

(* usb_hid_task samples, copies, submits and starts a conversion. *)
LEMMA HidKeepsMeasured ==
  ASSUME MeasuredInv, HidStep
  PROVE  MeasuredInv'
<1> USE DEF Goto, hostvars, adcvars
<1>0. /\ UNCHANGED <<ep_in, events, mounted, bus>>
  BY DEF HidStep, Sample, ClaimArg, Precheck, Lock, Check, ClaimLoad, ClaimStore, Unlock,
         Copy, SubmitArg, BusyTest, BusyLoad, BusyStore, Arm, Convert
<1>1. CASE Sample
  <2>1. /\ hpc \in {"start", "sleep"} /\ hpc' = "claim"
        /\ UNCHANGED <<jdr1, jdr2, rank, buf, wire, armed, target>>
        /\ x' = get_delta_by_adc_val(jdr1) /\ y' = get_delta_by_adc_val(jdr2)
        /\ wakes' = IF hpc = "sleep" /\ wakes < ResetWakes THEN wakes + 1 ELSE wakes
    BY <1>1 DEF Sample
  <2>2. /\ (Converted1' <=> Converted1) /\ (Converted2' <=> Converted2)
    BY <2>1 DEF Converted1, Converted2
  <2>3. Converted2 => Sampled'
    BY <2>1, <2>2 DEF Converted2, Sampled, Deltas
  <2>4. wakes \in 0..2 /\ wakes' \in 0..2 /\ (hpc = "start" => wakes' = 0)
    BY <2>1 DEF MeasuredInv, ResetWakes
  <2>5. wakes' >= 1 => Converted1
    BY <2>1, <2>4 DEF MeasuredInv, ResetWakes
  <2>6. wakes' = 2 => Converted2
    BY <2>1, <2>4 DEF MeasuredInv, ResetWakes
  <2>7. Reached' => Sampled'
    BY <1>0, <2>1, <2>3, <2>6 DEF MeasuredInv, Reached, Sampled, ResetWakes
  <2>8. ReportsMeasured'
    BY <2>1 DEF MeasuredInv, ReportsMeasured
  <2> QED
    BY <2>1, <2>2, <2>4, <2>5, <2>7, <2>8 DEF MeasuredInv, ResetWakes
<1>2. CASE Convert
  <2>1. /\ hpc = "convert" /\ hpc' = "sleep" /\ UNCHANGED <<buf, wire, armed, wakes>>
        /\ target' = CtlOut
    BY <1>2 DEF Convert, Forget
  <2>2. /\ Converted1' /\ jdr1' \in AdcVals /\ (Converted1 => Converted2')
        /\ rank' \in {1, 2}
    BY <1>2 DEF Convert, Converted, Converted1, Converted2, MeasuredInv
  <2>3. Reached' => Converted2
    BY <1>0, <2>1, DistinctEndpoints DEF MeasuredInv, Reached, Sampled
  <2>4. Converted2 => Converted1
    BY DEF Converted1, Converted2
  <2>5. Reached' => Sampled'
    BY <2>1, <2>2, <2>3, <2>4 DEF Sampled
  <2>6. ReportsMeasured'
    BY <2>1 DEF MeasuredInv, ReportsMeasured
  <2> QED
    BY <2>1, <2>2, <2>5, <2>6 DEF MeasuredInv
<1>3. CASE Copy
  <2>1. /\ hpc = "copy" /\ hpc' = "submit" /\ buf' = [by |-> "mouse", x |-> x, y |-> y]
        /\ UNCHANGED <<x, y, target, jdr1, jdr2, rank, wire, armed, wakes>>
    BY <1>3 DEF Copy
  <2>2. /\ (Converted1' <=> Converted1) /\ (Converted2' <=> Converted2)
        /\ (Sampled' <=> Sampled) /\ (Reached' <=> Reached)
    BY <1>0, <2>1 DEF Converted1, Converted2, Sampled, Reached
  <2>3. ReportsMeasured'
    BY <2>1 DEF MeasuredInv, ReportsMeasured
  <2> QED
    BY <2>1, <2>2, <2>3 DEF MeasuredInv
<1>4. CASE SubmitArg
  <2>1. /\ hpc = "submit" /\ hpc' = "test" /\ target' = ep_in
        /\ UNCHANGED <<x, y, jdr1, jdr2, rank, buf, wire, armed, wakes>>
    BY <1>4 DEF SubmitArg
  <2>2. /\ (Converted1' <=> Converted1) /\ (Converted2' <=> Converted2)
        /\ (Sampled' <=> Sampled) /\ (Reached' => Reached)
    BY <1>0, <2>1 DEF Converted1, Converted2, Sampled, Reached
  <2>3. ReportsMeasured'
    BY <2>1 DEF MeasuredInv, ReportsMeasured
  <2> QED
    BY <2>1, <2>2, <2>3 DEF MeasuredInv
<1>5. CASE Arm
  <2>1. /\ hpc = "arm" /\ hpc' = "convert" /\ armed' = armed \cup {target}
        /\ wire' = IF target = HidIn THEN buf ELSE wire
        /\ UNCHANGED <<x, y, target, jdr1, jdr2, rank, buf, wakes>>
    BY <1>5 DEF Arm
  <2>2. /\ (Converted1' <=> Converted1) /\ (Converted2' <=> Converted2)
        /\ (Sampled' <=> Sampled) /\ (Reached' <=> Reached)
    BY <1>0, <2>1 DEF Converted1, Converted2, Sampled, Reached
  <2>3. ReportsMeasured'
    <3>1. target = HidIn /\ buf.by = "mouse" => buf.x \in Deltas /\ buf.y \in Deltas
      BY <2>1 DEF MeasuredInv, Reached, Sampled
    <3> QED
      BY <2>1, <3>1 DEF MeasuredInv, ReportsMeasured, Deltas
  <2> QED
    BY <2>1, <2>2, <2>3 DEF MeasuredInv
<1>6. CASE \/ ClaimArg \/ Precheck \/ Lock \/ Check \/ ClaimLoad \/ ClaimStore
           \/ Unlock \/ BusyTest \/ BusyLoad \/ BusyStore
  <2> DEFINE Past == {"submit", "test", "busy_load", "busy_store", "arm"}
  <2>1. /\ hpc \notin {"start", "sleep"} /\ hpc' \notin {"start", "sleep"}
        /\ hpc' \in Past => hpc \in Past
    BY <1>6 DEF ClaimArg, Precheck, Lock, Check, ClaimLoad, ClaimStore, Unlock, BusyTest,
                BusyLoad, BusyStore
  <2>2. UNCHANGED <<x, y, target, jdr1, jdr2, rank, buf, wire, armed, wakes>>
    BY <1>6 DEF ClaimArg, Precheck, Lock, Check, ClaimLoad, ClaimStore, Unlock, BusyTest,
                BusyLoad, BusyStore
  <2>3. /\ (Converted1' <=> Converted1) /\ (Converted2' <=> Converted2)
        /\ (Sampled' <=> Sampled) /\ (Reached' <=> Reached)
    BY <1>0, <2>1, <2>2 DEF Converted1, Converted2, Sampled, Reached
  <2>4. ReportsMeasured'
    BY <2>2 DEF MeasuredInv, ReportsMeasured
  <2> QED
    BY <2>1, <2>2, <2>3, <2>4 DEF MeasuredInv
<1> QED
  BY <1>1, <1>2, <1>3, <1>4, <1>5, <1>6, Zenon DEF HidStep

(* The end of the conversion that joystick_init started. *)
LEMMA AdcKeepsMeasured ==
  ASSUME MeasuredInv, AdcDone
  PROVE  MeasuredInv'
<1>1. UNCHANGED <<hpc, x, y, target, buf, wire, armed, wakes, ep_in, events, mounted, bus>>
  BY DEF AdcDone, hidvars, usbdvars, dcdvars, hostvars
<1>2. /\ Converted1' /\ (Converted2 => Converted2') /\ rank' \in {1, 2}
  BY DEF AdcDone, Converted, Converted1, Converted2, MeasuredInv
<1>3. Converted2' /\ Sampled => Sampled'
  BY <1>1 DEF Sampled
<1>4. (Reached' <=> Reached) /\ (ReportsMeasured' <=> ReportsMeasured)
  BY <1>1 DEF Reached, ReportsMeasured
<1>5. Reached => Converted2
  BY DEF MeasuredInv, Sampled
<1> QED
  BY <1>1, <1>2, <1>3, <1>4, <1>5 DEF MeasuredInv, Converted1

(* The device task. *)
LEMMA UsbdKeepsMeasured ==
  ASSUME MeasuredInv, UsbdStep
  PROVE  MeasuredInv'
<1> USE DEF hidvars, adcvars, hostvars, dcdvars, Handle, OnSetup, OnXfer
<1>1. Quiet /\ wakes' = wakes /\ UNCHANGED <<bus, mounted>>
  BY Zenon
  DEF Quiet, UsbdStep, OnBusReset, OnRejected, OnGet, OnSetAddress, OnSetConfig,
      OnUnsetConfig, OnSetReport, OnGetReport, OnHalt, OnClearHalt, OnReportSent,
      OnDataInSent, OnDataOutReceived, OnStatus, OnSetReportDone, EchoResumes
<1>2. Reached' => Reached
  <2>1. CASE EchoResumes
    BY <1>1, <2>1 DEF EchoResumes, Quiet, Reached
  <2>2. CASE ~EchoResumes
    <3>1. events # <<>>
      BY <2>2, Zenon
      DEF UsbdStep, OnBusReset, OnRejected, OnGet, OnSetAddress, OnSetConfig,
          OnUnsetConfig, OnSetReport, OnGetReport, OnHalt, OnClearHalt, OnReportSent,
          OnDataInSent, OnDataOutReceived, OnStatus, OnSetReportDone
    <3> QED
      BY <3>1 DEF Reached
  <2> QED
    BY <2>1, <2>2
<1>3. /\ buf' = buf \/ buf'.by # "mouse"
      /\ wire' = wire \/ wire'.by # "mouse"
      /\ HidIn \in armed' => HidIn \in armed \/ wire'.by # "mouse"
  <2>1. CASE OnSetReportDone \/ EchoResumes
    BY <2>1, DistinctEndpoints DEF OnSetReportDone, EchoResumes, ClaimAndSend, Echo
  <2>2. CASE OnGetReport
    BY <2>2, DistinctEndpoints DEF OnGetReport
  <2>3. CASE OnBusReset \/ OnUnsetConfig
    BY <2>3, DistinctEndpoints DEF OnBusReset, OnUnsetConfig, NoReport
  <2>4. CASE OnSetConfig
    <3>1. UNCHANGED <<buf, wire>> /\ armed' = armed \cup {CtlIn}
      BY <2>4, Zenon DEF OnSetConfig
    <3> QED
      BY <3>1, DistinctEndpoints
  <2>5. CASE OnHalt
    BY <2>5, DistinctEndpoints DEF OnHalt, NoReport
  <2>6. CASE \/ OnRejected \/ OnGet \/ OnSetAddress \/ OnSetReport \/ OnClearHalt
             \/ OnReportSent \/ OnDataInSent \/ OnDataOutReceived \/ OnStatus
    <3>1. buf' = buf /\ wire' = wire
      BY <2>6, Zenon
      DEF OnRejected, OnGet, OnSetAddress, OnSetReport, OnClearHalt, OnReportSent,
          OnDataInSent, OnDataOutReceived, OnStatus
    <3>2. armed' \in {armed, armed \cup {CtlIn}, armed \cup {CtlOut}}
      BY <2>6, Zenon
      DEF OnRejected, OnGet, OnSetAddress, OnSetReport, OnClearHalt, OnReportSent,
          OnDataInSent, OnDataOutReceived, OnStatus
    <3> QED
      BY <3>1, <3>2, DistinctEndpoints
  <2> QED
    BY <2>1, <2>2, <2>3, <2>4, <2>5, <2>6, Zenon DEF UsbdStep
<1> QED
  BY <1>1, <1>2, <1>3, QuietKeepsMeasured

(* The controller and the host. *)
LEMMA BusKeepsMeasured ==
  ASSUME MeasuredInv, UsbRst \/ ControlStage \/ Poll \/ \E r \in Requests : Setup(r)
  PROVE  MeasuredInv'
<1> USE DEF hidvars, adcvars, hostvars, dcdvars, usbdvars, BusEvent, Completed, ControlStage
<1>1. Quiet /\ UNCHANGED <<ep_in, buf>> /\ (wakes' = wakes \/ wakes' = 0)
  BY Zenon
  DEF Quiet, UsbRst, EnumDone, DataIn, StatusOut, DataOut, StatusIn, SeesStall, Poll, Setup
<1>2. Reached' => Reached
  <2>1. CASE UsbRst
    <3>1. wakes' = 0 /\ bus' = "reset" /\ ~mounted' /\ events' = events
      BY <2>1, Zenon DEF UsbRst
    <3> QED
      BY <1>1, <3>1 DEF Quiet, Reached, ResetWakes
  <2>2. CASE EnumDone
    BY <2>2 DEF EnumDone, Reached
  <2>3. CASE SeesStall
    BY <2>3 DEF SeesStall, Reached
  <2>4. CASE DataIn \/ StatusOut \/ DataOut \/ StatusIn \/ Poll \/ \E r \in Requests : Setup(r)
    <3>1. mounted \/ bus \notin {"off", "reset"}
      BY <2>4, Zenon DEF DataIn, StatusOut, DataOut, StatusIn, Poll, Setup
    <3> QED
      BY <3>1 DEF Reached
  <2> QED
    BY <2>1, <2>2, <2>3, <2>4
<1>3. /\ wire' = wire \/ wire'.by # "mouse"
      /\ HidIn \in armed' => HidIn \in armed
  <2>1. wire' \in {wire, NoReport} /\ armed' \subseteq armed
    <3>1. CASE UsbRst \/ EnumDone \/ SeesStall
      BY <3>1, Zenon DEF UsbRst, EnumDone, SeesStall
    <3>2. CASE DataIn \/ StatusOut \/ DataOut \/ StatusIn \/ Poll
      BY <3>2, Zenon DEF DataIn, StatusOut, DataOut, StatusIn, Poll
    <3>3. CASE \E r \in Requests : Setup(r)
      BY <3>3, Zenon DEF Setup
    <3> QED
      BY <3>1, <3>2, <3>3
  <2> QED
    BY <2>1 DEF NoReport
<1> QED
  BY <1>1, <1>2, <1>3, QuietKeepsMeasured

(* Every step preserves the invariant. *)
LEMMA NextKeepsMeasured == MeasuredInv /\ [Next]_vars => MeasuredInv'
<1> SUFFICES ASSUME MeasuredInv, [Next]_vars PROVE MeasuredInv'
  OBVIOUS
<1>1. CASE UNCHANGED vars
  BY <1>1, QuietKeepsMeasured
  DEF vars, Quiet, hidvars, usbdvars, dcdvars, adcvars, hostvars, Reached
<1> QED
  BY <1>1, HidKeepsMeasured, AdcKeepsMeasured, UsbdKeepsMeasured, BusKeepsMeasured, Zenon
  DEF Next

(* No report made from the reset value of a data register reaches the host, *)
(* though usb_hid_task reads the registers without asking whether a         *)
(* conversion is complete.                                                  *)
THEOREM MeasuredSafety == SafeSpec => []ReportsMeasured
<1>1. MeasuredInv => ReportsMeasured
  BY DEF MeasuredInv
<1> QED
  BY <1>1, InitMeasured, NextKeepsMeasured, PTL DEF SafeSpec

-----------------------------------------------------------------------------
(* Types *)

(* The writes to ep_status keep it a table of state bytes. *)
LEMMA StateTypes ==
  ASSUME NEW s \in [Endpoints -> EpState], NEW e \in Endpoints
  PROVE  /\ Released(s, e) \in [Endpoints -> EpState]
         /\ Busy(s, e) \in [Endpoints -> EpState]
         /\ [s EXCEPT ![e].claimed = TRUE, ![e].busy = TRUE] \in [Endpoints -> EpState]
         /\ [s EXCEPT ![e].stalled = TRUE, ![e].busy = TRUE] \in [Endpoints -> EpState]
         /\ [s EXCEPT ![e].stalled = FALSE, ![e].busy = FALSE] \in [Endpoints -> EpState]
  BY DEF Released, Busy, EpState

(* So do the stores of usb_hid_task to a byte it has loaded. *)
LEMMA ByteTypes ==
  ASSUME NEW b \in EpState
  PROVE  /\ [b EXCEPT !.claimed = TRUE] \in EpState
         /\ [b EXCEPT !.busy = TRUE] \in EpState
  BY DEF EpState

(* get_delta_by_adc_val returns at most three points either way. *)
LEMMA DeltaTypes ==
  ASSUME NEW v \in AdcVals \cup {0}
  PROVE  get_delta_by_adc_val(v) \in -3..3
  BY UsbAssumption DEF get_delta_by_adc_val

(* The constants' types. *)
LEMMA ConstTypes ==
  /\ Free \in EpState /\ NoReport \in Reports /\ Echo \in Reports
  /\ CtlOut \in Endpoints /\ CtlIn \in Endpoints /\ HidIn \in Endpoints
  /\ \A a, b \in -3..3 : [by |-> "mouse", x |-> a, y |-> b] \in Reports
  /\ \A b \in Reports : [b EXCEPT !.by = "id"] \in Reports
  BY DEF Free, NoReport, Echo, EpState, Reports, CtlOut, CtlIn, HidIn, Endpoints

(* The types hold when the scheduler starts. *)
LEMMA InitTypes == Init => TypeOK
<1> SUFFICES ASSUME Init
             PROVE  TypeOK
  OBVIOUS
<1>1. st \in [Endpoints -> EpState]
  BY ConstTypes DEF Init
<1>2. /\ claiming \in Endpoints /\ target \in Endpoints
      /\ buf \in Reports /\ wire \in Reports /\ loaded \in EpState
  BY ConstTypes, Zenon DEF Init
<1>3. disturb \in 0..MaxDisturb /\ burst \in 0..Burst /\ Len(events) <= QueueSz /\ events \in Seq(Events)
  BY UsbAssumption DEF Init
<1>4. x \in -3..3 /\ y \in -3..3 /\ wakes \in 0..ResetWakes /\ rank \in {1, 2}
  BY DEF Init, ResetWakes
<1> QED
  BY <1>1, <1>2, <1>3, <1>4, Zenon DEF Init, TypeOK, HidLabels

(* A conversion keeps the types. *)
LEMMA ConvertedTypes ==
  ASSUME TypeOK, Converted
  PROVE  /\ jdr1' \in AdcVals \cup {0} /\ jdr2' \in AdcVals \cup {0}
         /\ rank' \in {1, 2} /\ converting' \in BOOLEAN
<1>1. PICK v \in AdcVals : IF rank = 1 THEN jdr1' = v /\ UNCHANGED jdr2
                                       ELSE jdr2' = v /\ UNCHANGED jdr1
  BY Zenon DEF Converted
<1>2. jdr1' \in AdcVals \cup {0} /\ jdr2' \in AdcVals \cup {0}
  <2>1. jdr1' \in {v, jdr1} /\ jdr2' \in {v, jdr2}
    BY <1>1, Zenon
  <2> QED
    BY <2>1 DEF TypeOK
<1>3. rank' \in {1, 2}
  <2>1. rank' = 3 - rank
    BY Zenon DEF Converted
  <2> QED
    BY <2>1 DEF TypeOK
<1> QED
  BY <1>2, <1>3, Zenon DEF Converted

(* So do the statements of usb_hid_task, *)
LEMMA HidKeepsTypes ==
  ASSUME TypeOK, HidStep
  PROVE  TypeOK'
<1> USE UsbAssumption
<1>1. CASE Sample
  <2>1. get_delta_by_adc_val(jdr1) \in -3..3 /\ get_delta_by_adc_val(jdr2) \in -3..3
    BY DeltaTypes DEF TypeOK
  <2> QED
  BY <1>1, <2>1 DEF Sample, TypeOK, Goto, HidLabels, hostvars, adcvars, ResetWakes
<1>2. CASE ClaimArg
  BY <1>2 DEF ClaimArg, TypeOK, Goto, HidLabels, hostvars, adcvars, Endpoints
<1>3. CASE Precheck
  BY <1>3 DEF Precheck, TypeOK, Goto, HidLabels, hostvars, adcvars
<1>4. CASE Lock
  BY <1>4 DEF Lock, TypeOK, Goto, HidLabels, hostvars, adcvars
<1>5. CASE Check
  BY <1>5 DEF Check, TypeOK, Goto, HidLabels, hostvars, adcvars
<1>6. CASE ClaimLoad
  BY <1>6 DEF ClaimLoad, TypeOK, Goto, HidLabels, hostvars, adcvars
<1>7. CASE ClaimStore
  <2>1. st' \in [Endpoints -> EpState]
    BY <1>7, ByteTypes DEF ClaimStore, TypeOK
  <2> QED
    BY <1>7, <2>1 DEF ClaimStore, TypeOK, Goto, HidLabels, hostvars, adcvars
<1>8. CASE Unlock
  BY <1>8 DEF Unlock, TypeOK, Goto, HidLabels, hostvars, adcvars
<1>9. CASE Copy
  BY <1>9, ConstTypes DEF Copy, TypeOK, Goto, HidLabels, hostvars, adcvars
<1>10. CASE SubmitArg
  BY <1>10 DEF SubmitArg, TypeOK, Goto, HidLabels, hostvars, adcvars, Endpoints
<1>11. CASE BusyTest
  BY <1>11 DEF BusyTest, TypeOK, Goto, HidLabels, hostvars, adcvars
<1>12. CASE BusyLoad
  BY <1>12 DEF BusyLoad, TypeOK, Goto, HidLabels, hostvars, adcvars
<1>13. CASE BusyStore
  <2>1. st' \in [Endpoints -> EpState]
    BY <1>13, ByteTypes DEF BusyStore, TypeOK
  <2> QED
    BY <1>13, <2>1 DEF BusyStore, TypeOK, Goto, HidLabels, hostvars, adcvars
<1>14. CASE Arm
  BY <1>14 DEF Arm, TypeOK, Goto, HidLabels, hostvars, adcvars
<1>15. CASE Convert
  <2>1. /\ jdr1' \in AdcVals \cup {0} /\ jdr2' \in AdcVals \cup {0}
        /\ rank' \in {1, 2} /\ converting' \in BOOLEAN
    BY <1>15, ConvertedTypes DEF Convert
  <2>2. claiming' \in Endpoints /\ target' \in Endpoints /\ loaded' \in EpState
    BY <1>15, ConstTypes, Zenon DEF Convert, Forget
  <2>3. x' \in -3..3 /\ y' \in -3..3 /\ burst' \in 0..Burst
    BY <1>15 DEF Convert, Forget
  <2> QED
    BY <1>15, <2>1, <2>2, <2>3 DEF Convert, TypeOK, Goto, Forget, HidLabels, hostvars
<1> QED
  BY <1>1, <1>2, <1>3, <1>4, <1>5, <1>6, <1>7, <1>8, <1>9, <1>10, <1>11, <1>12, <1>13, <1>14, <1>15
     DEF HidStep

(* the end of the first conversion, *)
LEMMA AdcKeepsTypes ==
  ASSUME TypeOK, AdcDone
  PROVE  TypeOK'
<1>1. jdr1' \in AdcVals \cup {0} /\ jdr2' \in AdcVals \cup {0} /\ rank' \in {1, 2} /\ converting' \in BOOLEAN
  BY ConvertedTypes DEF AdcDone
<1> QED
  BY <1>1 DEF AdcDone, TypeOK, hidvars, usbdvars, dcdvars, hostvars

(* The types of what a bus event changes: the rest is as it was. *)
LEMMA BusEventTypes ==
  ASSUME TypeOK, BusEvent,
         events' \in Seq(Events) /\ Len(events') <= QueueSz,
         armed' \subseteq Endpoints, stalling' \subseteq Endpoints,
         open' \in BOOLEAN, wire' \in Reports,
         bus' \in {"off", "reset", "idle", "data_in", "status_out", "data_out", "status_in"},
         asked' \in Requests \cup {"none"},
         known' \in BOOLEAN, mounted' \in BOOLEAN,
         wakes' \in 0..ResetWakes, disturb' \in 0..MaxDisturb
  PROVE  TypeOK'
<1>1. burst' \in 0..Burst
  BY UsbAssumption DEF BusEvent, TypeOK
<1>2. UNCHANGED <<hpc, x, y, claiming, target, loaded>>
  BY Zenon DEF BusEvent, hidvars
<1>3. UNCHANGED <<st, ep_in, buf, mutex, blocked, cfg, request>>
  BY Zenon DEF BusEvent, usbdvars
<1>4. UNCHANGED <<jdr1, jdr2, rank, converting>>
  BY Zenon DEF BusEvent, adcvars
<1>5. /\ hpc' \in HidLabels /\ x' \in -3..3 /\ y' \in -3..3
      /\ claiming' \in Endpoints /\ target' \in Endpoints /\ loaded' \in EpState
  BY <1>2, Zenon DEF TypeOK
<1>6. /\ st' \in [Endpoints -> EpState] /\ ep_in' \in {CtlOut, HidIn} /\ buf' \in Reports
      /\ mutex' \in {"none", "hid"} /\ blocked' \in BOOLEAN /\ cfg' \in BOOLEAN
      /\ request' \in {"read", "write", "nodata"}
  BY <1>3, Zenon DEF TypeOK
<1>7. /\ jdr1' \in AdcVals \cup {0} /\ jdr2' \in AdcVals \cup {0}
      /\ rank' \in {1, 2} /\ converting' \in BOOLEAN
  BY <1>4, Zenon DEF TypeOK
<1> QED
  BY <1>1, <1>5, <1>6, <1>7, Zenon DEF TypeOK

(* dcd_event_handler never puts more into the queue than it holds. *)
LEMMA EnqueueTypes ==
  ASSUME TypeOK, NEW ev \in Events, Enqueue(ev)
  PROVE  events' \in Seq(Events) /\ Len(events') <= QueueSz
  BY UsbAssumption DEF TypeOK, Enqueue

(* What the interrupt handler sends are events. *)
LEMMA EventTypes ==
  /\ [id |-> "reset"] \in Events
  /\ \A r \in Requests : [id |-> "setup", req |-> r] \in Events
  /\ \A e \in Endpoints : [id |-> "xfer", ep |-> e] \in Events
  BY DEF Events

(* A completed transfer keeps the types. *)
LEMMA CompletedTypes ==
  ASSUME TypeOK, NEW e \in Endpoints, Completed(e)
  PROVE  /\ events' \in Seq(Events) /\ Len(events') <= QueueSz
         /\ armed' \subseteq Endpoints /\ stalling' \subseteq Endpoints
         /\ open' \in BOOLEAN /\ wire' \in Reports /\ wakes' \in 0..ResetWakes
<1>1. [id |-> "xfer", ep |-> e] \in Events
  BY EventTypes
<1>2. events' \in Seq(Events) /\ Len(events') <= QueueSz
  BY <1>1, EnqueueTypes, Zenon DEF Completed
<1>3. wire' \in Reports
  BY ConstTypes, Zenon DEF Completed, TypeOK
<1> QED
  BY <1>2, <1>3 DEF Completed, TypeOK

(* So do the events on the bus, *)
LEMMA BusKeepsTypes ==
  ASSUME TypeOK, UsbRst \/ ControlStage \/ Poll \/ \E r \in Requests : Setup(r)
  PROVE  TypeOK'
<1> USE UsbAssumption
<1>1. CASE UsbRst
  <2>1. disturb' \in 0..MaxDisturb /\ wakes' \in 0..ResetWakes
    BY <1>1 DEF UsbRst, MayDisturb, TypeOK, ResetWakes
  <2>2. events' \in Seq(Events) /\ Len(events') <= QueueSz /\ wire' \in Reports
    BY <1>1, ConstTypes, Zenon DEF UsbRst, TypeOK
  <2> QED
    BY <1>1, <2>1, <2>2, BusEventTypes DEF UsbRst, TypeOK
<1>2. CASE EnumDone
  <2>1. events' \in Seq(Events) /\ Len(events') <= QueueSz
    BY <1>2, EventTypes, EnqueueTypes, Zenon DEF EnumDone
  <2> QED
    BY <1>2, <2>1, BusEventTypes DEF EnumDone, TypeOK
<1>3. CASE DataIn
  BY <1>3, CompletedTypes, ConstTypes, BusEventTypes DEF DataIn, TypeOK
<1>4. CASE StatusOut
  BY <1>4, CompletedTypes, ConstTypes, BusEventTypes DEF StatusOut, TypeOK
<1>5. CASE DataOut
  BY <1>5, CompletedTypes, ConstTypes, BusEventTypes DEF DataOut, TypeOK
<1>6. CASE StatusIn
  BY <1>6, CompletedTypes, ConstTypes, BusEventTypes DEF StatusIn, TypeOK
<1>7. CASE SeesStall
  <2>1. bus' \in {"off", "reset", "idle", "data_in", "status_out", "data_out", "status_in"}
        /\ asked' \in Requests \cup {"none"}
    BY <1>7 DEF SeesStall
  <2> QED
    BY <1>7, <2>1 DEF SeesStall, TypeOK, hidvars, usbdvars, dcdvars, adcvars
<1>8. CASE Poll
  BY <1>8, CompletedTypes, ConstTypes, BusEventTypes DEF Poll, TypeOK, hostvars
<1>9. ASSUME NEW r \in Requests, Setup(r)
      PROVE  TypeOK'
  <2>1. events' \in Seq(Events) /\ Len(events') <= QueueSz
    BY <1>9, EventTypes, EnqueueTypes, Zenon DEF Setup
  <2>2. bus' \in {"off", "reset", "idle", "data_in", "status_out", "data_out", "status_in"}
    BY <1>9 DEF Setup, Kind
  <2>3. disturb' \in 0..MaxDisturb
    BY <1>9 DEF Setup, MayAsk, MayDisturb, TypeOK
  <2>4. armed' \subseteq Endpoints /\ stalling' \subseteq Endpoints
    BY <1>9 DEF Setup, TypeOK
  <2> QED
    BY <1>9, <2>1, <2>2, <2>3, <2>4, BusEventTypes DEF Setup, TypeOK
<1> QED
  BY <1>1, <1>2, <1>3, <1>4, <1>5, <1>6, <1>7, <1>8, <1>9, Zenon DEF ControlStage

(* The types of what a step of the device task changes. *)
LEMMA UsbdTypes ==
  ASSUME TypeOK, UNCHANGED <<hidvars, adcvars, hostvars, burst, wakes>>,
         st' \in [Endpoints -> EpState], ep_in' \in {CtlOut, HidIn},
         buf' \in Reports, wire' \in Reports,
         mutex' \in {"none", "hid"}, blocked' \in BOOLEAN, cfg' \in BOOLEAN,
         request' \in {"read", "write", "nodata"},
         events' \in Seq(Events) /\ Len(events') <= QueueSz,
         armed' \subseteq Endpoints, stalling' \subseteq Endpoints, open' \in BOOLEAN
  PROVE  TypeOK'
<1>1. UNCHANGED <<hpc, x, y, claiming, target, loaded>>
  BY Zenon DEF hidvars
<1>2. UNCHANGED <<jdr1, jdr2, rank, converting, burst, wakes>>
  BY Zenon DEF adcvars
<1>3. UNCHANGED <<bus, asked, known, mounted, disturb>>
  BY Zenon DEF hostvars
<1>4. /\ hpc' \in HidLabels /\ x' \in -3..3 /\ y' \in -3..3
      /\ claiming' \in Endpoints /\ target' \in Endpoints /\ loaded' \in EpState
  BY <1>1, Zenon DEF TypeOK
<1>5. /\ jdr1' \in AdcVals \cup {0} /\ jdr2' \in AdcVals \cup {0}
      /\ rank' \in {1, 2} /\ converting' \in BOOLEAN
      /\ burst' \in 0..Burst /\ wakes' \in 0..ResetWakes
  BY <1>2, Zenon DEF TypeOK
<1>6. /\ bus' \in {"off", "reset", "idle", "data_in", "status_out", "data_out", "status_in"}
      /\ asked' \in Requests \cup {"none"}
      /\ known' \in BOOLEAN /\ mounted' \in BOOLEAN /\ disturb' \in 0..MaxDisturb
  BY <1>3, Zenon DEF TypeOK
<1> QED
  BY <1>4, <1>5, <1>6, Zenon DEF TypeOK

(* and whatever the device task handles. *)
LEMMA UsbdKeepsTypes ==
  ASSUME TypeOK, UsbdStep
  PROVE  TypeOK'
<1> DEFINE Fits == /\ UNCHANGED <<hidvars, adcvars, hostvars, burst, wakes>>
                   /\ events' \in Seq(Events) /\ Len(events') <= QueueSz
<1>a. ASSUME NEW id, Handle(id) PROVE Fits
  <2>1. Tail(events) \in Seq(Events) /\ Len(Tail(events)) <= QueueSz
    BY <1>a, UsbAssumption DEF TypeOK, Handle
  <2> QED
    BY <1>a, <2>1, Zenon DEF Handle
<1>b. AfterSetup \in [Endpoints -> EpState] /\ [e \in Endpoints |-> Free] \in [Endpoints -> EpState]
  <2>1. Released(st, CtlOut) \in [Endpoints -> EpState]
    BY StateTypes, ConstTypes DEF TypeOK
  <2> QED
    BY <2>1, StateTypes, ConstTypes DEF AfterSetup
<1>c. ASSUME NEW s \in [Endpoints -> EpState], NEW e \in Endpoints, NEW r, Respond(s, e, r)
      PROVE  st' \in [Endpoints -> EpState] /\ request' \in {"read", "write", "nodata"}
  BY <1>c, StateTypes DEF Respond, Kind
<1>d. ASSUME NEW s \in [Endpoints -> EpState], ClaimAndSend(s)
      PROVE  /\ st' \in [Endpoints -> EpState] /\ buf' \in Reports /\ wire' \in Reports
             /\ armed' \subseteq Endpoints
  <2>0. ep_in \in Endpoints
    BY ConstTypes DEF TypeOK
  <2>1. CASE s[ep_in].busy \/ s[ep_in].claimed
    BY <1>d, <2>1 DEF ClaimAndSend, TypeOK
  <2>2. CASE ~(s[ep_in].busy \/ s[ep_in].claimed)
    <3>1. st' \in [Endpoints -> EpState]
      <4>1. st' = [s EXCEPT ![ep_in].claimed = TRUE, ![ep_in].busy = TRUE]
        BY <1>d, <2>2, Zenon DEF ClaimAndSend
      <4> QED
        BY <4>1, <2>0, StateTypes
    <3>2. buf' \in Reports /\ wire' \in Reports
      BY <1>d, <2>2, ConstTypes, Zenon DEF ClaimAndSend, TypeOK
    <3> QED
      BY <1>d, <2>2, <2>0, <3>1, <3>2 DEF ClaimAndSend, TypeOK
  <2> QED
    BY <2>1, <2>2
<1>1. CASE OnBusReset
  BY <1>1, <1>a, <1>b, ConstTypes, UsbdTypes DEF OnBusReset, TypeOK, dcdvars
<1>2. CASE OnRejected
  BY <1>2, <1>a, <1>b, ConstTypes, UsbdTypes DEF OnRejected, OnSetup, TypeOK
<1>3. CASE OnGet
  BY <1>3, <1>a, <1>b, <1>c, ConstTypes, UsbdTypes DEF OnGet, OnSetup, TypeOK
<1>4. CASE OnSetAddress
  BY <1>4, <1>a, <1>b, <1>c, ConstTypes, UsbdTypes DEF OnSetAddress, OnSetup, TypeOK
<1>5. CASE OnSetConfig
  BY <1>5, <1>a, <1>b, <1>c, ConstTypes, UsbdTypes DEF OnSetConfig, OnSetup, TypeOK
<1>6. CASE OnUnsetConfig
  BY <1>6, <1>a, <1>b, <1>c, ConstTypes, UsbdTypes DEF OnUnsetConfig, OnSetup, TypeOK
<1>7. CASE OnSetReport
  BY <1>7, <1>a, <1>b, <1>c, ConstTypes, UsbdTypes DEF OnSetReport, OnSetup, TypeOK
<1>8. CASE OnGetReport
  BY <1>8, <1>a, <1>b, <1>c, ConstTypes, UsbdTypes DEF OnGetReport, OnSetup, TypeOK
<1>9. CASE OnHalt
  <2> DEFINE s == IF st[HidIn].stalled THEN AfterSetup
                  ELSE [AfterSetup EXCEPT ![HidIn].stalled = TRUE, ![HidIn].busy = TRUE]
  <2>1. s \in [Endpoints -> EpState]
    BY <1>b, ConstTypes, StateTypes
  <2>2. Respond(s, CtlIn, "halt")
    BY <1>9, Zenon DEF OnHalt
  <2> HIDE DEF s
  <2>3. st' \in [Endpoints -> EpState] /\ request' \in {"read", "write", "nodata"}
    BY <2>1, <2>2, <1>c, ConstTypes
  <2>4. Fits /\ UNCHANGED <<ep_in, buf, mutex, blocked, cfg, open>>
    BY <1>9, <1>a, Zenon DEF OnHalt, OnSetup
  <2>5. armed' \subseteq Endpoints /\ stalling' \subseteq Endpoints /\ wire' \in Reports
    BY <1>9, ConstTypes DEF OnHalt, TypeOK
  <2> QED
    BY <2>3, <2>4, <2>5, UsbdTypes DEF TypeOK
<1>10. CASE OnClearHalt
  <2> DEFINE s == IF st[HidIn].stalled
                  THEN [AfterSetup EXCEPT ![HidIn].stalled = FALSE, ![HidIn].busy = FALSE]
                  ELSE AfterSetup
  <2>1. s \in [Endpoints -> EpState]
    BY <1>b, ConstTypes, StateTypes
  <2>2. Respond(s, CtlIn, "clear_halt")
    BY <1>10, Zenon DEF OnClearHalt
  <2> HIDE DEF s
  <2>3. st' \in [Endpoints -> EpState] /\ request' \in {"read", "write", "nodata"}
    BY <2>1, <2>2, <1>c, ConstTypes
  <2>4. Fits /\ UNCHANGED <<ep_in, buf, mutex, blocked, cfg, open, wire>>
    BY <1>10, <1>a, Zenon DEF OnClearHalt, OnSetup
  <2>5. armed' \subseteq Endpoints /\ stalling' \subseteq Endpoints
    BY <1>10, ConstTypes DEF OnClearHalt, TypeOK
  <2> QED
    BY <2>3, <2>4, <2>5, UsbdTypes DEF TypeOK
<1>11. CASE OnReportSent
  BY <1>11, <1>a, ConstTypes, StateTypes, UsbdTypes DEF OnReportSent, OnXfer, TypeOK, dcdvars
<1>12. CASE OnDataInSent
  BY <1>12, <1>a, ConstTypes, StateTypes, UsbdTypes DEF OnDataInSent, OnXfer, TypeOK
<1>13. CASE OnDataOutReceived
  BY <1>13, <1>a, ConstTypes, StateTypes, UsbdTypes DEF OnDataOutReceived, OnXfer, TypeOK
<1>14. CASE OnStatus
  <2>1. Handle("xfer") /\ UNCHANGED <<ep_in, buf, mutex, blocked, cfg, request, dcdvars>>
    BY <1>14, Zenon DEF OnStatus, OnXfer
  <2>2. st' = Released(st, CtlOut) \/ st' = Released(st, CtlIn)
    BY <1>14, Zenon DEF OnStatus
  <2>3. st' \in [Endpoints -> EpState]
    <3>1. Released(st, CtlOut) \in [Endpoints -> EpState]
      BY ConstTypes, StateTypes DEF TypeOK
    <3>2. Released(st, CtlIn) \in [Endpoints -> EpState]
      BY ConstTypes, StateTypes DEF TypeOK
    <3> QED
      BY <2>2, <3>1, <3>2, Zenon
  <2> QED
    BY <1>a, <2>1, <2>3, UsbdTypes DEF TypeOK, dcdvars
<1>15. CASE OnSetReportDone
  <2> DEFINE s == Released(st, CtlIn)
  <2>1. s \in [Endpoints -> EpState]
    BY ConstTypes, StateTypes DEF TypeOK
  <2>2. /\ Handle("xfer") /\ UNCHANGED <<ep_in, mutex, cfg, request, open, stalling>>
        /\ \/ ClaimAndSend(s) /\ UNCHANGED blocked
           \/ st' = s /\ blocked' = TRUE /\ UNCHANGED <<buf, armed, wire>>
    BY <1>15, Zenon DEF OnSetReportDone, OnXfer
  <2> HIDE DEF s
  <2>0. Fits
    BY <1>a, <2>2, Zenon
  <2>3. CASE ClaimAndSend(s) /\ UNCHANGED blocked
    <3>1. /\ st' \in [Endpoints -> EpState] /\ buf' \in Reports /\ wire' \in Reports
          /\ armed' \subseteq Endpoints
      BY <1>d, <2>1, <2>3, Zenon
    <3> QED
      BY <2>0, <2>2, <2>3, <3>1, UsbdTypes DEF TypeOK
  <2>4. CASE st' = s /\ blocked' = TRUE /\ UNCHANGED <<buf, armed, wire>>
    BY <2>0, <2>1, <2>2, <2>4, UsbdTypes DEF TypeOK
  <2> QED
    BY <2>2, <2>3, <2>4
<1>16. CASE EchoResumes
  BY <1>16, <1>d, ConstTypes, UsbdTypes DEF EchoResumes, TypeOK
<1> QED
  BY <1>1, <1>2, <1>3, <1>4, <1>5, <1>6, <1>7, <1>8, <1>9, <1>10, <1>11, <1>12, <1>13, <1>14,
     <1>15, <1>16, Zenon DEF UsbdStep

(* Every variable keeps its type in every state that the mouse can reach:  *)
(* ep_in is the open endpoint or 0, the deltas fit the report descriptor's *)
(* range, and the queue's length stays within its capacity.                *)
THEOREM UsbTypes == SafeSpec => []TypeOK
<1>1. TypeOK /\ [Next]_vars => TypeOK'
  <2> SUFFICES ASSUME TypeOK, [Next]_vars
               PROVE  TypeOK'
    OBVIOUS
  <2>1. CASE Next
    BY <2>1, HidKeepsTypes, UsbdKeepsTypes, AdcKeepsTypes, BusKeepsTypes, Zenon DEF Next
  <2>2. CASE UNCHANGED vars
    BY <2>2 DEF TypeOK, vars, hidvars, usbdvars, dcdvars, adcvars, hostvars
  <2> QED
    BY <2>1, <2>2
<1> QED
  BY <1>1, InitTypes, PTL DEF SafeSpec

-----------------------------------------------------------------------------
(* The event queue *)

(* The sorts of an event: a bus reset, a SETUP packet, or the endpoint of a *)
(* transfer that is complete.                                               *)
Sorts == {"reset", "setup"} \cup Endpoints
Sort(ev) == IF ev.id = "xfer" THEN ev.ep ELSE ev.id

(* Queue q has an event of sort k; one of sort k before one of sort l; and *)
(* three in this order.                                                    *)
Has(q, k) == \E i \in 1 .. Len(q) : Sort(q[i]) = k
Before(q, k, l) == \E i, j \in 1 .. Len(q) : i < j /\ Sort(q[i]) = k /\ Sort(q[j]) = l
Three(q, k, l, m) ==
  \E i, j, n \in 1 .. Len(q) : i < j /\ j < n /\ Sort(q[i]) = k /\ Sort(q[j]) = l /\ Sort(q[n]) = m
(* A SETUP packet with request r is in the queue. *)
Asks(q, r) == \E i \in 1 .. Len(q) : q[i].id = "setup" /\ q[i].req = r

(* The sorts of the events that are sent. *)
LEMMA SortTypes ==
  /\ \A ev \in Events : Sort(ev) \in Sorts /\ (ev.id = "xfer" => ev.ep \in Endpoints)
  /\ \A e \in Endpoints : Sort([id |-> "xfer", ep |-> e]) = e
  /\ \A r : Sort([id |-> "setup", req |-> r]) = "setup"
  /\ Sort([id |-> "reset"]) = "reset"
  BY DEF Sort, Sorts, Events, Endpoints

(* Nothing is in the empty queue. *)
LEMMA EmptyQueue ==
  /\ \A k : ~Has(<<>>, k)
  /\ \A k, l : ~Before(<<>>, k, l)
  /\ \A k, l, m : ~Three(<<>>, k, l, m)
  /\ \A r : ~Asks(<<>>, r)
  BY DEF Has, Before, Three, Asks

(* What is in the queue after osal_queue_send, *)
LEMMA AppendQueue ==
  ASSUME NEW q \in Seq(Events), NEW ev \in Events, NEW p, p = Append(q, ev)
  PROVE  /\ \A k : Has(p, k) <=> Has(q, k) \/ Sort(ev) = k
         /\ \A k, l : Before(p, k, l) <=> Before(q, k, l) \/ (Has(q, k) /\ Sort(ev) = l)
         /\ \A k, l, m : Three(p, k, l, m) <=> Three(q, k, l, m) \/ (Before(q, k, l) /\ Sort(ev) = m)
         /\ \A r : Asks(p, r) <=> Asks(q, r) \/ (ev.id = "setup" /\ ev.req = r)
<1>1. /\ Len(p) = Len(q) + 1 /\ Len(q) \in Nat
      /\ \A i \in 1 .. Len(q) : p[i] = q[i]
      /\ p[Len(q) + 1] = ev
  OBVIOUS
<1> DEFINE n == Len(q)
<1>2. Len(p) = n + 1 /\ n \in Nat /\ (\A i \in 1 .. n : p[i] = q[i]) /\ p[n + 1] = ev
  BY <1>1
<1>3. Len(q) = n
  OBVIOUS
<1> HIDE DEF n
<1>4. ASSUME NEW k PROVE Has(p, k) <=> Has(q, k) \/ Sort(ev) = k
  BY <1>2, <1>3 DEF Has
<1>5. ASSUME NEW k, NEW l PROVE Before(p, k, l) <=> Before(q, k, l) \/ (Has(q, k) /\ Sort(ev) = l)
  BY <1>2, <1>3 DEF Has, Before
<1>6. ASSUME NEW k, NEW l, NEW m
      PROVE  Three(p, k, l, m) <=> Three(q, k, l, m) \/ (Before(q, k, l) /\ Sort(ev) = m)
  BY <1>2, <1>3 DEF Before, Three
<1>7. ASSUME NEW r PROVE Asks(p, r) <=> Asks(q, r) \/ (ev.id = "setup" /\ ev.req = r)
  BY <1>2, <1>3 DEF Asks
<1> QED
  BY <1>4, <1>5, <1>6, <1>7, Zenon

(* and before osal_queue_receive, in terms of what remains. *)
LEMMA TailQueue ==
  ASSUME NEW q \in Seq(Events), q # <<>>
  PROVE  LET p == Tail(q)
             ev == Head(q)
         IN  /\ \A k : Has(q, k) <=> Has(p, k) \/ Sort(ev) = k
             /\ \A k, l : Before(q, k, l) <=> Before(p, k, l) \/ (Sort(ev) = k /\ Has(p, l))
             /\ \A k, l, m : Three(q, k, l, m) <=> Three(p, k, l, m) \/ (Sort(ev) = k /\ Before(p, l, m))
             /\ \A r : Asks(q, r) <=> Asks(p, r) \/ (ev.id = "setup" /\ ev.req = r)
<1> DEFINE p == Tail(q)
           ev == Head(q)
           n == Len(p)
<1>2. Len(q) = n + 1 /\ n \in Nat /\ (\A i \in 1 .. n : p[i] = q[i + 1]) /\ q[1] = ev
  OBVIOUS
<1>3. Len(p) = n
  OBVIOUS
<1>0. \A i \in 2 .. n + 1 : i - 1 \in 1 .. n /\ p[i - 1] = q[i]
  BY <1>2
<1> HIDE DEF n, p, ev
<1>4. ASSUME NEW k PROVE Has(q, k) <=> Has(p, k) \/ Sort(ev) = k
  <2>1. ASSUME NEW i \in 1 .. n + 1, Sort(q[i]) = k, Sort(ev) # k PROVE Has(p, k)
    <3>1. i \in 2 .. n + 1
      BY <1>2, <2>1
    <3> QED
      BY <1>0, <1>3, <2>1, <3>1 DEF Has
  <2> QED
    BY <1>2, <1>3, <2>1 DEF Has
<1>5. ASSUME NEW k, NEW l PROVE Before(q, k, l) <=> Before(p, k, l) \/ (Sort(ev) = k /\ Has(p, l))
  <2>1. ASSUME NEW i \in 1 .. n + 1, NEW j \in 1 .. n + 1, i < j, Sort(q[i]) = k, Sort(q[j]) = l
        PROVE  Before(p, k, l) \/ (Sort(ev) = k /\ Has(p, l))
    <3>1. j \in 2 .. n + 1 /\ j - 1 \in 1 .. n /\ Sort(p[j - 1]) = l
      BY <1>2, <1>0, <2>1
    <3>2. CASE i = 1
      BY <1>2, <1>3, <2>1, <3>1, <3>2 DEF Has
    <3>3. CASE i # 1
      <4>1. i \in 2 .. n + 1 /\ i - 1 \in 1 .. n /\ Sort(p[i - 1]) = k /\ i - 1 < j - 1
        BY <1>2, <1>0, <2>1, <3>3
      <4> QED
        BY <1>3, <3>1, <4>1 DEF Before
    <3> QED
      BY <3>2, <3>3
  <2>2. ASSUME Before(p, k, l) PROVE Before(q, k, l)
    <3>1. PICK i, j \in 1 .. n : i < j /\ Sort(p[i]) = k /\ Sort(p[j]) = l
      BY <1>3, <2>2 DEF Before
    <3>2. /\ i + 1 \in 1 .. Len(q) /\ j + 1 \in 1 .. Len(q) /\ i + 1 < j + 1
          /\ Sort(q[i + 1]) = k /\ Sort(q[j + 1]) = l
      BY <1>2, <3>1
    <3> QED
      BY <3>2 DEF Before
  <2>3. ASSUME Sort(ev) = k, Has(p, l) PROVE Before(q, k, l)
    BY <1>2, <1>3, <2>3 DEF Before, Has
  <2> QED
    BY <1>2, <2>1, <2>2, <2>3 DEF Before
<1>6. ASSUME NEW k, NEW l, NEW m
      PROVE  Three(q, k, l, m) <=> Three(p, k, l, m) \/ (Sort(ev) = k /\ Before(p, l, m))
  <2>1. ASSUME NEW i \in 1 .. n + 1, NEW j \in 1 .. n + 1, NEW h \in 1 .. n + 1,
               i < j, j < h, Sort(q[i]) = k, Sort(q[j]) = l, Sort(q[h]) = m
        PROVE  Three(p, k, l, m) \/ (Sort(ev) = k /\ Before(p, l, m))
    <3>1. /\ j - 1 \in 1 .. n /\ Sort(p[j - 1]) = l
          /\ h - 1 \in 1 .. n /\ Sort(p[h - 1]) = m
          /\ j - 1 < h - 1
      BY <1>2, <1>0, <2>1
    <3>2. CASE i = 1
      BY <1>2, <1>3, <2>1, <3>1, <3>2 DEF Before
    <3>3. CASE i # 1
      <4>1. i \in 2 .. n + 1 /\ i - 1 \in 1 .. n /\ Sort(p[i - 1]) = k /\ i - 1 < j - 1
        BY <1>2, <1>0, <2>1, <3>3
      <4> QED
        BY <1>3, <3>1, <4>1 DEF Three
    <3> QED
      BY <3>2, <3>3
  <2>2. ASSUME Three(p, k, l, m) PROVE Three(q, k, l, m)
    <3>1. PICK i, j, h \in 1 .. n : i < j /\ j < h /\ Sort(p[i]) = k /\ Sort(p[j]) = l /\ Sort(p[h]) = m
      BY <1>3, <2>2 DEF Three
    <3>2. /\ i + 1 \in 1 .. Len(q) /\ j + 1 \in 1 .. Len(q) /\ h + 1 \in 1 .. Len(q)
          /\ i + 1 < j + 1 /\ j + 1 < h + 1
          /\ Sort(q[i + 1]) = k /\ Sort(q[j + 1]) = l /\ Sort(q[h + 1]) = m
      BY <1>2, <3>1
    <3> QED
      BY <3>2 DEF Three
  <2>3. ASSUME Sort(ev) = k, Before(p, l, m) PROVE Three(q, k, l, m)
    BY <1>2, <1>3, <2>3 DEF Three, Before
  <2> QED
    BY <1>2, <2>1, <2>2, <2>3 DEF Three
<1>7. ASSUME NEW r PROVE Asks(q, r) <=> Asks(p, r) \/ (ev.id = "setup" /\ ev.req = r)
  <2>1. ASSUME NEW i \in 1 .. n + 1, q[i].id = "setup", q[i].req = r
        PROVE  Asks(p, r) \/ (ev.id = "setup" /\ ev.req = r)
    BY <1>2, <1>0, <1>3, <2>1 DEF Asks
  <2> QED
    BY <1>2, <1>3, <2>1 DEF Asks
<1> QED
  BY <1>4, <1>5, <1>6, <1>7, Zenon DEF p, ev

(* Events in an order are events in the queue. *)
LEMMA QueueParts ==
  ASSUME NEW q
  PROVE  /\ \A r : Asks(q, r) => Has(q, "setup")
         /\ \A k, l : Before(q, k, l) => Has(q, k) /\ Has(q, l)
<1>1. ASSUME NEW r, Asks(q, r)
      PROVE  Has(q, "setup")
  <2>1. PICK i \in 1 .. Len(q) : q[i].id = "setup"
    BY <1>1, Zenon DEF Asks
  <2>2. Sort(q[i]) = "setup"
    BY <2>1 DEF Sort
  <2> QED
    BY <2>2, Zenon DEF Has
<1>2. ASSUME NEW k, NEW l, Before(q, k, l)
      PROVE  Has(q, k) /\ Has(q, l)
  BY <1>2, Zenon DEF Before, Has
<1> QED
  BY <1>1, <1>2, Zenon

-----------------------------------------------------------------------------
(* What is in it *)

(* The order of the events in the queue.  There is one SETUP packet at     *)
(* most, and a completed transfer of ep0 in only before it; what ep0 out   *)
(* completes is at most two transfers, two only around a SETUP packet; the *)
(* HID endpoint completes at most two transfers, since it is armed again   *)
(* only by handling what its last one sent; a bus reset finds the queue    *)
(* empty.                                                                  *)
Shape(q) ==
  /\ ~Before(q, "setup", "setup") /\ ~Before(q, "setup", CtlIn)
  /\ ~Before(q, CtlIn, CtlIn) /\ ~Before(q, CtlOut, CtlIn)
  /\ ~Three(q, CtlOut, CtlOut, CtlOut)
  /\ ~Three(q, CtlOut, CtlOut, "setup") /\ ~Three(q, "setup", CtlOut, CtlOut)
  /\ Before(q, CtlOut, CtlOut) => Has(q, "setup")
  /\ ~Three(q, HidIn, HidIn, HidIn) /\ ~Three(q, CtlIn, HidIn, HidIn)
  /\ \A k \in Sorts : ~Before(q, k, "reset")

(* The HID endpoint is not armed when two of its transfers are queued, or *)
(* one behind the status stage of SET_REPORT, whose echo armed it again.  *)
PollInv ==
  /\ Before(events, HidIn, HidIn) \/ Before(events, CtlIn, HidIn) => HidIn \notin armed
  /\ blocked => /\ ~Before(events, HidIn, HidIn)
                /\ Has(events, HidIn) => HidIn \notin armed

(* What the device task knows of its configuration, and what the host and *)
(* the queue know of it.                                                  *)
ConfigInv ==
  /\ cfg <=> ep_in = HidIn
  /\ request = "write" => cfg
  /\ bus \in {"off", "reset"} => ~known /\ ~mounted
  /\ known => ~Has(events, "reset")
  /\ mounted => cfg /\ ~Has(events, "reset") /\ ~Asks(events, "unset_config")
  /\ asked = "set_config" /\ bus = "status_in" /\ ~Has(events, "setup") => cfg
  /\ Has(events, "reset") /\ bus \notin {"idle", "reset"} => Has(events, "setup")
  /\ Asks(events, "set_report") \/ Asks(events, "get_report") =>
       cfg /\ ~Has(events, "reset")

(* The stage the host's control transfer is in, against what is queued, *)
(* armed and stalled on endpoint 0: the host goes on only with what the *)
(* device task has scheduled.                                           *)
StageInv ==
  /\ bus \in {"off", "idle", "reset"} => asked = "none"
  /\ bus \in {"data_in", "status_out"} => asked \in {"get", "get_report"}
  /\ bus = "data_out" => asked = "set_report"
  /\ bus = "status_in" => asked \notin {"none", "get", "get_report"}
  /\ \A r : Asks(events, r) => bus = "reset" \/ r = asked
  /\ Has(events, "setup") => /\ CtlIn \notin armed /\ CtlIn \notin stalling
                             /\ bus \in {"data_in", "data_out", "status_in", "reset"}
  /\ CtlIn \in armed => ~Has(events, CtlIn)
  /\ blocked => CtlIn \notin armed /\ ~Has(events, CtlIn) /\ request = "write"
  /\ bus = "data_out" /\ ~Has(events, "setup") => CtlIn \notin armed /\ CtlIn \notin stalling
  /\ bus = "data_out" => ~Before(events, CtlOut, CtlOut)
  /\ bus = "data_in" /\ CtlIn \in armed => request = "read"
  /\ bus = "status_out" => request = "read"
  /\ bus = "idle" /\ Has(events, CtlOut) => request # "write"
  /\ Before(events, CtlOut, "setup") => request # "write"
  /\ Before(events, "setup", CtlOut) =>
       bus = "reset" \/ (bus = "status_in" /\ asked = "set_report")
  /\ Has(events, CtlOut) /\ ~Has(events, "setup") =>
       \/ bus \in {"idle", "reset"}
       \/ bus = "status_in" /\ asked = "set_report" /\ CtlIn \notin armed /\ CtlIn \notin stalling

(* The statements usb_hid_task executes with _usbd_mutex. *)
Critical == {"check", "load", "store", "unlock", "unlock_failed"}

(* It holds the mutex there only, and the device task waits for it only as *)
(* long as usb_hid_task, having it or just having given it back, has not   *)
(* run on.  usb_hid_task never works on ep0 in.                            *)
MutexInv ==
  /\ mutex = "hid" <=> hpc \in Critical
  /\ blocked => hpc \in Critical \cup {"copy", "convert"}
  /\ claiming # CtlIn /\ target # CtlIn

(* The inductive invariant behind QueueSuffices. *)
QueueInv == TypeOK /\ Shape(events) /\ PollInv /\ ConfigInv /\ StageInv /\ MutexInv

(* Seven events at most: a reset, a SETUP packet, a transfer of ep0 in, two *)
(* of ep0 out and two of the HID endpoint.                                  *)
LEMMA ShapeBound ==
  ASSUME NEW q \in Seq(Events), Shape(q)
  PROVE  Len(q) <= 7
<1> SUFFICES ASSUME Len(q) > 7
             PROVE  FALSE
  OBVIOUS
<1> DEFINE s(i) == Sort(q[i])
<1>1. \A i \in 1 .. 8 : i \in 1 .. Len(q) /\ s(i) \in Sorts
  BY SortTypes
<1>2. \A i, j \in 1 .. 8 : i < j => ~(s(i) = "setup" /\ s(j) = "setup") /\ ~(s(i) = CtlIn /\ s(j) = CtlIn)
  BY <1>1 DEF Shape, Before
<1>3. \A i, j, k \in 1 .. 8 : i < j /\ j < k => /\ ~(s(i) = CtlOut /\ s(j) = CtlOut /\ s(k) = CtlOut)
                                               /\ ~(s(i) = HidIn /\ s(j) = HidIn /\ s(k) = HidIn)
  BY <1>1 DEF Shape, Three
<1>4. \A i \in 2 .. 8 : s(i) \in {"setup", CtlIn, CtlOut, HidIn}
  <2> SUFFICES ASSUME NEW i \in 2 .. 8
               PROVE  s(i) \in {"setup", CtlIn, CtlOut, HidIn}
    OBVIOUS
  <2>1. s(i) # "reset"
    <3>1. 1 \in 1 .. Len(q) /\ i \in 1 .. Len(q) /\ 1 < i /\ s(1) \in Sorts
      BY <1>1
    <3> QED
      BY <3>1 DEF Shape, Before
  <2> QED
    BY <1>1, <2>1 DEF Sorts, Endpoints
<1> HIDE DEF s
<1> QED
  BY <1>2, <1>3, <1>4

(* Queue p is q with an event of sort k at its end, with request r. *)
Grows(q, p, k, r) ==
  /\ \A l : Has(p, l) <=> Has(q, l) \/ l = k
  /\ \A l, m : Before(p, l, m) <=> Before(q, l, m) \/ (Has(q, l) /\ m = k)
  /\ \A l, m, n : Three(p, l, m, n) <=> Three(q, l, m, n) \/ (Before(q, l, m) /\ n = k)
  /\ \A s : Asks(p, s) <=> Asks(q, s) \/ (k = "setup" /\ s = r)

(* Queue p is q without its first event, which is of sort k. *)
Shrinks(q, p, k) ==
  /\ \A l : Has(q, l) <=> Has(p, l) \/ l = k
  /\ \A l, m : Before(q, l, m) <=> Before(p, l, m) \/ (l = k /\ Has(p, m))
  /\ \A l, m, n : Three(q, l, m, n) <=> Three(p, l, m, n) \/ (l = k /\ Before(p, m, n))
  /\ \A s : Asks(p, s) => Asks(q, s)

(* As long as the order is kept no event is lost by osal_queue_send. *)
LEMMA QueueGrows ==
  ASSUME QueueInv, QueueSz >= 8
  PROVE  /\ Enqueue([id |-> "reset"]) => Grows(events, events', "reset", "none")
         /\ \A r \in Requests : Enqueue([id |-> "setup", req |-> r]) => Grows(events, events', "setup", r)
         /\ \A e \in Endpoints : Enqueue([id |-> "xfer", ep |-> e]) => Grows(events, events', e, "none")
<1>1. events \in Seq(Events) /\ Len(events) < QueueSz
  <2>1. events \in Seq(Events) /\ Len(events) <= 7
    BY ShapeBound DEF QueueInv, TypeOK
  <2> QED
    BY <2>1, UsbAssumption
<1>2. ASSUME NEW ev \in Events, Enqueue(ev)
      PROVE  events' = Append(events, ev)
  BY <1>1, <1>2 DEF Enqueue
<1>3. ASSUME NEW ev \in Events, Enqueue(ev)
      PROVE  /\ \A k : Has(events', k) <=> Has(events, k) \/ Sort(ev) = k
             /\ \A k, l : Before(events', k, l) <=> Before(events, k, l) \/ (Has(events, k) /\ Sort(ev) = l)
             /\ \A k, l, m : Three(events', k, l, m) <=>
                               Three(events, k, l, m) \/ (Before(events, k, l) /\ Sort(ev) = m)
             /\ \A r : Asks(events', r) <=> Asks(events, r) \/ (ev.id = "setup" /\ ev.req = r)
  BY <1>1, <1>2, <1>3, AppendQueue, Zenon
<1>4. Enqueue([id |-> "reset"]) => Grows(events, events', "reset", "none")
  <2> DEFINE ev == [id |-> "reset"]
  <2>1. ev \in Events /\ Sort(ev) = "reset" /\ ev.id # "setup"
    BY EventTypes, SortTypes
  <2> HIDE DEF ev
  <2> SUFFICES ASSUME Enqueue(ev) PROVE Grows(events, events', "reset", "none")
    BY Zenon DEF ev
  <2> QED
    BY <1>3, <2>1 DEF Grows
<1>5. ASSUME NEW r \in Requests, Enqueue([id |-> "setup", req |-> r])
      PROVE  Grows(events, events', "setup", r)
  <2> DEFINE ev == [id |-> "setup", req |-> r]
  <2>1. ev \in Events /\ Sort(ev) = "setup" /\ ev.id = "setup" /\ ev.req = r /\ Enqueue(ev)
    BY <1>5, EventTypes, SortTypes
  <2> HIDE DEF ev
  <2> QED
    BY <1>3, <2>1 DEF Grows
<1>6. ASSUME NEW e \in Endpoints, Enqueue([id |-> "xfer", ep |-> e])
      PROVE  Grows(events, events', e, "none")
  <2> DEFINE ev == [id |-> "xfer", ep |-> e]
  <2>1. ev \in Events /\ Sort(ev) = e /\ ev.id # "setup" /\ Enqueue(ev)
    BY <1>6, EventTypes, SortTypes
  <2>2. e # "setup"
    BY DEF Endpoints, CtlOut, CtlIn, HidIn
  <2> HIDE DEF ev
  <2> QED
    BY <1>3, <2>1, <2>2 DEF Grows
<1> QED
  BY <1>4, <1>5, <1>6, Zenon

(* osal_queue_receive. *)
LEMMA QueueShrinks ==
  ASSUME TypeOK, NEW id, Handle(id)
  PROVE  /\ id = "reset" => Shrinks(events, events', "reset")
         /\ id = "setup" => Shrinks(events, events', "setup") /\ Asks(events, Head(events).req)
         /\ id = "xfer" => Shrinks(events, events', Head(events).ep)
<1> DEFINE ev == Head(events)
<1>1. events \in Seq(Events) /\ events # <<>> /\ events' = Tail(events) /\ ev.id = id
  BY Zenon DEF Handle, TypeOK
<1>2. /\ \A k : Has(events, k) <=> Has(events', k) \/ Sort(ev) = k
      /\ \A k, l : Before(events, k, l) <=> Before(events', k, l) \/ (Sort(ev) = k /\ Has(events', l))
      /\ \A k, l, m : Three(events, k, l, m) <=>
                        Three(events', k, l, m) \/ (Sort(ev) = k /\ Before(events', l, m))
      /\ \A r : Asks(events, r) <=> Asks(events', r) \/ (ev.id = "setup" /\ ev.req = r)
  BY <1>1, TailQueue, Zenon
<1>3. Sort(ev) = IF id = "xfer" THEN ev.ep ELSE id
  BY <1>1, Zenon DEF Sort
<1> HIDE DEF ev
<1>4. Shrinks(events, events', Sort(ev))
  BY <1>2 DEF Shrinks
<1> QED
  BY <1>1, <1>2, <1>3, <1>4, Zenon DEF ev

(* The order survives the removal of the first event. *)
LEMMA ShapeShrinks ==
  ASSUME NEW q, NEW p, NEW k, Shape(q), Shrinks(q, p, k)
  PROVE  Shape(p)
  BY DEF Shape, Shrinks

(* The queue when it is empty. *)
LEMMA QueueEmpty ==
  ASSUME events = <<>>
  PROVE  /\ \A k : ~Has(events, k)
         /\ \A k, l : ~Before(events, k, l)
         /\ \A k, l, m : ~Three(events, k, l, m)
         /\ \A r : ~Asks(events, r)
  BY EmptyQueue

(* The invariant holds when the scheduler starts. *)
LEMMA InitQueue == Init => QueueInv
<1> SUFFICES ASSUME Init PROVE QueueInv
  OBVIOUS
<1>1. events = <<>>
  BY DEF Init
<1>2. Shape(events) /\ PollInv
  BY <1>1, QueueEmpty DEF Shape, PollInv, Init
<1>3. ConfigInv /\ StageInv
  BY <1>1, QueueEmpty DEF ConfigInv, StageInv, Init, CtlOut, HidIn
<1>4. MutexInv
  BY DEF MutexInv, Critical, Init, CtlOut, CtlIn
<1> QED
  BY <1>2, <1>3, <1>4, InitTypes DEF QueueInv

(* A step that leaves queue, endpoints and host alone keeps it. *)
LEMMA RestUnchanged ==
  ASSUME QueueInv, UNCHANGED <<usbdvars, events, dcdvars, hostvars, hpc, claiming, target>>, TypeOK'
  PROVE  QueueInv'
<1>1. Shape(events') /\ PollInv'
  BY Zenon DEF QueueInv, PollInv, usbdvars, dcdvars
<1>2. ConfigInv'
  BY Zenon DEF QueueInv, ConfigInv, usbdvars, hostvars
<1>3. StageInv'
  BY Zenon DEF QueueInv, StageInv, usbdvars, dcdvars, hostvars
<1>4. MutexInv'
  BY Zenon DEF QueueInv, MutexInv, usbdvars
<1> QED
  BY <1>1, <1>2, <1>3, <1>4, Zenon DEF QueueInv

(* usb_hid_task runs only while the device task waits, and leaves the queue *)
(* and the configuration alone.                                             *)
LEMMA HidQueue ==
  ASSUME HidStep
  PROVE  /\ UNCHANGED <<ep_in, blocked, cfg, request, events, stalling, hostvars>>
         /\ ~UsbdRuns
  BY Zenon DEF HidStep, Sample, ClaimArg, Precheck, Lock, Check, ClaimLoad, ClaimStore, Unlock, Copy,
     SubmitArg, BusyTest, BusyLoad, BusyStore, Arm, Convert, Goto

(* It arms at most the endpoint it read last. *)
LEMMA HidArms ==
  ASSUME HidStep
  PROVE  armed' = armed \/ (hpc = "arm" /\ armed' = armed \cup {target})
  BY Zenon DEF HidStep, Sample, ClaimArg, Precheck, Lock, Check, ClaimLoad, ClaimStore, Unlock, Copy,
     SubmitArg, BusyTest, BusyLoad, BusyStore, Arm, Convert, Goto

(* It gives the mutex back on both ways out of usbd_edpt_claim. *)
LEMMA HidKeepsMutex ==
  ASSUME TypeOK, MutexInv, HidStep
  PROVE  MutexInv'
<1> USE DEF MutexInv, Critical, Goto
<1>0. ~UsbdRuns /\ blocked' = blocked
  BY HidQueue, Zenon
<1>1. blocked => mutex = "hid"
  BY <1>0 DEF UsbdRuns, TypeOK
<1>r. ep_in # CtlIn /\ CtlOut # CtlIn
  BY DEF TypeOK, CtlOut, CtlIn, HidIn
<1>2. CASE Sample
  BY <1>0, <1>1, <1>2 DEF Sample
<1>3. CASE ClaimArg
  BY <1>0, <1>1, <1>3, <1>r DEF ClaimArg
<1>4. CASE Precheck
  BY <1>0, <1>1, <1>4 DEF Precheck
<1>5. CASE Lock
  BY <1>0, <1>1, <1>5 DEF Lock
<1>6. CASE Check
  BY <1>0, <1>1, <1>6 DEF Check
<1>7. CASE ClaimLoad
  BY <1>0, <1>1, <1>7 DEF ClaimLoad
<1>8. CASE ClaimStore
  BY <1>0, <1>1, <1>8 DEF ClaimStore
<1>9. CASE Unlock
  BY <1>0, <1>1, <1>9 DEF Unlock
<1>10. CASE Copy
  BY <1>0, <1>1, <1>10 DEF Copy
<1>11. CASE SubmitArg
  BY <1>0, <1>1, <1>11, <1>r DEF SubmitArg
<1>12. CASE BusyTest
  BY <1>0, <1>1, <1>12 DEF BusyTest
<1>13. CASE BusyLoad
  BY <1>0, <1>1, <1>13 DEF BusyLoad
<1>14. CASE BusyStore
  BY <1>0, <1>1, <1>14 DEF BusyStore
<1>15. CASE Arm
  BY <1>0, <1>1, <1>15 DEF Arm
<1>16. CASE Convert
  BY <1>0, <1>1, <1>16, <1>r DEF Convert, Forget
<1> QED
  BY <1>2, <1>3, <1>4, <1>5, <1>6, <1>7, <1>8, <1>9, <1>10, <1>11, <1>12, <1>13, <1>14, <1>15, <1>16,
     Zenon DEF HidStep

(* Its statements keep the invariant. *)
LEMMA HidKeepsQueue ==
  ASSUME QueueInv, HidStep
  PROVE  QueueInv'
<1>1. UNCHANGED <<ep_in, blocked, cfg, request, events, stalling, hostvars>> /\ ~UsbdRuns
  BY HidQueue
<1>2. TypeOK' /\ MutexInv'
  BY HidKeepsTypes, HidKeepsMutex, Zenon DEF QueueInv
<1>3. Shape(events') /\ ConfigInv'
  BY <1>1, Zenon DEF QueueInv, ConfigInv, hostvars
<1>4. CASE armed' = armed
  <2>1. PollInv'
    BY <1>1, <1>4, Zenon DEF QueueInv, PollInv
  <2>2. StageInv'
    BY <1>1, <1>4, Zenon DEF QueueInv, StageInv, hostvars
  <2> QED
    BY <1>2, <1>3, <2>1, <2>2, Zenon DEF QueueInv
<1>5. CASE hpc = "arm" /\ armed' = armed \cup {target}
  <2>1. ~blocked /\ events' = <<>> /\ events = <<>>
    BY <1>1, <1>5 DEF QueueInv, MutexInv, Critical, UsbdRuns
  <2>2. PollInv'
    BY <1>1, <2>1, EmptyQueue DEF PollInv
  <2>3. CtlIn \in armed' <=> CtlIn \in armed
    BY <1>5 DEF QueueInv, MutexInv
  <2>4. StageInv'
    BY <1>1, <2>1, <2>3, Zenon DEF QueueInv, StageInv, hostvars
  <2> QED
    BY <1>2, <1>3, <2>2, <2>4, Zenon DEF QueueInv
<1> QED
  BY <1>4, <1>5, HidArms

(* Events on the bus keep the invariant: what the host may do next follows *)
(* from the stage of its control transfer.                                 *)
LEMMA BusKeepsQueue ==
  ASSUME QueueInv, QueueSz >= 8,
         UsbRst \/ ControlStage \/ Poll \/ \E r \in Requests : Setup(r)
  PROVE  QueueInv'
<1>t. TypeOK'
  BY BusKeepsTypes, Zenon DEF QueueInv
<1>d. CtlIn # CtlOut /\ CtlIn # HidIn /\ HidIn # CtlOut
      /\ "setup" \notin Endpoints /\ "reset" \notin Endpoints
      /\ CtlIn \in Endpoints /\ HidIn \in Endpoints /\ CtlOut \in Endpoints
  BY DEF CtlIn, CtlOut, HidIn, Endpoints
<1>b. ASSUME UNCHANGED <<hidvars, usbdvars>>
      PROVE  MutexInv' /\ UNCHANGED <<ep_in, blocked, cfg, request>>
  BY <1>b, Zenon DEF QueueInv, MutexInv, hidvars, usbdvars
<1>a. /\ \A r : Asks(events, r) => Has(events, "setup")
      /\ \A k, l : Before(events, k, l) => Has(events, k) /\ Has(events, l)
  BY QueueParts, Zenon
<1> USE DEF QueueInv
<1>1. CASE UsbRst
  <2>1. MutexInv' /\ UNCHANGED <<ep_in, blocked, cfg, request>>
    BY <1>1, <1>b, Zenon DEF UsbRst, BusEvent
  <2>2. Shape(events') /\ PollInv'
    BY <1>1, <2>1 DEF UsbRst, PollInv
  <2>3. ConfigInv'
    BY <1>1, <2>1 DEF UsbRst, ConfigInv
  <2>4. StageInv'
    BY <1>1, <2>1 DEF UsbRst, StageInv
  <2> QED
    BY <1>t, <2>1, <2>2, <2>3, <2>4, Zenon
<1>2. CASE EnumDone
  <2>1. MutexInv' /\ UNCHANGED <<ep_in, blocked, cfg, request>>
    BY <1>2, <1>b, Zenon DEF EnumDone, BusEvent
  <2>2. Grows(events, events', "reset", "none") /\ events = <<>>
    BY <1>2, QueueGrows, Zenon DEF EnumDone
  <2>3. Shape(events') /\ PollInv'
    BY <1>2, <1>d, <2>1, <2>2, QueueEmpty DEF EnumDone, PollInv, Grows, Shape
  <2>4. ConfigInv'
    BY <1>2, <1>d, <2>1, <2>2, QueueEmpty DEF EnumDone, ConfigInv, Grows
  <2>5. StageInv'
    BY <1>2, <1>d, <2>1, <2>2, QueueEmpty DEF EnumDone, StageInv, Grows, Endpoints
  <2> QED
    BY <1>t, <2>1, <2>3, <2>4, <2>5, Zenon
<1>3. CASE DataIn
  <2>1. MutexInv' /\ UNCHANGED <<ep_in, blocked, cfg, request>>
    BY <1>3, <1>b, Zenon DEF DataIn, BusEvent
  <2>2. Grows(events, events', CtlIn, "none")
    BY <1>3, <1>d, QueueGrows, Zenon DEF DataIn, Completed
  <2>3. Shape(events') /\ PollInv'
    BY <1>3, <1>d, <2>1, <2>2 DEF DataIn, Completed, PollInv, Grows, Shape, StageInv, Endpoints
  <2>4. ConfigInv'
    BY <1>3, <1>d, <2>1, <2>2 DEF DataIn, Completed, ConfigInv, StageInv, Grows
  <2>5. StageInv'
    BY <1>3, <1>d, <2>1, <2>2 DEF DataIn, Completed, StageInv, Grows, Endpoints
  <2> QED
    BY <1>t, <2>1, <2>3, <2>4, <2>5, Zenon
<1>4. CASE StatusOut
  <2>1. MutexInv' /\ UNCHANGED <<ep_in, blocked, cfg, request>>
    BY <1>4, <1>b, Zenon DEF StatusOut, BusEvent
  <2>2. Grows(events, events', CtlOut, "none")
    BY <1>4, <1>d, QueueGrows, Zenon DEF StatusOut, Completed
  <2>3. Shape(events') /\ PollInv'
    BY <1>4, <1>d, <2>1, <2>2 DEF StatusOut, Completed, PollInv, Grows, Shape, StageInv, Endpoints
  <2>4. ConfigInv'
    BY <1>4, <1>d, <2>1, <2>2 DEF StatusOut, Completed, ConfigInv, StageInv, Grows
  <2>5. StageInv'
    BY <1>4, <1>d, <1>a, <2>1, <2>2 DEF StatusOut, Completed, StageInv, Grows, Endpoints
  <2> QED
    BY <1>t, <2>1, <2>3, <2>4, <2>5, Zenon
<1>5. CASE DataOut
  <2>1. MutexInv' /\ UNCHANGED <<ep_in, blocked, cfg, request>>
    BY <1>5, <1>b, Zenon DEF DataOut, BusEvent
  <2>2. Grows(events, events', CtlOut, "none")
    BY <1>5, <1>d, QueueGrows, Zenon DEF DataOut, Completed
  <2>3. Shape(events') /\ PollInv'
    BY <1>5, <1>d, <2>1, <2>2 DEF DataOut, Completed, PollInv, Grows, Shape, StageInv, Endpoints
  <2>4. ConfigInv'
    BY <1>5, <1>d, <2>1, <2>2 DEF DataOut, Completed, ConfigInv, StageInv, Grows
  <2>5. StageInv'
    BY <1>5, <1>d, <2>1, <2>2 DEF DataOut, Completed, StageInv, Grows, Endpoints
  <2> QED
    BY <1>t, <2>1, <2>3, <2>4, <2>5, Zenon
<1>6. CASE StatusIn
  <2>1. MutexInv' /\ UNCHANGED <<ep_in, blocked, cfg, request>>
    BY <1>6, <1>b, Zenon DEF StatusIn, BusEvent
  <2>2. Grows(events, events', CtlIn, "none")
    BY <1>6, <1>d, QueueGrows, Zenon DEF StatusIn, Completed
  <2>3. Shape(events') /\ PollInv'
    BY <1>6, <1>d, <2>1, <2>2 DEF StatusIn, Completed, PollInv, Grows, Shape, StageInv, Endpoints
  <2>4. ConfigInv'
    BY <1>6, <1>d, <2>1, <2>2 DEF StatusIn, Completed, ConfigInv, StageInv, Grows
  <2>5. StageInv'
    <3>1. ~Has(events, "setup") /\ ~Has(events, CtlOut) /\ ~Has(events, CtlIn) /\ ~blocked
      BY <1>6 DEF StatusIn, Completed, StageInv
    <3>2. /\ ~Has(events', "setup") /\ ~Has(events', CtlOut) /\ (\A r : ~Asks(events', r))
          /\ ~Before(events', CtlOut, "setup") /\ ~Before(events', "setup", CtlOut)
      BY <1>6, <1>d, <1>a, <2>2, <3>1 DEF StatusIn, StageInv, Grows, Endpoints
    <3>3. bus' = "idle" /\ asked' = "none" /\ CtlIn \notin armed'
      BY <1>6 DEF StatusIn, Completed
    <3> QED
      BY <2>1, <3>1, <3>2, <3>3 DEF StageInv
  <2> QED
    BY <1>t, <2>1, <2>3, <2>4, <2>5, Zenon
<1>7. CASE SeesStall
  <2>1. MutexInv' /\ UNCHANGED <<ep_in, blocked, cfg, request>>
    BY <1>7, <1>b, Zenon DEF SeesStall
  <2>3. Shape(events') /\ PollInv'
    BY <1>7, <2>1 DEF SeesStall, PollInv, dcdvars
  <2>4. ConfigInv'
    BY <1>7, <2>1 DEF SeesStall, ConfigInv, StageInv
  <2>5. StageInv'
    <3>1. ~Has(events, "setup") /\ ~Has(events, CtlOut) /\ \A r : ~Asks(events, r)
      BY <1>7, <1>a DEF SeesStall, StageInv
    <3>2. bus' = "idle" /\ asked' = "none" /\ UNCHANGED <<events, armed, stalling>>
      BY <1>7, Zenon DEF SeesStall, dcdvars
    <3>3. ~Before(events, CtlOut, "setup") /\ ~Before(events, "setup", CtlOut)
      BY <1>a, <3>1, Zenon
    <3> QED
      BY <2>1, <3>1, <3>2, <3>3 DEF StageInv
  <2> QED
    BY <1>t, <2>1, <2>3, <2>4, <2>5, Zenon
<1>8. CASE Poll
  <2>1. MutexInv' /\ UNCHANGED <<ep_in, blocked, cfg, request>>
    BY <1>8, <1>b, Zenon DEF Poll, BusEvent
  <2>2. Grows(events, events', HidIn, "none")
    BY <1>8, <1>d, QueueGrows, Zenon DEF Poll, Completed
  <2>3. Shape(events') /\ PollInv'
    <3>1. HidIn \in armed /\ HidIn \notin armed'
      BY <1>8 DEF Poll, Completed
    <3>2. /\ ~Before(events, HidIn, HidIn) /\ ~Before(events, CtlIn, HidIn)
          /\ blocked => ~Has(events, HidIn)
      BY <3>1 DEF PollInv
    <3>3. Shape(events')
      BY <1>d, <2>2, <3>2 DEF Grows, Shape
    <3>4. PollInv'
      BY <2>1, <2>2, <3>1, <3>2 DEF Grows, PollInv
    <3> QED
      BY <3>3, <3>4, Zenon
  <2>a. /\ UNCHANGED <<bus, asked, known, mounted, stalling>>
        /\ armed' = armed \ {HidIn}
    BY <1>8, Zenon DEF Poll, Completed, hostvars
  <2>b. /\ Has(events', "reset") <=> Has(events, "reset")
        /\ Has(events', "setup") <=> Has(events, "setup")
        /\ Has(events', CtlIn) <=> Has(events, CtlIn)
        /\ Has(events', CtlOut) <=> Has(events, CtlOut)
        /\ \A s : Asks(events', s) <=> Asks(events, s)
    BY <1>d, <2>2 DEF Grows
  <2>c. /\ Before(events', CtlOut, CtlOut) <=> Before(events, CtlOut, CtlOut)
        /\ Before(events', CtlOut, "setup") <=> Before(events, CtlOut, "setup")
        /\ Before(events', "setup", CtlOut) <=> Before(events, "setup", CtlOut)
    BY <1>d, <2>2 DEF Grows
  <2>d. CtlIn \in armed' <=> CtlIn \in armed
    BY <1>d, <2>a
  <2>4. ConfigInv'
    BY <2>1, <2>a, <2>b DEF ConfigInv
  <2>5. StageInv'
    BY <2>1, <2>a, <2>b, <2>c, <2>d DEF StageInv
  <2> QED
    BY <1>t, <2>1, <2>3, <2>4, <2>5, Zenon
<1>9. ASSUME NEW r \in Requests, Setup(r)
      PROVE  QueueInv'
  <2>1. MutexInv' /\ UNCHANGED <<ep_in, blocked, cfg, request>>
    BY <1>9, <1>b, Zenon DEF Setup, BusEvent
  <2>2. Grows(events, events', "setup", r)
    BY <1>9, QueueGrows, Zenon DEF Setup
  <2>3. Shape(events') /\ PollInv'
    BY <1>9, <1>d, <2>1, <2>2 DEF Setup, PollInv, Grows, Shape, StageInv, Endpoints
  <2>4. ConfigInv'
    <3>1. ~Has(events, "setup") /\ \A s : ~Asks(events, s)
      BY <1>9, <1>a DEF Setup, StageInv
    <3>2. /\ \A s : Asks(events', s) => s = r
          /\ Has(events', "setup") /\ (Has(events', "reset") <=> Has(events, "reset"))
      BY <2>2, <3>1 DEF Grows
    <3>3. r \in {"set_report", "get_report", "unset_config"} => mounted
      BY <1>9 DEF Setup, MayAsk, HidRequests
    <3>4. /\ bus' \in {"data_in", "data_out", "status_in"} /\ known' = known
          /\ mounted' = (mounted /\ r # "unset_config")
      BY <1>9 DEF Setup, Kind
    <3> QED
      BY <2>1, <3>2, <3>3, <3>4 DEF ConfigInv
  <2>5. StageInv'
    <3>1. ~Has(events, "setup") /\ asked = "none" /\ \A s : ~Asks(events, s)
      BY <1>9, <1>a DEF Setup, StageInv
    <3>2. /\ asked' = r /\ CtlIn \notin armed' /\ CtlIn \notin stalling'
          /\ bus' = IF r \in {"get", "get_report"} THEN "data_in"
                    ELSE IF r = "set_report" THEN "data_out" ELSE "status_in"
      BY <1>9 DEF Setup, Kind
    <3>3. /\ \A s : Asks(events', s) => s = r
          /\ Has(events', "setup") /\ (Has(events', CtlIn) => Has(events, CtlIn))
          /\ ~Before(events', CtlOut, CtlOut) /\ ~Before(events', "setup", CtlOut)
          /\ Before(events', CtlOut, "setup") => Has(events, CtlOut)
      BY <1>d, <1>a, <2>2, <3>1 DEF Grows, Shape, Endpoints
    <3>4. r \notin {"none"}
      BY <1>9 DEF Requests, HidRequests
    <3> QED
      BY <1>9, <2>1, <3>1, <3>2, <3>3, <3>4 DEF StageInv, Setup
  <2> QED
    BY <1>t, <2>1, <2>3, <2>4, <2>5, Zenon
<1> QED
  BY <1>1, <1>2, <1>3, <1>4, <1>5, <1>6, <1>7, <1>8, <1>9, Zenon DEF ControlStage

(* When a SETUP event is handled nothing of endpoint 0 is queued behind it *)
(* but a data stage of SET_REPORT.                                         *)
LEMMA SetupHandled ==
  ASSUME QueueInv, Handle("setup")
  PROVE  /\ Shrinks(events, events', "setup") /\ Shape(events')
         /\ Asks(events, Head(events).req) /\ Has(events, "setup")
         /\ ~Has(events', "setup") /\ ~Has(events', CtlIn) /\ \A r : ~Asks(events', r)
         /\ \A k : ~Before(events', k, "setup") /\ ~Before(events', "setup", k)
         /\ ~Before(events', CtlOut, CtlOut) /\ ~Before(events', CtlIn, HidIn)
         /\ Before(events', HidIn, HidIn) => Before(events, HidIn, HidIn)
         /\ ~Has(events', "reset") /\ ~blocked
         /\ Has(events', CtlOut) => Before(events, "setup", CtlOut)
<1>0. TypeOK /\ Shape(events)
  BY Zenon DEF QueueInv
<1>1. Shrinks(events, events', "setup") /\ Asks(events, Head(events).req)
  BY <1>0, QueueShrinks, Zenon
<1>2. Shape(events') /\ ~blocked
  BY <1>0, <1>1, ShapeShrinks, Zenon DEF Handle
<1>3. Has(events, "setup") /\ ~Has(events', "setup") /\ ~Has(events', CtlIn) /\ ~Has(events', "reset")
  BY <1>0, <1>1 DEF Shape, Shrinks, Sorts
<1>4. (\A r : ~Asks(events', r)) /\ (\A k : ~Before(events', k, "setup") /\ ~Before(events', "setup", k))
      /\ ~Before(events', CtlIn, HidIn)
  BY <1>3, QueueParts, Zenon
<1>5. /\ ~Before(events', CtlOut, CtlOut)
      /\ Before(events', HidIn, HidIn) => Before(events, HidIn, HidIn)
      /\ Has(events', CtlOut) => Before(events, "setup", CtlOut)
  BY <1>0, <1>1 DEF Shape, Shrinks
<1> QED
  BY <1>1, <1>2, <1>3, <1>4, <1>5, Zenon

(* What all answers to a SETUP packet have in common is enough to keep the *)
(* invariant.                                                              *)
LEMMA SetupKeepsQueue ==
  ASSUME QueueInv, NEW r, OnSetup(r), TypeOK',
         request' = "write" => cfg',
         r \in {"get", "get_report"} => request' = "read",
         cfg' <=> ep_in' = HidIn,
         mounted /\ r # "unset_config" => cfg',
         r = "set_config" => cfg',
         HidIn \in armed' => HidIn \in armed,
         CtlIn \in armed' => CtlIn \in armed \/ r # "set_report",
         CtlIn \in stalling' => CtlIn \in stalling \/ r = "unsupported"
  PROVE  QueueInv'
<1>1. /\ Shrinks(events, events', "setup") /\ Shape(events')
      /\ Asks(events, r) /\ Has(events, "setup")
      /\ ~Has(events', "setup") /\ ~Has(events', CtlIn) /\ \A s : ~Asks(events', s)
      /\ \A k : ~Before(events', k, "setup") /\ ~Before(events', "setup", k)
      /\ ~Before(events', CtlOut, CtlOut) /\ ~Before(events', CtlIn, HidIn)
      /\ Before(events', HidIn, HidIn) => Before(events, HidIn, HidIn)
      /\ ~Has(events', "reset") /\ ~blocked
      /\ Has(events', CtlOut) => Before(events, "setup", CtlOut)
  BY SetupHandled, Zenon DEF OnSetup
<1>2. UNCHANGED <<hidvars, hostvars, mutex, blocked>>
  BY Zenon DEF OnSetup, Handle
<1>3. UNCHANGED <<hpc, claiming, target, bus, asked, known, mounted>>
  BY <1>2, Zenon DEF hidvars, hostvars
<1>4. PollInv'
  BY <1>1, <1>2 DEF QueueInv, PollInv
<1>5. MutexInv'
  BY <1>2, <1>3, Zenon DEF QueueInv, MutexInv
<1>6. bus = "reset" \/ r = asked
  BY <1>1, Zenon DEF QueueInv, StageInv
<1>7. mounted => r # "unset_config"
  BY <1>1, Zenon DEF QueueInv, ConfigInv
<1>8. ConfigInv'
  BY <1>1, <1>3, <1>6, <1>7 DEF QueueInv, ConfigInv, StageInv
<1>9. StageInv'
  <2>1. CtlIn \notin stalling /\ CtlIn \notin armed /\ bus \in {"data_in", "data_out", "status_in", "reset"}
    BY <1>1 DEF QueueInv, StageInv
  <2>2. Has(events', CtlOut) => bus = "reset" \/ (bus = "status_in" /\ asked = "set_report" /\ r = asked)
    BY <1>1, <1>6 DEF QueueInv, StageInv
  <2> QED
    BY <1>1, <1>2, <1>3, <1>6, <2>1, <2>2 DEF QueueInv, StageInv
<1> QED
  BY <1>1, <1>4, <1>5, <1>8, <1>9, Zenon DEF QueueInv

(* The same for the end of a transfer. *)
LEMMA XferKeepsQueue ==
  ASSUME QueueInv, NEW e \in Endpoints, OnXfer(e), TypeOK',
         UNCHANGED <<ep_in, cfg, request, mutex, stalling>>,
         CtlIn \in armed' => CtlIn \in armed \/ (e = CtlOut /\ request = "write"),
         HidIn \in armed' => HidIn \in armed \/ e = CtlIn,
         blocked' => e = CtlIn /\ request = "write" /\ mutex # "none" /\ armed' = armed
  PROVE  QueueInv'
<1>1. /\ Shrinks(events, events', e) /\ ~blocked /\ UNCHANGED <<hidvars, hostvars>>
  BY QueueShrinks, Zenon DEF OnXfer, Handle, QueueInv
<1>2. UNCHANGED <<hpc, claiming, target, bus, asked, known, mounted>>
  BY <1>1, Zenon DEF hidvars, hostvars
<1>3. Shape(events') /\ Shape(events)
  BY <1>1, ShapeShrinks, Zenon DEF QueueInv
<1>d. e # "setup" /\ e # "reset" /\ CtlIn # CtlOut /\ CtlIn # HidIn /\ HidIn # CtlOut
  BY DEF Endpoints, CtlIn, CtlOut, HidIn
<1>4. MutexInv'
  BY <1>2 DEF QueueInv, MutexInv, TypeOK
<1>5. /\ Has(events, e)
      /\ Has(events', "setup") <=> Has(events, "setup")
      /\ Has(events', "reset") <=> Has(events, "reset")
      /\ \A k : Has(events', k) => Has(events, k) /\ Before(events, e, k)
      /\ \A k, l : Before(events', k, l) => Before(events, k, l) /\ Three(events, e, k, l)
      /\ \A s : Asks(events', s) => Asks(events, s)
  BY <1>1, <1>d DEF Shrinks
<1>6. PollInv'
  <2>1. e = CtlIn => /\ ~Before(events', HidIn, HidIn) /\ ~Before(events', CtlIn, HidIn)
                     /\ Has(events', HidIn) => HidIn \notin armed
    BY <1>3, <1>5, QueueParts DEF QueueInv, PollInv, Shape
  <2> QED
    BY <1>5, <2>1 DEF QueueInv, PollInv
<1>7. ConfigInv'
  BY <1>2, <1>5 DEF QueueInv, ConfigInv
<1>8. StageInv'
  <2>1. e = CtlIn => CtlIn \notin armed /\ ~Has(events', CtlIn)
    BY <1>3, <1>5 DEF QueueInv, StageInv, Shape
  <2>2. ASSUME e = CtlOut, request = "write"
        PROVE  /\ ~Has(events, "setup") /\ ~Has(events', CtlIn) /\ ~Has(events', CtlOut)
               /\ bus \in {"reset", "status_in"}
    <3>1. ~Has(events, "setup")
      BY <1>5, <2>2 DEF QueueInv, StageInv
    <3> QED
      BY <1>3, <1>5, <2>2, <3>1 DEF QueueInv, StageInv, Shape
  <2>3. CtlIn \in armed' => CtlIn \in armed \/ /\ ~Has(events, "setup")
                                               /\ ~Has(events', CtlIn) /\ ~Has(events', CtlOut)
                                               /\ bus \in {"reset", "status_in"}
    BY <2>2, Zenon
  <2> QED
    BY <1>1, <1>2, <1>5, <2>1, <2>3 DEF QueueInv, StageInv
<1> QED
  BY <1>3, <1>4, <1>6, <1>7, <1>8, Zenon DEF QueueInv

(* Whatever the device task handles keeps the invariant. *)
LEMMA UsbdKeepsQueue ==
  ASSUME QueueInv, UsbdStep
  PROVE  QueueInv'
<1>t. TypeOK'
  BY UsbdKeepsTypes, Zenon DEF QueueInv
<1>d. /\ CtlIn # CtlOut /\ CtlIn # HidIn /\ HidIn # CtlOut
      /\ CtlIn \notin {"setup", "reset"} /\ CtlOut \notin {"setup", "reset"}
      /\ HidIn \notin {"setup", "reset"}
  BY DEF CtlIn, CtlOut, HidIn
<1>c. cfg <=> ep_in = HidIn
  BY Zenon DEF QueueInv, ConfigInv
<1>m. mounted => cfg
  BY Zenon DEF QueueInv, ConfigInv
<1>r. ASSUME OnSetup("set_report") \/ OnSetup("get_report")
      PROVE  cfg
  BY <1>r, SetupHandled, Zenon DEF OnSetup, QueueInv, ConfigInv
<1>1. CASE OnGet
  BY <1>1, <1>t, <1>d, <1>c, <1>m, SetupKeepsQueue DEF OnGet, Respond, Kind
<1>2. CASE OnSetAddress
  BY <1>2, <1>t, <1>d, <1>c, <1>m, SetupKeepsQueue DEF OnSetAddress, Respond, Kind
<1>3. CASE OnSetConfig
  BY <1>3, <1>t, <1>d, <1>c, <1>m, SetupKeepsQueue DEF OnSetConfig, Respond, Kind
<1>4. CASE OnUnsetConfig
  BY <1>4, <1>t, <1>d, <1>c, <1>m, SetupKeepsQueue DEF OnUnsetConfig, Respond, Kind
<1>5. CASE OnSetReport
  BY <1>5, <1>t, <1>d, <1>c, <1>m, SetupKeepsQueue DEF OnSetReport, Respond, Kind
<1>6. CASE OnGetReport
  BY <1>6, <1>t, <1>d, <1>c, <1>m, SetupKeepsQueue DEF OnGetReport, Respond, Kind
<1>7. CASE OnHalt
  BY <1>7, <1>t, <1>d, <1>c, <1>m, SetupKeepsQueue DEF OnHalt, Respond, Kind
<1>8. CASE OnClearHalt
  BY <1>8, <1>t, <1>d, <1>c, <1>m, SetupKeepsQueue DEF OnClearHalt, Respond, Kind
<1>9. CASE OnRejected
  <2>1. OnSetup("unsupported")
    BY <1>9, <1>r, Zenon DEF OnRejected
  <2>2. UNCHANGED <<ep_in, cfg, request, armed>> /\ stalling' = stalling \cup {CtlIn}
    BY <1>9, Zenon DEF OnRejected
  <2>3. request = "write" => cfg
    BY Zenon DEF QueueInv, ConfigInv
  <2> QED
    BY <2>1, <2>2, <2>3, <1>t, <1>d, <1>c, <1>m, SetupKeepsQueue
<1>10. CASE OnBusReset
  <2>1. /\ Shrinks(events, events', "reset") /\ ~blocked
        /\ UNCHANGED <<hidvars, hostvars, mutex, blocked, dcdvars>>
    BY <1>10, QueueShrinks, Zenon DEF OnBusReset, Handle, QueueInv
  <2>2. UNCHANGED <<hpc, claiming, target, bus, asked, known, mounted, armed, stalling>>
    BY <2>1, Zenon DEF hidvars, hostvars, dcdvars
  <2>3. Shape(events') /\ MutexInv'
    BY <2>1, <2>2, ShapeShrinks, Zenon DEF QueueInv, MutexInv
  <2>4. PollInv'
    BY <2>1, <2>2 DEF QueueInv, PollInv, Shrinks
  <2>5. /\ ~known /\ ~mounted
        /\ Has(events', "setup") <=> Has(events, "setup")
        /\ ~Has(events', "reset")
        /\ bus \in {"idle", "reset"} \/ Has(events, "setup")
    BY <1>d, <2>1 DEF QueueInv, ConfigInv, Shrinks, Shape, Sorts
  <2>6. ConfigInv'
    BY <1>10, <1>d, <2>1, <2>2, <2>5 DEF QueueInv, ConfigInv, Shrinks, OnBusReset
  <2>7. StageInv'
    <3>1. request' = "nodata" /\ ~blocked'
      BY <1>10, <2>1 DEF OnBusReset
    <3>2. /\ \A l : Has(events', l) => Has(events, l)
          /\ \A l, m : Before(events', l, m) => Before(events, l, m)
          /\ \A r : Asks(events', r) => Asks(events, r)
      BY <2>1, Zenon DEF Shrinks
    <3>3. StageInv
      BY Zenon DEF QueueInv
    <3> QED
      BY <3>1, <3>2, <3>3, <2>2, <2>5 DEF StageInv
  <2> QED
    BY <1>t, <2>3, <2>4, <2>6, <2>7, Zenon DEF QueueInv
<1>e. CtlIn \in Endpoints /\ CtlOut \in Endpoints /\ HidIn \in Endpoints
  BY DEF Endpoints
<1>w. request = "write" => ep_in = HidIn
  BY Zenon DEF QueueInv, ConfigInv
<1>11. CASE OnReportSent
  <2>1. OnXfer(HidIn) /\ ~blocked' /\ UNCHANGED <<ep_in, cfg, request, mutex, stalling, armed>>
    BY <1>11, Zenon DEF OnReportSent, OnXfer, Handle, dcdvars
  <2> QED
    BY <1>t, <1>d, <1>e, <2>1, XferKeepsQueue
<1>12. CASE OnDataInSent
  <2>1. /\ OnXfer(CtlIn) /\ ~blocked' /\ UNCHANGED <<ep_in, cfg, request, mutex, stalling>>
        /\ armed' = armed \/ armed' = armed \cup {CtlOut}
    BY <1>12, Zenon DEF OnDataInSent, OnXfer, Handle
  <2> QED
    BY <1>t, <1>d, <1>e, <2>1, XferKeepsQueue
<1>13. CASE OnDataOutReceived
  <2>1. /\ OnXfer(CtlOut) /\ ~blocked' /\ UNCHANGED <<ep_in, cfg, request, mutex, stalling>>
        /\ request = "write" /\ (armed' = armed \/ armed' = armed \cup {CtlIn})
    BY <1>13, Zenon DEF OnDataOutReceived, OnXfer, Handle
  <2> QED
    BY <1>t, <1>d, <1>e, <2>1, XferKeepsQueue
<1>14. CASE OnStatus
  <2>1. /\ OnXfer(CtlOut) \/ OnXfer(CtlIn)
        /\ ~blocked' /\ UNCHANGED <<ep_in, cfg, request, mutex, stalling, armed>>
    BY <1>14, Zenon DEF OnStatus, OnXfer, Handle, dcdvars
  <2> QED
    BY <1>t, <1>d, <1>e, <2>1, XferKeepsQueue
<1>15. CASE OnSetReportDone
  <2>1. /\ OnXfer(CtlIn) /\ ~blocked /\ request = "write"
        /\ UNCHANGED <<ep_in, cfg, request, mutex, stalling>>
        /\ \/ blocked' = blocked /\ (armed' = armed \/ armed' = armed \cup {ep_in})
           \/ mutex # "none" /\ armed' = armed
    BY <1>15, Zenon DEF OnSetReportDone, ClaimAndSend, OnXfer, Handle
  <2> QED
    BY <1>t, <1>d, <1>e, <1>w, <2>1, XferKeepsQueue
<1>16. CASE EchoResumes
  <2>1. /\ blocked /\ ~blocked' /\ (armed' = armed \/ armed' = armed \cup {ep_in})
        /\ UNCHANGED <<hidvars, ep_in, mutex, cfg, request, events, stalling, hostvars>>
    BY <1>16, Zenon DEF EchoResumes, ClaimAndSend
  <2>2. ep_in = HidIn /\ ~Has(events, CtlIn)
    BY <1>w, <2>1, Zenon DEF QueueInv, StageInv
  <2>3. CtlIn \in armed' <=> CtlIn \in armed
    BY <1>d, <2>1, <2>2
  <2>4. MutexInv' /\ ConfigInv'
    BY <2>1, Zenon DEF QueueInv, MutexInv, ConfigInv, hidvars, hostvars
  <2>5. StageInv'
    BY <2>1, <2>3, Zenon DEF QueueInv, StageInv, hostvars
  <2>6. PollInv'
    BY <2>1, <2>2, QueueParts DEF QueueInv, PollInv
  <2> QED
    BY <1>t, <2>1, <2>4, <2>5, <2>6, Zenon DEF QueueInv
<1> QED
  BY <1>1, <1>2, <1>3, <1>4, <1>5, <1>6, <1>7, <1>8, <1>9, <1>10, <1>11, <1>12, <1>13, <1>14, <1>15, <1>16,
     Zenon DEF UsbdStep

(* So does every step. *)
LEMMA NextKeepsQueue ==
  ASSUME QueueSz >= 8, QueueInv, [Next]_vars
  PROVE  QueueInv'
<1>1. CASE AdcDone
  <2>1. TypeOK'
    BY <1>1, AdcKeepsTypes, Zenon DEF QueueInv
  <2> QED
    BY <1>1, <2>1, RestUnchanged, Zenon DEF AdcDone, hidvars
<1>2. CASE UNCHANGED vars
  <2>1. TypeOK'
    <3>1. UNCHANGED <<hpc, x, y, claiming, target, loaded, st, ep_in, buf, mutex, blocked, cfg>>
      BY <1>2, Zenon DEF vars, hidvars, usbdvars
    <3>2. UNCHANGED <<request, events, armed, open, stalling, wire, jdr1, jdr2, rank, converting>>
      BY <1>2, Zenon DEF vars, usbdvars, dcdvars, adcvars
    <3>3. UNCHANGED <<bus, asked, known, mounted, disturb, burst, wakes>>
      BY <1>2, Zenon DEF vars, hostvars
    <3>4. TypeOK
      BY Zenon DEF QueueInv
    <3>5. /\ hpc' \in HidLabels /\ x' \in -3..3 /\ y' \in -3..3
          /\ claiming' \in Endpoints /\ target' \in Endpoints
          /\ loaded' \in EpState /\ st' \in [Endpoints -> EpState]
          /\ ep_in' \in {CtlOut, HidIn} /\ buf' \in Reports
          /\ mutex' \in {"none", "hid"} /\ blocked' \in BOOLEAN /\ cfg' \in BOOLEAN
      BY <3>1, <3>4, Zenon DEF TypeOK
    <3>6. /\ wire' \in Reports /\ request' \in {"read", "write", "nodata"}
          /\ events' \in Seq(Events) /\ Len(events') <= QueueSz
          /\ armed' \subseteq Endpoints /\ stalling' \subseteq Endpoints /\ open' \in BOOLEAN
          /\ jdr1' \in AdcVals \cup {0} /\ jdr2' \in AdcVals \cup {0}
          /\ rank' \in {1, 2} /\ converting' \in BOOLEAN
      BY <3>2, <3>4, Zenon DEF TypeOK
    <3>7. /\ bus' \in {"off", "reset", "idle", "data_in", "status_out", "data_out", "status_in"}
          /\ asked' \in Requests \cup {"none"}
          /\ known' \in BOOLEAN /\ mounted' \in BOOLEAN
          /\ burst' \in 0..Burst /\ wakes' \in 0..ResetWakes /\ disturb' \in 0..MaxDisturb
      BY <3>3, <3>4, Zenon DEF TypeOK
    <3> QED
      BY <3>5, <3>6, <3>7, Zenon DEF TypeOK
  <2> QED
    BY <1>2, <2>1, RestUnchanged, Zenon DEF vars, hidvars
<1> QED
  BY <1>1, <1>2, HidKeepsQueue, UsbdKeepsQueue, BusKeepsQueue, Zenon DEF Next

(* A queue of eight events never fills up, however many bus events fall    *)
(* into the making of a report and however often the host resets,          *)
(* unconfigures or halts the device: dcd_event_handler, which ignores that *)
(* osal_queue_send fails, loses no event.  The code's queue has room for   *)
(* sixteen.                                                                *)
THEOREM QueueNeverFull ==
  ASSUME QueueSz >= 8
  PROVE  SafeSpec => []QueueSuffices
<1>1. QueueInv => QueueSuffices
  <2> SUFFICES ASSUME QueueInv PROVE QueueSuffices
    OBVIOUS
  <2>1. Len(events) <= 7 /\ Len(events) \in Nat
    BY ShapeBound DEF QueueInv, TypeOK
  <2> QED
    BY <2>1, UsbAssumption DEF QueueSuffices
<1>2. QueueInv /\ [Next]_vars => QueueInv'
  BY NextKeepsQueue
<1> QED
  BY <1>1, <1>2, InitQueue, PTL DEF SafeSpec

-----------------------------------------------------------------------------
(* Two tasks on one endpoint *)

(* While usb_hid_task is awake, what is queued and the event the device *)
(* task is blocked in have all come since it woke.                      *)
BurstInv ==
  hpc # "sleep" => /\ Len(events) <= burst
                   /\ blocked => Len(events) < burst

(* Every step keeps it so. *)
LEMMA NextKeepsBurst ==
  ASSUME QueueInv, BurstInv, [Next]_vars
  PROVE  BurstInv'
<1>t. burst \in Nat /\ Len(events) \in Nat /\ events \in Seq(Events) /\ blocked \in BOOLEAN
  BY UsbAssumption DEF QueueInv, TypeOK
<1>1. CASE HidStep
  <2>1. UNCHANGED <<blocked, events>> /\ ~UsbdRuns
    BY <1>1, HidQueue, Zenon
  <2>2. hpc' # "sleep" => burst' = burst
    BY <1>1, Zenon DEF HidStep, Sample, ClaimArg, Precheck, Lock, Check, ClaimLoad, ClaimStore, Unlock, Copy,
       SubmitArg, BusyTest, BusyLoad, BusyStore, Arm, Convert, Goto
  <2>3. hpc = "sleep" => ~blocked /\ Len(events) = 0
    BY <2>1 DEF QueueInv, MutexInv, Critical, UsbdRuns
  <2> QED
    BY <1>t, <2>1, <2>2, <2>3 DEF BurstInv
<1>2. CASE UsbdStep
  <2>1. UNCHANGED <<hpc, burst>>
    BY <1>2, Zenon DEF UsbdStep, OnBusReset, OnRejected, OnGet, OnSetAddress, OnSetConfig, OnUnsetConfig,
       OnSetReport, OnGetReport, OnHalt, OnClearHalt, OnReportSent, OnDataInSent, OnDataOutReceived,
       OnStatus, OnSetReportDone, EchoResumes, OnSetup, OnXfer, Handle, hidvars
  <2>2. (events # <<>> /\ events' = Tail(events) /\ ~blocked) \/ (events' = events /\ ~blocked')
    BY <1>2, Zenon DEF UsbdStep, OnBusReset, OnRejected, OnGet, OnSetAddress, OnSetConfig, OnUnsetConfig,
       OnSetReport, OnGetReport, OnHalt, OnClearHalt, OnReportSent, OnDataInSent, OnDataOutReceived,
       OnStatus, OnSetReportDone, EchoResumes, OnSetup, OnXfer, Handle
  <2>3. (Len(events') < Len(events) /\ Len(events') \in Nat) \/ (events' = events /\ ~blocked')
    BY <1>t, <2>2
  <2> QED
    BY <1>t, <2>1, <2>3 DEF BurstInv
<1>3. ASSUME BusEvent, events' = events \/ (\E ev : Enqueue(ev))
      PROVE  BurstInv'
  <2>1. events' = events \/ \E ev : events' = Append(events, ev)
    BY <1>3, Zenon DEF Enqueue
  <2>2. Len(events') <= Len(events) + 1 /\ Len(events') \in Nat
    BY <1>t, <2>1
  <2>3. UNCHANGED <<hpc, blocked>> /\ (hpc # "sleep" => burst' = burst + 1)
    BY <1>3, Zenon DEF BusEvent, hidvars, usbdvars
  <2> QED
    BY <1>t, <2>2, <2>3 DEF BurstInv
<1>4. CASE \/ UsbRst \/ EnumDone \/ DataIn \/ StatusOut \/ DataOut \/ StatusIn \/ Poll
           \/ \E r \in Requests : Setup(r)
  <2>1. BusEvent
    BY <1>4, Zenon DEF UsbRst, EnumDone, DataIn, StatusOut, DataOut, StatusIn, Poll, Setup
  <2>2. events' = events \/ \E ev : Enqueue(ev)
    BY <1>4, Zenon DEF UsbRst, EnumDone, DataIn, StatusOut, DataOut, StatusIn, Poll, Setup, Completed
  <2> QED
    BY <1>3, <2>1, <2>2, Zenon
<1>5. CASE SeesStall \/ AdcDone \/ UNCHANGED vars
  <2>1. UNCHANGED <<hpc, blocked, events, burst>>
    BY <1>5, Zenon DEF SeesStall, AdcDone, vars, hidvars, usbdvars
  <2> QED
    BY <2>1, Zenon DEF BurstInv
<1> QED
  BY <1>1, <1>2, <1>4, <1>5, Zenon DEF Next, ControlStage

(* usb_hid_task in usbd_edpt_xfer. *)
Sending == {"test", "busy_load", "busy_store", "arm"}
(* It has claimed the endpoint and not yet marked it busy. *)
Late == {"unlock", "copy", "submit", "test", "busy_load", "busy_store"}
(* It is anywhere in tud_hid_n_report. *)
Reporting == {"precheck", "lock", "arm"} \cup Critical \cup Late

(* Nothing is going on at the HID endpoint: it is not busy, not armed, and *)
(* its last transfer was handled.                                          *)
Resting == ~st[HidIn].busy /\ HidIn \notin armed /\ ~Has(events, HidIn)

(* A report that began with ep_in 0, in a device that is configured now. *)
Surprised == cfg /\ hpc \in Reporting /\ claiming = CtlOut

(* It is then early in the life of the configuration: how far the host has  *)
(* got bounds from below how many bus events came since usb_hid_task woke.  *)
(* It takes five until the device task could echo a report of the host:     *)
(* SET_CONFIGURATION, its status stage, SET_REPORT, its data and its status *)
(* stage.                                                                   *)
Early ==
  /\ ~blocked /\ burst >= 1
  /\ mounted => burst >= 2
  /\ asked = "set_report" => burst >= 3 /\ (bus = "status_in" => burst >= 4)
  /\ request = "write" => asked = "set_report" /\ CtlIn \notin stalling /\ ~Has(events, CtlIn)

(* A host that never disturbed the device: a configured device has its    *)
(* endpoint open and its host known, nothing is stalled, and the endpoint *)
(* is busy from being armed until its transfer is handled.                *)
CalmInv ==
  /\ cfg => open
  /\ cfg \/ Asks(events, "set_config") => known
  /\ ~Asks(events, "unset_config") /\ ~Asks(events, "halt")
  /\ ~st[HidIn].stalled
  /\ ~cfg => Resting /\ ~st[HidIn].claimed
  /\ HidIn \in armed => st[HidIn].busy /\ ~Has(events, HidIn)
  /\ Has(events, HidIn) => st[HidIn].busy
  /\ ~Before(events, HidIn, HidIn)

(* What usb_hid_task can rely on at each of its statements.  From the check *)
(* under the mutex to the arming of the endpoint nobody else has touched    *)
(* the endpoint it claimed, and a report that never claimed it is submitted *)
(* too early for an echo.                                                   *)
ClaimInv ==
  /\ hpc \in Reporting /\ claiming = HidIn => cfg
  /\ hpc \in Sending /\ target = HidIn => cfg
  /\ hpc \in Sending /\ claiming = HidIn => target = HidIn
  /\ hpc \in {"load", "store"} /\ claiming = HidIn => Resting /\ ~st[HidIn].claimed
  /\ hpc \in Late /\ claiming = HidIn => Resting /\ st[HidIn].claimed
  /\ hpc = "arm" /\ claiming = HidIn => st[HidIn].claimed
  /\ hpc = "arm" /\ target = HidIn => st[HidIn].busy /\ HidIn \notin armed /\ ~Has(events, HidIn)
  /\ hpc = "store" /\ claiming = HidIn => ~loaded.busy /\ ~loaded.stalled
  /\ hpc = "busy_store" /\ claiming = HidIn => loaded.claimed
  /\ hpc = "busy_store" /\ target = HidIn => ~loaded.stalled
  /\ hpc \in Sending \cup {"submit"} => buf.by # "echo"
  /\ Surprised => Early /\ ((hpc = "arm" /\ target = HidIn) \/ Resting)

(* A step that keeps the HID endpoint, the configuration and the place of *)
(* usb_hid_task keeps both.                                               *)
LEMMA EndpointKept ==
  ASSUME CalmInv, ClaimInv,
         UNCHANGED <<hpc, claiming, target, loaded, cfg, open>>,
         st'[HidIn] = st[HidIn],
         HidIn \in armed' <=> HidIn \in armed,
         Has(events', HidIn) <=> Has(events, HidIn),
         ~Before(events', HidIn, HidIn),
         known => known', Asks(events', "set_config") => known',
         ~Asks(events', "unset_config") /\ ~Asks(events', "halt"),
         hpc \in Sending \cup {"submit"} => buf'.by # "echo",
         Surprised => Early'
  PROVE  CalmInv' /\ ClaimInv'
<1>1. Resting' <=> Resting
  BY Zenon DEF Resting
<1>0. Surprised' <=> Surprised
  BY Zenon DEF Surprised
<1>2. CalmInv'
  BY <1>1 DEF CalmInv
<1>3. ClaimInv'
  BY <1>0, <1>1 DEF ClaimInv
<1> QED
  BY <1>2, <1>3

(* usb_hid_task keeps both. *)
LEMMA HidKeepsClaim ==
  ASSUME QueueInv, CalmInv, ClaimInv, HidStep
  PROVE  CalmInv' /\ ClaimInv'
<1>0. UNCHANGED <<ep_in, blocked, cfg, events, known, open>>
  BY HidQueue, Zenon DEF hostvars, HidStep, Sample, ClaimArg, Precheck, Lock, Check, ClaimLoad,
     ClaimStore, Unlock, Copy, SubmitArg, BusyTest, BusyLoad, BusyStore, Arm, Convert, Goto
<1>e. hpc' # "sleep" => (Early' <=> Early)
  <2>1. UNCHANGED <<request, events, stalling, mounted, asked, bus>>
    BY HidQueue, Zenon DEF hostvars
  <2>2. hpc' # "sleep" => burst' = burst
    BY Zenon DEF HidStep, Sample, ClaimArg, Precheck, Lock, Check, ClaimLoad, ClaimStore, Unlock, Copy,
       SubmitArg, BusyTest, BusyLoad, BusyStore, Arm, Convert, Goto
  <2> QED
    BY <1>0, <2>1, <2>2, Zenon DEF Early
<1>a. HidIn # CtlOut /\ HidIn \in Endpoints
  BY DEF HidIn, CtlOut, Endpoints
<1>b. claiming \in {CtlOut, HidIn} /\ target \in {CtlOut, HidIn}
  BY DEF QueueInv, TypeOK, MutexInv, Endpoints
<1>c. cfg <=> ep_in = HidIn
  BY DEF QueueInv, ConfigInv
<1>s. /\ DOMAIN st = Endpoints
      /\ loaded = [busy |-> loaded.busy, claimed |-> loaded.claimed, stalled |-> loaded.stalled]
  BY DEF QueueInv, TypeOK, EpState
<1>h. hpc \in HidLabels
  BY DEF QueueInv, TypeOK
<1>k. ASSUME UNCHANGED <<st, armed>>
      PROVE  CalmInv' /\ (Resting' <=> Resting) /\ st'[HidIn] = st[HidIn]
  <2>1. (Resting' <=> Resting) /\ st'[HidIn] = st[HidIn]
    BY <1>0, <1>k, Zenon DEF Resting
  <2> QED
    BY <1>0, <1>k, <2>1, Zenon DEF CalmInv
<1>1. CASE Sample
  <2>1. /\ hpc' = "claim"
        /\ UNCHANGED <<claiming, target, loaded, st, buf, armed>>
    BY <1>1 DEF Sample, Goto
  <2>2. CalmInv' /\ (Resting' <=> Resting)
    BY <2>1, <1>k, Zenon
  <2>3. ClaimInv'
    BY <2>1, <2>2, <1>0, <1>e
    DEF ClaimInv, Surprised, Reporting, Sending, Late, Critical
  <2> QED
    BY <2>2, <2>3
<1>2. CASE ClaimArg
  <2>1. /\ hpc' = "precheck" /\ claiming' = ep_in
        /\ UNCHANGED <<target, loaded, st, buf, armed>>
    BY <1>2, <1>a, <1>c DEF ClaimArg, Goto
  <2>2. CalmInv' /\ (Resting' <=> Resting)
    BY <2>1, <1>k, Zenon
  <2>3. ClaimInv'
    BY <2>1, <2>2, <1>0, <1>e, <1>a, <1>c
    DEF ClaimInv, Surprised, Reporting, Sending, Late, Critical
  <2> QED
    BY <2>2, <2>3
<1>3. CASE Precheck
  <2>1. /\ hpc = "precheck" /\ hpc' \in {"lock", "convert"}
        /\ UNCHANGED <<claiming, target, loaded, st, buf, armed>>
    BY <1>3 DEF Precheck, Goto
  <2>2. CalmInv' /\ (Resting' <=> Resting)
    BY <2>1, <1>k, Zenon
  <2>3. ClaimInv'
    BY <2>1, <2>2, <1>0, <1>e
    DEF ClaimInv, Surprised, Reporting, Sending, Late, Critical
  <2> QED
    BY <2>2, <2>3
<1>4. CASE Lock
  <2>1. /\ hpc = "lock" /\ hpc' = "check"
        /\ UNCHANGED <<claiming, target, loaded, st, buf, armed>>
    BY <1>4 DEF Lock, Goto
  <2>2. CalmInv' /\ (Resting' <=> Resting)
    BY <2>1, <1>k, Zenon
  <2>3. ClaimInv'
    BY <2>1, <2>2, <1>0, <1>e
    DEF ClaimInv, Surprised, Reporting, Sending, Late, Critical
  <2> QED
    BY <2>2, <2>3
<1>5. CASE Check
  <2>1. hpc' = "load" /\ claiming = HidIn => Resting /\ ~st[HidIn].claimed
    BY <1>5 DEF Check, Goto, Available, CalmInv, Resting
  <2>2. /\ hpc = "check" /\ hpc' \in {"load", "unlock_failed"}
        /\ UNCHANGED <<claiming, target, loaded, st, buf, armed>>
    BY <1>5 DEF Check, Goto
  <2>3. CalmInv' /\ (Resting' <=> Resting)
    BY <2>2, <1>k, Zenon
  <2>4. ClaimInv'
    BY <2>1, <2>2, <2>3, <1>0, <1>e
    DEF ClaimInv, Surprised, Reporting, Sending, Late, Critical
  <2> QED
    BY <2>3, <2>4
<1>6. CASE ClaimLoad
  <2>1. claiming = HidIn => ~loaded'.busy /\ ~loaded'.stalled
    BY <1>6 DEF ClaimLoad, Goto, CalmInv, ClaimInv, Resting
  <2>2. /\ hpc = "load" /\ hpc' = "store"
        /\ UNCHANGED <<claiming, target, st, buf, armed>>
    BY <1>6 DEF ClaimLoad, Goto
  <2>3. CalmInv' /\ (Resting' <=> Resting)
    BY <2>2, <1>k, Zenon
  <2>4. ClaimInv'
    BY <2>1, <2>2, <2>3, <1>0, <1>e
    DEF ClaimInv, Surprised, Reporting, Sending, Late, Critical
  <2> QED
    BY <2>3, <2>4
<1>7. CASE ClaimStore
  <2>1. claiming = HidIn => st'[HidIn].claimed /\ ~st'[HidIn].busy /\ ~st'[HidIn].stalled
    BY <1>7, <1>a, <1>s DEF ClaimStore, Goto, ClaimInv
  <2>2. claiming = CtlOut => st'[HidIn] = st[HidIn]
    BY <1>7, <1>a, <1>s DEF ClaimStore
  <2>3. Resting' <=> Resting
    BY <1>7, <1>b, <1>0, <1>e, <2>1, <2>2 DEF Resting, ClaimInv, ClaimStore, Goto
  <2>4. CalmInv'
    BY <1>7, <1>b, <1>0, <1>e, <2>1, <2>2, <2>3
    DEF CalmInv, ClaimInv, ClaimStore, Goto, Reporting, Critical, Resting
  <2>5. claiming = HidIn => Resting
    BY <1>7 DEF ClaimInv, ClaimStore, Goto
  <2>6. ClaimInv'
    BY <1>7, <1>b, <1>0, <1>e, <2>1, <2>2, <2>3, <2>5
    DEF ClaimInv, Surprised, ClaimStore, Goto, Reporting, Critical, Late, Sending
  <2> QED
    BY <2>4, <2>6
<1>8. CASE Unlock
  <2>1. /\ (hpc = "unlock" /\ hpc' = "copy") \/ hpc' = "convert"
        /\ UNCHANGED <<claiming, target, loaded, st, buf, armed>>
    BY <1>8 DEF Unlock, Goto
  <2>2. CalmInv' /\ (Resting' <=> Resting)
    BY <2>1, <1>k, Zenon
  <2>3. ClaimInv'
    BY <2>1, <2>2, <1>0, <1>e
    DEF ClaimInv, Surprised, Reporting, Sending, Late, Critical
  <2> QED
    BY <2>2, <2>3
<1>9. CASE Copy
  <2>1. buf'.by # "echo"
    BY <1>9 DEF Copy
  <2>2. /\ hpc = "copy" /\ hpc' = "submit"
        /\ UNCHANGED <<claiming, target, loaded, st, armed>>
    BY <1>9 DEF Copy, Goto
  <2>3. CalmInv' /\ (Resting' <=> Resting)
    BY <2>2, <1>k, Zenon
  <2>4. ClaimInv'
    BY <2>1, <2>2, <2>3, <1>0, <1>e
    DEF ClaimInv, Surprised, Reporting, Sending, Late, Critical
  <2> QED
    BY <2>3, <2>4
<1>10. CASE SubmitArg
  <2>1. /\ hpc = "submit" /\ hpc' = "test" /\ target' = ep_in
        /\ UNCHANGED <<claiming, loaded, st, buf, armed>>
    BY <1>10, <1>a, <1>c DEF SubmitArg, Goto
  <2>2. CalmInv' /\ (Resting' <=> Resting)
    BY <2>1, <1>k, Zenon
  <2>3. ClaimInv'
    BY <2>1, <2>2, <1>0, <1>e, <1>a, <1>c
    DEF ClaimInv, Surprised, Reporting, Sending, Late, Critical
  <2> QED
    BY <2>2, <2>3
<1>11. CASE BusyTest
  <2>1. /\ hpc = "test" /\ hpc' \in {"busy_load", "convert"}
        /\ UNCHANGED <<claiming, target, loaded, st, buf, armed>>
    BY <1>11 DEF BusyTest, Goto
  <2>2. CalmInv' /\ (Resting' <=> Resting)
    BY <2>1, <1>k, Zenon
  <2>3. ClaimInv'
    BY <2>1, <2>2, <1>0, <1>e
    DEF ClaimInv, Surprised, Reporting, Sending, Late, Critical
  <2> QED
    BY <2>2, <2>3
<1>12. CASE BusyLoad
  <2>1. /\ claiming = HidIn => loaded'.claimed
        /\ target = HidIn => ~loaded'.stalled
    BY <1>12 DEF BusyLoad, Goto, CalmInv, ClaimInv, Sending, Late
  <2>2. /\ hpc = "busy_load" /\ hpc' = "busy_store"
        /\ UNCHANGED <<claiming, target, st, buf, armed>>
    BY <1>12 DEF BusyLoad, Goto
  <2>3. CalmInv' /\ (Resting' <=> Resting)
    BY <2>2, <1>k, Zenon
  <2>4. ClaimInv'
    BY <2>1, <2>2, <2>3, <1>0, <1>e
    DEF ClaimInv, Surprised, Reporting, Sending, Late, Critical
  <2> QED
    BY <2>3, <2>4
<1>13. CASE BusyStore
  <2>1. target = HidIn => /\ st'[HidIn].busy /\ ~st'[HidIn].stalled
                          /\ claiming = HidIn => st'[HidIn].claimed
    BY <1>13, <1>a, <1>s DEF BusyStore, Goto, ClaimInv
  <2>2. target = CtlOut => st'[HidIn] = st[HidIn]
    BY <1>13, <1>a, <1>s DEF BusyStore
  <2>3. hpc = "busy_store" /\ hpc' = "arm" /\ UNCHANGED <<claiming, target, buf, armed, burst, loaded>>
    BY <1>13 DEF BusyStore, Goto
  <2>4. target = HidIn => Resting /\ cfg
    BY <2>3, <1>b DEF ClaimInv, Surprised, Sending, Late, Reporting
  <2>5. claiming = HidIn => target = HidIn
    BY <2>3 DEF ClaimInv, Sending
  <2>6. target = CtlOut => (Resting' <=> Resting)
    BY <2>3, <2>2, <1>0, <1>e DEF Resting
  <2>7. CalmInv'
    BY <1>a, <1>b, <1>0, <1>e, <2>1, <2>2, <2>3, <2>4, <2>6 DEF CalmInv, Resting
  <2>8. target = HidIn => HidIn \notin armed' /\ ~Has(events', HidIn)
    BY <2>3, <2>4, <1>0, <1>e DEF Resting
  <2>9. ClaimInv'
    BY <1>a, <1>b, <1>0, <1>e, <2>1, <2>2, <2>3, <2>4, <2>5, <2>6, <2>8
    DEF ClaimInv, Surprised, Reporting, Critical, Late, Sending
  <2> QED
    BY <2>7, <2>9
<1>14. CASE Arm
  <2>1. hpc = "arm" /\ hpc' = "convert" /\ UNCHANGED st /\ armed' = armed \cup {target}
    BY <1>14 DEF Arm, Goto
  <2>2. target = HidIn => cfg /\ st[HidIn].busy /\ ~Has(events, HidIn)
    BY <2>1 DEF ClaimInv, Sending
  <2>3. CalmInv'
    BY <1>a, <1>b, <1>0, <1>e, <2>1, <2>2 DEF CalmInv, Resting
  <2>4. ClaimInv'
    BY <2>1 DEF ClaimInv, Surprised, Reporting, Critical, Late, Sending
  <2> QED
    BY <2>3, <2>4
<1>15. CASE Convert
  <2>1. hpc' = "sleep" /\ UNCHANGED <<st, armed>>
    BY <1>15 DEF Convert, Goto
  <2>2. ClaimInv'
    BY <2>1
    DEF ClaimInv, Surprised, Reporting, Sending, Late, Critical
  <2> QED
    BY <2>1, <2>2, <1>k, Zenon
<1> QED
  BY <1>1, <1>2, <1>3, <1>4, <1>5, <1>6, <1>7, <1>8, <1>9, <1>10, <1>11, <1>12, <1>13, <1>14, <1>15, Zenon
  DEF HidStep

(* The device task's writes for endpoint 0 leave the state byte of the HID *)
(* endpoint alone.                                                         *)
LEMMA CopiesKeepEndpoint ==
  ASSUME TypeOK
  PROVE  /\ AfterSetup[HidIn] = st[HidIn]
         /\ Busy(AfterSetup, CtlIn)[HidIn] = st[HidIn] /\ Busy(AfterSetup, CtlOut)[HidIn] = st[HidIn]
         /\ \A e \in {CtlIn, CtlOut} : Released(st, e)[HidIn] = st[HidIn]
         /\ Busy(Released(st, CtlIn), CtlOut)[HidIn] = st[HidIn]
         /\ Busy(Released(st, CtlOut), CtlIn)[HidIn] = st[HidIn]
  BY DEF TypeOK, Endpoints, HidIn, CtlIn, CtlOut, AfterSetup, Busy, Released

(* The echo finds the endpoint claimed or busy and is dropped, or takes it *)
(* while usb_hid_task is not between claim and transfer.                   *)
LEMMA EchoKeepsClaim ==
  ASSUME QueueInv, CalmInv, ClaimInv, request = "write",
         ~Surprised,
         NEW s, DOMAIN s = Endpoints, s[HidIn] = st[HidIn], ClaimAndSend(s),
         mutex = "none" \/ s[ep_in].busy \/ s[ep_in].claimed,
         UNCHANGED <<hpc, claiming, target, loaded, cfg, open, known>>,
         Has(events', HidIn) <=> Has(events, HidIn),
         ~Before(events', HidIn, HidIn),
         \A r : Asks(events', r) => Asks(events, r)
  PROVE  CalmInv' /\ ClaimInv'
<1>1. ep_in = HidIn /\ cfg /\ HidIn \in Endpoints
  BY DEF QueueInv, ConfigInv, Endpoints
<1>a. /\ Asks(events', "set_config") => known'
      /\ ~Asks(events', "unset_config") /\ ~Asks(events', "halt")
      /\ known => known'
  BY DEF CalmInv
<1>2. CASE st[HidIn].busy \/ st[HidIn].claimed
  <2>1. st'[HidIn] = st[HidIn] /\ UNCHANGED <<buf, armed>>
    BY <1>1, <1>2 DEF ClaimAndSend
  <2>2. hpc \in Sending \cup {"submit"} => buf'.by # "echo"
    BY <2>1 DEF ClaimInv
  <2> QED
    BY <1>a, <2>1, <2>2, EndpointKept
<1>3. CASE ~st[HidIn].busy /\ ~st[HidIn].claimed
  <2>1. armed' = armed \cup {HidIn} /\ mutex = "none"
    BY <1>1, <1>3 DEF ClaimAndSend
  <2>2. st' = [s EXCEPT ![HidIn].claimed = TRUE, ![HidIn].busy = TRUE]
    BY <1>1, <1>3 DEF ClaimAndSend
  <2>s. st[HidIn] \in EpState
    BY <1>1 DEF QueueInv, TypeOK
  <2>3. st'[HidIn].busy /\ st'[HidIn].claimed /\ ~st'[HidIn].stalled
    BY <1>1, <2>2, <2>s DEF CalmInv, EpState
  <2>4. ~Has(events, HidIn)
    BY <1>3 DEF CalmInv
  <2>5. hpc \notin Critical
    BY <2>1 DEF QueueInv, MutexInv
  <2>6. claiming \in {CtlOut, HidIn}
    BY DEF QueueInv, TypeOK, MutexInv, Endpoints
  <2>7. hpc \notin Late \cup {"arm"}
    BY <1>1, <1>3, <2>6 DEF ClaimInv, Surprised, Reporting, Sending, Resting
  <2>8. CalmInv'
    BY <1>1, <1>a, <2>1, <2>3, <2>4 DEF CalmInv
  <2>9. ClaimInv'
    BY <1>1, <2>5, <2>7 DEF ClaimInv, Surprised, Late, Sending, Reporting, Critical
  <2> QED
    BY <2>8, <2>9
<1> QED
  BY <1>2, <1>3

(* Whatever the device task handles keeps both. *)
LEMMA UsbdKeepsClaim ==
  ASSUME QueueInv, BurstInv, CalmInv, ClaimInv, UsbdStep
  PROVE  CalmInv' /\ ClaimInv'
<1>t. TypeOK
  BY DEF QueueInv
<1>d. /\ CtlIn # CtlOut /\ CtlIn # HidIn /\ HidIn # CtlOut /\ HidIn \in Endpoints
      /\ HidIn \notin {"setup", "reset"}
      /\ CtlIn \in Endpoints /\ CtlOut \in Endpoints
  BY DEF CtlIn, CtlOut, HidIn, Endpoints
<1>k. ASSUME NEW id, Handle(id)
      PROVE  UNCHANGED <<hpc, claiming, target, loaded, known, burst, mounted, asked, bus>>
  BY <1>k, Zenon DEF Handle, hidvars, hostvars
<1>e. Surprised => Early
  BY DEF ClaimInv
<1>s. ASSUME Handle("setup")
      PROVE  /\ Has(events', HidIn) <=> Has(events, HidIn)
             /\ ~Before(events', HidIn, HidIn)
             /\ \A r : ~Asks(events', r)
  BY <1>s, <1>d, SetupHandled DEF Shrinks, CalmInv
<1>x. ASSUME NEW e \in {CtlIn, CtlOut}, OnXfer(e)
      PROVE  /\ Has(events', HidIn) <=> Has(events, HidIn)
             /\ ~Before(events', HidIn, HidIn)
             /\ \A r : Asks(events', r) => Asks(events, r)
  <2>1. Shrinks(events, events', e)
    BY <1>x, <1>t, QueueShrinks, Zenon DEF OnXfer
  <2> QED
    BY <1>x, <1>d, <2>1 DEF Shrinks, CalmInv
<1>v. ASSUME Surprised, Handle("setup")
      PROVE  asked = Head(events).req /\ CtlIn \notin stalling /\ ~Has(events', CtlIn)
  <2>1. Asks(events, Head(events).req) /\ Has(events, "setup") /\ ~Has(events', CtlIn)
    BY <1>v, SetupHandled
  <2>2. known
    BY <1>v DEF Surprised, CalmInv
  <2>3. bus # "reset"
    BY <2>2 DEF QueueInv, ConfigInv
  <2> QED
    BY <2>1, <2>3 DEF QueueInv, StageInv
<1>w. ASSUME NEW r, OnSetup(r), request' = "write" => asked = "set_report" /\ UNCHANGED stalling
      PROVE  Surprised => Early'
  <2>1. UNCHANGED <<burst, mounted, asked, bus, blocked>>
    BY <1>k, <1>w, Zenon DEF OnSetup
  <2> QED
    BY <1>e, <1>v, <1>w, <2>1 DEF OnSetup, Early
<1>y. ASSUME Handle("setup"), Surprised => Early', UNCHANGED <<cfg, open>>, st'[HidIn] = st[HidIn],
             HidIn \in armed' <=> HidIn \in armed,
             hpc \in Sending \cup {"submit"} => buf'.by # "echo"
      PROVE  CalmInv' /\ ClaimInv'
  BY <1>k, <1>s, <1>y, EndpointKept, Zenon
<1>z. ASSUME NEW e \in {CtlIn, CtlOut}, OnXfer(e), UNCHANGED <<cfg, open, buf>>, st'[HidIn] = st[HidIn],
             HidIn \in armed' <=> HidIn \in armed,
             UNCHANGED <<request, stalling, blocked>> \/ ~Surprised
      PROVE  CalmInv' /\ ClaimInv'
  <2>1. Handle("xfer")
    BY <1>z, Zenon DEF OnXfer
  <2>0. Surprised => Early'
    <3>1. UNCHANGED <<burst, mounted, asked, bus>>
      BY <1>k, <2>1, Zenon
    <3>2. Has(events', CtlIn) => Has(events, CtlIn)
      <4>1. Shrinks(events, events', e)
        BY <1>z, <1>t, QueueShrinks, Zenon DEF OnXfer
      <4> QED
        BY <4>1 DEF Shrinks
    <3> QED
      BY <1>e, <1>z, <3>1, <3>2 DEF Early
  <2>2. hpc \in Sending \cup {"submit"} => buf'.by # "echo"
    BY <1>z DEF ClaimInv
  <2>3. /\ Asks(events', "set_config") => known'
        /\ ~Asks(events', "unset_config") /\ ~Asks(events', "halt")
        /\ known => known'
    BY <1>x, <1>z, <1>k, <2>1 DEF CalmInv
  <2> QED
    BY <1>k, <1>x, <1>z, <2>0, <2>1, <2>2, <2>3, EndpointKept, Zenon
<1>b. hpc \in Sending \cup {"submit"} => buf.by # "echo"
  BY DEF ClaimInv
<1>1. CASE OnBusReset
  <2>1. /\ Shrinks(events, events', "reset")
        /\ UNCHANGED <<hpc, claiming, target, loaded, known, burst, blocked, open, armed>>
    BY <1>1, <1>t, <1>k, QueueShrinks, Zenon DEF OnBusReset, dcdvars
  <2>2. Has(events, "reset") /\ ~known /\ ~cfg /\ cfg' = FALSE
    BY <1>1, <2>1 DEF Shrinks, QueueInv, ConfigInv, CalmInv, OnBusReset
  <2>3. /\ ~st'[HidIn].busy /\ ~st'[HidIn].claimed /\ ~st'[HidIn].stalled
        /\ buf'.by # "echo"
    BY <1>1, <1>d DEF OnBusReset, Free, NoReport
  <2>4. CalmInv'
    BY <2>1, <2>2, <2>3, <1>d DEF CalmInv, Resting, Shrinks
  <2>5. ClaimInv'
    BY <2>1, <2>2, <2>3 DEF ClaimInv, Surprised, Reporting, Late, Sending, Critical
  <2> QED
    BY <2>4, <2>5
<1>2. CASE OnRejected
  <2>1. Handle("setup") /\ UNCHANGED <<cfg, open, buf, armed>> /\ st' = AfterSetup
    BY <1>2, Zenon DEF OnRejected, OnSetup
  <2>2. Surprised => Early'
    <3> SUFFICES ASSUME Surprised PROVE Early'
      OBVIOUS
    <3>1. OnSetup("unsupported") /\ request' = request
      BY <1>2 DEF OnRejected, Surprised
    <3>2. request # "write"
      BY <1>e, <1>v, <3>1 DEF Early, OnSetup
    <3> QED
      BY <1>w, <3>1, <3>2
  <2> QED
    BY <2>1, <2>2, <1>y, <1>t, <1>b, CopiesKeepEndpoint
<1>3. CASE OnGet \/ OnSetAddress \/ OnSetReport
  <2>1. /\ Handle("setup") /\ UNCHANGED <<cfg, open, buf>>
        /\ armed' = armed \cup {CtlIn} \/ armed' = armed \cup {CtlOut}
        /\ st' = AfterSetup \/ st' = Busy(AfterSetup, CtlIn) \/ st' = Busy(AfterSetup, CtlOut)
    BY <1>3, Zenon DEF OnGet, OnSetAddress, OnSetReport, OnSetup, Respond
  <2>2. st'[HidIn] = st[HidIn] /\ (HidIn \in armed' <=> HidIn \in armed)
    BY <2>1, <1>d, <1>t, CopiesKeepEndpoint
  <2>3. Surprised => Early'
    <3>1. CASE OnGet \/ OnSetAddress
      <4>1. (OnSetup("get") \/ OnSetup("set_address")) /\ request' # "write"
        BY <1>3, <3>1 DEF OnGet, OnSetAddress, Respond, Kind
      <4> QED
        BY <1>w, <4>1
    <3>2. CASE OnSetReport
      <4>1. OnSetup("set_report") /\ UNCHANGED stalling
        BY <3>2, Zenon DEF OnSetReport
      <4>2. Surprised => asked = "set_report"
        BY <1>v, <4>1 DEF OnSetup
      <4> QED
        BY <1>w, <4>1, <4>2
    <3> QED
      BY <1>3, <3>1, <3>2
  <2> QED
    BY <2>1, <2>2, <2>3, <1>y, <1>b
<1>4. CASE OnSetConfig
  <2>1. /\ Handle("setup") /\ UNCHANGED <<buf, blocked>>
        /\ cfg' = TRUE /\ open' = (IF cfg THEN open ELSE TRUE)
        /\ armed' = armed \cup {CtlIn} /\ st' = Busy(AfterSetup, CtlIn) /\ Head(events).req = "set_config"
    BY <1>4, Zenon DEF OnSetConfig, OnSetup, Respond
  <2>2. st'[HidIn] = st[HidIn] /\ (HidIn \in armed' <=> HidIn \in armed)
    BY <2>1, <1>d, <1>t, CopiesKeepEndpoint
  <2>w. OnSetup("set_config") /\ request' = "nodata"
    BY <1>4 DEF OnSetConfig, Respond, Kind, HidRequests
  <2>3. CASE cfg
    <3>1. Surprised => Early'
      BY <1>w, <2>w
    <3> QED
      BY <2>1, <2>2, <2>3, <3>1, <1>y, <1>b
  <2>4. CASE ~cfg
    <3>1. /\ UNCHANGED <<hpc, claiming, target, loaded, known, burst, mounted, asked, bus>>
          /\ Asks(events, "set_config") /\ ~blocked
      BY <2>1, <1>k, SetupHandled
    <3>2. Resting' <=> Resting
      BY <2>1, <2>2, <1>s DEF Resting
    <3>3. known /\ Resting /\ ~st[HidIn].claimed /\ open'
      BY <2>1, <2>4, <3>1 DEF CalmInv
    <3>4. CalmInv'
      BY <2>1, <2>2, <3>1, <3>2, <3>3, <1>s DEF CalmInv, Resting
    <3>5. hpc \in Reporting => Early'
      <4> SUFFICES ASSUME hpc \in Reporting PROVE Early'
        OBVIOUS
      <4>1. hpc # "sleep"
        BY DEF Reporting, Late, Critical
      <4>2. Len(events) <= burst /\ burst \in Nat
        BY <4>1, <1>t, UsbAssumption DEF BurstInv, TypeOK
      <4>3. events \in Seq(Events) /\ events # <<>>
        BY <2>1, <1>t DEF Handle, TypeOK
      <4>4. burst >= 1
        BY <4>2, <4>3
      <4>5. ~mounted
        BY <2>4 DEF QueueInv, ConfigInv
      <4>6. bus # "reset"
        BY <3>3 DEF QueueInv, ConfigInv
      <4>7. asked = "set_config"
        BY <3>1, <4>6 DEF QueueInv, StageInv
      <4> QED
        BY <2>1, <2>w, <3>1, <4>4, <4>5, <4>7 DEF Early
    <3>6. ClaimInv'
      BY <2>1, <2>2, <2>4, <3>1, <3>2, <3>3, <3>5, <1>d DEF ClaimInv, Surprised, Reporting, Late, Sending, Critical
    <3> QED
      BY <3>4, <3>6
  <2> QED
    BY <2>3, <2>4
<1>5. CASE OnUnsetConfig \/ OnHalt
  <2>1. Handle("setup") /\ Head(events).req \in {"unset_config", "halt"}
    BY <1>5 DEF OnUnsetConfig, OnHalt, OnSetup
  <2> QED
    BY <2>1, SetupHandled DEF CalmInv
<1>6. CASE OnGetReport
  <2>1. /\ Handle("setup") /\ UNCHANGED <<cfg, open>> /\ buf' = [buf EXCEPT !.by = "id"]
        /\ armed' = armed \cup {CtlIn} /\ st' = Busy(AfterSetup, CtlIn)
    BY <1>6, Zenon DEF OnGetReport, OnSetup, Respond
  <2>2. st'[HidIn] = st[HidIn] /\ (HidIn \in armed' <=> HidIn \in armed)
    BY <2>1, <1>d, <1>t, CopiesKeepEndpoint
  <2>3. buf'.by # "echo"
    BY <2>1, <1>t DEF TypeOK, Reports
  <2>4. Surprised => Early'
    <3>1. OnSetup("get_report") /\ request' # "write"
      BY <1>6 DEF OnGetReport, Respond, Kind
    <3> QED
      BY <1>w, <3>1
  <2> QED
    BY <2>1, <2>2, <2>3, <2>4, <1>y
<1>7. CASE OnClearHalt
  <2>0. ~st[HidIn].stalled
    BY DEF CalmInv
  <2>1. /\ Handle("setup") /\ UNCHANGED <<cfg, open, buf>>
        /\ armed' = armed \cup {CtlIn} /\ st' = Busy(AfterSetup, CtlIn)
    BY <1>7, <2>0 DEF OnClearHalt, OnSetup, Respond
  <2>2. st'[HidIn] = st[HidIn] /\ (HidIn \in armed' <=> HidIn \in armed)
    BY <2>1, <1>d, <1>t, CopiesKeepEndpoint
  <2>3. Surprised => Early'
    <3>1. OnSetup("clear_halt") /\ request' # "write"
      BY <1>7 DEF OnClearHalt, Respond, Kind
    <3> QED
      BY <1>w, <3>1
  <2> QED
    BY <2>1, <2>2, <2>3, <1>y, <1>b
<1>8. CASE OnReportSent
  <2>1. /\ Handle("xfer") /\ Head(events).ep = HidIn
        /\ st' = Released(st, HidIn) /\ UNCHANGED <<buf, cfg, open, armed, blocked>>
    BY <1>8, Zenon DEF OnReportSent, OnXfer, dcdvars
  <2>2. Shrinks(events, events', HidIn) /\ UNCHANGED <<hpc, claiming, target, loaded, known, burst>>
    BY <2>1, <1>t, <1>k, QueueShrinks
  <2>3. Has(events, HidIn) /\ ~Has(events', HidIn) /\ ~Before(events', HidIn, HidIn)
    BY <2>2 DEF Shrinks, CalmInv
  <2>4. st'[HidIn].busy = FALSE /\ st'[HidIn].claimed = FALSE /\ st'[HidIn].stalled = st[HidIn].stalled
    BY <2>1, <1>t, <1>d DEF Released, TypeOK, EpState
  <2>5. HidIn \notin armed
    BY <2>3 DEF CalmInv
  <2>6. CalmInv'
    BY <2>1, <2>2, <2>3, <2>4, <2>5 DEF CalmInv, Resting, Shrinks
  <2>7. ~Resting
    BY <2>3 DEF Resting
  <2>8. claiming = HidIn => hpc \notin {"load", "store", "arm"} \cup Late
    BY <2>3, <2>7 DEF ClaimInv, Sending
  <2>9. ~(hpc = "arm" /\ target = HidIn)
    BY <2>3 DEF ClaimInv
  <2>10. ClaimInv'
    BY <2>1, <2>2, <2>7, <2>8, <2>9 DEF ClaimInv, Surprised, Reporting, Late, Sending, Critical
  <2> QED
    BY <2>6, <2>10
<1>9. CASE OnDataInSent \/ OnDataOutReceived \/ OnStatus
  <2>1. /\ \E e \in {CtlIn, CtlOut} : OnXfer(e)
        /\ UNCHANGED <<buf, cfg, open, request, stalling, blocked>>
        /\ armed' = armed \/ armed' = armed \cup {CtlIn} \/ armed' = armed \cup {CtlOut}
        /\ \/ st' = Busy(Released(st, CtlIn), CtlOut) \/ st' = Busy(Released(st, CtlOut), CtlIn)
           \/ st' = Released(st, CtlIn) \/ st' = Released(st, CtlOut)
    BY <1>9 DEF OnDataInSent, OnDataOutReceived, OnStatus, dcdvars
  <2>2. st'[HidIn] = st[HidIn] /\ (HidIn \in armed' <=> HidIn \in armed)
    BY <2>1, <1>d, <1>t, CopiesKeepEndpoint
  <2> QED
    BY <2>1, <2>2, <1>z
<1>10. CASE OnSetReportDone
  <2> DEFINE s == Released(st, CtlIn)
  <2>1. /\ OnXfer(CtlIn) /\ Handle("xfer") /\ request = "write" /\ UNCHANGED <<cfg, open>>
        /\ \/ ClaimAndSend(s) /\ (mutex = "none" \/ s[ep_in].busy \/ s[ep_in].claimed)
           \/ st' = s /\ UNCHANGED <<buf, armed>>
    BY <1>10 DEF OnSetReportDone, OnXfer
  <2>2. DOMAIN s = Endpoints /\ s[HidIn] = st[HidIn]
    BY <1>t, <1>d, CopiesKeepEndpoint DEF TypeOK, Released
  <2> HIDE DEF s
  <2>0. ~Surprised
    <3>1. Shrinks(events, events', CtlIn)
      BY <2>1, <1>t, QueueShrinks, Zenon DEF OnXfer
    <3>2. Has(events, CtlIn)
      BY <3>1 DEF Shrinks
    <3> QED
      BY <1>e, <2>1, <3>2 DEF Early
  <2>3. CASE ClaimAndSend(s) /\ (mutex = "none" \/ s[ep_in].busy \/ s[ep_in].claimed)
    BY <2>0, <2>1, <2>2, <2>3, <1>d, <1>k, <1>x, EchoKeepsClaim
  <2>4. CASE st' = s /\ UNCHANGED <<buf, armed>>
    BY <2>0, <2>1, <2>2, <2>4, <1>d, <1>z
  <2> QED
    BY <2>1, <2>3, <2>4
<1>11. CASE EchoResumes
  <2>1. /\ ClaimAndSend(st) /\ mutex = "none" /\ blocked
        /\ UNCHANGED <<hpc, claiming, target, loaded, cfg, open, known, events>>
    BY <1>11, Zenon DEF EchoResumes, hidvars, hostvars
  <2>2. request = "write" /\ DOMAIN st = Endpoints
    BY <2>1, <1>t DEF QueueInv, StageInv, TypeOK
  <2>3. ~Surprised
    BY <1>e, <2>1 DEF Early
  <2>4. ~Before(events', HidIn, HidIn)
    BY <2>1 DEF CalmInv
  <2> QED
    BY <2>1, <2>2, <2>3, <2>4, EchoKeepsClaim
<1> QED
  BY <1>1, <1>2, <1>3, <1>4, <1>5, <1>6, <1>7, <1>8, <1>9, <1>10, <1>11, Zenon DEF UsbdStep

(* So do events on the bus, when they disturb nothing. *)
LEMMA BusKeepsClaim ==
  ASSUME QueueSz >= 8, Burst <= 4, QueueInv, CalmInv, ClaimInv, Undisturbed, Undisturbed',
         UsbRst \/ ControlStage \/ Poll \/ \E r \in Requests : Setup(r)
  PROVE  CalmInv' /\ ClaimInv'
<1>d. /\ CtlIn # CtlOut /\ CtlIn # HidIn /\ HidIn # CtlOut
      /\ HidIn \notin {"setup", "reset"} /\ CtlIn # "setup" /\ CtlOut # "setup" /\ "reset" # "setup"
      /\ CtlIn \in Endpoints /\ CtlOut \in Endpoints /\ HidIn \in Endpoints
  BY DEF CtlIn, CtlOut, HidIn, Endpoints
<1>b. ASSUME BusEvent
      PROVE  /\ UNCHANGED <<hpc, claiming, target, loaded, cfg, st, buf, blocked, request>>
             /\ Surprised => burst' = burst + 1 /\ burst \in Nat /\ burst < 4
  <2>1. UNCHANGED <<hpc, claiming, target, loaded, cfg, st, buf, blocked, request>>
    BY <1>b, Zenon DEF BusEvent, hidvars, usbdvars
  <2>2. Surprised => hpc # "sleep"
    BY DEF Surprised, Reporting, Late, Critical
  <2>3. burst \in Nat /\ Burst \in Nat
    BY UsbAssumption DEF QueueInv, TypeOK
  <2>4. hpc # "sleep" => burst' = burst + 1 /\ burst < Burst
    BY <1>b DEF BusEvent
  <2> QED
    BY <2>1, <2>2, <2>3, <2>4
<1>e. Surprised => Early
  BY Zenon DEF ClaimInv
<1>f. hpc \in Sending \cup {"submit"} => buf.by # "echo"
  BY DEF ClaimInv
<1>k. ASSUME BusEvent, Surprised => Early', UNCHANGED open, known => known', HidIn \in armed' <=> HidIn \in armed,
             NEW k, k # HidIn, NEW r, Grows(events, events', k, r),
             k = "setup" => r \notin {"unset_config", "halt"} /\ (r = "set_config" => known')
      PROVE  CalmInv' /\ ClaimInv'
  <2>0. ~Before(events, HidIn, HidIn)
    BY Zenon DEF CalmInv
  <2>1. (Has(events', HidIn) <=> Has(events, HidIn)) /\ ~Before(events', HidIn, HidIn)
    <3>1. HidIn # k
      BY <1>k
    <3> QED
      BY <1>k, <2>0, <3>1, Zenon DEF Grows
  <2>2. /\ Asks(events', "set_config") => known'
        /\ ~Asks(events', "unset_config") /\ ~Asks(events', "halt")
    BY <1>k DEF Grows, CalmInv
  <2>4. UNCHANGED <<hpc, claiming, target, loaded, cfg, open>> /\ st'[HidIn] = st[HidIn]
    BY <1>b, <1>k
  <2>5. hpc \in Sending \cup {"submit"} => buf'.by # "echo"
    BY <1>b, <1>f, <1>k
  <2> QED
    BY <1>k, <2>1, <2>2, <2>4, <2>5, EndpointKept, Zenon
<1>1. CASE UsbRst
  <2>1. ~known
    <3>1. disturb = 0 /\ disturb' = 0
      BY DEF Undisturbed
    <3> QED
      BY <1>1, <3>1 DEF UsbRst
  <2>2. BusEvent /\ armed' = {} /\ events' = events /\ known' = FALSE
    BY <1>1, Zenon DEF UsbRst
  <2>3. ~cfg /\ ~Asks(events, "set_config")
    BY <2>1, Zenon DEF CalmInv
  <2>4. CalmInv'
    <3>1. UNCHANGED <<cfg, st, events>> /\ HidIn \notin armed'
      BY <2>2, <1>b
    <3>2. Resting /\ ~st[HidIn].claimed /\ ~st[HidIn].stalled
      BY <2>3, Zenon DEF CalmInv
    <3>3. ~Asks(events, "unset_config") /\ ~Asks(events, "halt") /\ ~Before(events, HidIn, HidIn)
      BY Zenon DEF CalmInv
    <3>4. Resting' /\ ~st'[HidIn].claimed /\ ~st'[HidIn].stalled /\ ~cfg'
      BY <2>3, <3>1, <3>2 DEF Resting
    <3> QED
      BY <2>3, <3>1, <3>3, <3>4 DEF CalmInv, Resting
  <2>5. ClaimInv'
    <3>1. /\ ~cfg' /\ UNCHANGED <<hpc, claiming, target, loaded, st, buf, events>>
          /\ HidIn \notin armed'
      BY <2>2, <2>3, <1>b
    <3>2. Resting => Resting'
      BY <3>1 DEF Resting
    <3>3. ~Surprised'
      BY <3>1, Zenon DEF Surprised
    <3>4. /\ ~(hpc \in Reporting /\ claiming = HidIn)
          /\ ~(hpc \in Sending /\ target = HidIn)
      BY <2>3, Zenon DEF ClaimInv
    <3>5. /\ \A l \in Late \cup {"load", "store", "busy_store", "arm"} : l \in Reporting
          /\ "busy_store" \in Sending /\ "arm" \in Sending
      BY DEF Reporting, Late, Sending, Critical
    <3> QED
      BY <3>1, <3>3, <3>4, <3>5, <1>f DEF ClaimInv
  <2> QED
    BY <2>4, <2>5, Zenon
<1>2. CASE EnumDone
  <2>1. BusEvent /\ UNCHANGED <<open, known, armed>> /\ Enqueue([id |-> "reset"])
    BY <1>2, Zenon DEF EnumDone
  <2>2. Grows(events, events', "reset", "none")
    BY <2>1, QueueGrows, Zenon
  <2>3. ~Surprised
    BY <1>2 DEF EnumDone, QueueInv, ConfigInv, CalmInv, Surprised
  <2> QED
    BY <1>d, <1>k, <2>1, <2>2, <2>3, Zenon
<1>3. ASSUME NEW e \in {CtlIn, CtlOut}, BusEvent, Completed(e), known => known',
             Surprised /\ Grows(events, events', e, "none") => Early'
      PROVE  CalmInv' /\ ClaimInv'
  <2>1. Enqueue([id |-> "xfer", ep |-> e]) /\ UNCHANGED open /\ armed' = armed \ {e}
    BY <1>3, Zenon DEF Completed
  <2>2. Grows(events, events', e, "none")
    BY <1>d, <1>3, <2>1, QueueGrows
  <2>3. (HidIn \in armed' <=> HidIn \in armed) /\ e # HidIn /\ e # "setup"
    BY <1>d, <1>3, <2>1
  <2> QED
    BY <1>3, <1>k, <2>1, <2>2, <2>3, Zenon
<1>g. /\ bus \in {"idle", "data_in", "status_out"} => asked # "set_report"
      /\ bus = "data_out" => asked = "set_report"
  BY DEF QueueInv, StageInv
<1>4. CASE DataIn \/ StatusIn
  <2>1. BusEvent /\ Completed(CtlIn) /\ known' = known
    BY <1>4, Zenon DEF DataIn, StatusIn
  <2>2. ASSUME Surprised PROVE Early'
    <3>1. Early /\ burst' = burst + 1 /\ burst \in Nat /\ burst < 4 /\ UNCHANGED <<blocked, request>>
      BY <1>b, <1>e, <2>1, <2>2, Zenon
    <3>2. asked # "set_report"
      BY <1>4, <1>g, <3>1 DEF DataIn, StatusIn, Early
    <3>3. request' # "write" /\ asked' # "set_report"
      BY <1>4, <3>1, <3>2 DEF DataIn, StatusIn, Early
    <3> QED
      BY <3>1, <3>3 DEF Early
  <2> QED
    BY <1>3, <2>1, <2>2
<1>5. CASE StatusOut \/ DataOut
  <2>1. BusEvent /\ Completed(CtlOut) /\ (known => known') /\ UNCHANGED <<mounted, stalling>>
    <3>1. CASE StatusOut
      BY <3>1, Zenon DEF StatusOut, Completed
    <3>2. CASE DataOut
      BY <3>2, Zenon DEF DataOut, Completed
    <3> QED
      BY <1>5, <3>1, <3>2, Zenon
  <2>2. ASSUME Surprised, Grows(events, events', CtlOut, "none") PROVE Early'
    <3>1. Early /\ burst' = burst + 1 /\ burst \in Nat /\ burst < 4 /\ UNCHANGED <<blocked, request>>
      BY <1>b, <1>e, <2>1, <2>2, Zenon
    <3>2. CASE StatusOut
      <4>1. request' # "write" /\ asked' = "none"
        BY <3>1, <3>2, <1>g DEF StatusOut, Early
      <4> QED
        BY <2>1, <3>1, <4>1 DEF Early
    <3>3. CASE DataOut
      <4>1. asked = "set_report" /\ asked' = asked /\ burst >= 3
        BY <3>1, <3>3, <1>g DEF DataOut, Early
      <4>2. Has(events', CtlIn) <=> Has(events, CtlIn)
        BY <1>d, <2>2 DEF Grows
      <4> QED
        BY <2>1, <3>1, <4>1, <4>2 DEF Early
    <3> QED
      BY <1>5, <3>2, <3>3
  <2> QED
    BY <1>3, <2>1, <2>2
<1>6. CASE SeesStall
  <2>1. /\ UNCHANGED <<hpc, claiming, target, loaded, st, buf, blocked, cfg, events, armed, open, burst, known>>
    BY <1>6, Zenon DEF SeesStall, hidvars, usbdvars, dcdvars
  <2>0. (Surprised' <=> Surprised) /\ (Surprised => Early')
    <3>1. Surprised' <=> Surprised
      BY <2>1, Zenon DEF Surprised
    <3>2. UNCHANGED <<request, mounted>> /\ asked' = "none" /\ CtlIn \in stalling
      BY <1>6, Zenon DEF SeesStall, usbdvars
    <3>3. Surprised => Early'
      BY <1>e, <2>1, <3>2 DEF Early
    <3> QED
      BY <3>1, <3>3, Zenon
  <2>2. Resting' <=> Resting
    BY <2>1, Zenon DEF Resting
  <2>3. CalmInv'
    BY <2>1, <2>2, Zenon DEF CalmInv
  <2>4. ClaimInv'
    BY <2>0, <2>1, <2>2, Zenon DEF ClaimInv
  <2> QED
    BY <2>3, <2>4, Zenon
<1>7. CASE Poll
  <2>1. BusEvent /\ Completed(HidIn) /\ known' = known
    BY <1>7, Zenon DEF Poll, hostvars
  <2>2. /\ HidIn \in armed /\ armed' = armed \ {HidIn} /\ UNCHANGED open
        /\ Enqueue([id |-> "xfer", ep |-> HidIn])
    BY <2>1, Zenon DEF Completed
  <2>3. Grows(events, events', HidIn, "none")
    BY <1>d, <2>2, QueueGrows, Zenon
  <2>4. st[HidIn].busy /\ ~Has(events, HidIn) /\ cfg
    BY <2>2 DEF CalmInv, Resting
  <2>5. ~Before(events', HidIn, HidIn) /\ \A s : Asks(events', s) <=> Asks(events, s)
    BY <1>d, <2>3, <2>4 DEF Grows, CalmInv
  <2>6. UNCHANGED <<hpc, claiming, target, loaded, cfg, st, buf>>
    BY <1>b, <2>1, Zenon
  <2>7. CalmInv'
    BY <2>1, <2>2, <2>4, <2>5, <2>6 DEF CalmInv
  <2>8. ~Resting
    BY <2>4, Zenon DEF Resting
  <2>9. /\ claiming = HidIn => hpc \notin {"load", "store", "arm"} \cup Late
        /\ ~(hpc = "arm" /\ target = HidIn)
    BY <2>2, <2>8 DEF ClaimInv, Sending
  <2>11. ~Surprised /\ ~Surprised'
    BY <2>6, <2>8, <2>9 DEF ClaimInv, Surprised
  <2>10. ClaimInv'
    BY <2>4, <2>6, <2>9, <2>11 DEF ClaimInv, Reporting, Late, Sending, Critical
  <2> QED
    BY <2>7, <2>10, Zenon
<1>8. ASSUME NEW r \in Requests, Setup(r)
      PROVE  CalmInv' /\ ClaimInv'
  <2>1. /\ BusEvent /\ UNCHANGED <<open, known>> /\ armed' = armed \ {CtlOut, CtlIn}
        /\ Enqueue([id |-> "setup", req |-> r])
        /\ r = "set_config" => known
        /\ disturb' = IF r \in {"unset_config", "halt"} THEN disturb + 1 ELSE disturb
    BY <1>8, Zenon DEF Setup, MayAsk
  <2>2. r \notin {"unset_config", "halt"}
    BY <2>1 DEF Undisturbed
  <2>3. Grows(events, events', "setup", r)
    BY <1>8, <2>1, QueueGrows, Zenon
  <2>4. HidIn \in armed' <=> HidIn \in armed
    BY <1>d, <2>1
  <2>5. ASSUME Surprised PROVE Early'
    <3>1. Early /\ burst' = burst + 1 /\ burst \in Nat /\ UNCHANGED <<blocked, request>>
      BY <1>b, <1>e, <2>1, <2>5, Zenon
    <3>2. asked # "set_report" /\ asked' = r /\ (mounted' => mounted)
      BY <1>8, <1>g DEF Setup
    <3>3. r = "set_report" => mounted /\ bus' = "data_out"
      BY <1>8 DEF Setup, MayAsk, HidRequests, Kind
    <3>4. request' # "write"
      BY <3>1, <3>2 DEF Early
    <3> QED
      BY <3>1, <3>2, <3>3, <3>4 DEF Early
  <2> QED
    BY <1>d, <1>k, <2>1, <2>2, <2>3, <2>4, <2>5, Zenon
<1> QED
  BY <1>1, <1>2, <1>4, <1>5, <1>6, <1>7, <1>8, Zenon DEF ControlStage

(* The inductive invariant behind ClaimProtects. *)
ReportInv == QueueInv /\ BurstInv /\ (Undisturbed => CalmInv /\ ClaimInv)

(* It holds when the scheduler starts. *)
LEMMA InitReport == Init => ReportInv
<1> SUFFICES ASSUME Init PROVE ReportInv
  OBVIOUS
<1>1. QueueInv
  BY InitQueue
<1>2. events = <<>> /\ hpc = "start" /\ ~cfg /\ armed = {} /\ ~blocked /\ burst = 0 /\ st[HidIn] = Free
  BY DEF Init, Endpoints
<1>3. BurstInv
  BY <1>2 DEF BurstInv
<1>4. ~Free.busy /\ ~Free.claimed /\ ~Free.stalled
  BY DEF Free
<1>5. CalmInv
  BY <1>2, <1>4, QueueEmpty DEF CalmInv, Resting
<1>6. ClaimInv
  BY <1>2 DEF ClaimInv, Surprised, Reporting, Late, Sending, Critical
<1> QED
  BY <1>1, <1>3, <1>5, <1>6 DEF ReportInv

(* A disturbance is not forgotten. *)
LEMMA DisturbGrows ==
  ASSUME TypeOK, [Next]_vars, Undisturbed'
  PROVE  Undisturbed
<1>1. disturb' = disturb \/ disturb' = disturb + 1
  <2>1. CASE HidStep
    BY <2>1, HidQueue, Zenon DEF hostvars
  <2>2. CASE UsbdStep
    BY <2>2, Zenon DEF UsbdStep, OnBusReset, OnRejected, OnGet, OnSetAddress, OnSetConfig, OnUnsetConfig,
       OnSetReport, OnGetReport, OnHalt, OnClearHalt, OnReportSent, OnDataInSent, OnDataOutReceived,
       OnStatus, OnSetReportDone, EchoResumes, OnSetup, OnXfer, Handle, hostvars
  <2>3. CASE UsbRst \/ \E r \in Requests : Setup(r)
    BY <2>3 DEF UsbRst, Setup
  <2>4. CASE ControlStage \/ Poll \/ AdcDone \/ UNCHANGED vars
    BY <2>4, Zenon DEF ControlStage, EnumDone, DataIn, StatusOut, DataOut, StatusIn, SeesStall, Poll, AdcDone,
       hostvars, vars
  <2> QED
    BY <2>1, <2>2, <2>3, <2>4, Zenon DEF Next
<1> QED
  BY <1>1 DEF Undisturbed, TypeOK

(* Every step preserves the invariant. *)
LEMMA NextKeepsReport ==
  ASSUME QueueSz >= 8, Burst <= 4, ReportInv, [Next]_vars
  PROVE  ReportInv'
<1>1. QueueInv /\ BurstInv /\ QueueInv' /\ BurstInv'
  BY NextKeepsQueue, NextKeepsBurst, Zenon DEF ReportInv
<1>2. ASSUME Undisturbed' PROVE CalmInv' /\ ClaimInv'
  <2>1. Undisturbed /\ CalmInv /\ ClaimInv
    BY <1>1, <1>2, DisturbGrows, Zenon DEF ReportInv, QueueInv
  <2>2. CASE AdcDone \/ UNCHANGED vars
    <3>1. /\ UNCHANGED <<hpc, claiming, target, loaded, st, buf, blocked, cfg, request, events, armed, open,
                     stalling, burst, known, mounted, asked, bus>>
      BY <2>2, Zenon DEF AdcDone, vars, hidvars, usbdvars, dcdvars, hostvars
    <3>2. (Resting' <=> Resting) /\ (Surprised' <=> Surprised) /\ (Early' <=> Early)
      BY <3>1, Zenon DEF Resting, Surprised, Early
    <3>3. CalmInv'
      BY <2>1, <3>1, <3>2, Zenon DEF CalmInv
    <3>4. ClaimInv'
      BY <2>1, <3>1, <3>2, Zenon DEF ClaimInv
    <3> QED
      BY <3>3, <3>4, Zenon
  <2> QED
    BY <1>1, <1>2, <2>1, <2>2, HidKeepsClaim, UsbdKeepsClaim, BusKeepsClaim, Zenon DEF Next
<1> QED
  BY <1>1, <1>2, Zenon DEF ReportInv

(* As long as the host leaves the configuration alone, usb_hid_task       *)
(* schedules a transfer only on the open HID endpoint, only when none is  *)
(* scheduled, and of the report it copied itself: usbd_edpt_claim keeps   *)
(* tud_hid_report of the device task out, for any joystick values and any *)
(* queue of eight events or more, when at most four bus events fall into  *)
(* the making of a report.  With five the echo can come first, since the  *)
(* endpoint is read again after the claim.                                *)
THEOREM ClaimSafety ==
  ASSUME QueueSz >= 8, Burst <= 4
  PROVE  SafeSpec => []ClaimProtects
<1>1. ReportInv => ClaimProtects
  BY DEF ReportInv, ClaimProtects, CalmInv, ClaimInv, Sending
<1>2. ReportInv /\ [Next]_vars => ReportInv'
  BY NextKeepsReport
<1> QED
  BY <1>1, <1>2, InitReport, PTL DEF SafeSpec

(* The HID endpoint has a transfer scheduled, or one that waits in the *)
(* queue to be handled, or one that usb_hid_task is about to schedule. *)
Occupied ==
  HidIn \in armed \/ Has(events, HidIn) \/ (hpc = "arm" /\ target = HidIn)

(* A busy or claimed endpoint has a transfer, or usb_hid_task is on the way *)
(* to one, so that its state byte will be cleared.                          *)
Served == st[HidIn].busy \/ st[HidIn].claimed => Occupied \/ Preparing(HidIn)

(* The host that never disturbed the device: it configures a device whose   *)
(* descriptors it has read, and no other request touches the configuration. *)
KnownInv ==
  /\ cfg \/ Asks(events, "set_config") => known
  /\ ~Asks(events, "unset_config") /\ ~Asks(events, "halt")

(* What the state byte of the HID endpoint says: busy means a transfer, *)
(* claimed means busy or a caller on its way.                           *)
ByteInv ==
  /\ ~cfg => ~st[HidIn].busy /\ ~st[HidIn].claimed
  /\ ~st[HidIn].stalled
  /\ st[HidIn].busy => Occupied
  /\ ClaimsReleased

(* What usb_hid_task relies on: the endpoint it claimed is the one it     *)
(* transfers on, and nobody claims it while usb_hid_task loads and stores *)
(* the byte.                                                              *)
PlaceInv ==
  /\ hpc \in Reporting /\ claiming = HidIn => cfg
  /\ hpc \in Sending /\ target = HidIn => cfg
  /\ hpc \in Sending /\ claiming = HidIn => target = HidIn
  /\ hpc \in {"load", "store"} /\ claiming = HidIn => ~st[HidIn].busy /\ ~st[HidIn].claimed
  /\ hpc = "store" /\ claiming = HidIn => ~loaded.busy /\ ~loaded.stalled
  /\ hpc = "busy_store" /\ target = HidIn => ~loaded.stalled

(* The inductive invariant behind EndpointServed.  Unlike ClaimInv it *)
(* allows the echo to come between a report's test of busy and its    *)
(* transfer.                                                          *)
ServedInv == KnownInv /\ ByteInv /\ PlaceInv

(* The state byte a reset leaves behind has neither busy, claimed nor *)
(* stalled set.                                                       *)
LEMMA FreeBits == Free.busy = FALSE /\ Free.claimed = FALSE /\ Free.stalled = FALSE
  BY DEF Free

(* A step that keeps the byte and takes no transfer away keeps it so. *)
LEMMA ByteKept ==
  ASSUME ByteInv, st'[HidIn] = st[HidIn], cfg => cfg', Occupied => Occupied',
         Preparing(HidIn) => st[HidIn].busy \/ Preparing(HidIn)'
  PROVE  ByteInv'
<1>1. ClaimsReleased'
  BY Zenon DEF ByteInv, ClaimsReleased
<1> QED
  BY <1>1, Zenon DEF ByteInv

(* usb_hid_task never leaves tud_hid_n_report with a claim and without a *)
(* transfer,                                                             *)
LEMMA HidKeepsServed ==
  ASSUME QueueInv, ServedInv, HidStep
  PROVE  ServedInv'
<1>0. UNCHANGED <<ep_in, cfg, events, known>> /\ KnownInv /\ ByteInv /\ PlaceInv
  BY HidQueue, Zenon DEF hostvars, ServedInv
<1>a. HidIn # CtlOut /\ HidIn \in Endpoints /\ DOMAIN st = Endpoints
  BY DEF HidIn, CtlOut, Endpoints, QueueInv, TypeOK
<1>b. claiming \in {CtlOut, HidIn} /\ target \in {CtlOut, HidIn}
  BY DEF QueueInv, TypeOK, MutexInv, Endpoints
<1>c. cfg <=> ep_in = HidIn
  BY DEF QueueInv, ConfigInv
<1>s. /\ loaded = [busy |-> loaded.busy, claimed |-> loaded.claimed, stalled |-> loaded.stalled]
      /\ st[HidIn] \in EpState
  BY <1>a DEF QueueInv, TypeOK, EpState
<1>d. HidIn \in armed \/ Has(events, HidIn) => Occupied'
  <2>1. HidIn \in armed => HidIn \in armed'
    BY HidArms, Zenon
  <2> QED
    BY <1>0, <2>1, Zenon DEF Occupied
<1>e. KnownInv'
  BY <1>0, Zenon DEF KnownInv
<1>k. ASSUME st'[HidIn] = st[HidIn], hpc # "arm",
             Preparing(HidIn) => st[HidIn].busy \/ Preparing(HidIn)'
      PROVE  ByteInv'
  <2>1. Occupied => Occupied'
    BY <1>d, <1>k, Zenon DEF Occupied
  <2> QED
    BY <1>0, <1>k, <2>1, ByteKept, Zenon
<1>1. CASE Sample \/ ClaimArg \/ Precheck \/ Lock \/ Convert
  <2>1. /\ st' = st /\ hpc \in {"start", "sleep", "claim", "precheck", "lock", "convert"}
        /\ hpc' \in {"claim", "precheck", "lock", "check", "convert", "sleep"}
        /\ \/ claiming' = claiming /\ hpc \in {"precheck", "lock"}
           \/ claiming' = ep_in
           \/ hpc' \in {"claim", "sleep"}
    BY <1>1, Zenon DEF Sample, ClaimArg, Precheck, Lock, Convert, Goto, Forget
  <2>2. ~Preparing(HidIn) /\ hpc # "arm"
    BY <2>1 DEF Preparing
  <2>3. ByteInv'
    BY <1>k, <2>1, <2>2, Zenon
  <2>4. PlaceInv'
    BY <1>0, <1>c, <2>1 DEF PlaceInv, Reporting, Sending, Late, Critical
  <2> QED
    BY <1>e, <2>3, <2>4, Zenon DEF ServedInv
<1>2. CASE Check \/ ClaimLoad
  <2>1. /\ st' = st /\ claiming' = claiming
        /\ \/ hpc = "check" /\ hpc' = (IF Available(claiming) THEN "load" ELSE "unlock_failed")
           \/ hpc = "load" /\ hpc' = "store" /\ loaded' = st[claiming]
    BY <1>2, Zenon DEF Check, ClaimLoad, Goto
  <2>2. ~Preparing(HidIn) /\ hpc # "arm"
    BY <2>1 DEF Preparing
  <2>3. ByteInv'
    BY <1>k, <2>1, <2>2, Zenon
  <2>4. PlaceInv'
    BY <1>0, <2>1 DEF PlaceInv, ByteInv, Available, Reporting, Sending, Late, Critical
  <2> QED
    BY <1>e, <2>3, <2>4, Zenon DEF ServedInv
<1>3. CASE ClaimStore
  <2>1. /\ hpc = "store" /\ hpc' = "unlock" /\ claiming' = claiming
        /\ st' = [st EXCEPT ![claiming] = [loaded EXCEPT !.claimed = TRUE]]
    BY <1>3, Zenon DEF ClaimStore, Goto
  <2>2. PlaceInv'
    BY <1>0, <2>1 DEF PlaceInv, Reporting, Sending, Late, Critical
  <2>3. CASE claiming = HidIn
    <3>1. st'[HidIn] = [loaded EXCEPT !.claimed = TRUE]
      BY <1>a, <2>1, <2>3
    <3>2. ~st'[HidIn].busy /\ ~st'[HidIn].stalled /\ cfg'
      BY <1>0, <1>s, <2>1, <2>3, <3>1 DEF PlaceInv, Reporting, Critical
    <3>3. Preparing(HidIn)'
      BY <2>1, <2>3 DEF Preparing
    <3>4. ByteInv'
      BY <3>2, <3>3, Zenon DEF ByteInv, ClaimsReleased
    <3> QED
      BY <1>e, <2>2, <3>4, Zenon DEF ServedInv
  <2>4. CASE claiming = CtlOut
    <3>1. st'[HidIn] = st[HidIn]
      BY <1>a, <2>1, <2>4
    <3>2. ~Preparing(HidIn) /\ hpc # "arm"
      BY <2>1 DEF Preparing
    <3> QED
      BY <1>e, <1>k, <2>2, <3>1, <3>2, Zenon DEF ServedInv
  <2> QED
    BY <1>b, <2>3, <2>4, Zenon
<1>4. CASE Unlock \/ Copy \/ SubmitArg \/ BusyLoad
  <2>1. /\ st' = st /\ claiming' = claiming
        /\ \/ hpc = "unlock" /\ hpc' = "copy"
           \/ hpc = "unlock_failed" /\ hpc' = "convert"
           \/ hpc = "copy" /\ hpc' = "submit"
           \/ hpc = "submit" /\ hpc' = "test" /\ target' = ep_in
           \/ hpc = "busy_load" /\ hpc' = "busy_store" /\ loaded' = st[target] /\ target' = target
    BY <1>4, Zenon DEF Unlock, Copy, SubmitArg, BusyLoad, Goto
  <2>2. (Preparing(HidIn) => Preparing(HidIn)') /\ hpc # "arm"
    BY <2>1 DEF Preparing
  <2>3. ByteInv'
    BY <1>k, <2>1, <2>2, Zenon
  <2>4. PlaceInv'
    BY <1>0, <1>c, <2>1 DEF PlaceInv, ByteInv, Reporting, Sending, Late, Critical
  <2> QED
    BY <1>e, <2>3, <2>4, Zenon DEF ServedInv
<1>5. CASE BusyTest
  <2>1. /\ st' = st /\ claiming' = claiming /\ target' = target /\ hpc = "test"
        /\ hpc' = IF st[target].busy THEN "convert" ELSE "busy_load"
    BY <1>5, Zenon DEF BusyTest, Goto
  <2>2. claiming = HidIn => target = HidIn
    BY <1>0, <2>1 DEF PlaceInv, Sending
  <2>3. (Preparing(HidIn) => st[HidIn].busy \/ Preparing(HidIn)') /\ hpc # "arm"
    BY <2>1, <2>2 DEF Preparing
  <2>4. ByteInv'
    BY <1>k, <2>1, <2>3, Zenon
  <2>5. PlaceInv'
    BY <1>0, <2>1 DEF PlaceInv, Reporting, Sending, Late, Critical
  <2> QED
    BY <1>e, <2>4, <2>5, Zenon DEF ServedInv
<1>6. CASE BusyStore
  <2>1. /\ hpc = "busy_store" /\ hpc' = "arm" /\ claiming' = claiming /\ target' = target
        /\ st' = [st EXCEPT ![target] = [loaded EXCEPT !.busy = TRUE]]
    BY <1>6, Zenon DEF BusyStore, Goto
  <2>2. PlaceInv'
    BY <1>0, <2>1 DEF PlaceInv, Reporting, Sending, Late, Critical
  <2>3. CASE target = HidIn
    <3>1. st'[HidIn] = [loaded EXCEPT !.busy = TRUE]
      BY <1>a, <2>1, <2>3
    <3>2. st'[HidIn].busy /\ ~st'[HidIn].stalled /\ cfg'
      BY <1>0, <1>s, <2>1, <2>3, <3>1 DEF PlaceInv, Sending
    <3>3. Occupied'
      BY <2>1, <2>3, Zenon DEF Occupied
    <3>4. ByteInv'
      BY <3>2, <3>3, Zenon DEF ByteInv, ClaimsReleased
    <3> QED
      BY <1>e, <2>2, <3>4, Zenon DEF ServedInv
  <2>4. CASE target = CtlOut
    <3>1. st'[HidIn] = st[HidIn]
      BY <1>a, <2>1, <2>4
    <3>2. ~Preparing(HidIn) /\ hpc # "arm"
      BY <1>0, <1>a, <2>1, <2>4 DEF Preparing, PlaceInv, Sending
    <3> QED
      BY <1>e, <1>k, <2>2, <3>1, <3>2, Zenon DEF ServedInv
  <2> QED
    BY <1>b, <2>3, <2>4, Zenon
<1>7. CASE Arm
  <2>1. hpc = "arm" /\ hpc' = "convert" /\ st' = st /\ armed' = armed \cup {target}
    BY <1>7, Zenon DEF Arm, Goto
  <2>2. ~Preparing(HidIn)
    BY <2>1 DEF Preparing
  <2>3. Occupied => Occupied'
    BY <1>d, <2>1, Zenon DEF Occupied
  <2>4. ByteInv'
    BY <1>0, <2>1, <2>2, <2>3, ByteKept, Zenon
  <2>5. PlaceInv'
    BY <2>1 DEF PlaceInv, Reporting, Sending, Late, Critical
  <2> QED
    BY <1>e, <2>4, <2>5, Zenon DEF ServedInv
<1> QED
  BY <1>1, <1>2, <1>3, <1>4, <1>5, <1>6, <1>7, Zenon DEF HidStep

(* the device task clears the state byte with the last event of the *)
(* endpoint,                                                        *)
LEMMA UsbdKeepsServed ==
  ASSUME QueueInv, ServedInv, UsbdStep
  PROVE  ServedInv'
<1>t. TypeOK /\ KnownInv /\ ByteInv /\ PlaceInv
  BY Zenon DEF QueueInv, ServedInv
<1>d. /\ CtlIn # CtlOut /\ CtlIn # HidIn /\ HidIn # CtlOut /\ HidIn \in Endpoints
      /\ HidIn \notin {"setup", "reset"}
  BY DEF CtlIn, CtlOut, HidIn, Endpoints
<1>h. UNCHANGED <<hpc, claiming, target, loaded, known>>
  BY Zenon DEF UsbdStep, OnBusReset, OnRejected, OnGet, OnSetAddress, OnSetConfig, OnUnsetConfig,
     OnSetReport, OnGetReport, OnHalt, OnClearHalt, OnReportSent, OnDataInSent, OnDataOutReceived,
     OnStatus, OnSetReportDone, EchoResumes, OnSetup, OnXfer, Handle, hidvars, hostvars
<1>k. ASSUME KnownInv', st'[HidIn] = st[HidIn], cfg => cfg', HidIn \in armed => HidIn \in armed',
             Has(events, HidIn) => Has(events', HidIn)
      PROVE  ServedInv'
  <2>1. Occupied => Occupied'
    BY <1>h, <1>k, Zenon DEF Occupied
  <2>2. Preparing(HidIn) => Preparing(HidIn)'
    BY <1>h, Zenon DEF Preparing
  <2>3. ByteInv'
    BY <1>k, <1>t, <2>1, <2>2, ByteKept, Zenon
  <2>4. PlaceInv'
    BY <1>h, <1>k, <1>t, Zenon DEF PlaceInv
  <2> QED
    BY <1>k, <2>3, <2>4, Zenon DEF ServedInv
<1>f. ASSUME KnownInv', st'[HidIn].busy = FALSE, st'[HidIn].claimed = FALSE,
             st'[HidIn].stalled = FALSE, cfg => cfg'
      PROVE  ServedInv'
  <2>1. ByteInv'
    BY <1>f, Zenon DEF ByteInv, ClaimsReleased
  <2>2. PlaceInv'
    BY <1>f, <1>h, <1>t, Zenon DEF PlaceInv
  <2> QED
    BY <1>f, <2>1, <2>2, Zenon DEF ServedInv
<1>s. ASSUME Handle("setup")
      PROVE  /\ Has(events, HidIn) => Has(events', HidIn)
             /\ \A r : ~Asks(events', r)
             /\ Asks(events, Head(events).req)
  BY <1>s, <1>d, SetupHandled DEF Shrinks
<1>x. ASSUME NEW e \in Endpoints, OnXfer(e)
      PROVE  /\ e # HidIn => (Has(events, HidIn) => Has(events', HidIn))
             /\ \A r : Asks(events', r) => Asks(events, r)
  <2>1. Shrinks(events, events', e)
    BY <1>x, <1>t, QueueShrinks, Zenon DEF OnXfer
  <2> QED
    BY <1>x, <2>1 DEF Shrinks
<1>o. ASSUME \A r : Asks(events', r) => Asks(events, r), cfg' => cfg \/ Asks(events, "set_config")
      PROVE  KnownInv'
  BY <1>h, <1>o, <1>t, Zenon DEF KnownInv
<1>e. ASSUME NEW s, DOMAIN s = Endpoints, s[HidIn] = st[HidIn], ClaimAndSend(s),
             mutex = "none" \/ s[ep_in].busy \/ s[ep_in].claimed,
             KnownInv', cfg' = cfg, Has(events, HidIn) => Has(events', HidIn)
      PROVE  ServedInv'
  <2>1. ep_in \in {CtlOut, HidIn} /\ (cfg <=> ep_in = HidIn)
    BY <1>t DEF TypeOK, QueueInv, ConfigInv
  <2>2. CASE armed' = armed /\ st' = s
    BY <1>e, <1>k, <2>2, Zenon
  <2>3. CASE /\ armed' = armed \cup {ep_in}
             /\ st' = [s EXCEPT ![ep_in].claimed = TRUE, ![ep_in].busy = TRUE]
             /\ mutex = "none"
    <3>1. CASE ep_in = HidIn
      <4>1. HidIn \in armed'
        BY <2>3, <3>1
      <4>2. st[HidIn] \in EpState
        BY <1>d, <1>t DEF TypeOK
      <4>3. st'[HidIn].busy /\ ~st'[HidIn].stalled
        BY <1>d, <1>e, <1>t, <2>3, <3>1, <4>2 DEF EpState, ByteInv
      <4>4. hpc \notin {"load", "store"}
        BY <2>3 DEF QueueInv, MutexInv, Critical
      <4>5. ByteInv'
        BY <1>e, <2>1, <3>1, <4>1, <4>3, Zenon DEF ByteInv, ClaimsReleased, Occupied
      <4>6. PlaceInv'
        BY <1>e, <1>h, <1>t, <4>4 DEF PlaceInv
      <4> QED
        BY <1>e, <4>5, <4>6, Zenon DEF ServedInv
    <3>2. CASE ep_in = CtlOut
      <4>1. st'[HidIn] = st[HidIn] /\ (HidIn \in armed => HidIn \in armed')
        BY <1>d, <1>e, <2>3, <3>2
      <4> QED
        BY <1>e, <1>k, <4>1, Zenon
    <3> QED
      BY <2>1, <3>1, <3>2, Zenon
  <2> QED
    BY <1>e, <2>2, <2>3, Zenon DEF ClaimAndSend
<1>1. CASE OnBusReset
  <2>1. Shrinks(events, events', "reset")
    BY <1>1, <1>t, QueueShrinks, Zenon DEF OnBusReset
  <2>2. Has(events, "reset") /\ \A r : Asks(events', r) => Asks(events, r)
    BY <2>1 DEF Shrinks
  <2>3. ~known /\ ~cfg /\ cfg' = FALSE
    BY <1>1, <1>t, <2>2 DEF QueueInv, ConfigInv, KnownInv, OnBusReset
  <2>4. st'[HidIn] = Free
    BY <1>1, <1>d DEF OnBusReset
  <2>5. KnownInv'
    BY <1>o, <2>2, <2>3, Zenon
  <2>6. st'[HidIn].busy = FALSE /\ st'[HidIn].claimed = FALSE /\ st'[HidIn].stalled = FALSE
    BY <2>4, FreeBits, Zenon
  <2> QED
    BY <1>f, <2>3, <2>5, <2>6, Zenon
<1>2. CASE OnRejected \/ OnGet \/ OnSetAddress \/ OnSetConfig \/ OnSetReport \/ OnGetReport
  <2>1. /\ Handle("setup")
        /\ armed' = armed \/ armed' = armed \cup {CtlIn} \/ armed' = armed \cup {CtlOut}
        /\ st' = AfterSetup \/ st' = Busy(AfterSetup, CtlIn) \/ st' = Busy(AfterSetup, CtlOut)
        /\ cfg' = cfg \/ (cfg' = TRUE /\ Head(events).req = "set_config")
    BY <1>2, Zenon DEF OnRejected, OnGet, OnSetAddress, OnSetConfig, OnSetReport, OnGetReport,
       OnSetup, Respond
  <2>2. st'[HidIn] = st[HidIn] /\ (HidIn \in armed => HidIn \in armed')
    BY <2>1, <1>t, CopiesKeepEndpoint
  <2>3. cfg => cfg'
    BY <2>1
  <2>4. /\ \A r : Asks(events', r) => Asks(events, r)
        /\ cfg' => cfg \/ Asks(events, "set_config")
    BY <1>s, <2>1
  <2>5. KnownInv'
    BY <1>o, <2>4, Zenon
  <2> QED
    BY <1>k, <1>s, <2>1, <2>2, <2>3, <2>5, Zenon
<1>3. ~OnHalt /\ ~OnUnsetConfig
  <2>1. (OnHalt => Asks(events, "halt")) /\ (OnUnsetConfig => Asks(events, "unset_config"))
    BY <1>s DEF OnHalt, OnUnsetConfig, OnSetup
  <2> QED
    BY <1>t, <2>1, Zenon DEF KnownInv
<1>4. CASE OnClearHalt
  <2>1. /\ Handle("setup") /\ armed' = armed \cup {CtlIn} /\ st' = Busy(AfterSetup, CtlIn)
        /\ cfg' = cfg
    BY <1>4, <1>t, Zenon DEF OnClearHalt, OnSetup, Respond, ByteInv
  <2>2. st'[HidIn] = st[HidIn] /\ (HidIn \in armed => HidIn \in armed')
    BY <2>1, <1>t, CopiesKeepEndpoint
  <2>3. KnownInv'
    BY <1>o, <1>s, <2>1, Zenon
  <2> QED
    BY <1>k, <1>s, <2>1, <2>2, <2>3, Zenon
<1>5. CASE OnReportSent
  <2>1. OnXfer(HidIn) /\ st' = Released(st, HidIn) /\ cfg' = cfg
    BY <1>5, Zenon DEF OnReportSent
  <2>2. /\ st'[HidIn].busy = FALSE /\ st'[HidIn].claimed = FALSE
        /\ st'[HidIn].stalled = st[HidIn].stalled /\ st[HidIn].stalled \in BOOLEAN
    BY <1>d, <1>t, <2>1 DEF Released, TypeOK, EpState
  <2>3. st'[HidIn].stalled = FALSE
    BY <1>t, <2>2, Zenon DEF ByteInv
  <2>4. KnownInv'
    BY <1>d, <1>o, <1>x, <2>1, Zenon
  <2> QED
    BY <1>f, <2>1, <2>2, <2>3, <2>4, Zenon
<1>y. CtlIn \in Endpoints /\ CtlOut \in Endpoints
  BY DEF Endpoints
<1>6. CASE OnDataInSent \/ OnDataOutReceived \/ OnStatus
  <2>1. /\ OnXfer(CtlIn) \/ OnXfer(CtlOut)
        /\ HidIn \in armed => HidIn \in armed'
        /\ \/ st' = Released(st, CtlIn) \/ st' = Released(st, CtlOut)
           \/ st' = Busy(Released(st, CtlIn), CtlOut) \/ st' = Busy(Released(st, CtlOut), CtlIn)
        /\ cfg' = cfg
    BY <1>6, Zenon DEF OnDataInSent, OnDataOutReceived, OnStatus, dcdvars
  <2>2. st'[HidIn] = st[HidIn]
    <3>1. Released(st, CtlIn)[HidIn] = st[HidIn] /\ Released(st, CtlOut)[HidIn] = st[HidIn]
      BY <1>t, CopiesKeepEndpoint, Zenon
    <3>2. /\ Busy(Released(st, CtlIn), CtlOut)[HidIn] = st[HidIn]
          /\ Busy(Released(st, CtlOut), CtlIn)[HidIn] = st[HidIn]
      BY <1>t, CopiesKeepEndpoint, Zenon
    <3> QED
      BY <2>1, <3>1, <3>2, Zenon
  <2>3. /\ Has(events, HidIn) => Has(events', HidIn)
        /\ \A r : Asks(events', r) => Asks(events, r)
    <3>1. CASE OnXfer(CtlIn)
      BY <1>d, <1>x, <1>y, <3>1, Zenon
    <3>2. CASE OnXfer(CtlOut)
      BY <1>d, <1>x, <1>y, <3>2, Zenon
    <3> QED
      BY <2>1, <3>1, <3>2, Zenon
  <2>4. KnownInv'
    BY <1>o, <2>1, <2>3, Zenon
  <2> QED
    BY <1>k, <2>1, <2>2, <2>3, <2>4, Zenon
<1>7. CASE OnSetReportDone
  <2> DEFINE s == Released(st, CtlIn)
  <2>1. DOMAIN s = Endpoints /\ s[HidIn] = st[HidIn]
    BY <1>t, CopiesKeepEndpoint DEF Released, TypeOK
  <2>2. /\ OnXfer(CtlIn) /\ cfg' = cfg
        /\ \/ ClaimAndSend(s) /\ (mutex = "none" \/ s[ep_in].busy \/ s[ep_in].claimed)
           \/ st' = s /\ armed' = armed
    BY <1>7, Zenon DEF OnSetReportDone
  <2>3. /\ Has(events, HidIn) => Has(events', HidIn)
        /\ \A r : Asks(events', r) => Asks(events, r)
    BY <1>d, <1>x, <1>y, <2>2, Zenon
  <2>4. KnownInv'
    BY <1>o, <2>2, <2>3, Zenon
  <2> HIDE DEF s
  <2>5. CASE ClaimAndSend(s) /\ (mutex = "none" \/ s[ep_in].busy \/ s[ep_in].claimed)
    BY <1>e, <2>1, <2>2, <2>3, <2>4, <2>5, Zenon
  <2>6. CASE st' = s /\ armed' = armed
    BY <1>k, <2>1, <2>2, <2>3, <2>4, <2>6, Zenon
  <2> QED
    BY <2>2, <2>5, <2>6, Zenon
<1>8. CASE EchoResumes
  <2>1. ClaimAndSend(st) /\ mutex = "none" /\ events' = events /\ cfg' = cfg
    BY <1>8, Zenon DEF EchoResumes
  <2>2. DOMAIN st = Endpoints
    BY <1>t DEF TypeOK
  <2>3. KnownInv'
    BY <1>o, <2>1, Zenon
  <2> QED
    BY <1>e, <2>1, <2>2, <2>3, Zenon
<1> QED
  BY <1>1, <1>2, <1>3, <1>4, <1>5, <1>6, <1>7, <1>8, Zenon DEF UsbdStep

(* and a completed transfer becomes an event, which is not lost. *)
LEMMA BusKeepsServed ==
  ASSUME QueueSz >= 8, QueueInv, ServedInv, Undisturbed, Undisturbed',
         UsbRst \/ ControlStage \/ Poll \/ \E r \in Requests : Setup(r)
  PROVE  ServedInv'
<1>t. KnownInv /\ ByteInv /\ PlaceInv
  BY Zenon DEF ServedInv
<1>d. /\ CtlIn # HidIn /\ HidIn # CtlOut
      /\ CtlIn \in Endpoints /\ CtlOut \in Endpoints /\ HidIn \in Endpoints
      /\ \A e \in Endpoints : e # "setup"
      /\ "reset" # "setup"
  BY DEF CtlIn, CtlOut, HidIn, Endpoints
<1>h. UNCHANGED <<hpc, claiming, target, loaded, st, cfg>>
  BY Zenon DEF UsbRst, ControlStage, EnumDone, DataIn, StatusOut, DataOut, StatusIn, SeesStall, Poll, Setup,
     BusEvent, hidvars, usbdvars
<1>p. PlaceInv'
  BY <1>h, <1>t, Zenon DEF PlaceInv
<1>k. ASSUME KnownInv',
             HidIn \in armed => HidIn \in armed' \/ Has(events', HidIn),
             Has(events, HidIn) => Has(events', HidIn)
      PROVE  ServedInv'
  <2>1. Occupied => Occupied'
    BY <1>h, <1>k, Zenon DEF Occupied
  <2>2. Preparing(HidIn) => Preparing(HidIn)'
    BY <1>h, Zenon DEF Preparing
  <2>3. ByteInv'
    BY <1>h, <1>t, <2>1, <2>2, ByteKept, Zenon
  <2> QED
    BY <1>k, <1>p, <2>3, Zenon DEF ServedInv
<1>1. CASE UsbRst
  <2>1. ~known /\ events' = events
    <3>1. disturb = 0 /\ disturb' = 0
      BY DEF Undisturbed
    <3> QED
      BY <1>1, <3>1 DEF UsbRst
  <2>2. KnownInv'
    BY <1>h, <1>t, <2>1, Zenon DEF KnownInv
  <2>3. ~st[HidIn].busy /\ ~st[HidIn].claimed /\ ~st[HidIn].stalled
    BY <1>t, <2>1, Zenon DEF KnownInv, ByteInv
  <2>4. ByteInv'
    BY <1>h, <2>3, Zenon DEF ByteInv, ClaimsReleased
  <2> QED
    BY <1>p, <2>2, <2>4, Zenon DEF ServedInv
<1>g. ASSUME NEW q, q # "setup", NEW r, Grows(events, events', q, r), known => known'
      PROVE  /\ KnownInv'
             /\ Has(events, HidIn) => Has(events', HidIn)
             /\ Has(events', q)
  <2>1. \A s : Asks(events', s) => Asks(events, s)
    BY <1>g, Zenon DEF Grows
  <2>2. KnownInv'
    BY <1>g, <1>h, <1>t, <2>1, Zenon DEF KnownInv
  <2> QED
    BY <1>g, <2>2, Zenon DEF Grows
<1>2. CASE EnumDone
  <2>1. armed' = armed /\ known' = known /\ Grows(events, events', "reset", "none")
    BY <1>2, QueueGrows, Zenon DEF EnumDone
  <2> QED
    BY <1>d, <1>g, <1>k, <2>1, Zenon
<1>3. ASSUME NEW e \in Endpoints, Completed(e), known => known'
      PROVE  ServedInv'
  <2>1. armed' = armed \ {e} /\ Grows(events, events', e, "none")
    BY <1>3, QueueGrows, Zenon DEF Completed
  <2>2. /\ KnownInv' /\ Has(events', e)
        /\ Has(events, HidIn) => Has(events', HidIn)
    BY <1>d, <1>3, <1>g, <2>1, Zenon
  <2>3. HidIn \in armed => HidIn \in armed' \/ e = HidIn
    BY <2>1
  <2> QED
    BY <1>k, <2>2, <2>3, Zenon
<1>4. CASE DataIn \/ StatusOut \/ DataOut \/ StatusIn \/ Poll
  <2>1. Completed(CtlIn) \/ Completed(CtlOut) \/ Completed(HidIn)
    BY <1>4, Zenon DEF DataIn, StatusOut, DataOut, StatusIn, Poll
  <2>2. known' = known \/ known' = TRUE
    BY <1>4, Zenon DEF DataIn, StatusOut, DataOut, StatusIn, Poll, hostvars
  <2>3. known => known'
    BY <2>2
  <2> QED
    BY <1>d, <1>3, <2>1, <2>3, Zenon
<1>5. CASE SeesStall
  <2>1. UNCHANGED <<events, armed, known>>
    BY <1>5, Zenon DEF SeesStall, dcdvars
  <2>2. KnownInv'
    BY <1>h, <1>t, <2>1, Zenon DEF KnownInv
  <2> QED
    BY <1>k, <2>1, <2>2, Zenon
<1>6. ASSUME NEW r \in Requests, Setup(r)
      PROVE  ServedInv'
  <2>1. /\ armed' = armed \ {CtlOut, CtlIn} /\ known' = known
        /\ Grows(events, events', "setup", r)
        /\ r = "set_config" => known
        /\ disturb' = IF r \in {"unset_config", "halt"} THEN disturb + 1 ELSE disturb
    BY <1>6, QueueGrows, Zenon DEF Setup, MayAsk
  <2>2. r \notin {"unset_config", "halt"}
    BY <2>1 DEF Undisturbed
  <2>3. KnownInv'
    BY <1>h, <1>t, <2>1, <2>2 DEF KnownInv, Grows
  <2>4. HidIn \in armed => HidIn \in armed'
    BY <1>d, <2>1
  <2>5. Has(events, HidIn) => Has(events', HidIn)
    BY <2>1, Zenon DEF Grows
  <2> QED
    BY <1>k, <2>3, <2>4, <2>5, Zenon
<1> QED
  BY <1>1, <1>2, <1>4, <1>5, <1>6, Zenon DEF ControlStage

(* Every step keeps the endpoint served. *)
LEMMA NextKeepsServed ==
  ASSUME QueueSz >= 8, QueueInv, Undisturbed => ServedInv, [Next]_vars, Undisturbed'
  PROVE  ServedInv'
<1>1. Undisturbed /\ ServedInv
  BY DisturbGrows, Zenon DEF QueueInv
<1>2. CASE AdcDone \/ UNCHANGED vars
  <2>1. UNCHANGED <<hpc, claiming, target, loaded, st, cfg, known, events, armed>>
    BY <1>2, Zenon DEF AdcDone, vars, hidvars, usbdvars, dcdvars, hostvars
  <2>2. KnownInv' /\ PlaceInv'
    BY <1>1, <2>1, Zenon DEF ServedInv, KnownInv, PlaceInv
  <2>3. ByteInv'
    BY <1>1, <2>1, Zenon DEF ServedInv, ByteInv, ClaimsReleased, Preparing, Occupied
  <2> QED
    BY <2>2, <2>3, Zenon DEF ServedInv
<1> QED
  BY <1>1, <1>2, HidKeepsServed, UsbdKeepsServed, BusKeepsServed, Zenon DEF Next

(* As long as the host leaves the configuration alone the mouse does not    *)
(* fall silent: the HID endpoint is never left busy or claimed with nothing *)
(* on its way that frees it, and ClaimsReleased holds, which the comment on *)
(* usbd_edpt_claim demands of its callers.  Nothing is assumed of how many  *)
(* bus events fall into the making of a report.  Run usb_claim shows that   *)
(* one disturbance is enough to leave the endpoint claimed for ever.        *)
THEOREM EndpointServed ==
  ASSUME QueueSz >= 8
  PROVE  SafeSpec => [](Undisturbed => Served /\ ClaimsReleased)
<1>1. Init => ServedInv
  <2> SUFFICES ASSUME Init PROVE ServedInv
    OBVIOUS
  <2>1. events = <<>> /\ hpc = "start" /\ ~cfg /\ st[HidIn] = Free
    BY DEF Init, Endpoints
  <2>2. ~Free.busy /\ ~Free.claimed /\ ~Free.stalled
    BY FreeBits, Zenon
  <2>3. KnownInv
    BY <2>1, QueueEmpty, Zenon DEF KnownInv
  <2>4. ByteInv
    BY <2>1, <2>2, Zenon DEF ByteInv, ClaimsReleased
  <2>5. PlaceInv
    BY <2>1 DEF PlaceInv, Reporting, Sending, Late, Critical
  <2> QED
    BY <2>3, <2>4, <2>5, Zenon DEF ServedInv
<1>2. QueueInv /\ (Undisturbed => ServedInv) /\ [Next]_vars => (Undisturbed => ServedInv)'
  BY NextKeepsServed, Zenon
<1>3. ServedInv => Served /\ ClaimsReleased
  BY Zenon DEF ServedInv, ByteInv, Served, ClaimsReleased
<1>4. Init => QueueInv
  BY InitQueue
<1>5. QueueInv /\ [Next]_vars => QueueInv'
  BY NextKeepsQueue
<1> QED
  BY <1>1, <1>2, <1>3, <1>4, <1>5, PTL DEF SafeSpec
=============================================================================

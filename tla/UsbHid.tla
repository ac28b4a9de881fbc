------------------------------- MODULE UsbHid -------------------------------
(***************************************************************************)
(* The USB mouse: usb_hid_task of Src/usb_device.c samples the joystick    *)
(* and submits a report, the device task of tinyusb answers the host's     *)
(* control requests and echoes what the host sets, and both share the HID  *)
(* endpoint, its buffer and its state byte.                                *)
(*                                                                         *)
(* The device task has the higher priority: it handles one event of the    *)
(* queue in one step of the model and usb_hid_task moves only while it     *)
(* waits, for an event or for the mutex.  The interrupt handler runs when  *)
(* the bus event happens, so a bus event and what it puts in the queue are *)
(* one step.                                                               *)
(***************************************************************************)
EXTENDS Integers, Sequences, FiniteSets

CONSTANTS
  AdcVals,    \* the 8-bit values the joystick's channels convert to
  QueueSz,    \* capacity of the event queue (CFG_TUD_TASK_QUEUE_SZ, 16)
  Burst,      \* bus events that may fall into the making of one report
  Disturbances, \* how the host disturbs a device it knows
  MaxDisturb  \* bound on how often it does

ASSUME UsbAssumption ==
  /\ AdcVals \subseteq 0..255
  /\ QueueSz \in Nat \ {0}
  /\ Burst \in Nat
  /\ Disturbances \subseteq {"reset", "unset_config", "halt"}
  /\ MaxDisturb \in Nat

CtlOut == "ep0 out"
CtlIn == "ep0 in"
HidIn == "ep1 in"
Endpoints == {CtlOut, CtlIn, HidIn}

(* Control requests.  "get" stands for every request the stack answers     *)
(* with data of its own and "unsupported" for every request it stalls.     *)
HidRequests == {"set_report", "get_report", "halt", "clear_halt"}
Requests ==
  {"get", "set_address", "unsupported", "set_config", "unset_config"} \cup HidRequests

(* A root port drives a reset for 50 ms: usb_hid_task, which sleeps for    *)
(* 10 ms, wakes more than once before the reset ends.                      *)
ResetWakes == 2

(* The stages of a request: with data to the host, with data from the      *)
(* host (the only one being SET_REPORT), or without data.                  *)
Kind(r) ==
  IF r \in {"get", "get_report"} THEN "read"
  ELSE IF r = "set_report" THEN "write" ELSE "nodata"

VARIABLES
  hpc,        \* the next statement of usb_hid_task
  x, y,       \* its delta_x and delta_y
  claiming,   \* the endpoint whose state byte its usbd_edpt_claim works on
  target,     \* the ep_addr argument of its usbd_edpt_xfer
  loaded,     \* the state byte it has loaded and not yet stored back
  st,         \* _usbd_dev.ep_status
  ep_in,      \* _hidd_itf[0].ep_in, which is ep0 out (0) when no host configured it
  buf,        \* _hidd_itf[0].epin_buf
  mutex,      \* holder of _usbd_mutex
  blocked,    \* the device task waits for it in usbd_edpt_claim
  cfg,        \* _usbd_dev.cfg_num is 1
  request,    \* the kind of _ctrl_xfer.request, cleared by usbd_control_reset
  events,     \* the queue _usbd_q
  armed,      \* the endpoints the controller has a transfer scheduled on
  open,       \* max_size of the HID endpoint is set in xfer_status
  stalling,   \* the IN endpoints the controller answers with STALL
  wire,       \* the report in the transmit FIFO of the HID endpoint
  jdr1, jdr2, \* ADC1 injected data registers
  rank,       \* the channel of the injected sequence that is converted next
  converting, \* an injected conversion is running
  bus,        \* what the host is doing on the control pipe
  asked,      \* the request of its control transfer
  known,      \* the host has read a descriptor since the last reset
  mounted,    \* the host has configured the device
  burst,      \* bus events since usb_hid_task last slept
  wakes,      \* how often it woke since the last reset, at most ResetWakes
  disturb     \* resets since a descriptor was read, unconfigurations, halts

hidvars == <<hpc, x, y, claiming, target, loaded>>
usbdvars == <<st, ep_in, buf, mutex, blocked, cfg, request>>
dcdvars == <<armed, open, stalling, wire>>
adcvars == <<jdr1, jdr2, rank, converting>>
hostvars == <<bus, asked, known, mounted, disturb>>

vars == <<hidvars, usbdvars, events, dcdvars, adcvars, hostvars, burst, wakes>>

Free == [busy |-> FALSE, claimed |-> FALSE, stalled |-> FALSE]
NoReport == [by |-> "none", x |-> 0, y |-> 0]
Echo == [by |-> "echo", x |-> 0, y |-> 0]

(* The scheduler starts after usb_device_init; the device task is the      *)
(* first to run and has executed tud_init, and joystick_init has started   *)
(* the first conversion.  The reset value of the data registers is 0.      *)
Init ==
  /\ hpc = "start"
  /\ x = 0 /\ y = 0
  /\ claiming = CtlOut /\ target = CtlOut
  /\ loaded = Free
  /\ st = [e \in Endpoints |-> Free]
  /\ ep_in = CtlOut
  /\ buf = NoReport
  /\ mutex = "none"
  /\ blocked = FALSE
  /\ cfg = FALSE
  /\ request = "nodata"
  /\ events = <<>>
  /\ armed = {}
  /\ open = FALSE
  /\ stalling = {}
  /\ wire = NoReport
  /\ jdr1 = 0 /\ jdr2 = 0
  /\ rank = 1
  /\ converting = TRUE
  /\ bus = "off"
  /\ asked = "none"
  /\ known = FALSE
  /\ mounted = FALSE
  /\ burst = 0
  /\ wakes = 0
  /\ disturb = 0

-----------------------------------------------------------------------------
(* usb_hid_task *)

(* Mutant: the result is returned as a uint8_t. *)
get_delta_unsigned(val) == IF val < 32 THEN 253 ELSE IF val < 160 THEN 0 ELSE 3

get_delta_by_adc_val(val) ==
  IF val < 32 THEN -3
  ELSE IF val < 64 THEN -2
  ELSE IF val < 96 THEN -1
  ELSE IF val < 160 THEN 0
  ELSE IF val < 192 THEN 1
  ELSE IF val < 224 THEN 2
  ELSE 3

UsbdRuns == IF blocked THEN mutex = "none" ELSE events # <<>>

Goto(from, to) ==
  /\ hpc = from
  /\ hpc' = to
  /\ ~UsbdRuns
  /\ UNCHANGED <<ep_in, blocked, cfg, request, events, open, stalling, hostvars>>

Available(e) == ~st[e].busy /\ ~st[e].claimed

(* The two reads of the data registers *)
Sample ==
  /\ hpc \in {"start", "sleep"}
  /\ Goto(hpc, "claim")
  /\ x' = get_delta_by_adc_val(jdr1)
  /\ wakes' = IF hpc = "sleep" /\ wakes < ResetWakes THEN wakes + 1 ELSE wakes
  /\ y' = get_delta_by_adc_val(jdr2)
  /\ UNCHANGED <<claiming, target, loaded, st, buf, mutex, armed, wire, adcvars, burst>>

(* tud_hid_n_report reads p_hid->ep_in for usbd_edpt_claim *)
ClaimArg ==
  /\ Goto("claim", "precheck")
  /\ claiming' = ep_in
  /\ UNCHANGED <<x, y, target, loaded, st, buf, mutex, armed, wire, adcvars, burst, wakes>>

Precheck ==
  /\ Goto("precheck", IF Available(claiming) THEN "lock" ELSE "convert")
  /\ UNCHANGED <<x, y, claiming, target, loaded, st, buf, mutex, armed, wire, adcvars, burst, wakes>>

Lock ==
  /\ mutex = "none"
  /\ Goto("lock", "check")
  /\ mutex' = "hid"
  /\ UNCHANGED <<x, y, claiming, target, loaded, st, buf, armed, wire, adcvars, burst, wakes>>

Check ==
  /\ Goto("check", IF Available(claiming) THEN "load" ELSE "unlock_failed")
  /\ UNCHANGED <<x, y, claiming, target, loaded, st, buf, mutex, armed, wire, adcvars, burst, wakes>>

(* claimed = 1 loads the byte that holds the three bits and stores it back. *)
ClaimLoad ==
  /\ Goto("load", "store")
  /\ loaded' = st[claiming]
  /\ UNCHANGED <<x, y, claiming, target, st, buf, mutex, armed, wire, adcvars, burst, wakes>>

ClaimStore ==
  /\ Goto("store", "unlock")
  /\ st' = [st EXCEPT ![claiming] = [loaded EXCEPT !.claimed = TRUE]]
  /\ UNCHANGED <<x, y, claiming, target, loaded, buf, mutex, armed, wire, adcvars, burst, wakes>>

Unlock ==
  /\ Goto("unlock", "copy") \/ Goto("unlock_failed", "convert")
  /\ mutex' = "none"
  /\ UNCHANGED <<x, y, claiming, target, loaded, st, buf, armed, wire, adcvars, burst, wakes>>

(* memcpy of the report into epin_buf *)
Copy ==
  /\ Goto("copy", "submit")
  /\ buf' = [by |-> "mouse", x |-> x, y |-> y]
  /\ UNCHANGED <<x, y, claiming, target, loaded, st, mutex, armed, wire, adcvars, burst, wakes>>

(* p_hid->ep_in is read again for usbd_edpt_xfer *)
SubmitArg ==
  /\ Goto("submit", "test")
  /\ target' = ep_in
  /\ UNCHANGED <<x, y, claiming, loaded, st, buf, mutex, armed, wire, adcvars, burst, wakes>>

(* TU_ASSERT(busy == 0) *)
BusyTest ==
  /\ Goto("test", IF st[target].busy THEN "convert" ELSE "busy_load")
  /\ UNCHANGED <<x, y, claiming, target, loaded, st, buf, mutex, armed, wire, adcvars, burst, wakes>>

BusyLoad ==
  /\ Goto("busy_load", "busy_store")
  /\ loaded' = st[target]
  /\ UNCHANGED <<x, y, claiming, target, st, buf, mutex, armed, wire, adcvars, burst, wakes>>

BusyStore ==
  /\ Goto("busy_store", "arm")
  /\ st' = [st EXCEPT ![target] = [loaded EXCEPT !.busy = TRUE]]
  /\ UNCHANGED <<x, y, claiming, target, loaded, buf, mutex, armed, wire, adcvars, burst, wakes>>

(* dcd_edpt_xfer; the FIFO-empty interrupt fills the FIFO at once. *)
Arm ==
  /\ Goto("arm", "convert")
  /\ armed' = armed \cup {target}
  /\ wire' = IF target = HidIn THEN buf ELSE wire
  /\ UNCHANGED <<x, y, claiming, target, loaded, st, buf, mutex, adcvars, burst, wakes>>

(* The locals of the report are dead when it has been submitted or dropped. *)
Forget ==
  /\ x' = 0 /\ y' = 0
  /\ claiming' = CtlOut /\ target' = CtlOut
  /\ loaded' = Free
  /\ burst' = 0

(* Mutant: the sequence is never triggered again. *)
ConvertNever ==
  /\ Goto("convert", "sleep")
  /\ Forget
  /\ UNCHANGED <<st, buf, mutex, armed, wire, adcvars, wakes>>

(* In discontinuous mode a trigger converts one channel of the sequence. *)
Converted ==
  /\ converting' = FALSE
  /\ rank' = 3 - rank
  /\ \E v \in AdcVals : IF rank = 1 THEN jdr1' = v /\ UNCHANGED jdr2
                                    ELSE jdr2' = v /\ UNCHANGED jdr1

(* LL_ADC_INJ_StartConversionSWStart and vTaskDelay: the conversion is over *)
(* long before the delay.  A trigger is lost while the first one still runs. *)
Convert ==
  /\ Goto("convert", "sleep")
  /\ Forget
  /\ Converted
  /\ UNCHANGED <<st, buf, mutex, armed, wire, wakes>>

HidStep ==
  \/ Sample \/ ClaimArg \/ Precheck \/ Lock \/ Check \/ ClaimLoad \/ ClaimStore
  \/ Unlock \/ Copy \/ SubmitArg \/ BusyTest \/ BusyLoad \/ BusyStore \/ Arm \/ Convert

(* The conversion that joystick_init started ends. *)
AdcDone ==
  /\ converting
  /\ Converted
  /\ UNCHANGED <<hidvars, usbdvars, events, dcdvars, hostvars, burst, wakes>>

-----------------------------------------------------------------------------
(* The device task: tud_task_ext and what it calls *)

Released(s, e) == [s EXCEPT ![e].busy = FALSE, ![e].claimed = FALSE]
Busy(s, e) == [s EXCEPT ![e].busy = TRUE]

(* osal_queue_receive *)
Handle(id) ==
  /\ ~blocked /\ events # <<>>
  /\ Head(events).id = id
  /\ events' = Tail(events)
  /\ UNCHANGED <<hidvars, adcvars, hostvars, burst, wakes>>

(* DCD_EVENT_BUS_RESET: configuration_reset and usbd_control_reset *)
OnBusReset ==
  /\ Handle("reset")
  /\ st' = [e \in Endpoints |-> Free]
  /\ ep_in' = CtlOut
  /\ buf' = NoReport
  /\ cfg' = FALSE
  /\ request' = "nodata"
  /\ UNCHANGED <<mutex, blocked, dcdvars>>

(* Mutant: the endpoints are not marked free. *)
AfterSetupKeepsBusy == st

(* A SETUP event frees both directions of endpoint 0 first. *)
AfterSetup == Released(Released(st, CtlOut), CtlIn)

OnSetup(r) ==
  /\ Handle("setup")
  /\ Head(events).req = r
  /\ UNCHANGED <<mutex, blocked>>

(* tud_control_status, or tud_control_xfer of the given data stage *)
Respond(s, e, r) ==
  /\ st' = Busy(s, e)
  /\ request' = Kind(r)

(* process_control_request fails, both directions of endpoint 0 are stalled *)
OnRejected ==
  /\ OnSetup("unsupported") \/ (~cfg /\ \E r \in {"set_report", "get_report"} : OnSetup(r))
  /\ st' = AfterSetup
  /\ stalling' = stalling \cup {CtlIn}
  /\ UNCHANGED <<ep_in, buf, cfg, request, armed, open, wire>>

OnGet ==
  /\ OnSetup("get")
  /\ Respond(AfterSetup, CtlIn, "get")
  /\ armed' = armed \cup {CtlIn}
  /\ UNCHANGED <<ep_in, buf, cfg, open, stalling, wire>>

(* dcd_set_address schedules the status packet itself. *)
OnSetAddress ==
  /\ OnSetup("set_address")
  /\ st' = AfterSetup
  /\ request' = "nodata"
  /\ armed' = armed \cup {CtlIn}
  /\ UNCHANGED <<ep_in, buf, cfg, open, stalling, wire>>

(* process_set_config: hidd_open opens the endpoint and sets ep_in.  A     *)
(* configuration that is already selected is only acknowledged.            *)
OnSetConfig ==
  /\ OnSetup("set_config")
  /\ Respond(AfterSetup, CtlIn, "set_config")
  /\ armed' = armed \cup {CtlIn}
  /\ cfg' = TRUE
  /\ ep_in' = IF cfg THEN ep_in ELSE HidIn
  /\ open' = IF cfg THEN open ELSE TRUE
  /\ UNCHANGED <<buf, stalling, wire>>

(* SET_CONFIGURATION(0): dcd_edpt_close_all and configuration_reset *)
OnUnsetConfig ==
  /\ OnSetup("unset_config")
  /\ Respond([e \in Endpoints |-> Free], CtlIn, "unset_config")
  /\ armed' = (armed \ {HidIn}) \cup {CtlIn}
  /\ cfg' = FALSE
  /\ ep_in' = CtlOut
  /\ open' = FALSE
  /\ stalling' = stalling \ {HidIn}
  /\ buf' = NoReport
  /\ wire' = NoReport

(* The data stage of SET_REPORT is received into epout_buf. *)
OnSetReport ==
  /\ OnSetup("set_report")
  /\ cfg
  /\ Respond(AfterSetup, CtlOut, "set_report")
  /\ armed' = armed \cup {CtlOut}
  /\ UNCHANGED <<ep_in, buf, cfg, open, stalling, wire>>

(* GET_REPORT of a report id: hidd_control_xfer_cb puts the id into the    *)
(* first byte of epin_buf, whoever has claimed the endpoint.               *)
OnGetReport ==
  /\ OnSetup("get_report")
  /\ cfg
  /\ Respond(AfterSetup, CtlIn, "get_report")
  /\ armed' = armed \cup {CtlIn}
  /\ buf' = [buf EXCEPT !.by = "id"]
  /\ UNCHANGED <<ep_in, cfg, open, stalling, wire>>

(* usbd_edpt_stall: a transfer in flight is aborted. *)
OnHalt ==
  /\ OnSetup("halt")
  /\ Respond(IF st[HidIn].stalled THEN AfterSetup
             ELSE [AfterSetup EXCEPT ![HidIn].stalled = TRUE, ![HidIn].busy = TRUE],
             CtlIn, "halt")
  /\ armed' = (IF st[HidIn].stalled THEN armed ELSE armed \ {HidIn}) \cup {CtlIn}
  /\ wire' = IF st[HidIn].stalled THEN wire ELSE NoReport
  /\ stalling' = stalling \cup {HidIn}
  /\ UNCHANGED <<ep_in, buf, cfg, open>>

(* usbd_edpt_clear_stall *)
OnClearHalt ==
  /\ OnSetup("clear_halt")
  /\ Respond(IF st[HidIn].stalled
             THEN [AfterSetup EXCEPT ![HidIn].stalled = FALSE, ![HidIn].busy = FALSE]
             ELSE AfterSetup,
             CtlIn, "clear_halt")
  /\ armed' = armed \cup {CtlIn}
  /\ stalling' = IF st[HidIn].stalled THEN stalling \ {HidIn} ELSE stalling
  /\ UNCHANGED <<ep_in, buf, cfg, open, wire>>

OnXfer(e) ==
  /\ Handle("xfer")
  /\ Head(events).ep = e

(* Mutant: the claim is not given back with the transfer. *)
OnReportSentKeepsClaim ==
  /\ OnXfer(HidIn)
  /\ st' = [st EXCEPT ![HidIn].busy = FALSE]
  /\ UNCHANGED <<ep_in, buf, mutex, blocked, cfg, request, dcdvars>>

(* A report was sent: hidd_xfer_cb only has callbacks nobody defines. *)
OnReportSent ==
  /\ OnXfer(HidIn)
  /\ st' = Released(st, HidIn)
  /\ UNCHANGED <<ep_in, buf, mutex, blocked, cfg, request, dcdvars>>

(* usbd_control_xfer_cb at the end of an IN data stage: the status stage   *)
(* is not scheduled when ep0 out is busy (TU_ASSERT in usbd_edpt_xfer).    *)
OnDataInSent ==
  /\ OnXfer(CtlIn)
  /\ request = "read"
  /\ st' = Busy(Released(st, CtlIn), CtlOut)
  /\ armed' = IF st[CtlOut].busy THEN armed ELSE armed \cup {CtlOut}
  /\ UNCHANGED <<ep_in, buf, mutex, blocked, cfg, request, open, stalling, wire>>

OnDataOutReceived ==
  /\ OnXfer(CtlOut)
  /\ request = "write"
  /\ st' = Busy(Released(st, CtlOut), CtlIn)
  /\ armed' = IF st[CtlIn].busy THEN armed ELSE armed \cup {CtlIn}
  /\ UNCHANGED <<ep_in, buf, mutex, blocked, cfg, request, open, stalling, wire>>

(* The end of a status stage; there is a complete_cb only for the HID      *)
(* requests, and it does something only for SET_REPORT.                    *)
OnStatus ==
  /\ \/ OnXfer(CtlOut) /\ request = "read" /\ st' = Released(st, CtlOut)
     \/ OnXfer(CtlIn) /\ request = "nodata"
        /\ st' = Released(st, CtlIn)
  /\ UNCHANGED <<ep_in, buf, mutex, blocked, cfg, request, dcdvars>>

(* The rest of tud_hid_report once the device task has the mutex: nobody   *)
(* else runs until it waits again.                                         *)
ClaimAndSend(s) ==
  IF s[ep_in].busy \/ s[ep_in].claimed
  THEN st' = s /\ UNCHANGED <<buf, armed, wire>>
  ELSE /\ st' = [s EXCEPT ![ep_in].claimed = TRUE, ![ep_in].busy = TRUE]
       /\ buf' = Echo
       /\ armed' = armed \cup {ep_in}
       /\ wire' = IF ep_in = HidIn THEN Echo ELSE wire

(* Mutant: the echo does not claim the endpoint. *)
OnSetReportDoneUnclaimed ==
  /\ OnXfer(CtlIn)
  /\ request = "write"
  /\ st' = Busy(Released(st, CtlIn), ep_in)
  /\ buf' = Echo
  /\ armed' = armed \cup {ep_in}
  /\ wire' = Echo
  /\ UNCHANGED <<ep_in, mutex, blocked, cfg, request, open, stalling>>

(* tud_hid_set_report_cb echoes the report: usbd_edpt_claim checks the     *)
(* state, then waits for the mutex if usb_hid_task holds it.               *)
OnSetReportDone ==
  /\ OnXfer(CtlIn)
  /\ request = "write"
  /\ LET s == Released(st, CtlIn) IN
     IF mutex = "none" \/ s[ep_in].busy \/ s[ep_in].claimed
     THEN ClaimAndSend(s) /\ UNCHANGED blocked
     ELSE /\ st' = s
          /\ blocked' = TRUE
          /\ UNCHANGED <<buf, armed, wire>>
  /\ UNCHANGED <<ep_in, mutex, cfg, request, open, stalling>>

(* The mutex was given back: the device task takes it, checks again and    *)
(* gives it back.                                                          *)
EchoResumes ==
  /\ blocked /\ mutex = "none"
  /\ blocked' = FALSE
  /\ ClaimAndSend(st)
  /\ UNCHANGED <<hidvars, ep_in, mutex, cfg, request, events, open, stalling, adcvars, hostvars, burst, wakes>>

UsbdStep ==
  \/ OnBusReset \/ OnRejected \/ OnGet \/ OnSetAddress \/ OnSetConfig \/ OnUnsetConfig
  \/ OnSetReport \/ OnGetReport \/ OnHalt \/ OnClearHalt
  \/ OnReportSent \/ OnDataInSent \/ OnDataOutReceived \/ OnStatus
  \/ OnSetReportDone \/ EchoResumes

-----------------------------------------------------------------------------
(* The controller, its interrupt handler and the host.  A report is made   *)
(* in microseconds, a bus transaction takes tens of them: while            *)
(* usb_hid_task is awake only Burst bus events happen.                     *)

BusEvent ==
  /\ hpc # "sleep" => burst < Burst
  /\ burst' = IF hpc = "sleep" THEN 0 ELSE burst + 1
  /\ UNCHANGED <<hidvars, usbdvars, adcvars>>

(* Mutant: an event is sent from both branches of the interrupt handler. *)
EnqueueTwice(ev) == events' = events \o <<ev, ev>>

(* dcd_event_handler: osal_queue_send fails on a full queue, and the       *)
(* result is ignored.                                                      *)
Enqueue(ev) ==
  events' = IF Len(events) < QueueSz THEN Append(events, ev) ELSE events

Completed(e) ==
  /\ e \in armed
  /\ armed' = armed \ {e}
  /\ wire' = IF e = HidIn THEN NoReport ELSE wire
  /\ Enqueue([id |-> "xfer", ep |-> e])
  /\ UNCHANGED <<open, stalling, wakes>>

MayDisturb(d) == d \in Disturbances /\ disturb < MaxDisturb

(* USBRST: bus_reset clears xfer_status; no event is sent yet. *)
UsbRst ==
  /\ BusEvent
  /\ bus # "reset"
  /\ known => MayDisturb("reset")
  /\ disturb' = IF known THEN disturb + 1 ELSE disturb
  /\ bus' = "reset"
  /\ asked' = "none"
  /\ known' = FALSE
  /\ mounted' = FALSE
  /\ armed' = {}
  /\ wire' = NoReport
  /\ open' = FALSE
  /\ wakes' = 0
  /\ UNCHANGED <<events, stalling>>

(* ENUMDNE: the end of the reset.  By then the device task has handled the *)
(* events before it and usb_hid_task has woken.                            *)
EnumDone ==
  /\ BusEvent
  /\ bus = "reset"
  /\ events = <<>> /\ ~blocked
  /\ wakes = ResetWakes
  /\ bus' = "idle"
  /\ Enqueue([id |-> "reset"])
  /\ UNCHANGED <<armed, open, stalling, wire, asked, known, mounted, disturb, wakes>>

(* The requests of a host: it configures the device after it has read its  *)
(* descriptors and uses the HID interface once it is configured.           *)
MayAsk(r) ==
  /\ r = "set_address" => ~mounted
  /\ r = "set_config" => known
  /\ r \in HidRequests \cup {"unset_config"} => mounted
  /\ r \in {"unset_config", "halt"} => MayDisturb(r)

(* A SETUP packet is always accepted, ends what endpoint 0 was doing and   *)
(* makes the controller NAK its OUT side.                                  *)
Setup(r) ==
  /\ BusEvent
  /\ bus = "idle"
  /\ MayAsk(r)
  /\ bus' = CASE Kind(r) = "read"   -> "data_in"
             [] Kind(r) = "write"  -> "data_out"
             [] Kind(r) = "nodata" -> "status_in"
  /\ asked' = r
  /\ armed' = armed \ {CtlOut, CtlIn}
  /\ stalling' = stalling \ {CtlIn}
  /\ Enqueue([id |-> "setup", req |-> r])
  /\ mounted' = (mounted /\ r # "unset_config")
  /\ disturb' = IF r \in {"unset_config", "halt"} THEN disturb + 1 ELSE disturb
  /\ UNCHANGED <<open, wire, known, wakes>>

DataIn ==
  /\ BusEvent
  /\ bus = "data_in" /\ Completed(CtlIn)
  /\ bus' = "status_out"
  /\ UNCHANGED <<asked, known, mounted, disturb>>

StatusOut ==
  /\ BusEvent
  /\ bus = "status_out" /\ Completed(CtlOut)
  /\ bus' = "idle"
  /\ asked' = "none"
  /\ known' = TRUE
  /\ UNCHANGED <<mounted, disturb>>

DataOut ==
  /\ BusEvent
  /\ bus = "data_out" /\ Completed(CtlOut)
  /\ bus' = "status_in"
  /\ UNCHANGED <<asked, known, mounted, disturb>>

StatusIn ==
  /\ BusEvent
  /\ bus = "status_in" /\ Completed(CtlIn)
  /\ bus' = "idle"
  /\ asked' = "none"
  /\ mounted' = (mounted \/ asked = "set_config")
  /\ UNCHANGED <<known, disturb>>

(* The host sees endpoint 0 stalled and gives the request up. *)
SeesStall ==
  /\ bus \notin {"off", "reset", "idle"} /\ CtlIn \in stalling
  /\ bus' = "idle"
  /\ asked' = "none"
  /\ UNCHANGED <<hidvars, usbdvars, events, dcdvars, adcvars, burst, wakes>>
  /\ UNCHANGED <<known, mounted, disturb>>

ControlStage == EnumDone \/ DataIn \/ StatusOut \/ DataOut \/ StatusIn \/ SeesStall

(* The interrupt endpoint is polled: the host gets the report in the FIFO. *)
Poll ==
  /\ BusEvent
  /\ mounted /\ open /\ HidIn \notin stalling
  /\ Completed(HidIn)
  /\ UNCHANGED hostvars

-----------------------------------------------------------------------------
Next ==
  \/ HidStep \/ UsbdStep \/ AdcDone
  \/ UsbRst \/ ControlStage \/ Poll
  \/ \E r \in Requests : Setup(r)

(* The tasks run, a conversion ends, and the host completes the control    *)
(* transfers it starts and polls the endpoint; it need not start any.      *)
Fairness ==
  /\ SF_vars(HidStep)
  /\ WF_vars(UsbdStep)
  /\ WF_vars(AdcDone)
  /\ SF_vars(ControlStage)
  /\ SF_vars(Poll)

SafeSpec == Init /\ [][Next]_vars

Spec == SafeSpec /\ Fairness

-----------------------------------------------------------------------------
HidLabels ==
  {"start", "sleep", "claim", "precheck", "lock", "check", "load", "store", "unlock",
   "unlock_failed", "copy", "submit", "test", "busy_load", "busy_store", "arm", "convert"}

EpState == [busy : BOOLEAN, claimed : BOOLEAN, stalled : BOOLEAN]
Reports == [by : {"none", "mouse", "echo", "id"}, x : -3..3, y : -3..3]
Events ==
  [id : {"reset"}] \cup [id : {"setup"}, req : Requests] \cup [id : {"xfer"}, ep : Endpoints]

(* The variables keep their types; the deltas in particular are small      *)
(* signed numbers, as the report descriptor has them.                      *)
TypeOK ==
  /\ hpc \in HidLabels
  /\ x \in -3..3 /\ y \in -3..3
  /\ claiming \in Endpoints /\ target \in Endpoints
  /\ loaded \in EpState
  /\ st \in [Endpoints -> EpState]
  /\ ep_in \in {CtlOut, HidIn}
  /\ buf \in Reports /\ wire \in Reports
  /\ mutex \in {"none", "hid"}
  /\ blocked \in BOOLEAN /\ cfg \in BOOLEAN
  /\ request \in {"read", "write", "nodata"}
  /\ events \in Seq(Events) /\ Len(events) <= QueueSz
  /\ armed \subseteq Endpoints /\ stalling \subseteq Endpoints
  /\ open \in BOOLEAN
  /\ jdr1 \in AdcVals \cup {0} /\ jdr2 \in AdcVals \cup {0}
  /\ rank \in {1, 2} /\ converting \in BOOLEAN
  /\ bus \in {"off", "reset", "idle", "data_in", "status_out", "data_out", "status_in"}
  /\ asked \in Requests \cup {"none"}
  /\ known \in BOOLEAN /\ mounted \in BOOLEAN
  /\ burst \in 0..Burst /\ wakes \in 0..ResetWakes
  /\ disturb \in 0..MaxDisturb

(* The host has not reset, unconfigured or halted the device since it      *)
(* first read a descriptor.                                                *)
Undisturbed == disturb = 0

(* usb_hid_task is between its claim of the endpoint and its transfer. *)
Preparing(e) ==
  claiming = e /\ hpc \in {"unlock", "copy", "submit", "test", "busy_load", "busy_store"}

(* "If caller does not make any transfer, it must release endpoint for     *)
(* others": a claimed endpoint has a transfer, or a caller that is about   *)
(* to make one.                                                            *)
ClaimsReleased == st[HidIn].claimed => st[HidIn].busy \/ Preparing(HidIn)

(* Two tasks report on one endpoint.  As long as the host leaves the       *)
(* configuration alone, usb_hid_task schedules a transfer on the open      *)
(* endpoint only, when none is scheduled, and of the report it copied:     *)
(* the echo of the device task neither overwrites it nor overtakes it.     *)
ClaimProtects ==
  Undisturbed /\ hpc = "arm" /\ target = HidIn =>
    /\ open
    /\ HidIn \notin armed
    /\ buf.by # "echo"

(* The deltas of a report on its way to the host come from converted       *)
(* samples of both axes, never from a data register's reset value.         *)
ReportsMeasured ==
  HidIn \in armed /\ wire.by = "mouse" =>
    wire.x \in {get_delta_by_adc_val(v) : v \in AdcVals}
    /\ wire.y \in {get_delta_by_adc_val(v) : v \in AdcVals}

(* The queue never fills up: no event is lost. *)
QueueSuffices == Len(events) < QueueSz

(* Every control transfer ends, although usb_hid_task transfers on ep0 out *)
(* while the device is not configured, and through resets and halts.       *)
ControlCompletes ==
  bus \in {"reset", "data_in", "status_out", "data_out", "status_in"} ~> bus = "idle"

(* In a device that stays configured the mouse reports never stop coming,  *)
(* once the host sends no more reports of its own.                         *)
ReportsFlow ==
  <>[](mounted /\ Undisturbed /\ asked # "set_report") =>
    /\ []<>(HidIn \in armed /\ wire.by \in {"mouse", "id"})
    /\ []<>(HidIn \notin armed)
=============================================================================

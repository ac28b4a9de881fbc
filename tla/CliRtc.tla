------------------------------- MODULE CliRtc -------------------------------
(***************************************************************************)
(* The real-time clock across resets, from rtc_init in Src/main.c to the   *)
(* commands of Src/cli.c, with the parts of the LL driver they call.  The  *)
(* RTC counts on its own between any two steps, and the board may be reset *)
(* or lose its battery at any moment.                                      *)
(*                                                                         *)
(* A command line is the words its matchers compare: [cmd, verb, arg].     *)
(* The argument of a set is three two-character fields and the two         *)
(* characters between them.                                                *)
(***************************************************************************)
EXTENDS RtcFormat, Sequences

CONSTANTS
  Lines,      \* the lines typed at the prompt
  MaxTicks,   \* bound on the seconds that pass
  MaxResets   \* bound on resets and losses of power

ASSUME RtcAssumption == MaxTicks \in Nat /\ MaxResets \in Nat

VARIABLES
  bpc,        \* the next step of main's RTC initialisation, "up" after it
  cpc,        \* where cli_task is in a set command, "idle" at the prompt
  line,       \* the line being executed
  word,       \* the register word a set command is about to write
  out,        \* what the last command printed
  led,        \* LED1 (pin 13) is on
  lseon,      \* RCC BDCR.LSEON: the 32 kHz oscillator runs
  rtcsel,     \* RCC BDCR.RTCSEL is LSE
  rtcen,      \* RCC BDCR.RTCEN
  wp,         \* the RTC registers are write protected
  init,       \* RTC ISR.INIT: initialisation mode was requested
  tr,         \* the RTC's time
  dr,         \* the RTC's date
  locked,     \* a read of TR locked the shadow of DR
  shadow,     \* the locked shadow of DR
  ticksLeft,
  resetsLeft

cpu == <<bpc, cpc, line, word, out, led>>
backup == <<lseon, rtcsel, rtcen, wp, init, tr, dr>>
shadows == <<locked, shadow>>
bounds == <<ticksLeft, resetsLeft>>
vars == <<cpu, backup, shadows, bounds>>

NoLine == [cmd |-> "none", verb |-> "none", arg |-> <<>>]
Nothing == [kind |-> "none", value |-> <<>>]
SyntaxError == [kind |-> "syntax error", value |-> <<>>]

(* Reset values of the backup domain: 00:00:00 and 2000-01-01, a Monday. *)
TrReset == 0
DrReset == HwDateWord(<<0, 1, 1>>, 1)

Init ==
  /\ bpc = "reset" /\ cpc = "idle"
  /\ line = NoLine /\ word = 0 /\ out = Nothing /\ led = FALSE
  /\ lseon = FALSE /\ rtcsel = FALSE /\ rtcen = FALSE /\ wp = TRUE /\ init = FALSE
  /\ tr = TrReset /\ dr = DrReset
  /\ locked = FALSE /\ shadow = 0
  /\ ticksLeft = MaxTicks /\ resetsLeft = MaxResets

(* The RTC is clocked. *)
Clocked == lseon /\ rtcsel /\ rtcen

-----------------------------------------------------------------------------
(* main: SystemClock_Config and rtc_init *)

Boot(from, to) ==
  /\ bpc = from
  /\ bpc' = to
  /\ UNCHANGED <<cpc, line, word, out, led, shadows, bounds>>

(* LL_RCC_LSE_Enable and the wait for the oscillator *)
LseEnable ==
  /\ Boot("reset", "check")
  /\ lseon' = TRUE
  /\ UNCHANGED <<rtcsel, rtcen, wp, init, tr, dr>>

(* Mutant: the backup domain is reset on every start. *)
CheckSourceIgnored ==
  /\ Boot("check", "bdreset")
  /\ UNCHANGED backup

CheckSource ==
  /\ Boot("check", IF rtcsel THEN "enable" ELSE "bdreset")
  /\ UNCHANGED backup

(* LL_RCC_ForceBackupDomainReset and LL_RCC_ReleaseBackupDomainReset *)
BackupReset ==
  /\ Boot("bdreset", "select")
  /\ lseon' = FALSE /\ rtcsel' = FALSE /\ rtcen' = FALSE
  /\ wp' = TRUE /\ init' = FALSE
  /\ tr' = TrReset /\ dr' = DrReset

SelectSource ==
  /\ Boot("select", "enable")
  /\ rtcsel' = TRUE
  /\ UNCHANGED <<lseon, rtcen, wp, init, tr, dr>>

EnableRtc ==
  /\ Boot("enable", "init")
  /\ rtcen' = TRUE
  /\ UNCHANGED <<lseon, rtcsel, wp, init, tr, dr>>

(* Mutant: initialisation mode is not left. *)
RtcInitStays ==
  /\ Boot("init", "unprotect")
  /\ wp' = TRUE
  /\ init' = TRUE
  /\ UNCHANGED <<lseon, rtcsel, rtcen, tr, dr>>

(* LL_RTC_Init: unprotects the registers, enters initialisation mode, sets *)
(* the prescalers, leaves it and protects them again.  When the mode is     *)
(* not entered in time the rest is skipped and INIT stays set.              *)
RtcInit ==
  /\ Boot("init", "unprotect")
  /\ wp' = TRUE
  /\ init' = ~Clocked
  /\ UNCHANGED <<lseon, rtcsel, rtcen, tr, dr>>

(* LL_RTC_DisableWriteProtection *)
Unprotect ==
  /\ Boot("unprotect", "up")
  /\ wp' = FALSE
  /\ UNCHANGED <<lseon, rtcsel, rtcen, init, tr, dr>>

-----------------------------------------------------------------------------
(* cli_task: the line that fgets returned is given to parse_string *)

Execute(l, next) ==
  /\ bpc = "up" /\ cpc = "idle"
  /\ line' = l
  /\ cpc' = next
  /\ UNCHANGED <<bpc, backup, bounds>>

IsPin(l) == l.cmd = "pin" /\ l.verb = "set" /\ l.arg \in {<<0>>, <<1>>}

PinSet(l) ==
  /\ IsPin(l)
  /\ Execute(l, "idle")
  /\ led' = (l.arg = <<1>>)
  /\ out' = Nothing
  /\ UNCHANGED <<word, shadows>>

(* set_time_from_str and set_date_from_str: the three numbers and the      *)
(* colons between them                                                     *)
Nums(l) == <<GetNum(l.arg[1]), GetNum(l.arg[3]), GetNum(l.arg[5])>>

Colons(l) == l.arg[2] = ":" /\ l.arg[4] = ":"

(* Mutant: minutes are not limited. *)
IsTimeSetLoose(l) ==
  /\ l.cmd = "time" /\ l.verb = "set"
  /\ Colons(l)
  /\ Nums(l)[1] \in 0..23 /\ Nums(l)[2] >= 0 /\ Nums(l)[3] \in 0..59

IsTimeSet(l) ==
  /\ l.cmd = "time" /\ l.verb = "set"
  /\ Colons(l)
  /\ Nums(l)[1] \in 0..23 /\ Nums(l)[2] \in 0..59 /\ Nums(l)[3] \in 0..59

IsDateSet(l) ==
  /\ l.cmd = "date" /\ l.verb = "set"
  /\ Colons(l)
  /\ Nums(l)[1] >= 0 /\ Nums(l)[2] \in 1..12 /\ Nums(l)[3] \in 1..31

(* The message of success is printed before the register is written. *)
TimeSet(l) ==
  /\ IsTimeSet(l)
  /\ Execute(l, "time_enter")
  /\ word' = TimeWord(Nums(l)[1], Nums(l)[2], Nums(l)[3])
  /\ out' = [kind |-> "time set", value |-> Nums(l)]
  /\ UNCHANGED <<led, shadows>>

DateSet(l) ==
  /\ IsDateSet(l)
  /\ Execute(l, "date_enter")
  /\ word' = DateWord(Nums(l)[1], Nums(l)[2], Nums(l)[3])
  /\ out' = Nothing
  /\ UNCHANGED <<led, shadows>>

IsGet(l) == l.cmd \in {"time", "date"} /\ l.verb = "get"

(* The read of TR locks the shadow of DR. *)
TimeShow(l) ==
  /\ IsGet(l) /\ l.cmd = "time"
  /\ Execute(l, "idle")
  /\ out' = [kind |-> "time", value |-> TimeGet(tr)]
  /\ locked' = TRUE
  /\ shadow' = IF locked THEN shadow ELSE dr
  /\ UNCHANGED <<word, led>>

(* The read of DR returns its shadow and releases it. *)
DateShow(l) ==
  /\ IsGet(l) /\ l.cmd = "date"
  /\ Execute(l, "idle")
  /\ out' = [kind |-> "date", value |-> DateGet(IF locked THEN shadow ELSE dr)]
  /\ locked' = FALSE
  /\ shadow' = 0
  /\ UNCHANGED <<word, led>>

(* No matcher accepts the line; match_i2c_cmd accepts none. *)
Reject(l) ==
  /\ ~IsPin(l) /\ ~IsGet(l) /\ ~IsTimeSet(l) /\ ~IsDateSet(l)
  /\ Execute(l, "idle")
  /\ out' = SyntaxError
  /\ UNCHANGED <<word, led, shadows>>

(* Mutant: the result of LL_RTC_EnterInitMode is not looked at. *)
EnterInitModeUnchecked(from, to) ==
  /\ cpc = from
  /\ init' = (init \/ ~wp)
  /\ cpc' = to
  /\ locked' = FALSE /\ shadow' = 0
  /\ UNCHANGED <<bpc, line, word, out, led, lseon, rtcsel, rtcen, wp, tr, dr, bounds>>

(* LL_RTC_EnterInitMode succeeds when the RTC is clocked; when it times out *)
(* the command returns 0 and the CLI reports a syntax error.  Entering the  *)
(* mode makes the shadow registers follow again.                            *)
EnterInitMode(from, to) ==
  /\ cpc = from
  /\ init' = (init \/ ~wp)
  /\ IF Clocked /\ init'
       THEN cpc' = to /\ UNCHANGED out
       ELSE cpc' = "idle" /\ out' = SyntaxError
  /\ locked' = FALSE /\ shadow' = 0
  /\ UNCHANGED <<bpc, line, word, led, lseon, rtcsel, rtcen, wp, tr, dr, bounds>>

WriteTime ==
  /\ cpc = "time_write"
  /\ cpc' = "time_exit"
  /\ tr' = word
  /\ UNCHANGED <<bpc, line, word, out, led, lseon, rtcsel, rtcen, wp, init, dr, shadows, bounds>>

WriteDate ==
  /\ cpc = "date_write"
  /\ cpc' = "date_exit"
  /\ dr' = word
  /\ UNCHANGED <<bpc, line, word, out, led, lseon, rtcsel, rtcen, wp, init, tr, shadows, bounds>>

(* LL_RTC_ExitInitMode; the date command then reports success. *)
ExitInitMode ==
  /\ cpc \in {"time_exit", "date_exit"}
  /\ cpc' = "idle"
  /\ init' = FALSE
  /\ out' = IF cpc = "time_exit" THEN out ELSE [kind |-> "date set", value |-> Nums(line)]
  /\ UNCHANGED <<bpc, line, word, led, lseon, rtcsel, rtcen, wp, tr, dr, shadows, bounds>>

-----------------------------------------------------------------------------
(* The RTC and the board *)

(* A second passes; initialisation mode stops the calendar. *)
Tick ==
  /\ Clocked /\ ~init
  /\ ticksLeft > 0
  /\ ticksLeft' = ticksLeft - 1
  /\ tr' = HwTimeWord(NextTime(HwTime(tr)))
  /\ dr' = IF tr' = 0 THEN HwDateWord(NextDate(HwDate(dr)), (Weekday(dr) % 7) + 1) ELSE dr
  /\ UNCHANGED <<cpu, lseon, rtcsel, rtcen, wp, init, shadows, resetsLeft>>

(* A reset leaves the backup domain alone. *)
Restart ==
  /\ resetsLeft > 0
  /\ resetsLeft' = resetsLeft - 1
  /\ bpc' = "reset" /\ cpc' = "idle"
  /\ line' = NoLine /\ word' = 0 /\ out' = Nothing /\ led' = FALSE
  /\ locked' = FALSE /\ shadow' = 0
  /\ UNCHANGED ticksLeft

Reset == Restart /\ UNCHANGED backup

PowerLoss ==
  /\ Restart
  /\ lseon' = FALSE /\ rtcsel' = FALSE /\ rtcen' = FALSE
  /\ wp' = TRUE /\ init' = FALSE
  /\ tr' = TrReset /\ dr' = DrReset

BootStep ==
  LseEnable \/ CheckSource \/ BackupReset \/ SelectSource \/ EnableRtc \/ RtcInit \/ Unprotect

Submit(l) == PinSet(l) \/ TimeSet(l) \/ DateSet(l) \/ TimeShow(l) \/ DateShow(l) \/ Reject(l)

CliStep ==
  \/ EnterInitMode("time_enter", "time_write") \/ WriteTime
  \/ EnterInitMode("date_enter", "date_write") \/ WriteDate
  \/ ExitInitMode

Next ==
  \/ BootStep
  \/ \E l \in Lines : Submit(l)
  \/ CliStep
  \/ Tick
  \/ Reset
  \/ PowerLoss

Spec == Init /\ [][Next]_vars

-----------------------------------------------------------------------------
(* Number of words of TR and DR: 22 and 24 bits of them are used. *)
TrSize == 4194304
DrSize == 16777216

(* The registers, the places in start-up and command, and what a command   *)
(* has computed keep their types; words fit their registers.               *)
TypeOK ==
  /\ bpc \in {"reset", "check", "bdreset", "select", "enable", "init", "unprotect", "up"}
  /\ cpc \in {"idle", "time_enter", "time_write", "time_exit",
              "date_enter", "date_write", "date_exit"}
  /\ line \in Lines \cup {NoLine}
  /\ {led, lseon, rtcsel, rtcen, wp, init, locked} \subseteq BOOLEAN
  /\ tr \in 0..TrSize - 1
  /\ {word, dr, shadow} \subseteq 0..DrSize - 1
  /\ ticksLeft \in 0..MaxTicks
  /\ resetsLeft \in 0..MaxResets

(* Whatever was typed, and however the clock has run since, TR holds a time *)
(* of day and DR a date with decimal digits in every field.                 *)
CalendarValid ==
  /\ HwTime(tr) \in (0..23) \X (0..59) \X (0..59)
  /\ HwTimeWord(HwTime(tr)) = tr
  /\ HwDate(dr) \in (0..99) \X (1..12) \X (1..31)
  /\ HwDateWord(HwDate(dr), Weekday(dr)) = dr

(* A command that was cut short by a reset does not leave the calendar      *)
(* stopped: at the prompt, a clocked RTC is out of initialisation mode.     *)
CalendarRuns == bpc = "up" /\ cpc = "idle" /\ Clocked => ~init

(* After a reset with the battery in place, starting up does not touch the *)
(* time and the date.                                                      *)
CalendarKept ==
  [][bpc # "up" /\ bpc' # "reset" /\ rtcsel /\ UNCHANGED ticksLeft
       => UNCHANGED <<tr, dr>>]_vars

(* The registers receive the digits that were typed, through the           *)
(* conversion to BCD, the shifts and the masks.                            *)
SetAsTyped ==
  [][/\ cpc = "time_write" /\ cpc' = "time_exit" => HwTime(tr') = Nums(line)
     /\ cpc = "date_write" /\ cpc' = "date_exit" => HwDate(dr') = Nums(line)]_vars

(* "time get" prints the time in TR. *)
TimeAsStored ==
  [][out' # out /\ out'.kind = "time" => out'.value = HwTime(tr)]_vars

(* "date get" prints the date in DR. *)
DateAsStored ==
  [][out' # out /\ out'.kind = "date" => out'.value = HwDate(dr)]_vars

(* The first start, and one after a loss of the battery, resets the backup  *)
(* domain after LSE was turned on in it and comes up with an RTC that has   *)
(* no clock.  No command then starts it or moves the calendar, whatever     *)
(* state a timed-out command left behind: it takes another reset.           *)
StoppedClockStays ==
  [][bpc = "up" /\ bpc' = "up" /\ ~Clocked => UNCHANGED <<tr, dr>> /\ ~Clocked']_vars
==============================================================================

------------------------------ MODULE RtcFormat ------------------------------
(***************************************************************************)
(* The conversions between the digits of a command, binary numbers and the *)
(* words of the RTC registers TR and DR (Src/cli.c and the helper macros   *)
(* of stm32f4xx_ll_rtc.h).  A mask and a shift are a remainder and a       *)
(* quotient by a power of two; an "or" of disjoint bits is a sum.          *)
(***************************************************************************)
EXTENDS Integers

(* get_num_from_str: a two-digit number, or -1; a character that is not a  *)
(* digit is NonDigit.                                                      *)
NonDigit == 10

GetNum(c) == IF c[1] \in 0..9 /\ c[2] \in 0..9 THEN 10 * c[1] + c[2] ELSE -1

(* Mutant: the tens are shifted one bit too few. *)
BIN2BCDShort(v) == ((v \div 10) * 8 + (v % 10)) % 256

(* __LL_RTC_CONVERT_BIN2BCD and __LL_RTC_CONVERT_BCD2BIN, on uint8_t *)
BIN2BCD(v) == ((v \div 10) * 16 + (v % 10)) % 256

(* Mutant: the result is read as hexadecimal. *)
BCD2BINHex(b) == b % 256

BCD2BIN(b) == (((b % 256) \div 16) * 10 + (b % 16)) % 256

(* Mutant: the hours are shifted one bit too far. *)
TimeWordWide(h, m, s) ==
  (BIN2BCD(h) % 64) * 131072 + (BIN2BCD(m) % 128) * 256 + (BIN2BCD(s) % 128)

(* The word set_time_from_str writes to TR: 0x00HHMMSS under the masks of  *)
(* its three fields.                                                       *)
TimeWord(h, m, s) ==
  (BIN2BCD(h) % 64) * 65536 + (BIN2BCD(m) % 128) * 256 + (BIN2BCD(s) % 128)

(* The word set_date_from_str writes to DR: year, month + 0x20 and day     *)
(* under their masks.                                                      *)
DateWord(y, m, d) ==
  (BIN2BCD(y) % 256) * 65536 + ((BIN2BCD(m) + 32) % 32) * 256 + (BIN2BCD(d) % 64)

(* LL_RTC_TIME_Get and the three helper macros of the "time get" command *)
TimeGet(tr) ==
  <<BCD2BIN((tr \div 65536) % 64), BCD2BIN((tr \div 256) % 128), BCD2BIN(tr % 128)>>

(* LL_RTC_DATE_Get and the three helper macros of the "date get" command *)
DateGet(dr) ==
  <<BCD2BIN((dr \div 65536) % 256), BCD2BIN((dr \div 256) % 32), BCD2BIN(dr % 64)>>

-----------------------------------------------------------------------------
(* The digits the RTC holds in the fields of its registers. *)

Field(word, shift, width) == (word \div shift) % width

HwTime(tr) ==
  <<10 * Field(tr, 1048576, 4) + Field(tr, 65536, 16),
    10 * Field(tr, 4096, 8) + Field(tr, 256, 16),
    10 * Field(tr, 16, 8) + Field(tr, 1, 16)>>

HwDate(dr) ==
  <<10 * Field(dr, 1048576, 16) + Field(dr, 65536, 16),
    10 * Field(dr, 4096, 2) + Field(dr, 256, 16),
    10 * Field(dr, 16, 4) + Field(dr, 1, 16)>>

Weekday(dr) == Field(dr, 8192, 8)

(* The words for a time of day, and for a date with a day of the week. *)
HwTimeWord(t) ==
  (t[1] \div 10) * 1048576 + (t[1] % 10) * 65536
    + (t[2] \div 10) * 4096 + (t[2] % 10) * 256
    + (t[3] \div 10) * 16 + (t[3] % 10)

HwDateWord(d, wd) ==
  (d[1] \div 10) * 1048576 + (d[1] % 10) * 65536
    + wd * 8192 + (d[2] \div 10) * 4096 + (d[2] % 10) * 256
    + (d[3] \div 10) * 16 + (d[3] % 10)

DaysIn(y, m) ==
  IF m = 2 THEN (IF y % 4 = 0 THEN 29 ELSE 28)
  ELSE IF m \in {4, 6, 9, 11} THEN 30 ELSE 31

(* One second later, and one day later. *)
NextTime(t) ==
  IF t[3] < 59 THEN <<t[1], t[2], t[3] + 1>>
  ELSE IF t[2] < 59 THEN <<t[1], t[2] + 1, 0>>
  ELSE <<(t[1] + 1) % 24, 0, 0>>

NextDate(d) ==
  IF d[3] < DaysIn(d[1], d[2]) THEN <<d[1], d[2], d[3] + 1>>
  ELSE IF d[2] < 12 THEN <<d[1], d[2] + 1, 1>>
  ELSE <<(d[1] + 1) % 100, 1, 1>>
==============================================================================

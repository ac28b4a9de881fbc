---------------------------- MODULE CliRtcProofs ----------------------------
(* The calendar under every line that can be typed, and any number of       *)
(* seconds, resets and losses of power.                                     *)
EXTENDS CliRtc, TLAPS

-----------------------------------------------------------------------------
(* The conversions of the clock commands *)

(* A two-digit number in BCD is its tens and its units in a nibble each. *)
LEMMA BcdDigits ==
  ASSUME NEW v \in 0..99
  PROVE  /\ v \div 10 \in 0..9
         /\ v % 10 \in 0..9
         /\ v = 10 * (v \div 10) + (v % 10)
         /\ BIN2BCD(v) = 16 * (v \div 10) + (v % 10)
  BY DEF BIN2BCD

(* Converting to BCD and back is the identity on two-digit numbers. *)
LEMMA BcdRoundTrip ==
  \A v \in 0..99 : BIN2BCD(v) \in 0..153 /\ BCD2BIN(BIN2BCD(v)) = v
<1> SUFFICES ASSUME NEW v \in 0..99
             PROVE  BIN2BCD(v) \in 0..153 /\ BCD2BIN(BIN2BCD(v)) = v
  BY Zenon
<1> DEFINE t == v \div 10
           u == v % 10
<1>1. t \in 0..9 /\ u \in 0..9 /\ v = 10 * t + u /\ BIN2BCD(v) = 16 * t + u
  BY BcdDigits
<1> DEFINE x == BIN2BCD(v)
<1> HIDE DEF t, u, x
<1>2. x = 16 * t + u
  BY <1>1 DEF x
<1>3. x \in 0..153 /\ x % 256 = x /\ x \div 16 = t /\ x % 16 = u
  BY <1>1, <1>2
<1>4. (t * 10 + u) % 256 = v
  BY <1>1
<1>5. BCD2BIN(x) = v
  BY <1>3, <1>4 DEF BCD2BIN
<1> QED
  BY <1>3, <1>5, Zenon DEF x

(* "time get" after "time set", with no second in between, prints the time *)
(* that was set, for every time of day.                                    *)
THEOREM TimeRoundTrip ==
  ASSUME NEW h \in 0..23, NEW m \in 0..59, NEW s \in 0..59
  PROVE  TimeGet(TimeWord(h, m, s)) = <<h, m, s>>
<1> DEFINE a == BIN2BCD(h)
           b == BIN2BCD(m)
           c == BIN2BCD(s)
<1>1. a \in 0..63 /\ b \in 0..127 /\ c \in 0..127
  <2>1. a \in 0..63
    BY DEF BIN2BCD
  <2>2. b \in 0..127
    BY DEF BIN2BCD
  <2>3. c \in 0..127
    BY DEF BIN2BCD
  <2> QED
    BY <2>1, <2>2, <2>3
<1>2. BCD2BIN(a) = h /\ BCD2BIN(b) = m /\ BCD2BIN(c) = s
  <2> h \in 0..99 /\ m \in 0..99 /\ s \in 0..99
    OBVIOUS
  <2> QED
    BY BcdRoundTrip, Zenon
<1>3. TimeWord(h, m, s) = a * 65536 + b * 256 + c
  BY <1>1 DEF TimeWord
<1> DEFINE w == a * 65536 + b * 256 + c
<1> HIDE DEF a, b, c
<1>4. (w \div 65536) % 64 = a /\ (w \div 256) % 128 = b /\ w % 128 = c
  <2>1. w \div 65536 = a /\ a % 64 = a
    BY <1>1
  <2>2. w \div 256 = a * 256 + b
    BY <1>1
  <2>3. (a * 256 + b) % 128 = b
    BY <1>1
  <2>4. w % 128 = c
    BY <1>1
  <2> QED
    BY <2>1, <2>2, <2>3, <2>4
<1> QED
  BY <1>2, <1>3, <1>4 DEF TimeGet

(* The same for every date the command accepts. *)
THEOREM DateRoundTrip ==
  ASSUME NEW y \in 0..99, NEW m \in 1..12, NEW d \in 1..31
  PROVE  DateGet(DateWord(y, m, d)) = <<y, m, d>>
<1> DEFINE a == BIN2BCD(y)
           b == BIN2BCD(m)
           c == BIN2BCD(d)
<1>1. a \in 0..153 /\ b \in 0..31 /\ c \in 0..63
  <2>1. a \in 0..153
    BY DEF BIN2BCD
  <2>2. b \in 0..31
    BY DEF BIN2BCD
  <2>3. c \in 0..63
    BY DEF BIN2BCD
  <2> QED
    BY <2>1, <2>2, <2>3
<1>2. BCD2BIN(a) = y /\ BCD2BIN(b) = m /\ BCD2BIN(c) = d
  <2> y \in 0..99 /\ m \in 0..99 /\ d \in 0..99
    OBVIOUS
  <2> QED
    BY BcdRoundTrip, Zenon
<1>3. DateWord(y, m, d) = a * 65536 + b * 256 + c
  BY <1>1 DEF DateWord
<1> DEFINE w == a * 65536 + b * 256 + c
<1> HIDE DEF a, b, c
<1>4. (w \div 65536) % 256 = a /\ (w \div 256) % 32 = b /\ w % 64 = c
  <2>1. w \div 65536 = a /\ a % 256 = a
    BY <1>1
  <2>2. w \div 256 = a * 256 + b
    BY <1>1
  <2>3. (a * 256 + b) % 32 = b
    BY <1>1
  <2>4. w % 64 = c
    BY <1>1
  <2> QED
    BY <2>1, <2>2, <2>3, <2>4
<1> QED
  BY <1>2, <1>3, <1>4 DEF DateGet

(* The digits that reach the fields of TR are those of the time that was   *)
(* typed: the masks remove nothing and the fields do not overlap.          *)
THEOREM TimeDigits ==
  ASSUME NEW h \in 0..23, NEW m \in 0..59, NEW s \in 0..59
  PROVE  HwTime(TimeWord(h, m, s)) = <<h, m, s>>
<1> DEFINE ht == h \div 10   hu == h % 10
           mt == m \div 10   mu == m % 10
           st == s \div 10   su == s % 10
           w  == ht * 1048576 + hu * 65536 + mt * 4096 + mu * 256 + st * 16 + su
<1>1. /\ ht \in 0..2 /\ hu \in 0..9 /\ h = 10 * ht + hu /\ BIN2BCD(h) = 16 * ht + hu
      /\ mt \in 0..5 /\ mu \in 0..9 /\ m = 10 * mt + mu /\ BIN2BCD(m) = 16 * mt + mu
      /\ st \in 0..5 /\ su \in 0..9 /\ s = 10 * st + su /\ BIN2BCD(s) = 16 * st + su
  <2>1. h \in 0..99 /\ m \in 0..99 /\ s \in 0..99
    OBVIOUS
  <2>2. ht \in 0..2 /\ mt \in 0..5 /\ st \in 0..5
    OBVIOUS
  <2> QED
    BY <2>1, <2>2, BcdDigits
<1> HIDE DEF ht, hu, mt, mu, st, su
<1>2. /\ (16 * ht + hu) % 64 = 16 * ht + hu
      /\ (16 * mt + mu) % 128 = 16 * mt + mu
      /\ (16 * st + su) % 128 = 16 * st + su
  BY <1>1
<1>3. TimeWord(h, m, s) = w
  BY <1>1, <1>2 DEF TimeWord
<1>4. Field(w, 1048576, 4) = ht /\ Field(w, 65536, 16) = hu
  BY SMTT(30), <1>1 DEF Field
<1>5. Field(w, 4096, 8) = mt /\ Field(w, 256, 16) = mu
  <2>1. w \div 4096 = ht * 256 + hu * 16 + mt
    BY <1>1
  <2>2. w \div 256 = ht * 4096 + hu * 256 + mt * 16 + mu
    BY <1>1
  <2> QED
    BY <1>1, <2>1, <2>2 DEF Field
<1>6. Field(w, 16, 8) = st /\ Field(w, 1, 16) = su
  <2>1. w \div 16 = ht * 65536 + hu * 4096 + mt * 256 + mu * 16 + st
    BY <1>1
  <2>2. w \div 1 = w
    BY <1>1
  <2> QED
    BY <1>1, <2>1, <2>2 DEF Field
<1> HIDE DEF w
<1>7. HwTime(w) = <<10 * ht + hu, 10 * mt + mu, 10 * st + su>>
  BY <1>4, <1>5, <1>6 DEF HwTime
<1> QED
  BY <1>1, <1>3, <1>7

(* The date command never writes a day of the week: the mask of the month  *)
(* removes the bit that was added for Monday.                              *)
THEOREM NoWeekday ==
  ASSUME NEW y \in 0..99, NEW m \in 1..12, NEW d \in 1..31
  PROVE  Weekday(DateWord(y, m, d)) = 0
<1> DEFINE a == BIN2BCD(y)
           b == BIN2BCD(m)
           c == BIN2BCD(d)
<1>1. a \in 0..153 /\ b \in 0..31 /\ c \in 0..63
  <2>1. a \in 0..153
    BY DEF BIN2BCD
  <2>2. b \in 0..31
    BY DEF BIN2BCD
  <2>3. c \in 0..63
    BY DEF BIN2BCD
  <2> QED
    BY <2>1, <2>2, <2>3
<1>2. DateWord(y, m, d) = a * 65536 + b * 256 + c
  BY <1>1 DEF DateWord
<1> HIDE DEF a, b, c
<1> QED
  BY <1>1, <1>2 DEF Weekday, Field

-----------------------------------------------------------------------------
(* A word whose fields hold the digits of a time of day, or of a date. *)
TimeOf(w) == \E h \in 0..23, m \in 0..59, s \in 0..59 : w = HwTimeWord(<<h, m, s>>)
DateOf(w) ==
  \E y \in 0..99, m \in 1..12, d \in 1..31, wd \in 0..7 : w = HwDateWord(<<y, m, d>>, wd)

-----------------------------------------------------------------------------
(* The words of the registers *)

(* The fields of the word for a time of day hold its digits. *)
LEMMA TimeFields ==
  ASSUME NEW h \in 0..23, NEW m \in 0..59, NEW s \in 0..59
  PROVE  /\ TimeWord(h, m, s) = HwTimeWord(<<h, m, s>>)
         /\ HwTime(HwTimeWord(<<h, m, s>>)) = <<h, m, s>>
         /\ TimeGet(HwTimeWord(<<h, m, s>>)) = <<h, m, s>>
<1> DEFINE ht == h \div 10   hu == h % 10
           mt == m \div 10   mu == m % 10
           st == s \div 10   su == s % 10
<1>1. /\ ht \in 0..2 /\ hu \in 0..9 /\ BIN2BCD(h) = 16 * ht + hu
      /\ mt \in 0..5 /\ mu \in 0..9 /\ BIN2BCD(m) = 16 * mt + mu
      /\ st \in 0..5 /\ su \in 0..9 /\ BIN2BCD(s) = 16 * st + su
  <2>1. h \in 0..99 /\ m \in 0..99 /\ s \in 0..99
    OBVIOUS
  <2>2. ht \in 0..2 /\ mt \in 0..5 /\ st \in 0..5
    OBVIOUS
  <2> QED
    BY <2>1, <2>2, BcdDigits
<1>2. HwTimeWord(<<h, m, s>>)
        = ht * 1048576 + hu * 65536 + mt * 4096 + mu * 256 + st * 16 + su
  BY DEF HwTimeWord
<1> HIDE DEF ht, hu, mt, mu, st, su
<1>3. /\ (16 * ht + hu) % 64 = 16 * ht + hu
      /\ (16 * mt + mu) % 128 = 16 * mt + mu
      /\ (16 * st + su) % 128 = 16 * st + su
  BY <1>1
<1>4. TimeWord(h, m, s) = HwTimeWord(<<h, m, s>>)
  BY <1>1, <1>2, <1>3 DEF TimeWord
<1> QED
  BY <1>4, TimeDigits, TimeRoundTrip, ZenonT(40)

(* The same for a date and a day of the week. *)
LEMMA DateFields ==
  ASSUME NEW y \in 0..99, NEW m \in 1..12, NEW d \in 1..31, NEW wd \in 0..7
  PROVE  /\ HwDate(HwDateWord(<<y, m, d>>, wd)) = <<y, m, d>>
         /\ Weekday(HwDateWord(<<y, m, d>>, wd)) = wd
<1> DEFINE yt == y \div 10   yu == y % 10
           mt == m \div 10   mu == m % 10
           dt == d \div 10   du == d % 10
           w  == yt * 1048576 + yu * 65536 + wd * 8192 + mt * 4096 + mu * 256 + dt * 16 + du
<1>1. /\ yt \in 0..9 /\ yu \in 0..9 /\ y = 10 * yt + yu
      /\ mt \in 0..1 /\ mu \in 0..9 /\ m = 10 * mt + mu
      /\ dt \in 0..3 /\ du \in 0..9 /\ d = 10 * dt + du
  OBVIOUS
<1>2. HwDateWord(<<y, m, d>>, wd) = w
  BY DEF HwDateWord
<1> HIDE DEF yt, yu, mt, mu, dt, du
<1>3. Field(w, 1048576, 16) = yt /\ Field(w, 65536, 16) = yu
  <2>1. w \div 1048576 = yt
    BY <1>1
  <2>2. w \div 65536 = yt * 16 + yu
    BY <1>1
  <2> QED
    BY <1>1, <2>1, <2>2 DEF Field
<1>4. Field(w, 8192, 8) = wd /\ Field(w, 4096, 2) = mt /\ Field(w, 256, 16) = mu
  <2>1. w \div 8192 = yt * 128 + yu * 8 + wd
    BY <1>1
  <2>2. w \div 4096 = yt * 256 + yu * 16 + wd * 2 + mt
    BY <1>1
  <2>3. w \div 256 = yt * 4096 + yu * 256 + wd * 32 + mt * 16 + mu
    BY <1>1
  <2> QED
    BY <1>1, <2>1, <2>2, <2>3 DEF Field
<1>5. Field(w, 16, 4) = dt /\ Field(w, 1, 16) = du
  <2>1. w \div 16 = yt * 65536 + yu * 4096 + wd * 512 + mt * 256 + mu * 16 + dt
    BY <1>1
  <2>2. w \div 1 = w
    BY <1>1
  <2> QED
    BY <1>1, <2>1, <2>2 DEF Field
<1> HIDE DEF w
<1>6. HwDate(w) = <<10 * yt + yu, 10 * mt + mu, 10 * dt + du>>
  BY <1>3, <1>4, <1>5 DEF HwDate
<1> QED
  BY <1>1, <1>2, <1>4, <1>6 DEF Weekday

(* The word of a date command is that of its date with no day of the week. *)
LEMMA DateCommandWord ==
  ASSUME NEW y \in 0..99, NEW m \in 1..12, NEW d \in 1..31
  PROVE  DateWord(y, m, d) = HwDateWord(<<y, m, d>>, 0)
<1> DEFINE yt == y \div 10   yu == y % 10
           mt == m \div 10   mu == m % 10
           dt == d \div 10   du == d % 10
<1>1. /\ yt \in 0..9 /\ yu \in 0..9 /\ BIN2BCD(y) = 16 * yt + yu
      /\ mt \in 0..1 /\ mu \in 0..9 /\ BIN2BCD(m) = 16 * mt + mu
      /\ dt \in 0..3 /\ du \in 0..9 /\ BIN2BCD(d) = 16 * dt + du
  <2>1. y \in 0..99 /\ m \in 0..99 /\ d \in 0..99
    OBVIOUS
  <2>2. yt \in 0..9 /\ mt \in 0..1 /\ dt \in 0..3
    OBVIOUS
  <2> QED
    BY <2>1, <2>2, BcdDigits
<1>2. HwDateWord(<<y, m, d>>, 0)
        = yt * 1048576 + yu * 65536 + 0 * 8192 + mt * 4096 + mu * 256 + dt * 16 + du
  BY DEF HwDateWord
<1> HIDE DEF yt, yu, mt, mu, dt, du
<1>3. /\ (16 * yt + yu) % 256 = 16 * yt + yu
      /\ (16 * mt + mu + 32) % 32 = 16 * mt + mu
      /\ (16 * dt + du) % 64 = 16 * dt + du
  BY <1>1
<1> QED
  BY <1>1, <1>2, <1>3 DEF DateWord

(* One second after a time of day is a time of day; one day after a date,   *)
(* also one past the end of its month, is a date.                           *)
LEMMA NextTimeOf ==
  ASSUME NEW w, TimeOf(w)
  PROVE  TimeOf(HwTimeWord(NextTime(HwTime(w))))
<1>1. PICK h \in 0..23, m \in 0..59, s \in 0..59 : w = HwTimeWord(<<h, m, s>>)
  BY Zenon DEF TimeOf
<1>2. HwTime(w) = <<h, m, s>>
  BY <1>1, TimeFields, Zenon
<1>3. \/ NextTime(<<h, m, s>>) = <<h, m, s + 1>> /\ s + 1 \in 0..59
      \/ NextTime(<<h, m, s>>) = <<h, m + 1, 0>> /\ m + 1 \in 0..59
      \/ NextTime(<<h, m, s>>) = <<(h + 1) % 24, 0, 0>> /\ (h + 1) % 24 \in 0..23
  BY DEF NextTime
<1>4. 0 \in 0..59
  OBVIOUS
<1>5. \E a \in 0..23, b \in 0..59, c \in 0..59 : NextTime(<<h, m, s>>) = <<a, b, c>>
  BY <1>3, <1>4, Zenon
<1> QED
  BY <1>2, <1>5, Zenon DEF TimeOf

LEMMA NextDateOf ==
  ASSUME NEW w, DateOf(w)
  PROVE  DateOf(HwDateWord(NextDate(HwDate(w)), (Weekday(w) % 7) + 1))
<1>1. PICK y \in 0..99, m \in 1..12, d \in 1..31, wd \in 0..7 :
             w = HwDateWord(<<y, m, d>>, wd)
  BY Zenon DEF DateOf
<1>2. HwDate(w) = <<y, m, d>> /\ Weekday(w) = wd
  BY <1>1, DateFields, Zenon
<1>3. (wd % 7) + 1 \in 0..7
  OBVIOUS
<1>4. DaysIn(y, m) \in 28..31
  BY DEF DaysIn
<1>5. \/ NextDate(<<y, m, d>>) = <<y, m, d + 1>> /\ d + 1 \in 1..31
      \/ NextDate(<<y, m, d>>) = <<y, m + 1, 1>> /\ m + 1 \in 1..12
      \/ NextDate(<<y, m, d>>) = <<(y + 1) % 100, 1, 1>> /\ (y + 1) % 100 \in 0..99
  BY <1>4 DEF NextDate
<1>6. 1 \in 1..12 /\ 1 \in 1..31
  OBVIOUS
<1>7. \E a \in 0..99, b \in 1..12, c \in 1..31 : NextDate(<<y, m, d>>) = <<a, b, c>>
  BY <1>5, <1>6, Zenon
<1> QED
  BY <1>2, <1>3, <1>7, Zenon DEF DateOf

(* What CalendarValid says of the registers follows. *)
LEMMA ValidWords ==
  ASSUME TimeOf(tr), DateOf(dr)
  PROVE  CalendarValid /\ TimeGet(tr) = HwTime(tr)
<1>1. PICK h \in 0..23, m \in 0..59, s \in 0..59 : tr = HwTimeWord(<<h, m, s>>)
  BY Zenon DEF TimeOf
<1>2. HwTime(tr) = <<h, m, s>> /\ TimeGet(tr) = <<h, m, s>>
  BY <1>1, TimeFields, Zenon
<1>3. PICK y \in 0..99, n \in 1..12, d \in 1..31, wd \in 0..7 :
             dr = HwDateWord(<<y, n, d>>, wd)
  BY Zenon DEF DateOf
<1>4. HwDate(dr) = <<y, n, d>> /\ Weekday(dr) = wd
  BY <1>3, DateFields, Zenon
<1>5. <<h, m, s>> \in (0..23) \X (0..59) \X (0..59)
  OBVIOUS
<1>6. <<y, n, d>> \in (0..99) \X (1..12) \X (1..31)
  OBVIOUS
<1> QED
  BY <1>1, <1>2, <1>3, <1>4, <1>5, <1>6, ZenonT(30) DEF CalendarValid

-----------------------------------------------------------------------------
(* What a set command has computed when it is about to write: the word of   *)
(* the numbers that were typed.                                             *)
Computed ==
  /\ cpc \in {"time_enter", "time_write"} =>
       /\ \E h \in 0..23, m \in 0..59, s \in 0..59 : Nums(line) = <<h, m, s>>
       /\ word = HwTimeWord(Nums(line))
  /\ cpc \in {"date_enter", "date_write"} =>
       /\ \E y \in 0..99, m \in 1..12, d \in 1..31 : Nums(line) = <<y, m, d>>
       /\ word = HwDateWord(Nums(line), 0)

(* The inductive invariant.  A command runs only after start-up; the backup *)
(* domain is reset only when LSE is not selected; and once LL_RTC_Init is   *)
(* done a clocked RTC is in initialisation mode only inside a set command.  *)
RtcInv ==
  /\ TimeOf(tr)
  /\ DateOf(dr)
  /\ Computed
  /\ bpc # "up" => cpc = "idle"
  /\ bpc = "bdreset" => ~rtcsel
  /\ bpc \in {"unprotect", "up"} /\ cpc \in {"idle", "time_enter", "date_enter"} /\ Clocked
       => ~init
  /\ cpc \in {"time_write", "time_exit", "date_write", "date_exit"} => Clocked

(* The numbers a line that is accepted as a set command holds. *)
LEMMA GetNumRange ==
  ASSUME NEW c
  PROVE  GetNum(c) \in -1..99
  BY DEF GetNum

LEMMA TimeTyped ==
  ASSUME NEW l, IsTimeSet(l)
  PROVE  /\ \E h \in 0..23, m \in 0..59, s \in 0..59 : Nums(l) = <<h, m, s>>
         /\ TimeWord(Nums(l)[1], Nums(l)[2], Nums(l)[3]) = HwTimeWord(Nums(l))
<1> DEFINE h == GetNum(l.arg[1])
           m == GetNum(l.arg[3])
           s == GetNum(l.arg[5])
<1>1. Nums(l) = <<h, m, s>>
  BY DEF Nums
<1> HIDE DEF h, m, s
<1>2. h \in 0..23 /\ m \in 0..59 /\ s \in 0..59
  BY <1>1 DEF IsTimeSet
<1>3. TimeWord(h, m, s) = HwTimeWord(<<h, m, s>>)
  BY <1>2, TimeFields, Zenon
<1>4. Nums(l)[1] = h /\ Nums(l)[2] = m /\ Nums(l)[3] = s
  BY <1>1
<1> QED
  BY <1>1, <1>2, <1>3, <1>4, Zenon

LEMMA DateTyped ==
  ASSUME NEW l, IsDateSet(l)
  PROVE  /\ \E y \in 0..99, m \in 1..12, d \in 1..31 : Nums(l) = <<y, m, d>>
         /\ DateWord(Nums(l)[1], Nums(l)[2], Nums(l)[3]) = HwDateWord(Nums(l), 0)
<1> DEFINE y == GetNum(l.arg[1])
           m == GetNum(l.arg[3])
           d == GetNum(l.arg[5])
<1>1. Nums(l) = <<y, m, d>>
  BY DEF Nums
<1>2. y \in -1..99
  BY GetNumRange
<1> HIDE DEF y, m, d
<1>3. y \in 0..99 /\ m \in 1..12 /\ d \in 1..31
  BY <1>1, <1>2 DEF IsDateSet
<1>4. DateWord(y, m, d) = HwDateWord(<<y, m, d>>, 0)
  BY <1>3, DateCommandWord, Zenon
<1>5. Nums(l)[1] = y /\ Nums(l)[2] = m /\ Nums(l)[3] = d
  BY <1>1
<1> QED
  BY <1>1, <1>3, <1>4, <1>5, Zenon

(* The calendar of a reset backup domain is valid. *)
LEMMA ResetWords == TimeOf(TrReset) /\ DateOf(DrReset)
<1>1. HwTimeWord(<<0, 0, 0>>) = 0
  BY DEF HwTimeWord
<1>2. 0 \in 0..23 /\ 0 \in 0..59 /\ 0 \in 0..99 /\ 1 \in 1..12 /\ 1 \in 1..31 /\ 1 \in 0..7
  OBVIOUS
<1> QED
  BY <1>1, <1>2, Zenon DEF TimeOf, DateOf, TrReset, DrReset

LEMMA InitRtcInv == Init => RtcInv
  BY ResetWords, Zenon DEF Init, RtcInv, Computed, Clocked

(* Start-up *)
LEMMA BootKeepsInv == RtcInv /\ BootStep => RtcInv'
<1> SUFFICES ASSUME RtcInv, BootStep PROVE RtcInv'
  OBVIOUS
<1> USE DEF RtcInv, Boot, backup
<1>1. bpc # "up"
  BY DEF BootStep, LseEnable, CheckSource, BackupReset, SelectSource, EnableRtc, RtcInit,
         Unprotect
<1>2. cpc' = "idle"
  BY <1>1 DEF BootStep, LseEnable, CheckSource, BackupReset, SelectSource, EnableRtc, RtcInit,
         Unprotect
<1>3. Computed'
  BY <1>2, Zenon DEF Computed
<1>4. CASE LseEnable
  BY <1>2, <1>3, <1>4 DEF LseEnable
<1>5. CASE CheckSource
  BY <1>2, <1>3, <1>5 DEF CheckSource
<1>6. CASE BackupReset
  BY <1>2, <1>3, <1>6, ResetWords DEF BackupReset
<1>7. CASE SelectSource
  BY <1>2, <1>3, <1>7 DEF SelectSource
<1>8. CASE EnableRtc
  BY <1>2, <1>3, <1>8 DEF EnableRtc
<1>9. CASE RtcInit
  <2>1. Clocked' = Clocked
    BY <1>9 DEF RtcInit, Clocked
  <2> QED
    BY <1>2, <1>3, <1>9, <2>1, Zenon DEF RtcInit
<1>10. CASE Unprotect
  <2>1. Clocked' = Clocked
    BY <1>10 DEF Unprotect, Clocked
  <2> QED
    BY <1>1, <1>2, <1>3, <1>10, <2>1 DEF Unprotect
<1> QED
  BY <1>4, <1>5, <1>6, <1>7, <1>8, <1>9, <1>10 DEF BootStep

(* A line is taken from the prompt. *)
LEMMA SubmitKeepsInv ==
  ASSUME NEW l \in Lines, RtcInv, Submit(l)
  PROVE  RtcInv'
<1> USE DEF RtcInv, Execute, backup
<1>1. /\ bpc = "up" /\ cpc = "idle" /\ bpc' = bpc
      /\ cpc' \in {"idle", "time_enter", "date_enter"}
      /\ tr' = tr /\ dr' = dr /\ init' = init
      /\ lseon' = lseon /\ rtcsel' = rtcsel /\ rtcen' = rtcen
  BY Zenon DEF Submit, PinSet, TimeSet, DateSet, TimeShow, DateShow, Reject
<1>2. Clocked' = Clocked
  BY <1>1 DEF Clocked
<1>3. Computed'
  <2>1. CASE cpc' = "idle"
    BY <2>1, Zenon DEF Computed
  <2>2. CASE TimeSet(l)
    <3>1. cpc' = "time_enter" /\ line' = l
          /\ word' = TimeWord(Nums(l)[1], Nums(l)[2], Nums(l)[3])
      BY <2>2, Zenon DEF TimeSet
    <3>2. Nums(line') = Nums(l)
      BY <3>1, Zenon
    <3> QED
      BY <2>2, <3>1, <3>2, TimeTyped, Zenon DEF TimeSet, Computed
  <2>3. CASE DateSet(l)
    <3>1. cpc' = "date_enter" /\ line' = l
          /\ word' = DateWord(Nums(l)[1], Nums(l)[2], Nums(l)[3])
      BY <2>3 DEF DateSet
    <3>2. Nums(line') = Nums(l)
      BY <3>1, Zenon
    <3> QED
      BY <2>3, <3>1, <3>2, DateTyped, Zenon DEF DateSet, Computed
  <2> QED
    BY <2>1, <2>2, <2>3 DEF Submit, PinSet, TimeShow, DateShow, Reject
<1> QED
  BY <1>1, <1>2, <1>3

(* A set command goes on. *)
LEMMA CliKeepsInv == RtcInv /\ CliStep => RtcInv'
<1> SUFFICES ASSUME RtcInv, CliStep PROVE RtcInv'
  OBVIOUS
<1> USE DEF RtcInv
<1>1. ASSUME NEW from, NEW to, EnterInitMode(from, to),
             \/ from = "time_enter" /\ to = "time_write"
             \/ from = "date_enter" /\ to = "date_write"
      PROVE  RtcInv'
  <2>1. /\ cpc = from /\ cpc' \in {to, "idle"}
        /\ bpc' = bpc /\ tr' = tr /\ dr' = dr /\ line' = line /\ word' = word
        /\ lseon' = lseon /\ rtcsel' = rtcsel /\ rtcen' = rtcen
    BY <1>1 DEF EnterInitMode
  <2>2. Clocked' = Clocked
    BY <2>1 DEF Clocked
  <2>3. IF Clocked /\ init' THEN cpc' = to ELSE cpc' = "idle"
    BY <1>1, Zenon DEF EnterInitMode
  <2>4. Nums(line') = Nums(line)
    BY <2>1, Zenon
  <2>5. Computed'
    BY <1>1, <2>1, <2>4, Zenon DEF Computed
  <2> QED
    BY <1>1, <2>1, <2>2, <2>3, <2>5
<1>2. CASE WriteTime
  <2>1. TimeOf(tr') /\ Computed'
    BY <1>2, Zenon DEF WriteTime, Computed, TimeOf
  <2>2. Clocked' = Clocked
    BY <1>2 DEF WriteTime, Clocked
  <2> QED
    BY <1>2, <2>1, <2>2 DEF WriteTime
<1>3. CASE WriteDate
  <2>1. 0 \in 0..7
    OBVIOUS
  <2>2. DateOf(dr') /\ Computed'
    BY <1>3, <2>1, Zenon DEF WriteDate, Computed, DateOf
  <2>3. Clocked' = Clocked
    BY <1>3 DEF WriteDate, Clocked
  <2> QED
    BY <1>3, <2>2, <2>3 DEF WriteDate
<1>4. CASE ExitInitMode
  <2>1. Computed'
    BY <1>4, Zenon DEF ExitInitMode, Computed
  <2> QED
    BY <1>4, <2>1, Zenon DEF ExitInitMode
<1> QED
  BY <1>1, <1>2, <1>3, <1>4 DEF CliStep

(* A second passes. *)
LEMMA TickKeepsInv == RtcInv /\ Tick => RtcInv'
<1> SUFFICES ASSUME RtcInv, Tick PROVE RtcInv'
  OBVIOUS
<1> USE DEF RtcInv
<1>1. TimeOf(tr')
  BY NextTimeOf, Zenon DEF Tick
<1>2. DateOf(dr')
  BY NextDateOf, Zenon DEF Tick
<1>3. Computed' /\ Clocked' = Clocked
  BY Zenon DEF Tick, cpu, Computed, Clocked
<1> QED
  BY <1>1, <1>2, <1>3 DEF Tick, cpu

LEMMA RestartKeepsInv == RtcInv /\ (Reset \/ PowerLoss) => RtcInv'
  BY ResetWords, Zenon DEF RtcInv, Reset, PowerLoss, Restart, backup, Computed

LEMMA NextKeepsInv == RtcInv /\ [Next]_vars => RtcInv'
<1>1. ASSUME RtcInv, UNCHANGED vars PROVE RtcInv'
  <2>1. /\ bpc' = bpc /\ cpc' = cpc /\ line' = line /\ word' = word
        /\ lseon' = lseon /\ rtcsel' = rtcsel /\ rtcen' = rtcen /\ init' = init
        /\ tr' = tr /\ dr' = dr
    BY <1>1 DEF vars, cpu, backup
  <2>2. Computed' = Computed /\ Clocked' = Clocked
    BY <2>1, Zenon DEF Computed, Clocked
  <2> QED
    BY <1>1, <2>1, <2>2, Zenon DEF RtcInv
<1> QED
  BY <1>1, BootKeepsInv, SubmitKeepsInv, CliKeepsInv, TickKeepsInv, RestartKeepsInv, Zenon
     DEF Next

(* The inductive invariant holds in every reachable state. *)
THEOREM RtcInvHolds == Spec => []RtcInv
  BY InitRtcInv, NextKeepsInv, PTL DEF Spec

(* Whatever lines are typed and however often the board is reset or loses   *)
(* power, TR and DR hold a time of day and a date.                          *)
THEOREM CalendarAlwaysValid == Spec => []CalendarValid
<1>1. RtcInv => CalendarValid
  BY ValidWords DEF RtcInv
<1> QED
  BY <1>1, RtcInvHolds, PTL

(* A set command that was cut short or timed out never leaves a clocked     *)
(* calendar stopped at the prompt.                                          *)
THEOREM CalendarAlwaysRuns == Spec => []CalendarRuns
<1>1. RtcInv => CalendarRuns
  BY DEF RtcInv, CalendarRuns
<1> QED
  BY <1>1, RtcInvHolds, PTL

TrWords == 0..TrSize - 1
DrWords == 0..DrSize - 1

LEMMA Sizes ==
  /\ TrSize \in Nat /\ DrSize \in Nat /\ 0 < TrSize /\ TrSize <= DrSize
  /\ \A w \in Nat : (w < 4194304 => w \in TrWords) /\ (w < 16777216 => w \in DrWords)
<1>1. TrSize = 4194304 /\ DrSize = 16777216
  BY SMT DEF TrSize, DrSize
<1> QED
  <2>1. \A n \in Nat, w \in Nat : w < n => w \in 0..n - 1
    OBVIOUS
  <2>2. TrSize \in Nat /\ DrSize \in Nat
    BY <1>1, SMT
  <2>3. \A w \in Nat : w < TrSize => w \in TrWords
    BY <2>1, <2>2, Zenon DEF TrWords
  <2>4. \A w \in Nat : w < DrSize => w \in DrWords
    BY <2>1, <2>2, Zenon DEF DrWords
  <2> QED
    BY <1>1, <2>3, <2>4, SMT

(* The words of times and dates fit their registers. *)
LEMMA WordRanges ==
  ASSUME NEW w
  PROVE  /\ TimeOf(w) => w \in TrWords
         /\ DateOf(w) => w \in DrWords
<1>1. ASSUME NEW h \in 0..23, NEW m \in 0..59, NEW s \in 0..59
      PROVE  HwTimeWord(<<h, m, s>>) \in TrWords
  <2> DEFINE x == HwTimeWord(<<h, m, s>>)
  <2>1. x \in Nat /\ x < 4194304
    BY SMT DEF HwTimeWord
  <2> HIDE DEF x
  <2>2. x \in TrWords
    BY <2>1, Sizes, SMT
  <2> QED
    BY <2>2, SMT DEF x
<1>2. ASSUME NEW y \in 0..99, NEW m \in 1..12, NEW d \in 1..31, NEW wd \in 0..7
      PROVE  HwDateWord(<<y, m, d>>, wd) \in DrWords
  <2> DEFINE x == HwDateWord(<<y, m, d>>, wd)
  <2>1. x \in Nat /\ x < 16777216
    BY SMT DEF HwDateWord
  <2> HIDE DEF x
  <2>2. x \in DrWords
    BY <2>1, Sizes, SMT
  <2> QED
    BY <2>2, SMT DEF x
<1> QED
  BY <1>1, <1>2, Zenon DEF TimeOf, DateOf

(* The registers and the words the commands compute. *)
WordsOK ==
  /\ tr \in TrWords
  /\ word \in DrWords /\ dr \in DrWords /\ shadow \in DrWords

LEMMA WordsKept ==
  ASSUME RtcInv, RtcInv', WordsOK, [Next]_vars
  PROVE  WordsOK'
<1>1. tr' \in TrWords /\ dr' \in DrWords
  BY WordRanges, Zenon DEF RtcInv
<1>2. shadow' \in DrWords
  <2>1. 0 \in DrWords
    BY Sizes, SMT DEF DrWords
  <2>2. shadow' \in {0, shadow, dr}
    BY Zenon
    DEF Next, BootStep, Boot, LseEnable, CheckSource, BackupReset, SelectSource, EnableRtc,
        RtcInit, Unprotect, Submit, PinSet, TimeSet, DateSet, TimeShow, DateShow, Reject,
        Execute, CliStep, EnterInitMode, WriteTime, WriteDate, ExitInitMode, Tick, Reset,
        PowerLoss, Restart, shadows, vars
  <2> QED
    BY <2>1, <2>2, Zenon DEF WordsOK
<1>3. word' \in DrWords
  <2>1. 0 \in DrWords /\ 0 \in 0..7 /\ TrWords \subseteq DrWords
    BY Sizes, SMT DEF TrWords, DrWords
  <2>2. \/ word' \in {0, word}
        \/ \E l : IsTimeSet(l) /\ word' = TimeWord(Nums(l)[1], Nums(l)[2], Nums(l)[3])
        \/ \E l : IsDateSet(l) /\ word' = DateWord(Nums(l)[1], Nums(l)[2], Nums(l)[3])
    BY Zenon
    DEF Next, BootStep, Boot, LseEnable, CheckSource, BackupReset, SelectSource, EnableRtc,
        RtcInit, Unprotect, Submit, PinSet, TimeSet, DateSet, TimeShow, DateShow, Reject,
        Execute, CliStep, EnterInitMode, WriteTime, WriteDate, ExitInitMode, Tick, Reset,
        PowerLoss, Restart, cpu, vars
  <2>3. ASSUME NEW l, IsTimeSet(l), word' = TimeWord(Nums(l)[1], Nums(l)[2], Nums(l)[3])
        PROVE  TimeOf(word')
    BY <2>3, TimeTyped, Zenon DEF TimeOf
  <2>4. ASSUME NEW l, IsDateSet(l), word' = DateWord(Nums(l)[1], Nums(l)[2], Nums(l)[3])
        PROVE  DateOf(word')
    BY <2>1, <2>4, DateTyped, Zenon DEF DateOf
  <2> QED
    BY <2>1, <2>2, <2>3, <2>4, WordRanges, Zenon DEF WordsOK
<1> QED
  BY <1>1, <1>2, <1>3, Zenon DEF WordsOK

(* The places in the program and the bits of the registers. *)
PlacesOK ==
  /\ bpc \in {"reset", "check", "bdreset", "select", "enable", "init", "unprotect", "up"}
  /\ cpc \in {"idle", "time_enter", "time_write", "time_exit",
              "date_enter", "date_write", "date_exit"}
  /\ line \in Lines \cup {NoLine}

BitsOK ==
  /\ led \in BOOLEAN /\ lseon \in BOOLEAN /\ rtcsel \in BOOLEAN /\ rtcen \in BOOLEAN
  /\ wp \in BOOLEAN /\ init \in BOOLEAN /\ locked \in BOOLEAN

BoundsOK == ticksLeft \in 0..MaxTicks /\ resetsLeft \in 0..MaxResets

LEMMA PlacesKept == PlacesOK /\ [Next]_vars => PlacesOK'
  BY Zenon
  DEF PlacesOK, Next, BootStep, Boot, LseEnable, CheckSource, BackupReset, SelectSource,
      EnableRtc, RtcInit, Unprotect, Submit, PinSet, TimeSet, DateSet, TimeShow, DateShow,
      Reject, Execute, CliStep, EnterInitMode, WriteTime, WriteDate, ExitInitMode, Tick,
      Reset, PowerLoss, Restart, cpu, vars

LEMMA BitsKept == BitsOK /\ [Next]_vars => BitsOK'
<1> SUFFICES ASSUME BitsOK, [Next]_vars PROVE BitsOK'
  OBVIOUS
<1> USE DEF BitsOK
<1>1. CASE BootStep
  BY <1>1, Zenon
  DEF BootStep, Boot, LseEnable, CheckSource, BackupReset, SelectSource, EnableRtc, RtcInit,
      Unprotect, backup, shadows
<1>2. CASE \E l \in Lines : Submit(l)
  BY <1>2, Zenon
  DEF Submit, PinSet, TimeSet, DateSet, TimeShow, DateShow, Reject, Execute, backup, shadows
<1>3. CASE CliStep
  BY <1>3, Zenon DEF CliStep, EnterInitMode, WriteTime, WriteDate, ExitInitMode, shadows
<1>4. CASE Tick \/ Reset \/ PowerLoss \/ UNCHANGED vars
  BY <1>4, Zenon DEF Tick, Reset, PowerLoss, Restart, cpu, backup, shadows, vars
<1> QED
  BY <1>1, <1>2, <1>3, <1>4, Zenon DEF Next

LEMMA BoundsKept == BoundsOK /\ [Next]_vars => BoundsOK'
<1> SUFFICES ASSUME BoundsOK, [Next]_vars PROVE BoundsOK'
  OBVIOUS
<1>1. \/ UNCHANGED bounds
      \/ ticksLeft > 0 /\ ticksLeft' = ticksLeft - 1 /\ resetsLeft' = resetsLeft
      \/ resetsLeft > 0 /\ resetsLeft' = resetsLeft - 1 /\ ticksLeft' = ticksLeft
  BY Zenon
  DEF Next, BootStep, Boot, LseEnable, CheckSource, BackupReset, SelectSource, EnableRtc,
      RtcInit, Unprotect, Submit, PinSet, TimeSet, DateSet, TimeShow, DateShow, Reject,
      Execute, CliStep, EnterInitMode, WriteTime, WriteDate, ExitInitMode, Tick, Reset,
      PowerLoss, Restart, vars
<1> QED
  BY <1>1, RtcAssumption DEF BoundsOK, bounds

(* Through every command, tick and reset, the words a command computes and  *)
(* those in the registers fit into 22 and 24 bits.                          *)
THEOREM RtcTypes == Spec => []TypeOK
<1>1. Init => WordsOK /\ PlacesOK /\ BitsOK /\ BoundsOK
  <2> SUFFICES ASSUME Init PROVE WordsOK /\ PlacesOK /\ BitsOK /\ BoundsOK
    OBVIOUS
  <2>1. TimeOf(tr) /\ DateOf(dr)
    BY InitRtcInv DEF RtcInv
  <2>2. tr \in TrWords /\ dr \in DrWords
    BY <2>1, WordRanges, Zenon
  <2>3. word = 0 /\ shadow = 0
    BY DEF Init
  <2>4. WordsOK
    BY <2>2, <2>3, Sizes, SMT DEF WordsOK, DrWords
  <2>5. PlacesOK /\ BitsOK
    BY Zenon DEF Init, PlacesOK, BitsOK
  <2>6. BoundsOK
    BY RtcAssumption DEF Init, BoundsOK
  <2> QED
    BY <2>4, <2>5, <2>6
<1>2. WordsOK /\ PlacesOK /\ BitsOK /\ BoundsOK => TypeOK
  <2> SUFFICES ASSUME WordsOK, PlacesOK, BitsOK, BoundsOK PROVE TypeOK
    OBVIOUS
  <2>1. {led, lseon, rtcsel, rtcen, wp, init, locked} \subseteq BOOLEAN
    BY Zenon DEF BitsOK
  <2>2. {word, dr, shadow} \subseteq DrWords /\ tr \in TrWords
    BY Zenon DEF WordsOK
  <2> QED
    BY <2>1, <2>2 DEF TypeOK, PlacesOK, BoundsOK, TrWords, DrWords
<1>3. RtcInv /\ RtcInv' /\ WordsOK /\ [Next]_vars => WordsOK'
  BY WordsKept
<1> QED
  BY <1>1, <1>2, <1>3, PlacesKept, BitsKept, BoundsKept, RtcInvHolds, PTL DEF Spec

LEMMA TicksCounted == Spec => [](ticksLeft \in Nat)
<1>1. TypeOK => ticksLeft \in Nat
  BY RtcAssumption DEF TypeOK
<1> QED
  BY <1>1, RtcTypes, PTL

(* Start-up with LSE still selected, that is after a reset with the battery *)
(* in place, never changes the time or the date.                            *)
THEOREM CalendarAlwaysKept == Spec => CalendarKept
<1>1. ASSUME RtcInv, ticksLeft \in Nat, [Next]_vars,
             bpc # "up", bpc' # "reset", rtcsel, UNCHANGED ticksLeft
      PROVE  UNCHANGED <<tr, dr>>
  <2>1. CASE UNCHANGED vars
    BY <2>1 DEF vars, backup
  <2>2. CASE BootStep
    BY <1>1, <2>2, Zenon DEF RtcInv, BootStep, Boot, backup, LseEnable, CheckSource, BackupReset,
         SelectSource, EnableRtc, RtcInit, Unprotect
  <2>3. CASE \E l \in Lines : Submit(l)
    BY <1>1, <2>3, Zenon DEF Submit, PinSet, TimeSet, DateSet, TimeShow, DateShow, Reject, Execute
  <2>4. CASE CliStep
    BY <1>1, <2>4 DEF RtcInv, CliStep, EnterInitMode, WriteTime, WriteDate, ExitInitMode
  <2>5. ~Tick
    <3>1. ticksLeft # ticksLeft - 1
      BY <1>1
    <3> QED
      BY <1>1, <3>1, Zenon DEF Tick
  <2>6. ~Reset /\ ~PowerLoss
    BY <1>1 DEF Reset, PowerLoss, Restart
  <2> QED
    BY <1>1, <2>1, <2>2, <2>3, <2>4, <2>5, <2>6, Zenon DEF Next
<1>2. RtcInv /\ ticksLeft \in Nat /\ [Next]_vars
        => [bpc # "up" /\ bpc' # "reset" /\ rtcsel /\ UNCHANGED ticksLeft
              => UNCHANGED <<tr, dr>>]_vars
  BY <1>1, Zenon
<1> QED
  BY <1>2, RtcInvHolds, TicksCounted, PTL DEF Spec, CalendarKept
(* At the prompt an RTC without a clock stays without one, and its calendar *)
(* is not moved by any command.                                             *)
THEOREM StoppedUntilReset == Spec => StoppedClockStays
<1>1. ASSUME RtcInv, [Next]_vars, bpc = "up", bpc' = "up", ~Clocked
      PROVE  UNCHANGED <<tr, dr>> /\ ~Clocked'
  <2>1. CASE UNCHANGED vars
    BY <1>1, <2>1 DEF vars, backup, Clocked
  <2>2. ~BootStep
    BY <1>1 DEF BootStep, Boot, LseEnable, CheckSource, BackupReset, SelectSource, EnableRtc,
         RtcInit, Unprotect
  <2>3. CASE \E l \in Lines : Submit(l)
    <3>1. UNCHANGED backup
      BY <2>3, Zenon DEF Submit, PinSet, TimeSet, DateSet, TimeShow, DateShow, Reject, Execute
    <3>2. lseon' = lseon /\ rtcsel' = rtcsel /\ rtcen' = rtcen /\ UNCHANGED <<tr, dr>>
      BY <3>1 DEF backup
    <3> QED
      BY <1>1, <3>2, Zenon DEF Clocked
  <2>4. CASE CliStep
    <3>1. ~WriteTime /\ ~WriteDate
      BY <1>1 DEF RtcInv, WriteTime, WriteDate
    <3>2. lseon' = lseon /\ rtcsel' = rtcsel /\ rtcen' = rtcen /\ UNCHANGED <<tr, dr>>
      BY <2>4, <3>1, Zenon DEF CliStep, EnterInitMode, ExitInitMode
    <3> QED
      BY <1>1, <3>2, Zenon DEF Clocked
  <2>5. ~Tick
    BY <1>1 DEF Tick
  <2>6. ~Reset /\ ~PowerLoss
    BY <1>1 DEF Reset, PowerLoss, Restart
  <2> QED
    BY <1>1, <2>1, <2>2, <2>3, <2>4, <2>5, <2>6, Zenon DEF Next
<1>2. RtcInv /\ [Next]_vars
        => [bpc = "up" /\ bpc' = "up" /\ ~Clocked => UNCHANGED <<tr, dr>> /\ ~Clocked']_vars
  BY <1>1, Zenon
<1> QED
  BY <1>2, RtcInvHolds, PTL DEF Spec, StoppedClockStays

(* The digits that reach the registers are those that were typed, also when *)
(* seconds, or a timed-out command, come between the parts of the command.  *)
THEOREM AlwaysSetAsTyped == Spec => SetAsTyped
<1> DEFINE A == /\ cpc = "time_write" /\ cpc' = "time_exit" => HwTime(tr') = Nums(line)
                /\ cpc = "date_write" /\ cpc' = "date_exit" => HwDate(dr') = Nums(line)
<1>1. ASSUME RtcInv, Next PROVE A
  <2>1. cpc = "time_write" /\ cpc' = "time_exit" => tr' = word
    BY <1>1, Zenon DEF RtcInv, Next, BootStep, Boot, LseEnable, CheckSource, BackupReset,
         SelectSource, EnableRtc, RtcInit, Unprotect, Submit, PinSet, TimeSet, DateSet,
         TimeShow, DateShow, Reject, Execute, CliStep, EnterInitMode, WriteTime, WriteDate,
         ExitInitMode, Tick, Reset, PowerLoss, Restart, cpu
  <2>2. cpc = "date_write" /\ cpc' = "date_exit" => dr' = word
    BY <1>1, Zenon DEF RtcInv, Next, BootStep, Boot, LseEnable, CheckSource, BackupReset,
         SelectSource, EnableRtc, RtcInit, Unprotect, Submit, PinSet, TimeSet, DateSet,
         TimeShow, DateShow, Reject, Execute, CliStep, EnterInitMode, WriteTime, WriteDate,
         ExitInitMode, Tick, Reset, PowerLoss, Restart, cpu
  <2>3. cpc = "time_write" => HwTime(word) = Nums(line)
    <3> SUFFICES ASSUME cpc = "time_write" PROVE HwTime(word) = Nums(line)
      OBVIOUS
    <3>1. cpc \in {"time_enter", "time_write"}
      OBVIOUS
    <3>2. PICK h \in 0..23, m \in 0..59, s \in 0..59 : Nums(line) = <<h, m, s>>
      BY <1>1, <3>1, Zenon DEF RtcInv, Computed
    <3>3. word = HwTimeWord(<<h, m, s>>)
      BY <1>1, <3>1, <3>2, Zenon DEF RtcInv, Computed
    <3> QED
      BY <3>2, <3>3, TimeFields, Zenon
  <2>4. cpc = "date_write" => HwDate(word) = Nums(line)
    <3> SUFFICES ASSUME cpc = "date_write" PROVE HwDate(word) = Nums(line)
      OBVIOUS
    <3>1. cpc \in {"date_enter", "date_write"} /\ 0 \in 0..7
      OBVIOUS
    <3>2. PICK y \in 0..99, m \in 1..12, d \in 1..31 : Nums(line) = <<y, m, d>>
      BY <1>1, <3>1, Zenon DEF RtcInv, Computed
    <3>3. word = HwDateWord(<<y, m, d>>, 0)
      BY <1>1, <3>1, <3>2, Zenon DEF RtcInv, Computed
    <3> QED
      BY <3>1, <3>2, <3>3, DateFields, Zenon
  <2> QED
    BY <2>1, <2>2, <2>3, <2>4, Zenon
<1>2. RtcInv /\ [Next]_vars => [A]_vars
  BY <1>1, Zenon
<1> QED
  BY <1>2, RtcInvHolds, PTL DEF Spec, SetAsTyped
LEMMA PrintedKind ==
  ASSUME NEW k, NEW v
  PROVE  [kind |-> k, value |-> v].kind = k
  OBVIOUS

(* "time get" prints the time that TR holds. *)
THEOREM TimeAlwaysAsStored == Spec => TimeAsStored
<1> DEFINE A == out' # out /\ out'.kind = "time" => out'.value = HwTime(tr)
<1>1. ASSUME RtcInv, Next PROVE A
  <2> SUFFICES ASSUME out' # out, out'.kind = "time" PROVE out'.value = HwTime(tr)
    OBVIOUS
  <2>1. ASSUME NEW k \in {"none", "syntax error", "time set", "date", "date set"}, NEW v
        PROVE  out' # [kind |-> k, value |-> v]
    <3>1. k # "time"
      BY Zenon
    <3> QED
      BY <3>1, PrintedKind, Zenon
  <2>2. out' # Nothing /\ out' # SyntaxError
    BY <2>1, Zenon DEF Nothing, SyntaxError
  <2>3. PICK l \in Lines : TimeShow(l)
    BY <1>1, <2>1, <2>2, Zenon DEF Next, BootStep, Boot, LseEnable, CheckSource, BackupReset,
         SelectSource, EnableRtc, RtcInit, Unprotect, Submit, PinSet, TimeSet, DateSet,
         DateShow, Reject, CliStep, EnterInitMode, WriteTime, WriteDate,
         ExitInitMode, Tick, Reset, PowerLoss, Restart, cpu
  <2> QED
    BY <1>1, <2>3, ValidWords DEF TimeShow, RtcInv
<1>2. RtcInv /\ [Next]_vars => [A]_vars
  BY <1>1, Zenon
<1> QED
  BY <1>2, RtcInvHolds, PTL DEF Spec, TimeAsStored

-----------------------------------------------------------------------------
(* What "date get" prints.  DateAsStored fails: a "time get" freezes the    *)
(* shadow of DR until the date is read.  What holds instead is proved here: *)
(* which commands leave the shadow following DR, and that a frozen shadow   *)
(* still holds a date.                                                      *)

Dates == (0..99) \X (1..12) \X (1..31)

(* Replies after which the prompt comes back with the shadow following DR:  *)
(* a set command entered initialisation mode, a "date get" read DR.         *)
Following == {"time set", "date set", "date"}

(* The conversions of "date get" return the date in the fields of DR, the   *)
(* day of the week beside the month notwithstanding.                        *)
LEMMA DateGetFields ==
  ASSUME NEW w, DateOf(w)
  PROVE  DateGet(w) = HwDate(w) /\ DateGet(w) \in Dates
<1>1. PICK y \in 0..99, m \in 1..12, d \in 1..31, wd \in 0..7 :
             w = HwDateWord(<<y, m, d>>, wd)
  BY Zenon DEF DateOf
<1> DEFINE a == BIN2BCD(y)
           b == BIN2BCD(m)
           c == BIN2BCD(d)
<1>2. /\ a \in 0..153 /\ b \in 0..31 /\ c \in 0..63
      /\ w = a * 65536 + (wd * 32 + b) * 256 + c
  <2> DEFINE yt == y \div 10   yu == y % 10
             mt == m \div 10   mu == m % 10
             dt == d \div 10   du == d % 10
  <2>1. /\ yt \in 0..9 /\ yu \in 0..9 /\ a = 16 * yt + yu
        /\ mt \in 0..1 /\ mu \in 0..9 /\ b = 16 * mt + mu
        /\ dt \in 0..3 /\ du \in 0..9 /\ c = 16 * dt + du
    <3>1. y \in 0..99 /\ m \in 0..99 /\ d \in 0..99
      OBVIOUS
    <3>2. yt \in 0..9 /\ mt \in 0..1 /\ dt \in 0..3
      OBVIOUS
    <3> QED
      BY <3>1, <3>2, BcdDigits
  <2>2. w = yt * 1048576 + yu * 65536 + wd * 8192 + mt * 4096 + mu * 256 + dt * 16 + du
    BY <1>1 DEF HwDateWord
  <2> HIDE DEF yt, yu, mt, mu, dt, du, a, b, c
  <2> QED
    BY <2>1, <2>2
<1>3. BCD2BIN(a) = y /\ BCD2BIN(b) = m /\ BCD2BIN(c) = d
  <2> y \in 0..99 /\ m \in 0..99 /\ d \in 0..99
    OBVIOUS
  <2> QED
    BY BcdRoundTrip, Zenon
<1> HIDE DEF a, b, c
<1>4. (w \div 65536) % 256 = a /\ (w \div 256) % 32 = b /\ w % 64 = c
  <2>1. w \div 65536 = a /\ a % 256 = a
    BY <1>2
  <2>2. w \div 256 = a * 256 + wd * 32 + b
    BY <1>2
  <2>3. (a * 256 + wd * 32 + b) % 32 = b
    BY <1>2
  <2>4. w % 64 = c
    BY <1>2
  <2> QED
    BY <2>1, <2>2, <2>3, <2>4
<1>5. DateGet(w) = <<y, m, d>>
  BY <1>3, <1>4 DEF DateGet
<1>6. HwDate(w) = <<y, m, d>>
  BY <1>1, DateFields, Zenon
<1>7. <<y, m, d>> \in Dates
  BY DEF Dates
<1> QED
  BY <1>5, <1>6, <1>7, Zenon

(* The shadow is frozen only by a "time get", and then at a date.           *)
ShadowInv ==
  /\ locked => DateOf(shadow)
  /\ cpc \in {"time_write", "time_exit", "date_write", "date_exit"} => ~locked
  /\ cpc = "idle" /\ out.kind \in Following => ~locked
  /\ out.kind = "date" => out.value \in Dates

LEMMA PrintedValue ==
  ASSUME NEW k, NEW v
  PROVE  [kind |-> k, value |-> v].value = v
  OBVIOUS

LEMMA Kinds ==
  /\ Nothing.kind \notin Following /\ SyntaxError.kind \notin Following
  /\ "time" \notin Following /\ "date" \in Following
  /\ "date" # "time set" /\ "date" # "date set" /\ "date" # "time"
<1>1. Nothing.kind = "none" /\ SyntaxError.kind = "syntax error"
  BY PrintedKind DEF Nothing, SyntaxError
<1> QED
  BY <1>1 DEF Following

LEMMA SubmitKeepsShadow ==
  ASSUME NEW l \in Lines, RtcInv, ShadowInv, Submit(l)
  PROVE  ShadowInv'
<1>1. CASE PinSet(l) \/ Reject(l)
  <2>1. locked' = locked /\ shadow' = shadow /\ cpc' = "idle"
    BY <1>1, Zenon DEF PinSet, Reject, Execute, shadows
  <2>2. out'.kind \notin Following
    BY <1>1, Kinds, Zenon DEF PinSet, Reject
  <2> QED
    BY <2>1, <2>2, Kinds, Zenon DEF ShadowInv
<1>2. CASE TimeSet(l) \/ DateSet(l)
  <2>1. locked' = locked /\ shadow' = shadow /\ cpc' \in {"time_enter", "date_enter"}
    BY <1>2, Zenon DEF TimeSet, DateSet, Execute, shadows
  <2>2. out'.kind # "date"
    BY <1>2, Kinds, PrintedKind, Zenon DEF TimeSet, DateSet
  <2> QED
    BY <2>1, <2>2, Zenon DEF ShadowInv
<1>3. CASE TimeShow(l)
  <2>1. cpc' = "idle" /\ shadow' \in {shadow, dr} /\ (~locked => shadow' = dr)
    BY <1>3, Zenon DEF TimeShow, Execute
  <2>2. out'.kind = "time"
    BY <1>3, PrintedKind, Zenon DEF TimeShow
  <2>3. DateOf(shadow')
    BY <1>3, <2>1, Zenon DEF ShadowInv, RtcInv, TimeShow
  <2> QED
    BY <2>1, <2>2, <2>3, Kinds, Zenon DEF ShadowInv
<1>4. CASE DateShow(l)
  <2>1. cpc' = "idle" /\ ~locked'
    BY <1>4, Zenon DEF DateShow, Execute
  <2>2. out'.value = DateGet(IF locked THEN shadow ELSE dr)
    BY <1>4, PrintedValue, Zenon DEF DateShow
  <2>3. DateOf(IF locked THEN shadow ELSE dr)
    BY Zenon DEF ShadowInv, RtcInv
  <2>4. out'.value \in Dates
    BY <2>2, <2>3, DateGetFields, Zenon
  <2> QED
    BY <2>1, <2>4, Zenon DEF ShadowInv
<1> QED
  BY <1>1, <1>2, <1>3, <1>4, Zenon DEF Submit

LEMMA CliKeepsShadow == ShadowInv /\ CliStep => ShadowInv'
<1> SUFFICES ASSUME ShadowInv, CliStep PROVE ShadowInv'
  OBVIOUS
<1>1. ASSUME NEW from, NEW to, EnterInitMode(from, to)
      PROVE  ShadowInv'
  <2>1. ~locked' /\ out' \in {out, SyntaxError}
    BY <1>1, Zenon DEF EnterInitMode
  <2> QED
    BY <2>1, Kinds, Zenon DEF ShadowInv
<1>2. CASE WriteTime \/ WriteDate
  <2>1. /\ locked' = locked /\ shadow' = shadow /\ out' = out
        /\ cpc' # "idle" /\ ~locked
    BY <1>2, Zenon DEF WriteTime, WriteDate, shadows, ShadowInv
  <2> QED
    BY <2>1, Zenon DEF ShadowInv
<1>3. CASE ExitInitMode
  <2>1. ~locked'
    BY <1>3, Zenon DEF ExitInitMode, shadows, ShadowInv
  <2>2. out' = out \/ out'.kind # "date"
    BY <1>3, Kinds, PrintedKind, Zenon DEF ExitInitMode
  <2> QED
    BY <2>1, <2>2, Zenon DEF ShadowInv
<1> QED
  BY <1>1, <1>2, <1>3, Zenon DEF CliStep

LEMMA NextKeepsShadow == RtcInv /\ ShadowInv /\ [Next]_vars => ShadowInv'
<1> SUFFICES ASSUME RtcInv, ShadowInv, [Next]_vars PROVE ShadowInv'
  OBVIOUS
<1>1. CASE BootStep \/ Tick \/ UNCHANGED vars
  <2>1. cpc' = cpc /\ out' = out /\ locked' = locked /\ shadow' = shadow
    BY <1>1, Zenon DEF BootStep, Boot, LseEnable, CheckSource, BackupReset, SelectSource,
         EnableRtc, RtcInit, Unprotect, Tick, cpu, shadows, vars
  <2> QED
    BY <2>1, Zenon DEF ShadowInv
<1>2. CASE Reset \/ PowerLoss
  <2>1. cpc' = "idle" /\ out' = Nothing /\ ~locked'
    BY <1>2, Zenon DEF Reset, PowerLoss, Restart
  <2> QED
    BY <2>1, Kinds, Zenon DEF ShadowInv
<1> QED
  BY <1>1, <1>2, SubmitKeepsShadow, CliKeepsShadow, Zenon DEF Next

LEMMA ShadowInvHolds == Spec => []ShadowInv
<1>1. Init => ShadowInv
  BY Kinds, Zenon DEF Init, ShadowInv
<1> QED
  BY <1>1, NextKeepsShadow, RtcInvHolds, PTL DEF Spec

(* A "date get" that follows a "time set", a "date set" or another          *)
(* "date get" prints the date in DR, however many seconds, midnights        *)
(* included, passed in between: only a "time get" before it makes the date  *)
(* of match_date_cmd an old one.                                            *)
THEOREM DateFresh ==
  Spec => [][cpc = "idle" /\ out.kind \in {"time set", "date set", "date"}
               /\ out' # out /\ out'.kind = "date"
                 => out'.value = HwDate(dr)]_vars
<1> DEFINE A == cpc = "idle" /\ out.kind \in {"time set", "date set", "date"}
                  /\ out' # out /\ out'.kind = "date"
                    => out'.value = HwDate(dr)
<1>1. ASSUME RtcInv, ShadowInv, Next PROVE A
  <2> SUFFICES ASSUME cpc = "idle", out.kind \in Following, out' # out, out'.kind = "date"
               PROVE  out'.value = HwDate(dr)
    BY DEF Following
  <2>1. ASSUME NEW k \in {"none", "syntax error", "time set", "time", "date set"}, NEW v
        PROVE  out' # [kind |-> k, value |-> v]
    <3>1. k # "date"
      BY Zenon
    <3> QED
      BY <3>1, PrintedKind, Zenon
  <2>2. out' # Nothing /\ out' # SyntaxError
    BY <2>1, Zenon DEF Nothing, SyntaxError
  <2>3. PICK l \in Lines : DateShow(l)
    BY <1>1, <2>1, <2>2, Zenon DEF Next, BootStep, Boot, LseEnable, CheckSource, BackupReset,
         SelectSource, EnableRtc, RtcInit, Unprotect, Submit, PinSet, TimeSet, DateSet,
         TimeShow, Reject, CliStep, EnterInitMode, WriteTime, WriteDate,
         ExitInitMode, Tick, Reset, PowerLoss, Restart, cpu
  <2>4. ~locked
    BY <1>1, Zenon DEF ShadowInv
  <2>5. out'.value = DateGet(dr)
    BY <2>3, <2>4, PrintedValue, Zenon DEF DateShow
  <2> QED
    BY <1>1, <2>5, DateGetFields, Zenon DEF RtcInv
<1>2. RtcInv /\ ShadowInv /\ [Next]_vars => [A]_vars
  BY <1>1, Zenon
<1> QED
  BY <1>2, RtcInvHolds, ShadowInvHolds, PTL DEF Spec

(* The date that "date get" prints, old or not, is a date.                  *)
THEOREM PrintedDateValid ==
  Spec => [](out.kind = "date" => out.value \in (0..99) \X (1..12) \X (1..31))
<1>1. ShadowInv => (out.kind = "date" => out.value \in (0..99) \X (1..12) \X (1..31))
  BY Zenon DEF ShadowInv, Dates
<1> QED
  BY <1>1, ShadowInvHolds, PTL
=============================================================================

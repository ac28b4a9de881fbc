----------------------------- MODULE KernelInv -----------------------------
(***************************************************************************)
(* The kernel's lists, locks, times and flags agree with each other: the   *)
(* part of the inductive invariant that says where every task is, which    *)
(* lists it is on and how long it has still to sleep.                      *)
(*                                                                         *)
(* The lemmas need a few facts about natural numbers and finite sets,      *)
(* collected in NumberFacts and proved in KernelProofs: least numbers are  *)
(* how statements about all numbers of ticks are proved.                   *)
(***************************************************************************)
EXTENDS Kernel, TLAPS

-----------------------------------------------------------------------------
(* Numbers and lists *)

(* What is used of the natural numbers and of the number of tasks in a set. *)
NumberFacts ==
  /\ \A T \in SUBSET Nat : T # {} => \E x \in T : \A y \in T : x <= y
  /\ \A S \in SUBSET Tasks : Cardinality(S) \in Nat
  /\ \A S \in SUBSET Tasks : \A R \in SUBSET S : Cardinality(R) <= Cardinality(S)
  /\ \A S, R \in SUBSET Tasks :
       S \intersect R = {} => Cardinality(S \union R) = Cardinality(S) + Cardinality(R)
  /\ \A s \in Seq(Tasks) : IsInjective(s) => Cardinality(Range(s)) = Len(s)
  /\ \A x \in Tasks : Cardinality({x}) = 1
  /\ Cardinality({}) = 0 /\ Cardinality(All) = Cardinality(Tasks) + 1

(* A non-empty set of naturals has a least element. *)
LEMMA LeastNat ==
  ASSUME NumberFacts, NEW T \in SUBSET Nat, T # {}
  PROVE  \E x \in T : \A y \in T : x <= y
  BY DEF NumberFacts

(* The elements of a list, and those of none. *)
LEMMA RangeOf ==
  ASSUME NEW S, NEW s \in Seq(S)
  PROVE  /\ Range(s) \subseteq S
         /\ \A x : x \in Range(s) <=> \E i \in 1 .. Len(s) : s[i] = x
         /\ Range(s) = {} <=> s = <<>>
<1>1. DOMAIN s = 1 .. Len(s) /\ \A i \in 1 .. Len(s) : s[i] \in S
  OBVIOUS
<1>2. \A x : x \in Range(s) <=> \E i \in 1 .. Len(s) : s[i] = x
  BY <1>1 DEF Range
<1>3. s = <<>> <=> Len(s) = 0
  OBVIOUS
<1>4. s # <<>> => s[1] \in Range(s)
  BY <1>2, <1>3
<1>5. s = <<>> => Range(s) = {}
  BY <1>2, <1>3
<1> QED
  BY <1>1, <1>2, <1>4, <1>5

(* The empty list has no elements. *)
LEMMA EmptyRange == Range(<<>>) = {}
  BY DEF Range

(* The list without its first n elements, and those n elements. *)
LEMMA SplitList ==
  ASSUME NEW S, NEW s \in Seq(S), IsInjective(s), NEW n \in 0 .. Len(s)
  PROVE  LET a == SubSeq(s, 1, n)
             b == SubSeq(s, n + 1, Len(s))
         IN  /\ a \in Seq(S) /\ Len(a) = n /\ IsInjective(a)
             /\ b \in Seq(S) /\ Len(b) = Len(s) - n /\ IsInjective(b)
             /\ Range(s) = Range(a) \union Range(b)
             /\ Range(a) \intersect Range(b) = {}
             /\ \A i \in 1 .. n : a[i] = s[i]
             /\ \A i \in 1 .. Len(s) - n : b[i] = s[n + i]
<1> DEFINE a == SubSeq(s, 1, n)
           b == SubSeq(s, n + 1, Len(s))
<1>1. a \in Seq(S) /\ Len(a) = n /\ \A i \in 1 .. n : a[i] = s[i]
  OBVIOUS
<1>2. b \in Seq(S) /\ Len(b) = Len(s) - n /\ \A i \in 1 .. Len(s) - n : b[i] = s[n + i]
  OBVIOUS
<1> HIDE DEF a, b
<1>3. \A i, j \in 1 .. Len(s) : s[i] = s[j] => i = j
  BY DEF IsInjective
<1>4. IsInjective(a) /\ IsInjective(b)
  <2>1. DOMAIN a = 1 .. n /\ DOMAIN b = 1 .. Len(s) - n
    BY <1>1, <1>2
  <2>2. ASSUME NEW i \in 1 .. n, NEW j \in 1 .. n, a[i] = a[j] PROVE i = j
    BY <1>1, <1>3, <2>2
  <2>3. ASSUME NEW i \in 1 .. Len(s) - n, NEW j \in 1 .. Len(s) - n, b[i] = b[j] PROVE i = j
    <3>1. n + i \in 1 .. Len(s) /\ n + j \in 1 .. Len(s) /\ s[n + i] = s[n + j]
      BY <1>2, <2>3
    <3>2. n + i = n + j
      BY <1>3, <3>1
    <3> QED BY <3>2
  <2> QED
    BY <2>1, <2>2, <2>3 DEF IsInjective
<1>5. Range(s) = Range(a) \union Range(b)
  <2>1. ASSUME NEW i \in 1 .. Len(s) PROVE s[i] \in Range(a) \union Range(b)
    <3>1. CASE i <= n
      <4>1. i \in 1 .. n /\ a[i] = s[i]
        BY <1>1, <3>1
      <4> QED
        BY <1>1, <4>1, RangeOf
    <3>2. CASE i > n
      <4>1. i - n \in 1 .. Len(s) - n /\ b[i - n] = s[i]
        BY <1>2, <3>2
      <4> QED
        BY <1>2, <4>1, RangeOf
    <3> QED BY <3>1, <3>2
  <2>2. ASSUME NEW i \in 1 .. n PROVE a[i] \in Range(s)
    BY <1>1, RangeOf
  <2>3. ASSUME NEW i \in 1 .. Len(s) - n PROVE b[i] \in Range(s)
    <3>1. n + i \in 1 .. Len(s)
      OBVIOUS
    <3> QED BY <1>2, <3>1, RangeOf
  <2>4. /\ \A x : x \in Range(s) <=> \E i \in 1 .. Len(s) : s[i] = x
        /\ \A x : x \in Range(a) <=> \E i \in 1 .. n : a[i] = x
        /\ \A x : x \in Range(b) <=> \E i \in 1 .. Len(s) - n : b[i] = x
    BY <1>1, <1>2, RangeOf
  <2> QED
    BY <2>1, <2>2, <2>3, <2>4, Zenon
<1>6. Range(a) \intersect Range(b) = {}
  <2> SUFFICES ASSUME NEW x \in Range(a), x \in Range(b) PROVE FALSE
    OBVIOUS
  <2>1. PICK i \in 1 .. n : a[i] = x
    BY <1>1, RangeOf
  <2>2. PICK j \in 1 .. Len(s) - n : b[j] = x
    BY <1>2, RangeOf
  <2>3. i \in 1 .. Len(s) /\ n + j \in 1 .. Len(s) /\ i # n + j
    OBVIOUS
  <2> QED
    BY <1>1, <1>2, <1>3, <2>1, <2>2, <2>3
<1> QED
  BY <1>1, <1>2, <1>4, <1>5, <1>6 DEF a, b

(* Two lists, one after the other. *)
LEMMA ConcatList ==
  ASSUME NEW S, NEW a \in Seq(S), NEW b \in Seq(S)
  PROVE  /\ a \o b \in Seq(S) /\ Len(a \o b) = Len(a) + Len(b)
         /\ \A i \in 1 .. Len(a) + Len(b) :
              (a \o b)[i] = IF i <= Len(a) THEN a[i] ELSE b[i - Len(a)]
  OBVIOUS

(* The list with x put in place p. *)
InsertedAt(s, x, p) == SubSeq(s, 1, p - 1) \o <<x>> \o SubSeq(s, p, Len(s))

(* An insertion adds one element and shifts those behind it. *)
LEMMA InsertList ==
  ASSUME NEW S, NEW s \in Seq(S), NEW x \in S, NEW p \in 1 .. Len(s) + 1
  PROVE  LET r == InsertedAt(s, x, p)
         IN  /\ r \in Seq(S) /\ Len(r) = Len(s) + 1
             /\ Range(r) = Range(s) \union {x}
             /\ \A i \in 1 .. Len(s) + 1 :
                  r[i] = IF i < p THEN s[i] ELSE IF i = p THEN x ELSE s[i - 1]
<1> DEFINE a == SubSeq(s, 1, p - 1)
           b == SubSeq(s, p, Len(s))
           r == a \o <<x>> \o b
<1>1. a \in Seq(S) /\ Len(a) = p - 1 /\ \A i \in 1 .. p - 1 : a[i] = s[i]
  OBVIOUS
<1>2. b \in Seq(S) /\ Len(b) = Len(s) - p + 1 /\ \A i \in 1 .. Len(s) - p + 1 : b[i] = s[p + i - 1]
  OBVIOUS
<1> HIDE DEF a, b
<1>3. <<x>> \in Seq(S) /\ Len(<<x>>) = 1 /\ <<x>>[1] = x
  OBVIOUS
<1> DEFINE c == a \o <<x>>
<1>4. /\ c \in Seq(S) /\ Len(c) = p
      /\ \A i \in 1 .. p : c[i] = IF i < p THEN s[i] ELSE x
  <2>1. c \in Seq(S) /\ Len(c) = p
    BY <1>1, <1>3
  <2>2. \A i \in 1 .. p : c[i] = IF i <= p - 1 THEN a[i] ELSE <<x>>[i - (p - 1)]
    BY <1>1, <1>3
  <2> QED
    BY <1>1, <2>1, <2>2
<1>c. r = c \o b
  OBVIOUS
<1> HIDE DEF c, r
<1>5. /\ r \in Seq(S) /\ Len(r) = Len(s) + 1
      /\ \A i \in 1 .. Len(s) + 1 : r[i] = IF i <= p THEN c[i] ELSE b[i - p]
  <2>1. Len(c) = p /\ Len(c) + Len(b) = Len(s) + 1
    BY <1>2, <1>4
  <2>2. c \o b \in Seq(S) /\ Len(c \o b) = Len(c) + Len(b)
    BY <1>2, <1>4, ConcatList
  <2>3. \A i \in 1 .. Len(c) + Len(b) : (c \o b)[i] = IF i <= Len(c) THEN c[i] ELSE b[i - Len(c)]
    BY <1>2, <1>4, ConcatList
  <2> QED
    BY <1>c, <2>1, <2>2, <2>3
<1>6. \A i \in 1 .. Len(s) + 1 : r[i] = IF i < p THEN s[i] ELSE IF i = p THEN x ELSE s[i - 1]
  <2> TAKE i \in 1 .. Len(s) + 1
  <2>1. CASE i <= p
    BY <1>4, <1>5, <2>1
  <2>2. CASE i > p
    <3>1. i - p \in 1 .. Len(s) - p + 1
      BY <2>2
    <3>2. r[i] = b[i - p] /\ b[i - p] = s[p + (i - p) - 1] /\ p + (i - p) - 1 = i - 1
      BY <1>2, <1>5, <2>2, <3>1
    <3> QED
      BY <2>2, <3>2
  <2> QED BY <2>1, <2>2
<1>7. Range(r) = Range(s) \union {x}
  <2>1. ASSUME NEW i \in 1 .. Len(s) PROVE s[i] \in Range(r)
    <3>1. \E j \in 1 .. Len(s) + 1 : r[j] = s[i]
      <4>1. CASE i < p
        BY <1>6, <4>1
      <4>2. CASE i >= p
        <5>1. i + 1 \in 1 .. Len(s) + 1 /\ r[i + 1] = s[i]
          BY <1>6, <4>2
        <5> QED BY <5>1
      <4> QED BY <4>1, <4>2
    <3> QED
      BY <1>5, <3>1, RangeOf
  <2>2. x \in Range(r)
    BY <1>5, <1>6, RangeOf
  <2>3. ASSUME NEW i \in 1 .. Len(s) + 1 PROVE r[i] \in Range(s) \union {x}
    <3>1. r[i] = x \/ \E j \in 1 .. Len(s) : r[i] = s[j]
      <4>1. CASE i <= p
        BY <1>6, <4>1
      <4>2. CASE i > p
        <5>1. i - 1 \in 1 .. Len(s) /\ r[i] = s[i - 1]
          BY <1>6, <4>2
        <5> QED BY <5>1
      <4> QED BY <4>1, <4>2
    <3> QED
      BY <3>1, RangeOf
  <2>4. /\ \A y : y \in Range(s) <=> \E i \in 1 .. Len(s) : s[i] = y
        /\ \A y : y \in Range(r) <=> \E i \in 1 .. Len(s) + 1 : r[i] = y
    BY <1>5, RangeOf
  <2> QED
    BY <2>1, <2>2, <2>3, <2>4, Zenon
<1> QED
  BY <1>5, <1>6, <1>7, Zenon DEF r, a, b, InsertedAt

-----------------------------------------------------------------------------
(* Ticks *)

(* Where sleepers are and what is left of their sleep: on the delayed list, *)
(* whose wake times lie ahead, or on the overflow list, whose wake times    *)
(* lie behind and come after the tick count has wrapped.                    *)
TimeOK(k) ==
  /\ k.state \in [All -> Lists] /\ k.left \in [Tasks -> 0 .. MaxDelay]
  /\ k.tick \in 0 .. MaxDelay /\ k.next \in 0 .. MaxDelay
  /\ \A t \in Tasks :
       /\ k.state[t] = "delayed" =>
            wake[t] > k.tick /\ k.left[t] = wake[t] - k.tick /\ k.next <= wake[t]
       /\ k.state[t] = "overflow" =>
            wake[t] < k.tick /\ k.left[t] = wake[t] + TickMod - k.tick
       /\ k.state[t] \in {"ready", "suspended"} => k.left[t] = 0

(* What any number of ticks may do to the lists: readied tasks stay ready, *)
(* waiting ones go on waiting, and a switch is asked for unless every task *)
(* that woke up is no more urgent than the running one.                    *)
Later(a, y, b, z) ==
  /\ \A t \in All : (a[t] = "ready" => b[t] = "ready") /\ (a[t] = "suspended" <=> b[t] = "suspended")
  /\ z \in BOOLEAN /\ (y => z)
  /\ ~z => \A t \in All : b[t] = "ready" /\ a[t] # "ready" =>
                            uxPriority[t] <= uxPriority[pxCurrentTCB]

(* Wake times are tick counts. *)
WakeOK == wake \in [Tasks -> 0 .. MaxDelay]

(* There is a running task, and every task has a priority. *)
RunOK == pxCurrentTCB \in All /\ uxPriority \in [All -> Nat]

(* The constants of the tick count. *)
LEMMA TickFacts ==
  /\ TickMod \in Nat /\ TickMod > 1 /\ MaxDelay = TickMod - 1 /\ MaxPended \in Nat
  /\ Tasks \subseteq All /\ Idle \in All /\ Idle \notin Tasks /\ NoTask \notin All
  BY KernelAssumption DEF MaxDelay, All

(* prvResetNextTaskUnblockTime: no sleeper on the delayed list wakes before *)
(* the time it returns.                                                     *)
LEMMA NextUnblock ==
  ASSUME NumberFacts, WakeOK, NEW st
  PROVE  /\ ResetNextTaskUnblockTime(st) \in 0 .. MaxDelay
         /\ \A t \in Tasks : st[t] = "delayed" => ResetNextTaskUnblockTime(st) <= wake[t]
<1> DEFINE T == {wake[t] : t \in {u \in Tasks : st[u] = "delayed"}}
<1>1. T \subseteq 0 .. MaxDelay /\ T \in SUBSET Nat
  BY TickFacts DEF WakeOK
<1>2. \A t \in Tasks : st[t] = "delayed" => wake[t] \in T
  OBVIOUS
<1> HIDE DEF T
<1>3. CASE T = {}
  <2>1. ResetNextTaskUnblockTime(st) = MaxDelay
    BY <1>3, Zenon DEF ResetNextTaskUnblockTime, T
  <2> QED
    BY <1>2, <1>3, <2>1, TickFacts
<1>4. CASE T # {}
  <2>1. \E x \in T : \A y \in T : x =< y
    BY <1>1, <1>4, LeastNat
  <2>2. Min(T) \in T /\ \A y \in T : Min(T) =< y
    BY <2>1 DEF Min
  <2>3. ResetNextTaskUnblockTime(st) = Min(T)
    BY <1>4, Zenon DEF ResetNextTaskUnblockTime, T
  <2> QED
    BY <1>1, <1>2, <2>2, <2>3
<1> QED
  BY <1>3, <1>4

(* One tick. *)
LEMMA TickKeepsTime ==
  ASSUME NumberFacts, WakeOK, RunOK, NEW k, NEW y \in BOOLEAN, TimeOK(k)
  PROVE  LET r == IncrementTick(k, y)
         IN  TimeOK(r) /\ Later(k.state, y, r.state, r.switch)
<1> DEFINE tick == (k.tick + 1) % TickMod
           st   == IF tick = 0 THEN SwitchDelayedLists(k.state) ELSE k.state
           next == IF tick = 0 THEN ResetNextTaskUnblockTime(st) ELSE k.next
           due  == {t \in Tasks : tick >= next /\ st[t] = "delayed" /\ wake[t] <= tick}
           st2  == [t \in All |-> IF t \in due THEN "ready" ELSE st[t]]
           left2 == [t \in Tasks |-> IF k.left[t] > 0 THEN k.left[t] - 1 ELSE 0]
           next2 == IF tick >= next THEN ResetNextTaskUnblockTime(st2) ELSE next
           r    == IncrementTick(k, y)
<1>1. /\ r.state = st2 /\ r.left = left2 /\ r.tick = tick /\ r.next = next2
      /\ r.switch \in BOOLEAN /\ (y => r.switch)
      /\ ~r.switch => \A t \in due : ~(uxPriority[t] > uxPriority[pxCurrentTCB])
  BY DEF IncrementTick
<1> HIDE DEF r
<1>2. /\ k.state \in [All -> Lists] /\ k.left \in [Tasks -> 0 .. MaxDelay]
      /\ k.tick \in 0 .. MaxDelay /\ k.next \in 0 .. MaxDelay
  BY DEF TimeOK
<1>3. /\ tick \in 0 .. MaxDelay
      /\ tick = IF k.tick = MaxDelay THEN 0 ELSE k.tick + 1
  BY <1>2, TickFacts
<1> HIDE DEF tick
<1>4. /\ st \in [All -> Lists]
      /\ \A t \in All : /\ (k.state[t] = "ready" <=> st[t] = "ready")
                        /\ (k.state[t] = "suspended" <=> st[t] = "suspended")
      /\ tick = 0 => \A t \in Tasks : /\ st[t] = "delayed" <=> k.state[t] = "overflow"
                                      /\ st[t] = "overflow" <=> k.state[t] = "delayed"
      /\ tick # 0 => st = k.state
  BY <1>2, TickFacts DEF SwitchDelayedLists, Lists
<1> HIDE DEF st
<1>5. next \in 0 .. MaxDelay /\ \A t \in Tasks : st[t] = "delayed" => next <= wake[t]
  BY <1>2, <1>4, NextUnblock DEF TimeOK
<1> HIDE DEF next
<1>6. /\ st2 \in [All -> Lists]
      /\ \A t \in All : /\ (st[t] = "ready" => st2[t] = "ready")
                        /\ (st[t] = "suspended" <=> st2[t] = "suspended")
                        /\ st2[t] = "ready" /\ st[t] # "ready" => t \in due
      /\ \A t \in Tasks : /\ st2[t] = "delayed" <=> st[t] = "delayed" /\ t \notin due
                          /\ st2[t] = "overflow" <=> st[t] = "overflow"
  BY <1>4, TickFacts DEF Lists
<1> HIDE DEF st2
<1>7. next2 \in 0 .. MaxDelay /\ \A t \in Tasks : st2[t] = "delayed" => next2 <= wake[t]
  BY <1>5, <1>6, NextUnblock
<1> HIDE DEF next2
<1>8. /\ left2 \in [Tasks -> 0 .. MaxDelay]
      /\ \A t \in Tasks : left2[t] = IF k.left[t] > 0 THEN k.left[t] - 1 ELSE 0
  BY <1>2, TickFacts
<1> HIDE DEF left2
<1>9. ASSUME NEW t \in Tasks
      PROVE  /\ st2[t] = "delayed" => wake[t] > tick /\ left2[t] = wake[t] - tick
             /\ st2[t] = "overflow" => wake[t] < tick /\ left2[t] = wake[t] + TickMod - tick
             /\ st2[t] \in {"ready", "suspended"} => left2[t] = 0
  <2>1. /\ k.state[t] \in Lists /\ wake[t] \in 0 .. MaxDelay
        /\ k.state[t] = "delayed" => wake[t] > k.tick /\ k.left[t] = wake[t] - k.tick
        /\ k.state[t] = "overflow" => wake[t] < k.tick /\ k.left[t] = wake[t] + TickMod - k.tick
        /\ k.state[t] \in {"ready", "suspended"} => k.left[t] = 0
    BY <1>2, TickFacts DEF TimeOK, WakeOK
  <2>2. /\ left2[t] = IF k.left[t] > 0 THEN k.left[t] - 1 ELSE 0
        /\ k.left[t] \in 0 .. MaxDelay
    BY <1>2, <1>8
  <2>3. t \in due <=> tick >= next /\ st[t] = "delayed" /\ wake[t] <= tick
    OBVIOUS
  <2>4. /\ t \in All /\ st2[t] \in Lists
        /\ st[t] = "delayed" => next <= wake[t]
    BY <1>5, <1>6, TickFacts
  <2> HIDE DEF due
  <2>5. CASE tick = 0
    <3>1. k.state[t] # "delayed" /\ k.tick = MaxDelay
      BY <1>2, <1>3, <2>1, <2>5, TickFacts
    <3>2. CASE k.state[t] = "overflow"
      <4>1. st[t] = "delayed" /\ left2[t] = wake[t]
        BY <1>4, <2>1, <2>2, <2>5, <3>1, <3>2, TickFacts
      <4>2. t \in due <=> wake[t] = 0
        BY <1>5, <2>1, <2>3, <2>4, <2>5, <4>1
      <4>3. st2[t] = IF wake[t] = 0 THEN "ready" ELSE "delayed"
        BY <1>6, <2>4, <4>1, <4>2 DEF Lists
      <4> QED
        BY <2>1, <2>5, <4>1, <4>3
    <3>3. CASE k.state[t] \in {"ready", "suspended"}
      <4>1. st2[t] \in {"ready", "suspended"} /\ left2[t] = 0
        BY <1>4, <1>6, <2>1, <2>2, <2>4, <3>3
      <4> QED
        BY <4>1
    <3> QED
      BY <2>1, <3>1, <3>2, <3>3 DEF Lists
  <2>6. CASE tick # 0
    <3>1. st[t] = k.state[t] /\ tick = k.tick + 1
      BY <1>3, <1>4, <2>6
    <3>2. CASE k.state[t] = "delayed"
      <4>1. left2[t] = wake[t] - tick /\ wake[t] >= tick
        BY <1>2, <2>1, <2>2, <3>1, <3>2, TickFacts
      <4>2. t \in due <=> wake[t] = tick
        BY <1>3, <1>5, <2>1, <2>3, <2>4, <3>1, <3>2, <4>1, TickFacts
      <4>3. st2[t] = IF wake[t] = tick THEN "ready" ELSE "delayed"
        BY <1>6, <2>4, <3>1, <3>2, <4>2 DEF Lists
      <4> QED
        BY <1>3, <2>1, <4>1, <4>3, TickFacts
    <3>3. CASE k.state[t] = "overflow"
      <4>1. st2[t] = "overflow"
        BY <1>6, <3>1, <3>3
      <4> QED
        BY <1>2, <1>3, <2>1, <2>2, <3>1, <3>3, <4>1, TickFacts
    <3>4. CASE k.state[t] \in {"ready", "suspended"}
      <4>1. st2[t] \in {"ready", "suspended"} /\ left2[t] = 0
        BY <1>6, <2>1, <2>2, <2>4, <3>1, <3>4
      <4> QED
        BY <4>1
    <3> QED
      BY <2>1, <3>2, <3>3, <3>4 DEF Lists
  <2> QED
    BY <2>5, <2>6
<1>10. TimeOK(r)
  BY <1>1, <1>3, <1>6, <1>7, <1>8, <1>9 DEF TimeOK
<1>11. Later(k.state, y, r.state, r.switch)
  <2>1. ASSUME ~r.switch, NEW t \in All, st2[t] = "ready", k.state[t] # "ready"
        PROVE  uxPriority[t] <= uxPriority[pxCurrentTCB]
    <3>1. t \in due
      BY <1>4, <1>6, <2>1
    <3>2. ~(uxPriority[t] > uxPriority[pxCurrentTCB])
      BY <1>1, <2>1, <3>1
    <3> QED
      BY <3>2 DEF RunOK
  <2>2. \A t \in All : /\ (k.state[t] = "ready" => st2[t] = "ready")
                       /\ (k.state[t] = "suspended" <=> st2[t] = "suspended")
    BY <1>4, <1>6
  <2> QED
    BY <1>1, <2>1, <2>2, Zenon DEF Later
<1> QED
  BY <1>10, <1>11 DEF r

(* Ticks after ticks. *)
LEMMA LaterIsTransitive ==
  ASSUME RunOK, NEW a, NEW b, NEW c, NEW x, NEW y \in BOOLEAN, NEW z,
         Later(a, x, b, y), Later(b, y, c, z)
  PROVE  Later(a, x, c, z)
<1>1. /\ \A t \in All : (a[t] = "ready" => c[t] = "ready") /\ (a[t] = "suspended" <=> c[t] = "suspended")
      /\ z \in BOOLEAN /\ (x => z)
  BY Zenon DEF Later
<1>2. ASSUME ~z, NEW t \in All, c[t] = "ready", a[t] # "ready"
      PROVE  uxPriority[t] <= uxPriority[pxCurrentTCB]
  <2>1. ~y
    BY <1>2, Zenon DEF Later
  <2>2. CASE b[t] = "ready"
    BY <1>2, <2>1, <2>2, Zenon DEF Later
  <2>3. CASE b[t] # "ready"
    BY <1>2, <2>3, Zenon DEF Later
  <2> QED
    BY <2>2, <2>3
<1> QED
  BY <1>1, <1>2, Zenon DEF Later

(* The replay of the pended ticks: ReplayTicks is a recursive function of   *)
(* the number of ticks replayed, which has a value for every number.        *)
ReplayStep(k, yielding, g, n) ==
  IF n = 0 THEN [k EXCEPT !.switch = yielding] ELSE IncrementTick(g[n - 1], g[n - 1].switch)

(* What ReplayTicks computes, one pended tick at a time. *)
LEMMA ReplayDefined ==
  ASSUME NumberFacts, NEW k, NEW y
  PROVE  \E g : g = [n \in 0 .. MaxPended |-> ReplayStep(k, y, g, n)]
<1> DEFINE Sol(m, g) == g = [n \in 0 .. m |-> ReplayStep(k, y, g, n)]
           Bad == {m \in Nat : ~ \E g : Sol(m, g)}
<1>1. SUFFICES Bad = {}
  BY <1>1, TickFacts
<1>2. SUFFICES ASSUME Bad # {} PROVE FALSE
  OBVIOUS
<1>3. PICK m \in Bad : \A n \in Bad : m <= n
  BY <1>2, LeastNat
<1>4. m \in Nat /\ ~ \E g : Sol(m, g)
  OBVIOUS
<1>5. \A n \in Nat : n < m => \E g : Sol(n, g)
  BY <1>3
<1> HIDE DEF Bad
<1>6. CASE m = 0
  <2> DEFINE g == [n \in 0 .. 0 |-> [k EXCEPT !.switch = y]]
  <2>1. g = [n \in 0 .. 0 |-> ReplayStep(k, y, g, n)]
    BY DEF ReplayStep
  <2> QED
    BY <1>4, <1>6, <2>1
<1>7. CASE m > 0
  <2>1. m - 1 \in Nat /\ m - 1 < m
    BY <1>4, <1>7
  <2>2. PICK h : h = [n \in 0 .. m - 1 |-> ReplayStep(k, y, h, n)]
    BY <1>5, <2>1
  <2> DEFINE g == [n \in 0 .. m |-> IF n = m THEN IncrementTick(h[m - 1], h[m - 1].switch) ELSE h[n]]
  <2>3. ASSUME NEW n \in 0 .. m PROVE g[n] = ReplayStep(k, y, g, n)
    <3>1. CASE n = m
      <4>1. g[n] = IncrementTick(h[m - 1], h[m - 1].switch) /\ g[n - 1] = h[m - 1] /\ n # 0
        BY <1>4, <1>7, <3>1
      <4> QED
        BY <3>1, <4>1, Zenon DEF ReplayStep
    <3>2. CASE n # m /\ n # 0
      <4>1. g[n] = h[n] /\ g[n - 1] = h[n - 1] /\ n \in 0 .. m - 1
        BY <1>4, <3>2
      <4>2. h[n] = ReplayStep(k, y, h, n)
        BY <2>2, <4>1, Zenon
      <4> QED
        BY <4>1, <4>2, Zenon DEF ReplayStep
    <3>3. CASE n # m /\ n = 0
      <4>1. g[n] = h[n] /\ n \in 0 .. m - 1
        BY <1>4, <3>3
      <4>2. h[n] = ReplayStep(k, y, h, n)
        BY <2>2, <4>1, Zenon
      <4> QED
        BY <3>3, <4>1, <4>2, Zenon DEF ReplayStep
    <3> QED
      BY <3>1, <3>2, <3>3
  <2>4. g = [n \in 0 .. m |-> g[n]]
    OBVIOUS
  <2> HIDE DEF g
  <2>5. g = [n \in 0 .. m |-> ReplayStep(k, y, g, n)]
    BY <2>3, <2>4, Zenon
  <2> QED
    BY <1>4, <2>5, Zenon
<1> QED
  BY <1>4, <1>6, <1>7

(* xTaskResumeAll's replay of the pended ticks keeps the delayed lists  *)
(* right and asks for a switch whenever a more urgent task woke up:     *)
(* induction over the number of ticks, as the least number for which it *)
(* would fail.                                                          *)
LEMMA ReplayKeepsTime ==
  ASSUME NumberFacts, WakeOK, RunOK, xPendedTicks \in 0 .. MaxPended, NEW y \in BOOLEAN,
         NEW k, TimeOK(k), TimeOK([k EXCEPT !.switch = y]),
         [k EXCEPT !.switch = y].state = k.state, [k EXCEPT !.switch = y].switch = y
  PROVE  LET r == ReplayTicks(k, y)
         IN  TimeOK(r) /\ Later(k.state, y, r.state, r.switch)
<1> DEFINE after == CHOOSE g : g = [n \in 0 .. MaxPended |->
                      IF n = 0 THEN [k EXCEPT !.switch = y]
                      ELSE IncrementTick(g[n - 1], g[n - 1].switch)]
<1>1. ReplayTicks(k, y) = after[xPendedTicks]
  BY Zenon DEF ReplayTicks
<1>2. after = [n \in 0 .. MaxPended |->
                 IF n = 0 THEN [k EXCEPT !.switch = y]
                 ELSE IncrementTick(after[n - 1], after[n - 1].switch)]
  <2>1. PICK h : h = [n \in 0 .. MaxPended |-> ReplayStep(k, y, h, n)]
    BY ReplayDefined, Zenon
  <2>2. h = [n \in 0 .. MaxPended |->
               IF n = 0 THEN [k EXCEPT !.switch = y]
               ELSE IncrementTick(h[n - 1], h[n - 1].switch)]
    BY <2>1, Zenon DEF ReplayStep
  <2> QED
    BY <2>2, Zenon
<1> HIDE DEF after
<1> DEFINE Good(n) == TimeOK(after[n]) /\ Later(k.state, y, after[n].state, after[n].switch)
           Bad == {n \in 0 .. MaxPended : ~Good(n)}
<1>3. SUFFICES Bad = {}
  BY <1>1, <1>3
<1>4. SUFFICES ASSUME Bad # {} PROVE FALSE
  OBVIOUS
<1>5. PICK m \in Bad : \A n \in Bad : m <= n
  <2>1. Bad \in SUBSET Nat
    BY TickFacts
  <2> QED
    BY <1>4, <2>1, LeastNat
<1>6. m \in 0 .. MaxPended /\ ~Good(m)
  OBVIOUS
<1>7. m # 0 => m - 1 \in 0 .. MaxPended /\ Good(m - 1)
  BY <1>5, <1>6, TickFacts
<1> HIDE DEF Bad
<1>8. CASE m = 0
  <2>1. after[m] = [k EXCEPT !.switch = y]
    BY <1>2, <1>6, <1>8, Zenon
  <2>2. Later(k.state, y, k.state, y)
    BY Zenon DEF Later
  <2> QED
    BY <1>6, <2>1, <2>2
<1>9. CASE m # 0
  <2> DEFINE b == after[m - 1]
  <2>1. after[m] = IncrementTick(b, b.switch)
    BY <1>2, <1>6, <1>9, Zenon
  <2>2. TimeOK(b) /\ Later(k.state, y, b.state, b.switch) /\ b.switch \in BOOLEAN
    BY <1>7, <1>9, Zenon DEF Later
  <2> HIDE DEF b
  <2>3. /\ TimeOK(IncrementTick(b, b.switch))
        /\ Later(b.state, b.switch, IncrementTick(b, b.switch).state, IncrementTick(b, b.switch).switch)
    BY <2>2, TickKeepsTime
  <2>4. Later(k.state, y, after[m].state, after[m].switch)
    BY <2>1, <2>2, <2>3, LaterIsTransitive
  <2> QED
    BY <1>6, <2>1, <2>3, <2>4
<1> QED
  BY <1>8, <1>9

(* TimeOK of the kernel's own lists and times. *)
TimeInv ==
  /\ state \in [All -> Lists] /\ left \in [Tasks -> 0 .. MaxDelay]
  /\ wake \in [Tasks -> 0 .. MaxDelay]
  /\ xTickCount \in 0 .. MaxDelay /\ xNextTaskUnblockTime \in 0 .. MaxDelay
  /\ \A t \in Tasks :
       /\ state[t] = "delayed" => /\ wake[t] > xTickCount /\ left[t] = wake[t] - xTickCount
                                  /\ xNextTaskUnblockTime <= wake[t]
       /\ state[t] = "overflow" => /\ wake[t] < xTickCount
                                   /\ left[t] = wake[t] + TickMod - xTickCount
       /\ state[t] \in {"ready", "suspended"} => left[t] = 0

(* Storing the lists and times keeps them right. *)
LEMMA SetTimesKeepsTime ==
  ASSUME WakeOK, NEW k, TimeOK(k), SetTimes(k)
  PROVE  TimeInv'
<1>1. /\ state' = k.state /\ left' = k.left /\ xTickCount' = k.tick
      /\ xNextTaskUnblockTime' = k.next
      /\ wake' = [t \in Tasks |-> IF k.state[t] \in {"delayed", "overflow"} THEN wake[t] ELSE 0]
  BY DEF SetTimes
<1>2. /\ wake' \in [Tasks -> 0 .. MaxDelay]
      /\ \A t \in Tasks : state'[t] \in {"delayed", "overflow"} => wake'[t] = wake[t]
  BY <1>1, TickFacts DEF WakeOK
<1> QED
  BY <1>1, <1>2 DEF TimeOK, TimeInv

(* xTaskIncrementTick outside a suspension. *)
LEMMA TickEffects ==
  ASSUME NumberFacts, TimeInv, RunOK, xYieldPending \in BOOLEAN, uxSchedulerSuspended = 0, Tick
  PROVE  /\ TimeInv' /\ UNCHANGED xPendedTicks
         /\ \E z : Later(state, xYieldPending, state', z) /\ pendsv' = (pendsv \/ z)
<1> DEFINE k == Times(state)
           r == IncrementTick(k, xYieldPending)
<1>1. SetTimes(r) /\ pendsv' = (pendsv \/ r.switch) /\ UNCHANGED xPendedTicks
  BY Zenon DEF Tick
<1>2. TimeOK(k) /\ k.state = state
  BY DEF TimeInv, TimeOK, Times
<1>3. WakeOK
  BY DEF TimeInv, WakeOK
<1> HIDE DEF k
<1>4. TimeOK(r) /\ Later(state, xYieldPending, r.state, r.switch)
  BY <1>2, <1>3, TickKeepsTime
<1> HIDE DEF r
<1>5. state' = r.state
  BY <1>1 DEF SetTimes
<1>6. TimeInv'
  BY <1>1, <1>3, <1>4, SetTimesKeepsTime
<1>7. Later(state, xYieldPending, state', r.switch) /\ pendsv' = (pendsv \/ r.switch)
  BY <1>1, <1>4, <1>5
<1>8. \E z : Later(state, xYieldPending, state', z) /\ pendsv' = (pendsv \/ z)
  <2> WITNESS r.switch
  <2> QED
    BY <1>7
<1> QED
  BY <1>1, <1>6, <1>8

(* Setting the next unblock time leaves the rest alone. *)
LEMMA NextField ==
  ASSUME NEW a, NEW b, NEW c, NEW d, NEW e, NEW x, NEW k,
         k = [state |-> a, left |-> b, tick |-> c, next |-> d, switch |-> e]
  PROVE  [k EXCEPT !.next = x] =
           [state |-> a, left |-> b, tick |-> c, next |-> x, switch |-> e]
  OBVIOUS

(* xTaskResumeAll. *)
Resumed == [t \in All |-> IF t \in Range(pendingReady) THEN "ready" ELSE state[t]]

(* xTaskResumeAll: the woken tasks are made ready, the pended ticks are    *)
(* replayed, and a switch is pended unless the running task is more urgent *)
(* than every task that was woken.                                         *)
LEMMA ResumeEffects ==
  ASSUME NumberFacts, TimeInv, RunOK, xYieldPending \in BOOLEAN, xPendedTicks \in 0 .. MaxPended,
         Range(pendingReady) \subseteq Tasks, \A t \in Range(pendingReady) : state[t] = "suspended",
         ResumeAll
  PROVE  /\ TimeInv' /\ xYieldPending' \in BOOLEAN /\ pendsv' = (pendsv \/ xYieldPending')
         /\ Later(Resumed, xYieldPending, state', xYieldPending')
         /\ ~xYieldPending' => \A t \in Range(pendingReady) :
                                 uxPriority[t] < uxPriority[pxCurrentTCB]
<1> DEFINE moved == Range(pendingReady)
           st    == Resumed
           yield == \/ xYieldPending
                    \/ \E t \in moved : uxPriority[t] >= uxPriority[pxCurrentTCB]
           k0    == [Times(st) EXCEPT !.next = IF moved = {} THEN @
                                               ELSE ResetNextTaskUnblockTime(st)]
           r     == ReplayTicks(k0, yield)
<1>1. SetTimes(r) /\ xYieldPending' = r.switch /\ pendsv' = (pendsv \/ r.switch)
  BY Zenon DEF ResumeAll, Resumed
<1>2. WakeOK
  BY DEF TimeInv, WakeOK
<1> DEFINE next0 == IF moved = {} THEN xNextTaskUnblockTime ELSE ResetNextTaskUnblockTime(st)
<1> DEFINE no == FALSE
<1>3. k0 = [state |-> st, left |-> left, tick |-> xTickCount, next |-> next0, switch |-> no]
  <2> HIDE DEF st
  <2> DEFINE k1 == Times(st)
  <2>1. k1 = [state |-> st, left |-> left, tick |-> xTickCount, next |-> xNextTaskUnblockTime,
              switch |-> no]
    BY DEF Times
  <2> HIDE DEF k1, no
  <2>2. k1.next = xNextTaskUnblockTime
    BY <2>1
  <2>3. k0 = [k1 EXCEPT !.next = next0]
    BY <2>2, Zenon DEF k1
  <2> HIDE DEF next0, k0
  <2> QED
    BY <2>1, <2>3, NextField
<1> HIDE DEF no
<1>4. /\ st \in [All -> Lists]
      /\ \A t \in All : st[t] = IF t \in moved THEN "ready" ELSE state[t]
  BY DEF TimeInv, Resumed, Lists
<1> HIDE DEF k0, st
<1>5. next0 \in 0 .. MaxDelay /\ \A t \in Tasks : st[t] = "delayed" => next0 <= wake[t]
  <2>1. CASE moved = {}
    BY <1>4, <2>1, TickFacts DEF TimeInv
  <2>2. CASE moved # {}
    BY <1>2, <2>2, NextUnblock
  <2> QED
    BY <2>1, <2>2
<1> HIDE DEF next0
<1>6. \A t \in Tasks : /\ st[t] = "delayed" => state[t] = "delayed"
                       /\ st[t] = "overflow" => state[t] = "overflow"
                       /\ st[t] \in {"ready", "suspended"} => state[t] \in {"ready", "suspended"}
  BY <1>4, TickFacts
<1>7. yield \in BOOLEAN
  BY Zenon
<1>8. ~yield => ~xYieldPending /\ \A t \in moved : uxPriority[t] < uxPriority[pxCurrentTCB]
  BY TickFacts DEF RunOK
<1> HIDE DEF yield, moved
<1>9. TimeOK(k0) /\ TimeOK([k0 EXCEPT !.switch = yield])
  BY <1>3, <1>4, <1>5, <1>6 DEF TimeOK, TimeInv
<1>10. /\ [k0 EXCEPT !.switch = yield].state = k0.state /\ [k0 EXCEPT !.switch = yield].switch = yield
       /\ k0.state = st
  BY <1>3
<1>11. TimeOK(r) /\ Later(st, yield, r.state, r.switch)
  BY <1>2, <1>7, <1>9, <1>10, ReplayKeepsTime
<1> HIDE DEF r
<1>12. TimeInv' /\ state' = r.state
  BY <1>1, <1>2, <1>11, SetTimesKeepsTime DEF SetTimes
<1>13. (xYieldPending => yield) /\ (~r.switch => ~yield) /\ r.switch \in BOOLEAN
  BY <1>8, <1>11, Zenon DEF Later
<1>14. Later(st, xYieldPending, state', xYieldPending')
  BY <1>1, <1>11, <1>12, <1>13, Zenon DEF Later
<1> QED
  BY <1>1, <1>8, <1>12, <1>13, <1>14, Zenon DEF st, moved

-----------------------------------------------------------------------------
(* A task's steps *)

(* The steps with the scheduler suspended, those with the queue locked, and *)
(* those on the way to block on a queue.                                    *)
LockSteps == {"locked", "inherit", "insert", "block", "unlock", "unlock_retry"}
(* The steps between vTaskSuspendAll and xTaskResumeAll. *)
SuspSteps == LockSteps \union {"suspended", "resume", "resume_retry", "delay", "sbrk"}
(* The steps only a take goes through. *)
TakeSteps == LockSteps \union {"suspend", "suspended", "resume_retry"}

(* Task t is in a take of queue q. *)
Takes(t, q) == Call(t).op = "take" /\ Call(t).arg = q

(* A task is at a step of the call it is in. *)
StepFits(c, s) ==
  /\ s \in TakeSteps => c.op = "take"
  /\ s = "inherit" => c.arg \in Mutexes
  /\ s = "delay" => c.op = "delay"
  /\ s = "sbrk" => c.op = "sbrk"

(* Every task is at a step of a call of its program. *)
PlaceInv ==
  /\ pc \in [Tasks -> Nat] /\ \A t \in Tasks : pc[t] \in 1 .. Len(Program[t])
  /\ step \in [Tasks -> Steps]
  /\ \A t \in Tasks : StepFits(Call(t), step[t])

(* The constants' types. *)
LEMMA ConstantFacts ==
  /\ NoTask \notin All /\ Tasks \subseteq All /\ NoTask \notin Tasks
  /\ Mutexes \subseteq Queues /\ Priority \in [All -> Nat]
  BY KernelAssumption DEF All

(* A call is one of the firmware's. *)
LEMMA CallArgument ==
  ASSUME PlaceInv, NEW t \in Tasks
  PROVE  /\ Call(t).op = "take" => /\ Call(t).arg \in Queues
                                   /\ Call(t) = [op |-> "take", arg |-> Call(t).arg]
         /\ Call(t).op = "give" => Call(t).arg \in Mutexes
         /\ Call(t).op = "delay" => Call(t).arg \in 1 .. MaxDelay
<1>1. Call(t) \in Calls
  BY KernelAssumption DEF PlaceInv, Call
<1> QED
  BY <1>1 DEF Calls

(* The next call of its program. *)
LEMMA NextCall ==
  ASSUME PlaceInv, NEW t \in Tasks
  PROVE  /\ Next1(t) \in [Tasks -> Nat]
         /\ \A u \in Tasks : Next1(t)[u] \in 1 .. Len(Program[u])
         /\ \A u \in Tasks \ {t} : Next1(t)[u] = pc[u]
<1>1. Len(Program[t]) \in Nat \ {0}
  BY KernelAssumption
<1>2. (pc[t] % Len(Program[t])) + 1 \in 1 .. Len(Program[t])
  BY <1>1 DEF PlaceInv
<1> QED
  BY <1>1, <1>2 DEF PlaceInv, Next1

(* A task's move: it goes to step s of the call it is in, or to its next *)
(* call.                                                                  *)
Moves(t, s) ==
  /\ step' = [step EXCEPT ![t] = s] /\ s \in Steps
  /\ \/ pc' = pc /\ StepFits(Call(t), s)
     \/ pc' = Next1(t) /\ s = "call"

(* A move changes the step and the call of one task only. *)
LEMMA MoveFacts ==
  ASSUME PlaceInv, NEW t \in Tasks, NEW s, Moves(t, s)
  PROVE  /\ PlaceInv'
         /\ step'[t] = s /\ \A u \in Tasks \ {t} : step'[u] = step[u] /\ Call(u)' = Call(u)
         /\ pc' = pc => Call(t)' = Call(t)
<1>1. step'[t] = s /\ step' \in [Tasks -> Steps] /\ \A u \in Tasks \ {t} : step'[u] = step[u]
  BY DEF Moves, PlaceInv
<1>2. /\ pc' \in [Tasks -> Nat] /\ \A u \in Tasks : pc'[u] \in 1 .. Len(Program[u])
      /\ \A u \in Tasks \ {t} : pc'[u] = pc[u]
  BY NextCall, Zenon DEF PlaceInv, Moves
<1>3. \A u \in Tasks \ {t} : Call(u)' = Call(u)
  BY <1>2, Zenon DEF Call
<1>4. pc' = pc => Call(t)' = Call(t)
  BY DEF Call
<1>5. s = "call" => StepFits(Call(t)', s)
  BY DEF StepFits, TakeSteps, LockSteps
<1>6. StepFits(Call(t)', s)
  BY <1>4, <1>5, Zenon DEF Moves
<1>7. \A u \in Tasks : StepFits(Call(u)', step'[u])
  BY <1>1, <1>3, <1>6, Zenon DEF PlaceInv
<1> QED
  BY <1>1, <1>2, <1>3, <1>4, <1>7, Zenon DEF PlaceInv

(* Where each step of a task leads. *)
Goes(t) ==
  \/ Take(t) /\ Moves(t, "call") /\ pc' = Next1(t)
  \/ Take(t) /\ Moves(t, "suspend") /\ pc' = pc
  \/ SuspendAll(t) /\ Moves(t, "suspended") /\ pc' = pc /\ step[t] = "suspend"
  \/ SuspendAll(t) /\ step[t] = "call" /\ pc' = pc /\ \E s \in {"delay", "sbrk"} : Moves(t, s)
  \/ LockQueue(t) /\ Moves(t, "locked") /\ pc' = pc
  \/ IsQueueEmpty(t) /\ pc' = pc /\ \E s \in {"unlock_retry", "inherit", "insert"} : Moves(t, s)
  \/ PriorityInherit(t) /\ Moves(t, "insert") /\ pc' = pc
  \/ PlaceOnEventList(t) /\ Moves(t, "block") /\ pc' = pc
  \/ BlockForEver(t) /\ Moves(t, "unlock") /\ pc' = pc
  \/ UnlockQueue(t) /\ pc' = pc /\ step[t] = "unlock" /\ Moves(t, "resume")
  \/ UnlockQueue(t) /\ pc' = pc /\ step[t] = "unlock_retry" /\ Moves(t, "resume_retry")
  \/ Resume(t) /\ Moves(t, IF xYieldPending' THEN "call" ELSE "yield")
  \/ Yield(t) /\ Moves(t, "call")
  \/ ResumeRetry(t) /\ Moves(t, "call") /\ pc' = pc
  \/ Give(t) /\ Moves(t, "call") /\ pc' = Next1(t)
  \/ AddCurrentTaskToDelayedList(t) /\ Moves(t, "resume") /\ pc' = pc
  \/ SbrkDone(t) /\ Moves(t, "call")

(* Every step of a task moves it where its call goes on. *)
LEMMA TaskGoes ==
  ASSUME PlaceInv, NEW t \in Tasks, TaskStep(t)
  PROVE  Goes(t)
<1>0. step = [step EXCEPT ![t] = step[t]]
  BY DEF PlaceInv
<1>a. \A c : StepFits(c, "call") /\ StepFits(c, "yield") /\ StepFits(c, "resume")
  BY DEF StepFits, TakeSteps, LockSteps
<1>b. \A s \in TakeSteps \ {"inherit"} : \A c : c.op = "take" => StepFits(c, s)
  BY DEF StepFits, TakeSteps, LockSteps
<1>c. StepFits(Call(t), step[t])
  BY DEF PlaceInv
<1>d. step[t] \in TakeSteps => Call(t).op = "take"
  BY <1>c DEF StepFits
<1>e. \A s \in {"delay", "sbrk"} : \A c : c.op = s => StepFits(c, s)
  BY DEF StepFits, TakeSteps, LockSteps
<1>f. \A c : c.op = "take" /\ c.arg \in Mutexes => StepFits(c, "inherit")
  BY DEF StepFits, TakeSteps, LockSteps
<1>1. CASE Take(t)
  <2>1. step[t] = "call" /\ Call(t).op = "take"
    BY <1>1, Zenon DEF Take
  <2>2. \/ step' = [step EXCEPT ![t] = "call"] /\ pc' = Next1(t)
        \/ step' = [step EXCEPT ![t] = "suspend"] /\ pc' = pc
    BY <1>0, <1>1, <2>1, Zenon DEF Take, Goto
  <2>3. StepFits(Call(t), "suspend")
    BY <1>b, <2>1 DEF TakeSteps
  <2> QED
    BY <1>1, <2>2, <2>3, Zenon DEF Goes, Moves, Steps
<1>2. CASE SuspendAll(t)
  <2>1. pc' = pc
    BY <1>2, Zenon DEF SuspendAll
  <2>2. CASE step[t] = "suspend" /\ Goto(t, "suspended")
    <3>1. StepFits(Call(t), "suspended")
      BY <1>b, <1>d, <2>2 DEF TakeSteps
    <3> QED
      BY <1>2, <2>1, <2>2, <3>1, Zenon DEF Goes, Moves, Steps, Goto
  <2>3. CASE step[t] = "call" /\ Call(t).op \in {"delay", "sbrk"} /\ Goto(t, Call(t).op)
    <3>1. PICK s \in {"delay", "sbrk"} : s = Call(t).op
      BY <2>3
    <3>2. StepFits(Call(t), s) /\ s \in Steps
      BY <1>e, <3>1, Zenon DEF Steps
    <3>3. Moves(t, s)
      BY <2>1, <2>3, <3>1, <3>2, Zenon DEF Moves, Goto
    <3> QED
      BY <1>2, <2>1, <2>3, <3>3, Zenon DEF Goes
  <2> QED
    BY <1>2, <2>2, <2>3, Zenon DEF SuspendAll
<1>3. CASE IsQueueEmpty(t)
  <2> DEFINE q == Call(t).arg
             s == IF uxMessagesWaiting[q] > 0 THEN "unlock_retry"
                  ELSE IF q \in Mutexes THEN "inherit" ELSE "insert"
  <2>1. step' = [step EXCEPT ![t] = s] /\ pc' = pc /\ step[t] = "locked"
    BY <1>3, Zenon DEF IsQueueEmpty, Goto
  <2>2. Call(t).op = "take"
    BY <1>d, <2>1 DEF TakeSteps, LockSteps
  <2>3. s \in {"unlock_retry", "inherit", "insert"} /\ (s = "inherit" => Call(t).arg \in Mutexes)
    BY Zenon
  <2> HIDE DEF s, q
  <2>4. StepFits(Call(t), s) /\ s \in Steps
    BY <1>b, <1>f, <2>2, <2>3 DEF TakeSteps, LockSteps, Steps
  <2> QED
    BY <1>3, <2>1, <2>3, <2>4, Zenon DEF Goes, Moves
<1>4. CASE LockQueue(t)
  <2>1. step' = [step EXCEPT ![t] = "locked"] /\ pc' = pc /\ step[t] = "suspended"
    BY <1>4, Zenon DEF LockQueue, Goto
  <2>2. StepFits(Call(t), "locked") /\ "locked" \in Steps
    BY <1>b, <1>d, <2>1 DEF TakeSteps, LockSteps, Steps
  <2> QED
    BY <1>4, <2>1, <2>2, Zenon DEF Goes, Moves
<1>5. CASE PriorityInherit(t)
  <2>1. step' = [step EXCEPT ![t] = "insert"] /\ pc' = pc /\ step[t] = "inherit"
    BY <1>5, Zenon DEF PriorityInherit, Goto
  <2>2. StepFits(Call(t), "insert") /\ "insert" \in Steps
    BY <1>b, <1>d, <2>1 DEF TakeSteps, LockSteps, Steps
  <2> QED
    BY <1>5, <2>1, <2>2, Zenon DEF Goes, Moves
<1>6. CASE PlaceOnEventList(t)
  <2>1. step' = [step EXCEPT ![t] = "block"] /\ pc' = pc /\ step[t] = "insert"
    BY <1>6, Zenon DEF PlaceOnEventList, Goto
  <2>2. StepFits(Call(t), "block") /\ "block" \in Steps
    BY <1>b, <1>d, <2>1 DEF TakeSteps, LockSteps, Steps
  <2> QED
    BY <1>6, <2>1, <2>2, Zenon DEF Goes, Moves
<1>7. CASE BlockForEver(t)
  <2>1. step' = [step EXCEPT ![t] = "unlock"] /\ pc' = pc /\ step[t] = "block"
    BY <1>7, Zenon DEF BlockForEver, Goto
  <2>2. StepFits(Call(t), "unlock") /\ "unlock" \in Steps
    BY <1>b, <1>d, <2>1 DEF TakeSteps, LockSteps, Steps
  <2> QED
    BY <1>7, <2>1, <2>2, Zenon DEF Goes, Moves
<1>8. CASE UnlockQueue(t)
  <2>1. /\ pc' = pc
        /\ \/ step[t] = "unlock" /\ step' = [step EXCEPT ![t] = "resume"]
           \/ step[t] = "unlock_retry" /\ step' = [step EXCEPT ![t] = "resume_retry"]
    BY <1>8, Zenon DEF UnlockQueue, Goto
  <2>2. /\ step[t] = "unlock_retry" => StepFits(Call(t), "resume_retry")
        /\ "resume" \in Steps /\ "resume_retry" \in Steps
    BY <1>b, <1>d DEF TakeSteps, LockSteps, Steps
  <2> QED
    BY <1>8, <1>a, <2>1, <2>2, Zenon DEF Goes, Moves
<1>9. CASE Resume(t) \/ Yield(t) \/ ResumeRetry(t) \/ SbrkDone(t)
  <2>0. "call" \in Steps /\ "yield" \in Steps
    BY DEF Steps
  <2>1. CASE Resume(t)
    <3> DEFINE s == IF xYieldPending' THEN "call" ELSE "yield"
    <3>1. step' = [step EXCEPT ![t] = s] /\ pc' \in {pc, Next1(t)} /\ (pc' # pc => s = "call")
      BY <2>1, Zenon DEF Resume, Goto
    <3>2. StepFits(Call(t), s) /\ s \in Steps
      BY <1>a, <2>0, Zenon
    <3>3. Moves(t, s)
      BY <3>1, <3>2, Zenon DEF Moves
    <3> QED
      BY <2>1, <3>3, Zenon DEF Goes
  <2>2. CASE Yield(t) \/ ResumeRetry(t) \/ SbrkDone(t)
    <3>1. step' = [step EXCEPT ![t] = "call"] /\ pc' \in {pc, Next1(t)}
      BY <2>2, Zenon DEF Yield, ResumeRetry, SbrkDone, Goto
    <3>2. Moves(t, "call")
      BY <1>a, <2>0, <3>1, Zenon DEF Moves
    <3> QED
      BY <2>2, <3>2, Zenon DEF Goes, ResumeRetry
  <2> QED
    BY <1>9, <2>1, <2>2
<1>10. CASE Give(t)
  <2>1. step' = [step EXCEPT ![t] = "call"] /\ pc' = Next1(t)
    BY <1>0, <1>10, Zenon DEF Give
  <2> QED
    BY <1>10, <2>1, Zenon DEF Goes, Moves, Steps
<1>11. CASE AddCurrentTaskToDelayedList(t)
  <2>1. step' = [step EXCEPT ![t] = "resume"] /\ pc' = pc
    BY <1>11, Zenon DEF AddCurrentTaskToDelayedList, Goto
  <2> QED
    BY <1>11, <1>a, <2>1, Zenon DEF Goes, Moves, Steps
<1> QED
  BY <1>1, <1>2, <1>3, <1>4, <1>5, <1>6, <1>7, <1>8, <1>9, <1>10, <1>11, Zenon DEF TaskStep

-----------------------------------------------------------------------------
(* Event lists *)

(* A list without its head. *)
LEMMA TailList ==
  ASSUME NEW S, NEW s \in Seq(S), IsInjective(s), s # <<>>
  PROVE  /\ Head(s) \in S /\ Head(s) = s[1] /\ Len(s) \in Nat /\ Len(s) >= 1
         /\ Tail(s) \in Seq(S) /\ Len(Tail(s)) = Len(s) - 1 /\ IsInjective(Tail(s))
         /\ \A i \in 1 .. Len(s) - 1 : Tail(s)[i] = s[i + 1]
         /\ Range(s) = {Head(s)} \union Range(Tail(s)) /\ Head(s) \notin Range(Tail(s))
<1>1. /\ Head(s) \in S /\ Head(s) = s[1] /\ Tail(s) \in Seq(S) /\ Len(Tail(s)) = Len(s) - 1
      /\ Len(s) \in Nat /\ Len(s) >= 1
      /\ \A i \in 1 .. Len(s) - 1 : Tail(s)[i] = s[i + 1]
  OBVIOUS
<1>2. DOMAIN s = 1 .. Len(s) /\ DOMAIN Tail(s) = 1 .. Len(s) - 1
  BY <1>1
<1>3. IsInjective(Tail(s))
  <2> SUFFICES ASSUME NEW i \in 1 .. Len(s) - 1, NEW j \in 1 .. Len(s) - 1, Tail(s)[i] = Tail(s)[j]
               PROVE  i = j
    BY <1>2 DEF IsInjective
  <2>1. s[i + 1] = s[j + 1]
    BY <1>1
  <2>2. i + 1 = j + 1
    BY <1>1, <1>2, <2>1 DEF IsInjective
  <2> QED
    BY <2>2
<1>4. \A x : x \in Range(s) <=> \E i \in 1 .. Len(s) : s[i] = x
  BY RangeOf
<1>5. \A x : x \in Range(Tail(s)) <=> \E i \in 1 .. Len(s) - 1 : Tail(s)[i] = x
  BY <1>1, RangeOf
<1> DEFINE h == Head(s)
           r == Tail(s)
<1> HIDE DEF h, r
<1>6. ASSUME NEW x PROVE x \in Range(s) <=> x = Head(s) \/ x \in Range(Tail(s))
  <2>1. ASSUME x \in Range(s) PROVE x = Head(s) \/ x \in Range(Tail(s))
    <3>1. PICK i \in 1 .. Len(s) : s[i] = x
      BY <1>4, <2>1
    <3>2. CASE i = 1
      BY <1>1, <3>1, <3>2
    <3>3. CASE i # 1
      <4>1. i - 1 \in 1 .. Len(s) - 1 /\ (i - 1) + 1 = i
        BY <1>1, <3>3
      <4>2. Tail(s)[i - 1] = x
        BY <1>1, <3>1, <4>1
      <4> QED
        BY <1>5, <4>1, <4>2
    <3> QED
      BY <3>2, <3>3
  <2>2. ASSUME x \in Range(Tail(s)) PROVE x \in Range(s)
    <3>1. PICK i \in 1 .. Len(s) - 1 : Tail(s)[i] = x
      BY <1>5, <2>2
    <3>2. i + 1 \in 1 .. Len(s) /\ s[i + 1] = x
      BY <1>1, <3>1
    <3> QED
      BY <1>4, <3>2
  <2>3. Head(s) \in Range(s)
    BY <1>1, <1>4
  <2> QED
    BY <2>1, <2>2, <2>3
<1>7. Head(s) \notin Range(Tail(s))
  <2> SUFFICES ASSUME NEW i \in 1 .. Len(s) - 1, Tail(s)[i] = Head(s) PROVE FALSE
    BY <1>5
  <2>1. s[i + 1] = s[1] /\ i + 1 \in 1 .. Len(s) /\ 1 \in 1 .. Len(s)
    BY <1>1
  <2>2. i + 1 = 1
    BY <1>2, <2>1 DEF IsInjective
  <2> QED
    BY <2>2
<1>8. Range(s) = {Head(s)} \union Range(Tail(s))
  BY <1>6, Zenon
<1> QED
  BY <1>1, <1>3, <1>7, <1>8, Zenon

(* The elements of two lists, one after the other. *)
LEMMA AppendRange ==
  ASSUME NEW S, NEW a \in Seq(S), NEW b \in Seq(S)
  PROVE  a \o b \in Seq(S) /\ Range(a \o b) = Range(a) \union Range(b)
<1> DEFINE c == a \o b
<1>1. /\ c \in Seq(S) /\ Len(c) = Len(a) + Len(b) /\ Len(a) \in Nat /\ Len(b) \in Nat
      /\ \A i \in 1 .. Len(a) : c[i] = a[i]
      /\ \A i \in 1 .. Len(b) : c[Len(a) + i] = b[i]
  OBVIOUS
<1> HIDE DEF c
<1>2. /\ \A x : x \in Range(a) <=> \E i \in 1 .. Len(a) : a[i] = x
      /\ \A x : x \in Range(b) <=> \E i \in 1 .. Len(b) : b[i] = x
      /\ \A x : x \in Range(c) <=> \E i \in 1 .. Len(c) : c[i] = x
  BY <1>1, RangeOf
<1>3. ASSUME NEW x PROVE x \in Range(c) <=> x \in Range(a) \/ x \in Range(b)
  <2>1. ASSUME x \in Range(c) PROVE x \in Range(a) \/ x \in Range(b)
    <3>1. PICK i \in 1 .. Len(c) : c[i] = x
      BY <1>2, <2>1
    <3>2. CASE i <= Len(a)
      <4>1. i \in 1 .. Len(a) /\ a[i] = x
        BY <1>1, <3>1, <3>2
      <4> QED
        BY <1>2, <4>1
    <3>3. CASE i > Len(a)
      <4>1. i - Len(a) \in 1 .. Len(b) /\ Len(a) + (i - Len(a)) = i
        BY <1>1, <3>3
      <4>2. b[i - Len(a)] = x
        BY <1>1, <3>1, <4>1
      <4> QED
        BY <1>2, <4>1, <4>2
    <3> QED
      BY <1>1, <3>2, <3>3
  <2>2. ASSUME x \in Range(a) PROVE x \in Range(c)
    <3>1. PICK i \in 1 .. Len(a) : a[i] = x
      BY <1>2, <2>2
    <3>2. i \in 1 .. Len(c) /\ c[i] = x
      BY <1>1, <3>1
    <3> QED
      BY <1>2, <3>2
  <2>3. ASSUME x \in Range(b) PROVE x \in Range(c)
    <3>1. PICK i \in 1 .. Len(b) : b[i] = x
      BY <1>2, <2>3
    <3>2. Len(a) + i \in 1 .. Len(c) /\ c[Len(a) + i] = x
      BY <1>1, <3>1
    <3> QED
      BY <1>2, <3>2
  <2> QED
    BY <2>1, <2>2, <2>3
<1>4. Range(c) = Range(a) \union Range(b)
  BY <1>3, Zenon
<1> QED
  BY <1>1, <1>4 DEF c

(* The place vListInsert finds: behind all items as urgent as the new one, *)
(* before one that is less urgent.                                         *)
LEMMA InsertPlace ==
  ASSUME NumberFacts, NEW s \in Seq(Tasks), NEW t \in Tasks, uxPriority \in [All -> Nat]
  PROVE  \E p \in 1 .. Len(s) + 1 :
           /\ ListInsert(s, t) = InsertedAt(s, t, p)
           /\ \A j \in 1 .. p - 1 : uxPriority[s[j]] >= uxPriority[t]
           /\ p <= Len(s) => uxPriority[s[p]] < uxPriority[t]
<1> DEFINE Fits(i) == /\ \A j \in 1 .. i - 1 : uxPriority[s[j]] >= uxPriority[t]
                      /\ i <= Len(s) => uxPriority[s[i]] < uxPriority[t]
           Stop == {i \in 1 .. Len(s) + 1 : i <= Len(s) => uxPriority[s[i]] < uxPriority[t]}
<1>0. Len(s) \in Nat /\ \A i \in 1 .. Len(s) : s[i] \in All
  BY TickFacts
<1>1. Stop \in SUBSET Nat /\ Len(s) + 1 \in Stop
  BY <1>0
<1>2. PICK p \in Stop : \A y \in Stop : p <= y
  BY <1>1, LeastNat
<1>3. p \in 1 .. Len(s) + 1 /\ (p <= Len(s) => uxPriority[s[p]] < uxPriority[t])
  BY <1>2
<1>4. ASSUME NEW j \in 1 .. p - 1 PROVE uxPriority[s[j]] >= uxPriority[t]
  <2>1. j \notin Stop /\ j \in 1 .. Len(s)
    BY <1>0, <1>2, <1>3
  <2>2. ~ (uxPriority[s[j]] < uxPriority[t])
    BY <1>0, <2>1
  <2>3. uxPriority[s[j]] \in Nat /\ uxPriority[t] \in Nat
    BY <1>0, <2>1, TickFacts
  <2> QED
    BY <2>2, <2>3
<1>5. \E i \in 1 .. Len(s) + 1 : Fits(i)
  BY <1>3, <1>4
<1> DEFINE place == CHOOSE i \in 1 .. Len(s) + 1 : Fits(i)
<1>6. place \in 1 .. Len(s) + 1 /\ Fits(place)
  <2> HIDE DEF Fits
  <2> QED
    BY <1>5, Zenon
<1>7. ListInsert(s, t) = InsertedAt(s, t, place)
  BY Zenon DEF ListInsert, InsertedAt
<1> HIDE DEF place
<1> QED
  BY <1>6, <1>7, Zenon

(* A task that is not on the list is put on it once. *)
LEMMA InsertInjective ==
  ASSUME NumberFacts, NEW s \in Seq(Tasks), NEW t \in Tasks, uxPriority \in [All -> Nat],
         IsInjective(s), t \notin Range(s)
  PROVE  /\ ListInsert(s, t) \in Seq(Tasks) /\ IsInjective(ListInsert(s, t))
         /\ Range(ListInsert(s, t)) = Range(s) \union {t}
<1>1. PICK p \in 1 .. Len(s) + 1 :
        ListInsert(s, t) = InsertedAt(s, t, p)
  BY InsertPlace
<1> DEFINE r == ListInsert(s, t)
<1>2. /\ r \in Seq(Tasks) /\ Len(r) = Len(s) + 1 /\ Range(r) = Range(s) \union {t}
      /\ \A i \in 1 .. Len(s) + 1 : r[i] = IF i < p THEN s[i] ELSE IF i = p THEN t ELSE s[i - 1]
  <2> DEFINE q == InsertedAt(s, t, p)
  <2>1. q \in Seq(Tasks) /\ Len(q) = Len(s) + 1
    BY InsertList
  <2>2. Range(q) = Range(s) \union {t}
    BY InsertList
  <2>3. \A i \in 1 .. Len(s) + 1 : q[i] = IF i < p THEN s[i] ELSE IF i = p THEN t ELSE s[i - 1]
    BY InsertList
  <2>4. r = q
    BY <1>1
  <2> QED
    BY <2>1, <2>2, <2>3, <2>4, Zenon
<1> HIDE DEF r
<1>3. Len(s) \in Nat /\ DOMAIN r = 1 .. Len(s) + 1 /\ DOMAIN s = 1 .. Len(s)
  BY <1>2
<1>4. \A i \in 1 .. Len(s) : s[i] # t
  BY RangeOf
<1>5. ASSUME NEW i \in 1 .. Len(s) + 1, NEW j \in 1 .. Len(s) + 1, i < j PROVE r[i] # r[j]
  <2>1. \A m, n \in 1 .. Len(s) : s[m] = s[n] => m = n
    BY <1>3 DEF IsInjective
  <2>2. CASE j < p
    BY <1>2, <1>3, <1>5, <2>1, <2>2
  <2>3. CASE j = p
    <3>1. r[j] = t /\ r[i] = s[i] /\ i \in 1 .. Len(s)
      BY <1>2, <1>3, <1>5, <2>3
    <3> QED
      BY <1>4, <3>1
  <2>4. CASE j > p /\ i = p
    <3>1. r[i] = t /\ r[j] = s[j - 1] /\ j - 1 \in 1 .. Len(s)
      BY <1>2, <1>3, <1>5, <2>4
    <3> QED
      BY <1>4, <3>1
  <2>5. CASE j > p /\ i < p
    <3>1. r[i] = s[i] /\ r[j] = s[j - 1] /\ j - 1 \in 1 .. Len(s) /\ i \in 1 .. Len(s) /\ i # j - 1
      BY <1>2, <1>3, <1>5, <2>5
    <3> QED
      BY <2>1, <3>1
  <2>6. CASE j > p /\ i > p
    <3>1. r[i] = s[i - 1] /\ r[j] = s[j - 1] /\ j - 1 \in 1 .. Len(s) /\ i - 1 \in 1 .. Len(s)
          /\ i - 1 # j - 1
      BY <1>2, <1>3, <1>5, <2>6
    <3> QED
      BY <2>1, <3>1
  <2> QED
    BY <1>3, <2>2, <2>3, <2>4, <2>5, <2>6
<1>6. IsInjective(r)
  BY <1>3, <1>5 DEF IsInjective
<1> QED
  BY <1>2, <1>6 DEF r

-----------------------------------------------------------------------------
(* The invariant *)

(* A mutex is free exactly when it has no holder, and only holders have    *)
(* borrowed a priority.                                                    *)
HolderInv ==
  /\ uxPriority \in [All -> Nat]
  /\ xMutexHolder \in [Mutexes -> Tasks \union {NoTask}]
  /\ uxMessagesWaiting \in [Queues -> Int]
  /\ \A q \in Queues : uxMessagesWaiting[q] \in 0 .. Length[q]
  /\ \A m \in Mutexes : uxMessagesWaiting[m] = IF xMutexHolder[m] = NoTask THEN 1 ELSE 0
  /\ OnlyHoldersRaised

(* Lists, lock counts and flags. *)
ListInv ==
  /\ waiting \in [Queues -> Seq(Tasks)] /\ \A q \in Queues : IsInjective(waiting[q])
  /\ pendingReady \in Seq(Tasks)
  /\ cTxLock \in [Queues -> Int]
  /\ \A q \in Queues : cTxLock[q] \in -1 .. Cardinality(All)
  /\ \A m \in Mutexes : cTxLock[m] <= 0
  /\ xYieldPending \in BOOLEAN /\ pendsv \in BOOLEAN
  /\ xPendedTicks \in 0 .. MaxPended

(* Only the running task suspends the scheduler, which holds back woken     *)
(* tasks until it resumes; and the running task is ready, unless it has     *)
(* just put itself to sleep or a switch is pended.                          *)
SchedInv ==
  /\ pxCurrentTCB \in All /\ uxSchedulerSuspended \in {0, 1}
  /\ \A t \in Tasks : step[t] \in SuspSteps <=> uxSchedulerSuspended = 1 /\ t = pxCurrentTCB
  /\ uxSchedulerSuspended = 1 =>
       /\ pxCurrentTCB \in Tasks
       /\ step[pxCurrentTCB] \notin {"unlock", "resume"} => state[pxCurrentTCB] = "ready"
  /\ uxSchedulerSuspended = 0 =>
       /\ pendingReady = <<>>
       /\ \/ pendsv \/ state[pxCurrentTCB] = "ready"
          \/ pxCurrentTCB \in Tasks /\ step[pxCurrentTCB] = "yield"

(* A queue is locked by the running task, on its way to block on it. *)
LockInv ==
  \A q \in Queues :
    cTxLock[q] # -1 <=> /\ pxCurrentTCB \in Tasks /\ step[pxCurrentTCB] \in LockSteps
                        /\ Takes(pxCurrentTCB, q)

(* The event lists, xPendingReadyList and the state lists agree. *)
LinkOK(t) ==
  /\ \A q \in Queues : t \in Range(waiting[q]) =>
       /\ Takes(t, q) /\ t \notin Range(pendingReady)
       /\ \/ step[t] = "block" /\ state[t] = "ready"
          \/ step[t] \in {"unlock", "resume", "yield", "call"} /\ state[t] = "suspended"
  /\ t \in Range(pendingReady) =>
       step[t] \in {"resume", "yield", "call"} /\ state[t] = "suspended"
  /\ step[t] = "block" => t \in Range(waiting[Call(t).arg])
  /\ state[t] \in {"delayed", "overflow"} => step[t] \in {"resume", "yield", "call"}

(* For every task. *)
LinkInv == \A t \in Tasks : LinkOK(t)

(* The invariant about places, lists, locks, times and flags. *)
Base == PlaceInv /\ HolderInv /\ ListInv /\ SchedInv /\ LockInv /\ LinkInv /\ TimeInv

(* There is at least the idle task. *)
LEMMA AllFinite ==
  ASSUME NumberFacts
  PROVE  Cardinality(All) \in Nat /\ Cardinality(All) >= 1
<1>1. Cardinality(Tasks) \in Nat /\ Cardinality(All) = Cardinality(Tasks) + 1
  BY DEF NumberFacts
<1> QED
  BY <1>1

(* It holds when the scheduler starts. *)
LEMMA InitBase ==
  ASSUME NumberFacts, Init
  PROVE  Base
<1>1. PlaceInv
  <2>1. \A t \in Tasks : 1 \in 1 .. Len(Program[t])
    BY KernelAssumption
  <2>2. \A t \in Tasks : step[t] = "call" /\ pc[t] = 1
    BY DEF Init
  <2>3. \A t \in Tasks : StepFits(Call(t), step[t])
    BY <2>2 DEF StepFits, TakeSteps, LockSteps
  <2> QED
    BY <2>1, <2>3 DEF Init, PlaceInv, Steps
<1>2. HolderInv
  <2>1. \A q \in Queues : Length[q] \in Nat \ {0}
    BY KernelAssumption
  <2> QED
    BY <2>1, KernelAssumption DEF Init, HolderInv, OnlyHoldersRaised, All
<1>3. ListInv
  <2>1. <<>> \in Seq(Tasks) /\ IsInjective(<<>>)
    BY DEF IsInjective
  <2>2. waiting \in [Queues -> Seq(Tasks)] /\ \A q \in Queues : waiting[q] = <<>>
    BY <2>1 DEF Init
  <2>3. cTxLock \in [Queues -> Int] /\ \A q \in Queues : cTxLock[q] = -1
    BY DEF Init
  <2> QED
    <3>1. pendingReady \in Seq(Tasks) /\ xYieldPending \in BOOLEAN /\ pendsv \in BOOLEAN
      BY <2>1, Zenon DEF Init
    <3>2. xPendedTicks \in 0 .. MaxPended
      BY TickFacts DEF Init
    <3>3. /\ \A q \in Queues : cTxLock[q] \in -1 .. Cardinality(All)
          /\ \A m \in Mutexes : cTxLock[m] <= 0
      BY <2>3, AllFinite, ConstantFacts
    <3>4. \A q \in Queues : IsInjective(waiting[q])
      BY <2>1, <2>2, Zenon
    <3> QED
      BY <2>2, <2>3, <3>1, <3>2, <3>3, <3>4, Zenon DEF ListInv
<1>4. SchedInv
  <2>1. \A t \in Tasks : step[t] = "call"
    BY DEF Init
  <2> QED
    BY <2>1 DEF Init, SchedInv, SuspSteps, LockSteps
<1>5. LockInv
  BY DEF Init, LockInv, LockSteps
<1>6. LinkInv
  <2>1. /\ \A q \in Queues : Range(waiting[q]) = {}
        /\ Range(pendingReady) = {}
    BY EmptyRange DEF Init
  <2>2. \A t \in Tasks : step[t] = "call" /\ state[t] = "ready"
    BY TickFacts DEF Init
  <2> QED
    BY <2>1, <2>2 DEF LinkInv, LinkOK
<1>7. TimeInv
  BY TickFacts DEF Init, TimeInv, Lists
<1> QED
  BY <1>1, <1>2, <1>3, <1>4, <1>5, <1>6, <1>7 DEF Base

(* The running task about to take a step. *)
LEMMA Running ==
  ASSUME NumberFacts, Base, NEW t \in Tasks, t = pxCurrentTCB, ~pendsv
  PROVE  /\ step[t] \in SuspSteps => uxSchedulerSuspended = 1
         /\ step[t] \notin SuspSteps => uxSchedulerSuspended = 0 /\ pendingReady = <<>>
         /\ step[t] \notin {"unlock", "resume", "yield"} => state[t] = "ready"
  BY DEF Base, SchedInv

(* What SchedInv asks of the running task's step. *)
LEMMA SchedKept ==
  ASSUME PlaceInv, SchedInv, NEW t \in Tasks, t = pxCurrentTCB, NEW s, Moves(t, s),
         pxCurrentTCB' = pxCurrentTCB,
         s \in SuspSteps =>
           /\ uxSchedulerSuspended' = 1
           /\ s \notin {"unlock", "resume"} => state'[t] = "ready",
         s \notin SuspSteps =>
           /\ uxSchedulerSuspended' = 0 /\ pendingReady' = <<>>
           /\ pendsv' \/ state'[t] = "ready" \/ s = "yield"
  PROVE  SchedInv'
<1>1. step'[t] = s /\ \A u \in Tasks \ {t} : step'[u] = step[u]
  BY MoveFacts
<1>2. \A u \in Tasks \ {t} : step'[u] \notin SuspSteps
  BY <1>1 DEF SchedInv
<1> QED
  BY <1>1, <1>2, ConstantFacts DEF SchedInv

(* A step that neither locks nor unlocks a queue. *)
LEMMA LockKept ==
  ASSUME PlaceInv, LockInv, NEW t \in Tasks, t = pxCurrentTCB, NEW s, Moves(t, s),
         pxCurrentTCB' = pxCurrentTCB, cTxLock' = cTxLock,
         s \in LockSteps <=> step[t] \in LockSteps, s \in LockSteps => pc' = pc
  PROVE  LockInv'
<1>1. step'[t] = s /\ (pc' = pc => Call(t)' = Call(t))
  BY MoveFacts
<1> QED
  BY <1>1, Zenon DEF LockInv, Takes

(* Nothing changes for task u. *)
LEMMA LinkSame ==
  ASSUME PlaceInv, NEW u \in Tasks, LinkOK(u), step'[u] = step[u], state'[u] = state[u],
         Call(u)' = Call(u),
         \A q \in Queues : u \in Range(waiting'[q]) <=> u \in Range(waiting[q]),
         u \in Range(pendingReady') <=> u \in Range(pendingReady)
  PROVE  LinkOK(u)'
<1>1. step[u] = "block" => Call(u).arg \in Queues
  BY CallArgument DEF PlaceInv, StepFits, TakeSteps, LockSteps
<1> QED
  BY <1>1, Zenon DEF LinkOK, Takes

(* A ready task that goes on, or one that has put itself to sleep and now  *)
(* yields.                                                                 *)
LEMMA LinkQuiet ==
  ASSUME PlaceInv, LinkInv, NEW t \in Tasks, NEW s, Moves(t, s),
         UNCHANGED <<waiting, pendingReady, state>>,
         \/ state[t] = "ready" /\ step[t] # "block" /\ s # "block"
         \/ step[t] = "yield" /\ s = "call" /\ (Call(t).op = "take" => pc' = pc)
  PROVE  LinkInv'
<1>1. /\ step'[t] = s /\ \A u \in Tasks \ {t} : step'[u] = step[u] /\ Call(u)' = Call(u)
      /\ pc' = pc => Call(t)' = Call(t)
  BY MoveFacts
<1>2. \A u \in Tasks \ {t} : LinkOK(u)'
  BY <1>1, LinkSame, Zenon DEF LinkInv
<1>3. LinkOK(t)'
  BY <1>1 DEF LinkInv, LinkOK, Takes
<1> QED
  BY <1>2, <1>3, Zenon DEF LinkInv

-----------------------------------------------------------------------------
(* What a task's steps and interrupts keep of it *)

(* The parts of the invariant that depend on more than the queues' *)
(* contents.                                                       *)
Rest == ListInv /\ SchedInv /\ LockInv /\ LinkInv /\ TimeInv

(* Steps of a ready task that leave all lists alone. *)
LEMMA QuietKeeps ==
  ASSUME NumberFacts, Base, NEW t \in Tasks, t = pxCurrentTCB, ~pendsv, NEW s, Moves(t, s),
         UNCHANGED <<waiting, pendingReady, state, wake, left, xTickCount, xNextTaskUnblockTime,
                     xPendedTicks, pxCurrentTCB, xYieldPending, pendsv>>,
         step[t] \notin {"unlock", "resume", "yield", "block"}, s # "block",
         s \notin SuspSteps => step[t] \notin SuspSteps /\ uxSchedulerSuspended' = uxSchedulerSuspended,
         s \in SuspSteps => uxSchedulerSuspended' = 1,
         LockInv', cTxLock' \in [Queues -> Int],
         \A q \in Queues : cTxLock'[q] = cTxLock[q] \/ cTxLock'[q] = 0
  PROVE  Rest'
<1>1. TimeInv'
  BY DEF Base, TimeInv
<1>2. state[t] = "ready" /\ (s \notin SuspSteps => uxSchedulerSuspended = 0 /\ pendingReady = <<>>)
  BY Running
<1>3. SchedInv'
  <2>1. PlaceInv /\ SchedInv
    BY DEF Base
  <2>2. /\ pxCurrentTCB' = pxCurrentTCB /\ state'[t] = "ready"
        /\ s \notin SuspSteps => uxSchedulerSuspended' = 0 /\ pendingReady' = <<>>
    BY <1>2
  <2> QED
    BY <2>1, <2>2, SchedKept
<1>4. LinkInv'
  BY <1>2, LinkQuiet, Zenon DEF Base
<1>5. ListInv'
  <2>1. /\ \A q \in Queues : cTxLock'[q] \in -1 .. Cardinality(All)
        /\ \A m \in Mutexes : cTxLock'[m] <= 0
    <3> DEFINE n == Cardinality(All)
    <3>1. n \in Nat
      BY AllFinite
    <3>2. /\ \A q \in Queues : cTxLock[q] \in -1 .. n
          /\ \A m \in Mutexes : cTxLock[m] <= 0
      BY DEF Base, ListInv
    <3> HIDE DEF n
    <3>3. /\ \A q \in Queues : cTxLock'[q] \in -1 .. n
          /\ \A m \in Mutexes : cTxLock'[m] <= 0
      BY <3>1, <3>2, ConstantFacts
    <3> QED
      BY <3>3 DEF n
  <2> QED
    BY <2>1, Zenon DEF Base, ListInv
<1> QED
  BY <1>1, <1>3, <1>4, <1>5 DEF Rest

(* Which steps are taken with the scheduler suspended or the queue locked. *)
LEMMA StepSets ==
  /\ LockSteps \subseteq SuspSteps
  /\ \A s \in {"call", "suspend", "yield"} : s \notin SuspSteps
  /\ \A s \in {"suspended", "delay", "sbrk", "resume", "resume_retry"} : s \in SuspSteps \ LockSteps
  /\ \A s \in {"locked", "inherit", "insert", "block", "unlock", "unlock_retry"} : s \in LockSteps
  BY DEF LockSteps, SuspSteps

(* First critical section of a take. *)
LEMMA TakeKeeps ==
  ASSUME NumberFacts, Base, NEW t \in Tasks, t = pxCurrentTCB, ~pendsv, Take(t),
         NEW s \in {"call", "suspend"}, Moves(t, s)
  PROVE  Rest'
<1>1. /\ step[t] = "call"
      /\ UNCHANGED <<waiting, pendingReady, state, wake, left, xTickCount, xNextTaskUnblockTime,
                     xPendedTicks, pxCurrentTCB, xYieldPending, pendsv>>
      /\ UNCHANGED <<cTxLock, uxSchedulerSuspended>>
  BY Zenon DEF Take, listVars, timeVars
<1>2. s \notin SuspSteps /\ s \notin LockSteps /\ step[t] \notin SuspSteps /\ step[t] \notin LockSteps
  BY <1>1, StepSets
<1>3. LockInv'
  BY <1>1, <1>2, LockKept DEF Base
<1> QED
  BY <1>1, <1>2, <1>3, QuietKeeps DEF Base, ListInv

(* vTaskSuspendAll. *)
LEMMA SuspendKeeps ==
  ASSUME NumberFacts, Base, NEW t \in Tasks, t = pxCurrentTCB, ~pendsv, SuspendAll(t),
         NEW s \in {"suspended", "delay", "sbrk"}, Moves(t, s)
  PROVE  Rest'
<1>1. /\ step[t] \in {"call", "suspend"}
      /\ UNCHANGED <<waiting, pendingReady, state, wake, left, xTickCount, xNextTaskUnblockTime,
                     xPendedTicks, pxCurrentTCB, xYieldPending, pendsv>>
      /\ UNCHANGED cTxLock /\ uxSchedulerSuspended' = 1
  BY Zenon DEF SuspendAll, listVars, timeVars, queueVars
<1>2. s \in SuspSteps /\ s \notin LockSteps /\ step[t] \notin SuspSteps /\ step[t] \notin LockSteps
  BY <1>1, StepSets
<1>3. LockInv'
  BY <1>1, <1>2, LockKept DEF Base
<1> QED
  BY <1>1, <1>2, <1>3, QuietKeeps DEF Base, ListInv

(* prvIsQueueEmpty, and xTaskPriorityInherit after it. *)
LEMMA IsEmptyKeeps ==
  ASSUME NumberFacts, Base, NEW t \in Tasks, t = pxCurrentTCB, ~pendsv, pc' = pc, NEW s, Moves(t, s),
         \/ IsQueueEmpty(t) /\ s \in {"unlock_retry", "inherit", "insert"}
         \/ PriorityInherit(t) /\ s = "insert"
  PROVE  Rest'
<1>1. /\ step[t] \in {"locked", "inherit"} /\ s \in {"unlock_retry", "inherit", "insert"}
      /\ UNCHANGED <<waiting, pendingReady, state, wake, left, xTickCount, xNextTaskUnblockTime,
                     xPendedTicks, pxCurrentTCB, xYieldPending, pendsv>>
      /\ UNCHANGED <<cTxLock, uxSchedulerSuspended>>
  BY Zenon DEF IsQueueEmpty, PriorityInherit, listVars, timeVars, queueVars
<1>2. s \in SuspSteps /\ s \in LockSteps /\ step[t] \in SuspSteps /\ step[t] \in LockSteps
  BY <1>1, StepSets
<1>3. LockInv'
  BY <1>1, <1>2, LockKept DEF Base
<1>4. uxSchedulerSuspended' = 1
  BY <1>1, <1>2, Running
<1> QED
  BY <1>1, <1>2, <1>3, <1>4, QuietKeeps DEF Base, ListInv

(* prvLockQueue: no other queue is locked then. *)
LEMMA LockQueueKeeps ==
  ASSUME NumberFacts, Base, NEW t \in Tasks, t = pxCurrentTCB, ~pendsv, LockQueue(t), Moves(t, "locked"), pc' = pc
  PROVE  Rest'
<1> DEFINE p == Call(t).arg
           s == "locked"
<1>1. /\ step[t] = "suspended"
      /\ UNCHANGED <<waiting, pendingReady, state, wake, left, xTickCount, xNextTaskUnblockTime,
                     xPendedTicks, pxCurrentTCB, xYieldPending, pendsv>>
      /\ UNCHANGED uxSchedulerSuspended
      /\ cTxLock' = [cTxLock EXCEPT ![p] = IF @ = -1 THEN 0 ELSE @]
  BY Zenon DEF LockQueue, listVars, timeVars
<1>2. s \in SuspSteps /\ s \in LockSteps /\ step[t] \in SuspSteps /\ step[t] \notin LockSteps
  BY <1>1, StepSets
<1>3. p \in Queues /\ Call(t).op = "take"
  BY <1>1, CallArgument DEF Base, PlaceInv, StepFits, TakeSteps
<1>4. \A q \in Queues : cTxLock[q] = -1
  BY <1>2 DEF Base, LockInv
<1>5. cTxLock' \in [Queues -> Int] /\ cTxLock'[p] = 0 /\ \A q \in Queues \ {p} : cTxLock'[q] = -1
  BY <1>1, <1>3, <1>4 DEF Base, ListInv
<1>6. step'[t] = s /\ Call(t)' = Call(t)
  BY MoveFacts DEF Base
<1> HIDE DEF p, s
<1>7. \A q \in Queues : Takes(t, q)' <=> q = p
  BY <1>3, <1>6 DEF Takes, p
<1>8. LockInv'
  BY <1>1, <1>2, <1>5, <1>6, <1>7 DEF LockInv
<1>9. uxSchedulerSuspended' = 1
  BY <1>1, <1>2, Running
<1>10. \A q \in Queues : cTxLock'[q] = cTxLock[q] \/ cTxLock'[q] = 0
  BY <1>4, <1>5
<1>11. step[t] \notin {"unlock", "resume", "yield", "block"} /\ s # "block" /\ Moves(t, s)
  BY <1>1 DEF s
<1> QED
  BY <1>1, <1>2, <1>5, <1>8, <1>9, <1>10, <1>11, QuietKeeps

(* A task that yields has a switch pended. *)
LEMMA YieldKeeps ==
  ASSUME NumberFacts, Base, NEW t \in Tasks, t = pxCurrentTCB, ~pendsv, Yield(t), Moves(t, "call")
  PROVE  Rest'
<1>1. /\ step[t] = "yield" /\ pendsv' = TRUE
      /\ UNCHANGED <<waiting, pendingReady, state, wake, left, xTickCount, xNextTaskUnblockTime,
                     xPendedTicks, pxCurrentTCB, xYieldPending>>
      /\ UNCHANGED <<cTxLock, uxSchedulerSuspended>>
      /\ Call(t).op = "delay" \/ pc' = pc
  BY Zenon DEF Yield, listVars, timeVars, queueVars
<1>2. /\ step[t] \notin SuspSteps /\ step[t] \notin LockSteps
      /\ "call" \notin SuspSteps /\ "call" \notin LockSteps
  BY <1>1, StepSets
<1>3. LockInv'
  BY <1>1, <1>2, LockKept DEF Base
<1>4. SchedInv'
  <2>1. PlaceInv /\ SchedInv
    BY DEF Base
  <2>2. uxSchedulerSuspended' = 0 /\ pendingReady' = <<>>
    BY <1>1, <1>2, Running
  <2> QED
    BY <1>1, <1>2, <2>1, <2>2, SchedKept
<1>5. LinkInv'
  BY <1>1, LinkQuiet DEF Base
<1>6. TimeInv'
  BY <1>1 DEF Base, TimeInv
<1>7. ListInv'
  BY <1>1, Zenon DEF Base, ListInv
<1> QED
  BY <1>3, <1>4, <1>5, <1>6, <1>7 DEF Rest

(* Tasks other than the running one are outside any suspension. *)
LEMMA Others ==
  ASSUME SchedInv, PlaceInv, NEW u \in Tasks, u # pxCurrentTCB \/ uxSchedulerSuspended = 0
  PROVE  step[u] \in {"call", "suspend", "yield"}
  BY DEF SchedInv, PlaceInv, SuspSteps, LockSteps, Steps

(* vTaskPlaceOnEventList: the task was on no event list. *)
LEMMA PlaceOnListKeeps ==
  ASSUME NumberFacts, Base, NEW t \in Tasks, t = pxCurrentTCB, ~pendsv, PlaceOnEventList(t),
         Moves(t, "block"), pc' = pc
  PROVE  Rest'
<1> DEFINE p == Call(t).arg
<1>1. /\ step[t] = "insert"
      /\ waiting' = [waiting EXCEPT ![p] = ListInsert(@, t)]
      /\ UNCHANGED <<pendingReady, state, wake, left, xTickCount, xNextTaskUnblockTime,
                     xPendedTicks, pxCurrentTCB, xYieldPending, pendsv>>
      /\ UNCHANGED <<cTxLock, uxSchedulerSuspended>>
  BY Zenon DEF PlaceOnEventList, timeVars, queueVars
<1>2. "block" \in SuspSteps /\ "block" \in LockSteps /\ step[t] \in SuspSteps /\ step[t] \in LockSteps
  BY <1>1, StepSets
<1>3. p \in Queues /\ Call(t).op = "take"
  BY <1>1, CallArgument DEF Base, PlaceInv, StepFits, TakeSteps, LockSteps
<1>4. state[t] = "ready" /\ uxSchedulerSuspended = 1
  BY <1>1, <1>2, Running
<1>5. t \notin Range(pendingReady) /\ \A q \in Queues : t \notin Range(waiting[q])
  BY <1>1, <1>4 DEF Base, LinkInv, LinkOK
<1> HIDE DEF p
<1>6. /\ waiting' \in [Queues -> Seq(Tasks)] /\ \A q \in Queues : IsInjective(waiting'[q])
      /\ \A q \in Queues \ {p} : waiting'[q] = waiting[q]
      /\ Range(waiting'[p]) = Range(waiting[p]) \union {t}
  <2> DEFINE r == ListInsert(waiting[p], t)
  <2>1. r \in Seq(Tasks) /\ IsInjective(r) /\ Range(r) = Range(waiting[p]) \union {t}
    BY <1>3, <1>5, InsertInjective DEF Base, ListInv, HolderInv
  <2>2. waiting' = [waiting EXCEPT ![p] = r]
    BY <1>1
  <2> HIDE DEF r
  <2>3. waiting' \in [Queues -> Seq(Tasks)] /\ waiting'[p] = r /\ \A q \in Queues \ {p} : waiting'[q] = waiting[q]
    BY <1>3, <2>1, <2>2 DEF Base, ListInv
  <2>4. \A q \in Queues : IsInjective(waiting'[q])
    BY <2>1, <2>3, Zenon DEF Base, ListInv
  <2> QED
    BY <2>1, <2>3, <2>4
<1>7. /\ step'[t] = "block" /\ Call(t)' = Call(t)
      /\ \A u \in Tasks \ {t} : step'[u] = step[u] /\ Call(u)' = Call(u)
  BY MoveFacts DEF Base
<1>8. ASSUME NEW u \in Tasks PROVE LinkOK(u)'
  <2>0. \A q \in Queues : u \in Range(waiting'[q]) <=> u \in Range(waiting[q]) \/ (q = p /\ u = t)
    BY <1>6
  <2>1. CASE u # t
    <3>1. PlaceInv /\ LinkOK(u)
      BY DEF Base, LinkInv
    <3> QED
      BY <1>1, <1>7, <2>0, <2>1, <3>1, LinkSame
  <2>2. CASE u = t
    BY <1>1, <1>3, <1>4, <1>5, <1>7, <2>0, <2>2 DEF LinkOK, Takes, p
  <2> QED
    BY <2>1, <2>2
<1>9. LinkInv'
  BY <1>8 DEF LinkInv
<1>10. LockInv'
  BY <1>1, <1>2, LockKept DEF Base
<1>11. SchedInv'
  <2>1. PlaceInv /\ SchedInv /\ state'[t] = "ready" /\ uxSchedulerSuspended' = 1
    BY <1>1, <1>4 DEF Base
  <2> QED
    BY <1>1, <1>2, <2>1, SchedKept
<1>12. TimeInv'
  BY <1>1 DEF Base, TimeInv
<1>13. ListInv'
  BY <1>1, <1>6, Zenon DEF Base, ListInv
<1> QED
  BY <1>9, <1>10, <1>11, <1>12, <1>13 DEF Rest

(* The blocked task leaves the ready list. *)
LEMMA BlockKeeps ==
  ASSUME NumberFacts, Base, NEW t \in Tasks, t = pxCurrentTCB, ~pendsv, BlockForEver(t),
         Moves(t, "unlock"), pc' = pc
  PROVE  Rest'
<1>1. /\ step[t] = "block"
      /\ state' = [state EXCEPT ![t] = "suspended"]
      /\ UNCHANGED <<waiting, pendingReady, wake, left, xTickCount, xNextTaskUnblockTime,
                     xPendedTicks, pxCurrentTCB, xYieldPending, pendsv>>
      /\ UNCHANGED <<cTxLock, uxSchedulerSuspended>>
  BY Zenon DEF BlockForEver, timeVars, queueVars
<1>2. "unlock" \in SuspSteps /\ "unlock" \in LockSteps /\ step[t] \in SuspSteps /\ step[t] \in LockSteps
  BY <1>1, StepSets
<1>4. state[t] = "ready" /\ uxSchedulerSuspended = 1
  BY <1>1, <1>2, Running
<1>5. /\ state' \in [All -> Lists] /\ state'[t] = "suspended"
      /\ \A u \in All \ {t} : state'[u] = state[u]
  BY <1>1, ConstantFacts DEF Base, TimeInv, Lists
<1>7. /\ step'[t] = "unlock" /\ Call(t)' = Call(t)
      /\ \A u \in Tasks \ {t} : step'[u] = step[u] /\ Call(u)' = Call(u)
  BY MoveFacts DEF Base
<1>8. ASSUME NEW u \in Tasks PROVE LinkOK(u)'
  <2>1. CASE u # t
    <3>1. PlaceInv /\ LinkOK(u) /\ state'[u] = state[u]
      BY <1>5, <2>1, ConstantFacts DEF Base, LinkInv
    <3> QED
      BY <1>1, <1>7, <2>1, <3>1, LinkSame
  <2>2. CASE u = t
    <3>1. LinkOK(t)
      BY DEF Base, LinkInv
    <3> QED
      BY <1>1, <1>4, <1>5, <1>7, <2>2, <3>1 DEF LinkOK, Takes
  <2> QED
    BY <2>1, <2>2
<1>9. LinkInv'
  BY <1>8 DEF LinkInv
<1>10. LockInv'
  BY <1>1, <1>2, LockKept DEF Base
<1>11. SchedInv'
  <2>1. PlaceInv /\ SchedInv /\ uxSchedulerSuspended' = 1
    BY <1>1, <1>4 DEF Base
  <2> QED
    BY <1>1, <1>2, <2>1, SchedKept
<1>12. TimeInv'
  BY <1>1, <1>4, <1>5, ConstantFacts DEF Base, TimeInv
<1>13. ListInv'
  BY <1>1, Zenon DEF Base, ListInv
<1> QED
  BY <1>9, <1>10, <1>11, <1>12, <1>13 DEF Rest

(* vTaskDelay: the wake time lies the delay ahead, on the list for this or *)
(* for the next turn of the tick count.                                    *)
LEMMA DelayKeeps ==
  ASSUME NumberFacts, Base, NEW t \in Tasks, t = pxCurrentTCB, ~pendsv, AddCurrentTaskToDelayedList(t),
         Moves(t, "resume"), pc' = pc
  PROVE  Rest'
<1> DEFINE n == Call(t).arg
           time == (xTickCount + n) % TickMod
<1>1. /\ step[t] = "delay"
      /\ wake' = [wake EXCEPT ![t] = time]
      /\ left' = [left EXCEPT ![t] = n]
      /\ \/ /\ time < xTickCount
            /\ state' = [state EXCEPT ![t] = "overflow"]
            /\ xNextTaskUnblockTime' = xNextTaskUnblockTime
         \/ /\ ~(time < xTickCount)
            /\ state' = [state EXCEPT ![t] = "delayed"]
            /\ xNextTaskUnblockTime' = IF time < xNextTaskUnblockTime THEN time
                                       ELSE xNextTaskUnblockTime
      /\ UNCHANGED <<waiting, pendingReady, xTickCount, xPendedTicks, pxCurrentTCB,
                     xYieldPending, pendsv>>
      /\ UNCHANGED <<cTxLock, uxSchedulerSuspended>>
  BY Zenon DEF AddCurrentTaskToDelayedList, queueVars
<1>2. /\ "resume" \in SuspSteps /\ "resume" \notin LockSteps
      /\ step[t] \in SuspSteps /\ step[t] \notin LockSteps
  BY <1>1, StepSets
<1>3. n \in 1 .. MaxDelay
  BY <1>1, CallArgument DEF Base, PlaceInv, StepFits
<1>4. state[t] = "ready" /\ uxSchedulerSuspended = 1
  BY <1>1, <1>2, Running
<1>5. /\ state' \in [All -> Lists] /\ state'[t] \in {"delayed", "overflow"}
      /\ \A u \in All \ {t} : state'[u] = state[u]
  BY <1>1, ConstantFacts DEF Base, TimeInv, Lists
<1>6. TimeInv'
  <2>1. /\ xTickCount \in 0 .. MaxDelay /\ xNextTaskUnblockTime \in 0 .. MaxDelay
        /\ wake \in [Tasks -> 0 .. MaxDelay] /\ left \in [Tasks -> 0 .. MaxDelay]
    BY DEF Base, TimeInv
  <2> HIDE DEF n
  <2>2. time = IF xTickCount + n < TickMod THEN xTickCount + n ELSE xTickCount + n - TickMod
    BY <1>3, <2>1, TickFacts
  <2>3. time \in 0 .. MaxDelay
    BY <1>3, <2>1, <2>2, TickFacts
  <2>4. /\ time < xTickCount => n = time + TickMod - xTickCount
        /\ ~(time < xTickCount) => time > xTickCount /\ n = time - xTickCount
    BY <1>3, <2>1, <2>2, TickFacts
  <2> HIDE DEF time
  <2>5. /\ wake' \in [Tasks -> 0 .. MaxDelay] /\ left' \in [Tasks -> 0 .. MaxDelay]
        /\ wake'[t] = time /\ left'[t] = n
        /\ \A u \in Tasks \ {t} : wake'[u] = wake[u] /\ left'[u] = left[u] /\ state'[u] = state[u]
    <3>1. wake' = [wake EXCEPT ![t] = time] /\ left' = [left EXCEPT ![t] = n]
      BY <1>1
    <3>2. 1 .. MaxDelay \subseteq 0 .. MaxDelay
      BY TickFacts
    <3> DEFINE D == 0 .. MaxDelay
    <3>3. n \in D /\ time \in D /\ wake \in [Tasks -> D] /\ left \in [Tasks -> D]
      BY <1>3, <2>1, <2>3, <3>2
    <3> HIDE DEF D
    <3>4. wake' \in [Tasks -> D] /\ wake'[t] = time /\ \A u \in Tasks \ {t} : wake'[u] = wake[u]
      BY <3>1, <3>3
    <3>5. left' \in [Tasks -> D] /\ left'[t] = n /\ \A u \in Tasks \ {t} : left'[u] = left[u]
      BY <3>1, <3>3
    <3>6. \A u \in Tasks \ {t} : state'[u] = state[u]
      BY <1>5, ConstantFacts
    <3> QED
      BY <3>4, <3>5, <3>6, Zenon DEF D
  <2>6. /\ xNextTaskUnblockTime' \in 0 .. MaxDelay /\ xNextTaskUnblockTime' <= xNextTaskUnblockTime
        /\ state'[t] = "delayed" => ~(time < xTickCount) /\ xNextTaskUnblockTime' <= time
        /\ state'[t] = "overflow" => time < xTickCount
    BY <1>1, <2>1, <2>3, ConstantFacts DEF Base, TimeInv
  <2>7. xTickCount' = xTickCount
    BY <1>1
  <2>8. ASSUME NEW u \in Tasks
        PROVE /\ state'[u] = "delayed" => /\ wake'[u] > xTickCount /\ left'[u] = wake'[u] - xTickCount
                                          /\ xNextTaskUnblockTime' <= wake'[u]
              /\ state'[u] = "overflow" => /\ wake'[u] < xTickCount
                                           /\ left'[u] = wake'[u] + TickMod - xTickCount
              /\ state'[u] \in {"ready", "suspended"} => left'[u] = 0
    <3>1. CASE u = t
      BY <1>5, <2>4, <2>5, <2>6, <3>1
    <3>2. CASE u # t
      BY <2>1, <2>5, <2>6, <3>2, TickFacts DEF Base, TimeInv
    <3> QED
      BY <3>1, <3>2
  <2> QED
    BY <1>5, <2>1, <2>5, <2>6, <2>7, <2>8 DEF TimeInv
<1>7. /\ step'[t] = "resume" /\ Call(t)' = Call(t)
      /\ \A u \in Tasks \ {t} : step'[u] = step[u] /\ Call(u)' = Call(u)
  BY MoveFacts DEF Base
<1>8. ASSUME NEW u \in Tasks PROVE LinkOK(u)'
  <2>1. CASE u # t
    <3>1. PlaceInv /\ LinkOK(u) /\ state'[u] = state[u]
      BY <1>5, <2>1, ConstantFacts DEF Base, LinkInv
    <3> QED
      BY <1>1, <1>7, <2>1, <3>1, LinkSame
  <2>2. CASE u = t
    <3>1. LinkOK(t)
      BY DEF Base, LinkInv
    <3> QED
      BY <1>1, <1>4, <1>5, <1>7, <2>2, <3>1 DEF LinkOK, Takes
  <2> QED
    BY <2>1, <2>2
<1>9. LinkInv'
  BY <1>8 DEF LinkInv
<1>10. LockInv'
  BY <1>1, <1>2, LockKept DEF Base
<1>11. SchedInv'
  <2>1. PlaceInv /\ SchedInv /\ uxSchedulerSuspended' = 1
    BY <1>1, <1>4 DEF Base
  <2> QED
    BY <1>1, <1>2, <2>1, SchedKept
<1>13. ListInv'
  BY <1>1, Zenon DEF Base, ListInv
<1> QED
  BY <1>6, <1>9, <1>10, <1>11, <1>13 DEF Rest

(* The tasks UnlockQueue wakes. *)
LEMMA UnlockEffects ==
  ASSUME NumberFacts, Base, NEW t \in Tasks, t = pxCurrentTCB, UnlockQueue(t)
  PROVE  \E p \in Queues, n \in Nat, woken \in Seq(Tasks) :
           /\ Takes(t, p) /\ n = Len(woken) /\ n <= Len(waiting[p])
           /\ n = cTxLock[p] \/ (n <= cTxLock[p] /\ n = Len(waiting[p]))
           /\ woken = SubSeq(waiting[p], 1, n)
           /\ waiting' = [waiting EXCEPT ![p] = SubSeq(@, n + 1, Len(@))]
           /\ pendingReady' = pendingReady \o woken
           /\ xYieldPending' = \/ xYieldPending
                               \/ \E i \in 1 .. n : uxPriority[woken[i]] > uxPriority[t]
           /\ cTxLock' = [cTxLock EXCEPT ![p] = -1]
<1> DEFINE p == Call(t).arg
           n == IF cTxLock[p] <= Len(waiting[p]) THEN cTxLock[p] ELSE Len(waiting[p])
           woken == SubSeq(waiting[p], 1, n)
<1>1. /\ step[t] \in {"unlock", "unlock_retry"}
      /\ waiting' = [waiting EXCEPT ![p] = SubSeq(@, n + 1, Len(@))]
      /\ pendingReady' = pendingReady \o woken
      /\ xYieldPending' = \/ xYieldPending
                          \/ \E i \in 1 .. n : uxPriority[woken[i]] > uxPriority[t]
      /\ cTxLock' = [cTxLock EXCEPT ![p] = -1]
  BY Zenon DEF UnlockQueue
<1>2. p \in Queues /\ Takes(t, p) /\ step[t] \in LockSteps
  BY <1>1, CallArgument DEF Base, PlaceInv, StepFits, TakeSteps, LockSteps, Takes
<1>3. cTxLock[p] # -1 /\ cTxLock[p] \in Int
  BY <1>2 DEF Base, LockInv, ListInv
<1>4. cTxLock[p] \in Nat /\ waiting[p] \in Seq(Tasks)
  <2> DEFINE c == Cardinality(All)
  <2>1. c \in Nat /\ cTxLock[p] \in -1 .. c
    BY <1>2, AllFinite DEF Base, ListInv
  <2> HIDE DEF c
  <2>2. cTxLock[p] \in Nat
    BY <1>3, <2>1
  <2> QED
    BY <1>2, <2>2 DEF Base, ListInv
<1> HIDE DEF p
<1>5. Len(waiting[p]) \in Nat
  BY <1>4
<1>6. /\ n \in 0 .. Len(waiting[p]) /\ n \in Nat /\ n <= Len(waiting[p])
      /\ n = cTxLock[p] \/ (n <= cTxLock[p] /\ n = Len(waiting[p]))
  BY <1>4, <1>5
<1> HIDE DEF n
<1>7. woken \in Seq(Tasks) /\ Len(woken) = n
  BY <1>4, <1>6
<1> QED
  BY <1>1, <1>2, <1>6, <1>7, Zenon

(* The first n waiters are moved to xPendingReadyList. *)
LEMMA UnlockLists ==
  ASSUME NumberFacts, Base, NEW p \in Queues, NEW n \in Nat, NEW woken \in Seq(Tasks),
         n <= Len(waiting[p]), woken = SubSeq(waiting[p], 1, n),
         waiting' = [waiting EXCEPT ![p] = SubSeq(@, n + 1, Len(@))],
         pendingReady' = pendingReady \o woken
  PROVE  /\ waiting' \in [Queues -> Seq(Tasks)] /\ \A q \in Queues : IsInjective(waiting'[q])
         /\ pendingReady' \in Seq(Tasks)
         /\ \A q \in Queues \ {p} : waiting'[q] = waiting[q]
         /\ Range(waiting[p]) = Range(woken) \union Range(waiting'[p])
         /\ Range(woken) \intersect Range(waiting'[p]) = {}
         /\ Range(pendingReady') = Range(pendingReady) \union Range(woken)
<1> DEFINE s == waiting[p]
           b == SubSeq(s, n + 1, Len(s))
<1>1. s \in Seq(Tasks) /\ IsInjective(s) /\ n \in 0 .. Len(s)
  BY DEF Base, ListInv
<1>2. b \in Seq(Tasks) /\ IsInjective(b)
  BY <1>1, SplitList, Zenon
<1>3. Range(s) = Range(woken) \union Range(b) /\ Range(woken) \intersect Range(b) = {}
  BY <1>1, SplitList, Zenon
<1>4. waiting' = [waiting EXCEPT ![p] = b]
  OBVIOUS
<1> HIDE DEF b
<1>5. /\ waiting' \in [Queues -> Seq(Tasks)] /\ waiting'[p] = b
      /\ \A q \in Queues \ {p} : waiting'[q] = waiting[q]
  BY <1>2, <1>4 DEF Base, ListInv
<1>6. \A q \in Queues : IsInjective(waiting'[q])
  BY <1>2, <1>5, Zenon DEF Base, ListInv
<1>7. pendingReady' \in Seq(Tasks) /\ Range(pendingReady') = Range(pendingReady) \union Range(woken)
  <2>1. pendingReady \in Seq(Tasks)
    BY DEF Base, ListInv
  <2>2. /\ pendingReady \o woken \in Seq(Tasks)
        /\ Range(pendingReady \o woken) = Range(pendingReady) \union Range(woken)
    <3>1. \A x, y \in Seq(Tasks) : x \o y \in Seq(Tasks) /\ Range(x \o y) = Range(x) \union Range(y)
      BY AppendRange, Zenon
    <3> QED
      BY <2>1, <3>1, Zenon
  <2>3. pendingReady' = pendingReady \o woken
    OBVIOUS
  <2> QED
    BY <2>2, <2>3, Zenon
<1> QED
  BY <1>3, <1>5, <1>6, <1>7

(* prvUnlockQueue. *)
LEMMA UnlockKeeps ==
  ASSUME NumberFacts, Base, NEW t \in Tasks, t = pxCurrentTCB, ~pendsv, UnlockQueue(t), NEW s, Moves(t, s),
         pc' = pc,
         \/ step[t] = "unlock" /\ s = "resume"
         \/ step[t] = "unlock_retry" /\ s = "resume_retry"
  PROVE  Rest'
<1>1. UNCHANGED <<state, wake, left, xTickCount, xNextTaskUnblockTime, xPendedTicks,
                  pxCurrentTCB, uxSchedulerSuspended, pendsv>>
  BY Zenon DEF UnlockQueue, timeVars
<1>2. /\ s \in SuspSteps /\ s \notin LockSteps /\ step[t] \in SuspSteps /\ step[t] \in LockSteps
      /\ s \in {"resume", "resume_retry"}
  BY StepSets
<1>3. PICK p \in Queues, n \in Nat, woken \in Seq(Tasks) :
           /\ Takes(t, p) /\ n = Len(woken) /\ n <= Len(waiting[p])
           /\ n = cTxLock[p] \/ (n <= cTxLock[p] /\ n = Len(waiting[p]))
           /\ woken = SubSeq(waiting[p], 1, n)
           /\ waiting' = [waiting EXCEPT ![p] = SubSeq(@, n + 1, Len(@))]
           /\ pendingReady' = pendingReady \o woken
           /\ xYieldPending' = \/ xYieldPending
                               \/ \E i \in 1 .. n : uxPriority[woken[i]] > uxPriority[t]
           /\ cTxLock' = [cTxLock EXCEPT ![p] = -1]
  BY UnlockEffects, Zenon
<1>4. /\ waiting' \in [Queues -> Seq(Tasks)] /\ \A q \in Queues : IsInjective(waiting'[q])
      /\ pendingReady' \in Seq(Tasks)
      /\ \A q \in Queues \ {p} : waiting'[q] = waiting[q]
      /\ Range(waiting[p]) = Range(woken) \union Range(waiting'[p])
      /\ Range(woken) \intersect Range(waiting'[p]) = {}
      /\ Range(pendingReady') = Range(pendingReady) \union Range(woken)
  BY <1>3, UnlockLists
<1>5. xYieldPending' \in BOOLEAN
  BY <1>3, Zenon
<1>6. /\ cTxLock' \in [Queues -> Int] /\ cTxLock'[p] = -1
      /\ \A q \in Queues \ {p} : cTxLock'[q] = cTxLock[q]
  <2>1. p \in Queues /\ cTxLock' = [cTxLock EXCEPT ![p] = -1]
    BY <1>3, Zenon
  <2>2. cTxLock \in [Queues -> Int]
    BY Zenon DEF Base, ListInv
  <2> QED
    BY <2>1, <2>2
<1>7. /\ step'[t] = s /\ Call(t)' = Call(t)
      /\ \A u \in Tasks \ {t} : step'[u] = step[u] /\ Call(u)' = Call(u)
  BY MoveFacts DEF Base
<1>8. ASSUME NEW u \in Tasks PROVE LinkOK(u)'
  <2>0. /\ \A q \in Queues : u \in Range(waiting'[q]) <=>
                               u \in Range(waiting[q]) /\ ~(q = p /\ u \in Range(woken))
        /\ u \in Range(pendingReady') <=> u \in Range(pendingReady) \/ u \in Range(woken)
        /\ u \in Range(woken) => u \in Range(waiting[p])
    BY <1>4
  <2>1. PlaceInv /\ SchedInv /\ LinkOK(u) /\ state'[u] = state[u] /\ Call(u)' = Call(u)
    BY <1>1, <1>7 DEF Base, LinkInv
  <2>2. \A q \in Queues : u \in Range(waiting[p]) /\ u \in Range(waiting[q]) => q = p
    BY <2>1 DEF LinkOK, Takes
  <2>3. CASE u # t
    <3>1. step'[u] = step[u] /\ step[u] \in {"call", "suspend", "yield"}
      BY <1>7, <2>1, <2>3, Others
    <3>2. CASE u \in Range(woken)
      <4>1. \A q \in Queues : u \notin Range(waiting'[q])
        BY <2>0, <2>2, <3>2
      <4>2. state'[u] = "suspended" /\ step'[u] \in {"yield", "call"}
        BY <2>0, <2>1, <3>1, <3>2 DEF LinkOK
      <4> QED
        BY <4>1, <4>2 DEF LinkOK
    <3>3. CASE u \notin Range(woken)
      BY <2>0, <2>1, <3>1, <3>3, LinkSame
    <3> QED
      BY <3>2, <3>3
  <2>4. CASE u = t
    <3>1. step[t] \in {"unlock", "unlock_retry"} /\ u \notin Range(pendingReady)
      BY <2>1, <2>4 DEF LinkOK
    <3>2. \A q \in Queues : u \in Range(waiting[q]) => step[t] = "unlock" /\ state[u] = "suspended"
      BY <2>1, <2>4, <3>1 DEF LinkOK
    <3>3. CASE u \in Range(woken)
      <4>1. \A q \in Queues : u \notin Range(waiting'[q])
        BY <2>0, <2>2, <3>3
      <4>2. state'[u] = "suspended" /\ step'[u] = "resume"
        BY <1>7, <2>0, <2>1, <2>4, <3>2, <3>3
      <4> QED
        BY <4>1, <4>2 DEF LinkOK
    <3>4. CASE u \notin Range(woken)
      <4>1. /\ u \notin Range(pendingReady')
            /\ \A q \in Queues : u \in Range(waiting'[q]) <=> u \in Range(waiting[q])
        BY <2>0, <3>1, <3>4
      <4>2. state[u] \notin {"delayed", "overflow"}
        BY <2>1, <2>4, <3>1 DEF LinkOK
      <4> QED
        BY <1>2, <1>7, <2>1, <2>4, <3>1, <3>2, <4>1, <4>2 DEF LinkOK, Takes
    <3> QED
      BY <3>3, <3>4
  <2> QED
    BY <2>3, <2>4
<1>9. LinkInv'
  BY <1>8 DEF LinkInv
<1>10. LockInv'
  <2>1. \A q \in Queues \ {p} : cTxLock[q] = -1
    BY <1>3 DEF Base, LockInv, Takes
  <2>2. \A q \in Queues : cTxLock'[q] = -1
    BY <1>6, <2>1
  <2> QED
    BY <1>1, <1>2, <1>7, <2>2 DEF LockInv
<1>11. SchedInv'
  <2>1. PlaceInv /\ SchedInv /\ uxSchedulerSuspended' = 1 /\ pxCurrentTCB' = pxCurrentTCB
    BY <1>1, <1>2, Running DEF Base
  <2>2. step[t] = "unlock_retry" => state[t] = "ready"
    BY Running
  <2>3. s \notin {"unlock", "resume"} => state'[t] = "ready"
    BY <1>1, <2>2
  <2> QED
    BY <1>2, <2>1, <2>3, SchedKept
<1>12. TimeInv'
  BY <1>1 DEF Base, TimeInv
<1>13. ListInv'
  <2> DEFINE c == Cardinality(All)
  <2>1. c \in Nat
    BY AllFinite
  <2>2. /\ \A q \in Queues : cTxLock[q] \in -1 .. c
        /\ \A m \in Mutexes : cTxLock[m] <= 0
    BY DEF Base, ListInv
  <2> HIDE DEF c
  <2>3. /\ \A q \in Queues : cTxLock'[q] \in -1 .. c
        /\ \A m \in Mutexes : cTxLock'[m] <= 0
    <3>1. \A q \in Queues : cTxLock'[q] \in {-1, cTxLock[q]}
      BY <1>6 DEF Base, ListInv
    <3>2. -1 \in -1 .. c
      BY <2>1
    <3>3. Mutexes \subseteq Queues
      BY ConstantFacts
    <3>4. \A q \in Queues : cTxLock'[q] \in -1 .. c
      BY <2>2, <3>1, <3>2
    <3>5. \A m \in Mutexes : cTxLock'[m] <= 0
      BY <2>2, <3>1, <3>3
    <3> QED
      BY <3>4, <3>5
  <2>4. pendsv' \in BOOLEAN /\ xPendedTicks' \in 0 .. MaxPended
    BY <1>1, Zenon DEF Base, ListInv
  <2> QED
    BY <1>4, <1>5, <1>6, <2>3, <2>4, Zenon DEF ListInv, c
<1> QED
  BY <1>9, <1>10, <1>11, <1>12, <1>13 DEF Rest

(* A task while ticks are counted and woken tasks made ready. *)
LEMMA LinkLater ==
  ASSUME NEW u \in Tasks, LinkOK(u), NEW a, NEW y, NEW z, Later(a, y, state', z),
         a[u] = IF u \in Range(pendingReady) THEN "ready" ELSE state[u],
         Range(pendingReady') = {}, waiting' = waiting, state[u] \in Lists, state'[u] \in Lists,
         step[u] # "block",
         \/ step'[u] = step[u] /\ Call(u)' = Call(u)
         \/ /\ step'[u] \in {"call", "yield"}
            /\ step[u] = "resume" /\ Call(u).op = "take" => Call(u)' = Call(u)
            /\ step[u] # "resume" => state[u] = "ready"
  PROVE  LinkOK(u)'
<1>1. /\ a[u] = "ready" => state'[u] = "ready"
      /\ a[u] = "suspended" <=> state'[u] = "suspended"
  BY TickFacts DEF Later
<1>2. ASSUME NEW q \in Queues, u \in Range(waiting[q])
      PROVE  /\ Takes(u, q)' /\ step'[u] \in {"unlock", "resume", "yield", "call"}
             /\ state'[u] = "suspended"
  BY <1>1, <1>2 DEF LinkOK, Takes
<1>3. state'[u] \in {"delayed", "overflow"} => step'[u] \in {"resume", "yield", "call"}
  BY <1>1 DEF LinkOK, Lists
<1>4. step'[u] # "block"
  OBVIOUS
<1> QED
  BY <1>2, <1>3, <1>4 DEF LinkOK

(* Only blocked tasks are held on xPendingReadyList. *)
LEMMA PendingTasks ==
  ASSUME Base
  PROVE  /\ Range(pendingReady) \subseteq Tasks
         /\ \A t \in Range(pendingReady) : state[t] = "suspended"
         /\ RunOK /\ xYieldPending \in BOOLEAN /\ xPendedTicks \in 0 .. MaxPended /\ TimeInv
<1>1. Range(pendingReady) \subseteq Tasks
  BY RangeOf DEF Base, ListInv
<1>2. \A t \in Range(pendingReady) : state[t] = "suspended"
  BY <1>1 DEF Base, LinkInv, LinkOK
<1>3. RunOK
  BY DEF Base, RunOK, SchedInv, HolderInv
<1>4. xYieldPending \in BOOLEAN /\ xPendedTicks \in 0 .. MaxPended /\ TimeInv
  BY Zenon DEF Base, ListInv
<1> QED
  BY <1>1, <1>2, <1>3, <1>4

(* xTaskResumeAll, at the end of a take, a delay or _sbrk_r. *)
LEMMA ResumeKeeps ==
  ASSUME NumberFacts, Base, NEW t \in Tasks, t = pxCurrentTCB, ~pendsv, ResumeAll, NEW s, Moves(t, s),
         \/ /\ step[t] = "resume" /\ s = IF xYieldPending' THEN "call" ELSE "yield"
            /\ Call(t).op = "take" => pc' = pc
         \/ step[t] \in {"resume_retry", "sbrk"} /\ s = "call"
  PROVE  Rest'
<1>1. /\ TimeInv' /\ xYieldPending' \in BOOLEAN /\ pendsv' = (pendsv \/ xYieldPending')
      /\ Later(Resumed, xYieldPending, state', xYieldPending')
  BY PendingTasks, ResumeEffects
<1>2. /\ uxSchedulerSuspended' = 0 /\ pendingReady' = <<>> /\ xPendedTicks' = 0
      /\ UNCHANGED <<waiting, cTxLock, pxCurrentTCB>>
  BY Zenon DEF ResumeAll, queueVars
<1>3. /\ s \in {"call", "yield"} /\ s \notin SuspSteps /\ s \notin LockSteps
      /\ step[t] \in SuspSteps /\ step[t] \notin LockSteps
  <2>1. s \in {"call", "yield"}
    BY Zenon
  <2> QED
    BY <2>1, StepSets
<1>4. Range(pendingReady') = {}
  BY <1>2, EmptyRange
<1>5. /\ step'[t] = s /\ (pc' = pc => Call(t)' = Call(t))
      /\ \A u \in Tasks \ {t} : step'[u] = step[u] /\ Call(u)' = Call(u)
  BY MoveFacts DEF Base
<1>6. step[t] # "resume" => state[t] = "ready"
  <2>1. step[t] # "resume" => step[t] \notin {"unlock", "resume", "yield"}
    OBVIOUS
  <2> QED
    BY <2>1, Running
<1>7. ASSUME NEW u \in Tasks PROVE LinkOK(u)'
  <2>1. LinkOK(u) /\ PlaceInv /\ SchedInv
    BY DEF Base, LinkInv
  <2>2. Resumed[u] = IF u \in Range(pendingReady) THEN "ready" ELSE state[u]
    BY TickFacts DEF Resumed
  <2>3. state[u] \in Lists /\ state'[u] \in Lists
    BY <1>1, TickFacts DEF Base, TimeInv
  <2>4. CASE u # t
    <3>1. step[u] # "block" /\ step'[u] = step[u] /\ Call(u)' = Call(u)
      BY <1>5, <2>1, <2>4, Others
    <3> QED
      BY <1>1, <1>2, <1>4, <2>1, <2>2, <2>3, <3>1, LinkLater
  <2>5. CASE u = t
    <3>1. /\ step[u] # "block" /\ step'[u] \in {"call", "yield"}
          /\ step[u] = "resume" /\ Call(u).op = "take" => Call(u)' = Call(u)
          /\ step[u] # "resume" => state[u] = "ready"
      BY <1>3, <1>5, <1>6, <2>5
    <3> QED
      BY <1>1, <1>2, <1>4, <2>1, <2>2, <2>3, <3>1, LinkLater
  <2> QED
    BY <2>4, <2>5
<1>8. LinkInv'
  BY <1>7 DEF LinkInv
<1>9. LockInv'
  BY <1>2, <1>3, LockKept DEF Base
<1>10. SchedInv'
  <2>1. PlaceInv /\ SchedInv
    BY DEF Base
  <2>2. pendsv' \/ state'[t] = "ready" \/ s = "yield"
    <3>1. CASE step[t] = "resume"
      <4>1. xYieldPending' \/ s = "yield"
        BY <3>1, Zenon
      <4> QED
        BY <1>1, <4>1, Zenon
    <3>2. CASE step[t] # "resume"
      <4>1. Resumed[t] = "ready"
        BY <1>6, <3>2, TickFacts DEF Resumed
      <4> QED
        BY <1>1, <4>1, TickFacts DEF Later
    <3> QED
      BY <3>1, <3>2
  <2> QED
    BY <1>2, <1>3, <2>1, <2>2, SchedKept
<1>11. ListInv'
  <2>1. pendsv' \in BOOLEAN
    BY <1>1, Zenon
  <2>2. xPendedTicks' \in 0 .. MaxPended /\ pendingReady' \in Seq(Tasks)
    BY <1>2, TickFacts
  <2> QED
    BY <1>1, <1>2, <2>1, <2>2, Zenon DEF Base, ListInv
<1> QED
  BY <1>1, <1>8, <1>9, <1>10, <1>11 DEF Rest

(* SysTick. *)
LEMMA TickKeeps ==
  ASSUME NumberFacts, Base, Tick
  PROVE  Rest' /\ UNCHANGED <<pc, step, uxPriority, xMutexHolder, uxMessagesWaiting>>
<1>0. UNCHANGED <<pc, step, waiting, pendingReady, cTxLock, uxMessagesWaiting, xMutexHolder,
                  pxCurrentTCB, uxPriority, uxSchedulerSuspended, xYieldPending>>
  BY Zenon DEF Tick, taskVars, queueVars
<1>a. \A u \in Tasks : Call(u)' = Call(u)
  BY <1>0 DEF Call
<1>1. CASE uxSchedulerSuspended # 0
  <2>1. /\ xPendedTicks < MaxPended /\ xPendedTicks' = xPendedTicks + 1
        /\ UNCHANGED <<state, wake, left, xTickCount, xNextTaskUnblockTime, pendsv>>
    BY <1>1, Zenon DEF Tick
  <2>2. TimeInv'
    BY <2>1 DEF Base, TimeInv
  <2>3. ListInv'
    <3>1. xPendedTicks' \in 0 .. MaxPended
      BY <2>1, TickFacts DEF Base, ListInv
    <3> QED
      BY <1>0, <2>1, <3>1, Zenon DEF Base, ListInv
  <2>4. SchedInv'
    BY <1>0, <2>1, Zenon DEF Base, SchedInv
  <2>5. LockInv'
    BY <1>0, <1>a, Zenon DEF Base, LockInv, Takes
  <2>6. LinkInv'
    BY <1>0, <1>a, <2>1, LinkSame DEF Base, LinkInv
  <2> QED
    BY <1>0, <2>2, <2>3, <2>4, <2>5, <2>6 DEF Rest
<1>2. CASE uxSchedulerSuspended = 0
  <2>0. pendingReady = <<>> /\ Range(pendingReady) = {} /\ Range(pendingReady') = {}
    BY <1>0, <1>2, EmptyRange DEF Base, SchedInv
  <2>1. TimeInv' /\ UNCHANGED xPendedTicks
    BY <1>2, PendingTasks, TickEffects
  <2>2. PICK z : Later(state, xYieldPending, state', z) /\ pendsv' = (pendsv \/ z)
    BY <1>2, PendingTasks, TickEffects
  <2>3. ASSUME NEW u \in Tasks PROVE LinkOK(u)'
    <3>1. LinkOK(u) /\ PlaceInv /\ SchedInv
      BY DEF Base, LinkInv
    <3>2. state[u] = IF u \in Range(pendingReady) THEN "ready" ELSE state[u]
      BY <2>0
    <3>3. state[u] \in Lists /\ state'[u] \in Lists
      BY <2>1, TickFacts DEF Base, TimeInv
    <3>4. step[u] # "block" /\ step'[u] = step[u] /\ Call(u)' = Call(u) /\ waiting' = waiting
      BY <1>0, <1>2, <1>a, <3>1, Others
    <3> QED
      BY <2>0, <2>2, <3>1, <3>2, <3>3, <3>4, LinkLater
  <2>4. LinkInv'
    BY <2>3 DEF LinkInv
  <2>5. LockInv'
    BY <1>0, <1>a, Zenon DEF Base, LockInv, Takes
  <2>6. SchedInv'
    <3>1. state[pxCurrentTCB] = "ready" => state'[pxCurrentTCB] = "ready"
      BY <2>2 DEF Later, Base, SchedInv
    <3>2. pendsv => pendsv'
      BY <2>2
    <3> QED
      BY <1>0, <1>2, <3>1, <3>2 DEF Base, SchedInv
  <2>7. ListInv'
    <3>1. pendsv' \in BOOLEAN
      BY <2>2, Zenon
    <3> QED
      BY <1>0, <2>1, <3>1, Zenon DEF Base, ListInv
  <2> QED
    BY <1>0, <2>1, <2>4, <2>5, <2>6, <2>7 DEF Rest
<1> QED
  BY <1>1, <1>2

(* PendSV. *)
LEMMA SwitchKeeps ==
  ASSUME NumberFacts, Base, SwitchContext
  PROVE  Rest' /\ UNCHANGED <<pc, step, uxPriority, xMutexHolder, uxMessagesWaiting>>
<1>0. UNCHANGED <<pc, step, state, wake, left, waiting, pendingReady, cTxLock, uxMessagesWaiting,
                  xMutexHolder, xTickCount, xNextTaskUnblockTime, xPendedTicks, uxPriority,
                  uxSchedulerSuspended>>
  BY Zenon DEF SwitchContext, taskVars, listVars, queueVars, timeVars
<1>1. /\ pendsv' = FALSE /\ xYieldPending' \in BOOLEAN
      /\ \/ uxSchedulerSuspended # 0 /\ pxCurrentTCB' = pxCurrentTCB
         \/ uxSchedulerSuspended = 0 /\ pxCurrentTCB' \in ReadyTasks
  BY Zenon DEF SwitchContext
<1>a. \A u : Call(u)' = Call(u)
  BY <1>0 DEF Call
<1>2. TimeInv'
  BY <1>0 DEF Base, TimeInv
<1>3. ListInv'
  <2>1. pendsv' \in BOOLEAN
    BY <1>1, Zenon
  <2> QED
    BY <1>0, <1>1, <2>1, Zenon DEF Base, ListInv
<1>4. LinkInv'
  BY <1>0, <1>a, Zenon DEF Base, LinkInv, LinkOK, Takes
<1>5. SchedInv'
  <2>0. SchedInv
    BY DEF Base
  <2>1. CASE uxSchedulerSuspended # 0 /\ pxCurrentTCB' = pxCurrentTCB
    BY <1>0, <2>0, <2>1, Zenon DEF SchedInv
  <2>2. CASE uxSchedulerSuspended = 0 /\ pxCurrentTCB' \in ReadyTasks
    <3>1. pxCurrentTCB' \in All /\ state[pxCurrentTCB'] = "ready"
      BY <2>2 DEF ReadyTasks
    <3>2. uxSchedulerSuspended # 1 /\ \A u \in Tasks : step[u] \notin SuspSteps
      BY <2>0, <2>2 DEF SchedInv
    <3>3. pendingReady = <<>>
      BY <2>0, <2>2 DEF SchedInv
    <3> QED
      BY <1>0, <2>0, <2>2, <3>1, <3>2, <3>3, Zenon DEF SchedInv
  <2> QED
    BY <1>1, <2>1, <2>2
<1>6. LockInv'
  <2>1. CASE pxCurrentTCB' = pxCurrentTCB
    BY <1>0, <1>a, <2>1, Zenon DEF Base, LockInv, Takes
  <2>2. CASE uxSchedulerSuspended = 0
    <3>1. \A u \in Tasks : step[u] \notin LockSteps
      BY <2>2, StepSets DEF Base, SchedInv
    <3> QED
      BY <1>0, <3>1 DEF Base, LockInv, SchedInv
  <2> QED
    BY <1>1, <2>1, <2>2
<1> QED
  BY <1>0, <1>2, <1>3, <1>4, <1>5, <1>6 DEF Rest

(* xTaskRemoveFromEventList: the tasks it wakes, at most one. *)
LEMMA RemoveEffects ==
  ASSUME Base, NEW q \in Queues, RemoveFromEventList(q)
  PROVE  LET W == Range(Woken(q)) IN
         /\ waiting' \in [Queues -> Seq(Tasks)] /\ \A p \in Queues : IsInjective(waiting'[p])
         /\ pendingReady' \in Seq(Tasks)
         /\ \A p \in Queues \ {q} : waiting'[p] = waiting[p]
         /\ W \subseteq Range(waiting[q]) /\ Range(waiting'[q]) = Range(waiting[q]) \ W
         /\ uxSchedulerSuspended = 0 =>
              /\ state' = [t \in All |-> IF t \in W THEN "ready" ELSE state[t]]
              /\ pendingReady' = pendingReady
         /\ uxSchedulerSuspended # 0 =>
              state' = state /\ Range(pendingReady') = Range(pendingReady) \union W
<1> DEFINE W == Range(Woken(q))
           s == waiting[q]
           r == IF s = <<>> THEN s ELSE Tail(s)
<1>1. waiting' = [waiting EXCEPT ![q] = r]
  BY Zenon DEF RemoveFromEventList
<1>2. s \in Seq(Tasks) /\ IsInjective(s)
  BY DEF Base, ListInv
<1>3. /\ r \in Seq(Tasks) /\ IsInjective(r) /\ Woken(q) \in Seq(Tasks)
      /\ W \subseteq Range(s) /\ Range(r) = Range(s) \ W
  <2>1. CASE s = <<>>
    <3>1. Woken(q) = <<>> /\ r = s
      BY <2>1 DEF Woken
    <3>2. W = {} /\ Woken(q) \in Seq(Tasks)
      BY <3>1, EmptyRange
    <3> HIDE DEF r, s, W
    <3> QED
      BY <1>2, <3>1, <3>2
  <2>2. CASE s # <<>>
    <3>1. Woken(q) = <<Head(s)>> /\ r = Tail(s)
      BY <2>2 DEF Woken
    <3>2. /\ Head(s) \in Tasks /\ Tail(s) \in Seq(Tasks) /\ IsInjective(Tail(s))
          /\ Range(s) = {Head(s)} \union Range(Tail(s)) /\ Head(s) \notin Range(Tail(s))
      BY <1>2, <2>2, TailList
    <3> DEFINE h == Head(s)
    <3>3. h \in Tasks
      BY <3>2
    <3> HIDE DEF h
    <3>4. <<h>> \in Seq(Tasks) /\ Range(<<h>>) = {h}
      BY <3>3 DEF Range
    <3>5. Woken(q) \in Seq(Tasks) /\ W = {Head(s)}
      BY <3>1, <3>4 DEF h
    <3> HIDE DEF r, s, W
    <3> QED
      BY <3>1, <3>2, <3>5
  <2> QED
    BY <2>1, <2>2
<1> HIDE DEF r
<1>4. /\ waiting' \in [Queues -> Seq(Tasks)] /\ waiting'[q] = r
      /\ \A p \in Queues \ {q} : waiting'[p] = waiting[p]
  BY <1>1, <1>3 DEF Base, ListInv
<1>5. \A p \in Queues : IsInjective(waiting'[p])
  BY <1>3, <1>4, Zenon DEF Base, ListInv
<1>6. CASE uxSchedulerSuspended = 0
  <2>1. /\ state' = [t \in All |-> IF t \in W THEN "ready" ELSE state[t]]
        /\ pendingReady' = pendingReady
    BY <1>6, Zenon DEF RemoveFromEventList
  <2>2. pendingReady' \in Seq(Tasks)
    BY <2>1 DEF Base, ListInv
  <2> HIDE DEF W, s
  <2> QED
    BY <1>3, <1>4, <1>5, <1>6, <2>1, <2>2 DEF W, s
<1>7. CASE uxSchedulerSuspended # 0
  <2>1. state' = state /\ pendingReady' = pendingReady \o Woken(q)
    BY <1>7, Zenon DEF RemoveFromEventList
  <2>2. pendingReady' \in Seq(Tasks) /\ Range(pendingReady') = Range(pendingReady) \union W
    BY <1>3, <2>1, AppendRange DEF Base, ListInv
  <2> HIDE DEF W, s
  <2> QED
    BY <1>3, <1>4, <1>5, <1>7, <2>1, <2>2 DEF W, s
<1> QED
  BY <1>6, <1>7

(* The lists after a give, by a task to a mutex or from an interrupt to an *)
(* unlocked queue.                                                         *)
LEMMA RemoveKeeps ==
  ASSUME Base, NEW q \in Queues, RemoveFromEventList(q), NEW t,
         UNCHANGED <<step, wake, left, xTickCount, xNextTaskUnblockTime>>,
         \A u \in Tasks \ {t} : Call(u)' = Call(u),
         t \in Tasks => t = pxCurrentTCB /\ step[t] = "call" /\ state[t] = "ready",
         \/ uxSchedulerSuspended = 0
         \/ cTxLock[q] = -1 /\ t \notin Tasks
  PROVE  /\ LinkInv' /\ TimeInv'
         /\ \A u \in All : state[u] = "ready" => state'[u] = "ready"
         /\ \A u \in Range(Woken(q)) : u \in Tasks /\ step[u] \in {"resume", "yield", "call"}
                                       /\ state[u] = "suspended" /\ Takes(u, q)
<1> DEFINE W == Range(Woken(q))
<1>1. /\ waiting' \in [Queues -> Seq(Tasks)]
      /\ \A p \in Queues \ {q} : waiting'[p] = waiting[p]
      /\ W \subseteq Range(waiting[q]) /\ Range(waiting'[q]) = Range(waiting[q]) \ W
  BY RemoveEffects, Zenon
<1>2. /\ uxSchedulerSuspended = 0 =>
              /\ state' = [u \in All |-> IF u \in W THEN "ready" ELSE state[u]]
              /\ pendingReady' = pendingReady
      /\ uxSchedulerSuspended # 0 =>
              state' = state /\ Range(pendingReady') = Range(pendingReady) \union W
  BY RemoveEffects, Zenon
<1>3. Range(waiting[q]) \subseteq Tasks
  BY RangeOf DEF Base, ListInv
<1> HIDE DEF W
<1>4. ASSUME NEW u \in W
      PROVE  /\ u \in Tasks /\ step[u] \in {"resume", "yield", "call"} /\ state[u] = "suspended"
             /\ Takes(u, q) /\ u \notin Range(pendingReady)
  <2>1. u \in Tasks /\ u \in Range(waiting[q])
    BY <1>1, <1>3
  <2>2. /\ Takes(u, q) /\ u \notin Range(pendingReady)
        /\ \/ step[u] = "block"
           \/ step[u] \in {"unlock", "resume", "yield", "call"} /\ state[u] = "suspended"
    BY <2>1 DEF Base, LinkInv, LinkOK
  <2>3. step[u] \notin {"block", "unlock"}
    <3>1. CASE uxSchedulerSuspended = 0
      BY <2>1, <3>1, Others DEF Base
    <3>2. CASE cTxLock[q] = -1
      <4>1. step[u] \in {"block", "unlock"} => u = pxCurrentTCB /\ step[u] \in LockSteps
        BY <2>1, StepSets DEF Base, SchedInv
      <4> QED
        BY <2>1, <2>2, <3>2, <4>1 DEF Base, LockInv
    <3> QED
      BY <3>1, <3>2
  <2> QED
    BY <2>1, <2>2, <2>3
<1>5. state' \in [All -> Lists] /\ \A u \in All : state'[u] \in {state[u], "ready"}
  BY <1>2 DEF Base, TimeInv, SchedInv, Lists
<1>6. TimeInv'
  <2>1. \A u \in Tasks : /\ state'[u] = "delayed" => state[u] = "delayed"
                         /\ state'[u] = "overflow" => state[u] = "overflow"
                         /\ state'[u] \in {"ready", "suspended"} => state[u] \in {"ready", "suspended"}
    BY <1>2, <1>4, <1>5, TickFacts DEF Base, SchedInv
  <2> QED
    BY <1>5, <2>1 DEF Base, TimeInv
<1>7. ASSUME NEW u \in Tasks PROVE LinkOK(u)'
  <2>1. /\ \A p \in Queues : u \in Range(waiting'[p]) <=>
                               u \in Range(waiting[p]) /\ ~(p = q /\ u \in W)
        /\ u \in W => u \in Range(waiting[q])
    BY <1>1
  <2>2. LinkOK(u) /\ PlaceInv /\ u \in All /\ step'[u] = step[u]
    BY TickFacts DEF Base, LinkInv
  <2>3. CASE u \in W
    <3>1. step[u] \in {"resume", "yield", "call"} /\ state[u] = "suspended" /\ Takes(u, q)
      BY <1>4, <2>3
    <3>2. \A p \in Queues : u \notin Range(waiting'[p])
      BY <2>1, <2>2, <2>3, <3>1 DEF LinkOK, Takes
    <3>3. CASE uxSchedulerSuspended = 0
      <4>1. state'[u] = "ready" /\ u \notin Range(pendingReady')
        BY <1>2, <1>4, <2>2, <2>3, <3>3
      <4> QED
        BY <2>2, <3>1, <3>2, <4>1 DEF LinkOK
    <3>4. CASE uxSchedulerSuspended # 0
      <4>1. state'[u] = "suspended"
        BY <1>2, <3>1, <3>4
      <4> QED
        BY <2>2, <3>1, <3>2, <4>1 DEF LinkOK
    <3> QED
      BY <3>3, <3>4
  <2>4. CASE u \notin W
    <3>1. /\ state'[u] = state[u]
          /\ u \in Range(pendingReady') <=> u \in Range(pendingReady)
          /\ \A p \in Queues : u \in Range(waiting'[p]) <=> u \in Range(waiting[p])
      BY <1>2, <2>1, <2>2, <2>4 DEF Base, SchedInv
    <3>2. CASE u # t
      BY <2>2, <3>1, <3>2, LinkSame
    <3>3. CASE u = t
      BY <2>2, <3>1, <3>3 DEF LinkOK
    <3> QED
      BY <3>2, <3>3
  <2> QED
    BY <2>3, <2>4
<1>8. LinkInv'
  BY <1>7 DEF LinkInv
<1>9. \A u \in All : state[u] = "ready" => state'[u] = "ready"
  BY <1>5
<1> QED
  BY <1>4, <1>6, <1>8, <1>9 DEF W

(* Giving a mutex back. *)
LEMMA GiveKeeps ==
  ASSUME NumberFacts, Base, NEW t \in Tasks, t = pxCurrentTCB, ~pendsv, Give(t), Moves(t, "call")
  PROVE  Rest'
<1> DEFINE m == Call(t).arg
<1>1. /\ step[t] = "call" /\ m \in Mutexes /\ m \in Queues
      /\ RemoveFromEventList(m)
      /\ xYieldPending' \in BOOLEAN /\ pendsv' \in BOOLEAN
      /\ UNCHANGED <<step, wake, left, cTxLock, xTickCount, xNextTaskUnblockTime, xPendedTicks,
                     pxCurrentTCB, uxSchedulerSuspended>>
  <2>1. m \in Mutexes
    BY CallArgument, Zenon DEF Base, Give
  <2>2. m \in Queues
    BY <2>1, ConstantFacts
  <2> QED
    BY <2>1, <2>2, Zenon DEF Give, timeVars
<1> HIDE DEF m
<1>2. state[t] = "ready" /\ uxSchedulerSuspended = 0 /\ pendingReady = <<>>
  BY <1>1, StepSets, Running
<1>3. \A u \in Tasks \ {t} : Call(u)' = Call(u)
  BY MoveFacts DEF Base
<1>4. LinkInv' /\ TimeInv' /\ \A u \in All : state[u] = "ready" => state'[u] = "ready"
  BY <1>1, <1>2, <1>3, RemoveKeeps
<1>5. /\ waiting' \in [Queues -> Seq(Tasks)] /\ \A p \in Queues : IsInjective(waiting'[p])
      /\ pendingReady' \in Seq(Tasks) /\ pendingReady' = pendingReady
  BY <1>1, <1>2, RemoveEffects
<1>6. ListInv'
  BY <1>1, <1>5, Zenon DEF Base, ListInv
<1>7. "call" \notin SuspSteps /\ "call" \notin LockSteps
  BY StepSets
<1>8. LockInv'
  BY <1>1, <1>7, LockKept DEF Base
<1>9. SchedInv'
  <2>1. PlaceInv /\ SchedInv
    BY DEF Base
  <2>2. state'[t] = "ready" /\ uxSchedulerSuspended' = 0 /\ pendingReady' = <<>>
    BY <1>1, <1>2, <1>4, <1>5, TickFacts
  <2> QED
    BY <1>1, <1>7, <2>1, <2>2, SchedKept
<1> QED
  BY <1>4, <1>6, <1>8, <1>9 DEF Rest

(* xQueueGiveFromISR and xQueueSendFromISR. *)
LEMMA ISRKeeps ==
  ASSUME NumberFacts, Base, NEW q \in Queues, GiveFromISR(q)
  PROVE  Rest' /\ UNCHANGED <<pc, step>>
<1>1. /\ q \in Queues \ Mutexes
      /\ UNCHANGED <<pc, step, wake, left, xTickCount, xNextTaskUnblockTime, xPendedTicks,
                     pxCurrentTCB, uxSchedulerSuspended>>
  BY Zenon DEF GiveFromISR, taskVars, timeVars
<1>2. /\ \A u : Call(u)' = Call(u)
      /\ \A u, p : Takes(u, p)' <=> Takes(u, p)
  BY <1>1 DEF Call, Takes
<1>3. ASSUME pendsv' \in BOOLEAN, pendsv => pendsv', xYieldPending' \in BOOLEAN,
             cTxLock' = cTxLock, RemoveFromEventList(q), cTxLock[q] = -1
      PROVE  Rest'
  <2>1. LinkInv' /\ TimeInv' /\ \A u \in All : state[u] = "ready" => state'[u] = "ready"
    <3> DEFINE none == NoTask
    <3>1. none \notin Tasks
      BY ConstantFacts
    <3> HIDE DEF none
    <3> QED
      BY <1>1, <1>2, <1>3, <3>1, RemoveKeeps
  <2>2. /\ waiting' \in [Queues -> Seq(Tasks)] /\ \A p \in Queues : IsInjective(waiting'[p])
        /\ pendingReady' \in Seq(Tasks) /\ (uxSchedulerSuspended = 0 => pendingReady' = pendingReady)
        /\ uxSchedulerSuspended # 0 => state' = state
    BY <1>3, RemoveEffects
  <2>3. ListInv'
    BY <1>1, <1>3, <2>2, Zenon DEF Base, ListInv
  <2>4. LockInv'
    BY <1>1, <1>2, <1>3, Zenon DEF Base, LockInv
  <2>5. SchedInv'
    BY <1>1, <1>3, <2>1, <2>2 DEF Base, SchedInv
  <2> QED
    BY <2>1, <2>3, <2>4, <2>5 DEF Rest
<1>4. ASSUME pendsv' \in BOOLEAN, pendsv => pendsv', UNCHANGED <<waiting, state, pendingReady, xYieldPending>>,
             \/ cTxLock' = cTxLock
             \/ cTxLock[q] # -1 /\ cTxLock' = [cTxLock EXCEPT ![q] = IF @ < Cardinality(All) THEN @ + 1 ELSE @]
      PROVE  Rest'
  <2>1. TimeInv'
    BY <1>1, <1>4 DEF Base, TimeInv
  <2>2. LinkInv'
    BY <1>1, <1>2, <1>4, LinkSame DEF Base, LinkInv
  <2>3. SchedInv'
    BY <1>1, <1>4, Zenon DEF Base, SchedInv
  <2>4. /\ cTxLock' \in [Queues -> Int] /\ \A p \in Queues : cTxLock'[p] \in -1 .. Cardinality(All)
        /\ \A p \in Queues : cTxLock'[p] # -1 <=> cTxLock[p] # -1
        /\ \A m \in Mutexes : cTxLock'[m] <= 0
    <3> DEFINE c == Cardinality(All)
    <3>1. c \in Nat /\ cTxLock \in [Queues -> Int] /\ \A p \in Queues : cTxLock[p] \in -1 .. c
      BY AllFinite DEF Base, ListInv
    <3>2. \A m \in Mutexes : cTxLock[m] <= 0
      BY DEF Base, ListInv
    <3>3. \/ cTxLock' = cTxLock
          \/ cTxLock[q] # -1 /\ cTxLock' = [cTxLock EXCEPT ![q] = IF @ < c THEN @ + 1 ELSE @]
      BY <1>4, Zenon
    <3> HIDE DEF c
    <3>4. /\ cTxLock' \in [Queues -> Int] /\ \A p \in Queues : cTxLock'[p] \in -1 .. c
          /\ \A p \in Queues : cTxLock'[p] # -1 <=> cTxLock[p] # -1
          /\ \A m \in Mutexes : cTxLock'[m] = cTxLock[m]
      BY <1>1, <3>1, <3>3, ConstantFacts
    <3> QED
      BY <3>2, <3>4 DEF c
  <2>5. LockInv'
    BY <1>1, <1>2, <2>4, Zenon DEF Base, LockInv
  <2>6. ListInv'
    BY <1>1, <1>4, <2>4, Zenon DEF Base, ListInv
  <2> QED
    BY <2>1, <2>2, <2>3, <2>5, <2>6 DEF Rest
<1>5. \/ /\ pendsv' \in BOOLEAN /\ (pendsv => pendsv') /\ xYieldPending' \in BOOLEAN
         /\ cTxLock' = cTxLock /\ RemoveFromEventList(q) /\ cTxLock[q] = -1
      \/ /\ pendsv' \in BOOLEAN /\ (pendsv => pendsv') /\ UNCHANGED <<waiting, state, pendingReady, xYieldPending>>
         /\ \/ cTxLock' = cTxLock
            \/ cTxLock[q] # -1 /\ cTxLock' = [cTxLock EXCEPT ![q] = IF @ < Cardinality(All) THEN @ + 1 ELSE @]
  <2>1. pendsv \in BOOLEAN
    BY Zenon DEF Base, ListInv
  <2> QED
    BY <2>1, Zenon DEF GiveFromISR
<1> QED
  BY <1>1, <1>3, <1>4, <1>5, Zenon

(* The queues' lengths; a mutex has one item. *)
LEMMA LengthFacts ==
  /\ \A q \in Queues : Length[q] \in Nat \ {0}
  /\ \A m \in Mutexes : Length[m] = 1
  BY KernelAssumption

(* They keep the mutexes and priorities consistent. *)
LEMMA TaskKeepsHolders ==
  ASSUME PlaceInv, HolderInv, NEW t \in Tasks, TaskStep(t)
  PROVE  HolderInv'
<1> USE ConstantFacts
<1>1. CASE Take(t)
  <2> DEFINE q == Call(t).arg
  <2>0. q \in Queues
    BY <1>1, CallArgument, Zenon DEF Take
  <2>1. CASE /\ uxMessagesWaiting' = [uxMessagesWaiting EXCEPT ![q] = @ - 1]
             /\ xMutexHolder' = IF q \in Mutexes THEN [xMutexHolder EXCEPT ![q] = t]
                                ELSE xMutexHolder
             /\ uxMessagesWaiting[q] > 0
    <3> HIDE DEF q
    <3>1. uxPriority' = uxPriority
      BY <1>1, Zenon DEF Take
    <3>2. CASE q \in Mutexes
      <4>1. xMutexHolder[q] = NoTask /\ uxMessagesWaiting[q] = 1 /\ t # NoTask
        BY <2>1, <3>2 DEF HolderInv
      <4>2. /\ xMutexHolder' \in [Mutexes -> Tasks \union {NoTask}]
            /\ uxMessagesWaiting' \in [Queues -> Int]
            /\ \A k \in Queues : uxMessagesWaiting'[k] \in 0 .. Length[k]
        BY <2>1, <3>2, LengthFacts DEF HolderInv
      <4>3. /\ xMutexHolder'[q] = t /\ uxMessagesWaiting'[q] = 0
            /\ \A m \in Mutexes \ {q} : /\ xMutexHolder'[m] = xMutexHolder[m]
                                        /\ uxMessagesWaiting'[m] = uxMessagesWaiting[m]
        BY <2>1, <3>2, <4>1 DEF HolderInv
      <4>4. \A m \in Mutexes : uxMessagesWaiting'[m] = IF xMutexHolder'[m] = NoTask THEN 1 ELSE 0
        BY <4>1, <4>3 DEF HolderInv
      <4>5. OnlyHoldersRaised'
        <5> SUFFICES ASSUME NEW u \in Tasks, uxPriority[u] # Priority[u]
                     PROVE  \E m \in Mutexes : xMutexHolder'[m] = u
          BY <3>1 DEF OnlyHoldersRaised
        <5>1. PICK m \in Mutexes : xMutexHolder[m] = u
          BY DEF HolderInv, OnlyHoldersRaised
        <5> QED
          BY <4>1, <4>3, <5>1
      <4> QED
        BY <3>1, <4>2, <4>4, <4>5 DEF HolderInv
    <3>3. CASE q \notin Mutexes
      <4>1. /\ xMutexHolder' = xMutexHolder /\ uxMessagesWaiting' \in [Queues -> Int]
            /\ \A m \in Mutexes : uxMessagesWaiting'[m] = uxMessagesWaiting[m]
            /\ \A k \in Queues : uxMessagesWaiting'[k] \in 0 .. Length[k]
        BY <2>1, <2>0, <3>3, LengthFacts DEF HolderInv
      <4> QED
        BY <3>1, <4>1 DEF HolderInv, OnlyHoldersRaised
    <3> QED
      BY <3>2, <3>3
  <2>2. CASE UNCHANGED <<uxMessagesWaiting, xMutexHolder>>
    BY <1>1, <2>2 DEF Take, HolderInv, OnlyHoldersRaised
  <2> QED
    BY <1>1, <2>1, <2>2, Zenon DEF Take
<1>2. CASE Give(t)
  <2> DEFINE m == Call(t).arg
             prio == IF \E k \in Mutexes \ {m} : xMutexHolder[k] = t THEN uxPriority
                     ELSE [uxPriority EXCEPT ![t] = Priority[t]]
  <2>1. /\ xMutexHolder[m] = t
        /\ uxMessagesWaiting' = [uxMessagesWaiting EXCEPT ![m] = @ + 1]
        /\ xMutexHolder' = [xMutexHolder EXCEPT ![m] = NoTask]
        /\ uxPriority' = prio
        /\ m \in Mutexes
    BY <1>2, CallArgument, Zenon DEF Give, PriorityDisinherit
  <2> HIDE DEF m
  <2>2. t # NoTask /\ t \in All /\ Priority[t] \in Nat
    BY DEF All
  <2>3. /\ uxPriority' \in [All -> Nat]
        /\ xMutexHolder' \in [Mutexes -> Tasks \union {NoTask}]
        /\ uxMessagesWaiting' \in [Queues -> Int]
    BY <2>1, <2>2 DEF HolderInv
  <2>4. ASSUME NEW k \in Mutexes
        PROVE  uxMessagesWaiting'[k] = IF xMutexHolder'[k] = NoTask THEN 1 ELSE 0
    <3>1. CASE k = m
      <4>1. uxMessagesWaiting[m] = 0 /\ m \in Mutexes /\ m \in Queues
        BY <2>1, <2>2, <3>1 DEF HolderInv
      <4> QED
        BY <2>1, <3>1, <4>1 DEF HolderInv
    <3>2. CASE k # m
      BY <2>1, <3>2 DEF HolderInv
    <3> QED
      BY <3>1, <3>2
  <2>5. OnlyHoldersRaised'
    <3> SUFFICES ASSUME NEW u \in Tasks, uxPriority'[u] # Priority[u]
                 PROVE  \E k \in Mutexes : xMutexHolder'[k] = u
      BY DEF OnlyHoldersRaised
    <3>1. uxPriority[u] # Priority[u] /\ (u = t => \E k \in Mutexes \ {m} : xMutexHolder[k] = t)
      BY <2>1, <2>2 DEF HolderInv, All
    <3>2. PICK k \in Mutexes \ {m} : xMutexHolder[k] = u
      BY <2>1, <3>1 DEF HolderInv, OnlyHoldersRaised
    <3> QED
      BY <2>1, <3>2 DEF HolderInv
  <2>6. \A k \in Queues : uxMessagesWaiting'[k] \in 0 .. Length[k]
    <3>1. uxMessagesWaiting'[m] \in {0, 1} /\ Length[m] = 1
      BY <2>1, <2>4, LengthFacts
    <3> QED
      BY <2>1, <3>1, LengthFacts DEF HolderInv
  <2> QED
    BY <2>3, <2>4, <2>5, <2>6 DEF HolderInv
<1>3. CASE PriorityInherit(t)
  <2> DEFINE h == xMutexHolder[Call(t).arg]
  <2>1. /\ UNCHANGED <<uxMessagesWaiting, xMutexHolder>>
        /\ uxPriority' = IF h # NoTask /\ uxPriority[h] < uxPriority[t]
                         THEN [uxPriority EXCEPT ![h] = uxPriority[t]] ELSE uxPriority
        /\ Call(t).arg \in Mutexes
    BY <1>3 DEF PriorityInherit, queueVars, PlaceInv, StepFits
  <2>2. h # NoTask => h \in Tasks /\ \E m \in Mutexes : xMutexHolder[m] = h
    BY <2>1 DEF HolderInv
  <2> HIDE DEF h
  <2> QED
    BY <2>1, <2>2 DEF HolderInv, OnlyHoldersRaised, All
<1>4. CASE SuspendAll(t) \/ LockQueue(t) \/ IsQueueEmpty(t)
           \/ PlaceOnEventList(t) \/ BlockForEver(t) \/ UnlockQueue(t)
           \/ Resume(t) \/ Yield(t) \/ ResumeRetry(t)
           \/ AddCurrentTaskToDelayedList(t) \/ SbrkDone(t)
  <2>1. UNCHANGED <<uxPriority, xMutexHolder, uxMessagesWaiting>>
    BY <1>4, Zenon
    DEF SuspendAll, LockQueue, IsQueueEmpty, PlaceOnEventList, BlockForEver, UnlockQueue,
        Resume, Yield, ResumeRetry, ResumeAll, AddCurrentTaskToDelayedList, SbrkDone,
        queueVars
  <2> QED
    BY <2>1 DEF HolderInv, OnlyHoldersRaised
<1> QED
  BY <1>1, <1>2, <1>3, <1>4, Zenon DEF TaskStep

(* An interrupt handler keeps them too, and does not touch a mutex. *)
LEMMA ISRKeepsHolders ==
  ASSUME HolderInv, NEW q \in Queues, GiveFromISR(q)
  PROVE  HolderInv'
<1>1. /\ q \notin Mutexes /\ UNCHANGED <<uxPriority, xMutexHolder>>
      /\ \/ uxMessagesWaiting' = uxMessagesWaiting
         \/ /\ uxMessagesWaiting[q] < Length[q]
            /\ uxMessagesWaiting' = [uxMessagesWaiting EXCEPT ![q] = @ + 1]
  BY Zenon DEF GiveFromISR
<1>2. /\ uxMessagesWaiting' \in [Queues -> Int]
      /\ \A m \in Mutexes : uxMessagesWaiting'[m] = uxMessagesWaiting[m]
      /\ \A k \in Queues : uxMessagesWaiting'[k] \in 0 .. Length[k]
  BY <1>1, ConstantFacts, LengthFacts DEF HolderInv
<1> QED
  BY <1>1, <1>2 DEF HolderInv, OnlyHoldersRaised

(* Each of a task's steps keeps the invariant. *)
LEMMA TaskKeepsBase ==
  ASSUME NumberFacts, Base, NEW t \in Tasks, t = pxCurrentTCB, ~pendsv, TaskStep(t)
  PROVE  Base'
<1>1. PlaceInv /\ HolderInv
  BY DEF Base
<1>2. HolderInv'
  BY <1>1, TaskKeepsHolders
<1>3. Goes(t)
  BY <1>1, TaskGoes
<1>4. PlaceInv'
  BY <1>1, <1>3, MoveFacts, Zenon DEF Goes
<1>5. Rest'
  <2>1. CASE Take(t) /\ (Moves(t, "call") \/ Moves(t, "suspend"))
    BY <2>1, TakeKeeps
  <2>2. CASE SuspendAll(t) /\ \E s \in {"suspended", "delay", "sbrk"} : Moves(t, s)
    BY <2>2, SuspendKeeps
  <2>3. CASE LockQueue(t) /\ Moves(t, "locked") /\ pc' = pc
    BY <2>3, LockQueueKeeps
  <2>4. CASE /\ pc' = pc
             /\ \/ IsQueueEmpty(t) /\ \E s \in {"unlock_retry", "inherit", "insert"} : Moves(t, s)
                \/ PriorityInherit(t) /\ Moves(t, "insert")
    BY <2>4, IsEmptyKeeps, Zenon
  <2>5. CASE PlaceOnEventList(t) /\ Moves(t, "block") /\ pc' = pc
    BY <2>5, PlaceOnListKeeps
  <2>6. CASE BlockForEver(t) /\ Moves(t, "unlock") /\ pc' = pc
    BY <2>6, BlockKeeps
  <2>7. CASE /\ UnlockQueue(t) /\ pc' = pc
             /\ \/ step[t] = "unlock" /\ Moves(t, "resume")
                \/ step[t] = "unlock_retry" /\ Moves(t, "resume_retry")
    BY <2>7, UnlockKeeps, Zenon
  <2>8. CASE Resume(t) /\ Moves(t, IF xYieldPending' THEN "call" ELSE "yield")
    <3>1. ResumeAll /\ step[t] = "resume" /\ (Call(t).op = "delay" \/ pc' = pc)
      BY <2>8, Zenon DEF Resume
    <3>2. Call(t).op = "take" => pc' = pc
      BY <3>1
    <3> QED
      BY <2>8, <3>1, <3>2, ResumeKeeps, Zenon
  <2>9. CASE Yield(t) /\ Moves(t, "call")
    BY <2>9, YieldKeeps
  <2>10. CASE (ResumeRetry(t) \/ SbrkDone(t)) /\ Moves(t, "call")
    <3>1. ResumeAll /\ step[t] \in {"resume_retry", "sbrk"}
      BY <2>10, Zenon DEF ResumeRetry, SbrkDone
    <3> QED
      BY <2>10, <3>1, ResumeKeeps, Zenon
  <2>11. CASE Give(t) /\ Moves(t, "call")
    BY <2>11, GiveKeeps
  <2>12. CASE AddCurrentTaskToDelayedList(t) /\ Moves(t, "resume") /\ pc' = pc
    BY <2>12, DelayKeeps
  <2> QED
    BY <1>3, <2>1, <2>2, <2>3, <2>4, <2>5, <2>6, <2>7, <2>8, <2>9, <2>10, <2>11, <2>12, Zenon DEF Goes
<1> QED
  BY <1>2, <1>4, <1>5, Zenon DEF Base, Rest

(* So does every step of the kernel. *)
LEMMA NextKeepsBase ==
  ASSUME NumberFacts, Base, [Next]_vars
  PROVE  Base'
<1>1. CASE Run
  BY <1>1, TaskKeepsBase DEF Run
<1>2. ASSUME Rest', UNCHANGED <<pc, step, uxPriority, xMutexHolder, uxMessagesWaiting>> PROVE Base'
  <2>1. PlaceInv'
    BY <1>2, Zenon DEF Base, PlaceInv, Call
  <2>2. HolderInv'
    BY <1>2, Zenon DEF Base, HolderInv, OnlyHoldersRaised
  <2> QED
    BY <1>2, <2>1, <2>2, Zenon DEF Base, Rest
<1>3. CASE Tick
  BY <1>2, <1>3, TickKeeps
<1>4. CASE SwitchContext
  BY <1>2, <1>4, SwitchKeeps
<1>5. ASSUME NEW q \in Queues, GiveFromISR(q) PROVE Base'
  <2>1. Rest' /\ UNCHANGED <<pc, step>>
    BY <1>5, ISRKeeps
  <2>2. HolderInv'
    BY <1>5, ISRKeepsHolders DEF Base
  <2>3. PlaceInv'
    BY <2>1, Zenon DEF Base, PlaceInv, Call
  <2> QED
    BY <2>1, <2>2, <2>3, Zenon DEF Base, Rest
<1>6. CASE UNCHANGED vars
  <2>1. UNCHANGED <<pc, step, state, wake, left, waiting, pendingReady, uxMessagesWaiting, xMutexHolder,
                    cTxLock, xTickCount, xNextTaskUnblockTime, xPendedTicks, pxCurrentTCB, uxPriority,
                    uxSchedulerSuspended, xYieldPending, pendsv>>
    BY <1>6, Zenon DEF vars, taskVars, listVars, queueVars, timeVars
  <2>2. PlaceInv' /\ HolderInv' /\ TimeInv'
    BY <2>1, Zenon DEF Base, PlaceInv, Call, HolderInv, OnlyHoldersRaised, TimeInv
  <2>3. ListInv' /\ SchedInv'
    BY <2>1, Zenon DEF Base, ListInv, SchedInv
  <2>4. \A u : Call(u)' = Call(u)
    BY <2>1 DEF Call
  <2>5. LockInv'
    BY <2>1, <2>4, Zenon DEF Base, LockInv, Takes
  <2>6. LinkInv'
    BY <2>1, <2>4, LinkSame DEF Base, LinkInv
  <2> QED
    BY <2>2, <2>3, <2>5, <2>6, Zenon DEF Base
<1> QED
  BY <1>1, <1>3, <1>4, <1>5, <1>6, Zenon DEF Next

(* It implies the type invariant, and that delays are exact. *)
LEMMA BaseTypes == Base => TypeOK /\ DelaysExact
<1> SUFFICES ASSUME Base PROVE TypeOK /\ DelaysExact
  OBVIOUS
<1>1. pc \in [Tasks -> Nat \ {0}] /\ step \in [Tasks -> Steps]
  <2>1. \A t \in Tasks : pc[t] \in Nat \ {0}
    BY KernelAssumption DEF Base, PlaceInv
  <2> QED
    BY <2>1 DEF Base, PlaceInv
<1>2. pxCurrentTCB \in All /\ uxSchedulerSuspended \in 0 .. 1
  BY DEF Base, SchedInv
<1>3. /\ state \in [All -> Lists] /\ wake \in [Tasks -> 0 .. MaxDelay]
      /\ left \in [Tasks -> 0 .. MaxDelay]
      /\ xTickCount \in 0 .. MaxDelay /\ xNextTaskUnblockTime \in 0 .. MaxDelay
  BY DEF Base, TimeInv
<1>4. /\ uxPriority \in [All -> Nat] /\ xMutexHolder \in [Mutexes -> Tasks \union {NoTask}]
      /\ \A q \in Queues : uxMessagesWaiting[q] \in 0 .. Length[q]
  BY DEF Base, HolderInv
<1>5. cTxLock \in [Queues -> -1 .. Cardinality(All)]
  BY DEF Base, ListInv
<1>6. TypeOK
  BY <1>1, <1>2, <1>3, <1>4, <1>5, Zenon DEF Base, ListInv, TypeOK
<1>7. ASSUME NEW t \in Tasks
      PROVE  /\ state[t] \in {"delayed", "overflow"} <=> left[t] > 0
             /\ xTickCount = MaxDelay => state[t] # "delayed"
  <2>1. /\ xTickCount \in 0 .. MaxDelay /\ wake[t] \in 0 .. MaxDelay /\ left[t] \in 0 .. MaxDelay
        /\ state[t] \in Lists
    BY <1>3, TickFacts
  <2> QED
    BY <2>1, TickFacts DEF Base, TimeInv, Lists
<1>8. DelaysExact
  BY <1>7 DEF DelaysExact
<1> QED
  BY <1>6, <1>8
=============================================================================

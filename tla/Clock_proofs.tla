--------------------------- MODULE Clock_proofs ---------------------------
(***************************************************************************)
(* What remains true of RtTimedOut: a wait within one month is never told  *)
(* early that it has timed out, whatever the limit, whether the clock      *)
(* works, and however coarse Stall is.  The inductive invariant says that  *)
(* inside a month RtNow counts exactly the seconds that have begun.        *)
(***************************************************************************)
EXTENDS Clock, TLAPS

Sizes == DaySecs \in Nat \ {0} /\ Every \in Nat \ {0} /\ PerSecond \in Nat \ {0} /\ Limit \in Nat \ {0}

Dates == [year : Nat, month : Nat, day : Nat, sec : 0..(DaySecs - 1)]

TypeInv ==
    /\ date \in Dates /\ start \in Nat /\ spins \in Nat /\ elapsed \in Nat
    /\ sameMonth \in BOOLEAN /\ phase \in {"idle", "waiting", "answered", "timedout"}

InStep == phase = "waiting" /\ start # 0 /\ sameMonth => Seconds(date) = start + elapsed
Paced == phase = "waiting" => spins <= (elapsed + 1) * PerSecond

Inv == TypeInv /\ InStep /\ Paced /\ NeverEarlyInMonth

\* One second more is one second more for RtNow, unless the month ends (Clock's NextDay).
LEMMA SecondsGoOn ==
    ASSUME Sizes, NEW d \in Dates, NextSecond(d).month = d.month
    PROVE  NextSecond(d) \in Dates /\ Seconds(NextSecond(d)) = Seconds(d) + 1
<1>1. CASE d.sec + 1 < DaySecs
  <2>1. NextSecond(d) = [d EXCEPT !.sec = d.sec + 1]
    BY <1>1 DEF NextSecond
  <2>2. /\ NextSecond(d).year = d.year /\ NextSecond(d).month = d.month
        /\ NextSecond(d).day = d.day /\ NextSecond(d).sec = d.sec + 1
        /\ NextSecond(d) \in Dates
    BY <2>1, <1>1 DEF Dates, Sizes
  <2>3. (d.year * 372 + d.month * 31 + d.day) * DaySecs \in Int
    BY DEF Dates, Sizes
  <2> QED BY <2>2, <2>3 DEF Seconds, Dates
<1>2. CASE ~(d.sec + 1 < DaySecs)
  <2>1. d.sec = DaySecs - 1
    BY <1>2 DEF Dates, Sizes
  <2>2. CASE d.day < MonthDays(d.year, d.month)
    <3>1. NextSecond(d) = [d EXCEPT !.day = d.day + 1, !.sec = 0]
      BY <1>2, <2>2 DEF NextSecond, NextDay
    <3>2. /\ NextSecond(d).year = d.year /\ NextSecond(d).month = d.month
          /\ NextSecond(d).day = d.day + 1 /\ NextSecond(d).sec = 0
          /\ NextSecond(d) \in Dates
      <4>1. d.day + 1 \in Nat /\ 0 \in 0..(DaySecs - 1)
        BY DEF Dates, Sizes
      <4> QED BY <3>1, <4>1 DEF Dates
    <3> DEFINE n == d.year * 372 + d.month * 31 + d.day
    <3>3. n \in Int /\ DaySecs \in Int
      BY DEF Dates, Sizes
    <3>4. Seconds(NextSecond(d)) = (n + 1) * DaySecs + 0
      BY <3>2 DEF Seconds, Dates
    <3>5. Seconds(d) = n * DaySecs + (DaySecs - 1)
      BY <2>1 DEF Seconds
    <3> HIDE DEF n
    <3>6. (n + 1) * DaySecs = n * DaySecs + DaySecs /\ n * DaySecs \in Int
      BY <3>3
    <3> QED BY <3>2, <3>3, <3>4, <3>5, <3>6
  <2>3. CASE ~(d.day < MonthDays(d.year, d.month)) /\ d.month < 12
    <3>1. NextSecond(d).month = d.month + 1
      BY <1>2, <2>3 DEF NextSecond, NextDay, Dates
    <3> QED BY <3>1 DEF Dates
  <2>4. CASE ~(d.day < MonthDays(d.year, d.month)) /\ ~(d.month < 12)
    <3>1. NextSecond(d).month = 1
      BY <1>2, <2>4 DEF NextSecond, NextDay, Dates
    <3> QED BY <3>1, <2>4 DEF Dates
  <2> QED BY <2>2, <2>3, <2>4
<1> QED BY <1>1, <1>2

\* Whatever the date, the next second is a date.
LEMMA NextIsDate ==
    ASSUME Sizes, NEW d \in Dates
    PROVE  NextSecond(d) \in Dates
<1>1. NextDay(d) \in Dates
  <2>1. /\ d.day + 1 \in Nat /\ d.month + 1 \in Nat /\ d.year + 1 \in Nat
        /\ 1 \in Nat /\ 0 \in 0..(DaySecs - 1)
    BY DEF Dates, Sizes
  <2>2. [d EXCEPT !.day = d.day + 1, !.sec = 0] \in Dates
    BY <2>1 DEF Dates
  <2>3. [d EXCEPT !.month = d.month + 1, !.day = 1, !.sec = 0] \in Dates
    BY <2>1 DEF Dates
  <2>4. [year |-> d.year + 1, month |-> 1, day |-> 1, sec |-> 0] \in Dates
    BY <2>1 DEF Dates
  <2> QED BY <2>2, <2>3, <2>4 DEF NextDay
<1>2. d.sec + 1 < DaySecs => [d EXCEPT !.sec = d.sec + 1] \in Dates
  BY DEF Dates, Sizes
<1> QED BY <1>1, <1>2 DEF NextSecond

\* The step Spin: what RtTimedOut's two ways out mean for the seconds that have begun.
LEMMA TimedOutLate ==
    ASSUME Sizes, TypeInv, InStep, Paced, phase = "waiting", sameMonth,
           NEW now \in RtNow, NEW n \in Nat, n <= (elapsed + 1) * PerSecond, RtTimedOut(n, now)
    PROVE  elapsed > Limit
<1>1. CASE start # 0 /\ now # 0 /\ now > start /\ now - start > Limit + 1
  <2>1. now = start + elapsed
    BY <1>1 DEF RtNow, InStep
  <2> QED BY <2>1, <1>1 DEF TypeInv, Sizes
<1>2. CASE n > Limit * PerSecond * 4
  <2>1. (elapsed + 1) * PerSecond > (Limit * 4) * PerSecond
    BY <1>2 DEF TypeInv, Sizes
  <2>2. ASSUME elapsed + 1 <= Limit * 4 PROVE FALSE
    <3>1. (elapsed + 1) * PerSecond <= (Limit * 4) * PerSecond
      BY <2>2 DEF TypeInv, Sizes
    <3> QED BY <3>1, <2>1 DEF TypeInv, Sizes
  <2> QED BY <2>2 DEF TypeInv, Sizes
<1> QED BY <1>1, <1>2 DEF RtTimedOut

LEMMA InvStep ==
    ASSUME Sizes, Inv, [Next]_vars
    PROVE  Inv'
<1> USE DEF Inv
<1>1. CASE Begin
  <2>1. Seconds(date) \in Nat /\ RtNow \subseteq Nat
    BY DEF RtNow, Seconds, TypeInv, Dates, Sizes
  <2>2. TypeInv'
    BY <1>1, <2>1 DEF Begin, TypeInv
  <2>3. InStep'
    BY <1>1, <2>1 DEF Begin, InStep, RtNow, Seconds
  <2>4. Paced' /\ NeverEarlyInMonth'
    BY <1>1 DEF Begin, Paced, NeverEarlyInMonth, NeverEarly, Sizes
  <2> QED BY <2>2, <2>3, <2>4
<1>2. CASE Answer
  BY <1>2 DEF Answer, TypeInv, InStep, Paced, NeverEarlyInMonth, NeverEarly
<1>3. CASE Spin
  <2>1. TypeInv'
    BY <1>3 DEF Spin, TypeInv
  <2>2. InStep'
    BY <1>3 DEF Spin, InStep, Seconds
  <2>3. spins' <= (elapsed + 1) * PerSecond /\ spins' \in Nat
    BY <1>3 DEF Spin, TypeInv, Sizes
  <2>4. Paced'
    BY <1>3, <2>3 DEF Spin, Paced
  <2>5. NeverEarlyInMonth'
    <3>1. SUFFICES ASSUME sameMonth, phase' = "timedout" PROVE elapsed > Limit
      BY <1>3 DEF Spin, NeverEarlyInMonth, NeverEarly
    <3>2. PICK now \in RtNow : phase' = IF RtTimedOut(spins', now) THEN "timedout" ELSE phase
      BY <1>3 DEF Spin
    <3>3. phase = "waiting" /\ RtTimedOut(spins', now)
      BY <1>3, <3>1, <3>2 DEF Spin
    <3> QED BY <3>1, <3>2, <3>3, <2>3, TimedOutLate
  <2> QED BY <2>1, <2>2, <2>4, <2>5
<1>4. CASE Second
  <2>1. date' \in Dates
    BY <1>4, NextIsDate DEF Second, TypeInv
  <2>2. TypeInv'
    BY <1>4, <2>1 DEF Second, TypeInv
  <2>3. InStep'
    <3>1. SUFFICES ASSUME phase = "waiting", start # 0, sameMonth'
                   PROVE  Seconds(date') = start + (elapsed + 1)
      BY <1>4 DEF Second, InStep, Seconds
    <3>2. sameMonth /\ date'.month = date.month /\ date' = NextSecond(date)
      BY <1>4, <3>1 DEF Second, TypeInv
    <3>3. Seconds(date') = Seconds(date) + 1
      BY <3>2, SecondsGoOn DEF TypeInv
    <3> QED BY <3>1, <3>2, <3>3 DEF InStep, TypeInv
  <2>4. Paced'
    <3>1. phase = "waiting" => (elapsed + 1) * PerSecond <= (elapsed + 1 + 1) * PerSecond
      BY DEF TypeInv, Sizes
    <3> QED BY <1>4, <3>1 DEF Second, Paced, TypeInv, Sizes
  <2>5. NeverEarlyInMonth'
    BY <1>4 DEF Second, NeverEarlyInMonth, NeverEarly
  <2> QED BY <2>2, <2>3, <2>4, <2>5
<1>5. CASE UNCHANGED vars
  BY <1>5 DEF vars, TypeInv, InStep, Paced, NeverEarlyInMonth, NeverEarly, Seconds
<1> QED BY <1>1, <1>2, <1>3, <1>4, <1>5 DEF Next

\* RtTimedOut is true once the wall clock says limitMs passed (uefirt.h:31), and not
\* before: so it is as long as the month does not change during the wait.
THEOREM NeverEarlyTheorem ==
    ASSUME Sizes
    PROVE  Spec => []NeverEarlyInMonth
<1>1. Init => Inv
  BY DEF Init, Inv, TypeInv, InStep, Paced, NeverEarlyInMonth, NeverEarly, Dates
<1>2. Inv /\ [Next]_vars => Inv'
  BY InvStep
<1>3. Inv => NeverEarlyInMonth
  BY DEF Inv
<1> QED BY <1>1, <1>2, <1>3, PTL DEF Spec
=============================================================================

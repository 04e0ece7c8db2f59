------------------------------- MODULE Clock -------------------------------
(***************************************************************************)
(* Time in src/files/uefirt.c: RtNow makes seconds of the firmware's date  *)
(* and time of day, RtTimedOut tells a wait that its limit has passed, by  *)
(* those seconds or, should the clock be broken, by counting spins.        *)
(*                                                                         *)
(* One wait, as WaitToken of net.c makes it (those of SshAccept, SshWrite  *)
(* and SshClose differ in what they wait for).  The world goes on by       *)
(* seconds; between two of them the wait may spin at most PerSecond times, *)
(* and any number fewer where Stall is coarse.                             *)
(***************************************************************************)
EXTENDS Integers

CONSTANTS
    DaySecs,    \* 86400
    Every,      \* the clock is read every so many spins (64)
    PerSecond,  \* spins in a second by the book: 1000000 \div usPerSpin
    Limit       \* limitMs in seconds (every limit of the code is whole seconds)

VARIABLES
    date,       \* the firmware's clock
    phase,      \* "idle", "waiting", "answered", "timedout"
    start,      \* RtNow() as the wait began
    spins,
    elapsed,    \* seconds that have begun since then
    sameMonth   \* has the month stayed the same since then?

vars == <<date, phase, start, spins, elapsed, sameMonth>>

----------------------------------------------------------------------------
\* The calendar of this century.
MonthDays(y, m) ==
    CASE m = 2 -> IF y % 4 = 0 THEN 29 ELSE 28
      [] m \in {4, 6, 9, 11} -> 30
      [] OTHER -> 31

NextDay(d) ==
    IF d.day < MonthDays(d.year, d.month) THEN [d EXCEPT !.day = @ + 1, !.sec = 0]
    ELSE IF d.month < 12 THEN [d EXCEPT !.month = @ + 1, !.day = 1, !.sec = 0]
    ELSE [year |-> d.year + 1, month |-> 1, day |-> 1, sec |-> 0]

NextSecond(d) == IF d.sec + 1 < DaySecs THEN [d EXCEPT !.sec = @ + 1] ELSE NextDay(d)

\* RtNow's arithmetic.  GetTime may fail, and then it is 0.
Seconds(d) == (d.year * 372 + d.month * 31 + d.day) * DaySecs + d.sec
RtNow == {0, Seconds(date)}

\* RtTimedOut, with the spins and the reading of the clock it is given.
RtTimedOut(n, now) ==
    \/ start # 0 /\ n % Every = 0 /\ now # 0 /\ now > start /\ now - start > Limit + 1
    \/ n > Limit * PerSecond * 4

----------------------------------------------------------------------------
Init ==
    /\ date \in {d \in [year : 1..4, month : 1..12, day : 1..31, sec : 0..(DaySecs - 1)] :
                    d.day <= MonthDays(d.year, d.month)}
    /\ phase = "idle" /\ start = 0 /\ spins = 0 /\ elapsed = 0 /\ sameMonth = TRUE

Begin ==
    /\ phase = "idle" /\ phase' = "waiting"
    /\ start' \in RtNow /\ spins' = 0 /\ elapsed' = 0 /\ sameMonth' = TRUE
    /\ UNCHANGED date

Answer ==
    /\ phase = "waiting" /\ phase' = "answered"
    /\ UNCHANGED <<date, start, spins, elapsed, sameMonth>>

\* One Stall and the test after it.  A Stall is never shorter than asked.
Spin ==
    /\ phase = "waiting" /\ spins < (elapsed + 1) * PerSecond
    /\ spins' = spins + 1
    /\ \E now \in RtNow : phase' = IF RtTimedOut(spins', now) THEN "timedout" ELSE phase
    /\ UNCHANGED <<date, start, elapsed, sameMonth>>

Second ==
    /\ phase \in {"idle", "waiting"}
    /\ date' = NextSecond(date)
    /\ sameMonth' = (sameMonth /\ date'.month = date.month)
    /\ elapsed' = IF phase = "waiting" THEN elapsed + 1 ELSE elapsed
    /\ UNCHANGED <<phase, start, spins>>

Next == Begin \/ Answer \/ Spin \/ Second

Spec == Init /\ [][Next]_vars

----------------------------------------------------------------------------
\* "Wall clock seconds from GetTime, only good for measuring elapsed time" (uefirt.h:28)
\* and "true once the wall clock says limitMs passed" (uefirt.h:31): no wait is told it
\* has timed out before Limit seconds have passed, that is, more than Limit have begun.
NeverEarly == phase = "timedout" => elapsed > Limit

\* The same for a wait that begins and ends in one month.
NeverEarlyInMonth == sameMonth => NeverEarly
=============================================================================

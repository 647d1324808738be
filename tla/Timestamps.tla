------------------------------ MODULE Timestamps ------------------------------
(***************************************************************************)
(* The NTP timestamps of src/common/timestamp.go: seconds of an era since  *)
(* 1900 and a binary fraction.  A time is a number of nanoseconds since    *)
(* the Unix epoch.  The widths are parameters, so that an era is short     *)
(* enough to be crossed.                                                   *)
(*                                                                         *)
(* The code multiplies by the factors NanoToFrac and FracToNano in         *)
(* float64 and truncates; for the values it is given that is the rounded   *)
(* down quotient below.                                                    *)
(***************************************************************************)
EXTENDS Integers

CONSTANTS
    EraSecs,        \* 2^32, the seconds of an era
    FracUnits,      \* 2^32, the units of a fraction
    NanosPerSec,    \* 10^9
    NTPEpochOffset  \* 2208988800, seconds from 1900 to 1970

ASSUME TimestampAssumption ==
    /\ NanosPerSec \in Nat \ {0}
    /\ FracUnits \in Nat /\ FracUnits > NanosPerSec
    /\ EraSecs \in Nat /\ EraSecs > 2 /\ EraSecs % 2 = 0
    /\ NTPEpochOffset \in 0 .. EraSecs - 1

NTPEra1Unix == EraSecs - NTPEpochOffset

TWAMPTimestamp == [Seconds : 0 .. EraSecs - 1, Fraction : 0 .. FracUnits - 1]

Unix(t) == t \div NanosPerSec
Nanosecond(t) == t % NanosPerSec

NanoToFrac(nanos) == (nanos * FracUnits) \div NanosPerSec
FracToNano(frac) == (frac * NanosPerSec) \div FracUnits

FromTime(t) ==
    [Seconds |-> (Unix(t) + NTPEpochOffset) % EraSecs,
     Fraction |-> NanoToFrac(Nanosecond(t))]

(* The timestamp as an interval.                                           *)
Duration_Faulty(ts) == ts.Seconds * NanosPerSec
Duration(ts) == ts.Seconds * NanosPerSec + FracToNano(ts.Fraction)

(* The timestamp as a time in the era of ref.                              *)
ToTimeWithReference(ts, ref) ==
    LET ntpSecs == IF Unix(ref) < NTPEra1Unix THEN ts.Seconds ELSE EraSecs + ts.Seconds
    IN  (ntpSecs - NTPEpochOffset) * NanosPerSec + FracToNano(ts.Fraction)

(* Seconds that are more than half an era apart are in different eras.     *)
SecondsBetween_Faulty(from, to) == to - from
SecondsBetween(from, to) ==
    CASE from - to > EraSecs \div 2 -> to + EraSecs - from
      [] to - from > EraSecs \div 2 -> to - (from + EraSecs)
      [] OTHER -> to - from

DurationBetween(start, end) ==
    LET borrow == IF end.Fraction < start.Fraction THEN 1 ELSE 0
        frac == end.Fraction + borrow * FracUnits - start.Fraction
    IN  (SecondsBetween(start.Seconds, end.Seconds) - borrow) * NanosPerSec + FracToNano(frac)

(* ts.Add(d) and ts.Sub(d), for d not negative.                            *)
Add_Faulty(ts, d) ==
    [Seconds |-> (ts.Seconds + d \div NanosPerSec) % EraSecs,
     Fraction |-> (ts.Fraction + NanoToFrac(d % NanosPerSec)) % FracUnits]
Add(ts, d) ==
    LET frac == ts.Fraction + NanoToFrac(d % NanosPerSec)
        carry == IF frac >= FracUnits THEN 1 ELSE 0
    IN  [Seconds |-> (ts.Seconds + d \div NanosPerSec + carry) % EraSecs,
         Fraction |-> frac - carry * FracUnits]

Sub(ts, d) ==
    LET frac == NanoToFrac(d % NanosPerSec)
        borrow == IF frac > ts.Fraction THEN 1 ELSE 0
    IN  [Seconds |-> (ts.Seconds - d \div NanosPerSec - borrow) % EraSecs,
         Fraction |-> ts.Fraction + borrow * FracUnits - frac]

Before(ts, other) ==
    \/ ts.Seconds < other.Seconds
    \/ ts.Seconds = other.Seconds /\ ts.Fraction < other.Fraction

After(ts, other) ==
    \/ ts.Seconds > other.Seconds
    \/ ts.Seconds = other.Seconds /\ ts.Fraction > other.Fraction
====

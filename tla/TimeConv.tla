------------------------------ MODULE TimeConv ------------------------------
(***************************************************************************)
(* The conversions of time: ac_time.c, ac_tsc.h and the TSC's frequency.   *)
(* Ticks are counted at freq per second; integers are taken modulo Word,   *)
(* as ac_u64 is modulo 2^64.  The seconds of an hour, and so on, are       *)
(* constants, so that small numbers reach every unit.                      *)
(***************************************************************************)
EXTENDS Integers, Sequences

CONSTANTS
  Word,        \* 2^64 in the code
  SecInNs,     \* AC_SEC_IN_NS
  SecsPer,     \* the seconds of a year, a day, an hour and a minute
  Freqs,       \* the frequencies the TSC may have
  Ticks,       \* the arguments, in ticks or nanoseconds
  Precisions   \* the digits after the point that are asked for

TimeConvAssumption ==
  /\ Word \in Nat \ {0} /\ SecInNs \in Nat \ {0}
  /\ SecsPer \in Seq(Nat \ {0}) /\ SecsPer # <<>>
  /\ Freqs \subseteq Nat \ {0} /\ Ticks \subseteq Nat /\ Precisions \subseteq Nat

\* 10 to the p.
Pow10(p) ==
  LET f[i \in 0 .. p] == IF i = 0 THEN 1 ELSE f[i - 1] * 10
  IN f[p]

\* The results, and what the conversions compute on the way to them, fit in a word.
NoOverflow ==
  /\ \A p \in Precisions : 2 * Pow10(p) < Word
  /\ \A f \in Freqs :
       /\ 2 * SecInNs * f < Word
       /\ \A n \in Ticks : /\ n + f < Word
                           /\ (n \div SecInNs) * f + f < Word
                           /\ (n \div f) * SecInNs + SecInNs < Word

VARIABLES
  freq,   \* ac_tsc_freq()
  asked,  \* the argument of the last call: its kind, its value and the precision
  answer  \* its result

tcvars == <<freq, asked, answer>>

\* Mutant of DivRoundUp: no rounding.
DivDown(x, y) == x \div y
\* AC_U64_DIV_ROUND_UP adds the remainder to x, where y - 1 would round up.
DivRoundUp(x, y) == ((x + (x % y)) % Word) \div y

\* The machine starts with the frequency not known; ac_tsc_init is Calibrate.
Init == freq = 0 /\ asked = [op |-> "none"] /\ answer = <<>>

\* ac_tsc_init measures a 20th of a second; ac_tsc_set_freq is for the tests.
Calibrate(f) ==
  /\ freq' = f
  /\ asked' = [op |-> "none"] /\ answer' = <<>>

Call(op, v, p) == freq # 0 /\ asked' = [op |-> op, v |-> v, p |-> p] /\ UNCHANGED freq

\* AcTime_nanos_to_ticks and ac_ns_to_ticks, which the waits use: the seconds and
\* what is left are converted one by one.
NanosToTicks(n) ==
  /\ Call("nanos_to_ticks", n, 0)
  /\ answer' = <<((n \div SecInNs) * freq + DivRoundUp((n % SecInNs) * freq, SecInNs)) % Word>>

TicksToNanos(n) ==
  /\ Call("ticks_to_nanos", n, 0)
  /\ answer' = <<((n \div freq) * SecInNs + DivRoundUp((n % freq) * SecInNs, freq)) % Word>>

\* round_ticks_based_on_precision: half a unit of the last digit that is printed,
\* if that is a tick at all.
Up(p) ==
  LET up[i \in 0 .. p] == IF i = 0 THEN 2 ELSE (up[i - 1] * 10) % Word
  IN up[p]
Rounded(n, p) == (n + IF Up(p) <= freq THEN DivRoundUp(freq, Up(p)) ELSE 0) % Word

\* sub_sec_to_str: p digits by long division, zeros when nothing is left.
SubSecLeft(rest, p) ==
  LET left[i \in 0 .. p] == IF i = 0 THEN rest
                            ELSE (left[i - 1] * 10) - ((left[i - 1] * 10) \div freq) * freq
  IN left
SubSec(rest, p) == [i \in 1 .. p |-> (SubSecLeft(rest, p)[i - 1] * 10) \div freq]

\* The seconds are split: per unit how many of it, the seconds that are left last.
SecsLeft(secs) ==
  LET left[i \in 0 .. Len(SecsPer)] == IF i = 0 THEN secs ELSE left[i - 1] % SecsPer[i]
  IN left
Split(secs) ==
  [i \in 1 .. Len(SecsPer) + 1 |->
     IF i > Len(SecsPer) THEN SecsLeft(secs)[i - 1] ELSE SecsLeft(secs)[i - 1] \div SecsPer[i]]

\* The first unit that is printed: leading ones that are zero are not unless leading0,
\* the seconds always are.
Printed(units, leading0) ==
  LET P == {i \in 1 .. Len(units) : leading0 \/ units[i] # 0 \/ i = Len(units)}
  IN CHOOSE i \in P : \A j \in P : i <= j

\* AcTime_ticks_to_seconds_str: <<seconds, digits>>.
Seconds(n, p) ==
  /\ Call("seconds", n, p)
  /\ LET t == Rounded(n, p)
     IN answer' = <<t \div freq, SubSec(t % freq, p)>>

\* AcTime_ticks_to_duration_str: <<first unit printed, units, digits>>.
Duration(n, p, leading0) ==
  /\ Call("duration", n, p)
  /\ LET t == Rounded(n, p)
         units == Split(t \div freq)
     IN answer' = <<Printed(units, leading0), units, SubSec(t % freq, p)>>

Next ==
  \/ \E f \in Freqs : Calibrate(f)
  \/ \E n \in Ticks : NanosToTicks(n) \/ TicksToNanos(n)
  \/ \E n \in Ticks, p \in Precisions :
       Seconds(n, p) \/ \E leading0 \in BOOLEAN : Duration(n, p, leading0)

Spec == Init /\ [][Next]_tcvars

-----------------------------------------------------------------------------
(* Properties                                                              *)

Abs(x) == IF x < 0 THEN -x ELSE x

\* The number that digits print, in units of the last digit.
Number(whole, digits) ==
  LET v[i \in 0 .. Len(digits)] == IF i = 0 THEN whole ELSE v[i - 1] * 10 + digits[i]
  IN v[Len(digits)]

\* A number printed with p digits is the time to half a unit of its last digit, and
\* the half tick that the rounding itself was rounded by; with more digits than
\* ticks it is cut off.
IsNearest(v, n, p) ==
  LET err == v * freq - n * Pow10(p)
  IN IF 2 * Pow10(p) > freq THEN err \in (1 - freq) .. 0
     ELSE 2 * Abs(err) <= freq + Pow10(p)

\* The seconds that the units from the first one printed amount to.
Total(first, units) ==
  LET s[i \in 0 .. Len(units)] ==
        IF i < first THEN 0
        ELSE s[i - 1] + units[i] * (IF i > Len(SecsPer) THEN 1 ELSE SecsPer[i])
  IN s[Len(units)]

\* The conversions of whole and split seconds are as exact as one division would
\* be, at most half a unit off; and what is printed, carried over into the seconds,
\* minutes and so on, is the nearest number with its digits, of which no unit is
\* left out and none is as long as the next.
TimeIsNearest ==
  /\ asked.op = "nanos_to_ticks" => 2 * Abs(answer[1] * SecInNs - asked.v * freq) <= SecInNs
  /\ asked.op = "ticks_to_nanos" => 2 * Abs(answer[1] * freq - asked.v * SecInNs) <= freq
  /\ asked.op = "seconds" => IsNearest(Number(answer[1], answer[2]), asked.v, asked.p)
  /\ asked.op = "duration" =>
       LET first == answer[1]
           units == answer[2]
       IN /\ IsNearest(Number(Total(first, units), answer[3]), asked.v, asked.p)
          /\ \A i \in 2 .. Len(SecsPer) : units[i] * SecsPer[i] < SecsPer[i - 1]
          /\ units[Len(units)] < SecsPer[Len(SecsPer)]

\* What "Divide x / y and round up the result" promises the waits: a wait for so
\* many nanoseconds is not over before they are.
WaitsLongEnough ==
  asked.op = "nanos_to_ticks" => answer[1] * SecInNs >= asked.v * freq
=============================================================================

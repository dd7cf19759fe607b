-------------------------------- MODULE Time --------------------------------
(***************************************************************************)
(* time.hpp: duration (seconds in a u64, nanoseconds in a u32 below one    *)
(* second) and the two points in time built on it: instant, read from a    *)
(* clock that never goes back, and system_time, read from one that an      *)
(* administrator or ntp may set back.                                      *)
(*                                                                         *)
(* The numbers are scaled: Kilo stands for 1000 (so a second has Kilo^3    *)
(* nanoseconds), Hundred for the literal 100 of from_micros, and MaxSecs   *)
(* for the largest u64.  A call that throws is the empty set of results.   *)
(***************************************************************************)
EXTENDS Integers, FiniteSets

CONSTANTS Kilo, Hundred, MaxSecs, Readings, Kinds

VARIABLES kind,   \* which of the two classes the point t belongs to
          t,      \* the point: a duration since startup, or since the epoch
          d,      \* a duration the program computes with
          clock,  \* the clock's last reading; kept for the monotonic clock only
          call    \* the last call and whether it threw

timeVars == <<kind, t, d, clock, call>>

Second == Kilo * Kilo * Kilo

Wrap(n) == n % (MaxSecs + 1)

duration(secs, nanos) == [secs |-> secs, nanos |-> nanos]

Durations == {duration(s, n) : s \in 0..MaxSecs, n \in 0..(Second - 1)}

zero == duration(0, 0)
max == duration(MaxSecs, Second - 1)
Constants == {zero, max, duration(1, 0), duration(0, Kilo * Kilo),
              duration(0, Kilo), duration(0, 1)}

from_secs(n) == duration(n, 0)
from_millis(n) == duration(n \div Kilo, (n % Kilo) * Kilo * Kilo)
from_micros(n) == duration(n \div (Kilo * Kilo), (n % (Kilo * Kilo)) * Hundred)
from_nanos(n) == duration(n \div Second, n % Second)

is_zero(x) == x.secs = 0 /\ x.nanos = 0
subsec_millis(x) == x.nanos \div Kilo
subsec_micros(x) == x.nanos \div (Kilo * Kilo)
as_millis(x) == Wrap(x.secs * Kilo + x.nanos \div (Kilo * Kilo))
as_micros(x) == Wrap(x.secs * Kilo * Kilo + x.nanos \div Kilo)
as_nanos(x) == Wrap(x.secs * Second + x.nanos)

Equal(x, y) == x.secs = y.secs /\ x.nanos = y.nanos
Less(x, y) == x.secs < y.secs \/ (x.secs = y.secs /\ x.nanos < y.nanos)
LessEqual(x, y) == Less(x, y) \/ Equal(x, y)
Greater(x, y) == Less(y, x) /\ ~Equal(x, y)
GreaterEqual(x, y) == Less(y, x) \/ Equal(x, y)

\* The six comparisons of two durations, of two instants and of two
\* system_times: those of the durations inside.
Compared(x, y) ==
  [eq |-> Equal(x, y), ne |-> ~Equal(x, y), lt |-> Less(x, y), gt |-> Greater(x, y),
   le |-> LessEqual(x, y), ge |-> GreaterEqual(x, y)]
compare_instants(x, y) == Compared(x, y)
compare_system_times(x, y) == Compared(x, y)

\* The sum both additions compute, before the test for overflow.
Sum(x, y) ==
  LET nanos == x.nanos + y.nanos
  IN  duration(Wrap(x.secs + y.secs + nanos \div Second), nanos % Second)

\* Mutant: the wrapped sum is compared with one operand only.
ComparedWithOne(x, y) == Sum(x, y).secs < x.secs

Overflowed(x, y) == Sum(x, y).secs < x.secs \/ Sum(x, y).secs < y.secs

checked_add(x, y) == IF Overflowed(x, y) THEN {} ELSE {Sum(x, y)}

saturating_add(x, y) == IF Overflowed(x, y) THEN max ELSE Sum(x, y)

Difference(x, y) ==
  IF x.nanos < y.nanos
  THEN duration(Wrap(x.secs - y.secs - 1), Second + x.nanos - y.nanos)
  ELSE duration(Wrap(x.secs - y.secs), x.nanos - y.nanos)

checked_sub(x, y) == IF Less(x, y) THEN {} ELSE {Difference(x, y)}

\* Mutant: the difference wraps where it should stop at zero.
Wrapping(x, y) == Difference(x, y)

saturating_sub(x, y) == IF Less(x, y) THEN zero ELSE Difference(x, y)

\* From t to the reading r.
saturating_duration_since(r) == saturating_sub(r, t)
checked_duration_since(r) == checked_sub(r, t)

\* narrow_cast<time_t>: the upper half of u64 does not fit a signed time_t.
to_timespec(x) == IF x.secs > MaxSecs \div 2 THEN {} ELSE {x}

\* What clock_gettime may report now: any time for the realtime clock, none
\* before the last reading for the monotonic one.
clock_gettime ==
  {r \in Readings : kind = "instant" => LessEqual(clock, r)}

Returns(name, results, x) ==
  /\ call' = [name |-> name, threw |-> results = {}]
  /\ x' = IF results = {} THEN x ELSE CHOOSE r \in results : TRUE

Read(r) == clock' = IF kind = "instant" THEN r ELSE zero

Init ==
  /\ kind \in Kinds
  /\ t \in IF kind = "instant" THEN Readings ELSE {zero}
  /\ clock = IF kind = "instant" THEN t ELSE zero
  /\ d = zero
  /\ call = [name |-> "none", threw |-> FALSE]

\* duration d = duration::from_...(n), or one of the named constants.
From ==
  /\ \/ \E n \in 0..MaxSecs :
          d' \in {from_secs(n), from_millis(n), from_micros(n), from_nanos(n)}
     \/ d' \in Constants
  /\ call' = [name |-> "from", threw |-> FALSE]
  /\ UNCHANGED <<kind, t, clock>>

\* t = instant::now() or system_time::now().
now ==
  /\ \E r \in clock_gettime : t' = r /\ Read(r)
  /\ call' = [name |-> "now", threw |-> FALSE]
  /\ UNCHANGED <<kind, d>>

\* d = t.elapsed().
elapsed ==
  /\ \E r \in clock_gettime : d' = saturating_duration_since(r) /\ Read(r)
  /\ call' = [name |-> "elapsed", threw |-> FALSE]
  /\ UNCHANGED <<kind, t>>

\* d = now().checked_duration_since(t), checked_sub(t) for a system_time.
checked_since ==
  /\ \E r \in clock_gettime :
       Returns("checked_since", checked_duration_since(r), d) /\ Read(r)
  /\ UNCHANGED <<kind, t>>

\* t = t.checked_add(d) and t = t.checked_sub(d), of system_time only.
Shift ==
  /\ kind = "system_time"
  /\ \/ Returns("add", checked_add(t, d), t)
     \/ Returns("sub", checked_sub(t, d), t)
  /\ UNCHANGED <<kind, d, clock>>

\* d = d.op(c) for a duration c.
Compute ==
  /\ \E c \in Constants :
       \/ Returns("checked_add", checked_add(d, c), d)
       \/ Returns("saturating_add", {saturating_add(d, c)}, d)
       \/ Returns("checked_sub", checked_sub(d, c), d)
       \/ Returns("saturating_sub", {saturating_sub(d, c)}, d)
       \/ Returns("to_timespec", to_timespec(d), d)
  /\ UNCHANGED <<kind, t, clock>>

Next == From \/ now \/ elapsed \/ checked_since \/ Shift \/ Compute

Spec == Init /\ [][Next]_timeVars

-----------------------------------------------------------------------------

\* The whole number of nanoseconds, with no width.
Exact(x) == x.secs * Second + x.nanos

\* The overflow the test of time.hpp:131 and :144 does not see: the two
\* largest second counts with a carry wrap to a sum that is not below either.
Unseen(x, y) ==
  x.secs = MaxSecs /\ y.secs = MaxSecs /\ x.nanos + y.nanos >= Second

\* TimeExact: whatever sequence of readings, conversions and sums produced
\* the two values, their nanoseconds stay below a second; the six comparisons
\* order them as their exact lengths do; the checked operations throw exactly
\* when the exact result does not fit, and otherwise are exact; the saturating
\* ones stop at zero and at max.  The one sum for which that is not so is
\* Unseen (time.hpp:123-186, 201-236).
TimeExact ==
  LET room == Exact(max)
      sum == Exact(t) + Exact(d)
  IN  /\ {t, d} \subseteq Durations
      /\ LessEqual(t, d) <=> Exact(t) <= Exact(d)
      /\ GreaterEqual(t, d) <=> Exact(t) >= Exact(d)
      /\ Greater(t, d) <=> Exact(t) > Exact(d)
      /\ is_zero(d) <=> Exact(d) = 0
      /\ ~Unseen(t, d) =>
           /\ {Exact(x) : x \in checked_add(t, d)} = {sum} \cap 0..room
           /\ Exact(saturating_add(t, d)) = IF sum > room THEN room ELSE sum
      /\ {Exact(x) : x \in checked_sub(t, d)} = {Exact(t) - Exact(d)} \cap 0..room
      /\ Exact(saturating_sub(t, d)) =
           IF Exact(t) < Exact(d) THEN 0 ELSE Exact(t) - Exact(d)
      /\ \A n \in 0..MaxSecs : /\ as_millis(from_millis(n)) = n
                               /\ as_nanos(from_nanos(n)) = n

\* ElapsedSane: an interval measured from t is never longer than the clock's
\* reading, and for an instant, whose clock never goes back, it is exact and
\* checked_duration_since does not throw; for a system_time a clock that was
\* set back gives zero, or the throw (time.hpp:272-289, 354-381).  An instant read
\* later is not before one read earlier; checked_sub throws exactly when the
\* system_time to subtract is the later one.
ElapsedSane ==
  /\ call'.name = "elapsed" /\ kind = "instant" => Exact(t) + Exact(d') = Exact(clock')
  /\ call'.name = "elapsed" => \E r \in Readings : Exact(d') \in {0, Exact(r) - Exact(t)}
  /\ call'.name = "checked_since" /\ kind = "instant" => ~call'.threw
  /\ call'.name = "now" /\ kind = "instant" =>
       compare_instants(t', t).ge /\ ~compare_instants(t', t).lt
  /\ kind = "system_time" =>
       (call'.name = "sub" => call'.threw = compare_system_times(t, d).lt)

=============================================================================

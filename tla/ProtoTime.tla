------------------------------ MODULE ProtoTime ------------------------------
(***************************************************************************)
(* The Duration and the Timestamp of prost-extend: their normalisation and *)
(* their conversions to and from the standard library and chrono, with the *)
(* widths of the integers as parameters: seconds are i64, nanoseconds i32. *)
(***************************************************************************)
EXTENDS Integers

CONSTANTS
  NS,          \* NANOS_PER_SECOND
  Max64, Max32,  \* i64::MAX and i32::MAX
  ChronoBefore, ChronoMax,  \* the seconds of a chrono DateTime, before and after 1970
  ChronoSpan   \* the longest chrono::Duration, in seconds

ASSUME TimeAssumption ==
  /\ NS \in Nat /\ NS > 1
  /\ Max64 \in Nat /\ 3 <= Max64
  /\ Max32 \in (2 * NS)..(3 * NS - 2)
  /\ {ChronoBefore, ChronoMax, ChronoSpan} \subseteq 0..Max64

Min64 == -Max64 - 1
Min32 == -Max32 - 1
ChronoMin == -ChronoBefore
I64 == Min64..Max64
I32 == Min32..Max32
NANOS_MAX == NS - 1
Time == [seconds : I64, nanos : I32]
At(s, n) == [seconds |-> s, nanos |-> n]

Magnitude(i) == IF i < 0 THEN -i ELSE i
(* Rust's division rounds towards zero, and the remainder keeps the sign.  *)
Quot(a, b) == IF a < 0 THEN -((-a) \div b) ELSE a \div b
Rem(a, b) == a - b * Quot(a, b)

Value(t) == t.seconds * NS + t.nanos
-----------------------------------------------------------------------------
(* The first half of both normalisations: whole seconds out of nanos; what *)
(* does not fit is the least or the greatest normal value.                 *)
CarryOverflow(t, least, greatest) ==
  LET carried == t.seconds + Quot(t.nanos, NS)
  IN CASE t.nanos \in -NANOS_MAX..NANOS_MAX -> t
       [] OTHER -> IF t.nanos < 0 /\ carried < Min64 THEN least
                   ELSE IF carried > Max64 THEN greatest
                   ELSE At(carried, Rem(t.nanos, NS))

(* Mutated form: the additions are not checked.                            *)
Wrap(i) == ((i - Min64) % (2 * Max64 + 2)) + Min64
CarryWrapping(t, least, greatest) ==
  IF t.nanos \in -NANOS_MAX..NANOS_MAX THEN t
  ELSE At(Wrap(t.seconds + Quot(t.nanos, NS)), Rem(t.nanos, NS))
Carry(t, least, greatest) == CarryOverflow(t, least, greatest)

(* Duration::normalize: then nanos gets the sign of seconds.  Its last two *)
(* checked operations cannot fail: they move seconds towards zero.         *)
SameSign(d) ==
  CASE d.seconds < 0 /\ d.nanos > 0 -> At(d.seconds + 1, d.nanos - NS)
    [] d.seconds > 0 /\ d.nanos < 0 -> At(d.seconds - 1, d.nanos + NS)
    [] OTHER -> d

NormalDuration(d) == SameSign(Carry(d, At(Min64, -NANOS_MAX), At(Max64, NANOS_MAX)))

(* Timestamp::normalize: then nanos becomes positive.                      *)
BorrowUnchecked(t) ==   \* mutated form: nanos of the earliest second is lost
  IF t.nanos >= 0 THEN t ELSE At(Wrap(t.seconds - 1), t.nanos + NS)
Borrow(t) ==
  CASE t.nanos >= 0 -> t
    [] t.nanos < 0 /\ t.seconds > Min64 -> At(t.seconds - 1, t.nanos + NS)
    [] OTHER -> At(Min64, 0)

NormalTimestamp(t) == Borrow(Carry(t, At(Min64, 0), At(Max64, NANOS_MAX)))
-----------------------------------------------------------------------------
Ok(v) == [is |-> "ok", v |-> v]
Err(e, v) == [is |-> e, v |-> v]
Panic == [is |-> "panic", v |-> At(0, 0)]

(* TryFrom<time::Duration>: its seconds are u64.                           *)
FromStd(d) ==
  IF d.seconds > Max64 THEN Err("out of range", At(0, 0)) ELSE Ok(NormalDuration(d))

(* TryFrom<Duration> for time::Duration; NegativeDuration carries the      *)
(* magnitude.  Negating the least i64 panics where overflow is checked,    *)
(* and gives the right u64 where it is not.                                *)
ToStdByValue(d, checks) == LET n == NormalDuration(d) IN   \* mutated form
  IF n.seconds >= 0 THEN Ok(n) ELSE Err("negative", At(-n.seconds, -n.nanos))
ToStd(d, checks) ==
  LET n == NormalDuration(d)
  IN CASE n.seconds >= 0 /\ n.nanos >= 0 -> Ok(n)
       [] n.seconds = Min64 /\ checks -> Panic
       [] OTHER -> Err("negative", At(-n.seconds, -n.nanos))

(* A chrono::Duration is an exact number of nanoseconds.                   *)
ToChrono(d) ==
  IF Magnitude(d.seconds) > ChronoSpan \/ Magnitude(Value(d)) > ChronoSpan * NS THEN Panic
  ELSE Ok(d)

(* From<chrono::Duration>: num_nanoseconds has to be an i64.               *)
FromChronoFloor(v) == Ok(At(v \div NS, v % NS))   \* mutated form
FromChrono(v) == IF v \in I64 THEN Ok(At(Quot(v, NS), Rem(v, NS))) ELSE Panic

(* A DateTime counts its leap seconds in nanos, from NS on.                *)
TimestampFromCut(dt) == At(dt.seconds, dt.nanos % NS)   \* mutated form
TimestampFrom(dt) == At(dt.seconds, dt.nanos)
ToDateTime(t) ==
  LET n == NormalTimestamp(t)
  IN IF n.seconds \in ChronoMin..ChronoMax THEN Ok(n) ELSE Err("out of range", At(0, 0))

(* abs of the least i64 panics where overflow is checked, and is itself,   *)
(* with its minus sign, where it is not.                                   *)
Abs(i) == IF i = Min64 THEN i ELSE Magnitude(i)

ShownAsIs(d, checks) ==   \* mutated form
  [is |-> IF d.seconds = Min64 /\ checks THEN "panic" ELSE "ok",
   minus |-> d.seconds < 0 /\ d.nanos < 0,
   digits |-> At(Abs(d.seconds), Magnitude(d.nanos))]

(* Display of Duration: the digits, and whether a minus sign is put before *)
(* them.  The nanos of a normal duration have an absolute value.           *)
Shown(d, checks) ==
  LET n == NormalDuration(d)
  IN [is |-> IF n.seconds = Min64 /\ checks THEN "panic" ELSE "ok",
      minus |-> d.seconds < 0 /\ d.nanos < 0,
      digits |-> At(Abs(n.seconds), Magnitude(n.nanos))]
-----------------------------------------------------------------------------
VARIABLE x   \* a time as it comes over the wire

TimeInit == x \in Time

(* normalize, in place.                                                    *)
Normalise == x' \in {NormalDuration(x), NormalTimestamp(x)}
-----------------------------------------------------------------------------
Clamp(v, lo, hi) == IF v < lo THEN lo ELSE IF v > hi THEN hi ELSE v

(* Duration::normalize keeps the value, or goes to the nearest end of what *)
(* can be represented, in the one form in which nanos is less than a       *)
(* second and has the sign of seconds.                                     *)
DurationIsNormal ==
  LET n == NormalDuration(x)
  IN /\ n \in Time
     /\ n.nanos \in -NANOS_MAX..NANOS_MAX
     /\ n.seconds * n.nanos >= 0
     /\ Value(n) = Clamp(Value(x), Min64 * NS - NANOS_MAX, Max64 * NS + NANOS_MAX)

(* Timestamp::normalize keeps the value, or goes to the nearest end, with  *)
(* nanos counted up from its second.                                       *)
TimestampIsNormal ==
  LET n == NormalTimestamp(x)
  IN /\ n \in Time
     /\ n.nanos \in 0..NANOS_MAX
     /\ Value(n) = Clamp(Value(x), Min64 * NS, Max64 * NS + NANOS_MAX)

(* Both normalisations, Duration's and Timestamp's.                        *)
NormalForms == DurationIsNormal /\ TimestampIsNormal

(* The magnitude that NegativeDuration carries is that of the duration, as *)
(* its doc says, and every other duration comes back from std unchanged.   *)
StdMagnitude ==
  LET r == ToStd(x, FALSE)
  IN IF Value(x) < 0
     THEN /\ r.is = "negative"
          /\ Value(r.v) = -Value(NormalDuration(x))
          /\ ToStd(x, TRUE) = r \/ NormalDuration(x).seconds = Min64
     ELSE r.is = "ok" /\ FromStd(r.v) = Ok(NormalDuration(x))

(* A duration that chrono can hold comes back normalised, or not at all.   *)
ChronoRoundTrip ==
  LET r == ToChrono(x)
  IN r.is = "ok" =>
       LET b == FromChrono(Value(r.v))
       IN IF Value(x) \in I64 THEN b = Ok(NormalDuration(x)) ELSE b.is = "panic"

(* A DateTime survives its Timestamp, but for a leap second, which becomes *)
(* the second after it.                                                    *)
DateTimeRoundTrip ==
  x.seconds \in ChronoMin..(ChronoMax - 1) /\ x.nanos \in 0..(2 * NS - 1) =>
    ToDateTime(TimestampFrom(x)) =
      Ok(IF x.nanos < NS THEN x ELSE At(x.seconds + 1, x.nanos - NS))

(* The digits that Display prints are those of the duration, and a minus   *)
(* sign is never wrong, though it may be missing; but for the durations of *)
(* the least second, which panic or, unchecked, get digits that are not    *)
(* theirs.                                                                 *)
ShownMagnitude ==
  \A checks \in BOOLEAN :
    LET n == NormalDuration(x)
        s == Shown(x, checks)
    IN /\ s.is = "ok" /\ Value(s.digits) = Magnitude(Value(n)) <=> n.seconds # Min64
       /\ s.is = "panic" => checks
       /\ s.minus => Value(x) < 0

(* The conversions lose nothing but what they say.                         *)
Conversions == StdMagnitude /\ ChronoRoundTrip /\ DateTimeRoundTrip /\ ShownMagnitude
=============================================================================

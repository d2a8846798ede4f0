--------------------------------- MODULE Numbers ---------------------------------
(***************************************************************************)
(* Integers of a width (rtc_base/numerics): conversions that check or      *)
(* saturate, comparisons and minima across types, arithmetic modulo M and  *)
(* the order and unwrapping of sequence numbers; and dates, timestamps     *)
(* that wrap around and NTP times (rtc_base/time_utils.cc and              *)
(* system_wrappers).  The widths of the four sizes of integer and of a     *)
(* timestamp, the bits of the fraction of an NTP time and the factor from  *)
(* one scale of time to the next are parameters; everything else is the    *)
(* code's.  Real numbers are exact.                                        *)
(***************************************************************************)
EXTENDS Integers, Sequences, FiniteSets

CONSTANTS Width,       \* bits of the integers of size 1, 2, 3, 4 (8 to 64 in the code)
          PointerSize, \* the size of int*: 3 or 4
          Bits,        \* width of the value of a unit
          K,           \* 1000, a multiple of 8
          TimestampBits, \* 32
          FractionBits,  \* 32
          Milli,         \* milliseconds in a second and microseconds in a millisecond
          MaxWraps       \* bound: how far the numbers go

VARIABLES handler,          \* TimestampWrapAroundHandler: last_ts_, num_wrap_
          stored,           \* history: the number whose timestamp last_ts_ is
          number,           \* history: the number whose timestamp was unwrapped last
          unwrapped_number  \* what Unwrap returned for it

vars == <<handler, stored, number, unwrapped_number>>

Types == [size : 1 .. 4, signed : BOOLEAN]
Signed(size) == [size |-> size, signed |-> TRUE]
Unsigned(size) == [size |-> size, signed |-> FALSE]

Exponent(t) == Width[t.size] - IF t.signed THEN 1 ELSE 0
Lowest(t) == IF t.signed THEN -(2^Exponent(t)) ELSE 0
Highest(t) == 2^Exponent(t) - 1
Holds(t, v) == Lowest(t) <= v /\ v <= Highest(t)

(* static_cast: the value modulo the width.                                *)
Cast(t, v) == Lowest(t) + ((v - Lowest(t)) % (2^Width[t.size]))

(* The values where something can go wrong.                                *)
Edges(t) == {v \in {Lowest(t), Lowest(t) + 1, -2, -1, 0, 1, 2, Highest(t) - 1, Highest(t)}
                     \cup {2^i : i \in 0 .. Width[4] - 1} \cup {2^i - 1 : i \in 0 .. Width[4] - 1} :
               Holds(t, v)}

-----------------------------------------------------------------------------
(* safe_conversions *)

ContainsRange(dst, src) ==
  CASE dst.signed = src.signed -> Exponent(dst) >= Exponent(src)
    [] dst.signed /\ ~src.signed -> Exponent(dst) >= Width[src.size]
    [] ~dst.signed /\ src.signed -> FALSE

BoundsResult(in_upper, in_lower) ==
  (IF in_upper THEN {} ELSE {"OVERFLOW"}) \cup (IF in_lower THEN {} ELSE {"UNDERFLOW"})

(* The set of what is wrong; empty is TYPE_VALID.  A bound of dst is cast  *)
(* to src before it is compared.                                           *)
RangeCheck(dst, src, v) ==
  LET in_upper == v <= Cast(src, Highest(dst))
      in_lower == v >= Cast(src, Lowest(dst))
  IN  CASE ContainsRange(dst, src) -> {}
        [] dst.signed /\ src.signed -> BoundsResult(in_upper, in_lower)
        [] ~dst.signed /\ ~src.signed -> BoundsResult(in_upper, TRUE)
        [] dst.signed /\ ~src.signed ->
             IF dst.size > src.size THEN {} ELSE BoundsResult(in_upper, TRUE)
        [] ~dst.signed /\ src.signed ->
             IF Width[dst.size] >= Exponent(src) THEN BoundsResult(TRUE, v >= 0)
                                                 ELSE BoundsResult(in_upper, v >= 0)

IsValueInRange(dst, src, v) == RangeCheck(dst, src, v) = {}

saturated_cast(dst, src, v) ==
  LET wrong == RangeCheck(dst, src, v)
  IN  CASE wrong = {} -> Cast(dst, v)
        [] wrong = {"UNDERFLOW"} -> Lowest(dst)
        [] wrong = {"OVERFLOW"} -> Highest(dst)

(* A value is in range exactly if the type holds it, and a saturated cast  *)
(* gives the nearest value of the type.                                    *)
ConversionsAgree(dst, src) ==
  \A v \in Edges(src) :
    /\ IsValueInRange(dst, src, v) <=> Holds(dst, v)
    /\ saturated_cast(dst, src, v) =
         IF v < Lowest(dst) THEN Lowest(dst) ELSE IF v > Highest(dst) THEN Highest(dst) ELSE v

-----------------------------------------------------------------------------
(* safe_compare *)

(* Is there a signed type larger than t, no larger than u or a pointer.    *)
LargerInt(t, u) == (t.size < u.size \/ t.size < PointerSize) /\ t.size < 4

Op(op, a, b) ==
  CASE op = "Lt" -> a < b [] op = "Le" -> a <= b [] op = "Eq" -> a = b

Cmp(op, t, a, u, b) ==
  CASE t.signed = u.signed -> Op(op, a, b)
    [] t.signed /\ ~u.signed ->
         IF LargerInt(u, t) THEN Op(op, a, Cast(Signed(u.size + 1), b))
         ELSE IF a < 0 THEN Op(op, -1, 0) ELSE Op(op, Cast(Unsigned(t.size), a), b)
    [] ~t.signed /\ u.signed ->
         IF LargerInt(t, u) THEN Op(op, Cast(Signed(t.size + 1), a), b)
         ELSE IF b < 0 THEN Op(op, 0, -1) ELSE Op(op, a, Cast(Unsigned(u.size), b))

SafeLt(t, a, u, b) == Cmp("Lt", t, a, u, b)
SafeLe(t, a, u, b) == Cmp("Le", t, a, u, b)
SafeEq(t, a, u, b) == Cmp("Eq", t, a, u, b)

(* Integers of any two types compare as the numbers they are.              *)
ComparisonsAgree(t, u) ==
  \A a \in Edges(t), b \in Edges(u) :
    /\ SafeLt(t, a, u, b) <=> a < b
    /\ SafeLe(t, a, u, b) <=> a <= b
    /\ SafeEq(t, a, u, b) <=> a = b

-----------------------------------------------------------------------------
(* safe_minmax *)

min_t(t, u) ==
  IF SafeLt(t, Lowest(t), u, Lowest(u)) THEN t
  ELSE IF SafeLt(u, Lowest(u), t, Lowest(t)) THEN u
  ELSE IF SafeLe(t, Highest(t), u, Highest(u)) THEN t ELSE u
max_t(t, u) == IF SafeLe(u, Highest(u), t, Highest(t)) THEN t ELSE u

SafeMin(t, a, u, b) == Cast(min_t(t, u), IF SafeLt(t, a, u, b) THEN a ELSE b)
SafeMax(t, a, u, b) == Cast(max_t(t, u), IF SafeLt(u, b, t, a) THEN a ELSE b)

Larger(a, b) == IF a >= b THEN a ELSE b
Smaller(a, b) == IF a <= b THEN a ELSE b

(* The types of the range a clamp can return.                              *)
AcceptableType(t, l, h, A) ==
  LET r_min == Larger(Lowest(l), Smaller(Lowest(h), Lowest(t)))
      r_max == Smaller(Highest(h), Larger(Highest(l), Highest(t)))
  IN  /\ \E given \in {t, l, h} : A.size <= given.size
      /\ Lowest(A) <= r_min /\ r_max <= Highest(A)

BestType(t, l, h, signed) ==
  LET Fit == {size \in 1 .. 4 : AcceptableType(t, l, h, [size |-> size, signed |-> signed])}
  IN  [size |-> IF Fit = {} THEN 4 ELSE CHOOSE s \in Fit : \A r \in Fit : s <= r,
       signed |-> signed]

ClampType(t, l, h) ==
  LET best == BestType(t, l, h, t.signed)
  IN  IF AcceptableType(t, l, h, best) THEN best ELSE BestType(t, l, h, ~t.signed)

SafeClamp(t, x, l, min, h, max) ==
  Cast(ClampType(t, l, h),
       IF SafeLe(t, x, l, min) THEN min ELSE IF SafeLe(h, max, t, x) THEN max ELSE x)

(* The types chosen hold the results: nothing is cut off, and there always *)
(* is a type for a clamp (its static_assert).                              *)
MinMaxAgree(t, u) ==
  \A a \in Edges(t), b \in Edges(u) :
    SafeMin(t, a, u, b) = Smaller(a, b) /\ SafeMax(t, a, u, b) = Larger(a, b)

ClampAgrees(t, l, h) ==
  /\ AcceptableType(t, l, h, ClampType(t, l, h))
  /\ \A x \in Edges(t), min \in Edges(l), max \in Edges(h) :
       min <= max => SafeClamp(t, x, l, min, h, max) = Smaller(Larger(x, min), max)

-----------------------------------------------------------------------------
(* mod_ops and sequence_number_util: T is unsigned of size 1, M its modulus *)
(* or 0 for all of T                                                       *)

T == Unsigned(1)
Modulus(M) == IF M = 0 THEN 2^Width[1] ELSE M
Numbers(M) == 0 .. Modulus(M) - 1

(* Add and Subtract work on unsigned long, here of size 2.                 *)
Long == Unsigned(2)
AddMod(M, a, b) ==
  LET t == M - (b % M) IN IF t > a THEN Cast(Long, Cast(Long, a - t) + M) ELSE Cast(Long, a - t)
SubtractMod(M, a, b) ==
  LET sub == b % M IN IF a < sub THEN Cast(Long, M - (sub - a)) ELSE a - sub

ForwardDiff(M, a, b) ==
  IF M = 0 THEN Cast(T, b - a) ELSE IF a <= b THEN b - a ELSE M - (a - b)
ReverseDiff(M, a, b) ==
  IF M = 0 THEN Cast(T, a - b) ELSE IF b <= a THEN a - b ELSE M - (b - a)
MinDiff(M, a, b) == Smaller(ForwardDiff(M, a, b), ReverseDiff(M, a, b))

(* Mutant: the two halves are not told apart at the largest distance. *)
AheadOrAt_NoTie(M, a, b) == ForwardDiff(M, b, a) <= Modulus(M) \div 2

(* For M = 0 the difference is an int, which may be negative.              *)
AheadOrAt(M, a, b) ==
  IF M > 0
    THEN IF M % 2 = 0 /\ MinDiff(M, a, b) = M \div 2 THEN b < a
         ELSE ForwardDiff(M, b, a) <= M \div 2
    ELSE LET maxDist == Highest(T) \div 2 + 1
         IN  IF a - b = maxDist THEN b < a ELSE ForwardDiff(0, b, a) < maxDist

AheadOf(M, a, b) == a # b /\ AheadOrAt(M, a, b)

(* SeqNumUnwrapper: from the last value and the last unwrapped one.        *)
UnwrapForward(M, last, unwrapped, value) == unwrapped + ForwardDiff(M, last, value)
UnwrapBackwards(M, last, unwrapped, value) == unwrapped - ReverseDiff(M, last, value)
Unwrap(M, last, unwrapped, value) ==
  UnwrapForward(M, last, unwrapped, value) - IF AheadOrAt(M, value, last) THEN 0 ELSE Modulus(M)

ModOpsAgree(M) ==
  \A a \in Numbers(M), b \in 0 .. Highest(Long) :
    M > 0 => AddMod(M, a, b) = (a + b) % M /\ SubtractMod(M, a, b) = (a - b) % M

(* Of two different numbers one is ahead, and it is the one nearer when    *)
(* counting up; an unwrapped number stands for its value, and is the       *)
(* nearest, the next or the previous such number.                          *)
SequenceAgrees(M) ==
  LET m == Modulus(M)
  IN  \A a, b \in Numbers(M) :
        /\ ((b + ForwardDiff(M, b, a)) % m) = a /\ ((b - ReverseDiff(M, b, a)) % m) = a
        /\ a # b => (AheadOf(M, a, b) <=> ~AheadOf(M, b, a))
        /\ AheadOf(M, a, b) => 2 * ForwardDiff(M, b, a) <= m
        /\ \A unwrapped \in {a - m, a, a + m} :
             LET u == Unwrap(M, a, unwrapped, b)
                 f == UnwrapForward(M, a, unwrapped, b)
                 r == UnwrapBackwards(M, a, unwrapped, b)
             IN  /\ u % m = b /\ f % m = b /\ r % m = b
                 /\ 2 * (u - unwrapped) \in -m .. m
                 /\ f - unwrapped \in 0 .. m - 1 /\ unwrapped - r \in 0 .. m - 1
                 /\ (u >= unwrapped) <=> AheadOrAt(M, b, a)

-----------------------------------------------------------------------------
(* Values with a unit (rtc_base/units and api/units): an integer whose     *)
(* largest and smallest values stand for the infinities.  The width of the *)
(* integer and the factor between a unit and its kilo are parameters.  A   *)
(* failed check gives Abort; a unit is one_sided if it has no negative     *)
(* values.                                                                 *)

Mega == K * K
PlusInfinity == 2^(Bits - 1) - 1
MinusInfinity == -(2^(Bits - 1))
Abort == PlusInfinity + 1

IsPlusInfinity(v) == v = PlusInfinity
IsMinusInfinity(v) == v = MinusInfinity
IsFinite(v) == ~IsPlusInfinity(v) /\ ~IsMinusInfinity(v)

(* Division of integers: towards zero.                                     *)
Quotient(n, d) == IF (n < 0) # (d < 0) THEN -((IF n < 0 THEN -n ELSE n) \div (IF d < 0 THEN -d ELSE d))
                  ELSE (IF n < 0 THEN -n ELSE n) \div (IF d < 0 THEN -d ELSE d)

-----------------------------------------------------------------------------
(* UnitBase *)

FromValue(one_sided, v) ==
  IF (one_sided /\ v < 0) \/ v <= MinusInfinity \/ v >= PlusInfinity THEN Abort ELSE v

FromFraction(one_sided, d, v) ==
  IF (one_sided /\ v < 0) \/ v <= Quotient(MinusInfinity, d) \/ v >= Quotient(PlusInfinity, d)
    THEN Abort ELSE v * d

ToValue(v) == IF IsFinite(v) THEN v ELSE Abort
ToValueOr(v, fallback) == IF IsFinite(v) THEN v ELSE fallback

DivRoundPositiveToNearest(n, d) == Quotient(n + d \div 2, d)
DivRoundToNearest(n, d) == Quotient(n + (IF n >= 0 THEN d \div 2 ELSE Quotient(-d, 2)), d)

ToFractionOr(one_sided, d, v, fallback) ==
  IF ~IsFinite(v) THEN fallback
  ELSE IF one_sided THEN DivRoundPositiveToNearest(v, d) ELSE DivRoundToNearest(v, d)
ToFraction(one_sided, d, v) == ToFractionOr(one_sided, d, v, Abort)

ToMultiple(factor, v) ==
  IF ~IsFinite(v) \/ v < Quotient(MinusInfinity, factor) \/ v > Quotient(PlusInfinity, factor)
    THEN Abort ELSE v * factor

RoundTo(one_sided, v, resolution) ==
  FromValue(one_sided, Quotient(v + resolution \div 2, resolution) * resolution)
RoundUpTo(one_sided, v, resolution) ==
  FromValue(one_sided, Quotient(v + resolution - 1, resolution) * resolution)
RoundDownTo(one_sided, v, resolution) ==
  FromValue(one_sided, Quotient(v, resolution) * resolution)

-----------------------------------------------------------------------------
(* RelativeUnit, and the same sums for a Timestamp and a TimeDelta *)

Clamped(v, min, max) == Larger(min, Smaller(v, max))

Plus(one_sided, a, b) ==
  IF IsPlusInfinity(a) \/ IsPlusInfinity(b)
    THEN IF IsMinusInfinity(a) \/ IsMinusInfinity(b) THEN Abort ELSE PlusInfinity
  ELSE IF IsMinusInfinity(a) \/ IsMinusInfinity(b) THEN MinusInfinity
  ELSE FromValue(one_sided, a + b)

Difference(one_sided, a, b) ==
  IF IsPlusInfinity(a) \/ IsMinusInfinity(b)
    THEN IF IsMinusInfinity(a) \/ IsPlusInfinity(b) THEN Abort ELSE PlusInfinity
  ELSE IF IsMinusInfinity(a) \/ IsPlusInfinity(b) THEN MinusInfinity
  ELSE FromValue(one_sided, a - b)

(* A Timestamp is one-sided; the time between two is a TimeDelta.          *)
TimestampPlus(time, delta) == Plus(TRUE, time, delta)
TimestampMinus(time, delta) == Difference(TRUE, time, delta)
TimeBetween(time, other) == Difference(FALSE, time, other)

(* An infinite factor is no value: ToValue checks.                         *)
Scaled(one_sided, v, scalar) == IF IsFinite(v) THEN FromValue(one_sided, v * scalar) ELSE Abort
DividedBy(one_sided, v, scalar) ==
  IF IsFinite(v) THEN FromValue(one_sided, Quotient(v, scalar)) ELSE Abort

Negated(one_sided, v) ==
  IF IsPlusInfinity(v) THEN MinusInfinity
  ELSE IF IsMinusInfinity(v) THEN PlusInfinity ELSE Scaled(one_sided, v, -1)

(* us() is checked first, so that an infinite TimeDelta aborts.            *)
Abs(v) == IF IsFinite(v) THEN (IF v < 0 THEN FromValue(FALSE, -v) ELSE v) ELSE Abort

-----------------------------------------------------------------------------
(* DataRate, DataSize, Frequency, TimeDelta: of finite values.  Products   *)
(* are taken to fit; those the code checks give Abort.                     *)

Microbits(size) == IF size > PlusInfinity \div (8 * Mega) THEN Abort ELSE size * 8 * Mega
MillibytePerSec(rate) == IF rate > PlusInfinity \div (K \div 8) THEN Abort ELSE rate * (K \div 8)

RateOf(size, duration) ==
  IF Microbits(size) = Abort THEN Abort ELSE FromValue(TRUE, Quotient(Microbits(size), duration))
DurationOf(size, rate) ==
  IF Microbits(size) = Abort THEN Abort ELSE FromValue(FALSE, Quotient(Microbits(size), rate))
SizeOf(rate, duration) == FromValue(TRUE, Quotient(rate * duration + 4 * Mega, 8 * Mega))

SizeAt(rate, frequency) ==
  IF MillibytePerSec(rate) = Abort THEN Abort
  ELSE FromValue(TRUE, Quotient(MillibytePerSec(rate), frequency))
FrequencyOf(rate, size) ==
  IF MillibytePerSec(rate) = Abort THEN Abort
  ELSE FromValue(TRUE, Quotient(MillibytePerSec(rate), size))
RateAt(size, frequency) ==
  IF frequency # 0 /\ size > (PlusInfinity \div 8) \div frequency THEN Abort
  ELSE FromValue(TRUE, Quotient(size * 8 * frequency + K \div 2, K))

FrequencyFrom(n, interval) ==
  IF n > PlusInfinity \div (K * Mega) \/ interval = 0 THEN Abort
  ELSE FromValue(TRUE, Quotient(n * K * Mega, interval))
IntervalFrom(n, frequency) ==
  IF n > PlusInfinity \div (K * Mega) \/ frequency = 0 THEN Abort
  ELSE FromValue(FALSE, Quotient(n * K * Mega, frequency))

(* ToString: the scale a value is written in, the largest that loses       *)
(* nothing; a rate has one step, a time two.                               *)
ScaleOf(v, steps) ==
  IF v = 0 \/ v % K # 0 THEN 1
  ELSE IF steps = 2 /\ ToFraction(FALSE, K, v) % K = 0 THEN Mega ELSE K

-----------------------------------------------------------------------------
UnitEdges(one_sided) ==
  {v \in {MinusInfinity, MinusInfinity + 1, PlusInfinity - 1, PlusInfinity}
         \cup {PlusInfinity \div 2, PlusInfinity \div 2 + 1, -(PlusInfinity \div 2)}
         \cup {n * m + i : n \in {-3, -1, 0, 1, 3}, m \in {K, Mega}, i \in {-K \div 2, -1, 0, 1, K \div 2}} :
     one_sided => v >= 0 \/ IsMinusInfinity(v)}
Finite(one_sided) == {v \in UnitEdges(one_sided) : IsFinite(v)}
Within(one_sided, n) == MinusInfinity < n /\ n < PlusInfinity /\ (one_sided => n >= 0)

(* A sum or difference of finite values is the exact one, or is refused    *)
(* because there is none; an infinity stays unless it meets its opposite.  *)
(* Times that are apart by a delta come from each other by it.             *)
SumsAgree(one_sided, a) ==
  \A b \in UnitEdges(one_sided) :
    LET sum == Plus(one_sided, a, b)
        difference == Difference(one_sided, a, b)
    IN  /\ IsFinite(a) /\ IsFinite(b) =>
             /\ sum = IF Within(one_sided, a + b) THEN a + b ELSE Abort
             /\ difference = IF Within(one_sided, a - b) THEN a - b ELSE Abort
        /\ ~IsFinite(a) /\ IsFinite(b) => sum = a /\ difference = a
        /\ ~IsFinite(a) /\ ~IsFinite(b) =>
             /\ sum = IF a = b THEN a ELSE Abort
             /\ difference = IF a = b THEN Abort ELSE a
        /\ ~one_sided /\ Negated(FALSE, b) # Abort => difference = Plus(FALSE, a, Negated(FALSE, b))
        /\ one_sided /\ IsFinite(a) /\ IsFinite(b) =>
             /\ TimestampPlus(b, TimeBetween(a, b)) = a
             /\ TimestampMinus(a, TimeBetween(a, b)) = b
             /\ TimestampPlus(a, b) # Abort => TimeBetween(TimestampPlus(a, b), a) = b
        /\ a <= b => \A v \in UnitEdges(one_sided) :
             Clamped(v, a, b) \in {a, v, b} /\ a <= Clamped(v, a, b) /\ Clamped(v, a, b) <= b

(* Rounding gives the nearest multiple, the next or the previous: for a    *)
(* negative value all three are cut towards zero.  What was made from a    *)
(* fraction is read back, and a fraction is the nearest.                   *)
RoundingAgrees(one_sided, v) ==
  /\ IsFinite(v) /\ v >= 0 /\ v <= PlusInfinity - K => \A resolution \in {1, 3, K} :
       LET up == RoundUpTo(one_sided, v, resolution)
           down == RoundDownTo(one_sided, v, resolution)
           near == RoundTo(one_sided, v, resolution)
       IN  /\ up \in v .. v + resolution - 1 /\ up % resolution = 0
           /\ down \in v - resolution + 1 .. v /\ down % resolution = 0
           /\ near = IF v - down < up - v THEN down ELSE up
  /\ IsFinite(v) /\ v <= PlusInfinity - Mega => \A d \in {K, Mega} :
       LET f == ToFraction(one_sided, d, v)
           made == FromFraction(one_sided, d, v)
       IN  /\ 2 * (v - f * d) \in -d .. d
           /\ made # Abort => ToFraction(one_sided, d, made) = v
  /\ ~IsFinite(v) => ToFraction(one_sided, K, v) = Abort /\ ToValue(v) = Abort /\ Abs(v) = Abort
  /\ IsFinite(v) => (v > -PlusInfinity => Abs(v) = Larger(v, -v)) /\ ToValueOr(v, Abort) = ToValue(v)
  /\ Scaled(one_sided, v, 3) # Abort => DividedBy(one_sided, Scaled(one_sided, v, 3), 3) = v
  /\ ToMultiple(K, v) # Abort => IsFinite(v) /\ ToFraction(FALSE, K, ToMultiple(K, v)) = v
  /\ IsFinite(v) => \A steps \in {1, 2} :
       v % ScaleOf(v, steps) = 0 /\ (v # 0 /\ v % K = 0 => ScaleOf(v, steps) # 1)

(* Sizes, rates and durations made from each other agree as far as the     *)
(* integers of their units go.                                             *)
ConversionsOfUnitsAgree(size, n) ==
  /\ RateOf(size, n) # Abort => RateOf(size, n) * n \in Microbits(size) - n + 1 .. Microbits(size)
  /\ DurationOf(size, n) # Abort => DurationOf(size, n) * n \in Microbits(size) - n + 1 .. Microbits(size)
  /\ n <= size /\ RateOf(size, n) # Abort => SizeOf(RateOf(size, n), n) = size
  /\ RateAt(size, n) # Abort => 2 * (K * RateAt(size, n) - 8 * size * n) \in -K .. K
  /\ RateAt(size, n) # Abort /\ MillibytePerSec(RateAt(size, n)) # Abort /\ n > K =>
       size - SizeAt(RateAt(size, n), n) \in {0, 1}
  /\ FrequencyFrom(1, n) # Abort => IntervalFrom(1, FrequencyFrom(1, n)) \in n .. n + n

-----------------------------------------------------------------------------
(* TimestampWrapAroundHandler *)

Range32 == 2^TimestampBits
Sixteenth == Range32 \div 16
High == Range32 - Sixteenth     \* 0xf0000000
Low == Sixteenth - 1            \* 0x0fffffff

NewHandler == [last_ts |-> 0, num_wrap |-> -1]

(* A step back over the wrap around changes nothing.                       *)
Stored(h, ts) == h.num_wrap = -1 \/ ts < h.last_ts \/ ts - h.last_ts <= High

WrapsAfter(h, ts) ==
  IF h.num_wrap = -1 THEN 0
  ELSE IF ts < h.last_ts /\ h.last_ts >= High /\ ts < Low THEN h.num_wrap + 1
  ELSE IF Stored(h, ts) THEN h.num_wrap
  ELSE h.num_wrap - 1

UnwrapTimestamp(n) ==
  LET ts == n % Range32
  IN  /\ handler' = IF Stored(handler, ts)
                      THEN [last_ts |-> ts, num_wrap |-> WrapsAfter(handler, ts)] ELSE handler
      /\ stored' = IF Stored(handler, ts) THEN n ELSE stored
      /\ unwrapped_number' = ts + WrapsAfter(handler, ts) * Range32
      /\ number' = n

Init == handler = NewHandler /\ stored = 0 /\ number = 0 /\ unwrapped_number = 0

(* The numbers come nearly in order: not a sixteenth of the range from the *)
(* last one that was stored.                                               *)
Next ==
  \/ handler.num_wrap = -1 /\ \E n \in 0 .. Range32 - 1 : UnwrapTimestamp(n)
  \/ /\ handler.num_wrap # -1
     /\ \E n \in stored - Low .. stored + Low : n < MaxWraps * Range32 /\ UnwrapTimestamp(n)

Spec == Init /\ [][Next]_vars

(* Numbers that come nearly in order are known again from their timestamps,*)
(* however often these wrap around, even one from before a wrap around.    *)
UnwrapsRight == unwrapped_number = number

-----------------------------------------------------------------------------
(* TmToSeconds, as the day and the second of the day; << >> is -1.  A      *)
(* month is counted from 0.                                                *)

mdays == <<31, 28, 31, 30, 31, 30, 31, 31, 30, 31, 30, 31>>
cumul_mdays == <<0, 31, 59, 90, 120, 151, 181, 212, 243, 273, 304, 334>>

IsLeap(year) == year % 4 = 0 /\ (year % 100 # 0 \/ year % 400 = 0)
LeapDaysTo(year) == year \div 4 - year \div 100 + year \div 400

TmToSeconds(year, month, mday, hour, min, sec) ==
  IF year < 1970 \/ month \notin 0 .. 11 \/ hour \notin 0 .. 23 \/ min \notin 0 .. 59 \/ sec \notin 0 .. 59
    THEN << >>
  ELSE IF mday - 1 \notin 0 .. mdays[month + 1] + (IF IsLeap(year) /\ month = 1 THEN 1 ELSE 0) - 1
    THEN << >>
  ELSE <<(year - 1970) * 365 + mday - 1 + cumul_mdays[month + 1]
           + LeapDaysTo(year) - LeapDaysTo(1970) - (IF IsLeap(year) /\ month <= 1 THEN 1 ELSE 0),
         (hour * 60 + min) * 60 + sec>>

Dates(year) == {<<month, mday>> \in (-1 .. 12) \X (0 .. 32) : TmToSeconds(year, month, mday, 0, 0, 0) # << >>}
Earlier(d, e) == d[1] < e[1] \/ (d[1] = e[1] /\ d[2] < e[2])
DayOf(year, date) == TmToSeconds(year, date[1], date[2], 0, 0, 0)[1]

(* The days of a year are numbered one after the other, from its first,    *)
(* which follows the last of the year before; there are 365 or 366.        *)
CalendarAgrees(year) ==
  LET dates == Dates(year)
  IN  /\ Cardinality(dates) = IF IsLeap(year) THEN 366 ELSE 365
      /\ {DayOf(year, d) : d \in dates} = DayOf(year, <<0, 1>>) .. DayOf(year, <<11, 31>>)
      /\ \A d \in dates : Cardinality({e \in dates : Earlier(e, d)}) = DayOf(year, d) - DayOf(year, <<0, 1>>)
      /\ IF year = 1970 THEN DayOf(year, <<0, 1>>) = 0
                        ELSE DayOf(year, <<0, 1>>) = DayOf(year - 1, <<11, 31>>) + 1

-----------------------------------------------------------------------------
(* NtpTime, Q32.32 and the clocks.  An NTP time is <<seconds, fractions>>. *)

kFractionsPerSecond == 2^FractionBits
Micro == Milli * Milli
Rounded(n, d) == (2 * n + d) \div (2 * d)

(* std::round takes halves away from zero.                                 *)
RoundHalfAway(n, d) == IF n >= 0 THEN Rounded(n, d) ELSE -Rounded(-n, d)

ToMs(ntp) == Milli * ntp[1] + Rounded(ntp[2] * Milli, kFractionsPerSecond)

TimeMicrosToNtp(time_us, ntp_offset_us) ==
  LET time == time_us + ntp_offset_us
  IN  <<(time \div Micro) % Range32, ((time % Micro) * kFractionsPerSecond) \div Micro>>

(* SimulatedClock::ConvertTimestampToNtpTime, with kNtpJan1970.            *)
SimulatedToNtp(now_us, jan1970) ==
  <<(now_us \div Micro + jan1970) % Range32, ((now_us % Micro) * kFractionsPerSecond) \div Micro>>

Clamp(n, low, high) == IF n <= low THEN low ELSE IF n >= high THEN high ELSE n
Int64MsToQ32x32(ms) ==
  Clamp(RoundHalfAway(ms * kFractionsPerSecond, Milli),
        -(2^(2 * FractionBits - 1)), 2^(2 * FractionBits - 1) - 1)
Int64MsToUQ32x32(ms) ==
  Clamp(RoundHalfAway(ms * kFractionsPerSecond, Milli), 0, 2^(2 * FractionBits) - 1)
Q32x32ToInt64Ms(q) == RoundHalfAway(q * Milli, kFractionsPerSecond)

(* TimeDiff32: the difference in 32 bits.                                  *)
TimeDiff32(later, earlier) == ((later - earlier + Range32 \div 2) % Range32) - Range32 \div 2

(* Both clocks give the same NTP time, off by no more than its rounding,   *)
(* milliseconds survive the way to Q32.32 and back unless they are clamped,*)
(* and a difference in 32 bits is right up to half the range.              *)
NtpAgrees(us, ms) ==
  LET ntp == TimeMicrosToNtp(us, Micro)
  IN  /\ ntp = SimulatedToNtp(us, 1)
      /\ ntp[1] # 0 => 2 * (ToMs(ntp) * Milli - ((us + Micro) % (Range32 * Micro))) \in -Milli .. Milli
      /\ LET q == Int64MsToQ32x32(ms)
         IN  IF q = Clamp(q, 1 - 2^(2 * FractionBits - 1), 2^(2 * FractionBits - 1) - 2)
               THEN Q32x32ToInt64Ms(q) = ms ELSE 2 * (ms * kFractionsPerSecond) \notin
                                                  -(Milli * 2^(2 * FractionBits - 1)) .. Milli * 2^(2 * FractionBits - 1)
      /\ Int64MsToUQ32x32(ms) = Clamp(Int64MsToUQ32x32(ms), 1, 2^(2 * FractionBits) - 2)
           => Q32x32ToInt64Ms(Int64MsToUQ32x32(ms)) = ms
      /\ -(Range32 \div 2) <= ms /\ ms < Range32 \div 2 =>
           TimeDiff32((us + ms) % Range32, us % Range32) = ms
==================================================================================

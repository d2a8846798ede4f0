------------------------------ MODULE Statistics ------------------------------
(***************************************************************************)
(* The statistics of rtc_base/numerics, in three groups; those of a group  *)
(* are fed alike.  The filters look at the last samples: PercentileFilter, *)
(* MovingPercentileFilter, MovingAverage and MovingMaxCounter.             *)
(* The counters sum up all samples: SampleCounterWithVariance,             *)
(* RunningStatistics and HistogramPercentileCounter.  The averages and     *)
(* rates go with the time: ExpFilter, EventBasedExponentialMovingAverage,  *)
(* EventRateCounter and SampleStats.                                       *)
(*                                                                         *)
(* A double is an exact fraction <<n, d>> with d > 0, NaN or an infinity;  *)
(* the only powers taken are of a half, at ages that are whole half times, *)
(* and of Alpha.  Times are in milliseconds.                               *)
(***************************************************************************)
EXTENDS Integers, Sequences, FiniteSets, SequencesExt

CONSTANTS FilterSamples, \* samples of the filters: integers
          Percentiles,   \* fractions <<n, d>>, from 0 to 1
          WindowSize,    \* samples kept by the moving percentile and the average
          WindowLength,  \* milliseconds kept by the maximum
          Advances,      \* by how much time may go on between two calls
          IntBits, LongBits,  \* width of int and of int64_t and size_t
          MaxFed,        \* bound: samples of the filters between two resets
          SampleValues,  \* samples of the counters: natural numbers
          Boundary,      \* long_tail_boundary of the histogram that is fed
          Others,        \* sequences of samples of a counter that is added
          MaxInt,        \* the largest value of the type of the samples
          MaxSamples,    \* bound: samples of the counters
          Inputs,        \* samples of the averages: integers
          Gaps,          \* times between them: multiples of HalfTime
          HalfTime,
          PerSecond,     \* how many units of time are a second
          Max_,          \* max_ of the ExpFilter
          MaxInputs      \* bound: samples of the averages

VARIABLES percentile,
          moving,        \* MovingPercentileFilter: samples_ and the PercentileFilter (set_ in
                         \* order, percentile_it_, percentile_index_)
          average,       \* MovingAverage: count_, sum_, history_
          maximum,       \* MovingMaxCounter: samples_, of <<time, sample>>
          now,
          fed,           \* history: <<time, sample>> of the filters since the last reset
          counter,       \* sum_, num_samples_, max_ (none or one), sum_squared_
          stats,         \* size_, min_, max_, mean_, cumul_
          histogram,     \* histogram_low_ and histogram_high_, total_elements_, .._low_
          all,           \* history: the samples, in order
          left,          \* history: those that RemoveSample has not taken from stats
          emptied,       \* history: RemoveSample has taken the last sample
          tails,         \* history: histograms were added and one had a long tail
          filter,        \* filtered_ of the ExpFilter: none or one
          estimate,      \* value_, sample_variance_, estimator_variance_, last_observation_
          rate,          \* first_time_, last_time_, event_count_, interval_
          observed       \* history: the samples of the averages and their times

filterVars == <<percentile, moving, average, maximum, now, fed>>
counterVars == <<counter, stats, histogram, all, left, emptied, tails>>
averageVars == <<filter, estimate, rate, observed>>
vars == <<filterVars, counterVars, averageVars>>

-----------------------------------------------------------------------------
(* PercentileFilter.  An iterator stays with its element when others come  *)
(* and go.                                                                 *)

EmptyFilter == [set |-> << >>, it |-> 1, index |-> 0]

UpdatePercentileIterator(f) ==
  LET index == (percentile[1] * (Len(f.set) - 1)) \div percentile[2]
  IN  IF f.set = << >> THEN f ELSE [f EXCEPT !.it = @ + index - f.index, !.index = index]

PercentileInsert(f, value) ==
  LET upper == 1 + Cardinality({i \in DOMAIN f.set : f.set[i] <= value})
      set == InsertAt(f.set, upper, value)
      it == IF upper <= f.it THEN f.it + 1 ELSE f.it
      index == IF value < set[it] THEN f.index + 1 ELSE f.index
  IN  UpdatePercentileIterator(IF Len(set) = 1 THEN [set |-> set, it |-> 1, index |-> 0]
                                               ELSE [set |-> set, it |-> it, index |-> index])

PercentileErase(f, value) ==
  LET lower == 1 + Cardinality({i \in DOMAIN f.set : f.set[i] < value})
      set == RemoveAt(f.set, lower)
      it == IF lower < f.it THEN f.it - 1 ELSE f.it
      index == IF lower # f.it /\ value <= set[it] THEN f.index - 1 ELSE f.index
  IN  IF ~Contains(f.set, value) THEN f
      ELSE UpdatePercentileIterator([set |-> set, it |-> it, index |-> index])

GetPercentileValue(f) == IF f.set = << >> THEN 0 ELSE f.set[f.it]

-----------------------------------------------------------------------------
(* MovingPercentileFilter, MovingAverage, MovingMaxCounter *)

EmptyMoving == [filter |-> EmptyFilter, samples |-> << >>]

MovingInsert(m, value) ==
  LET f == PercentileInsert(m.filter, value)
      samples == Append(m.samples, value)
  IN  IF Len(samples) > WindowSize
        THEN [filter |-> PercentileErase(f, samples[1]), samples |-> Tail(samples)]
        ELSE [filter |-> f, samples |-> samples]

GetFilteredValue == GetPercentileValue(moving.filter)

(* Reset leaves history_ as it is.                                         *)
AverageReset(a) == [a EXCEPT !.count = 0, !.sum = 0]

AverageAdd(a, sample) ==
  LET index == (a.count + 1) % WindowSize
      leaving == IF a.count + 1 > WindowSize THEN a.history[index] ELSE 0
  IN  [count |-> a.count + 1, sum |-> a.sum - leaving + sample,
       history |-> [a.history EXCEPT ![index] = sample]]

Size == IF average.count < WindowSize THEN average.count ELSE WindowSize

(* A negative sum is converted to the unsigned type of Size.               *)
ToUnsigned(n) == n % (2^LongBits)
ToInt(n) == ((n + 2^(IntBits - 1)) % (2^IntBits)) - 2^(IntBits - 1)
GetAverageRoundedDown == ToInt(ToUnsigned(average.sum) \div Size)
GetAverageRoundedToClosest == ToInt(ToUnsigned(average.sum + Size \div 2) \div Size)

RollWindow(s, time) == SelectSeq(s, LAMBDA entry : entry[1] >= time - WindowLength)

(* Larger samples stay; the new one is added unless one of the same time   *)
(* stays.                                                                  *)
MaxAdd(s, sample, time) ==
  LET rolled == RollWindow(s, time)
      kept == SubSeq(rolled, 1, Cardinality({i \in DOMAIN rolled :
                \E j \in i .. Len(rolled) : rolled[j][2] > sample}))
  IN  IF kept = << >> \/ Last(kept)[1] < time THEN Append(kept, <<time, sample>>) ELSE kept

(* The maximum at a time, as a sequence of none or one.                    *)
MaxAt(s, time) ==
  LET rolled == RollWindow(s, time) IN IF rolled = << >> THEN << >> ELSE <<rolled[1][2]>>

-----------------------------------------------------------------------------
FiltersInit ==
  /\ percentile \in Percentiles
  /\ moving = EmptyMoving
  /\ average = [count |-> 0, sum |-> 0, history |-> [i \in 0 .. WindowSize - 1 |-> 0]]
  /\ maximum = << >>
  /\ now = 0 /\ fed = << >>

FilterSample(sample, time) ==
  /\ Len(fed) < MaxFed
  /\ moving' = MovingInsert(moving, sample)
  /\ average' = AverageAdd(average, sample)
  /\ maximum' = MaxAdd(maximum, sample, time)
  /\ now' = time
  /\ fed' = Append(fed, <<time, sample>>)
  /\ UNCHANGED percentile

(* Asking for the maximum rolls its window.                                *)
AskMax(time) ==
  /\ maximum' = RollWindow(maximum, time)
  /\ now' = time
  /\ UNCHANGED <<percentile, moving, average, fed>>

FiltersReset ==
  /\ moving' = EmptyMoving
  /\ average' = AverageReset(average)
  /\ maximum' = << >>
  /\ fed' = << >> /\ now' = 0
  /\ UNCHANGED percentile

FiltersNext ==
  \/ \E sample \in FilterSamples, advance \in Advances : FilterSample(sample, now + advance)
  \/ \E advance \in Advances : fed # << >> /\ now <= Last(fed)[1] + WindowLength /\ AskMax(now + advance)
  \/ FiltersReset

-----------------------------------------------------------------------------
Values(entries) == [i \in DOMAIN entries |-> entries[i][2]]
Window == LET n == Len(fed) IN Values(SubSeq(fed, IF n > WindowSize THEN n - WindowSize + 1 ELSE 1, n))
Without(s, v) == IF Contains(s, v) THEN RemoveAt(s, CHOOSE i \in DOMAIN s : s[i] = v) ELSE s
Total(s) == FoldLeft(LAMBDA sum, v : sum + v, 0, s)

(* The percentile of a bag of numbers, by its rank.                        *)
PercentileAt(s) ==
  IF s = << >> THEN 0
  ELSE SortSeq(s, <)[1 + (percentile[1] * (Len(s) - 1)) \div percentile[2]]

(* Where an average is promised; see AverageRoundsDown for the others.     *)
Divides == average.sum >= 0 \/ \E i \in 0 .. LongBits - IntBits : Size = 2^i

(* Every filter, however it wandered, wrapped around, discarded or was     *)
(* reset, answers what its definition gives over the samples it stands for.*)
FiltersAgree ==
  /\ GetFilteredValue = PercentileAt(Window)
  /\ \A v \in FilterSamples :
       GetPercentileValue(PercentileErase(moving.filter, v)) = PercentileAt(Without(Window, v))
  /\ Window # << >> /\ Divides =>
       /\ GetAverageRoundedDown = Total(Window) \div Len(Window)
       /\ GetAverageRoundedToClosest = (2 * Total(Window) + Len(Window)) \div (2 * Len(Window))
  /\ \A advance \in Advances :
       MaxAt(maximum, now + advance) =
         LET rest == Values(SelectSeq(fed, LAMBDA entry : entry[1] >= now + advance - WindowLength))
         IN  IF rest = << >> THEN << >> ELSE <<SortSeq(rest, >)[1]>>

(* moving_average.h promises the average rounded down, of any samples.     *)
AverageRoundsDown ==
  Window # << >> => GetAverageRoundedDown = Total(Window) \div Len(Window)

-----------------------------------------------------------------------------
(* Exact doubles *)

NaN == <<0, 0>>
Infinity == <<1, 0>>
MinusInfinity == <<-1, 0>>
Gcd(n, d) == CHOOSE g \in 1 .. d : n % g = 0 /\ d % g = 0 /\ \A h \in g + 1 .. d : n % h # 0 \/ d % h # 0
Double(n, d) == IF d = 0 THEN NaN ELSE LET g == Gcd(n, d) IN <<n \div g, d \div g>>
Plus(x, y) == Double(x[1] * y[2] + y[1] * x[2], x[2] * y[2])
Times(x, y) == Double(x[1] * y[1], x[2] * y[2])
Minus(x, y) == Plus(x, Times(<<-1, 1>>, y))
Of(n) == <<n, 1>>
One == Of(1)
AtMost(x, y) == x[1] * y[2] <= y[1] * x[2]
Over(x, n) == Double(x[1], x[2] * n)
Mix(w, x, y) == Plus(Times(w, x), Times(Minus(One, w), y))

-----------------------------------------------------------------------------
(* SampleCounterWithVariance *)

NewCounter == [sum |-> 0, num_samples |-> 0, max |-> << >>, sum_squared |-> 0]

CounterAdd(c, sample) ==
  [sum |-> c.sum + sample, num_samples |-> c.num_samples + 1,
   max |-> IF c.max = << >> \/ sample > c.max[1] THEN <<sample>> ELSE c.max,
   sum_squared |-> c.sum_squared + sample * sample]

CounterMerge(c, other) ==
  [sum |-> c.sum + other.sum, num_samples |-> c.num_samples + other.num_samples,
   max |-> IF other.max # << >> /\ (c.max = << >> \/ c.max[1] < other.max[1]) THEN other.max ELSE c.max,
   sum_squared |-> c.sum_squared + other.sum_squared]

Avg == counter.sum \div counter.num_samples
Variance == (counter.sum_squared \div counter.num_samples) - Avg * Avg

-----------------------------------------------------------------------------
(* RunningStatistics *)

NewStats == [size |-> 0, min |-> MaxInt, max |-> -MaxInt - 1, mean |-> Of(0), cumul |-> Of(0)]

Larger(a, b) == IF a >= b THEN a ELSE b
Smaller(a, b) == IF a <= b THEN a ELSE b

StatsAdd(s, sample) ==
  LET mean == Plus(s.mean, Over(Minus(Of(sample), s.mean), s.size + 1))
  IN  [size |-> s.size + 1, min |-> Smaller(s.min, sample), max |-> Larger(s.max, sample),
       mean |-> mean,
       cumul |-> Plus(s.cumul, Times(Minus(Of(sample), s.mean), Minus(Of(sample), mean)))]

(* Mutant: the second difference is taken from the old mean, too. *)
StatsRemove_OldMean(s, sample) ==
  LET delta == Minus(Of(sample), s.mean)
  IN  IF s.size = 0 THEN s
      ELSE [s EXCEPT !.size = @ - 1, !.mean = Minus(@, Over(delta, s.size - 1)),
                     !.cumul = Minus(@, Times(delta, delta))]

(* The last sample divides by zero.                                        *)
StatsRemove(s, sample) ==
  LET delta == Minus(Of(sample), s.mean)
      mean == Minus(s.mean, Over(delta, s.size - 1))
  IN  IF s.size = 0 THEN s
      ELSE [s EXCEPT !.size = @ - 1, !.mean = mean,
                     !.cumul = Minus(@, Times(delta, Minus(Of(sample), mean)))]

StatsMerge(s, other) ==
  LET size == s.size + other.size
      mean == Over(Plus(Times(s.mean, Of(s.size)), Times(other.mean, Of(other.size))), size)
      Delta(t) == Times(Of(t.size), Plus(Times(mean, Minus(mean, Times(Of(2), t.mean))),
                                         Times(t.mean, t.mean)))
  IN  IF other.size = 0 THEN s
      ELSE [size |-> size, min |-> Smaller(s.min, other.min), max |-> Larger(s.max, other.max),
            mean |-> mean,
            cumul |-> Plus(Plus(s.cumul, Delta(s)), Plus(other.cumul, Delta(other)))]

GetVariance == Over(stats.cumul, stats.size)

-----------------------------------------------------------------------------
(* HistogramPercentileCounter: low and high are how often each value is in *)
(* histogram_low_ and in histogram_high_.                                  *)

NewHistogram == [low |-> [v \in SampleValues |-> 0], high |-> [v \in SampleValues |-> 0], total |-> 0, total_low |-> 0]

HistogramAdd(h, value, n) ==
  IF value < Boundary
    THEN [h EXCEPT !.low[value] = @ + n, !.total_low = @ + n, !.total = @ + n]
    ELSE [h EXCEPT !.high[value] = @ + n, !.total = @ + n]

(* The second loop goes over its own histogram_high_.                      *)
HistogramMerge(h, other) ==
  LET lows == FoldLeft(LAMBDA g, v : HistogramAdd(g, v, other.low[v]), h, SetToSortSeq(SampleValues, <))
  IN  FoldLeft(LAMBDA g, v : HistogramAdd(g, v, lows.high[v]), lows, SetToSortSeq(SampleValues, <))

(* ceil(total * n / d) - 1, but none below the first or beyond the last.   *)
ToSkip(h, n, d) ==
  Smaller(Larger(0, -((-(h.total * n)) \div d) - 1), h.total - 1)

(* The first value whose count is not skipped.                             *)
Walk(counts, skip) ==
  CHOOSE v \in SampleValues :
    LET before == FoldFunctionOnSet(+, 0, counts, {w \in SampleValues : w < v})
    IN  before <= skip /\ skip < before + counts[v]

GetPercentile(h, n, d) ==
  LET skip == ToSkip(h, n, d)
  IN  IF skip < h.total_low THEN Walk(h.low, skip) ELSE Walk(h.high, skip - h.total_low)

-----------------------------------------------------------------------------
(* ExpFilter, with a filter factor of one half: kValueUndefined is -1.     *)

kValueUndefined == Of(-1)
Alpha(exp) == <<1, 2 ^ exp>>

Cap(x) == IF AtMost(x, Of(Max_)) THEN x ELSE Of(Max_)

Apply(filtered, exp, sample) ==
  Cap(IF filtered = kValueUndefined THEN Of(sample) ELSE Mix(Alpha(exp), filtered, Of(sample)))

-----------------------------------------------------------------------------
(* EventBasedExponentialMovingAverage *)

Reset == [value |-> NaN, sample_variance |-> Infinity, estimator_variance |-> One, last |-> -1]

(* exp(-age / tau_), with tau_ = HalfTime / ln 2.                          *)
E(age) == <<1, 2 ^ (age \div HalfTime)>>

Observe(a, time, sample) ==
  LET e == E(time - a.last)
      alpha == Double(e[1], e[1] + e[2])
      rest == Minus(One, alpha)
      diff == Minus(Of(sample), a.value)
      squared == Times(diff, diff)
  IN  IF a.last = -1 THEN [a EXCEPT !.value = Of(sample), !.last = time]
      ELSE [value |-> Mix(alpha, Of(sample), a.value),
            estimator_variance |-> Plus(Times(Times(rest, rest), a.estimator_variance), Times(alpha, alpha)),
            sample_variance |-> IF a.sample_variance = Infinity THEN squared
                                ELSE Mix(rest, a.sample_variance, squared),
            last |-> time]

-----------------------------------------------------------------------------
(* SampleStats of doubles, over SamplesStatsCounter (which is external):   *)
(* what an empty one says differs.  Those of TimeDelta and DataRate keep   *)
(* seconds and bits per second.                                            *)

Sum(s) == FoldLeft(LAMBDA n, x : n + x, 0, s)
SumOfSquares(s) == FoldLeft(LAMBDA n, x : n + x * x, 0, s)
Sorted(s) == SortSeq(s, <)
Stat(name, s) ==
  LET n == Len(s)
      rank == CASE name = "min" -> 1 [] name = "max" -> n [] OTHER -> (n + 1) \div 2
  IN  CASE n = 0 -> IF name = "max" THEN Infinity ELSE IF name = "min" THEN MinusInfinity ELSE Of(0)
        [] name = "mean" -> Double(Sum(s), n)
        [] name = "variance" -> Double(n * SumOfSquares(s) - Sum(s) * Sum(s), n * n)
        [] OTHER -> Of(Sorted(s)[rank])
Stats == {"min", "max", "mean", "variance", "median"}

StatOfTimes(name, s) ==
  LET x == Stat(name, s)
  IN  IF x[2] = 0 THEN x ELSE Times(x, IF name = "variance" THEN <<1, PerSecond * PerSecond>> ELSE <<1, PerSecond>>)

-----------------------------------------------------------------------------
(* EventRateCounter: a counter of no events has its times at infinity, here*)
(* first > last.                                                           *)

NoEvents == [first |-> 1, last |-> 0, count |-> 0, interval |-> << >>]
NoTimes(r) == r.first > r.last

Earlier(r, o) == IF NoTimes(r) THEN o.first ELSE IF NoTimes(o) \/ r.first <= o.first THEN r.first ELSE o.first
Later(r, o) == IF NoTimes(r) THEN o.last ELSE IF NoTimes(o) \/ r.last >= o.last THEN r.last ELSE o.last

(* The interval is to the last event, not between the two sorted.          *)
AddEvent(r, time) ==
  LET one == [first |-> time, last |-> time, count |-> 1, interval |-> << >>]
  IN  [first |-> Earlier(r, one), last |-> Later(r, one), count |-> r.count + 1,
       interval |-> IF NoTimes(r) THEN r.interval ELSE Append(r.interval, time - r.last)]

AddEvents(r, other) ==
  [first |-> Earlier(r, other), last |-> Later(r, other), count |-> r.count + other.count,
   interval |-> r.interval \o other.interval]

IsEmpty(r) == ~NoTimes(r) /\ r.first = r.last
Rate(r) ==
  IF r.count = 0 THEN Of(0)
  ELSE IF r.count = 1 THEN NaN
  ELSE IF r.first = r.last THEN Infinity ELSE Double((r.count - 1) * PerSecond, r.last - r.first)
TotalDuration(r) == IF NoTimes(r) THEN 0 ELSE r.last - r.first

-----------------------------------------------------------------------------
CountersInit ==
  /\ counter = NewCounter /\ stats = NewStats /\ histogram = NewHistogram
  /\ all = << >> /\ left = << >> /\ emptied = FALSE /\ tails = FALSE

AddSample(sample) ==
  /\ Len(all) < MaxSamples
  /\ counter' = CounterAdd(counter, sample)
  /\ stats' = StatsAdd(stats, sample)
  /\ histogram' = HistogramAdd(histogram, sample, 1)
  /\ all' = Append(all, sample)
  /\ left' = Append(left, sample)
  /\ UNCHANGED <<emptied, tails>>

(* All three are added to by counters that hold the samples of other.      *)
Merge(other) ==
  LET others == FoldLeft(LAMBDA h, v : HistogramAdd(h, v, 1), NewHistogram, other)
  IN  /\ Len(all) + Len(other) <= MaxSamples
      /\ counter' = CounterMerge(counter, FoldLeft(CounterAdd, NewCounter, other))
      /\ stats' = StatsMerge(stats, FoldLeft(StatsAdd, NewStats, other))
      /\ histogram' = HistogramMerge(histogram, others)
      /\ all' = all \o other
      /\ left' = left \o other
      /\ tails' = (tails \/ others.total > others.total_low \/ histogram.total > histogram.total_low)
      /\ UNCHANGED emptied

RemoveSample(i) ==
  /\ stats' = StatsRemove(stats, left[i])
  /\ left' = RemoveAt(left, i)
  /\ emptied' = (emptied \/ Len(left) = 1)
  /\ UNCHANGED <<counter, histogram, all, tails>>

CountersNext ==
  \/ \E sample \in SampleValues : AddSample(sample)
  \/ \E other \in Others : Merge(other)
  \/ \E i \in DOMAIN left : RemoveSample(i)

-----------------------------------------------------------------------------
AveragesInit == filter = kValueUndefined /\ estimate = Reset /\ rate = NoEvents /\ observed = << >>

Now == IF observed = << >> THEN 0 ELSE Last(observed).time

(* The events of one counter come in order.                                *)
Sample(gap, sample) ==
  /\ Len(observed) < MaxInputs
  /\ filter' = Apply(filter, gap \div HalfTime, sample)
  /\ estimate' = Observe(estimate, Now + gap, sample)
  /\ rate' = AddEvent(rate, Now + gap)
  /\ observed' = Append(observed, [time |-> Now + gap, sample |-> sample])

AveragesNext == \E gap \in Gaps, sample \in Inputs : Sample(gap, sample)

-----------------------------------------------------------------------------
Init == FiltersInit /\ CountersInit /\ AveragesInit
Next ==
  \/ FiltersNext /\ UNCHANGED <<counterVars, averageVars>>
  \/ CountersNext /\ UNCHANGED <<filterVars, averageVars>>
  \/ AveragesNext /\ UNCHANGED <<filterVars, counterVars>>

Spec == Init /\ [][Next]_vars

-----------------------------------------------------------------------------
(* The sample at a fraction of all, by its rank.                           *)
PercentileOf(s, n, d) == Sorted(s)[Larger(1, -((-(Len(s) * n)) \div d))]

(* Counters that are added to each other or give samples back know what    *)
(* one counter would that was fed the same samples one by one, the mean    *)
(* and variance without a rounding.  Excepted are RunningStatistics that   *)
(* RemoveSample has emptied, whose mean stays NaN, and histograms added    *)
(* with a long tail, of which the wrong one is added (tails).              *)
CountersAgree ==
  /\ counter = FoldLeft(CounterAdd, NewCounter, all)
  /\ all # << >> => counter.max[1] = SortSeq(all, >)[1] /\ Avg = Sum(all) \div Len(all)
  /\ stats.size = Len(left)
  /\ left # << >> => stats.min = SortSeq(all, <)[1] /\ stats.max = SortSeq(all, >)[1]
  /\ left # << >> /\ ~emptied =>
       /\ stats.mean = Double(Sum(left), Len(left))
       /\ GetVariance = Double(Len(left) * SumOfSquares(left) - Sum(left) * Sum(left),
                               Len(left) * Len(left))
  /\ all # << >> /\ ~tails =>
       \A n \in 0 .. 4 : GetPercentile(histogram, n, 4) = PercentileOf(all, n, 4)

Samples == [k \in DOMAIN observed |-> observed[k].sample]
EventTimes == [k \in DOMAIN observed |-> observed[k].time]
Between(x) == \E a, b \in Range(Samples) : AtMost(Of(a), x) /\ AtMost(x, Of(b))
FedTo(times) == FoldLeft(AddEvent, NoEvents, times)

(* The averages stay among the samples, an exponent weighs as many samples *)
(* as it says, no variance is negative, equal samples have none and the    *)
(* variance of the estimate never exceeds that of a sample; the rate of    *)
(* counters that are added, even of events of other times, is that of all  *)
(* their events, and the intervals of one counter cover its duration.      *)
AveragesAgree ==
  observed # << >> =>
    /\ \/ Between(filter)
       \/ filter = Of(Max_) /\ \E a \in Range(Samples) : a > Max_
    /\ Between(estimate.value)
    /\ \A sample \in Inputs : \A exp \in 0 .. 2 :
         (filter # kValueUndefined /\ Apply(filter, 1, sample) # kValueUndefined) =>
           Apply(filter, exp + 1, sample) = Apply(Apply(filter, 1, sample), exp, sample)
    /\ LET a == estimate IN
       /\ AtMost(a.estimator_variance, One) /\ a.estimator_variance[1] > 0
       /\ Len(observed) > 1 => a.sample_variance[1] >= 0 /\ a.sample_variance[2] > 0
       /\ (Len(observed) > 1 /\ Cardinality(Range(Samples)) = 1) => a.sample_variance = Of(0)
    /\ \A k \in DOMAIN observed :
         LET both == AddEvents(FedTo(SubSeq(EventTimes, k + 1, Len(observed))), FedTo(SubSeq(EventTimes, 1, k)))
         IN  Rate(both) = Rate(rate) /\ TotalDuration(both) = TotalDuration(rate)
    /\ Sum(rate.interval) = TotalDuration(rate)
    /\ rate.interval # << >> =>
         StatOfTimes("mean", rate.interval) = Double(TotalDuration(rate), PerSecond * Len(rate.interval))
    /\ \A name \in Stats : StatOfTimes(name, << >>) = Stat(name, << >>)
===============================================================================

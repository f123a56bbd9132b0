------------------------------ MODULE OhlcChart ------------------------------
(***************************************************************************)
(* How a chart request turns the candles of consecutive minutes into       *)
(* candles of 1, 3, 5, 15, 30 or 60 minutes (makeOhlcResponse in           *)
(* src/ohlc/ohlc.service.ts), and what its answer should be.               *)
(*                                                                         *)
(* data is a sequence of [time, open, close] in ascending order of time, a *)
(* time being the number of a minute, so that intervalPeriod * MINUTE is   *)
(* intervalPeriod.  High, low and volume are left out.                     *)
(***************************************************************************)
EXTENDS Naturals, Sequences, FiniteSets, SequencesExt, FiniteSetsExt

\* a set of times, ascending
InOrder(times) ==
    [k \in 1..Cardinality(times) |->
        CHOOSE t \in times : Cardinality({u \in times : u <= t}) = k]

\* the indices i, i + step, ... up to j
Every(i, j, step) == [k \in 1..((j + step - i) \div step) |-> i + (k - 1) * step]

BucketOf(time, intervalPeriod) == time - (time % intervalPeriod)

Bucket(data, i, j, time) == [t |-> time, o |-> data[i].open, c |-> data[j].close]

\* the indices of candles that begin an interval; firstIndex and lastIndex are
\* the least and the greatest
Beginnings(data, intervalPeriod) ==
    {i \in DOMAIN data : data[i].time % intervalPeriod = 0}

\* no candle begins an interval (firstIndex < 0)
WithoutBeginning(data, intervalPeriod) ==
    LET is == Every(1, Len(data), intervalPeriod)
    IN  [k \in DOMAIN is |->
            Bucket(data, is[k], Len(data), BucketOf(data[is[k]].time, intervalPeriod))]

\* Mutant: the rest of an interval closes with the next one's first candle.
RestOfIntervalLong(data, intervalPeriod, firstIndex) ==
    LET is == Every(1, firstIndex - 1, intervalPeriod)
    IN  [k \in DOMAIN is |->
            Bucket(data, is[k], firstIndex, data[firstIndex].time - intervalPeriod)]

\* the candles before the first one that begins an interval
RestOfInterval(data, intervalPeriod, firstIndex) ==
    LET is == Every(1, firstIndex - 1, intervalPeriod)
    IN  [k \in DOMAIN is |->
            Bucket(data, is[k], firstIndex - 1, data[firstIndex].time - intervalPeriod)]

\* Mutant: endIndex is one less.
WholeIntervalsShort(data, intervalPeriod, firstIndex, lastIndex) ==
    LET is == Every(firstIndex, lastIndex - 1, intervalPeriod)
    IN  [k \in DOMAIN is |->
            Bucket(data, is[k], Min({is[k] + intervalPeriod - 2, lastIndex - 1}),
                   data[is[k]].time)]

WholeIntervals(data, intervalPeriod, firstIndex, lastIndex) ==
    LET is == Every(firstIndex, lastIndex - 1, intervalPeriod)
    IN  [k \in DOMAIN is |->
            Bucket(data, is[k], Min({is[k] + intervalPeriod - 1, lastIndex - 1}),
                   data[is[k]].time)]

NewestInterval(data, intervalPeriod, lastIndex) ==
    LET is == Every(lastIndex, Len(data), intervalPeriod)
    IN  [k \in DOMAIN is |-> Bucket(data, is[k], Len(data), data[is[k]].time)]

\* if the newest interval is not the current one, a flat candle for that
WithCurrent(buckets, lastTimestamp) ==
    IF buckets = <<>> \/ Last(buckets).t = lastTimestamp THEN buckets
    ELSE Append(buckets, [t |-> lastTimestamp, o |-> Last(buckets).c, c |-> Last(buckets).c])

makeOhlcResponse(data, intervalPeriod, currentMinute) ==
    LET beginnings == Beginnings(data, intervalPeriod)
        buckets ==
            IF beginnings = {} THEN WithoutBeginning(data, intervalPeriod)
            ELSE RestOfInterval(data, intervalPeriod, Min(beginnings))
                     \o WholeIntervals(data, intervalPeriod, Min(beginnings), Max(beginnings))
                     \o NewestInterval(data, intervalPeriod, Max(beginnings))
    IN  WithCurrent(buckets, BucketOf(currentMinute, intervalPeriod))

-----------------------------------------------------------------------------
(* What the answer should be: a candle for each interval that has candles   *)
(* and for the current one, from the first open to the last close in it.    *)

ChartOf(data, intervalPeriod, currentMinute) ==
    LET bucket(i) == BucketOf(data[i].time, intervalPeriod)
        times == {bucket(i) : i \in DOMAIN data}
        within(t) == {i \in DOMAIN data : bucket(i) = t}
        before(t) == Max({i \in DOMAIN data : bucket(i) < t})
        candle(t) == IF t \in times THEN Bucket(data, Min(within(t)), Max(within(t)), t)
                     ELSE [t |-> t, o |-> data[before(t)].close, c |-> data[before(t)].close]
        shown == IF times = {} THEN {} ELSE times \cup {BucketOf(currentMinute, intervalPeriod)}
        order == InOrder(shown)
    IN  [k \in DOMAIN order |-> candle(order[k])]

=============================================================================

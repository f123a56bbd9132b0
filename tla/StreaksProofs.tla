--------------------------- MODULE StreaksProofs ---------------------------
(***************************************************************************)
(* What one run makes of the streak counters, proved for every history:    *)
(* the counters keep their types (PlayTyped, WinTyped), and counters of a  *)
(* history, carried over a run, are those of the longer history            *)
(* (PlayGoesOn, WinGoesOn), as the references define them (PlayedIs,       *)
(* WonIs).                                                                 *)
(*                                                                         *)
(* A history matters by the set of its periods, or of the places of its    *)
(* won bets, only: a streak is a row of numbers that are all in that set.  *)
(***************************************************************************)
EXTENDS Streaks, FiniteSetTheorems, NaturalsInduction, WellFoundedInduction, TLAPS

LEMMA MinIn ==
  ASSUME NEW S \in SUBSET Nat, S # {}
  PROVE  Min(S) \in S /\ \A y \in S : Min(S) <= y
<1> DEFINE less == {pair \in Nat \X Nat : pair[1] < pair[2]}
<1>1. IsWellFoundedOn(less, Nat)
  <2>1. less = OpToRel(<, Nat)
    BY DEF OpToRel
  <2> QED BY <2>1, NatLessThanWellFounded
<1>2. \E x \in S : \A y \in S : ~(<<y, x>> \in less)
  <2> HIDE DEF less
  <2> QED BY <1>1, WFMin
<1>3. PICK x \in S : \A y \in S : ~(<<y, x>> \in less)
  BY <1>2
<1>4. ASSUME NEW y \in S
      PROVE  x <= y
  <2>1. y < x => <<y, x>> \in less
    OBVIOUS
  <2> QED BY <1>3, <2>1
<1> QED BY <1>4 DEF Min

\* Numbers with a bound have a largest one.
LEMMA MaxIn ==
  ASSUME NEW S \in SUBSET Nat, S # {}, NEW n \in Nat, \A x \in S : x <= n
  PROVE  Max(S) \in S /\ \A x \in S : x <= Max(S)
<1> DEFINE below == {n - x : x \in S}
<1>1. below \in SUBSET Nat /\ below # {}
  <2>1. \A x \in S : n - x \in Nat
    OBVIOUS
  <2> QED BY <2>1
<1> HIDE DEF below
<1>2. Min(below) \in below /\ \A y \in below : Min(below) <= y
  BY <1>1, MinIn
<1>3. PICK x \in S : Min(below) = n - x
  BY <1>2 DEF below
<1>4. \A y \in S : y <= x
  <2> SUFFICES ASSUME NEW y \in S PROVE y <= x
    OBVIOUS
  <2>1. n - y \in below
    BY DEF below
  <2> QED BY <1>2, <1>3, <2>1
<1> QED BY <1>4 DEF Max

LEMMA MaxIs ==
  ASSUME NEW S, NEW n \in Int, n \in S, S \subseteq Int, \A x \in S : x <= n
  PROVE  Max(S) = n
<1>1. Max(S) \in S /\ \A x \in S : x <= Max(S)
  <2>1. \E x \in S : \A y \in S : x >= y
    OBVIOUS
  <2> QED BY <2>1 DEF Max
<1>2. n <= Max(S) /\ Max(S) <= n /\ Max(S) \in Int
  BY <1>1
<1> QED BY <1>2

-----------------------------------------------------------------------------
(* Subarrays. *)

\* A subarray goes on until the next one begins.
LEMMA EndsBeforeNext ==
  ASSUME NEW len \in Nat, NEW starts \in SUBSET (1..len), NEW i \in 1..len
  PROVE  LET last == SubarrayEnd(starts, i, len)
         IN  /\ last \in i..len
             /\ \A k \in starts : k > i => k > last
             /\ last = len \/ last + 1 \in starts
<1> DEFINE ends == {j - 1 : j \in {k \in starts : k > i}} \cup {len}
<1>1. ends \in SUBSET Nat /\ ends # {} /\ \A e \in ends : e \in i..len
  OBVIOUS
<1>2. \A k \in starts : k > i => k - 1 \in ends
  OBVIOUS
<1>3. \A e \in ends : e = len \/ e + 1 \in starts
  OBVIOUS
<1>4. SubarrayEnd(starts, i, len) = Min(ends)
  BY DEF SubarrayEnd
<1> HIDE DEF ends
<1>5. Min(ends) \in ends /\ \A e \in ends : Min(ends) <= e
  BY <1>1, MinIn
<1>6. ASSUME NEW k \in starts, k > i PROVE k > Min(ends)
  <2>1. Min(ends) <= k - 1
    BY <1>2, <1>5, <1>6
  <2>2. Min(ends) \in Nat
    BY <1>1, <1>5
  <2>3. k \in Nat
    OBVIOUS
  <2> QED BY <2>1, <2>2, <2>3
<1> QED BY <1>1, <1>3, <1>4, <1>5, <1>6

\* Every place is in a subarray.
LEMMA InSubarray ==
  ASSUME NEW len \in Nat, NEW starts \in SUBSET (1..len), 1 \in starts, NEW k \in 1..len
  PROVE  \E i \in starts : /\ i <= k /\ k <= SubarrayEnd(starts, i, len)
                           /\ \A j \in starts : j <= k => j <= i
<1> DEFINE before == {j \in starts : j <= k}
           i == Max(before)
<1>1. before \in SUBSET Nat /\ before # {} /\ \A j \in before : j <= k
  <2>1. 1 \in before
    OBVIOUS
  <2>2. \A j \in before : j \in Nat /\ j <= k
    OBVIOUS
  <2> HIDE DEF before
  <2> QED BY <2>1, <2>2
<1>2. i \in before /\ \A j \in before : j <= i
  <2> HIDE DEF before
  <2> QED BY <1>1, MaxIn
<1> HIDE DEF i
<1>3. i \in starts /\ i <= k /\ \A j \in starts : j <= k => j <= i
  BY <1>2
<1>4. k <= SubarrayEnd(starts, i, len)
  <2> DEFINE last == SubarrayEnd(starts, i, len)
  <2>1. last \in i..len /\ (last = len \/ last + 1 \in starts)
    BY <1>3, EndsBeforeNext
  <2> HIDE DEF last
  <2>2. i \in Nat /\ last \in Nat
    BY <1>3, <2>1
  <2>3. last < k => last + 1 <= i
    BY <1>3, <2>1, <2>2
  <2>4. k <= last
    BY <2>1, <2>2, <2>3
  <2> QED BY <2>4 DEF last
<1> QED BY <1>3, <1>4

-----------------------------------------------------------------------------
(* Playing streaks. *)

\* The counters of handlePlayingStreaks; current is 0 as long as no bet came.
PlayCounters == [longest : Nat, current : Nat, date : Int]
Counting(play) == play \in PlayCounters /\ (play.current >= 1 \/ play.date < -1)

Ascending(periods) ==
    /\ periods \in Seq(Nat)
    /\ \A i, j \in DOMAIN periods : i <= j => periods[i] <= periods[j]

DatesEnd(periods, i) == SubarrayEnd(DateSubarrays(periods), i, Len(periods))
PlayLength(old, periods, i) ==
    periods[DatesEnd(periods, i)] - periods[i] + 1
        + (IF i = 1 THEN PlayCarry(old, periods[1]) ELSE 0)

LEMMA PlayingStreakIs ==
  ASSUME NEW old, NEW periods
  PROVE  PlayingStreak(old, periods) =
           [longest |-> Max({old.longest} \cup
                            {PlayLength(old, periods, i) : i \in DateSubarrays(periods)}),
            current |-> PlayLength(old, periods, Max(DateSubarrays(periods))),
            date    |-> periods[Len(periods)]]
BY DEF PlayingStreak, PlayLength, DatesEnd

LEMMA Dates ==
  ASSUME NEW periods, Ascending(periods), periods # <<>>
  PROVE  /\ Len(periods) \in Nat \ {0} /\ DOMAIN periods = 1..Len(periods)
         /\ DateSubarrays(periods) \in SUBSET (1..Len(periods)) /\ 1 \in DateSubarrays(periods)
         /\ \A i \in DateSubarrays(periods) : DatesEnd(periods, i) \in i..Len(periods)
         /\ \A i \in DOMAIN periods : periods[i] \in Nat
<1>1. Len(periods) \in Nat \ {0} /\ DOMAIN periods = 1..Len(periods)
  BY DEF Ascending
<1>2. DateSubarrays(periods) \in SUBSET (1..Len(periods)) /\ 1 \in DateSubarrays(periods)
  BY <1>1 DEF DateSubarrays
<1>3. \A i \in DateSubarrays(periods) : DatesEnd(periods, i) \in i..Len(periods)
  BY <1>1, <1>2, EndsBeforeNext DEF DatesEnd
<1> QED BY <1>1, <1>2, <1>3 DEF Ascending

\* The last subarray ends with the periods.
LEMMA LastDates ==
  ASSUME NEW periods, Ascending(periods), periods # <<>>
  PROVE  /\ Max(DateSubarrays(periods)) \in DateSubarrays(periods)
         /\ DatesEnd(periods, Max(DateSubarrays(periods))) = Len(periods)
<1> DEFINE starts == DateSubarrays(periods)
           len == Len(periods)
<1>1. starts \in SUBSET (1..len) /\ 1 \in starts /\ len \in Nat \ {0}
  BY Dates
<1> HIDE DEF starts, len
<1>2. Max(starts) \in starts /\ \A j \in starts : j <= Max(starts)
  <2>1. starts \in SUBSET Nat /\ starts # {} /\ \A j \in starts : j <= len
    BY <1>1
  <2> QED BY <1>1, <2>1, MaxIn
<1>3. /\ SubarrayEnd(starts, Max(starts), len) \in Max(starts)..len
      /\ \/ SubarrayEnd(starts, Max(starts), len) = len
         \/ SubarrayEnd(starts, Max(starts), len) + 1 \in starts
  BY <1>1, <1>2, EndsBeforeNext
<1>4. SubarrayEnd(starts, Max(starts), len) = len
  <2> DEFINE i == Max(starts)
             last == SubarrayEnd(starts, i, len)
  <2>1. i \in Nat /\ last \in Nat /\ i <= last /\ (last = len \/ last + 1 \in starts)
    <3>1. i \in 1..len /\ last \in i..len /\ (last = len \/ last + 1 \in starts)
      BY <1>1, <1>2, <1>3
    <3> HIDE DEF last, i
    <3> QED BY <1>1, <3>1
  <2> HIDE DEF last, i
  <2>2. last + 1 \notin starts
    BY <1>2, <2>1 DEF i
  <2> QED BY <2>1, <2>2 DEF last, i
<1> QED BY <1>2, <1>4 DEF DatesEnd, starts, len

LEMMA CarryTyped ==
  ASSUME NEW old, Counting(old), NEW first \in Nat
  PROVE  PlayCarry(old, first) \in Nat /\ PlayCarry(old, first) <= old.current
BY DEF Counting, PlayCounters, PlayCarry

\* The length of a subarray, with what is carried to it.
LEMMA PlayLengthTyped ==
  ASSUME NEW old, Counting(old), NEW periods, Ascending(periods), periods # <<>>,
         NEW i \in DateSubarrays(periods)
  PROVE  /\ PlayLength(old, periods, i) \in Nat \ {0}
         /\ PlayLength(old, periods, i) <= periods[Len(periods)] + 1 + old.current
<1> DEFINE e == DatesEnd(periods, i)
           len == Len(periods)
<1>1. i \in 1..len /\ e \in i..len /\ len \in Nat \ {0} /\ DOMAIN periods = 1..len
  BY Dates
<1>2. /\ periods[i] \in Nat /\ periods[e] \in Nat /\ periods[len] \in Nat /\ periods[1] \in Nat
      /\ periods[i] <= periods[e] /\ periods[e] <= periods[len]
  BY <1>1 DEF Ascending
<1>3. PlayCarry(old, periods[1]) \in Nat /\ PlayCarry(old, periods[1]) <= old.current
  BY <1>2, CarryTyped
<1>4. old.current \in Nat
  BY DEF Counting, PlayCounters
<1>5. PlayLength(old, periods, i) =
        periods[e] - periods[i] + 1 + (IF i = 1 THEN PlayCarry(old, periods[1]) ELSE 0)
  BY DEF PlayLength
<1> HIDE DEF e, len
<1>6. PlayLength(old, periods, i) \in Nat \ {0}
  BY <1>2, <1>3, <1>5
<1>7. PlayLength(old, periods, i) <= periods[len] + 1 + old.current
  BY <1>2, <1>3, <1>4, <1>5
<1> QED BY <1>6, <1>7 DEF len

\* A run keeps the counters counters.
LEMMA PlayTyped ==
  ASSUME NEW old, Counting(old), NEW periods, Ascending(periods), periods # <<>>
  PROVE  /\ Counting(PlayingStreak(old, periods))
         /\ old.longest <= PlayingStreak(old, periods).longest
         /\ PlayingStreak(old, periods).current >= 1
         /\ PlayingStreak(old, periods).date = periods[Len(periods)]
         /\ \A i \in DateSubarrays(periods) :
              PlayLength(old, periods, i) <= PlayingStreak(old, periods).longest
         /\ \/ PlayingStreak(old, periods).longest = old.longest
            \/ \E i \in DateSubarrays(periods) :
                 PlayingStreak(old, periods).longest = PlayLength(old, periods, i)
<1> DEFINE lengths == {old.longest} \cup
                        {PlayLength(old, periods, i) : i \in DateSubarrays(periods)}
           bound == periods[Len(periods)] + 1 + old.current + old.longest
<1>1. old.longest \in Nat /\ old.current \in Nat /\ periods[Len(periods)] \in Nat
  BY Dates DEF Counting, PlayCounters
<1>2. \A i \in DateSubarrays(periods) :
        /\ PlayLength(old, periods, i) \in Nat \ {0}
        /\ PlayLength(old, periods, i) <= periods[Len(periods)] + 1 + old.current
  BY PlayLengthTyped
<1>3. lengths \in SUBSET Nat /\ lengths # {} /\ bound \in Nat /\ \A x \in lengths : x <= bound
  <2>1. lengths \in SUBSET Nat /\ lengths # {} /\ bound \in Nat
    BY <1>1, <1>2
  <2>2. \A i \in DateSubarrays(periods) : PlayLength(old, periods, i) <= bound
    BY <1>1, <1>2
  <2>3. old.longest <= bound
    BY <1>1
  <2> QED BY <2>1, <2>2, <2>3
<1>4. Max(lengths) \in lengths /\ \A x \in lengths : x <= Max(lengths)
  <2> HIDE DEF lengths, bound
  <2> QED BY <1>3, MaxIn
<1>5. PlayLength(old, periods, Max(DateSubarrays(periods))) \in Nat \ {0}
  BY <1>2, LastDates
<1>6. /\ PlayingStreak(old, periods).longest = Max(lengths)
      /\ PlayingStreak(old, periods).current = PlayLength(old, periods, Max(DateSubarrays(periods)))
      /\ PlayingStreak(old, periods).date = periods[Len(periods)]
  BY PlayingStreakIs
<1>7. PlayingStreak(old, periods) \in PlayCounters
  <2> DEFINE longest == Max(lengths)
             current == PlayLength(old, periods, Max(DateSubarrays(periods)))
             date == periods[Len(periods)]
  <2>1. PlayingStreak(old, periods) = [longest |-> longest, current |-> current, date |-> date]
    BY PlayingStreakIs
  <2>2. longest \in Nat /\ current \in Nat /\ date \in Int
    BY <1>1, <1>3, <1>4, <1>5
  <2> HIDE DEF longest, current, date
  <2> QED BY <2>1, <2>2 DEF PlayCounters
<1>8. Max(lengths) = old.longest
        \/ \E i \in DateSubarrays(periods) : Max(lengths) = PlayLength(old, periods, i)
  BY <1>4
<1>9. old.longest \in lengths
        /\ \A i \in DateSubarrays(periods) : PlayLength(old, periods, i) \in lengths
  OBVIOUS
<1> HIDE DEF lengths
<1> QED BY <1>4, <1>5, <1>6, <1>7, <1>8, <1>9 DEF Counting

\* What the periods come to: rows of numbers that were all played.
Played(periods) == {periods[i] : i \in DOMAIN periods}

PlaysOver(play, played) ==
    /\ play \in PlayCounters
    /\ played \subseteq Nat
    /\ played = {} => play = NeverPlayed
    /\ played # {} =>
         /\ play.date \in played /\ \A v \in played : v <= play.date
         /\ \E p \in played : p..(p + play.longest - 1) \subseteq played
         /\ \A p, q \in played : p <= q /\ p..q \subseteq played => q - p + 1 <= play.longest
         /\ play.longest >= 1 /\ play.current >= 1
         /\ (play.date - play.current + 1)..play.date \subseteq played
         /\ play.date - play.current \notin played

\* A subarray leaves out no period.
LEMMA DatesFilled ==
  ASSUME NEW periods, Ascending(periods), periods # <<>>, NEW i \in DateSubarrays(periods),
         NEW v \in periods[i]..periods[DatesEnd(periods, i)]
  PROVE  v \in Played(periods)
<1> DEFINE e == DatesEnd(periods, i)
           len == Len(periods)
           later == {k \in i..e : periods[k] >= v}
           k == Min(later)
<1>1. i \in 1..len /\ e \in i..len /\ len \in Nat \ {0} /\ DOMAIN periods = 1..len
  BY Dates
<1>2. \A j \in 1..len : periods[j] \in Nat
  BY Dates
<1>3. \A j \in (i + 1)..e : periods[j] - periods[j - 1] <= 1
  <2> SUFFICES ASSUME NEW j \in (i + 1)..e PROVE periods[j] - periods[j - 1] <= 1
    OBVIOUS
  <2>1. j \notin DateSubarrays(periods)
    <3>1. \A m \in DateSubarrays(periods) : m > i => m > e
      BY <1>1, Dates, EndsBeforeNext DEF DatesEnd
    <3> HIDE DEF e, len
    <3> QED BY <1>1, <3>1
  <2>2. j \in DOMAIN periods /\ j # 1
    BY <1>1
  <2>3. periods[j] \in Nat /\ periods[j - 1] \in Nat
    BY <1>1, <1>2
  <2> QED BY <2>1, <2>2, <2>3 DEF DateSubarrays
<1> HIDE DEF len
<1>4. v \in Int /\ periods[i] <= v /\ v <= periods[e]
  BY <1>1, <1>2
<1> HIDE DEF e
<1>5. later \in SUBSET Nat /\ later # {}
  <2>1. e \in later
    BY <1>1, <1>4
  <2>2. \A j \in later : j \in Nat
    BY <1>1
  <2> QED BY <2>1, <2>2
<1>6. k \in later /\ \A j \in later : k <= j
  <2> HIDE DEF later
  <2> QED BY <1>5, MinIn
<1> HIDE DEF k
<1>7. k \in i..e /\ periods[k] >= v
  BY <1>6
<1>8. periods[k] = v
  <2>1. CASE k = i
    BY <1>1, <1>2, <1>4, <1>7, <2>1
  <2>2. CASE k # i
    <3>1. k - 1 \in i..e /\ k - 1 \notin later /\ k \in (i + 1)..e
      BY <1>1, <1>6, <1>7, <2>2
    <3>2. periods[k - 1] < v /\ periods[k] - periods[k - 1] <= 1
      BY <1>1, <1>2, <1>3, <1>4, <3>1
    <3> QED BY <1>1, <1>2, <1>4, <1>7, <3>1, <3>2
  <2> QED BY <2>1, <2>2
<1> QED BY <1>1, <1>7, <1>8 DEF Played

\* Before a subarray, and after it, a period is left out.
LEMMA DatesApart ==
  ASSUME NEW periods, Ascending(periods), periods # <<>>
  PROVE  /\ \A i \in DateSubarrays(periods) : i # 1 =>
              periods[i] - 1 \notin Played(periods) /\ periods[i] - 1 > periods[1]
         /\ \A i \in DateSubarrays(periods) : DatesEnd(periods, i) # Len(periods) =>
              periods[DatesEnd(periods, i)] + 1 \notin Played(periods)
<1> DEFINE len == Len(periods)
<1>1. len \in Nat \ {0} /\ DOMAIN periods = 1..len /\ \A j \in 1..len : periods[j] \in Nat
  BY Dates
<1>2. \A j, k \in 1..len : j <= k => periods[j] <= periods[k]
  BY <1>1 DEF Ascending
<1> HIDE DEF len
<1>3. ASSUME NEW i \in 2..len, periods[i] - periods[i - 1] > 1
      PROVE  /\ \A v : periods[i - 1] < v /\ v < periods[i] /\ v \in Int => v \notin Played(periods)
             /\ periods[1] <= periods[i - 1]
  <2>1. i \in 1..len /\ i - 1 \in 1..len /\ 1 \in 1..len /\ periods[1] <= periods[i - 1]
    BY <1>1, <1>2, <1>3
  <2>2. ASSUME NEW k \in 1..len, periods[i - 1] < periods[k], periods[k] < periods[i] PROVE FALSE
    <3>1. k <= i - 1 \/ i <= k
      BY <2>1
    <3> QED BY <1>1, <1>2, <2>1, <2>2, <3>1
  <2> QED BY <1>1, <2>1, <2>2 DEF Played
<1>4. ASSUME NEW i \in DateSubarrays(periods), i # 1
      PROVE  i \in 2..len /\ periods[i] - periods[i - 1] > 1 /\ i - 1 \in 1..len
  BY <1>1, <1>4 DEF DateSubarrays
<1>5. ASSUME NEW i \in DateSubarrays(periods), i # 1
      PROVE  periods[i] - 1 \notin Played(periods) /\ periods[i] - 1 > periods[1]
  <2>1. i \in 2..len /\ periods[i] - periods[i - 1] > 1 /\ i - 1 \in 1..len /\ i \in 1..len
    BY <1>1, <1>4, <1>5
  <2>2. periods[i] \in Nat /\ periods[i - 1] \in Nat /\ periods[1] \in Nat
    BY <1>1, <2>1
  <2> QED BY <1>3, <2>1, <2>2
<1>6. ASSUME NEW i \in DateSubarrays(periods), DatesEnd(periods, i) # len
      PROVE  periods[DatesEnd(periods, i)] + 1 \notin Played(periods)
  <2> DEFINE e == DatesEnd(periods, i)
  <2>1. e \in i..len /\ i \in 1..len /\ e + 1 \in DateSubarrays(periods)
    BY <1>1, <1>6, Dates, EndsBeforeNext DEF DatesEnd, len
  <2> HIDE DEF e
  <2>2. e \in 1..len /\ e + 1 # 1
    BY <1>1, <2>1
  <2>3. e + 1 \in 2..len /\ periods[e + 1] - periods[(e + 1) - 1] > 1 /\ (e + 1) - 1 = e
    BY <1>4, <2>1, <2>2
  <2>4. periods[e] \in Nat /\ periods[e + 1] \in Nat
    BY <1>1, <2>2, <2>3
  <2>5. periods[e] + 1 \notin Played(periods)
    BY <1>3, <2>3, <2>4
  <2> QED BY <2>5 DEF e
<1> QED BY <1>5, <1>6 DEF len

\* A row of periods lies within a subarray.
LEMMA DatesWhole ==
  ASSUME NEW periods, Ascending(periods), periods # <<>>,
         NEW p \in Played(periods), NEW q \in Played(periods), p <= q,
         p..q \subseteq Played(periods)
  PROVE  \E i \in DateSubarrays(periods) :
           periods[i] <= p /\ q <= periods[DatesEnd(periods, i)]
<1> DEFINE len == Len(periods)
<1>1. len \in Nat \ {0} /\ DOMAIN periods = 1..len /\ \A j \in 1..len : periods[j] \in Nat
  BY Dates
<1>2. \A j, k \in 1..len : j <= k => periods[j] <= periods[k]
  BY <1>1 DEF Ascending
<1>3. PICK j \in 1..len : periods[j] = p
  BY <1>1 DEF Played
<1>4. PICK m \in 1..len : periods[m] = q
  BY <1>1 DEF Played
<1>5. DateSubarrays(periods) \in SUBSET (1..len) /\ 1 \in DateSubarrays(periods)
  BY Dates
<1>6. PICK i \in DateSubarrays(periods) : i <= j /\ j <= DatesEnd(periods, i)
  BY <1>1, <1>5, InSubarray DEF DatesEnd
<1> DEFINE e == DatesEnd(periods, i)
<1>7. e \in i..len /\ (e # len => periods[e] + 1 \notin Played(periods))
  BY Dates, DatesApart
<1> HIDE DEF e, len
<1>8. i \in 1..len /\ e \in 1..len /\ i <= j /\ j <= e
  BY <1>5, <1>6, <1>7 DEF e
<1>9. periods[i] <= p
  BY <1>2, <1>3, <1>8
<1>10. p <= periods[e] /\ p \in Nat /\ q \in Nat /\ periods[e] \in Nat
  BY <1>1, <1>2, <1>3, <1>4, <1>8
<1>11. q <= periods[e]
  <2> SUFFICES ASSUME periods[e] < q PROVE FALSE
    BY <1>10
  <2>1. periods[e] + 1 \in p..q
    BY <1>10
  <2>2. e = len
    BY <1>7, <2>1
  <2>3. m <= e
    BY <1>1, <1>4, <2>2
  <2> QED BY <1>2, <1>4, <1>8, <1>10, <2>3
<1> QED BY <1>9, <1>11 DEF e

\* Where the streak of a subarray begins, with what is carried to it.
PlayBegins(old, periods, i) ==
    periods[i] - (IF i = 1 THEN PlayCarry(old, periods[1]) ELSE 0)

\* The carry reaches back over what was played just before, and no further.
LEMMA CarryReaches ==
  ASSUME NEW old, NEW played, PlaysOver(old, played), NEW first \in Nat,
         \A v \in played : v <= first, NEW later, first \in later, \A v \in later : v >= first
  PROVE  /\ PlayCarry(old, first) \in Nat
         /\ (first - PlayCarry(old, first))..first \subseteq played \cup later
         /\ first - PlayCarry(old, first) - 1 \notin played \cup later
<1> DEFINE c == PlayCarry(old, first)
<1>1. CASE played = {}
  <2>1. old = NeverPlayed
    BY <1>1 DEF PlaysOver
  <2>2. c = 0
    BY <2>1 DEF NeverPlayed, PlayCarry
  <2> QED BY <1>1, <2>2
<1>2. CASE played # {}
  <2>1. /\ old.date \in Nat /\ old.date <= first /\ \A v \in played : v \in Nat /\ v <= old.date
        /\ old.current \in Nat /\ old.current >= 1
        /\ (old.date - old.current + 1)..old.date \subseteq played
        /\ old.date - old.current \notin played
    BY <1>2 DEF PlaysOver, PlayCounters
  <2>2. CASE first = old.date
    <3>1. c = old.current - 1
      BY <2>1, <2>2 DEF PlayCarry
    <3>2. first - c = old.date - old.current + 1 /\ first - c - 1 = old.date - old.current
      BY <2>1, <2>2, <3>1
    <3>3. first - c - 1 \notin later
      BY <2>1, <2>2, <3>1
    <3> QED BY <2>1, <2>2, <3>1, <3>2, <3>3
  <2>3. CASE first - old.date = 1
    <3>1. c = old.current
      BY <2>1, <2>3 DEF PlayCarry
    <3>2. first - c = old.date - old.current + 1 /\ first - c - 1 = old.date - old.current
      BY <2>1, <2>3, <3>1
    <3>3. first - c - 1 \notin later
      BY <2>1, <2>3, <3>1
    <3>4. \A v \in (first - c)..first : v \in (old.date - old.current + 1)..old.date \/ v = first
      BY <2>1, <2>3, <3>2
    <3> QED BY <2>1, <3>1, <3>2, <3>3, <3>4
  <2>4. CASE first - old.date > 1
    <3>1. c = 0
      BY <2>1, <2>4 DEF PlayCarry
    <3>2. first - 1 \notin played /\ first - 1 \notin later
      BY <2>1, <2>4
    <3>3. \A v \in first..first : v = first
      OBVIOUS
    <3> QED BY <3>1, <3>2, <3>3
  <2> QED BY <2>1, <2>2, <2>3, <2>4
<1> QED BY <1>1, <1>2

\* The streaks of a run, carry and all, are rows of what has been played, and
\* every row that ends in the run lies within one of them.
LEMMA StreaksOfRun ==
  ASSUME NEW old, NEW played, PlaysOver(old, played),
         NEW periods, Ascending(periods), periods # <<>>, \A v \in played : v <= periods[1]
  PROVE  LET all == played \cup Played(periods)
         IN  /\ \A i \in DateSubarrays(periods) :
                  /\ PlayBegins(old, periods, i) \in all
                  /\ PlayBegins(old, periods, i) <= periods[i]
                  /\ PlayBegins(old, periods, i)..periods[DatesEnd(periods, i)] \subseteq all
                  /\ PlayBegins(old, periods, i) - 1 \notin all
             /\ \A p, q \in all : p <= q /\ p..q \subseteq all /\ periods[1] <= q =>
                  \E i \in DateSubarrays(periods) :
                    PlayBegins(old, periods, i) <= p /\ q <= periods[DatesEnd(periods, i)]
<1> DEFINE new == Played(periods)
           all == played \cup new
           first == periods[1]
           c == PlayCarry(old, first)
           len == Len(periods)
<1>1. len \in Nat \ {0} /\ DOMAIN periods = 1..len /\ \A j \in 1..len : periods[j] \in Nat
  BY Dates
<1>2. \A j, k \in 1..len : j <= k => periods[j] <= periods[k]
  BY <1>1 DEF Ascending
<1>3. first \in Nat /\ first \in new /\ \A v \in new : v \in Nat /\ v >= first
  BY <1>1, <1>2 DEF Played
<1>4. \A v \in played : v \in Nat /\ v <= first
  BY DEF PlaysOver
<1>5. c \in Nat /\ (first - c)..first \subseteq all /\ first - c - 1 \notin all
  <2>1. first \in Nat /\ \A v \in played : v <= first
    BY <1>3, <1>4
  <2>2. first \in new /\ \A v \in new : v >= first
    BY <1>3
  <2> HIDE DEF first, new
  <2>3. /\ PlayCarry(old, first) \in Nat
        /\ (first - PlayCarry(old, first))..first \subseteq played \cup new
        /\ first - PlayCarry(old, first) - 1 \notin played \cup new
    BY <2>1, <2>2, CarryReaches, Zenon
  <2> QED BY <2>3, Zenon
<1>6. \A i \in DateSubarrays(periods) :
        /\ i \in 1..len /\ DatesEnd(periods, i) \in i..len
        /\ periods[i] \in Nat /\ periods[DatesEnd(periods, i)] \in Nat
        /\ periods[i] <= periods[DatesEnd(periods, i)]
        /\ periods[i] \in new
  <2> SUFFICES ASSUME NEW i \in DateSubarrays(periods)
               PROVE  /\ i \in 1..len /\ DatesEnd(periods, i) \in i..len
                      /\ periods[i] \in Nat /\ periods[DatesEnd(periods, i)] \in Nat
                      /\ periods[i] <= periods[DatesEnd(periods, i)]
                      /\ periods[i] \in new
    OBVIOUS
  <2>1. i \in 1..len /\ DatesEnd(periods, i) \in i..len
    BY Dates
  <2>2. DatesEnd(periods, i) \in 1..len
    BY <1>1, <2>1
  <2> QED BY <1>1, <1>2, <2>1, <2>2 DEF Played
<1>7. PlayBegins(old, periods, 1) = first - c
  BY DEF PlayBegins
<1>8. \A i \in DateSubarrays(periods) : i # 1 => PlayBegins(old, periods, i) = periods[i]
  BY <1>6 DEF PlayBegins
<1>9. \A i \in DateSubarrays(periods) :
        \A v \in periods[i]..periods[DatesEnd(periods, i)] : v \in new
  BY DatesFilled
<1>10. \A i \in DateSubarrays(periods) :
         i # 1 => periods[i] - 1 \notin new /\ periods[i] - 1 > first
  BY DatesApart
<1> HIDE DEF new, first, c, len
<1>11. ASSUME NEW i \in DateSubarrays(periods)
       PROVE  /\ PlayBegins(old, periods, i) \in all
              /\ PlayBegins(old, periods, i) <= periods[i]
              /\ PlayBegins(old, periods, i)..periods[DatesEnd(periods, i)] \subseteq all
              /\ PlayBegins(old, periods, i) - 1 \notin all
  <2> DEFINE e == periods[DatesEnd(periods, i)]
             a == PlayBegins(old, periods, i)
  <2>1. e \in Nat /\ periods[i] \in Nat /\ periods[i] <= e /\ periods[i] \in new
    BY <1>6
  <2>2. \A v \in periods[i]..e : v \in new
    BY <1>9
  <2>3. CASE i = 1
    <3>1. a = first - c /\ periods[i] = first
      BY <1>7, <2>3 DEF first
    <3> HIDE DEF a, e
    <3>2. \A v \in a..e : v \in a..first \/ v \in first..e
      BY <1>3, <1>5, <2>1, <3>1
    <3>3. a..e \subseteq all
      BY <1>5, <2>2, <3>1, <3>2
    <3>4. a \in a..e /\ a <= periods[i]
      BY <1>3, <1>5, <2>1, <3>1
    <3>5. a - 1 \notin all
      BY <1>5, <3>1
    <3> QED BY <3>3, <3>4, <3>5 DEF a, e
  <2>4. CASE i # 1
    <3>1. a = periods[i]
      BY <1>8, <2>4
    <3>2. a - 1 \notin new /\ a - 1 > first
      BY <1>10, <2>4, <3>1
    <3> HIDE DEF a, e
    <3>3. a - 1 \notin played
      BY <1>3, <1>4, <2>1, <3>1, <3>2
    <3>4. a..e \subseteq all /\ a \in all /\ a <= periods[i]
      BY <2>1, <2>2, <3>1
    <3> QED BY <3>2, <3>3, <3>4 DEF a, e
  <2> QED BY <2>3, <2>4
<1>12. ASSUME NEW p \in all, NEW q \in all, p <= q, p..q \subseteq all, first <= q
       PROVE  \E i \in DateSubarrays(periods) :
                PlayBegins(old, periods, i) <= p /\ q <= periods[DatesEnd(periods, i)]
  <2>1. p \in Nat /\ q \in Nat
    BY <1>3, <1>4
  <2>2. \A v \in all : v >= first => v \in new
    BY <1>3, <1>4
  <2>3. CASE first <= p
    <3>1. p \in new /\ q \in new /\ p..q \subseteq new
      BY <1>3, <1>12, <2>1, <2>2, <2>3
    <3>2. PICK i \in DateSubarrays(periods) :
            periods[i] <= p /\ q <= periods[DatesEnd(periods, i)]
      BY <1>12, <3>1, DatesWhole DEF new
    <3>3. PlayBegins(old, periods, i) <= periods[i] /\ PlayBegins(old, periods, i) \in Nat
      BY <1>3, <1>4, <1>11
    <3>4. PlayBegins(old, periods, i) <= p
      BY <1>6, <2>1, <3>2, <3>3
    <3> QED BY <3>2, <3>4
  <2>4. CASE p < first
    <3>1. q \in new /\ first..q \subseteq new
      BY <1>3, <1>12, <2>1, <2>2, <2>4
    <3>2. PICK i \in DateSubarrays(periods) :
            periods[i] <= first /\ q <= periods[DatesEnd(periods, i)]
      BY <1>3, <1>12, <3>1, DatesWhole DEF new
    <3>3. i = 1
      BY <1>3, <1>6, <1>10, <3>2
    <3>4. first - c <= p
      <4> SUFFICES ASSUME p < first - c PROVE FALSE
        BY <1>3, <1>5, <2>1
      <4>1. first - c - 1 \in p..q
        BY <1>3, <1>5, <1>12, <2>1
      <4> QED BY <1>5, <1>12, <4>1
    <3> QED BY <1>7, <3>2, <3>3, <3>4
  <2> QED BY <1>3, <2>1, <2>3, <2>4
<1> QED BY <1>11, <1>12 DEF new, first

\* Playing streaks carried from a run to the next, whose bets ended later, are
\* those of all that was played (handlePlayingStreaks).
THEOREM PlayGoesOn ==
  ASSUME NEW old, NEW played, PlaysOver(old, played),
         NEW periods, Ascending(periods), periods # <<>>, \A v \in played : v <= periods[1]
  PROVE  PlaysOver(PlayingStreak(old, periods), played \cup Played(periods))
<1> DEFINE all == played \cup Played(periods)
           play == PlayingStreak(old, periods)
           len == Len(periods)
           begins(i) == PlayBegins(old, periods, i)
           ends(i) == periods[DatesEnd(periods, i)]
<1>1. len \in Nat \ {0} /\ DOMAIN periods = 1..len /\ \A j \in 1..len : periods[j] \in Nat
  BY Dates
<1>2. \A j, k \in 1..len : j <= k => periods[j] <= periods[k]
  BY <1>1 DEF Ascending
<1>3. Counting(old)
  BY DEF PlaysOver, Counting, NeverPlayed
<1>4. /\ play \in PlayCounters /\ play.date = periods[len]
      /\ old.longest <= play.longest /\ play.current >= 1
      /\ \A i \in DateSubarrays(periods) : PlayLength(old, periods, i) <= play.longest
      /\ \/ play.longest = old.longest
         \/ \E i \in DateSubarrays(periods) : play.longest = PlayLength(old, periods, i)
  BY <1>3, PlayTyped DEF Counting
<1>5. all \subseteq Nat /\ \A v \in all : v <= periods[len]
  <2>1. \A v \in Played(periods) : v \in Nat /\ v <= periods[len]
    BY <1>1, <1>2 DEF Played
  <2>2. \A v \in played : v \in Nat /\ v <= periods[1]
    BY DEF PlaysOver
  <2>3. periods[1] \in Nat /\ periods[len] \in Nat /\ periods[1] <= periods[len]
    BY <1>1, <1>2
  <2> HIDE DEF len
  <2> QED BY <2>1, <2>2, <2>3
<1>6. \A i \in DateSubarrays(periods) :
        /\ begins(i) \in all /\ begins(i)..ends(i) \subseteq all /\ begins(i) - 1 \notin all
        /\ begins(i) <= periods[i]
  BY StreaksOfRun
<1>7. \A i \in DateSubarrays(periods) :
        /\ PlayLength(old, periods, i) = ends(i) - begins(i) + 1
        /\ ends(i) \in Nat /\ begins(i) \in Nat /\ begins(i) <= ends(i)
  <2> SUFFICES ASSUME NEW i \in DateSubarrays(periods)
               PROVE  /\ PlayLength(old, periods, i) = ends(i) - begins(i) + 1
                      /\ ends(i) \in Nat /\ begins(i) \in Nat /\ begins(i) <= ends(i)
    OBVIOUS
  <2>1. i \in 1..len /\ DatesEnd(periods, i) \in i..len
    BY Dates
  <2>2. periods[i] \in Nat /\ ends(i) \in Nat /\ periods[i] <= ends(i) /\ begins(i) \in Nat
    BY <1>1, <1>2, <1>5, <1>6, <2>1
  <2>3. PlayCarry(old, periods[1]) \in Nat
    BY <1>1, <1>3, CarryTyped
  <2>4. begins(i) <= periods[i]
    BY <1>6
  <2> HIDE DEF ends
  <2> QED BY <2>2, <2>3, <2>4 DEF PlayLength, PlayBegins, ends
<1>8. \A p, q \in all : p <= q /\ p..q \subseteq all /\ periods[1] <= q =>
        \E i \in DateSubarrays(periods) : begins(i) <= p /\ q <= ends(i)
  BY StreaksOfRun
<1>9. play.longest \in Nat /\ play.current \in Nat /\ old.longest \in Nat
  BY <1>3, <1>4 DEF Counting, PlayCounters
<1> HIDE DEF begins, ends
<1>10. ASSUME NEW p \in all, NEW q \in all, p <= q, p..q \subseteq all
       PROVE  q - p + 1 <= play.longest
  <2>1. p \in Nat /\ q \in Nat /\ periods[1] \in Nat
    BY <1>1, <1>5
  <2>2. CASE periods[1] <= q
    <3>1. PICK i \in DateSubarrays(periods) : begins(i) <= p /\ q <= ends(i)
      BY <1>8, <1>10, <2>2
    <3>2. PlayLength(old, periods, i) <= play.longest
      BY <1>4
    <3> HIDE DEF play
    <3> QED BY <1>7, <1>9, <2>1, <3>1, <3>2
  <2>3. CASE q < periods[1]
    <3>1. \A v \in Played(periods) : v >= periods[1]
      BY <1>1, <1>2 DEF Played
    <3>2. \A v \in p..q : v \in played
      BY <1>1, <1>10, <2>1, <2>3, <3>1
    <3>3. p \in played /\ q \in played
      BY <1>10, <2>1, <3>2
    <3>4. q - p + 1 <= old.longest
      BY <1>10, <3>2, <3>3 DEF PlaysOver
    <3> HIDE DEF play
    <3> QED BY <1>4, <1>9, <2>1, <3>4 DEF play
  <2> QED BY <2>1, <2>2, <2>3
<1>11. \E p \in all : p..(p + play.longest - 1) \subseteq all
  <2>1. CASE \E i \in DateSubarrays(periods) : play.longest = PlayLength(old, periods, i)
    <3>1. PICK i \in DateSubarrays(periods) : play.longest = PlayLength(old, periods, i)
      BY <2>1
    <3>2. begins(i) + play.longest - 1 = ends(i)
      <4> HIDE DEF play
      <4> QED BY <1>7, <3>1
    <3>3. begins(i) \in all /\ begins(i)..ends(i) \subseteq all
      BY <1>6 DEF begins, ends
    <3> HIDE DEF all, play
    <3> QED BY <3>2, <3>3
  <2>2. CASE play.longest = old.longest /\ played # {}
    <3>1. PICK p \in played : p..(p + old.longest - 1) \subseteq played
      BY <2>2 DEF PlaysOver
    <3> HIDE DEF play
    <3> QED BY <2>2, <3>1
  <2>3. CASE play.longest = old.longest /\ played = {}
    <3>1. old.longest = 0
      BY <2>3 DEF PlaysOver, NeverPlayed
    <3>2. periods[1] \in all
      BY <1>1 DEF Played
    <3>3. periods[1]..(periods[1] + 0 - 1) = {}
      BY <1>1
    <3> HIDE DEF play, all
    <3>4. periods[1] \in all /\ periods[1]..(periods[1] + play.longest - 1) \subseteq all
      BY <2>3, <3>1, <3>2, <3>3
    <3> QED BY <3>4
  <2> QED BY <1>4, <2>1, <2>2, <2>3
<1>12. play.longest >= 1
  <2>1. periods[1] \in all /\ periods[1] \in Nat
    BY <1>1 DEF Played
  <2>2. \A v \in periods[1]..periods[1] : v = periods[1]
    BY <2>1
  <2>3. periods[1] - periods[1] + 1 <= play.longest
    BY <1>10, <2>1, <2>2
  <2> HIDE DEF play
  <2> QED BY <1>9, <2>1, <2>3
<1>13. /\ (play.date - play.current + 1)..play.date \subseteq all
       /\ play.date - play.current \notin all
  <2> DEFINE i == Max(DateSubarrays(periods))
  <2>1. i \in DateSubarrays(periods) /\ DatesEnd(periods, i) = len
    BY LastDates
  <2>2. play.current = PlayLength(old, periods, i) /\ ends(i) = play.date
    BY <1>4, <2>1, PlayingStreakIs DEF ends
  <2> HIDE DEF i, play, all
  <2>3. play.date - play.current + 1 = begins(i) /\ play.date - play.current = begins(i) - 1
    BY <1>7, <2>1, <2>2
  <2>4. begins(i)..ends(i) \subseteq all /\ begins(i) - 1 \notin all
    BY <1>6, <2>1 DEF begins, ends
  <2> QED BY <2>2, <2>3, <2>4
<1>14. periods[len] \in all /\ all # {}
  <2>1. len \in 1..len
    BY <1>1
  <2>2. periods[len] \in Played(periods)
    BY <1>1, <2>1 DEF Played
  <2> QED BY <2>2
<1> HIDE DEF play, all, len
<1>15. play.date \in all /\ \A v \in all : v <= play.date
  BY <1>4, <1>5, <1>14
<1> QED BY <1>4, <1>5, <1>10, <1>11, <1>12, <1>13, <1>14, <1>15 DEF PlaysOver, play, all, len

\* Such counters are what the reference finds in the whole history of periods
\* (handlePlayingStreaks).
THEOREM PlayedIs ==
  ASSUME NEW periods, Ascending(periods), periods # <<>>,
         NEW play, PlaysOver(play, Played(periods))
  PROVE  play = PlayingStreakOf(periods)
<1> DEFINE played == Played(periods)
           len == Len(periods)
           rows == PlayedRows(periods)
           ks == {k \in 1..Max(rows) : (periods[len] - k + 1)..periods[len] \subseteq played}
<1>1. len \in 1..len /\ DOMAIN periods = 1..len /\ \A j \in 1..len : periods[j] \in Nat
  BY Dates
<1>2. periods[len] \in played /\ played # {} /\ \A v \in played : v \in Nat /\ v <= periods[len]
  <2>1. \A j \in 1..len : periods[j] <= periods[len]
    BY <1>1 DEF Ascending
  <2>2. periods[len] \in Played(periods)
    BY <1>1 DEF Played
  <2> QED BY <1>1, <2>1, <2>2 DEF Played
<1>3. /\ play.longest \in Nat /\ play.longest >= 1 /\ play.current \in Nat /\ play.current >= 1
      /\ play.date \in played /\ \A v \in played : v <= play.date
      /\ \A p, q \in played : p <= q /\ p..q \subseteq played => q - p + 1 <= play.longest
      /\ (play.date - play.current + 1)..play.date \subseteq played
      /\ play.date - play.current \notin played
  BY <1>2 DEF PlaysOver, PlayCounters
<1>4. PICK p \in played : p..(p + play.longest - 1) \subseteq played
  BY <1>2 DEF PlaysOver
<1>5. play.date = periods[len]
  BY <1>2, <1>3
<1>6. \A x : x \in rows <=> \E p1, q1 \in played :
                               p1 <= q1 /\ p1..q1 \subseteq played /\ x = q1 - p1 + 1
  <2>1. rows = {r[2] - r[1] + 1 : r \in
                  {q \in played \X played : q[1] <= q[2] /\ q[1]..q[2] \subseteq played}}
    BY DEF PlayedRows, Played
  <2> HIDE DEF played, rows
  <2>2. ASSUME NEW x, x \in rows
        PROVE  \E p1, q1 \in played : p1 <= q1 /\ p1..q1 \subseteq played /\ x = q1 - p1 + 1
    <3>1. PICK r \in played \X played :
            r[1] <= r[2] /\ r[1]..r[2] \subseteq played /\ x = r[2] - r[1] + 1
      BY <2>1, <2>2
    <3> QED BY <3>1
  <2>3. ASSUME NEW x, NEW p1 \in played, NEW q1 \in played,
               p1 <= q1, p1..q1 \subseteq played, x = q1 - p1 + 1
        PROVE  x \in rows
    <3>1. <<p1, q1>> \in {q \in played \X played : q[1] <= q[2] /\ q[1]..q[2] \subseteq played}
      BY <2>3
    <3> QED BY <2>1, <2>3, <3>1
  <2> QED BY <2>2, <2>3
<1> HIDE DEF rows, played, len, ks
<1>7. Max(rows) = play.longest
  <2>1. p + play.longest - 1 \in p..(p + play.longest - 1) /\ p \in Nat
        /\ p <= p + play.longest - 1
        /\ play.longest = (p + play.longest - 1) - p + 1
    BY <1>2, <1>3, <1>4
  <2>2. p + play.longest - 1 \in played
    BY <1>4, <2>1
  <2>3. play.longest \in rows
    BY <1>4, <1>6, <2>1, <2>2
  <2>4. ASSUME NEW x \in rows PROVE x \in Int /\ x <= play.longest
    <3>1. PICK p1, q1 \in played : p1 <= q1 /\ p1..q1 \subseteq played /\ x = q1 - p1 + 1
      BY <1>6
    <3> QED BY <1>2, <1>3, <3>1
  <2>5. rows \subseteq Int /\ \A x \in rows : x <= play.longest
    BY <2>4
  <2> QED BY <1>3, <2>3, <2>5, MaxIs
<1>8. Max(ks) = play.current
  <2>1. periods[len] \in Nat
    BY <1>2
  <2>2. play.current <= play.longest
    <3>1. /\ play.date - play.current + 1 \in (play.date - play.current + 1)..play.date
          /\ play.date - play.current + 1 <= play.date
      BY <1>3, <1>5, <2>1
    <3>2. play.date - (play.date - play.current + 1) + 1 <= play.longest
      BY <1>3, <3>1
    <3> QED BY <1>3, <1>5, <2>1, <3>2
  <2>3. play.current \in ks
    BY <1>3, <1>5, <1>7, <2>2 DEF ks
  <2>4. ASSUME NEW k \in ks PROVE k <= play.current
    <3>1. k \in 1..play.longest /\ (periods[len] - k + 1)..periods[len] \subseteq played
      BY <1>7 DEF ks
    <3> SUFFICES ASSUME play.current < k PROVE FALSE
      BY <1>3, <3>1
    <3>2. play.date - play.current \in (periods[len] - k + 1)..periods[len]
      BY <1>3, <1>5, <2>1, <3>1
    <3> QED BY <1>3, <3>1, <3>2
  <2>5. ks \subseteq Int /\ \A k \in ks : k <= play.current
    BY <1>3, <1>7, <2>4 DEF ks
  <2> QED BY <1>3, <2>3, <2>5, MaxIs
<1>9. PlayingStreakOf(periods) =
        [longest |-> play.longest, current |-> play.current, date |-> play.date]
  BY <1>5, <1>7, <1>8 DEF PlayingStreakOf, ks, rows, played, Played, len
<1>10. play = [longest |-> play.longest, current |-> play.current, date |-> play.date]
  BY DEF PlaysOver, PlayCounters
<1> QED BY <1>9, <1>10

-----------------------------------------------------------------------------
(* Win streaks. *)

\* The counters of handleWinStreaks.
WinCounters == [longest : Nat, current : Nat]

WonAt(won) == {i \in DOMAIN won : won[i]}
BitsEnd(won, i) == SubarrayEnd(BitsSubarrays(won), i, Len(won))
WinStarts(won) == BitsSubarrays(won) \cap WonAt(won)
WinLength(old, won, i) == BitsEnd(won, i) - i + 1 + (IF i = 1 THEN old.current ELSE 0)

LEMMA WinStreakIs ==
  ASSUME NEW old, NEW won
  PROVE  /\ WinStreak(old, won).longest =
              Max({old.longest} \cup {WinLength(old, won, i) : i \in WinStarts(won)})
         /\ WinStreak(old, won).current =
              IF won[Len(won)] THEN WinLength(old, won, Max(WinStarts(won))) ELSE 0
         /\ WinStreak(old, won) = [longest |-> WinStreak(old, won).longest,
                                   current |-> WinStreak(old, won).current]
<1>1. WinStarts(won) = {i \in BitsSubarrays(won) : won[i]}
  BY DEF WinStarts, WonAt, BitsSubarrays
<1> QED BY <1>1 DEF WinStreak, WinLength, BitsEnd

LEMMA Bits ==
  ASSUME NEW won \in Seq(BOOLEAN), won # <<>>
  PROVE  /\ Len(won) \in Nat \ {0} /\ DOMAIN won = 1..Len(won)
         /\ WonAt(won) \subseteq 1..Len(won)
         /\ BitsSubarrays(won) \in SUBSET (1..Len(won)) /\ 1 \in BitsSubarrays(won)
         /\ \A i \in 2..Len(won) :
              i \in BitsSubarrays(won) <=> ~(i \in WonAt(won) <=> i - 1 \in WonAt(won))
         /\ \A i \in BitsSubarrays(won) : BitsEnd(won, i) \in i..Len(won)
         /\ won[Len(won)] <=> Len(won) \in WonAt(won)
<1>1. Len(won) \in Nat \ {0} /\ DOMAIN won = 1..Len(won)
  OBVIOUS
<1>2. BitsSubarrays(won) \in SUBSET (1..Len(won)) /\ 1 \in BitsSubarrays(won)
  BY <1>1 DEF BitsSubarrays
<1>3. \A i \in 1..Len(won) : won[i] \in BOOLEAN
  BY <1>1
<1>4. \A i \in 1..Len(won) : won[i] <=> i \in WonAt(won)
  BY <1>1 DEF WonAt
<1>5. ASSUME NEW i \in 2..Len(won)
      PROVE  i \in BitsSubarrays(won) <=> ~(i \in WonAt(won) <=> i - 1 \in WonAt(won))
  <2>1. i \in 1..Len(won) /\ i - 1 \in 1..Len(won) /\ i # 1
    BY <1>1
  <2>2. i \in BitsSubarrays(won) <=> won[i] # won[i - 1]
    BY <1>1, <2>1 DEF BitsSubarrays
  <2>3. won[i] \in BOOLEAN /\ won[i - 1] \in BOOLEAN
    BY <1>3, <2>1
  <2>4. (won[i] <=> i \in WonAt(won)) /\ (won[i - 1] <=> i - 1 \in WonAt(won))
    BY <1>4, <2>1
  <2> QED BY <2>2, <2>3, <2>4, Zenon
<1>6. \A i \in BitsSubarrays(won) : BitsEnd(won, i) \in i..Len(won)
  BY <1>1, <1>2, EndsBeforeNext DEF BitsEnd
<1>7. Len(won) \in 1..Len(won)
  BY <1>1
<1>8. won[Len(won)] <=> Len(won) \in WonAt(won)
  BY <1>4, <1>7, Zenon
<1>9. WonAt(won) \subseteq 1..Len(won)
  BY <1>1 DEF WonAt
<1> QED BY <1>1, <1>2, <1>5, <1>6, <1>8, <1>9

\* The bets of a subarray were won, or none of them was.
LEMMA BitsAlike ==
  ASSUME NEW won \in Seq(BOOLEAN), won # <<>>, NEW i \in BitsSubarrays(won),
         NEW k \in i..BitsEnd(won, i)
  PROVE  k \in WonAt(won) <=> i \in WonAt(won)
<1> DEFINE e == BitsEnd(won, i)
           len == Len(won)
           yes == WonAt(won)
           starts == BitsSubarrays(won)
           other == {j \in i..e : ~(j \in yes <=> i \in yes)}
           m == Min(other)
<1>1. len \in Nat \ {0} /\ starts \in SUBSET (1..len) /\ e \in i..len /\ i \in 1..len
  BY Bits
<1>2. \A j \in 2..len : j \in starts <=> ~(j \in yes <=> j - 1 \in yes)
  BY Bits
<1>3. \A j \in starts : j > i => j > e
  BY <1>1, EndsBeforeNext DEF BitsEnd
<1> HIDE DEF e, len, yes, starts
<1>4. ASSUME other # {} PROVE FALSE
  <2>1. other \in SUBSET Nat
    BY <1>1
  <2>2. m \in other /\ \A j \in other : m <= j
    <3> HIDE DEF other
    <3> QED BY <1>4, <2>1, MinIn
  <2> HIDE DEF m
  <2>3. m \in i..e /\ m # i /\ ~(m \in yes <=> i \in yes)
    BY <2>2
  <2>4. m - 1 \in i..e /\ m - 1 \notin other /\ m \in 2..len /\ m > i /\ m <= e
    BY <1>1, <2>2, <2>3
  <2>5. m - 1 \in yes <=> i \in yes
    BY <2>4
  <2>6. m \in starts
    BY <1>2, <2>3, <2>4, <2>5
  <2> QED BY <1>1, <1>3, <2>4, <2>6
<1>5. k \in i..e
  BY DEF e
<1>6. k \in yes <=> i \in yes
  BY <1>4, <1>5
<1> QED BY <1>6 DEF yes

\* Before a subarray of won bets, and after it, a bet was lost.
LEMMA BitsApart ==
  ASSUME NEW won \in Seq(BOOLEAN), won # <<>>, NEW i \in WinStarts(won)
  PROVE  /\ i # 1 => i - 1 \notin WonAt(won)
         /\ BitsEnd(won, i) # Len(won) => BitsEnd(won, i) + 1 \notin WonAt(won)
<1> DEFINE e == BitsEnd(won, i)
           len == Len(won)
           yes == WonAt(won)
           starts == BitsSubarrays(won)
<1>1. /\ len \in Nat \ {0} /\ starts \in SUBSET (1..len) /\ i \in starts /\ i \in yes
      /\ e \in i..len /\ i \in 1..len
  BY Bits DEF WinStarts
<1>2. \A j \in 2..len : j \in starts <=> ~(j \in yes <=> j - 1 \in yes)
  BY Bits
<1>3. e = len \/ e + 1 \in starts
  BY <1>1, EndsBeforeNext DEF BitsEnd
<1>4. e \in yes
  <2>1. e \in i..e
    BY <1>1
  <2> QED BY <1>1, <2>1, BitsAlike
<1> HIDE DEF e, len, yes, starts
<1>5. i # 1 => i - 1 \notin yes
  BY <1>1, <1>2
<1>6. e # len => e + 1 \notin yes
  <2> SUFFICES ASSUME e # len PROVE e + 1 \notin yes
    OBVIOUS
  <2>1. e + 1 \in 2..len /\ (e + 1) - 1 = e /\ e + 1 \in starts
    BY <1>1, <1>3
  <2> QED BY <1>2, <1>4, <2>1
<1> QED BY <1>5, <1>6 DEF e, yes, len

\* A row of won bets lies within a subarray.
LEMMA BitsWhole ==
  ASSUME NEW won \in Seq(BOOLEAN), won # <<>>, NEW p \in WonAt(won), NEW q \in WonAt(won),
         p <= q, p..q \subseteq WonAt(won)
  PROVE  \E i \in WinStarts(won) : i <= p /\ q <= BitsEnd(won, i)
<1> DEFINE len == Len(won)
           yes == WonAt(won)
<1>1. len \in Nat \ {0} /\ yes \subseteq 1..len /\ p \in 1..len /\ q \in 1..len
  BY Bits
<1>2. BitsSubarrays(won) \in SUBSET (1..len) /\ 1 \in BitsSubarrays(won)
  BY Bits
<1>3. PICK i \in BitsSubarrays(won) : i <= p /\ p <= BitsEnd(won, i)
  BY <1>1, <1>2, InSubarray DEF BitsEnd
<1> DEFINE e == BitsEnd(won, i)
<1>4. i \in 1..len /\ e \in i..len
  BY <1>2, Bits
<1> HIDE DEF e
<1>5. p \in i..e
  BY <1>1, <1>3, <1>4 DEF e
<1>6. i \in yes
  BY <1>5, BitsAlike DEF e
<1>7. i \in WinStarts(won)
  BY <1>6 DEF WinStarts
<1>8. e # len => e + 1 \notin yes
  BY <1>7, BitsApart DEF e
<1> HIDE DEF len, yes
<1>9. q <= e
  <2> SUFFICES ASSUME e < q PROVE FALSE
    BY <1>1, <1>4
  <2>1. e + 1 \in p..q /\ e # len
    BY <1>1, <1>4, <1>5
  <2> QED BY <1>8, <2>1 DEF yes
<1> QED BY <1>3, <1>7, <1>9 DEF e

\* Of the subarrays of won bets the last one ends with the bets, if that is won.
LEMMA LastBits ==
  ASSUME NEW won \in Seq(BOOLEAN), won # <<>>, won[Len(won)]
  PROVE  /\ Max(WinStarts(won)) \in WinStarts(won)
         /\ BitsEnd(won, Max(WinStarts(won))) = Len(won)
<1> DEFINE len == Len(won)
           starts == WinStarts(won)
<1>1. len \in Nat \ {0} /\ len \in WonAt(won) /\ starts \in SUBSET (1..len)
  BY Bits DEF WinStarts
<1>2. \A v \in len..len : v \in WonAt(won)
  BY <1>1
<1>3. PICK i \in starts : i <= len /\ len <= BitsEnd(won, i)
  BY <1>1, <1>2, BitsWhole
<1>4. Max(starts) \in starts /\ \A j \in starts : j <= Max(starts)
  <2>1. starts \in SUBSET Nat /\ starts # {} /\ \A j \in starts : j <= len
    BY <1>1, <1>3
  <2> HIDE DEF starts
  <2> QED BY <1>1, <2>1, MaxIn
<1> DEFINE m == Max(starts)
<1>5. m \in 1..len /\ i <= m /\ i \in 1..len
  BY <1>1, <1>3, <1>4
<1>6. m = i \/ m > BitsEnd(won, i)
  <2>1. \A k \in BitsSubarrays(won) : k > i => k > BitsEnd(won, i)
    BY <1>1, <1>5, Bits, EndsBeforeNext DEF BitsEnd
  <2>2. m \in BitsSubarrays(won)
    BY <1>4 DEF WinStarts
  <2> HIDE DEF m, len, starts
  <2> QED BY <1>1, <1>5, <2>1, <2>2
<1>7. BitsEnd(won, i) \in i..len
  BY <1>3, Bits DEF WinStarts
<1> HIDE DEF m, len, starts
<1>8. m = i /\ BitsEnd(won, i) = len
  BY <1>1, <1>3, <1>5, <1>6, <1>7
<1> QED BY <1>4, <1>8 DEF m, len, starts

LEMMA WinLengthTyped ==
  ASSUME NEW old \in WinCounters, NEW won \in Seq(BOOLEAN), won # <<>>, NEW i \in WinStarts(won)
  PROVE  /\ WinLength(old, won, i) \in Nat \ {0}
         /\ WinLength(old, won, i) <= Len(won) + old.current
<1> DEFINE e == BitsEnd(won, i)
<1>1. Len(won) \in Nat /\ i \in 1..Len(won) /\ e \in i..Len(won) /\ old.current \in Nat
  BY Bits DEF WinStarts, WinCounters
<1>2. WinLength(old, won, i) = e - i + 1 + (IF i = 1 THEN old.current ELSE 0)
  BY DEF WinLength
<1> HIDE DEF e
<1> QED BY <1>1, <1>2

\* A run keeps the counters counters.
LEMMA WinTyped ==
  ASSUME NEW old \in WinCounters, NEW won \in Seq(BOOLEAN), won # <<>>
  PROVE  /\ WinStreak(old, won) \in WinCounters
         /\ old.longest <= WinStreak(old, won).longest
         /\ \A i \in WinStarts(won) : WinLength(old, won, i) <= WinStreak(old, won).longest
         /\ \/ WinStreak(old, won).longest = old.longest
            \/ \E i \in WinStarts(won) : WinStreak(old, won).longest = WinLength(old, won, i)
<1> DEFINE lengths == {old.longest} \cup {WinLength(old, won, i) : i \in WinStarts(won)}
           bound == Len(won) + old.current + old.longest
           win == WinStreak(old, won)
<1>1. old.longest \in Nat /\ old.current \in Nat /\ Len(won) \in Nat
  BY DEF WinCounters
<1>2. \A i \in WinStarts(won) :
        /\ WinLength(old, won, i) \in Nat \ {0}
        /\ WinLength(old, won, i) <= Len(won) + old.current
  BY WinLengthTyped
<1>3. lengths \in SUBSET Nat /\ lengths # {} /\ bound \in Nat /\ \A x \in lengths : x <= bound
  <2>1. lengths \in SUBSET Nat /\ lengths # {} /\ bound \in Nat
    BY <1>1, <1>2
  <2>2. \A i \in WinStarts(won) : WinLength(old, won, i) <= bound
    BY <1>1, <1>2
  <2>3. old.longest <= bound
    BY <1>1
  <2> QED BY <2>1, <2>2, <2>3
<1>4. Max(lengths) \in lengths /\ \A x \in lengths : x <= Max(lengths)
  <2> HIDE DEF lengths, bound
  <2> QED BY <1>3, MaxIn
<1>5. win.longest = Max(lengths)
  BY WinStreakIs
<1>6. win.current \in Nat
  <2>1. CASE won[Len(won)]
    <3>1. win.current = WinLength(old, won, Max(WinStarts(won)))
      BY <2>1, WinStreakIs
    <3>2. Max(WinStarts(won)) \in WinStarts(won)
      BY <2>1, LastBits
    <3>3. WinLength(old, won, Max(WinStarts(won))) \in Nat
      BY <1>2, <3>2
    <3> HIDE DEF win
    <3> QED BY <3>1, <3>3
  <2>2. CASE ~won[Len(won)]
    <3>1. win.current = 0
      BY <2>2, WinStreakIs
    <3> HIDE DEF win
    <3> QED BY <3>1
  <2> QED BY <2>1, <2>2
<1>7. win = [longest |-> win.longest, current |-> win.current]
  BY WinStreakIs
<1>8. Max(lengths) \in Nat /\ old.longest <= Max(lengths)
  BY <1>3, <1>4
<1>9. \A i \in WinStarts(won) : WinLength(old, won, i) <= Max(lengths)
  BY <1>4
<1>10. Max(lengths) = old.longest \/ \E i \in WinStarts(won) : Max(lengths) = WinLength(old, won, i)
  BY <1>4
<1> HIDE DEF lengths, win
<1>11. win \in WinCounters
  BY <1>5, <1>6, <1>7, <1>8 DEF WinCounters
<1> QED BY <1>5, <1>8, <1>9, <1>10, <1>11 DEF win

\* What the bets come to: rows of places whose bets were all won, among n.
WinsOver(win, wins, n) ==
    /\ win \in WinCounters /\ n \in Nat
    /\ wins \subseteq 1..n
    /\ win.longest = 0 \/ \E p \in wins : p..(p + win.longest - 1) \subseteq wins
    /\ \A p, q \in wins : p <= q /\ p..q \subseteq wins => q - p + 1 <= win.longest
    /\ (n - win.current + 1)..n \subseteq wins
    /\ n - win.current \notin wins

\* The places of the bets of a run that were won, behind n others.
WonAfter(won, n) == {n + i : i \in WonAt(won)}
WinBegins(old, won, n, i) == n + i - (IF i = 1 THEN old.current ELSE 0)

\* The streaks of a run, carry and all, are rows of what was won, and every row
\* that ends in the run lies within one of them.
LEMMA WinsOfRun ==
  ASSUME NEW old, NEW wins, NEW n, WinsOver(old, wins, n),
         NEW won \in Seq(BOOLEAN), won # <<>>
  PROVE  LET all == wins \cup WonAfter(won, n)
         IN  /\ \A i \in WinStarts(won) :
                  /\ WinBegins(old, won, n, i) \in all
                  /\ WinBegins(old, won, n, i)..(n + BitsEnd(won, i)) \subseteq all
                  /\ WinBegins(old, won, n, i) - 1 \notin all
             /\ \A p, q \in all : p <= q /\ p..q \subseteq all /\ n < q =>
                  \E i \in WinStarts(won) :
                    WinBegins(old, won, n, i) <= p /\ q <= n + BitsEnd(won, i)
<1> DEFINE after == WonAfter(won, n)
           yes == WonAt(won)
           all == wins \cup after
           c == old.current
           len == Len(won)
<1>1. len \in Nat \ {0} /\ yes \subseteq 1..len
  BY Bits
<1>2. /\ n \in Nat /\ c \in Nat /\ wins \subseteq 1..n
      /\ (n - c + 1)..n \subseteq wins /\ n - c \notin wins
  BY DEF WinsOver, WinCounters
<1>3. \A v \in Int : v \in after <=> v - n \in yes
  <2> SUFFICES ASSUME NEW v \in Int PROVE v \in after <=> v - n \in yes
    OBVIOUS
  <2>1. v = n + (v - n)
    BY <1>2
  <2>2. \A i \in yes : v = n + i => v - n = i
    BY <1>1, <1>2
  <2> QED BY <2>1, <2>2 DEF WonAfter
<1>4. \A v \in after : v \in Nat /\ v > n
  BY <1>1, <1>2 DEF WonAfter
<1>5. \A i \in WinStarts(won) : i \in 1..len /\ i \in yes /\ BitsEnd(won, i) \in i..len
  BY Bits DEF WinStarts
<1>6. \A i \in WinStarts(won) : \A k \in i..BitsEnd(won, i) : k \in yes
  BY BitsAlike DEF WinStarts
<1>7. \A i \in WinStarts(won) : i # 1 => i - 1 \notin yes
  BY BitsApart
<1>8. WinBegins(old, won, n, 1) = n + 1 - c
  BY DEF WinBegins
<1>9. \A i \in WinStarts(won) : i # 1 => WinBegins(old, won, n, i) = n + i
  BY <1>2, <1>5 DEF WinBegins
<1>10. \A p, q \in yes : p <= q /\ p..q \subseteq yes =>
         \E i \in WinStarts(won) : i <= p /\ q <= BitsEnd(won, i)
  BY BitsWhole
<1> HIDE DEF after, yes, c, len
<1>11. ASSUME NEW i \in WinStarts(won)
       PROVE  /\ WinBegins(old, won, n, i) \in all
              /\ WinBegins(old, won, n, i)..(n + BitsEnd(won, i)) \subseteq all
              /\ WinBegins(old, won, n, i) - 1 \notin all
  <2> DEFINE e == BitsEnd(won, i)
             a == WinBegins(old, won, n, i)
  <2>1. i \in 1..len /\ e \in i..len /\ e \in Nat /\ i \in Nat /\ i >= 1
    BY <1>1, <1>5
  <2>2. \A k \in i..e : k \in yes
    BY <1>6
  <2>3. a = IF i = 1 THEN n + 1 - c ELSE n + i
    BY <1>8, <1>9
  <2>4. i # 1 => i - 1 \notin yes
    BY <1>7
  <2> HIDE DEF a, e
  <2>5. ASSUME NEW v \in a..(n + e) PROVE v \in all
    <3>1. a \in Int /\ v \in Int
      BY <1>2, <2>1, <2>3
    <3>2. CASE v >= n + i
      <4>1. v - n \in i..e
        BY <1>2, <2>1, <3>1, <3>2
      <4> QED BY <1>3, <2>2, <3>1, <4>1
    <3>3. CASE v < n + i
      <4>1. i = 1 /\ v \in (n - c + 1)..n
        BY <1>2, <2>1, <2>3, <3>1, <3>3
      <4> QED BY <1>2, <4>1
    <3> QED BY <1>2, <2>1, <3>1, <3>2, <3>3
  <2>6. a \in a..(n + e) /\ a - 1 \in Int
    BY <1>2, <2>1, <2>3
  <2>7. a - 1 \notin all
    <3>1. CASE i = 1
      <4>1. a - 1 = n - c
        BY <1>2, <2>3, <3>1
      <4> QED BY <1>2, <1>4, <4>1
    <3>2. CASE i # 1
      <4>1. a - 1 - n = i - 1 /\ a - 1 > n
        BY <1>2, <2>1, <2>3, <3>2
      <4> QED BY <1>2, <1>3, <2>4, <2>6, <3>2, <4>1
    <3> QED BY <3>1, <3>2
  <2> QED BY <2>5, <2>6, <2>7 DEF a, e
<1>12. ASSUME NEW p \in all, NEW q \in all, p <= q, p..q \subseteq all, n < q
       PROVE  \E i \in WinStarts(won) :
                WinBegins(old, won, n, i) <= p /\ q <= n + BitsEnd(won, i)
  <2>1. p \in Nat /\ q \in Nat
    BY <1>2, <1>4
  <2>2. \A v \in all : v > n => v - n \in yes
    <3> SUFFICES ASSUME NEW v \in all, v > n PROVE v - n \in yes
      OBVIOUS
    <3>1. v \in after
      BY <1>2
    <3> QED BY <1>3, <1>4, <3>1
  <2>3. CASE n < p
    <3>1. p - n \in yes /\ q - n \in yes /\ p - n <= q - n
      BY <1>2, <1>12, <2>1, <2>2, <2>3
    <3>2. \A k \in (p - n)..(q - n) : k \in yes
      <4> SUFFICES ASSUME NEW k \in (p - n)..(q - n) PROVE k \in yes
        OBVIOUS
      <4>1. n + k \in p..q /\ n + k > n /\ (n + k) - n = k
        BY <1>2, <2>1, <2>3
      <4> QED BY <1>12, <2>2, <4>1
    <3>3. PICK i \in WinStarts(won) : i <= p - n /\ q - n <= BitsEnd(won, i)
      BY <1>10, <3>1, <3>2
    <3>4. i \in Nat /\ i >= 1 /\ BitsEnd(won, i) \in Nat
      BY <1>1, <1>5
    <3>5. WinBegins(old, won, n, i) <= n + i /\ WinBegins(old, won, n, i) \in Int
      BY <1>2, <1>8, <1>9, <3>4
    <3>6. WinBegins(old, won, n, i) <= p /\ q <= n + BitsEnd(won, i)
      BY <1>2, <2>1, <3>3, <3>4, <3>5
    <3> QED BY <3>6
  <2>4. CASE p <= n
    <3>1. \A k \in 1..(q - n) : k \in yes
      <4> SUFFICES ASSUME NEW k \in 1..(q - n) PROVE k \in yes
        OBVIOUS
      <4>1. n + k \in p..q /\ n + k > n /\ (n + k) - n = k
        BY <1>2, <2>1, <2>4
      <4> QED BY <1>12, <2>2, <4>1
    <3>2. 1 \in 1..(q - n) /\ q - n \in 1..(q - n)
      BY <1>2, <1>12, <2>1
    <3>3. PICK i \in WinStarts(won) : i <= 1 /\ q - n <= BitsEnd(won, i)
      BY <1>10, <3>1, <3>2
    <3>4. i = 1 /\ BitsEnd(won, i) \in Nat
      BY <1>1, <1>5, <3>3
    <3>5. n + 1 - c <= p
      <4> SUFFICES ASSUME p < n + 1 - c PROVE FALSE
        BY <1>2, <2>1
      <4>1. n - c \in p..q /\ n - c <= n
        BY <1>2, <1>12, <2>1
      <4>2. n - c \in all
        BY <1>12, <4>1
      <4> QED BY <1>2, <1>4, <4>1, <4>2
    <3>6. WinBegins(old, won, n, i) <= p /\ q <= n + BitsEnd(won, i)
      BY <1>2, <1>8, <2>1, <3>3, <3>4, <3>5
    <3> QED BY <3>6
  <2> QED BY <1>2, <2>1, <2>3, <2>4
<1> QED BY <1>11, <1>12 DEF after

\* Win streaks carried from a run to the next are those of all that was won
\* (handleWinStreaks).
THEOREM WinGoesOn ==
  ASSUME NEW old, NEW wins, NEW n, WinsOver(old, wins, n),
         NEW won \in Seq(BOOLEAN), won # <<>>
  PROVE  WinsOver(WinStreak(old, won), wins \cup WonAfter(won, n), n + Len(won))
<1> DEFINE all == wins \cup WonAfter(won, n)
           win == WinStreak(old, won)
           len == Len(won)
           begins(i) == WinBegins(old, won, n, i)
           ends(i) == n + BitsEnd(won, i)
<1>1. len \in Nat \ {0} /\ WonAt(won) \subseteq 1..len /\ n \in Nat /\ wins \subseteq 1..n
  BY Bits DEF WinsOver
<1>2. old \in WinCounters /\ old.longest \in Nat /\ old.current \in Nat
  BY DEF WinsOver, WinCounters
<1>3. /\ win \in WinCounters /\ win.longest \in Nat /\ win.current \in Nat
      /\ old.longest <= win.longest
      /\ \A i \in WinStarts(won) : WinLength(old, won, i) <= win.longest
      /\ \/ win.longest = old.longest
         \/ \E i \in WinStarts(won) : win.longest = WinLength(old, won, i)
  BY <1>2, WinTyped DEF WinCounters
<1>4. all \subseteq 1..(n + len) /\ \A v \in WonAfter(won, n) : v > n
  <2>1. \A v \in WonAfter(won, n) : v \in 1..(n + len) /\ v > n
    BY <1>1 DEF WonAfter
  <2>2. \A v \in wins : v \in 1..(n + len)
    BY <1>1
  <2> QED BY <2>1, <2>2
<1>5. \A i \in WinStarts(won) :
        begins(i) \in all /\ begins(i)..ends(i) \subseteq all /\ begins(i) - 1 \notin all
  BY WinsOfRun
<1>6. \A i \in WinStarts(won) :
        /\ WinLength(old, won, i) = ends(i) - begins(i) + 1
        /\ WinLength(old, won, i) \in Nat \ {0}
        /\ ends(i) \in Nat /\ begins(i) \in Nat
  <2> SUFFICES ASSUME NEW i \in WinStarts(won)
               PROVE  /\ WinLength(old, won, i) = ends(i) - begins(i) + 1
                      /\ WinLength(old, won, i) \in Nat \ {0}
                      /\ ends(i) \in Nat /\ begins(i) \in Nat
    OBVIOUS
  <2>1. i \in 1..len /\ BitsEnd(won, i) \in i..len
    BY Bits DEF WinStarts
  <2>2. begins(i) \in Nat
    BY <1>4, <1>5
  <2>3. WinLength(old, won, i) \in Nat \ {0}
    BY <1>2, WinLengthTyped
  <2>4. WinLength(old, won, i) = (n + BitsEnd(won, i)) - WinBegins(old, won, n, i) + 1
    <3> DEFINE e == BitsEnd(won, i)
    <3>1. e \in Nat /\ i \in Nat
      BY <1>1, <2>1
    <3> HIDE DEF e
    <3> QED BY <1>1, <1>2, <3>1 DEF WinLength, WinBegins, e
  <2>5. n + BitsEnd(won, i) \in Nat
    BY <1>1, <2>1
  <2> QED BY <2>2, <2>3, <2>4, <2>5
<1>7. \A p, q \in all : p <= q /\ p..q \subseteq all /\ n < q =>
        \E i \in WinStarts(won) : begins(i) <= p /\ q <= ends(i)
  BY WinsOfRun
<1> HIDE DEF begins, ends
<1>8. ASSUME NEW p \in all, NEW q \in all, p <= q, p..q \subseteq all
      PROVE  q - p + 1 <= win.longest
  <2>1. p \in Nat /\ q \in Nat
    BY <1>4
  <2>2. CASE n < q
    <3>1. PICK i \in WinStarts(won) : begins(i) <= p /\ q <= ends(i)
      BY <1>7, <1>8, <2>2
    <3>2. WinLength(old, won, i) <= win.longest
      BY <1>3
    <3> HIDE DEF win
    <3> QED BY <1>3, <1>6, <2>1, <3>1, <3>2
  <2>3. CASE q <= n
    <3>1. \A v \in p..q : v \in wins
      BY <1>1, <1>4, <1>8, <2>1, <2>3
    <3>2. p \in wins /\ q \in wins
      BY <1>8, <2>1, <3>1
    <3>3. q - p + 1 <= old.longest
      BY <1>8, <3>1, <3>2 DEF WinsOver
    <3> HIDE DEF win
    <3> QED BY <1>2, <1>3, <2>1, <3>3
  <2> QED BY <1>1, <2>1, <2>2, <2>3
<1>9. win.longest = 0 \/ \E p \in all : p..(p + win.longest - 1) \subseteq all
  <2>1. CASE \E i \in WinStarts(won) : win.longest = WinLength(old, won, i)
    <3>1. PICK i \in WinStarts(won) : win.longest = WinLength(old, won, i)
      BY <2>1
    <3>2. begins(i) + win.longest - 1 = ends(i)
      <4> HIDE DEF win
      <4> QED BY <1>6, <3>1
    <3>3. begins(i) \in all /\ begins(i)..ends(i) \subseteq all
      BY <1>5
    <3> HIDE DEF all, win
    <3> QED BY <3>2, <3>3
  <2>2. CASE win.longest = old.longest /\ old.longest # 0
    <3>1. PICK p \in wins : p..(p + old.longest - 1) \subseteq wins
      BY <2>2 DEF WinsOver
    <3> HIDE DEF win
    <3> QED BY <2>2, <3>1
  <2>3. CASE win.longest = old.longest /\ old.longest = 0
    BY <2>3
  <2> QED BY <1>3, <2>1, <2>2, <2>3
<1>10. /\ ((n + len) - win.current + 1)..(n + len) \subseteq all
       /\ (n + len) - win.current \notin all
  <2>1. CASE won[Len(won)]
    <3> DEFINE i == Max(WinStarts(won))
    <3>1. i \in WinStarts(won) /\ ends(i) = n + len
      BY <2>1, LastBits DEF ends
    <3>2. win.current = WinLength(old, won, i)
      BY <2>1, WinStreakIs
    <3> HIDE DEF i, win, all, len
    <3>3. (n + len) - win.current + 1 = begins(i) /\ (n + len) - win.current = begins(i) - 1
      BY <1>6, <3>1, <3>2
    <3>4. begins(i)..ends(i) \subseteq all /\ begins(i) - 1 \notin all
      BY <1>5, <3>1 DEF begins, ends
    <3> QED BY <3>1, <3>3, <3>4
  <2>2. CASE ~won[Len(won)]
    <3>1. win.current = 0
      BY <2>2, WinStreakIs
    <3>2. len \notin WonAt(won)
      BY <2>2, Bits
    <3>3. n + len \notin all
      <4>1. n + len \notin wins
        BY <1>1
      <4>2. \A k \in WonAt(won) : n + k # n + len
        BY <1>1, <3>2
      <4> QED BY <4>1, <4>2 DEF WonAfter
    <3> HIDE DEF win, all, len
    <3>4. (n + len) - win.current = n + len
      BY <1>1, <3>1
    <3>5. ((n + len) - win.current + 1)..(n + len) = {}
      BY <1>1, <3>1
    <3> QED BY <3>3, <3>4, <3>5
  <2> QED BY <2>1, <2>2
<1>11. n + len \in Nat
  BY <1>1
<1> HIDE DEF win, all, len
<1> QED BY <1>3, <1>4, <1>8, <1>9, <1>10, <1>11 DEF WinsOver, win, all, len

\* Such counters are what the reference finds in the whole history of bets won
\* and lost (handleWinStreaks).
THEOREM WonIs ==
  ASSUME NEW won \in Seq(BOOLEAN), NEW win, WinsOver(win, WonAt(won), Len(won))
  PROVE  win = WinStreakOf(won)
<1> DEFINE yes == WonAt(won)
           len == Len(won)
           rows == WonRows(won)
           sizes == {0} \cup {p[2] - p[1] + 1 : p \in rows}
           lasts == {0} \cup {p[2] - p[1] + 1 : p \in {q \in rows : q[2] = Len(won)}}
<1>1. /\ win.longest \in Nat /\ win.current \in Nat /\ len \in Nat
      /\ yes \subseteq 1..len /\ DOMAIN won = 1..len
      /\ \A p, q \in yes : p <= q /\ p..q \subseteq yes => q - p + 1 <= win.longest
      /\ (len - win.current + 1)..len \subseteq yes
      /\ len - win.current \notin yes
      /\ win = [longest |-> win.longest, current |-> win.current]
  BY DEF WinsOver, WinCounters
<1>2. win.longest = 0 \/ \E p \in yes : p..(p + win.longest - 1) \subseteq yes
  BY DEF WinsOver
<1>3. ASSUME NEW p1 \in Int, NEW q1 \in Int
      PROVE  <<p1, q1>> \in rows <=> p1 \in yes /\ q1 \in yes /\ p1 <= q1 /\ p1..q1 \subseteq yes
  <2>1. <<p1, q1>> \in rows <=>
          p1 \in DOMAIN won /\ q1 \in DOMAIN won /\ p1 <= q1 /\ \A i \in p1..q1 : won[i]
    BY DEF WonRows
  <2>2. p1 <= q1 => p1 \in p1..q1 /\ q1 \in p1..q1
    OBVIOUS
  <2>3. p1 \in DOMAIN won /\ q1 \in DOMAIN won => \A i \in p1..q1 : i \in DOMAIN won
    BY <1>1
  <2>4. \A i \in DOMAIN won : won[i] <=> i \in yes
    BY DEF WonAt
  <2>5. yes \subseteq DOMAIN won
    BY DEF WonAt
  <2> HIDE DEF rows, yes
  <2>6. ASSUME <<p1, q1>> \in rows
        PROVE  p1 \in yes /\ q1 \in yes /\ p1 <= q1 /\ p1..q1 \subseteq yes
    BY <2>1, <2>2, <2>3, <2>4, <2>6
  <2>7. ASSUME p1 \in yes, q1 \in yes, p1 <= q1, p1..q1 \subseteq yes
        PROVE  <<p1, q1>> \in rows
    BY <2>1, <2>3, <2>4, <2>5, <2>7
  <2> QED BY <2>6, <2>7
<1>4. \A r \in rows : r = <<r[1], r[2]>> /\ r[1] \in Int /\ r[2] \in Int
  BY <1>1 DEF WonRows
<1> HIDE DEF yes, len, rows
<1>5. \A r \in rows : r[1] \in yes /\ r[2] \in yes /\ r[1] <= r[2] /\ r[1]..r[2] \subseteq yes
  <2> SUFFICES ASSUME NEW r \in rows
               PROVE  r[1] \in yes /\ r[2] \in yes /\ r[1] <= r[2] /\ r[1]..r[2] \subseteq yes
    OBVIOUS
  <2> DEFINE a == r[1]
             z == r[2]
  <2>1. a \in Int /\ z \in Int /\ <<a, z>> \in rows
    BY <1>4
  <2> HIDE DEF a, z
  <2>2. a \in yes /\ z \in yes /\ a <= z /\ a..z \subseteq yes
    BY <1>3, <2>1
  <2> QED BY <2>2 DEF a, z
<1>6. \A p1, q1 \in yes : p1 <= q1 /\ p1..q1 \subseteq yes => <<p1, q1>> \in rows
  BY <1>1, <1>3
<1>7. \A p1 \in yes, q1 \in yes : p1 \in Nat /\ q1 \in Nat /\ q1 <= len
  BY <1>1
<1>8. Max(sizes) = win.longest
  <2>1. win.longest \in sizes
    <3>1. CASE win.longest = 0
      BY <3>1
    <3>2. CASE win.longest # 0
      <4>1. PICK p \in yes : p..(p + win.longest - 1) \subseteq yes
        BY <1>2, <3>2
      <4> DEFINE q == p + win.longest - 1
      <4>2. p \in Nat /\ q \in p..q /\ p <= q /\ win.longest = q - p + 1
        BY <1>1, <1>7, <3>2
      <4>3. <<p, q>> \in rows
        BY <1>6, <4>1, <4>2
      <4> HIDE DEF q
      <4>4. <<p, q>>[2] - <<p, q>>[1] + 1 = win.longest
        BY <4>2
      <4> QED BY <4>3, <4>4
    <3> QED BY <3>1, <3>2
  <2>2. \A r \in rows : r[2] - r[1] + 1 \in Int /\ r[2] - r[1] + 1 <= win.longest
    BY <1>1, <1>5, <1>7
  <2>3. sizes \subseteq Int /\ \A x \in sizes : x <= win.longest
    BY <1>1, <2>2
  <2> HIDE DEF sizes
  <2> QED BY <1>1, <2>1, <2>3, MaxIs
<1>9. Max(lasts) = win.current
  <2>1. win.current \in lasts
    <3>1. CASE win.current = 0
      BY <3>1
    <3>2. CASE win.current # 0
      <4> DEFINE p == len - win.current + 1
      <4>1. p \in p..len /\ len \in p..len /\ p <= len /\ len - p + 1 = win.current
        BY <1>1, <3>2
      <4>2. p \in yes /\ len \in yes /\ p..len \subseteq yes
        BY <1>1, <4>1
      <4>3. <<p, len>> \in rows
        BY <1>6, <4>1, <4>2
      <4> HIDE DEF p
      <4>4. <<p, len>>[2] - <<p, len>>[1] + 1 = win.current /\ <<p, len>>[2] = Len(won)
        BY <4>1 DEF len
      <4> QED BY <4>3, <4>4
    <3> QED BY <3>1, <3>2
  <2>2. \A r \in rows : r[2] = len =>
          r[2] - r[1] + 1 \in Int /\ r[2] - r[1] + 1 <= win.current
    <3> SUFFICES ASSUME NEW r \in rows, r[2] = len
                 PROVE  r[2] - r[1] + 1 \in Int /\ r[2] - r[1] + 1 <= win.current
      OBVIOUS
    <3> DEFINE a == r[1]
    <3>1. a \in yes /\ a \in Nat /\ a <= len /\ a..len \subseteq yes
      BY <1>5, <1>7
    <3> HIDE DEF a
    <3>2. ~(a <= len - win.current)
      <4> SUFFICES ASSUME a <= len - win.current PROVE FALSE
        OBVIOUS
      <4>1. len - win.current \in a..len
        BY <1>1, <3>1
      <4> QED BY <1>1, <3>1, <4>1
    <3>3. len - a + 1 \in Int /\ len - a + 1 <= win.current
      BY <1>1, <3>1, <3>2
    <3> QED BY <3>3 DEF a
  <2>3. lasts \subseteq Int /\ \A x \in lasts : x <= win.current
    BY <1>1, <2>2 DEF len
  <2> HIDE DEF lasts
  <2> QED BY <1>1, <2>1, <2>3, MaxIs
<1>10. WinStreakOf(won) = [longest |-> Max(sizes), current |-> Max(lasts)]
  BY DEF WinStreakOf, rows
<1> QED BY <1>1, <1>8, <1>9, <1>10

=============================================================================

------------------------------ MODULE Streaks ------------------------------
(***************************************************************************)
(* The streak counters of PointService (src/point/point.service.ts) with   *)
(* the helpers of src/core/utils/base.util.ts: what one run of the         *)
(* processor makes of the counters of the run before and of the bets it    *)
(* has fetched, and what the counters should be over the whole history.    *)
(*                                                                         *)
(* A playing streak counts periods ("days", at present of five minutes)    *)
(* with a bet in each; a win streak counts bets won one after the other.   *)
(***************************************************************************)
EXTENDS Integers, Sequences, FiniteSetsExt

(***************************************************************************)
(* The code, one run: periods and won are the bets of this run in the      *)
(* order fetched, never empty.                                             *)
(***************************************************************************)

\* the last index of the subarray that begins at i; starts are all beginnings
SubarrayEnd(starts, i, len) == Min({j - 1 : j \in {k \in starts : k > i}} \cup {len})

\* getContinuousDateSubarrays: where a subarray begins
DateSubarrays(periods) ==
    {i \in DOMAIN periods : i = 1 \/ periods[i] - periods[i - 1] > 1}

\* getContinuousBitsSubarray: where a subarray begins
BitsSubarrays(won) == {i \in DOMAIN won : i = 1 \/ won[i] # won[i - 1]}

\* long before any bet: new Date(current_date || 0)
NeverPlayed == [longest |-> 0, current |-> 0, date |-> -2]
NeverWon == [longest |-> 0, current |-> 0]

\* Mutant: a period already counted is counted again.
PlayCarryWhole(old, first) == IF first - old.date <= 1 THEN old.current ELSE 0

\* what the counter brings to the first subarray of this run
PlayCarry(old, first) ==
    IF first - old.date < 1 THEN old.current - 1
    ELSE IF first - old.date = 1 THEN old.current
    ELSE 0

\* handlePlayingStreaks, one user
PlayingStreak(old, periods) ==
    LET len == Len(periods)
        starts == DateSubarrays(periods)
        length(i) == periods[SubarrayEnd(starts, i, len)] - periods[i] + 1
                     + (IF i = 1 THEN PlayCarry(old, periods[1]) ELSE 0)
    IN  [longest |-> Max({old.longest} \cup {length(i) : i \in starts}),
         current |-> length(Max(starts)),
         date    |-> periods[len]]

\* handleWinStreaks, one user
WinStreak(old, won) ==
    LET len == Len(won)
        starts == {i \in BitsSubarrays(won) : won[i]}
        length(i) == SubarrayEnd(BitsSubarrays(won), i, len) - i + 1
                     + (IF i = 1 THEN old.current ELSE 0)
    IN  [longest |-> Max({old.longest} \cup {length(i) : i \in starts}),
         current |-> IF won[len] THEN length(Max(starts)) ELSE 0]

(***************************************************************************)
(* The reference, over a whole history (not empty).                        *)
(***************************************************************************)

\* the lengths of all rows of periods with a bet in each
PlayedRows(periods) ==
    LET played == {periods[i] : i \in DOMAIN periods}
    IN  {p[2] - p[1] + 1 : p \in
            {q \in played \X played : q[1] <= q[2] /\ q[1]..q[2] \subseteq played}}

PlayingStreakOf(periods) ==
    LET len == Len(periods)
        played == {periods[i] : i \in DOMAIN periods}
    IN  [longest |-> Max(PlayedRows(periods)),
         current |-> Max({k \in 1..Max(PlayedRows(periods)) :
                            (periods[len] - k + 1)..periods[len] \subseteq played}),
         date    |-> periods[len]]

\* the bounds of all rows of won bets
WonRows(won) ==
    {p \in (DOMAIN won) \X (DOMAIN won) : p[1] <= p[2] /\ \A i \in p[1]..p[2] : won[i]}

WinStreakOf(won) ==
    LET size(p) == p[2] - p[1] + 1
    IN  [longest |-> Max({0} \cup {size(p) : p \in WonRows(won)}),
         current |-> Max({0} \cup {size(p) : p \in {q \in WonRows(won) : q[2] = Len(won)}})]

=============================================================================

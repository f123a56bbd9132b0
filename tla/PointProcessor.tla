--------------------------- MODULE PointProcessor ---------------------------
(***************************************************************************)
(* The point processor (PointService, src/point/point.service.ts): a cron  *)
(* that fetches from the subgraph the bets of the rounds that ended since  *)
(* the season's last_updated_time, adds them to the task progresses, moves *)
(* last_updated_time on and, once the season is over, turns the progresses *)
(* into points and closes the season.  An administrator may start a new    *)
(* season at any moment (setNewSeason), of any start and end: it may begin *)
(* before what the processor has already passed, or later than now.        *)
(*                                                                         *)
(* The progress of one user is followed: the handlers treat each user      *)
(* alone, from the same rows, bets and saves.  What the handlers that only *)
(* add have summed up is kept as the bets they have added, in order; the   *)
(* two streaks, the timeframes and the completionist task are kept as they *)
(* are computed.  An amount is 1, a tier is worth one point, a boost is 1, *)
(* no signature is forged; the two referral tasks, which go by the bets    *)
(* and the number of other users, are left out.                            *)
(*                                                                         *)
(* Times are the seconds of the code, scaled down.  A row saved by TypeORM *)
(* gets every column of the entity, whatever the table holds by then.      *)
(***************************************************************************)
EXTENDS Integers, Sequences, FiniteSets, Streaks

CONSTANTS
    Bets,         \* the bets of the user
    Timeframe,    \* timeframeId of a bet: 0, 3 and 1 are the rounds of 1, 3 and 5 minutes
    Position,     \* position of a bet, "Bull" or "Bear"
    Market,       \* pairName of a bet's market
    EndTimes,     \* bound: when their rounds may end
    Runs,         \* bound: runs of the cron that may overlap
    PageSize,     \* first:1000
    MaxErrors,    \* errorCount > 10 ends the fetching
    Period,       \* the "day" of the playing streak
    Criteria,     \* the criteria of a task's three tiers, alike for all tasks
    SeasonTimes,  \* bound: the start_time and end_time setNewSeason may be given
    MaxTime,      \* bound: the clock stops there
    MaxSeasons,   \* bound: seasons
    MaxTorn       \* bound: progresses saved without last_updated_time

ASSUME PointAssumption ==
    /\ {PageSize, Period, MaxTime, MaxSeasons} \subseteq Nat \ {0}
    /\ {MaxErrors, MaxTorn} \subseteq Nat
    /\ Criteria \in [1..3 -> Nat \ {0}]
    /\ Timeframe \in [Bets -> {0, 1, 3}]
    /\ Position \in [Bets -> {"Bull", "Bear"}]
    /\ Market \in [Bets -> {"BTCUSD", "ETHUSD"}]
    /\ EndTimes \subseteq [Bets -> 1..MaxTime]
    /\ SeasonTimes \subseteq (0..MaxTime) \X Nat

Times == 0..MaxTime

VARIABLES
    now,        \* Date.now()
    endAt, won, \* round.endAt of a bet, position == round.position
    closed,     \* the bets whose round has a closePrice in the subgraph
    season,     \* the task_season table, in order of insertion
    row,        \* the task_progress rows of the user
    points,     \* user.point
    run,        \* the runs of the cron
    admin,      \* the setNewSeason call under way
    late,       \* closed after the season's time had passed their end (history)
    torn,       \* progresses saved, last_updated_time not (history)
    disturbed   \* setNewSeason ran beside the cron, or failed (history)

world == <<endAt, won>>
history == <<late, torn, disturbed>>
vars == <<now, world, closed, season, row, points, run, admin, history>>

NoTime == -1
NoRow == [bets |-> <<>>, play |-> NeverPlayed, win |-> NeverWon, timeframes |-> {}, completed |-> 0]
NoSeason == [start |-> 0, end |-> 0, last |-> NoTime, active |-> FALSE]
Idle == [pc |-> "idle", at |-> 0, snap |-> NoSeason, latest |-> 0,
         errors |-> 0, batch |-> <<>>, old |-> NoRow, completed |-> 0, award |-> 0]

NewSeason(times) ==
    [start |-> times[1], end |-> times[2], last |-> NoTime, active |-> TRUE]

Newest == season[Len(season)]
Running == {r \in Runs : run[r].pc # "idle"}

-----------------------------------------------------------------------------
(* What a run makes of the bets it has fetched. *)

PeriodsOf(bets) == [i \in DOMAIN bets |-> endAt[bets[i]] \div Period]
WonOf(bets) == [i \in DOMAIN bets |-> won[bets[i]]]

\* handleTradeOnEachTimeframe: a run finds one new timeframe at most
TradeOnEachTimeframe(timeframes, batch) ==
    LET new == {Timeframe[batch[i]] : i \in DOMAIN batch} \ timeframes
    IN  timeframes \cup {t \in {0} : 0 \in new}
                   \cup {t \in {1} : 0 \notin new /\ 1 \in new}
                   \cup {t \in {3} : new = {3}}

\* the handlers of all tasks, from the rows read before (batch not empty)
Advance(old, completed, batch) ==
    [bets       |-> old.bets \o batch,
     play       |-> PlayingStreak(old.play, PeriodsOf(batch)),
     win        |-> WinStreak(old.win, WonOf(batch)),
     timeframes |-> TradeOnEachTimeframe(old.timeframes, batch),
     completed  |-> completed]

-----------------------------------------------------------------------------
(* What the handlers that only add have summed up. *)

CountIn(bets, counted) == Cardinality({i \in DOMAIN bets : bets[i] \in counted})

TotalVolume(bets) == Len(bets)
VolumeOnPosition(bets, p) == CountIn(bets, {b \in Bets : Position[b] = p})
VolumeForTimeframe(bets, t) == CountIn(bets, {b \in Bets : Timeframe[b] = t})
TotalTradesOnMarket(bets, m) == CountIn(bets, {b \in Bets : Market[b] = m})

WinLongAndShortTrade(bets) ==
    Min({CountIn(bets, {b \in Bets : won[b] /\ Position[b] = p}) : p \in {"Bull", "Bear"}})

\* task_tier.find((a) => a.criteria <= data), as the number of tiers reached
TiersReached(data) == Cardinality({k \in 1..3 : Criteria[k] <= data})

TimeframeTiers(timeframes) ==
    IF {0, 1, 3} \subseteq timeframes THEN 3
    ELSE IF {0, 3} \subseteq timeframes THEN 2
    ELSE IF 0 \in timeframes THEN 1
    ELSE 0

\* the tiers of the tasks, in the order of their ids
TaskTiers(progress) ==
    LET bets == progress.bets
    IN  <<TiersReached(progress.play.longest),
          TiersReached(progress.win.longest),
          TiersReached(VolumeOnPosition(bets, "Bull")),
          TiersReached(VolumeOnPosition(bets, "Bear")),
          TimeframeTiers(progress.timeframes),
          TiersReached(VolumeForTimeframe(bets, 0)),
          TiersReached(VolumeForTimeframe(bets, 3)),
          TiersReached(VolumeForTimeframe(bets, 1)),
          TiersReached(TotalTradesOnMarket(bets, "BTCUSD")),
          TiersReached(TotalTradesOnMarket(bets, "ETHUSD")),
          TiersReached(TotalVolume(bets)),
          TiersReached(WinLongAndShortTrade(bets)),
          TiersReached(progress.completed)>>

\* completed_tasks of handleCompletionist: those at the last tier, its own too
CompletedTasks(progress) ==
    LET tiers == TaskTiers(progress)
    IN  Cardinality({i \in DOMAIN tiers : tiers[i] = 3})

\* _calcPointsForUser: one point for each tier reached
CalcPoints(progress) ==
    LET tiers == TaskTiers(progress)
    IN  Cardinality({p \in (DOMAIN tiers) \X (1..3) : p[2] <= tiers[p[1]]})

-----------------------------------------------------------------------------
(* The subgraph. *)

\* Mutant: endAt_gte instead of endAt_gt.
SelectedAgain(r) ==
    {b \in closed : run[r].latest <= endAt[b] /\ endAt[b] <= run[r].snap.end}

\* what the query of a run selects
Selected(r) ==
    {b \in closed : run[r].latest < endAt[b] /\ endAt[b] <= run[r].snap.end}

\* the answers to first:1000, orderBy:round__endAt; equal ends in any order
Pages(selected) ==
    LET size == IF Cardinality(selected) < PageSize THEN Cardinality(selected) ELSE PageSize
    IN  {page \in [1..size -> selected] :
            /\ \A i, j \in 1..size : i < j => page[i] # page[j] /\ endAt[page[i]] <= endAt[page[j]]
            /\ \A i \in 1..size, b \in selected \ {page[j] : j \in 1..size} :
                  endAt[page[i]] <= endAt[b]}

-----------------------------------------------------------------------------
(* A run of the cron: each action ends at an await. *)

Step(r, pc) == [run EXCEPT ![r].pc = pc]

\* any season with isActive true may be the one findOne gives
StartRun(r) ==
    /\ run[r].pc = "idle"
    /\ \E s \in DOMAIN season :
          /\ season[s].active
          /\ LET from == IF season[s].last = NoTime THEN season[s].start ELSE season[s].last
             IN  run' = [run EXCEPT ![r] = [Idle EXCEPT !.pc = "fetch", !.at = s,
                            !.snap = season[s], !.latest = from]]
    /\ disturbed' = (disturbed \/ admin # "idle" \/ Running # {})
    /\ UNCHANGED <<now, world, closed, season, row, points, admin, late, torn>>

\* a page is answered, and the fetching goes on at pc
GetPage(r, pc) ==
    /\ run[r].pc = "fetch"
    /\ \E page \in Pages(Selected(r)) :
          run' = [run EXCEPT
            ![r].batch = @ \o page,
            ![r].latest = Max({@} \cup {endAt[page[i]] : i \in DOMAIN page}),
            ![r].pc = pc]
    /\ UNCHANGED <<now, world, closed, season, row, points, admin, history>>

FetchPage(r) == Cardinality(Selected(r)) >= PageSize /\ GetPage(r, "fetch")

FetchLastPage(r) == Cardinality(Selected(r)) < PageSize /\ GetPage(r, "read")

\* after more than MaxErrors errors the bets fetched so far are worked on
FetchFails(r) ==
    /\ run[r].pc = "fetch"
    /\ run' = IF run[r].errors + 1 > MaxErrors
              THEN Step(r, "read")
              ELSE [run EXCEPT ![r].errors = @ + 1]
    /\ UNCHANGED <<now, world, closed, season, row, points, admin, history>>

\* current_progresses; a user without bets has only the row of
\* handleCompletionist to save, when new as an affiliate (or theirs is)
ReadProgress(r) ==
    /\ run[r].pc = "read"
    /\ \/ /\ run[r].batch # <<>>
          /\ run' = [run EXCEPT ![r].old = row, ![r].pc = "completed"]
       \/ /\ run[r].batch = <<>>
          /\ \E pc \in {"completed", "season"} : run' = Step(r, pc)
    /\ UNCHANGED <<now, world, closed, season, row, points, admin, history>>

\* completed_tasks of handleCompletionist
CountCompleted(r) ==
    /\ run[r].pc = "completed"
    /\ run' = [run EXCEPT ![r].completed = CompletedTasks(row), ![r].pc = "save"]
    /\ UNCHANGED <<now, world, closed, season, row, points, admin, history>>

SaveProgress(r) ==
    /\ run[r].pc = "save"
    /\ row' = IF run[r].batch = <<>>
              THEN [row EXCEPT !.completed = run[r].completed]
              ELSE Advance(run[r].old, run[r].completed, run[r].batch)
    /\ run' = Step(r, "season")
    /\ UNCHANGED <<now, world, closed, season, points, admin, history>>

\* Mutant: the time of the run is stored, not that of the last bet.
SaveSeasonNow(r) ==
    /\ run[r].pc = "season"
    /\ LET snap == [run[r].snap EXCEPT !.last = now]
       IN  /\ season' = [season EXCEPT ![run[r].at] = snap]
           /\ run' = [run EXCEPT ![r] = [Idle EXCEPT !.pc = "over", !.at = run[r].at,
                                                     !.snap = snap]]
    /\ UNCHANGED <<now, world, closed, row, points, admin, history>>

\* Mutant: milliseconds are stored for seconds.
SaveSeasonMillis(r) ==
    /\ run[r].pc = "season"
    /\ LET snap == [run[r].snap EXCEPT !.last = run[r].latest * 1000]
       IN  /\ season' = [season EXCEPT ![run[r].at] = snap]
           /\ run' = [run EXCEPT ![r] = [Idle EXCEPT !.pc = "over", !.at = run[r].at,
                                                     !.snap = snap]]
    /\ UNCHANGED <<now, world, closed, row, points, admin, history>>

\* the season as read when the run began, with last_updated_time; the bets
\* fetched and the rows read are used no more
SaveSeason(r) ==
    /\ run[r].pc = "season"
    /\ LET snap == [run[r].snap EXCEPT !.last = run[r].latest]
       IN  /\ season' = [season EXCEPT ![run[r].at] = snap]
           /\ run' = [run EXCEPT ![r] = [Idle EXCEPT !.pc = "over", !.at = run[r].at,
                                                     !.snap = snap]]
    /\ UNCHANGED <<now, world, closed, row, points, admin, history>>

\* after the leaderboard; an error there is caught
SeasonOver(r) ==
    /\ run[r].pc = "over"
    /\ run' = IF now > run[r].snap.end THEN Step(r, "award") ELSE [run EXCEPT ![r] = Idle]
    /\ UNCHANGED <<now, world, closed, season, row, points, admin, history>>

\* Mutant: the points are added to those the user has.
ReadPointsAdding(r) ==
    /\ run[r].pc = "award"
    /\ run' = [run EXCEPT ![r].award = points + CalcPoints(row),
                          ![r].pc = IF CalcPoints(row) > 0 THEN "points" ELSE "close"]
    /\ UNCHANGED <<now, world, closed, season, row, points, admin, history>>

\* updateUserPoints, up to saveUsers; without points nothing is saved
ReadPoints(r) ==
    /\ run[r].pc = "award"
    /\ run' = [run EXCEPT ![r].award = CalcPoints(row),
                          ![r].pc = IF CalcPoints(row) > 0 THEN "points" ELSE "close"]
    /\ UNCHANGED <<now, world, closed, season, row, points, admin, history>>

SavePoints(r) ==
    /\ run[r].pc = "points"
    /\ points' = run[r].award
    /\ run' = Step(r, "close")
    /\ UNCHANGED <<now, world, closed, season, row, admin, history>>

CloseSeason(r) ==
    /\ run[r].pc = "close"
    /\ season' = [season EXCEPT ![run[r].at] = [run[r].snap EXCEPT !.active = FALSE]]
    /\ run' = [run EXCEPT ![r] = Idle]
    /\ UNCHANGED <<now, world, closed, row, points, admin, history>>

\* A query or a save fails, and the exception is caught at the end of the
\* run; or the process stops there.
RunEnds(r) ==
    /\ run[r].pc # "idle"
    /\ torn' = IF run[r].pc = "season" /\ run[r].batch # <<>> THEN torn + 1 ELSE torn
    /\ torn' <= MaxTorn
    /\ run' = [run EXCEPT ![r] = Idle]
    /\ UNCHANGED <<now, world, closed, season, row, points, admin, late, disturbed>>

-----------------------------------------------------------------------------
(* setNewSeason: each action ends at an await. *)

AdminStep(from, to) ==
    /\ admin = from
    /\ admin' = to
    /\ disturbed' = (disturbed \/ Running # {})

CallSetNewSeason(reset) ==
    /\ Len(season) < MaxSeasons
    /\ AdminStep("idle", IF reset THEN "points" ELSE "deactivate")
    /\ UNCHANGED <<now, world, closed, season, row, points, run, late, torn>>

\* userService.resetPoint
ResetPoints ==
    /\ AdminStep("points", "progress")
    /\ points' = 0
    /\ UNCHANGED <<now, world, closed, season, row, run, late, torn>>

ClearProgress ==
    /\ AdminStep("progress", "deactivate")
    /\ row' = NoRow
    /\ UNCHANGED <<now, world, closed, season, points, run, late, torn>>

DeactivateAll ==
    /\ AdminStep("deactivate", "insert")
    /\ season' = [s \in DOMAIN season |-> [season[s] EXCEPT !.active = FALSE]]
    /\ UNCHANGED <<now, world, closed, row, points, run, late, torn>>

InsertSeason ==
    /\ AdminStep("insert", "idle")
    /\ \E times \in SeasonTimes : season' = Append(season, NewSeason(times))
    /\ late' = {}
    /\ UNCHANGED <<now, world, closed, row, points, run, torn>>

\* an error in between is caught; what was done stays
SetNewSeasonFails ==
    /\ admin # "idle"
    /\ admin' = "idle"
    /\ disturbed' = TRUE
    /\ UNCHANGED <<now, world, closed, season, row, points, run, late, torn>>

-----------------------------------------------------------------------------
(* The world. *)

\* A round gets its closePrice at its end or later; it is late for a season
\* once its processor has asked for, or stored, a time not before that end.
CloseRound(b) ==
    /\ b \notin closed
    /\ endAt[b] <= now
    /\ closed' = closed \cup {b}
    /\ late' = IF \/ endAt[b] <= Newest.last
                  \/ \E r \in Running : endAt[b] <= run[r].latest
               THEN late \cup {b} ELSE late
    /\ UNCHANGED <<now, world, season, row, points, run, admin, torn, disturbed>>

Tick ==
    /\ now < MaxTime
    /\ now' = now + 1
    /\ UNCHANGED <<world, closed, season, row, points, run, admin, history>>

-----------------------------------------------------------------------------

Init ==
    /\ now = 0
    /\ endAt \in EndTimes
    /\ won \in [Bets -> BOOLEAN]
    /\ closed = {}
    /\ \E times \in SeasonTimes : season = <<NewSeason(times)>>
    /\ row = NoRow
    /\ points = 0
    /\ run = [r \in Runs |-> Idle]
    /\ admin = "idle"
    /\ late = {}
    /\ torn = 0
    /\ disturbed = FALSE

RunStep(r) ==
    \/ StartRun(r)
    \/ FetchPage(r)
    \/ FetchLastPage(r)
    \/ FetchFails(r)
    \/ ReadProgress(r)
    \/ CountCompleted(r)
    \/ SaveProgress(r)
    \/ SaveSeason(r)
    \/ SeasonOver(r)
    \/ ReadPoints(r)
    \/ SavePoints(r)
    \/ CloseSeason(r)
    \/ RunEnds(r)

Next ==
    \/ \E r \in Runs : RunStep(r)
    \/ \E reset \in BOOLEAN : CallSetNewSeason(reset)
    \/ ResetPoints
    \/ ClearProgress
    \/ DeactivateAll
    \/ InsertSeason
    \/ SetNewSeasonFails
    \/ \E b \in Bets : CloseRound(b)
    \/ Tick

Spec == Init /\ [][Next]_vars

-----------------------------------------------------------------------------
(* Properties *)

Progress ==
    [bets : Seq(Bets), play : [longest : Nat, current : Nat, date : Int],
     win : [longest : Nat, current : Nat], timeframes : SUBSET {0, 1, 3},
     completed : 0..13]
Seasons ==
    [start : Times, end : Nat, last : Times \cup {NoTime}, active : BOOLEAN]
Stages ==
    {"idle", "fetch", "read", "completed", "save", "season", "over", "award", "points", "close"}
RunStates ==
    [pc : Stages, at : Nat, snap : Seasons, latest : Times, errors : 0..MaxErrors,
     batch : Seq(Bets), old : Progress, completed : 0..13, award : Nat]

\* The tables, the runs and the call under way keep their shapes.
TypeOK ==
    /\ now \in Times
    /\ endAt \in EndTimes
    /\ won \in [Bets -> BOOLEAN]
    /\ closed \subseteq Bets
    /\ season \in Seq(Seasons) \ {<<>>}
    /\ row \in Progress
    /\ points \in Nat
    /\ run \in [Runs -> RunStates]
    /\ admin \in {"idle", "points", "progress", "deactivate", "insert"}
    /\ late \subseteq closed
    /\ torn \in 0..MaxTorn
    /\ disturbed \in BOOLEAN

TimesCounted(b) == CountIn(row.bets, {b})

Covers(s, b) == season[s].start < endAt[b] /\ endAt[b] <= season[s].end

\* However the bets are cut into runs and pages, whatever fails and whatever
\* times the seasons are given, each season adds a bet once at most, and only
\* one it covers; each time the progresses were saved and last_updated_time
\* was not, it may be added once more (runProcessor, getBetsData).
CountedOnce ==
    disturbed \/ \A b \in Bets :
        TimesCounted(b) <= torn + Cardinality({s \in DOMAIN season : Covers(s, b)})

\* What last_updated_time has passed is in the progresses: a bet of the season
\* that was closed before the processor asked for its end, and that shares
\* its end with no other (a page may end between those), has been added when
\* the stored time reaches its end (runProcessor, getBetsData).
NothingSkipped ==
    disturbed \/ admin # "idle" \/ \A b \in closed \ late :
        Newest.start < endAt[b] /\ endAt[b] <= Newest.last
        /\ (\A c \in Bets \ {b} : endAt[c] # endAt[b])
            => TimesCounted(b) >= 1

InOrderOfTime(bets) ==
    \A i, j \in DOMAIN bets : i < j => endAt[bets[i]] <= endAt[bets[j]]

\* Counters carried from run to run agree with the history as a whole:
\* wherever the runs, the pages, the failures and the seasons cut it, the win
\* streak is that of all the bets added so far, the playing streak too unless
\* a bet was added after a later one (a season went back, or a progress was
\* saved without last_updated_time), a timeframe is credited to who traded in
\* it only, and the completed tasks are never ahead of the tiers reached
\* (handlePlayingStreaks, handleWinStreaks, handleTradeOnEachTimeframe,
\* handleCompletionist).
CountersOfHistory ==
    disturbed \/ row.bets = <<>>
        \/ /\ InOrderOfTime(row.bets) => row.play = PlayingStreakOf(PeriodsOf(row.bets))
           /\ row.win = WinStreakOf(WonOf(row.bets))
           /\ row.timeframes \subseteq {Timeframe[row.bets[i]] : i \in DOMAIN row.bets}
           /\ row.completed <= CompletedTasks(row)

\* The points given away are final: once the processor has closed a season,
\* the user has the points of the progresses as they are, though runs failed
\* or stopped between the awards and the closing, and later ones still added
\* bets (runProcessor, updateUserPoints).
AwardsFinal ==
    disturbed \/ admin # "idle" \/ Newest.active
        \/ (CalcPoints(row) > 0 => points = CalcPoints(row))

\* "isActive false for existing seasons" (point.service.ts:1176): beside a
\* setNewSeason under way, at most one season is active.
OneActiveSeason ==
    admin = "idle" => Cardinality({s \in DOMAIN season : season[s].active}) <= 1

=============================================================================

# Ryze backend: TLA+ models, checks and proofs

The Ryze backend (NestJS, TypeScript, one process plus one worker thread) fetches
one-minute candles from Binance, Kraken, OKX and ByBit, aggregates them into a DEFAULT
candle per symbol, and writes each minute's price to the binary-option market contracts of
several networks. Beside that it pushes live prices over websockets and keeps points,
affiliate fees, users and a credit hand-out. This directory models the parts whose
correctness depends on order, time and failure. Paths below are relative to the repository;
`worker` is `src/data-provider/workers/ohlc-worker.service.ts`.

## Inventory

| Component | State | Operations | What is hard | What makes it correct |
|---|---|---|---|---|
| OHLC worker, rounds (`worker` 448–958, 1076–1129) | `dataProviderStatuses`, per-job locals (`count`, timeframes), RPC providers | a task per symbol; a `writePriceToContract` job per market: poll block, query timeframes, `makeActivity`, profit check, `executeRound` | all jobs interleave at every `await` on one shared list; abandoned transactions go on; deadlines 15/20/40 s | no price without a quorum of exchanges; one submission per endpoint; every minute ends |
| OHLC worker, binding (`worker` 960–1074; `src/data-provider/*/*.ohlc.service.ts`) | `ohlcResult`, `dataProviderStatuses` | a promise per (exchange, symbol) with retries; repeated passes | one list entry per exchange for many symbols; time limits | the list names who is missing, and only failures of this minute |
| DEFAULT candles (`worker` 112–429, `src/ohlc/ohlc.service.ts` 111–278) | `ohlc` table, `missingOhlcResult`, `missingDataProviderStatuses` | save, repair pass, clone into gaps, `getPrice` | three writers in two processes; unawaited repair pass; read-compute-save over awaits | candles join; a settled price stands; real data is not replaced by clones |
| OhlcService, chart and price feed (`src/ohlc/ohlc.service.ts` 111–178, 315–565) | `onChainPrice`, `marketData`, `priceFeedRetryCounts` | aggregate a range, fetch Chainlink prices, coingecko cron | bucket edges; endless retry on one endpoint | a chart equals its definition; a price request ends |
| Websocket trade feeds (`src/websocket-provider/**`) | `messageQueue`, `isProcessingMessage`, `syncedTime`, `latestPriceRecord` | enqueue, process, roll over, first-trade sync, disconnect | concurrent processors, awaits inside the roll-over, stale trades | a minute's volume counts each trade once |
| Socket gateway (`src/socket/socket.gateway.ts`) | `latestPrice`, `defaultOpenPrices` | compute and push every 500 ms, relay worker messages | reads half-updated records | no zero price is pushed |
| Worker bootstrap (`src/data-provider`) | worker thread | start, relay, log | worker death is only logged | – |
| Point processor (`src/point`) | progress, season, tier rows; leaderboard | minute cron, paged bets, season switch | overlap, crash between saves, page edges | each bet counts once |
| Affiliate fees (`src/affiliate`) | affiliates, fees, tiers | guarded cron, paged bets, fee and tier updates | two saves, skip paging, restart point | each bet's fee is credited once |
| Users (`src/user`, `src/affiliate/csv.service.ts`) | users, referral ids, who referred whom | register, generate-referral, upload of a file, the point processor's saves | requests for one user at a time; rows saved as they were read; a request that fails half way | one row per address; referrers and referral ids are kept; no referral cycles but by ids a client sends |
| Ryze credits (`src/ryze-credits`) | token ids (a cache of the chain) | signature hand-out, cron | what is entitled is decided by the chain and the subgraph | – |
| The rest (controllers, guards, GraphQL client, migrations, configuration, monitoring) | – | – | – | – |

How they interact. The main loop of the worker (`runDataProvider`) binds the exchanges'
candles, then runs one task per symbol: save the exchanges' candles and the DEFAULT candle,
read the price back with `getPrice`, compare it with the on-chain price, write it to all
markets. When all tasks have ended within the minute it starts `addMissingOhlc` *without
awaiting it* and sleeps. The worker shares the database with the API process, whose chart
requests clone candles into gaps; it posts new candles to the main thread, which relays them
through the gateway. Trade feeds and gateway share `latestPriceRecord`. Points and affiliate
fees read bets from a subgraph and meet only in the affiliate and user tables, which the users'
requests and the administrator's files write too.

## Modules

| Module | Models |
|---|---|
| `PriceWriting` | the abstract promise of one minute's writing: which submissions may happen, in which order, until when |
| `RoundExecution` | the tasks and jobs of one minute after the binding, in detail |
| `RoundExecutionProofs` | its invariants and its refinement of `PriceWriting`, proved |
| `ExchangeBinding` | the promises, passes and minutes of the binding |
| `ExchangeBindingProofs` | its invariants, proved |
| `OhlcChart` | the aggregation of candles into a chart, as operators, and what a chart should be |
| `CandleTimeline` | the DEFAULT candles, their three kinds of writers and the answers to chart requests |
| `CandleTimelineProofs` | its invariants, and `makeOhlcResponse` for every stretch of candles, proved |
| `PriceFeed` | the requests for on-chain prices and their endpoints |
| `Streaks` | the streak counters of the point processor, as operators, and their definition over a whole history |
| `StreaksProofs` | that counters carried from run to run are those of the whole history, proved |
| `PointProcessor` | the cron that turns bets into progresses and points, and the change of season |
| `PointProcessorProofs` | its invariants, proved |
| `AffiliateFees` | the cron that credits bets to referees and affiliates, and registration |
| `AffiliateFeesProofs` | its invariants, proved |
| `Registration` | users, referral ids and who referred whom: requests, an uploaded file and the points' saves |
| `RegistrationProofs` | its invariants and action properties, proved |
| `TradeFeed` | a trade feed with its queue, minutes and connections, and the gateway that pushes prices |
| `TradeFeedProofs` | its invariants and action properties, proved |
| `MC…` | instances for TLC |

### RoundExecution and PriceWriting

State. `phase` and `minuteChanged` are the two clock questions the code asks (second of the
minute against 15, 20, 40; `getCurrentMinute() != minuteForStartTime`); `Tick` moves them.
`dataProviderStatuses` is the shared list; `bound` remembers what the binding found. `task[s]`
is the closure of symbol `s` in `runDataProvider`, `job[m]` the `writePriceToContract` call of
market `m`; `rpc`, `count`, `current`, `attempt` are the locals of the endpoint loops, with
`attempt[m][r]` the chain estimateGas–send–wait started through endpoint `r`. An action is what
runs between two awaits: `QueryDue` is the answer of `getExecutableTimeframes` together with
the tests of lines 804–805 and the head of `executeRound`'s loop; `Mine`, `RoundFails` and
`RoundTimeout` are the three ends of an await, each with the loop head that follows;
`LateFailure` is the `onMaxRetryFunc` of a submission nobody awaits.
`FinishRound` clears the shared list (line 597) and tests `count` (line 599). `count` runs ahead of the endpoints that
failed, as a failure is counted where it is caught and where the attempt ends; `HalfTried` says how far.
The two query loops of `getExecutableTimeframes` (before and after second 10) are the same but
for the log and are one. A candle in which nothing traded repeats the statuses of the candle
before it; that value is the constant `Carried`. Initially the binding is over, at any second,
also in a later minute.

`PriceWriting` knows only markets, endpoints and the missing exchanges. The refinement maps
`missing` to `bound`, `closed` to the ended jobs, `tried` to the endpoints with an attempt and
`mined` to the mined ones; so the shared list, the clocks and the timers are all hidden.

### ExchangeBinding

`fetch` and `tries` are the promises of `bindOhlcDataFromExchange`, `ohlcResult[p]` the symbols
exchange `p` gave. `CandleArrives` is the `then`
branch (lines 987–1018), `AttemptFails` a failed try of `retryAsync` and, for the last one, the
catch. The ways an attempt fails are `AnswersTooLate` (null after second 30), `AnswersShort` (OKX wants
two candles) and `RequestThrows`. Retry delays and the fetchers' polling are stuttering.
`EndPass`, `NextPass`, `NextMinute` are the inner and outer loop. That the comparison of times
at line 1000 always holds is explained in the module's head.

### CandleTimeline

`row[s][t]` is the DEFAULT row of symbol and minute, reduced to open, close and isCloned, prices
being named by their origin. Writers: the loop's tasks (`MainReads`, `MainSaves`, …), repair passes
(`PassNext` … `PassFails`; `missing` is `missingOhlcResult`, shared by overlapping passes), and chart
requests of the API process (`RequestReads`, then `RequestFills` once per gap). A writer's read and its save are
separate steps, with everybody else between them. Exchange volumes are taken as stored; whether
the last sixty candles had any is a nondeterministic choice. A chart request reads the whole timeline (its `from` and
`to` are left out), and what it answers once the gaps are filled is `Response`, by `OhlcChart`'s `makeOhlcResponse`; the
four branches of that function are `RestOfInterval`, `WholeIntervals`, `NewestInterval` and `WithoutBeginning`. `ChartOf`
says, by intervals of time and without indices, what a chart should be. Its times come in order by their
places: the k-th is the one that k of them do not exceed (`InOrder`).

### PriceFeed

`getOnChainPrices` is the timer of 10 s, `request[q]` a call of `getOnChainSymbolPrice`, `Fails` a turn of its loop that
caught an exception or got no price, `GivesUp` the warning after the loop. `count` is a constant, as in the code.

### PointProcessor and Streaks

`season` is the `task_season` table, `row` the progress rows of one user, `run[r]` the locals of a cron
call: the season as read (`snap`), the bets fetched (`batch`), the time reached (`latest`), the rows read
(`old`). The stages of a run are its awaits: `StartRun` (find the active season), `FetchPage`,
`FetchLastPage`, `FetchFails` (`getBetsData`), `ReadProgress`, `CountCompleted` (the read inside
`handleCompletionist`), `SaveProgress` (all handlers and the save), `SaveSeason`, `SeasonOver`,
`ReadPoints`, `SavePoints`, `CloseSeason`; `RunEnds` is a failure or a crash at any of them.
`setNewSeason` has a step per await (`CallSetNewSeason` to `InsertSeason`) and may fail in between; the season it inserts has
any start and end the request names (`SeasonTimes`), so seasons may overlap, begin before what the processor has already passed, or be over
at once. A run without bets may still save the completionist's row, as the code does for new affiliates (`ReadProgress`). The
tasks that only add are numbers of bets of a kind in the sequence of bets added (`CountIn`, for `TotalVolume`
and its neighbours), which also shows when a bet is added twice; the streaks, whose counters cannot be summed, are computed as in the
code (`Streaks`) and compared with `PlayingStreakOf` and `WinStreakOf`, which look at the whole history at once.
The subgraph is external: it answers a query with any order of bets that end in the same second.

### AffiliateFees

`referee` is the `affiliate` table, `fee` the `affiliate_fee` table, `run` the one call of
`doUpdateAffiliateFee` its guard lets through. A run is `StartRun` (read `LastTimestamp` off both tables),
`FetchPage` and `FetchFails` (`getBetsData`), `SaveVolumes` or `SaveVolumesFails` (`updateAffiliate`, whose
failing save is caught) and `SaveFees` (`updateAffiliateFeeWithBets`); `RunEnds` is an exception or a stop of the
process at any of them. `Register` is `create`, in one step; `Registration` has its steps. A volume or a fee is the sequence of the bets it
sums, which shows a bet that is added twice. Two history variables name what the code does not promise: `lost`
are bets that a failure between the saves, a registration or their late closing let pass, `shifts` counts
rounds closed ahead of the page being fetched, since pages go by `skip`.

### Registration

`users` and `affiliate` are the tables: users have an id of their own (their place in `users`) and no unique address,
affiliates are keyed by their user, so that a save replaces. `call[c]` is a request: `Register`, `SaveUser`, `FindReferee`,
`FindAffiliate` and `SaveAffiliate` are what `UserService.create` and `AffiliateService.create` do between their awaits;
`GenerateReferral` is the guard that reads the row and `SaveReferralId` the save of that row, after `ReferralIdTaken` as
often as `MaxTimes` allows. The row a registration saves is a copy of the payload's keys, and the validation lets keys
pass that the DTO says are made by the backend: `InsertUser` takes a referral id the client has sent (`SentIds`), and `OverwriteUser` is the
save whose payload has the id of a row, which TypeORM turns into an update of that row, address and referral id included. `upload` is `handleCSVData` with its chunks (`FindUsers` to `SaveAffiliatesFails`), `award` the rows
`updateUserPoints` has read and will save. A call may fail or stop at every await (`CallFails`). The history `raced` holds the
addresses two of these worked on at a time, of which the code promises nothing; `idOrder` has addresses in the
order in which they got their first referral id, `imported` those whose affiliate came from a file, `brought` those who sent a referral
id with their registration, `rewritten` both users of a row that a registration has overwritten. `ReferralIdKept` exempts the last, and
`ReferrersFirst` these three: two users who register with each other's codes as their own do close a cycle of referrals. In a file the query of
a row's code may fail, and the row is passed over (`FindRefCode`). Of the awards only users with points are read (`winners`).

### TradeFeed

One exchange's service, any of four: they are the same code but for `Trade` (Binance and ByBit compare times,
Binance also sets `hasBinanceError`), for what an old trade does (`SkipOld`: it ends the call, in Kraken's feed
only its own turn) and for messages of many trades (`Message`: OKX). `running` is a call of `processMessageQueue`
that has the thread, `pending` the trades whose calls wait for a historical volume; an event happens only while no call has the
thread. `record` is the exchange's part of `latestPriceRecord`; a volume is the sequence of the trades added.
`Disconnected` is a close, an error or a ping without an answer, after which the client comes back and `Connect` makes new
records. `Rolled` is the first trade of a minute, `StartMinute` the end of the read it waits for, per symbol; another
exchange may do the former (`OtherExchange`). `CalculateLatestPrice` is the gateway's timer. Histories: `mixed`
are the symbols whose volume holds a historical one, `overtaken` those whose last waiting call found a newer trade.

## Runs

| Run | Instance | Shows |
|---|---|---|
| `RoundExecution` | 2 symbols and markets (one InEVM), 3 exchanges, 2 endpoints | types; `NoWriteWithoutQuorum`, `GuardOutlivesAwaits`, `RecordedStatuses` |
| `RoundFailover` | 1 market, 3 endpoints, fairness | `EndpointsOnce`, `HalfTried`, `JobsRunDown`; refinement of `PriceWriting`; `MinuteCompletes` |
| `ExchangeBinding` | 3 exchanges, 2 symbols, 4 pairs, 2 tries, fairness | types; `AbsentListed`, `BindingEnds` |
| `CandleTimeline` | 2 symbols, 4 minutes, 1 repair pass, 1 chart request | types; `CandlesJoin`, `SettledPriceStands`, `ChartJoins`, `ChartOfIntervals` |
| `PointProcessor` | 1 user, 3 bets, pages of 2, 1 run at a time, 2 seasons | types; `CountedOnce`, `NothingSkipped`, `CountersOfHistory`, `AwardsFinal` |
| `AffiliateFees` | 2 affiliates, 2 referees, 3 bets, pages of 2 | types; `CreditedOnce`, `PassedIsPaid`, `TierEarned` |
| `TradeFeed` | any of 4 exchanges, 2 symbols, 3 trades, 2 minutes, 1 lost connection | types; `VolumeOfMinute`, `QueueDrained`, `LastTradeAdvances`, `ZeroOnlyWhenOvertaken` |
| `Registration` | 3 users (one with a referral id), 3 ids, 2 requests, a file of 2 rows, an award | types; `OneUser`, `ReferrersFirst`, `AffiliateKept`, `ReferralIdKept` |
| `BinanceMissing`, `CloneRace`, `SeasonRace` | as above, smaller | violations, see Findings |
| `PriceFeed` | 2 endpoints, 2 requests, 2 failures between requests, fairness | a violation, see Findings |

Bounds and why they suffice. Rounds of different markets meet only in the shared list, so two
symbols show every interference; three exchanges reach both thresholds (2 for a job, 3 for a task);
two endpoints make one abandoned and one awaited submission, three let a late failure move the
index twice. `MCRepairBound` lets the repair pass of the previous minute lose one exchange. The
clock of `RoundExecution` wraps, so time is unbounded. Two tries make a first and a last. Four
minutes hold a candle, a skipped minute, a candle after the gap, and one more for the overlap; they cut into intervals of
two and of three minutes reach every branch of `makeOhlcResponse`. One chart request at a time is enough for the run; that requests that
overlap fill a gap alike is what the proof adds. `CandleTimeline` stops at
`LastMinute`, so deadlock is not checked there. Overlapping of two repair passes is in the
module (`Passes`), but not in the run, whose states it multiplies beyond reach.
Kraken and OKX are interchangeable in `RoundExecution`, the symbols in `CandleTimeline`: hence the symmetry.

`PointProcessor`: three bets fill a page and begin the next; three patterns of their ends (`MCEndTimes`) have
them in one playing period, in the next, after a gap, at the end of a season and after it, and two in one second; who wins is free.
The first season is 0..3; the second is the same again or 1..4 (`MCSeasonTimes`), so that it overlaps the first one, with or without a reset, and may
begin before the time the processor has stored or be over when it is inserted.
Once `setNewSeason` has run beside the cron, or failed half way, the properties promise nothing
(`disturbed`), and neither do they for overlapping runs; `MCUndisturbed` leaves those states out, and one run at a
time is enough then. `MaxTorn` allows one save of progresses without the season's. The clock stops, so no deadlock check.

`AffiliateFees`: three bets at any seconds of three fill a page and begin the next, and give one referee the volume that
qualifies (two bets) while another has one; affiliates with and without a row; one error more than `MaxErrors` ends a
fetch. The clock stops, so no deadlock check.

`TradeFeed`: the start may be on a minute's boundary, so four seconds (minutes of two) hold two minutes that count; three
trades are one that waits, one that overtakes it and one of another symbol or minute. A symbol's price is zero or not at
will, which includes every state of the other exchanges. The symbols are interchangeable. The clock stops, so no deadlock check.

`Registration`: the file's second row refers its first user and himself, in chunks of one row, so that a chunk may fail on a referral
id that is taken; two tries of an id make a first and a last. One referral id of three may be sent by clients. The
properties promise nothing of a user with two calls at a time, nor of one whose row was overwritten: `MCFew` lets no user's calls overlap, or `ben`'s
alone, has one user send a referral id and one row overwritten, whose users do not register again, and one row awarded at a
time.

`PriceFeed`: one endpoint that fails and one that works are enough; the failures between two requests, which are 10 s
apart, are bounded.

Every property has a mutant, an operator marked `Mutant:` next to the action it distorts.

Fairness. `RoundExecution`: time passes; each awaited network call is raced against a timer
(`wrapPromise`) or ends by the library's own timeout, so each step of a task or job that is enabled
for good is taken; and since the poll loop runs about once a second, its test falls infinitely often past
the deadline (strong fairness of that step). No fairness of mining is assumed. `ExchangeBinding`: time
passes, the loops go on, and an exchange that keeps showing the wrong candle is asked infinitely often after
second 30, as requests are half a second apart. `PriceFeed`: the timer fires, an
asked endpoint answers or fails, and one that works does not fail for ever.

## Proofs

Checked by TLAPS for all values of the constants that meet the modules' named assumptions
(`ConstantsAssumption`: a finite set of exchanges, at least one endpoint; `BindingAssumption`: every
exchange lists a symbol, at least one try; `FeedAssumption`: the four exchanges, a minute of at least one unit
of time; `TimelineAssumption` and `CandleAssumption`: a finite set of symbols, a minute at least, and no row is not a row;
`RegistrationAssumption`: finitely many addresses, files that are not empty, known users with addresses and ids of their own;
`AffiliateAssumption` and `RowAssumption`: finitely many affiliates and referees, each with an affiliate, pages of at least one bet,
thresholds of at least one, and no row is not a row; `PointAssumption`: pages, periods, seasons and criteria of at least one, seasons that begin within the clock's range, every bet on one of the
timeframes, positions and markets). The bounds of the runs (symbols, markets, endpoints, bets, pages, passes, requests, seasons, chunk
size) are arbitrary there.

`RoundExecutionProofs`. None of the properties is inductive. The invariant `IInv` adds to `TypeOK`
the parts of `Safe`: the shared list is `bound` or, once a round is over, empty (`StatusesInv`); a
minute without quorum has no job that writes and no finished round (`QuorumInv`) — this is why clearing
the list cannot make room for a write: only a job that had the quorum can clear it; per market, `count`
bounds the endpoints used and the awaited endpoint is the one at `count` until a late failure (`RoundInv`);
a task before its writing has idle jobs (`TaskInv`). `Inductive` goes through Next action by action, with
lemmas for the two loop heads. From it follow `TypeCorrect`, `QuorumSafety`, `GuardSafety`,
`EndpointSafety`, `RecordSafety` and, step by step, `Refinement`. `HalfIsTried` needs
`CountInv` beside it: an endpoint counts for two once its submission has failed, and for one while it is under way
unawaited. `AllJobsRunDown` is what of `MinuteCompletes` is safety: `StepsLeft` bounds the steps a job can still take besides
polling, each step of its own lowers it, and no step of anybody raises it — `TaskInv` rules out that a job is started again,
and `RoundInv` that a late failure stands for the awaited one. What remains for fairness is that steps are taken, and that the poll sees the deadline.

`ExchangeBindingProofs`. `IInv` is `TypeOK`, `Awaited` (an exchange that has given nothing is
listed or one of its promises is still polling) and `PassOver` (outside the binding all promises have settled);
it yields `BindingTypes` and `AbsentAreListed`.

`TradeFeedProofs`. That a volume counts each trade once, and only those of its minute, is not inductive: it rests on what
is still to come. `IInv` orders the feed: trades are made in the order of their times (`TimesInOrder`), queue and wire keep
that order, the queue before the wire (`InOrder`), and every trade some call has looked at — it waits, it is a last trade, or it
is in a volume without a historical part — comes before every trade none has (`Behind`). So a trade that is counted is
new to its volume, and since the shared minute only moves on by asking all symbols to start anew, a volume with no such request
left is of that minute (`VolumeInv`). `QueueInv` says that calls leave the queue empty when they stop, and `ErrorInv` that
an error stands only for a symbol of Binance whose waiting call was overtaken. `Inductive` takes one lemma per part of
`IInv`, each by the actions; from it follow `TypeCorrect`, `VolumesOfMinute`, `QueuesDrained`,
`LastTradesAdvance` and `ZerosOnlyWhenOvertaken`.

`CandleTimelineProofs`. Why should two who fill a gap, each from a snapshot of its own, fill it alike? Because the loop writes
only the minute before its own and everybody else earlier ones (`Reached`), so that its candle is the last of its symbol
and what it has read of the one before still holds (`Waiting`); because, where no repair pass has written, what a request has
read is what the table holds (`Current`); and because a candle that has meanwhile been put into one of its gaps is the
one it would put there itself (`Filled`). `Settled` then follows a settled price through the table and all snapshots. All that is
weakened by `repaired`, the candles a pass has written, since a pass really replaces prices. From it follow
`TypeCorrect`, `CandlesAreJoined` and `SettledPricesStand`.

`RegistrationProofs`. What the code relies on without a lock is that nobody else works on the same user. `Alone` says that
otherwise the user is in `raced`; so what a call has read of a user not in `raced` still holds when it saves: the user is new
(`StillNew`), has no affiliate (`StillNone`), and the row is as it was (`StillAsRead`). Registrations that overwrite a row make even that
depend on the row rather than the user: `RowsAlone` says that a row somebody has read is nobody else's, by its address as it was
read or as it is, and `Renamed` that the two differ only for users in `rewritten`. `RowChange` and `NewRow` say once what any
step does to a row. `Ranked` orders users by their first referral ids: one who is registering has none yet, unless he sent it, while his
referee has, which excludes cycles of all others. From it follow
`TypeCorrect`, `UsersAreUnique`, `ReferrersAreFirst`, `AffiliatesAreKept` and `ReferralIdsAreKept`.

`AffiliateFeesProofs`. Pages go by `skip` over a selection that shrinks and grows while they are fetched. A page is a stretch
of places among the selected bets (`PageHolds`), so that a bet comes twice only if its place has moved behind the pages, for
which a round must close ahead of them: that is `shifts`. `Adding` carries the count through a run: what a row has of a
bet, and what the batch will add, is one more than the shifts at most, and a bet a row already has too often lies behind
the time the next run will begin at, because a volume or a fee is saved with its bets' last end. In the other direction
the pages skip no more bets than end before them (`SkipsPassed`), so whatever is closed in time is in the batch (`BatchHolds`),
and `lastTimestamp` moves no further than the batch. From it follow `TypeCorrect`, `BetsAreCreditedOnce`,
`WhatIsPassedIsPaid` and `TiersAreEarned`, for any bets, users, page size, failures and stops.

`StreaksProofs`. The streak counters are updated from a run's bets and the counters of the run before; nobody ever looks at the
whole history. A history matters only by the set of its periods, or of the places of its won bets: a streak is a row of numbers that are
all in that set. `PlaysOver(play, played)` and `WinsOver(win, wins, n)` say that counters are those of a set. `PlayGoesOn` and
`WinGoesOn` show that a run leads from counters of a history to counters of the longer one, whatever the split, in the middle of a streak or
of a period too; `PlayedIs` and `WonIs` that counters of a history are what the definitions over the whole sequence give. None of this is
an induction over data: the invariant of `PointProcessor` takes one run at a time.

`PointProcessorProofs`. `IInv` says of an undisturbed processor that one run goes on at a time, on the newest season and from the
rows as they are (`OneAtATime`), so that its saves lose nothing; that what it has fetched ends after the stored time (`FetchedLater`);
that a bet not yet passed is in the rows no more often than the seasons before cover it and a time was not stored (`Counted`: between the two
saves of a run its own bets are there once more, which is why a crash at that point adds them again; that a season may begin anywhere is why the
seasons before count); that what a run has reached it has fetched, and what it has passed it has
added (`NothingLeft`); that a run giving away points has those of the rows (`Awarded`); and, by `StreaksProofs`, that the counters are those of
the bets, the playing streak as long as these were added in order (`HistoryAgrees`). `RunUndisturbed` and `OthersUndisturbed` reduce the steps to what each does to season, rows
and points. From it follow `TypeCorrect`, `BetsAreCountedOnce`, `NothingIsSkipped`, `CountersAgree` and `AwardsAreFinal`, for any
bets, page size, periods, seasons and number of runs; overlapping runs, and a season changed beside the cron, are `disturbed` here as in
the properties.

The charts, in `CandleTimelineProofs`. A request that is about to answer has the candles of consecutive minutes (`NoGapLeft`: the last
candle before a missing minute would be one before a gap), none of them later than `now`. `makeOhlcResponse` works with
indices: `firstIndex`, `lastIndex` and steps of the interval's length between them. `Cuts` says what it achieves: the answer cuts
the data into pieces side by side, each with all candles of one interval and only those. `OneCut` shows it for data in which no interval begins,
`ManyCuts` for all other data (`Marks` are where intervals begin, `Parts` the three loops). Cuts determine the chart: an interval's candles
run from one cut to the next (`WithinIs`), and numbers that ascend are the only enumeration of their set (`OrderOf`), so the answer is
`ChartOf` (`ResponseIs`, theorem `ChartsAreOfIntervals`), the current interval included, as no candle is later. Where the data joins so does the chart
(`ResponseJoins`), and the data of a request joins because it is what the table holds (`Current`, `HeldJoins`, theorem `ChartsJoin`).

Only model-checked: `MinuteCompletes` and `BindingEnds`, since liveness under fairness and ENABLED are out of the prover's
reach. The runs that end in a violation are counterexamples and have nothing to prove. Nowhere does a proof use induction over
data: it needs theorems with an operator parameter, which the installed provers cannot instantiate. That is why sums are numbers of places
(`CountIn`, `TimesIn`), orders are places (`InOrder`) and the counters are carried from run to run.

## Findings

1. `BinanceMissing`: a round's end clears the list of failed exchanges for all symbols (`worker` 597); a
   later job then writes without Binance's data and without the profit check.
2. `CloneRace`: a chart request's clone overwrites a candle a repair pass has just saved
   (`src/ohlc/ohlc.service.ts` 135–173).
3. `SeasonRace`: the cron saves the season as it was when its run began and so makes a season active again that
   `setNewSeason` has deactivated meanwhile (`src/point/point.service.ts` 276).
4. `PriceFeed`: while a chain's first endpoint fails, a price request asks it again and again and never another: the
   loop's counter is a constant (`src/ohlc/ohlc.service.ts` 331–350).

Noticed while modelling, not backed by a run: "Process the message queue if it's not already being processed"
(`src/websocket-provider/binance/binance.service.ts` 226, and in the other feeds) does not happen: the flag is reset at the
first await, and calls overlap; after a connection the first trade's minute counts trades twice (its own volume, and the
historical one that may hold it); Kraken's and OKX's last trade may be replaced by the older one of a call that waited;
`clonePrevDefaultOhlcRecord` never loads the candle to
clone (`worker` 391), signs an undefined close and throws; an exchange whose first success follows a
failure stays listed (998–1001, the conservative direction); `divideByVolume` counts `ohlcResult` for
repaired candles too (243); a repaired symbol may be built from another timestamp's data (310 resets once);
the list of failed exchanges has one entry per exchange, so a success of one symbol takes off what another symbol's failure had put
there (998–1007); `executeRound` may return true with nothing mined, by the comparison in line 535 and by counting a
failure twice (576, 593), which its caller ignores; with gaps left by a clone whose save failed, the intervals of a chart count
candles, not minutes, so `ChartOfIntervals` is stated for data without gaps; the volume of a first, partial bar counts candles of the next one too
(`src/ohlc/ohlc.service.ts` 474); a registration saves every key the client sends (`src/user/user.service.ts` 74, with `getFromDto`), while the DTO's
comments say of two of them "this is generated in database" and "this is generated on backend" (`src/user/dto/create-user.dto.ts` 12, 17);
a registration that failed between user and affiliate is never repaired, as
the repeated one returns at once (`src/user/user.service.ts` 71–75); a file may make a user his own referrer; generate-referral saves the whole row
as it was read, points included; referral ids that differ in case only are different ids to the index; the first-fee branch of
`updateAffiliateFeeWithBets` is unreachable (`src/affiliate/affiliate.service.ts` 551–561), so only affiliates whose row was made elsewhere are paid; of its two
tests of the age of a referee both compare `createdAt` with itself (409, 414); who registers makes the next run skip the bets
that ended before (697), and a failure between the two saves leaves its bets unpaid;
`handleTradeOnEachTimeframe` finds one new timeframe per run at most (an else-if chain, `src/point/point.service.ts`
594–609), so who trades in all three within a minute is credited one; a season is closed by the first run after its
end, which on a minute's boundary comes before the rounds that end with it are settled, and those are then never added;
`setNewSeason` takes any start, and unless it also resets, a season that begins before the time the last one had reached adds those bets to the
progresses once more (`CountedOnce` says once per season), out of their order, so that the playing streak is not that of the history;
`setNewSeason` says "Save user points to claim in next round" (1169) where it sets them to 0.

## Plan

Everything the plan had for the core is modelled: the minute's rounds and binding, the candles with charts, the trade
feeds with the gateway, points, affiliate fees, registration and the price feed. Every invariant and action property
of the passing runs is proved, and so is the refinement. What a next step could add:

1. for the binding what `JobsRunDown` is for a round: that no step of it but the clock's can be taken for ever;
2. the two referral tasks of `PointProcessor`, with a second user;
3. overlapping runs of the point cron, once the code says what they may do.

## Not modelled

- The composition of binding and rounds in one module: their products have too many states for TLC, and what
  passes from one to the other is `bound`, which `RoundExecution` takes at will.
- What a bar of a chart holds beside open and close, and the range of a request.
- Of the points: the referral tasks, boosts, the leaderboard's cache and the queries. Of the fees: what is paid per bet
  (it scales sums), the administrators' setters, and more than 1000 referees who bet between two runs.
- Ryze credits: no state but a cache of token ids; a signature follows from what the chain and the subgraph answer.
- The worker's bootstrap (it logs the end of the worker and does nothing), wiring and validation (controllers, guards,
  modules), the GraphQL client's plain retry, coingecko, the CSV export, monitoring, migrations.

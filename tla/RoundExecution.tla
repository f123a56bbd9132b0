-------------------------- MODULE RoundExecution --------------------------
(***************************************************************************)
(* How one minute's price is written to the market contracts               *)
(* (OhlcWorkerService, src/data-provider/workers/ohlc-worker.service.ts).  *)
(*                                                                         *)
(* After the exchanges were bound, runDataProvider starts one task per     *)
(* symbol; a task saves the DEFAULT candle, reads the price back, compares *)
(* it with the on-chain price and starts one writePriceToContract job per  *)
(* market of the symbol.  All tasks and jobs run on one event loop, so     *)
(* they interleave at every await, and they share dataProviderStatuses,    *)
(* the list of exchanges that failed this minute.  A transaction whose 20  *)
(* seconds ran out is abandoned, not cancelled: it may still be sent, be   *)
(* mined or fail while the job is trying the next RPC endpoint.            *)
(*                                                                         *)
(* The wall clock is kept to what the code compares: the second of the     *)
(* minute against the deadlines 15, 20 and 40, and whether the current     *)
(* minute still is the minute the task was started for.                    *)
(***************************************************************************)
EXTENDS Naturals, FiniteSets

CONSTANTS
    Symbols,        \* the market symbols of the run
    CheckedSymbols, \* those checkPriceIsValid compares and writes
    Markets,        \* one per (network, symbol, contract index)
    SymbolOf,       \* the symbol of a market
    InEVM,          \* the markets on an InEVM network
    DataProviders,  \* the exchanges
    Binance,        \* the exchange "with biggest volume"
    RpcCount,       \* RPC endpoints configured per network
    NoRecord,       \* no DEFAULT candle saved this minute
    Carried         \* the statuses of the candle before it

ASSUME ConstantsAssumption ==
    /\ CheckedSymbols \subseteq Symbols
    /\ SymbolOf \in [Markets -> Symbols]
    /\ InEVM \subseteq Markets
    /\ Binance \in DataProviders
    /\ IsFiniteSet(DataProviders)
    /\ RpcCount \in Nat \ {0}

Rpcs == 0 .. RpcCount - 1
NoAttempt == RpcCount        \* no submission is being awaited

VARIABLES
    phase,          \* second of the minute: 0 <= 15, 1 <= 20, 2 <= 40, 3 > 40
    minuteChanged,  \* getCurrentMinute() # minuteForStartTime
    dataProviderStatuses,
    missingDataProviderStatuses,
    bound,          \* what the exchange binding of this minute found missing
    task,           \* where the task of a symbol is
    recorded,       \* the statuses stored with the symbol's DEFAULT candle
    job,            \* where the writePriceToContract job of a market is
    late,           \* currentSecond, read before the latest block is awaited, > deadline
    rpc,            \* loop index of getExecutableTimeframes
    revived,        \* an InEVM job has already used makeActivity
    profit,         \* what calculateProfitableAmount told the job
    count,          \* executeRound's count
    current,        \* the endpoint whose receipt executeRound awaits
    attempt,        \* the submission through each endpoint: estimateGas, send and wait
    submissions     \* how often each endpoint was used (history)

clockVars == <<phase, minuteChanged>>
statusVars == <<dataProviderStatuses, missingDataProviderStatuses, bound>>
taskVars == <<task, recorded>>
queryVars == <<late, rpc, revived, profit>>
roundVars == <<count, current, attempt, submissions>>
vars == <<clockVars, statusVars, taskVars, job, queryVars, roundVars>>

JobStates == {"idle", "block", "timeframes", "activity", "profit", "round",
              "settled", "untrusted", "unprofitable", "true", "threw"}
Submission == {"none", "pending", "mined", "failed"}

TypeOK ==
    /\ phase \in 0..3
    /\ minuteChanged \in BOOLEAN
    /\ dataProviderStatuses \in SUBSET DataProviders
    /\ missingDataProviderStatuses \in SUBSET DataProviders
    /\ bound \in SUBSET DataProviders
    /\ task \in [Symbols -> {"saving", "pricing", "writing", "done"}]
    /\ recorded \in [Symbols -> (SUBSET DataProviders) \cup {NoRecord, Carried}]
    /\ job \in [Markets -> JobStates]
    /\ late \in [Markets -> BOOLEAN]
    /\ rpc \in [Markets -> Rpcs]
    /\ revived \in [Markets -> BOOLEAN]
    /\ profit \in [Markets -> {"unknown", "ok"}]
    /\ count \in [Markets -> Nat]
    /\ current \in [Markets -> Rpcs \cup {NoAttempt}]
    /\ attempt \in [Markets -> [Rpcs -> Submission]]
    /\ submissions \in [Markets -> [Rpcs -> Nat]]

(***************************************************************************)
(* Both loops of the write path test this before they use an endpoint.     *)
(***************************************************************************)
OutOfTime == phase = 3 \/ minuteChanged

\* Mutant: the poll has no deadline.
PastDeadlineNever(m) == phase > 3

\* `currentSecond > deadline`: 20 seconds on InEVM, 15 elsewhere.
PastDeadline(m) == phase >= (IF m \in InEVM THEN 2 ELSE 1)

Ended == {"settled", "untrusted", "unprofitable", "true", "threw"}

MarketsOf(s) == {m \in Markets : SymbolOf[m] = s}

(***************************************************************************)
(* The binding is over; runDataProvider's tasks all test                   *)
(* dataProviderStatuses.length < 3 before any of them awaits.  With three  *)
(* or more exchanges missing a task goes to clonePrevDefaultOhlcRecord,    *)
(* which signs an undefined close, throws and ends the task.               *)
(***************************************************************************)
Init ==
    /\ phase \in 0..3
    /\ minuteChanged \in BOOLEAN
    /\ bound \in SUBSET DataProviders
    /\ dataProviderStatuses = bound
    /\ missingDataProviderStatuses = {}
    /\ task = [s \in Symbols |-> IF Cardinality(bound) < 3 THEN "saving" ELSE "done"]
    /\ recorded = [s \in Symbols |-> NoRecord]
    /\ job = [m \in Markets |-> "idle"]
    /\ late = [m \in Markets |-> FALSE]
    /\ rpc = [m \in Markets |-> 0]
    /\ revived = [m \in Markets |-> FALSE]
    /\ profit = [m \in Markets |-> "unknown"]
    /\ count = [m \in Markets |-> 0]
    /\ current = [m \in Markets |-> NoAttempt]
    /\ attempt = [m \in Markets |-> [r \in Rpcs |-> "none"]]
    /\ submissions = [m \in Markets |-> [r \in Rpcs |-> 0]]

Tick ==
    /\ phase' = (phase + 1) % 4
    /\ minuteChanged' = (minuteChanged \/ phase = 3)
    /\ UNCHANGED <<statusVars, taskVars, job, queryVars, roundVars>>

\* Mutant: the repair pass shares the list of the minute.
MissingFetchFailsShared(p) ==
    /\ dataProviderStatuses' = dataProviderStatuses \cup {p}
    /\ UNCHANGED <<clockVars, missingDataProviderStatuses, bound, taskVars, job, queryVars, roundVars>>

(***************************************************************************)
(* The repair pass addMissingOhlc started last minute was not awaited; its *)
(* bindOhlcDataFromExchange(_, true) still records failed exchanges.       *)
(***************************************************************************)
MissingFetchFails(p) ==
    /\ missingDataProviderStatuses' = missingDataProviderStatuses \cup {p}
    /\ UNCHANGED <<clockVars, dataProviderStatuses, bound, taskVars, job, queryVars, roundVars>>

(***************************************************************************)
(* The task of a symbol.                                                   *)
(***************************************************************************)
\* Mutant: the candle stores the list of the repair pass.
SaveDefaultSwapped(s) ==
    /\ task[s] = "saving"
    /\ recorded' = [recorded EXCEPT ![s] = missingDataProviderStatuses]
    /\ task' = [task EXCEPT ![s] = "pricing"]
    /\ UNCHANGED <<clockVars, statusVars, job, queryVars, roundVars>>

SaveDefault(s) ==
    /\ task[s] = "saving"
    /\ \/ /\ recorded' = [recorded EXCEPT ![s] = dataProviderStatuses]
          /\ task' = [task EXCEPT ![s] = "pricing"]
       \/ /\ recorded' = [recorded EXCEPT ![s] = Carried]    \* nothing traded
          /\ task' = [task EXCEPT ![s] = "pricing"]
       \/ /\ task' = [task EXCEPT ![s] = "done"]    \* saveDefaultOhlcRecord gave null
          /\ UNCHANGED recorded
    /\ UNCHANGED <<clockVars, statusVars, job, queryVars, roundVars>>

\* getPrice throws, the price is too far from the chain's, or the symbol is
\* not one checkPriceIsValid writes: nothing is written for it.
SkipWrite(s) ==
    /\ task[s] = "pricing"
    /\ task' = [task EXCEPT ![s] = "done"]
    /\ UNCHANGED <<clockVars, statusVars, recorded, job, queryVars, roundVars>>

\* checkPriceIsValid accepts: one job per market, each reads the clock and
\* asks for the latest block.
StartWrite(s) ==
    /\ task[s] = "pricing"
    /\ s \in CheckedSymbols
    /\ task' = [task EXCEPT ![s] = "writing"]
    /\ job' = [m \in Markets |-> IF m \in MarketsOf(s) THEN "block" ELSE job[m]]
    /\ late' = [m \in Markets |-> IF m \in MarketsOf(s) THEN PastDeadline(m) ELSE late[m]]
    /\ UNCHANGED <<clockVars, statusVars, recorded, rpc, revived, profit, roundVars>>

\* Promise.all over the chains and the markets of the symbol.
JoinMarkets(s) ==
    /\ task[s] = "writing"
    /\ \A m \in MarketsOf(s) : job[m] \in Ended
    /\ task' = [task EXCEPT ![s] = "done"]
    /\ UNCHANGED <<clockVars, statusVars, recorded, job, queryVars, roundVars>>

(***************************************************************************)
(* getExecutableTimeframes.                                                *)
(***************************************************************************)
\* No round is due, every endpoint failed or the time is over: an InEVM job
\* goes to makeActivity once, any other job ends.
NoTimeframes(m) ==
    /\ job' = [job EXCEPT ![m] = IF m \in InEVM /\ ~revived[m] THEN "activity" ELSE "settled"]
    /\ rpc' = [rpc EXCEPT ![m] = 0]

\* Mutant: one endpoint too many.
QueryEndpointOffByOne(m, i) ==
    IF i <= RpcCount /\ ~OutOfTime
    THEN /\ job' = [job EXCEPT ![m] = "timeframes"]
         /\ rpc' = [rpc EXCEPT ![m] = i]
    ELSE NoTimeframes(m)

\* Head of the endpoint loop, at endpoint i.
QueryEndpoint(m, i) ==
    IF i < RpcCount /\ ~OutOfTime
    THEN /\ job' = [job EXCEPT ![m] = "timeframes"]
         /\ rpc' = [rpc EXCEPT ![m] = i]
    ELSE NoTimeframes(m)

\* getLatestBlock answered and the block belongs to the minute, or the second
\* read before the call was past the deadline: the job goes on.
PollEnds(m) ==
    /\ job[m] = "block"
    /\ QueryEndpoint(m, 0)
    /\ late' = [late EXCEPT ![m] = FALSE]
    /\ UNCHANGED <<clockVars, statusVars, taskVars, revived, profit, roundVars>>

\* Otherwise it sleeps, reads the second and asks again.
PollAgain(m) ==
    /\ job[m] = "block"
    /\ ~late[m]
    /\ late' = [late EXCEPT ![m] = PastDeadline(m)]
    /\ UNCHANGED <<clockVars, statusVars, taskVars, job, rpc, revived, profit, roundVars>>

\* The endpoint fails or takes more than 5 seconds.
QueryFails(m) ==
    /\ job[m] = "timeframes"
    /\ QueryEndpoint(m, rpc[m] + 1)
    /\ UNCHANGED <<clockVars, statusVars, taskVars, late, revived, profit, roundVars>>

\* The endpoint answers that no timeframe is due.
QueryNothingDue(m) ==
    /\ job[m] = "timeframes"
    /\ NoTimeframes(m)
    /\ UNCHANGED <<clockVars, statusVars, taskVars, late, revived, profit, roundVars>>

\* Mutant: the second query may call makeActivity again.
MakeActivityAgain(m) ==
    /\ job[m] = "activity"
    /\ job' = [job EXCEPT ![m] = "block"]
    /\ late' = [late EXCEPT ![m] = PastDeadline(m)]
    /\ UNCHANGED <<clockVars, statusVars, taskVars, rpc, revived, profit, roundVars>>

\* makeActivity, 3 seconds of sleep and a second query; it may throw instead.
MakeActivity(m) ==
    /\ job[m] = "activity"
    /\ \/ /\ job' = [job EXCEPT ![m] = "block"]
          /\ late' = [late EXCEPT ![m] = PastDeadline(m)]
          /\ revived' = [revived EXCEPT ![m] = TRUE]
       \/ /\ job' = [job EXCEPT ![m] = "settled"]
          /\ UNCHANGED <<late, revived>>
    /\ UNCHANGED <<clockVars, statusVars, taskVars, rpc, profit, roundVars>>

(***************************************************************************)
(* executeRound.                                                           *)
(***************************************************************************)
\* Leaving the loop with count c.  The list all tasks share is cleared, and
\* only count = length is taken for failure.
FinishRound(m, c) ==
    /\ dataProviderStatuses' = {}
    /\ count' = [count EXCEPT ![m] = c]
    /\ current' = [current EXCEPT ![m] = NoAttempt]
    /\ job' = [job EXCEPT ![m] = IF c = RpcCount THEN "threw" ELSE "true"]
    /\ UNCHANGED <<missingDataProviderStatuses, bound>>

\* Head of the loop with count c, `tried` being the state of the submissions.
NextEndpoint(m, c, tried) ==
    IF c < RpcCount /\ ~OutOfTime
    THEN /\ attempt' = [attempt EXCEPT ![m] = [tried EXCEPT ![c] = "pending"]]
         /\ submissions' = [submissions EXCEPT ![m][c] = submissions[m][c] + 1]
         /\ count' = [count EXCEPT ![m] = c]
         /\ current' = [current EXCEPT ![m] = c]
         /\ job' = [job EXCEPT ![m] = "round"]
         /\ UNCHANGED statusVars
    ELSE /\ attempt' = [attempt EXCEPT ![m] = tried]
         /\ FinishRound(m, c)
         /\ UNCHANGED submissions

\* Mutant: the test of the symbol's task, once more.
MissingTooManyLax == ~(Cardinality(dataProviderStatuses) < 3)

\* The list of failed exchanges as writePriceToContract tests it.
MissingTooMany == ~(Cardinality(dataProviderStatuses) < 2)
BinanceMissing == Binance \in dataProviderStatuses

\* Timeframes are due: the list is tested here, after all the awaits above.
QueryDue(m) ==
    /\ job[m] = "timeframes"
    /\ rpc' = [rpc EXCEPT ![m] = 0]
    /\ IF MissingTooMany
       THEN /\ job' = [job EXCEPT ![m] = "untrusted"]
            /\ UNCHANGED <<statusVars, roundVars>>
       ELSE IF BinanceMissing
       THEN /\ job' = [job EXCEPT ![m] = "profit"]
            /\ UNCHANGED <<statusVars, roundVars>>
       ELSE NextEndpoint(m, 0, attempt[m])
    /\ UNCHANGED <<clockVars, taskVars, late, revived, profit>>

\* calculateProfitableAmount says the vault does not lose.
ProfitKnown(m) ==
    /\ job[m] = "profit"
    /\ profit' = [profit EXCEPT ![m] = "ok"]
    /\ NextEndpoint(m, 0, attempt[m])
    /\ UNCHANGED <<clockVars, taskVars, late, rpc, revived>>

\* The vault would lose, the call failed, or its 20 seconds are over (-1).
ProfitUnknown(m) ==
    /\ job[m] = "profit"
    /\ job' = [job EXCEPT ![m] = "unprofitable"]
    /\ UNCHANGED <<clockVars, statusVars, taskVars, queryVars, roundVars>>

\* The receipt arrives.  A receipt that is awaited ends the loop; nothing stops
\* a submission that is not awaited any more from being sent and mined.
Mine(m, r) ==
    /\ attempt[m][r] = "pending"
    /\ attempt' = [attempt EXCEPT ![m][r] = "mined"]
    /\ IF current[m] = r
       THEN FinishRound(m, count[m])
       ELSE UNCHANGED <<statusVars, job, count, current>>
    /\ UNCHANGED <<clockVars, taskVars, queryVars, submissions>>

\* Mutant: onMaxRetryFunc counts each of two tries.
RoundFailsTwice(m) ==
    /\ job[m] = "round"
    /\ attempt[m][current[m]] = "pending"
    /\ NextEndpoint(m, count[m] + 3, [attempt[m] EXCEPT ![current[m]] = "failed"])
    /\ UNCHANGED <<clockVars, taskVars, queryVars>>

\* The awaited submission fails: onMaxRetryFunc counts it, and so does the catch.
RoundFails(m) ==
    /\ job[m] = "round"
    /\ attempt[m][current[m]] = "pending"
    /\ NextEndpoint(m, count[m] + 2, [attempt[m] EXCEPT ![current[m]] = "failed"])
    /\ UNCHANGED <<clockVars, taskVars, queryVars>>

\* Mutant: a timeout is not counted.
RoundTimeoutUncounted(m) ==
    /\ job[m] = "round"
    /\ NextEndpoint(m, count[m], attempt[m])
    /\ UNCHANGED <<clockVars, taskVars, queryVars>>

\* wrapPromise rejects after TIMEOUT_PERIOD; the submission stays under way.
RoundTimeout(m) ==
    /\ job[m] = "round"
    /\ NextEndpoint(m, count[m] + 1, attempt[m])
    /\ UNCHANGED <<clockVars, taskVars, queryVars>>

\* A submission nobody awaits fails: its onMaxRetryFunc still counts, which
\* matters as long as the loop runs.
LateFailure(m, r) ==
    /\ attempt[m][r] = "pending"
    /\ current[m] # r
    /\ attempt' = [attempt EXCEPT ![m][r] = "failed"]
    /\ count' = [count EXCEPT ![m] = IF job[m] = "round" THEN count[m] + 1 ELSE count[m]]
    /\ UNCHANGED <<clockVars, statusVars, taskVars, job, queryVars, current, submissions>>

-----------------------------------------------------------------------------
TaskStep(s) == SaveDefault(s) \/ SkipWrite(s) \/ StartWrite(s) \/ JoinMarkets(s)

PollBlock(m) == PollEnds(m) \/ PollAgain(m)

QueryStep(m) == QueryFails(m) \/ QueryNothingDue(m) \/ QueryDue(m)

ProfitStep(m) == ProfitKnown(m) \/ ProfitUnknown(m)

SubmissionStep(m, r) == Mine(m, r) \/ LateFailure(m, r)

Next ==
    \/ Tick
    \/ \E p \in DataProviders : MissingFetchFails(p)
    \/ \E s \in Symbols : TaskStep(s)
    \/ \E m \in Markets :
         \/ PollBlock(m) \/ QueryStep(m) \/ MakeActivity(m) \/ ProfitStep(m)
         \/ RoundFails(m) \/ RoundTimeout(m)
         \/ \E r \in Rpcs : SubmissionStep(m, r)

Spec == Init /\ [][Next]_vars

(***************************************************************************)
(* Time passes, every await of a task or a job ends (each network call is  *)
(* raced against a timer or ends by ethers' own timeout), and the poll     *)
(* reads the clock infinitely often while it is past the deadline (it asks *)
(* about every second, and two thirds of each minute are past it).  No     *)
(* block is assumed to arrive, no transaction to be mined.                 *)
(***************************************************************************)
Fairness ==
    /\ WF_vars(Tick)
    /\ \A s \in Symbols : WF_vars(TaskStep(s))
    /\ \A m \in Markets :
         /\ WF_vars(late[m] /\ PollEnds(m))
         /\ SF_vars(phase = 2 /\ PollAgain(m))
         /\ WF_vars(QueryStep(m))
         /\ WF_vars(MakeActivity(m))
         /\ WF_vars(ProfitStep(m))
         /\ WF_vars(RoundTimeout(m))

FairSpec == Spec /\ Fairness

-----------------------------------------------------------------------------
(***************************************************************************)
(* Properties.                                                             *)
(***************************************************************************)
\* Jobs that have accepted the minute's data and may write.
Writing(m) == job[m] \in {"profit", "round"}

Attempted(m) == {r \in Rpcs : attempt[m][r] # "none"}

PW == INSTANCE PriceWriting WITH
        missing <- bound,
        closed <- {m \in Markets : job[m] \in Ended},
        tried <- [m \in Markets |-> Attempted(m)],
        mined <- [m \in Markets |-> {r \in Rpcs : attempt[m][r] = "mined"}]

\* The detailed jobs implement the promise of PriceWriting: the shared list,
\* the timers and the abandoned submissions never make a job submit without a
\* quorum, twice through one endpoint, out of order or after its end.
ImplementsPriceWriting == PW!Spec

\* A minute in which two or more exchanges are missing writes no price to any
\* market, whatever the other tasks do to the shared list meanwhile
\* (writePriceToContract's `dataProviderStatuses.length < 2`).
NoWriteWithoutQuorum ==
    Cardinality(bound) >= 2 => \A m \in Markets : ~Writing(m) /\ Attempted(m) = {}

\* The test a job passed before its awaits still holds while it writes: no
\* task, and no repair pass of the minute before, adds an exchange to the list
\* under it; with Binance still listed the job has seen a safe profit.
GuardOutlivesAwaits ==
    \A m \in Markets : Writing(m) =>
        /\ Cardinality(dataProviderStatuses) < 2
        /\ job[m] = "round" /\ BinanceMissing => profit[m] = "ok"

\* A market's round is submitted at most once through an endpoint, whichever
\* of timeouts, failures and late failures of abandoned submissions moved
\* count in between (the index executeRound takes the next endpoint with).
EndpointsOnce ==
    \A m \in Markets : \A r \in Rpcs : submissions[m][r] <= 1

\* A round that gives up in time has been submitted through half of the
\* endpoints at least: the two counts of a failure, or of a timeout and its late
\* failure, pass over no more than one endpoint (executeRound's count).
HalfTried ==
    [][\A m \in Markets :
         /\ job[m] = "round" /\ job'[m] # "round"
         /\ ~OutOfTime'
         /\ \A r \in Rpcs : attempt'[m][r] # "mined"
         => 2 * Cardinality(Attempted(m)') >= RpcCount]_vars

\* The steps left to a job, but for the poll for a block: it asks each endpoint
\* for timeframes, perhaps once more after makeActivity, and then submits its
\* round through those that count has not passed.
StepsLeft(m) ==
    LET again == IF revived[m] THEN 0 ELSE 2 * RpcCount + 4
    IN  CASE job[m] = "idle" -> 4 * RpcCount + 8
          [] job[m] = "block" -> again + 2 * RpcCount + 3
          [] job[m] = "timeframes" -> again + 2 * RpcCount + 2 - rpc[m]
          [] job[m] = "activity" -> 2 * RpcCount + 4
          [] job[m] = "profit" -> RpcCount + 2
          [] job[m] = "round" -> 1 + (IF count[m] < RpcCount THEN RpcCount - count[m] ELSE 0)
          [] OTHER -> 0

\* Only the poll for a block goes on until the clock ends it.  Every other step
\* of a job uses up an endpoint, the second query or a stage, and nobody, other
\* jobs and the late failures of abandoned submissions included, gives one back
\* or starts a job again: no loop of writePriceToContract runs for ever.
JobsRunDown ==
    [][\A m \in Markets :
         IF job'[m] = job[m] /\ rpc'[m] = rpc[m] /\ submissions'[m] = submissions[m]
         THEN StepsLeft(m)' <= StepsLeft(m)
         ELSE StepsLeft(m)' < StepsLeft(m)]_vars

\* A traded candle is stored either with the exchanges that were missing, or,
\* after another symbol's round has cleared the list, with none.
RecordedStatuses ==
    \A s \in Symbols : recorded[s] \notin {NoRecord, Carried} =>
        \/ recorded[s] = bound
        \/ /\ recorded[s] = {}
           /\ \E m \in Markets : SymbolOf[m] # s /\ job[m] \in {"true", "threw"}

\* Every task of the minute ends, so the Promise.all of runDataProvider does
\* and the next minute is fetched.
MinuteCompletes == <>[](\A s \in Symbols : task[s] = "done")

\* The warning of writePriceToContract: without Binance's data the bet is
\* aborted unless the profit is known to be safe.
BinanceMissingNeedsProfit ==
    Binance \in bound => \A m \in Markets : job[m] = "round" => profit[m] = "ok"

=============================================================================

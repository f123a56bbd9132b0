-------------------------- MODULE ExchangeBinding --------------------------
(***************************************************************************)
(* How the worker binds a minute's candles from the exchanges              *)
(* (bindOhlcDataFromExchange and the inner loop of runDataProvider in      *)
(* src/data-provider/workers/ohlc-worker.service.ts, and the getOhlcPrice  *)
(* of the four exchanges under src/data-provider).                         *)
(*                                                                         *)
(* Every (exchange, symbol) pair is fetched by its own promise; each       *)
(* retries up to RETRY_COUNT times and then updates ohlcResult and the     *)
(* list dataProviderStatuses, which has one entry per exchange and not     *)
(* per symbol.  Passes are repeated until every exchange gave something or *)
(* the time is over.  The list is what RoundExecution starts a minute with.*)
(*                                                                         *)
(* Abstracted: candles are not kept, only which are held.  The comparison  *)
(* of candle times always holds: getOhlcPrice returns the candle of the    *)
(* minute it was asked for or none, and ohlcResult is cleared every minute.*)
(***************************************************************************)
EXTENDS Naturals, FiniteSets

CONSTANTS
    Providers,  \* the exchanges
    Symbols,    \* the market symbols
    Listed,     \* the <<exchange, symbol>> pairs of DATA_PROVIDERS
    Hasty,      \* exchanges whose short answers count as null (OKX)
    MaxTry      \* RETRY_COUNT

ASSUME BindingAssumption ==
    /\ Listed \subseteq Providers \X Symbols
    /\ \A p \in Providers : \E s \in Symbols : <<p, s>> \in Listed
    /\ Hasty \subseteq Providers
    /\ MaxTry \in Nat \ {0}

VARIABLES
    at,             \* where runDataProvider is
    afterThirty,    \* second of the minute > 30
    minuteChanged,  \* getCurrentMinute() # minuteForStartTime
    dataProviderStatuses,
    ohlcResult,     \* the symbols whose candle is held, per exchange
    fetch,          \* the promise of each pair
    tries           \* attempts the promise has begun

clockVars == <<afterThirty, minuteChanged>>
vars == <<at, clockVars, dataProviderStatuses, ohlcResult, fetch, tries>>

TypeOK ==
    /\ at \in {"binding", "pausing", "storing"}
    /\ afterThirty \in BOOLEAN
    /\ minuteChanged \in BOOLEAN
    /\ dataProviderStatuses \in SUBSET Providers
    /\ ohlcResult \in [Providers -> SUBSET Symbols]
    /\ fetch \in [Listed -> {"polling", "settled"}]
    /\ tries \in [Listed -> 1..MaxTry]

Init ==
    /\ at = "binding"
    /\ afterThirty \in BOOLEAN
    /\ minuteChanged = FALSE
    /\ dataProviderStatuses = {}
    /\ ohlcResult = [p \in Providers |-> {}]
    /\ fetch = [f \in Listed |-> "polling"]
    /\ tries = [f \in Listed |-> 1]

Tick ==
    /\ afterThirty' = ~afterThirty
    /\ minuteChanged' = (minuteChanged \/ afterThirty)
    /\ UNCHANGED <<at, dataProviderStatuses, ohlcResult, fetch, tries>>

\* The list after a candle of <<p, s>>: a candle that replaces one clears the
\* exchange, the first candle of a symbol leaves the list alone.
StatusesAfterCandle(p, s) ==
    IF s \in ohlcResult[p] THEN dataProviderStatuses \ {p} ELSE dataProviderStatuses

\* getOhlcPrice finds the candle of the minute.
CandleArrives(p, s) ==
    /\ fetch[<<p, s>>] = "polling"
    /\ fetch' = [fetch EXCEPT ![<<p, s>>] = "settled"]
    /\ dataProviderStatuses' = StatusesAfterCandle(p, s)
    /\ ohlcResult' = [ohlcResult EXCEPT ![p] = ohlcResult[p] \cup {s}]
    /\ UNCHANGED <<at, clockVars, tries>>

\* Mutant: one try too many.
AttemptFailsOffByOne(p, s) ==
    /\ fetch[<<p, s>>] = "polling"
    /\ IF tries[<<p, s>>] <= MaxTry
       THEN /\ tries' = [tries EXCEPT ![<<p, s>>] = tries[<<p, s>>] + 1]
            /\ UNCHANGED <<fetch, dataProviderStatuses>>
       ELSE /\ fetch' = [fetch EXCEPT ![<<p, s>>] = "settled"]
            /\ dataProviderStatuses' = dataProviderStatuses \cup {p}
            /\ UNCHANGED tries
    /\ UNCHANGED <<at, clockVars, ohlcResult>>

\* The attempt gave no candle: retryAsync tries again, the last time it throws
\* and the catch lists the exchange.
AttemptFails(p, s) ==
    /\ fetch[<<p, s>>] = "polling"
    /\ IF tries[<<p, s>>] < MaxTry
       THEN /\ tries' = [tries EXCEPT ![<<p, s>>] = tries[<<p, s>>] + 1]
            /\ UNCHANGED <<fetch, dataProviderStatuses>>
       ELSE /\ fetch' = [fetch EXCEPT ![<<p, s>>] = "settled"]
            /\ dataProviderStatuses' = dataProviderStatuses \cup {p}
            /\ UNCHANGED tries
    /\ UNCHANGED <<at, clockVars, ohlcResult>>

\* Mutant: retryAsync takes null for a result.
AnswersTooLateAccepted(p, s) ==
    /\ afterThirty
    /\ fetch[<<p, s>>] = "polling"
    /\ fetch' = [fetch EXCEPT ![<<p, s>>] = "settled"]
    /\ UNCHANGED <<at, clockVars, dataProviderStatuses, ohlcResult, tries>>

\* The exchange still shows another candle and the second is past
\* RETRY_SECOND: getOhlcPrice gives up and returns null.
AnswersTooLate(p, s) == afterThirty /\ AttemptFails(p, s)

\* OKX returns null for an answer of a single candle, at any second.
AnswersShort(p, s) == p \in Hasty /\ AttemptFails(p, s)

\* The request fails or a field of the candle is undefined: getOhlcPrice throws.
RequestThrows(p, s) == AttemptFails(p, s)

Bound == \A f \in Listed : fetch[f] = "settled"

checkValidOhlcResult == \A p \in Providers : ohlcResult[p] # {}

\* Mutant: the loop ignores the time.
EndPassUntimed ==
    /\ at = "binding"
    /\ Bound
    /\ at' = IF checkValidOhlcResult THEN "storing" ELSE "pausing"
    /\ UNCHANGED <<clockVars, dataProviderStatuses, ohlcResult, fetch, tries>>

\* Promise.all of the pass; the candles are stored or, while there is time and
\* an exchange has given nothing, a further pass follows after a sleep.
EndPass ==
    /\ at = "binding"
    /\ Bound
    /\ at' = IF checkValidOhlcResult \/ minuteChanged \/ afterThirty
             THEN "storing" ELSE "pausing"
    /\ UNCHANGED <<clockVars, dataProviderStatuses, ohlcResult, fetch, tries>>

FetchAgain ==
    /\ at' = "binding"
    /\ fetch' = [f \in Listed |-> "polling"]
    /\ tries' = [f \in Listed |-> 1]

NextPass ==
    /\ at = "pausing"
    /\ FetchAgain
    /\ UNCHANGED <<clockVars, dataProviderStatuses, ohlcResult>>

\* The tasks of the minute are over (see RoundExecution) and the next one has
\* begun, by sleepUntilNextMinute or because they took so long.
NextMinute ==
    /\ at = "storing"
    /\ minuteChanged
    /\ FetchAgain
    /\ minuteChanged' = FALSE
    /\ dataProviderStatuses' = {}
    /\ ohlcResult' = [p \in Providers |-> {}]
    /\ UNCHANGED afterThirty

-----------------------------------------------------------------------------
FetchStep(p, s) ==
    \/ CandleArrives(p, s) \/ AnswersTooLate(p, s)
    \/ AnswersShort(p, s) \/ RequestThrows(p, s)

Next ==
    \/ Tick \/ EndPass \/ NextPass \/ NextMinute
    \/ \E f \in Listed : FetchStep(f[1], f[2])

Spec == Init /\ [][Next]_vars

(***************************************************************************)
(* Time passes, the loop goes on, and an exchange that never shows the     *)
(* candle is asked infinitely often after second 30 (every half second),   *)
(* since axios answers or fails each request.                              *)
(***************************************************************************)
Fairness ==
    /\ WF_vars(Tick)
    /\ WF_vars(EndPass)
    /\ WF_vars(NextPass)
    /\ WF_vars(NextMinute)
    /\ \A f \in Listed : SF_vars(AnswersTooLate(f[1], f[2]))

FairSpec == Spec /\ Fairness

-----------------------------------------------------------------------------
(***************************************************************************)
(* Properties.                                                             *)
(***************************************************************************)
\* The quorum tests count on this: when the candles are stored, an exchange
\* that gave no candle at all is in the list, whatever the promises of its
\* other symbols pushed and filtered over all the passes.
AbsentListed ==
    at # "binding" => \A p \in Providers : ohlcResult[p] = {} => p \in dataProviderStatuses

\* Every binding ends and its candles are stored, even if an exchange hangs
\* on the candle of another minute or gives nothing in any pass.
BindingEnds == at = "binding" ~> at = "storing"
=============================================================================

-------------------------- MODULE CandleTimeline --------------------------
(***************************************************************************)
(* The DEFAULT candles of the symbols, one per minute, and who writes them *)
(* (OhlcWorkerService in src/data-provider/workers/ohlc-worker.service.ts, *)
(* OhlcService in src/ohlc/ohlc.service.ts):                               *)
(*   - the worker's loop saves the candle of the minute before for every   *)
(*     symbol, reads the price back and takes it to the market contracts;  *)
(*   - its repair pass, started after each minute and not awaited, fetches *)
(*     again what was cloned, for all symbols, and overwrites the candles; *)
(*     a slow pass overlaps the next one and shares missingOhlcResult;     *)
(*   - in the API process every chart request clones candles into the gaps *)
(*     of what it read.                                                    *)
(* A writer reads the neighbours (or its whole range), awaits, and writes  *)
(* what it computed from them.                                             *)
(*                                                                         *)
(* Abstracted: of a candle only open, close and isCloned are kept.  A      *)
(* price is named by where it came from: <<"open", t>> and <<"avg", t>>    *)
(* are what the exchanges' data of minute t gave, <<"again", t>> what they *)
(* gave when the pass fetched minute t once more.  The lookups of a writer *)
(* before its save are one step, and so are findOne and save.              *)
(***************************************************************************)
EXTENDS Naturals, FiniteSets, FiniteSetsExt, OhlcChart

CONSTANTS
    Symbols,
    LastMinute,  \* bound: the wall clock stops there
    Passes,      \* bound: repair passes that may overlap
    Requests,    \* bound: chart requests that may overlap
    Resolutions, \* minutes a candle of a chart may last
    NoCandle,    \* no row
    NoMinute     \* missingOhlcResult holds nothing for the symbol

ASSUME TimelineAssumption ==
    /\ LastMinute \in Nat \ {0}
    /\ NoMinute \notin Nat
    /\ Resolutions \subseteq Nat \ {0}
    /\ IsFiniteSet(Symbols)

Minutes == 0..LastMinute

VARIABLES
    now,      \* getCurrentMinute()
    start,    \* minuteForStartTime of the worker's loop
    row,      \* the ohlc table, source DEFAULT
    main,     \* the worker's task of each symbol
    seen,     \* prevOhlc and nextOhlc of that task
    settled,  \* the price each task took to the chain (history)
    missing,  \* the minute missingOhlcResult has data of, per symbol
    pass,     \* the repair passes
    request,  \* the chart requests
    repaired  \* the candles a pass has written (history)

mainVars == <<start, main, seen, settled>>
vars == <<now, mainVars, row, missing, pass, request, repaired>>

NoPrice == <<"none", 0>>
Prices == ({"open", "avg"} \X Minutes) \cup ({"again"} \X (Minutes \cup {NoMinute}))
Candle == [open : Prices, close : Prices, cloned : BOOLEAN]
Row == Candle \cup {NoCandle}
ASSUME CandleAssumption == NoCandle \notin Candle
Neighbours == [prev : Row, next : Row]

NoNeighbours == [prev |-> NoCandle, next |-> NoCandle]
IdlePass == [at |-> "off", end |-> 0, times |-> {}, todo |-> {}, symbol |-> NoMinute,
             source |-> NoMinute, seen |-> NoNeighbours]
Answered == [at |-> "off", symbol |-> NoMinute, data |-> [t \in Minutes |-> NoCandle]]

TypeOK ==
    /\ now \in Minutes /\ start \in Minutes
    /\ row \in [Symbols -> [Minutes -> Row]]
    /\ main \in [Symbols -> {"read", "save", "price", "done", "asleep"}]
    /\ seen \in [Symbols -> Neighbours]
    /\ settled \in [Symbols -> [Minutes -> Prices \cup {NoPrice}]]
    /\ missing \in [Symbols -> Minutes \cup {NoMinute}]
    /\ pass \in [Passes -> [at : {"off", "next", "bind", "read", "save"}, end : Minutes,
                            times : SUBSET Minutes, todo : SUBSET Symbols,
                            symbol : Symbols \cup {NoMinute},
                            source : Minutes \cup {NoMinute}, seen : Neighbours]]
    /\ request \in [Requests -> [at : {"off", "filling"}, symbol : Symbols \cup {NoMinute},
                                 data : [Minutes -> Row]]]
    /\ repaired \in [Symbols -> SUBSET Minutes]

Init ==
    /\ now = 1 /\ start = 1
    /\ row = [s \in Symbols |-> [t \in Minutes |-> NoCandle]]
    /\ main = [s \in Symbols |-> "read"]
    /\ seen = [s \in Symbols |-> NoNeighbours]
    /\ settled = [s \in Symbols |-> [t \in Minutes |-> NoPrice]]
    /\ missing = [s \in Symbols |-> NoMinute]
    /\ pass = [p \in Passes |-> IdlePass]
    /\ request = [r \in Requests |-> Answered]
    /\ repaired = [s \in Symbols |-> {}]

Tick ==
    /\ now < LastMinute
    /\ now' = now + 1
    /\ UNCHANGED <<mainVars, row, missing, pass, request, repaired>>

(***************************************************************************)
(* saveDefaultOhlcRecord and OhlcService.                                  *)
(***************************************************************************)
\* getDefaultOhlc of the minute before and of the minute after.
Around(s, t) ==
    [prev |-> IF t = 0 THEN NoCandle ELSE row[s][t - 1],
     next |-> IF t = LastMinute THEN NoCandle ELSE row[s][t + 1]]

\* Mutant: the candle opens where its own data does.
DefaultCandleOwnOpen(around, opening, closing, volumeless, joinsNext) ==
    [open   |-> opening,
     close  |-> IF joinsNext /\ around.next # NoCandle THEN around.next.open ELSE closing,
     cloned |-> FALSE]

\* The candle saveDefaultOhlcRecord makes of the neighbours and the averages:
\* it opens where the candle before closed; without any volume in the last 60
\* candles it repeats that close; where it may join the next candle it does.
DefaultCandle(around, opening, closing, volumeless, joinsNext) ==
    [open   |-> IF around.prev # NoCandle THEN around.prev.close ELSE opening,
     close  |-> IF joinsNext /\ around.next # NoCandle THEN around.next.open
                ELSE IF around.prev # NoCandle /\ volumeless THEN around.prev.close
                ELSE closing,
     cloned |-> FALSE]

\* save: an update of the row of (symbol, time, source), or an insert.
Save(s, t, c) == row' = [row EXCEPT ![s] = [row[s] EXCEPT ![t] = c]]

\* What getPrice answers for minute t.
getPrice(s, t) ==
    IF row[s][t] # NoCandle THEN row[s][t].open
    ELSE IF t > 0 /\ row[s][t - 1] # NoCandle THEN row[s][t - 1].close
    ELSE NoPrice

(***************************************************************************)
(* The worker's loop.                                                      *)
(***************************************************************************)
MainReads(s) ==
    /\ main[s] = "read"
    /\ main' = [main EXCEPT ![s] = "save"]
    /\ seen' = [seen EXCEPT ![s] = Around(s, start - 1)]
    /\ UNCHANGED <<now, start, settled, row, missing, pass, request, repaired>>

MainSaves(s) ==
    /\ main[s] = "save"
    /\ \E volumeless \in BOOLEAN :
         Save(s, start - 1, DefaultCandle(seen[s], <<"open", start - 1>>, <<"avg", start - 1>>,
                                          volumeless, TRUE))
    /\ main' = [main EXCEPT ![s] = "price"]
    /\ seen' = [seen EXCEPT ![s] = NoNeighbours]
    /\ UNCHANGED <<now, start, settled, missing, pass, request, repaired>>

\* Mutant: the undefined clone is saved.
MainFailsUndefined(s) ==
    /\ main[s] = "save"
    /\ Save(s, start - 1, [open |-> NoPrice, close |-> NoPrice, cloned |-> TRUE])
    /\ main' = [main EXCEPT ![s] = "done"]
    /\ seen' = [seen EXCEPT ![s] = NoNeighbours]
    /\ UNCHANGED <<now, start, settled, missing, pass, request, repaired>>

\* Three exchanges are missing (clonePrevDefaultOhlcRecord signs an undefined
\* close, throws and saves nothing), or a lookup, the signing or the save of
\* saveDefaultOhlcRecord fails.  Lookups change nothing, so failing before
\* them comes to the same.
MainFails(s) ==
    /\ main[s] = "save"
    /\ main' = [main EXCEPT ![s] = "done"]
    /\ seen' = [seen EXCEPT ![s] = NoNeighbours]
    /\ UNCHANGED <<now, start, settled, row, missing, pass, request, repaired>>

\* A second later the task reads the price and goes on to the contracts.
MainPrices(s) ==
    /\ main[s] = "price"
    /\ settled' = [settled EXCEPT ![s] = [settled[s] EXCEPT ![start] = getPrice(s, start)]]
    /\ main' = [main EXCEPT ![s] = "done"]
    /\ UNCHANGED <<now, start, seen, row, missing, pass, request, repaired>>

\* The next round of the loop, for the minute it is now.
StartMinute ==
    /\ start' = now
    /\ main' = [s \in Symbols |-> "read"]
    /\ UNCHANGED <<now, seen, settled, row, missing, request, repaired>>

\* The timestamps of all cloned candles of all symbols.
Cloned == {t \in Minutes : \E s \in Symbols : row[s][t] # NoCandle /\ row[s][t].cloned}

\* All tasks are done within the minute: a repair pass starts and the loop
\* sleeps until the next minute.
EndMinute(p) ==
    /\ \A s \in Symbols : main[s] = "done"
    /\ start = now
    /\ pass[p].at = "off"
    /\ main' = [s \in Symbols |-> "asleep"]
    /\ missing' = [s \in Symbols |-> NoMinute]
    /\ pass' = [pass EXCEPT ![p] = [IdlePass EXCEPT !.at = "next", !.end = now, !.times = Cloned]]
    /\ UNCHANGED <<now, start, seen, settled, row, request, repaired>>

WakeUp ==
    /\ \A s \in Symbols : main[s] = "asleep"
    /\ start < now
    /\ StartMinute
    /\ UNCHANGED pass

\* The tasks took longer than the minute: no pass, and the loop goes on at once.
Overrun ==
    /\ \A s \in Symbols : main[s] = "done"
    /\ start < now
    /\ StartMinute
    /\ UNCHANGED pass

(***************************************************************************)
(* addMissingOhlc.                                                         *)
(***************************************************************************)
Repairing(p) == Min(pass[p].times)

\* Head of the loop over the timestamps, the only place where the minute is
\* compared.
PassNext(p) ==
    /\ pass[p].at = "next"
    /\ pass' = [pass EXCEPT ![p] =
                  IF pass[p].times = {} \/ now # pass[p].end
                  THEN IdlePass ELSE [pass[p] EXCEPT !.at = "bind"]]
    /\ UNCHANGED <<now, mainVars, row, missing, request, repaired>>

\* bindOhlcDataFromExchange(time + MINUTE, true).  A symbol whose fetches
\* failed keeps the data of another timestamp.
PassBinds(p) ==
    /\ pass[p].at = "bind"
    /\ \E got \in SUBSET Symbols :
         missing' = [s \in Symbols |-> IF s \in got THEN Repairing(p) ELSE missing[s]]
    /\ pass' = [pass EXCEPT ![p] = [pass[p] EXCEPT !.at = "read", !.todo = Symbols]]
    /\ UNCHANGED <<now, mainVars, row, request, repaired>>

\* The symbols are taken one after the other (the order does not matter).
PassReads(p, s) ==
    /\ pass[p].at = "read"
    /\ s \in pass[p].todo
    /\ pass' = [pass EXCEPT ![p] = [pass[p] EXCEPT
                  !.at = "save",
                  !.symbol = s,
                  !.source = missing[s],
                  !.seen = Around(s, Repairing(p))]]
    /\ UNCHANGED <<now, mainVars, row, missing, request, repaired>>

\* The next symbol or, after the last, the next timestamp.
Advance(p) ==
    LET rest == pass[p].todo \ {pass[p].symbol}
    IN  pass' = [pass EXCEPT ![p] = [pass[p] EXCEPT
                   !.at = IF rest = {} THEN "next" ELSE "read",
                   !.todo = rest,
                   !.times = IF rest = {} THEN pass[p].times \ {Repairing(p)} ELSE pass[p].times,
                   !.symbol = NoMinute,
                   !.source = NoMinute,
                   !.seen = NoNeighbours]]

\* Only the last timestamp of the list joins the candle after it.
PassSaves(p) ==
    LET s == pass[p].symbol
        t == Repairing(p)
        price == <<"again", pass[p].source>>
    IN  /\ pass[p].at = "save"
        /\ \E volumeless \in BOOLEAN :
             /\ pass[p].source = NoMinute => volumeless
             /\ Save(s, t, DefaultCandle(pass[p].seen, price, price, volumeless,
                                         pass[p].times = {t}))
        /\ repaired' = [repaired EXCEPT ![s] = repaired[s] \cup {t}]
        /\ Advance(p)
        /\ UNCHANGED <<now, mainVars, missing, request>>

\* Three exchanges are listed as missing, or the save fails.
PassFails(p) ==
    /\ pass[p].at = "save"
    /\ Advance(p)
    /\ UNCHANGED <<now, mainVars, row, missing, request, repaired>>

(***************************************************************************)
(* addMissingOhlcData, in the API process.                                 *)
(***************************************************************************)
Held(data) == {t \in Minutes : data[t] # NoCandle}

\* The minutes before a gap in the data of a request.
BeforeGap(data) ==
    {t \in Held(data) : t + 1 \notin Held(data) /\ \E u \in Held(data) : u > t}

RequestReads(r, s) ==
    /\ request[r].at = "off"
    /\ request' = [request EXCEPT ![r] = [at |-> "filling", symbol |-> s, data |-> row[s]]]
    /\ UNCHANGED <<now, mainVars, row, missing, pass, repaired>>

\* Mutant: the clone repeats the candle before it.
RequestFillsRepeating(r) ==
    LET data == request[r].data
        t == Min(BeforeGap(data))
        clone == [data[t] EXCEPT !.cloned = TRUE]
    IN  /\ request[r].at = "filling"
        /\ BeforeGap(data) # {}
        /\ Save(request[r].symbol, t + 1, clone)
        /\ request' = [request EXCEPT ![r] = [request[r] EXCEPT !.data = [data EXCEPT ![t + 1] = clone]]]
        /\ UNCHANGED <<now, mainVars, missing, pass, repaired>>

\* The first gap gets a clone that leads from the candle before it to the
\* candle after it, both as the request has read them.
RequestFills(r) ==
    LET data == request[r].data
        t == Min(BeforeGap(data))
        after == Min({u \in Held(data) : u > t})
        clone == [open |-> data[t].close, close |-> data[after].open, cloned |-> TRUE]
    IN  /\ request[r].at = "filling"
        /\ BeforeGap(data) # {}
        /\ Save(request[r].symbol, t + 1, clone)
        /\ request' = [request EXCEPT ![r] = [request[r] EXCEPT !.data = [data EXCEPT ![t + 1] = clone]]]
        /\ UNCHANGED <<now, mainVars, missing, pass, repaired>>

Records(data) ==
    LET times == InOrder(Held(data))
    IN  [i \in DOMAIN times |-> [time |-> times[i], open |-> data[times[i]].open,
                                 close |-> data[times[i]].close]]

\* getOhlcData: what a request with this data, n minutes a candle, is answered
Response(data, n) == makeOhlcResponse(Records(data), n, now)

\* A failing save ends the loop, and so does data without a gap.
RequestEnds(r) ==
    /\ request[r].at = "filling"
    /\ request' = [request EXCEPT ![r] = Answered]
    /\ UNCHANGED <<now, mainVars, row, missing, pass, repaired>>

-----------------------------------------------------------------------------
MainStep(s) == MainReads(s) \/ MainSaves(s) \/ MainFails(s) \/ MainPrices(s)

PassStep(p) ==
    \/ PassNext(p) \/ PassBinds(p) \/ PassSaves(p) \/ PassFails(p)
    \/ \E s \in Symbols : PassReads(p, s)

Next ==
    \/ Tick \/ WakeUp \/ Overrun
    \/ \E s \in Symbols : MainStep(s)
    \/ \E p \in Passes : EndMinute(p) \/ PassStep(p)
    \/ \E r \in Requests :
         \/ \E s \in Symbols : RequestReads(r, s)
         \/ RequestFills(r) \/ RequestEnds(r)

Spec == Init /\ [][Next]_vars

-----------------------------------------------------------------------------
(***************************************************************************)
(* Properties.                                                             *)
(***************************************************************************)
\* Consecutive candles join: whatever minutes the worker skipped and however
\* many requests filled the gap at once, a candle opens where the one before
\* it closed, unless a repair pass has written the first of the two or a later
\* candle: two requests may have read the candle after a gap, one before the
\* pass wrote it and one after, and each fills a part of the gap.
CandlesJoin ==
    \A s \in Symbols : \A t \in Minutes \ {LastMinute} :
        row[s][t] # NoCandle /\ row[s][t + 1] # NoCandle =>
            \/ row[s][t].close = row[s][t + 1].open
            \/ repaired[s] \cap (t..LastMinute) # {}

\* The price a round was settled with is what getPrice answers for its minute
\* ever after, first from the candle before and later from its own, unless a
\* repair pass has written the candle before.
SettledPriceStands ==
    \A s \in Symbols : \A t \in Minutes \ {0} :
        settled[s][t] # NoPrice =>
            \/ getPrice(s, t) = settled[s][t]
            \/ t - 1 \in repaired[s]

\* Requests whose data has no gap left and that are about to answer.
Answering == {r \in Requests : request[r].at = "filling" /\ BeforeGap(request[r].data) = {}}

\* The candles of a chart, and the current one added to them, join like those
\* they are made of, however stale the data of the request is by now, unless a
\* repair pass has written a candle of the symbol (getOhlcData).
ChartJoins ==
    \A r \in {q \in Answering : repaired[request[q].symbol] = {}}, n \in Resolutions :
        LET chart == Response(request[r].data, n)
        IN  \A k \in 1..(Len(chart) - 1) : chart[k].c = chart[k + 1].o

\* A chart has one candle for each interval that has candles and for the
\* current one, in order, from the first open to the last close in it, wherever
\* its data begins and ends (makeOhlcResponse).
ChartOfIntervals ==
    \A r \in Answering, n \in Resolutions :
        Response(request[r].data, n) = ChartOf(Records(request[r].data), n, now)

\* The log line of addMissingOhlcData: a candle is "Cloned ... because of
\* missing"; a candle the exchanges gave is never replaced by a clone.
CloneOnlyMissing ==
    [][\A s \in Symbols : \A t \in Minutes :
         row[s][t] # NoCandle /\ ~row[s][t].cloned => ~row'[s][t].cloned]_vars
=============================================================================

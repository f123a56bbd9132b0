------------------------------ MODULE TradeFeed ------------------------------
(***************************************************************************)
(* The websocket trade feed of one exchange (BinanceService,               *)
(* KrakenService, OKXService, ByBitService under                           *)
(* src/websocket-provider) and the gateway that reads its records          *)
(* (SocketGateway, src/socket/socket.gateway.ts).  Trades go through a     *)
(* queue; the first trade of a connection waits for the volume its minute  *)
(* had before, the first trade of a minute starts the next minute for all  *)
(* exchanges, and the connection may break at any time.                    *)
(*                                                                         *)
(* The four services are the same code but for what is defined by exchange *)
(* below.  An action is what runs between two awaits.  isProcessingMessage *)
(* is reset as soon as processMessageQueue meets its first await, so it is *)
(* false whenever a message comes, and is left out: several calls of       *)
(* processMessageQueue share the queue, all but one of them waiting.       *)
(*                                                                         *)
(* Abstracted: a volume is the sequence of the trades it sums; the trade   *)
(* count, kept beside it and only logged, is left out; a message of Kraken *)
(* with several trades is several messages, as none can come between.      *)
(***************************************************************************)
EXTENDS Naturals, Sequences, SequencesExt, FiniteSets

CONSTANTS
    Symbols,      \* MarketSymbol
    Exchanges,    \* the exchanges a behaviour may be about
    MinuteLength, \* MINUTE
    MaxTime,      \* bound: the clock stops there
    MaxTrades,    \* bound: trades made
    MaxCloses     \* bound: connections closed

ASSUME FeedAssumption ==
    /\ Exchanges \subseteq {"Binance", "Kraken", "OKX", "ByBit"}
    /\ MinuteLength \in Nat \ {0}
    /\ {MaxTime, MaxTrades, MaxCloses} \subseteq Nat
    /\ MaxTime >= MinuteLength

VARIABLES
    exchange,   \* whose feed this is
    now,        \* the time
    made,       \* the trades made at the exchange, as symbols and times
    wire,       \* trades sent and not delivered yet
    messageQueue,
    running,    \* a call of processMessageQueue is in its loop
    pending,    \* trades whose call awaits the historical volume
    syncedTime, \* the minute of the newest trade, shared by the exchanges
    rollOvers,  \* by symbol, minutes whose start awaits the candles
    record,     \* latestPriceRecord of the exchange
    connected,  \* trades are subscribed to; else a new socket is on its way
    closes,     \* connections closed, or attempts failed
    zeroPushed, \* a price of zero was among those last pushed
    mixed,      \* symbols whose volume holds a historical one (history)
    overtaken   \* symbols whose last call to wait was overtaken (history)

feed == <<messageQueue, running, pending, syncedTime, rollOvers, record, mixed, overtaken>>
vars == <<exchange, now, made, wire, feed, connected, closes, zeroPushed>>

NoTrade == 0
Trades == 1..Len(made)
MinuteOf(t) == t - (t % MinuteLength)
TimeOf(trade) == made[trade].time
SymbolOf(trade) == made[trade].symbol
Older(t, u) == u # NoTrade /\ TimeOf(u) > TimeOf(t)

NewRecord ==
    [counted |-> <<>>, synced |-> FALSE, lastTrade |-> NoTrade, hasBinanceError |-> FALSE]

-----------------------------------------------------------------------------
(* What a trade does to a record, by exchange. *)

Counted(r, t) == [r EXCEPT !.lastTrade = t, !.counted = Append(@, t)]

\* Mutant: a trade at the time of the last one is an error, too.
BinanceTradeStrict(r, t) ==
    IF r.lastTrade # NoTrade /\ TimeOf(r.lastTrade) >= TimeOf(t)
    THEN [r EXCEPT !.hasBinanceError = TRUE]
    ELSE [Counted(r, t) EXCEPT !.hasBinanceError = FALSE]

BinanceTrade(r, t) ==
    IF Older(t, r.lastTrade)
    THEN [r EXCEPT !.hasBinanceError = TRUE]
    ELSE [Counted(r, t) EXCEPT !.hasBinanceError = FALSE]

\* Mutant: no comparison, as for Kraken and OKX.
ByBitTradeAny(r, t) == Counted(r, t)

ByBitTrade(r, t) == IF Older(t, r.lastTrade) THEN r ELSE Counted(r, t)

Trade(r, t) ==
    CASE exchange = "Binance" -> BinanceTrade(r, t)
      [] exchange = "ByBit"   -> ByBitTrade(r, t)
      [] OTHER                -> Counted(r, t)

-----------------------------------------------------------------------------
(* processMessageQueue *)

params == Head(messageQueue)
MayRun == running /\ messageQueue # <<>>

\* Mutant: the time of the trade is taken for its minute.
RolledToTime(t) ==
    IF syncedTime < TimeOf(t)
    THEN /\ syncedTime' = TimeOf(t)
         /\ rollOvers' = [s \in Symbols |-> rollOvers[s] \cup {TimeOf(t)}]
    ELSE UNCHANGED <<syncedTime, rollOvers>>

\* the records of all symbols start the minute of this trade, once their
\* candles have been read
Rolled(t) ==
    IF syncedTime < MinuteOf(TimeOf(t))
    THEN /\ syncedTime' = MinuteOf(TimeOf(t))
         /\ rollOvers' = [s \in Symbols |-> rollOvers[s] \cup {MinuteOf(TimeOf(t))}]
    ELSE UNCHANGED <<syncedTime, rollOvers>>

\* Mutant: trades of an older minute are not told apart.
NeverOld(t) == FALSE

IsOld(t) == syncedTime > MinuteOf(TimeOf(t))

\* A trade of an older minute ends the call; Kraken's goes on.
SkipOld ==
    /\ MayRun
    /\ IsOld(params)
    /\ messageQueue' = Tail(messageQueue)
    /\ running' = (exchange = "Kraken")
    /\ UNCHANGED <<exchange, now, made, wire, pending, syncedTime, rollOvers, record, connected,
                   closes, zeroPushed, mixed, overtaken>>

\* The first trade of a symbol on a connection empties the queue and waits.
AskHistory ==
    /\ MayRun
    /\ ~IsOld(params)
    /\ ~record[SymbolOf(params)].synced
    /\ Rolled(params)
    /\ messageQueue' = <<>>
    /\ record' = [record EXCEPT ![SymbolOf(params)].synced = TRUE]
    /\ pending' = pending \cup {params}
    /\ running' = FALSE
    /\ UNCHANGED <<exchange, now, made, wire, connected, closes, zeroPushed, mixed, overtaken>>

CountTrade ==
    /\ MayRun
    /\ ~IsOld(params)
    /\ LET s == SymbolOf(params)
       IN  /\ record[s].synced
           /\ record' = [record EXCEPT ![s] = Trade(@, params)]
           /\ overtaken' = IF record'[s].lastTrade = params THEN overtaken \ {s} ELSE overtaken
    /\ Rolled(params)
    /\ messageQueue' = Tail(messageQueue)
    /\ UNCHANGED <<exchange, now, made, wire, running, pending, connected, closes, zeroPushed,
                   mixed>>

QueueEmpty ==
    /\ running
    /\ messageQueue = <<>>
    /\ running' = FALSE
    /\ UNCHANGED <<exchange, now, made, wire, messageQueue, pending, syncedTime, rollOvers,
                   record, connected, closes, zeroPushed, mixed, overtaken>>

\* what getHistoricalTrades may answer: nothing, or the minute's trades so far
Histories(t) ==
    {<<>>, SetToSeq({u \in Trades : /\ SymbolOf(u) = SymbolOf(t)
                                   /\ MinuteOf(TimeOf(u)) = MinuteOf(TimeOf(t))})}

WithHistory(r, history) == [r EXCEPT !.counted = @ \o history]

\* The call that waited adds the answer and then its own trade to the record
\* as it is now, be it another connection's or another minute's, and goes on.
HistoryArrives(t) ==
    /\ ~running
    /\ t \in pending
    /\ LET s == SymbolOf(t)
       IN  /\ \E history \in Histories(t) :
                record' = [record EXCEPT ![s] = Trade(WithHistory(@, history), t)]
           /\ mixed' = mixed \cup {s}
           /\ overtaken' = IF Older(t, record[s].lastTrade) THEN overtaken \cup {s}
                           ELSE overtaken \ {s}
    /\ pending' = pending \ {t}
    /\ running' = TRUE
    /\ UNCHANGED <<exchange, now, made, wire, messageQueue, syncedTime, rollOvers, connected,
                   closes, zeroPushed>>

\* The candles of the last hour have been read; their volume is not modelled.
StartMinute(s, m) ==
    /\ ~running
    /\ m \in rollOvers[s]
    /\ rollOvers' = [rollOvers EXCEPT ![s] = @ \ {m}]
    /\ mixed' = mixed \ {s}
    /\ record' = [record EXCEPT ![s].counted = <<>>]
    /\ UNCHANGED <<exchange, now, made, wire, messageQueue, running, pending, syncedTime,
                   connected, closes, zeroPushed, overtaken>>

-----------------------------------------------------------------------------
(* Messages and connections. *)

\* Mutant: processMessageQueue is awaited, and isProcessingMessage with it.
HandleTradeEventAwaiting(n) ==
    /\ ~running
    /\ messageQueue' = messageQueue \o SubSeq(wire, 1, n)
    /\ wire' = SubSeq(wire, n + 1, Len(wire))
    /\ running' = (pending = {})
    /\ UNCHANGED <<exchange, now, made, pending, syncedTime, rollOvers, record, connected, closes,
                   zeroPushed, mixed, overtaken>>

HandleTradeEvent(n) ==
    /\ ~running
    /\ messageQueue' = messageQueue \o SubSeq(wire, 1, n)
    /\ wire' = SubSeq(wire, n + 1, Len(wire))
    /\ running' = TRUE
    /\ UNCHANGED <<exchange, now, made, pending, syncedTime, rollOvers, record, connected, closes,
                   zeroPushed, mixed, overtaken>>

\* a message of OKX brings any number of trades of a symbol
Message(n) ==
    /\ n = 1 \/ exchange = "OKX"
    /\ \A i \in 1..n : SymbolOf(wire[i]) = SymbolOf(wire[1])
    /\ HandleTradeEvent(n)

NewRecords == [s \in Symbols |-> NewRecord]

\* createSocket, until the exchange is subscribed to: by the path, or by the
\* message sent on opening.
Connect ==
    /\ ~running
    /\ ~connected
    /\ connected' = TRUE
    /\ UNCHANGED <<exchange, now, made, wire, feed, closes, zeroPushed>>

\* The socket closes, or could not be opened: new records, and a new socket
\* after a while.  The calls that wait are not told.
Disconnected ==
    /\ ~running
    /\ closes < MaxCloses
    /\ closes' = closes + 1
    /\ connected' = FALSE
    /\ wire' = <<>>
    /\ record' = NewRecords
    /\ mixed' = {}
    /\ overtaken' = {}
    /\ UNCHANGED <<exchange, now, made, messageQueue, running, pending, syncedTime, rollOvers,
                   zeroPushed>>

-----------------------------------------------------------------------------
(* The gateway. *)

\* calculateLatestPrice: a symbol has a price if some exchange has a last trade
\* and traded in the last hour (zero: none has).  A symbol without, or with one
\* far from the chain's, holds everything back.
CalculateLatestPrice ==
    /\ ~running
    /\ \E zero, deviating \in SUBSET Symbols :
         /\ \/ zero \cup deviating = {}
            \/ \E s \in Symbols : record[s].hasBinanceError
         /\ zeroPushed' = (zero # {})
    /\ UNCHANGED <<exchange, now, made, wire, feed, connected, closes>>

-----------------------------------------------------------------------------
(* The world. *)

\* The exchange sends its trades in order, to who is connected.
TradeMade(s) ==
    /\ ~running
    /\ Len(made) < MaxTrades
    /\ made' = Append(made, [symbol |-> s, time |-> now])
    /\ wire' = IF connected THEN Append(wire, Len(made')) ELSE wire
    /\ UNCHANGED <<exchange, now, feed, connected, closes, zeroPushed>>

\* The feed of another exchange has a trade of a new minute first.
OtherExchange ==
    /\ ~running
    /\ syncedTime < MinuteOf(now)
    /\ syncedTime' = MinuteOf(now)
    /\ rollOvers' = [s \in Symbols |-> rollOvers[s] \cup {MinuteOf(now)}]
    /\ UNCHANGED <<exchange, now, made, wire, messageQueue, running, pending, record, connected,
                   closes, zeroPushed, mixed, overtaken>>

Tick ==
    /\ ~running
    /\ now < MaxTime
    /\ now' = now + 1
    /\ UNCHANGED <<exchange, made, wire, feed, connected, closes, zeroPushed>>

-----------------------------------------------------------------------------

\* syncedTime begins as the time of the start, not as its minute
Init ==
    /\ exchange \in Exchanges
    /\ now \in 0..(MinuteLength - 1)
    /\ made = <<>>
    /\ wire = <<>>
    /\ messageQueue = <<>>
    /\ running = FALSE
    /\ pending = {}
    /\ syncedTime = now
    /\ rollOvers = [s \in Symbols |-> {}]
    /\ record = NewRecords
    /\ connected = FALSE
    /\ closes = 0
    /\ zeroPushed = FALSE
    /\ mixed = {}
    /\ overtaken = {}

Next ==
    \/ SkipOld
    \/ AskHistory
    \/ CountTrade
    \/ QueueEmpty
    \/ \E t \in pending : HistoryArrives(t)
    \/ \E s \in Symbols : \E m \in rollOvers[s] : StartMinute(s, m)
    \/ \E n \in 1..Len(wire) : Message(n)
    \/ Connect
    \/ Disconnected
    \/ CalculateLatestPrice
    \/ \E s \in Symbols : TradeMade(s)
    \/ OtherExchange
    \/ Tick

Spec == Init /\ [][Next]_vars

-----------------------------------------------------------------------------
(* Properties *)

Minutes == {m \in 0..MaxTime : m % MinuteLength = 0}
Records ==
    [counted : Seq(Trades), synced : BOOLEAN, lastTrade : Trades \cup {NoTrade},
     hasBinanceError : BOOLEAN]

\* The records, the queue and the calls keep their shapes; what waits is a
\* trade that was made or the start of a whole minute.
TypeOK ==
    /\ exchange \in Exchanges
    /\ now \in 0..MaxTime
    /\ made \in Seq([symbol : Symbols, time : 0..now])
    /\ wire \in Seq(Trades)
    /\ messageQueue \in Seq(Trades)
    /\ running \in BOOLEAN
    /\ pending \subseteq Trades
    /\ syncedTime \in 0..now
    /\ rollOvers \in [Symbols -> SUBSET Minutes]
    /\ record \in [Symbols -> Records]
    /\ connected \in BOOLEAN
    /\ closes \in Nat
    /\ zeroPushed \in BOOLEAN
    /\ mixed \subseteq Symbols
    /\ overtaken \subseteq Symbols

\* The volume of a minute is of that minute: once its start has been carried
\* out, and unless a historical volume came since, it sums trades of the symbol
\* in the minute everybody is in, each once, whatever order messages, minutes,
\* reconnections and answers come in (processMessageQueue of all feeds).
VolumeOfMinute ==
    \A s \in Symbols : rollOvers[s] = {} /\ s \notin mixed =>
        /\ IsInjective(record[s].counted)
        /\ \A t \in ToSet(record[s].counted) :
             SymbolOf(t) = s /\ MinuteOf(TimeOf(t)) = syncedTime

\* Between two events no trade waits in the queue of Binance, Kraken or ByBit: a
\* historical volume that is long in coming holds up no other trade
\* (handleTradeEvent, which does not await the call).
QueueDrained == ~running /\ exchange # "OKX" => messageQueue = <<>>

NotOlder(t, u) == t # NoTrade => u # NoTrade /\ TimeOf(t) <= TimeOf(u)

\* On one connection the last trade of Binance and ByBit never gives way to an
\* older one, though a call that waited may come after calls that did not
\* (processMessageQueue of BinanceService and ByBitService).
LastTradeAdvances ==
    [][closes' = closes /\ exchange \in {"Binance", "ByBit"} =>
         \A s \in Symbols : NotOlder(record[s].lastTrade, record'[s].lastTrade)]_vars

\* A price of zero is pushed only after a call of Binance's feed that waited
\* was overtaken, and before the next trade of that symbol: nothing else sets
\* hasBinanceError, and every trade clears it (calculateLatestPrice with
\* processMessageQueue of BinanceService).
ZeroOnlyWhenOvertaken ==
    [][zeroPushed' /\ ~zeroPushed => exchange = "Binance" /\ overtaken # {}]_vars

=============================================================================

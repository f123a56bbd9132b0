------------------------------ MODULE PriceFeed ------------------------------
(***************************************************************************)
(* The on-chain price of a symbol (OhlcService.getOnChainPrices and        *)
(* getOnChainSymbolPrice, src/ohlc/ohlc.service.ts): a request every 10    *)
(* seconds, which asks an endpoint of the symbol's chain, and asks on if   *)
(* that fails.  What it asks next is chainProviders[count].                *)
(***************************************************************************)
EXTENDS Naturals

CONSTANTS
    RpcCount,   \* endpoints of the chain
    Requests,   \* bound: requests under way at a time
    MaxRetries  \* bound: failures between two requests, which are 10 s apart

VARIABLES
    down,                 \* the endpoints that do not work
    request,              \* the calls of getOnChainSymbolPrice
    priceFeedRetryCounts  \* failures since the last request was made

vars == <<down, request, priceFeedRetryCounts>>

chainProviders == 0..(RpcCount - 1)

\* const count = 0
count == 0

Init ==
    /\ down \in SUBSET chainProviders
    /\ request = [q \in Requests |-> "off"]
    /\ priceFeedRetryCounts = 0

\* The timer of onModuleInit.  With all of Requests under way a further one is
\* left out.
getOnChainPrices ==
    /\ \/ \E q \in Requests : request[q] = "off" /\ request' = [request EXCEPT ![q] = "asking"]
       \/ /\ \A q \in Requests : request[q] = "asking"
          /\ UNCHANGED request
    /\ priceFeedRetryCounts' = 0
    /\ UNCHANGED down

\* The endpoint has the price.
Answers(q) ==
    /\ request[q] = "asking"
    /\ count < RpcCount
    /\ count \notin down
    /\ request' = [request EXCEPT ![q] = "off"]
    /\ priceFeedRetryCounts' = 0
    /\ UNCHANGED down

\* It throws, or answers without a price: the loop goes on.
Fails(q) ==
    /\ request[q] = "asking"
    /\ count < RpcCount
    /\ priceFeedRetryCounts < MaxRetries
    /\ priceFeedRetryCounts' = priceFeedRetryCounts + 1
    /\ UNCHANGED <<down, request>>

\* Every endpoint has been asked.
GivesUp(q) ==
    /\ request[q] = "asking"
    /\ count >= RpcCount
    /\ request' = [request EXCEPT ![q] = "off"]
    /\ UNCHANGED <<down, priceFeedRetryCounts>>

RequestStep(q) == Answers(q) \/ Fails(q) \/ GivesUp(q)

Next == getOnChainPrices \/ \E q \in Requests : RequestStep(q)

\* The timer fires, each call is answered or fails, and an endpoint that works
\* does not fail for ever.
Fairness ==
    /\ WF_vars(getOnChainPrices)
    /\ \A q \in Requests : SF_vars(RequestStep(q)) /\ WF_vars(Answers(q)) /\ WF_vars(GivesUp(q))

FairSpec == Init /\ [][Next]_vars /\ Fairness

-----------------------------------------------------------------------------
\* A price request ends, even if an endpoint fails: the loop has a bound and a
\* warning after it (getOnChainSymbolPrice).
RequestEnds == \A q \in Requests : request[q] = "asking" ~> request[q] = "off"

=============================================================================

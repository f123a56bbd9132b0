--------------------------- MODULE PriceWriting ---------------------------
(***************************************************************************)
(* What writing one minute's price promises, whatever the clock, the RPC   *)
(* endpoints and the other tasks do: a market's round is submitted only    *)
(* when fewer than two exchanges are missing, through each endpoint at     *)
(* most once and in the configured order, never after its job has ended;   *)
(* and only what was submitted can be mined, possibly after that end.      *)
(***************************************************************************)
EXTENDS Naturals, FiniteSets

CONSTANTS Markets, DataProviders, Rpcs

VARIABLES
    missing, \* the exchanges missing in this minute
    closed,  \* markets whose job has ended
    tried,   \* endpoints a market's round was submitted through
    mined    \* those whose submission was mined

vars == <<missing, closed, tried, mined>>

Init ==
    /\ missing \in SUBSET DataProviders
    /\ closed = {}
    /\ tried = [m \in Markets |-> {}]
    /\ mined = [m \in Markets |-> {}]

Submit(m, r) ==
    /\ m \notin closed
    /\ Cardinality(missing) < 2
    /\ \A x \in tried[m] : x < r
    /\ tried' = [tried EXCEPT ![m] = tried[m] \cup {r}]
    /\ UNCHANGED <<missing, closed, mined>>

Land(m, r) ==
    /\ r \in tried[m] \ mined[m]
    /\ mined' = [mined EXCEPT ![m] = mined[m] \cup {r}]
    /\ closed' \in {closed, closed \cup {m}}
    /\ UNCHANGED <<missing, tried>>

Close(m) ==
    /\ closed' = closed \cup {m}
    /\ UNCHANGED <<missing, tried, mined>>

Next ==
    \E m \in Markets :
        \/ Close(m)
        \/ \E r \in Rpcs : Submit(m, r) \/ Land(m, r)

Spec == Init /\ [][Next]_vars
=============================================================================

------------------------ MODULE CandleTimelineProofs ------------------------
(***************************************************************************)
(* Proofs that candles join, that the price of a settled round stands and  *)
(* that a chart is what it should be, for any symbols, minutes, repair     *)
(* passes, chart requests and lengths of intervals.                        *)
(*                                                                         *)
(* The argument: the worker's loop writes only the minute before its own,  *)
(* the repair passes and the requests only minutes before that one         *)
(* (Reached), so that the loop's candle is the last of its symbol and what *)
(* it has read of the one before still holds (Waiting).  Where no pass has *)
(* written, the candles a request has read are those of the table          *)
(* (Current), and a candle another request has put into one of its gaps is *)
(* the one it would put there itself (Filled): whoever fills a gap, it is  *)
(* filled alike.  So the candle before a settled minute, once there, keeps *)
(* its close in the table and in all that read it (Settled).               *)
(*                                                                         *)
(* A chart is made of the candles of consecutive minutes (NoGapLeft); each *)
(* candle of the answer covers the data from one cut to the next, which is *)
(* all of one interval (Cuts), and the times ascend, so that it is the     *)
(* answer there should be (ResponseIs).                                    *)
(***************************************************************************)
EXTENDS CandleTimeline, FiniteSetTheorems, WellFoundedInduction, TLAPS

\* No pass has written the candle of minute t or a later one.
Untouched(s, t) == \A x \in repaired[s] : x < t

\* Candles t and a of the data of a request, with a gap between them.
Gap(data, t, a) ==
    /\ t < a /\ data[t] # NoCandle /\ data[a] # NoCandle
    /\ \A u \in Minutes : t < u /\ u < a => data[u] = NoCandle

\* Where the repair passes and the requests have got to.
PassShaped(p) ==
    /\ pass[p].at \in {"bind", "read", "save"} => pass[p].times # {}
    /\ pass[p].at = "save" => pass[p].symbol \in Symbols
RequestShaped(r) == request[r].at = "filling" => request[r].symbol \in Symbols
Shapes ==
    /\ \A p \in Passes : PassShaped(p)
    /\ \A r \in Requests : RequestShaped(r)

\* How far the candles go, and what is cloned or repaired of them.
Reached ==
    /\ 1 <= start /\ start <= now
    /\ \A s \in Symbols, t \in Minutes : row[s][t] # NoCandle =>
         /\ t < start
         /\ t + 1 = start => main[s] \notin {"read", "save"} /\ ~row[s][t].cloned
    /\ \A p \in Passes : \A t \in pass[p].times : t + 1 < start

\* What a task is about to save joins the candle before it.
Waiting ==
    \A s \in Symbols : main[s] = "save" =>
        /\ seen[s].next = NoCandle
        /\ start = 1 => seen[s].prev = NoCandle
        /\ start > 1 /\ start - 2 \notin repaired[s] => seen[s].prev = row[s][start - 2]

\* What a request has read is there, and as it was: the loop's last candle if
\* it has been read, and all that no pass has written or led to.
CurrentFor(r) ==
    LET s == request[r].symbol
        data == request[r].data
    IN  \A t \in Minutes : data[t] # NoCandle =>
          /\ row[s][t] # NoCandle
          /\ t + 1 = start => data[t] = row[s][t]
          /\ Untouched(s, t) => data[t].close = row[s][t].close
          /\ t > 0 /\ Untouched(s, t - 1) => data[t].open = row[s][t].open
Current == \A r \in Requests : request[r].at = "filling" => CurrentFor(r)

\* What others have put into a gap of a request is what it would put there.
FilledFor(r) ==
    LET s == request[r].symbol
        data == request[r].data
    IN  \A t, a, u \in Minutes :
          Gap(data, t, a) /\ t < u /\ u < a /\ row[s][u] # NoCandle =>
            /\ Untouched(s, u) => row[s][u].close = data[a].open
            /\ Untouched(s, u - 1) =>
                 row[s][u].open = IF u = t + 1 THEN data[t].close ELSE data[a].open
Filled == \A r \in Requests : request[r].at = "filling" => FilledFor(r)

\* The candle before a settled minute has the price for its close, in the
\* table, in the requests and in the passes, and the minute's own opens there.
SettledInTable(s, t, price) ==
    /\ row[s][t - 1] # NoCandle /\ row[s][t - 1].close = price
    /\ row[s][t] # NoCandle => row[s][t].open = price
SettledInRequest(r, s, t, price) ==
    request[r].at = "filling" /\ request[r].symbol = s =>
      \A u \in Minutes : u >= t - 1 /\ request[r].data[u] # NoCandle =>
        /\ request[r].data[t - 1] # NoCandle
        /\ request[r].data[t - 1].close = price
SettledInPass(p, s, t, price) ==
    pass[p].at = "save" /\ pass[p].symbol = s /\ Repairing(p) = t =>
      pass[p].seen.prev # NoCandle /\ pass[p].seen.prev.close = price
SettledAt(s, t, price) ==
    /\ SettledInTable(s, t, price)
    /\ \A r \in Requests : SettledInRequest(r, s, t, price)
    /\ \A p \in Passes : SettledInPass(p, s, t, price)
Settled ==
    \A s \in Symbols : \A t \in Minutes \ {0} :
        settled[s][t] # NoPrice /\ t - 1 \notin repaired[s] =>
            SettledAt(s, t, settled[s][t])

IInv ==
    /\ TypeOK /\ Shapes /\ Reached /\ Waiting
    /\ Current /\ Filled /\ Settled /\ CandlesJoin

-----------------------------------------------------------------------------
(***************************************************************************)
(* Lemmas.                                                                 *)
(***************************************************************************)
\* Min of a set of numbers is in it and is the least.
LEMMA MinIn ==
    ASSUME NEW S \in SUBSET Nat, S # {}
    PROVE  Min(S) \in S /\ \A y \in S : Min(S) <= y
<1> DEFINE less == {pair \in Nat \X Nat : pair[1] < pair[2]}
<1>1. IsWellFoundedOn(less, Nat)
  <2>1. less = OpToRel(<, Nat)
    BY DEF OpToRel
  <2> QED BY <2>1, NatLessThanWellFounded
<1>2. \E x \in S : \A y \in S : ~(<<y, x>> \in less)
  <2> HIDE DEF less
  <2> QED BY <1>1, WFMin
<1>3. PICK x \in S : \A y \in S : ~(<<y, x>> \in less)
  BY <1>2
<1>4. ASSUME NEW y \in S
      PROVE  x <= y
  <2>1. y < x => <<y, x>> \in less
    OBVIOUS
  <2> QED BY <1>3, <2>1
<1> QED BY <1>4 DEF Min

\* What a request saves: a clone into the first minute of a gap.
LEMMA Filling ==
    ASSUME TypeOK, Shapes, NEW r \in Requests, RequestFills(r)
    PROVE  LET s == request[r].symbol
               data == request[r].data
           IN  \E t, a \in Minutes :
                 LET clone == [open |-> data[t].close, close |-> data[a].open, cloned |-> TRUE]
                 IN  /\ s \in Symbols /\ clone \in Candle
                     /\ t + 1 \in Minutes /\ t + 1 < a
                     /\ Gap(data, t, a)
                     /\ row' = [row EXCEPT ![s] = [row[s] EXCEPT ![t + 1] = clone]]
                     /\ request' = [request EXCEPT ![r] = [request[r] EXCEPT
                                      !.data = [data EXCEPT ![t + 1] = clone]]]
<1> DEFINE s == request[r].symbol
           data == request[r].data
           t == Min(BeforeGap(data))
           later == {u \in Held(data) : u > t}
           a == Min(later)
<1>1. s \in Symbols /\ data \in [Minutes -> Row]
  BY DEF RequestFills, Shapes, RequestShaped, TypeOK
<1>2. Held(data) \subseteq Nat /\ BeforeGap(data) \subseteq Nat /\ BeforeGap(data) # {}
  <2>1. BeforeGap(data) # {}
    BY DEF RequestFills
  <2> QED BY <2>1, TimelineAssumption DEF Held, BeforeGap, Minutes
<1>3. t \in BeforeGap(data)
  BY <1>2, MinIn
<1>4. later # {} /\ later \subseteq Nat
  BY <1>2, <1>3 DEF BeforeGap
<1>5. a \in later /\ \A y \in later : a <= y
  <2> HIDE DEF later
  <2> QED BY <1>4, MinIn
<1>6. /\ t \in Minutes /\ a \in Minutes /\ t < a
      /\ data[t] # NoCandle /\ data[a] # NoCandle /\ t + 1 \notin Held(data)
      /\ \A u \in Minutes : t < u /\ u < a => data[u] = NoCandle
  <2> HIDE DEF t, a
  <2>1. t \in Held(data) /\ a \in Held(data) /\ t < a /\ t + 1 \notin Held(data)
    BY <1>3, <1>5 DEF BeforeGap, Held, Minutes
  <2>2. ASSUME NEW u \in Minutes, t < u, u < a, data[u] # NoCandle
        PROVE  FALSE
    <3>1. u \in later
      BY <2>2 DEF Held
    <3> QED BY <3>1, <1>5, <2>2, <2>1 DEF Held, Minutes
  <2> QED BY <2>1, <2>2 DEF Held
<1>7. t + 1 \in Minutes /\ t + 1 < a
  <2> HIDE DEF t, a, s, data
  <2> QED BY <1>6, TimelineAssumption DEF Minutes, Held
<1>8. data[t] \in Candle /\ data[a] \in Candle
  <2> HIDE DEF t, a, s, data
  <2> QED BY <1>1, <1>6 DEF Row
<1>9. [open |-> data[t].close, close |-> data[a].open, cloned |-> TRUE] \in Candle
  <2> HIDE DEF t, a, s, data
  <2> QED BY <1>8 DEF Candle
<1> HIDE DEF later
<1>10. Gap(data, t, a)
  <2> HIDE DEF t, a, s, data
  <2> QED BY <1>6 DEF Gap
<1>11. /\ row' = [row EXCEPT ![s] = [row[s] EXCEPT
                     ![t + 1] = [open |-> data[t].close, close |-> data[a].open, cloned |-> TRUE]]]
       /\ request' = [request EXCEPT ![r] = [request[r] EXCEPT
                        !.data = [data EXCEPT ![t + 1] =
                          [open |-> data[t].close, close |-> data[a].open, cloned |-> TRUE]]]]
  BY DEF RequestFills, Save, later
<1> HIDE DEF t, a
<1> QED BY <1>1, <1>6, <1>7, <1>9, <1>10, <1>11

\* A candle of saveDefaultOhlcRecord is one, and joins the candle before it.
LEMMA Joining ==
    ASSUME NEW around \in Neighbours, NEW opening \in Prices, NEW closing \in Prices,
           NEW volumeless \in BOOLEAN, NEW joins \in BOOLEAN
    PROVE  LET c == DefaultCandle(around, opening, closing, volumeless, joins)
           IN  /\ c \in Candle /\ ~c.cloned
               /\ around.prev # NoCandle => c.open = around.prev.close
<1>1. /\ around.prev # NoCandle => around.prev \in Candle
      /\ around.next # NoCandle => around.next \in Candle
  BY DEF Neighbours, Row
<1>2. /\ around.prev # NoCandle => around.prev.close \in Prices
      /\ around.next # NoCandle => around.next.open \in Prices
  BY <1>1 DEF Candle
<1> QED BY <1>2 DEF DefaultCandle, Candle

\* What the loop's task saves.
LEMMA Saving ==
    ASSUME TypeOK, Reached, NEW s \in Symbols, MainSaves(s)
    PROVE  \E c \in Candle :
             /\ ~c.cloned
             /\ seen[s].prev # NoCandle => c.open = seen[s].prev.close
             /\ start - 1 \in Minutes
             /\ row' = [row EXCEPT ![s] = [row[s] EXCEPT ![start - 1] = c]]
<1>1. PICK volumeless \in BOOLEAN :
        Save(s, start - 1, DefaultCandle(seen[s], <<"open", start - 1>>, <<"avg", start - 1>>,
                                         volumeless, TRUE))
  BY DEF MainSaves
<1>2. start - 1 \in Minutes
  BY TimelineAssumption DEF TypeOK, Reached, Minutes
<1>3. <<"open", start - 1>> \in Prices /\ <<"avg", start - 1>> \in Prices
  BY <1>2 DEF Prices
<1>4. seen[s] \in Neighbours
  BY DEF TypeOK
<1> DEFINE c == DefaultCandle(seen[s], <<"open", start - 1>>, <<"avg", start - 1>>,
                              volumeless, TRUE)
<1>5. c \in Candle /\ ~c.cloned /\ (seen[s].prev # NoCandle => c.open = seen[s].prev.close)
  BY <1>3, <1>4, Joining
<1>6. row' = [row EXCEPT ![s] = [row[s] EXCEPT ![start - 1] = c]]
  BY <1>1 DEF Save
<1> HIDE DEF c
<1> QED BY <1>2, <1>5, <1>6

\* The minute a pass is repairing.
LEMMA AtWork ==
    ASSUME TypeOK, Shapes, NEW p \in Passes, pass[p].at \in {"bind", "read", "save"}
    PROVE  Repairing(p) \in pass[p].times /\ Repairing(p) \in Minutes
<1>1. pass[p].times # {} /\ pass[p].times \in SUBSET Minutes
  BY DEF Shapes, PassShaped, TypeOK
<1>2. pass[p].times \in SUBSET Nat
  BY <1>1 DEF Minutes
<1> QED BY <1>1, <1>2, MinIn DEF Repairing

\* What a repair pass saves.
LEMMA Mending ==
    ASSUME TypeOK, Shapes, Reached, NEW p \in Passes, PassSaves(p)
    PROVE  LET s == pass[p].symbol
               t == Repairing(p)
           IN  /\ s \in Symbols /\ t \in Minutes /\ t + 1 < start
               /\ repaired' = [repaired EXCEPT ![s] = repaired[s] \cup {t}]
               /\ \E c \in Candle :
                    /\ pass[p].seen.prev # NoCandle => c.open = pass[p].seen.prev.close
                    /\ row' = [row EXCEPT ![s] = [row[s] EXCEPT ![t] = c]]
<1> DEFINE s == pass[p].symbol
           t == Repairing(p)
           price == <<"again", pass[p].source>>
<1>1. s \in Symbols /\ t \in Minutes /\ t + 1 < start
  BY AtWork DEF PassSaves, Shapes, PassShaped, Reached
<1>2. PICK volumeless \in BOOLEAN :
        Save(s, t, DefaultCandle(pass[p].seen, price, price, volumeless, pass[p].times = {t}))
  BY DEF PassSaves
<1>3. pass[p].seen \in Neighbours /\ price \in Prices
  BY DEF TypeOK, Prices
<1> DEFINE joins == pass[p].times = {t}
           c == DefaultCandle(pass[p].seen, price, price, volumeless, joins)
<1>4. joins \in BOOLEAN
  OBVIOUS
<1>5. c \in Candle /\ (pass[p].seen.prev # NoCandle => c.open = pass[p].seen.prev.close)
  <2> HIDE DEF joins, price
  <2> QED BY <1>3, <1>4, Joining
<1>6. row' = [row EXCEPT ![s] = [row[s] EXCEPT ![t] = c]]
  BY <1>2 DEF Save
<1>7. repaired' = [repaired EXCEPT ![s] = repaired[s] \cup {t}]
  BY DEF PassSaves
<1> HIDE DEF c
<1> QED BY <1>1, <1>5, <1>6, <1>7

-----------------------------------------------------------------------------
(***************************************************************************)
(* Types and shapes.                                                       *)
(***************************************************************************)
LEMMA Starts == Init => IInv
<1> SUFFICES ASSUME Init PROVE IInv
  OBVIOUS
<1> USE DEF Init
<1>1. 0 \in Minutes /\ 1 \in Minutes /\ Minutes \subseteq Nat
  BY TimelineAssumption DEF Minutes
<1>2. NoNeighbours \in Neighbours
  BY DEF NoNeighbours, Neighbours, Row
<1>3. TypeOK
  <2>1. pass \in [Passes -> [at : {"off", "next", "bind", "read", "save"}, end : Minutes,
                             times : SUBSET Minutes, todo : SUBSET Symbols,
                             symbol : Symbols \cup {NoMinute},
                             source : Minutes \cup {NoMinute}, seen : Neighbours]]
    BY <1>1, <1>2 DEF IdlePass
  <2>2. request \in [Requests -> [at : {"off", "filling"}, symbol : Symbols \cup {NoMinute},
                                  data : [Minutes -> Row]]]
    BY DEF Answered, Row
  <2> QED BY <1>1, <1>2, <2>1, <2>2 DEF TypeOK, Row
<1>4. Shapes /\ Waiting /\ Current /\ Filled
  BY DEF Shapes, PassShaped, RequestShaped, Waiting, Current, Filled, IdlePass, Answered
<1>5. Reached
  BY <1>1 DEF Reached, IdlePass
<1>6. Settled /\ CandlesJoin
  BY <1>1 DEF Settled, CandlesJoin
<1> QED BY <1>3, <1>4, <1>5, <1>6 DEF IInv

\* What getPrice answers is a price, if any.
LEMMA PriceTyped ==
    ASSUME TypeOK, NEW s \in Symbols, NEW t \in Minutes
    PROVE  getPrice(s, t) \in Prices \cup {NoPrice}
<1>1. row[s][t] \in Row /\ (t > 0 => row[s][t - 1] \in Row)
  BY TimelineAssumption DEF TypeOK, Minutes
<1>2. /\ row[s][t] # NoCandle => row[s][t].open \in Prices
      /\ t > 0 /\ row[s][t - 1] # NoCandle => row[s][t - 1].close \in Prices
  BY <1>1 DEF Row, Candle
<1> QED BY <1>2 DEF getPrice

\* The neighbours read are neighbours.
LEMMA AroundTyped ==
    ASSUME TypeOK, NEW s \in Symbols, NEW t \in Minutes
    PROVE  Around(s, t) \in Neighbours
<1>1. (t # 0 => row[s][t - 1] \in Row) /\ (t # LastMinute => row[s][t + 1] \in Row)
  BY TimelineAssumption DEF TypeOK, Minutes
<1> QED BY <1>1 DEF Around, Neighbours, Row

\* A candle saved is in the table.
LEMMA SaveTyped ==
    ASSUME TypeOK, NEW s \in Symbols, NEW t \in Minutes, NEW c \in Candle,
           row' = [row EXCEPT ![s] = [row[s] EXCEPT ![t] = c]]
    PROVE  row' \in [Symbols -> [Minutes -> Row]]
BY DEF TypeOK, Row

LEMMA Types ==
    ASSUME TypeOK, Shapes, Reached, [Next]_vars
    PROVE  TypeOK'
<1> USE DEF TypeOK
<1>0. Minutes \subseteq Nat /\ (now < LastMinute => now + 1 \in Minutes)
  BY TimelineAssumption DEF Minutes
<1>1. CASE UNCHANGED vars
  BY <1>1 DEF vars, mainVars
<1>2. CASE Tick
  BY <1>0, <1>2 DEF Tick, mainVars
<1>3. CASE StartMinute /\ UNCHANGED pass
  BY <1>3 DEF StartMinute
<1>4. ASSUME NEW s \in Symbols, MainReads(s)
      PROVE  TypeOK'
  <2>1. start - 1 \in Minutes
    BY TimelineAssumption DEF Reached, Minutes
  <2> QED BY <1>4, <2>1, AroundTyped DEF MainReads
<1>5. ASSUME NEW s \in Symbols, MainSaves(s)
      PROVE  TypeOK'
  <2>1. row' \in [Symbols -> [Minutes -> Row]]
    BY <1>5, Saving, SaveTyped
  <2> QED BY <1>5, <2>1 DEF MainSaves, NoNeighbours, Neighbours, Row
<1>6. ASSUME NEW s \in Symbols, MainFails(s)
      PROVE  TypeOK'
  BY <1>6 DEF MainFails, NoNeighbours, Neighbours, Row
<1>7. ASSUME NEW s \in Symbols, MainPrices(s)
      PROVE  TypeOK'
  BY <1>7, PriceTyped DEF MainPrices
<1> DEFINE PassState ==
             [at : {"off", "next", "bind", "read", "save"}, end : Minutes,
              times : SUBSET Minutes, todo : SUBSET Symbols,
              symbol : Symbols \cup {NoMinute},
              source : Minutes \cup {NoMinute}, seen : Neighbours]
<1>19. \A p \in Passes : pass[p] \in PassState
  OBVIOUS
<1>8. NoNeighbours \in Neighbours /\ IdlePass \in PassState
  BY TimelineAssumption DEF NoNeighbours, IdlePass, Neighbours, Row, Minutes
<1>9. ASSUME NEW p \in Passes, EndMinute(p)
      PROVE  TypeOK'
  <2>1. [IdlePass EXCEPT !.at = "next", !.end = now, !.times = Cloned] \in PassState
    BY <1>8 DEF Cloned
  <2>2. pass' \in [Passes -> PassState]
    BY <1>9, <2>1 DEF EndMinute
  <2> QED BY <1>9, <2>2 DEF EndMinute
<1>10. ASSUME NEW p \in Passes, PassNext(p)
       PROVE  TypeOK'
  <2>1. [pass[p] EXCEPT !.at = "bind"] \in PassState
    <3>1. pass[p] \in PassState
      BY <1>19
    <3> HIDE DEF TypeOK
    <3> QED BY <3>1
  <2>2. pass' \in [Passes -> PassState]
    BY <1>10, <1>8, <2>1 DEF PassNext
  <2> QED BY <1>10, <2>2 DEF PassNext, mainVars
<1>11. ASSUME NEW p \in Passes, PassBinds(p)
       PROVE  TypeOK'
  <2>1. [pass[p] EXCEPT !.at = "read", !.todo = Symbols] \in PassState
    <3>1. pass[p] \in PassState
      BY <1>19
    <3> HIDE DEF TypeOK
    <3> QED BY <3>1
  <2>2. pass' \in [Passes -> PassState]
    BY <1>11, <2>1 DEF PassBinds
  <2>3. Repairing(p) \in Minutes
    BY <1>11, AtWork DEF PassBinds
  <2>4. missing' \in [Symbols -> Minutes \cup {NoMinute}]
    BY <1>11, <2>3 DEF PassBinds
  <2> QED BY <1>11, <2>2, <2>4 DEF PassBinds, mainVars
<1>12. ASSUME NEW p \in Passes, NEW s \in Symbols, PassReads(p, s)
       PROVE  TypeOK'
  <2>1. Around(s, Repairing(p)) \in Neighbours
    BY <1>12, AtWork, AroundTyped DEF PassReads
  <2>2. [pass[p] EXCEPT !.at = "save", !.symbol = s, !.source = missing[s],
                        !.seen = Around(s, Repairing(p))] \in PassState
    <3>1. missing[s] \in Minutes \cup {NoMinute}
      OBVIOUS
    <3>2. pass[p] \in PassState
      BY <1>19
    <3> HIDE DEF TypeOK
    <3> QED BY <2>1, <3>1, <3>2
  <2>3. pass' \in [Passes -> PassState]
    BY <1>12, <2>2 DEF PassReads
  <2> QED BY <1>12, <2>3 DEF PassReads, mainVars
<1>13. ASSUME NEW p \in Passes, Advance(p)
       PROVE  pass' \in [Passes -> PassState]
  <2> DEFINE rest == pass[p].todo \ {pass[p].symbol}
             next == [pass[p] EXCEPT
                        !.at = IF rest = {} THEN "next" ELSE "read",
                        !.todo = rest,
                        !.times = IF rest = {} THEN pass[p].times \ {Repairing(p)}
                                  ELSE pass[p].times,
                        !.symbol = NoMinute,
                        !.source = NoMinute,
                        !.seen = NoNeighbours]
  <2>1. rest \in SUBSET Symbols
    OBVIOUS
  <2>2. pass' = [pass EXCEPT ![p] = next]
    BY <1>13 DEF Advance
  <2>3. next \in PassState
    <3> DEFINE at == IF rest = {} THEN "next" ELSE "read"
               times == IF rest = {} THEN pass[p].times \ {Repairing(p)} ELSE pass[p].times
    <3>1. pass[p] \in PassState
      BY <1>19
    <3>2. at \in {"next", "read"} /\ times \in SUBSET Minutes
      BY <3>1
    <3> HIDE DEF rest, at, times
    <3>3. [pass[p] EXCEPT !.at = at, !.todo = rest, !.times = times, !.symbol = NoMinute,
                          !.source = NoMinute, !.seen = NoNeighbours] \in PassState
      BY <1>8, <2>1, <3>1, <3>2
    <3> QED BY <3>3 DEF at, times
  <2> HIDE DEF next
  <2> QED BY <2>2, <2>3
<1>14. ASSUME NEW p \in Passes, PassSaves(p)
       PROVE  TypeOK'
  <2>1. row' \in [Symbols -> [Minutes -> Row]]
    BY <1>14, Mending, SaveTyped
  <2>2. repaired' \in [Symbols -> SUBSET Minutes]
    <3> DEFINE s == pass[p].symbol
               t == Repairing(p)
    <3>1. /\ s \in Symbols /\ t \in Minutes
          /\ repaired' = [repaired EXCEPT ![s] = repaired[s] \cup {t}]
      BY <1>14, Mending
    <3> HIDE DEF s, t
    <3> QED BY <3>1
  <2>3. pass' \in [Passes -> PassState]
    BY <1>14, <1>13 DEF PassSaves
  <2> QED BY <1>14, <2>1, <2>2, <2>3 DEF PassSaves, mainVars
<1>15. ASSUME NEW p \in Passes, PassFails(p)
       PROVE  TypeOK'
  <2>1. pass' \in [Passes -> PassState]
    BY <1>15, <1>13 DEF PassFails
  <2> QED BY <1>15, <2>1 DEF PassFails, mainVars
<1>16. ASSUME NEW r \in Requests, NEW s \in Symbols, RequestReads(r, s)
       PROVE  TypeOK'
  BY <1>16 DEF RequestReads, mainVars
<1>17. ASSUME NEW r \in Requests, RequestFills(r)
       PROVE  TypeOK'
  <2> DEFINE s == request[r].symbol
             data == request[r].data
  <2>1. PICK t \in Minutes, a \in Minutes :
          LET clone == [open |-> data[t].close, close |-> data[a].open, cloned |-> TRUE]
          IN  /\ s \in Symbols /\ clone \in Candle
              /\ t + 1 \in Minutes /\ t + 1 < a
              /\ Gap(data, t, a)
              /\ row' = [row EXCEPT ![s] = [row[s] EXCEPT ![t + 1] = clone]]
              /\ request' = [request EXCEPT ![r] = [request[r] EXCEPT
                               !.data = [data EXCEPT ![t + 1] = clone]]]
    BY <1>17, Filling
  <2>2. row' \in [Symbols -> [Minutes -> Row]]
    BY <2>1, SaveTyped
  <2>3. request' \in [Requests -> [at : {"off", "filling"}, symbol : Symbols \cup {NoMinute},
                                   data : [Minutes -> Row]]]
    <3> DEFINE clone == [open |-> data[t].close, close |-> data[a].open, cloned |-> TRUE]
               filled == [data EXCEPT ![t + 1] = clone]
    <3>1. filled \in [Minutes -> Row]
      <4>1. data \in [Minutes -> Row] /\ clone \in Row
        BY <2>1 DEF Row
      <4> HIDE DEF clone, data
      <4> QED BY <4>1
    <3>2. request[r] \in [at : {"off", "filling"}, symbol : Symbols \cup {NoMinute},
                          data : [Minutes -> Row]]
      OBVIOUS
    <3>3. request' = [request EXCEPT ![r] = [request[r] EXCEPT !.data = filled]]
      BY <2>1
    <3> HIDE DEF filled
    <3> QED BY <3>1, <3>2, <3>3
  <2> QED BY <1>17, <2>2, <2>3 DEF RequestFills, mainVars
<1>18. ASSUME NEW r \in Requests, RequestEnds(r)
       PROVE  TypeOK'
  <2>1. Answered \in [at : {"off", "filling"}, symbol : Symbols \cup {NoMinute},
                      data : [Minutes -> Row]]
    BY DEF Answered, Row
  <2> QED BY <1>18, <2>1 DEF RequestEnds, mainVars
<1> QED BY <1>1, <1>2, <1>3, <1>4, <1>5, <1>6, <1>7, <1>9, <1>10, <1>11, <1>12, <1>14, <1>15,
           <1>16, <1>17, <1>18 DEF Next, MainStep, PassStep, WakeUp, Overrun

-----------------------------------------------------------------------------
(***************************************************************************)
(* The three writers, minute by minute.                                    *)
(***************************************************************************)
\* Candle c is saved as that of minute t, and the others stay.
Saved(s, t, c) ==
    \A q \in Symbols, u \in Minutes :
        row'[q][u] = IF q = s /\ u = t THEN c ELSE row[q][u]

LEMMA Saves ==
    ASSUME TypeOK, NEW s \in Symbols, NEW t \in Minutes, NEW c,
           row' = [row EXCEPT ![s] = [row[s] EXCEPT ![t] = c]]
    PROVE  Saved(s, t, c)
BY DEF TypeOK, Saved

LEMMA Numbers == Minutes \subseteq Nat /\ LastMinute \in Nat
BY TimelineAssumption DEF Minutes

LEMMA MainSaved ==
    ASSUME TypeOK, Reached, NEW s \in Symbols, MainSaves(s)
    PROVE  \E c \in Candle :
             /\ c # NoCandle /\ ~c.cloned
             /\ seen[s].prev # NoCandle => c.open = seen[s].prev.close
             /\ start - 1 \in Minutes /\ row[s][start - 1] = NoCandle
             /\ Saved(s, start - 1, c)
             /\ main[s] = "save" /\ main' = [main EXCEPT ![s] = "price"]
             /\ seen' = [seen EXCEPT ![s] = NoNeighbours]
             /\ UNCHANGED <<now, start, settled, missing, pass, request, repaired>>
<1>1. PICK c \in Candle :
        /\ ~c.cloned
        /\ seen[s].prev # NoCandle => c.open = seen[s].prev.close
        /\ start - 1 \in Minutes
        /\ row' = [row EXCEPT ![s] = [row[s] EXCEPT ![start - 1] = c]]
  BY Saving
<1>2. Saved(s, start - 1, c)
  BY <1>1, Saves
<1>3. row[s][start - 1] = NoCandle
  BY <1>1, Numbers DEF Reached, MainSaves, TypeOK
<1> QED BY <1>1, <1>2, <1>3, CandleAssumption DEF MainSaves

LEMMA PassSaved ==
    ASSUME TypeOK, Shapes, Reached, NEW p \in Passes, PassSaves(p)
    PROVE  \E s \in Symbols, t \in Minutes, c \in Candle :
             /\ s = pass[p].symbol /\ t = Repairing(p) /\ t + 1 < start
             /\ c # NoCandle
             /\ pass[p].seen.prev # NoCandle => c.open = pass[p].seen.prev.close
             /\ Saved(s, t, c)
             /\ pass[p].at = "save" /\ Advance(p)
             /\ \A q \in Symbols : \A x :
                  x \in repaired'[q] <=> x \in repaired[q] \/ (q = s /\ x = t)
             /\ UNCHANGED <<now, start, main, seen, settled, missing, request>>
<1> DEFINE s == pass[p].symbol
           t == Repairing(p)
<1>1. s \in Symbols /\ t \in Minutes /\ t + 1 < start
      /\ repaired' = [repaired EXCEPT ![s] = repaired[s] \cup {t}]
  BY Mending
<1>2. PICK c \in Candle :
        /\ pass[p].seen.prev # NoCandle => c.open = pass[p].seen.prev.close
        /\ row' = [row EXCEPT ![s] = [row[s] EXCEPT ![t] = c]]
  BY Mending
<1>3. Saved(s, t, c)
  <2> HIDE DEF s, t
  <2> QED BY <1>1, <1>2, Saves
<1>4. \A q \in Symbols : \A x : x \in repaired'[q] <=> x \in repaired[q] \/ (q = s /\ x = t)
  <2> HIDE DEF s, t
  <2> QED BY <1>1 DEF TypeOK
<1>5. /\ pass[p].at = "save" /\ Advance(p)
      /\ UNCHANGED <<now, start, main, seen, settled, missing, request>>
  BY DEF PassSaves, mainVars
<1> HIDE DEF s, t
<1>6. s = pass[p].symbol /\ t = Repairing(p)
  BY DEF s, t
<1> QED BY <1>1, <1>2, <1>3, <1>4, <1>5, <1>6, CandleAssumption

\* A request r has filled a gap of its data from t to a with the candle c.
Fills(r, t, a, c) ==
    /\ t + 1 \in Minutes /\ t + 1 < a
    /\ Gap(request[r].data, t, a)
    /\ request[r].at = "filling" /\ request[r].symbol \in Symbols
    /\ c # NoCandle
    /\ c.open = request[r].data[t].close /\ c.close = request[r].data[a].open
    /\ Saved(request[r].symbol, t + 1, c)
    /\ \A q \in Requests :
         /\ request'[q].at = request[q].at /\ request'[q].symbol = request[q].symbol
         /\ \A u \in Minutes :
              request'[q].data[u] = IF q = r /\ u = t + 1 THEN c ELSE request[q].data[u]
    /\ UNCHANGED <<now, start, main, seen, settled, missing, pass, repaired>>

LEMMA Filler ==
    ASSUME TypeOK, Shapes, NEW r \in Requests, RequestFills(r)
    PROVE  \E t, a \in Minutes, c \in Candle : Fills(r, t, a, c)
<1> DEFINE s == request[r].symbol
           data == request[r].data
<1>1. PICK t, a \in Minutes :
        LET clone == [open |-> data[t].close, close |-> data[a].open, cloned |-> TRUE]
        IN  /\ s \in Symbols /\ clone \in Candle
            /\ t + 1 \in Minutes /\ t + 1 < a
            /\ Gap(data, t, a)
            /\ row' = [row EXCEPT ![s] = [row[s] EXCEPT ![t + 1] = clone]]
            /\ request' = [request EXCEPT ![r] = [request[r] EXCEPT
                             !.data = [data EXCEPT ![t + 1] = clone]]]
  BY Filling
<1> DEFINE c == [open |-> data[t].close, close |-> data[a].open, cloned |-> TRUE]
           filled == [data EXCEPT ![t + 1] = c]
<1>2. c \in Candle /\ s \in Symbols /\ t + 1 \in Minutes
      /\ row' = [row EXCEPT ![s] = [row[s] EXCEPT ![t + 1] = c]]
      /\ request' = [request EXCEPT ![r] = [request[r] EXCEPT !.data = filled]]
  BY <1>1
<1>3. c.open = data[t].close /\ c.close = data[a].open
  OBVIOUS
<1>4. data \in [Minutes -> Row]
  BY DEF TypeOK
<1>5. \A u \in Minutes : filled[u] = IF u = t + 1 THEN c ELSE data[u]
  <2> HIDE DEF c, data
  <2> QED BY <1>4
<1>6. \A q \in Requests :
         /\ request'[q].at = request[q].at /\ request'[q].symbol = request[q].symbol
         /\ request'[q].data = IF q = r THEN filled ELSE request[q].data
  <2> HIDE DEF filled
  <2> QED BY <1>2 DEF TypeOK
<1>7. Saved(s, t + 1, c)
  <2> HIDE DEF c, s
  <2> QED BY <1>2, Saves
<1>8. \A q \in Requests, u \in Minutes :
         request'[q].data[u] = IF q = r /\ u = t + 1 THEN c ELSE request[q].data[u]
  <2> HIDE DEF filled, c
  <2> QED BY <1>5, <1>6
<1>9. /\ request[r].at = "filling"
      /\ UNCHANGED <<now, start, main, seen, settled, missing, pass, repaired>>
  BY DEF RequestFills, mainVars
<1>10. t + 1 < a /\ Gap(data, t, a)
  BY <1>1
<1> HIDE DEF c, filled
<1>11. Fills(r, t, a, c)
  BY <1>2, <1>3, <1>6, <1>7, <1>8, <1>9, <1>10, CandleAssumption DEF Fills
<1> QED BY <1>2, <1>11

-----------------------------------------------------------------------------
(***************************************************************************)
(* Every step keeps the invariant, part by part.                           *)
(***************************************************************************)
LEMMA ShapesKept ==
    ASSUME TypeOK, Shapes, [Next]_vars
    PROVE  Shapes'
<1> USE DEF Shapes, PassShaped, RequestShaped
<1>1. CASE UNCHANGED <<pass, request>>
  BY <1>1
<1>2. ASSUME NEW p \in Passes, EndMinute(p) \/ PassNext(p) \/ PassBinds(p)
      PROVE  Shapes'
  <2>1. CASE EndMinute(p)
    BY <2>1 DEF EndMinute, IdlePass, TypeOK
  <2>2. CASE PassNext(p)
    BY <2>2 DEF PassNext, IdlePass, TypeOK
  <2>3. CASE PassBinds(p)
    BY <2>3 DEF PassBinds, TypeOK
  <2> QED BY <1>2, <2>1, <2>2, <2>3
<1>3. ASSUME NEW p \in Passes, NEW s \in Symbols, PassReads(p, s)
      PROVE  Shapes'
  BY <1>3 DEF PassReads, TypeOK
<1>4. ASSUME NEW p \in Passes, PassSaves(p) \/ PassFails(p)
      PROVE  Shapes'
  <2>1. Advance(p) /\ request' = request /\ pass[p].at = "save"
    BY <1>4 DEF PassSaves, PassFails
  <2>2. \A q \in Passes : q # p => pass'[q] = pass[q]
    BY <2>1 DEF Advance, TypeOK
  <2>3. pass'[p].at \in {"next", "read"}
        /\ (pass'[p].at = "read" => pass'[p].times = pass[p].times)
    BY <2>1 DEF Advance, TypeOK
  <2> QED BY <2>1, <2>2, <2>3
<1>5. ASSUME NEW r \in Requests, NEW s \in Symbols, RequestReads(r, s)
      PROVE  Shapes'
  BY <1>5 DEF RequestReads, mainVars, TypeOK
<1>6. ASSUME NEW r \in Requests, RequestFills(r)
      PROVE  Shapes'
  <2>1. PICK t, a \in Minutes, c \in Candle : Fills(r, t, a, c)
    BY <1>6, Filler
  <2> QED BY <2>1 DEF Fills
<1>7. ASSUME NEW r \in Requests, RequestEnds(r)
      PROVE  Shapes'
  BY <1>7 DEF RequestEnds, Answered, mainVars, TypeOK
<1> QED BY <1>1, <1>2, <1>3, <1>4, <1>5, <1>6, <1>7
        DEF Next, MainStep, PassStep, WakeUp, Overrun, StartMinute, vars, mainVars, Tick,
            MainReads, MainSaves, MainFails, MainPrices

LEMMA ReachedKept ==
    ASSUME TypeOK, Shapes, Reached, Current, [Next]_vars
    PROVE  Reached'
<1> USE Numbers
<1>0. now \in Nat /\ start \in Nat
  BY DEF TypeOK
<1>1. CASE UNCHANGED vars
  BY <1>1 DEF vars, mainVars, Reached
<1>2. CASE Tick
  <2>1. now' = now + 1 /\ UNCHANGED <<start, row, main, pass>>
    BY <1>2 DEF Tick, mainVars
  <2>2. 1 <= start' /\ start' <= now'
    BY <1>0, <2>1 DEF Reached
  <2> QED BY <2>1, <2>2 DEF Reached
<1>3. CASE StartMinute /\ UNCHANGED pass /\ start < now
  <2>1. start' = now /\ start < now /\ UNCHANGED <<now, row, pass>>
    BY <1>3 DEF StartMinute
  <2>2. \A s \in Symbols, t \in Minutes : row[s][t] # NoCandle => t < start
    BY DEF Reached
  <2>3. \A s \in Symbols, t \in Minutes : row'[s][t] # NoCandle => t + 1 < start'
    BY <1>0, <2>1, <2>2
  <2>4. \A p \in Passes : \A t \in pass'[p].times : t + 1 < start'
    BY <1>0, <2>1 DEF Reached, TypeOK
  <2>5. 1 <= start' /\ start' <= now'
    BY <1>0, <2>1 DEF Reached
  <2>6. \A s \in Symbols, t \in Minutes : row'[s][t] # NoCandle => t < start' /\ t + 1 # start'
    BY <1>0, <2>1, <2>3
  <2> QED BY <2>4, <2>5, <2>6 DEF Reached
<1>4. ASSUME NEW s \in Symbols, MainReads(s) \/ MainFails(s) \/ MainPrices(s)
      PROVE  Reached'
  <2>1. /\ \A q \in Symbols : main[q] \notin {"read", "save"} => main'[q] \notin {"read", "save"}
        /\ UNCHANGED <<now, start, row, pass>>
    BY <1>4 DEF MainReads, MainFails, MainPrices, TypeOK
  <2> QED BY <2>1 DEF Reached
<1>5. ASSUME NEW s \in Symbols, MainSaves(s)
      PROVE  Reached'
  <2>1. PICK c \in Candle :
             /\ c # NoCandle /\ ~c.cloned
             /\ start - 1 \in Minutes
             /\ Saved(s, start - 1, c)
             /\ main' = [main EXCEPT ![s] = "price"]
             /\ UNCHANGED <<now, start, pass>>
    BY <1>5, MainSaved
  <2>2. ASSUME NEW q \in Symbols, NEW t \in Minutes, row'[q][t] # NoCandle
        PROVE  t < start /\ (t + 1 = start =>
                                main'[q] \notin {"read", "save"} /\ ~row'[q][t].cloned)
    <3>1. CASE q = s /\ t = start - 1
      BY <3>1, <2>1, <1>0 DEF Saved, TypeOK
    <3>2. CASE ~(q = s /\ t = start - 1)
      <4>1. row'[q][t] = row[q][t]
        BY <3>2, <2>1 DEF Saved
      <4>2. t + 1 = start => q # s
        BY <3>2, <1>0
      <4> QED BY <4>1, <4>2, <2>1, <2>2 DEF Reached, TypeOK
    <3> QED BY <3>1, <3>2
  <2> QED BY <2>1, <2>2 DEF Reached
<1>6. ASSUME NEW p \in Passes, EndMinute(p)
      PROVE  Reached'
  <2>1. \A t \in Cloned : t + 1 < start
    BY <1>0 DEF Cloned, Reached
  <2>2. /\ pass'[p].times = Cloned
        /\ \A q \in Passes : q # p => pass'[q] = pass[q]
    BY <1>6 DEF EndMinute, IdlePass, TypeOK
  <2>3. \A s \in Symbols : main'[s] = "asleep"
    BY <1>6 DEF EndMinute
  <2>4. UNCHANGED <<now, start, row>>
    BY <1>6 DEF EndMinute
  <2> QED BY <2>1, <2>2, <2>3, <2>4 DEF Reached
<1>7. ASSUME NEW p \in Passes, PassNext(p) \/ PassBinds(p) \/ PassFails(p)
                                 \/ \E s \in Symbols : PassReads(p, s)
      PROVE  Reached'
  <2>1. UNCHANGED <<now, start, row, main>>
    BY <1>7 DEF PassNext, PassBinds, PassFails, PassReads, mainVars
  <2>2. \A q \in Passes : pass'[q].times \subseteq pass[q].times
    <3>1. CASE PassNext(p)
      BY <3>1 DEF PassNext, IdlePass, TypeOK
    <3>2. CASE PassBinds(p)
      BY <3>2 DEF PassBinds, TypeOK
    <3>3. CASE PassFails(p)
      BY <3>3 DEF PassFails, Advance, TypeOK
    <3>4. CASE \E s \in Symbols : PassReads(p, s)
      BY <3>4 DEF PassReads, TypeOK
    <3> QED BY <1>7, <3>1, <3>2, <3>3, <3>4
  <2> QED BY <2>1, <2>2 DEF Reached
<1>8. ASSUME NEW p \in Passes, PassSaves(p)
      PROVE  Reached'
  <2>1. PICK s \in Symbols, t \in Minutes, c \in Candle :
             /\ t + 1 < start
             /\ Saved(s, t, c) /\ Advance(p)
             /\ UNCHANGED <<now, start, main>>
    BY <1>8, PassSaved
  <2>2. \A q \in Passes : pass'[q].times \subseteq pass[q].times
    BY <2>1 DEF Advance, TypeOK
  <2>3. ASSUME NEW q \in Symbols, NEW u \in Minutes, row'[q][u] # NoCandle
        PROVE  u < start /\ (u + 1 = start =>
                                main'[q] \notin {"read", "save"} /\ ~row'[q][u].cloned)
    <3>1. CASE q = s /\ u = t
      BY <3>1, <2>1, <1>0
    <3>2. CASE ~(q = s /\ u = t)
      <4>1. row'[q][u] = row[q][u]
        BY <3>2, <2>1 DEF Saved
      <4> QED BY <4>1, <2>1, <2>3 DEF Reached
    <3> QED BY <3>1, <3>2
  <2> QED BY <2>1, <2>2, <2>3 DEF Reached
<1>9. ASSUME NEW r \in Requests, RequestFills(r)
      PROVE  Reached'
  <2>1. PICK t, a \in Minutes, c \in Candle : Fills(r, t, a, c)
    BY <1>9, Filler
  <2> DEFINE s == request[r].symbol
  <2>2. a < start /\ s \in Symbols
    BY <2>1 DEF Fills, Gap, Current, CurrentFor, Reached
  <2>5. t + 1 < a
    BY <2>1 DEF Fills
  <2>3. ASSUME NEW q \in Symbols, NEW u \in Minutes, row'[q][u] # NoCandle
        PROVE  u < start /\ (u + 1 = start =>
                                main'[q] \notin {"read", "save"} /\ ~row'[q][u].cloned)
    <3>1. CASE q = s /\ u = t + 1
      BY <3>1, <2>5, <2>2, <1>0
    <3>2. CASE ~(q = s /\ u = t + 1)
      <4>1. row'[q][u] = row[q][u] /\ UNCHANGED main
        BY <3>2, <2>1 DEF Fills, Saved
      <4> QED BY <4>1, <2>3 DEF Reached
    <3> QED BY <3>1, <3>2
  <2>4. UNCHANGED <<now, start, pass>>
    BY <2>1 DEF Fills
  <2> QED BY <2>3, <2>4 DEF Reached
<1>10. ASSUME NEW r \in Requests, RequestEnds(r) \/ \E s \in Symbols : RequestReads(r, s)
       PROVE  Reached'
  BY <1>10 DEF RequestEnds, RequestReads, mainVars, Reached
<1> QED BY <1>1, <1>2, <1>3, <1>4, <1>5, <1>6, <1>7, <1>8, <1>9, <1>10
        DEF Next, MainStep, PassStep, WakeUp, Overrun

LEMMA WaitingKept ==
    ASSUME TypeOK, Shapes, Reached, Waiting, Current, [Next]_vars
    PROVE  Waiting'
<1> USE Numbers
<1>0. start \in Nat /\ start >= 1 /\ start <= LastMinute
  BY DEF TypeOK, Reached, Minutes
<1>1. CASE UNCHANGED <<start, row, main, seen, repaired>>
  BY <1>1 DEF Waiting
<1>2. CASE \A s \in Symbols : main'[s] # "save"
  BY <1>2 DEF Waiting
<1>3. ASSUME NEW s \in Symbols, MainReads(s)
      PROVE  Waiting'
  <2>1. /\ main' = [main EXCEPT ![s] = "save"]
        /\ seen' = [seen EXCEPT ![s] = Around(s, start - 1)]
        /\ UNCHANGED <<start, row, repaired>>
    BY <1>3 DEF MainReads
  <2>2. start - 1 # LastMinute => row[s][start] = NoCandle
    BY <1>0 DEF Reached, TypeOK
  <2>3. /\ Around(s, start - 1).next = NoCandle
        /\ start = 1 => Around(s, start - 1).prev = NoCandle
        /\ start > 1 => Around(s, start - 1).prev = row[s][start - 2]
    BY <2>2, <1>0 DEF Around
  <2>4. seen'[s] = Around(s, start - 1) /\ \A q \in Symbols : q # s => seen'[q] = seen[q]
    BY <2>1 DEF TypeOK
  <2>5. \A q \in Symbols : q # s => main'[q] = main[q]
    BY <2>1 DEF TypeOK
  <2>6. \A q \in Symbols : q # s /\ main'[q] = "save" =>
          /\ seen'[q].next = NoCandle
          /\ start = 1 => seen'[q].prev = NoCandle
          /\ start > 1 /\ start - 2 \notin repaired[q] => seen'[q].prev = row[q][start - 2]
    BY <2>4, <2>5 DEF Waiting
  <2>7. /\ seen'[s].next = NoCandle
        /\ start = 1 => seen'[s].prev = NoCandle
        /\ start > 1 => seen'[s].prev = row[s][start - 2]
    BY <2>3, <2>4
  <2> QED BY <2>1, <2>6, <2>7 DEF Waiting
<1>4. ASSUME NEW s \in Symbols, MainSaves(s)
      PROVE  Waiting'
  <2>1. PICK c \in Candle :
          /\ Saved(s, start - 1, c)
          /\ main' = [main EXCEPT ![s] = "price"]
          /\ seen' = [seen EXCEPT ![s] = NoNeighbours]
          /\ UNCHANGED <<start, repaired>>
    BY <1>4, MainSaved
  <2>2. main'[s] = "price"
        /\ \A q \in Symbols : q # s => main'[q] = main[q] /\ seen'[q] = seen[q]
    BY <2>1 DEF TypeOK
  <2>3. \A q \in Symbols : q # s => \A u \in Minutes : row'[q][u] = row[q][u]
    BY <2>1 DEF Saved
  <2>4. start > 1 => start - 2 \in Minutes
    BY <1>0 DEF Minutes
  <2>5. ASSUME NEW q \in Symbols, main'[q] = "save"
        PROVE  /\ seen'[q].next = NoCandle
               /\ start = 1 => seen'[q].prev = NoCandle
               /\ start > 1 /\ start - 2 \notin repaired[q] =>
                    seen'[q].prev = row'[q][start - 2]
    <3>1. q # s /\ main[q] = "save" /\ seen'[q] = seen[q]
      BY <2>2, <2>5
    <3>2. start > 1 => row'[q][start - 2] = row[q][start - 2]
      BY <2>3, <2>4, <3>1
    <3> QED BY <3>1, <3>2 DEF Waiting
  <2> QED BY <2>1, <2>5 DEF Waiting
<1>5. ASSUME NEW s \in Symbols, MainFails(s) \/ MainPrices(s)
      PROVE  Waiting'
  <2>1. /\ \A q \in Symbols : main'[q] = "save" => main[q] = "save" /\ seen'[q] = seen[q]
        /\ UNCHANGED <<start, row, repaired>>
    BY <1>5 DEF MainFails, MainPrices, TypeOK
  <2> QED BY <2>1 DEF Waiting
<1>6. ASSUME NEW p \in Passes, PassSaves(p)
      PROVE  Waiting'
  <2>1. PICK s \in Symbols, t \in Minutes, c \in Candle :
          /\ Saved(s, t, c)
          /\ \A q \in Symbols : \A x : x \in repaired'[q] <=> x \in repaired[q] \/ (q = s /\ x = t)
          /\ UNCHANGED <<start, main, seen>>
    BY <1>6, PassSaved
  <2>2. ASSUME NEW q \in Symbols, start > 1, start - 2 \notin repaired'[q]
        PROVE  row'[q][start - 2] = row[q][start - 2] /\ start - 2 \notin repaired[q]
    <3>1. start - 2 \in Minutes
      BY <1>0, <2>2 DEF Minutes
    <3> QED BY <2>1, <2>2, <3>1 DEF Saved
  <2> QED BY <2>1, <2>2 DEF Waiting
<1>7. ASSUME NEW r \in Requests, RequestFills(r)
      PROVE  Waiting'
  <2>1. PICK t, a \in Minutes, c \in Candle : Fills(r, t, a, c)
    BY <1>7, Filler
  <2> DEFINE s == request[r].symbol
  <2>2. s \in Symbols /\ row[s][a] # NoCandle /\ t + 1 < a
    BY <2>1 DEF Fills, Gap, Current, CurrentFor
  <2>3. a < start /\ (main[s] = "save" => a + 1 < start)
    <3>1. a < start /\ (a + 1 = start => main[s] # "save")
      BY <2>2 DEF Reached
    <3> QED BY <3>1, <1>0
  <2>4. UNCHANGED <<start, main, seen, repaired>>
    BY <2>1 DEF Fills
  <2>5. ASSUME NEW q \in Symbols, main[q] = "save", start > 1
        PROVE  row'[q][start - 2] = row[q][start - 2]
    <3>1. start - 2 \in Minutes
      BY <1>0, <2>5 DEF Minutes
    <3>2. ~(q = s /\ start - 2 = t + 1)
      BY <2>2, <2>3, <2>5, <1>0
    <3> QED BY <2>1, <3>1, <3>2 DEF Fills, Saved
  <2> QED BY <2>4, <2>5 DEF Waiting
<1> QED BY <1>1, <1>2, <1>3, <1>4, <1>5, <1>6, <1>7
        DEF Next, MainStep, PassStep, WakeUp, Overrun, StartMinute, vars, mainVars, Tick,
            EndMinute, PassNext, PassBinds, PassReads, PassFails, RequestReads, RequestEnds

\* A candle that a request has read is there, before the minute the loop is at.
LEMMA HeldBefore ==
    ASSUME Reached, Current, NEW r \in Requests, request[r].at = "filling",
           request[r].symbol \in Symbols, NEW u \in Minutes, request[r].data[u] # NoCandle
    PROVE  row[request[r].symbol][u] # NoCandle /\ u < start
BY DEF Reached, Current, CurrentFor

\* Two requests that have read the candle after a minute, with nothing before
\* it, have read that it opens alike.
LEMMA Alike ==
    ASSUME TypeOK, Shapes, Current, Filled, NEW r \in Requests, NEW q \in Requests,
           request[r].at = "filling", request[q].at = "filling",
           request[r].symbol = request[q].symbol,
           NEW w \in Minutes, Untouched(request[r].symbol, w),
           NEW t \in Minutes, NEW a \in Minutes, Gap(request[r].data, t, a), t < w, w < a,
           NEW v \in Minutes, NEW b \in Minutes, Gap(request[q].data, v, b), v < w, w < b
    PROVE  request[r].data[a].open = request[q].data[b].open
<1> USE Numbers
<1> DEFINE s == request[r].symbol
           d == request[r].data
           e == request[q].data
<1>1. /\ Untouched(s, a) /\ Untouched(s, a - 1)
      /\ Untouched(s, b) /\ Untouched(s, b - 1)
      /\ d[a] # NoCandle /\ e[b] # NoCandle
  <2>1. ASSUME NEW x \in Minutes, x > w
        PROVE  Untouched(s, x) /\ Untouched(s, x - 1)
    <3>1. \A y \in repaired[s] : y < w
      BY DEF Untouched
    <3>2. \A y \in repaired[s] : y \in Nat
      BY DEF TypeOK, Shapes, RequestShaped
    <3> QED BY <2>1, <3>1, <3>2 DEF Untouched
  <2> QED BY <2>1 DEF Gap
<1>2. row[s][a] # NoCandle /\ row[s][a].open = d[a].open
  BY <1>1 DEF Current, CurrentFor
<1>3. row[s][b] # NoCandle /\ row[s][b].open = e[b].open
  BY <1>1 DEF Current, CurrentFor
<1>4. CASE a = b
  BY <1>2, <1>3, <1>4
<1>5. CASE a < b
  <2>1. v < a /\ a # v + 1
    OBVIOUS
  <2>2. FilledFor(q)
    BY DEF Filled
  <2>3. row[s][a].open = e[b].open
    <3> HIDE DEF e
    <3> QED BY <2>1, <2>2, <1>1, <1>2, <1>5 DEF FilledFor, e
  <2> QED BY <1>2, <2>3
<1>6. CASE b < a
  <2>1. t < b /\ b # t + 1
    OBVIOUS
  <2>2. FilledFor(r)
    BY DEF Filled
  <2>3. row[s][b].open = d[a].open
    <3> HIDE DEF d
    <3> QED BY <2>1, <2>2, <1>1, <1>3, <1>6 DEF FilledFor, d
  <2> QED BY <1>3, <2>3
<1>7. a \in Nat /\ b \in Nat
  OBVIOUS
<1>8. a = b \/ a < b \/ b < a
  BY <1>7
<1> QED BY <1>4, <1>5, <1>6, <1>8

LEMMA CurrentKept ==
    ASSUME TypeOK, Shapes, Reached, Current, Filled, [Next]_vars
    PROVE  Current'
<1> USE Numbers
<1>0. start \in Nat /\ start >= 1
  BY DEF TypeOK, Reached
<1>1. CASE UNCHANGED <<start, row, request, repaired>>
  BY <1>1 DEF Current, CurrentFor, Untouched
<1>2. CASE StartMinute /\ start < now
  <2>1. start' > start /\ start' \in Nat /\ UNCHANGED <<row, request, repaired>>
    BY <1>2 DEF StartMinute, mainVars, TypeOK
  <2>2. ASSUME NEW r \in Requests, request[r].at = "filling", NEW t \in Minutes,
               request[r].data[t] # NoCandle
        PROVE  t + 1 # start'
    BY <2>1, <2>2, <1>0, HeldBefore DEF Shapes, RequestShaped
  <2> QED BY <2>1, <2>2 DEF Current, CurrentFor, Untouched
<1>3. ASSUME NEW s \in Symbols, MainSaves(s)
      PROVE  Current'
  <2>1. PICK c \in Candle :
          /\ c # NoCandle /\ row[s][start - 1] = NoCandle
          /\ Saved(s, start - 1, c)
          /\ UNCHANGED <<start, request, repaired>>
    BY <1>3, MainSaved
  <2>2. ASSUME NEW r \in Requests, request[r].at = "filling", NEW t \in Minutes,
               request[r].data[t] # NoCandle
        PROVE  row'[request[r].symbol][t] = row[request[r].symbol][t]
    <3>1. request[r].symbol \in Symbols
      BY <2>2 DEF Shapes, RequestShaped
    <3>2. row[request[r].symbol][t] # NoCandle
      BY <2>2 DEF Current, CurrentFor
    <3> QED BY <2>1, <3>1, <3>2 DEF Saved
  <2>3. ASSUME NEW r \in Requests, request[r].at = "filling"
        PROVE  CurrentFor(r)'
    <3>1. CurrentFor(r)
      BY <2>3 DEF Current
    <3>2. \A t \in Minutes : request[r].data[t] # NoCandle =>
             row'[request[r].symbol][t] = row[request[r].symbol][t]
      BY <2>2, <2>3
    <3> QED BY <2>1, <3>1, <3>2 DEF CurrentFor, Untouched
  <2> QED BY <2>1, <2>3 DEF Current
<1>4. ASSUME NEW p \in Passes, PassSaves(p)
      PROVE  Current'
  <2>1. PICK s \in Symbols, w \in Minutes, c \in Candle :
          /\ w + 1 < start /\ c # NoCandle
          /\ Saved(s, w, c)
          /\ \A q \in Symbols : \A x : x \in repaired'[q] <=> x \in repaired[q] \/ (q = s /\ x = w)
          /\ UNCHANGED <<start, request>>
    BY <1>4, PassSaved
  <2>2. ASSUME NEW r \in Requests, request[r].at = "filling", NEW t \in Minutes,
               request[r].data[t] # NoCandle
        PROVE  LET q == request[r].symbol
                   data == request[r].data
               IN  /\ row'[q][t] # NoCandle
                   /\ t + 1 = start => data[t] = row'[q][t]
                   /\ (\A x \in repaired'[q] : x < t) => data[t].close = row'[q][t].close
                   /\ t > 0 /\ (\A x \in repaired'[q] : x < t - 1) =>
                        data[t].open = row'[q][t].open
    <3> DEFINE q == request[r].symbol
               data == request[r].data
    <3>1. q \in Symbols
      BY <2>2 DEF Shapes, RequestShaped
    <3>2. /\ row[q][t] # NoCandle
          /\ t + 1 = start => data[t] = row[q][t]
          /\ (\A x \in repaired[q] : x < t) => data[t].close = row[q][t].close
          /\ t > 0 /\ (\A x \in repaired[q] : x < t - 1) => data[t].open = row[q][t].open
      BY <2>2 DEF Current, CurrentFor, Untouched
    <3> HIDE DEF q, data
    <3>3. CASE q = s /\ t = w
      <4>0. w \in repaired'[s]
        BY <2>1
      <4>1. w \in repaired'[s] /\ ~(w < w) /\ ~(w < w - 1)
        <5>1. w \in Nat
          OBVIOUS
        <5> QED BY <4>0, <5>1
      <4>2. row'[s][w] = c /\ w + 1 # start
        BY <1>0, <2>1 DEF Saved
      <4> QED BY <2>1, <3>3, <4>1, <4>2 DEF q, data
    <3>4. CASE ~(q = s /\ t = w)
      <4>1. row'[q][t] = row[q][t]
        BY <2>1, <3>1, <3>4 DEF Saved
      <4>2. repaired[q] \subseteq repaired'[q]
        BY <2>1, <3>1
      <4> QED BY <3>2, <4>1, <4>2 DEF q, data
    <3> QED BY <3>3, <3>4
  <2>3. start' = start /\ request' = request
    BY <2>1
  <2> QED BY <2>2, <2>3 DEF Current, CurrentFor, Untouched
<1>5. ASSUME NEW r \in Requests, NEW s \in Symbols, RequestReads(r, s)
      PROVE  Current'
  <2>1. /\ request'[r].at = "filling" /\ request'[r].symbol = s /\ request'[r].data = row[s]
        /\ \A q \in Requests : q # r => request'[q] = request[q]
        /\ UNCHANGED <<start, row, repaired>>
    BY <1>5 DEF RequestReads, mainVars, TypeOK
  <2>2. ASSUME NEW q \in Requests, request'[q].at = "filling"
        PROVE  CurrentFor(q)'
    <3>1. CASE q = r
      BY <2>1, <3>1 DEF CurrentFor
    <3>2. CASE q # r
      <4>1. CurrentFor(q)
        BY <2>1, <2>2, <3>2 DEF Current
      <4> QED BY <2>1, <3>2, <4>1 DEF CurrentFor, Untouched
    <3> QED BY <3>1, <3>2
  <2> QED BY <2>2 DEF Current
<1>6. ASSUME NEW r \in Requests, RequestEnds(r)
      PROVE  Current'
  <2>1. /\ request'[r].at = "off"
        /\ \A q \in Requests : q # r => request'[q] = request[q]
        /\ UNCHANGED <<start, row, repaired>>
    BY <1>6 DEF RequestEnds, Answered, mainVars, TypeOK
  <2>2. ASSUME NEW q \in Requests, request'[q].at = "filling"
        PROVE  CurrentFor(q)'
    <3>1. q # r /\ request'[q] = request[q]
      BY <2>1, <2>2
    <3>2. CurrentFor(q)
      BY <2>2, <3>1 DEF Current
    <3> QED BY <2>1, <3>1, <3>2 DEF CurrentFor, Untouched
  <2> QED BY <2>2 DEF Current
<1>7. ASSUME NEW r \in Requests, RequestFills(r)
      PROVE  Current'
  <2>1. PICK t, a \in Minutes, c \in Candle : Fills(r, t, a, c)
    BY <1>7, Filler
  <2> DEFINE s == request[r].symbol
             d == request[r].data
             w == t + 1
  <2>2. /\ s \in Symbols /\ w \in Minutes /\ w < a /\ Gap(d, t, a) /\ c # NoCandle
        /\ request[r].at = "filling" /\ Saved(s, w, c)
        /\ c.open = d[t].close /\ c.close = d[a].open
        /\ UNCHANGED <<start, repaired>>
    BY <2>1 DEF Fills
  <2>3. \A q \in Requests :
          /\ request'[q].at = request[q].at /\ request'[q].symbol = request[q].symbol
          /\ \A u \in Minutes :
               request'[q].data[u] = IF q = r /\ u = w THEN c ELSE request[q].data[u]
    BY <2>1 DEF Fills
  <2>4. w + 1 < start
    <3>1. request[r].data[a] # NoCandle
      BY <2>2 DEF Gap
    <3>2. a < start
      BY <2>2, <3>1, HeldBefore
    <3>3. t \in Nat /\ a \in Nat /\ t + 1 < a
      BY <2>2
    <3> HIDE DEF w
    <3> QED BY <3>2, <3>3, <1>0 DEF w
  <2>5. ASSUME NEW q \in Requests, request'[q].at = "filling", NEW u \in Minutes,
               request'[q].data[u] # NoCandle
        PROVE  LET z == request'[q].symbol
                   data == request'[q].data
               IN  /\ row'[z][u] # NoCandle
                   /\ u + 1 = start => data[u] = row'[z][u]
                   /\ Untouched(z, u) => data[u].close = row'[z][u].close
                   /\ u > 0 /\ Untouched(z, u - 1) => data[u].open = row'[z][u].open
    <3> DEFINE z == request[q].symbol
               e == request[q].data
    <3>1. request'[q].symbol = z /\ request[q].at = "filling" /\ z \in Symbols
      BY <2>3, <2>5 DEF Shapes, RequestShaped
    <3>2. CASE q = r /\ u = w
      BY <3>1, <3>2, <2>2, <2>3 DEF Saved
    <3>3. CASE ~(q = r /\ u = w) /\ z = s /\ u = w
      <4>1. request'[q].data[u] = e[u] /\ row'[s][u] = c /\ e[w] # NoCandle
        BY <3>3, <2>2, <2>3, <2>5 DEF Saved
      <4>2. /\ row[s][w] # NoCandle
            /\ Untouched(s, w) => e[w].close = row[s][w].close
            /\ Untouched(s, w - 1) => e[w].open = row[s][w].open
        <5>1. CurrentFor(q) /\ w > 0 /\ t = w - 1
          BY <3>1 DEF Current
        <5> QED BY <3>3, <4>1, <5>1, <2>2 DEF CurrentFor
      <4>3. /\ Untouched(s, w) => row[s][w].close = d[a].open
            /\ Untouched(s, w - 1) => row[s][w].open = d[t].close
        BY <2>2, <4>2 DEF Filled, FilledFor
      <4> QED BY <3>1, <3>3, <4>1, <4>2, <4>3, <2>2, <2>4
    <3>4. CASE ~(z = s /\ u = w)
      <4>1. request'[q].data[u] = e[u] /\ row'[z][u] = row[z][u]
        BY <3>4, <3>1, <2>2, <2>3 DEF Saved
      <4> QED BY <3>1, <4>1, <2>5 DEF Current, CurrentFor
    <3> QED BY <3>2, <3>3, <3>4
  <2>6. \A z, u : Untouched(z, u)' <=> Untouched(z, u)
    BY <2>2 DEF Untouched
  <2>7. ASSUME NEW q \in Requests, request'[q].at = "filling"
        PROVE  CurrentFor(q)'
    BY <2>2, <2>5, <2>6, <2>7 DEF CurrentFor
  <2> QED BY <2>7 DEF Current
<1> QED BY <1>1, <1>2, <1>3, <1>4, <1>5, <1>6, <1>7
        DEF Next, MainStep, PassStep, WakeUp, Overrun, vars, mainVars, Tick, MainReads,
            MainFails, MainPrices, EndMinute, PassNext, PassBinds, PassReads, PassFails

\* What Filled says of one gap.
FilledGap(q, t, a, u) ==
    /\ Untouched(request[q].symbol, u) =>
         row[request[q].symbol][u].close = request[q].data[a].open
    /\ Untouched(request[q].symbol, u - 1) =>
         row[request[q].symbol][u].open = IF u = t + 1 THEN request[q].data[t].close
                                          ELSE request[q].data[a].open

\* The gaps of the request that fills one.
LEMMA OwnGaps ==
    ASSUME TypeOK, Shapes, Current, Filled,
           NEW r \in Requests, NEW t \in Minutes, NEW a \in Minutes, NEW c, Fills(r, t, a, c),
           NEW v \in Minutes, NEW b \in Minutes, NEW u \in Minutes,
           Gap(request'[r].data, v, b), v < u, u < b, row'[request[r].symbol][u] # NoCandle
    PROVE  FilledGap(r, v, b, u)'
<1> USE Numbers
<1> DEFINE s == request[r].symbol
           d == request[r].data
           e == request'[r].data
           w == t + 1
<1>1. /\ s \in Symbols /\ w \in Minutes /\ w < a /\ Gap(d, t, a) /\ c # NoCandle
      /\ c.close = d[a].open /\ request[r].at = "filling" /\ request'[r].symbol = s
      /\ repaired' = repaired
  BY DEF Fills
<1>2. \A x \in Minutes : e[x] = IF x = w THEN c ELSE d[x]
  BY DEF Fills
<1>3. \A x \in Minutes : x # w => row'[s][x] = row[s][x]
  BY <1>1 DEF Fills, Saved
<1>4. /\ e[v] # NoCandle /\ e[b] # NoCandle
      /\ \A x \in Minutes : v < x /\ x < b => e[x] = NoCandle
  BY DEF Gap
<1>5. /\ d[t] # NoCandle /\ d[a] # NoCandle /\ t < a
      /\ \A x \in Minutes : t < x /\ x < a => d[x] = NoCandle
  BY <1>1 DEF Gap
<1>6. ~(v < w /\ w < b) /\ u # w /\ row[s][u] # NoCandle
  <2>1. ~(v < w /\ w < b) /\ u # w
    BY <1>1, <1>2, <1>4
  <2> QED BY <2>1, <1>3
<1>7. FilledFor(r)
  BY <1>1 DEF Filled
<1>8. CASE v = w
  <2>1. b = a
    <3>0. t \in Nat /\ a \in Nat /\ b \in Nat /\ t + 1 < a /\ t + 1 < b
      <4>1. v \in Nat /\ u \in Nat /\ b \in Nat /\ v < b
        OBVIOUS
      <4> QED BY <1>1, <1>8, <4>1
    <3>1. b # w /\ a # w /\ t < b /\ t < a
      BY <3>0
    <3>2. d[b] # NoCandle /\ ~(b < a)
      <4> HIDE DEF w, d, e
      <4> QED BY <1>2, <1>4, <1>5, <3>1
    <3>3. e[a] # NoCandle /\ ~(a < b)
      <4>1. e[a] = d[a]
        BY <1>2, <3>1
      <4>2. v < a
        BY <1>8, <3>0
      <4> HIDE DEF w, d, e
      <4> QED BY <4>1, <4>2, <1>4, <1>5
    <3> QED BY <3>0, <3>2, <3>3
  <2>2. t < u /\ u # t + 1 /\ u < a
    BY <1>8, <2>1
  <2>3. /\ Untouched(s, u) => row[s][u].close = d[a].open
        /\ Untouched(s, u - 1) => row[s][u].open = d[a].open
    <3> HIDE DEF w
    <3> QED BY <1>1, <1>6, <1>7, <2>2 DEF FilledFor
  <2>4. e[b] = d[a] /\ e[v].close = d[a].open /\ row'[s][u] = row[s][u]
    BY <1>1, <1>2, <1>3, <1>6, <1>8, <2>1
  <2> HIDE DEF d, w
  <2> QED BY <1>1, <2>3, <2>4 DEF FilledGap, Untouched
<1>9. CASE b = w
  <2>1. v <= t /\ v # t
    BY <1>9
  <2>2. e[t] = d[t]
    BY <1>2
  <2> QED BY <2>1, <2>2, <1>4, <1>5, <1>9
<1>10. CASE v # w /\ b # w
  <2>1. e[v] = d[v] /\ e[b] = d[b] /\ row'[s][u] = row[s][u]
    BY <1>2, <1>3, <1>6, <1>10
  <2>2. \A x \in Minutes : v < x /\ x < b => d[x] = NoCandle
    BY <1>2, <1>4, <1>6
  <2>3. Gap(d, v, b)
    BY <2>1, <2>2, <1>4 DEF Gap
  <2>4. /\ Untouched(s, u) => row[s][u].close = d[b].open
        /\ Untouched(s, u - 1) =>
             row[s][u].open = IF u = v + 1 THEN d[v].close ELSE d[b].open
    BY <1>6, <1>7, <2>3 DEF FilledFor
  <2> HIDE DEF d, w
  <2> QED BY <1>1, <2>1, <2>4 DEF FilledGap, Untouched
<1> QED BY <1>8, <1>9, <1>10

\* The gaps of another request with the same symbol.
LEMMA OtherGaps ==
    ASSUME TypeOK, Shapes, Current, Filled,
           NEW r \in Requests, NEW t \in Minutes, NEW a \in Minutes, NEW c, Fills(r, t, a, c),
           NEW q \in Requests, q # r, request[q].at = "filling",
           request[q].symbol = request[r].symbol,
           NEW v \in Minutes, NEW b \in Minutes, NEW u \in Minutes,
           Gap(request[q].data, v, b), v < u, u < b, row'[request[r].symbol][u] # NoCandle
    PROVE  FilledGap(q, v, b, u)'
<1> USE Numbers
<1> DEFINE s == request[r].symbol
           d == request[r].data
           e == request[q].data
           w == t + 1
<1>1. /\ s \in Symbols /\ w \in Minutes /\ w < a /\ Gap(d, t, a) /\ c # NoCandle
      /\ c.open = d[t].close /\ c.close = d[a].open
      /\ request[r].at = "filling" /\ request'[q].symbol = s
      /\ repaired' = repaired
  BY DEF Fills
<1>2. \A x \in Minutes : request'[q].data[x] = e[x]
  BY DEF Fills
<1>3. row'[s][u] = IF u = w THEN c ELSE row[s][u]
  BY <1>1 DEF Fills, Saved
<1>4. FilledFor(q)
  BY DEF Filled
<1>5. /\ Untouched(s, u) => row'[s][u].close = e[b].open
      /\ Untouched(s, u - 1) =>
           row'[s][u].open = IF u = v + 1 THEN e[v].close ELSE e[b].open
  <2>1. CASE u # w
    <3>1. row'[s][u] = row[s][u] /\ row[s][u] # NoCandle
      BY <1>3, <2>1
    <3> HIDE DEF w
    <3> QED BY <1>4, <3>1 DEF FilledFor
  <2>2. CASE u = w
    <3>0. row'[s][u] = c /\ u - 1 = t /\ t < w /\ w < a /\ v < w /\ w < b
      BY <1>1, <1>3, <2>2
    <3>1. Untouched(s, w) => d[a].open = e[b].open
      <4> HIDE DEF w
      <4> QED BY <1>1, <3>0, Alike
    <3>2. d[t] # NoCandle /\ CurrentFor(r) /\ CurrentFor(q)
      BY <1>1 DEF Gap, Current
    <3>3. Untouched(s, t) => row[s][t] # NoCandle /\ d[t].close = row[s][t].close
      <4> HIDE DEF w
      <4> QED BY <3>2 DEF CurrentFor
    <3>4. CASE w = v + 1
      <4>1. v = t
        BY <3>4
      <4>2. e[t] # NoCandle
        BY <4>1 DEF Gap
      <4>3. Untouched(s, t) => e[t].close = row[s][t].close
        <5> HIDE DEF w
        <5> QED BY <3>2, <4>2 DEF CurrentFor
      <4> HIDE DEF d, e
      <4> QED BY <1>1, <2>2, <3>0, <3>1, <3>3, <3>4, <4>1, <4>3
    <3>5. CASE w # v + 1
      <4>1. v < t /\ t < b
        <5>1. v \in Nat /\ t \in Nat /\ b \in Nat
          OBVIOUS
        <5>2. v < t + 1 /\ t + 1 < b /\ t + 1 # v + 1
          BY <3>0, <3>5
        <5> QED BY <5>1, <5>2
      <4>2. Untouched(s, t) => row[s][t].close = e[b].open
        <5> HIDE DEF w
        <5> QED BY <1>4, <3>3, <4>1 DEF FilledFor
      <4> HIDE DEF d, e
      <4> QED BY <1>1, <2>2, <3>0, <3>1, <3>3, <3>5, <4>2
    <3> QED BY <3>4, <3>5
  <2> QED BY <2>1, <2>2
<1>6. request'[q].data[v] = e[v] /\ request'[q].data[b] = e[b]
  BY <1>2
<1> HIDE DEF e, w
<1> QED BY <1>1, <1>5, <1>6 DEF FilledGap, Untouched

LEMMA FilledKept ==
    ASSUME TypeOK, Shapes, Reached, Current, Filled, [Next]_vars
    PROVE  Filled'
<1> USE Numbers
<1>0. start \in Nat /\ start >= 1
  BY DEF TypeOK, Reached
<1>1. CASE UNCHANGED <<row, request, repaired>>
  BY <1>1 DEF Filled, FilledFor, Untouched
<1>2. ASSUME NEW s \in Symbols, MainSaves(s)
      PROVE  Filled'
  <2>1. PICK c \in Candle :
          /\ Saved(s, start - 1, c)
          /\ UNCHANGED <<start, request, repaired>>
    BY <1>2, MainSaved
  <2>2. ASSUME NEW r \in Requests, request'[r].at = "filling",
               NEW t \in Minutes, NEW a \in Minutes, NEW u \in Minutes,
               Gap(request'[r].data, t, a), t < u, u < a, row'[request'[r].symbol][u] # NoCandle
        PROVE  FilledGap(r, t, a, u)'
    <3> DEFINE z == request[r].symbol
    <3>1. request' = request /\ repaired' = repaired
      BY <2>1
    <3>2. z \in Symbols /\ FilledFor(r) /\ Gap(request[r].data, t, a)
      BY <2>2, <3>1 DEF Shapes, RequestShaped, Filled
    <3>3. a < start
      BY <2>2, <3>1, <3>2, HeldBefore DEF Gap
    <3>4. u # start - 1
      <4>1. u \in Nat /\ a \in Nat /\ u < a
        BY <2>2
      <4> QED BY <3>3, <4>1, <1>0
    <3>5. row'[z][u] = row[z][u]
      BY <2>1, <3>2, <3>4 DEF Saved
    <3>6. FilledGap(r, t, a, u)
      BY <2>2, <3>1, <3>2, <3>5 DEF FilledFor, FilledGap
    <3> QED BY <3>1, <3>5, <3>6 DEF FilledGap, Untouched
  <2> QED BY <2>2 DEF Filled, FilledFor, FilledGap, Gap, Untouched
<1>3. ASSUME NEW p \in Passes, PassSaves(p)
      PROVE  Filled'
  <2>1. PICK s \in Symbols, w \in Minutes, c \in Candle :
          /\ Saved(s, w, c)
          /\ \A q \in Symbols : \A x : x \in repaired'[q] <=> x \in repaired[q] \/ (q = s /\ x = w)
          /\ UNCHANGED <<start, request>>
    BY <1>3, PassSaved
  <2>2. ASSUME NEW r \in Requests, request'[r].at = "filling",
               NEW t \in Minutes, NEW a \in Minutes, NEW u \in Minutes,
               Gap(request'[r].data, t, a), t < u, u < a, row'[request'[r].symbol][u] # NoCandle
        PROVE  FilledGap(r, t, a, u)'
    <3> DEFINE z == request[r].symbol
    <3>1. request' = request
      BY <2>1
    <3>2. z \in Symbols /\ FilledFor(r) /\ Gap(request[r].data, t, a)
      BY <2>2, <3>1 DEF Shapes, RequestShaped, Filled
    <3>3. CASE z = s /\ u = w
      <4>1. w \in repaired'[s] /\ w \in Nat
        BY <2>1
      <4>2. ~(w < w) /\ ~(w < w - 1)
        BY <4>1
      <4> QED BY <3>1, <3>3, <4>1, <4>2 DEF FilledGap, Untouched
    <3>4. CASE ~(z = s /\ u = w)
      <4>1. row'[z][u] = row[z][u]
        BY <2>1, <3>2, <3>4 DEF Saved
      <4>2. repaired[z] \subseteq repaired'[z]
        BY <2>1, <3>2
      <4>3. FilledGap(r, t, a, u)
        BY <2>2, <3>1, <3>2, <4>1 DEF FilledFor, FilledGap
      <4> QED BY <3>1, <4>1, <4>2, <4>3 DEF FilledGap, Untouched
    <3> QED BY <3>3, <3>4
  <2> QED BY <2>2 DEF Filled, FilledFor, FilledGap, Gap, Untouched
<1>4. ASSUME NEW r \in Requests, NEW s \in Symbols, RequestReads(r, s)
      PROVE  Filled'
  <2>1. /\ request'[r].at = "filling" /\ request'[r].symbol = s /\ request'[r].data = row[s]
        /\ \A q \in Requests : q # r => request'[q] = request[q]
        /\ UNCHANGED <<row, repaired>>
    BY <1>4 DEF RequestReads, mainVars, TypeOK
  <2>2. ASSUME NEW q \in Requests, request'[q].at = "filling"
        PROVE  FilledFor(q)'
    <3>1. CASE q = r
      BY <2>1, <3>1 DEF FilledFor, Gap
    <3>2. CASE q # r
      <4>1. FilledFor(q)
        BY <2>1, <2>2, <3>2 DEF Filled
      <4> QED BY <2>1, <3>2, <4>1 DEF FilledFor, Untouched
    <3> QED BY <3>1, <3>2
  <2> QED BY <2>2 DEF Filled
<1>5. ASSUME NEW r \in Requests, RequestEnds(r)
      PROVE  Filled'
  <2>1. /\ request'[r].at = "off"
        /\ \A q \in Requests : q # r => request'[q] = request[q]
        /\ UNCHANGED <<row, repaired>>
    BY <1>5 DEF RequestEnds, Answered, mainVars, TypeOK
  <2>2. ASSUME NEW q \in Requests, request'[q].at = "filling"
        PROVE  FilledFor(q)'
    <3>1. q # r /\ request'[q] = request[q]
      BY <2>1, <2>2
    <3>2. FilledFor(q)
      BY <2>2, <3>1 DEF Filled
    <3> QED BY <2>1, <3>1, <3>2 DEF FilledFor, Untouched
  <2> QED BY <2>2 DEF Filled
<1>6. ASSUME NEW r \in Requests, RequestFills(r)
      PROVE  Filled'
  <2>1. PICK t, a \in Minutes, c \in Candle : Fills(r, t, a, c)
    BY <1>6, Filler
  <2>2. ASSUME NEW q \in Requests, request'[q].at = "filling",
               NEW v \in Minutes, NEW b \in Minutes, NEW u \in Minutes,
               Gap(request'[q].data, v, b), v < u, u < b,
               row'[request'[q].symbol][u] # NoCandle
        PROVE  FilledGap(q, v, b, u)'
    <3>1. /\ request'[q].symbol = request[q].symbol /\ request[q].at = "filling"
          /\ request[q].symbol \in Symbols
      BY <2>1, <2>2 DEF Fills, Shapes, RequestShaped
    <3>2. CASE q = r
      BY <2>1, <2>2, <3>1, <3>2, OwnGaps
    <3>3. CASE q # r
      <4>1. \A x \in Minutes : request'[q].data[x] = request[q].data[x]
        BY <2>1, <3>3 DEF Fills
      <4>2. Gap(request[q].data, v, b)
        BY <2>2, <4>1 DEF Gap
      <4>3. CASE request[q].symbol = request[r].symbol
        BY <2>1, <2>2, <3>1, <3>3, <4>2, <4>3, OtherGaps
      <4>4. CASE request[q].symbol # request[r].symbol
        <5>1. row'[request[q].symbol][u] = row[request[q].symbol][u] /\ repaired' = repaired
          BY <2>1, <3>1, <4>4 DEF Fills, Saved
        <5>2. FilledFor(q)
          BY <3>1 DEF Filled
        <5>3. FilledGap(q, v, b, u)
          BY <2>2, <3>1, <4>2, <5>1, <5>2 DEF FilledFor, FilledGap
        <5> QED BY <3>1, <4>1, <5>1, <5>3 DEF FilledGap, Untouched
      <4> QED BY <4>3, <4>4
    <3> QED BY <3>2, <3>3
  <2> QED BY <2>2 DEF Filled, FilledFor, FilledGap, Gap, Untouched
<1> QED BY <1>1, <1>2, <1>3, <1>4, <1>5, <1>6
        DEF Next, MainStep, PassStep, WakeUp, Overrun, StartMinute, vars, mainVars, Tick,
            MainReads, MainFails, MainPrices, EndMinute, PassNext, PassBinds, PassReads,
            PassFails

LEMMA JoinKept ==
    ASSUME TypeOK, Shapes, Reached, Waiting, Current, Filled, CandlesJoin, [Next]_vars
    PROVE  CandlesJoin'
<1> USE Numbers
<1>0. start \in Nat /\ start >= 1
  BY DEF TypeOK, Reached
<1>1. CASE UNCHANGED <<row, repaired>>
  BY <1>1 DEF CandlesJoin
<1>2. \A s \in Symbols, t \in Minutes :
        repaired[s] \cap (t..LastMinute) = {} <=> Untouched(s, t)
  BY DEF TypeOK, Untouched, Minutes
<1>3. ASSUME NEW s \in Symbols, MainSaves(s)
      PROVE  CandlesJoin'
  <2>1. PICK c \in Candle :
          /\ seen[s].prev # NoCandle => c.open = seen[s].prev.close
          /\ c # NoCandle /\ start - 1 \in Minutes
          /\ Saved(s, start - 1, c)
          /\ main[s] = "save"
          /\ UNCHANGED <<start, repaired>>
    BY <1>3, MainSaved
  <2>2. ASSUME NEW q \in Symbols, NEW t \in Minutes \ {LastMinute},
               row'[q][t] # NoCandle, row'[q][t + 1] # NoCandle, Untouched(q, t)
        PROVE  row'[q][t].close = row'[q][t + 1].open
    <3>0. t + 1 \in Minutes
      BY DEF Minutes
    <3>1. CASE q = s /\ t + 1 = start - 1
      <4>1. start > 1 /\ start - 2 = t
        BY <3>1, <1>0
      <4>2. t \notin repaired[s]
        BY <2>2, <3>1 DEF Untouched
      <4>3. seen[s].prev = row[s][t]
        BY <2>1, <4>1, <4>2 DEF Waiting
      <4>4. row'[s][t] = row[s][t] /\ row'[s][t + 1] = c
        <5>1. t # start - 1
          BY <4>1, <1>0
        <5> QED BY <2>1, <3>0, <3>1, <5>1 DEF Saved
      <4> QED BY <2>1, <2>2, <3>1, <4>3, <4>4
    <3>2. CASE q = s /\ t = start - 1
      <4>1. row'[s][t + 1] = row[s][t + 1] /\ t + 1 = start
        BY <2>1, <3>0, <3>2, <1>0 DEF Saved
      <4>2. row[s][t + 1] = NoCandle
        BY <3>0, <4>1, <1>0 DEF Reached
      <4> QED BY <2>2, <3>2, <4>1, <4>2
    <3>3. CASE q # s \/ (t + 1 # start - 1 /\ t # start - 1)
      <4>1. row'[q][t] = row[q][t] /\ row'[q][t + 1] = row[q][t + 1]
        BY <2>1, <3>0, <3>3 DEF Saved
      <4> QED BY <2>2, <4>1, <1>2 DEF CandlesJoin
    <3> QED BY <3>1, <3>2, <3>3
  <2> QED BY <2>1, <2>2, <1>2 DEF CandlesJoin
<1>4. ASSUME NEW p \in Passes, PassSaves(p)
      PROVE  CandlesJoin'
  <2>1. PICK s \in Symbols, w \in Minutes, c \in Candle :
          /\ Saved(s, w, c)
          /\ \A q \in Symbols : \A x : x \in repaired'[q] <=> x \in repaired[q] \/ (q = s /\ x = w)
    BY <1>4, PassSaved
  <2>2. ASSUME NEW q \in Symbols, NEW t \in Minutes \ {LastMinute},
               row'[q][t] # NoCandle, row'[q][t + 1] # NoCandle,
               repaired'[q] \cap (t..LastMinute) = {}
        PROVE  row'[q][t].close = row'[q][t + 1].open
    <3>0. t + 1 \in Minutes
      BY DEF Minutes
    <3>1. repaired[q] \cap (t..LastMinute) = {}
      BY <2>1, <2>2
    <3>2. q = s => w \notin t..LastMinute
      BY <2>1, <2>2
    <3>3. q = s => t # w /\ t + 1 # w
      BY <3>0, <3>2 DEF Minutes
    <3>4. row'[q][t] = row[q][t] /\ row'[q][t + 1] = row[q][t + 1]
      BY <2>1, <3>0, <3>3 DEF Saved
    <3> QED BY <2>2, <3>1, <3>4 DEF CandlesJoin
  <2> QED BY <2>2 DEF CandlesJoin
<1>5. ASSUME NEW r \in Requests, RequestFills(r)
      PROVE  CandlesJoin'
  <2>1. PICK t, a \in Minutes, c \in Candle : Fills(r, t, a, c)
    BY <1>5, Filler
  <2> DEFINE s == request[r].symbol
             d == request[r].data
             w == t + 1
  <2>2. /\ s \in Symbols /\ w \in Minutes /\ w < a /\ Gap(d, t, a)
        /\ request[r].at = "filling" /\ Saved(s, w, c)
        /\ c.open = d[t].close /\ c.close = d[a].open
        /\ repaired' = repaired
    BY <2>1 DEF Fills
  <2>3. CurrentFor(r) /\ FilledFor(r) /\ d[t] # NoCandle /\ d[a] # NoCandle
    BY <2>2 DEF Current, Filled, Gap
  <2>4. ASSUME NEW q \in Symbols, NEW v \in Minutes \ {LastMinute},
               row'[q][v] # NoCandle, row'[q][v + 1] # NoCandle, Untouched(q, v)
        PROVE  row'[q][v].close = row'[q][v + 1].open
    <3>0. v + 1 \in Minutes /\ v \in Nat /\ t \in Nat /\ a \in Nat
      BY DEF Minutes
    <3>1. CASE q = s /\ v + 1 = w
      <4>1. v = t
        BY <3>0, <3>1
      <4>2. row'[s][t] = row[s][t] /\ row'[s][w] = c
        BY <2>2, <4>1 DEF Saved
      <4>3. d[t].close = row[s][t].close
        BY <2>3, <2>4, <3>1, <4>1 DEF CurrentFor
      <4> HIDE DEF s, d, w
      <4> QED BY <2>2, <3>1, <4>1, <4>2, <4>3
    <3>2. CASE q = s /\ v = w
      <4>1. v + 1 # w /\ w + 1 <= a /\ t < w + 1 /\ w + 1 # t + 1
        BY <3>0, <3>2, <2>2
      <4>2. row'[s][w + 1] = row[s][w + 1] /\ row'[s][w] = c
        BY <2>2, <3>0, <3>2, <4>1 DEF Saved
      <4>3. Untouched(s, (w + 1) - 1)
        BY <2>4, <3>2, <3>0
      <4>4. row[s][w + 1].open = d[a].open
        <5>1. CASE w + 1 = a
          BY <2>3, <4>3, <5>1 DEF CurrentFor
        <5>2. CASE w + 1 < a
          <6> HIDE DEF w
          <6> QED BY <2>2, <2>3, <2>4, <3>0, <3>2, <4>1, <4>2, <4>3, <5>2 DEF FilledFor
        <5> QED BY <4>1, <5>1, <5>2, <3>0
      <4> HIDE DEF s, d, w
      <4> QED BY <2>2, <3>2, <4>2, <4>4
    <3>3. CASE q # s \/ (v + 1 # w /\ v # w)
      <4>1. row'[q][v] = row[q][v] /\ row'[q][v + 1] = row[q][v + 1]
        BY <2>2, <3>0, <3>3 DEF Saved
      <4> QED BY <2>4, <4>1, <1>2 DEF CandlesJoin
    <3> QED BY <3>1, <3>2, <3>3
  <2> QED BY <2>2, <2>4, <1>2 DEF CandlesJoin
<1> QED BY <1>1, <1>3, <1>4, <1>5
        DEF Next, MainStep, PassStep, WakeUp, Overrun, StartMinute, vars, mainVars, Tick,
            MainReads, MainFails, MainPrices, EndMinute, PassNext, PassBinds, PassReads,
            PassFails, RequestReads, RequestEnds

\* A step that changes neither table nor requests, nor begins to save in a pass.
LEMMA SettledFrame ==
    ASSUME Settled, UNCHANGED <<settled, row, request, repaired>>,
           \A p \in Passes : pass'[p].at = "save" => pass'[p] = pass[p]
    PROVE  Settled'
<1>1. ASSUME NEW s \in Symbols, NEW t \in Minutes, NEW price, SettledAt(s, t, price)
      PROVE  SettledAt(s, t, price)'
  <2>1. SettledInTable(s, t, price)' /\ \A r \in Requests : SettledInRequest(r, s, t, price)'
    BY <1>1 DEF SettledAt, SettledInTable, SettledInRequest
  <2>2. \A p \in Passes : SettledInPass(p, s, t, price)'
    BY <1>1 DEF SettledAt, SettledInPass, Repairing
  <2> QED BY <2>1, <2>2 DEF SettledAt
<1> QED BY <1>1 DEF Settled

LEMMA SettledKept ==
    ASSUME TypeOK, Shapes, Reached, Waiting, Current, Settled, [Next]_vars
    PROVE  Settled'
<1> USE Numbers
<1>0. start \in Nat /\ start >= 1 /\ start \in Minutes /\ start - 1 \in Minutes
  BY DEF TypeOK, Reached, Minutes
<1>1. CASE UNCHANGED <<settled, row, request, pass, repaired>>
  BY <1>1, SettledFrame
<1>2. ASSUME NEW p \in Passes, EndMinute(p) \/ PassNext(p) \/ PassBinds(p) \/ PassFails(p)
      PROVE  Settled'
  <2>1. UNCHANGED <<settled, row, request, repaired>>
    BY <1>2 DEF EndMinute, PassNext, PassBinds, PassFails, mainVars
  <2>2. \A q \in Passes : q # p => pass'[q] = pass[q]
    BY <1>2 DEF EndMinute, PassNext, PassBinds, PassFails, Advance, TypeOK
  <2>3. pass'[p].at # "save"
    <3>1. CASE EndMinute(p)
      BY <3>1 DEF EndMinute, IdlePass, TypeOK
    <3>2. CASE PassNext(p)
      BY <3>2 DEF PassNext, IdlePass, TypeOK
    <3>3. CASE PassBinds(p)
      BY <3>3 DEF PassBinds, TypeOK
    <3>4. CASE PassFails(p)
      BY <3>4 DEF PassFails, Advance, TypeOK
    <3> QED BY <1>2, <3>1, <3>2, <3>3, <3>4
  <2> QED BY <2>1, <2>2, <2>3, SettledFrame
<1>3. ASSUME NEW s \in Symbols, MainPrices(s)
      PROVE  Settled'
  <2>1. /\ settled' = [settled EXCEPT ![s] = [settled[s] EXCEPT ![start] = getPrice(s, start)]]
        /\ UNCHANGED <<row, request, pass, repaired>>
    BY <1>3 DEF MainPrices
  <2>2. row[s][start] = NoCandle
    BY <1>0 DEF Reached
  <2>3. getPrice(s, start) # NoPrice =>
          row[s][start - 1] # NoCandle /\ row[s][start - 1].close = getPrice(s, start)
    BY <2>2, <1>0 DEF getPrice
  <2>4. ASSUME NEW price, row[s][start - 1] # NoCandle, row[s][start - 1].close = price
        PROVE  SettledAt(s, start, price)
    <3>1. SettledInTable(s, start, price)
      BY <2>2, <2>4 DEF SettledInTable
    <3>2. ASSUME NEW r \in Requests, request[r].at = "filling", request[r].symbol = s,
                 NEW u \in Minutes, u >= start - 1, request[r].data[u] # NoCandle
          PROVE  /\ request[r].data[start - 1] # NoCandle
                 /\ request[r].data[start - 1].close = price
      <4>1. u < start
        BY <3>2, HeldBefore
      <4>2. u = start - 1 /\ u + 1 = start
        <5>1. u \in Nat /\ u >= start - 1
          BY <3>2
        <5> QED BY <4>1, <5>1, <1>0
      <4>3. request[r].data[u] = row[s][u]
        BY <3>2, <4>2 DEF Current, CurrentFor
      <4> QED BY <2>4, <3>2, <4>2, <4>3
    <3>3. ASSUME NEW p \in Passes, pass[p].at = "save", Repairing(p) = start
          PROVE  FALSE
      <4>1. Repairing(p) \in pass[p].times
        BY <3>3, AtWork
      <4> QED BY <3>3, <4>1, <1>0 DEF Reached
    <3> QED BY <3>1, <3>2, <3>3 DEF SettledAt, SettledInRequest, SettledInPass
  <2>5. ASSUME NEW q \in Symbols, NEW t \in Minutes \ {0}, settled'[q][t] # NoPrice,
               t - 1 \notin repaired[q]
        PROVE  SettledAt(q, t, settled'[q][t])
    <3>1. CASE q = s /\ t = start
      <4>1. settled'[q][t] = getPrice(s, start)
        BY <2>1, <3>1 DEF TypeOK
      <4> QED BY <2>3, <2>4, <2>5, <3>1, <4>1
    <3>2. CASE ~(q = s /\ t = start)
      <4>1. settled'[q][t] = settled[q][t]
        BY <2>1, <3>2 DEF TypeOK
      <4> QED BY <2>5, <4>1 DEF Settled
    <3> QED BY <3>1, <3>2
  <2>6. ASSUME NEW q \in Symbols, NEW t \in Minutes, NEW price, SettledAt(q, t, price)
        PROVE  SettledAt(q, t, price)'
    BY <2>1, <2>6 DEF SettledAt, SettledInTable, SettledInRequest, SettledInPass, Repairing
  <2> QED BY <2>1, <2>5, <2>6 DEF Settled
<1>4. ASSUME NEW s \in Symbols, MainSaves(s)
      PROVE  Settled'
  <2>1. PICK c \in Candle :
          /\ seen[s].prev # NoCandle => c.open = seen[s].prev.close
          /\ row[s][start - 1] = NoCandle
          /\ Saved(s, start - 1, c)
          /\ main[s] = "save"
          /\ UNCHANGED <<start, settled, pass, request, repaired>>
    BY <1>4, MainSaved
  <2>2. ASSUME NEW q \in Symbols, NEW t \in Minutes \ {0}, NEW price,
               SettledAt(q, t, price), t - 1 \notin repaired[q]
        PROVE  SettledAt(q, t, price)'
    <3>0. t - 1 \in Minutes /\ t \in Nat /\ t >= 1
      BY DEF Minutes
    <3>1. /\ row[q][t - 1] # NoCandle /\ row[q][t - 1].close = price
          /\ row[q][t] # NoCandle => row[q][t].open = price
      BY <2>2 DEF SettledAt, SettledInTable
    <3>2. row'[q][t - 1] = row[q][t - 1]
      BY <2>1, <3>0, <3>1 DEF Saved
    <3>3. row'[q][t] # NoCandle => row'[q][t].open = price
      <4>1. CASE q = s /\ t = start - 1
        <5>1. start > 1 /\ start - 2 = t - 1
          BY <3>0, <4>1, <1>0
        <5>2. seen[s].prev = row[s][t - 1]
          BY <2>1, <2>2, <4>1, <5>1 DEF Waiting
        <5>3. row'[q][t] = c
          BY <2>1, <4>1 DEF Saved
        <5> QED BY <2>1, <3>1, <4>1, <5>2, <5>3
      <4>2. CASE ~(q = s /\ t = start - 1)
        <5>1. row'[q][t] = row[q][t]
          BY <2>1, <4>2 DEF Saved
        <5> QED BY <3>1, <5>1
      <4> QED BY <4>1, <4>2
    <3>4. SettledInTable(q, t, price)'
      BY <3>1, <3>2, <3>3 DEF SettledInTable
    <3>5. (\A r \in Requests : SettledInRequest(r, q, t, price)')
          /\ \A p \in Passes : SettledInPass(p, q, t, price)'
      BY <2>1, <2>2 DEF SettledAt, SettledInRequest, SettledInPass, Repairing
    <3> QED BY <3>4, <3>5 DEF SettledAt
  <2> QED BY <2>1, <2>2 DEF Settled
<1>5. ASSUME NEW p \in Passes, NEW z \in Symbols, PassReads(p, z)
      PROVE  Settled'
  <2>1. /\ pass' = [pass EXCEPT ![p] = [pass[p] EXCEPT
                      !.at = "save", !.symbol = z, !.source = missing[z],
                      !.seen = Around(z, Repairing(p))]]
        /\ UNCHANGED <<settled, row, request, repaired>>
        /\ pass[p].at = "read"
    BY <1>5 DEF PassReads, mainVars
  <2>2. /\ pass'[p].symbol = z /\ pass'[p].seen = Around(z, Repairing(p))
        /\ pass'[p].times = pass[p].times
        /\ \A q \in Passes : q # p => pass'[q] = pass[q]
    BY <2>1 DEF TypeOK
  <2>3. ASSUME NEW s \in Symbols, NEW t \in Minutes \ {0}, NEW price, SettledAt(s, t, price)
        PROVE  SettledAt(s, t, price)'
    <3>1. SettledInTable(s, t, price)' /\ \A r \in Requests : SettledInRequest(r, s, t, price)'
      BY <2>1, <2>3 DEF SettledAt, SettledInTable, SettledInRequest
    <3>2. SettledInPass(p, s, t, price)'
      <4>1. Min(pass'[p].times) = t /\ z = s => Around(z, Repairing(p)).prev = row[s][t - 1]
        BY <2>2 DEF Around, Repairing
      <4>2. row[s][t - 1] # NoCandle /\ row[s][t - 1].close = price
        BY <2>3 DEF SettledAt, SettledInTable
      <4> QED BY <2>2, <4>1, <4>2 DEF SettledInPass, Repairing
    <3>3. ASSUME NEW q \in Passes, q # p
          PROVE  SettledInPass(q, s, t, price)'
      BY <2>2, <2>3, <3>3 DEF SettledAt, SettledInPass, Repairing
    <3> QED BY <3>1, <3>2, <3>3 DEF SettledAt
  <2> QED BY <2>1, <2>3 DEF Settled
<1>6. ASSUME NEW p \in Passes, PassSaves(p)
      PROVE  Settled'
  <2>1. PICK z \in Symbols, w \in Minutes, c \in Candle :
          /\ z = pass[p].symbol /\ w = Repairing(p)
          /\ pass[p].seen.prev # NoCandle => c.open = pass[p].seen.prev.close
          /\ Saved(z, w, c)
          /\ pass[p].at = "save" /\ Advance(p)
          /\ \A q \in Symbols : \A x : x \in repaired'[q] <=> x \in repaired[q] \/ (q = z /\ x = w)
          /\ UNCHANGED <<settled, request>>
    BY <1>6, PassSaved
  <2>2. \A q \in Passes : pass'[q].at = "save" => pass'[q] = pass[q]
    BY <2>1 DEF Advance, TypeOK
  <2>3. ASSUME NEW s \in Symbols, NEW t \in Minutes \ {0}, NEW price, SettledAt(s, t, price),
               t - 1 \notin repaired'[s]
        PROVE  SettledAt(s, t, price)'
    <3>0. t - 1 \in Minutes
      BY DEF Minutes
    <3>1. /\ row[s][t - 1] # NoCandle /\ row[s][t - 1].close = price
          /\ row[s][t] # NoCandle => row[s][t].open = price
      BY <2>3 DEF SettledAt, SettledInTable
    <3>2. row'[s][t - 1] = row[s][t - 1]
      BY <2>1, <2>3, <3>0 DEF Saved
    <3>3. row'[s][t] # NoCandle => row'[s][t].open = price
      <4>1. CASE s = z /\ t = w
        <5>1. SettledInPass(p, s, t, price)
          BY <2>3 DEF SettledAt
        <5>2. pass[p].seen.prev # NoCandle /\ pass[p].seen.prev.close = price
          BY <2>1, <4>1, <5>1 DEF SettledInPass
        <5>3. row'[s][t] = c
          BY <2>1, <4>1 DEF Saved
        <5> QED BY <2>1, <5>2, <5>3
      <4>2. CASE ~(s = z /\ t = w)
        <5>1. row'[s][t] = row[s][t]
          BY <2>1, <4>2 DEF Saved
        <5> QED BY <3>1, <5>1
      <4> QED BY <4>1, <4>2
    <3>4. SettledInTable(s, t, price)'
      BY <3>1, <3>2, <3>3 DEF SettledInTable
    <3>5. \A r \in Requests : SettledInRequest(r, s, t, price)'
      BY <2>1, <2>3 DEF SettledAt, SettledInRequest
    <3>6. \A q \in Passes : SettledInPass(q, s, t, price)'
      BY <2>2, <2>3 DEF SettledAt, SettledInPass, Repairing
    <3> QED BY <3>4, <3>5, <3>6 DEF SettledAt
  <2>4. \A s \in Symbols : repaired[s] \subseteq repaired'[s]
    BY <2>1
  <2> QED BY <2>1, <2>3, <2>4 DEF Settled
<1>7. ASSUME NEW r \in Requests, NEW z \in Symbols, RequestReads(r, z)
      PROVE  Settled'
  <2>1. /\ request'[r].symbol = z /\ request'[r].data = row[z]
        /\ \A q \in Requests : q # r => request'[q] = request[q]
        /\ UNCHANGED <<settled, row, pass, repaired>>
    BY <1>7 DEF RequestReads, mainVars, TypeOK
  <2>2. ASSUME NEW s \in Symbols, NEW t \in Minutes \ {0}, NEW price, SettledAt(s, t, price)
        PROVE  SettledAt(s, t, price)'
    <3>1. SettledInTable(s, t, price)' /\ \A q \in Passes : SettledInPass(q, s, t, price)'
      BY <2>1, <2>2 DEF SettledAt, SettledInTable, SettledInPass, Repairing
    <3>2. SettledInRequest(r, s, t, price)'
      BY <2>1, <2>2 DEF SettledAt, SettledInTable, SettledInRequest
    <3>3. ASSUME NEW q \in Requests, q # r
          PROVE  SettledInRequest(q, s, t, price)'
      BY <2>1, <2>2, <3>3 DEF SettledAt, SettledInRequest
    <3> QED BY <3>1, <3>2, <3>3 DEF SettledAt
  <2> QED BY <2>1, <2>2 DEF Settled
<1>8. ASSUME NEW r \in Requests, RequestFills(r)
      PROVE  Settled'
  <2>1. PICK v, a \in Minutes, c \in Candle : Fills(r, v, a, c)
    BY <1>8, Filler
  <2> DEFINE z == request[r].symbol
             d == request[r].data
             w == v + 1
  <2>2. /\ z \in Symbols /\ w \in Minutes /\ w < a /\ v \in Nat /\ a \in Nat
        /\ request[r].at = "filling" /\ Saved(z, w, c)
        /\ d[v] # NoCandle /\ d[a] # NoCandle /\ d[w] = NoCandle
        /\ c.open = d[v].close
        /\ UNCHANGED <<settled, pass, repaired>>
    <3>1. /\ z \in Symbols /\ w \in Minutes /\ w < a /\ Gap(d, v, a)
          /\ request[r].at = "filling" /\ Saved(z, w, c)
          /\ c.open = d[v].close
          /\ UNCHANGED <<settled, pass, repaired>>
      BY <2>1 DEF Fills
    <3>2. v \in Nat /\ a \in Nat /\ v < w
      OBVIOUS
    <3>3. d[v] # NoCandle /\ d[a] # NoCandle /\ d[w] = NoCandle
      <4> HIDE DEF w, d
      <4> QED BY <3>1, <3>2 DEF Gap
    <3> QED BY <3>1, <3>2, <3>3
  <2>3. \A q \in Requests :
          /\ request'[q].at = request[q].at /\ request'[q].symbol = request[q].symbol
          /\ \A u \in Minutes :
               request'[q].data[u] = IF q = r /\ u = w THEN c ELSE request[q].data[u]
    BY <2>1 DEF Fills
  <2>4. ASSUME NEW s \in Symbols, NEW t \in Minutes \ {0}, NEW price, SettledAt(s, t, price)
        PROVE  SettledAt(s, t, price)'
    <3>0. t - 1 \in Minutes /\ t \in Nat /\ t >= 1
      BY DEF Minutes
    <3>1. /\ row[s][t - 1] # NoCandle /\ row[s][t - 1].close = price
          /\ row[s][t] # NoCandle => row[s][t].open = price
      BY <2>4 DEF SettledAt, SettledInTable
    <3>2. \A q \in Requests, u \in Minutes :
            request[q].at = "filling" /\ request[q].symbol = s /\ u >= t - 1
              /\ request[q].data[u] # NoCandle =>
                request[q].data[t - 1] # NoCandle /\ request[q].data[t - 1].close = price
      BY <2>4 DEF SettledAt, SettledInRequest
    <3>3. s = z /\ a >= t - 1 => d[t - 1] # NoCandle /\ d[t - 1].close = price
      BY <2>2, <3>2
    <3>4. ~(s = z /\ t - 1 = w)
      <4>1. t - 1 = w => a >= t - 1
        BY <2>2, <3>0
      <4> HIDE DEF d, z, w
      <4> QED BY <2>2, <3>3, <4>1
    <3>5. row'[s][t - 1] = row[s][t - 1]
      BY <2>2, <3>0, <3>4 DEF Saved
    <3>6. row'[s][t] # NoCandle => row'[s][t].open = price
      <4>1. CASE s = z /\ t = w
        <5>1. t - 1 = v /\ a >= t - 1
          BY <2>2, <3>0, <4>1
        <5>2. row'[s][t] = c
          BY <2>2, <4>1 DEF Saved
        <5> HIDE DEF d, z, w
        <5> QED BY <2>2, <3>3, <4>1, <5>1, <5>2
      <4>2. CASE ~(s = z /\ t = w)
        <5>1. row'[s][t] = row[s][t]
          BY <2>2, <4>2 DEF Saved
        <5> QED BY <3>1, <5>1
      <4> QED BY <4>1, <4>2
    <3>7. SettledInTable(s, t, price)' /\ \A p \in Passes : SettledInPass(p, s, t, price)'
      BY <2>2, <2>4, <3>1, <3>5, <3>6 DEF SettledAt, SettledInTable, SettledInPass, Repairing
    <3>8. ASSUME NEW q \in Requests, request'[q].at = "filling", request'[q].symbol = s,
                 NEW u \in Minutes, u >= t - 1, request'[q].data[u] # NoCandle
          PROVE  /\ request'[q].data[t - 1] # NoCandle
                 /\ request'[q].data[t - 1].close = price
      <4>1. request[q].at = "filling" /\ request[q].symbol = s
        BY <2>3, <3>8
      <4>2. request'[q].data[t - 1] = request[q].data[t - 1]
        <5>1. ~(q = r /\ t - 1 = w)
          BY <3>4, <4>1
        <5> QED BY <2>3, <3>0, <5>1
      <4>3. request[q].data[t - 1] # NoCandle /\ request[q].data[t - 1].close = price
        <5>1. CASE q = r /\ u = w
          <6>1. a >= t - 1 /\ s = z
            BY <2>2, <3>0, <3>8, <4>1, <5>1
          <6> QED BY <3>3, <5>1, <6>1
        <5>2. CASE ~(q = r /\ u = w)
          <6>1. request[q].data[u] # NoCandle
            BY <2>3, <3>8, <5>2
          <6> QED BY <3>2, <3>8, <4>1, <6>1
        <5> QED BY <5>1, <5>2
      <4> QED BY <4>2, <4>3
    <3>9. \A q \in Requests : SettledInRequest(q, s, t, price)'
      BY <3>8 DEF SettledInRequest
    <3> QED BY <3>7, <3>9 DEF SettledAt
  <2> QED BY <2>2, <2>4 DEF Settled
<1>9. ASSUME NEW r \in Requests, RequestEnds(r)
      PROVE  Settled'
  <2>1. /\ request'[r].at = "off"
        /\ \A q \in Requests : q # r => request'[q] = request[q]
        /\ UNCHANGED <<settled, row, pass, repaired>>
    BY <1>9 DEF RequestEnds, Answered, mainVars, TypeOK
  <2>2. ASSUME NEW s \in Symbols, NEW t \in Minutes \ {0}, NEW price, SettledAt(s, t, price)
        PROVE  SettledAt(s, t, price)'
    <3>1. SettledInTable(s, t, price)' /\ \A q \in Passes : SettledInPass(q, s, t, price)'
      BY <2>1, <2>2 DEF SettledAt, SettledInTable, SettledInPass, Repairing
    <3>2. ASSUME NEW q \in Requests
          PROVE  SettledInRequest(q, s, t, price)'
      BY <2>1, <2>2 DEF SettledAt, SettledInRequest
    <3> QED BY <3>1, <3>2 DEF SettledAt
  <2> QED BY <2>1, <2>2 DEF Settled
<1> QED BY <1>1, <1>2, <1>3, <1>4, <1>5, <1>6, <1>7, <1>8, <1>9
        DEF Next, MainStep, PassStep, WakeUp, Overrun, StartMinute, vars, mainVars, Tick,
            MainReads, MainFails

-----------------------------------------------------------------------------
(***************************************************************************)
(* makeOhlcResponse, for the candles of any consecutive minutes.           *)
(***************************************************************************)
\* A set of numbers up to n has a greatest.
LEMMA MaxIn ==
    ASSUME NEW n \in Nat, NEW S \in SUBSET (0..n), S # {}
    PROVE  Max(S) \in S /\ \A y \in S : y <= Max(S)
<1> DEFINE away == {n - x : x \in S}
<1>1. away \in SUBSET Nat /\ away # {}
  <2>1. \A x \in S : x \in Nat /\ x <= n
    OBVIOUS
  <2>2. \A x \in S : n - x \in Nat
    BY <2>1
  <2>3. PICK y : y \in S
    OBVIOUS
  <2> QED BY <2>2, <2>3
<1> DEFINE least == Min(away)
<1>2. least \in away /\ \A y \in away : least <= y
  <2> HIDE DEF away
  <2> QED BY <1>1, MinIn
<1> HIDE DEF least
<1>3. PICK x \in S : least = n - x
  BY <1>2
<1>4. ASSUME NEW y \in S
      PROVE  y <= x
  <2>1. n - x <= n - y
    BY <1>2, <1>3
  <2> QED BY <2>1
<1> QED BY <1>4 DEF Max

-----------------------------------------------------------------------------
(* Sequences of times in ascending order. *)

\* Numbers that ascend.
Ascends(s) == \A i, j \in DOMAIN s : i < j => s[i] < s[j]

\* Sequences that ascend are the enumeration of what is in them.
LEMMA OrderOf ==
    ASSUME NEW s \in Seq(Nat), Ascends(s), NEW times, times = {s[i] : i \in DOMAIN s}
    PROVE  InOrder(times) = s
<1> DEFINE upTo(t) == {u \in times : u <= t}
<1>1. ASSUME NEW k \in DOMAIN s
      PROVE  Cardinality(upTo(s[k])) = k /\ k \in Nat
  <2>1. upTo(s[k]) = {s[i] : i \in 1..k}
    <3>1. \A i \in DOMAIN s : s[i] <= s[k] <=> i <= k
      BY DEF Ascends
    <3> QED BY <3>1
  <2> DEFINE f == [i \in 1..k |-> s[i]]
             S == 1..k
             T == {s[i] : i \in 1..k}
  <2>2. \A i, j \in S : f[i] = f[j] => i = j
    <3>1. DOMAIN s \subseteq Nat /\ k \in Nat /\ \A i \in S : i \in DOMAIN s /\ s[i] \in Nat
      OBVIOUS
    <3>2. \A i, j \in S : i < j => s[i] < s[j]
      BY <3>1 DEF Ascends
    <3>3. \A i, j \in S : i < j \/ j < i \/ i = j
      OBVIOUS
    <3>4. \A x, y \in Nat : x < y => x # y
      OBVIOUS
    <3>5. \A i, j \in S : i < j => f[i] # f[j]
      BY <3>1, <3>2, <3>4
    <3> QED BY <3>3, <3>5
  <2>3. f \in Bijection(S, T)
    <3>1. f \in [S -> T] /\ \A t \in T : \E i \in S : f[i] = t
      OBVIOUS
    <3> HIDE DEF f, S, T
    <3> QED BY <2>2, <3>1 DEF Bijection, Injection, Surjection, IsInjective
  <2>4. \A n \in Nat : n # 0 => IsFiniteSet(1..n) /\ Cardinality(1..n) = n
    BY FS_Interval
  <2>5. k \in Nat /\ k # 0
    OBVIOUS
  <2>6. IsFiniteSet(S) /\ Cardinality(S) = k
    BY <2>4, <2>5
  <2>7. Cardinality(T) = Cardinality(S)
    <3> HIDE DEF f, S, T
    <3>1. ExistsBijection(S, T)
      BY <2>3 DEF ExistsBijection
    <3> QED BY <2>6, <3>1, FS_Bijection
  <2> QED BY <2>1, <2>5, <2>6, <2>7
<1>2. ASSUME NEW k \in DOMAIN s
      PROVE  (CHOOSE t \in times : Cardinality(upTo(t)) = k) = s[k]
  <2>1. s[k] \in times /\ Cardinality(upTo(s[k])) = k
    BY <1>1
  <2>2. ASSUME NEW t \in times, Cardinality(upTo(t)) = k
        PROVE  t = s[k]
    <3>1. PICK i \in DOMAIN s : t = s[i]
      OBVIOUS
    <3>2. Cardinality(upTo(s[i])) = i
      BY <1>1
    <3> QED BY <2>2, <3>1, <3>2
  <2> HIDE DEF upTo
  <2> QED BY <2>1, <2>2
<1>3. Cardinality(times) = Len(s)
  <2>1. CASE s = <<>>
    <3>1. times = {} /\ Len(s) = 0
      BY <2>1
    <3> QED BY <3>1, FS_EmptySet
  <2>2. CASE s # <<>>
    <3>1. Len(s) \in DOMAIN s
      BY <2>2
    <3>2. upTo(s[Len(s)]) = times
      <4>1. \A i \in DOMAIN s : s[i] <= s[Len(s)]
        BY <3>1 DEF Ascends
      <4> QED BY <4>1
    <3> QED BY <1>1, <3>1, <3>2
  <2> QED BY <2>1, <2>2
<1>4. DOMAIN s = 1..Cardinality(times)
  BY <1>3
<1>5. InOrder(times) = [k \in DOMAIN s |-> s[k]]
  BY <1>2, <1>4 DEF InOrder
<1> QED BY <1>5

-----------------------------------------------------------------------------
(* Intervals of n minutes. *)

\* The interval of a minute contains it.
LEMMA BucketTyped ==
    ASSUME NEW n \in Nat \ {0}, NEW x \in Nat
    PROVE  /\ BucketOf(x, n) \in Nat /\ BucketOf(x, n) <= x /\ x < BucketOf(x, n) + n
           /\ BucketOf(x, n) % n = 0
<1>1. x = n * (x \div n) + (x % n) /\ x % n \in 0..(n - 1) /\ x \div n \in Nat
  OBVIOUS
<1>2. BucketOf(x, n) = n * (x \div n)
  BY <1>1 DEF BucketOf
<1>3. (n * (x \div n)) % n = 0
  BY <1>1
<1> QED BY <1>1, <1>2, <1>3

\* The minutes of the interval that begins at x.
LEMMA BucketWithin ==
    ASSUME NEW n \in Nat \ {0}, NEW x \in Nat, x % n = 0, NEW y \in Nat, x <= y, y < x + n
    PROVE  BucketOf(y, n) = x
<1> DEFINE q == x \div n
<1>1. x = n * q /\ q \in Nat
  OBVIOUS
<1>2. y = n * (y \div n) + (y % n) /\ y % n \in 0..(n - 1) /\ y \div n \in Nat
  OBVIOUS
<1>3. y \div n = q
  BY <1>1, <1>2
<1> QED BY <1>1, <1>2, <1>3 DEF BucketOf

\* Beginnings of intervals are n apart, at least.
LEMMA BeginningsApart ==
    ASSUME NEW n \in Nat \ {0}, NEW x \in Nat, x % n = 0, NEW y \in Nat, y % n = 0, x < y
    PROVE  x + n <= y
<1> SUFFICES ASSUME y < x + n PROVE FALSE
  OBVIOUS
<1>1. BucketOf(y, n) = x
  BY BucketWithin
<1>2. BucketOf(y, n) = y
  BY DEF BucketOf
<1> QED BY <1>1, <1>2

\* Intervals begin n, 2 * n, ... minutes after one that begins.
LEMMA Multiples ==
    ASSUME NEW n \in Nat \ {0}, NEW x \in Nat, x % n = 0, NEW k \in Nat
    PROVE  x + k * n \in Nat /\ (x + k * n) % n = 0
<1>1. x = n * (x \div n) /\ x \div n \in Nat
  OBVIOUS
<1>2. x + k * n = n * (x \div n + k)
  BY <1>1
<1> DEFINE z == x \div n + k
<1>3. z \in Nat /\ x + k * n \in Nat
  BY <1>1
<1>4. \A i \in Nat : (n * i) % n = 0
  OBVIOUS
<1> HIDE DEF z
<1>5. (n * z) % n = 0
  BY <1>3, <1>4
<1> QED BY <1>2, <1>3, <1>5 DEF z

\* Beginnings of intervals are a number of intervals apart.
LEMMA Multiple ==
    ASSUME NEW n \in Nat \ {0}, NEW x \in Nat, x % n = 0, NEW y \in Nat, y % n = 0, x <= y
    PROVE  \E e \in Nat : y = x + e * n
<1>1. x = n * (x \div n) /\ x \div n \in Nat /\ y = n * (y \div n) /\ y \div n \in Nat
  OBVIOUS
<1>2. x \div n <= y \div n
  BY <1>1
<1>3. y \div n - x \div n \in Nat /\ y = x + (y \div n - x \div n) * n
  BY <1>1, <1>2
<1> QED BY <1>3

\* Division with a rest.
LEMMA DivIs ==
    ASSUME NEW n \in Nat \ {0}, NEW q \in Nat, NEW r \in 0..(n - 1)
    PROVE  (q * n + r) \div n = q
<1> DEFINE x == q * n + r
<1>1. q * n \in Nat /\ x \in Nat
  OBVIOUS
<1>2. x = n * (x \div n) + (x % n) /\ x % n \in 0..(n - 1) /\ x \div n \in Nat
  BY <1>1
<1>3. x \div n = q
  <2> DEFINE p == x \div n
  <2>1. p \in Nat /\ x = n * p + (x % n) /\ x = n * q + r
    BY <1>1, <1>2
  <2>2. ASSUME p < q PROVE FALSE
    <3>1. q - p \in Nat /\ q - p >= 1
      BY <2>1, <2>2
    <3>2. n * q = n * p + n * (q - p) /\ n * (q - p) >= n
      BY <2>1, <3>1
    <3> QED BY <1>2, <2>1, <3>2
  <2>3. ASSUME q < p PROVE FALSE
    <3>1. p - q \in Nat /\ p - q >= 1
      BY <2>1, <2>3
    <3>2. n * p = n * q + n * (p - q) /\ n * (p - q) >= n
      BY <2>1, <3>1
    <3> QED BY <1>2, <2>1, <3>2
  <2> QED BY <2>1, <2>2, <2>3
<1> QED BY <1>3

\* Times a step of n apart.
LEMMA Steps ==
    ASSUME NEW n \in Nat \ {0}, NEW i \in Nat, NEW j \in Nat, i < j
    PROVE  i * n \in Nat /\ j * n \in Nat /\ i * n + n <= j * n /\ (i + 1) * n = i * n + n
<1>1. i * n \in Nat /\ j * n \in Nat /\ (i + 1) * n = i * n + n
  OBVIOUS
<1>2. j - (i + 1) \in Nat /\ (j - (i + 1)) * n \in Nat
  OBVIOUS
<1>3. j * n = (i + 1) * n + (j - (i + 1)) * n
  BY <1>2
<1> QED BY <1>1, <1>2, <1>3

\* What the loops over startIndex take: none of no indices, ...
LEMMA NoneTaken ==
    ASSUME NEW n \in Nat \ {0}, NEW i \in Nat \ {0}
    PROVE  Every(i, i - 1, n) = <<>>
<1>1. i - 1 + n - i = 0 * n + (n - 1) /\ n - 1 \in 0..(n - 1)
  OBVIOUS
<1>2. (i - 1 + n - i) \div n = 0
  BY <1>1, DivIs
<1> QED BY <1>2 DEF Every

\* ... one of no more than n, ...
LEMMA OneTaken ==
    ASSUME NEW n \in Nat \ {0}, NEW i \in Nat \ {0}, NEW j \in Nat, i <= j, j < i + n
    PROVE  Every(i, j, n) = <<i>>
<1>1. j + n - i = 1 * n + (j - i) /\ j - i \in 0..(n - 1)
  OBVIOUS
<1>2. (j + n - i) \div n = 1
  <2> DEFINE r == j - i
  <2>1. (1 * n + r) \div n = 1
    <3>1. r \in 0..(n - 1) /\ 1 \in Nat
      BY <1>1
    <3> HIDE DEF r
    <3> QED BY <3>1, DivIs
  <2> QED BY <1>1, <2>1
<1>3. Every(i, j, n) = [k \in 1..1 |-> i + (k - 1) * n]
  BY <1>2 DEF Every
<1>4. \A k \in 1..1 : i + (k - 1) * n = i
  OBVIOUS
<1> QED BY <1>3, <1>4

\* ... and e of e * n.
LEMMA ManyTaken ==
    ASSUME NEW n \in Nat \ {0}, NEW i \in Nat \ {0}, NEW e \in Nat
    PROVE  Every(i, i + e * n - 1, n) = [k \in 1..e |-> i + (k - 1) * n]
<1>1. e * n \in Nat
  OBVIOUS
<1> DEFINE j == i + e * n - 1
<1>2. j + n - i = e * n + (n - 1) /\ n - 1 \in 0..(n - 1)
  BY <1>1
<1>3. (j + n - i) \div n = e
  <2> HIDE DEF j
  <2> QED BY <1>2, DivIs
<1> QED BY <1>3 DEF Every

-----------------------------------------------------------------------------
(* The candles of a chart. *)

\* The candles of m consecutive minutes, from minute a on.
Stretch(d, a, m) ==
    Len(d) = m /\ DOMAIN d = 1..m /\ \A i \in 1..m : d[i].time = a + i - 1

\* What a chart is made of, and what it consists of, with prices of V.
Inputs(V) == Seq([time : Nat, open : V, close : V])
ChartCandles(V) == [t : Nat, o : V, c : V]
Answers(V) == Seq(ChartCandles(V))

\* The candles of a response before the current one is added.
Buckets(d, n) ==
    LET beginnings == Beginnings(d, n)
    IN  IF beginnings = {} THEN WithoutBeginning(d, n)
        ELSE RestOfInterval(d, n, Min(beginnings))
                 \o WholeIntervals(d, n, Min(beginnings), Max(beginnings))
                 \o NewestInterval(d, n, Max(beginnings))

\* Where an answer cuts its data: its candles cover one interval each, in order.
Cuts(d, n, c, cut) ==
    /\ cut \in [1..(Len(c) + 1) -> 1..(Len(d) + 1)]
    /\ cut[1] = 1 /\ cut[Len(c) + 1] = Len(d) + 1
    /\ \A k \in DOMAIN c :
         /\ cut[k] < cut[k + 1]
         /\ c[k] = Bucket(d, cut[k], cut[k + 1] - 1, c[k].t)
         /\ \A i \in DOMAIN d : cut[k] <= i /\ i < cut[k + 1] => BucketOf(d[i].time, n) = c[k].t
    /\ \A k, l \in DOMAIN c : k < l => c[k].t < c[l].t

\* The candle made of the candles from i to j.
LEMMA BucketIn ==
    ASSUME NEW V, NEW d \in Inputs(V), NEW i \in DOMAIN d, NEW j \in DOMAIN d, NEW t \in Nat
    PROVE  /\ Bucket(d, i, j, t) \in ChartCandles(V)
           /\ Bucket(d, i, j, t).t = t
           /\ Bucket(d, i, j, t).o = d[i].open /\ Bucket(d, i, j, t).c = d[j].close
<1> DEFINE R == [time : Nat, open : V, close : V]
<1>1. d \in Seq(R)
  BY DEF Inputs
<1> HIDE DEF R
<1>2. d[i] \in R /\ d[j] \in R
  BY <1>1
<1> QED BY <1>2 DEF Bucket, R, ChartCandles

\* Data in which no interval begins, or only with its first candle, is of one interval.
LEMMA OneInterval ==
    ASSUME NEW n \in Nat \ {0}, NEW a \in Nat, NEW z \in Nat, a <= z,
           \A x \in Nat : a < x /\ x <= z => x % n # 0
    PROVE  /\ \A x \in Nat : a <= x /\ x <= z => BucketOf(x, n) = BucketOf(a, n)
           /\ z < BucketOf(a, n) + n
<1>1. ASSUME NEW x \in Nat, a <= x, x <= z
      PROVE  BucketOf(x, n) = BucketOf(a, n)
  <2> DEFINE b == BucketOf(x, n)
  <2>1. b \in Nat /\ b <= x /\ x < b + n /\ b % n = 0
    BY BucketTyped
  <2>2. b <= a
    BY <1>1, <2>1
  <2> HIDE DEF b
  <2>3. a < b + n
    BY <1>1, <2>1
  <2>4. BucketOf(a, n) = b
    BY <2>1, <2>2, <2>3, BucketWithin
  <2> QED BY <2>4 DEF b
<1>2. BucketOf(z, n) = BucketOf(a, n) /\ z < BucketOf(z, n) + n
  BY <1>1, BucketTyped
<1> QED BY <1>1, <1>2

\* The first and the last of m candles from minute a on that begin an interval.
Ends(n, a, m, f, l) ==
    /\ f \in 1..m /\ (a + f - 1) % n = 0
    /\ l \in 1..m /\ (a + l - 1) % n = 0 /\ m < l + n
    /\ \E e \in Nat : l = f + e * n
    /\ f > 1 => /\ a + f - 1 = BucketOf(a, n) + n
                /\ \A x \in Nat : a <= x /\ x < a + f - 1 => BucketOf(x, n) = BucketOf(a, n)

\* firstIndex and lastIndex.
LEMMA FirstAndLast ==
    ASSUME NEW d, NEW n \in Nat \ {0}, NEW a \in Nat, NEW m \in Nat, Stretch(d, a, m),
           Beginnings(d, n) # {},
           NEW f, f = Min(Beginnings(d, n)), NEW l, l = Max(Beginnings(d, n))
    PROVE  Ends(n, a, m, f, l)
<1> DEFINE S == Beginnings(d, n)
<1>1. DOMAIN d = 1..m
  BY DEF Stretch
<1>2. \A i \in 1..m : i \in S <=> (a + i - 1) % n = 0
  BY <1>1 DEF Beginnings, Stretch
<1>3. S \in SUBSET (1..m)
  BY <1>1 DEF Beginnings
<1>4. S \in SUBSET Nat /\ S \in SUBSET (0..m)
  BY <1>3
<1> HIDE DEF S
<1>5. f \in S /\ \A i \in S : f <= i
  BY <1>4, MinIn DEF S
<1>6. l \in S /\ \A i \in S : i <= l
  BY <1>4, MaxIn DEF S
<1>7. f \in 1..m /\ (a + f - 1) % n = 0 /\ l \in 1..m /\ (a + l - 1) % n = 0 /\ f <= l
  BY <1>2, <1>3, <1>5, <1>6
<1> DEFINE x == a + f - 1
           y == a + l - 1
           z == a + m - 1
<1>12. /\ m \in Nat /\ f \in Nat /\ l \in Nat /\ 1 <= f /\ f <= l /\ l <= m
  <2>1. f \in 1..m /\ l \in 1..m /\ f <= l
    BY <1>3, <1>5, <1>6
  <2> QED BY <1>1, <2>1
<1>8. /\ x \in Nat /\ y \in Nat /\ z \in Nat /\ x <= y /\ y <= z /\ a <= x
      /\ x % n = 0 /\ y % n = 0
  <2>1. x \in Nat /\ y \in Nat /\ z \in Nat /\ x <= y /\ y <= z /\ a <= x
    BY <1>12
  <2> QED BY <1>7, <2>1
<1>9. m < l + n
  <2> DEFINE b == BucketOf(z, n)
  <2>1. b \in Nat /\ b <= z /\ z < b + n /\ b % n = 0
    BY <1>8, BucketTyped
  <2>2. b <= y
    <3> HIDE DEF b
    <3> SUFFICES ASSUME y < b PROVE FALSE
      BY <1>8, <2>1
    <3> DEFINE i == b - a + 1
    <3>1. i \in 1..m /\ a + i - 1 = b /\ i > l
      BY <1>12, <2>1
    <3> HIDE DEF i
    <3>2. i \in S
      BY <1>2, <2>1, <3>1
    <3> QED BY <1>6, <1>7, <3>1, <3>2
  <2> HIDE DEF b
  <2> QED BY <1>12, <2>1, <2>2
<1>10. \E e \in Nat : l = f + e * n
  <2> HIDE DEF x, y
  <2>1. PICK e \in Nat : y = x + e * n
    BY <1>8, Multiple
  <2>2. e * n \in Nat
    OBVIOUS
  <2>3. l = f + e * n
    BY <1>7, <2>1, <2>2 DEF x, y
  <2> QED BY <2>3
<1>11. ASSUME f > 1
       PROVE  /\ a + f - 1 = BucketOf(a, n) + n
              /\ \A u \in Nat : a <= u /\ u < a + f - 1 => BucketOf(u, n) = BucketOf(a, n)
  <2> DEFINE w == a + f - 2
  <2>1. w \in Nat /\ a <= w /\ w < x /\ x = w + 1
    BY <1>7, <1>11
  <2>2. ASSUME NEW u \in Nat, a < u, u <= w
        PROVE  u % n # 0
    <3> DEFINE i == u - a + 1
    <3>1. i \in 1..m /\ a + i - 1 = u /\ i < f
      BY <1>12, <2>1, <2>2
    <3> HIDE DEF i
    <3>2. i \notin S
      BY <1>5, <1>7, <3>1
    <3> QED BY <1>2, <3>1, <3>2
  <2> HIDE DEF w
  <2>3. /\ \A u \in Nat : a <= u /\ u <= w => BucketOf(u, n) = BucketOf(a, n)
        /\ w < BucketOf(a, n) + n
    BY <2>1, <2>2, OneInterval
  <2> DEFINE b == BucketOf(a, n)
  <2>4. b \in Nat /\ b <= a /\ b % n = 0
    BY BucketTyped
  <2> HIDE DEF b, x
  <2>5. b + n <= x
    <3>1. b < x
      BY <1>8, <2>1, <2>4
    <3> QED BY <1>8, <2>4, <3>1, BeginningsApart
  <2>6. x = b + n
    BY <1>8, <2>1, <2>3, <2>4, <2>5 DEF b
  <2>7. \A u \in Nat : u < x => u <= w
    BY <1>8, <2>1
  <2> QED BY <2>3, <2>6, <2>7 DEF b, x
<1> QED BY <1>7, <1>9, <1>10, <1>11 DEF Ends

\* The intervals between the first and the last.
WholeFrom(d, n, a, f, e) ==
    [k \in 1..e |-> Bucket(d, f + (k - 1) * n, f + (k - 1) * n + n - 1, a + f + (k - 1) * n - 1)]

\* WholeIntervals gives e candles of n minutes when the last interval begins
\* e * n candles after the first.
LEMMA WholeAre ==
    ASSUME NEW d, NEW n \in Nat \ {0}, NEW a \in Nat, NEW m \in Nat, Stretch(d, a, m),
           NEW f \in 1..m, NEW l \in 1..m, NEW e \in Nat, l = f + e * n
    PROVE  WholeIntervals(d, n, f, l) = WholeFrom(d, n, a, f, e)
<1>1. DOMAIN d = 1..m
  BY DEF Stretch
<1>2. e * n \in Nat /\ l - 1 = f + e * n - 1 /\ f \in Nat \ {0} /\ l \in Nat
  BY <1>1
<1> DEFINE is == Every(f, l - 1, n)
           at(k) == f + (k - 1) * n
<1>3. is = [k \in 1..e |-> at(k)]
  <2>1. Every(f, f + e * n - 1, n) = [k \in 1..e |-> f + (k - 1) * n]
    BY <1>2, ManyTaken
  <2> QED BY <1>2, <2>1
<1>4. ASSUME NEW k \in 1..e
      PROVE  /\ is[k] = at(k) /\ at(k) \in DOMAIN d /\ d[at(k)].time = a + f + (k - 1) * n - 1
             /\ Min({is[k] + n - 1, l - 1}) = f + (k - 1) * n + n - 1
  <2>1. is[k] = at(k)
    BY <1>3
  <2>2. (k - 1) * n \in Nat /\ (k - 1) * n + n <= e * n
    BY Steps
  <2> DEFINE o == (k - 1) * n
             w == e * n
  <2>3. o \in Nat /\ w \in Nat /\ o + n <= w /\ l = f + w /\ at(k) = f + o
    BY <1>2, <2>2
  <2> HIDE DEF o, w, at
  <2>4. at(k) \in DOMAIN d /\ at(k) + n - 1 <= l - 1
    BY <1>1, <1>2, <2>3
  <2>5. d[at(k)].time = a + f + o - 1
    <3>1. d[at(k)].time = a + at(k) - 1
      BY <1>1, <2>4 DEF Stretch
    <3> QED BY <1>2, <2>3, <3>1
  <2> DEFINE u == at(k) + n - 1
             v == l - 1
  <2>6. u \in Nat /\ v \in Nat /\ u <= v
    BY <1>2, <2>3
  <2>7. Min({u, v}) = u
    <3> HIDE DEF u, v
    <3>1. {u, v} \in SUBSET Nat /\ {u, v} # {}
      BY <2>6
    <3> DEFINE both == {u, v}
    <3>2. Min(both) \in both /\ \A y \in both : Min(both) <= y
      <4> HIDE DEF both
      <4> QED BY <3>1, MinIn DEF both
    <3> QED BY <2>6, <3>2
  <2>8. u = f + o + n - 1
    BY <2>3
  <2> QED BY <2>1, <2>4, <2>5, <2>7, <2>8 DEF o
<1>5. DOMAIN is = 1..e
  BY <1>3
<1> HIDE DEF is
<1>6. WholeIntervals(d, n, f, l) =
        [k \in 1..e |-> Bucket(d, is[k], Min({is[k] + n - 1, l - 1}), d[is[k]].time)]
  BY <1>5 DEF WholeIntervals, is
<1>7. ASSUME NEW k \in 1..e
      PROVE  Bucket(d, is[k], Min({is[k] + n - 1, l - 1}), d[is[k]].time) =
               Bucket(d, f + (k - 1) * n, f + (k - 1) * n + n - 1, a + f + (k - 1) * n - 1)
  BY <1>4
<1> QED BY <1>6, <1>7 DEF WholeFrom

\* Data of a single interval, none of whose candles begins it.
LEMMA OneCut ==
    ASSUME NEW V, NEW d \in Inputs(V), NEW n \in Nat \ {0}, NEW a \in Nat,
           NEW m \in Nat \ {0}, Stretch(d, a, m), Beginnings(d, n) = {}
    PROVE  /\ Buckets(d, n) \in Answers(V) /\ Buckets(d, n) # <<>>
           /\ \E cut : Cuts(d, n, Buckets(d, n), cut)
<1> DEFINE c == Buckets(d, n)
           R == ChartCandles(V)
           z == a + m - 1
<1>1. DOMAIN d = 1..m /\ 1 \in DOMAIN d /\ m \in DOMAIN d
  BY DEF Stretch
<1>2. z \in Nat /\ a <= z
  OBVIOUS
<1>3. ASSUME NEW x \in Nat, a < x, x <= z
      PROVE  x % n # 0
  <2> DEFINE i == x - a + 1
  <2>1. i \in 1..m /\ a + i - 1 = x
    BY <1>3
  <2> HIDE DEF i
  <2>2. d[i].time = x
    BY <1>1, <2>1 DEF Stretch
  <2> QED BY <1>1, <2>1, <2>2 DEF Beginnings
<1> HIDE DEF z
<1>4. /\ \A x \in Nat : a <= x /\ x <= z => BucketOf(x, n) = BucketOf(a, n)
      /\ z < BucketOf(a, n) + n
  BY <1>2, <1>3, OneInterval
<1> DEFINE b == BucketOf(a, n)
           only == Bucket(d, 1, m, b)
<1>5. b \in Nat /\ b <= a
  BY BucketTyped
<1> HIDE DEF b
<1>6. m < 1 + n
  <2>1. z < b + n
    BY <1>4 DEF b
  <2> QED BY <1>5, <2>1 DEF z
<1>7. Every(1, m, n) = <<1>>
  BY <1>6, OneTaken
<1>8. d[1].time = a
  BY <1>1 DEF Stretch
<1>9. c = <<only>>
  <2>1. c = WithoutBeginning(d, n)
    BY DEF Buckets
  <2>2. WithoutBeginning(d, n) = [k \in DOMAIN <<1>> |->
           Bucket(d, <<1>>[k], m, BucketOf(d[<<1>>[k]].time, n))]
    BY <1>7 DEF WithoutBeginning, Stretch
  <2>3. DOMAIN <<1>> = 1..1 /\ \A k \in 1..1 : <<1>>[k] = 1
    OBVIOUS
  <2>4. WithoutBeginning(d, n) = [k \in 1..1 |-> only]
    BY <1>8, <2>2, <2>3 DEF b
  <2> QED BY <2>1, <2>4
<1>10. only \in R /\ only.t = b
  <2>1. \A i, j \in DOMAIN d : \A x \in Nat : Bucket(d, i, j, x) \in R /\ Bucket(d, i, j, x).t = x
    BY BucketIn
  <2> HIDE DEF R
  <2> QED BY <1>1, <1>5, <2>1
<1> DEFINE cut == [k \in 1..2 |-> IF k = 1 THEN 1 ELSE m + 1]
<1> HIDE DEF only, c
<1>11. c \in Seq(R) /\ Len(c) = 1 /\ DOMAIN c = 1..1 /\ c[1] = only
  BY <1>9, <1>10
<1>12. cut \in [1..(Len(c) + 1) -> 1..(m + 1)] /\ cut[1] = 1 /\ cut[2] = m + 1 /\ Len(c) + 1 = 2
  BY <1>11
<1>13. \A i \in DOMAIN d : BucketOf(d[i].time, n) = b
  <2>1. \A i \in 1..m : a + i - 1 \in Nat /\ a <= a + i - 1 /\ a + i - 1 <= z
    BY DEF z
  <2>2. \A i \in 1..m : d[i].time = a + i - 1
    BY <1>1 DEF Stretch
  <2> QED BY <1>1, <1>4, <2>1, <2>2 DEF b
<1> HIDE DEF cut
<1>14. ASSUME NEW k \in DOMAIN c
       PROVE  /\ cut[k] < cut[k + 1]
              /\ c[k] = Bucket(d, cut[k], cut[k + 1] - 1, c[k].t)
              /\ \A i \in DOMAIN d : cut[k] <= i /\ i < cut[k + 1] =>
                   BucketOf(d[i].time, n) = c[k].t
  <2>1. k = 1 /\ k + 1 = 2
    BY <1>11
  <2>2. cut[k] = 1 /\ cut[k + 1] - 1 = m /\ cut[k] < cut[k + 1]
    BY <1>12, <2>1
  <2>3. c[k] = only /\ c[k].t = b
    BY <1>10, <1>11, <2>1
  <2>4. c[k] = Bucket(d, cut[k], cut[k + 1] - 1, c[k].t)
    BY <2>2, <2>3 DEF only
  <2> QED BY <1>13, <2>2, <2>3, <2>4
<1>15. \A k, j \in DOMAIN c : ~(k < j)
  BY <1>11
<1>16. Cuts(d, n, c, cut)
  BY <1>11, <1>12, <1>14, <1>15 DEF Cuts, Stretch
<1>17. \E g : Cuts(d, n, c, g)
  BY <1>16
<1>18. c \in Seq(R) /\ c # <<>>
  BY <1>11
<1> QED BY <1>17, <1>18 DEF Answers, c

\* The candles before the first beginning, if any, are of one interval.
LEMMA RestIs ==
    ASSUME NEW d, NEW n \in Nat \ {0}, NEW f \in Nat \ {0}, NEW b \in Nat,
           f > 1 => d[f].time = b + n /\ f <= n + 1
    PROVE  RestOfInterval(d, n, f) =
             IF f > 1 THEN <<Bucket(d, 1, f - 1, b)>> ELSE <<>>
<1> DEFINE first == Bucket(d, 1, f - 1, b)
<1>1. CASE f = 1
  <2>1. Every(1, f - 1, n) = <<>>
    BY <1>1, NoneTaken
  <2> QED BY <1>1, <2>1 DEF RestOfInterval
<1>2. CASE f > 1
  <2> DEFINE j == f - 1
  <2>1. j \in Nat /\ 1 <= j /\ j < 1 + n
    BY <1>2
  <2> HIDE DEF j
  <2>2. Every(1, j, n) = <<1>>
    BY <2>1, OneTaken
  <2>3. DOMAIN <<1>> = 1..1 /\ \A k \in 1..1 : <<1>>[k] = 1
    OBVIOUS
  <2>4. d[f].time - n = b
    BY <1>2
  <2>5. RestOfInterval(d, n, f) =
          [k \in DOMAIN <<1>> |-> Bucket(d, <<1>>[k], f - 1, d[f].time - n)]
    BY <2>2 DEF RestOfInterval, j
  <2>6. RestOfInterval(d, n, f) = [k \in 1..1 |-> first]
    BY <2>3, <2>4, <2>5
  <2> HIDE DEF first
  <2>7. [k \in 1..1 |-> first] = <<first>>
    OBVIOUS
  <2> QED BY <1>2, <2>6, <2>7 DEF first
<1> QED BY <1>1, <1>2

\* The candles from the last beginning on are of one interval.
LEMMA NewestIs ==
    ASSUME NEW d, NEW n \in Nat \ {0}, NEW l \in Nat \ {0}, NEW m \in Nat, Len(d) = m,
           l <= m, m < l + n
    PROVE  NewestInterval(d, n, l) = <<Bucket(d, l, m, d[l].time)>>
<1> DEFINE newest == Bucket(d, l, m, d[l].time)
<1>1. Every(l, m, n) = <<l>>
  BY OneTaken
<1>2. DOMAIN <<l>> = 1..1 /\ \A k \in 1..1 : <<l>>[k] = l
  OBVIOUS
<1>3. NewestInterval(d, n, l) = [k \in DOMAIN <<l>> |-> Bucket(d, <<l>>[k], m, d[<<l>>[k]].time)]
  BY <1>1 DEF NewestInterval
<1>4. NewestInterval(d, n, l) = [k \in 1..1 |-> newest]
  BY <1>2, <1>3
<1> HIDE DEF newest
<1> QED BY <1>4 DEF newest

\* Parts of an answer, one after the other.
ThreeOf(R, c, p, e, r, w, x) ==
    /\ c \in Seq(R) /\ Len(c) = p + e + 1
    /\ \A k \in 1..(p + e + 1) :
         c[k] = IF k <= p THEN r[k] ELSE IF k <= p + e THEN w[k - p] ELSE x

\* A concatenation of two parts and a last element.
LEMMA ThreeParts ==
    ASSUME NEW R, NEW r \in Seq(R), NEW w \in Seq(R), NEW x \in R, NEW c, c = r \o w \o <<x>>,
           NEW p, p = Len(r), NEW e, e = Len(w)
    PROVE  ThreeOf(R, c, p, e, r, w, x)
BY DEF ThreeOf

\* The indices of d[1..m] at which intervals begin: e of them and a last one.
Marks(n, a, m, e, at) ==
    /\ at \in [1..(e + 1) -> 1..m]
    /\ \A k \in 1..e : at[k + 1] = at[k] + n
    /\ \A j, k \in 1..(e + 1) : j < k => at[j] < at[k]
    /\ m < at[e + 1] + n
    /\ \A k \in 1..(e + 1), x \in Nat :
         a + at[k] - 1 <= x /\ x < a + at[k] - 1 + n => BucketOf(x, n) = a + at[k] - 1

\* Without a rest (p = 0), or with a rest of interval b, before the first of them.
Before(n, a, p, b, first) ==
    /\ p \in {0, 1}
    /\ p = 0 => first = 1
    /\ p = 1 => /\ first > 1 /\ b < a + first - 1
                /\ \A x \in Nat : a <= x /\ x < a + first - 1 => BucketOf(x, n) = b

\* The candles they give.
Parts(d, n, a, m, e, p, b, at, c) ==
    /\ Len(c) = p + e + 1 /\ DOMAIN c = 1..(p + e + 1)
    /\ p = 1 => c[1] = Bucket(d, 1, at[1] - 1, b)
    /\ \A k \in 1..e : c[k + p] = Bucket(d, at[k], at[k] + n - 1, a + at[k] - 1)
    /\ c[e + 1 + p] = Bucket(d, at[e + 1], m, a + at[e + 1] - 1)

\* Parts of an answer that lie side by side are cut from the data.
LEMMA Assembled ==
    ASSUME NEW d, NEW n \in Nat \ {0}, NEW a \in Nat, NEW m \in Nat \ {0}, NEW e \in Nat,
           NEW p, NEW b \in Nat, NEW at, NEW c,
           Stretch(d, a, m), Marks(n, a, m, e, at), Before(n, a, p, b, at[1]),
           Parts(d, n, a, m, e, p, b, at, c)
    PROVE  \E cut : Cuts(d, n, c, cut)
<1> DEFINE K == p + e + 1
           end(k) == IF k <= e THEN at[k + 1] ELSE m + 1
           cut == [k \in 1..(K + 1) |->
                     IF k <= p THEN 1 ELSE IF k <= K THEN at[k - p] ELSE m + 1]
<1>1. DOMAIN d = 1..m /\ Len(d) = m /\ \A i \in 1..m : d[i].time = a + i - 1
  BY DEF Stretch
<1>2. /\ \A k \in 1..(e + 1) : at[k] \in Nat /\ 1 <= at[k] /\ at[k] <= m
      /\ p = 0 \/ p = 1
  BY DEF Marks, Before
<1>3. ASSUME NEW k \in 1..(e + 1)
      PROVE  /\ at[k] < end(k) /\ end(k) <= at[k] + n /\ end(k) \in Nat
             /\ c[k + p] = Bucket(d, at[k], end(k) - 1, a + at[k] - 1)
             /\ c[k + p].t = a + at[k] - 1
  <2>1. CASE k <= e
    <3>1. k \in 1..e /\ end(k) = at[k + 1]
      BY <2>1
    <3> HIDE DEF end
    <3>2. at[k + 1] = at[k] + n /\ c[k + p] = Bucket(d, at[k], at[k] + n - 1, a + at[k] - 1)
      BY <3>1 DEF Marks, Parts
    <3>3. at[k] \in Nat
      BY <1>2
    <3>4. at[k] < end(k) /\ end(k) <= at[k] + n /\ end(k) \in Nat /\ end(k) - 1 = at[k] + n - 1
      BY <3>1, <3>2, <3>3
    <3>5. c[k + p].t = a + at[k] - 1
      BY <3>2 DEF Bucket
    <3> QED BY <3>2, <3>4, <3>5
  <2>2. CASE k = e + 1
    <3>1. end(k) = m + 1
      BY <2>2
    <3> HIDE DEF end
    <3>2. m < at[k] + n /\ c[k + p] = Bucket(d, at[k], m, a + at[k] - 1)
      BY <2>2 DEF Marks, Parts
    <3>3. at[k] \in Nat /\ at[k] <= m
      BY <1>2
    <3>4. at[k] < end(k) /\ end(k) <= at[k] + n /\ end(k) \in Nat /\ end(k) - 1 = m
      BY <3>1, <3>2, <3>3
    <3>5. c[k + p].t = a + at[k] - 1
      BY <3>2 DEF Bucket
    <3> QED BY <3>2, <3>4, <3>5
  <2>3. k <= e \/ k = e + 1
    OBVIOUS
  <2> QED BY <2>1, <2>2, <2>3
<1>4. p = 1 => c[1].t = b
  BY DEF Parts, Bucket
<1>5. ASSUME NEW k \in 1..(e + 1)
      PROVE  cut[k + p] = at[k] /\ cut[k + p + 1] = end(k)
  <2>1. k + p \in 1..(K + 1) /\ ~(k + p <= p) /\ k + p <= K /\ k + p - p = k
    BY <1>2
  <2>2. k + p + 1 \in 1..(K + 1) /\ ~(k + p + 1 <= p) /\ k + p + 1 - p = k + 1
    BY <1>2
  <2>3. k + p + 1 <= K <=> k <= e
    BY <1>2
  <2> DEFINE x == k + p
             y == k + p + 1
  <2> HIDE DEF K, x, y
  <2>4. cut[x] = at[k]
    <3>1. x \in 1..(K + 1) /\ ~(x <= p) /\ x <= K /\ x - p = k
      <4>1. x \in 1..(K + 1)
        BY <2>1 DEF x
      <4>2. x - p = k
        BY <1>2 DEF x
      <4>3. x <= K /\ ~(x <= p)
        BY <2>1 DEF x
      <4> QED BY <4>1, <4>2, <4>3
    <3> QED BY <3>1
  <2>5. cut[y] = end(k)
    <3>1. y \in 1..(K + 1) /\ ~(y <= p) /\ y - p = k + 1 /\ (y <= K <=> k <= e)
      <4>1. y \in 1..(K + 1)
        BY <2>2 DEF y
      <4>2. y - p = k + 1
        BY <1>2 DEF y
      <4>3. y <= K <=> k <= e
        BY <2>3 DEF y
      <4>4. ~(y <= p)
        BY <2>2 DEF y
      <4> QED BY <4>1, <4>2, <4>3, <4>4
    <3> QED BY <3>1
  <2> QED BY <2>4, <2>5 DEF x, y
<1>6. p = 1 => cut[1] = 1 /\ cut[2] = at[1]
  BY <1>2
<1>7. cut \in [1..(K + 1) -> 1..(m + 1)] /\ cut[1] = 1 /\ cut[K + 1] = m + 1
  <2>1. ASSUME NEW k \in 1..(K + 1) PROVE cut[k] \in 1..(m + 1)
    <3>1. k > p /\ k <= K => k - p \in 1..(e + 1)
      BY <1>2
    <3>2. k > p /\ k <= K => at[k - p] \in 1..(m + 1)
      BY <1>2, <3>1
    <3>3. 1 \in 1..(m + 1) /\ m + 1 \in 1..(m + 1) /\ (k > p <=> ~(k <= p))
      BY <1>2
    <3> HIDE DEF K
    <3> QED BY <3>2, <3>3
  <2>2. cut[1] = 1
    <3>1. p = 0 => at[1] = 1
      BY DEF Before
    <3> QED BY <1>2, <3>1
  <2>3. cut[K + 1] = m + 1
    <3>1. K \in Nat /\ K + 1 \in 1..(K + 1) /\ ~(K + 1 <= p) /\ ~(K + 1 <= K)
      BY <1>2
    <3> HIDE DEF K
    <3> QED BY <3>1
  <2> QED BY <2>1, <2>2, <2>3
<1>8. ASSUME NEW k \in 1..K
      PROVE  (p = 1 /\ k = 1) \/ \E j \in 1..(e + 1) : k = j + p
  <2>1. k - p \in Int /\ k = k - p + p
    BY <1>2
  <2>2. ~(p = 1 /\ k = 1) => k - p \in 1..(e + 1)
    BY <1>2
  <2> QED BY <2>1, <2>2
<1> HIDE DEF cut, K, end
<1>9. ASSUME NEW j \in 1..(e + 1), NEW i \in 1..m, at[j] <= i, i < end(j)
      PROVE  BucketOf(d[i].time, n) = a + at[j] - 1
  <2> DEFINE x == a + i - 1
  <2>1. x \in Nat /\ a + at[j] - 1 <= x /\ x < a + at[j] - 1 + n /\ d[i].time = x
    <3> DEFINE f == at[j]
               l == end(j)
    <3>1. f \in Nat /\ l \in Nat /\ l <= f + n /\ f <= i /\ i < l
      BY <1>2, <1>3, <1>9
    <3> HIDE DEF f, l
    <3>2. x \in Nat /\ a + f - 1 <= x /\ x < a + f - 1 + n
      BY <3>1
    <3> QED BY <1>1, <3>2 DEF f
  <2> HIDE DEF x
  <2> QED BY <2>1 DEF Marks
<1>10. ASSUME p = 1, NEW i \in 1..m, i < at[1]
       PROVE  BucketOf(d[i].time, n) = b
  <2> DEFINE x == a + i - 1
  <2>1. x \in Nat /\ a <= x /\ x < a + at[1] - 1 /\ d[i].time = x
    <3>1. at[1] \in Nat
      BY <1>2
    <3> QED BY <1>1, <1>10, <3>1
  <2> HIDE DEF x
  <2> QED BY <1>10, <2>1 DEF Before
<1>11. ASSUME NEW k \in 1..K
       PROVE  /\ cut[k] < cut[k + 1]
              /\ c[k] = Bucket(d, cut[k], cut[k + 1] - 1, c[k].t)
              /\ \A i \in 1..m : cut[k] <= i /\ i < cut[k + 1] =>
                   BucketOf(d[i].time, n) = c[k].t
  <2>1. CASE p = 1 /\ k = 1
    <3>1. cut[1] = 1 /\ cut[1 + 1] = at[1] /\ c[1] = Bucket(d, 1, at[1] - 1, b) /\ c[1].t = b
          /\ 1 < at[1]
      BY <1>4, <1>6, <2>1 DEF Parts, Before
    <3>2. \A i \in 1..m : i < at[1] => BucketOf(d[i].time, n) = b
      BY <1>10, <2>1
    <3> QED BY <2>1, <3>1, <3>2
  <2>2. ASSUME NEW j \in 1..(e + 1), k = j + p
        PROVE  /\ cut[k] < cut[k + 1]
               /\ c[k] = Bucket(d, cut[k], cut[k + 1] - 1, c[k].t)
               /\ \A i \in 1..m : cut[k] <= i /\ i < cut[k + 1] =>
                    BucketOf(d[i].time, n) = c[k].t
    <3>1. cut[k] = at[j] /\ cut[k + 1] = end(j)
      BY <1>5, <2>2
    <3>2. /\ at[j] < end(j) /\ c[k] = Bucket(d, at[j], end(j) - 1, a + at[j] - 1)
          /\ c[k].t = a + at[j] - 1
      BY <1>3, <2>2
    <3>3. \A i \in 1..m : at[j] <= i /\ i < end(j) => BucketOf(d[i].time, n) = a + at[j] - 1
      BY <1>9
    <3> QED BY <3>1, <3>2, <3>3
  <2> QED BY <1>8, <2>1, <2>2
<1>12. ASSUME NEW k \in 1..K, NEW l \in 1..K, k < l
       PROVE  c[k].t < c[l].t
  <2>1. ASSUME NEW j \in 1..(e + 1), l = j + p
        PROVE  c[k].t < c[l].t
    <3>1. c[l].t = a + at[j] - 1 /\ at[j] \in Nat
      BY <1>2, <1>3, <2>1
    <3>2. CASE p = 1 /\ k = 1
      <4>1. c[k].t = b /\ b < a + at[1] - 1
        BY <1>4, <3>2 DEF Before
      <4>2. at[1] <= at[j] /\ at[1] \in Nat
        <5>1. 1 \in 1..(e + 1) /\ (j = 1 \/ 1 < j)
          OBVIOUS
        <5> QED BY <1>2, <5>1 DEF Marks
      <4> QED BY <3>1, <4>1, <4>2
    <3>3. ASSUME NEW i \in 1..(e + 1), k = i + p
          PROVE  c[k].t < c[l].t
      <4>1. i < j
        BY <1>2, <1>12, <2>1, <3>3
      <4>2. at[i] < at[j] /\ at[i] \in Nat /\ c[k].t = a + at[i] - 1
        BY <1>2, <1>3, <3>3, <4>1 DEF Marks
      <4> QED BY <3>1, <4>2
    <3> QED BY <1>8, <3>2, <3>3
  <2>2. ~(p = 1 /\ l = 1)
    BY <1>12
  <2> QED BY <1>8, <2>1, <2>2
<1>13. DOMAIN c = 1..K /\ Len(c) = K
  BY DEF Parts, K
<1>14. Cuts(d, n, c, cut)
  BY <1>1, <1>7, <1>11, <1>12, <1>13 DEF Cuts
<1> QED BY <1>14

\* Where intervals begin, from index f on, e of them and the one at l.
LEMMA MarksAre ==
    ASSUME NEW n \in Nat \ {0}, NEW a \in Nat, NEW m \in Nat \ {0},
           NEW f \in 1..m, NEW l \in 1..m, NEW e \in Nat, l = f + e * n,
           (a + f - 1) % n = 0, m < l + n,
           NEW at, at = [k \in 1..(e + 1) |-> f + (k - 1) * n]
    PROVE  Marks(n, a, m, e, at) /\ at[1] = f /\ at[e + 1] = l
<1> DEFINE x == a + f - 1
<1>1. x \in Nat /\ x % n = 0 /\ e * n \in Nat
  OBVIOUS
<1>2. ASSUME NEW k \in 1..(e + 1)
      PROVE  /\ (k - 1) * n \in Nat /\ (k - 1) * n <= e * n
             /\ at[k] = f + (k - 1) * n
  <2>1. (k - 1) * n \in Nat
    OBVIOUS
  <2>2. (k - 1) * n <= e * n
    <3>1. CASE k - 1 = e
      BY <1>1, <3>1
    <3>2. CASE k - 1 < e
      <4> DEFINE j == k - 1
      <4>1. j \in Nat /\ j < e
        BY <3>2
      <4> HIDE DEF j
      <4>2. j * n + n <= e * n /\ j * n \in Nat
        BY <4>1, Steps
      <4> QED BY <1>1, <4>2 DEF j
    <3> QED BY <3>1, <3>2
  <2> QED BY <2>1, <2>2
<1>3. ASSUME NEW k \in 1..(e + 1)
      PROVE  at[k] \in 1..m
  <2> DEFINE o == (k - 1) * n
             w == e * n
  <2>1. o \in Nat /\ w \in Nat /\ o <= w /\ at[k] = f + o /\ l = f + w
    BY <1>1, <1>2
  <2> HIDE DEF o, w
  <2> QED BY <2>1
<1>4. ASSUME NEW k \in 1..e
      PROVE  at[k + 1] = at[k] + n
  <2>1. k \in 1..(e + 1) /\ k + 1 \in 1..(e + 1) /\ k + 1 - 1 = (k - 1) + 1
    OBVIOUS
  <2>2. ((k - 1) + 1) * n = (k - 1) * n + n /\ (k - 1) * n \in Nat
    OBVIOUS
  <2>3. at[k] = f + (k - 1) * n /\ at[k + 1] = f + ((k - 1) + 1) * n
    BY <1>2, <2>1
  <2> QED BY <2>2, <2>3
<1>5. ASSUME NEW j \in 1..(e + 1), NEW k \in 1..(e + 1), j < k
      PROVE  at[j] < at[k]
  <2> DEFINE i == j - 1
             h == k - 1
  <2>1. i \in Nat /\ h \in Nat /\ i < h
    BY <1>5
  <2>2. at[j] = f + i * n /\ at[k] = f + h * n
    BY <1>2
  <2> HIDE DEF i, h
  <2>3. i * n \in Nat /\ h * n \in Nat /\ i * n + n <= h * n
    BY <2>1, Steps
  <2> QED BY <2>2, <2>3
<1>6. ASSUME NEW k \in 1..(e + 1), NEW y \in Nat, a + at[k] - 1 <= y, y < a + at[k] - 1 + n
      PROVE  BucketOf(y, n) = a + at[k] - 1
  <2> DEFINE i == k - 1
             z == a + at[k] - 1
  <2>1. i \in Nat
    OBVIOUS
  <2>2. at[k] = f + i * n /\ i * n \in Nat
    BY <1>2
  <2>3. z = x + i * n
    BY <2>2
  <2> HIDE DEF x, i
  <2>4. x + i * n \in Nat /\ (x + i * n) % n = 0
    BY <1>1, <2>1, Multiples
  <2>5. z \in Nat /\ z % n = 0
    BY <2>3, <2>4
  <2>6. z <= y /\ y < z + n
    BY <1>6
  <2> HIDE DEF z
  <2>7. BucketOf(y, n) = z
    BY <2>5, <2>6, BucketWithin
  <2> QED BY <2>7 DEF z
<1>7. at[1] = f /\ at[e + 1] = l
  <2>1. 1 \in 1..(e + 1) /\ e + 1 \in 1..(e + 1) /\ (1 - 1) * n = 0 /\ e + 1 - 1 = e
    OBVIOUS
  <2> QED BY <1>2, <2>1
<1>8. at \in [1..(e + 1) -> 1..m]
  BY <1>3
<1> QED BY <1>4, <1>5, <1>6, <1>7, <1>8 DEF Marks

\* Data in which intervals begin.
LEMMA ManyCuts ==
    ASSUME NEW V, NEW d \in Inputs(V), NEW n \in Nat \ {0}, NEW a \in Nat,
           NEW m \in Nat \ {0}, Stretch(d, a, m), Beginnings(d, n) # {}
    PROVE  /\ Buckets(d, n) \in Answers(V) /\ Buckets(d, n) # <<>>
           /\ \E cut : Cuts(d, n, Buckets(d, n), cut)
<1> DEFINE R == ChartCandles(V)
           c == Buckets(d, n)
<1>0. PICK f, l, b : f = Min(Beginnings(d, n)) /\ l = Max(Beginnings(d, n)) /\ b = BucketOf(a, n)
  OBVIOUS
<1> DEFINE p == IF f > 1 THEN 1 ELSE 0
<1>1. /\ f \in 1..m /\ (a + f - 1) % n = 0 /\ l \in 1..m /\ (a + l - 1) % n = 0 /\ m < l + n
      /\ \E e \in Nat : l = f + e * n
      /\ f > 1 => /\ a + f - 1 = BucketOf(a, n) + n
                  /\ \A x \in Nat : a <= x /\ x < a + f - 1 => BucketOf(x, n) = BucketOf(a, n)
  <2>1. m \in Nat
    OBVIOUS
  <2>2. Ends(n, a, m, f, l)
    BY <1>0, <2>1, FirstAndLast
  <2> QED BY <2>2 DEF Ends
<1>2. c = RestOfInterval(d, n, f) \o WholeIntervals(d, n, f, l) \o NewestInterval(d, n, l)
  BY <1>0 DEF Buckets
<1> HIDE DEF c
<1>3. PICK e \in Nat : l = f + e * n
  BY <1>1
<1>4. b \in Nat /\ b <= a
  BY <1>0, BucketTyped
<1>5. f > 1 => /\ a + f - 1 = b + n
               /\ \A x \in Nat : a <= x /\ x < a + f - 1 => BucketOf(x, n) = b
  BY <1>0, <1>1
<1> HIDE DEF R
<1>6. f \in Nat /\ l \in Nat /\ 1 <= f /\ f <= m /\ 1 <= l /\ l <= m /\ m < l + n
  <2>1. f \in 1..m /\ l \in 1..m /\ m < l + n
    BY <1>1
  <2> HIDE DEF p
  <2> QED BY <2>1
<1>7. DOMAIN d = 1..m /\ Len(d) = m /\ d[f].time = a + f - 1 /\ d[l].time = a + l - 1
  BY <1>1 DEF Stretch
<1> DEFINE first == Bucket(d, 1, f - 1, b)
           from(k) == f + (k - 1) * n
           wholly(k) == Bucket(d, from(k), from(k) + n - 1, a + from(k) - 1)
           rest == IF f > 1 THEN <<first>> ELSE <<>>
           whole == [k \in 1..e |-> wholly(k)]
           newest == Bucket(d, l, m, a + l - 1)
           at == [k \in 1..(e + 1) |-> from(k)]
<1>8. RestOfInterval(d, n, f) = rest
  <2>1. f > 1 => d[f].time = b + n /\ f <= n + 1
    <3>1. f > 1 => a + f - 1 = b + n
      BY <1>5
    <3>2. d[f].time = a + f - 1
      BY <1>7
    <3>3. f > 1 => f <= n + 1
      BY <1>4, <1>6, <3>1
    <3>4. f > 1 => d[f].time = b + n
      BY <3>1, <3>2
    <3> QED BY <3>3, <3>4
  <2>2. RestOfInterval(d, n, f) = IF f > 1 THEN <<Bucket(d, 1, f - 1, b)>> ELSE <<>>
    <3>1. f \in Nat \ {0} /\ b \in Nat
      BY <1>4, <1>6
    <3>2. f > 1 => d[f].time = b + n /\ f <= n + 1
      BY <2>1
    <3> QED BY <3>1, <3>2, RestIs
  <2>3. f > 1 \/ f = 1
    BY <1>6
  <2> HIDE DEF first
  <2> QED BY <2>2, <2>3 DEF first
<1>9. WholeIntervals(d, n, f, l) = whole
  <2>1. WholeIntervals(d, n, f, l) = WholeFrom(d, n, a, f, e)
    <3>1. f \in 1..m /\ l \in 1..m
      BY <1>1
    <3> QED BY <1>3, <3>1, WholeAre
  <2>2. ASSUME NEW k \in 1..e PROVE a + f + (k - 1) * n - 1 = a + from(k) - 1
    <3> DEFINE o == (k - 1) * n
    <3>1. o \in Nat
      OBVIOUS
    <3> HIDE DEF o
    <3>2. a + f + o - 1 = a + (f + o) - 1
      BY <1>6, <3>1
    <3> QED BY <3>2 DEF o
  <2> QED BY <2>1, <2>2 DEF WholeFrom
<1>10. NewestInterval(d, n, l) = <<newest>>
  <2>1. l \in Nat \ {0} /\ l <= m /\ m < l + n /\ Len(d) = m
    BY <1>6, <1>7
  <2>2. NewestInterval(d, n, l) = <<Bucket(d, l, m, d[l].time)>>
    BY <2>1, NewestIs
  <2> QED BY <1>7, <2>2
<1>11. /\ Marks(n, a, m, e, at) /\ at[1] = f /\ at[e + 1] = l
  <2>1. f \in 1..m /\ l \in 1..m /\ (a + f - 1) % n = 0 /\ m < l + n
    BY <1>1
  <2>2. at = [k \in 1..(e + 1) |-> f + (k - 1) * n]
    OBVIOUS
  <2> HIDE DEF at
  <2> QED BY <1>3, <2>1, <2>2, MarksAre
<1>12. ASSUME NEW k \in 1..e
       PROVE  from(k) = at[k] /\ from(k) \in 1..m /\ from(k) + n - 1 \in 1..m
  <2>1. from(k) = at[k]
    OBVIOUS
  <2> HIDE DEF from, at
  <2>2. at[k] \in 1..m /\ at[k + 1] \in 1..m /\ at[k + 1] = at[k] + n
    BY <1>11 DEF Marks
  <2> QED BY <2>1, <2>2
<1> HIDE DEF from
<1>13. ASSUME NEW k \in 1..e PROVE wholly(k) \in R
  <2>1. from(k) \in DOMAIN d /\ from(k) + n - 1 \in DOMAIN d /\ a + from(k) - 1 \in Nat
    <3>1. from(k) \in 1..m /\ from(k) + n - 1 \in 1..m
      BY <1>12
    <3> QED BY <1>7, <3>1
  <2> QED BY <2>1, BucketIn DEF R
<1>14. newest \in R
  <2>1. l \in DOMAIN d /\ m \in DOMAIN d /\ a + l - 1 \in Nat
    BY <1>6, <1>7
  <2> QED BY <2>1, BucketIn DEF R
<1>15. f > 1 => first \in R
  <2>1. f > 1 => 1 \in DOMAIN d /\ f - 1 \in DOMAIN d
    BY <1>6, <1>7
  <2> QED BY <1>4, <2>1, BucketIn DEF R
<1> HIDE DEF newest, first, wholly, at
<1>16. whole \in Seq(R) /\ Len(whole) = e /\ \A k \in 1..e : whole[k] = wholly(k)
  <2>1. whole \in [1..e -> R]
    BY <1>13
  <2> QED BY <2>1
<1>17. rest \in Seq(R) /\ Len(rest) = p /\ (p = 1 => rest[1] = first) /\ p \in {0, 1}
  BY <1>15
<1> HIDE DEF rest, whole
<1>18. c = rest \o whole \o <<newest>>
  BY <1>2, <1>8, <1>9, <1>10
<1>19. /\ c \in Seq(R) /\ Len(c) = p + e + 1
       /\ \A k \in 1..(p + e + 1) :
            c[k] = IF k <= p THEN rest[k] ELSE IF k <= p + e THEN whole[k - p] ELSE newest
  <2>1. rest \in Seq(R) /\ whole \in Seq(R) /\ Len(rest) = p /\ Len(whole) = e
    BY <1>16, <1>17
  <2> HIDE DEF p
  <2>2. ThreeOf(R, c, p, e, rest, whole, newest)
    BY <1>14, <1>18, <2>1, ThreeParts
  <2> QED BY <2>2 DEF ThreeOf
<1>20. Before(n, a, p, b, at[1])
  <2>1. p = 1 => b < a + f - 1
    BY <1>4, <1>5, <1>6
  <2>2. p = 0 => f = 1
    BY <1>6
  <2> QED BY <1>5, <1>11, <2>1, <2>2 DEF Before
<1> HIDE DEF p
<1>21. Parts(d, n, a, m, e, p, b, at, c)
  <2>1. p = 1 => c[1] = Bucket(d, 1, at[1] - 1, b)
    <3>1. p = 1 => c[1] = first
      BY <1>17, <1>19
    <3> QED BY <1>11, <3>1 DEF first
  <2>2. ASSUME NEW k \in 1..e
        PROVE  c[k + p] = Bucket(d, at[k], at[k] + n - 1, a + at[k] - 1)
    <3>1. k + p \in 1..(p + e + 1) /\ ~(k + p <= p) /\ k + p <= p + e /\ k + p - p = k
      BY <1>17
    <3> DEFINE x == k + p
    <3>2. c[x] = whole[x - p]
      <4> HIDE DEF x
      <4> QED BY <1>19, <3>1 DEF x
    <3>3. c[k + p] = whole[k]
      <4>1. x - p = k
        BY <1>17
      <4> HIDE DEF x
      <4> QED BY <3>2, <4>1 DEF x
    <3> QED BY <1>12, <1>16, <3>3 DEF wholly
  <2>3. c[e + 1 + p] = Bucket(d, at[e + 1], m, a + at[e + 1] - 1)
    <3>1. /\ e + 1 + p \in 1..(p + e + 1) /\ ~(e + 1 + p <= p) /\ ~(e + 1 + p <= p + e)
      BY <1>17
    <3>2. c[e + 1 + p] = newest
      BY <1>19, <3>1
    <3> QED BY <1>11, <3>2 DEF newest
  <2>4. DOMAIN c = 1..(p + e + 1)
    BY <1>19
  <2> QED BY <1>19, <2>1, <2>2, <2>3, <2>4 DEF Parts
<1>22. \E cut : Cuts(d, n, c, cut)
  BY <1>4, <1>11, <1>20, <1>21, Assembled
<1>23. c \in Answers(V) /\ c # <<>>
  <2>1. p + e + 1 # 0
    BY <1>17
  <2> QED BY <1>19, <2>1 DEF Answers, R
<1> QED BY <1>22, <1>23 DEF c

\* The answer to the candles of consecutive minutes is cut into intervals.
LEMMA IsCut ==
    ASSUME NEW V, NEW d \in Inputs(V), NEW n \in Nat \ {0}, NEW a \in Nat,
           NEW m \in Nat \ {0}, Stretch(d, a, m)
    PROVE  /\ Buckets(d, n) \in Answers(V) /\ Buckets(d, n) # <<>>
           /\ \E cut : Cuts(d, n, Buckets(d, n), cut)
BY OneCut, ManyCuts

\* Every candle of the data is in one of the answer's.
LEMMA Covered ==
    ASSUME NEW d, NEW n, NEW c, NEW cut, Cuts(d, n, c, cut), NEW K \in Nat, Len(c) = K,
           DOMAIN c = 1..K, NEW m \in Nat, Len(d) = m, NEW i \in 1..m
    PROVE  \E k \in 1..K : cut[k] <= i /\ i < cut[k + 1]
<1> DEFINE S == {k \in 1..K : cut[k] <= i}
<1>1. cut[1] = 1 /\ cut[K + 1] = m + 1 /\ \A k \in 1..(K + 1) : cut[k] \in Nat
  BY DEF Cuts
<1>2. K # 0
  BY <1>1
<1>3. S \in SUBSET (0..K) /\ S # {}
  BY <1>1, <1>2
<1> HIDE DEF S
<1>4. Max(S) \in S /\ \A k \in S : k <= Max(S)
  BY <1>3, MaxIn
<1>5. PICK k \in S : \A j \in S : j <= k
  BY <1>4
<1>6. k \in 1..K /\ cut[k] <= i
  BY DEF S
<1>7. i < cut[k + 1]
  <2>1. CASE k = K
    BY <1>1, <2>1
  <2>2. CASE k < K
    <3>1. k + 1 \in 1..K /\ ~(k + 1 <= k)
      BY <1>6, <2>2
    <3>2. k + 1 \notin S
      BY <1>5, <3>1
    <3> QED BY <1>1, <3>1, <3>2 DEF S
  <2> QED BY <1>6, <2>1, <2>2
<1> QED BY <1>6, <1>7

\* The candles of the data in the interval that begins at t.
Within(d, n, t) == {i \in DOMAIN d : BucketOf(d[i].time, n) = t}

\* The cuts of a candle are where the candles of its interval begin and end.
LEMMA WithinIs ==
    ASSUME NEW d, NEW n, NEW c, NEW cut, Cuts(d, n, c, cut), NEW K \in Nat, Len(c) = K,
           DOMAIN c = 1..K, NEW m \in Nat, Len(d) = m, DOMAIN d = 1..m, NEW k \in 1..K,
           c[k].t \in Nat,
           NEW within, within = Within(d, n, c[k].t)
    PROVE  Min(within) = cut[k] /\ Max(within) = cut[k + 1] - 1 /\ within # {}
<1> DEFINE i == cut[k]
           j == cut[k + 1] - 1
<1>1. /\ \A l \in 1..(K + 1) : cut[l] \in 1..(m + 1)
      /\ \A l \in 1..K : cut[l] < cut[l + 1]
      /\ cut[1] = 1 /\ cut[K + 1] = m + 1
      /\ \A l \in 1..K, x \in 1..m :
           cut[l] <= x /\ x < cut[l + 1] => BucketOf(d[x].time, n) = c[l].t
      /\ \A l, h \in 1..K : l < h => c[l].t < c[h].t
  BY DEF Cuts
<1>0. within = {x \in 1..m : BucketOf(d[x].time, n) = c[k].t}
  BY DEF Within
<1>2. \A x \in within : x \in 1..m /\ i <= x /\ x <= j
  <2> SUFFICES ASSUME NEW x \in 1..m, BucketOf(d[x].time, n) = c[k].t
               PROVE  i <= x /\ x <= j
    BY <1>0
  <2>1. PICK l \in 1..K : cut[l] <= x /\ x < cut[l + 1]
    BY Covered
  <2>2. c[l].t = c[k].t
    BY <1>1, <2>1
  <2>3. l = k
    <3>1. l < k \/ k < l \/ l = k
      OBVIOUS
    <3>2. ~(l < k) /\ ~(k < l)
      BY <1>1, <2>2
    <3> QED BY <3>1, <3>2
  <2>4. cut[k + 1] \in Nat
    BY <1>1
  <2> QED BY <2>1, <2>3, <2>4
<1>3. i \in Nat /\ j \in Nat /\ 1 <= i /\ i <= j /\ j <= m
  <2>1. i \in 1..(m + 1) /\ cut[k + 1] \in 1..(m + 1) /\ i < cut[k + 1]
    BY <1>1
  <2> QED BY <2>1
<1>4. i \in within /\ j \in within
  <2>1. i \in 1..m /\ j \in 1..m /\ cut[k + 1] \in Nat
    <3>1. cut[k + 1] \in Nat
      BY <1>1
    <3> HIDE DEF i, j
    <3> QED BY <1>3, <3>1
  <2>2. cut[k] <= i /\ i < cut[k + 1] /\ cut[k] <= j /\ j < cut[k + 1]
    BY <1>1, <1>3, <2>1
  <2> QED BY <1>0, <1>1, <2>1, <2>2
<1>5. within \in SUBSET (0..m) /\ within \in SUBSET Nat /\ within # {}
  BY <1>2, <1>4
<1>6. Min(within) \in within /\ \A x \in within : Min(within) <= x
  BY <1>5, MinIn
<1>7. Max(within) \in within /\ \A x \in within : x <= Max(within)
  BY <1>5, MaxIn
<1>8. Min(within) = i
  <2> DEFINE x == Min(within)
  <2>1. x \in within /\ i \in within
    BY <1>4, <1>6
  <2>2. x \in Nat /\ i <= x /\ x <= j
    BY <1>2, <2>1
  <2>3. x <= i
    BY <1>6, <2>1
  <2> HIDE DEF x, i, j
  <2> QED BY <1>3, <2>2, <2>3 DEF x
<1>9. Max(within) = j
  <2> DEFINE x == Max(within)
  <2>1. x \in within /\ j \in within
    BY <1>4, <1>7
  <2>2. x \in Nat /\ i <= x /\ x <= j
    BY <1>2, <2>1
  <2>3. j <= x
    BY <1>7, <2>1
  <2> HIDE DEF x, i, j
  <2> QED BY <1>3, <2>2, <2>3 DEF x
<1> QED BY <1>5, <1>8, <1>9

\* A later minute is not in an earlier interval.
LEMMA BucketsGrow ==
    ASSUME NEW n \in Nat \ {0}, NEW x \in Nat, NEW y \in Nat, x <= y
    PROVE  BucketOf(x, n) <= BucketOf(y, n)
<1> DEFINE b == BucketOf(x, n)
           e == BucketOf(y, n)
<1>1. /\ b \in Nat /\ b <= x /\ x < b + n /\ b % n = 0
      /\ e \in Nat /\ e <= y /\ y < e + n /\ e % n = 0
  BY BucketTyped
<1> HIDE DEF b, e
<1>2. ASSUME e < b PROVE FALSE
  <2>1. e + n <= b
    BY <1>1, <1>2, BeginningsApart
  <2> QED BY <1>1, <2>1
<1> QED BY <1>1, <1>2 DEF b, e

\* What the cuts say of an answer: its last candle, and that its candles join
\* if those of the data do.
LEMMA CutsEnd ==
    ASSUME NEW d, NEW n, NEW c, NEW cut, Cuts(d, n, c, cut), NEW K \in Nat \ {0}, Len(c) = K,
           DOMAIN c = 1..K, NEW m \in Nat \ {0}, Len(d) = m, DOMAIN d = 1..m
    PROVE  c[K].c = d[m].close /\ BucketOf(d[m].time, n) = c[K].t
<1>1. /\ K \in DOMAIN c /\ cut[K + 1] = m + 1 /\ cut[K] \in 1..(m + 1) /\ cut[K] < cut[K + 1]
      /\ c[K] = Bucket(d, cut[K], cut[K + 1] - 1, c[K].t)
      /\ \A i \in 1..m : cut[K] <= i /\ i < cut[K + 1] => BucketOf(d[i].time, n) = c[K].t
  <2>1. K \in DOMAIN c /\ K \in 1..(K + 1)
    OBVIOUS
  <2> QED BY <2>1 DEF Cuts
<1>2. m + 1 - 1 = m /\ m \in 1..m /\ cut[K] <= m /\ m < m + 1
  BY <1>1
<1>3. c[K] = Bucket(d, cut[K], m, c[K].t)
  BY <1>1, <1>2
<1>4. c[K].c = d[m].close
  BY <1>3 DEF Bucket
<1> QED BY <1>1, <1>2, <1>4

\* Each of the m candles of the data opens where the one before closed.
Joined(d, m) == \A i \in 1..(m - 1) : d[i].close = d[i + 1].open

\* A sequence of n.
Long(s, n) == n \in Nat /\ Len(s) = n /\ DOMAIN s = 1..n

\* The candles of the answer join where the data does.
LEMMA CutsJoin ==
    ASSUME NEW d, NEW n, NEW c, NEW cut, Cuts(d, n, c, cut), NEW K, Long(c, K),
           NEW m, Long(d, m), Joined(d, m), NEW k \in 1..(K - 1)
    PROVE  c[k].c = c[k + 1].o
<1> USE DEF Long
<1>1. k \in 1..K /\ k + 1 \in 1..K /\ k \in 1..(K + 1) /\ k + 1 \in 1..(K + 1)
      /\ k + 1 + 1 \in 1..(K + 1)
  OBVIOUS
<1>2. /\ cut[k] \in 1..(m + 1) /\ cut[k + 1] \in 1..(m + 1) /\ cut[k + 1 + 1] \in 1..(m + 1)
      /\ cut[k] < cut[k + 1] /\ cut[k + 1] < cut[k + 1 + 1]
      /\ c[k] = Bucket(d, cut[k], cut[k + 1] - 1, c[k].t)
      /\ c[k + 1] = Bucket(d, cut[k + 1], cut[k + 1 + 1] - 1, c[k + 1].t)
  BY <1>1 DEF Cuts
<1> DEFINE i == cut[k + 1] - 1
<1>3. i \in 1..(m - 1) /\ i + 1 = cut[k + 1]
  <2>1. PICK x, y, z \in 1..(m + 1) : x = cut[k] /\ y = cut[k + 1] /\ z = cut[k + 1 + 1]
    BY <1>2
  <2>2. x < y /\ y < z
    BY <1>2, <2>1
  <2>3. y - 1 \in 1..(m - 1) /\ y - 1 + 1 = y
    BY <2>2
  <2> QED BY <2>1, <2>3
<1>4. c[k].c = d[i].close /\ c[k + 1].o = d[cut[k + 1]].open
  <2>1. Bucket(d, cut[k], i, c[k].t).c = d[i].close
    BY DEF Bucket
  <2>2. Bucket(d, cut[k + 1], cut[k + 1 + 1] - 1, c[k + 1].t).o = d[cut[k + 1]].open
    BY DEF Bucket
  <2> QED BY <1>2, <2>1, <2>2
<1> HIDE DEF i
<1> QED BY <1>3, <1>4 DEF Joined

\* The answer to a chart request is the one it should be.
LEMMA ResponseIs ==
    ASSUME NEW V, NEW d \in Inputs(V), NEW n \in Nat \ {0}, NEW a \in Nat,
           NEW m \in Nat \ {0}, Stretch(d, a, m), NEW z \in Nat, a + m - 1 <= z
    PROVE  makeOhlcResponse(d, n, z) = ChartOf(d, n, z)
<1>1. PICK c : c = Buckets(d, n)
  OBVIOUS
<1>2. PICK cut : Cuts(d, n, c, cut)
  BY <1>1, IsCut
<1>3. PICK K : K = Len(c)
  OBVIOUS
<1>4. K \in Nat \ {0} /\ DOMAIN c = 1..K /\ Len(c) = K /\ \A k \in 1..K : c[k] \in ChartCandles(V)
  <2>1. c \in Answers(V) /\ c # <<>>
    BY <1>1, IsCut
  <2> DEFINE R == ChartCandles(V)
  <2>2. c \in Seq(R)
    BY <2>1 DEF Answers
  <2> HIDE DEF R
  <2>3. K \in Nat /\ K # 0 /\ DOMAIN c = 1..K /\ \A k \in 1..K : c[k] \in R
    BY <1>3, <2>1, <2>2
  <2> QED BY <1>3, <2>3 DEF R
<1>5. \A k \in 1..K : c[k].t \in Nat
  BY <1>4 DEF ChartCandles
<1>6. DOMAIN d = 1..m /\ Len(d) = m /\ d[m].time = a + m - 1 /\ m \in Nat
  BY DEF Stretch
<1>7. c[K].c = d[m].close /\ BucketOf(d[m].time, n) = c[K].t
  BY <1>2, <1>4, <1>6, CutsEnd
<1> DEFINE T == BucketOf(z, n)
           times == {BucketOf(d[i].time, n) : i \in DOMAIN d}
           within(t) == Within(d, n, t)
           before(t) == Max({i \in DOMAIN d : BucketOf(d[i].time, n) < t})
           candle(t) == IF t \in times THEN Bucket(d, Min(within(t)), Max(within(t)), t)
                        ELSE [t |-> t, o |-> d[before(t)].close, c |-> d[before(t)].close]
           r == WithCurrent(c, T)
<1>8. T \in Nat /\ c[K].t <= T
  <2>1. a + m - 1 \in Nat
    OBVIOUS
  <2>2. T \in Nat
    BY BucketTyped
  <2>3. BucketOf(a + m - 1, n) <= T
    <3> DEFINE x == a + m - 1
    <3> HIDE DEF x
    <3> QED BY <2>1, BucketsGrow DEF x
  <2> QED BY <1>6, <1>7, <2>2, <2>3
<1>9. ASSUME NEW k \in 1..K
      PROVE  c[k].t \in times /\ candle(c[k].t) = c[k]
  <2> DEFINE t == c[k].t
  <2>0. PICK S : S = Within(d, n, c[k].t)
    OBVIOUS
  <2>1. Min(S) = cut[k] /\ Max(S) = cut[k + 1] - 1 /\ S # {}
    <3>1. /\ Cuts(d, n, c, cut) /\ K \in Nat /\ Len(c) = K /\ DOMAIN c = 1..K
          /\ Len(d) = m /\ DOMAIN d = 1..m /\ c[k].t \in Nat
      BY <1>2, <1>4, <1>5, <1>6
    <3>2. m \in Nat
      OBVIOUS
    <3> QED BY <2>0, <3>1, <3>2, WithinIs
  <2>2. t \in times
    BY <2>0, <2>1 DEF Within
  <2>3. c[k] = Bucket(d, cut[k], cut[k + 1] - 1, c[k].t)
    BY <1>2, <1>4 DEF Cuts
  <2>4. candle(t) = Bucket(d, Min(S), Max(S), t)
    BY <2>0, <2>2
  <2> HIDE DEF candle, times
  <2> QED BY <2>1, <2>2, <2>3, <2>4
<1>10. times = {c[k].t : k \in 1..K}
  <2>1. ASSUME NEW i \in DOMAIN d
        PROVE  \E k \in 1..K : BucketOf(d[i].time, n) = c[k].t
    <3>1. i \in 1..m
      BY <1>6
    <3>2. PICK k \in 1..K : cut[k] <= i /\ i < cut[k + 1]
      BY <1>2, <1>4, <1>6, <3>1, Covered
    <3> QED BY <1>2, <1>4, <1>6, <3>1, <3>2 DEF Cuts
  <2>2. \A k \in 1..K : c[k].t \in times
    BY <1>9
  <2> QED BY <2>1, <2>2
<1>11. \A k, l \in 1..K : k < l => c[k].t < c[l].t
  BY <1>4, <1>2 DEF Cuts
<1>12. makeOhlcResponse(d, n, z) = r
  BY <1>1 DEF makeOhlcResponse, Buckets
<1>13. PICK s : s \in Seq(Nat) /\ Ascends(s) /\ DOMAIN s = DOMAIN r
           /\ times \cup {T} = {s[k] : k \in DOMAIN s}
           /\ r = [k \in DOMAIN s |-> candle(s[k])]
  <2>1. c # <<>> /\ Last(c) = c[K]
    BY <1>4 DEF Last
  <2> DEFINE flat == [t |-> T, o |-> c[K].c, c |-> c[K].c]
  <2>3. r = IF c[K].t = T THEN c ELSE Append(c, flat)
    BY <2>1 DEF WithCurrent
  <2>4. CASE c[K].t = T
    <3> DEFINE s == [k \in 1..K |-> c[k].t]
    <3>1. s \in Seq(Nat) /\ DOMAIN s = 1..K
      BY <1>4, <1>5
    <3>2. Ascends(s)
      BY <1>11 DEF Ascends
    <3>3. r = c /\ c = [k \in 1..K |-> c[k]]
      <4>1. r = c
        BY <2>3, <2>4
      <4>2. c \in Seq(ChartCandles(V))
        BY <1>1, IsCut DEF Answers
      <4> QED BY <1>4, <4>1, <4>2
    <3>4. [k \in 1..K |-> c[k]] = [k \in 1..K |-> candle(s[k])]
      <4> HIDE DEF candle
      <4> QED BY <1>9
    <3>5. times \cup {T} = {s[k] : k \in 1..K}
      <4>1. \A k \in 1..K : s[k] = c[k].t
        OBVIOUS
      <4>2. K \in 1..K
        BY <1>4
      <4> HIDE DEF times, T, s
      <4> QED BY <1>10, <2>4, <4>1, <4>2
    <3> HIDE DEF s, candle, times, r
    <3> QED BY <1>4, <3>1, <3>2, <3>3, <3>4, <3>5
  <2>5. CASE c[K].t < T
    <3> DEFINE s == [k \in 1..(K + 1) |-> IF k <= K THEN c[k].t ELSE T]
    <3>1. s \in Seq(Nat) /\ DOMAIN s = 1..(K + 1)
      <4>1. s \in [1..(K + 1) -> Nat] /\ K + 1 \in Nat
        BY <1>4, <1>5, <1>8
      <4> HIDE DEF s
      <4> QED BY <4>1
    <3>2. \A k \in 1..K : c[k].t <= c[K].t
      <4>1. \A k \in 1..K : k < K \/ k = K
        BY <1>4
      <4> QED BY <1>4, <1>5, <1>11, <4>1
    <3>3. Ascends(s)
      <4>1. ASSUME NEW k \in 1..(K + 1), NEW l \in 1..(K + 1), k < l
            PROVE  s[k] < s[l]
        <5>1. k \in 1..K /\ s[k] = c[k].t
          BY <1>4, <4>1
        <5>2. CASE l \in 1..K
          BY <1>11, <4>1, <5>1, <5>2
        <5>3. CASE l = K + 1
          <6>1. s[l] = T
            BY <1>4, <5>3
          <6> HIDE DEF s
          <6> QED BY <1>4, <1>5, <1>8, <2>5, <3>2, <5>1, <6>1
        <5> QED BY <1>4, <5>2, <5>3
      <4> QED BY <3>1, <4>1 DEF Ascends
    <3>5. \A t \in times : t \in Nat /\ t < T
      <4>1. \A k \in 1..K : c[k].t \in Nat /\ c[k].t < T
        <5>1. K \in 1..K
          BY <1>4
        <5> HIDE DEF T
        <5> QED BY <1>5, <1>8, <2>5, <3>2, <5>1
      <4> HIDE DEF times, T
      <4> QED BY <1>10, <4>1
    <3>4. T \notin times
      <4> HIDE DEF times, T
      <4> QED BY <1>8, <3>5
    <3>6. {i \in DOMAIN d : BucketOf(d[i].time, n) < T} = 1..m
      BY <1>6, <3>5
    <3>7. before(T) = m
      <4> DEFINE S == 1..m
      <4>1. S \in SUBSET (0..m) /\ S # {} /\ m \in S /\ m \in Nat
        OBVIOUS
      <4>2. Max(S) \in S /\ \A y \in S : y <= Max(S)
        <5> HIDE DEF S
        <5> QED BY <4>1, MaxIn
      <4>3. Max(S) = m
        BY <4>1, <4>2
      <4> QED BY <3>6, <4>3
    <3>8. candle(T) = flat
      BY <1>7, <3>4, <3>7
    <3> HIDE DEF candle, times, flat
    <3>9. r = Append(c, flat) /\ DOMAIN r = 1..(K + 1)
      <4>1. r = Append(c, flat)
        BY <1>5, <1>8, <2>3, <2>5
      <4> HIDE DEF r
      <4>2. c \in Seq(ChartCandles(V))
        BY <1>1, IsCut DEF Answers
      <4> QED BY <1>4, <4>1, <4>2
    <3>10. ASSUME NEW k \in 1..(K + 1)
           PROVE  r[k] = candle(s[k])
      <4>1. c \in Seq(ChartCandles(V))
        BY <1>1, IsCut DEF Answers
      <4>2. CASE k \in 1..K
        <5>1. Append(c, flat)[k] = c[k]
          BY <1>4, <4>1, <4>2
        <5>2. s[k] = c[k].t
          BY <4>2
        <5> HIDE DEF s, r
        <5> QED BY <1>9, <3>9, <4>2, <5>1, <5>2
      <4>3. CASE k = K + 1
        <5>1. Append(c, flat)[k] = flat
          BY <1>4, <4>1, <4>3
        <5>2. s[k] = T
          BY <1>4, <4>3
        <5> HIDE DEF s, r
        <5> QED BY <3>8, <3>9, <5>1, <5>2
      <4> QED BY <1>4, <4>2, <4>3
    <3>11. times \cup {T} = {s[k] : k \in 1..(K + 1)}
      <4>1. \A k \in 1..(K + 1) : k \in 1..K \/ k = K + 1
        BY <1>4
      <4>2. \A k \in 1..K : k \in 1..(K + 1) /\ s[k] = c[k].t
        BY <1>4
      <4>3. K + 1 \in 1..(K + 1) /\ s[K + 1] = T
        BY <1>4
      <4> HIDE DEF s
      <4> QED BY <1>10, <4>1, <4>2, <4>3
    <3>12. r = [k \in 1..(K + 1) |-> r[k]]
      <4> DEFINE R == ChartCandles(V)
      <4>1. c \in Seq(R)
        BY <1>1, IsCut DEF Answers
      <4>2. flat \in R
        <5>1. c[K] \in [t : Nat, o : V, c : V]
          BY <1>4 DEF ChartCandles
        <5> QED BY <1>8, <5>1 DEF flat, ChartCandles
      <4> HIDE DEF r, R
      <4>3. r \in Seq(R)
        BY <3>9, <4>1, <4>2
      <4>4. r = [k \in DOMAIN r |-> r[k]]
        BY <4>3
      <4> QED BY <3>9, <4>4
    <3>13. r = [k \in 1..(K + 1) |-> candle(s[k])]
      <4> HIDE DEF r, s
      <4> QED BY <3>10, <3>12
    <3> HIDE DEF s, r
    <3> QED BY <3>1, <3>3, <3>9, <3>11, <3>13
  <2>6. c[K].t = T \/ c[K].t < T
    <3>1. c[K].t \in Nat
      BY <1>4, <1>5
    <3> HIDE DEF T
    <3> QED BY <1>8, <3>1
  <2> QED BY <2>4, <2>5, <2>6
<1>14. InOrder(times \cup {T}) = s
  BY <1>13, OrderOf
<1>15. ChartOf(d, n, z) = [k \in DOMAIN s |-> candle(s[k])]
  <2>1. times # {}
    <3>1. 1 \in 1..K
      BY <1>4
    <3> QED BY <1>9, <3>1
  <2> QED BY <1>14, <2>1 DEF ChartOf, Within
<1> QED BY <1>12, <1>13, <1>15

\* The candles of an answer, the current one included, join if those of the
\* data do.
LEMMA ResponseJoins ==
    ASSUME NEW V, NEW d \in Inputs(V), NEW n \in Nat \ {0}, NEW a \in Nat,
           NEW m \in Nat \ {0}, Stretch(d, a, m), NEW z \in Nat,
           Joined(d, m),
           NEW r, r = makeOhlcResponse(d, n, z), NEW k \in 1..(Len(r) - 1)
    PROVE  r[k].c = r[k + 1].o
<1>1. PICK c : c = Buckets(d, n)
  OBVIOUS
<1>2. PICK cut : Cuts(d, n, c, cut)
  BY <1>1, IsCut
<1>3. PICK K : K = Len(c)
  OBVIOUS
<1> DEFINE R == ChartCandles(V)
           T == BucketOf(z, n)
           flat == [t |-> T, o |-> c[K].c, c |-> c[K].c]
<1>4. c \in Seq(R) /\ c # <<>>
  BY <1>1, IsCut DEF Answers
<1>5. K \in Nat \ {0} /\ DOMAIN c = 1..K /\ Len(c) = K
  <2> HIDE DEF R
  <2> QED BY <1>3, <1>4
<1>6. r = IF c[K].t = T THEN c ELSE Append(c, flat)
  <2>1. r = WithCurrent(c, T)
    BY <1>1 DEF makeOhlcResponse, Buckets
  <2>2. Last(c) = c[K]
    BY <1>3 DEF Last
  <2> QED BY <1>4, <2>1, <2>2 DEF WithCurrent
<1>7. flat.o = c[K].c
  OBVIOUS
<1>8. Len(d) = m /\ DOMAIN d = 1..m /\ m \in Nat
  BY DEF Stretch
<1> HIDE DEF R, flat, T
<1>9. ASSUME NEW j \in 1..(K - 1) PROVE c[j].c = c[j + 1].o
  <2>1. Long(c, K) /\ Long(d, m)
    BY <1>5, <1>8 DEF Long
  <2> QED BY <1>2, <1>9, <2>1, CutsJoin
<1>10. CASE r = c
  BY <1>5, <1>9, <1>10
<1>11. CASE r = Append(c, flat)
  <2>1. Len(r) = K + 1
    BY <1>4, <1>5, <1>11
  <2>2. \A j \in 1..K : r[j] = c[j]
    BY <1>4, <1>5, <1>11
  <2>3. r[K + 1] = flat
    BY <1>4, <1>5, <1>11
  <2>4. k \in 1..K /\ (k = K \/ (k \in 1..(K - 1) /\ k + 1 \in 1..K))
    BY <1>5, <2>1
  <2> QED BY <1>7, <1>9, <2>2, <2>3, <2>4
<1> QED BY <1>6, <1>10, <1>11

\* Without candles there is no chart.
LEMMA EmptyResponse ==
    ASSUME NEW n \in Nat \ {0}, NEW z \in Nat
    PROVE  makeOhlcResponse(<<>>, n, z) = <<>> /\ ChartOf(<<>>, n, z) = <<>>
<1> DEFINE none == [i \in {} |-> 0]
<1>1. DOMAIN <<>> = {} /\ Len(<<>>) = 0 /\ <<>> = none
  OBVIOUS
<1>2. Every(1, 0, n) = <<>>
  <2>1. Every(1, 1 - 1, n) = <<>>
    BY NoneTaken
  <2> QED BY <2>1
<1>3. Beginnings(<<>>, n) = {}
  BY <1>1 DEF Beginnings
<1>4. WithoutBeginning(<<>>, n) = <<>>
  BY <1>1, <1>2 DEF WithoutBeginning
<1>5. makeOhlcResponse(<<>>, n, z) = <<>>
  BY <1>3, <1>4 DEF makeOhlcResponse, WithCurrent
<1>6. InOrder({}) = <<>>
  <2>1. <<>> \in Seq(Nat) /\ Ascends(<<>>) /\ {} = {<<>>[i] : i \in DOMAIN <<>>}
    BY <1>1 DEF Ascends
  <2> QED BY <2>1, OrderOf
<1>7. ChartOf(<<>>, n, z) = <<>>
  <2> DEFINE times == {BucketOf(<<>>[i].time, n) : i \in DOMAIN <<>>}
  <2>1. times = {}
    BY <1>1
  <2> QED BY <1>1, <1>6, <2>1 DEF ChartOf
<1> QED BY <1>5, <1>7

-----------------------------------------------------------------------------
(***************************************************************************)
(* The charts.                                                             *)
(***************************************************************************)
\* What a request about to answer has, if anything: the candles of consecutive
\* minutes.
LEMMA NoGapLeft ==
    ASSUME NEW data \in [Minutes -> Row], BeforeGap(data) = {}, Held(data) # {}
    PROVE  \E a \in Nat, m \in Nat \ {0} : Held(data) = a..(a + m - 1)
<1> DEFINE H == Held(data)
<1>1. H \in SUBSET (0..LastMinute) /\ H \in SUBSET Nat
  BY Numbers DEF Held, Minutes
<1>2. PICK a, b : a = Min(H) /\ b = Max(H)
  OBVIOUS
<1> HIDE DEF H
<1>3. /\ a \in H /\ b \in H /\ a \in Nat /\ b \in Nat
      /\ \A t \in H : t \in Nat /\ a <= t /\ t <= b
  <2>1. H # {} /\ LastMinute \in Nat
    BY Numbers DEF H
  <2>2. a \in H /\ \A t \in H : a <= t
    BY <1>1, <1>2, <2>1, MinIn
  <2>3. b \in H /\ \A t \in H : t <= b
    BY <1>1, <1>2, <2>1, MaxIn
  <2> QED BY <1>1, <2>2, <2>3
<1>4. ASSUME NEW t \in a..b, t \notin H PROVE FALSE
  <2> DEFINE below == {u \in H : u < t}
  <2>1. PICK x : x = Max(below)
    OBVIOUS
  <2>2. x \in below /\ \A y \in below : y <= x
    <3>1. a \in below
      BY <1>3, <1>4
    <3>2. below \in SUBSET (0..b) /\ below # {}
      <4>1. \A u \in H : u \in 0..b
        BY <1>3
      <4>2. below \subseteq H
        OBVIOUS
      <4> QED BY <3>1, <4>1, <4>2
    <3> HIDE DEF below
    <3> QED BY <1>3, <2>1, <3>2, MaxIn
  <2>3. x + 1 \notin H
    <3> SUFFICES ASSUME x + 1 \in H PROVE FALSE
      OBVIOUS
    <3>1. x \in Nat /\ x < t /\ t \in Nat
      BY <1>3, <2>2
    <3>2. x + 1 = t \/ x + 1 < t
      BY <3>1
    <3>3. x + 1 < t => x + 1 \in below
      OBVIOUS
    <3>4. ~(x + 1 <= x)
      BY <3>1
    <3> QED BY <1>4, <2>2, <3>2, <3>3, <3>4
  <2>4. b > x
    BY <1>3, <2>2
  <2>5. x \in BeforeGap(data)
    BY <1>3, <2>2, <2>3, <2>4 DEF BeforeGap, H
  <2> QED BY <2>5
<1>5. H = a..(a + (b - a + 1) - 1)
  <2>1. a + (b - a + 1) - 1 = b
    BY <1>3
  <2>2. \A t \in H : t \in a..b
    BY <1>3
  <2>3. \A t \in a..b : t \in H
    BY <1>4
  <2>4. H = a..b
    BY <2>2, <2>3
  <2> QED BY <2>1, <2>4
<1>6. b - a + 1 \in Nat \ {0}
  BY <1>3
<1> QED BY <1>3, <1>5, <1>6 DEF H

\* The candles of minutes a to a + m - 1, one of them at t.
Holds(data, a, m) ==
    /\ a \in Nat /\ m \in Nat \ {0}
    /\ Held(data) = a..(a + m - 1)

\* Its records are a stretch of candles.
LEMMA RecordsAre ==
    ASSUME NEW data \in [Minutes -> Row], NEW a, NEW m, Holds(data, a, m)
    PROVE  /\ Records(data) \in Inputs(Prices)
           /\ Stretch(Records(data), a, m)
           /\ \A i \in 1..m : /\ a + i - 1 \in Held(data)
                              /\ Records(data)[i].open = data[a + i - 1].open
                              /\ Records(data)[i].close = data[a + i - 1].close
<1>1. a \in Nat /\ m \in Nat \ {0} /\ Held(data) = a..(a + m - 1)
  BY DEF Holds
<1> DEFINE times == [k \in 1..m |-> a + k - 1]
           R == [time : Nat, open : Prices, close : Prices]
           d == [i \in 1..m |-> [time |-> times[i], open |-> data[times[i]].open,
                                 close |-> data[times[i]].close]]
<1>2. times \in Seq(Nat) /\ Ascends(times) /\ DOMAIN times = 1..m
  BY <1>1 DEF Ascends
<1>3. Held(data) = {times[i] : i \in DOMAIN times}
  <2>1. \A t \in a..(a + m - 1) : t - a + 1 \in 1..m /\ t = a + (t - a + 1) - 1
    BY <1>1
  <2>2. \A i \in 1..m : a + i - 1 \in a..(a + m - 1)
    BY <1>1
  <2>3. \A t \in a..(a + m - 1) : t = times[t - a + 1]
    BY <2>1
  <2> QED BY <1>1, <1>2, <2>1, <2>2, <2>3
<1>4. InOrder(Held(data)) = times
  <2> HIDE DEF times
  <2> QED BY <1>2, <1>3, OrderOf
<1>5. Records(data) = d
  <2> HIDE DEF times
  <2> QED BY <1>2, <1>4 DEF Records
<1>6. ASSUME NEW i \in 1..m
      PROVE  /\ times[i] = a + i - 1 /\ times[i] \in Nat /\ times[i] \in Held(data)
             /\ data[times[i]].open \in Prices /\ data[times[i]].close \in Prices
  <2>1. times[i] = a + i - 1 /\ times[i] \in Nat /\ times[i] \in Held(data)
    BY <1>1
  <2> HIDE DEF times
  <2>2. data[times[i]] \in Candle
    BY <2>1 DEF Held, Row
  <2> QED BY <2>1, <2>2 DEF Candle
<1> HIDE DEF times
<1>7. \A i \in 1..m : d[i] \in R
  BY <1>6
<1>8. d \in Seq(R) /\ Len(d) = m /\ DOMAIN d = 1..m
  <2>1. DOMAIN d = 1..m
    OBVIOUS
  <2> HIDE DEF R
  <2>2. d = [i \in 1..m |-> d[i]]
    OBVIOUS
  <2> HIDE DEF d
  <2> QED BY <1>1, <1>7, <2>1, <2>2
<1>9. \A i \in 1..m : /\ d[i].time = a + i - 1
                      /\ d[i].open = data[a + i - 1].open
                      /\ d[i].close = data[a + i - 1].close
                      /\ a + i - 1 \in Held(data)
  BY <1>6
<1> HIDE DEF d
<1>10. Stretch(d, a, m)
  BY <1>8, <1>9 DEF Stretch
<1> QED BY <1>5, <1>8, <1>9, <1>10 DEF Inputs, R

\* What a request holds is of the past, and joins where no pass has written.
LEMMA HeldJoins ==
    ASSUME TypeOK, Shapes, Reached, Current, CandlesJoin, NEW r \in Requests,
           request[r].at = "filling", NEW a, NEW m, Holds(request[r].data, a, m)
    PROVE  /\ a + m - 1 <= now
           /\ repaired[request[r].symbol] = {} => Joined(Records(request[r].data), m)
<1> DEFINE s == request[r].symbol
           data == request[r].data
           d == Records(data)
<1>1. s \in Symbols /\ data \in [Minutes -> Row]
  BY DEF Shapes, RequestShaped, TypeOK
<1>2. a \in Nat /\ m \in Nat \ {0} /\ Held(data) = a..(a + m - 1)
  BY DEF Holds
<1>3. CurrentFor(r)
  BY DEF Current
<1>4. a + m - 1 <= now
  <2> DEFINE b == a + m - 1
  <2>1. b \in Held(data)
    BY <1>2
  <2> HIDE DEF b
  <2>2. b \in Minutes /\ row[s][b] # NoCandle
    BY <1>3, <2>1 DEF Held, CurrentFor
  <2>3. b < start /\ start <= now
    BY <1>1, <2>2 DEF Reached
  <2>4. b \in Nat /\ start \in Nat /\ now \in Nat
    BY <2>2, Numbers DEF TypeOK
  <2>5. b <= now
    BY <2>3, <2>4
  <2> QED BY <2>5 DEF b
<1>5. ASSUME repaired[s] = {} PROVE Joined(d, m)
  <2> SUFFICES ASSUME NEW i \in 1..(m - 1)
               PROVE  d[i].close = d[i + 1].open
    BY DEF Joined
  <2> DEFINE t == a + i - 1
  <2>1. /\ i \in 1..m /\ i + 1 \in 1..m /\ a + (i + 1) - 1 = t + 1 /\ t \in Nat
        /\ t + 1 > 0 /\ t + 1 - 1 = t
    BY <1>2
  <2>2. /\ t \in Held(data) /\ t + 1 \in Held(data)
        /\ d[i].close = data[t].close /\ d[i + 1].open = data[t + 1].open
    <3>1. \A j \in 1..m : /\ a + j - 1 \in Held(data)
                          /\ d[j].open = data[a + j - 1].open
                          /\ d[j].close = data[a + j - 1].close
      BY <1>1, RecordsAre
    <3> HIDE DEF d, data
    <3>2. a + (i + 1) - 1 \in Held(data) /\ d[i + 1].open = data[a + (i + 1) - 1].open
      BY <2>1, <3>1
    <3>3. a + i - 1 \in Held(data) /\ d[i].close = data[a + i - 1].close
      BY <2>1, <3>1
    <3> QED BY <2>1, <3>2, <3>3
  <2> HIDE DEF t
  <2>3. \A x : Untouched(s, x)
    BY <1>5 DEF Untouched
  <2>4. /\ t \in Minutes /\ t + 1 \in Minutes
        /\ data[t].close = row[s][t].close /\ data[t + 1].open = row[s][t + 1].open
        /\ row[s][t] # NoCandle /\ row[s][t + 1] # NoCandle
    <3>1. t \in Minutes /\ data[t] # NoCandle /\ t + 1 \in Minutes /\ data[t + 1] # NoCandle
      BY <2>2 DEF Held
    <3> QED BY <1>3, <2>1, <2>3, <3>1 DEF CurrentFor
  <2>5. t # LastMinute
    <3>1. t + 1 <= LastMinute
      BY <2>1, <2>4, Numbers DEF Minutes
    <3> QED BY <2>1, <3>1, Numbers
  <2>6. row[s][t].close = row[s][t + 1].open
    BY <1>1, <1>5, <2>4, <2>5 DEF CandlesJoin
  <2> QED BY <2>2, <2>4, <2>6
<1> QED BY <1>4, <1>5

\* Without candles, there are no records.
LEMMA NoRecords ==
    ASSUME NEW data, Held(data) = {}
    PROVE  Records(data) = <<>>
<1>1. InOrder({}) = <<>>
  <2>1. <<>> \in Seq(Nat) /\ Ascends(<<>>) /\ {} = {<<>>[i] : i \in DOMAIN <<>>}
    BY DEF Ascends
  <2> QED BY <2>1, OrderOf
<1> QED BY <1>1 DEF Records

\* What is answered to the requests that are about to be.
LEMMA Answer ==
    ASSUME TypeOK, Shapes, Reached, Current, CandlesJoin, NEW r \in Answering,
           NEW n \in Resolutions
    PROVE  /\ Response(request[r].data, n) = ChartOf(Records(request[r].data), n, now)
           /\ repaired[request[r].symbol] = {} =>
                \A k \in 1..(Len(Response(request[r].data, n)) - 1) :
                    Response(request[r].data, n)[k].c = Response(request[r].data, n)[k + 1].o
<1> DEFINE data == request[r].data
           chart == Response(data, n)
<1>1. r \in Requests /\ request[r].at = "filling" /\ BeforeGap(data) = {}
  BY DEF Answering
<1>2. data \in [Minutes -> Row] /\ now \in Nat /\ n \in Nat \ {0}
  BY <1>1, Numbers, TimelineAssumption DEF TypeOK
<1>3. CASE Held(data) = {}
  <2>1. chart = <<>> /\ ChartOf(Records(data), n, now) = <<>>
    BY <1>2, <1>3, NoRecords, EmptyResponse DEF Response
  <2> HIDE DEF chart
  <2>2. \A k \in 1..(Len(chart) - 1) : chart[k].c = chart[k + 1].o
    BY <2>1
  <2> QED BY <2>1, <2>2 DEF chart
<1>4. CASE Held(data) # {}
  <2>1. PICK a \in Nat, m \in Nat \ {0} : Holds(data, a, m)
    <3> HIDE DEF data
    <3> QED BY <1>1, <1>2, <1>4, NoGapLeft DEF Holds
  <2>2. /\ a + m - 1 <= now
        /\ repaired[request[r].symbol] = {} => Joined(Records(data), m)
    BY <1>1, <2>1, HeldJoins
  <2> HIDE DEF data
  <2>3. Records(data) \in Inputs(Prices) /\ Stretch(Records(data), a, m)
    BY <1>2, <2>1, RecordsAre
  <2>4. chart = ChartOf(Records(data), n, now)
    BY <1>2, <2>2, <2>3, ResponseIs DEF Response
  <2>5. chart = makeOhlcResponse(Records(data), n, now)
    BY DEF Response
  <2> HIDE DEF chart
  <2>6. ASSUME repaired[request[r].symbol] = {}, NEW k \in 1..(Len(chart) - 1)
        PROVE  chart[k].c = chart[k + 1].o
    BY <1>2, <2>2, <2>3, <2>5, <2>6, ResponseJoins
  <2> QED BY <2>4, <2>6 DEF chart, data
<1> QED BY <1>3, <1>4

-----------------------------------------------------------------------------
(***************************************************************************)
(* The theorems.                                                           *)
(***************************************************************************)
\* The inductive invariant: what is known of the table and of all that the
\* loop, the passes and the requests have read of it.
THEOREM Invariance == Spec => []IInv
<1>1. IInv /\ [Next]_vars => IInv'
  BY Types, ShapesKept, ReachedKept, WaitingKept, CurrentKept, FilledKept, SettledKept, JoinKept
     DEF IInv
<1> QED BY Starts, <1>1, PTL DEF Spec

\* Every variable keeps its type: minutes stay below LastMinute, and a candle
\* that is saved has two prices.
THEOREM TypeCorrect == Spec => []TypeOK
<1>1. IInv => TypeOK
  BY DEF IInv
<1> QED BY Invariance, <1>1, PTL

\* However the loop, the repair passes and the chart requests interleave,
\* a candle opens where the one before closed, unless a pass has written the
\* first of the two or a later one.
THEOREM CandlesAreJoined == Spec => []CandlesJoin
<1>1. IInv => CandlesJoin
  BY DEF IInv
<1> QED BY Invariance, <1>1, PTL

\* The price that a round was settled with is the one getPrice goes on to
\* answer, unless a pass has written the candle before its minute.
THEOREM SettledPricesStand == Spec => []SettledPriceStands
<1>1. IInv => SettledPriceStands
  <2> SUFFICES ASSUME IInv, NEW s \in Symbols, NEW t \in Minutes \ {0},
                      settled[s][t] # NoPrice, t - 1 \notin repaired[s]
               PROVE  getPrice(s, t) = settled[s][t]
    BY DEF SettledPriceStands
  <2>1. SettledInTable(s, t, settled[s][t])
    BY DEF IInv, Settled, SettledAt
  <2>2. t > 0
    BY Numbers
  <2> QED BY <2>1, <2>2 DEF SettledInTable, getPrice
<1> QED BY Invariance, <1>1, PTL

\* A chart is one of intervals: whatever minutes its candles begin and end at,
\* makeOhlcResponse gives one candle for each interval that has some and for the
\* current one, in order, from the first open to the last close in it.
THEOREM ChartsAreOfIntervals == Spec => []ChartOfIntervals
<1>1. IInv => ChartOfIntervals
  BY Answer DEF IInv, ChartOfIntervals
<1> QED BY Invariance, <1>1, PTL

\* However old the data of a chart request is when it is answered and whoever
\* has filled its gaps, the candles of the chart join, unless a pass has written
\* a candle of its symbol.
THEOREM ChartsJoin == Spec => []ChartJoins
<1>1. IInv => ChartJoins
  BY Answer DEF IInv, ChartJoins
<1> QED BY Invariance, <1>1, PTL
=============================================================================

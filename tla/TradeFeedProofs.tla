-------------------------- MODULE TradeFeedProofs --------------------------
(***************************************************************************)
(* Proofs about TradeFeed for every set of symbols, every length of a      *)
(* minute and all bounds.                                                  *)
(***************************************************************************)
EXTENDS TradeFeed, FiniteSetTheorems, SequenceTheorems, TLAPS

Increasing(q) == \A i, j \in DOMAIN q : i < j => q[i] < q[j]

\* trades that no call has looked at yet
Waiting == ToSet(messageQueue) \cup ToSet(wire)

TimesInOrder == \A t, u \in Trades : t <= u => TimeOf(t) <= TimeOf(u)

InOrder ==
    /\ Increasing(messageQueue)
    /\ Increasing(wire)
    /\ \A t \in ToSet(messageQueue), u \in ToSet(wire) : t < u

\* what a call has looked at comes before what none has
Behind ==
    \A w \in Waiting :
        /\ \A t \in pending : t < w
        /\ \A s \in Symbols : record[s].lastTrade < w
        /\ \A s \in Symbols \ mixed : \A t \in ToSet(record[s].counted) : t < w

VolumeInv ==
    \A s \in Symbols \ mixed :
        /\ Increasing(record[s].counted)
        /\ rollOvers[s] = {} =>
             \A t \in ToSet(record[s].counted) :
                 SymbolOf(t) = s /\ MinuteOf(TimeOf(t)) = syncedTime

QueueInv ==
    exchange # "OKX" => Len(messageQueue) <= 1 /\ (~running => messageQueue = <<>>)

ErrorInv ==
    \A s \in Symbols : record[s].hasBinanceError => exchange = "Binance" /\ s \in overtaken

IInv ==
    /\ TypeOK
    /\ TimesInOrder
    /\ InOrder
    /\ Behind
    /\ VolumeInv
    /\ QueueInv
    /\ ErrorInv

-----------------------------------------------------------------------------
(* Lemmas about data. *)

LEMMA MinuteType ==
  ASSUME NEW t \in Nat
  PROVE  MinuteOf(t) \in 0..t /\ MinuteOf(t) % MinuteLength = 0
<1> DEFINE L == MinuteLength
<1>1. L \in Nat \ {0}  BY FeedAssumption
<1>2. t = L * (t \div L) + (t % L) /\ t % L \in 0..(L - 1) /\ t \div L \in Nat
  BY <1>1, SMT
<1>3. t % L <= t
  BY <1>1, <1>2, SMT
<1>4. MinuteOf(t) = L * (t \div L)
  BY <1>1, <1>2 DEF MinuteOf
<1>5. (L * (t \div L)) % L = 0
  BY <1>1, <1>2, SMT
<1> QED  BY <1>1, <1>2, <1>3, <1>4, <1>5 DEF MinuteOf

LEMMA RangeMember ==
  ASSUME NEW S, NEW q \in Seq(S), NEW x
  PROVE  x \in ToSet(q) <=> \E i \in 1..Len(q) : q[i] = x
  BY DEF ToSet

LEMMA TailOfQueue ==
  ASSUME NEW q \in Seq(Nat), q # <<>>, Increasing(q)
  PROVE  /\ Head(q) \in ToSet(q)
         /\ Tail(q) \in Seq(Nat)
         /\ Increasing(Tail(q))
         /\ ToSet(Tail(q)) \subseteq ToSet(q)
         /\ \A t \in ToSet(Tail(q)) : Head(q) < t
         /\ Len(Tail(q)) = Len(q) - 1
<1>1. /\ Tail(q) \in Seq(Nat)
      /\ Len(Tail(q)) = Len(q) - 1
      /\ \A i \in 1..Len(Tail(q)) : Tail(q)[i] = q[i + 1]
  BY HeadTailProperties
<1>2. Len(q) \in Nat /\ Len(q) >= 1 /\ DOMAIN q = 1..Len(q) /\ Head(q) = q[1]
  BY LenProperties, EmptySeq
<1>3. DOMAIN Tail(q) = 1..(Len(q) - 1)
  BY <1>1, LenProperties
<1>4. Head(q) \in ToSet(q)
  BY <1>2 DEF ToSet
<1>5. \A i \in DOMAIN Tail(q) : i + 1 \in DOMAIN q /\ Tail(q)[i] = q[i + 1] /\ 1 < i + 1
  BY <1>1, <1>2, <1>3
<1>6. Increasing(Tail(q))
  <2> SUFFICES ASSUME NEW i \in DOMAIN Tail(q), NEW j \in DOMAIN Tail(q), i < j
               PROVE  Tail(q)[i] < Tail(q)[j]
    BY DEF Increasing
  <2>1. i + 1 < j + 1  BY <1>3, <1>2
  <2> QED  BY <2>1, <1>5 DEF Increasing
<1>7. ToSet(Tail(q)) \subseteq ToSet(q)
  BY <1>5 DEF ToSet
<1>8. \A t \in ToSet(Tail(q)) : Head(q) < t
  BY <1>2, <1>5 DEF ToSet, Increasing
<1> QED  BY <1>1, <1>4, <1>6, <1>7, <1>8

LEMMA RangeOfAppend ==
  ASSUME NEW S, NEW q \in Seq(S), NEW t \in S
  PROVE  ToSet(Append(q, t)) = ToSet(q) \cup {t}
<1>1. /\ Len(Append(q, t)) = Len(q) + 1
      /\ \A i \in 1..Len(q) : Append(q, t)[i] = q[i]
      /\ Append(q, t)[Len(q) + 1] = t
      /\ DOMAIN Append(q, t) = 1..(Len(q) + 1)
  BY AppendProperties, LenProperties
<1>2. Len(q) \in Nat /\ DOMAIN q = 1..Len(q)
  BY LenProperties
<1>3. ASSUME NEW x \in ToSet(Append(q, t))  PROVE x \in ToSet(q) \cup {t}
  BY <1>1, <1>2 DEF ToSet
<1>4. ASSUME NEW x \in ToSet(q)  PROVE x \in ToSet(Append(q, t))
  <2>1. PICK i \in DOMAIN q : q[i] = x  BY DEF ToSet
  <2>2. i \in DOMAIN Append(q, t) /\ Append(q, t)[i] = x  BY <2>1, <1>1, <1>2
  <2> QED  BY <2>2 DEF ToSet
<1>5. t \in ToSet(Append(q, t))
  <2>1. Len(q) + 1 \in DOMAIN Append(q, t)  BY <1>1, <1>2
  <2> QED  BY <2>1, <1>1 DEF ToSet
<1> QED  BY <1>3, <1>4, <1>5

LEMMA AppendIncreasing ==
  ASSUME NEW q \in Seq(Nat), NEW t \in Nat, Increasing(q), \A u \in ToSet(q) : u < t
  PROVE  /\ Append(q, t) \in Seq(Nat)
         /\ Increasing(Append(q, t))
         /\ ToSet(Append(q, t)) = ToSet(q) \cup {t}
<1>1. /\ Append(q, t) \in Seq(Nat)
      /\ Len(Append(q, t)) = Len(q) + 1
      /\ \A i \in 1..Len(q) : Append(q, t)[i] = q[i]
      /\ Append(q, t)[Len(q) + 1] = t
  BY AppendProperties
<1>2. Len(q) \in Nat /\ DOMAIN q = 1..Len(q)
  BY LenProperties
<1>3. DOMAIN Append(q, t) = 1..(Len(q) + 1)
  BY <1>1, LenProperties
<1>4. \A i \in DOMAIN q : q[i] < t
  BY DEF ToSet
<1>5. Increasing(Append(q, t))
  <2> SUFFICES ASSUME NEW i \in DOMAIN Append(q, t), NEW j \in DOMAIN Append(q, t), i < j
               PROVE  Append(q, t)[i] < Append(q, t)[j]
    BY DEF Increasing
  <2>1. i \in DOMAIN q /\ Append(q, t)[i] = q[i]
    BY <1>1, <1>2, <1>3
  <2>2. CASE j = Len(q) + 1
    BY <2>1, <2>2, <1>1, <1>4
  <2>3. CASE j \in DOMAIN q
    BY <2>1, <2>3, <1>1, <1>2 DEF Increasing
  <2> QED  BY <2>2, <2>3, <1>2, <1>3
<1>6. ToSet(Append(q, t)) = ToSet(q) \cup {t}
  BY RangeOfAppend
<1> QED  BY <1>1, <1>5, <1>6

\* An increasing sequence holds nothing twice.
LEMMA IncreasingInjective ==
  ASSUME NEW q \in Seq(Nat), Increasing(q)
  PROVE  IsInjective(q)
<1>1. DOMAIN q = 1..Len(q) /\ Len(q) \in Nat /\ \A i \in DOMAIN q : q[i] \in Nat
  BY LenProperties, ElementOfSeq
<1> QED  BY <1>1 DEF Increasing, IsInjective

\* Messages taken from the front of an increasing wire.
LEMMA SplitWire ==
  ASSUME NEW q \in Seq(Nat), NEW w \in Seq(Nat), NEW n \in 1..Len(w),
         Increasing(q), Increasing(w), \A t \in ToSet(q), u \in ToSet(w) : t < u
  PROVE  LET p == q \o SubSeq(w, 1, n)
             r == SubSeq(w, n + 1, Len(w))
         IN  /\ p \in Seq(Nat) /\ r \in Seq(Nat)
             /\ Increasing(p) /\ Increasing(r)
             /\ ToSet(r) \subseteq ToSet(w)
             /\ ToSet(p) \subseteq ToSet(q) \cup ToSet(w)
             /\ \A t \in ToSet(p), u \in ToSet(r) : t < u
             /\ Len(p) = Len(q) + n
<1> DEFINE a == SubSeq(w, 1, n)
           p == q \o a
           r == SubSeq(w, n + 1, Len(w))
<1>1. Len(q) \in Nat /\ DOMAIN q = 1..Len(q) /\ Len(w) \in Nat /\ DOMAIN w = 1..Len(w)
  BY LenProperties
<1>2. \A i \in 1..n : w[i] \in Nat
  BY <1>1, ElementOfSeq
<1>3. a \in Seq(Nat) /\ Len(a) = n /\ \A i \in 1..n : a[i] = w[i]
  <2>1. n - 1 + 1 = n /\ 1 <= n /\ \A i \in 1..n : 1 + i - 1 = i  BY <1>1
  <2> QED  BY <1>1, <1>2, <2>1, SubSeqProperties
<1>4. \A i \in (n + 1)..Len(w) : w[i] \in Nat
  BY <1>1, ElementOfSeq
<1>5. r \in Seq(Nat) /\ Len(r) = Len(w) - n /\ \A i \in 1..(Len(w) - n) : r[i] = w[n + i]
  <2>1. n \in Nat /\ n <= Len(w)
    BY <1>1
  <2>2. \A m \in Int : (\A i \in m..Len(w) : w[i] \in Nat) =>
          /\ SubSeq(w, m, Len(w)) \in Seq(Nat)
          /\ Len(SubSeq(w, m, Len(w))) = IF m <= Len(w) THEN Len(w) - m + 1 ELSE 0
          /\ \A i \in 1..(Len(w) - m + 1) : SubSeq(w, m, Len(w))[i] = w[m + i - 1]
    BY <1>1, SubSeqProperties
  <2>3. n + 1 \in Int  BY <2>1
  <2>4. /\ r \in Seq(Nat)
        /\ Len(r) = IF n + 1 <= Len(w) THEN Len(w) - (n + 1) + 1 ELSE 0
        /\ \A i \in 1..(Len(w) - (n + 1) + 1) : r[i] = w[(n + 1) + i - 1]
    BY <2>2, <2>3, <1>4
  <2> HIDE DEF r
  <2>5. Len(w) - (n + 1) + 1 = Len(w) - n  BY <1>1, <2>1
  <2>6. Len(r) = Len(w) - n
    <3>1. CASE n + 1 <= Len(w)  BY <3>1, <2>4, <2>5
    <3>2. CASE ~(n + 1 <= Len(w))
      <4>1. \A b \in Nat : n <= b /\ ~(n + 1 <= b) => n = b  BY <2>1
      <4>2. n = Len(w)  BY <3>2, <4>1, <1>1, <2>1
      <4>3. Len(r) = 0  BY <3>2, <2>4
      <4> QED  BY <4>2, <4>3, <1>1
    <3> QED  BY <3>1, <3>2
  <2>7. ASSUME NEW i \in 1..(Len(w) - n)  PROVE (n + 1) + i - 1 = n + i
    BY <1>1, <2>1
  <2> QED  BY <2>4, <2>5, <2>6, <2>7
<1>6. /\ p \in Seq(Nat)
      /\ Len(p) = Len(q) + n
      /\ \A i \in 1..(Len(q) + n) : p[i] = IF i <= Len(q) THEN q[i] ELSE a[i - Len(q)]
  <2>1. a \in Seq(Nat) /\ q \in Seq(Nat) /\ Len(a) = n
    BY <1>1, <1>3
  <2> HIDE DEF a
  <2>2. /\ q \o a \in Seq(Nat) /\ Len(q \o a) = Len(q) + Len(a)
        /\ \A i \in 1..(Len(q) + Len(a)) :
             (q \o a)[i] = IF i <= Len(q) THEN q[i] ELSE a[i - Len(q)]
    BY <2>1, ConcatProperties
  <2> QED BY <2>1, <2>2
<1>7. DOMAIN p = 1..(Len(q) + n) /\ DOMAIN r = 1..(Len(w) - n)
  BY <1>5, <1>6, LenProperties
<1> HIDE DEF a, p, r
\* where the elements of p and r come from
<1>8. ASSUME NEW i \in DOMAIN p
      PROVE  \/ i \in DOMAIN q /\ p[i] = q[i]
             \/ i - Len(q) \in 1..n /\ p[i] = w[i - Len(q)]
  <2>1. CASE i <= Len(q)
    BY <2>1, <1>1, <1>6, <1>7
  <2>2. CASE ~(i <= Len(q))
    <3>1. i - Len(q) \in 1..n  BY <2>2, <1>1, <1>7
    <3> QED  BY <2>2, <3>1, <1>1, <1>3, <1>6, <1>7
  <2> QED  BY <2>1, <2>2
<1>9. ASSUME NEW i \in DOMAIN r
      PROVE  n + i \in DOMAIN w /\ r[i] = w[n + i]
  <2>1. n \in Nat /\ n <= Len(w) /\ i \in 1..(Len(w) - n)  BY <1>1, <1>7
  <2>2. n + i \in 1..Len(w)  BY <1>1, <2>1
  <2> QED  BY <1>1, <1>5, <2>1, <2>2
<1>10. Increasing(r)
  <2> SUFFICES ASSUME NEW i \in DOMAIN r, NEW j \in DOMAIN r, i < j  PROVE r[i] < r[j]
    BY DEF Increasing
  <2>1. n + i < n + j  BY <1>1, <1>7
  <2> QED  BY <2>1, <1>9 DEF Increasing
<1>11. Increasing(p)
  <2> SUFFICES ASSUME NEW i \in DOMAIN p, NEW j \in DOMAIN p, i < j  PROVE p[i] < p[j]
    BY DEF Increasing
  <2>1. CASE j <= Len(q)
    <3>1. i \in DOMAIN q /\ j \in DOMAIN q /\ p[i] = q[i] /\ p[j] = q[j]
      BY <2>1, <1>1, <1>6, <1>7
    <3> QED  BY <3>1 DEF Increasing
  <2>2. CASE j > Len(q) /\ i <= Len(q)
    <3>1. i \in DOMAIN q /\ p[i] = q[i]  BY <2>2, <1>1, <1>6, <1>7
    <3>2. j - Len(q) \in DOMAIN w /\ p[j] = w[j - Len(q)]
      <4>1. j \notin DOMAIN q  BY <2>2, <1>1
      <4>2. j - Len(q) \in 1..n /\ p[j] = w[j - Len(q)]  BY <4>1, <1>8
      <4> QED  BY <4>2, <1>1
    <3>3. p[i] \in ToSet(q) /\ p[j] \in ToSet(w)  BY <3>1, <3>2 DEF ToSet
    <3> QED  BY <3>3
  <2>3. CASE i > Len(q)
    <3>1. j > Len(q)  BY <2>3, <1>1, <1>7
    <3>2. /\ i - Len(q) \in DOMAIN w /\ p[i] = w[i - Len(q)]
          /\ j - Len(q) \in DOMAIN w /\ p[j] = w[j - Len(q)]
          /\ i - Len(q) < j - Len(q)
      BY <2>3, <3>1, <1>1, <1>7, <1>8
    <3> QED  BY <3>2 DEF Increasing
  <2> QED  BY <2>1, <2>2, <2>3, <1>1, <1>7
<1>12. ToSet(r) \subseteq ToSet(w)
  BY <1>9 DEF ToSet
<1>13. ToSet(p) \subseteq ToSet(q) \cup ToSet(w)
  <2> SUFFICES ASSUME NEW i \in DOMAIN p  PROVE p[i] \in ToSet(q) \cup ToSet(w)
    BY DEF ToSet
  <2>1. CASE i \in DOMAIN q /\ p[i] = q[i]  BY <2>1 DEF ToSet
  <2>2. CASE i - Len(q) \in 1..n /\ p[i] = w[i - Len(q)]
    <3>1. i - Len(q) \in DOMAIN w  BY <2>2, <1>1
    <3> QED  BY <2>2, <3>1 DEF ToSet
  <2> QED  BY <2>1, <2>2, <1>8
<1>14. ASSUME NEW i \in DOMAIN p, NEW j \in DOMAIN r  PROVE p[i] < r[j]
  <2>1. n + j \in DOMAIN w /\ r[j] = w[n + j]  BY <1>9
  <2>2. CASE i \in DOMAIN q /\ p[i] = q[i]
    BY <2>1, <2>2 DEF ToSet
  <2>3. CASE i - Len(q) \in 1..n /\ p[i] = w[i - Len(q)]
    <3>1. i - Len(q) \in DOMAIN w /\ i - Len(q) < n + j
      <4>1. n \in Nat /\ n <= Len(w) /\ Len(w) \in Nat /\ DOMAIN w = 1..Len(w)  BY <1>1
      <4>2. j \in Nat /\ j >= 1  BY <1>7
      <4>3. \A k \in 1..n : k \in 1..Len(w) /\ k < n + j  BY <4>1, <4>2
      <4> QED  BY <2>3, <4>1, <4>3
    <3> QED  BY <2>1, <2>3, <3>1 DEF Increasing
  <2> QED  BY <2>2, <2>3, <1>8
<1>15. \A t \in ToSet(p), u \in ToSet(r) : t < u
  BY <1>14 DEF ToSet
<1> QED  BY <1>5, <1>6, <1>10, <1>11, <1>12, <1>13, <1>15 DEF a, p, r

-----------------------------------------------------------------------------
(* Lemmas about the state. *)

\* The facts about types that the steps below share.
LEMMA Types ==
  ASSUME TypeOK
  PROVE  /\ now \in Nat /\ MaxTime \in Nat
         /\ Trades \subseteq Nat /\ NoTrade \notin Trades
         /\ \A t \in Trades : TimeOf(t) \in 0..now /\ SymbolOf(t) \in Symbols
         /\ messageQueue # <<>> => params \in Trades /\ params \in ToSet(messageQueue)
         /\ messageQueue \in Seq(Nat) /\ wire \in Seq(Nat)
         /\ ToSet(messageQueue) \subseteq Trades /\ ToSet(wire) \subseteq Trades
         /\ \A s \in Symbols : record[s] \in Records
<1>1. now \in Nat /\ MaxTime \in Nat
  BY FeedAssumption DEF TypeOK
<1>2. Trades \subseteq Nat /\ NoTrade \notin Trades
  BY DEF Trades, NoTrade
<1>3. \A t \in Trades : made[t] \in [symbol : Symbols, time : 0..now]
  BY ElementOfSeq DEF TypeOK, Trades
<1>4. messageQueue \in Seq(Nat) /\ wire \in Seq(Nat)
  BY <1>2, SeqMonotonic DEF TypeOK
<1>5. ToSet(messageQueue) \subseteq Trades /\ ToSet(wire) \subseteq Trades
  BY LenProperties, ElementOfSeq DEF TypeOK, ToSet
<1>6. messageQueue # <<>> => params \in Trades /\ params \in ToSet(messageQueue)
  <2> SUFFICES ASSUME messageQueue # <<>>  PROVE params \in Trades /\ params \in ToSet(messageQueue)
    OBVIOUS
  <2>1. params \in Trades  BY HeadTailProperties DEF TypeOK, params
  <2>2. Len(messageQueue) \in Nat \ {0} /\ DOMAIN messageQueue = 1..Len(messageQueue)
    BY EmptySeq, LenProperties DEF TypeOK
  <2>3. params = messageQueue[1]  BY DEF params
  <2> QED  BY <2>1, <2>2, <2>3 DEF ToSet
<1> QED  BY <1>1, <1>2, <1>3, <1>4, <1>5, <1>6 DEF TypeOK, TimeOf, SymbolOf

\* What a trade does to a record.
LEMMA TradeEffect ==
  ASSUME TypeOK, NEW r \in Records, NEW t \in Trades
  PROVE  /\ Trade(r, t) \in Records
         /\ Trade(r, t).lastTrade \in {r.lastTrade, t}
         /\ Trade(r, t).counted \in {r.counted, Append(r.counted, t)}
         /\ ~Older(t, r.lastTrade) => Trade(r, t).lastTrade = t
         /\ exchange \in {"Binance", "ByBit"} => NotOlder(r.lastTrade, Trade(r, t).lastTrade)
         /\ exchange = "Binance" /\ Trade(r, t).hasBinanceError => Older(t, r.lastTrade)
         /\ exchange # "Binance" => Trade(r, t).hasBinanceError = r.hasBinanceError
<1>1. /\ r = [counted |-> r.counted, synced |-> r.synced, lastTrade |-> r.lastTrade,
              hasBinanceError |-> r.hasBinanceError]
      /\ r.counted \in Seq(Trades) /\ r.synced \in BOOLEAN
      /\ r.lastTrade \in Trades \cup {NoTrade} /\ r.hasBinanceError \in BOOLEAN
  BY DEF Records
<1>2. Append(r.counted, t) \in Seq(Trades)
  BY <1>1, AppendProperties
<1>3. \A u \in Trades : TimeOf(u) \in Nat
  BY Types
<1>4. t # NoTrade
  BY DEF Trades, NoTrade
<1>5. /\ Counted(r, t) \in Records
      /\ Counted(r, t).lastTrade = t
      /\ Counted(r, t).counted = Append(r.counted, t)
      /\ Counted(r, t).hasBinanceError = r.hasBinanceError
  BY <1>1, <1>2 DEF Counted, Records
<1>6. ~Older(t, r.lastTrade) => NotOlder(r.lastTrade, t)
  BY <1>1, <1>3, <1>4 DEF Older, NotOlder
<1>7. NotOlder(r.lastTrade, r.lastTrade)
  BY <1>1, <1>3 DEF NotOlder
<1>8. CASE exchange = "Binance"
  <2>1. CASE Older(t, r.lastTrade)
    <3>1. Trade(r, t) = [r EXCEPT !.hasBinanceError = TRUE]
      BY <1>8, <2>1 DEF Trade, BinanceTrade
    <3>2. /\ Trade(r, t) \in Records
          /\ Trade(r, t).lastTrade = r.lastTrade
          /\ Trade(r, t).counted = r.counted
      BY <3>1, <1>1 DEF Records
    <3> QED  BY <3>2, <1>7, <1>8, <2>1
  <2>2. CASE ~Older(t, r.lastTrade)
    <3>1. Trade(r, t) = [Counted(r, t) EXCEPT !.hasBinanceError = FALSE]
      BY <1>8, <2>2 DEF Trade, BinanceTrade
    <3>2. /\ Trade(r, t) \in Records
          /\ Trade(r, t).lastTrade = t
          /\ Trade(r, t).counted = Append(r.counted, t)
          /\ Trade(r, t).hasBinanceError = FALSE
      BY <3>1, <1>5 DEF Records
    <3> QED  BY <3>2, <1>6, <1>8, <2>2
  <2> QED  BY <2>1, <2>2
<1>9. CASE exchange = "ByBit"
  <2>1. CASE Older(t, r.lastTrade)
    <3>1. Trade(r, t) = r  BY <1>9, <2>1 DEF Trade, ByBitTrade
    <3> QED  BY <3>1, <1>7, <1>9, <2>1
  <2>2. CASE ~Older(t, r.lastTrade)
    <3>1. Trade(r, t) = Counted(r, t)  BY <1>9, <2>2 DEF Trade, ByBitTrade
    <3> QED  BY <3>1, <1>5, <1>6, <1>9, <2>2
  <2> QED  BY <2>1, <2>2
<1>10. CASE exchange \notin {"Binance", "ByBit"}
  <2>1. Trade(r, t) = Counted(r, t)  BY <1>10 DEF Trade
  <2> QED  BY <2>1, <1>5, <1>10
<1> QED  BY <1>8, <1>9, <1>10

\* The historical volumes are sequences of trades.
LEMMA HistoryType ==
  ASSUME NEW t \in Trades, NEW h \in Histories(t), TypeOK
  PROVE  h \in Seq(Trades)
<1> DEFINE U == {u \in Trades : /\ SymbolOf(u) = SymbolOf(t)
                                /\ MinuteOf(TimeOf(u)) = MinuteOf(TimeOf(t))}
<1>1. Len(made) \in Nat
  BY LenProperties DEF TypeOK
<1>2. IsFiniteSet(Trades)
  BY <1>1, FS_Interval DEF Trades
<1>3. IsFiniteSet(U)
  BY <1>2, FS_Subset
<1>4. Cardinality(U) \in Nat /\ ExistsBijection(1..Cardinality(U), U)
  BY <1>3, FS_CardinalityType
<1>5. \E f \in [1..Cardinality(U) -> U] : IsInjective(f)
  BY <1>4 DEF ExistsBijection, Bijection, Injection, IsInjective
<1>6. SetToSeq(U) \in [1..Cardinality(U) -> U]
  BY <1>5 DEF SetToSeq
<1>7. SetToSeq(U) \in Seq(U)
  BY <1>4, <1>6, SeqDef
<1>8. SetToSeq(U) \in Seq(Trades)
  BY <1>7, SeqMonotonic
<1>9. <<>> \in Seq(Trades)
  BY EmptySeq
<1> QED  BY <1>8, <1>9 DEF Histories

-----------------------------------------------------------------------------
(* Types *)

LEMMA TypeInit == Init => TypeOK
<1> SUFFICES ASSUME Init  PROVE TypeOK
  OBVIOUS
<1>1. now \in 0..MaxTime
  BY FeedAssumption DEF Init
<1>2. \A S : <<>> \in Seq(S)
  BY EmptySeq
<1>3. NewRecord \in Records
  BY <1>2 DEF NewRecord, Records
<1>4. /\ exchange \in Exchanges /\ made = <<>> /\ wire = <<>> /\ messageQueue = <<>>
      /\ running \in BOOLEAN /\ pending = {} /\ syncedTime = now
      /\ rollOvers = [s \in Symbols |-> {}] /\ record = NewRecords
      /\ connected \in BOOLEAN /\ closes = 0 /\ zeroPushed \in BOOLEAN /\ mixed = {} /\ overtaken = {}
  BY DEF Init
<1>5. syncedTime \in 0..now
  BY <1>1, <1>4, FeedAssumption
<1> QED  BY <1>1, <1>2, <1>3, <1>4, <1>5 DEF TypeOK, NewRecords

\* A minute that starts is a whole one.
LEMMA RolledType ==
  ASSUME TypeOK, NEW t \in Trades, Rolled(t), UNCHANGED now
  PROVE  syncedTime' \in 0..now' /\ rollOvers' \in [Symbols -> SUBSET Minutes]
<1>1. now \in 0..MaxTime /\ MaxTime \in Nat /\ TimeOf(t) \in 0..now
  BY Types, FeedAssumption DEF TypeOK
<1>2. MinuteOf(TimeOf(t)) \in 0..now /\ MinuteOf(TimeOf(t)) % MinuteLength = 0
  BY <1>1, MinuteType
<1>3. MinuteOf(TimeOf(t)) \in Minutes
  BY <1>1, <1>2 DEF Minutes
<1> QED  BY <1>2, <1>3 DEF Rolled, TypeOK

LEMMA TypeStep == TypeOK /\ [Next]_vars => TypeOK'
<1> SUFFICES ASSUME TypeOK, [Next]_vars  PROVE TypeOK'
  OBVIOUS
<1> USE DEF feed
<1>1. CASE SkipOld
  <2>1. Tail(messageQueue) \in Seq(Trades)
    BY <1>1, HeadTailProperties DEF SkipOld, MayRun, TypeOK
  <2> QED  BY <1>1, <2>1 DEF SkipOld, TypeOK, Trades, Records
<1>2. CASE AskHistory
  <2>1. params \in Trades /\ SymbolOf(params) \in Symbols
    BY <1>2, Types DEF AskHistory, MayRun
  <2>2. syncedTime' \in 0..now' /\ rollOvers' \in [Symbols -> SUBSET Minutes]
    BY <1>2, <2>1, RolledType DEF AskHistory
  <2>3. record' \in [Symbols -> Records]
    BY <1>2, <2>1 DEF AskHistory, TypeOK, Records
  <2>4. <<>> \in Seq(Trades)
    BY EmptySeq
  <2> QED  BY <1>2, <2>1, <2>2, <2>3, <2>4 DEF AskHistory, TypeOK, Trades, Records
<1>3. CASE CountTrade
  <2>1. params \in Trades /\ SymbolOf(params) \in Symbols
    BY <1>3, Types DEF CountTrade, MayRun
  <2>2. syncedTime' \in 0..now' /\ rollOvers' \in [Symbols -> SUBSET Minutes]
    BY <1>3, <2>1, RolledType DEF CountTrade
  <2>3. Trade(record[SymbolOf(params)], params) \in Records
    BY <2>1, TradeEffect, Types
  <2>4. record' = [record EXCEPT ![SymbolOf(params)] = Trade(record[SymbolOf(params)], params)]
    BY <1>3 DEF CountTrade
  <2>5. record' \in [Symbols -> Records]
    BY <2>3, <2>4 DEF TypeOK
  <2>6. Tail(messageQueue) \in Seq(Trades)
    BY <1>3, HeadTailProperties DEF CountTrade, MayRun, TypeOK
  <2>7. overtaken' \subseteq Symbols
    BY <1>3 DEF CountTrade, TypeOK
  <2> QED  BY <1>3, <2>2, <2>5, <2>6, <2>7 DEF CountTrade, TypeOK, Trades, Records
<1>4. CASE QueueEmpty
  BY <1>4 DEF QueueEmpty, TypeOK, Trades, Records
<1>5. ASSUME NEW t \in pending, HistoryArrives(t)  PROVE TypeOK'
  <2>1. t \in Trades /\ SymbolOf(t) \in Symbols
    BY Types DEF TypeOK
  <2>2. PICK h \in Histories(t) :
           record' = [record EXCEPT ![SymbolOf(t)] = Trade(WithHistory(record[SymbolOf(t)], h), t)]
    BY <1>5 DEF HistoryArrives
  <2>3. record[SymbolOf(t)].counted \o h \in Seq(Trades)
    BY <2>1, HistoryType, Types, ConcatProperties DEF Records
  <2>4. WithHistory(record[SymbolOf(t)], h) \in Records
    BY <2>1, <2>3, Types DEF Records, WithHistory
  <2>5. record' \in [Symbols -> Records]
    BY <2>1, <2>2, <2>4, TradeEffect DEF TypeOK
  <2>6. mixed' \subseteq Symbols /\ overtaken' \subseteq Symbols
    BY <1>5, <2>1 DEF HistoryArrives, TypeOK
  <2> QED  BY <1>5, <2>5, <2>6 DEF HistoryArrives, TypeOK, Trades, Records
<1>6. ASSUME NEW s \in Symbols, NEW m \in rollOvers[s], StartMinute(s, m)  PROVE TypeOK'
  <2>1. <<>> \in Seq(Trades)
    BY EmptySeq
  <2>2. record' \in [Symbols -> Records]
    BY <1>6, <2>1 DEF StartMinute, TypeOK, Records
  <2>3. rollOvers' \in [Symbols -> SUBSET Minutes]
    BY <1>6 DEF StartMinute, TypeOK
  <2> QED  BY <1>6, <2>2, <2>3 DEF StartMinute, TypeOK, Trades, Records
<1>7. ASSUME NEW n \in 1..Len(wire), Message(n)  PROVE TypeOK'
  <2>1. Len(wire) \in Nat /\ \A i \in 1..Len(wire) : wire[i] \in Trades
    BY LenProperties, ElementOfSeq DEF TypeOK
  <2>2. SubSeq(wire, 1, n) \in Seq(Trades)
    <3>1. \A i \in 1..n : wire[i] \in Trades  BY <2>1
    <3> QED  BY <3>1, <2>1, SubSeqProperties
  <2>3. SubSeq(wire, n + 1, Len(wire)) \in Seq(Trades)
    <3>1. \A i \in (n + 1)..Len(wire) : wire[i] \in Trades  BY <2>1
    <3> QED  BY <3>1, <2>1, SubSeqProperties
  <2>4. messageQueue \o SubSeq(wire, 1, n) \in Seq(Trades)
    BY <2>2, ConcatProperties DEF TypeOK
  <2> QED  BY <1>7, <2>3, <2>4 DEF Message, HandleTradeEvent, TypeOK, Trades, Records
<1>8. CASE Disconnected
  <2>1. <<>> \in Seq(Trades)
    BY EmptySeq
  <2>2. NewRecord \in Records
    BY <2>1 DEF NewRecord, Records
  <2>3. record' \in [Symbols -> Records]
    BY <1>8, <2>2 DEF Disconnected, NewRecords
  <2>4. wire' = <<>> /\ connected' = FALSE /\ mixed' = {} /\ overtaken' = {}
    BY <1>8 DEF Disconnected
  <2>5. UNCHANGED <<exchange, now, made, messageQueue, running, pending, syncedTime, rollOvers,
                    zeroPushed>>
    BY <1>8 DEF Disconnected
  <2>6. closes' \in Nat
    BY <1>8 DEF Disconnected, TypeOK
  <2> QED  BY <2>1, <2>3, <2>4, <2>5, <2>6 DEF TypeOK, Trades, Records
<1>9. CASE CalculateLatestPrice
  BY <1>9 DEF CalculateLatestPrice, TypeOK, Trades, Records
<1>10. ASSUME NEW s \in Symbols, TradeMade(s)  PROVE TypeOK'
  <2>1. now \in Nat /\ [symbol |-> s, time |-> now] \in [symbol : Symbols, time : 0..now]
    BY Types
  <2>2. /\ made' \in Seq([symbol : Symbols, time : 0..now])
        /\ Len(made') = Len(made) + 1
    BY <1>10, <2>1, AppendProperties DEF TradeMade, TypeOK
  <2>3. Len(made) \in Nat
    BY LenProperties DEF TypeOK
  <2>4. Trades \subseteq Trades' /\ Len(made') \in Trades'
    BY <2>2, <2>3 DEF Trades
  <2>5. \A q : q \in Seq(Trades) => q \in Seq(Trades')
    BY <2>4, SeqMonotonic
  <2>6. wire' \in Seq(Trades') /\ messageQueue' \in Seq(Trades')
    <3>1. wire \in Seq(Trades')  BY <2>5 DEF TypeOK
    <3>2. Append(wire, Len(made')) \in Seq(Trades')  BY <2>4, <3>1, AppendProperties
    <3> QED  BY <1>10, <2>5, <3>1, <3>2 DEF TradeMade, TypeOK
  <2>7. \A r \in Records : r \in Records'
    BY <2>4, <2>5 DEF Records
  <2>8. record' \in [Symbols -> Records']
    BY <1>10, <2>7 DEF TradeMade, TypeOK
  <2> QED  BY <1>10, <2>2, <2>4, <2>6, <2>8 DEF TradeMade, TypeOK
<1>11. CASE OtherExchange
  <2>1. MinuteOf(now) \in 0..now /\ MinuteOf(now) \in Minutes
    <3>1. now \in Nat /\ now <= MaxTime /\ MaxTime \in Nat
      BY FeedAssumption DEF TypeOK
    <3> QED  BY <3>1, MinuteType DEF Minutes
  <2> QED  BY <1>11, <2>1 DEF OtherExchange, TypeOK, Trades, Records
<1>12. CASE Tick
  <2>1. now \in Nat /\ now' = now + 1 /\ now' \in 0..MaxTime
    BY <1>12, Types DEF Tick
  <2>2. [symbol : Symbols, time : 0..now] \subseteq [symbol : Symbols, time : 0..now']
    BY <2>1
  <2>3. made' \in Seq([symbol : Symbols, time : 0..now'])
    <3>1. made \in Seq([symbol : Symbols, time : 0..now]) /\ made' = made
      BY <1>12 DEF Tick, TypeOK
    <3> QED  BY <3>1, <2>2, SeqMonotonic
  <2>4. syncedTime' \in 0..now'
    BY <1>12, <2>1 DEF Tick, TypeOK
  <2> QED  BY <1>12, <2>1, <2>3, <2>4 DEF Tick, TypeOK, Trades, Records
<1>13. CASE UNCHANGED vars
  BY <1>13 DEF vars, TypeOK, Trades, Records
<1>14. CASE Connect
  BY <1>14 DEF Connect, TypeOK, Trades, Records
<1> QED
  BY <1>1, <1>2, <1>3, <1>4, <1>5, <1>6, <1>7, <1>8, <1>9, <1>10, <1>11, <1>12, <1>13, <1>14
  DEF Next

\* The records, the queue and the calls keep their shapes, for every set of
\* symbols and every bound (all actions).
THEOREM TypeCorrect == Spec => []TypeOK
<1>1. TypeOK /\ [Next]_vars => TypeOK'  BY TypeStep
<1> QED  BY <1>1, TypeInit, PTL DEF Spec

-----------------------------------------------------------------------------
(* Order *)

LEMMA OrderStep == IInv /\ [Next]_vars => TimesInOrder' /\ InOrder'
<1> SUFFICES ASSUME IInv, [Next]_vars  PROVE TimesInOrder' /\ InOrder'
  OBVIOUS
<1> USE DEF feed
<1>0. TypeOK /\ TimesInOrder /\ InOrder
  BY DEF IInv
<1>1. TimesInOrder'
  <2>1. ASSUME NEW s \in Symbols, TradeMade(s)  PROVE TimesInOrder'
    <3>1. /\ Len(made) \in Nat /\ Len(made') = Len(made) + 1
          /\ \A i \in 1..Len(made) : made'[i] = made[i]
          /\ made'[Len(made) + 1] = [symbol |-> s, time |-> now]
      BY <1>0, <2>1, Types, AppendProperties, LenProperties DEF TradeMade, TypeOK
    <3>2. \A t \in Trades : TimeOf(t) \in Nat /\ TimeOf(t) <= now /\ now \in Nat
      BY <1>0, Types
    <3> SUFFICES ASSUME NEW t \in Trades', NEW u \in Trades', t <= u
                 PROVE  TimeOf(t)' <= TimeOf(u)'
      BY DEF TimesInOrder
    <3>3. CASE u \in Trades
      <4>1. t \in Trades  BY <3>1, <3>3 DEF Trades
      <4> QED  BY <1>0, <3>1, <3>3, <4>1 DEF TimesInOrder, Trades, TimeOf
    <3>4. CASE u = Len(made) + 1
      <4>1. TimeOf(u)' = now  BY <3>1, <3>4 DEF TimeOf
      <4>2. CASE t \in Trades
        BY <3>1, <3>2, <4>1, <4>2 DEF Trades, TimeOf
      <4>3. CASE t = Len(made) + 1
        BY <3>1, <3>2, <3>4, <4>1, <4>3, <1>0, Types
      <4> QED  BY <4>2, <4>3, <3>1 DEF Trades
    <3> QED  BY <3>1, <3>3, <3>4 DEF Trades
  <2>2. CASE made' = made
    BY <1>0, <2>2 DEF TimesInOrder, Trades, TimeOf
  <2>3. made' = made \/ \E s \in Symbols : TradeMade(s)
    BY DEF Next, vars, SkipOld, AskHistory, CountTrade, QueueEmpty, HistoryArrives, StartMinute,
           Message, HandleTradeEvent, Connect, Disconnected, CalculateLatestPrice, OtherExchange,
           Tick
  <2> QED  BY <2>1, <2>2, <2>3
<1>2. InOrder'
  <2>1. CASE messageQueue # <<>> /\ messageQueue' = Tail(messageQueue) /\ wire' = wire
    BY <1>0, <2>1, Types, TailOfQueue DEF InOrder
  <2>2. CASE messageQueue' = <<>> /\ wire' = wire
    BY <1>0, <2>2 DEF InOrder, Increasing, ToSet
  <2>3. ASSUME NEW n \in 1..Len(wire), Message(n)  PROVE InOrder'
    BY <1>0, <2>3, Types, SplitWire DEF Message, HandleTradeEvent, InOrder
  <2>4. CASE messageQueue' = messageQueue /\ wire' = <<>>
    BY <1>0, <2>4 DEF InOrder, Increasing, ToSet
  <2>5. ASSUME NEW s \in Symbols, TradeMade(s)  PROVE InOrder'
    <3>1. Len(made) \in Nat /\ Len(made') = Len(made) + 1
      BY <1>0, <2>5, AppendProperties, LenProperties DEF TradeMade, TypeOK
    <3>2. \A t \in Trades : t < Len(made')
      BY <3>1 DEF Trades
    <3>3. wire' = (IF connected THEN Append(wire, Len(made')) ELSE wire)
      BY <2>5 DEF TradeMade
    <3>a. CASE ~connected
      BY <1>0, <2>5, <3>3, <3>a DEF TradeMade, InOrder
    <3> SUFFICES ASSUME connected  PROVE InOrder'
      BY <3>a
    <3>b. wire' = Append(wire, Len(made')) /\ messageQueue' = messageQueue
      BY <2>5, <3>3 DEF TradeMade
    <3>4. /\ Increasing(wire') /\ ToSet(wire') = ToSet(wire) \cup {Len(made')}
      <4>1. \A t \in ToSet(wire) : t < Len(made')  BY <1>0, <3>2, Types
      <4> QED  BY <1>0, <3>1, <3>b, <4>1, Types, AppendIncreasing DEF InOrder
    <3>5. \A t \in ToSet(messageQueue) : t < Len(made')
      BY <1>0, <3>2, Types
    <3> QED  BY <1>0, <3>b, <3>4, <3>5 DEF InOrder
  <2>6. CASE messageQueue' = messageQueue /\ wire' = wire
    BY <1>0, <2>6 DEF InOrder
  <2>7. \/ messageQueue # <<>> /\ messageQueue' = Tail(messageQueue) /\ wire' = wire
        \/ messageQueue' = <<>> /\ wire' = wire
        \/ \E n \in 1..Len(wire) : Message(n)
        \/ messageQueue' = messageQueue /\ wire' = <<>>
        \/ \E s \in Symbols : TradeMade(s)
        \/ messageQueue' = messageQueue /\ wire' = wire
    BY DEF Next, vars, SkipOld, AskHistory, CountTrade, QueueEmpty, HistoryArrives, StartMinute,
           MayRun, Connect, Disconnected, CalculateLatestPrice, OtherExchange, Tick
  <2> QED  BY <2>1, <2>2, <2>3, <2>4, <2>5, <2>6, <2>7
<1> QED  BY <1>1, <1>2

\* What a counted trade changes, of its own record and of no other.
LEMMA CountTradeEffect ==
  ASSUME IInv, CountTrade
  PROVE  LET s == SymbolOf(params)
         IN  /\ params \in Trades /\ params \in ToSet(messageQueue) /\ s \in Symbols
             /\ record'[s] = Trade(record[s], params)
             /\ \A u \in Symbols \ {s} : record'[u] = record[u]
             /\ ~Older(params, record[s].lastTrade)
             /\ record'[s].lastTrade = params
<1> DEFINE s == SymbolOf(params)
<1>1. TypeOK /\ TimesInOrder /\ Behind
  BY DEF IInv
<1>2. params \in Trades /\ params \in ToSet(messageQueue) /\ s \in Symbols
  BY <1>1, Types DEF CountTrade, MayRun
<1>3. record' = [record EXCEPT ![s] = Trade(record[s], params)]
  BY DEF CountTrade
<1>4. record'[s] = Trade(record[s], params) /\ \A u \in Symbols \ {s} : record'[u] = record[u]
  BY <1>1, <1>2, <1>3 DEF TypeOK
<1>5. ~Older(params, record[s].lastTrade)
  <2>1. record[s].lastTrade < params
    BY <1>1, <1>2 DEF Behind, Waiting
  <2>2. record[s].lastTrade \in Trades \cup {NoTrade}
    BY <1>1, <1>2, Types DEF Records
  <2>3. CASE record[s].lastTrade \in Trades
    <3>1. TimeOf(record[s].lastTrade) <= TimeOf(params)
      BY <1>1, <1>2, <2>1, <2>3, Types DEF TimesInOrder
    <3>2. TimeOf(record[s].lastTrade) \in Nat /\ TimeOf(params) \in Nat
      BY <1>1, <1>2, <2>3, Types
    <3> QED  BY <3>1, <3>2 DEF Older
  <2>4. CASE record[s].lastTrade = NoTrade
    BY <2>4 DEF Older
  <2> QED  BY <2>2, <2>3, <2>4
<1>6. record'[s].lastTrade = params
  BY <1>1, <1>2, <1>4, <1>5, Types, TradeEffect
<1> QED  BY <1>2, <1>4, <1>5, <1>6

\* What an answer changes.
LEMMA HistoryEffect ==
  ASSUME IInv, NEW t \in pending, HistoryArrives(t)
  PROVE  LET s == SymbolOf(t)
         IN  /\ t \in Trades /\ s \in Symbols
             /\ \E r \in Records : /\ record'[s] = Trade(r, t)
                                   /\ r.lastTrade = record[s].lastTrade
                                   /\ r.hasBinanceError = record[s].hasBinanceError
             /\ \A u \in Symbols \ {s} : record'[u] = record[u]
             /\ record'[s].lastTrade \in {record[s].lastTrade, t}
<1> DEFINE s == SymbolOf(t)
<1>1. TypeOK
  BY DEF IInv
<1>2. t \in Trades /\ s \in Symbols
  BY <1>1, Types DEF TypeOK
<1>3. PICK h \in Histories(t) : record' = [record EXCEPT ![s] = Trade(WithHistory(record[s], h), t)]
  BY DEF HistoryArrives
<1>4. record[s] \in Records /\ record[s].counted \o h \in Seq(Trades)
  BY <1>1, <1>2, HistoryType, Types, ConcatProperties DEF Records
<1>5. /\ WithHistory(record[s], h) \in Records
      /\ WithHistory(record[s], h).lastTrade = record[s].lastTrade
      /\ WithHistory(record[s], h).hasBinanceError = record[s].hasBinanceError
  BY <1>4 DEF Records, WithHistory
<1>6. /\ record'[s] = Trade(WithHistory(record[s], h), t)
      /\ \A u \in Symbols \ {s} : record'[u] = record[u]
  BY <1>1, <1>2, <1>3 DEF TypeOK
<1>7. record'[s].lastTrade \in {record[s].lastTrade, t}
  BY <1>1, <1>2, <1>5, <1>6, TradeEffect
<1> QED  BY <1>2, <1>5, <1>6, <1>7

-----------------------------------------------------------------------------
(* What was looked at stays behind what was not. *)

LEMMA BehindStep == IInv /\ [Next]_vars => Behind'
<1> SUFFICES ASSUME IInv, [Next]_vars  PROVE Behind'
  OBVIOUS
<1> USE DEF feed
<1>0. TypeOK /\ InOrder /\ Behind
  BY DEF IInv
<1>a. Waiting \subseteq Trades /\ Trades \subseteq Nat
  BY <1>0, Types DEF Waiting
<1>b. messageQueue # <<>> => /\ params \in Waiting
                             /\ \A w \in ToSet(Tail(messageQueue)) \cup ToSet(wire) :
                                  w \in Waiting /\ params < w
  <2> SUFFICES ASSUME messageQueue # <<>>
               PROVE  /\ params \in Waiting
                      /\ \A w \in ToSet(Tail(messageQueue)) \cup ToSet(wire) :
                           w \in Waiting /\ params < w
    OBVIOUS
  <2>1. params \in ToSet(messageQueue)
    BY <1>0, Types
  <2>2. /\ ToSet(Tail(messageQueue)) \subseteq ToSet(messageQueue)
        /\ \A t \in ToSet(Tail(messageQueue)) : params < t
    BY <1>0, Types, TailOfQueue DEF InOrder, params
  <2> QED  BY <1>0, <2>1, <2>2 DEF InOrder, Waiting
<1>1. CASE Waiting' \subseteq Waiting /\ UNCHANGED <<record, pending, mixed>>
  BY <1>0, <1>1 DEF Behind
<1>2. CASE AskHistory
  <2>1. /\ messageQueue # <<>> /\ wire' = wire /\ pending' = pending \cup {params} /\ mixed' = mixed
        /\ \A s \in Symbols : /\ record'[s].lastTrade = record[s].lastTrade
                              /\ record'[s].counted = record[s].counted
    BY <1>0, <1>2, Types DEF AskHistory, MayRun, TypeOK, Records
  <2>2. Waiting' = ToSet(wire)
    BY <1>2 DEF AskHistory, Waiting, ToSet
  <2> QED  BY <1>0, <1>b, <2>1, <2>2 DEF Behind, Waiting
<1>3. CASE CountTrade
  <2> DEFINE s == SymbolOf(params)
  <2>1. messageQueue # <<>> /\ Waiting' = ToSet(Tail(messageQueue)) \cup ToSet(wire)
    BY <1>3 DEF CountTrade, MayRun, Waiting
  <2>2. /\ params \in Trades /\ s \in Symbols
        /\ \A u \in Symbols \ {s} : record'[u] = record[u]
        /\ record'[s].lastTrade = params
        /\ record'[s].counted \in {record[s].counted, Append(record[s].counted, params)}
    BY <1>0, <1>3, CountTradeEffect, TradeEffect, Types
  <2>3. ToSet(record'[s].counted) \subseteq ToSet(record[s].counted) \cup {params}
    <3>1. record[s].counted \in Seq(Trades)
      BY <1>0, <2>2, Types DEF Records
    <3>2. ToSet(Append(record[s].counted, params)) = ToSet(record[s].counted) \cup {params}
      BY <2>2, <3>1, RangeOfAppend
    <3>3. CASE record'[s].counted = record[s].counted  BY <3>3
    <3>4. CASE record'[s].counted = Append(record[s].counted, params)  BY <3>2, <3>4
    <3> QED  BY <2>2, <3>3, <3>4
  <2>4. pending' = pending /\ mixed' = mixed
    BY <1>3 DEF CountTrade
  <2> SUFFICES ASSUME NEW w \in Waiting'
               PROVE  /\ \A t \in pending : t < w
                      /\ \A u \in Symbols : record'[u].lastTrade < w
                      /\ \A u \in Symbols \ mixed : \A t \in ToSet(record'[u].counted) : t < w
    BY <2>4 DEF Behind
  <2>5. w \in Waiting /\ params < w
    BY <1>b, <2>1
  <2>6. \A u \in Symbols : record'[u].lastTrade < w
    BY <1>0, <2>2, <2>5 DEF Behind
  <2>7. ASSUME NEW u \in Symbols \ mixed, NEW t \in ToSet(record'[u].counted)  PROVE t < w
    BY <1>0, <2>2, <2>3, <2>5, <2>7 DEF Behind
  <2> QED  BY <1>0, <2>5, <2>6, <2>7 DEF Behind
<1>4. ASSUME NEW t \in pending, HistoryArrives(t)  PROVE Behind'
  <2> DEFINE s == SymbolOf(t)
  <2>1. /\ Waiting' = Waiting /\ pending' = pending \ {t} /\ mixed' = mixed \cup {s}
    BY <1>4 DEF HistoryArrives, Waiting
  <2>2. /\ \A u \in Symbols \ {s} : record'[u] = record[u]
        /\ record'[s].lastTrade \in {record[s].lastTrade, t}
        /\ s \in Symbols
    BY <1>4, HistoryEffect
  <2> QED  BY <1>0, <2>1, <2>2 DEF Behind
<1>5. ASSUME NEW s \in Symbols, NEW m \in rollOvers[s], StartMinute(s, m)  PROVE Behind'
  <2>1. /\ Waiting' = Waiting /\ pending' = pending /\ mixed' = mixed \ {s}
        /\ \A u \in Symbols \ {s} : record'[u] = record[u]
        /\ record'[s].lastTrade = record[s].lastTrade /\ record'[s].counted = <<>>
    BY <1>0, <1>5, Types DEF StartMinute, Waiting, TypeOK, Records
  <2>2. ToSet(<<>>) = {}
    BY DEF ToSet
  <2> QED  BY <1>0, <2>1, <2>2 DEF Behind
<1>6. ASSUME NEW n \in 1..Len(wire), Message(n)  PROVE Behind'
  <2>1. Waiting' \subseteq Waiting
    BY <1>0, <1>6, Types, SplitWire DEF InOrder, Message, HandleTradeEvent, Waiting
  <2> QED  BY <1>1, <1>6, <2>1 DEF Message, HandleTradeEvent
<1>7. CASE Disconnected
  <2>1. /\ Waiting' \subseteq Waiting /\ pending' = pending
        /\ \A s \in Symbols : record'[s].lastTrade = NoTrade /\ record'[s].counted = <<>>
    BY <1>7 DEF Disconnected, Waiting, NewRecords, NewRecord, ToSet
  <2>2. ToSet(<<>>) = {}
    BY DEF ToSet
  <2>3. \A w \in Waiting : NoTrade < w
    BY <1>a DEF NoTrade, Trades
  <2> QED  BY <1>0, <2>1, <2>2, <2>3 DEF Behind
<1>8. ASSUME NEW s \in Symbols, TradeMade(s)  PROVE Behind'
  <2>1. Len(made) \in Nat /\ Len(made') = Len(made) + 1
    BY <1>0, <1>8, AppendProperties, LenProperties DEF TradeMade, TypeOK
  <2>2. Waiting' \subseteq Waiting \cup {Len(made')}
    <3>1. wire \in Seq(Nat) /\ Len(made') \in Nat
      BY <1>0, <2>1, Types
    <3>2. /\ wire' = Append(wire, Len(made')) \/ wire' = wire
          /\ messageQueue' = messageQueue
      BY <1>8 DEF TradeMade
    <3>3. ToSet(wire') \subseteq ToSet(wire) \cup {Len(made')}
      BY <3>1, <3>2, RangeOfAppend
    <3> QED  BY <3>2, <3>3 DEF Waiting
  <2>3. UNCHANGED <<record, pending, mixed>>
    BY <1>8 DEF TradeMade
  <2>4. \A t \in Trades \cup {NoTrade} : t < Len(made')
    BY <2>1 DEF Trades, NoTrade
  <2>5. \A u \in Symbols : /\ record[u].lastTrade \in Trades \cup {NoTrade}
                           /\ ToSet(record[u].counted) \subseteq Trades
    <3> SUFFICES ASSUME NEW u \in Symbols
                 PROVE  /\ record[u].lastTrade \in Trades \cup {NoTrade}
                        /\ ToSet(record[u].counted) \subseteq Trades
      OBVIOUS
    <3>1. record[u].lastTrade \in Trades \cup {NoTrade} /\ record[u].counted \in Seq(Trades)
      BY <1>0, Types DEF Records
    <3> QED  BY <3>1, LenProperties, ElementOfSeq DEF ToSet
  <2>6. pending \subseteq Trades
    BY <1>0 DEF TypeOK
  <2> QED  BY <1>0, <2>2, <2>3, <2>4, <2>5, <2>6 DEF Behind
<1>9. \/ Waiting' \subseteq Waiting /\ UNCHANGED <<record, pending, mixed>>
      \/ AskHistory
      \/ CountTrade
      \/ \E t \in pending : HistoryArrives(t)
      \/ \E s \in Symbols : \E m \in rollOvers[s] : StartMinute(s, m)
      \/ \E n \in 1..Len(wire) : Message(n)
      \/ Disconnected
      \/ \E s \in Symbols : TradeMade(s)
  <2>1. CASE SkipOld
    <3>1. messageQueue # <<>> /\ Waiting' = ToSet(Tail(messageQueue)) \cup ToSet(wire)
      BY <2>1 DEF SkipOld, MayRun, Waiting
    <3> QED  BY <1>b, <2>1, <3>1 DEF SkipOld
  <2>2. CASE \/ QueueEmpty \/ Connect \/ CalculateLatestPrice \/ OtherExchange \/ Tick
             \/ UNCHANGED vars
    BY <2>2 DEF QueueEmpty, Connect, CalculateLatestPrice, OtherExchange, Tick, vars, Waiting
  <2> QED  BY <2>1, <2>2 DEF Next
<1> QED  BY <1>1, <1>2, <1>3, <1>4, <1>5, <1>6, <1>7, <1>8, <1>9

-----------------------------------------------------------------------------
(* The volumes. *)

\* The first trade of a minute leaves no symbol without a start to come.
LEMMA RolledEffect ==
  ASSUME TypeOK, NEW t \in Trades, Rolled(t), ~IsOld(t)
  PROVE  \A s \in Symbols :
           rollOvers'[s] = {} => /\ rollOvers[s] = {}
                                 /\ syncedTime' = syncedTime
                                 /\ MinuteOf(TimeOf(t)) = syncedTime
<1> SUFFICES ASSUME NEW s \in Symbols, rollOvers'[s] = {}
             PROVE  /\ rollOvers[s] = {}
                    /\ syncedTime' = syncedTime
                    /\ MinuteOf(TimeOf(t)) = syncedTime
  OBVIOUS
<1>1. ~(syncedTime < MinuteOf(TimeOf(t))) /\ UNCHANGED <<syncedTime, rollOvers>>
  BY DEF Rolled
<1>2. syncedTime \in Nat /\ MinuteOf(TimeOf(t)) \in Nat
  <2>1. now \in Nat /\ syncedTime \in 0..now /\ TimeOf(t) \in Nat
    BY Types DEF TypeOK
  <2> QED  BY <2>1, MinuteType
<1>3. MinuteOf(TimeOf(t)) = syncedTime
  BY <1>1, <1>2 DEF IsOld
<1> QED  BY <1>1, <1>3

LEMMA VolumeStep == IInv /\ [Next]_vars => VolumeInv'
<1> SUFFICES ASSUME IInv, [Next]_vars  PROVE VolumeInv'
  OBVIOUS
<1> USE DEF feed
<1>0. TypeOK /\ Behind /\ VolumeInv
  BY DEF IInv
<1>1. CASE UNCHANGED <<made, record, rollOvers, syncedTime, mixed>>
  BY <1>0, <1>1 DEF VolumeInv, SymbolOf, TimeOf
<1>2. CASE AskHistory
  <2>1. /\ params \in Trades /\ Rolled(params) /\ ~IsOld(params)
        /\ made' = made /\ mixed' = mixed
        /\ \A s \in Symbols : record'[s].counted = record[s].counted
    BY <1>0, <1>2, Types DEF AskHistory, MayRun, TypeOK, Records
  <2>2. \A s \in Symbols : rollOvers'[s] = {} => rollOvers[s] = {} /\ syncedTime' = syncedTime
    BY <1>0, <2>1, RolledEffect
  <2> QED  BY <1>0, <2>1, <2>2 DEF VolumeInv, SymbolOf, TimeOf
<1>3. CASE CountTrade
  <2> DEFINE s == SymbolOf(params)
             c == record[s].counted
             d == record'[s].counted
  <2>1. /\ params \in Trades /\ params \in Waiting /\ s \in Symbols
        /\ Rolled(params) /\ ~IsOld(params)
        /\ made' = made /\ mixed' = mixed
    BY <1>3, CountTradeEffect DEF CountTrade, Waiting
  <2>2. /\ \A u \in Symbols \ {s} : record'[u] = record[u]
        /\ d \in {c, Append(c, params)}
    BY <1>0, <1>3, <2>1, CountTradeEffect, TradeEffect, Types
  <2>3. \A u \in Symbols :
          rollOvers'[u] = {} => /\ rollOvers[u] = {}
                                /\ syncedTime' = syncedTime
                                /\ MinuteOf(TimeOf(params)) = syncedTime
    BY <1>0, <2>1, RolledEffect
  <2> SUFFICES ASSUME NEW u \in Symbols \ mixed
               PROVE  /\ Increasing(record'[u].counted)
                      /\ rollOvers'[u] = {} =>
                           \A t \in ToSet(record'[u].counted) :
                               SymbolOf(t) = u /\ MinuteOf(TimeOf(t)) = syncedTime'
    BY <2>1 DEF VolumeInv, SymbolOf, TimeOf
  <2>4. CASE u # s
    BY <1>0, <2>2, <2>3, <2>4 DEF VolumeInv
  <2>5. CASE u = s
    <3>1. /\ c \in Seq(Nat) /\ params \in Nat
          /\ Increasing(c) /\ \A t \in ToSet(c) : t < params
      <4>1. c \in Seq(Trades) /\ Trades \subseteq Nat
        BY <1>0, <2>1, Types DEF Records
      <4>2. c \in Seq(Nat)
        BY <4>1, SeqMonotonic
      <4> QED  BY <1>0, <2>1, <2>5, <4>1, <4>2 DEF VolumeInv, Behind
    <3>2. CASE d = c
      BY <1>0, <2>3, <2>5, <3>2 DEF VolumeInv
    <3>3. CASE d = Append(c, params)
      <4>1. Increasing(d) /\ ToSet(d) = ToSet(c) \cup {params}
        BY <3>1, <3>3, AppendIncreasing
      <4> QED  BY <1>0, <2>3, <2>5, <4>1 DEF VolumeInv
    <3> QED  BY <2>2, <3>2, <3>3
  <2> QED  BY <2>4, <2>5
<1>4. ASSUME NEW t \in pending, HistoryArrives(t)  PROVE VolumeInv'
  <2> DEFINE s == SymbolOf(t)
  <2>1. /\ mixed' = mixed \cup {s} /\ UNCHANGED <<made, rollOvers, syncedTime>>
        /\ \A u \in Symbols \ {s} : record'[u] = record[u]
    BY <1>4, HistoryEffect DEF HistoryArrives
  <2> QED  BY <1>0, <2>1 DEF VolumeInv, SymbolOf, TimeOf
<1>5. ASSUME NEW s \in Symbols, NEW m \in rollOvers[s], StartMinute(s, m)  PROVE VolumeInv'
  <2>1. /\ mixed' = mixed \ {s} /\ UNCHANGED <<made, syncedTime>>
        /\ \A u \in Symbols \ {s} : record'[u] = record[u] /\ rollOvers'[u] = rollOvers[u]
        /\ record'[s].counted = <<>>
    BY <1>0, <1>5, Types DEF StartMinute, TypeOK, Records
  <2>2. Increasing(<<>>) /\ ToSet(<<>>) = {}
    BY DEF Increasing, ToSet
  <2> QED  BY <1>0, <2>1, <2>2 DEF VolumeInv, SymbolOf, TimeOf
<1>6. CASE Disconnected
  <2>1. \A s \in Symbols : record'[s].counted = <<>>
    BY <1>6 DEF Disconnected, NewRecords, NewRecord
  <2>2. Increasing(<<>>) /\ ToSet(<<>>) = {}
    BY DEF Increasing, ToSet
  <2> QED  BY <2>1, <2>2 DEF VolumeInv
<1>7. ASSUME NEW s \in Symbols, TradeMade(s)  PROVE VolumeInv'
  <2>1. \A t \in Trades : made'[t] = made[t]
    BY <1>0, <1>7, AppendProperties, LenProperties DEF TradeMade, TypeOK, Trades
  <2>2. UNCHANGED <<record, rollOvers, syncedTime, mixed>>
    BY <1>7 DEF TradeMade
  <2>3. \A u \in Symbols : ToSet(record[u].counted) \subseteq Trades
    <3> SUFFICES ASSUME NEW u \in Symbols  PROVE ToSet(record[u].counted) \subseteq Trades
      OBVIOUS
    <3>1. record[u].counted \in Seq(Trades)
      BY <1>0, Types DEF Records
    <3> QED  BY <3>1, LenProperties, ElementOfSeq DEF ToSet
  <2> QED  BY <1>0, <2>1, <2>2, <2>3 DEF VolumeInv, SymbolOf, TimeOf
<1>8. CASE OtherExchange
  <2>1. /\ UNCHANGED <<record, mixed>>
        /\ \A s \in Symbols : rollOvers'[s] # {}
    BY <1>8 DEF OtherExchange
  <2> QED  BY <1>0, <2>1 DEF VolumeInv
<1>9. \/ UNCHANGED <<made, record, rollOvers, syncedTime, mixed>>
      \/ AskHistory
      \/ CountTrade
      \/ \E t \in pending : HistoryArrives(t)
      \/ \E s \in Symbols : \E m \in rollOvers[s] : StartMinute(s, m)
      \/ Disconnected
      \/ \E s \in Symbols : TradeMade(s)
      \/ OtherExchange
  BY DEF Next, vars, SkipOld, QueueEmpty, Message, HandleTradeEvent, Connect,
     CalculateLatestPrice, Tick
<1> QED  BY <1>1, <1>2, <1>3, <1>4, <1>5, <1>6, <1>7, <1>8, <1>9

-----------------------------------------------------------------------------
(* The queue and the errors. *)

LEMMA QueueStep == IInv /\ [Next]_vars => QueueInv'
<1> USE DEF feed
<1> SUFFICES ASSUME IInv, [Next]_vars  PROVE QueueInv'
  OBVIOUS
<1>e. exchange' = exchange
  <2>1. CASE SkipOld \/ AskHistory \/ CountTrade \/ QueueEmpty
    BY <2>1 DEF SkipOld, AskHistory, CountTrade, QueueEmpty
  <2>2. CASE \/ \E t \in pending : HistoryArrives(t)
             \/ \E s \in Symbols : \E m \in rollOvers[s] : StartMinute(s, m)
             \/ \E n \in 1..Len(wire) : Message(n)
    BY <2>2 DEF HistoryArrives, StartMinute, Message, HandleTradeEvent
  <2>3. CASE \/ Connect \/ Disconnected \/ CalculateLatestPrice \/ OtherExchange \/ Tick
             \/ \E s \in Symbols : TradeMade(s)
             \/ UNCHANGED vars
    BY <2>3 DEF Connect, Disconnected, CalculateLatestPrice, OtherExchange, Tick, TradeMade,
       vars
  <2> QED  BY <2>1, <2>2, <2>3 DEF Next
<1> SUFFICES ASSUME exchange # "OKX"
             PROVE  Len(messageQueue') <= 1 /\ (~running' => messageQueue' = <<>>)
  BY <1>e DEF QueueInv
<1>0. /\ TypeOK
      /\ messageQueue \in Seq(Nat) /\ Len(messageQueue) <= 1
      /\ ~running => messageQueue = <<>>
  BY Types DEF IInv, QueueInv
<1>1. messageQueue # <<>> => Tail(messageQueue) = <<>>
  <2> SUFFICES ASSUME messageQueue # <<>>  PROVE Tail(messageQueue) = <<>>
    OBVIOUS
  <2>1. Tail(messageQueue) \in Seq(Nat) /\ Len(Tail(messageQueue)) = Len(messageQueue) - 1
    BY <1>0, HeadTailProperties
  <2>2. Len(messageQueue) \in Nat
    BY <1>0, LenProperties
  <2>3. \A q \in Seq(Nat) : q # <<>> => Len(q) \in Nat \ {0}
    BY EmptySeq
  <2> QED  BY <1>0, <2>1, <2>2, <2>3
<1>2. Len(<<>>) = 0
  OBVIOUS
<1>3. CASE messageQueue' = <<>>
  BY <1>2, <1>3
<1>4. CASE messageQueue' = messageQueue /\ (running' = running \/ running' = TRUE)
  BY <1>0, <1>4
<1>5. ASSUME NEW n \in 1..Len(wire), Message(n)
      PROVE  Len(messageQueue') <= 1 /\ (~running' => messageQueue' = <<>>)
  <2>1. n = 1 /\ messageQueue = <<>> /\ running' = TRUE
    BY <1>0, <1>5 DEF Message, HandleTradeEvent
  <2>2. messageQueue' = <<>> \o SubSeq(wire, 1, n)
    BY <1>5, <2>1 DEF Message, HandleTradeEvent
  <2>3. Len(messageQueue') = 0 + n
    <3>1. Increasing(<<>>) /\ <<>> \in Seq(Nat) /\ ToSet(<<>>) = {}
      BY EmptySeq DEF Increasing, ToSet
    <3>2. wire \in Seq(Nat) /\ Increasing(wire)
      BY <1>0, Types DEF IInv, InOrder
    <3> QED  BY <1>2, <2>2, <3>1, <3>2, SplitWire
  <2> QED  BY <2>1, <2>3
<1>6. CASE SkipOld \/ CountTrade
  <2>1. messageQueue # <<>> /\ messageQueue' = Tail(messageQueue)
    BY <1>6 DEF SkipOld, CountTrade, MayRun
  <2> QED  BY <1>1, <1>3, <2>1
<1>7. CASE AskHistory
  <2>1. messageQueue' = <<>>
    BY <1>7 DEF AskHistory
  <2> QED  BY <1>3, <2>1
<1>8. CASE QueueEmpty
  <2>1. messageQueue' = <<>>
    BY <1>8 DEF QueueEmpty
  <2> QED  BY <1>3, <2>1
<1>9. CASE \/ \E t \in pending : HistoryArrives(t)
           \/ \E s \in Symbols : \E m \in rollOvers[s] : StartMinute(s, m)
  <2>1. messageQueue' = messageQueue /\ (running' = running \/ running' = TRUE)
    BY <1>9 DEF HistoryArrives, StartMinute
  <2> QED  BY <1>4, <2>1
<1>10. CASE \/ Connect \/ Disconnected \/ CalculateLatestPrice \/ OtherExchange \/ Tick
            \/ \E s \in Symbols : TradeMade(s)
            \/ UNCHANGED vars
  <2>1. messageQueue' = messageQueue /\ running' = running
    BY <1>10 DEF Connect, Disconnected, CalculateLatestPrice, OtherExchange, Tick, TradeMade,
       vars
  <2> QED  BY <1>4, <2>1
<1> QED  BY <1>5, <1>6, <1>7, <1>8, <1>9, <1>10 DEF Next

LEMMA ErrorStep == IInv /\ [Next]_vars => ErrorInv'
<1> SUFFICES ASSUME IInv, [Next]_vars  PROVE ErrorInv'
  OBVIOUS
<1> USE DEF feed
<1>0. TypeOK /\ ErrorInv
  BY DEF IInv
<1>1. CASE UNCHANGED <<exchange, record, overtaken>>
  BY <1>0, <1>1 DEF ErrorInv
<1>2. CASE AskHistory
  <2>1. /\ UNCHANGED <<exchange, overtaken>>
        /\ \A s \in Symbols : record'[s].hasBinanceError = record[s].hasBinanceError
    BY <1>0, <1>2, Types DEF AskHistory, TypeOK, Records
  <2> QED  BY <1>0, <2>1 DEF ErrorInv
<1>3. CASE CountTrade
  <2> DEFINE s == SymbolOf(params)
  <2>1. /\ exchange' = exchange /\ overtaken' = overtaken \ {s}
    BY <1>3, CountTradeEffect DEF CountTrade
  <2>2. /\ s \in Symbols
        /\ \A u \in Symbols \ {s} : record'[u] = record[u]
        /\ exchange = "Binance" => ~record'[s].hasBinanceError
        /\ exchange # "Binance" => record'[s].hasBinanceError = record[s].hasBinanceError
    BY <1>0, <1>3, CountTradeEffect, TradeEffect, Types
  <2> QED  BY <1>0, <2>1, <2>2 DEF ErrorInv
<1>4. ASSUME NEW t \in pending, HistoryArrives(t)  PROVE ErrorInv'
  <2> DEFINE s == SymbolOf(t)
  <2>1. /\ exchange' = exchange
        /\ overtaken \ {s} \subseteq overtaken'
        /\ Older(t, record[s].lastTrade) => s \in overtaken'
    BY <1>4 DEF HistoryArrives
  <2>2. /\ s \in Symbols
        /\ \A u \in Symbols \ {s} : record'[u] = record[u]
        /\ exchange = "Binance" /\ record'[s].hasBinanceError => Older(t, record[s].lastTrade)
        /\ exchange # "Binance" => record'[s].hasBinanceError = record[s].hasBinanceError
    BY <1>0, <1>4, HistoryEffect, TradeEffect
  <2> QED  BY <1>0, <2>1, <2>2 DEF ErrorInv
<1>5. ASSUME NEW s \in Symbols, NEW m \in rollOvers[s], StartMinute(s, m)  PROVE ErrorInv'
  <2>1. /\ UNCHANGED <<exchange, overtaken>>
        /\ \A u \in Symbols : record'[u].hasBinanceError = record[u].hasBinanceError
    BY <1>0, <1>5, Types DEF StartMinute, TypeOK, Records
  <2> QED  BY <1>0, <2>1 DEF ErrorInv
<1>6. CASE Disconnected
  BY <1>6 DEF Disconnected, NewRecords, NewRecord, ErrorInv
<1>7. \/ UNCHANGED <<exchange, record, overtaken>>
      \/ AskHistory
      \/ CountTrade
      \/ \E t \in pending : HistoryArrives(t)
      \/ \E s \in Symbols : \E m \in rollOvers[s] : StartMinute(s, m)
      \/ Disconnected
  BY DEF Next, vars, SkipOld, QueueEmpty, Message, HandleTradeEvent, Connect,
     CalculateLatestPrice, TradeMade, OtherExchange, Tick
<1> QED  BY <1>1, <1>2, <1>3, <1>4, <1>5, <1>6, <1>7

-----------------------------------------------------------------------------
(* The invariant and what follows. *)

LEMMA Initial == Init => IInv
<1> SUFFICES ASSUME Init  PROVE IInv
  OBVIOUS
<1>1. TypeOK
  BY TypeInit
<1>2. /\ made = <<>> /\ wire = <<>> /\ messageQueue = <<>> /\ mixed = {} /\ pending = {}
      /\ \A s \in Symbols : /\ record[s].counted = <<>>
                            /\ record[s].hasBinanceError = FALSE
  BY DEF Init, NewRecords, NewRecord
<1>3. Increasing(<<>>) /\ ToSet(<<>>) = {} /\ Len(<<>>) = 0
  BY DEF Increasing, ToSet
<1>4. Trades = {}
  BY <1>2, <1>3 DEF Trades
<1> QED  BY <1>1, <1>2, <1>3, <1>4
         DEF IInv, TimesInOrder, InOrder, Behind, Waiting, VolumeInv, QueueInv, ErrorInv

LEMMA Inductive == IInv /\ [Next]_vars => IInv'
  BY TypeStep, OrderStep, BehindStep, VolumeStep, QueueStep, ErrorStep DEF IInv

LEMMA Invariance == Spec => []IInv
  BY Initial, Inductive, PTL DEF Spec

\* A volume sums trades of its symbol and minute, each once, for any number of
\* symbols, trades, minutes and connections (processMessageQueue).
THEOREM VolumesOfMinute == Spec => []VolumeOfMinute
<1>1. IInv => VolumeOfMinute
  <2> SUFFICES ASSUME IInv, NEW s \in Symbols, rollOvers[s] = {}, s \notin mixed
               PROVE  /\ IsInjective(record[s].counted)
                      /\ \A t \in ToSet(record[s].counted) :
                           SymbolOf(t) = s /\ MinuteOf(TimeOf(t)) = syncedTime
    BY DEF VolumeOfMinute
  <2>1. record[s].counted \in Seq(Trades) /\ Trades \subseteq Nat
    BY Types DEF IInv, Records
  <2>2. record[s].counted \in Seq(Nat)
    BY <2>1, SeqMonotonic
  <2> QED  BY <2>2, IncreasingInjective DEF IInv, VolumeInv
<1> QED  BY <1>1, Invariance, PTL

\* No trade waits in the queue between events, for the feeds that get one trade
\* a message (handleTradeEvent).
THEOREM QueuesDrained == Spec => []QueueDrained
<1>1. IInv => QueueDrained
  BY DEF IInv, QueueInv, QueueDrained
<1> QED  BY <1>1, Invariance, PTL

\* The last trades of Binance and ByBit do not go back (processMessageQueue).
THEOREM LastTradesAdvance == Spec => LastTradeAdvances
<1>1. IInv /\ [Next]_vars =>
        [closes' = closes /\ exchange \in {"Binance", "ByBit"} =>
           \A s \in Symbols : NotOlder(record[s].lastTrade, record'[s].lastTrade)]_vars
  <2> SUFFICES ASSUME IInv, [Next]_vars, closes' = closes, exchange \in {"Binance", "ByBit"},
                      NEW s \in Symbols
               PROVE  NotOlder(record[s].lastTrade, record'[s].lastTrade)
    OBVIOUS
  <2> USE DEF feed
  <2>0. TypeOK
    BY DEF IInv
  <2>1. NotOlder(record[s].lastTrade, record[s].lastTrade)
    <3>1. record[s].lastTrade \in Trades \cup {NoTrade} /\ \A t \in Trades : TimeOf(t) \in Nat
      BY <2>0, Types DEF Records
    <3> QED  BY <3>1 DEF NotOlder
  <2>2. CASE record'[s].lastTrade = record[s].lastTrade
    BY <2>1, <2>2
  <2>3. CASE CountTrade
    BY <2>0, <2>1, <2>3, CountTradeEffect, TradeEffect, Types
  <2>4. ASSUME NEW t \in pending, HistoryArrives(t)
        PROVE  NotOlder(record[s].lastTrade, record'[s].lastTrade)
    BY <2>0, <2>1, <2>4, HistoryEffect, TradeEffect
  <2>5. \/ record'[s].lastTrade = record[s].lastTrade
        \/ CountTrade
        \/ \E t \in pending : HistoryArrives(t)
    <3>1. CASE AskHistory
      BY <2>0, <3>1, Types DEF AskHistory, TypeOK, Records
    <3>2. ASSUME NEW u \in Symbols, NEW m \in rollOvers[u], StartMinute(u, m)
          PROVE  record'[s].lastTrade = record[s].lastTrade
      BY <2>0, <3>2, Types DEF StartMinute, TypeOK, Records
    <3>3. ~Disconnected
      <4>1. closes \in Nat  BY <2>0 DEF TypeOK
      <4> QED  BY <4>1 DEF Disconnected
    <3>4. \/ record' = record
          \/ AskHistory
          \/ \E u \in Symbols : \E m \in rollOvers[u] : StartMinute(u, m)
          \/ CountTrade
          \/ \E t \in pending : HistoryArrives(t)
      BY <3>3 DEF Next, vars, SkipOld, QueueEmpty, Message, HandleTradeEvent, Connect,
         CalculateLatestPrice, TradeMade, OtherExchange, Tick
    <3> QED  BY <3>1, <3>2, <3>4
  <2> QED  BY <2>2, <2>3, <2>4, <2>5
<1> QED  BY <1>1, Invariance, PTL DEF Spec, LastTradeAdvances

\* Zero prices go out only while a waiting call of Binance's feed has been
\* overtaken (calculateLatestPrice, processMessageQueue of BinanceService).
THEOREM ZerosOnlyWhenOvertaken == Spec => ZeroOnlyWhenOvertaken
<1>1. IInv /\ [Next]_vars =>
        [zeroPushed' /\ ~zeroPushed => exchange = "Binance" /\ overtaken # {}]_vars
  <2> SUFFICES ASSUME IInv, [Next]_vars, zeroPushed', ~zeroPushed
               PROVE  exchange = "Binance" /\ overtaken # {}
    OBVIOUS
  <2>1. zeroPushed' # zeroPushed
    OBVIOUS
  <2>2. CalculateLatestPrice
    BY <2>1 DEF Next, vars, SkipOld, AskHistory, CountTrade, QueueEmpty, HistoryArrives, StartMinute,
       Message, HandleTradeEvent, Connect, Disconnected, TradeMade, OtherExchange, Tick
  <2>3. \E s \in Symbols : record[s].hasBinanceError
    BY <2>2 DEF CalculateLatestPrice
  <2> QED  BY <2>3 DEF IInv, ErrorInv
<1> QED  BY <1>1, Invariance, PTL DEF Spec, ZeroOnlyWhenOvertaken

=============================================================================

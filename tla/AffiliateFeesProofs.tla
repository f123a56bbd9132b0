------------------------ MODULE AffiliateFeesProofs ------------------------
(***************************************************************************)
(* Proofs that bets are credited once and that what lastTimestamp passes   *)
(* is paid, for any bets, users, pages, failures and crashes.              *)
(*                                                                         *)
(* The argument: a page is a stretch of the places of the selected bets,   *)
(* in the order of their ends (PageHolds), so that a bet comes a second    *)
(* time only if its place has moved behind the pages, which takes a round  *)
(* closed ahead of them (BatchOnce, by shifts); and a bet that is in a row *)
(* already lies behind the time the run began at, or behind lastTimestamp  *)
(* once the row is saved (VolumesOnce, PaidOnce).  The other way round, no *)
(* bet that was closed in time lies behind the pages without being in the  *)
(* batch (BatchHolds, by SkipsPassed: the pages skip no more bets than end *)
(* before them), and lastTimestamp moves no further than the batch.        *)
(***************************************************************************)
EXTENDS AffiliateFees, FiniteSetTheorems, FunctionTheorems, SequenceTheorems, TLAPS

\* The place of x among the elements of S.
Place(S, before, x) == Cardinality({y \in S : <<y, x>> \in before})

\* The place of a bet among those the query selects.
PagePlace(b) == Place(Selected, ByEnd, b)

\* The times of the rounds, the tables and the call are in order.
Clocked ==
    /\ IsFiniteSet(closed)
    /\ \A b \in closed : endAt[b] <= now
    /\ run.last <= run.latest
    /\ run.pc = "fetch" => run.errors <= MaxErrors
    /\ IF run.pc = "idle"
       THEN run.batch = <<>>
       ELSE /\ run.last <= LastTimestamp
            /\ \A a \in Affiliates : fee[a] # NoRow => fee[a].updatedAt <= run.last

\* How often the batch of the call has a bet.
Carried(b) == TimesIn(b, run.batch)

\* What the call may still add to a row that has a bet k times: a bet the row
\* has once too often has been passed by the last run, one it would have once
\* too often by the pages.
Adding(k, b) ==
    /\ k + Carried(b) <= 1 + shifts
    /\ k <= shifts \/ endAt[b] <= run.last
    /\ \/ k + Carried(b) <= shifts
       \/ endAt[b] <= run.last
       \/ /\ endAt[b] <= run.latest
          /\ run.pc = "fetch" => b \in Selected /\ PagePlace(b) <= run.skip
\* The same of a row the call adds no more to.
Added(k, b) == k <= 1 + shifts /\ (k <= shifts \/ endAt[b] <= LastTimestamp)

\* A batch by itself, and what the rows and it make of a bet.
BatchOnce == run.pc # "idle" => \A b \in Bets : Adding(0, b)
VolumesOnce ==
    \A u \in Registered, b \in Bets :
        IF run.pc \in {"fetch", "volumes"}
        THEN Adding(TimesIn(b, referee[u].volume), b)
        ELSE Added(TimesIn(b, referee[u].volume), b)
PaidOnce ==
    \A a \in Affiliates, b \in Bets : fee[a] # NoRow =>
        IF run.pc # "idle"
        THEN Adding(TimesIn(b, fee[a].paid), b)
        ELSE Added(TimesIn(b, fee[a].paid), b)

\* What the pages have passed is in the batch, and they skip no more than that.
Alone(b) == \A c \in Bets \ {b} : endAt[c] # endAt[b]
BatchHolds ==
    run.pc # "idle" =>
        \A b \in closed \ lost :
            Alone(b) /\ run.last < endAt[b] /\ endAt[b] <= run.latest => Contains(run.batch, b)
SkipsPassed ==
    run.pc = "fetch" => Cardinality({b \in Selected : endAt[b] <= run.latest}) >= run.skip

\* A referee is qualified by the volume of the row.
QualifiedByVolume ==
    \A u \in Registered : referee[u].qualified => Len(referee[u].volume) >= WeekAmount

IInv ==
    /\ TypeOK /\ Clocked
    /\ BatchOnce /\ VolumesOnce /\ PaidOnce
    /\ BatchHolds /\ SkipsPassed /\ PassedIsPaid
    /\ QualifiedByVolume /\ TierEarned

\* The pairs of before order S totally.
Orders(before, S) ==
    /\ \A x \in S : <<x, x>> \in before
    /\ \A x, y \in S : <<x, y>> \in before \/ <<y, x>> \in before
    /\ \A x, y \in S : <<x, y>> \in before /\ <<y, x>> \in before => x = y
    /\ \A x, y, z \in S : <<x, y>> \in before /\ <<y, z>> \in before => <<x, z>> \in before

\* Places are kept in order.
LEMMA PlacesGrow ==
  ASSUME NEW S, IsFiniteSet(S), NEW before, Orders(before, S), NEW x \in S
  PROVE  /\ Place(S, before, x) \in 1..Cardinality(S)
         /\ \A y \in S : <<x, y>> \in before => Place(S, before, x) <= Place(S, before, y)
         /\ \A y \in S : y # x /\ <<x, y>> \in before => Place(S, before, x) < Place(S, before, y)
<1> DEFINE Up(z) == {y \in S : <<y, z>> \in before}
<1>1. \A z \in S : Up(z) \subseteq S /\ IsFiniteSet(Up(z)) /\ Cardinality(Up(z)) \in Nat
                     /\ Cardinality(Up(z)) <= Cardinality(S)
  <2> TAKE z \in S
  <2>1. Up(z) \in SUBSET S
    OBVIOUS
  <2>2. IsFiniteSet(Up(z)) /\ Cardinality(Up(z)) <= Cardinality(S)
    BY <2>1, FS_Subset, Zenon
  <2> QED BY <2>1, <2>2, FS_CardinalityType
<1>2. x \in Up(x)
  BY DEF Orders
<1>3. Cardinality(Up(x)) # 0
  BY <1>1, <1>2, FS_EmptySet
<1>4. ASSUME NEW y \in S, <<x, y>> \in before
      PROVE  /\ Cardinality(Up(x)) <= Cardinality(Up(y))
             /\ y # x => Cardinality(Up(x)) # Cardinality(Up(y))
  <2>1. Up(x) \in SUBSET Up(y)
    BY <1>4 DEF Orders
  <2>2. y \in Up(y)
    BY DEF Orders
  <2>3. y # x => y \notin Up(x)
    BY <1>4 DEF Orders
  <2> HIDE DEF Up
  <2> QED BY <1>1, <2>1, <2>2, <2>3, FS_Subset
<1>5. Cardinality(S) \in Nat
  BY FS_CardinalityType
<1> HIDE DEF Up
<1>6. /\ Cardinality(Up(x)) \in 1..Cardinality(S)
      /\ \A y \in S : <<x, y>> \in before => Cardinality(Up(x)) <= Cardinality(Up(y))
      /\ \A y \in S : y # x /\ <<x, y>> \in before => Cardinality(Up(x)) < Cardinality(Up(y))
  <2>1. Cardinality(Up(x)) \in 1..Cardinality(S)
    BY <1>1, <1>3, <1>5
  <2>2. ASSUME NEW y \in S, <<x, y>> \in before
        PROVE  Cardinality(Up(x)) <= Cardinality(Up(y))
    BY <2>2, <1>4
  <2>3. ASSUME NEW y \in S, y # x, <<x, y>> \in before
        PROVE  Cardinality(Up(x)) < Cardinality(Up(y))
    BY <2>3, <1>1, <1>4
  <2> QED BY <2>1, <2>2, <2>3
<1> QED BY <1>6 DEF Up, Place

\* A set put in order has every element once, each at its place.
LEMMA OrderedOnce ==
  ASSUME NEW S, IsFiniteSet(S), NEW before, Orders(before, S)
  PROVE  /\ InOrder(S, before) \in Seq(S)
         /\ Len(InOrder(S, before)) = Cardinality(S)
         /\ DOMAIN InOrder(S, before) = 1..Cardinality(S)
         /\ \A k \in 1..Cardinality(S) :
              InOrder(S, before)[k] \in S /\ Place(S, before, InOrder(S, before)[k]) = k
         /\ \A x \in S : InOrder(S, before)[Place(S, before, x)] = x
<1> DEFINE n == Cardinality(S)
           place == [x \in S |-> Place(S, before, x)]
           list == InOrder(S, before)
<1>1. n \in Nat
  BY FS_CardinalityType
<1>2. place \in [S -> 1..n]
  BY PlacesGrow
<1>3. \A x, y \in S : Place(S, before, x) = Place(S, before, y) => x = y
  <2> SUFFICES ASSUME NEW x \in S, NEW y \in S, x # y
               PROVE  Place(S, before, x) # Place(S, before, y)
    OBVIOUS
  <2>1. Place(S, before, x) \in Nat /\ Place(S, before, y) \in Nat
    BY PlacesGrow, <1>1
  <2>2. CASE <<x, y>> \in before
    BY <2>1, <2>2, PlacesGrow
  <2>3. CASE <<y, x>> \in before
    BY <2>1, <2>3, PlacesGrow
  <2> QED BY <2>2, <2>3 DEF Orders
<1>4. place \in Injection(S, 1..n)
  BY <1>2, <1>3 DEF Injection, IsInjective
<1>5. IsFiniteSet(1..n) /\ Cardinality(1..n) = n
  BY <1>1, FS_Interval
<1>6. place \in Surjection(S, 1..n)
  BY <1>4, <1>5, FS_Injection
<1>7. \A k \in 1..n : \E x \in S : Place(S, before, x) = k
  BY <1>6 DEF Surjection
<1>8. list = [k \in 1..n |-> CHOOSE x \in S : Place(S, before, x) = k]
  BY DEF InOrder, Place
<1>9. \A k \in 1..n : list[k] \in S /\ Place(S, before, list[k]) = k
  BY <1>7, <1>8
<1>10. list \in [1..n -> S]
  BY <1>8, <1>9
<1>11. list \in Seq(S) /\ Len(list) = n /\ DOMAIN list = 1..n
  BY <1>1, <1>10
<1>12. \A x \in S : list[Place(S, before, x)] = x
  BY <1>2, <1>3, <1>9
<1> HIDE DEF list
<1> QED BY <1>9, <1>11, <1>12 DEF list

\* How often a bet is in a list, and what it says of the list.
LEMMA TimesTyped ==
  ASSUME NEW S, NEW s \in Seq(S), NEW b
  PROVE  /\ TimesIn(b, s) \in Nat
         /\ IsFiniteSet({i \in DOMAIN s : s[i] = b})
         /\ s = <<>> => TimesIn(b, s) = 0
<1> DEFINE at == {i \in DOMAIN s : s[i] = b}
<1>1. IsFiniteSet(1..Len(s)) /\ DOMAIN s = 1..Len(s)
  BY FS_Interval
<1>2. IsFiniteSet(at)
  <2>1. at \in SUBSET (1..Len(s))
    BY <1>1
  <2> HIDE DEF at
  <2> QED BY <1>1, <2>1, FS_Subset
<1>3. Cardinality(at) \in Nat /\ (Cardinality(at) = 0 <=> at = {})
  BY <1>2, FS_CardinalityType, FS_EmptySet
<1>4. s = <<>> => at = {}
  BY <1>1
<1> QED BY <1>2, <1>3, <1>4 DEF TimesIn

LEMMA TimesSome ==
  ASSUME NEW S, NEW s \in Seq(S), NEW b
  PROVE  Contains(s, b) <=> TimesIn(b, s) # 0
<1> DEFINE at == {i \in DOMAIN s : s[i] = b}
<1>1. (\E i \in 1..Len(s) : s[i] = b) <=> at # {}
  OBVIOUS
<1>2. IsFiniteSet(at)
  BY TimesTyped
<1>3. Cardinality(at) = 0 <=> at = {}
  BY <1>2, FS_EmptySet
<1> QED BY <1>1, <1>3 DEF TimesIn, Contains

\* A list after another adds its times.
LEMMA TimesAdd ==
  ASSUME NEW S, NEW s \in Seq(S), NEW t \in Seq(S), NEW b
  PROVE  TimesIn(b, s \o t) = TimesIn(b, s) + TimesIn(b, t)
<1> DEFINE one == {i \in DOMAIN s : s[i] = b}
           two == {i \in DOMAIN t : t[i] = b}
           moved == {i \in (Len(s) + 1)..(Len(s) + Len(t)) : t[i - Len(s)] = b}
           shift == [i \in two |-> i + Len(s)]
<1>1. DOMAIN s = 1..Len(s) /\ DOMAIN t = 1..Len(t) /\ Len(s) \in Nat /\ Len(t) \in Nat
  OBVIOUS
<1>2. DOMAIN (s \o t) = 1..(Len(s) + Len(t))
  OBVIOUS
<1>3. {i \in DOMAIN (s \o t) : (s \o t)[i] = b} = one \cup moved
  <2>1. ASSUME NEW i \in 1..(Len(s) + Len(t))
        PROVE  (s \o t)[i] = IF i <= Len(s) THEN s[i] ELSE t[i - Len(s)]
    OBVIOUS
  <2> QED BY <1>1, <1>2, <2>1
<1>4. one \cap moved = {}
  BY <1>1
<1>5. shift \in Bijection(two, moved)
  <2>1. shift \in [two -> moved]
    BY <1>1
  <2>2. \A i, j \in two : shift[i] = shift[j] => i = j
    BY <1>1
  <2>3. ASSUME NEW j \in moved PROVE \E i \in two : shift[i] = j
    <3>1. j - Len(s) \in two
      BY <1>1
    <3>2. shift[j - Len(s)] = j
      BY <1>1, <3>1
    <3> QED BY <3>1, <3>2
  <2> QED BY <2>1, <2>2, <2>3 DEF Bijection, Injection, Surjection, IsInjective
<1>6. IsFiniteSet(one) /\ IsFiniteSet(two)
  BY TimesTyped
<1>7. IsFiniteSet(moved) /\ Cardinality(moved) = Cardinality(two)
  <2> HIDE DEF two, moved, shift
  <2> QED BY <1>5, <1>6, FS_Bijection DEF ExistsBijection
<1>8. Cardinality(one \cup moved) = Cardinality(one) + Cardinality(moved)
  <2>1. Cardinality(one \cap moved) = 0
    BY <1>4, FS_EmptySet
  <2>2. Cardinality(one) \in Nat /\ Cardinality(moved) \in Nat
    BY <1>6, <1>7, FS_CardinalityType
  <2> HIDE DEF one, moved
  <2>3. Cardinality(one \cup moved) =
          Cardinality(one) + Cardinality(moved) - Cardinality(one \cap moved)
    BY <1>6, <1>7, FS_Union
  <2> QED BY <2>1, <2>2, <2>3
<1> QED BY <1>3, <1>7, <1>8 DEF TimesIn

\* A list picked by the places of another has a bet as often as it is picked.
LEMMA TimesPicked ==
  ASSUME NEW s, NEW n \in Nat, NEW picked, NEW at \in Bijection(1..n, picked), NEW b,
         NEW list, DOMAIN list = 1..n, \A k \in 1..n : list[k] = s[at[k]],
         NEW to, \A i : i \in to <=> i \in picked /\ s[i] = b
  PROVE  TimesIn(b, list) = Cardinality(to)
<1> DEFINE from == {k \in 1..n : s[at[k]] = b}
           f == [k \in from |-> at[k]]
<1>1. f \in Bijection(from, to)
  <2> USE DEF Bijection, Injection, Surjection, IsInjective
  <2>1. f \in [from -> to]
    OBVIOUS
  <2>2. \A k, l \in from : f[k] = f[l] => k = l
    OBVIOUS
  <2>3. \A i \in to : \E k \in from : f[k] = i
    OBVIOUS
  <2> HIDE DEF from, f
  <2> QED BY <2>1, <2>2, <2>3 DEF Bijection, Injection, Surjection, IsInjective
<1>2. IsFiniteSet(from)
  <2>1. from \in SUBSET (1..n) /\ IsFiniteSet(1..n)
    BY FS_Interval
  <2> HIDE DEF from
  <2> QED BY <2>1, FS_Subset
<1>3. Cardinality(from) = Cardinality(to)
  <2> HIDE DEF from, f
  <2> QED BY <1>1, <1>2, FS_Bijection DEF ExistsBijection
<1>4. TimesIn(b, list) = Cardinality(from)
  BY DEF TimesIn
<1> QED BY <1>3, <1>4

\* The bets by some users are in their list as often as in the whole.
LEMMA BetsByTimes ==
  ASSUME NEW batch \in Seq(Bets), NEW users
  PROVE  /\ BetsBy(users, batch) \in Seq(Bets)
         /\ \A b \in Bets : TimesIn(b, BetsBy(users, batch)) =
              IF Bettor[b] \in users THEN TimesIn(b, batch) ELSE 0
<1> DEFINE picked == {i \in DOMAIN batch : Bettor[batch[i]] \in users}
           before == {p \in (DOMAIN batch) \X (DOMAIN batch) : p[1] <= p[2]}
           at == InOrder(picked, before)
           n == Cardinality(picked)
<1>1. DOMAIN batch = 1..Len(batch) /\ Len(batch) \in Nat
  OBVIOUS
<1>2. picked \subseteq DOMAIN batch /\ IsFiniteSet(picked) /\ n \in Nat
  <2>1. picked \in SUBSET (1..Len(batch)) /\ IsFiniteSet(1..Len(batch))
    BY <1>1, FS_Interval
  <2> HIDE DEF picked
  <2> QED BY <1>1, <2>1, FS_Subset, FS_CardinalityType
<1>3. Orders(before, picked)
  BY <1>1 DEF Orders
<1> HIDE DEF picked, before
<1>4. /\ DOMAIN at = 1..n
      /\ \A k \in 1..n : at[k] \in picked /\ Place(picked, before, at[k]) = k
      /\ \A i \in picked : at[Place(picked, before, i)] = i
      /\ at \in Seq(picked) /\ Len(at) = n
  BY <1>2, <1>3, OrderedOnce
<1>5. at \in [1..n -> DOMAIN batch] /\ at \in [1..n -> picked]
  BY <1>2, <1>4
<1>6. \A k, l \in 1..n : at[k] = at[l] => k = l
  BY <1>4
<1>7. \A i \in picked : \E k \in 1..n : at[k] = i
  BY <1>2, <1>3, <1>4, PlacesGrow
<1>9. at \in Bijection(1..n, picked)
  BY <1>5, <1>6, <1>7 DEF Bijection, Injection, Surjection, IsInjective
<1>8. BetsBy(users, batch) = [k \in 1..n |-> batch[at[k]]]
  BY <1>4 DEF BetsBy, picked, before
<1> HIDE DEF at, n
<1>10. BetsBy(users, batch) \in Seq(Bets)
  BY <1>1, <1>2, <1>5, <1>8
<1>11. ASSUME NEW b \in Bets
       PROVE  TimesIn(b, BetsBy(users, batch)) =
                IF Bettor[b] \in users THEN TimesIn(b, batch) ELSE 0
  <2>1. TimesIn(b, BetsBy(users, batch)) = Cardinality({i \in picked : batch[i] = b})
    <3> DEFINE to == {i \in picked : batch[i] = b}
               list == BetsBy(users, batch)
    <3>1. DOMAIN list = 1..n /\ \A k \in 1..n : list[k] = batch[at[k]]
      BY <1>8
    <3>2. \A i : i \in to <=> i \in picked /\ batch[i] = b
      OBVIOUS
    <3> HIDE DEF to, list
    <3>3. TimesIn(b, list) = Cardinality(to)
      BY <1>2, <1>9, <3>1, <3>2, TimesPicked
    <3> QED BY <3>3 DEF to, list
  <2>2. CASE Bettor[b] \in users
    BY <2>1, <2>2 DEF picked, TimesIn
  <2>3. CASE Bettor[b] \notin users
    <3>1. {i \in picked : batch[i] = b} = {}
      BY <2>3 DEF picked
    <3> QED BY <2>1, <2>3, <3>1, FS_EmptySet
  <2> QED BY <2>2, <2>3
<1> QED BY <1>10, <1>11

LEMMA MinOfTwo ==
  ASSUME NEW m \in Nat, NEW n \in Nat
  PROVE  Min({m, n}) = IF m <= n THEN m ELSE n
<1>1. \A x \in {m, n} : (\A y \in {m, n} : x <= y) <=> x = IF m <= n THEN m ELSE n
  OBVIOUS
<1> QED BY <1>1 DEF Min

\* A page holds the bets whose places follow those skipped, each once; its
\* last bet ends no earlier than those at lower places, and those that end
\* before it are at lower places.
LEMMA PageHolds ==
  ASSUME TypeOK, IsFiniteSet(closed)
  PROVE  /\ Page \in Seq(Bets) /\ Len(Page) <= PageSize
         /\ \A b \in Bets : TimesIn(b, Page) =
              IF b \in Selected /\ run.skip < PagePlace(b) /\ PagePlace(b) <= run.skip + PageSize
              THEN 1 ELSE 0
         /\ Page # <<>> =>
              /\ Last(Page) \in Selected
              /\ \A b \in Selected :
                   PagePlace(b) <= run.skip + PageSize => endAt[b] <= endAt[Last(Page)]
              /\ \A b \in Selected :
                   endAt[b] < endAt[Last(Page)] => PagePlace(b) <= run.skip + PageSize
         /\ Len(Page) = PageSize =>
              Cardinality({b \in Selected : endAt[b] <= endAt[Last(Page)]}) >= run.skip + PageSize
<1> DEFINE n == Cardinality(Selected)
           list == InOrder(Selected, ByEnd)
           skip == run.skip
           m == Min({skip + PageSize, n})
<1>1. IsFiniteSet(Selected) /\ n \in Nat /\ Selected \subseteq Bets
  <2>1. Selected \in SUBSET closed /\ closed \subseteq Bets
    BY DEF Selected, TypeOK
  <2> QED BY <2>1, FS_Subset, FS_CardinalityType
<1>2. Orders(ByEnd, Selected)
  <2>1. \A b \in Selected : b \in Bets /\ b \in Nat /\ endAt[b] \in Nat
    BY <1>1, AffiliateAssumption DEF TypeOK
  <2> QED BY <2>1 DEF Orders, ByEnd
<1>3. skip \in Nat /\ PageSize \in Nat /\ PageSize > 0
  BY AffiliateAssumption DEF TypeOK, RunStates
<1>4. m \in Nat /\ m <= skip + PageSize /\ m <= n /\ (m = n \/ m = skip + PageSize)
  BY <1>1, <1>3, MinOfTwo
<1>5. /\ list \in Seq(Selected) /\ Len(list) = n /\ DOMAIN list = 1..n
      /\ \A k \in 1..n : list[k] \in Selected /\ PagePlace(list[k]) = k
      /\ \A b \in Selected : list[PagePlace(b)] = b
  BY <1>1, <1>2, OrderedOnce DEF PagePlace
<1>6. \A b \in Selected : PagePlace(b) \in 1..n
  BY <1>1, <1>2, PlacesGrow DEF PagePlace
<1>7. Page = SubSeq(list, skip + 1, m)
  BY <1>5 DEF Page
<1>8. \A b, c \in Selected : PagePlace(b) <= PagePlace(c) => endAt[b] <= endAt[c]
  <2> SUFFICES ASSUME NEW b \in Selected, NEW c \in Selected, endAt[b] > endAt[c]
               PROVE  PagePlace(c) < PagePlace(b)
    <3>1. \A b \in Selected : endAt[b] \in Nat
      BY <1>1, AffiliateAssumption DEF TypeOK
    <3> QED BY <1>1, <1>6, <3>1
  <2>1. <<c, b>> \in ByEnd /\ b # c
    <3>1. b \in Bets /\ c \in Bets /\ endAt[b] \in Nat /\ endAt[c] \in Nat
      BY <1>1, AffiliateAssumption DEF TypeOK
    <3> QED BY <3>1 DEF ByEnd
  <2> QED BY <1>1, <1>2, <2>1, PlacesGrow DEF PagePlace
<1> HIDE DEF list, n, m
<1>9. /\ Page \in Seq(Selected)
      /\ Len(Page) = IF skip + 1 <= m THEN m - skip ELSE 0
      /\ \A i \in 1..(m - skip) : Page[i] = list[skip + i]
  <2>1. skip + 1 \in Int /\ m \in Int /\ \A i \in (skip + 1)..m : list[i] \in Selected
    BY <1>3, <1>4, <1>5
  <2>2. /\ m - (skip + 1) + 1 = m - skip
        /\ skip + 1 <= m \/ ~(skip + 1 <= m)
        /\ \A i \in 1..(m - skip) : skip + 1 + i - 1 = skip + i
    BY <1>3, <1>4
  <2>3. /\ SubSeq(list, skip + 1, m) \in Seq(Selected)
        /\ Len(SubSeq(list, skip + 1, m)) =
             IF skip + 1 <= m THEN m - (skip + 1) + 1 ELSE 0
        /\ \A i \in 1..(m - (skip + 1) + 1) :
             SubSeq(list, skip + 1, m)[i] = list[skip + 1 + i - 1]
    BY <2>1, SubSeqProperties
  <2>4. \A i \in 1..(m - skip) : Page[i] = list[skip + i]
    BY <1>7, <2>2, <2>3
  <2> QED BY <1>7, <2>2, <2>3, <2>4
<1>10. DOMAIN Page = 1..Len(Page) /\ (Page # <<>> => skip < m /\ Len(Page) = m - skip)
  BY <1>3, <1>4, <1>9
<1>11. Page \in Seq(Bets) /\ Len(Page) <= PageSize
  BY <1>1, <1>3, <1>4, <1>9
<1>12. ASSUME NEW b \in Bets
       PROVE  TimesIn(b, Page) =
                IF b \in Selected /\ skip < PagePlace(b) /\ PagePlace(b) <= skip + PageSize
                THEN 1 ELSE 0
  <2> DEFINE at == {i \in DOMAIN Page : Page[i] = b}
  <2>1. CASE b \in Selected /\ skip < PagePlace(b) /\ PagePlace(b) <= skip + PageSize
    <3>1. PagePlace(b) \in 1..n /\ PagePlace(b) <= m
      BY <1>1, <1>3, <1>4, <1>6, <2>1
    <3>2. PagePlace(b) - skip \in DOMAIN Page /\ Page[PagePlace(b) - skip] = b
      <4>1. skip < m /\ PagePlace(b) - skip \in 1..(m - skip)
        BY <1>1, <1>3, <1>4, <2>1, <3>1
      <4>2. DOMAIN Page = 1..(m - skip)
        BY <1>3, <1>4, <1>9, <4>1
      <4>3. skip + (PagePlace(b) - skip) = PagePlace(b)
        BY <1>1, <1>3, <3>1
      <4> QED BY <1>5, <1>9, <2>1, <4>1, <4>2, <4>3
    <3>3. ASSUME NEW i \in at PROVE i = PagePlace(b) - skip
      <4>1. i \in 1..(m - skip) /\ Page[i] = b
        BY <1>3, <1>4, <1>9, <1>10, <3>3
      <4>2. skip + i \in 1..n /\ list[skip + i] = b
        BY <1>1, <1>3, <1>4, <1>9, <4>1
      <4> QED BY <1>3, <1>5, <4>1, <4>2
    <3>4. at = {PagePlace(b) - skip}
      BY <3>2, <3>3
    <3> QED BY <2>1, <3>4, FS_Singleton DEF TimesIn
  <2>2. CASE ~(b \in Selected /\ skip < PagePlace(b) /\ PagePlace(b) <= skip + PageSize)
    <3>1. ASSUME NEW i \in at PROVE FALSE
      <4>1. i \in 1..(m - skip) /\ skip + i \in 1..n /\ list[skip + i] = b
        BY <1>1, <1>3, <1>4, <1>9, <1>10, <3>1
      <4>2. b \in Selected /\ PagePlace(b) = skip + i
        BY <1>5, <4>1
      <4> QED BY <1>3, <1>4, <2>2, <4>1, <4>2
    <3>2. at = {}
      BY <3>1
    <3> QED BY <2>2, <3>2, FS_EmptySet DEF TimesIn
  <2> QED BY <2>1, <2>2
<1>13. ASSUME Page # <<>>
       PROVE  /\ Last(Page) \in Selected /\ PagePlace(Last(Page)) = m
              /\ \A b \in Selected :
                   PagePlace(b) <= skip + PageSize => endAt[b] <= endAt[Last(Page)]
              /\ \A b \in Selected :
                   endAt[b] < endAt[Last(Page)] => PagePlace(b) <= skip + PageSize
  <2>1. Last(Page) = list[m] /\ m \in 1..n
    BY <1>1, <1>3, <1>4, <1>9, <1>10, <1>13 DEF Last
  <2>2. Last(Page) \in Selected /\ PagePlace(Last(Page)) = m
    BY <1>5, <2>1
  <2>3. \A b \in Selected : endAt[b] \in Nat
    BY <1>1, AffiliateAssumption DEF TypeOK
  <2>4. \A b \in Selected : PagePlace(b) <= skip + PageSize => PagePlace(b) <= m
    BY <1>1, <1>3, <1>4, <1>6
  <2>5. ASSUME NEW b \in Selected, endAt[b] < endAt[Last(Page)]
        PROVE  PagePlace(b) <= skip + PageSize
    BY <1>1, <1>3, <1>4, <1>6, <1>8, <2>2, <2>3, <2>5
  <2> QED BY <1>8, <2>2, <2>4, <2>5
<1>14. ASSUME Len(Page) = PageSize
       PROVE  Cardinality({b \in Selected : endAt[b] <= endAt[Last(Page)]}) >= skip + PageSize
  <2> DEFINE up == {b \in Selected : endAt[b] <= endAt[Last(Page)]}
             first == {b \in Selected : <<b, Last(Page)>> \in ByEnd}
  <2>1. Page # <<>> /\ m = skip + PageSize
    BY <1>3, <1>4, <1>9, <1>10, <1>14
  <2>2. Cardinality(first) = skip + PageSize
    BY <1>13, <2>1 DEF PagePlace, Place
  <2>3. first \in SUBSET up /\ up \in SUBSET Selected
    <3>1. \A b \in Selected : endAt[b] \in Nat
      BY <1>1, AffiliateAssumption DEF TypeOK
    <3> QED BY <1>13, <2>1, <3>1 DEF ByEnd
  <2> HIDE DEF up, first
  <2>4. IsFiniteSet(up) /\ Cardinality(first) <= Cardinality(up)
    BY <1>1, <2>3, FS_Subset
  <2>5. Cardinality(up) \in Nat
    BY <2>4, FS_CardinalityType
  <2> QED BY <1>3, <2>2, <2>4, <2>5 DEF up
<1> QED BY <1>11, <1>12, <1>13, <1>14

\* A finite set of numbers has a largest one.
LEMMA MaxIn ==
  ASSUME NEW S, IsFiniteSet(S), S \subseteq Nat, S # {}
  PROVE  Max(S) \in S /\ \A x \in S : x <= Max(S)
<1> DEFINE before == {p \in S \X S : p[1] <= p[2]}
           n == Cardinality(S)
           top == InOrder(S, before)[n]
<1>1. Orders(before, S)
  BY DEF Orders
<1>2. n \in 1..n
  BY FS_CardinalityType, FS_EmptySet
<1>3. top \in S /\ Place(S, before, top) = n
  BY <1>1, <1>2, OrderedOnce
<1> HIDE DEF n, top
<1>4. ASSUME NEW x \in S PROVE x <= top
  <2> SUFFICES ASSUME x > top PROVE FALSE
    BY <1>3
  <2>1. <<top, x>> \in before /\ x # top
    BY <1>3
  <2> HIDE DEF before
  <2>2. Place(S, before, top) < Place(S, before, x) /\ Place(S, before, x) \in 1..n
    BY <1>1, <1>3, <2>1, PlacesGrow DEF n
  <2> QED BY <1>2, <1>3, <2>2
<1>5. \E x \in S : \A y \in S : y <= x
  BY <1>3, <1>4
<1> QED BY <1>5 DEF Max

\* The newest updatedAt of the rows of both tables.
Stamps(referees, fees) ==
    {0} \cup {fees[a].updatedAt : a \in {x \in Affiliates : fees[x] # NoRow}}
        \cup {referees[u].updatedAt : u \in {x \in Referees : referees[x] # NoRow}}
Newest(referees, fees) == Max(Stamps(referees, fees))

LEMMA NewestIs ==
  ASSUME NEW referees \in [Referees -> RefereeRows \cup {NoRow}],
         NEW fees \in [Affiliates -> FeeRows \cup {NoRow}]
  PROVE  /\ Newest(referees, fees) \in Times
         /\ \A u \in Referees :
              referees[u] # NoRow => referees[u].updatedAt <= Newest(referees, fees)
         /\ \A a \in Affiliates : fees[a] # NoRow => fees[a].updatedAt <= Newest(referees, fees)
         /\ \/ Newest(referees, fees) = 0
            \/ \E u \in Referees :
                 referees[u] # NoRow /\ referees[u].updatedAt = Newest(referees, fees)
            \/ \E a \in Affiliates :
                 fees[a] # NoRow /\ fees[a].updatedAt = Newest(referees, fees)
<1> DEFINE paid == {x \in Affiliates : fees[x] # NoRow}
           there == {x \in Referees : referees[x] # NoRow}
           fs == {fees[a].updatedAt : a \in paid}
           rs == {referees[u].updatedAt : u \in there}
<1>1. IsFiniteSet(paid) /\ IsFiniteSet(there)
  <2>1. paid \in SUBSET Affiliates /\ there \in SUBSET Referees
    OBVIOUS
  <2> HIDE DEF paid, there
  <2> QED BY <2>1, FS_Subset, AffiliateAssumption
<1>2. IsFiniteSet(fs)
  <2> DEFINE f == [a \in paid |-> fees[a].updatedAt]
  <2>1. f \in Surjection(paid, fs)
    BY DEF Surjection
  <2> HIDE DEF f, paid, fs
  <2> QED BY <1>1, <2>1, FS_Surjection
<1>3. IsFiniteSet(rs)
  <2> DEFINE f == [u \in there |-> referees[u].updatedAt]
  <2>1. f \in Surjection(there, rs)
    BY DEF Surjection
  <2> HIDE DEF f, there, rs
  <2> QED BY <1>1, <2>1, FS_Surjection
<1>4. MaxTime \in Nat
  BY AffiliateAssumption
<1>5. Stamps(referees, fees) \subseteq Times
  <2>1. \A a \in paid : fees[a].updatedAt \in Times
    BY DEF FeeRows
  <2>2. \A u \in there : referees[u].updatedAt \in Times
    BY DEF RefereeRows
  <2> QED BY <1>4, <2>1, <2>2 DEF Stamps, Times
<1>6. IsFiniteSet(Stamps(referees, fees))
  <2>1. Stamps(referees, fees) = ({0} \cup fs) \cup rs
    BY DEF Stamps
  <2> HIDE DEF fs, rs
  <2>2. IsFiniteSet({0} \cup fs)
    BY <1>2, FS_Singleton, FS_Union
  <2> QED BY <1>3, <2>1, <2>2, FS_Union
<1>7. 0 \in Stamps(referees, fees) /\ Stamps(referees, fees) \subseteq Nat
  BY <1>5 DEF Stamps, Times
<1>8. /\ Newest(referees, fees) \in Stamps(referees, fees)
      /\ \A x \in Stamps(referees, fees) : x <= Newest(referees, fees)
  BY <1>6, <1>7, MaxIn DEF Newest
<1> QED BY <1>5, <1>8 DEF Stamps

LEMMA LastTimestampIs ==
  /\ LastTimestamp = Newest(referee, fee)
  /\ LastTimestamp' = Newest(referee', fee')
BY DEF LastTimestamp, Newest, Stamps, Registered

\* More qualified referees, no lower a tier.
LEMMA TiersGrow ==
  ASSUME NEW m \in Nat, NEW n \in Nat, m <= n
  PROVE  /\ TierByReferee(m) \in 1..(1 + Len(Eligible))
         /\ TierByReferee(m) <= TierByReferee(n)
<1> DEFINE tiers(k) == {Bronze} \cup {Bronze + i : i \in {j \in DOMAIN Eligible : Eligible[j] <= k}}
<1>1. Len(Eligible) \in Nat /\ DOMAIN Eligible = 1..Len(Eligible)
  BY AffiliateAssumption
<1>2. \A j \in DOMAIN Eligible : Eligible[j] \in Nat
  BY AffiliateAssumption
<1>3. ASSUME NEW k \in Nat
      PROVE  /\ IsFiniteSet(tiers(k)) /\ tiers(k) \subseteq Nat /\ tiers(k) # {}
             /\ tiers(k) \subseteq 1..(1 + Len(Eligible))
  <2>1. tiers(k) \in SUBSET (1..(1 + Len(Eligible))) /\ tiers(k) # {}
    BY <1>1 DEF Bronze
  <2>2. IsFiniteSet(1..(1 + Len(Eligible))) /\ 1..(1 + Len(Eligible)) \subseteq Nat
    BY <1>1, FS_Interval
  <2> HIDE DEF tiers
  <2> QED BY <2>1, <2>2, FS_Subset
<1>4. tiers(m) \subseteq tiers(n)
  BY <1>2 DEF Bronze
<1> HIDE DEF tiers
<1>5. /\ Max(tiers(m)) \in tiers(m)
      /\ Max(tiers(n)) \in tiers(n) /\ \A x \in tiers(n) : x <= Max(tiers(n))
  BY <1>3, MaxIn
<1>6. TierByReferee(m) = Max(tiers(m)) /\ TierByReferee(n) = Max(tiers(n))
  BY DEF TierByReferee, tiers
<1> QED BY <1>3, <1>4, <1>5, <1>6

LEMMA MaxOfTwo ==
  ASSUME NEW m \in Nat, NEW n \in Nat
  PROVE  Max({m, n}) = IF m <= n THEN n ELSE m
<1>1. \A x \in {m, n} : (\A y \in {m, n} : x >= y) <=> x = IF m <= n THEN n ELSE m
  OBVIOUS
<1> QED BY <1>1 DEF Max

-----------------------------------------------------------------------------
(* The invariant holds at first, and TypeOK is kept. *)

LEMMA Constants ==
  /\ Bets \subseteq Nat
  /\ PageSize \in Nat /\ PageSize > 0
  /\ WeekAmount \in Nat /\ WeekAmount > 0
  /\ MaxTime \in Nat /\ MaxTime > 0
  /\ MaxErrors \in Nat
  /\ \A b \in Bets : Bettor[b] \in Referees
  /\ \A u \in Referees : AffiliateOf[u] \in Affiliates
BY AffiliateAssumption

\* The referees of an affiliate are counted, and no fewer when there are more.
LEMMA Counted ==
  ASSUME NEW S, S \subseteq Referees, NEW T, T \subseteq S
  PROVE  Cardinality(S) \in Nat /\ Cardinality(T) \in Nat /\ Cardinality(T) <= Cardinality(S)
<1>1. IsFiniteSet(S)
  BY AffiliateAssumption, FS_Subset
<1> QED BY <1>1, FS_Subset, FS_CardinalityType

LEMMA TierTyped ==
  ASSUME TypeOK, NEW a \in Affiliates
  PROVE  /\ Qualified(a) \in Nat
         /\ TierByReferee(Qualified(a)) \in 1..(1 + Len(Eligible))
<1>1. Qualified(a) \in Nat
  BY Counted DEF Qualified, RefereesOf, Registered
<1> QED BY <1>1, TiersGrow

\* What the two saves make of a row.
LEMMA TradedRow ==
  ASSUME TypeOK, NEW row \in RefereeRows, NEW bets \in Seq(Bets)
  PROVE  /\ Traded(row, bets) \in RefereeRows
         /\ Traded(row, bets).volume = row.volume \o bets
         /\ Traded(row, bets).createdAt = row.createdAt
         /\ Traded(row, bets).updatedAt = run.latest
         /\ Traded(row, bets).qualified => Len(row.volume) + Len(bets) >= WeekAmount
<1> DEFINE enough == Len(row.volume) + Len(bets) >= WeekAmount
           volume == row.volume \o bets
<1>1. enough \in BOOLEAN /\ volume \in Seq(Bets) /\ run.latest \in Times
  BY DEF TypeOK, RefereeRows, RunStates
<1>2. Traded(row, bets) =
        [row EXCEPT !.volume = volume, !.qualified = enough, !.updatedAt = run.latest]
  BY DEF Traded
<1>3. Traded(row, bets) \in RefereeRows
  <2> HIDE DEF enough, volume
  <2> QED BY <1>1, <1>2 DEF RefereeRows
<1> QED BY <1>3 DEF Traded, RefereeRows

LEMMA PaidRow ==
  ASSUME TypeOK, NEW a \in Affiliates, fee[a] # NoRow, NEW bets \in Seq(Bets)
  PROVE  /\ Paid(a, bets) \in FeeRows
         /\ Paid(a, bets).paid = fee[a].paid \o bets
         /\ Paid(a, bets).updatedAt = run.latest
         /\ Paid(a, bets).tier = Max({fee[a].tier, TierByReferee(Qualified(a))})
<1> DEFINE tier == Max({fee[a].tier, TierByReferee(Qualified(a))})
           paid == fee[a].paid \o bets
<1>1. fee[a] \in FeeRows /\ paid \in Seq(Bets) /\ run.latest \in Times
  BY DEF TypeOK, FeeRows, RunStates
<1>2. tier \in 1..(1 + Len(Eligible))
  <2>1. fee[a].tier \in 1..(1 + Len(Eligible)) /\ Len(Eligible) \in Nat
    BY <1>1, AffiliateAssumption DEF FeeRows
  <2> QED BY <2>1, TierTyped, MaxOfTwo
<1>3. Paid(a, bets) = [fee[a] EXCEPT !.paid = paid, !.tier = tier, !.updatedAt = run.latest]
  BY DEF Paid
<1>4. Paid(a, bets) \in FeeRows
  <2> HIDE DEF tier, paid
  <2> QED BY <1>1, <1>2, <1>3 DEF FeeRows
<1> QED BY <1>1, <1>4 DEF Paid, FeeRows

\* The row of a referee after a save of the volumes: as it was, or traded.
LEMMA VolumesSaved ==
  ASSUME TypeOK, SaveVolumes, NEW u \in Referees
  PROVE  /\ referee'[u] = NoRow <=> referee[u] = NoRow
         /\ referee[u] # NoRow => referee[u] \in RefereeRows /\ referee'[u] \in RefereeRows
         /\ BetsBy({u}, run.batch) \in Seq(Bets)
         /\ referee'[u] # referee[u] =>
              /\ referee[u] # NoRow /\ ~referee[u].qualified
              /\ referee'[u] = Traded(referee[u], BetsBy({u}, run.batch))
<1>1. BetsBy({u}, run.batch) \in Seq(Bets)
  BY BetsByTimes DEF TypeOK, RunStates
<1>2. referee'[u] # referee[u] =>
        /\ referee[u] # NoRow /\ ~referee[u].qualified
        /\ referee'[u] = Traded(referee[u], BetsBy({u}, run.batch))
  BY DEF SaveVolumes, Registered
<1>3. referee[u] # NoRow => referee[u] \in RefereeRows
  BY DEF TypeOK
<1> QED BY <1>1, <1>2, <1>3, TradedRow, RowAssumption

\* The row of an affiliate after a save of the fees: paid what the batch has of
\* its referees.
LEMMA FeesSaved ==
  ASSUME TypeOK, SaveFees, NEW a \in Affiliates
  PROVE  /\ fee'[a] = NoRow <=> fee[a] = NoRow
         /\ fee[a] # NoRow => fee[a] \in FeeRows /\ fee'[a] \in FeeRows
         /\ BetsBy(RefereesOf(a), run.batch) \in Seq(Bets)
         /\ \/ /\ fee'[a] = fee[a]
               /\ fee[a] = NoRow \/ BetsBy(RefereesOf(a), run.batch) = <<>>
            \/ /\ fee[a] # NoRow
               /\ fee'[a] = Paid(a, BetsBy(RefereesOf(a), run.batch))
<1>1. BetsBy(RefereesOf(a), run.batch) \in Seq(Bets)
  BY BetsByTimes DEF TypeOK, RunStates
<1>2. \/ /\ fee'[a] = fee[a]
         /\ fee[a] = NoRow \/ BetsBy(RefereesOf(a), run.batch) = <<>>
      \/ /\ fee[a] # NoRow
         /\ fee'[a] = Paid(a, BetsBy(RefereesOf(a), run.batch))
  BY DEF SaveFees
<1>3. fee[a] # NoRow => fee[a] \in FeeRows
  BY DEF TypeOK
<1> QED BY <1>1, <1>2, <1>3, PaidRow, RowAssumption

LEMMA TypeKept ==
  ASSUME TypeOK, Clocked, [Next]_vars
  PROVE  TypeOK'
<1> USE Constants DEF TypeOK
<1>1. CASE StartRun
  <2>1. LastTimestamp \in Times
    BY NewestIs, LastTimestampIs
  <2>2. run' \in RunStates
    <3>1. run' = [pc |-> "fetch", last |-> LastTimestamp, latest |-> LastTimestamp,
                  skip |-> 0, errors |-> 0, batch |-> <<>>]
      BY <1>1 DEF StartRun, Idle
    <3> QED BY <2>1, <3>1 DEF RunStates
  <2> QED BY <1>1, <2>2 DEF StartRun
<1>2. CASE FetchPage
  <2>1. run.batch \o Page \in Seq(Bets)
    BY PageHolds DEF Clocked, RunStates
  <2>2. Page # <<>> => endAt[Last(Page)] \in Times
    <3> SUFFICES ASSUME Page # <<>> PROVE endAt[Last(Page)] \in Times
      OBVIOUS
    <3>1. Last(Page) \in Bets
      BY PageHolds DEF Clocked, Selected
    <3>2. endAt[Last(Page)] \in 1..MaxTime
      BY <3>1
    <3> QED BY <3>2 DEF Times
  <2>3. run' \in RunStates
    <3> DEFINE latest == IF Page = <<>> THEN run.latest ELSE endAt[Last(Page)]
               pc == IF Len(Page) < PageSize THEN Fetched(run.batch \o Page) ELSE "fetch"
    <3>1. run' = [run EXCEPT !.batch = run.batch \o Page, !.latest = latest,
                             !.skip = run.skip + PageSize, !.pc = pc]
      BY <1>2 DEF FetchPage
    <3>2. latest \in Times /\ run.skip + PageSize \in Nat
      BY <2>2 DEF RunStates
    <3>3. pc \in {"idle", "fetch", "volumes", "fees"}
      BY DEF Fetched
    <3> HIDE DEF latest, pc
    <3> QED BY <2>1, <3>1, <3>2, <3>3 DEF RunStates
  <2> QED BY <1>2, <2>3 DEF FetchPage
<1>3. CASE FetchFails
  <2>1. run' \in RunStates
    <3> DEFINE pc == IF run.errors + 1 > MaxErrors THEN Fetched(run.batch) ELSE "fetch"
    <3>1. run' = [run EXCEPT !.errors = run.errors + 1, !.pc = pc] /\ run.pc = "fetch"
      BY <1>3 DEF FetchFails
    <3>2. pc \in {"idle", "fetch", "volumes", "fees"}
      BY DEF Fetched
    <3>3. run.errors + 1 \in 0..(MaxErrors + 1)
      BY <3>1 DEF Clocked, RunStates
    <3> HIDE DEF pc
    <3> QED BY <3>1, <3>2, <3>3 DEF RunStates
  <2> QED BY <1>3, <2>1 DEF FetchFails
<1>4. CASE SaveVolumes
  <2>1. referee' \in [Referees -> RefereeRows \cup {NoRow}]
    <3>1. \A u \in Referees : referee'[u] \in RefereeRows \cup {NoRow}
      BY <1>4, VolumesSaved
    <3> QED BY <1>4, <3>1 DEF SaveVolumes
  <2>2. run' \in RunStates
    BY <1>4 DEF SaveVolumes, RunStates
  <2> QED BY <1>4, <2>1, <2>2 DEF SaveVolumes
<1>5. CASE SaveVolumesFails
  <2>1. run' \in RunStates
    BY <1>5 DEF SaveVolumesFails, RunStates
  <2> QED BY <1>5, <2>1 DEF SaveVolumesFails
<1>6. CASE SaveFees
  <2>1. fee' \in [Affiliates -> FeeRows \cup {NoRow}]
    <3>1. \A a \in Affiliates : fee'[a] \in FeeRows \cup {NoRow}
      BY <1>6, FeesSaved
    <3> QED BY <1>6, <3>1 DEF SaveFees
  <2>2. run' \in RunStates
    BY <1>6 DEF SaveFees, RunStates, Idle, Times
  <2> QED BY <1>6, <2>1, <2>2 DEF SaveFees
<1>7. CASE RunEnds
  <2>1. run' \in RunStates
    BY <1>7 DEF RunEnds, RunStates, Idle, Times
  <2>2. ToSet(run.batch) \subseteq Bets
    BY DEF RunStates, ToSet
  <2> QED BY <1>7, <2>1, <2>2 DEF RunEnds
<1>8. ASSUME NEW u \in Referees, Register(u) PROVE TypeOK'
  <2>1. NewReferee \in RefereeRows
    BY DEF NewReferee, RefereeRows
  <2> QED BY <1>8, <2>1 DEF Register
<1>9. ASSUME NEW b \in Bets, CloseRound(b) PROVE TypeOK'
  BY <1>9 DEF CloseRound
<1>10. CASE Tick
  BY <1>10 DEF Tick, Times
<1>11. CASE UNCHANGED vars
  BY <1>11 DEF vars
<1> QED BY <1>1, <1>2, <1>3, <1>4, <1>5, <1>6, <1>7, <1>8, <1>9, <1>10, <1>11 DEF Next

-----------------------------------------------------------------------------
(* The times are kept in order. *)

\* The call after a page, and after a failure to fetch one.
LEMMA Paged ==
  ASSUME TypeOK, FetchPage
  PROVE  /\ run.pc = "fetch" /\ run'.last = run.last /\ run'.errors = run.errors
         /\ run'.batch = run.batch \o Page
         /\ run'.latest = IF Page = <<>> THEN run.latest ELSE endAt[Last(Page)]
         /\ run'.skip = run.skip + PageSize
         /\ run'.pc = IF Len(Page) < PageSize THEN Fetched(run'.batch) ELSE "fetch"
         /\ UNCHANGED <<now, endAt, closed, referee, fee, shifts, lost>>
BY DEF FetchPage, TypeOK, RunStates

LEMMA Failed ==
  ASSUME TypeOK, FetchFails
  PROVE  /\ run.pc = "fetch" /\ run'.last = run.last /\ run'.errors = run.errors + 1
         /\ run'.batch = run.batch /\ run'.latest = run.latest /\ run'.skip = run.skip
         /\ run'.pc = IF run.errors + 1 > MaxErrors THEN Fetched(run'.batch) ELSE "fetch"
         /\ UNCHANGED <<now, endAt, closed, referee, fee, shifts, lost>>
BY DEF FetchFails, TypeOK, RunStates

\* The call after the step of the volumes.
LEMMA ToFees ==
  ASSUME TypeOK, SaveVolumes \/ SaveVolumesFails
  PROVE  /\ run.pc = "volumes" /\ run'.pc = "fees"
         /\ run'.last = run.last /\ run'.latest = run.latest
         /\ run'.batch = run.batch
         /\ UNCHANGED <<now, endAt, closed, fee, shifts, lost>>
BY DEF SaveVolumes, SaveVolumesFails, TypeOK, RunStates

LEMMA Ended ==
  ASSUME SaveFees \/ RunEnds
  PROVE  /\ run.pc # "idle" /\ run'.pc = "idle" /\ run'.last = 0 /\ run'.latest = 0
         /\ run'.batch = <<>>
         /\ UNCHANGED <<now, endAt, closed, referee, shifts>>
BY DEF SaveFees, RunEnds, Idle

LEMMA Started ==
  ASSUME StartRun
  PROVE  /\ run.pc = "idle" /\ run'.pc = "fetch"
         /\ run'.last = LastTimestamp /\ run'.latest = LastTimestamp
         /\ run'.skip = 0 /\ run'.errors = 0 /\ run'.batch = <<>>
         /\ UNCHANGED <<now, endAt, closed, referee, fee, shifts, lost>>
BY DEF StartRun, Idle

\* The new row of Register.
LEMMA NewRow ==
  ASSUME TypeOK, NEW u \in Referees, Register(u)
  PROVE  /\ referee'[u] \in RefereeRows /\ referee'[u] # NoRow
         /\ referee'[u].volume = <<>> /\ ~referee'[u].qualified
         /\ \A v \in Referees : v # u => referee'[v] = referee[v]
         /\ referee[u] = NoRow
         /\ UNCHANGED <<now, endAt, closed, fee, run, shifts>>
<1>1. NewReferee \in RefereeRows
  BY DEF TypeOK, NewReferee, RefereeRows
<1>2. referee'[u] = NewReferee
  BY DEF Register, TypeOK
<1> QED BY <1>1, <1>2, RowAssumption DEF Register, NewReferee, TypeOK

\* What the steps make of lastTimestamp: the save of the volumes moves it to
\* the latest bet or leaves it no later, the save of the fees only forward.
LEMMA Stamped ==
  ASSUME TypeOK, TypeOK', Clocked, [Next]_vars
  PROVE  /\ LastTimestamp \in Times /\ LastTimestamp' \in Times
         /\ UNCHANGED <<referee, fee>> => LastTimestamp' = LastTimestamp
         /\ SaveVolumes =>
              /\ run.last <= LastTimestamp'
              /\ LastTimestamp' <= LastTimestamp \/ LastTimestamp' <= run.latest
              /\ \A u \in Referees : referee'[u] # referee[u] => run.latest <= LastTimestamp'
         /\ SaveFees =>
              /\ LastTimestamp <= LastTimestamp'
              /\ LastTimestamp' <= LastTimestamp \/ LastTimestamp' <= run.latest
              /\ \A a \in Affiliates : fee'[a] # fee[a] => run.latest <= LastTimestamp'
         /\ \A u \in Referees : Register(u) => LastTimestamp <= LastTimestamp'
<1>1. /\ LastTimestamp \in Times
      /\ \A u \in Referees : referee[u] # NoRow => referee[u].updatedAt <= LastTimestamp
      /\ \A a \in Affiliates : fee[a] # NoRow => fee[a].updatedAt <= LastTimestamp
      /\ \/ LastTimestamp = 0
         \/ \E u \in Referees : referee[u] # NoRow /\ referee[u].updatedAt = LastTimestamp
         \/ \E a \in Affiliates : fee[a] # NoRow /\ fee[a].updatedAt = LastTimestamp
  BY NewestIs, LastTimestampIs DEF TypeOK
<1>2. /\ LastTimestamp' \in Times
      /\ \A u \in Referees : referee'[u] # NoRow => referee'[u].updatedAt <= LastTimestamp'
      /\ \A a \in Affiliates : fee'[a] # NoRow => fee'[a].updatedAt <= LastTimestamp'
      /\ \/ LastTimestamp' = 0
         \/ \E u \in Referees : referee'[u] # NoRow /\ referee'[u].updatedAt = LastTimestamp'
         \/ \E a \in Affiliates : fee'[a] # NoRow /\ fee'[a].updatedAt = LastTimestamp'
  BY NewestIs, LastTimestampIs DEF TypeOK
<1>3. UNCHANGED <<referee, fee>> => LastTimestamp' = LastTimestamp
  BY LastTimestampIs
<1>4. /\ LastTimestamp \in Nat /\ LastTimestamp' \in Nat
      /\ run.last \in Nat /\ run.latest \in Nat /\ run.last <= run.latest
  BY <1>1, <1>2, Constants DEF TypeOK, RunStates, Times, Clocked
<1>5. ASSUME SaveVolumes
      PROVE  /\ run.last <= LastTimestamp'
             /\ LastTimestamp' <= LastTimestamp \/ LastTimestamp' <= run.latest
             /\ \A u \in Referees : referee'[u] # referee[u] => run.latest <= LastTimestamp'
  <2>1. ASSUME NEW u \in Referees, referee'[u] # referee[u]
        PROVE  /\ referee'[u] # NoRow /\ referee[u] # NoRow
               /\ referee'[u].updatedAt = run.latest
    <3>1. /\ referee[u] # NoRow /\ referee'[u] # NoRow /\ referee[u] \in RefereeRows
          /\ BetsBy({u}, run.batch) \in Seq(Bets)
          /\ referee'[u] = Traded(referee[u], BetsBy({u}, run.batch))
      BY <1>5, <2>1, VolumesSaved
    <3> QED BY <3>1, TradedRow
  <2>2. fee' = fee /\ run.last <= LastTimestamp
    BY <1>5, ToFees DEF Clocked
  <2>3. \A u \in Referees : referee'[u] # referee[u] => run.latest <= LastTimestamp'
    BY <1>2, <2>1
  <2>4. run.last <= LastTimestamp'
    <3>1. CASE \E u \in Referees : referee'[u] # referee[u]
      BY <1>4, <2>3, <3>1
    <3>2. CASE \A u \in Referees : referee'[u] = referee[u]
      BY <1>1, <1>2, <1>4, <2>2, <3>2
    <3> QED BY <3>1, <3>2
  <2>5. LastTimestamp' <= LastTimestamp \/ LastTimestamp' <= run.latest
    BY <1>1, <1>2, <1>4, <2>1, <2>2
  <2> QED BY <2>3, <2>4, <2>5
<1>6. ASSUME SaveFees
      PROVE  /\ LastTimestamp <= LastTimestamp'
             /\ LastTimestamp' <= LastTimestamp \/ LastTimestamp' <= run.latest
             /\ \A a \in Affiliates : fee'[a] # fee[a] => run.latest <= LastTimestamp'
  <2>1. ASSUME NEW a \in Affiliates, fee'[a] # fee[a]
        PROVE  /\ fee'[a] # NoRow /\ fee[a] # NoRow
               /\ fee'[a].updatedAt = run.latest
               /\ fee[a].updatedAt \in Nat /\ fee[a].updatedAt <= fee'[a].updatedAt
    <3>1. fee'[a] # NoRow /\ fee[a] # NoRow /\ fee'[a].updatedAt = run.latest
      BY <1>6, <2>1, FeesSaved, PaidRow
    <3>2. fee[a].updatedAt \in Nat
      BY <1>6, <3>1, FeesSaved DEF FeeRows, Times
    <3>3. fee[a].updatedAt <= run.last
      BY <1>6, <3>1, Ended DEF Clocked
    <3> QED BY <1>4, <3>1, <3>2, <3>3
  <2>2. referee' = referee
    BY <1>6, Ended
  <2>3. \A a \in Affiliates : fee'[a] # fee[a] => run.latest <= LastTimestamp'
    BY <1>2, <2>1
  <2>4. LastTimestamp <= LastTimestamp'
    <3>1. ASSUME NEW a \in Affiliates, fee[a] # NoRow, fee[a].updatedAt = LastTimestamp
          PROVE  LastTimestamp <= LastTimestamp'
      BY <1>2, <1>4, <2>1, <3>1
    <3> QED BY <1>1, <1>2, <1>4, <2>2, <3>1
  <2>5. LastTimestamp' <= LastTimestamp \/ LastTimestamp' <= run.latest
    BY <1>1, <1>2, <1>4, <2>1, <2>2
  <2> QED BY <2>3, <2>4, <2>5
<1>7. ASSUME NEW u \in Referees, Register(u)
      PROVE  LastTimestamp <= LastTimestamp'
  BY <1>1, <1>2, <1>4, <1>7, NewRow
<1> QED BY <1>1, <1>2, <1>3, <1>5, <1>6, <1>7

LEMMA ClockedKept ==
  ASSUME TypeOK, TypeOK', Clocked, [Next]_vars
  PROVE  Clocked'
<1> USE DEF Clocked
<1>0. /\ run.last \in Nat /\ run.latest \in Nat /\ now \in Nat
      /\ LastTimestamp \in Nat /\ LastTimestamp' \in Nat
  <2>1. LastTimestamp \in Times /\ LastTimestamp' \in Times
    BY Stamped
  <2>2. run.last \in Times /\ run.latest \in Times /\ now \in Times
    BY DEF TypeOK, RunStates
  <2> QED BY <2>1, <2>2, Constants DEF Times
<1>1. CASE StartRun
  <2>1. \A a \in Affiliates : fee[a] # NoRow => fee[a].updatedAt <= LastTimestamp
    BY NewestIs, LastTimestampIs DEF TypeOK
  <2> QED BY <1>0, <1>1, <2>1, Started, Stamped, Constants
<1>2. CASE FetchPage
  <2>1. Page # <<>> => endAt[Last(Page)] \in Nat /\ endAt[Last(Page)] > run.last
    <3> SUFFICES ASSUME Page # <<>>
                 PROVE  endAt[Last(Page)] \in Nat /\ endAt[Last(Page)] > run.last
      OBVIOUS
    <3>1. Last(Page) \in Selected
      BY PageHolds
    <3>2. Last(Page) \in Bets /\ endAt[Last(Page)] > run.last
      BY <3>1 DEF Selected, TypeOK
    <3>3. endAt[Last(Page)] \in 1..MaxTime
      BY <3>2 DEF TypeOK
    <3> QED BY <3>2, <3>3, Constants
  <2> QED BY <1>0, <1>2, <2>1, Paged, Stamped DEF Fetched
<1>3. CASE FetchFails
  <2>1. run'.pc = "fetch" => run'.errors <= MaxErrors
    <3>1. run.errors + 1 \in Nat
      BY DEF TypeOK, RunStates
    <3> QED BY <1>3, <3>1, Failed, Constants DEF Fetched
  <2>2. run'.pc = "idle" => run'.batch = <<>>
    BY <1>3, Failed DEF Fetched
  <2>3. LastTimestamp' = LastTimestamp
    BY <1>3, Failed, Stamped
  <2> QED BY <1>3, <2>1, <2>2, <2>3, Failed
<1>4. CASE SaveVolumes
  BY <1>0, <1>4, ToFees, Stamped
<1>5. CASE SaveVolumesFails
  <2>1. UNCHANGED <<referee, fee>>
    BY <1>5 DEF SaveVolumesFails
  <2> QED BY <1>0, <1>5, <2>1, ToFees, Stamped
<1>6. CASE SaveFees \/ RunEnds
  BY <1>6, Ended
<1>7. ASSUME NEW u \in Referees, Register(u) PROVE Clocked'
  BY <1>0, <1>7, NewRow, Stamped
<1>8. ASSUME NEW b \in Bets, CloseRound(b) PROVE Clocked'
  <2>1. IsFiniteSet(closed')
    BY <1>8, FS_AddElement DEF CloseRound
  <2>2. UNCHANGED <<now, endAt, referee, fee, run>> /\ \A c \in closed' : endAt[c] <= now
    BY <1>8 DEF CloseRound
  <2> QED BY <1>8, <2>1, <2>2, Stamped
<1>9. CASE Tick
  <2>1. UNCHANGED <<endAt, closed, referee, fee, run>> /\ now' = now + 1
    BY <1>9 DEF Tick
  <2>2. \A b \in closed : endAt[b] \in Nat
    BY DEF TypeOK
  <2> QED BY <1>0, <2>1, <2>2, Stamped
<1>10. CASE UNCHANGED vars
  BY <1>10, Stamped DEF vars
<1> QED BY <1>1, <1>2, <1>3, <1>4, <1>5, <1>6, <1>7, <1>8, <1>9, <1>10 DEF Next

-----------------------------------------------------------------------------
(* A bet is counted once. *)

LEMMA Numbered ==
  ASSUME TypeOK, NEW b \in Bets
  PROVE  /\ Carried(b) \in Nat /\ shifts \in Nat /\ endAt[b] \in Nat
         /\ run.last \in Nat /\ run.latest \in Nat /\ run.skip \in Nat
<1>1. run.batch \in Seq(Bets) /\ run.last \in Times /\ run.latest \in Times /\ run.skip \in Nat
  BY DEF TypeOK, RunStates
<1>2. endAt[b] \in 1..MaxTime
  BY DEF TypeOK
<1>3. Carried(b) \in Nat
  BY <1>1, TimesTyped DEF Carried
<1> QED BY <1>1, <1>2, <1>3, Constants DEF TypeOK, Times

\* The places of the selected bets are numbers.
LEMMA Placed ==
  ASSUME TypeOK, Clocked
  PROVE  /\ IsFiniteSet(Selected) /\ Selected \subseteq Bets
         /\ Orders(ByEnd, Selected)
         /\ \A b \in Selected : PagePlace(b) \in Nat /\ PagePlace(b) > 0
<1>1. IsFiniteSet(Selected) /\ Selected \subseteq Bets
  <2>1. Selected \in SUBSET closed /\ closed \subseteq Bets
    BY DEF Selected, TypeOK
  <2> QED BY <2>1, FS_Subset DEF Clocked
<1>2. Orders(ByEnd, Selected)
  <2>1. \A b \in Selected : b \in Bets /\ b \in Nat /\ endAt[b] \in Nat
    BY <1>1, Constants, Numbered
  <2> QED BY <2>1 DEF Orders, ByEnd
<1>3. ASSUME NEW b \in Selected PROVE PagePlace(b) \in Nat /\ PagePlace(b) > 0
  <2>1. PagePlace(b) \in 1..Cardinality(Selected)
    BY <1>1, <1>2, PlacesGrow DEF PagePlace
  <2> QED BY <1>1, <2>1, FS_CardinalityType
<1> QED BY <1>1, <1>2, <1>3

\* The steps of the pages keep the two bounds.
LEMMA AddedPaged ==
  ASSUME TypeOK, TypeOK', Clocked, Clocked', FetchPage \/ FetchFails,
         NEW k \in Nat, NEW b \in Bets, Adding(k, b)
  PROVE  /\ run'.pc # "idle" => Adding(k, b)'
         /\ run'.pc = "idle" => Added(k, b)'
<1>1. /\ Carried(b) \in Nat /\ shifts \in Nat /\ endAt[b] \in Nat
      /\ run.last \in Nat /\ run.latest \in Nat /\ run.skip \in Nat
  BY Numbered
<1>2. /\ LastTimestamp \in Times /\ LastTimestamp' = LastTimestamp
  BY Stamped, Paged, Failed DEF Next
<1>3. run.pc = "fetch" /\ run.last <= LastTimestamp
  BY Paged, Failed DEF Clocked
<1>4. LastTimestamp \in Nat /\ PageSize \in Nat /\ PageSize > 0
  BY <1>2, Constants DEF Times
<1>5. Added(k, b)'
  <2>1. shifts' = shifts /\ endAt' = endAt
    BY Paged, Failed
  <2> QED BY <1>1, <1>2, <1>3, <1>4, <2>1 DEF Added, Adding
<1>6. ASSUME FetchFails PROVE Adding(k, b)'
  <2>1. /\ run'.last = run.last /\ run'.latest = run.latest /\ run'.skip = run.skip
        /\ run'.batch = run.batch
        /\ shifts' = shifts /\ endAt' = endAt /\ closed' = closed
    BY <1>6, Failed
  <2>2. Carried(b)' = Carried(b) /\ Selected' = Selected /\ ByEnd' = ByEnd
    BY <2>1 DEF Carried, Selected, ByEnd
  <2>3. PagePlace(b)' = PagePlace(b)
    BY <2>2 DEF PagePlace
  <2> QED BY <1>3, <2>1, <2>2, <2>3 DEF Adding
<1>7. ASSUME FetchPage PROVE Adding(k, b)'
  <2>1. /\ run'.last = run.last /\ run'.skip = run.skip + PageSize
        /\ run'.batch = run.batch \o Page
        /\ run'.latest = IF Page = <<>> THEN run.latest ELSE endAt[Last(Page)]
        /\ run'.pc = IF Len(Page) < PageSize THEN Fetched(run'.batch) ELSE "fetch"
        /\ shifts' = shifts /\ endAt' = endAt /\ closed' = closed
    BY <1>7, Paged
  <2>2. Selected' = Selected /\ ByEnd' = ByEnd /\ PagePlace(b)' = PagePlace(b)
    <3>1. Selected' = Selected /\ ByEnd' = ByEnd
      BY <2>1 DEF Selected, ByEnd
    <3> QED BY <3>1 DEF PagePlace
  <2>3. Carried(b)' = Carried(b) + TimesIn(b, Page)
    <3>1. run.batch \in Seq(Bets) /\ Page \in Seq(Bets)
      BY PageHolds DEF TypeOK, RunStates, Clocked
    <3> QED BY <2>1, <3>1, TimesAdd DEF Carried
  <2>4. Page = <<>> => run'.pc # "fetch"
    BY <1>4, <2>1 DEF Fetched
  <2>5. TimesIn(b, Page) = IF b \in Selected /\ run.skip < PagePlace(b)
                              /\ PagePlace(b) <= run.skip + PageSize
                           THEN 1 ELSE 0
    BY PageHolds DEF Clocked
  <2>6. b \in Selected => endAt[b] > run.last /\ PagePlace(b) \in Nat
    BY Placed DEF Selected
  <2>7. Page # <<>> /\ b \in Selected /\ PagePlace(b) <= run.skip + PageSize =>
          endAt[b] <= run'.latest
    BY <2>1, PageHolds DEF Clocked
  <2>8. Page = <<>> => TimesIn(b, Page) = 0 /\ run'.latest = run.latest
    BY <2>1, PageHolds, TimesTyped DEF Clocked
  <2>9. CASE TimesIn(b, Page) = 1
    <3>1. Page # <<>> /\ b \in Selected /\ PagePlace(b) <= run.skip + PageSize
           /\ run.skip < PagePlace(b)
      BY <2>5, <2>8, <2>9
    <3>2. k + Carried(b) <= shifts
      BY <1>1, <1>3, <2>6, <3>1 DEF Adding
    <3>3. k + Carried(b)' <= 1 + shifts' /\ k <= shifts'
      BY <1>1, <2>1, <2>3, <2>9, <3>2
    <3> QED BY <2>1, <2>2, <2>7, <3>1, <3>3 DEF Adding
  <2>10. CASE TimesIn(b, Page) = 0
    <3>1. Carried(b)' = Carried(b)
      BY <1>1, <2>3, <2>10
    <3>2. ASSUME b \in Selected, PagePlace(b) <= run.skip, endAt[b] <= run.latest
          PROVE  /\ endAt[b] <= run'.latest
                 /\ run'.pc = "fetch" => PagePlace(b) <= run.skip + PageSize
      <4>1. PagePlace(b) <= run.skip + PageSize
        BY <1>1, <1>4, <2>6, <3>2
      <4> QED BY <2>7, <2>8, <3>2, <4>1
    <3> QED BY <1>1, <1>3, <2>1, <2>2, <3>1, <3>2 DEF Adding
  <2> QED BY <2>5, <2>9, <2>10
<1> QED BY <1>5, <1>6, <1>7

\* A run begins where the tables end, and ends no earlier.
LEMMA AddingStarted ==
  ASSUME TypeOK, TypeOK', Clocked, StartRun, NEW k \in Nat, NEW b \in Bets, Added(k, b)
  PROVE  Adding(k, b)'
<1>1. /\ run'.last = LastTimestamp /\ run'.batch = <<>> /\ shifts' = shifts /\ endAt' = endAt
  BY Started
<1>2. Carried(b)' = 0
  BY <1>1, TimesTyped DEF Carried, TypeOK, RunStates
<1> QED BY <1>1, <1>2, Numbered DEF Added, Adding

\* A round closed ahead of a page moves the bets there, one place at most.
LEMMA AddedClosed ==
  ASSUME TypeOK, TypeOK', Clocked, Clocked', NEW c \in Bets, CloseRound(c),
         NEW k \in Nat, NEW b \in Bets
  PROVE  /\ run.pc # "idle" /\ Adding(k, b) => Adding(k, b)'
         /\ Added(k, b) => Added(k, b)'
<1>1. /\ Carried(b) \in Nat /\ shifts \in Nat /\ endAt[b] \in Nat /\ endAt[c] \in Nat
      /\ run.last \in Nat /\ run.latest \in Nat /\ run.skip \in Nat
  BY Numbered
<1>2. /\ UNCHANGED <<now, endAt, referee, fee, run>>
      /\ closed' = closed \cup {c} /\ c \notin closed
      /\ shifts' = shifts \/ shifts' = shifts + 1
      /\ run.pc = "fetch" /\ run.skip > 0 /\ endAt[c] <= run.latest => shifts' = shifts + 1
  BY DEF CloseRound
<1>3. Carried(b)' = Carried(b) /\ ByEnd' = ByEnd /\ LastTimestamp' = LastTimestamp
  BY <1>2, Stamped DEF Carried, ByEnd, Next
<1>4. Added(k, b) => Added(k, b)'
  BY <1>1, <1>2, <1>3 DEF Added
<1>5. ASSUME run.pc # "idle", Adding(k, b) PROVE Adding(k, b)'
  <2>1. CASE shifts' = shifts + 1
    BY <1>1, <1>2, <1>3, <1>5, <2>1 DEF Adding
  <2>2. CASE run.pc # "fetch" /\ shifts' = shifts
    BY <1>2, <1>3, <1>5, <2>2 DEF Adding
  <2>3. CASE run.pc = "fetch" /\ shifts' = shifts
    <3>1. SUFFICES ASSUME b \in Selected, PagePlace(b) <= run.skip, endAt[b] <= run.latest
                   PROVE  b \in Selected' /\ PagePlace(b)' = PagePlace(b)
      BY <1>2, <1>3, <1>5, <2>3 DEF Adding
    <3>2. run.skip > 0
      BY <1>1, <3>1, Placed
    <3>3. endAt[c] > run.latest
      BY <1>1, <1>2, <2>3, <3>2
    <3>4. <<c, b>> \notin ByEnd
      BY <1>1, <3>1, <3>3 DEF ByEnd
    <3>5. {y \in Selected' : <<y, b>> \in ByEnd'} = {y \in Selected : <<y, b>> \in ByEnd}
      BY <1>2, <1>3, <3>4 DEF Selected
    <3>6. b \in Selected'
      BY <1>2, <3>1 DEF Selected
    <3> QED BY <3>5, <3>6 DEF PagePlace, Place
  <2> QED BY <1>2, <2>1, <2>2, <2>3
<1> QED BY <1>4, <1>5

\* How the call goes on: it begins with StartRun, saves after the pages, and
\* lastTimestamp stays behind it.
LEMMA Course ==
  ASSUME TypeOK, TypeOK', Clocked, [Next]_vars
  PROVE  /\ run.pc = "idle" /\ run'.pc # "idle" => StartRun
         /\ run.pc = "fees" => run'.pc \in {"fees", "idle"}
         /\ SaveVolumes => run.pc = "volumes" /\ run'.pc = "fees"
         /\ SaveFees => run.pc = "fees" /\ run'.pc = "idle"
         /\ run.pc # "idle" => run.last <= LastTimestamp'
         /\ ~SaveVolumes => LastTimestamp <= LastTimestamp'
         /\ endAt' = endAt /\ (shifts' = shifts \/ shifts' = shifts + 1)
<1>1. LastTimestamp \in Nat /\ LastTimestamp' \in Nat /\ run.last \in Nat
  <2>1. LastTimestamp \in Times /\ LastTimestamp' \in Times /\ run.last \in Times
    BY Stamped DEF TypeOK, RunStates
  <2> QED BY <2>1, Constants DEF Times
<1>2. run.pc # "idle" => run.last <= LastTimestamp
  BY DEF Clocked
<1>0. /\ SaveVolumes => run.pc = "volumes" /\ run'.pc = "fees"
      /\ SaveFees => run.pc = "fees" /\ run'.pc = "idle"
  BY ToFees, Ended DEF SaveFees
<1>3. CASE StartRun
  BY <1>0, <1>1, <1>3, Started, Stamped
<1>4. CASE FetchPage \/ FetchFails
  BY <1>0, <1>1, <1>2, <1>4, Paged, Failed, Stamped
<1>5. CASE SaveVolumes
  BY <1>0, <1>5, ToFees, Stamped
<1>6. CASE SaveVolumesFails
  <2>1. UNCHANGED <<referee, fee>>
    BY <1>6 DEF SaveVolumesFails
  <2> QED BY <1>0, <1>1, <1>2, <1>6, <2>1, ToFees, Stamped
<1>7. CASE SaveFees
  <2>1. LastTimestamp <= LastTimestamp' /\ endAt' = endAt /\ shifts' = shifts
    BY <1>7, Ended, Stamped
  <2> QED BY <1>0, <1>1, <1>2, <1>7, <2>1
<1>8. CASE RunEnds
  <2>1. UNCHANGED <<referee, fee>>
    BY <1>8 DEF RunEnds
  <2>2. LastTimestamp' = LastTimestamp /\ endAt' = endAt /\ shifts' = shifts
    BY <1>8, <2>1, Ended, Stamped
  <2>3. run.pc # "idle" /\ run'.pc = "idle"
    BY <1>8, Ended
  <2> QED BY <1>0, <1>1, <1>2, <2>2, <2>3
<1>9. ASSUME NEW u \in Referees, Register(u) PROVE run' = run /\ endAt' = endAt /\ shifts' = shifts
                                                   /\ LastTimestamp <= LastTimestamp'
  BY <1>9, NewRow, Stamped
<1>10. ASSUME NEW b \in Bets, CloseRound(b)
       PROVE  /\ run' = run /\ endAt' = endAt /\ (shifts' = shifts \/ shifts' = shifts + 1)
              /\ LastTimestamp' = LastTimestamp
  <2>1. UNCHANGED <<referee, fee, run, endAt>> /\ (shifts' = shifts \/ shifts' = shifts + 1)
    BY <1>10 DEF CloseRound
  <2> QED BY <2>1, Stamped
<1>11. CASE Tick \/ UNCHANGED vars
  <2>1. UNCHANGED <<endAt, referee, fee, run, shifts>>
    BY <1>11 DEF Tick, vars
  <2>2. LastTimestamp' = LastTimestamp
    BY <2>1, Stamped
  <2> QED BY <1>0, <1>1, <1>2, <2>1, <2>2
<1>12. CASE (\E u \in Referees : Register(u)) \/ (\E b \in Bets : CloseRound(b))
  <2>1. /\ run' = run /\ endAt' = endAt /\ (shifts' = shifts \/ shifts' = shifts + 1)
        /\ LastTimestamp <= LastTimestamp'
    BY <1>1, <1>9, <1>10, <1>12
  <2> QED BY <1>0, <1>1, <1>2, <2>1
<1> QED BY <1>3, <1>4, <1>5, <1>6, <1>7, <1>8, <1>11, <1>12 DEF Next

\* While a call goes on, what it may still add is kept.
LEMMA AddingKept ==
  ASSUME TypeOK, TypeOK', Clocked, Clocked', [Next]_vars, run.pc # "idle", run'.pc # "idle",
         NEW k \in Nat, NEW b \in Bets, Adding(k, b)
  PROVE  Adding(k, b)'
<1>1. ASSUME run'.pc = "fetch" => run.pc = "fetch", run'.last = run.last,
             run'.latest = run.latest, run'.batch = run.batch, run'.skip = run.skip,
             UNCHANGED <<endAt, closed, shifts>>
      PROVE  Adding(k, b)'
  <2>1. Carried(b)' = Carried(b) /\ Selected' = Selected /\ PagePlace(b)' = PagePlace(b)
    BY <1>1 DEF Carried, Selected, PagePlace, Place, ByEnd
  <2> QED BY <1>1, <2>1 DEF Adding
<1>2. CASE FetchPage \/ FetchFails
  BY <1>2, AddedPaged
<1>3. CASE SaveVolumes \/ SaveVolumesFails
  <2>1. run'.skip = run.skip
    BY <1>3 DEF SaveVolumes, SaveVolumesFails, TypeOK, RunStates
  <2> QED BY <1>1, <1>3, <2>1, ToFees
<1>4. ASSUME NEW u \in Referees, Register(u) PROVE Adding(k, b)'
  BY <1>1, <1>4, NewRow
<1>5. ASSUME NEW c \in Bets, CloseRound(c) PROVE Adding(k, b)'
  BY <1>5, AddedClosed
<1>6. CASE Tick \/ UNCHANGED vars
  BY <1>1, <1>6 DEF Tick, vars
<1>7. ~StartRun /\ ~SaveFees /\ ~RunEnds
  BY Started, Ended
<1> QED BY <1>2, <1>3, <1>4, <1>5, <1>6, <1>7 DEF Next

\* When it adds no more to a row, or has added what its batch has, the row has
\* each bet as often as it should.
LEMMA AddedKept ==
  ASSUME TypeOK, TypeOK', Clocked, [Next]_vars, NEW k \in Nat, NEW b \in Bets
  PROVE  /\ ~SaveVolumes /\ Added(k, b) => Added(k, b)'
         /\ run.pc # "idle" /\ Adding(k, b) => Added(k, b)'
         /\ \A sum : /\ sum = k + Carried(b)
                     /\ run.pc \notin {"idle", "fetch"} /\ run.latest <= LastTimestamp'
                     /\ Adding(k, b)
                     => Added(sum, b)'
<1>1. /\ Carried(b) \in Nat /\ shifts \in Nat /\ endAt[b] \in Nat
      /\ run.last \in Nat /\ run.latest \in Nat
  BY Numbered
<1>2. LastTimestamp \in Nat /\ LastTimestamp' \in Nat
  <2>1. LastTimestamp \in Times /\ LastTimestamp' \in Times
    BY Stamped
  <2> QED BY <2>1, Constants DEF Times
<1>3. /\ ~SaveVolumes => LastTimestamp <= LastTimestamp'
      /\ run.pc # "idle" => run.last <= LastTimestamp'
      /\ endAt' = endAt /\ (shifts' = shifts \/ shifts' = shifts + 1)
  BY Course
<1> QED BY <1>1, <1>2, <1>3 DEF Added, Adding

\* The times of a bet in a list are a number.
LEMMA RowTimes ==
  ASSUME TypeOK, NEW b \in Bets
  PROVE  /\ \A u \in Registered : referee[u] \in RefereeRows
                                   /\ TimesIn(b, referee[u].volume) \in Nat
         /\ \A a \in Affiliates : fee[a] # NoRow =>
              fee[a] \in FeeRows /\ TimesIn(b, fee[a].paid) \in Nat
<1>1. \A u \in Registered : referee[u] \in RefereeRows /\ referee[u].volume \in Seq(Bets)
  BY DEF TypeOK, Registered, RefereeRows
<1>2. \A a \in Affiliates : fee[a] # NoRow => fee[a] \in FeeRows /\ fee[a].paid \in Seq(Bets)
  BY DEF TypeOK, FeeRows
<1> QED BY <1>1, <1>2, TimesTyped

LEMMA BatchKept ==
  ASSUME TypeOK, TypeOK', Clocked, Clocked', BatchOnce, [Next]_vars
  PROVE  BatchOnce'
<1> SUFFICES ASSUME run'.pc # "idle", NEW b \in Bets PROVE Adding(0, b)'
  BY DEF BatchOnce
<1>1. CASE run.pc # "idle"
  BY <1>1, AddingKept DEF BatchOnce
<1>2. CASE run.pc = "idle"
  <2>1. Added(0, b)
    BY Numbered DEF Added
  <2>2. StartRun
    BY <1>2, Course
  <2> QED BY <2>1, <2>2, AddingStarted
<1> QED BY <1>1, <1>2

LEMMA VolumesKept ==
  ASSUME TypeOK, TypeOK', Clocked, Clocked', BatchOnce, VolumesOnce, [Next]_vars
  PROVE  VolumesOnce'
<1> DEFINE Before(k, b) == IF run.pc \in {"fetch", "volumes"} THEN Adding(k, b) ELSE Added(k, b)
<1> SUFFICES ASSUME NEW u \in Registered', NEW b \in Bets,
                    NEW k, k = TimesIn(b, referee'[u].volume)
             PROVE  Before(k, b)'
  BY DEF VolumesOnce
<1>1. u \in Referees /\ referee'[u] # NoRow
  BY DEF Registered
<1>2. /\ run.pc \in {"idle", "fetch", "volumes", "fees"}
      /\ run'.pc \in {"idle", "fetch", "volumes", "fees"}
  BY DEF TypeOK, RunStates
<1>3. ASSUME NEW j \in Nat, Before(j, b), ~SaveVolumes PROVE Before(j, b)'
  <2>1. CASE run.pc \in {"fetch", "volumes"}
    BY <1>2, <1>3, <2>1, AddingKept, AddedKept
  <2>2. CASE run.pc \notin {"fetch", "volumes"}
    BY <1>2, <1>3, <2>2, AddingStarted, AddedKept, Course
  <2> QED BY <2>1, <2>2
<1>4. CASE referee'[u] = referee[u]
  <2>1. u \in Registered /\ k \in Nat /\ Before(k, b)
    BY <1>1, <1>4, RowTimes DEF Registered, VolumesOnce
  <2>2. CASE SaveVolumes
    BY <2>1, <2>2, AddedKept, Course
  <2> QED BY <1>3, <2>1, <2>2
<1>5. CASE SaveVolumes /\ referee'[u] # referee[u]
  <2>1. /\ referee[u] # NoRow /\ referee[u] \in RefereeRows
        /\ BetsBy({u}, run.batch) \in Seq(Bets)
        /\ referee'[u] = Traded(referee[u], BetsBy({u}, run.batch))
    BY <1>1, <1>5, VolumesSaved
  <2> DEFINE j == TimesIn(b, referee[u].volume)
  <2>2. u \in Registered /\ j \in Nat /\ Adding(j, b)
    BY <1>1, <1>5, <2>1, RowTimes, Course DEF Registered, VolumesOnce
  <2>3. k = j + TimesIn(b, BetsBy({u}, run.batch))
    <3>1. referee[u].volume \in Seq(Bets)
      BY <2>1 DEF RefereeRows
    <3>2. referee'[u].volume = referee[u].volume \o BetsBy({u}, run.batch)
      BY <2>1, TradedRow
    <3>3. \A s \in Seq(Bets), t \in Seq(Bets) : TimesIn(b, s \o t) = TimesIn(b, s) + TimesIn(b, t)
      BY TimesAdd
    <3>4. TimesIn(b, referee[u].volume \o BetsBy({u}, run.batch))
            = j + TimesIn(b, BetsBy({u}, run.batch))
      BY <2>1, <3>1, <3>3
    <3> QED BY <3>2, <3>4
  <2>4. TimesIn(b, BetsBy({u}, run.batch)) = IF Bettor[b] = u THEN Carried(b) ELSE 0
    BY BetsByTimes DEF Carried, TypeOK, RunStates
  <2>5. run.pc = "volumes" /\ run'.pc = "fees" /\ run.latest <= LastTimestamp'
    BY <1>1, <1>5, Course, Stamped
  <2> HIDE DEF j
  <2>6. k = j \/ k = j + Carried(b)
    BY <2>2, <2>3, <2>4
  <2> QED BY <2>2, <2>5, <2>6, AddedKept
<1>6. CASE ~SaveVolumes /\ referee'[u] # referee[u]
  <2>1. Register(u)
    <3>1. referee' # referee
      BY <1>6
    <3>2. \E v \in Referees : Register(v)
      BY <1>6, <3>1, Paged, Failed, Started, Ended
         DEF Next, vars, SaveVolumesFails, CloseRound, Tick
    <3> QED BY <1>1, <1>6, <3>2, NewRow
  <2>2. k = 0
    <3>1. referee'[u].volume = <<>>
      BY <1>1, <2>1, NewRow
    <3>2. <<>> \in Seq(Bets)
      OBVIOUS
    <3> QED BY <3>1, <3>2, TimesTyped
  <2>3. Before(0, b)
    BY <1>2, Numbered DEF BatchOnce, Added
  <2> QED BY <1>3, <1>6, <2>2, <2>3
<1> QED BY <1>4, <1>5, <1>6

LEMMA PaidKept ==
  ASSUME TypeOK, TypeOK', Clocked, Clocked', PaidOnce, [Next]_vars
  PROVE  PaidOnce'
<1> DEFINE Before(k, b) == IF run.pc # "idle" THEN Adding(k, b) ELSE Added(k, b)
<1> SUFFICES ASSUME NEW a \in Affiliates, fee'[a] # NoRow, NEW b \in Bets,
                    NEW k, k = TimesIn(b, fee'[a].paid)
             PROVE  Before(k, b)'
  BY DEF PaidOnce
<1>1. CASE fee'[a] = fee[a]
  <2>1. k \in Nat /\ Before(k, b)
    BY <1>1, RowTimes DEF PaidOnce
  <2>2. CASE run.pc # "idle"
    BY <2>1, <2>2, AddingKept, AddedKept
  <2>3. CASE run.pc = "idle"
    BY <2>1, <2>3, AddingStarted, AddedKept, Course
  <2> QED BY <2>2, <2>3
<1>2. CASE fee'[a] # fee[a]
  <2>1. SaveFees
    <3>1. fee' # fee
      BY <1>2
    <3>2. \A u \in Referees : ~Register(u)
      BY <3>1, NewRow
    <3> QED BY <3>1, <3>2, Paged, Failed, Started, ToFees
            DEF Next, vars, RunEnds, CloseRound, Tick
  <2>2. /\ fee[a] # NoRow /\ fee[a] \in FeeRows
        /\ BetsBy(RefereesOf(a), run.batch) \in Seq(Bets)
        /\ fee'[a] = Paid(a, BetsBy(RefereesOf(a), run.batch))
    BY <1>2, <2>1, FeesSaved
  <2> DEFINE j == TimesIn(b, fee[a].paid)
  <2>3. run.pc = "fees" /\ run'.pc = "idle" /\ run.latest <= LastTimestamp'
    BY <1>2, <2>1, Course, Stamped
  <2>4. j \in Nat /\ Adding(j, b)
    BY <2>2, <2>3, RowTimes DEF PaidOnce
  <2>5. k = j + TimesIn(b, BetsBy(RefereesOf(a), run.batch))
    <3>1. fee[a].paid \in Seq(Bets)
      BY <2>2 DEF FeeRows
    <3>2. fee'[a].paid = fee[a].paid \o BetsBy(RefereesOf(a), run.batch)
      BY <2>2, PaidRow
    <3> QED BY <2>2, <3>1, <3>2, TimesAdd
  <2>6. TimesIn(b, BetsBy(RefereesOf(a), run.batch)) =
          IF Bettor[b] \in RefereesOf(a) THEN Carried(b) ELSE 0
    BY BetsByTimes DEF Carried, TypeOK, RunStates
  <2> HIDE DEF j
  <2>7. k = j \/ k = j + Carried(b)
    BY <2>4, <2>5, <2>6
  <2> QED BY <2>3, <2>4, <2>7, AddedKept
<1> QED BY <1>1, <1>2

-----------------------------------------------------------------------------
(* What the pages pass is in the batch, and what lastTimestamp passes is paid. *)

LEMMA ContainsAdd ==
  ASSUME NEW S, NEW s \in Seq(S), NEW t \in Seq(S), NEW b
  PROVE  Contains(s \o t, b) <=> Contains(s, b) \/ Contains(t, b)
<1>1. s \o t \in Seq(S)
  OBVIOUS
<1>2. TimesIn(b, s \o t) # 0 <=> TimesIn(b, s) # 0 \/ TimesIn(b, t) # 0
  <2>1. TimesIn(b, s) \in Nat /\ TimesIn(b, t) \in Nat
    BY TimesTyped
  <2> QED BY <2>1, TimesAdd
<1>3. /\ Contains(s \o t, b) <=> TimesIn(b, s \o t) # 0
      /\ Contains(s, b) <=> TimesIn(b, s) # 0
      /\ Contains(t, b) <=> TimesIn(b, t) # 0
  BY <1>1, TimesSome, Zenon
<1> QED BY <1>2, <1>3, Zenon

LEMMA SkipsKept ==
  ASSUME TypeOK, TypeOK', Clocked, Clocked', SkipsPassed, [Next]_vars
  PROVE  SkipsPassed'
<1> SUFFICES ASSUME run'.pc = "fetch"
             PROVE  Cardinality({b \in Selected : endAt[b] <= run.latest})' >= run'.skip
  BY DEF SkipsPassed
<1> DEFINE passed == {b \in Selected : endAt[b] <= run.latest}
<1>1. /\ IsFiniteSet(passed') /\ Cardinality(passed') \in Nat
      /\ IsFiniteSet(passed) /\ Cardinality(passed) \in Nat
  <2>1. IsFiniteSet(Selected) /\ IsFiniteSet(Selected')
    <3>1. Selected \in SUBSET closed /\ Selected' \in SUBSET (closed')
      BY DEF Selected
    <3> QED BY <3>1, FS_Subset DEF Clocked
  <2>2. passed \in SUBSET Selected /\ passed' \in SUBSET (Selected')
    OBVIOUS
  <2> HIDE DEF passed
  <2> QED BY <2>1, <2>2, FS_Subset, FS_CardinalityType
<1>2. CASE StartRun
  BY <1>1, <1>2, Started
<1>3. CASE FetchPage
  <2>1. Len(Page) = PageSize /\ run'.skip = run.skip + PageSize
    <3>1. Len(Page) \in Nat /\ Len(Page) <= PageSize
      BY PageHolds DEF Clocked
    <3>2. ~(Len(Page) < PageSize)
      BY <1>3, Paged DEF Fetched
    <3> QED BY <1>3, <3>1, <3>2, Paged, Constants
  <2>2. Page # <<>>
    BY <2>1, Constants
  <2>3. passed' = {b \in Selected : endAt[b] <= endAt[Last(Page)]}
    BY <1>3, <2>2, Paged DEF Selected
  <2> QED BY <2>1, <2>3, PageHolds DEF Clocked
<1>4. CASE FetchFails
  <2>1. passed' = passed /\ run'.skip = run.skip /\ run.pc = "fetch"
    BY <1>4, Failed DEF Selected
  <2> QED BY <2>1 DEF SkipsPassed
<1>5. ASSUME run' = run, endAt' = endAt, closed \subseteq closed'
      PROVE  Cardinality(passed') >= run'.skip
  <2>1. passed \in SUBSET (passed')
    BY <1>5 DEF Selected
  <2>2. Cardinality(passed) <= Cardinality(passed')
    <3> HIDE DEF passed
    <3> QED BY <1>1, <2>1, FS_Subset
  <2>3. Cardinality(passed) >= run.skip /\ run.skip \in Nat
    BY <1>5 DEF SkipsPassed, TypeOK, RunStates
  <2> HIDE DEF passed
  <2> QED BY <1>1, <1>5, <2>2, <2>3
<1>6. ASSUME NEW u \in Referees, Register(u) PROVE Cardinality(passed') >= run'.skip
  BY <1>5, <1>6, NewRow
<1>7. ASSUME NEW c \in Bets, CloseRound(c) PROVE Cardinality(passed') >= run'.skip
  BY <1>5, <1>7 DEF CloseRound
<1>8. CASE Tick \/ UNCHANGED vars
  BY <1>5, <1>8 DEF Tick, vars
<1> QED BY <1>2, <1>3, <1>4, <1>6, <1>7, <1>8, ToFees, Ended DEF Next

LEMMA HoldsKept ==
  ASSUME TypeOK, TypeOK', Clocked, Clocked', BatchHolds, SkipsPassed, [Next]_vars
  PROVE  BatchHolds'
<1> SUFFICES ASSUME run'.pc # "idle", NEW b \in closed', b \notin lost', Alone(b)',
                    run'.last < endAt'[b], endAt'[b] <= run'.latest
             PROVE  Contains(run'.batch, b)
  BY DEF BatchHolds
<1>1. b \in Bets /\ endAt' = endAt
  BY Course DEF TypeOK
<1>2. Alone(b)
  BY <1>1 DEF Alone
<1>3. ASSUME run'.last = run.last, run'.latest = run.latest, run'.batch = run.batch,
             run.pc # "idle", closed' = closed, lost' = lost
      PROVE  Contains(run'.batch, b)
  BY <1>1, <1>2, <1>3 DEF BatchHolds
<1>4. CASE StartRun
  <2>1. endAt[b] \in Nat /\ LastTimestamp \in Nat
    BY <1>1, Numbered, Stamped, Constants DEF Times
  <2> QED BY <1>1, <1>4, <2>1, Started
<1>5. CASE FetchPage
  <2>1. /\ run.pc = "fetch" /\ run'.last = run.last
        /\ run'.batch = run.batch \o Page
        /\ run'.latest = IF Page = <<>> THEN run.latest ELSE endAt[Last(Page)]
        /\ closed' = closed /\ lost' = lost
    BY <1>5, Paged
  <2>2. run.batch \in Seq(Bets) /\ Page \in Seq(Bets)
    BY PageHolds DEF Clocked, TypeOK, RunStates
  <2>3. CASE Contains(run.batch, b)
    BY <2>1, <2>2, <2>3, ContainsAdd
  <2>4. CASE ~Contains(run.batch, b)
    <3>1. b \in Selected /\ endAt[b] > run.latest
      <4>1. endAt[b] \in Nat /\ run.latest \in Nat
        BY <1>1, Numbered
      <4> QED BY <1>1, <1>2, <2>1, <2>4, <4>1 DEF BatchHolds, Selected
    <3>2. run.skip < PagePlace(b)
      <4> DEFINE passed == {c \in Selected : endAt[c] <= run.latest}
                 up == {c \in Selected : <<c, b>> \in ByEnd}
      <4>1. passed \in SUBSET up /\ b \in up /\ b \notin passed
        <5>1. \A c \in Selected : c \in Bets /\ endAt[c] \in Nat /\ run.latest \in Nat
          BY Placed, Numbered
        <5>2. ASSUME NEW c \in passed PROVE c \in up
          BY <3>1, <5>1 DEF ByEnd
        <5>3. b \in up /\ b \notin passed
          BY <3>1, <5>1, Placed DEF Orders
        <5> QED BY <5>2, <5>3
      <4>2. IsFiniteSet(up)
        <5>1. up \in SUBSET Selected
          OBVIOUS
        <5> HIDE DEF up
        <5> QED BY <5>1, Placed, FS_Subset
      <4>3. Cardinality(passed) >= run.skip
        BY <2>1 DEF SkipsPassed
      <4>4. PagePlace(b) = Cardinality(up)
        BY DEF PagePlace, Place
      <4> HIDE DEF passed, up
      <4>5. Cardinality(passed) <= Cardinality(up) /\ Cardinality(passed) # Cardinality(up)
        BY <4>1, <4>2, FS_Subset
      <4>6. Cardinality(passed) \in Nat /\ Cardinality(up) \in Nat /\ run.skip \in Nat
        BY <4>1, <4>2, FS_Subset, FS_CardinalityType, Numbered, <1>1
      <4> QED BY <4>3, <4>4, <4>5, <4>6
    <3>3. Page # <<>> /\ endAt[b] <= endAt[Last(Page)]
      <4>1. endAt[b] \in Nat /\ run.latest \in Nat
        BY <1>1, Numbered
      <4> QED BY <1>1, <2>1, <3>1, <4>1
    <3>4. PagePlace(b) <= run.skip + PageSize
      <4>1. Last(Page) \in Selected /\ Last(Page) \in Bets
        BY <3>3, PageHolds, Placed DEF Clocked
      <4>2. CASE endAt[b] < endAt[Last(Page)]
        BY <3>1, <3>3, <4>2, PageHolds DEF Clocked
      <4>3. CASE endAt[b] = endAt[Last(Page)]
        <5>1. b = Last(Page)
          BY <1>2, <4>1, <4>3 DEF Alone
        <5>2. Contains(Page, b)
          BY <2>2, <3>3, <5>1 DEF Last, Contains
        <5>3. TimesIn(b, Page) # 0
          BY <2>2, <5>2, TimesSome, Zenon
        <5> QED BY <1>1, <5>3, PageHolds DEF Clocked
      <4> QED BY <1>1, <3>3, <4>1, <4>2, <4>3, Numbered
    <3>5. TimesIn(b, Page) = 1
      BY <1>1, <3>1, <3>2, <3>4, PageHolds DEF Clocked
    <3>6. Contains(Page, b)
      <4>1. TimesIn(b, Page) # 0
        BY <3>5
      <4> QED BY <2>2, <4>1, TimesSome, Zenon
    <3> QED BY <2>1, <2>2, <3>6, ContainsAdd
  <2> QED BY <2>3, <2>4
<1>6. CASE FetchFails
  BY <1>3, <1>6, Failed
<1>7. CASE SaveVolumes \/ SaveVolumesFails
  BY <1>3, <1>7, ToFees
<1>8. ASSUME NEW u \in Referees, Register(u) PROVE FALSE
  <2>1. closed' = closed /\ lost' = lost \cup {c \in Bets : endAt[c] <= now}
    BY <1>8 DEF Register
  <2> QED BY <1>1, <2>1 DEF Clocked
<1>9. ASSUME NEW c \in Bets, CloseRound(c) PROVE Contains(run'.batch, b)
  <2>1. run' = run /\ closed' = closed \cup {c} /\ lost \subseteq lost'
    BY <1>9 DEF CloseRound
  <2>2. CASE b = c
    BY <1>1, <1>9, <2>1, <2>2 DEF CloseRound
  <2>3. CASE b # c
    BY <1>1, <1>2, <2>1, <2>3 DEF BatchHolds
  <2> QED BY <2>2, <2>3
<1>10. CASE Tick \/ UNCHANGED vars
  BY <1>3, <1>10 DEF Tick, vars
<1> QED BY <1>4, <1>5, <1>6, <1>7, <1>8, <1>9, <1>10, Ended DEF Next

LEMMA PassedKept ==
  ASSUME TypeOK, TypeOK', Clocked, Clocked', BatchHolds, PassedIsPaid, [Next]_vars
  PROVE  PassedIsPaid'
<1> SUFFICES ASSUME NEW b \in closed', b \notin lost', NEW a, a = AffiliateOf[Bettor[b]],
                    Bettor[b] \in Registered', referee'[Bettor[b]].createdAt < endAt'[b],
                    fee'[a] # NoRow, endAt'[b] <= LastTimestamp',
                    ~(run'.pc = "fees" /\ Contains(run'.batch, b)),
                    \A c \in Bets \ {b} : endAt'[c] # endAt'[b]
             PROVE  Contains(fee'[a].paid, b)
  BY DEF PassedIsPaid
<1>1. /\ b \in Bets /\ endAt' = endAt /\ a \in Affiliates /\ Bettor[b] \in Referees
      /\ referee'[Bettor[b]] # NoRow
  BY Course, Constants DEF TypeOK, Registered
<1>2. Alone(b) /\ \A c \in Bets \ {b} : endAt[c] # endAt[b]
  BY <1>1 DEF Alone
<1>3. /\ LastTimestamp \in Nat /\ LastTimestamp' \in Nat /\ endAt[b] \in Nat
      /\ run.last \in Nat /\ run.latest \in Nat
  <2>1. LastTimestamp \in Times /\ LastTimestamp' \in Times
    BY Stamped
  <2> QED BY <1>1, <2>1, Numbered, Constants DEF Times
<1>4. ASSUME b \in closed, b \notin lost, fee[a] # NoRow, referee[Bettor[b]] # NoRow,
             referee[Bettor[b]].createdAt = referee'[Bettor[b]].createdAt,
             endAt[b] <= LastTimestamp, run.pc # "fees" \/ ~Contains(run.batch, b)
      PROVE  Contains(fee[a].paid, b)
  BY <1>1, <1>2, <1>4 DEF PassedIsPaid, Registered
<1>5. ASSUME b \in closed, b \notin lost, LastTimestamp < endAt[b], endAt[b] <= run.latest,
             run.pc # "idle"
      PROVE  Contains(run.batch, b)
  BY <1>2, <1>3, <1>5 DEF BatchHolds, Clocked
<1>6. ASSUME UNCHANGED <<closed, referee, fee, lost>>, run.pc # "fees"
      PROVE  Contains(fee'[a].paid, b)
  BY <1>1, <1>4, <1>6, Stamped
<1>7. CASE StartRun \/ FetchPage \/ FetchFails
  BY <1>6, <1>7, Started, Paged, Failed
<1>8. CASE SaveVolumesFails
  BY <1>6, <1>8, ToFees DEF SaveVolumesFails
<1>9. CASE SaveVolumes
  <2>1. /\ run.pc = "volumes" /\ run'.pc = "fees" /\ run'.batch = run.batch
        /\ UNCHANGED <<endAt, closed, fee, lost>>
    BY <1>9, ToFees
  <2>2. /\ referee[Bettor[b]] # NoRow
        /\ referee[Bettor[b]].createdAt = referee'[Bettor[b]].createdAt
    <3> DEFINE u == Bettor[b]
    <3>1. CASE referee'[u] = referee[u]
      BY <1>1, <3>1
    <3>2. CASE referee'[u] # referee[u]
      <4>1. /\ referee[u] # NoRow /\ referee[u] \in RefereeRows
            /\ BetsBy({u}, run.batch) \in Seq(Bets)
            /\ referee'[u] = Traded(referee[u], BetsBy({u}, run.batch))
        BY <1>1, <1>9, <3>2, VolumesSaved
      <4> HIDE DEF u
      <4>2. referee'[u].createdAt = referee[u].createdAt
        BY <4>1, TradedRow
      <4> QED BY <4>1, <4>2 DEF u
    <3> QED BY <3>1, <3>2
  <2>3. CASE endAt[b] <= LastTimestamp
    BY <1>4, <2>1, <2>2, <2>3
  <2>4. CASE LastTimestamp < endAt[b]
    <3>1. LastTimestamp' <= run.latest
      BY <1>1, <1>3, <1>9, <2>4, Stamped
    <3> QED BY <1>1, <1>3, <1>5, <2>1, <2>4, <3>1
  <2> QED BY <1>3, <2>3, <2>4
<1>10. CASE SaveFees
  <2>1. run.pc = "fees" /\ UNCHANGED <<endAt, closed, referee, lost>>
    BY <1>10 DEF SaveFees
  <2>2. /\ fee[a] # NoRow /\ fee[a] \in FeeRows
        /\ BetsBy(RefereesOf(a), run.batch) \in Seq(Bets)
        /\ \/ fee'[a] = fee[a] /\ BetsBy(RefereesOf(a), run.batch) = <<>>
           \/ fee'[a] = Paid(a, BetsBy(RefereesOf(a), run.batch))
    BY <1>1, <1>10, FeesSaved
  <2>3. ASSUME Contains(run.batch, b) PROVE Contains(BetsBy(RefereesOf(a), run.batch), b)
    <3>1. run.batch \in Seq(Bets)
      BY DEF TypeOK, RunStates
    <3>2. TimesIn(b, run.batch) # 0
      BY <2>3, <3>1, TimesSome, Zenon
    <3>3. Bettor[b] \in RefereesOf(a)
      BY <1>1, <2>1 DEF RefereesOf, Registered
    <3>4. TimesIn(b, BetsBy(RefereesOf(a), run.batch)) # 0
      BY <1>1, <3>1, <3>2, <3>3, BetsByTimes
    <3> QED BY <2>2, <3>4, TimesSome, Zenon
  <2>4. Contains(fee[a].paid, b) \/ Contains(BetsBy(RefereesOf(a), run.batch), b)
    <3>1. CASE Contains(run.batch, b)
      BY <2>3, <3>1
    <3>2. CASE endAt[b] <= LastTimestamp /\ ~Contains(run.batch, b)
      BY <1>1, <1>4, <2>1, <2>2, <3>2
    <3>3. CASE LastTimestamp < endAt[b] /\ ~Contains(run.batch, b)
      <4>1. LastTimestamp' <= run.latest
        BY <1>1, <1>3, <1>10, <3>3, Stamped
      <4> QED BY <1>1, <1>3, <1>5, <2>1, <3>3, <4>1
    <3> QED BY <1>3, <3>1, <3>2, <3>3
  <2>5. fee[a].paid \in Seq(Bets)
    BY <2>2 DEF FeeRows
  <2>6. CASE fee'[a] = fee[a] /\ BetsBy(RefereesOf(a), run.batch) = <<>>
    <3>1. ~Contains(<<>>, b)
      BY DEF Contains
    <3> QED BY <2>4, <2>6, <3>1, Zenon
  <2>7. CASE fee'[a] = Paid(a, BetsBy(RefereesOf(a), run.batch))
    <3>1. fee'[a].paid = fee[a].paid \o BetsBy(RefereesOf(a), run.batch)
      BY <1>1, <2>2, <2>7, PaidRow
    <3>2. Contains(fee[a].paid \o BetsBy(RefereesOf(a), run.batch), b)
      BY <2>2, <2>4, <2>5, ContainsAdd
    <3> QED BY <3>1, <3>2
  <2> QED BY <2>2, <2>6, <2>7
<1>11. CASE RunEnds
  <2>1. /\ UNCHANGED <<closed, referee, fee>> /\ lost \subseteq lost'
        /\ run.pc = "fees" => lost' = lost \cup ToSet(run.batch)
    BY <1>11 DEF RunEnds
  <2>2. run.pc # "fees" \/ ~Contains(run.batch, b)
    <3>1. Contains(run.batch, b) => b \in ToSet(run.batch)
      <4> SUFFICES ASSUME NEW i \in DOMAIN run.batch, run.batch[i] = b
                   PROVE  b \in ToSet(run.batch)
        BY DEF Contains
      <4> QED BY DEF ToSet
    <3> QED BY <2>1, <3>1
  <2>3. LastTimestamp' = LastTimestamp
    BY <2>1, Stamped
  <2> QED BY <1>1, <1>4, <2>1, <2>2, <2>3
<1>12. ASSUME NEW u \in Referees, Register(u) PROVE FALSE
  <2>1. closed' = closed /\ lost' = lost \cup {c \in Bets : endAt[c] <= now}
    BY <1>12 DEF Register
  <2> QED BY <1>1, <2>1 DEF Clocked
<1>13. ASSUME NEW c \in Bets, CloseRound(c) PROVE Contains(fee'[a].paid, b)
  <2>1. /\ UNCHANGED <<referee, fee, run>> /\ closed' = closed \cup {c} /\ lost \subseteq lost'
        /\ endAt[c] <= LastTimestamp => c \in lost'
    BY <1>13 DEF CloseRound
  <2>2. LastTimestamp' = LastTimestamp
    BY <2>1, Stamped
  <2>3. b # c
    BY <1>1, <2>1, <2>2
  <2> QED BY <1>1, <1>4, <2>1, <2>2, <2>3
<1>14. CASE Tick \/ UNCHANGED vars
  <2>1. UNCHANGED <<closed, referee, fee, lost, run>>
    BY <1>14 DEF Tick, vars
  <2>2. LastTimestamp' = LastTimestamp
    BY <2>1, Stamped
  <2> QED BY <1>1, <1>4, <2>1, <2>2
<1> QED BY <1>7, <1>8, <1>9, <1>10, <1>11, <1>12, <1>13, <1>14 DEF Next

-----------------------------------------------------------------------------
(* Tiers are earned. *)

\* What the steps do to the volumes: a row is new, grows by a save, which
\* qualifies it by its length, or stays.
LEMMA VolumesGrow ==
  ASSUME TypeOK, [Next]_vars, NEW u \in Referees
  PROVE  \/ referee'[u] = referee[u]
         \/ referee[u] = NoRow /\ referee'[u] # NoRow /\ ~referee'[u].qualified
         \/ /\ referee[u] # NoRow /\ referee'[u] # NoRow
            /\ ~referee[u].qualified
            /\ Len(referee'[u].volume) >= Len(referee[u].volume)
            /\ referee'[u].qualified => Len(referee'[u].volume) >= WeekAmount
<1>1. CASE SaveVolumes /\ referee'[u] # referee[u]
  <2>1. /\ referee[u] # NoRow /\ referee'[u] # NoRow /\ ~referee[u].qualified
        /\ referee[u] \in RefereeRows
        /\ BetsBy({u}, run.batch) \in Seq(Bets)
        /\ referee'[u] = Traded(referee[u], BetsBy({u}, run.batch))
    BY <1>1, VolumesSaved
  <2>2. referee[u].volume \in Seq(Bets)
    BY <2>1 DEF RefereeRows
  <2>3. referee'[u].volume = referee[u].volume \o BetsBy({u}, run.batch)
    BY <2>1, TradedRow
  <2>4. /\ Len(referee'[u].volume) = Len(referee[u].volume) + Len(BetsBy({u}, run.batch))
        /\ Len(referee'[u].volume) >= Len(referee[u].volume)
    <3>1. ASSUME NEW s \in Seq(Bets), NEW t \in Seq(Bets)
          PROVE  Len(s \o t) = Len(s) + Len(t) /\ Len(s \o t) >= Len(s)
      OBVIOUS
    <3> QED BY <2>1, <2>2, <2>3, <3>1
  <2>5. ASSUME referee'[u].qualified PROVE Len(referee'[u].volume) >= WeekAmount
    <3>1. Traded(referee[u], BetsBy({u}, run.batch)).qualified
      BY <2>1, <2>5, Zenon
    <3>2. Len(referee[u].volume) + Len(BetsBy({u}, run.batch)) >= WeekAmount
      BY <2>1, <3>1, TradedRow, Zenon
    <3> QED BY <2>4, <3>2
  <2> QED BY <2>1, <2>4, <2>5, Zenon
<1>2. ASSUME NEW v \in Referees, Register(v)
      PROVE  \/ referee'[u] = referee[u]
             \/ referee[u] = NoRow /\ referee'[u] # NoRow /\ ~referee'[u].qualified
  BY <1>2, NewRow
<1>3. CASE ~SaveVolumes /\ \A v \in Referees : ~Register(v)
  BY <1>3, Started, Paged, Failed, Ended DEF Next, vars, SaveVolumesFails, CloseRound, Tick
<1> QED BY <1>1, <1>2, <1>3

LEMMA QualifiedKept ==
  ASSUME TypeOK, QualifiedByVolume, [Next]_vars
  PROVE  QualifiedByVolume'
<1> SUFFICES ASSUME NEW u \in Referees, referee'[u] # NoRow, referee'[u].qualified
             PROVE  Len(referee'[u].volume) >= WeekAmount
  BY DEF QualifiedByVolume, Registered
<1> QED BY VolumesGrow DEF QualifiedByVolume, Registered

\* The referees of an affiliate whose volume is enough.
Earning(a) == {u \in RefereesOf(a) : Len(referee[u].volume) >= WeekAmount}

LEMMA EarningGrows ==
  ASSUME TypeOK, TypeOK', [Next]_vars, NEW a \in Affiliates
  PROVE  /\ Cardinality(Earning(a)) \in Nat /\ Cardinality(Earning(a)') \in Nat
         /\ TierByReferee(Cardinality(Earning(a))) \in Nat
         /\ TierByReferee(Cardinality(Earning(a)')) \in Nat
         /\ TierByReferee(Cardinality(Earning(a))) <= TierByReferee(Cardinality(Earning(a)'))
<1>1. ASSUME NEW u \in Earning(a) PROVE u \in Earning(a)'
  <2>1. /\ u \in Referees /\ referee[u] # NoRow /\ AffiliateOf[u] = a
        /\ Len(referee[u].volume) >= WeekAmount
    BY DEF Earning, RefereesOf, Registered
  <2>2. referee'[u] # NoRow /\ Len(referee'[u].volume) >= WeekAmount
    <3>1. CASE referee'[u] = referee[u]
      BY <2>1, <3>1
    <3>2. CASE referee'[u] # referee[u]
      <4>1. referee'[u] # NoRow /\ Len(referee'[u].volume) >= Len(referee[u].volume)
        BY <2>1, <3>2, VolumesGrow
      <4>2. Len(referee[u].volume) \in Nat /\ Len(referee'[u].volume) \in Nat
        <5>1. referee[u] \in RefereeRows /\ referee'[u] \in RefereeRows
          BY <2>1, <4>1 DEF TypeOK
        <5> QED BY <5>1 DEF RefereeRows
      <4> QED BY <2>1, <4>1, <4>2, Constants
    <3> QED BY <3>1, <3>2
  <2> QED BY <2>1, <2>2 DEF Earning, RefereesOf, Registered
<1>2. Earning(a)' \subseteq Referees /\ Earning(a) \subseteq Earning(a)'
  BY <1>1 DEF Earning, RefereesOf, Registered
<1>3. /\ Cardinality(Earning(a)) \in Nat /\ Cardinality(Earning(a)') \in Nat
      /\ Cardinality(Earning(a)) <= Cardinality(Earning(a)')
  BY <1>2, Counted
<1>4. Len(Eligible) \in Nat
  BY AffiliateAssumption
<1> QED BY <1>3, <1>4, TiersGrow

LEMMA TiersKept ==
  ASSUME TypeOK, TypeOK', Clocked, QualifiedByVolume, TierEarned, [Next]_vars
  PROVE  TierEarned'
<1> SUFFICES ASSUME NEW a \in Affiliates, fee'[a] # NoRow
             PROVE  fee'[a].tier <= TierByReferee(Cardinality(Earning(a)'))
  BY DEF TierEarned, Earning, RefereesOf, Registered
<1>1. fee[a] # NoRow => fee[a] \in FeeRows /\ fee[a].tier \in Nat
  BY DEF TypeOK, FeeRows
<1>2. fee[a] # NoRow => fee[a].tier <= TierByReferee(Cardinality(Earning(a)))
  BY DEF TierEarned, Earning
<1>3. CASE fee'[a] = fee[a]
  BY <1>1, <1>2, <1>3, EarningGrows
<1>4. CASE fee'[a] # fee[a]
  <2>1. SaveFees
    <3>1. fee' # fee
      BY <1>4
    <3>2. \A u \in Referees : ~Register(u)
      BY <3>1, NewRow
    <3> QED BY <3>1, <3>2, Paged, Failed, Started, ToFees
            DEF Next, vars, RunEnds, CloseRound, Tick
  <2>2. /\ fee[a] # NoRow /\ BetsBy(RefereesOf(a), run.batch) \in Seq(Bets)
        /\ fee'[a] = Paid(a, BetsBy(RefereesOf(a), run.batch))
    BY <1>4, <2>1, FeesSaved
  <2>3. fee'[a].tier = Max({fee[a].tier, TierByReferee(Qualified(a))})
    BY <2>2, PaidRow
  <2>4. TierByReferee(Qualified(a)) <= TierByReferee(Cardinality(Earning(a)))
    <3> DEFINE qualified == {u \in RefereesOf(a) : referee[u].qualified}
    <3>1. qualified \subseteq Earning(a) /\ Earning(a) \subseteq Referees
      BY DEF QualifiedByVolume, Earning, RefereesOf, Registered
    <3>2. Qualified(a) = Cardinality(qualified)
      BY DEF Qualified
    <3> HIDE DEF qualified
    <3>3. /\ Qualified(a) \in Nat /\ Cardinality(Earning(a)) \in Nat
          /\ Qualified(a) <= Cardinality(Earning(a))
      BY <3>1, <3>2, Counted
    <3> QED BY <3>3, TiersGrow
  <2>5. TierByReferee(Qualified(a)) \in Nat
    BY TierTyped, AffiliateAssumption
  <2> QED BY <1>1, <1>2, <2>2, <2>3, <2>4, <2>5, EarningGrows, MaxOfTwo
<1> QED BY <1>3, <1>4

-----------------------------------------------------------------------------
(* The theorems. *)

LEMMA Starts == Init => IInv
<1> SUFFICES ASSUME Init PROVE IInv
  OBVIOUS
<1> USE Constants
<1>1. TypeOK
  <2>1. [paid |-> <<>>, tier |-> Bronze, updatedAt |-> 0] \in FeeRows
    BY AffiliateAssumption DEF FeeRows, Bronze, Times
  <2>2. run \in RunStates
    BY DEF Init, Idle, RunStates, Times
  <2> QED BY <2>1, <2>2 DEF Init, TypeOK, Times
<1>2. run = Idle /\ closed = {} /\ Registered = {} /\ shifts = 0
  BY DEF Init, Registered
<1>3. \A a \in Affiliates : fee[a] # NoRow =>
        fee[a].paid = <<>> /\ fee[a].tier = Bronze
  BY DEF Init
<1>4. Clocked
  BY <1>2, FS_EmptySet DEF Clocked, Idle
<1>5. BatchOnce /\ VolumesOnce /\ BatchHolds /\ SkipsPassed /\ PassedIsPaid /\ QualifiedByVolume
  BY <1>2 DEF BatchOnce, VolumesOnce, BatchHolds, SkipsPassed, PassedIsPaid, QualifiedByVolume, Idle
<1>6. PaidOnce
  <2> SUFFICES ASSUME NEW a \in Affiliates, NEW b \in Bets, fee[a] # NoRow
               PROVE  Added(TimesIn(b, fee[a].paid), b)
    BY <1>2 DEF PaidOnce, Idle
  <2>1. <<>> \in Seq(Bets)
    OBVIOUS
  <2>2. TimesIn(b, fee[a].paid) = 0
    BY <1>3, <2>1, TimesTyped
  <2> QED BY <1>2, <2>2 DEF Added
<1>7. TierEarned
  <2> SUFFICES ASSUME NEW a \in Affiliates, fee[a] # NoRow
               PROVE  fee[a].tier <= TierByReferee(Cardinality(Earning(a)))
    BY DEF TierEarned, Earning
  <2>1. Cardinality(Earning(a)) \in Nat
    BY Counted DEF Earning, RefereesOf, Registered
  <2>2. TierByReferee(Cardinality(Earning(a))) \in 1..(1 + Len(Eligible)) /\ Len(Eligible) \in Nat
    BY <2>1, TiersGrow, AffiliateAssumption
  <2> QED BY <1>3, <2>2 DEF Bronze
<1> QED BY <1>1, <1>4, <1>5, <1>6, <1>7 DEF IInv

\* The inductive invariant holds throughout, for any users, trades and levels.
THEOREM Invariance == Spec => []IInv
<1>1. IInv /\ [Next]_vars => IInv'
  <2> SUFFICES ASSUME IInv, [Next]_vars PROVE IInv'
    OBVIOUS
  <2> USE DEF IInv
  <2>1. TypeOK'
    BY TypeKept
  <2>2. Clocked'
    BY <2>1, ClockedKept
  <2>3. BatchOnce' /\ VolumesOnce' /\ PaidOnce'
    BY <2>1, <2>2, BatchKept, VolumesKept, PaidKept
  <2>4. BatchHolds' /\ SkipsPassed' /\ PassedIsPaid'
    BY <2>1, <2>2, HoldsKept, SkipsKept, PassedKept
  <2>5. QualifiedByVolume' /\ TierEarned'
    BY <2>1, QualifiedKept, TiersKept
  <2> QED BY <2>1, <2>2, <2>3, <2>4, <2>5
<1> QED BY <1>1, Starts, PTL DEF Spec

\* The tables, the call and the history keep their shapes, whatever fails.
THEOREM TypeCorrect == Spec => []TypeOK
<1>1. IInv => TypeOK
  BY DEF IInv
<1> QED BY <1>1, Invariance, PTL

\* No bet is added twice to a volume or to a fee, but for one time for each
\* round closed while pages are being fetched.
THEOREM BetsAreCreditedOnce == Spec => []CreditedOnce
<1>1. IInv => CreditedOnce
  <2> SUFFICES ASSUME IInv, NEW b \in Bets
               PROVE  /\ \A u \in Registered : TimesIn(b, referee[u].volume) <= 1 + shifts
                      /\ \A a \in Affiliates : fee[a] # NoRow =>
                           TimesIn(b, fee[a].paid) <= 1 + shifts
    BY DEF CreditedOnce
  <2>1. TypeOK
    BY DEF IInv
  <2>2. ASSUME NEW k \in Nat, Adding(k, b) \/ Added(k, b) PROVE k <= 1 + shifts
    BY <2>1, <2>2, Numbered DEF Adding, Added
  <2>3. ASSUME NEW u \in Registered PROVE TimesIn(b, referee[u].volume) <= 1 + shifts
    BY <2>1, <2>2, <2>3, RowTimes DEF IInv, VolumesOnce
  <2>4. ASSUME NEW a \in Affiliates, fee[a] # NoRow PROVE TimesIn(b, fee[a].paid) <= 1 + shifts
    BY <2>1, <2>2, <2>4, RowTimes DEF IInv, PaidOnce
  <2> QED BY <2>3, <2>4
<1> QED BY <1>1, Invariance, PTL

\* What lastTimestamp has passed is paid, but for what the history has lost.
THEOREM WhatIsPassedIsPaid == Spec => []PassedIsPaid
<1>1. IInv => PassedIsPaid
  BY DEF IInv
<1> QED BY <1>1, Invariance, PTL

\* No affiliate has a tier that the volumes of its referees do not earn.
THEOREM TiersAreEarned == Spec => []TierEarned
<1>1. IInv => TierEarned
  BY DEF IInv
<1> QED BY <1>1, Invariance, PTL

=============================================================================
